---------------------------- MODULE MCPresence ----------------------------
(* Small instances of Presence for TLC. *)
EXTENDS Presence, TLC

\* Nothing distinguishes the sockets, nor the rooms.
Symmetry == Permutations(Clients) \cup Permutations(Rooms)
=============================================================================
