------------------------- MODULE MCScheduledGames -------------------------
(* Small instances of ScheduledGames for TLC. *)
EXTENDS ScheduledGames, TLC

\* Nothing distinguishes the requests before they are made.
Symmetry == Permutations(Requests)
=============================================================================
