------------------------- MODULE MCMultiplayerRoom -------------------------
(* Small instances of MultiplayerRoom for TLC. *)
EXTENDS MultiplayerRoomProperties, TLC

MCCycleTime == <<2, 1, 1, 1>>
MCMinTime == -1

\* Nothing distinguishes the sessions before they join.
Symmetry == Permutations(Sessions)

\* A bound: nobody votes.  Nothing the room does depends on the votes.
MCFairFlowSpec == Init /\ [][FlowNext /\ votes' = {}]_vars /\ Fairness
=============================================================================
