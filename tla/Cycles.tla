------------------------------- MODULE Cycles -------------------------------
(***************************************************************************)
(* The four cycles of a round.  Both rooms have a function firstCycle ..   *)
(* fourthCycle per cycle, each of which starts the interval of its cycle;  *)
(* an interval is named after the function that created it.                *)
(***************************************************************************)
EXTENDS Delayed

CycleJobs == {"firstCycle", "secondCycle", "thirdCycle", "fourthCycle"}

CycleOf == [firstCycle |-> 1, secondCycle |-> 2, thirdCycle |-> 3,
            fourthCycle |-> 4]

\* The function a callback calls when its cycle's time is up; the fourth cycle
\* ends the round instead.
NextJob == [firstCycle |-> "secondCycle", secondCycle |-> "thirdCycle",
            thirdCycle |-> "fourthCycle", fourthCycle |-> "none"]

\* The points for a word that is guessed in the given cycle.
CycleScore(cycle) ==
  CASE cycle = 1 -> 10 [] cycle = 2 -> 6 [] cycle = 3 -> 4 [] cycle = 4 -> 2
    [] OTHER -> 0

\* A game timer whose callback is certainly one of the four.
CycleTimer == [on: BOOLEAN, left: Nat, paused: BOOLEAN, job: CycleJobs]
=============================================================================
