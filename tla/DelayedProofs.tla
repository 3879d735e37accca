---------------------------- MODULE DelayedProofs ----------------------------
(***************************************************************************)
(* What the operations on timers return, for the proofs about both rooms.  *)
(***************************************************************************)
EXTENDS Delayed, TLAPS

\* What the operations of Delayed return is a timer again.
LEMMA NewTimers ==
  ASSUME NEW Jobs, NEW j \in Jobs, NEW n \in Nat
  PROVE  /\ Off \in Timer(Jobs) /\ ~Off.on
         /\ Interval(j) \in Timer(Jobs) /\ Interval(j).on /\ Interval(j).job = j
         /\ Timeout(n, j) \in Timer(Jobs)
  BY DEF Timer, Off, Interval, Timeout

LEMMA OffIsTimer == ASSUME NEW Jobs PROVE Off \in Timer(Jobs) /\ ~Off.on
  BY DEF Timer, Off

\* pause() and resume() change neither whether a timer is on nor its callback.
LEMMA PausedTimer ==
  ASSUME NEW Jobs, NEW t \in Timer(Jobs)
  PROVE  /\ Pause(t) \in Timer(Jobs) /\ Pause(t).on = t.on /\ Pause(t).job = t.job
         /\ Resume(t) \in Timer(Jobs) /\ Resume(t).on = t.on
         /\ Resume(t).job = t.job
  BY DEF Timer, Pause, Resume

LEMMA RewoundTimer ==
  ASSUME NEW Jobs, NEW t \in Timer(Jobs)
  PROVE  Rewind(t) \in Timer(Jobs) /\ Rewind(t).on = t.on /\ Rewind(t).job = t.job
  BY DEF Timer, Rewind

\* A timer that is not due can wait another second.
LEMMA AgedTimer ==
  ASSUME NEW Jobs, NEW t \in Timer(Jobs), ~Due(t)
  PROVE  Age(t) \in Timer(Jobs) /\ Age(t).on = t.on /\ Age(t).job = t.job
<1>1. CASE Running(t)
  <2>1. t.left \in Nat /\ t.left # 0
    BY <1>1 DEF Timer, Due
  <2>2. t.left - 1 \in Nat
    BY <2>1
  <2> QED
    BY <1>1, <2>2 DEF Timer, Age
<1>2. CASE ~Running(t)
  BY <1>2 DEF Age
<1> QED
  BY <1>1, <1>2
=============================================================================
