------------------------------ MODULE Delayed ------------------------------
(***************************************************************************)
(* The timers handed out by the clock of a Colyseus room (`Delayed` of     *)
(* @colyseus/timer 0.15), as far as the rooms of this backend use them.    *)
(* The library is not part of the repository: this module is written from  *)
(* how multiplayer.room.ts and solo.room.ts call it.                       *)
(*                                                                         *)
(* Time is counted in seconds, the only granularity the rooms use.  A      *)
(* timer is a record: `on` says that its callback can still run, `left`    *)
(* how many seconds it has to wait, `paused` that pause() was called on    *)
(* it, and `job` names the callback.  An undefined handle, a cleared timer *)
(* and a timeout that has fired cannot be told apart by the rooms: all of  *)
(* them are Off.                                                           *)
(***************************************************************************)
EXTENDS Naturals

Timer(jobs) ==
  [on: BOOLEAN, left: Nat, paused: BOOLEAN, job: jobs \cup {"none"}]

Off == [on |-> FALSE, left |-> 0, paused |-> FALSE, job |-> "none"]

\* clock.setInterval(job, 1000) and clock.setTimeout(job, seconds * 1000).
Interval(job) == [on |-> TRUE, left |-> 1, paused |-> FALSE, job |-> job]
Timeout(seconds, job) ==
  [on |-> TRUE, left |-> seconds, paused |-> FALSE, job |-> job]

\* timer?.pause() and timer?.resume(): no effect on a timer that is Off.
Pause(t) == [t EXCEPT !.paused = t.on]
Resume(t) == [t EXCEPT !.paused = FALSE]

Running(t) == t.on /\ ~t.paused
Due(t) == Running(t) /\ t.left = 0

\* One second passes; an interval that has fired waits for the next second.
Age(t) == IF Running(t) THEN [t EXCEPT !.left = t.left - 1] ELSE t
Rewind(t) == [t EXCEPT !.left = 1]
=============================================================================
