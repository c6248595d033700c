----------------------------- MODULE IdleTimer -----------------------------
(***************************************************************************)
(* The timer that ends an idle server, as operators on a record: current   *)
(* is what Server.idleTimer points to, nothing, a timer that runs, or one  *)
(* that has expired and whose callback waits for idleMu; orphans are       *)
(* running timers that nothing points to any more; waiting, checking and   *)
(* ending count the callbacks by how far they are.  Time is left out: a    *)
(* running timer may expire at any moment.                                 *)
(***************************************************************************)
EXTENDS Naturals

NewTimer == [current |-> "nil", orphans |-> 0, waiting |-> 0, checking |-> 0, ending |-> 0]

Timers(max) ==
  [current : {"nil", "runs", "expired"}, orphans : 0 .. max, waiting : 0 .. max,
   checking : 0 .. max, ending : 0 .. max]

\* Bug variant: the timer is stopped and idleTimer still points to it.
CancelKeeps(t) == [t EXCEPT !.current = IF @ = "runs" THEN "expired" ELSE @]

\* Stop is too late for a timer that has expired: its callback stays.
Cancel(t) == [t EXCEPT !.current = "nil"]

Arm(t, idle) == IF t.current = "nil" /\ idle THEN [t EXCEPT !.current = "runs"] ELSE t

MayExpire(t) == t.current = "runs" \/ t.orphans > 0

Expire(t) ==
  IF t.current = "runs" THEN [t EXCEPT !.current = "expired", !.waiting = @ + 1]
  ELSE [t EXCEPT !.orphans = @ - 1, !.waiting = @ + 1]

\* The callback clears idleTimer, also when that is no longer its own timer.
Forget(t) ==
  [t EXCEPT !.current = "nil", !.waiting = @ - 1, !.checking = @ + 1,
            !.orphans = IF t.current = "runs" THEN @ + 1 ELSE @]

Check(t, idle) ==
  [t EXCEPT !.checking = @ - 1, !.ending = IF idle THEN @ + 1 ELSE @]
=============================================================================
