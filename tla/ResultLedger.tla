---------------------------- MODULE ResultLedger ----------------------------
(***************************************************************************)
(* What a Scheduler promises to a poller whose push-result was answered    *)
(* with 202 Accepted: the result is processed at most once, and stops      *)
(* being pending only by being processed or by the end of the process. No  *)
(* order is promised. Scheduler implements this ledger                     *)
(* (SchedulerProperties!ImplementsLedger).                                 *)
(***************************************************************************)
CONSTANT Numbers    \* the numbers results are accepted under

VARIABLES pending, done, gone    \* numbers of accepted results

ledger == << pending, done, gone >>

Init == pending = {} /\ done = {} /\ gone = {}

Accept(n) ==
  /\ n \notin pending \cup done \cup gone
  /\ pending' = pending \cup {n}
  /\ UNCHANGED << done, gone >>

Process(n) ==
  /\ n \in pending
  /\ pending' = pending \ {n}
  /\ done' = done \cup {n}
  /\ UNCHANGED gone

\* the process ends: what is pending is never processed
Forget ==
  /\ pending' = {}
  /\ gone' = gone \cup pending
  /\ UNCHANGED done

Next == (\E n \in Numbers : Accept(n) \/ Process(n)) \/ Forget

Spec == Init /\ [][Next]_ledger
=============================================================================
