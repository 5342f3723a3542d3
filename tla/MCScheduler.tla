----------------------------- MODULE MCScheduler -----------------------------
(* Small instances of one Scheduler. *)
EXTENDS SchedulerProperties, TLC

CONSTANTS h1, h2, s1, w1, w2, c1

Def(dt) == [check |-> TRUE, inDowntime |-> dt]
SDef(h, dt) == [host |-> h, check |-> TRUE, inDowntime |-> dt]

\* one host always monitored
SteadyHost == {[hosts |-> [h \in {h1} |-> Def(FALSE)], services |-> [s \in {} |-> Absent]]}

\* one host, monitored or dropped
ComingHost ==
  {[hosts |-> [h \in {h1} |-> d], services |-> [s \in {} |-> Absent]] : d \in {Def(FALSE), Absent}}

\* a host and a service on it; the service also attached to a host that is not
\* in the inventory, and dropped
ServiceConfigs ==
  {[hosts |-> [h \in {h1} |-> Def(FALSE)], services |-> [s \in {s1} |-> SDef(h1, FALSE)]],
   [hosts |-> [h \in {h1} |-> Def(TRUE)],  services |-> [s \in {s1} |-> SDef(h1, FALSE)]],
   [hosts |-> [h \in {h1} |-> Absent],     services |-> [s \in {s1} |-> SDef(h2, FALSE)]],
   [hosts |-> [h \in {h1} |-> Absent],     services |-> [s \in {s1} |-> Absent]]}

WorkerSymmetry == Permutations({w1, w2})
=============================================================================
