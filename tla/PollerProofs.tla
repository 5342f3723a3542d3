----------------------------- MODULE PollerProofs -----------------------------
(* Theorems about one Poller, for any number of slots, Schedulers and tasks. *)
EXTENDS Poller, TLAPS, FiniteSetTheorems

Active == {"starting", "running", "reporting"}

\* A goroutine's task, and the one the loop holds, know where they come from.
KnowsHome ==
  /\ \A t \in InFlight : t \in DOMAIN origin /\ jobs[t].url = origin[t]
  /\ held # 0 => held \in DOMAIN origin /\ origin[held] = SchedulerURLs[turn]

Inv == TypeOK /\ SlotsMatch /\ TasksAccounted /\ ReportsGoHome /\ KnowsHome

-----------------------------------------------------------------------------
LEMMA URLType ==
  /\ Len(SchedulerURLs) \in Nat \ {0} /\ DOMAIN SchedulerURLs = 1 .. Len(SchedulerURLs)
  /\ \A i \in DOMAIN SchedulerURLs : SchedulerURLs[i] \in URLs
  /\ 1 \in DOMAIN SchedulerURLs
<1>1. Len(SchedulerURLs) \in Nat \ {0} /\ DOMAIN SchedulerURLs = 1 .. Len(SchedulerURLs)
  BY PollerAssumption
<1> QED
  BY <1>1 DEF URLs

LEMMA NoJobType == NoJob \in Job
BY URLType DEF NoJob, Job, Kids

LEMMA InFlightFinite ==
  /\ IsFiniteSet(InFlight) /\ IsFiniteSet(InFlight')
  /\ Cardinality(InFlight) \in Nat /\ Cardinality(InFlight') \in Nat
<1>1. IsFiniteSet(Tasks)
  BY FS_Interval, PollerAssumption DEF Tasks
<1>2. InFlight \subseteq Tasks /\ InFlight' \subseteq Tasks
  BY DEF InFlight
<1> QED
  BY <1>1, <1>2, FS_Subset, FS_CardinalityType

LEMMA InFlightOf ==
  ASSUME jobs \in [Tasks -> Job], NEW t \in Tasks, NEW j, jobs' = [jobs EXCEPT ![t] = j]
  PROVE  /\ j.pc \in Active => InFlight' = InFlight \cup {t}
         /\ j.pc \notin Active => InFlight' = InFlight \ {t}
BY DEF InFlight, Active

\* What a step of the loop leaves of turn and pc.
LEMMA NextURLType ==
  ASSUME turn \in DOMAIN SchedulerURLs, NextURL
  PROVE  turn' \in DOMAIN SchedulerURLs /\ pc' \in {"pull", "sleep"}
BY URLType DEF NextURL

-----------------------------------------------------------------------------
(* The loop.                                                                *)

LEMMA PullNothingInv ==
  ASSUME Inv, PullNothing
  PROVE  Inv'
<1>1. TypeOK'
  BY NextURLType DEF PullNothing, Inv, TypeOK
<1>2. InFlight' = InFlight /\ Reported' = Reported
  BY DEF PullNothing, InFlight, Reported
<1>3. held = 0 /\ pc' # "acquire"
  BY NextURLType DEF PullNothing, Inv, TypeOK, TasksAccounted
<1> QED
  BY <1>1, <1>2, <1>3
  DEF PullNothing, Inv, SlotsMatch, TasksAccounted, ReportsGoHome, KnowsHome

LEMMA WakeInv ==
  ASSUME Inv, Wake
  PROVE  Inv'
<1>1. TypeOK'
  BY URLType DEF Wake, Inv, TypeOK
<1>2. InFlight' = InFlight /\ Reported' = Reported
  BY DEF Wake, InFlight, Reported
<1> QED
  BY <1>1, <1>2 DEF Wake, Inv, SlotsMatch, TasksAccounted, ReportsGoHome, KnowsHome

LEMMA PullTaskInv ==
  ASSUME Inv, PullTask
  PROVE  Inv'
<1> DEFINE k == Len(origin')
<1>1. /\ Len(origin) \in Nat /\ k = Len(origin) + 1 /\ k \in Tasks
      /\ origin' \in Seq(URLs) /\ DOMAIN origin = 1 .. Len(origin) /\ DOMAIN origin' = 1 .. k
      /\ 1 .. k = (1 .. Len(origin)) \cup {k} /\ k \notin 1 .. Len(origin) /\ k # 0
      /\ \A i \in DOMAIN origin : origin'[i] = origin[i]
      /\ origin'[k] = SchedulerURLs[turn]
  BY URLType, PollerAssumption DEF PullTask, Inv, TypeOK, Tasks
<1>2. InFlight' = InFlight /\ Reported' = Reported /\ sem' = sem /\ reports' = reports /\ jobs' = jobs
  BY DEF PullTask, InFlight, Reported
<1>3. held = 0 /\ k \notin InFlight \cup Reported \cup lost
  BY <1>1 DEF PullTask, Inv, TypeOK, TasksAccounted
<1>4. CASE pc' = "acquire" /\ held' = k /\ UNCHANGED << turn, lost >>
  <2>1. TypeOK'
    BY <1>1, <1>2, <1>4 DEF PullTask, Inv, TypeOK, Tasks
  <2>2. TasksAccounted'
    BY <1>1, <1>2, <1>3, <1>4 DEF Inv, TasksAccounted
  <2>3. KnowsHome'
    BY <1>1, <1>2, <1>4 DEF Inv, KnowsHome
  <2>4. ReportsGoHome'
    BY <1>1, <1>2 DEF Inv, ReportsGoHome, TasksAccounted, Reported
  <2> QED
    BY <1>2, <2>1, <2>2, <2>3, <2>4 DEF Inv, SlotsMatch
<1>5. CASE NextURL /\ lost' = lost \cup {k} /\ UNCHANGED held
  <2>1. TypeOK'
    <3>1. lost' \subseteq Tasks
      BY <1>1, <1>5 DEF Inv, TypeOK
    <3>2. Len(origin') <= MaxTasks
      BY <1>1, PollerAssumption DEF PullTask
    <3> QED
      BY <1>1, <1>2, <1>5, <3>1, <3>2, NextURLType DEF PullTask, Inv, TypeOK
  <2>2. pc' # "acquire"
    BY <1>5, NextURLType DEF Inv, TypeOK
  <2>3. TasksAccounted'
    BY <1>1, <1>2, <1>3, <1>5, <2>2 DEF Inv, TasksAccounted
  <2>4. KnowsHome'
    BY <1>1, <1>2, <1>3, <1>5 DEF Inv, KnowsHome
  <2>5. ReportsGoHome'
    BY <1>1, <1>2 DEF Inv, ReportsGoHome, TasksAccounted, Reported
  <2> QED
    BY <1>2, <2>1, <2>3, <2>4, <2>5 DEF Inv, SlotsMatch
<1> QED
  BY <1>4, <1>5 DEF PullTask

LEMMA AcquireInv ==
  ASSUME Inv, Acquire
  PROVE  Inv'
<1> DEFINE j == [NoJob EXCEPT !.pc = "starting", !.url = SchedulerURLs[turn]]
<1>1. /\ held \in Tasks /\ held \notin InFlight \cup Reported \cup lost
      /\ held \in DOMAIN origin /\ origin[held] = SchedulerURLs[turn] /\ held # 0
  BY DEF Acquire, Inv, TypeOK, TasksAccounted, KnowsHome, Tasks
<1>2. j \in Job /\ j.pc = "starting" /\ j.url = SchedulerURLs[turn]
  BY NoJobType, URLType DEF Inv, TypeOK, NoJob, Job
<1>3. jobs' = [jobs EXCEPT ![held] = j] /\ jobs \in [Tasks -> Job]
  BY DEF Acquire, Inv, TypeOK
<1>4. InFlight' = InFlight \cup {held}
  BY <1>1, <1>2, <1>3, InFlightOf DEF Active
<1>5. Cardinality(InFlight') = Cardinality(InFlight) + 1
  BY <1>1, <1>4, InFlightFinite, FS_AddElement
<1>6. turn' \in DOMAIN SchedulerURLs /\ pc' \in {"pull", "sleep"}
  BY NextURLType DEF Acquire, Inv, TypeOK
<1>7. UNCHANGED << origin, reports, lost, stops >> /\ held' = 0 /\ sem' = sem + 1 /\ HasSlot
      /\ Reported' = Reported
  BY DEF Acquire, Reported
<1>8. TypeOK'
  BY <1>1, <1>2, <1>3, <1>6, <1>7, PollerAssumption DEF Inv, TypeOK, HasSlot
<1>9. SlotsMatch'
  BY <1>5, <1>7 DEF Inv, SlotsMatch
<1>10. TasksAccounted'
  BY <1>1, <1>4, <1>6, <1>7 DEF Inv, TasksAccounted, InFlight, Tasks
<1>11. KnowsHome'
  BY <1>1, <1>2, <1>3, <1>4, <1>7 DEF Inv, KnowsHome, InFlight
<1> QED
  BY <1>7, <1>8, <1>9, <1>10, <1>11 DEF Inv, ReportsGoHome

-----------------------------------------------------------------------------
(* The goroutines and the processes.                                        *)

\* A step of one job that keeps it active, or inactive, changes nothing else.
LEMMA JobStepInv ==
  ASSUME Inv, NEW t \in Tasks, NEW j \in Job, JobStep(t, j),
         j.pc \in Active <=> jobs[t].pc \in Active, j.url = jobs[t].url
  PROVE  Inv'
<1>1. jobs \in [Tasks -> Job] /\ jobs' = [jobs EXCEPT ![t] = j]
  BY DEF Inv, TypeOK, JobStep
<1>2. UNCHANGED << pc, turn, held, sem, origin, reports, lost, stops >>
  BY DEF JobStep
<1>3. InFlight' = InFlight /\ Reported' = Reported
  BY <1>1, <1>2, InFlightOf DEF InFlight, Active, Reported
<1>4. \A u \in Tasks : jobs'[u].url = jobs[u].url
  BY <1>1
<1>5. TypeOK'
  BY <1>1, <1>2 DEF Inv, TypeOK
<1>6. KnowsHome'
  BY <1>2, <1>3, <1>4 DEF Inv, KnowsHome, InFlight
<1> QED
  BY <1>2, <1>3, <1>5, <1>6 DEF Inv, SlotsMatch, TasksAccounted, ReportsGoHome

LEMMA GoroutineInv ==
  ASSUME Inv, NEW t \in Tasks,
         StartShell(t) \/ Timeout(t) \/ Collect(t) \/ ShellExits(t) \/ KidExits(t)
  PROVE  Inv'
<1>1. jobs[t] \in Job
  BY DEF Inv, TypeOK
<1>2. PICK j \in Job : /\ JobStep(t, j) /\ j.url = jobs[t].url
                       /\ j.pc \in Active <=> jobs[t].pc \in Active
  <2>1. CASE StartShell(t)
    <3>1. CASE \E kids \in Kids : JobStep(t, [jobs[t] EXCEPT !.pc = "running", !.shell = TRUE, !.kids = kids])
      <4>1. PICK kids \in Kids : JobStep(t, [jobs[t] EXCEPT !.pc = "running", !.shell = TRUE, !.kids = kids])
        BY <3>1
      <4> DEFINE j == [jobs[t] EXCEPT !.pc = "running", !.shell = TRUE, !.kids = kids]
      <4>2. j \in Job /\ j.pc = "running" /\ j.url = jobs[t].url
        BY <1>1 DEF Job
      <4> QED
        BY <2>1, <4>1, <4>2 DEF StartShell, Active
    <3>2. CASE JobStep(t, [jobs[t] EXCEPT !.pc = "reporting"])
      <4> DEFINE j == [jobs[t] EXCEPT !.pc = "reporting"]
      <4>1. j \in Job /\ j.pc = "reporting" /\ j.url = jobs[t].url
        BY <1>1 DEF Job
      <4> QED
        BY <2>1, <3>2, <4>1 DEF StartShell, Active
    <3> QED
      BY <2>1, <3>1, <3>2 DEF StartShell
  <2>2. CASE Timeout(t)
    <3> DEFINE j == Kill(jobs[t])
    <3>1. j \in Job /\ j.pc = jobs[t].pc /\ j.url = jobs[t].url
      BY <1>1 DEF Job, Kill
    <3> QED
      BY <2>2, <3>1 DEF Timeout
  <2>3. CASE Collect(t)
    <3> DEFINE j == [jobs[t] EXCEPT !.pc = "reporting"]
    <3>1. j \in Job /\ j.pc = "reporting" /\ j.url = jobs[t].url
      BY <1>1 DEF Job
    <3> QED
      BY <2>3, <3>1 DEF Collect, Active
  <2>4. CASE ShellExits(t)
    <3> DEFINE j == [jobs[t] EXCEPT !.shell = FALSE]
    <3>1. j \in Job /\ j.pc = jobs[t].pc /\ j.url = jobs[t].url
      BY <1>1 DEF Job
    <3> QED
      BY <2>4, <3>1 DEF ShellExits
  <2>5. CASE KidExits(t)
    <3> DEFINE j == [jobs[t] EXCEPT !.kids = "none"]
    <3>1. j \in Job /\ j.pc = jobs[t].pc /\ j.url = jobs[t].url
      BY <1>1 DEF Job, Kids
    <3> QED
      BY <2>5, <3>1 DEF KidExits
  <2> QED
    BY <2>1, <2>2, <2>3, <2>4, <2>5
<1> QED
  BY <1>2, JobStepInv

LEMMA EndedType ==
  ASSUME NEW job \in Job
  PROVE  Ended(job) \in Job /\ Ended(job).pc = "ended"
BY NoJobType DEF Ended, NoJob, Job

LEMMA PushInv ==
  ASSUME Inv, NEW t \in Tasks, Push(t)
  PROVE  Inv'
<1>1. /\ jobs[t] \in Job /\ jobs \in [Tasks -> Job] /\ t \in InFlight
      /\ jobs' = [jobs EXCEPT ![t] = Ended(jobs[t])]
  BY DEF Push, Inv, TypeOK, InFlight
<1>2. Ended(jobs[t]) \in Job /\ Ended(jobs[t]).pc \notin Active
  BY <1>1, EndedType DEF Active
<1>3. InFlight' = InFlight \ {t}
  BY <1>1, <1>2, InFlightOf
<1>4. Cardinality(InFlight') = Cardinality(InFlight) - 1
  BY <1>1, <1>3, InFlightFinite, FS_RemoveElement
<1>5. UNCHANGED << pc, turn, held, origin, stops >> /\ sem' = sem - 1
  BY DEF Push, Release
<1>6. SlotsMatch' /\ sem' \in 0 .. MaxConcurrent
  BY <1>4, <1>5, InFlightFinite, PollerAssumption DEF Inv, SlotsMatch, TypeOK
<1>7. /\ jobs[t].url \in URLs /\ jobs[t].url = origin[t] /\ t \in DOMAIN origin
  BY <1>1 DEF Inv, KnowsHome, Job
<1>8. \/ reports' = reports \cup {[task |-> t, url |-> jobs[t].url]} /\ lost' = lost
      \/ lost' = lost \cup {t} /\ reports' = reports
  BY DEF Push, OriginURL
<1>9. \/ Reported' = Reported \cup {t} /\ lost' = lost
      \/ lost' = lost \cup {t} /\ Reported' = Reported
  <2>1. [task |-> t, url |-> jobs[t].url].task = t
    OBVIOUS
  <2>2. CASE reports' = reports \cup {[task |-> t, url |-> jobs[t].url]} /\ lost' = lost
    BY <2>1, <2>2 DEF Reported
  <2>3. CASE lost' = lost \cup {t} /\ reports' = reports
    BY <2>3 DEF Reported
  <2> QED
    BY <1>8, <2>2, <2>3
<1>10. TypeOK'
  BY <1>1, <1>2, <1>5, <1>6, <1>7, <1>8 DEF Inv, TypeOK
<1>11. TasksAccounted'
  BY <1>1, <1>3, <1>5, <1>9 DEF Inv, TasksAccounted
<1>12. ReportsGoHome'
  BY <1>5, <1>7, <1>8 DEF Inv, ReportsGoHome
<1>13. KnowsHome'
  BY <1>1, <1>3, <1>5 DEF Inv, KnowsHome, InFlight
<1> QED
  BY <1>6, <1>10, <1>11, <1>12, <1>13 DEF Inv

-----------------------------------------------------------------------------
(* The life of the process.                                                 *)

LEMMA StopInv ==
  ASSUME Inv, Stop
  PROVE  Inv'
<1>1. /\ jobs' = [t \in Tasks |-> IF t \in InFlight THEN Ended(jobs[t]) ELSE jobs[t]]
      /\ jobs \in [Tasks -> Job]
  BY DEF Stop, Inv, TypeOK
<1>2. \A t \in Tasks : jobs'[t] \in Job /\ jobs'[t].pc \notin Active
  BY <1>1, EndedType DEF InFlight, Active
<1>3. InFlight' = {} /\ jobs' \in [Tasks -> Job]
  BY <1>1, <1>2 DEF InFlight, Active
<1>4. Cardinality(InFlight') = 0
  BY <1>3, FS_EmptySet
<1>5. /\ pc' = Off /\ turn' = 1 /\ held' = 0 /\ sem' = 0
      /\ lost' = lost \cup InFlight \cup ({held} \ {0})
      /\ stops' = stops + 1 /\ UNCHANGED << origin, reports >> /\ Reported' = Reported
  BY DEF Stop, Reported
<1>6. TypeOK'
  <2>1. {held} \ {0} \subseteq Tasks /\ InFlight \subseteq Tasks
    BY DEF Inv, TypeOK, InFlight, Tasks
  <2> QED
    BY <1>3, <1>5, <2>1, URLType, PollerAssumption DEF Inv, TypeOK
<1>7. 0 \notin Reported \cup lost /\ 0 \notin InFlight
  BY DEF Inv, TypeOK, Reported, Tasks, InFlight
<1>8. TasksAccounted'
  BY <1>3, <1>5, <1>7, PollerAssumption DEF Inv, TasksAccounted
<1> QED
  BY <1>3, <1>4, <1>5, <1>6, <1>8 DEF Inv, SlotsMatch, ReportsGoHome, KnowsHome

LEMMA StartInv ==
  ASSUME Inv, Start
  PROVE  Inv'
<1>1. TypeOK'
  BY DEF Start, Inv, TypeOK
<1>2. InFlight' = InFlight /\ Reported' = Reported
  BY DEF Start, InFlight, Reported
<1> QED
  BY <1>1, <1>2, PollerAssumption DEF Start, Inv, SlotsMatch, TasksAccounted, ReportsGoHome, KnowsHome

LEMMA InitInv == Init => Inv
<1> SUFFICES ASSUME Init PROVE Inv
  OBVIOUS
<1>1. InFlight = {} /\ Reported = {} /\ Cardinality(InFlight) = 0
  BY FS_EmptySet DEF Init, InFlight, Reported, NoJob
<1>2. TypeOK
  BY URLType, NoJobType, PollerAssumption DEF Init, TypeOK
<1>3. TasksAccounted
  BY <1>1 DEF Init, TasksAccounted
<1> QED
  BY <1>1, <1>2, <1>3 DEF Init, Inv, SlotsMatch, ReportsGoHome, KnowsHome

LEMMA NextInv == Inv /\ [Next]_vars => Inv'
<1> SUFFICES ASSUME Inv, [Next]_vars PROVE Inv'
  OBVIOUS
<1>1. CASE Loop
  BY <1>1, PullNothingInv, PullTaskInv, AcquireInv, WakeInv DEF Loop
<1>2. ASSUME NEW t \in Tasks, Goroutine(t) \/ ShellExits(t) \/ KidExits(t) PROVE Inv'
  BY <1>2, GoroutineInv, PushInv DEF Goroutine
<1>3. CASE Stop \/ Start
  BY <1>3, StopInv, StartInv
<1>4. CASE UNCHANGED vars
  BY <1>4 DEF vars, Inv, TypeOK, SlotsMatch, TasksAccounted, ReportsGoHome, KnowsHome,
              InFlight, Reported
<1> QED
  BY <1>1, <1>2, <1>3, <1>4 DEF Next

-----------------------------------------------------------------------------
\* Types, with no more slots taken than max_concurrent, for any number of slots.
THEOREM Typing == Spec => []TypeOK
<1>1. Inv => TypeOK
  BY DEF Inv
<1> QED
  BY InitInv, NextInv, <1>1, PTL DEF Spec

\* The semaphore counts the goroutines: no path through a check, and no stop,
\* leaks a slot or gives one back twice.
THEOREM SlotsAreGoroutines == Spec => []SlotsMatch
<1>1. Inv => SlotsMatch
  BY DEF Inv
<1> QED
  BY InitInv, NextInv, <1>1, PTL DEF Spec

\* Every task handed out is in one place, whatever times out, fails or stops.
THEOREM TasksAreAccounted == Spec => []TasksAccounted
<1>1. Inv => TasksAccounted
  BY DEF Inv
<1> QED
  BY InitInv, NextInv, <1>1, PTL DEF Spec

\* A result goes to the Scheduler of its task, however long the check took.
THEOREM ReportsReachOrigin == Spec => []ReportsGoHome
<1>1. Inv => ReportsGoHome
  BY DEF Inv
<1> QED
  BY InitInv, NextInv, <1>1, PTL DEF Spec
=============================================================================
