--------------------------- MODULE SchedulerProofs ---------------------------
(***************************************************************************)
(* Theorems about one Scheduler process, for every inventory, number of    *)
(* workers, channel capacity and bound.                                    *)
(***************************************************************************)
EXTENDS SchedulerProperties, TLAPS

-----------------------------------------------------------------------------
(* Types.                                                                   *)

LEMMA MergeHostType ==
  ASSUME NEW old \in Host \cup {Absent}, NEW def \in HostDef \cup {Absent}, now \in Nat
  PROVE  MergeHost(old, def) \in Host \cup {Absent}
BY SchedulerAssumption DEF MergeHost, Host, HostDef

LEMMA MergeServiceType ==
  ASSUME NEW old \in Service \cup {Absent}, NEW def \in ServiceDef \cup {Absent}, now \in Nat
  PROVE  MergeService(old, def) \in Service \cup {Absent}
BY SchedulerAssumption DEF MergeService, Service, ServiceDef

LEMMA SyncAllType ==
  ASSUME TypeOK, NEW cfg \in Configs, SyncAll(cfg)
  PROVE  TypeOK'
<1>1. cfg \in Config
  BY SchedulerAssumption
<1>2. hosts' \in HostMap
  BY <1>1, MergeHostType DEF SyncAll, TypeOK, HostMap, Config
<1>3. services' \in ServiceMap
  BY <1>1, MergeServiceType DEF SyncAll, TypeOK, ServiceMap, Config
<1>4. unannounced' \subseteq TaskIds
  BY DEF SyncAll, Removed, TypeOK, TaskIds
<1> QED
  BY <1>2, <1>3, <1>4 DEF SyncAll, TypeOK, procVars, netVars

LEMMA TaskIdsOf ==
  /\ \A h \in HostIds : HostTask(h) \in TaskIds
  /\ \A s \in ServiceIds : ServiceTask(s) \in TaskIds
BY DEF TaskIds

LEMMA HostUpdateType ==
  ASSUME NEW old \in Host
  PROVE  /\ \A t \in Nat : [old EXCEPT !.nextCheck = t] \in Host
         /\ \A u \in BOOLEAN, st \in Status :
              [old EXCEPT !.isUp = u, !.status = st] \in Host
BY DEF Host

LEMMA ServiceUpdateType ==
  ASSUME NEW old \in Service
  PROVE  /\ \A t \in Nat : [old EXCEPT !.nextCheck = t] \in Service
         /\ \A st \in Status : [old EXCEPT !.currentState = st] \in Service
BY DEF Service

LEMMA IssueType ==
  ASSUME TypeOK, NEW id \in TaskIds, Issue(id), hosts' \in HostMap, services' \in ServiceMap
  PROVE  TypeOK'
<1>1. outstanding' \in [TaskIds -> Nat]
  BY DEF Issue, TypeOK
<1> QED
  BY <1>1 DEF Issue, TypeOK, procVars

LEMMA PopType ==
  ASSUME TypeOK, \/ \E h \in HostIds : PopHost(h)
                 \/ \E s \in ServiceIds : PopService(s)
  PROVE  TypeOK'
<1>1. ASSUME NEW h \in HostIds, PopHost(h)
      PROVE  TypeOK'
  <2>1. now + HostInterval \in Nat
    BY SchedulerAssumption DEF TypeOK
  <2>2. hosts[h] \in Host
    BY <1>1 DEF PopHost, DueHosts, TypeOK, HostMap
  <2>3. [hosts[h] EXCEPT !.nextCheck = now + HostInterval] \in Host
    BY <2>1, <2>2, HostUpdateType
  <2>4. hosts' \in HostMap
    BY <1>1, <2>3 DEF PopHost, TypeOK, HostMap
  <2> QED
    BY <1>1, <2>4, TaskIdsOf, IssueType DEF PopHost, TypeOK
<1>2. ASSUME NEW s \in ServiceIds, PopService(s)
      PROVE  TypeOK'
  <2>1. now + ServiceInterval \in Nat
    BY SchedulerAssumption DEF TypeOK
  <2>2. services[s] \in Service
    BY <1>2 DEF PopService, DueServices, TypeOK, ServiceMap
  <2>3. [services[s] EXCEPT !.nextCheck = now + ServiceInterval] \in Service
    BY <2>1, <2>2, ServiceUpdateType
  <2>4. services' \in ServiceMap
    BY <1>2, <2>3 DEF PopService, TypeOK, ServiceMap
  <2> QED
    BY <1>2, <2>4, TaskIdsOf, IssueType DEF PopService, TypeOK
<1> QED
  BY <1>1, <1>2

LEMMA LoseTaskType ==
  ASSUME TypeOK, NEW id \in TaskIds, LoseTask(id)
  PROVE  TypeOK'
<1>1. outstanding' \in [TaskIds -> Nat]
  BY DEF LoseTask, TypeOK
<1> QED
  BY <1>1 DEF LoseTask, TypeOK, procVars

LEMMA PushResultType ==
  ASSUME TypeOK, NEW id \in TaskIds, NEW st \in Status, PushResult(id, st)
  PROVE  TypeOK'
<1>1. outstanding' \in [TaskIds -> Nat]
  BY DEF PushResult, TypeOK
<1>2. CASE UNCHANGED << resultQueue, nextNo >>
  BY <1>1, <1>2 DEF PushResult, TypeOK, procVars
<1>3. CASE /\ HasRoom
           /\ resultQueue' = Enqueue([n |-> nextNo, id |-> id, status |-> st])
           /\ nextNo' = nextNo + 1
  <2>1. [n |-> nextNo, id |-> id, status |-> st] \in CheckResult
    BY DEF CheckResult, TypeOK
  <2>2. resultQueue' \in Seq(CheckResult) /\ Len(resultQueue') <= QueueCap
    BY <1>3, <2>1, SchedulerAssumption DEF TypeOK, HasRoom, Enqueue
  <2> QED
    BY <1>1, <1>3, <2>2 DEF PushResult, TypeOK, procVars
<1> QED
  BY <1>2, <1>3 DEF PushResult

LEMMA TakeResultType ==
  ASSUME TypeOK, NEW w \in Workers, TakeResult(w)
  PROVE  TypeOK'
<1>1. /\ Head(resultQueue) \in CheckResult
      /\ resultQueue' \in Seq(CheckResult) /\ Len(resultQueue') <= QueueCap
  BY SchedulerAssumption DEF TakeResult, Dequeue, TypeOK
<1>2. worker' \in [Workers -> CheckResult \cup {Idle}]
  BY <1>1 DEF TakeResult, TypeOK
<1> QED
  BY <1>1, <1>2 DEF TakeResult, TypeOK, procVars

LEMMA TaskIdCases ==
  ASSUME NEW id \in TaskIds
  PROVE  \/ id[1] = "HOST:" /\ id[2] \in HostIds /\ id = HostTask(id[2])
         \/ id[1] # "HOST:" /\ id[2] \in ServiceIds /\ id = ServiceTask(id[2])
<1>1. ASSUME NEW h \in HostIds, id = HostTask(h)
      PROVE  id[1] = "HOST:" /\ id[2] \in HostIds /\ id = HostTask(id[2])
  BY <1>1 DEF HostTask
<1>2. ASSUME NEW s \in ServiceIds, id = ServiceTask(s)
      PROVE  id[1] = "" /\ id[2] \in ServiceIds /\ id = ServiceTask(id[2])
  BY <1>2 DEF ServiceTask
<1>3. "" # "HOST:"
  OBVIOUS
<1> QED
  BY <1>1, <1>2, <1>3 DEF TaskIds

LEMMA NotifyType ==
  ASSUME TypeOK, NEW res \in CheckResult, NEW type \in {"UP", "DOWN", "ALERT"},
         \/ Notify(res, type) \/ Mute(res) \/ UNCHANGED << notifs, told, unannounced >>
  PROVE  /\ notifs' \subseteq NotificationRequest
         /\ told' \in [TaskIds -> Status] /\ unannounced' \subseteq TaskIds
<1>1. res.n \in Nat \ {0} /\ res.id \in TaskIds /\ res.status \in Status
  BY DEF CheckResult
<1>2. [n |-> res.n, id |-> res.id, type |-> type, state |-> res.status] \in NotificationRequest
  BY <1>1 DEF NotificationRequest
<1> QED
  BY <1>1, <1>2 DEF Notify, Mute, TypeOK

LEMMA HandleHostType ==
  ASSUME TypeOK, NEW res \in CheckResult, NEW h \in HostIds, HandleHostResult(res, h)
  PROVE  /\ hosts' \in HostMap /\ services' \in ServiceMap /\ forwards' \subseteq CheckResult
         /\ notifs' \subseteq NotificationRequest
         /\ told' \in [TaskIds -> Status] /\ unannounced' \subseteq TaskIds
<1>1. CASE hosts[h] = Absent
  BY <1>1 DEF HandleHostResult, IgnoreResult, TypeOK
<1>2. CASE hosts[h] # Absent
  <2> DEFINE up == res.status = 0
  <2>1. hosts[h] \in Host /\ up \in BOOLEAN /\ res.status \in Status
    BY <1>2 DEF TypeOK, HostMap, CheckResult
  <2>2. [hosts[h] EXCEPT !.isUp = up, !.status = res.status] \in Host
    BY <2>1, HostUpdateType
  <2>3. hosts' = [hosts EXCEPT ![h] =
                    [hosts[h] EXCEPT !.isUp = up, !.status = res.status]]
    BY <1>2, <2>1 DEF HandleHostResult, TypeOK, HostMap
  <2>4. hosts' \in HostMap
    BY <2>2, <2>3 DEF TypeOK, HostMap
  <2>5. services' \in ServiceMap /\ forwards' \subseteq CheckResult
    BY <1>2 DEF HandleHostResult, ForwardToBroker, TypeOK
  <2>6. \/ Notify(res, IF up THEN "UP" ELSE "DOWN")
        \/ Mute(res) \/ UNCHANGED << notifs, told, unannounced >>
    BY <1>2 DEF HandleHostResult
  <2> QED
    BY <2>4, <2>5, <2>6, NotifyType
<1> QED
  BY <1>1, <1>2

LEMMA HandleServiceType ==
  ASSUME TypeOK, NEW res \in CheckResult, NEW s \in ServiceIds, HandleServiceResult(res, s)
  PROVE  /\ hosts' \in HostMap /\ services' \in ServiceMap /\ forwards' \subseteq CheckResult
         /\ notifs' \subseteq NotificationRequest
         /\ told' \in [TaskIds -> Status] /\ unannounced' \subseteq TaskIds
<1>1. CASE services[s] = Absent
  BY <1>1 DEF HandleServiceResult, IgnoreResult, TypeOK
<1>2. CASE services[s] # Absent
  <2>1. services[s] \in Service /\ res.status \in Status
    BY <1>2 DEF TypeOK, ServiceMap, CheckResult
  <2>2. [services[s] EXCEPT !.currentState = res.status] \in Service
    BY <2>1, ServiceUpdateType
  <2>3. services' = [services EXCEPT ![s] =
                       [services[s] EXCEPT !.currentState = res.status]]
    BY <1>2, <2>1 DEF HandleServiceResult, TypeOK, ServiceMap
  <2>4. services' \in ServiceMap
    BY <2>2, <2>3 DEF TypeOK, ServiceMap
  <2>5. hosts' \in HostMap /\ forwards' \subseteq CheckResult
    BY <1>2 DEF HandleServiceResult, ForwardToBroker, TypeOK
  <2>6. \/ Notify(res, "ALERT") \/ Mute(res) \/ UNCHANGED << notifs, told, unannounced >>
    BY <1>2 DEF HandleServiceResult
  <2> QED
    BY <2>4, <2>5, <2>6, NotifyType
<1> QED
  BY <1>1, <1>2

\* which of the two handlers a worker calls
LEMMA ApplyResultCases ==
  ASSUME TypeOK, NEW w \in Workers, ApplyResult(w)
  PROVE  /\ worker[w] \in CheckResult
         /\ \/ \E h \in HostIds : worker[w].id = HostTask(h) /\ HandleHostResult(worker[w], h)
            \/ \E s \in ServiceIds :
                 worker[w].id = ServiceTask(s) /\ HandleServiceResult(worker[w], s)
<1>1. worker[w] \in CheckResult
  BY DEF ApplyResult, TypeOK
<1>2. worker[w].id \in TaskIds
  BY <1>1 DEF CheckResult
<1> QED
  BY <1>1, <1>2, TaskIdCases DEF ApplyResult

LEMMA ApplyResultType ==
  ASSUME TypeOK, NEW w \in Workers, ApplyResult(w)
  PROVE  TypeOK'
<1>1. /\ hosts' \in HostMap /\ services' \in ServiceMap /\ forwards' \subseteq CheckResult
      /\ notifs' \subseteq NotificationRequest
      /\ told' \in [TaskIds -> Status] /\ unannounced' \subseteq TaskIds
  BY ApplyResultCases, HandleHostType, HandleServiceType
<1>2. worker' \in [Workers -> CheckResult \cup {Idle}]
  BY DEF ApplyResult, TypeOK
<1>3. applied' \subseteq Nat
  BY ApplyResultCases DEF ApplyResult, TypeOK, CheckResult
<1> QED
  BY <1>1, <1>2, <1>3 DEF ApplyResult, TypeOK, procVars

LEMMA BackgroundType ==
  ASSUME TypeOK, \/ \E req \in notifs : NotifyDone(req)
                 \/ \E res \in forwards : ForwardDone(res)
                 \/ \E c \in StatusClients : StatusBegin(c) \/ StatusEnd(c)
                 \/ Tick
  PROVE  TypeOK'
<1>1. ASSUME NEW req \in notifs, NotifyDone(req)
      PROVE  TypeOK'
  BY <1>1 DEF NotifyDone, TypeOK, procVars, netVars
<1>2. ASSUME NEW res \in forwards, ForwardDone(res)
      PROVE  TypeOK'
  BY <1>2 DEF ForwardDone, BrokerDone, TypeOK, procVars, netVars
<1>3. ASSUME NEW c \in StatusClients, StatusBegin(c) \/ StatusEnd(c)
      PROVE  TypeOK'
  BY <1>3 DEF StatusBegin, StatusEnd, TypeOK, memVars, netVars
<1>4. CASE Tick
  BY <1>4, SchedulerAssumption DEF Tick, TypeOK, memVars, netVars, procVars
<1> QED
  BY <1>1, <1>2, <1>3, <1>4

LEMMA MemoryType == TypeOK => Memory \in Snapshot
BY DEF TypeOK, Memory, Snapshot

LEMMA SaveType ==
  ASSUME TypeOK, \/ \E s \in Savers : \/ SaveBegin(s) \/ SaveTruncate(s)
                                      \/ SaveWrite(s) \/ SaveFails(s)
                 \/ ClearStateChanged
  PROVE  TypeOK'
<1> DEFINE SaverType == [Savers -> [pc : {"idle", "marshalled", "truncated", "saved", "failed"},
                                    data : Snapshot \cup {Absent}]]
<1>1. ASSUME NEW s \in Savers, SaveBegin(s)
      PROVE  TypeOK'
  <2>1. saver' \in SaverType
    BY <1>1, MemoryType DEF SaveBegin, TypeOK
  <2> QED
    BY <1>1, <2>1 DEF SaveBegin, TypeOK, memVars, netVars
<1>2. ASSUME NEW s \in Savers, SaveTruncate(s)
      PROVE  TypeOK'
  <2>1. saver' \in SaverType
    BY <1>2 DEF SaveTruncate, TypeOK
  <2> QED
    BY <1>2, <2>1 DEF SaveTruncate, TypeOK, memVars, netVars
<1>3. ASSUME NEW s \in Savers, SaveWrite(s)
      PROVE  TypeOK'
  <2>1. saver' \in SaverType
    BY <1>3 DEF SaveWrite, TypeOK
  <2>2. disk' \in Snapshot \cup {Absent, Torn}
    BY <1>3 DEF SaveWrite, TypeOK
  <2> QED
    BY <1>3, <2>1, <2>2 DEF SaveWrite, TypeOK, memVars, netVars
<1>4. ASSUME NEW s \in Savers, SaveFails(s)
      PROVE  TypeOK'
  <2>1. saver' \in SaverType
    BY <1>4 DEF SaveFails, TypeOK
  <2> QED
    BY <1>4, <2>1 DEF SaveFails, TypeOK, memVars, netVars
<1>5. CASE ClearStateChanged
  <2>1. saver' \in SaverType
    BY <1>5 DEF ClearStateChanged, TypeOK, Savers
  <2> QED
    BY <1>5, <2>1 DEF ClearStateChanged, TypeOK, netVars
<1> QED
  BY <1>1, <1>2, <1>3, <1>4, <1>5

LEMMA LifeType ==
  ASSUME TypeOK, Shutdown \/ BrokersDrained \/ Exit \/ Crash \/ Start
  PROVE  TypeOK'
<1>1. CASE Shutdown \/ BrokersDrained
  BY <1>1 DEF Shutdown, BrokersDrained, TypeOK, memVars, netVars
<1>2. CASE Exit \/ Crash
  <2>1. ProcessEnds
    BY <1>2 DEF Exit, Crash
  <2>2. hosts' \in HostMap /\ services' \in ServiceMap
    BY <2>1 DEF ProcessEnds, NoHosts, NoServices, HostMap, ServiceMap
  <2>3. /\ resultQueue' \in Seq(CheckResult) /\ Len(resultQueue') <= QueueCap
        /\ worker' \in [Workers -> CheckResult \cup {Idle}]
        /\ saver' \in [Savers -> [pc : {"idle", "marshalled", "truncated", "saved", "failed"},
                                  data : Snapshot \cup {Absent}]]
    BY <2>1, SchedulerAssumption DEF ProcessEnds, Quiet
  <2>4. Queued \subseteq Nat /\ Held \subseteq Nat
    <3>1. \A i \in DOMAIN resultQueue : resultQueue[i] \in CheckResult
      BY DEF TypeOK
    <3>2. \A w \in Workers : worker[w] # Idle => worker[w] \in CheckResult
      BY DEF TypeOK
    <3> QED
      BY <3>1, <3>2 DEF Queued, Held, CheckResult
  <2>5. lost' \subseteq Nat
    BY <2>1, <2>4 DEF ProcessEnds, TypeOK
  <2>6. unannounced' \subseteq TaskIds
    BY <2>1 DEF ProcessEnds, Forgotten, TaskIds, TypeOK
  <2> QED
    BY <2>1, <2>2, <2>3, <2>5, <2>6 DEF ProcessEnds, TypeOK
<1>3. CASE Start
  <2>1. hosts' \in HostMap /\ services' \in ServiceMap
    BY <1>3 DEF Start, Loaded, Saved, TypeOK, Snapshot, NoMemory, NoHosts, NoServices, HostMap,
                ServiceMap
  <2> QED
    BY <1>3, <2>1 DEF Start, TypeOK, netVars
<1> QED
  BY <1>1, <1>2, <1>3

\* Every variable keeps its type, and resultQueue its capacity.
THEOREM Typing == Spec => []TypeOK
<1>1. Init => TypeOK
  <2> SUFFICES ASSUME Init
               PROVE  TypeOK
    OBVIOUS
  <2>1. hosts \in HostMap /\ services \in ServiceMap
    BY DEF Init, NoHosts, NoServices, HostMap, ServiceMap
  <2>2. saver \in [Savers -> [pc : {"idle", "marshalled", "truncated", "saved", "failed"},
                             data : Snapshot \cup {Absent}]]
    BY DEF Init, Quiet
  <2>3. resultQueue \in Seq(CheckResult) /\ Len(resultQueue) <= QueueCap
    BY SchedulerAssumption DEF Init
  <2>4. /\ worker \in [Workers -> CheckResult \cup {Idle}]
        /\ outstanding \in [TaskIds -> Nat] /\ told \in [TaskIds -> Status]
    BY SchedulerAssumption DEF Init
  <2>5. /\ stateChanged \in BOOLEAN /\ viewing \subseteq StatusClients
        /\ disk \in Snapshot \cup {Absent, Torn}
        /\ phase \in {"serving", "draining", "saving", "down"}
    BY DEF Init
  <2>6. /\ notifs \subseteq NotificationRequest /\ forwards \subseteq CheckResult
        /\ applied \subseteq Nat /\ lost \subseteq Nat /\ unannounced \subseteq TaskIds
        /\ now \in Nat /\ nextNo \in Nat \ {0}
    BY DEF Init
  <2> QED
    BY <2>1, <2>2, <2>3, <2>4, <2>5, <2>6 DEF TypeOK
<1>2. TypeOK /\ [Next]_vars => TypeOK'
  <2> SUFFICES ASSUME TypeOK, [Next]_vars
               PROVE  TypeOK'
    OBVIOUS
  <2>1. CASE UNCHANGED vars
    BY <2>1 DEF vars, TypeOK
  <2>2. CASE Next
    BY <2>2, SyncAllType, PopType, LoseTaskType, PushResultType, TakeResultType,
       ApplyResultType, BackgroundType, SaveType, LifeType
       DEF Next
  <2> QED
    BY <2>1, <2>2
<1> QED
  BY <1>1, <1>2, PTL DEF Spec

-----------------------------------------------------------------------------
(* The state file. The maps change only under mu.Lock, and no saveState is  *)
(* between its marshalling and the end of its write then; a process that is *)
(* down has no saver and no maps.                                           *)

DownIsEmpty == phase = "down" => saver = Quiet /\ Memory = NoMemory

FileInv == SaveIsCurrent /\ DownIsEmpty

Locked == CanLock /\ UNCHANGED << saver, disk, phase >>
Aside  == UNCHANGED << hosts, services, saver, disk, told, unannounced >> /\ Running' = Running

SaveStep == \/ \E s \in Savers : SaveBegin(s) \/ SaveTruncate(s) \/ SaveWrite(s) \/ SaveFails(s)
            \/ ClearStateChanged

\* What each step does to the maps, the savers and the file.
LEMMA LockedSteps ==
  ASSUME Next
  PROVE  \/ \E cfg \in Configs : SyncAll(cfg)
         \/ \E h \in HostIds : PopHost(h)
         \/ \E s \in ServiceIds : PopService(s)
         \/ \E w \in Workers : ApplyResult(w)
         \/ Aside \/ SaveStep \/ (Running /\ ProcessEnds) \/ Start
<1>1. ASSUME \/ \E id \in TaskIds : LoseTask(id) \/ \E st \in Status : PushResult(id, st)
             \/ \E w \in Workers : TakeResult(w)
             \/ \E req \in notifs : NotifyDone(req)
             \/ \E res \in forwards : ForwardDone(res)
      PROVE  Aside
  BY <1>1 DEF LoseTask, PushResult, TakeResult, NotifyDone, ForwardDone, Aside, Running, procVars
<1>2. ASSUME \/ \E c \in StatusClients : StatusBegin(c) \/ StatusEnd(c)
             \/ Shutdown \/ BrokersDrained \/ Tick
      PROVE  Aside
  BY <1>2 DEF StatusBegin, StatusEnd, Shutdown, BrokersDrained, Tick, Serving, Aside, Running,
              memVars, procVars
<1>3. Exit \/ Crash => Running /\ ProcessEnds
  BY DEF Exit, Crash, Running
<1> QED
  BY <1>1, <1>2, <1>3 DEF Next, SaveStep

LEMMA StepKinds ==
  ASSUME Next
  PROVE  Locked \/ Aside \/ SaveStep \/ (Running /\ ProcessEnds) \/ Start
<1>1. ASSUME \/ \E cfg \in Configs : SyncAll(cfg)
             \/ \E h \in HostIds : PopHost(h)
             \/ \E s \in ServiceIds : PopService(s)
             \/ \E w \in Workers : ApplyResult(w)
      PROVE  Locked
  BY <1>1 DEF SyncAll, PopHost, PopService, Issue, ApplyResult, Locked, procVars
<1> QED
  BY <1>1, LockedSteps

LEMMA SaveStepFrame ==
  ASSUME SaveStep
  PROVE  /\ UNCHANGED << hosts, services, phase, told, unannounced >>
         /\ phase = "down" => \E s \in Savers : saver[s].pc # "idle"
BY DEF SaveStep, SaveBegin, SaveTruncate, SaveWrite, SaveFails, ClearStateChanged, memVars,
       Running, Savers

LEMMA FileInvStep ==
  ASSUME TypeOK, FileInv, [Next]_vars
  PROVE  FileInv'
<1>1. CASE UNCHANGED vars \/ Aside
  BY <1>1 DEF FileInv, SaveIsCurrent, DownIsEmpty, Aside, Running, Memory, vars
<1>2. CASE Locked
  BY <1>2 DEF Locked, CanLock, ReadLocked, Running, FileInv, SaveIsCurrent, DownIsEmpty
<1>3. CASE SaveStep
  <2>1. UNCHANGED Memory /\ phase # "down" /\ phase' = phase
    BY <1>3, SaveStepFrame DEF FileInv, DownIsEmpty, Quiet, Memory
  <2>2. SaveIsCurrent'
    <3>1. ASSUME NEW s \in Savers, SaveBegin(s)
          PROVE  SaveIsCurrent'
      BY <2>1, <3>1 DEF SaveBegin, FileInv, SaveIsCurrent, TypeOK
    <3>2. ASSUME NEW s \in Savers, SaveTruncate(s)
          PROVE  SaveIsCurrent'
      BY <2>1, <3>2 DEF SaveTruncate, FileInv, SaveIsCurrent, TypeOK
    <3>3. ASSUME NEW s \in Savers, SaveWrite(s)
          PROVE  SaveIsCurrent'
      BY <2>1, <3>3 DEF SaveWrite, FileInv, SaveIsCurrent, TypeOK
    <3>4. ASSUME NEW s \in Savers, SaveFails(s)
          PROVE  SaveIsCurrent'
      BY <2>1, <3>4 DEF SaveFails, FileInv, SaveIsCurrent, TypeOK
    <3>5. CASE ClearStateChanged
      BY <2>1, <3>5 DEF ClearStateChanged, FileInv, SaveIsCurrent, TypeOK
    <3> QED
      BY <1>3, <3>1, <3>2, <3>3, <3>4, <3>5 DEF SaveStep
  <2> QED
    BY <2>1, <2>2 DEF FileInv, DownIsEmpty
<1>4. CASE Running /\ ProcessEnds
  BY <1>4 DEF ProcessEnds, FileInv, SaveIsCurrent, DownIsEmpty, Quiet, Memory, NoMemory
<1>5. CASE Start
  BY <1>5 DEF Start, FileInv, SaveIsCurrent, DownIsEmpty, Quiet, TypeOK
<1> QED
  BY <1>1, <1>2, <1>3, <1>4, <1>5, StepKinds

LEMMA FileInvariant == Spec => []FileInv
<1>1. Init => FileInv
  BY DEF Init, FileInv, SaveIsCurrent, DownIsEmpty, Quiet
<1>2. TypeOK /\ FileInv /\ [Next]_vars => FileInv'
  BY FileInvStep
<1> QED
  BY <1>1, <1>2, Typing, PTL DEF Spec

\* No handler, worker or restart changes the maps under a running saveState.
THEOREM SavesAreCurrent == Spec => []SaveIsCurrent
<1>1. FileInv => SaveIsCurrent
  BY DEF FileInv
<1> QED
  BY <1>1, FileInvariant, PTL

-----------------------------------------------------------------------------
(* A saveState, seen from outside, is one write of the maps as they are     *)
(* when it ends: Scheduler implements StateStore.                           *)

LEMMA StoreStep ==
  ASSUME TypeOK, TypeOK', FileInv, [Next]_vars
  PROVE  [Store!Next]_Store!store
<1>0. Memory \in Snapshot /\ Memory' \in Snapshot
  BY MemoryType DEF TypeOK, Memory, Snapshot
<1>1. CASE UNCHANGED vars \/ Aside
  BY <1>1 DEF Aside, Store!store, Memory, Running, vars
<1>2. CASE Locked
  <2>1. Store!Update
    BY <1>0, <1>2 DEF Locked, CanLock, Running, Store!Update
  <2> QED
    BY <2>1 DEF Store!Next
<1>3. CASE SaveStep
  <2>1. UNCHANGED Memory /\ phase # "down" /\ phase' = phase
    BY <1>3, SaveStepFrame DEF FileInv, DownIsEmpty, Quiet, Memory
  <2>2. Running /\ Running'
    BY <2>1 DEF Running
  <2>3. ASSUME NEW s \in Savers, SaveTruncate(s)
        PROVE  Store!Tear
    BY <2>1, <2>2, <2>3 DEF SaveTruncate, Store!Tear
  <2>4. ASSUME NEW s \in Savers, SaveWrite(s)
        PROVE  Store!Save
    BY <2>1, <2>2, <2>4 DEF SaveWrite, FileInv, SaveIsCurrent, Store!Save
  <2>5. ASSUME \/ \E s \in Savers : SaveBegin(s) \/ SaveFails(s)
               \/ ClearStateChanged
        PROVE  UNCHANGED Store!store
    BY <2>1, <2>2, <2>5 DEF SaveBegin, SaveFails, ClearStateChanged, Store!store
  <2> QED
    BY <1>3, <2>3, <2>4, <2>5 DEF SaveStep, Store!Next
<1>4. CASE Running /\ ProcessEnds
  <2>1. Store!Stop
    BY <1>4 DEF ProcessEnds, Running, Memory, NoMemory, Store!Stop
  <2> QED
    BY <2>1 DEF Store!Next
<1>5. CASE Start
  <2>1. Memory' = Store!Loaded
    BY <1>5 DEF Start, Loaded, Saved, Store!Loaded, Memory, NoMemory, TypeOK, Snapshot
  <2>2. Store!Start
    BY <1>5, <2>1 DEF Start, Running, Store!Start
  <2> QED
    BY <2>2 DEF Store!Next
<1> QED
  BY <1>1, <1>2, <1>3, <1>4, <1>5, StepKinds

\* The file only ever gets the maps of one moment; a restart has what the file
\* holds, or nothing (storage.go).
THEOREM StoreImplemented == Spec => ImplementsStore
<1>1. Init => Store!Init
  BY DEF Init, Store!Init, Running, Memory, NoMemory
<1>2. TypeOK /\ TypeOK' /\ FileInv /\ [Next]_vars => [Store!Next]_Store!store
  BY StoreStep
<1> QED
  BY <1>1, <1>2, Typing, FileInvariant, PTL DEF Spec, ImplementsStore, Store!Spec

-----------------------------------------------------------------------------
(* What the dirty flag does promise. CleanMeansSaved is not kept by the     *)
(* code, since ClearStateChanged may run after later changes; but no step   *)
(* makes the file and the maps differ unmarked.                             *)

\* the file has the statuses in memory
Kept == Statuses(disk) = Statuses(Memory)

\* In a running process whose file agrees with the maps, also one that has just
\* started, a step leaves it so, sets stateChanged, or leaves a torn file.
ChangesAreMarked ==
  [][Running' /\ (Kept \/ ~Running) => Kept' \/ stateChanged' \/ disk' = Torn]_vars

LEMMA PopKeepsStatuses ==
  ASSUME TypeOK, TypeOK', \/ \E h \in HostIds : PopHost(h)
                          \/ \E s \in ServiceIds : PopService(s)
  PROVE  Statuses(Memory') = Statuses(Memory) /\ disk' = disk
<1>1. Memory \notin {Absent, Torn} /\ Memory' \notin {Absent, Torn}
  BY MemoryType, SchedulerAssumption DEF TypeOK, Memory, Snapshot
<1>2. disk' = disk
  BY DEF PopHost, PopService, Issue
<1>3. \A h \in HostIds : /\ hosts'[h] = Absent <=> hosts[h] = Absent
                         /\ hosts[h] # Absent => hosts'[h].isUp = hosts[h].isUp
  <2>1. ASSUME NEW g \in HostIds, PopHost(g), NEW h \in HostIds
        PROVE  /\ hosts'[h] = Absent <=> hosts[h] = Absent
               /\ hosts[h] # Absent => hosts'[h].isUp = hosts[h].isUp
    <3>1. hosts[g] \in Host /\ hosts'[g] \in Host \cup {Absent}
      BY <2>1 DEF PopHost, DueHosts, TypeOK, HostMap
    <3>2. hosts'[h] = IF h = g THEN [hosts[g] EXCEPT !.nextCheck = now + HostInterval]
                      ELSE hosts[h]
      BY <2>1 DEF PopHost, TypeOK, HostMap
    <3>0. now + HostInterval \in Nat
      BY SchedulerAssumption DEF TypeOK
    <3>3. [hosts[g] EXCEPT !.nextCheck = now + HostInterval] \in Host
      BY <3>0, <3>1, HostUpdateType
    <3>4. [hosts[g] EXCEPT !.nextCheck = now + HostInterval].isUp = hosts[g].isUp
      BY <3>1 DEF Host
    <3> QED
      BY <3>1, <3>2, <3>3, <3>4, SchedulerAssumption
  <2>2. ASSUME NEW s \in ServiceIds, PopService(s)
        PROVE  hosts' = hosts
    BY <2>2 DEF PopService
  <2> QED
    BY <2>1, <2>2
<1>4. \A s \in ServiceIds : /\ services'[s] = Absent <=> services[s] = Absent
                            /\ services[s] # Absent
                                 => services'[s].currentState = services[s].currentState
  <2>1. ASSUME NEW t \in ServiceIds, PopService(t), NEW s \in ServiceIds
        PROVE  /\ services'[s] = Absent <=> services[s] = Absent
               /\ services[s] # Absent
                    => services'[s].currentState = services[s].currentState
    <3>1. services[t] \in Service
      BY <2>1 DEF PopService, DueServices, TypeOK, ServiceMap
    <3>2. services'[s] = IF s = t
                         THEN [services[t] EXCEPT !.nextCheck = now + ServiceInterval]
                         ELSE services[s]
      BY <2>1 DEF PopService, TypeOK, ServiceMap
    <3>0. now + ServiceInterval \in Nat
      BY SchedulerAssumption DEF TypeOK
    <3>3. [services[t] EXCEPT !.nextCheck = now + ServiceInterval] \in Service
      BY <3>0, <3>1, ServiceUpdateType
    <3>4. [services[t] EXCEPT !.nextCheck = now + ServiceInterval].currentState
            = services[t].currentState
      BY <3>1 DEF Service
    <3> QED
      BY <3>1, <3>2, <3>3, <3>4, SchedulerAssumption
  <2>2. ASSUME NEW h \in HostIds, PopHost(h)
        PROVE  services' = services
    BY <2>2 DEF PopHost
  <2> QED
    BY <2>1, <2>2
<1>5. [h \in HostIds |-> IF hosts'[h] = Absent THEN Absent ELSE [isUp |-> hosts'[h].isUp]]
        = [h \in HostIds |-> IF hosts[h] = Absent THEN Absent ELSE [isUp |-> hosts[h].isUp]]
  BY <1>3
<1>6. [s \in ServiceIds |-> IF services'[s] = Absent THEN Absent
                            ELSE [state |-> services'[s].currentState]]
        = [s \in ServiceIds |-> IF services[s] = Absent THEN Absent
                                ELSE [state |-> services[s].currentState]]
  BY <1>4
<1> QED
  BY <1>1, <1>2, <1>5, <1>6 DEF Statuses, Memory

LEMMA StartKept ==
  ASSUME TypeOK, TypeOK', Start
  PROVE  Kept' \/ disk' = Torn
<1>1. CASE disk = Absent
  <2>1. disk' = Absent /\ hosts' = NoHosts /\ services' = NoServices
    BY <1>1 DEF Start, Loaded, Saved, NoMemory
  <2>2. Statuses(Memory') = [hosts |-> NoHosts, services |-> NoServices]
    BY <2>1 DEF Statuses, Memory, NoHosts, NoServices
  <2> QED
    BY <2>1, <2>2 DEF Kept, Statuses
<1>2. CASE disk \in Snapshot
  <2>1. Memory' = disk /\ disk' = disk
    BY <1>2, SchedulerAssumption DEF Start, Loaded, Saved, Memory, Snapshot
  <2> QED
    BY <2>1 DEF Kept
<1> QED
  BY <1>1, <1>2 DEF Start, TypeOK

LEMMA MarkStep ==
  ASSUME TypeOK, TypeOK', FileInv, [Next]_vars, Running', Kept \/ ~Running
  PROVE  Kept' \/ stateChanged' \/ disk' = Torn \/ UNCHANGED vars
<1>1. CASE \/ \E cfg \in Configs : SyncAll(cfg)
           \/ \E w \in Workers : ApplyResult(w)
  BY <1>1 DEF SyncAll, ApplyResult
<1>2. CASE \/ \E h \in HostIds : PopHost(h)
           \/ \E s \in ServiceIds : PopService(s)
  BY <1>2, PopKeepsStatuses DEF Kept, PopHost, PopService, CanLock
<1>3. CASE Aside
  BY <1>3 DEF Aside, Kept, Memory
<1>4. CASE SaveStep
  <2>1. Memory' = Memory /\ Running
    BY <1>4, SaveStepFrame DEF FileInv, DownIsEmpty, Quiet, Memory, Running
  <2>2. ASSUME NEW s \in Savers, SaveTruncate(s)
        PROVE  disk' = Torn
    BY <2>2 DEF SaveTruncate
  <2>3. ASSUME NEW s \in Savers, SaveWrite(s)
        PROVE  Kept'
    BY <2>1, <2>3 DEF SaveWrite, FileInv, SaveIsCurrent, Kept
  <2>4. ASSUME \/ \E s \in Savers : SaveBegin(s) \/ SaveFails(s)
               \/ ClearStateChanged
        PROVE  Kept'
    BY <2>1, <2>4 DEF SaveBegin, SaveFails, ClearStateChanged, Kept
  <2> QED
    BY <1>4, <2>2, <2>3, <2>4 DEF SaveStep
<1>5. CASE Running /\ ProcessEnds
  BY <1>5 DEF ProcessEnds, Running
<1>6. CASE Start
  BY <1>6, StartKept
<1> QED
  BY <1>1, <1>2, <1>3, <1>4, <1>5, <1>6, LockedSteps

\* Reloads and results never make the file stale unnoticed: syncAllHandler
\* (handler.go:51) and resultWorker (main.go:128) set stateChanged under the lock
\* of the change. Only the loop's own reset (main.go:71) takes a mark away.
THEOREM NoUnmarkedChange == Spec => ChangesAreMarked
<1>1. TypeOK /\ TypeOK' /\ FileInv /\ [Next]_vars =>
        [Running' /\ (Kept \/ ~Running) => Kept' \/ stateChanged' \/ disk' = Torn]_vars
  BY MarkStep
<1> QED
  BY <1>1, Typing, FileInvariant, PTL DEF Spec, ChangesAreMarked

-----------------------------------------------------------------------------
(* IsUp and Status of a host, in memory and in the file.                    *)

LEMMA MergeHostCoherent ==
  ASSUME NEW old \in Host \cup {Absent}, NEW def \in HostDef \cup {Absent},
         old # Absent => (old.isUp = (old.status = 0)),
         MergeHost(old, def) # Absent
  PROVE  MergeHost(old, def).isUp = (MergeHost(old, def).status = 0)
BY DEF MergeHost, Host, HostDef

LEMMA CoherentStep ==
  ASSUME TypeOK, Coherent(hosts), [Next]_vars, ~SaveStep, ~Start
  PROVE  Coherent(hosts')
<1>1. CASE UNCHANGED vars \/ Aside
  BY <1>1 DEF Aside, vars
<1>2. ASSUME NEW cfg \in Configs, SyncAll(cfg)
      PROVE  Coherent(hosts')
  <2>1. cfg \in Config
    BY SchedulerAssumption
  <2>2. ASSUME NEW h \in HostIds, hosts'[h] # Absent
        PROVE  hosts'[h].isUp = (hosts'[h].status = 0)
    <3>1. hosts'[h] = MergeHost(hosts[h], cfg.hosts[h])
      BY <1>2 DEF SyncAll
    <3>2. hosts[h] \in Host \cup {Absent} /\ cfg.hosts[h] \in HostDef \cup {Absent}
      BY <2>1 DEF Config, TypeOK, HostMap
    <3> QED
      BY <2>2, <3>1, <3>2, MergeHostCoherent DEF Coherent
  <2> QED
    BY <2>2 DEF Coherent
<1>3. ASSUME NEW h \in HostIds, PopHost(h)
      PROVE  Coherent(hosts')
  BY <1>3 DEF PopHost, DueHosts, Coherent, TypeOK, HostMap, Host
<1>4. ASSUME NEW s \in ServiceIds, PopService(s)
      PROVE  Coherent(hosts')
  BY <1>4 DEF PopService, Coherent
<1>5. ASSUME NEW w \in Workers, ApplyResult(w)
      PROVE  Coherent(hosts')
  <2>1. ASSUME NEW h \in HostIds, HandleHostResult(worker[w], h)
        PROVE  Coherent(hosts')
    <3>1. CASE hosts[h] = Absent
      BY <2>1, <3>1 DEF HandleHostResult, IgnoreResult, Coherent
    <3>2. CASE hosts[h] # Absent
      BY <2>1, <3>2 DEF HandleHostResult, Coherent, TypeOK, HostMap, Host
    <3> QED
      BY <3>1, <3>2
  <2>2. ASSUME NEW s \in ServiceIds, HandleServiceResult(worker[w], s)
        PROVE  Coherent(hosts')
    BY <2>2 DEF HandleServiceResult, IgnoreResult, Coherent
  <2> QED
    BY <1>5, <2>1, <2>2, ApplyResultCases
<1>6. CASE ProcessEnds
  BY <1>6 DEF ProcessEnds, Coherent, NoHosts
<1> QED
  BY <1>1, <1>2, <1>3, <1>4, <1>5, <1>6, LockedSteps

LEMMA HostsCoherentStep ==
  ASSUME TypeOK, HostsCoherent, [Next]_vars
  PROVE  HostsCoherent'
<1>1. ASSUME NEW s \in Savers, SaveBegin(s)
      PROVE  HostsCoherent'
  BY <1>1 DEF SaveBegin, HostsCoherent, Memory, TypeOK, memVars
<1>2. ASSUME NEW s \in Savers, SaveTruncate(s)
      PROVE  HostsCoherent'
  BY <1>2 DEF SaveTruncate, HostsCoherent, TypeOK, memVars
<1>3. ASSUME NEW s \in Savers, SaveWrite(s)
      PROVE  HostsCoherent'
  BY <1>3 DEF SaveWrite, HostsCoherent, TypeOK, memVars
<1>4. ASSUME NEW s \in Savers, SaveFails(s)
      PROVE  HostsCoherent'
  BY <1>4 DEF SaveFails, HostsCoherent, TypeOK, memVars
<1>5. CASE ClearStateChanged
  BY <1>5 DEF ClearStateChanged, HostsCoherent, TypeOK
<1>6. CASE Start
  BY <1>6 DEF Start, Loaded, Saved, HostsCoherent, NoMemory, NoHosts, Coherent
<1>7. CASE ~SaveStep /\ ~Start
  <2>1. Coherent(hosts')
    BY <1>7, CoherentStep DEF HostsCoherent
  <2>2. UNCHANGED disk /\ (UNCHANGED saver \/ saver' = Quiet)
    BY <1>7, StepKinds DEF Locked, Aside, ProcessEnds, vars
  <2> QED
    BY <2>1, <2>2 DEF HostsCoherent, Quiet
<1> QED
  BY <1>1, <1>2, <1>3, <1>4, <1>5, <1>6, <1>7 DEF SaveStep

\* A host is up exactly when its last status is 0, in memory, in the copy being
\* written and in the state file, across reloads, crashes and restarts.
THEOREM HostsAreCoherent == Spec => []HostsCoherent
<1>1. Init => HostsCoherent
  BY DEF Init, HostsCoherent, Coherent, NoHosts, Quiet
<1>2. TypeOK /\ HostsCoherent /\ [Next]_vars => HostsCoherent'
  BY HostsCoherentStep
<1> QED
  BY <1>1, <1>2, Typing, PTL DEF Spec

-----------------------------------------------------------------------------
(* NextCheck.                                                               *)

Grows(old, new) == old # Absent /\ new # Absent => new.nextCheck >= old.nextCheck

LEMMA MergeGrows ==
  /\ \A old \in Host \cup {Absent}, def \in HostDef \cup {Absent} :
       Grows(old, MergeHost(old, def))
  /\ \A old \in Service \cup {Absent}, def \in ServiceDef \cup {Absent} :
       Grows(old, MergeService(old, def))
<1>1. ASSUME NEW old \in Host \cup {Absent}, NEW def \in HostDef \cup {Absent}
      PROVE  Grows(old, MergeHost(old, def))
  BY <1>1 DEF Grows, MergeHost, Host
<1>2. ASSUME NEW old \in Service \cup {Absent}, NEW def \in ServiceDef \cup {Absent}
      PROVE  Grows(old, MergeService(old, def))
  BY <1>2 DEF Grows, MergeService, Service
<1> QED
  BY <1>1, <1>2

LEMMA SameGrows ==
  /\ TypeOK => \A h \in HostIds : Grows(hosts[h], hosts[h])
  /\ TypeOK => \A s \in ServiceIds : Grows(services[s], services[s])
BY DEF Grows, TypeOK, HostMap, ServiceMap, Host, Service

LEMMA NextCheckStep ==
  ASSUME TypeOK, DownIsEmpty, [Next]_vars
  PROVE  /\ \A h \in HostIds : Grows(hosts[h], hosts'[h])
         /\ \A s \in ServiceIds : Grows(services[s], services'[s])
<1>1. CASE UNCHANGED << hosts, services >>
  BY <1>1, SameGrows
<1>2. ASSUME NEW cfg \in Configs, SyncAll(cfg)
      PROVE  /\ \A h \in HostIds : Grows(hosts[h], hosts'[h])
             /\ \A s \in ServiceIds : Grows(services[s], services'[s])
  <2>1. cfg \in Config
    BY SchedulerAssumption
  <2>2. ASSUME NEW h \in HostIds
        PROVE  Grows(hosts[h], hosts'[h])
    <3>1. hosts'[h] = MergeHost(hosts[h], cfg.hosts[h])
      BY <1>2 DEF SyncAll
    <3>2. hosts[h] \in Host \cup {Absent} /\ cfg.hosts[h] \in HostDef \cup {Absent}
      BY <2>1 DEF Config, TypeOK, HostMap
    <3> QED
      BY <3>1, <3>2, MergeGrows
  <2>3. ASSUME NEW s \in ServiceIds
        PROVE  Grows(services[s], services'[s])
    <3>1. services'[s] = MergeService(services[s], cfg.services[s])
      BY <1>2 DEF SyncAll
    <3>2. services[s] \in Service \cup {Absent} /\ cfg.services[s] \in ServiceDef \cup {Absent}
      BY <2>1 DEF Config, TypeOK, ServiceMap
    <3> QED
      BY <3>1, <3>2, MergeGrows
  <2> QED
    BY <2>2, <2>3
<1>3. ASSUME NEW h \in HostIds, PopHost(h)
      PROVE  /\ \A x \in HostIds : Grows(hosts[x], hosts'[x])
             /\ \A s \in ServiceIds : Grows(services[s], services'[s])
  <2>1. hosts[h] \in Host /\ now >= hosts[h].nextCheck /\ now + HostInterval >= now
    BY <1>3, SchedulerAssumption DEF PopHost, DueHosts, TypeOK, HostMap
  <2>2. hosts'[h] = [hosts[h] EXCEPT !.nextCheck = now + HostInterval]
    BY <1>3 DEF PopHost, TypeOK, HostMap
  <2>3. Grows(hosts[h], hosts'[h])
    BY <2>1, <2>2, SchedulerAssumption DEF Grows, Host, TypeOK
  <2>4. \A x \in HostIds \ {h} : hosts'[x] = hosts[x]
    BY <1>3 DEF PopHost, TypeOK, HostMap
  <2> QED
    BY <1>3, <2>3, <2>4, SameGrows DEF PopHost
<1>4. ASSUME NEW s \in ServiceIds, PopService(s)
      PROVE  /\ \A h \in HostIds : Grows(hosts[h], hosts'[h])
             /\ \A x \in ServiceIds : Grows(services[x], services'[x])
  <2>1. services[s] \in Service /\ now >= services[s].nextCheck /\ now + ServiceInterval >= now
    BY <1>4, SchedulerAssumption DEF PopService, DueServices, TypeOK, ServiceMap
  <2>2. services'[s] = [services[s] EXCEPT !.nextCheck = now + ServiceInterval]
    BY <1>4 DEF PopService, TypeOK, ServiceMap
  <2>3. Grows(services[s], services'[s])
    BY <2>1, <2>2, SchedulerAssumption DEF Grows, Service, TypeOK
  <2>4. \A x \in ServiceIds \ {s} : services'[x] = services[x]
    BY <1>4 DEF PopService, TypeOK, ServiceMap
  <2> QED
    BY <1>4, <2>3, <2>4, SameGrows DEF PopService
<1>5. ASSUME NEW w \in Workers, ApplyResult(w)
      PROVE  /\ \A h \in HostIds : Grows(hosts[h], hosts'[h])
             /\ \A s \in ServiceIds : Grows(services[s], services'[s])
  <2>1. ASSUME NEW h \in HostIds, HandleHostResult(worker[w], h), hosts[h] # Absent
        PROVE  UNCHANGED services /\ \A x \in HostIds : Grows(hosts[x], hosts'[x])
    <3>1. hosts[h] \in Host
      BY <2>1 DEF TypeOK, HostMap
    <3>2. hosts'[h].nextCheck = hosts[h].nextCheck
      BY <2>1, <3>1 DEF HandleHostResult, TypeOK, HostMap, Host
    <3>3. Grows(hosts[h], hosts'[h])
      BY <3>1, <3>2 DEF Grows, Host
    <3>4. \A x \in HostIds \ {h} : hosts'[x] = hosts[x]
      BY <2>1 DEF HandleHostResult, TypeOK, HostMap
    <3> QED
      BY <2>1, <3>3, <3>4, SameGrows DEF HandleHostResult
  <2>2. ASSUME NEW s \in ServiceIds, HandleServiceResult(worker[w], s), services[s] # Absent
        PROVE  UNCHANGED hosts /\ \A x \in ServiceIds : Grows(services[x], services'[x])
    <3>1. services[s] \in Service
      BY <2>2 DEF TypeOK, ServiceMap
    <3>2. services'[s].nextCheck = services[s].nextCheck
      BY <2>2, <3>1 DEF HandleServiceResult, TypeOK, ServiceMap, Service
    <3>3. Grows(services[s], services'[s])
      BY <3>1, <3>2 DEF Grows, Service
    <3>4. \A x \in ServiceIds \ {s} : services'[x] = services[x]
      BY <2>2 DEF HandleServiceResult, TypeOK, ServiceMap
    <3> QED
      BY <2>2, <3>3, <3>4, SameGrows DEF HandleServiceResult
  <2> QED
    BY <1>1, <1>5, <2>1, <2>2, SameGrows, ApplyResultCases
       DEF HandleHostResult, HandleServiceResult, IgnoreResult
<1>6. CASE Running /\ ProcessEnds
  BY <1>6 DEF ProcessEnds, NoHosts, NoServices, Grows
<1>7. CASE Start
  BY <1>7 DEF Start, DownIsEmpty, Memory, NoMemory, NoHosts, NoServices, Grows
<1>8. Aside \/ SaveStep \/ UNCHANGED vars => UNCHANGED << hosts, services >>
  BY SaveStepFrame DEF Aside, vars
<1> QED
  BY <1>1, <1>2, <1>3, <1>4, <1>5, <1>6, <1>7, <1>8, LockedSteps

\* While an entry stays in the inventory of a running process its next check is
\* never moved earlier: a reload cannot make a task due that was just handed out.
THEOREM NextChecksGrow == Spec => NextCheckGrows
<1>1. TypeOK /\ FileInv /\ [Next]_vars =>
        [/\ \A h \in HostIds : hosts[h] # Absent /\ hosts'[h] # Absent
                                 => hosts'[h].nextCheck >= hosts[h].nextCheck
         /\ \A s \in ServiceIds : services[s] # Absent /\ services'[s] # Absent
                                    => services'[s].nextCheck >= services[s].nextCheck]_vars
  BY NextCheckStep DEF FileInv, Grows
<1> QED
  BY <1>1, Typing, FileInvariant, PTL DEF Spec, NextCheckGrows

-----------------------------------------------------------------------------
(* Accepted results. That no number is in two places at once needs the      *)
(* order of the channel: its numbers grow, and exceed those taken from it.  *)

\* whatever is still queued was accepted after whatever was taken
TakenInOrder ==
  /\ \A i, j \in DOMAIN resultQueue : i < j => resultQueue[i].n < resultQueue[j].n
  /\ \A m \in Held \cup applied, i \in DOMAIN resultQueue : m < resultQueue[i].n

QueueInv == ResultsAccounted /\ TakenInOrder /\ nextNo <= MaxResults + 1

queueVars == << resultQueue, worker, nextNo, applied, lost >>

Accepted(id, st) ==
  /\ HasRoom /\ nextNo <= MaxResults
  /\ resultQueue' = Enqueue([n |-> nextNo, id |-> id, status |-> st])
  /\ nextNo' = nextNo + 1
  /\ UNCHANGED << worker, applied, lost >>

LEMMA QueueSteps ==
  ASSUME Next
  PROVE  \/ UNCHANGED queueVars
         \/ \E id \in TaskIds, st \in Status : Accepted(id, st)
         \/ \E w \in Workers : TakeResult(w) \/ ApplyResult(w)
         \/ ProcessEnds
<1>1. ASSUME \/ \E cfg \in Configs : SyncAll(cfg)
             \/ \E h \in HostIds : PopHost(h)
             \/ \E s \in ServiceIds : PopService(s)
             \/ \E id \in TaskIds : LoseTask(id)
             \/ \E req \in notifs : NotifyDone(req)
             \/ \E res \in forwards : ForwardDone(res)
      PROVE  UNCHANGED queueVars
  BY <1>1 DEF SyncAll, PopHost, PopService, Issue, LoseTask, NotifyDone, ForwardDone,
              netVars, queueVars
<1>2. ASSUME \/ \E c \in StatusClients : StatusBegin(c) \/ StatusEnd(c)
             \/ SaveStep \/ Shutdown \/ BrokersDrained \/ Start \/ Tick
      PROVE  UNCHANGED queueVars
  BY <1>2 DEF StatusBegin, StatusEnd, SaveStep, SaveBegin, SaveTruncate, SaveWrite, SaveFails,
              ClearStateChanged, Shutdown, BrokersDrained, Start, Tick, netVars, queueVars
<1>3. ASSUME NEW id \in TaskIds, NEW st \in Status, PushResult(id, st)
      PROVE  Accepted(id, st) \/ UNCHANGED queueVars
  BY <1>3 DEF PushResult, Accepted, queueVars
<1> QED
  BY <1>1, <1>2, <1>3 DEF Next, SaveStep, Exit, Crash

LEMMA QueueElements ==
  ASSUME TypeOK
  PROVE  /\ \A i \in DOMAIN resultQueue : resultQueue[i] \in CheckResult
         /\ DOMAIN resultQueue = 1 .. Len(resultQueue) /\ Len(resultQueue) \in Nat
         /\ \A w \in Workers : worker[w] # Idle => worker[w] \in CheckResult
         /\ Queued \subseteq Nat /\ Held \subseteq Nat
<1>1. /\ \A i \in DOMAIN resultQueue : resultQueue[i] \in CheckResult
      /\ DOMAIN resultQueue = 1 .. Len(resultQueue) /\ Len(resultQueue) \in Nat
      /\ \A w \in Workers : worker[w] # Idle => worker[w] \in CheckResult
  BY DEF TypeOK
<1> QED
  BY <1>1 DEF Queued, Held, CheckResult

LEMMA AcceptedSets ==
  ASSUME TypeOK, QueueInv, NEW id \in TaskIds, NEW st \in Status, Accepted(id, st)
  PROVE  /\ Queued' = Queued \cup {nextNo} /\ Held' = Held
         /\ nextNo \notin Queued \cup Held \cup applied \cup lost
         /\ \A m \in Queued \cup Held \cup applied : m < nextNo
         /\ TakenInOrder'
<1> DEFINE res == [n |-> nextNo, id |-> id, status |-> st]
<1>1. res \in CheckResult
  BY DEF TypeOK, CheckResult
<1>2. /\ Len(resultQueue') = Len(resultQueue) + 1
      /\ DOMAIN resultQueue' = 1 .. Len(resultQueue) + 1
      /\ \A i \in 1 .. Len(resultQueue) : resultQueue'[i] = resultQueue[i]
      /\ resultQueue'[Len(resultQueue) + 1] = res
  BY <1>1 DEF Accepted, Enqueue, TypeOK
<1>3. Held' = Held
  BY DEF Accepted, Held
<1>4. Queued' = Queued \cup {nextNo}
  BY <1>2, QueueElements DEF Queued
<1>5. /\ nextNo \notin Queued \cup Held \cup applied \cup lost
      /\ \A m \in Queued \cup Held \cup applied : m < nextNo
  BY DEF QueueInv, ResultsAccounted, TypeOK
<1>6. \A i \in 1 .. Len(resultQueue) : resultQueue[i].n < nextNo
  BY <1>5, QueueElements DEF Queued
<1>7. \A i, k \in DOMAIN resultQueue' : i < k => resultQueue'[i].n < resultQueue'[k].n
  BY <1>2, <1>6, QueueElements DEF QueueInv, TakenInOrder
<1>8. \A m \in Held' \cup applied', i \in DOMAIN resultQueue' : m < resultQueue'[i].n
  BY <1>2, <1>3, <1>5, QueueElements DEF Accepted, QueueInv, TakenInOrder
<1> QED
  BY <1>3, <1>4, <1>5, <1>7, <1>8 DEF TakenInOrder

LEMMA TakenSets ==
  ASSUME TypeOK, QueueInv, NEW w \in Workers, TakeResult(w)
  PROVE  /\ Queued = Queued' \cup {Head(resultQueue).n} /\ Head(resultQueue).n \notin Queued'
         /\ Held' = Held \cup {Head(resultQueue).n}
         /\ TakenInOrder'
<1> DEFINE n == Head(resultQueue).n
<1>1. /\ Len(resultQueue) \in Nat \ {0} /\ Head(resultQueue) = resultQueue[1]
      /\ DOMAIN resultQueue' = 1 .. Len(resultQueue) - 1
      /\ \A i \in 1 .. Len(resultQueue) - 1 : resultQueue'[i] = resultQueue[i + 1]
  BY QueueElements DEF TakeResult, Dequeue, TypeOK
<1>2. \A i \in 2 .. Len(resultQueue) : n < resultQueue[i].n
  BY <1>1, QueueElements DEF QueueInv, TakenInOrder
<1>3. \A i \in DOMAIN resultQueue' : /\ i + 1 \in 2 .. Len(resultQueue)
                                     /\ resultQueue'[i] = resultQueue[i + 1]
  BY <1>1
<1>4. \A i \in 2 .. Len(resultQueue) : /\ i - 1 \in DOMAIN resultQueue'
                                       /\ resultQueue[i] = resultQueue'[i - 1]
  BY <1>1
<1>5. Queued' = {resultQueue[i].n : i \in 2 .. Len(resultQueue)}
  <2>1. ASSUME NEW m \in Queued'
        PROVE  m \in {resultQueue[i].n : i \in 2 .. Len(resultQueue)}
    <3>1. PICK i \in DOMAIN resultQueue' : m = resultQueue'[i].n
      BY DEF Queued
    <3> QED
      BY <1>3, <3>1
  <2>2. ASSUME NEW i \in 2 .. Len(resultQueue)
        PROVE  resultQueue[i].n \in Queued'
    BY <1>4 DEF Queued
  <2> QED
    BY <2>1, <2>2
<1>6. Queued = Queued' \cup {n}
  <2>1. DOMAIN resultQueue = {1} \cup (2 .. Len(resultQueue))
    BY <1>1, QueueElements
  <2>2. ASSUME NEW m \in Queued
        PROVE  m \in Queued' \cup {n}
    <3>1. PICK i \in DOMAIN resultQueue : m = resultQueue[i].n
      BY DEF Queued
    <3> QED
      BY <1>1, <1>5, <2>1, <3>1
  <2>3. n \in Queued
    BY <1>1, <2>1 DEF Queued
  <2>4. Queued' \subseteq Queued
    BY <1>5, <2>1 DEF Queued
  <2> QED
    BY <2>2, <2>3, <2>4
<1>7. n \notin Queued'
  <2>1. \A i \in 2 .. Len(resultQueue) : n # resultQueue[i].n
    BY <1>1, <1>2, QueueElements DEF CheckResult
  <2> QED
    BY <1>5, <2>1
<1>8. Head(resultQueue) # Idle
  BY <1>1, QueueElements, SchedulerAssumption
<1>9. Held' = Held \cup {n}
  <2>1. worker'[w] = Head(resultQueue) /\ \A v \in Workers \ {w} : worker'[v] = worker[v]
    BY DEF TakeResult, TypeOK
  <2>2. ASSUME NEW m \in Held'
        PROVE  m \in Held \cup {n}
    BY <2>1 DEF Held
  <2>3. n \in Held'
    BY <1>8, <2>1 DEF Held
  <2>4. worker[w] = Idle
    BY DEF TakeResult
  <2>5. Held \subseteq Held'
    BY <2>1, <2>4 DEF Held
  <2> QED
    BY <2>2, <2>3, <2>5
<1>10. \A i, k \in DOMAIN resultQueue' : i < k => resultQueue'[i].n < resultQueue'[k].n
  <2>1. \A i, k \in DOMAIN resultQueue : i < k => resultQueue[i].n < resultQueue[k].n
    BY DEF QueueInv, TakenInOrder
  <2>2. ASSUME NEW i \in DOMAIN resultQueue', NEW k \in DOMAIN resultQueue', i < k
        PROVE  resultQueue'[i].n < resultQueue'[k].n
    <3>1. i + 1 \in DOMAIN resultQueue /\ k + 1 \in DOMAIN resultQueue /\ i + 1 < k + 1
      BY <1>1, <2>2, QueueElements
    <3> QED
      BY <1>3, <2>1, <3>1
  <2> QED
    BY <2>2
<1>11. \A m \in Held' \cup applied', i \in DOMAIN resultQueue' : m < resultQueue'[i].n
  BY <1>1, <1>2, <1>3, <1>9, QueueElements DEF TakeResult, QueueInv, TakenInOrder
<1> QED
  BY <1>6, <1>7, <1>9, <1>10, <1>11 DEF TakenInOrder

LEMMA AppliedSets ==
  ASSUME TypeOK, QueueInv, NEW w \in Workers, ApplyResult(w)
  PROVE  /\ Queued' = Queued
         /\ Held = Held' \cup {worker[w].n} /\ worker[w].n \notin Held'
         /\ TakenInOrder'
<1>1. UNCHANGED << resultQueue, nextNo, lost >> /\ applied' = applied \cup {worker[w].n}
  BY DEF ApplyResult
<1>2. Queued' = Queued
  BY <1>1 DEF Queued
<1>3. worker[w] # Idle /\ worker' = [worker EXCEPT ![w] = Idle]
  BY DEF ApplyResult
<1>4. Held = Held' \cup {worker[w].n}
  BY <1>3 DEF Held, TypeOK
<1>5. worker[w].n \notin Held'
  BY <1>3 DEF Held, TypeOK, QueueInv, ResultsAccounted
<1>6. TakenInOrder'
  BY <1>1, <1>4 DEF QueueInv, TakenInOrder
<1> QED
  BY <1>2, <1>4, <1>5, <1>6

LEMMA QueueInvStep ==
  ASSUME TypeOK, QueueInv, [Next]_vars
  PROVE  QueueInv'
<1>1. CASE UNCHANGED queueVars \/ UNCHANGED vars
  BY <1>1 DEF QueueInv, ResultsAccounted, TakenInOrder, Queued, Held, queueVars, vars
<1>2. ASSUME NEW id \in TaskIds, NEW st \in Status, Accepted(id, st)
      PROVE  QueueInv'
  <2>1. /\ Queued' = Queued \cup {nextNo} /\ Held' = Held /\ TakenInOrder'
        /\ nextNo \notin Queued \cup Held \cup applied \cup lost
        /\ UNCHANGED << worker, applied, lost >> /\ nextNo' = nextNo + 1
    BY <1>2, AcceptedSets DEF Accepted
  <2>2. 1 .. nextNo' - 1 = (1 .. nextNo - 1) \cup {nextNo} /\ nextNo' <= MaxResults + 1
    BY <1>2, <2>1, SchedulerAssumption DEF TypeOK, Accepted
  <2> QED
    BY <2>1, <2>2 DEF QueueInv, ResultsAccounted
<1>3. ASSUME NEW w \in Workers, TakeResult(w)
      PROVE  QueueInv'
  <2> DEFINE n == Head(resultQueue).n
  <2>1. /\ Queued = Queued' \cup {n} /\ n \notin Queued'
        /\ Held' = Held \cup {n} /\ TakenInOrder'
        /\ UNCHANGED << applied, lost, nextNo >>
    BY <1>3, TakenSets DEF TakeResult
  <2>2. n \notin Held \cup applied \cup lost
    BY <2>1 DEF QueueInv, ResultsAccounted
  <2>3. \A u, v \in Workers : u # v /\ worker'[u] # Idle /\ worker'[v] # Idle
                                => worker'[u].n # worker'[v].n
    BY <1>3, <2>2 DEF TakeResult, Held, TypeOK, QueueInv, ResultsAccounted
  <2> QED
    BY <2>1, <2>2, <2>3 DEF QueueInv, ResultsAccounted
<1>4. ASSUME NEW w \in Workers, ApplyResult(w)
      PROVE  QueueInv'
  <2> DEFINE n == worker[w].n
  <2>1. /\ Queued' = Queued /\ Held = Held' \cup {n} /\ n \notin Held' /\ TakenInOrder'
        /\ applied' = applied \cup {n} /\ UNCHANGED << lost, nextNo >>
    BY <1>4, AppliedSets DEF ApplyResult
  <2>2. \A u, v \in Workers : u # v /\ worker'[u] # Idle /\ worker'[v] # Idle
                                => worker'[u].n # worker'[v].n
    BY <1>4 DEF ApplyResult, TypeOK, QueueInv, ResultsAccounted
  <2> QED
    BY <2>1, <2>2 DEF QueueInv, ResultsAccounted
<1>5. CASE ProcessEnds
  <2>1. /\ resultQueue' = << >> /\ \A w \in Workers : worker'[w] = Idle
        /\ lost' = lost \cup Queued \cup Held /\ UNCHANGED << applied, nextNo >>
    BY <1>5 DEF ProcessEnds
  <2>2. Queued' = {} /\ Held' = {}
    BY <2>1 DEF Queued, Held
  <2> QED
    BY <2>1, <2>2 DEF QueueInv, ResultsAccounted, TakenInOrder
<1> QED
  BY <1>1, <1>2, <1>3, <1>4, <1>5, QueueSteps

LEMMA QueueInvariant == Spec => []QueueInv
<1>1. Init => QueueInv
  BY SchedulerAssumption DEF Init, QueueInv, ResultsAccounted, TakenInOrder, Queued, Held
<1>2. TypeOK /\ QueueInv /\ [Next]_vars => QueueInv'
  BY QueueInvStep
<1> QED
  BY <1>1, <1>2, Typing, PTL DEF Spec

\* A result answered with 202 is in the channel, with one worker, processed, or
\* gone with the process, and in one of these places only.
THEOREM ResultsAreAccounted == Spec => []ResultsAccounted
<1>1. QueueInv => ResultsAccounted
  BY DEF QueueInv
<1> QED
  BY <1>1, QueueInvariant, PTL

LEMMA LedgerStep ==
  ASSUME TypeOK, QueueInv, [Next]_vars
  PROVE  [Ledger!Next]_Ledger!ledger
<1>1. CASE UNCHANGED queueVars \/ UNCHANGED vars
  BY <1>1 DEF queueVars, vars, Queued, Held, Ledger!ledger
<1>2. ASSUME NEW id \in TaskIds, NEW st \in Status, Accepted(id, st)
      PROVE  Ledger!Next
  <2>1. nextNo \in 1 .. MaxResults
    BY <1>2, SchedulerAssumption DEF Accepted, TypeOK
  <2>2. /\ Queued' = Queued \cup {nextNo} /\ Held' = Held
        /\ nextNo \notin Queued \cup Held \cup applied \cup lost
        /\ UNCHANGED << applied, lost >>
    BY <1>2, AcceptedSets DEF Accepted
  <2>3. Ledger!Accept(nextNo)
    BY <2>2 DEF Ledger!Accept
  <2> QED
    BY <2>1, <2>3 DEF Ledger!Next
<1>3. ASSUME NEW w \in Workers, TakeResult(w)
      PROVE  UNCHANGED Ledger!ledger
  <2>1. /\ Queued = Queued' \cup {Head(resultQueue).n}
        /\ Held' = Held \cup {Head(resultQueue).n} /\ UNCHANGED << applied, lost >>
    BY <1>3, TakenSets DEF TakeResult
  <2> QED
    BY <2>1 DEF Ledger!ledger
<1>4. ASSUME NEW w \in Workers, ApplyResult(w)
      PROVE  Ledger!Next
  <2> DEFINE n == worker[w].n
  <2>1. /\ Queued' = Queued /\ Held = Held' \cup {n} /\ n \notin Held'
        /\ applied' = applied \cup {n} /\ UNCHANGED lost
    BY <1>4, AppliedSets DEF ApplyResult
  <2>2. n \notin Queued
    BY <2>1 DEF QueueInv, ResultsAccounted
  <2>3. Ledger!Process(n)
    BY <2>1, <2>2 DEF Ledger!Process
  <2>4. n \in 1 .. MaxResults
    <3>1. n \in 1 .. nextNo - 1
      BY <2>1 DEF QueueInv, ResultsAccounted
    <3> QED
      BY <3>1, SchedulerAssumption DEF QueueInv, TypeOK
  <2> QED
    BY <2>3, <2>4 DEF Ledger!Next
<1>5. CASE ProcessEnds
  <2>1. Queued' = {} /\ Held' = {}
    BY <1>5 DEF ProcessEnds, Queued, Held
  <2>2. Ledger!Forget
    BY <1>5, <2>1 DEF ProcessEnds, Ledger!Forget
  <2> QED
    BY <2>2 DEF Ledger!Next
<1> QED
  BY <1>1, <1>2, <1>3, <1>4, <1>5, QueueSteps

\* The Scheduler implements the ledger of accepted results: each is processed at
\* most once and disappears only with the process (main.go:120-131).
THEOREM LedgerImplemented == Spec => ImplementsLedger
<1>1. Init => Ledger!Init
  BY DEF Init, Ledger!Init, Queued, Held
<1>2. TypeOK /\ QueueInv /\ [Next]_vars => [Ledger!Next]_Ledger!ledger
  BY LedgerStep
<1> QED
  BY <1>1, <1>2, Typing, QueueInvariant, PTL DEF Spec, ImplementsLedger, Ledger!Spec

-----------------------------------------------------------------------------
(* Notifications. While the process runs, an entity that is not excused has *)
(* the state last notified; one that is not in the inventory was last       *)
(* notified as up (OK): a reload that adds it starts it there. While it is  *)
(* down the same holds of what the file would restore.                      *)

HostToldIn(h, snap) ==
  HostTask(h) \notin unannounced => (told[HostTask(h)] = 0) = HostUp(h, snap)
ServiceToldIn(s, snap) ==
  ServiceTask(s) \notin unannounced => told[ServiceTask(s)] = StateOf(s, snap)

HostTold(h) ==
  HostTask(h) \notin unannounced =>
    (told[HostTask(h)] = 0) = (hosts[h] = Absent \/ hosts[h].isUp)
ServiceTold(s) ==
  ServiceTask(s) \notin unannounced =>
    told[ServiceTask(s)] = IF services[s] = Absent THEN 0 ELSE services[s].currentState

ToldInv == /\ Running => /\ \A h \in HostIds : HostTold(h)
                         /\ \A s \in ServiceIds : ServiceTold(s)
           /\ ~Running => /\ \A h \in HostIds : HostToldIn(h, Saved)
                          /\ \A s \in ServiceIds : ServiceToldIn(s, Saved)

LEMMA MergeTold ==
  /\ \A old \in Host \cup {Absent}, def \in HostDef \cup {Absent} :
       ~(old # Absent /\ def = Absent) =>
         (MergeHost(old, def) = Absent \/ MergeHost(old, def).isUp) = (old = Absent \/ old.isUp)
  /\ \A old \in Service \cup {Absent}, def \in ServiceDef \cup {Absent} :
       ~(old # Absent /\ def = Absent) =>
         (IF MergeService(old, def) = Absent THEN 0 ELSE MergeService(old, def).currentState)
           = (IF old = Absent THEN 0 ELSE old.currentState)
<1>1. ASSUME NEW old \in Host \cup {Absent}, NEW def \in HostDef \cup {Absent},
             ~(old # Absent /\ def = Absent)
      PROVE  (MergeHost(old, def) = Absent \/ MergeHost(old, def).isUp)
               = (old = Absent \/ old.isUp)
  <2>1. CASE old = Absent
    BY <2>1 DEF MergeHost
  <2>2. CASE old # Absent
    <3>1. MergeHost(old, def).isUp = old.isUp /\ MergeHost(old, def) \in Host
      BY <1>1, <2>2, SchedulerAssumption DEF MergeHost, Host, HostDef
    <3> QED
      BY <2>2, <3>1, SchedulerAssumption DEF Host
  <2> QED
    BY <2>1, <2>2
<1>2. ASSUME NEW old \in Service \cup {Absent}, NEW def \in ServiceDef \cup {Absent},
             ~(old # Absent /\ def = Absent)
      PROVE  (IF MergeService(old, def) = Absent THEN 0 ELSE MergeService(old, def).currentState)
               = (IF old = Absent THEN 0 ELSE old.currentState)
  <2>1. CASE old = Absent
    BY <2>1 DEF MergeService
  <2>2. CASE old # Absent
    <3>1. MergeService(old, def).currentState = old.currentState
      BY <1>2, <2>2 DEF MergeService, Service, ServiceDef
    <3>2. MergeService(old, def) \in Service
      BY <1>2, <2>2 DEF MergeService, Service, ServiceDef
    <3> QED
      BY <2>2, <3>1, <3>2, SchedulerAssumption
  <2> QED
    BY <2>1, <2>2
<1> QED
  BY <1>1, <1>2

LEMMA TaskIdsDiffer ==
  /\ \A h, g \in HostIds : HostTask(h) = HostTask(g) => h = g
  /\ \A s, t \in ServiceIds : ServiceTask(s) = ServiceTask(t) => s = t
  /\ \A h \in HostIds, s \in ServiceIds : HostTask(h) # ServiceTask(s)
<1>1. "" # "HOST:"
  OBVIOUS
<1> QED
  BY <1>1 DEF HostTask, ServiceTask

\* what Notify and Mute leave alone
LEMMA OthersTold ==
  ASSUME TypeOK, NEW res \in CheckResult, NEW type, NEW e \in TaskIds, e # res.id,
         \/ Notify(res, type) \/ Mute(res) \/ UNCHANGED << notifs, told, unannounced >>
  PROVE  told'[e] = told[e] /\ (e \in unannounced <=> e \in unannounced')
BY DEF Notify, Mute, TypeOK

LEMMA HostResultTold ==
  ASSUME TypeOK, NEW res \in CheckResult, NEW h \in HostIds, res.id = HostTask(h),
         HandleHostResult(res, h),
         \A g \in HostIds : HostTold(g), \A s \in ServiceIds : ServiceTold(s)
  PROVE  /\ \A g \in HostIds : HostTold(g)'
         /\ \A s \in ServiceIds : ServiceTold(s)'
<1>1. CASE hosts[h] = Absent
  BY <1>1 DEF HandleHostResult, IgnoreResult, HostTold, ServiceTold
<1>2. CASE hosts[h] # Absent
  <2> DEFINE up == res.status = 0
  <2>1. /\ UNCHANGED services
        /\ \/ Notify(res, IF up THEN "UP" ELSE "DOWN")
           \/ Mute(res) \/ UNCHANGED << notifs, told, unannounced >>
    BY <1>2 DEF HandleHostResult
  <2>2. \A g \in HostIds \ {h} : hosts'[g] = hosts[g]
    BY <1>2 DEF HandleHostResult, TypeOK, HostMap
  <2>3. \A g \in HostIds \ {h} : HostTold(g)'
    BY <2>1, <2>2, OthersTold, TaskIdsDiffer, TaskIdsOf DEF HostTold
  <2>4. \A s \in ServiceIds : ServiceTold(s)'
    BY <2>1, OthersTold, TaskIdsDiffer, TaskIdsOf DEF ServiceTold
  <2>5. hosts[h] \in Host /\ hosts'[h] # Absent /\ hosts'[h].isUp = up
    <3>1. hosts[h] \in Host /\ up \in BOOLEAN /\ res.status \in Status
      BY <1>2 DEF TypeOK, HostMap, CheckResult
    <3>2. [hosts[h] EXCEPT !.isUp = up, !.status = res.status] \in Host
      BY <3>1, HostUpdateType
    <3>3. hosts'[h] = [hosts[h] EXCEPT !.isUp = up, !.status = res.status]
      BY <1>2, <3>1 DEF HandleHostResult, TypeOK, HostMap
    <3> QED
      BY <3>1, <3>2, <3>3, SchedulerAssumption DEF Host
  <2>6. HostTold(h)'
    <3>1. CASE Notify(res, IF up THEN "UP" ELSE "DOWN")
      BY <2>5, <3>1, TaskIdsOf DEF Notify, HostTold, TypeOK
    <3>2. CASE Mute(res)
      BY <3>2 DEF Mute, HostTold
    <3>3. CASE hosts[h].isUp = up /\ UNCHANGED << notifs, told, unannounced >>
      BY <1>2, <2>5, <3>3 DEF HostTold
    <3> QED
      BY <1>2, <3>1, <3>2, <3>3 DEF HandleHostResult
  <2> QED
    BY <2>3, <2>4, <2>6
<1> QED
  BY <1>1, <1>2

LEMMA ServiceResultTold ==
  ASSUME TypeOK, NEW res \in CheckResult, NEW s \in ServiceIds, res.id = ServiceTask(s),
         HandleServiceResult(res, s),
         \A h \in HostIds : HostTold(h), \A t \in ServiceIds : ServiceTold(t)
  PROVE  /\ \A h \in HostIds : HostTold(h)'
         /\ \A t \in ServiceIds : ServiceTold(t)'
<1>1. CASE services[s] = Absent
  BY <1>1 DEF HandleServiceResult, IgnoreResult, HostTold, ServiceTold
<1>2. CASE services[s] # Absent
  <2>1. /\ UNCHANGED hosts
        /\ Notify(res, "ALERT") \/ Mute(res) \/ UNCHANGED << notifs, told, unannounced >>
    BY <1>2 DEF HandleServiceResult
  <2>2. \A t \in ServiceIds \ {s} : services'[t] = services[t]
    BY <1>2 DEF HandleServiceResult, TypeOK, ServiceMap
  <2>3. \A t \in ServiceIds \ {s} : ServiceTold(t)'
    BY <2>1, <2>2, OthersTold, TaskIdsDiffer, TaskIdsOf DEF ServiceTold
  <2>4. \A h \in HostIds : HostTold(h)'
    BY <2>1, OthersTold, TaskIdsDiffer, TaskIdsOf DEF HostTold
  <2>5. services'[s] # Absent /\ services'[s].currentState = res.status
    <3>1. services[s] \in Service /\ res.status \in Status
      BY <1>2 DEF TypeOK, ServiceMap, CheckResult
    <3>2. [services[s] EXCEPT !.currentState = res.status] \in Service
      BY <3>1, ServiceUpdateType
    <3>3. services'[s] = [services[s] EXCEPT !.currentState = res.status]
      BY <1>2, <3>1 DEF HandleServiceResult, TypeOK, ServiceMap
    <3> QED
      BY <3>1, <3>2, <3>3, SchedulerAssumption DEF Service
  <2>6. ServiceTold(s)'
    <3>1. CASE Notify(res, "ALERT")
      BY <2>5, <3>1, TaskIdsOf DEF Notify, ServiceTold, TypeOK
    <3>2. CASE Mute(res)
      BY <3>2 DEF Mute, ServiceTold
    <3>3. CASE services[s].currentState = res.status /\ UNCHANGED << notifs, told, unannounced >>
      BY <1>2, <2>5, <3>3 DEF ServiceTold
    <3> QED
      BY <1>2, <3>1, <3>2, <3>3 DEF HandleServiceResult
  <2> QED
    BY <2>3, <2>4, <2>6
<1> QED
  BY <1>1, <1>2

LEMMA SyncTold ==
  ASSUME TypeOK, NEW cfg \in Configs, SyncAll(cfg),
         \A h \in HostIds : HostTold(h), \A s \in ServiceIds : ServiceTold(s)
  PROVE  /\ \A h \in HostIds : HostTold(h)'
         /\ \A s \in ServiceIds : ServiceTold(s)'
<1>0. cfg \in Config /\ told' = told /\ unannounced' = unannounced \cup Removed(cfg)
  BY SchedulerAssumption DEF SyncAll
<1>1. ASSUME NEW h \in HostIds, HostTask(h) \notin unannounced'
      PROVE  (told[HostTask(h)] = 0) = (hosts'[h] = Absent \/ hosts'[h].isUp)
  <2>1. hosts'[h] = MergeHost(hosts[h], cfg.hosts[h])
    BY DEF SyncAll
  <2>2. hosts[h] \in Host \cup {Absent} /\ cfg.hosts[h] \in HostDef \cup {Absent}
    BY <1>0 DEF Config, TypeOK, HostMap
  <2>3. HostTask(h) \notin unannounced /\ ~(hosts[h] # Absent /\ cfg.hosts[h] = Absent)
    BY <1>0, <1>1 DEF Removed
  <2> QED
    BY <2>1, <2>2, <2>3, MergeTold DEF HostTold
<1>2. ASSUME NEW s \in ServiceIds, ServiceTask(s) \notin unannounced'
      PROVE  told[ServiceTask(s)] =
               IF services'[s] = Absent THEN 0 ELSE services'[s].currentState
  <2>1. services'[s] = MergeService(services[s], cfg.services[s])
    BY DEF SyncAll
  <2>2. services[s] \in Service \cup {Absent} /\ cfg.services[s] \in ServiceDef \cup {Absent}
    BY <1>0 DEF Config, TypeOK, ServiceMap
  <2>3. ServiceTask(s) \notin unannounced /\ ~(services[s] # Absent /\ cfg.services[s] = Absent)
    BY <1>0, <1>2 DEF Removed
  <2> QED
    BY <2>1, <2>2, <2>3, MergeTold DEF ServiceTold
<1> QED
  BY <1>0, <1>1, <1>2 DEF HostTold, ServiceTold

LEMMA PopTold ==
  ASSUME TypeOK, \/ \E h \in HostIds : PopHost(h)
                 \/ \E s \in ServiceIds : PopService(s),
         \A h \in HostIds : HostTold(h), \A s \in ServiceIds : ServiceTold(s)
  PROVE  /\ \A h \in HostIds : HostTold(h)'
         /\ \A s \in ServiceIds : ServiceTold(s)'
<1>1. ASSUME NEW h \in HostIds, PopHost(h)
      PROVE  /\ \A g \in HostIds : HostTold(g)'
             /\ \A s \in ServiceIds : ServiceTold(s)'
  <2>1. UNCHANGED << services, told, unannounced >>
    BY <1>1 DEF PopHost, Issue
  <2>2. \A g \in HostIds \ {h} : hosts'[g] = hosts[g]
    BY <1>1 DEF PopHost, TypeOK, HostMap
  <2>3. hosts[h] \in Host /\ hosts'[h] \in Host /\ hosts'[h].isUp = hosts[h].isUp
    <3>1. hosts[h] \in Host /\ now + HostInterval \in Nat
      BY <1>1, SchedulerAssumption DEF PopHost, DueHosts, TypeOK, HostMap
    <3>2. hosts'[h] = [hosts[h] EXCEPT !.nextCheck = now + HostInterval]
      BY <1>1 DEF PopHost, TypeOK, HostMap
    <3>3. hosts'[h] \in Host
      BY <3>1, <3>2, HostUpdateType
    <3>4. [hosts[h] EXCEPT !.nextCheck = now + HostInterval].isUp = hosts[h].isUp
      BY <3>1 DEF Host
    <3> QED
      BY <3>1, <3>2, <3>3, <3>4
  <2> QED
    BY <2>1, <2>2, <2>3, SchedulerAssumption DEF HostTold, ServiceTold
<1>2. ASSUME NEW s \in ServiceIds, PopService(s)
      PROVE  /\ \A h \in HostIds : HostTold(h)'
             /\ \A t \in ServiceIds : ServiceTold(t)'
  <2>1. UNCHANGED << hosts, told, unannounced >>
    BY <1>2 DEF PopService, Issue
  <2>2. \A t \in ServiceIds \ {s} : services'[t] = services[t]
    BY <1>2 DEF PopService, TypeOK, ServiceMap
  <2>3. /\ services[s] \in Service /\ services'[s] \in Service
        /\ services'[s].currentState = services[s].currentState
    <3>1. services[s] \in Service /\ now + ServiceInterval \in Nat
      BY <1>2, SchedulerAssumption DEF PopService, DueServices, TypeOK, ServiceMap
    <3>2. services'[s] = [services[s] EXCEPT !.nextCheck = now + ServiceInterval]
      BY <1>2 DEF PopService, TypeOK, ServiceMap
    <3> QED
      BY <3>1, <3>2, ServiceUpdateType DEF Service
  <2> QED
    BY <2>1, <2>2, <2>3, SchedulerAssumption DEF HostTold, ServiceTold
<1> QED
  BY <1>1, <1>2

LEMMA EndTold ==
  ASSUME TypeOK, ToldInv, Running, ProcessEnds
  PROVE  ToldInv'
<1>1. /\ Saved' = Saved /\ told' = told /\ ~Running'
      /\ unannounced' = unannounced \cup Forgotten
  BY DEF ProcessEnds, Saved, Running
<1>2. ASSUME NEW h \in HostIds, HostTask(h) \notin unannounced'
      PROVE  (told[HostTask(h)] = 0) = HostUp(h, Saved)
  <2>1. HostTask(h) \notin unannounced /\ HostUp(h, Memory) = HostUp(h, Saved)
    BY <1>1, <1>2 DEF Forgotten
  <2> QED
    BY <2>1 DEF ToldInv, HostTold, HostUp, Memory
<1>3. ASSUME NEW s \in ServiceIds, ServiceTask(s) \notin unannounced'
      PROVE  told[ServiceTask(s)] = StateOf(s, Saved)
  <2>1. ServiceTask(s) \notin unannounced /\ StateOf(s, Memory) = StateOf(s, Saved)
    BY <1>1, <1>3 DEF Forgotten
  <2> QED
    BY <2>1 DEF ToldInv, ServiceTold, StateOf, Memory
<1> QED
  BY <1>1, <1>2, <1>3 DEF ToldInv, HostToldIn, ServiceToldIn

LEMMA StartTold ==
  ASSUME ToldInv, Start
  PROVE  ToldInv'
<1>1. /\ hosts' = Saved.hosts /\ services' = Saved.services
      /\ UNCHANGED << told, unannounced >> /\ ~Running /\ Running'
  BY DEF Start, Loaded, Running
<1>2. \A h \in HostIds : HostTold(h)'
  BY <1>1 DEF ToldInv, HostToldIn, HostTold, HostUp
<1>3. \A s \in ServiceIds : ServiceTold(s)'
  BY <1>1 DEF ToldInv, ServiceToldIn, ServiceTold, StateOf
<1> QED
  BY <1>1, <1>2, <1>3 DEF ToldInv

\* a step that changes neither the file, nor the maps, nor what was told
LEMMA QuietTold ==
  ASSUME ToldInv, UNCHANGED << hosts, services, told, unannounced >>, Running' = Running,
         Running \/ disk' = disk
  PROVE  ToldInv'
<1>1. CASE Running
  BY <1>1 DEF ToldInv, HostTold, ServiceTold
<1>2. CASE ~Running
  <2>1. Saved' = Saved
    BY <1>2 DEF Saved
  <2> QED
    BY <1>2, <2>1 DEF ToldInv, HostToldIn, ServiceToldIn
<1> QED
  BY <1>1, <1>2

LEMMA ToldInvStep ==
  ASSUME TypeOK, ToldInv, DownIsEmpty, [Next]_vars
  PROVE  ToldInv'
<1>1. CASE UNCHANGED vars \/ Aside
  BY <1>1, QuietTold DEF Aside, Running, vars
<1>2. ASSUME NEW cfg \in Configs, SyncAll(cfg)
      PROVE  ToldInv'
  BY <1>2, SyncTold DEF ToldInv, SyncAll, CanLock, Running, procVars
<1>3. ASSUME \/ \E h \in HostIds : PopHost(h)
             \/ \E s \in ServiceIds : PopService(s)
      PROVE  ToldInv'
  BY <1>3, PopTold DEF ToldInv, PopHost, PopService, Issue, CanLock, Running, procVars
<1>4. ASSUME NEW w \in Workers, ApplyResult(w)
      PROVE  ToldInv'
  <2>1. /\ Running /\ Running'
        /\ (\A h \in HostIds : HostTold(h)) /\ (\A s \in ServiceIds : ServiceTold(s))
    BY <1>4 DEF ApplyResult, CanLock, ToldInv, Running, procVars
  <2>2. CASE \E h \in HostIds : worker[w].id = HostTask(h) /\ HandleHostResult(worker[w], h)
    BY <1>4, <2>1, <2>2, ApplyResultCases, HostResultTold DEF ToldInv
  <2>3. CASE \E s \in ServiceIds :
               worker[w].id = ServiceTask(s) /\ HandleServiceResult(worker[w], s)
    BY <1>4, <2>1, <2>3, ApplyResultCases, ServiceResultTold DEF ToldInv
  <2> QED
    BY <1>4, <2>2, <2>3, ApplyResultCases
<1>5. CASE SaveStep
  <2>1. Running /\ Running' = Running
    BY <1>5, SaveStepFrame DEF DownIsEmpty, Quiet, Running
  <2> QED
    BY <1>5, <2>1, SaveStepFrame, QuietTold
<1>6. CASE Running /\ ProcessEnds
  BY <1>6, EndTold
<1>7. CASE Start
  BY <1>7, StartTold
<1> QED
  BY <1>1, <1>2, <1>3, <1>4, <1>5, <1>6, <1>7, LockedSteps

\* A host or service that the code has not decided to keep quiet about has the
\* status that was last notified: no order of reloads and results swallows or
\* invents a transition, and a restart does not for an entity whose status the
\* file had when the process ended (engine.go:16-52, handler.go:26-49,
\* storage.go:28-46). It says nothing of an entity the file had another status
\* of: after such a restart the code does repeat or swallow a transition.
THEOREM TransitionsAnnounced == Spec => []Announced
<1>1. Init => ToldInv
  BY TaskIdsOf DEF Init, ToldInv, HostTold, ServiceTold, NoHosts, NoServices, Running
<1>2. TypeOK /\ FileInv /\ ToldInv /\ [Next]_vars => ToldInv'
  BY ToldInvStep DEF FileInv
<1>3. TypeOK /\ FileInv /\ ToldInv => Announced
  <2> SUFFICES ASSUME TypeOK, FileInv, ToldInv
               PROVE  Announced
    OBVIOUS
  <2>1. CASE Running
    <3>1. \A h \in HostIds : hosts[h] # Absent => hosts[h] \in Host
      BY DEF TypeOK, HostMap
    <3> QED
      BY <2>1, <3>1 DEF ToldInv, HostTold, ServiceTold, Announced, Host
  <2>2. CASE ~Running
    BY <2>2 DEF Running, FileInv, DownIsEmpty, Memory, NoMemory, NoHosts, NoServices, Announced
  <2> QED
    BY <2>1, <2>2
<1> QED
  BY <1>1, <1>2, <1>3, Typing, FileInvariant, PTL DEF Spec
=============================================================================
