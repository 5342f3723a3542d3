------------------------------ MODULE Scheduler ------------------------------
(***************************************************************************)
(* One Scheduler process (cmd/scheduler): the maps of hosts and services   *)
(* under the RWMutex mu, the HTTP handlers, the resultQueue channel and    *)
(* its pool of resultWorkers, the goroutines that notify the Reactionner   *)
(* and the Brokers, the persistence loop, and the life of the process      *)
(* (graceful stop, crash, restart from the state file).                    *)
(*                                                                         *)
(* A handler or worker that holds mu.Lock for its whole body is one step.  *)
(* saveState and statusHandler hold mu.RLock across several steps.         *)
(***************************************************************************)
EXTENDS Integers, Sequences, FiniteSets

CONSTANTS
  HostIds, ServiceIds,    \* the identifiers the inventory may use
  HostNames,              \* the values of a service's host_name
  Absent,                 \* "no entry under this key" in a Go map; no file
  Idle,                   \* a worker blocked on the channel
  Torn,                   \* a state file truncated or half written: not JSON
  Status,                 \* exit codes a check may report
  Configs,                \* the inventories the Arbiter may push
  Workers,                \* the resultWorker goroutines (10 in the code)
  StatusClients,          \* clients of /v1/status
  QueueCap,               \* capacity of resultQueue (5000 in the code)
  HostInterval,           \* minutes between two checks of a host (2)
  ServiceInterval,        \* minutes between two checks of a service (1)
  BrokerEnabled,          \* broker_enabled with at least one broker URL
  Events,                 \* which of "save" (the persistence loop's ticker),
                          \* "stop" (SIGTERM), "crash" and "disk" (a write
                          \* error) may occur
  MaxTime,                \* bound: minutes the clock runs
  MaxResults,             \* bound: results accepted into the queue
  MaxOutstanding          \* bound: copies of one task held by pollers

VARIABLES
  hosts, services,        \* the two maps, guarded by mu
  resultQueue,            \* buffered channel of CheckResults
  worker,                 \* the result a resultWorker has received, or Idle
  stateChanged,           \* dirty flag of the persistence loop
  saver,                  \* progress of the two callers of saveState
  viewing,                \* status clients being served under RLock
  disk,                   \* contents of the state file
  phase,                  \* where main() is
  notifs,                 \* running goroutines of notifyReactionner
  forwards,               \* running goroutines of forwardToBroker (brokerWG)
  outstanding,            \* tasks pollers hold, counted per task id
  now,                    \* the wall clock, in minutes
  nextNo,                 \* history: number of the next accepted result
  applied, lost,          \* history: numbers of results processed / dropped
                          \* with the process
  told,                   \* history: status last notified for each entity
  unannounced             \* history: entities whose current state the code
                          \* decided not to notify, or forgot

vars == << hosts, services, resultQueue, worker, stateChanged, saver, viewing,
           disk, phase, notifs, forwards, outstanding, now, nextNo, applied,
           lost, told, unannounced >>

procVars == << saver, viewing, phase >>
netVars  == << resultQueue, worker, outstanding, nextNo, applied, lost >>

-----------------------------------------------------------------------------
(* Types (pkg/models). A task id is "HOST:" + h.ID for a host and the bare  *)
(* s.ID for a service; the pair keeps the prefix apart from the name.       *)

HostTask(h)    == << "HOST:", h >>
ServiceTask(s) == << "", s >>
TaskIds == {HostTask(h) : h \in HostIds} \cup {ServiceTask(s) : s \in ServiceIds}

HostDef    == [check : BOOLEAN, inDowntime : BOOLEAN]
ServiceDef == [host : HostNames, check : BOOLEAN, inDowntime : BOOLEAN]

Host    == [check : BOOLEAN, inDowntime : BOOLEAN, isUp : BOOLEAN,
            status : Status, nextCheck : Nat]
Service == [host : HostNames, check : BOOLEAN, inDowntime : BOOLEAN,
            currentState : Status, nextCheck : Nat]

HostMap    == [HostIds -> Host \cup {Absent}]
ServiceMap == [ServiceIds -> Service \cup {Absent}]

CheckResult == [n : Nat \ {0}, id : TaskIds, status : Status]
NotificationRequest ==
  [n : Nat \ {0}, id : TaskIds, type : {"UP", "DOWN", "ALERT"}, state : Status]

Snapshot == [hosts : HostMap, services : ServiceMap]
Savers == {"ticker", "main"}

Config == [hosts    : [HostIds -> HostDef \cup {Absent}],
           services : [ServiceIds -> ServiceDef \cup {Absent}]]

ASSUME SchedulerAssumption ==
  /\ 0 \in Status /\ Status \subseteq Int
  /\ Absent \notin HostDef \cup ServiceDef \cup Host \cup Service
  /\ Configs \subseteq Config
  /\ Idle \notin CheckResult /\ {Torn, Absent} \cap Snapshot = {} /\ Torn # Absent
  /\ HostIds \subseteq HostNames
  /\ QueueCap \in Nat /\ HostInterval \in Nat /\ ServiceInterval \in Nat
  /\ BrokerEnabled \in BOOLEAN /\ Events \subseteq {"save", "stop", "crash", "disk"}
  /\ MaxTime \in Nat /\ MaxResults \in Nat /\ MaxOutstanding \in Nat

-----------------------------------------------------------------------------
Memory == [hosts |-> hosts, services |-> services]
NoHosts    == [h \in HostIds |-> Absent]
NoServices == [s \in ServiceIds |-> Absent]
NoMemory   == [hosts |-> NoHosts, services |-> NoServices]
Quiet == [s \in Savers |-> [pc |-> "idle", data |-> Absent]]

Running == phase # "down"
Serving == phase = "serving"

\* mu.RLock is held by a running saveState and by each status request
ReadLocked == viewing # {} \/ \E s \in Savers : saver[s].pc \in {"marshalled", "truncated"}
\* mu.Lock can be taken: the steps that take it release it before they end
CanLockWithoutMutex == Running       \* mutant: the mutex left out
CanLock == Running /\ ~ReadLocked

Held == {worker[w].n : w \in {v \in Workers : worker[v] # Idle}}
Queued == {resultQueue[i].n : i \in DOMAIN resultQueue}

-----------------------------------------------------------------------------
(* POST /v1/sync-all: rebuild both maps from the pushed inventory, keeping  *)
(* the state of the entries that were there before.                         *)

MergeHostAnew(old, def) ==           \* mutant: the old state is not looked at
  IF def = Absent THEN Absent
  ELSE [check |-> def.check, inDowntime |-> def.inDowntime, isUp |-> TRUE,
        status |-> 0, nextCheck |-> now]

MergeHostKeepDown(old, def) ==       \* mutant: only IsUp survives, not Status
  IF def = Absent THEN Absent
  ELSE [check |-> def.check, inDowntime |-> def.inDowntime,
        isUp |-> old = Absent \/ old.isUp, status |-> 0,
        nextCheck |-> IF old = Absent THEN now ELSE old.nextCheck]

MergeHost(old, def) ==
  CASE def = Absent -> Absent
    [] def # Absent /\ old = Absent ->
         [check |-> def.check, inDowntime |-> def.inDowntime, isUp |-> TRUE,
          status |-> 0, nextCheck |-> now]
    [] OTHER ->
         [check |-> def.check, inDowntime |-> def.inDowntime, isUp |-> old.isUp,
          status |-> old.status, nextCheck |-> old.nextCheck]

MergeServiceAnew(old, def) ==        \* mutant: CurrentState is not carried over
  IF def = Absent THEN Absent
  ELSE [host |-> def.host, check |-> def.check, inDowntime |-> def.inDowntime,
        currentState |-> 0,
        nextCheck |-> IF old = Absent THEN now ELSE old.nextCheck]

MergeService(old, def) ==
  CASE def = Absent -> Absent
    [] def # Absent /\ old = Absent ->
         [host |-> def.host, check |-> def.check, inDowntime |-> def.inDowntime,
          currentState |-> 0, nextCheck |-> now]
    [] OTHER ->
         [host |-> def.host, check |-> def.check, inDowntime |-> def.inDowntime,
          currentState |-> old.currentState, nextCheck |-> old.nextCheck]

\* entries the inventory no longer has: their state goes with them
Removed(cfg) ==
  {HostTask(h) : h \in {x \in HostIds : hosts[x] # Absent /\ cfg.hosts[x] = Absent}}
  \cup
  {ServiceTask(s) : s \in {x \in ServiceIds :
                             services[x] # Absent /\ cfg.services[x] = Absent}}

SyncAll(cfg) ==
  /\ Serving /\ CanLock
  /\ hosts' = [h \in HostIds |-> MergeHost(hosts[h], cfg.hosts[h])]
  /\ services' = [s \in ServiceIds |-> MergeService(services[s], cfg.services[s])]
  /\ stateChanged' = TRUE
  /\ unannounced' = unannounced \cup Removed(cfg)
  /\ UNCHANGED << procVars, netVars, disk, notifs, forwards, now, told >>

-----------------------------------------------------------------------------
(* GET /v1/pop-task: the first due entry of the (randomly ordered) map of   *)
(* hosts, and only if there is none, of services. The whole-minute clock    *)
(* stands for now.After(NextCheck) as "the minute of NextCheck has come".   *)

DueHosts == {h \in HostIds : hosts[h] # Absent /\ hosts[h].check /\ now >= hosts[h].nextCheck}
DueServices ==
  {s \in ServiceIds : services[s] # Absent /\ services[s].check /\ now >= services[s].nextCheck}

Issue(id) ==
  /\ outstanding[id] < MaxOutstanding
  /\ outstanding' = [outstanding EXCEPT ![id] = @ + 1]
  /\ UNCHANGED << procVars, resultQueue, worker, nextNo, applied, lost, stateChanged,
                  disk, notifs, forwards, now, told, unannounced >>

PopHost(h) ==
  /\ Serving /\ CanLock
  /\ h \in DueHosts
  /\ hosts' = [hosts EXCEPT ![h].nextCheck = now + HostInterval]
  /\ Issue(HostTask(h))
  /\ UNCHANGED services

PopService(s) ==
  /\ Serving /\ CanLock
  /\ DueHosts = {} /\ s \in DueServices
  /\ services' = [services EXCEPT ![s].nextCheck = now + ServiceInterval]
  /\ Issue(ServiceTask(s))
  /\ UNCHANGED hosts

\* a poller dies, or the connection does, before the result comes back
LoseTask(id) ==
  /\ outstanding[id] > 0
  /\ outstanding' = [outstanding EXCEPT ![id] = @ - 1]
  /\ UNCHANGED << procVars, hosts, services, resultQueue, worker, nextNo, applied, lost,
                  stateChanged, disk, notifs, forwards, now, told, unannounced >>

-----------------------------------------------------------------------------
(* POST /v1/push-result: a non-blocking send on resultQueue (202), or the   *)
(* result is dropped with 503 when the channel is full; the poller does not *)
(* retry, so either way its task is done.                                   *)

HasRoomOffByOne == Len(resultQueue) <= QueueCap     \* mutant
HasRoom == Len(resultQueue) < QueueCap

Enqueue(res) == Append(resultQueue, res)

PushResult(id, st) ==
  /\ Serving
  /\ outstanding[id] > 0 /\ nextNo <= MaxResults
  /\ outstanding' = [outstanding EXCEPT ![id] = @ - 1]
  /\ \/ /\ HasRoom
        /\ resultQueue' = Enqueue([n |-> nextNo, id |-> id, status |-> st])
        /\ nextNo' = nextNo + 1
     \/ /\ ~HasRoom
        /\ UNCHANGED << resultQueue, nextNo >>
  /\ UNCHANGED << procVars, hosts, services, worker, applied, lost, stateChanged,
                  disk, notifs, forwards, now, told, unannounced >>

Peek == resultQueue                  \* mutant: received, but not removed
Dequeue == Tail(resultQueue)

\* for res := range resultQueue: the worker has the result but not yet mu
TakeResult(w) ==
  /\ Running
  /\ worker[w] = Idle /\ resultQueue # << >>
  /\ worker' = [worker EXCEPT ![w] = Head(resultQueue)]
  /\ resultQueue' = Dequeue
  /\ UNCHANGED << procVars, hosts, services, outstanding, nextNo, applied, lost,
                  stateChanged, disk, notifs, forwards, now, told, unannounced >>

Notify(res, type) ==
  /\ notifs' = notifs \cup {[n |-> res.n, id |-> res.id, type |-> type, state |-> res.status]}
  /\ told' = [told EXCEPT ![res.id] = res.status]
  /\ unannounced' = unannounced \ {res.id}

Mute(res) ==
  /\ unannounced' = unannounced \cup {res.id}
  /\ UNCHANGED << notifs, told >>

ForwardToBroker(res) ==
  forwards' = IF BrokerEnabled THEN forwards \cup {res} ELSE forwards

IgnoreResultStuck == FALSE           \* mutant: the early return never comes

\* an id the maps do not have: return before anything is updated
IgnoreResult == UNCHANGED << hosts, services, notifs, forwards, told, unannounced >>

HandleHostResult(res, h) ==
  IF hosts[h] = Absent THEN IgnoreResult
  ELSE LET up == res.status = 0
       IN  /\ hosts' = [hosts EXCEPT ![h].isUp = up, ![h].status = res.status]
           /\ ForwardToBroker(res)
           /\ UNCHANGED services
           /\ \/ /\ hosts[h].isUp = up
                 /\ UNCHANGED << notifs, told, unannounced >>
              \/ /\ hosts[h].isUp # up /\ ~hosts[h].inDowntime
                 /\ Notify(res, IF up THEN "UP" ELSE "DOWN")
              \/ /\ hosts[h].isUp # up /\ hosts[h].inDowntime
                 /\ Mute(res)

\* a service is muted by its own downtime and by that of its host, if known
MutedService(svc) ==
  \/ svc.inDowntime
  \/ svc.host \in HostIds /\ hosts[svc.host] # Absent /\ hosts[svc.host].inDowntime

HandleServiceResult(res, s) ==
  IF services[s] = Absent THEN IgnoreResult
  ELSE /\ services' = [services EXCEPT ![s].currentState = res.status]
       /\ ForwardToBroker(res)
       /\ UNCHANGED hosts
       /\ \/ /\ services[s].currentState = res.status
             /\ UNCHANGED << notifs, told, unannounced >>
          \/ /\ services[s].currentState # res.status /\ ~MutedService(services[s])
             /\ Notify(res, "ALERT")
          \/ /\ services[s].currentState # res.status /\ MutedService(services[s])
             /\ Mute(res)

\* the rest of the worker's loop body, under mu.Lock
ApplyResult(w) ==
  /\ CanLock
  /\ worker[w] # Idle
  /\ \/ /\ worker[w].id[1] = "HOST:" /\ HandleHostResult(worker[w], worker[w].id[2])
     \/ /\ worker[w].id[1] # "HOST:" /\ HandleServiceResult(worker[w], worker[w].id[2])
  /\ stateChanged' = TRUE
  /\ applied' = applied \cup {worker[w].n}
  /\ worker' = [worker EXCEPT ![w] = Idle]
  /\ UNCHANGED << procVars, resultQueue, outstanding, nextNo, lost, disk, now >>

BrokerDoneSkipped(res) == forwards' = forwards    \* mutant: no brokerWG.Done
BrokerDone(res) == forwards' = forwards \ {res}

\* the goroutines of notifyReactionner and forwardToBroker end, their POST
\* answered, refused or timed out: the code does the same in the three cases
NotifyDone(req) ==
  /\ req \in notifs
  /\ notifs' = notifs \ {req}
  /\ UNCHANGED << procVars, netVars, hosts, services, stateChanged, disk, forwards,
                  now, told, unannounced >>

ForwardDone(res) ==
  /\ res \in forwards
  /\ BrokerDone(res)
  /\ UNCHANGED << procVars, netVars, hosts, services, stateChanged, disk, notifs,
                  now, told, unannounced >>

-----------------------------------------------------------------------------
(* GET /v1/status: encodes both maps to the client under mu.RLock.          *)

memVars == << hosts, services, stateChanged, notifs, forwards, told, unannounced >>

StatusBegin(c) ==
  /\ Serving /\ c \notin viewing
  /\ viewing' = viewing \cup {c}
  /\ UNCHANGED << memVars, netVars, saver, disk, phase, now >>

StatusEnd(c) ==
  /\ c \in viewing
  /\ viewing' = viewing \ {c}
  /\ UNCHANGED << memVars, netVars, saver, disk, phase, now >>

-----------------------------------------------------------------------------
(* saveState, called by the persistence loop ("ticker") when stateChanged   *)
(* is set and by main() before it returns. os.WriteFile truncates the file  *)
(* and then writes it; its error is ignored.                                *)

SaveBeginTry(s) ==                   \* mutant: TryRLock, which fails while a
                                     \* worker waits for the write lock
  /\ Running /\ saver[s].pc = "idle"
  /\ IF s = "ticker" THEN stateChanged /\ "save" \in Events ELSE phase = "saving"
  /\ saver' = [saver EXCEPT ![s] =
                 IF ReadLocked /\ \E w \in Workers : worker[w] # Idle
                 THEN [pc |-> "saved", data |-> Absent]
                 ELSE [pc |-> "marshalled", data |-> Memory]]
  /\ UNCHANGED << memVars, netVars, viewing, disk, phase, now >>

SaveBegin(s) ==
  /\ Running /\ saver[s].pc = "idle"
  /\ IF s = "ticker" THEN stateChanged /\ "save" \in Events ELSE phase = "saving"
  /\ saver' = [saver EXCEPT ![s] = [pc |-> "marshalled", data |-> Memory]]
  /\ UNCHANGED << memVars, netVars, viewing, disk, phase, now >>

SaveTruncate(s) ==
  /\ saver[s].pc = "marshalled"
  /\ saver' = [saver EXCEPT ![s].pc = "truncated"]
  /\ disk' = Torn
  /\ UNCHANGED << memVars, netVars, viewing, phase, now >>

\* the bytes are written, the lock is released
SaveWrite(s) ==
  /\ saver[s].pc = "truncated"
  /\ disk' = saver[s].data
  /\ saver' = [saver EXCEPT ![s] = [pc |-> "saved", data |-> Absent]]
  /\ UNCHANGED << memVars, netVars, viewing, phase, now >>

\* open or write fails: the file stays as this step finds it. The callers go on
\* as after a write: they do not look at the error.
SaveFails(s) ==
  /\ "disk" \in Events
  /\ saver[s].pc \in {"marshalled", "truncated"}
  /\ saver' = [saver EXCEPT ![s] = [pc |-> "failed", data |-> Absent]]
  /\ UNCHANGED << memVars, netVars, viewing, disk, phase, now >>

\* back in the loop, without the lock: stateChanged = false
ClearStateChanged ==
  /\ saver["ticker"].pc \in {"saved", "failed"}
  /\ stateChanged' = FALSE
  /\ saver' = [saver EXCEPT !["ticker"].pc = "idle"]
  /\ UNCHANGED << hosts, services, notifs, forwards, told, unannounced, netVars,
                  viewing, disk, phase, now >>

-----------------------------------------------------------------------------
(* The life of the process.                                                 *)

\* SIGTERM: server.Shutdown returns, no handler starts any more; a status
\* client may outlast its 5 second timeout
Shutdown ==
  /\ "stop" \in Events /\ Serving
  /\ phase' = "draining"
  /\ UNCHANGED << memVars, netVars, saver, viewing, disk, now >>

BrokersDrained ==
  /\ phase = "draining"
  /\ BrokerEnabled => forwards = {}
  /\ phase' = "saving"
  /\ UNCHANGED << memVars, netVars, saver, viewing, disk, now >>

\* loadState: a missing or unreadable state file leaves the maps empty
Saved == IF disk \in {Absent, Torn} THEN NoMemory ELSE disk

HostUp(h, snap) == snap.hosts[h] = Absent \/ snap.hosts[h].isUp
StateOf(s, snap) == IF snap.services[s] = Absent THEN 0 ELSE snap.services[s].currentState

\* entities whose status in memory the file does not have: it goes with the process
Forgotten ==
  {HostTask(h) : h \in {x \in HostIds : HostUp(x, Memory) # HostUp(x, Saved)}}
  \cup
  {ServiceTask(s) : s \in {x \in ServiceIds : StateOf(x, Memory) # StateOf(x, Saved)}}

\* what ends with the process, whichever way it ends
ProcessEnds ==
  /\ phase' = "down"
  /\ hosts' = NoHosts /\ services' = NoServices
  /\ resultQueue' = << >> /\ worker' = [w \in Workers |-> Idle]
  /\ stateChanged' = FALSE
  /\ saver' = Quiet /\ viewing' = {}
  /\ notifs' = {} /\ forwards' = {}
  /\ lost' = lost \cup Queued \cup Held
  /\ unannounced' = unannounced \cup Forgotten
  /\ UNCHANGED << disk, outstanding, now, nextNo, applied, told >>

\* main() returns after its saveState
Exit ==
  /\ phase = "saving" /\ saver["main"].pc \in {"saved", "failed"}
  /\ ProcessEnds

Crash ==
  /\ "crash" \in Events /\ Running
  /\ ProcessEnds

LoadedWithoutIsUp ==                 \* mutant: IsUp is not in the file's JSON
  [Saved EXCEPT !.hosts = [h \in HostIds |-> IF @[h] = Absent THEN Absent
                                             ELSE [@[h] EXCEPT !.isUp = FALSE]]]
Loaded == Saved

Start ==
  /\ phase = "down"
  /\ phase' = "serving"
  /\ hosts' = Loaded.hosts /\ services' = Loaded.services
  /\ UNCHANGED << netVars, stateChanged, saver, viewing, disk, notifs, forwards, now, told,
                  unannounced >>

Tick ==
  /\ now < MaxTime
  /\ now' = now + 1
  /\ UNCHANGED << memVars, netVars, procVars, disk >>

-----------------------------------------------------------------------------
Init ==
  /\ hosts = NoHosts /\ services = NoServices
  /\ resultQueue = << >> /\ worker = [w \in Workers |-> Idle]
  /\ stateChanged = FALSE
  /\ saver = Quiet /\ viewing = {}
  /\ disk = Absent /\ phase = "serving"
  /\ notifs = {} /\ forwards = {}
  /\ outstanding = [id \in TaskIds |-> 0]
  /\ now = 0 /\ nextNo = 1
  /\ applied = {} /\ lost = {}
  /\ told = [id \in TaskIds |-> 0] /\ unannounced = {}

Next ==
  \/ \E cfg \in Configs : SyncAll(cfg)
  \/ \E h \in HostIds : PopHost(h)
  \/ \E s \in ServiceIds : PopService(s)
  \/ \E id \in TaskIds : LoseTask(id) \/ \E st \in Status : PushResult(id, st)
  \/ \E w \in Workers : TakeResult(w) \/ ApplyResult(w)
  \/ \E req \in notifs : NotifyDone(req)
  \/ \E res \in forwards : ForwardDone(res)
  \/ \E c \in StatusClients : StatusBegin(c) \/ StatusEnd(c)
  \/ \E s \in Savers : SaveBegin(s) \/ SaveTruncate(s) \/ SaveWrite(s) \/ SaveFails(s)
  \/ ClearStateChanged
  \/ Shutdown \/ BrokersDrained \/ Exit \/ Crash \/ Start
  \/ Tick

Spec == Init /\ [][Next]_vars
=============================================================================
