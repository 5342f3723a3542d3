------------------------- MODULE SchedulerProperties -------------------------
(***************************************************************************)
(* What a Scheduler process must and must not do.                          *)
(***************************************************************************)
EXTENDS Scheduler

\* Every variable holds a value of its type, and the channel never holds more
\* than its capacity (handler.go:88, the select with a default).
TypeOK ==
  /\ hosts \in HostMap /\ services \in ServiceMap
  /\ resultQueue \in Seq(CheckResult) /\ Len(resultQueue) <= QueueCap
  /\ worker \in [Workers -> CheckResult \cup {Idle}]
  /\ stateChanged \in BOOLEAN
  /\ saver \in [Savers -> [pc : {"idle", "marshalled", "truncated", "saved", "failed"},
                           data : Snapshot \cup {Absent}]]
  /\ viewing \subseteq StatusClients
  /\ disk \in Snapshot \cup {Absent, Torn}
  /\ phase \in {"serving", "draining", "saving", "down"}
  /\ notifs \subseteq NotificationRequest
  /\ forwards \subseteq CheckResult
  /\ outstanding \in [TaskIds -> Nat]
  /\ now \in Nat /\ nextNo \in Nat \ {0}
  /\ applied \subseteq Nat /\ lost \subseteq Nat
  /\ told \in [TaskIds -> Status] /\ unannounced \subseteq TaskIds

-----------------------------------------------------------------------------
\* Every result answered with 202 is in exactly one place: in the channel, in
\* the hands of one worker, processed, or gone with the process. No result is
\* processed twice and none disappears between the channel and the maps.
ResultsAccounted ==
  /\ 1 .. nextNo - 1 = Queued \cup Held \cup applied \cup lost
  /\ Queued \cap Held = {}
  /\ (Queued \cup Held) \cap (applied \cup lost) = {}
  /\ applied \cap lost = {}
  /\ \A v, w \in Workers : v # w /\ worker[v] # Idle /\ worker[w] # Idle
                             => worker[v].n # worker[w].n

\* The status a host was last notified with is the status it has, and likewise
\* for a service, unless the code chose not to notify (downtime), the entry was
\* dropped from the inventory, or a process ended whose state file did not have
\* the status. Pushing the inventory again, in any order with the results being
\* processed, neither swallows nor invents a transition, and neither does a
\* restart of an entity whose status was in the file.
Announced ==
  /\ \A h \in HostIds :
       hosts[h] # Absent /\ HostTask(h) \notin unannounced
         => hosts[h].isUp = (told[HostTask(h)] = 0)
  /\ \A s \in ServiceIds :
       services[s] # Absent /\ ServiceTask(s) \notin unannounced
         => services[s].currentState = told[ServiceTask(s)]

Coherent(hm) == \A h \in HostIds : hm[h] # Absent => (hm[h].isUp = (hm[h].status = 0))

\* IsUp and Status of a host tell the same story, in memory, in the copy being
\* written and in the state file, through reloads and restarts.
HostsCoherent ==
  /\ Coherent(hosts)
  /\ \A s \in Savers : saver[s].data # Absent => Coherent(saver[s].data.hosts)
  /\ disk \in {Absent, Torn} \/ Coherent(disk.hosts)

\* While a saveState runs, the maps stay what it has marshalled: the file gets
\* hosts and services of one moment, and two saveStates that overlap (the loop
\* and main) write the same bytes.
SaveIsCurrent ==
  \A s \in Savers :
    saver[s].pc \in {"marshalled", "truncated"} => saver[s].data = Memory

\* A check is never moved to an earlier time: as long as an entry stays in the
\* inventory of a running process, its NextCheck only grows, so a reload does
\* not make a check that was just handed out due again.
NextCheckGrows ==
  [][/\ \A h \in HostIds : hosts[h] # Absent /\ hosts'[h] # Absent
                             => hosts'[h].nextCheck >= hosts[h].nextCheck
     /\ \A s \in ServiceIds : services[s] # Absent /\ services'[s] # Absent
                                => services'[s].nextCheck >= services[s].nextCheck]_vars

Ledger == INSTANCE ResultLedger
            WITH Numbers <- 1 .. MaxResults,
                 pending <- Queued \cup Held, done <- applied, gone <- lost

Store == INSTANCE StateStore
           WITH States <- Snapshot, Empty <- NoMemory, Missing <- Absent, Unreadable <- Torn,
                up <- Running, memory <- Memory, file <- disk

\* The channel and the pool of workers, whatever their number and the channel's
\* capacity, process each accepted result at most once and lose one only with
\* the process.
ImplementsLedger == Ledger!Spec

\* saveState marshals, truncates and writes in three steps while handlers and
\* workers run, and still the file only ever gets the maps as they are at the
\* moment the write ends; a restart has exactly that, or empty maps.
ImplementsStore == Store!Spec

-----------------------------------------------------------------------------
(* Liveness. Goroutines run; the two HTTP clients have timeouts; a status   *)
(* client reads its response. A goroutine waiting for mu.Lock gets it: the  *)
(* RWMutex lets no new reader in before it, so the lock that comes and goes *)
(* with the savers is not denied forever (strong fairness).                 *)

Fairness ==
  /\ \A w \in Workers : WF_vars(TakeResult(w)) /\ SF_vars(ApplyResult(w))
  /\ \A s \in Savers : WF_vars(SaveBegin(s)) /\ WF_vars(SaveTruncate(s)) /\ WF_vars(SaveWrite(s))
  /\ WF_vars(ClearStateChanged)
  /\ \A c \in StatusClients : WF_vars(StatusEnd(c))
  /\ WF_vars(\E res \in forwards : ForwardDone(res))
  /\ WF_vars(BrokersDrained) /\ WF_vars(Exit)

FairSpec == Spec /\ Fairness

\* An accepted result is eventually processed, unless the process ends first.
AcceptedGetsApplied ==
  \A n \in 1 .. MaxResults : n \in Queued \cup Held ~> n \in applied \cup lost

\* A change the flag announces gets into the file: after it, a moment comes when
\* the file has the maps as they are then, unless the process ends or the write
\* fails (whose error nobody looks at). Apart from it is the change made between
\* the end of the loop's save and the reset of the flag: CleanMeansSaved.
DirtyGetsSaved ==
  stateChanged /\ saver["ticker"].pc \notin {"saved", "failed"}
    ~> disk = Memory \/ saver["ticker"].pc = "failed" \/ ~Running

\* A graceful stop ends: neither the brokers nor the last save hold it forever.
StopEnds == phase = "draining" ~> phase = "down"

-----------------------------------------------------------------------------
(* A statement of the documentation that the code does not keep.            *)

\* What a save keeps of the maps, without the schedule (pop-task moves
\* NextCheck and does not set stateChanged).
Statuses(snap) ==
  IF snap \in {Absent, Torn} THEN [hosts |-> NoHosts, services |-> NoServices]
  ELSE [hosts |-> [h \in HostIds |-> IF snap.hosts[h] = Absent THEN Absent
                                     ELSE [isUp |-> snap.hosts[h].isUp]],
        services |-> [s \in ServiceIds |-> IF snap.services[s] = Absent THEN Absent
                                           ELSE [state |-> snap.services[s].currentState]]]

\* "It maintains the status of entities in memory and periodically persists
\* this data to a state_file" (README.md): when the flag says there is nothing
\* to save and no save runs, the file has the statuses in memory.
CleanMeansSaved ==
  Running /\ ~stateChanged /\ saver["ticker"].pc = "idle"
    => Statuses(disk) = Statuses(Memory)
=============================================================================
