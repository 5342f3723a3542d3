# Verification of Shinsakuto

TLA+ models of the Shinsakuto monitoring system, the TLC configurations that
check them on small instances, and theorems about them checked by TLAPS.

`MC*.tla` with a `.cfg` is checked with `tlc -workers 2 -config X.cfg MC.tla`,
a proof module with `tlapm XProofs.tla`. `PROJECT.json` maps every definition
to the lines it models, and lists the runs, the mutants (a changed definition
under which the property must fail), the findings and the hazards.

## 1. The system

| Part | Code | State | Operations | Talks to |
|---|---|---|---|---|
| Arbiter | `cmd/arbiter` | configuration on disk and `currentConfig`, cool-off, `syncSuccess`, downtimes (Raft log) | refresh, push shards, hot reload, downtime, join, file propagation | Schedulers (`/v1/sync-all`), other Arbiters |
| Scheduler | `cmd/scheduler` | maps of hosts and services under `mu`, `resultQueue`, `stateChanged`, the state file | sync-all, pop-task, push-result, status, resultWorkers, persistence, stop | Reactionner, Brokers |
| Poller | `cmd/poller` | the loop, a semaphore, one goroutine and its processes per task | pull, execute, report | Schedulers |
| Broker | `cmd/broker` | `dataQueue`, one batch per dbWorker | ingest, batch, flush | the time-series database |
| Reactionner | `cmd/reactionner` | `acknowledgments`, Raft log | notify, ack, mail, Raft's state machine | SMTP server |
| pkg | `pkg/models`, `pkg/logger` | none, a log file | | |

The data goes in a circle: the Arbiter pushes the inventory, Pollers pull due
checks and post results, the Scheduler applies them, announces transitions to
the Reactionner and forwards every result to a Broker. All calls are HTTP with
JSON bodies; none is retried except the push of shards. There are no tests in
the repository.

What is hard in it:

* *Interleaving.* The Scheduler's handlers, its ten workers, the persistence
  loop and `main` share two maps; workers receive a result without the lock
  and apply it with the lock; `stateChanged` and the Arbiter's cool-off are
  not locked at all.
* *Failure.* Processes end with work in hand: results in a channel or a
  worker, a file being written, a batch, a command under way. Posts get lost.
* *Order.* Reloads arrive between a task and its result; notifications, broker
  posts and pushes of shards run in goroutines nobody waits for.
* *Time.* Client timeouts, the 30 s of a check, tickers, a write without a
  timeout.

What makes each part correct:

* Scheduler: an accepted result is processed at most once and not forgotten; a
  transition is announced whatever the reloads do; a check is not run twice
  for a reload; what is on disk is the state of one moment.
* Broker: a result is written at most once, none is kept back, and none is
  hidden by an older one of the same request.
* Poller: slots neither leak nor multiply, a result reaches the Scheduler of
  its task, no command holds up the others for good.
* Reactionner: an acknowledgment mutes what arrives after its answer, for its issue,
  and with Raft it is there again after a restart.
* Arbiter: every Scheduler ends up with the shard of the current files, each
  host in exactly one and each service with its host, whatever fails or
  overlaps meanwhile; what a refresh reads of a file being written does not last;
  a host known to be DOWN stays so while no file up to its own is written.
* Cluster of Arbiters: every node lists the downtimes of the log, once each; the
  leader's files reach the others, and nobody's archive undoes the leader's.

## 2. Modules

### Scheduler

`Scheduler` has the whole process. A handler or worker that holds `mu.Lock`
for its body is one action (`SyncAll`, `PopHost`/`PopService`, `ApplyResult`);
`CanLock` is the mutex. `saveState` and `statusHandler` hold `mu.RLock`, which
keeps writers out and lets each other in, so they are several actions:
`SaveBegin` (marshal), `SaveTruncate`, `SaveWrite` or `SaveFails` for the two
callers (the loop, `main`), `StatusBegin`/`StatusEnd`. `TakeResult` is the
receive, before the lock. The loop's reset of `stateChanged` after the lock is
released is `ClearStateChanged`. `Shutdown`, `BrokersDrained` and `Exit` are
the three stages of `main` after the signal; `Crash` may come anywhere;
`Start` is `loadState`: `Loaded` is what it makes of the file, and `Forgotten` the
entities of which the file, or its absence, says something else than was announced
last, so that the next result repeats a transition or swallows one. A saver whose
write failed is `failed` until its next turn: the loop clears the flag all the same
and does not write again before the next change. Notification and broker goroutines are members of
`notifs` and `forwards` until they are done. Pollers are external: they hold
copies of tasks in `outstanding` and answer or not.

`SchedulerProperties` states what must hold. `ResultLedger` (an accepted
number is pending, then done or gone, once) and `StateStore` (a memory and a
file; a save is atomic, a restart has the file or nothing) are what the
Scheduler promises in the abstract; `ImplementsLedger` and `ImplementsStore`
are the refinements, with the channel and the workers as the pending set and
the marshal-truncate-write sequence as the atomic save.

### Broker

`Broker`: `Ingest` is the non-blocking send, `Receive` and `IntervalFlush` are
the two cases of the worker's select, `Flushed` the end of the POST, whether
the database took it or not. A worker in `flushing` receives nothing, since
the POST is in its loop. The database keeps one value per series and timestamp;
all lines of one request have one timestamp, a new one per request (the clock
has nanoseconds).

### Poller

`Poller`: `PullNothing`, `PullTask`, `Acquire` and `Wake` are the loop;
`StartShell`, `Timeout`, `Collect` and `Push` the goroutine of a task. A
command is a shell and what it started, which holds the output pipe or not:
`CombinedOutput` returns when the shell has ended and nobody holds the pipe,
and the timeout kills the shell alone.

### Reactionner

`Reactionner`: a notification is taken by `Notify` (which proposes the removal
of an acknowledgment for a RECOVERY); `Check` looks for an acknowledgment under the
read lock and `Alert` logs and mails after the lock is released. Before each of the
two anything may happen, so an acknowledgment may be asked for and answered between
the look and the alert. `setupRaft` bootstraps a cluster of one and nothing adds
a voter, so a node's Raft is its own log on disk: `AppendLog` commits,
`ApplyLog` is the state machine, and a restarted node is leader before it has
replayed. `Persist` and `Restore` do nothing, so `Start` begins empty at the
snapshot. Nothing ever proposes MAINT: the map of maintenances stays empty and
is left out.

### Arbiter

`ArbiterConfig` is what `loadAndProcess`, `RunLinter` and `partitionConfig`
compute. All inherited fields of hosts and services go through the same code,
so one field stands for them. A shard is a pair of sets: the Scheduler keeps
maps by id.

`Arbiter` runs them. A caller of `refreshConfig` is the ticker, the hot reload
loop or a goroutine of the API: `Begin` is the look at the cool-off, `Clear` its
end, `ReadFile` one file of the walk (one that does not parse is skipped, one
that cannot be read ends the refresh), `Finish` the rest. Each `Finish` of a
leader starts a goroutine: `Post` is an attempt at a Scheduler, of which the
Scheduler may take notice although the attempt fails; `Pushed` and
`StampCoolOff` are the end of `syncShardsToSchedulers`, whose assignments have
no lock. A request the client has given up on is taken then or never; one that
a Scheduler reads still later is not modelled. `EditBegins`/`EditEnds` are an
editor or, at a follower, the leader's archive. Raft is `LeaderChanges`: a node
leads or does not, at any time.

The fields are resolved level by level: `Field(defs)[left]` is what the recursive
call returns with `left` levels to go, so the cut is where `left` is 0. `Kept` is the
loop that appends what is registered, `Joining` the walk that appends file after file.
All three are recursive functions, not RECURSIVE
operators, so that theorems can be proved about them.

`Fleet` composes the files with what becomes of them in the Schedulers. A file that
an editor is writing (`EditBegins` to `EditEnds`) reads as any beginning of what it
will hold (`Beginnings`): whole definitions, then one that has lost fields or whose
last word ends early, or nothing where it does not parse. A refresh reads file after
file (`ReadFile`), whatever is edited between; `Push` is partition, post and
`syncAllHandler` of what it has read, to any Scheduler, in any order, again and
again and however late, until it ends (`Return`). The maps of the Schedulers are
keyed by bare ids and keep the state of the ids they know; `HostResult` sets a host up
or down. So `Fleet` allows more than `Arbiter`, whose cool-off, order of attempts
and single goroutine per refresh are left out; a Scheduler that restarts or forgets is
in `Scheduler`. It starts with any files and any number of Schedulers.
`MCArbiterConfig` takes small sets of both (`MCInit`): inputs of one file, each an
initial state on which the computations are evaluated and from which nothing is
explored (`Explored`), and two files whose edits, refreshes and pushes are.

`ArbiterHA` is a cluster (or, with `ha_enabled` off, nodes of their own). Raft is
external: a configuration of voters, one leader or none, one committed log;
elections, lost leases, commits and lost proposals are actions of its promises.
What a deposed leader does before it notices is what it did just before, so
one leader is enough. `Start` is `main` with `setupRaft`, which restores the
snapshot, and `Join` one request of `joinCluster` with `handleJoin`'s answer.
`PostDowntime` puts a proposal in `flight` and answers; `Commit` or `Drop` ends
it; `Apply`, `TakeSnapshot`, `Persist` and `InstallSnapshot` are the state
machine, where a snapshot is taken at one moment and written at a later one.
`BroadcastToFollowers` is the end of a leader's refresh, with one archive for
each other node of its list (identical ones on their way count once). `Answer`
is the look at the role, then the extraction goes file by file, `Truncate` and
`Write`, and `BreakOff` may end it anywhere. A file in an archive is read
whole, and `Write` leaves it as the archive has it: the new head with an old tail that
two extractions into one file may leave until the next tick (`api.go:150`) is not
modelled. That a refresh reads files while they change is in `Arbiter` and `Fleet`.

## 3. Runs

| Run | Instance | Shows |
|---|---|---|
| `results` | a host and its service, each with and without downtime or gone, 2 workers, channel of 2, 3 results | every accepted result in one place; no transition swallowed or invented by a reload; NextCheck only grows |
| `saves` | both savers, a status client, failing writes, a broker, 2 results, stops and crashes | types, coherent hosts on disk, one moment per file, both refinements; no transition swallowed or invented but by a restart from a file that does not know it; results get applied, a flagged change gets to the disk unless the write fails, a stop ends |
| `pool` | 2 dbWorkers, channel of 1, batches of 2, 2 entities, 4 results, errors and crashes | bounds; every result in one place and out of it in the end; none hidden by an older one of its request |
| `slots` | 2 Schedulers, 2 slots, 3 tasks, commands that hang, a stop and restart | slots = goroutines; every task in one place; results go home; tasks end; every Scheduler is polled again |
| `acks` | with and without Raft, 2 entities, 3 requests, snapshots, mail failures, 2 crashes | acknowledgments are the effect of the log behind the snapshot; entries no snapshot covers get applied, crashes or not; without Raft an acknowledgment mutes every notification whose look comes after its answer |
| `inputs` | every web of 3 definitions, chains of 6, 4 hosts with 2 services on 1 to 3 Schedulers | inheritance takes the nearest; what the linter accepts is partitioned, services with their hosts |
| | ... and 2 files on 2 Schedulers, 2 refreshes, 2 edits with torn readings, hosts going down | every host monitored by one Scheduler, services by that of their host, nothing left over; what is DOWN stays known while files behind are edited, read torn and pushed late |
| `outages` | 2 Schedulers, 2 pushes at once, outages at any time, an edit of the one file | the Schedulers, the node and `sync_ok` end up with what the file says once the Schedulers stay in reach |
| `cluster` | ticker and hot reload loop, 2 files, 2 pushes, changes of leader, a restart | the same for overlapping refreshes; no service without its host at any moment |
| `ha` | 2 Arbiters that join, or each alone; 1 file; 3 events (downtimes, edits, crashes, elections, broken requests); 2 archives at once | lists follow the log and settle; the leader's edits stay; its files reach the followers |

Runs that refute a statement of a comment or the README:

| Run | Statement | What the code does |
|---|---|---|
| `clean` | "periodically persists" (`README.md:24`) | a change between the save and the reset of the flag counts as saved |
| `pollerhang` | "no hanging processes or orphans" (`poller/executor.go:19`) | only the shell is killed, and what inherited its pipe keeps the call |
| `newissue` | "claimed the issue" (`reactionner/engine.go:31`) | an acknowledgment is for ever, the Scheduler never sends RECOVERY |

The models show more that the code does and no run is spent on: a graceful stop
of the Scheduler drops results answered with 202 (`Exit` moves them to `lost`)
and broker updates started after the wait; the loop's save can truncate the
state file after `main` wrote it, just before the end; an alert can
follow the answer to its acknowledgment, when it was looked up before it (`Check`, then
`Alert`), with Raft also when the entry is not applied yet; a snapshot loses the
acknowledgments before it (`Start`). In the Arbiter an older push can overwrite
a newer one and leave `sync_ok` true until the next tick; a refresh between the
flag of the cool-off and its start cancels it, one that had begun before pushes
during it; a file that is being written takes its hosts away for a while, and a Scheduler
that was pushed such a reading takes them for UP when they come back.

In a cluster, an archive that breaks off leaves a truncated file at the follower,
which sends it to all once it leads, the linter passing what does not parse; a
file removed at the leader stays at the others and comes back when one of
them leads; a downtime answered with 201 may never reach the log, and those
which do reach no Scheduler; each address is asked to let a node join once, so a
node that starts while there is no leader stays outside; a cluster of two stops
when either dies. An edit in front of a host moves it to another Scheduler, which
takes it for UP; of the services of one id in a Scheduler only the last is
monitored, and the sample configuration (`etc/shinsakuto/conf.d/ha`) has two.

### Bounds

Every bound is a constant: `MaxTime`, `MaxResults`, `MaxOutstanding`
(Scheduler), `MaxPosts` (Broker), `MaxTasks`, `MaxStops` (Poller), `MaxCalls`,
`MaxCrashes` (Reactionner), `Pushers`, `MaxEdits`, `MaxRestarts` (Arbiter),
`Refreshers`, `MaxEdits` (Fleet), `MaxTransfers`, `MaxEvents` (ArbiterHA). In
the Arbiter two attempts stand for three, and a cut of the inheritance at 2 for
one at 5, with chains that pass it. They are chosen so that the channel fills and
refuses (more results than channel and workers hold), an entity has a result
processed, one in a worker and one queued at once, a reload falls between each
two of these, both slots are taken while a third task is in the loop's hands,
a batch fills and another does not, and a restart has something to restore.
`MaxEvents` is one budget for all that comes from outside, so that three of
a kind are met as well as one each of three: a downtime, its snapshot and a crash;
an edit, a change of leader and an archive that breaks off. `MaxTransfers` lets an
older archive and a newer one, or one each way, be under way at once. `saves` has
`MaxTime` 0: time matters to checks that come due, which are in `results`.
Capacities (5000, 50000) are constants too; the theorems hold for all values.
In `inputs` two refreshes are one that has read something old or torn and one that
has not, and the second edit may hit the same file or the other; `Explored` keeps
edits and refreshes under way to 3 together, and a word cut short reads as one left
out (`Words`), while the theorems hold for any words. Symmetry of workers is used in
`results`, of refreshes in `inputs`; neither checks liveness.

### Fairness

* Goroutines run, so the steps of workers, savers and loops are weakly fair.
* `mu`: a writer that waits keeps new readers out (`sync.RWMutex`), so
  `ApplyResult` is strongly fair although savers and status clients take the
  read lock again and again.
* The Scheduler's and the Poller's HTTP clients have timeouts, so their posts
  end; the Broker's write has none, so its end is assumed separately
  (`TsdbAnswers`): without it `AcceptedLeaves` is false.
* `select` picks at random among ready cases, so the Broker's two cases are
  strongly fair.
* The Poller's timeout fires (`Goroutine`), and what a command leaves behind
  ends only under `KidsEnd`; `pollerhang` is the run without it.
* The ticker ticks and the Arbiter's pushes end (its client has a timeout). The
  bound on goroutines must not keep a refresh from starting one, so `Finish` is
  strongly fair. `Converges` holds on condition that the node goes on leading
  and the Schedulers stay in reach; editors finish what they write.
* In a cluster, Raft tells its voters what is committed, and requests end. The
  leader's ticker ticks; `BroadcastToFollowers` is strongly fair, since the bound
  on archives must not hold it back and the Schedulers are taken to be in reach
  often enough to end a cool-off. Elections are not fair: what settles does so on
  condition that there is a leader, or that one stays. Nodes of their own have
  nothing left to do once the budget of events is spent, and a process may just
  stay down, so `ha` does not look for deadlocks.
* Nothing is assumed of requests, crashes, pollers or reloads.

## 4. Theorems

Proved for all values of the constants that satisfy the named assumptions
(`SchedulerAssumption`, `BrokerAssumption`, `PollerAssumption`,
`ReactionnerAssumption`, `ArbiterConfigAssumption`, `ArbiterAssumption`,
`FleetAssumption`, `ArbiterHAAssumption`: capacities and intervals are natural numbers, the
special values differ from the others, 0 is a status, there is a Scheduler to
poll and a definition file, operators write definitions, lists of nodes name
nodes, modes and faults are those listed).

`SchedulerProofs`: `Typing`; `HostsAreCoherent`; `SavesAreCurrent`, from
`FileInv`: no step that changes the maps is enabled while a saver has
marshalled; `ResultsAreAccounted`, from `QueueInv`:
numbers grow along the channel and stay below `nextNo`, so the head that a
worker takes is new to all of held, processed and lost; `TransitionsAnnounced`,
from `ToldInv`, which says of the copies being saved and on disk which entities a
restart from them would forget the last transition of: these, and no others, are
exempt after it, until their next result; `NextChecksGrow`; and the refinements
`LedgerImplemented` and `StoreImplemented`, each step a step or a stutter of
the abstract specification.
`NoUnmarkedChange` is what is left of the promise the run `clean` refutes: no
step makes the statuses in a file that agrees with the maps stale unless it sets
`stateChanged` or tears the file, so what run `clean` shows can only come
of the reset of the flag, or of a save that failed before it.

`BrokerProofs`: `Typing`, `PointsAreAccounted` and `NewestIsKept`. The accounting is
inductive with `QueueDistinct`: without it a received result might still be in
the channel. It is shown over sets (`Apart`), with lemmas for what `Append` and
`Tail` do to the set of numbers. That only a later result hides a written one needs
`OrderInv`: numbers grow along the channel and along each batch, the channel
is behind every batch, and a number goes with the entity it was posted for; then the
last line of an entity in a request is its newest.

`PollerProofs`: `Typing`, `SlotsAreGoroutines`, `TasksAreAccounted` and
`ReportsReachOrigin`. The four hold together, with `KnowsHome` (a goroutine's
URL is the origin of its task): a slot is free to be given back because its
task is in flight, and in flight once because the task in the loop's hands is
not. Steps that touch one job and keep it active, or inactive, share one lemma.

`ReactionnerProofs`: `Typing`, `AcksFollowLog` and `AcksMute`. What the state
machine holds is a function of a stretch of the log (`AcksOf`), and one entry
more has its effect on it (`AcksOfAppend`). `AcksMute` is about the order of
calls: an acknowledgment without Raft is in the map when it is answered
(`AnsweredIsKnown`), so a notification that alerts after it has passed its look before
it (`PassedCameFirst`).

`ArbiterConfigProofs` is about the computations, for any definitions.
`NearestIsInherited`: for every web of templates, with circles, unknown names and
chains past the cut, there is a chain of templates from a definition to the
one its field comes from, each the last of its id, none before the end with a
field of its own, and the end has one, or uses nothing that exists, or is where the
cut is. It goes by induction over the levels, one template more in front
of the chain (`NearestThroughTemplate`). `ShardsPartition`: ids are unique,
so the last host of a name is the only one, and the residues of its index are one
for each shard. `ProcessType` and `PartitionType` say that what comes out are
definitions and shards. Recursive functions are unfolded by `Iteration` (a
function computed step by step exists), and induction is `Induction`, a set with 0
and all successors, from `WFMin` and the well-foundedness of `<` on the naturals:
the library's induction over a predicate is out of the provers' reach, over a set
it is not.

`FleetProofs`: `InheritanceIsNearest`, `ShardsArePartition` and
`ServicesGoWithHosts` say it of whatever the files hold;
`AllIsMonitored` and `DownIsKept` of the Schedulers' maps. The invariant is
`FleetInv`: a Scheduler whose last push was of the present definitions has the ids of
its shard and no others (`FreshHasShard`); a host of `steady` is DOWN in the
Scheduler that its place among the registered hosts gives, and all readings under
way have the files up to its own as they are (`SteadyAtHome` with `Intact`). Such a
reading starts with the definitions these files hold (`JoiningAlike`,
`LaterFilesBehind`), whatever it has of the files behind, and the place of a host
depends on the lines up to its own only (`SamePlace`). So a push of it, at any time,
finds the host in the shard of the same Scheduler, or is refused by the linter.

`ArbiterProofs`: `Typing` and `HostsGoAlong`, from `Inv`: a goroutine has fewer
successes than Schedulers behind it (`Counts`, without which `ok` might pass `N`)
and what it pushes was accepted (`Carries`). `AgreementStays` and `SettledStays` are the
half of `Converges` that is safety: from the moment when the configuration,
the Schedulers and all that is under way agree with the files (`Agreed`), every step
but an edit or a restart keeps it so, and with the Schedulers in reach
`sync_ok` too (`InSync`). A refresh under way counts as agreeing when what it has
read so far is what these files hold now (`JoiningUnfolds` of `ArbiterConfigProofs`). Such
states are met in `outages` and `cluster`, also after an edit and with a push under
way, and TLC found both statements to hold there before they were proved; the runs
keep `Converges`, which needs the other half as well.

`ArbiterHAProofs`: `Typing`; `DowntimesAreTheLog`, from `LogInv`, which says of
snapshots, written or about to be, what it says of the lists: each is the
beginning of the log up to its index, since any of them may be taken up at a
restart or by a node that lags; `EditsStayThere`, from `EditInv`: where something
is recorded no archive is being extracted and none can begin, because the node
leads, and every end of its term ends the record. `NothingOlderReturns` is the safety
half of `FilesReachFollowers`: once all archives under way to a node have the
leader's version of a file (`Alike`), nothing older shows there while it leads, since
only the leader sends and it sends what it has.

Only model-checked: the liveness properties, `AcceptedGetsApplied`, `DirtyGetsSaved`,
`StopEnds`, `AcceptedLeaves`, `TasksEnd`, `SchedulersPolled`, `LogGetsApplied`,
`Converges`, `DowntimesSettle` and `FilesReachFollowers`. They rest on fairness,
and ENABLED is beyond the prover. Every invariant, action property and refinement
of the runs is proved.

## 5. Not modelled

Logging and its wording; loading of configuration files; daemonisation (the
Arbiter starts its child with `-config`, a flag it has not: `main.go:65`);
metrics; JSON and line-protocol formatting; host and service groups, which
reach no Scheduler. In `Arbiter` a file that is being written is skipped or read whole
(beginnings that parse are in `Fleet`); of the clients of a Scheduler that stops,
only those of the status outlast the 5 s of `Shutdown`. Next:

1. Compositions: Scheduler and Brokers (failover and duplicates), Scheduler and
   Pollers with a capacity (hosts before services), an end-to-end path from a
   result to a mail.
2. Proofs: the safety half of more of the liveness properties, as was done for
   `Converges` and `FilesReachFollowers`.
3. Archives of several files read while they change, and a Raft with terms, if
   the leader's role is ever looked at more than once.
