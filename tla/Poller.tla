-------------------------------- MODULE Poller --------------------------------
(***************************************************************************)
(* One Poller (cmd/poller): a loop that pulls a task from each Scheduler   *)
(* in turn, a semaphore of max_concurrent slots, and one goroutine per     *)
(* task that runs the command under a shell and posts the outcome to the   *)
(* Scheduler the task came from.                                           *)
(*                                                                         *)
(* A command is a shell and what the shell started. executeTask reads the  *)
(* output through a pipe, so it returns when the shell has ended and no    *)
(* process holds the pipe any more; the timeout kills the shell alone.     *)
(***************************************************************************)
EXTENDS Integers, Sequences, FiniteSets

CONSTANTS
  SchedulerURLs,  \* scheduler_urls: a sequence
  MaxConcurrent,  \* max_concurrent
  Off,            \* pc of a poller that is not running
  MaxTasks,       \* bound: tasks handed out by the Schedulers
  MaxStops        \* bound: ends of the process

ASSUME PollerAssumption ==
  /\ SchedulerURLs \in Seq(STRING) /\ SchedulerURLs # << >>
  /\ MaxConcurrent \in Nat /\ MaxTasks \in Nat /\ MaxStops \in Nat
  /\ Off \notin {"pull", "acquire", "sleep"}

VARIABLES
  pc,             \* the loop: pull, acquire, sleep, or Off
  turn,           \* index of schedulerURL in the loop
  held,           \* the task pulled and not yet given to a goroutine, or 0
  sem,            \* slots taken in the semaphore channel
  jobs,           \* per task: its goroutine and its processes
  origin,         \* history: the Scheduler that handed out each task
  reports,        \* history: results the Schedulers got, and which one
  lost,           \* history: tasks that end without a result
  stops           \* counts MaxStops

vars == << pc, turn, held, sem, jobs, origin, reports, lost, stops >>

URLs == {SchedulerURLs[i] : i \in DOMAIN SchedulerURLs}
Tasks == 1 .. MaxTasks
Kids == {"none", "piped", "detached"}   \* started by the shell: holding the pipe or not

Job == [pc : {"none", "starting", "running", "reporting", "ended"}, url : URLs,
        shell : BOOLEAN, kids : Kids]
NoJob == [pc |-> "none", url |-> SchedulerURLs[1], shell |-> FALSE, kids |-> "none"]

InFlight == {t \in Tasks : jobs[t].pc \in {"starting", "running", "reporting"}}
Reported == {r.task : r \in reports}

-----------------------------------------------------------------------------
(* The loop.                                                                *)

NextURL ==
  \/ turn < Len(SchedulerURLs) /\ turn' = turn + 1 /\ pc' = "pull"
  \/ turn = Len(SchedulerURLs) /\ turn' = turn /\ pc' = "sleep"

\* GET /v1/pop-task: no task, an error or a timeout
PullNothing ==
  /\ pc = "pull" /\ NextURL
  /\ UNCHANGED << held, sem, jobs, origin, reports, lost, stops >>

\* the Scheduler handed out a task; the answer arrives or is lost on the way
PullTask ==
  /\ pc = "pull" /\ Len(origin) < MaxTasks
  /\ origin' = Append(origin, SchedulerURLs[turn])
  /\ \/ pc' = "acquire" /\ held' = Len(origin') /\ UNCHANGED << turn, lost >>
     \/ NextURL /\ lost' = lost \cup {Len(origin')} /\ UNCHANGED held
  /\ UNCHANGED << sem, jobs, reports, stops >>

HasSlotOffByOne == sem <= MaxConcurrent            \* mutant
HasSlot == sem < MaxConcurrent

Acquire ==
  /\ pc = "acquire" /\ HasSlot
  /\ sem' = sem + 1
  /\ jobs' = [jobs EXCEPT ![held] =
                [NoJob EXCEPT !.pc = "starting", !.url = SchedulerURLs[turn]]]
  /\ held' = 0 /\ NextURL
  /\ UNCHANGED << origin, reports, lost, stops >>

Wake ==
  /\ pc = "sleep" /\ pc' = "pull" /\ turn' = 1
  /\ UNCHANGED << held, sem, jobs, origin, reports, lost, stops >>

-----------------------------------------------------------------------------
(* executeTask, and the processes it starts.                                *)

JobStep(t, job) ==
  /\ jobs' = [jobs EXCEPT ![t] = job]
  /\ UNCHANGED << pc, turn, held, sem, origin, reports, lost, stops >>

\* fork or exec may fail
StartShell(t) ==
  /\ jobs[t].pc = "starting"
  /\ \/ \E kids \in Kids :
          JobStep(t, [jobs[t] EXCEPT !.pc = "running", !.shell = TRUE, !.kids = kids])
     \/ JobStep(t, [jobs[t] EXCEPT !.pc = "reporting"])

\* with any exit code; after the end of the poller it has nobody to report to
ShellExits(t) ==
  /\ jobs[t].shell /\ jobs[t].pc \in {"running", "ended"}
  /\ JobStep(t, [jobs[t] EXCEPT !.shell = FALSE])

KidExits(t) ==
  /\ jobs[t].kids # "none"
  /\ JobStep(t, [jobs[t] EXCEPT !.kids = "none"])

\* the context of CommandContext kills the shell, and the shell alone
KillNothing(job) == job                                       \* mutant
Kill(job) == [job EXCEPT !.shell = FALSE]

Timeout(t) ==
  /\ jobs[t].pc = "running" /\ jobs[t].shell
  /\ JobStep(t, Kill(jobs[t]))

\* CombinedOutput returns
Collect(t) ==
  /\ jobs[t].pc = "running" /\ ~jobs[t].shell /\ jobs[t].kids # "piped"
  /\ JobStep(t, [jobs[t] EXCEPT !.pc = "reporting"])

-----------------------------------------------------------------------------
(* pushResultToURL and the deferred release of the slot. A refusal (503) is  *)
(* taken for a success and an error is logged: nothing is retried.          *)

TurnURL(t) == SchedulerURLs[turn]                 \* mutant: the loop's variable
OriginURL(t) == jobs[t].url

ReleaseSkipped == sem                             \* mutant
Release == sem - 1

EndedAgain(job) == job                            \* mutant: no break after the post
Ended(job) == [NoJob EXCEPT !.pc = "ended", !.shell = job.shell, !.kids = job.kids]

Push(t) ==
  /\ jobs[t].pc = "reporting"
  /\ \/ reports' = reports \cup {[task |-> t, url |-> OriginURL(t)]} /\ UNCHANGED lost
     \/ lost' = lost \cup {t} /\ UNCHANGED reports
  /\ jobs' = [jobs EXCEPT ![t] = Ended(jobs[t])]
  /\ sem' = Release
  /\ UNCHANGED << pc, turn, held, origin, stops >>

-----------------------------------------------------------------------------
(* A signal ends main with os.Exit, a crash does the same; the processes of *)
(* the commands live on.                                                    *)
Stop ==
  /\ pc # Off /\ stops < MaxStops
  /\ pc' = Off /\ turn' = 1 /\ held' = 0 /\ sem' = 0
  /\ lost' = lost \cup InFlight \cup ({held} \ {0})
  /\ jobs' = [t \in Tasks |-> IF t \in InFlight THEN Ended(jobs[t]) ELSE jobs[t]]
  /\ stops' = stops + 1
  /\ UNCHANGED << origin, reports >>

Start ==
  /\ pc = Off /\ pc' = "pull"
  /\ UNCHANGED << turn, held, sem, jobs, origin, reports, lost, stops >>

-----------------------------------------------------------------------------
Init ==
  /\ pc = "pull" /\ turn = 1 /\ held = 0 /\ sem = 0
  /\ jobs = [t \in Tasks |-> NoJob]
  /\ origin = << >> /\ reports = {} /\ lost = {} /\ stops = 0

Loop == PullNothing \/ PullTask \/ Acquire \/ Wake
Goroutine(t) == StartShell(t) \/ Timeout(t) \/ Collect(t) \/ Push(t)

Next ==
  \/ Loop \/ Stop \/ Start
  \/ \E t \in Tasks : Goroutine(t) \/ ShellExits(t) \/ KidExits(t)

Spec == Init /\ [][Next]_vars

\* The loop and the goroutines run: requests have the client's timeout of 10s
\* and the shell the context's 30s. A command need not end by itself.
PollerRuns == WF_vars(Loop) /\ \A t \in Tasks : WF_vars(Goroutine(t))
\* what a command left behind does end: nothing in the poller enforces it
KidsEnd == \A t \in Tasks : WF_vars(KidExits(t))

FairSpec == Spec /\ PollerRuns /\ KidsEnd
HangSpec == Spec /\ PollerRuns

-----------------------------------------------------------------------------
\* Types; no more slots than max_concurrent.
TypeOK ==
  /\ pc \in {"pull", "acquire", "sleep", Off} /\ turn \in DOMAIN SchedulerURLs
  /\ held \in 0 .. MaxTasks /\ sem \in 0 .. MaxConcurrent
  /\ jobs \in [Tasks -> Job]
  /\ origin \in Seq(URLs) /\ Len(origin) <= MaxTasks
  /\ reports \subseteq [task : Tasks, url : URLs] /\ lost \subseteq Tasks
  /\ stops \in Nat

\* Every goroutine has a slot and every slot a goroutine: on no path, failed
\* start, timeout, lost report or stop, is one kept or given back twice.
SlotsMatch == sem = Cardinality(InFlight)

\* Every task handed out is held by the loop, run by a goroutine, reported or
\* lost, and in one of these only: none is run twice, none reported twice.
TasksAccounted ==
  /\ 1 .. Len(origin) = ({held} \ {0}) \cup InFlight \cup Reported \cup lost
  /\ held \notin InFlight \cup Reported \cup lost
  /\ InFlight \cap (Reported \cup lost) = {} /\ Reported \cap lost = {}
  /\ pc = "acquire" <=> held # 0

\* A result goes to the Scheduler its task came from, although the loop has
\* moved on to others by then (main.go:79).
ReportsGoHome == \A r \in reports : r.url = origin[r.task]

\* A task handed out ends, with a result or lost.
TasksEnd == \A t \in Tasks : t \in InFlight \/ t = held ~> t \in Reported \cup lost

\* A running poller comes back to every Scheduler, whatever the others' tasks do.
SchedulersPolled ==
  \A i \in DOMAIN SchedulerURLs : []<>(pc = Off \/ (pc = "pull" /\ turn = i))

\* "Set a 30s context timeout to ensure no hanging processes or orphans"
\* (executor.go:19): a running command ends, with no other help.
NoHanging == \A t \in Tasks : jobs[t].pc = "running" ~> jobs[t].pc # "running"
=============================================================================
