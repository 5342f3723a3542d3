-------------------------------- MODULE Arbiter --------------------------------
(***************************************************************************)
(* One Arbiter and the Schedulers it feeds (cmd/arbiter, watcher.go): the  *)
(* callers of refreshConfig (the ticker, the hot reload loop, goroutines of *)
(* the API), the goroutines that push shards with retries, the cool-off,   *)
(* and the definition files, which an editor changes in the meantime.      *)
(* Neither the cool-off nor syncSuccess is guarded by a lock, and pushes   *)
(* overlap freely.                                                         *)
(***************************************************************************)
EXTENDS ArbiterConfig

CONSTANTS
  Files,          \* the definition files, in the order of filepath.Walk
  Contents,       \* per file, what an editor may leave in it
  Initial,        \* what is in each at first
  Broken,         \* a file that does not parse, being written for instance
  Unreadable,     \* a file os.ReadFile fails on
  N,              \* number of scheduler_urls
  Refreshers,     \* callers of refreshConfig: "ticker", "hotreload" and others
  Pushers,        \* bound: goroutines of syncShardsToSchedulers at one time
  MaxAttempts,    \* attempts per Scheduler (3 in the code)
  HAEnabled,      \* ha_enabled
  Outages,        \* the sets of Schedulers that may be out of reach at one time
  MaxEdits, MaxRestarts           \* bounds

ASSUME ArbiterAssumption ==
  /\ Len(Files) \in Nat /\ DOMAIN Files = 1 .. Len(Files)
  /\ DOMAIN Contents = DOMAIN Files /\ Initial \in [DOMAIN Files -> Config]
  /\ \A f \in DOMAIN Files : Initial[f] \in Contents[f] /\ Contents[f] \subseteq Config
  /\ Broken \notin Config /\ Unreadable \notin Config /\ Broken # Unreadable
  /\ N \in Nat \ {0} /\ MaxAttempts \in Nat \ {0}
  /\ "ticker" \in Refreshers
  /\ HAEnabled \in BOOLEAN
  /\ Outages \subseteq SUBSET (1 .. N)
  /\ MaxEdits \in Nat /\ MaxRestarts \in Nat

VARIABLES
  files,          \* what each file holds
  events,         \* file events the hot reload loop has not taken
  leader,         \* isLeader()
  refresher,      \* per caller: where in refreshConfig, files read, definitions so far
  currentConfig,
  isInCoolOff,
  coolOffOver,    \* coolOffStartTime lies scheduler_cool_off_minutes back
  pusher,         \* per goroutine: shards, Scheduler, attempt, successes
  syncSuccess,
  held,           \* the inventory each Scheduler has
  cut,            \* Schedulers that do not answer
  edits, restarts \* counts

vars == << files, events, leader, refresher, currentConfig, isInCoolOff, coolOffOver, pusher,
           syncSuccess, held, cut, edits, restarts >>
world == << files, edits, cut, leader, restarts >>

Ready == [pc |-> "idle", read |-> 0, raw |-> NoConfig]
Refresher == [pc : {"off", "first", "idle", "clearing", "loading"},
              read : 0 .. Len(Files), raw : Config]

NoPush == [pc |-> "idle", cfg |-> NoConfig, to |-> 1, attempt |-> 1, ok |-> 0]
PushOf(cfg) == [pc |-> "pushing", cfg |-> cfg, to |-> 1, attempt |-> 1, ok |-> 0]
Pusher == [pc : {"idle", "pushing", "entering"}, cfg : Config, to : 1 .. N + 1,
           attempt : 1 .. MaxAttempts, ok : 0 .. N]

-----------------------------------------------------------------------------
(* refreshConfig.                                                           *)

TriggeredByEvents(r) ==                            \* mutant: without the period
  \/ r = "ticker" /\ refresher[r].pc = "first"
  \/ r = "hotreload" /\ refresher[r].pc = "idle" /\ events > 0
\* the ticker and the hot reload loop act at the leader only; the first refresh
\* comes before both, those of the API at any time
Triggered(r) ==
  \/ r = "ticker" /\ (refresher[r].pc = "first" \/ (refresher[r].pc = "idle" /\ leader))
  \/ r = "hotreload" /\ refresher[r].pc = "idle" /\ events > 0
  \/ r \notin {"ticker", "hotreload"} /\ refresher[r].pc = "idle"

\* a refresh returns; the hot reload loop starts after the first one
Returned(r) ==
  [x \in Refreshers |->
     IF x = r \/ (r = "ticker" /\ refresher[x].pc = "off") THEN Ready ELSE refresher[x]]

At(r, pc) == [refresher EXCEPT ![r].pc = pc, ![r].read = 0, ![r].raw = NoConfig]

Begin(r) ==
  /\ Triggered(r)
  /\ events' = IF r = "hotreload" THEN events - 1 ELSE events
  /\ \/ /\ r = "hotreload" /\ ~leader
        /\ UNCHANGED refresher
     \/ /\ r # "hotreload" \/ leader
        /\ \/ isInCoolOff /\ ~coolOffOver /\ refresher' = Returned(r)
           \/ isInCoolOff /\ coolOffOver /\ refresher' = At(r, "clearing")
           \/ ~isInCoolOff /\ refresher' = At(r, "loading")
  /\ UNCHANGED << world, currentConfig, isInCoolOff, coolOffOver, pusher, syncSuccess, held >>

Clear(r) ==
  /\ refresher[r].pc = "clearing"
  /\ isInCoolOff' = FALSE /\ refresher' = At(r, "loading")
  /\ UNCHANGED << world, events, currentConfig, coolOffOver, pusher, syncSuccess, held >>

\* one file of the walk; one that does not parse is passed over in silence
ReadFile(r) ==
  LET f == refresher[r].read + 1
  IN  /\ refresher[r].pc = "loading" /\ f \in DOMAIN Files
      /\ \/ files[f] = Unreadable /\ refresher' = Returned(r)
         \/ files[f] = Broken /\ refresher' = [refresher EXCEPT ![r].read = f]
         \/ /\ files[f] \notin {Broken, Unreadable}
            /\ refresher' = [refresher EXCEPT ![r].read = f, ![r].raw = Appended(@, files[f])]
      /\ UNCHANGED << world, events, currentConfig, isInCoolOff, coolOffOver, pusher,
                      syncSuccess, held >>

\* the rest: store, check, and start a goroutine that pushes
Finish(r) ==
  LET cfg == Process(refresher[r].raw)
  IN  /\ refresher[r].pc = "loading" /\ refresher[r].read = Len(Files)
      /\ currentConfig' = cfg /\ refresher' = Returned(r)
      /\ \/ ~leader /\ UNCHANGED << pusher, syncSuccess >>
         \/ leader /\ ~Accepted(cfg) /\ syncSuccess' = FALSE /\ UNCHANGED pusher
         \/ /\ leader /\ Accepted(cfg)
            /\ \E p \in Pushers :
                 /\ pusher[p].pc = "idle"
                 /\ pusher' = [pusher EXCEPT ![p] = PushOf(cfg)]
            /\ UNCHANGED syncSuccess
      /\ UNCHANGED << world, events, isInCoolOff, coolOffOver, held >>

-----------------------------------------------------------------------------
(* syncShardsToSchedulers.                                                  *)

Answered(push) == [push EXCEPT !.to = @ + 1, !.attempt = 1, !.ok = @ + 1]
FailedOnceMore(push) ==                            \* mutant: one attempt too many
  IF push.attempt <= MaxAttempts THEN [push EXCEPT !.attempt = @ + 1]
  ELSE [push EXCEPT !.to = @ + 1, !.attempt = 1]
Failed(push) ==
  IF push.attempt < MaxAttempts THEN [push EXCEPT !.attempt = @ + 1]
  ELSE [push EXCEPT !.to = @ + 1, !.attempt = 1]

\* a Scheduler that does not answer may have taken the shard all the same
Post(p) ==
  LET to == pusher[p].to
      taken == [held EXCEPT ![to] = Partition(pusher[p].cfg, N)[to]]
  IN  /\ pusher[p].pc = "pushing" /\ to <= N
      /\ \/ to \notin cut /\ held' = taken /\ pusher' = [pusher EXCEPT ![p] = Answered(@)]
         \/ to \in cut /\ held' \in {held, taken} /\ pusher' = [pusher EXCEPT ![p] = Failed(@)]
      /\ UNCHANGED << world, events, refresher, currentConfig, isInCoolOff, coolOffOver,
                      syncSuccess >>

Pushed(p) ==
  /\ pusher[p].pc = "pushing" /\ pusher[p].to > N
  /\ \/ /\ pusher[p].ok = 0
        /\ isInCoolOff' = TRUE
        /\ pusher' = [pusher EXCEPT ![p].pc = "entering"]
        /\ UNCHANGED syncSuccess
     \/ /\ pusher[p].ok > 0
        /\ syncSuccess' = (pusher[p].ok = N)
        /\ pusher' = [pusher EXCEPT ![p] = NoPush]
        /\ UNCHANGED isInCoolOff
  /\ UNCHANGED << world, events, refresher, currentConfig, coolOffOver, held >>

\* the start of the cool-off is written after its flag
StampCoolOff(p) ==
  /\ pusher[p].pc = "entering"
  /\ coolOffOver' = FALSE /\ syncSuccess' = FALSE
  /\ pusher' = [pusher EXCEPT ![p] = NoPush]
  /\ UNCHANGED << world, events, refresher, currentConfig, isInCoolOff, held >>

CoolOffElapses ==
  /\ ~coolOffOver /\ coolOffOver' = TRUE
  /\ UNCHANGED << world, events, refresher, currentConfig, isInCoolOff, pusher, syncSuccess, held >>

-----------------------------------------------------------------------------
(* The surroundings.                                                        *)

\* the watch begins with the hot reload loop, if hot_reload has it run at all
Seen ==
  events' = IF "hotreload" \in Refreshers /\ refresher["hotreload"].pc # "off" THEN events + 1
            ELSE events

\* an editor, or the leader's archive at a follower, begins to write a file or
\* moves it away, and has a new one in place later
EditBegins(f) ==
  /\ edits < MaxEdits /\ edits' = edits + 1
  /\ \E now \in {Broken, Unreadable} : files' = [files EXCEPT ![f] = now]
  /\ Seen
  /\ UNCHANGED << leader, refresher, currentConfig, isInCoolOff, coolOffOver, pusher,
                  syncSuccess, held, cut, restarts >>

EditEnds(f) ==
  /\ files[f] \in {Broken, Unreadable}
  /\ \E content \in Contents[f] : files' = [files EXCEPT ![f] = content]
  /\ Seen
  /\ UNCHANGED << leader, refresher, currentConfig, isInCoolOff, coolOffOver, pusher,
                  syncSuccess, held, cut, edits, restarts >>

\* an outage takes some of the Schedulers away, or the network to them
Cut ==
  /\ cut = {} /\ cut' \in Outages \ {{}}
  /\ UNCHANGED << files, events, leader, refresher, currentConfig, isInCoolOff, coolOffOver,
                  pusher, syncSuccess, held, edits, restarts >>

Heal ==
  /\ cut # {} /\ cut' = {}
  /\ UNCHANGED << files, events, leader, refresher, currentConfig, isInCoolOff, coolOffOver,
                  pusher, syncSuccess, held, edits, restarts >>

\* Raft elects this node or another; what it has begun as leader goes on
LeaderChanges ==
  /\ HAEnabled /\ leader' = ~leader
  /\ UNCHANGED << files, events, refresher, currentConfig, isInCoolOff, coolOffOver, pusher,
                  syncSuccess, held, cut, edits, restarts >>

Fresh == [r \in Refreshers |->
            [Ready EXCEPT !.pc = IF r = "ticker" THEN "first"
                                 ELSE IF r = "hotreload" THEN "off" ELSE "idle"]]

\* nothing is kept on disk, and main waits for nothing
Restart ==
  /\ restarts < MaxRestarts /\ restarts' = restarts + 1
  /\ events' = 0 /\ leader' = ~HAEnabled /\ refresher' = Fresh /\ currentConfig' = NoConfig
  /\ isInCoolOff' = FALSE /\ coolOffOver' = TRUE
  /\ pusher' = [p \in Pushers |-> NoPush] /\ syncSuccess' = FALSE
  /\ UNCHANGED << files, held, cut, edits >>

-----------------------------------------------------------------------------
Init ==
  /\ files = Initial
  /\ events = 0 /\ leader = ~HAEnabled /\ refresher = Fresh /\ currentConfig = NoConfig
  /\ isInCoolOff = FALSE /\ coolOffOver = TRUE
  /\ pusher = [p \in Pushers |-> NoPush] /\ syncSuccess = FALSE
  /\ held = [i \in 1 .. N |-> NoShard] /\ cut = {}
  /\ edits = 0 /\ restarts = 0

Refresh(r) == Begin(r) \/ Clear(r) \/ ReadFile(r) \/ Finish(r)
Push(p) == Post(p) \/ Pushed(p) \/ StampCoolOff(p)

Next ==
  \/ \E r \in Refreshers : Refresh(r)
  \/ \E p \in Pushers : Push(p)
  \/ CoolOffElapses
  \/ \E f \in DOMAIN Files : EditBegins(f) \/ EditEnds(f)
  \/ Cut \/ Heal
  \/ LeaderChanges \/ Restart

Spec == Init /\ [][Next]_vars

\* Goroutines run and the ticker ticks; posts have the client's timeout. A caller
\* is not kept from starting a goroutine by the bound on their number (SF). Time
\* passes and editors finish.
Fairness ==
  /\ \A r \in Refreshers : WF_vars(Begin(r) \/ Clear(r) \/ ReadFile(r)) /\ SF_vars(Finish(r))
  /\ \A p \in Pushers : WF_vars(Push(p))
  /\ WF_vars(CoolOffElapses)
  /\ \A f \in DOMAIN Files : WF_vars(EditEnds(f))

FairSpec == Spec /\ Fairness

-----------------------------------------------------------------------------
\* Types.
TypeOK ==
  /\ files \in [DOMAIN Files -> Config \cup {Broken, Unreadable}]
  /\ events \in Nat /\ leader \in BOOLEAN /\ syncSuccess \in BOOLEAN
  /\ refresher \in [Refreshers -> Refresher]
  /\ currentConfig \in Config
  /\ isInCoolOff \in BOOLEAN /\ coolOffOver \in BOOLEAN
  /\ pusher \in [Pushers -> Pusher]
  /\ held \in [1 .. N -> Shard] /\ cut \subseteq 1 .. N
  /\ edits \in Nat /\ restarts \in Nat

\* Whatever files are read while they are edited, whatever pushes overlap, fail
\* or are taken twice: a Scheduler never has a service without its host.
ServicesWithHosts == \A i \in 1 .. N : WithTheirHosts(held[i])

\* the configuration the files define now, if they all can be read
Readable == \A f \in DOMAIN Files : files[f] \notin {Broken, Unreadable}
Joined == Joining(files)[Len(Files)]

Settled(cfg) ==
  /\ currentConfig = cfg
  /\ syncSuccess <=> Accepted(cfg)
  /\ Accepted(cfg) => held = Partition(cfg, N)

\* If the files are left alone, this node goes on leading and the Schedulers are in
\* reach, then the node, every Scheduler and sync_ok end up with what the files say,
\* for good: no older refresh or push, no failed attempt, no cool-off and no restart
\* leaves anything else behind.
Converges ==
  <>[](leader /\ cut = {}) => <>[](Readable => Settled(Process(Joined)))
=============================================================================
