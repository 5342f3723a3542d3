----------------------------- MODULE ArbiterProofs -----------------------------
(***************************************************************************)
(* One Arbiter, for any files, callers and Schedulers: the types, and that *)
(* no Scheduler ever holds a service without its host.                     *)
(***************************************************************************)
EXTENDS Arbiter, ArbiterConfigProofs

\* A goroutine has had no more successes than it has Schedulers behind it: what the
\* bound on ok needs to be inductive.
Counts(push) == push.ok < push.to

\* What a goroutine pushes has passed the linter.
Carries(push) == push.pc # "idle" => Accepted(push.cfg)

Sound(push) == push \in Pusher /\ Counts(push) /\ Carries(push)

Inv == TypeOK /\ (\A p \in Pushers : Sound(pusher[p])) /\ ServicesWithHosts

-----------------------------------------------------------------------------
(* What one step makes of a caller and of a goroutine.                      *)

LEMMA PushOfSound ==
  ASSUME NEW cfg \in Config, Accepted(cfg)
  PROVE  Sound(PushOf(cfg))
BY ArbiterAssumption DEF Sound, Counts, Carries, PushOf, Pusher

LEMMA NoPushSound == Sound(NoPush)
BY ArbiterAssumption, NoConfigType DEF Sound, Counts, Carries, NoPush, Pusher

\* A goroutine goes on with what it has.
LEMMA Continues ==
  ASSUME NEW push, Sound(push)
  PROVE  /\ push.to <= N => Sound(Answered(push)) /\ Sound(Failed(push))
         /\ push.pc # "idle" => Sound([push EXCEPT !.pc = "entering"])
<1>1. PICK pc \in {"idle", "pushing", "entering"}, cfg \in Config, to \in 1 .. N + 1,
           attempt \in 1 .. MaxAttempts, ok \in 0 .. N :
         push = [pc |-> pc, cfg |-> cfg, to |-> to, attempt |-> attempt, ok |-> ok]
  BY DEF Sound, Pusher
<1>2. N \in Nat \ {0} /\ MaxAttempts \in Nat \ {0}
  BY ArbiterAssumption
<1>3. ok < to /\ (pc # "idle" => Accepted(cfg))
  BY <1>1 DEF Sound, Counts, Carries
<1>4. Answered(push) =
        [pc |-> pc, cfg |-> cfg, to |-> to + 1, attempt |-> 1, ok |-> ok + 1]
  <2>. DEFINE moved == [push EXCEPT !.to = push.to + 1]
              again == [moved EXCEPT !.attempt = 1]
  <2>1. moved = [pc |-> pc, cfg |-> cfg, to |-> to + 1, attempt |-> attempt, ok |-> ok]
    BY <1>1
  <2>2. Answered(push) = [again EXCEPT !.ok = push.ok + 1]
    BY Zenon DEF Answered
  <2>. HIDE DEF moved
  <2>3. again = [pc |-> pc, cfg |-> cfg, to |-> to + 1, attempt |-> 1, ok |-> ok]
    BY <2>1
  <2>. HIDE DEF again
  <2>. QED
    BY <1>1, <2>2, <2>3
<1>5. \/ attempt < MaxAttempts /\ Failed(push) =
           [pc |-> pc, cfg |-> cfg, to |-> to, attempt |-> attempt + 1, ok |-> ok]
      \/ Failed(push) =
           [pc |-> pc, cfg |-> cfg, to |-> to + 1, attempt |-> 1, ok |-> ok]
  <2>1. CASE push.attempt < MaxAttempts
    BY <1>1, <2>1 DEF Failed
  <2>2. CASE ~(push.attempt < MaxAttempts)
    BY <1>1, <2>2 DEF Failed
  <2>. QED
    BY <2>1, <2>2
<1>6. [push EXCEPT !.pc = "entering"] =
        [pc |-> "entering", cfg |-> cfg, to |-> to, attempt |-> attempt, ok |-> ok]
  BY <1>1
<1>7. ASSUME NEW a \in {"idle", "pushing", "entering"}, a # "idle" => Accepted(cfg),
             NEW b \in 1 .. N + 1, NEW c \in 1 .. MaxAttempts, NEW d \in 0 .. N, d < b
      PROVE  Sound([pc |-> a, cfg |-> cfg, to |-> b, attempt |-> c, ok |-> d])
  BY <1>7 DEF Sound, Pusher, Counts, Carries
<1>8. ASSUME to <= N
      PROVE  /\ to + 1 \in 1 .. N + 1 /\ ok + 1 \in 0 .. N /\ 1 \in 1 .. MaxAttempts
             /\ ok + 1 < to + 1 /\ ok < to + 1
  BY <1>2, <1>3, <1>8
<1>9. push.to <= N => Sound(Answered(push))
  BY <1>1, <1>3, <1>4, <1>7, <1>8
<1>10. push.to <= N => Sound(Failed(push))
  <2>1. attempt < MaxAttempts => attempt + 1 \in 1 .. MaxAttempts
    BY <1>2
  <2>. QED
    BY <1>1, <1>3, <1>5, <1>7, <1>8, <2>1
<1>11. push.pc # "idle" => Sound([push EXCEPT !.pc = "entering"])
  BY <1>1, <1>3, <1>6, <1>7
<1>. QED
  BY <1>9, <1>10, <1>11

LEMMA FreshType == Fresh \in [Refreshers -> Refresher]
<1>1. 0 \in 0 .. Len(Files)
  BY ArbiterAssumption
<1>. QED
  BY <1>1, NoConfigType DEF Fresh, Ready, Refresher

LEMMA LeaderType == (~HAEnabled) \in BOOLEAN
  OBVIOUS

LEMMA CallerTypes ==
  ASSUME TypeOK, NEW r \in Refreshers
  PROVE  /\ Returned(r) \in [Refreshers -> Refresher]
         /\ \A pc \in {"clearing", "loading"} : At(r, pc) \in [Refreshers -> Refresher]
<1>1. 0 \in 0 .. Len(Files) /\ NoConfig \in Config
  BY ArbiterAssumption, NoConfigType
<1>2. Ready \in Refresher
  BY <1>1 DEF Ready, Refresher
<1>3. Returned(r) \in [Refreshers -> Refresher]
  BY <1>2 DEF Returned, TypeOK
<1>4. ASSUME NEW pc \in {"clearing", "loading"}
      PROVE  At(r, pc) \in [Refreshers -> Refresher]
  <2>1. \A x \in Refresher :
          [[[x EXCEPT !.pc = pc] EXCEPT !.read = 0] EXCEPT !.raw = NoConfig] \in Refresher
    BY <1>1 DEF Refresher
  <2>. QED
    BY <2>1 DEF At, TypeOK
<1>. QED
  BY <1>3, <1>4

-----------------------------------------------------------------------------
(* The steps.                                                               *)

LEMMA InitInv == Init => Inv
<1>. SUFFICES ASSUME Init PROVE Inv
  OBVIOUS
<1>1. Initial \in [DOMAIN Files -> Config \cup {Broken, Unreadable}]
  BY ArbiterAssumption
<1>2. NoShard \in Shard
  BY DEF NoShard, Shard
<1>3. TypeOK
  BY <1>1, <1>2, FreshType, LeaderType, NoConfigType, NoPushSound DEF Init, TypeOK, Sound
<1>. QED
  BY <1>3, NoPushSound DEF Init, Inv, ServicesWithHosts, WithTheirHosts, NoShard

\* A step that leaves the goroutines and the Schedulers alone.
LEMMA ElsewhereInv ==
  ASSUME Inv, UNCHANGED << pusher, held >>,
         files' \in [DOMAIN Files -> Config \cup {Broken, Unreadable}],
         events' \in Nat, leader' \in BOOLEAN, syncSuccess' \in BOOLEAN,
         refresher' \in [Refreshers -> Refresher], currentConfig' \in Config,
         isInCoolOff' \in BOOLEAN, coolOffOver' \in BOOLEAN, cut' \subseteq 1 .. N,
         edits' \in Nat, restarts' \in Nat
  PROVE  Inv'
<1>1. TypeOK'
  BY DEF Inv, TypeOK
<1>. QED
  BY <1>1 DEF Inv, ServicesWithHosts, Sound, Counts, Carries, WithTheirHosts

\* A step of one goroutine that leaves the Schedulers alone.
LEMMA GoroutineInv ==
  ASSUME Inv, NEW p \in Pushers, NEW next, Sound(next),
         pusher' = [pusher EXCEPT ![p] = next], UNCHANGED << world, events, held >>,
         syncSuccess' \in BOOLEAN, isInCoolOff' \in BOOLEAN, coolOffOver' \in BOOLEAN,
         refresher' \in [Refreshers -> Refresher], currentConfig' \in Config
  PROVE  Inv'
<1>1. pusher' \in [Pushers -> Pusher]
  BY DEF Inv, TypeOK, Sound
<1>2. \A q \in Pushers : Sound(pusher'[q])
  BY DEF Inv, TypeOK
<1>3. TypeOK'
  BY <1>1 DEF Inv, TypeOK, world
<1>4. ServicesWithHosts'
  BY DEF Inv, ServicesWithHosts, WithTheirHosts
<1>. QED
  BY <1>2, <1>3, <1>4 DEF Inv, Sound, Counts, Carries

LEMMA BeginInv ==
  ASSUME Inv, NEW r \in Refreshers, Begin(r)
  PROVE  Inv'
<1>1. events' \in Nat
  BY DEF Begin, Triggered, Inv, TypeOK
<1>2. refresher' \in [Refreshers -> Refresher]
  BY CallerTypes DEF Begin, Inv, TypeOK
<1>3. UNCHANGED << files, edits, cut, leader, restarts, currentConfig, isInCoolOff, coolOffOver,
                   pusher, syncSuccess, held >>
  BY DEF Begin, world
<1>. QED
  BY <1>1, <1>2, <1>3, ElsewhereInv DEF Inv, TypeOK

LEMMA ReadFileInv ==
  ASSUME Inv, NEW r \in Refreshers, ReadFile(r)
  PROVE  Inv'
<1>. DEFINE f == refresher[r].read + 1
<1>1. refresher \in [Refreshers -> Refresher] /\ refresher[r] \in Refresher
  BY DEF Inv, TypeOK
<1>2. f \in DOMAIN Files /\ f \in 0 .. Len(Files)
  <2>1. f \in DOMAIN Files
    BY Zenon DEF ReadFile
  <2>. HIDE DEF f
  <2>. QED
    BY <2>1, ArbiterAssumption
<1>. HIDE DEF f
<1>3. refresher' \in [Refreshers -> Refresher]
  <2>1. CASE refresher' = Returned(r)
    BY <2>1, CallerTypes DEF Inv
  <2>2. CASE refresher' = [refresher EXCEPT ![r].read = f]
    BY <1>1, <1>2, <2>2 DEF Refresher
  <2>3. ASSUME files[f] \notin {Broken, Unreadable},
               refresher' = [refresher EXCEPT ![r].read = f, ![r].raw = Appended(@, files[f])]
        PROVE  refresher' \in [Refreshers -> Refresher]
    <3>1. files[f] \in Config /\ refresher[r].raw \in Config
      BY <1>1, <1>2, <2>3 DEF Inv, TypeOK, Refresher
    <3>. DEFINE raw == Appended(refresher[r].raw, files[f])
    <3>2. raw \in Config
      BY <3>1, AppendedType
    <3>3. refresher' = [refresher EXCEPT ![r] = [[@ EXCEPT !.read = f] EXCEPT !.raw = raw]]
      BY <1>1, <2>3 DEF Refresher
    <3>. HIDE DEF raw
    <3>4. [[refresher[r] EXCEPT !.read = f] EXCEPT !.raw = raw] \in Refresher
      BY <1>1, <1>2, <3>2 DEF Refresher
    <3>. QED
      BY <1>1, <3>3, <3>4
  <2>. QED
    BY <2>1, <2>2, <2>3 DEF ReadFile, f
<1>4. UNCHANGED << files, edits, cut, leader, restarts, events, currentConfig, isInCoolOff,
                   coolOffOver, pusher, syncSuccess, held >>
  BY DEF ReadFile, world
<1>. QED
  BY <1>3, <1>4, ElsewhereInv DEF Inv, TypeOK

LEMMA FinishInv ==
  ASSUME Inv, NEW r \in Refreshers, Finish(r)
  PROVE  Inv'
<1>. DEFINE cfg == Process(refresher[r].raw)
<1>1. cfg \in Config
  BY ProcessType DEF Inv, TypeOK, Refresher
<1>2. /\ currentConfig' = cfg /\ refresher' \in [Refreshers -> Refresher]
      /\ UNCHANGED << files, edits, cut, leader, restarts, events, isInCoolOff, coolOffOver, held >>
  BY CallerTypes DEF Finish, world, Inv
<1>3. \/ UNCHANGED pusher /\ syncSuccess' \in BOOLEAN
      \/ /\ Accepted(cfg) /\ UNCHANGED syncSuccess
         /\ \E p \in Pushers : pusher' = [pusher EXCEPT ![p] = PushOf(cfg)]
  BY DEF Finish, Inv, TypeOK
<1>. HIDE DEF cfg
<1>4. CASE UNCHANGED pusher /\ syncSuccess' \in BOOLEAN
  BY <1>1, <1>2, <1>4, ElsewhereInv DEF Inv, TypeOK
<1>5. ASSUME Accepted(cfg), UNCHANGED syncSuccess, NEW p \in Pushers,
             pusher' = [pusher EXCEPT ![p] = PushOf(cfg)]
      PROVE  Inv'
  <2>1. Sound(PushOf(cfg))
    BY <1>1, <1>5, PushOfSound
  <2>. QED
    BY <1>1, <1>2, <1>5, <2>1, GoroutineInv DEF Inv, TypeOK, world
<1>. QED
  BY <1>3, <1>4, <1>5

\* A shard that a Scheduler takes is of a configuration the linter has accepted.
LEMMA PostInv ==
  ASSUME Inv, NEW p \in Pushers, Post(p)
  PROVE  Inv'
<1>. DEFINE to == pusher[p].to
            shard == Partition(pusher[p].cfg, N)[to]
            taken == [held EXCEPT ![to] = shard]
<1>1. /\ pusher[p] \in Pusher /\ Sound(pusher[p]) /\ pusher[p].pc # "idle" /\ to <= N
      /\ held \in [1 .. N -> Shard]
  BY DEF Post, Inv, TypeOK
<1>2. Accepted(pusher[p].cfg) /\ pusher[p].cfg \in Config /\ to \in 1 .. N /\ N \in Nat \ {0}
  BY <1>1, ArbiterAssumption DEF Sound, Carries, Pusher
<1>3. shard \in Shard /\ WithTheirHosts(shard)
  BY <1>2, PartitionType, ShardsTogether
<1>. HIDE DEF shard
<1>4. taken \in [1 .. N -> Shard] /\ \A i \in 1 .. N : WithTheirHosts(taken[i])
  BY <1>1, <1>3 DEF Inv, ServicesWithHosts
<1>5. held' \in {held, taken}
  BY DEF Post, shard
<1>6. held' \in [1 .. N -> Shard] /\ ServicesWithHosts'
  <2>1. CASE held' = held
    BY <1>1, <2>1 DEF Inv, ServicesWithHosts
  <2>2. CASE held' = taken
    BY <1>4, <2>2 DEF ServicesWithHosts
  <2>. QED
    BY <1>5, <2>1, <2>2
<1>7. PICK next : Sound(next) /\ pusher' = [pusher EXCEPT ![p] = next]
  BY <1>1, Continues DEF Post
<1>8. pusher' \in [Pushers -> Pusher] /\ \A q \in Pushers : Sound(pusher'[q])
  BY <1>7 DEF Inv, TypeOK, Sound
<1>9. UNCHANGED << files, edits, cut, leader, restarts, events, refresher, currentConfig,
                   isInCoolOff, coolOffOver, syncSuccess >>
  BY DEF Post, world
<1>10. TypeOK'
  BY <1>6, <1>8, <1>9 DEF Inv, TypeOK
<1>. QED
  BY <1>6, <1>8, <1>10 DEF Inv, Sound, Counts, Carries

LEMMA PushedInv ==
  ASSUME Inv, NEW p \in Pushers, Pushed(p) \/ StampCoolOff(p)
  PROVE  Inv'
<1>1. Sound(pusher[p])
  BY DEF Inv
<1>2. PICK next : Sound(next) /\ pusher' = [pusher EXCEPT ![p] = next]
  <2>1. CASE Pushed(p)
    BY <1>1, <2>1, Continues, NoPushSound DEF Pushed
  <2>2. CASE StampCoolOff(p)
    BY <2>2, NoPushSound DEF StampCoolOff
  <2>. QED
    BY <2>1, <2>2
<1>3. /\ UNCHANGED << world, events, refresher, currentConfig, held >>
      /\ syncSuccess' \in BOOLEAN /\ isInCoolOff' \in BOOLEAN /\ coolOffOver' \in BOOLEAN
  BY DEF Pushed, StampCoolOff, Inv, TypeOK
<1>. QED
  BY <1>2, <1>3, GoroutineInv DEF Inv, TypeOK

\* An editor, an outage, an election, the passing of time.
LEMMA SurroundingsInv ==
  ASSUME Inv,
         \/ \E f \in DOMAIN Files : EditBegins(f) \/ EditEnds(f)
         \/ Cut \/ Heal \/ LeaderChanges \/ CoolOffElapses
  PROVE  Inv'
<1>1. ASSUME NEW f \in DOMAIN Files, EditBegins(f) \/ EditEnds(f)
      PROVE  Inv'
  <2>1. files' \in [DOMAIN Files -> Config \cup {Broken, Unreadable}] /\ edits' \in Nat
    BY <1>1, ArbiterAssumption DEF EditBegins, EditEnds, Inv, TypeOK
  <2>2. events' \in Nat
    BY <1>1 DEF EditBegins, EditEnds, Seen, Inv, TypeOK
  <2>3. UNCHANGED << cut, leader, restarts, refresher, currentConfig, isInCoolOff, coolOffOver,
                     pusher, syncSuccess, held >>
    BY <1>1 DEF EditBegins, EditEnds
  <2>. QED
    BY <2>1, <2>2, <2>3, ElsewhereInv DEF Inv, TypeOK
<1>2. CASE Cut \/ Heal
  <2>1. cut' \subseteq 1 .. N
    BY <1>2, ArbiterAssumption DEF Cut, Heal
  <2>2. UNCHANGED << files, edits, events, leader, restarts, refresher, currentConfig, isInCoolOff,
                     coolOffOver, pusher, syncSuccess, held >>
    BY <1>2 DEF Cut, Heal
  <2>. QED
    BY <2>1, <2>2, ElsewhereInv DEF Inv, TypeOK
<1>3. CASE LeaderChanges
  <2>1. leader' \in BOOLEAN
    BY <1>3 DEF LeaderChanges
  <2>2. UNCHANGED << files, edits, events, cut, restarts, refresher, currentConfig, isInCoolOff,
                     coolOffOver, pusher, syncSuccess, held >>
    BY <1>3 DEF LeaderChanges
  <2>. QED
    BY <2>1, <2>2, ElsewhereInv DEF Inv, TypeOK
<1>4. CASE CoolOffElapses
  <2>1. coolOffOver' \in BOOLEAN
    BY <1>4 DEF CoolOffElapses
  <2>2. UNCHANGED << files, edits, events, leader, cut, restarts, refresher, currentConfig,
                     isInCoolOff, pusher, syncSuccess, held >>
    BY <1>4 DEF CoolOffElapses, world
  <2>. QED
    BY <2>1, <2>2, ElsewhereInv DEF Inv, TypeOK
<1>. QED
  BY <1>1, <1>2, <1>3, <1>4

LEMMA RestartInv ==
  ASSUME Inv, Restart
  PROVE  Inv'
<1>1. Fresh \in [Refreshers -> Refresher]
  BY FreshType
<1>2. pusher' \in [Pushers -> Pusher] /\ \A p \in Pushers : Sound(pusher'[p])
  BY NoPushSound DEF Restart, Sound
<1>3. TypeOK'
  <2>1. /\ files' \in [DOMAIN Files -> Config \cup {Broken, Unreadable}]
        /\ held' \in [1 .. N -> Shard] /\ cut' \subseteq 1 .. N /\ edits' \in Nat
    BY DEF Restart, Inv, TypeOK
  <2>2. refresher' \in [Refreshers -> Refresher] /\ currentConfig' \in Config
    BY <1>1, NoConfigType DEF Restart
  <2>3. leader' \in BOOLEAN
    BY Zenon, LeaderType DEF Restart
  <2>4. syncSuccess' \in BOOLEAN /\ isInCoolOff' \in BOOLEAN /\ coolOffOver' \in BOOLEAN
    BY Zenon DEF Restart
  <2>5. events' = 0 /\ restarts' = restarts + 1 /\ restarts \in Nat
    BY Zenon DEF Restart, Inv, TypeOK
  <2>. QED
    BY <1>2, <2>1, <2>2, <2>3, <2>4, <2>5 DEF TypeOK
<1>4. ServicesWithHosts'
  BY DEF Restart, Inv, ServicesWithHosts, WithTheirHosts
<1>. QED
  BY <1>2, <1>3, <1>4 DEF Inv, Sound, Counts, Carries

LEMMA NextInv == Inv /\ [Next]_vars => Inv'
<1>. SUFFICES ASSUME Inv, [Next]_vars PROVE Inv'
  OBVIOUS
<1>1. ASSUME NEW r \in Refreshers, Refresh(r) PROVE Inv'
  <2>1. CASE Clear(r)
    <3>1. refresher' \in [Refreshers -> Refresher] /\ isInCoolOff' \in BOOLEAN
      BY <2>1, CallerTypes DEF Clear, Inv
    <3>2. UNCHANGED << files, edits, events, leader, cut, restarts, currentConfig, coolOffOver,
                       pusher, syncSuccess, held >>
      BY <2>1 DEF Clear, world
    <3>. QED
      BY <3>1, <3>2, ElsewhereInv DEF Inv, TypeOK
  <2>. QED
    BY <1>1, <2>1, BeginInv, ReadFileInv, FinishInv DEF Refresh
<1>2. ASSUME NEW p \in Pushers, Push(p) PROVE Inv'
  BY <1>2, PostInv, PushedInv DEF Push
<1>3. CASE UNCHANGED vars
  BY <1>3 DEF vars, Inv, TypeOK, Sound, Counts, Carries, ServicesWithHosts, WithTheirHosts
<1>. QED
  BY <1>1, <1>2, <1>3, SurroundingsInv, RestartInv DEF Next

-----------------------------------------------------------------------------
\* Types hold for any files and any number of Schedulers, callers and goroutines: a
\* goroutine has no Scheduler past the last, no attempt past the third and no more
\* successes than Schedulers, and the hot reload loop takes no event that is not there.
THEOREM Typing == Spec => []TypeOK
<1>1. Inv => TypeOK
  BY DEF Inv
<1>. QED
  BY <1>1, InitInv, NextInv, PTL DEF Spec

\* Whatever is read, pushed, lost, taken twice or overtaken: no Scheduler ever has a
\* service without its host.
THEOREM HostsGoAlong == Spec => []ServicesWithHosts
<1>1. Inv => ServicesWithHosts
  BY DEF Inv
<1>. QED
  BY <1>1, InitInv, NextInv, PTL DEF Spec

-----------------------------------------------------------------------------
(* Once the Schedulers have what the files say, and all that is under way   *)
(* works with what they say.                                                *)

Wanted == Process(Joined)

\* A refresh has what the files it has read hold, a push has the result of them all.
Reads(caller) == caller.pc = "loading" => caller.raw = Joining(files)[caller.read]
Pushes(push) == push.pc # "idle" => push.cfg = Wanted

Agreed ==
  /\ Readable
  /\ currentConfig = Wanted
  /\ Accepted(Wanted) => held = Partition(Wanted, N)
  /\ \A r \in Refreshers : Reads(refresher[r])
  /\ \A p \in Pushers : Pushes(pusher[p])

\* sync_ok says so, and no push under way has failed.
Unfailed(push) == push.pc # "idle" => push.pc = "pushing" /\ push.to = push.ok + 1
InSync ==
  /\ syncSuccess <=> Accepted(Wanted)
  /\ \A p \in Pushers : Unfailed(pusher[p])

LEMMA ReadableFiles ==
  ASSUME TypeOK, Readable
  PROVE  files \in Seq(Config) /\ Len(files) = Len(Files)
<1>1. files \in [1 .. Len(Files) -> Config] /\ Len(Files) \in Nat
  BY ArbiterAssumption DEF TypeOK, Readable
<1>. QED
  BY <1>1

\* A caller that has done nothing, or begins, has read nothing.
LEMMA CallersRead ==
  ASSUME TypeOK, Agreed, NEW r \in Refreshers, NEW x \in Refreshers
  PROVE  /\ Reads(Returned(r)[x])
         /\ \A pc \in {"clearing", "loading"} : Reads(At(r, pc)[x])
<1>1. Joining(files)[0] = NoConfig
  BY ReadableFiles, JoiningUnfolds DEF Agreed
<1>2. Reads(refresher[x])
  BY DEF Agreed
<1>3. Reads(Ready)
  BY DEF Reads, Ready
<1>4. Reads(Returned(r)[x])
  BY <1>2, <1>3 DEF Returned
<1>5. ASSUME NEW pc \in {"clearing", "loading"}
      PROVE  Reads(At(r, pc)[x])
  <2>1. CASE x = r
    <3>. DEFINE y == [[[refresher[r] EXCEPT !.pc = pc] EXCEPT !.read = 0] EXCEPT !.raw = NoConfig]
    <3>1. refresher[r] \in Refresher
      BY DEF TypeOK
    <3>2. y.read = 0 /\ y.raw = NoConfig
      BY <3>1 DEF Refresher
    <3>3. At(r, pc)[x] = y
      BY <2>1 DEF At, TypeOK
    <3>. HIDE DEF y
    <3>. QED
      BY <1>1, <3>2, <3>3 DEF Reads
  <2>2. CASE x # r
    <3>1. At(r, pc)[x] = refresher[x]
      BY <2>2 DEF At, TypeOK
    <3>. QED
      BY <1>2, <3>1
  <2>. QED
    BY <2>1, <2>2
<1>. QED
  BY <1>4, <1>5

\* What a step must leave: the configuration, what the Schedulers have, and what the
\* refreshes and pushes under way work with.
LEMMA AgreedElsewhere ==
  ASSUME Agreed, UNCHANGED << files, held >>, currentConfig' \in {currentConfig, Wanted},
         \A r \in Refreshers : Reads(refresher'[r]),
         \A p \in Pushers : Pushes(pusher'[p])
  PROVE  Agreed'
<1>1. Joining(files)' = Joining(files)
  OBVIOUS
<1>2. Wanted' = Wanted
  BY <1>1 DEF Wanted, Joined
<1>3. Readable'
  BY DEF Agreed, Readable
<1>. QED
  BY <1>1, <1>2, <1>3 DEF Agreed, Reads, Pushes

LEMMA ReadingAgrees ==
  ASSUME Inv, Agreed, NEW r \in Refreshers, ReadFile(r)
  PROVE  Agreed'
<1>. DEFINE f == refresher[r].read + 1
            raw == Appended(refresher[r].raw, files[f])
<1>1. TypeOK /\ Readable
  BY DEF Inv, Agreed
<1>2. refresher[r].pc = "loading" /\ f \in DOMAIN Files
  BY Zenon DEF ReadFile
<1>3. files[f] \notin {Broken, Unreadable}
  BY <1>1, <1>2 DEF Readable
<1>4. refresher' = [refresher EXCEPT ![r].read = f, ![r].raw = Appended(@, files[f])]
  BY <1>3 DEF ReadFile
<1>5. refresher \in [Refreshers -> Refresher] /\ refresher[r] \in Refresher
  BY <1>1 DEF TypeOK
<1>6. f \in 1 .. Len(Files) /\ f - 1 = refresher[r].read
  BY <1>2, <1>5, ArbiterAssumption DEF Refresher
<1>7. raw = Joining(files)[f]
  <2>1. refresher[r].raw = Joining(files)[f - 1]
    BY <1>2, <1>6 DEF Agreed, Reads
  <2>. QED
    BY <1>1, <1>6, <2>1, ReadableFiles, JoiningUnfolds
<1>8. refresher' = [refresher EXCEPT ![r] = [[@ EXCEPT !.read = f] EXCEPT !.raw = raw]]
  <2>. HIDE DEF f
  <2>. QED
    BY <1>4, <1>5 DEF Refresher
<1>. HIDE DEF f, raw
<1>9. Reads(refresher'[r])
  <2>. DEFINE y == [[refresher[r] EXCEPT !.read = f] EXCEPT !.raw = raw]
  <2>1. y.read = f /\ y.raw = raw
    BY <1>5 DEF Refresher
  <2>2. refresher'[r] = y
    BY <1>5, <1>8
  <2>. HIDE DEF y
  <2>. QED
    BY <1>7, <2>1, <2>2 DEF Reads
<1>10. ASSUME NEW x \in Refreshers
       PROVE  Reads(refresher'[x])
  <2>1. CASE x = r
    BY <1>9, <2>1
  <2>2. CASE x # r
    BY <1>8, <2>2 DEF Agreed
  <2>. QED
    BY <2>1, <2>2
<1>11. UNCHANGED << files, currentConfig, held, pusher >>
  BY DEF ReadFile, world
<1>. QED
  BY <1>10, <1>11, AgreedElsewhere DEF Agreed

LEMMA FinishAgrees ==
  ASSUME Inv, Agreed, NEW r \in Refreshers, Finish(r)
  PROVE  Agreed'
<1>1. Process(refresher[r].raw) = Wanted
  <2>1. refresher[r].raw = Joined
    BY DEF Finish, Agreed, Reads, Joined
  <2>. QED
    BY <2>1 DEF Wanted
<1>2. currentConfig' = Wanted /\ refresher' = Returned(r) /\ UNCHANGED << files, held >>
  BY <1>1 DEF Finish, world
<1>3. \A x \in Refreshers : Reads(refresher'[x])
  BY <1>2, CallersRead DEF Inv
<1>4. Pushes(PushOf(Wanted))
  BY DEF Pushes, PushOf
<1>5. \A p \in Pushers : pusher'[p] = pusher[p] \/ pusher'[p] = PushOf(Wanted)
  BY <1>1 DEF Finish, Inv, TypeOK
<1>6. \A p \in Pushers : Pushes(pusher'[p])
  BY <1>4, <1>5 DEF Agreed
<1>. QED
  BY <1>2, <1>3, <1>6, AgreedElsewhere

\* A retry or an answer goes on with the same shards.
LEMMA PushesOn ==
  ASSUME NEW push \in Pusher, Pushes(push)
  PROVE  /\ Pushes(Answered(push)) /\ Pushes(Failed(push))
         /\ push.pc # "idle" => Pushes([push EXCEPT !.pc = "entering"])
         /\ Pushes(NoPush)
<1>1. Answered(push).pc = push.pc /\ Answered(push).cfg = push.cfg
  BY DEF Answered, Pusher
<1>2. Failed(push).pc = push.pc /\ Failed(push).cfg = push.cfg
  BY DEF Failed, Pusher
<1>3. [push EXCEPT !.pc = "entering"].cfg = push.cfg
  BY DEF Pusher
<1>4. Pushes(Answered(push)) /\ Pushes(Failed(push))
  BY <1>1, <1>2 DEF Pushes
<1>5. push.pc # "idle" => Pushes([push EXCEPT !.pc = "entering"])
  BY <1>3 DEF Pushes
<1>6. Pushes(NoPush)
  BY DEF Pushes, NoPush
<1>. QED
  BY <1>4, <1>5, <1>6

LEMMA PostAgrees ==
  ASSUME Inv, Agreed, NEW p \in Pushers, Post(p)
  PROVE  Agreed'
<1>. DEFINE to == pusher[p].to
            taken == [held EXCEPT ![to] = Partition(pusher[p].cfg, N)[to]]
<1>1. /\ pusher[p] \in Pusher /\ Sound(pusher[p]) /\ pusher[p].pc # "idle" /\ to \in 1 .. N
      /\ held \in [1 .. N -> Shard] /\ pusher \in [Pushers -> Pusher]
  BY ArbiterAssumption DEF Post, Inv, TypeOK, Pusher
<1>2. pusher[p].cfg = Wanted /\ held = Partition(Wanted, N)
  BY <1>1 DEF Agreed, Pushes, Sound, Carries
<1>3. taken = held
  BY <1>1, <1>2
<1>4. held' \in {held, taken}
  BY DEF Post
<1>5. pusher' = [pusher EXCEPT ![p] = Answered(@)] \/ pusher' = [pusher EXCEPT ![p] = Failed(@)]
  BY DEF Post
<1>6. \A q \in Pushers : Pushes(pusher'[q])
  <2>1. Pushes(Answered(pusher[p])) /\ Pushes(Failed(pusher[p]))
    BY <1>1, PushesOn DEF Agreed
  <2>. QED
    BY <1>1, <1>5, <2>1 DEF Agreed
<1>7. UNCHANGED << files, currentConfig, refresher >>
  BY DEF Post, world
<1>. QED
  BY <1>3, <1>4, <1>6, <1>7, AgreedElsewhere DEF Agreed

LEMMA PushedAgrees ==
  ASSUME Inv, Agreed, NEW p \in Pushers, Pushed(p) \/ StampCoolOff(p)
  PROVE  Agreed'
<1>1. pusher[p] \in Pusher /\ pusher \in [Pushers -> Pusher] /\ Pushes(pusher[p])
  BY DEF Inv, TypeOK, Agreed
<1>2. PICK next : Pushes(next) /\ pusher' = [pusher EXCEPT ![p] = next]
  <2>1. CASE Pushed(p)
    <3>1. pusher[p].pc # "idle"
      BY <2>1 DEF Pushed
    <3>. QED
      BY <1>1, <2>1, <3>1, PushesOn DEF Pushed
  <2>2. CASE StampCoolOff(p)
    BY <1>1, <2>2, PushesOn DEF StampCoolOff
  <2>. QED
    BY <2>1, <2>2
<1>3. \A q \in Pushers : Pushes(pusher'[q])
  BY <1>1, <1>2 DEF Agreed
<1>4. UNCHANGED << files, held, currentConfig, refresher >>
  BY DEF Pushed, StampCoolOff, world
<1>. QED
  BY <1>3, <1>4, AgreedElsewhere DEF Agreed

LEMMA AgreedStep ==
  ASSUME Inv, Agreed, [Next]_vars, UNCHANGED << files, restarts >>
  PROVE  Agreed'
<1>1. ASSUME NEW r \in Refreshers, Begin(r) \/ Clear(r) PROVE Agreed'
  <2>1. \/ UNCHANGED refresher
        \/ refresher' = Returned(r)
        \/ \E pc \in {"clearing", "loading"} : refresher' = At(r, pc)
    BY <1>1 DEF Begin, Clear
  <2>2. \A x \in Refreshers : Reads(refresher'[x])
    BY <2>1, CallersRead DEF Inv, Agreed
  <2>3. UNCHANGED << files, held, currentConfig, pusher >>
    BY <1>1 DEF Begin, Clear, world
  <2>. QED
    BY <2>2, <2>3, AgreedElsewhere DEF Agreed
<1>2. ASSUME NEW r \in Refreshers, Refresh(r) PROVE Agreed'
  BY <1>1, <1>2, ReadingAgrees, FinishAgrees DEF Refresh
<1>3. ASSUME NEW p \in Pushers, Push(p) PROVE Agreed'
  BY <1>3, PostAgrees, PushedAgrees DEF Push
<1>4. ASSUME UNCHANGED << files, held, currentConfig, refresher, pusher >> PROVE Agreed'
  BY <1>4, AgreedElsewhere DEF Agreed
<1>5. CASE CoolOffElapses \/ Cut \/ Heal \/ LeaderChanges \/ UNCHANGED vars
  BY <1>4, <1>5 DEF CoolOffElapses, Cut, Heal, LeaderChanges, vars, world
<1>6. CASE \E f \in DOMAIN Files : EditBegins(f) \/ EditEnds(f)
  BY <1>4, <1>6 DEF EditBegins, EditEnds
<1>7. CASE Restart
  BY <1>7 DEF Restart, Inv, TypeOK
<1>. QED
  BY <1>2, <1>3, <1>5, <1>6, <1>7 DEF Next


\* While the Schedulers answer, no push fails, and the next one says so again.
LEMMA PostInSync ==
  ASSUME Inv, InSync, NEW p \in Pushers, Post(p), cut = {}
  PROVE  \E push : Unfailed(push) /\ pusher' = [pusher EXCEPT ![p] = push]
<1>1. PICK pc \in {"idle", "pushing", "entering"}, cfg \in Config, to \in 1 .. N + 1,
           attempt \in 1 .. MaxAttempts, ok \in 0 .. N :
         pusher[p] = [pc |-> pc, cfg |-> cfg, to |-> to, attempt |-> attempt, ok |-> ok]
  BY DEF Inv, TypeOK, Pusher
<1>2. pusher' = [pusher EXCEPT ![p] = Answered(@)]
  BY DEF Post
<1>3. pc = "pushing" /\ to = ok + 1
  BY <1>1 DEF InSync, Unfailed, Post
<1>4. /\ Answered(pusher[p]).pc = "pushing" /\ Answered(pusher[p]).to = to + 1
      /\ Answered(pusher[p]).ok = ok + 1
  BY <1>1, <1>3 DEF Answered
<1>5. Unfailed(Answered(pusher[p]))
  BY <1>3, <1>4 DEF Unfailed
<1>. QED
  BY <1>2, <1>5

LEMMA InSyncStep ==
  ASSUME Inv, Agreed, InSync, [Next]_vars, UNCHANGED << files, restarts >>, cut = {}
  PROVE  InSync'
<1>1. Wanted' = Wanted
  BY DEF Wanted, Joined
<1>2. pusher \in [Pushers -> Pusher] /\ Unfailed(NoPush)
  BY DEF Inv, TypeOK, Unfailed, NoPush
<1>3. ASSUME UNCHANGED << pusher, syncSuccess >> PROVE InSync'
  BY <1>1, <1>3 DEF InSync
<1>4. ASSUME NEW p \in Pushers, NEW push, Unfailed(push), pusher' = [pusher EXCEPT ![p] = push],
             syncSuccess' <=> Accepted(Wanted)
      PROVE  InSync'
  <2>1. \A q \in Pushers : Unfailed(pusher'[q])
    BY <1>2, <1>4 DEF InSync
  <2>. QED
    BY <1>1, <1>4, <2>1 DEF InSync, Unfailed
<1>5. ASSUME NEW r \in Refreshers, Finish(r) PROVE InSync'
  <2>1. Process(refresher[r].raw) = Wanted
    <3>1. refresher[r].raw = Joined
      BY <1>5 DEF Finish, Agreed, Reads, Joined
    <3>. QED
      BY <3>1 DEF Wanted
  <2>2. \/ UNCHANGED pusher /\ (syncSuccess' = syncSuccess \/ (~Accepted(Wanted) /\ syncSuccess' = FALSE))
        \/ /\ UNCHANGED syncSuccess
           /\ \E p \in Pushers : pusher' = [pusher EXCEPT ![p] = PushOf(Wanted)]
    BY <1>5, <2>1 DEF Finish
  <2>3. Unfailed(PushOf(Wanted))
    BY DEF Unfailed, PushOf
  <2>4. ASSUME UNCHANGED pusher, syncSuccess' <=> Accepted(Wanted) PROVE InSync'
    BY <1>1, <2>4 DEF InSync
  <2>. QED
    BY <1>4, <2>2, <2>3, <2>4 DEF InSync
<1>6. ASSUME NEW p \in Pushers, Push(p) PROVE InSync'
  <2>1. CASE Post(p)
    BY <1>4, <2>1, PostInSync DEF Post, InSync
  <2>2. CASE Pushed(p)
    <3>1. /\ pusher[p] \in Pusher /\ pusher[p].pc = "pushing" /\ pusher[p].to > N
          /\ pusher[p].to = pusher[p].ok + 1
      BY <1>2, <2>2 DEF Pushed, InSync, Unfailed
    <3>2. pusher[p].ok = N /\ N > 0
      BY <3>1, ArbiterAssumption DEF Pusher
    <3>3. pusher' = [pusher EXCEPT ![p] = NoPush] /\ syncSuccess'
      <4>1. pusher[p].ok # 0
        BY <3>2, ArbiterAssumption
      <4>2. /\ pusher' = [pusher EXCEPT ![p] = NoPush]
            /\ syncSuccess' = (pusher[p].ok = N)
        BY <2>2, <4>1, Zenon DEF Pushed
      <4>. QED
        BY <3>2, <4>2, Zenon
    <3>4. Accepted(Wanted)
      BY <3>1 DEF Inv, Sound, Carries, Agreed, Pushes
    <3>. QED
      BY <1>2, <1>4, <3>3, <3>4
  <2>3. ~StampCoolOff(p)
    BY DEF StampCoolOff, InSync, Unfailed
  <2>. QED
    BY <1>6, <2>1, <2>2, <2>3 DEF Push
<1>7. CASE \/ \E r \in Refreshers : Begin(r) \/ Clear(r) \/ ReadFile(r)
           \/ CoolOffElapses \/ Cut \/ Heal \/ LeaderChanges \/ UNCHANGED vars
           \/ \E f \in DOMAIN Files : EditBegins(f) \/ EditEnds(f)
  <2>1. UNCHANGED << pusher, syncSuccess >>
    BY <1>7 DEF Begin, Clear, ReadFile, CoolOffElapses, Cut, Heal, LeaderChanges, vars,
                EditBegins, EditEnds
  <2>. QED
    BY <1>3, <2>1
<1>8. CASE Restart
  BY <1>8 DEF Restart, Inv, TypeOK
<1>. QED
  BY <1>5, <1>6, <1>7, <1>8 DEF Next, Refresh

\* From the moment when this node and the Schedulers have what the files say, and what is
\* under way works with it, nothing but an edit or a restart makes them differ: no
\* outage, no attempt that is repeated or taken twice, no change of leader, no overlap of
\* refreshes or pushes, no cool-off.
THEOREM AgreementStays ==
  Spec => [][Agreed /\ UNCHANGED << files, restarts >> => Agreed']_vars
<1>1. Inv /\ [Next]_vars => [Agreed /\ UNCHANGED << files, restarts >> => Agreed']_vars
  BY AgreedStep
<1>. QED
  BY <1>1, InitInv, NextInv, PTL DEF Spec

\* As long as the Schedulers can be reached as well, sync_ok goes on saying so: this is
\* the part of Converges that forbids, without the part that progresses.
THEOREM SettledStays ==
  Spec => [][Agreed /\ InSync /\ cut = {} /\ UNCHANGED << files, restarts >>
               => (Agreed /\ InSync /\ Settled(Wanted))']_vars
<1>1. Agreed /\ InSync => Settled(Wanted)
  BY DEF Agreed, InSync, Settled
<1>2. (Agreed /\ InSync => Settled(Wanted))'
  BY DEF Agreed, InSync, Settled
<1>3. Inv /\ [Next]_vars => [Agreed /\ InSync /\ cut = {} /\ UNCHANGED << files, restarts >>
                               => (Agreed /\ InSync /\ Settled(Wanted))']_vars
  BY <1>2, AgreedStep, InSyncStep
<1>. QED
  BY <1>3, InitInv, NextInv, PTL DEF Spec

=============================================================================
