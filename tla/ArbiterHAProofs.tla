---------------------------- MODULE ArbiterHAProofs ----------------------------
(* Theorems about a cluster of Arbiters, for any number of nodes, files and events. *)
EXTENDS ArbiterHA, TLAPS

\* A list that says of itself how far it follows the log.
Follows(list, index) == index <= Len(log) /\ list = SubSeq(log, 1, index)

\* What a state machine has, what it has written, and what it is about to write are
\* beginnings of the log: a restart or a node that lags takes any of them up.
LogInv ==
  ha => \A n \in Nodes :
          /\ Follows(downtimes[n], applied[n])
          /\ Follows(snapshot[n].downtimes, snapshot[n].index)
          /\ taking[n] # None => Follows(taking[n].downtimes, taking[n].index)

\* What is recorded of a node is of its present term as leader, without an extraction.
Recorded(n, f) == leader = n /\ ~Extracting(n) /\ files[n][f] = written[n][f]

\* And a file is open only where an archive is extracted.
EditInv ==
  /\ \A n \in Nodes, f \in Files : written[n][f] # None => Recorded(n, f)
  /\ \A t \in transfers : t.open => t.next > 0

-----------------------------------------------------------------------------
(* Types.                                                                   *)

LEMMA FilesType == Files = 1 .. Len(FileNames) /\ Len(FileNames) \in Nat /\ 1 \in Files
BY ArbiterHAAssumption DEF Files

LEMMA NodesListed ==
  ASSUME NEW n \in Nodes
  PROVE  /\ ClusterNodes[n] \in Seq(Nodes) /\ Len(ClusterNodes[n]) \in Nat
         /\ DOMAIN ClusterNodes[n] = 1 .. Len(ClusterNodes[n])
         /\ ClusterNodes[n] # << >> => Len(ClusterNodes[n]) >= 1
BY ArbiterHAAssumption

LEMMA UnwrittenType == Unwritten \in [Files -> Content \cup {None}]
BY DEF Unwritten

LEMMA InitType ==
  ASSUME Init
  PROVE  TypeOK
<1>1. ha \in BOOLEAN /\ files \in [Nodes -> [Files -> Content]]
  BY ArbiterHAAssumption DEF Init, Content
<1>2. \A n \in Nodes : joining[n] <= Len(ClusterNodes[n])
  BY NodesListed DEF Init
<1>3. NoSnapshot \in Snapshot
  BY DEF NoSnapshot, Snapshot
<1> QED
  BY <1>1, <1>2, <1>3, UnwrittenType DEF Init, TypeOK

LEMMA MembershipType ==
  ASSUME TypeOK, NEW n \in Nodes, Start(n) \/ Join(n) \/ Elect(n) \/ StepDown
  PROVE  TypeOK'
<1>1. CASE Start(n)
  <2>1. snapshot[n] \in Snapshot
    BY DEF TypeOK
  <2>2. snapshot[n].index \in Nat /\ snapshot[n].downtimes \in Seq(Nat)
    BY <2>1 DEF Snapshot
  <2>3. voters' \subseteq Nodes /\ up' \subseteq Nodes
    BY <1>1 DEF Start, TypeOK
  <2>4. joining' \in [Nodes -> Nat] /\ \A m \in Nodes : joining'[m] <= Len(ClusterNodes[m])
    BY <1>1, NodesListed DEF Start, TypeOK
  <2> QED
    BY <1>1, <2>2, <2>3, <2>4 DEF Start, TypeOK, fileVars
<1>2. CASE Join(n)
  <2>1. voters' \subseteq Nodes /\ events' \in Nat
    BY <1>2 DEF Join, Event, TypeOK
  <2>2. joining[n] \in Nat /\ Len(ClusterNodes[n]) \in Nat
    BY NodesListed DEF TypeOK
  <2>3. AskNext(n) \in 0 .. Len(ClusterNodes[n]) /\ 0 \in 0 .. Len(ClusterNodes[n])
    BY <2>2 DEF AskNext
  <2>4. PICK next \in 0 .. Len(ClusterNodes[n]) : joining' = [joining EXCEPT ![n] = next]
    BY <1>2, <2>3 DEF Join
  <2>5. next \in Nat /\ next <= Len(ClusterNodes[n])
    BY <2>2
  <2>6. joining' \in [Nodes -> Nat] /\ \A m \in Nodes : joining'[m] <= Len(ClusterNodes[m])
    BY <2>4, <2>5 DEF TypeOK
  <2> QED
    BY <1>2, <2>1, <2>6 DEF Join, TypeOK, fsmVars, fileVars
<1>3. CASE Elect(n)
  BY <1>3 DEF Elect, TypeOK, fsmVars, fileVars
<1>4. CASE StepDown
  BY <1>4, UnwrittenType DEF StepDown, Event, TypeOK, fsmVars
<1> QED
  BY <1>1, <1>2, <1>3, <1>4

LEMMA CrashType ==
  ASSUME TypeOK, NEW n \in Nodes, Crash(n)
  PROVE  TypeOK'
<1>1. joining' \in [Nodes -> Nat] /\ \A m \in Nodes : joining'[m] <= Len(ClusterNodes[m])
  BY NodesListed DEF Crash, TypeOK
<1> QED
  BY <1>1, UnwrittenType DEF Crash, Event, TypeOK

LEMMA DowntimeType ==
  ASSUME TypeOK, NEW n \in Nodes,
         \/ PostDowntime(n) \/ Apply(n) \/ \E d \in flight : Commit(d) \/ Drop(d)
  PROVE  TypeOK'
<1>1. CASE PostDowntime(n)
  <2>1. posted + 1 \in Nat /\ events' \in Nat
    BY <1>1 DEF PostDowntime, Event, TypeOK
  <2>2. flight' \subseteq Nat
    BY <1>1, <2>1 DEF PostDowntime, TypeOK
  <2>3. Append(downtimes[n], posted + 1) \in Seq(Nat)
    BY <2>1 DEF TypeOK
  <2>4. downtimes' \in [Nodes -> Seq(Nat)]
    BY <1>1, <2>3 DEF PostDowntime, TypeOK
  <2> QED
    BY <1>1, <2>1, <2>2, <2>4 DEF PostDowntime, TypeOK, raftVars, fileVars
<1>2. CASE Apply(n)
  <2>1. applied[n] + 1 \in DOMAIN log /\ log \in Seq(Nat)
    BY <1>2 DEF Apply, TypeOK
  <2>2. log[applied[n] + 1] \in Nat
    BY <2>1
  <2>3. WithNext(n) \in Seq(Nat)
    BY <2>2 DEF WithNext, TypeOK
  <2> QED
    BY <1>2, <2>3 DEF Apply, TypeOK, raftVars, fileVars
<1>3. ASSUME NEW d \in flight, Commit(d) PROVE TypeOK'
  BY <1>3 DEF Commit, TypeOK, fileVars
<1>4. ASSUME NEW d \in flight, Drop(d) PROVE TypeOK'
  BY <1>4 DEF Drop, TypeOK, raftVars, fileVars
<1> QED
  BY <1>1, <1>2, <1>3, <1>4

LEMMA SnapshotType ==
  ASSUME TypeOK, NEW n \in Nodes, TakeSnapshot(n) \/ Persist(n) \/ InstallSnapshot(n)
  PROVE  TypeOK'
<1>1. CASE TakeSnapshot(n)
  <2>1. [index |-> applied[n], downtimes |-> downtimes[n]] \in Snapshot
    BY DEF TypeOK, Snapshot
  <2> QED
    BY <1>1, <2>1 DEF TakeSnapshot, TypeOK, raftVars, fileVars
<1>2. CASE Persist(n)
  BY <1>2 DEF Persist, Persisted, TypeOK, raftVars, fileVars
<1>3. CASE InstallSnapshot(n)
  <2>1. snapshot[leader] \in Snapshot
    BY <1>3 DEF InstallSnapshot, Informed, TypeOK
  <2>2. snapshot[leader].index \in Nat /\ snapshot[leader].downtimes \in Seq(Nat)
    BY <2>1 DEF Snapshot
  <2> QED
    BY <1>3, <2>1, <2>2 DEF InstallSnapshot, TypeOK, raftVars, fileVars
<1> QED
  BY <1>1, <1>2, <1>3

LEMMA MovedType ==
  ASSUME TypeOK, NEW t \in transfers, NEW next \in 0 .. Len(FileNames), NEW open \in BOOLEAN
  PROVE  Moved(t, next, open) \subseteq Transfer
BY DEF Moved, Transfer, TypeOK

LEMMA BeyondType ==
  ASSUME TypeOK, NEW t \in transfers
  PROVE  Beyond(t) \subseteq Transfer
<1>1. t.next \in 0 .. Len(FileNames) /\ Len(FileNames) \in Nat
  BY FilesType DEF TypeOK, Transfer
<1>2. CASE t.next = Len(FileNames)
  BY <1>2 DEF Beyond, TypeOK
<1>3. CASE t.next # Len(FileNames)
  <2>1. t.next + 1 \in 0 .. Len(FileNames)
    BY <1>1, <1>3
  <2> QED
    BY <1>3, <2>1, MovedType DEF Beyond
<1> QED
  BY <1>2, <1>3

LEMMA FileType ==
  ASSUME TypeOK, NEW n \in Nodes,
         BroadcastToFollowers(n) \/ \E f \in Files : Edit(n, f)
  PROVE  TypeOK'
<1>1. CASE BroadcastToFollowers(n)
  <2>1. ArchivesOf(n) \subseteq Transfer
    <3>1. files[n] \in [Files -> Content] /\ 0 \in 0 .. Len(FileNames)
      BY FilesType DEF TypeOK
    <3>2. \A i \in DOMAIN ClusterNodes[n] : ClusterNodes[n][i] \in Nodes
      BY NodesListed
    <3> QED
      <4>1. SUFFICES ASSUME NEW i \in DOMAIN ClusterNodes[n]
                     PROVE  [to |-> ClusterNodes[n][i], archive |-> files[n],
                             next |-> 0, open |-> FALSE] \in Transfer
        BY DEF ArchivesOf
      <4> QED
        BY <3>1, <3>2 DEF Transfer
  <2> QED
    BY <1>1, <2>1 DEF BroadcastToFollowers, TypeOK, raftVars, fsmVars
<1>2. ASSUME NEW f \in Files, Edit(n, f) PROVE TypeOK'
  <2>1. PICK c \in Contents \cup {Gone} :
          /\ files' = [files EXCEPT ![n][f] = c]
          /\ written' = IF leader = n /\ ~Extracting(n) THEN [written EXCEPT ![n][f] = c] ELSE written
    BY <1>2 DEF Edit
  <2>2. files' \in [Nodes -> [Files -> Content]]
    BY <2>1 DEF TypeOK, Content
  <2>3. written' \in [Nodes -> [Files -> Content \cup {None}]]
    BY <2>1 DEF TypeOK, Content
  <2> QED
    BY <1>2, <2>2, <2>3 DEF Edit, Event, TypeOK, raftVars, fsmVars
<1> QED
  BY <1>1, <1>2

LEMMA TransferType ==
  ASSUME TypeOK, NEW t \in transfers, Answer(t) \/ Truncate(t) \/ Write(t) \/ BreakOff(t)
  PROVE  TypeOK'
<1>1. /\ t \in Transfer /\ t.to \in Nodes /\ t.archive \in [Files -> Content]
      /\ t.next \in 0 .. Len(FileNames)
  BY DEF TypeOK, Transfer
<1>2. CASE Answer(t)
  <2>1. 1 \in 0 .. Len(FileNames)
    BY FilesType
  <2>2. transfers' \subseteq Transfer
    BY <1>2, <2>1, MovedType DEF Answer, TypeOK
  <2> QED
    BY <1>2, <2>2 DEF Answer, TypeOK, raftVars, fsmVars
<1>3. CASE Truncate(t)
  <2>1. transfers' \subseteq Transfer
    BY <1>1, <1>3, BeyondType, MovedType DEF Truncate
  <2>2. files' \in [Nodes -> [Files -> Content]]
    <3>1. CASE UNCHANGED files
      BY <3>1 DEF TypeOK
    <3>2. CASE files' = [files EXCEPT ![t.to][t.next] = Torn]
      BY <1>1, <3>2 DEF TypeOK, Content
    <3> QED
      BY <1>3, <3>1, <3>2 DEF Truncate
  <2> QED
    BY <1>3, <2>1, <2>2 DEF Truncate, TypeOK, raftVars, fsmVars
<1>4. CASE Write(t)
  <2>1. transfers' \subseteq Transfer
    BY <1>4, BeyondType DEF Write
  <2>2. files' \in [Nodes -> [Files -> Content]]
    <3>1. CASE t.next \in Files
      BY <1>1, <1>4, <3>1 DEF Write, TypeOK
    <3>2. CASE t.next \notin Files
      BY <1>4, <3>2 DEF Write, TypeOK
    <3> QED
      BY <3>1, <3>2
  <2> QED
    BY <1>4, <2>1, <2>2 DEF Write, TypeOK, raftVars, fsmVars
<1>5. CASE BreakOff(t)
  BY <1>5 DEF BreakOff, Event, TypeOK, raftVars, fsmVars
<1> QED
  BY <1>2, <1>3, <1>4, <1>5

\* Every variable keeps its type: no node asks past the end of its list, no archive is
\* extracted past its last file.
THEOREM Typing == Spec => []TypeOK
<1>1. TypeOK /\ [Next]_vars => TypeOK'
  <2> SUFFICES ASSUME TypeOK, [Next]_vars PROVE TypeOK'
    OBVIOUS
  <2>1. CASE Next
    <3> HIDE DEF TypeOK
    <3> QED
      BY <2>1, MembershipType, CrashType, DowntimeType, SnapshotType, FileType, TransferType,
         ArbiterHAAssumption DEF Next
  <2>2. CASE UNCHANGED vars
    BY <2>2 DEF TypeOK, vars, raftVars, fsmVars, fileVars
  <2> QED
    BY <2>1, <2>2
<1> QED
  BY <1>1, InitType, PTL DEF Spec
-----------------------------------------------------------------------------
(* The downtimes.                                                           *)

\* Adding to a log leaves the lists that follow it where they are.
LEMMA FollowsOn ==
  ASSUME NEW l \in Seq(Nat), NEW d \in Nat, NEW i \in Nat, i <= Len(l)
  PROVE  /\ SubSeq(Append(l, d), 1, i) = SubSeq(l, 1, i)
         /\ i <= Len(Append(l, d))
OBVIOUS

\* The next entry of a log makes a list that follows it follow it one further.
LEMMA FollowsOneFurther ==
  ASSUME NEW l \in Seq(Nat), NEW i \in Nat, i < Len(l)
  PROVE  SubSeq(l, 1, i + 1) = Append(SubSeq(l, 1, i), l[i + 1])
<1>1. SubSeq(l, 1, i) \in Seq(Nat) /\ Len(SubSeq(l, 1, i)) = i
  OBVIOUS
<1>2. SubSeq(l, 1, i + 1) \in Seq(Nat) /\ Len(SubSeq(l, 1, i + 1)) = i + 1
  OBVIOUS
<1>3. Append(SubSeq(l, 1, i), l[i + 1]) \in Seq(Nat) /\ Len(Append(SubSeq(l, 1, i), l[i + 1])) = i + 1
  BY <1>1
<1>4. \A j \in 1 .. i + 1 : SubSeq(l, 1, i + 1)[j] = Append(SubSeq(l, 1, i), l[i + 1])[j]
  BY <1>1
<1> QED
  BY <1>2, <1>3, <1>4

LEMMA StartsFollowing ==
  ASSUME NEW l \in Seq(Nat)
  PROVE  SubSeq(l, 1, 0) = << >> /\ 0 <= Len(l)
OBVIOUS

LEMMA InitLog ==
  ASSUME Init
  PROVE  LogInv
<1>1. SubSeq(<< >>, 1, 0) = << >> /\ 0 <= Len(<< >>)
  <2>1. << >> \in Seq(Nat)
    OBVIOUS
  <2> QED
    BY <2>1, StartsFollowing
<1>2. \A n \in Nodes : /\ downtimes[n] = << >> /\ applied[n] = 0 /\ taking[n] = None
                       /\ snapshot[n].downtimes = << >> /\ snapshot[n].index = 0
  BY DEF Init, NoSnapshot
<1>3. log = << >>
  BY DEF Init
<1> QED
  BY <1>1, <1>2, <1>3 DEF LogInv, Follows

LEMMA CommitLog ==
  ASSUME TypeOK, LogInv, NEW d \in flight, Commit(d)
  PROVE  LogInv'
<1>1. log \in Seq(Nat) /\ d \in Nat /\ log' = Append(log, d)
  BY DEF Commit, TypeOK
<1>2. UNCHANGED << ha, downtimes, applied, snapshot, taking >>
  BY DEF Commit
<1>3. \A n \in Nodes :
        /\ applied[n] \in Nat /\ snapshot[n].index \in Nat
        /\ taking[n] # None => taking[n].index \in Nat
  BY DEF TypeOK, Snapshot
<1> QED
  BY <1>1, <1>2, <1>3, FollowsOn DEF LogInv, Follows

LEMMA ApplyLog ==
  ASSUME TypeOK, LogInv, NEW n \in Nodes, Apply(n)
  PROVE  LogInv'
<1>1. log \in Seq(Nat) /\ applied[n] \in Nat /\ applied[n] < Len(log)
  BY DEF Apply, TypeOK
<1>2. UNCHANGED << ha, log, snapshot, taking >>
  BY DEF Apply, raftVars
<1>3. SUFFICES ASSUME ha, NEW m \in Nodes
               PROVE  applied'[m] <= Len(log) /\ downtimes'[m] = SubSeq(log, 1, applied'[m])
  BY <1>2 DEF LogInv, Follows
<1>4. applied[m] <= Len(log) /\ downtimes[m] = SubSeq(log, 1, applied[m])
  BY <1>3 DEF LogInv, Follows
<1>5. CASE m = n
  <2>1. applied'[n] = applied[n] + 1 /\ downtimes'[n] = Append(downtimes[n], log[applied[n] + 1])
    BY DEF Apply, WithNext, TypeOK
  <2> QED
    <3>1. SubSeq(log, 1, applied[n] + 1) = Append(SubSeq(log, 1, applied[n]), log[applied[n] + 1])
      BY <1>1, FollowsOneFurther
    <3>2. applied[n] + 1 <= Len(log)
      BY <1>1
    <3> QED
      BY <1>4, <1>5, <2>1, <3>1, <3>2
<1>6. CASE m # n
  BY <1>4, <1>6 DEF Apply, TypeOK
<1> QED
  BY <1>5, <1>6

\* A node starts over from its snapshot, from the leader's, or from nothing.
LEMMA RestoreLog ==
  ASSUME TypeOK, LogInv, NEW n \in Nodes, Start(n) \/ Crash(n) \/ InstallSnapshot(n)
  PROVE  LogInv'
<1>1. log \in Seq(Nat)
  BY DEF TypeOK
<1>2. CASE Start(n)
  BY <1>2 DEF Start, LogInv, Follows, TypeOK
<1>3. CASE Crash(n)
  BY <1>1, <1>3 DEF Crash, LogInv, Follows, TypeOK
<1>4. CASE InstallSnapshot(n)
  <2>1. leader \in Nodes
    BY <1>4 DEF InstallSnapshot, Informed, TypeOK
  <2> QED
    BY <1>4, <2>1 DEF InstallSnapshot, LogInv, Follows, TypeOK, raftVars
<1> QED
  BY <1>2, <1>3, <1>4

LEMMA SnapshotLog ==
  ASSUME TypeOK, LogInv, NEW n \in Nodes, TakeSnapshot(n) \/ Persist(n)
  PROVE  LogInv'
<1>1. CASE TakeSnapshot(n)
  BY <1>1 DEF TakeSnapshot, LogInv, Follows, TypeOK, raftVars
<1>2. CASE Persist(n)
  BY <1>2 DEF Persist, Persisted, LogInv, Follows, TypeOK, raftVars
<1> QED
  BY <1>1, <1>2

LEMMA SameLog ==
  ASSUME LogInv, UNCHANGED << ha, log, downtimes, applied, snapshot, taking >>
  PROVE  LogInv'
BY DEF LogInv, Follows

\* A node of its own has no part in this.
LEMMA PostLog ==
  ASSUME LogInv, NEW n \in Nodes, PostDowntime(n)
  PROVE  LogInv'
<1>1. CASE ha
  BY <1>1, SameLog DEF PostDowntime, raftVars
<1>2. CASE ~ha
  BY <1>2 DEF PostDowntime, LogInv
<1> QED
  BY <1>1, <1>2

\* Every node of a cluster lists the downtimes of the log as far as it has applied it, in
\* order and each once, through snapshots, restarts and installed snapshots.
THEOREM DowntimesAreTheLog == Spec => []DowntimesFollowLog
<1>1. Init => LogInv
  BY InitLog
<1>2. LogInv /\ TypeOK /\ [Next]_vars => LogInv'
  <2> SUFFICES ASSUME LogInv, TypeOK, [Next]_vars PROVE LogInv'
    OBVIOUS
  <2>1. ASSUME NEW n \in Nodes, Join(n) \/ Elect(n) \/ StepDown \/ BroadcastToFollowers(n)
                                \/ \E f \in Files : Edit(n, f)
        PROVE  LogInv'
    BY <2>1, SameLog DEF Join, Elect, StepDown, BroadcastToFollowers, Edit, raftVars, fsmVars
  <2>2. ASSUME NEW t \in transfers, Answer(t) \/ Truncate(t) \/ Write(t) \/ BreakOff(t)
        PROVE  LogInv'
    BY <2>2, SameLog DEF Answer, Truncate, Write, BreakOff, raftVars, fsmVars
  <2>3. ASSUME NEW d \in flight, Drop(d) PROVE LogInv'
    BY <2>3, SameLog DEF Drop, raftVars
  <2>4. CASE UNCHANGED vars
    BY <2>4, SameLog DEF vars, raftVars, fsmVars
  <2> HIDE DEF LogInv, TypeOK
  <2> QED
    BY <2>1, <2>2, <2>3, <2>4, CommitLog, ApplyLog, RestoreLog, SnapshotLog, PostLog,
       ArbiterHAAssumption DEF Next
<1>3. LogInv => DowntimesFollowLog
  BY DEF LogInv, Follows, DowntimesFollowLog
<1> QED
  BY <1>1, <1>2, <1>3, Typing, PTL DEF Spec

-----------------------------------------------------------------------------
(* The files.                                                               *)

\* Nothing is recorded of a node that does not lead or has an archive extracted.
LEMMA NothingRecorded ==
  ASSUME EditInv, NEW n \in Nodes, leader # n \/ Extracting(n)
  PROVE  \A f \in Files : written[n][f] = None
BY DEF EditInv, Recorded

LEMMA SameEdits ==
  ASSUME EditInv, UNCHANGED << leader, files, transfers, written >>
  PROVE  EditInv'
BY DEF EditInv, Recorded, Extracting

\* No record survives the end of a term; a new leader begins with none.
LEMMA LeaderEdits ==
  ASSUME TypeOK, EditInv, NEW n \in Nodes, Elect(n) \/ StepDown \/ Crash(n)
  PROVE  EditInv'
<1>1. CASE Elect(n)
  <2>1. \A m \in Nodes, f \in Files : written[m][f] = None
    BY <1>1, NothingRecorded, ArbiterHAAssumption DEF Elect
  <2> QED
    BY <1>1, <2>1 DEF Elect, EditInv, fileVars
<1>2. CASE StepDown
  <2>1. \A m \in Nodes, f \in Files : written'[m][f] = None
    BY <1>2, NothingRecorded DEF StepDown, TypeOK, Unwritten
  <2> QED
    BY <1>2, <2>1 DEF StepDown, EditInv
<1>3. CASE Crash(n)
  <2>1. transfers' \subseteq transfers
    BY <1>3 DEF Crash
  <2>2. ASSUME NEW m \in Nodes, NEW f \in Files, written'[m][f] # None
        PROVE  Recorded(m, f)'
    <3>1. m # n /\ written'[m] = written[m]
      BY <1>3, <2>2 DEF Crash, TypeOK, Unwritten
    <3>2. Recorded(m, f)
      BY <2>2, <3>1 DEF EditInv
    <3> QED
      BY <1>3, <2>1, <3>1, <3>2 DEF Crash, Extracting, Recorded
  <2> QED
    BY <2>1, <2>2 DEF EditInv
<1> QED
  BY <1>1, <1>2, <1>3

\* What is done to an archive leaves the other nodes alone.
LEMMA ElsewhereSame ==
  ASSUME TypeOK, NEW t \in transfers,
         \/ transfers' = transfers \ {t}
         \/ \E i \in Nat, open \in BOOLEAN : transfers' = Moved(t, i, open)
  PROVE  \A m \in Nodes \ {t.to} : Extracting(m)' => Extracting(m)
<1>1. t \in Transfer
  BY DEF TypeOK
<1>2. \A i, open : [t EXCEPT !.next = i, !.open = open].to = t.to
  BY <1>1 DEF Transfer
<1>3. \A u \in transfers' : u \in transfers \/ u.to = t.to
  BY <1>2 DEF Moved
<1> QED
  BY <1>3 DEF Extracting

\* No archive is extracted where something is recorded, so what its extraction does
\* changes no file with a record, and its start ends no record.
LEMMA TransferEdits ==
  ASSUME TypeOK, EditInv, NEW t \in transfers, Answer(t) \/ Truncate(t) \/ Write(t)
  PROVE  EditInv'
<1>1. t \in Transfer /\ t.to \in Nodes /\ t.next \in Nat /\ t.next + 1 \in Nat
  BY FilesType DEF TypeOK, Transfer
<1>2. UNCHANGED << leader, written >>
  BY DEF Answer, Truncate, Write, raftVars
<1>3. \A m \in Nodes \ {t.to} : files'[m] = files[m]
  BY <1>1 DEF Answer, Truncate, Write, TypeOK
<1>4. PICK i \in Nat, open \in BOOLEAN :
        /\ transfers' = transfers \ {t} \/ transfers' = Moved(t, i, open)
        /\ open => i > 0
  <2>1. CASE Answer(t)
    BY <2>1 DEF Answer
  <2>2. CASE Truncate(t)
    BY <1>1, <2>2 DEF Truncate, Beyond
  <2>3. CASE Write(t)
    BY <1>1, <2>3 DEF Write, Beyond
  <2> QED
    BY <2>1, <2>2, <2>3
<1>5. \A u \in transfers' : u.open => u.next > 0
  <2>1. [t EXCEPT !.next = i, !.open = open].next = i /\ [t EXCEPT !.next = i, !.open = open].open = open
    BY <1>1 DEF Transfer
  <2> QED
    BY <1>4, <2>1 DEF Moved, EditInv
<1>6. \A m \in Nodes \ {t.to} : Extracting(m)' => Extracting(m)
  BY <1>4, ElsewhereSame
<1>7. CASE \A f \in Files : written[t.to][f] = None
  BY <1>2, <1>3, <1>5, <1>6, <1>7 DEF EditInv, Recorded
<1>8. CASE \E f \in Files : written[t.to][f] # None
  <2>1. leader = t.to /\ ~Extracting(t.to)
    BY <1>1, <1>8, NothingRecorded
  <2>2. t.next = 0 /\ ~t.open
    BY <1>1, <2>1 DEF Extracting, EditInv
  <2>3. Answer(t) /\ transfers' = transfers \ {t} /\ UNCHANGED files
    BY <2>1, <2>2 DEF Answer, Takes, Truncate, Write
  <2>4. ~Extracting(t.to)'
    BY <2>1, <2>3 DEF Extracting
  <2> QED
    BY <1>2, <1>3, <1>5, <1>6, <2>3, <2>4 DEF EditInv, Recorded
<1> QED
  BY <1>7, <1>8

LEMMA BreakOffEdits ==
  ASSUME TypeOK, EditInv, NEW t \in transfers, BreakOff(t)
  PROVE  EditInv'
BY DEF BreakOff, raftVars, EditInv, Recorded, Extracting

LEMMA BroadcastEdits ==
  ASSUME EditInv, NEW n \in Nodes, BroadcastToFollowers(n)
  PROVE  EditInv'
<1>1. UNCHANGED << leader, files, written >>
  BY DEF BroadcastToFollowers, raftVars
<1>2. \A u \in transfers' : u \in transfers \/ (u.next = 0 /\ ~u.open)
  BY DEF BroadcastToFollowers, ArchivesOf
<1>3. \A m \in Nodes : Extracting(m)' => Extracting(m)
  BY <1>2 DEF Extracting
<1> QED
  BY <1>1, <1>2, <1>3 DEF EditInv, Recorded

LEMMA EditEdits ==
  ASSUME TypeOK, EditInv, NEW n \in Nodes, NEW f \in Files, Edit(n, f)
  PROVE  EditInv'
<1>1. UNCHANGED << leader, transfers >> /\ \A m \in Nodes : Extracting(m)' <=> Extracting(m)
  BY DEF Edit, raftVars, Extracting
<1>2. PICK c \in Contents \cup {Gone} :
        /\ files' = [files EXCEPT ![n][f] = c]
        /\ written' = IF leader = n /\ ~Extracting(n) THEN [written EXCEPT ![n][f] = c] ELSE written
  BY DEF Edit
<1>3. SUFFICES ASSUME NEW m \in Nodes, NEW g \in Files, written'[m][g] # None
               PROVE  Recorded(m, g)'
  BY <1>1 DEF EditInv
<1>4. CASE leader = n /\ ~Extracting(n)
  <2>1. CASE m = n /\ g = f
    BY <1>1, <1>2, <1>4, <2>1 DEF Recorded, TypeOK
  <2>2. CASE ~(m = n /\ g = f)
    <3>1. written'[m][g] = written[m][g] /\ files'[m][g] = files[m][g]
      BY <1>2, <1>4, <2>2 DEF TypeOK
    <3> QED
      BY <1>1, <1>3, <3>1 DEF EditInv, Recorded
  <2> QED
    BY <2>1, <2>2
<1>5. CASE ~(leader = n /\ ~Extracting(n))
  <2>1. written' = written /\ m # n
    BY <1>2, <1>3, <1>5, NothingRecorded
  <2>2. files'[m] = files[m]
    BY <1>2, <2>1 DEF TypeOK
  <2> QED
    BY <1>1, <1>3, <2>1, <2>2 DEF EditInv, Recorded
<1> QED
  BY <1>4, <1>5

\* At a leader the files stay as its operator wrote them: the role is checked before an
\* archive is extracted, and an extraction under way keeps the record from being made.
THEOREM EditsStayThere == Spec => []EditsStay
<1>1. Init => EditInv
  BY DEF Init, EditInv, Unwritten
<1>2. EditInv /\ TypeOK /\ [Next]_vars => EditInv'
  <2> SUFFICES ASSUME EditInv, TypeOK, [Next]_vars PROVE EditInv'
    OBVIOUS
  <2>1. ASSUME NEW n \in Nodes, \/ Start(n) \/ Join(n) \/ PostDowntime(n) \/ Apply(n)
                                \/ TakeSnapshot(n) \/ Persist(n) \/ InstallSnapshot(n)
        PROVE  EditInv'
    BY <2>1, SameEdits DEF Start, Join, PostDowntime, Apply, TakeSnapshot, Persist, InstallSnapshot,
                           raftVars, fileVars
  <2>2. ASSUME NEW d \in flight, Commit(d) \/ Drop(d)
        PROVE  EditInv'
    BY <2>2, SameEdits DEF Commit, Drop, raftVars, fileVars
  <2>3. CASE UNCHANGED vars
    BY <2>3, SameEdits DEF vars, raftVars, fileVars
  <2> HIDE DEF EditInv, TypeOK
  <2> QED
    BY <2>1, <2>2, <2>3, LeaderEdits, TransferEdits, BreakOffEdits, BroadcastEdits, EditEdits,
       ArbiterHAAssumption DEF Next
<1>3. EditInv => EditsStay
  BY DEF EditInv, Recorded, EditsStay
<1> QED
  BY <1>1, <1>2, <1>3, Typing, PTL DEF Spec

-----------------------------------------------------------------------------
(* Archives on their way.                                                   *)

\* What a node has of a file, and what it is about to get, is what the leader has, or
\* a piece of it.
Alike(l, n, f) ==
  /\ files[n][f] \in {files[l][f], Torn}
  /\ \A t \in transfers : t.to = n => t.archive[f] = files[l][f]


\* What is done to an archive changes neither where it goes nor what is in it.
LEMMA ArchivesKept ==
  ASSUME TypeOK, NEW t \in transfers, Answer(t) \/ Truncate(t) \/ Write(t) \/ BreakOff(t),
         NEW u \in transfers'
  PROVE  \E v \in transfers : u.to = v.to /\ u.archive = v.archive
<1>1. t \in Transfer /\ t.next \in Nat /\ t.next + 1 \in Nat
  BY FilesType DEF TypeOK, Transfer
<1>2. PICK i \in Nat, open \in BOOLEAN :
        transfers' = transfers \ {t} \/ transfers' = Moved(t, i, open)
  <2>1. CASE Answer(t) \/ BreakOff(t)
    BY <2>1 DEF Answer, BreakOff
  <2>2. CASE Truncate(t)
    BY <1>1, <2>2 DEF Truncate, Beyond
  <2>3. CASE Write(t)
    BY <1>1, <2>3 DEF Write, Beyond
  <2> QED
    BY <2>1, <2>2, <2>3
<1> DEFINE moved == [t EXCEPT !.next = i, !.open = open]
<1>3. moved.to = t.to /\ moved.archive = t.archive
  BY <1>1 DEF Transfer
<1>4. u \in transfers \/ u = moved
  BY <1>2 DEF Moved
<1> HIDE DEF moved
<1> QED
  BY <1>3, <1>4

LEMMA ExtractionAlike ==
  ASSUME TypeOK, NEW l \in Nodes, NEW n \in Nodes, NEW f \in Files, Alike(l, n, f),
         files'[l] = files[l],
         NEW t \in transfers, Answer(t) \/ Truncate(t) \/ Write(t) \/ BreakOff(t)
  PROVE  Alike(l, n, f)'
<1>1. \A u \in transfers' : u.to = n => u.archive[f] = files[l][f]
  BY ArchivesKept DEF Alike
<1>2. \/ files'[n][f] = files[n][f] \/ files'[n][f] = Torn
      \/ t.to = n /\ files'[n][f] = t.archive[f]
  <2>1. CASE Answer(t) \/ BreakOff(t)
    BY <2>1 DEF Answer, BreakOff
  <2>2. CASE Truncate(t)
    <3>1. \/ UNCHANGED files
          \/ files' = [files EXCEPT ![t.to] = [@ EXCEPT ![t.next] = Torn]]
      BY <2>2 DEF Truncate
    <3>2. files \in [Nodes -> [Files -> Content]]
      BY DEF TypeOK
    <3> QED
      BY <3>1, <3>2
  <2>3. CASE Write(t)
    <3>1. files' = [files EXCEPT ![t.to] = [@ EXCEPT ![t.next] = t.archive[t.next]]]
      BY <2>3 DEF Write
    <3>2. files \in [Nodes -> [Files -> Content]]
      BY DEF TypeOK
    <3>3. CASE t.to = n /\ t.next = f
      BY <3>1, <3>2, <3>3
    <3>4. CASE ~(t.to = n /\ t.next = f)
      BY <3>1, <3>2, <3>4
    <3> QED
      BY <3>3, <3>4
  <2> QED
    BY <2>1, <2>2, <2>3
<1> QED
  BY <1>1, <1>2 DEF Alike

\* Only the leader sends, and it sends what it has.
LEMMA BroadcastAlike ==
  ASSUME NEW l \in Nodes, NEW n \in Nodes, NEW f \in Files, Alike(l, n, f),
         leader = l, NEW m \in Nodes, BroadcastToFollowers(m)
  PROVE  Alike(l, n, f)'
<1>1. m = l /\ UNCHANGED files
  BY DEF BroadcastToFollowers
<1>2. \A u \in transfers' : u \in transfers \/ u.archive = files[l]
  BY <1>1 DEF BroadcastToFollowers, ArchivesOf
<1> QED
  BY <1>1, <1>2 DEF Alike

LEMMA EditAlike ==
  ASSUME TypeOK, NEW l \in Nodes, NEW n \in Nodes, NEW f \in Files, Alike(l, n, f),
         files'[l] = files[l], ~Edit(n, f), NEW m \in Nodes, NEW g \in Files, Edit(m, g)
  PROVE  Alike(l, n, f)'
<1>1. PICK c : files' = [files EXCEPT ![m][g] = c]
  BY DEF Edit
<1>2. files'[n][f] = files[n][f]
  BY <1>1 DEF TypeOK
<1>3. UNCHANGED transfers
  BY DEF Edit
<1> QED
  BY <1>2, <1>3 DEF Alike

LEMMA AlikeStep ==
  ASSUME TypeOK, [Next]_vars, NEW l \in Nodes, NEW n \in Nodes, NEW f \in Files, Alike(l, n, f),
         leader = l, files'[l] = files[l], ~Edit(n, f)
  PROVE  Alike(l, n, f)'
<1>1. ASSUME UNCHANGED files, transfers' \subseteq transfers PROVE Alike(l, n, f)'
  BY <1>1 DEF Alike
<1>2. ASSUME NEW m \in Nodes, \/ Start(m) \/ Join(m) \/ Elect(m) \/ Crash(m) \/ PostDowntime(m)
                              \/ Apply(m) \/ TakeSnapshot(m) \/ Persist(m) \/ InstallSnapshot(m)
      PROVE  Alike(l, n, f)'
  BY <1>1, <1>2 DEF Start, Join, Elect, Crash, PostDowntime, Apply, TakeSnapshot, Persist,
                    InstallSnapshot, fileVars
<1>3. ASSUME NEW d \in flight, Commit(d) \/ Drop(d) PROVE Alike(l, n, f)'
  BY <1>1, <1>3 DEF Commit, Drop, fileVars
<1>4. CASE StepDown \/ UNCHANGED vars
  BY <1>1, <1>4 DEF StepDown, vars, fileVars
<1> HIDE DEF Alike
<1> QED
  BY <1>2, <1>3, <1>4, ExtractionAlike, BroadcastAlike, EditAlike DEF Next

\* As long as a node leads and its own files stay as they are: once everything on its way
\* to another node is what the leader has, nothing older shows there again, in whatever
\* order archives arrive and wherever they break off. Only an operator at that node undoes
\* it. This is the part of FilesReachFollowers that forbids.
THEOREM NothingOlderReturns ==
  Spec => [][\A l, n \in Nodes, f \in Files :
               Alike(l, n, f) /\ leader = l /\ files'[l] = files[l] /\ ~Edit(n, f)
                 => Alike(l, n, f)']_vars
<1>1. TypeOK /\ [Next]_vars
        => [\A l, n \in Nodes, f \in Files :
              Alike(l, n, f) /\ leader = l /\ files'[l] = files[l] /\ ~Edit(n, f)
                => Alike(l, n, f)']_vars
  BY AlikeStep
<1> QED
  BY <1>1, Typing, PTL DEF Spec

=============================================================================
