------------------------------- MODULE ArbiterHA -------------------------------
(***************************************************************************)
(* A cluster of Arbiters (cmd/arbiter, ha.go and api.go): how a node joins, *)
(* the downtimes, which go through Raft to a state machine in memory, and  *)
(* the definition files, which the leader sends to the others as archives. *)
(*                                                                         *)
(* Raft is external: a configuration of voters, one leader or none, one    *)
(* committed log. Its promises are taken as given; what a deposed leader    *)
(* still does before it notices is what it did just before.                *)
(***************************************************************************)
EXTENDS Integers, Sequences, FiniteSets

CONSTANTS
  Nodes,
  None,           \* no leader; no snapshot being written
  Bootstrap,      \* the node with bootstrap_cluster
  ClusterNodes,   \* cluster_nodes of each node
  HAModes,        \* ha_enabled: TRUE for a cluster, FALSE for nodes on their own
  FileNames,      \* the definition files, in the order of filepath.Walk
  Contents,       \* what an operator may write into one
  Refused,        \* contents for which RunLinter has errors
  Gone,           \* the file does not exist
  Torn,           \* truncated, or written in part
  Initial,        \* the files of each node at first
  MaxTransfers,   \* bound: archives on their way at one time
  MaxEvents       \* bound: downtimes, edits, crashes, elections and broken requests

Files == DOMAIN FileNames
Content == Contents \cup {Gone, Torn}

ASSUME ArbiterHAAssumption ==
  /\ Bootstrap \in Nodes /\ None \notin Nodes
  /\ ClusterNodes \in [Nodes -> Seq(Nodes)]
  /\ HAModes \subseteq BOOLEAN
  /\ FileNames \in Seq(STRING) /\ FileNames # << >>
  /\ Gone \notin Contents /\ Torn \notin Contents /\ Gone # Torn
  /\ Refused \subseteq Contents /\ None \notin Content
  /\ Initial \in [Nodes -> [Files -> Contents \cup {Gone}]]
  /\ MaxTransfers \in Nat /\ MaxEvents \in Nat

VARIABLES
  ha,             \* ha_enabled
  up,             \* the nodes whose process runs
  voters, leader, log,            \* Raft: its configuration, leader and committed entries
  joining,        \* per node: which of its cluster_nodes joinCluster asks next, 0 for none
  flight,         \* downtimes handed to raftNode.Apply, not yet committed
  applied,        \* per node: entries its state machine has
  downtimes,      \* per node: the list
  taking,         \* per node: a snapshot taken and not yet written
  snapshot,       \* per node: the last snapshot on disk
  files,          \* per node: what each file holds
  transfers,      \* archives on their way or being extracted
  written,        \* history, per node and file: what its operator wrote since the node leads,
                  \* with no archive being extracted there
  posted, events  \* counts

raftVars == << voters, leader, log, joining >>
fsmVars  == << flight, applied, downtimes, taking, snapshot, posted >>
fileVars == << files, transfers, written >>
vars == << ha, up, raftVars, fsmVars, fileVars, events >>

Snapshot == [index : Nat, downtimes : Seq(Nat)]
NoSnapshot == [index |-> 0, downtimes |-> << >>]

\* "next" is the file to be extracted, 0 as long as the receiver has not answered
Transfer == [to : Nodes, archive : [Files -> Content], next : 0 .. Len(FileNames), open : BOOLEAN]

Quorum(members) == 2 * Cardinality(members \cap up) > Cardinality(members)
Unwritten == [f \in Files |-> None]
Extracting(n) == \E t \in transfers : t.to = n /\ t.next > 0
isLeader(n) == ~ha \/ leader = n

\* something comes from outside
Event == events < MaxEvents /\ events' = events + 1

-----------------------------------------------------------------------------
(* main, setupRaft, joinCluster, handleJoin.                                *)

\* Raft restores the snapshot, then the log is applied again
Start(n) ==
  /\ n \notin up /\ up' = up \cup {n}
  /\ voters' = IF ha /\ n = Bootstrap /\ voters = {} THEN {n} ELSE voters
  /\ joining' = [joining EXCEPT ![n] = IF ha /\ n # Bootstrap /\ ClusterNodes[n] # << >>
                                       THEN 1 ELSE 0]
  /\ downtimes' = [downtimes EXCEPT ![n] = snapshot[n].downtimes]
  /\ applied' = [applied EXCEPT ![n] = snapshot[n].index]
  /\ UNCHANGED << ha, leader, log, flight, taking, snapshot, posted, fileVars, events >>

AskOnward(n) == joining[n] + 1                     \* mutant: past the end of the list
AskNext(n) == IF joining[n] < Len(ClusterNodes[n]) THEN joining[n] + 1 ELSE 0

\* each node of the list is asked once, until one says yes: a leader which then
\* needs a majority with the new voter; another answers 307
Join(n) ==
  LET asked == ClusterNodes[n][joining[n]]
      yes   == asked \in up /\ leader = asked
  IN  /\ n \in up /\ joining[n] > 0
      /\ \/ /\ yes /\ Quorum(voters \cup {n})
            /\ voters' = voters \cup {n} /\ joining' = [joining EXCEPT ![n] = 0]
            /\ UNCHANGED events
         \/ /\ ~yes
            /\ joining' = [joining EXCEPT ![n] = AskNext(n)]
            /\ UNCHANGED << voters, events >>
         \/ /\ yes /\ Event                  \* the answer is lost, or an error
            /\ voters' \in {voters, voters \cup {n}}
            /\ joining' = [joining EXCEPT ![n] = AskNext(n)]
      /\ UNCHANGED << ha, up, leader, log, fsmVars, fileVars >>

Elect(n) ==
  /\ leader = None /\ n \in up \cap voters /\ Quorum(voters)
  /\ leader' = n
  /\ UNCHANGED << ha, up, voters, log, joining, fsmVars, fileVars, events >>

\* the lease runs out: without a majority, or for a slow network
StepDown ==
  /\ leader # None /\ leader' = None
  /\ \/ ~Quorum(voters) /\ UNCHANGED events
     \/ Quorum(voters) /\ Event
  /\ written' = [written EXCEPT ![leader] = Unwritten]
  /\ UNCHANGED << ha, up, voters, log, joining, fsmVars, files, transfers >>

\* archives to the node are lost with its process, wherever they were
Crash(n) ==
  /\ n \in up /\ up' = up \ {n} /\ Event
  /\ leader' = IF leader = n THEN None ELSE leader
  /\ joining' = [joining EXCEPT ![n] = 0]
  /\ downtimes' = [downtimes EXCEPT ![n] = << >>]
  /\ applied' = [applied EXCEPT ![n] = 0]
  /\ taking' = [taking EXCEPT ![n] = None]
  /\ transfers' = {t \in transfers : t.to # n}
  /\ written' = [written EXCEPT ![n] = Unwritten]
  /\ UNCHANGED << ha, voters, log, flight, snapshot, posted, files >>

-----------------------------------------------------------------------------
(* handleDowntime and the state machine.                                    *)

\* the future of raftNode.Apply is not awaited: 201 says nothing of the log
PostDowntime(n) ==
  /\ n \in up /\ isLeader(n) /\ Event
  /\ posted' = posted + 1
  /\ \/ ha /\ flight' = flight \cup {posted + 1} /\ UNCHANGED downtimes
     \/ /\ ~ha /\ downtimes' = [downtimes EXCEPT ![n] = Append(@, posted + 1)]
        /\ UNCHANGED flight
  /\ UNCHANGED << ha, up, raftVars, applied, taking, snapshot, fileVars >>

Commit(d) ==
  /\ d \in flight /\ leader # None /\ Quorum(voters)
  /\ log' = Append(log, d) /\ flight' = flight \ {d}
  /\ UNCHANGED << ha, up, voters, leader, joining, applied, downtimes, taking, snapshot, posted,
                  fileVars, events >>

\* a change of leader, or the 5 s to be queued, ends a proposal without a trace
Drop(d) ==
  /\ d \in flight /\ flight' = flight \ {d}
  /\ UNCHANGED << ha, up, raftVars, applied, downtimes, taking, snapshot, posted, fileVars, events >>

\* the leader tells the voters what is committed
Informed(n) == n \in up \cap voters /\ leader # None

WithNextAtLeader(n) ==                   \* mutant: isLeader in the state machine, too
  IF leader = n THEN Append(downtimes[n], log[applied[n] + 1]) ELSE downtimes[n]
WithNext(n) == Append(downtimes[n], log[applied[n] + 1])

Apply(n) ==
  /\ Informed(n) /\ applied[n] < Len(log)
  /\ applied' = [applied EXCEPT ![n] = @ + 1]
  /\ downtimes' = [downtimes EXCEPT ![n] = WithNext(n)]
  /\ UNCHANGED << ha, up, raftVars, flight, taking, snapshot, posted, fileVars, events >>

\* Snapshot takes the slice, which later appends leave alone; Persist writes it
TakeSnapshot(n) ==
  /\ n \in up /\ taking[n] = None /\ applied[n] > snapshot[n].index
  /\ taking' = [taking EXCEPT ![n] = [index |-> applied[n], downtimes |-> downtimes[n]]]
  /\ UNCHANGED << ha, up, raftVars, flight, applied, downtimes, snapshot, posted, fileVars, events >>

PersistedLate(n) ==                      \* mutant: the list as it is by now
  [index |-> taking[n].index, downtimes |-> downtimes[n]]
Persisted(n) == taking[n]

Persist(n) ==
  /\ taking[n] # None
  /\ snapshot' = [snapshot EXCEPT ![n] = Persisted(n)]
  /\ taking' = [taking EXCEPT ![n] = None]
  /\ UNCHANGED << ha, up, raftVars, flight, applied, downtimes, posted, fileVars, events >>

\* a node that lags gets the leader's snapshot in place of the entries
InstallSnapshot(n) ==
  LET snap == snapshot[leader]
  IN  /\ Informed(n) /\ n # leader /\ taking[n] = None
      /\ snap.index > applied[n]
      /\ snapshot' = [snapshot EXCEPT ![n] = snap]
      /\ applied' = [applied EXCEPT ![n] = snap.index]
      /\ downtimes' = [downtimes EXCEPT ![n] = snap.downtimes]
      /\ UNCHANGED << ha, up, raftVars, flight, taking, posted, fileVars, events >>

-----------------------------------------------------------------------------
(* broadcastToFollowers and handleClusterSync.                              *)

\* an operator at some node; the process need not run
Edit(n, f) ==
  /\ Event
  /\ \E c \in Contents \cup {Gone} :
       /\ files' = [files EXCEPT ![n][f] = c]
       /\ written' = IF leader = n /\ ~Extracting(n) THEN [written EXCEPT ![n][f] = c] ELSE written
  /\ UNCHANGED << ha, up, raftVars, fsmVars, transfers >>

\* a file that does not parse is passed over by loadAndProcess, and sent
Linted(dir) == \A f \in Files : dir[f] \notin Refused

ArchivesUpToSelf(n) ==                   \* mutant: the loop ends at the node itself
  {[to |-> ClusterNodes[n][i], archive |-> files[n], next |-> 0, open |-> FALSE] :
     i \in {j \in DOMAIN ClusterNodes[n] : \A k \in 1 .. j : ClusterNodes[n][k] # n}}
ArchivesOf(n) ==
  {[to |-> ClusterNodes[n][i], archive |-> files[n], next |-> 0, open |-> FALSE] :
     i \in {j \in DOMAIN ClusterNodes[n] : ClusterNodes[n][j] # n}}

\* the end of a refreshConfig of the leader; what is on its way already is not
\* counted again
BroadcastToFollowers(n) ==
  /\ ha /\ n \in up /\ leader = n /\ Linted(files[n])
  /\ transfers' = transfers \cup ArchivesOf(n)
  /\ Cardinality(transfers') <= MaxTransfers
  /\ UNCHANGED << ha, up, raftVars, fsmVars, files, written, events >>

AnyNodeTakes(t) == t.to \in up           \* mutant: a leader takes archives too
Takes(t) == t.to \in up /\ leader # t.to

Moved(t, next, open) == (transfers \ {t}) \cup {[t EXCEPT !.next = next, !.open = open]}
Beyond(t) == IF t.next = Len(FileNames) THEN transfers \ {t} ELSE Moved(t, t.next + 1, FALSE)

Answer(t) ==
  /\ t.next = 0
  /\ transfers' = IF Takes(t) THEN Moved(t, 1, FALSE) ELSE transfers \ {t}
  /\ UNCHANGED << ha, up, raftVars, fsmVars, files, written, events >>

\* os.OpenFile truncates the next file; one the archive lacks is left alone
Truncate(t) ==
  /\ t.next > 0 /\ ~t.open
  /\ \/ t.archive[t.next] = Gone /\ transfers' = Beyond(t) /\ UNCHANGED files
     \/ /\ t.archive[t.next] # Gone
        /\ files' = [files EXCEPT ![t.to][t.next] = Torn]
        /\ transfers' = Moved(t, t.next, TRUE)
  /\ UNCHANGED << ha, up, raftVars, fsmVars, written, events >>

\* io.Copy
Write(t) ==
  /\ t.open
  /\ files' = [files EXCEPT ![t.to][t.next] = t.archive[t.next]]
  /\ transfers' = Beyond(t)
  /\ UNCHANGED << ha, up, raftVars, fsmVars, written, events >>

\* the sender or the connection ends; the loop over the archive breaks off
BreakOff(t) ==
  /\ Event /\ transfers' = transfers \ {t}
  /\ UNCHANGED << ha, up, raftVars, fsmVars, files, written >>

-----------------------------------------------------------------------------
Init ==
  /\ ha \in HAModes /\ up = {}
  /\ voters = {} /\ leader = None /\ log = << >>
  /\ joining = [n \in Nodes |-> 0]
  /\ flight = {} /\ applied = [n \in Nodes |-> 0] /\ downtimes = [n \in Nodes |-> << >>]
  /\ taking = [n \in Nodes |-> None] /\ snapshot = [n \in Nodes |-> NoSnapshot]
  /\ files = Initial /\ transfers = {} /\ written = [n \in Nodes |-> Unwritten]
  /\ posted = 0 /\ events = 0

Next ==
  \/ \E n \in Nodes :
       \/ Start(n) \/ Join(n) \/ Elect(n) \/ Crash(n)
       \/ PostDowntime(n) \/ Apply(n)
       \/ TakeSnapshot(n) \/ Persist(n) \/ InstallSnapshot(n)
       \/ BroadcastToFollowers(n)
       \/ \E f \in Files : Edit(n, f)
  \/ StepDown
  \/ \E d \in flight : Commit(d) \/ Drop(d)
  \/ \E t \in transfers : Answer(t) \/ Truncate(t) \/ Write(t) \/ BreakOff(t)

Spec == Init /\ [][Next]_vars

\* Raft informs its voters; the ticker of a leader ticks, its Schedulers are in reach
\* often enough to keep it out of the cool-off, and the bound on archives does not
\* hold it back (SF); requests end.
Fairness ==
  \A n \in Nodes :
    /\ WF_vars(Apply(n) \/ InstallSnapshot(n))
    /\ SF_vars(BroadcastToFollowers(n))
    /\ WF_vars(\E t \in transfers : t.to = n /\ Answer(t))
    /\ WF_vars(\E t \in transfers : t.to = n /\ Truncate(t))
    /\ WF_vars(\E t \in transfers : t.to = n /\ Write(t))

FairSpec == Spec /\ Fairness

-----------------------------------------------------------------------------
\* Types.
TypeOK ==
  /\ ha \in BOOLEAN /\ up \subseteq Nodes
  /\ voters \subseteq Nodes /\ leader \in Nodes \cup {None} /\ log \in Seq(Nat)
  /\ joining \in [Nodes -> Nat] /\ \A n \in Nodes : joining[n] <= Len(ClusterNodes[n])
  /\ flight \subseteq Nat /\ applied \in [Nodes -> Nat] /\ downtimes \in [Nodes -> Seq(Nat)]
  /\ taking \in [Nodes -> Snapshot \cup {None}] /\ snapshot \in [Nodes -> Snapshot]
  /\ files \in [Nodes -> [Files -> Content]] /\ transfers \subseteq Transfer
  /\ written \in [Nodes -> [Files -> Content \cup {None}]]
  /\ posted \in Nat /\ events \in Nat

\* A node of a cluster lists the downtimes of the log, in its order and each once, as
\* far as it has applied it: whatever snapshots are written while entries are applied,
\* restored at a restart or sent to a node that lags.
DowntimesFollowLog ==
  ha => \A n \in Nodes : downtimes[n] = SubSeq(log, 1, applied[n])

\* If there is a leader in the end, all voters that run list the same downtimes.
DowntimesSettle ==
  \A n \in Nodes : <>[](leader # None /\ n \in up \cap voters) => <>[](downtimes[n] = log)

\* What its operator writes at a leader stays while it leads: no archive of a former
\* leader that arrives late undoes it. (One whose extraction began before the election
\* may: the role is looked at once, before.)
EditsStay ==
  \A n \in Nodes, f \in Files : written[n][f] # None => files[n][f] = written[n][f]

\* A leader that stays and whose files pass the linter gets each of them to every node
\* of its list that runs: archives that overtake each other, break off or come from a
\* former leader are made up for. Files it does not have are not removed there.
FilesReachFollowers ==
  \A l \in Nodes, f \in Files :
    \A n \in {ClusterNodes[l][i] : i \in DOMAIN ClusterNodes[l]} :
      <>[](leader = l /\ n \in up /\ Linted(files[l]))
        => []<>(files[l][f] \in {Gone, files[n][f]})
=============================================================================
