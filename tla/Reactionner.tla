------------------------------ MODULE Reactionner ------------------------------
(***************************************************************************)
(* One Reactionner (cmd/reactionner): the handlers of notifications and    *)
(* acknowledgments, the goroutines that mail, and with ha_enabled the Raft *)
(* log the acknowledgments go through.                                     *)
(*                                                                         *)
(* setupRaft bootstraps a configuration of one server, itself, and nothing *)
(* in the Reactionner adds a voter: the Raft of a bootstrapped node commits *)
(* what it has on disk, and a node that is not bootstrapped never leads.   *)
(* Raft is a library; of it the model keeps the log on disk, the election  *)
(* after a start, and the calls of the state machine.                      *)
(***************************************************************************)
EXTENDS Integers, Sequences, FiniteSets

CONSTANTS
  Ids,            \* entities
  Types,          \* types of the notifications that arrive
  HAModes,        \* the values of ha_enabled a node may be configured with
  Bootstrap,      \* bootstrap_cluster
  Faults,         \* which of "crash", "snapshot" and "smtp" may occur
  MaxCalls,       \* bound: requests handled
  MaxCrashes      \* bound

ASSUME ReactionnerAssumption ==
  /\ Types \subseteq {"UP", "DOWN", "ALERT", "RECOVERY"}
  /\ HAModes \subseteq BOOLEAN /\ Bootstrap \in BOOLEAN
  /\ Faults \subseteq {"crash", "snapshot", "smtp"}
  /\ MaxCalls \in Nat /\ MaxCrashes \in Nat

VARIABLES
  ha_enabled,     \* from the configuration: set once
  up,             \* the process runs
  leader,         \* raftNode.State() is Leader
  applyCh,        \* commands given to raftNode.Apply and not yet in the log
  log,            \* the Raft log on disk
  applied,        \* index of the last entry the state machine got
  snapshot,       \* index the last snapshot on disk stands for
  acknowledgments,
  handlers,       \* notifications between the start of notifyHandler and the check
  passed,         \* notifications past the check whose alert is not out yet
  mailing,        \* notifications whose sendEmail runs
  calls, crashes, \* counts
  ackedAt,        \* history: number of the request that acknowledged an entity
                  \* first and was answered 200, or 0
  resolved,       \* history: acknowledged entities reported healthy since
  base,           \* history: the index the state machine was started from
  decisions       \* history: what was decided last on each notification

vars == << ha_enabled, up, leader, applyCh, log, applied, snapshot, acknowledgments, handlers,
           passed, mailing, calls, crashes, ackedAt, resolved, base, decisions >>
notifyVars == << handlers, passed, mailing >>
raftVars == << ha_enabled, leader, applyCh, log, applied, snapshot, base >>

Command == [action : {"ACK", "RECOVERY"}, id : Ids]
Notification == [n : Nat, id : Ids, type : Types]

isLeader == ~ha_enabled \/ leader

Answered == {id \in Ids : ackedAt[id] # 0}

Healthy(type) == type \in {"UP", "RECOVERY"}

-----------------------------------------------------------------------------
(* The handlers.                                                            *)

Call == up /\ calls < MaxCalls /\ calls' = calls + 1

\* raftNode.Apply returns a future that nobody waits for
Propose(action, id) ==
  /\ applyCh' = Append(applyCh, [action |-> action, id |-> id])
  /\ UNCHANGED << ha_enabled, leader, log, applied, snapshot, base >>

AckLocallyToo(id) == acknowledgments' = acknowledgments \cup {id}     \* mutant
AckByLog(id) == UNCHANGED acknowledgments

Ack(id) ==
  /\ Call /\ isLeader
  /\ \/ ha_enabled /\ Propose("ACK", id) /\ AckByLog(id)
     \/ ~ha_enabled /\ acknowledgments' = acknowledgments \cup {id} /\ UNCHANGED raftVars
  /\ ackedAt' = IF id \in Answered THEN ackedAt ELSE [ackedAt EXCEPT ![id] = calls']
  /\ resolved' = resolved \ {id}
  /\ UNCHANGED << up, notifyVars, crashes, decisions >>

Notify(id, type) ==
  /\ Call
  /\ \/ /\ type = "RECOVERY" /\ ha_enabled /\ leader
        /\ Propose("RECOVERY", id)
        /\ ackedAt' = [ackedAt EXCEPT ![id] = 0] /\ resolved' = resolved \ {id}
     \/ /\ ~(type = "RECOVERY" /\ ha_enabled /\ leader)
        /\ resolved' = IF Healthy(type) THEN resolved \cup (Answered \cap {id}) ELSE resolved
        /\ UNCHANGED << ackedAt, raftVars >>
  /\ handlers' = handlers \cup {[n |-> calls', id |-> id, type |-> type]}
  /\ UNCHANGED << up, acknowledgments, passed, mailing, crashes, decisions >>

\* 400 for a body that is not JSON, 403 for an acknowledgment at a node that does
\* not lead, and GET /v1/status
Refuse == up /\ UNCHANGED vars

MutedUnlessDown(h) == h.id \in acknowledgments /\ h.type # "DOWN"    \* mutant
Muted(h) == h.id \in acknowledgments

\* processNotification up to the end of its read lock. Nothing proposes a MAINT
\* command, so the map of maintenances is empty and its check never mutes.
Check(h) ==
  /\ up /\ h \in handlers
  /\ handlers' = handlers \ {h}
  /\ \/ ~isLeader /\ decisions' = [decisions EXCEPT ![h.id] = "dropped"] /\ UNCHANGED passed
     \/ isLeader /\ Muted(h) /\ decisions' = [decisions EXCEPT ![h.id] = "muted"] /\ UNCHANGED passed
     \/ /\ isLeader /\ ~Muted(h)
        /\ decisions' = [decisions EXCEPT ![h.id] = "passed"]
        /\ passed' = passed \cup {h}
  /\ UNCHANGED << up, raftVars, acknowledgments, mailing, calls, crashes, ackedAt, resolved >>

\* the rest, without the lock: the line in the alert log, and go sendEmail
Alert(h) ==
  /\ up /\ h \in passed
  /\ passed' = passed \ {h} /\ mailing' = mailing \cup {h}
  /\ UNCHANGED << up, raftVars, acknowledgments, handlers, calls, crashes, ackedAt, resolved,
                  decisions >>

\* sent, disabled or failed: errors are logged and nothing is retried
MailDone(h) ==
  /\ up /\ h \in mailing /\ mailing' = mailing \ {h}
  /\ UNCHANGED << up, raftVars, acknowledgments, handlers, passed, calls, crashes, ackedAt,
                  resolved, decisions >>

-----------------------------------------------------------------------------
(* Raft, as setupRaft configures it, and the state machine.                 *)

CanLeadOnce == Bootstrap /\ log = << >>           \* mutant
CanLead == Bootstrap

\* the only voter elects itself; its state is Leader before the state machine
\* has been given the log
BecomeLeader ==
  /\ up /\ ha_enabled /\ CanLead /\ ~leader /\ leader' = TRUE
  /\ UNCHANGED << ha_enabled, up, applyCh, log, applied, snapshot, acknowledgments, notifyVars,
                  calls, crashes, ackedAt, resolved, base, decisions >>

\* the leader writes a command to disk, which commits it
AppendLog ==
  /\ up /\ leader /\ applyCh # << >>
  /\ log' = Append(log, Head(applyCh)) /\ applyCh' = Tail(applyCh)
  /\ UNCHANGED << ha_enabled, up, leader, applied, snapshot, acknowledgments, notifyVars,
                  calls, crashes, ackedAt, resolved, base, decisions >>

\* reactionnerFSM.Apply
Effect(command) ==
  IF command.action = "ACK" THEN acknowledgments \cup {command.id}
                            ELSE acknowledgments \ {command.id}

ApplyLog ==
  /\ up /\ leader /\ applied < Len(log)
  /\ applied' = applied + 1 /\ acknowledgments' = Effect(log[applied'])
  /\ UNCHANGED << ha_enabled, up, leader, applyCh, log, snapshot, notifyVars, calls, crashes,
                  ackedAt, resolved, base, decisions >>

\* Raft asks for a snapshot once enough entries have been applied; Persist
\* writes nothing
TakeSnapshot ==
  /\ "snapshot" \in Faults /\ up /\ applied > snapshot
  /\ snapshot' = applied
  /\ UNCHANGED << ha_enabled, up, leader, applyCh, log, applied, acknowledgments, notifyVars,
                  calls, crashes, ackedAt, resolved, base, decisions >>

-----------------------------------------------------------------------------
(* The process ends; all it has is on disk. Without Raft that is nothing:   *)
(* nobody can expect an acknowledgment to outlive it.                       *)

Ends ==
  /\ up' = FALSE /\ leader' = FALSE /\ applyCh' = << >> /\ acknowledgments' = {}
  /\ handlers' = {} /\ passed' = {} /\ mailing' = {}
  /\ ackedAt' = (IF ha_enabled THEN ackedAt ELSE [id \in Ids |-> 0])
  /\ resolved' = (IF ha_enabled THEN resolved ELSE {})
  /\ UNCHANGED << ha_enabled, log, applied, snapshot, calls, base, decisions >>

Crash == "crash" \in Faults /\ up /\ crashes < MaxCrashes /\ Ends /\ crashes' = crashes + 1

\* on port 465 the errors of Mail, Rcpt and Data are ignored; after a refusal
\* Data gives no writer and the write to it panics
MailPanics ==
  "smtp" \in Faults /\ up /\ mailing # {} /\ crashes < MaxCrashes /\ Ends /\ crashes' = crashes + 1

ReplayAll == 0                                    \* mutant: the log starts at the snapshot
ReplayFrom == snapshot

\* Restore reads nothing either: the state machine starts empty at the snapshot
Start ==
  /\ ~up /\ up' = TRUE
  /\ applied' = ReplayFrom /\ base' = snapshot
  /\ UNCHANGED << ha_enabled, leader, applyCh, log, snapshot, acknowledgments, notifyVars, calls,
                  crashes, ackedAt, resolved, decisions >>

-----------------------------------------------------------------------------
Init ==
  /\ ha_enabled \in HAModes
  /\ up = TRUE /\ leader = FALSE /\ applyCh = << >> /\ log = << >>
  /\ applied = 0 /\ snapshot = 0 /\ acknowledgments = {} /\ handlers = {} /\ passed = {}
  /\ mailing = {} /\ calls = 0 /\ crashes = 0 /\ ackedAt = [id \in Ids |-> 0] /\ resolved = {} /\ base = 0
  /\ decisions = [id \in Ids |-> "none"]

Next ==
  \/ \E id \in Ids : Ack(id) \/ \E type \in Types : Notify(id, type)
  \/ Refuse
  \/ \E h \in handlers : Check(h)
  \/ \E h \in passed : Alert(h)
  \/ \E h \in mailing : MailDone(h)
  \/ BecomeLeader \/ AppendLog \/ ApplyLog \/ TakeSnapshot
  \/ Crash \/ MailPanics \/ Start

Spec == Init /\ [][Next]_vars

\* Raft's goroutines run; somebody restarts a Reactionner that ended.
FairSpec ==
  Spec /\ WF_vars(BecomeLeader) /\ WF_vars(AppendLog) /\ WF_vars(ApplyLog) /\ WF_vars(Start)

-----------------------------------------------------------------------------
\* Types; the state machine is never ahead of the log, nor behind what it was
\* started from.
TypeOK ==
  /\ ha_enabled \in BOOLEAN
  /\ up \in BOOLEAN /\ leader \in BOOLEAN
  /\ applyCh \in Seq(Command) /\ log \in Seq(Command)
  /\ applied \in base .. Len(log) /\ snapshot \in base .. Len(log) /\ base \in Nat
  /\ acknowledgments \subseteq Ids
  /\ handlers \subseteq Notification /\ passed \subseteq Notification
  /\ mailing \subseteq Notification
  /\ calls \in Nat /\ crashes \in Nat
  /\ ackedAt \in [Ids -> Nat] /\ resolved \subseteq Answered
  /\ decisions \in [Ids -> {"none", "dropped", "muted", "passed"}]

\* What a sequence of commands leaves acknowledged: the entities whose last
\* command is an ACK.
AcksOf(commands) ==
  {id \in Ids : \E i \in DOMAIN commands :
     /\ commands[i] = [action |-> "ACK", id |-> id]
     /\ \A j \in DOMAIN commands : j > i => commands[j].id # id \/ commands[j].action = "ACK"}

\* With ha_enabled the acknowledgments are the effect of the entries given to the
\* state machine since it started, and of nothing else: two nodes, or one before
\* and after a restart, that got the same entries agree.
AcksAreApplied ==
  ha_enabled /\ up => acknowledgments = AcksOf(SubSeq(log, base + 1, applied))

\* "ackHandler manages manual acknowledgments to mute alerts" (main.go:86): on a
\* node without Raft no alert goes out for a notification that came after the
\* acknowledgment of its entity was answered with 200; only one that was under
\* way then may still go out, since the check is not repeated after its lock is
\* released. (With Raft the answer does not wait for the log, and an alert may
\* follow it whenever its notification came.)
AckMutes ==
  [][~ha_enabled => \A h \in mailing' \ mailing :
                      h.id \in Answered => h.n < ackedAt[h.id]]_vars

\* "Mute if a technician has already claimed the issue" (engine.go:31): an
\* acknowledgment of an issue that is over mutes no later one.
NewIssueAlerted ==
  [][\A h \in handlers \ handlers' :
       (up' /\ h.type = "DOWN" /\ decisions'[h.id] = "muted") => h.id \notin resolved]_vars

LastAbout(id, i) ==
  /\ i \in DOMAIN log /\ log[i].id = id
  /\ \A j \in DOMAIN log : j > i => log[j].id # id

\* What the log of a bootstrapped node says last of an entity gets to be what the
\* node does, after every crash and as long as no snapshot stands for the entry,
\* or the log says something newer. An entry behind a snapshot is lost at the
\* next restart (Persist writes nothing): nothing is said of it.
LogGetsApplied ==
  \A id \in Ids, i \in 1 .. MaxCalls :
    LastAbout(id, i) /\ i > snapshot
      ~> \/ up /\ LastAbout(id, i) /\ (id \in acknowledgments <=> log[i].action = "ACK")
         \/ ~LastAbout(id, i)
=============================================================================
