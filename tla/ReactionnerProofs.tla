--------------------------- MODULE ReactionnerProofs ---------------------------
(***************************************************************************)
(* Theorems about the Reactionner, for all entities, types, modes and       *)
(* faults. The invariant has four parts: the types; what the state machine  *)
(* holds in terms of the log; without Raft, that the acknowledgments        *)
(* answered are the ones in memory; and that a notification past its check  *)
(* came before the acknowledgment of its entity.                            *)
(***************************************************************************)
EXTENDS Reactionner, SequenceTheorems, TLAPS

-----------------------------------------------------------------------------
(* Sequences of commands.                                                   *)

\* One more command has its effect on what the ones before it leave.
LEMMA AcksOfAppend ==
  ASSUME NEW s \in Seq(Command), NEW c \in Command
  PROVE  AcksOf(Append(s, c)) = IF c.action = "ACK" THEN AcksOf(s) \cup {c.id}
                                                    ELSE AcksOf(s) \ {c.id}
<1> DEFINE t == Append(s, c)
<1>1. /\ Len(s) \in Nat /\ DOMAIN s = 1 .. Len(s) /\ DOMAIN t = 1 .. Len(s) + 1
      /\ \A i \in 1 .. Len(s) : t[i] = s[i]
      /\ t[Len(s) + 1] = c
      /\ \A i \in 1 .. Len(s) : s[i] \in Command
  OBVIOUS
<1>2. c.id \in Ids /\ c.action \in {"ACK", "RECOVERY"}
  BY DEF Command
<1>3. ASSUME NEW id \in Ids, id # c.id
      PROVE  id \in AcksOf(t) <=> id \in AcksOf(s)
  <2>1. ASSUME id \in AcksOf(t) PROVE id \in AcksOf(s)
    <3>1. PICK i \in DOMAIN t : /\ t[i] = [action |-> "ACK", id |-> id]
                                /\ \A j \in DOMAIN t : j > i => t[j].id # id \/ t[j].action = "ACK"
      BY <2>1 DEF AcksOf
    <3>2. i \in 1 .. Len(s)
      BY <1>1, <1>3, <3>1
    <3> QED
      BY <1>1, <3>1, <3>2 DEF AcksOf
  <2>2. ASSUME id \in AcksOf(s) PROVE id \in AcksOf(t)
    <3>1. PICK i \in DOMAIN s : /\ s[i] = [action |-> "ACK", id |-> id]
                                /\ \A j \in DOMAIN s : j > i => s[j].id # id \/ s[j].action = "ACK"
      BY <2>2 DEF AcksOf
    <3>2. i \in DOMAIN t /\ t[i] = [action |-> "ACK", id |-> id]
      BY <1>1, <3>1
    <3>3. \A j \in DOMAIN t : j > i => t[j].id # id \/ t[j].action = "ACK"
      <4> SUFFICES ASSUME NEW j \in DOMAIN t, j > i PROVE t[j].id # id \/ t[j].action = "ACK"
        OBVIOUS
      <4>1. CASE j = Len(s) + 1
        BY <1>1, <1>3, <4>1
      <4>2. CASE j # Len(s) + 1
        <5>1. j \in DOMAIN s /\ t[j] = s[j]
          BY <1>1, <4>2
        <5> QED
          BY <3>1, <5>1
      <4> QED
        BY <4>1, <4>2
    <3> QED
      BY <3>2, <3>3 DEF AcksOf
  <2> QED
    BY <2>1, <2>2
<1>4. c.id \in AcksOf(t) <=> c.action = "ACK"
  <2>1. CASE c.action = "ACK"
    <3>1. c = [action |-> "ACK", id |-> c.id]
      BY <2>1 DEF Command
    <3>2. Len(s) + 1 \in DOMAIN t /\ t[Len(s) + 1] = [action |-> "ACK", id |-> c.id]
      BY <1>1, <3>1
    <3>3. \A j \in DOMAIN t : ~(j > Len(s) + 1)
      BY <1>1
    <3> QED
      BY <1>2, <2>1, <3>2, <3>3 DEF AcksOf
  <2>2. CASE c.action # "ACK"
    <3> SUFFICES ASSUME c.id \in AcksOf(t) PROVE FALSE
      BY <2>2
    <3>1. PICK i \in DOMAIN t : /\ t[i] = [action |-> "ACK", id |-> c.id]
                                /\ \A j \in DOMAIN t : j > i => t[j].id # c.id \/ t[j].action = "ACK"
      BY DEF AcksOf
    <3>2. i # Len(s) + 1
      BY <1>1, <2>2, <3>1
    <3>3. Len(s) + 1 \in DOMAIN t /\ Len(s) + 1 > i
      BY <1>1, <3>2
    <3> QED
      BY <1>1, <2>2, <3>1, <3>3
  <2> QED
    BY <2>1, <2>2
<1>5. AcksOf(t) \subseteq Ids /\ AcksOf(s) \subseteq Ids
  BY DEF AcksOf
<1> QED
  BY <1>2, <1>3, <1>4, <1>5

LEMMA AcksOfNone == AcksOf(<< >>) = {}
BY DEF AcksOf

\* What a longer log has between two indices is what the log had there.
LEMMA SubSeqOfAppend ==
  ASSUME NEW s \in Seq(Command), NEW c \in Command,
         NEW m \in Nat, NEW n \in m .. Len(s)
  PROVE  SubSeq(Append(s, c), m + 1, n) = SubSeq(s, m + 1, n)
<1>1. Append(s, c) \in Seq(Command) /\ Len(Append(s, c)) = Len(s) + 1
      /\ \A i \in 1 .. Len(s) : Append(s, c)[i] = s[i]
  OBVIOUS
<1> QED
  BY <1>1

LEMMA SubSeqNext ==
  ASSUME NEW s \in Seq(Command), NEW m \in Nat, NEW n \in m .. Len(s), n < Len(s)
  PROVE  /\ SubSeq(s, m + 1, n) \in Seq(Command)
         /\ s[n + 1] \in Command
         /\ SubSeq(s, m + 1, n + 1) = Append(SubSeq(s, m + 1, n), s[n + 1])
OBVIOUS

LEMMA SubSeqNone ==
  ASSUME NEW s \in Seq(Command), NEW n \in Nat
  PROVE  SubSeq(s, n + 1, n) = << >>
OBVIOUS

-----------------------------------------------------------------------------
(* The invariant.                                                           *)

\* a process that is not running has no acknowledgments
DownForgets == ~up => acknowledgments = {}

\* without Raft nothing leads, and what was answered is in the map
AnsweredIsKnown == ~ha_enabled => ~leader /\ Answered = acknowledgments

Inv == TypeOK /\ AcksAreApplied /\ DownForgets /\ AnsweredIsKnown

\* requests are numbered as they come; what has passed the check came before the
\* acknowledgment of its entity, if there is one
PassedCameFirst ==
  /\ \A h \in handlers \cup passed : h.n <= calls
  /\ ~ha_enabled => \A h \in passed : h.id \in Answered => h.n < ackedAt[h.id]

LEMMA InitInv == Init => Inv
<1> SUFFICES ASSUME Init PROVE Inv
  OBVIOUS
<1>1. TypeOK
  <2>1. ha_enabled \in BOOLEAN
    BY ReactionnerAssumption DEF Init
  <2>2. decisions \in [Ids -> {"none", "dropped", "muted", "passed"}]
    BY DEF Init
  <2>3. applyCh \in Seq(Command) /\ log \in Seq(Command) /\ Len(log) = 0
    BY DEF Init
  <2>4. applied \in base .. Len(log) /\ snapshot \in base .. Len(log) /\ base \in Nat
    BY <2>3 DEF Init
  <2>5. /\ up \in BOOLEAN /\ leader \in BOOLEAN /\ calls \in Nat /\ crashes \in Nat
        /\ acknowledgments = {} /\ handlers = {} /\ passed = {} /\ mailing = {}
        /\ ackedAt \in [Ids -> Nat] /\ resolved = {}
    BY DEF Init
  <2> QED
    BY <2>1, <2>2, <2>3, <2>4, <2>5 DEF TypeOK
<1>2. SubSeq(log, base + 1, applied) = << >>
  BY SubSeqNone, <1>1 DEF Init, TypeOK
<1>3. AcksAreApplied
  BY <1>2, AcksOfNone DEF Init, AcksAreApplied
<1> QED
  BY <1>1, <1>3 DEF Init, Inv, DownForgets, AnsweredIsKnown, Answered

\* A step that leaves the state machine and its log alone.
LEMMA SameAcks ==
  ASSUME Inv, TypeOK',
         UNCHANGED << ha_enabled, up, leader, log, base, applied, acknowledgments, ackedAt >>
  PROVE  Inv'
BY DEF Inv, AcksAreApplied, DownForgets, AnsweredIsKnown, Answered

\* An acknowledgment is numbered once, with a number no earlier request has.
LEMMA AckedAtOfAck ==
  ASSUME TypeOK, NEW id \in Ids, Ack(id)
  PROVE  /\ calls' = calls + 1 /\ calls' \in Nat
         /\ ackedAt' \in [Ids -> Nat]
         /\ Answered' = Answered \cup {id}
         /\ \A i \in Ids : ackedAt'[i] = IF i = id /\ id \notin Answered THEN calls + 1
                                         ELSE ackedAt[i]
<1>1. calls' = calls + 1 /\ calls' \in Nat /\ calls' # 0
  BY DEF Ack, Call, TypeOK
<1>2. ackedAt' = IF id \in Answered THEN ackedAt ELSE [ackedAt EXCEPT ![id] = calls']
  BY DEF Ack
<1>3. ackedAt \in [Ids -> Nat]
  BY DEF TypeOK
<1>4. ackedAt' \in [Ids -> Nat]
  BY <1>1, <1>2, <1>3
<1>5. \A i \in Ids : ackedAt'[i] = IF i = id /\ id \notin Answered THEN calls + 1
                                   ELSE ackedAt[i]
  BY <1>1, <1>2, <1>3
<1>6. Answered' = Answered \cup {id}
  BY <1>1, <1>3, <1>5 DEF Answered
<1> QED
  BY <1>1, <1>4, <1>5, <1>6

LEMMA AckInv ==
  ASSUME Inv, NEW id \in Ids, Ack(id)
  PROVE  Inv'
<1>0. calls' \in Nat /\ ackedAt' \in [Ids -> Nat] /\ Answered' = Answered \cup {id}
  BY AckedAtOfAck DEF Inv
<1>1. CASE ha_enabled
  <2>1. applyCh' \in Seq(Command) /\ UNCHANGED << ha_enabled, leader, log, applied, snapshot, base >>
    <3>1. [action |-> "ACK", id |-> id] \in Command /\ applyCh \in Seq(Command)
      BY DEF Command, Inv, TypeOK
    <3> QED
      BY <1>1, <3>1 DEF Ack, Propose
  <2>2. TypeOK'
    BY <1>0, <1>1, <2>1 DEF Ack, Call, AckByLog, notifyVars, Inv, TypeOK
  <2> QED
    BY <1>1, <2>1, <2>2 DEF Ack, Call, AckByLog, Inv, AcksAreApplied, DownForgets, AnsweredIsKnown
<1>2. CASE ~ha_enabled
  <2>1. TypeOK'
    BY <1>0, <1>2 DEF Ack, Call, raftVars, notifyVars, Inv, TypeOK
  <2> QED
    BY <1>0, <1>2, <2>1 DEF Ack, Call, raftVars, Inv, AcksAreApplied, DownForgets, AnsweredIsKnown
<1> QED
  BY <1>1, <1>2

LEMMA NotifyInv ==
  ASSUME Inv, NEW id \in Ids, NEW type \in Types, Notify(id, type)
  PROVE  Inv'
<1>1. [n |-> calls', id |-> id, type |-> type] \in Notification /\ calls' \in Nat
  BY DEF Notify, Call, Notification, Inv, TypeOK
<1>2. CASE type = "RECOVERY" /\ ha_enabled /\ leader
  <2>1. applyCh' \in Seq(Command) /\ UNCHANGED << ha_enabled, leader, log, applied, snapshot, base >>
    <3>1. [action |-> "RECOVERY", id |-> id] \in Command /\ applyCh \in Seq(Command)
      BY DEF Command, Inv, TypeOK
    <3> QED
      BY <1>2, <3>1 DEF Notify, Propose
  <2>2. ackedAt' \in [Ids -> Nat] /\ resolved' \subseteq Answered'
    <3>1. ackedAt' = [ackedAt EXCEPT ![id] = 0] /\ resolved' = resolved \ {id}
      BY <1>2 DEF Notify
    <3> QED
      BY <3>1 DEF Inv, TypeOK, Answered
  <2>3. TypeOK'
    BY <1>1, <1>2, <2>1, <2>2 DEF Notify, Inv, TypeOK
  <2> QED
    BY <1>2, <2>1, <2>3 DEF Notify, Inv, AcksAreApplied, DownForgets, AnsweredIsKnown, Call
<1>3. CASE ~(type = "RECOVERY" /\ ha_enabled /\ leader)
  <2>1. ackedAt' = ackedAt /\ resolved' \subseteq Answered'
    BY <1>3 DEF Notify, Inv, TypeOK, Answered
  <2>2. TypeOK'
    BY <1>1, <1>3, <2>1 DEF Notify, Inv, TypeOK, raftVars
  <2> QED
    BY <1>3, <2>1, <2>2, SameAcks DEF Notify, raftVars, Call
<1> QED
  BY <1>2, <1>3

LEMMA CheckInv ==
  ASSUME Inv, NEW h \in handlers, Check(h)
  PROVE  Inv'
<1>1. h \in Notification /\ h.id \in Ids
  BY DEF Inv, TypeOK, Notification
<1>2. /\ decisions' \in [Ids -> {"none", "dropped", "muted", "passed"}]
      /\ handlers' \subseteq Notification /\ passed' \subseteq Notification
  BY <1>1 DEF Check, Inv, TypeOK
<1>3. TypeOK'
  BY <1>2 DEF Check, Inv, TypeOK, raftVars, Answered
<1> QED
  BY <1>3, SameAcks DEF Check, raftVars

LEMMA AlertInv ==
  ASSUME Inv, NEW h \in passed, Alert(h)
  PROVE  Inv'
<1>1. TypeOK'
  BY DEF Alert, Inv, TypeOK, raftVars, Answered
<1> QED
  BY <1>1, SameAcks DEF Alert, raftVars

LEMMA AppendLogInv ==
  ASSUME Inv, AppendLog
  PROVE  Inv'
<1>1. /\ Head(applyCh) \in Command /\ Tail(applyCh) \in Seq(Command)
      /\ log \in Seq(Command) /\ applied \in base .. Len(log) /\ base \in Nat
      /\ snapshot \in base .. Len(log)
  BY DEF AppendLog, Inv, TypeOK
<1>2. log' \in Seq(Command) /\ Len(log') = Len(log) + 1 /\ applyCh' \in Seq(Command)
  BY <1>1 DEF AppendLog
<1>3. TypeOK'
  BY <1>1, <1>2 DEF AppendLog, Inv, TypeOK, Answered, notifyVars
<1>4. SubSeq(log', base + 1, applied) = SubSeq(log, base + 1, applied)
  BY <1>1, SubSeqOfAppend DEF AppendLog
<1> QED
  BY <1>3, <1>4 DEF AppendLog, Inv, AcksAreApplied, DownForgets, AnsweredIsKnown, Answered

LEMMA ApplyLogInv ==
  ASSUME Inv, ApplyLog
  PROVE  Inv'
<1>1. /\ log \in Seq(Command) /\ applied \in base .. Len(log) /\ base \in Nat
      /\ applied < Len(log) /\ applied' = applied + 1 /\ up /\ leader
  BY DEF ApplyLog, Inv, TypeOK
<1>2. ha_enabled
  BY <1>1 DEF Inv, AnsweredIsKnown
<1> DEFINE before == SubSeq(log, base + 1, applied)
<1>3. /\ before \in Seq(Command) /\ log[applied + 1] \in Command
      /\ SubSeq(log, base + 1, applied + 1) = Append(before, log[applied + 1])
  BY <1>1, SubSeqNext
<1>4. acknowledgments = AcksOf(before)
  BY <1>1, <1>2 DEF Inv, AcksAreApplied
<1>5. acknowledgments' = AcksOf(Append(before, log[applied + 1]))
  BY <1>1, <1>3, <1>4, AcksOfAppend DEF ApplyLog, Effect
<1>6. AcksAreApplied'
  BY <1>1, <1>3, <1>5 DEF ApplyLog, AcksAreApplied
<1>7. acknowledgments' \subseteq Ids
  BY <1>5 DEF AcksOf
<1>8. TypeOK'
  BY <1>1, <1>7 DEF ApplyLog, Inv, TypeOK, Answered, notifyVars
<1> QED
  BY <1>1, <1>2, <1>6, <1>8 DEF ApplyLog, Inv, DownForgets, AnsweredIsKnown

LEMMA EndsInv ==
  ASSUME Inv, Ends, crashes' = crashes + 1, UNCHANGED ha_enabled
  PROVE  Inv'
<1>1. /\ ackedAt' \in [Ids -> Nat] /\ resolved' \subseteq Answered'
      /\ applyCh' \in Seq(Command) /\ crashes' \in Nat
  BY DEF Ends, Inv, TypeOK, Answered
<1>2. TypeOK'
  BY <1>1 DEF Ends, Inv, TypeOK
<1> QED
  BY <1>2 DEF Ends, Inv, AcksAreApplied, DownForgets, AnsweredIsKnown, Answered

LEMMA StartInv ==
  ASSUME Inv, Start
  PROVE  Inv'
<1>1. log \in Seq(Command) /\ snapshot \in base .. Len(log) /\ base \in Nat
  BY DEF Inv, TypeOK
<1>2. TypeOK'
  BY <1>1 DEF Start, ReplayFrom, Inv, TypeOK, Answered, notifyVars
<1>3. SubSeq(log', base' + 1, applied') = << >>
  BY <1>1, SubSeqNone DEF Start, ReplayFrom
<1>4. acknowledgments' = {}
  BY DEF Start, Inv, DownForgets
<1> QED
  BY <1>2, <1>3, <1>4, AcksOfNone DEF Start, Inv, AcksAreApplied, DownForgets, AnsweredIsKnown, Answered

LEMMA NextInv ==
  ASSUME Inv, [Next]_vars
  PROVE  Inv'
<1>1. ASSUME NEW id \in Ids, Ack(id) PROVE Inv'
  BY <1>1, AckInv
<1>2. ASSUME NEW id \in Ids, NEW type \in Types, Notify(id, type) PROVE Inv'
  BY <1>2, NotifyInv
<1>3. CASE UNCHANGED vars
  BY <1>3, SameAcks DEF vars, Inv, TypeOK, Answered
<1>4. CASE Refuse
  BY <1>3, <1>4 DEF Refuse
<1>5. (\E h \in handlers : Check(h)) \/ (\E h \in passed : Alert(h)) => Inv'
  BY CheckInv, AlertInv
<1>6. ASSUME NEW h \in mailing, MailDone(h) PROVE Inv'
  <2>1. TypeOK'
    BY <1>6 DEF MailDone, raftVars, Inv, TypeOK, Answered
  <2> QED
    BY <1>6, <2>1, SameAcks DEF MailDone, raftVars
<1>7. CASE BecomeLeader
  BY <1>7 DEF BecomeLeader, Inv, TypeOK, AcksAreApplied, DownForgets, AnsweredIsKnown, Answered,
              notifyVars
<1>8. CASE AppendLog
  BY <1>8, AppendLogInv
<1>9. CASE ApplyLog
  BY <1>9, ApplyLogInv
<1>10. CASE TakeSnapshot
  <2>1. TypeOK'
    BY <1>10 DEF TakeSnapshot, Inv, TypeOK, Answered, notifyVars
  <2> QED
    BY <1>10, <2>1, SameAcks DEF TakeSnapshot
<1>11. CASE Crash
  BY <1>11, EndsInv DEF Crash, Ends
<1>12. CASE MailPanics
  BY <1>12, EndsInv DEF MailPanics, Ends
<1>13. CASE Start
  BY <1>13, StartInv
<1> QED
  BY <1>1, <1>2, <1>3, <1>4, <1>5, <1>6, <1>7, <1>8, <1>9, <1>10, <1>11, <1>12, <1>13 DEF Next

LEMMA PassedStep ==
  ASSUME Inv, PassedCameFirst, [Next]_vars
  PROVE  PassedCameFirst'
<1>0. /\ calls \in Nat /\ ackedAt \in [Ids -> Nat]
      /\ \A h \in handlers \cup passed : h \in Notification /\ h.id \in Ids /\ h.n \in Nat
  BY DEF Inv, TypeOK, Notification
<1>1. ASSUME NEW id \in Ids, Ack(id)
      PROVE  PassedCameFirst'
  <2>1. UNCHANGED << handlers, passed >> /\ ha_enabled' = ha_enabled
    BY <1>1 DEF Ack, notifyVars, raftVars, Propose
  <2>2. \A h \in handlers \cup passed : h.n <= calls'
    BY <1>0, <1>1, AckedAtOfAck DEF Inv, PassedCameFirst
  <2>3. ASSUME ~ha_enabled, NEW h \in passed, h.id \in Answered'
        PROVE  h.n < ackedAt'[h.id]
    <3>1. CASE h.id = id /\ id \notin Answered
      BY <1>0, <1>1, <3>1, AckedAtOfAck DEF Inv, PassedCameFirst
    <3>2. CASE ~(h.id = id /\ id \notin Answered)
      BY <1>0, <1>1, <2>3, <3>2, AckedAtOfAck DEF Inv, PassedCameFirst
    <3> QED
      BY <3>1, <3>2
  <2> QED
    BY <2>1, <2>2, <2>3 DEF PassedCameFirst
<1>2. ASSUME NEW id \in Ids, NEW type \in Types, Notify(id, type)
      PROVE  PassedCameFirst'
  <2>1. /\ calls' = calls + 1 /\ UNCHANGED passed
        /\ \A h \in handlers' : h \in handlers \/ h.n = calls'
    BY <1>2 DEF Notify, Call
  <2>2. ~ha_enabled' => ~ha_enabled /\ ackedAt' = ackedAt
    BY <1>2 DEF Notify, Propose, raftVars
  <2> QED
    BY <1>0, <2>1, <2>2 DEF PassedCameFirst, Answered
<1>3. ASSUME NEW h \in handlers, Check(h)
      PROVE  PassedCameFirst'
  <2>1. UNCHANGED << ha_enabled, calls, ackedAt >>
    BY <1>3 DEF Check, raftVars
  <2>2. handlers' \subseteq handlers /\ passed' \subseteq passed \cup {h}
    BY <1>3 DEF Check
  <2>3. ~ha_enabled /\ h \in passed' => h \in passed \/ h.id \notin Answered
    BY <1>3 DEF Check, Muted, Inv, AnsweredIsKnown
  <2> QED
    BY <2>1, <2>2, <2>3 DEF PassedCameFirst, Answered
<1>4. ASSUME NEW h \in passed, Alert(h)
      PROVE  PassedCameFirst'
  BY <1>4 DEF Alert, raftVars, PassedCameFirst, Answered
<1>5. CASE UNCHANGED << ha_enabled, handlers, passed, calls, ackedAt >>
  BY <1>5 DEF PassedCameFirst, Answered
<1>6. CASE Ends
  BY <1>6 DEF Ends, PassedCameFirst
<1> QED
  BY <1>1, <1>2, <1>3, <1>4, <1>5, <1>6
     DEF Next, vars, Refuse, MailDone, BecomeLeader, AppendLog, ApplyLog, TakeSnapshot, Crash,
         MailPanics, Start, raftVars, notifyVars

LEMMA Invariance == Spec => [](Inv /\ PassedCameFirst)
<1>1. Init => PassedCameFirst
  BY DEF Init, PassedCameFirst
<1> QED
  BY <1>1, InitInv, NextInv, PassedStep, PTL DEF Spec

-----------------------------------------------------------------------------
\* Every variable keeps its type, and the state machine stays between what it
\* was started from and the end of the log.
THEOREM Typing == Spec => []TypeOK
BY Invariance, PTL DEF Inv

\* With Raft the acknowledgments are the effect of the entries given to the state
\* machine since it started, through crashes, restarts and snapshots.
THEOREM AcksFollowLog == Spec => []AcksAreApplied
BY Invariance, PTL DEF Inv

\* Without Raft an acknowledgment answered with 200 mutes every notification that
\* comes after it. One that passed the check before it may still be alerted
\* after it: engine.go looks once (32), and alerts without the lock (40, 44).
THEOREM AcksMute == Spec => AckMutes
<1> DEFINE A == ~ha_enabled => \A h \in mailing' \ mailing :
                                 h.id \in Answered => h.n < ackedAt[h.id]
<1>1. ASSUME PassedCameFirst, [Next]_vars PROVE A
  <2> SUFFICES ASSUME ~ha_enabled, NEW h \in mailing' \ mailing, h.id \in Answered
               PROVE  h.n < ackedAt[h.id]
    OBVIOUS
  <2>1. h \in passed
    BY <1>1 DEF Next, vars, Ack, Notify, Refuse, Check, Alert, MailDone, BecomeLeader, AppendLog,
       ApplyLog, TakeSnapshot, Crash, MailPanics, Ends, Start, notifyVars
  <2> QED
    BY <1>1, <2>1 DEF PassedCameFirst
<1>2. PassedCameFirst /\ [Next]_vars => [A]_vars
  BY <1>1
<1> QED
  BY Invariance, <1>2, PTL DEF Spec, AckMutes
=============================================================================
