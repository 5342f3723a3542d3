----------------------------- MODULE BrokerProofs -----------------------------
(* Theorems about one Broker, for any pool, channel and batch size. What is *)
(* written of a batch is the last of its results about each entity: that it *)
(* is also the newest needs every batch to be in the order of the posts.    *)
EXTENDS Broker, TLAPS, WellFoundedInduction

\* The channel never holds a number twice: what PointsAccounted needs to be
\* inductive.
QueueDistinct ==
  \A i, j \in DOMAIN dataQueue : i # j => dataQueue[i].n # dataQueue[j].n

BrokerInv == TypeOK /\ PointsAccounted /\ QueueDistinct

\* Points in the order of the posts, and each about the entity it was posted for.
Increasing(s) == \A i, j \in DOMAIN s : i < j => s[i].n < s[j].n
AsPosted(s, all) == \A i \in DOMAIN s : s[i].n \in DOMAIN all /\ all[s[i].n] = s[i].id
Before(s, t) == \A i \in DOMAIN s, j \in DOMAIN t : s[i].n < t[j].n

\* The channel is first in, first out, so what a worker holds is older than all
\* that waits: what NewestKept needs to be inductive.
InOrder ==
  /\ Increasing(dataQueue) /\ AsPosted(dataQueue, posts)
  /\ \A w \in Workers :
       LET batch == worker[w].batch
       IN  Increasing(batch) /\ AsPosted(batch, posts) /\ Before(batch, dataQueue)

OrderInv == BrokerInv /\ InOrder /\ NewestKept

-----------------------------------------------------------------------------
LEMMA NumbersOf ==
  ASSUME NEW s \in Seq(Point)
  PROVE  /\ Numbers(s) \subseteq Nat
         /\ \A p \in Point : Numbers(Append(s, p)) = Numbers(s) \cup {p.n}
<1>1. \A i \in DOMAIN s : s[i] \in Point
  OBVIOUS
<1>2. ASSUME NEW p \in Point
      PROVE  Numbers(Append(s, p)) = Numbers(s) \cup {p.n}
  <2>1. /\ DOMAIN Append(s, p) = DOMAIN s \cup {Len(s) + 1}
        /\ \A i \in DOMAIN s : Append(s, p)[i] = s[i]
        /\ Append(s, p)[Len(s) + 1] = p
    OBVIOUS
  <2> QED
    BY <2>1 DEF Numbers
<1> QED
  BY <1>1, <1>2 DEF Numbers, Point

LEMMA NumbersOfEmpty == Numbers(<< >>) = {}
BY DEF Numbers

LEMMA NumbersOfTail ==
  ASSUME NEW s \in Seq(Point), s # << >>,
         \A i, j \in DOMAIN s : i # j => s[i].n # s[j].n
  PROVE  /\ Head(s) \in Point /\ Tail(s) \in Seq(Point) /\ Len(Tail(s)) = Len(s) - 1
         /\ Numbers(s) = Numbers(Tail(s)) \cup {Head(s).n}
         /\ Head(s).n \notin Numbers(Tail(s))
         /\ \A i, j \in DOMAIN Tail(s) : i # j => Tail(s)[i].n # Tail(s)[j].n
<1>1. /\ Len(s) \in Nat \ {0} /\ Head(s) = s[1] /\ s[1] \in Point
      /\ Tail(s) \in Seq(Point) /\ Len(Tail(s)) = Len(s) - 1
      /\ DOMAIN s = 1 .. Len(s) /\ DOMAIN Tail(s) = 1 .. Len(s) - 1
  OBVIOUS
<1>2. \A i \in 1 .. Len(s) - 1 : Tail(s)[i] = s[i + 1]
  OBVIOUS
<1>3. \A i \in DOMAIN Tail(s) : i + 1 \in DOMAIN s /\ i + 1 # 1 /\ Tail(s)[i] = s[i + 1]
  BY <1>1, <1>2
<1>4. \A i \in DOMAIN s : i # 1 => i - 1 \in DOMAIN Tail(s) /\ s[i] = Tail(s)[i - 1]
  BY <1>1, <1>2
<1>5. Numbers(s) \subseteq Numbers(Tail(s)) \cup {Head(s).n}
  BY <1>1, <1>4 DEF Numbers
<1>6. Numbers(Tail(s)) \cup {Head(s).n} \subseteq Numbers(s)
  <2>1. 1 \in DOMAIN s
    BY <1>1
  <2> QED
    BY <1>1, <1>3, <2>1 DEF Numbers
<1>7. Head(s).n \notin Numbers(Tail(s))
  <2>1. 1 \in DOMAIN s
    BY <1>1
  <2>2. \A i \in DOMAIN Tail(s) : Tail(s)[i].n # s[1].n
    BY <1>3, <2>1
  <2> QED
    BY <1>1, <2>2 DEF Numbers
<1>8. \A i, j \in DOMAIN Tail(s) : i # j => Tail(s)[i].n # Tail(s)[j].n
  <2>1. \A i, j \in DOMAIN Tail(s) : i # j => i + 1 # j + 1
    BY <1>1
  <2> QED
    BY <1>3, <2>1
<1> QED
  BY <1>1, <1>5, <1>6, <1>7, <1>8

\* What a batch holds when one worker's batch changes and the others' do not.
LEMMA BatchedOf ==
  ASSUME NEW w \in Workers, worker \in [Workers -> Worker], worker' \in [Workers -> Worker],
         \A v \in Workers \ {w} : worker'[v].batch = worker[v].batch
  PROVE  /\ Batched = Numbers(worker[w].batch)
                        \cup UNION {Numbers(worker[v].batch) : v \in Workers \ {w}}
         /\ Batched' = Numbers(worker'[w].batch)
                        \cup UNION {Numbers(worker[v].batch) : v \in Workers \ {w}}
BY DEF Batched

-----------------------------------------------------------------------------
(* Types.                                                                   *)

LEMMA IngestType ==
  ASSUME TypeOK, NEW id \in Ids, Ingest(id)
  PROVE  TypeOK'
<1>1. posts' \in Seq(Ids) /\ Len(posts') \in Nat \ {0}
  BY DEF Ingest, TypeOK
<1>2. CASE dataQueue' = Append(dataQueue, [n |-> Len(posts'), id |-> id]) /\ HasRoom
           /\ UNCHANGED refused
  <2>1. [n |-> Len(posts'), id |-> id] \in Point
    BY <1>1 DEF Point
  <2>2. dataQueue' \in Seq(Point) /\ Len(dataQueue') <= QueueCap
    BY <1>2, <2>1, BrokerAssumption DEF TypeOK, HasRoom
  <2> QED
    BY <1>1, <1>2, <2>2 DEF Ingest, TypeOK
<1>3. CASE refused' = refused \cup {Len(posts')} /\ UNCHANGED dataQueue
  BY <1>1, <1>3 DEF Ingest, TypeOK
<1> QED
  BY <1>2, <1>3 DEF Ingest

BatchBound(p) ==
  LET len == Len(p.batch)
  IN  /\ p.pc = "waiting" => len = 0 \/ len < BatchSize
      /\ p.pc = "flushing" => len = 1 \/ len \in 1 .. BatchSize

LEMMA WorkerType ==
  ASSUME TypeOK, NEW w \in Workers, NEW p \in Worker, BatchBound(p),
         worker' = [worker EXCEPT ![w] = p], clock' \in Nat,
         dataQueue' \in Seq(Point) /\ Len(dataQueue') <= QueueCap,
         UNCHANGED << posts, refused >>, written' \subseteq Nat, dropped' \subseteq Nat,
         tsdb' \in [Ids -> SUBSET [stamp : Nat, n : Nat]]
  PROVE  TypeOK'
<1>1. worker' \in [Workers -> Worker]
  BY DEF TypeOK
<1>2. \A v \in Workers : BatchBound(worker'[v])
  BY DEF TypeOK, BatchBound
<1> QED
  BY <1>1, <1>2 DEF TypeOK, BatchBound

LEMMA ReceiveType ==
  ASSUME TypeOK, QueueDistinct, NEW w \in Workers, Receive(w)
  PROVE  TypeOK'
<1> DEFINE batch == Append(worker[w].batch, Head(dataQueue))
<1>1. /\ Head(dataQueue) \in Point
      /\ dataQueue' \in Seq(Point) /\ Len(dataQueue') <= QueueCap
  BY NumbersOfTail, BrokerAssumption DEF Receive, TypeOK, QueueDistinct
<1>2. /\ worker[w] \in Worker /\ worker[w].pc = "waiting"
      /\ Len(worker[w].batch) = 0 \/ Len(worker[w].batch) < BatchSize
  BY DEF Receive, TypeOK
<1>3. batch \in Seq(Point) /\ Len(batch) = Len(worker[w].batch) + 1 /\ Len(batch) \in Nat \ {0}
  BY <1>1, <1>2 DEF Worker
<1>4. CASE Full(batch)
  <2> DEFINE p == [pc |-> "flushing", batch |-> batch, stamp |-> clock + 1]
  <2>1. worker' = [worker EXCEPT ![w] = p] /\ clock' = clock + 1
    BY <1>4 DEF Receive, StartFlush, Add
  <2>2. p \in Worker /\ clock' \in Nat
    BY <1>3, <2>1 DEF Worker, TypeOK
  <2>3. BatchBound(p)
    BY <1>2, <1>3, BrokerAssumption DEF BatchBound, Worker
  <2> QED
    BY <1>1, <2>1, <2>2, <2>3, WorkerType DEF Receive, TypeOK
<1>5. CASE ~Full(batch)
  <2> DEFINE p == [worker[w] EXCEPT !.batch = batch]
  <2>1. worker' = [worker EXCEPT ![w] = p] /\ clock' = clock
    BY <1>5 DEF Receive, Add
  <2>2. p \in Worker /\ clock' \in Nat /\ p.pc = "waiting" /\ p.batch = batch
    BY <1>2, <1>3, <2>1 DEF Worker, TypeOK
  <2>3. BatchBound(p)
    BY <1>3, <1>5, <2>2, BrokerAssumption DEF BatchBound, Full
  <2> QED
    BY <1>1, <2>1, <2>2, <2>3, WorkerType DEF Receive, TypeOK
<1> QED
  BY <1>4, <1>5

LEMMA IntervalFlushType ==
  ASSUME TypeOK, NEW w \in Workers, IntervalFlush(w)
  PROVE  TypeOK'
<1> DEFINE p == [pc |-> "flushing", batch |-> worker[w].batch, stamp |-> clock + 1]
<1>1. worker' = [worker EXCEPT ![w] = p] /\ clock' = clock + 1
  BY DEF IntervalFlush, StartFlush
<1>2. /\ worker[w] \in Worker /\ worker[w].pc = "waiting"
      /\ Len(worker[w].batch) = 0 \/ Len(worker[w].batch) < BatchSize
      /\ Len(worker[w].batch) > 0
  BY DEF IntervalFlush, HasData, TypeOK
<1>3. p \in Worker /\ clock' \in Nat
  BY <1>1, <1>2 DEF Worker, TypeOK
<1>4. BatchBound(p)
  BY <1>2, BrokerAssumption DEF BatchBound, Worker
<1> QED
  BY <1>1, <1>3, <1>4, WorkerType DEF IntervalFlush, TypeOK

LEMMA StoredType ==
  ASSUME TypeOK, NEW w \in Workers
  PROVE  Stored(worker[w].batch, worker[w].stamp) \in [Ids -> SUBSET [stamp : Nat, n : Nat]]
<1>1. worker[w].batch \in Seq(Point) /\ worker[w].stamp \in Nat
  BY DEF TypeOK, Worker
<1>2. \A i \in DOMAIN worker[w].batch : worker[w].batch[i].n \in Nat
  <2>1. \A i \in DOMAIN worker[w].batch : worker[w].batch[i] \in Point
    BY <1>1
  <2> QED
    BY <2>1 DEF Point
<1>3. \A id \in Ids : tsdb[id] \subseteq [stamp : Nat, n : Nat]
  BY DEF TypeOK
<1> QED
  BY <1>1, <1>2, <1>3 DEF Stored

LEMMA NumbersOfBatch ==
  ASSUME TypeOK, NEW w \in Workers
  PROVE  Numbers(worker[w].batch) \subseteq Nat
<1>1. worker[w].batch \in Seq(Point)
  BY DEF TypeOK, Worker
<1> QED
  BY <1>1, NumbersOf

LEMMA FlushedType ==
  ASSUME TypeOK, NEW w \in Workers, Flushed(w)
  PROVE  TypeOK'
<1> DEFINE p == [worker[w] EXCEPT !.pc = "waiting", !.batch = << >>]
<1>1. worker' = [worker EXCEPT ![w] = p]
  BY DEF Flushed, Reset
<1>2. p \in Worker /\ p.batch = << >>
  <2>1. worker[w] \in Worker /\ << >> \in Seq(Point)
    BY DEF TypeOK
  <2> QED
    BY <2>1 DEF Worker
<1>3. BatchBound(p)
  <2>1. Len(p.batch) = 0 /\ p.pc = "waiting"
    BY <1>2 DEF TypeOK, Worker
  <2> QED
    BY <2>1 DEF BatchBound
<1>4. written' \subseteq Nat /\ dropped' \subseteq Nat
  BY NumbersOfBatch DEF Flushed, TypeOK
<1>5. tsdb' \in [Ids -> SUBSET [stamp : Nat, n : Nat]]
  BY StoredType DEF Flushed, TypeOK
<1> QED
  BY <1>1, <1>2, <1>3, <1>4, <1>5, WorkerType DEF Flushed, TypeOK

LEMMA CrashType ==
  ASSUME TypeOK, Crash
  PROVE  TypeOK'
<1>1. worker' \in [Workers -> Worker] /\ \A w \in Workers : worker'[w] = NewWorker
  BY DEF Crash, Worker, NewWorker
<1>2. \A w \in Workers : BatchBound(worker'[w])
  <2>1. NewWorker.pc = "waiting" /\ Len(NewWorker.batch) = 0
    BY DEF NewWorker
  <2> QED
    BY <1>1, <2>1 DEF BatchBound
<1>3. written' \subseteq Nat /\ dropped' \subseteq Nat
  <2>1. \A w \in Workers : Numbers(worker[w].batch) \subseteq Nat
    BY NumbersOfBatch
  <2>2. Numbers(dataQueue) \subseteq Nat
    BY NumbersOf DEF TypeOK
  <2>3. \A S \in SUBSET Workers : UNION {Numbers(worker[w].batch) : w \in S} \subseteq Nat
    BY <2>1
  <2>4. PICK taken \in SUBSET Workers :
          /\ written' = written \cup UNION {Numbers(worker[w].batch) : w \in taken}
          /\ dropped' = dropped \cup Numbers(dataQueue)
                          \cup UNION {Numbers(worker[w].batch) : w \in Workers \ taken}
    BY DEF Crash
  <2>5. Workers \ taken \in SUBSET Workers
    OBVIOUS
  <2> QED
    BY <2>2, <2>3, <2>4, <2>5 DEF TypeOK
<1>4. tsdb' \in [Ids -> SUBSET [stamp : Nat, n : Nat]]
  BY StoredType DEF Crash, TypeOK
<1>5. dataQueue' \in Seq(Point) /\ Len(dataQueue') <= QueueCap
  BY BrokerAssumption DEF Crash
<1> QED
  BY <1>1, <1>2, <1>3, <1>4, <1>5 DEF Crash, TypeOK, BatchBound

-----------------------------------------------------------------------------
(* Where every result is.                                                   *)

LEMMA BatchedIn ==
  ASSUME TypeOK
  PROVE  Batched \subseteq Nat /\ \A w \in Workers : Numbers(worker[w].batch) \subseteq Batched
BY NumbersOfBatch DEF Batched

\* The accounting over sets alone, apart from sequences and numbers.
Apart(all, ref, que, bat, wri, dro) ==
  /\ all = ref \cup que \cup bat \cup wri \cup dro
  /\ ref \cap (que \cup bat \cup wri \cup dro) = {} /\ que \cap (bat \cup wri \cup dro) = {}
  /\ bat \cap (wri \cup dro) = {} /\ wri \cap dro = {}

BatchesApart ==
  \A v, w \in Workers :
    v # w => Numbers(worker[v].batch) \cap Numbers(worker[w].batch) = {}

LEMMA AccountedOf ==
  /\ PointsAccounted <=>
       /\ Apart(1 .. Len(posts), refused, Numbers(dataQueue), Batched, written, dropped)
       /\ BatchesApart
  /\ PointsAccounted' <=>
       /\ Apart(1 .. Len(posts'), refused', Numbers(dataQueue'), Batched', written', dropped')
       /\ BatchesApart'
BY DEF PointsAccounted, Apart, BatchesApart

LEMMA ApartGrows ==
  ASSUME NEW all, NEW ref, NEW que, NEW bat, NEW wri, NEW dro, NEW k,
         Apart(all, ref, que, bat, wri, dro), k \notin all
  PROVE  /\ Apart(all \cup {k}, ref \cup {k}, que, bat, wri, dro)
         /\ Apart(all \cup {k}, ref, que \cup {k}, bat, wri, dro)
BY DEF Apart

LEMMA IngestAccounted ==
  ASSUME BrokerInv, NEW id \in Ids, Ingest(id)
  PROVE  PointsAccounted' /\ QueueDistinct'
<1> DEFINE k == Len(posts')
<1>1. /\ Len(posts) \in Nat /\ k = Len(posts) + 1
      /\ 1 .. k = (1 .. Len(posts)) \cup {k} /\ k \notin 1 .. Len(posts)
  BY DEF Ingest, BrokerInv, TypeOK
<1>2. /\ Batched' = Batched /\ written' = written /\ dropped' = dropped
      /\ \A w \in Workers : worker'[w] = worker[w]
  BY DEF Ingest, Batched
<1>3. k \notin refused \cup Numbers(dataQueue) \cup Batched \cup written \cup dropped
  BY <1>1 DEF BrokerInv, PointsAccounted
<1>4. Apart(1 .. Len(posts), refused, Numbers(dataQueue), Batched, written, dropped)
  BY AccountedOf DEF BrokerInv
<1>5. CASE dataQueue' = Append(dataQueue, [n |-> k, id |-> id]) /\ UNCHANGED refused
  <2>1. [n |-> k, id |-> id] \in Point /\ [n |-> k, id |-> id].n = k /\ dataQueue \in Seq(Point)
    BY <1>1 DEF Point, BrokerInv, TypeOK
  <2>2. Numbers(dataQueue') = Numbers(dataQueue) \cup {k}
    BY <1>5, <2>1, NumbersOf
  <2>3. PointsAccounted'
    <3>1. Apart(1 .. k, refused', Numbers(dataQueue'), Batched', written', dropped')
      <4>1. Apart((1 .. Len(posts)) \cup {k}, refused, Numbers(dataQueue) \cup {k},
                  Batched, written, dropped)
        BY <1>1, <1>4, ApartGrows
      <4> QED
        BY <1>1, <1>2, <1>5, <2>2, <4>1
    <3> QED
      BY <1>2, <3>1, AccountedOf DEF BrokerInv, BatchesApart
  <2>4. /\ DOMAIN dataQueue' = DOMAIN dataQueue \cup {Len(dataQueue) + 1}
        /\ \A i \in DOMAIN dataQueue : dataQueue'[i] = dataQueue[i]
        /\ dataQueue'[Len(dataQueue) + 1].n = k
    BY <1>5, <2>1
  <2>5. \A i \in DOMAIN dataQueue : dataQueue[i].n # k
    BY <1>3 DEF Numbers
  <2>6. QueueDistinct'
    BY <2>4, <2>5 DEF BrokerInv, QueueDistinct
  <2> QED
    BY <2>3, <2>6
<1>6. CASE refused' = refused \cup {k} /\ UNCHANGED dataQueue
  <2>1. Numbers(dataQueue') = Numbers(dataQueue) /\ QueueDistinct'
    BY <1>6 DEF BrokerInv, QueueDistinct
  <2>2. PointsAccounted'
    <3>1. Apart(1 .. k, refused', Numbers(dataQueue'), Batched', written', dropped')
      <4>1. Apart((1 .. Len(posts)) \cup {k}, refused \cup {k}, Numbers(dataQueue),
                  Batched, written, dropped)
        BY <1>1, <1>4, ApartGrows
      <4> QED
        BY <1>1, <1>2, <1>6, <2>1, <4>1
    <3> QED
      BY <1>2, <3>1, AccountedOf DEF BrokerInv, BatchesApart
  <2> QED
    BY <2>1, <2>2
<1> QED
  BY <1>5, <1>6 DEF Ingest

LEMMA ReceiveAccounted ==
  ASSUME BrokerInv, TypeOK', NEW w \in Workers, Receive(w)
  PROVE  PointsAccounted' /\ QueueDistinct'
<1> DEFINE h == Head(dataQueue)
<1>1. /\ h \in Point
      /\ Numbers(dataQueue) = Numbers(dataQueue') \cup {h.n} /\ h.n \notin Numbers(dataQueue')
      /\ QueueDistinct'
  BY NumbersOfTail DEF Receive, BrokerInv, TypeOK, QueueDistinct
<1>2. worker[w].batch \in Seq(Point)
  BY DEF BrokerInv, TypeOK, Worker
<1>3. /\ worker'[w].batch = Append(worker[w].batch, h)
      /\ \A v \in Workers \ {w} : worker'[v].batch = worker[v].batch
  BY DEF Receive, StartFlush, Add, BrokerInv, TypeOK, Worker
<1>4. Numbers(worker'[w].batch) = Numbers(worker[w].batch) \cup {h.n}
  BY <1>1, <1>2, <1>3, NumbersOf
<1>5. Batched' = Batched \cup {h.n}
  BY <1>3, <1>4, BatchedOf DEF BrokerInv, TypeOK
<1>6. h.n \in Numbers(dataQueue) /\ h.n \notin Batched /\ h.n \notin written \cup dropped /\ h.n \notin refused
  BY <1>1 DEF BrokerInv, PointsAccounted
<1>7. \A v \in Workers \ {w} : h.n \notin Numbers(worker[v].batch)
  BY <1>6, BatchedIn DEF BrokerInv
<1>8. \A u, v \in Workers :
        u # v => Numbers(worker'[u].batch) \cap Numbers(worker'[v].batch) = {}
  <2>1. \A v \in Workers \ {w} :
          /\ Numbers(worker'[v].batch) = Numbers(worker[v].batch)
          /\ Numbers(worker'[w].batch) \cap Numbers(worker[v].batch) = {}
    BY <1>3, <1>4, <1>7 DEF BrokerInv, PointsAccounted
  <2>2. \A u, v \in Workers \ {w} :
          u # v => Numbers(worker[u].batch) \cap Numbers(worker[v].batch) = {}
    BY DEF BrokerInv, PointsAccounted
  <2>3. \A u, v \in Workers \ {w} :
          u # v => Numbers(worker'[u].batch) \cap Numbers(worker'[v].batch) = {}
    BY <2>1, <2>2
  <2>4. \A v \in Workers \ {w} : Numbers(worker'[v].batch) \cap Numbers(worker'[w].batch) = {}
    BY <2>1
  <2> QED
    BY <2>1, <2>3, <2>4
<1>9. UNCHANGED << posts, refused, written, dropped >>
  BY DEF Receive
<1> QED
  <2>1. Apart(1 .. Len(posts'), refused', Numbers(dataQueue'), Batched', written', dropped')
    BY <1>1, <1>5, <1>6, <1>9, AccountedOf, ZenonT(30) DEF BrokerInv, Apart
  <2> QED
    BY <1>1, <1>8, <2>1, AccountedOf DEF BatchesApart

LEMMA IntervalFlushAccounted ==
  ASSUME BrokerInv, NEW w \in Workers, IntervalFlush(w)
  PROVE  PointsAccounted' /\ QueueDistinct'
<1>1. \A v \in Workers : worker'[v].batch = worker[v].batch
  BY DEF IntervalFlush, StartFlush, BrokerInv, TypeOK
<1>2. Batched' = Batched
  BY <1>1 DEF Batched
<1> QED
  BY <1>1, <1>2 DEF IntervalFlush, BrokerInv, PointsAccounted, QueueDistinct

LEMMA FlushedAccounted ==
  ASSUME BrokerInv, TypeOK', NEW w \in Workers, Flushed(w)
  PROVE  PointsAccounted' /\ QueueDistinct'
<1> DEFINE others == UNION {Numbers(worker[v].batch) : v \in Workers \ {w}}
<1>1. /\ worker'[w].batch = << >>
      /\ \A v \in Workers \ {w} : worker'[v].batch = worker[v].batch
  BY DEF Flushed, Reset, BrokerInv, TypeOK, Worker
<1>2. Batched = Numbers(worker[w].batch) \cup others /\ Batched' = others
  BY <1>1, BatchedOf, NumbersOfEmpty DEF BrokerInv, TypeOK
<1>3. Numbers(worker[w].batch) \cap others = {}
  BY DEF BrokerInv, PointsAccounted
<1>4. \A u, v \in Workers :
        u # v => Numbers(worker'[u].batch) \cap Numbers(worker'[v].batch) = {}
  BY <1>1, NumbersOfEmpty DEF BrokerInv, PointsAccounted
<1>5. /\ UNCHANGED << dataQueue, posts, refused >>
      /\ \/ written' = written \cup Numbers(worker[w].batch) /\ dropped' = dropped
         \/ dropped' = dropped \cup Numbers(worker[w].batch) /\ written' = written
  BY DEF Flushed
<1> HIDE DEF others
<1>6. PointsAccounted'
  BY <1>2, <1>3, <1>4, <1>5 DEF BrokerInv, PointsAccounted
<1> QED
  BY <1>5, <1>6 DEF BrokerInv, QueueDistinct

LEMMA CrashAccounted ==
  ASSUME BrokerInv, Crash
  PROVE  PointsAccounted' /\ QueueDistinct'
<1>1. PICK taken \in SUBSET Workers :
        /\ written' = written \cup UNION {Numbers(worker[w].batch) : w \in taken}
        /\ dropped' = dropped \cup Numbers(dataQueue)
                        \cup UNION {Numbers(worker[w].batch) : w \in Workers \ taken}
  BY DEF Crash
<1> DEFINE in == UNION {Numbers(worker[w].batch) : w \in taken}
           out == UNION {Numbers(worker[w].batch) : w \in Workers \ taken}
<1>2. Batched = in \cup out /\ in \cap out = {}
  BY DEF Batched, BrokerInv, PointsAccounted
<1>3. \A w \in Workers : Numbers(worker'[w].batch) = {}
  BY NumbersOfEmpty DEF Crash, NewWorker
<1>4. Batched' = {}
  BY <1>3 DEF Batched
<1>5. Numbers(dataQueue') = {} /\ QueueDistinct' /\ UNCHANGED << posts, refused >>
  BY NumbersOfEmpty DEF Crash, QueueDistinct
<1>6. written' = written \cup in /\ dropped' = dropped \cup Numbers(dataQueue) \cup out
  BY <1>1
<1> HIDE DEF in, out
<1> QED
  BY <1>2, <1>3, <1>4, <1>5, <1>6 DEF BrokerInv, PointsAccounted

-----------------------------------------------------------------------------
LEMMA InitInv == Init => BrokerInv
<1> SUFFICES ASSUME Init PROVE BrokerInv
  OBVIOUS
<1>1. \A w \in Workers : worker[w] = NewWorker /\ Numbers(worker[w].batch) = {}
  BY NumbersOfEmpty DEF Init, NewWorker
<1>2. NewWorker \in Worker /\ BatchBound(NewWorker)
  BY DEF NewWorker, Worker, BatchBound
<1>3. TypeOK
  BY <1>1, <1>2, BrokerAssumption DEF Init, TypeOK, BatchBound
<1>4. Batched = {} /\ Numbers(dataQueue) = {}
  BY <1>1, NumbersOfEmpty DEF Batched, Init
<1>5. PointsAccounted
  BY <1>1, <1>4 DEF PointsAccounted, Init
<1> QED
  BY <1>3, <1>5 DEF BrokerInv, QueueDistinct, Init

LEMMA NextInv == BrokerInv /\ [Next]_vars => BrokerInv'
<1> SUFFICES ASSUME BrokerInv, [Next]_vars PROVE BrokerInv'
  OBVIOUS
<1>1. ASSUME NEW id \in Ids, Ingest(id) PROVE BrokerInv'
  BY <1>1, IngestType, IngestAccounted DEF BrokerInv
<1>2. ASSUME NEW w \in Workers, Receive(w) PROVE BrokerInv'
  BY <1>2, ReceiveType, ReceiveAccounted DEF BrokerInv
<1>3. ASSUME NEW w \in Workers, IntervalFlush(w) PROVE BrokerInv'
  BY <1>3, IntervalFlushType, IntervalFlushAccounted DEF BrokerInv
<1>4. ASSUME NEW w \in Workers, Flushed(w) PROVE BrokerInv'
  BY <1>4, FlushedType, FlushedAccounted DEF BrokerInv
<1>5. CASE Crash
  BY <1>5, CrashType, CrashAccounted DEF BrokerInv
<1>6. CASE UNCHANGED vars
  <2>1. Batched' = Batched
    BY <1>6 DEF vars, Batched
  <2> QED
    BY <1>6, <2>1 DEF vars, BrokerInv, TypeOK, PointsAccounted, QueueDistinct
<1> QED
  BY <1>1, <1>2, <1>3, <1>4, <1>5, <1>6 DEF Next, BadRequest

-----------------------------------------------------------------------------
(* The order of the results, and what the database shows of them.           *)

\* Induction as well-foundedness: a set of naturals has a least element, a
\* bounded one a greatest.
LEMMA Least ==
  ASSUME NEW T, T \subseteq Nat, T # {}
  PROVE  \E n \in T : \A m \in T : n <= m
<1> DEFINE R == OpToRel(<, Nat)
<1>1. IsWellFoundedOn(R, Nat)
  BY NatLessThanWellFounded
<1>2. \A i, j \in Nat : i < j => << i, j >> \in R
  BY DEF OpToRel
<1> HIDE DEF R
<1>3. PICK n \in T : \A m \in T : ~ (<< m, n >> \in R)
  BY <1>1, WFMin
<1>4. \A m \in T : ~ (m < n)
  BY <1>2, <1>3
<1> QED
  BY <1>3, <1>4

LEMMA Greatest ==
  ASSUME NEW max \in Nat, NEW T, T \subseteq 0 .. max, T # {}
  PROVE  \E n \in T : \A m \in T : m <= n
<1> DEFINE D == {max - t : t \in T}
<1>1. D \subseteq Nat /\ D # {}
  <2>1. \A t \in T : max - t \in Nat
    OBVIOUS
  <2> QED
    BY <2>1
<1>2. PICK d \in D : \A e \in D : d <= e
  BY <1>1, Least
<1>3. PICK n \in T : d = max - n
  BY <1>2
<1>4. \A m \in T : max - n <= max - m
  BY <1>2, <1>3
<1> QED
  BY <1>3, <1>4

LEMMA OrderOfAppend ==
  ASSUME NEW s \in Seq(Point), NEW p \in Point, NEW all, Increasing(s), AsPosted(s, all),
         \A i \in DOMAIN s : s[i].n < p.n, p.n \in DOMAIN all, all[p.n] = p.id
  PROVE  Increasing(Append(s, p)) /\ AsPosted(Append(s, p), all)
<1>1. /\ DOMAIN Append(s, p) = DOMAIN s \cup {Len(s) + 1} /\ DOMAIN s = 1 .. Len(s)
      /\ \A i \in DOMAIN s : Append(s, p)[i] = s[i]
      /\ Append(s, p)[Len(s) + 1] = p
      /\ Len(s) \in Nat
  OBVIOUS
<1>2. Increasing(Append(s, p))
  <2> SUFFICES ASSUME NEW i \in DOMAIN Append(s, p), NEW j \in DOMAIN Append(s, p), i < j
               PROVE  Append(s, p)[i].n < Append(s, p)[j].n
    BY DEF Increasing
  <2>1. i \in DOMAIN s
    BY <1>1
  <2> QED
    BY <1>1, <2>1 DEF Increasing
<1>3. AsPosted(Append(s, p), all)
  BY <1>1 DEF AsPosted
<1> QED
  BY <1>2, <1>3

LEMMA OrderOfTail ==
  ASSUME NEW s \in Seq(Point), s # << >>, NEW all, Increasing(s), AsPosted(s, all)
  PROVE  /\ Head(s) \in Point /\ Head(s).n \in DOMAIN all /\ all[Head(s).n] = Head(s).id
         /\ Tail(s) \in Seq(Point) /\ Increasing(Tail(s)) /\ AsPosted(Tail(s), all)
         /\ \A i \in DOMAIN Tail(s) : Head(s).n < Tail(s)[i].n
         /\ \A t : Before(t, s) => Before(t, Tail(s)) /\ \A i \in DOMAIN t : t[i].n < Head(s).n
<1>1. /\ Head(s) = s[1] /\ 1 \in DOMAIN s /\ s[1] \in Point
      /\ Tail(s) \in Seq(Point)
      /\ DOMAIN s = 1 .. Len(s) /\ DOMAIN Tail(s) = 1 .. Len(s) - 1 /\ Len(s) \in Nat
  OBVIOUS
<1>2. \A i \in DOMAIN Tail(s) : i + 1 \in DOMAIN s /\ Tail(s)[i] = s[i + 1]
  OBVIOUS
<1>3. Increasing(Tail(s))
  BY <1>1, <1>2 DEF Increasing
<1>4. \A i \in DOMAIN Tail(s) : 1 < i + 1
  BY <1>1
<1>5. \A i \in DOMAIN Tail(s) : Head(s).n < Tail(s)[i].n
  BY <1>1, <1>2, <1>4 DEF Increasing
<1> QED
  BY <1>1, <1>2, <1>3, <1>5 DEF AsPosted, Before

LEMMA WrittenArePosted ==
  ASSUME BrokerInv
  PROVE  /\ written \subseteq DOMAIN posts /\ posts \in Seq(Ids)
         /\ \A n \in written : posts[n] \in Ids
<1>1. posts \in Seq(Ids) /\ DOMAIN posts = 1 .. Len(posts)
  BY DEF BrokerInv, TypeOK
<1>2. written \subseteq DOMAIN posts
  BY <1>1 DEF BrokerInv, PointsAccounted
<1> QED
  BY <1>1, <1>2

\* Of the lines of one entity in a request the database keeps the last: in a
\* batch that is in order, the newest.
LEMMA StoredIsNewest ==
  ASSUME BrokerInv, InOrder, NEW w \in Workers, NEW n \in Numbers(worker[w].batch)
  PROVE  /\ n \in DOMAIN posts /\ posts[n] \in Ids
         /\ \E p \in Stored(worker[w].batch, worker[w].stamp)[posts[n]] : p.n >= n
<1> DEFINE batch == worker[w].batch
           stamp == worker[w].stamp
<1>1. batch \in Seq(Point) /\ posts \in Seq(Ids)
  BY DEF BrokerInv, TypeOK, Worker
<1>2. Increasing(batch) /\ AsPosted(batch, posts)
  BY DEF InOrder
<1> HIDE DEF batch, stamp
<1>3. PICK i \in DOMAIN batch : batch[i].n = n
  BY DEF Numbers, batch
<1>4. n \in DOMAIN posts /\ posts[n] = batch[i].id /\ posts[n] \in Ids
  BY <1>1, <1>2, <1>3 DEF AsPosted
<1> DEFINE Same == {k \in DOMAIN batch : batch[k].id = posts[n]}
<1>5. PICK k \in Same : \A l \in Same : l <= k
  <2>1. Same \subseteq 0 .. Len(batch) /\ Same # {} /\ Len(batch) \in Nat
    BY <1>1, <1>3, <1>4
  <2> HIDE DEF Same
  <2> QED
    BY <2>1, Greatest
<1>6. /\ i \in Same /\ k \in DOMAIN batch /\ batch[k].id = posts[n]
      /\ i \in Nat /\ k \in Nat /\ i <= k
  BY <1>1, <1>3, <1>4, <1>5
<1>7. batch[k].n \in Nat /\ batch[i].n \in Nat
  <2>1. \A l \in DOMAIN batch : batch[l] \in Point
    BY <1>1
  <2> QED
    BY <1>6, <2>1 DEF Point
<1>8. batch[k].n >= n
  BY <1>2, <1>3, <1>6, <1>7 DEF Increasing
<1>9. \A l \in DOMAIN batch : l > k => batch[l].id # posts[n]
  <2> SUFFICES ASSUME NEW l \in DOMAIN batch, l > k, batch[l].id = posts[n] PROVE FALSE
    OBVIOUS
  <2>1. l \in Same /\ l \in Nat
    BY <1>1
  <2> QED
    BY <1>5, <1>6, <2>1
<1> DEFINE p == [stamp |-> stamp, n |-> batch[k].n]
<1>10. p \in Stored(batch, stamp)[posts[n]]
  BY <1>4, <1>6, <1>9 DEF Stored
<1>11. p.n >= n
  BY <1>8
<1> QED
  BY <1>4, <1>10, <1>11 DEF batch, stamp

\* The database forgets nothing of a series.
LEMMA NewestGrows ==
  ASSUME BrokerInv, InOrder, NewestKept, UNCHANGED posts,
         NEW taken \in SUBSET Workers,
         written' = written \cup UNION {Numbers(worker[w].batch) : w \in taken},
         \A id \in Ids :
           /\ tsdb[id] \subseteq tsdb'[id]
           /\ \A w \in taken : Stored(worker[w].batch, worker[w].stamp)[id] \subseteq tsdb'[id]
  PROVE  NewestKept'
<1> SUFFICES ASSUME NEW n \in written' PROVE \E p \in tsdb'[posts[n]] : p.n >= n
  BY DEF NewestKept
<1>1. CASE n \in written
  <2>1. posts[n] \in Ids /\ \E p \in tsdb[posts[n]] : p.n >= n
    BY <1>1, WrittenArePosted DEF NewestKept
  <2> QED
    BY <2>1
<1>2. CASE n \notin written
  <2>1. PICK w \in taken : n \in Numbers(worker[w].batch)
    BY <1>2
  <2> QED
    BY <2>1, StoredIsNewest
<1> QED
  BY <1>1, <1>2

LEMMA IngestOrder ==
  ASSUME OrderInv, NEW id \in Ids, Ingest(id)
  PROVE  InOrder' /\ NewestKept'
<1> DEFINE k == Len(posts')
           point == [n |-> k, id |-> id]
<1>1. /\ posts \in Seq(Ids) /\ posts' = Append(posts, id) /\ k = Len(posts) + 1
      /\ Len(posts) \in Nat
  BY DEF Ingest, OrderInv, BrokerInv, TypeOK
<1>2. /\ DOMAIN posts = 1 .. Len(posts) /\ DOMAIN posts' = DOMAIN posts \cup {k}
      /\ \A n \in DOMAIN posts : posts'[n] = posts[n]
      /\ posts'[k] = id
  BY <1>1
<1>3. point \in Point /\ point.n = k /\ point.id = id
  BY <1>1 DEF Point
<1> HIDE DEF k, point
<1>4. \A s : AsPosted(s, posts) => AsPosted(s, posts') /\ \A i \in DOMAIN s : s[i].n < k
  BY <1>1, <1>2 DEF AsPosted
<1>5. dataQueue \in Seq(Point) /\ \A w \in Workers : worker'[w] = worker[w]
  BY DEF Ingest, OrderInv, BrokerInv, TypeOK
<1>6. Increasing(dataQueue') /\ AsPosted(dataQueue', posts')
  <2>1. Increasing(dataQueue) /\ AsPosted(dataQueue, posts)
    BY DEF OrderInv, InOrder
  <2>2. CASE dataQueue' = Append(dataQueue, point)
    BY <1>2, <1>3, <1>4, <1>5, <2>1, <2>2, OrderOfAppend
  <2>3. CASE UNCHANGED dataQueue
    BY <1>4, <2>1, <2>3
  <2> QED
    BY <2>2, <2>3 DEF Ingest, k, point
<1>7. ASSUME NEW w \in Workers
      PROVE  Before(worker[w].batch, dataQueue')
  <2>1. Before(worker[w].batch, dataQueue) /\ AsPosted(worker[w].batch, posts)
    BY DEF OrderInv, InOrder
  <2>2. CASE dataQueue' = Append(dataQueue, point)
    <3>1. \A j \in DOMAIN dataQueue' :
            \/ j \in DOMAIN dataQueue /\ dataQueue'[j] = dataQueue[j]
            \/ dataQueue'[j] = point
      BY <1>3, <1>5, <2>2
    <3> QED
      BY <1>3, <1>4, <2>1, <3>1 DEF Before
  <2>3. CASE UNCHANGED dataQueue
    BY <2>1, <2>3
  <2> QED
    BY <2>2, <2>3 DEF Ingest, k, point
<1>8. InOrder'
  BY <1>4, <1>5, <1>6, <1>7 DEF OrderInv, InOrder
<1>9. NewestKept'
  <2>1. written \subseteq DOMAIN posts /\ UNCHANGED << written, tsdb >>
    BY WrittenArePosted DEF OrderInv, Ingest
  <2> QED
    BY <1>2, <2>1 DEF OrderInv, NewestKept
<1> QED
  BY <1>8, <1>9

LEMMA ReceiveOrder ==
  ASSUME OrderInv, NEW w \in Workers, Receive(w)
  PROVE  InOrder' /\ NewestKept'
<1> DEFINE h == Head(dataQueue)
           batch == Append(worker[w].batch, h)
<1>1. /\ dataQueue \in Seq(Point) /\ dataQueue # << >>
      /\ worker[w].batch \in Seq(Point)
      /\ Increasing(dataQueue) /\ AsPosted(dataQueue, posts)
      /\ \A v \in Workers : Before(worker[v].batch, dataQueue)
      /\ Increasing(worker[w].batch) /\ AsPosted(worker[w].batch, posts)
  BY DEF Receive, OrderInv, BrokerInv, TypeOK, Worker, InOrder
<1>2. /\ h \in Point /\ h.n \in DOMAIN posts /\ posts[h.n] = h.id
      /\ Increasing(Tail(dataQueue)) /\ AsPosted(Tail(dataQueue), posts)
      /\ \A i \in DOMAIN Tail(dataQueue) : h.n < Tail(dataQueue)[i].n
      /\ \A v \in Workers : Before(worker[v].batch, Tail(dataQueue))
      /\ \A i \in DOMAIN worker[w].batch : worker[w].batch[i].n < h.n
  BY <1>1, OrderOfTail
<1>3. /\ worker'[w].batch = batch
      /\ \A v \in Workers \ {w} : worker'[v].batch = worker[v].batch
  BY DEF Receive, StartFlush, Add, OrderInv, BrokerInv, TypeOK, Worker
<1>4. Increasing(batch) /\ AsPosted(batch, posts)
  BY <1>1, <1>2, OrderOfAppend
<1>5. Before(batch, Tail(dataQueue))
  <2>0. \A s \in Seq(Point) : \A p \in Point : \A i \in DOMAIN Append(s, p) :
          \/ i \in DOMAIN s /\ Append(s, p)[i] = s[i]
          \/ Append(s, p)[i] = p
    OBVIOUS
  <2>1. \A i \in DOMAIN batch :
          \/ i \in DOMAIN worker[w].batch /\ batch[i] = worker[w].batch[i]
          \/ batch[i] = h
    BY <1>1, <1>2, <2>0
  <2> HIDE DEF h, batch
  <2> QED
    BY <1>2, <2>1 DEF Before
<1>6. dataQueue' = Tail(dataQueue) /\ UNCHANGED << posts, written, tsdb >>
  BY DEF Receive
<1> HIDE DEF h, batch
<1>7. InOrder'
  <2> SUFFICES ASSUME NEW v \in Workers
               PROVE  /\ Increasing(worker'[v].batch) /\ AsPosted(worker'[v].batch, posts)
                      /\ Before(worker'[v].batch, Tail(dataQueue))
    BY <1>2, <1>6 DEF InOrder
  <2>1. CASE v = w
    BY <1>3, <1>4, <1>5, <2>1
  <2>2. CASE v # w
    BY <1>2, <1>3, <2>2 DEF OrderInv, InOrder
  <2> QED
    BY <2>1, <2>2
<1> QED
  BY <1>6, <1>7 DEF OrderInv, NewestKept

LEMMA IntervalFlushOrder ==
  ASSUME OrderInv, NEW w \in Workers, IntervalFlush(w)
  PROVE  InOrder' /\ NewestKept'
<1>1. \A v \in Workers : worker'[v].batch = worker[v].batch
  BY DEF IntervalFlush, StartFlush, OrderInv, BrokerInv, TypeOK
<1> QED
  BY <1>1 DEF IntervalFlush, OrderInv, InOrder, NewestKept

\* A batch given up and one not: the order of the rest is as it was.
LEMMA OrderOfFewer ==
  ASSUME InOrder, UNCHANGED posts,
         dataQueue' \in {dataQueue, << >>},
         \A w \in Workers : worker'[w].batch \in {worker[w].batch, << >>}
  PROVE  InOrder'
<1>1. /\ Increasing(<< >>) /\ AsPosted(<< >>, posts)
      /\ \A s : Before(<< >>, s) /\ Before(s, << >>)
  BY DEF Increasing, AsPosted, Before
<1>2. Increasing(dataQueue') /\ AsPosted(dataQueue', posts)
  BY <1>1 DEF InOrder
<1>3. ASSUME NEW w \in Workers
      PROVE  /\ Increasing(worker'[w].batch) /\ AsPosted(worker'[w].batch, posts)
             /\ Before(worker'[w].batch, dataQueue')
  BY <1>1 DEF InOrder
<1> QED
  BY <1>2, <1>3 DEF InOrder

LEMMA FlushedOrder ==
  ASSUME OrderInv, NEW w \in Workers, Flushed(w)
  PROVE  InOrder' /\ NewestKept'
<1>1. /\ worker'[w].batch = << >>
      /\ \A v \in Workers \ {w} : worker'[v].batch = worker[v].batch
  BY DEF Flushed, Reset, OrderInv, BrokerInv, TypeOK, Worker
<1>2. UNCHANGED << posts, dataQueue >>
  BY DEF Flushed
<1>3. InOrder'
  <2>1. \A v \in Workers : worker'[v].batch \in {worker[v].batch, << >>}
    BY <1>1
  <2> QED
    BY <1>2, <2>1, OrderOfFewer DEF OrderInv
<1>4. CASE /\ written' = written \cup Numbers(worker[w].batch)
           /\ tsdb' = Stored(worker[w].batch, worker[w].stamp)
  <2>1. written' = written \cup UNION {Numbers(worker[v].batch) : v \in {w}}
    BY <1>4
  <2> DEFINE stored == Stored(worker[w].batch, worker[w].stamp)
  <2>2. \A id \in Ids : tsdb[id] \subseteq stored[id]
    BY DEF Stored
  <2> HIDE DEF stored
  <2>3. \A id \in Ids :
          /\ tsdb[id] \subseteq tsdb'[id]
          /\ \A v \in {w} : Stored(worker[v].batch, worker[v].stamp)[id] \subseteq tsdb'[id]
    BY <1>4, <2>2 DEF stored
  <2>4. {w} \in SUBSET Workers
    OBVIOUS
  <2>5. BrokerInv /\ InOrder /\ NewestKept /\ UNCHANGED posts
    BY <1>2 DEF OrderInv
  <2>6. NewestKept'
    BY <2>1, <2>3, <2>4, <2>5, NewestGrows
  <2> QED
    BY <1>3, <2>6
<1>5. CASE UNCHANGED << written, tsdb >>
  BY <1>2, <1>3, <1>5 DEF OrderInv, NewestKept
<1> QED
  BY <1>4, <1>5 DEF Flushed

LEMMA CrashOrder ==
  ASSUME OrderInv, Crash
  PROVE  InOrder' /\ NewestKept'
<1>1. InOrder'
  <2>1. \A w \in Workers : worker'[w].batch = << >>
    BY DEF Crash, NewWorker
  <2> QED
    BY <2>1, OrderOfFewer DEF Crash, OrderInv
<1>2. PICK taken \in SUBSET Workers :
        /\ written' = written \cup UNION {Numbers(worker[w].batch) : w \in taken}
        /\ tsdb' = [id \in Ids |-> tsdb[id] \cup
                      UNION {Stored(worker[w].batch, worker[w].stamp)[id] : w \in taken}]
  BY DEF Crash
<1>3. UNCHANGED posts
  BY DEF Crash
<1>4. \A id \in Ids :
        /\ tsdb[id] \subseteq tsdb'[id]
        /\ \A w \in taken : Stored(worker[w].batch, worker[w].stamp)[id] \subseteq tsdb'[id]
  BY <1>2
<1> QED
  BY <1>1, <1>2, <1>3, <1>4, NewestGrows DEF OrderInv

LEMMA InitOrder == Init => OrderInv
<1> SUFFICES ASSUME Init PROVE OrderInv
  OBVIOUS
<1>1. dataQueue = << >> /\ \A w \in Workers : worker[w].batch = << >>
  BY DEF Init, NewWorker
<1>2. InOrder
  BY <1>1 DEF InOrder, Increasing, AsPosted, Before
<1>3. NewestKept
  BY DEF Init, NewestKept
<1> QED
  BY <1>2, <1>3, InitInv DEF OrderInv

LEMMA NextOrder == OrderInv /\ [Next]_vars => OrderInv'
<1> SUFFICES ASSUME OrderInv, [Next]_vars PROVE InOrder' /\ NewestKept'
  BY NextInv DEF OrderInv
<1>1. ASSUME NEW id \in Ids, Ingest(id) PROVE InOrder' /\ NewestKept'
  BY <1>1, IngestOrder
<1>2. ASSUME NEW w \in Workers, Receive(w) PROVE InOrder' /\ NewestKept'
  BY <1>2, ReceiveOrder
<1>3. ASSUME NEW w \in Workers, IntervalFlush(w) PROVE InOrder' /\ NewestKept'
  BY <1>3, IntervalFlushOrder
<1>4. ASSUME NEW w \in Workers, Flushed(w) PROVE InOrder' /\ NewestKept'
  BY <1>4, FlushedOrder
<1>5. CASE Crash
  BY <1>5, CrashOrder
<1>6. CASE UNCHANGED vars
  BY <1>6 DEF vars, OrderInv, InOrder, NewestKept
<1> QED
  BY <1>1, <1>2, <1>3, <1>4, <1>5, <1>6 DEF Next, BadRequest

\* Types hold for every pool of workers, capacity and batch size: the channel
\* never exceeds its capacity and no worker waits with a full batch.
THEOREM Typing == Spec => []TypeOK
<1>1. BrokerInv => TypeOK
  BY DEF BrokerInv
<1> QED
  BY InitInv, NextInv, <1>1, PTL DEF Spec

\* Every result posted is in exactly one place, whatever fails or crashes: no
\* result is batched by two workers or written twice.
THEOREM PointsAreAccounted == Spec => []PointsAccounted
<1>1. BrokerInv => PointsAccounted
  BY DEF BrokerInv
<1> QED
  BY InitInv, NextInv, <1>1, PTL DEF Spec

\* A written result is hidden in the database only by a newer one of its entity,
\* whatever the number of workers, the batch size, the failed writes and the
\* crashes: one request gives all its lines one timestamp (db_writer.go:51).
THEOREM NewestIsKept == Spec => []NewestKept
<1>1. OrderInv => NewestKept
  BY DEF OrderInv
<1> QED
  BY InitOrder, NextOrder, <1>1, PTL DEF Spec
=============================================================================
