-------------------------------- MODULE Broker --------------------------------
(***************************************************************************)
(* One Broker (cmd/broker): the handler that puts results on the dataQueue *)
(* channel and the pool of dbWorkers that batch them and write each batch  *)
(* to the time-series database in one POST. A batch belongs to its worker, *)
(* and the POST is synchronous: while it runs, the worker receives nothing.*)
(***************************************************************************)
EXTENDS Integers, Sequences, FiniteSets

CONSTANTS
  Ids,            \* the entities results are about: the series of the database
  Workers,        \* the dbWorker goroutines (worker_count)
  QueueCap,       \* capacity of dataQueue (50000 in the code)
  BatchSize,      \* batch_size
  Events,         \* which of "error" (a failed write) and "crash" may occur
  MaxPosts        \* bound: results posted to the broker

VARIABLES
  dataQueue,      \* buffered channel of results
  worker,         \* pc, batch and the timestamp of the request being built
  posts,          \* history: the entity of each result posted, in order
  refused,        \* history: numbers of results answered with 503
  written,        \* history: numbers of results in a request the database took
  dropped,        \* history: numbers of results lost by a write or a crash
  tsdb,           \* the points of each series: timestamp and result number
  clock           \* time.Now().UnixNano(): a new value for each request

vars == << dataQueue, worker, posts, refused, written, dropped, tsdb, clock >>

ASSUME BrokerAssumption ==
  /\ QueueCap \in Nat /\ BatchSize \in Nat /\ MaxPosts \in Nat
  /\ Events \subseteq {"error", "crash"}

Point == [n : Nat \ {0}, id : Ids]
Worker == [pc : {"waiting", "flushing"}, batch : Seq(Point), stamp : Nat]
NewWorker == [pc |-> "waiting", batch |-> << >>, stamp |-> 0]

Numbers(points) == {points[i].n : i \in DOMAIN points}
Batched == UNION {Numbers(worker[w].batch) : w \in Workers}

-----------------------------------------------------------------------------
(* POST /v1/broker/data: a non-blocking send, 202 or 503.                   *)

HasRoom == Len(dataQueue) < QueueCap

Ingest(id) ==
  /\ Len(posts) < MaxPosts
  /\ posts' = Append(posts, id)
  /\ \/ /\ HasRoom
        /\ dataQueue' = Append(dataQueue, [n |-> Len(posts'), id |-> id])
        /\ UNCHANGED refused
     \/ /\ ~HasRoom
        /\ refused' = refused \cup {Len(posts')}
        /\ UNCHANGED dataQueue
  /\ UNCHANGED << worker, written, dropped, tsdb, clock >>

\* another method (405) or a body that is not JSON (400)
BadRequest == UNCHANGED vars

-----------------------------------------------------------------------------
(* dbWorker: select on the channel and the ticker.                          *)

FullOffByOne(batch) == Len(batch) > BatchSize      \* mutant
Full(batch) == Len(batch) >= BatchSize

\* flushToTSDB: every line of the request gets the same timestamp
StartFlush(w, batch) ==
  /\ clock' = clock + 1
  /\ worker' = [worker EXCEPT ![w] = [pc |-> "flushing", batch |-> batch, stamp |-> clock']]

AddFirst(batch, point) == << point >> \o batch     \* mutant
Add(batch, point) == Append(batch, point)

Receive(w) ==
  /\ worker[w].pc = "waiting" /\ dataQueue # << >>
  /\ dataQueue' = Tail(dataQueue)
  /\ LET batch == Add(worker[w].batch, Head(dataQueue))
     IN  \/ /\ Full(batch)
            /\ StartFlush(w, batch)
         \/ /\ ~Full(batch)
            /\ worker' = [worker EXCEPT ![w].batch = batch]
            /\ UNCHANGED clock
  /\ UNCHANGED << posts, refused, written, dropped, tsdb >>

HasDataOffByOne(batch) == Len(batch) > 1           \* mutant
HasData(batch) == Len(batch) > 0

IntervalFlush(w) ==
  /\ worker[w].pc = "waiting" /\ HasData(worker[w].batch)
  /\ StartFlush(w, worker[w].batch)
  /\ UNCHANGED << dataQueue, posts, refused, written, dropped, tsdb >>

\* the database keeps one value per series and timestamp: of two results of one
\* entity in a request, the later line
Stored(batch, stamp) ==
  [id \in Ids |->
     tsdb[id] \cup
       {[stamp |-> stamp, n |-> batch[i].n] :
          i \in {k \in DOMAIN batch :
                   /\ batch[k].id = id
                   /\ \A l \in DOMAIN batch : l > k => batch[l].id # id}}]

ResetSkipped(w) == [worker EXCEPT ![w].pc = "waiting"]    \* mutant: no batch[:0]
Reset(w) == [worker EXCEPT ![w].pc = "waiting", ![w].batch = << >>]

\* the request is answered; a refusal (status >= 300) or an error is logged and
\* the batch forgotten all the same. After an error the database may have the
\* points or not.
Flushed(w) ==
  /\ worker[w].pc = "flushing"
  /\ worker' = Reset(w)
  /\ \/ /\ written' = written \cup Numbers(worker[w].batch)
        /\ tsdb' = Stored(worker[w].batch, worker[w].stamp)
        /\ UNCHANGED dropped
     \/ /\ "error" \in Events
        /\ dropped' = dropped \cup Numbers(worker[w].batch)
        /\ UNCHANGED << written, tsdb >>
  /\ UNCHANGED << dataQueue, posts, refused, clock >>

\* the broker has no graceful stop: whatever ends it, the queue and the batches
\* are gone, except what the database took of the requests under way
Crash ==
  /\ "crash" \in Events
  /\ \E taken \in SUBSET {w \in Workers : worker[w].pc = "flushing"} :
       /\ written' = written \cup UNION {Numbers(worker[w].batch) : w \in taken}
       /\ tsdb' = [id \in Ids |-> tsdb[id] \cup
                     UNION {Stored(worker[w].batch, worker[w].stamp)[id] : w \in taken}]
       /\ dropped' = dropped \cup Numbers(dataQueue)
                       \cup UNION {Numbers(worker[w].batch) : w \in Workers \ taken}
  /\ dataQueue' = << >> /\ worker' = [w \in Workers |-> NewWorker]
  /\ UNCHANGED << posts, refused, clock >>

-----------------------------------------------------------------------------
Init ==
  /\ dataQueue = << >> /\ worker = [w \in Workers |-> NewWorker]
  /\ posts = << >> /\ refused = {} /\ written = {} /\ dropped = {}
  /\ tsdb = [id \in Ids |-> {}] /\ clock = 0

Next ==
  \/ \E id \in Ids : Ingest(id)
  \/ BadRequest
  \/ \E w \in Workers : Receive(w) \/ IntervalFlush(w) \/ Flushed(w)
  \/ Crash

Spec == Init /\ [][Next]_vars

\* goroutines run and the ticker ticks; select picks at random among its ready
\* cases, so neither starves the other
WorkersRun == \A w \in Workers : SF_vars(Receive(w)) /\ SF_vars(IntervalFlush(w))
\* the database answers: nothing in the broker enforces it
TsdbAnswers == \A w \in Workers : WF_vars(Flushed(w))

FairSpec == Spec /\ WorkersRun /\ TsdbAnswers

-----------------------------------------------------------------------------
\* Types; a worker that waits has less than a full batch, one that writes has
\* something to write, and no batch outgrows batch_size.
TypeOK ==
  /\ dataQueue \in Seq(Point) /\ Len(dataQueue) <= QueueCap
  /\ worker \in [Workers -> Worker]
  /\ \A w \in Workers :
       LET len == Len(worker[w].batch)
       IN  /\ worker[w].pc = "waiting" => len = 0 \/ len < BatchSize
           /\ worker[w].pc = "flushing" => len = 1 \/ len \in 1 .. BatchSize
  /\ posts \in Seq(Ids)
  /\ refused \subseteq Nat /\ written \subseteq Nat /\ dropped \subseteq Nat
  /\ tsdb \in [Ids -> SUBSET [stamp : Nat, n : Nat]]
  /\ clock \in Nat

\* Every result posted is in one place: refused, in the channel, in one batch,
\* written or dropped. None is written twice, by one worker or by two.
PointsAccounted ==
  /\ 1 .. Len(posts) = refused \cup Numbers(dataQueue) \cup Batched \cup written \cup dropped
  /\ refused \cap (Numbers(dataQueue) \cup Batched \cup written \cup dropped) = {}
  /\ Numbers(dataQueue) \cap (Batched \cup written \cup dropped) = {}
  /\ Batched \cap (written \cup dropped) = {} /\ written \cap dropped = {}
  /\ \A v, w \in Workers :
       v # w => Numbers(worker[v].batch) \cap Numbers(worker[w].batch) = {}

\* A written result is hidden only by a later one of its entity: the lines of a
\* request share one timestamp, the time of the write (db_writer.go:51), and the
\* database keeps the last of them. Between two workers nothing orders the
\* requests, so this is all that holds of what the database shows.
NewestKept == \A n \in written : \E p \in tsdb[posts[n]] : p.n >= n

\* A result accepted by the broker does not stay in it: it is written or dropped.
AcceptedLeaves ==
  \A n \in 1 .. MaxPosts :
    n \in Numbers(dataQueue) \cup Batched ~> n \in written \cup dropped
=============================================================================
