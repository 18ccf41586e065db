---------------------------- MODULE HistoryStore ----------------------------
(***************************************************************************)
(* Durable history: the collector's HistoryStore (history.mjs) queues      *)
(* records in memory and hands them in batches to a worker thread          *)
(* (history-worker.mjs) that owns the SQLite database.  The two threads    *)
(* share nothing but two message ports.  Deadlines, maintenance errors,    *)
(* failing transactions and the death of the worker happen at any moment.  *)
(*                                                                         *)
(* Records are numbered in the order enqueue() accepts them.  inFlight     *)
(* stands for both inFlight and inFlightCount, which the code always sets  *)
(* together: the batch is in flight when the count is not zero.            *)
(***************************************************************************)
EXTENDS Naturals, Sequences, FiniteSets

CONSTANTS
  QueueCapacity, BatchSize, MaxPendingQueries,   \* historyConfig
  MaxRows,                                       \* max_records of the database
  MaxRecords, MaxQueries, MaxMaintenance         \* bounds of the model

ASSUME HistoryAssumption ==
  /\ {QueueCapacity, BatchSize, MaxPendingQueries, MaxRows} \subseteq Nat \ {0}
  /\ BatchSize <= QueueCapacity                  \* historyConfig checks it
  /\ {MaxRecords, MaxQueries, MaxMaintenance} \subseteq Nat

VARIABLES
  \* --- HistoryStore ---
  storeStatus,       \* stats.status
  queue,        \* the queued records
  inFlight,     \* records in the batch handed to the worker
  written, failed,  \* stats
  waiting,      \* queries that wait for an answer
  closing,      \* how far close() has got
  closeError,   \* did close() fail?
  closePending, \* does close() wait for the worker's answer?
  late,         \* has the deadline of close() passed?
  \* --- the worker ---
  worker,       \* starting, running or gone
  committed,    \* records in the order their transactions committed
  rows,         \* records still in the database
  exitSeen,     \* workerExited
  toWorker, toMain,  \* the message ports
  \* --- history and bounds ---
  accepted,     \* records enqueue() has taken
  queries,      \* queries made
  maintenance   \* maintenance errors so far

main == <<storeStatus, queue, inFlight, written, failed, waiting, closing, closeError, closePending,
          late, exitSeen>>
thread == <<worker, committed, rows>>
storeVars == <<main, thread, toWorker, toMain, accepted, queries, maintenance>>

Statuses == {"disabled", "starting", "ready", "degraded", "closed"}
Messages ==
  [type : {"ready", "fatal", "maintenance-error", "error"}]
  \cup [type : {"exit"}, code : {0, 1}]
  \cup [type : {"batch"}, written : 0 .. BatchSize, failed : 0 .. BatchSize, error : BOOLEAN]
  \cup [type : {"answer"}, query : 0 .. MaxQueries, error : BOOLEAN]

HistoryInit ==
  /\ storeStatus = "disabled" /\ queue = <<>> /\ inFlight = 0 /\ written = 0 /\ failed = 0
  /\ waiting = {} /\ closing = "open" /\ closeError = FALSE /\ closePending = FALSE
  /\ late = FALSE /\ exitSeen = FALSE
  /\ worker = "none" /\ committed = <<>> /\ rows = <<>>
  /\ toWorker = <<>> /\ toMain = <<>>
  /\ accepted = 0 /\ queries = 0 /\ maintenance = 0

-----------------------------------------------------------------------------
(***************************************************************************)
(* HistoryStore, on the main thread.                                       *)
(***************************************************************************)
\* The constructor, when history is enabled, starts the worker.
Construct ==
  /\ storeStatus = "disabled"
  /\ storeStatus' = "starting" /\ worker' = "starting"
  /\ UNCHANGED <<queue, inFlight, written, failed, waiting, closing, closeError, closePending, late,
                 exitSeen, committed, rows, toWorker, toMain, accepted, queries, maintenance>>

Least(a, b) == IF a < b THEN a ELSE b
Batch(q) == SubSeq(q, 1, Least(BatchSize, Len(q)))
Rest(q) == SubSeq(q, Least(BatchSize, Len(q)) + 1, Len(q))

\* #drain hands over one batch at a time, and only while ready.
Drains(q, flight, st, allowClosing) ==
  flight = 0 /\ q # <<>> /\ st = "ready" /\ (closing = "open" \/ allowClosing)
DrainQueue(q, flight, st, allowClosing) ==
  IF Drains(q, flight, st, allowClosing)
  THEN /\ queue' = Rest(q)
       /\ inFlight' = Len(Batch(q))
       /\ toWorker' = Append(toWorker, [type |-> "batch", records |-> Batch(q)])
  ELSE /\ queue' = q
       /\ inFlight' = flight
       /\ UNCHANGED toWorker

HasRoom == Len(queue) < QueueCapacity
Enqueue ==
  /\ accepted < MaxRecords
  /\ closing = "open" /\ storeStatus \in {"starting", "ready"}
  /\ HasRoom
  /\ accepted' = accepted + 1
  /\ LET q == Append(queue, accepted + 1)
     IN IF Len(q) >= BatchSize THEN DrainQueue(q, inFlight, storeStatus, FALSE)
        ELSE queue' = q /\ UNCHANGED <<inFlight, toWorker>>
  /\ UNCHANGED <<storeStatus, written, failed, waiting, closing, closeError, closePending, late,
                 exitSeen, thread, toMain, queries, maintenance>>

\* The flush timer, which close() clears
FlushTimer ==
  /\ closing = "open"
  /\ Drains(queue, inFlight, storeStatus, FALSE)
  /\ DrainQueue(queue, inFlight, storeStatus, FALSE)
  /\ UNCHANGED <<storeStatus, written, failed, waiting, closing, closeError, closePending, late,
                 exitSeen, thread, toMain, accepted, queries, maintenance>>

\* query: #request registers the promise, then posts.
Query ==
  /\ queries < MaxQueries
  /\ storeStatus = "ready"
  /\ Cardinality(waiting) + (IF closePending THEN 1 ELSE 0) < MaxPendingQueries
  /\ queries' = queries + 1
  /\ waiting' = waiting \cup {queries + 1}
  /\ toWorker' = Append(toWorker, [type |-> "query", query |-> queries + 1])
  /\ UNCHANGED <<storeStatus, queue, inFlight, written, failed, closing, closeError, closePending,
                 late, exitSeen, thread, toMain, accepted, maintenance>>

Lost(flight) == flight + Len(queue)
\* #degrade: everything not answered yet counts as failed, every promise rejects,
\* that of a close() which waits for the worker included.
Degrade(flight, soFar) ==
  /\ storeStatus' = "degraded"
  /\ failed' = soFar + Lost(flight)
  /\ inFlight' = 0
  /\ queue' = <<>>
  /\ waiting' = {}
  /\ closePending' = FALSE
  /\ closeError' = (closeError \/ closePending)

\* Worker::terminate.  What the worker has posted already may still arrive.
Exit(code) == [type |-> "exit", code |-> code]
Terminate ==
  /\ worker' = "gone"
  /\ toWorker' = <<>>
  /\ toMain' = IF worker = "gone" THEN toMain ELSE Append(toMain, Exit(1))
  /\ UNCHANGED <<committed, rows>>

\* Mutant: close() clears the timers of the queries too.
ClearedByClose == waiting # {} /\ closing = "open"
TimerArmed == waiting # {}
\* The deadline of a query degrades the store and terminates the worker.
QueryTimeout ==
  /\ TimerArmed
  /\ Degrade(inFlight, failed)
  /\ Terminate
  /\ UNCHANGED <<written, closing, late, exitSeen, accepted, queries, maintenance>>

\* #onMessage, one disjunct per message; 'error' and 'exit' are the worker's events.
OnFatal(m) ==
  /\ m.type \in {"fatal", "error", "maintenance-error"}
  /\ Degrade(inFlight, failed)
  /\ UNCHANGED <<written, exitSeen, toWorker>>
OnExit(m) ==
  /\ m.type = "exit"
  /\ exitSeen' = TRUE
  /\ IF closing = "open" /\ m.code # 0 /\ storeStatus # "degraded"
     THEN Degrade(inFlight, failed)
     ELSE UNCHANGED <<storeStatus, failed, inFlight, queue, waiting, closePending, closeError>>
  /\ UNCHANGED <<written, toWorker>>
OnReady(m) ==
  /\ m.type = "ready"
  /\ storeStatus' = "ready"
  /\ DrainQueue(queue, inFlight, "ready", FALSE)
  /\ UNCHANGED <<failed, written, waiting, closePending, closeError, exitSeen>>
OnBatch(m) ==
  /\ m.type = "batch"
  /\ written' = written + m.written
  /\ IF m.error
     THEN Degrade(0, failed + m.failed) /\ UNCHANGED toWorker
     ELSE /\ failed' = failed + m.failed
          /\ DrainQueue(queue, 0, storeStatus, TRUE)
          /\ UNCHANGED <<storeStatus, waiting, closePending, closeError>>
  /\ UNCHANGED exitSeen
OnAnswer(m) ==
  /\ m.type = "answer"
  /\ waiting' = waiting \ {m.query}
  /\ IF m.query = 0 /\ closePending
     THEN closePending' = FALSE /\ closeError' = m.error
     ELSE UNCHANGED <<closePending, closeError>>
  /\ UNCHANGED <<storeStatus, failed, written, inFlight, queue, exitSeen, toWorker>>

OnMessage ==
  /\ toMain # <<>>
  /\ toMain' = Tail(toMain)
  /\ LET m == Head(toMain)
     IN OnFatal(m) \/ OnExit(m) \/ OnReady(m) \/ OnBatch(m) \/ OnAnswer(m)
  /\ UNCHANGED <<closing, late, thread, accepted, queries, maintenance>>

\* close(): a worker already known to be dead leaves nothing to wait for.
CloseCall ==
  /\ closing = "open" /\ storeStatus \notin {"disabled", "closed"}
  /\ IF storeStatus = "degraded" /\ exitSeen
     THEN closing' = "done" /\ storeStatus' = "closed"
     ELSE closing' = "draining" /\ UNCHANGED storeStatus
  /\ UNCHANGED <<queue, inFlight, written, failed, waiting, closeError, closePending, late,
                 exitSeen, thread, toWorker, toMain, accepted, queries, maintenance>>

\* The loop that drains the queue, every ten milliseconds until the deadline
CloseLoop ==
  /\ closing = "draining" /\ ~late
  /\ Drains(queue, inFlight, storeStatus, TRUE)
  /\ DrainQueue(queue, inFlight, storeStatus, TRUE)
  /\ UNCHANGED <<storeStatus, written, failed, waiting, closing, closeError, closePending, late,
                 exitSeen, thread, toMain, accepted, queries, maintenance>>

CloseDeadline ==
  /\ closing \in {"draining", "requested"} /\ ~late
  /\ late' = TRUE
  /\ UNCHANGED <<storeStatus, queue, inFlight, written, failed, waiting, closing, closeError,
                 closePending, exitSeen, thread, toWorker, toMain, accepted, queries, maintenance>>

Drained == queue = <<>> /\ inFlight = 0
\* After the loop: ask the worker to close its database.
CloseRequest ==
  /\ closing = "draining" /\ ~late /\ Drained
  /\ closing' = "requested"
  /\ closePending' = TRUE
  /\ toWorker' = IF worker = "gone" THEN toWorker ELSE Append(toWorker, [type |-> "close"])
  /\ UNCHANGED <<storeStatus, queue, inFlight, written, failed, waiting, closeError, late, exitSeen,
                 thread, toMain, accepted, queries, maintenance>>

\* The deadline passed first: what is queued has failed, a write may be in flight.
CloseTooLate ==
  /\ closing = "draining" /\ late
  /\ failed' = failed + Len(queue)
  /\ queue' = <<>>
  /\ closeError' = TRUE
  /\ Terminate
  /\ closing' = "done" /\ storeStatus' = "closed"
  /\ UNCHANGED <<inFlight, written, waiting, closePending, late, exitSeen, accepted, queries,
                 maintenance>>

RequestExpired == closing = "requested" /\ closePending /\ late
CloseRequestTimeout ==
  /\ RequestExpired
  /\ closePending' = FALSE
  /\ closeError' = TRUE
  /\ UNCHANGED <<storeStatus, queue, inFlight, written, failed, waiting, closing, late, exitSeen,
                 thread, toWorker, toMain, accepted, queries, maintenance>>

\* The promise of the request settled: close() returns or, terminating, throws.
CloseReturns ==
  /\ closing = "requested" /\ ~closePending
  /\ closing' = "done" /\ storeStatus' = "closed"
  /\ IF closeError THEN Terminate ELSE UNCHANGED <<thread, toWorker, toMain>>
  /\ UNCHANGED <<queue, inFlight, written, failed, waiting, closeError, closePending, late,
                 exitSeen, accepted, queries, maintenance>>

-----------------------------------------------------------------------------
(***************************************************************************)
(* history-worker.mjs, on its own thread.                                  *)
(***************************************************************************)
Post(ms) == toMain' = toMain \o ms

\* initializeDatabase and the first maintain()
WorkerStarts ==
  /\ worker = "starting"
  /\ \/ worker' = "running" /\ Post(<<[type |-> "ready"]>>)
     \/ worker' = "gone" /\ Post(<<[type |-> "fatal"], [type |-> "error"], Exit(1)>>)
  /\ UNCHANGED <<main, committed, rows, toWorker, accepted, queries, maintenance>>

\* maintain(): the oldest rows beyond max_records go.
Pruned(r) == IF Len(r) > MaxRows THEN SubSeq(r, Len(r) - MaxRows + 1, Len(r)) ELSE r

BatchAnswer(n, ok, error) ==
  [type |-> "batch", written |-> IF ok THEN n ELSE 0, failed |-> IF ok THEN 0 ELSE n,
   error |-> error]

\* Mutant: rows that were inserted count although the transaction rolled back.
CountsInserted(n) == {BatchAnswer(n, TRUE, TRUE)}
RolledBack(n) == {BatchAnswer(n, FALSE, TRUE)}

\* writeBatch: the transaction commits as a whole or not at all; reclaiming space
\* after the commit may fail, and then the rows are written all the same.
WriteBatch(records) ==
  \/ \E answer \in RolledBack(Len(records)) : Post(<<answer>>) /\ UNCHANGED <<committed, rows>>
  \/ \E error \in BOOLEAN :
       /\ committed' = committed \o records
       /\ rows' = Pruned(rows \o records)
       /\ Post(<<BatchAnswer(Len(records), TRUE, error)>>)

WorkerMessage ==
  /\ worker = "running"
  /\ toWorker # <<>>
  /\ toWorker' = Tail(toWorker)
  /\ LET m == Head(toWorker)
     IN \/ m.type = "batch" /\ WriteBatch(m.records) /\ UNCHANGED worker
        \/ /\ m.type = "query"
           /\ \E error \in BOOLEAN :
                Post(<<[type |-> "answer", query |-> m.query, error |-> error]>>)
           /\ UNCHANGED thread
        \/ /\ m.type = "close"
           /\ \/ /\ worker' = "gone"
                 /\ Post(<<[type |-> "answer", query |-> 0, error |-> FALSE], Exit(0)>>)
              \/ /\ Post(<<[type |-> "answer", query |-> 0, error |-> TRUE]>>)
                 /\ UNCHANGED worker
           /\ UNCHANGED <<committed, rows>>
  /\ UNCHANGED <<main, accepted, queries, maintenance>>

\* runMaintenance on its timer: a busy checkpoint or a full disk
MaintenanceFails ==
  /\ worker = "running"
  /\ maintenance < MaxMaintenance
  /\ maintenance' = maintenance + 1
  /\ Post(<<[type |-> "maintenance-error"]>>)
  /\ UNCHANGED <<main, thread, toWorker, accepted, queries>>

\* The thread ends on an uncaught error.
WorkerDies ==
  /\ worker = "running"
  /\ worker' = "gone"
  /\ toWorker' = <<>>
  /\ Post(<<[type |-> "error"], Exit(1)>>)
  /\ UNCHANGED <<main, committed, rows, accepted, queries, maintenance>>

Closing == CloseLoop \/ CloseRequest \/ CloseTooLate \/ CloseRequestTimeout \/ CloseReturns
HistoryNext ==
  \/ Construct \/ Enqueue \/ FlushTimer \/ Query \/ QueryTimeout \/ OnMessage
  \/ CloseCall \/ CloseLoop \/ CloseDeadline \/ CloseRequest \/ CloseTooLate
  \/ CloseRequestTimeout \/ CloseReturns
  \/ WorkerStarts \/ WorkerMessage \/ MaintenanceFails \/ WorkerDies

\* The event loop of the collector runs and its timers fire; the worker may fall
\* silent, and nobody has to call close().
HistoryFairness ==
  /\ WF_storeVars(OnMessage) /\ WF_storeVars(QueryTimeout)
  /\ WF_storeVars(CloseDeadline) /\ WF_storeVars(Closing)

HistorySpec == HistoryInit /\ [][HistoryNext]_storeVars /\ HistoryFairness

-----------------------------------------------------------------------------
Records == 1 .. MaxRecords
HistoryTypeOK ==
  /\ storeStatus \in Statuses
  /\ queue \in Seq(Records) /\ Len(queue) <= QueueCapacity
  /\ inFlight \in 0 .. BatchSize
  /\ written \in 0 .. MaxRecords
  /\ failed \in Nat
  /\ waiting \subseteq 1 .. MaxQueries
  /\ closing \in {"open", "draining", "requested", "done"}
  /\ {closeError, closePending, late, exitSeen} \subseteq BOOLEAN
  /\ worker \in {"none", "starting", "running", "gone"}
  /\ committed \in Seq(Records) /\ rows \in Seq(Records)
  /\ \A i \in DOMAIN toMain : toMain[i] \in Messages

\* An accepted record is queued, in flight, or counted as written or failed.
NothingForgotten == accepted <= written + failed + Len(queue) + inFlight

\* What is reported as written is in the database, each record once and in the
\* order of acceptance; and when close() returns without an error and no failure
\* was counted, that is every record ever accepted.
WrittenIsDurable ==
  /\ written <= Len(committed)
  /\ \A i, j \in DOMAIN committed : i < j => committed[i] < committed[j]
  /\ closing = "done" /\ ~closeError /\ failed = 0 => Len(committed) = accepted

\* The books of the store are true: no accepted record disappears from them, and
\* what they call written is durable, although batches are cut off by deadlines,
\* errors and deaths of the worker (history.mjs:223-257, 320-361,
\* history-worker.mjs:112-137).
BooksAreTrue == NothingForgotten /\ WrittenIsDurable

\* Whoever waits for the store is answered: every query settles, if only with an
\* error, and close() returns, although the worker may die or fall silent at any
\* point (history.mjs:223-257, 275-290, 357-360).
WaitersAnswered ==
  /\ \A q \in 1 .. MaxQueries : q \in waiting ~> q \notin waiting
  /\ closing # "open" ~> closing = "done"

=============================================================================
