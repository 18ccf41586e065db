----------------------------- MODULE TraceExport -----------------------------
(***************************************************************************)
(* The trace of one node: RuntimeTraceSink hands every event to the        *)
(* OTLP exporter, which posts spans from a thread of its own out of a      *)
(* bounded queue, and then records the frame in the PCAPNG capture and     *)
(* tells the telemetry service where in the file it is.  The file may be   *)
(* read at any time and the node may be killed at any time, so the file is *)
(* made of cells that are written one by one.  The application calls the   *)
(* sink from one thread; it destroys it when it ends.                      *)
(***************************************************************************)
EXTENDS Naturals, Sequences

CONSTANTS
  QueueLimit,       \* config.observability.otlp.queue_capacity
  MaxFileBytes,     \* max_file_bytes, in cells
  MaxPackets,       \* max_packets
  HeaderSize,       \* cells of the section and of the interface block
  FrameSizes,       \* cells of a packet block
  MaxEvents         \* bound of the model

\* The section and the interface block.
Headers == 2

ASSUME TraceAssumption ==
  /\ {QueueLimit, MaxPackets, HeaderSize} \subseteq Nat \ {0} /\ {MaxFileBytes, MaxEvents} \subseteq Nat
  /\ Headers * HeaderSize <= MaxFileBytes
  /\ FrameSizes \subseteq Nat \ {0}

VARIABLES
  app,              \* what the application thread does next
  events,           \* events traced so far; event n is the number n
  spans, stopping, active,     \* of OtlpHttpTraceSink::Impl
  poster,           \* what its thread does next
  payload,          \* the span it holds: <<>> or <<span>>
  enqueued,         \* history: spans that entered the queue
  exported,         \* history: spans that were posted, whether or not anyone got them
  gaveUp,           \* history: the destructor stopped waiting while spans were queued
  capture,          \* capture_: "open", "stopped" or "closed"
  cells,            \* the cells of the file
  block,            \* the block being written
  bytesWritten, packets, lastOffset,   \* of WriterState
  reports           \* what the telemetry service was told

otlpVars == <<spans, stopping, active, poster, payload, enqueued, exported, gaveUp>>
captureFileVars == <<capture, cells, block, bytesWritten, packets, lastOffset, reports>>
traceVars == <<app, events, otlpVars, captureFileVars>>

\* Blocks 1 and 2 are the headers; the frame of event n is block n + 2.
NoBlock == [number |-> 0, size |-> 0, position |-> 0, done |-> 0]

TraceInit ==
  /\ app = "header" /\ events = 0
  /\ spans = <<>> /\ stopping = FALSE /\ active = FALSE /\ poster = "check" /\ payload = <<>>
  /\ enqueued = <<>> /\ exported = <<>> /\ gaveUp = FALSE
  /\ capture = "open" /\ cells = <<>> /\ block = NoBlock /\ bytesWritten = 0 /\ packets = 0 /\ lastOffset = 0
  /\ reports = {}

-----------------------------------------------------------------------------
\* enqueue_span of on_send or on_receive: dropped when the queue is full, and
\* counted nowhere.  The spans of on_error and on_processing, which no frame
\* follows, are not modelled.
Trace ==
  /\ app = "run" /\ events < MaxEvents /\ events' = events + 1
  /\ IF stopping \/ Len(spans) >= QueueLimit
     THEN app' = "capture" /\ UNCHANGED <<spans, enqueued>>
     ELSE /\ app' = "notify" /\ spans' = Append(spans, events + 1) /\ enqueued' = Append(enqueued, events + 1)
  /\ UNCHANGED <<stopping, active, poster, payload, exported, gaveUp, captureFileVars>>
Notified == IF poster = "blocked" THEN "check" ELSE poster
NotifyReady ==
  /\ app = "notify" /\ app' = "capture" /\ poster' = Notified
  /\ UNCHANGED <<events, spans, stopping, active, payload, enqueued, exported, gaveUp, captureFileVars>>

-----------------------------------------------------------------------------
\* The worker: wait, under the lock, for a span or for the end.
Take ==
  /\ poster = "check"
  /\ \/ spans # <<>> /\ payload' = <<Head(spans)>> /\ spans' = Tail(spans) /\ active' = TRUE /\ poster' = "post"
     \/ spans = <<>> /\ ~stopping /\ poster' = "blocked" /\ UNCHANGED <<payload, spans, active>>
     \/ spans = <<>> /\ stopping /\ poster' = "done" /\ UNCHANGED <<payload, spans, active>>
  /\ UNCHANGED <<app, events, stopping, enqueued, exported, gaveUp, captureFileVars>>
\* post_json: best effort; every wait in it is bounded.
PostSpan ==
  /\ poster = "post" /\ poster' = "posted" /\ exported' = exported \o payload /\ payload' = <<>>
  /\ UNCHANGED <<app, events, spans, stopping, active, enqueued, gaveUp, captureFileVars>>
Posted ==
  /\ poster = "posted" /\ poster' = "notify" /\ active' = FALSE
  /\ UNCHANGED <<app, events, spans, stopping, payload, enqueued, exported, gaveUp, captureFileVars>>
NotifyDrained ==
  /\ poster = "notify" /\ poster' = "check"
  /\ app' = IF app = "waiting" THEN "drain" ELSE app
  /\ UNCHANGED <<events, spans, stopping, active, payload, enqueued, exported, gaveUp, captureFileVars>>

-----------------------------------------------------------------------------
\* write_block: the limits, then the cells.
Fits(size) == bytesWritten + size <= MaxFileBytes
\* Mutant: only this frame is given up.
SkipFrame == UNCHANGED capture /\ app' = "run" /\ block' = NoBlock
\* capture_frame catches what is thrown and gives the sink up, for good.
StopCapture == capture' = "stopped" /\ app' = "run" /\ block' = NoBlock
Begin(number, size) == block' = [number |-> number, size |-> size, position |-> Len(cells), done |-> 0]
\* The constructor writes the headers; a file has room for them.
WriteHeader ==
  /\ app = "header" /\ block = NoBlock /\ app' = "write"
  /\ Begin(IF bytesWritten = 0 THEN 1 ELSE 2, HeaderSize)
  /\ UNCHANGED <<events, otlpVars, capture, cells, bytesWritten, packets, lastOffset, reports>>
CaptureFrame ==
  /\ app = "capture"
  /\ \/ capture # "open" /\ app' = "run" /\ UNCHANGED <<capture, block>>
     \/ /\ capture = "open"
        /\ \E size \in FrameSizes :
             IF packets < MaxPackets /\ Fits(size)
             THEN app' = "write" /\ Begin(events + Headers, size) /\ UNCHANGED capture
             ELSE StopCapture
  /\ UNCHANGED <<events, otlpVars, cells, bytesWritten, packets, lastOffset, reports>>
WriteCell ==
  /\ app = "write" /\ block.done < block.size
  /\ block' = [block EXCEPT !.done = @ + 1]
  /\ cells' = Append(cells, [number |-> block.number, cell |-> block.done + 1])
  /\ UNCHANGED <<app, events, otlpVars, capture, bytesWritten, packets, lastOffset, reports>>
\* write fails: the file is cut back to where the block began, if that can be
\* done, and the sink is given up.
Truncated == SubSeq(cells, 1, block.position)
WriteFails ==
  /\ app = "write" /\ block.done < block.size
  /\ \/ cells' = Truncated
     \/ UNCHANGED cells
  /\ IF block.number <= Headers THEN capture' = "closed" /\ app' = "close" /\ block' = NoBlock ELSE StopCapture
  /\ UNCHANGED <<events, otlpVars, bytesWritten, packets, lastOffset, reports>>
BlockWritten ==
  /\ app = "write" /\ block.done = block.size
  /\ bytesWritten' = bytesWritten + block.size
  /\ IF block.number <= Headers
     THEN /\ app' = IF block.number = Headers THEN "run" ELSE "header"
          /\ block' = NoBlock /\ UNCHANGED <<packets, lastOffset>>
     ELSE app' = "report" /\ packets' = packets + 1 /\ lastOffset' = block.position /\ UNCHANGED block
  /\ UNCHANGED <<events, otlpVars, capture, cells, reports>>
\* on_capture
ReportFrame ==
  /\ app = "report" /\ app' = "run" /\ block' = NoBlock
  /\ reports' = reports \cup {[number |-> block.number, size |-> block.size, packet |-> packets,
                               offset |-> lastOffset]}
  /\ UNCHANGED <<events, otlpVars, capture, cells, bytesWritten, packets, lastOffset>>

-----------------------------------------------------------------------------
\* The end of the sink: capture_ first, then otlp_.
Close ==
  /\ app = "run" /\ app' = "close" /\ capture' = "closed"
  /\ UNCHANGED <<events, otlpVars, cells, block, bytesWritten, packets, lastOffset, reports>>
EnterDestructor ==
  /\ app = "close" /\ app' = "drain"
  /\ UNCHANGED <<events, otlpVars, captureFileVars>>
SpansDrained == spans = <<>> /\ ~active
\* stopping, and the queue is cleared, under the same lock.
StopWorker == app' = "stop" /\ stopping' = TRUE /\ spans' = <<>>
DrainSpans ==
  /\ app = "drain"
  /\ \/ SpansDrained /\ StopWorker
     \/ ~SpansDrained /\ app' = "waiting" /\ UNCHANGED <<stopping, spans>>
  /\ UNCHANGED <<events, active, poster, payload, enqueued, exported, gaveUp, captureFileVars>>
DrainTimeout ==
  /\ app = "waiting" /\ StopWorker /\ gaveUp' = (spans # <<>>)
  /\ UNCHANGED <<events, active, poster, payload, enqueued, exported, captureFileVars>>
\* Mutant: the worker is not woken.
StopSilently ==
  /\ app = "stop" /\ app' = "join"
  /\ UNCHANGED <<events, otlpVars, captureFileVars>>
NotifyStop ==
  /\ app = "stop" /\ app' = "join" /\ poster' = Notified
  /\ UNCHANGED <<events, spans, stopping, active, payload, enqueued, exported, gaveUp, captureFileVars>>
Join ==
  /\ app = "join" /\ poster = "done" /\ app' = "gone"
  /\ UNCHANGED <<events, otlpVars, captureFileVars>>
KillNode ==
  /\ app \notin {"gone", "killed"} /\ app' = "killed" /\ poster' = "killed"
  /\ UNCHANGED <<events, spans, stopping, active, payload, enqueued, exported, gaveUp, captureFileVars>>

WorkerStep == Take \/ PostSpan \/ Posted \/ NotifyDrained
DestructorStep == EnterDestructor \/ DrainSpans \/ NotifyStop \/ Join
CaptureStep ==
  \/ WriteHeader \/ CaptureFrame \/ WriteCell \/ WriteFails \/ BlockWritten \/ ReportFrame
TraceNext ==
  \/ Trace \/ NotifyReady \/ CaptureStep \/ WorkerStep \/ Close \/ DestructorStep \/ DrainTimeout \/ KillNode
\* Both threads run once the sink is built; the 600 ms pass.
TraceFairness ==
  /\ WF_traceVars(app # "header" /\ WorkerStep) /\ WF_traceVars(DestructorStep) /\ WF_traceVars(DrainTimeout)
TraceSpec == TraceInit /\ [][TraceNext]_traceVars /\ TraceFairness

-----------------------------------------------------------------------------
Cell == [number : Nat, cell : Nat]
FrameReport == [number : Nat, size : Nat, packet : Nat, offset : Nat]
TraceTypeOK ==
  /\ app \in {"header", "run", "notify", "capture", "write", "report", "close", "drain", "waiting", "stop",
              "join", "gone", "killed"}
  /\ poster \in {"check", "blocked", "post", "posted", "notify", "done", "killed"}
  /\ events \in Nat /\ spans \in Seq(Nat) /\ payload \in Seq(Nat) /\ enqueued \in Seq(Nat) /\ exported \in Seq(Nat)
  /\ stopping \in BOOLEAN /\ active \in BOOLEAN /\ gaveUp \in BOOLEAN
  /\ capture \in {"open", "stopped", "closed"} /\ cells \in Seq(Cell)
  /\ block \in [number : Nat, size : Nat, position : Nat, done : Nat]
  /\ bytesWritten \in Nat /\ packets \in Nat /\ lastOffset \in Nat
  /\ reports \subseteq FrameReport

\* A frame the telemetry service was told of is whole in the file, at the
\* offset it was told.
ReportedFramesAreWhole ==
  \A r \in reports :
    /\ r.offset + r.size <= Len(cells)
    /\ \A i \in 1 .. r.size : cells[r.offset + i] = [number |-> r.number, cell |-> i]
\* Packet n of the file is the frame of event n, and the file stays within its
\* limit.
CaptureHasNoHoles ==
  /\ Len(cells) <= MaxFileBytes
  /\ \A r \in reports : r.packet = r.number - Headers
  /\ capture = "open" /\ app = "run" => packets = events
\* The spans that entered the queue were all posted, in order, when the sink is
\* gone, except when its 600 ms were over first.
SpansAreExported == app = "gone" /\ ~gaveUp => exported = enqueued

\* What a node reports of its trace is there: the frames in the file, whatever
\* becomes of the blocks after them -- a write that fails half way, a file that
\* cannot be cut back, a node that is killed -- and without a hole, because a
\* capture that missed one frame records no other; and the spans that had time
\* are posted, whenever the sink is destroyed (capture.cpp:249-306,
\* application_observer.hpp:234-255, observability.cpp:708-751).
TraceIsSound == ReportedFramesAreWhole /\ CaptureHasNoHoles /\ SpansAreExported

\* The destructor returns: neither thread misses the other's notification
\* (observability.cpp:708-751).
DestructorReturns == (app = "drain") ~> (app \in {"gone", "killed"})
=============================================================================
