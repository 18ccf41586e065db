-------------------------- MODULE StreamTransport --------------------------
(***************************************************************************)
(* The TCP and Unix-domain transports of one edge: the node that connects  *)
(* sends, the node that listens receives, and in either of them a control  *)
(* thread may call close() at any moment.  Descriptors are shared between  *)
(* the threads as atomics without a lock, so every load, store and         *)
(* exchange of socket_ is a step of its own.                               *)
(*                                                                         *)
(* A frame is FrameCells cells, the first HeaderCells of which are the     *)
(* length prefix; a cell is what one recv or send moves.  0 stands for     *)
(* the descriptor -1.                                                      *)
(***************************************************************************)
EXTENDS Naturals, Sequences, FiniteSets

CONSTANTS
  HeaderCells, FrameCells,   \* the shape of a frame
  WireCells,                 \* what the socket buffers hold
  MaxTries,                  \* retry.max_attempts
  StreamMessages, MaxConns, MaxFaults  \* bounds of the model

ASSUME StreamAssumption ==
  /\ {HeaderCells, FrameCells, WireCells, MaxTries} \subseteq Nat \ {0}
  /\ HeaderCells < FrameCells
  /\ {StreamMessages, MaxConns, MaxFaults} \subseteq Nat

VARIABLES
  options,      \* kind, reconnect and tls of the edge
  conn, conns,  \* the kernel's connections, and how many there have been
  resets,       \* connections the network has cut
  sock,         \* socket_ of either end
  closed,       \* closed_ of either end
  teardown,     \* close() has set closed_ and not yet closed the sockets
  listener,     \* listener_ of the receiving end
  \* --- the thread that sends; msg counts the frames it has begun to send ---
  outPc, outFd, attempt, tries, cursor, msg, sent,
  \* --- the thread that receives ---
  inPc, inFd, deadline, frame, received, result, failedBefore,
  \* --- the trace sink, whose callbacks may throw into either thread ---
  throws,       \* calls of the transports into which an observer has thrown
  spoiled       \* an exception has kept a connection from being closed

wireVars == <<conn, conns, resets>>
endVars == <<sock, closed, teardown, listener>>
outVars == <<outPc, outFd, attempt, tries, cursor, msg, sent>>
inVars == <<inPc, inFd, deadline, frame, received, result, failedBefore>>
sinkVars == <<throws, spoiled>>
streamVars == <<options, wireVars, endVars, outVars, inVars, sinkVars>>

Ends == {"out", "in"}
Kinds ==
  [kind : {"tcp"}, reconnect : BOOLEAN, tls : BOOLEAN]
  \cup [kind : {"unix"}, reconnect : {FALSE}, tls : {FALSE}]
Tcp == options.kind = "tcp"

\* The receiving end has been constructed by listen(); the sending end is by
\* connect(), which connects before it returns and is refused as long as nobody
\* listens (ConnectFails).
StreamInit ==
  /\ options \in Kinds
  /\ conn = [c \in 1 .. MaxConns |-> [bytes |-> <<>>, out |-> "none", in |-> "none", reset |-> FALSE,
                                   secured |-> FALSE]]
  /\ conns = 0 /\ resets = 0
  /\ sock = [e \in Ends |-> 0] /\ closed = [e \in Ends |-> FALSE]
  /\ teardown = [e \in Ends |-> FALSE] /\ listener = "open"
  /\ outPc = "connect" /\ outFd = 0 /\ attempt = 0 /\ tries = 1 /\ cursor = 0 /\ msg = 0
  /\ sent = {}
  /\ inPc = "idle" /\ inFd = 0 /\ deadline = FALSE /\ frame = <<>> /\ received = <<>>
  /\ result = "none" /\ failedBefore = FALSE
  /\ throws = 0 /\ spoiled = FALSE

\* An observer throws; every callback of the sink may.
Fault == resets + throws < MaxFaults
Throw == Fault /\ throws' = throws + 1

\* close_connection, and invalidate_connection without the listener: socket_ is
\* exchanged for -1, then the descriptor is shut down and closed.
Unread(e, c) == IF e = "in" THEN <<>> ELSE conn[c].bytes
Dropped(e) ==
  IF sock[e] = 0 THEN conn
  ELSE [conn EXCEPT ![sock[e]][e] = "closed", ![sock[e]].bytes = Unread(e, sock[e])]
CloseConnection(e) ==
  /\ conn' = Dropped(e)
  /\ sock' = [sock EXCEPT ![e] = 0]
\* A closed listener refuses what waits in its backlog.
Refused(cs) ==
  [c \in DOMAIN cs |-> IF cs[c].in = "backlog" THEN [cs[c] EXCEPT !.in = "closed", !.bytes = <<>>]
                       ELSE cs[c]]
CloseAll(e) ==
  /\ conn' = IF e = "in" THEN Refused(Dropped(e)) ELSE Dropped(e)
  /\ sock' = [sock EXCEPT ![e] = 0]
  /\ listener' = IF e = "in" THEN "closed" ELSE listener

-----------------------------------------------------------------------------
(***************************************************************************)
(* connect_outbound and send.                                              *)
(***************************************************************************)
Constructing == attempt = 0
\* The Unix transport leaves its socket to the close() that cancelled it.
KeepsSocket(e) == ~Tcp /\ closed[e]
Attempts == IF options.reconnect THEN 2 ELSE 1
EndAttempt ==
  /\ IF Constructing THEN outPc' = "dead" /\ UNCHANGED attempt
     ELSE IF attempt < Attempts THEN outPc' = "try" /\ attempt' = attempt + 1
     ELSE outPc' = "idle" /\ attempt' = 1
  /\ outFd' = 0 /\ cursor' = 0
\* Mutant: the next attempt goes on with the connection of the failed one.
KeepsCutFrame == EndAttempt /\ UNCHANGED <<conn, sock, sinkVars>>
\* A failed attempt of send closes the connection and, when the edge
\* reconnects, is made once more.  The TCP transport tells its observer first:
\* if on_error throws, send ends there and the connection stays as it is.
AttemptFails ==
  \/ /\ EndAttempt
     /\ IF KeepsSocket("out") THEN UNCHANGED <<conn, sock>> ELSE CloseConnection("out")
     /\ UNCHANGED sinkVars
  \/ /\ Tcp /\ ~Constructing
     /\ Throw /\ spoiled' = TRUE
     /\ outPc' = "idle" /\ attempt' = 1 /\ outFd' = 0 /\ cursor' = 0
     /\ UNCHANGED <<conn, sock>>

OutUnchanged == UNCHANGED <<options, conns, resets, closed, teardown, listener, inVars>>

\* A Unix transport without a socket cannot send.
SendsUnix == ~Tcp /\ ~closed["out"] /\ sock["out"] # 0
SendCall ==
  /\ outPc = "idle" /\ msg < StreamMessages
  /\ msg' = msg + 1
  /\ attempt' = 1
  /\ outPc' = CASE Tcp /\ ~closed["out"] -> "try" [] SendsUnix -> "load" [] OTHER -> "idle"
  /\ UNCHANGED <<conn, sock, outFd, tries, cursor, sent, sinkVars>> /\ OutUnchanged

Try ==
  /\ outPc = "try"
  /\ outPc' = IF sock["out"] = 0 THEN "connect" ELSE "load"
  /\ tries' = 1
  /\ UNCHANGED <<conn, sock, outFd, attempt, cursor, msg, sent, sinkVars>> /\ OutUnchanged

\* connect_once reaches the listener; the connection waits in its backlog.
Connect ==
  /\ outPc = "connect"
  /\ ~closed["out"] /\ listener = "open" /\ conns < MaxConns
  /\ conns' = conns + 1
  /\ conn' = [conn EXCEPT ![conns + 1].out = "open", ![conns + 1].in = "backlog"]
  /\ outFd' = conns + 1
  /\ outPc' = "connected"
  /\ UNCHANGED <<options, resets, endVars, attempt, tries, cursor, msg, sent, inVars, sinkVars>>

\* The TCP transport tries again after its backoff, unless on_error throws: then
\* the exception leaves connect_outbound.
TriesAgain == Tcp /\ tries < MaxTries /\ ~closed["out"]
NextTry ==
  /\ TriesAgain /\ UNCHANGED attempt
  /\ \/ outPc' = "connect" /\ tries' = tries + 1 /\ UNCHANGED sinkVars
     \/ outPc' = "thrown" /\ tries' = 1 /\ Throw /\ UNCHANGED spoiled
\* Refused, timed out or cancelled
ConnectFails ==
  /\ outPc = "connect"
  /\ \/ NextTry /\ UNCHANGED <<conn, sock, outFd, cursor>>
     \/ ~TriesAgain /\ AttemptFails /\ tries' = 1
  /\ UNCHANGED <<msg, sent>> /\ OutUnchanged

\* closed_ is read before the descriptor is stored ...
Connected ==
  /\ outPc = "connected"
  /\ IF closed["out"]
     THEN conn' = [conn EXCEPT ![outFd].out = "closed"] /\ outPc' = "connect" /\ outFd' = 0
     ELSE outPc' = "store" /\ UNCHANGED <<conn, outFd>>
  /\ UNCHANGED <<sock, attempt, tries, cursor, msg, sent, sinkVars>> /\ OutUnchanged
StoreOut ==
  /\ outPc = "store"
  /\ sock' = [sock EXCEPT !["out"] = outFd] /\ outPc' = "secure"
  /\ UNCHANGED <<conn, outFd, attempt, tries, cursor, msg, sent, sinkVars>> /\ OutUnchanged

\* ... and once more after the handshake, which may fail.  The client finishes
\* it while the server is in SSL_accept, and the server after the client.
\* Then on_reconnect and on_connection are called: if one throws, the next try
\* overwrites a socket_ that is still open.
OutSecured ==
  /\ outPc = "secure"
  /\ ~closed["out"]
  /\ options.tls => inPc = "secure" /\ inFd = outFd
  /\ conn' = [conn EXCEPT ![outFd].secured = options.tls]
  /\ outFd' = 0
  /\ \/ /\ outPc' = IF Constructing THEN "idle" ELSE "load"
        /\ attempt' = (IF Constructing THEN 1 ELSE attempt) /\ tries' = 1
        /\ UNCHANGED sinkVars
     \/ /\ outPc' = "thrown" /\ tries' = 1 /\ UNCHANGED attempt
        /\ Throw /\ UNCHANGED spoiled
     \/ /\ TriesAgain /\ outPc' = "connect" /\ tries' = tries + 1 /\ UNCHANGED attempt
        /\ Throw /\ spoiled' = TRUE
  /\ UNCHANGED <<sock, cursor, msg, sent>> /\ OutUnchanged
OutNotSecured ==
  /\ outPc = "secure"
  /\ closed["out"] \/ options.tls
  /\ \/ NextTry /\ CloseConnection("out") /\ outFd' = 0 /\ UNCHANGED cursor
     \/ ~TriesAgain /\ AttemptFails /\ tries' = 1
  /\ UNCHANGED <<msg, sent>> /\ OutUnchanged

Load ==
  /\ outPc = "load"
  /\ outFd' = sock["out"]
  /\ cursor' = 0
  /\ outPc' = "write"
  /\ UNCHANGED <<conn, sock, attempt, tries, msg, sent, sinkVars>> /\ OutUnchanged

\* write_all returns when the whole frame is handed to the kernel.  After it the
\* TCP transport calls on_backpressure and on_send where a failed write is caught
\* too: if one throws, an edge that reconnects sends the envelope in a second
\* frame, which has a number of its own here.  The Unix transport ignores what
\* they throw.
Written(n) ==
  IF n < FrameCells
  THEN outPc' = "write" /\ cursor' = n /\ UNCHANGED <<msg, sent, attempt, outFd, sinkVars>>
  ELSE /\ cursor' = 0 /\ outFd' = 0
       /\ \/ /\ outPc' = "idle" /\ sent' = sent \cup {msg} /\ attempt' = 1
             /\ UNCHANGED <<msg, sinkVars>>
          \/ /\ Tcp /\ outPc' = "thrown" /\ UNCHANGED <<sent, attempt>>
             /\ Throw /\ UNCHANGED spoiled
             /\ \/ attempt < Attempts /\ msg < StreamMessages /\ msg' = msg + 1
                \/ attempt = Attempts /\ UNCHANGED msg

\* The peer's kernel may take bytes that its process has stopped reading.
Write ==
  /\ outPc = "write" /\ outFd # 0
  /\ conn[outFd].out = "open" /\ ~conn[outFd].reset
  /\ IF conn[outFd].in = "closed" THEN Tcp /\ UNCHANGED conn
     ELSE /\ Len(conn[outFd].bytes) < WireCells
          /\ conn' = [conn EXCEPT ![outFd].bytes = Append(@, <<msg, cursor + 1>>)]
  /\ Written(cursor + 1)
  /\ UNCHANGED <<sock, tries>> /\ OutUnchanged

\* A broken, reset or closed connection, a full one at the deadline, no
\* connection at all, or the cancellation pair of the Unix transport.
WriteFails ==
  /\ outPc = "write"
  /\ \/ outFd = 0
     \/ outFd # 0 /\ (conn[outFd].reset \/ "closed" \in {conn[outFd].out, conn[outFd].in})
     \/ outFd # 0 /\ Len(conn[outFd].bytes) = WireCells
     \/ ~Tcp /\ closed["out"]
  /\ AttemptFails
  /\ UNCHANGED <<tries, msg, sent>> /\ OutUnchanged

\* send, or the constructor, catches what an observer has thrown.
Caught ==
  /\ outPc = "thrown"
  /\ AttemptFails
  /\ UNCHANGED <<tries, msg, sent>> /\ OutUnchanged

-----------------------------------------------------------------------------
(***************************************************************************)
(* receive_result.                                                         *)
(***************************************************************************)
InUnchanged == UNCHANGED <<options, conns, resets, closed, teardown, outVars>>
Kept == UNCHANGED <<conn, sock, listener>>
Return(r) ==
  /\ inPc' = "idle" /\ inFd' = 0 /\ frame' = <<>>
  /\ result' = IF closed["in"] THEN "cancelled" ELSE r
  /\ failedBefore' = (failedBefore \/ (r = "error" /\ ~closed["in"]))
  /\ deadline' = FALSE
  /\ UNCHANGED received
Goto(pc) == inPc' = pc /\ UNCHANGED <<deadline, frame, received, result, failedBefore>>
\* What an observer throws leaves receive_result, and the connection stays.
Thrown == Throw /\ UNCHANGED spoiled /\ Return("error")

\* Without a deadline when the caller gives no timeout; a caller that is told
\* "cancelled" does not call again (sample_application.cpp).
ReceiveCall ==
  /\ inPc = "idle" /\ result # "cancelled"
  /\ deadline' \in BOOLEAN
  /\ inPc' = "loop"
  /\ result' = "none"
  /\ UNCHANGED <<inFd, frame, received, failedBefore, sinkVars>> /\ Kept /\ InUnchanged

\* A TCP transport without a listener reports a timeout, a Unix one the end.
Loop ==
  /\ inPc = "loop"
  /\ CASE closed["in"] -> Return("cancelled")
       [] ~closed["in"] /\ sock["in"] # 0 -> Goto("load") /\ UNCHANGED inFd
       [] ~closed["in"] /\ sock["in"] = 0 /\ listener = "open" -> Goto("accept") /\ UNCHANGED inFd
       [] OTHER -> Return(IF Tcp THEN "timeout" ELSE "eos")
  /\ UNCHANGED sinkVars /\ Kept /\ InUnchanged

Backlog == {c \in 1 .. MaxConns : conn[c].in = "backlog"}
Accept ==
  /\ inPc = "accept" /\ listener = "open" /\ Backlog # {}
  /\ LET c == CHOOSE c \in Backlog : \A d \in Backlog : c <= d
     IN inFd' = c /\ conn' = [conn EXCEPT ![c].in = "open"]
  /\ Goto("accepted")
  /\ UNCHANGED <<sock, listener, sinkVars>> /\ InUnchanged

\* TCP looks at closed_ every 25 ms, Unix polls its cancellation pair.
AcceptEnds ==
  /\ inPc = "accept"
  /\ closed["in"] \/ deadline
  /\ Return("timeout")
  /\ UNCHANGED sinkVars /\ Kept /\ InUnchanged

Accepted ==
  /\ inPc = "accepted"
  /\ IF closed["in"]
     THEN conn' = [conn EXCEPT ![inFd].in = "closed", ![inFd].bytes = <<>>] /\ Return("cancelled")
     ELSE Goto("store") /\ UNCHANGED <<conn, inFd>>
  /\ UNCHANGED <<sock, listener, sinkVars>> /\ InUnchanged

\* on_connection follows, in the TCP transport after the handshake.
Store ==
  /\ inPc = "store"
  /\ sock' = [sock EXCEPT !["in"] = inFd]
  /\ \/ Goto(IF Tcp THEN "secure" ELSE "load") /\ UNCHANGED <<inFd, sinkVars>>
     \/ ~Tcp /\ Thrown
  /\ UNCHANGED <<conn, listener>> /\ InUnchanged

\* The second look at closed_, after the descriptor was stored.
ClosedMeanwhile == closed["in"]
InSecured ==
  /\ inPc = "secure"
  /\ ~ClosedMeanwhile
  /\ conn[inFd].secured = options.tls
  /\ \/ Goto("load") /\ UNCHANGED <<inFd, sinkVars>>
     \/ Thrown
  /\ Kept /\ InUnchanged
InNotSecured ==
  /\ inPc = "secure"
  /\ ClosedMeanwhile \/ options.tls
  /\ CloseConnection("in")
  /\ Return("error")
  /\ UNCHANGED <<listener, sinkVars>> /\ InUnchanged

\* socket_ is loaded anew for the header and for the payload.
LoadIn(from, to) ==
  /\ inPc = from
  /\ inFd' = sock["in"]
  /\ Goto(to)
  /\ UNCHANGED sinkVars /\ Kept /\ InUnchanged
LoadHeader == LoadIn("load", "header")
LoadBody == LoadIn("reload", "body")

Reading == inPc \in {"header", "body"}
Open(c) == c # 0 /\ conn[c].in = "open" /\ ~conn[c].reset

\* The complete frame is an envelope, which is lost if on_receive throws.
Deliver(got) ==
  /\ received' = Append(received, Head(got)[1])
  /\ inPc' = "idle" /\ inFd' = 0 /\ frame' = <<>> /\ result' = "message"
  /\ deadline' = FALSE /\ UNCHANGED <<failedBefore, sinkVars>>

\* read_all moves one cell; after the header and the payload closed_ is read.
Read ==
  /\ Reading /\ Open(inFd) /\ conn[inFd].bytes # <<>>
  /\ conn' = [conn EXCEPT ![inFd].bytes = Tail(@)]
  /\ LET got == Append(frame, Head(conn[inFd].bytes))
         last == IF inPc = "header" THEN HeaderCells ELSE FrameCells
     IN CASE Len(got) < last ->
               /\ frame' = got
               /\ UNCHANGED <<inPc, inFd, deadline, received, result, failedBefore, sinkVars>>
          [] Len(got) = last /\ closed["in"] -> Return("cancelled") /\ UNCHANGED sinkVars
          [] Len(got) = HeaderCells /\ ~closed["in"] ->
               /\ frame' = got /\ inPc' = "reload"
               /\ UNCHANGED <<inFd, deadline, received, result, failedBefore, sinkVars>>
          [] OTHER -> Deliver(got) \/ Thrown
  /\ UNCHANGED <<sock, listener>> /\ InUnchanged

\* Closing after a failure: the TCP transport keeps its listener, the Unix
\* transport gives up both.
Invalidate == IF Tcp THEN CloseConnection("in") /\ UNCHANGED listener ELSE CloseAll("in")

\* The peer has closed: between frames that is the end of the stream, and the
\* TCP transport of an edge that reconnects waits for the next peer.
ReadEof ==
  /\ Reading /\ Open(inFd) /\ conn[inFd].bytes = <<>> /\ conn[inFd].out = "closed"
  /\ CASE closed["in"] -> Kept /\ Return("cancelled")
       [] ~closed["in"] /\ frame # <<>> -> Invalidate /\ Return("error")
       [] ~closed["in"] /\ frame = <<>> /\ options.reconnect ->
            CloseConnection("in") /\ inFd' = 0 /\ UNCHANGED listener /\ Goto("loop")
       [] OTHER -> CloseAll("in") /\ Return("eos")
  /\ UNCHANGED sinkVars /\ InUnchanged

\* recv fails on a reset connection or on a descriptor that close() has closed.
ReadError ==
  /\ Reading /\ inFd # 0 /\ ~Open(inFd)
  /\ IF KeepsSocket("in") THEN Kept ELSE Invalidate
  /\ Return("error")
  /\ UNCHANGED sinkVars /\ InUnchanged

IdleResult == "timeout"
CutOff == Invalidate
\* poll has nothing to report for a descriptor of -1: only the deadline ends it.
ReadDeadline ==
  /\ Reading /\ deadline
  /\ inFd = 0 \/ (Open(inFd) /\ conn[inFd].bytes = <<>>)
  /\ IF closed["in"] \/ (inPc = "header" /\ frame = <<>>) THEN Kept /\ Return(IdleResult)
     ELSE CutOff /\ Return("error")
  /\ UNCHANGED sinkVars /\ InUnchanged

\* The Unix transport polls its cancellation pair beside its socket.
PolledCancel == ~Tcp /\ closed["in"]
ReadCancelled ==
  /\ Reading /\ PolledCancel
  /\ Kept /\ Return("cancelled")
  /\ UNCHANGED sinkVars /\ InUnchanged

-----------------------------------------------------------------------------
\* close(): closed_ is exchanged first, the descriptors afterwards.
CloseCall(e) ==
  /\ ~closed[e]
  /\ e = "out" => outPc # "dead" /\ ~Constructing
  /\ closed' = [closed EXCEPT ![e] = TRUE]
  /\ teardown' = [teardown EXCEPT ![e] = TRUE]
  /\ UNCHANGED <<options, wireVars, sock, listener, outVars, inVars, sinkVars>>
Teardown(e) ==
  /\ teardown[e]
  /\ teardown' = [teardown EXCEPT ![e] = FALSE]
  /\ CloseAll(e)
  /\ UNCHANGED <<options, conns, resets, closed, outVars, inVars, sinkVars>>

\* The network or the peer's kernel cuts a connection.
Reset(c) ==
  /\ Fault /\ ~conn[c].reset
  /\ conn[c].out = "open" /\ conn[c].in \in {"backlog", "open"}
  /\ resets' = resets + 1
  /\ conn' = [conn EXCEPT ![c].reset = TRUE, ![c].bytes = <<>>]
  /\ UNCHANGED <<options, conns, endVars, outVars, inVars, sinkVars>>

OutStep ==
  \/ SendCall \/ Try \/ Connect \/ ConnectFails \/ Connected \/ StoreOut \/ OutSecured \/ OutNotSecured
  \/ Load \/ Write \/ WriteFails \/ Caught
InStep ==
  \/ Loop \/ Accept \/ AcceptEnds \/ Accepted \/ Store \/ InSecured \/ InNotSecured
  \/ LoadHeader \/ LoadBody \/ Read \/ ReadEof \/ ReadError \/ ReadDeadline \/ ReadCancelled
StreamNext ==
  \/ OutStep \/ InStep \/ ReceiveCall
  \/ \E e \in Ends : CloseCall(e) \/ Teardown(e)
  \/ \E c \in 1 .. MaxConns : Reset(c)

\* A thread that has called an operation keeps running; nobody has to call one.
StreamFairness == WF_streamVars(InStep \/ Teardown("in"))
StreamSpec == StreamInit /\ [][StreamNext]_streamVars /\ StreamFairness

-----------------------------------------------------------------------------
Cells == (1 .. StreamMessages) \X (1 .. FrameCells)
StreamTypeOK ==
  /\ options \in Kinds
  /\ \A c \in 1 .. MaxConns :
       /\ conn[c].bytes \in Seq(Cells) /\ Len(conn[c].bytes) <= WireCells
       /\ conn[c].out \in {"none", "open", "closed"}
       /\ conn[c].in \in {"none", "backlog", "open", "closed"}
       /\ {conn[c].reset, conn[c].secured} \subseteq BOOLEAN
  /\ sock \in [Ends -> 0 .. MaxConns] /\ closed \in [Ends -> BOOLEAN]
  /\ teardown \in [Ends -> BOOLEAN] /\ listener \in {"open", "closed"}
  /\ outPc \in {"idle", "try", "connect", "connected", "store", "secure", "load", "write",
               "thrown", "dead"}
  /\ {outFd, inFd} \subseteq 0 .. MaxConns /\ attempt \in 0 .. 2 /\ tries \in 1 .. MaxTries
  /\ cursor \in 0 .. FrameCells /\ msg \in 0 .. StreamMessages
  /\ inPc \in {"idle", "loop", "accept", "accepted", "store", "secure", "load", "header",
               "reload", "body"}
  /\ result \in {"none", "message", "timeout", "eos", "cancelled", "error"}
  /\ throws \in Nat /\ spoiled \in BOOLEAN

\* The cells of a frame that is being read belong to one message, in order: no
\* timeout, reset or reconnection makes later bytes pass for the rest of an
\* earlier frame.
FrameAligned == \A i \in DOMAIN frame : frame[i] = <<frame[1][1], i>>

\* Frames stay whole, and each is delivered at most once and in the order of the
\* calls of send, although send repeats a frame that failed on a new connection.
DeliveredInOrder ==
  /\ FrameAligned
  /\ \A i, j \in DOMAIN received : i < j => received[i] < received[j]

NoSendFailed == (1 .. msg) \ sent \subseteq (IF outPc = "idle" THEN {} ELSE {msg})
\* The end of a stream on which nothing failed is reported after every envelope
\* that send accepted.
EndOfStreamIsComplete ==
  result = "eos" /\ resets = 0 /\ NoSendFailed /\ ~failedBefore =>
    sent \subseteq {received[i] : i \in DOMAIN received}

\* No interleaving of close() with accept, connect or reconnection makes the TCP
\* transport lose a descriptor it still has to close.
NoDescriptorLost ==
  Tcp => /\ outPc \in {"idle", "dead"} =>
              {c \in 1 .. MaxConns : conn[c].out = "open"} \subseteq {sock["out"]}
         /\ inPc = "idle" => {c \in 1 .. MaxConns : conn[c].in = "open"} \subseteq {sock["in"]}
         /\ outPc \in {"idle", "dead"} /\ closed["out"] /\ ~teardown["out"] => sock["out"] = 0
         /\ inPc = "idle" /\ closed["in"] /\ ~teardown["in"] => sock["in"] = 0

\* An edge over TCP or a Unix socket delivers whole envelopes in order and at
\* most once, ends only when all of them were delivered, and leaks no
\* descriptor, over resets, cut frames, reconnections, a close() at every point
\* and observers that throw (tcp_transport.cpp:438-487, 562-725,
\* unix_domain_socket_transport.cpp:295-405).  Two exceptions follow from what
\* the TCP transport does with an observer that throws.  An envelope whose on_send
\* threw after its frame was complete may come a second time, in a frame of its
\* own (628-634).  And nothing is promised once an exception has kept a connection
\* from being closed (spoiled): on_error in the catch of send (632), on_reconnect
\* or on_connection before a further try (464-466).
StreamIsFaithful == ~spoiled => DeliveredInOrder /\ EndOfStreamIsComplete /\ NoDescriptorLost

\* A receive in progress on a transport that was closed: it has a deadline, or it
\* polls the cancellation pair of the Unix transport.
ReceiveHangs == closed["in"] /\ inPc # "idle" /\ (deadline \/ ~Tcp)

\* "close cancels blocked work" (docs/GraphX_Architecture.md:762): a receive
\* without a deadline returns after close(), whatever the transport.
CloseCancelsReceive == closed["in"] /\ inPc # "idle" ~> inPc = "idle"

=============================================================================
