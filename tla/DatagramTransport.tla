------------------------- MODULE DatagramTransport -------------------------
(***************************************************************************)
(* The UDP transport of one edge: a node that sends datagrams, and the     *)
(* receiving object of its peer with a thread that receives and one that   *)
(* may call close().  An operation holds send_mutex or receive_mutex;      *)
(* close() wakes the receiver first and frees the descriptors only when it *)
(* holds both locks.  The network loses, repeats and reorders datagrams    *)
(* and delivers foreign ones.                                              *)
(***************************************************************************)
EXTENDS Naturals, Sequences, FiniteSets

CONSTANTS
  SequenceWindow,              \* kSequenceWindow
  SequenceMax,                 \* the largest value of std::uint64_t
  MaxCopies, MaxDatagrams      \* bounds of the model

ASSUME DatagramAssumption == SequenceWindow \in Nat \ {0} /\ SequenceMax \in Nat

VARIABLES
  udpClosed,    \* Impl::closed
  resources,    \* the descriptors: "open" or "closed"
  closer,       \* how far close() has got
  op,           \* what the receiving thread does
  sequence,     \* the next sequence number to send
  net,          \* copies of each datagram under way, and whether a bad one is
  finite, expired, examined,  \* the receive call: has it a deadline, has it passed, is this its first poll
  initialized, highest, recent, recentCursor,  \* the sequence tracker
  events,       \* the counters of on_udp_event
  got           \* the sequence numbers delivered, in order

datagramVars == <<udpClosed, resources, closer, op, sequence, net, finite, expired, examined,
                  initialized, highest, recent, recentCursor, events, got>>
trackVars == <<initialized, highest, recent, recentCursor, events, got>>
callVars == <<finite, expired, examined>>

Sequences == 0 .. SequenceMax

DatagramInit ==
  /\ udpClosed = FALSE /\ resources = "open" /\ closer = "none" /\ op = "idle"
  /\ sequence = 0
  /\ net = [copies |-> [n \in Sequences |-> 0], bad |-> FALSE]
  /\ finite = FALSE /\ expired = FALSE /\ examined = FALSE
  /\ initialized = FALSE /\ highest = 0 /\ recent = <<>> /\ recentCursor = 0
  /\ events = [duplicate |-> 0, outOfOrder |-> 0, gap |-> 0]
  /\ got = <<>>

-----------------------------------------------------------------------------
\* send, under send_mutex: the datagram is out, or oversized, or the socket fails.
Send ==
  /\ sequence \in Sequences
  /\ sequence' = sequence + 1
  /\ \/ net' = [net EXCEPT !.copies[sequence] = 1]
     \/ UNCHANGED net
  /\ UNCHANGED <<udpClosed, resources, closer, op, callVars, trackVars>>

Duplicated(n) ==
  /\ net.copies[n] \in 1 .. MaxCopies - 1
  /\ net' = [net EXCEPT !.copies[n] = @ + 1]
  /\ UNCHANGED <<udpClosed, resources, closer, op, sequence, callVars, trackVars>>
\* Anybody may send to the port.
ForeignDatagram ==
  /\ ~net.bad
  /\ net' = [net EXCEPT !.bad = TRUE]
  /\ UNCHANGED <<udpClosed, resources, closer, op, sequence, callVars, trackVars>>

-----------------------------------------------------------------------------
(***************************************************************************)
(* receive_result and track_sequence.                                      *)
(***************************************************************************)
\* A caller that is told "cancelled" does not call again (sample_application.cpp).
Returns(pc) == op' = pc /\ finite' = FALSE /\ expired' = FALSE /\ examined' = FALSE

ReceiveStart ==
  /\ op = "idle" /\ Len(got) < MaxDatagrams
  /\ op' = "loop"
  /\ finite' \in BOOLEAN
  /\ UNCHANGED <<udpClosed, resources, closer, sequence, net, expired, examined, trackVars>>
Expire ==
  /\ finite /\ ~expired
  /\ expired' = TRUE
  /\ UNCHANGED <<udpClosed, resources, closer, op, sequence, net, finite, examined, trackVars>>

\* Mutant: only poll looks at the deadline.
NeverOverdue == FALSE
\* The deadline is looked at before every poll but the first.
Overdue == examined /\ expired
ReceiveLoop ==
  /\ op = "loop"
  /\ IF udpClosed THEN Returns("stopped")
     ELSE IF Overdue THEN Returns("idle")
     ELSE op' = "poll" /\ examined' = TRUE /\ UNCHANGED <<finite, expired>>
  /\ UNCHANGED <<udpClosed, resources, closer, sequence, net, trackVars>>

Readable == net.bad \/ \E n \in Sequences : net.copies[n] > 0
Cancelled == udpClosed
\* poll ends with cancellation, with a datagram, or at the deadline without one.
ReceivePoll ==
  /\ op = "poll"
  /\ \/ Cancelled /\ Returns("stopped")
     \/ ~Cancelled /\ Readable /\ op' = "recv" /\ UNCHANGED callVars
     \/ ~Cancelled /\ ~Readable /\ expired /\ Returns("idle")
  /\ UNCHANGED <<udpClosed, resources, closer, sequence, net, trackVars>>

\* Truncated and malformed datagrams are counted and dropped.
ReceiveBad ==
  /\ op = "recv" /\ net.bad
  /\ net' = [net EXCEPT !.bad = FALSE]
  /\ op' = "loop"
  /\ UNCHANGED <<udpClosed, resources, closer, sequence, callVars, trackVars>>

IsRecent(n) == \E i \in DOMAIN recent : recent[i] = n
\* Arithmetic of std::uint64_t
Plus(a, b) == (a + b) % (SequenceMax + 1)
Minus(a, b) == (a + SequenceMax + 1 - b) % (SequenceMax + 1)
\* Mutant: the successor of the largest sequence number is not ruled out.
WrapsAround(n) == initialized /\ n > Plus(highest, 1)
GapBefore(n) == initialized /\ highest # SequenceMax /\ n > Plus(highest, 1)

TrackSequence(n) ==
  IF IsRecent(n)
  THEN /\ events' = [events EXCEPT !.duplicate = @ + 1]
       /\ UNCHANGED <<initialized, highest, recent, recentCursor>>
  ELSE /\ events' = [events EXCEPT
            !.outOfOrder = IF initialized /\ n < highest THEN @ + 1 ELSE @,
            !.gap = IF ~(initialized /\ n < highest) /\ GapBefore(n)
                    THEN @ + Minus(Minus(n, highest), 1) ELSE @]
       /\ highest' = IF ~initialized \/ n > highest THEN n ELSE highest
       /\ initialized' = TRUE
       /\ IF Len(recent) < SequenceWindow
          THEN recent' = Append(recent, n) /\ UNCHANGED recentCursor
          ELSE /\ recent' = [recent EXCEPT ![recentCursor + 1] = n]
               /\ recentCursor' = (recentCursor + 1) % SequenceWindow

ReceiveMessage(n) ==
  /\ op = "recv" /\ net.copies[n] > 0
  /\ net' = [net EXCEPT !.copies[n] = @ - 1]
  /\ TrackSequence(n)
  /\ got' = Append(got, n)
  /\ Returns("idle")
  /\ UNCHANGED <<udpClosed, resources, closer, sequence>>

-----------------------------------------------------------------------------
\* close_noexcept: closed is set and the receiver woken, ...
CloseStart ==
  /\ closer = "none"
  /\ udpClosed' = TRUE
  /\ closer' = "waiting"
  /\ UNCHANGED <<resources, op, sequence, net, callVars, trackVars>>
\* Mutant: the descriptors are freed under close_mutex alone.
Unlocked == TRUE
OperationLocks == op \in {"idle", "stopped"}
\* ... then the descriptors are closed under the locks of the operations.
CloseFrees ==
  /\ closer = "waiting"
  /\ OperationLocks
  /\ resources' = "closed"
  /\ closer' = "done"
  /\ UNCHANGED <<udpClosed, op, sequence, net, callVars, trackVars>>

ReceiveStep == ReceiveLoop \/ ReceivePoll \/ ReceiveBad \/ \E n \in Sequences : ReceiveMessage(n)
DatagramNext ==
  \/ Send \/ ForeignDatagram \/ ReceiveStart \/ Expire \/ ReceiveStep
  \/ \E n \in Sequences : Duplicated(n)
  \/ CloseStart \/ CloseFrees

\* Threads inside an operation run on, deadlines pass, and a lock nobody holds is
\* granted.
DatagramFairness ==
  WF_datagramVars(ReceiveStep) /\ WF_datagramVars(Expire) /\ WF_datagramVars(CloseFrees)
DatagramSpec == DatagramInit /\ [][DatagramNext]_datagramVars /\ DatagramFairness

-----------------------------------------------------------------------------
DatagramTypeOK ==
  /\ udpClosed \in BOOLEAN /\ resources \in {"open", "closed"}
  /\ closer \in {"none", "waiting", "done"}
  /\ op \in {"idle", "loop", "poll", "recv", "stopped"}
  /\ sequence \in 0 .. SequenceMax + 1
  /\ net.copies \in [Sequences -> 0 .. MaxCopies] /\ net.bad \in BOOLEAN
  /\ {finite, expired, examined, initialized} \subseteq BOOLEAN
  /\ highest \in Sequences /\ recent \in Seq(Sequences) /\ Len(recent) <= SequenceWindow
  /\ recentCursor \in 0 .. SequenceWindow - 1
  /\ got \in Seq(Sequences)

\* A receive never touches a descriptor that close() has freed and the process may
\* have given to something else (udp_transport.cpp:219-248).  A send, which holds
\* the other of the two locks close() takes, is one step here.
DescriptorsOutliveOperations == op \in {"poll", "recv"} => resources = "open"

Earlier(i) == {got[j] : j \in 1 .. i - 1}
Advances == {i \in DOMAIN got : i > 1 /\ \A n \in Earlier(i) : got[i] > n}
\* However datagrams are lost, repeated and reordered, the gaps that were counted
\* and the datagrams that advanced the stream add up to the distance covered, and
\* only what really was repeated is counted as a duplicate (udp_transport.cpp:195-217).
AnomaliesAddUp ==
  got # <<>> =>
    /\ events.gap + Cardinality(Advances) = highest - got[1]
    /\ events.duplicate <= Cardinality({i \in DOMAIN got : got[i] \in Earlier(i)})

=============================================================================
