-------------------------- MODULE SharedMemoryRing --------------------------
(***************************************************************************)
(* One segment of the shared-memory transport: the ring of slots, the      *)
(* robust process-shared mutex around it, and the processes on both sides, *)
(* which connect, send, receive, close from a control thread and die at    *)
(* any moment, also inside the critical section.                           *)
(*                                                                         *)
(* Source: src/src/shared_memory_transport.cpp, the Linux build, from the  *)
(* moment the listener has initialised the segment and a connector has it  *)
(* mapped.  A torn slot is never read (TypeOK), so the paths that fail on  *)
(* a malformed frame are not actions.                                      *)
(*                                                                         *)
(* A critical section is one step where nobody can see its middle; the     *)
(* copy into a slot is several, since a process that dies there leaves a   *)
(* torn slot behind.  A condition wait is a call that stays where it is:   *)
(* each wakeup tests everything the entry of the call tests, and one that  *)
(* finds nothing to do changes nothing.                                    *)
(***************************************************************************)
EXTENDS Integers, Sequences

CONSTANTS
    Producers,    \* processes that connect
    Consumer,     \* the process that listens
    NoPid,        \* an empty pid field
    Messages,     \* envelopes
    Torn,         \* a slot that holds no complete frame
    Capacity,     \* header.capacity
    MaxSends      \* bound on the messages that are accepted

Procs == Producers \cup {Consumer}
Slots == 0..(Capacity - 1)

ASSUME ProcsAssumption == Consumer \notin Producers /\ NoPid \notin Procs
ASSUME CapacityAssumption == Capacity \in Nat \ {0} /\ MaxSends \in Nat
ASSUME MessagesAssumption == Torn \notin Messages

VARIABLES
    \* The shared header and slots.
    head, tail,     \* monotonic sequence counters
    slots,
    closed,
    discarded,      \* recovery_count # 0
    producerPid, consumerPid,
    lock,           \* the mutex: "free", "held", or "dead" (its owner died)
    \* Each process.
    life,           \* "running", then "zombie" until reaped, then "gone"
    pc,             \* where its calling thread is
    closer,         \* where its control thread is in request_close
    cancelled,      \* locally_closed
    \* History.
    sent, received, eos

header  == <<head, tail, slots, closed, discarded, producerPid, consumerPid>>
threads == <<life, pc, closer, cancelled>>
history == <<sent, received, eos>>
vars    == <<header, lock, threads, history>>

\* The abstract channel this ring implements.
Channel == INSTANCE FifoChannel

CallSteps == {"out", "connect", "ready", "send", "copying", "leaving", "receive", "failed"}
CloseSteps == {"open", "lock", "closed"}

Slot(sequence) == sequence % Capacity
Full  == head - tail >= Capacity
Empty == head = tail

\* process_alive: kill(pid, 0) also succeeds on a process nobody has reaped.
ProcessAlive(pid) == pid # NoPid /\ life[pid] # "gone"

\* The process has the transport: its role is claimed.
Claimed(p) == pc[p] \notin {"out", "connect", "failed"}

Init ==
    /\ head = 0 /\ tail = 0 /\ slots = [i \in Slots |-> Torn]
    /\ closed = FALSE /\ discarded = FALSE
    /\ producerPid = NoPid /\ consumerPid = Consumer
    /\ lock = "free"
    /\ life = [p \in Procs |-> "running"]
    /\ pc = [p \in Procs |-> IF p = Consumer THEN "ready" ELSE "out"]
    /\ closer = [p \in Procs |-> "open"]
    /\ cancelled = [p \in Procs |-> FALSE]
    /\ sent = <<>> /\ received = <<>> /\ eos = FALSE
-----------------------------------------------------------------------------
\* The calling thread of p, at step `from`, goes on to `to`.
Goes(p, from, to) ==
    /\ life[p] = "running" /\ pc[p] = from
    /\ pc' = [pc EXCEPT ![p] = to]
    /\ UNCHANGED <<life, closer, cancelled>>

\* The same, through a critical section that it enters and leaves.
Section(p, from, to) ==
    /\ Goes(p, from, to)
    /\ lock = "free" /\ UNCHANGED lock

(***************************************************************************)
(* connect: claim the producer role of an initialised segment.             *)
(***************************************************************************)
ConnectCall(p) ==
    /\ Goes(p, "out", "connect")
    /\ UNCHANGED <<header, lock, history>>

\* Mutant: the claim does not look at the recorded producer.
OpenRole == ~closed

RoleFree == ~closed /\ ~ProcessAlive(producerPid)

Claim(p) ==
    /\ RoleFree /\ Section(p, "connect", "ready")
    /\ producerPid' = p
    /\ UNCHANGED <<head, tail, slots, closed, discarded, consumerPid, history>>

ClaimRefused(p) ==
    /\ ~RoleFree /\ Section(p, "connect", "failed")
    /\ UNCHANGED <<header, history>>
-----------------------------------------------------------------------------
(***************************************************************************)
(* send.                                                                   *)
(***************************************************************************)
SendCall(p) ==
    /\ ~cancelled[p] /\ Len(sent) < MaxSends /\ Goes(p, "ready", "send")
    /\ UNCHANGED <<header, lock, history>>

\* The channel is closed, or the consumer is gone, which closes it.
SendFails(p) ==
    /\ closed \/ ~ProcessAlive(consumerPid)
    /\ Section(p, "send", "ready")
    /\ closed' = TRUE
    /\ UNCHANGED <<head, tail, slots, discarded, producerPid, consumerPid, history>>

\* The ring is full, and the policy is to reject or the deadline has passed.
SendGivesUp(p) ==
    /\ ~closed /\ ProcessAlive(consumerPid) /\ Full
    /\ Section(p, "send", "ready")
    /\ UNCHANGED <<header, history>>

\* Mutant: the test for a full ring is off by one.
SpaceForOneMore == ~closed /\ ProcessAlive(consumerPid) /\ head - tail <= Capacity

Acceptable == ~closed /\ ProcessAlive(consumerPid) /\ ~Full

\* memcpy into the slot begins ...
SendCopies(p) ==
    /\ Acceptable /\ Goes(p, "send", "copying")
    /\ lock = "free" /\ lock' = "held"
    /\ slots' = [slots EXCEPT ![Slot(head)] = Torn]
    /\ UNCHANGED <<head, tail, closed, discarded, producerPid, consumerPid, history>>

\* ... and is complete before the head moves.
SendCommits(p, m) ==
    /\ Goes(p, "copying", "leaving")
    /\ slots' = [slots EXCEPT ![Slot(head)] = m]
    /\ head' = head + 1
    /\ sent' = Append(sent, m)
    /\ UNCHANGED <<tail, closed, discarded, producerPid, consumerPid, lock, received, eos>>

SendUnlocks(p) ==
    /\ Goes(p, "leaving", "ready")
    /\ lock' = "free"
    /\ UNCHANGED <<header, history>>
-----------------------------------------------------------------------------
(***************************************************************************)
(* receive_result, with or without a deadline.                             *)
(***************************************************************************)
ReceiveCall ==
    /\ ~cancelled[Consumer] /\ Goes(Consumer, "ready", "receive")
    /\ UNCHANGED <<header, lock, history>>

Receives ==
    /\ ~Empty /\ Section(Consumer, "receive", "ready")
    /\ received' = Append(received, slots[Slot(tail)])
    /\ tail' = tail + 1
    /\ UNCHANGED <<head, slots, closed, discarded, producerPid, consumerPid, sent, eos>>

ReceiveCancelled ==
    /\ Empty /\ cancelled[Consumer] /\ Section(Consumer, "receive", "ready")
    /\ UNCHANGED <<header, history>>

ProducerLost == producerPid # NoPid /\ ~ProcessAlive(producerPid)

\* Mutant: only a close ends the stream.
ClosedAndDrained == Empty /\ closed

\* Closed and drained, or drained with a dead producer.
StreamEnded == Empty /\ (closed \/ ProducerLost)

ReceiveEnds ==
    /\ StreamEnded /\ ~cancelled[Consumer] /\ Section(Consumer, "receive", "ready")
    /\ closed' = TRUE /\ eos' = TRUE
    /\ UNCHANGED <<head, tail, slots, discarded, producerPid, consumerPid, sent, received>>

ReceiveTimesOut ==
    /\ Empty /\ ~cancelled[Consumer] /\ ~StreamEnded /\ Section(Consumer, "receive", "ready")
    /\ UNCHANGED <<header, history>>
-----------------------------------------------------------------------------
(***************************************************************************)
(* EOWNERDEAD from lock_header or wait_condition: close, drop the queue,   *)
(* make the mutex consistent and fail.                                     *)
(***************************************************************************)
RecoverMutex(p) ==
    /\ lock = "dead" /\ lock' = "free"
    /\ \/ Goes(p, "connect", "failed")
       \/ Goes(p, "send", "ready") \/ Goes(p, "receive", "ready")
    /\ closed' = TRUE /\ tail' = head /\ discarded' = TRUE
    /\ UNCHANGED <<head, slots, producerPid, consumerPid, history>>

(***************************************************************************)
(* close, from a control thread: request_close.                            *)
(***************************************************************************)
CloseCall(p) ==
    /\ life[p] = "running" /\ Claimed(p) /\ ~cancelled[p]
    /\ cancelled' = [cancelled EXCEPT ![p] = TRUE]
    /\ closer' = [closer EXCEPT ![p] = "lock"]
    /\ UNCHANGED <<header, lock, life, pc, history>>

\* An abandoned mutex is made consistent; the queue is left as it is.
CloseRing(p) ==
    /\ life[p] = "running" /\ closer[p] = "lock"
    /\ lock \in {"free", "dead"} /\ lock' = "free"
    /\ closed' = TRUE
    /\ producerPid' = (IF producerPid = p THEN NoPid ELSE producerPid)
    /\ consumerPid' = (IF consumerPid = p THEN NoPid ELSE consumerPid)
    /\ closer' = [closer EXCEPT ![p] = "closed"]
    /\ UNCHANGED <<head, tail, slots, discarded, life, pc, cancelled, history>>
-----------------------------------------------------------------------------
(***************************************************************************)
(* Death.  The kernel marks a robust mutex whose owner dies.               *)
(***************************************************************************)
Holds(p) == pc[p] \in {"copying", "leaving"}

\* p is about to enter a critical section, and may die at its first step.
Asks(p) == lock = "free" /\ (pc[p] \in {"connect", "send", "receive"} \/ closer[p] = "lock")

Die(p) ==
    /\ life[p] = "running"
    /\ life' = [life EXCEPT ![p] = "zombie"]
    /\ \/ Holds(p) /\ lock' = "dead"
       \/ Asks(p) /\ lock' = "dead"
       \/ ~Holds(p) /\ UNCHANGED lock
    /\ pc' = [pc EXCEPT ![p] = "failed"]
    /\ closer' = [closer EXCEPT ![p] = "closed"]
    /\ cancelled' = [cancelled EXCEPT ![p] = FALSE]
    /\ UNCHANGED <<header, history>>

Reap(p) ==
    /\ life[p] = "zombie"
    /\ life' = [life EXCEPT ![p] = "gone"]
    /\ UNCHANGED <<header, lock, pc, closer, cancelled, history>>
-----------------------------------------------------------------------------
\* The steps of a call that has begun.
Sending(p) ==
    \/ SendFails(p) \/ SendGivesUp(p) \/ SendCopies(p) \/ SendUnlocks(p)
    \/ \E m \in Messages : SendCommits(p, m)

Receiving == Receives \/ ReceiveCancelled \/ ReceiveEnds

Next ==
    \/ \E p \in Producers : \/ ConnectCall(p) \/ Claim(p) \/ ClaimRefused(p)
                            \/ SendCall(p) \/ Sending(p)
    \/ ReceiveCall \/ Receiving \/ ReceiveTimesOut
    \/ \E p \in Procs : RecoverMutex(p) \/ CloseCall(p) \/ CloseRing(p) \/ Die(p) \/ Reap(p)

Spec == Init /\ [][Next]_vars

(***************************************************************************)
(* Threads that can run do, waits for capacity are bounded by send_timeout *)
(* and those for a message by the peer check of one second; a receive may  *)
(* have no deadline of its own.  Somebody reaps the dead.                  *)
(***************************************************************************)
Fairness ==
    /\ \A p \in Producers : WF_vars(Sending(p) \/ RecoverMutex(p))
    /\ WF_vars(Receiving \/ RecoverMutex(Consumer))
    /\ \A p \in Procs : WF_vars(CloseRing(p)) /\ WF_vars(Reap(p))

FairSpec == Spec /\ Fairness
-----------------------------------------------------------------------------
(***************************************************************************)
(* Properties.                                                             *)
(***************************************************************************)
\* Every variable stays in its type: the header, the mutex, the threads of
\* each process, and only complete envelopes are ever received.
TypeOK ==
    /\ head \in Nat /\ tail \in Nat /\ slots \in [Slots -> Messages \cup {Torn}]
    /\ closed \in BOOLEAN /\ discarded \in BOOLEAN
    /\ producerPid \in Producers \cup {NoPid} /\ consumerPid \in {Consumer, NoPid}
    /\ lock \in {"free", "held", "dead"}
    /\ life \in [Procs -> {"running", "zombie", "gone"}]
    /\ pc \in [Procs -> CallSteps] /\ closer \in [Procs -> CloseSteps]
    /\ cancelled \in [Procs -> BOOLEAN]
    /\ sent \in Seq(Messages) /\ received \in Seq(Messages) /\ eos \in BOOLEAN

\* The ring is a bounded FIFO channel: send and receive_result deliver every
\* committed envelope once and in order, closing is final, and end_of_stream
\* is reported only after everything has been delivered, unless a process
\* died inside the critical section.
ImplementsChannel == Channel!Spec

\* At most one producer that is alive and has not closed holds the role that
\* connect claims: it is the one the header names.
SoleProducer ==
    \A p \in Producers :
        life[p] = "running" /\ Claimed(p) /\ ~cancelled[p] => producerPid = p

Calling(p) == pc[p] \in {"send", "copying", "leaving", "receive"}

\* A send returns, whatever happens to the consumer, to the mutex and to the
\* ring: send_timeout bounds the wait for capacity, and a mutex whose owner
\* died is recovered.  A receive without a deadline returns once its channel is
\* closed, its own side is cancelled or every producer is dead
\* (kPeerCheckInterval).
OperationsReturn ==
    /\ \A p \in Producers : Calling(p) ~> ~Calling(p)
    /\ Calling(Consumer)
         /\ (\/ closed \/ cancelled[Consumer]
             \/ producerPid # NoPid /\ \A p \in Producers : life[p] # "running")
       ~> ~Calling(Consumer)
=============================================================================
