-------------------------- MODULE InProcessChannel --------------------------
(***************************************************************************)
(* The in-process channel: a bounded queue under one mutex that endpoints  *)
(* of the same name share, with the condition variables not_empty_ and     *)
(* not_full_.  What a thread does under the mutex is one step; notify_one  *)
(* and notify_all come after the unlock and are steps of their own.        *)
(*                                                                         *)
(* A thread is "waiting" inside wait_for and "woken" when it was notified  *)
(* and has not yet the mutex again.                                        *)
(***************************************************************************)
EXTENDS Naturals, Sequences, FiniteSets

CONSTANTS
  Producers, Consumers,      \* the threads that send and receive
  ChannelCapacity,           \* options_.capacity
  ChannelMessages            \* bound of the model: no send is called after as many envelopes

ASSUME ChannelAssumption ==
  /\ ChannelCapacity \in Nat \ {0} /\ ChannelMessages \in Nat /\ IsFiniteSet(Producers)
  /\ Producers \cap Consumers = {} /\ "control" \notin Producers \cup Consumers

VARIABLES
  policy,       \* options_.backpressure
  queue,        \* queue_
  chClosed,     \* closed_
  chPc,         \* what each thread does
  timed,        \* the receive call of a consumer has a timeout
  pushed, popped,  \* the envelopes accepted and delivered so far
  ended         \* some receive has returned end_of_stream

channelVars == <<policy, queue, chClosed, chPc, timed, pushed, popped, ended>>
Threads == Producers \cup Consumers \cup {"control"}

ChannelInit ==
  /\ policy \in {"block", "reject"}
  /\ queue = <<>> /\ chClosed = FALSE
  /\ chPc = [t \in Threads |-> "idle"] /\ timed = [c \in Consumers |-> FALSE]
  /\ pushed = <<>> /\ popped = <<>> /\ ended = FALSE

Steps(t, pc) == chPc' = [chPc EXCEPT ![t] = pc]
Waiting(ts) == {t \in ts : chPc[t] = "waiting"}
Full == Len(queue) >= ChannelCapacity

-----------------------------------------------------------------------------
\* push, from the point where the predicate of the wait holds
PushBack(p) ==
  /\ queue' = Append(queue, Len(pushed) + 1)
  /\ pushed' = Append(pushed, Len(pushed) + 1)
  /\ Steps(p, "notify")
  /\ UNCHANGED <<policy, chClosed, timed, popped, ended>>
PushReturns(p) == Steps(p, "idle") /\ UNCHANGED <<policy, queue, chClosed, timed, pushed, popped, ended>>
PushWaits(p) == Steps(p, "waiting") /\ UNCHANGED <<policy, queue, chClosed, timed, pushed, popped, ended>>

Push(p) ==
  /\ chPc[p] = "idle" /\ Len(pushed) < ChannelMessages
  /\ CASE chClosed -> PushReturns(p)
       [] ~chClosed /\ Full /\ policy = "reject" -> PushReturns(p)
       [] ~chClosed /\ Full /\ policy = "block" -> PushWaits(p)
       [] OTHER -> PushBack(p)
PushResumes(p) ==
  /\ chPc[p] = "woken"
  /\ CASE chClosed -> PushReturns(p)
       [] ~chClosed /\ Full -> PushWaits(p)
       [] OTHER -> PushBack(p)
\* send_timeout: wait_for returns what the predicate says at its end.
PushTimeout(p) ==
  /\ chPc[p] \in {"waiting", "woken"}
  /\ IF chClosed \/ Full THEN PushReturns(p) ELSE PushBack(p)

\* notify_one: one waiting thread of the other side, if there is any
NotifyOne(t, ts) ==
  /\ chPc[t] = "notify"
  /\ IF Waiting(ts) = {} THEN Steps(t, "idle")
     ELSE \E w \in Waiting(ts) : chPc' = [chPc EXCEPT ![t] = "idle", ![w] = "woken"]
  /\ UNCHANGED <<policy, queue, chClosed, timed, pushed, popped, ended>>
NotifyNotEmpty(p) == NotifyOne(p, Consumers)
\* Mutant: pop does not tell that there is room.
SilentPop(c) ==
  /\ chPc[c] = "notify"
  /\ Steps(c, "idle")
  /\ UNCHANGED <<policy, queue, chClosed, timed, pushed, popped, ended>>
NotifyNotFull(c) == NotifyOne(c, Producers)

-----------------------------------------------------------------------------
PopFront(c) ==
  /\ popped' = Append(popped, Head(queue))
  /\ queue' = Tail(queue)
  /\ Steps(c, "notify")
  /\ timed' = [timed EXCEPT ![c] = FALSE]
  /\ UNCHANGED <<policy, chClosed, pushed, ended>>
\* A queue that is closed and empty ends the stream.  (closed_ of the endpoint that
\* receives would make it cancelled: that endpoint has told itself to stop, and
\* closed_ of an endpoint is not modelled.)
PopEnds(c) ==
  /\ ended' = TRUE
  /\ Steps(c, "idle")
  /\ timed' = [timed EXCEPT ![c] = FALSE]
  /\ UNCHANGED <<policy, queue, chClosed, pushed, popped>>
\* Mutant: a closed channel is left at once.
LeavesAtOnce == ~chClosed /\ queue # <<>>
HasMessage == queue # <<>>
PopTests(c) ==
  CASE HasMessage -> PopFront(c)
    [] ~HasMessage /\ chClosed -> PopEnds(c)
    [] OTHER -> Steps(c, "waiting") /\ UNCHANGED <<policy, queue, chClosed, pushed, popped, ended>>

Pop(c) ==
  /\ chPc[c] = "idle" /\ ~ended
  /\ PopTests(c)
  /\ chPc'[c] = "waiting" => \E b \in BOOLEAN : timed' = [timed EXCEPT ![c] = b]
PopResumes(c) ==
  /\ chPc[c] = "woken"
  /\ PopTests(c)
  /\ chPc'[c] = "waiting" => UNCHANGED timed
PopGivesUp(c) ==
  /\ Steps(c, "idle")
  /\ timed' = [timed EXCEPT ![c] = FALSE]
  /\ UNCHANGED <<policy, queue, chClosed, pushed, popped, ended>>
PopTimeout(c) ==
  /\ chPc[c] \in {"waiting", "woken"} /\ timed[c]
  /\ CASE HasMessage -> PopFront(c)
       [] ~HasMessage /\ chClosed -> PopEnds(c)
       [] OTHER -> PopGivesUp(c)

-----------------------------------------------------------------------------
\* close(): closed_ under the mutex, then notify_all on both variables.
ChannelClose ==
  /\ chPc["control"] = "idle" /\ ~chClosed
  /\ chClosed' = TRUE
  /\ Steps("control", "notify")
  /\ UNCHANGED <<policy, queue, timed, pushed, popped, ended>>
NotifiedByClose == Producers \cup Consumers
NotifyAll ==
  /\ chPc["control"] = "notify"
  /\ chPc' = [t \in Threads |-> CASE t = "control" -> "idle"
                                  [] t \in Waiting(NotifiedByClose) -> "woken"
                                  [] OTHER -> chPc[t]]
  /\ UNCHANGED <<policy, queue, chClosed, timed, pushed, popped, ended>>

ProducerStep(p) == PushResumes(p) \/ PushTimeout(p) \/ NotifyNotEmpty(p)
ConsumerStep(c) == PopResumes(c) \/ PopTimeout(c) \/ NotifyNotFull(c)
ChannelNext ==
  \/ \E p \in Producers : Push(p) \/ ProducerStep(p)
  \/ \E c \in Consumers : Pop(c) \/ ConsumerStep(c)
  \/ ChannelClose \/ NotifyAll

\* Some thread that was notified, or has to notify, goes on; nobody has to call
\* send, receive or close, and no wait is ended by its timeout.
ChannelFairness ==
  /\ WF_channelVars(\E p \in Producers : PushResumes(p) \/ NotifyNotEmpty(p))
  /\ WF_channelVars(\E c \in Consumers : PopResumes(c) \/ NotifyNotFull(c))
  /\ WF_channelVars(NotifyAll)
ChannelSpec == ChannelInit /\ [][ChannelNext]_channelVars /\ ChannelFairness

-----------------------------------------------------------------------------
Envelopes == 1 .. ChannelMessages + Cardinality(Producers)
ChannelTypeOK ==
  /\ policy \in {"block", "reject"} /\ queue \in Seq(Envelopes)
  /\ Len(queue) <= ChannelCapacity
  /\ chClosed \in BOOLEAN /\ ended \in BOOLEAN
  /\ chPc \in [Threads -> {"idle", "waiting", "woken", "notify"}]
  /\ timed \in [Consumers -> BOOLEAN]
  /\ {pushed, popped} \subseteq Seq(Envelopes)

\* A thread waits although the predicate of its wait holds.
Asleep ==
  \/ \E p \in Waiting(Producers) : chClosed \/ ~Full
  \/ \E c \in Waiting(Consumers) : chClosed \/ queue # <<>>

Fifo == INSTANCE FifoChannel
          WITH Messages <- Envelopes, Capacity <- ChannelCapacity, sent <- pushed,
               received <- popped, closed <- chClosed, discarded <- FALSE, eos <- ended
\* The channel keeps the promise of FifoChannel: what was accepted is delivered
\* once and in order, within the capacity, and the end of the stream is reported
\* after all of it (in_process_transport.cpp:15-59).
ChannelIsFifo == Fifo!Spec

=============================================================================
