---------------------------- MODULE FifoChannel -----------------------------
(***************************************************************************)
(* What a bounded GraphX channel promises its two ends, whatever carries   *)
(* it: every message that was accepted is delivered once and in order, no  *)
(* more than Capacity are under way, closing is final, and the end of the  *)
(* stream is reported only after everything accepted has been delivered,   *)
(* unless the channel had to discard its contents.                         *)
(***************************************************************************)
EXTENDS Integers, Sequences

CONSTANTS Messages, Capacity

VARIABLES
    sent,        \* the messages accepted so far
    received,    \* the messages delivered so far
    closed,      \* nothing is accepted any more
    discarded,   \* what was under way has been thrown away
    eos          \* the receiver has been told that the stream ended

channel == <<sent, received, closed, discarded, eos>>

Init ==
    /\ sent = <<>> /\ received = <<>>
    /\ closed = FALSE /\ discarded = FALSE /\ eos = FALSE

Accept(m) ==
    /\ ~closed /\ Len(sent) - Len(received) < Capacity
    /\ sent' = Append(sent, m)
    /\ UNCHANGED <<received, closed, discarded, eos>>

Deliver ==
    /\ ~discarded /\ Len(received) < Len(sent)
    /\ received' = Append(received, sent[Len(received) + 1])
    /\ UNCHANGED <<sent, closed, discarded, eos>>

Close ==
    /\ closed' = TRUE
    /\ UNCHANGED <<sent, received, discarded, eos>>

Discard ==
    /\ closed' = TRUE /\ discarded' = TRUE
    /\ UNCHANGED <<sent, received, eos>>

EndOfStream ==
    /\ discarded \/ received = sent
    /\ closed' = TRUE /\ eos' = TRUE
    /\ UNCHANGED <<sent, received, discarded>>

Next == (\E m \in Messages : Accept(m)) \/ Deliver \/ Close \/ Discard \/ EndOfStream

Spec == Init /\ [][Next]_channel
=============================================================================
