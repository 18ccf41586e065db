----------------------- MODULE SharedMemoryRing_proofs ----------------------
(***************************************************************************)
(* Proofs about SharedMemoryRing, for every set of producers, every set of *)
(* messages and every capacity: its types, the single producer, and that   *)
(* the ring implements the FIFO channel.                                   *)
(***************************************************************************)
EXTENDS SharedMemoryRing, TLAPS

(***************************************************************************)
(* The inductive invariant.                                                *)
(***************************************************************************)
\* A thread inside the copy owns the mutex, alone, and nothing closes or
\* fills the ring behind it.
MutexInv ==
    /\ \A p \in Procs : Holds(p) => lock = "held" /\ life[p] = "running" /\ p \in Producers
    /\ \A p, q \in Procs : Holds(p) /\ Holds(q) => p = q
    /\ \A p \in Procs : pc[p] = "copying" => closed = FALSE /\ head - tail < Capacity

\* The counters are the lengths of the histories, until a recovery discards
\* the queue.
CounterInv ==
    /\ head = Len(sent)
    /\ tail <= head /\ head - tail <= Capacity
    /\ discarded = FALSE => tail = Len(received)
    /\ discarded = TRUE => closed = TRUE /\ tail = head
    /\ Len(received) <= tail

\* The slots between tail and head hold what was sent.
ContentInv == \A i \in Nat : tail <= i /\ i < head => slots[Slot(i)] = sent[i + 1]

\* What was received is a prefix of what was sent.
PrefixInv == \A i \in 1..Len(received) : received[i] = sent[i]

\* The producer role, and the control thread that gives it up.
RoleInv ==
    /\ SoleProducer
    /\ \A p \in Procs : closer[p] = "lock" => cancelled[p] = TRUE

RingInv == TypeOK /\ MutexInv /\ CounterInv /\ ContentInv /\ PrefixInv /\ RoleInv
-----------------------------------------------------------------------------
\* Slot numbers stay inside the ring (Impl::slot).
LEMMA SlotInRange == ASSUME NEW i \in Nat PROVE Slot(i) \in Slots
  BY CapacityAssumption DEF Slot, Slots

\* Two sequence numbers less than Capacity apart use different slots.
LEMMA SlotsDistinct ==
  ASSUME NEW i \in Nat, NEW j \in Nat, i < j, j - i < Capacity
  PROVE  Slot(i) # Slot(j)
<1> DEFINE a == i \div Capacity  b == j \div Capacity
<1>1. /\ a \in Int /\ b \in Int /\ Slot(i) \in Int /\ Slot(j) \in Int
      /\ i = Capacity * a + Slot(i) /\ j = Capacity * b + Slot(j)
  BY CapacityAssumption DEF Slot
<1>2. SUFFICES ASSUME Slot(i) = Slot(j) PROVE FALSE
  OBVIOUS
<1> HIDE DEF a, b
<1>3. j - i = Capacity * (b - a)
  BY <1>1, <1>2, CapacityAssumption
<1>4. CASE b - a <= 0
  BY <1>1, <1>3, <1>4, CapacityAssumption
<1>5. CASE b - a >= 1
  BY <1>1, <1>3, <1>5, CapacityAssumption
<1>6. QED
  BY <1>1, <1>4, <1>5
-----------------------------------------------------------------------------
\* The message at the tail of a ring that is not empty is the next one that
\* was sent (the slot receive_result reads).
LEMMA TailSlot ==
  ASSUME RingInv, head # tail
  PROVE  /\ tail < head /\ head = Len(sent) /\ tail + 1 \in 1..Len(sent)
         /\ slots[Slot(tail)] = sent[tail + 1] /\ sent[tail + 1] \in Messages
         /\ discarded = FALSE /\ tail = Len(received)
<1>1. head \in Nat /\ tail \in Nat /\ sent \in Seq(Messages) /\ received \in Seq(Messages)
      /\ discarded \in BOOLEAN
  BY DEF RingInv, TypeOK
<1>2. /\ tail < head /\ head = Len(sent) /\ tail + 1 \in 1..Len(sent)
      /\ discarded = FALSE /\ tail = Len(received)
  BY <1>1 DEF RingInv, CounterInv
<1>3. slots[Slot(tail)] = sent[tail + 1]
  BY <1>1, <1>2 DEF RingInv, ContentInv
<1>4. sent[tail + 1] \in Messages
  BY <1>1, <1>2
<1>5. QED
  BY <1>2, <1>3, <1>4

\* Every step keeps the types; that the envelope a receive returns is a
\* complete one comes from what the slots hold.
LEMMA TypeStep ==
  ASSUME RingInv, [Next]_vars
  PROVE  TypeOK'
<1> USE DEF RingInv, TypeOK, header, threads, history
<1>1. ASSUME NEW p \in Producers, ConnectCall(p) PROVE TypeOK'
  BY <1>1 DEF ConnectCall, Goes, CallSteps, CloseSteps, Procs
<1>2. ASSUME NEW p \in Producers, Claim(p) PROVE TypeOK'
  BY <1>2 DEF Claim, Section, Goes, CallSteps, CloseSteps, Procs
<1>3. ASSUME NEW p \in Producers, ClaimRefused(p) PROVE TypeOK'
  BY <1>3 DEF ClaimRefused, Section, Goes, CallSteps, CloseSteps, Procs
<1>4. ASSUME NEW p \in Producers, SendCall(p) PROVE TypeOK'
  BY <1>4 DEF SendCall, Goes, CallSteps, CloseSteps, Procs
<1>5. ASSUME NEW p \in Producers, SendFails(p) PROVE TypeOK'
  BY <1>5 DEF SendFails, Section, Goes, CallSteps, CloseSteps, Procs
<1>6. ASSUME NEW p \in Producers, SendGivesUp(p) PROVE TypeOK'
  BY <1>6 DEF SendGivesUp, Section, Goes, CallSteps, CloseSteps, Procs
<1>7. ASSUME NEW p \in Producers, SendCopies(p) PROVE TypeOK'
  BY <1>7 DEF SendCopies, Goes, CallSteps, CloseSteps, Procs
<1>8. ASSUME NEW p \in Producers, NEW m \in Messages, SendCommits(p, m) PROVE TypeOK'
  <2>1. head' \in Nat /\ sent' \in Seq(Messages)
    BY <1>8 DEF SendCommits
  <2>2. slots' \in [Slots -> Messages \cup {Torn}]
    BY <1>8 DEF SendCommits
  <2>3. pc' \in [Procs -> CallSteps]
    BY <1>8 DEF SendCommits, Goes, CallSteps
  <2>4. QED
    BY <1>8, <2>1, <2>2, <2>3 DEF SendCommits, Goes
<1>9. ASSUME NEW p \in Producers, SendUnlocks(p) PROVE TypeOK'
  BY <1>9 DEF SendUnlocks, Goes, CallSteps, CloseSteps, Procs
<1>10. CASE ReceiveCall
  BY <1>10 DEF ReceiveCall, Goes, CallSteps, CloseSteps, Procs
<1>11. CASE Receives
  <2>1. received' \in Seq(Messages)
    <3>1. slots[Slot(tail)] \in Messages
      BY <1>11, TailSlot DEF Receives, Empty
    <3>2. QED
      BY <1>11, <3>1 DEF Receives
  <2>2. tail' \in Nat
    BY <1>11 DEF Receives
  <2>3. pc' \in [Procs -> CallSteps]
    BY <1>11 DEF Receives, Section, Goes, CallSteps
  <2>4. QED
    BY <1>11, <2>1, <2>2, <2>3 DEF Receives, Section, Goes
<1>12. CASE ReceiveCancelled
  BY <1>12 DEF ReceiveCancelled, Section, Goes, CallSteps, CloseSteps, Procs
<1>13. CASE ReceiveEnds
  BY <1>13 DEF ReceiveEnds, Section, Goes, CallSteps, CloseSteps, Procs
<1>14. CASE ReceiveTimesOut
  BY <1>14 DEF ReceiveTimesOut, Section, Goes, CallSteps, CloseSteps, Procs
<1>15. ASSUME NEW p \in Procs, RecoverMutex(p) PROVE TypeOK'
  BY <1>15 DEF RecoverMutex, Goes, CallSteps, CloseSteps, Procs
<1>16. ASSUME NEW p \in Procs, CloseCall(p) PROVE TypeOK'
  BY <1>16 DEF CloseCall, CallSteps, CloseSteps, Procs
<1>17. ASSUME NEW p \in Procs, CloseRing(p) PROVE TypeOK'
  BY <1>17 DEF CloseRing, CallSteps, CloseSteps, Procs
<1>18. ASSUME NEW p \in Procs, Die(p) PROVE TypeOK'
  BY <1>18 DEF Die, CallSteps, CloseSteps, Procs
<1>19. ASSUME NEW p \in Procs, Reap(p) PROVE TypeOK'
  BY <1>19 DEF Reap, CallSteps, CloseSteps, Procs
<1>20. CASE UNCHANGED vars
  BY <1>20 DEF vars, header, threads, history, CallSteps, CloseSteps, Procs
<1>21. QED
  BY <1>1, <1>2, <1>3, <1>4, <1>5, <1>6, <1>7, <1>8, <1>9, <1>10,
     <1>11, <1>12, <1>13, <1>14, <1>15, <1>16, <1>17, <1>18, <1>19, <1>20
  DEF Next, Sending, Receiving

\* Every step keeps the mutex with the thread inside the copy.
LEMMA MutexStep ==
  ASSUME RingInv, TypeOK', [Next]_vars
  PROVE  MutexInv'
<1> USE DEF RingInv, TypeOK, header, threads, history, MutexInv, Holds
<1>1. ASSUME NEW p \in Producers, ConnectCall(p) PROVE MutexInv'
  BY <1>1 DEF ConnectCall, Goes, Procs, Full
<1>2. ASSUME NEW p \in Producers, Claim(p) PROVE MutexInv'
  BY <1>2 DEF Claim, Section, Goes, Procs, Full
<1>3. ASSUME NEW p \in Producers, ClaimRefused(p) PROVE MutexInv'
  BY <1>3 DEF ClaimRefused, Section, Goes, Procs, Full
<1>4. ASSUME NEW p \in Producers, SendCall(p) PROVE MutexInv'
  BY <1>4 DEF SendCall, Goes, Procs, Full
<1>5. ASSUME NEW p \in Producers, SendFails(p) PROVE MutexInv'
  BY <1>5 DEF SendFails, Section, Goes, Procs, Full
<1>6. ASSUME NEW p \in Producers, SendGivesUp(p) PROVE MutexInv'
  BY <1>6 DEF SendGivesUp, Section, Goes, Procs, Full
<1>7. ASSUME NEW p \in Producers, SendCopies(p) PROVE MutexInv'
  BY <1>7, CapacityAssumption DEF SendCopies, Acceptable, Goes, Procs, Full
<1>8. ASSUME NEW p \in Producers, NEW m \in Messages, SendCommits(p, m) PROVE MutexInv'
  BY <1>8 DEF SendCommits, Goes, Procs, Full
<1>9. ASSUME NEW p \in Producers, SendUnlocks(p) PROVE MutexInv'
  BY <1>9 DEF SendUnlocks, Goes, Procs, Full
<1>10. CASE ReceiveCall
  BY <1>10 DEF ReceiveCall, Goes, Procs, Full
<1>11. CASE Receives
  BY <1>11 DEF Receives, Section, Goes, Procs, Full
<1>12. CASE ReceiveCancelled
  BY <1>12 DEF ReceiveCancelled, Section, Goes, Procs, Full
<1>13. CASE ReceiveEnds
  BY <1>13 DEF ReceiveEnds, Section, Goes, Procs, Full
<1>14. CASE ReceiveTimesOut
  BY <1>14 DEF ReceiveTimesOut, Section, Goes, Procs, Full
<1>15. ASSUME NEW p \in Procs, RecoverMutex(p) PROVE MutexInv'
  BY <1>15 DEF RecoverMutex, Goes, Procs, Full
<1>16. ASSUME NEW p \in Procs, CloseCall(p) PROVE MutexInv'
  BY <1>16 DEF CloseCall, Procs, Full
<1>17. ASSUME NEW p \in Procs, CloseRing(p) PROVE MutexInv'
  BY <1>17 DEF CloseRing, Procs, Full
<1>18. ASSUME NEW p \in Procs, Die(p) PROVE MutexInv'
  <2>1. CASE Holds(p)
    BY <1>18, <2>1 DEF Die
  <2>2. CASE ~Holds(p) /\ Asks(p)
    BY <1>18, <2>2 DEF Die, Asks
  <2>3. CASE ~Holds(p) /\ UNCHANGED lock
    BY <1>18, <2>3 DEF Die
  <2>4. QED
    BY <1>18, <2>1, <2>2, <2>3 DEF Die
<1>19. ASSUME NEW p \in Procs, Reap(p) PROVE MutexInv'
  BY <1>19 DEF Reap, Procs, Full
<1>20. CASE UNCHANGED vars
  BY <1>20 DEF vars, header, threads, history, Procs, Full
<1>21. QED
  BY <1>1, <1>2, <1>3, <1>4, <1>5, <1>6, <1>7, <1>8, <1>9, <1>10,
     <1>11, <1>12, <1>13, <1>14, <1>15, <1>16, <1>17, <1>18, <1>19, <1>20
  DEF Next, Sending, Receiving

\* Every step keeps the counters equal to the histories.
LEMMA CounterStep ==
  ASSUME RingInv, TypeOK', [Next]_vars
  PROVE  CounterInv'
<1> USE DEF RingInv, TypeOK, header, threads, history, CounterInv
<1>1. ASSUME NEW p \in Producers, ConnectCall(p) PROVE CounterInv'
  BY <1>1 DEF ConnectCall, Goes, Empty
<1>2. ASSUME NEW p \in Producers, Claim(p) PROVE CounterInv'
  BY <1>2 DEF Claim, Section, Goes, Empty
<1>3. ASSUME NEW p \in Producers, ClaimRefused(p) PROVE CounterInv'
  BY <1>3 DEF ClaimRefused, Section, Goes, Empty
<1>4. ASSUME NEW p \in Producers, SendCall(p) PROVE CounterInv'
  BY <1>4 DEF SendCall, Goes, Empty
<1>5. ASSUME NEW p \in Producers, SendFails(p) PROVE CounterInv'
  BY <1>5 DEF SendFails, Section, Goes, Empty
<1>6. ASSUME NEW p \in Producers, SendGivesUp(p) PROVE CounterInv'
  BY <1>6 DEF SendGivesUp, Section, Goes, Empty
<1>7. ASSUME NEW p \in Producers, SendCopies(p) PROVE CounterInv'
  BY <1>7 DEF SendCopies, Goes, Empty
<1>8. ASSUME NEW p \in Producers, NEW m \in Messages, SendCommits(p, m) PROVE CounterInv'
  <2>1. closed = FALSE /\ head - tail < Capacity
    BY <1>8 DEF SendCommits, Goes, MutexInv, Procs
  <2>2. Len(sent') = Len(sent) + 1
    BY <1>8 DEF SendCommits
  <2>3. QED
    BY <1>8, <2>1, <2>2, CapacityAssumption DEF SendCommits
<1>9. ASSUME NEW p \in Producers, SendUnlocks(p) PROVE CounterInv'
  BY <1>9 DEF SendUnlocks, Goes, Empty
<1>10. CASE ReceiveCall
  BY <1>10 DEF ReceiveCall, Goes, Empty
<1>11. CASE Receives
  <2>1. tail < head /\ discarded = FALSE /\ tail = Len(received) /\ slots[Slot(tail)] \in Messages
    BY <1>11, TailSlot DEF Receives, Empty
  <2>2. Len(received') = Len(received) + 1
    BY <1>11, <2>1 DEF Receives
  <2>3. QED
    BY <1>11, <2>1, <2>2, CapacityAssumption DEF Receives
<1>12. CASE ReceiveCancelled
  BY <1>12 DEF ReceiveCancelled, Section, Goes, Empty
<1>13. CASE ReceiveEnds
  BY <1>13 DEF ReceiveEnds, Section, Goes, Empty
<1>14. CASE ReceiveTimesOut
  BY <1>14 DEF ReceiveTimesOut, Section, Goes, Empty
<1>15. ASSUME NEW p \in Procs, RecoverMutex(p) PROVE CounterInv'
  BY <1>15, CapacityAssumption DEF RecoverMutex
<1>16. ASSUME NEW p \in Procs, CloseCall(p) PROVE CounterInv'
  BY <1>16 DEF CloseCall, Empty
<1>17. ASSUME NEW p \in Procs, CloseRing(p) PROVE CounterInv'
  BY <1>17 DEF CloseRing, Empty
<1>18. ASSUME NEW p \in Procs, Die(p) PROVE CounterInv'
  BY <1>18 DEF Die, Empty
<1>19. ASSUME NEW p \in Procs, Reap(p) PROVE CounterInv'
  BY <1>19 DEF Reap, Empty
<1>20. CASE UNCHANGED vars
  BY <1>20 DEF vars, header, threads, history, Empty
<1>21. QED
  BY <1>1, <1>2, <1>3, <1>4, <1>5, <1>6, <1>7, <1>8, <1>9, <1>10,
     <1>11, <1>12, <1>13, <1>14, <1>15, <1>16, <1>17, <1>18, <1>19, <1>20
  DEF Next, Sending, Receiving

\* Every step keeps the queued slots: a copy goes to a slot outside the queue.
LEMMA ContentStep ==
  ASSUME RingInv, TypeOK', [Next]_vars
  PROVE  ContentInv'
<1> USE DEF RingInv, TypeOK, header, threads, history, ContentInv
<1>1. ASSUME NEW p \in Producers, ConnectCall(p) PROVE ContentInv'
  BY <1>1 DEF ConnectCall, Goes
<1>2. ASSUME NEW p \in Producers, Claim(p) PROVE ContentInv'
  BY <1>2 DEF Claim, Section, Goes
<1>3. ASSUME NEW p \in Producers, ClaimRefused(p) PROVE ContentInv'
  BY <1>3 DEF ClaimRefused, Section, Goes
<1>4. ASSUME NEW p \in Producers, SendCall(p) PROVE ContentInv'
  BY <1>4 DEF SendCall, Goes
<1>5. ASSUME NEW p \in Producers, SendFails(p) PROVE ContentInv'
  BY <1>5 DEF SendFails, Section, Goes
<1>6. ASSUME NEW p \in Producers, SendGivesUp(p) PROVE ContentInv'
  BY <1>6 DEF SendGivesUp, Section, Goes
<1>7. ASSUME NEW p \in Producers, SendCopies(p) PROVE ContentInv'
  <2> SUFFICES ASSUME NEW i \in Nat, tail' <= i, i < head' PROVE slots'[Slot(i)] = sent'[i + 1]
    OBVIOUS
  <2>1. i < head /\ head - i < Capacity
    BY <1>7, CapacityAssumption DEF SendCopies, Acceptable, Full
  <2>2. Slot(i) # Slot(head) /\ Slot(i) \in Slots
    BY <2>1, SlotsDistinct, SlotInRange
  <2>3. QED
    BY <1>7, <2>1, <2>2 DEF SendCopies
<1>8. ASSUME NEW p \in Producers, NEW m \in Messages, SendCommits(p, m) PROVE ContentInv'
  <2> SUFFICES ASSUME NEW i \in Nat, tail' <= i, i < head' PROVE slots'[Slot(i)] = sent'[i + 1]
    OBVIOUS
  <2>1. head - tail < Capacity /\ head = Len(sent)
    BY <1>8 DEF SendCommits, Goes, MutexInv, CounterInv, Procs
  <2>2. Slot(head) \in Slots /\ Slot(i) \in Slots
    BY SlotInRange
  <2>3. CASE i = head
    BY <1>8, <2>1, <2>2, <2>3 DEF SendCommits
  <2>4. CASE i < head
    <3>1. Slot(i) # Slot(head)
      BY <1>8, <2>1, <2>4, CapacityAssumption, SlotsDistinct DEF SendCommits
    <3>2. slots'[Slot(i)] = slots[Slot(i)] /\ slots[Slot(i)] = sent[i + 1]
      BY <1>8, <2>2, <2>4, <3>1 DEF SendCommits
    <3>3. sent'[i + 1] = sent[i + 1]
      BY <1>8, <2>1, <2>4 DEF SendCommits
    <3>4. QED
      BY <3>2, <3>3
  <2>5. i = head \/ i < head
    BY <1>8 DEF SendCommits
  <2>6. QED
    BY <2>3, <2>4, <2>5
<1>9. ASSUME NEW p \in Producers, SendUnlocks(p) PROVE ContentInv'
  BY <1>9 DEF SendUnlocks, Goes
<1>10. CASE ReceiveCall
  BY <1>10 DEF ReceiveCall, Goes
<1>11. CASE Receives
  BY <1>11 DEF Receives, Section, Goes
<1>12. CASE ReceiveCancelled
  BY <1>12 DEF ReceiveCancelled, Section, Goes
<1>13. CASE ReceiveEnds
  BY <1>13 DEF ReceiveEnds, Section, Goes
<1>14. CASE ReceiveTimesOut
  BY <1>14 DEF ReceiveTimesOut, Section, Goes
<1>15. ASSUME NEW p \in Procs, RecoverMutex(p) PROVE ContentInv'
  BY <1>15 DEF RecoverMutex, Goes
<1>16. ASSUME NEW p \in Procs, CloseCall(p) PROVE ContentInv'
  BY <1>16 DEF CloseCall
<1>17. ASSUME NEW p \in Procs, CloseRing(p) PROVE ContentInv'
  BY <1>17 DEF CloseRing
<1>18. ASSUME NEW p \in Procs, Die(p) PROVE ContentInv'
  BY <1>18 DEF Die
<1>19. ASSUME NEW p \in Procs, Reap(p) PROVE ContentInv'
  BY <1>19 DEF Reap
<1>20. CASE UNCHANGED vars
  BY <1>20 DEF vars, header, threads, history
<1>21. QED
  BY <1>1, <1>2, <1>3, <1>4, <1>5, <1>6, <1>7, <1>8, <1>9, <1>10,
     <1>11, <1>12, <1>13, <1>14, <1>15, <1>16, <1>17, <1>18, <1>19, <1>20
  DEF Next, Sending, Receiving

\* Every step keeps what was received a prefix of what was sent.
LEMMA PrefixStep ==
  ASSUME RingInv, TypeOK', [Next]_vars
  PROVE  PrefixInv'
<1> USE DEF RingInv, TypeOK, header, threads, history, PrefixInv
<1>1. ASSUME NEW p \in Producers, ConnectCall(p) PROVE PrefixInv'
  BY <1>1 DEF ConnectCall, Goes
<1>2. ASSUME NEW p \in Producers, Claim(p) PROVE PrefixInv'
  BY <1>2 DEF Claim, Section, Goes
<1>3. ASSUME NEW p \in Producers, ClaimRefused(p) PROVE PrefixInv'
  BY <1>3 DEF ClaimRefused, Section, Goes
<1>4. ASSUME NEW p \in Producers, SendCall(p) PROVE PrefixInv'
  BY <1>4 DEF SendCall, Goes
<1>5. ASSUME NEW p \in Producers, SendFails(p) PROVE PrefixInv'
  BY <1>5 DEF SendFails, Section, Goes
<1>6. ASSUME NEW p \in Producers, SendGivesUp(p) PROVE PrefixInv'
  BY <1>6 DEF SendGivesUp, Section, Goes
<1>7. ASSUME NEW p \in Producers, SendCopies(p) PROVE PrefixInv'
  BY <1>7 DEF SendCopies, Goes
<1>8. ASSUME NEW p \in Producers, NEW m \in Messages, SendCommits(p, m) PROVE PrefixInv'
  <2>1. Len(received) <= Len(sent)
    BY DEF CounterInv
  <2>2. QED
    BY <1>8, <2>1 DEF SendCommits
<1>9. ASSUME NEW p \in Producers, SendUnlocks(p) PROVE PrefixInv'
  BY <1>9 DEF SendUnlocks, Goes
<1>10. CASE ReceiveCall
  BY <1>10 DEF ReceiveCall, Goes
<1>11. CASE Receives
  <2> SUFFICES ASSUME NEW i \in 1..Len(received') PROVE received'[i] = sent'[i]
    OBVIOUS
  <2>1. tail = Len(received) /\ slots[Slot(tail)] = sent[tail + 1] /\ slots[Slot(tail)] \in Messages
    BY <1>11, TailSlot DEF Receives, Empty
  <2>2. CASE i = Len(received) + 1
    BY <1>11, <2>1, <2>2 DEF Receives
  <2>3. CASE i \in 1..Len(received)
    BY <1>11, <2>1, <2>3 DEF Receives
  <2>4. i \in 1..(Len(received) + 1)
    BY <1>11, <2>1 DEF Receives
  <2>5. QED
    BY <2>2, <2>3, <2>4
<1>12. CASE ReceiveCancelled
  BY <1>12 DEF ReceiveCancelled, Section, Goes
<1>13. CASE ReceiveEnds
  BY <1>13 DEF ReceiveEnds, Section, Goes
<1>14. CASE ReceiveTimesOut
  BY <1>14 DEF ReceiveTimesOut, Section, Goes
<1>15. ASSUME NEW p \in Procs, RecoverMutex(p) PROVE PrefixInv'
  BY <1>15 DEF RecoverMutex, Goes
<1>16. ASSUME NEW p \in Procs, CloseCall(p) PROVE PrefixInv'
  BY <1>16 DEF CloseCall
<1>17. ASSUME NEW p \in Procs, CloseRing(p) PROVE PrefixInv'
  BY <1>17 DEF CloseRing
<1>18. ASSUME NEW p \in Procs, Die(p) PROVE PrefixInv'
  BY <1>18 DEF Die
<1>19. ASSUME NEW p \in Procs, Reap(p) PROVE PrefixInv'
  BY <1>19 DEF Reap
<1>20. CASE UNCHANGED vars
  BY <1>20 DEF vars, header, threads, history
<1>21. QED
  BY <1>1, <1>2, <1>3, <1>4, <1>5, <1>6, <1>7, <1>8, <1>9, <1>10,
     <1>11, <1>12, <1>13, <1>14, <1>15, <1>16, <1>17, <1>18, <1>19, <1>20
  DEF Next, Sending, Receiving

\* Every step keeps the producer role with one process.
LEMMA RoleStep ==
  ASSUME RingInv, TypeOK', [Next]_vars
  PROVE  RoleInv'
<1> USE DEF RingInv, TypeOK, header, threads, history, RoleInv, SoleProducer, Claimed
<1>1. ASSUME NEW p \in Producers, ConnectCall(p) PROVE RoleInv'
  BY <1>1 DEF ConnectCall, Goes, Procs, RoleFree, ProcessAlive
<1>2. ASSUME NEW p \in Producers, Claim(p) PROVE RoleInv'
  <2>1. ASSUME NEW q \in Producers, q # p, life[q] = "running", Claimed(q), ~cancelled[q] PROVE FALSE
    BY <1>2, <2>1, ProcsAssumption DEF Claim, RoleFree, ProcessAlive, Procs
  <2>2. QED
    BY <1>2, <2>1 DEF Claim, Section, Goes, Procs
<1>3. ASSUME NEW p \in Producers, ClaimRefused(p) PROVE RoleInv'
  BY <1>3 DEF ClaimRefused, Section, Goes, Procs, RoleFree, ProcessAlive
<1>4. ASSUME NEW p \in Producers, SendCall(p) PROVE RoleInv'
  BY <1>4 DEF SendCall, Goes, Procs, RoleFree, ProcessAlive
<1>5. ASSUME NEW p \in Producers, SendFails(p) PROVE RoleInv'
  BY <1>5 DEF SendFails, Section, Goes, Procs, RoleFree, ProcessAlive
<1>6. ASSUME NEW p \in Producers, SendGivesUp(p) PROVE RoleInv'
  BY <1>6 DEF SendGivesUp, Section, Goes, Procs, RoleFree, ProcessAlive
<1>7. ASSUME NEW p \in Producers, SendCopies(p) PROVE RoleInv'
  BY <1>7 DEF SendCopies, Goes, Procs, RoleFree, ProcessAlive
<1>8. ASSUME NEW p \in Producers, NEW m \in Messages, SendCommits(p, m) PROVE RoleInv'
  BY <1>8 DEF SendCommits, Goes, Procs, RoleFree, ProcessAlive
<1>9. ASSUME NEW p \in Producers, SendUnlocks(p) PROVE RoleInv'
  BY <1>9 DEF SendUnlocks, Goes, Procs, RoleFree, ProcessAlive
<1>10. CASE ReceiveCall
  BY <1>10 DEF ReceiveCall, Goes, Procs, RoleFree, ProcessAlive
<1>11. CASE Receives
  BY <1>11 DEF Receives, Section, Goes, Procs, RoleFree, ProcessAlive
<1>12. CASE ReceiveCancelled
  BY <1>12 DEF ReceiveCancelled, Section, Goes, Procs, RoleFree, ProcessAlive
<1>13. CASE ReceiveEnds
  BY <1>13 DEF ReceiveEnds, Section, Goes, Procs, RoleFree, ProcessAlive
<1>14. CASE ReceiveTimesOut
  BY <1>14 DEF ReceiveTimesOut, Section, Goes, Procs, RoleFree, ProcessAlive
<1>15. ASSUME NEW p \in Procs, RecoverMutex(p) PROVE RoleInv'
  BY <1>15 DEF RecoverMutex, Goes, Procs, RoleFree, ProcessAlive
<1>16. ASSUME NEW p \in Procs, CloseCall(p) PROVE RoleInv'
  BY <1>16 DEF CloseCall, Procs, RoleFree, ProcessAlive
<1>17. ASSUME NEW p \in Procs, CloseRing(p) PROVE RoleInv'
  BY <1>17 DEF CloseRing, Procs, RoleFree, ProcessAlive
<1>18. ASSUME NEW p \in Procs, Die(p) PROVE RoleInv'
  BY <1>18 DEF Die, Procs, RoleFree, ProcessAlive
<1>19. ASSUME NEW p \in Procs, Reap(p) PROVE RoleInv'
  BY <1>19 DEF Reap, Procs, RoleFree, ProcessAlive
<1>20. CASE UNCHANGED vars
  BY <1>20 DEF vars, header, threads, history, Procs, RoleFree, ProcessAlive
<1>21. QED
  BY <1>1, <1>2, <1>3, <1>4, <1>5, <1>6, <1>7, <1>8, <1>9, <1>10,
     <1>11, <1>12, <1>13, <1>14, <1>15, <1>16, <1>17, <1>18, <1>19, <1>20
  DEF Next, Sending, Receiving

-----------------------------------------------------------------------------
\* The invariant holds of a segment its listener has just initialised.
LEMMA RingInit == Init => RingInv
<1> SUFFICES ASSUME Init PROVE RingInv
  OBVIOUS
<1> USE DEF Init
<1>1. TypeOK
  <2>1. sent \in Seq(Messages) /\ received \in Seq(Messages)
    OBVIOUS
  <2>2. pc \in [Procs -> CallSteps] /\ closer \in [Procs -> CloseSteps]
    BY DEF CallSteps, CloseSteps
  <2>3. QED
    BY <2>1, <2>2 DEF TypeOK
<1>2. MutexInv
  BY DEF MutexInv, Holds
<1>3. CounterInv
  BY CapacityAssumption DEF CounterInv
<1>4. ContentInv
  BY DEF ContentInv
<1>5. PrefixInv
  BY DEF PrefixInv
<1>6. RoleInv
  BY ProcsAssumption DEF RoleInv, SoleProducer, Claimed, Procs
<1>7. QED
  BY <1>1, <1>2, <1>3, <1>4, <1>5, <1>6 DEF RingInv

\* Every step keeps the invariant.
LEMMA RingStep == RingInv /\ [Next]_vars => RingInv'
  BY TypeStep, MutexStep, CounterStep, ContentStep, PrefixStep, RoleStep DEF RingInv

\* The invariant holds in every reachable state of the ring.
THEOREM RingInvariant == Spec => []RingInv
  BY RingInit, RingStep, PTL DEF Spec

\* The header, the threads and the histories keep their types, and
\* receive_result never returns a torn slot, whoever dies and when.
THEOREM RingTypes == Spec => []TypeOK
<1>1. RingInv => TypeOK
  BY DEF RingInv
<1>2. QED
  BY <1>1, RingInvariant, PTL

\* At most one live, open producer has the role connect claims.
THEOREM RingSoleProducer == Spec => []SoleProducer
<1>1. RingInv => SoleProducer
  BY DEF RingInv, RoleInv
<1>2. QED
  BY <1>1, RingInvariant, PTL
-----------------------------------------------------------------------------
(***************************************************************************)
(* Refinement: the ring is a bounded FIFO channel.                         *)
(***************************************************************************)
\* A ring that has just been initialised is an empty, open channel.
LEMMA RefinesInit == Init => Channel!Init
  BY DEF Init, Channel!Init

\* Every step of the ring is a step of the channel or leaves it alone.
LEMMA RefinesStep ==
  ASSUME RingInv, [Next]_vars
  PROVE  [Channel!Next]_(Channel!channel)
<1>1. ASSUME NEW p \in Producers, ConnectCall(p) PROVE [Channel!Next]_(Channel!channel)
  BY <1>1 DEF ConnectCall, Goes, header, history, Channel!channel
<1>2. ASSUME NEW p \in Producers, Claim(p) PROVE [Channel!Next]_(Channel!channel)
  BY <1>2 DEF Claim, Section, Goes, header, history, Channel!channel
<1>3. ASSUME NEW p \in Producers, ClaimRefused(p) PROVE [Channel!Next]_(Channel!channel)
  BY <1>3 DEF ClaimRefused, Section, Goes, header, history, Channel!channel
<1>4. ASSUME NEW p \in Producers, SendCall(p) PROVE [Channel!Next]_(Channel!channel)
  BY <1>4 DEF SendCall, Goes, header, history, Channel!channel
<1>5. ASSUME NEW p \in Producers, SendFails(p) PROVE [Channel!Next]_(Channel!channel)
  <2>1. Channel!Close
    BY <1>5 DEF SendFails, history, Channel!Close
  <2>2. QED
    BY <2>1 DEF Channel!Next
<1>6. ASSUME NEW p \in Producers, SendGivesUp(p) PROVE [Channel!Next]_(Channel!channel)
  BY <1>6 DEF SendGivesUp, Section, Goes, header, history, Channel!channel
<1>7. ASSUME NEW p \in Producers, SendCopies(p) PROVE [Channel!Next]_(Channel!channel)
  BY <1>7 DEF SendCopies, Goes, header, history, Channel!channel
<1>8. ASSUME NEW p \in Producers, NEW m \in Messages, SendCommits(p, m) PROVE [Channel!Next]_(Channel!channel)
  <2>1. closed = FALSE /\ head - tail < Capacity
    BY <1>8 DEF SendCommits, Goes, RingInv, MutexInv, Procs
  <2>2. Len(sent) = head /\ Len(received) = tail
    BY <2>1 DEF RingInv, CounterInv, TypeOK
  <2>3. Channel!Accept(m)
    BY <1>8, <2>1, <2>2 DEF SendCommits, Channel!Accept
  <2>4. QED
    BY <2>3 DEF Channel!Next
<1>9. ASSUME NEW p \in Producers, SendUnlocks(p) PROVE [Channel!Next]_(Channel!channel)
  BY <1>9 DEF SendUnlocks, Goes, header, history, Channel!channel
<1>10. CASE ReceiveCall
  BY <1>10 DEF ReceiveCall, Goes, header, history, Channel!channel
<1>11. CASE Receives
  <2>1. /\ discarded = FALSE /\ Len(received) = tail /\ Len(received) < Len(sent)
        /\ slots[Slot(tail)] = sent[Len(received) + 1]
    BY <1>11, TailSlot DEF Receives, Empty
  <2>2. Channel!Deliver
    BY <1>11, <2>1 DEF Receives, Channel!Deliver
  <2>3. QED
    BY <2>2 DEF Channel!Next
<1>12. CASE ReceiveCancelled
  BY <1>12 DEF ReceiveCancelled, Section, Goes, header, history, Channel!channel
<1>13. CASE ReceiveEnds
  <2>1. discarded \/ received = sent
    <3>1. SUFFICES ASSUME discarded = FALSE PROVE received = sent
      BY DEF RingInv, TypeOK
    <3>2. /\ sent \in Seq(Messages) /\ received \in Seq(Messages)
          /\ Len(received) = Len(sent) /\ \A i \in 1..Len(received) : received[i] = sent[i]
      BY <1>13, <3>1 DEF ReceiveEnds, StreamEnded, Empty, RingInv, TypeOK, CounterInv, PrefixInv
    <3>3. QED
      BY <3>2
  <2>2. Channel!EndOfStream
    BY <1>13, <2>1 DEF ReceiveEnds, Channel!EndOfStream
  <2>3. QED
    BY <2>2 DEF Channel!Next
<1>14. CASE ReceiveTimesOut
  BY <1>14 DEF ReceiveTimesOut, Section, Goes, header, history, Channel!channel
<1>15. ASSUME NEW p \in Procs, RecoverMutex(p) PROVE [Channel!Next]_(Channel!channel)
  <2>1. Channel!Discard
    BY <1>15 DEF RecoverMutex, history, Channel!Discard
  <2>2. QED
    BY <2>1 DEF Channel!Next
<1>16. ASSUME NEW p \in Procs, CloseCall(p) PROVE [Channel!Next]_(Channel!channel)
  BY <1>16 DEF CloseCall, header, history, Channel!channel
<1>17. ASSUME NEW p \in Procs, CloseRing(p) PROVE [Channel!Next]_(Channel!channel)
  <2>1. Channel!Close
    BY <1>17 DEF CloseRing, history, Channel!Close
  <2>2. QED
    BY <2>1 DEF Channel!Next
<1>18. ASSUME NEW p \in Procs, Die(p) PROVE [Channel!Next]_(Channel!channel)
  BY <1>18 DEF Die, header, history, Channel!channel
<1>19. ASSUME NEW p \in Procs, Reap(p) PROVE [Channel!Next]_(Channel!channel)
  BY <1>19 DEF Reap, header, history, Channel!channel
<1>20. CASE UNCHANGED vars
  BY <1>20 DEF vars, header, threads, history, Channel!channel
<1>21. QED
  BY <1>1, <1>2, <1>3, <1>4, <1>5, <1>6, <1>7, <1>8, <1>9, <1>10,
     <1>11, <1>12, <1>13, <1>14, <1>15, <1>16, <1>17, <1>18, <1>19, <1>20
  DEF Next, Sending, Receiving

\* send, receive_result, close and the recovery of an abandoned mutex
\* together implement the bounded FIFO channel.
THEOREM RingImplementsChannel == Spec => ImplementsChannel
<1>1. RingInv /\ [Next]_vars => [Channel!Next]_(Channel!channel)
  BY RefinesStep
<1>2. QED
  BY <1>1, RefinesInit, RingInvariant, PTL DEF Spec, ImplementsChannel, Channel!Spec
=============================================================================
