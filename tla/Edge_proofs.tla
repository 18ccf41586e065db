----------------------------- MODULE Edge_proofs -----------------------------
(***************************************************************************)
(* Proofs about the transports of an edge: each has an inductive invariant *)
(* of its own, and a step of the edge is a step of the one it was created  *)
(* with.                                                                   *)
(***************************************************************************)
EXTENDS Edge, SequenceTheorems, FiniteSetTheorems, WellFoundedInduction, TLAPS

-----------------------------------------------------------------------------
(***************************************************************************)
(* Datagrams: descriptors and the anomalies of the tracker.                *)
(***************************************************************************)
\* close() wakes the receiver before it takes the locks, and what it freed nobody
\* is about to use.
DescriptorInv ==
  /\ resources \in {"open", "closed"}
  /\ closer # "none" => udpClosed
  /\ resources = "closed" => udpClosed /\ op \in {"idle", "loop", "stopped"}

\* The receiver's steps and the windows of its tracker
TrackTyped ==
  /\ events \in [duplicate : Nat, outOfOrder : Nat, gap : Nat]
  /\ highest \in Nat /\ recent \in Seq(Nat) /\ got \in Seq(Nat) /\ sequence \in Nat
  /\ \A n \in DOMAIN got : got[n] <= SequenceMax

\* What the tracker remembers was delivered, and the highest is the largest delivered.
TrackInv ==
  /\ initialized <=> got # <<>>
  /\ got = <<>> => events.gap = 0 /\ events.duplicate = 0
  /\ \A i \in DOMAIN recent : \E j \in DOMAIN got : got[j] = recent[i]
  /\ got # <<>> => /\ \E j \in DOMAIN got : got[j] = highest
                   /\ \A j \in DOMAIN got : got[j] <= highest
DatagramInv == DescriptorInv /\ TrackTyped /\ TrackInv /\ AnomaliesAddUp

\* What is known of the constants of the datagram transport.
LEMMA DatagramConstants == SequenceMax \in Nat /\ SequenceWindow \in Nat \ {0} /\ Sequences \subseteq Nat
  BY DatagramAssumption DEF Sequences

\* The datagram transport begins in its invariant.
LEMMA DatagramInitially == DatagramInit => DatagramInv
<1> SUFFICES ASSUME DatagramInit PROVE DatagramInv
  OBVIOUS
<1>1. DescriptorInv
  BY DEF DatagramInit, DescriptorInv
<1>2. TrackTyped
  BY DEF DatagramInit, TrackTyped
<1>3. TrackInv /\ AnomaliesAddUp
  BY DEF DatagramInit, TrackInv, AnomaliesAddUp
<1>4. QED
  BY <1>1, <1>2, <1>3 DEF DatagramInv

\* No step frees descriptors that an operation uses.
LEMMA DescriptorStep ==
  ASSUME DescriptorInv, DatagramNext
  PROVE  DescriptorInv'
<1>1. CASE Send \/ ForeignDatagram \/ (\E n \in Sequences : Duplicated(n)) \/ Expire
  BY <1>1 DEF Send, ForeignDatagram, Duplicated, Expire, DescriptorInv
<1>2. CASE ReceiveStart
  BY <1>2 DEF ReceiveStart, DescriptorInv
<1>3. CASE ReceiveLoop \/ ReceivePoll
  BY <1>3 DEF ReceiveLoop, ReceivePoll, Returns, Cancelled, DescriptorInv
<1>4. CASE ReceiveBad
  BY <1>4 DEF ReceiveBad, DescriptorInv
<1>5. CASE \E n \in Sequences : ReceiveMessage(n)
  BY <1>5 DEF ReceiveMessage, Returns, DescriptorInv
<1>6. CASE CloseStart \/ CloseFrees
  BY <1>6 DEF CloseStart, CloseFrees, OperationLocks, DescriptorInv
<1>7. QED
  BY <1>1, <1>2, <1>3, <1>4, <1>5, <1>6 DEF DatagramNext, ReceiveStep

\* Arithmetic modulo 2^64 that does not wrap
LEMMA Distance ==
  ASSUME NEW n \in 0 .. SequenceMax, NEW h \in Nat, h < n
  PROVE  Plus(h, 1) = h + 1 /\ Minus(Minus(n, h), 1) = n - h - 1
<1> DEFINE M == SequenceMax + 1
<1>1. M \in Nat \ {0} /\ n \in Nat /\ n < M
  BY DatagramConstants
<1>2. ASSUME NEW a \in Nat, a < M PROVE a % M = a /\ (a + M) % M = a
  BY <1>1, <1>2
<1> HIDE DEF M
<1>3. h + 1 \in Nat /\ h + 1 < M
  BY <1>1
<1>4. Plus(h, 1) = h + 1
  BY <1>2, <1>3 DEF Plus, M
<1>5. n - h \in Nat /\ n - h < M /\ n + M - h = (n - h) + M
  BY <1>1
<1>6. n + SequenceMax + 1 - h = n + M - h
  BY <1>1, DatagramConstants DEF M
<1>7. Minus(n, h) = n - h
  BY <1>2, <1>5, <1>6 DEF Minus, M
<1>8. n - h - 1 \in Nat /\ n - h - 1 < M /\ (n - h) + M - 1 = (n - h - 1) + M
  BY <1>1
<1>9. (n - h) + SequenceMax + 1 - 1 = (n - h) + M - 1
  BY <1>1, DatagramConstants DEF M
<1>10. QED
  BY <1>2, <1>4, <1>7, <1>8, <1>9 DEF Minus, M

\* One more datagram: what it adds to the books
LEMMA OneMore ==
  ASSUME got \in Seq(Nat), NEW n \in Nat, got' = Append(got, n), NEW k, k = Len(got) + 1
  PROVE  /\ k \in Nat /\ k \notin DOMAIN got /\ DOMAIN got' = DOMAIN got \cup {k} /\ DOMAIN got \subseteq Nat
         /\ got'[k] = n /\ \A i \in DOMAIN got : got'[i] = got[i]
         /\ \A i \in DOMAIN got : Earlier(i)' = Earlier(i)
         /\ Earlier(k)' = {got[j] : j \in DOMAIN got}
<1>1. /\ DOMAIN got' = DOMAIN got \cup {k} /\ Len(got) \in Nat /\ DOMAIN got = 1 .. Len(got) /\ k \in Nat
      /\ got'[k] = n /\ \A i \in DOMAIN got : got'[i] = got[i]
  OBVIOUS
<1>2. ASSUME NEW i \in DOMAIN got PROVE Earlier(i)' = Earlier(i)
  <2>1. 1 .. i - 1 \subseteq DOMAIN got
    BY <1>1
  <2>2. \A j \in 1 .. i - 1 : got'[j] = got[j]
    BY <1>1, <2>1
  <2>3. {got'[j] : j \in 1 .. i - 1} = {got[j] : j \in 1 .. i - 1}
    BY <2>2
  <2>4. QED
    BY <2>3 DEF Earlier
<1>3. Earlier(k)' = {got[j] : j \in DOMAIN got}
  <2>1. 1 .. k - 1 = DOMAIN got
    BY <1>1
  <2>2. {got'[j] : j \in 1 .. k - 1} = {got[j] : j \in DOMAIN got}
    BY <1>1, <2>1
  <2>3. QED
    BY <2>2 DEF Earlier
<1>4. QED
  BY <1>1, <1>2, <1>3

\* The positions that were counted stay what they were, and one more is judged.
Repeats == {i \in DOMAIN got : got[i] \in Earlier(i)}

\* What counting one more anomaly adds to the sum of the anomalies.
LEMMA OneMoreCounted ==
  ASSUME got \in Seq(Nat), NEW n \in Nat, got' = Append(got, n), NEW k, k = Len(got) + 1
  PROVE  /\ IsFiniteSet(Advances) /\ IsFiniteSet(Repeats) /\ k \notin Advances /\ k \notin Repeats
         /\ Advances' = IF got # <<>> /\ \A j \in DOMAIN got : n > got[j] THEN Advances \cup {k} ELSE Advances
         /\ Repeats' = IF \E j \in DOMAIN got : n = got[j] THEN Repeats \cup {k} ELSE Repeats
<1>1. IsFiniteSet(DOMAIN got) /\ Advances \subseteq DOMAIN got /\ Repeats \subseteq DOMAIN got
  <2>1. DOMAIN got = 1 .. Len(got) /\ Len(got) \in Nat
    OBVIOUS
  <2>2. IsFiniteSet(1 .. Len(got))
    BY <2>1, FS_Interval
  <2>3. QED
    BY <2>1, <2>2 DEF Advances, Repeats
<1>2. IsFiniteSet(Advances) /\ IsFiniteSet(Repeats)
  BY <1>1, FS_Subset
<1>3. k > 1 <=> got # <<>>
  OBVIOUS
<1>4. Advances' = {i \in DOMAIN got \cup {k} : i > 1 /\ \A m \in Earlier(i)' : got'[i] > m}
  BY OneMore DEF Advances
<1>5. Repeats' = {i \in DOMAIN got \cup {k} : got'[i] \in Earlier(i)'}
  BY OneMore DEF Repeats
<1>6. ASSUME NEW i \in DOMAIN got
      PROVE  /\ (i > 1 /\ \A m \in Earlier(i)' : got'[i] > m) <=> i \in Advances
             /\ got'[i] \in Earlier(i)' <=> i \in Repeats
  BY OneMore DEF Advances, Repeats
<1>7. /\ (k > 1 /\ \A m \in Earlier(k)' : got'[k] > m) <=> got # <<>> /\ \A j \in DOMAIN got : n > got[j]
      /\ got'[k] \in Earlier(k)' <=> \E j \in DOMAIN got : n = got[j]
  BY OneMore, <1>3
<1>8. Advances' = IF got # <<>> /\ \A j \in DOMAIN got : n > got[j] THEN Advances \cup {k} ELSE Advances
  BY <1>1, <1>4, <1>6, <1>7
<1>9. Repeats' = IF \E j \in DOMAIN got : n = got[j] THEN Repeats \cup {k} ELSE Repeats
  BY <1>1, <1>5, <1>6, <1>7
<1>10. k \notin Advances /\ k \notin Repeats
  BY <1>1, OneMore
<1>11. QED
  BY <1>2, <1>8, <1>9, <1>10

\* What track_sequence does to the counters (udp_transport.cpp:195-217).
LEMMA Tracked ==
  ASSUME DatagramInv, NEW n \in Sequences, TrackSequence(n)
  PROVE  /\ events' \in [duplicate : Nat, outOfOrder : Nat, gap : Nat]
         /\ events'.duplicate = (IF IsRecent(n) THEN events.duplicate + 1 ELSE events.duplicate)
         /\ highest' = (IF got = <<>> \/ n > highest THEN n ELSE highest)
         /\ events'.gap = (IF got # <<>> /\ n > highest THEN events.gap + (n - highest - 1) ELSE events.gap)
         /\ initialized'
<1>1. /\ events \in [duplicate : Nat, outOfOrder : Nat, gap : Nat] /\ highest \in Nat /\ got \in Seq(Nat)
      /\ initialized <=> got # <<>>
      /\ got # <<>> => highest <= SequenceMax
      /\ n \in Nat /\ n <= SequenceMax /\ SequenceMax \in Nat
  <2>1. got # <<>> => highest <= SequenceMax
    BY DEF DatagramInv, TrackTyped, TrackInv
  <2>2. n \in Nat /\ n <= SequenceMax /\ SequenceMax \in Nat
    BY DatagramConstants DEF Sequences
  <2>3. QED
    BY <2>1, <2>2 DEF DatagramInv, TrackTyped, TrackInv
<1>2. CASE IsRecent(n)
  <2>1. got # <<>> /\ n <= highest
    BY <1>2 DEF IsRecent, DatagramInv, TrackInv
  <2>2. events' = [events EXCEPT !.duplicate = @ + 1] /\ UNCHANGED <<initialized, highest>>
    BY <1>2 DEF TrackSequence
  <2>3. QED
    BY <1>1, <1>2, <2>1, <2>2
<1>3. CASE ~IsRecent(n)
  <2> DEFINE late == initialized /\ n < highest
             skip == IF ~late /\ GapBefore(n) THEN events.gap + Minus(Minus(n, highest), 1) ELSE events.gap
             tardy == IF late THEN events.outOfOrder + 1 ELSE events.outOfOrder
  <2>1. /\ events' = [events EXCEPT !.outOfOrder = tardy, !.gap = skip]
        /\ highest' = IF ~initialized \/ n > highest THEN n ELSE highest
        /\ initialized'
    BY <1>3 DEF TrackSequence
  <2>2. skip = IF got # <<>> /\ n > highest THEN events.gap + (n - highest - 1) ELSE events.gap
    <3>1. CASE got = <<>>
      BY <1>1, <3>1 DEF GapBefore
    <3>2. CASE got # <<>> /\ n < highest
      BY <1>1, <3>2
    <3>3. CASE got # <<>> /\ n = highest
      <4>1. highest # SequenceMax => Plus(highest, 1) = highest + 1
        <5>1. highest # SequenceMax => highest + 1 \in 0 .. SequenceMax /\ highest < highest + 1
          BY <1>1, <3>3
        <5>2. QED
          BY <1>1, <5>1, Distance
      <4>2. ~GapBefore(n)
        BY <1>1, <3>3, <4>1 DEF GapBefore
      <4>3. QED
        BY <1>1, <3>3, <4>2
    <3>4. CASE got # <<>> /\ n > highest
      <4>1. Plus(highest, 1) = highest + 1 /\ Minus(Minus(n, highest), 1) = n - highest - 1
        BY <1>1, <3>4, Distance
      <4>2. GapBefore(n) <=> n > highest + 1
        BY <1>1, <3>4, <4>1 DEF GapBefore
      <4>3. n = highest + 1 => events.gap + (n - highest - 1) = events.gap
        BY <1>1
      <4>4. QED
        BY <1>1, <3>4, <4>1, <4>2, <4>3
    <3>5. QED
      BY <1>1, <3>1, <3>2, <3>3, <3>4
  <2>3. skip \in Nat /\ tardy \in Nat
    <3>1. got # <<>> /\ n > highest => events.gap + (n - highest - 1) \in Nat
      BY <1>1
    <3>2. QED
      BY <1>1, <2>2, <3>1
  <2> HIDE DEF skip, tardy
  <2>4. QED
    BY <1>1, <1>3, <2>1, <2>2, <2>3
<1>4. QED
  BY <1>2, <1>3

\* The tracker remembers only what was delivered.
LEMMA Remembered ==
  ASSUME DatagramInv, NEW n \in Sequences, ReceiveMessage(n)
  PROVE  recent' \in Seq(Nat) /\ \A i \in DOMAIN recent' : \E j \in DOMAIN got' : got'[j] = recent'[i]
<1>1. recent \in Seq(Nat) /\ got \in Seq(Nat) /\ n \in Nat /\ got' = Append(got, n)
  BY DatagramConstants DEF DatagramInv, TrackTyped, ReceiveMessage
<1>2. PICK k : k = Len(got) + 1
  OBVIOUS
<1>3. k \in DOMAIN got' /\ got'[k] = n /\ \A j \in DOMAIN got : j \in DOMAIN got' /\ got'[j] = got[j]
  BY <1>1, <1>2, OneMore
<1>4. \A i \in DOMAIN recent : \E j \in DOMAIN got' : got'[j] = recent[i]
  BY <1>3 DEF DatagramInv, TrackInv
<1>5. \/ recent' = recent
      \/ recent' = Append(recent, n)
      \/ recent' = [recent EXCEPT ![recentCursor + 1] = n]
  BY DEF ReceiveMessage, TrackSequence
<1>6. recent' \in Seq(Nat) /\ \A i \in DOMAIN recent' : recent'[i] = n \/ (i \in DOMAIN recent /\ recent'[i] = recent[i])
  <2>1. CASE recent' = recent
    BY <1>1, <2>1
  <2>2. CASE recent' = Append(recent, n)
    BY <1>1, <2>2
  <2>3. CASE recent' = [recent EXCEPT ![recentCursor + 1] = n]
    <3>1. Len(recent) \in Nat /\ DOMAIN recent = 1 .. Len(recent) /\ \A i \in DOMAIN recent : recent[i] \in Nat
      BY <1>1
    <3>2. DOMAIN recent' = DOMAIN recent /\ \A i \in DOMAIN recent : recent'[i] = n \/ recent'[i] = recent[i]
      BY <2>3
    <3>3. recent' = [i \in 1 .. Len(recent) |-> recent'[i]]
      BY <2>3, <3>1, <3>2
    <3>4. \A i \in 1 .. Len(recent) : recent'[i] \in Nat
      BY <1>1, <3>1, <3>2
    <3>5. [i \in 1 .. Len(recent) |-> recent'[i]] \in Seq(Nat)
      BY <3>1, <3>4
    <3>6. QED
      BY <3>2, <3>3, <3>5
  <2>4. QED
    BY <1>5, <2>1, <2>2, <2>3
<1>7. QED
  BY <1>3, <1>4, <1>6

\* Tracking a datagram keeps the books of the tracker.
LEMMA MessageStep ==
  ASSUME DatagramInv, NEW n \in Sequences, ReceiveMessage(n)
  PROVE  TrackTyped' /\ TrackInv' /\ AnomaliesAddUp'
<1>1. /\ got \in Seq(Nat) /\ n \in Nat /\ n <= SequenceMax /\ got' = Append(got, n) /\ TrackSequence(n)
      /\ sequence' = sequence /\ sequence \in Nat /\ highest \in Nat
      /\ events \in [duplicate : Nat, outOfOrder : Nat, gap : Nat]
      /\ \A i \in DOMAIN got : got[i] \in Nat /\ got[i] <= SequenceMax
  BY DatagramConstants DEF DatagramInv, TrackTyped, ReceiveMessage, Sequences
<1>2. PICK k : k = Len(got) + 1
  OBVIOUS
<1>3. /\ k \in DOMAIN got' /\ got'[k] = n /\ DOMAIN got' = DOMAIN got \cup {k} /\ got' # <<>> /\ got' \in Seq(Nat)
      /\ \A j \in DOMAIN got : got'[j] = got[j]
  BY <1>1, <1>2, OneMore
<1>4. TrackTyped'
  <2>1. highest' \in Nat
    BY <1>1, Tracked
  <2>2. \A i \in DOMAIN got' : got'[i] <= SequenceMax
    BY <1>1, <1>3
  <2>3. QED
    BY <1>1, <1>3, <2>1, <2>2, Tracked, Remembered DEF TrackTyped
<1>5. /\ got # <<>> => /\ \E j \in DOMAIN got : got[j] = highest
                       /\ \A j \in DOMAIN got : got[j] <= highest
      /\ got = <<>> => events.gap = 0 /\ events.duplicate = 0 /\ DOMAIN got = {}
  BY DEF DatagramInv, TrackInv
<1>6. TrackInv'
  <2>1. /\ \E j \in DOMAIN got' : got'[j] = highest'
        /\ \A j \in DOMAIN got' : got'[j] <= highest'
    <3>1. CASE got = <<>> \/ n > highest
      <4>1. highest' = n
        BY <1>1, <3>1, Tracked
      <4>2. \A j \in DOMAIN got : got[j] <= n
        BY <1>1, <1>5, <3>1
      <4>3. QED
        BY <1>1, <1>3, <4>1, <4>2, SMTT(60)
    <3>2. CASE got # <<>> /\ ~(n > highest)
      BY <1>1, <1>3, <1>5, <3>2, Tracked, SMTT(60)
    <3>3. QED
      BY <3>1, <3>2
  <2>2. initialized' /\ got' # <<>>
    BY <1>1, <1>3, Tracked
  <2>3. QED
    BY <2>1, <2>2, Remembered DEF TrackInv
<1>7. AnomaliesAddUp'
  <2>1. /\ IsFiniteSet(Advances) /\ IsFiniteSet(Repeats) /\ k \notin Advances /\ k \notin Repeats
        /\ Advances' = IF got # <<>> /\ \A j \in DOMAIN got : n > got[j] THEN Advances \cup {k} ELSE Advances
        /\ Repeats' = IF \E j \in DOMAIN got : n = got[j] THEN Repeats \cup {k} ELSE Repeats
    BY <1>1, <1>2, OneMoreCounted
  <2>2. Cardinality(Advances) \in Nat /\ Cardinality(Repeats) \in Nat
    BY <2>1, FS_CardinalityType
  <2>3. /\ Cardinality(Advances \cup {k}) = Cardinality(Advances) + 1
        /\ Cardinality(Repeats \cup {k}) = Cardinality(Repeats) + 1
    BY <2>1, FS_AddElement
  <2>4. got # <<>> => /\ events.gap + Cardinality(Advances) = highest - got[1]
                      /\ events.duplicate <= Cardinality(Repeats)
    BY DEF DatagramInv, AnomaliesAddUp, Repeats
  <2>5. events'.gap + Cardinality(Advances') = highest' - got'[1]
    <3>1. CASE got = <<>>
      <4>1. k = 1 /\ Advances = {} /\ Advances' = Advances
        BY <1>2, <2>1, <3>1 DEF Advances
      <4>2. Cardinality(Advances) = 0
        BY <4>1, FS_EmptySet
      <4>3. QED
        BY <1>1, <1>3, <1>5, <3>1, <4>1, <4>2, Tracked
    <3>2. CASE got # <<>> /\ n > highest
      <4>1. Advances' = Advances \cup {k}
        BY <1>1, <1>5, <2>1, <3>2
      <4>2. got'[1] = got[1] /\ got[1] \in Nat
        BY <1>1, <1>3, <3>2
      <4>3. highest' = n /\ events'.gap = events.gap + (n - highest - 1) /\ events.gap \in Nat
        BY <1>1, <3>2, Tracked
      <4>4. QED
        <5>1. events.gap + Cardinality(Advances) = highest - got[1] /\ n > highest
          BY <2>4, <3>2
        <5> DEFINE c == Cardinality(Advances)
                   f == got[1]
                   g == events.gap
        <5>2. c \in Nat /\ f \in Nat /\ g \in Nat /\ highest \in Nat /\ n \in Nat /\ g + c = highest - f
          BY <1>1, <2>2, <4>2, <4>3, <5>1
        <5> HIDE DEF c, f, g
        <5>3. (g + (n - highest - 1)) + (c + 1) = n - f
          BY <5>1, <5>2
        <5>4. QED
          BY <2>3, <4>1, <4>2, <4>3, <5>3 DEF c, f, g
    <3>3. CASE got # <<>> /\ ~(n > highest)
      <4>1. Advances' = Advances
        BY <1>1, <1>5, <2>1, <3>3
      <4>2. got'[1] = got[1]
        BY <1>1, <1>3, <3>3
      <4>3. highest' = highest /\ events'.gap = events.gap
        BY <1>1, <3>3, Tracked
      <4>4. QED
        BY <2>4, <3>3, <4>1, <4>2, <4>3
    <3>4. QED
      BY <3>1, <3>2, <3>3
  <2>6. events'.duplicate <= Cardinality(Repeats')
    <3>1. IsRecent(n) => \E j \in DOMAIN got : n = got[j]
      BY DEF IsRecent, DatagramInv, TrackInv
    <3>2. events.duplicate <= Cardinality(Repeats) /\ events.duplicate \in Nat
      BY <1>1, <1>5, <2>2, <2>4
    <3>3. CASE IsRecent(n)
      BY <1>1, <2>1, <2>2, <2>3, <3>1, <3>2, <3>3, Tracked, SMTT(60)
    <3>4. CASE ~IsRecent(n)
      BY <1>1, <2>1, <2>2, <2>3, <3>2, <3>4, Tracked, SMTT(60)
    <3>5. QED
      BY <3>3, <3>4
  <2>7. QED
    BY <2>5, <2>6 DEF AnomaliesAddUp, Repeats
<1>8. QED
  BY <1>4, <1>6, <1>7

\* Every step of the datagram transport keeps its invariant.
LEMMA DatagramStep == DatagramInv /\ [DatagramNext]_datagramVars => DatagramInv'
<1> SUFFICES ASSUME DatagramInv, [DatagramNext]_datagramVars PROVE DatagramInv'
  OBVIOUS
<1>1. CASE UNCHANGED trackVars /\ sequence' \in Nat /\ DescriptorInv'
  <2>1. TrackTyped'
    BY <1>1 DEF trackVars, DatagramInv, TrackTyped
  <2>2. TrackInv'
    BY <1>1 DEF trackVars, DatagramInv, TrackInv
  <2>3. AnomaliesAddUp'
    <3>1. Advances' = Advances /\ \A i : Earlier(i)' = Earlier(i)
      BY <1>1 DEF trackVars, Advances, Earlier
    <3>2. QED
      BY <1>1, <3>1 DEF trackVars, DatagramInv, AnomaliesAddUp
  <2>4. QED
    BY <1>1, <2>1, <2>2, <2>3 DEF DatagramInv
<1>2. CASE UNCHANGED datagramVars
  <2>1. UNCHANGED trackVars /\ sequence' \in Nat
    BY <1>2 DEF datagramVars, trackVars, DatagramInv, TrackTyped
  <2>2. DescriptorInv'
    BY <1>2 DEF datagramVars, DescriptorInv, DatagramInv
  <2>3. QED
    BY <1>1, <2>1, <2>2
<1>3. CASE DatagramNext
  <2>1. DescriptorInv'
    BY <1>3, DescriptorStep DEF DatagramInv
  <2>2. CASE \E n \in Sequences : ReceiveMessage(n)
    BY <2>1, <2>2, MessageStep DEF DatagramInv
  <2>3. CASE ~ \E n \in Sequences : ReceiveMessage(n)
    <3>1. UNCHANGED trackVars
      BY <1>3, <2>3 DEF DatagramNext, ReceiveStep, Send, ForeignDatagram, Duplicated, ReceiveStart, Expire, ReceiveLoop,
                        ReceivePoll, ReceiveBad, CloseStart, CloseFrees
    <3>2. sequence' = sequence \/ sequence' = sequence + 1
      BY <1>3, <2>3 DEF DatagramNext, ReceiveStep, Send, ForeignDatagram, Duplicated, ReceiveStart, Expire, ReceiveLoop,
                        ReceivePoll, ReceiveBad, CloseStart, CloseFrees
    <3>3. QED
      BY <1>1, <2>1, <3>1, <3>2 DEF DatagramInv, TrackTyped
  <2>4. QED
    BY <2>2, <2>3
<1>4. QED
  BY <1>2, <1>3

\* The invariant gives both properties of the transport.
LEMMA DatagramImplies == DatagramInv => DescriptorsOutliveOperations /\ AnomaliesAddUp
  BY DEF DatagramInv, DescriptorInv, DescriptorsOutliveOperations
-----------------------------------------------------------------------------
(***************************************************************************)
(* The in-process channel, an implementation of FifoChannel.               *)
(***************************************************************************)
\* The envelopes accepted are those delivered, then those in the queue.
QueueInv ==
  /\ queue \in Seq(Nat) /\ pushed \in Seq(Nat) /\ popped \in Seq(Nat)
  /\ Len(pushed) = Len(popped) + Len(queue)
  /\ \A i \in 1 .. Len(queue) : queue[i] = pushed[Len(popped) + i]
  /\ \A i \in 1 .. Len(popped) : popped[i] = pushed[i]
\* A thread inside wait_for can still push after the last call.
Sending == {p \in Producers : chPc[p] \in {"waiting", "woken"}}
ThreadInv ==
  /\ policy \in {"block", "reject"}
  /\ chPc \in [Threads -> {"idle", "waiting", "woken", "notify"}]
  /\ Len(pushed) + Cardinality(Sending) <= ChannelMessages + Cardinality(Producers)
ChannelInv == QueueInv /\ ThreadInv

\* What is known of the threads of the channel.
LEMMA ChannelConstants ==
  /\ ChannelCapacity \in Nat \ {0} /\ ChannelMessages \in Nat /\ IsFiniteSet(Producers)
  /\ Cardinality(Producers) \in Nat /\ Producers \cap Consumers = {}
  /\ "control" \notin Producers /\ "control" \notin Consumers
  /\ Producers \subseteq Threads /\ Consumers \subseteq Threads /\ "control" \in Threads
  BY ChannelAssumption, FS_CardinalityType DEF Threads

\* How many threads are sending is a number.
LEMMA SendingFinite ==
  /\ IsFiniteSet(Sending) /\ Cardinality(Sending) \in Nat /\ Cardinality(Sending) <= Cardinality(Producers)
<1>1. Sending \subseteq Producers
  BY DEF Sending
<1>2. QED
  BY <1>1, ChannelConstants, FS_Subset, FS_CardinalityType

\* The channel begins in its invariant, as FifoChannel does.
LEMMA ChannelInitially == ChannelInit => ChannelInv /\ Fifo!Init
<1> SUFFICES ASSUME ChannelInit PROVE ChannelInv /\ Fifo!Init
  OBVIOUS
<1>1. QueueInv
  <2>1. <<>> \in Seq(Nat) /\ Len(<<>>) = 0
    OBVIOUS
  <2>2. QED
    BY <2>1 DEF ChannelInit, QueueInv
<1>2. ThreadInv
  <2>1. Len(pushed) = 0
    BY DEF ChannelInit
  <2>2. QED
    BY <2>1, SendingFinite, ChannelConstants DEF ChannelInit, ThreadInv
<1>3. Fifo!Init
  BY DEF ChannelInit, Fifo!Init
<1>4. QED
  BY <1>1, <1>2, <1>3 DEF ChannelInv

\* A thread takes a step.
LEMMA ThreadSteps ==
  ASSUME ChannelInv, NEW t \in Threads, NEW pc \in {"idle", "waiting", "woken", "notify"}, Steps(t, pc)
  PROVE  /\ chPc' \in [Threads -> {"idle", "waiting", "woken", "notify"}] /\ chPc'[t] = pc
         /\ \A u \in Threads : u # t => chPc'[u] = chPc[u]
  BY DEF ChannelInv, ThreadInv, Steps

\* Nothing but threads that are no producers, or stop sending, move.
LEMMA OnlyThreads ==
  ASSUME ChannelInv, UNCHANGED <<policy, queue, pushed, popped>>,
         chPc' \in [Threads -> {"idle", "waiting", "woken", "notify"}], Sending' \subseteq Sending
  PROVE  ChannelInv'
<1>1. Cardinality(Sending') <= Cardinality(Sending) /\ Cardinality(Sending') \in Nat
  BY SendingFinite, FS_Subset, FS_CardinalityType
<1>2. Len(pushed) \in Nat
  BY DEF ChannelInv, QueueInv
<1>3. Len(pushed) + Cardinality(Sending) <= ChannelMessages + Cardinality(Producers)
  BY DEF ChannelInv, ThreadInv
<1>4. Len(pushed) + Cardinality(Sending') <= ChannelMessages + Cardinality(Producers)
  BY <1>1, <1>2, <1>3, SendingFinite, ChannelConstants
<1>5. QED
  BY <1>4 DEF ChannelInv, QueueInv, ThreadInv

\* What a step of FifoChannel that changes nothing is
LEMMA FifoStutters == UNCHANGED <<pushed, popped, chClosed, ended>> => [Fifo!Next]_Fifo!channel
  BY DEF Fifo!channel

\* An envelope is accepted.
LEMMA PushStep ==
  ASSUME ChannelInv, NEW p \in Producers, PushBack(p), ~chClosed, ~Full,
         chPc[p] \in {"waiting", "woken"} \/ Len(pushed) < ChannelMessages
  PROVE  ChannelInv' /\ [Fifo!Next]_Fifo!channel
<1> DEFINE n == Len(pushed) + 1
<1>1. /\ queue \in Seq(Nat) /\ pushed \in Seq(Nat) /\ popped \in Seq(Nat) /\ Len(pushed) \in Nat /\ n \in Nat
      /\ Len(queue) \in Nat /\ Len(popped) \in Nat
  BY DEF ChannelInv, QueueInv
<1>2. /\ queue' = Append(queue, n) /\ pushed' = Append(pushed, n) /\ Steps(p, "notify")
      /\ UNCHANGED <<policy, chClosed, popped, ended>>
  BY DEF PushBack
<1>3. /\ queue' \in Seq(Nat) /\ Len(queue') = Len(queue) + 1 /\ queue'[Len(queue) + 1] = n
      /\ \A i \in 1 .. Len(queue) : queue'[i] = queue[i]
  BY <1>1, <1>2, AppendProperties
<1>4. /\ pushed' \in Seq(Nat) /\ Len(pushed') = Len(pushed) + 1 /\ pushed'[Len(pushed) + 1] = n
      /\ \A i \in 1 .. Len(pushed) : pushed'[i] = pushed[i]
  BY <1>1, <1>2, AppendProperties
<1>5. Len(pushed) = Len(popped) + Len(queue)
  BY DEF ChannelInv, QueueInv
<1>6. QueueInv'
  <2>1. Len(pushed') = Len(popped) + Len(queue')
    BY <1>1, <1>3, <1>4, <1>5
  <2>2. ASSUME NEW i \in 1 .. Len(queue') PROVE queue'[i] = pushed'[Len(popped) + i]
    <3>1. CASE i = Len(queue) + 1
      <4>1. Len(popped) + i = Len(pushed) + 1
        BY <1>1, <1>5, <3>1
      <4>2. QED
        BY <1>3, <1>4, <3>1, <4>1
    <3>2. CASE i # Len(queue) + 1
      <4>1. i \in 1 .. Len(queue) /\ Len(popped) + i \in 1 .. Len(pushed)
        BY <1>1, <1>3, <1>5, <3>2
      <4>2. QED
        BY <1>3, <1>4, <4>1 DEF ChannelInv, QueueInv
    <3>3. QED
      BY <3>1, <3>2
  <2>3. ASSUME NEW i \in 1 .. Len(popped) PROVE popped[i] = pushed'[i]
    <3>1. i \in 1 .. Len(pushed)
      BY <1>1, <1>5
    <3>2. QED
      BY <1>4, <3>1 DEF ChannelInv, QueueInv
  <2>4. QED
    BY <1>1, <1>2, <1>3, <1>4, <2>1, <2>2, <2>3 DEF QueueInv
<1>7. /\ chPc' \in [Threads -> {"idle", "waiting", "woken", "notify"}] /\ chPc'[p] = "notify"
      /\ \A u \in Threads : u # p => chPc'[u] = chPc[u]
  BY <1>2, ThreadSteps, ChannelConstants
<1>8. Sending' = Sending \ {p}
  BY <1>7, ChannelConstants DEF Sending
<1>9. n + Cardinality(Sending') <= ChannelMessages + Cardinality(Producers)
  <2>1. CASE p \in Sending
    <3>1. Cardinality(Sending') = Cardinality(Sending) - 1
      BY <1>8, <2>1, SendingFinite, FS_RemoveElement
    <3>2. Len(pushed) + Cardinality(Sending) <= ChannelMessages + Cardinality(Producers)
      BY DEF ChannelInv, ThreadInv
    <3>3. QED
      BY <1>1, <3>1, <3>2, SendingFinite, ChannelConstants
  <2>2. CASE p \notin Sending
    <3>1. Sending' = Sending
      BY <1>8, <2>2
    <3>2. Len(pushed) < ChannelMessages
      BY <2>2 DEF Sending
    <3>3. QED
      BY <1>1, <3>1, <3>2, SendingFinite, ChannelConstants
  <2>3. QED
    BY <2>1, <2>2
<1>10. ThreadInv'
  <2>1. Len(pushed') + Cardinality(Sending') <= ChannelMessages + Cardinality(Producers)
    BY <1>4, <1>9
  <2>2. QED
    BY <1>2, <1>7, <2>1 DEF ChannelInv, ThreadInv
<1>11. n \in Envelopes
  <2>1. Cardinality(Sending') \in Nat
    BY <1>8, SendingFinite, FS_RemoveElement, FS_CardinalityType
  <2>2. QED
    BY <1>1, <1>9, <2>1, ChannelConstants DEF Envelopes
<1>12. Fifo!Accept(n)
  <2>1. Len(pushed) - Len(popped) < ChannelCapacity
    BY <1>1, <1>5, ChannelConstants DEF Full
  <2>2. QED
    BY <1>2, <2>1 DEF Fifo!Accept
<1>13. QED
  BY <1>6, <1>10, <1>11, <1>12 DEF ChannelInv, Fifo!Next

\* A call that waits, returns or is told that it was notified
LEMMA PushWaitsStep ==
  ASSUME ChannelInv, NEW p \in Producers, PushWaits(p),
         chPc[p] \in {"waiting", "woken"} \/ Len(pushed) < ChannelMessages
  PROVE  ChannelInv' /\ [Fifo!Next]_Fifo!channel
<1>1. Steps(p, "waiting") /\ UNCHANGED <<policy, queue, chClosed, pushed, popped, ended>>
  BY DEF PushWaits
<1>2. /\ chPc' \in [Threads -> {"idle", "waiting", "woken", "notify"}] /\ chPc'[p] = "waiting"
      /\ \A u \in Threads : u # p => chPc'[u] = chPc[u]
  BY <1>1, ThreadSteps, ChannelConstants
<1>3. Sending' = Sending \cup {p}
  BY <1>2, ChannelConstants DEF Sending
<1>4. CASE p \in Sending
  <2>1. Sending' \subseteq Sending
    BY <1>3, <1>4
  <2>2. QED
    BY <1>1, <1>2, <2>1, OnlyThreads, FifoStutters
<1>5. CASE p \notin Sending
  <2>1. Len(pushed) < ChannelMessages /\ Len(pushed) \in Nat
    BY <1>5 DEF Sending, ChannelInv, QueueInv
  <2>2. Cardinality(Sending') <= Cardinality(Producers) /\ Cardinality(Sending') \in Nat
    <3>1. Sending' \subseteq Producers
      BY DEF Sending
    <3>2. QED
      BY <3>1, ChannelConstants, FS_Subset, FS_CardinalityType
  <2>3. Len(pushed) + Cardinality(Sending') <= ChannelMessages + Cardinality(Producers)
    BY <2>1, <2>2, ChannelConstants
  <2>4. QED
    BY <1>1, <1>2, <2>3, FifoStutters DEF ChannelInv, QueueInv, ThreadInv
<1>6. QED
  BY <1>4, <1>5

\* A thread that goes on does not become one that sends.
LEMMA GoesOn ==
  ASSUME ChannelInv, NEW t \in Threads, NEW pc \in {"idle", "waiting", "woken", "notify"}, Steps(t, pc),
         t \in Producers => pc \in {"idle", "notify"}
  PROVE  chPc' \in [Threads -> {"idle", "waiting", "woken", "notify"}] /\ Sending' \subseteq Sending
<1>1. /\ chPc' \in [Threads -> {"idle", "waiting", "woken", "notify"}] /\ chPc'[t] = pc
      /\ \A u \in Threads : u # t => chPc'[u] = chPc[u]
  BY ThreadSteps
<1>2. QED
  BY <1>1, ChannelConstants DEF Sending

\* The steps of a thread that sends
LEMMA ProducerSteps ==
  ASSUME ChannelInv, NEW p \in Producers, Push(p) \/ PushResumes(p) \/ PushTimeout(p)
  PROVE  ChannelInv' /\ [Fifo!Next]_Fifo!channel
<1>1. policy \in {"block", "reject"}
  BY DEF ChannelInv, ThreadInv
<1>2. \/ PushReturns(p) \/ PushWaits(p) \/ (PushBack(p) /\ ~chClosed /\ ~Full)
  BY <1>1 DEF Push, PushResumes, PushTimeout
<1>3. chPc[p] \in {"waiting", "woken"} \/ Len(pushed) < ChannelMessages
  BY DEF Push, PushResumes, PushTimeout
<1>4. CASE PushReturns(p)
  <2>1. Steps(p, "idle") /\ UNCHANGED <<policy, queue, chClosed, pushed, popped, ended>>
    BY <1>4 DEF PushReturns
  <2>2. chPc' \in [Threads -> {"idle", "waiting", "woken", "notify"}] /\ Sending' \subseteq Sending
    BY <2>1, GoesOn, ChannelConstants
  <2>3. QED
    BY <2>1, <2>2, OnlyThreads, FifoStutters
<1>5. QED
  BY <1>2, <1>3, <1>4, PushStep, PushWaitsStep

\* A notification wakes threads and changes nothing else.
LEMMA NotifySteps ==
  ASSUME ChannelInv,
         (\E p \in Producers : NotifyNotEmpty(p)) \/ (\E c \in Consumers : NotifyNotFull(c)) \/ NotifyAll
  PROVE  ChannelInv' /\ [Fifo!Next]_Fifo!channel
<1>1. UNCHANGED <<policy, queue, chClosed, pushed, popped, ended>>
  BY DEF NotifyNotEmpty, NotifyNotFull, NotifyOne, NotifyAll
<1>2. chPc \in [Threads -> {"idle", "waiting", "woken", "notify"}]
  BY DEF ChannelInv, ThreadInv
<1>3. ASSUME NEW t \in Threads, NEW ts, ts \subseteq Threads, NotifyOne(t, ts)
      PROVE  chPc' \in [Threads -> {"idle", "waiting", "woken", "notify"}] /\ Sending' \subseteq Sending
  <2>1. CASE Steps(t, "idle")
    BY <2>1, GoesOn
  <2>2. CASE \E w \in Waiting(ts) : chPc' = [chPc EXCEPT ![t] = "idle", ![w] = "woken"]
    <3>1. PICK w \in Waiting(ts) : chPc' = [chPc EXCEPT ![t] = "idle", ![w] = "woken"]
      BY <2>2
    <3>2. w \in Threads /\ chPc[w] = "waiting"
      BY <1>3 DEF Waiting
    <3>3. chPc' \in [Threads -> {"idle", "waiting", "woken", "notify"}]
      BY <1>2, <3>1, <3>2
    <3>4. \A u \in Threads : u # w /\ u # t => chPc'[u] = chPc[u]
      BY <1>2, <3>1, <3>2
    <3>5. t # w
      BY <1>3, <3>2 DEF NotifyOne
    <3>6. chPc'[t] = "idle"
      BY <1>2, <3>1, <3>2, <3>5
    <3>7. QED
      BY <3>2, <3>3, <3>4, <3>6, ChannelConstants DEF Sending
  <2>3. QED
    BY <1>3, <2>1, <2>2 DEF NotifyOne
<1>4. ASSUME NotifyAll
      PROVE  chPc' \in [Threads -> {"idle", "waiting", "woken", "notify"}] /\ Sending' \subseteq Sending
  <2>1. chPc' = [t \in Threads |-> CASE t = "control" -> "idle"
                                     [] t \in Waiting(NotifiedByClose) -> "woken"
                                     [] OTHER -> chPc[t]]
    BY <1>4 DEF NotifyAll
  <2>2. ASSUME NEW t \in Threads
        PROVE  \/ t = "control" /\ chPc'[t] = "idle"
               \/ t # "control" /\ chPc[t] = "waiting" /\ chPc'[t] = "woken"
               \/ t # "control" /\ chPc'[t] = chPc[t]
    <3>1. CASE t = "control"
      BY <2>1, <3>1, ChannelConstants DEF Waiting, NotifiedByClose
    <3>2. CASE t # "control" /\ t \in Waiting(NotifiedByClose)
      BY <2>1, <3>2 DEF Waiting
    <3>3. CASE t # "control" /\ t \notin Waiting(NotifiedByClose)
      BY <2>1, <3>3
    <3>4. QED
      BY <3>1, <3>2, <3>3
  <2>3. chPc' \in [Threads -> {"idle", "waiting", "woken", "notify"}]
    <3>1. \A t \in Threads : chPc'[t] \in {"idle", "waiting", "woken", "notify"}
      BY <1>2, <2>2
    <3>2. QED
      BY <2>1, <3>1
  <2>4. QED
    BY <2>2, <2>3, ChannelConstants DEF Sending
<1>5. QED
  BY <1>1, <1>3, <1>4, OnlyThreads, FifoStutters, ChannelConstants DEF NotifyNotEmpty, NotifyNotFull

\* The first envelope of the queue is the next one accepted.
LEMMA PopStep ==
  ASSUME ChannelInv, NEW c \in Consumers, PopFront(c), HasMessage
  PROVE  ChannelInv' /\ [Fifo!Next]_Fifo!channel
<1>1. /\ queue \in Seq(Nat) /\ pushed \in Seq(Nat) /\ popped \in Seq(Nat) /\ Len(pushed) \in Nat
      /\ Len(queue) \in Nat /\ Len(popped) \in Nat /\ Len(pushed) = Len(popped) + Len(queue)
  BY DEF ChannelInv, QueueInv
<1>2. /\ popped' = Append(popped, Head(queue)) /\ queue' = Tail(queue) /\ Steps(c, "notify")
      /\ UNCHANGED <<policy, chClosed, pushed, ended>> /\ queue # <<>>
  BY DEF PopFront, HasMessage
<1>3. /\ Head(queue) \in Nat /\ Head(queue) = queue[1] /\ Len(queue) >= 1
      /\ queue' \in Seq(Nat) /\ Len(queue') = Len(queue) - 1
      /\ \A i \in 1 .. Len(queue') : queue'[i] = queue[i + 1]
  <2>1. Len(queue) >= 1 /\ 1 \in 1 .. Len(queue)
    BY <1>1, <1>2, EmptySeq
  <2>2. /\ Head(queue) \in Nat /\ Tail(queue) \in Seq(Nat) /\ Len(Tail(queue)) = Len(queue) - 1
        /\ \A i \in 1 .. Len(Tail(queue)) : Tail(queue)[i] = queue[i + 1]
    BY <1>1, <1>2, HeadTailProperties
  <2>3. Head(queue) = queue[1]
    BY <1>1, <1>2
  <2>4. QED
    BY <1>2, <2>1, <2>2, <2>3
<1>4. Head(queue) = pushed[Len(popped) + 1]
  BY <1>1, <1>3 DEF ChannelInv, QueueInv
<1>5. /\ popped' \in Seq(Nat) /\ Len(popped') = Len(popped) + 1 /\ popped'[Len(popped) + 1] = Head(queue)
      /\ \A i \in 1 .. Len(popped) : popped'[i] = popped[i]
  BY <1>1, <1>2, <1>3, AppendProperties
<1>6. QueueInv'
  <2>1. Len(pushed) = Len(popped') + Len(queue')
    BY <1>1, <1>3, <1>5
  <2>2. ASSUME NEW i \in 1 .. Len(queue') PROVE queue'[i] = pushed[Len(popped') + i]
    <3>1. i + 1 \in 1 .. Len(queue) /\ Len(popped') + i = Len(popped) + (i + 1)
      <4>1. Len(queue') = Len(queue) - 1 /\ Len(popped') = Len(popped) + 1 /\ Len(queue) \in Nat /\ Len(popped) \in Nat
        BY <1>1, <1>3, <1>5
      <4>2. QED
        BY <4>1
    <3>2. QED
      BY <1>3, <3>1 DEF ChannelInv, QueueInv
  <2>3. ASSUME NEW i \in 1 .. Len(popped') PROVE popped'[i] = pushed[i]
    <3>1. CASE i = Len(popped) + 1
      BY <1>4, <1>5, <3>1
    <3>2. CASE i # Len(popped) + 1
      <4>1. i \in 1 .. Len(popped)
        BY <1>1, <1>5, <3>2
      <4>2. QED
        BY <1>5, <4>1 DEF ChannelInv, QueueInv
    <3>3. QED
      BY <3>1, <3>2
  <2>4. QED
    BY <1>1, <1>2, <1>3, <1>5, <2>1, <2>2, <2>3 DEF QueueInv
<1>7. chPc' \in [Threads -> {"idle", "waiting", "woken", "notify"}] /\ Sending' \subseteq Sending
  BY <1>2, GoesOn, ChannelConstants
<1>8. ThreadInv'
  <2>1. Cardinality(Sending') <= Cardinality(Sending) /\ Cardinality(Sending') \in Nat
    BY <1>7, SendingFinite, FS_Subset, FS_CardinalityType
  <2>2. Len(pushed) + Cardinality(Sending) <= ChannelMessages + Cardinality(Producers)
    BY DEF ChannelInv, ThreadInv
  <2>3. Len(pushed) + Cardinality(Sending') <= ChannelMessages + Cardinality(Producers)
    BY <1>1, <2>1, <2>2, SendingFinite, ChannelConstants
  <2>4. QED
    BY <1>2, <1>7, <2>3 DEF ChannelInv, ThreadInv
<1>9. Fifo!Deliver
  <2>1. Len(popped) < Len(pushed)
    BY <1>1, <1>3
  <2>2. QED
    BY <1>2, <1>4, <2>1 DEF Fifo!Deliver
<1>10. QED
  BY <1>6, <1>8, <1>9 DEF ChannelInv, Fifo!Next

\* The steps of a thread that receives
LEMMA ConsumerSteps ==
  ASSUME ChannelInv, NEW c \in Consumers, Pop(c) \/ PopResumes(c) \/ PopTimeout(c)
  PROVE  ChannelInv' /\ [Fifo!Next]_Fifo!channel
<1>1. \/ PopFront(c) /\ HasMessage
      \/ PopEnds(c) /\ ~HasMessage /\ chClosed
      \/ Steps(c, "waiting") /\ UNCHANGED <<policy, queue, chClosed, pushed, popped, ended>>
      \/ Steps(c, "idle") /\ UNCHANGED <<policy, queue, chClosed, pushed, popped, ended>>
  BY DEF Pop, PopResumes, PopTimeout, PopTests, PopGivesUp
<1>2. CASE PopEnds(c) /\ ~HasMessage /\ chClosed
  <2>1. Steps(c, "idle") /\ UNCHANGED <<policy, queue, chClosed, pushed, popped>> /\ ended' = TRUE
    BY <1>2 DEF PopEnds
  <2>2. ChannelInv'
    <3>1. chPc' \in [Threads -> {"idle", "waiting", "woken", "notify"}] /\ Sending' \subseteq Sending
      BY <2>1, GoesOn, ChannelConstants
    <3>2. QED
      BY <2>1, <3>1, OnlyThreads
  <2>3. popped = pushed
    <3>1. pushed \in Seq(Nat) /\ popped \in Seq(Nat) /\ Len(popped) = Len(pushed)
      BY <1>2 DEF HasMessage, ChannelInv, QueueInv
    <3>2. \A i \in 1 .. Len(popped) : popped[i] = pushed[i]
      BY DEF ChannelInv, QueueInv
    <3>3. QED
      BY <3>1, <3>2, SeqEqual
  <2>4. Fifo!EndOfStream
    BY <1>2, <2>1, <2>3 DEF Fifo!EndOfStream
  <2>5. QED
    BY <2>2, <2>4 DEF Fifo!Next
<1>3. CASE /\ Steps(c, "waiting") \/ Steps(c, "idle")
           /\ UNCHANGED <<policy, queue, chClosed, pushed, popped, ended>>
  <2>1. chPc' \in [Threads -> {"idle", "waiting", "woken", "notify"}] /\ Sending' \subseteq Sending
    BY <1>3, GoesOn, ChannelConstants
  <2>2. QED
    BY <1>3, <2>1, OnlyThreads, FifoStutters
<1>4. QED
  BY <1>1, <1>2, <1>3, PopStep

\* Closing is final.
LEMMA CloseStep ==
  ASSUME ChannelInv, ChannelClose
  PROVE  ChannelInv' /\ [Fifo!Next]_Fifo!channel
<1>1. Steps("control", "notify") /\ chClosed' = TRUE /\ UNCHANGED <<policy, queue, pushed, popped, ended>>
  BY DEF ChannelClose
<1>2. chPc' \in [Threads -> {"idle", "waiting", "woken", "notify"}] /\ Sending' \subseteq Sending
  BY <1>1, GoesOn, ChannelConstants
<1>3. Fifo!Close
  BY <1>1 DEF Fifo!Close
<1>4. QED
  BY <1>1, <1>2, <1>3, OnlyThreads DEF Fifo!Next

\* Every step keeps the invariant and is a step of FifoChannel.
LEMMA ChannelStep ==
  ChannelInv /\ [ChannelNext]_channelVars => ChannelInv' /\ [Fifo!Next]_Fifo!channel
<1>1. ASSUME ChannelInv, UNCHANGED channelVars PROVE ChannelInv' /\ [Fifo!Next]_Fifo!channel
  <2>1. UNCHANGED <<policy, queue, chClosed, chPc, pushed, popped, ended>>
    BY <1>1 DEF channelVars
  <2>2. chPc' \in [Threads -> {"idle", "waiting", "woken", "notify"}] /\ Sending' \subseteq Sending
    BY <1>1, <2>1 DEF ChannelInv, ThreadInv, Sending
  <2>3. QED
    BY <1>1, <2>1, <2>2, OnlyThreads, FifoStutters
<1>2. ASSUME ChannelInv, ChannelNext PROVE ChannelInv' /\ [Fifo!Next]_Fifo!channel
  <2>1. CASE \E p \in Producers : Push(p) \/ PushResumes(p) \/ PushTimeout(p)
    BY <1>2, <2>1, ProducerSteps
  <2>2. CASE \E c \in Consumers : Pop(c) \/ PopResumes(c) \/ PopTimeout(c)
    BY <1>2, <2>2, ConsumerSteps
  <2>3. CASE (\E p \in Producers : NotifyNotEmpty(p)) \/ (\E c \in Consumers : NotifyNotFull(c)) \/ NotifyAll
    BY <1>2, <2>3, NotifySteps
  <2>4. CASE ChannelClose
    BY <1>2, <2>4, CloseStep
  <2>5. QED
    BY <1>2, <2>1, <2>2, <2>3, <2>4 DEF ChannelNext, ProducerStep, ConsumerStep
<1>3. QED
  BY <1>1, <1>2
-----------------------------------------------------------------------------
(***************************************************************************)
(* The name of a shared-memory segment.                                    *)
(***************************************************************************)
ListenSteps == {"out", "check", "unlink", "create", "size", "initialise", "magic", "ready", "unlinking", "closed",
                "destroyed", "failed", "dead"}
AttachSteps == {"out", "stat", "await", "claim", "attached", "failed"}
ListenRecord == [step : ListenSteps, of : {0} \cup Segments, old : {0} \cup Segments, owns : BOOLEAN]
AttachRecord == [step : AttachSteps, of : {0} \cup Segments]
SegmentRecord == [sized : BOOLEAN, ready : BOOLEAN, magic : BOOLEAN, pid : SUBSET Hosts, closed : BOOLEAN]
SegmentTyped ==
  /\ named \in {0} \cup Segments
  /\ segment \in [Segments -> SegmentRecord]
  /\ listen \in [Listeners -> ListenRecord]
  /\ attach \in [Connectors -> AttachRecord]
  /\ within \in [Listeners -> Hosts] /\ host \in [Hosts -> {"running", "zombie", "gone"}]
  /\ crowded \in BOOLEAN

\* Segments get their numbers one after the other.
Numbered == {l \in Listeners : listen[l].of # 0}
NumberInv ==
  /\ \A l \in Listeners : listen[l].of <= Cardinality(Numbered)
  /\ \A l, k \in Listeners : l # k /\ listen[l].of # 0 => listen[l].of # listen[k].of
  /\ \A l \in Listeners :
       /\ listen[l].step \in {"out", "check", "unlink", "create"} => listen[l].of = 0
       /\ listen[l].step \in {"size", "initialise", "magic", "ready", "unlinking"} => listen[l].of # 0
\* What a listener has made of its segment so far, and its process
ListenerInv ==
  \A l \in Listeners :
    /\ listen[l].step # "dead" => host[within[l]] = "running"
    /\ listen[l].step \in {"initialise", "magic", "ready"} => segment[listen[l].of].sized
    /\ listen[l].step \in {"magic", "ready"} => segment[listen[l].of].ready /\ segment[listen[l].of].pid = {within[l]}
    /\ listen[l].step = "ready" => segment[listen[l].of].magic
    /\ listen[l].step = "closed" => ~listen[l].owns
    /\ listen[l].step = "check" => listen[l].old # 0
\* What connectors find
AttachInv ==
  /\ \A s \in Segments : segment[s].magic => segment[s].ready
  /\ \A c \in Connectors :
       /\ attach[c].step \in {"stat", "await", "claim", "attached"} => attach[c].of # 0
       /\ attach[c].step \in {"claim", "attached"} => segment[attach[c].of].magic
\* One listener at work at a time: the name is that of the segment in use.
NameInv ==
  ~crowded =>
    /\ \A l, k \in AtWork : l = k
    /\ \A l \in Listeners :
         /\ listen[l].step \in {"size", "initialise", "magic", "ready", "unlinking"} => named = listen[l].of
         /\ listen[l].step \in {"unlink", "create"} => \A k \in Listeners : listen[k].step # "ready"
         /\ listen[l].step = "check" => listen[l].old = named
SegmentInv == SegmentTyped /\ NumberInv /\ ListenerInv /\ AttachInv /\ NameInv

\* A finite set of at most one element.
LEMMA OneAtWork ==
  ASSUME NEW A, NEW N, IsFiniteSet(A), N \subseteq A, ~(Cardinality(N) > 1)
  PROVE  \A l, k \in N : l = k
<1> SUFFICES ASSUME NEW l \in N, NEW k \in N, l # k PROVE FALSE
  OBVIOUS
<1>1. IsFiniteSet(N) /\ Cardinality(N) \in Nat
  BY FS_Subset, FS_CardinalityType
<1>2. IsFiniteSet({k}) /\ Cardinality({k}) = 1
  BY FS_Singleton
<1>3. Cardinality({k} \cup {l}) = Cardinality({k}) + 1
  BY <1>2, FS_AddElement
<1>4. Cardinality({k} \cup {l}) <= Cardinality(N)
  BY <1>1, FS_Subset
<1>5. QED
  BY <1>1, <1>2, <1>3, <1>4

\* The name of a segment begins in its invariant.
LEMMA SegmentInitially == SegmentInit => SegmentInv
<1> SUFFICES ASSUME SegmentInit PROVE SegmentInv
  OBVIOUS
<1>1. SegmentTyped
  <2>1. segment \in [Segments -> SegmentRecord]
    BY DEF SegmentInit, SegmentRecord, Blank
  <2>2. listen \in [Listeners -> ListenRecord]
    BY DEF SegmentInit, ListenRecord, ListenSteps
  <2>3. attach \in [Connectors -> AttachRecord]
    BY DEF SegmentInit, AttachRecord, AttachSteps
  <2>4. crowded \in BOOLEAN
    BY Zenon DEF SegmentInit
  <2>5. named \in {0} \cup Segments /\ within \in [Listeners -> Hosts] /\ host \in [Hosts -> {"running", "zombie", "gone"}]
    BY DEF SegmentInit
  <2>6. QED
    BY <2>1, <2>2, <2>3, <2>4, <2>5 DEF SegmentTyped
<1>2. \A l \in Listeners : listen[l].step = "out" /\ listen[l].of = 0
  BY DEF SegmentInit
<1>3. NumberInv
  <2>1. Numbered = {}
    BY <1>2 DEF Numbered
  <2>2. Cardinality(Numbered) = 0
    BY <2>1, FS_EmptySet
  <2>3. QED
    BY <1>2, <2>2 DEF NumberInv
<1>4. ListenerInv
  BY <1>2 DEF SegmentInit, ListenerInv
<1>5. AttachInv
  <2>1. \A s \in Segments : ~segment[s].magic
    BY DEF SegmentInit, Blank
  <2>2. \A c \in Connectors : attach[c].step = "out"
    BY DEF SegmentInit
  <2>3. QED
    BY <2>1, <2>2 DEF AttachInv
<1>6. NameInv
  <2>1. AtWork = {}
    BY <1>2 DEF AtWork
  <2>2. QED
    BY <1>2, <2>1 DEF NameInv
<1>7. QED
  BY <1>1, <1>3, <1>4, <1>5, <1>6 DEF SegmentInv

\* The step of one listener
LEMMA ListenChanged ==
  ASSUME SegmentInv, NEW l \in Listeners, NEW r \in ListenRecord, listen' = [listen EXCEPT ![l] = r]
  PROVE  /\ listen' \in [Listeners -> ListenRecord] /\ listen'[l] = r
         /\ \A k \in Listeners : k # l => listen'[k] = listen[k]
  BY DEF SegmentInv, SegmentTyped

\* A listener that keeps its segment
LEMMA NumbersKept ==
  ASSUME SegmentInv, NEW l \in Listeners, NEW r \in ListenRecord, listen' = [listen EXCEPT ![l] = r],
         r.of = listen[l].of,
         r.step \in {"out", "check", "unlink", "create"} => r.of = 0,
         r.step \in {"size", "initialise", "magic", "ready", "unlinking"} => r.of # 0
  PROVE  NumberInv'
<1>1. \A k \in Listeners : listen'[k].of = listen[k].of
  BY ListenChanged
<1>2. Numbered' = Numbered
  BY <1>1 DEF Numbered
<1>3. \A k \in Listeners :
        /\ listen'[k].step \in {"out", "check", "unlink", "create"} => listen'[k].of = 0
        /\ listen'[k].step \in {"size", "initialise", "magic", "ready", "unlinking"} => listen'[k].of # 0
  BY ListenChanged DEF SegmentInv, NumberInv
<1>4. QED
  BY <1>1, <1>2, <1>3 DEF SegmentInv, NumberInv

\* At most one listener is at work unless it is crowded.
LEMMA CrowdedStep ==
  ASSUME SegmentInv, SegmentNext
  PROVE  crowded' \in BOOLEAN /\ within' = within /\ (~crowded' => ~crowded /\ \A l, k \in AtWork' : l = k)
<1>1. within' = within /\ crowded' = (crowded \/ Cardinality(AtWork') > 1)
  BY DEF SegmentNext
<1>2. AtWork' \subseteq Listeners
  BY DEF AtWork
<1>3. crowded' \in BOOLEAN /\ (~crowded' => ~crowded /\ ~(Cardinality(AtWork') > 1))
  BY <1>1, Zenon DEF SegmentInv, SegmentTyped
<1>4. ~(Cardinality(AtWork') > 1) => \A l, k \in AtWork' : l = k
  BY <1>2, SegmentAssumption, OneAtWork
<1>5. QED
  BY <1>1, <1>3, <1>4

\* What the steps below need of the invariant
LEMMA SegmentFacts ==
  ASSUME SegmentInv, NEW l \in Listeners
  PROVE  /\ listen[l] \in ListenRecord /\ listen[l].step \in ListenSteps /\ listen[l].of \in {0} \cup Segments
         /\ listen[l].owns \in BOOLEAN /\ named \in {0} \cup Segments /\ Segments \subseteq Nat \ {0}
         /\ \A s \in Segments : segment[s] \in SegmentRecord
         /\ \A k \in Listeners : k # l /\ listen[l].of # 0 => listen[k].of # listen[l].of
         /\ ~crowded /\ l \in AtWork => \A k \in AtWork : k = l
<1>1. listen[l] \in ListenRecord
  BY DEF SegmentInv, SegmentTyped
<1>2. Segments \subseteq Nat \ {0}
  BY SegmentAssumption, FS_CardinalityType DEF Segments
<1>3. listen[l].step \in ListenSteps /\ listen[l].of \in {0} \cup Segments /\ listen[l].owns \in BOOLEAN
  BY <1>1 DEF ListenRecord
<1>4. ~crowded /\ l \in AtWork => \A k \in AtWork : k = l
  BY DEF SegmentInv, NameInv
<1>5. \A k \in Listeners : k # l /\ listen[l].of # 0 => listen[k].of # listen[l].of
  BY DEF SegmentInv, NumberInv
<1>6. QED
  BY <1>1, <1>2, <1>3, <1>4, <1>5 DEF SegmentInv, SegmentTyped

\* A listener moves on without touching any segment.
LEMMA Moved ==
  ASSUME SegmentInv, SegmentNext, NEW l \in Listeners, NEW r \in ListenRecord, listen' = [listen EXCEPT ![l] = r],
         r.of = listen[l].of, UNCHANGED <<segment, attach, host>>, named' \in {0} \cup Segments,
         r.step \in {"out", "check", "unlink", "create"} => r.of = 0,
         r.step \in {"size", "initialise", "magic", "ready", "unlinking"} => r.of # 0,
         listen[l].step # "dead", r.step \notin {"initialise", "magic", "ready", "dead"},
         r.step = "closed" => ~r.owns, r.step = "check" => r.old # 0,
         NameInv'
  PROVE  SegmentInv'
<1>1. /\ listen' \in [Listeners -> ListenRecord] /\ listen'[l] = r
      /\ \A k \in Listeners : k # l => listen'[k] = listen[k]
  BY ListenChanged
<1>2. within' = within /\ crowded' \in BOOLEAN
  BY CrowdedStep
<1>3. SegmentTyped'
  BY <1>1, <1>2 DEF SegmentInv, SegmentTyped
<1>4. NumberInv'
  BY NumbersKept
<1>5. ListenerInv'
  BY <1>1, <1>2 DEF SegmentInv, ListenerInv
<1>6. AttachInv'
  BY DEF SegmentInv, AttachInv
<1>7. QED
  BY <1>3, <1>4, <1>5, <1>6 DEF SegmentInv

\* A listener begins: it finds a name or none.
LEMMA ListenCallStep ==
  ASSUME SegmentInv, SegmentNext, NEW l \in Listeners, ListenCall(l)
  PROVE  SegmentInv'
<1> DEFINE r == [listen[l] EXCEPT !.step = IF named = 0 THEN "create" ELSE "check", !.old = named]
<1>1. /\ r \in ListenRecord /\ r.of = listen[l].of /\ r.owns = listen[l].owns /\ r.old = named
      /\ r.step = IF named = 0 THEN "create" ELSE "check"
  BY SegmentFacts DEF ListenRecord, ListenSteps
<1>2. /\ listen' = [listen EXCEPT ![l] = r] /\ UNCHANGED <<named, segment, attach, host>>
      /\ listen[l].step = "out"
  BY DEF ListenCall
<1> HIDE DEF r
<1>3. listen[l].of = 0
  BY <1>2 DEF SegmentInv, NumberInv
<1>4. /\ listen'[l] = r /\ \A k \in Listeners : k # l => listen'[k] = listen[k]
  BY <1>1, <1>2, ListenChanged
<1>5. NameInv'
  <2> SUFFICES ASSUME ~crowded' PROVE NameInv'
    BY DEF NameInv
  <2>1. ~crowded /\ \A m, k \in AtWork' : m = k
    BY CrowdedStep
  <2>2. named = 0 => \A k \in Listeners : listen[k].step # "ready"
    BY <2>1 DEF SegmentInv, NameInv, NumberInv
  <2>3. \A k \in Listeners : listen'[k].step = "ready" <=> listen[k].step = "ready"
    BY <1>1, <1>2, <1>4
  <2>4. ASSUME NEW k \in Listeners
        PROVE  /\ listen'[k].step \in {"size", "initialise", "magic", "ready", "unlinking"} => named' = listen'[k].of
               /\ listen'[k].step \in {"unlink", "create"} => \A j \in Listeners : listen'[j].step # "ready"
               /\ listen'[k].step = "check" => listen'[k].old = named'
    BY <1>1, <1>2, <1>4, <2>1, <2>2, <2>3 DEF SegmentInv, NameInv
  <2>5. QED
    BY <2>1, <2>4 DEF NameInv
<1>6. QED
  BY <1>1, <1>2, <1>3, <1>5, Moved, SegmentFacts

\* A live listener's name is not taken for stale.
LEMMA CheckStep ==
  ASSUME SegmentInv, SegmentNext, NEW l \in Listeners, CheckSegment(l)
  PROVE  SegmentInv'
<1> DEFINE s == segment[listen[l].old]
           r == [listen[l] EXCEPT !.step = IF s.sized /\ LiveConsumer(s) THEN "failed" ELSE "unlink", !.old = 0]
<1>1. /\ r \in ListenRecord /\ r.of = listen[l].of /\ r.step \in {"failed", "unlink"}
      /\ s.sized /\ LiveConsumer(s) => r.step = "failed"
  BY SegmentFacts DEF ListenRecord, ListenSteps
<1>2. /\ listen' = [listen EXCEPT ![l] = r] /\ UNCHANGED <<named, segment, attach, host>>
      /\ listen[l].step = "check"
  BY DEF CheckSegment
<1> HIDE DEF r
<1>3. listen[l].of = 0
  BY <1>2 DEF SegmentInv, NumberInv
<1>4. /\ listen'[l] = r /\ \A k \in Listeners : k # l => listen'[k] = listen[k]
  BY <1>1, <1>2, ListenChanged
<1>5. NameInv'
  <2> SUFFICES ASSUME ~crowded' PROVE NameInv'
    BY DEF NameInv
  <2>1. ~crowded /\ \A m, k \in AtWork' : m = k
    BY CrowdedStep
  <2>2. ASSUME NEW k \in Listeners, listen[k].step = "ready" PROVE r.step = "failed"
    <3>1. listen[l].old = named /\ named = listen[k].of
      BY <1>2, <2>1, <2>2 DEF SegmentInv, NameInv
    <3>2. /\ segment[listen[k].of].sized /\ segment[listen[k].of].magic /\ segment[listen[k].of].pid = {within[k]}
          /\ host[within[k]] = "running"
      BY <2>2 DEF SegmentInv, ListenerInv
    <3>3. s.sized /\ LiveConsumer(s)
      BY <3>1, <3>2 DEF LiveConsumer, PidAlive
    <3>4. QED
      BY <1>1, <3>3
  <2>3. \A k \in Listeners : listen'[k].step = "ready" <=> listen[k].step = "ready"
    BY <1>1, <1>2, <1>4
  <2>4. ASSUME NEW k \in Listeners
        PROVE  /\ listen'[k].step \in {"size", "initialise", "magic", "ready", "unlinking"} => named' = listen'[k].of
               /\ listen'[k].step \in {"unlink", "create"} => \A j \in Listeners : listen'[j].step # "ready"
               /\ listen'[k].step = "check" => listen'[k].old = named'
    <3>1. CASE k = l
      BY <1>1, <1>4, <2>2, <2>3, <3>1
    <3>2. CASE k # l
      BY <1>2, <1>4, <2>1, <2>3, <3>2 DEF SegmentInv, NameInv
    <3>3. QED
      BY <3>1, <3>2
  <2>5. QED
    BY <2>1, <2>4 DEF NameInv
<1>6. QED
  BY <1>1, <1>2, <1>3, <1>5, Moved, SegmentFacts

\* A name that is stale is removed while nobody else is at work.
LEMMA UnlinkStaleStep ==
  ASSUME SegmentInv, SegmentNext, NEW l \in Listeners, UnlinkStale(l)
  PROVE  SegmentInv'
<1> DEFINE r == [listen[l] EXCEPT !.step = "create"]
<1>1. r \in ListenRecord /\ r.of = listen[l].of /\ r.step = "create"
  BY SegmentFacts DEF ListenRecord, ListenSteps
<1>2. /\ listen' = [listen EXCEPT ![l] = r] /\ named' = 0 /\ UNCHANGED <<segment, attach, host>>
      /\ listen[l].step = "unlink"
  BY DEF UnlinkStale, Listens
<1> HIDE DEF r
<1>3. listen[l].of = 0
  BY <1>2 DEF SegmentInv, NumberInv
<1>4. /\ listen'[l] = r /\ \A k \in Listeners : k # l => listen'[k] = listen[k]
  BY <1>1, <1>2, ListenChanged
<1>5. NameInv'
  <2> SUFFICES ASSUME ~crowded' PROVE NameInv'
    BY DEF NameInv
  <2>1. ~crowded /\ \A m, k \in AtWork' : m = k
    BY CrowdedStep
  <2>2. \A k \in Listeners : k # l => k \notin AtWork /\ listen[k].step # "ready"
    BY <1>2, <2>1 DEF SegmentInv, NameInv, AtWork
  <2>3. \A k \in Listeners : k # l => listen'[k].step \notin {"check", "unlink", "create", "size", "initialise", "magic",
                                                              "unlinking", "ready"}
    BY <1>4, <2>2 DEF AtWork
  <2>4. QED
    BY <1>1, <1>4, <2>1, <2>3 DEF NameInv
<1>6. QED
  BY <1>1, <1>2, <1>3, <1>5, Moved, SegmentFacts

\* The name is given to a segment that nobody has had.
LEMMA CreateStep ==
  ASSUME SegmentInv, SegmentNext, NEW l \in Listeners, CreateSegment(l)
  PROVE  SegmentInv'
<1>1. listen[l].step = "create" /\ listen[l].of = 0 /\ UNCHANGED <<segment, attach, host>>
  BY DEF CreateSegment, SegmentInv, NumberInv
<1>2. CASE named # 0
  <2> DEFINE r == [listen[l] EXCEPT !.step = "failed"]
  <2>1. r \in ListenRecord /\ r.of = listen[l].of /\ r.step = "failed"
    BY SegmentFacts DEF ListenRecord, ListenSteps
  <2>2. listen' = [listen EXCEPT ![l] = r] /\ named' = named
    BY <1>2 DEF CreateSegment, Listens
  <2> HIDE DEF r
  <2>3. /\ listen'[l] = r /\ \A k \in Listeners : k # l => listen'[k] = listen[k]
    BY <2>1, <2>2, ListenChanged
  <2>4. NameInv'
    <3> SUFFICES ASSUME ~crowded' PROVE NameInv'
      BY DEF NameInv
    <3>1. ~crowded /\ \A m, k \in AtWork' : m = k
      BY CrowdedStep
    <3>2. \A k \in Listeners : listen'[k].step = "ready" => listen[k].step = "ready"
      BY <2>1, <2>3
    <3>3. ASSUME NEW k \in Listeners
          PROVE  /\ listen'[k].step \in {"size", "initialise", "magic", "ready", "unlinking"} => named' = listen'[k].of
                 /\ listen'[k].step \in {"unlink", "create"} => \A j \in Listeners : listen'[j].step # "ready"
                 /\ listen'[k].step = "check" => listen'[k].old = named'
      BY <2>1, <2>2, <2>3, <3>1, <3>2 DEF SegmentInv, NameInv
    <3>4. QED
      BY <3>1, <3>3 DEF NameInv
  <2>5. QED
    BY <1>1, <2>1, <2>2, <2>4, Moved, SegmentFacts
<1>3. CASE named = 0
  <2> DEFINE n == NextSegment
             r == [listen[l] EXCEPT !.step = "size", !.of = n, !.owns = TRUE]
  <2>1. named' = n /\ listen' = [listen EXCEPT ![l] = r]
    BY <1>3 DEF CreateSegment
  <2>2. /\ IsFiniteSet(Numbered) /\ Cardinality(Numbered) \in Nat /\ n = Cardinality(Numbered) + 1
        /\ n \in Segments /\ n \in Nat \ {0}
    <3>1. Numbered \subseteq Listeners /\ l \notin Numbered
      BY <1>1 DEF Numbered
    <3>2. IsFiniteSet(Numbered) /\ Cardinality(Numbered) \in Nat /\ Cardinality(Listeners) \in Nat
      BY <3>1, SegmentAssumption, FS_Subset, FS_CardinalityType
    <3>3. Cardinality(Numbered \cup {l}) = Cardinality(Numbered) + 1
      BY <3>1, <3>2, FS_AddElement
    <3>4. Cardinality(Numbered \cup {l}) <= Cardinality(Listeners)
      BY <3>1, SegmentAssumption, FS_Subset
    <3>5. n = Cardinality(Numbered) + 1
      BY DEF NextSegment, Numbered
    <3>6. QED
      BY <3>2, <3>3, <3>4, <3>5 DEF Segments
  <2> HIDE DEF n
  <2>3. r \in ListenRecord /\ r.of = n /\ r.step = "size"
    <3>1. listen[l] \in [step : ListenSteps, of : {0} \cup Segments, old : {0} \cup Segments, owns : BOOLEAN]
      BY SegmentFacts DEF ListenRecord
    <3>2. "size" \in ListenSteps /\ n \in {0} \cup Segments /\ TRUE \in BOOLEAN
      BY <2>2 DEF ListenSteps
    <3>3. QED
      BY <3>1, <3>2 DEF ListenRecord
  <2> HIDE DEF r
  <2>4. /\ listen' \in [Listeners -> ListenRecord] /\ listen'[l] = r
        /\ \A k \in Listeners : k # l => listen'[k] = listen[k]
    BY <2>1, <2>3, ListenChanged
  <2>5. within' = within /\ crowded' \in BOOLEAN /\ (~crowded' => ~crowded /\ \A m, k \in AtWork' : m = k)
    BY CrowdedStep
  <2>6. SegmentTyped'
    BY <1>1, <2>1, <2>2, <2>4, <2>5 DEF SegmentInv, SegmentTyped
  <2>7. NumberInv'
    <3>1. Numbered' = Numbered \cup {l}
      BY <2>2, <2>3, <2>4 DEF Numbered
    <3>2. l \notin Numbered
      BY <1>1 DEF Numbered
    <3>3. Cardinality(Numbered') = Cardinality(Numbered) + 1
      BY <2>2, <3>1, <3>2, FS_AddElement
    <3>4. \A k \in Listeners : k # l => listen[k].of <= Cardinality(Numbered) /\ listen[k].of \in Nat
      <4>1. \A k \in Listeners : listen[k].of \in Nat
        BY SegmentFacts
      <4>2. QED
        BY <4>1 DEF SegmentInv, NumberInv
    <3>5. \A k \in Listeners : listen'[k].of <= Cardinality(Numbered')
      BY <2>2, <2>3, <2>4, <3>3, <3>4
    <3>6. \A k, j \in Listeners : k # j /\ listen'[k].of # 0 => listen'[k].of # listen'[j].of
      <4>1. \A k \in Listeners : k # l => listen'[k].of # n /\ listen'[k].of = listen[k].of
        BY <2>2, <2>4, <3>4
      <4>2. \A k, j \in Listeners : k # j /\ listen[k].of # 0 => listen[k].of # listen[j].of
        BY DEF SegmentInv, NumberInv
      <4>3. QED
        BY <2>3, <2>4, <4>1, <4>2
    <3>7. \A k \in Listeners :
            /\ listen'[k].step \in {"out", "check", "unlink", "create"} => listen'[k].of = 0
            /\ listen'[k].step \in {"size", "initialise", "magic", "ready", "unlinking"} => listen'[k].of # 0
      BY <2>2, <2>3, <2>4 DEF SegmentInv, NumberInv
    <3>8. QED
      BY <3>5, <3>6, <3>7 DEF NumberInv
  <2>8. ListenerInv'
    <3>1. host[within[l]] = "running"
      BY <1>1 DEF SegmentInv, ListenerInv
    <3>2. ASSUME NEW k \in Listeners, k # l
          PROVE  /\ listen'[k].step # "dead" => host'[within'[k]] = "running"
                 /\ listen'[k].step \in {"initialise", "magic", "ready"} => segment'[listen'[k].of].sized
                 /\ listen'[k].step \in {"magic", "ready"} => segment'[listen'[k].of].ready /\ segment'[listen'[k].of].pid = {within'[k]}
                 /\ listen'[k].step = "ready" => segment'[listen'[k].of].magic
                 /\ listen'[k].step = "closed" => ~listen'[k].owns
                 /\ listen'[k].step = "check" => listen'[k].old # 0
      <4>1. listen'[k] = listen[k] /\ segment' = segment /\ host' = host /\ within' = within
        BY <1>1, <2>4, <2>5, <3>2
      <4>2. QED
        BY <4>1 DEF SegmentInv, ListenerInv
    <3>3. QED
      BY <1>1, <2>3, <2>4, <2>5, <3>1, <3>2 DEF ListenerInv
  <2>9. AttachInv'
    BY <1>1 DEF SegmentInv, AttachInv
  <2>10. NameInv'
    <3> SUFFICES ASSUME ~crowded' PROVE NameInv'
      BY DEF NameInv
    <3>1. ~crowded /\ \A m, k \in AtWork' : m = k
      BY <2>5
    <3>2. \A k \in Listeners : k # l => k \notin AtWork /\ listen[k].step # "ready"
      BY <1>1, <3>1 DEF SegmentInv, NameInv, AtWork
    <3>3. \A k \in Listeners : k # l => listen'[k].step \notin {"check", "unlink", "create", "size", "initialise", "magic",
                                                                "unlinking", "ready"}
      BY <2>4, <3>2 DEF AtWork
    <3>4. QED
      BY <2>1, <2>3, <2>4, <3>1, <3>3 DEF NameInv
  <2>11. QED
    BY <2>6, <2>7, <2>8, <2>9, <2>10 DEF SegmentInv
<1>4. QED
  BY <1>2, <1>3

\* A listener writes to its own segment.
LEMMA Wrote ==
  ASSUME SegmentInv, SegmentNext, NEW l \in Listeners, NEW r \in ListenRecord, NEW s \in SegmentRecord,
         listen' = [listen EXCEPT ![l] = r], segment' = [segment EXCEPT ![listen[l].of] = s],
         r.of = listen[l].of, UNCHANGED <<named, attach, host>>,
         listen[l].step \in {"size", "initialise", "magic", "ready"},
         r.step \in {"initialise", "magic", "ready", "unlinking"},
         r.step = "ready" => listen[l].step # "ready",
         r.step # "unlinking" => s.sized,
         r.step \in {"magic", "ready"} => s.ready /\ s.pid = {within[l]},
         r.step = "ready" => s.magic,
         s.magic => s.ready, segment[listen[l].of].magic => s.magic
  PROVE  SegmentInv'
<1>1. /\ listen' \in [Listeners -> ListenRecord] /\ listen'[l] = r
      /\ \A k \in Listeners : k # l => listen'[k] = listen[k]
  BY ListenChanged
<1>2. within' = within /\ crowded' \in BOOLEAN /\ (~crowded' => ~crowded /\ \A m, k \in AtWork' : m = k)
  BY CrowdedStep
<1>3. listen[l].of # 0 /\ listen[l].of \in Segments
  BY SegmentFacts DEF SegmentInv, NumberInv
<1>4. segment' \in [Segments -> SegmentRecord] /\ segment'[listen[l].of] = s
      /\ \A n \in Segments : n # listen[l].of => segment'[n] = segment[n]
  BY <1>3 DEF SegmentInv, SegmentTyped
<1>5. SegmentTyped'
  BY <1>1, <1>2, <1>4 DEF SegmentInv, SegmentTyped
<1>6. NumberInv'
  BY <1>3, NumbersKept
<1>7. ListenerInv'
  <2> SUFFICES ASSUME NEW k \in Listeners
               PROVE  /\ listen'[k].step # "dead" => host[within[k]] = "running"
                      /\ listen'[k].step \in {"initialise", "magic", "ready"} => segment'[listen'[k].of].sized
                      /\ listen'[k].step \in {"magic", "ready"} =>
                           segment'[listen'[k].of].ready /\ segment'[listen'[k].of].pid = {within[k]}
                      /\ listen'[k].step = "ready" => segment'[listen'[k].of].magic
                      /\ listen'[k].step = "closed" => ~listen'[k].owns
                      /\ listen'[k].step = "check" => listen'[k].old # 0
    BY <1>2 DEF ListenerInv
  <2>1. CASE k = l
    BY <1>1, <1>4, <2>1 DEF SegmentInv, ListenerInv
  <2>2. CASE k # l
    <3>1. listen'[k] = listen[k] /\ listen[k].of # listen[l].of /\ listen[k].of \in {0} \cup Segments
      BY <1>1, <1>3, <2>2, SegmentFacts
    <3>2. listen[k].step \in {"initialise", "magic", "ready"} => segment'[listen[k].of] = segment[listen[k].of]
      BY <1>4, <3>1 DEF SegmentInv, NumberInv
    <3>3. QED
      BY <3>1, <3>2 DEF SegmentInv, ListenerInv
  <2>3. QED
    BY <2>1, <2>2
<1>8. AttachInv'
  <2>1. \A n \in Segments : segment'[n].magic => segment'[n].ready
    BY <1>4 DEF SegmentInv, AttachInv
  <2>2. \A n \in Segments : segment[n].magic => segment'[n].magic
    BY <1>4
  <2>3. \A c \in Connectors : attach[c].of \in {0} \cup Segments
    BY DEF SegmentInv, SegmentTyped, AttachRecord
  <2>4. QED
    BY <2>1, <2>2, <2>3 DEF SegmentInv, AttachInv
<1>9. NameInv'
  <2> SUFFICES ASSUME ~crowded' PROVE NameInv'
    BY DEF NameInv
  <2>1. ~crowded /\ \A m, k \in AtWork' : m = k
    BY <1>2
  <2>2. named = listen[l].of
    BY <2>1 DEF SegmentInv, NameInv
  <2>3. ASSUME NEW k \in Listeners, listen'[k].step \in {"unlink", "create"}, NEW j \in Listeners
        PROVE  listen'[j].step # "ready"
    <3>1. k # l /\ listen'[k] = listen[k]
      BY <1>1, <2>3
    <3>2. CASE j = l
      <4>1. listen[l].step # "ready" => l \in AtWork /\ k \in AtWork
        BY <2>3, <3>1 DEF AtWork
      <4>2. QED
        BY <1>1, <2>1, <3>1, <3>2, <4>1 DEF SegmentInv, NameInv
    <3>3. CASE j # l
      BY <1>1, <2>1, <2>3, <3>1, <3>3 DEF SegmentInv, NameInv
    <3>4. QED
      BY <3>2, <3>3
  <2>4. ASSUME NEW k \in Listeners
        PROVE  /\ listen'[k].step \in {"size", "initialise", "magic", "ready", "unlinking"} => named' = listen'[k].of
               /\ listen'[k].step = "check" => listen'[k].old = named'
    BY <1>1, <2>1, <2>2 DEF SegmentInv, NameInv
  <2>5. QED
    BY <2>1, <2>3, <2>4 DEF NameInv
<1>10. QED
  BY <1>5, <1>6, <1>7, <1>8, <1>9 DEF SegmentInv

\* The steps of a listener that makes or leaves its segment
LEMMA WritingSteps ==
  ASSUME SegmentInv, SegmentNext, NEW l \in Listeners,
         SizeSegment(l) \/ InitialiseSegment(l) \/ StoreMagic(l) \/ ReleaseRole(l)
  PROVE  SegmentInv'
<1>1. listen[l] \in ListenRecord /\ listen[l].of \in {0} \cup Segments
  BY SegmentFacts
<1>2. listen[l].step \in {"size", "initialise", "magic", "ready"} /\ UNCHANGED <<named, attach, host>>
  BY DEF SizeSegment, InitialiseSegment, StoreMagic, ReleaseRole, Listens
<1>3. listen[l].of \in Segments
  BY <1>1, <1>2 DEF SegmentInv, NumberInv
<1> DEFINE s == segment[listen[l].of]
<1>4. s \in SegmentRecord /\ segment \in [Segments -> SegmentRecord] /\ within[l] \in Hosts
  BY <1>3 DEF SegmentInv, SegmentTyped
<1>5. s.magic => s.ready
  BY <1>3 DEF SegmentInv, AttachInv
<1>6. ASSUME NEW q \in ListenSteps
      PROVE  LET r == [listen[l] EXCEPT !.step = q] IN r \in ListenRecord /\ r.of = listen[l].of /\ r.step = q
  BY <1>1 DEF ListenRecord
<1>7. CASE segment' = segment /\ Listens(l, listen[l].step, "unlinking")
  <2> DEFINE r == [listen[l] EXCEPT !.step = "unlinking"]
  <2>1. r \in ListenRecord /\ r.of = listen[l].of /\ r.step = "unlinking"
    BY <1>6 DEF ListenSteps
  <2>2. listen' = [listen EXCEPT ![l] = r] /\ segment' = [segment EXCEPT ![listen[l].of] = s]
    BY <1>3, <1>4, <1>7 DEF Listens
  <2> HIDE DEF r, s
  <2>3. QED
    BY <1>2, <1>4, <1>5, <2>1, <2>2, Wrote DEF s
<1>8. CASE listen[l].step = "size" /\ Listens(l, "size", "initialise") /\ segment' = [segment EXCEPT ![listen[l].of].sized = TRUE]
  <2> DEFINE r == [listen[l] EXCEPT !.step = "initialise"]
             t == [s EXCEPT !.sized = TRUE]
  <2>1. r \in ListenRecord /\ r.of = listen[l].of /\ r.step = "initialise"
    BY <1>6 DEF ListenSteps
  <2>2. listen' = [listen EXCEPT ![l] = r] /\ segment' = [segment EXCEPT ![listen[l].of] = t]
    BY <1>8 DEF Listens
  <2>3. t \in SegmentRecord /\ t.sized /\ t.magic = s.magic /\ t.ready = s.ready
    BY <1>4 DEF SegmentRecord
  <2> HIDE DEF r, s, t
  <2>4. QED
    BY <1>2, <1>5, <1>8, <2>1, <2>2, <2>3, Wrote DEF s
<1>9. CASE /\ listen[l].step = "initialise" /\ Listens(l, "initialise", "magic")
           /\ segment' = [segment EXCEPT ![listen[l].of] = [@ EXCEPT !.ready = TRUE, !.pid = {within[l]}]]
  <2> DEFINE r == [listen[l] EXCEPT !.step = "magic"]
             t == [s EXCEPT !.ready = TRUE, !.pid = {within[l]}]
  <2>1. r \in ListenRecord /\ r.of = listen[l].of /\ r.step = "magic"
    BY <1>6 DEF ListenSteps
  <2>2. listen' = [listen EXCEPT ![l] = r] /\ segment' = [segment EXCEPT ![listen[l].of] = t]
    BY <1>9 DEF Listens
  <2>3. t \in SegmentRecord /\ t.sized = s.sized /\ t.magic = s.magic /\ t.ready /\ t.pid = {within[l]}
    BY <1>4 DEF SegmentRecord
  <2>4. s.sized
    BY <1>9 DEF SegmentInv, ListenerInv
  <2> HIDE DEF r, s, t
  <2>5. QED
    BY <1>2, <1>5, <1>9, <2>1, <2>2, <2>3, <2>4, Wrote DEF s
<1>10. CASE StoreMagic(l)
  <2> DEFINE r == [listen[l] EXCEPT !.step = "ready"]
             t == [s EXCEPT !.magic = TRUE]
  <2>1. r \in ListenRecord /\ r.of = listen[l].of /\ r.step = "ready"
    BY <1>6 DEF ListenSteps
  <2>2. /\ listen' = [listen EXCEPT ![l] = r] /\ segment' = [segment EXCEPT ![listen[l].of] = t]
        /\ listen[l].step = "magic"
    BY <1>10 DEF Listens, StoreMagic
  <2>3. t \in SegmentRecord /\ t.sized = s.sized /\ t.magic /\ t.ready = s.ready /\ t.pid = s.pid
    BY <1>4 DEF SegmentRecord
  <2>4. s.sized /\ s.ready /\ s.pid = {within[l]}
    BY <2>2 DEF SegmentInv, ListenerInv
  <2> HIDE DEF r, s, t
  <2>5. QED
    BY <1>2, <2>1, <2>2, <2>3, <2>4, Wrote DEF s
<1>11. CASE ReleaseRole(l)
  <2> DEFINE r == [listen[l] EXCEPT !.step = "unlinking"]
             t == segment'[listen[l].of]
  <2>1. r \in ListenRecord /\ r.of = listen[l].of /\ r.step = "unlinking"
    BY <1>6 DEF ListenSteps
  <2>2. listen' = [listen EXCEPT ![l] = r]
    BY <1>11 DEF Listens, ReleaseRole
  <2>3. /\ segment' = [segment EXCEPT ![listen[l].of] = t] /\ t \in SegmentRecord
        /\ t.magic = s.magic /\ t.ready = s.ready
    <3>1. segment' = [segment EXCEPT ![listen[l].of].closed = TRUE, ![listen[l].of].pid = @ \ {within[l]}]
      BY <1>11 DEF ReleaseRole
    <3>2. QED
      BY <1>3, <1>4, <3>1 DEF SegmentRecord
  <2> HIDE DEF r, s, t
  <2>4. QED
    BY <1>2, <1>5, <2>1, <2>2, <2>3, Wrote DEF s
<1>12. QED
  BY <1>7, <1>8, <1>9, <1>10, <1>11 DEF SizeSegment, InitialiseSegment, Listens

\* Only the last owner removes the name.
LEMMA UnlinkNameStep ==
  ASSUME SegmentInv, SegmentNext, NEW l \in Listeners, UnlinkName(l)
  PROVE  SegmentInv'
<1> DEFINE r == [listen[l] EXCEPT !.step = "closed", !.owns = FALSE]
<1>1. r \in ListenRecord /\ r.of = listen[l].of /\ r.step = "closed" /\ ~r.owns
  BY SegmentFacts DEF ListenRecord, ListenSteps
<1>2. /\ listen' = [listen EXCEPT ![l] = r] /\ named' = 0 /\ UNCHANGED <<segment, attach, host>>
      /\ listen[l].step = "unlinking"
  BY DEF UnlinkName, StillOwns
<1> HIDE DEF r
<1>3. /\ listen'[l] = r /\ \A k \in Listeners : k # l => listen'[k] = listen[k]
  BY <1>1, <1>2, ListenChanged
<1>4. NameInv'
  <2> SUFFICES ASSUME ~crowded' PROVE NameInv'
    BY DEF NameInv
  <2>1. ~crowded /\ \A m, k \in AtWork' : m = k
    BY CrowdedStep
  <2>2. listen[l].of # 0
    BY <1>2 DEF SegmentInv, NumberInv
  <2>3. \A k \in Listeners : k # l => k \notin AtWork /\ listen[k].step # "ready"
    <3>1. \A k \in Listeners : k # l => listen[k].of # listen[l].of
      BY <2>2, SegmentFacts
    <3>2. QED
      BY <1>2, <2>1, <3>1 DEF SegmentInv, NameInv, AtWork
  <2>4. \A k \in Listeners : k # l => listen'[k].step \notin {"check", "unlink", "create", "size", "initialise", "magic",
                                                              "unlinking", "ready"}
    BY <1>3, <2>3 DEF AtWork
  <2>5. QED
    BY <1>1, <1>3, <2>1, <2>4 DEF NameInv
<1>5. QED
  BY <1>1, <1>2, <1>4, Moved

\* A destructor leaves the name alone: close() has given it up.
LEMMA DestroyStep ==
  ASSUME SegmentInv, SegmentNext, NEW l \in Listeners, DestroySegment(l)
  PROVE  SegmentInv'
<1> DEFINE r == [listen[l] EXCEPT !.step = "destroyed"]
<1>1. r \in ListenRecord /\ r.of = listen[l].of /\ r.step = "destroyed"
  BY SegmentFacts DEF ListenRecord, ListenSteps
<1>2. /\ listen' = [listen EXCEPT ![l] = r] /\ UNCHANGED <<segment, attach, host>>
      /\ listen[l].step = "closed" /\ named' = IF listen[l].owns THEN 0 ELSE named
  BY DEF DestroySegment, Listens
<1> HIDE DEF r
<1>3. named' = named /\ named \in {0} \cup Segments
  BY <1>2 DEF SegmentInv, ListenerInv, SegmentTyped
<1>4. /\ listen'[l] = r /\ \A k \in Listeners : k # l => listen'[k] = listen[k]
  BY <1>1, <1>2, ListenChanged
<1>5. NameInv'
  <2> SUFFICES ASSUME ~crowded' PROVE NameInv'
    BY DEF NameInv
  <2>1. ~crowded /\ \A m, k \in AtWork' : m = k
    BY CrowdedStep
  <2>2. \A k \in Listeners : listen'[k].step = "ready" => listen[k].step = "ready"
    BY <1>1, <1>4
  <2>3. ASSUME NEW k \in Listeners
        PROVE  /\ listen'[k].step \in {"size", "initialise", "magic", "ready", "unlinking"} => named' = listen'[k].of
               /\ listen'[k].step \in {"unlink", "create"} => \A j \in Listeners : listen'[j].step # "ready"
               /\ listen'[k].step = "check" => listen'[k].old = named'
    BY <1>1, <1>3, <1>4, <2>1, <2>2 DEF SegmentInv, NameInv
  <2>4. QED
    BY <2>1, <2>3 DEF NameInv
<1>6. QED
  BY <1>1, <1>2, <1>3, <1>5, Moved

\* Connectors change nothing that listeners see, and claim what is ready.
LEMMA ConnectSteps ==
  ASSUME SegmentInv, SegmentNext, NEW c \in Connectors,
         OpenSegment(c) \/ StatSegment(c) \/ AwaitMagic(c) \/ ClaimSegment(c) \/ ConnectGivesUp(c)
  PROVE  SegmentInv'
<1>1. UNCHANGED <<named, segment, listen, host>> /\ within' = within
  BY CrowdedStep DEF OpenSegment, StatSegment, AwaitMagic, ClaimSegment, ConnectGivesUp
<1>2. crowded' \in BOOLEAN /\ (~crowded' => ~crowded)
  BY CrowdedStep
<1>3. attach \in [Connectors -> AttachRecord] /\ attach[c] \in [step : AttachSteps, of : {0} \cup Segments]
      /\ named \in {0} \cup Segments
  BY DEF SegmentInv, SegmentTyped, AttachRecord
<1>4. PICK r \in AttachRecord :
        /\ attach' = [attach EXCEPT ![c] = r]
        /\ r.step \in {"stat", "await", "claim", "attached"} => r.of # 0
        /\ r.step \in {"claim", "attached"} => segment[r.of].magic
  <2>1. CASE OpenSegment(c)
    <3> DEFINE r == [step |-> "stat", of |-> named]
    <3>1. r \in AttachRecord
      BY <1>3 DEF AttachRecord, AttachSteps
    <3>2. QED
      BY <2>1, <3>1 DEF OpenSegment
  <2>2. ASSUME NEW q \in AttachSteps, NEW o, o = attach[c].step, Attaches(c, o, q), o # "out" \/ q = "failed",
               q \in {"claim", "attached"} => segment[attach[c].of].magic,
               o \in {"stat", "await", "claim", "attached"} \/ q = "failed"
        PROVE  \E r \in AttachRecord :
                 /\ attach' = [attach EXCEPT ![c] = r]
                 /\ r.step \in {"stat", "await", "claim", "attached"} => r.of # 0
                 /\ r.step \in {"claim", "attached"} => segment[r.of].magic
    <3> DEFINE r == [attach[c] EXCEPT !.step = q]
    <3>1. r \in AttachRecord /\ r.step = q /\ r.of = attach[c].of
      BY <1>3 DEF AttachRecord
    <3>2. attach' = [attach EXCEPT ![c] = r]
      BY <2>2 DEF Attaches
    <3>3. q # "failed" => attach[c].of # 0
      BY <2>2 DEF SegmentInv, AttachInv
    <3> HIDE DEF r
    <3>4. QED
      BY <2>2, <3>1, <3>2, <3>3
  <2>3. CASE StatSegment(c)
    BY <2>2, <2>3 DEF StatSegment, Attaches, AttachSteps
  <2>4. CASE AwaitMagic(c)
    BY <2>2, <2>4 DEF AwaitMagic, Attaches, AttachSteps
  <2>5. CASE ClaimSegment(c)
    <3>1. attach[c].step = "claim" /\ segment[attach[c].of].magic
      BY <2>5 DEF ClaimSegment, Attaches, SegmentInv, AttachInv
    <3>2. QED
      BY <2>2, <2>5, <3>1 DEF ClaimSegment, Attaches, AttachSteps
  <2>6. CASE ConnectGivesUp(c)
    BY <2>2, <2>6 DEF ConnectGivesUp, Attaches, AttachSteps
  <2>7. QED
    BY <2>1, <2>3, <2>4, <2>5, <2>6
<1>5. /\ attach' \in [Connectors -> AttachRecord] /\ attach'[c] = r
      /\ \A d \in Connectors : d # c => attach'[d] = attach[d]
  BY <1>3, <1>4
<1>6. SegmentTyped'
  BY <1>1, <1>2, <1>5 DEF SegmentInv, SegmentTyped
<1>7. NumberInv'
  BY <1>1 DEF SegmentInv, NumberInv, Numbered
<1>8. ListenerInv'
  BY <1>1 DEF SegmentInv, ListenerInv
<1>9. AttachInv'
  BY <1>1, <1>4, <1>5 DEF SegmentInv, AttachInv
<1>10. NameInv'
  BY <1>1, <1>2 DEF SegmentInv, NameInv, AtWork
<1>11. QED
  BY <1>6, <1>7, <1>8, <1>9, <1>10 DEF SegmentInv

\* A process dies with its listeners, in whatever step they are.
LEMMA HostDiesStep ==
  ASSUME SegmentInv, SegmentNext, NEW h \in Hosts, HostDies(h)
  PROVE  SegmentInv'
<1>1. UNCHANGED <<named, segment, attach>> /\ within' = within /\ host' = [host EXCEPT ![h] = "zombie"]
      /\ listen' = [l \in Listeners |-> IF within[l] = h THEN [listen[l] EXCEPT !.step = "dead"] ELSE listen[l]]
  BY CrowdedStep DEF HostDies
<1>2. crowded' \in BOOLEAN /\ (~crowded' => ~crowded /\ \A l, k \in AtWork' : l = k)
  BY CrowdedStep
<1>3. ASSUME NEW l \in Listeners
      PROVE  /\ listen'[l] \in ListenRecord /\ listen'[l].of = listen[l].of /\ listen'[l].old = listen[l].old
             /\ listen'[l].owns = listen[l].owns
             /\ IF within[l] = h THEN listen'[l].step = "dead" ELSE listen'[l].step = listen[l].step
  <2>1. listen[l] \in [step : ListenSteps, of : {0} \cup Segments, old : {0} \cup Segments, owns : BOOLEAN]
    BY SegmentFacts DEF ListenRecord
  <2>2. QED
    BY <1>1, <2>1 DEF ListenRecord, ListenSteps
<1>4. SegmentTyped'
  <2>1. listen' \in [Listeners -> ListenRecord]
    BY <1>1, <1>3
  <2>2. QED
    BY <1>1, <1>2, <2>1 DEF SegmentInv, SegmentTyped
<1>5. NumberInv'
  <2>1. Numbered' = Numbered
    BY <1>3 DEF Numbered
  <2>2. QED
    BY <1>3, <2>1 DEF SegmentInv, NumberInv
<1>6. ListenerInv'
  <2> SUFFICES ASSUME NEW l \in Listeners
               PROVE  /\ listen'[l].step # "dead" => host'[within[l]] = "running"
                      /\ listen'[l].step \in {"initialise", "magic", "ready"} => segment[listen'[l].of].sized
                      /\ listen'[l].step \in {"magic", "ready"} =>
                           segment[listen'[l].of].ready /\ segment[listen'[l].of].pid = {within[l]}
                      /\ listen'[l].step = "ready" => segment[listen'[l].of].magic
                      /\ listen'[l].step = "closed" => ~listen'[l].owns
                      /\ listen'[l].step = "check" => listen'[l].old # 0
    BY <1>1 DEF ListenerInv
  <2>1. CASE within[l] = h
    BY <1>3, <2>1
  <2>2. CASE within[l] # h
    <3>1. host'[within[l]] = host[within[l]]
      BY <1>1, <2>2 DEF SegmentInv, SegmentTyped
    <3>2. QED
      BY <1>3, <2>2, <3>1 DEF SegmentInv, ListenerInv
  <2>3. QED
    BY <2>1, <2>2
<1>7. AttachInv'
  BY <1>1 DEF SegmentInv, AttachInv
<1>8. NameInv'
  <2> SUFFICES ASSUME ~crowded' PROVE NameInv'
    BY DEF NameInv
  <2>1. \A l \in Listeners : listen'[l].step # "dead" => listen'[l].step = listen[l].step
    BY <1>3
  <2>2. QED
    BY <1>1, <1>2, <1>3, <2>1 DEF SegmentInv, NameInv
<1>9. QED
  BY <1>4, <1>5, <1>6, <1>7, <1>8 DEF SegmentInv

\* A process that is reaped is gone; its listeners were dead before.
LEMMA HostReapedStep ==
  ASSUME SegmentInv, SegmentNext, NEW h \in Hosts, HostReaped(h)
  PROVE  SegmentInv'
<1>1. UNCHANGED <<named, segment, listen, attach>> /\ within' = within /\ host' = [host EXCEPT ![h] = "gone"]
      /\ host[h] = "zombie" /\ host \in [Hosts -> {"running", "zombie", "gone"}]
  BY CrowdedStep DEF HostReaped, SegmentInv, SegmentTyped
<1>2. crowded' \in BOOLEAN /\ (~crowded' => ~crowded)
  BY CrowdedStep
<1>3. \A k \in Hosts : host[k] = "running" => host'[k] = "running"
  BY <1>1
<1>4. SegmentTyped'
  BY <1>1, <1>2 DEF SegmentInv, SegmentTyped
<1>5. ListenerInv'
  BY <1>1, <1>3 DEF SegmentInv, SegmentTyped, ListenerInv
<1>6. NumberInv' /\ AttachInv'
  BY <1>1 DEF SegmentInv, NumberInv, Numbered, AttachInv
<1>7. NameInv'
  BY <1>1, <1>2 DEF SegmentInv, NameInv, AtWork
<1>8. QED
  BY <1>4, <1>5, <1>6, <1>7 DEF SegmentInv

\* Every step keeps the invariant of the name.
LEMMA SegmentStep == SegmentInv /\ [SegmentNext]_segmentVars => SegmentInv'
<1>1. ASSUME SegmentInv, UNCHANGED segmentVars PROVE SegmentInv'
  BY <1>1 DEF segmentVars, SegmentInv, SegmentTyped, NumberInv, Numbered, ListenerInv, AttachInv, NameInv, AtWork
<1>2. ASSUME SegmentInv, SegmentNext PROVE SegmentInv'
  BY <1>2, ListenCallStep, CheckStep, UnlinkStaleStep, CreateStep, WritingSteps, UnlinkNameStep, DestroyStep,
     ConnectSteps, HostDiesStep, HostReapedStep DEF SegmentNext
<1>3. QED
  BY <1>1, <1>2

\* The invariant says that names are kept.
LEMMA SegmentImplies == SegmentInv => NameIsKept
<1> SUFFICES ASSUME SegmentInv PROVE NameIsKept
  OBVIOUS
<1>1. ~crowded => \A l \in Listeners : listen[l].step = "ready" => named = listen[l].of
  BY DEF SegmentInv, NameInv
<1>2. ASSUME NEW c \in Connectors, attach[c].step = "attached" PROVE segment[attach[c].of].ready
  <2>1. attach[c].of \in Segments /\ segment[attach[c].of].magic
    BY <1>2 DEF SegmentInv, SegmentTyped, AttachRecord, AttachInv
  <2>2. QED
    BY <2>1 DEF SegmentInv, AttachInv
<1>3. QED
  BY <1>1, <1>2 DEF NameIsKept
-----------------------------------------------------------------------------
(***************************************************************************)
(* The radio's transport: records on a connection.                         *)
(***************************************************************************)
\* What is known of a sequence and its elements.
LEMMA SequenceFacts ==
  ASSUME NEW S, NEW q \in Seq(S)
  PROVE  Len(q) \in Nat /\ DOMAIN q = 1 .. Len(q) /\ \A n \in DOMAIN q : n \in Nat /\ q[n] \in S
OBVIOUS

ControlRecord == [id : Nat, size : Nat, offset : Nat, cancel : BOOLEAN, late : BOOLEAN]
CarriedRecord == [id : Nat, size : Nat, cells : Nat]
\* The queue is in the order of submission, and only its head may have been begun.
Queued(q, n) ==
  /\ q \in Seq(ControlRecord)
  /\ \A i \in DOMAIN q : q[i].id < n /\ q[i].offset < q[i].size /\ (i > 1 => q[i].offset = 0)
  /\ \A i, j \in DOMAIN q : i < j => q[i].id < q[j].id
Unbegun(q) == \A i \in DOMAIN q : q[i].offset = 0
\* The connection has carried whole records, older than those that wait.
Clean(s, q) ==
  /\ Unbegun(q)
  /\ s # <<>> => /\ s[Len(s)].cells = s[Len(s)].size
                 /\ \A i \in DOMAIN q : s[Len(s)].id < q[i].id
\* The connection has carried a part of the first of those that wait.
Begun(s, q) ==
  /\ s # <<>> /\ q # <<>>
  /\ s[Len(s)].id = q[1].id /\ s[Len(s)].size = q[1].size /\ s[Len(s)].cells = q[1].offset
WholeRecords(s) == \A i \in 1 .. Len(s) - 1 : s[i].cells = s[i].size /\ s[i].id < s[i + 1].id
RecordInv ==
  /\ nextControl \in Nat /\ failedTls \in BOOLEAN
  /\ Queued(controls, nextControl)
  /\ peer # "bound" => Unbegun(controls)
  /\ stream \in Seq(CarriedRecord) /\ WholeRecords(stream) /\ \A i \in DOMAIN stream : stream[i].id < nextControl
  /\ peer = "bound" /\ ~failedTls => Clean(stream, controls) \/ Begun(stream, controls)

\* The radio's transport begins in its invariant.
LEMMA RadioInitially == RadioInit => RecordInv
<1> SUFFICES ASSUME RadioInit PROVE RecordInv
  OBVIOUS
<1>1. Queued(controls, nextControl) /\ Unbegun(controls) /\ WholeRecords(stream) /\ stream \in Seq(CarriedRecord)
  BY DEF RadioInit, Queued, Unbegun, WholeRecords
<1>2. failedTls \in BOOLEAN
  BY Zenon DEF RadioInit
<1>3. QED
  BY <1>1, <1>2 DEF RadioInit, RecordInv

\* A queue that is empty satisfies every condition on queues.
LEMMA QueueEmpty == \A n, s : Queued(<<>>, n) /\ Unbegun(<<>>) /\ (s = <<>> => Clean(s, <<>>))
  BY DEF Queued, Unbegun, Clean

\* What is left of a queue whose head is written.
LEMMA QueueTail ==
  ASSUME NEW q, NEW n \in Nat, Queued(q, n), q # <<>>
  PROVE  /\ Queued(Tail(q), n) /\ Unbegun(Tail(q)) /\ q[1] \in ControlRecord /\ Head(q) = q[1] /\ 1 \in DOMAIN q
         /\ \A i \in DOMAIN Tail(q) : q[1].id < Tail(q)[i].id
<1>1. q \in Seq(ControlRecord) /\ Len(q) \in Nat /\ Len(q) >= 1 /\ DOMAIN q = 1 .. Len(q)
  BY SequenceFacts DEF Queued
<1>2. /\ Tail(q) \in Seq(ControlRecord) /\ DOMAIN Tail(q) = 1 .. Len(q) - 1
      /\ \A i \in 1 .. Len(q) - 1 : Tail(q)[i] = q[i + 1]
  BY <1>1
<1>3. \A i \in 1 .. Len(q) - 1 : i + 1 \in DOMAIN q /\ i + 1 > 1 /\ i \in Nat
  BY <1>1
<1>4. Unbegun(Tail(q))
  BY <1>2, <1>3 DEF Queued, Unbegun
<1>5. \A i \in DOMAIN Tail(q) : Tail(q)[i].id < n /\ Tail(q)[i].offset < Tail(q)[i].size
  BY <1>2, <1>3 DEF Queued
<1>6. \A i, j \in DOMAIN Tail(q) : i < j => Tail(q)[i].id < Tail(q)[j].id
  <2>1. \A i, j \in 1 .. Len(q) - 1 : i < j => i + 1 < j + 1
    BY <1>1
  <2>2. QED
    BY <1>2, <1>3, <2>1 DEF Queued
<1>7. Queued(Tail(q), n)
  BY <1>2, <1>4, <1>5, <1>6 DEF Queued, Unbegun
<1>8. \A i \in DOMAIN Tail(q) : q[1].id < Tail(q)[i].id
  <2>1. 1 \in DOMAIN q
    BY <1>1
  <2>2. \A i \in 1 .. Len(q) - 1 : 1 < i + 1
    BY <1>1
  <2>3. QED
    BY <1>2, <1>3, <2>1, <2>2 DEF Queued
<1>9. QED
  BY <1>1, <1>4, <1>7, <1>8

\* What a submission adds to the queue.
LEMMA QueueAppend ==
  ASSUME NEW q, NEW n \in Nat, Queued(q, n), NEW r \in ControlRecord, r.id = n, r.offset = 0, r.size > 0
  PROVE  /\ Queued(Append(q, r), n + 1)
         /\ Unbegun(q) => Unbegun(Append(q, r))
         /\ \A i \in DOMAIN q : i \in DOMAIN Append(q, r) /\ Append(q, r)[i] = q[i]
         /\ \A i \in DOMAIN Append(q, r) : i \in DOMAIN q \/ Append(q, r)[i] = r
         /\ Append(q, r) # <<>>
<1>1. q \in Seq(ControlRecord) /\ Len(q) \in Nat /\ DOMAIN q = 1 .. Len(q) /\ \A i \in DOMAIN q : i \in Nat /\ q[i] \in ControlRecord
  BY SequenceFacts DEF Queued
<1> DEFINE a == Append(q, r)
           k == Len(q) + 1
<1>2. /\ a \in Seq(ControlRecord) /\ DOMAIN a = DOMAIN q \cup {k} /\ a[k] = r
      /\ \A i \in DOMAIN q : a[i] = q[i] /\ i < k
      /\ k \in Nat /\ a # <<>>
  BY <1>1
<1>d. ASSUME NEW i \in DOMAIN q
      PROVE  /\ q[i].id < n /\ q[i].id < n + 1 /\ q[i].offset < q[i].size
             /\ i > 1 => q[i].offset = 0
  <2>1. q[i] \in ControlRecord
    BY <1>1
  <2>2. q[i].id \in Nat
    BY <2>1 DEF ControlRecord
  <2>3. QED
    BY <2>2 DEF Queued
<1>e. r.id < n + 1 /\ r.offset < r.size
  OBVIOUS
<1> HIDE DEF a, k
<1>3. \A i \in DOMAIN a : a[i].id < n + 1 /\ a[i].offset < a[i].size /\ (i > 1 => a[i].offset = 0)
  <2> SUFFICES ASSUME NEW i \in DOMAIN a
               PROVE  a[i].id < n + 1 /\ a[i].offset < a[i].size /\ (i > 1 => a[i].offset = 0)
    OBVIOUS
  <2>1. CASE i \in DOMAIN q
    <3>1. a[i] = q[i]
      BY <1>2, <2>1
    <3>2. q[i].id < n + 1 /\ q[i].offset < q[i].size /\ (i > 1 => q[i].offset = 0)
      BY <1>d, <2>1
    <3>3. QED
      BY <3>1, <3>2, Zenon
  <2>2. CASE i = k
    <3>1. a[i] = r
      BY <1>2, <2>2
    <3>2. QED
      BY <1>e, <3>1
  <2>3. QED
    BY <1>2, <2>1, <2>2
<1>4. \A i, j \in DOMAIN a : i < j => a[i].id < a[j].id
  <2> SUFFICES ASSUME NEW i \in DOMAIN a, NEW j \in DOMAIN a, i < j PROVE a[i].id < a[j].id
    OBVIOUS
  <2>1. i \in DOMAIN q
    BY <1>1, <1>2
  <2>2. CASE j \in DOMAIN q
    <3>1. a[i] = q[i] /\ a[j] = q[j]
      BY <1>2, <2>1, <2>2
    <3>2. QED
      BY <2>1, <2>2, <3>1 DEF Queued
  <2>3. CASE j = k
    <3>1. a[i] = q[i] /\ a[j] = r
      BY <1>2, <2>1, <2>3
    <3>2. q[i].id < n
      BY <1>d, <2>1
    <3>3. QED
      BY <3>1, <3>2, Zenon
  <2>4. QED
    BY <1>2, <2>2, <2>3
<1>5. Queued(a, n + 1)
  BY <1>2, <1>3, <1>4 DEF Queued
<1>6. Unbegun(q) => Unbegun(a)
  BY <1>2 DEF Unbegun
<1>7. QED
  BY <1>2, <1>5, <1>6 DEF a

\* The control that waits first, and its types.
LEMMA WaitsFacts ==
  ASSUME RecordInv
  PROVE  /\ Queued(Waits, nextControl) /\ (peer # "bound" => Unbegun(Waits))
         /\ Broken => Waits = <<>>
         /\ ~Broken => ~failedTls /\ Waits = controls
         /\ Broken \in BOOLEAN
<1>1. Broken \in BOOLEAN
  BY Zenon DEF Broken, RecordInv
<1>2. QED
  BY <1>1, QueueEmpty DEF RecordInv, Waits, Broken

\* A submission keeps the records whole.
LEMMA SubmitStep ==
  ASSUME RecordInv, NEW size \in 1 .. RecordSize, NEW cancel \in BOOLEAN, SendControl(size, cancel)
  PROVE  RecordInv'
<1> DEFINE r == [id |-> nextControl, size |-> size, offset |-> 0, cancel |-> cancel, late |-> FALSE]
<1>1. r \in ControlRecord /\ r.id = nextControl /\ r.offset = 0 /\ r.size > 0 /\ nextControl \in Nat
  BY DEF ControlRecord, RecordInv
<1>2. /\ controls' = Append(controls, r) /\ nextControl' = nextControl + 1
      /\ UNCHANGED <<peer, failedTls, stream>>
  BY DEF SendControl, clientVars
<1> HIDE DEF r
<1>3. /\ Queued(controls', nextControl') /\ (Unbegun(controls) => Unbegun(controls'))
      /\ \A i \in DOMAIN controls : i \in DOMAIN controls' /\ controls'[i] = controls[i]
      /\ \A i \in DOMAIN controls' : i \in DOMAIN controls \/ controls'[i] = r
      /\ controls' # <<>>
  BY <1>1, <1>2, QueueAppend DEF RecordInv
<1>4. stream \in Seq(CarriedRecord) /\ stream' = stream /\ \A i \in DOMAIN stream : stream[i].id < nextControl
  BY <1>2 DEF RecordInv
<1>5. stream # <<>> => Len(stream) \in DOMAIN stream
  BY <1>4, SequenceFacts
<1>6. Clean(stream, controls) => Clean(stream', controls')
  BY <1>1, <1>3, <1>4, <1>5 DEF Clean
<1>7. Begun(stream, controls) => Begun(stream', controls')
  <2>1. controls # <<>> => 1 \in DOMAIN controls
    BY SequenceFacts DEF RecordInv, Queued
  <2>2. QED
    BY <1>3, <1>4, <2>1 DEF Begun
<1>8. \A i \in DOMAIN stream' : stream'[i].id < nextControl'
  <2>1. \A i \in DOMAIN stream : stream[i].id \in Nat
    <3>1. \A i \in DOMAIN stream : stream[i] \in CarriedRecord
      BY <1>4, SequenceFacts
    <3>2. QED
      BY <3>1 DEF CarriedRecord
  <2>2. QED
    BY <1>1, <1>2, <1>4, <2>1
<1>9. QED
  BY <1>1, <1>2, <1>3, <1>4, <1>6, <1>7, <1>8 DEF RecordInv

\* What SSL_write does to the connection and the queue (host.cpp:129-180).
LEMMA WriteStep ==
  ASSUME RecordInv, ProgressWrite
  PROVE  RecordInv'
<1>1. /\ ~failedTls /\ Waits = controls /\ controls # <<>> /\ peer = "bound" /\ failedTls' = FALSE
      /\ peer' = peer /\ nextControl' = nextControl /\ nextControl \in Nat /\ Queued(controls, nextControl)
      /\ stream \in Seq(CarriedRecord) /\ WholeRecords(stream) /\ \A i \in DOMAIN stream : stream[i].id < nextControl
      /\ Clean(stream, controls) \/ Begun(stream, controls)
  <2>1. ~Broken
    BY WaitsFacts DEF ProgressWrite
  <2>2. failedTls' = FALSE
    BY <2>1, WaitsFacts, Zenon DEF ProgressWrite
  <2>3. QED
    BY <2>1, <2>2, WaitsFacts DEF ProgressWrite, ProgressEnds, clientVars, RecordInv
<1> DEFINE r == controls[1]
<1>2. /\ r \in ControlRecord /\ Head(controls) = r /\ 1 \in DOMAIN controls
      /\ Queued(Tail(controls), nextControl) /\ Unbegun(Tail(controls))
      /\ \A i \in DOMAIN Tail(controls) : r.id < Tail(controls)[i].id
  BY <1>1, QueueTail
<1>3. r.id \in Nat /\ r.size \in Nat /\ r.offset \in Nat /\ r.offset < r.size /\ r.id < nextControl
  BY <1>1, <1>2 DEF ControlRecord, Queued
<1>4. PICK n \in 0 .. r.size - r.offset :
        /\ controls' = IF r.offset + n = r.size THEN Tail(controls) ELSE [controls EXCEPT ![1].offset = @ + n]
        /\ stream' = IF n = 0 THEN stream ELSE Carried(r, n)
  BY <1>1, <1>2 DEF ProgressWrite
<1>5. CASE n = 0
  <2>1. stream' = stream
    BY <1>4, <1>5
  <2>2. controls' = controls
    <3>1. r.offset + n # r.size /\ r.offset + n = r.offset
      BY <1>3, <1>5
    <3>2. controls' = [controls EXCEPT ![1].offset = @ + n]
      BY <1>4, <3>1
    <3>3. controls' = [controls EXCEPT ![1] = [controls[1] EXCEPT !.offset = @ + n]]
      BY <3>2
    <3>4. [r EXCEPT !.offset = @ + n] = r
      BY <1>2, <3>1 DEF ControlRecord
    <3>5. QED
      BY <1>1, <1>2, <3>3, <3>4 DEF Queued
  <2>3. QED
    BY <1>1, <2>1, <2>2 DEF RecordInv
<1>6. CASE n # 0
  <2> DEFINE m == Len(stream)
             c == r.offset + n
  <2>1. n \in Nat /\ n > 0 /\ c \in Nat /\ c <= r.size /\ c > 0
    BY <1>3, <1>6
  <2>2. stream' = Carried(r, n)
    BY <1>4, <1>6
  <2>3. /\ stream' \in Seq(CarriedRecord) /\ WholeRecords(stream') /\ stream' # <<>>
        /\ stream'[Len(stream')].id = r.id /\ stream'[Len(stream')].size = r.size /\ stream'[Len(stream')].cells = c
        /\ \A i \in DOMAIN stream' : stream'[i].id < nextControl
    <3>1. m \in Nat /\ DOMAIN stream = 1 .. m /\ \A i \in DOMAIN stream : i \in Nat /\ stream[i] \in CarriedRecord
      BY <1>1, SequenceFacts
    <3>2. CASE stream # <<>> /\ stream[m].id = r.id
      <4>1. m \in DOMAIN stream
        BY <3>1, <3>2
      <4>2. Begun(stream, controls)
        <5>1. ~Clean(stream, controls)
          BY <1>2, <1>3, <3>2 DEF Clean
        <5>2. QED
          BY <1>1, <5>1
      <4>3. stream[m].size = r.size /\ stream[m].cells = r.offset
        BY <4>2 DEF Begun
      <4>4. stream' = [stream EXCEPT ![m].cells = @ + n]
        BY <2>2, <3>2 DEF Carried
      <4> DEFINE last == [stream[m] EXCEPT !.cells = @ + n]
      <4>5. last \in CarriedRecord /\ last.id = r.id /\ last.size = r.size /\ last.cells = c
        BY <2>1, <3>1, <3>2, <4>1, <4>3 DEF CarriedRecord
      <4>6. stream' = [stream EXCEPT ![m] = last]
        BY <4>4
      <4> HIDE DEF last
      <4>7. /\ stream' \in Seq(CarriedRecord) /\ Len(stream') = m /\ stream'[m] = last
            /\ \A i \in 1 .. m - 1 : stream'[i] = stream[i]
        BY <1>1, <3>1, <4>1, <4>5, <4>6
      <4>8. WholeRecords(stream')
        <5> SUFFICES ASSUME NEW i \in 1 .. m - 1
                     PROVE  stream'[i].cells = stream'[i].size /\ stream'[i].id < stream'[i + 1].id
          BY <4>7 DEF WholeRecords
        <5>1. stream[i].cells = stream[i].size /\ stream[i].id < stream[i + 1].id
          BY <1>1 DEF WholeRecords
        <5>2. stream'[i] = stream[i]
          BY <4>7
        <5>3. stream'[i + 1].id = stream[i + 1].id
          <6>1. i + 1 = m \/ i + 1 \in 1 .. m - 1
            BY <3>1
          <6>2. QED
            BY <3>2, <4>5, <4>7, <6>1
        <5>4. QED
          BY <5>1, <5>2, <5>3
      <4>9. \A i \in DOMAIN stream' : stream'[i].id < nextControl
        <5>1. DOMAIN stream' = 1 .. m /\ 1 .. m = (1 .. m - 1) \cup {m}
          BY <3>1, <4>1, <4>6
        <5>2. QED
          BY <1>1, <1>3, <3>1, <4>5, <4>7, <5>1
      <4>10. QED
        BY <3>1, <4>1, <4>5, <4>7, <4>8, <4>9
    <3>3. CASE ~(stream # <<>> /\ stream[m].id = r.id)
      <4>1. Clean(stream, controls)
        BY <1>1, <3>3 DEF Begun
      <4>2. r.offset = 0
        BY <1>2, <4>1 DEF Clean, Unbegun
      <4> DEFINE new == [id |-> r.id, size |-> r.size, cells |-> n]
      <4>3. new \in CarriedRecord /\ new.id = r.id /\ new.size = r.size /\ new.cells = c
        BY <1>3, <2>1, <4>2 DEF CarriedRecord
      <4>4. stream' = Append(stream, new)
        BY <2>2, <3>3 DEF Carried
      <4> HIDE DEF new
      <4>5. /\ stream' \in Seq(CarriedRecord) /\ Len(stream') = m + 1 /\ stream'[m + 1] = new /\ stream' # <<>>
            /\ \A i \in 1 .. m : stream'[i] = stream[i]
            /\ DOMAIN stream' = (1 .. m) \cup {m + 1}
        BY <1>1, <3>1, <4>3, <4>4
      <4>6. WholeRecords(stream')
        <5> SUFFICES ASSUME NEW i \in 1 .. m
                     PROVE  stream'[i].cells = stream'[i].size /\ stream'[i].id < stream'[i + 1].id
          BY <3>1, <4>5 DEF WholeRecords
        <5>1. stream'[i] = stream[i]
          BY <4>5
        <5>2. CASE i = m
          <6>1. stream # <<>>
            BY <3>1, <5>2
          <6>2. QED
            BY <1>2, <4>1, <4>3, <4>5, <5>1, <5>2, <6>1 DEF Clean
        <5>3. CASE i \in 1 .. m - 1
          <6>1. i + 1 \in 1 .. m
            BY <3>1, <5>3
          <6>2. QED
            BY <1>1, <4>5, <5>1, <5>3, <6>1 DEF WholeRecords
        <5>4. i = m \/ i \in 1 .. m - 1
          <6>1. \A x \in Nat : \A y \in 1 .. x : y = x \/ y \in 1 .. x - 1
            OBVIOUS
          <6>2. m \in Nat
            BY <3>1
          <6> HIDE DEF m
          <6>3. QED
            BY <6>1, <6>2
        <5>5. QED
          BY <5>2, <5>3, <5>4
      <4>7. \A i \in DOMAIN stream' : stream'[i].id < nextControl
        BY <1>1, <1>3, <3>1, <4>3, <4>5
      <4>8. QED
        BY <4>3, <4>5, <4>6, <4>7
    <3>4. QED
      BY <3>2, <3>3
  <2> HIDE DEF c
  <2>4. CASE c = r.size
    <3>1. controls' = Tail(controls)
      BY <1>4, <2>4 DEF c
    <3>2. Clean(stream', controls')
      BY <1>2, <2>3, <2>4, <3>1 DEF Clean
    <3>3. QED
      BY <1>1, <1>2, <2>3, <3>1, <3>2 DEF RecordInv
  <2>5. CASE c # r.size
    <3> DEFINE first == [r EXCEPT !.offset = @ + n]
    <3>1. controls' = [controls EXCEPT ![1] = first]
      <4>1. controls' = [controls EXCEPT ![1].offset = @ + n]
        BY <1>4, <2>5 DEF c
      <4>2. QED
        BY <4>1
    <3>2. first \in ControlRecord /\ first.id = r.id /\ first.size = r.size /\ first.offset = c
      BY <1>2, <2>1 DEF ControlRecord, c
    <3> HIDE DEF first
    <3>3. controls \in Seq(ControlRecord) /\ Len(controls) \in Nat /\ DOMAIN controls = 1 .. Len(controls)
      BY <1>1, SequenceFacts DEF Queued
    <3>4. /\ controls' \in Seq(ControlRecord) /\ DOMAIN controls' = DOMAIN controls /\ controls'[1] = first
          /\ \A i \in DOMAIN controls : i # 1 => controls'[i] = controls[i]
      BY <1>2, <3>1, <3>2, <3>3
    <3>5. \A i \in DOMAIN controls' : controls'[i].id = controls[i].id /\ controls'[i].size = controls[i].size
      BY <3>2, <3>4
    <3>6. c < r.size
      BY <1>3, <2>1, <2>5
    <3>7. Queued(controls', nextControl)
      <4>1. \A i \in DOMAIN controls' :
               controls'[i].id < nextControl /\ controls'[i].offset < controls'[i].size /\ (i > 1 => controls'[i].offset = 0)
        BY <1>1, <3>2, <3>4, <3>5, <3>6 DEF Queued
      <4>2. \A i, j \in DOMAIN controls' : i < j => controls'[i].id < controls'[j].id
        BY <1>1, <3>4, <3>5 DEF Queued
      <4>3. QED
        BY <3>4, <4>1, <4>2 DEF Queued
    <3>8. Begun(stream', controls')
      <4>1. controls' # <<>>
        BY <1>2, <3>4
      <4>2. QED
        BY <2>3, <3>2, <3>4, <4>1 DEF Begun
    <3>9. QED
      BY <1>1, <2>3, <3>7, <3>8 DEF RecordInv
  <2>6. QED
    BY <2>4, <2>5
<1>7. QED
  BY <1>5, <1>6

\* A poll that writes and reads keeps the records whole.
LEMMA ProgressStep ==
  ASSUME RecordInv, Progress
  PROVE  RecordInv'
<1>1. CASE ProgressWrite
  BY <1>1, WriteStep
<1>2. CASE ProgressDatagram \/ ProgressIdle
  <2>1. controls' = Waits /\ failedTls' = Broken /\ UNCHANGED <<peer, stream, nextControl>>
    BY <1>2 DEF ProgressDatagram, ProgressIdle, ProgressEnds, clientVars
  <2>2. failedTls' \in BOOLEAN
    BY <2>1, WaitsFacts, Zenon
  <2>3. ~failedTls' => ~Broken
    BY <2>1, WaitsFacts, Zenon
  <2>4. QED
    BY <2>1, <2>2, <2>3, WaitsFacts DEF RecordInv
<1>3. CASE ProgressUnconnected \/ ProgressFails
  <2>1. controls' = Tail(Waits) /\ Waits # <<>> /\ UNCHANGED <<peer, stream, nextControl>>
    BY <1>3 DEF ProgressUnconnected, ProgressFails, ProgressEnds, clientVars
  <2>4. failedTls' \in BOOLEAN /\ (peer = "bound" => failedTls')
    BY <1>3, Zenon DEF ProgressUnconnected, ProgressFails
  <2>2. Queued(Tail(Waits), nextControl) /\ Unbegun(Tail(Waits))
    BY <2>1, WaitsFacts, QueueTail DEF RecordInv
  <2>3. QED
    BY <2>1, <2>2, <2>4 DEF RecordInv
<1>4. QED
  BY <1>1, <1>2, <1>3 DEF Progress

\* A control that expires was not begun, or breaks the connection.
LEMMA ExpireStep ==
  ASSUME RecordInv, RecordExpires
  PROVE  RecordInv'
<1>1. PICK k \in DOMAIN controls : controls' = [controls EXCEPT ![k].late = TRUE]
  BY DEF RecordExpires
<1>2. UNCHANGED <<peer, stream, nextControl, failedTls>>
  BY DEF RecordExpires, clientVars
<1>3. controls \in Seq(ControlRecord) /\ Len(controls) \in Nat /\ DOMAIN controls = 1 .. Len(controls)
  BY SequenceFacts DEF RecordInv, Queued
<1> DEFINE e == [controls[k] EXCEPT !.late = TRUE]
<1>4. controls[k] \in ControlRecord
  BY <1>1, <1>3
<1>5. /\ e \in ControlRecord /\ e.id = controls[k].id /\ e.size = controls[k].size /\ e.offset = controls[k].offset
  BY <1>4 DEF ControlRecord
<1>6. controls' = [controls EXCEPT ![k] = e]
  BY <1>1
<1> HIDE DEF e
<1>7. /\ controls' \in Seq(ControlRecord) /\ DOMAIN controls' = DOMAIN controls /\ Len(controls') = Len(controls)
      /\ \A i \in DOMAIN controls : /\ controls'[i].id = controls[i].id /\ controls'[i].size = controls[i].size
                                    /\ controls'[i].offset = controls[i].offset
  <2>1. /\ controls' \in Seq(ControlRecord) /\ DOMAIN controls' = DOMAIN controls /\ Len(controls') = Len(controls)
        /\ controls'[k] = e /\ \A i \in DOMAIN controls : i # k => controls'[i] = controls[i]
    <3>1. DOMAIN controls' = DOMAIN controls /\ controls'[k] = e /\ \A i \in DOMAIN controls : i # k => controls'[i] = controls[i]
      BY <1>1, <1>6
    <3>2. controls' \in Seq(ControlRecord) /\ Len(controls') = Len(controls)
      <4>1. k \in 1 .. Len(controls)
        BY <1>1, <1>3
      <4>2. [controls EXCEPT ![k] = e] \in Seq(ControlRecord) /\ Len([controls EXCEPT ![k] = e]) = Len(controls)
        BY <1>3, <1>5, <4>1, ExceptSeq, Zenon
      <4>3. QED
        BY <1>6, <4>2, Zenon
    <3>3. QED
      BY <3>1, <3>2
  <2>2. QED
    BY <1>5, <2>1, Zenon
<1>8. Queued(controls', nextControl) /\ (Unbegun(controls) => Unbegun(controls'))
  BY <1>7 DEF RecordInv, Queued, Unbegun
<1>9. Clean(stream, controls) => Clean(stream, controls')
  BY <1>7, <1>8 DEF Clean
<1>10. Begun(stream, controls) => Begun(stream, controls')
  <2>1. controls # <<>> => 1 \in DOMAIN controls /\ controls' # <<>>
    BY <1>3, <1>7
  <2>2. QED
    BY <1>7, <2>1 DEF Begun
<1>11. QED
  BY <1>2, <1>8, <1>9, <1>10 DEF RecordInv

\* A connection that is dropped takes what it carried with it.
LEMMA DropStep ==
  ASSUME RecordInv, peer' = "none", controls' = <<>>, UNCHANGED <<failedTls, nextControl, stream>>
  PROVE  RecordInv'
  BY QueueEmpty DEF RecordInv

\* Every step of the radio's transport keeps its invariant.
LEMMA RadioStep == RecordInv /\ [RadioNext]_radioVars => RecordInv'
<1> SUFFICES ASSUME RecordInv, [RadioNext]_radioVars PROVE RecordInv'
  OBVIOUS
<1>1. CASE UNCHANGED <<peer, controls, failedTls, nextControl, stream>>
  BY <1>1 DEF RecordInv
<1>2. CASE peer # "bound" /\ peer' # "bound" /\ UNCHANGED <<controls, failedTls, nextControl, stream>>
  BY <1>2 DEF RecordInv
<1>3. CASE \E size \in 1 .. RecordSize, cancel \in BOOLEAN : SendControl(size, cancel)
  BY <1>3, SubmitStep
<1>4. CASE Progress \/ RecordExpires
  BY <1>4, ProgressStep, ExpireStep
<1>5. CASE AcceptClient
  BY <1>1, <1>2, <1>5 DEF AcceptClient, clientVars, queueVars
<1>6. CASE NoClient \/ ServeClient \/ ReceiveNothing \/ ReceiveBytes
  BY <1>1, <1>6 DEF NoClient, ServeClient, ReceiveNothing, ReceiveBytes, clientVars, queueVars
<1>7. CASE ReceiveFails
  BY <1>7, DropStep DEF ReceiveFails, DropClient
<1>8. CASE Greet
  <2>1. CASE DropClient
    BY <2>1, DropStep DEF DropClient
  <2>2. CASE UNCHANGED <<clientVars, failedTls, queueVars, stream>>
    BY <1>1, <2>2 DEF clientVars, queueVars
  <2>3. CASE peer = "greeting" /\ peer' = "bound" /\ failedTls' = FALSE /\ stream' = <<>> /\ UNCHANGED queueVars
    <3>1. Unbegun(controls') /\ controls' = controls /\ nextControl' = nextControl
      BY <2>3 DEF RecordInv, queueVars
    <3>2. Clean(stream', controls') /\ WholeRecords(stream') /\ stream' \in Seq(CarriedRecord)
      BY <2>3, <3>1 DEF Clean, WholeRecords
    <3>3. QED
      <4>1. failedTls' \in BOOLEAN
        BY <2>3, Zenon
      <4>2. DOMAIN stream' = {}
        BY <2>3
      <4>3. QED
        BY <2>3, <3>1, <3>2, <4>1, <4>2 DEF RecordInv
  <2>4. QED
    BY <1>8, <2>1, <2>2, <2>3 DEF Greet
<1>9. CASE StopRadio
  BY <1>9, DropStep DEF StopRadio
<1>10. CASE Release \/ SendDatagram \/ GreetingExpires \/ InputAges \/ UNCHANGED radioVars
  BY <1>1, <1>10 DEF Release, SendDatagram, GreetingExpires, InputAges, radioVars, clientVars, queueVars
<1>11. QED
  BY <1>3, <1>4, <1>5, <1>6, <1>7, <1>8, <1>9, <1>10 DEF RadioNext, Turn, Client

\* The invariant says that records are whole.
LEMMA RadioImplies == RecordInv => RecordsAreWhole
  BY DEF RecordInv, WholeRecords, RecordsAreWhole
-----------------------------------------------------------------------------
(***************************************************************************)
(* Streams: the types, and what each step does to a connection.            *)
(***************************************************************************)
\* The connections of a behaviour, and what the kernel knows of each
Links == 1 .. MaxConns
Connection == [bytes : Seq(Cells), out : {"none", "open", "closed"},
               in : {"none", "backlog", "open", "closed"},
               reset : BOOLEAN, secured : BOOLEAN]

\* Where the two threads may be, and what a receive returns
SenderPcs == {"idle", "try", "connect", "connected", "store", "secure", "load", "write",
              "thrown", "dead"}
ReaderPcs == {"idle", "loop", "accept", "accepted", "store", "secure", "load", "header", "reload", "body"}
Results == {"none", "message", "timeout", "eos", "cancelled", "error"}

\* The kernel and the shared members of both ends, the thread that sends, the
\* thread that receives and the sink have the types of their declarations.
WireTyped ==
  /\ options \in Kinds
  /\ conn \in [Links -> Connection] /\ conns \in 0 .. MaxConns /\ resets \in Nat
  /\ sock \in [Ends -> 0 .. MaxConns]
  /\ closed \in [Ends -> BOOLEAN] /\ teardown \in [Ends -> BOOLEAN] /\ listener \in {"open", "closed"}
SenderTyped ==
  /\ outPc \in SenderPcs /\ outFd \in 0 .. MaxConns /\ attempt \in 0 .. 2 /\ tries \in 1 .. MaxTries
  /\ cursor \in 0 .. FrameCells - 1 /\ msg \in 0 .. StreamMessages /\ sent \subseteq Nat
ReaderTyped ==
  /\ inPc \in ReaderPcs /\ inFd \in 0 .. MaxConns /\ deadline \in BOOLEAN
  /\ frame \in Seq(Cells) /\ received \in Seq(Nat) /\ result \in Results /\ failedBefore \in BOOLEAN
SinkTyped == throws \in Nat /\ spoiled \in BOOLEAN
StreamTyped == WireTyped /\ SenderTyped /\ ReaderTyped

\* What is known of the constants of the stream transports.
LEMMA StreamConstants ==
  /\ HeaderCells \in Nat /\ FrameCells \in Nat /\ WireCells \in Nat /\ MaxTries \in Nat
  /\ HeaderCells > 0 /\ FrameCells > 1 /\ WireCells > 0 /\ MaxTries > 0 /\ HeaderCells < FrameCells
  /\ StreamMessages \in Nat /\ MaxConns \in Nat
  BY StreamAssumption

\* The types of the options, of the members of either end and of a connection.
LEMMA StreamFacts ==
  ASSUME WireTyped
  PROVE  /\ options.kind \in {"tcp", "unix"} /\ options.reconnect \in BOOLEAN /\ options.tls \in BOOLEAN
         /\ options.kind = "unix" => options.reconnect = FALSE /\ options.tls = FALSE
         /\ sock["out"] \in 0 .. MaxConns /\ sock["in"] \in 0 .. MaxConns
         /\ closed["out"] \in BOOLEAN /\ closed["in"] \in BOOLEAN
         /\ teardown["out"] \in BOOLEAN /\ teardown["in"] \in BOOLEAN
         /\ \A c \in Links : /\ conn[c].bytes \in Seq(Cells) /\ conn[c].out \in {"none", "open", "closed"}
                             /\ conn[c].in \in {"none", "backlog", "open", "closed"}
                             /\ conn[c].reset \in BOOLEAN /\ conn[c].secured \in BOOLEAN
<1>1. options.kind \in {"tcp", "unix"} /\ options.reconnect \in BOOLEAN /\ options.tls \in BOOLEAN
  BY DEF WireTyped, Kinds
<1>2. options.kind = "unix" => options.reconnect = FALSE /\ options.tls = FALSE
  BY DEF WireTyped, Kinds
<1>3. /\ sock["out"] \in 0 .. MaxConns /\ sock["in"] \in 0 .. MaxConns
      /\ closed["out"] \in BOOLEAN /\ closed["in"] \in BOOLEAN
      /\ teardown["out"] \in BOOLEAN /\ teardown["in"] \in BOOLEAN
  BY DEF WireTyped, Ends
<1>4. ASSUME NEW c \in Links
      PROVE  /\ conn[c].bytes \in Seq(Cells) /\ conn[c].out \in {"none", "open", "closed"}
             /\ conn[c].in \in {"none", "backlog", "open", "closed"}
             /\ conn[c].reset \in BOOLEAN /\ conn[c].secured \in BOOLEAN
  BY DEF WireTyped, Connection
<1> QED
  BY <1>1, <1>2, <1>3, <1>4

\* The sending end closes x, or the receiving end closes the connections of S: the
\* bytes of those are lost, and nothing else changes.
CutOut(x) ==
  /\ conn' \in [Links -> Connection]
  /\ \A c \in Links :
       /\ conn'[c].bytes = conn[c].bytes /\ conn'[c].in = conn[c].in
       /\ conn'[c].reset = conn[c].reset /\ conn'[c].secured = conn[c].secured
       /\ conn'[c].out = IF c = x THEN "closed" ELSE conn[c].out
CutIn(S) ==
  /\ conn' \in [Links -> Connection]
  /\ \A c \in Links :
       /\ conn'[c].bytes = IF c \in S THEN <<>> ELSE conn[c].bytes
       /\ conn'[c].in = IF c \in S THEN "closed" ELSE conn[c].in
       /\ conn'[c].reset = conn[c].reset /\ conn'[c].secured = conn[c].secured
       /\ conn'[c].out = conn[c].out

\* close_connection of the sender closes the descriptor that it has stored.
LEMMA DroppedOut ==
  ASSUME WireTyped, conn' = Dropped("out") PROVE CutOut(sock["out"])
<1>1. sock["out"] \in 0 .. MaxConns /\ conn \in [Links -> Connection]
  BY DEF WireTyped, Ends
<1>2. CASE sock["out"] = 0
  BY <1>1, <1>2 DEF Dropped, Links, CutOut
<1>3. CASE sock["out"] # 0
  BY <1>1, <1>3 DEF Dropped, Links, Unread, Connection, CutOut
<1> QED BY <1>2, <1>3

\* What close_connection of the receiver makes of every connection.
LEMMA DroppedIn ==
  ASSUME WireTyped PROVE
      /\ Dropped("in") \in [Links -> Connection]
      /\ \A c \in Links :
        /\ Dropped("in")[c].bytes = IF c = sock["in"] THEN <<>> ELSE conn[c].bytes
        /\ Dropped("in")[c].in = IF c = sock["in"] THEN "closed" ELSE conn[c].in
        /\ Dropped("in")[c].reset = conn[c].reset /\ Dropped("in")[c].secured = conn[c].secured
        /\ Dropped("in")[c].out = conn[c].out
<1>1. sock["in"] \in 0 .. MaxConns /\ conn \in [Links -> Connection]
  BY DEF WireTyped, Ends
<1>2. CASE sock["in"] = 0
  BY <1>1, <1>2 DEF Dropped, Links, CutIn
<1>3. CASE sock["in"] # 0
  <2>1. <<>> \in Seq(Cells)
    BY EmptySeq
  <2>2. PICK d : d = Dropped("in")
    OBVIOUS
  <2>3. d = [conn EXCEPT ![sock["in"]]["in"] = "closed", ![sock["in"]].bytes = <<>>]
    BY <1>3, <2>2 DEF Dropped, Unread
  <2>4. \A c \in Links :
        /\ d[c].bytes = IF c = sock["in"] THEN <<>> ELSE conn[c].bytes
        /\ d[c].in = IF c = sock["in"] THEN "closed" ELSE conn[c].in
        /\ d[c].reset = conn[c].reset /\ d[c].secured = conn[c].secured
        /\ d[c].out = conn[c].out
    BY <1>1, <2>3 DEF Connection
  <2>5. d \in [Links -> Connection]
    BY <1>1, <2>1, <2>3, ZenonT(60) DEF Connection
  <2> QED BY <2>2, <2>4, <2>5
<1> QED BY <1>2, <1>3

\* close_connection of the receiver closes the descriptor that it has stored.
LEMMA ClosedConnection ==
  ASSUME WireTyped, CloseConnection("in") PROVE CutIn({sock["in"]})
  BY DroppedIn DEF CloseConnection, CutIn

\* With the listener go the connections that wait in its backlog.
LEMMA ClosedAll ==
  ASSUME WireTyped, CloseAll("in") PROVE CutIn({sock["in"]} \cup Backlog)
<1>1. conn' = Refused(Dropped("in"))
  BY DEF CloseAll
<1>2. PICK d \in [Links -> Connection] : d = Dropped("in")
  BY DroppedIn
<1>3. <<>> \in Seq(Cells) /\ conn \in [Links -> Connection]
  BY EmptySeq DEF WireTyped
<1>4. conn' \in [Links -> Connection]
      /\ \A c \in Links :
       /\ conn'[c].bytes = IF d[c].in = "backlog" THEN <<>> ELSE d[c].bytes
       /\ conn'[c].in = IF d[c].in = "backlog" THEN "closed" ELSE d[c].in
       /\ conn'[c].reset = d[c].reset /\ conn'[c].secured = d[c].secured
       /\ conn'[c].out = d[c].out
  BY <1>1, <1>2, <1>3, ZenonT(60) DEF Refused, Connection
<1>5. \A c \in Links :
        /\ d[c].bytes = IF c = sock["in"] THEN <<>> ELSE conn[c].bytes
        /\ d[c].in = IF c = sock["in"] THEN "closed" ELSE conn[c].in
        /\ d[c].reset = conn[c].reset /\ d[c].secured = conn[c].secured
        /\ d[c].out = conn[c].out
  BY DroppedIn, <1>2
<1>6. \A c \in Links : c \in Backlog <=> conn[c].in = "backlog"
  BY DEF Backlog, Links
<1> QED BY <1>4, <1>5, <1>6 DEF CutIn

\* A failed attempt of send closes the stored descriptor, unless a close() of the
\* Unix transport is going to or an observer throws.
LEMMA AttemptEffect ==
  ASSUME WireTyped, AttemptFails
  PROVE  /\ spoiled' = FALSE => CutOut(IF KeepsSocket("out") THEN 0 ELSE sock["out"])
         /\ conn' \in [Links -> Connection] /\ sock' \in [Ends -> 0 .. MaxConns]
         /\ \A c \in Links : conn'[c].bytes = conn[c].bytes
<1>0. conn \in [Links -> Connection] /\ sock \in [Ends -> 0 .. MaxConns] /\ 0 \in 0 .. MaxConns
  BY StreamConstants DEF WireTyped
<1>1. CASE UNCHANGED <<conn, sock>> /\ KeepsSocket("out")
  BY <1>0, <1>1 DEF CutOut, Links
<1>2. CASE CloseConnection("out") /\ ~KeepsSocket("out")
  <2>1. CutOut(sock["out"]) /\ sock' = [sock EXCEPT !["out"] = 0]
    BY <1>2, DroppedOut DEF CloseConnection
  <2> QED
    BY <1>0, <1>2, <2>1 DEF CutOut
<1>3. CASE UNCHANGED <<conn, sock>> /\ spoiled' = TRUE
  BY <1>0, <1>3
<1> QED BY <1>1, <1>2, <1>3 DEF AttemptFails

\* A set of naturals that is not empty has a least member.
LEMMA LeastNumber ==
  ASSUME NEW T \in SUBSET Nat, T # {}
  PROVE  \E x \in T : \A d \in T : x <= d
<1> DEFINE R == {ss \in Nat \X Nat : ss[1] < ss[2]}
<1>1. IsWellFoundedOn(R, Nat)
  BY NatLessThanWellFounded DEF OpToRel
<1> HIDE DEF R
<1>2. PICK x \in T : \A y \in T : ~ (<<y, x>> \in R)
  BY <1>1, WFMin
<1>3. \A y \in T : x \in Nat /\ y \in Nat /\ ~(y < x)
  BY <1>2 DEF R
<1> QED
  BY <1>2, <1>3

\* Counting messages and cells stays within the naturals.
LEMMA SentSet ==
  ASSUME SenderTyped
  PROVE  sent \cup {msg} \subseteq Nat /\ msg + 1 \in Nat /\ cursor + 1 \in Nat
  BY StreamConstants DEF SenderTyped

\* connect makes a new connection that waits in the backlog.
LEMMA ConnectEffect ==
  ASSUME WireTyped, Connect
  PROVE  /\ conn' \in [Links -> Connection] /\ conns' \in 0 .. MaxConns /\ conns' = conns + 1
         /\ conns + 1 \in Links
         /\ \A c \in Links :
              /\ conn'[c].bytes = conn[c].bytes /\ conn'[c].reset = conn[c].reset
              /\ conn'[c].secured = conn[c].secured
              /\ conn'[c].out = IF c = conns + 1 THEN "open" ELSE conn[c].out
              /\ conn'[c].in = IF c = conns + 1 THEN "backlog" ELSE conn[c].in
<1>1. conns + 1 \in Links /\ conns' = conns + 1 /\ conns' \in 0 .. MaxConns
  BY StreamConstants DEF WireTyped, Connect, Links
<1>2. conn \in [Links -> Connection]
      /\ conn' = [conn EXCEPT ![conns + 1].out = "open", ![conns + 1].in = "backlog"]
  BY DEF WireTyped, Connect
<1>3. conn' \in [Links -> Connection]
  BY <1>1, <1>2, ZenonT(60) DEF Connection
<1> QED
  BY <1>1, <1>2, <1>3 DEF Connection

\* A connection that close() overtook is closed before it is stored.
LEMMA ConnectedEffect ==
  ASSUME WireTyped, SenderTyped, Connected
  PROVE  CutOut(IF closed["out"] THEN outFd ELSE 0)
<1>1. CASE closed["out"]
  <2>1. conn \in [Links -> Connection] /\ conn' = [conn EXCEPT ![outFd].out = "closed"]
    BY <1>1 DEF WireTyped, Connected
  <2> QED
    BY <1>1, <2>1, ZenonT(60) DEF Connection, CutOut, Links
<1>2. CASE ~closed["out"]
  BY <1>2 DEF CutOut, Connected, WireTyped, Links
<1> QED
  BY <1>1, <1>2

\* The handshake marks the connection that was just made.
LEMMA OutSecuredEffect ==
  ASSUME WireTyped, SenderTyped, OutSecured
  PROVE  /\ conn' \in [Links -> Connection]
         /\ \A c \in Links :
              /\ conn'[c].bytes = conn[c].bytes /\ conn'[c].reset = conn[c].reset
              /\ conn'[c].out = conn[c].out /\ conn'[c].in = conn[c].in
              /\ conn'[c].secured = IF c = outFd THEN options.tls ELSE conn[c].secured
<1>1. conn \in [Links -> Connection] /\ conn' = [conn EXCEPT ![outFd].secured = options.tls]
      /\ options.tls \in BOOLEAN
  BY StreamFacts DEF WireTyped, OutSecured
<1>2. conn' \in [Links -> Connection]
  BY <1>1 DEF Connection
<1> QED
  BY <1>1, <1>2 DEF Connection

\* write_all appends a cell to a connection whose other end is not closed.
LEMMA WriteEffect ==
  ASSUME WireTyped, SenderTyped, Write, msg > 0
  PROVE  /\ outFd \in Links /\ <<msg, cursor + 1>> \in Cells
         /\ conn' \in [Links -> Connection]
         /\ \A c \in Links :
              /\ conn'[c].reset = conn[c].reset
              /\ conn'[c].out = conn[c].out /\ conn'[c].in = conn[c].in
              /\ conn'[c].secured = conn[c].secured
              /\ conn'[c].bytes = IF c = outFd /\ conn[c].in # "closed"
                                  THEN Append(conn[c].bytes, <<msg, cursor + 1>>)
                                  ELSE conn[c].bytes
<1>1. conn \in [Links -> Connection] /\ outFd \in Links
  BY DEF WireTyped, SenderTyped, Write, Links
<1>2. <<msg, cursor + 1>> \in Cells
  BY StreamConstants DEF SenderTyped, Cells
<1>3. CASE conn[outFd].in = "closed"
  BY <1>1, <1>2, <1>3 DEF Write
<1>4. CASE conn[outFd].in # "closed"
  <2>1. PICK b : b = Append(conn[outFd].bytes, <<msg, cursor + 1>>)
    OBVIOUS
  <2>2. b \in Seq(Cells)
    BY <1>1, <1>2, <2>1, StreamFacts
  <2>3. conn' = [conn EXCEPT ![outFd].bytes = b]
    BY <1>4, <2>1 DEF Write
  <2>4. conn' \in [Links -> Connection]
    BY <1>1, <2>2, <2>3 DEF Connection
  <2>5. \A c \in Links :
              /\ conn'[c].reset = conn[c].reset
              /\ conn'[c].out = conn[c].out /\ conn'[c].in = conn[c].in
              /\ conn'[c].secured = conn[c].secured
              /\ conn'[c].bytes = IF c = outFd THEN b ELSE conn[c].bytes
    BY <1>1, <2>3 DEF Connection
  <2> QED
    BY <1>1, <1>2, <1>4, <2>1, <2>4, <2>5
<1> QED
  BY <1>3, <1>4

\* accept takes the oldest connection of the backlog.
LEMMA AcceptEffect ==
  ASSUME WireTyped, Accept
  PROVE  /\ inFd' \in Links /\ conn[inFd'].in = "backlog"
         /\ \A d \in Links : conn[d].in = "backlog" => inFd' <= d
         /\ conn' \in [Links -> Connection]
         /\ \A c \in Links :
              /\ conn'[c].reset = conn[c].reset /\ conn'[c].bytes = conn[c].bytes
              /\ conn'[c].out = conn[c].out /\ conn'[c].secured = conn[c].secured
              /\ conn'[c].in = IF c = inFd' THEN "open" ELSE conn[c].in
<1>1. PICK a : a = CHOOSE c \in Backlog : \A d \in Backlog : c <= d
  OBVIOUS
<1>2. Backlog \subseteq Nat /\ Backlog # {} /\ Backlog \subseteq Links
  BY DEF Backlog, Accept, Links
<1>3. \E x \in Backlog : \A d \in Backlog : x <= d
  BY <1>2, LeastNumber
<1>4. a \in Backlog /\ \A d \in Backlog : a <= d
  BY <1>1, <1>3
<1>5. conn \in [Links -> Connection] /\ conn' = [conn EXCEPT ![a].in = "open"] /\ inFd' = a
  BY <1>1 DEF WireTyped, Accept
<1>6. conn' \in [Links -> Connection]
  BY <1>5 DEF Connection
<1> QED
  BY <1>2, <1>4, <1>5, <1>6 DEF Connection, Backlog, Links

\* A connection that was accepted by a closed transport is closed again.
LEMMA AcceptedEffect ==
  ASSUME WireTyped, Accepted
  PROVE  CutIn(IF closed["in"] THEN {inFd} ELSE {})
<1>1. CASE closed["in"]
  <2>1. conn \in [Links -> Connection] /\ conn' = [conn EXCEPT ![inFd].in = "closed", ![inFd].bytes = <<>>]
    BY <1>1 DEF WireTyped, Accepted
  <2>2. <<>> \in Seq(Cells)
    BY EmptySeq
  <2>3. conn' \in [Links -> Connection]
    BY <2>1, <2>2, ZenonT(60) DEF Connection
  <2> QED
    BY <1>1, <2>1, <2>3 DEF Connection, CutIn, Links
<1>2. CASE ~closed["in"]
  BY <1>2 DEF CutIn, Accepted, WireTyped, Links
<1> QED
  BY <1>1, <1>2

\* read_all takes the first cell of its connection.
LEMMA ReadEffect ==
  ASSUME WireTyped, ReaderTyped, Read
  PROVE  /\ inFd \in Links /\ conn[inFd].bytes # <<>> /\ Head(conn[inFd].bytes) \in Cells
         /\ conn[inFd].bytes \in Seq(Cells) /\ Tail(conn[inFd].bytes) \in Seq(Cells)
         /\ conn' \in [Links -> Connection]
         /\ \A c \in Links :
              /\ conn'[c].reset = conn[c].reset /\ conn'[c].in = conn[c].in
              /\ conn'[c].out = conn[c].out /\ conn'[c].secured = conn[c].secured
              /\ conn'[c].bytes = IF c = inFd THEN Tail(conn[inFd].bytes) ELSE conn[c].bytes
<1>1. conn \in [Links -> Connection] /\ inFd \in Links
  BY DEF WireTyped, ReaderTyped, Read, Links, Open
<1>2. PICK b : b = Tail(conn[inFd].bytes)
  OBVIOUS
<1>3. conn[inFd].bytes \in Seq(Cells) /\ conn[inFd].bytes # <<>> /\ b \in Seq(Cells)
      /\ Head(conn[inFd].bytes) \in Cells
  BY <1>1, <1>2, StreamFacts DEF Read
<1>4. conn' = [conn EXCEPT ![inFd].bytes = b]
  BY <1>1, <1>2 DEF Read
<1>5. conn' \in [Links -> Connection]
  BY <1>1, <1>3, <1>4 DEF Connection
<1> QED
  BY <1>1, <1>2, <1>3, <1>4, <1>5 DEF Connection

\* A reset empties one connection.
LEMMA ResetEffect ==
  ASSUME WireTyped, NEW c \in Links, Reset(c)
  PROVE  /\ conn' \in [Links -> Connection]
         /\ conn'[c].bytes = <<>> /\ conn'[c].in = conn[c].in /\ conn'[c].out = conn[c].out
         /\ conn'[c].secured = conn[c].secured /\ conn'[c].reset = TRUE
         /\ \A d \in Links \ {c} : conn'[d] = conn[d]
<1>1. conn \in [Links -> Connection] /\ conn' = [conn EXCEPT ![c].reset = TRUE, ![c].bytes = <<>>]
  BY DEF WireTyped, Reset
<1>2. <<>> \in Seq(Cells)
  BY EmptySeq
<1>3. conn' \in [Links -> Connection]
  BY <1>1, <1>2, ZenonT(60) DEF Connection
<1>4. /\ conn'[c].bytes = <<>> /\ conn'[c].in = conn[c].in /\ conn'[c].out = conn[c].out
      /\ conn'[c].secured = conn[c].secured
  BY <1>1 DEF Connection
<1>5. \A d \in Links \ {c} : conn'[d] = conn[d]
  BY <1>1
<1>6. conn'[c].reset = TRUE
  BY <1>1 DEF Connection
<1> QED
  BY <1>3, <1>4, <1>5, <1>6

\* What invalidate_connection closes: the connection, and with the Unix transport
\* the listener and its backlog.
LEMMA InvalidateEffect ==
  ASSUME WireTyped, Invalidate
  PROVE  CutIn(IF Tcp THEN {sock["in"]} ELSE {sock["in"]} \cup Backlog)
  BY ClosedConnection, ClosedAll DEF Invalidate

\* A step of the sending thread preserves the types.
LEMMA OutTyped ==
  ASSUME StreamTyped, OutStep, outPc = "write" => msg > 0
  PROVE  StreamTyped'
<1> USE StreamConstants DEF StreamTyped
<1>O. OutUnchanged => ReaderTyped' /\ UNCHANGED <<options, conns, resets, closed, teardown, listener>>
  BY DEF OutUnchanged, inVars, ReaderTyped
<1>K. OutUnchanged /\ conn' \in [Links -> Connection] /\ sock' \in [Ends -> 0 .. MaxConns] => WireTyped'
  BY <1>O DEF WireTyped
<1>C. conn \in [Links -> Connection] /\ sock \in [Ends -> 0 .. MaxConns]
  BY DEF WireTyped
<1>F. ASSUME AttemptFails
      PROVE /\ conn' \in [Links -> Connection] /\ sock' \in [Ends -> 0 .. MaxConns]
            /\ outPc' \in SenderPcs /\ outFd' \in 0 .. MaxConns /\ attempt' \in 0 .. 2
            /\ cursor' \in 0 .. FrameCells - 1
  <2>1. outPc' \in SenderPcs /\ outFd' \in 0 .. MaxConns /\ attempt' \in 0 .. 2
        /\ cursor' \in 0 .. FrameCells - 1
    BY <1>F DEF AttemptFails, EndAttempt, SenderTyped, SenderPcs, Attempts, Constructing
  <2> QED
    BY <1>F, <2>1, AttemptEffect
<1>1. CASE SendCall
  <2>1. outPc' \in SenderPcs
    BY <1>1, Zenon DEF SendCall, SenderPcs
  <2> QED
    BY <1>1, <1>O, <1>K, <1>C, <2>1 DEF SendCall, SenderTyped
<1>2. CASE Try
  BY <1>2, <1>O, <1>K, <1>C DEF Try, SenderTyped, SenderPcs
<1>3. CASE Connect
  <2>1. WireTyped' /\ ReaderTyped'
    BY <1>3, ConnectEffect DEF Connect, endVars, WireTyped, ReaderTyped, inVars
  <2>2. SenderTyped'
    BY <1>3, ConnectEffect DEF Connect, SenderTyped, SenderPcs
  <2> QED
    BY <2>1, <2>2
<1>4. CASE ConnectFails
  <2>1. SenderTyped'
    BY <1>4, <1>F DEF ConnectFails, NextTry, TriesAgain, SenderTyped, SenderPcs
  <2> QED
    BY <1>4, <1>F, <1>O, <1>K, <1>C, <2>1 DEF ConnectFails
<1>5. CASE Connected
  <2>1. SenderTyped'
    BY <1>5 DEF Connected, SenderTyped, SenderPcs
  <2> QED
    BY <1>5, <1>O, <1>K, <1>C, <2>1, ConnectedEffect DEF Connected, CutOut
<1>6. CASE StoreOut
  <2>1. SenderTyped'
    BY <1>6 DEF StoreOut, SenderTyped, SenderPcs
  <2> QED
    BY <1>6, <1>O, <1>K, <1>C, <2>1 DEF StoreOut, SenderTyped
<1>7. CASE OutSecured
  <2>1. SenderTyped'
    BY <1>7 DEF OutSecured, TriesAgain, SenderTyped, SenderPcs
  <2> QED
    BY <1>7, <1>O, <1>K, <1>C, <2>1, OutSecuredEffect DEF OutSecured
<1>8. CASE OutNotSecured
  <2>1. SenderTyped'
    BY <1>8, <1>F DEF OutNotSecured, NextTry, TriesAgain, SenderTyped, SenderPcs
  <2>2. conn' \in [Links -> Connection] /\ sock' \in [Ends -> 0 .. MaxConns]
    BY <1>8, <1>F, <1>C, DroppedOut DEF OutNotSecured, CloseConnection, CutOut
  <2> QED
    BY <1>8, <1>O, <1>K, <2>1, <2>2 DEF OutNotSecured
<1>9. CASE Load
  <2>1. SenderTyped'
    BY <1>9, StreamFacts DEF Load, SenderTyped, SenderPcs
  <2> QED
    BY <1>9, <1>O, <1>K, <1>C, <2>1 DEF Load
<1>10. CASE Write
  <2>1. SenderTyped'
    <3>1. CASE cursor + 1 < FrameCells
      BY <1>10, <3>1, SentSet DEF Write, Written, SenderTyped, SenderPcs
    <3>2. CASE ~(cursor + 1 < FrameCells)
      BY <1>10, <3>2, SentSet DEF Write, Written, SenderTyped, SenderPcs
    <3> QED
      BY <3>1, <3>2
  <2>2. conn' \in [Links -> Connection]
    <3>1. msg > 0
      BY <1>10 DEF Write
    <3> QED
      BY <1>10, <3>1, WriteEffect
  <2> QED
    BY <1>10, <1>O, <1>K, <1>C, <2>1, <2>2 DEF Write
<1>11. CASE WriteFails
  <2>1. SenderTyped'
    BY <1>11, <1>F DEF WriteFails, SenderTyped
  <2> QED
    BY <1>11, <1>F, <1>O, <1>K, <2>1 DEF WriteFails
<1>12. CASE Caught
  <2>1. SenderTyped'
    BY <1>12, <1>F DEF Caught, SenderTyped
  <2> QED
    BY <1>12, <1>F, <1>O, <1>K, <2>1 DEF Caught
<1> QED
  BY <1>1, <1>2, <1>3, <1>4, <1>5, <1>6, <1>7, <1>8, <1>9, <1>10, <1>11, <1>12 DEF OutStep

\* A receive that returns preserves the types of its thread.
LEMMA ReturnTyped ==
  ASSUME ReaderTyped, NEW r \in Results, Return(r) PROVE ReaderTyped'
<1>1. <<>> \in Seq(Cells)
  BY EmptySeq
<1>2. (IF closed["in"] THEN "cancelled" ELSE r) \in Results
  BY DEF Results
<1>3. (failedBefore \/ (r = "error" /\ ~closed["in"])) \in BOOLEAN
  OBVIOUS
<1>4. inPc' \in ReaderPcs /\ inFd' \in 0 .. MaxConns
  BY StreamConstants DEF Return, ReaderPcs
<1>5. deadline' \in BOOLEAN
  BY DEF Return
<1> QED
  BY <1>1, <1>2, <1>3, <1>4, <1>5 DEF ReaderTyped, Return

\* A receive that goes on preserves the types of its thread.
LEMMA GotoTyped ==
  ASSUME ReaderTyped, NEW pc \in ReaderPcs, Goto(pc), inFd' \in 0 .. MaxConns PROVE ReaderTyped'
  BY DEF ReaderTyped, Goto

\* A step of the receiving thread preserves the types.
LEMMA InTyped ==
  ASSUME StreamTyped, InStep \/ ReceiveCall
  PROVE  StreamTyped'
<1> USE StreamConstants, StreamFacts DEF StreamTyped
<1>O. InUnchanged => SenderTyped' /\ UNCHANGED <<options, conns, resets, closed, teardown>>
  BY DEF InUnchanged, outVars, SenderTyped
<1>K. InUnchanged /\ Kept => WireTyped' /\ SenderTyped'
  BY <1>O DEF Kept, WireTyped
<1>V. ASSUME Invalidate
      PROVE  /\ conn' \in [Links -> Connection] /\ sock' \in [Ends -> 0 .. MaxConns]
             /\ listener' \in {"open", "closed"}
  <2>1. conn' \in [Links -> Connection]
    BY <1>V, InvalidateEffect DEF CutIn
  <2> QED
    BY <1>V, <2>1 DEF WireTyped, Invalidate, CloseConnection, CloseAll
<1>1. CASE ReceiveCall
  BY <1>1, <1>K DEF ReceiveCall, ReaderTyped, ReaderPcs, Results
<1>2. CASE Loop
  BY <1>2, <1>K, ReturnTyped, GotoTyped DEF Loop, ReaderTyped, ReaderPcs, Results
<1>3. CASE Accept
  BY <1>3, <1>O, AcceptEffect, GotoTyped DEF Accept, WireTyped, ReaderPcs, Links
<1>4. CASE AcceptEnds
  BY <1>4, <1>K, ReturnTyped, GotoTyped DEF AcceptEnds, ReaderTyped, ReaderPcs, Results
<1>5. CASE Accepted
  BY <1>5, <1>O, AcceptedEffect, ReturnTyped, GotoTyped DEF Accepted, CutIn, WireTyped, ReaderTyped,
     ReaderPcs, Results
<1>6. CASE Store
  BY <1>6, <1>O, GotoTyped, ReturnTyped DEF Store, Thrown, WireTyped, ReaderTyped, ReaderPcs, Results
<1>7. CASE InSecured
  BY <1>7, <1>K, GotoTyped, ReturnTyped DEF InSecured, Thrown, ReaderTyped, ReaderPcs, Results
<1>8. CASE InNotSecured
  <2>1. conn' \in [Links -> Connection]
    BY <1>8, ClosedConnection DEF InNotSecured, CutIn
  <2>2. ReaderTyped'
    BY <1>8, ReturnTyped DEF InNotSecured, Results
  <2>3. sock' \in [Ends -> 0 .. MaxConns]
    <3>1. sock' = [sock EXCEPT !["in"] = 0] /\ sock \in [Ends -> 0 .. MaxConns]
      BY <1>8 DEF InNotSecured, CloseConnection, WireTyped
    <3> QED
      BY <3>1, 0 \in 0 .. MaxConns, Zenon
  <2> QED
    BY <1>8, <1>O, <2>1, <2>2, <2>3 DEF InNotSecured, WireTyped
<1>9. CASE LoadHeader \/ LoadBody
  BY <1>9, <1>K, GotoTyped DEF LoadHeader, LoadBody, LoadIn, ReaderTyped, ReaderPcs
<1>10. CASE Read
  <2>1. PICK cells : cells = Append(frame, Head(conn[inFd].bytes))
    OBVIOUS
  <2>2. cells \in Seq(Cells) /\ cells # <<>> /\ Head(cells) \in Cells
        /\ Append(received, Head(cells)[1]) \in Seq(Nat)
    <3>1. PICK h \in Cells : h = Head(conn[inFd].bytes)
      BY <1>10, ReadEffect
    <3>2. frame \in Seq(Cells) /\ received \in Seq(Nat)
      BY DEF ReaderTyped
    <3>3. cells \in Seq(Cells) /\ cells # <<>>
      BY <2>1, <3>1, <3>2
    <3>4. Head(cells) \in Cells
      BY <3>3
    <3>5. Head(cells)[1] \in Nat
      BY <3>4 DEF Cells
    <3> QED
      BY <3>2, <3>3, <3>4, <3>5
  <2>3. \/ frame' = cells /\ UNCHANGED <<inPc, inFd, deadline, received, result, failedBefore>>
        \/ Return("cancelled")
        \/ frame' = cells /\ inPc' = "reload" /\ UNCHANGED <<inFd, deadline, received, result, failedBefore>>
        \/ Deliver(cells)
        \/ Return("error")
    BY <2>1, <1>10 DEF Read, Thrown
  <2>4. ReaderTyped'
    <3>1. CASE Return("cancelled") \/ Return("error")
      BY <3>1, ReturnTyped DEF Results
    <3>2. CASE Deliver(cells)
      <4>1. <<>> \in Seq(Cells)
        BY EmptySeq
      <4>2. inPc' \in ReaderPcs /\ inFd' \in 0 .. MaxConns /\ result' \in Results
        BY <3>2 DEF ReaderPcs, Results, Deliver
      <4>3. deadline' \in BOOLEAN /\ failedBefore' \in BOOLEAN
        BY <3>2 DEF ReaderTyped, Deliver
      <4>4. received' \in Seq(Nat) /\ frame' \in Seq(Cells)
        BY <3>2, <2>2, <4>1 DEF Deliver
      <4> QED
        BY <4>2, <4>3, <4>4 DEF ReaderTyped
    <3> QED
      BY <2>3, <2>2, <3>1, <3>2 DEF ReaderTyped, ReaderPcs
  <2> QED 
    BY <1>10, <1>O, <2>4, ReadEffect DEF Read, WireTyped
<1>11. CASE ReadEof
  <2>1. WireTyped' /\ SenderTyped'
    BY <1>11, <1>O, <1>V, <1>K, ClosedConnection, ClosedAll DEF ReadEof, WireTyped, CutIn,
       CloseConnection, CloseAll
  <2>2. ReaderTyped'
    BY <1>11, ReturnTyped, GotoTyped DEF ReadEof, ReaderPcs, Results
  <2> QED
    BY <2>1, <2>2
<1>12. CASE ReadError
  BY <1>12, <1>O, <1>V, <1>K, ReturnTyped DEF ReadError, WireTyped, Results
<1>13. CASE ReadDeadline
  BY <1>13, <1>O, <1>V, <1>K, ReturnTyped DEF ReadDeadline, CutOff, IdleResult, WireTyped, Results
<1>14. CASE ReadCancelled
  BY <1>14, <1>K, ReturnTyped DEF ReadCancelled, Results
<1> QED
  BY <1>1, <1>2, <1>3, <1>4, <1>5, <1>6, <1>7, <1>8, <1>9, <1>10, <1>11, <1>12, <1>13, <1>14 DEF InStep

\* close() preserves the types.
LEMMA CloseTyped ==
  ASSUME StreamTyped, NEW e \in Ends, CloseCall(e) \/ Teardown(e)
  PROVE  StreamTyped'
<1> USE StreamConstants, StreamFacts DEF StreamTyped
<1>1. CASE CloseCall(e)
  BY <1>1 DEF CloseCall, wireVars, outVars, inVars, WireTyped, SenderTyped, ReaderTyped
<1>2. CASE Teardown(e)
  <2>1. SenderTyped' /\ ReaderTyped'
    BY <1>2 DEF Teardown, wireVars, outVars, inVars, SenderTyped, ReaderTyped
  <2>2. conn' \in [Links -> Connection]
    <3>1. CASE e = "out"
      BY <1>2, <3>1, DroppedOut DEF Teardown, CloseAll, CutOut
    <3>2. CASE e = "in"
      BY <1>2, <3>2, ClosedAll DEF Teardown, CutIn
    <3> QED
      BY <3>1, <3>2 DEF Ends
  <2> QED
    BY <1>2, <2>1, <2>2 DEF Teardown, CloseAll, WireTyped
<1> QED
  BY <1>1, <1>2

\* A reset preserves the types.
LEMMA ResetTyped ==
  ASSUME StreamTyped, NEW c \in Links, Reset(c)
  PROVE  StreamTyped'
<1>1. WireTyped /\ SenderTyped /\ ReaderTyped
  BY DEF StreamTyped
<1>2. conn' \in [Links -> Connection]
  BY <1>1, ResetEffect
<1>3. /\ UNCHANGED <<options, conns, sock, closed, teardown, listener>> /\ UNCHANGED outVars
      /\ UNCHANGED inVars
      /\ resets' = resets + 1
  BY DEF Reset, endVars
<1>4. WireTyped'
  BY <1>1, <1>2, <1>3 DEF WireTyped
<1>5. SenderTyped'
  BY <1>1, <1>3 DEF SenderTyped, outVars
<1>6. ReaderTyped'
  BY <1>1, <1>3 DEF ReaderTyped, inVars
<1> QED
  BY <1>4, <1>5, <1>6 DEF StreamTyped

\* A step throws at most once, and what is spoiled stays so.
LEMMA SinkStep ==
  ASSUME SinkTyped, StreamNext
  PROVE  SinkTyped' /\ (spoiled' = FALSE => spoiled = FALSE)
<1>S. ASSUME UNCHANGED sinkVars \/ Throw, spoiled' = spoiled \/ spoiled' = TRUE
      PROVE  SinkTyped' /\ (spoiled' = FALSE => spoiled = FALSE)
  <2>1. throws' \in Nat
    BY <1>S DEF SinkTyped, sinkVars, Throw
  <2>2. spoiled' \in BOOLEAN /\ (spoiled' = FALSE => spoiled = FALSE)
    BY <1>S, Zenon DEF SinkTyped
  <2> QED
    BY <2>1, <2>2 DEF SinkTyped
<1>U. ASSUME UNCHANGED sinkVars PROVE SinkTyped' /\ (spoiled' = FALSE => spoiled = FALSE)
  BY <1>U, <1>S DEF sinkVars
<1>1. AttemptFails \/ NextTry \/ Thrown => SinkTyped' /\ (spoiled' = FALSE => spoiled = FALSE)
  BY <1>S, <1>U DEF AttemptFails, NextTry, Thrown
<1>2. CASE OutStep
  <2>1. CASE ConnectFails \/ OutNotSecured \/ WriteFails \/ Caught
    BY <1>1, <2>1 DEF ConnectFails, OutNotSecured, WriteFails, Caught
  <2>2. CASE OutSecured
    BY <1>S, <1>U, <2>2 DEF OutSecured
  <2>3. CASE Write
    BY <1>S, <1>U, <2>3 DEF Write, Written, sinkVars
  <2>4. CASE SendCall \/ Try \/ Connect \/ Connected \/ StoreOut \/ Load
    <3>1. UNCHANGED sinkVars
      BY <2>4 DEF SendCall, Try, Connect, Connected, StoreOut, Load, sinkVars
    <3> QED
      BY <1>U, <3>1
  <2> QED
    BY <1>2, <2>1, <2>2, <2>3, <2>4 DEF OutStep
<1>3. CASE InStep \/ ReceiveCall
  <2>1. UNCHANGED sinkVars \/ Thrown
    BY <1>3 DEF InStep, ReceiveCall, Loop, Accept, AcceptEnds, Accepted, Store, InSecured, InNotSecured,
       LoadHeader, LoadBody, LoadIn, Read, Deliver, ReadEof, ReadError, ReadDeadline, ReadCancelled, sinkVars
  <2> QED
    BY <1>1, <1>U, <2>1
<1>4. ASSUME NEW e \in Ends, CloseCall(e) \/ Teardown(e) PROVE UNCHANGED sinkVars
  BY <1>4 DEF CloseCall, Teardown, sinkVars
<1>5. ASSUME NEW c \in 1 .. MaxConns, Reset(c) PROVE UNCHANGED sinkVars
  BY <1>5 DEF Reset, sinkVars
<1> QED
  BY <1>U, <1>2, <1>3, <1>4, <1>5 DEF StreamNext

\* A thread that sends has something to send.
CallInv ==
  /\ outPc \in {"try", "load", "write"} => attempt # 0
  /\ attempt # 0 /\ outPc # "idle" => msg > 0

\* A step keeps that.
LEMMA CallStep ==
  ASSUME SenderTyped, CallInv, StreamNext PROVE CallInv'
<1>F. ASSUME AttemptFails, outPc \in {"connect", "secure", "write", "thrown"}, msg' = msg PROVE CallInv'
  BY <1>F DEF CallInv, AttemptFails, EndAttempt, Constructing, Attempts, SenderTyped
<1>1. CASE SendCall
  <2>1. msg \in Nat /\ msg' = msg + 1 /\ attempt' = 1
    BY <1>1 DEF SendCall, SenderTyped
  <2> QED
    BY <2>1 DEF CallInv
<1>2. CASE Try \/ Connect \/ Connected \/ StoreOut \/ Load
  BY <1>2 DEF CallInv, Try, Connect, Connected, StoreOut, Load
<1>3. CASE ConnectFails \/ OutNotSecured \/ WriteFails \/ Caught
  BY <1>F, <1>3 DEF CallInv, ConnectFails, OutNotSecured, WriteFails, Caught, NextTry
<1>4. CASE OutSecured
  BY <1>4 DEF CallInv, OutSecured, Constructing
<1>5. CASE Write
  <2>1. msg \in Nat /\ msg > 0 /\ attempt # 0 /\ (msg' = msg \/ msg' = msg + 1)
    BY <1>5 DEF CallInv, Write, Written, SenderTyped
  <2>2. attempt' = attempt \/ attempt' = 1
    BY <1>5 DEF Write, Written
  <2> QED
    BY <2>1, <2>2 DEF CallInv
<1>6. CASE UNCHANGED outVars
  BY <1>6 DEF CallInv, outVars
<1>7. InStep \/ ReceiveCall => UNCHANGED outVars
  BY DEF InStep, ReceiveCall, Loop, Accept, AcceptEnds, Accepted, Store, InSecured, InNotSecured,
     LoadHeader, LoadBody, LoadIn, Read, ReadEof, ReadError, ReadDeadline, ReadCancelled, InUnchanged
<1>8. ASSUME NEW e \in Ends, CloseCall(e) \/ Teardown(e) PROVE UNCHANGED outVars
  BY <1>8 DEF CloseCall, Teardown
<1>9. ASSUME NEW c \in 1 .. MaxConns, Reset(c) PROVE UNCHANGED outVars
  BY <1>9 DEF Reset
<1> QED
  BY <1>1, <1>2, <1>3, <1>4, <1>5, <1>6, <1>7, <1>8, <1>9 DEF StreamNext, OutStep
-----------------------------------------------------------------------------
(***************************************************************************)
(* Streams: the inductive invariant, in parts.                             *)
(***************************************************************************)
\* Connections are numbered in the order in which they are made; one that is closed
\* by its reader or reset holds nothing, and only one whose handshake is finished
\* holds anything.
WireInv ==
  /\ \A c \in Links : c > conns =>
       /\ conn[c].bytes = <<>> /\ conn[c].out = "none" /\ conn[c].in = "none"
       /\ conn[c].reset = FALSE /\ conn[c].secured = FALSE
  /\ \A c \in Links : c <= conns => conn[c].out # "none" /\ conn[c].in # "none"
  /\ \A c \in Links : conn[c].in = "closed" \/ conn[c].reset = TRUE => conn[c].bytes = <<>>
  /\ \A c \in Links : resets = 0 => conn[c].reset = FALSE
  /\ \A c \in Links : options.tls = FALSE => conn[c].secured = FALSE
  /\ \A c \in Links : conn[c].bytes # <<>> => conn[c].secured = options.tls

\* A descriptor that the sender still has open is the one in socket_, or the one it
\* is about to store, and it is that of the latest connection: whatever close() does
\* in between, none is lost.  A frame that is partly written is the one of the send
\* in progress, which has not been counted as sent.
SenderInv ==
  /\ teardown["out"] = TRUE => closed["out"] = TRUE
  /\ sock["out"] # 0 => sock["out"] = conns /\ conn[sock["out"]].out = "open"
  /\ \A c \in Links : conn[c].out = "open" =>
         sock["out"] = c \/ (outPc \in {"connected", "store"} /\ outFd = c)
  /\ outPc \in {"connect", "connected", "store"} => sock["out"] = 0
  /\ outPc \in {"connected", "store", "secure"} =>
       outFd # 0 /\ outFd = conns /\ conn[outFd].secured = FALSE /\ conn[outFd].bytes = <<>>
  /\ outPc \in {"connected", "store"} => conn[outFd].out = "open"
  /\ outPc = "secure" => sock["out"] = outFd \/ (closed["out"] = TRUE /\ sock["out"] = 0)
  /\ outPc = "write" /\ outFd # 0 => outFd = conns /\ conn[outFd].secured = options.tls
  /\ outPc # "secure" /\ sock["out"] # 0 => conn[sock["out"]].secured = options.tls
  /\ cursor # 0 => outPc = "write" /\ outFd # 0
  /\ options.kind = "tcp" /\ closed["out"] = TRUE /\ teardown["out"] = FALSE =>
       sock["out"] = 0 \/ outPc = "secure"
  /\ attempt = 0 =>
       closed["out"] = FALSE /\ outPc \in {"connect", "connected", "store", "secure", "thrown", "dead"}
  /\ attempt # 0 /\ outPc # "idle" => msg > 0 /\ msg \notin sent /\ outPc # "dead"
  /\ sent \subseteq 1 .. msg
  /\ outPc \in {"try"} => options.kind = "tcp"

\* The same for the receiver.  A descriptor that a read goes on with was either left
\* alone or closed by close().
ReaderInv ==
  /\ teardown["in"] = TRUE => closed["in"] = TRUE
  /\ sock["in"] # 0 => conn[sock["in"]].in = "open"
  /\ \A c \in Links : conn[c].in = "open" => sock["in"] = c \/ (inPc \in {"accepted", "store"} /\ inFd = c)
  /\ inPc \in {"accept", "accepted", "store"} => sock["in"] = 0
  /\ inPc \in {"accepted", "store"} => inFd # 0 /\ conn[inFd].in = "open"
  /\ inPc \in {"secure", "header", "reload", "body"} /\ inFd # 0 =>
       sock["in"] = inFd \/ (sock["in"] = 0 /\ conn[inFd].in = "closed")
  /\ inPc \in {"secure", "reload"} => inFd # 0
  /\ inPc \in {"header", "body"} /\ inFd = 0 => sock["in"] = 0
  /\ inPc # "secure" /\ sock["in"] # 0 => conn[sock["in"]].secured = options.tls
  /\ options.kind = "tcp" /\ closed["in"] = TRUE /\ teardown["in"] = FALSE =>
       sock["in"] = 0 \/ inPc = "secure"

\* What was read of a frame are the first cells of one envelope, as many as the
\* thread's place in receive_result says.
FrameInv ==
  /\ \A i \in DOMAIN frame : frame[i][1] = frame[1][1] /\ frame[i][2] = i
  /\ inPc = "header" => Len(frame) < HeaderCells
  /\ inPc = "reload" => Len(frame) = HeaderCells
  /\ inPc = "body" => HeaderCells <= Len(frame) /\ Len(frame) < FrameCells
  /\ inPc \notin {"header", "reload", "body"} => frame = <<>>

\* Cell x is sent before y: not of a later envelope, nor of the same if it ends one.
Before(x, y) == x[1] <= y[1] /\ (x[2] = FrameCells => x[1] < y[1])

\* A sequence of cells goes through the frames one by one.
Chained(s) ==
  /\ \A i, j \in DOMAIN s : i < j => Before(s[i], s[j])
  /\ \A i \in DOMAIN s : i + 1 \in DOMAIN s =>
       IF s[i][2] = FrameCells THEN s[i + 1][2] = 1 ELSE s[i + 1] = <<s[i][1], s[i][2] + 1>>

\* The cells of s are sent before those of t.
Ahead(s, t) == \A i \in DOMAIN s, j \in DOMAIN t : Before(s[i], t[j])

\* Every connection holds consecutive cells of frames, and an earlier connection
\* holds what was sent earlier.
BytesInv ==
  /\ \A c \in Links : Chained(conn[c].bytes)
  /\ \A c, d \in Links : c < d => Ahead(conn[c].bytes, conn[d].bytes)

\* A caller that was told "cancelled" does not call again.
Over == inPc = "idle" /\ result = "cancelled"

\* What was read of the frame that begins the bytes of c
ReadSoFar(c) == IF sock["in"] = c THEN frame ELSE <<>>

\* The cells s go on where f stops.
Heads(s, f) == IF f = <<>> THEN s[1][2] = 1 ELSE s[1] = <<f[1][1], Len(f) + 1>>

\* A connection goes on where the reader of it stopped; one that nobody reads
\* begins with a frame.
HeadInv ==
  ~Over => \A c \in Links : conn[c].bytes # <<>> => Heads(conn[c].bytes, ReadSoFar(c))

\* A send over a Unix socket that close() cancelled leaves a cut frame behind, and
\* none is sent after it.
GaveUp == options.kind = "unix" /\ closed["out"] = TRUE /\ outPc \in {"idle", "dead"}

\* The cells s end where the sender is, between frames or within one.
Tails(s) == IF cursor = 0 THEN s[Len(s)][2] = FrameCells ELSE s[Len(s)] = <<msg, cursor>>

\* All that was sent of the present frame is in f.
Drained(f) == Len(f) = cursor /\ (cursor # 0 => f[1][1] = msg)

\* Both ends may still use the connection.
Live(c) == conn[c].out = "open" /\ conn[c].in # "closed" /\ conn[c].reset = FALSE

\* A connection that is in use ends where the sender is: the next cell it writes
\* follows the last that is on the wire or, when nothing is, the last that was read.
TailInv ==
  ~GaveUp => \A c \in Links : Live(c) =>
    /\ conn[c].bytes # <<>> => Tails(conn[c].bytes)
    /\ conn[c].bytes = <<>> /\ ~Over => Drained(ReadSoFar(c))

\* A send is in progress, and not about to fail.
InSend == outPc \notin {"idle", "dead"} /\ (outPc = "thrown" => attempt < Attempts)

\* What was received precedes what is on the wire, and both are of frames that were
\* begun; the frame of a send in progress is not complete.
OrderInv ==
  /\ \A c \in Links : \A i \in DOMAIN conn[c].bytes :
       /\ conn[c].bytes[i][1] <= msg
       /\ InSend /\ conn[c].bytes[i][2] = FrameCells => conn[c].bytes[i][1] < msg
       /\ \A k \in DOMAIN received : received[k] < conn[c].bytes[i][1]
  /\ \A k \in DOMAIN received : received[k] <= msg /\ (InSend => received[k] < msg)
  /\ \A i, j \in DOMAIN received : i < j => received[i] < received[j]

\* The backlog is accepted in order: no connection is open while an older one waits.
BacklogInv == \A c, d \in Links : c < d /\ conn[c].in = "backlog" => conn[d].in # "open"

\* The kernel's buffers hold no more than they can.
BufferInv == \A c \in Links : Len(conn[c].bytes) <= WireCells

\* No send failed on an edge that does not reconnect, and nothing failed at all
Untroubled == NoSendFailed /\ options.reconnect = FALSE
Smooth == Untroubled /\ resets = 0 /\ failedBefore = FALSE

\* An envelope's last cell is on the wire, or the envelope was delivered.
OnWire(m) == \E c \in Links : \E i \in DOMAIN conn[c].bytes : conn[c].bytes[i] = <<m, FrameCells>>
Arrived(m) == \E k \in DOMAIN received : received[k] = m

\* Everything that was sent has arrived, and nobody can send more.
Done == (\A m \in sent : Arrived(m)) /\ \A c \in Links : conn[c].out # "open"

\* Everything that was sent has arrived or is on the wire, and the reader has closed
\* no connection.
Accounted ==
  (\A c \in Links : conn[c].in # "closed") /\ \A m \in sent : Arrived(m) \/ OnWire(m)

\* While no send fails without reconnection, every connection but the latest was
\* given up in its handshake: no frame was ever written to it.
LastInv ==
  Untroubled =>
    /\ \A c \in Links : c < conns => options.tls = TRUE /\ conn[c].secured = FALSE
    /\ closed["out"] = FALSE /\ outPc \in {"idle", "try", "load", "write"} => sock["out"] # 0
    /\ closed["out"] = FALSE /\ outPc = "connect" /\ conns # 0 =>
         options.tls = TRUE /\ conn[conns].secured = FALSE

\* While nothing fails, everything that was sent is accounted for until the listener
\* is closed at the end of the stream, and has arrived then.
EndInv ==
  /\ Smooth /\ closed["in"] = FALSE /\ listener = "open" => Accounted
  /\ Smooth /\ closed["in"] = FALSE /\ listener = "closed" => Done
  /\ result = "eos" => options.reconnect = FALSE /\ (Smooth => listener = "closed" /\ Done)

\* A step that at most closes descriptors that were open, at one of the ends
ClosingOut ==
  /\ UNCHANGED <<options, conns, resets>>
  /\ \E x : CutOut(x) /\ (x \in Links => conn[x].out = "open")
ClosingIn ==
  /\ UNCHANGED <<options, conns, resets>>
  /\ \E S : CutIn(S) /\ (\A c \in Links : c \in S => conn[c].in \in {"backlog", "open"})
Closing == ClosingOut \/ ClosingIn
-----------------------------------------------------------------------------
(***************************************************************************)
(* Streams: what the steps of either end do to the wire.                   *)
(***************************************************************************)
\* A step that leaves the wire alone closes nothing.
LEMMA Quiet ==
  ASSUME WireTyped, UNCHANGED <<options, conn, conns, resets>> PROVE ClosingOut /\ ClosingIn
<1>1. CutOut(0) /\ 0 \notin Links
  BY DEF CutOut, WireTyped, Links
<1>2. CutIn({})
  BY DEF CutIn, WireTyped
<1> QED
  BY <1>1, <1>2 DEF ClosingOut, ClosingIn

\* Closing an open descriptor of the sender is such a step.
LEMMA CutsOut ==
  ASSUME WireTyped, UNCHANGED <<options, conns, resets>>, NEW x, CutOut(x),
         x \in Links => conn[x].out = "open" PROVE ClosingOut
  BY DEF ClosingOut

\* Closing connections that the receiver has open or waiting is such a step.
LEMMA CutsIn ==
  ASSUME WireTyped, UNCHANGED <<options, conns, resets>>, NEW S, CutIn(S),
         \A c \in Links : c \in S => conn[c].in \in {"backlog", "open"} PROVE ClosingIn
  BY DEF ClosingIn

\* The descriptors that are closed were open.
LEMMA EndsOpen ==
  ASSUME WireTyped, SenderTyped, ReaderTyped, SenderInv, ReaderInv
  PROVE  /\ sock["out"] \in Links => conn[sock["out"]].out = "open"
         /\ outPc = "connected" /\ outFd \in Links => conn[outFd].out = "open"
         /\ sock["in"] \in Links => conn[sock["in"]].in = "open"
         /\ inPc = "accepted" /\ inFd \in Links => conn[inFd].in = "open"
         /\ 0 \notin Links
         /\ Backlog = {c \in Links : conn[c].in = "backlog"}
  BY DEF SenderInv, ReaderInv, Links, Backlog

\* What a step of the sending thread does to the wire.
LEMMA OutEffect ==
  ASSUME WireTyped, SenderTyped, ReaderTyped, SenderInv, ReaderInv, OutStep, spoiled' = FALSE
  PROVE  ClosingOut \/ Connect \/ OutSecured \/ Write
<1>F. ASSUME AttemptFails, UNCHANGED <<options, conns, resets>> PROVE ClosingOut
  <2>1. PICK x : x = IF KeepsSocket("out") THEN 0 ELSE sock["out"]
    OBVIOUS
  <2>2. CutOut(x)
    BY <1>F, <2>1, AttemptEffect
  <2>3. x \in Links => conn[x].out = "open"
    BY <2>1, EndsOpen
  <2> QED
    BY <1>F, <2>2, <2>3, CutsOut
<1>1. CASE SendCall \/ Try \/ StoreOut \/ Load
  BY <1>1, Quiet DEF SendCall, Try, StoreOut, Load, OutUnchanged
<1>2. CASE ConnectFails
  BY <1>2, <1>F, Quiet DEF ConnectFails, OutUnchanged
<1>3. CASE WriteFails \/ Caught
  BY <1>3, <1>F DEF WriteFails, Caught, OutUnchanged
<1>4. CASE Connected
  <2>1. PICK x : x = IF closed["out"] THEN outFd ELSE 0
    OBVIOUS
  <2>2. CutOut(x)
    BY <1>4, <2>1, ConnectedEffect
  <2>3. x \in Links => conn[x].out = "open"
    BY <1>4, <2>1, EndsOpen DEF Connected
  <2> QED
    BY <1>4, <2>2, <2>3, CutsOut DEF Connected, OutUnchanged
<1>5. CASE OutNotSecured
  <2>1. CASE CloseConnection("out")
    BY <1>5, <2>1, CutsOut, DroppedOut, EndsOpen DEF CloseConnection, OutNotSecured, OutUnchanged
  <2>2. CASE AttemptFails
    BY <1>5, <2>2, <1>F DEF OutNotSecured, OutUnchanged
  <2> QED
    BY <1>5, <2>1, <2>2 DEF OutNotSecured
<1> QED
  BY <1>1, <1>2, <1>3, <1>4, <1>5 DEF OutStep

\* What a step of the receiving thread does to the wire.
LEMMA InEffect ==
  ASSUME WireTyped, SenderTyped, ReaderTyped, SenderInv, ReaderInv, InStep \/ ReceiveCall
  PROVE  ClosingIn \/ Accept \/ Read
<1>U. InUnchanged => UNCHANGED <<options, conns, resets>>
  BY DEF InUnchanged
<1>K. ASSUME InUnchanged, Kept PROVE ClosingIn
  BY <1>K, <1>U, Quiet DEF Kept
<1>S. \A c \in Links : c \in {sock["in"]} => conn[c].in \in {"backlog", "open"}
  BY EndsOpen
<1>B. \A c \in Links : c \in {sock["in"]} \cup Backlog => conn[c].in \in {"backlog", "open"}
  BY EndsOpen
<1>C. ASSUME InUnchanged, CloseConnection("in") PROVE ClosingIn
  BY <1>C, <1>U, <1>S, CutsIn, ClosedConnection
<1>A. ASSUME InUnchanged, CloseAll("in") PROVE ClosingIn
  BY <1>A, <1>U, <1>B, CutsIn, ClosedAll
<1>V. ASSUME InUnchanged, Invalidate PROVE ClosingIn
  BY <1>V, <1>A, <1>C DEF Invalidate
<1>1. CASE ReceiveCall \/ Loop \/ AcceptEnds \/ InSecured \/ LoadHeader \/ LoadBody \/ ReadCancelled
  BY <1>1, <1>K DEF ReceiveCall, Loop, AcceptEnds, InSecured, LoadHeader, LoadBody, LoadIn,
     ReadCancelled
<1>2. CASE Store
  BY <1>2, <1>U, Quiet DEF Store
<1>3. CASE Accepted
  <2>1. PICK S : S = IF closed["in"] THEN {inFd} ELSE {}
    OBVIOUS
  <2>2. CutIn(S)
    BY <1>3, <2>1, AcceptedEffect
  <2>3. \A c \in Links : c \in S => conn[c].in \in {"backlog", "open"}
    BY <1>3, <2>1, EndsOpen DEF Accepted
  <2> QED
    BY <1>3, <1>U, <2>2, <2>3, CutsIn DEF Accepted
<1>4. CASE InNotSecured
  BY <1>4, <1>C DEF InNotSecured
<1>5. CASE ReadEof
  BY <1>5, <1>K, <1>V, <1>C, <1>A DEF ReadEof
<1>6. CASE ReadError \/ ReadDeadline
  BY <1>6, <1>K, <1>V DEF ReadError, ReadDeadline, CutOff
<1> QED
  BY <1>1, <1>2, <1>3, <1>4, <1>5, <1>6 DEF InStep

\* What close() does to the wire.
LEMMA CloseEffect ==
  ASSUME WireTyped, SenderTyped, ReaderTyped, SenderInv, ReaderInv, NEW e \in Ends,
         CloseCall(e) \/ Teardown(e)
  PROVE  Closing
<1>1. CASE CloseCall(e)
  BY <1>1, Quiet DEF CloseCall, wireVars, Closing
<1>2. CASE Teardown(e) /\ e = "out"
  BY <1>2, CutsOut, DroppedOut, EndsOpen DEF Teardown, CloseAll, Closing
<1>3. CASE Teardown(e) /\ e = "in"
  <2>1. \A c \in Links : c \in {sock["in"]} \cup Backlog => conn[c].in \in {"backlog", "open"}
    BY EndsOpen
  <2> QED
    BY <1>3, <2>1, CutsIn, ClosedAll DEF Teardown, Closing
<1> QED
  BY <1>1, <1>2, <1>3 DEF Ends
-----------------------------------------------------------------------------
(***************************************************************************)
(* Streams: the wire and the bytes on it.                                  *)
(***************************************************************************)
\* No cells are in any order.
LEMMA ChainedEmpty == Chained(<<>>) /\ \A t : Ahead(<<>>, t) /\ Ahead(t, <<>>)
  BY DEF Chained, Ahead

\* Taking the first cell off keeps the order of the others.
LEMMA ChainedTail ==
  ASSUME NEW s \in Seq(Cells), s # <<>>, Chained(s)
  PROVE  Chained(Tail(s)) /\ \A t : (Ahead(s, t) => Ahead(Tail(s), t)) /\ (Ahead(t, s) => Ahead(t, Tail(s)))
<1>1. Len(s) \in Nat /\ DOMAIN s = 1 .. Len(s)
  OBVIOUS
<1>2. PICK r : r = Tail(s)
  OBVIOUS
<1>3. DOMAIN r = 1 .. Len(s) - 1 /\ \A i \in DOMAIN r : i \in Nat /\ r[i] = s[i + 1] /\ i + 1 \in DOMAIN s
  BY <1>1, <1>2
<1>4. Chained(r)
  <2>1. ASSUME NEW i \in DOMAIN r, NEW j \in DOMAIN r, i < j PROVE Before(r[i], r[j])
    BY <1>1, <1>3, <2>1 DEF Chained
  <2>2. ASSUME NEW i \in DOMAIN r, i + 1 \in DOMAIN r
        PROVE IF r[i][2] = FrameCells THEN r[i + 1][2] = 1 ELSE r[i + 1] = <<r[i][1], r[i][2] + 1>>
    <3>1. r[i] = s[i + 1] /\ r[i + 1] = s[i + 1 + 1] /\ i + 1 \in DOMAIN s /\ i + 1 + 1 \in DOMAIN s
      BY <1>3, <2>2
    <3> QED
      BY <3>1 DEF Chained
  <2> QED
    BY <2>1, <2>2 DEF Chained
<1>5. ASSUME NEW t PROVE (Ahead(s, t) => Ahead(r, t)) /\ (Ahead(t, s) => Ahead(t, r))
  BY <1>3 DEF Ahead
<1> QED
  BY <1>2, <1>4, <1>5

\* A cell that follows the last keeps the order.
LEMMA ChainedAppend ==
  ASSUME NEW s \in Seq(Cells), NEW x \in Cells, Chained(s),
         \A i \in DOMAIN s : Before(s[i], x),
         s # <<>> => IF s[Len(s)][2] = FrameCells THEN x[2] = 1 ELSE x = <<s[Len(s)][1], s[Len(s)][2] + 1>>
  PROVE  Chained(Append(s, x))
<1>1. Len(s) \in Nat /\ DOMAIN s = 1 .. Len(s)
  OBVIOUS
<1>2. PICK r : r = Append(s, x)
  OBVIOUS
<1>3. DOMAIN r = 1 .. Len(s) + 1 /\ (\A i \in DOMAIN s : r[i] = s[i]) /\ r[Len(s) + 1] = x
  BY <1>1, <1>2
<1> HIDE <1>2
<1>4. ASSUME NEW i \in DOMAIN r, NEW j \in DOMAIN r, i < j PROVE Before(r[i], r[j])
  <2>1. i \in DOMAIN s
    BY <1>1, <1>3, <1>4
  <2>2. CASE j \in DOMAIN s
    BY <1>3, <1>4, <2>1, <2>2 DEF Chained
  <2>3. CASE j = Len(s) + 1
    BY <1>3, <1>4, <2>1, <2>3
  <2> QED
    BY <1>1, <1>3, <2>2, <2>3
<1>5. ASSUME NEW i \in DOMAIN r, i + 1 \in DOMAIN r
      PROVE IF r[i][2] = FrameCells THEN r[i + 1][2] = 1 ELSE r[i + 1] = <<r[i][1], r[i][2] + 1>>
  <2>1. i \in DOMAIN s
    BY <1>1, <1>3, <1>5
  <2>2. CASE i + 1 \in DOMAIN s
    BY <1>3, <1>5, <2>1, <2>2 DEF Chained
  <2>3. CASE i = Len(s)
    BY <1>1, <1>3, <1>5, <2>1, <2>3
  <2> QED
    BY <1>1, <1>3, <2>1, <2>2, <2>3
<1>6. Chained(r)
  BY <1>4, <1>5 DEF Chained
<1> QED
  BY <1>2, <1>6

\* So it does between connections.
LEMMA AheadAppend ==
  ASSUME NEW s \in Seq(Cells), NEW t \in Seq(Cells), NEW x \in Cells, Ahead(s, t),
         \A i \in DOMAIN s : Before(s[i], x)
  PROVE  Ahead(s, Append(t, x))
  BY DEF Ahead

\* The bytes of a connection are kept or thrown away.
Shrinks == \A c \in Links : conn'[c].bytes = conn[c].bytes \/ conn'[c].bytes = <<>>

\* Throwing bytes away keeps the order of the others.
LEMMA BytesShrink == ASSUME BytesInv, Shrinks PROVE BytesInv'
  BY ChainedEmpty DEF BytesInv, Shrinks

\* Every step but write_all and read_all does no more to the bytes.
LEMMA EffectShrinks ==
  ASSUME WireTyped, SenderTyped,
         Closing \/ Connect \/ OutSecured \/ Accept \/ (\E c \in Links : Reset(c))
  PROVE  Shrinks
  BY ConnectEffect, OutSecuredEffect, AcceptEffect, ResetEffect DEF Shrinks, Closing, ClosingOut,
     ClosingIn, CutOut, CutIn

\* A step preserves what is known of the wire.
LEMMA WireStep ==
  ASSUME WireTyped, SenderTyped, ReaderTyped, WireInv, SenderInv, ReaderInv, msg > 0 \/ ~Write,
         Closing \/ Connect \/ OutSecured \/ Write \/ Accept \/ Read \/ (\E c \in Links : Reset(c))
  PROVE  WireInv'
<1> USE StreamFacts
<1>1. CASE Closing
  BY <1>1 DEF Closing, ClosingOut, ClosingIn, CutOut, CutIn, WireInv
<1>2. CASE Connect
  BY <1>2, ConnectEffect DEF Connect, WireInv, WireTyped, Links
<1>3. CASE OutSecured
  BY <1>3, OutSecuredEffect DEF OutSecured, OutUnchanged, WireInv, SenderInv, WireTyped, Links
<1>4. CASE Write
  <2>1. outPc = "write" /\ outFd \in Links /\ outFd # 0 /\ conn[outFd].reset = FALSE
        /\ UNCHANGED <<options, conns, resets>>
    BY <1>4, WriteEffect DEF Write, OutUnchanged
  <2>2. outFd = conns /\ conn[outFd].secured = options.tls
    BY <2>1 DEF SenderInv
  <2>3. \A c \in Links : /\ conn'[c].reset = conn[c].reset /\ conn'[c].out = conn[c].out
                         /\ conn'[c].in = conn[c].in /\ conn'[c].secured = conn[c].secured
                         /\ conn'[c].bytes = conn[c].bytes \/ (c = outFd /\ conn[c].in # "closed")
    BY <1>4, WriteEffect
  <2>4. conns \in 0 .. MaxConns /\ ~(outFd > conns)
    BY <2>2 DEF WireTyped
  <2> QED
    BY <2>1, <2>2, <2>3, <2>4 DEF WireInv
<1>5. CASE Accept
  <2>1. UNCHANGED <<options, conns, resets>>
    BY <1>5 DEF Accept, InUnchanged
  <2> QED
    BY <1>5, <2>1, AcceptEffect DEF WireInv
<1>6. CASE Read
  BY <1>6, ReadEffect DEF Read, InUnchanged, Open, WireInv, WireTyped, Links
<1>7. ASSUME NEW c \in Links, Reset(c) PROVE WireInv'
  <2>1. UNCHANGED <<options, conns>> /\ resets' # 0 /\ conn[c].out = "open"
    BY <1>7 DEF Reset, WireTyped
  <2>2. conn'[c].bytes = <<>> /\ conn'[c].in = conn[c].in /\ conn'[c].out = conn[c].out
        /\ conn'[c].secured = conn[c].secured
    BY <1>7, ResetEffect
  <2>3. \A d \in Links \ {c} : conn'[d] = conn[d]
    BY <1>7, ResetEffect
  <2>4. ASSUME NEW d \in Links
        PROVE  /\ d > conns => /\ conn'[d].bytes = <<>> /\ conn'[d].out = "none" /\ conn'[d].in = "none"
                               /\ conn'[d].reset = FALSE /\ conn'[d].secured = FALSE
               /\ d <= conns => conn'[d].out # "none" /\ conn'[d].in # "none"
               /\ conn'[d].in = "closed" \/ conn'[d].reset = TRUE => conn'[d].bytes = <<>>
               /\ options.tls = FALSE => conn'[d].secured = FALSE
               /\ conn'[d].bytes # <<>> => conn'[d].secured = options.tls
    <3>1. CASE d = c
      BY <2>1, <2>2, <3>1 DEF WireInv
    <3>2. CASE d # c
      BY <2>3, <3>2 DEF WireInv
    <3> QED
      BY <3>1, <3>2
  <2> QED
    BY <2>1, <2>4 DEF WireInv
<1> QED
  BY <1>1, <1>2, <1>3, <1>4, <1>5, <1>6, <1>7

\* A step preserves the order of the bytes on the wire.
LEMMA BytesStep ==
  ASSUME WireTyped, SenderTyped, ReaderTyped, WireInv, SenderInv, BytesInv, OrderInv, TailInv,
         Closing \/ Connect \/ OutSecured \/ Write \/ Accept \/ Read \/ (\E c \in Links : Reset(c))
  PROVE  BytesInv'
<1> USE StreamFacts, StreamConstants
<1>1. CASE Shrinks
  BY <1>1, BytesShrink
<1>2. CASE Read
  <2>1. Chained(Tail(conn[inFd].bytes))
        /\ \A t : /\ Ahead(conn[inFd].bytes, t) => Ahead(Tail(conn[inFd].bytes), t)
                  /\ (Ahead(t, conn[inFd].bytes) => Ahead(t, Tail(conn[inFd].bytes)))
    BY <1>2, ReadEffect, ChainedTail DEF BytesInv
  <2> QED
    BY <1>2, <2>1, ReadEffect DEF BytesInv
<1>3. CASE Write
  <2>1. msg > 0 /\ outFd \in Links /\ outFd = conns /\ outPc = "write" /\ conn[outFd].out = "open"
        /\ conn[outFd].reset = FALSE /\ cursor + 1 # 1 + FrameCells
    BY <1>3 DEF Write, SenderInv, SenderTyped, Links
  <2>2. PICK x \in Cells : x = <<msg, cursor + 1>>
    BY <1>3, <2>1, WriteEffect
  <2>0. InSend
    BY <2>1 DEF InSend
  <2>3. ASSUME NEW c \in Links, NEW i \in DOMAIN conn[c].bytes PROVE Before(conn[c].bytes[i], x)
    <3>1. /\ conn[c].bytes[i][1] <= msg
          /\ conn[c].bytes[i][2] = FrameCells => conn[c].bytes[i][1] < msg
      BY <2>0 DEF OrderInv
    <3> QED
      BY <2>2, <3>1 DEF Before
  <2>4. ASSUME conn[outFd].in # "closed", conn[outFd].bytes # <<>>
        PROVE  LET s == conn[outFd].bytes
               IN  IF s[Len(s)][2] = FrameCells THEN x[2] = 1 ELSE x = <<s[Len(s)][1], s[Len(s)][2] + 1>>
    <3>1. Tails(conn[outFd].bytes)
      BY <2>1, <2>4 DEF TailInv, Live, GaveUp
    <3> QED
      BY <2>1, <2>2, <2>4, <3>1 DEF Tails, SenderTyped
  <2>5. conn[outFd].in # "closed" => Chained(Append(conn[outFd].bytes, x))
    BY <2>1, <2>2, <2>3, <2>4, ChainedAppend DEF BytesInv
  <2>6. ASSUME NEW c \in Links, c < outFd PROVE Ahead(conn[c].bytes, Append(conn[outFd].bytes, x))
    BY <2>1, <2>2, <2>3, <2>6, AheadAppend DEF BytesInv
  <2>7. ASSUME NEW c \in Links, outFd < c PROVE conn[c].bytes = <<>>
    BY <2>1, <2>7 DEF WireInv, WireTyped, Links
  <2>8. \A c \in Links : conn'[c].bytes =
          IF c = outFd /\ conn[c].in # "closed" THEN Append(conn[c].bytes, x) ELSE conn[c].bytes
    BY <1>3, <2>1, <2>2, WriteEffect
  <2>9. ASSUME NEW c \in Links PROVE Chained(conn'[c].bytes)
    BY <2>5, <2>8 DEF BytesInv
  <2>10. ASSUME NEW c \in Links, NEW d \in Links, c < d PROVE Ahead(conn'[c].bytes, conn'[d].bytes)
    <3>1. CASE d = outFd
      BY <2>6, <2>8, <2>10, <3>1 DEF BytesInv, Links
    <3>2. CASE c = outFd
      BY <2>7, <2>8, <2>10, <3>2, ChainedEmpty DEF Links
    <3>3. CASE c # outFd /\ d # outFd
      BY <2>8, <2>10, <3>3 DEF BytesInv
    <3> QED
      BY <3>1, <3>2, <3>3
  <2> QED
    BY <2>9, <2>10 DEF BytesInv
<1> QED
  BY <1>1, <1>2, <1>3, EffectShrinks
-----------------------------------------------------------------------------
(***************************************************************************)
(* Streams: the descriptors of either end.                                 *)
(***************************************************************************)
\* A step of the sending thread keeps track of its descriptors.
LEMMA SenderOut ==
  ASSUME WireTyped, SenderTyped, WireInv, SenderInv, OutStep, spoiled' = FALSE
  PROVE  SenderInv'
<1>F. ASSUME AttemptFails, UNCHANGED <<options, conns, closed, teardown, msg, sent>>,
             outPc \in {"connect", "secure", "write", "thrown"}
      PROVE  SenderInv'
  <2>1. /\ outFd' = 0 /\ cursor' = 0
        /\ \/ attempt = 0 /\ attempt' = 0 /\ outPc' = "dead"
           \/ attempt # 0 /\ attempt' # 0 /\ outPc' = "try" /\ options.kind = "tcp"
           \/ attempt # 0 /\ attempt' # 0 /\ outPc' = "idle"
    <3>1. attempt \in 0 .. 2 /\ options.reconnect \in BOOLEAN /\ options.kind \in {"tcp", "unix"}
          /\ (options.kind = "unix" => options.reconnect = FALSE)
      BY StreamFacts DEF SenderTyped
    <3>2. CASE options.reconnect = TRUE
      BY <1>F, <3>1, <3>2 DEF AttemptFails, EndAttempt, Constructing, Attempts
    <3>3. CASE options.reconnect = FALSE
      BY <1>F, <3>1, <3>3 DEF AttemptFails, EndAttempt, Constructing, Attempts
    <3> QED
      BY <3>1, <3>2, <3>3
  <2>2. CASE KeepsSocket("out")
    <3>1. UNCHANGED <<conn, sock>> /\ options.kind # "tcp" /\ closed["out"] = TRUE /\ options.tls = FALSE
      BY <1>F, <2>2, StreamFacts DEF AttemptFails, KeepsSocket, Tcp
    <3> QED
      BY <1>F, <2>1, <3>1 DEF SenderInv, Links, WireTyped
  <2>3. CASE ~KeepsSocket("out")
    <3>1. CutOut(sock["out"]) /\ sock'["out"] = 0
      BY <1>F, <2>3, AttemptEffect DEF AttemptFails, EndAttempt, CloseConnection, WireTyped, Ends
    <3> QED
      BY <1>F, <2>1, <3>1 DEF SenderInv, Links, WireTyped, CutOut
  <2> QED
    BY <2>2, <2>3
<1>1. CASE SendCall
  BY <1>1, StreamFacts DEF SendCall, OutUnchanged, SendsUnix, Tcp, SenderInv, WireTyped, SenderTyped
<1>2. CASE Try
  BY <1>2, StreamFacts DEF Try, OutUnchanged, SenderInv, WireTyped, SenderTyped
<1>3. CASE Connect
  BY <1>3, ConnectEffect, StreamFacts DEF Connect, endVars, WireInv, SenderInv, WireTyped, SenderTyped,
     Links
<1>4. CASE ConnectFails
  BY <1>4, <1>F, StreamFacts DEF ConnectFails, NextTry, OutUnchanged, SenderInv, WireTyped, SenderTyped, Links
<1>5. CASE Connected
  BY <1>5, ConnectedEffect, StreamFacts DEF Connected, CutOut, OutUnchanged, SenderInv, WireTyped,
     SenderTyped, Links
<1>6. CASE StoreOut
  BY <1>6, StreamFacts DEF StoreOut, OutUnchanged, SenderInv, WireTyped, SenderTyped, Links, Ends
<1>7. CASE OutSecured
  BY <1>7, OutSecuredEffect, StreamFacts DEF OutSecured, Constructing, OutUnchanged, SenderInv,
     WireTyped, SenderTyped, Links
<1>8. CASE OutNotSecured
  <2>1. CASE AttemptFails
    BY <1>8, <2>1, <1>F DEF OutNotSecured, OutUnchanged
  <2>2. CASE CloseConnection("out") /\ outPc' \in {"connect", "thrown"} /\ outFd' = 0
             /\ UNCHANGED <<attempt, cursor>>
    <3>1. CutOut(sock["out"]) /\ sock'["out"] = 0
      BY <2>2, DroppedOut DEF CloseConnection, WireTyped, Ends
    <3>2. outPc = "secure" /\ UNCHANGED <<options, conns, closed, teardown, msg, sent>>
      BY <1>8 DEF OutNotSecured, OutUnchanged
    <3> QED
      BY <2>2, <3>1, <3>2 DEF SenderInv, Links, WireTyped, CutOut
  <2> QED
    BY <1>8, <2>1, <2>2 DEF OutNotSecured, NextTry
<1>9. CASE Load
  BY <1>9, StreamFacts DEF Load, OutUnchanged, SenderInv, WireTyped, SenderTyped, Links
<1>10. CASE Write
  BY <1>10, WriteEffect, StreamFacts DEF Write, Written, OutUnchanged, SenderInv, WireTyped,
     SenderTyped, Links
<1>11. CASE WriteFails \/ Caught
  BY <1>11, <1>F DEF WriteFails, Caught, OutUnchanged
<1> QED
  BY <1>1, <1>2, <1>3, <1>4, <1>5, <1>6, <1>7, <1>8, <1>9, <1>10, <1>11 DEF OutStep

\* A step that leaves the sender's end alone preserves what is known of it.
LEMMA SenderKept ==
  ASSUME WireTyped, SenderInv, UNCHANGED <<options, conns, outVars>>,
         sock'["out"] = sock["out"], closed'["out"] = closed["out"], teardown'["out"] = teardown["out"],
         \A c \in Links : /\ conn'[c].out = conn[c].out /\ conn'[c].secured = conn[c].secured
                          /\ conn[c].bytes = <<>> => conn'[c].bytes = <<>>
  PROVE  SenderInv'
<1>1. UNCHANGED <<outPc, outFd, attempt, tries, cursor, msg, sent>>
  BY DEF outVars
<1>2. outFd # 0 /\ outFd = conns => outFd \in Links
  BY DEF Links, WireTyped
<1> QED
  BY <1>1, <1>2, StreamFacts DEF SenderInv, Links

\* A step of the receiving thread does not concern the sender's descriptors.
LEMMA SenderIn ==
  ASSUME WireTyped, SenderTyped, ReaderTyped, WireInv, SenderInv, ReaderInv, InStep \/ ReceiveCall
  PROVE  SenderInv'
<1>0. InUnchanged /\ sock'["out"] = sock["out"]
  BY DEF InStep, ReceiveCall, Loop, Accept, AcceptEnds, Accepted, Store, InSecured, InNotSecured,
     LoadHeader, LoadBody, LoadIn, Read,
         ReadEof, ReadError, ReadDeadline, ReadCancelled, Kept, CutOff, Invalidate, CloseConnection,
         CloseAll, WireTyped, Ends
<1>1. \A c \in Links : /\ conn'[c].out = conn[c].out /\ conn'[c].secured = conn[c].secured
                       /\ conn[c].bytes = <<>> => conn'[c].bytes = <<>>
  <2>1. CASE Accept
    BY <2>1, AcceptEffect
  <2>2. CASE Read
    BY <2>2, ReadEffect
  <2>3. CASE ClosingIn
    BY <2>3 DEF ClosingIn, CutIn
  <2> QED
    BY <2>1, <2>2, <2>3, InEffect
<1> QED
  BY <1>0, <1>1, SenderKept DEF InUnchanged

\* close() at any point loses no descriptor of the sender.
LEMMA SenderClose ==
  ASSUME WireTyped, SenderTyped, ReaderTyped, WireInv, SenderInv, ReaderInv, NEW e \in Ends,
         CloseCall(e) \/ Teardown(e)
  PROVE  SenderInv'
<1>1. CASE CloseCall(e)
  BY <1>1, StreamFacts DEF CloseCall, wireVars, outVars, SenderInv, WireTyped, SenderTyped, Links,
     Ends, Constructing
<1>2. CASE Teardown(e) /\ e = "out"
  <2>1. CutOut(sock["out"])
    BY <1>2, DroppedOut DEF Teardown, CloseAll
  <2>2. /\ sock'["out"] = 0
        /\ UNCHANGED <<options, conns, closed, outPc, outFd, attempt, cursor, msg, sent>>
        /\ closed["out"] = TRUE
    BY <1>2, StreamFacts DEF Teardown, CloseAll, WireTyped, Ends, outVars, SenderInv
  <2>3. outFd # 0 /\ outFd = conns => outFd \in Links
    BY DEF Links, WireTyped
  <2>4. \A c \in Links : /\ conn'[c].bytes = conn[c].bytes /\ conn'[c].secured = conn[c].secured
                         /\ c # sock["out"] => conn'[c].out = conn[c].out
                         /\ c = sock["out"] => conn'[c].out = "closed"
    BY <2>1 DEF CutOut
  <2> QED
    BY <2>2, <2>3, <2>4 DEF SenderInv
<1>3. CASE Teardown(e) /\ e = "in"
  <2>1. CutIn({sock["in"]} \cup Backlog)
    BY <1>3, ClosedAll DEF Teardown
  <2>2. /\ sock'["out"] = sock["out"] /\ teardown'["out"] = teardown["out"]
        /\ closed'["out"] = closed["out"]
        /\ UNCHANGED <<options, conns, outVars>>
    BY <1>3 DEF Teardown, CloseAll, WireTyped, Ends
  <2> QED
    BY <2>1, <2>2, SenderKept DEF CutIn
<1> QED
  BY <1>1, <1>2, <1>3 DEF Ends

\* A reset loses no descriptor of the sender.
LEMMA SenderReset ==
  ASSUME WireTyped, SenderInv, NEW c \in Links, Reset(c)
  PROVE  SenderInv'
<1>1. \A d \in Links : /\ conn'[d].out = conn[d].out /\ conn'[d].secured = conn[d].secured
                       /\ conn[d].bytes = <<>> => conn'[d].bytes = <<>>
  <2>1. ASSUME NEW d \in Links \ {c} PROVE conn'[d] = conn[d]
    BY ResetEffect
  <2>2. conn'[c].bytes = <<>> /\ conn'[c].out = conn[c].out /\ conn'[c].secured = conn[c].secured
    BY ResetEffect
  <2> QED
    BY <2>1, <2>2
<1> QED
  BY <1>1, SenderKept DEF Reset, endVars

\* A step that leaves the receiver's end alone preserves what is known of it.
LEMMA ReaderKept ==
  ASSUME WireTyped, ReaderTyped, WireInv, ReaderInv, UNCHANGED <<options, inPc, inFd>>,
         sock'["in"] = sock["in"], closed'["in"] = closed["in"], teardown'["in"] = teardown["in"],
         \A c \in Links : /\ conn'[c].in = conn[c].in \/ (conn[c].in = "none" /\ conn'[c].in = "backlog")
                          /\ conn'[c].secured = conn[c].secured \/ conn'[c].secured = options.tls
  PROVE  ReaderInv'
<1>1. /\ sock["in"] \in 0 .. MaxConns /\ inFd \in 0 .. MaxConns /\ Links = 1 .. MaxConns
      /\ sock["in"] # 0 => sock["in"] \in Links
      /\ inFd # 0 => inFd \in Links
  BY StreamFacts DEF ReaderTyped, Links
<1>2. \A c \in Links : /\ conn'[c].in = "open" <=> conn[c].in = "open"
                       /\ conn[c].in = "closed" => conn'[c].in = "closed"
                       /\ conn[c].secured = options.tls => conn'[c].secured = options.tls
  OBVIOUS
<1>3. UNCHANGED <<options, inPc, inFd>> /\ sock'["in"] = sock["in"] /\ closed'["in"] = closed["in"]
      /\ teardown'["in"] = teardown["in"]
  OBVIOUS
<1> QED
  BY <1>1, <1>2, <1>3 DEF ReaderInv

\* A step of the sending thread does not concern the receiver's descriptors.
LEMMA ReaderOut ==
  ASSUME WireTyped, SenderTyped, ReaderTyped, WireInv, SenderInv, ReaderInv, OutStep,
         outPc = "write" => msg > 0, spoiled' = FALSE
  PROVE  ReaderInv'
<1>0. sock'["in"] = sock["in"] /\ UNCHANGED <<options, closed, teardown, inPc, inFd>>
  BY DEF OutStep, SendCall, Try, Connect, ConnectFails, NextTry, Connected, StoreOut, OutSecured, OutNotSecured,
     Load, Write,
         WriteFails, Caught, AttemptFails, EndAttempt, CloseConnection, OutUnchanged, endVars, inVars, WireTyped, Ends
<1>1. \A c \in Links : /\ conn'[c].in = conn[c].in \/ (conn[c].in = "none" /\ conn'[c].in = "backlog")
                       /\ conn'[c].secured = conn[c].secured \/ conn'[c].secured = options.tls
  <2>1. CASE Connect
    BY <2>1, ConnectEffect DEF WireInv, WireTyped
  <2>2. CASE OutSecured
    BY <2>2, OutSecuredEffect
  <2>3. CASE Write
    BY <2>3, WriteEffect DEF Write
  <2>4. CASE ClosingOut
    BY <2>4 DEF ClosingOut, CutOut
  <2> QED
    BY <2>1, <2>2, <2>3, <2>4, OutEffect
<1> QED
  BY <1>0, <1>1, ReaderKept

\* A reset loses no descriptor of the receiver.
LEMMA ReaderReset ==
  ASSUME WireTyped, ReaderTyped, WireInv, ReaderInv, NEW c \in Links, Reset(c)
  PROVE  ReaderInv'
<1>1. \A d \in Links : conn'[d].in = conn[d].in /\ conn'[d].secured = conn[d].secured
  <2>1. ASSUME NEW d \in Links \ {c} PROVE conn'[d] = conn[d]
    BY ResetEffect
  <2>2. conn'[c].in = conn[c].in /\ conn'[c].secured = conn[c].secured
    BY ResetEffect
  <2> QED
    BY <2>1, <2>2
<1> QED
  BY <1>1, ReaderKept DEF Reset, endVars, inVars

\* close() at any point loses no descriptor of the receiver.
LEMMA ReaderClose ==
  ASSUME WireTyped, SenderTyped, ReaderTyped, WireInv, SenderInv, ReaderInv, NEW e \in Ends,
         CloseCall(e) \/ Teardown(e)
  PROVE  ReaderInv'
<1>1. CASE CloseCall(e)
  BY <1>1, StreamFacts DEF CloseCall, wireVars, inVars, ReaderInv, WireTyped, ReaderTyped, Links, Ends
<1>2. CASE Teardown(e) /\ e = "in"
  <2>1. CutIn({sock["in"]} \cup Backlog)
    BY <1>2, ClosedAll DEF Teardown
  <2>2. /\ sock'["in"] = 0 /\ UNCHANGED <<options, closed, inPc, inFd>>
        /\ closed["in"] = TRUE
    BY <1>2, StreamFacts DEF Teardown, CloseAll, WireTyped, Ends, inVars, ReaderInv
  <2>3. \A c \in Links : conn[c].in = "open" => c \notin Backlog
    BY DEF Backlog
  <2> QED
    BY <2>1, <2>2, <2>3 DEF ReaderInv, Links, ReaderTyped, CutIn, Backlog
<1>3. CASE Teardown(e) /\ e = "out"
  <2>1. CutOut(sock["out"])
    BY <1>3, DroppedOut DEF Teardown, CloseAll
  <2>2. /\ sock'["in"] = sock["in"] /\ teardown'["in"] = teardown["in"] /\ closed'["in"] = closed["in"]
        /\ UNCHANGED <<options, inPc, inFd>>
    BY <1>3 DEF Teardown, CloseAll, WireTyped, Ends, inVars
  <2> QED
    BY <2>1, <2>2, ReaderKept DEF CutOut
<1> QED
  BY <1>1, <1>2, <1>3 DEF Ends
-----------------------------------------------------------------------------
(***************************************************************************)
(* Streams: the frame that is being read.                                  *)
(***************************************************************************)
\* What a receive that returns leaves behind.
LEMMA ReturnFacts ==
  ASSUME NEW r, Return(r)
  PROVE  /\ inPc' = "idle" /\ inFd' = 0 /\ frame' = <<>> /\ received' = received
         /\ closed["in"] => result' = "cancelled"
         /\ ~closed["in"] => result' = r
  BY DEF Return

\* A step of the receiving thread keeps track of its descriptors.
LEMMA ReaderIn ==
  ASSUME WireTyped, SenderTyped, ReaderTyped, WireInv, SenderInv, ReaderInv, InStep \/ ReceiveCall
  PROVE  ReaderInv'
<1>O. InUnchanged => UNCHANGED <<options, closed, teardown>>
  BY DEF InUnchanged
<1>L. sock["in"] # 0 => sock["in"] \in Links
  BY StreamFacts DEF Links
<1>I. inFd # 0 => inFd \in Links
  BY DEF ReaderTyped, Links
<1>K. ASSUME InUnchanged, Kept, inPc' \notin {"accepted", "store", "secure", "header", "reload", "body"},
             inPc \notin {"accepted", "store", "secure"}, inPc' = "accept" => sock["in"] = 0
      PROVE  ReaderInv'
  BY <1>K, <1>O DEF Kept, ReaderInv
<1>C. ASSUME InUnchanged, CutIn({sock["in"]}), sock'["in"] = 0, inPc' \in {"idle", "loop"},
             inPc \notin {"accepted", "store"}
      PROVE  ReaderInv'
  BY <1>C, <1>O, <1>L DEF CutIn, ReaderInv
<1>A. ASSUME InUnchanged, CloseAll("in"), inPc' = "idle", inPc \notin {"accepted", "store"}
      PROVE  ReaderInv'
  <2>1. CutIn({sock["in"]} \cup Backlog) /\ sock'["in"] = 0
    BY <1>A, ClosedAll DEF CloseAll, WireTyped, Ends
  <2>2. \A c \in Links : conn[c].in = "open" => c \notin Backlog
    BY DEF Backlog
  <2> QED
    BY <1>A, <1>O, <1>L, <2>1, <2>2 DEF CutIn, ReaderInv
<1>D. ASSUME InUnchanged, CloseConnection("in"), inPc' \in {"idle", "loop"},
             inPc \notin {"accepted", "store"}
      PROVE  ReaderInv'
  <2>1. CutIn({sock["in"]}) /\ sock'["in"] = 0
    BY <1>D, ClosedConnection DEF CloseConnection, WireTyped, Ends
  <2> QED
    BY <1>D, <2>1, <1>C
<1>V. ASSUME InUnchanged, Invalidate, inPc' = "idle", inPc \notin {"accepted", "store"}
      PROVE  ReaderInv'
  BY <1>V, <1>A, <1>D DEF Invalidate
<1>1. CASE ReceiveCall
  BY <1>1, <1>K DEF ReceiveCall
<1>2. CASE Loop
  BY <1>2, <1>K DEF Loop, Return, Goto
<1>3. CASE Accept
  <2>1. InUnchanged /\ inPc = "accept" /\ inPc' = "accepted" /\ sock' = sock
    BY <1>3 DEF Accept, Goto
  <2> QED
    BY <1>3, <1>O, <1>L, <2>1, AcceptEffect DEF ReaderInv, Links
<1>4. CASE AcceptEnds
  BY <1>4, <1>K DEF AcceptEnds, Return
<1>5. CASE Accepted
  <2>1. InUnchanged /\ inPc = "accepted" /\ sock' = sock
    BY <1>5 DEF Accepted
  <2>2. CASE closed["in"] = TRUE
    <3>1. CutIn({inFd}) /\ inPc' = "idle"
      BY <1>5, <2>2, AcceptedEffect DEF Accepted, Return
    <3> QED
      BY <1>O, <1>I, <2>1, <2>2, <3>1 DEF CutIn, ReaderInv
  <2>3. CASE closed["in"] = FALSE
    BY <1>5, <1>O, <2>1, <2>3 DEF Accepted, Goto, ReaderInv
  <2> QED
    BY <2>2, <2>3, StreamFacts
<1>6. CASE Store
  <2>1. InUnchanged /\ inPc = "store" /\ sock'["in"] = inFd /\ UNCHANGED conn
        /\ (Tcp => inPc' = "secure" /\ inFd' = inFd) /\ (~Tcp => inPc' \in {"load", "idle"})
    BY <1>6 DEF Store, Thrown, Return, Goto, WireTyped, Ends
  <2>4. inFd \in Links /\ inFd # 0 /\ conn[inFd].in = "open" /\ sock["in"] = 0
    BY <1>I, <2>1 DEF ReaderInv
  <2>5. \A c \in Links : conn[c].in = "open" => c = inFd
    BY <1>I, <2>1, <2>4 DEF ReaderInv, Links
  <2>6. UNCHANGED <<options, closed, teardown, conn>> /\ sock'["in"] = inFd
        /\ (teardown["in"] = TRUE => closed["in"] = TRUE)
    BY <1>O, <2>1 DEF ReaderInv
  <2>2. CASE Tcp
    <3>1. inPc' = "secure" /\ inFd' = inFd
      BY <2>1, <2>2
    <3> QED
      BY <2>4, <2>5, <2>6, <3>1 DEF ReaderInv
  <2>3. CASE ~Tcp
    <3>1. options.kind # "tcp" /\ options.tls = FALSE
      BY <2>3, StreamFacts DEF Tcp
    <3>2. inFd \in Links => conn[inFd].secured = FALSE
      BY <3>1 DEF WireInv
    <3>3. inPc' \in {"load", "idle"}
      BY <2>1, <2>3
    <3> QED
      BY <2>4, <2>5, <2>6, <3>1, <3>2, <3>3 DEF ReaderInv
  <2> QED
    BY <2>2, <2>3
<1>7. CASE InSecured
  <2>1. InUnchanged /\ Kept /\ inPc = "secure" /\ ~closed["in"] /\ conn[inFd].secured = options.tls
    BY <1>7 DEF InSecured, ClosedMeanwhile
  <2>2. (inPc' = "load" /\ inFd' = inFd) \/ inPc' = "idle"
    BY <1>7 DEF InSecured, Thrown, Goto, Return
  <2> QED
    BY <1>O, <1>L, <2>1, <2>2, StreamFacts DEF Kept, ReaderInv
<1>8. CASE InNotSecured
  BY <1>8, <1>D DEF InNotSecured, Return
<1>9. CASE LoadHeader \/ LoadBody
  BY <1>9, <1>O DEF LoadHeader, LoadBody, LoadIn, Goto, Kept, ReaderInv
<1>10. CASE Read
  <2>1. InUnchanged /\ sock' = sock /\ inPc \in {"header", "body"} /\ inFd \in Links
    BY <1>10, <1>I DEF Read, Reading, Open
  <2>2. \/ inPc' = inPc /\ inFd' = inFd
        \/ inPc' = "idle"
        \/ inPc' = "reload" /\ inFd' = inFd
    <3>1. PICK cells : cells = Append(frame, Head(conn[inFd].bytes))
      OBVIOUS
    <3>2. \/ frame' = cells /\ UNCHANGED <<inPc, inFd, deadline, received, result, failedBefore>>
          \/ Return("cancelled")
          \/ frame' = cells /\ inPc' = "reload" /\ UNCHANGED <<inFd, deadline, received, result, failedBefore>>
          \/ Deliver(cells) \/ Return("error")
      BY <3>1, <1>10 DEF Read, Thrown
    <3> QED
      BY <3>2 DEF Return, Deliver
  <2>3. \A c \in Links : conn'[c].in = conn[c].in /\ conn'[c].secured = conn[c].secured
    BY <1>10, ReadEffect
  <2>4. UNCHANGED <<options, closed, teardown, sock>>
    BY <1>O, <2>1
  <2>5. CASE inPc' = inPc /\ inFd' = inFd
    BY <1>L, <2>1, <2>3, <2>4, <2>5 DEF ReaderInv
  <2>6. CASE inPc' = "idle"
    BY <1>L, <2>1, <2>3, <2>4, <2>6 DEF ReaderInv
  <2>7. CASE inPc' = "reload" /\ inFd' = inFd
    BY <1>L, <2>1, <2>3, <2>4, <2>7 DEF ReaderInv, Links
  <2> QED
    BY <2>2, <2>5, <2>6, <2>7
<1>11. CASE ReadEof
  BY <1>11, <1>K, <1>V, <1>A, <1>D DEF ReadEof, Reading, Return, Goto
<1>12. CASE ReadError
  BY <1>12, <1>K, <1>V DEF ReadError, Reading, Return
<1>13. CASE ReadDeadline
  BY <1>13, <1>K, <1>V DEF ReadDeadline, CutOff, Reading, Return
<1>14. CASE ReadCancelled
  BY <1>14, <1>K DEF ReadCancelled, Reading, Return
<1> QED
  BY <1>1, <1>2, <1>3, <1>4, <1>5, <1>6, <1>7, <1>8, <1>9, <1>10, <1>11, <1>12, <1>13, <1>14 DEF InStep

\* read_all makes the frame longer by the cell that follows, and goes on from header
\* to payload to the delivery at the right lengths.
LEMMA ReadFacts ==
  ASSUME WireTyped, ReaderTyped, ReaderInv, FrameInv, HeadInv, Read, NEW cells,
         cells = Append(frame, Head(conn[inFd].bytes))
  PROVE  /\ inFd \in Links /\ inFd = sock["in"] /\ cells \in Seq(Cells) /\ Len(cells) = Len(frame) + 1
         /\ Len(cells) \in Nat
         /\ \A i \in DOMAIN cells : cells[i][1] = cells[1][1] /\ cells[i][2] = i
         /\ cells[Len(cells)] = conn[inFd].bytes[1] /\ Head(cells) = cells[1]
         /\ \/ /\ inPc = "header" /\ Len(cells) < HeaderCells
               /\ frame' = cells /\ UNCHANGED <<inPc, inFd, deadline, received, result, failedBefore>>
            \/ Return("cancelled") /\ closed["in"] = TRUE
            \/ /\ inPc = "header" /\ Len(cells) = HeaderCells
               /\ frame' = cells /\ inPc' = "reload"
               /\ UNCHANGED <<inFd, deadline, received, result, failedBefore>>
            \/ /\ inPc = "body" /\ Len(cells) < FrameCells /\ HeaderCells < Len(cells)
               /\ frame' = cells /\ UNCHANGED <<inPc, inFd, deadline, received, result, failedBefore>>
            \/ /\ inPc = "body" /\ Len(cells) = FrameCells /\ closed["in"] = FALSE
               /\ Deliver(cells) \/ Return("error")
<1>1. inFd \in Links /\ conn[inFd].bytes \in Seq(Cells) /\ conn[inFd].bytes # <<>>
      /\ conn[inFd].in = "open" /\ inPc \in {"header", "body"} /\ inFd # 0
  BY ReadEffect DEF Read, Reading, Open
<1>2. inFd = sock["in"]
  BY <1>1 DEF ReaderInv
<1>3. PICK h \in Cells : h = conn[inFd].bytes[1] /\ h = Head(conn[inFd].bytes)
  BY <1>1
<1>4. frame \in Seq(Cells) /\ Len(frame) \in Nat
  BY DEF ReaderTyped
<1>5. /\ cells \in Seq(Cells) /\ Len(cells) = Len(frame) + 1 /\ Len(cells) \in Nat
      /\ DOMAIN cells = 1 .. Len(frame) + 1
      /\ (\A i \in 1 .. Len(frame) : cells[i] = frame[i])
      /\ cells[Len(frame) + 1] = h /\ Head(cells) = cells[1]
  BY <1>3, <1>4
<1>6. ~Over
  BY <1>1 DEF Over
<1>7. IF frame = <<>> THEN h[2] = 1 ELSE h = <<frame[1][1], Len(frame) + 1>>
  BY <1>1, <1>2, <1>3, <1>6 DEF HeadInv, ReadSoFar, Heads
<1>8. ASSUME NEW i \in DOMAIN cells PROVE cells[i][1] = cells[1][1] /\ cells[i][2] = i
  <2>1. CASE frame = <<>>
    BY <1>4, <1>5, <1>7, <2>1
  <2>2. CASE frame # <<>>
    <3>1. 1 \in 1 .. Len(frame) /\ cells[1] = frame[1]
      BY <1>4, <1>5, <2>2
    <3>2. CASE i \in 1 .. Len(frame)
      BY <1>4, <1>5, <3>1, <3>2 DEF FrameInv
    <3>3. CASE i = Len(frame) + 1
      BY <1>5, <1>7, <2>2, <3>1, <3>3
    <3> QED
      BY <1>4, <1>5, <3>2, <3>3
  <2> QED
    BY <2>1, <2>2
<1>9. /\ inPc = "header" => Len(frame) < HeaderCells
      /\ inPc = "body" => HeaderCells <= Len(frame) /\ Len(frame) < FrameCells
  BY DEF FrameInv
<1>10. closed["in"] \in BOOLEAN
  BY StreamFacts
<1>11. PICK last : last = IF inPc = "header" THEN HeaderCells ELSE FrameCells
  OBVIOUS
<1>12. /\ inPc = "header" => last = HeaderCells /\ Len(cells) <= last
       /\ inPc = "body" => last = FrameCells /\ Len(cells) <= last /\ HeaderCells < Len(cells)
       /\ last \in Nat
  BY <1>4, <1>5, <1>9, <1>11, StreamConstants
<1>13. CASE Len(cells) < last
  <2>1. frame' = cells /\ UNCHANGED <<inPc, inFd, deadline, received, result, failedBefore>>
    <3>1. Len(cells) # last /\ (Len(cells) = HeaderCells => FALSE)
      BY <1>1, <1>12, <1>13, <1>5
    <3> QED
      BY <1>11, <1>13, <3>1 DEF Read
  <2> QED
    BY <1>1, <1>2, <1>3, <1>5, <1>8, <1>12, <1>13, <2>1
<1>14. CASE Len(cells) = last /\ closed["in"] = TRUE
  <2>1. Return("cancelled")
    <3>1. ~(Len(cells) < last)
      BY <1>12, <1>14
    <3> QED
      BY <1>11, <1>14, <3>1 DEF Read
  <2> QED
    BY <1>1, <1>2, <1>3, <1>5, <1>8, <1>14, <2>1
<1>15. CASE Len(cells) = last /\ closed["in"] = FALSE /\ inPc = "header"
  <2>1. frame' = cells /\ inPc' = "reload" /\ UNCHANGED <<inFd, deadline, received, result, failedBefore>>
    <3>1. ~(Len(cells) < last) /\ Len(cells) = HeaderCells
      BY <1>12, <1>15
    <3> QED
      BY <1>11, <1>15, <3>1 DEF Read
  <2> QED
    BY <1>1, <1>2, <1>3, <1>5, <1>8, <1>12, <1>15, <2>1
<1>16. CASE Len(cells) = last /\ closed["in"] = FALSE /\ inPc = "body"
  <2>1. Deliver(cells) \/ Return("error")
    <3>1. ~(Len(cells) < last) /\ Len(cells) # HeaderCells
      BY <1>12, <1>16, <1>5, StreamConstants
    <3> QED
      BY <1>11, <1>16, <3>1 DEF Read, Thrown
  <2> QED
    BY <1>1, <1>2, <1>3, <1>5, <1>8, <1>12, <1>16, <2>1
<1>17. Len(cells) < last \/ Len(cells) = last
  BY <1>1, <1>5, <1>12
<1> QED
  BY <1>1, <1>10, <1>13, <1>14, <1>15, <1>16, <1>17

\* A step of the receiving thread keeps the frame aligned.
LEMMA FrameStep ==
  ASSUME WireTyped, ReaderTyped, ReaderInv, FrameInv, HeadInv, InStep \/ ReceiveCall
  PROVE  FrameInv'
<1>R. ASSUME NEW r, Return(r) PROVE FrameInv'
  BY <1>R DEF Return, FrameInv
<1>G. ASSUME NEW pc \in {"loop", "load", "accept", "accepted", "store", "secure"}, Goto(pc),
             inPc \notin {"header", "reload", "body"} \/ frame = <<>>
      PROVE FrameInv'
  BY <1>G DEF Goto, FrameInv
<1>1. CASE ReceiveCall
  BY <1>1 DEF ReceiveCall, FrameInv
<1>2. CASE Loop \/ AcceptEnds \/ Accepted \/ InSecured \/ InNotSecured
  BY <1>2, <1>R, <1>G DEF Loop, AcceptEnds, Accepted, InSecured, InNotSecured, Thrown
<1>3. CASE Accept \/ Store
  BY <1>3, <1>R, <1>G DEF Accept, Store, Thrown
<1>4. CASE LoadHeader
  BY <1>4, StreamConstants DEF LoadHeader, LoadIn, Goto, FrameInv
<1>5. CASE LoadBody
  BY <1>5, StreamConstants DEF LoadBody, LoadIn, Goto, FrameInv
<1>6. CASE Read
  <2>1. PICK cells : cells = Append(frame, Head(conn[inFd].bytes))
    OBVIOUS
  <2>7. Len(cells) \in Nat /\ \A i \in DOMAIN cells : cells[i][1] = cells[1][1] /\ cells[i][2] = i
    BY <1>6, <2>1, ReadFacts
  <2>2. CASE Return("cancelled") \/ Return("error")
    BY <2>2, <1>R
  <2>3. CASE Deliver(cells)
    BY <2>3 DEF Deliver, FrameInv
  <2>4. CASE frame' = cells /\ inPc = "header" /\ Len(cells) < HeaderCells /\ inPc' = inPc
    BY <2>4, <2>7 DEF FrameInv
  <2>5. CASE frame' = cells /\ inPc = "header" /\ Len(cells) = HeaderCells /\ inPc' = "reload"
    BY <2>5, <2>7 DEF FrameInv
  <2>6. CASE frame' = cells /\ inPc = "body" /\ Len(cells) < FrameCells /\ HeaderCells < Len(cells)
             /\ inPc' = inPc
    BY <2>6, <2>7, StreamConstants DEF FrameInv
  <2> QED
    BY <1>6, <2>1, <2>2, <2>3, <2>4, <2>5, <2>6, ReadFacts
<1>7. CASE ReadEof
  BY <1>7, <1>R, <1>G DEF ReadEof
<1>8. CASE ReadError \/ ReadDeadline \/ ReadCancelled
  BY <1>8, <1>R DEF ReadError, ReadDeadline, ReadCancelled
<1> QED
  BY <1>1, <1>2, <1>3, <1>4, <1>5, <1>6, <1>7, <1>8 DEF InStep

\* No connection that is still open loses its place in a frame.
ReadKept ==
  /\ Over => Over'
  /\ ~Over' => \A c \in Links : conn'[c].in # "closed" => ReadSoFar(c)' = ReadSoFar(c)

\* A step of the receiving thread other than read_all gives up a frame only together
\* with its connection.
LEMMA InKeeps ==
  ASSUME WireTyped, ReaderTyped, ReaderInv, FrameInv, InStep \/ ReceiveCall, ~Read
  PROVE  ReadKept
<1>0. ~Over
  BY DEF InStep, ReceiveCall, Loop, Accept, AcceptEnds, Accepted, Store, InSecured, InNotSecured,
     LoadHeader, LoadBody, LoadIn,
         ReadEof, ReadError, ReadDeadline, ReadCancelled, Reading, Over
<1>E. ASSUME frame = <<>>, frame' = <<>> PROVE ReadKept
  BY <1>0, <1>E DEF ReadKept, ReadSoFar
<1>S. ASSUME UNCHANGED <<sock, frame>> PROVE ReadKept
  BY <1>0, <1>S DEF ReadKept, ReadSoFar
<1>R. ASSUME NEW r, Return(r), closed["in"] PROVE ReadKept
  BY <1>0, <1>R DEF Return, ReadKept, Over
<1>C. ASSUME NEW S, CutIn(S), sock["in"] \in S, sock'["in"] = 0 PROVE ReadKept
  BY <1>0, <1>C DEF ReadKept, ReadSoFar, CutIn, Links
<1>D. ASSUME CloseConnection("in") PROVE ReadKept
  <2>1. CutIn({sock["in"]}) /\ sock'["in"] = 0
    BY <1>D, ClosedConnection DEF CloseConnection, WireTyped, Ends
  <2> QED
    BY <2>1, <1>C
<1>A. ASSUME CloseAll("in") PROVE ReadKept
  <2>1. CutIn({sock["in"]} \cup Backlog) /\ sock'["in"] = 0
    BY <1>A, ClosedAll DEF CloseAll, WireTyped, Ends
  <2> QED
    BY <2>1, <1>C
<1>1. CASE inPc \notin {"header", "reload", "body"}
  <2>1. frame = <<>>
    BY <1>1 DEF FrameInv
  <2>2. frame' = <<>>
    BY <1>1, <2>1 DEF InStep, ReceiveCall, Loop, Accept, AcceptEnds, Accepted, Store, InSecured,
       InNotSecured, LoadHeader, LoadBody, LoadIn,
         Read, ReadEof, ReadError, ReadDeadline, ReadCancelled, Reading, Thrown, Return, Goto
  <2> QED
    BY <1>E, <2>1, <2>2
<1>2. CASE LoadBody
  BY <1>2, <1>S DEF LoadBody, LoadIn, Goto, Kept
<1>3. CASE ReadEof
  BY <1>3, <1>R, <1>D, <1>A DEF ReadEof, Invalidate
<1>4. CASE ReadError
  BY <1>4, <1>R, <1>D, <1>A DEF ReadError, KeepsSocket, Invalidate
<1>5. CASE ReadDeadline
  <2>1. CASE closed["in"]
    BY <1>5, <2>1, <1>R DEF ReadDeadline
  <2>2. CASE ~closed["in"] /\ inPc = "header" /\ frame = <<>>
    BY <1>5, <2>2, <1>E DEF ReadDeadline, Return
  <2>3. CASE ~(closed["in"] \/ (inPc = "header" /\ frame = <<>>))
    BY <1>5, <2>3, <1>D, <1>A DEF ReadDeadline, CutOff, Invalidate
  <2> QED
    BY <2>1, <2>2, <2>3
<1>6. CASE ReadCancelled
  BY <1>6, <1>R DEF ReadCancelled, PolledCancel
<1> QED
  BY <1>1, <1>2, <1>3, <1>4, <1>5, <1>6 DEF InStep, ReceiveCall, Loop, Accept, AcceptEnds, Accepted,
     Store, InSecured, InNotSecured, LoadHeader, LoadIn

\* A step of the sending thread leaves the frame of the reader alone.
LEMMA OutKeeps ==
  ASSUME WireTyped, OutStep PROVE ReadKept
<1>1. sock'["in"] = sock["in"] /\ UNCHANGED <<inPc, result, frame>>
  BY DEF OutStep, SendCall, Try, Connect, ConnectFails, NextTry, Connected, StoreOut, OutSecured, OutNotSecured,
     Load, Write,
         WriteFails, Caught, AttemptFails, EndAttempt, CloseConnection, OutUnchanged, endVars, inVars, WireTyped, Ends
<1> QED
  BY <1>1 DEF ReadKept, ReadSoFar, Over

\* close() and resets give up a frame only together with its connection.
LEMMA CloseKeeps ==
  ASSUME WireTyped,
         (\E e \in Ends : CloseCall(e) \/ Teardown(e)) \/ (\E c \in Links : Reset(c)) PROVE ReadKept
<1>1. UNCHANGED <<inPc, result, frame>>
  BY DEF CloseCall, Teardown, Reset, inVars
<1>2. CASE sock'["in"] = sock["in"]
  BY <1>1, <1>2 DEF ReadKept, ReadSoFar, Over
<1>3. CASE Teardown("in")
  <2>1. CutIn({sock["in"]} \cup Backlog) /\ sock'["in"] = 0
    BY <1>3, ClosedAll DEF Teardown, CloseAll, WireTyped, Ends
  <2> QED
    BY <1>1, <2>1 DEF ReadKept, ReadSoFar, CutIn, Links, Over
<1>4. CASE Teardown("out")
  BY <1>2, <1>4 DEF Teardown, CloseAll, WireTyped, Ends
<1>5. CASE \E e \in Ends : CloseCall(e)
  BY <1>2, <1>5 DEF CloseCall
<1>6. CASE \E c \in Links : Reset(c)
  BY <1>2, <1>6 DEF Reset, endVars
<1> QED
  BY <1>3, <1>4, <1>5, <1>6 DEF Ends

\* A read goes on with its frame, delivers it, or was cancelled.
LEMMA ReadOutcome ==
  ASSUME WireTyped, ReaderTyped, ReaderInv, FrameInv, HeadInv, Read, NEW cells,
         cells = Append(frame, Head(conn[inFd].bytes))
  PROVE  \/ /\ frame' = cells /\ Len(cells) < FrameCells /\ inPc' # "idle"
            /\ received' = received /\ result' = result /\ failedBefore' = failedBefore
         \/ (Deliver(cells) \/ (Return("error") /\ closed["in"] = FALSE)) /\ Len(cells) = FrameCells
         \/ Return("cancelled") /\ closed["in"] = TRUE
<1>1. Len(cells) \in Nat
  BY ReadFacts
<1>2. CASE inPc = "header" /\ Len(cells) < HeaderCells /\ frame' = cells
           /\ UNCHANGED <<inPc, inFd, deadline, received, result, failedBefore>>
  BY <1>1, <1>2, StreamConstants
<1>3. CASE inPc = "header" /\ Len(cells) = HeaderCells /\ frame' = cells /\ inPc' = "reload"
           /\ UNCHANGED <<inFd, deadline, received, result, failedBefore>>
  BY <1>1, <1>3, StreamConstants
<1> QED
  BY <1>2, <1>3, ReadFacts
-----------------------------------------------------------------------------
(***************************************************************************)
(* Streams: where the bytes of a connection begin and end.                 *)
(***************************************************************************)
\* Without a read or a write, every connection goes on where its reader stopped.
LEMMA HeadShrink ==
  ASSUME HeadInv, ReadKept, Shrinks, WireInv'
  PROVE  HeadInv'
<1> SUFFICES ASSUME ~Over', NEW c \in Links, conn'[c].bytes # <<>>
             PROVE  Heads(conn'[c].bytes, ReadSoFar(c)')
  BY DEF HeadInv, Heads
<1>1. conn'[c].in # "closed" /\ conn'[c].bytes = conn[c].bytes
  BY DEF WireInv, Shrinks
<1>2. ReadSoFar(c)' = ReadSoFar(c) /\ ~Over
  BY <1>1 DEF ReadKept
<1> QED
  BY <1>1, <1>2 DEF HeadInv

\* Writing to an empty connection goes on where its reader stopped.
LEMMA HeadWrite ==
  ASSUME WireTyped, SenderTyped, ReaderTyped, WireInv, SenderInv, HeadInv, TailInv, ReadKept, WireInv',
         Write
  PROVE  HeadInv'
<1>1. msg > 0 /\ outFd \in Links /\ outPc = "write" /\ conn[outFd].out = "open" /\ conn[outFd].reset = FALSE
  BY StreamFacts DEF Write, SenderInv, SenderTyped, Links
<1> SUFFICES ASSUME ~Over', NEW c \in Links, conn'[c].bytes # <<>>
             PROVE  Heads(conn'[c].bytes, ReadSoFar(c)')
  BY DEF HeadInv, Heads
<1>2. ReadSoFar(c)' = ReadSoFar(c) /\ ~Over
  BY DEF ReadKept, WireInv
<1>3. CASE conn'[c].bytes = conn[c].bytes
  BY <1>2, <1>3 DEF HeadInv
<1>4. CASE c = outFd /\ conn[c].in # "closed"
  <2>1. conn'[c].bytes = Append(conn[c].bytes, <<msg, cursor + 1>>) /\ conn[c].bytes \in Seq(Cells)
    BY <1>1, <1>4, WriteEffect, StreamFacts
  <2>2. CASE conn[c].bytes # <<>>
    <3>1. conn'[c].bytes[1] = conn[c].bytes[1]
      BY <2>1, <2>2
    <3> QED
      BY <1>2, <2>2, <3>1 DEF HeadInv, Heads
  <2>3. CASE conn[c].bytes = <<>>
    <3>1. conn'[c].bytes[1] = <<msg, cursor + 1>>
      BY <2>1, <2>3
    <3>2. Drained(ReadSoFar(c))
      BY <1>1, <1>2, <1>4, <2>3 DEF TailInv, GaveUp, Live
    <3>3. ReadSoFar(c) \in Seq(Cells)
      BY EmptySeq DEF ReadSoFar, ReaderTyped
    <3>4. PICK f \in Seq(Cells) : f = ReadSoFar(c)
      BY <3>3
    <3>5. cursor \in Nat
      BY StreamConstants DEF SenderTyped
    <3>6. Heads(conn'[c].bytes, f)
      BY <3>1, <3>2, <3>4, <3>5 DEF Drained, Heads
    <3> QED
      BY <1>2, <3>4, <3>6
  <2> QED
    BY <2>2, <2>3
<1> QED
  BY <1>1, <1>3, <1>4, WriteEffect

\* Having read a cell, the reader has stopped before the next.
LEMMA HeadRead ==
  ASSUME WireTyped, ReaderTyped, WireInv, ReaderInv, FrameInv, BytesInv, HeadInv, Read
  PROVE  HeadInv'
<1>1. PICK cells : cells = Append(frame, Head(conn[inFd].bytes))
  OBVIOUS
<1> SUFFICES ASSUME ~Over', NEW c \in Links, conn'[c].bytes # <<>>
             PROVE  Heads(conn'[c].bytes, ReadSoFar(c)')
  BY DEF HeadInv, Heads
<1>2. inFd \in Links /\ inFd = sock["in"] /\ sock' = sock /\ ~Over
  BY <1>1, ReadFacts DEF Read, Reading, Over
<1>3. CASE c # inFd
  <2>1. conn'[c].bytes = conn[c].bytes
    BY <1>3, ReadEffect
  <2>2. ReadSoFar(c)' = <<>> /\ ReadSoFar(c) = <<>>
    BY <1>2, <1>3 DEF ReadSoFar
  <2> QED
    BY <1>2, <2>1, <2>2 DEF HeadInv
<1>4. CASE c = inFd
  <2>1. PICK b \in Seq(Cells) : b = conn[inFd].bytes
    BY ReadEffect
  <2>2. conn'[c].bytes = Tail(b) /\ b # <<>>
    BY <1>4, <2>1, ReadEffect
  <2>3. 1 \in DOMAIN b /\ 1 + 1 \in DOMAIN b /\ conn'[c].bytes[1] = b[1 + 1]
    BY <2>1, <2>2
  <2>4. IF b[1][2] = FrameCells THEN b[1 + 1][2] = 1 ELSE b[1 + 1] = <<b[1][1], b[1][2] + 1>>
    BY <1>2, <2>1, <2>3 DEF BytesInv, Chained
  <2>5. /\ cells \in Seq(Cells) /\ Len(cells) \in Nat /\ Len(cells) = Len(frame) + 1
        /\ cells[Len(cells)] = b[1]
        /\ \A i \in DOMAIN cells : cells[i][1] = cells[1][1] /\ cells[i][2] = i
    BY <1>1, <2>1, ReadFacts
  <2>6. b[1][1] = cells[1][1] /\ b[1][2] = Len(cells) /\ cells # <<>>
    <3>1. Len(frame) \in Nat
      BY DEF ReaderTyped
    <3>2. Len(cells) \in DOMAIN cells
      BY <2>5, <3>1
    <3> QED
      BY <2>5, <3>2
  <2>7. CASE frame' = cells /\ Len(cells) < FrameCells
    <3>1. ReadSoFar(c)' = cells
      BY <1>2, <1>4, <2>7 DEF ReadSoFar
    <3> QED
      BY <2>3, <2>4, <2>6, <2>7, <3>1, StreamConstants DEF Heads
  <2>8. CASE (Deliver(cells) \/ Return("error")) /\ Len(cells) = FrameCells
    <3>1. ReadSoFar(c)' = <<>>
      BY <2>8 DEF ReadSoFar, Deliver, Return
    <3> QED
      BY <2>3, <2>4, <2>6, <2>8, <3>1 DEF Heads
  <2>9. CASE Return("cancelled") /\ closed["in"] = TRUE
    BY <2>9 DEF Return, Over
  <2> QED
    BY <1>1, <2>7, <2>8, <2>9, ReadOutcome
<1> QED
  BY <1>3, <1>4

\* A step that neither reads nor writes leaves the end of every connection in use.
LEMMA TailKept ==
  ASSUME TailInv, ReadKept, GaveUp => GaveUp', cursor' = cursor, msg' = msg \/ cursor = 0,
         \A c \in Links : Live(c)' => Live(c) /\ conn'[c].bytes = conn[c].bytes
  PROVE  TailInv'
<1> SUFFICES ASSUME ~GaveUp', NEW c \in Links, Live(c)'
             PROVE  /\ conn'[c].bytes # <<>> => Tails(conn[c].bytes)'
                    /\ conn'[c].bytes = <<>> /\ ~Over' => Drained(ReadSoFar(c))'
  BY DEF TailInv
<1>1. Live(c) /\ conn'[c].bytes = conn[c].bytes /\ conn'[c].in # "closed" /\ ~GaveUp
  BY DEF Live
<1>2. conn'[c].bytes # <<>> => Tails(conn[c].bytes)'
  BY <1>1 DEF TailInv, Tails
<1>3. ASSUME conn'[c].bytes = <<>>, ~Over' PROVE Drained(ReadSoFar(c))'
  <2>1. ReadSoFar(c)' = ReadSoFar(c) /\ ~Over
    BY <1>1, <1>3 DEF ReadKept
  <2>2. Drained(ReadSoFar(c))
    BY <1>1, <1>3, <2>1 DEF TailInv
  <2> QED
    BY <2>1, <2>2 DEF Drained
<1> QED
  BY <1>2, <1>3

\* The receiving thread leaves the ends of the connections alone, but for its reads.
LEMMA TailIn ==
  ASSUME TailInv, ReadKept, InUnchanged, ClosingIn \/ Accept, WireTyped, WireInv
  PROVE  TailInv'
<1>1. GaveUp => GaveUp'
  BY DEF InUnchanged, GaveUp, outVars
<1>2. \A c \in Links : Live(c)' => Live(c) /\ conn'[c].bytes = conn[c].bytes
  <2>1. CASE ClosingIn
    BY <2>1 DEF ClosingIn, CutIn, Live
  <2>2. CASE Accept
    BY <2>2, AcceptEffect DEF Live
  <2> QED
    BY <2>1, <2>2
<1> QED
  BY <1>1, <1>2, TailKept DEF InUnchanged, outVars

\* close() leaves the ends of the connections in use alone.
LEMMA TailClose ==
  ASSUME TailInv, ReadKept, WireTyped, NEW e \in Ends, CloseCall(e) \/ Teardown(e), Closing
  PROVE  TailInv'
<1>1. GaveUp => GaveUp'
  BY DEF CloseCall, Teardown, GaveUp, outVars, WireTyped, Ends
<1>2. \A c \in Links : Live(c)' => Live(c) /\ conn'[c].bytes = conn[c].bytes
  BY DEF Closing, ClosingIn, ClosingOut, CutIn, CutOut, Live
<1> QED
  BY <1>1, <1>2, TailKept DEF CloseCall, Teardown, outVars

\* A connection that was reset is not in use any more.
LEMMA TailReset ==
  ASSUME TailInv, ReadKept, WireTyped, NEW c \in Links, Reset(c)
  PROVE  TailInv'
<1>1. \A d \in Links \ {c} : conn'[d] = conn[d]
  BY ResetEffect
<1>2. conn'[c].reset = TRUE
  BY ResetEffect
<1>3. \A d \in Links : Live(d)' => Live(d) /\ conn'[d].bytes = conn[d].bytes
  BY <1>1, <1>2 DEF Live
<1>4. GaveUp => GaveUp'
  BY DEF Reset, GaveUp, outVars, endVars
<1> QED
  BY <1>3, <1>4, TailKept DEF Reset, outVars

\* The last cell stays the last when the first is taken off.
LEMMA LastOfTail ==
  ASSUME NEW b \in Seq(Cells), b # <<>>
  PROVE  \/ Tail(b) = <<>> /\ Len(b) = 1
         \/ Tail(b) # <<>> /\ Tail(b)[Len(Tail(b))] = b[Len(b)]
<1>1. PICK n \in Nat : n = Len(b) /\ n # 0
  BY EmptySeq
<1>0. PICK t : t = Tail(b)
  OBVIOUS
<1>5. t \in Seq(Cells) /\ Len(t) = Len(b) - 1 /\ \A i \in 1 .. Len(t) : t[i] = b[i + 1]
  BY <1>0, HeadTailProperties
<1>2. t \in Seq(Cells) /\ t = Tail(b) /\ Len(t) = n - 1 /\ \A i \in 1 .. n - 1 : t[i] = b[i + 1]
  BY <1>0, <1>1, <1>5
<1>3. CASE n = 1
  <2>1. Len(t) = 0
    BY <1>2, <1>3
  <2>2. t = <<>>
    BY <2>1, EmptySeq
  <2> QED
    BY <1>1, <1>2, <1>3, <2>2
<1>4. CASE n # 1
  <2>1. n - 1 \in 1 .. n - 1 /\ n - 1 + 1 = n /\ n - 1 # 0
    BY <1>1, <1>4
  <2>2. t[n - 1] = b[n]
    BY <1>2, <2>1
  <2>3. t # <<>>
    BY <1>2, <2>1, EmptySeq
  <2> QED
    BY <1>1, <1>2, <2>2, <2>3
<1> QED
  BY <1>3, <1>4

\* When the last cell is read, the frame holds what was sent of it.
LEMMA TailRead ==
  ASSUME WireTyped, SenderTyped, ReaderTyped, ReaderInv, FrameInv, HeadInv, TailInv, Read
  PROVE  TailInv'
<1> SUFFICES ASSUME ~GaveUp', NEW c \in Links, Live(c)'
             PROVE  /\ conn'[c].bytes # <<>> => Tails(conn[c].bytes)'
                    /\ conn'[c].bytes = <<>> /\ ~Over' => Drained(ReadSoFar(c))'
  BY DEF TailInv
<1>1. PICK cells : cells = Append(frame, Head(conn[inFd].bytes))
  OBVIOUS
<1>2. ~GaveUp /\ UNCHANGED <<cursor, msg, sock>>
  BY DEF Read, InUnchanged, outVars, GaveUp
<1>3. Live(c) /\ inFd \in Links /\ inFd = sock["in"] /\ ~Over
  <2>1. Live(c)
    BY ReadEffect DEF Live
  <2>2. inFd \in Links /\ inFd = sock["in"]
    BY <1>1, ReadFacts
  <2>3. ~Over
    BY DEF Read, Reading, Over
  <2> QED
    BY <2>1, <2>2, <2>3
<1>4. CASE c # inFd
  <2>1. conn'[c].bytes = conn[c].bytes
    BY <1>4, ReadEffect
  <2>2. ReadSoFar(c)' = <<>> /\ ReadSoFar(c) = <<>>
    BY <1>2, <1>3, <1>4 DEF ReadSoFar
  <2> QED
    BY <1>2, <1>3, <2>1, <2>2 DEF TailInv, Tails, Drained
<1>5. CASE c = inFd
  <2>1. PICK b \in Seq(Cells) : b = conn[inFd].bytes
    BY ReadEffect
  <2>2. conn'[c].bytes = Tail(b) /\ b # <<>>
    BY <1>5, <2>1, ReadEffect
  <2>3. Tails(b)
    BY <1>2, <1>3, <1>5, <2>1, <2>2 DEF TailInv
  <2>4. CASE Tail(b) # <<>> /\ Tail(b)[Len(Tail(b))] = b[Len(b)]
    <3>1. PICK t : t = Tail(b) /\ t # <<>> /\ t[Len(t)] = b[Len(b)]
      BY <2>4
    <3> QED
      BY <1>2, <2>2, <2>3, <3>1 DEF Tails
  <2>5. CASE Tail(b) = <<>> /\ Len(b) = 1
    <3>1. Tail(b) = <<>> /\ b[Len(b)] = b[1]
      BY <2>5
    <3>2. ASSUME ~Over' PROVE Drained(ReadSoFar(c))'
      <4>1. /\ cells \in Seq(Cells) /\ Len(cells) \in Nat /\ Len(cells) = Len(frame) + 1
            /\ cells[Len(cells)] = b[1]
            /\ \A i \in DOMAIN cells : cells[i][1] = cells[1][1] /\ cells[i][2] = i
        BY <1>1, <2>1, ReadFacts
      <4>2. b[1][1] = cells[1][1] /\ b[1][2] = Len(cells)
        <5>1. Len(frame) \in Nat
          BY DEF ReaderTyped
        <5>2. Len(cells) \in DOMAIN cells
          BY <4>1, <5>1
        <5> QED
          BY <4>1, <5>2
      <4>3. IF cursor = 0 THEN Len(cells) = FrameCells ELSE cells[1][1] = msg /\ Len(cells) = cursor
        BY <2>3, <3>1, <4>2 DEF Tails
      <4>4. CASE frame' = cells /\ Len(cells) < FrameCells
        <5>1. ReadSoFar(c)' = cells
          BY <1>2, <1>3, <1>5, <4>4 DEF ReadSoFar
        <5> QED
          BY <1>2, <4>1, <4>3, <4>4, <5>1, StreamConstants DEF Drained
      <4>5. CASE (Deliver(cells) \/ Return("error")) /\ Len(cells) = FrameCells
        <5>1. ReadSoFar(c)' = <<>>
          BY <4>5 DEF ReadSoFar, Deliver, Return
        <5>2. cursor = 0
          BY <4>3, <4>5, StreamConstants DEF SenderTyped
        <5> QED
          BY <1>2, <5>1, <5>2 DEF Drained
      <4>6. CASE Return("cancelled") /\ closed["in"] = TRUE
        BY <3>2, <4>6 DEF Return, Over
      <4> QED
        BY <1>1, <4>4, <4>5, <4>6, ReadOutcome
    <3> QED
      BY <2>2, <3>1, <3>2
  <2> QED
    BY <2>2, <2>4, <2>5, LastOfTail
<1> QED
  BY <1>4, <1>5

\* The sender begins a frame only on a connection that ends with one.
LEMMA TailOut ==
  ASSUME WireTyped, SenderTyped, ReaderTyped, WireInv, SenderInv, ReaderInv, TailInv, ReadKept,
         OutStep, ~Write, spoiled' = FALSE
  PROVE  TailInv'
<1>U. UNCHANGED <<options, closed, inVars>>
  BY DEF OutStep, SendCall, Try, Connect, ConnectFails, NextTry, Connected, StoreOut, OutSecured, OutNotSecured,
     Load, Write,
         WriteFails, Caught, OutUnchanged, endVars
<1>G. GaveUp => GaveUp'
  BY <1>U, StreamFacts DEF OutStep, SendCall, Try, Connect, ConnectFails, NextTry, Connected, StoreOut,
     OutSecured, OutNotSecured, Load, Write,
         WriteFails, Caught, GaveUp, Tcp, SendsUnix
<1>0. cursor = 0 \/ outPc = "write"
  BY DEF SenderInv
<1>F. ASSUME AttemptFails, outPc \in {"connect", "secure", "write", "thrown"} PROVE TailInv'
  <2>1. CASE KeepsSocket("out")
    <3>1. GaveUp'
      <4>1. options.kind = "unix" /\ options.reconnect = FALSE /\ closed["out"] = TRUE
        BY <2>1, StreamFacts DEF KeepsSocket, Tcp
      <4>2. outPc' \in {"dead", "idle"}
        BY <1>F, <4>1 DEF AttemptFails, EndAttempt, Attempts, Constructing, SenderTyped
      <4> QED
        BY <1>U, <4>1, <4>2 DEF GaveUp
    <3> QED
      BY <3>1 DEF TailInv
  <2>2. CASE ~KeepsSocket("out")
    <3>1. CutOut(sock["out"])
      BY <1>F, <2>2, AttemptEffect
    <3>2. \A c \in Links : ~Live(c)'
      BY <1>F, <3>1 DEF CutOut, Live, SenderInv
    <3> QED
      BY <3>2 DEF TailInv
  <2> QED
    BY <2>1, <2>2
<1>1. CASE SendCall \/ Try \/ StoreOut \/ Load
  <2>1. conn' = conn /\ cursor' = cursor /\ (msg' = msg \/ cursor = 0)
    BY <1>1, <1>0 DEF SendCall, Try, StoreOut, Load
  <2> QED
    BY <1>G, <2>1, TailKept DEF Live
<1>2. CASE Connect
  <2>1. conns + 1 \in Links /\ conns \in Nat /\ cursor' = cursor /\ msg' = msg /\ cursor = 0
        /\ UNCHANGED <<sock, frame>>
    BY <1>2, <1>0, ConnectEffect DEF Connect, WireTyped, endVars, inVars
  <2>2. sock["in"] # conns + 1 /\ conn[conns + 1].bytes = <<>>
    BY <2>1 DEF ReaderInv, WireInv
  <2> SUFFICES ASSUME ~GaveUp', NEW c \in Links, Live(c)'
               PROVE  /\ conn'[c].bytes # <<>> => Tails(conn[c].bytes)'
                      /\ conn'[c].bytes = <<>> /\ ~Over' => Drained(ReadSoFar(c))'
    BY DEF TailInv
  <2>3. conn'[c].bytes = conn[c].bytes /\ (c # conns + 1 => Live(c))
    BY <1>2, ConnectEffect DEF Live
  <2>4. ReadSoFar(c)' = ReadSoFar(c) /\ (Over' <=> Over)
    BY <1>U, <2>1 DEF ReadSoFar, Over, inVars
  <2>5. CASE c = conns + 1
    BY <2>1, <2>2, <2>3, <2>4, <2>5 DEF ReadSoFar, Drained
  <2>6. CASE c # conns + 1
    BY <1>G, <2>1, <2>3, <2>4, <2>6 DEF TailInv, Tails, Drained
  <2> QED
    BY <2>5, <2>6
<1>3. CASE ConnectFails
  <2>1. CASE AttemptFails
    BY <1>3, <2>1, <1>F DEF ConnectFails
  <2>2. CASE conn' = conn /\ cursor' = cursor /\ msg' = msg
    BY <1>G, <2>2, TailKept DEF Live
  <2> QED
    BY <1>3, <2>1, <2>2 DEF ConnectFails, NextTry
<1>4. CASE Connected
  <2>1. \A c \in Links : Live(c)' => Live(c) /\ conn'[c].bytes = conn[c].bytes
    BY <1>4, ConnectedEffect DEF CutOut, Live
  <2> QED
    BY <1>4, <1>G, <2>1, TailKept DEF Connected
<1>5. CASE OutSecured
  <2>1. \A c \in Links : Live(c)' => Live(c) /\ conn'[c].bytes = conn[c].bytes
    BY <1>5, OutSecuredEffect DEF Live
  <2> QED
    BY <1>5, <1>G, <2>1, TailKept DEF OutSecured
<1>6. CASE OutNotSecured
  <2>1. CASE AttemptFails
    BY <1>6, <2>1, <1>F DEF OutNotSecured
  <2>2. CASE CloseConnection("out") /\ cursor' = cursor
    <3>1. \A c \in Links : Live(c)' => Live(c) /\ conn'[c].bytes = conn[c].bytes
      BY <2>2, DroppedOut DEF CloseConnection, CutOut, Live
    <3> QED
      BY <1>6, <1>G, <2>2, <3>1, TailKept DEF OutNotSecured
  <2> QED
    BY <1>6, <2>1, <2>2 DEF OutNotSecured, NextTry
<1>7. CASE WriteFails \/ Caught
  BY <1>7, <1>F DEF WriteFails, Caught
<1> QED
  BY <1>1, <1>2, <1>3, <1>4, <1>5, <1>6, <1>7 DEF OutStep

\* Having written a cell, the sender is after it.
LEMMA TailWrite ==
  ASSUME WireTyped, SenderTyped, ReaderTyped, WireInv, SenderInv, TailInv, Write
  PROVE  TailInv'
<1> SUFFICES ASSUME NEW c \in Links, Live(c)'
             PROVE  conn'[c].bytes # <<>> /\ Tails(conn[c].bytes)'
  BY DEF TailInv
<1>1. msg > 0 /\ outFd \in Links /\ outPc = "write" /\ outFd = conns
  BY StreamFacts DEF Write, SenderInv, SenderTyped, Links
<1>2. conn[c].out = "open" /\ conn[c].in # "closed"
  BY <1>1, WriteEffect DEF Live
<1>3. c = outFd
  BY <1>1, <1>2 DEF SenderInv, Links
<1>4. PICK b \in Seq(Cells) : b = conn[c].bytes
  BY StreamFacts
<1>5. conn'[c].bytes = Append(b, <<msg, cursor + 1>>)
  BY <1>1, <1>2, <1>3, <1>4, WriteEffect
<1>6. conn'[c].bytes # <<>> /\ conn'[c].bytes[Len(conn'[c].bytes)] = <<msg, cursor + 1>>
  BY <1>4, <1>5
<1>7. cursor \in Nat /\ (cursor + 1 < FrameCells => msg' = msg)
      /\ cursor' = IF cursor + 1 < FrameCells THEN cursor + 1 ELSE 0
  BY StreamConstants DEF Write, Written, SenderTyped
<1>8. cursor < FrameCells
  BY StreamConstants DEF SenderTyped
<1> QED
  BY <1>6, <1>7, <1>8, StreamConstants DEF Tails

\* A step keeps the order of the backlog.
LEMMA BacklogStep ==
  ASSUME WireTyped, SenderTyped, ReaderTyped, WireInv, BacklogInv, msg > 0 \/ ~Write,
         Closing \/ Connect \/ OutSecured \/ Write \/ Accept \/ Read \/ (\E c \in Links : Reset(c))
  PROVE  BacklogInv'
<1>1. CASE Closing
  BY <1>1 DEF Closing, ClosingIn, ClosingOut, CutIn, CutOut, BacklogInv
<1>2. CASE Connect
  <2>1. conns + 1 \in Links /\ conns \in Nat
    BY <1>2, ConnectEffect DEF WireTyped
  <2>2. \A d \in Links : conns + 1 < d => conn[d].in = "none"
    BY <2>1 DEF WireInv, Links
  <2>3. \A c \in Links : conn'[c].in = IF c = conns + 1 THEN "backlog" ELSE conn[c].in
    BY <1>2, ConnectEffect
  <2> QED
    BY <2>1, <2>2, <2>3 DEF BacklogInv
<1>3. CASE OutSecured
  BY <1>3, OutSecuredEffect DEF BacklogInv
<1>4. CASE Write
  BY <1>4, WriteEffect DEF BacklogInv
<1>5. CASE Accept
  <2>1. PICK a \in Links : /\ conn[a].in = "backlog" /\ (\A d \in Links : conn[d].in = "backlog" => a <= d)
                           /\ \A c \in Links : conn'[c].in = IF c = a THEN "open" ELSE conn[c].in
    BY <1>5, AcceptEffect
  <2> QED
    BY <2>1 DEF BacklogInv, Links
<1>6. CASE Read
  BY <1>6, ReadEffect DEF BacklogInv
<1>7. ASSUME NEW c \in Links, Reset(c) PROVE BacklogInv'
  <2>1. \A d \in Links : conn'[d].in = conn[d].in
    <3>1. \A d \in Links \ {c} : conn'[d] = conn[d]
      BY <1>7, ResetEffect
    <3>2. conn'[c].in = conn[c].in
      BY <1>7, ResetEffect
    <3> QED
      BY <3>1, <3>2
  <2> QED
    BY <2>1 DEF BacklogInv
<1> QED
  BY <1>1, <1>2, <1>3, <1>4, <1>5, <1>6, <1>7
-----------------------------------------------------------------------------
(***************************************************************************)
(* Streams: the order of the envelopes.                                    *)
(***************************************************************************)
\* Throwing bytes away keeps the order of the envelopes.
LEMMA OrderKept ==
  ASSUME OrderInv, Shrinks, msg' = msg, received' = received, InSend' => InSend
  PROVE  OrderInv'
  BY DEF OrderInv, Shrinks

\* A step of the sending thread keeps the order of the envelopes.
LEMMA OrderOut ==
  ASSUME WireTyped, SenderTyped, ReaderTyped, SenderInv, ReaderInv, OrderInv, OutStep, spoiled' = FALSE
  PROVE  OrderInv'
<1>R. received' = received
  BY DEF OutStep, SendCall, Try, Connect, ConnectFails, NextTry, Connected, StoreOut, OutSecured, OutNotSecured,
     Load, Write,
         WriteFails, Caught, OutUnchanged, inVars
<1>1. CASE SendCall
  <2>1. msg' = msg + 1 /\ conn' = conn /\ msg \in Nat
    BY <1>1 DEF SendCall, SenderTyped
  <2>2. ASSUME NEW c \in Links, NEW i \in DOMAIN conn[c].bytes PROVE conn[c].bytes[i][1] \in Nat
    BY StreamFacts DEF Cells
  <2>3. ASSUME NEW k \in DOMAIN received PROVE received[k] \in Nat
    BY DEF ReaderTyped
  <2> QED
    BY <1>R, <2>1, <2>2, <2>3 DEF OrderInv
<1>2. CASE Write
  <2>1. msg > 0 /\ outFd \in Links /\ outPc = "write" /\ msg \in Nat /\ cursor \in Nat
    BY StreamFacts, <1>2, StreamConstants DEF Write, SenderInv, SenderTyped, Links
  <2>2. \/ ~InSend' /\ msg' = msg
        \/ outPc' = "write" /\ cursor + 1 < FrameCells /\ msg' = msg
        \/ msg' = msg + 1
    <3>1. CASE attempt = Attempts /\ outPc' = "thrown" /\ UNCHANGED <<attempt, msg>>
      <4>1. ~(attempt' < Attempts')
        BY <1>2, <3>1 DEF Write, OutUnchanged, Attempts
      <4> QED
        BY <3>1, <4>1 DEF InSend
    <3> QED
      BY <1>2, <3>1 DEF Write, Written, InSend
  <2>3. InSend
    BY <2>1 DEF InSend
  <2>4. ASSUME NEW c \in Links, NEW i \in DOMAIN conn'[c].bytes
        PROVE  \/ i \in DOMAIN conn[c].bytes /\ conn'[c].bytes[i] = conn[c].bytes[i]
               \/ conn'[c].bytes[i] = <<msg, cursor + 1>>
    <3>1. PICK b \in Seq(Cells) : b = conn[c].bytes
      BY StreamFacts
    <3>2. CASE conn'[c].bytes = b
      BY <3>1, <3>2
    <3>3. CASE conn'[c].bytes = Append(b, <<msg, cursor + 1>>)
      BY <3>1, <3>3
    <3> QED
      BY <1>2, <2>1, <3>1, <3>2, <3>3, WriteEffect
  <2>5. ASSUME NEW c \in Links, NEW i \in DOMAIN conn'[c].bytes
        PROVE  /\ conn'[c].bytes[i][1] <= msg'
               /\ InSend' /\ conn'[c].bytes[i][2] = FrameCells => conn'[c].bytes[i][1] < msg'
               /\ \A k \in DOMAIN received : received[k] < conn'[c].bytes[i][1]
    <3>1. CASE i \in DOMAIN conn[c].bytes /\ conn'[c].bytes[i] = conn[c].bytes[i]
      <4>1. conn[c].bytes[i][1] \in Nat
        BY <3>1, StreamFacts DEF Cells
      <4> QED
        BY <2>1, <2>2, <2>3, <3>1, <4>1 DEF OrderInv
    <3>2. CASE conn'[c].bytes[i] = <<msg, cursor + 1>>
      BY <2>1, <2>2, <2>3, <3>2, StreamConstants DEF OrderInv
    <3> QED
      BY <2>4, <3>1, <3>2
  <2>6. ASSUME NEW j \in DOMAIN received PROVE received[j] \in Nat
    BY DEF ReaderTyped
  <2> QED
    BY <1>R, <2>1, <2>2, <2>3, <2>5, <2>6 DEF OrderInv
<1>3. CASE ~SendCall /\ ~Write
  <2>1. Shrinks
    BY <1>3, OutEffect, EffectShrinks DEF Closing
  <2>2. UNCHANGED <<options, msg>> /\ outPc \notin {"idle", "dead"}
    BY <1>3 DEF OutStep, Try, Connect, ConnectFails, Connected, StoreOut, OutSecured, OutNotSecured, Load,
       WriteFails, Caught, OutUnchanged
  <2>3. InSend' => InSend
    <3>1. CASE Caught
      BY <3>1 DEF Caught, AttemptFails, EndAttempt, Constructing, InSend, Attempts, SenderTyped
    <3>2. CASE ~Caught
      <4>1. outPc # "thrown"
        BY <1>3, <3>2 DEF OutStep, Try, Connect, ConnectFails, Connected, StoreOut, OutSecured, OutNotSecured,
           Load, WriteFails
      <4> QED
        BY <2>2, <4>1 DEF InSend
    <3> QED
      BY <3>1, <3>2
  <2> QED
    BY <1>R, <2>1, <2>2, <2>3, OrderKept
<1> QED
  BY <1>1, <1>2, <1>3

\* The envelope that is delivered is later than the delivered ones and earlier than
\* what is on the wire.
LEMMA OrderRead ==
  ASSUME WireTyped, SenderTyped, ReaderTyped, WireInv, ReaderInv, BacklogInv, FrameInv, BytesInv,
         HeadInv, OrderInv, Read
  PROVE  OrderInv'
<1>0. PICK cells : cells = Append(frame, Head(conn[inFd].bytes))
  OBVIOUS
<1>1. msg' = msg /\ InSend' = InSend
  BY DEF Read, InUnchanged, outVars, InSend, Attempts
<1>2. ASSUME NEW c \in Links, NEW i \in DOMAIN conn'[c].bytes
      PROVE  \E j \in DOMAIN conn[c].bytes : conn'[c].bytes[i] = conn[c].bytes[j] /\ (c = inFd => j > 1)
  <2>1. PICK b \in Seq(Cells) : b = conn[c].bytes
    BY StreamFacts
  <2>2. CASE c # inFd
    BY <2>2, ReadEffect
  <2>3. CASE c = inFd
    <3>1. conn'[c].bytes = Tail(b) /\ b # <<>>
      BY <2>1, <2>3, ReadEffect
    <3>2. i \in Nat /\ i + 1 \in DOMAIN b /\ Tail(b)[i] = b[i + 1] /\ i + 1 > 1
      BY <3>1
    <3> QED
      BY <2>1, <3>1, <3>2
  <2> QED
    BY <2>2, <2>3
<1>3. CASE received' = received
  BY <1>1, <1>2, <1>3 DEF OrderInv
<1>4. CASE Deliver(cells) /\ Len(cells) = FrameCells
  <2>1. PICK b \in Seq(Cells) : b = conn[inFd].bytes /\ b # <<>> /\ inFd \in Links /\ 1 \in DOMAIN b
    BY ReadEffect
  <2>2. /\ cells \in Seq(Cells) /\ Len(cells) \in Nat /\ Len(cells) = Len(frame) + 1
        /\ cells[Len(cells)] = b[1] /\ Head(cells) = cells[1]
        /\ \A i \in DOMAIN cells : cells[i][1] = cells[1][1] /\ cells[i][2] = i
    BY <1>0, <2>1, ReadFacts
  <2>3. b[1][1] = cells[1][1] /\ b[1][2] = FrameCells
    <3>1. Len(frame) \in Nat
      BY DEF ReaderTyped
    <3>2. Len(cells) \in DOMAIN cells
      BY <2>2, <3>1
    <3> QED
      BY <1>4, <2>2, <3>2
  <2>4. PICK m \in Nat : m = b[1][1] /\ received' = Append(received, m)
    BY <1>4, <2>1, <2>2, <2>3 DEF Deliver, Cells
  <2>5. ASSUME NEW c \in Links, NEW i \in DOMAIN conn'[c].bytes
        PROVE  m < conn'[c].bytes[i][1]
    <3>1. PICK j \in DOMAIN conn[c].bytes : conn'[c].bytes[i] = conn[c].bytes[j] /\ (c = inFd => j > 1)
      BY <1>2, <2>5
    <3>2. CASE c = inFd
      <4>1. Before(b[1], b[j])
        BY <2>1, <3>1, <3>2 DEF BytesInv, Chained
      <4> QED
        BY <2>1, <2>3, <2>4, <3>1, <3>2, <4>1 DEF Before
    <3>3. CASE inFd < c
      <4>1. Before(b[1], conn[c].bytes[j])
        BY <2>1, <3>1, <3>3 DEF BytesInv, Ahead
      <4> QED
        BY <2>1, <2>3, <2>4, <3>1, <4>1 DEF Before
    <3>4. CASE c < inFd
      <4>1. conn[inFd].in = "open" /\ conn[c].in # "backlog"
        BY <2>1, <3>4 DEF Read, Open, BacklogInv
      <4>2. conn[c].in # "open" /\ conn[c].in # "none"
        <5>1. conn[c].in # "open"
          BY <1>0, <2>1, <3>4, ReadFacts DEF ReaderInv, Read, Reading, Links
        <5>2. c <= conns
          BY <2>1, <3>4, <4>1 DEF WireInv, WireTyped, Links
        <5> QED
          BY <5>1, <5>2 DEF WireInv
      <4>3. conn[c].in = "closed"
        BY <4>1, <4>2, StreamFacts
      <4>4. conn[c].bytes = <<>>
        BY <4>3 DEF WireInv
      <4> QED
        BY <3>1, <4>4
    <3> QED
      BY <2>1, <3>2, <3>3, <3>4 DEF Links
  <2>6. PICK n \in Nat :
          /\ DOMAIN received' = 1 .. n + 1 /\ DOMAIN received = 1 .. n
          /\ (\A k \in 1 .. n : received'[k] = received[k]) /\ received'[n + 1] = m
    BY <2>4 DEF ReaderTyped
  <2>7. m <= msg /\ (InSend => m < msg) /\ \A k \in DOMAIN received : received[k] < m
    BY <2>1, <2>3, <2>4 DEF OrderInv
  <2>8. ASSUME NEW k \in DOMAIN received'
        PROVE  (k \in DOMAIN received /\ received'[k] = received[k]) \/ (k = n + 1 /\ received'[k] = m)
    <3>1. k \in 1 .. n \/ k = n + 1
      BY <2>6
    <3> QED
      BY <2>6, <3>1
  <2>9. ASSUME NEW c \in Links, NEW i \in DOMAIN conn'[c].bytes
        PROVE  /\ conn'[c].bytes[i][1] <= msg
               /\ InSend /\ conn'[c].bytes[i][2] = FrameCells => conn'[c].bytes[i][1] < msg
               /\ \A k \in DOMAIN received' : received'[k] < conn'[c].bytes[i][1]
    <3>1. PICK j \in DOMAIN conn[c].bytes : conn'[c].bytes[i] = conn[c].bytes[j]
      BY <1>2, <2>9
    <3> QED
      BY <2>5, <2>8, <3>1 DEF OrderInv
  <2>10. \A k \in DOMAIN received' : received'[k] <= msg /\ (InSend => received'[k] < msg)
    BY <2>7, <2>8 DEF OrderInv
  <2>11. ASSUME NEW i \in DOMAIN received', NEW j \in DOMAIN received', i < j
         PROVE  received'[i] < received'[j]
    <3>1. i \in DOMAIN received /\ received'[i] = received[i]
      BY <2>6, <2>11
    <3> QED
      BY <2>7, <2>8, <2>11, <3>1 DEF OrderInv
  <2> QED
    BY <1>1, <2>9, <2>10, <2>11 DEF OrderInv
<1> QED
  BY <1>0, <1>3, <1>4, ReadOutcome DEF Return

\* The other steps of the receiving thread keep the order of the envelopes.
LEMMA OrderIn ==
  ASSUME WireTyped, SenderTyped, ReaderTyped, SenderInv, ReaderInv, OrderInv, InStep \/ ReceiveCall,
         ~Read
  PROVE  OrderInv'
<1>1. Shrinks
  BY InEffect, EffectShrinks DEF Closing
<1>2. InUnchanged /\ received' = received
  BY DEF InStep, ReceiveCall, Loop, Accept, AcceptEnds, Accepted, Store, InSecured, InNotSecured,
     LoadHeader, LoadBody, LoadIn, Read,
         ReadEof, ReadError, ReadDeadline, ReadCancelled, Thrown, Return, Goto
<1> QED
  BY <1>1, <1>2, OrderKept DEF InUnchanged, outVars, InSend, Attempts

\* close() and resets keep the order of the envelopes.
LEMMA OrderClose ==
  ASSUME WireTyped, SenderTyped, ReaderTyped, SenderInv, ReaderInv, OrderInv,
         (\E e \in Ends : CloseCall(e) \/ Teardown(e)) \/ (\E c \in Links : Reset(c))
  PROVE  OrderInv'
<1>1. Shrinks
  BY CloseEffect, EffectShrinks
<1> QED
  BY <1>1, OrderKept DEF CloseCall, Teardown, Reset, outVars, inVars, InSend, Attempts
-----------------------------------------------------------------------------
(***************************************************************************)
(* Streams: an edge on which nothing fails.                                *)
(***************************************************************************)
\* What a step of the sending thread leaves alone.
LEMMA OutFrames ==
  ASSUME WireTyped, SenderTyped, SenderInv, OutStep
  PROVE  /\ UNCHANGED <<options, resets, closed, teardown, listener>>
         /\ UNCHANGED <<inPc, inFd, frame, received, result, failedBefore>>
         /\ sock'["in"] = sock["in"]
         /\ ~Connect => conns' = conns
         /\ ~Write => sent' = sent
         /\ ~SendCall /\ ~Write => msg' = msg
<1>1. UNCHANGED <<options, resets, closed, teardown, listener, inVars>>
      /\ (~Connect => conns' = conns) /\ (~SendCall /\ ~Write => msg' = msg)
  BY DEF OutStep, SendCall, Try, Connect, ConnectFails, NextTry, Connected, StoreOut, OutSecured, OutNotSecured,
     Load, Write,
         WriteFails, Caught, OutUnchanged, endVars
<1>2. ~Write => sent' = sent
  BY DEF OutStep, SendCall, Try, Connect, ConnectFails, NextTry, Connected, StoreOut, OutSecured, OutNotSecured,
     Load, WriteFails, Caught
<1>3. sock'["in"] = sock["in"]
  BY DEF OutStep, SendCall, Try, Connect, ConnectFails, NextTry, Connected, StoreOut, OutSecured, OutNotSecured,
     Load, Write,
         WriteFails, Caught, AttemptFails, EndAttempt, CloseConnection, endVars, WireTyped, Ends
<1> QED
  BY <1>1, <1>2, <1>3 DEF inVars

\* What a step of the receiving thread leaves alone; a closed listener stays closed,
\* and a failure is remembered.
LEMMA InFrames ==
  ASSUME WireTyped, ReaderTyped, InStep \/ ReceiveCall
  PROVE  /\ InUnchanged /\ sock'["out"] = sock["out"]
         /\ listener' = "open" => listener = "open"
         /\ failedBefore' = FALSE => failedBefore = FALSE
<1>1. InUnchanged
  BY DEF InStep, ReceiveCall, Loop, Accept, AcceptEnds, Accepted, Store, InSecured, InNotSecured,
     LoadHeader, LoadBody, LoadIn, Read,
         ReadEof, ReadError, ReadDeadline, ReadCancelled
<1>2. sock'["out"] = sock["out"]
  BY DEF InStep, ReceiveCall, Loop, Accept, AcceptEnds, Accepted, Store, InSecured, InNotSecured,
     LoadHeader, LoadBody, LoadIn, Read,
         ReadEof, ReadError, ReadDeadline, ReadCancelled, Kept, CutOff, Invalidate, CloseConnection,
         CloseAll, WireTyped, Ends
<1>3. listener' = "open" => listener = "open"
  BY DEF InStep, ReceiveCall, Loop, Accept, AcceptEnds, Accepted, Store, InSecured, InNotSecured,
     LoadHeader, LoadBody, LoadIn, Read,
         ReadEof, ReadError, ReadDeadline, ReadCancelled, Kept, CutOff, Invalidate, CloseConnection,
         CloseAll
<1>4. failedBefore' = FALSE => failedBefore = FALSE
  <2>1. failedBefore' = failedBefore \/ \E r : Return(r)
    BY DEF InStep, ReceiveCall, Loop, Accept, AcceptEnds, Accepted, Store, InSecured, InNotSecured,
       LoadHeader, LoadBody, LoadIn, Read,
         ReadEof, ReadError, ReadDeadline, ReadCancelled, Thrown, Goto, Deliver
  <2>2. ASSUME NEW r, Return(r), failedBefore' = FALSE PROVE failedBefore = FALSE
    BY <2>2 DEF Return, ReaderTyped
  <2> QED
    BY <2>1, <2>2
<1> QED
  BY <1>1, <1>2, <1>3, <1>4

\* Without reconnection a failed attempt is a failed send, unless it was the
\* constructor's.
LEMMA FailedAttempt ==
  ASSUME WireTyped, SenderTyped, SenderInv, AttemptFails, options.reconnect = FALSE,
         UNCHANGED <<msg, sent>>,
         outPc \in {"connect", "secure", "write", "thrown"}, NoSendFailed'
  PROVE  outPc' = "dead"
<1>1. attempt = 0 \/ (attempt # 0 /\ msg > 0 /\ msg \notin sent)
  BY DEF SenderInv
<1>2. CASE attempt = 0
  BY <1>2 DEF AttemptFails, EndAttempt, Constructing
<1>3. CASE attempt # 0 /\ msg > 0 /\ msg \notin sent
  <2>1. outPc' = "idle"
    BY <1>3 DEF AttemptFails, EndAttempt, Constructing, Attempts, SenderTyped
  <2>2. msg \in 1 .. msg
    BY <1>3 DEF SenderTyped
  <2> QED
    BY <1>3, <2>1, <2>2 DEF NoSendFailed
<1> QED
  BY <1>1, <1>2, <1>3

\* An edge on which no send has failed had no failed send before.
LEMMA UntroubledBefore ==
  ASSUME WireTyped, SenderTyped, SenderInv, OutStep, Untroubled'
  PROVE  Untroubled /\ (SendCall => outPc' # "idle")
<1>0. options.reconnect = FALSE /\ NoSendFailed'
  BY OutFrames DEF Untroubled
<1>1. CASE SendCall
  <2>1. msg \in Nat /\ msg' = msg + 1 /\ sent' = sent /\ outPc = "idle" /\ sent \subseteq 1 .. msg
    BY <1>1 DEF SendCall, SenderTyped, SenderInv
  <2>2. msg + 1 \in 1 .. msg + 1 /\ msg + 1 \notin sent
        /\ \A n \in 1 .. msg : n \in 1 .. msg + 1 /\ n # msg + 1
    BY <2>1
  <2>3. outPc' # "idle" /\ \A n \in 1 .. msg : n \in sent
    BY <1>0, <2>1, <2>2 DEF NoSendFailed
  <2> QED
    BY <1>0, <2>1, <2>3 DEF NoSendFailed, Untroubled
<1>2. CASE Write
  <2>0. attempt # 0 /\ attempt \in 0 .. 2 /\ Attempts = 1
    BY <1>0, <1>2 DEF Write, SenderInv, SenderTyped, Attempts
  <2>1. msg' = msg /\ (sent' = sent \/ sent' = sent \cup {msg}) /\ outPc # "idle"
    BY <1>2, <2>0 DEF Write, Written
  <2> QED
    BY <1>0, <1>2, <2>1 DEF NoSendFailed, Untroubled, SendCall
<1>3. CASE ~SendCall /\ ~Write
  <2>1. msg' = msg /\ sent' = sent
    BY <1>3, OutFrames
  <2>2. outPc # "idle"
    BY <1>3 DEF OutStep, Try, Connect, ConnectFails, NextTry, Connected, StoreOut, OutSecured, OutNotSecured,
       Load, WriteFails, Caught
  <2> QED
    BY <1>0, <1>3, <2>1, <2>2 DEF NoSendFailed, Untroubled
<1> QED
  BY <1>1, <1>2, <1>3

\* While no send fails, the sender gives up connections only in their handshake.
LEMMA LastOut ==
  ASSUME WireTyped, SenderTyped, ReaderTyped, WireInv, SenderInv, ReaderInv, LastInv, OutStep,
         spoiled' = FALSE
  PROVE  LastInv'
<1> SUFFICES ASSUME Untroubled'
             PROVE  /\ \A c \in Links : c < conns' => options.tls = TRUE /\ conn'[c].secured = FALSE
                    /\ closed["out"] = FALSE /\ outPc' \in {"idle", "try", "load", "write"} =>
                         sock'["out"] # 0
                    /\ closed["out"] = FALSE /\ outPc' = "connect" /\ conns' # 0 =>
                         options.tls = TRUE /\ conn'[conns'].secured = FALSE
  BY OutFrames DEF LastInv
<1>0. Untroubled
      /\ (SendCall => outPc' # "idle") /\ options.reconnect = FALSE /\ NoSendFailed' /\ conns \in Nat
  <2>1. Untroubled /\ (SendCall => outPc' # "idle")
    BY UntroubledBefore
  <2>2. options.reconnect = FALSE /\ NoSendFailed'
    BY <2>1 DEF Untroubled
  <2> QED
    BY <2>1, <2>2 DEF WireTyped
<1>1. /\ \A c \in Links : c < conns => options.tls = TRUE /\ conn[c].secured = FALSE
      /\ closed["out"] = FALSE /\ outPc \in {"idle", "try", "load", "write"} => sock["out"] # 0
      /\ closed["out"] = FALSE /\ outPc = "connect" /\ conns # 0 =>
           options.tls = TRUE /\ conn[conns].secured = FALSE
  BY <1>0 DEF LastInv
<1>2. conns # 0 => conns \in Links
  BY DEF WireTyped, Links
<1>C. ASSUME ClosingOut PROVE (\A c \in Links : conn'[c].secured = conn[c].secured) /\ conns' = conns
  BY <1>C DEF ClosingOut, CutOut
<1>F. ASSUME AttemptFails, ClosingOut, UNCHANGED <<msg, sent>>,
             outPc \in {"connect", "secure", "write", "thrown"}
      PROVE  /\ \A c \in Links : c < conns' => options.tls = TRUE /\ conn'[c].secured = FALSE
             /\ outPc' \notin {"idle", "try", "load", "write", "connect"}
  BY <1>0, <1>1, <1>C, <1>F, FailedAttempt
<1>3. CASE SendCall \/ Try \/ StoreOut \/ Load
  <2>1. UNCHANGED <<conn, conns>>
    BY <1>3 DEF SendCall, Try, StoreOut, Load, OutUnchanged
  <2>2. closed["out"] = FALSE => outPc' # "connect"
    BY <1>1, <1>3 DEF SendCall, Try, StoreOut, Load
  <2>3. closed["out"] = FALSE /\ outPc' \in {"idle", "try", "load", "write"} => sock'["out"] # 0
    BY <1>1, <1>3 DEF SendCall, Try, StoreOut, Load
  <2> QED
    BY <1>1, <2>1, <2>2, <2>3
<1>4. CASE Connect
  <2>1. conns' = conns + 1 /\ outPc' = "connected" /\ closed["out"] = FALSE /\ outPc = "connect"
    BY <1>4, StreamFacts DEF Connect
  <2>2. \A c \in Links : conn'[c].secured = conn[c].secured
    BY <1>4, ConnectEffect
  <2>3. ASSUME NEW c \in Links, c < conns + 1 PROVE options.tls = TRUE /\ conn[c].secured = FALSE
    <3>1. c < conns \/ (c = conns /\ conns # 0)
      BY <1>0, <2>3 DEF Links
    <3> QED
      BY <1>1, <2>1, <3>1
  <2> QED
    BY <2>1, <2>2, <2>3
<1>5. CASE ConnectFails
  <2>1. ClosingOut
    BY <1>5, OutEffect DEF ConnectFails, NextTry, Connect, OutSecured, Write, AttemptFails, EndAttempt,
       SenderTyped, OutUnchanged, WireTyped
  <2>2. CASE AttemptFails
    BY <1>5, <1>F, <2>1, <2>2 DEF ConnectFails
  <2>3. CASE UNCHANGED <<conn, sock>> /\ outPc' \in {"connect", "thrown"}
    BY <1>1, <1>C, <1>5, <2>1, <2>3 DEF ConnectFails
  <2> QED
    BY <1>5, <2>2, <2>3 DEF ConnectFails, NextTry
<1>6. CASE Connected
  <2>1. CutOut(IF closed["out"] THEN outFd ELSE 0) /\ conns' = conns
    BY <1>6, ConnectedEffect DEF Connected, OutUnchanged
  <2>2. \A c \in Links : conn'[c].secured = conn[c].secured
    BY <2>1 DEF CutOut
  <2>3. closed["out"] = FALSE => outPc' = "store"
    BY <1>6 DEF Connected
  <2> QED
    BY <1>1, <2>1, <2>2, <2>3
<1>7. CASE OutSecured
  <2>1. outPc = "secure" /\ outPc' \in {"idle", "load", "thrown"} /\ UNCHANGED <<sock, conns>>
        /\ closed["out"] = FALSE
    BY <1>7, StreamFacts DEF OutSecured, OutUnchanged
  <2>2. outFd = conns /\ sock["out"] = outFd /\ outFd # 0
    BY <2>1 DEF SenderInv
  <2>3. \A c \in Links : c # outFd => conn'[c].secured = conn[c].secured
    BY <1>7, OutSecuredEffect
  <2> QED
    BY <1>0, <1>1, <2>1, <2>2, <2>3 DEF Links
<1>8. CASE OutNotSecured
  <2>1. outPc = "secure" /\ conns' = conns
    BY <1>8 DEF OutNotSecured, OutUnchanged
  <2>2. CASE AttemptFails
    <3>1. ClosingOut
      BY <1>8, <2>1, <2>2, OutEffect DEF Connect, OutSecured, Write, OutNotSecured, AttemptFails, EndAttempt
    <3> QED
      BY <1>8, <1>F, <2>1, <2>2, <3>1 DEF OutNotSecured
  <2>3. CASE CloseConnection("out") /\ outPc' \in {"connect", "thrown"}
    <3>1. \A c \in Links : conn'[c].secured = conn[c].secured
      BY <2>3, DroppedOut DEF CloseConnection, CutOut
    <3>2. closed["out"] = FALSE => options.tls = TRUE
      BY <1>8, StreamFacts DEF OutNotSecured
    <3>3. outFd = conns /\ outFd # 0 /\ conn[outFd].secured = FALSE
      BY <2>1 DEF SenderInv
    <3> QED
      BY <1>1, <1>2, <2>1, <2>3, <3>1, <3>2, <3>3
  <2> QED
    BY <1>8, <2>2, <2>3 DEF OutNotSecured, NextTry
<1>9. CASE Write
  <2>1. msg > 0 /\ outPc = "write" /\ UNCHANGED <<sock, conns>>
    BY <1>9 DEF Write, OutUnchanged, SenderInv, SenderTyped
  <2>2. \A c \in Links : conn'[c].secured = conn[c].secured
    BY <1>9, <2>1, WriteEffect
  <2>3. outPc' \in {"write", "idle", "thrown"}
    BY <1>9 DEF Write, Written
  <2> QED
    BY <1>1, <2>1, <2>2, <2>3
<1>10. CASE WriteFails \/ Caught
  <2>1. ClosingOut
    <3>1. CutOut(IF KeepsSocket("out") THEN 0 ELSE sock["out"]) /\ UNCHANGED <<options, conns, resets>>
      BY <1>10, AttemptEffect DEF WriteFails, Caught, OutUnchanged
    <3> QED
      BY <3>1, EndsOpen, CutsOut
  <2> QED
    BY <1>10, <1>F, <2>1 DEF WriteFails, Caught
<1> QED
  BY <1>3, <1>4, <1>5, <1>6, <1>7, <1>8, <1>9, <1>10 DEF OutStep

\* A step that leaves the sender alone preserves this.
LEMMA LastKept ==
  ASSUME WireTyped, LastInv, UNCHANGED <<options, conns, outPc, msg, sent>>,
         sock'["out"] = sock["out"] \/ closed["out"] = TRUE,
         closed'["out"] = closed["out"] \/ closed'["out"] = TRUE,
         \A c \in Links : conn'[c].secured = conn[c].secured
  PROVE  LastInv'
<1> SUFFICES ASSUME Untroubled' PROVE LastInv'
  BY DEF LastInv
<1>1. Untroubled
  BY DEF Untroubled, NoSendFailed
<1>2. conns # 0 => conns \in Links
  BY DEF WireTyped, Links
<1> QED
  BY <1>1, <1>2 DEF LastInv

\* So does a step of the receiving thread.
LEMMA LastIn ==
  ASSUME WireTyped, SenderTyped, ReaderTyped, SenderInv, ReaderInv, LastInv, InStep \/ ReceiveCall
  PROVE  LastInv'
<1>1. \A c \in Links : conn'[c].secured = conn[c].secured
  BY InEffect, AcceptEffect, ReadEffect DEF ClosingIn, CutIn
<1> QED
  BY <1>1, LastKept, InFrames DEF InUnchanged, outVars

\* So does close().
LEMMA LastClose ==
  ASSUME WireTyped, SenderTyped, ReaderTyped, SenderInv, ReaderInv, LastInv, NEW e \in Ends,
         CloseCall(e) \/ Teardown(e)
  PROVE  LastInv'
<1>1. \A c \in Links : conn'[c].secured = conn[c].secured
  BY CloseEffect DEF Closing, ClosingIn, ClosingOut, CutIn, CutOut
<1>2. CASE CloseCall(e)
  BY <1>1, <1>2, LastKept, StreamFacts DEF CloseCall, wireVars, outVars, WireTyped, Ends
<1>3. CASE Teardown(e)
  <2>1. sock'["out"] = sock["out"] \/ closed["out"] = TRUE
    BY <1>3, StreamFacts DEF Teardown, CloseAll, WireTyped, Ends, SenderInv
  <2> QED
    BY <1>1, <1>3, <2>1, LastKept DEF Teardown, outVars
<1> QED
  BY <1>2, <1>3

\* So does a reset.
LEMMA LastReset ==
  ASSUME WireTyped, LastInv, NEW c \in Links, Reset(c)
  PROVE  LastInv'
<1>1. \A d \in Links \ {c} : conn'[d] = conn[d]
  BY ResetEffect
<1>2. conn'[c].secured = conn[c].secured
  BY ResetEffect
<1> QED
  BY <1>1, <1>2, LastKept DEF Reset, endVars, outVars
-----------------------------------------------------------------------------
(***************************************************************************)
(* Streams: the end of the stream.                                         *)
(***************************************************************************)
\* What has arrived stays so.
LEMMA DoneKept ==
  ASSUME Done, sent' = sent, \A m : Arrived(m) => Arrived(m)',
         \A c \in Links : conn'[c].out = "open" => conn[c].out = "open"
  PROVE  Done'
  BY DEF Done

\* The sending thread delivers nothing.
LEMMA ArrivedOut ==
  ASSUME WireTyped, SenderTyped, SenderInv, OutStep PROVE \A m : Arrived(m)' = Arrived(m)
  BY OutFrames DEF Arrived

\* The receiving thread takes no delivery back.
LEMMA ArrivedIn ==
  ASSUME WireTyped, ReaderTyped, ReaderInv, FrameInv, HeadInv, InStep \/ ReceiveCall
  PROVE  \A m : Arrived(m) => Arrived(m)'
<1>1. CASE received' = received
  BY <1>1 DEF Arrived
<1>2. CASE Read
  <2>1. PICK cells : cells = Append(frame, Head(conn[inFd].bytes))
    OBVIOUS
  <2>2. CASE Deliver(cells)
    <3>1. received' = Append(received, Head(cells)[1]) /\ received \in Seq(Nat)
      BY <2>2 DEF Deliver, ReaderTyped
    <3>2. \A k \in DOMAIN received : k \in DOMAIN received' /\ received'[k] = received[k]
      BY <3>1
    <3> QED
      BY <3>2 DEF Arrived
  <2> QED
    BY <1>1, <1>2, <2>1, <2>2, ReadOutcome DEF Return
<1>3. CASE ~Read
  <2>1. received' = received
    BY <1>3 DEF InStep, ReceiveCall, Loop, Accept, AcceptEnds, Accepted, Store, InSecured,
       InNotSecured, LoadHeader, LoadBody, LoadIn,
         ReadEof, ReadError, ReadDeadline, ReadCancelled, Thrown, Return, Goto
  <2> QED
    BY <1>1, <2>1
<1> QED
  BY <1>2, <1>3

\* The members of a sequence with one more at its end.
LEMMA AppendFacts ==
  ASSUME NEW s \in Seq(Cells), NEW x \in Cells, NEW t, t = Append(s, x)
  PROVE  \E n \in Nat : /\ DOMAIN s = 1 .. n /\ DOMAIN t = 1 .. n + 1
                        /\ (\A i \in 1 .. n : t[i] = s[i]) /\ t[n + 1] = x
<1>1. PICK n \in Nat : n = Len(s) /\ DOMAIN s = 1 .. n
  OBVIOUS
<1>2. DOMAIN t = 1 .. n + 1 /\ (\A i \in 1 .. n : t[i] = s[i]) /\ t[n + 1] = x
  BY <1>1
<1> QED
  BY <1>1, <1>2

\* A step of the sending thread: what is sent is on the wire.
LEMMA EndOut ==
  ASSUME WireTyped, SenderTyped, ReaderTyped, WireInv, SenderInv, ReaderInv, EndInv, OutStep,
         spoiled' = FALSE
  PROVE  EndInv'
<1>1. UNCHANGED <<options, resets, closed, listener, result, received, failedBefore>>
  BY OutFrames
<1>2. Smooth' => Smooth
  BY <1>1, UntroubledBefore DEF Smooth
<1>3. ASSUME Done, listener = "closed" PROVE Done'
  <2>1. ~Connect /\ ~Write
    <3>1. ~Connect
      BY <1>3 DEF Connect
    <3>2. ASSUME Write PROVE FALSE
      <4>1. outFd \in Links /\ conn[outFd].out = "open"
        BY <3>2 DEF Write, SenderTyped, Links
      <4> QED
        BY <1>3, <4>1 DEF Done
    <3> QED
      BY <3>1, <3>2
  <2>2. sent' = sent
    BY <2>1, OutFrames
  <2>3. \A c \in Links : conn'[c].out = "open" => conn[c].out = "open"
    BY <2>1, OutEffect, OutSecuredEffect DEF ClosingOut, CutOut
  <2> QED
    BY <1>3, <2>2, <2>3, ArrivedOut, DoneKept
<1>4. ASSUME Accounted PROVE Accounted'
  <2>1. CASE Write
    <3>1. msg > 0 /\ outFd \in Links /\ conn[outFd].in # "closed" /\ cursor \in Nat
          /\ cursor + 1 <= FrameCells
      BY <1>4, <2>1, StreamConstants DEF Write, SenderInv, SenderTyped, Links, Accounted
    <3>2. PICK b \in Seq(Cells) : b = conn[outFd].bytes
      BY <3>1, StreamFacts
    <3>3. conn'[outFd].bytes = Append(b, <<msg, cursor + 1>>)
          /\ \A c \in Links : conn'[c].in = conn[c].in /\ (c # outFd => conn'[c].bytes = conn[c].bytes)
      BY <2>1, <3>1, <3>2, WriteEffect
    <3>4. PICK n \in Nat : DOMAIN b = 1 .. n /\ DOMAIN conn'[outFd].bytes = 1 .. n + 1
                           /\ (\A i \in 1 .. n : conn'[outFd].bytes[i] = b[i])
                           /\ conn'[outFd].bytes[n + 1] = <<msg, cursor + 1>>
      <4>1. <<msg, cursor + 1>> \in Cells
        BY <2>1, <3>1, WriteEffect
      <4>2. PICK x \in Cells : x = <<msg, cursor + 1>>
        BY <4>1
      <4>3. PICK t : t = conn'[outFd].bytes /\ t = Append(b, x)
        BY <3>3, <4>2
      <4>4. \E n \in Nat :
              DOMAIN b = 1 .. n /\ DOMAIN t = 1 .. n + 1 /\ (\A i \in 1 .. n : t[i] = b[i]) /\ t[n + 1] = x
        BY <4>3, AppendFacts
      <4> QED
        BY <4>2, <4>3, <4>4
    <3>5. ASSUME NEW m, OnWire(m) PROVE OnWire(m)'
      <4>1. PICK c \in Links : \E i \in DOMAIN conn[c].bytes : conn[c].bytes[i] = <<m, FrameCells>>
        BY <3>5 DEF OnWire
      <4>2. PICK i \in DOMAIN conn[c].bytes : conn[c].bytes[i] = <<m, FrameCells>>
        BY <4>1
      <4>3. i \in DOMAIN conn'[c].bytes /\ conn'[c].bytes[i] = <<m, FrameCells>>
        <5>1. CASE c = outFd
          BY <3>2, <3>4, <4>2, <5>1
        <5>2. CASE c # outFd
          BY <3>3, <4>2, <5>2
        <5> QED
          BY <5>1, <5>2
      <4> QED
        BY <4>3 DEF OnWire
    <3>6. CASE sent' = sent
      BY <1>4, <3>3, <3>5, <3>6, ArrivedOut DEF Accounted
    <3>7. CASE sent' = sent \cup {msg} /\ msg' = msg /\ cursor + 1 = FrameCells
      <4>1. OnWire(msg)'
        <5>1. n + 1 \in DOMAIN conn'[outFd].bytes /\ conn'[outFd].bytes[n + 1] = <<msg, FrameCells>>
          BY <3>4, <3>7
        <5>2. \E c \in Links : \E i \in DOMAIN conn'[c].bytes : conn'[c].bytes[i] = <<msg, FrameCells>>
          BY <3>1, <5>1
        <5> QED
          BY <3>7, <5>2 DEF OnWire
      <4>2. ASSUME NEW m \in sent' PROVE Arrived(m)' \/ OnWire(m)'
        <5>1. CASE m \in sent
          BY <1>4, <3>5, <5>1, ArrivedOut DEF Accounted
        <5>2. CASE m = msg
          BY <3>7, <4>1, <5>2 DEF OnWire
        <5> QED
          BY <3>7, <5>1, <5>2
      <4>3. \A c \in Links : conn'[c].in # "closed"
        BY <1>4, <3>3 DEF Accounted
      <4> QED
        BY <4>2, <4>3 DEF Accounted
    <3> QED
      BY <2>1, <3>1, <3>6, <3>7, StreamConstants DEF Write, Written
  <2>2. CASE ~Write
    <3>1. sent' = sent
      BY <2>2, OutFrames
    <3>2. \A c \in Links : /\ conn'[c].bytes = conn[c].bytes
                           /\ conn'[c].in = conn[c].in \/ conn'[c].in = "backlog"
      BY <2>2, OutEffect, ConnectEffect, OutSecuredEffect DEF ClosingOut, CutOut
    <3>3. \A m : OnWire(m) => OnWire(m)'
      BY <3>2 DEF OnWire
    <3> QED
      BY <1>4, <3>1, <3>2, <3>3, ArrivedOut DEF Accounted
  <2> QED
    BY <2>1, <2>2
<1> QED
  BY <1>1, <1>2, <1>3, <1>4 DEF EndInv

\* A step after which nothing has failed began so.
LEMMA SmoothIn ==
  ASSUME WireTyped, ReaderTyped, InStep \/ ReceiveCall, Smooth'
  PROVE  Smooth
<1>1. UNCHANGED <<options, outPc, msg, sent, resets>> /\ (failedBefore' = FALSE => failedBefore = FALSE)
  BY InFrames DEF InUnchanged, outVars
<1> QED
  BY <1>1 DEF Smooth, Untroubled, NoSendFailed
\* The steps of the receiver that close something on an edge that nothing has troubled.

\* While nothing fails, the receiving thread closes a connection only at the end of
\* the stream.
LEMMA SmoothCloses ==
  ASSUME WireTyped, ReaderTyped, InStep \/ ReceiveCall, Smooth', closed["in"] = FALSE
  PROVE  \/ UNCHANGED <<conn, listener>>
         \/ Accept \/ Read
         \/ ReadEof /\ CloseAll("in") /\ Return("eos") /\ frame = <<>>
<1>0. options.reconnect = FALSE /\ failedBefore' = FALSE
  BY SmoothIn DEF Smooth, Untroubled
<1>1. ASSUME Return("error") PROVE FALSE
  BY <1>0, <1>1 DEF Return
<1>2. CASE InNotSecured \/ ReadError
  BY <1>1, <1>2, Zenon DEF InNotSecured, ReadError
<1>3. CASE ReadDeadline
  BY <1>1, <1>3, Zenon DEF ReadDeadline, Kept
<1>4. CASE ReadEof
  BY <1>0, <1>1, <1>4 DEF ReadEof, Kept
<1>5. CASE Accepted
  BY <1>5 DEF Accepted
<1>6. CASE ReceiveCall \/ Loop \/ AcceptEnds \/ Store \/ InSecured \/ LoadHeader \/ LoadBody \/ ReadCancelled
  BY <1>6 DEF ReceiveCall, Loop, AcceptEnds, Store, InSecured, LoadHeader, LoadBody, LoadIn,
     ReadCancelled, Kept
<1> QED
  BY <1>2, <1>3, <1>4, <1>5, <1>6 DEF InStep

\* When the reader of the latest connection has met its end, all that was sent has
\* arrived: the connections before it carried nothing.
LEMMA EofIsDone ==
  ASSUME WireTyped, SenderTyped, ReaderTyped, WireInv, SenderInv, ReaderInv, LastInv, Accounted,
         Untroubled, ReadEof
  PROVE  Done
<1>1. inFd \in Links /\ conn[inFd].in = "open" /\ conn[inFd].bytes = <<>> /\ conn[inFd].out = "closed"
      /\ inPc \in {"header", "body"}
  BY DEF ReadEof, Reading, Open, ReaderTyped, Links
<1>2. sock["in"] = inFd /\ inFd # 0
  BY <1>1 DEF ReaderInv, Links
<1>3. conn[inFd].secured = options.tls
  BY <1>1, <1>2 DEF ReaderInv
<1>4. conns \in Nat /\ inFd \in Nat
  BY <1>1 DEF WireTyped, Links
<1>5. ~(inFd > conns)
  BY <1>1 DEF WireInv
<1>6. ~(inFd < conns)
  BY <1>1, <1>3 DEF LastInv
<1>7. inFd = conns
  BY <1>4, <1>5, <1>6
<1>8. ASSUME NEW c \in Links PROVE conn[c].bytes = <<>>
  <2>1. CASE c < conns
    BY <2>1 DEF LastInv, WireInv
  <2>2. CASE c > conns
    BY <2>2 DEF WireInv
  <2> QED
    BY <1>1, <1>4, <1>7, <2>1, <2>2 DEF Links
<1>9. ASSUME NEW c \in Links PROVE conn[c].out # "open"
  <2>1. conn[c].out = "open" => c = conns
    BY <1>7, <1>2 DEF SenderInv, Links
  <2> QED
    BY <1>1, <1>7, <2>1
<1>10. \A m : ~OnWire(m)
  BY <1>8 DEF OnWire
<1> QED
  BY <1>9, <1>10 DEF Accounted, Done

\* A frame whose last cell is read is delivered.
LEMMA AccountedRead ==
  ASSUME WireTyped, ReaderTyped, ReaderInv, FrameInv, HeadInv, Accounted, Read, closed["in"] = FALSE,
         failedBefore' = FALSE
  PROVE  Accounted'
<1>0. PICK cells : cells = Append(frame, Head(conn[inFd].bytes))
  OBVIOUS
<1>1. sent' = sent /\ \A m : Arrived(m) => Arrived(m)'
  <2>1. sent' = sent
    BY DEF Read, InUnchanged, outVars
  <2>2. \A m : Arrived(m) => Arrived(m)'
    BY ArrivedIn DEF InStep
  <2> QED
    BY <2>1, <2>2
<1>2. \A c \in Links : conn'[c].in # "closed"
  BY ReadEffect DEF Accounted
<1>3. PICK b \in Seq(Cells) : b = conn[inFd].bytes /\ b # <<>> /\ conn'[inFd].bytes = Tail(b)
                              /\ inFd \in Links
                              /\ \A c \in Links : c # inFd => conn'[c].bytes = conn[c].bytes
  BY ReadEffect
<1>4. ASSUME NEW m, OnWire(m) PROVE Arrived(m)' \/ OnWire(m)'
  <2>1. PICK c \in Links : \E i \in DOMAIN conn[c].bytes : conn[c].bytes[i] = <<m, FrameCells>>
    BY <1>4 DEF OnWire
  <2>2. PICK i \in DOMAIN conn[c].bytes : conn[c].bytes[i] = <<m, FrameCells>>
    BY <2>1
  <2>3. CASE c # inFd
    <3>1. i \in DOMAIN conn'[c].bytes /\ conn'[c].bytes[i] = <<m, FrameCells>>
      BY <1>3, <2>2, <2>3
    <3> QED
      BY <3>1 DEF OnWire
  <2>4. CASE c = inFd /\ i # 1
    <3>1. i \in 1 .. Len(b) /\ Len(b) \in Nat
      BY <1>3, <2>2, <2>4
    <3>2. i - 1 \in DOMAIN Tail(b) /\ Tail(b)[i - 1] = b[i]
      BY <1>3, <2>4, <3>1
    <3>3. i - 1 \in DOMAIN conn'[c].bytes /\ conn'[c].bytes[i - 1] = <<m, FrameCells>>
      BY <1>3, <2>2, <2>4, <3>2
    <3> QED
      BY <3>3 DEF OnWire
  <2>5. CASE c = inFd /\ i = 1
    <3>1. b[1] = <<m, FrameCells>>
      BY <1>3, <2>2, <2>5
    <3>2. /\ cells \in Seq(Cells) /\ Len(cells) \in Nat /\ Len(cells) = Len(frame) + 1
          /\ cells[Len(cells)] = b[1] /\ Head(cells) = cells[1]
          /\ \A j \in DOMAIN cells : cells[j][1] = cells[1][1] /\ cells[j][2] = j
      BY <1>0, <1>3, ReadFacts
    <3>3. Len(cells) \in DOMAIN cells
      <4>1. Len(frame) \in Nat
        BY DEF ReaderTyped
      <4> QED
        BY <3>2, <4>1
    <3>4. Len(cells) = FrameCells /\ cells[1][1] = m
      BY <3>1, <3>2, <3>3
    <3>5. Deliver(cells)
      <4>1. ~(Len(cells) < FrameCells)
        BY <3>4, StreamConstants
      <4>2. closed["in"] # TRUE /\ ~Return("error")
        BY DEF Return
      <4> QED
        BY <1>0, <4>1, <4>2, ReadOutcome
    <3>6. received' = Append(received, m) /\ received \in Seq(Nat) /\ m \in Nat
      BY <3>2, <3>4, <3>5 DEF Deliver, ReaderTyped, Cells
    <3>7. Len(received) + 1 \in DOMAIN received' /\ received'[Len(received) + 1] = m
      BY <3>6
    <3> QED
      BY <3>7 DEF Arrived
  <2> QED
    BY <2>3, <2>4, <2>5
<1> QED
  BY <1>1, <1>2, <1>4 DEF Accounted

\* A step of the receiving thread ends the stream only when everything has arrived.
LEMMA EndIn ==
  ASSUME WireTyped, SenderTyped, ReaderTyped, WireInv, SenderInv, ReaderInv, FrameInv, HeadInv,
         LastInv, EndInv, InStep \/ ReceiveCall
  PROVE  EndInv'
<1>1. UNCHANGED <<options, conns, resets, closed, outPc, msg, sent>>
      /\ (listener' = "open" => listener = "open")
  BY InFrames DEF InUnchanged, outVars
<1>2. Smooth' => Smooth
  BY SmoothIn
<1>3. \A c \in Links : conn'[c].out = conn[c].out
  BY InEffect, AcceptEffect, ReadEffect DEF ClosingIn, CutIn
<1>4. Done => Done'
  BY <1>1, <1>3, ArrivedIn, DoneKept
<1>L. listener' \in {listener, "closed"}
  BY DEF InStep, ReceiveCall, Loop, Accept, AcceptEnds, Accepted, Store, InSecured, InNotSecured,
     LoadHeader, LoadBody, LoadIn, Read,
         ReadEof, ReadError, ReadDeadline, ReadCancelled, Kept, CutOff, Invalidate, CloseConnection,
         CloseAll
<1>5. ASSUME Smooth', closed["in"] = FALSE, listener = "open", listener' = "open" PROVE Accounted'
  <2>1. Accounted
    BY <1>2, <1>5 DEF EndInv
  <2>2. CASE UNCHANGED <<conn, listener>>
    <3>1. \A m : OnWire(m) => OnWire(m)'
      BY <2>2 DEF OnWire
    <3> QED
      BY <1>1, <2>1, <2>2, <3>1, ArrivedIn DEF Accounted
  <2>3. CASE Accept
    <3>1. \A c \in Links : conn'[c].bytes = conn[c].bytes /\ conn'[c].in # "closed"
      BY <2>1, <2>3, AcceptEffect DEF Accounted
    <3>2. \A m : OnWire(m) => OnWire(m)'
      BY <3>1 DEF OnWire
    <3> QED
      BY <1>1, <2>1, <3>1, <3>2, ArrivedIn DEF Accounted
  <2>4. CASE Read
    BY <1>5, <2>1, <2>4, AccountedRead DEF Smooth
  <2>5. CASE CloseAll("in")
    BY <1>5, <2>5 DEF CloseAll
  <2> QED
    BY <1>5, <2>2, <2>3, <2>4, <2>5, SmoothCloses
<1>6. ASSUME Smooth', closed["in"] = FALSE, listener' = "closed" PROVE Done'
  <2>1. CASE listener = "closed"
    BY <1>2, <1>4, <1>6, <2>1 DEF EndInv
  <2>2. CASE listener = "open"
    <3>1. Accounted
      BY <1>2, <1>6, <2>2 DEF EndInv
    <3>2. listener' # listener /\ ~Accept /\ ~Read
      BY <1>6, <2>2 DEF Accept, Read
    <3>3. ReadEof
      BY <1>6, <3>2, SmoothCloses
    <3>4. Done
      BY <1>2, <1>6, <3>1, <3>3, EofIsDone DEF Smooth
    <3> QED
      BY <1>4, <3>4
  <2> QED
    BY <2>1, <2>2 DEF WireTyped
<1>7. ASSUME result' = "eos" PROVE options.reconnect = FALSE /\ (Smooth' => listener' = "closed" /\ Done')
  <2>1. CASE result = "eos" /\ result' = result
    <3>1. options.reconnect = FALSE /\ (Smooth => listener = "closed" /\ Done)
      BY <2>1 DEF EndInv
    <3>2. listener = "closed" => listener' = "closed"
      BY <1>L
    <3> QED
      BY <1>1, <1>2, <1>4, <3>1, <3>2
  <2>2. CASE Loop /\ result' # result
    <3>1. listener' = listener /\ closed["in"] = FALSE /\ ~Tcp /\ listener # "open"
      BY <1>7, <2>2, StreamFacts DEF Loop, Kept, Return, Goto
    <3>2. listener = "closed" /\ options.reconnect = FALSE
      BY <3>1, StreamFacts DEF WireTyped, Tcp
    <3> QED
      BY <1>6, <3>1, <3>2
  <2>3. CASE ReadEof /\ result' # result
    <3>1. closed["in"] = FALSE /\ options.reconnect = FALSE /\ CloseAll("in")
      BY <1>7, <2>3, StreamFacts DEF ReadEof, Return, Goto
    <3>2. listener' = "closed"
      BY <3>1 DEF CloseAll
    <3> QED
      BY <1>6, <3>1, <3>2
  <2>4. result' = result \/ Loop \/ ReadEof
    BY <1>7 DEF InStep, ReceiveCall, Accept, AcceptEnds, Accepted, Store, InSecured, InNotSecured,
       LoadHeader, LoadBody, LoadIn, Read, Thrown,
         ReadError, ReadDeadline, ReadCancelled, IdleResult, Return, Goto, Deliver
  <2> QED
    BY <1>7, <2>1, <2>2, <2>3, <2>4
<1> QED
  BY <1>1, <1>5, <1>6, <1>7 DEF EndInv

\* A close() of the receiver makes no claim about the end, and one of the sender
\* leaves the wire as it is.
LEMMA EndClose ==
  ASSUME WireTyped, SenderTyped, ReaderTyped, WireInv, SenderInv, ReaderInv, EndInv, NEW e \in Ends,
         CloseCall(e) \/ Teardown(e)
  PROVE  EndInv'
<1>1. UNCHANGED <<options, resets, outPc, msg, sent, received, result, failedBefore>>
  BY DEF CloseCall, Teardown, wireVars, outVars, inVars
<1>2. Smooth' = Smooth /\ \A m : Arrived(m)' = Arrived(m)
  BY <1>1 DEF Smooth, Untroubled, NoSendFailed, Arrived
<1>3. Done => Done'
  <2>1. \A c \in Links : conn'[c].out = "open" => conn[c].out = "open"
    BY CloseEffect DEF Closing, ClosingIn, ClosingOut, CutIn, CutOut
  <2> QED
    BY <1>1, <1>2, <2>1, DoneKept
<1>4. CASE CloseCall(e)
  <2>1. UNCHANGED <<conn, listener>> /\ (closed'["in"] = FALSE => closed["in"] = FALSE)
    BY <1>4, StreamFacts DEF CloseCall, wireVars, WireTyped, Ends
  <2>2. Accounted => Accounted'
    BY <1>1, <1>2, <2>1 DEF Accounted, OnWire
  <2> QED
    BY <1>1, <1>2, <1>3, <2>1, <2>2 DEF EndInv
<1>5. CASE Teardown(e) /\ e = "out"
  <2>1. UNCHANGED <<closed, listener>>
    BY <1>5 DEF Teardown, CloseAll
  <2>2. \A c \in Links : conn'[c].bytes = conn[c].bytes /\ conn'[c].in = conn[c].in
    BY <1>5, DroppedOut DEF Teardown, CloseAll, CutOut
  <2>3. Accounted => Accounted'
    BY <1>1, <1>2, <2>2 DEF Accounted, OnWire
  <2> QED
    BY <1>1, <1>2, <1>3, <2>1, <2>3 DEF EndInv
<1>6. CASE Teardown(e) /\ e = "in"
  <2>1. closed'["in"] = TRUE /\ listener' = "closed"
    BY <1>6, StreamFacts DEF Teardown, CloseAll, ReaderInv
  <2> QED
    BY <1>1, <1>2, <1>3, <2>1 DEF EndInv
<1> QED
  BY <1>4, <1>5, <1>6 DEF Ends

\* A reset is a failure.
LEMMA EndReset ==
  ASSUME WireTyped, EndInv, NEW c \in Links, Reset(c)
  PROVE  EndInv'
<1>1. resets' # 0 /\ UNCHANGED <<options, result>>
  BY DEF Reset, WireTyped, inVars
<1> QED
  BY <1>1 DEF EndInv, Smooth
-----------------------------------------------------------------------------
(***************************************************************************)
(* Streams: the invariant as a whole.                                      *)
(***************************************************************************)
\* The inductive invariant of the stream transports
StreamSound ==
  /\ WireInv /\ SenderInv /\ ReaderInv /\ BacklogInv
  /\ FrameInv /\ BytesInv /\ HeadInv /\ TailInv /\ OrderInv /\ LastInv /\ EndInv
StreamInv ==
  /\ StreamTyped /\ SinkTyped /\ CallInv /\ BufferInv
  /\ spoiled = FALSE => StreamSound

\* The stream transports begin in their invariant.
LEMMA StreamInitially == ASSUME StreamInit PROVE StreamInv
<1>0. conn = [c \in Links |->
                 [bytes |-> <<>>, out |-> "none", in |-> "none", reset |-> FALSE, secured |-> FALSE]]
  BY DEF StreamInit, Links
<1>1. /\ \A c \in Links : /\ conn[c].bytes = <<>> /\ conn[c].out = "none" /\ conn[c].in = "none"
                          /\ conn[c].reset = FALSE /\ conn[c].secured = FALSE
      /\ DOMAIN frame = {} /\ DOMAIN received = {} /\ frame = <<>> /\ Len(frame) = 0
      /\ \A c \in Links : DOMAIN conn[c].bytes = {} /\ Len(conn[c].bytes) = 0
  <2>1. DOMAIN <<>> = {} /\ Len(<<>>) = 0
    OBVIOUS
  <2>2. frame = <<>> /\ received = <<>>
    BY DEF StreamInit
  <2>3. \A c \in Links : /\ conn[c].bytes = <<>> /\ conn[c].out = "none" /\ conn[c].in = "none"
                         /\ conn[c].reset = FALSE /\ conn[c].secured = FALSE
    BY <1>0
  <2> QED
    BY <2>1, <2>2, <2>3
<1>2. /\ outPc = "connect" /\ inPc = "idle" /\ conns = 0 /\ resets = 0 /\ listener = "open" /\ outFd = 0
      /\ attempt = 0
      /\ cursor = 0 /\ msg = 0 /\ sent = {} /\ inFd = 0 /\ result = "none" /\ failedBefore = FALSE
      /\ sock["out"] = 0 /\ sock["in"] = 0 /\ closed["out"] = FALSE /\ closed["in"] = FALSE
      /\ teardown["out"] = FALSE /\ teardown["in"] = FALSE /\ throws = 0 /\ spoiled = FALSE
  BY DEF StreamInit, Ends
<1>3. StreamTyped
  <2>1. conn \in [Links -> Connection]
    BY <1>0, EmptySeq DEF Connection
  <2>2. WireTyped
    BY <2>1, StreamConstants DEF StreamInit, WireTyped, Ends
  <2>3. SenderTyped
    BY StreamConstants DEF StreamInit, SenderTyped, SenderPcs
  <2>4. ReaderTyped
    <3>1. frame \in Seq(Cells) /\ received \in Seq(Nat)
      BY EmptySeq DEF StreamInit
    <3>2. deadline \in BOOLEAN /\ failedBefore \in BOOLEAN /\ inFd \in 0 .. MaxConns
      <4>1. deadline = FALSE
        BY DEF StreamInit
      <4>2. inFd \in 0 .. MaxConns
        BY <1>2, StreamConstants
      <4> QED
        BY <1>2, <4>1, <4>2
    <3> QED
      BY <1>2, <3>1, <3>2 DEF ReaderTyped, ReaderPcs, Results
  <2> QED
    BY <2>2, <2>3, <2>4 DEF StreamTyped
<1>4. WireInv /\ BacklogInv
  BY <1>1, <1>2 DEF WireInv, BacklogInv, Links
<1>5. SenderInv
  BY <1>1, <1>2 DEF SenderInv
<1>6. ReaderInv
  BY <1>1, <1>2 DEF ReaderInv
<1>7. FrameInv
  BY <1>1, <1>2 DEF FrameInv
<1>S. SinkTyped /\ CallInv
  BY <1>2 DEF SinkTyped, CallInv
<1>8. BytesInv /\ BufferInv
  BY <1>1, StreamConstants DEF BytesInv, Chained, Ahead, BufferInv
<1>9. HeadInv /\ TailInv
  BY <1>1 DEF HeadInv, TailInv, Live
<1>10. OrderInv
  BY <1>1 DEF OrderInv
<1>11. LastInv
  BY <1>1, <1>2 DEF LastInv, Links
<1>12. EndInv
  BY <1>1, <1>2 DEF EndInv, Accounted
<1> QED
  BY <1>S, <1>3, <1>4, <1>5, <1>6, <1>7, <1>8, <1>9, <1>10, <1>11, <1>12 DEF StreamInv, StreamSound

\* What a step does to the bytes of the connections: it adds a cell, takes one, or
\* throws some away.
LEMMA BytesEffect ==
  ASSUME StreamTyped, StreamNext PROVE Shrinks \/ Write \/ Read
<1>0. WireTyped /\ SenderTyped /\ ReaderTyped
  BY DEF StreamTyped
<1>K. UNCHANGED conn => Shrinks
  BY DEF Shrinks
<1>O. ASSUME NEW x, CutOut(x) PROVE Shrinks
  BY <1>O DEF CutOut, Shrinks
<1>I. ASSUME NEW S, CutIn(S) PROVE Shrinks
  BY <1>I DEF CutIn, Shrinks
<1>C. CloseConnection("in") \/ CloseAll("in") \/ Invalidate => Shrinks
  BY <1>0, <1>I, ClosedConnection, ClosedAll, InvalidateEffect
<1>F. AttemptFails => Shrinks
  BY <1>0, AttemptEffect DEF Shrinks
<1>1. CASE OutStep
  <2>1. CASE SendCall \/ Try \/ StoreOut \/ Load
    BY <1>K, <2>1 DEF SendCall, Try, StoreOut, Load
  <2>2. CASE Connect
    BY <1>0, <2>2, ConnectEffect DEF Shrinks
  <2>3. CASE ConnectFails \/ WriteFails \/ Caught
    BY <1>F, <1>K, <2>3 DEF ConnectFails, WriteFails, Caught
  <2>4. CASE Connected
    BY <1>0, <1>O, <2>4, ConnectedEffect
  <2>5. CASE OutSecured
    BY <1>0, <2>5, OutSecuredEffect DEF Shrinks
  <2>6. CASE OutNotSecured
    <3>1. CloseConnection("out") => Shrinks
      BY <1>0, <1>O, DroppedOut DEF CloseConnection
    <3> QED
      BY <1>F, <2>6, <3>1 DEF OutNotSecured
  <2> QED
    BY <1>1, <2>1, <2>2, <2>3, <2>4, <2>5, <2>6 DEF OutStep
<1>2. CASE InStep \/ ReceiveCall
  <2>1. CASE ReceiveCall \/ Loop \/ AcceptEnds \/ Store \/ InSecured \/ LoadHeader \/ LoadBody \/ ReadCancelled
    BY <1>K, <2>1 DEF ReceiveCall, Loop, AcceptEnds, Store, InSecured, LoadHeader, LoadBody, LoadIn,
       ReadCancelled, Kept
  <2>2. CASE Accept
    BY <1>0, <2>2, AcceptEffect DEF Shrinks
  <2>3. CASE Accepted
    BY <1>0, <1>I, <2>3, AcceptedEffect
  <2>4. CASE InNotSecured \/ ReadEof \/ ReadError \/ ReadDeadline
    BY <1>C, <1>K, <2>4 DEF InNotSecured, ReadEof, ReadError, ReadDeadline, CutOff, Kept
  <2> QED
    BY <1>2, <2>1, <2>2, <2>3, <2>4 DEF InStep
<1>3. ASSUME NEW e \in Ends, CloseCall(e) \/ Teardown(e) PROVE Shrinks
  <2>1. CASE CloseCall(e)
    BY <1>K, <2>1 DEF CloseCall, wireVars
  <2>2. CASE Teardown(e) /\ e = "out"
    BY <1>0, <1>O, <2>2, DroppedOut DEF Teardown, CloseAll
  <2>3. CASE Teardown(e) /\ e = "in"
    BY <1>C, <2>3 DEF Teardown
  <2> QED
    BY <1>3, <2>1, <2>2, <2>3 DEF Ends
<1>4. ASSUME NEW c \in Links, Reset(c) PROVE Shrinks
  BY <1>0, <1>4, ResetEffect DEF Shrinks
<1> QED
  BY <1>1, <1>2, <1>3, <1>4 DEF StreamNext, Links

\* A step does not overfill the buffers.
LEMMA BufferStep ==
  ASSUME WireTyped, SenderTyped, ReaderTyped, BufferInv, msg > 0 \/ ~Write,
         Shrinks \/ Write \/ Read
  PROVE  BufferInv'
<1> SUFFICES ASSUME NEW c \in Links PROVE Len(conn'[c].bytes) <= WireCells
  BY DEF BufferInv
<1>1. PICK b \in Seq(Cells) : b = conn[c].bytes
  BY StreamFacts
<1>2. Len(b) \in Nat /\ Len(b) <= WireCells /\ WireCells \in Nat /\ 0 <= WireCells
  BY <1>1, StreamConstants DEF BufferInv
<1>3. CASE conn'[c].bytes = <<>>
  BY <1>2, <1>3
<1>4. CASE conn'[c].bytes = b
  BY <1>2, <1>4
<1>5. CASE Write
  <2>1. PICK x \in Cells : x = <<msg, cursor + 1>>
    BY <1>5, WriteEffect
  <2>2. CASE conn'[c].bytes = Append(b, x) /\ c = outFd /\ conn[c].in # "closed"
    <3>1. Len(b) < WireCells
      BY <1>1, <1>5, <2>2 DEF Write
    <3>2. Len(Append(b, x)) = Len(b) + 1
      OBVIOUS
    <3> QED
      BY <1>2, <2>2, <3>1, <3>2
  <2> QED
    BY <1>1, <1>4, <1>5, <2>1, <2>2, WriteEffect
<1>6. CASE Read
  <2>1. CASE c = inFd
    <3>1. b # <<>> /\ conn'[c].bytes = Tail(b)
      BY <1>1, <1>6, <2>1, ReadEffect
    <3>2. Len(Tail(b)) = Len(b) - 1
      BY <3>1
    <3> QED
      BY <1>2, <3>1, <3>2
  <2> QED
    BY <1>1, <1>4, <1>6, <2>1, ReadEffect
<1> QED
  BY <1>1, <1>3, <1>4, <1>5, <1>6 DEF Shrinks

\* Whatever an observer throws, the types stay right and the buffers within bounds.
LEMMA TypedStep ==
  ASSUME StreamTyped, SinkTyped, CallInv, BufferInv, StreamNext
  PROVE  StreamTyped' /\ SinkTyped' /\ CallInv' /\ BufferInv'
<1>0. WireTyped /\ SenderTyped /\ ReaderTyped
  BY DEF StreamTyped
<1>1. outPc = "write" => msg > 0
  BY DEF CallInv
<1>2. msg > 0 \/ ~Write
  BY <1>1 DEF Write
<1>3. StreamTyped'
  BY <1>1, OutTyped, InTyped, CloseTyped, ResetTyped DEF StreamNext, Links
<1>4. BufferInv'
  BY <1>0, <1>2, BytesEffect, BufferStep
<1> QED
  BY <1>0, <1>3, <1>4, SinkStep, CallStep

\* A step that spoils nothing preserves what is true of a stream that nothing has
\* spoiled.
LEMMA SoundStep ==
  ASSUME StreamTyped, CallInv, StreamSound, StreamNext, spoiled' = FALSE
  PROVE  StreamSound'
<1>0. /\ WireTyped /\ SenderTyped /\ ReaderTyped /\ WireInv /\ SenderInv /\ ReaderInv
      /\ BacklogInv
      /\ FrameInv /\ BytesInv /\ HeadInv /\ TailInv /\ OrderInv /\ LastInv /\ EndInv
      /\ spoiled' = FALSE
  BY DEF StreamSound, StreamTyped
<1>W. outPc = "write" => msg > 0
  BY DEF CallInv
<1>V. msg > 0 \/ ~Write
  BY <1>W DEF Write
<1>1. CASE OutStep
  <2>1. Closing \/ Connect \/ OutSecured \/ Write
    BY <1>0, <1>1, OutEffect DEF Closing
  <2>2. SenderInv' /\ ReaderInv'
    BY <1>0, <1>1, <1>W, SenderOut, ReaderOut
  <2>3. WireInv' /\ BacklogInv' /\ BytesInv'
    BY <1>0, <1>V, <2>1, WireStep, BacklogStep, BytesStep
  <2>4. ReadKept
    BY <1>0, <1>1, OutKeeps
  <2>5. FrameInv'
    <3>1. frame' = frame /\ inPc' = inPc
      BY <1>0, <1>1, OutFrames
    <3> QED
      BY <1>0, <3>1 DEF FrameInv
  <2>6. HeadInv' /\ TailInv'
    <3>1. CASE Write
      BY <1>0, <2>3, <2>4, <3>1, HeadWrite, TailWrite
    <3>2. CASE ~Write
      <4>1. Shrinks
        BY <1>0, <2>1, <3>2, EffectShrinks
      <4>2. HeadInv'
        BY <1>0, <2>3, <2>4, <4>1, HeadShrink
      <4>3. TailInv'
        BY <1>0, <1>1, <2>4, <3>2, TailOut
      <4> QED
        BY <4>2, <4>3
    <3> QED
      BY <3>1, <3>2
  <2>7. OrderInv' /\ LastInv' /\ EndInv'
    BY <1>0, <1>1, OrderOut, LastOut, EndOut
  <2> QED
    BY <2>2, <2>3, <2>5, <2>6, <2>7 DEF StreamSound
<1>2. CASE InStep \/ ReceiveCall
  <2>1. ClosingIn \/ Accept \/ Read
    BY <1>0, <1>2, InEffect
  <2>2. SenderInv' /\ ReaderInv' /\ FrameInv'
    BY <1>0, <1>2, SenderIn, ReaderIn, FrameStep
  <2>3. WireInv' /\ BacklogInv' /\ BytesInv'
    BY <1>0, <1>V, <2>1, WireStep, BacklogStep, BytesStep DEF Closing
  <2>4. HeadInv' /\ TailInv' /\ OrderInv'
    <3>1. CASE Read
      BY <1>0, <3>1, HeadRead, TailRead, OrderRead
    <3>2. CASE ~Read
      <4>1. ReadKept /\ InUnchanged
        BY <1>0, <1>2, <3>2, InKeeps, InFrames
      <4>2. Shrinks
        BY <1>0, <2>1, <3>2, EffectShrinks DEF Closing
      <4>3. HeadInv'
        BY <1>0, <2>3, <4>1, <4>2, HeadShrink
      <4>4. TailInv'
        BY <1>0, <2>1, <3>2, <4>1, TailIn
      <4>5. OrderInv'
        BY <1>0, <1>2, <3>2, OrderIn
      <4> QED
        BY <4>3, <4>4, <4>5
    <3> QED
      BY <3>1, <3>2
  <2>5. LastInv' /\ EndInv'
    BY <1>0, <1>2, LastIn, EndIn
  <2> QED
    BY <2>2, <2>3, <2>4, <2>5 DEF StreamSound
<1>3. ASSUME NEW e \in Ends, CloseCall(e) \/ Teardown(e) PROVE StreamSound'
  <2>1. Closing
    BY <1>0, <1>3, CloseEffect
  <2>2. SenderInv' /\ ReaderInv'
    BY <1>0, <1>3, SenderClose, ReaderClose
  <2>3. WireInv' /\ BacklogInv' /\ BytesInv' /\ Shrinks
    BY <1>0, <1>V, <2>1, WireStep, BacklogStep, BytesStep, EffectShrinks
  <2>4. ReadKept
    BY <1>0, <1>3, CloseKeeps
  <2>5. FrameInv'
    BY <1>0, <1>3 DEF FrameInv, CloseCall, Teardown, inVars
  <2>6. HeadInv' /\ TailInv'
    BY <1>0, <1>3, <2>1, <2>3, <2>4, HeadShrink, TailClose
  <2>7. OrderInv' /\ LastInv' /\ EndInv'
    BY <1>0, <1>3, OrderClose, LastClose, EndClose
  <2> QED
    BY <2>2, <2>3, <2>5, <2>6, <2>7 DEF StreamSound
<1>4. ASSUME NEW c \in Links, Reset(c) PROVE StreamSound'
  <2>2. SenderInv' /\ ReaderInv'
    BY <1>0, <1>4, SenderReset, ReaderReset
  <2>3. WireInv' /\ BacklogInv' /\ BytesInv' /\ Shrinks
    BY <1>0, <1>V, <1>4, WireStep, BacklogStep, BytesStep, EffectShrinks
  <2>4. ReadKept
    BY <1>0, <1>4, CloseKeeps
  <2>5. FrameInv'
    BY <1>0, <1>4 DEF FrameInv, Reset, inVars
  <2>6. HeadInv' /\ TailInv'
    BY <1>0, <1>4, <2>3, <2>4, HeadShrink, TailReset
  <2>7. OrderInv' /\ LastInv' /\ EndInv'
    BY <1>0, <1>4, OrderClose, LastReset, EndReset
  <2> QED
    BY <2>2, <2>3, <2>5, <2>6, <2>7 DEF StreamSound
<1> QED
  BY <1>1, <1>2, <1>3, <1>4 DEF StreamNext, Links

\* A step of the stream transports preserves their invariant.
LEMMA StreamStep == ASSUME StreamInv, [StreamNext]_streamVars PROVE StreamInv'
<1>0. StreamTyped /\ SinkTyped /\ CallInv /\ BufferInv /\ (spoiled = FALSE => StreamSound)
  BY DEF StreamInv
<1>1. CASE StreamNext
  <2>1. StreamTyped' /\ SinkTyped' /\ CallInv' /\ BufferInv'
    BY <1>0, <1>1, TypedStep
  <2>2. ASSUME spoiled' = FALSE PROVE StreamSound'
    BY <1>0, <1>1, <2>2, SinkStep, SoundStep
  <2> QED
    BY <2>1, <2>2 DEF StreamInv
<1>3. CASE UNCHANGED streamVars
  <2>1. UNCHANGED <<options, conn, conns, resets, sock, closed, teardown, listener>>
        /\ UNCHANGED <<outPc, outFd, attempt, tries, cursor, msg, sent>>
        /\ UNCHANGED <<inPc, inFd, deadline, frame, received, result, failedBefore>>
        /\ UNCHANGED <<throws, spoiled>>
    BY <1>3 DEF streamVars, wireVars, endVars, outVars, inVars, sinkVars
  <2>2. StreamTyped' /\ SinkTyped' /\ CallInv' /\ BufferInv'
    BY <1>0, <2>1 DEF StreamTyped, WireTyped, SenderTyped, ReaderTyped, SinkTyped, CallInv, BufferInv
  <2> SUFFICES ASSUME StreamSound PROVE StreamSound'
    BY <1>0, <2>1, <2>2 DEF StreamInv
  <2>3. WireInv' /\ SenderInv' /\ ReaderInv' /\ BacklogInv' /\ FrameInv' /\ BytesInv'
    BY <2>1 DEF StreamSound, WireInv, SenderInv, ReaderInv, BacklogInv, FrameInv, BytesInv
  <2>4. HeadInv' /\ TailInv' /\ OrderInv'
    BY <2>1 DEF StreamSound, HeadInv, TailInv, OrderInv, Over, ReadSoFar, GaveUp, Live, Tails, Drained,
       InSend, Attempts
  <2>5. LastInv' /\ EndInv'
    BY <2>1 DEF StreamSound, LastInv, EndInv, Untroubled, Smooth, NoSendFailed, Accounted, Done, Arrived,
       OnWire
  <2> QED
    BY <2>2, <2>3, <2>4, <2>5 DEF StreamSound
<1> QED
  BY <1>1, <1>3

\* The invariant says that the types are right and that the stream is faithful.
LEMMA StreamImplies == ASSUME StreamInv PROVE StreamTypeOK /\ StreamIsFaithful
<1>T. WireTyped /\ SenderTyped /\ ReaderTyped /\ SinkTyped /\ BufferInv
  BY DEF StreamInv, StreamTyped
<1>1. StreamTypeOK
  <2>1. \A c \in Links :
          /\ conn[c].bytes \in Seq(Cells) /\ Len(conn[c].bytes) <= WireCells
          /\ conn[c].out \in {"none", "open", "closed"}
          /\ conn[c].in \in {"none", "backlog", "open", "closed"}
          /\ {conn[c].reset, conn[c].secured} \subseteq BOOLEAN
    BY <1>T, StreamFacts DEF BufferInv
  <2>2. cursor \in 0 .. FrameCells
    BY <1>T, StreamConstants DEF SenderTyped
  <2> QED
    BY <1>T, <2>1, <2>2 DEF StreamTypeOK, Links, WireTyped, SenderTyped, ReaderTyped, SenderPcs,
       ReaderPcs, Results, SinkTyped
<1> SUFFICES ASSUME ~spoiled PROVE DeliveredInOrder /\ EndOfStreamIsComplete /\ NoDescriptorLost
  BY <1>1 DEF StreamIsFaithful
<1>0. WireTyped /\ SenderTyped /\ ReaderTyped /\ SenderInv /\ ReaderInv /\ FrameInv /\ OrderInv /\ EndInv
  <2>1. spoiled = FALSE
    BY <1>T DEF SinkTyped
  <2> QED
    BY <1>T, <2>1 DEF StreamInv, StreamSound
<1>2. FrameAligned
  <2>1. ASSUME NEW i \in DOMAIN frame PROVE frame[i] = <<frame[1][1], i>>
    <3>1. frame[i] \in Cells
      BY <1>0, <2>1 DEF ReaderTyped
    <3> QED
      BY <1>0, <2>1, <3>1 DEF FrameInv, Cells
  <2> QED
    BY <2>1 DEF FrameAligned
<1>3. DeliveredInOrder
  BY <1>0, <1>2 DEF DeliveredInOrder, OrderInv
<1>4. EndOfStreamIsComplete
  <2>1. ASSUME result = "eos", resets = 0, NoSendFailed, ~failedBefore, NEW m \in sent
        PROVE  m \in {received[i] : i \in DOMAIN received}
    <3>1. failedBefore = FALSE
      BY <1>0, <2>1 DEF ReaderTyped
    <3>2. Done
      BY <1>0, <2>1, <3>1 DEF EndInv, Smooth, Untroubled
    <3> QED
      BY <2>1, <3>2 DEF Done, Arrived
  <2> QED
    BY <2>1 DEF EndOfStreamIsComplete
<1>5. NoDescriptorLost
  <2>1. ASSUME outPc \in {"idle", "dead"} PROVE \A c \in Links : conn[c].out = "open" => c = sock["out"]
    BY <1>0, <2>1 DEF SenderInv
  <2>2. ASSUME inPc = "idle" PROVE \A c \in Links : conn[c].in = "open" => c = sock["in"]
    BY <1>0, <2>2 DEF ReaderInv
  <2>3. ASSUME Tcp, outPc \in {"idle", "dead"}, closed["out"], ~teardown["out"] PROVE sock["out"] = 0
    <3>1. closed["out"] = TRUE /\ teardown["out"] = FALSE
      BY <1>0, <2>3, StreamFacts
    <3> QED
      BY <1>0, <2>3, <3>1 DEF SenderInv, Tcp
  <2>4. ASSUME Tcp, inPc = "idle", closed["in"], ~teardown["in"] PROVE sock["in"] = 0
    <3>1. closed["in"] = TRUE /\ teardown["in"] = FALSE
      BY <1>0, <2>4, StreamFacts
    <3> QED
      BY <1>0, <2>4, <3>1 DEF ReaderInv, Tcp
  <2> QED
    BY <2>1, <2>2, <2>3, <2>4 DEF NoDescriptorLost, Links
<1> QED
  BY <1>3, <1>4, <1>5
-----------------------------------------------------------------------------
(***************************************************************************)
(* Together.                                                               *)
(***************************************************************************)
EdgeInv == DatagramInv /\ ChannelInv /\ SegmentInv /\ RecordInv /\ StreamInv

\* A step of the edge is a step of each transport or leaves it alone.
LEMMA EdgeSteps ==
  ASSUME [EdgeNext]_edgeVars
  PROVE  /\ [DatagramNext]_datagramVars /\ [ChannelNext]_channelVars /\ [SegmentNext]_segmentVars
         /\ [RadioNext]_radioVars /\ [StreamNext]_streamVars
  BY DEF EdgeNext, edgeVars

\* The invariants of the transports hold throughout.
THEOREM EdgeInvariant == Spec => []EdgeInv
<1>1. EdgeInit => EdgeInv
  BY DatagramInitially, ChannelInitially, SegmentInitially, RadioInitially, StreamInitially
     DEF EdgeInit, EdgeInv
<1>2. EdgeInv /\ [EdgeNext]_edgeVars => EdgeInv'
  BY EdgeSteps, DatagramStep, ChannelStep, SegmentStep, RadioStep, StreamStep DEF EdgeInv
<1>3. QED
  BY <1>1, <1>2, PTL DEF Spec

\* close() of the datagram transport frees no descriptor that a receive is about to
\* use (udp_transport.cpp:219-248, 414-420).
THEOREM DescriptorsAreSafe == Spec => []DescriptorsOutliveOperations
<1>1. EdgeInv => DescriptorsOutliveOperations
  BY DatagramImplies DEF EdgeInv
<1>2. QED
  BY <1>1, EdgeInvariant, PTL

\* A TCP or Unix edge delivers whole frames in order and at most once, ends only
\* when all of them were delivered, and leaks no descriptor, for every size of a
\* frame and of the socket buffers, any number of frames, connections, resets and
\* observers that throw, and a close() of either end at any point.  An envelope
\* whose on_send threw is sent in a second frame, and nothing is said once an
\* observer that threw has kept the transport from closing what it should
\* (tcp_transport.cpp:438-487, 562-725, unix_domain_socket_transport.cpp:295-405).
THEOREM StreamsAreFaithful == Spec => []StreamIsFaithful
<1>1. EdgeInv => StreamIsFaithful
  BY StreamImplies DEF EdgeInv
<1>2. QED
  BY <1>1, EdgeInvariant, PTL

\* The kernel's buffers, the descriptors and the steps of both threads of a TCP or
\* Unix edge are of their types (tcp_transport.cpp:438-487, 562-725).
THEOREM StreamsAreTyped == Spec => []StreamTypeOK
<1>1. EdgeInv => StreamTypeOK
  BY StreamImplies DEF EdgeInv
<1>2. QED
  BY <1>1, EdgeInvariant, PTL

\* However datagrams are lost, doubled and reordered, the anomalies that were
\* counted explain what was delivered (udp_transport.cpp:195-217).
THEOREM AnomaliesAreCounted == Spec => []AnomaliesAddUp
<1>1. EdgeInv => AnomaliesAddUp
  BY DatagramImplies DEF EdgeInv
<1>2. QED
  BY <1>1, EdgeInvariant, PTL

\* A listener that is ready has the name of its segment, and who attaches finds it
\* initialised, for any number of listeners, connectors and processes that die
\* (shared_memory_transport.cpp:91-113, 227-266, 281-288, 306-329).
THEOREM NamesAreKept == Spec => []NameIsKept
<1>1. EdgeInv => NameIsKept
  BY SegmentImplies DEF EdgeInv
<1>2. QED
  BY <1>1, EdgeInvariant, PTL

\* A connection of the radio carries whole control records in their order, but for
\* the last, whatever expires, fails or is cancelled (host.cpp:129-180, 196-201).
THEOREM RecordsStayWhole == Spec => []RecordsAreWhole
<1>1. EdgeInv => RecordsAreWhole
  BY RadioImplies DEF EdgeInv
<1>2. QED
  BY <1>1, EdgeInvariant, PTL

\* The in-process channel implements FifoChannel for any number of producers and
\* consumers: what was accepted is delivered once and in order, within the
\* capacity, and the end of the stream comes after all of it
\* (in_process_transport.cpp:15-59).
THEOREM ChannelImplements == Spec => ChannelIsFifo
<1>1. EdgeInit => Fifo!Init
  BY ChannelInitially DEF EdgeInit
<1>2. EdgeInv /\ [EdgeNext]_edgeVars => [Fifo!Next]_Fifo!channel
  BY EdgeSteps, ChannelStep DEF EdgeInv
<1>3. QED
  BY <1>1, <1>2, EdgeInvariant, PTL DEF Spec, ChannelIsFifo, Fifo!Spec
=============================================================================
