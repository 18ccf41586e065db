------------------------- MODULE RunningNodes_proofs -------------------------
(***************************************************************************)
(* Proofs about RunningNodes, for every set of nodes, clocks, requests,    *)
(* streams and packets and all limits: the control plane counts and        *)
(* reports its commands truly, the assembler's spectra lie on their        *)
(* timeline, and no radio is started with settings that are not the        *)
(* authored ones.  The three parts share no state: each has an inductive   *)
(* invariant of its own, and the last section puts them together.          *)
(***************************************************************************)
EXTENDS RunningNodes, FiniteSetTheorems, SequenceTheorems, WellFoundedInduction, TLAPS

(***************************************************************************)
(* The control plane.                                                      *)
(***************************************************************************)
IssuedIds == {c \in CommandIds : issued[c] # None}
\* Identifiers are given out in order of time.
IssuedInv ==
  /\ \A c, d \in CommandIds : c <= d /\ issued[d] # None => issued[c] # None /\ issued[c].at <= issued[d].at
  /\ \A c \in IssuedIds : issued[c].at <= now /\ issued[c].run <= collectorRun
  /\ stats.issued <= Cardinality(IssuedIds)
\* A restart is a fault.
RunInv == collectorRun <= faults + 1 /\ \A n \in Nodes : nodeRun[n] <= faults + 1
\* A command is held from when it was issued until the retention is over.
HeldInv ==
  /\ \A c \in Held(commands) :
       issued[c] # None /\ issued[c].run = collectorRun /\ issued[c].at = commands[c].issuedAt
  /\ \A c \in IssuedIds :
       issued[c].run = collectorRun /\ commands[c] = None => now - issued[c].at > Retention
\* An idempotency entry is of an issued command of the same run.
KeysInv ==
  \A k \in idempotency :
    /\ issued[k.command] # None
    /\ issued[k.command].run = collectorRun
    /\ issued[k.command].actor = k.actor /\ issued[k.command].key = k.key /\ k.key # NoKey
    /\ issued[k.command].fingerprint = k.fingerprint
    /\ issued[k.command].at + IdempotencyTtl = k.expiresAt
\* A key is only forgotten when the retention of its command is over.
ForgottenInv == \A e \in forgotten : issued[e] # None /\ now - issued[e].at > Retention
\* Until its key has expired a command has an entry, its own or that of a later
\* command, unless the entry was forgotten.
LatestInv ==
  \A c \in IssuedIds :
    issued[c].key # NoKey /\ issued[c].run = collectorRun =>
      \/ now - issued[c].at >= IdempotencyTtl
      \/ \E k \in idempotency : k.actor = issued[c].actor /\ k.key = issued[c].key /\ c <= k.command
      \/ \E e \in forgotten : c <= e /\ OneKey(c, e)
\* An answer says what its node did, and a command counts the answers.
AckInv ==
  /\ \A m \in net : m.kind = "control_ack" /\ m.accepted => <<m.command, m.node>> \in applied
  /\ \A c \in Held(commands) :
       /\ commands[c].status \in {"pending", "accepted"} => \A n \in commands[c].acks : <<c, n>> \in applied
       /\ commands[c].status = "accepted" => commands[c].targets \subseteq commands[c].acks
\* What is on its way to the collector is fresh, and what was let in is remembered.
SeenInv ==
  /\ \A m \in net : m.kind # "control" => now <= m.sentAt + Skew
  /\ handled \subseteq net
  /\ \A m \in handled : /\ m.kind # "control"
                        /\ \E e \in replay : e.nonce = m /\ e.seen <= now /\ Abs(e.seen - m.sentAt) <= Skew
ControlInv ==
  /\ TypeOK /\ OutcomesBalance /\ RunInv /\ IssuedInv /\ HeldInv /\ KeysInv
  /\ ForgottenInv /\ LatestInv /\ RetriesDoNotRepeat /\ AckInv /\ SeenInv

\* What is assumed of the constants of the control plane.
LEMMA ControlConstants ==
  /\ CommandTimeout \in Nat \ {0} /\ Retention \in Nat \ {0} /\ IdempotencyTtl \in Nat \ {0} /\ Skew \in Nat \ {0}
  /\ CommandTimeout < Retention /\ MaxTime \in Nat /\ MaxIssued \in Nat /\ MaxTraces \in Nat /\ MaxFaults \in Nat
  /\ \A n \in Nodes : Offset[n] \in Int /\ -Skew <= Offset[n] /\ Offset[n] <= Skew
  /\ None \notin Commands /\ None \notin IssuedCommands /\ None \notin Endpoints
  /\ \A r \in Requests : /\ r.actor \in Principals /\ r.action \in Actions /\ r.key \in Keys
                         /\ r.targets \subseteq Nodes /\ (r.targets = {} <=> r.action = "reset")
<1>1. \A r \in Requests : r.key \in Keys
  BY DEF Keys
<1>2. QED
  BY <1>1, CommandAssumption, BoundAssumption, NodeAssumption, RequestAssumption, AbsentAssumption

\* There are finitely many identifiers.
LEMMA CommandIdsFinite == IsFiniteSet(CommandIds) /\ CommandIds \subseteq Nat \ {0}
  BY ControlConstants, FS_Interval DEF CommandIds

\* The least element of a set of naturals.
LEMMA LeastElement ==
  ASSUME NEW T \in SUBSET Nat, T # {}
  PROVE  \E x \in T : \A y \in T : x <= y
<1> DEFINE R == {ss \in Nat \X Nat : ss[1] < ss[2]}
<1>1. IsWellFoundedOn(R, Nat)
  BY NatLessThanWellFounded DEF OpToRel
<1> HIDE DEF R
<1>2. PICK x \in T : \A y \in T : ~ (<<y, x>> \in R)
  BY <1>1, WFMin
<1>3. \A y \in T : x \in Nat /\ y \in Nat /\ ~(y < x)
  BY <1>2 DEF R
<1>4. QED
  BY <1>2, <1>3

\* A set of identifiers without a gap is counted by its last one.
LEMMA GapFreeCount ==
  ASSUME NEW N \in Nat, NEW S \in SUBSET (1 .. N), \A c, d \in 1 .. N : c <= d /\ d \in S => c \in S
  PROVE  Cardinality(S) \in Nat /\ S = 1 .. Cardinality(S)
<1>1. PICK m \in 0 .. N : S = 1 .. m
  <2>1. CASE S = 1 .. N
    <3>1. N \in 0 .. N
      OBVIOUS
    <3>2. QED
      BY <2>1, <3>1
  <2>2. CASE S # 1 .. N
    <3> DEFINE T == (1 .. N) \ S
    <3>1. T \in SUBSET Nat /\ T # {}
      <4>1. \A c \in 1 .. N : c \in Nat
        OBVIOUS
      <4>2. QED
        BY <2>2, <4>1, Zenon
    <3> HIDE DEF T
    <3>2. PICK x \in T : \A y \in T : x <= y
      BY <3>1, LeastElement
    <3>3. x \in 1 .. N /\ x \notin S
      BY <3>2 DEF T
    <3>4. \A c \in 1 .. N : c \in S <=> c < x
      BY <3>2, <3>3 DEF T
    <3>5. S = 1 .. x - 1
      <4>1. \A c : c \in 1 .. x - 1 <=> c \in 1 .. N /\ c < x
        BY <3>3
      <4>2. \A c : c \in S => c \in 1 .. N
        BY Zenon
      <4>3. QED
        BY <3>4, <4>1, <4>2, Zenon
    <3>6. QED
      BY <3>3, <3>5
  <2>3. QED
    BY <2>1, <2>2
<1>2. Cardinality(S) = m
  BY <1>1, FS_Interval
<1>3. QED
  BY <1>1, <1>2

\* The next identifier is new, and follows all others.
LEMMA NextIdIsNew ==
  ASSUME TypeOK, IssuedInv
  PROVE  /\ Cardinality(IssuedIds) \in Nat /\ IssuedIds = 1 .. Cardinality(IssuedIds)
         /\ NextId = Cardinality(IssuedIds) + 1 /\ NextId \in Nat \ {0}
         /\ NextId \notin IssuedIds /\ (\A c \in IssuedIds : c < NextId)
<1>1. MaxIssued \in Nat /\ IssuedIds \in SUBSET (1 .. MaxIssued)
  BY ControlConstants DEF IssuedIds, CommandIds
<1>2. \A c, d \in 1 .. MaxIssued : c <= d /\ d \in IssuedIds => c \in IssuedIds
  BY DEF IssuedIds, IssuedInv, CommandIds
<1>3. Cardinality(IssuedIds) \in Nat /\ IssuedIds = 1 .. Cardinality(IssuedIds)
  BY <1>1, <1>2, GapFreeCount
<1>4. NextId = Cardinality(IssuedIds) + 1
  BY DEF NextId, IssuedIds
<1> DEFINE k == Cardinality(IssuedIds)
<1>5. k \in Nat /\ NextId = k + 1 /\ IssuedIds = 1 .. k
  BY <1>3, <1>4
<1> HIDE DEF k
<1>6. NextId \in Nat \ {0} /\ NextId \notin IssuedIds /\ (\A c \in IssuedIds : c < NextId)
  BY <1>5
<1>7. QED
  BY <1>3, <1>4, <1>6

\* What #maintain leaves.
LEMMA MaintainLeaves ==
  ASSUME TypeOK, NEW c \in CommandIds
  PROVE  LET cs == Maintain(commands, now)
         IN /\ cs \in [CommandIds -> Commands \cup {None}]
            /\ cs[c] # None =>
                 /\ commands[c] # None /\ commands[c] \in Commands /\ cs[c] \in Commands
                 /\ cs[c].action = commands[c].action /\ cs[c].targets = commands[c].targets
                 /\ cs[c].issuedAt = commands[c].issuedAt /\ cs[c].acks = commands[c].acks
                 /\ cs[c].status = IF c \in Expired(commands, now) THEN "timed-out" ELSE commands[c].status
            /\ cs[c] = None /\ commands[c] # None => now - commands[c].issuedAt > Retention
<1> DEFINE cs == Maintain(commands, now)
<1>1. commands \in [CommandIds -> Commands \cup {None}] /\ now \in Nat /\ Retention \in Nat
  BY ControlConstants DEF TypeOK
<1>2. ASSUME NEW d \in CommandIds, commands[d] # None
      PROVE  /\ commands[d] \in Commands /\ commands[d].issuedAt \in Nat
             /\ [commands[d] EXCEPT !.status = "timed-out"] \in Commands
             /\ LET x == [commands[d] EXCEPT !.status = "timed-out"]
                IN x.action = commands[d].action /\ x.targets = commands[d].targets /\ x.status = "timed-out"
                   /\ x.issuedAt = commands[d].issuedAt /\ x.acks = commands[d].acks
  <2>1. commands[d] \in Commands
    BY <1>1, <1>2
  <2>2. QED
    BY <2>1 DEF Commands, Statuses
<1>3. \A d \in CommandIds : cs[d] = IF commands[d] = None \/ commands[d].issuedAt < now - Retention THEN None
                                   ELSE IF d \in Expired(commands, now) THEN [commands[d] EXCEPT !.status = "timed-out"]
                                   ELSE commands[d]
  BY DEF Maintain
<1>4. cs \in [CommandIds -> Commands \cup {None}]
  <2>1. \A d \in CommandIds : cs[d] \in Commands \cup {None}
    BY <1>2, <1>3
  <2>2. QED
    BY <2>1 DEF Maintain
<1> HIDE DEF cs
<1>5. cs[c] # None =>
                 /\ commands[c] # None /\ commands[c] \in Commands /\ cs[c] \in Commands
                 /\ cs[c].action = commands[c].action /\ cs[c].targets = commands[c].targets
                 /\ cs[c].issuedAt = commands[c].issuedAt /\ cs[c].acks = commands[c].acks
                 /\ cs[c].status = IF c \in Expired(commands, now) THEN "timed-out" ELSE commands[c].status
  BY <1>2, <1>3
<1>6. cs[c] = None /\ commands[c] # None => now - commands[c].issuedAt > Retention
  <2> SUFFICES ASSUME cs[c] = None, commands[c] # None PROVE now - commands[c].issuedAt > Retention
    OBVIOUS
  <2>1. commands[c] \in Commands /\ commands[c].issuedAt \in Nat
        /\ [commands[c] EXCEPT !.status = "timed-out"] \in Commands
    BY <1>2
  <2>2. commands[c].issuedAt < now - Retention
    BY <1>3, <2>1, ControlConstants
  <2>3. QED
    BY <1>1, <2>1, <2>2
<1>7. QED
  BY <1>4, <1>5, <1>6 DEF cs

\* A command that is old enough to be dropped was expired before.
LEMMA MaintainPending ==
  ASSUME TypeOK
  PROVE  /\ Pending(Maintain(commands, now)) = Pending(commands) \ Expired(commands, now)
         /\ Expired(commands, now) \subseteq Pending(commands)
         /\ Pending(commands) \subseteq CommandIds /\ IsFiniteSet(Pending(commands))
<1> DEFINE cs == Maintain(commands, now)
<1>1. Pending(commands) \subseteq CommandIds /\ Expired(commands, now) \subseteq Pending(commands)
  BY DEF Pending, Held, Expired
<1>2. IsFiniteSet(Pending(commands))
  BY <1>1, CommandIdsFinite, FS_Subset
<1>3. now \in Nat /\ CommandTimeout \in Nat /\ Retention \in Nat /\ CommandTimeout < Retention
  BY ControlConstants DEF TypeOK
<1>4. \A c \in CommandIds : c \in Pending(cs) <=> c \in Pending(commands) /\ c \notin Expired(commands, now)
  <2> TAKE c \in CommandIds
  <2>1. cs[c] # None =>
                 /\ commands[c] # None
                 /\ cs[c].status = IF c \in Expired(commands, now) THEN "timed-out" ELSE commands[c].status
    BY MaintainLeaves
  <2>2. cs[c] = None /\ commands[c] # None => now - commands[c].issuedAt > Retention
    BY MaintainLeaves
  <2>3. c \in Pending(commands) /\ cs[c] = None => c \in Expired(commands, now)
    <3> SUFFICES ASSUME c \in Pending(commands), cs[c] = None PROVE c \in Expired(commands, now)
      OBVIOUS
    <3>1. commands[c] # None /\ commands[c] \in Commands
      BY DEF Pending, Held, TypeOK
    <3>2. commands[c].issuedAt \in Nat
      BY <3>1 DEF Commands
    <3>3. now >= commands[c].issuedAt + CommandTimeout
      BY <1>3, <2>2, <3>1, <3>2
    <3>4. QED
      BY <3>3 DEF Expired
  <2> HIDE DEF cs
  <2>4. c \in Pending(cs) <=> cs[c] # None /\ cs[c].status = "pending"
    BY DEF Pending, Held
  <2>5. c \in Pending(commands) <=> commands[c] # None /\ commands[c].status = "pending"
    BY DEF Pending, Held
  <2>6. QED
    BY <2>1, <2>3, <2>4, <2>5
<1>5. Pending(cs) \subseteq CommandIds
  BY DEF Pending, Held
<1>6. QED
  BY <1>1, <1>2, <1>4, <1>5

(* What a step does to the commands. *)
Kept ==
  UNCHANGED <<commands, stats, idempotency, issued, forgotten, collectorRun>> /\ now' \in {now, now + 1}
Forgets(r) ==
  /\ NothingToReplay(r)
  /\ idempotency' = MaintainKeys(now) \ Previous(r)
  /\ forgotten' = forgotten \cup {k.command : k \in Previous(r)}
Maintained ==
  /\ commands' = Maintain(commands, now) /\ stats' = MaintainStats(commands, now)
  /\ UNCHANGED <<issued, collectorRun, now>>
  /\ (idempotency' = MaintainKeys(now) /\ UNCHANGED forgotten) \/ (\E r \in Requests : Forgets(r))
Issues(r) == NothingToReplay(r) /\ NewCommand(r) /\ UNCHANGED <<collectorRun, now, applied>>
Decides(m) ==
  LET cs == Maintain(commands, now)
      done == Acknowledged(m, cs)
  IN /\ m.kind = "control_ack" /\ Acknowledges(m, cs)
     /\ commands' = [cs EXCEPT ![m.command] = done]
     /\ stats' = [MaintainStats(commands, now) EXCEPT
                  !.accepted = IF done.status = "accepted" THEN @ + 1 ELSE @,
                  !.rejected = IF done.status = "rejected" THEN @ + 1 ELSE @]
     /\ idempotency' = MaintainKeys(now)
     /\ UNCHANGED <<issued, forgotten, collectorRun, now, applied, net>>
Restarts ==
  /\ commands' = [c \in CommandIds |-> None] /\ idempotency' = {} /\ stats' = NoStats
  /\ collectorRun' = collectorRun + 1 /\ UNCHANGED <<issued, forgotten, now>>

\* A step keeps the books, maintains them, issues a command, counts an answer or
\* forgets everything.
LEMMA CommandCases ==
  ASSUME [Next]_vars
  PROVE  \/ Kept
         \/ Maintained
         \/ \E r \in Requests : Issues(r)
         \/ \E m \in net : Decides(m)
         \/ Restarts
<1>1. CASE Tick
  BY <1>1 DEF Tick, Kept, nodes
<1>2. CASE RewriteCredentials
  BY <1>2 DEF RewriteCredentials, Kept, collector, history
<1>3. CASE RefreshCredentials
  BY <1>3 DEF RefreshCredentials, Kept, history
<1>4. CASE ReadCommands
  BY <1>4 DEF ReadCommands, Maintained, history
<1>5. ASSUME NEW r \in Requests, IssueControl(r)
      PROVE  Issues(r) \/ Maintained
  <2>1. UNCHANGED <<collectorRun, now, applied>>
    BY <1>5 DEF IssueControl
  <2>2. CASE Replayed(r)
    BY <2>1, <2>2 DEF Replayed, Maintained
  <2>3. CASE NothingToReplay(r) /\ NewCommand(r)
    BY <2>1, <2>3 DEF Issues
  <2>4. CASE NothingToReplay(r) /\ Refused(r)
    BY <2>1, <2>4 DEF Refused, Forgets, Maintained
  <2>5. QED
    BY <1>5, <2>2, <2>3, <2>4 DEF IssueControl
<1>6. ASSUME NEW m \in net, HandleDatagram(m)
      PROVE  Kept \/ Maintained \/ Decides(m)
  <2>1. UNCHANGED <<now, net, collectorRun, issued, forgotten, applied>>
    BY <1>6 DEF HandleDatagram
  <2>2. CASE UNCHANGED <<commands, idempotency, stats, paused>>
    BY <2>1, <2>2 DEF Kept
  <2>3. CASE HandleTrace(m)
    BY <2>1, <2>3 DEF HandleTrace, Maintained
  <2>4. CASE HandleStray(m)
    BY <2>1, <2>4 DEF HandleStray, Kept
  <2>5. CASE m.kind = "control_ack" /\ HandleAck(m)
    BY <2>1, <2>5 DEF HandleAck, Maintained, Decides
  <2>6. QED
    BY <1>6, <2>2, <2>3, <2>4, <2>5 DEF HandleDatagram
<1>7. CASE CollectorRestart
  BY <1>7 DEF CollectorRestart, Restarts
<1>8. ASSUME NEW n \in Nodes, SendTrace(n) \/ NodeRestart(n)
      PROVE  Kept
  BY <1>8 DEF SendTrace, NodeRestart, Kept, collector, history
<1>9. ASSUME NEW n \in Nodes, NEW m \in net, ReceiveCommand(n, m) \/ RefuseCommand(n, m)
      PROVE  Kept
  BY <1>9 DEF ReceiveCommand, RefuseCommand, Kept, collector, history
<1>10. CASE UNCHANGED vars
  BY <1>10 DEF vars, Kept, collector, history
<1>11. QED
  BY <1>1, <1>2, <1>3, <1>4, <1>5, <1>6, <1>7, <1>8, <1>9, <1>10 DEF Next

\* The typed facts of a step that issues a command.
LEMMA IssueFacts ==
  ASSUME TypeOK, IssuedInv, HeldInv, NEW r \in Requests, Issues(r)
  PROVE  LET new == [actor |-> r.actor, key |-> r.key, fingerprint |-> Fingerprint(r), at |-> now, run |-> collectorRun]
             stored == [action |-> r.action, targets |-> r.targets, issuedAt |-> now, acks |-> {},
                      status |-> IF r.action = "reset" THEN "accepted" ELSE "pending"]
         IN /\ NextId \in CommandIds /\ commands[NextId] = None /\ Maintain(commands, now)[NextId] = None
            /\ new \in IssuedCommands /\ new # None /\ stored \in Commands /\ stored # None
            /\ issued' = [issued EXCEPT ![NextId] = new]
            /\ issued'[NextId] = new /\ (\A c \in CommandIds : c # NextId => issued'[c] = issued[c])
            /\ commands' = [Maintain(commands, now) EXCEPT ![NextId] = stored]
            /\ commands'[NextId] = stored
            /\ (\A c \in CommandIds : c # NextId => commands'[c] = Maintain(commands, now)[c])
            /\ IssuedIds' = IssuedIds \cup {NextId} /\ NextId \notin IssuedIds
<1> DEFINE new == [actor |-> r.actor, key |-> r.key, fingerprint |-> Fingerprint(r), at |-> now, run |-> collectorRun]
           stored == [action |-> r.action, targets |-> r.targets, issuedAt |-> now, acks |-> {},
                    status |-> IF r.action = "reset" THEN "accepted" ELSE "pending"]
           cs == Maintain(commands, now)
<1>1. NextId \in CommandIds /\ issued' = [issued EXCEPT ![NextId] = new] /\ commands' = [cs EXCEPT ![NextId] = stored]
  BY DEF Issues, NewCommand
<1>2. /\ r.actor \in Principals /\ r.action \in Actions /\ r.key \in Keys /\ r.targets \subseteq Nodes
      /\ now \in 0 .. MaxTime /\ collectorRun \in Runs
  BY ControlConstants DEF TypeOK
<1>3. Fingerprint(r) \in Fingerprints
  BY <1>2 DEF Fingerprint, Fingerprints
<1>4. new \in IssuedCommands /\ new # None
  BY <1>2, <1>3, ControlConstants DEF IssuedCommands
<1>5. stored \in Commands /\ stored # None
  BY <1>2, ControlConstants DEF Commands, Statuses
<1>6. NextId \notin IssuedIds
  BY NextIdIsNew
<1>7. commands[NextId] = None
  BY <1>1, <1>6 DEF HeldInv, Held, IssuedIds
<1>8. cs \in [CommandIds -> Commands \cup {None}] /\ cs[NextId] = None
  BY <1>1, <1>7, MaintainLeaves
<1>9. issued \in [CommandIds -> IssuedCommands \cup {None}]
  BY DEF TypeOK
<1> HIDE DEF new, stored, cs
<1>10. issued'[NextId] = new /\ (\A c \in CommandIds : c # NextId => issued'[c] = issued[c])
  BY <1>1, <1>9
<1>11. commands'[NextId] = stored /\ (\A c \in CommandIds : c # NextId => commands'[c] = cs[c])
  BY <1>1, <1>8
<1>12. IssuedIds' = IssuedIds \cup {NextId}
  BY <1>1, <1>4, <1>10 DEF IssuedIds
<1>13. QED
  BY <1>1, <1>4, <1>5, <1>6, <1>7, <1>8, <1>10, <1>11, <1>12 DEF new, stored, cs

\* The typed facts of a step that counts an answer.
LEMMA DecideFacts ==
  ASSUME TypeOK, NEW m \in net, Decides(m)
  PROVE  LET cs == Maintain(commands, now)
             done == Acknowledged(m, cs)
         IN /\ m.command \in CommandIds /\ m.node \in Nodes /\ m.accepted \in BOOLEAN
            /\ cs[m.command] # None /\ cs[m.command] \in Commands /\ cs[m.command].status = "pending"
            /\ m.node \in cs[m.command].targets /\ m.node \notin cs[m.command].acks
            /\ done \in Commands /\ done # None
            /\ done.targets = cs[m.command].targets /\ done.acks = cs[m.command].acks \cup {m.node}
            /\ done.issuedAt = cs[m.command].issuedAt
            /\ done.status = IF ~m.accepted THEN "rejected" ELSE IF done.acks = done.targets THEN "accepted" ELSE "pending"
            /\ commands'[m.command] = done /\ (\A c \in CommandIds : c # m.command => commands'[c] = cs[c])
            /\ commands' \in [CommandIds -> Commands \cup {None}]
<1> DEFINE cs == Maintain(commands, now)
           done == Acknowledged(m, cs)
           old == cs[m.command]
<1>1. m.kind = "control_ack" /\ Acknowledges(m, cs) /\ commands' = [cs EXCEPT ![m.command] = done] /\ m \in Datagrams
  BY DEF Decides, TypeOK
<1>2. m.command \in CommandIds /\ m.node \in Nodes /\ m.accepted \in BOOLEAN
  BY <1>1 DEF Datagrams
<1>3. cs \in [CommandIds -> Commands \cup {None}]
  BY <1>2, MaintainLeaves
<1>4. old # None /\ old.status = "pending" /\ m.node \in old.targets /\ m.node \notin old.acks
  BY <1>1 DEF Acknowledges
<1>5. old \in Commands
  BY <1>2, <1>3, <1>4
<1>6. done = [old EXCEPT !.acks = old.acks \cup {m.node},
                         !.status = IF ~m.accepted THEN "rejected"
                                    ELSE IF old.acks \cup {m.node} = old.targets THEN "accepted" ELSE old.status]
  BY DEF Acknowledged
<1> HIDE DEF cs, done, old
<1>7. /\ done \in Commands /\ done.targets = old.targets /\ done.acks = old.acks \cup {m.node}
      /\ done.issuedAt = old.issuedAt
      /\ done.status = IF ~m.accepted THEN "rejected" ELSE IF done.acks = done.targets THEN "accepted" ELSE "pending"
  <2>1. old.acks \cup {m.node} \subseteq Nodes
    BY <1>2, <1>5 DEF Commands
  <2>2. QED
    BY <1>4, <1>5, <1>6, <2>1 DEF Commands, Statuses
<1>8. done # None
  BY <1>7, ControlConstants
<1>9. commands'[m.command] = done /\ (\A c \in CommandIds : c # m.command => commands'[c] = cs[c])
      /\ commands' \in [CommandIds -> Commands \cup {None}]
  BY <1>1, <1>2, <1>3, <1>7
<1>10. QED
  BY <1>2, <1>4, <1>5, <1>7, <1>8, <1>9 DEF cs, done, old

StatsRecord == [issued : Nat, accepted : Nat, rejected : Nat, timedOut : Nat]
\* The counters after #maintain.
LEMMA MaintainBalance ==
  ASSUME TypeOK, OutcomesBalance
  PROVE  LET s == MaintainStats(commands, now)
             P == Pending(Maintain(commands, now))
         IN /\ s \in StatsRecord /\ stats \in StatsRecord /\ s.issued = stats.issued
            /\ IsFiniteSet(P) /\ P \subseteq CommandIds /\ Cardinality(P) \in Nat
            /\ s.issued = s.accepted + s.rejected + s.timedOut + Cardinality(P)
<1> DEFINE E == Expired(commands, now)  Q == Pending(commands)  P == Pending(Maintain(commands, now))
           s == MaintainStats(commands, now)
<1>1. P = Q \ E /\ E \subseteq Q /\ Q \subseteq CommandIds /\ IsFiniteSet(Q)
  BY MaintainPending
<1>2. stats \in StatsRecord
  BY DEF TypeOK, Counter, StatsRecord
<1>3. s = [stats EXCEPT !.timedOut = stats.timedOut + Cardinality(E)]
  BY DEF MaintainStats
<1>4. stats.issued = stats.accepted + stats.rejected + stats.timedOut + Cardinality(Q)
  BY DEF OutcomesBalance
<1> HIDE DEF E, Q, P, s
<1>5. IsFiniteSet(E) /\ IsFiniteSet(P) /\ Q \cap E = E
  BY <1>1, FS_Subset
<1>6. Cardinality(P) = Cardinality(Q) - Cardinality(E)
  BY <1>1, <1>5, FS_Difference
<1>7. Cardinality(P) \in Nat /\ Cardinality(Q) \in Nat /\ Cardinality(E) \in Nat
  BY <1>1, <1>5, FS_CardinalityType
<1>8. /\ s \in StatsRecord /\ s.issued = stats.issued /\ s.accepted = stats.accepted /\ s.rejected = stats.rejected
      /\ s.timedOut = stats.timedOut + Cardinality(E)
  BY <1>2, <1>3, <1>7 DEF StatsRecord
<1>9. s.issued = s.accepted + s.rejected + s.timedOut + Cardinality(P)
  <2> DEFINE a == stats.accepted  b == stats.rejected  t == stats.timedOut  q == Cardinality(Q)  e == Cardinality(E)
  <2>1. a \in Nat /\ b \in Nat /\ t \in Nat /\ q \in Nat /\ e \in Nat /\ Cardinality(P) = q - e
    BY <1>2, <1>6, <1>7 DEF StatsRecord
  <2>2. stats.issued = a + b + t + q
    BY <1>4
  <2> HIDE DEF a, b, t, q, e
  <2>3. a + b + t + q = a + b + (t + e) + (q - e)
    BY <2>1
  <2>4. QED
    BY <1>8, <2>1, <2>2, <2>3 DEF a, b, t, e
<1>10. QED
  BY <1>1, <1>2, <1>5, <1>7, <1>8, <1>9 DEF P, s

\* OutcomesBalance is kept.
LEMMA BalanceStep ==
  ASSUME ControlInv, [Next]_vars
  PROVE  OutcomesBalance' /\ stats' \in StatsRecord /\ stats'.issued <= Cardinality(IssuedIds')
<1>0. TypeOK /\ OutcomesBalance /\ IssuedInv /\ HeldInv
  BY DEF ControlInv
<1> DEFINE s == MaintainStats(commands, now)  cs == Maintain(commands, now)  P == Pending(Maintain(commands, now))
<1>a. /\ s \in StatsRecord /\ stats \in StatsRecord /\ s.issued = stats.issued
      /\ IsFiniteSet(P) /\ P \subseteq CommandIds /\ Cardinality(P) \in Nat
      /\ s.issued = s.accepted + s.rejected + s.timedOut + Cardinality(P)
  BY <1>0, MaintainBalance
<1>b. stats.issued <= Cardinality(IssuedIds) /\ Cardinality(IssuedIds) \in Nat
  BY <1>0, NextIdIsNew DEF IssuedInv
<1>1. CASE Kept
  BY <1>0, <1>a, <1>b, <1>1 DEF Kept, OutcomesBalance, Pending, Held, IssuedIds
<1>2. CASE Maintained
  <2>1. stats' = s /\ Pending(commands') = P /\ IssuedIds' = IssuedIds
    BY <1>2 DEF Maintained, IssuedIds
  <2>2. QED
    BY <1>a, <1>b, <2>1 DEF OutcomesBalance
<1>3. ASSUME NEW r \in Requests, Issues(r)
      PROVE  OutcomesBalance' /\ stats' \in StatsRecord /\ stats'.issued <= Cardinality(IssuedIds')
  <2> DEFINE stored == [action |-> r.action, targets |-> r.targets, issuedAt |-> now, acks |-> {},
                      status |-> IF r.action = "reset" THEN "accepted" ELSE "pending"]
  <2>1. /\ NextId \in CommandIds /\ cs[NextId] = None /\ stored # None /\ commands'[NextId] = stored
        /\ (\A c \in CommandIds : c # NextId => commands'[c] = cs[c])
        /\ IssuedIds' = IssuedIds \cup {NextId} /\ NextId \notin IssuedIds
    BY <1>0, <1>3, IssueFacts
  <2>2. stats' = [s EXCEPT !.issued = s.issued + 1, !.accepted = IF r.action = "reset" THEN s.accepted + 1 ELSE s.accepted]
    BY <1>3 DEF Issues, NewCommand
  <2>3. stored.status = IF r.action = "reset" THEN "accepted" ELSE "pending"
    OBVIOUS
  <2>4. Cardinality(IssuedIds') = Cardinality(IssuedIds) + 1
    <3>1. IsFiniteSet(IssuedIds)
      BY CommandIdsFinite, FS_Subset DEF IssuedIds
    <3>2. QED
      BY <2>1, <3>1, FS_AddElement
  <2> HIDE DEF s, cs, stored, P
  <2>5. NextId \notin P /\ \A c \in CommandIds : c # NextId => (c \in Pending(commands') <=> c \in P)
    BY <2>1 DEF P, cs, Pending, Held
  <2>6. NextId \in Pending(commands') <=> r.action # "reset"
    BY <2>1, <2>3 DEF Pending, Held
  <2>7. Pending(commands') \subseteq CommandIds
    BY DEF Pending, Held
  <2>8. /\ stats' \in StatsRecord /\ stats'.issued = s.issued + 1 /\ stats'.rejected = s.rejected
        /\ stats'.timedOut = s.timedOut /\ stats'.accepted = IF r.action = "reset" THEN s.accepted + 1 ELSE s.accepted
    <3> DEFINE a == IF r.action = "reset" THEN s.accepted + 1 ELSE s.accepted
               i == s.issued + 1
    <3>1. s \in StatsRecord /\ a \in Nat /\ i \in Nat
      BY <1>a DEF StatsRecord
    <3>2. stats' = [s EXCEPT !.issued = i, !.accepted = a]
      BY <2>2
    <3> HIDE DEF a, i
    <3>3. /\ stats' \in StatsRecord /\ stats'.issued = i /\ stats'.rejected = s.rejected
          /\ stats'.timedOut = s.timedOut /\ stats'.accepted = a
      BY <3>1, <3>2 DEF StatsRecord
    <3>4. QED
      BY <3>3 DEF a, i
  <2>9. s.issued \in Nat /\ s.accepted \in Nat /\ s.rejected \in Nat /\ s.timedOut \in Nat
    BY <1>a DEF StatsRecord
  <2>10. OutcomesBalance'
    <3>1. CASE r.action = "reset"
      <4>1. Pending(commands') = P
        BY <1>a, <2>1, <2>5, <2>6, <2>7, <3>1
      <4>2. QED
        BY <1>a, <2>8, <2>9, <3>1, <4>1 DEF OutcomesBalance
    <3>2. CASE r.action # "reset"
      <4>1. Pending(commands') = P \cup {NextId}
        BY <1>a, <2>1, <2>5, <2>6, <2>7, <3>2
      <4>2. Cardinality(Pending(commands')) = Cardinality(P) + 1
        BY <1>a, <2>5, <4>1, FS_AddElement
      <4>3. QED
        BY <1>a, <2>8, <2>9, <3>2, <4>2 DEF OutcomesBalance
    <3>3. QED
      BY <3>1, <3>2
  <2>11. stats'.issued <= Cardinality(IssuedIds')
    BY <1>a, <1>b, <2>4, <2>8, <2>9
  <2>12. QED
    BY <2>8, <2>10, <2>11
<1>4. ASSUME NEW m \in net, Decides(m)
      PROVE  OutcomesBalance' /\ stats' \in StatsRecord /\ stats'.issued <= Cardinality(IssuedIds')
  <2> DEFINE done == Acknowledged(m, cs)
  <2>1. /\ m.command \in CommandIds /\ m.accepted \in BOOLEAN /\ cs[m.command] # None /\ cs[m.command].status = "pending"
        /\ done # None /\ commands'[m.command] = done /\ (\A c \in CommandIds : c # m.command => commands'[c] = cs[c])
        /\ done.status = IF ~m.accepted THEN "rejected" ELSE IF done.acks = done.targets THEN "accepted" ELSE "pending"
    BY <1>0, <1>4, DecideFacts
  <2>2. /\ stats' = [s EXCEPT !.accepted = IF done.status = "accepted" THEN s.accepted + 1 ELSE s.accepted,
                              !.rejected = IF done.status = "rejected" THEN s.rejected + 1 ELSE s.rejected]
        /\ UNCHANGED issued
    BY <1>4 DEF Decides
  <2> HIDE DEF s, cs, done, P
  <2>3. m.command \in P /\ \A c \in CommandIds : c # m.command => (c \in Pending(commands') <=> c \in P)
    BY <2>1 DEF P, cs, Pending, Held
  <2>4. m.command \in Pending(commands') <=> done.status = "pending"
    BY <2>1 DEF Pending, Held
  <2>5. Pending(commands') \subseteq CommandIds
    BY DEF Pending, Held
  <2>6. /\ stats' \in StatsRecord /\ stats'.issued = s.issued /\ stats'.timedOut = s.timedOut
        /\ stats'.accepted = IF done.status = "accepted" THEN s.accepted + 1 ELSE s.accepted
        /\ stats'.rejected = IF done.status = "rejected" THEN s.rejected + 1 ELSE s.rejected
    <3> DEFINE a == IF done.status = "accepted" THEN s.accepted + 1 ELSE s.accepted
               b == IF done.status = "rejected" THEN s.rejected + 1 ELSE s.rejected
    <3>1. s \in StatsRecord /\ a \in Nat /\ b \in Nat
      BY <1>a DEF StatsRecord
    <3>2. stats' = [s EXCEPT !.accepted = a, !.rejected = b]
      BY <2>2
    <3> HIDE DEF a, b
    <3>3. /\ stats' \in StatsRecord /\ stats'.issued = s.issued /\ stats'.timedOut = s.timedOut
          /\ stats'.accepted = a /\ stats'.rejected = b
      BY <3>1, <3>2 DEF StatsRecord
    <3>4. QED
      BY <3>3 DEF a, b
  <2>7. s.issued \in Nat /\ s.accepted \in Nat /\ s.rejected \in Nat /\ s.timedOut \in Nat
    BY <1>a DEF StatsRecord
  <2>8. OutcomesBalance'
    <3>1. CASE done.status = "pending"
      <4>1. Pending(commands') = P
        BY <1>a, <2>1, <2>3, <2>4, <2>5, <3>1
      <4>2. QED
        BY <1>a, <2>6, <2>7, <3>1, <4>1 DEF OutcomesBalance
    <3>2. CASE done.status \in {"accepted", "rejected"}
      <4>1. Pending(commands') = P \ {m.command}
        BY <1>a, <2>1, <2>3, <2>4, <2>5, <3>2
      <4>2. Cardinality(Pending(commands')) = Cardinality(P) - 1
        BY <1>a, <2>3, <4>1, FS_RemoveElement
      <4>3. stats'.accepted + stats'.rejected = s.accepted + s.rejected + 1
        BY <2>6, <2>7, <3>2
      <4>4. stats'.accepted \in Nat /\ stats'.rejected \in Nat
        BY <2>6 DEF StatsRecord
      <4>5. QED
        BY <1>a, <2>6, <2>7, <4>2, <4>3, <4>4 DEF OutcomesBalance
    <3>3. QED
      BY <2>1, <3>1, <3>2
  <2>9. stats'.issued <= Cardinality(IssuedIds')
    BY <1>a, <1>b, <2>2, <2>6 DEF IssuedIds
  <2>10. QED
    BY <2>6, <2>8, <2>9
<1>5. CASE Restarts
  <2>1. Pending(commands') = {}
    BY <1>5 DEF Restarts, Pending, Held
  <2>2. stats' = NoStats /\ IssuedIds' = IssuedIds
    BY <1>5 DEF Restarts, IssuedIds
  <2>3. Cardinality(Pending(commands')) = 0
    BY <2>1, FS_EmptySet
  <2>4. QED
    BY <1>b, <2>2, <2>3 DEF NoStats, StatsRecord, OutcomesBalance
<1>6. QED
  BY <1>1, <1>2, <1>3, <1>4, <1>5, CommandCases

\* The types of what the books hold.
LEMMA IssuedTyped ==
  ASSUME TypeOK
  PROVE  /\ now \in Nat /\ collectorRun \in Nat
         /\ \A c \in IssuedIds : /\ issued[c] # None /\ c \in CommandIds /\ c \in Nat /\ issued[c] \in IssuedCommands
                                 /\ issued[c].at \in Nat /\ issued[c].run \in Nat
         /\ \A c \in Held(commands) : commands[c] \in Commands /\ commands[c].issuedAt \in Nat
         /\ \A k \in idempotency : k.command \in CommandIds /\ k.expiresAt \in Nat
<1>1. now \in Nat /\ collectorRun \in Nat /\ issued \in [CommandIds -> IssuedCommands \cup {None}]
      /\ commands \in [CommandIds -> Commands \cup {None}] /\ idempotency \subseteq IdempotencyEntries
  BY ControlConstants DEF TypeOK, Runs
<1>2. \A c \in IssuedIds : issued[c] # None /\ c \in CommandIds /\ c \in Nat /\ issued[c] \in IssuedCommands
  BY <1>1, CommandIdsFinite DEF IssuedIds
<1>3. \A c \in IssuedIds : issued[c].at \in Nat /\ issued[c].run \in Nat
  BY <1>2, ControlConstants DEF IssuedCommands, Runs
<1>4. \A c \in Held(commands) : commands[c] \in Commands /\ commands[c].issuedAt \in Nat
  BY <1>1 DEF Held, Commands
<1>5. \A k \in idempotency : k.command \in CommandIds /\ k.expiresAt \in Nat
  BY <1>1 DEF IdempotencyEntries
<1>6. QED
  BY <1>1, <1>2, <1>3, <1>4, <1>5

\* What a step that issues nothing leaves of the history.
LEMMA NothingIssued ==
  ASSUME Kept \/ Maintained \/ Restarts \/ (\E m \in net : Decides(m)), TypeOK
  PROVE  /\ UNCHANGED issued /\ now' \in Nat /\ now' >= now /\ IssuedIds' = IssuedIds
         /\ collectorRun' >= collectorRun /\ (UNCHANGED collectorRun \/ collectorRun' = collectorRun + 1)
         /\ (~Kept => UNCHANGED now) /\ (~Restarts => UNCHANGED collectorRun)
         /\ forgotten \subseteq forgotten'
<1>1. now \in Nat /\ collectorRun \in Nat
  BY IssuedTyped
<1>2. UNCHANGED issued /\ now' \in {now, now + 1} /\ (~Kept => UNCHANGED now)
  BY DEF Kept, Maintained, Restarts, Decides
<1>3. IssuedIds' = IssuedIds
  BY <1>2 DEF IssuedIds
<1>4. /\ (~Restarts => UNCHANGED collectorRun) /\ (UNCHANGED collectorRun \/ collectorRun' = collectorRun + 1)
      /\ forgotten \subseteq forgotten'
  BY DEF Kept, Maintained, Forgets, Restarts, Decides
<1>5. now' \in Nat /\ now' >= now /\ collectorRun' >= collectorRun
  BY <1>1, <1>2, <1>4
<1>6. QED
  BY <1>2, <1>3, <1>4, <1>5

\* Identifiers stay in order of time (control.mjs, issue).
LEMMA IssuedStep ==
  ASSUME ControlInv, [Next]_vars
  PROVE  IssuedInv'
<1>0. TypeOK /\ IssuedInv /\ HeldInv
  BY DEF ControlInv
<1>1. stats'.issued <= Cardinality(IssuedIds')
  BY BalanceStep
<1>2. CASE Kept \/ Maintained \/ Restarts \/ (\E m \in net : Decides(m))
  <2>1. /\ UNCHANGED issued /\ now' \in Nat /\ now' >= now /\ IssuedIds' = IssuedIds
        /\ (UNCHANGED collectorRun \/ collectorRun' = collectorRun + 1)
    BY <1>0, <1>2, NothingIssued
  <2>2. \A c \in IssuedIds : /\ issued[c].at \in Nat /\ issued[c].at <= now
                             /\ issued[c].run \in Nat /\ issued[c].run <= collectorRun
    BY <1>0, IssuedTyped DEF IssuedInv
  <2>3. \A c \in IssuedIds : issued[c].at <= now' /\ issued[c].run <= collectorRun'
    BY <1>0, <2>1, <2>2, IssuedTyped
  <2>4. QED
    BY <1>0, <1>1, <2>1, <2>3 DEF IssuedInv
<1>3. ASSUME NEW r \in Requests, Issues(r)
      PROVE  IssuedInv'
  <2> DEFINE new == [actor |-> r.actor, key |-> r.key, fingerprint |-> Fingerprint(r), at |-> now, run |-> collectorRun]
  <2>1. /\ NextId \in CommandIds /\ new # None /\ issued'[NextId] = new
        /\ (\A c \in CommandIds : c # NextId => issued'[c] = issued[c])
        /\ IssuedIds' = IssuedIds \cup {NextId}
    BY <1>0, <1>3, IssueFacts
  <2>2. now' = now /\ collectorRun' = collectorRun
    BY <1>3 DEF Issues
  <2>3. new.at = now /\ new.run = collectorRun
    OBVIOUS
  <2> HIDE DEF new
  <2>4. IssuedIds = 1 .. NextId - 1 /\ NextId \in Nat
    <3>1. Cardinality(IssuedIds) \in Nat /\ IssuedIds = 1 .. Cardinality(IssuedIds) /\ NextId = Cardinality(IssuedIds) + 1
      BY <1>0, NextIdIsNew
    <3>2. Cardinality(IssuedIds) = NextId - 1
      BY <3>1
    <3>3. QED
      BY <3>1, <3>2
  <2>5. ASSUME NEW c \in CommandIds, NEW d \in CommandIds, c <= d, issued'[d] # None
        PROVE  issued'[c] # None /\ issued'[c].at <= issued'[d].at
    <3>1. c \in Nat /\ d \in Nat
      BY CommandIdsFinite
    <3>2. CASE d = NextId
      <4>1. CASE c = NextId
        BY <1>0, <2>1, <2>3, <3>2, <4>1, IssuedTyped
      <4>2. CASE c # NextId
        <5>1. c \in IssuedIds
          BY <2>4, <2>5, <3>1, <3>2, <4>2, CommandIdsFinite
        <5>2. issued[c].at <= now /\ issued[c] # None
          BY <1>0, <5>1 DEF IssuedInv, IssuedIds
        <5>3. QED
          BY <2>1, <2>3, <3>2, <4>2, <5>2
      <4>3. QED
        BY <4>1, <4>2
    <3>3. CASE d # NextId
      <4>1. issued'[d] = issued[d] /\ d \in IssuedIds
        BY <2>1, <2>5, <3>3 DEF IssuedIds
      <4>2. c # NextId
        BY <2>4, <2>5, <3>1, <4>1
      <4>3. issued[c] # None /\ issued[c].at <= issued[d].at
        BY <1>0, <2>5, <4>1 DEF IssuedInv, IssuedIds
      <4>4. QED
        BY <2>1, <4>1, <4>2, <4>3
    <3>4. QED
      BY <3>2, <3>3
  <2>6. ASSUME NEW c \in IssuedIds' PROVE issued'[c].at <= now' /\ issued'[c].run <= collectorRun'
    <3>1. CASE c = NextId
      BY <1>0, <2>1, <2>2, <2>3, <3>1, IssuedTyped
    <3>2. CASE c # NextId
      <4>1. c \in IssuedIds /\ c \in CommandIds
        BY <2>1, <3>2 DEF IssuedIds
      <4>2. QED
        BY <1>0, <2>1, <2>2, <3>2, <4>1 DEF IssuedInv
    <3>3. QED
      BY <3>1, <3>2
  <2>7. QED
    BY <1>1, <2>5, <2>6 DEF IssuedInv
<1>4. QED
  BY <1>2, <1>3, CommandCases

\* A command that is not held any more is older than the retention.
LEMMA GoneIsOld ==
  ASSUME TypeOK, HeldInv, NEW c \in IssuedIds, issued[c].run = collectorRun, Maintain(commands, now)[c] = None
  PROVE  now - issued[c].at > Retention
<1>1. c \in CommandIds
  BY DEF IssuedIds
<1>2. CASE commands[c] = None
  BY <1>2 DEF HeldInv
<1>3. CASE commands[c] # None
  <2>1. now - commands[c].issuedAt > Retention
    BY <1>1, <1>3, MaintainLeaves
  <2>2. issued[c].at = commands[c].issuedAt
    BY <1>1, <1>3 DEF HeldInv, Held
  <2>3. QED
    BY <2>1, <2>2
<1>4. QED
  BY <1>2, <1>3

\* A command is dropped only after the retention (control.mjs, #maintain).
LEMMA HeldStep ==
  ASSUME ControlInv, [Next]_vars
  PROVE  HeldInv'
<1>0. TypeOK /\ IssuedInv /\ HeldInv
  BY DEF ControlInv
<1> DEFINE cs == Maintain(commands, now)
<1>a. Retention \in Nat
  BY ControlConstants
<1>b. \A c \in Held(commands) : issued[c] # None /\ issued[c].run = collectorRun /\ issued[c].at = commands[c].issuedAt
  BY <1>0 DEF HeldInv
<1>c. \A c \in IssuedIds : issued[c].run = collectorRun /\ commands[c] = None => now - issued[c].at > Retention
  BY <1>0 DEF HeldInv
<1>d. \A c \in CommandIds :
        cs[c] # None => issued[c] # None /\ issued[c].run = collectorRun /\ issued[c].at = cs[c].issuedAt
  <2> TAKE c \in CommandIds
  <2> HAVE cs[c] # None
  <2>1. commands[c] # None /\ cs[c].issuedAt = commands[c].issuedAt
    BY <1>0, MaintainLeaves
  <2>2. QED
    BY <1>b, <2>1 DEF Held
<1>e. \A c \in IssuedIds : issued[c].run = collectorRun /\ cs[c] = None => now - issued[c].at > Retention
  BY <1>0, GoneIsOld
<1> HIDE DEF cs
<1>1. CASE Kept
  <2>1. UNCHANGED <<commands, issued, collectorRun>> /\ now' >= now /\ now' \in Nat
    BY <1>0, <1>1, NothingIssued DEF Kept
  <2>2. IssuedIds' = IssuedIds /\ Held(commands)' = Held(commands)
    BY <2>1 DEF IssuedIds, Held
  <2>3. \A c \in IssuedIds : now - issued[c].at > Retention => now' - issued[c].at > Retention
    <3> TAKE c \in IssuedIds
    <3>1. now \in Nat /\ issued[c].at \in Nat
      BY <1>0, IssuedTyped
    <3>2. QED
      BY <1>a, <2>1, <3>1
  <2>4. QED
    BY <1>b, <1>c, <2>1, <2>2, <2>3 DEF HeldInv
<1>2. CASE Maintained
  <2>1. commands' = cs /\ UNCHANGED <<issued, collectorRun, now>>
    BY <1>2 DEF Maintained, cs
  <2>2. QED
    BY <1>d, <1>e, <2>1 DEF HeldInv, Held, IssuedIds
<1>3. ASSUME NEW r \in Requests, Issues(r)
      PROVE  HeldInv'
  <2> DEFINE new == [actor |-> r.actor, key |-> r.key, fingerprint |-> Fingerprint(r), at |-> now, run |-> collectorRun]
             stored == [action |-> r.action, targets |-> r.targets, issuedAt |-> now, acks |-> {},
                      status |-> IF r.action = "reset" THEN "accepted" ELSE "pending"]
  <2>1. /\ NextId \in CommandIds /\ new # None /\ stored # None /\ issued'[NextId] = new /\ commands'[NextId] = stored
        /\ (\A c \in CommandIds : c # NextId => issued'[c] = issued[c] /\ commands'[c] = cs[c])
    BY <1>0, <1>3, IssueFacts DEF cs
  <2>2. UNCHANGED <<now, collectorRun>>
    BY <1>3 DEF Issues
  <2>3. new.at = now /\ new.run = collectorRun /\ stored.issuedAt = now
    OBVIOUS
  <2> HIDE DEF new, stored
  <2>4. QED
    BY <1>d, <1>e, <2>1, <2>2, <2>3 DEF HeldInv, Held, IssuedIds
<1>4. ASSUME NEW m \in net, Decides(m)
      PROVE  HeldInv'
  <2> DEFINE done == Acknowledged(m, cs)
  <2>1. /\ m.command \in CommandIds /\ cs[m.command] # None
        /\ done # None /\ commands'[m.command] = done /\ (\A c \in CommandIds : c # m.command => commands'[c] = cs[c])
        /\ done.issuedAt = cs[m.command].issuedAt
    BY <1>0, <1>4, DecideFacts DEF cs
  <2>2. UNCHANGED <<now, collectorRun, issued>>
    BY <1>4 DEF Decides
  <2> HIDE DEF done
  <2>3. QED
    BY <1>d, <1>e, <2>1, <2>2 DEF HeldInv, Held, IssuedIds
<1>5. CASE Restarts
  <2>1. Held(commands') = {}
    BY <1>5 DEF Restarts, Held
  <2>2. \A c \in IssuedIds' : issued'[c].run # collectorRun'
    <3> TAKE c \in IssuedIds'
    <3>1. UNCHANGED issued /\ collectorRun' = collectorRun + 1 /\ c \in IssuedIds
      BY <1>5 DEF Restarts, IssuedIds
    <3>2. issued[c].run \in Nat /\ collectorRun \in Nat /\ issued[c].run <= collectorRun
      BY <1>0, <3>1, IssuedTyped DEF IssuedInv
    <3>3. QED
      BY <3>1, <3>2
  <2>3. QED
    BY <2>1, <2>2 DEF HeldInv
<1>6. QED
  BY <1>1, <1>2, <1>3, <1>4, <1>5, CommandCases

SameKey(c, k) == k.actor = issued[c].actor /\ k.key = issued[c].key
\* The idempotency table stays true (control.mjs, issue).
LEMMA KeysStep ==
  ASSUME ControlInv, [Next]_vars
  PROVE  KeysInv'
<1>0. TypeOK /\ IssuedInv /\ HeldInv /\ KeysInv
  BY DEF ControlInv
<1>1. CASE Kept
  BY <1>0, <1>1 DEF Kept, KeysInv
<1>2. CASE Maintained \/ Restarts \/ (\E m \in net : Decides(m))
  <2>1. UNCHANGED issued /\ idempotency' \subseteq idempotency /\ (Restarts => idempotency' = {})
    BY <1>2 DEF Maintained, Forgets, Restarts, Decides, MaintainKeys
  <2>2. ~Restarts => UNCHANGED collectorRun
    BY <1>2 DEF Maintained, Decides
  <2>3. QED
    BY <1>0, <2>1, <2>2 DEF KeysInv
<1>3. ASSUME NEW r \in Requests, Issues(r)
      PROVE  KeysInv'
  <2> DEFINE new == [actor |-> r.actor, key |-> r.key, fingerprint |-> Fingerprint(r), at |-> now, run |-> collectorRun]
             entry == [actor |-> r.actor, key |-> r.key, command |-> NextId,
                       fingerprint |-> Fingerprint(r), expiresAt |-> now + IdempotencyTtl]
  <2>1. /\ NextId \in CommandIds /\ new # None /\ issued'[NextId] = new
        /\ (\A c \in CommandIds : c # NextId => issued'[c] = issued[c]) /\ NextId \notin IssuedIds
    BY <1>0, <1>3, IssueFacts
  <2>2. UNCHANGED <<now, collectorRun>>
    BY <1>3 DEF Issues
  <2>3. ASSUME NEW k \in idempotency' PROVE k \in idempotency \/ (k = entry /\ r.key # NoKey)
    BY <1>3 DEF Issues, NewCommand, MaintainKeys
  <2>4. /\ new.actor = r.actor /\ new.key = r.key /\ new.fingerprint = Fingerprint(r) /\ new.at = now
        /\ new.run = collectorRun
        /\ entry.actor = r.actor /\ entry.key = r.key /\ entry.command = NextId
        /\ entry.fingerprint = Fingerprint(r) /\ entry.expiresAt = now + IdempotencyTtl
    OBVIOUS
  <2> HIDE DEF new, entry
  <2>5. \A k \in idempotency : k.command \in CommandIds /\ k.command # NextId
    BY <1>0, <2>1, IssuedTyped DEF KeysInv, IssuedIds
  <2>6. QED
    BY <1>0, <2>1, <2>2, <2>3, <2>4, <2>5 DEF KeysInv
<1>4. QED
  BY <1>1, <1>2, <1>3, CommandCases

\* A refused retry forgets the key of a command that is gone (control.mjs, issue).
LEMMA ForgottenStep ==
  ASSUME ControlInv, [Next]_vars
  PROVE  ForgottenInv'
<1>0. TypeOK /\ IssuedInv /\ HeldInv /\ KeysInv /\ ForgottenInv
  BY DEF ControlInv
<1>a. now \in Nat /\ Retention \in Nat /\ \A e \in forgotten : e \in IssuedIds /\ issued[e].at \in Nat
  <2>1. \A e \in forgotten : e \in IssuedIds
    BY <1>0 DEF TypeOK, ForgottenInv, IssuedIds
  <2>2. QED
    BY <1>0, <2>1, IssuedTyped, ControlConstants
<1>1. ASSUME UNCHANGED <<issued, forgotten>>, now' \in {now, now + 1}
      PROVE  ForgottenInv'
  BY <1>0, <1>a, <1>1 DEF ForgottenInv
<1>2. CASE Kept \/ Restarts \/ (\E m \in net : Decides(m))
  BY <1>1, <1>2 DEF Kept, Restarts, Decides
<1>3. CASE Maintained
  <2>1. UNCHANGED <<issued, now>>
    BY <1>3 DEF Maintained
  <2>2. ASSUME NEW r \in Requests, Forgets(r)
        PROVE  ForgottenInv'
    <3>1. ASSUME NEW k \in Previous(r) PROVE issued[k.command] # None /\ now - issued[k.command].at > Retention
      <4>1. k \in idempotency /\ Maintain(commands, now)[k.command] = None
        BY <2>2 DEF Forgets, NothingToReplay, Previous, MaintainKeys
      <4>2. k.command \in IssuedIds /\ issued[k.command].run = collectorRun
        BY <1>0, <4>1, IssuedTyped DEF KeysInv, IssuedIds
      <4>3. QED
        BY <1>0, <4>1, <4>2, GoneIsOld DEF IssuedIds
    <3>2. QED
      BY <1>0, <2>1, <2>2, <3>1 DEF ForgottenInv, Forgets
  <2>3. QED
    BY <1>1, <1>3, <2>1, <2>2 DEF Maintained
<1>4. ASSUME NEW r \in Requests, Issues(r)
      PROVE  ForgottenInv'
  <2>1. UNCHANGED <<now, forgotten>>
    BY <1>4 DEF Issues, NewCommand
  <2>2. \A e \in forgotten : issued'[e] = issued[e]
    BY <1>0, <1>4, <1>a, IssueFacts DEF IssuedIds
  <2>3. QED
    BY <1>0, <2>1, <2>2 DEF ForgottenInv
<1>5. QED
  BY <1>2, <1>3, <1>4, CommandCases

\* A key is only forgotten before it expires by a refused retry (control.mjs, issue
\* and #maintain).
LEMMA LatestStep ==
  ASSUME ControlInv, [Next]_vars
  PROVE  LatestInv'
<1>0. TypeOK /\ IssuedInv /\ HeldInv /\ KeysInv /\ ForgottenInv /\ LatestInv
  BY DEF ControlInv
<1>a. IdempotencyTtl \in Nat /\ now \in Nat
  BY <1>0, ControlConstants, IssuedTyped
<1>b. ASSUME NEW c \in IssuedIds, issued[c].key # NoKey, issued[c].run = collectorRun
      PROVE  \/ now - issued[c].at >= IdempotencyTtl
             \/ \E k \in MaintainKeys(now) : SameKey(c, k) /\ c <= k.command
             \/ \E e \in forgotten : c <= e /\ OneKey(c, e)
  <2>1. CASE now - issued[c].at >= IdempotencyTtl \/ (\E e \in forgotten : c <= e /\ OneKey(c, e))
    BY <2>1
  <2>2. CASE ~(now - issued[c].at >= IdempotencyTtl) /\ ~(\E e \in forgotten : c <= e /\ OneKey(c, e))
    <3>1. PICK k \in idempotency : SameKey(c, k) /\ c <= k.command
      BY <1>0, <1>b, <2>2 DEF LatestInv, SameKey
    <3>2. k.command \in CommandIds /\ issued[k.command] # None /\ issued[k.command].at + IdempotencyTtl = k.expiresAt
      BY <1>0, IssuedTyped DEF KeysInv
    <3>3. k.command \in IssuedIds
      BY <3>2 DEF IssuedIds
    <3>4. issued[c].at <= issued[k.command].at
      BY <1>0, <3>1, <3>2 DEF IssuedInv, IssuedIds
    <3>5. issued[c].at \in Nat /\ issued[k.command].at \in Nat /\ k.expiresAt \in Nat
      BY <1>0, <3>3, IssuedTyped
    <3>6. now < k.expiresAt
      BY <1>a, <2>2, <3>2, <3>4, <3>5
    <3>7. QED
      BY <3>1, <3>6 DEF MaintainKeys
  <2>3. QED
    BY <2>1, <2>2
<1>1. CASE Kept
  <2>1. UNCHANGED <<idempotency, issued, forgotten, collectorRun>> /\ now' >= now /\ now' \in Nat /\ IssuedIds' = IssuedIds
    BY <1>0, <1>1, NothingIssued DEF Kept
  <2>2. \A c \in IssuedIds : now - issued[c].at >= IdempotencyTtl => now' - issued[c].at >= IdempotencyTtl
    <3> TAKE c \in IssuedIds
    <3>1. issued[c].at \in Nat
      BY <1>0, IssuedTyped
    <3>2. QED
      BY <1>a, <2>1, <3>1
  <2>3. QED
    BY <1>0, <2>1, <2>2 DEF LatestInv, OneKey
<1>2. CASE Maintained \/ (\E m \in net : Decides(m))
  <2>1. UNCHANGED <<issued, collectorRun, now>>
    BY <1>2 DEF Maintained, Decides
  <2>2. IssuedIds' = IssuedIds /\ \A c, d \in CommandIds : OneKey(c, d)' <=> OneKey(c, d)
    BY <2>1 DEF IssuedIds, OneKey
  <2>3. CASE idempotency' = MaintainKeys(now) /\ UNCHANGED forgotten
    BY <1>b, <2>1, <2>3 DEF LatestInv, SameKey, IssuedIds, OneKey
  <2>4. ASSUME NEW r \in Requests, Forgets(r)
        PROVE  LatestInv'
    <3>1. forgotten' = forgotten \cup {k.command : k \in Previous(r)} /\ idempotency' = MaintainKeys(now) \ Previous(r)
      BY <2>4 DEF Forgets
    <3>2. SUFFICES ASSUME NEW c \in IssuedIds, issued[c].key # NoKey, issued[c].run = collectorRun
                   PROVE  \/ now - issued[c].at >= IdempotencyTtl
                          \/ \E k \in idempotency' : SameKey(c, k) /\ c <= k.command
                          \/ \E e \in forgotten' : c <= e /\ OneKey(c, e)
      BY <2>1, <2>2 DEF LatestInv, SameKey, OneKey
    <3>3. ASSUME NEW k \in Previous(r), SameKey(c, k), c <= k.command
          PROVE  \E e \in forgotten' : c <= e /\ OneKey(c, e)
      <4>1. issued[k.command].run = collectorRun /\ issued[k.command].actor = k.actor /\ issued[k.command].key = k.key
        BY <1>0 DEF KeysInv, Previous, MaintainKeys
      <4>2. OneKey(c, k.command)
        BY <3>2, <3>3, <4>1 DEF OneKey, SameKey
      <4>3. QED
        BY <3>1, <3>3, <4>2
    <3>4. QED
      BY <1>b, <3>1, <3>2, <3>3
  <2>5. QED
    BY <1>2, <2>3, <2>4 DEF Maintained, Decides
<1>3. CASE Restarts
  <2>1. \A c \in IssuedIds' : issued'[c].run # collectorRun'
    <3> TAKE c \in IssuedIds'
    <3>1. UNCHANGED issued /\ collectorRun' = collectorRun + 1 /\ c \in IssuedIds
      BY <1>3 DEF Restarts, IssuedIds
    <3>2. issued[c].run \in Nat /\ collectorRun \in Nat /\ issued[c].run <= collectorRun
      BY <1>0, <3>1, IssuedTyped DEF IssuedInv
    <3>3. QED
      BY <3>1, <3>2
  <2>2. QED
    BY <2>1 DEF LatestInv
<1>4. ASSUME NEW r \in Requests, Issues(r)
      PROVE  LatestInv'
  <2> DEFINE new == [actor |-> r.actor, key |-> r.key, fingerprint |-> Fingerprint(r), at |-> now, run |-> collectorRun]
             entry == [actor |-> r.actor, key |-> r.key, command |-> NextId,
                       fingerprint |-> Fingerprint(r), expiresAt |-> now + IdempotencyTtl]
  <2>1. /\ NextId \in CommandIds /\ issued'[NextId] = new
        /\ (\A c \in CommandIds : c # NextId => issued'[c] = issued[c]) /\ IssuedIds' = IssuedIds \cup {NextId}
    BY <1>0, <1>4, IssueFacts
  <2>2. UNCHANGED <<now, collectorRun, forgotten>>
    BY <1>4 DEF Issues, NewCommand
  <2>3. /\ r.key # NoKey => entry \in idempotency'
        /\ \A k \in MaintainKeys(now) : k \in idempotency' \/ k \in Previous(r)
    BY <1>4 DEF Issues, NewCommand
  <2>4. /\ new.actor = r.actor /\ new.key = r.key
        /\ entry.actor = r.actor /\ entry.key = r.key /\ entry.command = NextId
    OBVIOUS
  <2> HIDE DEF new, entry
  <2>5. \A k \in Previous(r) : r.key # NoKey /\ k.actor = r.actor /\ k.key = r.key
    BY DEF Previous
  <2>6. NextId \in Nat /\ \A c \in IssuedIds : c < NextId /\ c \in Nat /\ c # NextId /\ c \in CommandIds
    BY <1>0, NextIdIsNew, IssuedTyped
  <2>7. SUFFICES ASSUME NEW c \in IssuedIds', issued'[c].key # NoKey, issued'[c].run = collectorRun'
                 PROVE  \/ now' - issued'[c].at >= IdempotencyTtl
                        \/ \E k \in idempotency' : k.actor = issued'[c].actor /\ k.key = issued'[c].key /\ c <= k.command
                        \/ \E e \in forgotten' : c <= e /\ OneKey(c, e)'
    BY DEF LatestInv
  <2>8. CASE c = NextId
    BY <2>1, <2>3, <2>4, <2>6, <2>7, <2>8
  <2>9. CASE c # NextId
    <3>1. c \in IssuedIds /\ issued'[c] = issued[c]
      BY <2>1, <2>6, <2>9
    <3>2. CASE now - issued[c].at >= IdempotencyTtl
      BY <2>2, <3>1, <3>2
    <3>3. ASSUME NEW k \in MaintainKeys(now), SameKey(c, k), c <= k.command
          PROVE  \E j \in idempotency' : SameKey(c, j) /\ c <= j.command
      <4>1. CASE k \in idempotency'
        BY <3>3, <4>1
      <4>2. CASE k \in Previous(r)
        <5>1. entry \in idempotency' /\ SameKey(c, entry)
          BY <2>3, <2>4, <2>5, <3>3, <4>2 DEF SameKey
        <5>2. c <= entry.command
          BY <2>4, <2>6, <3>1
        <5>3. QED
          BY <5>1, <5>2
      <4>3. QED
        BY <2>3, <4>1, <4>2
    <3>4. ASSUME NEW e \in forgotten, c <= e, OneKey(c, e)
          PROVE  \E i \in forgotten' : c <= i /\ OneKey(c, i)'
      <4>1. e \in IssuedIds
        BY <1>0 DEF ForgottenInv, TypeOK, IssuedIds
      <4>2. issued'[e] = issued[e]
        BY <2>1, <2>6, <4>1
      <4>3. OneKey(c, e)'
        BY <3>1, <3>4, <4>2 DEF OneKey
      <4>4. QED
        BY <2>2, <3>4, <4>3
    <3>5. QED
      BY <1>b, <2>2, <2>7, <3>1, <3>2, <3>3, <3>4 DEF SameKey
  <2>10. QED
    BY <2>8, <2>9
<1>5. QED
  BY <1>1, <1>2, <1>3, <1>4, CommandCases

\* Two commands under one key.
Repeats(c, d) == c < d /\ issued[c] # None /\ issued[d] # None /\ OneKey(c, d)
Apart(c, d) ==
  \/ issued[d].at - issued[c].at >= IdempotencyTtl
  \/ /\ issued[d].at - issued[c].at > Retention
     /\ \/ issued[c].fingerprint = issued[d].fingerprint
        \/ \E e \in forgotten : c <= e /\ e < d /\ OneKey(c, e)
\* A request that is issued finds every earlier command of its key far enough in
\* the past.
LEMMA EarlierIsApart ==
  ASSUME ControlInv, NEW r \in Requests, Issues(r), NEW c \in IssuedIds, issued[c].key # NoKey,
         issued[c].key = r.key, issued[c].actor = r.actor, issued[c].run = collectorRun
  PROVE  \/ now - issued[c].at >= IdempotencyTtl
         \/ /\ now - issued[c].at > Retention
            /\ issued[c].fingerprint = Fingerprint(r) \/ (\E e \in forgotten : c <= e /\ OneKey(c, e))
<1>0. TypeOK /\ IssuedInv /\ HeldInv /\ KeysInv /\ ForgottenInv /\ LatestInv /\ RetriesDoNotRepeat
  BY DEF ControlInv
<1>1. IdempotencyTtl \in Nat /\ Retention \in Nat /\ now \in Nat /\ issued[c].at \in Nat /\ c \in CommandIds /\ c \in Nat
  BY <1>0, ControlConstants, IssuedTyped
<1>f. ASSUME NEW e \in forgotten, c <= e, OneKey(c, e)
      PROVE  now - issued[c].at > Retention
  <2>1. e \in IssuedIds /\ now - issued[e].at > Retention
    BY <1>0 DEF ForgottenInv, TypeOK, IssuedIds
  <2>2. issued[e].at \in Nat /\ issued[c].at <= issued[e].at
    BY <1>0, <1>1, <1>f, <2>1, IssuedTyped DEF IssuedInv, IssuedIds
  <2>3. QED
    BY <1>1, <2>1, <2>2
<1>2. SUFFICES ASSUME ~(now - issued[c].at >= IdempotencyTtl), ~(\E e \in forgotten : c <= e /\ OneKey(c, e))
               PROVE  now - issued[c].at > Retention /\ issued[c].fingerprint = Fingerprint(r)
  BY <1>f
<1>3. PICK k \in idempotency : k.actor = issued[c].actor /\ k.key = issued[c].key /\ c <= k.command
  BY <1>0, <1>2 DEF LatestInv
<1> DEFINE d == k.command
<1>4. /\ d \in CommandIds /\ issued[d] # None /\ issued[d].run = collectorRun /\ issued[d].actor = k.actor
      /\ issued[d].key = k.key /\ issued[d].fingerprint = k.fingerprint
      /\ issued[d].at + IdempotencyTtl = k.expiresAt
  BY <1>0, IssuedTyped DEF KeysInv
<1> HIDE DEF d
<1>5. d \in IssuedIds /\ d \in Nat /\ issued[d].at \in Nat /\ k.expiresAt \in Nat
  <2>1. d \in IssuedIds
    BY <1>4 DEF IssuedIds
  <2>2. QED
    BY <1>0, <2>1, IssuedTyped
<1>6. issued[c].at <= issued[d].at /\ issued[d].at <= now
  BY <1>0, <1>3, <1>4, <1>5 DEF IssuedInv, IssuedIds, d
<1>7. k \in Previous(r)
  <2>1. now < k.expiresAt
    BY <1>1, <1>2, <1>4, <1>5, <1>6
  <2>2. QED
    BY <1>3, <2>1 DEF Previous, MaintainKeys
<1>8. k.fingerprint = Fingerprint(r) /\ Maintain(commands, now)[d] = None
  BY <1>7 DEF Issues, NothingToReplay, d
<1>9. now - issued[d].at > Retention
  BY <1>0, <1>4, <1>5, <1>8, GoneIsOld
<1>10. now - issued[c].at > Retention
  BY <1>1, <1>5, <1>6, <1>9
<1>11. issued[c].fingerprint = issued[d].fingerprint
  <2>1. CASE c = d
    BY <2>1
  <2>2. CASE c # d
    <3>1. c < d
      BY <1>1, <1>3, <1>5, <2>2 DEF d
    <3>2. issued[c] # None /\ OneKey(c, d)
      BY <1>3, <1>4 DEF IssuedIds, OneKey
    <3>3. \/ issued[d].at - issued[c].at >= IdempotencyTtl
          \/ issued[c].fingerprint = issued[d].fingerprint
      BY <1>0, <1>1, <1>2, <1>4, <3>1, <3>2 DEF RetriesDoNotRepeat
    <3>4. ~(issued[d].at - issued[c].at >= IdempotencyTtl)
      BY <1>1, <1>2, <1>5, <1>6
    <3>5. QED
      BY <3>3, <3>4
  <2>3. QED
    BY <2>1, <2>2
<1>12. QED
  BY <1>4, <1>8, <1>10, <1>11

\* No step brings two commands of one key too close.
LEMMA RetriesStep ==
  ASSUME ControlInv, [Next]_vars
  PROVE  RetriesDoNotRepeat'
<1>0. TypeOK /\ IssuedInv /\ HeldInv /\ ForgottenInv /\ RetriesDoNotRepeat
  BY DEF ControlInv
<1>1. CASE Kept \/ Maintained \/ Restarts \/ (\E m \in net : Decides(m))
  <2>1. UNCHANGED issued /\ forgotten \subseteq forgotten'
    BY <1>0, <1>1, NothingIssued
  <2>2. QED
    BY <1>0, <2>1 DEF RetriesDoNotRepeat, OneKey
<1>2. ASSUME NEW r \in Requests, Issues(r)
      PROVE  RetriesDoNotRepeat'
  <2> DEFINE new == [actor |-> r.actor, key |-> r.key, fingerprint |-> Fingerprint(r), at |-> now, run |-> collectorRun]
  <2>1. /\ NextId \in CommandIds /\ issued'[NextId] = new
        /\ (\A c \in CommandIds : c # NextId => issued'[c] = issued[c]) /\ IssuedIds' = IssuedIds \cup {NextId}
    BY <1>0, <1>2, IssueFacts
  <2>2. /\ new.actor = r.actor /\ new.key = r.key /\ new.fingerprint = Fingerprint(r) /\ new.at = now
        /\ new.run = collectorRun
    OBVIOUS
  <2> HIDE DEF new
  <2>3. NextId \in Nat /\ \A c \in IssuedIds : c < NextId
    BY <1>0, NextIdIsNew
  <2>F. UNCHANGED forgotten /\ \A e \in forgotten : e \in IssuedIds /\ e < NextId /\ issued'[e] = issued[e]
    <3>1. \A e \in forgotten : e \in IssuedIds
      BY <1>0 DEF ForgottenInv, TypeOK, IssuedIds
    <3>2. QED
      BY <1>2, <2>1, <2>3, <3>1 DEF Issues, NewCommand, IssuedIds
  <2>4. SUFFICES ASSUME NEW c \in CommandIds, NEW d \in CommandIds, Repeats(c, d)'
                 PROVE  Apart(c, d)'
    BY DEF RetriesDoNotRepeat, Repeats, Apart
  <2>5. CASE d = NextId
    <3>1. c # NextId /\ c \in IssuedIds
      BY <2>1, <2>4, <2>5, CommandIdsFinite DEF Repeats, IssuedIds
    <3>2. issued'[c] = issued[c] /\ issued'[d] = new
      BY <2>1, <2>5, <3>1
    <3>3. issued[c].key # NoKey /\ issued[c].key = r.key /\ issued[c].actor = r.actor /\ issued[c].run = collectorRun
      BY <2>2, <2>4, <3>2 DEF Repeats, OneKey
    <3>4. \/ now - issued[c].at >= IdempotencyTtl
          \/ /\ now - issued[c].at > Retention
             /\ issued[c].fingerprint = Fingerprint(r) \/ (\E e \in forgotten : c <= e /\ OneKey(c, e))
      BY <1>2, <3>1, <3>3, EarlierIsApart
    <3>5. issued'[d].at - issued'[c].at = now - issued[c].at /\ issued'[d].fingerprint = Fingerprint(r)
      BY <2>2, <3>2
    <3>6. \A e \in forgotten : OneKey(c, e) => OneKey(c, e)'
      BY <2>F, <3>2 DEF OneKey
    <3>7. QED
      BY <2>F, <2>5, <3>2, <3>4, <3>5, <3>6 DEF Apart
  <2>6. CASE d # NextId
    <3>1. d \in IssuedIds /\ issued'[d] = issued[d]
      BY <2>1, <2>4, <2>6 DEF Repeats, IssuedIds
    <3>2. c # NextId
      BY <2>3, <2>4, <3>1, CommandIdsFinite DEF Repeats
    <3>3. issued'[c] = issued[c]
      BY <2>1, <3>2
    <3>4. Repeats(c, d)
      BY <2>4, <3>1, <3>3 DEF Repeats, OneKey
    <3>5. Apart(c, d)
      BY <1>0, <3>4 DEF RetriesDoNotRepeat, Repeats, Apart
    <3>6. \A e \in forgotten : OneKey(c, e) => OneKey(c, e)'
      BY <2>F, <3>3 DEF OneKey
    <3>7. QED
      BY <2>F, <3>1, <3>3, <3>5, <3>6 DEF Apart
  <2>7. QED
    BY <2>5, <2>6
<1>3. QED
  BY <1>1, <1>2, CommandCases

\* A datagram that was just sent: a command, or something of a node, at its clock.
JustSent(m) ==
  \/ m.kind = "control"
  \/ m.kind = "trace" /\ m.node \in Nodes /\ m.sentAt = LocalTime(m.node)
  \/ /\ m.kind = "control_ack" /\ m.node \in Nodes /\ m.sentAt = LocalTime(m.node)
     /\ m.accepted => <<m.command, m.node>> \in applied'
\* What a step sends is a command, or is of a node and its clock; time passes in
\* Tick alone.
LEMMA NetCases ==
  ASSUME [Next]_vars
  PROVE  /\ applied \subseteq applied'
         /\ \A m \in net' : m \in net \/ (now' = now /\ JustSent(m))
         /\ now' # now => Tick
<1>1. CASE Tick
  BY <1>1 DEF Tick
<1>2. CASE RewriteCredentials
  BY <1>2 DEF RewriteCredentials, history
<1>3. CASE RefreshCredentials
  BY <1>3 DEF RefreshCredentials, history
<1>4. CASE ReadCommands
  BY <1>4 DEF ReadCommands, history
<1>5. ASSUME NEW r \in Requests, IssueControl(r)
      PROVE  applied' = applied /\ now' = now /\ \A m \in net' : m \in net \/ m.kind = "control"
  <2>1. UNCHANGED <<now, applied>>
    BY <1>5 DEF IssueControl
  <2>2. CASE Replayed(r)
    BY <2>1, <2>2 DEF Replayed
  <2>3. CASE NewCommand(r)
    <3>1. net' \subseteq net \cup ControlDatagrams(r, NextId)
      BY <2>3 DEF NewCommand
    <3>2. \A m \in ControlDatagrams(r, NextId) : m.kind = "control"
      BY DEF ControlDatagrams
    <3>3. QED
      BY <2>1, <3>1, <3>2
  <2>4. QED
    BY <1>5, <2>1, <2>2, <2>3 DEF IssueControl, Refused
<1>6. ASSUME NEW m \in net, HandleDatagram(m)
      PROVE  UNCHANGED <<net, applied, now>>
  BY <1>6 DEF HandleDatagram
<1>7. CASE CollectorRestart
  BY <1>7 DEF CollectorRestart
<1>8. ASSUME NEW n \in Nodes, SendTrace(n)
      PROVE  applied' = applied /\ now' = now /\ \A m \in net' : m \in net \/ JustSent(m)
  <2> DEFINE t == [kind |-> "trace", node |-> n, run |-> nodeRun[n], sentAt |-> LocalTime(n)]
  <2>1. net' = net \cup {t} /\ UNCHANGED <<now, applied>>
    BY <1>8 DEF SendTrace, history
  <2>2. JustSent(t)
    BY DEF JustSent
  <2>3. QED
    BY <2>1, <2>2
<1>9. ASSUME NEW n \in Nodes, NodeRestart(n)
      PROVE  UNCHANGED <<net, applied, now>>
  BY <1>9 DEF NodeRestart, history
<1>10. ASSUME NEW n \in Nodes, NEW m \in net, ReceiveCommand(n, m)
       PROVE  applied \subseteq applied' /\ now' = now /\ \A x \in net' : x \in net \/ JustSent(x)
  <2>1. now' = now
    BY <1>10 DEF ReceiveCommand
  <2>2. CASE NotExpired(n, m)
    <3>1. net' = net \cup {Ack(n, m, TRUE)} /\ applied' = applied \cup {<<m.command, n>>}
      BY <1>10, <2>2 DEF ReceiveCommand
    <3>2. JustSent(Ack(n, m, TRUE))
      BY <3>1 DEF JustSent, Ack
    <3>3. QED
      BY <2>1, <3>1, <3>2
  <2>3. CASE ~NotExpired(n, m)
    BY <1>10, <2>1, <2>3 DEF ReceiveCommand
  <2>4. QED
    BY <2>2, <2>3
<1>11. ASSUME NEW n \in Nodes, NEW m \in net, RefuseCommand(n, m)
       PROVE  applied' = applied /\ now' = now /\ \A x \in net' : x \in net \/ JustSent(x)
  <2>1. net' = net \cup {Ack(n, m, FALSE)} /\ UNCHANGED <<now, applied>>
    BY <1>11 DEF RefuseCommand, history
  <2>2. JustSent(Ack(n, m, FALSE))
    BY DEF JustSent, Ack
  <2>3. QED
    BY <2>1, <2>2
<1>12. CASE UNCHANGED vars
  BY <1>12 DEF vars, history
<1>13. QED
  BY <1>1, <1>2, <1>3, <1>4, <1>5, <1>6, <1>7, <1>8, <1>9, <1>10, <1>11, <1>12 DEF Next, JustSent

\* Answers and the commands that count them stay true (control.mjs, acknowledge).
LEMMA AckStep ==
  ASSUME ControlInv, [Next]_vars
  PROVE  AckInv'
<1>0. TypeOK /\ IssuedInv /\ HeldInv /\ AckInv
  BY DEF ControlInv
<1>a. applied \subseteq applied' /\ \A m \in net' : m \in net \/ JustSent(m)
  BY NetCases
<1>b. \A m \in net' : m.kind = "control_ack" /\ m.accepted => <<m.command, m.node>> \in applied'
  BY <1>0, <1>a DEF AckInv, JustSent
<1> DEFINE cs == Maintain(commands, now)
           Sound(command, c) ==
             /\ command.status \in {"pending", "accepted"} => \A n \in command.acks : <<c, n>> \in applied'
             /\ command.status = "accepted" => command.targets \subseteq command.acks
<1>c. \A c \in CommandIds : commands[c] # None => Sound(commands[c], c)
  BY <1>0, <1>a DEF AckInv, Held
<1>d. \A c \in CommandIds : cs[c] # None => Sound(cs[c], c)
  <2> TAKE c \in CommandIds
  <2> HAVE cs[c] # None
  <2>1. /\ commands[c] # None /\ cs[c].targets = commands[c].targets /\ cs[c].acks = commands[c].acks
        /\ cs[c].status \in {"timed-out", commands[c].status}
    BY <1>0, MaintainLeaves
  <2>2. QED
    BY <1>c, <2>1
<1> HIDE DEF cs
<1>1. SUFFICES \A c \in CommandIds : commands'[c] # None => Sound(commands'[c], c)
  BY <1>b DEF AckInv, Held
<1>2. CASE Kept
  BY <1>c, <1>2 DEF Kept
<1>3. CASE Maintained
  BY <1>d, <1>3 DEF Maintained, cs
<1>4. ASSUME NEW r \in Requests, Issues(r), NEW c \in CommandIds, commands'[c] # None
      PROVE  Sound(commands'[c], c)
  <2> DEFINE stored == [action |-> r.action, targets |-> r.targets, issuedAt |-> now, acks |-> {},
                      status |-> IF r.action = "reset" THEN "accepted" ELSE "pending"]
  <2>1. commands'[NextId] = stored /\ (\A d \in CommandIds : d # NextId => commands'[d] = cs[d])
    BY <1>0, <1>4, IssueFacts DEF cs
  <2>2. stored.acks = {} /\ stored.targets = r.targets /\ (stored.status = "accepted" => r.action = "reset")
    OBVIOUS
  <2>3. r.action = "reset" => r.targets = {}
    BY ControlConstants
  <2> HIDE DEF stored
  <2>4. CASE c = NextId
    BY <2>1, <2>2, <2>3, <2>4
  <2>5. CASE c # NextId
    BY <1>d, <1>4, <2>1, <2>5
  <2>6. QED
    BY <2>4, <2>5
<1>5. ASSUME NEW m \in net, Decides(m), NEW c \in CommandIds, commands'[c] # None
      PROVE  Sound(commands'[c], c)
  <2> DEFINE done == Acknowledged(m, cs)
  <2>1. /\ m.command \in CommandIds /\ cs[m.command] # None /\ cs[m.command].status = "pending"
        /\ done.targets = cs[m.command].targets /\ done.acks = cs[m.command].acks \cup {m.node}
        /\ done.status = IF ~m.accepted THEN "rejected" ELSE IF done.acks = done.targets THEN "accepted" ELSE "pending"
        /\ commands'[m.command] = done /\ (\A d \in CommandIds : d # m.command => commands'[d] = cs[d])
    BY <1>0, <1>5, DecideFacts DEF cs
  <2>2. m.kind = "control_ack" /\ UNCHANGED <<net, applied>>
    BY <1>5 DEF Decides
  <2> HIDE DEF done
  <2>3. CASE c = m.command
    <3>1. m.accepted => <<c, m.node>> \in applied'
      BY <1>0, <2>2, <2>3 DEF AckInv
    <3>2. \A n \in cs[c].acks : <<c, n>> \in applied'
      BY <1>d, <2>1, <2>3
    <3>3. QED
      BY <2>1, <2>3, <3>1, <3>2
  <2>4. CASE c # m.command
    BY <1>d, <1>5, <2>1, <2>4
  <2>5. QED
    BY <2>3, <2>4
<1>6. CASE Restarts
  BY <1>6 DEF Restarts
<1>7. QED
  BY <1>2, <1>3, <1>4, <1>5, <1>6, CommandCases

\* LetInOnce rests on what the replay cache remembers.
LEMMA SeenStep ==
  ASSUME ControlInv, [Next]_vars
  PROVE  SeenInv'
<1>0. TypeOK /\ SeenInv
  BY DEF ControlInv
<1>a. Skew \in Nat /\ now \in Nat /\ net \subseteq Datagrams /\ handled \subseteq Datagrams
  BY <1>0, ControlConstants, IssuedTyped DEF TypeOK
<1>b. \A m \in Datagrams : m.sentAt \in Int
  BY DEF Datagrams
<1>c. \A e \in replay : e.seen \in Nat
  BY <1>0 DEF TypeOK
<1>1. CASE Tick
  <2>1. /\ now' = now + 1 /\ handled' = handled \cap net' /\ net' \subseteq net
        /\ \A m \in net' : m.kind # "control" => now' <= m.sentAt + Skew
        /\ replay' = {e \in replay : now' - e.seen <= ReplayTtl}
    BY <1>1 DEF Tick
  <2>2. ASSUME NEW m \in handled'
        PROVE  m.kind # "control" /\ \E e \in replay' : e.nonce = m /\ e.seen <= now' /\ Abs(e.seen - m.sentAt) <= Skew
    <3>1. m \in handled /\ m \in net' /\ m.kind # "control" /\ m.sentAt \in Int
      BY <1>0, <1>a, <1>b, <2>1, <2>2 DEF SeenInv
    <3>2. PICK e \in replay : e.nonce = m /\ e.seen <= now /\ Abs(e.seen - m.sentAt) <= Skew
      BY <1>0, <3>1 DEF SeenInv
    <3>3. now' <= m.sentAt + Skew /\ e.seen \in Nat
      BY <1>c, <2>1, <3>1
    <3>4. now' - e.seen <= 2 * Skew /\ e.seen <= now'
      BY <1>a, <2>1, <3>1, <3>2, <3>3 DEF Abs
    <3>5. QED
      BY <2>1, <3>1, <3>2, <3>4 DEF ReplayTtl
  <2>3. QED
    BY <2>1, <2>2 DEF SeenInv
<1>2. CASE now' = now /\ (handled' = {} \/ (UNCHANGED <<handled, replay>> /\ net \subseteq net'))
  <2>1. \A m \in net' : m.kind # "control" => now' <= m.sentAt + Skew
    <3> TAKE m \in net'
    <3> HAVE m.kind # "control"
    <3>1. CASE m \in net
      BY <1>0, <1>2, <3>1 DEF SeenInv
    <3>2. CASE JustSent(m)
      <4>1. m.node \in Nodes /\ m.sentAt = now + Offset[m.node]
        BY <3>2 DEF JustSent, LocalTime
      <4>2. Offset[m.node] \in Int /\ -Skew <= Offset[m.node]
        BY <4>1, ControlConstants
      <4>3. QED
        BY <1>a, <1>2, <4>1, <4>2
    <3>3. QED
      BY <3>1, <3>2, NetCases
  <2>2. QED
    BY <1>0, <1>2, <2>1 DEF SeenInv
<1>3. ASSUME NEW m \in net, HandleDatagram(m)
      PROVE  SeenInv'
  <2>1. /\ UNCHANGED <<now, net>> /\ m.kind # "control" /\ Verified(m) /\ replay' = Accept(m)
        /\ handled' \subseteq (handled \ {e.nonce : e \in Evicted}) \cup {m}
    BY <1>3 DEF HandleDatagram
  <2>2. [nonce |-> m, seen |-> now] \in replay' /\ Abs(now - m.sentAt) <= Skew
    BY <2>1 DEF Accept, Verified
  <2>3. ASSUME NEW x \in handled'
        PROVE  x.kind # "control" /\ \E e \in replay' : e.nonce = x /\ e.seen <= now /\ Abs(e.seen - x.sentAt) <= Skew
    <3>1. CASE x = m
      <4> DEFINE e == [nonce |-> m, seen |-> now]
      <4>1. e.nonce = x /\ e.seen <= now /\ Abs(e.seen - x.sentAt) <= Skew
        BY <1>a, <2>2, <3>1
      <4>2. QED
        BY <2>1, <2>2, <3>1, <4>1
    <3>2. CASE x # m
      <4>1. x \in handled /\ x \notin {e.nonce : e \in Evicted}
        BY <2>1, <2>3, <3>2
      <4>2. PICK e \in replay : e.nonce = x /\ e.seen <= now /\ Abs(e.seen - x.sentAt) <= Skew
        BY <1>0, <4>1 DEF SeenInv
      <4>3. x \in net /\ x.kind # "control"
        BY <1>0, <4>1 DEF SeenInv
      <4>4. now <= x.sentAt + Skew /\ x.sentAt \in Int /\ e.seen \in Nat
        BY <1>0, <1>a, <1>b, <1>c, <4>3 DEF SeenInv
      <4>5. now - e.seen <= 2 * Skew
        BY <1>a, <4>2, <4>4 DEF Abs
      <4>6. e \in Remembered \ Evicted
        BY <4>1, <4>2, <4>5 DEF Remembered, ReplayTtl
      <4>7. e \in replay'
        BY <2>1, <4>6 DEF Accept
      <4>8. QED
        BY <4>2, <4>3, <4>7
    <3>3. QED
      BY <3>1, <3>2
  <2>4. QED
    BY <1>0, <1>3, <2>1, <2>3 DEF SeenInv
<1>4. ASSUME ~(\E m \in net : HandleDatagram(m)), ~Tick
      PROVE  now' = now /\ (handled' = {} \/ (UNCHANGED <<handled, replay>> /\ net \subseteq net'))
  <2>1. now' = now
    BY <1>4, NetCases
  <2>2. CASE RewriteCredentials \/ RefreshCredentials \/ ReadCommands \/ CollectorRestart
    BY <2>1, <2>2 DEF RewriteCredentials, RefreshCredentials, ReadCommands, CollectorRestart, history, collector
  <2>3. ASSUME NEW r \in Requests, IssueControl(r)
        PROVE  UNCHANGED <<handled, replay>> /\ net \subseteq net'
    BY <2>3 DEF IssueControl, NewCommand, Refused, Replayed
  <2>4. ASSUME NEW n \in Nodes, SendTrace(n) \/ NodeRestart(n)
        PROVE  UNCHANGED <<handled, replay>> /\ net \subseteq net'
    BY <2>4 DEF SendTrace, NodeRestart, history, collector
  <2>5. ASSUME NEW n \in Nodes, NEW m \in net, ReceiveCommand(n, m) \/ RefuseCommand(n, m)
        PROVE  UNCHANGED <<handled, replay>> /\ net \subseteq net'
    BY <2>5 DEF ReceiveCommand, RefuseCommand, history, collector
  <2>6. CASE UNCHANGED vars
    BY <2>6 DEF vars, history, collector
  <2>7. QED
    BY <1>4, <2>1, <2>2, <2>3, <2>4, <2>5, <2>6 DEF Next
<1>5. QED
  BY <1>1, <1>2, <1>3, <1>4

\* The types of the books.
LEMMA BookTypes ==
  ASSUME ControlInv, [Next]_vars
  PROVE  /\ commands' \in [CommandIds -> Commands \cup {None}]
         /\ stats' \in [issued : Counter, accepted : Counter, rejected : Counter, timedOut : Counter]
         /\ idempotency' \subseteq IdempotencyEntries
         /\ issued' \in [CommandIds -> IssuedCommands \cup {None}] /\ forgotten' \subseteq CommandIds
<1>0. TypeOK /\ IssuedInv /\ HeldInv
  BY DEF ControlInv
<1>a. /\ commands \in [CommandIds -> Commands \cup {None}] /\ idempotency \subseteq IdempotencyEntries
      /\ issued \in [CommandIds -> IssuedCommands \cup {None}]
  BY <1>0 DEF TypeOK
<1>b. MaintainKeys(now) \subseteq IdempotencyEntries
  BY <1>a DEF MaintainKeys
<1> DEFINE cs == Maintain(commands, now)
<1>c. cs \in [CommandIds -> Commands \cup {None}]
  <2>1. CASE CommandIds = {}
    BY <2>1 DEF Maintain
  <2>2. CASE CommandIds # {}
    BY <1>0, <2>2, MaintainLeaves
  <2>3. QED
    BY <2>1, <2>2
<1> HIDE DEF cs
<1>1. /\ commands' \in [CommandIds -> Commands \cup {None}] /\ idempotency' \subseteq IdempotencyEntries
      /\ issued' \in [CommandIds -> IssuedCommands \cup {None}]
  <2>1. CASE Kept
    BY <1>a, <2>1 DEF Kept
  <2>2. CASE Maintained
    BY <1>a, <1>b, <1>c, <2>2 DEF Maintained, Forgets, cs
  <2>3. ASSUME NEW r \in Requests, Issues(r)
        PROVE  /\ commands' \in [CommandIds -> Commands \cup {None}] /\ idempotency' \subseteq IdempotencyEntries
               /\ issued' \in [CommandIds -> IssuedCommands \cup {None}]
    <3> DEFINE new == [actor |-> r.actor, key |-> r.key, fingerprint |-> Fingerprint(r), at |-> now, run |-> collectorRun]
               stored == [action |-> r.action, targets |-> r.targets, issuedAt |-> now, acks |-> {},
                        status |-> IF r.action = "reset" THEN "accepted" ELSE "pending"]
               entry == [actor |-> r.actor, key |-> r.key, command |-> NextId,
                         fingerprint |-> Fingerprint(r), expiresAt |-> now + IdempotencyTtl]
    <3>1. /\ NextId \in CommandIds /\ new \in IssuedCommands /\ stored \in Commands
          /\ issued' = [issued EXCEPT ![NextId] = new] /\ commands' = [cs EXCEPT ![NextId] = stored]
      BY <1>0, <2>3, IssueFacts DEF cs
    <3>2. entry \in IdempotencyEntries
      <4>1. r.actor \in Principals /\ r.key \in Keys /\ r.action \in Actions /\ r.targets \subseteq Nodes
        BY ControlConstants
      <4>2. Fingerprint(r) \in Fingerprints
        BY <4>1 DEF Fingerprint, Fingerprints
      <4>3. now + IdempotencyTtl \in Nat
        BY <1>0, IssuedTyped, ControlConstants
      <4>4. QED
        BY <3>1, <4>1, <4>2, <4>3 DEF IdempotencyEntries
    <3>3. idempotency' \subseteq MaintainKeys(now) \cup {entry}
      BY <2>3 DEF Issues, NewCommand
    <3> HIDE DEF new, stored, entry
    <3>4. QED
      BY <1>a, <1>b, <1>c, <3>1, <3>2, <3>3
  <2>4. ASSUME NEW m \in net, Decides(m)
        PROVE  /\ commands' \in [CommandIds -> Commands \cup {None}] /\ idempotency' \subseteq IdempotencyEntries
               /\ issued' \in [CommandIds -> IssuedCommands \cup {None}]
    <3>1. commands' \in [CommandIds -> Commands \cup {None}]
      BY <1>0, <2>4, DecideFacts
    <3>2. idempotency' = MaintainKeys(now) /\ issued' = issued
      BY <2>4 DEF Decides
    <3>3. QED
      BY <1>a, <1>b, <3>1, <3>2
  <2>5. CASE Restarts
    BY <1>a, <2>5 DEF Restarts
  <2>6. QED
    BY <2>1, <2>2, <2>3, <2>4, <2>5, CommandCases
<1>2. stats' \in [issued : Counter, accepted : Counter, rejected : Counter, timedOut : Counter]
  <2>1. OutcomesBalance' /\ stats' \in StatsRecord /\ stats'.issued <= Cardinality(IssuedIds')
    BY BalanceStep
  <2>2. Cardinality(IssuedIds') \in Nat /\ Cardinality(IssuedIds') <= MaxIssued
    <3>1. IssuedIds' \in SUBSET CommandIds
      BY DEF IssuedIds
    <3>2. Cardinality(CommandIds) = MaxIssued
      BY ControlConstants, FS_Interval DEF CommandIds
    <3>3. QED
      BY <3>1, <3>2, CommandIdsFinite, FS_Subset, FS_CardinalityType
  <2>3. Cardinality(Pending(commands')) \in Nat
    <3>1. Pending(commands') \in SUBSET CommandIds
      BY DEF Pending, Held
    <3>2. QED
      BY <3>1, CommandIdsFinite, FS_Subset, FS_CardinalityType
  <2>4. stats'.issued \in Nat /\ stats'.accepted \in Nat /\ stats'.rejected \in Nat /\ stats'.timedOut \in Nat
    BY <2>1 DEF StatsRecord
  <2>5. stats'.issued = stats'.accepted + stats'.rejected + stats'.timedOut + Cardinality(Pending(commands'))
    BY <2>1 DEF OutcomesBalance
  <2> DEFINE i == stats'.issued  a == stats'.accepted  b == stats'.rejected  t == stats'.timedOut
             q == Cardinality(Pending(commands'))  n == Cardinality(IssuedIds')
  <2>6. /\ i \in Nat /\ a \in Nat /\ b \in Nat /\ t \in Nat /\ q \in Nat /\ n \in Nat /\ i = a + b + t + q /\ i <= n
        /\ n <= MaxIssued /\ MaxIssued \in Nat
    BY <2>1, <2>2, <2>3, <2>4, <2>5, ControlConstants
  <2>7. i \in Counter /\ a \in Counter /\ b \in Counter /\ t \in Counter
    <3> HIDE DEF i, a, b, t, q, n
    <3>1. QED
      BY <2>6 DEF Counter
  <2>8. QED
    BY <2>1, <2>7 DEF StatsRecord
<1>3. forgotten' \subseteq CommandIds
  <2>1. forgotten \subseteq CommandIds /\ \A r \in Requests : \A k \in Previous(r) : k.command \in CommandIds
    BY <1>0, <1>b DEF TypeOK, Previous, IdempotencyEntries
  <2>2. UNCHANGED forgotten \/ \E r \in Requests : Forgets(r)
    BY CommandCases DEF Kept, Maintained, Issues, NewCommand, Decides, Restarts
  <2>3. QED
    BY <2>1, <2>2 DEF Forgets
<1>4. QED
  BY <1>1, <1>2, <1>3

\* The types of the datagrams.
LEMMA NetTypes ==
  ASSUME ControlInv, [Next]_vars
  PROVE  net' \subseteq Datagrams /\ applied' \subseteq CommandIds \X Nodes
<1>0. /\ net \subseteq Datagrams /\ now \in 0 .. MaxTime /\ nodeRun \in [Nodes -> Runs]
      /\ endpoints \in [Nodes -> Endpoints \cup {None}] /\ applied \subseteq CommandIds \X Nodes
  BY DEF ControlInv, TypeOK
<1>a. \A n \in Nodes : LocalTime(n) \in Int /\ nodeRun[n] \in Runs
  BY <1>0, ControlConstants DEF LocalTime
<1>b. \A m \in net : m.kind = "control" => m.command \in CommandIds /\ m.action \in Actions
  BY <1>0 DEF Datagrams
<1>1. ASSUME NEW r \in Requests, IssueControl(r)
      PROVE  net' \subseteq Datagrams
  <2>1. CASE NewCommand(r)
    <3>1. NextId \in CommandIds /\ net' \subseteq net \cup ControlDatagrams(r, NextId)
      BY <2>1 DEF NewCommand
    <3>2. r.action \in Actions /\ r.targets \subseteq Nodes
      BY ControlConstants
    <3>3. ASSUME NEW m \in ControlDatagrams(r, NextId) PROVE m \in Datagrams
      <4>1. PICK n \in LiveTargets(r) : m = [kind |-> "control", node |-> n, run |-> endpoints[n].run, sentAt |-> now,
                                             command |-> NextId, action |-> r.action]
        BY <3>3 DEF ControlDatagrams
      <4>2. n \in Nodes /\ endpoints[n] # None
        BY <3>2 DEF LiveTargets
      <4>3. endpoints[n].run \in Runs
        BY <1>0, <4>2 DEF Endpoints
      <4>4. QED
        BY <1>0, <3>1, <3>2, <4>1, <4>2, <4>3 DEF Datagrams
    <3>4. QED
      BY <1>0, <3>1, <3>3
  <2>2. QED
    BY <1>0, <1>1, <2>1 DEF IssueControl, Refused, Replayed
<1>2. ASSUME NEW n \in Nodes, SendTrace(n)
      PROVE  net' \subseteq Datagrams
  <2>1. [kind |-> "trace", node |-> n, run |-> nodeRun[n], sentAt |-> LocalTime(n)] \in Datagrams
    BY <1>a DEF Datagrams
  <2>2. QED
    BY <1>0, <1>2, <2>1 DEF SendTrace
<1>3. ASSUME NEW n \in Nodes, NEW m \in net, ReceiveCommand(n, m) \/ RefuseCommand(n, m)
      PROVE  net' \subseteq Datagrams /\ applied' \subseteq CommandIds \X Nodes
  <2>1. m.command \in CommandIds /\ m.action \in Actions
    BY <1>b, <1>3 DEF ReceiveCommand, RefuseCommand, Authentic
  <2>2. \A ok \in BOOLEAN : Ack(n, m, ok) \in Datagrams
    BY <1>a, <2>1 DEF Ack, Datagrams
  <2>3. net' \subseteq net \cup {Ack(n, m, ok) : ok \in BOOLEAN} /\ applied' \subseteq applied \cup {<<m.command, n>>}
    BY <1>3 DEF ReceiveCommand, RefuseCommand, history
  <2>4. QED
    BY <1>0, <2>1, <2>2, <2>3
<1>4. CASE Tick
  BY <1>0, <1>4 DEF Tick
<1>5. CASE RewriteCredentials \/ RefreshCredentials \/ ReadCommands \/ CollectorRestart
  BY <1>0, <1>5 DEF RewriteCredentials, RefreshCredentials, ReadCommands, CollectorRestart, history
<1>6. ASSUME NEW m \in net, HandleDatagram(m)
      PROVE  UNCHANGED <<net, applied>>
  BY <1>6 DEF HandleDatagram
<1>7. ASSUME NEW n \in Nodes, NodeRestart(n)
      PROVE  UNCHANGED <<net, applied>>
  BY <1>7 DEF NodeRestart, history
<1>8. CASE UNCHANGED vars
  BY <1>0, <1>8 DEF vars, history
<1>9. ASSUME NEW r \in Requests, IssueControl(r)
      PROVE  UNCHANGED applied
  BY <1>9 DEF IssueControl
<1>10. ASSUME NEW n \in Nodes, SendTrace(n)
      PROVE  UNCHANGED applied
  BY <1>10 DEF SendTrace, history
<1>11. QED
  BY <1>0, <1>1, <1>2, <1>3, <1>4, <1>5, <1>6, <1>7, <1>8, <1>9, <1>10 DEF Next

OtherTypes ==
  /\ now \in 0 .. MaxTime
  /\ endpoints \in [Nodes -> Endpoints \cup {None}]
  /\ controlStates \in [Nodes -> {"paused", "running", None}]
  /\ paused \in BOOLEAN /\ files \in BOOLEAN /\ registry \in BOOLEAN
  /\ replay \subseteq [nonce : Datagrams, seen : 0 .. MaxTime] /\ handled \subseteq Datagrams
  /\ collectorRun \in Runs
  /\ nodeRun \in [Nodes -> Runs]
  /\ nodePaused \in [Nodes -> BOOLEAN]
  /\ nonces \in [Nodes -> SUBSET CommandIds]
  /\ traces \in 0 .. MaxTraces /\ faults \in 0 .. MaxFaults
\* The types of everything else, and that restarts are counted.
LEMMA OtherTypesStep ==
  ASSUME ControlInv, [Next]_vars
  PROVE  OtherTypes' /\ RunInv'
<1>0. OtherTypes /\ RunInv /\ net \subseteq Datagrams
  BY DEF ControlInv, TypeOK, OtherTypes
<1>a. \A m \in net : m.node \in Nodes /\ m.run \in Runs
  BY <1>0 DEF Datagrams
<1>b. MaxTime \in Nat /\ MaxFaults \in Nat /\ MaxTraces \in Nat
  BY ControlConstants
<1>c. \A run \in Nat : run <= faults + 1 /\ Fault => run + 1 <= faults' + 1 /\ run + 1 \in 1 .. MaxFaults + 1
  BY <1>0, <1>b DEF Fault, OtherTypes
<1>d. Fault => faults' \in 0 .. MaxFaults /\ faults' = faults + 1
  BY <1>0, <1>b DEF Fault, OtherTypes
<1>1. CASE Tick
  <2>1. now' \in 0 .. MaxTime
    BY <1>0, <1>b, <1>1 DEF Tick, OtherTypes
  <2>2. QED
    BY <1>0, <1>1, <2>1 DEF Tick, OtherTypes, RunInv, nodes
<1>2. CASE RewriteCredentials
  <2>1. collectorRun <= faults' + 1 /\ \A n \in Nodes : nodeRun[n] <= faults' + 1
    BY <1>0, <1>d, <1>2 DEF RewriteCredentials, RunInv, OtherTypes, Runs
  <2>2. files' \in BOOLEAN
    BY <1>2 DEF RewriteCredentials
  <2>3. QED
    BY <1>0, <1>d, <1>2, <2>1, <2>2 DEF RewriteCredentials, OtherTypes, RunInv, collector, nodes, history
<1>3. CASE RefreshCredentials
  BY <1>0, <1>3 DEF RefreshCredentials, Refresh, OtherTypes, RunInv, nodes, history
<1>4. CASE ReadCommands
  BY <1>0, <1>4 DEF ReadCommands, OtherTypes, RunInv, nodes, history
<1>5. ASSUME NEW r \in Requests, IssueControl(r)
      PROVE  OtherTypes' /\ RunInv'
  <2>1. UNCHANGED <<faults, now, files, endpoints, controlStates, replay, registry, collectorRun, nodes, handled>>
    BY <1>5 DEF IssueControl
  <2>2. PausedAfter(r.action) \in BOOLEAN
    BY <1>0 DEF PausedAfter, OtherTypes
  <2>3. paused' \in BOOLEAN
    BY <1>0, <1>5, <2>2 DEF IssueControl, NewCommand, Refused, Replayed, OtherTypes
  <2>4. QED
    BY <1>0, <2>1, <2>3 DEF OtherTypes, RunInv, nodes
<1>6. ASSUME NEW m \in net, HandleDatagram(m)
      PROVE  OtherTypes' /\ RunInv'
  <2>1. UNCHANGED <<faults, now, files, collectorRun, nodes>> /\ replay' = Accept(m) /\ handled' \subseteq handled \cup {m}
    BY <1>6 DEF HandleDatagram
  <2>2. m \in Datagrams /\ m.node \in Nodes /\ m.run \in Runs
    BY <1>0, <1>a
  <2>3. replay' \subseteq [nonce : Datagrams, seen : 0 .. MaxTime] /\ handled' \subseteq Datagrams
    <3>1. [nonce |-> m, seen |-> now] \in [nonce : Datagrams, seen : 0 .. MaxTime]
      BY <1>0, <2>2 DEF OtherTypes
    <3>2. replay' \subseteq replay \cup {[nonce |-> m, seen |-> now]}
      BY <2>1 DEF Accept, Remembered
    <3>3. QED
      BY <1>0, <2>1, <2>2, <3>1, <3>2 DEF OtherTypes
  <2>4. /\ endpoints' \in [Nodes -> Endpoints \cup {None}] /\ controlStates' \in [Nodes -> {"paused", "running", None}]
        /\ paused' \in BOOLEAN /\ registry' \in BOOLEAN
    <3>1. CASE Refresh(FALSE) /\ UNCHANGED paused
      BY <1>0, <3>1 DEF Refresh, OtherTypes
    <3>2. CASE HandleTrace(m) /\ UNCHANGED registry
      <4>1. [run |-> m.run, lastSeen |-> now] \in Endpoints
        BY <1>0, <2>2 DEF Endpoints, OtherTypes
      <4>2. QED
        BY <1>0, <3>2, <4>1 DEF HandleTrace, OtherTypes
    <3>3. CASE HandleAck(m) /\ UNCHANGED registry
      <4> DEFINE states == IF m.accepted
                           THEN [controlStates EXCEPT ![m.node] = IF m.action = "pause" THEN "paused" ELSE "running"]
                           ELSE controlStates
                 all == \A n \in Nodes : states[n] = "paused"
      <4>1. states \in [Nodes -> {"paused", "running", None}] /\ all \in BOOLEAN
        BY <1>0, <2>2 DEF OtherTypes
      <4>2. UNCHANGED endpoints /\ controlStates' \in {states, controlStates} /\ paused' \in {all, paused}
        BY <3>3 DEF HandleAck
      <4> HIDE DEF states, all
      <4>3. QED
        BY <1>0, <3>3, <4>1, <4>2 DEF OtherTypes
    <3>4. CASE HandleStray(m) /\ UNCHANGED registry
      BY <1>0, <3>4 DEF HandleStray, OtherTypes
    <3>5. QED
      BY <1>6, <3>1, <3>2, <3>3, <3>4 DEF HandleDatagram
  <2>5. QED
    BY <1>0, <2>1, <2>3, <2>4 DEF OtherTypes, RunInv, nodes
<1>7. CASE CollectorRestart
  <2>1. collectorRun \in Nat /\ collectorRun <= faults + 1 /\ Fault
    BY <1>0, <1>7 DEF CollectorRestart, RunInv, OtherTypes, Runs
  <2>2. collectorRun' \in Runs /\ collectorRun' <= faults' + 1
    BY <1>c, <1>7, <2>1 DEF CollectorRestart, Runs
  <2>3. \A n \in Nodes : nodeRun[n] <= faults' + 1
    BY <1>0, <1>d, <2>1 DEF RunInv, OtherTypes, Runs
  <2>4. QED
    BY <1>0, <1>d, <1>7, <2>1, <2>2, <2>3 DEF CollectorRestart, OtherTypes, RunInv, nodes
<1>8. ASSUME NEW n \in Nodes, SendTrace(n)
      PROVE  OtherTypes' /\ RunInv'
  <2>1. traces' \in 0 .. MaxTraces
    BY <1>0, <1>b, <1>8 DEF SendTrace, OtherTypes
  <2>2. QED
    BY <1>0, <1>8, <2>1 DEF SendTrace, OtherTypes, RunInv, collector, history
<1>9. ASSUME NEW n \in Nodes, NodeRestart(n)
      PROVE  OtherTypes' /\ RunInv'
  <2>1. Fault /\ \A x \in Nodes : nodeRun[x] \in Nat /\ nodeRun[x] <= faults + 1 /\ nodeRun[x] \in Runs
    BY <1>0, <1>9 DEF NodeRestart, RunInv, OtherTypes, Runs
  <2>2. nodeRun[n] + 1 \in Runs /\ nodeRun[n] + 1 <= faults' + 1
    BY <1>c, <2>1 DEF Runs
  <2>3. collectorRun <= faults' + 1 /\ \A x \in Nodes : nodeRun[x] <= faults' + 1
    BY <1>0, <1>d, <2>1 DEF RunInv, OtherTypes, Runs
  <2>4. nodeRun' = [nodeRun EXCEPT ![n] = nodeRun[n] + 1]
    BY <1>9 DEF NodeRestart
  <2>5. nodeRun' \in [Nodes -> Runs] /\ \A x \in Nodes : nodeRun'[x] <= faults' + 1
    BY <1>0, <2>2, <2>3, <2>4 DEF OtherTypes
  <2>6. nodePaused' \in [Nodes -> BOOLEAN] /\ nonces' \in [Nodes -> SUBSET CommandIds]
    BY <1>0, <1>9 DEF NodeRestart, OtherTypes
  <2>7. QED
    BY <1>0, <1>d, <1>9, <2>1, <2>3, <2>5, <2>6 DEF NodeRestart, OtherTypes, RunInv, collector, history
<1>10. ASSUME NEW n \in Nodes, NEW m \in net, ReceiveCommand(n, m) \/ RefuseCommand(n, m)
       PROVE  OtherTypes' /\ RunInv'
  <2>1. UNCHANGED <<faults, now, files, collector, nodeRun, traces, handled>> /\ Authentic(n, m)
        /\ nonces' = RememberNonce(n, m)
    BY <1>10 DEF ReceiveCommand, RefuseCommand, history
  <2>2. m.command \in CommandIds
    BY <1>0, <2>1 DEF Authentic, Datagrams
  <2>3. nonces' \in [Nodes -> SUBSET CommandIds]
    BY <1>0, <2>1, <2>2 DEF RememberNonce, OtherTypes
  <2>4. nodePaused' \in [Nodes -> BOOLEAN]
    BY <1>0, <1>10 DEF ReceiveCommand, RefuseCommand, OtherTypes
  <2>5. QED
    BY <1>0, <2>1, <2>3, <2>4 DEF OtherTypes, RunInv, collector
<1>11. CASE UNCHANGED vars
  BY <1>0, <1>11 DEF vars, OtherTypes, RunInv, collector, nodes, history
<1>12. QED
  BY <1>1, <1>2, <1>3, <1>4, <1>5, <1>6, <1>7, <1>8, <1>9, <1>10, <1>11 DEF Next

\* The control plane begins in its invariant.
LEMMA ControlInitially == Init => ControlInv
<1> SUFFICES ASSUME Init PROVE ControlInv
  OBVIOUS
<1>1. TypeOK
  <2>1. 0 \in 0 .. MaxTime /\ 0 \in 0 .. MaxTraces /\ 0 \in 0 .. MaxFaults /\ 1 \in Runs /\ 0 \in Counter
    BY ControlConstants DEF Runs, Counter
  <2>2. NoStats \in [issued : Counter, accepted : Counter, rejected : Counter, timedOut : Counter]
    BY <2>1 DEF NoStats
  <2>3. QED
    BY <2>1, <2>2 DEF Init, TypeOK
<1>2. Held(commands) = {} /\ Pending(commands) = {} /\ IssuedIds = {}
  BY DEF Init, Held, Pending, IssuedIds
<1>3. Cardinality({}) = 0
  BY FS_EmptySet
<1>4. OutcomesBalance
  BY <1>2, <1>3 DEF Init, NoStats, OutcomesBalance
<1>5. IssuedInv
  BY <1>2, <1>3 DEF Init, NoStats, IssuedInv, IssuedIds
<1>6. RunInv
  BY DEF Init, RunInv
<1>7. HeldInv /\ KeysInv /\ ForgottenInv /\ LatestInv /\ AckInv
  BY <1>2 DEF Init, HeldInv, KeysInv, ForgottenInv, LatestInv, AckInv
<1>8. RetriesDoNotRepeat /\ SeenInv
  BY DEF Init, RetriesDoNotRepeat, SeenInv
<1>9. QED
  BY <1>1, <1>4, <1>5, <1>6, <1>7, <1>8 DEF ControlInv

\* Every step of the control plane keeps its invariant.
LEMMA ControlStep == ControlInv /\ [Next]_vars => ControlInv'
<1> SUFFICES ASSUME ControlInv, [Next]_vars PROVE ControlInv'
  OBVIOUS
<1>1. TypeOK'
  <2>1. OtherTypes'
    BY OtherTypesStep
  <2>2. QED
    BY <2>1, BookTypes, NetTypes DEF TypeOK, OtherTypes
<1>2. QED
  BY <1>1, OtherTypesStep, BalanceStep, IssuedStep, HeldStep, KeysStep, ForgottenStep,
     LatestStep, RetriesStep, AckStep, SeenStep DEF ControlInv

\* The invariant gives the four properties of the control plane.
LEMMA ControlImplies == ControlInv => OutcomesBalance /\ AcceptedWasApplied /\ RetriesDoNotRepeat /\ LetInOnce
<1> SUFFICES ASSUME ControlInv PROVE AcceptedWasApplied /\ LetInOnce
  BY DEF ControlInv
<1>1. AcceptedWasApplied
  BY DEF ControlInv, AckInv, AcceptedWasApplied
<1>2. ASSUME NEW m \in handled \cap net, Verified(m) PROVE FALSE
  <2>1. Abs(now - m.sentAt) <= Skew /\ \A e \in Remembered : e.nonce # m
    BY <1>2 DEF Verified
  <2>2. PICK e \in replay : e.nonce = m /\ e.seen <= now /\ Abs(e.seen - m.sentAt) <= Skew
    BY <1>2 DEF ControlInv, SeenInv
  <2>3. m.sentAt \in Int /\ e.seen \in Nat /\ now \in Nat /\ Skew \in Nat
    <3>1. m \in Datagrams /\ e \in [nonce : Datagrams, seen : 0 .. MaxTime]
      BY <1>2 DEF ControlInv, TypeOK
    <3>2. QED
      BY <3>1, ControlConstants DEF Datagrams, ControlInv, TypeOK
  <2>4. now - e.seen <= 2 * Skew
    BY <2>1, <2>2, <2>3 DEF Abs
  <2>5. QED
    BY <2>1, <2>2, <2>4 DEF Remembered, ReplayTtl
<1>3. QED
  BY <1>1, <1>2 DEF LetInOnce
-----------------------------------------------------------------------------
(***************************************************************************)
(* The sample assembler.                                                   *)
(***************************************************************************)
\* The window under construction lies on the timeline.
WindowInv ==
  /\ ordinal = window + Len(samples)
  /\ epoch = Absent => Idle /\ ordinal = 0
  /\ center = 0 => samples = <<>> /\ Idle
  /\ \A i \in 1 .. Len(samples) :
       ~samples[i].missing => /\ samples[i].time = epoch + 2 * (window + i - 1)
                              /\ samples[i].center = center
\* What is still to be appended continues it.
WorkInv == ~Idle => work.time = epoch + 2 * (ordinal + work.gap) /\ work.left > 0
\* The last spectrum of the run is where the counters say.
LastInv ==
  /\ \A k \in 1 .. Len(spectra) : Len(spectra[k].samples) = Size /\ (spectra[k].started => started)
  /\ spectra # <<>> /\ spectra[Len(spectra)].started = started =>
       window = spectra[Len(spectra)].ordinal + Hop + (skipped - spectra[Len(spectra)].discontinuities)
AssemblerInv ==
  /\ AssemblerTypeOK /\ WindowInv /\ WorkInv /\ LastInv /\ TimelineIsKept /\ DiscontinuitiesAddUp

\* What is assumed of the constants of the assembler.
LEMMA AssemblerConstants ==
  /\ Size \in Nat \ {0} /\ Hop \in Nat \ {0} /\ Hop <= Size /\ CountModulus \in Nat \ {0}
  /\ Epochs \subseteq Nat /\ Arrivals \subseteq Datagram
  BY AssemblerAssumption

\* Taking an element out of a sequence, or putting one in, leaves a sequence.
LEMMA RemoveAtType ==
  ASSUME NEW S, NEW s \in Seq(S), NEW i \in 1 .. Len(s)
  PROVE  RemoveAt(s, i) \in Seq(S)
<1>1. SubSeq(s, 1, i - 1) \in Seq(S) /\ SubSeq(s, i + 1, Len(s)) \in Seq(S)
  BY LenProperties, SubSeqProperties
<1>2. QED
  BY <1>1, ConcatProperties DEF RemoveAt
\* Putting an element in leaves a sequence.
LEMMA InsertAtType ==
  ASSUME NEW S, NEW s \in Seq(S), NEW i \in 1 .. Len(s) + 1, NEW e \in S
  PROVE  InsertAt(s, i, e) \in Seq(S)
<1>1. SubSeq(s, 1, i - 1) \in Seq(S) /\ SubSeq(s, i, Len(s)) \in Seq(S)
  BY LenProperties, SubSeqProperties
<1>2. <<e>> \in Seq(S)
  OBVIOUS
<1>3. QED
  BY <1>1, <1>2, ConcatProperties DEF InsertAt

\* The assembler begins in its invariant.
LEMMA AssemblerInitially == AssemblerInit => AssemblerInv
<1> SUFFICES ASSUME AssemblerInit PROVE AssemblerInv
  OBVIOUS
<1>1. AssemblerTypeOK
  <2>1. <<>> \in Seq(SampleRecord) /\ <<>> \in Seq(PacketRecord) /\ <<>> \in Seq(HintRecord) /\ <<>> \in Seq(SpectrumRecord)
    OBVIOUS
  <2>2. Len(samples) < Size /\ samples = <<>>
    BY AssemblerConstants DEF AssemblerInit
  <2>3. NoWork \in [gap : Nat, left : Nat, time : Nat]
    BY DEF NoWork
  <2>4. QED
    BY <2>1, <2>2, <2>3 DEF AssemblerInit, AssemblerTypeOK
<1>2. WindowInv /\ WorkInv /\ LastInv
  BY DEF AssemblerInit, WindowInv, WorkInv, LastInv, Idle, NoWork
<1>3. TimelineIsKept /\ DiscontinuitiesAddUp
  BY DEF AssemblerInit, TimelineIsKept, DiscontinuitiesAddUp
<1>4. QED
  BY <1>1, <1>2, <1>3 DEF AssemblerInv

\* lower_bound finds a place.
LEMMA PlaceExists ==
  ASSUME pending \in Seq(PacketRecord), NEW t \in Nat
  PROVE  \E i \in 1 .. Len(pending) + 1 : /\ \A j \in 1 .. i - 1 : pending[j].time < t
                                          /\ i <= Len(pending) => t <= pending[i].time
<1> DEFINE T == {i \in 1 .. Len(pending) + 1 : i <= Len(pending) => t <= pending[i].time}
<1>1. T \subseteq Nat /\ Len(pending) + 1 \in T
  OBVIOUS
<1>2. PICK i \in T : \A y \in T : i <= y
  BY <1>1, LeastElement
<1>3. \A j \in 1 .. i - 1 : pending[j].time < t
  <2> TAKE j \in 1 .. i - 1
  <2>1. j \in 1 .. Len(pending) /\ ~(j \in T)
    BY <1>2
  <2>2. pending[j] \in PacketRecord
    BY <2>1
  <2>3. pending[j].time \in Nat
    BY <2>2 DEF PacketRecord
  <2>4. QED
    BY <2>1, <2>3
<1>4. QED
  BY <1>2, <1>3

\* What the timeline rests on.
timelineVars == <<epoch, started, ordinal, window, samples, work, center, skipped, spectra>>
\* A step that leaves the timeline alone keeps the invariant.
LEMMA TimelineUntouched ==
  ASSUME AssemblerInv, AssemblerTypeOK', UNCHANGED timelineVars
  PROVE  AssemblerInv'
<1>1. WindowInv' /\ WorkInv'
  BY DEF AssemblerInv, timelineVars, WindowInv, WorkInv, Idle
<1>2. LastInv'
  BY DEF AssemblerInv, timelineVars, LastInv
<1>3. TimelineIsKept' /\ DiscontinuitiesAddUp'
  BY DEF AssemblerInv, timelineVars, TimelineIsKept, DiscontinuitiesAddUp
<1>4. QED
  BY <1>1, <1>2, <1>3 DEF AssemblerInv

\* A new epoch begins an empty timeline (start_epoch).
LEMMA StartEpochStep == AssemblerInv /\ StartEpoch => AssemblerInv'
<1> SUFFICES ASSUME AssemblerInv, StartEpoch PROVE AssemblerInv'
  OBVIOUS
<1> USE DEF StartEpoch
<1>1. AssemblerTypeOK'
  <2>1. <<>> \in Seq(SampleRecord) /\ <<>> \in Seq(PacketRecord) /\ <<>> \in Seq(HintRecord) /\ Len(<<>>) = 0
    OBVIOUS
  <2>2. epoch' \in Nat
    BY AssemblerConstants
  <2>3. QED
    BY <2>1, <2>2, AssemblerConstants DEF AssemblerInv, AssemblerTypeOK
<1>2. WindowInv' /\ WorkInv'
  <2>1. epoch' \in Nat
    BY AssemblerConstants
  <2>2. Idle'
    BY DEF Idle
  <2>3. QED
    BY <2>1, <2>2 DEF WindowInv, WorkInv, Absent
<1>3. LastInv'
  <2>1. spectra \in Seq(SpectrumRecord) /\ spectra' = spectra /\ started = FALSE /\ started' = TRUE
    BY DEF AssemblerInv, AssemblerTypeOK
  <2>2. spectra # <<>> => Len(spectra) \in 1 .. Len(spectra)
    BY <2>1
  <2>3. QED
    BY <2>1, <2>2 DEF AssemblerInv, LastInv
<1>4. TimelineIsKept' /\ DiscontinuitiesAddUp'
  BY DEF AssemblerInv, TimelineIsKept, DiscontinuitiesAddUp
<1>5. QED
  BY <1>1, <1>2, <1>3, <1>4 DEF AssemblerInv

\* A context packet only adds a hint (observe_context).
LEMMA ObserveStep ==
  ASSUME AssemblerInv, NEW d \in Arrivals, Observe(d)
  PROVE  AssemblerInv'
<1>1. AssemblerTypeOK'
  <2>1. [time |-> d.time, count |-> d.count] \in HintRecord
    BY AssemblerConstants DEF Datagram, HintRecord
  <2>2. hints \in Seq(HintRecord)
    BY DEF AssemblerInv, AssemblerTypeOK
  <2>3. Len(hints) = HintLimit => Tail(hints) \in Seq(HintRecord)
    BY <2>2, AssemblerAssumption
  <2>4. hints' \in Seq(HintRecord)
    BY <2>1, <2>2, <2>3, AppendProperties DEF Observe
  <2>5. QED
    BY <2>4 DEF Observe, AssemblerInv, AssemblerTypeOK
<1>2. QED
  BY <1>1, TimelineUntouched DEF Observe, timelineVars

\* A data packet is queued in its place (push).
LEMMA ReceiveStep ==
  ASSUME AssemblerInv, NEW d \in held, NEW condition \in Conditions, Receive(d, condition)
  PROVE  AssemblerInv'
<1>0. AssemblerTypeOK
  BY DEF AssemblerInv
<1>1. AssemblerTypeOK'
  <2> DEFINE packet == [time |-> d.time, center |-> d.center, length |-> d.length,
                        count |-> hints[FirstHint(d)].count, old |-> FALSE]
  <2>1. d \in Datagram
    BY <1>0, AssemblerConstants DEF AssemblerTypeOK
  <2>2. ASSUME HintsOf(d) # {} PROVE FirstHint(d) \in 1 .. Len(hints)
    <3>1. HintsOf(d) \subseteq 1 .. Len(hints)
      BY <1>0 DEF AssemblerTypeOK, HintsOf
    <3>2. \E i \in HintsOf(d) : \A j \in HintsOf(d) : i <= j
      <4>1. HintsOf(d) \subseteq Nat
        BY <3>1
      <4>2. QED
        BY <4>1, <2>2, LeastElement
    <3>3. QED
      BY <3>1, <3>2 DEF FirstHint
  <2>3. ASSUME HintsOf(d) # {} PROVE packet \in PacketRecord /\ RemoveAt(hints, FirstHint(d)) \in Seq(HintRecord)
    <3>1. hints[FirstHint(d)] \in HintRecord
      BY <1>0, <2>2, <2>3 DEF AssemblerTypeOK
    <3>2. packet \in PacketRecord
      BY <2>1, <3>1 DEF Datagram, HintRecord, PacketRecord
    <3>3. QED
      BY <1>0, <2>2, <2>3, <3>2, RemoveAtType DEF AssemblerTypeOK
  <2>4. hints' \in Seq(HintRecord)
    BY <1>0, <2>3 DEF AssemblerTypeOK, Receive
  <2>5. Place(d.time) \in 1 .. Len(pending) + 1
    <3>1. pending \in Seq(PacketRecord) /\ d.time \in Nat
      BY <1>0, <2>1 DEF AssemblerTypeOK, Datagram
    <3>2. QED
      BY <3>1, PlaceExists DEF Place
  <2>6. pending' \in Seq(PacketRecord)
    BY <1>0, <2>3, <2>5, InsertAtType DEF AssemblerTypeOK, Receive
  <2>7. QED
    BY <1>0, <2>4, <2>6, SMTT(60) DEF AssemblerTypeOK, Receive
<1>2. QED
  BY <1>1, TimelineUntouched DEF Receive, timelineVars

\* A packet that waited too long is given up.
LEMMA AgeStep == AssemblerInv /\ Age => AssemblerInv'
<1> SUFFICES ASSUME AssemblerInv, Age PROVE AssemblerInv'
  OBVIOUS
<1>1. PICK i \in DOMAIN pending : pending' = [pending EXCEPT ![i].old = TRUE]
  BY DEF Age
<1>2. pending \in Seq(PacketRecord) /\ i \in 1 .. Len(pending)
  BY <1>1 DEF AssemblerInv, AssemblerTypeOK
<1>3. [pending[i] EXCEPT !.old = TRUE] \in PacketRecord
  <2>1. pending[i] \in PacketRecord
    BY <1>2
  <2>2. QED
    BY <2>1 DEF PacketRecord
<1>4. pending' = [pending EXCEPT ![i] = [pending[i] EXCEPT !.old = TRUE]]
  BY <1>1
<1>5. pending' \in Seq(PacketRecord)
  BY <1>2, <1>3, <1>4, ExceptSeq
<1>6. QED
  BY <1>5, TimelineUntouched DEF Age, timelineVars, AssemblerInv, AssemblerTypeOK

\* What consume computes of the first packet.
LEMMA FirstPacket ==
  ASSUME AssemblerInv, pending # <<>>
  PROVE  /\ pending[1] \in PacketRecord /\ Tail(pending) \in Seq(PacketRecord)
         /\ First \in Nat /\ At \in Int
<1>1. pending \in Seq(PacketRecord) /\ epoch \in Nat \cup {Absent}
  BY DEF AssemblerInv, AssemblerTypeOK
<1>2. pending[1] \in PacketRecord /\ Tail(pending) \in Seq(PacketRecord)
  BY <1>1
<1>3. pending[1].time \in Nat
  BY <1>2 DEF PacketRecord
<1>4. QED
  BY <1>1, <1>2, <1>3 DEF First, At

\* Taking the first packet up keeps the samples on the timeline (consume).
LEMMA ConsumeStep == AssemblerInv /\ Consume => AssemblerInv'
<1> SUFFICES ASSUME AssemblerInv, Consume PROVE AssemblerInv'
  OBVIOUS
<1> DEFINE p == pending[1]
<1>0. /\ p \in PacketRecord /\ Tail(pending) \in Seq(PacketRecord)
      /\ First \in Nat /\ At \in Int /\ epoch' = First /\ pending' = Tail(pending)
  BY FirstPacket DEF Consume
<1>1. /\ ordinal \in Nat /\ window \in Nat /\ samples \in Seq(SampleRecord) /\ Len(samples) \in Nat
      /\ skipped \in Nat /\ ordinal = window + Len(samples) /\ Idle
      /\ p.time \in Nat /\ p.center \in Nat \ {0} /\ p.length \in Nat \ {0} /\ p.count \in 0 .. CountModulus - 1
      /\ sequenceGaps \in Nat
  <2>1. p.time \in Nat /\ p.center \in Nat \ {0} /\ p.length \in Nat \ {0} /\ p.count \in 0 .. CountModulus - 1
    BY <1>0 DEF PacketRecord
  <2>2. /\ ordinal \in Nat /\ window \in Nat /\ samples \in Seq(SampleRecord) /\ skipped \in Nat
        /\ sequenceGaps \in Nat
    BY DEF AssemblerInv, AssemblerTypeOK
  <2>3. ordinal = window + Len(samples) /\ Idle
    BY DEF AssemblerInv, WindowInv, Consume
  <2>4. QED
    BY <2>1, <2>2, <2>3
<1>2. epoch # Absent => epoch' = epoch
  BY <1>0 DEF First
<1>3. epoch = Absent => samples = <<>>
  <2>1. epoch = Absent => Len(samples) = 0
    BY <1>1 DEF AssemblerInv, WindowInv
  <2>2. QED
    BY <1>1, <2>1, EmptySeq
<1>4. TimelineIsKept' /\ DiscontinuitiesAddUp'
  BY DEF Consume, AssemblerInv, TimelineIsKept, DiscontinuitiesAddUp
<1>5. CASE TooLate \/ OffGrid
  <2>1. /\ UNCHANGED <<started, ordinal, window, samples, work, count, center, skipped, sequenceGaps, spectra>>
        /\ duplicates' \in Nat /\ invalid' \in Nat /\ UNCHANGED <<hints, held, datagrams>>
    <3>1. duplicates \in Nat /\ invalid \in Nat
      BY DEF AssemblerInv, AssemblerTypeOK
    <3>2. QED
      BY <1>5, <3>1 DEF Consume
  <2>2. AssemblerTypeOK'
    BY <1>0, <2>1 DEF AssemblerInv, AssemblerTypeOK
  <2>3. WindowInv' /\ WorkInv'
    <3>1. epoch' \in Nat /\ epoch' # Absent /\ Idle'
      BY <1>0, <1>1, <2>1 DEF Idle, Absent
    <3>2. \A i \in 1 .. Len(samples) :
            ~samples[i].missing => samples[i].time = epoch' + 2 * (window + i - 1) /\ samples[i].center = center
      BY <1>2, <1>3 DEF AssemblerInv, WindowInv
    <3>3. QED
      BY <1>1, <2>1, <3>1, <3>2 DEF AssemblerInv, WindowInv, WorkInv
  <2>4. LastInv'
    BY <2>1 DEF AssemblerInv, LastInv
  <2>5. QED
    BY <1>4, <2>2, <2>3, <2>4 DEF AssemblerInv
<1>6. CASE ~TooLate /\ ~OffGrid
  <2>1. /\ AcceptPacket /\ UNCHANGED <<duplicates, invalid, started, hints, held, spectra, datagrams>>
        /\ At >= ordinal /\ First + 2 * At = p.time
    BY <1>6, <1>0, <1>1 DEF Consume, TooLate, OffGrid
  <2>2. count' \in 0 .. CountModulus - 1 /\ center' = p.center /\ center' # 0 /\ sequenceGaps' \in Nat
    BY <1>1, <2>1 DEF AcceptPacket
  <2>3. CASE Breaks
    <3>1. /\ skipped' = skipped + ((At - ordinal) + Len(samples)) /\ samples' = <<>> /\ ordinal' = At
          /\ window' = At /\ work' = [gap |-> 0, left |-> p.length, time |-> p.time]
      BY <2>1, <2>3 DEF AcceptPacket, Skips
    <3>2. At \in Nat /\ skipped' \in Nat /\ work' \in [gap : Nat, left : Nat, time : Nat]
          /\ <<>> \in Seq(SampleRecord) /\ Len(<<>>) = 0
      BY <1>0, <1>1, <2>1, <3>1
    <3>3. AssemblerTypeOK'
      <4>1. Len(samples') < Size /\ samples' \in Seq(SampleRecord) /\ ordinal' \in Nat /\ window' \in Nat
        BY <3>1, <3>2, AssemblerConstants
      <4>2. QED
        BY <1>0, <1>1, <2>1, <2>2, <3>2, <4>1 DEF AssemblerInv, AssemblerTypeOK
    <3>4. WindowInv' /\ WorkInv'
      <4>1. epoch' \in Nat /\ epoch' # Absent /\ Len(samples') = 0
        BY <1>0, <3>1, <3>2 DEF Absent
      <4>2. WindowInv'
        BY <1>1, <2>2, <3>1, <3>2, <4>1 DEF WindowInv
      <4>3. work'.time = p.time /\ work'.gap = 0 /\ work'.left = p.length
        BY <3>1
      <4>4. QED
        BY <1>0, <1>1, <2>1, <3>1, <3>2, <4>2, <4>3 DEF WorkInv
    <3>5. LastInv'
      <4>1. spectra \in Seq(SpectrumRecord)
        BY DEF AssemblerInv, AssemblerTypeOK
      <4>2. ASSUME spectra # <<>>
            PROVE  spectra[Len(spectra)].ordinal \in Nat /\ spectra[Len(spectra)].discontinuities \in Nat
        <5>1. spectra[Len(spectra)] \in SpectrumRecord
          BY <4>1, <4>2
        <5>2. QED
          BY <5>1 DEF SpectrumRecord
      <4>3. QED
        <5>1. spectra' = spectra /\ started' = started /\ window' = window + (skipped' - skipped)
          BY <1>0, <1>1, <2>1, <3>1, <3>2
        <5>2. ASSUME spectra # <<>>, spectra[Len(spectra)].started = started
              PROVE  window' = spectra[Len(spectra)].ordinal + Hop
                               + (skipped' - spectra[Len(spectra)].discontinuities)
          <6>1. window = spectra[Len(spectra)].ordinal + Hop
                         + (skipped - spectra[Len(spectra)].discontinuities)
            BY <5>2 DEF AssemblerInv, LastInv
          <6>2. spectra[Len(spectra)].ordinal \in Nat /\ spectra[Len(spectra)].discontinuities \in Nat
            BY <4>2, <5>2
          <6>3. skipped \in Nat /\ skipped' \in Nat /\ window \in Nat /\ Hop \in Nat
            BY <1>1, <3>2, AssemblerConstants
          <6>4. window' = window + (skipped' - skipped)
            BY <5>1
          <6> DEFINE o == spectra[Len(spectra)].ordinal  d == spectra[Len(spectra)].discontinuities
          <6> HIDE DEF o, d
          <6>5. o \in Nat /\ d \in Nat /\ window = o + Hop + (skipped - d)
            BY <6>1, <6>2 DEF o, d
          <6>6. window' = o + Hop + (skipped' - d)
            BY <6>3, <6>4, <6>5
          <6>7. QED
            BY <6>6 DEF o, d
        <5>3. QED
          BY <5>1, <5>2 DEF AssemblerInv, LastInv
    <3>6. QED
      BY <1>4, <3>3, <3>4, <3>5 DEF AssemblerInv
  <2>4. CASE ~Breaks
    <3>1. /\ work' = [gap |-> At - ordinal, left |-> p.length, time |-> p.time]
          /\ UNCHANGED <<skipped, samples, ordinal, window>> /\ ~Retuned
      BY <2>1, <2>4 DEF AcceptPacket, Breaks
    <3>2. work' \in [gap : Nat, left : Nat, time : Nat]
      BY <1>0, <1>1, <2>1, <3>1, SMTT(60)
    <3>3. AssemblerTypeOK'
      BY <1>0, <1>1, <2>1, <2>2, <3>1, <3>2 DEF AssemblerInv, AssemblerTypeOK
    <3>4. center = center' \/ samples = <<>>
      BY <2>2, <3>1 DEF Retuned, AssemblerInv, WindowInv
    <3>5. WindowInv' /\ WorkInv'
      <4>1. epoch' \in Nat /\ epoch' # Absent
        BY <1>0 DEF Absent
      <4>2. \A i \in 1 .. Len(samples) :
              ~samples[i].missing => samples[i].time = epoch' + 2 * (window + i - 1) /\ samples[i].center = center'
        BY <1>2, <1>3, <3>4 DEF AssemblerInv, WindowInv
      <4>3. WindowInv'
        BY <1>1, <2>2, <3>1, <4>1, <4>2 DEF WindowInv
      <4>4. work'.time = p.time /\ work'.gap = At - ordinal /\ work'.left = p.length
        BY <3>1
      <4>5. QED
        BY <1>0, <1>1, <2>1, <3>1, <4>3, <4>4, SMTT(60) DEF WorkInv
    <3>6. LastInv'
      BY <2>1, <3>1 DEF AssemblerInv, LastInv
    <3>7. QED
      BY <1>4, <3>3, <3>5, <3>6 DEF AssemblerInv
  <2>5. QED
    BY <2>3, <2>4
<1>7. QED
  BY <1>5, <1>6

\* The sample that append adds is of its place on the timeline.
LEMMA GrownIsKept ==
  ASSUME AssemblerInv, ~Idle
  PROVE  /\ epoch \in Nat /\ center # 0 /\ Grown \in Seq(SampleRecord) /\ Len(Grown) = Len(samples) + 1
         /\ \A i \in 1 .. Len(Grown) :
              ~Grown[i].missing => /\ Grown[i].time = epoch + 2 * (window + i - 1)
                                   /\ Grown[i].center = center
<1>1. /\ samples \in Seq(SampleRecord) /\ work \in [gap : Nat, left : Nat, time : Nat] /\ center \in Nat
      /\ ordinal \in Nat /\ window \in Nat /\ epoch \in Nat \cup {Absent}
  BY DEF AssemblerInv, AssemblerTypeOK
<1>2. epoch \in Nat /\ center # 0 /\ ordinal = window + Len(samples)
      /\ work.time = epoch + 2 * (ordinal + work.gap)
  BY <1>1 DEF AssemblerInv, WindowInv, WorkInv
<1>3. Sample \in SampleRecord
  BY <1>1 DEF Sample, Missing, SampleRecord
<1>4. /\ Grown \in Seq(SampleRecord) /\ Len(Grown) = Len(samples) + 1 /\ Grown[Len(samples) + 1] = Sample
      /\ \A i \in 1 .. Len(samples) : Grown[i] = samples[i]
  BY <1>1, <1>3, AppendProperties DEF Grown
<1>5. ~Sample.missing => Sample.time = epoch + 2 * (window + (Len(samples) + 1) - 1) /\ Sample.center = center
  <2>1. CASE work.gap > 0
    BY <2>1 DEF Sample, Missing
  <2>2. CASE ~(work.gap > 0)
    <3>1. Sample.time = work.time /\ Sample.center = center
      BY <2>2 DEF Sample
    <3>2. work.gap = 0
      BY <1>1, <2>2
    <3>3. QED
      BY <1>1, <1>2, <3>1, <3>2
  <2>3. QED
    BY <2>1, <2>2
<1>6. ASSUME NEW i \in 1 .. Len(Grown), ~Grown[i].missing
      PROVE  Grown[i].time = epoch + 2 * (window + i - 1) /\ Grown[i].center = center
  <2>1. CASE i = Len(samples) + 1
    BY <1>4, <1>5, <1>6, <2>1
  <2>2. CASE i # Len(samples) + 1
    <3>1. i \in 1 .. Len(samples)
      BY <1>1, <1>4, <1>6, <2>2
    <3>2. QED
      BY <1>4, <1>6, <3>1 DEF AssemblerInv, WindowInv
  <2>3. QED
    BY <2>1, <2>2
<1>7. QED
  BY <1>2, <1>4, <1>6

\* Appending a sample, and emitting a window that is full, keeps the invariant
\* (append).
LEMMA AppendSampleStep == AssemblerInv /\ AppendSample => AssemblerInv'
<1> SUFFICES ASSUME AssemblerInv, AppendSample PROVE AssemblerInv'
  OBVIOUS
<1>1. /\ epoch \in Nat /\ center # 0 /\ Grown \in Seq(SampleRecord) /\ Len(Grown) = Len(samples) + 1
      /\ \A i \in 1 .. Len(Grown) :
           ~Grown[i].missing => /\ Grown[i].time = epoch + 2 * (window + i - 1)
                                /\ Grown[i].center = center
  BY GrownIsKept DEF AppendSample
<1>2. /\ samples \in Seq(SampleRecord) /\ Len(samples) \in Nat /\ Len(samples) < Size
      /\ work \in [gap : Nat, left : Nat, time : Nat] /\ center \in Nat /\ skipped \in Nat /\ started \in BOOLEAN
      /\ ordinal \in Nat /\ window \in Nat /\ spectra \in Seq(SpectrumRecord)
  BY DEF AssemblerInv, AssemblerTypeOK
<1>3. /\ ordinal = window + Len(samples) /\ ~Idle
      /\ work.time = epoch + 2 * (ordinal + work.gap) /\ work.left > 0
  BY DEF AssemblerInv, WindowInv, WorkInv, AppendSample
<1>4. /\ ordinal' = ordinal + 1 /\ ordinal' \in Nat
      /\ UNCHANGED <<epoch, started, pending, hints, held, count, center, duplicates, invalid, skipped,
                     sequenceGaps, datagrams>>
  BY <1>2 DEF AppendSample
<1>5. work' \in [gap : Nat, left : Nat, time : Nat] /\ WorkInv'
  <2>1. CASE work.gap > 0
    <3>1. work' = [work EXCEPT !.gap = @ - 1]
      BY <2>1 DEF AppendSample
    <3>2. work'.gap = work.gap - 1 /\ work'.left = work.left /\ work'.time = work.time
          /\ work' \in [gap : Nat, left : Nat, time : Nat]
      BY <1>2, <2>1, <3>1
    <3>3. QED
      BY <1>1, <1>2, <1>3, <1>4, <3>2 DEF WorkInv
  <2>2. CASE ~(work.gap > 0)
    <3>1. work' = [work EXCEPT !.left = @ - 1, !.time = @ + 2]
      BY <2>2 DEF AppendSample
    <3>2. work'.gap = 0 /\ work.gap = 0 /\ work'.left = work.left - 1 /\ work'.time = work.time + 2
          /\ work' \in [gap : Nat, left : Nat, time : Nat]
      <4>1. work.gap \in Nat /\ work.left \in Nat /\ work.time \in Nat
        BY <1>2
      <4>2. work.gap = 0 /\ work.left - 1 \in Nat /\ work.time + 2 \in Nat
        BY <1>3, <2>2, <4>1
      <4>3. QED
        BY <1>2, <3>1, <4>2
    <3>3. work'.left = 0 => Idle'
      BY <3>2 DEF Idle
    <3>4. QED
      BY <1>1, <1>2, <1>3, <1>4, <3>2, <3>3, SMTT(60) DEF WorkInv
  <2>3. QED
    BY <2>1, <2>2
<1>6. epoch' # Absent /\ center' # 0
  BY <1>1, <1>4 DEF Absent
<1>7. CASE Len(Grown) < Size
  <2>1. samples' = Grown /\ window' = window /\ spectra' = spectra
    BY <1>7 DEF AppendSample
  <2>2. AssemblerTypeOK'
    BY <1>1, <1>2, <1>4, <1>5, <1>7, <2>1 DEF AssemblerInv, AssemblerTypeOK
  <2>3. WindowInv'
    <3>1. ordinal' = window' + Len(samples')
      <4>1. /\ ordinal' = ordinal + 1 /\ ordinal = window + Len(samples)
            /\ window' = window /\ Len(samples') = Len(samples) + 1
        BY <1>1, <1>3, <1>4, <2>1
      <4>2. ordinal \in Nat /\ window \in Nat /\ Len(samples) \in Nat
        BY <1>2
      <4>3. QED
        BY <4>1, <4>2
    <3>2. \A i \in 1 .. Len(samples') :
            ~samples'[i].missing => /\ samples'[i].time = epoch' + 2 * (window' + i - 1)
                                    /\ samples'[i].center = center'
      BY <1>1, <1>4, <2>1
    <3>3. QED
      BY <1>6, <3>1, <3>2 DEF WindowInv
  <2>4. LastInv' /\ TimelineIsKept' /\ DiscontinuitiesAddUp'
    BY <1>4, <2>1 DEF AssemblerInv, LastInv, TimelineIsKept, DiscontinuitiesAddUp
  <2>5. QED
    BY <1>5, <2>2, <2>3, <2>4 DEF AssemblerInv
<1>8. CASE ~(Len(Grown) < Size)
  <2>1. /\ spectra' = Append(spectra, Spectrum) /\ window' = window + Hop
        /\ samples' = SubSeq(Grown, Hop + 1, Len(Grown)) /\ Len(Grown) = Size
    <3>1. Len(Grown) = Size
      <4>1. Size \in Nat /\ Len(samples) \in Nat /\ Len(samples) < Size /\ Len(Grown) = Len(samples) + 1
        BY <1>1, <1>2, AssemblerConstants
      <4>2. QED
        BY <1>8, <4>1
    <3>2. QED
      BY <1>8, <3>1 DEF AppendSample
  <2>2. /\ samples' \in Seq(SampleRecord) /\ Len(samples') = Size - Hop
        /\ \A i \in 1 .. Len(samples') : samples'[i] = Grown[Hop + i]
    <3>1. \A i \in Hop + 1 .. Size : Grown[i] \in SampleRecord
      BY <1>1, <2>1, AssemblerConstants
    <3>2. /\ SubSeq(Grown, Hop + 1, Size) \in Seq(SampleRecord)
          /\ Len(SubSeq(Grown, Hop + 1, Size)) = IF Hop + 1 <= Size THEN Size - (Hop + 1) + 1 ELSE 0
          /\ \A i \in 1 .. Size - (Hop + 1) + 1 : SubSeq(Grown, Hop + 1, Size)[i] = Grown[(Hop + 1) + i - 1]
      BY <3>1, SubSeqProperties, AssemblerConstants
    <3>3. QED
      BY <2>1, <3>2, AssemblerConstants
  <2>3. Spectrum \in SpectrumRecord
    BY <1>1, <1>2 DEF Spectrum, SpectrumRecord
  <2>4. /\ spectra' \in Seq(SpectrumRecord) /\ Len(spectra') = Len(spectra) + 1
        /\ spectra'[Len(spectra) + 1] = Spectrum /\ \A k \in 1 .. Len(spectra) : spectra'[k] = spectra[k]
    BY <1>2, <2>1, <2>3, AppendProperties
  <2>5. AssemblerTypeOK'
    <3>1. window' \in Nat /\ Len(samples') < Size
      BY <1>2, <2>1, <2>2, AssemblerConstants, SMTT(60)
    <3>2. QED
      BY <1>4, <1>5, <2>2, <2>4, <3>1 DEF AssemblerInv, AssemblerTypeOK
  <2>6. WindowInv'
    <3>1. ordinal' = window' + Len(samples')
      <4>1. /\ ordinal' = ordinal + 1 /\ ordinal = window + Len(samples) /\ Len(samples) + 1 = Size
            /\ window' = window + Hop /\ Len(samples') = Size - Hop
        BY <1>1, <1>3, <1>4, <2>1, <2>2
      <4>2. ordinal \in Nat /\ window \in Nat /\ Len(samples) \in Nat /\ Size \in Nat /\ Hop \in Nat
        BY <1>2, AssemblerConstants
      <4>3. QED
        BY <4>1, <4>2
    <3>2. ASSUME NEW i \in 1 .. Len(samples'), ~samples'[i].missing
          PROVE  samples'[i].time = epoch' + 2 * (window' + i - 1) /\ samples'[i].center = center'
      <4>1. Hop + i \in 1 .. Len(Grown) /\ samples'[i] = Grown[Hop + i]
        BY <2>1, <2>2, AssemblerConstants
      <4>2. Grown[Hop + i].time = epoch + 2 * (window + (Hop + i) - 1) /\ Grown[Hop + i].center = center
        BY <1>1, <3>2, <4>1
      <4>3. QED
        BY <1>1, <1>2, <1>4, <2>1, <4>1, <4>2, AssemblerConstants
    <3>3. QED
      BY <1>6, <3>1, <3>2 DEF WindowInv
  <2>7. /\ Spectrum.started = started /\ Spectrum.ordinal = window /\ Spectrum.discontinuities = skipped
        /\ Spectrum.epoch = epoch /\ Spectrum.center = center /\ Spectrum.samples = Grown
    BY DEF Spectrum
  <2>8. LastInv'
    <3>1. ASSUME NEW k \in 1 .. Len(spectra')
          PROVE  Len(spectra'[k].samples) = Size /\ (spectra'[k].started => started')
      <4>1. CASE k = Len(spectra) + 1
        BY <1>4, <2>1, <2>4, <2>7, <4>1
      <4>2. CASE k # Len(spectra) + 1
        <5>1. k \in 1 .. Len(spectra)
          BY <1>2, <2>4, <4>2
        <5>2. QED
          BY <1>4, <2>4, <5>1 DEF AssemblerInv, LastInv
      <4>3. QED
        BY <4>1, <4>2
    <3>2. window' = Spectrum.ordinal + Hop + (skipped' - Spectrum.discontinuities)
      BY <1>2, <1>4, <2>1, <2>7, AssemblerConstants
    <3>3. QED
      BY <2>4, <3>1, <3>2 DEF LastInv
  <2>9. TimelineIsKept'
    <3> SUFFICES ASSUME NEW k \in DOMAIN spectra', NEW i \in 1 .. Size, ~spectra'[k].samples[i].missing
                 PROVE  /\ spectra'[k].samples[i].time = spectra'[k].epoch + 2 * (spectra'[k].ordinal + i - 1)
                        /\ spectra'[k].samples[i].center = spectra'[k].center
      BY DEF TimelineIsKept
    <3>1. CASE k = Len(spectra) + 1
      BY <1>1, <2>1, <2>4, <2>7, <3>1
    <3>2. CASE k # Len(spectra) + 1
      <4>1. k \in DOMAIN spectra /\ spectra'[k] = spectra[k]
        BY <1>2, <2>4, <3>2
      <4>2. QED
        BY <4>1 DEF AssemblerInv, TimelineIsKept
    <3>3. QED
      BY <3>1, <3>2
  <2>10. DiscontinuitiesAddUp'
    <3> SUFFICES ASSUME NEW k \in 1 .. Len(spectra') - 1, spectra'[k].started = spectra'[k + 1].started
                 PROVE  spectra'[k + 1].ordinal =
                          spectra'[k].ordinal + Hop + (spectra'[k + 1].discontinuities - spectra'[k].discontinuities)
      BY DEF DiscontinuitiesAddUp
    <3>1. k \in 1 .. Len(spectra) /\ spectra'[k] = spectra[k]
      BY <1>2, <2>4
    <3>2. CASE k = Len(spectra)
      <4>1. spectra # <<>> /\ spectra[Len(spectra)].started = started /\ spectra'[k + 1] = Spectrum
        BY <1>2, <2>4, <2>7, <3>1, <3>2
      <4>2. QED
        BY <2>7, <3>1, <3>2, <4>1 DEF AssemblerInv, LastInv
    <3>3. CASE k # Len(spectra)
      <4>1. k \in 1 .. Len(spectra) - 1 /\ spectra'[k + 1] = spectra[k + 1]
        BY <1>2, <2>4, <3>1, <3>3
      <4>2. QED
        BY <3>1, <4>1 DEF AssemblerInv, DiscontinuitiesAddUp
    <3>4. QED
      BY <3>2, <3>3
  <2>11. QED
    BY <1>5, <2>5, <2>6, <2>8, <2>9, <2>10 DEF AssemblerInv
<1>9. QED
  BY <1>7, <1>8

\* Every step of the assembler keeps its invariant.
LEMMA AssemblerStep == AssemblerInv /\ [AssemblerNext]_assemblerVars => AssemblerInv'
<1> SUFFICES ASSUME AssemblerInv, [AssemblerNext]_assemblerVars PROVE AssemblerInv'
  OBVIOUS
<1>1. CASE UNCHANGED assemblerVars
  <2>1. AssemblerTypeOK'
    BY <1>1 DEF assemblerVars, AssemblerInv, AssemblerTypeOK
  <2>2. QED
    BY <1>1, <2>1, TimelineUntouched DEF assemblerVars, timelineVars
<1>2. QED
  BY <1>1, StartEpochStep, AgeStep, ConsumeStep, AppendSampleStep, ObserveStep, ReceiveStep DEF AssemblerNext
-----------------------------------------------------------------------------
(***************************************************************************)
(* The radio controller.                                                   *)
(***************************************************************************)
\* Whatever speaks of a configured radio was said after it took its settings.
AuthoredInv ==
  \A s \in Streams :
    /\ configured[s] => authored[s]
    /\ \A i \in 1 .. Len(toHost[s]) : toHost[s][i].state => authored[s]
    /\ \A i \in 1 .. Len(toRadio[s]) : toRadio[s][i].kind = "start" => authored[s]
RadioControlInv == RadioControlTypeOK /\ AuthoredInv /\ StartedAsAuthored

\* What is assumed of the constants of the radio controller.
LEMMA RadioConstants ==
  /\ Reconnect \in BOOLEAN /\ MaxAttempts \in Nat \ {0} /\ MaxCommands \in Nat \ {0} /\ MaxBreaks \in Nat
  BY RadioControlAssumption

\* The controller begins in its invariant.
LEMMA RadioControlInitially == RadioControlInit => RadioControlInv
<1> SUFFICES ASSUME RadioControlInit PROVE RadioControlInv
  OBVIOUS
<1>1. RadioControlTypeOK
  <2>1. <<>> \in Seq(CommandRecord) /\ <<>> \in Seq(ReplyRecord)
    OBVIOUS
  <2>2. 0 \in 0 .. MaxAttempts /\ 0 \in 0 .. MaxCommands /\ 0 \in 0 .. MaxBreaks
    BY RadioConstants
  <2>3. QED
    BY <2>1, <2>2 DEF RadioControlInit, RadioControlTypeOK
<1>2. AuthoredInv /\ StartedAsAuthored
  BY DEF RadioControlInit, AuthoredInv, StartedAsAuthored
<1>3. QED
  BY <1>1, <1>2 DEF RadioControlInv

\* A command has a number the model provides for, and keeps the queue in type.
LEMMA CommandType ==
  ASSUME RadioControlTypeOK, NEW s \in Streams, NEW kind \in {"configure", "status", "start"}, Command(s, kind)
  PROVE  /\ transactions' \in [Streams -> 0 .. MaxCommands] /\ toRadio' \in [Streams -> Seq(CommandRecord)]
         /\ [query EXCEPT ![s] = transactions[s] + 1] \in [Streams -> 0 .. MaxCommands]
<1>1. /\ transactions[s] \in 0 .. MaxCommands /\ toRadio[s] \in Seq(CommandRecord)
      /\ transactions \in [Streams -> 0 .. MaxCommands] /\ toRadio \in [Streams -> Seq(CommandRecord)]
      /\ query \in [Streams -> 0 .. MaxCommands]
  BY DEF RadioControlTypeOK
<1>2. transactions[s] + 1 \in 1 .. MaxCommands /\ transactions[s] + 1 \in 0 .. MaxCommands
  BY <1>1, RadioConstants DEF Command
<1>3. [kind |-> kind, transaction |-> transactions[s] + 1] \in CommandRecord
  BY <1>2 DEF CommandRecord
<1>4. Append(toRadio[s], [kind |-> kind, transaction |-> transactions[s] + 1]) \in Seq(CommandRecord)
  BY <1>1, <1>3, AppendProperties
<1>5. QED
  BY <1>1, <1>2, <1>4 DEF Command

\* A lost connection leaves the types alone.
LEMMA DisconnectType ==
  ASSUME RadioControlTypeOK, NEW s \in Streams, Disconnect(s)
  PROVE  /\ link' \in [Streams -> {"none", "connecting", "up"}]
         /\ authored' \in [Streams -> BOOLEAN] /\ running' \in [Streams -> BOOLEAN]
         /\ toRadio' \in [Streams -> Seq(CommandRecord)] /\ toHost' \in [Streams -> Seq(ReplyRecord)]
<1>1. <<>> \in Seq(CommandRecord) /\ <<>> \in Seq(ReplyRecord)
  OBVIOUS
<1>2. QED
  BY <1>1 DEF RadioControlTypeOK, Disconnect

\* The types of the controller are kept.
LEMMA RadioTypeStep ==
  ASSUME RadioControlTypeOK, [RadioControlNext]_radioControlVars
  PROVE  RadioControlTypeOK'
<1> USE RadioConstants DEF sessionVars, controlVars, startVars, radioVars
<1>1. CASE FiveSeconds
  BY <1>1 DEF FiveSeconds, RadioControlTypeOK
<1>2. CASE Schedule
  <2> DEFINE going == {s \in Streams : configured[s] /\ link[s] = "up" /\ transactions[s] < MaxCommands}
  <2>1. \A s \in Streams : transactions[s] \in 0 .. MaxCommands /\ toRadio[s] \in Seq(CommandRecord)
    BY DEF RadioControlTypeOK
  <2>2. \A s \in going : transactions[s] + 1 \in 1 .. MaxCommands
    BY <2>1
  <2>3. \A s \in going : [kind |-> "start", transaction |-> transactions[s] + 1] \in CommandRecord
    BY <2>2 DEF CommandRecord
  <2>4. \A s \in going :
          Append(toRadio[s], [kind |-> "start", transaction |-> transactions[s] + 1]) \in Seq(CommandRecord)
    BY <2>1, <2>3, AppendProperties
  <2>5. startSent' \in [Streams -> BOOLEAN] /\ startHandle' \in [Streams -> 0 .. MaxCommands]
        /\ transactions' \in [Streams -> 0 .. MaxCommands]
    BY <1>2, <2>1, <2>2 DEF Schedule
  <2>6. toRadio' \in [Streams -> Seq(CommandRecord)]
    BY <1>2, <2>1, <2>4 DEF Schedule
  <2>7. QED
    BY <1>2, <2>5, <2>6 DEF Schedule, RadioControlTypeOK
<1>3. ASSUME NEW s \in Streams, Connect(s) PROVE RadioControlTypeOK'
  <2>1. attempts' \in [Streams -> 0 .. MaxAttempts] /\ link' \in [Streams -> {"none", "connecting", "up"}]
    <3>1. attempts[s] \in 0 .. MaxAttempts /\ attempts[s] < MaxAttempts
      BY <1>3 DEF Connect, RadioControlTypeOK
    <3>2. attempts[s] + 1 \in 0 .. MaxAttempts
      BY <3>1
    <3>3. QED
      BY <1>3, <3>2 DEF Connect, RadioControlTypeOK
  <2>2. QED
    BY <1>3, <2>1 DEF Connect, RadioControlTypeOK
<1>4. ASSUME NEW s \in Streams, HandshakeFails(s) PROVE RadioControlTypeOK'
  <2>1. authenticationFailed' \in [Streams -> BOOLEAN]
    BY <1>4 DEF HandshakeFails, RadioControlTypeOK
  <2>2. QED
    BY <1>4, <2>1, DisconnectType DEF HandshakeFails, RadioControlTypeOK
<1>5. ASSUME NEW s \in Streams, Established(s) PROVE RadioControlTypeOK'
  <2>1. /\ link' \in [Streams -> {"none", "connecting", "up"}] /\ everConnected' \in [Streams -> BOOLEAN]
        /\ attempts' \in [Streams -> 0 .. MaxAttempts]
    BY <1>5 DEF Established, RadioControlTypeOK
  <2>2. /\ transactions' \in [Streams -> 0 .. MaxCommands] /\ toRadio' \in [Streams -> Seq(CommandRecord)]
        /\ query' \in [Streams -> 0 .. MaxCommands]
    <3>1. CASE Command(s, "status") /\ query' = [query EXCEPT ![s] = transactions[s] + 1]
      BY <3>1, CommandType
    <3>2. CASE query' = [query EXCEPT ![s] = 0] /\ UNCHANGED <<transactions, toRadio>>
      BY <3>2 DEF RadioControlTypeOK
    <3>3. QED
      BY <1>5, <3>1, <3>2 DEF Established
  <2>3. QED
    BY <1>5, <2>1, <2>2 DEF Established, RadioControlTypeOK
<1>6. ASSUME NEW s \in Streams, Break(s) PROVE RadioControlTypeOK'
  <2>1. breaks' \in 0 .. MaxBreaks
    BY <1>6 DEF Break, RadioControlTypeOK
  <2>2. QED
    BY <1>6, <2>1, DisconnectType DEF Break, RadioControlTypeOK
<1>7. ASSUME NEW s \in Streams, RadioExecutes(s) PROVE RadioControlTypeOK'
  <2>1. PICK accepted \in BOOLEAN :
          /\ authored' = [authored EXCEPT ![s] = @ \/ (accepted /\ Head(toRadio[s]).kind = "configure")]
          /\ running' = [running EXCEPT ![s] = @ \/ (accepted /\ Head(toRadio[s]).kind = "start")]
          /\ toHost' = [toHost EXCEPT ![s] = Append(@, [transaction |-> Head(toRadio[s]).transaction,
                                                        state |-> authored'[s], executed |-> accepted])]
    BY <1>7 DEF RadioExecutes
  <2>2. toRadio[s] \in Seq(CommandRecord) /\ toRadio[s] # <<>> /\ toHost[s] \in Seq(ReplyRecord)
    BY <1>7 DEF RadioExecutes, RadioControlTypeOK
  <2>3. Head(toRadio[s]) \in CommandRecord /\ Tail(toRadio[s]) \in Seq(CommandRecord)
    BY <2>2, HeadTailProperties
  <2>4. authored' \in [Streams -> BOOLEAN] /\ running' \in [Streams -> BOOLEAN]
    BY <2>1 DEF RadioControlTypeOK
  <2>5. [transaction |-> Head(toRadio[s]).transaction, state |-> authored'[s], executed |-> accepted] \in ReplyRecord
    BY <2>3, <2>4 DEF CommandRecord, ReplyRecord
  <2>6. toHost' \in [Streams -> Seq(ReplyRecord)] /\ toRadio' \in [Streams -> Seq(CommandRecord)]
    BY <1>7, <2>1, <2>2, <2>3, <2>5, AppendProperties DEF RadioControlTypeOK, RadioExecutes
  <2>7. QED
    BY <1>7, <2>4, <2>6 DEF RadioControlTypeOK, RadioExecutes
<1>8. ASSUME NEW s \in Streams, Reply(s) PROVE RadioControlTypeOK'
  <2>1. toHost[s] \in Seq(ReplyRecord) /\ toHost[s] # <<>>
    BY <1>8 DEF Reply, RadioControlTypeOK
  <2>2. Head(toHost[s]) \in ReplyRecord /\ Tail(toHost[s]) \in Seq(ReplyRecord)
    BY <2>1, HeadTailProperties
  <2>3. Head(toHost[s]).state \in BOOLEAN /\ Head(toHost[s]).executed \in BOOLEAN
    BY <2>2 DEF ReplyRecord
  <2>4. configured' \in [Streams -> BOOLEAN] /\ executed' \in [Streams -> BOOLEAN]
    BY <1>8, <2>3 DEF Reply, Evidence, RadioControlTypeOK
  <2>5. query' \in [Streams -> 0 .. MaxCommands] /\ startHandle' \in [Streams -> 0 .. MaxCommands]
    BY <1>8 DEF Reply, RadioControlTypeOK
  <2>6. toHost' \in [Streams -> Seq(ReplyRecord)]
    BY <1>8, <2>2 DEF Reply, RadioControlTypeOK
  <2>7. QED
    BY <1>8, <2>4, <2>5, <2>6 DEF Reply, RadioControlTypeOK
<1>9. ASSUME NEW s \in Streams, TimesOut(s) PROVE RadioControlTypeOK'
  <2>1. /\ query' \in [Streams -> 0 .. MaxCommands] /\ startHandle' \in [Streams -> 0 .. MaxCommands]
        /\ executed' \in [Streams -> BOOLEAN]
    <3>1. 0 \in 0 .. MaxCommands
      OBVIOUS
    <3>2. query \in [Streams -> 0 .. MaxCommands] /\ startHandle \in [Streams -> 0 .. MaxCommands]
          /\ executed \in [Streams -> BOOLEAN]
      BY DEF RadioControlTypeOK
    <3>3. CASE query' = [query EXCEPT ![s] = 0] /\ UNCHANGED <<startHandle, executed>>
      BY <3>1, <3>2, <3>3
    <3>4. CASE startHandle' = [startHandle EXCEPT ![s] = 0] /\ executed' = [executed EXCEPT ![s] = FALSE] /\ UNCHANGED query
      BY <3>1, <3>2, <3>4
    <3>5. QED
      BY <1>9, <3>3, <3>4 DEF TimesOut
  <2>2. QED
    BY <1>9, <2>1 DEF TimesOut, RadioControlTypeOK
<1>10. ASSUME NEW s \in Streams, Configure(s) PROVE RadioControlTypeOK'
  <2>1. initialSent' \in [Streams -> BOOLEAN]
    BY <1>10 DEF Configure, RadioControlTypeOK
  <2>2. /\ transactions' \in [Streams -> 0 .. MaxCommands] /\ toRadio' \in [Streams -> Seq(CommandRecord)]
        /\ query' \in [Streams -> 0 .. MaxCommands]
    BY <1>10, CommandType DEF Configure
  <2>3. QED
    BY <1>10, <2>1, <2>2 DEF Configure, RadioControlTypeOK
<1>11. ASSUME NEW s \in Streams, AskState(s) PROVE RadioControlTypeOK'
  <2>1. /\ transactions' \in [Streams -> 0 .. MaxCommands] /\ toRadio' \in [Streams -> Seq(CommandRecord)]
        /\ query' \in [Streams -> 0 .. MaxCommands]
    BY <1>11, CommandType DEF AskState
  <2>2. QED
    BY <1>11, <2>1 DEF AskState, RadioControlTypeOK
<1>12. ASSUME NEW s \in Streams, Report(s) PROVE RadioControlTypeOK'
  BY <1>12 DEF Report, RadioControlTypeOK
<1>13. CASE UNCHANGED radioControlVars
  BY <1>13 DEF radioControlVars, RadioControlTypeOK
<1>14. QED
  BY <1>1, <1>2, <1>3, <1>4, <1>5, <1>6, <1>7, <1>8, <1>9, <1>10, <1>11, <1>12, <1>13 DEF RadioControlNext

\* A lost connection takes its messages along; a start among them was known to
\* meet an authored radio.
LEMMA DisconnectAuthored ==
  ASSUME RadioControlInv, RadioControlTypeOK', NEW s \in Streams, Disconnect(s), UNCHANGED <<configured, startSent>>
  PROVE  AuthoredInv' /\ StartedAsAuthored'
<1>1. PICK n \in 0 .. Len(toRadio[s]), accepted \in BOOLEAN :
        /\ authored' = [authored EXCEPT ![s] = @ \/ (accepted /\ AmongFirst(s, n, "configure"))]
        /\ running' = [running EXCEPT ![s] = @ \/ (accepted /\ AmongFirst(s, n, "start"))]
  BY DEF Disconnect
<1>2. toRadio' = [toRadio EXCEPT ![s] = <<>>] /\ toHost' = [toHost EXCEPT ![s] = <<>>]
  BY DEF Disconnect
<1>3. AmongFirst(s, n, "start") => authored[s]
  <2>1. Len(toRadio[s]) \in Nat
    BY DEF RadioControlInv, RadioControlTypeOK
  <2>2. ASSUME NEW i \in 1 .. n, toRadio[s][i].kind = "start" PROVE authored[s]
    <3>1. i \in 1 .. Len(toRadio[s])
      BY <2>1
    <3>2. QED
      BY <2>2, <3>1 DEF RadioControlInv, AuthoredInv
  <2>3. QED
    BY <2>2 DEF AmongFirst
<1>4. ASSUME NEW r \in Streams
      PROVE  /\ configured'[r] => authored'[r]
             /\ \A i \in 1 .. Len(toHost'[r]) : toHost'[r][i].state => authored'[r]
             /\ \A i \in 1 .. Len(toRadio'[r]) : toRadio'[r][i].kind = "start" => authored'[r]
             /\ startSent'[r] \/ running'[r] => authored'[r]
  <2>1. authored[r] => authored'[r]
    BY <1>1 DEF RadioControlInv, RadioControlTypeOK
  <2>2. CASE r = s
    <3>1. Len(toHost'[r]) = 0 /\ Len(toRadio'[r]) = 0
      BY <1>2, <2>2 DEF RadioControlInv, RadioControlTypeOK
    <3>2. running'[r] => running[r] \/ AmongFirst(s, n, "start")
      BY <1>1, <2>2 DEF RadioControlInv, RadioControlTypeOK
    <3>3. QED
      BY <1>3, <2>1, <2>2, <3>1, <3>2 DEF RadioControlInv, AuthoredInv, StartedAsAuthored
  <2>3. CASE r # s
    <3>1. toHost'[r] = toHost[r] /\ toRadio'[r] = toRadio[r] /\ running'[r] = running[r]
      BY <1>1, <1>2, <2>3 DEF RadioControlInv, RadioControlTypeOK
    <3>2. QED
      BY <2>1, <3>1 DEF RadioControlInv, AuthoredInv, StartedAsAuthored
  <2>4. QED
    BY <2>2, <2>3
<1>5. QED
  BY <1>4 DEF AuthoredInv, StartedAsAuthored

\* No step starts a radio that did not take the authored settings.
LEMMA AuthoredStep ==
  ASSUME RadioControlInv, RadioControlTypeOK', [RadioControlNext]_radioControlVars
  PROVE  AuthoredInv' /\ StartedAsAuthored'
<1> USE DEF RadioControlInv, RadioControlTypeOK, sessionVars, controlVars, startVars, radioVars, AuthoredInv, StartedAsAuthored
<1>1. CASE FiveSeconds
  BY <1>1 DEF FiveSeconds
<1>2. CASE Schedule
  BY <1>2 DEF Schedule, CommandRecord
<1>3. ASSUME NEW s \in Streams, Connect(s) PROVE AuthoredInv' /\ StartedAsAuthored'
  BY <1>3 DEF Connect
<1>4. ASSUME NEW s \in Streams, HandshakeFails(s) PROVE AuthoredInv' /\ StartedAsAuthored'
  BY <1>4, DisconnectAuthored DEF HandshakeFails
<1>5. ASSUME NEW s \in Streams, Established(s) PROVE AuthoredInv' /\ StartedAsAuthored'
  <2>1. CASE Command(s, "status")
    <3>1. UNCHANGED <<configured, startSent, toHost, authored, running>>
      BY <1>5 DEF Established
    <3>2. ASSUME NEW r \in Streams, NEW i \in 1 .. Len(toRadio'[r]), toRadio'[r][i].kind = "start"
          PROVE  authored'[r]
      <4> DEFINE command == [kind |-> "status", transaction |-> transactions[s] + 1]
      <4>1. toRadio' = [toRadio EXCEPT ![s] = Append(@, command)]
        BY <2>1 DEF Command
      <4>2. CASE r # s
        BY <3>1, <3>2, <4>1, <4>2
      <4>3. CASE r = s
        <5>1. toRadio'[s] = Append(toRadio[s], command) /\ toRadio[s] \in Seq(CommandRecord)
          BY <4>1
        <5>2. i # Len(toRadio[s]) + 1
          BY <3>2, <4>3, <5>1
        <5>3. i \in 1 .. Len(toRadio[s]) /\ toRadio'[s][i] = toRadio[s][i]
          BY <3>2, <4>3, <5>1, <5>2
        <5>4. QED
          BY <3>1, <3>2, <4>3, <5>3
      <4>4. QED
        BY <4>2, <4>3
    <3>3. QED
      BY <3>1, <3>2
  <2>2. CASE UNCHANGED toRadio
    BY <1>5, <2>2 DEF Established
  <2>3. QED
    BY <1>5, <2>1, <2>2 DEF Established
<1>6. ASSUME NEW s \in Streams, Break(s) PROVE AuthoredInv' /\ StartedAsAuthored'
  BY <1>6, DisconnectAuthored DEF Break
<1>7. ASSUME NEW s \in Streams, RadioExecutes(s) PROVE AuthoredInv' /\ StartedAsAuthored'
  <2>1. PICK accepted \in BOOLEAN :
          /\ authored' = [authored EXCEPT ![s] = @ \/ (accepted /\ Head(toRadio[s]).kind = "configure")]
          /\ running' = [running EXCEPT ![s] = @ \/ (accepted /\ Head(toRadio[s]).kind = "start")]
          /\ toHost' = [toHost EXCEPT ![s] = Append(@, [transaction |-> Head(toRadio[s]).transaction,
                                                        state |-> authored'[s], executed |-> accepted])]
    BY <1>7 DEF RadioExecutes
  <2> DEFINE reply == [transaction |-> Head(toRadio[s]).transaction, state |-> authored'[s], executed |-> accepted]
  <2>2. /\ toRadio' = [toRadio EXCEPT ![s] = Tail(@)] /\ configured' = configured /\ startSent' = startSent
        /\ toRadio[s] # <<>>
    BY <1>7 DEF RadioExecutes
  <2>3. toRadio[s] \in Seq(CommandRecord) /\ toHost[s] \in Seq(ReplyRecord) /\ toHost'[s] \in Seq(ReplyRecord)
    OBVIOUS
  <2>4. Head(toRadio[s]).kind = "start" => authored[s]
    <3>1. 1 \in 1 .. Len(toRadio[s]) /\ Head(toRadio[s]) = toRadio[s][1]
      BY <2>2, <2>3
    <3>2. QED
      BY <3>1
  <2>5. \A r \in Streams : authored[r] => authored'[r]
    BY <2>1
  <2>6. \A r \in Streams : running'[r] => authored'[r]
    BY <2>1, <2>4, <2>5, SMTT(60)
  <2>7. ASSUME NEW r \in Streams, NEW i \in 1 .. Len(toHost'[r]), toHost'[r][i].state PROVE authored'[r]
    <3>1. CASE r # s
      BY <2>1, <2>5, <2>7, <3>1
    <3>2. CASE r = s
      <4>1. toHost'[s] = Append(toHost[s], reply)
        BY <2>1
      <4>2. CASE i = Len(toHost[s]) + 1
        <5>1. toHost'[s][i] = reply
          BY <2>3, <4>1, <4>2
        <5>2. QED
          BY <2>7, <3>2, <5>1
      <4>3. CASE i # Len(toHost[s]) + 1
        <5>1. i \in 1 .. Len(toHost[s]) /\ toHost'[s][i] = toHost[s][i]
          BY <2>3, <2>7, <3>2, <4>1, <4>3
        <5>2. QED
          BY <2>5, <2>7, <3>2, <5>1
      <4>4. QED
        BY <4>2, <4>3
    <3>3. QED
      BY <3>1, <3>2
  <2>8. ASSUME NEW r \in Streams, NEW i \in 1 .. Len(toRadio'[r]), toRadio'[r][i].kind = "start" PROVE authored'[r]
    <3>1. CASE r # s
      BY <2>2, <2>5, <2>8, <3>1
    <3>2. CASE r = s
      <4>1. i + 1 \in 1 .. Len(toRadio[s]) /\ toRadio'[s][i] = toRadio[s][i + 1]
        BY <2>2, <2>3, <2>8, <3>2, HeadTailProperties
      <4>2. QED
        BY <2>5, <2>8, <3>2, <4>1
    <3>3. QED
      BY <3>1, <3>2
  <2>9. QED
    BY <2>2, <2>5, <2>6, <2>7, <2>8
<1>8. ASSUME NEW s \in Streams, Reply(s) PROVE AuthoredInv' /\ StartedAsAuthored'
  BY <1>8, SMTT(60) DEF Reply, Evidence, ReplyRecord
<1>9. ASSUME NEW s \in Streams, TimesOut(s) PROVE AuthoredInv' /\ StartedAsAuthored'
  BY <1>9 DEF TimesOut
<1>10. ASSUME NEW s \in Streams, Configure(s) PROVE AuthoredInv' /\ StartedAsAuthored'
  BY <1>10 DEF Configure, Command, CommandRecord
<1>11. ASSUME NEW s \in Streams, AskState(s) PROVE AuthoredInv' /\ StartedAsAuthored'
  BY <1>11, SMTT(60) DEF AskState, Command, CommandRecord
<1>12. ASSUME NEW s \in Streams, Report(s) PROVE AuthoredInv' /\ StartedAsAuthored'
  BY <1>12 DEF Report
<1>13. CASE UNCHANGED radioControlVars
  BY <1>13 DEF radioControlVars
<1>14. QED
  BY <1>1, <1>2, <1>3, <1>4, <1>5, <1>6, <1>7, <1>8, <1>9, <1>10, <1>11, <1>12, <1>13 DEF RadioControlNext

\* Every step of the controller keeps its invariant.
LEMMA RadioControlStep == RadioControlInv /\ [RadioControlNext]_radioControlVars => RadioControlInv'
  BY RadioTypeStep, AuthoredStep DEF RadioControlInv
-----------------------------------------------------------------------------
(***************************************************************************)
(* Together.                                                               *)
(***************************************************************************)
NodesInv == ControlInv /\ AssemblerInv /\ RadioControlInv

\* The invariants of the parts hold throughout.
THEOREM NodesInvariant == NodesSpec => []NodesInv
<1>1. NodesInit => NodesInv
  BY ControlInitially, AssemblerInitially, RadioControlInitially DEF NodesInit, NodesInv
<1>2. NodesInv /\ [NodesNext]_nodesVars => NodesInv'
  <2> SUFFICES ASSUME NodesInv, [NodesNext]_nodesVars PROVE NodesInv'
    OBVIOUS
  <2>1. [Next]_vars /\ [AssemblerNext]_assemblerVars /\ [RadioControlNext]_radioControlVars
    BY DEF NodesNext, nodesVars
  <2>2. QED
    BY <2>1, ControlStep, AssemblerStep, RadioControlStep DEF NodesInv
<1>3. QED
  BY <1>1, <1>2, PTL DEF NodesSpec

\* Type correctness of the three parts.
THEOREM NodesTypes == NodesSpec => []NodesTypeOK
<1>1. NodesInv => NodesTypeOK
  BY DEF NodesInv, ControlInv, AssemblerInv, RadioControlInv, NodesTypeOK
<1>2. QED
  BY <1>1, NodesInvariant, PTL

\* Every command ends in exactly one counted way, whatever answers, timeouts and
\* removals do to each other (control.mjs:603-614).
THEOREM OutcomesAddUp == NodesSpec => []OutcomesBalance
<1>1. NodesInv => OutcomesBalance
  BY ControlImplies DEF NodesInv
<1>2. QED
  BY <1>1, NodesInvariant, PTL

\* A command reported as accepted was carried out by every target, on a network
\* that loses, repeats and reorders (control.mjs:583, observability.cpp:560-574).
THEOREM AcceptedIsTrue == NodesSpec => []AcceptedWasApplied
<1>1. NodesInv => AcceptedWasApplied
  BY ControlImplies DEF NodesInv
<1>2. QED
  BY <1>1, NodesInvariant, PTL

\* A retry under a live idempotency key sends no second command while the first is
\* kept, and a different one only after a refused retry took the key with it
\* (control.mjs:537-561).
THEOREM RetriesAreSafe == NodesSpec => []RetriesDoNotRepeat
<1>1. NodesInv => RetriesDoNotRepeat
  BY ControlImplies DEF NodesInv
<1>2. QED
  BY <1>1, NodesInvariant, PTL

\* A datagram that was let in and whose nonce was not evicted for room is not
\* let in again, for all clocks within the skew (security.mjs:97-110, 141-153).
THEOREM NoReplay == NodesSpec => []LetInOnce
<1>1. NodesInv => LetInOnce
  BY ControlImplies DEF NodesInv
<1>2. QED
  BY <1>1, NodesInvariant, PTL

\* The spectra are of samples at their place on the timeline, and their
\* discontinuities say what is missing between them (processing_app.cpp).
THEOREM SpectraSound == NodesSpec => []SpectraAreSound
<1>1. NodesInv => SpectraAreSound
  BY DEF NodesInv, AssemblerInv, SpectraAreSound
<1>2. QED
  BY <1>1, NodesInvariant, PTL

\* A radio that streams took the authored settings first, whichever connections
\* broke on the way (radio controller of the processor).
THEOREM StartsAsAuthored == NodesSpec => []StartedAsAuthored
<1>1. NodesInv => StartedAsAuthored
  BY DEF NodesInv, RadioControlInv
<1>2. QED
  BY <1>1, NodesInvariant, PTL
=============================================================================
