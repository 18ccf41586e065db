-------------------------- MODULE ReadyGraph_proofs --------------------------
(***************************************************************************)
(* Proofs about ReadyGraph, for all values of its constants: every safety  *)
(* property of the parts that act beside the messages of a graph that is   *)
(* up.  Each part has an inductive invariant of its own; the last section  *)
(* puts them together.                                                     *)
(***************************************************************************)
EXTENDS ReadyGraph, SequenceTheorems, TLAPS

\* Ascending sequences
Rising(s) == \A i, j \in DOMAIN s : i < j => s[i] < s[j]
Before(s, t) == \A i \in DOMAIN s, j \in DOMAIN t : s[i] < t[j]
UpTo(s, n) == \A i \in DOMAIN s : s[i] <= n

\* Lengths, indices and elements of a sequence.
LEMMA SequenceFacts ==
  ASSUME NEW S, NEW q \in Seq(S)
  PROVE  Len(q) \in Nat /\ DOMAIN q = 1 .. Len(q) /\ \A n \in DOMAIN q : n \in Nat /\ q[n] \in S
OBVIOUS

\* Two ascending sequences, the second after the first, make an ascending one.
LEMMA ConcatOrder ==
  ASSUME NEW S, NEW s \in Seq(S), NEW t \in Seq(S), Rising(s), Rising(t), Before(s, t)
  PROVE  /\ s \o t \in Seq(S) /\ Len(s \o t) = Len(s) + Len(t)
         /\ Rising(s \o t)
         /\ \A u : Before(s, u) /\ Before(t, u) => Before(s \o t, u)
         /\ \A n : UpTo(s, n) /\ UpTo(t, n) => UpTo(s \o t, n)
<1> DEFINE c == s \o t
           k == Len(s)
           m == Len(t)
<1>1. /\ k \in Nat /\ m \in Nat /\ DOMAIN s = 1 .. k /\ DOMAIN t = 1 .. m /\ DOMAIN c = 1 .. k + m
      /\ c \in Seq(S) /\ Len(c) = k + m
      /\ \A i \in 1 .. k + m : c[i] = IF i <= k THEN s[i] ELSE t[i - k]
  OBVIOUS
<1>2. \A i \in 1 .. k + m : (i \in 1 .. k /\ i <= k) \/ (i - k \in 1 .. m /\ ~(i <= k))
  BY <1>1
<1>3. \A i, j \in 1 .. k + m : i < j => i - k < j - k /\ (j <= k => i <= k)
  BY <1>1
<1> HIDE DEF c, k, m
<1>4. Rising(c)
  <2> SUFFICES ASSUME NEW i \in 1 .. k + m, NEW j \in 1 .. k + m, i < j PROVE c[i] < c[j]
    BY <1>1 DEF Rising
  <2>1. CASE j <= k
    BY <1>1, <1>2, <1>3, <2>1 DEF Rising
  <2>2. CASE ~(j <= k) /\ i <= k
    BY <1>1, <1>2, <2>2 DEF Before
  <2>3. CASE ~(j <= k) /\ ~(i <= k)
    BY <1>1, <1>2, <1>3, <2>3 DEF Rising
  <2> QED
    BY <2>1, <2>2, <2>3
<1>5. \A u : Before(s, u) /\ Before(t, u) => Before(c, u)
  BY <1>1, <1>2 DEF Before
<1>6. \A n : UpTo(s, n) /\ UpTo(t, n) => UpTo(c, n)
  BY <1>1, <1>2 DEF UpTo
<1> QED
  BY <1>1, <1>4, <1>5, <1>6 DEF c, k, m

-----------------------------------------------------------------------------
(***************************************************************************)
(* Faults and routes.                                                      *)
(***************************************************************************)
LiveTimer(k) == timer[k] \in {"gated", "asleep", "awake", "tc"}
\* What the step of the coordinator says about the timer it works on
FaultStepInv ==
  /\ \A k \in Applications : k > applied => timer[k] = "none"
  /\ fault <= applied
  /\ step = "add" => applied < MaxApplications
  /\ step \in {"spawn", "register", "gate", "unwind", "rollback", "complete"} => applied \in Applications
  /\ step \in {"look", "stop", "kill", "delete"} => fault \in Applications
  /\ step = "spawn" => timer[applied] = "none"
  /\ step \in {"register", "gate"} => timer[applied] = "gated"
  /\ step = "rollback" => timer[applied] = "gone"
  /\ step = "delete" => timer[fault] = "gone"
\* What holds of the kernel while nobody else changes it
UndisturbedInv ==
  graph # "absent" /\ foreign = 0 =>
    /\ \A k \in Applications : LiveTimer(k) => qdisc = k
    /\ step = "spawn" => qdisc = applied
    /\ step \in {"stop", "kill", "delete"} => qdisc \in {fault, NoQdisc}
    /\ routeAction = "complete" => route = "ours"
FaultInv == FaultTypeOK /\ FaultStepInv /\ UndisturbedInv
\* The faults begin in their invariant.
LEMMA FaultInitially == FaultInit => FaultInv
<1> SUFFICES ASSUME FaultInit PROVE FaultInv
  OBVIOUS
<1>1. MaxApplications \in Nat \ {0} /\ MaxForeign \in Nat
  BY FaultAssumption
<1>2. FaultTypeOK
  <2>1. seen \in BOOLEAN /\ abandoned \in BOOLEAN /\ elapsed \subseteq Applications
    BY Zenon DEF FaultInit
  <2>2. timer \in [Applications -> {"none", "gated", "asleep", "awake", "tc", "gone"}]
    BY DEF FaultInit
  <2>3. /\ fault \in 0 .. MaxApplications /\ applied \in 0 .. MaxApplications /\ foreign \in 0 .. MaxForeign
        /\ qdisc \in 0 .. ForeignQdisc
    BY <1>1 DEF FaultInit, ForeignQdisc, NoQdisc
  <2> QED
    BY <2>1, <2>2, <2>3 DEF FaultInit, FaultTypeOK
<1>3. FaultStepInv /\ UndisturbedInv
  BY <1>1 DEF FaultInit, FaultStepInv, UndisturbedInv, LiveTimer
<1> QED
  BY <1>2, <1>3 DEF FaultInv

\* The types the steps below need.
LEMMA FaultFacts ==
  ASSUME FaultTypeOK
  PROVE  /\ MaxApplications \in Nat /\ Applications \subseteq Nat /\ fault \in Nat /\ applied \in Nat
         /\ foreign \in Nat /\ qdisc \in Nat /\ applied <= MaxApplications /\ ForeignQdisc \in Nat
         /\ \A k \in Applications : k # ForeignQdisc /\ k # NoQdisc /\ k <= MaxApplications /\ k >= 1
  BY FaultAssumption DEF FaultTypeOK, Applications, ForeignQdisc, NoQdisc

\* The types of the faults and routes are kept.
LEMMA FaultTypes ==
  ASSUME FaultInv, FaultNext
  PROVE  FaultTypeOK'
<1> USE DEF FaultInv
<1>a. /\ MaxApplications \in Nat /\ MaxForeign \in Nat /\ applied \in Nat /\ ForeignQdisc \in Nat
      /\ \A k \in Applications : k \in 0 .. ForeignQdisc
  BY FaultAssumption DEF FaultTypeOK, ForeignQdisc, Applications
<1>b. timer \in [Applications -> {"none", "gated", "asleep", "awake", "tc", "gone"}]
  BY DEF FaultTypeOK
<1>1. CASE RunFault \/ ClearCall \/ FaultDown \/ ApplyRoute \/ ClearRoute
  <2>1. seen' \in BOOLEAN
    <3>1. CASE seen' = seen
      BY <3>1 DEF FaultTypeOK
    <3>2. CASE seen' = TimerOwned(fault)
      <4>1. TimerOwned(fault) = TRUE \/ TimerOwned(fault) = FALSE
        BY DEF TimerOwned
      <4> QED
        BY <3>2, <4>1
    <3> QED
      BY <1>1, <3>1, <3>2 DEF RunFault, ClearCall, FaultDown, ApplyRoute, ClearRoute
  <2> QED
    BY <1>1, <2>1 DEF RunFault, ClearCall, FaultDown, ApplyRoute, ClearRoute, FaultTypeOK, ledgerVars, kernelVars,
       historyVars
<1>2. CASE AddQdisc
  <2>1. applied' \in 0 .. MaxApplications /\ qdisc' \in 0 .. ForeignQdisc
    BY <1>2, <1>a DEF AddQdisc, FaultTypeOK, FaultStepInv, ForeignQdisc
  <2> QED
    BY <1>2, <2>1 DEF AddQdisc, FaultTypeOK, ledgerVars, historyVars
<1>3. CASE SpawnTimer \/ OpenGate \/ Unwind \/ Kill
  <2>1. timer' \in [Applications -> {"none", "gated", "asleep", "awake", "tc", "gone"}]
    BY <1>3, <1>b DEF SpawnTimer, OpenGate, Unwind, Kill
  <2> QED
    BY <1>3, <2>1 DEF SpawnTimer, OpenGate, Unwind, Kill, FaultTypeOK, ledgerVars, kernelVars, historyVars
<1>4. CASE RegisterFault \/ CompleteFault \/ Look \/ Stop
  BY <1>4 DEF RegisterFault, CompleteFault, Look, Stop, StopCheck, FaultTypeOK, ledgerVars, kernelVars, historyVars
<1>5. CASE Rollback \/ Delete \/ Cleared \/ Destroy
  <2>1. NoQdisc \in 0 .. ForeignQdisc /\ 0 \in 0 .. MaxApplications
    BY <1>a DEF NoQdisc
  <2> QED
    BY <1>5, <2>1 DEF Rollback, Delete, RemoveRoot, Cleared, Destroy, FaultTypeOK, ledgerVars, kernelVars, historyVars
<1>6. CASE AddRoute \/ DeleteRoute
  BY <1>6 DEF AddRoute, DeleteRoute, FaultTypeOK, historyVars
<1>7. CASE ForeignChange
  <2>1. qdisc' \in 0 .. ForeignQdisc /\ foreign' \in 0 .. MaxForeign
    BY <1>7, <1>a DEF ForeignChange, FaultTypeOK, NoQdisc
  <2> QED
    BY <1>7, <2>1 DEF ForeignChange, FaultTypeOK, ledgerVars
<1>8. CASE Killed
  <2>1. timer' \in [Applications -> {"none", "gated", "asleep", "awake", "tc", "gone"}]
    BY <1>8, <1>b DEF Killed
  <2>2. abandoned' \in BOOLEAN
    BY <1>8, Zenon DEF Killed
  <2> QED
    BY <1>8, <2>1, <2>2 DEF Killed, FaultTypeOK, ledgerVars, kernelVars
<1>9. ASSUME NEW k \in Applications, Elapse(k) \/ TimerStep(k) PROVE FaultTypeOK'
  <2>1. timer' \in [Applications -> {"none", "gated", "asleep", "awake", "tc", "gone"}]
    BY <1>9, <1>b DEF Elapse, TimerStep, Wake, Compare, LiftByTimer
  <2>2. qdisc' \in 0 .. ForeignQdisc
    BY <1>9, <1>a DEF Elapse, TimerStep, Wake, Compare, LiftByTimer, kernelVars, FaultTypeOK, NoQdisc
  <2> QED
    BY <1>9, <2>1, <2>2 DEF Elapse, TimerStep, Wake, Compare, LiftByTimer, FaultTypeOK, ledgerVars, kernelVars,
       historyVars
<1> QED
  BY <1>1, <1>2, <1>3, <1>4, <1>5, <1>6, <1>7, <1>8, <1>9 DEF FaultNext, Coordinator

\* What an operation has found out so far stays true while it is under way.
LEMMA FaultSteps ==
  ASSUME FaultInv, FaultNext
  PROVE  FaultStepInv'
<1> USE DEF FaultInv
<1>a. /\ MaxApplications \in Nat /\ Applications \subseteq Nat /\ fault \in Nat /\ applied \in Nat
      /\ applied <= MaxApplications
  BY FaultFacts
<1>b. timer \in [Applications -> {"none", "gated", "asleep", "awake", "tc", "gone"}]
  BY DEF FaultTypeOK
<1>1. CASE RunFault \/ ClearCall \/ FaultDown \/ ApplyRoute \/ ClearRoute
  <2>1. fault # 0 => fault \in Applications
    BY <1>a DEF FaultTypeOK, Applications
  <2> QED
    BY <1>1, <2>1 DEF RunFault, ClearCall, FaultDown, ApplyRoute, ClearRoute, FaultStepInv, ledgerVars
<1>2. CASE AddQdisc
  <2>1. ~Netem(qdisc) => applied + 1 \in Applications /\ applied + 1 > applied
    BY <1>2, <1>a DEF AddQdisc, FaultStepInv, Applications
  <2> QED
    BY <1>2, <1>a, <2>1 DEF AddQdisc, FaultStepInv, ledgerVars
<1>3. CASE SpawnTimer \/ OpenGate \/ Unwind
  BY <1>3, <1>a, <1>b DEF SpawnTimer, OpenGate, Unwind, FaultStepInv, ledgerVars
<1>4. CASE RegisterFault \/ CompleteFault \/ Look
  BY <1>4, <1>a DEF RegisterFault, CompleteFault, Look, FaultStepInv, ledgerVars
<1>5. CASE Stop
  BY <1>5 DEF Stop, StopCheck, TimerGone, FaultStepInv, ledgerVars
<1>6. CASE Kill
  BY <1>6, <1>a, <1>b DEF Kill, FaultStepInv, ledgerVars
<1>7. CASE Rollback \/ Delete \/ Cleared \/ Destroy \/ AddRoute \/ DeleteRoute
  BY <1>7, <1>a DEF Rollback, Delete, Cleared, Destroy, AddRoute, DeleteRoute, FaultStepInv, ledgerVars
<1>8. CASE ForeignChange
  BY <1>8 DEF ForeignChange, FaultStepInv, ledgerVars
<1>9. CASE Killed
  <2>1. fault' = fault /\ applied' = applied /\ step' = "idle"
    BY <1>9 DEF Killed, ledgerVars
  <2>2. \A k \in Applications : timer[k] = "none" => timer'[k] = "none"
    BY <1>9, <1>b DEF Killed
  <2> QED
    BY <2>1, <2>2 DEF FaultStepInv
<1>10. ASSUME NEW k \in Applications, Elapse(k) \/ TimerStep(k) PROVE FaultStepInv'
  BY <1>10, <1>a, <1>b DEF Elapse, TimerStep, Wake, Compare, LiftByTimer, FaultStepInv, ledgerVars
<1> QED
  BY <1>1, <1>2, <1>3, <1>4, <1>5, <1>6, <1>7, <1>8, <1>9, <1>10 DEF FaultNext, Coordinator

\* As long as nobody else touches the interface, what is in force is recorded.
LEMMA FaultUndisturbed ==
  ASSUME FaultInv, FaultNext
  PROVE  UndisturbedInv'
<1> USE DEF FaultInv
<1>a. /\ MaxApplications \in Nat /\ Applications \subseteq Nat /\ fault \in Nat /\ applied \in Nat
      /\ foreign \in Nat /\ qdisc \in Nat /\ applied <= MaxApplications
      /\ \A k \in Applications : k # NoQdisc
  BY FaultFacts
<1>b. timer \in [Applications -> {"none", "gated", "asleep", "awake", "tc", "gone"}]
  BY DEF FaultTypeOK
<1>1. CASE RunFault \/ ClearCall \/ FaultDown \/ ApplyRoute \/ ClearRoute
  BY <1>1 DEF RunFault, ClearCall, FaultDown, ApplyRoute, ClearRoute, UndisturbedInv, LiveTimer, ledgerVars,
     kernelVars, historyVars
<1>2. CASE AddQdisc
  BY <1>2, <1>a DEF AddQdisc, Netem, UndisturbedInv, LiveTimer, ledgerVars, historyVars
<1>3. CASE SpawnTimer \/ OpenGate \/ Unwind
  BY <1>3, <1>a, <1>b DEF SpawnTimer, OpenGate, Unwind, UndisturbedInv, FaultStepInv, LiveTimer, ledgerVars,
     kernelVars, historyVars
<1>4. CASE RegisterFault \/ CompleteFault
  BY <1>4 DEF RegisterFault, CompleteFault, UndisturbedInv, LiveTimer, kernelVars, historyVars
<1>5. CASE Look
  BY <1>5 DEF Look, Refusal, UndisturbedInv, LiveTimer, ledgerVars, kernelVars, historyVars
<1>6. CASE Stop
  BY <1>6 DEF Stop, StopCheck, UndisturbedInv, LiveTimer, ledgerVars, kernelVars, historyVars
<1>7. CASE Kill
  BY <1>7, <1>b DEF Kill, FaultStepInv, UndisturbedInv, LiveTimer, ledgerVars, kernelVars, historyVars
<1>8. CASE Rollback
  BY <1>8, <1>a, <1>b DEF Rollback, FaultStepInv, UndisturbedInv, LiveTimer, ledgerVars, historyVars
<1>9. CASE Delete
  BY <1>9, <1>a, <1>b DEF Delete, RemoveRoot, FaultStepInv, UndisturbedInv, LiveTimer, ledgerVars, historyVars
<1>10. CASE Cleared \/ Destroy
  BY <1>10 DEF Cleared, Destroy, UndisturbedInv, LiveTimer, kernelVars, historyVars
<1>11. CASE AddRoute \/ DeleteRoute
  BY <1>11 DEF AddRoute, DeleteRoute, UndisturbedInv, LiveTimer, historyVars
<1>12. CASE ForeignChange
  BY <1>12, <1>a DEF ForeignChange, UndisturbedInv
<1>13. CASE Killed
  BY <1>13, <1>b DEF Killed, UndisturbedInv, LiveTimer, ledgerVars, kernelVars
<1>14. ASSUME NEW k \in Applications, Elapse(k) \/ TimerStep(k) PROVE UndisturbedInv'
  <2>1. CASE Elapse(k) \/ Wake(k) \/ Compare(k)
    BY <1>b, <2>1 DEF Elapse, Wake, Compare, UndisturbedInv, LiveTimer, ledgerVars, kernelVars, historyVars
  <2>2. CASE LiftByTimer(k)
    BY <1>a, <1>b, <2>2 DEF LiftByTimer, UndisturbedInv, FaultStepInv, LiveTimer, ledgerVars, historyVars
  <2> QED
    BY <1>14, <2>1, <2>2 DEF TimerStep
<1> QED
  BY <1>1, <1>2, <1>3, <1>4, <1>5, <1>6, <1>7, <1>8, <1>9, <1>10, <1>11, <1>12, <1>13, <1>14
     DEF FaultNext, Coordinator

\* Every step of the faults and routes keeps their invariant.
LEMMA FaultStep == FaultInv /\ [FaultNext]_faultVars => FaultInv'
<1>1. ASSUME FaultInv, FaultNext PROVE FaultInv'
  BY <1>1, FaultTypes, FaultSteps, FaultUndisturbed DEF FaultInv
<1>2. ASSUME FaultInv, UNCHANGED faultVars PROVE FaultInv'
  BY <1>2 DEF FaultInv, faultVars, ledgerVars, kernelVars, historyVars, FaultTypeOK, FaultStepInv, UndisturbedInv,
     LiveTimer
<1> QED
  BY <1>1, <1>2

\* The invariant gives RecordedIsInForce.
LEMMA FaultImplies == FaultInv => RecordedIsInForce
<1> SUFFICES ASSUME FaultInv, graph = "ready", foreign = 0
             PROVE  /\ fault # 0 => (timer[fault] = "asleep" => qdisc = fault)
                    /\ routeAction = "complete" => route = "ours"
  BY DEF RecordedIsInForce
<1>1. fault # 0 => fault \in Applications
  BY FaultAssumption DEF FaultInv, FaultTypeOK, Applications
<1> QED
  BY <1>1 DEF FaultInv, UndisturbedInv, LiveTimer
-----------------------------------------------------------------------------
(***************************************************************************)
(* The capture of a link.                                                  *)
(***************************************************************************)
Copies == [number : Nat, size : Nat, inode : 0 .. MaxSnapshots]
Writing == dumpcap \in {"running", "stopping"}
\* A copy of a prefix of a file of the session
Copied(f) ==
  f.number \in DOMAIN files[session] /\ Whole(f.size) /\ f.size <= files[session][f.number]

\* Where the coordinator is, and the session it owns: dumpcap writes to no other
SessionInv ==
  /\ owned => session \in Sessions /\ dir[session] # "absent"
  /\ Writing => owned /\ dir[session] = "open"
  /\ status = "absent" => ~owned
  /\ status = "ready" => owned
  /\ holder \in {"up-prune", "up-mkdir"} => session < MaxSessions
  /\ holder \in {"up-prune", "up-mkdir", "up-start"} => ~owned /\ status = "creating"
  /\ holder = "up-start" => session \in Sessions /\ dir[session] = "open"
  /\ holder \in {"up-wait", "down-stop", "down-await", "down-seal"} => owned
  /\ holder \in {"down-seal", "down-forget"} => ~Writing
  /\ holder \in {"export-check", "export-open", "export-copy", "export-record", "export-rename",
                 "export-save"} => status = "ready"

\* How far an export has got, and what the ledger knows of it
HandoffInv ==
  /\ {pending, destination, source} \subseteq Copies
  /\ holder = "export-copy" => Copied(source)
  /\ holder \in {"export-record", "export-rename"} => Copied(pending)
  /\ holder = "export-rename" => pendingInode = pending.inode
  /\ holder = "export-save" => destination.inode = pendingInode
  /\ holder \in {"export-open", "export-copy", "export-record"} /\ destination # NoFile
       => destination.inode = snapshotInode
  /\ destination # NoFile =>
       /\ session \in Sessions
       /\ Whole(destination.size)
       /\ dir[session] # "absent" => Copied(destination)
       /\ destination.inode \in {snapshotInode, pendingInode}

CaptureInv == CaptureTypeOK /\ SessionInv /\ HandoffInv
\* The capture begins in its invariant.
LEMMA CaptureInitially == CaptureInit => CaptureInv
<1>1. 0 \in Nat /\ MaxSnapshots \in Nat /\ MaxSessions \in Nat /\ MaxHalves \in Nat
  BY CaptureAssumption
<1>2. ASSUME CaptureInit PROVE CaptureTypeOK
  <2>1. files \in [Sessions -> Seq(0 .. MaxHalves)]
    BY <1>2 DEF CaptureInit
  <2> QED
    <3>1. dir \in [Sessions -> {"absent", "open", "sealed"}] /\ {snapshotInode, pendingInode, inodes} \subseteq 0 .. MaxSnapshots
      BY <1>1, <1>2 DEF CaptureInit
    <3>2. holder \in Up \cup Down \cup {"nobody", "export-check", "export-open", "export-copy", "export-record",
                                   "export-rename", "export-save"}
      BY <1>2 DEF CaptureInit
    <3>3. session \in 0 .. MaxSessions
      BY <1>1, <1>2 DEF CaptureInit
    <3>5. owned \in BOOLEAN
      BY <1>2, Zenon DEF CaptureInit
    <3>6. readonly \subseteq Sessions /\ expired \subseteq Sessions
      BY <1>2 DEF CaptureInit
    <3>4. status = "absent" /\ dumpcap = "none" /\ exporter = "absent"
      BY <1>2 DEF CaptureInit
    <3> QED
      BY <2>1, <3>1, <3>2, <3>3, <3>4, <3>5, <3>6 DEF CaptureTypeOK
<1>3. ASSUME CaptureInit PROVE SessionInv
  BY <1>1, <1>3 DEF CaptureInit, SessionInv, Writing
<1>4. ASSUME CaptureInit PROVE HandoffInv
  BY <1>1, <1>4 DEF CaptureInit, HandoffInv, NoFile, Copies
<1> QED
  BY <1>2, <1>3, <1>4 DEF CaptureInv

\* dumpcap writes to the session it runs for alone, and no file shrinks.
LEMMA CaptureWritten ==
  ASSUME CaptureTypeOK, SessionInv, AppendBlock \/ Rotate
  PROVE  /\ session \in Sessions /\ dir[session] = "open"
         /\ files' \in [Sessions -> Seq(0 .. MaxHalves)]
         /\ \A s \in Sessions : s # session => files'[s] = files[s]
         /\ \A n \in DOMAIN files[session] :
              n \in DOMAIN files'[session] /\ files[session][n] <= files'[session][n]
<1>1. session \in Sessions /\ dir[session] = "open"
  BY DEF AppendBlock, Rotate, SessionInv, Writing
<1>2. MaxHalves \in Nat \ {0}
  BY CaptureAssumption
<1>3. files \in [Sessions -> Seq(0 .. MaxHalves)]
  BY DEF CaptureTypeOK
<1> DEFINE old == files[session]
<1>4. old \in Seq(0 .. MaxHalves) /\ Len(old) \in Nat /\ DOMAIN old = 1 .. Len(old)
      /\ \A n \in 1 .. Len(old) : old[n] \in 0 .. MaxHalves
  <2>1. old \in Seq(0 .. MaxHalves)
    BY <1>1, <1>3
  <2> HIDE DEF old
  <2> QED
    BY <2>1, SequenceFacts
<1>5. ASSUME NEW new \in Seq(0 .. MaxHalves), files' = [files EXCEPT ![session] = new],
             \A n \in DOMAIN old : n \in DOMAIN new /\ old[n] <= new[n]
      PROVE  /\ files' \in [Sessions -> Seq(0 .. MaxHalves)]
             /\ \A s \in Sessions : s # session => files'[s] = files[s]
             /\ \A n \in DOMAIN old : n \in DOMAIN files'[session] /\ old[n] <= files'[session][n]
  <2>1. files'[session] = new
    BY <1>1, <1>3, <1>5
  <2> QED
    BY <1>1, <1>3, <1>5, <2>1
<1>6. session' = session
  BY DEF AppendBlock, Rotate
<1>7. CASE AppendBlock /\ old = <<>>
  <2>1. <<1>> \in Seq(0 .. MaxHalves) /\ files' = [files EXCEPT ![session] = <<1>>]
    BY <1>2, <1>7 DEF AppendBlock
  <2> QED
    <3>1. DOMAIN old = {}
      BY <1>7
    <3> QED
      BY <1>1, <1>5, <1>6, <2>1, <3>1
<1>8. CASE AppendBlock /\ old # <<>>
  <2> DEFINE n == Len(old)
             new == [old EXCEPT ![n] = @ + 1]
  <2>1. n \in 1 .. Len(old)
    BY <1>4, <1>8, EmptySeq
  <2>2. old[n] < MaxHalves /\ files' = [files EXCEPT ![session] = new]
    BY <1>8, <1>3, <1>1 DEF AppendBlock
  <2>3. new \in Seq(0 .. MaxHalves)
    BY <1>2, <1>4, <2>1, <2>2
  <2>4. \A m \in DOMAIN old : m \in DOMAIN new /\ old[m] <= new[m]
    BY <1>2, <1>4, <2>1, <2>2
  <2> HIDE DEF new
  <2> QED
    BY <1>1, <1>5, <1>6, <2>2, <2>3, <2>4
<1>9. CASE Rotate
  <2> DEFINE new == Append(old, 0)
  <2>1. new \in Seq(0 .. MaxHalves) /\ files' = [files EXCEPT ![session] = new]
    BY <1>1, <1>2, <1>3, <1>4, <1>9 DEF Rotate
  <2>2. \A m \in DOMAIN old : m \in DOMAIN new /\ old[m] <= new[m]
    BY <1>4
  <2> HIDE DEF new
  <2> QED
    BY <1>1, <1>5, <1>6, <2>1, <2>2
<1> QED
  BY <1>7, <1>8, <1>9

\* The types of the capture are kept.
LEMMA CaptureTypes ==
  ASSUME CaptureInv, CaptureNext
  PROVE  CaptureTypeOK'
<1> USE DEF CaptureInv
<1>a. MaxSnapshots \in Nat /\ MaxSessions \in Nat /\ MaxHalves \in Nat
  BY CaptureAssumption
<1>b. files \in [Sessions -> Seq(0 .. MaxHalves)] /\ dir \in [Sessions -> {"absent", "open", "sealed"}]
  BY DEF CaptureTypeOK
<1>c. pending.inode \in 0 .. MaxSnapshots /\ destination.inode \in 0 .. MaxSnapshots
  BY DEF HandoffInv, Copies
<1>1. CASE UpCall \/ StartDumpcap \/ SectionPublished \/ CaptureDown \/ SignalDumpcap \/ Forget
  BY <1>1 DEF UpCall, StartDumpcap, SectionPublished, CaptureDown, SignalDumpcap, Forget, CaptureTypeOK,
     sessionVars, handoffVars, Up, Down
<1>2. CASE Prune
  <2>1. files' \in [Sessions -> Seq(0 .. MaxHalves)] /\ dir' \in [Sessions -> {"absent", "open", "sealed"}]
    <3>1. <<>> \in Seq(0 .. MaxHalves)
      OBVIOUS
    <3> QED
      BY <1>b, <1>2, <3>1 DEF Prune
  <2> QED
    BY <1>2, <2>1 DEF Prune, CaptureTypeOK, handoffVars, Up, Down
<1>3. CASE CreateSession
  BY <1>3, <1>a, <1>b DEF CreateSession, CaptureTypeOK, SessionInv, Up, Down, Sessions
<1>4. CASE CreateFails \/ SealFiles \/ SealDirectory
  <2>1. session \in Sessions
    BY <1>4 DEF SessionInv, CreateFails, SealFiles, SealDirectory
  <2>2. dir' \in [Sessions -> {"absent", "open", "sealed"}] /\ readonly' \subseteq Sessions
    BY <1>4, <1>b, <2>1 DEF CreateFails, SealFiles, SealDirectory, CaptureTypeOK
  <2> QED
    BY <1>4, <2>2 DEF CreateFails, SealFiles, SealDirectory, CaptureTypeOK, handoffVars, Up, Down
<1>5. CASE Round \/ CheckSnapshot \/ NotExportable
  <2>1. snapshotInode' \in 0 .. MaxSnapshots /\ pendingInode' \in 0 .. MaxSnapshots
    BY <1>5, <1>a, <1>c DEF Round, CheckSnapshot, NotExportable, CaptureTypeOK, handoffVars
  <2>2. inodes' \in 0 .. MaxSnapshots
    BY <1>5 DEF Round, CheckSnapshot, NotExportable, CaptureTypeOK, handoffVars
  <2> QED
    BY <1>5, <2>1, <2>2 DEF Round, CheckSnapshot, NotExportable, Return, CaptureTypeOK, sessionVars, handoffVars, Up, Down
<1>6. CASE OpenSource \/ CopySource \/ RecordSnapshot \/ RenameSnapshot \/ SaveSnapshot
  BY <1>6, <1>a, <1>c, SMTT(60) DEF OpenSource, CopySource, RecordSnapshot, RecordPending, RenameSnapshot, SaveSnapshot,
     Return, CaptureTypeOK, sessionVars, Up, Down
<1>7. CASE AppendBlock \/ Rotate
  <2>1. files' \in [Sessions -> Seq(0 .. MaxHalves)]
    BY <1>7, CaptureWritten
  <2> QED
    BY <1>7, <2>1 DEF AppendBlock, Rotate, CaptureTypeOK, handoffVars
<1>8. CASE DumpcapExits \/ HolderKilled \/ \E s \in Sessions : Expire(s)
  BY <1>8 DEF DumpcapExits, HolderKilled, Expire, CaptureTypeOK, sessionVars, handoffVars, Up, Down
<1> QED
  BY <1>1, <1>2, <1>3, <1>4, <1>5, <1>6, <1>7, <1>8 DEF CaptureNext

\* What is known of the sessions of a capture is kept.
LEMMA CaptureSessions ==
  ASSUME CaptureInv, CaptureNext
  PROVE  SessionInv'
<1> USE DEF CaptureInv
<1>a. MaxSnapshots \in Nat /\ MaxSessions \in Nat /\ MaxHalves \in Nat
  BY CaptureAssumption
<1>b. dir \in [Sessions -> {"absent", "open", "sealed"}] /\ session \in 0 .. MaxSessions
  BY DEF CaptureTypeOK
<1>1. CASE UpCall \/ StartDumpcap \/ SectionPublished \/ CaptureDown \/ SignalDumpcap \/ Forget
  BY <1>1, <1>a, <1>b DEF UpCall, StartDumpcap, SectionPublished, CaptureDown, SignalDumpcap, Forget, SessionInv,
     Writing, sessionVars, CaptureTypeOK
<1>2. CASE Prune
  BY <1>2, <1>b DEF Prune, SessionInv, Writing
<1>3. CASE CreateSession
  BY <1>3, <1>a, <1>b DEF CreateSession, SessionInv, Sessions, Writing
<1>4. CASE CreateFails \/ SealFiles \/ SealDirectory
  BY <1>4, <1>a, <1>b DEF CreateFails, SealFiles, SealDirectory, Stopped, SessionInv, Writing
<1>5. CASE Round \/ CheckSnapshot \/ NotExportable
  BY <1>5 DEF Round, CheckSnapshot, NotExportable, Return, SessionInv, Writing, sessionVars
<1>6. CASE OpenSource \/ CopySource \/ RecordSnapshot \/ RenameSnapshot \/ SaveSnapshot
  BY <1>6 DEF OpenSource, CopySource, RecordSnapshot, RecordPending, RenameSnapshot, SaveSnapshot,
     Return, SessionInv, Writing, sessionVars
<1>7. CASE AppendBlock \/ Rotate
  BY <1>7 DEF AppendBlock, Rotate, SessionInv, Writing
<1>8. CASE DumpcapExits \/ HolderKilled \/ \E s \in Sessions : Expire(s)
  BY <1>8 DEF DumpcapExits, HolderKilled, Expire, SessionInv, Writing, sessionVars
<1> QED
  BY <1>1, <1>2, <1>3, <1>4, <1>5, <1>6, <1>7, <1>8 DEF CaptureNext

\* What is known of the handoff directory and the ledger is kept.
LEMMA CaptureHandoffs ==
  ASSUME CaptureInv, CaptureNext
  PROVE  HandoffInv'
<1> USE DEF CaptureInv
<1>a. MaxSnapshots \in Nat /\ MaxSessions \in Nat /\ MaxHalves \in Nat
  BY CaptureAssumption
<1>b. /\ dir \in [Sessions -> {"absent", "open", "sealed"}] /\ session \in 0 .. MaxSessions
      /\ files \in [Sessions -> Seq(0 .. MaxHalves)]
  BY DEF CaptureTypeOK
<1>1. CASE UpCall \/ StartDumpcap \/ SectionPublished \/ CaptureDown \/ SignalDumpcap \/ Forget
  BY <1>1 DEF UpCall, StartDumpcap, SectionPublished, CaptureDown, SignalDumpcap, Forget, HandoffInv,
     Copied, handoffVars, sessionVars
<1>2. CASE Prune
  BY <1>2, <1>b DEF Prune, HandoffInv, Copied, handoffVars
<1>3. CASE CreateSession
  BY <1>3, <1>a DEF CreateSession, HandoffInv, NoFile, Copies
<1>4. CASE CreateFails \/ SealFiles \/ SealDirectory
  BY <1>4, <1>b DEF CreateFails, SealFiles, SealDirectory, HandoffInv, Copied, handoffVars, SessionInv
<1>5. CASE Round \/ CheckSnapshot \/ NotExportable
  BY <1>5 DEF Round, CheckSnapshot, NotExportable, Return, HandoffInv, Copied, sessionVars, handoffVars
<1>6. CASE OpenSource
  <2>1. PICK n \in Ring(session) :
           /\ Exportable(n)
           /\ source' = [number |-> n, size |-> files[session][n], inode |-> 0]
           /\ inodes' = inodes + 1
           /\ pending' = [number |-> n, size |-> 0, inode |-> inodes + 1]
    BY <1>6 DEF OpenSource
  <2>2. session \in Sessions
    BY <1>6 DEF OpenSource, SessionInv
  <2>3. n \in DOMAIN files[session] /\ n \in Nat /\ files[session][n] \in 0 .. MaxHalves
    BY <1>b, <2>1, <2>2, SequenceFacts DEF Ring
  <2>4. inodes + 1 \in 0 .. MaxSnapshots /\ 0 \in 0 .. MaxSnapshots
    BY <1>6, <1>a DEF OpenSource, CaptureTypeOK
  <2>5. source' \in Copies /\ pending' \in Copies
    BY <1>a, <2>1, <2>3, <2>4 DEF Copies
  <2>6. files' = files /\ session' = session /\ dir' = dir /\ destination' = destination
        /\ snapshotInode' = snapshotInode /\ pendingInode' = pendingInode /\ holder' = "export-copy"
    BY <1>6 DEF OpenSource, sessionVars
  <2>7. Copied(source)'
    BY <1>a, <2>1, <2>3, <2>6 DEF Copied, Exportable
  <2> QED
    BY <1>6, <2>5, <2>6, <2>7 DEF OpenSource, HandoffInv, Copied
<1>7. CASE CopySource
  <2>1. files' = files /\ session' = session /\ dir' = dir /\ destination' = destination /\ source' = source
        /\ snapshotInode' = snapshotInode /\ pendingInode' = pendingInode
    BY <1>7 DEF CopySource, sessionVars
  <2>2. pending' \in Copies /\ (holder' = "export-record" => pending'.number = source.number /\ pending'.size = source.size)
    BY <1>7, <1>a DEF CopySource, Copy, HandoffInv, Copies, NoFile, Return
  <2>3. holder' \in {"nobody", "export-record"}
    BY <1>7 DEF CopySource, Return
  <2> QED
    BY <1>7, <2>1, <2>2, <2>3 DEF CopySource, HandoffInv, Copied
<1>8. CASE RecordSnapshot \/ RenameSnapshot
  <2>1. pending \in Copies /\ NoFile \in Copies /\ session \in Sessions
    BY <1>8, <1>a DEF HandoffInv, NoFile, Copies, SessionInv, RecordSnapshot, RenameSnapshot
  <2>2. CASE RecordSnapshot
    BY <2>1, <2>2 DEF RecordSnapshot, RecordPending, HandoffInv, Copied, sessionVars
  <2>3. CASE RenameSnapshot
    BY <2>1, <2>3 DEF RenameSnapshot, HandoffInv, Copied, sessionVars
  <2> QED
    BY <1>8, <2>2, <2>3
<1>9. CASE SaveSnapshot
  BY <1>9 DEF SaveSnapshot, Return, HandoffInv, Copied, sessionVars
<1>10. CASE AppendBlock \/ Rotate
  <2>1. /\ holder' = holder /\ session' = session /\ dir' = dir /\ pending' = pending
        /\ destination' = destination /\ source' = source
        /\ snapshotInode' = snapshotInode /\ pendingInode' = pendingInode
    BY <1>10 DEF AppendBlock, Rotate, handoffVars
  <2>2. ASSUME NEW f, f \in Copies, Copied(f)
        PROVE  f.number \in DOMAIN files'[session] /\ Whole(f.size) /\ f.size <= files'[session][f.number]
    <3>1. files'[session] \in Seq(0 .. MaxHalves) /\ files[session] \in Seq(0 .. MaxHalves)
      BY <1>10, <1>b, CaptureWritten
    <3>2. f.number \in DOMAIN files[session] /\ Whole(f.size) /\ f.size <= files[session][f.number]
          /\ f.size \in Nat
      BY <2>2 DEF Copied, Copies
    <3>3. f.number \in DOMAIN files'[session] /\ files[session][f.number] <= files'[session][f.number]
      BY <1>10, <3>2, CaptureWritten
    <3>4. files[session][f.number] \in Nat /\ files'[session][f.number] \in Nat
      BY <1>a, <3>1, <3>2, <3>3, SMTT(60)
    <3> QED
      BY <3>2, <3>3, <3>4
  <2>3. \A f \in Copies : Copied(f) =>
          (f.number \in DOMAIN files'[session'] /\ Whole(f.size) /\ f.size <= files'[session'][f.number])
    BY <2>1, <2>2
  <2> QED
    BY <2>1, <2>3 DEF HandoffInv, Copied
<1>11. CASE DumpcapExits \/ HolderKilled \/ \E s \in Sessions : Expire(s)
  BY <1>11 DEF DumpcapExits, HolderKilled, Expire, HandoffInv, Copied, sessionVars, handoffVars
<1> QED
  BY <1>1, <1>2, <1>3, <1>4, <1>5, <1>6, <1>7, <1>8, <1>9, <1>10, <1>11 DEF CaptureNext

\* Every step of the capture keeps its invariant.
LEMMA CaptureInductive == CaptureInv /\ [CaptureNext]_captureVars => CaptureInv'
<1>1. ASSUME CaptureInv, CaptureNext PROVE CaptureInv'
  BY <1>1, CaptureTypes, CaptureSessions, CaptureHandoffs DEF CaptureInv
<1>2. ASSUME CaptureInv, UNCHANGED captureVars PROVE CaptureInv'
  BY <1>2 DEF CaptureInv, captureVars, sessionVars, handoffVars, CaptureTypeOK, SessionInv, Writing, HandoffInv,
     Copied
<1> QED
  BY <1>1, <1>2

\* The invariant gives SnapshotIsWhole.
LEMMA CaptureImplies == CaptureInv => SnapshotIsWhole
  BY DEF CaptureInv, HandoffInv, SnapshotIsWhole, Copied

\* A step leaves sealed evidence and open sessions in place (EvidenceIsKept).
LEMMA CaptureKeeps ==
  ASSUME CaptureInv, [CaptureNext]_captureVars
  PROVE  \A s \in Sessions :
           /\ dir[s] = "sealed" => files'[s] = files[s] \/ s \in expired
           /\ dir[s] = "open" => dir'[s] # "absent"
<1> USE DEF CaptureInv
<1>b. /\ dir \in [Sessions -> {"absent", "open", "sealed"}] /\ session \in 0 .. MaxSessions
      /\ files \in [Sessions -> Seq(0 .. MaxHalves)] /\ MaxSessions \in Nat
  BY CaptureAssumption DEF CaptureTypeOK
<1>1. CASE Prune
  BY <1>1, <1>b DEF Prune, Prunable
<1>2. CASE CreateSession
  BY <1>2, <1>b DEF CreateSession
<1>3. CASE CreateFails \/ SealFiles \/ SealDirectory
  BY <1>3, <1>b DEF CreateFails, SealFiles, SealDirectory
<1>4. CASE AppendBlock \/ Rotate
  <2>1. dir' = dir
    BY <1>4 DEF AppendBlock, Rotate
  <2> QED
    BY <1>4, <2>1, CaptureWritten
<1>5. CASE dir' = dir /\ files' = files
  BY <1>5
<1>6. ASSUME UNCHANGED captureVars \/ UpCall \/ StartDumpcap \/ SectionPublished \/ CaptureDown \/ SignalDumpcap \/ Forget
             \/ Round \/ CheckSnapshot \/ NotExportable \/ OpenSource \/ CopySource
             \/ RecordSnapshot \/ RenameSnapshot \/ SaveSnapshot \/ DumpcapExits \/ HolderKilled
             \/ \E s \in Sessions : Expire(s)
      PROVE  dir' = dir /\ files' = files
  BY <1>6 DEF UpCall, StartDumpcap, SectionPublished, CaptureDown, SignalDumpcap, Forget,
     Round, CheckSnapshot, NotExportable, OpenSource, CopySource, RecordSnapshot, RenameSnapshot, SaveSnapshot,
     DumpcapExits, HolderKilled, Expire, sessionVars, captureVars
<1> QED
  BY <1>1, <1>2, <1>3, <1>4, <1>5, <1>6 DEF CaptureNext
-----------------------------------------------------------------------------
(***************************************************************************)
(* The rotation of a credential.                                           *)
(***************************************************************************)
Generations == [number : Nat, publishing : BOOLEAN, expires : Nat]
ReaderStates ==
  [step : {"idle", "generation", "member", "deadline", "previous", "again"}, index : 1 .. Len(Members) + 1,
   attempt : 1 .. 3, before : Generations, members : Seq(Nat), previous : Seq(Nat), deadline : Nat,
   checked : Nat]
LoaderStates ==
  [step : {"idle", "generation", "hash", "load", "again"}, index : 1 .. Len(Members) + 1,
   before : Generations, members : Seq(Nat)]

\* How far the replacement of the files has got
RotationInv ==
  /\ rotation \in [step : {"idle", "previous", "member", "publish", "killed"}, index : Index]
  /\ rotation.step = "idle" =>
       /\ ~generation.publishing
       /\ \A i \in Index : file[i] = generation.number
       /\ generation.number > 1 => \A i \in Index : previousFile[i] = generation.number - 1
  /\ rotation.step # "idle" => generation = Publishing
  /\ rotation.step \in {"previous", "member"} =>
       /\ file[Len(Members)] < MaxGeneration
       /\ \A i \in Index : file[i] = IF i < rotation.index THEN file[Len(Members)] + 1 ELSE file[Len(Members)]
       /\ \A i \in Index : i < rotation.index => previousFile[i] = file[Len(Members)]
       /\ rotation.step = "member" => previousFile[rotation.index] = file[Len(Members)]
  /\ rotation.step = "publish" =>
       \A i \in Index : file[i] = file[Len(Members)] /\ previousFile[i] = file[Len(Members)] - 1

\* The number of a generation published before or now
Past(n) ==
  /\ n \in Nat
  /\ rotation.step = "idle" => n <= generation.number
  /\ rotation.step \in {"previous", "member"} => n <= file[Len(Members)]
  /\ rotation.step = "publish" => n < file[Len(Members)]

InForce(deadline, metadata) == deadline <= clock \/ deadline <= metadata.expires

\* What a reader has read is all of the generation it saw at the start.
ReaderInv ==
  /\ reader \in ReaderStates
  /\ reader.step \in {"member", "deadline", "previous", "again"} =>
       Past(reader.before.number) /\ ~reader.before.publishing
  /\ reader.step \in {"member", "previous"} => reader.index \in Index
  /\ AllOf(reader.before.number, reader.members) /\ AllOf(reader.before.number - 1, reader.previous)
  /\ reader.step \in {"member", "deadline"} => reader.previous = <<>>
  /\ reader.step = "previous" \/ reader.previous # <<>> => reader.checked < reader.before.expires
  /\ reader.step \in {"previous", "again"} => InForce(reader.deadline, reader.before)
  /\ reader.step \in {"member", "deadline"} /\ reader.before.number = known.generation
       => InForce(known.deadline, reader.before)

\* What the reader published last
KnownInv ==
  /\ known \in [generation : Nat, deadline : Nat]
  /\ Past(known.generation)
  /\ ~generation.publishing /\ generation.number = known.generation => InForce(known.deadline, generation)
  /\ AllOf(bundle.generation, bundle.members) /\ AllOf(bundle.generation - 1, bundle.previous)

\* What the loader of a TLS context has read is of the generation it saw, if that is
\* the one published now
LoaderInv ==
  /\ loader \in LoaderStates
  /\ loader.step \in {"hash", "load", "again"} => Past(loader.before.number) /\ ~loader.before.publishing
  /\ loader.step \in {"generation", "hash", "load"} => loader.index \in Index
  /\ loader.step \in {"generation", "hash"} => loader.members = <<>>
  /\ loader.step \in {"load", "again"} /\ generation = loader.before
       => AllOf(loader.before.number, loader.members)
  /\ AllOf(context.generation, context.members)

CredentialInv == CredentialTypeOK /\ RotationInv /\ ReaderInv /\ KnownInv /\ LoaderInv
RotationSteps == RotateCall \/ WritePrevious \/ WriteMember \/ PublishGeneration \/ RotationKilled
ReaderSteps == ReadCall \/ ReadGeneration \/ ReadMember \/ CheckDeadline \/ ReadPrevious \/ ReadAgain
LoaderSteps == LoadCall \/ LoadGeneration \/ HashMember \/ LoadMember \/ LoadAgain

\* What each party leaves alone.
LEMMA CredentialFrames ==
  /\ RotationSteps => UNCHANGED <<clock, reader, known, bundle, loader, context, reads>>
  /\ ReaderSteps => UNCHANGED <<clock, generation, file, previousFile, rotation, loader, context>>
  /\ LoaderSteps => UNCHANGED <<clock, generation, file, previousFile, rotation, reader, known, bundle>>
  /\ TimePasses => /\ clock < MaxNow /\ clock' = clock + 1
                   /\ UNCHANGED <<generation, file, previousFile, rotation, reader, known, bundle, loader,
                                  context, reads>>
<1>1. ASSUME RotationSteps PROVE UNCHANGED <<clock, reader, known, bundle, loader, context, reads>>
  BY <1>1 DEF RotationSteps, RotateCall, WritePrevious, WriteMember, PublishGeneration, RotationKilled, readerVars
<1>2. ASSUME ReaderSteps PROVE UNCHANGED <<clock, generation, file, previousFile, rotation, loader, context>>
  BY <1>2 DEF ReaderSteps, ReadCall, ReadGeneration, ReadMember, CheckDeadline, ReadPrevious, ReadAgain, rotationVars
<1>3. ASSUME LoaderSteps PROVE UNCHANGED <<clock, generation, file, previousFile, rotation, reader, known, bundle>>
  BY <1>3 DEF LoaderSteps, LoadCall, LoadGeneration, HashMember, LoadMember, LoadAgain, rotationVars, readerVars
<1>4. ASSUME TimePasses
      PROVE  /\ clock < MaxNow /\ clock' = clock + 1
             /\ UNCHANGED <<generation, file, previousFile, rotation, reader, known, bundle, loader, context, reads>>
  BY <1>4 DEF TimePasses, rotationVars, readerVars
<1> QED
  BY <1>1, <1>2, <1>3, <1>4

\* The types the steps below need.
LEMMA CredentialFacts ==
  ASSUME CredentialTypeOK
  PROVE  /\ Len(Members) \in Nat /\ Len(Members) \in Index /\ 1 \in Index /\ Index \subseteq Nat
         /\ Grace \in Nat /\ MaxGeneration \in Nat /\ MaxNow \in Nat /\ MaxReads \in Nat
         /\ clock \in Nat /\ clock <= MaxNow
         /\ generation \in Generations /\ generation.number \in Nat /\ generation.expires \in Nat
         /\ generation.publishing \in BOOLEAN
         /\ \A i \in Index : file[i] \in Nat /\ file[i] >= 1 /\ file[i] <= MaxGeneration
         /\ \A i \in Index : previousFile[i] \in Nat
<1>1. /\ Len(Members) \in Nat /\ Len(Members) \in Index /\ 1 \in Index /\ Index \subseteq Nat
      /\ Grace \in Nat /\ MaxGeneration \in Nat /\ MaxNow \in Nat /\ MaxReads \in Nat
  BY RotationAssumption DEF Index
<1>2. clock \in Nat /\ clock <= MaxNow /\ MaxNow + Grace \in Nat
  BY <1>1 DEF CredentialTypeOK
<1>3. generation \in [number : 0 .. MaxGeneration, publishing : BOOLEAN, expires : 0 .. MaxNow + Grace]
      /\ 0 .. MaxGeneration \subseteq Nat /\ 0 .. MaxNow + Grace \subseteq Nat
  BY <1>1, <1>2 DEF CredentialTypeOK
<1>4. generation \in Generations /\ generation.number \in Nat /\ generation.expires \in Nat
         /\ generation.publishing \in BOOLEAN
  BY <1>3 DEF Generations
<1>5. \A i \in Index : file[i] \in 1 .. MaxGeneration /\ previousFile[i] \in 0 .. MaxGeneration
  BY DEF CredentialTypeOK
<1>6. /\ \A i \in Index : file[i] \in Nat /\ file[i] >= 1 /\ file[i] <= MaxGeneration
      /\ \A i \in Index : previousFile[i] \in Nat
  BY <1>1, <1>5
<1> QED
  BY <1>1, <1>2, <1>4, <1>6

\* The steps of a rotation, one after the other.
LEMMA RotationFields ==
  ASSUME CredentialTypeOK, RotationInv, RotationSteps
  PROVE  \/ /\ rotation.step = "idle" /\ ~generation.publishing /\ generation.number < MaxGeneration
            /\ rotation' = [step |-> "previous", index |-> 1] /\ generation' = Publishing
            /\ UNCHANGED <<file, previousFile>>
         \/ /\ rotation.step = "previous"
            /\ previousFile' = [previousFile EXCEPT ![rotation.index] = file[rotation.index]]
            /\ rotation' = [step |-> "member", index |-> rotation.index]
            /\ UNCHANGED <<file, generation>>
         \/ /\ rotation.step = "member" /\ file' = [file EXCEPT ![rotation.index] = @ + 1]
            /\ rotation.index = Len(Members)
            /\ rotation' = [step |-> "publish", index |-> rotation.index]
            /\ UNCHANGED <<previousFile, generation>>
         \/ /\ rotation.step = "member" /\ file' = [file EXCEPT ![rotation.index] = @ + 1]
            /\ rotation.index # Len(Members)
            /\ rotation' = [step |-> "previous", index |-> rotation.index + 1]
            /\ UNCHANGED <<previousFile, generation>>
         \/ /\ rotation.step = "publish" /\ rotation' = [step |-> "idle", index |-> 1]
            /\ generation' = [number |-> file[1], publishing |-> FALSE, expires |-> clock + Grace]
            /\ UNCHANGED <<file, previousFile>>
         \/ /\ rotation.step # "idle" /\ rotation' = [step |-> "killed", index |-> rotation.index]
            /\ UNCHANGED <<file, previousFile, generation>>
<1>1. rotation = [step |-> rotation.step, index |-> rotation.index]
  BY DEF RotationInv
<1>2. \A v : [rotation EXCEPT !.step = v] = [step |-> v, index |-> rotation.index]
  BY <1>1
<1> QED
  BY <1>2 DEF RotationSteps, RotateCall, WritePrevious, WriteMember, PublishGeneration, RotationKilled, Quiet,
     Metadata

\* A rotation keeps its own invariant (credentials.mjs, rotate).
LEMMA RotationStep ==
  ASSUME CredentialTypeOK, RotationInv, RotationSteps
  PROVE  /\ RotationInv'
         /\ generation' \in [number : 0 .. MaxGeneration, publishing : BOOLEAN, expires : 0 .. MaxNow + Grace]
         /\ file' \in [Index -> 1 .. MaxGeneration] /\ previousFile' \in [Index -> 0 .. MaxGeneration]
<1>a. /\ Len(Members) \in Nat /\ Len(Members) \in Index /\ 1 \in Index /\ Index \subseteq Nat /\ clock \in Nat
      /\ clock <= MaxNow /\ Grace \in Nat /\ MaxGeneration \in Nat /\ MaxNow \in Nat /\ generation.number \in Nat
      /\ \A i \in Index : file[i] \in Nat /\ file[i] >= 1 /\ file[i] <= MaxGeneration
      /\ \A i \in Index : previousFile[i] \in Nat
  BY CredentialFacts
<1>b. /\ file \in [Index -> 1 .. MaxGeneration] /\ previousFile \in [Index -> 0 .. MaxGeneration]
      /\ generation \in [number : 0 .. MaxGeneration, publishing : BOOLEAN, expires : 0 .. MaxNow + Grace]
  BY DEF CredentialTypeOK
<1>c. rotation.index \in Index
  BY DEF RotationInv
<1>d. file[rotation.index] \in Nat /\ file[rotation.index] >= 1 /\ file[rotation.index] <= MaxGeneration
  BY <1>a, <1>c, Zenon
<1>g. rotation.step \in {"previous", "member"} =>
       /\ file[Len(Members)] < MaxGeneration
       /\ \A i \in Index : i < rotation.index => file[i] = file[Len(Members)] + 1
       /\ \A i \in Index : ~(i < rotation.index) => file[i] = file[Len(Members)]
       /\ \A i \in Index : i < rotation.index => previousFile[i] = file[Len(Members)]
       /\ rotation.step = "member" => previousFile[rotation.index] = file[Len(Members)]
       /\ generation = Publishing
  BY DEF RotationInv
<1>h. ~(rotation.index < rotation.index)
  <2>1. rotation.index \in Nat
    BY <1>a, <1>c
  <2> QED
    BY <2>1
<1>e. rotation.step \in {"previous", "member"} => file[rotation.index] < MaxGeneration /\ file[rotation.index] = file[Len(Members)]
  BY <1>c, <1>g, <1>h
<1>1. CASE /\ rotation.step = "idle" /\ ~generation.publishing /\ generation.number < MaxGeneration
            /\ rotation' = [step |-> "previous", index |-> 1] /\ generation' = Publishing
            /\ UNCHANGED <<file, previousFile>>
  <2>1. generation' \in [number : 0 .. MaxGeneration, publishing : BOOLEAN, expires : 0 .. MaxNow + Grace]
    BY <1>1, <1>a DEF Publishing
  <2>2. RotationInv'
    BY <1>1, <1>a DEF RotationInv, Index
  <2> QED
    BY <1>1, <1>b, <2>1, <2>2
<1>2. CASE /\ rotation.step = "previous"
            /\ previousFile' = [previousFile EXCEPT ![rotation.index] = file[rotation.index]]
            /\ rotation' = [step |-> "member", index |-> rotation.index]
            /\ UNCHANGED <<file, generation>>
  <2>1. file[rotation.index] \in 0 .. MaxGeneration
    BY <1>a, <1>d
  <2>3. previousFile' \in [Index -> 0 .. MaxGeneration]
    BY <1>2, <1>b, <1>c, <2>1
  <2>4. \A i \in Index : previousFile'[i] = IF i = rotation.index THEN file[rotation.index] ELSE previousFile[i]
    BY <1>2, <1>b, <1>c
  <2>2. RotationInv'
    <3>1. rotation' \in [step : {"idle", "previous", "member", "publish", "killed"}, index : Index]
          /\ rotation'.step = "member" /\ rotation'.index = rotation.index
      BY <1>2, <1>c
    <3>2. \A i \in Index : i < rotation.index => previousFile'[i] = file[Len(Members)]
      BY <1>2, <1>e, <1>g, <2>4
    <3>3. previousFile'[rotation.index] = file[Len(Members)]
      BY <1>2, <1>c, <1>e, <2>4
    <3>4. \A i \in Index : file[i] = IF i < rotation.index THEN file[Len(Members)] + 1 ELSE file[Len(Members)]
      BY <1>2, <1>g
    <3> QED
      BY <1>2, <1>g, <3>1, <3>2, <3>3, <3>4 DEF RotationInv
  <2> QED
    BY <1>2, <1>b, <2>2, <2>3
<1>3. CASE /\ rotation.step = "member" /\ file' = [file EXCEPT ![rotation.index] = @ + 1]
            /\ rotation.index = Len(Members)
            /\ rotation' = [step |-> "publish", index |-> rotation.index]
            /\ UNCHANGED <<previousFile, generation>>
  <2>a. file[rotation.index] + 1 \in 1 .. MaxGeneration
    BY <1>3, <1>a, <1>d, <1>e
  <2>1. file' \in [Index -> 1 .. MaxGeneration]
    BY <1>3, <1>b, <1>c, <2>a
  <2>b. \A i \in Index : file'[i] = IF i = rotation.index THEN file[rotation.index] + 1 ELSE file[i]
    BY <1>3, <1>b, <1>c
  <2>2. \A i \in Index : file'[i] = file[Len(Members)] + 1 /\ previousFile'[i] = file[Len(Members)]
    BY <1>3, <1>a, <1>c, <2>b DEF RotationInv, Index
  <2>3. RotationInv'
    BY <1>3, <1>a, <1>b, <1>c, <2>2 DEF RotationInv
  <2> QED
    BY <1>3, <1>b, <2>1, <2>3
<1>4. CASE /\ rotation.step = "member" /\ file' = [file EXCEPT ![rotation.index] = @ + 1]
            /\ rotation.index # Len(Members)
            /\ rotation' = [step |-> "previous", index |-> rotation.index + 1]
            /\ UNCHANGED <<previousFile, generation>>
  <2>a. file[rotation.index] + 1 \in 1 .. MaxGeneration
    BY <1>4, <1>a, <1>d, <1>e
  <2>1. file' \in [Index -> 1 .. MaxGeneration]
    BY <1>4, <1>b, <1>c, <2>a
  <2>b. \A i \in Index : file'[i] = IF i = rotation.index THEN file[rotation.index] + 1 ELSE file[i]
    BY <1>4, <1>b, <1>c
  <2>2. file'[Len(Members)] = file[Len(Members)] /\ rotation.index + 1 \in Index
    BY <1>4, <1>a, <1>b, <1>c DEF Index
  <2>3. \A i \in Index :
          /\ file'[i] = IF i < rotation.index + 1 THEN file[Len(Members)] + 1 ELSE file[Len(Members)]
          /\ i < rotation.index + 1 => previousFile'[i] = file[Len(Members)]
    <3> TAKE i \in Index
    <3>1. i \in Nat /\ rotation.index \in Nat
      BY <1>a, <1>c
    <3>2. CASE i = rotation.index
      BY <3>1, <3>2, <1>4, <1>e, <1>g, <2>b
    <3>3. CASE i < rotation.index
      BY <3>1, <3>3, <1>4, <1>g, <2>b
    <3>4. CASE i > rotation.index
      BY <3>1, <3>4, <1>4, <1>g, <2>b
    <3> QED
      BY <3>1, <3>2, <3>3, <3>4
  <2>4. RotationInv'
    BY <1>4, <1>a, <1>b, <1>c, <2>2, <2>3 DEF RotationInv
  <2> QED
    BY <1>4, <1>b, <2>1, <2>4
<1>5. CASE /\ rotation.step = "publish" /\ rotation' = [step |-> "idle", index |-> 1]
            /\ generation' = [number |-> file[1], publishing |-> FALSE, expires |-> clock + Grace]
            /\ UNCHANGED <<file, previousFile>>
  <2>1. generation' \in [number : 0 .. MaxGeneration, publishing : BOOLEAN, expires : 0 .. MaxNow + Grace]
    BY <1>5, <1>a
  <2>2. RotationInv'
    BY <1>5, <1>a, <1>c DEF RotationInv
  <2> QED
    BY <1>5, <1>b, <2>1, <2>2
<1>6. CASE /\ rotation.step # "idle" /\ rotation' = [step |-> "killed", index |-> rotation.index]
            /\ UNCHANGED <<file, previousFile, generation>>
  <2>1. RotationInv'
    BY <1>6, <1>c DEF RotationInv
  <2> QED
    BY <1>6, <1>b, <2>1
<1> QED
  BY RotationFields, <1>1, <1>2, <1>3, <1>4, <1>5, <1>6

\* A generation that is past stays past.
LEMMA PastStays ==
  ASSUME CredentialTypeOK, RotationInv, RotationSteps, NEW n, Past(n)
  PROVE  Past(n)'
<1>a. /\ Len(Members) \in Nat /\ Len(Members) \in Index /\ 1 \in Index /\ Index \subseteq Nat
      /\ generation.number \in Nat
      /\ \A i \in Index : file[i] \in Nat /\ file[i] >= 1 /\ file[i] <= MaxGeneration
  BY CredentialFacts
<1>b. file \in [Index -> 1 .. MaxGeneration] /\ rotation.index \in Index
  BY DEF CredentialTypeOK, RotationInv
<1>1. ASSUME rotation.step = "member" /\ file' = [file EXCEPT ![rotation.index] = @ + 1]
      PROVE  file'[Len(Members)] = IF rotation.index = Len(Members) THEN file[Len(Members)] + 1 ELSE file[Len(Members)]
  BY <1>1, <1>a, <1>b
<1> QED
  BY RotationFields, <1>1, <1>a, <1>b DEF Past, RotationInv

\* A record of a past generation is never published again.
LEMMA NoReturn ==
  ASSUME CredentialTypeOK, RotationInv, RotationSteps, NEW b, Past(b.number), ~b.publishing, generation' = b
  PROVE  FALSE
<1>a. 1 \in Index /\ Len(Members) \in Index /\ \A i \in Index : file[i] \in Nat
  BY CredentialFacts
<1> QED
  BY RotationFields, <1>a DEF Past, RotationInv, Publishing

\* One more member of the same generation.
LEMMA AllOfAppend ==
  ASSUME NEW g, NEW q \in Seq(Nat), AllOf(g, q), NEW v \in Nat, v = g
  PROVE  AllOf(g, Append(q, v)) /\ Append(q, v) \in Seq(Nat) /\ Append(q, v) # <<>>
<1>1. \A i \in 1 .. Len(q) + 1 : Append(q, v)[i] = IF i = Len(q) + 1 THEN v ELSE q[i]
  OBVIOUS
<1>2. DOMAIN Append(q, v) = 1 .. Len(q) + 1 /\ DOMAIN q = 1 .. Len(q) /\ Len(q) \in Nat
  OBVIOUS
<1>3. \A i \in 1 .. Len(q) + 1 : i = Len(q) + 1 \/ i \in 1 .. Len(q)
  BY <1>2
<1> QED
  BY <1>1, <1>2, <1>3 DEF AllOf

\* Nothing read yet is of any generation.
LEMMA AllOfEmpty == \A g : AllOf(g, <<>>)
  BY DEF AllOf

\* The fields of a reader that is idle.
LEMMA NoReadFields ==
  /\ NoRead \in ReaderStates /\ NoRead.step = "idle" /\ NoRead.members = <<>> /\ NoRead.previous = <<>>
  /\ Publishing \in Generations
<1>1. Publishing \in Generations
  BY DEF Publishing, Generations
<1>2. 1 \in 1 .. Len(Members) + 1 /\ 1 \in 1 .. 3 /\ <<>> \in Seq(Nat)
  BY RotationAssumption
<1> QED
  BY <1>1, <1>2 DEF NoRead, ReaderStates

\* Unless it takes a step itself, what the reader has is not disturbed.
LEMMA ReaderKept ==
  ASSUME CredentialInv, RotationSteps \/ TimePasses \/ LoaderSteps
  PROVE  ReaderInv' /\ KnownInv'
<1> USE DEF CredentialInv
<1>a. reader' = reader /\ known' = known /\ bundle' = bundle
  BY CredentialFrames
<1>b. clock \in Nat /\ clock' \in Nat /\ clock <= clock' /\ Grace \in Nat
  BY CredentialFrames, CredentialFacts
<1>c. ASSUME NEW n, Past(n) PROVE Past(n)'
  <2>1. CASE RotationSteps
    BY <1>c, <2>1, PastStays
  <2>2. CASE TimePasses \/ LoaderSteps
    BY <1>c, <2>2, CredentialFrames DEF Past
  <2> QED
    BY <2>1, <2>2
<1>d. ASSUME NEW d \in Nat, NEW m \in Generations, InForce(d, m) PROVE InForce(d, m)'
  <2>1. m.expires \in Nat
    BY DEF Generations
  <2> QED
    BY <1>b, <1>d, <2>1 DEF InForce
<1>e. reader \in ReaderStates /\ reader.before \in Generations /\ reader.deadline \in Nat
      /\ known.generation \in Nat /\ known.deadline \in Nat
  BY DEF ReaderInv, ReaderStates, KnownInv
<1>f. \A n : Past(n) => Past(n)'
  BY <1>c
<1>g. \A d \in Nat : \A m \in Generations : InForce(d, m) => InForce(d, m)'
  BY <1>d
<1>1. ReaderInv'
  <2>1. Past(reader.before.number) => Past(reader.before.number)'
    BY <1>a, <1>f
  <2>2. /\ InForce(reader.deadline, reader.before) => InForce(reader.deadline, reader.before)'
        /\ InForce(known.deadline, reader.before) => InForce(known.deadline, reader.before)'
    BY <1>a, <1>g, <1>e
  <2> QED
    BY <1>a, <2>1, <2>2 DEF ReaderInv
<1>2. KnownInv'
  <2>1. Past(known.generation)'
    BY <1>a, <1>f DEF KnownInv
  <2>2. ASSUME ~generation'.publishing, generation'.number = known.generation
        PROVE  InForce(known.deadline, generation)'
    <3>1. CASE RotationSteps
      BY <2>2, <3>1, NoReturn DEF KnownInv
    <3>2. CASE TimePasses \/ LoaderSteps
      BY <2>2, <3>2, <1>d, <1>e, CredentialFrames, CredentialFacts DEF KnownInv
    <3> QED
      BY <3>1, <3>2
  <2> QED
    BY <1>a, <2>1, <2>2 DEF KnownInv
<1> QED
  BY <1>1, <1>2

\* A reader that gives up or begins again keeps its invariant.
LEMMA ReaderResets ==
  ASSUME CredentialInv, ReaderSteps, reader' = NoRead, known' = known, bundle' = bundle
  PROVE  ReaderInv' /\ KnownInv'
<1> USE DEF CredentialInv
<1>1. UNCHANGED <<clock, generation, file, rotation>>
  BY CredentialFrames
<1>2. ReaderInv'
  BY NoReadFields, AllOfEmpty DEF ReaderInv
<1>3. KnownInv'
  BY <1>1 DEF KnownInv, Past, InForce
<1> QED
  BY <1>2, <1>3

\* A step of the reader keeps its invariant (credentials.mjs, read).
LEMMA ReaderStep ==
  ASSUME CredentialInv, ReaderSteps
  PROVE  ReaderInv' /\ KnownInv'
<1> USE DEF CredentialInv
<1>a. /\ clock' = clock /\ generation' = generation /\ file' = file /\ previousFile' = previousFile
      /\ rotation' = rotation
  BY CredentialFrames
<1>b. /\ Len(Members) \in Nat /\ Len(Members) \in Index /\ 1 \in Index /\ Index \subseteq Nat /\ clock \in Nat
      /\ Grace \in Nat /\ generation \in Generations /\ generation.number \in Nat /\ generation.expires \in Nat
      /\ generation.publishing \in BOOLEAN
      /\ \A i \in Index : file[i] \in Nat
      /\ \A i \in Index : previousFile[i] \in Nat
  BY CredentialFacts
<1>c. /\ reader \in ReaderStates /\ reader.before \in Generations /\ reader.deadline \in Nat /\ reader.members \in Seq(Nat)
      /\ reader.previous \in Seq(Nat) /\ reader.before.number \in Nat /\ reader.before.expires \in Nat
      /\ reader.index \in 1 .. Len(Members) + 1 /\ reader.attempt \in 1 .. 3
      /\ known.generation \in Nat /\ known.deadline \in Nat
  BY DEF ReaderInv, ReaderStates, KnownInv, Generations
<1>d. ASSUME known' = known, bundle' = bundle PROVE KnownInv'
  BY <1>a, <1>d DEF KnownInv, Past, InForce
<1>e. \A n : Past(n) => Past(n)'
  BY <1>a DEF Past
<1>f. \A d, m : InForce(d, m) => InForce(d, m)'
  BY <1>a DEF InForce
<1>1. CASE ReadCall
  <2>1. reader' = [NoRead EXCEPT !.step = "generation"] /\ known' = known /\ bundle' = bundle
    BY <1>1 DEF ReadCall
  <2>2. reader' \in ReaderStates /\ reader'.step = "generation" /\ reader'.members = <<>> /\ reader'.previous = <<>>
    BY <2>1, NoReadFields DEF ReaderStates
  <2> QED
    BY <2>1, <2>2, <1>d, AllOfEmpty DEF ReaderInv
<1>2. CASE ReadGeneration
  <2>1. CASE generation.publishing \/ generation.number < known.generation
    BY <1>2, <2>1, ReaderResets DEF ReadGeneration, Throws
  <2>2. CASE ~(generation.publishing \/ generation.number < known.generation)
    <3>1. /\ reader' = [reader EXCEPT !.step = "member", !.index = 1, !.before = generation,
                                      !.members = <<>>, !.previous = <<>>]
          /\ known' = known /\ bundle' = bundle
      BY <1>2, <2>2 DEF ReadGeneration
    <3>2. 1 \in 1 .. Len(Members) + 1 /\ <<>> \in Seq(Nat)
      BY <1>b
    <3>3. /\ reader' \in ReaderStates /\ reader'.step = "member" /\ reader'.index = 1 /\ reader'.before = generation
          /\ reader'.members = <<>> /\ reader'.previous = <<>>
      BY <1>b, <1>c, <3>1, <3>2 DEF ReaderStates
    <3>4. Past(generation.number)
      BY <1>b, <2>2 DEF Past, RotationInv, Publishing
    <3>5. generation.number = known.generation => InForce(known.deadline, generation)
      BY <2>2 DEF KnownInv
    <3>6. ReaderInv'
      BY <2>2, <1>a, <1>b, <1>e, <1>f, <3>1, <3>3, <3>4, <3>5, AllOfEmpty DEF ReaderInv
    <3> QED
      BY <3>1, <3>6, <1>d
  <2> QED
    BY <2>1, <2>2
<1>3. CASE ReadMember
  <2>1. CASE file[reader.index] # reader.before.number
    BY <1>3, <2>1, ReaderResets DEF ReadMember, Throws
  <2>2. CASE file[reader.index] = reader.before.number
    <3> DEFINE m == Append(reader.members, file[reader.index])
               k == reader.index + 1
               s == IF reader.index = Len(Members) THEN "deadline" ELSE "member"
    <3>1. /\ reader' = [reader EXCEPT !.members = m, !.index = k, !.step = s]
          /\ known' = known /\ bundle' = bundle
      BY <1>3, <2>2 DEF ReadMember
    <3>2. reader.step = "member" /\ reader.index \in Index
      BY <1>3 DEF ReadMember, ReaderInv
    <3>3. AllOf(reader.before.number, m) /\ m \in Seq(Nat)
      BY <1>b, <1>c, <2>2, <3>2, AllOfAppend DEF ReaderInv
    <3>4. k \in 1 .. Len(Members) + 1 /\ (s = "member" => k \in Index) /\ s \in {"member", "deadline"}
      BY <1>b, <3>2 DEF Index
    <3> HIDE DEF m, k, s
    <3>5. /\ reader' \in ReaderStates /\ reader'.step = s /\ reader'.index = k /\ reader'.before = reader.before
          /\ reader'.members = m /\ reader'.previous = reader.previous
      BY <1>c, <3>1, <3>3, <3>4 DEF ReaderStates
    <3>6. ReaderInv'
      BY <1>a, <1>e, <1>f, <3>1, <3>2, <3>3, <3>4, <3>5, AllOfEmpty DEF ReaderInv
    <3> QED
      BY <3>1, <3>6, <1>d
  <2> QED
    BY <2>1, <2>2
<1>4. CASE CheckDeadline
  <2> DEFINE d == Deadline(reader.before)
             s == IF reader.before.number > 1 /\ clock < d THEN "previous" ELSE "again"
  <2>1. /\ reader' = [reader EXCEPT !.deadline = d, !.checked = clock, !.index = 1, !.step = s]
        /\ known' = known /\ bundle' = bundle /\ reader.step = "deadline"
    BY <1>4 DEF CheckDeadline
  <2>2. d \in Nat /\ InForce(d, reader.before)
    <3>1. CASE known.generation = reader.before.number
      BY <1>c, <2>1, <3>1 DEF Deadline, ReaderInv
    <3>2. CASE known.generation # reader.before.number /\ reader.before.number > 1
      <4> DEFINE e == reader.before.expires
      <4>1. d = clock + Earliest(Grace, Latest(e, clock) - clock)
        BY <3>2 DEF Deadline, Overlap
      <4>2. e \in Nat
        BY <1>c
      <4> HIDE DEF e
      <4>3. clock + Earliest(Grace, Latest(e, clock) - clock) \in Nat
            /\ (clock + Earliest(Grace, Latest(e, clock) - clock) <= clock
                 \/ clock + Earliest(Grace, Latest(e, clock) - clock) <= e)
        BY <1>b, <4>2 DEF Earliest, Latest
      <4> QED
        BY <4>1, <4>3 DEF InForce, e
    <3>3. CASE known.generation # reader.before.number /\ ~(reader.before.number > 1)
      BY <1>b, <3>3 DEF Deadline, InForce
    <3> QED
      BY <3>1, <3>2, <3>3
  <2>3. s \in {"previous", "again"} /\ (s = "previous" => clock < reader.before.expires)
    <3>1. s = "previous" => clock < d
      OBVIOUS
    <3>2. d <= clock \/ d <= reader.before.expires
      BY <2>2 DEF InForce
    <3> HIDE DEF d
    <3>3. clock < d => clock < reader.before.expires
      BY <1>b, <1>c, <2>2, <3>2
    <3> QED
      BY <3>1, <3>3
  <2>4. 1 \in 1 .. Len(Members) + 1
    BY <1>b
  <2> HIDE DEF d, s
  <2>5. /\ reader' \in ReaderStates /\ reader'.step = s /\ reader'.index = 1 /\ reader'.before = reader.before
        /\ reader'.members = reader.members /\ reader'.previous = reader.previous
        /\ reader'.deadline = d /\ reader'.checked = clock
    BY <1>b, <1>c, <2>1, <2>2, <2>3, <2>4 DEF ReaderStates
  <2>6. ReaderInv'
    BY <1>a, <1>b, <1>e, <1>f, <2>1, <2>2, <2>3, <2>5 DEF ReaderInv
  <2> QED
    BY <2>1, <2>6, <1>d
<1>5. CASE ReadPrevious
  <2>1. CASE previousFile[reader.index] # reader.before.number - 1
    BY <1>5, <2>1, ReaderResets DEF ReadPrevious, Throws
  <2>2. CASE previousFile[reader.index] = reader.before.number - 1
    <3> DEFINE m == Append(reader.previous, previousFile[reader.index])
               k == reader.index + 1
               s == IF reader.index = Len(Members) THEN "again" ELSE "previous"
    <3>1. /\ reader' = [reader EXCEPT !.previous = m, !.index = k, !.step = s]
          /\ known' = known /\ bundle' = bundle
      BY <1>5, <2>2 DEF ReadPrevious
    <3>2. reader.step = "previous" /\ reader.index \in Index
      BY <1>5 DEF ReadPrevious, ReaderInv
    <3>3. AllOf(reader.before.number - 1, m) /\ m \in Seq(Nat)
      BY <1>b, <1>c, <2>2, <3>2, AllOfAppend DEF ReaderInv
    <3>4. k \in 1 .. Len(Members) + 1 /\ (s = "previous" => k \in Index) /\ s \in {"previous", "again"}
      BY <1>b, <3>2 DEF Index
    <3> HIDE DEF m, k, s
    <3>5. /\ reader' \in ReaderStates /\ reader'.step = s /\ reader'.index = k /\ reader'.before = reader.before
          /\ reader'.members = reader.members /\ reader'.previous = m /\ reader'.deadline = reader.deadline
          /\ reader'.checked = reader.checked
      BY <1>c, <3>1, <3>3, <3>4 DEF ReaderStates
    <3>6. ReaderInv'
      BY <1>a, <1>e, <1>f, <3>1, <3>2, <3>3, <3>4, <3>5 DEF ReaderInv
    <3> QED
      BY <3>1, <3>6, <1>d
  <2> QED
    BY <2>1, <2>2
<1>6. CASE ReadAgain
  <2>1. CASE generation = reader.before
    <3>1. /\ reader' = NoRead
          /\ known' = [generation |-> reader.before.number, deadline |-> reader.deadline]
          /\ bundle' = [generation |-> reader.before.number, members |-> reader.members,
                        previous |-> reader.previous]
      BY <1>6, <2>1 DEF ReadAgain
    <3>2. ReaderInv'
      BY <3>1, NoReadFields, AllOfEmpty DEF ReaderInv
    <3>3. /\ known' \in [generation : Nat, deadline : Nat] /\ known'.generation = reader.before.number
          /\ known'.deadline = reader.deadline
          /\ bundle'.generation = reader.before.number /\ bundle'.members = reader.members
          /\ bundle'.previous = reader.previous
      BY <1>c, <3>1
    <3>4. Past(reader.before.number) /\ InForce(reader.deadline, reader.before)
      BY <1>6 DEF ReadAgain, ReaderInv
    <3>5. AllOf(bundle'.generation, bundle'.members) /\ AllOf(bundle'.generation - 1, bundle'.previous)
      BY <3>3 DEF ReaderInv
    <3>6. KnownInv'
      BY <1>a, <1>e, <1>f, <2>1, <3>3, <3>4, <3>5 DEF KnownInv
    <3> QED
      BY <3>2, <3>6
  <2>2. CASE generation # reader.before /\ reader.attempt = 3
    BY <1>6, <2>2, ReaderResets DEF ReadAgain, Throws
  <2>3. CASE generation # reader.before /\ reader.attempt # 3
    <3> DEFINE k == reader.attempt + 1
    <3>1. /\ reader' = [reader EXCEPT !.step = "generation", !.attempt = k]
          /\ known' = known /\ bundle' = bundle /\ reader.step = "again"
      BY <1>6, <2>3 DEF ReadAgain
    <3>2. k \in 1 .. 3
      BY <1>c, <2>3
    <3> HIDE DEF k
    <3>3. /\ reader' \in ReaderStates /\ reader'.step = "generation" /\ reader'.before = reader.before
          /\ reader'.members = reader.members /\ reader'.previous = reader.previous
          /\ reader'.checked = reader.checked
      BY <1>c, <3>1, <3>2 DEF ReaderStates
    <3>4. ReaderInv'
      BY <3>1, <3>3 DEF ReaderInv
    <3> QED
      BY <3>1, <3>4, <1>d
  <2> QED
    BY <2>1, <2>2, <2>3
<1> QED
  BY <1>1, <1>2, <1>3, <1>4, <1>5, <1>6 DEF ReaderSteps

\* The fields of a loader that is idle.
LEMMA NoLoadFields ==
  NoLoad \in LoaderStates /\ NoLoad.step = "idle" /\ NoLoad.members = <<>> /\ NoLoad.index = 1
<1>1. 1 \in 1 .. Len(Members) + 1 /\ <<>> \in Seq(Nat)
  BY RotationAssumption
<1> QED
  BY <1>1, NoReadFields DEF NoLoad, LoaderStates

\* The steps of the others keep what the loader relies on.
LEMMA LoaderKept ==
  ASSUME CredentialInv, RotationSteps \/ TimePasses \/ ReaderSteps
  PROVE  LoaderInv'
<1> USE DEF CredentialInv
<1>a. loader' = loader /\ context' = context
  BY CredentialFrames
<1>b. \A n : Past(n) => Past(n)'
  <2>1. ASSUME NEW n, Past(n) PROVE Past(n)'
    <3>1. CASE RotationSteps
      BY <2>1, <3>1, PastStays
    <3>2. CASE TimePasses \/ ReaderSteps
      BY <2>1, <3>2, CredentialFrames DEF Past
    <3> QED
      BY <3>1, <3>2
  <2> QED
    BY <2>1
<1>c. loader.step \in {"load", "again"} /\ generation' = loader.before => generation = loader.before
  <2>1. CASE RotationSteps
    BY <2>1, NoReturn DEF LoaderInv
  <2>2. CASE TimePasses \/ ReaderSteps
    BY <2>2, CredentialFrames
  <2> QED
    BY <2>1, <2>2
<1> QED
  BY <1>a, <1>b, <1>c DEF LoaderInv

\* A step of the loader keeps its invariant (tcp_transport.cpp, TLS context).
LEMMA LoaderStep ==
  ASSUME CredentialInv, LoaderSteps
  PROVE  LoaderInv'
<1> USE DEF CredentialInv
<1>a. /\ clock' = clock /\ generation' = generation /\ file' = file /\ rotation' = rotation
  BY CredentialFrames
<1>b. /\ Len(Members) \in Nat /\ Len(Members) \in Index /\ 1 \in Index /\ Index \subseteq Nat
      /\ generation \in Generations /\ generation.number \in Nat
      /\ generation.publishing \in BOOLEAN
      /\ \A i \in Index : file[i] \in Nat
  BY CredentialFacts
<1>c. /\ loader \in LoaderStates /\ loader.before \in Generations /\ loader.members \in Seq(Nat)
      /\ loader.index \in 1 .. Len(Members) + 1
  BY DEF LoaderInv, LoaderStates
<1>d. \A n : Past(n) => Past(n)'
  BY <1>a DEF Past
<1>e. ASSUME loader' = NoLoad, context' = context PROVE LoaderInv'
  BY <1>e, NoLoadFields DEF LoaderInv
<1>1. CASE LoadCall
  <2>1. loader' = [NoLoad EXCEPT !.step = "generation"] /\ context' = context
    BY <1>1 DEF LoadCall
  <2>2. loader' \in LoaderStates /\ loader'.step = "generation" /\ loader'.members = <<>> /\ loader'.index = 1
    BY <2>1, NoLoadFields DEF LoaderStates
  <2> QED
    BY <1>b, <2>1, <2>2 DEF LoaderInv
<1>2. CASE LoadGeneration
  <2>1. CASE generation.publishing \/ generation.number < context.generation
    BY <1>2, <2>1, <1>e DEF LoadGeneration
  <2>2. CASE ~(generation.publishing \/ generation.number < context.generation)
    <3>1. loader' = [loader EXCEPT !.step = "hash", !.before = generation] /\ context' = context
          /\ loader.step = "generation"
      BY <1>2, <2>2 DEF LoadGeneration
    <3>2. loader' \in LoaderStates /\ loader'.step = "hash" /\ loader'.before = generation
          /\ loader'.members = loader.members /\ loader'.index = loader.index
      BY <1>b, <1>c, <3>1 DEF LoaderStates
    <3>3. Past(generation.number)
      BY <1>b, <2>2 DEF Past, RotationInv, Publishing
    <3>4. loader.index \in Index
      BY <3>1 DEF LoaderInv
    <3> QED
      BY <1>a, <1>d, <2>2, <3>1, <3>2, <3>3, <3>4 DEF LoaderInv
  <2> QED
    BY <2>1, <2>2
<1>3. CASE HashMember
  <2>a. loader.step = "hash" /\ loader.index \in Index /\ context' = context
    BY <1>3 DEF HashMember, LoaderInv
  <2>1. CASE loader' = NoLoad
    BY <2>1, <2>a, <1>e
  <2>2. CASE loader' = [loader EXCEPT !.index = @ + 1] /\ loader.index < Len(Members)
    <3> DEFINE k == loader.index + 1
    <3>1. k \in 1 .. Len(Members) + 1 /\ k \in Index
      BY <1>b, <2>a, <2>2 DEF Index
    <3>2. loader' = [loader EXCEPT !.index = k]
      BY <2>2
    <3> HIDE DEF k
    <3>3. loader' \in LoaderStates /\ loader'.step = "hash" /\ loader'.before = loader.before
          /\ loader'.members = loader.members /\ loader'.index = k
      BY <1>c, <2>a, <3>1, <3>2 DEF LoaderStates
    <3> QED
      BY <1>a, <1>d, <2>a, <3>1, <3>3 DEF LoaderInv
  <2>3. CASE loader' = [loader EXCEPT !.step = "load", !.index = 1]
    <3>1. 1 \in 1 .. Len(Members) + 1
      BY <1>b
    <3>2. loader' \in LoaderStates /\ loader'.step = "load" /\ loader'.before = loader.before
          /\ loader'.members = loader.members /\ loader'.index = 1
      BY <1>c, <2>3, <3>1 DEF LoaderStates
    <3>3. loader.members = <<>>
      BY <2>a DEF LoaderInv
    <3> QED
      BY <1>a, <1>b, <1>d, <2>a, <3>2, <3>3, AllOfEmpty DEF LoaderInv
  <2> QED
    BY <1>3, <2>1, <2>2, <2>3 DEF HashMember
<1>4. CASE LoadMember
  <2> DEFINE m == Append(loader.members, file[loader.index])
             k == loader.index + 1
             s == IF loader.index = Len(Members) THEN "again" ELSE "load"
  <2>1. loader' = [loader EXCEPT !.members = m, !.index = k, !.step = s] /\ context' = context
    BY <1>4 DEF LoadMember
  <2>2. loader.step = "load" /\ loader.index \in Index
    BY <1>4 DEF LoadMember, LoaderInv
  <2>3. m \in Seq(Nat)
    BY <1>b, <1>c, <2>2
  <2>4. generation = loader.before => AllOf(loader.before.number, m)
    <3>1. ASSUME generation = loader.before PROVE file[loader.index] = loader.before.number
      BY <2>2, <3>1 DEF LoaderInv, RotationInv, Publishing
    <3> QED
      BY <1>b, <1>c, <2>2, <3>1, AllOfAppend DEF LoaderInv
  <2>5. k \in 1 .. Len(Members) + 1 /\ (s = "load" => k \in Index) /\ s \in {"load", "again"}
    BY <1>b, <2>2 DEF Index
  <2> HIDE DEF m, k, s
  <2>6. /\ loader' \in LoaderStates /\ loader'.step = s /\ loader'.before = loader.before
        /\ loader'.members = m /\ loader'.index = k
    BY <1>c, <2>1, <2>3, <2>5 DEF LoaderStates
  <2> QED
    BY <1>a, <1>d, <2>1, <2>2, <2>4, <2>5, <2>6 DEF LoaderInv
<1>5. CASE LoadAgain
  <2>1. loader.step = "again" /\ loader' = NoLoad
    BY <1>5 DEF LoadAgain
  <2>2. AllOf(context'.generation, context'.members)
    <3>1. CASE Unchanged
      <4>1. context'.generation = loader.before.number /\ context'.members = loader.members
        BY <1>5, <3>1 DEF LoadAgain
      <4>2. AllOf(loader.before.number, loader.members)
        BY <2>1, <3>1 DEF LoaderInv, Unchanged
      <4> QED
        BY <4>1, <4>2
    <3>2. CASE ~Unchanged
      BY <1>5, <3>2 DEF LoadAgain, LoaderInv
    <3> QED
      BY <3>1, <3>2
  <2> QED
    BY <2>1, <2>2, NoLoadFields DEF LoaderInv
<1> QED
  BY <1>1, <1>2, <1>3, <1>4, <1>5 DEF LoaderSteps

\* The types of the rotation and its readers are kept.
LEMMA CredentialTypes ==
  ASSUME CredentialInv, CredentialNext, RotationInv', ReaderInv', LoaderInv'
  PROVE  CredentialTypeOK'
<1> USE DEF CredentialInv
<1>1. RotationSteps \/ ReaderSteps \/ LoaderSteps \/ TimePasses
  BY DEF CredentialNext, RotationSteps, ReaderSteps, LoaderSteps
<1>2. MaxNow \in Nat /\ MaxReads \in Nat /\ clock \in 0 .. MaxNow /\ reads \in 0 .. MaxReads
  BY RotationAssumption DEF CredentialTypeOK
<1>3. clock' \in 0 .. MaxNow
  BY <1>1, <1>2, CredentialFrames
<1>4. reads' \in 0 .. MaxReads
  <2>1. CASE RotationSteps \/ TimePasses
    BY <1>2, <2>1, CredentialFrames
  <2>2. CASE ReaderSteps
    BY <1>2, <2>2 DEF ReaderSteps, ReadCall, ReadGeneration, ReadMember, CheckDeadline, ReadPrevious, ReadAgain
  <2>3. CASE LoaderSteps
    BY <1>2, <2>3 DEF LoaderSteps, LoadCall, LoadGeneration, HashMember, LoadMember, LoadAgain
  <2> QED
    BY <1>1, <2>1, <2>2, <2>3
<1>5. /\ generation' \in [number : 0 .. MaxGeneration, publishing : BOOLEAN, expires : 0 .. MaxNow + Grace]
      /\ file' \in [Index -> 1 .. MaxGeneration] /\ previousFile' \in [Index -> 0 .. MaxGeneration]
  <2>1. CASE RotationSteps
    BY <2>1, RotationStep
  <2>2. CASE ~RotationSteps
    BY <1>1, <2>2, CredentialFrames DEF CredentialTypeOK
  <2> QED
    BY <2>1, <2>2
<1>6. rotation'.step \in {"idle", "previous", "member", "publish", "killed"} /\ rotation'.index \in Index
  BY DEF RotationInv
<1>7. /\ reader'.step \in {"idle", "generation", "member", "deadline", "previous", "again"}
      /\ reader'.attempt \in 1 .. 3 /\ reader'.index \in 1 .. Len(Members) + 1
  BY DEF ReaderInv, ReaderStates
<1>8. loader'.step \in {"idle", "generation", "hash", "load", "again"}
  BY DEF LoaderInv, LoaderStates
<1> QED
  BY <1>3, <1>4, <1>5, <1>6, <1>7, <1>8 DEF CredentialTypeOK

\* The rotation begins in its invariant.
LEMMA CredentialInitially == CredentialInit => CredentialInv
<1> SUFFICES ASSUME CredentialInit PROVE CredentialInv
  OBVIOUS
<1>1. /\ Len(Members) \in Nat \ {0} /\ Grace \in Nat /\ MaxNow \in Nat \ {0} /\ MaxGeneration \in Nat \ {0}
      /\ MaxReads \in Nat \ {0}
  BY RotationAssumption
<1>2. /\ generation.number = 1 /\ generation.publishing = FALSE /\ generation.expires = 0
      /\ generation \in [number : 0 .. MaxGeneration, publishing : BOOLEAN, expires : 0 .. MaxNow + Grace]
  BY <1>1 DEF CredentialInit, Metadata
<1>3. /\ rotation \in [step : {"idle", "previous", "member", "publish", "killed"}, index : Index]
      /\ rotation.step = "idle" /\ rotation.index \in Index
  BY <1>1 DEF CredentialInit, Quiet, Index
<1>4. file \in [Index -> 1 .. MaxGeneration] /\ previousFile \in [Index -> 0 .. MaxGeneration]
      /\ \A i \in Index : file[i] = 1
  BY <1>1 DEF CredentialInit
<1>5. RotationInv
  BY <1>2, <1>3, <1>4 DEF RotationInv
<1>6. reader = NoRead /\ loader = NoLoad /\ known = [generation |-> 0, deadline |-> 0]
      /\ bundle.members = <<>> /\ bundle.previous = <<>> /\ context.members = <<>>
      /\ clock = 0 /\ reads = 0
  BY DEF CredentialInit
<1>7. ReaderInv /\ LoaderInv
  BY <1>6, NoReadFields, NoLoadFields, AllOfEmpty DEF ReaderInv, LoaderInv
<1>8. KnownInv
  <2>1. known.generation = 0 /\ known.deadline = 0 /\ known \in [generation : Nat, deadline : Nat]
    BY <1>6
  <2> QED
    BY <1>2, <1>3, <1>6, <2>1, AllOfEmpty DEF KnownInv, Past, InForce
<1>9. CredentialTypeOK
  <2>1. clock \in 0 .. MaxNow /\ reads \in 0 .. MaxReads
    BY <1>1, <1>6
  <2>2. /\ reader.step \in {"idle", "generation", "member", "deadline", "previous", "again"}
        /\ reader.attempt \in 1 .. 3 /\ reader.index \in 1 .. Len(Members) + 1
        /\ loader.step \in {"idle", "generation", "hash", "load", "again"}
    BY <1>7 DEF ReaderInv, LoaderInv, ReaderStates, LoaderStates
  <2> QED
    BY <1>2, <1>3, <1>4, <2>1, <2>2 DEF CredentialTypeOK
<1> QED
  BY <1>5, <1>7, <1>8, <1>9 DEF CredentialInv

\* Every step of the rotation and its readers keeps their invariant.
LEMMA CredentialStep == CredentialInv /\ [CredentialNext]_credentialVars => CredentialInv'
<1>1. ASSUME CredentialInv, CredentialNext PROVE CredentialInv'
  <2>1. RotationSteps \/ ReaderSteps \/ LoaderSteps \/ TimePasses
    BY <1>1 DEF CredentialNext, RotationSteps, ReaderSteps, LoaderSteps
  <2>2. RotationInv'
    <3>1. CASE RotationSteps
      BY <1>1, <3>1, RotationStep DEF CredentialInv
    <3>2. CASE ~RotationSteps
      BY <1>1, <2>1, <3>2, CredentialFrames DEF CredentialInv, RotationInv
    <3> QED
      BY <3>1, <3>2
  <2>3. ReaderInv' /\ KnownInv'
    BY <1>1, <2>1, ReaderKept, ReaderStep
  <2>4. LoaderInv'
    BY <1>1, <2>1, LoaderKept, LoaderStep
  <2> QED
    BY <1>1, <2>2, <2>3, <2>4, CredentialTypes DEF CredentialInv
<1>2. ASSUME CredentialInv, UNCHANGED credentialVars PROVE CredentialInv'
  <2>1. UNCHANGED <<clock, generation, file, previousFile, rotation, reader, known, bundle, loader, context, reads>>
    BY <1>2 DEF credentialVars, rotationVars, readerVars
  <2>2. CredentialTypeOK' /\ RotationInv'
    BY <1>2, <2>1 DEF CredentialInv, CredentialTypeOK, RotationInv
  <2>3. (\A n : Past(n) => Past(n)') /\ (\A d, m : InForce(d, m) => InForce(d, m)')
    BY <2>1 DEF Past, InForce
  <2>4. ReaderInv'
    BY <1>2, <2>1, <2>3 DEF CredentialInv, ReaderInv
  <2>5. KnownInv'
    BY <1>2, <2>1, <2>3 DEF CredentialInv, KnownInv
  <2>6. LoaderInv'
    BY <1>2, <2>1, <2>3 DEF CredentialInv, LoaderInv
  <2> QED
    BY <2>2, <2>4, <2>5, <2>6 DEF CredentialInv
<1> QED
  BY <1>1, <1>2

\* The invariant gives OneGeneration.
LEMMA CredentialImplies == CredentialInv => OneGeneration
  BY DEF CredentialInv, ReaderInv, KnownInv, LoaderInv, OneGeneration
-----------------------------------------------------------------------------
(***************************************************************************)
(* The history store.                                                      *)
(***************************************************************************)
Requests ==
  [type : {"batch"}, records : Seq(Records)] \cup [type : {"query"}, query : 1 .. MaxQueries]
  \cup [type : {"close"}]
PortsTyped ==
  /\ toMain \in Seq(Messages) /\ toWorker \in Seq(Requests)
  /\ accepted \in 0 .. MaxRecords /\ queries \in 0 .. MaxQueries /\ maintenance \in Nat

\* The batches in a message port, at most one
Positions(port) == {i \in DOMAIN port : port[i].type = "batch"}
Batches(port) == {port[i] : i \in Positions(port)}
Single(port) == \A i, j \in Positions(port) : i = j
Handed == Batches(toWorker)
Answered == Batches(toMain)

\* The books, for a queue q, f records in flight, w written, x failed, n accepted
\* and the sequence c committed, with the batches H handed over and A answered
BooksTyped(q, f, w, x, n, c, H, A) ==
  /\ q \in Seq(Records) /\ f \in 0 .. BatchSize /\ w \in Nat /\ x \in Nat /\ n \in 0 .. MaxRecords
  /\ c \in Seq(Records)
  /\ \A h \in H : h.records \in Seq(Records)
  /\ \A a \in A : a.written \in Nat /\ a.failed \in Nat
Flight(f, H, A) ==
  /\ H = {} \/ A = {}
  /\ \A h \in H : Len(h.records) \in 1 .. BatchSize /\ (f # 0 => Len(h.records) = f)
  /\ \A a \in A : /\ a.written = 0 \/ a.failed = 0
                  /\ a.written + a.failed > 0 /\ (f # 0 => a.written + a.failed = f)
Count(q, f, w, x, n, c, H, A) ==
  /\ n <= w + x + Len(q) + f
  /\ w <= Len(c)
  /\ \A a \in A : w + a.written <= Len(c)
  /\ Len(c) + Len(q) <= n
  /\ \A h \in H : Len(c) + Len(h.records) + Len(q) <= n
  /\ x = 0 =>
       /\ f = 0 => n = Len(c) + Len(q)
       /\ \A a \in A : a.failed = 0 => n = Len(c) + Len(q)
       /\ \A h \in H : n = Len(c) + Len(h.records) + Len(q)
Order(q, n, c, H) ==
  /\ Rising(c) /\ Rising(q) /\ Before(c, q)
  /\ UpTo(c, n) /\ UpTo(q, n)
  /\ \A h \in H : /\ Rising(h.records) /\ UpTo(h.records, n)
                  /\ Before(c, h.records) /\ Before(h.records, q)
Books(q, f, w, x, n, c, H, A) ==
  BooksTyped(q, f, w, x, n, c, H, A) /\ Flight(f, H, A) /\ Count(q, f, w, x, n, c, H, A) /\ Order(q, n, c, H)

BooksInv == Books(queue, inFlight, written, failed, accepted, committed, Handed, Answered)
\* There is at most one batch on its way, and only while the store counts one
FlightInv ==
  /\ Single(toWorker) /\ Single(toMain)
  /\ storeStatus = "ready" /\ inFlight = 0 => Handed = {} /\ Answered = {}

ReadyFirst(port) == \A i \in DOMAIN port : port[i].type = "ready" => i = 1
HasReady(port) == \E i \in DOMAIN port : port[i].type = "ready"
Unready == worker \in {"none", "starting"} \/ HasReady(toMain)
\* The worker says that it is ready once, before anything else
StartInv ==
  /\ storeStatus = "disabled" => worker = "none"
  /\ worker \in {"none", "starting"} => toMain = <<>>
  /\ ReadyFirst(toMain)
  /\ Unready => /\ inFlight = 0 /\ Handed = {} /\ Answered = {} /\ waiting = {}
                /\ storeStatus \notin {"ready", "degraded"}

\* How far close has got
CloseInv ==
  /\ storeStatus = "degraded" => Drained
  /\ closePending => closing = "requested"
  /\ closing = "requested" => Drained
  /\ closing = "done" /\ ~closeError => Drained

StoreInv == PortsTyped /\ FlightInv /\ StartInv /\ CloseInv /\ BooksInv
HistoryInv == HistoryTypeOK /\ StoreInv
\* An empty port.
LEMMA PortEmpty == Batches(<<>>) = {} /\ Single(<<>>) /\ ReadyFirst(<<>>) /\ ~HasReady(<<>>)
  BY DEF Batches, Single, Positions, ReadyFirst, HasReady

\* Posting a message.
LEMMA PortAppend ==
  ASSUME NEW S, NEW q \in Seq(S), NEW m \in S
  PROVE  /\ Append(q, m) \in Seq(S)
         /\ m.type # "batch" => Batches(Append(q, m)) = Batches(q)
         /\ m.type = "batch" => Batches(Append(q, m)) = Batches(q) \cup {m}
         /\ Single(q) /\ (m.type = "batch" => Batches(q) = {}) => Single(Append(q, m))
         /\ m.type # "ready" => /\ ReadyFirst(q) => ReadyFirst(Append(q, m))
                                /\ HasReady(Append(q, m)) => HasReady(q)
<1> DEFINE p == Append(q, m)
           n == Len(q) + 1
<1>1. p \in Seq(S) /\ Len(q) \in Nat /\ DOMAIN q = 1 .. Len(q) /\ DOMAIN p = 1 .. n
      /\ p[n] = m /\ \A i \in 1 .. Len(q) : p[i] = q[i]
  OBVIOUS
<1>2. 1 .. n = (1 .. Len(q)) \cup {n} /\ n \notin 1 .. Len(q)
  BY <1>1
<1> HIDE DEF p, n
<1>3. CASE m.type = "batch"
  <2>1. Positions(p) = Positions(q) \cup {n}
    BY <1>1, <1>2, <1>3 DEF Positions
  <2>2. Batches(p) = Batches(q) \cup {m}
    BY <1>1, <1>2, <2>1 DEF Batches, Positions
  <2>3. Batches(q) = {} => Positions(q) = {}
    BY DEF Batches
  <2>4. Batches(q) = {} => Single(p)
    BY <2>1, <2>3 DEF Single
  <2> QED
    BY <1>1, <1>2, <1>3, <2>2, <2>4 DEF ReadyFirst, HasReady, p
<1>4. CASE m.type # "batch"
  <2>1. Positions(p) = Positions(q)
    BY <1>1, <1>2, <1>4 DEF Positions
  <2>2. Batches(p) = Batches(q)
    BY <1>1, <1>2, <2>1 DEF Batches, Positions
  <2>3. Single(q) => Single(p)
    BY <2>1 DEF Single
  <2> QED
    BY <1>1, <1>2, <1>4, <2>2, <2>3 DEF ReadyFirst, HasReady, p
<1> QED
  BY <1>3, <1>4

\* Taking a message.
LEMMA PortTail ==
  ASSUME NEW S, NEW q \in Seq(S), q # <<>>
  PROVE  /\ Tail(q) \in Seq(S) /\ Head(q) \in S
         /\ Head(q).type # "batch" => Batches(Tail(q)) = Batches(q)
         /\ Head(q).type = "batch" => Head(q) \in Batches(q)
         /\ Single(q) => Single(Tail(q))
         /\ Single(q) /\ Head(q).type = "batch" => Batches(Tail(q)) = {}
         /\ ReadyFirst(q) => /\ ReadyFirst(Tail(q)) /\ ~HasReady(Tail(q))
                             /\ HasReady(q) => Head(q).type = "ready"
         /\ Head(q).type = "ready" => HasReady(q)
<1> DEFINE p == Tail(q)
<1>1. /\ p \in Seq(S) /\ Len(q) \in Nat \ {0} /\ DOMAIN q = 1 .. Len(q) /\ DOMAIN p = 1 .. Len(q) - 1
      /\ Head(q) = q[1] /\ Head(q) \in S
      /\ \A i \in 1 .. Len(q) - 1 : p[i] = q[i + 1]
  OBVIOUS
<1> DEFINE n == Len(q)
<1>2. /\ \A i \in 1 .. n - 1 : i + 1 \in 1 .. n /\ i + 1 # 1
      /\ \A i \in 1 .. n : i = 1 \/ (i - 1 \in 1 .. n - 1 /\ (i - 1) + 1 = i)
      /\ 1 \in 1 .. n
      /\ \A i, j \in 1 .. n - 1 : i + 1 = j + 1 => i = j
  BY <1>1
<1> HIDE DEF p, n
<1>a. DOMAIN q = 1 .. n /\ DOMAIN p = 1 .. n - 1 /\ \A i \in 1 .. n - 1 : p[i] = q[i + 1]
  BY <1>1 DEF n
<1>3. \A i \in Positions(p) : i \in 1 .. n - 1 /\ i + 1 \in Positions(q) /\ p[i] = q[i + 1]
  BY <1>a, <1>2 DEF Positions
<1>4. \A i \in Positions(q) : i = 1 \/ (i - 1 \in Positions(p) /\ q[i] = p[i - 1])
  BY <1>a, <1>2 DEF Positions
<1>5. Batches(p) \subseteq Batches(q)
  BY <1>3 DEF Batches
<1>6. Head(q).type # "batch" => Batches(q) \subseteq Batches(p)
  <2> SUFFICES ASSUME Head(q).type # "batch", NEW i \in Positions(q) PROVE q[i] \in Batches(p)
    BY DEF Batches
  <2>1. i # 1
    BY <1>1 DEF Positions
  <2> QED
    BY <1>4, <2>1 DEF Batches
<1>7. Head(q).type = "batch" => 1 \in Positions(q) /\ Head(q) \in Batches(q)
  BY <1>1, <1>2, <1>a DEF Positions, Batches
<1>8. Single(q) => Single(p)
  <2> SUFFICES ASSUME Single(q), NEW i \in Positions(p), NEW j \in Positions(p) PROVE i = j
    BY DEF Single
  <2>1. i + 1 = j + 1
    BY <1>3 DEF Single
  <2> QED
    BY <1>2, <1>3, <2>1
<1>9. Single(q) /\ Head(q).type = "batch" => Batches(p) = {}
  <2> SUFFICES ASSUME Single(q), Head(q).type = "batch", NEW i \in Positions(p) PROVE FALSE
    BY DEF Batches
  <2>1. i + 1 = 1
    BY <1>3, <1>7 DEF Single
  <2> QED
    BY <1>2, <1>3, <2>1
<1>10. ReadyFirst(q) => /\ ReadyFirst(p) /\ ~HasReady(p)
                        /\ HasReady(q) => Head(q).type = "ready"
  BY <1>1, <1>2, <1>a DEF ReadyFirst, HasReady
<1>11. Head(q).type = "ready" => HasReady(q)
  BY <1>1, <1>2, <1>a DEF HasReady
<1> QED
  BY <1>1, <1>5, <1>6, <1>7, <1>8, <1>9, <1>10, <1>11 DEF p

\* Posting two or three messages is posting them one by one.
LEMMA PortConcat ==
  ASSUME NEW S, NEW q \in Seq(S), NEW a \in S, NEW b \in S, NEW c \in S
  PROVE  /\ q \o <<a>> = Append(q, a)
         /\ q \o <<a, b>> = Append(Append(q, a), b)
         /\ q \o <<a, b, c>> = Append(Append(Append(q, a), b), c)
<1>1. q \o <<a>> = Append(q, a)
  OBVIOUS
<1>2. q \o <<a, b>> = Append(Append(q, a), b)
  OBVIOUS
<1>3. q \o <<a, b, c>> = Append(Append(Append(q, a), b), c)
  OBVIOUS
<1> QED
  BY <1>1, <1>2, <1>3

\* What is assumed of the constants of the store.
LEMMA HistoryConstants ==
  /\ QueueCapacity \in Nat /\ BatchSize \in Nat \ {0} /\ MaxRows \in Nat \ {0} /\ MaxRecords \in Nat /\ MaxQueries \in Nat
  /\ BatchSize <= QueueCapacity /\ Records \subseteq Nat /\ 0 \in 0 .. BatchSize
  BY HistoryAssumption DEF Records

\* A queue is a batch and what remains of it.
LEMMA SplitQueue ==
  ASSUME NEW q \in Seq(Records), q # <<>>
  PROVE  /\ Batch(q) \in Seq(Records) /\ Rest(q) \in Seq(Records)
         /\ Len(Batch(q)) \in 1 .. BatchSize /\ Len(Batch(q)) + Len(Rest(q)) = Len(q)
         /\ \A i \in 1 .. Len(Batch(q)) : i \in 1 .. Len(q) /\ Batch(q)[i] = q[i]
         /\ \A i \in 1 .. Len(Rest(q)) : i + Len(Batch(q)) \in 1 .. Len(q) /\ Rest(q)[i] = q[i + Len(Batch(q))]
<1> DEFINE k == Least(BatchSize, Len(q))
           n == Len(q)
<1>1. n \in Nat \ {0} /\ DOMAIN q = 1 .. n /\ \A i \in 1 .. n : q[i] \in Records
  BY EmptySeq
<1>2. BatchSize \in Nat \ {0}
  BY HistoryConstants
<1>3. k \in 1 .. n /\ k <= BatchSize
  BY <1>1, <1>2 DEF Least
<1>4. Batch(q) = SubSeq(q, 1, k) /\ Rest(q) = SubSeq(q, k + 1, n)
  BY DEF Batch, Rest
<1> HIDE DEF k, n
<1>5. /\ SubSeq(q, 1, k) \in Seq(Records) /\ Len(SubSeq(q, 1, k)) = k
      /\ \A i \in 1 .. k : SubSeq(q, 1, k)[i] = q[i]
  <2>1. \A i \in 1 .. k : i \in 1 .. n
    BY <1>1, <1>3
  <2> QED
    BY <1>1, <1>3, <2>1
<1>6. /\ SubSeq(q, k + 1, n) \in Seq(Records) /\ Len(SubSeq(q, k + 1, n)) = n - k
      /\ \A i \in 1 .. n - k : SubSeq(q, k + 1, n)[i] = q[i + k]
  <2>1. \A i \in k + 1 .. n : i \in 1 .. n
    BY <1>1, <1>3
  <2>2. \A i \in 1 .. n - k : k + 1 + i - 1 = i + k
    BY <1>1, <1>3
  <2> QED
    BY <1>1, <1>3, <2>1, <2>2
<1>7. (\A i \in 1 .. k : i \in 1 .. n) /\ (\A i \in 1 .. n - k : i + k \in 1 .. n) /\ k + (n - k) = n /\ k \in 1 .. BatchSize
  BY <1>1, <1>2, <1>3
<1> QED
  BY <1>4, <1>5, <1>6, <1>7 DEF n

\* The order of a queue is that of the batch and what remains.
LEMMA SplitOrder ==
  ASSUME NEW q \in Seq(Records), q # <<>>
  PROVE  /\ Rising(q) => Rising(Batch(q)) /\ Rising(Rest(q)) /\ Before(Batch(q), Rest(q))
         /\ \A s : Before(s, q) => Before(s, Batch(q)) /\ Before(s, Rest(q))
         /\ \A n : UpTo(q, n) => UpTo(Batch(q), n) /\ UpTo(Rest(q), n)
<1> DEFINE b == Batch(q)
           r == Rest(q)
           k == Len(b)
<1>1. /\ b \in Seq(Records) /\ r \in Seq(Records) /\ k \in Nat /\ Len(r) \in Nat
      /\ DOMAIN b = 1 .. k /\ DOMAIN r = 1 .. Len(r) /\ DOMAIN q = 1 .. Len(q)
      /\ \A i \in 1 .. k : i \in 1 .. Len(q) /\ b[i] = q[i]
      /\ \A i \in 1 .. Len(r) : i + k \in 1 .. Len(q) /\ r[i] = q[i + k]
  BY SplitQueue
<1> HIDE DEF b, r, k
<1>2. \A i, j \in 1 .. Len(r) : i < j => i + k < j + k
  BY <1>1
<1>3. \A i \in 1 .. k, j \in 1 .. Len(r) : i < j + k
  BY <1>1
<1>4. Rising(q) => Rising(b) /\ Rising(r) /\ Before(b, r)
  BY <1>1, <1>2, <1>3 DEF Rising, Before
<1>5. \A s : Before(s, q) => Before(s, b) /\ Before(s, r)
  BY <1>1 DEF Before
<1>6. \A n : UpTo(q, n) => UpTo(b, n) /\ UpTo(r, n)
  BY <1>1 DEF UpTo
<1> QED
  BY <1>4, <1>5, <1>6 DEF b, r

\* The empty sequence is in order.
LEMMA EmptyOrder == \A s, n : Rising(<<>>) /\ Before(s, <<>>) /\ Before(<<>>, s) /\ UpTo(<<>>, n)
  BY DEF Rising, Before, UpTo

\* A new record comes after all others.
LEMMA AppendOrder ==
  ASSUME NEW q \in Seq(Records), NEW n \in Nat, n + 1 \in Records, Rising(q), UpTo(q, n)
  PROVE  /\ Rising(Append(q, n + 1)) /\ UpTo(Append(q, n + 1), n + 1)
         /\ \A s \in Seq(Records) : Before(s, q) /\ UpTo(s, n) => Before(s, Append(q, n + 1))
<1> DEFINE p == Append(q, n + 1)
           k == Len(q)
<1>1. /\ k \in Nat /\ DOMAIN q = 1 .. k /\ DOMAIN p = 1 .. k + 1 /\ p[k + 1] = n + 1
      /\ \A i \in 1 .. k : p[i] = q[i] /\ q[i] \in Records
  OBVIOUS
<1>2. \A i \in 1 .. k + 1 : i \in 1 .. k \/ i = k + 1
  BY <1>1
<1>3. \A i \in 1 .. k : q[i] \in Nat /\ q[i] <= n
  BY <1>1, HistoryConstants DEF UpTo
<1>a. \A i \in 1 .. k : i < k + 1 /\ ~(k + 1 < i)
  BY <1>1
<1>b. ~(k + 1 < k + 1)
  BY <1>1
<1> HIDE DEF p, k
<1>4. Rising(p)
  <2> SUFFICES ASSUME NEW i \in 1 .. k + 1, NEW j \in 1 .. k + 1, i < j PROVE p[i] < p[j]
    BY <1>1 DEF Rising
  <2>1. i \in 1 .. k
    BY <1>2, <1>a, <1>b
  <2>2. CASE j \in 1 .. k
    BY <1>1, <2>1, <2>2 DEF Rising
  <2>3. CASE j = k + 1
    BY <1>1, <1>3, <2>1, <2>3
  <2> QED
    BY <1>2, <2>2, <2>3
<1>5. UpTo(p, n + 1)
  <2> SUFFICES ASSUME NEW i \in 1 .. k + 1 PROVE p[i] <= n + 1
    BY <1>1 DEF UpTo
  <2> QED
    BY <1>1, <1>2, <1>3
<1>6. ASSUME NEW s \in Seq(Records), Before(s, q), UpTo(s, n) PROVE Before(s, p)
  <2> SUFFICES ASSUME NEW i \in DOMAIN s, NEW j \in 1 .. k + 1 PROVE s[i] < p[j]
    BY <1>1 DEF Before
  <2>1. s[i] \in Nat /\ s[i] <= n
    BY <1>6, SequenceFacts, HistoryConstants DEF UpTo
  <2> QED
    BY <1>1, <1>2, <1>6, <2>1 DEF Before
<1> QED
  BY <1>4, <1>5, <1>6 DEF p

\* A bound may be raised.
LEMMA UpToMore ==
  ASSUME NEW s \in Seq(Records), NEW n \in Nat, UpTo(s, n)
  PROVE  UpTo(s, n + 1)
<1>1. \A i \in DOMAIN s : s[i] \in Nat
  BY SequenceFacts, HistoryConstants
<1> QED
  BY <1>1 DEF UpTo

\* The sum stays when an answer moves what is in flight to the totals.
LEMMA AnswerCount ==
  ASSUME NEW n \in Nat, NEW w \in Nat, NEW x \in Nat, NEW q \in Nat, NEW f \in Nat, NEW a \in Nat, NEW b \in Nat,
         n <= w + x + q + f, f # 0 => a + b = f
  PROVE  n <= (w + a) + (x + b) + q + 0
OBVIOUS

\* The types of the books.
LEMMA BooksFacts ==
  ASSUME NEW q, NEW f, NEW w, NEW x, NEW n, NEW c, NEW H, NEW A, Books(q, f, w, x, n, c, H, A)
  PROVE  /\ q \in Seq(Records) /\ c \in Seq(Records) /\ f \in Nat /\ w \in Nat /\ x \in Nat /\ n \in Nat
         /\ f <= BatchSize /\ n <= MaxRecords /\ Len(q) \in Nat /\ Len(c) \in Nat
         /\ \A h \in H : h.records \in Seq(Records) /\ Len(h.records) \in Nat /\ Len(h.records) >= 1
                         /\ Len(h.records) <= BatchSize
         /\ \A a \in A : a.written \in Nat /\ a.failed \in Nat /\ a.written <= MaxRecords
         /\ w <= MaxRecords
<1>1. /\ q \in Seq(Records) /\ c \in Seq(Records) /\ f \in Nat /\ w \in Nat /\ x \in Nat /\ n \in Nat
      /\ f <= BatchSize /\ n <= MaxRecords
      /\ \A h \in H : h.records \in Seq(Records)
      /\ \A a \in A : a.written \in Nat /\ a.failed \in Nat
  BY HistoryConstants DEF Books, BooksTyped
<1>2. Len(q) \in Nat /\ Len(c) \in Nat /\ \A h \in H : Len(h.records) \in Nat
  BY <1>1, SequenceFacts
<1>3. \A h \in H : Len(h.records) >= 1 /\ Len(h.records) <= BatchSize
  BY HistoryConstants DEF Books, Flight
<1>4. w <= Len(c) /\ Len(c) + Len(q) <= n /\ \A a \in A : w + a.written <= Len(c)
  BY DEF Books, Count
<1>5. w <= MaxRecords /\ \A a \in A : a.written <= MaxRecords
  BY <1>1, <1>2, <1>4, HistoryConstants
<1> QED
  BY <1>1, <1>2, <1>3, <1>5

\* A batch or an answer that is lost only makes the books more cautious.
LEMMA BooksFewer ==
  ASSUME NEW q, NEW f, NEW w, NEW x, NEW n, NEW c, NEW H, NEW A, Books(q, f, w, x, n, c, H, A),
         NEW H1 \in SUBSET H, NEW A1 \in SUBSET A
  PROVE  Books(q, f, w, x, n, c, H1, A1)
<1>1. BooksTyped(q, f, w, x, n, c, H1, A1)
  BY DEF Books, BooksTyped
<1>2. Flight(f, H1, A1)
  BY DEF Books, Flight
<1>3. Count(q, f, w, x, n, c, H1, A1)
  BY DEF Books, Count
<1>4. Order(q, n, c, H1)
  BY DEF Books, Order
<1> QED
  BY <1>1, <1>2, <1>3, <1>4 DEF Books

\* Sending a batch (history.mjs, #drain).
LEMMA BooksDrain ==
  ASSUME NEW q, NEW w, NEW x, NEW n, NEW c, Books(q, 0, w, x, n, c, {}, {}), q # <<>>
  PROVE  Books(Rest(q), Len(Batch(q)), w, x, n, c, {[type |-> "batch", records |-> Batch(q)]}, {})
<1> DEFINE b == Batch(q)
           r == Rest(q)
           H == {[type |-> "batch", records |-> b]}
<1>1. /\ q \in Seq(Records) /\ c \in Seq(Records) /\ w \in Nat /\ x \in Nat /\ n \in Nat
      /\ Len(q) \in Nat /\ Len(c) \in Nat
  BY BooksFacts
<1>2. /\ b \in Seq(Records) /\ r \in Seq(Records) /\ Len(b) \in 1 .. BatchSize /\ Len(b) + Len(r) = Len(q)
      /\ Len(r) \in Nat /\ Len(b) \in Nat /\ Len(b) \in 0 .. BatchSize /\ Len(b) # 0
  BY <1>1, SplitQueue, SequenceFacts, HistoryConstants
<1>3. \A h \in H : h.records = b
  OBVIOUS
<1>4. Count(q, 0, w, x, n, c, {}, {}) /\ Order(q, n, c, {})
  BY DEF Books
<1>5. /\ Rising(b) /\ Rising(r) /\ Before(b, r) /\ Before(c, b) /\ Before(c, r) /\ UpTo(b, n) /\ UpTo(r, n)
      /\ Rising(c) /\ UpTo(c, n)
  BY <1>1, <1>4, SplitOrder DEF Order
<1> HIDE DEF b, r, H
<1>6. BooksTyped(r, Len(b), w, x, n, c, H, {})
  BY <1>1, <1>2, <1>3 DEF BooksTyped, Books
<1>7. Flight(Len(b), H, {})
  BY <1>2, <1>3 DEF Flight
<1>8. Count(r, Len(b), w, x, n, c, H, {})
  <2>1. /\ n <= w + x + Len(q) + 0 /\ w <= Len(c) /\ Len(c) + Len(q) <= n
        /\ x = 0 => n = Len(c) + Len(q)
    BY <1>4 DEF Count
  <2>2. /\ n <= w + x + Len(r) + Len(b) /\ Len(c) + Len(r) <= n /\ Len(c) + Len(b) + Len(r) <= n
        /\ x = 0 => n = Len(c) + Len(b) + Len(r)
    <3> DEFINE i == Len(b)
               j == Len(r)
               k == Len(q)
               l == Len(c)
    <3>1. /\ i \in Nat /\ j \in Nat /\ k \in Nat /\ l \in Nat /\ i + j = k /\ n <= w + x + k + 0 /\ l + k <= n
          /\ x = 0 => n = l + k
      BY <1>1, <1>2, <2>1
    <3>2. w \in Nat /\ x \in Nat /\ n \in Nat
      BY <1>1
    <3> HIDE DEF i, j, k, l
    <3>3. n <= w + x + j + i /\ l + j <= n /\ l + i + j <= n /\ (x = 0 => n = l + i + j)
      BY <3>1, <3>2
    <3> QED
      BY <3>3 DEF i, j, k, l
  <2> QED
    BY <1>2, <1>3, <2>1, <2>2 DEF Count
<1>9. Order(r, n, c, H)
  BY <1>3, <1>5 DEF Order
<1> QED
  BY <1>6, <1>7, <1>8, <1>9 DEF Books, b, r, H

\* Accepting a record (history.mjs, enqueue).
LEMMA BooksEnqueue ==
  ASSUME NEW q, NEW f, NEW w, NEW x, NEW n, NEW c, NEW H, NEW A, Books(q, f, w, x, n, c, H, A), n < MaxRecords
  PROVE  Books(Append(q, n + 1), f, w, x, n + 1, c, H, A)
<1> DEFINE p == Append(q, n + 1)
<1>1. /\ q \in Seq(Records) /\ c \in Seq(Records) /\ f \in Nat /\ w \in Nat /\ x \in Nat /\ n \in Nat
      /\ Len(q) \in Nat /\ Len(c) \in Nat
      /\ \A h \in H : h.records \in Seq(Records) /\ Len(h.records) \in Nat
      /\ \A a \in A : a.written \in Nat
  BY BooksFacts
<1>2. n + 1 \in Records /\ n + 1 \in 0 .. MaxRecords
  BY <1>1, HistoryConstants DEF Records
<1>3. p \in Seq(Records) /\ Len(p) = Len(q) + 1
  BY <1>1, <1>2
<1>4. Count(q, f, w, x, n, c, H, A) /\ Order(q, n, c, H)
  BY DEF Books
<1>5. /\ Rising(q) /\ UpTo(q, n) /\ UpTo(c, n) /\ Before(c, q)
      /\ \A h \in H : UpTo(h.records, n) /\ Before(h.records, q)
  BY <1>4 DEF Order
<1>6. /\ Rising(p) /\ UpTo(p, n + 1)
      /\ \A s \in Seq(Records) : Before(s, q) /\ UpTo(s, n) => Before(s, p)
  BY <1>1, <1>2, <1>5, AppendOrder
<1>7. UpTo(c, n + 1) /\ \A h \in H : UpTo(h.records, n + 1)
  BY <1>1, <1>5, UpToMore
<1> HIDE DEF p
<1>8. BooksTyped(p, f, w, x, n + 1, c, H, A)
  BY <1>2, <1>3 DEF Books, BooksTyped
<1>9. Count(p, f, w, x, n + 1, c, H, A)
  <2> DEFINE k == Len(q)
             l == Len(c)
  <2>0. k \in Nat /\ l \in Nat /\ w \in Nat /\ x \in Nat /\ n \in Nat /\ f \in Nat
    BY <1>1
  <2> HIDE DEF k, l
  <2>a. /\ n <= w + x + k + f => n + 1 <= w + x + (k + 1) + f
        /\ l + k <= n => l + (k + 1) <= n + 1
        /\ n = l + k => n + 1 = l + (k + 1)
        /\ \A h \in Nat : l + h + k <= n => l + h + (k + 1) <= n + 1
        /\ \A h \in Nat : n = l + h + k => n + 1 = l + h + (k + 1)
    BY <2>0
  <2> USE DEF k, l
  <2>b. /\ n <= w + x + Len(q) + f /\ Len(c) + Len(q) <= n
        /\ \A h \in H : Len(c) + Len(h.records) + Len(q) <= n
        /\ x = 0 => /\ f = 0 => n = Len(c) + Len(q)
                    /\ \A a \in A : a.failed = 0 => n = Len(c) + Len(q)
                    /\ \A h \in H : n = Len(c) + Len(h.records) + Len(q)
    BY <1>4 DEF Count
  <2>1. /\ n + 1 <= w + x + Len(p) + f /\ Len(c) + Len(p) <= n + 1
        /\ \A h \in H : Len(c) + Len(h.records) + Len(p) <= n + 1
    BY <1>1, <1>3, <2>a, <2>b, Zenon
  <2>2. x = 0 => /\ f = 0 => n + 1 = Len(c) + Len(p)
                 /\ \A a \in A : a.failed = 0 => n + 1 = Len(c) + Len(p)
                 /\ \A h \in H : n + 1 = Len(c) + Len(h.records) + Len(p)
    BY <1>1, <1>3, <2>a, <2>b, Zenon
  <2> QED
    BY <1>4, <2>1, <2>2 DEF Count
<1>10. Order(p, n + 1, c, H)
  BY <1>1, <1>4, <1>5, <1>6, <1>7 DEF Order
<1> QED
  BY <1>8, <1>9, <1>10 DEF Books, p

\* Counting what is queued and in flight as failed (history.mjs, #degrade).
LEMMA BooksDegrade ==
  ASSUME NEW q, NEW f, NEW w, NEW x, NEW n, NEW c, NEW H, NEW A, Books(q, f, w, x, n, c, H, A)
  PROVE  Books(<<>>, 0, w, x + (f + Len(q)), n, c, H, A)
<1>1. /\ q \in Seq(Records) /\ c \in Seq(Records) /\ f \in Nat /\ w \in Nat /\ x \in Nat /\ n \in Nat
      /\ Len(q) \in Nat /\ Len(c) \in Nat
      /\ \A h \in H : h.records \in Seq(Records) /\ Len(h.records) \in Nat
      /\ \A a \in A : a.written \in Nat /\ a.failed \in Nat
  BY BooksFacts
<1>2. Len(<<>>) = 0 /\ <<>> \in Seq(Records) /\ x + (f + Len(q)) \in Nat
  BY <1>1
<1>3. Count(q, f, w, x, n, c, H, A) /\ Order(q, n, c, H)
  BY DEF Books
<1>4. BooksTyped(<<>>, 0, w, x + (f + Len(q)), n, c, H, A)
  BY <1>2, HistoryConstants DEF Books, BooksTyped
<1>5. Flight(0, H, A)
  BY DEF Books, Flight
<1>6. Count(<<>>, 0, w, x + (f + Len(q)), n, c, H, A)
  <2>1. /\ n <= w + (x + (f + Len(q))) + 0 + 0 /\ Len(c) + 0 <= n
        /\ \A h \in H : Len(c) + Len(h.records) + 0 <= n
    BY <1>1, <1>3 DEF Count
  <2>2. x + (f + Len(q)) = 0 => x = 0 /\ f = 0 /\ Len(q) = 0
    BY <1>1
  <2> QED
    BY <1>2, <1>3, <2>1, <2>2 DEF Count
<1>7. Order(<<>>, n, c, H)
  BY <1>3, EmptyOrder DEF Order
<1> QED
  BY <1>4, <1>5, <1>6, <1>7 DEF Books

\* Counting what is queued as failed (history.mjs, close).
LEMMA BooksFail ==
  ASSUME NEW q, NEW f, NEW w, NEW x, NEW n, NEW c, NEW H, NEW A, Books(q, f, w, x, n, c, H, A)
  PROVE  Books(<<>>, f, w, x + Len(q), n, c, H, A)
<1>1. /\ q \in Seq(Records) /\ c \in Seq(Records) /\ f \in Nat /\ w \in Nat /\ x \in Nat /\ n \in Nat
      /\ Len(q) \in Nat /\ Len(c) \in Nat
      /\ \A h \in H : h.records \in Seq(Records) /\ Len(h.records) \in Nat
      /\ \A a \in A : a.written \in Nat /\ a.failed \in Nat
  BY BooksFacts
<1>2. Len(<<>>) = 0 /\ <<>> \in Seq(Records) /\ x + Len(q) \in Nat
  BY <1>1
<1>3. Count(q, f, w, x, n, c, H, A) /\ Order(q, n, c, H) /\ Flight(f, H, A)
  BY DEF Books
<1>4. BooksTyped(<<>>, f, w, x + Len(q), n, c, H, A)
  BY <1>2, HistoryConstants DEF Books, BooksTyped
<1>6. Count(<<>>, f, w, x + Len(q), n, c, H, A)
  <2>1. /\ n <= w + (x + Len(q)) + 0 + f /\ Len(c) + 0 <= n
        /\ \A h \in H : Len(c) + Len(h.records) + 0 <= n
    BY <1>1, <1>3 DEF Count
  <2>2. x + Len(q) = 0 => x = 0 /\ Len(q) = 0
    BY <1>1
  <2> QED
    BY <1>2, <1>3, <2>1, <2>2 DEF Count
<1>7. Order(<<>>, n, c, H)
  BY <1>3, EmptyOrder DEF Order
<1> QED
  BY <1>3, <1>4, <1>6, <1>7 DEF Books

\* Counting the answer to a batch (history.mjs, #onMessage).
LEMMA BooksAnswer ==
  ASSUME NEW q, NEW f, NEW w, NEW x, NEW n, NEW c, NEW H, NEW A, Books(q, f, w, x, n, c, H, A), NEW a \in A
  PROVE  H = {} /\ Books(q, 0, w + a.written, x + a.failed, n, c, {}, {})
<1>1. /\ q \in Seq(Records) /\ c \in Seq(Records) /\ f \in Nat /\ w \in Nat /\ x \in Nat /\ n \in Nat
      /\ Len(q) \in Nat /\ Len(c) \in Nat
      /\ a.written \in Nat /\ a.failed \in Nat
  BY BooksFacts
<1>2. Count(q, f, w, x, n, c, H, A) /\ Order(q, n, c, H) /\ Flight(f, H, A)
  BY DEF Books
<1>3. BooksTyped(q, 0, w + a.written, x + a.failed, n, c, {}, {})
  BY <1>1, HistoryConstants DEF Books, BooksTyped
<1>4. H = {} /\ Flight(0, {}, {})
  BY <1>2 DEF Flight
<1>5. Count(q, 0, w + a.written, x + a.failed, n, c, {}, {})
  <2>1. /\ f # 0 => a.written + a.failed = f
        /\ w + a.written <= Len(c) /\ Len(c) + Len(q) <= n /\ n <= w + x + Len(q) + f
        /\ x = 0 /\ a.failed = 0 => n = Len(c) + Len(q)
    BY <1>2 DEF Flight, Count
  <2>2. n <= (w + a.written) + (x + a.failed) + Len(q) + 0
    BY <1>1, <2>1, AnswerCount
  <2>3. x + a.failed = 0 => x = 0 /\ a.failed = 0
    BY <1>1
  <2> QED
    BY <2>1, <2>2, <2>3 DEF Count
<1>6. Order(q, n, c, {})
  BY <1>2 DEF Order
<1> QED
  BY <1>3, <1>4, <1>5, <1>6 DEF Books

\* The worker rolls a batch back (history-worker.mjs).
LEMMA BooksRollback ==
  ASSUME NEW q, NEW f, NEW w, NEW x, NEW n, NEW c, NEW H, NEW A, Books(q, f, w, x, n, c, H, A), NEW h \in H,
         NEW a, a.written = 0, a.failed = Len(h.records)
  PROVE  A = {} /\ Books(q, f, w, x, n, c, {}, {a})
<1>1. /\ q \in Seq(Records) /\ c \in Seq(Records) /\ f \in Nat /\ w \in Nat /\ x \in Nat /\ n \in Nat
      /\ Len(q) \in Nat /\ Len(c) \in Nat /\ Len(h.records) \in Nat /\ Len(h.records) >= 1
      /\ a.written \in Nat /\ a.failed \in Nat
  BY BooksFacts
<1>2. Count(q, f, w, x, n, c, H, A) /\ Order(q, n, c, H) /\ Flight(f, H, A)
  BY DEF Books
<1>3. BooksTyped(q, f, w, x, n, c, {}, {a})
  BY <1>1 DEF Books, BooksTyped
<1>4. A = {} /\ Flight(f, {}, {a})
  <2>1. A = {} /\ (f # 0 => Len(h.records) = f)
    BY <1>2 DEF Flight
  <2>2. a.written + a.failed = Len(h.records) /\ a.written + a.failed > 0
    BY <1>1
  <2> QED
    BY <2>1, <2>2 DEF Flight
<1>5. Count(q, f, w, x, n, c, {}, {a})
  <2>1. w + a.written = w /\ a.failed # 0
    BY <1>1
  <2> QED
    BY <1>2, <2>1 DEF Count
<1>6. Order(q, n, c, {})
  BY <1>2 DEF Order
<1> QED
  BY <1>3, <1>4, <1>5, <1>6 DEF Books

\* The worker commits a batch (history-worker.mjs).
LEMMA BooksCommit ==
  ASSUME NEW q, NEW f, NEW w, NEW x, NEW n, NEW c, NEW H, NEW A, Books(q, f, w, x, n, c, H, A), NEW h \in H,
         NEW a, a.failed = 0, a.written = Len(h.records)
  PROVE  A = {} /\ Books(q, f, w, x, n, c \o h.records, {}, {a})
<1> DEFINE d == c \o h.records
<1>1. /\ q \in Seq(Records) /\ c \in Seq(Records) /\ f \in Nat /\ w \in Nat /\ x \in Nat /\ n \in Nat
      /\ Len(q) \in Nat /\ Len(c) \in Nat /\ Len(h.records) \in Nat /\ Len(h.records) >= 1
      /\ h.records \in Seq(Records)
      /\ a.written \in Nat /\ a.failed \in Nat
  BY BooksFacts
<1>2. Count(q, f, w, x, n, c, H, A) /\ Order(q, n, c, H) /\ Flight(f, H, A)
  BY DEF Books
<1>3. /\ Rising(c) /\ Rising(h.records) /\ Before(c, h.records) /\ Before(c, q) /\ Before(h.records, q)
      /\ UpTo(c, n) /\ UpTo(h.records, n)
  BY <1>2 DEF Order
<1>4. /\ d \in Seq(Records) /\ Len(d) = Len(c) + Len(h.records) /\ Rising(d) /\ Before(d, q) /\ UpTo(d, n)
  BY <1>1, <1>3, ConcatOrder
<1> HIDE DEF d
<1>5. BooksTyped(q, f, w, x, n, d, {}, {a})
  BY <1>1, <1>4 DEF Books, BooksTyped
<1>6. A = {} /\ Flight(f, {}, {a})
  <2>1. A = {} /\ (f # 0 => Len(h.records) = f)
    BY <1>2 DEF Flight
  <2>2. a.written + a.failed = Len(h.records) /\ a.written + a.failed > 0
    BY <1>1
  <2> QED
    BY <2>1, <2>2 DEF Flight
<1>7. Count(q, f, w, x, n, d, {}, {a})
  <2>1. /\ n <= w + x + Len(q) + f /\ w <= Len(c) /\ Len(c) + Len(h.records) + Len(q) <= n
        /\ x = 0 => n = Len(c) + Len(h.records) + Len(q)
    BY <1>2 DEF Count
  <2>2. /\ w <= Len(d) /\ w + a.written <= Len(d) /\ Len(d) + Len(q) <= n
        /\ x = 0 => n = Len(d) + Len(q)
    BY <1>1, <1>4, <2>1
  <2> QED
    BY <2>1, <2>2 DEF Count
<1>8. Order(q, n, d, {})
  BY <1>2, <1>4 DEF Order
<1> QED
  BY <1>5, <1>6, <1>7, <1>8 DEF Books, d

\* The messages of the worker.
LEMMA MessageKinds ==
  /\ \A code \in {0, 1} : [type |-> "exit", code |-> code] \in Messages
  /\ \A t \in {"ready", "fatal", "maintenance-error", "error"} : [type |-> t] \in Messages
  /\ \A k \in 0 .. MaxQueries, e \in BOOLEAN : [type |-> "answer", query |-> k, error |-> e] \in Messages
  /\ \A w \in 0 .. BatchSize, x \in 0 .. BatchSize, e \in BOOLEAN :
       [type |-> "batch", written |-> w, failed |-> x, error |-> e] \in Messages
  BY DEF Messages

\* The messages to the worker.
LEMMA RequestKinds ==
  /\ \A r \in Seq(Records) : [type |-> "batch", records |-> r] \in Requests
  /\ \A k \in 1 .. MaxQueries : [type |-> "query", query |-> k] \in Requests
  /\ [type |-> "close"] \in Requests
  /\ \A m \in Requests : /\ m.type \in {"batch", "query", "close"}
                         /\ m.type = "batch" => m.records \in Seq(Records)
                         /\ m.type = "query" => m.query \in 1 .. MaxQueries
  BY DEF Requests

\* Sending the next batch, if it is time to (history.mjs, #drain).
LEMMA DrainStep ==
  ASSUME NEW q, NEW f, NEW w, NEW x, NEW n, NEW c, NEW A, NEW st, NEW allow,
         toWorker \in Seq(Requests), Single(toWorker), DrainQueue(q, f, st, allow),
         Books(q, f, w, x, n, c, Batches(toWorker), A),
         st = "ready" /\ f = 0 => Batches(toWorker) = {} /\ A = {}
  PROVE  /\ toWorker' \in Seq(Requests) /\ Single(toWorker')
         /\ Books(queue', inFlight', w, x, n, c, Batches(toWorker'), A)
         /\ st = "ready" /\ inFlight' = 0 => Batches(toWorker') = {} /\ A = {}
         /\ Len(queue') <= Len(q)
         /\ ~Drains(q, f, st, allow) => queue' = q /\ inFlight' = f /\ toWorker' = toWorker
<1>1. CASE ~Drains(q, f, st, allow)
  <2>1. queue' = q /\ inFlight' = f /\ toWorker' = toWorker
    BY <1>1 DEF DrainQueue
  <2>2. Len(q) \in Nat
    BY BooksFacts
  <2> QED
    BY <2>1, <2>2
<1>2. CASE Drains(q, f, st, allow)
  <2> DEFINE m == [type |-> "batch", records |-> Batch(q)]
  <2>1. f = 0 /\ q # <<>> /\ st = "ready" /\ Batches(toWorker) = {} /\ A = {}
    BY <1>2 DEF Drains
  <2>2. queue' = Rest(q) /\ inFlight' = Len(Batch(q)) /\ toWorker' = Append(toWorker, m)
    BY <1>2 DEF DrainQueue
  <2>3. Books(q, 0, w, x, n, c, {}, {})
    BY <2>1
  <2>4. q \in Seq(Records) /\ Len(q) \in Nat
    BY BooksFacts
  <2>5. Books(Rest(q), Len(Batch(q)), w, x, n, c, {m}, {})
    BY <2>1, <2>3, BooksDrain
  <2>6. /\ Batch(q) \in Seq(Records) /\ Rest(q) \in Seq(Records) /\ Len(Batch(q)) \in 1 .. BatchSize
        /\ Len(Batch(q)) + Len(Rest(q)) = Len(q)
    BY <2>1, <2>4, SplitQueue
  <2>7. Len(Rest(q)) <= Len(q) /\ Len(Batch(q)) # 0
    <3>1. Len(Rest(q)) \in Nat /\ Len(Batch(q)) \in Nat
      BY <2>6, SequenceFacts
    <3> QED
      BY <2>4, <2>6, <3>1, HistoryConstants
  <2>8. m \in Requests /\ m.type = "batch"
    BY <2>6, RequestKinds
  <2>9. toWorker' \in Seq(Requests) /\ Batches(toWorker') = {} \cup {m} /\ Single(toWorker')
    BY <2>1, <2>2, <2>8, PortAppend
  <2> HIDE DEF m
  <2>10. Batches(toWorker') = {m}
    BY <2>9
  <2> QED
    BY <1>2, <2>1, <2>2, <2>5, <2>7, <2>9, <2>10
<1> QED
  BY <1>1, <1>2

\* What terminating the worker leaves behind.
LEMMA TerminateStep ==
  ASSUME HistoryInv, Terminate
  PROVE  /\ worker' = "gone" /\ toWorker' = <<>> /\ committed' = committed /\ rows' = rows
         /\ toWorker' \in Seq(Requests) /\ Single(toWorker') /\ Batches(toWorker') = {}
         /\ toMain' \in Seq(Messages) /\ Single(toMain') /\ Batches(toMain') = Batches(toMain)
         /\ ReadyFirst(toMain') /\ (HasReady(toMain') => HasReady(toMain))
<1>1. /\ worker' = "gone" /\ toWorker' = <<>> /\ committed' = committed /\ rows' = rows
      /\ toMain' = IF worker = "gone" THEN toMain ELSE Append(toMain, Exit(1))
  BY DEF Terminate
<1>2. toMain \in Seq(Messages) /\ Single(toMain) /\ ReadyFirst(toMain)
  BY DEF HistoryInv, StoreInv, PortsTyped, FlightInv, StartInv
<1>3. Exit(1) \in Messages /\ Exit(1).type = "exit"
  BY MessageKinds DEF Exit
<1>4. CASE worker = "gone"
  BY <1>1, <1>2, <1>4, PortEmpty
<1>5. CASE worker # "gone"
  <2>1. toMain' = Append(toMain, Exit(1))
    BY <1>1, <1>5
  <2>2. /\ Append(toMain, Exit(1)) \in Seq(Messages) /\ Single(Append(toMain, Exit(1)))
        /\ Batches(Append(toMain, Exit(1))) = Batches(toMain)
        /\ ReadyFirst(Append(toMain, Exit(1))) /\ (HasReady(Append(toMain, Exit(1))) => HasReady(toMain))
    BY <1>2, <1>3, PortAppend
  <2> QED
    BY <1>1, <2>1, <2>2, PortEmpty
<1> QED
  BY <1>4, <1>5

\* What a step that leaves the books alone preserves
LEMMA QuietStep ==
  ASSUME HistoryInv, UNCHANGED <<queue, inFlight, written, failed, accepted, committed>>,
         Batches(toWorker') \in SUBSET Batches(toWorker), Batches(toMain') \in SUBSET Batches(toMain),
         Single(toWorker'), Single(toMain'), storeStatus' = "ready" => storeStatus = "ready"
  PROVE  FlightInv' /\ BooksInv'
<1>1. Books(queue, inFlight, written, failed, accepted, committed, Batches(toWorker), Batches(toMain))
  BY DEF HistoryInv, StoreInv, BooksInv, Handed, Answered
<1>2. Books(queue, inFlight, written, failed, accepted, committed, Batches(toWorker'), Batches(toMain'))
  BY <1>1, BooksFewer
<1>3. BooksInv'
  BY <1>2 DEF BooksInv, Handed, Answered
<1>4. FlightInv'
  BY DEF HistoryInv, StoreInv, FlightInv, Handed, Answered
<1> QED
  BY <1>3, <1>4

\* What the steps below need of the invariant.
LEMMA StoreFacts ==
  ASSUME HistoryInv
  PROVE  /\ toMain \in Seq(Messages) /\ toWorker \in Seq(Requests)
         /\ accepted \in 0 .. MaxRecords /\ queries \in 0 .. MaxQueries /\ maintenance \in Nat
         /\ Single(toWorker) /\ Single(toMain) /\ ReadyFirst(toMain)
         /\ Books(queue, inFlight, written, failed, accepted, committed, Batches(toWorker), Batches(toMain))
         /\ storeStatus = "ready" /\ inFlight = 0 => Batches(toWorker) = {} /\ Batches(toMain) = {}
         /\ queue \in Seq(Records) /\ Len(queue) \in Nat /\ inFlight \in Nat /\ failed \in Nat
         /\ closeError \in BOOLEAN /\ closePending \in BOOLEAN /\ late \in BOOLEAN /\ exitSeen \in BOOLEAN
<1>1. /\ toMain \in Seq(Messages) /\ toWorker \in Seq(Requests)
      /\ accepted \in 0 .. MaxRecords /\ queries \in 0 .. MaxQueries /\ maintenance \in Nat
      /\ Single(toWorker) /\ Single(toMain) /\ ReadyFirst(toMain)
  BY DEF HistoryInv, StoreInv, PortsTyped, FlightInv, StartInv
<1>2. /\ Books(queue, inFlight, written, failed, accepted, committed, Batches(toWorker), Batches(toMain))
      /\ storeStatus = "ready" /\ inFlight = 0 => Batches(toWorker) = {} /\ Batches(toMain) = {}
  BY DEF HistoryInv, StoreInv, BooksInv, FlightInv, Handed, Answered
<1>3. queue \in Seq(Records) /\ Len(queue) \in Nat /\ inFlight \in Nat /\ failed \in Nat
  BY <1>2, BooksFacts
<1>4. closeError \in BOOLEAN /\ closePending \in BOOLEAN /\ late \in BOOLEAN /\ exitSeen \in BOOLEAN
  BY Zenon DEF HistoryInv, HistoryTypeOK
<1> QED
  BY <1>1, <1>2, <1>3, <1>4

\* The constructor.
LEMMA ConstructStep ==
  ASSUME HistoryInv, Construct
  PROVE  StoreInv'
<1>1. /\ storeStatus = "disabled" /\ storeStatus' = "starting" /\ worker' = "starting"
      /\ UNCHANGED <<queue, inFlight, written, failed, waiting, closing, closeError, closePending, late,
                 exitSeen, committed, rows, toWorker, toMain, accepted, queries, maintenance>>
  BY DEF Construct
<1>2. FlightInv' /\ BooksInv'
  BY <1>1, QuietStep, StoreFacts
<1>3. PortsTyped' /\ StartInv' /\ CloseInv'
  BY <1>1 DEF HistoryInv, StoreInv, PortsTyped, StartInv, CloseInv, Unready, Drained, Handed, Answered
<1> QED
  BY <1>2, <1>3 DEF StoreInv

\* close is called, or one of its deadlines passes.
LEMMA CallSteps ==
  ASSUME HistoryInv, CloseCall \/ CloseDeadline \/ CloseRequestTimeout
  PROVE  StoreInv'
<1>1. UNCHANGED <<queue, inFlight, written, failed, committed, accepted, toWorker, toMain, worker, waiting,
                  queries, maintenance>>
  BY DEF CloseCall, CloseDeadline, CloseRequestTimeout, thread
<1>2. storeStatus' = storeStatus \/ storeStatus' = "closed"
  BY DEF CloseCall, CloseDeadline, CloseRequestTimeout
<1>3. FlightInv' /\ BooksInv'
  BY <1>1, <1>2, QuietStep, StoreFacts
<1>4. PortsTyped' /\ StartInv'
  BY <1>1, <1>2 DEF HistoryInv, StoreInv, PortsTyped, StartInv, Unready, Handed, Answered
<1>5. CloseInv'
  BY <1>1 DEF HistoryInv, StoreInv, CloseInv, Drained, CloseCall, CloseDeadline, CloseRequestTimeout
<1> QED
  BY <1>3, <1>4, <1>5 DEF StoreInv

\* A query or a request to close is posted.
LEMMA RequestSteps ==
  ASSUME HistoryInv, Query \/ CloseRequest
  PROVE  StoreInv'
<1>1. UNCHANGED <<queue, inFlight, written, failed, committed, accepted, toMain, worker, storeStatus, maintenance>>
  BY DEF Query, CloseRequest, thread
<1>2. MaxQueries \in Nat /\ queries \in 0 .. MaxQueries
  BY HistoryConstants, StoreFacts
<1>3. queries' \in 0 .. MaxQueries /\ (Query => queries + 1 \in 1 .. MaxQueries)
  BY <1>2 DEF Query, CloseRequest
<1>4. \/ toWorker' = toWorker
      \/ \E m \in Requests : m.type # "batch" /\ toWorker' = Append(toWorker, m)
  <2>1. CASE Query
    BY <1>3, <2>1, RequestKinds DEF Query
  <2>2. CASE CloseRequest
    BY <2>2, RequestKinds DEF CloseRequest
  <2> QED
    BY <2>1, <2>2
<1>5. toWorker' \in Seq(Requests) /\ Single(toWorker') /\ Batches(toWorker') = Batches(toWorker)
  <2>1. toWorker \in Seq(Requests) /\ Single(toWorker)
    BY StoreFacts
  <2>2. ASSUME NEW m \in Requests, m.type # "batch", toWorker' = Append(toWorker, m)
        PROVE  toWorker' \in Seq(Requests) /\ Single(toWorker') /\ Batches(toWorker') = Batches(toWorker)
    BY <2>1, <2>2, PortAppend
  <2> QED
    BY <1>4, <2>1, <2>2
<1>6. FlightInv' /\ BooksInv'
  BY <1>1, <1>5, QuietStep, StoreFacts
<1>7. PortsTyped'
  BY <1>1, <1>3, <1>5 DEF HistoryInv, StoreInv, PortsTyped
<1>8. StartInv'
  <2>1. CASE Query
    BY <1>1, <1>5, <2>1 DEF HistoryInv, StoreInv, StartInv, Unready, Handed, Answered, Query
  <2>2. CASE CloseRequest
    BY <1>1, <1>5, <2>2 DEF HistoryInv, StoreInv, StartInv, Unready, Handed, Answered, CloseRequest
  <2> QED
    BY <2>1, <2>2
<1>9. CloseInv'
  BY <1>1 DEF HistoryInv, StoreInv, CloseInv, Drained, Query, CloseRequest
<1> QED
  BY <1>6, <1>7, <1>8, <1>9 DEF StoreInv

\* The flush timer and the loop of close send a batch.
LEMMA DrainSteps ==
  ASSUME HistoryInv, FlushTimer \/ CloseLoop
  PROVE  StoreInv' /\ Len(queue') <= Len(queue)
<1>1. /\ UNCHANGED <<written, failed, committed, accepted, toMain, worker, storeStatus, maintenance, queries, waiting,
                     closing, closeError, closePending>>
      /\ storeStatus = "ready" /\ closing \in {"open", "draining"}
      /\ \E allow \in BOOLEAN : DrainQueue(queue, inFlight, storeStatus, allow)
  BY DEF FlushTimer, CloseLoop, thread, Drains
<1>2. PICK allow \in BOOLEAN : DrainQueue(queue, inFlight, storeStatus, allow)
  BY <1>1
<1>3. /\ toWorker' \in Seq(Requests) /\ Single(toWorker')
      /\ Books(queue', inFlight', written, failed, accepted, committed, Batches(toWorker'), Batches(toMain))
      /\ storeStatus = "ready" /\ inFlight' = 0 => Batches(toWorker') = {} /\ Batches(toMain) = {}
      /\ Len(queue') <= Len(queue)
  BY <1>2, StoreFacts, DrainStep
<1>4. BooksInv' /\ FlightInv'
  BY <1>1, <1>3, StoreFacts DEF BooksInv, FlightInv, Handed, Answered
<1>5. PortsTyped'
  BY <1>1, <1>3 DEF HistoryInv, StoreInv, PortsTyped
<1>6. StartInv' /\ CloseInv'
  BY <1>1 DEF HistoryInv, StoreInv, StartInv, Unready, CloseInv
<1> QED
  BY <1>3, <1>4, <1>5, <1>6 DEF StoreInv

\* A record is accepted or refused (enqueue).
LEMMA EnqueueStep ==
  ASSUME HistoryInv, Enqueue
  PROVE  StoreInv' /\ Len(queue') <= QueueCapacity
<1> DEFINE q == Append(queue, accepted + 1)
<1>1. /\ accepted < MaxRecords /\ closing = "open" /\ storeStatus \in {"starting", "ready"} /\ Len(queue) < QueueCapacity
      /\ accepted' = accepted + 1
      /\ UNCHANGED <<storeStatus, written, failed, waiting, closing, closeError, closePending, committed, worker, toMain,
                     queries, maintenance>>
      /\ DrainQueue(q, inFlight, storeStatus, FALSE) \/ (queue' = q /\ inFlight' = inFlight /\ toWorker' = toWorker)
  BY DEF Enqueue, HasRoom, thread
<1>2. Books(q, inFlight, written, failed, accepted + 1, committed, Batches(toWorker), Batches(toMain))
  BY <1>1, StoreFacts, BooksEnqueue
<1>3. q \in Seq(Records) /\ Len(q) <= QueueCapacity /\ accepted + 1 \in 0 .. MaxRecords
  <2>1. accepted + 1 \in Records /\ accepted + 1 \in 0 .. MaxRecords
    BY <1>1, StoreFacts, HistoryConstants DEF Records
  <2>2. queue \in Seq(Records) /\ Len(queue) \in Nat
    BY StoreFacts
  <2>3. Len(q) = Len(queue) + 1
    BY <2>1, <2>2
  <2> QED
    BY <1>1, <2>1, <2>2, <2>3, HistoryConstants
<1> HIDE DEF q
<1>4. /\ toWorker' \in Seq(Requests) /\ Single(toWorker')
      /\ Books(queue', inFlight', written, failed, accepted + 1, committed, Batches(toWorker'), Batches(toMain))
      /\ storeStatus = "ready" /\ inFlight' = 0 => Batches(toWorker') = {} /\ Batches(toMain) = {}
      /\ Len(queue') <= Len(q)
      /\ storeStatus # "ready" => inFlight' = inFlight /\ toWorker' = toWorker
  <2>1. CASE DrainQueue(q, inFlight, storeStatus, FALSE)
    <3>1. /\ toWorker' \in Seq(Requests) /\ Single(toWorker')
          /\ Books(queue', inFlight', written, failed, accepted + 1, committed, Batches(toWorker'), Batches(toMain))
          /\ storeStatus = "ready" /\ inFlight' = 0 => Batches(toWorker') = {} /\ Batches(toMain) = {}
          /\ Len(queue') <= Len(q)
          /\ ~Drains(q, inFlight, storeStatus, FALSE) => queue' = q /\ inFlight' = inFlight /\ toWorker' = toWorker
      BY <1>2, <2>1, StoreFacts, DrainStep
    <3>2. storeStatus # "ready" => ~Drains(q, inFlight, storeStatus, FALSE)
      BY DEF Drains
    <3> QED
      BY <3>1, <3>2
  <2>2. CASE queue' = q /\ inFlight' = inFlight /\ toWorker' = toWorker
    <3>1. Len(q) \in Nat
      BY <1>3, SequenceFacts
    <3> QED
      BY <1>2, <2>2, <3>1, StoreFacts
  <2> QED
    BY <1>1, <2>1, <2>2
<1>5. BooksInv' /\ FlightInv'
  BY <1>1, <1>4, StoreFacts DEF BooksInv, FlightInv, Handed, Answered
<1>6. PortsTyped'
  BY <1>1, <1>3, <1>4 DEF HistoryInv, StoreInv, PortsTyped
<1>7. StartInv' /\ CloseInv'
  BY <1>1, <1>4 DEF HistoryInv, StoreInv, StartInv, Unready, CloseInv, Handed, Answered
<1>8. Len(queue') <= QueueCapacity
  <2>1. queue' \in Seq(Records)
    BY <1>4, BooksFacts
  <2>2. Len(queue') \in Nat /\ Len(q) \in Nat
    BY <1>3, <2>1, SequenceFacts
  <2> QED
    BY <1>3, <1>4, <2>2, HistoryConstants
<1> QED
  BY <1>5, <1>6, <1>7, <1>8 DEF StoreInv

\* The store degrades.
LEMMA DegradeStep ==
  ASSUME HistoryInv, Degrade(inFlight, failed), UNCHANGED <<written, accepted, committed, closing>>,
         Batches(toWorker') \in SUBSET Batches(toWorker), Batches(toMain') \in SUBSET Batches(toMain),
         Single(toWorker'), Single(toMain')
  PROVE  FlightInv' /\ BooksInv' /\ CloseInv'
<1>1. /\ storeStatus' = "degraded" /\ failed' = failed + (inFlight + Len(queue)) /\ inFlight' = 0 /\ queue' = <<>>
      /\ closePending' = FALSE
  BY DEF Degrade, Lost
<1>2. Books(<<>>, 0, written, failed + (inFlight + Len(queue)), accepted, committed, Batches(toWorker), Batches(toMain))
  BY StoreFacts, BooksDegrade
<1>3. Books(<<>>, 0, written, failed + (inFlight + Len(queue)), accepted, committed, Batches(toWorker'), Batches(toMain'))
  BY <1>2, BooksFewer
<1>4. BooksInv'
  BY <1>1, <1>3 DEF BooksInv, Handed, Answered
<1>5. FlightInv' /\ CloseInv'
  BY <1>1 DEF FlightInv, CloseInv, Drained
<1> QED
  BY <1>4, <1>5

\* A query that is not answered in time degrades the store.
LEMMA QueryTimeoutStep ==
  ASSUME HistoryInv, QueryTimeout
  PROVE  StoreInv' /\ Len(queue') <= QueueCapacity
<1>1. /\ Degrade(inFlight, failed) /\ Terminate /\ UNCHANGED <<written, closing, accepted, queries, maintenance>>
      /\ waiting # {}
  BY DEF QueryTimeout, TimerArmed
<1>2. /\ worker' = "gone" /\ committed' = committed
      /\ toWorker' \in Seq(Requests) /\ Single(toWorker') /\ Batches(toWorker') = {}
      /\ toMain' \in Seq(Messages) /\ Single(toMain') /\ Batches(toMain') = Batches(toMain)
      /\ ReadyFirst(toMain') /\ (HasReady(toMain') => HasReady(toMain))
  BY <1>1, TerminateStep
<1>3. FlightInv' /\ BooksInv' /\ CloseInv'
  BY <1>1, <1>2, DegradeStep
<1>4. PortsTyped'
  BY <1>1, <1>2 DEF HistoryInv, StoreInv, PortsTyped
<1>5. ~HasReady(toMain') /\ storeStatus' = "degraded"
  BY <1>1, <1>2 DEF HistoryInv, StoreInv, StartInv, Unready, Degrade
<1>6. StartInv'
  BY <1>2, <1>5 DEF StartInv, Unready
<1>7. Len(queue') <= QueueCapacity
  <2>1. Len(queue') = 0
    BY <1>1 DEF Degrade
  <2> QED
    BY <2>1, HistoryConstants
<1> QED
  BY <1>3, <1>4, <1>6, <1>7 DEF StoreInv

\* The port to the main thread, one message taken
LEMMA TakenMessage ==
  ASSUME HistoryInv, OnMessage
  PROVE  /\ Head(toMain) \in Messages
         /\ toMain' \in Seq(Messages) /\ Single(toMain') /\ ReadyFirst(toMain') /\ ~HasReady(toMain')
         /\ HasReady(toMain) <=> Head(toMain).type = "ready"
         /\ Head(toMain).type # "batch" => Batches(toMain') = Batches(toMain)
         /\ Head(toMain).type = "batch" => Head(toMain) \in Batches(toMain) /\ Batches(toMain') = {}
         /\ worker \notin {"none", "starting"}
         /\ UNCHANGED <<closing, late, worker, committed, rows, accepted, queries, maintenance>>
<1>1. toMain \in Seq(Messages) /\ toMain # <<>> /\ Single(toMain) /\ ReadyFirst(toMain) /\ toMain' = Tail(toMain)
  BY StoreFacts DEF OnMessage
<1>2. worker \notin {"none", "starting"}
  BY <1>1 DEF HistoryInv, StoreInv, StartInv
<1>3. UNCHANGED <<closing, late, worker, committed, rows, accepted, queries, maintenance>>
  BY DEF OnMessage, thread
<1> QED
  BY <1>1, <1>2, <1>3, PortTail

\* A message or the exit of the worker is handled.
LEMMA OnMessageStep ==
  ASSUME HistoryInv, OnMessage
  PROVE  StoreInv' /\ Len(queue') <= QueueCapacity
<1> DEFINE m == Head(toMain)
<1>a. /\ m \in Messages
      /\ toMain' \in Seq(Messages) /\ Single(toMain') /\ ReadyFirst(toMain') /\ ~HasReady(toMain')
      /\ HasReady(toMain) <=> m.type = "ready"
      /\ m.type # "batch" => Batches(toMain') = Batches(toMain)
      /\ m.type = "batch" => m \in Batches(toMain) /\ Batches(toMain') = {}
      /\ worker \notin {"none", "starting"}
      /\ UNCHANGED <<closing, worker, committed, accepted, queries, maintenance>>
  BY TakenMessage
<1>b. OnFatal(m) \/ OnExit(m) \/ OnReady(m) \/ OnBatch(m) \/ OnAnswer(m)
  BY DEF OnMessage
<1> HIDE DEF m
<1>c. /\ toWorker \in Seq(Requests) /\ Single(toWorker) /\ Len(queue) \in Nat
      /\ Books(queue, inFlight, written, failed, accepted, committed, Batches(toWorker), Batches(toMain))
  BY StoreFacts
<1>d. Len(queue) <= QueueCapacity /\ Len(<<>>) <= QueueCapacity
  BY HistoryConstants DEF HistoryInv, HistoryTypeOK
<1>e. toWorker' \in Seq(Requests) => PortsTyped'
  BY <1>a, StoreFacts DEF PortsTyped
<1>f. storeStatus' # "disabled" => StartInv'
  BY <1>a DEF StartInv, Unready
<1>g. storeStatus # "disabled"
  BY <1>a DEF HistoryInv, StoreInv, StartInv
<1>1. CASE OnFatal(m) \/ (OnExit(m) /\ Degrade(inFlight, failed))
  <2>1. Degrade(inFlight, failed) /\ toWorker' = toWorker /\ written' = written /\ m.type # "batch"
    BY <1>1 DEF OnFatal, OnExit
  <2>2. FlightInv' /\ BooksInv' /\ CloseInv'
    BY <1>a, <1>c, <2>1, DegradeStep
  <2>3. storeStatus' = "degraded" /\ queue' = <<>>
    BY <2>1 DEF Degrade
  <2> QED
    BY <1>c, <1>d, <1>e, <1>f, <2>1, <2>2, <2>3 DEF StoreInv
<1>2. CASE OnAnswer(m) \/ (OnExit(m) /\ ~Degrade(inFlight, failed))
  <2>1. /\ UNCHANGED <<storeStatus, queue, inFlight, written, failed, toWorker>> /\ m.type # "batch"
        /\ closePending' => closePending
        /\ (closePending' = closePending /\ closeError' = closeError) \/ closePending
    BY <1>2 DEF OnAnswer, OnExit
  <2>2. FlightInv' /\ BooksInv'
    BY <1>a, <1>c, <2>1, QuietStep
  <2>3. CloseInv'
    BY <1>a, <2>1 DEF HistoryInv, StoreInv, CloseInv, Drained
  <2> QED
    BY <1>c, <1>d, <1>e, <1>f, <1>g, <2>1, <2>2, <2>3 DEF StoreInv
<1>3. CASE OnReady(m)
  <2>1. /\ m.type = "ready" /\ storeStatus' = "ready" /\ DrainQueue(queue, inFlight, "ready", FALSE)
        /\ UNCHANGED <<failed, written, waiting, closePending, closeError>>
    BY <1>3 DEF OnReady
  <2>2. inFlight = 0 /\ Batches(toWorker) = {} /\ Batches(toMain) = {}
    BY <1>a, <2>1 DEF HistoryInv, StoreInv, StartInv, Unready, Handed, Answered
  <2>3. /\ toWorker' \in Seq(Requests) /\ Single(toWorker')
        /\ Books(queue', inFlight', written, failed, accepted, committed, Batches(toWorker'), Batches(toMain))
        /\ inFlight' = 0 => Batches(toWorker') = {} /\ Batches(toMain) = {}
        /\ Len(queue') <= Len(queue)
        /\ ~Drains(queue, inFlight, "ready", FALSE) => queue' = queue /\ inFlight' = inFlight
    BY <1>c, <2>1, <2>2, DrainStep
  <2>4. BooksInv' /\ FlightInv'
    BY <1>a, <2>1, <2>2, <2>3 DEF BooksInv, FlightInv, Handed, Answered
  <2>5. queue = <<>> => queue' = queue /\ inFlight' = inFlight
    BY <2>3 DEF Drains
  <2>6. CloseInv'
    BY <1>a, <2>1, <2>5 DEF HistoryInv, StoreInv, CloseInv, Drained
  <2>7. Len(queue') <= QueueCapacity
    <3>1. queue' \in Seq(Records)
      BY <2>3, BooksFacts
    <3>2. Len(queue') \in Nat
      BY <3>1, SequenceFacts
    <3> QED
      BY <1>c, <1>d, <2>3, <3>2, HistoryConstants
  <2> QED
    BY <1>e, <1>f, <2>1, <2>3, <2>4, <2>6, <2>7 DEF StoreInv
<1>4. CASE OnBatch(m)
  <2>1. m.type = "batch" /\ written' = written + m.written /\ m \in Batches(toMain) /\ Batches(toMain') = {}
    BY <1>4, <1>a DEF OnBatch
  <2>2. /\ Batches(toWorker) = {}
        /\ Books(queue, 0, written + m.written, failed + m.failed, accepted, committed, {}, {})
    BY <1>c, <2>1, BooksAnswer
  <2>3. CASE m.error
    <3>1. Degrade(0, failed + m.failed) /\ toWorker' = toWorker
      BY <1>4, <2>3 DEF OnBatch
    <3>2. /\ storeStatus' = "degraded" /\ failed' = failed + m.failed + (0 + Len(queue)) /\ inFlight' = 0 /\ queue' = <<>>
          /\ closePending' = FALSE
      BY <3>1 DEF Degrade, Lost
    <3>3. Books(<<>>, 0, written + m.written, failed + m.failed + (0 + Len(queue)), accepted, committed, {}, {})
      BY <2>2, BooksDegrade
    <3>4. BooksInv'
      BY <1>a, <2>1, <2>2, <3>1, <3>2, <3>3 DEF BooksInv, Handed, Answered
    <3>5. FlightInv' /\ CloseInv'
      BY <1>a, <1>c, <3>1, <3>2 DEF FlightInv, CloseInv, Drained
    <3> QED
      BY <1>c, <1>d, <1>e, <1>f, <3>1, <3>2, <3>4, <3>5 DEF StoreInv
  <2>4. CASE ~m.error
    <3>1. /\ failed' = failed + m.failed /\ DrainQueue(queue, 0, storeStatus, TRUE)
          /\ UNCHANGED <<storeStatus, waiting, closePending, closeError>>
      BY <1>4, <2>4 DEF OnBatch
    <3>2. /\ toWorker' \in Seq(Requests) /\ Single(toWorker')
          /\ Books(queue', inFlight', written + m.written, failed + m.failed, accepted, committed, Batches(toWorker'), {})
          /\ storeStatus = "ready" /\ inFlight' = 0 => Batches(toWorker') = {}
          /\ Len(queue') <= Len(queue)
          /\ ~Drains(queue, 0, storeStatus, TRUE) => queue' = queue /\ inFlight' = 0
      BY <1>c, <2>2, <3>1, DrainStep
    <3>3. BooksInv' /\ FlightInv'
      BY <1>a, <2>1, <3>1, <3>2 DEF BooksInv, FlightInv, Handed, Answered
    <3>4. queue = <<>> => queue' = queue /\ inFlight' = 0
      BY <3>2 DEF Drains
    <3>5. CloseInv'
      BY <1>a, <3>1, <3>4 DEF HistoryInv, StoreInv, CloseInv, Drained
    <3>6. Len(queue') <= QueueCapacity
      <4>1. queue' \in Seq(Records)
        BY <3>2, BooksFacts
      <4>2. Len(queue') \in Nat
        BY <4>1, SequenceFacts
      <4> QED
        BY <1>c, <1>d, <3>2, <4>2, HistoryConstants
    <3> QED
      BY <1>e, <1>f, <1>g, <3>1, <3>2, <3>3, <3>5, <3>6 DEF StoreInv
  <2> QED
    BY <2>3, <2>4
<1> QED
  BY <1>b, <1>1, <1>2, <1>3, <1>4

\* close ends, in time or too late.
LEMMA CloseEndSteps ==
  ASSUME HistoryInv, CloseTooLate \/ CloseReturns
  PROVE  StoreInv' /\ Len(queue') <= QueueCapacity
<1>a. Len(queue) <= QueueCapacity /\ Len(<<>>) <= QueueCapacity
  BY HistoryConstants DEF HistoryInv, HistoryTypeOK
<1>1. CASE CloseTooLate
  <2>1. /\ failed' = failed + Len(queue) /\ queue' = <<>> /\ closeError' = TRUE /\ Terminate
        /\ closing = "draining" /\ closing' = "done" /\ storeStatus' = "closed"
        /\ UNCHANGED <<inFlight, written, waiting, closePending, accepted, queries, maintenance>>
    BY <1>1 DEF CloseTooLate
  <2>2. /\ worker' = "gone" /\ committed' = committed
        /\ toWorker' \in Seq(Requests) /\ Single(toWorker') /\ Batches(toWorker') = {}
        /\ toMain' \in Seq(Messages) /\ Single(toMain') /\ Batches(toMain') = Batches(toMain)
        /\ ReadyFirst(toMain') /\ (HasReady(toMain') => HasReady(toMain))
    BY <2>1, TerminateStep
  <2>3. Books(<<>>, inFlight, written, failed + Len(queue), accepted, committed, Batches(toWorker), Batches(toMain))
    BY StoreFacts, BooksFail
  <2>4. Books(<<>>, inFlight, written, failed + Len(queue), accepted, committed, {}, Batches(toMain))
    BY <2>3, BooksFewer
  <2>5. BooksInv' /\ FlightInv'
    BY <2>1, <2>2, <2>4 DEF BooksInv, FlightInv, Handed, Answered
  <2>6. PortsTyped'
    BY <2>1, <2>2, StoreFacts DEF PortsTyped
  <2>7. StartInv' /\ CloseInv'
    BY <2>1, <2>2 DEF HistoryInv, StoreInv, StartInv, CloseInv, Unready, Handed, Answered
  <2> QED
    BY <1>a, <2>1, <2>5, <2>6, <2>7 DEF StoreInv
<1>2. CASE CloseReturns
  <2>1. /\ closing = "requested" /\ ~closePending /\ closing' = "done" /\ storeStatus' = "closed"
        /\ UNCHANGED <<queue, inFlight, written, failed, waiting, closeError, closePending, accepted, queries, maintenance>>
        /\ Terminate \/ UNCHANGED <<thread, toWorker, toMain>>
    BY <1>2 DEF CloseReturns
  <2>2. /\ committed' = committed /\ (worker' = worker \/ worker' = "gone")
        /\ toWorker' \in Seq(Requests) /\ Single(toWorker') /\ Batches(toWorker') \in SUBSET Batches(toWorker)
        /\ toMain' \in Seq(Messages) /\ Single(toMain') /\ Batches(toMain') = Batches(toMain)
        /\ ReadyFirst(toMain') /\ (HasReady(toMain') => HasReady(toMain))
        /\ worker' = "gone" \/ toMain' = toMain
    <3>1. CASE Terminate
      BY <3>1, TerminateStep
    <3>2. CASE UNCHANGED <<thread, toWorker, toMain>>
      BY <3>2, StoreFacts DEF thread
    <3> QED
      BY <2>1, <3>1, <3>2
  <2>3. FlightInv' /\ BooksInv'
    BY <2>1, <2>2, QuietStep
  <2>4. PortsTyped'
    BY <2>1, <2>2, StoreFacts DEF PortsTyped
  <2>5. StartInv'
    BY <2>1, <2>2 DEF HistoryInv, StoreInv, StartInv, Unready, Handed, Answered
  <2>6. CloseInv'
    BY <2>1 DEF HistoryInv, StoreInv, CloseInv, Drained
  <2> QED
    BY <1>a, <2>1, <2>3, <2>4, <2>5, <2>6 DEF StoreInv
<1> QED
  BY <1>1, <1>2


\* Messages of the worker that are neither answers of a batch nor the first
LEMMA PostedQuietly ==
  ASSUME HistoryInv, NEW a \in Messages, NEW b \in Messages, NEW c \in Messages,
         a.type \notin {"batch", "ready"}, b.type \notin {"batch", "ready"}, c.type \notin {"batch", "ready"},
         toMain' = toMain \o <<a>> \/ toMain' = toMain \o <<a, b>> \/ toMain' = toMain \o <<a, b, c>>
  PROVE  /\ toMain' \in Seq(Messages) /\ Single(toMain') /\ Batches(toMain') = Batches(toMain)
         /\ ReadyFirst(toMain') /\ (HasReady(toMain') => HasReady(toMain))
<1> DEFINE p == Append(toMain, a)
           q == Append(p, b)
           r == Append(q, c)
<1>1. toMain \in Seq(Messages) /\ Single(toMain) /\ ReadyFirst(toMain)
  BY StoreFacts
<1>2. toMain \o <<a>> = p /\ toMain \o <<a, b>> = q /\ toMain \o <<a, b, c>> = r
  BY <1>1, PortConcat
<1>3. /\ p \in Seq(Messages) /\ Single(p) /\ Batches(p) = Batches(toMain)
      /\ ReadyFirst(p) /\ (HasReady(p) => HasReady(toMain))
  BY <1>1, PortAppend
<1> HIDE DEF p
<1>4. /\ q \in Seq(Messages) /\ Single(q) /\ Batches(q) = Batches(toMain)
      /\ ReadyFirst(q) /\ (HasReady(q) => HasReady(toMain))
  BY <1>3, PortAppend
<1> HIDE DEF q
<1>5. /\ r \in Seq(Messages) /\ Single(r) /\ Batches(r) = Batches(toMain)
      /\ ReadyFirst(r) /\ (HasReady(r) => HasReady(toMain))
  BY <1>4, PortAppend
<1> HIDE DEF r
<1> QED
  BY <1>2, <1>3, <1>4, <1>5

\* A step of the worker that neither takes nor answers a batch
LEMMA WorkerQuiet ==
  ASSUME HistoryInv, UNCHANGED <<main, committed, accepted, queries>>, maintenance' \in Nat,
         worker # "none", worker' \in {"running", "gone"},
         toWorker' \in Seq(Requests), Single(toWorker'), Batches(toWorker') \in SUBSET Batches(toWorker),
         toMain' \in Seq(Messages), Single(toMain'), Batches(toMain') = Batches(toMain),
         ReadyFirst(toMain'), HasReady(toMain') => HasReady(toMain)
  PROVE  StoreInv'
<1>1. UNCHANGED <<storeStatus, queue, inFlight, written, failed, waiting, closing, closeError, closePending,
                  committed, accepted, queries>>
  BY DEF main
<1>2. FlightInv' /\ BooksInv'
  BY <1>1, QuietStep
<1>3. PortsTyped'
  BY <1>1, StoreFacts DEF PortsTyped
<1>4. StartInv' /\ CloseInv'
  BY <1>1 DEF HistoryInv, StoreInv, StartInv, Unready, Handed, Answered, CloseInv, Drained
<1> QED
  BY <1>2, <1>3, <1>4 DEF StoreInv

\* The worker opens its database or fails to.
LEMMA WorkerStartsStep ==
  ASSUME HistoryInv, WorkerStarts
  PROVE  StoreInv'
<1>1. /\ worker = "starting" /\ UNCHANGED <<main, committed, toWorker, accepted, queries, maintenance>>
      /\ \/ worker' = "running" /\ toMain' = toMain \o <<[type |-> "ready"]>>
         \/ worker' = "gone" /\ toMain' = toMain \o <<[type |-> "fatal"], [type |-> "error"], Exit(1)>>
  BY DEF WorkerStarts, Post
<1>2. /\ toMain = <<>> /\ inFlight = 0 /\ Handed = {} /\ Answered = {} /\ waiting = {}
      /\ storeStatus \notin {"disabled", "ready", "degraded"}
  BY <1>1 DEF HistoryInv, StoreInv, StartInv, Unready
<1>3. /\ [type |-> "ready"] \in Messages /\ [type |-> "fatal"] \in Messages /\ [type |-> "error"] \in Messages
      /\ Exit(1) \in Messages /\ Exit(1).type = "exit"
  BY MessageKinds DEF Exit
<1>4. CASE worker' = "gone" /\ toMain' = toMain \o <<[type |-> "fatal"], [type |-> "error"], Exit(1)>>
  <2> DEFINE a == [type |-> "fatal"]
             b == [type |-> "error"]
             c == Exit(1)
  <2>1. /\ a \in Messages /\ b \in Messages /\ c \in Messages /\ toMain' = toMain \o <<a, b, c>>
        /\ a.type \notin {"batch", "ready"} /\ b.type \notin {"batch", "ready"} /\ c.type \notin {"batch", "ready"}
    BY <1>3, <1>4
  <2> HIDE DEF a, b, c
  <2>2. /\ toMain' \in Seq(Messages) /\ Single(toMain') /\ Batches(toMain') = Batches(toMain)
        /\ ReadyFirst(toMain') /\ (HasReady(toMain') => HasReady(toMain))
    BY <2>1, PostedQuietly
  <2> QED
    BY <1>1, <1>4, <2>2, StoreFacts, WorkerQuiet
<1>5. CASE worker' = "running" /\ toMain' = toMain \o <<[type |-> "ready"]>>
  <2> DEFINE m == [type |-> "ready"]
  <2>0. UNCHANGED <<storeStatus, queue, inFlight, written, failed, waiting, closing, closeError, closePending,
                    committed, accepted, queries, maintenance, toWorker>>
    BY <1>1 DEF main
  <2>1. toMain' = Append(toMain, m) /\ toMain' = <<m>>
    BY <1>2, <1>5
  <2>2. toMain \in Seq(Messages) /\ Single(toMain) /\ m \in Messages /\ m.type = "ready"
    BY <1>3, StoreFacts
  <2>3. toMain' \in Seq(Messages) /\ Single(toMain') /\ Batches(toMain') = Batches(toMain)
    BY <2>1, <2>2, PortAppend
  <2>4. ReadyFirst(toMain')
    <3>1. DOMAIN <<m>> = {1}
      OBVIOUS
    <3> QED
      BY <2>1, <3>1 DEF ReadyFirst
  <2>5. FlightInv' /\ BooksInv'
    BY <2>0, <2>3, StoreFacts, QuietStep
  <2>6. PortsTyped'
    BY <2>0, <2>3, StoreFacts DEF PortsTyped
  <2>7. StartInv'
    BY <1>2, <1>5, <2>0, <2>3, <2>4 DEF StartInv, Handed, Answered
  <2>8. CloseInv'
    BY <2>0 DEF HistoryInv, StoreInv, CloseInv, Drained
  <2> QED
    BY <2>5, <2>6, <2>7, <2>8 DEF StoreInv
<1> QED
  BY <1>1, <1>4, <1>5

\* Maintenance fails or the worker dies.
LEMMA WorkerFails ==
  ASSUME HistoryInv, MaintenanceFails \/ WorkerDies
  PROVE  StoreInv'
<1>1. /\ [type |-> "maintenance-error"] \in Messages /\ [type |-> "error"] \in Messages
      /\ Exit(1) \in Messages /\ Exit(1).type = "exit"
  BY MessageKinds DEF Exit
<1>2. CASE MaintenanceFails
  <2>1. /\ worker = "running" /\ maintenance' = maintenance + 1 /\ toMain' = toMain \o <<[type |-> "maintenance-error"]>>
        /\ UNCHANGED <<main, worker, committed, toWorker, accepted, queries>>
    BY <1>2 DEF MaintenanceFails, Post, thread
  <2>2. /\ toMain' \in Seq(Messages) /\ Single(toMain') /\ Batches(toMain') = Batches(toMain)
        /\ ReadyFirst(toMain') /\ (HasReady(toMain') => HasReady(toMain))
    <3> DEFINE a == [type |-> "maintenance-error"]
    <3>1. a \in Messages /\ toMain' = toMain \o <<a>> /\ a.type \notin {"batch", "ready"}
      BY <1>1, <2>1
    <3> HIDE DEF a
    <3> QED
      BY <3>1, PostedQuietly
  <2>3. maintenance' \in Nat
    BY <2>1, StoreFacts
  <2> QED
    BY <2>1, <2>2, <2>3, StoreFacts, WorkerQuiet
<1>3. CASE WorkerDies
  <2>1. /\ worker = "running" /\ worker' = "gone" /\ toWorker' = <<>> /\ toMain' = toMain \o <<[type |-> "error"], Exit(1)>>
        /\ UNCHANGED <<main, committed, accepted, queries, maintenance>>
    BY <1>3 DEF WorkerDies, Post
  <2>2. /\ toMain' \in Seq(Messages) /\ Single(toMain') /\ Batches(toMain') = Batches(toMain)
        /\ ReadyFirst(toMain') /\ (HasReady(toMain') => HasReady(toMain))
    <3> DEFINE a == [type |-> "error"]
               b == Exit(1)
    <3>1. /\ a \in Messages /\ b \in Messages /\ toMain' = toMain \o <<a, b>>
          /\ a.type \notin {"batch", "ready"} /\ b.type \notin {"batch", "ready"}
      BY <1>1, <2>1
    <3> HIDE DEF a, b
    <3> QED
      BY <3>1, PostedQuietly
  <2>3. toWorker' \in Seq(Requests) /\ Single(toWorker') /\ Batches(toWorker') = {}
    BY <2>1, PortEmpty
  <2> QED
    BY <2>1, <2>2, <2>3, StoreFacts, WorkerQuiet
<1> QED
  BY <1>2, <1>3

\* The port to the worker, one message taken
LEMMA TakenRequest ==
  ASSUME HistoryInv, WorkerMessage
  PROVE  /\ Head(toWorker) \in Requests
         /\ toWorker' \in Seq(Requests) /\ Single(toWorker') /\ Batches(toWorker') \in SUBSET Batches(toWorker)
         /\ Head(toWorker).type = "batch" => Head(toWorker) \in Batches(toWorker) /\ Batches(toWorker') = {}
         /\ worker = "running"
         /\ UNCHANGED <<main, accepted, queries, maintenance>>
<1>1. toWorker \in Seq(Requests) /\ toWorker # <<>> /\ Single(toWorker) /\ toWorker' = Tail(toWorker)
  BY StoreFacts DEF WorkerMessage
<1>2. worker = "running" /\ UNCHANGED <<main, accepted, queries, maintenance>>
  BY DEF WorkerMessage
<1>3. /\ Tail(toWorker) \in Seq(Requests) /\ Head(toWorker) \in Requests /\ Single(Tail(toWorker))
      /\ Head(toWorker).type # "batch" => Batches(Tail(toWorker)) = Batches(toWorker)
      /\ Head(toWorker).type = "batch" => Head(toWorker) \in Batches(toWorker) /\ Batches(Tail(toWorker)) = {}
  BY <1>1, PortTail
<1> QED
  BY <1>1, <1>2, <1>3


\* The fields of the answer to a batch.
LEMMA BatchAnswers ==
  ASSUME NEW n \in 0 .. BatchSize, NEW e \in BOOLEAN
  PROVE  /\ BatchAnswer(n, TRUE, e) \in Messages /\ BatchAnswer(n, TRUE, e).type = "batch"
         /\ BatchAnswer(n, TRUE, e).written = n /\ BatchAnswer(n, TRUE, e).failed = 0
         /\ BatchAnswer(n, FALSE, e) \in Messages /\ BatchAnswer(n, FALSE, e).type = "batch"
         /\ BatchAnswer(n, FALSE, e).written = 0 /\ BatchAnswer(n, FALSE, e).failed = n
<1>1. BatchAnswer(n, TRUE, e) = [type |-> "batch", written |-> n, failed |-> 0, error |-> e]
  BY DEF BatchAnswer
<1>2. BatchAnswer(n, FALSE, e) = [type |-> "batch", written |-> 0, failed |-> n, error |-> e]
  BY DEF BatchAnswer
<1>3. 0 \in 0 .. BatchSize
  BY HistoryConstants
<1>4. /\ [type |-> "batch", written |-> n, failed |-> 0, error |-> e] \in Messages
      /\ [type |-> "batch", written |-> 0, failed |-> n, error |-> e] \in Messages
  BY <1>3, MessageKinds
<1>5. \A a, w, x : a = [type |-> "batch", written |-> w, failed |-> x, error |-> e]
                   => a.type = "batch" /\ a.written = w /\ a.failed = x
  OBVIOUS
<1>6. /\ BatchAnswer(n, TRUE, e).type = "batch" /\ BatchAnswer(n, TRUE, e).written = n
      /\ BatchAnswer(n, TRUE, e).failed = 0
      /\ BatchAnswer(n, FALSE, e).type = "batch" /\ BatchAnswer(n, FALSE, e).written = 0
      /\ BatchAnswer(n, FALSE, e).failed = n
  BY <1>1, <1>2, <1>5, Zenon
<1>7. BatchAnswer(n, TRUE, e) \in Messages /\ BatchAnswer(n, FALSE, e) \in Messages
  BY <1>1, <1>2, <1>4, Zenon
<1> QED
  BY <1>6, <1>7, Zenon

\* The worker handles a request.
LEMMA WorkerMessageStep ==
  ASSUME HistoryInv, WorkerMessage
  PROVE  StoreInv'
<1> DEFINE m == Head(toWorker)
<1>1. /\ m \in Requests
      /\ toWorker' \in Seq(Requests) /\ Single(toWorker') /\ Batches(toWorker') \in SUBSET Batches(toWorker)
      /\ m.type = "batch" => m \in Batches(toWorker) /\ Batches(toWorker') = {}
      /\ worker = "running"
      /\ UNCHANGED <<main, accepted, queries, maintenance>>
  BY TakenRequest
<1>2. \/ m.type = "batch" /\ WriteBatch(m.records) /\ UNCHANGED worker
      \/ /\ m.type = "query"
         /\ \E error \in BOOLEAN : toMain' = toMain \o <<[type |-> "answer", query |-> m.query, error |-> error]>>
         /\ UNCHANGED thread
      \/ /\ m.type = "close"
         /\ \/ /\ worker' = "gone"
               /\ toMain' = toMain \o <<[type |-> "answer", query |-> 0, error |-> FALSE], Exit(0)>>
            \/ /\ toMain' = toMain \o <<[type |-> "answer", query |-> 0, error |-> TRUE]>>
               /\ UNCHANGED worker
         /\ UNCHANGED <<committed, rows>>
  BY DEF WorkerMessage, Post
<1> HIDE DEF m
<1>3. CASE m.type = "batch" /\ WriteBatch(m.records) /\ UNCHANGED worker
  <2>1. /\ UNCHANGED <<storeStatus, queue, inFlight, written, failed, waiting, closing, closeError, closePending,
                       accepted, queries, maintenance, worker>>
        /\ m \in Batches(toWorker) /\ Batches(toWorker') = {}
    BY <1>1, <1>3 DEF main
  <2>2. /\ Books(queue, inFlight, written, failed, accepted, committed, Batches(toWorker), Batches(toMain))
        /\ toMain \in Seq(Messages) /\ Single(toMain) /\ ReadyFirst(toMain)
        /\ Len(m.records) \in 0 .. BatchSize
    <3>1. /\ Books(queue, inFlight, written, failed, accepted, committed, Batches(toWorker), Batches(toMain))
          /\ toMain \in Seq(Messages) /\ Single(toMain) /\ ReadyFirst(toMain)
      BY StoreFacts
    <3>2. Len(m.records) \in Nat /\ Len(m.records) <= BatchSize
      BY <2>1, <3>1, BooksFacts
    <3> QED
      BY <3>1, <3>2, HistoryConstants
  <2>3. Batches(toMain) = {}
    BY <2>1, <2>2 DEF Books, Flight
  <2>4. ~Unready /\ storeStatus # "disabled"
    BY <1>1, <2>1 DEF HistoryInv, StoreInv, StartInv, Handed
  <2>5. \E a \in Messages :
          /\ a.type = "batch" /\ toMain' = toMain \o <<a>>
          /\ Books(queue, inFlight, written, failed, accepted, committed', {}, {a})
    <3> DEFINE n == Len(m.records)
    <3>1. CASE \E answer \in RolledBack(n) : toMain' = toMain \o <<answer>> /\ UNCHANGED <<committed, rows>>
      <4> DEFINE a == BatchAnswer(n, FALSE, TRUE)
      <4>1. toMain' = toMain \o <<a>> /\ committed' = committed
        BY <3>1 DEF RolledBack
      <4>3. a \in Messages /\ a.type = "batch" /\ a.written = 0 /\ a.failed = n
        BY <2>2, BatchAnswers
      <4> HIDE DEF a
      <4>4. Books(queue, inFlight, written, failed, accepted, committed, {}, {a})
        BY <2>1, <2>2, <4>3, BooksRollback
      <4> QED
        BY <4>1, <4>3, <4>4
    <3>2. CASE \E error \in BOOLEAN : /\ committed' = committed \o m.records
                                      /\ toMain' = toMain \o <<BatchAnswer(n, TRUE, error)>>
      <4>0. PICK error \in BOOLEAN : /\ committed' = committed \o m.records
                                     /\ toMain' = toMain \o <<BatchAnswer(n, TRUE, error)>>
        BY <3>2
      <4> DEFINE a == BatchAnswer(n, TRUE, error)
      <4>3. a \in Messages /\ a.type = "batch" /\ a.written = n /\ a.failed = 0
        BY <2>2, BatchAnswers
      <4> HIDE DEF a
      <4>4. Books(queue, inFlight, written, failed, accepted, committed \o m.records, {}, {a})
        BY <2>1, <2>2, <4>3, BooksCommit
      <4> QED
        BY <4>0, <4>3, <4>4 DEF a
    <3> QED
      BY <1>3, <3>1, <3>2 DEF WriteBatch, Post
  <2>6. PICK a \in Messages :
          /\ a.type = "batch" /\ toMain' = toMain \o <<a>>
          /\ Books(queue, inFlight, written, failed, accepted, committed', {}, {a})
    BY <2>5
  <2>7. toMain' = Append(toMain, a)
    BY <2>2, <2>6, PortConcat
  <2>8. /\ toMain' \in Seq(Messages) /\ Batches(toMain') = {} \cup {a} /\ Single(toMain')
        /\ ReadyFirst(toMain') /\ (HasReady(toMain') => HasReady(toMain))
    <3> DEFINE p == Append(toMain, a)
    <3>1. a \in Messages /\ a.type = "batch" /\ a.type # "ready" /\ toMain \in Seq(Messages)
      BY <2>2, <2>6
    <3>2. /\ p \in Seq(Messages) /\ Batches(p) = Batches(toMain) \cup {a}
          /\ Single(p) /\ ReadyFirst(p) /\ (HasReady(p) => HasReady(toMain))
      BY <2>2, <2>3, <3>1, PortAppend
    <3> HIDE DEF p
    <3>3. toMain' = p
      BY <2>7 DEF p
    <3> QED
      BY <2>3, <3>2, <3>3
  <2>9. Batches(toMain') = {a} /\ toMain' \in Seq(Messages) /\ Single(toMain')
    BY <2>8
  <2>10. BooksInv'
    BY <2>1, <2>6, <2>9 DEF BooksInv, Handed, Answered
  <2>11. ~(storeStatus = "ready" /\ inFlight = 0)
    BY <2>1, StoreFacts
  <2>12. FlightInv'
    BY <1>1, <2>1, <2>9, <2>11 DEF FlightInv
  <2>13. PortsTyped'
    BY <1>1, <2>1, <2>9, StoreFacts DEF PortsTyped
  <2>14. StartInv'
    BY <1>1, <2>1, <2>4, <2>8 DEF StartInv, Unready
  <2>15. CloseInv'
    BY <2>1 DEF HistoryInv, StoreInv, CloseInv, Drained
  <2> QED
    BY <2>10, <2>12, <2>13, <2>14, <2>15 DEF StoreInv
<1>4. CASE m.type = "query" /\ UNCHANGED thread
           /\ \E error \in BOOLEAN : toMain' = toMain \o <<[type |-> "answer", query |-> m.query, error |-> error]>>
  <2>1. PICK error \in BOOLEAN : toMain' = toMain \o <<[type |-> "answer", query |-> m.query, error |-> error]>>
    BY <1>4
  <2> DEFINE a == [type |-> "answer", query |-> m.query, error |-> error]
  <2>2. m.query \in 0 .. MaxQueries
    <3>1. m.query \in 1 .. MaxQueries
      BY <1>1, <1>4, RequestKinds
    <3> QED
      BY <3>1, HistoryConstants
  <2>3. a \in Messages /\ a.type \notin {"batch", "ready"} /\ toMain' = toMain \o <<a>>
    BY <2>1, <2>2, MessageKinds
  <2> HIDE DEF a
  <2>4. /\ toMain' \in Seq(Messages) /\ Single(toMain') /\ Batches(toMain') = Batches(toMain)
        /\ ReadyFirst(toMain') /\ (HasReady(toMain') => HasReady(toMain))
    BY <2>3, PostedQuietly
  <2>5. UNCHANGED <<worker, committed>>
    BY <1>4 DEF thread
  <2> QED
    BY <1>1, <2>4, <2>5, StoreFacts, WorkerQuiet
<1>5. CASE /\ m.type = "close" /\ committed' = committed
           /\ \/ /\ worker' = "gone"
                 /\ toMain' = toMain \o <<[type |-> "answer", query |-> 0, error |-> FALSE], Exit(0)>>
              \/ /\ toMain' = toMain \o <<[type |-> "answer", query |-> 0, error |-> TRUE]>>
                 /\ worker' = worker
  <2>0. 0 \in 0 .. MaxQueries
    BY HistoryConstants
  <2>1. \E a, b \in Messages : /\ a.type \notin {"batch", "ready"} /\ b.type \notin {"batch", "ready"}
                               /\ toMain' = toMain \o <<a>> \/ toMain' = toMain \o <<a, b>>
    <3> DEFINE a == [type |-> "answer", query |-> 0, error |-> FALSE]
               b == [type |-> "answer", query |-> 0, error |-> TRUE]
               c == Exit(0)
    <3>1. /\ a \in Messages /\ b \in Messages /\ a.type \notin {"batch", "ready"} /\ b.type \notin {"batch", "ready"}
      BY <2>0, MessageKinds
    <3>2. c \in Messages /\ c.type \notin {"batch", "ready"}
      BY MessageKinds DEF Exit
    <3>3. toMain' = toMain \o <<a, c>> \/ toMain' = toMain \o <<b>>
      BY <1>5
    <3> HIDE DEF a, b, c
    <3> QED
      BY <3>1, <3>2, <3>3
  <2>2. PICK a \in Messages, b \in Messages :
           /\ a.type \notin {"batch", "ready"} /\ b.type \notin {"batch", "ready"}
           /\ toMain' = toMain \o <<a>> \/ toMain' = toMain \o <<a, b>>
    BY <2>1
  <2>3. /\ toMain' \in Seq(Messages) /\ Single(toMain') /\ Batches(toMain') = Batches(toMain)
        /\ ReadyFirst(toMain') /\ (HasReady(toMain') => HasReady(toMain))
    BY <2>2, PostedQuietly
  <2> QED
    BY <1>1, <1>5, <2>3, StoreFacts, WorkerQuiet
<1> QED
  BY <1>2, <1>3, <1>4, <1>5


\* The rows left by maintain() are rows that were there.
LEMMA PrunedRows ==
  ASSUME NEW r \in Seq(Records)
  PROVE  Pruned(r) \in Seq(Records)
<1> DEFINE n == Len(r)
<1>1. n \in Nat /\ DOMAIN r = 1 .. n /\ \A i \in 1 .. n : r[i] \in Records
  OBVIOUS
<1>2. CASE n > MaxRows
  <2> DEFINE k == n - MaxRows + 1
  <2>1. k \in 1 .. n
    BY <1>1, <1>2, HistoryConstants
  <2> HIDE DEF n, k
  <2>2. \A i \in k .. n : i \in 1 .. n
    BY <1>1, <2>1
  <2>3. SubSeq(r, k, n) \in Seq(Records)
    BY <1>1, <2>1, <2>2
  <2> QED
    BY <1>2, <2>3 DEF Pruned, n, k
<1> QED
  BY <1>2 DEF Pruned

\* The part of the type invariant that the books do not carry
LEMMA HistoryRows ==
  ASSUME HistoryInv, HistoryNext
  PROVE  rows' \in Seq(Records)
<1>1. rows \in Seq(Records)
  BY DEF HistoryInv, HistoryTypeOK
<1>2. CASE WorkerMessage
  <2> DEFINE m == Head(toWorker)
  <2>1. m \in Requests
    BY <1>2, TakenRequest
  <2>2. \/ m.type = "batch" /\ WriteBatch(m.records)
        \/ rows' = rows
    BY <1>2 DEF WorkerMessage, thread
  <2> HIDE DEF m
  <2>3. CASE m.type = "batch" /\ WriteBatch(m.records)
    <3>1. m.records \in Seq(Records)
      BY <2>1, <2>3, RequestKinds
    <3>2. rows' = rows \/ rows' = Pruned(rows \o m.records)
      BY <2>3 DEF WriteBatch
    <3>3. rows \o m.records \in Seq(Records)
      BY <1>1, <3>1
    <3> QED
      BY <1>1, <3>2, <3>3, PrunedRows
  <2> QED
    BY <1>1, <2>2, <2>3
<1>3. CASE ~WorkerMessage
  <2>1. rows' = rows
    BY <1>3 DEF HistoryNext, Construct, Enqueue, FlushTimer, Query, QueryTimeout, OnMessage, CloseCall, CloseLoop,
                CloseDeadline, CloseRequest, CloseTooLate, CloseRequestTimeout, CloseReturns, WorkerStarts,
                MaintenanceFails, WorkerDies, Terminate, thread
  <2> QED
    BY <1>1, <2>1
<1> QED
  BY <1>2, <1>3


\* What the steps do to the fields that the books do not mention
LEMMA HistoryFields ==
  ASSUME HistoryInv, HistoryNext
  PROVE  /\ storeStatus' \in Statuses /\ waiting' \subseteq 1 .. MaxQueries
         /\ closing' \in {"open", "draining", "requested", "done"}
         /\ worker' \in {"none", "starting", "running", "gone"}
<1> USE DEF HistoryNext, Construct, Enqueue, FlushTimer, Query, QueryTimeout, OnMessage, CloseCall, CloseLoop,
            CloseDeadline, CloseRequest, CloseTooLate, CloseRequestTimeout, CloseReturns, WorkerStarts,
            WorkerMessage, MaintenanceFails, WorkerDies, Terminate, Degrade, OnFatal, OnExit, OnReady, OnBatch,
            OnAnswer, thread, main
<1>1. storeStatus \in Statuses /\ waiting \subseteq 1 .. MaxQueries /\ closing \in {"open", "draining", "requested", "done"}
      /\ worker \in {"none", "starting", "running", "gone"}
  BY DEF HistoryInv, HistoryTypeOK
<1>2. storeStatus' \in {storeStatus, "starting", "degraded", "ready", "closed"}
  OBVIOUS
<1>3. waiting' \subseteq waiting \/ (waiting' = waiting \cup {queries + 1} /\ queries < MaxQueries)
  OBVIOUS
<1>4. closing' \in {closing, "draining", "requested", "done"}
  OBVIOUS
<1>5. worker' \in {worker, "starting", "running", "gone"}
  OBVIOUS
<1>6. queries < MaxQueries => queries + 1 \in 1 .. MaxQueries
  BY StoreFacts, HistoryConstants
<1> QED
  BY <1>1, <1>2, <1>3, <1>4, <1>5, <1>6 DEF Statuses

\* The types of the flags are kept.
LEMMA HistoryBooleans ==
  ASSUME HistoryInv, HistoryNext
  PROVE  closeError' \in BOOLEAN /\ closePending' \in BOOLEAN /\ late' \in BOOLEAN /\ exitSeen' \in BOOLEAN
<1>1. closeError \in BOOLEAN /\ closePending \in BOOLEAN /\ late \in BOOLEAN /\ exitSeen \in BOOLEAN
  BY StoreFacts
<1>2. ASSUME Degrade(inFlight, failed) \/ \E x : Degrade(0, x)
      PROVE  closeError' \in BOOLEAN /\ closePending' \in BOOLEAN
  <2>1. closePending' = FALSE /\ closeError' = (closeError \/ closePending)
    BY <1>2 DEF Degrade
  <2> QED
    BY <2>1, Zenon
<1>3. CASE OnMessage
  <2> DEFINE m == Head(toMain)
  <2>0. m \in Messages /\ late' = late
    BY <1>3, TakenMessage
  <2>1. OnFatal(m) \/ OnExit(m) \/ OnReady(m) \/ OnBatch(m) \/ OnAnswer(m)
    BY <1>3 DEF OnMessage
  <2> HIDE DEF m
  <2>2. CASE OnFatal(m) \/ OnExit(m) \/ OnReady(m) \/ OnBatch(m)
    <3>1. exitSeen' = exitSeen \/ exitSeen' = TRUE
      BY <2>2 DEF OnFatal, OnExit, OnReady, OnBatch
    <3>2. \/ Degrade(inFlight, failed) \/ \E x : Degrade(0, x)
          \/ closeError' = closeError /\ closePending' = closePending
      BY <2>2 DEF OnFatal, OnExit, OnReady, OnBatch
    <3>3. exitSeen' \in BOOLEAN
      BY <1>1, <3>1, Zenon
    <3> QED
      BY <1>1, <1>2, <2>0, <3>2, <3>3
  <2>3. CASE OnAnswer(m)
    <3>1. m.error \in BOOLEAN
      BY <2>0, <2>3 DEF OnAnswer, Messages
    <3>2. /\ exitSeen' = exitSeen
          /\ \/ closePending' = FALSE /\ closeError' = m.error
             \/ closePending' = closePending /\ closeError' = closeError
      BY <2>3 DEF OnAnswer
    <3> QED
      BY <1>1, <2>0, <3>1, <3>2, Zenon
  <2> QED
    BY <2>1, <2>2, <2>3
<1>4. CASE QueryTimeout
  <2>1. Degrade(inFlight, failed) /\ late' = late /\ exitSeen' = exitSeen
    BY <1>4 DEF QueryTimeout
  <2> QED
    BY <1>1, <1>2, <2>1
<1>5. CASE ~OnMessage /\ ~QueryTimeout
  <2>1. /\ closeError' = closeError \/ closeError' = TRUE
        /\ closePending' = closePending \/ closePending' = TRUE \/ closePending' = FALSE
        /\ late' = late \/ late' = TRUE
        /\ exitSeen' = exitSeen
    BY <1>5 DEF HistoryNext, Construct, Enqueue, FlushTimer, Query, CloseCall, CloseLoop, CloseDeadline, CloseRequest,
                CloseTooLate, CloseRequestTimeout, CloseReturns, WorkerStarts, WorkerMessage, MaintenanceFails,
                WorkerDies, main
  <2> QED
    BY <1>1, <2>1, Zenon
<1> QED
  BY <1>3, <1>4, <1>5

\* What ties the two threads together is kept.
LEMMA HistoryStored ==
  ASSUME HistoryInv, HistoryNext
  PROVE  StoreInv' /\ Len(queue') <= QueueCapacity
<1>1. Len(queue) <= QueueCapacity /\ Len(queue) \in Nat
  BY StoreFacts DEF HistoryInv, HistoryTypeOK
<1>2. CASE Construct \/ CloseCall \/ CloseDeadline \/ CloseRequestTimeout \/ Query \/ CloseRequest
           \/ WorkerStarts \/ WorkerMessage \/ MaintenanceFails \/ WorkerDies
  <2>1. StoreInv'
    BY <1>2, ConstructStep, CallSteps, RequestSteps, WorkerStartsStep, WorkerMessageStep, WorkerFails
  <2>2. queue' = queue
    BY <1>2 DEF Construct, CloseCall, CloseDeadline, CloseRequestTimeout, Query, CloseRequest, WorkerStarts,
                WorkerMessage, MaintenanceFails, WorkerDies, main
  <2> QED
    BY <1>1, <2>1, <2>2
<1>3. CASE FlushTimer \/ CloseLoop
  <2>1. StoreInv' /\ Len(queue') <= Len(queue)
    BY <1>3, DrainSteps
  <2>2. queue' \in Seq(Records)
    BY <2>1 DEF StoreInv, BooksInv, Books, BooksTyped
  <2>3. Len(queue') \in Nat
    BY <2>2, SequenceFacts
  <2> QED
    BY <1>1, <2>1, <2>3, HistoryConstants
<1>4. CASE Enqueue \/ QueryTimeout \/ OnMessage \/ CloseTooLate \/ CloseReturns
  BY <1>4, EnqueueStep, QueryTimeoutStep, OnMessageStep, CloseEndSteps
<1> QED
  BY <1>2, <1>3, <1>4 DEF HistoryNext

\* The types of the store are kept.
LEMMA HistoryTypes ==
  ASSUME HistoryInv, HistoryNext
  PROVE  HistoryTypeOK'
<1>1. StoreInv' /\ Len(queue') <= QueueCapacity
  BY HistoryStored
<1>2. Books(queue', inFlight', written', failed', accepted', committed', Handed', Answered')
  BY <1>1 DEF StoreInv, BooksInv
<1>3. /\ queue' \in Seq(Records) /\ inFlight' \in 0 .. BatchSize /\ failed' \in Nat /\ committed' \in Seq(Records)
      /\ written' \in 0 .. MaxRecords
  <2>1. /\ queue' \in Seq(Records) /\ inFlight' \in 0 .. BatchSize /\ failed' \in Nat /\ committed' \in Seq(Records)
    BY <1>2 DEF Books, BooksTyped
  <2>2. written' \in Nat /\ written' <= MaxRecords
    BY <1>2, BooksFacts
  <2> QED
    BY <2>1, <2>2, HistoryConstants
<1>4. \A i \in DOMAIN toMain' : toMain'[i] \in Messages
  <2>1. toMain' \in Seq(Messages)
    BY <1>1 DEF StoreInv, PortsTyped
  <2> QED
    BY <2>1, SequenceFacts
<1>5. {closeError', closePending', late', exitSeen'} \subseteq BOOLEAN
  BY HistoryBooleans, Zenon
<1> QED
  BY <1>1, <1>3, <1>4, <1>5, HistoryFields, HistoryRows, Zenon DEF HistoryTypeOK

\* The store begins in its invariant.
LEMMA HistoryInitially ==
  ASSUME HistoryInit
  PROVE  HistoryInv
<1>1. /\ storeStatus = "disabled" /\ queue = <<>> /\ inFlight = 0 /\ written = 0 /\ failed = 0
      /\ waiting = {} /\ closing = "open" /\ closeError = FALSE /\ closePending = FALSE
      /\ late = FALSE /\ exitSeen = FALSE
      /\ worker = "none" /\ committed = <<>> /\ rows = <<>>
      /\ toWorker = <<>> /\ toMain = <<>>
      /\ accepted = 0 /\ queries = 0 /\ maintenance = 0
  BY DEF HistoryInit
<1>2. Handed = {} /\ Answered = {} /\ Single(toWorker) /\ Single(toMain) /\ ReadyFirst(toMain)
  BY <1>1, PortEmpty DEF Handed, Answered
<1>3. /\ <<>> \in Seq(Records) /\ Len(<<>>) = 0 /\ 0 \in 0 .. MaxRecords /\ 0 \in 0 .. MaxQueries /\ 0 \in 0 .. BatchSize
      /\ 0 <= QueueCapacity /\ <<>> \in Seq(Messages) /\ <<>> \in Seq(Requests)
  BY HistoryConstants
<1>4. PortsTyped /\ FlightInv /\ StartInv /\ CloseInv
  BY <1>1, <1>2, <1>3 DEF PortsTyped, FlightInv, StartInv, CloseInv, Drained
<1>5. Books(<<>>, 0, 0, 0, 0, <<>>, {}, {})
  BY <1>3, EmptyOrder DEF Books, BooksTyped, Flight, Count, Order
<1>6. BooksInv
  BY <1>1, <1>2, <1>5 DEF BooksInv
<1>7. {closeError, closePending, late, exitSeen} \subseteq BOOLEAN
  BY <1>1, Zenon
<1>8. HistoryTypeOK
  BY <1>1, <1>3, <1>7, HistoryConstants DEF HistoryTypeOK, Statuses
<1> QED
  BY <1>4, <1>6, <1>8 DEF HistoryInv, StoreInv

\* Every step of the store keeps its invariant.
LEMMA HistoryStep ==
  ASSUME HistoryInv, [HistoryNext]_storeVars
  PROVE  HistoryInv'
<1>1. CASE HistoryNext
  BY <1>1, HistoryStored, HistoryTypes DEF HistoryInv
<1>2. CASE UNCHANGED storeVars
  <2>1. UNCHANGED <<storeStatus, queue, inFlight, written, failed, waiting, closing, closeError, closePending,
          late, exitSeen, worker, committed, rows, toWorker, toMain, accepted, queries, maintenance>>
    BY <1>2 DEF storeVars, main, thread
  <2>2. PortsTyped' /\ FlightInv' /\ BooksInv'
    BY <2>1 DEF HistoryInv, StoreInv, PortsTyped, FlightInv, BooksInv, Handed, Answered
  <2>3. StartInv' /\ CloseInv'
    BY <2>1 DEF HistoryInv, StoreInv, StartInv, Unready, CloseInv, Drained, Handed, Answered
  <2>4. HistoryTypeOK'
    BY <2>1 DEF HistoryInv, HistoryTypeOK
  <2> QED
    BY <2>2, <2>3, <2>4 DEF HistoryInv, StoreInv
<1> QED
  BY <1>1, <1>2

\* The invariant gives BooksAreTrue.
LEMMA HistoryImplies ==
  ASSUME HistoryInv
  PROVE  BooksAreTrue
<1>1. /\ Books(queue, inFlight, written, failed, accepted, committed, Handed, Answered)
      /\ closing = "done" /\ ~closeError => queue = <<>> /\ inFlight = 0
  BY DEF HistoryInv, StoreInv, BooksInv, CloseInv, Drained
<1>2. /\ accepted <= written + failed + Len(queue) + inFlight /\ written <= Len(committed) /\ Rising(committed)
      /\ failed = 0 /\ inFlight = 0 => accepted = Len(committed) + Len(queue)
  BY <1>1 DEF Books, Count, Order
<1>3. Len(committed) \in Nat
  BY <1>1, BooksFacts
<1>4. closing = "done" /\ ~closeError /\ failed = 0 => Len(committed) = accepted
  <2> SUFFICES ASSUME closing = "done" /\ ~closeError /\ failed = 0 PROVE Len(committed) = accepted
    OBVIOUS
  <2>1. queue = <<>> /\ inFlight = 0
    BY <1>1
  <2>2. Len(queue) = 0
    BY <2>1
  <2> QED
    BY <1>2, <1>3, <2>1, <2>2
<1> QED
  BY <1>2, <1>4 DEF BooksAreTrue, NothingForgotten, WrittenIsDurable, Rising
-----------------------------------------------------------------------------
(***************************************************************************)
(* The serial console of a guest.                                          *)
(***************************************************************************)

\* what a consumer may hold
Holdings == [step : {"idle", "pause", "resume", "drain", "retain", "publish"}, serial : Seq(Nat), retained : Seq(Nat)]
SerialTyped ==
  /\ ring \in Seq(Nat) /\ cache \in Seq(Nat) /\ settled \subseteq Nat
  /\ consumer \in [Consumers -> Holdings]
\* The bytes of a sequence are later than those of a set.
After(S, s) == \A n \in S, i \in DOMAIN s : n < s[i]
Fresh(s, r) == Rising(s) /\ UpTo(s, emitted) /\ Before(s, r) /\ After(settled, s)
Holding(c) == consumer[c].step \in {"retain", "publish"}
RingInv ==
  /\ \A c \in Consumers : consumer[c].step # "idle" => graphLock = c
  /\ Rising(ring) /\ UpTo(ring, emitted) /\ After(settled, ring)
  /\ \A n \in settled : n <= emitted
  /\ \A c \in Consumers : Holding(c) => Fresh(consumer[c].serial, ring)
  /\ \A c \in Consumers : consumer[c].step = "publish" => consumer[c].retained = cache
GuestInv == GuestTypeOK /\ SerialTyped /\ RingInv /\ SerialIsKept

\* A sequence p takes its elements from s; what it leaves out is older, and then it is full.
Within(p, s) == \A i \in DOMAIN p : \E j \in DOMAIN s : p[i] = s[j]
LatestOf(p, s, n) ==
  \A j \in DOMAIN s : \/ \E i \in DOMAIN p : s[j] = p[i]
                      \/ Len(p) = n /\ \A i \in DOMAIN p : s[j] < p[i]

\* The newest n of a sequence.
LEMMA NewestFacts ==
  ASSUME NEW S, NEW s \in Seq(S), NEW n \in Nat \ {0}, NEW p, p = Newest(s, n)
  PROVE  /\ p \in Seq(S) /\ Len(p) <= n
         /\ Len(s) >= n => Len(p) = n
         /\ Within(p, s)
         /\ Rising(s) => Rising(p) /\ LatestOf(p, s, n)
<1> DEFINE m == Len(s)
<1>1. m \in Nat /\ DOMAIN s = 1 .. m /\ \A i \in 1 .. m : s[i] \in S
  OBVIOUS
<1>2. CASE m > n
  <2> DEFINE k == m - n
  <2>1. k \in Nat /\ k + n = m /\ k > 0 /\ m - n + 1 = k + 1
    BY <1>1, <1>2
  <2>2. p = SubSeq(s, k + 1, m)
    BY <1>2, <2>1 DEF Newest
  <2> HIDE DEF m, k
  <2>3. /\ p \in Seq(S) /\ Len(p) = n /\ DOMAIN p = 1 .. n
        /\ \A i \in 1 .. n : p[i] = s[i + k]
    <3>1. \A i \in k + 1 .. m : i \in 1 .. m
      BY <1>1, <2>1
    <3>2. \A i \in 1 .. n : k + 1 + i - 1 = i + k
      BY <2>1
    <3>3. m - (k + 1) + 1 = n /\ k + 1 <= m + 1
      BY <1>1, <2>1
    <3>4. /\ SubSeq(s, k + 1, m) \in Seq(S) /\ Len(SubSeq(s, k + 1, m)) = n
          /\ \A i \in 1 .. n : SubSeq(s, k + 1, m)[i] = s[i + k]
      BY <1>1, <2>1, <3>1, <3>2, <3>3
    <3>5. p \in Seq(S) /\ Len(p) = n /\ \A i \in 1 .. n : p[i] = s[i + k]
      BY <2>2, <3>4, Zenon
    <3> QED
      BY <3>5
  <2>4. /\ \A i \in 1 .. n : i + k \in 1 .. m
        /\ \A i, j \in 1 .. n : i < j => i + k < j + k
        /\ \A j \in 1 .. m : (j - k \in 1 .. n /\ (j - k) + k = j) \/ \A i \in 1 .. n : j < i + k
    BY <1>1, <2>1
  <2>5. \A i \in DOMAIN p : \E j \in DOMAIN s : p[i] = s[j]
    BY <1>1, <2>3, <2>4
  <2>6. Rising(s) => Rising(p)
    BY <1>1, <2>3, <2>4 DEF Rising
  <2>7. Rising(s) => \A j \in DOMAIN s : \/ \E i \in DOMAIN p : s[j] = p[i]
                                         \/ \A i \in DOMAIN p : s[j] < p[i]
    <3> SUFFICES ASSUME Rising(s), NEW j \in 1 .. m
                 PROVE  (\E i \in 1 .. n : s[j] = p[i]) \/ (\A i \in 1 .. n : s[j] < p[i])
      BY <1>1, <2>3
    <3>1. CASE j - k \in 1 .. n /\ (j - k) + k = j
      BY <2>3, <3>1
    <3>2. CASE \A i \in 1 .. n : j < i + k
      BY <1>1, <2>3, <2>4, <3>2 DEF Rising
    <3> QED
      BY <2>4, <3>1, <3>2
  <2>8. p \in Seq(S) /\ Len(p) <= n /\ Len(p) = n
    BY <2>3
  <2> QED
    BY <2>5, <2>6, <2>7, <2>8, Zenon DEF Within, LatestOf
<1>3. CASE ~(m > n)
  <2>1. p = s
    BY <1>3 DEF Newest
  <2>2. Len(s) <= n /\ (Len(s) >= n => Len(s) = n)
    <3>1. m \in Nat /\ ~(m > n) /\ n \in Nat
      BY <1>1, <1>3
    <3> HIDE DEF m
    <3>2. m <= n /\ (m >= n => m = n)
      BY <3>1
    <3> QED
      BY <3>2 DEF m
  <2>3. /\ \A i \in DOMAIN s : \E j \in DOMAIN s : s[i] = s[j]
        /\ \A j \in DOMAIN s : \E i \in DOMAIN s : s[j] = s[i]
    OBVIOUS
  <2> QED
    BY <2>1, <2>2, <2>3 DEF Within, LatestOf
<1> QED
  BY <1>2, <1>3

\* What is assumed of the constants of a guest.
LEMMA GuestConstants ==
  /\ RingSize \in Nat \ {0} /\ Window \in Nat \ {0} /\ MaxBytes \in Nat \ {0}
  /\ Consumers = {"relay", "scenario"} /\ "nobody" \notin Consumers
  BY GuestAssumption DEF Consumers

\* What the inspections read and the handshake does not touch
LEMMA GuestTyped ==
  ASSUME GuestInv
  PROVE  /\ ring \in Seq(Nat) /\ cache \in Seq(Nat) /\ settled \subseteq Nat /\ emitted \in Nat
         /\ consumer \in [Consumers -> Holdings]
         /\ \A c \in Consumers : consumer[c].serial \in Seq(Nat) /\ consumer[c].retained \in Seq(Nat)
         /\ Idle \in Holdings /\ Idle.step = "idle"
<1>1. consumer \in [Consumers -> Holdings] /\ ring \in Seq(Nat) /\ cache \in Seq(Nat) /\ settled \subseteq Nat
  BY DEF GuestInv, SerialTyped
<1>2. \A c \in Consumers : consumer[c].serial \in Seq(Nat) /\ consumer[c].retained \in Seq(Nat)
  BY <1>1 DEF Holdings
<1>3. emitted \in Nat
  BY GuestConstants DEF GuestInv, GuestTypeOK
<1>4. Idle \in Holdings /\ Idle.step = "idle"
  BY DEF Idle, Holdings
<1> QED
  BY <1>1, <1>2, <1>3, <1>4

\* A byte newly emitted is later than every other.
LEMMA EmitStep ==
  ASSUME GuestInv, Emit
  PROVE  SerialTyped' /\ RingInv' /\ SerialIsKept' /\ Len(ring') <= RingSize /\ emitted' \in 0 .. MaxBytes
<1> DEFINE n == emitted + 1
           r == Append(ring, n)
<1>1. /\ emitted < MaxBytes /\ emitted' = n /\ ring' = Newest(r, RingSize)
      /\ UNCHANGED <<cache, settled, graphLock, consumer>>
  BY DEF Emit
<1>2. /\ ring \in Seq(Nat) /\ cache \in Seq(Nat) /\ settled \subseteq Nat /\ emitted \in Nat
      /\ \A c \in Consumers : consumer[c].serial \in Seq(Nat)
  BY GuestTyped
<1>3. n \in Nat /\ emitted < n /\ n \in 0 .. MaxBytes
  BY <1>1, <1>2, GuestConstants
<1> DEFINE k == Len(ring)
<1>4. /\ r \in Seq(Nat) /\ k \in Nat /\ DOMAIN ring = 1 .. k /\ DOMAIN r = 1 .. k + 1 /\ r[k + 1] = n
      /\ \A i \in 1 .. k : r[i] = ring[i] /\ ring[i] \in Nat
  BY <1>2, <1>3
<1>5. /\ \A i \in 1 .. k + 1 : i \in 1 .. k \/ i = k + 1
      /\ \A i \in 1 .. k : i < k + 1 /\ ~(k + 1 < i)
      /\ ~(k + 1 < k + 1)
  BY <1>4
<1> HIDE DEF n, r, k
<1>6. \A i \in 1 .. k : ring[i] <= emitted /\ ring[i] < n /\ ring[i] <= n
  <2>1. \A i \in 1 .. k : ring[i] <= emitted
    BY <1>4 DEF GuestInv, RingInv, UpTo
  <2> QED
    BY <1>2, <1>3, <1>4, <2>1
<1>7. Rising(r)
  <2> SUFFICES ASSUME NEW i \in 1 .. k + 1, NEW j \in 1 .. k + 1, i < j PROVE r[i] < r[j]
    BY <1>4 DEF Rising
  <2>1. i \in 1 .. k
    BY <1>5
  <2>2. CASE j \in 1 .. k
    BY <1>4, <2>1, <2>2 DEF GuestInv, RingInv, Rising
  <2>3. CASE j = k + 1
    BY <1>4, <1>6, <2>1, <2>3
  <2> QED
    BY <1>5, <2>2, <2>3
<1>8. UpTo(r, n)
  <2> SUFFICES ASSUME NEW i \in 1 .. k + 1 PROVE r[i] <= n
    BY <1>4 DEF UpTo
  <2> QED
    BY <1>3, <1>4, <1>5, <1>6
<1>9. ASSUME NEW S, S \subseteq Nat, \A m \in S : m <= emitted, After(S, ring) PROVE After(S, r)
  <2> SUFFICES ASSUME NEW m \in S, NEW i \in 1 .. k + 1 PROVE m < r[i]
    BY <1>4 DEF After
  <2>1. m < n
    BY <1>2, <1>3, <1>9
  <2> QED
    BY <1>4, <1>5, <1>9, <2>1 DEF After
<1>10. ASSUME NEW s \in Seq(Nat), UpTo(s, emitted), Before(s, ring) PROVE Before(s, r) /\ UpTo(s, n)
  <2>1. \A i \in DOMAIN s : s[i] \in Nat /\ s[i] <= emitted
    BY <1>10, SequenceFacts DEF UpTo
  <2>2. \A i \in DOMAIN s : s[i] < n /\ s[i] <= n
    BY <1>2, <1>3, <2>1
  <2> QED
    BY <1>4, <1>5, <1>10, <2>2 DEF Before, UpTo
<1> DEFINE p == Newest(r, RingSize)
<1>11. /\ p \in Seq(Nat) /\ Len(p) <= RingSize /\ Rising(p)
       /\ \A i \in DOMAIN p : \E j \in DOMAIN r : p[i] = r[j]
  <2>1. RingSize \in Nat \ {0}
    BY GuestConstants
  <2> HIDE DEF p
  <2>2. p = Newest(r, RingSize)
    BY DEF p
  <2>3. r \in Seq(Nat)
    BY <1>4
  <2>4. p \in Seq(Nat) /\ Len(p) <= RingSize /\ Within(p, r) /\ (Rising(r) => Rising(p))
    BY <2>1, <2>2, <2>3, NewestFacts
  <2> QED
    BY <1>7, <2>4 DEF Within
<1> HIDE DEF p
<1>12. /\ UpTo(p, n)
       /\ \A S : After(S, r) => After(S, p)
       /\ \A s : Before(s, r) => Before(s, p)
  BY <1>8, <1>11 DEF UpTo, After, Before
<1>13. ring' = p
  BY <1>1 DEF p
<1>14. \A m \in settled : m <= emitted
  BY DEF GuestInv, RingInv
<1>15. After(settled, ring) /\ \A c \in Consumers : Holding(c) => Fresh(consumer[c].serial, ring)
  BY DEF GuestInv, RingInv
<1>16. After(settled, p)
  BY <1>2, <1>9, <1>12, <1>14, <1>15
<1>17. ASSUME NEW c \in Consumers, Holding(c)
       PROVE  /\ Rising(consumer[c].serial) /\ UpTo(consumer[c].serial, n) /\ Before(consumer[c].serial, p)
              /\ After(settled, consumer[c].serial)
  BY <1>2, <1>10, <1>12, <1>15, <1>17 DEF Fresh
<1>18. RingInv'
  <2>1. \A m \in settled : m <= n
    BY <1>2, <1>3, <1>14
  <2> QED
    BY <1>1, <1>11, <1>12, <1>13, <1>16, <1>17, <2>1 DEF GuestInv, RingInv, Fresh, Holding
<1>19. SerialTyped' /\ SerialIsKept'
  BY <1>1, <1>11, <1>13 DEF GuestInv, SerialTyped, SerialIsKept
<1> QED
  BY <1>1, <1>3, <1>11, <1>13, <1>18, <1>19


\* The record of one consumer, changed
LEMMA ConsumerChanged ==
  ASSUME GuestInv, NEW c \in Consumers, NEW h \in Holdings, consumer' = [consumer EXCEPT ![c] = h]
  PROVE  /\ consumer' \in [Consumers -> Holdings] /\ consumer'[c] = h
         /\ \A d \in Consumers : d # c => consumer'[d] = consumer[d]
  BY GuestTyped

\* Outside a consumer that has begun, everyone is idle.
LEMMA OthersIdle ==
  ASSUME GuestInv, NEW c \in Consumers, consumer[c].step # "idle" \/ graphLock = "nobody"
  PROVE  \A d \in Consumers : d # c => consumer[d].step = "idle"
  BY GuestConstants DEF GuestInv, RingInv

\* A reader takes the graph lock.
LEMMA InspectSteps ==
  ASSUME GuestInv, NEW c \in Consumers, Inspect(c) \/ (c = "scenario" /\ (Pause \/ Resume))
  PROVE  SerialTyped' /\ RingInv' /\ SerialIsKept' /\ graphLock' \in Consumers
<1>1. UNCHANGED <<ring, emitted, cache, settled>>
  BY DEF Inspect, Pause, Resume
<1>2. graphLock' = c
  BY DEF Inspect, Pause, Resume, GuestInv, RingInv
<1>3. \A d \in Consumers : d # c => consumer[d].step = "idle"
  <2>1. consumer[c].step # "idle" \/ graphLock = "nobody"
    BY DEF Inspect, Obtains, Pause, Resume
  <2> QED
    BY <2>1, OthersIdle
<1>4. \E s \in {"drain", "pause", "resume"} : consumer' = [consumer EXCEPT ![c].step = s]
  BY DEF Inspect, Pause, Resume
<1>5. PICK s \in {"drain", "pause", "resume"} : consumer' = [consumer EXCEPT ![c].step = s]
  BY <1>4
<1> DEFINE h == [consumer[c] EXCEPT !.step = s]
<1>6. h \in Holdings /\ h.step = s
  BY GuestTyped DEF Holdings
<1>7. consumer' = [consumer EXCEPT ![c] = h]
  BY <1>5
<1> HIDE DEF h
<1>8. /\ consumer' \in [Consumers -> Holdings] /\ consumer'[c].step = s
      /\ \A d \in Consumers : d # c => consumer'[d] = consumer[d]
  BY <1>6, <1>7, ConsumerChanged
<1>9. \A d \in Consumers : consumer'[d].step \in {"idle", "drain", "pause", "resume"} /\ (consumer'[d].step # "idle" => d = c)
  BY <1>3, <1>8
<1>10. RingInv'
  BY <1>1, <1>2, <1>9 DEF GuestInv, RingInv, Holding
<1>11. SerialTyped' /\ SerialIsKept'
  BY <1>1, <1>8 DEF GuestInv, SerialTyped, SerialIsKept
<1> QED
  BY <1>2, <1>10, <1>11

\* ringbuf-read: the consumer has the bytes of the ring.
LEMMA DrainRing ==
  ASSUME GuestInv, NEW c \in Consumers, Drain(c)
  PROVE  SerialTyped' /\ RingInv' /\ SerialIsKept' /\ Len(ring') <= RingSize
<1>1. /\ consumer[c].step = "drain" /\ ring' = <<>>
      /\ consumer' = [consumer EXCEPT ![c].step = "retain", ![c].serial = ring]
      /\ UNCHANGED <<emitted, cache, settled, graphLock>>
  BY DEF Drain
<1> DEFINE h == [consumer[c] EXCEPT !.step = "retain", !.serial = ring]
<1>2. h \in Holdings /\ h.step = "retain" /\ h.serial = ring
  BY GuestTyped DEF Holdings
<1>3. consumer' = [consumer EXCEPT ![c] = h]
  BY <1>1, GuestTyped
<1> HIDE DEF h
<1>4. /\ consumer' \in [Consumers -> Holdings] /\ consumer'[c].step = "retain" /\ consumer'[c].serial = ring
      /\ \A d \in Consumers : d # c => consumer'[d] = consumer[d]
  BY <1>2, <1>3, ConsumerChanged
<1>5. \A d \in Consumers : d # c => consumer[d].step = "idle"
  BY <1>1, OthersIdle
<1>6. \A d \in Consumers : consumer'[d].step # "idle" => d = c
  BY <1>4, <1>5
<1>7. graphLock = c
  BY <1>1 DEF GuestInv, RingInv
<1>8. Rising(<<>>) /\ UpTo(<<>>, emitted) /\ After(settled, <<>>) /\ Before(ring, <<>>)
  BY DEF Rising, UpTo, After, Before
<1>9. Rising(ring) /\ UpTo(ring, emitted) /\ After(settled, ring)
  BY DEF GuestInv, RingInv
<1>10. \A d \in Consumers : Holding(d)' => Fresh(consumer[d].serial, ring)'
  <2> SUFFICES ASSUME NEW d \in Consumers, Holding(d)' PROVE Fresh(consumer[d].serial, ring)'
    OBVIOUS
  <2>1. d = c
    BY <1>6 DEF Holding
  <2> QED
    BY <1>1, <1>4, <1>8, <1>9, <2>1 DEF Fresh
<1>11. RingInv'
  <2>1. \A d \in Consumers : consumer'[d].step # "idle" => graphLock' = d
    BY <1>1, <1>6, <1>7
  <2>2. \A d \in Consumers : consumer'[d].step # "publish"
    BY <1>4, <1>6
  <2>3. Rising(ring') /\ UpTo(ring', emitted') /\ After(settled', ring') /\ \A n \in settled' : n <= emitted'
    BY <1>1, <1>8 DEF GuestInv, RingInv
  <2> QED
    BY <1>10, <2>1, <2>2, <2>3 DEF RingInv
<1>12. SerialTyped' /\ SerialIsKept'
  BY <1>1, <1>4 DEF GuestInv, SerialTyped, SerialIsKept
<1>13. Len(ring') <= RingSize
  <2>1. Len(ring') = 0
    BY <1>1
  <2> QED
    BY <2>1, GuestConstants
<1> QED
  BY <1>11, <1>12, <1>13

\* A reader puts what it drained behind the boot log (qemu_resources.cpp:330-368).
LEMMA RetainStep ==
  ASSUME GuestInv, NEW c \in Consumers, Retain(c)
  PROVE  SerialTyped' /\ RingInv' /\ SerialIsKept'
<1>1. /\ consumer[c].step = "retain"
      /\ consumer' = [consumer EXCEPT ![c].step = "publish", ![c].retained = cache]
      /\ UNCHANGED <<ring, emitted, cache, settled, graphLock>>
  BY DEF Retain
<1> DEFINE h == [consumer[c] EXCEPT !.step = "publish", !.retained = cache]
<1>2. h \in Holdings /\ h.step = "publish" /\ h.retained = cache /\ h.serial = consumer[c].serial
  BY GuestTyped DEF Holdings
<1>3. consumer' = [consumer EXCEPT ![c] = h]
  BY <1>1, GuestTyped
<1> HIDE DEF h
<1>4. /\ consumer' \in [Consumers -> Holdings] /\ consumer'[c].step = "publish" /\ consumer'[c].retained = cache
      /\ consumer'[c].serial = consumer[c].serial
      /\ \A d \in Consumers : d # c => consumer'[d] = consumer[d]
  BY <1>2, <1>3, ConsumerChanged
<1>5. \A d \in Consumers : d # c => consumer[d].step = "idle"
  BY <1>1, OthersIdle
<1>6. graphLock = c /\ Fresh(consumer[c].serial, ring)
  BY <1>1 DEF GuestInv, RingInv, Holding
<1>7. \A d \in Consumers : Holding(d)' => Fresh(consumer[d].serial, ring)'
  <2> SUFFICES ASSUME NEW d \in Consumers, Holding(d)' PROVE Fresh(consumer[d].serial, ring)'
    OBVIOUS
  <2>1. d = c
    BY <1>4, <1>5 DEF Holding
  <2> QED
    BY <1>1, <1>4, <1>6, <2>1 DEF Fresh
<1>8. RingInv'
  <2>1. \A d \in Consumers : consumer'[d].step # "idle" => graphLock' = d
    BY <1>1, <1>4, <1>5, <1>6
  <2>2. \A d \in Consumers : consumer'[d].step = "publish" => consumer'[d].retained = cache'
    BY <1>1, <1>4, <1>5
  <2>3. Rising(ring') /\ UpTo(ring', emitted') /\ After(settled', ring') /\ \A n \in settled' : n <= emitted'
    BY <1>1 DEF GuestInv, RingInv
  <2> QED
    BY <1>7, <2>1, <2>2, <2>3 DEF RingInv
<1>9. SerialTyped' /\ SerialIsKept'
  BY <1>1, <1>4 DEF GuestInv, SerialTyped, SerialIsKept
<1> QED
  BY <1>8, <1>9

\* A reader fails.
LEMMA FailStep ==
  ASSUME GuestInv, NEW c \in Consumers, ConsumerFails(c)
  PROVE  SerialTyped' /\ RingInv' /\ SerialIsKept'
<1>1. /\ consumer[c].step # "idle" /\ consumer' = [consumer EXCEPT ![c] = Idle] /\ graphLock' = "nobody"
      /\ UNCHANGED <<ring, emitted, cache, settled>>
  BY DEF ConsumerFails
<1>2. /\ consumer' \in [Consumers -> Holdings] /\ consumer'[c].step = "idle"
      /\ \A d \in Consumers : d # c => consumer'[d] = consumer[d]
  BY <1>1, GuestTyped, ConsumerChanged
<1>3. \A d \in Consumers : consumer'[d].step = "idle"
  BY <1>1, <1>2, OthersIdle
<1>4. RingInv'
  BY <1>1, <1>3 DEF GuestInv, RingInv, Holding
<1>5. SerialTyped' /\ SerialIsKept'
  BY <1>1, <1>2 DEF GuestInv, SerialTyped, SerialIsKept
<1> QED
  BY <1>4, <1>5

\* A reader publishes the boot log.
LEMMA PublishStep ==
  ASSUME GuestInv, NEW c \in Consumers, Publish(c)
  PROVE  SerialTyped' /\ RingInv' /\ SerialIsKept' /\ Len(cache') <= Window
<1> DEFINE s == consumer[c].serial
           d == cache \o s
<1>1. /\ consumer[c].step = "publish" /\ consumer[c].retained = cache
      /\ cache' = Newest(d, Window) /\ settled' = settled \cup ToSet(s)
      /\ consumer' = [consumer EXCEPT ![c] = Idle] /\ graphLock' = "nobody"
      /\ UNCHANGED <<ring, emitted>>
  BY DEF Publish, GuestInv, RingInv
<1>2. /\ consumer' \in [Consumers -> Holdings] /\ consumer'[c].step = "idle"
      /\ \A e \in Consumers : e # c => consumer'[e] = consumer[e]
  BY <1>1, GuestTyped, ConsumerChanged
<1>3. \A e \in Consumers : consumer'[e].step = "idle"
  BY <1>1, <1>2, OthersIdle
<1>4. Rising(s) /\ UpTo(s, emitted) /\ Before(s, ring) /\ After(settled, s)
  BY <1>1 DEF GuestInv, RingInv, Fresh, Holding
<1>5. s \in Seq(Nat) /\ cache \in Seq(Nat) /\ settled \subseteq Nat /\ emitted \in Nat /\ ring \in Seq(Nat)
  BY GuestTyped
<1>6. /\ Rising(cache) /\ ToSet(cache) \subseteq settled
      /\ \A n \in settled \ ToSet(cache) : Len(cache) = Window /\ \A i \in DOMAIN cache : n < cache[i]
  BY DEF GuestInv, SerialIsKept, Rising
<1> HIDE DEF s
<1>7. \A i \in DOMAIN cache : cache[i] \in settled
  BY <1>6 DEF ToSet
<1>8. Before(cache, s)
  BY <1>4, <1>7 DEF Before, After
<1>9. d \in Seq(Nat) /\ Len(d) = Len(cache) + Len(s) /\ Rising(d)
  BY <1>4, <1>5, <1>6, <1>8, ConcatOrder
<1>10. /\ \A n : n \in ToSet(cache) \/ n \in ToSet(s) <=> n \in ToSet(d)
       /\ \A i \in DOMAIN d : (\E j \in DOMAIN cache : d[i] = cache[j]) \/ (\E j \in DOMAIN s : d[i] = s[j])
  <2> DEFINE k == Len(cache)
             m == Len(s)
  <2>1. /\ k \in Nat /\ m \in Nat /\ DOMAIN cache = 1 .. k /\ DOMAIN s = 1 .. m /\ DOMAIN d = 1 .. k + m
        /\ \A i \in 1 .. k + m : d[i] = IF i <= k THEN cache[i] ELSE s[i - k]
    BY <1>5
  <2>2. /\ \A i \in 1 .. k + m : (i \in 1 .. k /\ i <= k) \/ (i - k \in 1 .. m /\ ~(i <= k))
        /\ \A i \in 1 .. k : i \in 1 .. k + m /\ i <= k
        /\ \A i \in 1 .. m : i + k \in 1 .. k + m /\ ~(i + k <= k) /\ (i + k) - k = i
    BY <2>1
  <2> HIDE DEF d, k, m
  <2>3. \A i \in DOMAIN d : (\E j \in DOMAIN cache : d[i] = cache[j]) \/ (\E j \in DOMAIN s : d[i] = s[j])
    BY <2>1, <2>2
  <2>4. \A i \in DOMAIN cache : \E j \in DOMAIN d : d[j] = cache[i]
    BY <2>1, <2>2
  <2>5. \A i \in DOMAIN s : \E j \in DOMAIN d : d[j] = s[i]
    BY <2>1, <2>2
  <2> QED
    BY <2>3, <2>4, <2>5 DEF ToSet
<1> HIDE DEF d
<1> DEFINE p == Newest(d, Window)
<1>11. cache' = p /\ p = Newest(d, Window)
  BY <1>1
<1> HIDE DEF p
<1>12. /\ p \in Seq(Nat) /\ Len(p) <= Window /\ (Len(d) >= Window => Len(p) = Window)
       /\ Within(p, d) /\ Rising(p) /\ LatestOf(p, d, Window)
  BY <1>9, <1>11, GuestConstants, NewestFacts
<1>13. \A n \in settled \cup ToSet(s) : n \notin ToSet(p) => Len(p) = Window /\ \A i \in DOMAIN p : n < p[i]
  <2> SUFFICES ASSUME NEW n \in settled \cup ToSet(s), n \notin ToSet(p)
               PROVE  Len(p) = Window /\ \A i \in DOMAIN p : n < p[i]
    OBVIOUS
  <2>1. CASE n \in ToSet(d)
    <3>1. PICK j \in DOMAIN d : n = d[j]
      BY <2>1 DEF ToSet
    <3>2. ~\E i \in DOMAIN p : d[j] = p[i]
      BY <3>1 DEF ToSet
    <3> QED
      BY <1>12, <3>1, <3>2 DEF LatestOf
  <2>2. CASE n \notin ToSet(d)
    <3>1. n \in settled \ ToSet(cache)
      BY <1>10, <2>2
    <3>2. Len(cache) = Window /\ \A i \in DOMAIN cache : n < cache[i]
      BY <1>6, <3>1
    <3>3. \A i \in DOMAIN s : n < s[i]
      BY <1>4, <3>1 DEF After
    <3>4. \A i \in DOMAIN d : n < d[i]
      BY <1>10, <3>2, <3>3
    <3>5. \A i \in DOMAIN p : n < p[i]
      BY <1>12, <3>4 DEF Within
    <3>6. Len(d) >= Window
      <4>1. Len(s) \in Nat /\ Window \in Nat
        BY <1>5, GuestConstants, SequenceFacts
      <4> QED
        BY <1>9, <3>2, <4>1
    <3> QED
      BY <1>12, <3>5, <3>6
  <2> QED
    BY <2>1, <2>2
<1>14. ToSet(p) \subseteq settled \cup ToSet(s)
  <2>1. ToSet(p) \subseteq ToSet(d)
    BY <1>12 DEF Within, ToSet
  <2> QED
    BY <1>6, <1>10, <2>1
<1>15. SerialIsKept'
  BY <1>1, <1>11, <1>12, <1>13, <1>14 DEF SerialIsKept, Rising
<1>16. ToSet(s) \subseteq Nat /\ (\A n \in ToSet(s) : n <= emitted) /\ After(ToSet(s), ring)
  BY <1>4, <1>5, SequenceFacts DEF ToSet, UpTo, After, Before
<1>17. RingInv'
  <2>1. \A n \in settled' : n <= emitted'
    BY <1>1, <1>16 DEF GuestInv, RingInv
  <2>2. After(settled', ring')
    BY <1>1, <1>16 DEF GuestInv, RingInv, After
  <2> QED
    BY <1>1, <1>3, <2>1, <2>2 DEF GuestInv, RingInv, Holding
<1>18. SerialTyped'
  BY <1>1, <1>2, <1>5, <1>11, <1>12, <1>16 DEF SerialTyped
<1> QED
  BY <1>11, <1>12, <1>15, <1>17, <1>18


\* The handshake: the serial side is untouched and its own side keeps its types.
HandshakeTyped ==
  /\ host \in {"start", "connect", "frontends", "config", "credentials", "bound", "barrier", "released?",
               "released", "failed"}
  /\ guest \in {"boot", "config", "credentials", "provision", "release", "publish", "running", "dead"}
  /\ connected \subseteq AllPorts /\ opened \subseteq AllPorts
  /\ inbox \in [AllPorts -> Seq({"config", "secret", "release"})]
  /\ answers \in Seq({"listeners-bound", "released"})
Handshake == StartQemu \/ HostStep \/ HostFails \/ AgentStep \/ AgentFails

\* The ports of the handshake.
LEMMA PortsListed == AllPorts = {"config", "credentials", "ready"} /\ \A i \in DOMAIN Ports : Ports[i] \in AllPorts
  BY DEF AllPorts, Ports, ToSet

\* The handshake leaves the console alone.
LEMMA HandshakeStep ==
  ASSUME GuestInv, Handshake
  PROVE  HandshakeTyped' /\ UNCHANGED serialVars
<1>1. HandshakeTyped
  BY DEF GuestInv, GuestTypeOK, HandshakeTyped
<1>2. CASE StartQemu \/ ConnectPort \/ Frontends \/ HostFails \/ OpenPort \/ AgentFails
  BY <1>1, <1>2, PortsListed DEF HandshakeTyped, StartQemu, ConnectPort, Frontends, HostFails, OpenPort, AgentFails
<1>3. CASE Provision
  <2>1. /\ host' \in {"credentials", "bound", "released?"}
        /\ UNCHANGED <<connected, guest, opened, answers, serialVars>>
        /\ \E p \in AllPorts, f \in {"config", "secret", "release"} :
             inbox' = inbox \/ inbox' = [inbox EXCEPT ![p] = Append(@, f)]
    BY <1>3, PortsListed DEF Provision, Delivered
  <2>2. inbox' \in [AllPorts -> Seq({"config", "secret", "release"})]
    <3>1. PICK p \in AllPorts, f \in {"config", "secret", "release"} :
             inbox' = inbox \/ inbox' = [inbox EXCEPT ![p] = Append(@, f)]
      BY <2>1
    <3>2. inbox[p] \in Seq({"config", "secret", "release"})
      BY <1>1 DEF HandshakeTyped
    <3>3. Append(inbox[p], f) \in Seq({"config", "secret", "release"})
      BY <3>2
    <3> QED
      BY <1>1, <3>1, <3>3 DEF HandshakeTyped
  <2> QED
    BY <1>1, <2>1, <2>2 DEF HandshakeTyped
<1>4. CASE Receive
  <2>1. /\ answers # <<>> /\ answers' = Tail(answers) /\ host' \in {"barrier", "released", "failed"}
        /\ UNCHANGED <<connected, guest, opened, inbox, serialVars>>
    BY <1>4 DEF Receive
  <2>2. answers' \in Seq({"listeners-bound", "released"})
    BY <1>1, <2>1 DEF HandshakeTyped
  <2> QED
    BY <1>1, <2>1, <2>2 DEF HandshakeTyped
<1>5. CASE AgentReads
  <2>1. /\ guest' \in {"credentials", "provision", "publish", "dead"}
        /\ UNCHANGED <<host, connected, opened, answers, serialVars>>
        /\ \E p \in AllPorts : \/ inbox' = inbox
                               \/ inbox[p] # <<>> /\ inbox' = [inbox EXCEPT ![p] = Tail(@)]
    BY <1>5, PortsListed DEF AgentReads, Reads
  <2>2. inbox' \in [AllPorts -> Seq({"config", "secret", "release"})]
    <3>1. PICK p \in AllPorts : \/ inbox' = inbox
                                \/ inbox[p] # <<>> /\ inbox' = [inbox EXCEPT ![p] = Tail(@)]
      BY <2>1
    <3>2. inbox[p] \in Seq({"config", "secret", "release"})
      BY <1>1 DEF HandshakeTyped
    <3>3. inbox[p] # <<>> => Tail(inbox[p]) \in Seq({"config", "secret", "release"})
      BY <3>2
    <3> QED
      BY <1>1, <3>1, <3>3 DEF HandshakeTyped
  <2> QED
    BY <1>1, <2>1, <2>2 DEF HandshakeTyped
<1>6. CASE AgentAnswers
  <2>1. /\ guest' \in {"release", "running"} /\ UNCHANGED <<host, connected, opened, inbox, serialVars>>
        /\ \E a \in {"listeners-bound", "released"} : answers' = Append(answers, a)
    BY <1>6 DEF AgentAnswers
  <2>2. answers' \in Seq({"listeners-bound", "released"})
    BY <1>1, <2>1 DEF HandshakeTyped
  <2> QED
    BY <1>1, <2>1, <2>2 DEF HandshakeTyped
<1> QED
  BY <1>2, <1>3, <1>4, <1>5, <1>6 DEF Handshake, HostStep, AgentStep

\* The guest begins in its invariant.
LEMMA GuestInitially ==
  ASSUME GuestInit
  PROVE  GuestInv
<1>1. /\ host = "start" /\ connected = {} /\ guest = "boot" /\ opened = {}
      /\ inbox = [p \in AllPorts |-> <<>>] /\ answers = <<>>
      /\ ring = <<>> /\ emitted = 0 /\ graphLock = "nobody" /\ consumer = [c \in Consumers |-> Idle]
      /\ cache = <<>> /\ settled = {} /\ paused = FALSE
  BY DEF GuestInit
<1>2. Idle \in Holdings /\ Idle.step = "idle"
  BY DEF Idle, Holdings
<1>3. SerialTyped /\ RingInv /\ SerialIsKept
  BY <1>1, <1>2 DEF SerialTyped, RingInv, SerialIsKept, ToSet, Rising, UpTo, After, Holding
<1>4. HandshakeTyped
  BY <1>1 DEF HandshakeTyped
<1>5. paused \in BOOLEAN
  BY <1>1, Zenon
<1>6. Len(ring) <= RingSize /\ Len(cache) <= Window /\ emitted \in 0 .. MaxBytes
  <2>1. Len(ring) = 0 /\ Len(cache) = 0
    BY <1>1
  <2> QED
    BY <1>1, <2>1, GuestConstants
<1> QED
  BY <1>1, <1>3, <1>4, <1>5, <1>6 DEF GuestInv, GuestTypeOK, HandshakeTyped

\* Every step of the guest and its readers keeps their invariant.
LEMMA GuestStep ==
  ASSUME GuestInv, [GuestNext]_guestVars
  PROVE  GuestInv'
<1>0. HandshakeTyped /\ Len(ring) <= RingSize /\ Len(cache) <= Window /\ emitted \in 0 .. MaxBytes
      /\ graphLock \in Consumers \cup {"nobody"} /\ paused \in BOOLEAN
  BY Zenon DEF GuestInv, GuestTypeOK, HandshakeTyped
<1> DEFINE Limits == /\ Len(ring) <= RingSize /\ Len(cache) <= Window /\ emitted \in 0 .. MaxBytes
                     /\ graphLock \in Consumers \cup {"nobody"}
<1>1. CASE Handshake \/ UNCHANGED guestVars
  <2>1. HandshakeTyped' /\ UNCHANGED serialVars
    <3>1. CASE Handshake
      BY <3>1, HandshakeStep
    <3>2. CASE UNCHANGED guestVars
      BY <1>0, <3>2 DEF guestVars, handshakeVars, HandshakeTyped
    <3> QED
      BY <1>1, <3>1, <3>2
  <2>2. UNCHANGED <<ring, emitted, cache, settled, graphLock, consumer, paused>>
    BY <2>1 DEF serialVars
  <2>3. SerialTyped' /\ RingInv' /\ SerialIsKept'
    BY <2>2 DEF GuestInv, SerialTyped, RingInv, SerialIsKept, Holding, Fresh
  <2>4. GuestTypeOK'
    BY <1>0, <2>1, <2>2 DEF GuestTypeOK, HandshakeTyped
  <2> QED
    BY <2>3, <2>4 DEF GuestInv
<1>2. CASE Emit \/ Pause \/ Resume \/ \E c \in Consumers : Inspect(c) \/ Drain(c) \/ Retain(c) \/ Publish(c) \/ ConsumerFails(c)
  <2>1. UNCHANGED handshakeVars
    BY <1>2 DEF Emit, Pause, Resume, Inspect, Drain, Retain, Publish, ConsumerFails
  <2>2. HandshakeTyped'
    BY <1>0, <2>1 DEF HandshakeTyped, handshakeVars
  <2>3. paused' \in BOOLEAN
    <3>1. paused' = paused \/ paused' = TRUE \/ paused' = FALSE
      BY <1>2 DEF Emit, Pause, Resume, Inspect, Drain, Retain, Publish, ConsumerFails
    <3> QED
      BY <1>0, <3>1, Zenon
  <2>4. SerialTyped' /\ RingInv' /\ SerialIsKept' /\ Limits'
    <3>1. CASE Emit
      BY <1>0, <3>1, EmitStep DEF Emit
    <3>2. CASE Pause \/ Resume
      <4>1. "scenario" \in Consumers
        BY DEF Consumers
      <4>2. UNCHANGED <<ring, cache, emitted>>
        BY <3>2 DEF Pause, Resume
      <4>3. SerialTyped' /\ RingInv' /\ SerialIsKept' /\ graphLock' \in Consumers
        BY <3>2, <4>1, InspectSteps
      <4> QED
        BY <1>0, <4>2, <4>3
    <3>3. ASSUME NEW c \in Consumers, Inspect(c) PROVE SerialTyped' /\ RingInv' /\ SerialIsKept' /\ Limits'
      <4>2. UNCHANGED <<ring, cache, emitted>>
        BY <3>3 DEF Inspect
      <4>3. SerialTyped' /\ RingInv' /\ SerialIsKept' /\ graphLock' \in Consumers
        BY <3>3, InspectSteps
      <4> QED
        BY <1>0, <4>2, <4>3
    <3>4. ASSUME NEW c \in Consumers, Drain(c) PROVE SerialTyped' /\ RingInv' /\ SerialIsKept' /\ Limits'
      BY <1>0, <3>4, DrainRing DEF Drain
    <3>5. ASSUME NEW c \in Consumers, Retain(c) PROVE SerialTyped' /\ RingInv' /\ SerialIsKept' /\ Limits'
      BY <1>0, <3>5, RetainStep DEF Retain
    <3>6. ASSUME NEW c \in Consumers, Publish(c) PROVE SerialTyped' /\ RingInv' /\ SerialIsKept' /\ Limits'
      BY <1>0, <3>6, PublishStep DEF Publish
    <3>7. ASSUME NEW c \in Consumers, ConsumerFails(c) PROVE SerialTyped' /\ RingInv' /\ SerialIsKept' /\ Limits'
      BY <1>0, <3>7, FailStep DEF ConsumerFails
    <3> QED
      BY <1>2, <3>1, <3>2, <3>3, <3>4, <3>5, <3>6, <3>7
  <2>5. GuestTypeOK'
    BY <2>2, <2>3, <2>4 DEF GuestTypeOK, HandshakeTyped
  <2> QED
    BY <2>4, <2>5 DEF GuestInv
<1> QED
  BY <1>1, <1>2 DEF GuestNext, Handshake
-----------------------------------------------------------------------------
(***************************************************************************)
(* A command.                                                              *)
(***************************************************************************)
\* Where run_command is, and what is left of the child
StageInv ==
  /\ runner = "idle" => /\ child = "none" /\ produced = 0 /\ kept = 0 /\ outPipe = 0 /\ inPipe = 0 /\ truncated = FALSE
                        /\ outputOpen = FALSE /\ left = 0 /\ stdinOpen = FALSE /\ outcome = "none" /\ heir = FALSE
  /\ runner \in {"loop", "writing", "wait"} => child \in {"running", "exited"} /\ outcome = "none"
  /\ runner = "done" => child = "reaped" /\ outcome \in {"result", "thrown"}
  /\ stdinOpen => left > 0
  /\ runner = "writing" => left > 0
  /\ wants = "write" => produced < MaxOutput
\* Every cell of the captured output was kept or dropped, or is in the pipe.
OutputInv ==
  captured =>
    /\ truncated = FALSE => kept + outPipe = produced
    /\ truncated = TRUE => kept = OutputLimit /\ kept + outPipe < produced
    /\ runner # "idle" /\ ~outputOpen /\ outcome # "thrown" => outPipe = 0 /\ child # "running"
    /\ runner \in {"wait", "done"} /\ outcome # "thrown" => ~outputOpen
CommandInv == CommandTypeOK /\ StageInv /\ OutputInv

\* The types the steps below need.
LEMMA CommandFacts ==
  ASSUME CommandInv
  PROVE  /\ runner \in {"idle", "loop", "writing", "wait", "done"} /\ outcome \in {"none", "result", "thrown"}
         /\ child \in {"none", "running", "exited", "reaped"} /\ wants \in {"read", "write", "exit"}
         /\ left \in Nat /\ left <= InputCells /\ inPipe \in Nat /\ inPipe <= PipeCells
         /\ outPipe \in Nat /\ outPipe <= PipeCells /\ kept \in Nat /\ kept <= OutputLimit
         /\ produced \in Nat /\ produced <= MaxOutput
         /\ PipeCells \in Nat \ {0} /\ OutputLimit \in Nat \ {0} /\ InputCells \in Nat \ {0} /\ MaxOutput \in Nat \ {0}
<1>1. PipeCells \in Nat \ {0} /\ OutputLimit \in Nat \ {0} /\ InputCells \in Nat \ {0} /\ MaxOutput \in Nat \ {0}
  BY CommandAssumption
<1>2. /\ runner \in {"idle", "loop", "writing", "wait", "done"} /\ outcome \in {"none", "result", "thrown"}
      /\ child \in {"none", "running", "exited", "reaped"} /\ wants \in {"read", "write", "exit"}
      /\ left \in 0 .. InputCells /\ inPipe \in 0 .. PipeCells /\ outPipe \in 0 .. PipeCells
      /\ kept \in 0 .. OutputLimit /\ produced \in 0 .. MaxOutput
  BY DEF CommandInv, CommandTypeOK
<1> QED
  BY <1>1, <1>2

\* The types of the flags.
LEMMA CommandSwitches ==
  ASSUME CommandInv
  PROVE  /\ timed \in BOOLEAN /\ captured \in BOOLEAN /\ overdue \in BOOLEAN /\ interrupted \in BOOLEAN
         /\ stdinOpen \in BOOLEAN /\ outputOpen \in BOOLEAN /\ truncated \in BOOLEAN /\ stdinRead \in BOOLEAN
         /\ heir \in BOOLEAN /\ stalls \in BOOLEAN
  BY Zenon DEF CommandInv, CommandTypeOK

\* The types of the flags are kept.
LEMMA CommandBooleans ==
  ASSUME CommandInv, CommandNext
  PROVE  {timed', captured', overdue', interrupted', stdinOpen', outputOpen', truncated', stdinRead', heir', stalls'}
           \subseteq BOOLEAN
<1>1. /\ timed' = timed \/ timed' \in BOOLEAN
      /\ captured' = captured \/ captured' \in BOOLEAN
      /\ overdue' = overdue \/ overdue' = TRUE
      /\ interrupted' = interrupted \/ interrupted' = TRUE
      /\ stalls' = stalls \/ stalls' \in BOOLEAN
      /\ heir' = heir \/ heir' \in BOOLEAN \/ heir' = FALSE
  BY DEF CommandNext, RunCommand, Parent, Goes, GiveUp, BeginWrite, WriteInput, ReadOutput, TransferEnds, WaitChild,
         ChildReads, ChildWrites, ChildExits, HeirExits, ChildClosesInput, Elapses, Interrupt, parent, pipes, kinship,
         ownEnds
<1>2. /\ stdinOpen' = stdinOpen \/ stdinOpen' = FALSE \/ stdinOpen' = (left' > 0)
      /\ outputOpen' = outputOpen \/ outputOpen' = FALSE \/ outputOpen' = captured'
      /\ truncated' = truncated \/ truncated' = (truncated \/ ~Keep)
      /\ stdinRead' = stdinRead \/ stdinRead' = FALSE \/ stdinRead' = stdinOpen'
  BY DEF CommandNext, RunCommand, Parent, Goes, GiveUp, BeginWrite, WriteInput, ReadOutput, TransferEnds, WaitChild,
         ChildReads, ChildWrites, ChildExits, HeirExits, ChildClosesInput, Elapses, Interrupt, parent, pipes, kinship,
         ownEnds
<1>3. timed' \in BOOLEAN /\ captured' \in BOOLEAN /\ overdue' \in BOOLEAN /\ interrupted' \in BOOLEAN
      /\ stalls' \in BOOLEAN /\ heir' \in BOOLEAN
  BY <1>1, CommandSwitches, Zenon
<1>4. (left' > 0) \in BOOLEAN /\ (truncated \/ ~Keep) \in BOOLEAN
  <2>1. (left' > 0) \in BOOLEAN
    OBVIOUS
  <2>2. (truncated \/ ~Keep) \in BOOLEAN
    BY Zenon
  <2> QED
    BY <2>1, <2>2, Zenon
<1>5. stdinOpen' \in BOOLEAN /\ outputOpen' \in BOOLEAN /\ truncated' \in BOOLEAN
  BY <1>2, <1>3, <1>4, CommandSwitches, Zenon
<1>6. stdinRead' \in BOOLEAN
  BY <1>2, <1>5, CommandSwitches, Zenon
<1> QED
  BY <1>3, <1>5, <1>6, Zenon


\* The child's side of a step, and the parent's
ChildSteps == ChildReads \/ ChildWrites \/ ChildClosesInput \/ ChildExits \/ HeirExits
ParentSteps == RunCommand \/ GiveUp \/ BeginWrite \/ WriteInput \/ ReadOutput \/ TransferEnds \/ WaitChild \/ Elapses \/ Interrupt

\* A step of the child keeps the invariant of the command.
LEMMA ChildStep ==
  ASSUME CommandInv, ChildSteps
  PROVE  /\ inPipe' \in 0 .. PipeCells /\ outPipe' \in 0 .. PipeCells /\ produced' \in 0 .. MaxOutput
         /\ child' \in {"running", "exited", child} /\ wants' \in {"read", "write", "exit"}
         /\ StageInv' /\ OutputInv'
<1>1. UNCHANGED <<runner, captured, left, stdinOpen, outputOpen, kept, truncated, outcome>>
  BY DEF ChildSteps, ChildReads, ChildWrites, ChildClosesInput, ChildExits, HeirExits, parent, ownEnds
<1>2. CASE ChildReads
  <2>1. /\ child = "running" /\ UNCHANGED <<outPipe, child, produced, heir>>
        /\ inPipe' = inPipe \/ (inPipe > 0 /\ inPipe' = inPipe - 1)
        /\ wants' \in {"read", "write", "exit"} /\ (wants' = "write" => produced' < MaxOutput)
    BY <1>2 DEF ChildReads, NextWant
  <2>2. inPipe' \in 0 .. PipeCells /\ outPipe' \in 0 .. PipeCells /\ produced' \in 0 .. MaxOutput
    BY <2>1, CommandFacts
  <2>3. runner # "idle"
    BY <2>1 DEF CommandInv, StageInv
  <2>4. StageInv' /\ OutputInv'
    BY <1>1, <2>1, <2>3 DEF CommandInv, StageInv, OutputInv
  <2> QED
    BY <2>1, <2>2, <2>4
<1>3. CASE ChildWrites
  <2>1. /\ child = "running" /\ wants = "write" /\ UNCHANGED <<inPipe, child, heir>>
        /\ captured => outPipe < PipeCells /\ outPipe' = outPipe + 1
        /\ ~captured => outPipe' = outPipe
        /\ produced' = produced + 1
        /\ wants' \in {"read", "write", "exit"} /\ (wants' = "write" => produced' < MaxOutput)
    BY <1>3 DEF ChildWrites, NextWant
  <2>2. produced < MaxOutput /\ runner # "idle" /\ child # "reaped"
    BY <2>1 DEF CommandInv, StageInv
  <2>3. inPipe' \in 0 .. PipeCells /\ outPipe' \in 0 .. PipeCells /\ produced' \in 0 .. MaxOutput
    BY <2>1, <2>2, CommandFacts
  <2>4. StageInv'
    BY <1>1, <2>1, <2>2 DEF CommandInv, StageInv
  <2>5. OutputInv'
    <3> SUFFICES ASSUME captured PROVE OutputInv'
      BY <1>1 DEF OutputInv
    <3>1. outPipe' = outPipe + 1 /\ produced' = produced + 1
      BY <2>1
    <3>2. /\ truncated = FALSE => kept + outPipe' = produced'
          /\ truncated = TRUE => kept = OutputLimit /\ kept + outPipe' < produced'
      <4>1. /\ truncated = FALSE => kept + outPipe = produced
            /\ truncated = TRUE => kept = OutputLimit /\ kept + outPipe < produced
        BY DEF CommandInv, OutputInv
      <4>2. /\ kept + outPipe = produced => kept + outPipe' = produced'
            /\ kept + outPipe < produced => kept + outPipe' < produced'
        BY <3>1, CommandFacts
      <4> QED
        BY <4>1, <4>2
    <3>3. runner # "idle" /\ ~outputOpen /\ outcome # "thrown" => FALSE
      BY <2>1 DEF CommandInv, OutputInv
    <3>4. runner \in {"wait", "done"} /\ outcome # "thrown" => ~outputOpen
      BY DEF CommandInv, OutputInv
    <3> QED
      BY <1>1, <3>2, <3>3, <3>4 DEF OutputInv
  <2> QED
    BY <2>1, <2>3, <2>4, <2>5
<1>4. CASE ChildClosesInput \/ ChildExits \/ HeirExits
  <2>1. /\ UNCHANGED <<inPipe, outPipe, wants, produced>>
        /\ child' = child \/ (child = "running" /\ child' = "exited")
        /\ child = "running" \/ heir
    BY <1>4 DEF ChildClosesInput, ChildExits, HeirExits, pipes
  <2>2. inPipe' \in 0 .. PipeCells /\ outPipe' \in 0 .. PipeCells /\ produced' \in 0 .. MaxOutput
    BY <2>1, CommandFacts
  <2>3. runner # "idle"
    BY <2>1 DEF CommandInv, StageInv
  <2>4. StageInv'
    BY <1>1, <2>1, <2>3 DEF CommandInv, StageInv
  <2>5. OutputInv'
    BY <1>1, <2>1 DEF CommandInv, OutputInv
  <2> QED
    BY <2>1, <2>2, <2>4, <2>5, CommandFacts
<1> QED
  BY <1>2, <1>3, <1>4 DEF ChildSteps

\* A step of the runner keeps the invariant of the command.
LEMMA ParentStep ==
  ASSUME CommandInv, ParentSteps
  PROVE  /\ runner' \in {"idle", "loop", "writing", "wait", "done"} /\ left' \in 0 .. InputCells
         /\ inPipe' \in 0 .. PipeCells /\ outPipe' \in 0 .. PipeCells /\ kept' \in 0 .. OutputLimit
         /\ produced' \in 0 .. MaxOutput
         /\ outcome' \in {"none", "result", "thrown"} /\ child' \in {"none", "running", "exited", "reaped"}
         /\ wants' \in {"read", "write", "exit"}
         /\ StageInv' /\ OutputInv'
<1>0. produced' = produced
  BY DEF ParentSteps, RunCommand, GiveUp, BeginWrite, WriteInput, ReadOutput, TransferEnds, WaitChild, Elapses, Interrupt, kinship
<1>1. CASE RunCommand
  <2>1. /\ runner = "idle" /\ runner' = "loop" /\ left' \in {0, InputCells} /\ stdinOpen' = (left' > 0)
        /\ outputOpen' = captured' /\ child' = "running" /\ wants' \in {"read", "write", "exit"}
        /\ UNCHANGED <<inPipe, outPipe, kept, truncated, outcome, heir>>
    BY <1>1 DEF RunCommand, pipes
  <2>2. produced = 0 /\ kept = 0 /\ outPipe = 0 /\ truncated = FALSE /\ outcome = "none" /\ inPipe = 0
    BY <2>1 DEF CommandInv, StageInv
  <2>3. /\ left' \in 0 .. InputCells /\ inPipe' \in 0 .. PipeCells /\ outPipe' \in 0 .. PipeCells
        /\ kept' \in 0 .. OutputLimit /\ produced' \in 0 .. MaxOutput /\ 0 < MaxOutput
    BY <1>0, <2>1, <2>2, CommandFacts
  <2>4. (stdinOpen' => left' > 0) /\ (captured' => outputOpen')
    BY <2>1
  <2>5. StageInv'
    BY <1>0, <2>1, <2>2, <2>3, <2>4 DEF StageInv
  <2>6. OutputInv'
    <3>1. kept' + outPipe' = produced' /\ truncated' = FALSE
      BY <1>0, <2>1, <2>2
    <3> QED
      BY <2>1, <2>4, <3>1 DEF OutputInv
  <2> QED
    BY <2>1, <2>2, <2>3, <2>5, <2>6
<1>2. CASE GiveUp
  <2>1. /\ runner' = "done" /\ outcome' = "thrown" /\ child' = "reaped" /\ stdinOpen' = FALSE /\ outputOpen' = FALSE
        /\ UNCHANGED <<captured, left, inPipe, outPipe, kept, truncated, wants>>
    BY <1>2 DEF GiveUp, pipes, Reaped
  <2>2. StageInv' /\ OutputInv'
    BY <1>0, <2>1 DEF CommandInv, StageInv, OutputInv
  <2> QED
    BY <1>0, <2>1, <2>2, CommandFacts DEF CommandInv, CommandTypeOK
<1>3. CASE BeginWrite
  <2>1. /\ runner = "loop" /\ stdinOpen /\ runner' \in {"loop", "writing"} /\ (stdinOpen' = stdinOpen \/ stdinOpen' = FALSE)
        /\ UNCHANGED <<captured, left, outputOpen, inPipe, outPipe, kept, truncated, outcome, child, wants>>
    BY <1>3 DEF BeginWrite, pipes, kinship
  <2>2. StageInv' /\ OutputInv'
    BY <1>0, <2>1 DEF CommandInv, StageInv, OutputInv
  <2> QED
    BY <1>0, <2>1, <2>2, CommandFacts DEF CommandInv, CommandTypeOK
<1>4. CASE WriteInput
  <2>1. /\ runner = "writing"
        /\ UNCHANGED <<captured, outputOpen, outPipe, kept, truncated, outcome, child, wants>>
        /\ \/ /\ inPipe < PipeCells /\ inPipe' = inPipe + 1 /\ left' = left - 1 /\ stdinOpen' = (left' > 0)
              /\ runner' = IF left' > 0 THEN "writing" ELSE "loop"
           \/ runner' = "loop" /\ UNCHANGED <<inPipe, left, stdinOpen>>
    BY <1>4 DEF WriteInput, kinship
  <2>2. left > 0
    BY <2>1 DEF CommandInv, StageInv
  <2>3. left' \in 0 .. InputCells /\ inPipe' \in 0 .. PipeCells
    BY <2>1, <2>2, CommandFacts
  <2>4. runner' \in {"loop", "writing"} /\ (runner' = "writing" => left' > 0) /\ (stdinOpen' => left' > 0)
    BY <2>1 DEF CommandInv, StageInv
  <2>5. StageInv' /\ OutputInv'
    BY <1>0, <2>1, <2>4 DEF CommandInv, StageInv, OutputInv
  <2> QED
    BY <1>0, <2>1, <2>3, <2>4, <2>5, CommandFacts DEF CommandInv, CommandTypeOK
<1>5. CASE ReadOutput
  <2>1. /\ runner = "loop" /\ outputOpen /\ UNCHANGED <<runner, captured, left, stdinOpen, inPipe, outcome, child, wants>>
        /\ \/ /\ outPipe > 0 /\ outPipe' = outPipe - 1 /\ outputOpen' = outputOpen
              /\ \/ kept < OutputLimit /\ kept' = kept + 1 /\ truncated' = (truncated \/ FALSE)
                 \/ ~(kept < OutputLimit) /\ kept' = kept /\ truncated' = TRUE
           \/ /\ outPipe = 0 /\ child # "running" /\ outputOpen' = FALSE /\ UNCHANGED <<outPipe, kept, truncated>>
    BY <1>5 DEF ReadOutput, Keep, kinship
  <2>2. kept' \in 0 .. OutputLimit /\ outPipe' \in 0 .. PipeCells
    <3>1. /\ outPipe' = outPipe \/ (outPipe > 0 /\ outPipe' = outPipe - 1)
          /\ kept' = kept \/ (kept < OutputLimit /\ kept' = kept + 1)
      BY <2>1
    <3> QED
      BY <3>1, CommandFacts
  <2>3. StageInv'
    BY <1>0, <2>1 DEF CommandInv, StageInv
  <2>4. OutputInv'
    <3> SUFFICES ASSUME captured PROVE OutputInv'
      BY <2>1 DEF OutputInv
    <3>1. /\ truncated = FALSE => kept + outPipe = produced
          /\ truncated = TRUE => kept = OutputLimit /\ kept + outPipe < produced
      BY DEF CommandInv, OutputInv
    <3>2. CASE /\ outPipe > 0 /\ outPipe' = outPipe - 1 /\ outputOpen' = outputOpen
               /\ kept < OutputLimit /\ kept' = kept + 1 /\ truncated' = (truncated \/ FALSE)
      <4>1. truncated = FALSE
        <5>1. truncated = TRUE \/ truncated = FALSE
          BY CommandSwitches, Zenon
        <5>2. kept # OutputLimit
          BY <3>2, CommandFacts
        <5> QED
          BY <3>1, <5>1, <5>2
      <4>2. truncated' = FALSE
        BY <3>2, <4>1
      <4>3. kept' + outPipe' = produced'
        BY <1>0, <3>1, <3>2, <4>1, CommandFacts
      <4> QED
        BY <2>1, <3>2, <4>2, <4>3 DEF OutputInv
    <3>3. CASE /\ outPipe > 0 /\ outPipe' = outPipe - 1 /\ outputOpen' = outputOpen
               /\ ~(kept < OutputLimit) /\ kept' = kept /\ truncated' = TRUE
      <4>1. truncated = TRUE \/ truncated = FALSE
        BY CommandSwitches, Zenon
      <4>2. kept' = OutputLimit
        BY <3>3, CommandFacts
      <4>3. kept' + outPipe' < produced'
        BY <1>0, <3>1, <3>3, <4>1, CommandFacts
      <4> QED
        BY <2>1, <3>3, <4>2, <4>3 DEF OutputInv
    <3>4. CASE outPipe = 0 /\ child # "running" /\ outputOpen' = FALSE /\ UNCHANGED <<outPipe, kept, truncated>>
      BY <1>0, <2>1, <3>1, <3>4 DEF OutputInv
    <3> QED
      BY <2>1, <3>2, <3>3, <3>4
  <2> QED
    BY <1>0, <2>1, <2>2, <2>3, <2>4, CommandFacts DEF CommandInv, CommandTypeOK
<1>6. CASE TransferEnds
  <2>1. /\ runner = "loop" /\ runner' = "wait" /\ ~outputOpen
        /\ UNCHANGED <<captured, left, stdinOpen, outputOpen, inPipe, outPipe, kept, truncated, outcome, child, wants>>
    BY <1>6 DEF TransferEnds, Transferring, ownEnds, pipes, kinship
  <2>2. StageInv' /\ OutputInv'
    BY <1>0, <2>1 DEF CommandInv, StageInv, OutputInv
  <2> QED
    BY <1>0, <2>1, <2>2, CommandFacts DEF CommandInv, CommandTypeOK
<1>7. CASE WaitChild
  <2>1. /\ runner = "wait" /\ runner' = "done" /\ outcome' = "result" /\ child' = "reaped"
        /\ UNCHANGED <<captured, left, stdinOpen, outputOpen, inPipe, outPipe, kept, truncated, wants>>
    BY <1>7 DEF WaitChild, ownEnds, pipes
  <2>2. StageInv' /\ OutputInv'
    BY <1>0, <2>1 DEF CommandInv, StageInv, OutputInv
  <2> QED
    BY <1>0, <2>1, <2>2, CommandFacts DEF CommandInv, CommandTypeOK
<1>8. CASE Elapses \/ Interrupt
  <2>1. /\ runner \notin {"idle", "done"} /\ (runner' = runner \/ (runner = "writing" /\ runner' = "loop"))
        /\ UNCHANGED <<captured, left, stdinOpen, outputOpen, inPipe, outPipe, kept, truncated, outcome, child, wants>>
    BY <1>8 DEF Elapses, Interrupt, ownEnds, pipes, kinship
  <2>2. StageInv' /\ OutputInv'
    BY <1>0, <2>1, CommandFacts DEF CommandInv, StageInv, OutputInv
  <2> QED
    BY <1>0, <2>1, <2>2, CommandFacts DEF CommandInv, CommandTypeOK
<1> QED
  BY <1>1, <1>2, <1>3, <1>4, <1>5, <1>6, <1>7, <1>8 DEF ParentSteps

\* The command begins in its invariant.
LEMMA CommandInitially ==
  ASSUME CommandInit
  PROVE  CommandInv
<1>1. PipeCells \in Nat \ {0} /\ OutputLimit \in Nat \ {0} /\ InputCells \in Nat \ {0} /\ MaxOutput \in Nat \ {0}
  BY CommandAssumption
<1>2. {timed, captured, overdue, interrupted, stdinOpen, outputOpen, truncated, stdinRead, heir, stalls} \subseteq BOOLEAN
  BY Zenon DEF CommandInit
<1>3. CommandTypeOK
  BY <1>1, <1>2 DEF CommandInit, CommandTypeOK
<1>4. StageInv /\ OutputInv
  BY <1>1 DEF CommandInit, StageInv, OutputInv
<1> QED
  BY <1>3, <1>4 DEF CommandInv

\* Every step of the command keeps its invariant.
LEMMA CommandStep ==
  ASSUME CommandInv, [CommandNext]_commandVars
  PROVE  CommandInv'
<1>1. CASE ChildSteps
  <2>1. /\ inPipe' \in 0 .. PipeCells /\ outPipe' \in 0 .. PipeCells /\ produced' \in 0 .. MaxOutput
        /\ child' \in {"running", "exited", child} /\ wants' \in {"read", "write", "exit"}
        /\ StageInv' /\ OutputInv'
    BY <1>1, ChildStep
  <2>2. UNCHANGED <<runner, left, kept, outcome>>
    BY <1>1 DEF ChildSteps, ChildReads, ChildWrites, ChildClosesInput, ChildExits, HeirExits, parent, ownEnds
  <2>3. CommandNext
    BY <1>1 DEF ChildSteps, CommandNext, Goes
  <2>4. {timed', captured', overdue', interrupted', stdinOpen', outputOpen', truncated', stdinRead', heir', stalls'}
           \subseteq BOOLEAN
    BY <2>3, CommandBooleans
  <2>5. CommandTypeOK'
    BY <2>1, <2>2, <2>4 DEF CommandInv, CommandTypeOK
  <2> QED
    BY <2>1, <2>5 DEF CommandInv
<1>2. CASE ParentSteps
  <2>1. /\ runner' \in {"idle", "loop", "writing", "wait", "done"} /\ left' \in 0 .. InputCells
        /\ inPipe' \in 0 .. PipeCells /\ outPipe' \in 0 .. PipeCells /\ kept' \in 0 .. OutputLimit
        /\ produced' \in 0 .. MaxOutput
        /\ outcome' \in {"none", "result", "thrown"} /\ child' \in {"none", "running", "exited", "reaped"}
        /\ wants' \in {"read", "write", "exit"}
        /\ StageInv' /\ OutputInv'
    BY <1>2, ParentStep
  <2>2. CommandNext
    BY <1>2 DEF ParentSteps, CommandNext, Parent
  <2>3. {timed', captured', overdue', interrupted', stdinOpen', outputOpen', truncated', stdinRead', heir', stalls'}
           \subseteq BOOLEAN
    BY <2>2, CommandBooleans
  <2>4. CommandTypeOK'
    BY <2>1, <2>3 DEF CommandTypeOK
  <2> QED
    BY <2>1, <2>4 DEF CommandInv
<1>3. CASE UNCHANGED commandVars
  BY <1>3 DEF commandVars, ownEnds, pipes, kinship, CommandInv, CommandTypeOK, StageInv, OutputInv
<1> QED
  BY <1>1, <1>2, <1>3 DEF CommandNext, Parent, Goes, ChildSteps, ParentSteps

\* The invariant gives CommandIsOver.
LEMMA CommandImplies ==
  ASSUME CommandInv
  PROVE  CommandIsOver
<1> SUFFICES ASSUME runner = "done" PROVE CommandIsOver
  BY DEF CommandIsOver
<1>1. child = "reaped"
  BY DEF CommandInv, StageInv
<1>2. ASSUME outcome = "result", captured
      PROVE  kept = (IF produced < OutputLimit THEN produced ELSE OutputLimit) /\ truncated = (produced > OutputLimit)
  <2>1. outPipe = 0
    BY <1>2 DEF CommandInv, OutputInv
  <2>2. truncated = TRUE \/ truncated = FALSE
    BY CommandSwitches, Zenon
  <2>3. CASE truncated = TRUE
    <3>1. kept = OutputLimit /\ kept + 0 < produced
      BY <1>2, <2>1, <2>3 DEF CommandInv, OutputInv
    <3>2. ~(produced < OutputLimit) /\ produced > OutputLimit
      BY <3>1, CommandFacts
    <3> QED
      BY <2>3, <3>1, <3>2
  <2>4. CASE truncated = FALSE
    <3>1. kept + 0 = produced
      BY <1>2, <2>1, <2>4 DEF CommandInv, OutputInv
    <3>2. kept = produced /\ ~(produced > OutputLimit) /\ (~(produced < OutputLimit) => produced = OutputLimit)
      BY <3>1, CommandFacts
    <3>3. (produced > OutputLimit) = FALSE
      BY <3>2
    <3>4. kept = IF produced < OutputLimit THEN produced ELSE OutputLimit
      BY <3>2
    <3> QED
      BY <2>4, <3>3, <3>4
  <2> QED
    BY <2>2, <2>3, <2>4
<1> QED
  BY <1>1, <1>2 DEF CommandIsOver
-----------------------------------------------------------------------------
(***************************************************************************)
(* The trace of a node.                                                    *)
(***************************************************************************)
\* What entered the queue is posted, held or queued, in that order.
SpanInv ==
  /\ ~gaveUp => enqueued = (exported \o payload) \o spans
  /\ poster \notin {"post", "killed"} => payload = <<>>
  /\ stopping => spans = <<>> /\ app \in {"stop", "join", "gone", "killed"}
  /\ poster = "done" \/ gaveUp => stopping
  /\ app = "gone" => poster = "done"
\* The file is the blocks the writer counts, and the block being written.
FileInv ==
  /\ bytesWritten <= Len(cells) /\ Len(cells) <= MaxFileBytes
  /\ capture = "open" /\ app \notin {"write", "killed"} => bytesWritten = Len(cells)
  /\ app = "header" => capture = "open" /\ block = NoBlock /\ bytesWritten \in {0, HeaderSize}
  /\ app \in {"write", "report"} => capture = "open" /\ block.done <= block.size
  /\ app = "write" => /\ block.position = bytesWritten /\ Len(cells) = block.position + block.done
                      /\ bytesWritten + block.size <= MaxFileBytes
                      /\ block.number = 1 => bytesWritten = 0 /\ block.size = HeaderSize
                      /\ block.number = 2 => bytesWritten = HeaderSize
                      /\ block.number # 0
  /\ app = "report" => /\ block.position + block.size = bytesWritten /\ block.done = block.size
                       /\ lastOffset = block.position
  /\ app \in {"write", "report"} =>
       \A i \in 1 .. block.done : cells[block.position + i] = [number |-> block.number, cell |-> i]
\* What was reported lies in the part of the file that is no longer touched.
ReportInv ==
  \A r \in reports :
    /\ r.offset + r.size <= bytesWritten
    /\ \A i \in 1 .. r.size : cells[r.offset + i] = [number |-> r.number, cell |-> i]
    /\ r.packet = r.number - Headers
\* While the capture is open no frame is missing.
PacketInv ==
  /\ app = "header" => events = 0 /\ packets = 0
  /\ capture = "open" /\ app = "run" => packets = events
  /\ capture = "open" /\ app \in {"notify", "capture"} => packets + 1 = events
  /\ app = "write" => \/ block.number <= Headers /\ events = 0 /\ packets = 0
                      \/ block.number = events + Headers /\ packets + 1 = events
  /\ app = "report" => block.number = events + Headers /\ packets = events
TraceInv == TraceTypeOK /\ SpanInv /\ FileInv /\ ReportInv /\ PacketInv

\* What is assumed of the constants of the trace.
LEMMA TraceConstants ==
  /\ QueueLimit \in Nat \ {0} /\ MaxPackets \in Nat \ {0} /\ HeaderSize \in Nat \ {0}
  /\ MaxFileBytes \in Nat /\ MaxEvents \in Nat /\ 2 * HeaderSize <= MaxFileBytes /\ FrameSizes \subseteq Nat \ {0}
  BY TraceAssumption DEF Headers

\* The trace begins in its invariant.
LEMMA TraceInitially == TraceInit => TraceInv
<1> SUFFICES ASSUME TraceInit PROVE TraceInv
  OBVIOUS
<1>1. TraceTypeOK
  <2>1. <<>> \in Seq(Nat) /\ <<>> \in Seq(Cell)
    OBVIOUS
  <2>2. NoBlock \in [number : Nat, size : Nat, position : Nat, done : Nat]
    BY DEF NoBlock
  <2>3. QED
    BY <2>1, <2>2 DEF TraceInit, TraceTypeOK
<1>2. SpanInv
  BY DEF TraceInit, SpanInv
<1>3. FileInv /\ ReportInv /\ PacketInv
  BY TraceConstants DEF TraceInit, FileInv, ReportInv, PacketInv
<1>4. QED
  BY <1>1, <1>2, <1>3 DEF TraceInv

\* A sequence is its head and its tail.
LEMMA HeadThenTail ==
  ASSUME NEW S, NEW s \in Seq(S), s # <<>>
  PROVE  <<Head(s)>> \o Tail(s) = s
<1>1. /\ Head(s) \in S /\ Tail(s) \in Seq(S) /\ Len(Tail(s)) = Len(s) - 1 /\ Head(s) = s[1]
      /\ \A i \in 1 .. Len(Tail(s)) : Tail(s)[i] = s[i + 1]
  BY HeadTailProperties
<1>2. <<Head(s)>> \in Seq(S) /\ Len(<<Head(s)>>) = 1 /\ <<Head(s)>>[1] = Head(s)
  BY <1>1
<1> DEFINE t == <<Head(s)>> \o Tail(s)
<1>3. t \in Seq(S) /\ Len(t) = 1 + (Len(s) - 1)
      /\ \A i \in 1 .. 1 + (Len(s) - 1) : t[i] = IF i <= 1 THEN <<Head(s)>>[i] ELSE Tail(s)[i - 1]
  BY <1>1, <1>2, ConcatProperties
<1> HIDE DEF t
<1>4. Len(s) \in Nat \ {0}
  BY EmptySeq
<1>5. Len(t) = Len(s) /\ \A i \in 1 .. Len(t) : t[i] = s[i]
  BY <1>1, <1>2, <1>3, <1>4
<1>6. t = s
  BY <1>3, <1>5, SeqEqual
<1>7. QED
  BY <1>6 DEF t

BlockRecord == [number : Nat, size : Nat, position : Nat, done : Nat]
\* The types the steps below need.
LEMMA TraceTyped ==
  ASSUME TraceInv
  PROVE  /\ events \in Nat /\ bytesWritten \in Nat /\ packets \in Nat /\ lastOffset \in Nat
         /\ cells \in Seq(Cell) /\ Len(cells) \in Nat /\ (\A i \in 1 .. Len(cells) : cells[i] \in Cell)
         /\ block \in BlockRecord /\ block.number \in Nat /\ block.size \in Nat /\ block.position \in Nat
         /\ block.done \in Nat /\ reports \subseteq FrameReport
         /\ spans \in Seq(Nat) /\ payload \in Seq(Nat) /\ enqueued \in Seq(Nat) /\ exported \in Seq(Nat)
<1>1. /\ events \in Nat /\ bytesWritten \in Nat /\ packets \in Nat /\ lastOffset \in Nat
      /\ cells \in Seq(Cell) /\ block \in BlockRecord /\ reports \subseteq FrameReport
      /\ spans \in Seq(Nat) /\ payload \in Seq(Nat) /\ enqueued \in Seq(Nat) /\ exported \in Seq(Nat)
  BY DEF TraceInv, TraceTypeOK, BlockRecord
<1>2. block.number \in Nat /\ block.size \in Nat /\ block.position \in Nat /\ block.done \in Nat
  BY <1>1 DEF BlockRecord
<1>3. QED
  BY <1>1, <1>2

\* Appending to the second of two sequences appends to both.
LEMMA ConcatAppend == \A s, t \in Seq(Nat), e \in Nat : Append(s \o t, e) = s \o Append(t, e)
<1> SUFFICES ASSUME NEW s \in Seq(Nat), NEW t \in Seq(Nat), NEW e \in Nat
             PROVE  Append(s \o t, e) = s \o Append(t, e)
  OBVIOUS
<1>1. <<e>> \in Seq(Nat) /\ s \o t \in Seq(Nat)
  BY ConcatProperties
<1>2. Append(s \o t, e) = (s \o t) \o <<e>>
  BY <1>1, AppendIsConcat
<1>3. Append(t, e) = t \o <<e>>
  BY AppendIsConcat
<1>4. (s \o t) \o <<e>> = s \o (t \o <<e>>)
  BY <1>1, ConcatAssociative
<1>5. QED
  BY <1>2, <1>3, <1>4, Zenon

\* Moving the head of the second of two sequences to the first changes nothing.
LEMMA ConcatHeadThenTail ==
  ASSUME NEW S, NEW s \in Seq(S), NEW t \in Seq(S), t # <<>>
  PROVE  (s \o <<Head(t)>>) \o Tail(t) = s \o t
<1>1. Head(t) \in S /\ Tail(t) \in Seq(S)
  BY HeadTailProperties
<1>2. <<Head(t)>> \in Seq(S)
  BY <1>1
<1>3. (s \o <<Head(t)>>) \o Tail(t) = s \o (<<Head(t)>> \o Tail(t))
  BY <1>1, <1>2, ConcatAssociative
<1>4. QED
  BY <1>3, HeadThenTail, Zenon

\* The types of the trace are kept.
LEMMA TraceTypeStep ==
  ASSUME TraceInv, [TraceNext]_traceVars
  PROVE  TraceTypeOK'
<1>1. CASE Trace
  <2>1. CASE app' = "capture" /\ UNCHANGED <<spans, enqueued>>
    BY <1>1, <2>1 DEF Trace, TraceInv, TraceTypeOK, otlpVars, captureFileVars
  <2>2. CASE app' = "notify" /\ spans' = Append(spans, events + 1) /\ enqueued' = Append(enqueued, events + 1)
    <3>1. spans' \in Seq(Nat) /\ enqueued' \in Seq(Nat)
      BY <2>2, TraceTyped, AppendProperties, SMTT(60)
    <3>2. QED
      BY <1>1, <2>2, <3>1 DEF Trace, TraceInv, TraceTypeOK, otlpVars, captureFileVars
  <2>3. QED
    BY <1>1, <2>1, <2>2 DEF Trace
<1>2. CASE NotifyReady
  BY <1>2, TraceConstants DEF NotifyReady, Notified, TraceInv, TraceTypeOK, otlpVars, captureFileVars
<1>3. CASE WriteHeader
  BY <1>3, TraceConstants DEF WriteHeader, Begin, TraceInv, TraceTypeOK, otlpVars, captureFileVars
<1>4. CASE CaptureFrame
  <2>1. block' \in BlockRecord
    <3>1. CASE block' = block \/ block' = NoBlock
      BY <3>1, TraceTyped DEF NoBlock, BlockRecord
    <3>2. ASSUME NEW size \in FrameSizes, Begin(events + Headers, size) PROVE block' \in BlockRecord
      BY <3>2, TraceTyped, TraceConstants, SMTT(60) DEF Begin, BlockRecord, Headers
    <3>3. QED
      BY <1>4, <3>1, <3>2 DEF CaptureFrame, StopCapture
  <2>2. app' \in {"run", "write"} /\ capture' \in {"open", "stopped", "closed"}
    BY <1>4 DEF CaptureFrame, StopCapture, TraceInv, TraceTypeOK
  <2>3. UNCHANGED <<events, otlpVars, cells, bytesWritten, packets, lastOffset, reports>>
    BY <1>4 DEF CaptureFrame
  <2>4. QED
    BY <2>1, <2>2, <2>3 DEF BlockRecord, TraceInv, TraceTypeOK, otlpVars
<1>5. CASE WriteCell
  <2>1. [number |-> block.number, cell |-> block.done + 1] \in Cell
    BY TraceTyped DEF Cell
  <2>2. cells' \in Seq(Cell)
    BY <1>5, <2>1, TraceTyped, AppendProperties DEF WriteCell
  <2>3. block' \in BlockRecord
    <3>1. block \in BlockRecord /\ block.done + 1 \in Nat
      BY TraceTyped
    <3>2. block' = [block EXCEPT !.done = block.done + 1]
      BY <1>5 DEF WriteCell
    <3>3. QED
      BY <3>1, <3>2 DEF BlockRecord
  <2>4. QED
    BY <1>5, <2>2, <2>3 DEF WriteCell, BlockRecord, TraceInv, TraceTypeOK, otlpVars
<1>6. CASE WriteFails
  <2>1. cells' \in Seq(Cell)
    <3>1. SubSeq(cells, 1, block.position) \in Seq(Cell)
      <4>1. block.position \in 0 .. Len(cells)
        BY <1>6, TraceTyped DEF TraceInv, FileInv, WriteFails
      <4>2. \A i \in 1 .. block.position : cells[i] \in Cell
        BY <4>1, TraceTyped
      <4>3. QED
        BY <4>1, <4>2, SubSeqProperties
    <3>2. QED
      BY <1>6, <3>1, TraceTyped DEF WriteFails, Truncated
  <2>2. block' = NoBlock /\ app' \in {"run", "close"} /\ capture' \in {"stopped", "closed"}
    BY <1>6 DEF WriteFails, StopCapture
  <2>3. NoBlock \in BlockRecord
    BY DEF NoBlock, BlockRecord
  <2>4. QED
    BY <1>6, <2>1, <2>2, <2>3 DEF WriteFails, BlockRecord, TraceInv, TraceTypeOK, otlpVars
<1>7. CASE BlockWritten
  BY <1>7, TraceConstants, SMTT(60) DEF BlockWritten, NoBlock, TraceInv, TraceTypeOK, otlpVars, captureFileVars
<1>8. CASE ReportFrame
  <2>1. [number |-> block.number, size |-> block.size, packet |-> packets, offset |-> lastOffset] \in FrameReport
    BY TraceTyped DEF FrameReport
  <2>2. reports' \subseteq FrameReport
    BY <1>8, <2>1, TraceTyped DEF ReportFrame
  <2>3. QED
    BY <1>8, <2>2 DEF ReportFrame, NoBlock, TraceInv, TraceTypeOK, otlpVars
<1>9. CASE Take
  <2>1. CASE spans # <<>>
    <3>1. Head(spans) \in Nat /\ Tail(spans) \in Seq(Nat)
      BY <2>1, TraceTyped, HeadTailProperties
    <3>2. <<Head(spans)>> \in Seq(Nat)
      BY <3>1
    <3>3. QED
      BY <1>9, <2>1, <3>1, <3>2 DEF Take, TraceInv, TraceTypeOK, captureFileVars
  <2>2. CASE spans = <<>>
    BY <1>9, <2>2 DEF Take, TraceInv, TraceTypeOK, captureFileVars
  <2>3. QED
    BY <2>1, <2>2
<1>10. CASE PostSpan
  BY <1>10, TraceConstants DEF PostSpan, TraceInv, TraceTypeOK, otlpVars, captureFileVars
<1>11. CASE Posted
  BY <1>11, TraceConstants DEF Posted, TraceInv, TraceTypeOK, otlpVars, captureFileVars
<1>12. CASE NotifyDrained
  BY <1>12, TraceConstants DEF NotifyDrained, TraceInv, TraceTypeOK, otlpVars, captureFileVars
<1>13. CASE Close
  BY <1>13, TraceConstants DEF Close, TraceInv, TraceTypeOK, otlpVars, captureFileVars
<1>14. CASE EnterDestructor
  BY <1>14, TraceConstants DEF EnterDestructor, TraceInv, TraceTypeOK, otlpVars, captureFileVars
<1>15. CASE DrainSpans
  BY <1>15, TraceConstants DEF DrainSpans, StopWorker, SpansDrained, TraceInv, TraceTypeOK, otlpVars, captureFileVars
<1>16. CASE NotifyStop
  BY <1>16, TraceConstants DEF NotifyStop, Notified, TraceInv, TraceTypeOK, otlpVars, captureFileVars
<1>17. CASE Join
  BY <1>17, TraceConstants DEF Join, TraceInv, TraceTypeOK, otlpVars, captureFileVars
<1>18. CASE DrainTimeout
  BY <1>18, TraceConstants DEF DrainTimeout, StopWorker, TraceInv, TraceTypeOK, otlpVars, captureFileVars
<1>19. CASE KillNode
  BY <1>19, TraceConstants DEF KillNode, TraceInv, TraceTypeOK, otlpVars, captureFileVars
<1>20. CASE UNCHANGED traceVars
  BY <1>20, TraceConstants DEF traceVars, TraceInv, TraceTypeOK, otlpVars, captureFileVars
<1>21. QED
  BY <1>1, <1>2, <1>3, <1>4, <1>5, <1>6, <1>7, <1>8, <1>9, <1>10, <1>11, <1>12, <1>13, <1>14, <1>15, <1>16, <1>17, <1>18, <1>19, <1>20 DEF TraceNext, CaptureStep, WorkerStep, DestructorStep

\* No step loses, repeats or reorders a span (enqueue_span, run, the destructor).
LEMMA SpanStep ==
  ASSUME TraceInv, [TraceNext]_traceVars, TraceTypeOK'
  PROVE  SpanInv'
<1>1. CASE Trace
  <2> DEFINE e == events + 1  done == exported \o payload
  <2>0. UNCHANGED <<stopping, poster, payload, exported, gaveUp>> /\ app = "run"
    BY <1>1 DEF Trace
  <2>1. CASE app' = "capture" /\ UNCHANGED <<spans, enqueued>>
    BY <2>0, <2>1 DEF TraceInv, SpanInv
  <2>2. CASE app' = "notify" /\ spans' = Append(spans, e) /\ enqueued' = Append(enqueued, e) /\ ~stopping
    <3>1. e \in Nat /\ done \in Seq(Nat) /\ <<e>> \in Seq(Nat)
      BY TraceTyped, ConcatProperties
    <3>2. Append(done \o spans, e) = done \o Append(spans, e)
      <4>1. spans \in Seq(Nat)
        BY TraceTyped
      <4> HIDE DEF done, e
      <4>2. QED
        BY <3>1, <4>1, ConcatAppend, Zenon
    <3>3. ~gaveUp => enqueued = done \o spans
      BY DEF TraceInv, SpanInv
    <3>4. ~gaveUp' => enqueued' = (exported' \o payload') \o spans'
      BY <2>0, <2>2, <3>2, <3>3
    <3>5. QED
      BY <2>0, <2>2, <3>4 DEF TraceInv, SpanInv
  <2>3. QED
    BY <1>1, <2>1, <2>2 DEF Trace
<1>2. CASE NotifyReady
  BY <1>2 DEF NotifyReady, Notified, TraceInv, TraceTypeOK, SpanInv, otlpVars, captureFileVars
<1>3. CASE WriteHeader
  BY <1>3 DEF WriteHeader, Begin, TraceInv, TraceTypeOK, SpanInv, otlpVars, captureFileVars
<1>4. CASE CaptureFrame
  BY <1>4 DEF CaptureFrame, Begin, StopCapture, Fits, NoBlock, TraceInv, TraceTypeOK, SpanInv, otlpVars, captureFileVars
<1>5. CASE WriteCell
  BY <1>5 DEF WriteCell, TraceInv, TraceTypeOK, SpanInv, otlpVars, captureFileVars
<1>6. CASE WriteFails
  BY <1>6 DEF WriteFails, Truncated, StopCapture, NoBlock, TraceInv, TraceTypeOK, SpanInv, otlpVars, captureFileVars
<1>7. CASE BlockWritten
  BY <1>7 DEF BlockWritten, NoBlock, TraceInv, TraceTypeOK, SpanInv, otlpVars, captureFileVars
<1>8. CASE ReportFrame
  BY <1>8 DEF ReportFrame, NoBlock, TraceInv, TraceTypeOK, SpanInv, otlpVars, captureFileVars
<1>9. CASE Take
  <2>1. CASE spans # <<>>
    <3>1. payload' = <<Head(spans)>> /\ spans' = Tail(spans) /\ poster = "check" /\ poster' = "post"
          /\ UNCHANGED <<app, stopping, enqueued, exported, gaveUp>>
      BY <1>9, <2>1 DEF Take
    <3>2. payload = <<>> /\ ~stopping /\ (~gaveUp => enqueued = (exported \o payload) \o spans)
      BY <2>1, <3>1 DEF TraceInv, SpanInv
    <3>3. exported \o payload = exported
      BY <3>2, TraceTyped, ConcatEmptySeq
    <3>6. (exported \o <<Head(spans)>>) \o Tail(spans) = exported \o spans
      BY <2>1, TraceTyped, ConcatHeadThenTail
    <3>7. ~gaveUp' => enqueued' = (exported' \o payload') \o spans'
      BY <3>1, <3>2, <3>3, <3>6
    <3>8. QED
      BY <3>1, <3>2, <3>7 DEF TraceInv, SpanInv
  <2>2. CASE spans = <<>>
    BY <1>9, <2>2 DEF Take, TraceInv, SpanInv
  <2>3. QED
    BY <2>1, <2>2
<1>10. CASE PostSpan
  BY <1>10, SMTT(60) DEF PostSpan, TraceInv, TraceTypeOK, SpanInv, otlpVars, captureFileVars
<1>11. CASE Posted
  BY <1>11 DEF Posted, TraceInv, TraceTypeOK, SpanInv, otlpVars, captureFileVars
<1>12. CASE NotifyDrained
  BY <1>12 DEF NotifyDrained, TraceInv, TraceTypeOK, SpanInv, otlpVars, captureFileVars
<1>13. CASE Close
  BY <1>13 DEF Close, TraceInv, TraceTypeOK, SpanInv, otlpVars, captureFileVars
<1>14. CASE EnterDestructor
  BY <1>14 DEF EnterDestructor, TraceInv, TraceTypeOK, SpanInv, otlpVars, captureFileVars
<1>15. CASE DrainSpans
  BY <1>15 DEF DrainSpans, StopWorker, SpansDrained, TraceInv, TraceTypeOK, SpanInv, otlpVars, captureFileVars
<1>16. CASE NotifyStop
  BY <1>16 DEF NotifyStop, Notified, TraceInv, TraceTypeOK, SpanInv, otlpVars, captureFileVars
<1>17. CASE Join
  BY <1>17 DEF Join, TraceInv, TraceTypeOK, SpanInv, otlpVars, captureFileVars
<1>18. CASE DrainTimeout
  <2>1. /\ app = "waiting" /\ app' = "stop" /\ spans' = <<>> /\ stopping' = TRUE /\ gaveUp' = (spans # <<>>)
        /\ UNCHANGED <<poster, payload, enqueued, exported>>
    BY <1>18 DEF DrainTimeout, StopWorker
  <2>2. ~stopping /\ (~gaveUp => enqueued = (exported \o payload) \o spans)
    BY <2>1 DEF TraceInv, SpanInv
  <2>3. ~gaveUp
    BY <2>1 DEF TraceInv, SpanInv
  <2>4. ~gaveUp' => enqueued' = (exported' \o payload') \o spans'
    BY <2>1, <2>2, <2>3
  <2>5. QED
    BY <2>1, <2>4 DEF TraceInv, SpanInv
<1>19. CASE KillNode
  BY <1>19 DEF KillNode, TraceInv, TraceTypeOK, SpanInv, otlpVars, captureFileVars
<1>20. CASE UNCHANGED traceVars
  BY <1>20 DEF traceVars, TraceInv, TraceTypeOK, SpanInv, otlpVars, captureFileVars
<1>21. QED
  BY <1>1, <1>2, <1>3, <1>4, <1>5, <1>6, <1>7, <1>8, <1>9, <1>10, <1>11, <1>12, <1>13, <1>14, <1>15, <1>16, <1>17, <1>18, <1>19, <1>20 DEF TraceNext, CaptureStep, WorkerStep, DestructorStep

\* The file is made of whole blocks and the one being written (write_block).
LEMMA FileStep ==
  ASSUME TraceInv, [TraceNext]_traceVars, TraceTypeOK'
  PROVE  FileInv'
<1>1. CASE Trace
  BY <1>1, TraceConstants DEF Trace, TraceInv, TraceTypeOK, FileInv, otlpVars, captureFileVars
<1>2. CASE NotifyReady
  BY <1>2, TraceConstants DEF NotifyReady, Notified, TraceInv, TraceTypeOK, FileInv, otlpVars, captureFileVars
<1>3. CASE WriteHeader
  BY <1>3, TraceConstants DEF WriteHeader, Begin, TraceInv, TraceTypeOK, FileInv, otlpVars, captureFileVars
<1>4. CASE CaptureFrame
  <2>0. app = "capture" /\ UNCHANGED <<cells, bytesWritten, lastOffset>>
    BY <1>4 DEF CaptureFrame
  <2>1. CASE capture # "open"
    BY <1>4, <2>0, <2>1 DEF CaptureFrame, TraceInv, FileInv
  <2>2. CASE capture = "open"
    <3>1. bytesWritten = Len(cells) /\ Len(cells) <= MaxFileBytes /\ events > 0
      BY <2>0, <2>2, TraceTyped DEF TraceInv, FileInv, PacketInv
    <3>2. PICK size \in FrameSizes :
            IF packets < MaxPackets /\ Fits(size)
            THEN app' = "write" /\ Begin(events + Headers, size) /\ UNCHANGED capture
            ELSE StopCapture
      BY <1>4, <2>2 DEF CaptureFrame
    <3>3. CASE packets < MaxPackets /\ Fits(size)
      <4>1. /\ app' = "write" /\ capture' = "open" /\ bytesWritten + size <= MaxFileBytes
            /\ block' = [number |-> events + 2, size |-> size, position |-> Len(cells), done |-> 0]
        BY <2>2, <3>2, <3>3 DEF Begin, Fits, Headers
      <4>2. /\ block'.number = events + 2 /\ block'.size = size /\ block'.position = bytesWritten /\ block'.done = 0
        BY <3>1, <4>1
      <4>3. size \in Nat \ {0} /\ events + 2 > 2
        BY <3>1, TraceConstants, TraceTyped
      <4>4. QED
        BY <2>0, <3>1, <4>1, <4>2, <4>3, TraceTyped, SMTT(60) DEF FileInv
    <3>4. CASE ~(packets < MaxPackets /\ Fits(size))
      <4>1. app' = "run" /\ capture' = "stopped"
        BY <3>2, <3>4 DEF StopCapture
      <4>2. QED
        BY <2>0, <3>1, <4>1, TraceTyped DEF FileInv
    <3>5. QED
      BY <3>3, <3>4
  <2>3. QED
    BY <2>1, <2>2
<1>5. CASE WriteCell
  <2> DEFINE new == [number |-> block.number, cell |-> block.done + 1]
  <2>1. /\ app = "write" /\ app' = "write" /\ block.done < block.size /\ cells' = Append(cells, new)
        /\ block' = [block EXCEPT !.done = @ + 1] /\ UNCHANGED <<capture, bytesWritten>>
    BY <1>5 DEF WriteCell
  <2>2. /\ block'.done = block.done + 1 /\ block'.number = block.number /\ block'.size = block.size
        /\ block'.position = block.position
    BY <2>1, TraceTyped DEF BlockRecord
  <2>3. /\ Len(cells') = Len(cells) + 1 /\ cells'[Len(cells) + 1] = new
        /\ \A i \in 1 .. Len(cells) : cells'[i] = cells[i]
    <3>1. new \in Cell
      BY TraceTyped, SMTT(60) DEF Cell
    <3>2. QED
      BY <2>1, <3>1, TraceTyped, AppendProperties
  <2>4. /\ capture = "open" /\ block.position = bytesWritten /\ Len(cells) = block.position + block.done
        /\ bytesWritten + block.size <= MaxFileBytes /\ block.number # 0
        /\ (block.number = 1 => bytesWritten = 0 /\ block.size = HeaderSize)
        /\ (block.number = 2 => bytesWritten = HeaderSize)
        /\ \A i \in 1 .. block.done : cells[block.position + i] = [number |-> block.number, cell |-> i]
    BY <2>1 DEF TraceInv, FileInv
  <2> DEFINE p == block.position  d == block.done  z == block.size  l == Len(cells)
  <2>x. p \in Nat /\ d \in Nat /\ z \in Nat /\ l \in Nat /\ l = p + d /\ d < z /\ p + z <= MaxFileBytes
        /\ MaxFileBytes \in Nat /\ p = bytesWritten
    BY <2>1, <2>4, TraceTyped, TraceConstants
  <2>y. ASSUME NEW i \in 1 .. d + 1
        PROVE  cells'[p + i] = [number |-> block.number, cell |-> i]
    <3>1. CASE i = d + 1
      <4>1. p + i = l + 1
        <5> HIDE DEF p, d, z, l
        <5>1. QED
          BY <2>x, <3>1
      <4>2. [number |-> block.number, cell |-> i] = new
        BY <3>1
      <4>3. QED
        BY <2>3, <4>1, <4>2
    <3>2. CASE i # d + 1
      <4>1. i \in 1 .. d /\ p + i \in 1 .. l
        <5> HIDE DEF p, d, z, l
        <5>1. QED
          BY <2>x, <3>2
      <4>2. QED
        BY <2>3, <2>4, <4>1
    <3>3. QED
      BY <3>1, <3>2
  <2>z. l + 1 <= MaxFileBytes /\ p <= l + 1 /\ l + 1 = p + (d + 1) /\ d + 1 <= z
    <3> HIDE DEF p, d, z, l
    <3>1. QED
      BY <2>x
  <2>5. \A i \in 1 .. block.done + 1 : cells'[block.position + i] = [number |-> block.number, cell |-> i]
    BY <2>y
  <2>6. Len(cells') <= MaxFileBytes /\ bytesWritten <= Len(cells') /\ Len(cells') = block.position + (block.done + 1)
        /\ block.done + 1 <= block.size
    BY <2>3, <2>x, <2>z
  <2>7. QED
    BY <2>1, <2>2, <2>4, <2>5, <2>6 DEF FileInv
<1>6. CASE WriteFails
  <2>1. /\ app = "write" /\ bytesWritten' = bytesWritten /\ app' \in {"run", "close"}
        /\ capture' \in {"stopped", "closed"}
    BY <1>6 DEF WriteFails, StopCapture
  <2>2. /\ bytesWritten <= Len(cells) /\ Len(cells) <= MaxFileBytes /\ block.position = bytesWritten
        /\ block.position \in 0 .. Len(cells)
    BY <2>1, TraceTyped DEF TraceInv, FileInv
  <2>3. bytesWritten <= Len(cells') /\ Len(cells') <= MaxFileBytes
    <3>1. CASE cells' = cells
      BY <2>2, <3>1
    <3>2. CASE cells' = SubSeq(cells, 1, block.position)
      <4>1. \A i \in 1 .. block.position : cells[i] \in Cell
        BY <2>2, TraceTyped
      <4>2. Len(cells') = IF 1 <= block.position THEN block.position - 1 + 1 ELSE 0
        BY <3>2, <4>1, TraceTyped, SubSeqProperties
      <4>3. Len(cells') = block.position
        BY <4>2, TraceTyped
      <4>4. QED
        BY <2>2, <4>3, TraceTyped, TraceConstants
    <3>3. QED
      BY <1>6, <3>1, <3>2 DEF WriteFails, Truncated
  <2>4. QED
    BY <2>1, <2>3 DEF FileInv
<1>7. CASE BlockWritten
  <2>1. /\ app = "write" /\ block.done = block.size /\ bytesWritten' = bytesWritten + block.size
        /\ UNCHANGED <<capture, cells>>
    BY <1>7 DEF BlockWritten
  <2>2. /\ capture = "open" /\ block.position = bytesWritten /\ Len(cells) = block.position + block.done
        /\ Len(cells) <= MaxFileBytes /\ block.number # 0
        /\ (block.number = 1 => bytesWritten = 0 /\ block.size = HeaderSize)
        /\ \A i \in 1 .. block.done : cells[block.position + i] = [number |-> block.number, cell |-> i]
    BY <2>1 DEF TraceInv, FileInv
  <2>3. bytesWritten' = Len(cells') /\ Len(cells') <= MaxFileBytes /\ bytesWritten' <= Len(cells')
    BY <2>1, <2>2, TraceTyped
  <2>4. CASE block.number <= Headers
    <3>1. block.number \in {1, 2} /\ block' = NoBlock
      <4>1. block.number \in Nat /\ block.number # 0 /\ block.number <= 2
        BY <2>2, <2>4, TraceTyped DEF Headers
      <4>2. QED
        BY <1>7, <2>4, <4>1 DEF BlockWritten
    <3>2. app' = IF block.number = 2 THEN "run" ELSE "header"
      BY <1>7, <2>4 DEF BlockWritten, Headers
    <3>3. block.number = 1 => bytesWritten' = HeaderSize
      BY <2>1, <2>2, TraceConstants
    <3>4. QED
      BY <2>1, <2>2, <2>3, <3>1, <3>2, <3>3 DEF FileInv
  <2>5. CASE ~(block.number <= Headers)
    <3>1. app' = "report" /\ lastOffset' = block.position /\ block' = block
      BY <1>7, <2>5 DEF BlockWritten
    <3>2. block.position + block.size = bytesWritten' /\ block.done <= block.size
      BY <2>1, <2>2, TraceTyped
    <3>3. QED
      BY <2>1, <2>2, <2>3, <3>1, <3>2 DEF FileInv
  <2>6. QED
    BY <2>4, <2>5
<1>8. CASE ReportFrame
  BY <1>8, TraceConstants DEF ReportFrame, NoBlock, TraceInv, TraceTypeOK, FileInv, otlpVars, captureFileVars
<1>9. CASE Take
  BY <1>9, TraceConstants DEF Take, TraceInv, TraceTypeOK, FileInv, otlpVars, captureFileVars
<1>10. CASE PostSpan
  BY <1>10, TraceConstants DEF PostSpan, TraceInv, TraceTypeOK, FileInv, otlpVars, captureFileVars
<1>11. CASE Posted
  BY <1>11, TraceConstants DEF Posted, TraceInv, TraceTypeOK, FileInv, otlpVars, captureFileVars
<1>12. CASE NotifyDrained
  BY <1>12, TraceConstants DEF NotifyDrained, TraceInv, TraceTypeOK, FileInv, otlpVars, captureFileVars
<1>13. CASE Close
  BY <1>13, TraceConstants DEF Close, TraceInv, TraceTypeOK, FileInv, otlpVars, captureFileVars
<1>14. CASE EnterDestructor
  BY <1>14, TraceConstants DEF EnterDestructor, TraceInv, TraceTypeOK, FileInv, otlpVars, captureFileVars
<1>15. CASE DrainSpans
  BY <1>15, TraceConstants DEF DrainSpans, StopWorker, SpansDrained, TraceInv, TraceTypeOK, FileInv, otlpVars, captureFileVars
<1>16. CASE NotifyStop
  BY <1>16, TraceConstants DEF NotifyStop, Notified, TraceInv, TraceTypeOK, FileInv, otlpVars, captureFileVars
<1>17. CASE Join
  BY <1>17, TraceConstants DEF Join, TraceInv, TraceTypeOK, FileInv, otlpVars, captureFileVars
<1>18. CASE DrainTimeout
  BY <1>18, TraceConstants DEF DrainTimeout, StopWorker, TraceInv, TraceTypeOK, FileInv, otlpVars, captureFileVars
<1>19. CASE KillNode
  BY <1>19, TraceConstants DEF KillNode, TraceInv, TraceTypeOK, FileInv, otlpVars, captureFileVars
<1>20. CASE UNCHANGED traceVars
  BY <1>20, TraceConstants DEF traceVars, TraceInv, TraceTypeOK, FileInv, otlpVars, captureFileVars
<1>21. QED
  BY <1>1, <1>2, <1>3, <1>4, <1>5, <1>6, <1>7, <1>8, <1>9, <1>10, <1>11, <1>12, <1>13, <1>14, <1>15, <1>16, <1>17, <1>18, <1>19, <1>20 DEF TraceNext, CaptureStep, WorkerStep, DestructorStep

\* Reports stay true while the part of the file that is counted stays.
LEMMA ReportsUntouched ==
  ASSUME TraceInv, TraceTypeOK', reports' = reports, bytesWritten' >= bytesWritten,
         \A i \in 1 .. bytesWritten : cells'[i] = cells[i]
  PROVE  ReportInv'
<1> SUFFICES ASSUME NEW r \in reports
             PROVE  /\ r.offset + r.size <= bytesWritten'
                    /\ \A i \in 1 .. r.size : cells'[r.offset + i] = [number |-> r.number, cell |-> i]
                    /\ r.packet = r.number - Headers
  BY DEF ReportInv
<1>1. r.offset \in Nat /\ r.size \in Nat /\ bytesWritten \in Nat /\ bytesWritten' \in Nat
  BY DEF TraceInv, TraceTypeOK, FrameReport
<1>2. /\ r.offset + r.size <= bytesWritten
      /\ \A i \in 1 .. r.size : cells[r.offset + i] = [number |-> r.number, cell |-> i]
      /\ r.packet = r.number - Headers
  BY DEF TraceInv, ReportInv
<1>3. \A i \in 1 .. r.size : r.offset + i \in 1 .. bytesWritten
  BY <1>1, <1>2
<1>4. QED
  BY <1>1, <1>2, <1>3

\* What was reported stays in the file (capture_frame).
LEMMA ReportStep ==
  ASSUME TraceInv, [TraceNext]_traceVars, TraceTypeOK'
  PROVE  ReportInv'
<1>1. CASE Trace
  BY <1>1, TraceConstants DEF Trace, TraceInv, TraceTypeOK, FileInv, ReportInv, otlpVars, captureFileVars
<1>2. CASE NotifyReady
  BY <1>2, TraceConstants DEF NotifyReady, Notified, TraceInv, TraceTypeOK, FileInv, ReportInv, otlpVars, captureFileVars
<1>3. CASE WriteHeader
  BY <1>3, TraceConstants DEF WriteHeader, Begin, TraceInv, TraceTypeOK, FileInv, ReportInv, otlpVars, captureFileVars
<1>4. CASE CaptureFrame
  BY <1>4, TraceConstants DEF CaptureFrame, Begin, StopCapture, Fits, NoBlock, TraceInv, TraceTypeOK, FileInv, ReportInv, otlpVars, captureFileVars
<1>5. CASE WriteCell
  <2>1. reports' = reports /\ bytesWritten' = bytesWritten
        /\ cells' = Append(cells, [number |-> block.number, cell |-> block.done + 1])
    BY <1>5 DEF WriteCell
  <2>2. \A i \in 1 .. Len(cells) : cells'[i] = cells[i]
    BY <2>1, TraceTyped
  <2>3. bytesWritten <= Len(cells)
    BY DEF TraceInv, FileInv
  <2>4. bytesWritten' >= bytesWritten /\ \A i \in 1 .. bytesWritten : cells'[i] = cells[i]
    BY <2>1, <2>2, <2>3, TraceTyped
  <2>5. QED
    BY <2>1, <2>4, ReportsUntouched
<1>6. CASE WriteFails
  <2>1. reports' = reports /\ bytesWritten' = bytesWritten /\ app = "write"
    BY <1>6 DEF WriteFails
  <2>2. block.position = bytesWritten /\ block.position \in 0 .. Len(cells)
    BY <2>1, TraceTyped DEF TraceInv, FileInv
  <2>3. \A i \in 1 .. bytesWritten : cells'[i] = cells[i]
    <3>1. CASE cells' = cells
      BY <3>1
    <3>2. CASE cells' = SubSeq(cells, 1, block.position)
      <4>1. \A i \in 1 .. block.position : cells[i] \in Cell
        BY <2>2, TraceTyped
      <4>2. \A i \in 1 .. block.position - 1 + 1 : SubSeq(cells, 1, block.position)[i] = cells[1 + i - 1]
        BY <4>1, TraceTyped, SubSeqProperties
      <4>3. QED
        BY <2>2, <3>2, <4>2, TraceTyped
    <3>3. QED
      BY <1>6, <3>1, <3>2 DEF WriteFails, Truncated
  <2>4. bytesWritten' >= bytesWritten
    BY <2>1, TraceTyped
  <2>5. QED
    BY <2>1, <2>3, <2>4, ReportsUntouched
<1>7. CASE BlockWritten
  <2>1. reports' = reports /\ bytesWritten' = bytesWritten + block.size /\ cells' = cells
    BY <1>7 DEF BlockWritten
  <2>2. bytesWritten' >= bytesWritten
    BY <2>1, TraceTyped
  <2>3. QED
    BY <2>1, <2>2, ReportsUntouched
<1>8. CASE ReportFrame
  <2> DEFINE new == [number |-> block.number, size |-> block.size, packet |-> packets, offset |-> lastOffset]
  <2>1. reports' = reports \cup {new} /\ UNCHANGED <<cells, bytesWritten>> /\ app = "report"
    BY <1>8 DEF ReportFrame
  <2>2. /\ block.position + block.size = bytesWritten /\ block.done = block.size /\ lastOffset = block.position
        /\ \A i \in 1 .. block.done : cells[block.position + i] = [number |-> block.number, cell |-> i]
    BY <2>1 DEF TraceInv, FileInv
  <2>3. packets = block.number - Headers
    <3>1. block.number = events + Headers /\ packets = events
      BY <2>1 DEF TraceInv, PacketInv
    <3>2. QED
      BY <3>1, TraceTyped DEF Headers
  <2>4. /\ new.offset + new.size <= bytesWritten
        /\ \A i \in 1 .. new.size : cells[new.offset + i] = [number |-> new.number, cell |-> i]
        /\ new.packet = new.number - Headers
    BY <2>2, <2>3, TraceTyped
  <2>5. QED
    BY <2>1, <2>4 DEF TraceInv, ReportInv
<1>9. CASE Take
  BY <1>9, TraceConstants DEF Take, TraceInv, TraceTypeOK, FileInv, ReportInv, otlpVars, captureFileVars
<1>10. CASE PostSpan
  BY <1>10, TraceConstants DEF PostSpan, TraceInv, TraceTypeOK, FileInv, ReportInv, otlpVars, captureFileVars
<1>11. CASE Posted
  BY <1>11, TraceConstants DEF Posted, TraceInv, TraceTypeOK, FileInv, ReportInv, otlpVars, captureFileVars
<1>12. CASE NotifyDrained
  BY <1>12, TraceConstants DEF NotifyDrained, TraceInv, TraceTypeOK, FileInv, ReportInv, otlpVars, captureFileVars
<1>13. CASE Close
  BY <1>13, TraceConstants DEF Close, TraceInv, TraceTypeOK, FileInv, ReportInv, otlpVars, captureFileVars
<1>14. CASE EnterDestructor
  BY <1>14, TraceConstants DEF EnterDestructor, TraceInv, TraceTypeOK, FileInv, ReportInv, otlpVars, captureFileVars
<1>15. CASE DrainSpans
  BY <1>15, TraceConstants DEF DrainSpans, StopWorker, SpansDrained, TraceInv, TraceTypeOK, FileInv, ReportInv, otlpVars, captureFileVars
<1>16. CASE NotifyStop
  BY <1>16, TraceConstants DEF NotifyStop, Notified, TraceInv, TraceTypeOK, FileInv, ReportInv, otlpVars, captureFileVars
<1>17. CASE Join
  BY <1>17, TraceConstants DEF Join, TraceInv, TraceTypeOK, FileInv, ReportInv, otlpVars, captureFileVars
<1>18. CASE DrainTimeout
  BY <1>18, TraceConstants DEF DrainTimeout, StopWorker, TraceInv, TraceTypeOK, FileInv, ReportInv, otlpVars, captureFileVars
<1>19. CASE KillNode
  BY <1>19, TraceConstants DEF KillNode, TraceInv, TraceTypeOK, FileInv, ReportInv, otlpVars, captureFileVars
<1>20. CASE UNCHANGED traceVars
  BY <1>20, TraceConstants DEF traceVars, TraceInv, TraceTypeOK, FileInv, ReportInv, otlpVars, captureFileVars
<1>21. QED
  BY <1>1, <1>2, <1>3, <1>4, <1>5, <1>6, <1>7, <1>8, <1>9, <1>10, <1>11, <1>12, <1>13, <1>14, <1>15, <1>16, <1>17, <1>18, <1>19, <1>20 DEF TraceNext, CaptureStep, WorkerStep, DestructorStep

\* A capture that is open has missed no frame.
LEMMA PacketStep ==
  ASSUME TraceInv, [TraceNext]_traceVars, TraceTypeOK'
  PROVE  PacketInv'
<1>1. CASE Trace
  BY <1>1, TraceConstants DEF Trace, TraceInv, TraceTypeOK, FileInv, PacketInv, Headers, otlpVars, captureFileVars
<1>2. CASE NotifyReady
  BY <1>2, TraceConstants DEF NotifyReady, Notified, TraceInv, TraceTypeOK, FileInv, PacketInv, Headers, otlpVars, captureFileVars
<1>3. CASE WriteHeader
  BY <1>3, TraceConstants DEF WriteHeader, Begin, TraceInv, TraceTypeOK, FileInv, PacketInv, Headers, otlpVars, captureFileVars
<1>4. CASE CaptureFrame
  BY <1>4, TraceConstants, SMTT(60) DEF CaptureFrame, Begin, StopCapture, Fits, NoBlock, TraceInv, TraceTypeOK, FileInv, PacketInv, Headers, otlpVars, captureFileVars
<1>5. CASE WriteCell
  BY <1>5, TraceConstants DEF WriteCell, TraceInv, TraceTypeOK, FileInv, PacketInv, Headers, otlpVars, captureFileVars
<1>6. CASE WriteFails
  BY <1>6, TraceConstants DEF WriteFails, Truncated, StopCapture, NoBlock, TraceInv, TraceTypeOK, FileInv, PacketInv, Headers, otlpVars, captureFileVars
<1>7. CASE BlockWritten
  <2>1. app = "write" /\ capture = "open" /\ UNCHANGED <<events, capture>>
    BY <1>7 DEF BlockWritten, TraceInv, FileInv
  <2>2. \/ block.number <= Headers /\ events = 0 /\ packets = 0
        \/ block.number = events + Headers /\ packets + 1 = events
    BY <2>1 DEF TraceInv, PacketInv
  <2>3. CASE block.number <= Headers
    <3>1. events = 0 /\ packets = 0
      BY <2>2, <2>3, TraceTyped DEF Headers
    <3>2. packets' = packets /\ app' \in {"run", "header"}
      BY <1>7, <2>3 DEF BlockWritten
    <3>3. QED
      BY <2>1, <3>1, <3>2 DEF PacketInv
  <2>4. CASE ~(block.number <= Headers)
    <3>1. app' = "report" /\ packets' = packets + 1 /\ block' = block
      BY <1>7, <2>4 DEF BlockWritten
    <3>2. QED
      BY <2>1, <2>2, <2>4, <3>1 DEF PacketInv
  <2>5. QED
    BY <2>3, <2>4
<1>8. CASE ReportFrame
  BY <1>8, TraceConstants DEF ReportFrame, NoBlock, TraceInv, TraceTypeOK, FileInv, PacketInv, Headers, otlpVars, captureFileVars
<1>9. CASE Take
  BY <1>9, TraceConstants DEF Take, TraceInv, TraceTypeOK, FileInv, PacketInv, Headers, otlpVars, captureFileVars
<1>10. CASE PostSpan
  BY <1>10, TraceConstants DEF PostSpan, TraceInv, TraceTypeOK, FileInv, PacketInv, Headers, otlpVars, captureFileVars
<1>11. CASE Posted
  BY <1>11, TraceConstants DEF Posted, TraceInv, TraceTypeOK, FileInv, PacketInv, Headers, otlpVars, captureFileVars
<1>12. CASE NotifyDrained
  BY <1>12, TraceConstants DEF NotifyDrained, TraceInv, TraceTypeOK, FileInv, PacketInv, Headers, otlpVars, captureFileVars
<1>13. CASE Close
  BY <1>13, TraceConstants DEF Close, TraceInv, TraceTypeOK, FileInv, PacketInv, Headers, otlpVars, captureFileVars
<1>14. CASE EnterDestructor
  BY <1>14, TraceConstants DEF EnterDestructor, TraceInv, TraceTypeOK, FileInv, PacketInv, Headers, otlpVars, captureFileVars
<1>15. CASE DrainSpans
  BY <1>15, TraceConstants DEF DrainSpans, StopWorker, SpansDrained, TraceInv, TraceTypeOK, FileInv, PacketInv, Headers, otlpVars, captureFileVars
<1>16. CASE NotifyStop
  BY <1>16, TraceConstants DEF NotifyStop, Notified, TraceInv, TraceTypeOK, FileInv, PacketInv, Headers, otlpVars, captureFileVars
<1>17. CASE Join
  BY <1>17, TraceConstants DEF Join, TraceInv, TraceTypeOK, FileInv, PacketInv, Headers, otlpVars, captureFileVars
<1>18. CASE DrainTimeout
  BY <1>18, TraceConstants DEF DrainTimeout, StopWorker, TraceInv, TraceTypeOK, FileInv, PacketInv, Headers, otlpVars, captureFileVars
<1>19. CASE KillNode
  BY <1>19, TraceConstants DEF KillNode, TraceInv, TraceTypeOK, FileInv, PacketInv, Headers, otlpVars, captureFileVars
<1>20. CASE UNCHANGED traceVars
  BY <1>20, TraceConstants DEF traceVars, TraceInv, TraceTypeOK, FileInv, PacketInv, Headers, otlpVars, captureFileVars
<1>21. QED
  BY <1>1, <1>2, <1>3, <1>4, <1>5, <1>6, <1>7, <1>8, <1>9, <1>10, <1>11, <1>12, <1>13, <1>14, <1>15, <1>16, <1>17, <1>18, <1>19, <1>20 DEF TraceNext, CaptureStep, WorkerStep, DestructorStep

\* Every step of the trace keeps its invariant.
LEMMA TraceStep == TraceInv /\ [TraceNext]_traceVars => TraceInv'
  BY TraceTypeStep, SpanStep, FileStep, ReportStep, PacketStep DEF TraceInv

\* The invariant gives TraceIsSound.
LEMMA TraceImplies == TraceInv => TraceIsSound
<1> SUFFICES ASSUME TraceInv PROVE TraceIsSound
  OBVIOUS
<1>1. ReportedFramesAreWhole
  <2> SUFFICES ASSUME NEW r \in reports
               PROVE  /\ r.offset + r.size <= Len(cells)
                      /\ \A i \in 1 .. r.size : cells[r.offset + i] = [number |-> r.number, cell |-> i]
    BY DEF ReportedFramesAreWhole
  <2>1. r.offset \in Nat /\ r.size \in Nat
    BY DEF TraceInv, TraceTypeOK, FrameReport
  <2>2. bytesWritten \in Nat /\ Len(cells) \in Nat /\ bytesWritten <= Len(cells)
    BY DEF TraceInv, TraceTypeOK, FileInv
  <2>3. QED
    BY <2>1, <2>2 DEF TraceInv, ReportInv
<1>2. CaptureHasNoHoles
  BY DEF TraceInv, FileInv, ReportInv, PacketInv, CaptureHasNoHoles
<1>3. SpansAreExported
  BY ConcatEmptySeq DEF TraceInv, TraceTypeOK, SpanInv, SpansAreExported
<1>4. QED
  BY <1>1, <1>2, <1>3 DEF TraceIsSound
-----------------------------------------------------------------------------
(***************************************************************************)
(* Together.                                                               *)
(***************************************************************************)
ReadyInv ==
  /\ FaultInv /\ CaptureInv /\ CredentialInv /\ GuestInv /\ HistoryInv /\ CommandInv
  /\ TraceInv

\* A step of the graph is a step of each part or leaves it alone.
LEMMA ReadySteps ==
  ASSUME [ReadyNext]_readyVars
  PROVE  /\ [FaultNext]_faultVars /\ [CaptureNext]_captureVars /\ [CredentialNext]_credentialVars
         /\ [GuestNext]_guestVars /\ [HistoryNext]_storeVars /\ [CommandNext]_commandVars
         /\ [TraceNext]_traceVars
  BY DEF ReadyNext, readyVars

\* The invariants of the parts hold throughout.
THEOREM ReadyInvariant == Spec => []ReadyInv
<1>1. ReadyInit => ReadyInv
  BY FaultInitially, CaptureInitially, CredentialInitially, GuestInitially, HistoryInitially, CommandInitially,
     TraceInitially DEF ReadyInit, ReadyInv
<1>2. ReadyInv /\ [ReadyNext]_readyVars => ReadyInv'
  <2> SUFFICES ASSUME ReadyInv, [ReadyNext]_readyVars PROVE ReadyInv'
    OBVIOUS
  <2>1. FaultInv' /\ CaptureInv' /\ CredentialInv'
    BY ReadySteps, FaultStep, CaptureInductive, CredentialStep DEF ReadyInv
  <2>2. GuestInv' /\ HistoryInv' /\ CommandInv' /\ TraceInv'
    BY ReadySteps, GuestStep, HistoryStep, CommandStep, TraceStep DEF ReadyInv
  <2>3. QED
    BY <2>1, <2>2 DEF ReadyInv
<1>3. QED
  BY <1>1, <1>2, PTL DEF Spec

\* Type correctness of every part.
THEOREM ReadyTypes == Spec => []TypeOK
<1>1. ReadyInv => TypeOK
  BY DEF ReadyInv, FaultInv, CaptureInv, CredentialInv, GuestInv, HistoryInv, CommandInv, TraceInv, TypeOK
<1>2. QED
  BY <1>1, ReadyInvariant, PTL

\* A fault or a route that the ledger records is in force, unless an operation is
\* under way or was killed or another administrator interfered: no timer of an
\* earlier application lifts it (fault_resources.cpp:76-93, 190-201;
\* scenario_execution.cpp:315-376).
THEOREM FaultsAreRecorded == Spec => []RecordedIsInForce
<1>1. ReadyInv => RecordedIsInForce
  BY FaultImplies DEF ReadyInv
<1>2. QED
  BY <1>1, ReadyInvariant, PTL

\* What is in the handoff directory is a whole file, a prefix of a file of the
\* ring, and of an inode that the ledger knows, wherever the exporter was killed
\* (lifecycle_coordinator.cpp:945-1034, capture_handoff.cpp:63-98).
THEOREM SnapshotsAreWhole == Spec => []SnapshotIsWhole
<1>1. ReadyInv => SnapshotIsWhole
  BY CaptureImplies DEF ReadyInv
<1>2. QED
  BY <1>1, ReadyInvariant, PTL

\* No step changes sealed evidence before its retention ends, or removes a session
\* that is not sealed (capture_resources.cpp:78-94, 179-204, 272-323, 419-438).
THEOREM EvidenceStays == Spec => EvidenceIsKept
<1>1. ReadyInv /\ [ReadyNext]_readyVars => [KeepsEvidence]_captureVars
  <2> SUFFICES ASSUME ReadyInv, [ReadyNext]_readyVars PROVE KeepsEvidence
    OBVIOUS
  <2>1. CaptureInv /\ [CaptureNext]_captureVars
    BY ReadySteps DEF ReadyInv
  <2>2. QED
    BY <2>1, CaptureKeeps DEF KeepsEvidence
<1>2. QED
  BY <1>1, ReadyInvariant, PTL DEF Spec, EvidenceIsKept

\* What a consumer uses is one generation, whatever the rotation did while its
\* files were read, and a previous credential only with its successor and during
\* the overlap (credentials.mjs:134-171, 192-201; tcp_transport.cpp:341-396).
THEOREM GenerationsAreWhole == Spec => []OneGeneration
<1>1. ReadyInv => OneGeneration
  BY CredentialImplies DEF ReadyInv
<1>2. QED
  BY <1>1, ReadyInvariant, PTL

\* The boot log is the newest of all bytes that completed inspections took from
\* the ring, each once and in order, for two readers that may fail anywhere
\* (qemu_resources.cpp:330-368).
THEOREM SerialStays == Spec => []SerialIsKept
<1>1. ReadyInv => SerialIsKept
  BY DEF ReadyInv, GuestInv
<1>2. QED
  BY <1>1, ReadyInvariant, PTL

\* No accepted record disappears from the books of the store, and what they call
\* written is durable, whatever deadlines, errors and deaths of the worker do
\* (history.mjs:223-257, 320-361, history-worker.mjs:112-137).
THEOREM HistoryIsTrue == Spec => []BooksAreTrue
<1>1. ReadyInv => BooksAreTrue
  BY HistoryImplies DEF ReadyInv
<1>2. QED
  BY <1>1, ReadyInvariant, PTL

\* A command that has ended left no child behind and its output is whole or marked
\* as truncated (command_runner.cpp:57-72, 191-205, 313-334).
THEOREM CommandLeavesNothing == Spec => []CommandIsOver
<1>1. ReadyInv => CommandIsOver
  BY CommandImplies DEF ReadyInv
<1>2. QED
  BY <1>1, ReadyInvariant, PTL

\* The frames a node reports are whole in its file and without a hole, and the
\* spans that had time are posted, whatever fails (capture.cpp:249-306,
\* application_observer.hpp:234-255, observability.cpp:708-751).
THEOREM TraceSound == Spec => []TraceIsSound
<1>1. ReadyInv => TraceIsSound
  BY TraceImplies DEF ReadyInv
<1>2. QED
  BY <1>1, ReadyInvariant, PTL
=============================================================================
