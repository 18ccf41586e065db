--------------------------- MODULE Execution_proofs ---------------------------
(***************************************************************************)
(* Proofs about graphx run up and down: a native graph and a container     *)
(* graph have an inductive invariant each, and a step of the execution is  *)
(* a step of the one the graph's target asks for.                          *)
(***************************************************************************)
EXTENDS Execution, FiniteSetTheorems, SequenceTheorems, TLAPS

-----------------------------------------------------------------------------
(***************************************************************************)
(* Native execution: the inductive invariant.                              *)
(***************************************************************************)
UpSteps == {"create", "console", "mkdir", "identity", "start", "register", "gate", "confirm", "readiness",
            "admit", "recheck", "publish", "rename", "ready", "relay"}
StopSteps == {"validate", "destroy", "stop", "term", "kill"}
Phases == Live \cup {"zombie", "gone"}
ProcessRecord == [name : Names \cup {Foreign}, pid : Pids, phase : Phases, run : 0 .. MaxUps]
Outcomes == {"none", "ready", "exited", "timeout"}
LedgerRecord == [status : {"none", "creating", "ready", "destroying"}, processes : Seq(Nat),
                 applications : [Nodes -> Outcomes]]
InvocationRecord == [op : {"none", "up", "down"}, pc : UpSteps \cup StopSteps \cup {"idle"}, run : 0 .. MaxUps,
                     then : Nodes \cup {"pop"}]
BudgetRecord == [ups : 0 .. MaxUps, downs : 0 .. MaxDowns, exits : 0 .. MaxExits, crashes : 0 .. MaxCrashes]

NativeTyped ==
  /\ startup \in {"all", "available"} /\ procs \in Seq(ProcessRecord) /\ Len(procs) <= MaxStarts
  /\ log \in [Names -> {"absent", "empty", "ready"}] /\ ledger \in LedgerRecord /\ barrier \in BOOLEAN
  /\ pending \subseteq {"release", "console"} /\ console \in {"absent", "named", "made", "recorded"}
  /\ inv \in InvocationRecord /\ result \in {"none", "crashed", "failed", "ready", "stopped"}
  /\ published \subseteq 1 .. MaxUps /\ budget \in BudgetRecord

\* A PID has one occupant, and who is ready has said so.
ProcessInv ==
  /\ \A s, t \in Starts : procs[s].pid = procs[t].pid /\ procs[s].phase # "gone" /\ procs[t].phase # "gone" => s = t
  /\ everReady \subseteq Own
  /\ \A s \in Own : procs[s].phase \in {"ready", "released"} => s \in everReady

\* The ledger names own processes of one run, in the order of the plan, and
\* their logs are their own.
NameAt(i) == IF i <= Len(Plan) THEN Plan[i] ELSE Relay
LedgerInv ==
  /\ IsInjective(ledger.processes) /\ ToSet(ledger.processes) \subseteq Own
  /\ Len(ledger.processes) <= Len(Plan) + 1
  /\ \A i \in DOMAIN ledger.processes : procs[ledger.processes[i]].name = NameAt(i)
  /\ \A i, j \in DOMAIN ledger.processes : procs[ledger.processes[i]].run = procs[ledger.processes[j]].run
  /\ \A i \in DOMAIN ledger.processes : log[NameAt(i)] = "ready" => ledger.processes[i] \in everReady

\* What the step of the invocation says about the ledger
Stopping == inv.pc \in {"stop", "term", "kill"}
StopsLate == Stopping /\ inv.then # "pop"
PlaceInv ==
  /\ inv.pc = "idle" <=> inv = Idle
  /\ inv.op = "none" => inv = Idle
  /\ inv.pc \in UpSteps => inv.op = "up"
  /\ inv.op = "up" => inv.run > 0 /\ \A i \in DOMAIN ledger.processes : procs[ledger.processes[i]].run = inv.run
  /\ inv.pc \in UpSteps => inv.then = "pop"
  /\ StopsLate => inv.op = "up" /\ \E s \in ToSet(ledger.processes) : procs[s].name = inv.then
  /\ inv.pc \in {"create", "console", "mkdir", "identity"} => ledger.processes = <<>>
  /\ inv.pc = "start" => Len(ledger.processes) < Len(Plan)
  /\ inv.pc = "term" /\ inv.then = "pop" => ledger.processes # <<>>
  /\ inv.pc \in {"admit", "recheck", "publish", "rename", "ready", "relay"} \/ StopsLate
       => Len(ledger.processes) = Len(Plan)

\* The process that is being started is the newest of the graph.
Newest(c) == c \in Own /\ \A t \in Own : t <= c
ChildInv ==
  /\ inv.pc = "register" =>
       /\ Len(ledger.processes) <= Len(Plan) /\ log[NextName] # "ready"
       /\ \E c \in Starts : /\ Newest(c) /\ c \notin ToSet(ledger.processes)
                            /\ procs[c].name = NextName /\ procs[c].run = inv.run
  /\ inv.pc \in {"gate", "confirm", "readiness"} => ledger.processes # <<>> /\ Newest(Last(ledger.processes))
  /\ inv.pc = "readiness" => Len(ledger.processes) <= Len(Plan) /\ (startup = "all" \/ Len(ledger.processes) = 1)

\* The relay is started after the release.
RelayTurn ==
  \/ inv.pc \in {"ready", "relay"}
  \/ inv.pc = "register" /\ Len(ledger.processes) = Len(Plan)
  \/ inv.pc \in {"gate", "confirm"} /\ Len(ledger.processes) = Len(Plan) + 1
StartingUp ==
  inv.pc \in {"console", "mkdir", "identity", "start", "register", "gate", "confirm", "readiness"} /\ ~RelayTurn

\* During up, whoever had to be awaited was, and what the ledger says of the
\* nodes is so.
Preparing == inv.pc \in UpSteps \/ StopsLate
Awaited(i) ==
  /\ startup = "all" \/ i = 1
  /\ i <= Len(Plan) /\ (i < Len(ledger.processes) \/ inv.pc \notin {"gate", "confirm", "readiness"})
SettledInv ==
  /\ Preparing =>
       \A i \in DOMAIN ledger.processes :
         /\ Awaited(i) => ledger.processes[i] \in everReady
         /\ NameAt(i) \in Nodes /\ ledger.applications[NameAt(i)] = "ready" => ledger.processes[i] \in everReady
  /\ inv.pc \in {"recheck", "publish", "rename"} /\ startup = "available" =>
       \A n \in Nodes : ledger.applications[n] # "none"
  /\ StartingUp => \A n \in Nodes : ledger.applications[n] = "none"

\* Every process of a run is ready or was settled.
AllReady(r) ==
  \A n \in ToSet(Plan) : \E t \in Own :
    /\ procs[t].name = n /\ procs[t].run = r
    /\ t \in everReady \/ (startup = "available" /\ n \in Nodes /\ ledger.applications[n] \in {"exited", "timeout"})
Passed(r) == r \in published /\ AllReady(r)
NoneReleased == \A s \in Own : procs[s].phase # "released"
BarrierStep ==
  /\ Preparing /\ ~RelayTurn => barrier = FALSE /\ NoneReleased
  /\ RelayTurn => Passed(inv.run)
  /\ inv.pc = "destroy" \/ Stopping => barrier = FALSE
BarrierPassed == barrier = TRUE => \A i \in DOMAIN ledger.processes : Passed(procs[ledger.processes[i]].run)
ReleasedPassed == \A s \in Own : procs[s].phase = "released" => Passed(procs[s].run)
BarrierInv == BarrierStep /\ BarrierPassed /\ ReleasedPassed

\* down is refused while a child at its gate still holds the lock.
StopInv ==
  /\ inv.op = "down" => \A s \in Own : procs[s].phase # "gated"
  /\ result = "stopped" => inv = Idle /\ barrier = FALSE /\ \A s \in Own : procs[s].phase \notin Live

NativeInv ==
  /\ NativeTyped /\ ProcessInv /\ LedgerInv /\ PlaceInv /\ ChildInv /\ SettledInv /\ BarrierInv /\ StopInv
  /\ OnlyOwnSignalled /\ NothingUnrecorded

-----------------------------------------------------------------------------
\* What is assumed of the plan and of the bounds.
LEMMA PlanFacts ==
  /\ Len(Plan) \in Nat \ {0} /\ Plan[1] = "platform"
  /\ \A i \in 1 .. Len(Plan) : Plan[i] \in ToSet(Plan) /\ Plan[i] \notin {Relay, Foreign, "pop"}
  /\ \A i, j \in 1 .. Len(Plan) : Plan[i] = Plan[j] => i = j
  /\ \A n \in ToSet(Plan) : \E i \in 1 .. Len(Plan) : Plan[i] = n
<1>1. Plan \in Seq(STRING) /\ Len(Plan) > 0 /\ Plan[1] = "platform"
  BY PlanAssumption
<1>2. DOMAIN Plan = 1 .. Len(Plan) /\ Len(Plan) \in Nat
  BY <1>1
<1>3. \A i \in 1 .. Len(Plan) : Plan[i] \in ToSet(Plan)
  BY <1>2 DEF ToSet
<1>4. \A i \in 1 .. Len(Plan) : Plan[i] \notin {Relay, Foreign, "pop"}
  BY <1>3, PlanAssumption
<1>5. \A i, j \in 1 .. Len(Plan) : Plan[i] = Plan[j] => i = j
  BY <1>2, PlanAssumption DEF IsInjective
<1>6. \A n \in ToSet(Plan) : \E i \in 1 .. Len(Plan) : Plan[i] = n
  BY <1>2 DEF ToSet
<1>7. QED
  BY <1>1, <1>2, <1>3, <1>4, <1>5, <1>6
LEMMA NativeBounds ==
  MaxUps \in Nat /\ MaxDowns \in Nat /\ MaxStarts \in Nat /\ MaxExits \in Nat /\ MaxCrashes \in Nat
  BY BoundsAssumption

\* The names of the recorded processes differ.
LEMMA NameFacts ==
  /\ \A i \in Nat : NameAt(i + 1) \in Names /\ NameAt(i + 1) # Foreign
  /\ \A i, j \in 1 .. Len(Plan) + 1 : NameAt(i) = NameAt(j) => i = j
  /\ \A i \in 1 .. Len(Plan) + 1 : NameAt(i) = "platform" <=> i = 1
  /\ \A i \in 1 .. Len(Plan) + 1 : NameAt(i) \in Nodes <=> i # 1 /\ i # Len(Plan) + 1
  /\ \A n \in Nodes : n \in Names /\ n # Foreign /\ n # "pop" /\ n # Relay
<1>1. \A i \in Nat : NameAt(i + 1) \in Names /\ NameAt(i + 1) # Foreign
  BY PlanFacts DEF NameAt, Names, Relay, Foreign
<1>2. \A i, j \in 1 .. Len(Plan) + 1 : NameAt(i) = NameAt(j) => i = j
  BY PlanFacts DEF NameAt
<1>3. \A i \in 1 .. Len(Plan) + 1 : NameAt(i) = "platform" <=> i = 1
  BY PlanFacts DEF NameAt, Relay
<1>4. \A i \in 1 .. Len(Plan) + 1 : NameAt(i) \in Nodes <=> i # 1 /\ i # Len(Plan) + 1
  BY <1>3, PlanFacts DEF NameAt, Relay, Nodes
<1>5. \A n \in Nodes : n \in Names /\ n # Foreign /\ n # "pop" /\ n # Relay
  BY PlanFacts DEF Nodes, Names
<1>6. QED
  BY <1>1, <1>2, <1>3, <1>4, <1>5

-----------------------------------------------------------------------------
\* Processes keep their names, PIDs and runs.
Keeping ==
  /\ procs' \in Seq(ProcessRecord) /\ Len(procs') >= Len(procs)
  /\ \A s \in Starts : /\ procs'[s].name = procs[s].name /\ procs'[s].pid = procs[s].pid
                       /\ procs'[s].run = procs[s].run
\* Some of them end.
Winding ==
  /\ procs' \in Seq(ProcessRecord) /\ Len(procs') = Len(procs)
  /\ \A s \in Starts : /\ procs'[s].name = procs[s].name /\ procs'[s].pid = procs[s].pid
                       /\ procs'[s].run = procs[s].run
                       /\ procs'[s].phase \in {procs[s].phase, "zombie", "gone"}
                       /\ procs[s].phase = "gone" => procs'[s].phase = "gone"

\* The records of a typed state
LEMMA NativeTypes ==
  ASSUME NativeTyped
  PROVE  /\ Len(procs) \in Nat /\ DOMAIN procs = Starts /\ \A s \in Starts : s \in Nat /\ procs[s] \in ProcessRecord
         /\ ledger.processes \in Seq(Nat) /\ Len(ledger.processes) \in Nat
         /\ DOMAIN ledger.processes = 1 .. Len(ledger.processes)
         /\ ledger.applications \in [Nodes -> Outcomes]
         /\ Own \subseteq Starts
  BY DEF NativeTyped, LedgerRecord, Starts, Own

\* Nothing moves, as far as processes go.
LEMMA StillWinding == ASSUME NativeTyped, UNCHANGED procs PROVE Winding
  BY NativeTypes DEF Winding, NativeTyped, Starts

\* Ending processes stay the same processes.
LEMMA WindingFacts ==
  ASSUME NativeTyped, Winding
  PROVE  Starts' = Starts /\ Own' = Own /\ Keeping
<1>1. Starts' = Starts
  BY DEF Winding, Starts
<1>2. Own' = Own
  BY <1>1 DEF Winding, Own
<1>3. Len(procs') >= Len(procs)
  BY NativeTypes DEF Winding
<1>4. QED
  BY <1>1, <1>2, <1>3 DEF Winding, Keeping

\* Only the phase of a process changes.
LEMMA PhasedRecord ==
  ASSUME NEW r \in ProcessRecord, NEW p \in Phases
  PROVE  [r EXCEPT !.phase = p] \in ProcessRecord
  BY DEF ProcessRecord

\* waitpid only ends processes.
LEMMA ReapedWinds ==
  ASSUME NativeTyped, NEW A, procs' = Reaped(A) PROVE Winding
<1>1. \A s \in Starts : procs'[s] = IF s \in A /\ procs[s].phase = "zombie" /\ IsChild(s)
                                    THEN [procs[s] EXCEPT !.phase = "gone"] ELSE procs[s]
  BY DEF Reaped
<1>2. \A s \in Starts : procs'[s] \in ProcessRecord
  <2>1. "gone" \in Phases /\ \A s \in Starts : procs[s] \in ProcessRecord
    BY NativeTypes DEF Phases
  <2>2. QED
    BY <1>1, <2>1, PhasedRecord
<1>3. procs' \in Seq(ProcessRecord) /\ Len(procs') = Len(procs)
  BY <1>2, NativeTypes, IsASeq DEF Reaped, Starts
<1>4. QED
  BY <1>1, <1>3, NativeTypes DEF Winding, ProcessRecord

\* One process ends.
LEMMA PhaseWinds ==
  ASSUME NativeTyped, NEW s \in Starts, NEW p \in {"zombie", "gone"}, procs' = Phase(s, p),
         procs[s].phase # "gone" \/ p = "gone"
  PROVE  Winding
<1>1. \A t \in Starts : procs'[t] = IF t = s THEN [procs[t] EXCEPT !.phase = p] ELSE procs[t]
  BY NativeTypes DEF Phase
<1>2. \A t \in Starts : procs'[t] \in ProcessRecord
  <2>1. p \in Phases /\ \A t \in Starts : procs[t] \in ProcessRecord
    BY NativeTypes DEF Phases
  <2>2. \A t \in Starts : [procs[t] EXCEPT !.phase = p] \in ProcessRecord
    BY <2>1, PhasedRecord
  <2>3. QED
    BY <1>1, <2>1, <2>2, Zenon
<1>3. DOMAIN procs' = Starts
  BY NativeTypes DEF Phase
<1>4. procs' \in Seq(ProcessRecord) /\ Len(procs') = Len(procs)
  <2>1. procs' = [t \in 1 .. Len(procs) |-> procs'[t]]
    BY <1>3 DEF Phase, Starts
  <2>2. QED
    BY <1>2, <2>1, NativeTypes, IsASeq DEF Starts
<1>5. QED
  BY <1>1, <1>4, NativeTypes DEF Winding, ProcessRecord

\* What ends changes nothing that is known of processes and ledger.
LEMMA StandsStill ==
  ASSUME NativeInv, Winding, log' = log, everReady' = everReady, ledger'.processes = ledger.processes
  PROVE  ProcessInv' /\ LedgerInv' /\ NothingUnrecorded'
<1> USE DEF NativeInv
<1>1. Starts' = Starts /\ Own' = Own
  BY WindingFacts
<1>2. Own \subseteq Starts
  BY NativeTypes
<1>3. \A s \in Starts : /\ procs'[s].name = procs[s].name /\ procs'[s].pid = procs[s].pid
                        /\ procs'[s].run = procs[s].run
                        /\ procs'[s].phase = procs[s].phase \/ procs'[s].phase \in {"zombie", "gone"}
                        /\ procs[s].phase = "gone" => procs'[s].phase = "gone"
  BY DEF Winding
<1>4. ProcessInv'
  <2>1. ProcessInv
    OBVIOUS
  <2>2. QED
    BY <1>1, <1>2, <1>3, <2>1 DEF ProcessInv
<1>5. \A i \in DOMAIN ledger.processes : ledger.processes[i] \in Starts
  BY <1>2 DEF LedgerInv, ToSet
<1>6. LedgerInv'
  <2>1. LedgerInv
    OBVIOUS
  <2>2. QED
    BY <1>1, <1>3, <1>5, <2>1 DEF LedgerInv, IsInjective
<1>7. NothingUnrecorded'
  BY <1>1, <1>2, <1>3 DEF NothingUnrecorded, Live
<1>8. QED
  BY <1>4, <1>6, <1>7

\* A run that was passed stays so.
LEMMA PassedKept ==
  ASSUME NativeTyped, Keeping, startup' = startup, everReady \subseteq everReady', published \subseteq published',
         ledger'.applications = ledger.applications, NEW r, Passed(r)
  PROVE  Passed(r)'
<1>1. \A t \in Own : t \in Own' /\ procs'[t].name = procs[t].name /\ procs'[t].run = procs[t].run
  BY NativeTypes DEF Keeping, Own, Starts
<1>2. QED
  BY <1>1 DEF Passed, AllReady

\* The order of the history.
LEMMA ChildIsNewest == ASSUME NativeTyped, NEW c, Newest(c) PROVE Child = c
  BY NativeTypes DEF Child, Newest, Own, Starts

\* The recorded processes are own ones.
LEMMA RecordedAreOwn ==
  ASSUME NativeInv PROVE \A i \in DOMAIN ledger.processes : ledger.processes[i] \in Own /\ ledger.processes[i] \in Starts
  BY NativeTypes DEF NativeInv, LedgerInv, ToSet

\* A step of the invocation that leaves the records as they are
Quiet ==
  /\ Winding /\ ledger'.processes = ledger.processes /\ ledger'.applications = ledger.applications
  /\ UNCHANGED <<startup, log, everReady, published>> /\ barrier' \in {barrier, FALSE}
LEMMA QuietFacts ==
  ASSUME NativeInv, Quiet
  PROVE  /\ Starts' = Starts /\ Own' = Own /\ ProcessInv' /\ LedgerInv' /\ NothingUnrecorded'
         /\ \A r : Passed(r) => Passed(r)'
         /\ NoneReleased => NoneReleased'
         /\ BarrierPassed' /\ ReleasedPassed'
         /\ \A c : Newest(c) => Newest(c)'
         /\ \A i \in DOMAIN ledger.processes : /\ procs'[ledger.processes[i]].run = procs[ledger.processes[i]].run
                                               /\ procs'[ledger.processes[i]].name = procs[ledger.processes[i]].name
<1> USE DEF NativeInv
<1>1. /\ Starts' = Starts /\ Own' = Own /\ Keeping
      /\ ProcessInv' /\ LedgerInv' /\ NothingUnrecorded'
  BY WindingFacts, StandsStill DEF Quiet
<1>2. \A r : Passed(r) => Passed(r)'
  BY <1>1, PassedKept DEF Quiet
<1>3. Own \subseteq Starts
  BY NativeTypes
<1>4. \A s \in Starts : /\ procs'[s].name = procs[s].name /\ procs'[s].run = procs[s].run
                        /\ procs'[s].phase = "released" => procs[s].phase = "released"
  BY DEF Quiet, Winding
<1>5. NoneReleased => NoneReleased'
  BY <1>1, <1>3, <1>4 DEF NoneReleased
<1>6. \A i \in DOMAIN ledger.processes : /\ procs'[ledger.processes[i]].run = procs[ledger.processes[i]].run
                                         /\ procs'[ledger.processes[i]].name = procs[ledger.processes[i]].name
  BY <1>4, RecordedAreOwn
<1>7. BarrierPassed'
  <2>1. BarrierPassed /\ (barrier' = TRUE => barrier = TRUE) /\ ledger'.processes = ledger.processes
    BY DEF Quiet, BarrierInv
  <2>2. QED
    BY <1>2, <1>6, <2>1 DEF BarrierPassed
<1>8. ReleasedPassed'
  BY <1>1, <1>2, <1>3, <1>4 DEF ReleasedPassed, BarrierInv
<1>9. \A c : Newest(c) => Newest(c)'
  BY <1>1 DEF Newest
<1>10. QED
  BY <1>1, <1>2, <1>5, <1>6, <1>7, <1>8, <1>9

\* Nothing but processes that end, and bookkeeping
LEMMA QuietKeeps ==
  ASSUME NativeInv, Quiet, NativeTyped', strangers' = strangers, inv' = inv, result' = result
  PROVE  NativeInv'
<1> USE DEF NativeInv
<1>1. /\ Starts' = Starts /\ Own' = Own /\ Own \subseteq Starts
      /\ ledger'.processes = ledger.processes /\ ledger'.applications = ledger.applications
      /\ startup' = startup /\ log' = log /\ everReady' = everReady
      /\ barrier = FALSE => barrier' = FALSE
  BY QuietFacts, NativeTypes DEF Quiet
<1>2. \A s \in Starts : /\ procs'[s].name = procs[s].name /\ procs'[s].run = procs[s].run
                        /\ procs'[s].phase = procs[s].phase \/ procs'[s].phase \in {"zombie", "gone"}
  BY DEF Quiet, Winding
<1>3. /\ StopsLate' = StopsLate /\ Stopping' = Stopping /\ Preparing' = Preparing /\ NextName' = NextName
      /\ RelayTurn' = RelayTurn /\ StartingUp' = StartingUp
  BY <1>1 DEF StopsLate, Stopping, Preparing, NextName, Started, RelayTurn, StartingUp
<1>4. PlaceInv'
  <2>1. PlaceInv
    OBVIOUS
  <2>2. \A s \in ToSet(ledger.processes) : s \in Starts
    BY RecordedAreOwn DEF ToSet
  <2>3. QED
    BY <1>1, <1>2, <1>3, <2>1, <2>2, QuietFacts DEF PlaceInv
<1>5. ChildInv'
  <2>1. ChildInv
    OBVIOUS
  <2>2. QED
    BY <1>1, <1>2, <1>3, <2>1, QuietFacts DEF ChildInv
<1>6. SettledInv'
  <2>1. SettledInv
    OBVIOUS
  <2>2. QED
    BY <1>1, <1>3, <2>1 DEF SettledInv, Awaited
<1>7. BarrierStep'
  <2>1. BarrierStep
    BY DEF BarrierInv
  <2>2. QED
    BY <1>1, <1>3, <2>1, QuietFacts DEF BarrierStep
<1>8. StopInv'
  <2>1. StopInv
    OBVIOUS
  <2>2. QED
    BY <1>1, <1>2, <2>1 DEF StopInv, Live
<1>9. OnlyOwnSignalled'
  BY DEF OnlyOwnSignalled
<1>10. QED
  BY <1>4, <1>5, <1>6, <1>7, <1>8, <1>9, QuietFacts DEF BarrierInv

-----------------------------------------------------------------------------
\* The processes of others and of earlier invocations
LEMMA ExitsKeeps == ASSUME NativeInv, NEW s \in Starts, Exits(s) \/ Orphaned(s) \/ RelayPublishes(s) PROVE NativeInv'
<1> USE DEF NativeInv
<1>1. Ended(s) \in {"zombie", "gone"}
  BY DEF Ended
<1>2. Winding
  <2>1. CASE Exits(s)
    BY <1>1, <2>1, PhaseWinds DEF Exits, Live
  <2>2. CASE Orphaned(s)
    BY <2>2, PhaseWinds DEF Orphaned
  <2>3. CASE RelayPublishes(s)
    BY <2>3, StillWinding DEF RelayPublishes
  <2>4. QED
    BY <2>1, <2>2, <2>3
<1>3. /\ UNCHANGED <<startup, log, ledger, barrier, console, inv, result, everReady, published, strangers>>
      /\ budget' = budget \/ (budget.exits > 0 /\ budget' = [budget EXCEPT !.exits = @ - 1])
      /\ pending' = pending \/ pending' = pending \ {"console"} \/ pending' = pending \cup {"console"}
  BY DEF Exits, Orphaned, RelayPublishes, history
<1>4. Quiet
  BY <1>2, <1>3 DEF Quiet
<1>5. budget' \in BudgetRecord
  BY <1>3, NativeBounds DEF NativeTyped, BudgetRecord
<1>6. pending' \subseteq {"release", "console"}
  BY <1>3 DEF NativeTyped
<1>7. procs' \in Seq(ProcessRecord) /\ Len(procs') <= MaxStarts
  BY <1>2 DEF Winding, NativeTyped
<1>8. NativeTyped'
  BY <1>3, <1>5, <1>6, <1>7 DEF NativeTyped
<1>9. QED
  BY <1>3, <1>4, <1>8, QuietKeeps

\* The parts of the invariant that a quiet step of the invocation can disturb
LEMMA QuietMoves ==
  ASSUME NativeInv, Quiet, NativeTyped', OnlyOwnSignalled', PlaceInv', ChildInv', SettledInv', BarrierStep', StopInv'
  PROVE  NativeInv'
  BY QuietFacts DEF NativeInv, BarrierInv

\* What Goto changes
LEMMA GotoFacts ==
  ASSUME NativeTyped, NEW p \in UpSteps \cup StopSteps, Goto(p)
  PROVE  /\ inv' \in InvocationRecord /\ inv' # Idle
         /\ inv'.pc = p /\ inv'.op = inv.op /\ inv'.run = inv.run /\ inv'.then = inv.then
<1>1. inv \in InvocationRecord /\ inv' = [inv EXCEPT !.pc = p]
  BY DEF NativeTyped, Goto
<1>2. inv' \in InvocationRecord /\ inv'.pc = p /\ inv'.op = inv.op /\ inv'.run = inv.run /\ inv'.then = inv.then
  BY <1>1 DEF InvocationRecord
<1>3. p # "idle"
  BY DEF UpSteps, StopSteps
<1>4. QED
  BY <1>2, <1>3 DEF Idle
LEMMA IdleTyped == Idle \in InvocationRecord /\ Idle.pc = "idle" /\ Idle.op = "none"
  BY NativeBounds DEF Idle, InvocationRecord

\* An invocation ends.
LEMMA InvocationEnds ==
  ASSUME NativeInv, Quiet, NativeTyped', OnlyOwnSignalled', inv' = Idle,
         result' = "stopped" => barrier' = FALSE /\ \A s \in Own : procs'[s].phase \notin Live
  PROVE  NativeInv'
<1>1. inv'.pc = "idle" /\ inv'.op = "none" /\ inv' = Idle
  BY IdleTyped
<1>2. ~StopsLate' /\ ~Stopping' /\ ~Preparing'
  BY <1>1 DEF StopsLate, Stopping, Preparing, UpSteps
<1>3. PlaceInv'
  BY <1>1, <1>2 DEF PlaceInv, UpSteps
<1>4. ChildInv'
  BY <1>1 DEF ChildInv
<1>5. SettledInv'
  BY <1>1, <1>2 DEF SettledInv, StartingUp
<1>6. BarrierStep'
  BY <1>1, <1>2 DEF BarrierStep, RelayTurn
<1>7. StopInv'
  BY <1>1, QuietFacts DEF StopInv
<1>8. QED
  BY <1>3, <1>4, <1>5, <1>6, <1>7, QuietMoves

\* An up gives up: everything that was started is stopped.
LEMMA GivesUp ==
  ASSUME NativeInv, Quiet, NativeTyped', OnlyOwnSignalled', inv.op = "up", Goto("validate"), result' = result
  PROVE  NativeInv'
<1> USE DEF NativeInv
<1>1. inv'.pc = "validate" /\ inv'.op = "up" /\ inv'.run = inv.run /\ inv' # Idle
  BY GotoFacts DEF StopSteps
<1>2. ~StopsLate' /\ ~Stopping' /\ ~Preparing'
  BY <1>1 DEF StopsLate, Stopping, Preparing, UpSteps
<1>3. PlaceInv'
  <2>1. PlaceInv /\ ledger'.processes = ledger.processes
    BY DEF Quiet
  <2>2. QED
    BY <1>1, <1>2, <2>1, QuietFacts DEF PlaceInv, UpSteps
<1>4. ChildInv'
  BY <1>1 DEF ChildInv
<1>5. SettledInv'
  BY <1>1, <1>2 DEF SettledInv, StartingUp
<1>6. BarrierStep'
  BY <1>1, <1>2 DEF BarrierStep, RelayTurn
<1>7. StopInv'
  <2>1. inv # Idle
    BY IdleTyped
  <2>2. QED
    BY <1>1, <2>1 DEF StopInv
<1>8. QED
  BY <1>3, <1>4, <1>5, <1>6, <1>7, QuietMoves

\* up goes on.
LEMMA GoesOn ==
  ASSUME NativeInv, Quiet, NativeTyped', OnlyOwnSignalled', inv.pc \in UpSteps, NEW p \in UpSteps, Goto(p),
         result' = result,
         p \in {"create", "console", "mkdir", "identity"} => ledger.processes = <<>>,
         p = "start" => Len(ledger.processes) < Len(Plan),
         p \in {"admit", "recheck", "publish", "rename", "ready", "relay"} => Len(ledger.processes) = Len(Plan),
         ChildInv', SettledInv', BarrierStep'
  PROVE  NativeInv'
<1> USE DEF NativeInv
<1>1. inv'.pc = p /\ inv'.op = inv.op /\ inv'.run = inv.run /\ inv'.then = inv.then /\ inv' # Idle
  BY GotoFacts
<1>2. ~StopsLate' /\ p # "idle" /\ p # "term"
  BY <1>1 DEF StopsLate, Stopping, UpSteps
<1>3. inv.op = "up" /\ inv.then = "pop" /\ inv # Idle
  BY IdleTyped DEF PlaceInv
<1>4. PlaceInv'
  <2>1. PlaceInv /\ ledger'.processes = ledger.processes
    BY DEF Quiet
  <2>2. QED
    BY <1>1, <1>2, <1>3, <2>1, QuietFacts DEF PlaceInv
<1>5. StopInv'
  BY <1>1, <1>3 DEF StopInv
<1>6. QED
  BY <1>4, <1>5, QuietMoves

\* The types of the variables a step of the invocation changes
LEMMA TypesKept ==
  ASSUME NativeTyped, Winding, startup' = startup, log' \in [Names -> {"absent", "empty", "ready"}],
         ledger' \in LedgerRecord, barrier' \in BOOLEAN, pending' \subseteq {"release", "console"},
         console' \in {"absent", "named", "made", "recorded"}, inv' \in InvocationRecord,
         result' \in {"none", "crashed", "failed", "ready", "stopped"}, published' \subseteq 1 .. MaxUps,
         budget' \in BudgetRecord
  PROVE  NativeTyped'
  BY DEF NativeTyped, Winding

\* A killed invocation
LEMMA CrashKeeps == ASSUME NativeInv, Crash PROVE NativeInv'
<1> USE DEF NativeInv
<1>1. Winding /\ Quiet
  BY StillWinding DEF Crash, history, Quiet
<1>2. inv' = Idle /\ result' = "crashed" /\ strangers' = strangers
  BY DEF Crash, Ends, history
<1>3. budget' \in BudgetRecord
  BY NativeBounds DEF Crash, NativeTyped, BudgetRecord
<1>4. NativeTyped'
  BY <1>1, <1>2, <1>3, IdleTyped DEF Crash, history, NativeTyped
<1>5. QED
  BY <1>1, <1>2, <1>4, InvocationEnds DEF OnlyOwnSignalled

\* up takes the lock over an empty ledger: nothing of the graph is left.
LEMMA NothingLeft == ASSUME NativeInv, ledger.processes = <<>> PROVE \A s \in Own : procs[s].phase \notin Live \ {"gated"}
  BY DEF NativeInv, NothingUnrecorded, ToSet
LEMMA UpCallKeeps == ASSUME NativeInv, UpCall PROVE NativeInv'
<1> USE DEF NativeInv
<1>1. /\ ledger.processes = <<>> /\ barrier' = FALSE /\ result' = "none"
      /\ UNCHANGED <<startup, procs, log, ledger, pending, console, everReady, published, strangers>>
      /\ inv' = [op |-> "up", pc |-> "create", run |-> MaxUps + 1 - budget.ups, then |-> "pop"]
      /\ budget.ups > 0 /\ budget' = [budget EXCEPT !.ups = @ - 1]
  BY DEF UpCall, RemoveBarrier, history
<1>2. Quiet
  BY <1>1, StillWinding DEF Quiet
<1>3. budget' \in BudgetRecord /\ MaxUps + 1 - budget.ups \in 1 .. MaxUps
  <2>1. budget \in BudgetRecord /\ budget.ups \in 1 .. MaxUps
    BY <1>1, NativeBounds DEF NativeTyped, BudgetRecord
  <2>2. budget.ups - 1 \in 0 .. MaxUps /\ MaxUps + 1 - budget.ups \in 1 .. MaxUps
    BY <2>1, NativeBounds
  <2>3. QED
    BY <1>1, <2>1, <2>2 DEF BudgetRecord
<1>4. inv' \in InvocationRecord /\ inv'.op = "up" /\ inv'.pc = "create" /\ inv'.run > 0 /\ inv'.then = "pop" /\ inv' # Idle
  BY <1>1, <1>3, NativeBounds DEF InvocationRecord, UpSteps, Idle
<1>5. NativeTyped'
  BY <1>1, <1>3, <1>4 DEF NativeTyped
<1>6. ~StopsLate' /\ ~RelayTurn'
  BY <1>4 DEF StopsLate, Stopping, RelayTurn
<1>7. DOMAIN ledger'.processes = {}
  BY <1>1
<1>8. PlaceInv' /\ ChildInv' /\ SettledInv'
  BY <1>1, <1>4, <1>6, <1>7 DEF PlaceInv, ChildInv, SettledInv, UpSteps, StartingUp
<1>9. BarrierStep'
  <2>1. NoneReleased
    BY <1>1, NothingLeft DEF NoneReleased, Live
  <2>2. QED
    BY <1>1, <1>2, <1>4, <1>6, <2>1, QuietFacts DEF BarrierStep, Stopping
<1>10. StopInv' /\ OnlyOwnSignalled'
  BY <1>1, <1>4 DEF StopInv, OnlyOwnSignalled
<1>11. QED
  BY <1>2, <1>5, <1>8, <1>9, <1>10, QuietMoves

\* The ledger of a new run
LEMMA CreateKeeps == ASSUME NativeInv, Create PROVE NativeInv'
<1> USE DEF NativeInv
<1>1. /\ inv.pc = "create" /\ Goto("console")
      /\ ledger' = [ledger EXCEPT !.status = "creating", !.applications = [n \in Nodes |-> "none"]]
      /\ UNCHANGED <<startup, procs, log, barrier, pending, console, result, everReady, published, strangers, budget>>
  BY DEF Create, history
<1>2. /\ ledger' \in LedgerRecord /\ ledger'.processes = ledger.processes
      /\ \A n \in Nodes : ledger'.applications[n] = "none"
  BY <1>1 DEF NativeTyped, LedgerRecord, Outcomes
<1>3. inv' \in InvocationRecord /\ inv'.pc = "console" /\ inv'.op = inv.op /\ inv'.run = inv.run /\ inv'.then = inv.then /\ inv' # Idle
  BY <1>1, GotoFacts DEF UpSteps
<1>4. Winding /\ Own' = Own
  BY <1>1, StillWinding, WindingFacts
<1>5. NativeTyped'
  BY <1>1, <1>2, <1>3 DEF NativeTyped
<1>6. inv.op = "up" /\ inv.then = "pop" /\ inv.run > 0 /\ ledger.processes = <<>> /\ barrier = FALSE /\ NoneReleased /\ inv # Idle
  BY <1>1, IdleTyped DEF PlaceInv, UpSteps, BarrierInv, BarrierStep, Preparing, RelayTurn
<1>7. DOMAIN ledger'.processes = {} /\ ~StopsLate' /\ ~RelayTurn' /\ ~Stopping'
  BY <1>2, <1>3, <1>6 DEF StopsLate, Stopping, RelayTurn
<1>8. PlaceInv' /\ ChildInv' /\ SettledInv'
  BY <1>2, <1>3, <1>6, <1>7 DEF PlaceInv, ChildInv, SettledInv, UpSteps
<1>9. NoneReleased'
  BY <1>1, <1>4, <1>6 DEF NoneReleased
<1>10. BarrierInv'
  BY <1>1, <1>3, <1>6, <1>7, <1>9 DEF BarrierInv, BarrierStep, BarrierPassed, ReleasedPassed, NoneReleased
<1>11. StopInv' /\ OnlyOwnSignalled'
  BY <1>1, <1>3, <1>6 DEF StopInv, OnlyOwnSignalled
<1>12. QED
  BY <1>1, <1>2, <1>4, <1>5, <1>8, <1>10, <1>11, StandsStill

\* The console directory
LEMMA PrepareConsoleKeeps == ASSUME NativeInv, PrepareConsole PROVE NativeInv'
<1> USE DEF NativeInv
<1>1. /\ UNCHANGED <<startup, procs, log, ledger, barrier, pending, everReady, published, strangers, budget>>
      /\ console' \in {"absent", "named", "made", "recorded"}
      /\ inv.pc \in {"console", "mkdir", "identity"}
      /\ \/ inv' = Idle /\ result' = "failed"
         \/ result' = result /\ \E p \in {"mkdir", "identity", "start"} : Goto(p)
  BY DEF PrepareConsole, history, Ends, NativeTyped
<1>2. Quiet
  BY <1>1, StillWinding DEF Quiet
<1>3. ledger.processes = <<>> /\ barrier = FALSE /\ NoneReleased /\ inv.pc \in UpSteps
  BY <1>1 DEF PlaceInv, UpSteps, BarrierInv, BarrierStep, Preparing, RelayTurn
<1>4. CASE inv' = Idle /\ result' = "failed"
  <2>1. NativeTyped'
    BY <1>1, <1>4, IdleTyped DEF NativeTyped
  <2>2. QED
    BY <1>1, <1>2, <1>4, <2>1, InvocationEnds DEF OnlyOwnSignalled
<1>5. ASSUME NEW p \in {"mkdir", "identity", "start"}, Goto(p), result' = result PROVE NativeInv'
  <2>1. inv' \in InvocationRecord /\ inv'.pc = p
    BY <1>5, GotoFacts DEF UpSteps
  <2>2. NativeTyped'
    BY <1>1, <1>5, <2>1 DEF NativeTyped
  <2>3. ChildInv' /\ ~RelayTurn' /\ ~Stopping'
    BY <2>1 DEF ChildInv, RelayTurn, Stopping
  <2>4. DOMAIN ledger'.processes = {}
    BY <1>1, <1>3
  <2>5. SettledInv'
    <3>1. StartingUp
      BY <1>1 DEF StartingUp, RelayTurn
    <3>2. QED
      BY <1>1, <2>1, <2>4, <3>1 DEF SettledInv
  <2>6. BarrierStep'
    BY <1>1, <1>2, <1>3, <2>1, <2>3, QuietFacts DEF BarrierStep
  <2>7. Len(ledger.processes) < Len(Plan)
    BY <1>3, PlanFacts
  <2>8. QED
    BY <1>1, <1>2, <1>3, <1>5, <2>2, <2>3, <2>5, <2>6, <2>7, GoesOn DEF UpSteps, OnlyOwnSignalled
<1>6. QED
  BY <1>1, <1>4, <1>5

-----------------------------------------------------------------------------
\* The child that is awaited is the last in the ledger.
LEMMA AwaitedChild ==
  ASSUME NativeInv, inv.pc \in {"gate", "confirm", "readiness"}
  PROVE  /\ Len(ledger.processes) \in 1 .. Len(Plan) + 1 /\ Len(ledger.processes) \in DOMAIN ledger.processes
         /\ Child = ledger.processes[Len(ledger.processes)] /\ Child \in Own /\ Child \in Starts
         /\ procs[Child].name = NameAt(Len(ledger.processes))
<1> USE DEF NativeInv
<1>1. ledger.processes # <<>> /\ Newest(Last(ledger.processes)) /\ Len(ledger.processes) <= Len(Plan) + 1
  BY DEF ChildInv, LedgerInv
<1>2. Len(ledger.processes) \in 1 .. Len(Plan) + 1 /\ Len(ledger.processes) \in DOMAIN ledger.processes
  BY <1>1, NativeTypes, PlanFacts
<1>3. Child = ledger.processes[Len(ledger.processes)]
  BY <1>1, ChildIsNewest DEF Last
<1>4. QED
  BY <1>2, <1>3, RecordedAreOwn DEF LedgerInv

\* A confirmed start
LEMMA ConfirmKeeps == ASSUME NativeInv, Confirm PROVE NativeInv'
<1> USE DEF NativeInv
<1>1. /\ inv.pc = "confirm"
      /\ UNCHANGED <<startup, procs, log, ledger, barrier, pending, console, everReady, published, strangers, budget>>
      /\ \/ inv' = Idle /\ result' = "ready"
         \/ AfterStart # "done" /\ Goto(AfterStart) /\ result' = result
  BY DEF Confirm, history, Ends
<1>2. Quiet
  BY <1>1, StillWinding DEF Quiet
<1>3. CASE inv' = Idle /\ result' = "ready"
  <2>1. NativeTyped'
    BY <1>1, <1>3, IdleTyped DEF NativeTyped
  <2>2. QED
    BY <1>1, <1>2, <1>3, <2>1, InvocationEnds DEF OnlyOwnSignalled
<1>4. CASE AfterStart # "done" /\ Goto(AfterStart) /\ result' = result
  <2> DEFINE n == Len(ledger.processes)
  <2>1. /\ n \in 1 .. Len(Plan) + 1 /\ n \in DOMAIN ledger.processes /\ procs[Child].name = NameAt(n)
        /\ Newest(Last(ledger.processes)) /\ ledger.processes # <<>> /\ Len(Plan) \in Nat
    BY <1>1, AwaitedChild, PlanFacts DEF ChildInv
  <2>2. n <= Len(Plan)
    BY <1>4, <2>1, PlanFacts DEF AfterStart, NameAt
  <2>3. /\ AfterStart \in {"readiness", "start", "admit"}
        /\ AfterStart = "readiness" => startup = "all" \/ n = 1
        /\ AfterStart # "readiness" => startup # "all" /\ n # 1
        /\ AfterStart = "start" => n < Len(Plan)
        /\ AfterStart = "admit" => n = Len(Plan)
    <3>1. Started = n /\ procs[Child].name # Relay
      BY <1>4 DEF AfterStart, Started
    <3> HIDE DEF n
    <3>2. n \in Nat /\ (procs[Child].name = "platform" <=> n = 1)
      <4>1. NameAt(n) = "platform" <=> n = 1
        BY <2>1, NameFacts
      <4>2. n \in Nat
        BY <2>1
      <4>3. QED
        BY <2>1, <4>1, <4>2
    <3>3. QED
      BY <2>1, <2>2, <3>1, <3>2 DEF AfterStart
  <2>4. inv' \in InvocationRecord /\ inv'.pc = AfterStart
    BY <1>4, <2>3, GotoFacts DEF UpSteps
  <2>5. NativeTyped'
    BY <1>1, <1>4, <2>4 DEF NativeTyped
  <2>6. barrier = FALSE /\ NoneReleased /\ ~RelayTurn' /\ ~Stopping' /\ Preparing
    <3>1. ~RelayTurn /\ Preparing /\ ~RelayTurn' /\ ~Stopping'
      BY <1>1, <2>1, <2>2, <2>3, <2>4 DEF RelayTurn, Preparing, UpSteps, Stopping
    <3>2. QED
      BY <3>1 DEF BarrierInv, BarrierStep
  <2>7. ChildInv'
    <3>1. Newest(Last(ledger.processes))'
      BY <1>1, <2>1, WindingFacts, <1>2 DEF Newest, Quiet
    <3>2. QED
      BY <1>1, <2>1, <2>2, <2>3, <2>4, <3>1 DEF ChildInv
  <2>8. SettledInv'
    <3>1. \A i \in DOMAIN ledger.processes : Awaited(i)' => Awaited(i)
      <4>1. /\ n \in Nat \ {0} /\ n = Len(ledger.processes) /\ n = Len(ledger'.processes) /\ startup' = startup
            /\ inv.pc = "confirm" /\ DOMAIN ledger.processes = 1 .. n
        BY <1>1, <2>1, NativeTypes
      <4> HIDE DEF n
      <4>2. inv'.pc = "readiness" \/ (startup # "all" /\ n > 1)
        <5>1. inv'.pc = "readiness" \/ (startup # "all" /\ n # 1)
          BY <2>3, <2>4
        <5>2. n \in Nat /\ n # 0
          BY <4>1
        <5>3. QED
          BY <5>1, <5>2
      <4>3. SUFFICES ASSUME NEW i \in 1 .. n, Awaited(i)' PROVE Awaited(i)
        BY <4>1
      <4>4. (startup = "all" \/ i = 1) /\ i <= Len(Plan) /\ (i < n \/ inv'.pc # "readiness")
        BY <4>1, <4>3 DEF Awaited
      <4>5. i < n
        BY <4>1, <4>2, <4>4
      <4>6. QED
        BY <4>1, <4>4, <4>5 DEF Awaited
    <3>2. \A i \in DOMAIN ledger.processes :
            /\ Awaited(i) => ledger.processes[i] \in everReady
            /\ NameAt(i) \in Nodes /\ ledger.applications[NameAt(i)] = "ready" => ledger.processes[i] \in everReady
      BY <2>6 DEF SettledInv
    <3>3. StartingUp
      BY <1>1, <2>1, <2>2 DEF StartingUp, RelayTurn
    <3>4. QED
      BY <1>1, <2>3, <2>4, <3>1, <3>2, <3>3 DEF SettledInv
  <2>9. BarrierStep'
    BY <1>1, <1>2, <2>3, <2>4, <2>6, QuietFacts DEF BarrierStep
  <2>10. QED
    BY <1>1, <1>2, <1>4, <2>2, <2>3, <2>5, <2>7, <2>8, <2>9, GoesOn DEF UpSteps, OnlyOwnSignalled
<1>5. QED
  BY <1>1, <1>3, <1>4

\* The awaited process is ready.
LEMMA ReadinessKeeps == ASSUME NativeInv, Readiness PROVE NativeInv'
<1> USE DEF NativeInv
<1> DEFINE n == Len(ledger.processes)
           p == IF Started < Len(Plan) THEN "start" ELSE IF startup = "all" THEN "recheck" ELSE "admit"
<1>1. /\ inv.pc = "readiness" /\ Goto(p)
      /\ UNCHANGED <<startup, procs, log, ledger, barrier, pending, console, result, everReady, published, strangers, budget>>
      /\ procs[Child].phase = "ready" \/ log[procs[Child].name] = "ready"
  BY DEF Readiness, history
<1>2. Quiet
  BY <1>1, StillWinding DEF Quiet
<1>3. /\ n \in 1 .. Len(Plan) /\ n \in DOMAIN ledger.processes /\ Child = ledger.processes[n] /\ Child \in Own
      /\ procs[Child].name = NameAt(n) /\ (startup = "all" \/ n = 1) /\ Len(Plan) \in Nat
  BY <1>1, AwaitedChild, PlanFacts DEF ChildInv
<1>4. Child \in everReady
  BY <1>1, <1>3 DEF ProcessInv, LedgerInv
<1>5. /\ p \in {"start", "recheck", "admit"}
      /\ p = "start" => n < Len(Plan)
      /\ p # "start" => n = Len(Plan)
      /\ p = "recheck" => startup = "all"
  BY <1>3 DEF Started
<1> HIDE DEF p
<1>6. inv' \in InvocationRecord /\ inv'.pc = p
  BY <1>1, <1>5, GotoFacts DEF UpSteps
<1>7. NativeTyped'
  BY <1>1, <1>6 DEF NativeTyped
<1>8. barrier = FALSE /\ NoneReleased /\ ~RelayTurn' /\ ~Stopping' /\ Preparing
  <2>1. ~RelayTurn /\ Preparing /\ ~RelayTurn' /\ ~Stopping'
    BY <1>1, <1>5, <1>6 DEF RelayTurn, Preparing, UpSteps, Stopping
  <2>2. QED
    BY <2>1 DEF BarrierInv, BarrierStep
<1>9. ChildInv'
  BY <1>5, <1>6 DEF ChildInv
<1>10. SettledInv'
  <2>1. \A i \in DOMAIN ledger.processes : Awaited(i)' => Awaited(i) \/ i = n
    BY <1>1, <1>3, NativeTypes DEF Awaited
  <2>2. \A i \in DOMAIN ledger.processes :
          /\ Awaited(i) => ledger.processes[i] \in everReady
          /\ NameAt(i) \in Nodes /\ ledger.applications[NameAt(i)] = "ready" => ledger.processes[i] \in everReady
    BY <1>8 DEF SettledInv
  <2>3. startup' = "available" => inv'.pc \notin {"recheck", "publish", "rename"}
    BY <1>1, <1>5, <1>6
  <2>4. StartingUp
    BY <1>1 DEF StartingUp, RelayTurn
  <2>5. QED
    BY <1>1, <1>3, <1>4, <2>1, <2>2, <2>3, <2>4 DEF SettledInv
<1>11. BarrierStep'
  BY <1>1, <1>2, <1>5, <1>6, <1>8, QuietFacts DEF BarrierStep
<1>12. QED
  BY <1>1, <1>2, <1>5, <1>7, <1>9, <1>10, <1>11, GoesOn DEF UpSteps, OnlyOwnSignalled

\* An exit, a deadline or an error during up
LEMMA UpFailsKeeps == ASSUME NativeInv, StartFails \/ ReadinessExit \/ Fails PROVE NativeInv'
<1> USE DEF NativeInv
<1>1. /\ UNCHANGED <<startup, log, ledger, barrier, pending, console, result, everReady, published, strangers, budget>>
      /\ Goto("validate")
  BY DEF StartFails, ReadinessExit, Fails, history
<1>2. inv.op = "up"
  BY DEF StartFails, ReadinessExit, Fails, PlaceInv, UpSteps
<1>3. Winding
  <2>1. CASE StartFails
    <3>1. Child \in Starts
      <4>1. CASE inv.pc = "register"
        <5>1. PICK c \in Starts : Newest(c)
          BY <4>1 DEF ChildInv
        <5>2. QED
          BY <5>1, ChildIsNewest
      <4>2. CASE inv.pc \in {"gate", "confirm"}
        BY <4>2, AwaitedChild
      <4>3. QED
        BY <2>1, <4>1, <4>2 DEF StartFails
    <3>2. QED
      BY <2>1, <3>1, PhaseWinds DEF StartFails
  <2>2. CASE ReadinessExit
    BY <2>2, ReapedWinds DEF ReadinessExit
  <2>3. CASE Fails
    BY <2>3, StillWinding DEF Fails
  <2>4. QED
    BY <2>1, <2>2, <2>3
<1>4. Quiet
  BY <1>1, <1>3 DEF Quiet
<1>5. inv' \in InvocationRecord
  BY <1>1, GotoFacts DEF StopSteps
<1>6. NativeTyped'
  BY <1>1, <1>3, <1>5 DEF NativeTyped, Winding
<1>7. QED
  BY <1>1, <1>2, <1>4, <1>6, GivesUp DEF OnlyOwnSignalled

\* Every node is settled.
LEMMA AdmittedKeeps == ASSUME NativeInv, Admitted PROVE NativeInv'
<1> USE DEF NativeInv
<1>1. /\ inv.pc = "admit" /\ Goto("recheck") /\ Unsettled = {}
      /\ UNCHANGED <<startup, procs, log, ledger, barrier, pending, console, result, everReady, published, strangers, budget>>
  BY DEF Admitted, history
<1>2. Quiet
  BY <1>1, StillWinding DEF Quiet
<1>3. inv' \in InvocationRecord /\ inv'.pc = "recheck"
  BY <1>1, GotoFacts DEF UpSteps
<1>4. NativeTyped'
  BY <1>1, <1>3 DEF NativeTyped
<1>5. Len(ledger.processes) = Len(Plan)
  BY <1>1 DEF PlaceInv
<1>6. barrier = FALSE /\ NoneReleased /\ ~RelayTurn' /\ ~Stopping' /\ Preparing
  <2>1. ~RelayTurn /\ Preparing /\ ~RelayTurn' /\ ~Stopping'
    BY <1>1, <1>3 DEF RelayTurn, Preparing, UpSteps, Stopping
  <2>2. QED
    BY <2>1 DEF BarrierInv, BarrierStep
<1>7. ChildInv'
  BY <1>3 DEF ChildInv
<1>8. \A n \in Nodes : ledger.applications[n] # "none"
  <2> SUFFICES ASSUME NEW n \in Nodes PROVE ledger.applications[n] # "none"
    OBVIOUS
  <2>1. PICK i \in 1 .. Len(Plan) : Plan[i] = n
    BY PlanFacts DEF Nodes
  <2>2. i \in DOMAIN ledger.processes /\ NameAt(i) = n
    BY <1>5, <2>1, NativeTypes DEF NameAt
  <2>3. procs[ledger.processes[i]].name = n /\ ledger.processes[i] \in ToSet(ledger.processes)
    BY <2>2 DEF LedgerInv, ToSet
  <2>4. QED
    BY <1>1, <2>3 DEF Unsettled
<1>9. SettledInv'
  <2>1. \A i \in DOMAIN ledger.processes : Awaited(i)' => Awaited(i)
    BY <1>1 DEF Awaited
  <2>2. SettledInv
    OBVIOUS
  <2>3. ~StartingUp'
    BY <1>3 DEF StartingUp
  <2>4. QED
    BY <1>1, <1>6, <1>8, <2>1, <2>2, <2>3 DEF SettledInv
<1>10. BarrierStep'
  BY <1>1, <1>2, <1>3, <1>6, QuietFacts DEF BarrierStep
<1>11. QED
  BY <1>1, <1>2, <1>4, <1>5, <1>7, <1>9, <1>10, GoesOn DEF UpSteps, OnlyOwnSignalled

-----------------------------------------------------------------------------
\* down takes the lock, which no gated child holds any more.
LEMMA DownCallKeeps == ASSUME NativeInv, DownCall PROVE NativeInv'
<1> USE DEF NativeInv
<1>1. /\ Unlocked /\ result' = "none"
      /\ UNCHANGED <<startup, procs, log, ledger, barrier, pending, console, everReady, published, strangers>>
      /\ inv' = [op |-> "down", pc |-> "validate", run |-> 0, then |-> "pop"]
      /\ budget.downs > 0 /\ budget' = [budget EXCEPT !.downs = @ - 1]
  BY DEF DownCall, history
<1>2. Quiet
  BY <1>1, StillWinding DEF Quiet
<1>3. budget' \in BudgetRecord
  BY <1>1, NativeBounds DEF NativeTyped, BudgetRecord
<1>4. inv' \in InvocationRecord /\ inv'.op = "down" /\ inv'.pc = "validate" /\ inv' # Idle
  BY <1>1, NativeBounds DEF InvocationRecord, StopSteps, Idle
<1>5. NativeTyped'
  BY <1>1, <1>3, <1>4 DEF NativeTyped
<1>6. ~StopsLate' /\ ~RelayTurn' /\ ~Stopping' /\ ~Preparing'
  BY <1>4 DEF StopsLate, Stopping, RelayTurn, Preparing, UpSteps
<1>7. PlaceInv' /\ ChildInv' /\ SettledInv'
  BY <1>1, <1>4, <1>6 DEF PlaceInv, ChildInv, SettledInv, UpSteps, StartingUp
<1>8. BarrierStep'
  BY <1>4, <1>6 DEF BarrierStep
<1>9. StopInv' /\ OnlyOwnSignalled'
  <2>1. \A s \in Own : procs[s].phase # "gated"
    BY <1>1, NativeTypes DEF Unlocked
  <2>2. QED
    BY <1>1, <1>2, <1>4, <2>1, QuietFacts DEF StopInv, OnlyOwnSignalled
<1>10. QED
  BY <1>2, <1>5, <1>7, <1>8, <1>9, QuietMoves

\* The inventory is checked, and the barrier withdrawn.
LEMMA ValidateKeeps == ASSUME NativeInv, Validate PROVE NativeInv'
<1> USE DEF NativeInv
<1>1. /\ inv.pc = "validate" /\ Winding
      /\ UNCHANGED <<startup, log, ledger, pending, console, everReady, published, strangers, budget>>
      /\ \/ barrier' = FALSE /\ Goto("destroy") /\ result' = result
         \/ barrier' = barrier /\ inv' = Idle /\ result' = "failed"
  BY ReapedWinds DEF Validate, history, Ends, RemoveBarrier
<1>2. Quiet
  BY <1>1 DEF Quiet
<1>3. CASE barrier' = FALSE /\ Goto("destroy") /\ result' = result
  <2>1. inv' \in InvocationRecord /\ inv'.pc = "destroy" /\ inv'.op = inv.op /\ inv'.run = inv.run /\ inv' # Idle
    BY <1>3, GotoFacts DEF StopSteps
  <2>2. NativeTyped'
    BY <1>1, <1>3, <2>1 DEF NativeTyped, Winding
  <2>3. ~StopsLate' /\ ~RelayTurn' /\ ~Stopping' /\ ~Preparing'
    BY <2>1 DEF StopsLate, Stopping, RelayTurn, Preparing, UpSteps
  <2>4. inv # Idle
    BY <1>1, IdleTyped
  <2>5. PlaceInv'
    <3>1. PlaceInv /\ ledger'.processes = ledger.processes
      BY <1>1
    <3>2. QED
      BY <1>2, <2>1, <2>3, <2>4, <3>1, QuietFacts DEF PlaceInv, UpSteps
  <2>6. ChildInv' /\ SettledInv'
    BY <2>1, <2>3 DEF ChildInv, SettledInv, StartingUp
  <2>7. BarrierStep'
    BY <1>3, <2>1, <2>3 DEF BarrierStep
  <2>8. StopInv'
    <3>1. inv.op = "down" => \A s \in Own : procs'[s].phase # "gated"
      BY <1>1, NativeTypes DEF StopInv, Winding
    <3>2. result' # "stopped"
      BY <1>3, <2>4 DEF StopInv
    <3>3. QED
      BY <1>2, <2>1, <3>1, <3>2, QuietFacts DEF StopInv
  <2>9. QED
    BY <1>1, <1>2, <2>2, <2>5, <2>6, <2>7, <2>8, QuietMoves DEF OnlyOwnSignalled
<1>4. CASE barrier' = barrier /\ inv' = Idle /\ result' = "failed"
  <2>1. NativeTyped'
    BY <1>1, <1>4, IdleTyped DEF NativeTyped, Winding
  <2>2. QED
    BY <1>1, <1>2, <1>4, <2>1, InvocationEnds DEF OnlyOwnSignalled
<1>5. QED
  BY <1>1, <1>3, <1>4

-----------------------------------------------------------------------------
\* Processes that go on: one changes its phase.
LEMMA PhaseKeeps ==
  ASSUME NativeTyped, NEW s \in Starts, NEW p \in Phases, procs' = Phase(s, p)
  PROVE  /\ Keeping /\ Len(procs') = Len(procs) /\ Starts' = Starts /\ Own' = Own
         /\ procs'[s].phase = p /\ \A t \in Starts : t # s => procs'[t] = procs[t]
<1>1. \A t \in Starts : procs'[t] = IF t = s THEN [procs[t] EXCEPT !.phase = p] ELSE procs[t]
  BY NativeTypes DEF Phase
<1>2. \A t \in Starts : procs'[t] \in ProcessRecord
  BY <1>1, NativeTypes DEF ProcessRecord
<1>3. DOMAIN procs' = Starts
  BY NativeTypes DEF Phase
<1>4. procs' \in Seq(ProcessRecord) /\ Len(procs') = Len(procs)
  <2>1. procs' = [t \in 1 .. Len(procs) |-> procs'[t]]
    BY <1>3 DEF Phase, Starts
  <2>2. QED
    BY <1>2, <2>1, NativeTypes, IsASeq DEF Starts
<1>5. Starts' = Starts
  BY <1>4 DEF Starts
<1>6. \A t \in Starts : procs'[t].name = procs[t].name /\ procs'[t].pid = procs[t].pid /\ procs'[t].run = procs[t].run
  BY <1>1, NativeTypes DEF ProcessRecord
<1>7. Own' = Own
  BY <1>5, <1>6 DEF Own
<1>8. Keeping
  BY <1>4, <1>6, NativeTypes DEF Keeping
<1>9. procs'[s].phase = p
  BY <1>1, NativeTypes DEF ProcessRecord
<1>10. QED
  BY <1>1, <1>4, <1>5, <1>7, <1>8, <1>9

\* One is started.
LEMMA AppendKeeps ==
  ASSUME NativeTyped, NEW x \in ProcessRecord, procs' = Append(procs, x)
  PROVE  /\ Keeping /\ Len(procs') = Len(procs) + 1 /\ Starts' = Starts \cup {Len(procs) + 1}
         /\ procs'[Len(procs) + 1] = x /\ \A t \in Starts : procs'[t] = procs[t]
<1>1. procs \in Seq(ProcessRecord) /\ Len(procs) \in Nat
  BY NativeTypes DEF NativeTyped
<1>2. procs' \in Seq(ProcessRecord) /\ Len(procs') = Len(procs) + 1
  BY <1>1
<1>3. procs'[Len(procs) + 1] = x /\ \A t \in Starts : procs'[t] = procs[t]
  BY <1>1 DEF Starts
<1>4. Starts' = Starts \cup {Len(procs) + 1}
  BY <1>1, <1>2 DEF Starts
<1>5. Len(procs') >= Len(procs)
  BY <1>1, <1>2
<1>6. Keeping
  BY <1>2, <1>3, <1>5 DEF Keeping
<1>7. QED
  BY <1>2, <1>3, <1>4, <1>6

\* The invocation stands, or has opened the gate.
SameStep == inv' = inv \/ (inv.pc = "gate" /\ Goto("confirm"))
LEMMA SameStepFacts ==
  ASSUME NativeInv, SameStep, ledger' = ledger
  PROVE  /\ inv' \in InvocationRecord
         /\ inv'.op = inv.op /\ inv'.run = inv.run /\ inv'.then = inv.then
         /\ inv'.pc = inv.pc \/ (inv.pc = "gate" /\ inv'.pc = "confirm")
         /\ (inv'.pc = "idle" <=> inv' = Idle) /\ (inv' = Idle <=> inv = Idle)
         /\ StopsLate' = StopsLate /\ Stopping' = Stopping /\ Preparing' = Preparing
         /\ NextName' = NextName /\ RelayTurn' = RelayTurn /\ StartingUp' = StartingUp
<1> USE DEF NativeInv
<1>1. CASE inv' = inv
  <2>1. inv.pc = "idle" <=> inv = Idle
    BY DEF PlaceInv
  <2>2. inv \in InvocationRecord
    BY DEF NativeTyped
  <2>3. QED
    BY <1>1, <2>1, <2>2 DEF StopsLate, Stopping, Preparing, NextName, Started, RelayTurn, StartingUp
<1>2. CASE inv.pc = "gate" /\ Goto("confirm")
  <2>1. /\ inv' \in InvocationRecord /\ inv'.op = inv.op /\ inv'.run = inv.run /\ inv'.then = inv.then
        /\ inv'.pc = "confirm" /\ inv' # Idle /\ inv # Idle
    BY <1>2, GotoFacts, IdleTyped DEF UpSteps
  <2>2. QED
    BY <1>2, <2>1 DEF StopsLate, Stopping, Preparing, NextName, Started, RelayTurn, StartingUp, UpSteps
<1>3. QED
  BY <1>1, <1>2 DEF SameStep

\* What the records say of the processes survives what happens to these.
LEMMA RecordsStand ==
  ASSUME NativeInv, Keeping, Own' = Own, SameStep, UNCHANGED <<startup, ledger, barrier, published>>,
         everReady \subseteq everReady',
         \A i \in DOMAIN ledger.processes : log'[NameAt(i)] = "ready" => ledger.processes[i] \in everReady',
         inv.pc = "register" => log'[NextName] # "ready"
  PROVE  /\ LedgerInv' /\ PlaceInv' /\ ChildInv' /\ SettledInv' /\ BarrierPassed'
         /\ (NoneReleased => NoneReleased') => BarrierStep'
         /\ \A r : Passed(r) => Passed(r)'
         /\ \A s \in Own : procs'[s].name = procs[s].name /\ procs'[s].run = procs[s].run
<1> USE DEF NativeInv
<1>1. \A s \in Starts : procs'[s].name = procs[s].name /\ procs'[s].run = procs[s].run
  BY DEF Keeping
<1>2. Own \subseteq Starts
  BY NativeTypes
<1>3. \A i \in DOMAIN ledger.processes : ledger.processes[i] \in Own /\ ledger.processes[i] \in Starts
  BY RecordedAreOwn
<1>4. \A r : Passed(r) => Passed(r)'
  BY PassedKept
<1>5. LedgerInv'
  <2>1. LedgerInv
    OBVIOUS
  <2>2. QED
    BY <1>1, <1>3, <2>1 DEF LedgerInv, IsInjective
<1>6. PlaceInv'
  <2>1. PlaceInv
    OBVIOUS
  <2>2. \A s \in ToSet(ledger.processes) : s \in Starts
    BY RecordedAreOwn DEF ToSet
  <2>3. QED
    BY <1>1, <1>3, <2>1, <2>2, SameStepFacts DEF PlaceInv, UpSteps
<1>7. \A c : Newest(c) => Newest(c)'
  BY DEF Newest
<1>8. ChildInv'
  <2>1. CASE inv.pc = "register"
    <3>1. inv'.pc = "register" /\ inv'.run = inv.run /\ NextName' = NextName
      BY <2>1, SameStepFacts
    <3>2. PICK c \in Starts : /\ Newest(c) /\ c \notin ToSet(ledger.processes)
                              /\ procs[c].name = NextName /\ procs[c].run = inv.run
      BY <2>1 DEF ChildInv
    <3>3. c \in Starts' /\ Newest(c)'
      BY <1>7, <3>2 DEF Newest, Own
    <3>4. Len(ledger.processes) <= Len(Plan)
      BY <2>1 DEF ChildInv
    <3>5. QED
      BY <1>1, <2>1, <3>1, <3>2, <3>3, <3>4 DEF ChildInv
  <2>2. CASE inv.pc # "register"
    <3>1. ChildInv
      OBVIOUS
    <3>2. QED
      BY <1>7, <2>2, <3>1, SameStepFacts DEF ChildInv
  <2>3. QED
    BY <2>1, <2>2
<1>9. SettledInv'
  <2>1. SettledInv
    OBVIOUS
  <2>2. \A i \in DOMAIN ledger.processes : Awaited(i)' => Awaited(i)
    BY SameStepFacts DEF Awaited
  <2>3. QED
    BY <2>1, <2>2, SameStepFacts DEF SettledInv
<1>10. BarrierPassed'
  <2>1. BarrierPassed
    BY DEF BarrierInv
  <2>2. QED
    BY <1>1, <1>3, <1>4, <2>1 DEF BarrierPassed
<1>11. (NoneReleased => NoneReleased') => BarrierStep'
  <2>1. BarrierStep
    BY DEF BarrierInv
  <2>2. QED
    BY <1>4, <2>1, SameStepFacts DEF BarrierStep
<1>12. QED
  BY <1>1, <1>2, <1>4, <1>5, <1>6, <1>8, <1>9, <1>10, <1>11

\* execve and the platform's detour
LEMMA AdvanceKeeps == ASSUME NativeInv, NEW s \in Starts, Advance(s) PROVE NativeInv'
<1> USE DEF NativeInv
<1>1. PICK p \in {"up", "handoff", "serving"} : procs[s].phase \in {"entering", "up", "handoff"} /\ procs' = Phase(s, p)
  BY DEF Advance
<1>2. UNCHANGED <<startup, log, ledger, barrier, pending, console, inv, result, everReady, published, strangers, budget>>
  BY DEF Advance, history
<1>3. /\ Keeping /\ Len(procs') = Len(procs) /\ Starts' = Starts /\ Own' = Own
      /\ procs'[s].phase = p /\ \A t \in Starts : t # s => procs'[t] = procs[t]
  BY <1>1, PhaseKeeps DEF Phases, Live
<1>4. SameStep /\ Own \subseteq Starts
  BY <1>2, NativeTypes DEF SameStep
<1>5. NativeTyped'
  BY <1>2, <1>3 DEF NativeTyped, Keeping
<1>6. \A t \in Starts : t # s => procs'[t].phase = procs[t].phase
  BY <1>3
<1>7. ProcessInv'
  <2>1. ProcessInv
    OBVIOUS
  <2>2. \A t \in Starts : procs'[t].pid = procs[t].pid /\ (procs'[t].phase # "gone" => procs[t].phase # "gone")
                          /\ (procs'[t].phase \in {"ready", "released"} => procs[t].phase \in {"ready", "released"})
    BY <1>1, <1>3, <1>6 DEF Keeping
  <2>3. QED
    BY <1>2, <1>3, <1>4, <2>1, <2>2 DEF ProcessInv
<1>8. \A i \in DOMAIN ledger.processes : log'[NameAt(i)] = "ready" => ledger.processes[i] \in everReady'
  BY <1>2 DEF LedgerInv
<1>9. inv.pc = "register" => log'[NextName] # "ready"
  BY <1>2 DEF ChildInv
<1>10. /\ LedgerInv' /\ PlaceInv' /\ ChildInv' /\ SettledInv' /\ BarrierPassed'
       /\ (NoneReleased => NoneReleased') => BarrierStep'
       /\ \A r : Passed(r) => Passed(r)'
       /\ \A t \in Own : procs'[t].run = procs[t].run
  BY <1>2, <1>3, <1>4, <1>8, <1>9, RecordsStand
<1>11. NoneReleased => NoneReleased'
  BY <1>3, <1>4, <1>6 DEF NoneReleased
<1>12. ReleasedPassed'
  BY <1>3, <1>4, <1>6, <1>10 DEF ReleasedPassed, BarrierInv
<1>13. StopInv'
  <2>1. StopInv
    OBVIOUS
  <2>2. \A t \in Own : procs'[t].phase = "gated" => procs[t].phase = "gated"
    BY <1>3, <1>4, <1>6
  <2>3. \A t \in Own : procs'[t].phase \in Live => procs[t].phase \in Live
    BY <1>1, <1>4, <1>6 DEF Live
  <2>4. QED
    BY <1>2, <1>3, <2>1, <2>2, <2>3 DEF StopInv
<1>14. NothingUnrecorded'
  <2>1. \A t \in Own : procs'[t].phase \in Live \ {"gated"} => procs[t].phase \in Live \ {"gated"}
    BY <1>1, <1>4, <1>6 DEF Live
  <2>2. QED
    BY <1>2, <1>3, <2>1 DEF NothingUnrecorded
<1>15. OnlyOwnSignalled'
  BY <1>2 DEF OnlyOwnSignalled
<1>16. QED
  BY <1>5, <1>7, <1>10, <1>11, <1>12, <1>13, <1>14, <1>15 DEF BarrierInv

\* A process past its gate has its place in the ledger.
LEMMA ItsPlace ==
  ASSUME NativeInv, NEW s \in Own, procs[s].phase \in Live \ {"gated"}
  PROVE  \E i \in DOMAIN ledger.processes :
           /\ ledger.processes[i] = s /\ i \in 1 .. Len(Plan) + 1 /\ procs[s].name = NameAt(i)
<1> USE DEF NativeInv
<1>1. PICK i \in DOMAIN ledger.processes : ledger.processes[i] = s
  BY DEF NothingUnrecorded, ToSet
<1>2. i \in 1 .. Len(ledger.processes) /\ Len(ledger.processes) <= Len(Plan) + 1
  BY <1>1, NativeTypes DEF LedgerInv
<1>3. i \in 1 .. Len(Plan) + 1
  BY <1>2, NativeTypes, PlanFacts
<1>4. QED
  BY <1>1, <1>3 DEF LedgerInv

\* The platform answers its probe, a node prints its ready line.
LEMMA BecomesReadyKeeps == ASSUME NativeInv, NEW s \in Starts, BecomesReady(s) PROVE NativeInv'
<1> USE DEF NativeInv
<1>1. /\ procs[s].name \in ToSet(Plan) /\ procs[s].phase \in {"serving", "up"} /\ procs' = Phase(s, "ready")
      /\ log' = [log EXCEPT ![procs[s].name] = "ready"] /\ everReady' = everReady \cup {s}
      /\ UNCHANGED <<startup, ledger, barrier, pending, console, inv, result, published, strangers, budget>>
  <2>1. "platform" \in ToSet(Plan)
    BY PlanFacts
  <2>2. QED
    BY <2>1 DEF BecomesReady, Nodes
<1>2. s \in Own
  BY <1>1, PlanFacts DEF Own
<1>3. PICK i \in DOMAIN ledger.processes :
        ledger.processes[i] = s /\ i \in 1 .. Len(Plan) + 1 /\ procs[s].name = NameAt(i)
  BY <1>1, <1>2, ItsPlace DEF Live
<1>4. /\ Keeping /\ Len(procs') = Len(procs) /\ Starts' = Starts /\ Own' = Own
      /\ procs'[s].phase = "ready" /\ \A t \in Starts : t # s => procs'[t] = procs[t]
  BY <1>1, PhaseKeeps DEF Phases, Live
<1>5. SameStep /\ Own \subseteq Starts
  BY <1>1, NativeTypes DEF SameStep
<1>6. log \in [Names -> {"absent", "empty", "ready"}]
  BY DEF NativeTyped
<1>7. NativeTyped'
  BY <1>1, <1>4, <1>6 DEF NativeTyped, Keeping
<1>8. \A t \in Starts : t # s => procs'[t].phase = procs[t].phase
  BY <1>4
<1>9. ProcessInv'
  <2>1. ProcessInv
    OBVIOUS
  <2>2. \A t \in Starts : procs'[t].pid = procs[t].pid /\ (procs'[t].phase # "gone" => procs[t].phase # "gone")
    BY <1>1, <1>4, <1>8 DEF Keeping
  <2>3. QED
    BY <1>1, <1>2, <1>4, <1>5, <1>8, <2>1, <2>2 DEF ProcessInv
<1>10. \A n : n # NameAt(i) => log'[n] = log[n]
  BY <1>1, <1>3, <1>6
<1>11. \A j \in DOMAIN ledger.processes : log'[NameAt(j)] = "ready" => ledger.processes[j] \in everReady'
  <2> SUFFICES ASSUME NEW j \in DOMAIN ledger.processes, log'[NameAt(j)] = "ready" PROVE ledger.processes[j] \in everReady'
    OBVIOUS
  <2>1. j \in 1 .. Len(Plan) + 1
    BY NativeTypes, PlanFacts DEF LedgerInv
  <2>2. CASE j = i
    BY <1>1, <1>3, <2>2
  <2>3. CASE j # i
    <3>1. NameAt(j) # NameAt(i)
      BY <1>3, <2>1, <2>3, NameFacts
    <3>2. QED
      BY <1>1, <1>10, <3>1 DEF LedgerInv
  <2>4. QED
    BY <2>2, <2>3
<1>12. inv.pc = "register" => log'[NextName] # "ready"
  <2> SUFFICES ASSUME inv.pc = "register" PROVE log'[NextName] # "ready"
    OBVIOUS
  <2> DEFINE n == Len(ledger.processes)
  <2>1. n \in Nat /\ Len(Plan) \in Nat /\ n <= Len(Plan) /\ i \in 1 .. n /\ log[NextName] # "ready"
    BY <1>3, NativeTypes, PlanFacts DEF ChildInv
  <2>2. NextName = NameAt(n + 1)
    BY <2>1 DEF NextName, Started, NameAt, Relay
  <2> HIDE DEF n
  <2>3. n + 1 \in 1 .. Len(Plan) + 1 /\ i # n + 1
    BY <2>1
  <2>4. NameAt(n + 1) # NameAt(i)
    BY <1>3, <2>3, NameFacts
  <2>5. QED
    BY <1>10, <2>1, <2>2, <2>4
<1>13. /\ LedgerInv' /\ PlaceInv' /\ ChildInv' /\ SettledInv' /\ BarrierPassed'
       /\ (NoneReleased => NoneReleased') => BarrierStep'
       /\ \A r : Passed(r) => Passed(r)'
       /\ \A t \in Own : procs'[t].run = procs[t].run
  BY <1>1, <1>4, <1>5, <1>11, <1>12, RecordsStand
<1>14. NoneReleased => NoneReleased'
  BY <1>4, <1>5, <1>8 DEF NoneReleased
<1>15. ReleasedPassed'
  BY <1>4, <1>5, <1>8, <1>13 DEF ReleasedPassed, BarrierInv
<1>16. StopInv'
  <2>1. StopInv
    OBVIOUS
  <2>2. \A t \in Own : procs'[t].phase = "gated" => procs[t].phase = "gated"
    BY <1>4, <1>5, <1>8
  <2>3. \A t \in Own : procs'[t].phase \in Live => procs[t].phase \in Live
    BY <1>1, <1>5, <1>8 DEF Live
  <2>4. QED
    BY <1>1, <1>4, <2>1, <2>2, <2>3 DEF StopInv
<1>17. NothingUnrecorded'
  <2>1. \A t \in Own : procs'[t].phase \in Live \ {"gated"} => procs[t].phase \in Live \ {"gated"}
    BY <1>1, <1>5, <1>8 DEF Live
  <2>2. QED
    BY <1>1, <1>4, <2>1 DEF NothingUnrecorded
<1>18. OnlyOwnSignalled'
  BY <1>1 DEF OnlyOwnSignalled
<1>19. QED
  BY <1>7, <1>9, <1>13, <1>14, <1>15, <1>16, <1>17, <1>18 DEF BarrierInv

\* A node finds the barrier: only a passed run has one.
LEMMA ReleasedKeeps == ASSUME NativeInv, NEW s \in Starts, Released(s) PROVE NativeInv'
<1> USE DEF NativeInv
<1>1. /\ procs[s].name \in Nodes /\ procs[s].phase = "ready" /\ procs' = Phase(s, "released")
      /\ UNCHANGED <<startup, log, ledger, barrier, pending, console, inv, result, everReady, published, strangers, budget>>
  BY DEF Released, history
<1>2. barrier = TRUE
  <2>1. barrier \in BOOLEAN /\ barrier
    BY DEF Released, NativeTyped
  <2>2. QED
    BY <2>1, Zenon
<1>3. s \in Own
  BY <1>1, NameFacts DEF Own
<1>4. PICK i \in DOMAIN ledger.processes : ledger.processes[i] = s
  BY <1>1, <1>3, ItsPlace DEF Live
<1>5. /\ Keeping /\ Len(procs') = Len(procs) /\ Starts' = Starts /\ Own' = Own
      /\ procs'[s].phase = "released" /\ \A t \in Starts : t # s => procs'[t] = procs[t]
  BY <1>1, PhaseKeeps DEF Phases, Live
<1>6. SameStep /\ Own \subseteq Starts
  BY <1>1, NativeTypes DEF SameStep
<1>7. NativeTyped'
  BY <1>1, <1>5 DEF NativeTyped, Keeping
<1>8. \A t \in Starts : t # s => procs'[t].phase = procs[t].phase
  BY <1>5
<1>9. ProcessInv'
  <2>1. ProcessInv
    OBVIOUS
  <2>2. \A t \in Starts : procs'[t].pid = procs[t].pid /\ (procs'[t].phase # "gone" => procs[t].phase # "gone")
                          /\ (procs'[t].phase \in {"ready", "released"} => procs[t].phase \in {"ready", "released"})
    BY <1>1, <1>5, <1>8 DEF Keeping
  <2>3. QED
    BY <1>1, <1>5, <1>6, <2>1, <2>2 DEF ProcessInv
<1>10. \A j \in DOMAIN ledger.processes : log'[NameAt(j)] = "ready" => ledger.processes[j] \in everReady'
  BY <1>1 DEF LedgerInv
<1>11. inv.pc = "register" => log'[NextName] # "ready"
  BY <1>1 DEF ChildInv
<1>12. /\ LedgerInv' /\ PlaceInv' /\ ChildInv' /\ SettledInv' /\ BarrierPassed'
       /\ \A r : Passed(r) => Passed(r)'
       /\ \A t \in Own : procs'[t].run = procs[t].run
  BY <1>1, <1>5, <1>6, <1>10, <1>11, RecordsStand
<1>13. BarrierStep'
  <2>1. BarrierStep
    BY DEF BarrierInv
  <2>2. QED
    BY <1>1, <1>2, <1>6, <1>12, <2>1, SameStepFacts DEF BarrierStep
<1>14. ReleasedPassed'
  <2>1. Passed(procs[s].run)
    BY <1>2, <1>4 DEF BarrierInv, BarrierPassed
  <2>2. ReleasedPassed
    BY DEF BarrierInv
  <2>3. QED
    BY <1>5, <1>6, <1>8, <1>12, <2>1, <2>2 DEF ReleasedPassed
<1>15. StopInv'
  <2>1. StopInv
    OBVIOUS
  <2>2. \A t \in Own : procs'[t].phase = "gated" => procs[t].phase = "gated"
    BY <1>5, <1>6, <1>8
  <2>3. \A t \in Own : procs'[t].phase \in Live => procs[t].phase \in Live
    BY <1>1, <1>6, <1>8 DEF Live
  <2>4. QED
    BY <1>1, <1>5, <2>1, <2>2, <2>3 DEF StopInv
<1>16. NothingUnrecorded'
  <2>1. \A t \in Own : procs'[t].phase \in Live \ {"gated"} => procs[t].phase \in Live \ {"gated"}
    BY <1>1, <1>6, <1>8 DEF Live
  <2>2. QED
    BY <1>1, <1>5, <2>1 DEF NothingUnrecorded
<1>17. OnlyOwnSignalled'
  BY <1>1 DEF OnlyOwnSignalled
<1>18. QED
  BY <1>7, <1>9, <1>12, <1>13, <1>14, <1>15, <1>16, <1>17 DEF BarrierInv

\* The registered child leaves its gate.
LEMMA OpenGateKeeps == ASSUME NativeInv, OpenGate PROVE NativeInv'
<1> USE DEF NativeInv
<1>1. /\ inv.pc = "gate" /\ Goto("confirm")
      /\ procs' = procs \/ (procs[Child].phase = "gated" /\ procs' = Phase(Child, "entering"))
      /\ UNCHANGED <<startup, log, ledger, barrier, pending, console, result, everReady, published, strangers, budget>>
  BY DEF OpenGate, history
<1>2. Child \in ToSet(ledger.processes) /\ Child \in Starts /\ Child \in Own
  BY <1>1, AwaitedChild DEF ToSet
<1>3. /\ Keeping /\ Len(procs') = Len(procs) /\ Starts' = Starts /\ Own' = Own
      /\ \A t \in Starts : /\ procs'[t].phase = procs[t].phase
                               \/ (t = Child /\ procs[t].phase = "gated" /\ procs'[t].phase = "entering")
  <2>1. CASE procs' = procs
    <3>1. Winding
      BY <2>1, StillWinding
    <3>2. QED
      BY <2>1, <3>1, WindingFacts
  <2>2. CASE procs[Child].phase = "gated" /\ procs' = Phase(Child, "entering")
    <3>1. /\ Keeping /\ Len(procs') = Len(procs) /\ Starts' = Starts /\ Own' = Own
          /\ procs'[Child].phase = "entering" /\ \A t \in Starts : t # Child => procs'[t] = procs[t]
      BY <1>2, <2>2, PhaseKeeps DEF Phases, Live
    <3>2. QED
      BY <2>2, <3>1
  <2>3. QED
    BY <1>1, <2>1, <2>2
<1>4. SameStep /\ Own \subseteq Starts
  BY <1>1, NativeTypes DEF SameStep
<1>5. NativeTyped'
  BY <1>1, <1>3, <1>4, SameStepFacts DEF NativeTyped, Keeping
<1>6. ProcessInv'
  <2>1. ProcessInv
    OBVIOUS
  <2>2. \A t \in Starts : procs'[t].pid = procs[t].pid /\ (procs'[t].phase # "gone" => procs[t].phase # "gone")
                          /\ (procs'[t].phase \in {"ready", "released"} => procs[t].phase \in {"ready", "released"})
    BY <1>3 DEF Keeping
  <2>3. QED
    BY <1>1, <1>3, <1>4, <2>1, <2>2 DEF ProcessInv
<1>7. \A j \in DOMAIN ledger.processes : log'[NameAt(j)] = "ready" => ledger.processes[j] \in everReady'
  BY <1>1 DEF LedgerInv
<1>8. inv.pc # "register"
  BY <1>1
<1>9. /\ LedgerInv' /\ PlaceInv' /\ ChildInv' /\ SettledInv' /\ BarrierPassed'
      /\ (NoneReleased => NoneReleased') => BarrierStep'
      /\ \A r : Passed(r) => Passed(r)'
      /\ \A t \in Own : procs'[t].run = procs[t].run
  BY <1>1, <1>3, <1>4, <1>7, <1>8, RecordsStand
<1>10. NoneReleased => NoneReleased'
  BY <1>3, <1>4 DEF NoneReleased
<1>11. ReleasedPassed'
  BY <1>3, <1>4, <1>9 DEF ReleasedPassed, BarrierInv
<1>12. StopInv'
  <2>1. inv.op = "up" /\ inv # Idle
    BY <1>1, IdleTyped DEF PlaceInv, UpSteps
  <2>2. QED
    BY <1>1, <1>4, <2>1, SameStepFacts DEF StopInv
<1>13. NothingUnrecorded'
  <2>1. \A t \in Own : procs'[t].phase \in Live \ {"gated"} => procs[t].phase \in Live \ {"gated"} \/ t = Child
    BY <1>3, <1>4
  <2>2. QED
    BY <1>1, <1>2, <1>3, <2>1 DEF NothingUnrecorded
<1>14. OnlyOwnSignalled'
  BY <1>1 DEF OnlyOwnSignalled
<1>15. QED
  BY <1>5, <1>6, <1>9, <1>10, <1>11, <1>12, <1>13, <1>14 DEF BarrierInv

\* Somebody else's process gets a freed PID.
LEMMA ForeignStartsKeeps == ASSUME NativeInv, ForeignStarts PROVE NativeInv'
<1> USE DEF NativeInv
<1>1. PICK pid \in FreePids : procs' = Append(procs, [name |-> Foreign, pid |-> pid, phase |-> "up", run |-> 0])
  BY DEF ForeignStarts
<1>2. /\ Len(procs) < MaxStarts
      /\ UNCHANGED <<startup, log, ledger, barrier, pending, console, inv, result, everReady, published, strangers, budget>>
  BY DEF ForeignStarts, history
<1> DEFINE x == [name |-> Foreign, pid |-> pid, phase |-> "up", run |-> 0]
           c == Len(procs) + 1
<1>3. x \in ProcessRecord /\ x.name = Foreign /\ x.pid = pid
  BY <1>1, NativeBounds DEF FreePids, ProcessRecord, Phases, Live
<1>4. /\ Keeping /\ Len(procs') = Len(procs) + 1 /\ Starts' = Starts \cup {c}
      /\ procs'[c] = x /\ \A t \in Starts : procs'[t] = procs[t]
  <2> HIDE DEF x
  <2>1. procs' = Append(procs, x)
    BY <1>1 DEF x
  <2>2. QED
    BY <1>3, <2>1, AppendKeeps
<1>5. \A t \in Starts : procs[t].pid = pid => procs[t].phase = "gone"
  BY DEF FreePids
<1> HIDE DEF x, c
<1>6. Own' = Own
  BY <1>3, <1>4 DEF Own
<1>7. SameStep /\ Own \subseteq Starts
  BY <1>2, NativeTypes DEF SameStep
<1>8. NativeTyped'
  <2>1. Len(procs') <= MaxStarts
    BY <1>2, <1>4, NativeTypes, NativeBounds
  <2>2. QED
    BY <1>2, <1>4, <2>1 DEF NativeTyped, Keeping
<1>9. ProcessInv'
  <2>1. ProcessInv
    OBVIOUS
  <2>2. QED
    BY <1>2, <1>3, <1>4, <1>5, <1>6, <1>7, <2>1 DEF ProcessInv
<1>10. \A j \in DOMAIN ledger.processes : log'[NameAt(j)] = "ready" => ledger.processes[j] \in everReady'
  BY <1>2 DEF LedgerInv
<1>11. inv.pc = "register" => log'[NextName] # "ready"
  BY <1>2 DEF ChildInv
<1>12. /\ LedgerInv' /\ PlaceInv' /\ ChildInv' /\ SettledInv' /\ BarrierPassed'
       /\ (NoneReleased => NoneReleased') => BarrierStep'
       /\ \A r : Passed(r) => Passed(r)'
  BY <1>2, <1>4, <1>6, <1>7, <1>10, <1>11, RecordsStand
<1>13. NoneReleased => NoneReleased'
  BY <1>4, <1>6, <1>7 DEF NoneReleased
<1>14. ReleasedPassed'
  BY <1>4, <1>6, <1>7, <1>12 DEF ReleasedPassed, BarrierInv
<1>15. StopInv'
  BY <1>2, <1>4, <1>6, <1>7 DEF StopInv
<1>16. NothingUnrecorded' /\ OnlyOwnSignalled'
  BY <1>2, <1>4, <1>6, <1>7 DEF NothingUnrecorded, OnlyOwnSignalled
<1>17. QED
  BY <1>8, <1>9, <1>12, <1>13, <1>14, <1>15, <1>16 DEF BarrierInv

-----------------------------------------------------------------------------
\* The name of the process that is started next
LEMMA NextNameIs ==
  ASSUME NativeTyped, Len(ledger.processes) <= Len(Plan)
  PROVE  /\ NextName = NameAt(Len(ledger.processes) + 1) /\ NextName \in Names /\ NextName # Foreign
         /\ Len(ledger.processes) + 1 \in 1 .. Len(Plan) + 1
<1> DEFINE n == Len(ledger.processes)
<1>1. n \in Nat /\ Len(Plan) \in Nat /\ n <= Len(Plan) /\ Started = n
  BY NativeTypes, PlanFacts DEF Started
<1> HIDE DEF n
<1>2. NextName = NameAt(n + 1)
  BY <1>1 DEF NextName, NameAt
<1>3. n + 1 \in 1 .. Len(Plan) + 1
  BY <1>1
<1>4. QED
  BY <1>1, <1>2, <1>3, NameFacts DEF n

\* fork: the newest process, behind its gate, not in the ledger yet
LEMMA ForkKeeps == ASSUME NativeInv, Fork PROVE NativeInv'
<1> USE DEF NativeInv
<1>1. /\ inv.pc \in {"start", "relay"} /\ Len(procs) < MaxStarts /\ log' = Rotated(NextName) /\ Goto("register")
      /\ UNCHANGED <<startup, ledger, barrier, pending, console, result, everReady, published, strangers, budget>>
  BY DEF Fork, history
<1>2. PICK pid \in FreePids : procs' = Spawned(NextName, pid)
  BY DEF Fork
<1> DEFINE x == [name |-> NextName, pid |-> pid, phase |-> "gated", run |-> inv.run]
<1>0. PICK c : c = Len(procs) + 1
  OBVIOUS
<1>3. /\ inv' \in InvocationRecord /\ inv' # Idle /\ inv # Idle /\ inv.op = "up" /\ inv.run > 0 /\ inv.then = "pop"
      /\ inv'.pc = "register" /\ inv'.op = "up" /\ inv'.run = inv.run /\ inv'.then = "pop" /\ inv.run \in 0 .. MaxUps
  <2>1. inv # Idle /\ inv.op = "up" /\ inv.then = "pop" /\ inv.run > 0
    BY <1>1, IdleTyped DEF PlaceInv, UpSteps
  <2>2. inv.run \in 0 .. MaxUps
    BY DEF NativeTyped, InvocationRecord
  <2>3. QED
    BY <1>1, <2>1, <2>2, GotoFacts DEF UpSteps
<1>4. Len(ledger.processes) <= Len(Plan)
  BY <1>1, NativeTypes, PlanFacts DEF PlaceInv
<1>5. NextName \in Names /\ NextName # Foreign
  BY <1>4, NextNameIs
<1>6. /\ x \in ProcessRecord /\ x.name = NextName /\ x.pid = pid /\ x.run = inv.run /\ x.phase = "gated"
      /\ \A t \in Starts : procs[t].pid = pid => procs[t].phase = "gone"
  BY <1>3, <1>5 DEF FreePids, ProcessRecord, Phases, Live
<1>7. /\ Keeping /\ Len(procs') = Len(procs) + 1 /\ Starts' = Starts \cup {c}
      /\ procs'[c] = x /\ \A t \in Starts : procs'[t] = procs[t]
  <2> HIDE DEF x
  <2>1. procs' = Append(procs, x)
    BY <1>2 DEF x, Spawned
  <2>2. QED
    BY <1>0, <1>6, <2>1, AppendKeeps
<1>8. c \notin Starts /\ \A t \in Starts : t <= c
  BY <1>0, NativeTypes DEF Starts
<1>9. c <= c
  BY <1>0, NativeTypes
<1> HIDE DEF x
<1>10. Own' = Own \cup {c} /\ Own \subseteq Starts
  BY <1>5, <1>6, <1>7, NativeTypes DEF Own
<1>11. log' \in [Names -> {"absent", "empty", "ready"}] /\ log'[NextName] = "empty" /\ \A n : n # NextName => log'[n] = log[n]
  <2>1. log \in [Names -> {"absent", "empty", "ready"}]
    BY DEF NativeTyped
  <2>2. QED
    BY <1>1, <1>5, <2>1 DEF Rotated
<1>12. NativeTyped'
  <2>1. Len(procs') <= MaxStarts
    BY <1>1, <1>7, NativeTypes, NativeBounds
  <2>2. QED
    BY <1>1, <1>3, <1>7, <1>11, <2>1 DEF NativeTyped, Keeping
<1>13. ProcessInv'
  <2>1. ProcessInv
    OBVIOUS
  <2>2. QED
    BY <1>1, <1>6, <1>7, <1>10, <2>1 DEF ProcessInv
<1>14. \A i \in DOMAIN ledger.processes : ledger.processes[i] \in Own /\ ledger.processes[i] \in Starts
  BY RecordedAreOwn
<1>15. LedgerInv'
  <2>1. LedgerInv
    OBVIOUS
  <2>2. \A n : log'[n] = "ready" => log[n] = "ready"
    BY <1>11
  <2>3. QED
    BY SMTT(30), <1>1, <1>7, <1>10, <1>14, <2>1, <2>2 DEF LedgerInv, IsInjective
<1>16. ~StopsLate' /\ ~Stopping' /\ Preparing' /\ Preparing /\ NextName' = NextName
  BY <1>1, <1>3 DEF StopsLate, Stopping, Preparing, UpSteps, NextName, Started
<1>17. PlaceInv'
  <2>1. \A i \in DOMAIN ledger.processes : procs'[ledger.processes[i]].run = inv.run
    BY <1>3, <1>7, <1>14 DEF PlaceInv
  <2>2. QED
    BY <1>1, <1>3, <1>16, <2>1 DEF PlaceInv, UpSteps
<1>18. ChildInv'
  <2>1. Newest(c)'
    BY <1>8, <1>9, <1>10 DEF Newest
  <2>2. c \in Starts' /\ c \notin ToSet(ledger.processes) /\ procs'[c].name = NextName /\ procs'[c].run = inv.run
    BY <1>6, <1>7, <1>8, <1>14 DEF ToSet
  <2>3. log'[NextName] # "ready"
    BY <1>11
  <2>4. QED
    BY <1>1, <1>3, <1>4, <1>16, <2>1, <2>2, <2>3 DEF ChildInv
<1>19. SettledInv'
  <2>1. SettledInv
    OBVIOUS
  <2>2. \A i \in DOMAIN ledger.processes : Awaited(i)' => Awaited(i)
    BY <1>1, <1>3 DEF Awaited
  <2>3. StartingUp' => StartingUp
    BY <1>1, <1>3 DEF StartingUp, RelayTurn, PlaceInv
  <2>4. QED
    BY <1>1, <1>3, <1>16, <2>1, <2>2, <2>3 DEF SettledInv
<1>20. \A r : Passed(r) => Passed(r)'
  BY <1>1, <1>7, PassedKept
<1>21. BarrierStep'
  <2>1. BarrierStep /\ RelayTurn' = RelayTurn
    BY <1>1, <1>3, <1>4, NativeTypes, PlanFacts DEF BarrierInv, RelayTurn, PlaceInv
  <2>2. NoneReleased => NoneReleased'
    BY <1>6, <1>7, <1>10 DEF NoneReleased
  <2>3. QED
    BY <1>1, <1>3, <1>16, <1>20, <2>1, <2>2 DEF BarrierStep
<1>22. BarrierPassed'
  <2>1. BarrierPassed
    BY DEF BarrierInv
  <2>2. QED
    BY <1>1, <1>7, <1>14, <1>20, <2>1 DEF BarrierPassed
<1>23. ReleasedPassed'
  BY <1>6, <1>7, <1>10, <1>20 DEF ReleasedPassed, BarrierInv
<1>24. StopInv'
  BY <1>1, <1>3 DEF StopInv
<1>25. NothingUnrecorded' /\ OnlyOwnSignalled'
  BY <1>1, <1>6, <1>7, <1>10 DEF NothingUnrecorded, OnlyOwnSignalled
<1>26. QED
  BY <1>12, <1>13, <1>15, <1>17, <1>18, <1>19, <1>21, <1>22, <1>23, <1>24, <1>25 DEF BarrierInv

\* The record is on disk before the gate opens.
LEMMA RegisterKeeps == ASSUME NativeInv, Register PROVE NativeInv'
<1> USE DEF NativeInv
<1> DEFINE n == Len(ledger.processes)
<1>1. /\ inv.pc = "register" /\ Goto("gate") /\ ledger' = Recorded
      /\ UNCHANGED <<startup, procs, log, barrier, pending, console, result, everReady, published, strangers, budget>>
  BY DEF Register, history
<1>2. PICK c \in Starts : /\ Newest(c) /\ c \notin ToSet(ledger.processes)
                          /\ procs[c].name = NextName /\ procs[c].run = inv.run
  BY <1>1 DEF ChildInv
<1>3. Child = c /\ c \in Own /\ c \in Nat
  BY <1>2, ChildIsNewest, NativeTypes DEF Newest
<1>4. n \in Nat /\ Len(Plan) \in Nat /\ n <= Len(Plan) /\ log[NextName] # "ready" /\ ledger.processes \in Seq(Nat)
  BY <1>1, NativeTypes, PlanFacts DEF ChildInv
<1>5. NextName = NameAt(n + 1)
  BY <1>4, NextNameIs
<1>6. ledger' \in LedgerRecord /\ ledger'.processes = Append(ledger.processes, c) /\ ledger'.applications = ledger.applications
  <2>1. ledger \in LedgerRecord
    BY DEF NativeTyped
  <2>2. Append(ledger.processes, c) \in Seq(Nat)
    BY <1>3, <1>4
  <2>3. QED
    BY <1>1, <1>3, <2>1, <2>2 DEF Recorded, LedgerRecord
<1> DEFINE q == ledger'.processes
<1>7. /\ q \in Seq(Nat) /\ Len(q) = n + 1 /\ q[n + 1] = c /\ DOMAIN q = 1 .. n + 1 /\ q # <<>> /\ Last(q) = c
      /\ \A i \in 1 .. n : q[i] = ledger.processes[i]
  BY <1>3, <1>4, <1>6 DEF Last
<1>8. DOMAIN ledger.processes = 1 .. n
  BY NativeTypes
<1>9. ToSet(q) = ToSet(ledger.processes) \cup {c}
  <2>1. \A i \in 1 .. n + 1 : i = n + 1 \/ i \in 1 .. n
    BY <1>4
  <2>2. n + 1 \in 1 .. n + 1 /\ \A i \in 1 .. n : i \in 1 .. n + 1
    BY <1>4
  <2> HIDE DEF n, q
  <2>3. \A x \in ToSet(q) : x \in ToSet(ledger.processes) \cup {c}
    BY <1>7, <1>8, <2>1 DEF ToSet
  <2>4. \A x \in ToSet(ledger.processes) \cup {c} : x \in ToSet(q)
    BY <1>7, <1>8, <2>2 DEF ToSet
  <2>5. QED
    BY <2>3, <2>4
<1>10. /\ inv' \in InvocationRecord /\ inv' # Idle /\ inv # Idle /\ inv.op = "up" /\ inv.run > 0 /\ inv.then = "pop"
       /\ inv'.pc = "gate" /\ inv'.op = "up" /\ inv'.run = inv.run /\ inv'.then = "pop"
  <2>1. inv # Idle /\ inv.op = "up" /\ inv.then = "pop" /\ inv.run > 0
    BY <1>1, IdleTyped DEF PlaceInv, UpSteps
  <2>2. QED
    BY <1>1, <2>1, GotoFacts DEF UpSteps
<1>11. NativeTyped'
  BY <1>1, <1>6, <1>10 DEF NativeTyped
<1>12. Starts' = Starts /\ Own' = Own /\ Own \subseteq Starts /\ Keeping
  <2>1. Winding
    BY <1>1, StillWinding
  <2>2. QED
    BY <2>1, WindingFacts, NativeTypes
<1>13. \A i \in 1 .. n + 1 : i # n + 1 => i \in 1 .. n
  BY <1>4
<1>14. n + 1 <= Len(Plan) + 1 /\ n + 1 \in 1 .. n + 1
  BY <1>4
<1> HIDE DEF n, q
<1>15. ProcessInv' /\ StopInv' /\ OnlyOwnSignalled' /\ NothingUnrecorded'
  <2>1. ProcessInv'
    BY <1>1, <1>12 DEF ProcessInv
  <2>2. StopInv'
    BY <1>1, <1>10 DEF StopInv
  <2>3. ToSet(ledger.processes) \subseteq ToSet(ledger'.processes)
    BY <1>9 DEF q
  <2>4. NothingUnrecorded'
    BY <1>1, <1>12, <2>3 DEF NothingUnrecorded
  <2>5. QED
    BY <1>1, <2>1, <2>2, <2>4 DEF OnlyOwnSignalled
<1>16. \A i \in 1 .. n : /\ procs[q[i]].name = NameAt(i) /\ procs[q[i]].run = inv.run
                         /\ log[NameAt(i)] = "ready" => q[i] \in everReady
  BY <1>7, <1>8, <1>10 DEF LedgerInv, PlaceInv
<1>17. \A i \in 1 .. n + 1 : /\ procs[q[i]].name = NameAt(i) /\ procs[q[i]].run = inv.run
                             /\ log[NameAt(i)] = "ready" => q[i] \in everReady
  BY <1>2, <1>4, <1>5, <1>7, <1>13, <1>16
<1>18. /\ ledger'.processes # <<>>
       /\ \A i \in DOMAIN ledger'.processes :
            /\ procs'[ledger'.processes[i]].name = NameAt(i)
            /\ procs'[ledger'.processes[i]].run = inv.run
            /\ log'[NameAt(i)] = "ready" => ledger'.processes[i] \in everReady'
  <2>1. /\ q # <<>>
        /\ \A i \in DOMAIN q : /\ procs[q[i]].name = NameAt(i) /\ procs[q[i]].run = inv.run
                               /\ log[NameAt(i)] = "ready" => q[i] \in everReady
    BY <1>7, <1>17
  <2>2. procs' = procs /\ log' = log /\ everReady' = everReady
    BY <1>1
  <2>3. QED
    BY <2>1, <2>2 DEF q
<1>19. LedgerInv'
  <2>1. \A i, j \in 1 .. n + 1 : q[i] = q[j] => i = j
    <3>1. \A i, j \in 1 .. n : q[i] = q[j] => i = j
      BY <1>7, <1>8 DEF LedgerInv, IsInjective
    <3>2. \A i \in 1 .. n : q[i] # c
      BY <1>2, <1>7, <1>8 DEF ToSet
    <3>3. QED
      BY <1>7, <1>13, <3>1, <3>2
  <2>2. ToSet(q) \subseteq Own'
    BY <1>3, <1>9, <1>12 DEF LedgerInv
  <2>3. IsInjective(q) /\ Len(q) <= Len(Plan) + 1
    BY <1>7, <1>14, <2>1 DEF IsInjective
  <2>4. QED
    BY <1>18, <2>2, <2>3 DEF LedgerInv, q
<1>20. ~StopsLate' /\ ~Stopping' /\ Preparing' /\ Preparing
  BY <1>1, <1>10 DEF StopsLate, Stopping, Preparing, UpSteps
<1>21. PlaceInv'
  BY <1>10, <1>20, <1>18 DEF PlaceInv, UpSteps
<1>22. ChildInv'
  <2>1. Newest(c)'
    BY <1>2, <1>12 DEF Newest
  <2>2. QED
    BY <1>7, <1>10, <2>1 DEF ChildInv, q
<1>23. RelayTurn' = RelayTurn
  BY <1>1, <1>4, <1>7, <1>10 DEF RelayTurn, n, q
<1>24. SettledInv'
  <2>1. SettledInv
    OBVIOUS
  <2>2. \A i \in 1 .. n + 1 : Awaited(i)' => i \in 1 .. n /\ Awaited(i)
    BY <1>1, <1>4, <1>7, <1>10, <1>13 DEF Awaited, q
  <2>3. \A i \in 1 .. n : /\ Awaited(i) => q[i] \in everReady
                          /\ NameAt(i) \in Nodes /\ ledger.applications[NameAt(i)] = "ready" => q[i] \in everReady
    BY <1>7, <1>8, <1>20, <2>1 DEF SettledInv
  <2>4. NameAt(n + 1) \in Nodes => ledger.applications[NameAt(n + 1)] # "ready"
    <3>1. SUFFICES ASSUME NameAt(n + 1) \in Nodes PROVE ledger.applications[NameAt(n + 1)] = "none"
      OBVIOUS
    <3>2. n # Len(Plan)
      BY <1>4, <3>1, NameFacts DEF NameAt
    <3>3. StartingUp
      BY <1>1, <3>2 DEF StartingUp, RelayTurn, n
    <3>4. QED
      BY <2>1, <3>1, <3>3 DEF SettledInv
  <2>5. StartingUp' => StartingUp
    BY <1>1, <1>10, <1>23 DEF StartingUp
  <2>6. QED
    BY <1>1, <1>6, <1>7, <1>10, <1>13, <2>1, <2>2, <2>3, <2>4, <2>5 DEF SettledInv, q
<1>25. \A r : Passed(r) => Passed(r)'
  BY <1>1, <1>6, <1>12, PassedKept
<1>26. BarrierStep'
  <2>1. BarrierStep
    BY DEF BarrierInv
  <2>2. NoneReleased => NoneReleased'
    BY <1>1, <1>12 DEF NoneReleased
  <2>3. QED
    BY <1>1, <1>10, <1>20, <1>23, <1>25, <2>1, <2>2 DEF BarrierStep
<1>27. BarrierPassed'
  <2>1. PICK r : r = inv.run
    OBVIOUS
  <2>2. SUFFICES ASSUME barrier' = TRUE PROVE Passed(r)'
    BY <1>18, <2>1 DEF BarrierPassed
  <2>3. RelayTurn
    BY <1>1, <1>20, <2>2 DEF BarrierInv, BarrierStep
  <2>4. QED
    BY <1>25, <2>1, <2>3 DEF BarrierInv, BarrierStep
<1>28. ReleasedPassed'
  BY <1>1, <1>12, <1>25 DEF ReleasedPassed, BarrierInv
<1>29. QED
  BY <1>11, <1>15, <1>19, <1>21, <1>22, <1>24, <1>26, <1>27, <1>28 DEF BarrierInv

-----------------------------------------------------------------------------
\* What native_process_status says of a recorded process
LEMMA StatusFacts ==
  ASSUME NativeInv, NEW s \in Starts
  PROVE  /\ Status(s) = "alive" => Occupant(procs[s].pid) = {s}
         /\ Status(s) = "dead" => procs[s].phase \notin Live
<1> USE DEF NativeInv
<1> DEFINE o == Occupant(procs[s].pid)
<1>1. Status(s) = "alive" => o = {s}
  <2>1. Status(s) = "alive" => ~(o = {} \/ \E t \in o : procs[t].phase = "zombie")
    BY DEF Status
  <2>2. QED
    BY <2>1 DEF Status
<1>2. Status(s) = "dead" => procs[s].phase \notin Live
  <2>1. SUFFICES ASSUME Status(s) = "dead", procs[s].phase \in Live PROVE FALSE
    OBVIOUS
  <2>2. o = {} \/ \E t \in o : procs[t].phase = "zombie"
    BY <2>1 DEF Status
  <2>3. procs[s].phase # "gone" /\ procs[s].phase # "zombie"
    BY <2>1 DEF Live
  <2>4. s \in o
    BY <2>3 DEF Occupant
  <2>5. \A t \in o : t = s
    BY <2>3 DEF Occupant, ProcessInv
  <2>6. QED
    BY <2>2, <2>3, <2>4, <2>5
<1>3. QED
  BY <1>1, <1>2

\* Nobody is released before the barrier, whatever becomes of the admissions.
LEMMA Settles ==
  ASSUME NativeInv, Preparing, ~RelayTurn, Winding, ledger'.processes = ledger.processes,
         UNCHANGED <<startup, log, barrier, result, everReady, published, strangers>>,
         NativeTyped', ~RelayTurn', inv'.op = "up", PlaceInv', ChildInv', SettledInv'
  PROVE  NativeInv'
<1> USE DEF NativeInv
<1>1. barrier = FALSE /\ NoneReleased
  BY DEF BarrierInv, BarrierStep
<1>2. Starts' = Starts /\ Own' = Own /\ Own \subseteq Starts
  BY WindingFacts, NativeTypes
<1>3. ProcessInv' /\ LedgerInv' /\ NothingUnrecorded'
  BY StandsStill
<1>4. NoneReleased'
  BY <1>1, <1>2 DEF NoneReleased, Winding
<1>5. barrier' = FALSE
  BY <1>1
<1>6. BarrierInv'
  BY <1>4, <1>5 DEF BarrierInv, BarrierStep, BarrierPassed, ReleasedPassed, NoneReleased
<1>7. inv.pc # "idle"
  BY DEF Preparing, StopsLate, Stopping, UpSteps
<1>8. inv # Idle
  BY <1>7, IdleTyped
<1>9. StopInv'
  <2>1. result' # "stopped"
    BY <1>8 DEF StopInv
  <2>2. QED
    BY <2>1 DEF StopInv
<1>10. OnlyOwnSignalled'
  BY DEF OnlyOwnSignalled
<1>11. QED
  BY <1>3, <1>6, <1>9, <1>10

\* The outcome of a node is recorded.
LEMMA AdmissionSettles ==
  ASSUME NativeInv, Preparing, inv.pc \in {"admit", "stop", "term", "kill"}, Winding,
         NEW s \in ToSet(ledger.processes), NEW o \in Outcomes, procs[s].name \in Nodes, o = "ready" => s \in everReady,
         ledger' = Admission(s, o), inv' \in InvocationRecord,
         inv'.pc = "admit", inv'.op = "up", inv'.run = inv.run, inv'.then = "pop",
         UNCHANGED <<startup, log, barrier, pending, console, result, everReady, published, strangers, budget>>
  PROVE  NativeInv'
<1> USE DEF NativeInv
<1> DEFINE m == procs[s].name
<1>1. /\ ledger' \in LedgerRecord /\ ledger'.processes = ledger.processes
      /\ ledger'.applications[m] = o /\ \A n \in Nodes : n # m => ledger'.applications[n] = ledger.applications[n]
  <2>1. ledger \in LedgerRecord /\ ledger.applications \in [Nodes -> Outcomes]
    BY NativeTypes DEF NativeTyped
  <2>2. ledger' = [ledger EXCEPT !.applications = [ledger.applications EXCEPT ![m] = o]]
    BY <2>1 DEF Admission, LedgerRecord
  <2>3. [ledger.applications EXCEPT ![m] = o] \in [Nodes -> Outcomes]
    BY <2>1
  <2>4. ledger' \in LedgerRecord /\ ledger'.processes = ledger.processes
        /\ ledger'.applications = [ledger.applications EXCEPT ![m] = o]
    BY <2>1, <2>2, <2>3 DEF LedgerRecord
  <2>5. QED
    BY <2>1, <2>4
<1>2. NativeTyped'
  BY <1>1 DEF NativeTyped, Winding
<1>3. ~RelayTurn /\ ~RelayTurn' /\ ~StartingUp' /\ ~Stopping' /\ ~StopsLate'
  BY DEF RelayTurn, StartingUp, Stopping, StopsLate
<1>4. PICK j \in DOMAIN ledger.processes : ledger.processes[j] = s
  BY DEF ToSet
<1>5. DOMAIN ledger.processes = 1 .. Len(ledger.processes) /\ Len(ledger.processes) = Len(Plan) /\ inv.op = "up"
  BY NativeTypes DEF PlaceInv, Preparing, UpSteps
<1>6. inv.run > 0 /\ \A i \in DOMAIN ledger.processes : procs'[ledger.processes[i]].run = inv.run
  <2>1. inv.run > 0 /\ \A i \in DOMAIN ledger.processes : procs[ledger.processes[i]].run = inv.run
    BY <1>5 DEF PlaceInv
  <2>2. QED
    BY <2>1, RecordedAreOwn DEF Winding
<1>7. PlaceInv'
  <2>1. inv' # Idle
    BY IdleTyped
  <2>2. QED
    BY <1>1, <1>3, <1>5, <1>6, <2>1 DEF PlaceInv, UpSteps
<1>8. ChildInv'
  BY DEF ChildInv
<1>9. SettledInv'
  <2>1. \A i \in DOMAIN ledger.processes : Awaited(i)' => Awaited(i)
    BY <1>1 DEF Awaited
  <2>2. \A i \in DOMAIN ledger.processes :
          /\ Awaited(i) => ledger.processes[i] \in everReady
          /\ NameAt(i) \in Nodes /\ ledger.applications[NameAt(i)] = "ready" => ledger.processes[i] \in everReady
    BY DEF SettledInv
  <2>3. \A i \in DOMAIN ledger.processes : NameAt(i) = m => i = j
    <3>1. SUFFICES ASSUME NEW i \in DOMAIN ledger.processes, NameAt(i) = m PROVE i = j
      OBVIOUS
    <3>2. NameAt(j) = m
      BY <1>4 DEF LedgerInv
    <3>3. i \in 1 .. Len(Plan) + 1 /\ j \in 1 .. Len(Plan) + 1
      BY <1>5, PlanFacts
    <3>4. QED
      BY <3>1, <3>2, <3>3, NameFacts
  <2> HIDE DEF m
  <2>4. \A i \in DOMAIN ledger.processes :
          NameAt(i) \in Nodes /\ ledger'.applications[NameAt(i)] = "ready" => ledger.processes[i] \in everReady
    BY <1>1, <1>4, <2>2, <2>3
  <2>5. QED
    BY <1>1, <1>3, <2>1, <2>2, <2>4 DEF SettledInv
<1>10. QED
  BY <1>1, <1>2, <1>3, <1>7, <1>8, <1>9, Settles

\* The available-startup loop settles a node, or has to stop it.
LEMMA AdmitKeeps == ASSUME NativeInv, Admit PROVE NativeInv'
<1> USE DEF NativeInv
<1>1. PICK s \in Unsettled :
        /\ procs' = Reaped({s})
        /\ \/ Status(s) = "dead" /\ ledger' = Admission(s, "exited") /\ UNCHANGED inv
           \/ Status(s) = "alive" /\ log[procs[s].name] = "ready" /\ ledger' = Admission(s, "ready") /\ UNCHANGED inv
           \/ /\ Status(s) = "alive" /\ inv' = [inv EXCEPT !.pc = "stop", !.then = procs[s].name]
              /\ UNCHANGED ledger
  BY DEF Admit
<1>2. /\ inv.pc = "admit"
      /\ UNCHANGED <<startup, log, barrier, pending, console, result, everReady, published, strangers, budget>>
  BY DEF Admit, history
<1>3. Winding
  BY <1>1, ReapedWinds
<1>4. s \in ToSet(ledger.processes) /\ procs[s].name \in Nodes
  BY DEF Unsettled
<1>5. /\ Preparing /\ inv \in InvocationRecord /\ inv.op = "up" /\ inv.then = "pop" /\ inv # Idle /\ ~RelayTurn
      /\ Len(ledger.processes) = Len(Plan)
  BY <1>2, IdleTyped DEF Preparing, UpSteps, NativeTyped, PlaceInv, RelayTurn
<1>6. CASE ledger' = Admission(s, "exited") /\ inv' = inv
  BY <1>2, <1>3, <1>4, <1>5, <1>6, AdmissionSettles DEF Outcomes
<1>7. CASE log[procs[s].name] = "ready" /\ ledger' = Admission(s, "ready") /\ inv' = inv
  <2>1. s \in everReady
    BY <1>4, <1>7 DEF ToSet, LedgerInv
  <2>2. QED
    BY <1>2, <1>3, <1>4, <1>5, <1>7, <2>1, AdmissionSettles DEF Outcomes
<1>8. CASE inv' = [inv EXCEPT !.pc = "stop", !.then = procs[s].name] /\ ledger' = ledger
  <2>1. /\ inv' \in InvocationRecord /\ inv'.pc = "stop" /\ inv'.then = procs[s].name
        /\ inv'.op = "up" /\ inv'.run = inv.run
    BY <1>4, <1>5, <1>8 DEF InvocationRecord, StopSteps
  <2>2. inv' # Idle /\ procs[s].name # "pop"
    BY <1>4, <2>1, IdleTyped, NameFacts
  <2>3. NativeTyped'
    BY <1>2, <1>3, <1>8, <2>1 DEF NativeTyped, Winding
  <2>4. ~RelayTurn' /\ ~StartingUp' /\ Stopping' /\ StopsLate' /\ Preparing'
    BY <2>1, <2>2 DEF RelayTurn, StartingUp, Stopping, StopsLate, Preparing
  <2>5. s \in Starts /\ procs'[s].name = procs[s].name
    BY <1>3, <1>4, RecordedAreOwn DEF ToSet, Winding
  <2>6. inv.run > 0 /\ \A i \in DOMAIN ledger.processes : procs'[ledger.processes[i]].run = inv.run
    <3>1. inv.run > 0 /\ \A i \in DOMAIN ledger.processes : procs[ledger.processes[i]].run = inv.run
      BY <1>5 DEF PlaceInv
    <3>2. QED
      BY <1>3, <3>1, RecordedAreOwn DEF Winding
  <2>7. PlaceInv'
    BY <1>4, <1>5, <1>8, <2>1, <2>2, <2>4, <2>5, <2>6 DEF PlaceInv, UpSteps
  <2>8. ChildInv'
    BY <2>1 DEF ChildInv
  <2>9. SettledInv'
    <3>1. \A i \in DOMAIN ledger.processes : Awaited(i)' => Awaited(i)
      BY <1>2, <1>8 DEF Awaited
    <3>2. SettledInv
      OBVIOUS
    <3>3. QED
      BY <1>2, <1>5, <1>8, <2>1, <2>4, <3>1, <3>2 DEF SettledInv
  <2>10. QED
    BY <1>2, <1>3, <1>5, <1>8, <2>1, <2>3, <2>4, <2>7, <2>8, <2>9, Settles
<1>9. QED
  BY <1>1, <1>6, <1>7, <1>8

\* The last look before the release
LEMMA RecheckKeeps == ASSUME NativeInv, Recheck PROVE NativeInv'
<1> USE DEF NativeInv
<1>1. /\ inv.pc = "recheck" /\ Goto("publish") /\ procs' = Reaped(ToSet(ledger.processes))
      /\ UNCHANGED <<startup, log, barrier, pending, console, result, everReady, published, strangers, budget>>
  BY DEF Recheck, history
<1>2. PICK f : /\ ledger' = [ledger EXCEPT !.applications = f] /\ f \in [Nodes -> Outcomes]
               /\ \A n \in Nodes : f[n] \in {ledger.applications[n], "exited"}
  <2>1. ledger \in LedgerRecord /\ ledger.applications \in [Nodes -> Outcomes]
    BY NativeTypes DEF NativeTyped
  <2> DEFINE f == [n \in Nodes |->
                     IF ledger.applications[n] = "ready"
                        /\ \E s \in ToSet(ledger.processes) : procs[s].name = n /\ Status(s) = "dead"
                     THEN "exited" ELSE ledger.applications[n]]
  <2>2. ledger' = [ledger EXCEPT !.applications = f]
    BY <2>1 DEF Recheck, LedgerRecord
  <2>3. f \in [Nodes -> Outcomes] /\ \A n \in Nodes : f[n] \in {ledger.applications[n], "exited"}
    BY <2>1 DEF Outcomes
  <2> HIDE DEF f
  <2>4. QED
    BY <2>2, <2>3
<1>3. ledger' \in LedgerRecord /\ ledger'.processes = ledger.processes /\ ledger'.applications = f
  BY <1>2 DEF NativeTyped, LedgerRecord
<1>4. Winding
  BY <1>1, ReapedWinds
<1>5. /\ Preparing /\ inv.op = "up" /\ inv.then = "pop" /\ inv # Idle /\ ~RelayTurn
      /\ Len(ledger.processes) = Len(Plan)
  BY <1>1, IdleTyped DEF Preparing, UpSteps, PlaceInv, RelayTurn
<1>6. /\ inv' \in InvocationRecord /\ inv' # Idle /\ inv'.pc = "publish" /\ inv'.op = "up" /\ inv'.run = inv.run
      /\ inv'.then = "pop"
  BY <1>1, <1>5, GotoFacts DEF UpSteps
<1>7. NativeTyped'
  BY <1>1, <1>3, <1>4, <1>6 DEF NativeTyped, Winding
<1>8. ~RelayTurn' /\ ~StartingUp' /\ ~Stopping' /\ ~StopsLate' /\ Preparing'
  BY <1>6 DEF RelayTurn, StartingUp, Stopping, StopsLate, Preparing, UpSteps
<1>9. inv.run > 0 /\ \A i \in DOMAIN ledger.processes : procs'[ledger.processes[i]].run = inv.run
  <2>1. inv.run > 0 /\ \A i \in DOMAIN ledger.processes : procs[ledger.processes[i]].run = inv.run
    BY <1>5 DEF PlaceInv
  <2>2. QED
    BY <1>4, <2>1, RecordedAreOwn DEF Winding
<1>10. PlaceInv'
  BY <1>3, <1>5, <1>6, <1>8, <1>9 DEF PlaceInv, UpSteps
<1>11. ChildInv'
  BY <1>6 DEF ChildInv
<1>12. SettledInv'
  <2>1. \A i \in DOMAIN ledger.processes : Awaited(i)' => Awaited(i)
    BY <1>1, <1>3 DEF Awaited
  <2>2. \A i \in DOMAIN ledger.processes :
          /\ Awaited(i) => ledger.processes[i] \in everReady
          /\ NameAt(i) \in Nodes /\ ledger.applications[NameAt(i)] = "ready" => ledger.processes[i] \in everReady
    BY <1>5 DEF SettledInv
  <2>3. \A i \in DOMAIN ledger.processes :
          NameAt(i) \in Nodes /\ f[NameAt(i)] = "ready" => ledger.processes[i] \in everReady
    BY <1>2, <2>2
  <2>4. startup = "available" => \A n \in Nodes : f[n] # "none"
    BY <1>1, <1>2 DEF SettledInv
  <2>5. QED
    BY <1>1, <1>3, <1>6, <1>8, <2>1, <2>2, <2>3, <2>4 DEF SettledInv
<1>13. QED
  BY <1>1, <1>3, <1>4, <1>5, <1>6, <1>7, <1>8, <1>10, <1>11, <1>12, Settles

\* When the barrier is published, every process of the run is ready or settled.
LEMMA RunIsReady == ASSUME NativeInv, inv.pc = "rename" PROVE AllReady(inv.run)
<1> USE DEF NativeInv
<1>1. Preparing /\ inv.op = "up" /\ Len(ledger.processes) = Len(Plan)
  BY DEF Preparing, UpSteps, PlaceInv
<1>2. SUFFICES ASSUME NEW n \in ToSet(Plan)
               PROVE  \E t \in Own : /\ procs[t].name = n /\ procs[t].run = inv.run
                                     /\ t \in everReady \/ (startup = "available" /\ n \in Nodes
                                                             /\ ledger.applications[n] \in {"exited", "timeout"})
  BY DEF AllReady
<1>3. PICK i \in 1 .. Len(Plan) : Plan[i] = n
  BY PlanFacts
<1>4. i \in DOMAIN ledger.processes /\ NameAt(i) = n /\ i <= Len(Plan)
  BY <1>1, <1>3, NativeTypes, PlanFacts DEF NameAt
<1> DEFINE t == ledger.processes[i]
<1>5. t \in Own /\ procs[t].name = n /\ procs[t].run = inv.run
  BY <1>1, <1>4, RecordedAreOwn DEF LedgerInv, PlaceInv
<1>6. Awaited(i) => t \in everReady
  BY <1>1, <1>4 DEF SettledInv
<1>7. CASE startup = "all" \/ i = 1
  <2>1. Awaited(i)
    BY <1>4, <1>7 DEF Awaited
  <2>2. QED
    BY <1>5, <1>6, <2>1
<1>8. CASE startup # "all" /\ i # 1
  <2>1. startup = "available" /\ n \in Nodes
    <3>1. i # Len(Plan) + 1 /\ i \in 1 .. Len(Plan) + 1
      BY <1>3, PlanFacts
    <3>2. QED
      BY <1>4, <1>8, <3>1, NameFacts DEF NativeTyped
  <2>2. ledger.applications[n] # "none" /\ ledger.applications[n] \in Outcomes
    BY <2>1, NativeTypes DEF SettledInv
  <2>3. ledger.applications[n] = "ready" => t \in everReady
    BY <1>1, <1>4, <2>1 DEF SettledInv
  <2>4. QED
    BY <1>5, <2>1, <2>2, <2>3 DEF Outcomes
<1>9. QED
  BY <1>7, <1>8

\* The barrier: the pending file, the rename, the ledger's "ready"
LEMMA PublishKeeps == ASSUME NativeInv, Publish PROVE NativeInv'
<1> USE DEF NativeInv
<1>1. UNCHANGED <<startup, procs, log, console, result, everReady, strangers, budget>> /\ Winding
  <2>1. UNCHANGED <<startup, procs, log, console, result, everReady, strangers, budget>>
    BY DEF Publish
  <2>2. QED
    BY <2>1, StillWinding
<1>2. inv.pc \in {"publish", "rename", "ready"}
  BY DEF Publish
<1>3. /\ Preparing /\ inv.pc \in UpSteps /\ inv.op = "up" /\ inv.then = "pop" /\ inv # Idle
      /\ Len(ledger.processes) = Len(Plan)
  BY <1>2, IdleTyped DEF Preparing, UpSteps, PlaceInv
<1>4. CASE inv.pc = "publish" /\ pending' = pending \cup {"release"} /\ Goto("rename") /\ UNCHANGED <<barrier, ledger, published>>
  <2>1. inv' \in InvocationRecord /\ inv'.pc = "rename"
    BY <1>4, GotoFacts DEF UpSteps
  <2>2. Quiet
    BY <1>1, <1>4 DEF Quiet
  <2>3. NativeTyped'
    BY <1>1, <1>4, <2>1 DEF NativeTyped
  <2>4. ~RelayTurn /\ ~RelayTurn' /\ ~Stopping' /\ ~StartingUp' /\ ChildInv'
    BY <1>4, <2>1 DEF RelayTurn, Stopping, StartingUp, ChildInv
  <2>5. SettledInv'
    <3>1. \A i \in DOMAIN ledger.processes : Awaited(i)' => Awaited(i)
      BY <1>1, <1>4 DEF Awaited
    <3>2. SettledInv
      OBVIOUS
    <3>3. QED
      BY <1>1, <1>3, <1>4, <2>1, <2>4, <3>1, <3>2 DEF SettledInv
  <2>6. BarrierStep'
    <3>1. barrier = FALSE /\ NoneReleased
      BY <1>3, <2>4 DEF BarrierInv, BarrierStep
    <3>2. QED
      BY <1>4, <2>1, <2>2, <2>4, <3>1, QuietFacts DEF BarrierStep
  <2>7. QED
    BY <1>1, <1>3, <1>4, <2>2, <2>3, <2>4, <2>5, <2>6, GoesOn DEF UpSteps, OnlyOwnSignalled
<1>5. CASE inv.pc = "ready" /\ ledger' = [ledger EXCEPT !.status = "ready"] /\ Goto("relay") /\ UNCHANGED <<pending, barrier, published>>
  <2>1. inv' \in InvocationRecord /\ inv'.pc = "relay" /\ inv'.run = inv.run
    BY <1>5, GotoFacts DEF UpSteps
  <2>2. ledger' \in LedgerRecord /\ ledger'.processes = ledger.processes /\ ledger'.applications = ledger.applications
    BY <1>5 DEF NativeTyped, LedgerRecord
  <2>3. Quiet
    BY <1>1, <1>5, <2>2 DEF Quiet
  <2>4. NativeTyped'
    BY <1>1, <1>5, <2>1, <2>2 DEF NativeTyped
  <2>5. RelayTurn /\ RelayTurn' /\ ~Stopping' /\ ~StartingUp' /\ ChildInv'
    BY <1>5, <2>1 DEF RelayTurn, Stopping, StartingUp, ChildInv
  <2>6. SettledInv'
    <3>1. \A i \in DOMAIN ledger.processes : Awaited(i)' => Awaited(i)
      BY <1>1, <1>5, <2>2 DEF Awaited
    <3>2. SettledInv
      OBVIOUS
    <3>3. QED
      BY <1>1, <1>3, <2>1, <2>2, <2>5, <3>1, <3>2 DEF SettledInv
  <2>7. BarrierStep'
    <3>1. PICK r : r = inv.run
      OBVIOUS
    <3>2. Passed(r)
      BY <2>5, <3>1 DEF BarrierInv, BarrierStep
    <3>3. Passed(r)' /\ inv'.run = r
      BY <2>1, <2>3, <3>1, <3>2, QuietFacts
    <3>4. QED
      BY <2>1, <2>5, <3>3 DEF BarrierStep
  <2>8. QED
    BY <1>1, <1>3, <1>5, <2>3, <2>4, <2>5, <2>6, <2>7, GoesOn DEF UpSteps, OnlyOwnSignalled
<1>6. CASE /\ inv.pc = "rename" /\ pending' = pending \ {"release"} /\ barrier' = TRUE /\ Goto("ready")
           /\ published' = published \cup {inv.run} /\ ledger' = ledger
  <2>1. /\ inv' \in InvocationRecord /\ inv' # Idle /\ inv'.pc = "ready" /\ inv'.run = inv.run /\ inv'.op = "up"
        /\ inv'.then = "pop"
    BY <1>3, <1>6, GotoFacts DEF UpSteps
  <2>2. inv.run > 0 /\ \A i \in DOMAIN ledger.processes : procs[ledger.processes[i]].run = inv.run
    BY <1>3 DEF PlaceInv
  <2>3. published' \subseteq 1 .. MaxUps
    <3>1. inv.run \in 0 .. MaxUps /\ published \subseteq 1 .. MaxUps
      BY DEF NativeTyped, InvocationRecord
    <3>2. inv.run \in 1 .. MaxUps
      BY <2>2, <3>1, NativeBounds
    <3>3. QED
      BY <1>6, <3>1, <3>2
  <2>4. NativeTyped'
    BY <1>1, <1>6, <2>1, <2>3 DEF NativeTyped
  <2>5. Starts' = Starts /\ Own' = Own /\ Own \subseteq Starts
    BY <1>1, WindingFacts, NativeTypes
  <2>6. ProcessInv' /\ LedgerInv' /\ NothingUnrecorded'
    BY <1>1, <1>6, StandsStill
  <2>7. ~RelayTurn /\ RelayTurn' /\ ~Stopping' /\ ~StopsLate' /\ ~StartingUp' /\ ChildInv'
    BY <1>6, <2>1 DEF RelayTurn, Stopping, StopsLate, StartingUp, ChildInv
  <2>8. PlaceInv'
    BY <1>1, <1>3, <1>6, <2>1, <2>2, <2>7 DEF PlaceInv, UpSteps
  <2>9. SettledInv'
    <3>1. \A i \in DOMAIN ledger.processes : Awaited(i)' => Awaited(i)
      BY <1>1, <1>6 DEF Awaited
    <3>2. SettledInv
      OBVIOUS
    <3>3. QED
      BY <1>1, <1>3, <1>6, <2>1, <2>7, <3>1, <3>2 DEF SettledInv
  <2>10. PICK r : r = inv.run
    OBVIOUS
  <2>11. Passed(r)'
    <3>1. AllReady(r) /\ r \in published'
      BY <1>6, <2>10, RunIsReady
    <3>2. QED
      BY <1>1, <1>6, <2>5, <3>1 DEF Passed, AllReady
  <2>12. NoneReleased
    BY <1>3, <2>7 DEF BarrierInv, BarrierStep
  <2>13. BarrierStep'
    BY <2>1, <2>7, <2>10, <2>11 DEF BarrierStep
  <2>14. BarrierPassed'
    BY <1>1, <1>6, <2>2, <2>10, <2>11 DEF BarrierPassed
  <2>15. ReleasedPassed'
    BY <1>1, <2>5, <2>12 DEF ReleasedPassed, NoneReleased
  <2>16. StopInv' /\ OnlyOwnSignalled'
    BY <1>1, <1>3, <2>1 DEF StopInv, OnlyOwnSignalled
  <2>17. QED
    BY <2>4, <2>6, <2>7, <2>8, <2>9, <2>13, <2>14, <2>15, <2>16 DEF BarrierInv
<1>7. QED
  BY <1>4, <1>5, <1>6 DEF Publish

-----------------------------------------------------------------------------
\* stop marks the graph, and goes through the ledger.
LEMMA DestroyKeeps == ASSUME NativeInv, Destroy PROVE NativeInv'
<1> USE DEF NativeInv
<1>1. /\ inv.pc = "destroy" /\ ledger' = [ledger EXCEPT !.status = "destroying"]
      /\ inv' = [inv EXCEPT !.pc = "stop", !.then = "pop"]
      /\ UNCHANGED <<startup, procs, log, barrier, pending, console, result, everReady, published, strangers, budget>>
  BY DEF Destroy, history
<1>2. ledger' \in LedgerRecord /\ ledger'.processes = ledger.processes /\ ledger'.applications = ledger.applications
  BY <1>1 DEF NativeTyped, LedgerRecord
<1>3. inv' \in InvocationRecord /\ inv'.pc = "stop" /\ inv'.then = "pop" /\ inv'.op = inv.op /\ inv'.run = inv.run
  BY <1>1 DEF NativeTyped, InvocationRecord, StopSteps
<1>4. Quiet
  BY <1>1, <1>2, StillWinding DEF Quiet
<1>5. NativeTyped'
  BY <1>1, <1>2, <1>3 DEF NativeTyped
<1>6. inv # Idle /\ inv' # Idle /\ inv.op # "none"
  BY <1>1, <1>3, IdleTyped DEF PlaceInv
<1>7. ~StopsLate' /\ ~RelayTurn' /\ ~Preparing' /\ ~StartingUp'
  BY <1>3 DEF StopsLate, Stopping, RelayTurn, Preparing, UpSteps, StartingUp
<1>8. PlaceInv'
  <2>1. PlaceInv
    OBVIOUS
  <2>2. QED
    BY <1>2, <1>3, <1>4, <1>6, <1>7, <2>1, QuietFacts DEF PlaceInv, UpSteps
<1>9. ChildInv' /\ SettledInv'
  BY <1>3, <1>7 DEF ChildInv, SettledInv
<1>10. BarrierStep'
  BY <1>1, <1>7 DEF BarrierInv, BarrierStep
<1>11. StopInv' /\ OnlyOwnSignalled'
  BY <1>1, <1>3, <1>4, <1>6, QuietFacts DEF StopInv, OnlyOwnSignalled
<1>12. QED
  BY <1>4, <1>5, <1>8, <1>9, <1>10, <1>11, QuietMoves

\* An empty ledger ends it.
LEMMA StopEndsKeeps == ASSUME NativeInv, StopEnds PROVE NativeInv'
<1> USE DEF NativeInv
<1>1. /\ inv.pc = "stop" /\ ledger.processes = <<>> /\ inv' = Idle
      /\ result' = (IF inv.op = "down" THEN "stopped" ELSE "failed")
      /\ UNCHANGED <<startup, procs, log, ledger, barrier, pending, console, everReady, published, strangers, budget>>
  BY DEF StopEnds, history, Ends
<1>2. Quiet
  BY <1>1, StillWinding DEF Quiet
<1>3. NativeTyped'
  BY <1>1, IdleTyped DEF NativeTyped
<1>4. result' = "stopped" => barrier' = FALSE /\ \A s \in Own : procs'[s].phase \notin Live
  <2>1. SUFFICES ASSUME inv.op = "down" PROVE barrier = FALSE /\ \A s \in Own : procs[s].phase \notin Live
    BY <1>1
  <2>2. barrier = FALSE
    BY <1>1 DEF BarrierInv, BarrierStep, Stopping
  <2>3. \A s \in Own : procs[s].phase # "gated" /\ procs[s].phase \notin Live \ {"gated"}
    BY <1>1, <2>1, NothingLeft DEF StopInv
  <2>4. QED
    BY <2>2, <2>3
<1>5. QED
  BY <1>1, <1>2, <1>3, <1>4, InvocationEnds DEF OnlyOwnSignalled

\* The process that is being stopped is a recorded one.
LEMMA TargetIsRecorded ==
  ASSUME NativeInv, Stopping, inv.then = "pop" => ledger.processes # <<>>
  PROVE  /\ Target \in ToSet(ledger.processes) /\ Target \in Own /\ Target \in Starts
         /\ inv.then # "pop" => procs[Target].name = inv.then /\ inv.then \in Nodes
<1> USE DEF NativeInv
<1>1. CASE inv.then = "pop"
  <2>1. Len(ledger.processes) \in DOMAIN ledger.processes
    BY <1>1, NativeTypes
  <2>2. Target = ledger.processes[Len(ledger.processes)]
    BY <1>1 DEF Target, Last
  <2>3. QED
    BY <1>1, <2>1, <2>2, RecordedAreOwn DEF ToSet
<1>2. CASE inv.then # "pop"
  <2>1. \E s \in ToSet(ledger.processes) : procs[s].name = inv.then
    BY <1>2 DEF PlaceInv, StopsLate
  <2>2. Target \in ToSet(ledger.processes) /\ procs[Target].name = inv.then
    BY <1>2, <2>1 DEF Target
  <2>3. inv.then \in Nodes
    BY <1>2 DEF NativeTyped, InvocationRecord
  <2>4. QED
    BY <2>2, <2>3, RecordedAreOwn DEF ToSet
<1>3. QED
  BY <1>1, <1>2

\* A signal reaches the recorded process and nobody else.
LEMMA SignalKeeps ==
  ASSUME NativeInv, Stopping, inv.then = "pop" => ledger.processes # <<>>, NEW p \in {"term", "kill"}, Goto(p),
         Status(Target) = "alive", Signal(Target), Winding,
         UNCHANGED <<startup, log, ledger, barrier, pending, console, result, everReady, published, budget>>
  PROVE  NativeInv'
<1> USE DEF NativeInv
<1>1. Target \in Own /\ Occupant(procs[Target].pid) = {Target}
  BY TargetIsRecorded, StatusFacts
<1>2. OnlyOwnSignalled'
  BY <1>1 DEF OnlyOwnSignalled, Signal
<1>3. inv' \in InvocationRecord /\ inv' # Idle /\ inv'.pc = p /\ inv'.op = inv.op /\ inv'.run = inv.run /\ inv'.then = inv.then
  BY GotoFacts DEF StopSteps
<1>4. inv # Idle /\ inv.op # "none"
  BY IdleTyped DEF Stopping, PlaceInv
<1>5. NativeTyped'
  BY <1>3 DEF NativeTyped, Winding
<1>6. Quiet
  BY DEF Quiet
<1>7. /\ Stopping' /\ StopsLate' = StopsLate /\ Preparing' = Preparing /\ ~RelayTurn /\ ~RelayTurn' /\ ~StartingUp'
      /\ inv'.pc \notin UpSteps /\ inv.pc \notin UpSteps
  BY <1>3 DEF Stopping, StopsLate, Preparing, UpSteps, RelayTurn, StartingUp
<1>8. PlaceInv'
  <2>1. PlaceInv
    OBVIOUS
  <2>2. \A s \in ToSet(ledger.processes) : procs'[s].name = procs[s].name
    BY RecordedAreOwn DEF ToSet, Winding
  <2>3. QED
    BY <1>3, <1>4, <1>6, <1>7, <2>1, <2>2, QuietFacts DEF PlaceInv, UpSteps
<1>9. ChildInv'
  BY <1>3 DEF ChildInv
<1>10. SettledInv'
  <2>1. \A i \in DOMAIN ledger.processes : Awaited(i)' => Awaited(i)
    BY DEF Awaited, Stopping
  <2>2. SettledInv
    OBVIOUS
  <2>3. QED
    BY <1>3, <1>7, <2>1, <2>2 DEF SettledInv
<1>11. BarrierStep'
  <2>1. BarrierStep
    BY DEF BarrierInv
  <2>2. QED
    BY <1>3, <1>6, <1>7, <2>1, QuietFacts DEF BarrierStep
<1>12. StopInv'
  <2>1. inv.op = "down" => \A s \in Own : procs'[s].phase # "gated"
    BY NativeTypes DEF StopInv, Winding
  <2>2. QED
    BY <1>3, <1>4, <1>6, <2>1, QuietFacts DEF StopInv
<1>13. QED
  BY <1>2, <1>5, <1>6, <1>8, <1>9, <1>10, <1>11, <1>12, QuietMoves

\* SIGKILL, after the identity was tested once more
LEMMA EscalateKeeps == ASSUME NativeInv, Escalate PROVE NativeInv'
<1> USE DEF NativeInv
<1>1. /\ inv.pc = "term" /\ Status(Target) = "alive" /\ Signal(Target) /\ Goto("kill")
      /\ UNCHANGED <<startup, log, ledger, barrier, pending, console, result, everReady, published, budget>>
  BY DEF Escalate, MayKill
<1>2. procs' = [s \in Starts |-> IF s \in Occupant(procs[Target].pid) THEN [procs[s] EXCEPT !.phase = Ended(s)] ELSE procs[s]]
  BY DEF Escalate
<1>3. Stopping /\ (inv.then = "pop" => ledger.processes # <<>>)
  BY <1>1 DEF Stopping, PlaceInv
<1>4. Winding
  <2>1. \A s \in Starts : Ended(s) \in {"zombie", "gone"}
    BY DEF Ended
  <2>2. \A s \in Occupant(procs[Target].pid) : procs[s].phase # "gone"
    BY DEF Occupant
  <2>3. \A s \in Starts : procs'[s] = IF s \in Occupant(procs[Target].pid)
                                      THEN [procs[s] EXCEPT !.phase = Ended(s)] ELSE procs[s]
    BY <1>2
  <2>4. \A s \in Starts : procs'[s] \in ProcessRecord
    <3>1. \A s \in Starts : Ended(s) \in Phases /\ procs[s] \in ProcessRecord
      BY <2>1, NativeTypes DEF Phases
    <3>2. QED
      BY <2>3, <3>1, PhasedRecord
  <2>5. procs' \in Seq(ProcessRecord) /\ Len(procs') = Len(procs)
    <3>1. procs' = [s \in 1 .. Len(procs) |-> procs'[s]]
      BY <1>2 DEF Starts
    <3>2. QED
      BY <2>4, <3>1, NativeTypes, IsASeq DEF Starts
  <2>6. QED
    BY <2>1, <2>2, <2>3, <2>5, NativeTypes DEF Winding, ProcessRecord
<1>5. QED
  BY <1>1, <1>3, <1>4, SignalKeeps

\* The record of a process that has ended goes.
LEMMA PopKeeps ==
  ASSUME NativeInv, Stopping, inv.then = "pop", ledger.processes # <<>>, Status(Target) = "dead", Winding,
         ledger' = [ledger EXCEPT !.processes = Front(@)], inv' = [inv EXCEPT !.pc = "stop"],
         UNCHANGED <<startup, log, barrier, pending, console, result, everReady, published, strangers, budget>>
  PROVE  NativeInv'
<1> USE DEF NativeInv
<1> DEFINE n == Len(ledger.processes)
<1>1. PICK q : q = Front(ledger.processes)
  OBVIOUS
<1>2. ledger.processes \in Seq(Nat) /\ n \in Nat \ {0} /\ DOMAIN ledger.processes = 1 .. n
  BY NativeTypes
<1>3. /\ q \in Seq(Nat) /\ Len(q) = n - 1 /\ DOMAIN q = 1 .. n - 1 /\ \A i \in 1 .. n - 1 : q[i] = ledger.processes[i]
  BY SMTT(30), <1>1, <1>2 DEF Front
<1>4. ledger' \in LedgerRecord /\ ledger'.processes = q /\ ledger'.applications = ledger.applications
  <2>1. ledger \in LedgerRecord
    BY DEF NativeTyped
  <2>2. QED
    BY <1>1, <1>3, <2>1 DEF LedgerRecord
<1>5. inv' \in InvocationRecord /\ inv'.pc = "stop" /\ inv'.then = "pop" /\ inv'.op = inv.op /\ inv'.run = inv.run
  BY DEF NativeTyped, InvocationRecord, StopSteps
<1>6. inv # Idle /\ inv.op # "none" /\ inv' # Idle
  BY <1>5, IdleTyped DEF Stopping, PlaceInv
<1>7. NativeTyped'
  BY <1>4, <1>5 DEF NativeTyped, Winding
<1>8. Starts' = Starts /\ Own' = Own /\ Keeping /\ Own \subseteq Starts
  BY WindingFacts, NativeTypes
<1>9. /\ \A i \in 1 .. n : i = n \/ i \in 1 .. n - 1
      /\ \A i \in 1 .. n - 1 : i \in 1 .. n
      /\ Len(Plan) \in Nat
  BY <1>2, PlanFacts
<1>10. n - 1 <= Len(Plan) + 1
  BY <1>2, <1>9 DEF LedgerInv
<1>11. Target = ledger.processes[n]
  BY DEF Target, Last
<1> HIDE DEF n
<1>12. ProcessInv'
  <2>1. ProcessInv
    OBVIOUS
  <2>2. \A s \in Starts : /\ procs'[s].pid = procs[s].pid /\ (procs'[s].phase # "gone" => procs[s].phase # "gone")
                          /\ procs'[s].phase \in {"ready", "released"} => procs[s].phase \in {"ready", "released"}
    BY DEF Winding
  <2>3. QED
    BY <1>8, <2>1, <2>2 DEF ProcessInv
<1>13. \A i \in 1 .. n : /\ ledger.processes[i] \in Starts /\ ledger.processes[i] \in Own
                         /\ procs'[ledger.processes[i]].name = procs[ledger.processes[i]].name
                         /\ procs'[ledger.processes[i]].run = procs[ledger.processes[i]].run
  BY <1>2, RecordedAreOwn DEF Winding
<1>14. LedgerInv'
  <2>1. LedgerInv
    OBVIOUS
  <2>2. \A i \in DOMAIN q : i \in DOMAIN ledger.processes /\ q[i] = ledger.processes[i]
    BY <1>2, <1>3, <1>9
  <2>3. \A i \in DOMAIN q : procs'[q[i]].name = procs[q[i]].name /\ procs'[q[i]].run = procs[q[i]].run /\ q[i] \in Own
    BY <1>2, <1>13, <2>2
  <2>4. IsInjective(q)
    BY <2>1, <2>2 DEF LedgerInv, IsInjective
  <2>5. ToSet(q) \subseteq Own /\ Len(q) <= Len(Plan) + 1
    BY <1>3, <1>10, <2>3 DEF ToSet
  <2>6. \A i \in DOMAIN q : procs'[q[i]].name = NameAt(i) /\ (log[NameAt(i)] = "ready" => q[i] \in everReady)
    BY <2>1, <2>2, <2>3 DEF LedgerInv
  <2>7. \A i, j \in DOMAIN q : procs'[q[i]].run = procs'[q[j]].run
    BY <2>1, <2>2, <2>3 DEF LedgerInv
  <2>8. QED
    BY <1>4, <1>8, <2>4, <2>5, <2>6, <2>7 DEF LedgerInv
<1>15. ~StopsLate' /\ ~RelayTurn' /\ ~Preparing' /\ ~StartingUp'
  BY <1>5 DEF StopsLate, Stopping, RelayTurn, Preparing, UpSteps, StartingUp
<1>16. PlaceInv'
  <2>1. inv.op = "up" => inv.run > 0 /\ \A i \in 1 .. n - 1 : procs'[q[i]].run = inv.run
    BY <1>2, <1>3, <1>9, <1>13 DEF PlaceInv
  <2>2. QED
    BY <1>3, <1>4, <1>5, <1>6, <1>15, <2>1 DEF PlaceInv, UpSteps
<1>17. ChildInv' /\ SettledInv'
  BY <1>5, <1>15 DEF ChildInv, SettledInv
<1>18. barrier = FALSE
  BY DEF BarrierInv, BarrierStep
<1>19. BarrierStep' /\ BarrierPassed'
  BY <1>15, <1>18 DEF BarrierStep, BarrierPassed
<1>20. ReleasedPassed'
  <2>1. \A r : Passed(r) => Passed(r)'
    BY <1>4, <1>8, PassedKept
  <2>2. \A s \in Own : procs'[s].run = procs[s].run /\ (procs'[s].phase = "released" => procs[s].phase = "released")
    BY <1>8 DEF Winding
  <2>3. QED
    BY <1>8, <2>1, <2>2 DEF ReleasedPassed, BarrierInv
<1>21. StopInv'
  <2>1. inv.op = "down" => \A s \in Own : procs'[s].phase # "gated"
    BY NativeTypes DEF StopInv, Winding
  <2>2. QED
    BY <1>5, <1>6, <1>8, <2>1 DEF StopInv
<1>22. OnlyOwnSignalled'
  BY DEF OnlyOwnSignalled
<1>23. NothingUnrecorded'
  <2>1. SUFFICES ASSUME NEW s \in Own, procs'[s].phase \in Live \ {"gated"} PROVE s \in ToSet(q)
    BY <1>4, <1>8 DEF NothingUnrecorded
  <2>2. procs[s].phase \in Live \ {"gated"}
    BY <1>8, <2>1 DEF Winding, Live
  <2>3. PICK i \in 1 .. n : ledger.processes[i] = s
    BY <1>2, <2>2, ItsPlace
  <2>4. i # n
    <3>1. Target \in Starts
      BY TargetIsRecorded
    <3>2. procs[Target].phase \notin Live
      BY <3>1, StatusFacts
    <3>3. QED
      BY <1>11, <2>2, <2>3, <3>2
  <2>5. QED
    BY <1>3, <1>9, <2>3, <2>4 DEF ToSet
<1>24. QED
  BY <1>7, <1>12, <1>14, <1>16, <1>17, <1>19, <1>20, <1>21, <1>22, <1>23 DEF BarrierInv

\* stop_native_process
LEMMA StopProcessKeeps == ASSUME NativeInv, StopProcess PROVE NativeInv'
<1> USE DEF NativeInv
<1>1. /\ Stopping /\ (inv.then = "pop" => ledger.processes # <<>>)
      /\ UNCHANGED <<startup, log, barrier, pending, console, everReady, published, budget>>
  BY DEF StopProcess, Stopping
<1>2. /\ Target \in ToSet(ledger.processes) /\ Target \in Own /\ Target \in Starts
      /\ inv.then # "pop" => procs[Target].name = inv.then /\ inv.then \in Nodes
  BY <1>1, TargetIsRecorded
<1>3. CASE Status(Target) = "dead" /\ Stopped /\ procs' = Reaped({Target}) /\ UNCHANGED <<result, strangers>>
  <2>1. Winding
    BY <1>3, ReapedWinds
  <2>2. CASE inv.then = "pop"
    BY <1>1, <1>3, <2>1, <2>2, PopKeeps DEF Stopped
  <2>3. CASE inv.then # "pop"
    <3>1. ledger' = Admission(Target, "timeout") /\ inv' = [inv EXCEPT !.pc = "admit", !.then = "pop"]
      BY <1>3, <2>3 DEF Stopped
    <3>2. StopsLate /\ Preparing /\ inv.op = "up" /\ inv.pc \in {"admit", "stop", "term", "kill"}
      BY <1>1, <2>3 DEF StopsLate, Preparing, PlaceInv, Stopping
    <3>3. /\ inv' \in InvocationRecord /\ inv'.pc = "admit" /\ inv'.then = "pop" /\ inv'.op = "up" /\ inv'.run = inv.run
      BY <3>1, <3>2 DEF NativeTyped, InvocationRecord, UpSteps
    <3>4. "timeout" \in Outcomes /\ procs[Target].name \in Nodes
      BY <1>2, <2>3 DEF Outcomes
    <3>5. QED
      BY <1>1, <1>2, <1>3, <2>1, <3>1, <3>2, <3>3, <3>4, AdmissionSettles
  <2>4. QED
    BY <2>2, <2>3
<1>4. CASE /\ Status(Target) = "alive" /\ inv.pc = "stop" /\ Signal(Target) /\ Goto("term")
           /\ UNCHANGED <<procs, ledger, result>>
  <2>1. Winding
    BY <1>4, StillWinding
  <2>2. QED
    BY <1>1, <1>4, <2>1, SignalKeeps
<1>5. CASE Throws /\ UNCHANGED <<procs, ledger, strangers>>
  <2>1. Quiet /\ Winding
    BY <1>1, <1>5, StillWinding DEF Quiet
  <2>2. OnlyOwnSignalled'
    BY <1>5 DEF OnlyOwnSignalled
  <2>3. CASE inv.then = "pop"
    <3>1. inv' = Idle /\ result' = "failed"
      BY <1>5, <2>3 DEF Throws, Ends
    <3>2. NativeTyped'
      BY <1>1, <1>5, <3>1, IdleTyped DEF NativeTyped
    <3>3. QED
      BY <2>1, <2>2, <3>1, <3>2, InvocationEnds
  <2>4. CASE inv.then # "pop"
    <3>1. Goto("validate") /\ result' = result
      BY <1>5, <2>4 DEF Throws
    <3>2. inv.op = "up"
      BY <1>1, <2>4 DEF PlaceInv, StopsLate
    <3>3. inv' \in InvocationRecord
      BY <3>1, GotoFacts DEF StopSteps
    <3>4. NativeTyped'
      BY <1>1, <1>5, <3>1, <3>3 DEF NativeTyped
    <3>5. QED
      BY <2>1, <2>2, <3>1, <3>2, <3>4, GivesUp
  <2>5. QED
    BY <2>3, <2>4
<1>6. QED
  BY <1>3, <1>4, <1>5 DEF StopProcess

-----------------------------------------------------------------------------
LEMMA NativeInit == Init => NativeInv
<1> SUFFICES ASSUME Init PROVE NativeInv
  OBVIOUS
<1>1. /\ startup \in {"all", "available"} /\ procs = <<>> /\ log = [n \in Names |-> "absent"]
      /\ ledger = [status |-> "none", processes |-> <<>>, applications |-> [n \in Nodes |-> "none"]]
      /\ barrier = FALSE /\ pending = {} /\ console = "absent" /\ inv = Idle /\ result = "none"
      /\ everReady = {} /\ published = {} /\ strangers = {}
      /\ budget = [ups |-> MaxUps, downs |-> MaxDowns, exits |-> MaxExits, crashes |-> MaxCrashes]
  BY DEF Init
<1>2. /\ Starts = {} /\ Own = {}
  BY <1>1 DEF Starts, Own
<1>3. ledger.processes = <<>> /\ DOMAIN ledger.processes = {} /\ ToSet(ledger.processes) = {} /\ Len(ledger.processes) = 0
  BY <1>1 DEF ToSet
<1>4. NativeTyped
  <2>1. ledger \in LedgerRecord
    BY <1>1 DEF LedgerRecord, Outcomes
  <2>2. budget \in BudgetRecord
    BY <1>1, NativeBounds DEF BudgetRecord
  <2>3. procs \in Seq(ProcessRecord) /\ Len(procs) <= MaxStarts
    BY <1>1, NativeBounds
  <2>4. QED
    BY <1>1, <2>1, <2>2, <2>3, IdleTyped DEF NativeTyped
<1>5. inv.pc = "idle" /\ inv.op = "none"
  BY <1>1, IdleTyped
<1>6. ~StopsLate /\ ~Stopping /\ ~Preparing /\ ~RelayTurn /\ ~StartingUp
  BY <1>5 DEF StopsLate, Stopping, Preparing, RelayTurn, StartingUp, UpSteps
<1>7. ProcessInv
  BY <1>1, <1>2 DEF ProcessInv
<1>8. LedgerInv
  BY <1>3, PlanFacts DEF LedgerInv, IsInjective
<1>9. PlaceInv /\ ChildInv /\ SettledInv
  BY <1>1, <1>5, <1>6 DEF PlaceInv, ChildInv, SettledInv, UpSteps
<1>10. BarrierInv
  BY <1>1, <1>2, <1>5, <1>6 DEF BarrierInv, BarrierStep, BarrierPassed, ReleasedPassed
<1>11. StopInv /\ OnlyOwnSignalled /\ NothingUnrecorded
  BY <1>1, <1>2, <1>5 DEF StopInv, OnlyOwnSignalled, NothingUnrecorded
<1>12. QED
  BY <1>4, <1>7, <1>8, <1>9, <1>10, <1>11 DEF NativeInv

LEMMA NativeStands == ASSUME NativeInv, UNCHANGED vars PROVE NativeInv'
<1>1. /\ UNCHANGED <<startup, procs, log, ledger, barrier, pending, console, inv, result, everReady, published, strangers, budget>>
      /\ NativeTyped
  BY DEF vars, NativeInv
<1>2. Quiet
  BY <1>1, StillWinding DEF Quiet
<1>3. NativeTyped'
  BY <1>1 DEF NativeTyped
<1>4. QED
  BY <1>1, <1>2, <1>3, QuietKeeps

LEMMA NativeStep == ASSUME NativeInv, Next PROVE NativeInv'
<1>1. CASE ForeignStarts
  BY <1>1, ForeignStartsKeeps
<1>2. CASE Crash
  BY <1>2, CrashKeeps
<1>3. ASSUME NEW s \in Starts, Exits(s) \/ Orphaned(s) \/ Advance(s) \/ BecomesReady(s) \/ Released(s) \/ RelayPublishes(s)
      PROVE  NativeInv'
  BY <1>3, ExitsKeeps, AdvanceKeeps, BecomesReadyKeeps, ReleasedKeeps
<1>4. CASE UpCall
  BY <1>4, UpCallKeeps
<1>5. CASE Create
  BY <1>5, CreateKeeps
<1>6. CASE PrepareConsole
  BY <1>6, PrepareConsoleKeeps
<1>7. CASE Fork
  BY <1>7, ForkKeeps
<1>8. CASE Register
  BY <1>8, RegisterKeeps
<1>9. CASE OpenGate
  BY <1>9, OpenGateKeeps
<1>10. CASE Confirm
  BY <1>10, ConfirmKeeps
<1>11. CASE StartFails \/ ReadinessExit \/ Fails
  BY <1>11, UpFailsKeeps
<1>12. CASE Readiness
  BY <1>12, ReadinessKeeps
<1>13. CASE Admit
  BY <1>13, AdmitKeeps
<1>14. CASE Admitted
  BY <1>14, AdmittedKeeps
<1>15. CASE Recheck
  BY <1>15, RecheckKeeps
<1>16. CASE Publish
  BY <1>16, PublishKeeps
<1>17. CASE DownCall
  BY <1>17, DownCallKeeps
<1>18. CASE Validate
  BY <1>18, ValidateKeeps
<1>19. CASE Destroy
  BY <1>19, DestroyKeeps
<1>20. CASE StopProcess
  BY <1>20, StopProcessKeeps
<1>21. CASE Escalate
  BY <1>21, EscalateKeeps
<1>22. CASE StopEnds
  BY <1>22, StopEndsKeeps
<1>23. QED
  BY <1>1, <1>2, <1>3, <1>4, <1>5, <1>6, <1>7, <1>8, <1>9, <1>10, <1>11, <1>12, <1>13, <1>14, <1>15, <1>16,
     <1>17, <1>18, <1>19, <1>20, <1>21, <1>22 DEF Next

\* What the invariant says of the properties
LEMMA NativeProperties ==
  NativeInv => TypeOK /\ OnlyOwnSignalled /\ NothingUnrecorded /\ ReleaseMeansReady /\ StoppedMeansStopped
<1> SUFFICES ASSUME NativeInv PROVE TypeOK /\ OnlyOwnSignalled /\ NothingUnrecorded /\ ReleaseMeansReady /\ StoppedMeansStopped
  OBVIOUS
<1> USE DEF NativeInv
<1>1. ReleaseMeansReady
  BY DEF ReleaseMeansReady, BarrierInv, ReleasedPassed, Passed, AllReady
<1>2. StoppedMeansStopped
  BY DEF StoppedMeansStopped, StopInv
<1>3. \A p \in Pids : Cardinality(Occupant(p)) <= 1
  <2> SUFFICES ASSUME NEW p \in Pids PROVE Cardinality(Occupant(p)) <= 1
    OBVIOUS
  <2>1. \A s, t \in Occupant(p) : s = t
    BY DEF Occupant, ProcessInv
  <2>2. CASE Occupant(p) = {}
    BY <2>2, FS_EmptySet
  <2>3. ASSUME NEW s \in Occupant(p) PROVE Cardinality(Occupant(p)) <= 1
    <3>1. Occupant(p) = {s}
      BY <2>1
    <3>2. Cardinality({s}) = 1
      BY FS_Singleton
    <3>3. QED
      BY <3>1, <3>2
  <2>4. QED
    BY <2>2, <2>3
<1>4. /\ ledger.status \in {"none", "creating", "ready", "destroying"}
      /\ ledger.applications \in [Nodes -> {"none", "ready", "exited", "timeout"}]
  BY DEF NativeTyped, LedgerRecord, Outcomes
<1>5. procs \in Seq([name : Names \cup {Foreign}, pid : Pids, phase : Live \cup {"zombie", "gone"}, run : 0 .. MaxUps])
  BY DEF NativeTyped, ProcessRecord, Phases
<1>6. IsInjective(ledger.processes) /\ ToSet(ledger.processes) \subseteq Own /\ everReady \subseteq Own
  BY DEF LedgerInv, ProcessInv
<1>7. TypeOK
  BY <1>3, <1>4, <1>5, <1>6 DEF TypeOK, NativeTyped
<1>8. QED
  BY <1>1, <1>2, <1>7

-----------------------------------------------------------------------------
(***************************************************************************)
(* Compose execution: the inductive invariant.                             *)
(***************************************************************************)
ContainerPhases == {"none", "made", "running", "ready", "working", "exited"}
DockerObject == [id : 0 .. 4, ours : BOOLEAN, phase : ContainerPhases]
ComposeSteps == Starting \cup Rotating \cup {"idle", "validate", "withdrawn", "remove", "erase"}
ComposeTyped ==
  /\ admitAll \in BOOLEAN /\ answering \in {"always", "no", "again"} /\ release \in BOOLEAN /\ releasable \in BOOLEAN
  /\ docker \in [Named -> DockerObject] /\ memory \in [Named -> -1 .. 4] /\ disk \in [Named -> -1 .. 4]
  /\ admission \in [Apps -> {"none", "ready", "exited", "timeout"}]
  /\ graphStatus \in {"none", "creating", "ready", "destroying"} /\ step \in ComposeSteps
  /\ composeResult \in {"none", "killed", "ready", "failed", "stopped", "rotated"}

\* Only what the graph made works.
DockerInv ==
  \A n \in Named : /\ docker[n].id = 0 => docker[n].ours = FALSE
                   /\ docker[n].phase = "working" => docker[n].ours = TRUE

\* While docker answers, what the graph made is recorded, in memory and on disk.
Sound(records) ==
  answering = "always" => \A n \in Named : docker[n].ours = TRUE => records[n] \in {Pending, docker[n].id}
RecordInv == Sound(memory) /\ Sound(disk)

\* Records that are written before docker is asked
Both(n, value) == memory[n] = value /\ disk[n] = value
Place == DOMAIN Objects
Late == 4        \* the first of Composed in Objects
UpInv ==
  /\ step \in {"own", "create", "observe", "stage", "unstage", "forget"} =>
       /\ at \in Place
       /\ \A j \in Place : j >= Late /\ j >= at => memory[Objects[j]] = Unrecorded
  /\ step = "own" => \A j \in Place : j >= Late /\ j < at => Both(Objects[j], Pending)
  /\ step \in {"create", "observe", "stage", "unstage", "forget"} => at < Late
  /\ step = "create" => Both(Objects[at], Pending)
  /\ step = "compose" => \A j \in Place : j >= Late => Both(Objects[j], Pending)
  /\ step = "rotate" => Both(Rotation, Pending)

\* Records that go after the object has gone
GoneInv ==
  answering = "always" =>
    /\ step = "forget" => docker[Stage].ours = FALSE
    /\ step = "complete" => docker[Rotation].ours = FALSE
    /\ step = "erase" => \A n \in Named : n = LastRecorded => docker[n].ours = FALSE

\* The barrier stands only while the platform of the run that published it is recorded.
PlatformRecorded == memory["platform"] # Unrecorded /\ disk["platform"] # Unrecorded
ReleaseInv ==
  /\ release = TRUE \/ step \in {"publish", "ready"} => releasable = TRUE /\ PlatformRecorded
  /\ step \in {"withdrawn", "remove", "erase"} => release = FALSE

\* Of an earlier run, an outage may have left applications that nobody knows.
WorkInv ==
  \A a \in Apps : docker[a].phase = "working" /\ releasable = FALSE => answering = "again" /\ Both(a, Unrecorded)

ComposeInv ==
  /\ ComposeTyped /\ DockerInv /\ RecordInv /\ UpInv /\ GoneInv /\ ReleaseInv /\ WorkInv /\ OnlyOwnRemoved

-----------------------------------------------------------------------------
\* What is joined to a sequence
LEMMA Joined ==
  ASSUME NEW S, NEW p \in Seq(S), NEW q \in Seq(S), NEW r, r = p \o q
  PROVE  /\ r \in Seq(S) /\ Len(r) = Len(p) + Len(q)
         /\ \A i \in 1 .. Len(p) : r[i] = p[i]
         /\ \A i \in 1 .. Len(q) : r[Len(p) + i] = q[i]
<1>1. Len(p) \in Nat /\ Len(q) \in Nat
  OBVIOUS
<1>2. r \in Seq(S) /\ Len(r) = Len(p) + Len(q)
  OBVIOUS
<1>3. \A i \in 1 .. Len(p) : r[i] = p[i]
  BY <1>1
<1>4. ASSUME NEW i \in 1 .. Len(q) PROVE r[Len(p) + i] = q[i]
  <2>1. Len(p) + i \in 1 .. Len(p) + Len(q) /\ Len(p) + i > Len(p) /\ (Len(p) + i) - Len(p) = i
    BY <1>1
  <2>2. QED
    BY <1>1, <2>1
<1>5. QED
  BY <1>2, <1>3, <1>4

\* The objects in the order they are recorded
LEMMA ObjectFacts ==
  /\ Place = 1 .. Len(Objects) /\ Len(Objects) \in Nat /\ Len(Objects) >= 5
  /\ Objects[1] = "history" /\ Objects[2] = "credentials" /\ Objects[3] = Stage
  /\ \A j \in Place : Objects[j] \in Named /\ Objects[j] # Rotation
  /\ \A i, j \in Place : Objects[i] = Objects[j] => i = j
  /\ \A n : n \in ToSet(Composed) <=> \E j \in Place : j >= Late /\ Objects[j] = n
  /\ \A a \in Apps : a \in ToSet(Composed)
  /\ \A n \in ToSet(Services) : n \in ToSet(Composed)
  /\ "platform" \in ToSet(Composed) /\ "platform" \in ToSet(Services) /\ Rotation \in Named
<1> DEFINE S == STRING \cup {"platform", "network", "history", "credentials", "stage", "rotation"}
<1>0. "platform" \in S /\ "network" \in S /\ "history" \in S /\ "credentials" \in S /\ "stage" \in S /\ "rotation" \in S
  OBVIOUS
<1>1. /\ Extensions \in Seq(S) /\ Applications \in Seq(S)
      /\ Len(Extensions) \in Nat /\ Len(Applications) \in Nat
  BY ServicesAssumption
<1> HIDE DEF S
<1>2. /\ Services \in Seq(S) /\ Len(Services) = 1 + Len(Extensions) + Len(Applications)
      /\ Services[1] = "platform"
      /\ \A i \in 1 .. Len(Applications) : Services[1 + Len(Extensions) + i] = Applications[i]
  <2>0. PICK p : p = <<"platform">> \o Extensions
    OBVIOUS
  <2>1. <<"platform">> \in Seq(S) /\ Len(<<"platform">>) = 1 /\ <<"platform">>[1] = "platform"
    BY <1>0
  <2>2. p \in Seq(S) /\ Len(p) = 1 + Len(Extensions) /\ p[1] = "platform"
    BY <1>1, <2>0, <2>1, Joined
  <2>3. Services = p \o Applications
    BY <2>0 DEF Services
  <2>4. /\ Services \in Seq(S) /\ Len(Services) = Len(p) + Len(Applications)
        /\ \A i \in 1 .. Len(p) : Services[i] = p[i]
        /\ \A i \in 1 .. Len(Applications) : Services[Len(p) + i] = Applications[i]
    <3>1. p \in Seq(S) /\ Applications \in Seq(S)
      BY <1>1, <2>2
    <3>2. Services \in Seq(S) /\ Len(Services) = Len(p) + Len(Applications)
      BY <2>3, <3>1, Joined
    <3>3. \A i \in 1 .. Len(p) : Services[i] = p[i]
      BY <2>3, <3>1, Joined
    <3>4. \A i \in 1 .. Len(Applications) : Services[Len(p) + i] = Applications[i]
      BY <2>3, <3>1, Joined
    <3>5. QED
      BY <3>2, <3>3, <3>4
  <2>5. 1 \in 1 .. Len(p)
    BY <1>1, <2>2
  <2>6. QED
    BY <1>1, <2>2, <2>4, <2>5
<1> DEFINE k == Len(Services)
<1>3. k \in Nat /\ k >= 1
  BY <1>1, <1>2
<1>4. /\ Composed \in Seq(S) /\ Len(Composed) = k + 1 /\ Composed[1] = "network"
      /\ \A i \in 1 .. k : Composed[i + 1] = Services[i]
  <2>1. <<"network">> \in Seq(S) /\ Len(<<"network">>) = 1 /\ <<"network">>[1] = "network"
    BY <1>0
  <2>2. /\ Composed \in Seq(S) /\ Len(Composed) = 1 + k /\ Composed[1] = "network"
        /\ \A i \in 1 .. k : Composed[1 + i] = Services[i]
    BY <1>2, <2>1, Joined DEF Composed
  <2> HIDE DEF k
  <2>3. \A i \in 1 .. k : i + 1 = 1 + i
    OBVIOUS
  <2>4. QED
    BY <1>3, <2>2, <2>3
<1>5. /\ Objects \in Seq(S) /\ Len(Objects) = k + 4
      /\ Objects[1] = "history" /\ Objects[2] = "credentials" /\ Objects[3] = Stage
      /\ \A i \in 1 .. k + 1 : Objects[i + 3] = Composed[i]
  <2>0. PICK p : p = <<"history", "credentials">> \o <<"stage">>
    OBVIOUS
  <2>1. p \in Seq(S) /\ Len(p) = 3 /\ p[1] = "history" /\ p[2] = "credentials" /\ p[3] = "stage"
    BY <1>0, <2>0
  <2>2. Objects = p \o Composed
    BY <2>0 DEF Objects, Volumes, Stage
  <2>3. /\ Objects \in Seq(S) /\ Len(Objects) = 3 + Len(Composed) /\ \A i \in 1 .. 3 : Objects[i] = p[i]
        /\ \A i \in 1 .. Len(Composed) : Objects[3 + i] = Composed[i]
    <3>1. p \in Seq(S) /\ Composed \in Seq(S)
      BY <1>4, <2>1
    <3>2. Objects \in Seq(S) /\ Len(Objects) = Len(p) + Len(Composed)
      BY <2>2, <3>1, Joined
    <3>5. \A i \in 1 .. Len(p) : Objects[i] = p[i]
      BY <2>2, <3>1, Joined
    <3>6. \A i \in 1 .. Len(Composed) : Objects[Len(p) + i] = Composed[i]
      BY <2>2, <3>1, Joined
    <3>3. Len(p) = 3
      BY <2>1
    <3>4. QED
      BY <3>2, <3>3, <3>5, <3>6, Zenon
  <2> HIDE DEF k
  <2>4. \A i \in 1 .. k + 1 : i + 3 = 3 + i
    BY <1>3
  <2>5. QED
    BY <1>3, <1>4, <2>1, <2>3, <2>4 DEF Stage
<1>6. /\ Recordable \in Seq(S) /\ Len(Recordable) = k + 5 /\ Recordable[k + 5] = Rotation
      /\ \A i \in 1 .. k + 4 : Recordable[i] = Objects[i]
  <2>1. <<"rotation">> \in Seq(S) /\ Len(<<"rotation">>) = 1 /\ <<"rotation">>[1] = "rotation"
    BY <1>0
  <2>2. /\ Recordable \in Seq(S) /\ Len(Recordable) = Len(Objects) + 1
        /\ \A i \in 1 .. Len(Objects) : Recordable[i] = Objects[i]
        /\ Recordable[Len(Objects) + 1] = "rotation"
    BY <1>5, <2>1, Joined DEF Recordable, Rotation
  <2> HIDE DEF k
  <2>3. (k + 4) + 1 = k + 5
    BY <1>3
  <2>4. QED
    BY <1>5, <2>2, <2>3 DEF Rotation
<1>7. DOMAIN Recordable = 1 .. k + 5 /\ DOMAIN Composed = 1 .. k + 1 /\ Place = 1 .. k + 4
  BY <1>3, <1>4, <1>5, <1>6 DEF Place
<1>8. DOMAIN Services = 1 .. k /\ DOMAIN Applications = 1 .. Len(Applications)
  BY <1>1, <1>2
<1>9. \A i, j \in 1 .. k + 5 : Recordable[i] = Recordable[j] => i = j
  BY <1>7, ServicesAssumption DEF IsInjective
<1>10. \A i \in 1 .. Len(Applications) : 1 + Len(Extensions) + i \in 1 .. k
  BY <1>1, <1>2
<1> HIDE DEF k
<1>11. \A i \in 1 .. k + 4 : i \in 1 .. k + 5 /\ i # k + 5 /\ k + 5 \in 1 .. k + 5
  BY <1>3
<1>12. \A j \in Place : Objects[j] \in Named /\ Objects[j] # Rotation
  BY <1>6, <1>7, <1>9, <1>11 DEF Named, ToSet
<1>13. \A i, j \in Place : Objects[i] = Objects[j] => i = j
  BY <1>6, <1>7, <1>9, <1>11
<1>14. \A n : n \in ToSet(Composed) <=> \E j \in Place : j >= Late /\ Objects[j] = n
  <2>1. ASSUME NEW n \in ToSet(Composed) PROVE \E j \in Place : j >= Late /\ Objects[j] = n
    <3>1. PICK i \in 1 .. k + 1 : Composed[i] = n
      BY <1>7, <2>1 DEF ToSet
    <3>2. i + 3 \in Place /\ i + 3 >= Late
      BY <1>3, <1>7, <3>1 DEF Late
    <3>3. QED
      BY <1>5, <3>1, <3>2
  <2>2. ASSUME NEW n, NEW j \in Place, j >= Late, Objects[j] = n PROVE n \in ToSet(Composed)
    <3>1. j - 3 \in 1 .. k + 1 /\ (j - 3) + 3 = j
      BY <1>3, <1>7, <2>2 DEF Late
    <3>2. Composed[j - 3] = n
      BY <1>5, <2>2, <3>1
    <3>3. QED
      BY <1>7, <3>1, <3>2 DEF ToSet
  <2>3. QED
    BY <2>1, <2>2
<1>15. \A n \in ToSet(Services) : n \in ToSet(Composed)
  <2>1. \A i \in 1 .. k : i + 1 \in 1 .. k + 1
    BY <1>3
  <2>2. QED
    BY <1>4, <1>7, <1>8, <2>1 DEF ToSet
<1>16. \A a \in Apps : a \in ToSet(Services)
  BY <1>2, <1>8, <1>10 DEF Apps, ToSet
<1>17. "platform" \in ToSet(Services)
  BY <1>2, <1>3, <1>8 DEF ToSet
<1>18. Rotation \in Named
  BY <1>6, <1>7, <1>11, <1>3 DEF Named, ToSet
<1>19. Place = 1 .. Len(Objects) /\ Len(Objects) \in Nat /\ Len(Objects) >= 5
  BY <1>3, <1>5, <1>7
<1>20. QED
  BY <1>5, <1>12, <1>13, <1>14, <1>15, <1>16, <1>17, <1>18, <1>19
-----------------------------------------------------------------------------
(* Docker and the records, one kind of change at a time.                   *)

LEMMA AppsNamed ==
  \A n \in Apps \cup ToSet(Composed) \cup ToSet(Services) \cup Containers \cup {"platform", Rotation, Stage} : n \in Named
<1>1. \A n \in ToSet(Composed) : n \in Named
  BY ObjectFacts
<1>2. 3 \in Place /\ Objects[3] = Stage
  BY ObjectFacts
<1>3. Stage \in Named
  BY <1>2, ObjectFacts
<1>4. QED
  BY <1>1, <1>3, ObjectFacts DEF Containers

\* Which names differ
LEMMA NamesDiffer ==
  /\ "platform" # Rotation /\ "platform" # Stage /\ "platform" # "history"
  /\ "platform" \notin ToSet(Volumes)
  /\ \A a \in Apps : a # Rotation /\ a # Stage
  /\ \A i, j \in Place : i < Late /\ j >= Late => Objects[i] # Objects[j]
  /\ \A j \in Place : j >= Late => Objects[j] # "history" /\ Objects[j] # Stage
<1>1. ToSet(Volumes) = {"history", "credentials"}
  BY DEF ToSet, Volumes
<1>2. "platform" # Rotation /\ "platform" # Stage /\ "platform" # "history" /\ "platform" # "credentials"
  BY DEF Rotation, Stage
<1>3. \A i, j \in Place : i < Late /\ j >= Late => Objects[i] # Objects[j]
  BY ObjectFacts DEF Late
<1>4. 1 \in Place /\ 3 \in Place /\ 1 < Late /\ 3 < Late
  BY ObjectFacts DEF Late
<1>5. \A j \in Place : j >= Late => Objects[j] # "history" /\ Objects[j] # Stage
  BY <1>3, <1>4, ObjectFacts
<1>6. \A a \in Apps : a # Rotation /\ a # Stage
  BY <1>5, ObjectFacts
<1>7. QED
  BY <1>1, <1>2, <1>3, <1>5, <1>6

\* An identity that nothing bears
LEMMA FreshFacts ==
  ASSUME ComposeTyped, NEW n \in Named
  PROVE  Fresh(n) \in 1 .. 4
<1>1. memory[n] \in -1 .. 4 /\ disk[n] \in -1 .. 4 /\ docker[n].id \in 0 .. 4
  BY DEF ComposeTyped, DockerObject
<1>2. \E k \in 1 .. 4 : k \notin {memory[n], disk[n], docker[n].id}
  <2>1. ASSUME NEW a \in -1 .. 4, NEW b \in -1 .. 4, NEW c \in 0 .. 4
        PROVE  \E k \in 1 .. 4 : k # a /\ k # b /\ k # c
    <3>1. 1 \in 1 .. 4 /\ 2 \in 1 .. 4 /\ 3 \in 1 .. 4 /\ 4 \in 1 .. 4
      OBVIOUS
    <3>2. (1 # a /\ 1 # b /\ 1 # c) \/ (2 # a /\ 2 # b /\ 2 # c) \/ (3 # a /\ 3 # b /\ 3 # c) \/ (4 # a /\ 4 # b /\ 4 # c)
      OBVIOUS
    <3>3. QED
      BY <3>1, <3>2
  <2>2. QED
    BY <1>1, <2>1
<1>3. QED
  BY <1>2 DEF Fresh

\* What observe() returns
LEMMA ObservedFacts ==
  ASSUME ComposeTyped, NEW n \in Named
  PROVE  /\ Observed(n) \in -1 .. 4 /\ Observed(n) \in {memory[n], docker[n].id}
         /\ Observed(n) = Unrecorded <=> memory[n] = Unrecorded
<1>1. memory[n] \in -1 .. 4 /\ docker[n].id \in 0 .. 4
  BY DEF ComposeTyped, DockerObject
<1>2. QED
  BY <1>1 DEF Observed, Unrecorded

\* Docker objects fade: none becomes ours, and none works unreleased.
Fades ==
  \A n \in Named :
    /\ docker'[n].ours = TRUE => docker[n].ours = TRUE /\ docker'[n].id = docker[n].id
    /\ docker'[n].id = 0 => docker'[n].ours = FALSE
    /\ docker'[n].phase = "working" =>
         docker'[n].ours = TRUE /\ (docker[n].phase = "working" \/ releasable = TRUE)
SameRecords == UNCHANGED <<answering, memory, disk, releasable>>

LEMMA FadesKeeps ==
  ASSUME DockerInv, RecordInv, WorkInv, Fades, SameRecords, releasable \in BOOLEAN
  PROVE  DockerInv' /\ RecordInv' /\ WorkInv'
<1>1. DockerInv'
  BY DEF DockerInv, Fades
<1>2. RecordInv'
  BY DEF RecordInv, Sound, Fades, SameRecords
<1>3. WorkInv'
  <2>1. SUFFICES ASSUME NEW a \in Apps, docker'[a].phase = "working", releasable = FALSE
                 PROVE  answering = "again" /\ Both(a, Unrecorded)
    BY DEF WorkInv, SameRecords, Both
  <2>2. docker[a].phase = "working"
    BY <2>1, AppsNamed DEF Fades
  <2>3. QED
    BY <2>1, <2>2 DEF WorkInv
<1>4. QED
  BY <1>1, <1>2, <1>3

LEMMA SameFades == ASSUME DockerInv, UNCHANGED docker PROVE Fades
  BY DEF DockerInv, Fades

\* A container's phase changes
LEMMA PhaseFades ==
  ASSUME docker \in [Named -> DockerObject], DockerInv, NEW n \in Named, NEW p \in ContainerPhases,
         docker' = [docker EXCEPT ![n].phase = p],
         p = "working" => docker[n].ours = TRUE /\ releasable = TRUE
  PROVE  docker' \in [Named -> DockerObject] /\ Fades
<1>1. /\ docker' \in [Named -> DockerObject]
      /\ \A m \in Named : docker'[m].ours = docker[m].ours /\ docker'[m].id = docker[m].id
      /\ \A m \in Named : docker'[m].phase = IF m = n THEN p ELSE docker[m].phase
  BY DEF DockerObject
<1>2. QED
  BY <1>1 DEF DockerInv, Fades

LEMMA AbsentFades ==
  ASSUME docker \in [Named -> DockerObject], DockerInv, NEW n \in Named,
         docker' = [docker EXCEPT ![n] = Absent]
  PROVE  docker' \in [Named -> DockerObject] /\ Fades /\ docker'[n].ours = FALSE
<1>1. Absent \in DockerObject /\ Absent.id = 0 /\ Absent.ours = FALSE /\ Absent.phase = "none"
  BY DEF Absent, DockerObject, ContainerPhases
<1>2. docker' \in [Named -> DockerObject] /\ docker'[n] = Absent /\ \A m \in Named : m # n => docker'[m] = docker[m]
  BY <1>1
<1>3. QED
  BY <1>1, <1>2 DEF DockerInv, Fades

\* An object is made whose record was saved before
LEMMA MadeKeeps ==
  ASSUME ComposeTyped, DockerInv, RecordInv, WorkInv, NEW n \in Named, SameRecords,
         Both(n, Pending), docker' = [docker EXCEPT ![n] = Made(n, TRUE)]
  PROVE  docker' \in [Named -> DockerObject] /\ DockerInv' /\ RecordInv' /\ WorkInv'
<1>1. PICK o : o = Made(n, TRUE)
  OBVIOUS
<1>2. o \in DockerObject /\ o.id # 0 /\ o.ours = TRUE /\ o.phase = "made"
  BY <1>1, FreshFacts DEF Made, DockerObject, ContainerPhases
<1>3. docker \in [Named -> DockerObject]
  BY DEF ComposeTyped
<1>4. docker' \in [Named -> DockerObject] /\ docker'[n] = o /\ \A m \in Named : m # n => docker'[m] = docker[m]
  BY <1>1, <1>2, <1>3
<1>5. DockerInv'
  BY <1>2, <1>4 DEF DockerInv
<1>6. RecordInv'
  BY <1>4 DEF RecordInv, Sound, SameRecords, Both
<1>7. WorkInv'
  <2>1. SUFFICES ASSUME NEW a \in Apps, docker'[a].phase = "working", releasable = FALSE
                 PROVE  answering = "again" /\ Both(a, Unrecorded)
    BY DEF WorkInv, SameRecords, Both
  <2>2. docker[a].phase = "working"
    BY <1>2, <1>4, <2>1, AppsNamed
  <2>3. QED
    BY <2>1, <2>2 DEF WorkInv
<1>8. QED
  BY <1>4, <1>5, <1>6, <1>7

\* The records change
RecordsKept ==
  \A n \in Named :
    /\ answering = "always" /\ docker[n].ours = TRUE =>
         memory'[n] \in {Pending, docker[n].id} /\ disk'[n] \in {Pending, docker[n].id}
    /\ answering = "again" /\ n \in Apps /\ docker[n].phase = "working" /\ Both(n, Unrecorded) =>
         memory'[n] = Unrecorded /\ disk'[n] = Unrecorded

LEMMA RecordsKeep ==
  ASSUME DockerInv, RecordInv, WorkInv, RecordsKept, UNCHANGED <<docker, answering>>,
         releasable' = releasable \/ releasable' = TRUE
  PROVE  DockerInv' /\ RecordInv' /\ WorkInv'
<1>1. DockerInv'
  BY DEF DockerInv
<1>2. RecordInv'
  BY DEF RecordInv, Sound, RecordsKept
<1>3. WorkInv'
  <2>1. SUFFICES ASSUME NEW a \in Apps, docker[a].phase = "working", releasable' = FALSE
                 PROVE  answering = "again" /\ memory'[a] = Unrecorded /\ disk'[a] = Unrecorded
    BY DEF WorkInv, Both
  <2>2. releasable = FALSE
    BY <2>1
  <2>3. answering = "again" /\ Both(a, Unrecorded)
    BY <2>1, <2>2 DEF WorkInv
  <2>4. QED
    BY <2>1, <2>3, AppsNamed DEF RecordsKept
<1>4. QED
  BY <1>1, <1>2, <1>3
-----------------------------------------------------------------------------
(* Where the invocation is.                                                *)

Calm == step' \in {"idle", "validate", "start", "await", "admit", "created", "rotating", "rotated"}
ReleaseKept == release' = TRUE => releasable' = TRUE /\ memory'["platform"] # Unrecorded /\ disk'["platform"] # Unrecorded

LEMMA ReleaseStays ==
  ASSUME ReleaseInv, UNCHANGED <<release, releasable, memory, disk>>
  PROVE  ReleaseKept
  BY DEF ReleaseInv, PlatformRecorded, ReleaseKept

LEMMA CalmKeeps ==
  ASSUME Calm, ReleaseKept
  PROVE  UpInv' /\ GoneInv' /\ ReleaseInv'
<1>1. UpInv'
  BY DEF Calm, UpInv
<1>2. GoneInv'
  BY DEF Calm, GoneInv
<1>3. ReleaseInv'
  BY DEF Calm, ReleaseKept, ReleaseInv, PlatformRecorded
<1>4. QED
  BY <1>1, <1>2, <1>3

LEMMA UpStays == ASSUME UpInv, UNCHANGED <<step, at, memory, disk>> PROVE UpInv'
  BY DEF UpInv, Both
LEMMA ReleaseInvStays ==
  ASSUME ReleaseInv, UNCHANGED <<step, release, releasable, memory, disk>>
  PROVE  ReleaseInv'
  BY DEF ReleaseInv, PlatformRecorded
LEMMA LastStays == ASSUME UNCHANGED memory PROVE LastRecorded' = LastRecorded
  BY DEF LastRecorded, ToRemove
LEMMA GoneStays ==
  ASSUME GoneInv, Fades, docker' \in [Named -> DockerObject], UNCHANGED <<answering, step, memory>>
  PROVE  GoneInv'
<1>1. \A n \in Named : docker[n].ours = FALSE => docker'[n].ours = FALSE
  BY DEF Fades, DockerObject
<1>2. Stage \in Named /\ Rotation \in Named
  BY AppsNamed
<1>3. LastRecorded' = LastRecorded
  BY LastStays
<1>4. QED
  BY <1>1, <1>2, <1>3 DEF GoneInv

\* Only docker changes
LEMMA DockerOnly ==
  ASSUME ComposeInv, Fades, docker' \in [Named -> DockerObject], SameRecords,
         UNCHANGED <<step, at, release>>
  PROVE  DockerInv' /\ RecordInv' /\ WorkInv' /\ UpInv' /\ GoneInv' /\ ReleaseInv'
<1>1. releasable \in BOOLEAN
  BY DEF ComposeInv, ComposeTyped
<1>2. DockerInv' /\ RecordInv' /\ WorkInv'
  BY <1>1, FadesKeeps DEF ComposeInv
<1>3. UpInv' /\ GoneInv' /\ ReleaseInv'
  BY UpStays, GoneStays, ReleaseInvStays DEF ComposeInv, SameRecords
<1>4. QED
  BY <1>2, <1>3

\* Docker changes and the invocation goes on
LEMMA DockerCalm ==
  ASSUME ComposeInv, Fades, SameRecords, Calm, UNCHANGED release
  PROVE  DockerInv' /\ RecordInv' /\ WorkInv' /\ UpInv' /\ GoneInv' /\ ReleaseInv'
<1>1. releasable \in BOOLEAN
  BY DEF ComposeInv, ComposeTyped
<1>2. DockerInv' /\ RecordInv' /\ WorkInv'
  BY <1>1, FadesKeeps DEF ComposeInv
<1>3. ReleaseKept
  BY ReleaseStays DEF ComposeInv, SameRecords
<1>4. QED
  BY <1>2, <1>3, CalmKeeps

-----------------------------------------------------------------------------
(* One lemma for every kind of step.                                       *)

\* Nothing but the place of the invocation changes
LEMMA QuietSteps ==
  ASSUME ComposeInv,
         Rollback \/ AwaitService \/ ComposeReady \/ RotateFails \/ StopFails \/ StopReturns
  PROVE  ComposeInv'
<1>1. /\ UNCHANGED <<docker, release, harmed, admitAll, admission>> /\ SameRecords
      /\ graphStatus' = graphStatus \/ graphStatus' = "ready"
  BY DEF Rollback, AwaitService, ComposeReady, RotateFails, StopFails, StopReturns, about, record, SameRecords
<1>2. /\ Calm
      /\ composeResult' = composeResult \/ composeResult' \in {"ready", "failed", "stopped"}
  BY DEF Rollback, AwaitService, ComposeReady, RotateFails, StopFails, StopReturns, Continue, Finish, Calm
<1>3. ComposeTyped'
  BY <1>1, <1>2 DEF ComposeInv, ComposeTyped, SameRecords, Calm, ComposeSteps, Starting, Rotating
<1>4. Fades
  BY <1>1, SameFades DEF ComposeInv
<1>5. DockerInv' /\ RecordInv' /\ WorkInv' /\ UpInv' /\ GoneInv' /\ ReleaseInv'
  BY <1>1, <1>2, <1>4, DockerCalm
<1>6. OnlyOwnRemoved'
  BY <1>1 DEF ComposeInv, OnlyOwnRemoved
<1>7. QED
  BY <1>3, <1>5, <1>6 DEF ComposeInv

\* The state of docker changes, the invocation stays where it is
LEMMA StrangerStep == ASSUME ComposeInv, StrangerActs PROVE ComposeInv'
<1>1. /\ UNCHANGED <<release, harmed, admitAll, admission, graphStatus, composeResult, step, at>> /\ SameRecords
  BY DEF StrangerActs, record, SameRecords
<1>2. docker \in [Named -> DockerObject] /\ DockerInv /\ ComposeTyped
  BY DEF ComposeInv, ComposeTyped
<1>3. PICK n \in Named : docker' = [docker EXCEPT ![n] = IF docker[n].id = 0 THEN Made(n, FALSE) ELSE Absent]
  BY DEF StrangerActs
<1>4. docker' \in [Named -> DockerObject] /\ Fades
  <2>1. CASE docker[n].id = 0
    <3>1. PICK o : o = Made(n, FALSE)
      OBVIOUS
    <3>2. o \in DockerObject /\ o.ours = FALSE /\ o.phase = "made"
      BY <1>2, <3>1, FreshFacts DEF Made, DockerObject, ContainerPhases
    <3>3. docker' \in [Named -> DockerObject] /\ docker'[n] = o /\ \A m \in Named : m # n => docker'[m] = docker[m]
      BY <1>2, <1>3, <2>1, <3>1, <3>2
    <3>4. QED
      BY <1>2, <3>2, <3>3 DEF Fades, DockerInv
  <2>2. CASE docker[n].id # 0
    <3>1. docker' = [docker EXCEPT ![n] = Absent]
      BY <1>3, <2>2
    <3>2. QED
      BY <1>2, <3>1, AbsentFades
  <2>3. QED
    BY <2>1, <2>2
<1>5. DockerInv' /\ RecordInv' /\ WorkInv' /\ UpInv' /\ GoneInv' /\ ReleaseInv'
  BY <1>1, <1>4, DockerOnly
<1>6. ComposeTyped'
  BY <1>1, <1>2, <1>4 DEF ComposeTyped, SameRecords
<1>7. QED
  BY <1>1, <1>5, <1>6 DEF ComposeInv, OnlyOwnRemoved

LEMMA PhaseSteps ==
  ASSUME ComposeInv, NEW n, NEW p \in ContainerPhases, docker' = [docker EXCEPT ![n].phase = p],
         p = "working" => docker[n].ours = TRUE /\ releasable = TRUE
  PROVE  docker' \in [Named -> DockerObject] /\ Fades
<1>1. docker \in [Named -> DockerObject] /\ DockerInv
  BY DEF ComposeInv, ComposeTyped
<1>2. CASE n \in Named
  BY <1>1, <1>2, PhaseFades
<1>3. CASE n \notin Named
  <2>1. docker' = docker
    BY <1>1, <1>3
  <2>2. QED
    BY <1>1, <2>1, SameFades
<1>4. QED
  BY <1>2, <1>3

\* A container runs on, or is stopped
LEMMA PhaseStep ==
  ASSUME ComposeInv, NEW n, StopLate \/ StopContainer \/ (n \in Containers /\ ContainerRuns(n))
  PROVE  ComposeInv'
<1>1. UNCHANGED <<release, admitAll, admission, graphStatus, composeResult, step, at>> /\ SameRecords
  BY DEF StopLate, StopContainer, ContainerRuns, about, record, SameRecords
<1>2. docker' \in [Named -> DockerObject] /\ Fades
  <2>1. "ready" \in ContainerPhases /\ "working" \in ContainerPhases /\ "exited" \in ContainerPhases
    BY DEF ContainerPhases
  <2>2. CASE StopLate
    <3>1. PICK a : docker' = [docker EXCEPT ![a].phase = "exited"]
      BY <2>2 DEF StopLate
    <3>2. QED
      BY <2>1, <3>1, PhaseSteps
  <2>3. CASE StopContainer
    <3>1. PICK a : docker' = [docker EXCEPT ![a].phase = "exited"]
      BY <2>3 DEF StopContainer
    <3>2. QED
      BY <2>1, <3>1, PhaseSteps
  <2>4. CASE n \in Containers /\ ContainerRuns(n)
    <3>1. docker[n].ours = TRUE
      <4>1. n \in Named /\ docker[n].ours
        BY <2>4, AppsNamed DEF ContainerRuns
      <4>2. docker[n].ours \in BOOLEAN
        BY <4>1 DEF ComposeInv, ComposeTyped, DockerObject
      <4>3. QED
        BY <4>1, <4>2
    <3>2. \/ docker' = [docker EXCEPT ![n].phase = "ready"]
          \/ release = TRUE /\ docker' = [docker EXCEPT ![n].phase = "working"]
          \/ docker' = [docker EXCEPT ![n].phase = "exited"]
      BY <2>4 DEF ContainerRuns, ComposeInv, ComposeTyped
    <3>3. release = TRUE => releasable = TRUE
      BY DEF ComposeInv, ReleaseInv
    <3>4. QED
      BY <2>1, <3>1, <3>2, <3>3, PhaseSteps
  <2>5. QED
    BY <2>2, <2>3, <2>4
<1>3. harmed' = harmed
  <2>1. CASE StopContainer
    BY <2>1 DEF StopContainer, Refuses, Mismatch, Harm
  <2>2. QED
    BY <2>1 DEF StopLate, ContainerRuns
<1>4. DockerInv' /\ RecordInv' /\ WorkInv' /\ UpInv' /\ GoneInv' /\ ReleaseInv'
  BY <1>1, <1>2, DockerOnly
<1>5. ComposeTyped'
  BY <1>1, <1>2 DEF ComposeInv, ComposeTyped, SameRecords
<1>6. QED
  BY <1>3, <1>4, <1>5 DEF ComposeInv, OnlyOwnRemoved

\* Docker starts, runs or removes something and the invocation goes on
LEMMA ServiceSteps ==
  ASSUME ComposeInv, StartService \/ RotateRuns
  PROVE  ComposeInv'
<1>1. UNCHANGED <<release, harmed, admitAll, admission, graphStatus, composeResult>> /\ SameRecords /\ Calm
  BY DEF StartService, RotateRuns, about, record, SameRecords, Continue, Calm
<1>2. "running" \in ContainerPhases /\ "exited" \in ContainerPhases
  BY DEF ContainerPhases
<1>3. \/ docker' = [docker EXCEPT ![Services[at]].phase = "running"]
      \/ docker' = [docker EXCEPT ![Rotation].phase = "exited"]
  BY DEF StartService, RotateRuns
<1>4. docker' \in [Named -> DockerObject] /\ Fades
  BY <1>2, <1>3, PhaseSteps
<1>5. DockerInv' /\ RecordInv' /\ WorkInv' /\ UpInv' /\ GoneInv' /\ ReleaseInv'
  BY <1>1, <1>4, DockerCalm
<1>6. ComposeTyped'
  BY <1>1, <1>4 DEF ComposeInv, ComposeTyped, SameRecords, Calm, ComposeSteps, Starting, Rotating
<1>7. QED
  BY <1>1, <1>5, <1>6 DEF ComposeInv, OnlyOwnRemoved

LEMMA StartAppsStep == ASSUME ComposeInv, StartApplications PROVE ComposeInv'
<1>1. /\ UNCHANGED <<release, harmed, admitAll, graphStatus, composeResult>> /\ SameRecords /\ Calm
      /\ admission' = [a \in Apps |-> "none"]
  BY DEF StartApplications, about, record, SameRecords, Continue, Calm
<1>2. PICK started : docker' = [n \in Named |-> IF n \in started THEN [docker[n] EXCEPT !.phase = "running"] ELSE docker[n]]
  BY DEF StartApplications
<1>3. docker \in [Named -> DockerObject] /\ DockerInv
  BY DEF ComposeInv, ComposeTyped
<1>4. \A n \in Named : /\ docker'[n] \in DockerObject /\ docker'[n].id = docker[n].id /\ docker'[n].ours = docker[n].ours
                       /\ docker'[n].phase = docker[n].phase \/ docker'[n].phase = "running"
  BY <1>2, <1>3 DEF DockerObject, ContainerPhases
<1>5. docker' \in [Named -> DockerObject] /\ Fades
  <2>1. docker' \in [Named -> DockerObject]
    BY <1>2, <1>4
  <2>2. QED
    BY <1>3, <1>4, <2>1 DEF Fades, DockerInv
<1>6. DockerInv' /\ RecordInv' /\ WorkInv' /\ UpInv' /\ GoneInv' /\ ReleaseInv'
  BY <1>1, <1>5, DockerCalm
<1>7. ComposeTyped'
  BY <1>1, <1>5 DEF ComposeInv, ComposeTyped, SameRecords, Calm, ComposeSteps, Starting, Rotating
<1>8. QED
  BY <1>1, <1>6, <1>7 DEF ComposeInv, OnlyOwnRemoved

LEMMA AdmitStep == ASSUME ComposeInv, AdmitApplication PROVE ComposeInv'
<1>1. UNCHANGED <<docker, release, harmed, admitAll, graphStatus, composeResult, step, at>> /\ SameRecords
  BY DEF AdmitApplication, about, record, SameRecords
<1>2. PICK a \in Apps, outcome \in {"ready", "exited", "timeout"} : admission' = [admission EXCEPT ![a] = outcome]
  <2>1. PICK a \in Apps : \E o \in Outcome(a) : admission' = [admission EXCEPT ![a] = o]
    BY DEF AdmitApplication
  <2>2. PICK o \in Outcome(a) : admission' = [admission EXCEPT ![a] = o]
    BY <2>1
  <2>3. o \in {"ready", "exited", "timeout"}
    BY <2>2 DEF Outcome
  <2>4. QED
    BY <2>2, <2>3
<1>3. outcome \in {"none", "ready", "exited", "timeout"}
  OBVIOUS
<1>4. docker' \in [Named -> DockerObject] /\ Fades
  BY <1>1, SameFades DEF ComposeInv, ComposeTyped
<1>5. DockerInv' /\ RecordInv' /\ WorkInv' /\ UpInv' /\ GoneInv' /\ ReleaseInv'
  BY <1>1, <1>4, DockerOnly
<1>6. admission' \in [Apps -> {"none", "ready", "exited", "timeout"}]
  BY <1>2, <1>3 DEF ComposeInv, ComposeTyped
<1>7. ComposeTyped'
  BY <1>1, <1>4, <1>6 DEF ComposeInv, ComposeTyped, SameRecords
<1>8. QED
  BY <1>1, <1>5, <1>7 DEF ComposeInv, OnlyOwnRemoved

\* The daemon goes away, or answers again
LEMMA DaemonStep == ASSUME ComposeInv, DaemonChanges PROVE ComposeInv'
<1>1. /\ UNCHANGED <<docker, memory, disk, releasable, release, harmed, admitAll, admission, graphStatus, composeResult, step, at>>
      /\ (answering = "always" /\ answering' = "no") \/ (answering = "no" /\ answering' = "again")
  BY DEF DaemonChanges, record
<1>2. DockerInv' /\ UpInv' /\ ReleaseInv'
  BY <1>1, UpStays, ReleaseInvStays DEF ComposeInv, DockerInv
<1>3. RecordInv' /\ GoneInv'
  BY <1>1 DEF RecordInv, Sound, GoneInv
<1>4. WorkInv'
  BY <1>1 DEF ComposeInv, WorkInv
<1>5. ComposeTyped'
  BY <1>1 DEF ComposeInv, ComposeTyped
<1>6. QED
  BY <1>1, <1>2, <1>3, <1>4, <1>5 DEF ComposeInv, OnlyOwnRemoved

-----------------------------------------------------------------------------
(* The records change and docker does not.                                 *)

LEMMA RecordsCalm ==
  ASSUME ComposeInv, RecordsKept, ReleaseKept, Calm, UNCHANGED <<docker, answering, releasable>>
  PROVE  DockerInv' /\ RecordInv' /\ WorkInv' /\ UpInv' /\ GoneInv' /\ ReleaseInv'
<1>1. DockerInv' /\ RecordInv' /\ WorkInv'
  BY RecordsKeep DEF ComposeInv
<1>2. QED
  BY <1>1, CalmKeeps

\* An invocation begins with what the ledger says, or is killed and the next one will
LEMMA LedgerRead ==
  ASSUME ComposeInv, memory' = disk, disk' = disk
  PROVE  /\ RecordsKept /\ memory' \in [Named -> -1 .. 4] /\ disk' \in [Named -> -1 .. 4]
         /\ release' = release /\ releasable' = releasable => ReleaseKept
<1>1. RecordsKept
  BY DEF ComposeInv, RecordInv, Sound, RecordsKept, Both
<1>2. release' = release /\ releasable' = releasable => ReleaseKept
  BY DEF ComposeInv, ReleaseInv, PlatformRecorded, ReleaseKept
<1>3. QED
  BY <1>1, <1>2 DEF ComposeInv, ComposeTyped

\* The identities of all that is recorded are read again
LEMMA AllObserved ==
  ASSUME ComposeInv, memory' = [n \in Named |-> Observed(n)], disk' = memory'
  PROVE  /\ RecordsKept /\ memory' \in [Named -> -1 .. 4] /\ disk' \in [Named -> -1 .. 4]
         /\ release' = release /\ releasable' = releasable => ReleaseKept
<1>1. ComposeTyped /\ RecordInv /\ ReleaseInv
  BY DEF ComposeInv
<1>2. \A n \in Named : /\ memory'[n] = Observed(n) /\ memory'[n] \in -1 .. 4 /\ memory'[n] \in {memory[n], docker[n].id}
                       /\ memory'[n] = Unrecorded <=> memory[n] = Unrecorded
  BY <1>1, ObservedFacts
<1>3. RecordsKept
  BY <1>1, <1>2 DEF RecordInv, Sound, RecordsKept, Both
<1>4. release' = release /\ releasable' = releasable => ReleaseKept
  BY <1>1, <1>2, AppsNamed DEF ReleaseInv, PlatformRecorded, ReleaseKept
<1>5. QED
  BY <1>2, <1>3, <1>4

\* One record is written
LEMMA OneWritten ==
  ASSUME ComposeInv, NEW n \in Named, NEW v \in -1 .. 4,
         memory' = [memory EXCEPT ![n] = v], disk' = memory' \/ disk' = disk,
         answering = "always" /\ docker[n].ours = TRUE => v \in {Pending, docker[n].id},
         answering = "again" /\ n \in Apps /\ docker[n].phase = "working" /\ memory[n] = Unrecorded => v = Unrecorded
  PROVE  /\ RecordsKept /\ memory' \in [Named -> -1 .. 4] /\ disk' \in [Named -> -1 .. 4]
         /\ memory'[n] = v /\ \A m \in Named : m # n => memory'[m] = memory[m]
<1>1. memory \in [Named -> -1 .. 4] /\ disk \in [Named -> -1 .. 4] /\ RecordInv
  BY DEF ComposeInv, ComposeTyped
<1>2. memory' \in [Named -> -1 .. 4] /\ memory'[n] = v /\ \A m \in Named : m # n => memory'[m] = memory[m]
  BY <1>1
<1>3. disk' \in [Named -> -1 .. 4] /\ \A m \in Named : disk'[m] = memory'[m] \/ disk'[m] = disk[m]
  BY <1>1, <1>2
<1>4. RecordsKept
  <2>1. SUFFICES ASSUME NEW m \in Named
                 PROVE  /\ answering = "always" /\ docker[m].ours = TRUE =>
                             memory'[m] \in {Pending, docker[m].id} /\ disk'[m] \in {Pending, docker[m].id}
                        /\ answering = "again" /\ m \in Apps /\ docker[m].phase = "working" /\ Both(m, Unrecorded) =>
                             memory'[m] = Unrecorded /\ disk'[m] = Unrecorded
    BY DEF RecordsKept
  <2>2. CASE m = n
    BY <1>1, <1>2, <1>3, <2>2 DEF RecordInv, Sound, Both
  <2>3. CASE m # n
    BY <1>1, <1>2, <1>3, <2>3 DEF RecordInv, Sound, Both
  <2>4. QED
    BY <2>2, <2>3
<1>5. QED
  BY <1>2, <1>3, <1>4

LEMMA ReleaseWritten ==
  ASSUME ComposeInv, UNCHANGED <<release, releasable>>, disk' = memory' \/ disk' = disk,
         memory'["platform"] = memory["platform"] \/ memory'["platform"] # Unrecorded
  PROVE  ReleaseKept
  BY DEF ComposeInv, ReleaseInv, PlatformRecorded, ReleaseKept

LEMMA LedgerSteps == ASSUME ComposeInv, Killed \/ ComposeDown PROVE ComposeInv'
<1>1. /\ UNCHANGED <<docker, answering, releasable, release, harmed, admitAll, admission, graphStatus>> /\ Calm
      /\ memory' = disk /\ disk' = disk /\ (composeResult' = composeResult \/ composeResult' = "killed")
  BY DEF Killed, ComposeDown, Continue, Finish, Calm
<1>2. RecordsKept /\ ReleaseKept /\ memory' \in [Named -> -1 .. 4] /\ disk' \in [Named -> -1 .. 4]
  BY <1>1, LedgerRead
<1>3. DockerInv' /\ RecordInv' /\ WorkInv' /\ UpInv' /\ GoneInv' /\ ReleaseInv'
  BY <1>1, <1>2, RecordsCalm
<1>4. ComposeTyped'
  BY <1>1, <1>2 DEF ComposeInv, ComposeTyped, Calm, ComposeSteps, Starting, Rotating
<1>5. QED
  BY <1>1, <1>3, <1>4 DEF ComposeInv, OnlyOwnRemoved

LEMMA IdentifyStep == ASSUME ComposeInv, IdentifyAll PROVE ComposeInv'
<1>1. /\ UNCHANGED <<docker, answering, releasable, release, harmed, admitAll, admission, graphStatus, composeResult>> /\ Calm
      /\ memory' = [n \in Named |-> Observed(n)] /\ disk' = memory'
  BY DEF IdentifyAll, Continue, Saved, about, Calm
<1>2. RecordsKept /\ ReleaseKept /\ memory' \in [Named -> -1 .. 4] /\ disk' \in [Named -> -1 .. 4]
  BY <1>1, AllObserved
<1>3. DockerInv' /\ RecordInv' /\ WorkInv' /\ UpInv' /\ GoneInv' /\ ReleaseInv'
  BY <1>1, <1>2, RecordsCalm
<1>4. ComposeTyped'
  BY <1>1, <1>2 DEF ComposeInv, ComposeTyped, Calm, ComposeSteps, Starting, Rotating
<1>5. QED
  BY <1>1, <1>3, <1>4 DEF ComposeInv, OnlyOwnRemoved

\* The inventory is checked and the barrier is withdrawn, or the stop gives up
LEMMA ValidateStep == ASSUME ComposeInv, ValidateAll PROVE ComposeInv'
<1>1. UNCHANGED <<docker, answering, releasable, harmed, admitAll, admission>>
  BY DEF ValidateAll, about
<1>2. CASE Trusted
  <2>1. /\ memory' = [n \in Named |-> Observed(n)] /\ disk' = memory' /\ release' = FALSE
        /\ step' = "withdrawn" /\ UNCHANGED <<graphStatus, composeResult>>
    BY <1>2 DEF ValidateAll, Saved, WithdrawRelease, Continue
  <2>2. RecordsKept /\ memory' \in [Named -> -1 .. 4] /\ disk' \in [Named -> -1 .. 4]
    BY <2>1, AllObserved
  <2>3. DockerInv' /\ RecordInv' /\ WorkInv'
    BY <1>1, <2>2, RecordsKeep DEF ComposeInv
  <2>4. UpInv' /\ GoneInv' /\ ReleaseInv'
    BY <2>1 DEF UpInv, GoneInv, ReleaseInv
  <2>5. ComposeTyped'
    BY <1>1, <2>1, <2>2 DEF ComposeInv, ComposeTyped, ComposeSteps
  <2>6. QED
    BY <1>1, <2>3, <2>4, <2>5 DEF ComposeInv, OnlyOwnRemoved
<1>3. CASE ~Trusted
  <2>1. SameRecords /\ UNCHANGED <<release, graphStatus>> /\ Calm /\ composeResult' = "failed"
    BY <1>1, <1>3 DEF ValidateAll, Finish, record, SameRecords, Calm
  <2>2. Fades
    BY <1>1, SameFades DEF ComposeInv
  <2>3. DockerInv' /\ RecordInv' /\ WorkInv' /\ UpInv' /\ GoneInv' /\ ReleaseInv'
    BY <2>1, <2>2, DockerCalm
  <2>4. ComposeTyped'
    BY <1>1, <2>1 DEF ComposeInv, ComposeTyped, SameRecords, Calm, ComposeSteps, Starting, Rotating
  <2>5. QED
    BY <1>1, <2>3, <2>4 DEF ComposeInv, OnlyOwnRemoved
<1>4. QED
  BY <1>2, <1>3

LEMMA BeginRemovalStep == ASSUME ComposeInv, BeginRemoval PROVE ComposeInv'
<1>1. /\ UNCHANGED <<docker, answering, releasable, release, harmed, admitAll, admission, memory, composeResult>>
      /\ disk' = memory /\ step' = "remove" /\ graphStatus' = "destroying" /\ step = "withdrawn"
  BY DEF BeginRemoval, about, Continue
<1>2. release = FALSE
  BY <1>1 DEF ComposeInv, ReleaseInv
<1>3. RecordsKept
  BY <1>1 DEF ComposeInv, RecordInv, Sound, RecordsKept, Both
<1>4. DockerInv' /\ RecordInv' /\ WorkInv'
  BY <1>1, <1>3, RecordsKeep DEF ComposeInv
<1>5. UpInv' /\ GoneInv' /\ ReleaseInv'
  BY <1>1, <1>2 DEF UpInv, GoneInv, ReleaseInv
<1>6. ComposeTyped'
  BY <1>1 DEF ComposeInv, ComposeTyped, ComposeSteps
<1>7. QED
  BY <1>1, <1>4, <1>5, <1>6 DEF ComposeInv, OnlyOwnRemoved

\* The release: every container is checked once more, then the barrier is written
LEMMA RecheckStep == ASSUME ComposeInv, RecheckContainers PROVE ComposeInv'
<1>1. /\ UNCHANGED <<docker, answering, release, harmed, admitAll, graphStatus, memory, composeResult>>
      /\ disk' = memory /\ step' = "publish" /\ releasable' = TRUE
      /\ admission' = [a \in Apps |-> IF ~Running(a) /\ admission[a] = "ready" THEN "exited" ELSE admission[a]]
  BY DEF RecheckContainers, Continue
<1>2. memory["platform"] # Unrecorded
  <2>1. Found("platform", memory["platform"])
    BY ObjectFacts DEF RecheckContainers, Releasable
  <2>2. docker["platform"].id \in 0 .. 4
    BY AppsNamed DEF ComposeInv, ComposeTyped, DockerObject
  <2>3. QED
    BY <2>1, <2>2, NamesDiffer DEF Found, Pending, Unrecorded
<1>3. RecordsKept
  BY <1>1 DEF ComposeInv, RecordInv, Sound, RecordsKept, Both
<1>4. DockerInv' /\ RecordInv' /\ WorkInv'
  BY <1>1, <1>3, RecordsKeep DEF ComposeInv
<1>5. UpInv' /\ GoneInv' /\ ReleaseInv'
  BY <1>1, <1>2 DEF UpInv, GoneInv, ReleaseInv, PlatformRecorded
<1>6. admission' \in [Apps -> {"none", "ready", "exited", "timeout"}]
  BY <1>1 DEF ComposeInv, ComposeTyped
<1>7. ComposeTyped'
  BY <1>1, <1>6 DEF ComposeInv, ComposeTyped, ComposeSteps, Starting
<1>8. QED
  BY <1>1, <1>4, <1>5, <1>7 DEF ComposeInv, OnlyOwnRemoved

LEMMA PublishStep == ASSUME ComposeInv, PublishRelease PROVE ComposeInv'
<1>1. /\ UNCHANGED <<docker, harmed, admitAll, graphStatus, admission, composeResult>> /\ SameRecords
      /\ step = "publish" /\ step' = "ready" /\ release' = TRUE
  BY DEF PublishRelease, Continue, about, record, SameRecords
<1>2. Fades /\ releasable \in BOOLEAN
  BY <1>1, SameFades DEF ComposeInv, ComposeTyped
<1>3. DockerInv' /\ RecordInv' /\ WorkInv'
  BY <1>1, <1>2, FadesKeeps DEF ComposeInv
<1>4. UpInv' /\ GoneInv' /\ ReleaseInv'
  BY <1>1 DEF ComposeInv, UpInv, GoneInv, ReleaseInv, PlatformRecorded, SameRecords
<1>5. ComposeTyped'
  BY <1>1 DEF ComposeInv, ComposeTyped, ComposeSteps, Starting, SameRecords
<1>6. QED
  BY <1>1, <1>3, <1>4, <1>5 DEF ComposeInv, OnlyOwnRemoved

\* The container of a rotation
LEMMA RotateCallStep == ASSUME ComposeInv, RotateCall PROVE ComposeInv'
<1>1. /\ UNCHANGED <<docker, answering, releasable, release, harmed, admitAll, admission, graphStatus, composeResult>>
      /\ memory' = [disk EXCEPT ![Rotation] = Pending] /\ disk' = memory' /\ step' = "rotate"
  BY DEF RotateCall, Saved, Continue
<1>2. disk \in [Named -> -1 .. 4] /\ Rotation \in Named /\ "platform" \in Named /\ Pending \in -1 .. 4
  BY AppsNamed DEF ComposeInv, ComposeTyped, Pending
<1>3. /\ memory' \in [Named -> -1 .. 4] /\ memory'[Rotation] = Pending
      /\ \A m \in Named : m # Rotation => memory'[m] = disk[m]
  BY <1>1, <1>2
<1>4. RecordsKept
  BY <1>1, <1>3, NamesDiffer DEF ComposeInv, RecordInv, Sound, RecordsKept, Both
<1>5. ReleaseInv'
  BY <1>1, <1>2, <1>3, NamesDiffer DEF ComposeInv, ReleaseInv, PlatformRecorded
<1>6. DockerInv' /\ RecordInv' /\ WorkInv'
  BY <1>1, <1>4, RecordsKeep DEF ComposeInv
<1>7. UpInv' /\ GoneInv'
  BY <1>1, <1>3 DEF UpInv, GoneInv, Both
<1>8. ComposeTyped'
  BY <1>1, <1>3 DEF ComposeInv, ComposeTyped, ComposeSteps, Rotating
<1>9. QED
  BY <1>1, <1>5, <1>6, <1>7, <1>8 DEF ComposeInv, OnlyOwnRemoved

LEMMA RotateCreatesStep == ASSUME ComposeInv, RotateCreates PROVE ComposeInv'
<1>1. /\ UNCHANGED <<release, harmed, admitAll, admission, graphStatus>> /\ SameRecords /\ Calm
      /\ composeResult' = composeResult \/ composeResult' = "failed"
  BY DEF RotateCreates, Continue, Finish, about, record, SameRecords, Calm
<1>0. step = "rotate" /\ docker' = [docker EXCEPT ![Rotation] = Made(Rotation, TRUE)]
  BY DEF RotateCreates, Creates
<1>2. Rotation \in Named /\ Both(Rotation, Pending)
  BY <1>0, AppsNamed DEF ComposeInv, UpInv
<1>3. docker' \in [Named -> DockerObject] /\ DockerInv' /\ RecordInv' /\ WorkInv'
  BY <1>0, <1>1, <1>2, MadeKeeps DEF ComposeInv
<1>4. ReleaseKept
  BY <1>1, ReleaseStays DEF ComposeInv, SameRecords
<1>5. UpInv' /\ GoneInv' /\ ReleaseInv'
  BY <1>1, <1>4, CalmKeeps
<1>6. ComposeTyped'
  BY <1>1, <1>3 DEF ComposeInv, ComposeTyped, SameRecords, Calm, ComposeSteps, Starting, Rotating
<1>7. QED
  BY <1>1, <1>3, <1>5, <1>6 DEF ComposeInv, OnlyOwnRemoved

LEMMA RotateWritesSteps == ASSUME ComposeInv, RotateIdentifies \/ RotateCompletes PROVE ComposeInv'
<1>1. /\ UNCHANGED <<docker, answering, releasable, release, harmed, admitAll, admission, graphStatus>> /\ Calm
      /\ disk' = memory' /\ (composeResult' = composeResult \/ composeResult' = "rotated")
  BY DEF RotateIdentifies, RotateCompletes, Saved, Continue, Finish, about, Calm
<1>2. Rotation \in Named /\ "platform" \in Named /\ ComposeTyped /\ docker[Rotation].id \in 0 .. 4
  BY AppsNamed DEF ComposeInv, ComposeTyped, DockerObject
<1>3. PICK v \in -1 .. 4 : /\ memory' = [memory EXCEPT ![Rotation] = v]
                           /\ answering = "always" /\ docker[Rotation].ours = TRUE => v \in {Pending, docker[Rotation].id}
  <2>1. CASE RotateIdentifies
    <3>1. PICK v : v = IF docker[Rotation].id # 0 THEN docker[Rotation].id ELSE Fresh(Rotation)
      OBVIOUS
    <3>2. v \in -1 .. 4
      BY <1>2, <3>1, FreshFacts
    <3>3. docker[Rotation].ours = TRUE => v = docker[Rotation].id
      BY <1>2, <3>1 DEF ComposeInv, DockerInv
    <3>4. memory' = [memory EXCEPT ![Rotation] = v]
      BY <2>1, <3>1 DEF RotateIdentifies
    <3>5. QED
      BY <3>2, <3>3, <3>4
  <2>2. CASE RotateCompletes
    <3>1. memory' = [memory EXCEPT ![Rotation] = Unrecorded] /\ step = "complete" /\ Unrecorded \in -1 .. 4
      BY <2>2 DEF RotateCompletes, Unrecorded
    <3>2. answering = "always" => docker[Rotation].ours = FALSE
      BY <3>1 DEF ComposeInv, GoneInv
    <3>3. QED
      BY <3>1, <3>2
  <2>3. QED
    BY <2>1, <2>2
<1>4. /\ RecordsKept /\ memory' \in [Named -> -1 .. 4] /\ disk' \in [Named -> -1 .. 4]
      /\ \A m \in Named : m # Rotation => memory'[m] = memory[m]
  BY <1>1, <1>2, <1>3, NamesDiffer, OneWritten
<1>5. ReleaseKept
  BY <1>1, <1>2, <1>4, NamesDiffer, ReleaseWritten
<1>6. DockerInv' /\ RecordInv' /\ WorkInv' /\ UpInv' /\ GoneInv' /\ ReleaseInv'
  BY <1>1, <1>4, <1>5, RecordsCalm
<1>7. ComposeTyped'
  BY <1>1, <1>4 DEF ComposeInv, ComposeTyped, Calm, ComposeSteps, Starting, Rotating
<1>8. QED
  BY <1>1, <1>6, <1>7 DEF ComposeInv, OnlyOwnRemoved

LEMMA RotateRemovesStep == ASSUME ComposeInv, RotateRemoves PROVE ComposeInv'
<1>1. /\ UNCHANGED <<release, harmed, admitAll, admission, graphStatus>> /\ SameRecords
      /\ step' \in {"complete", "idle"} /\ composeResult' \in {composeResult, "failed"}
      /\ docker' = [docker EXCEPT ![Rotation] = Absent]
  BY DEF RotateRemoves, Continue, Finish, about, record, SameRecords
<1>2. Rotation \in Named /\ docker \in [Named -> DockerObject] /\ DockerInv /\ releasable \in BOOLEAN
  BY AppsNamed DEF ComposeInv, ComposeTyped
<1>3. docker' \in [Named -> DockerObject] /\ Fades /\ docker'[Rotation].ours = FALSE
  BY <1>1, <1>2, AbsentFades
<1>4. DockerInv' /\ RecordInv' /\ WorkInv'
  BY <1>1, <1>2, <1>3, FadesKeeps DEF ComposeInv
<1>5. UpInv' /\ GoneInv' /\ ReleaseInv'
  BY <1>1, <1>3 DEF ComposeInv, UpInv, GoneInv, ReleaseInv, PlatformRecorded, SameRecords
<1>6. ComposeTyped'
  BY <1>1, <1>3 DEF ComposeInv, ComposeTyped, SameRecords, ComposeSteps, Rotating
<1>7. QED
  BY <1>1, <1>4, <1>5, <1>6 DEF ComposeInv, OnlyOwnRemoved

-----------------------------------------------------------------------------
(* stop removes what is recorded last, and then its record.                *)

LEMMA RemoveStep == ASSUME ComposeInv, RemoveObject PROVE ComposeInv'
<1>1. /\ UNCHANGED <<release, admitAll, admission, graphStatus>> /\ SameRecords /\ step = "remove"
      /\ step' \in {"erase", "idle"} /\ composeResult' \in {composeResult, "failed"}
  BY DEF RemoveObject, Continue, Finish, about, record, SameRecords
<1>2. PICK n : n = LastRecorded
  OBVIOUS
<1>3. \/ /\ Found(n, memory[n]) /\ ~Refuses(n) /\ docker' = [docker EXCEPT ![n] = Absent] /\ Harm(n)
      \/ ~Found(n, memory[n]) /\ UNCHANGED <<docker, harmed>>
      \/ step' = "idle" /\ UNCHANGED <<docker, harmed>>
  BY <1>2 DEF RemoveObject, Finish
<1>4. harmed' = harmed
  BY <1>3 DEF Refuses, Mismatch, Harm
<1>5. docker \in [Named -> DockerObject] /\ DockerInv /\ releasable \in BOOLEAN /\ RecordInv
  BY DEF ComposeInv, ComposeTyped
<1>6. docker' \in [Named -> DockerObject] /\ Fades
  <2>1. CASE docker' = docker
    BY <1>5, <2>1, SameFades
  <2>2. CASE docker' = [docker EXCEPT ![n] = Absent] /\ n \in Named
    BY <1>5, <2>2, AbsentFades
  <2>3. CASE docker' = [docker EXCEPT ![n] = Absent] /\ n \notin Named
    <3>1. docker' = docker
      BY <1>5, <2>3
    <3>2. QED
      BY <2>1, <3>1
  <2>4. QED
    BY <1>3, <2>1, <2>2, <2>3
<1>7. DockerInv' /\ RecordInv' /\ WorkInv'
  BY <1>1, <1>5, <1>6, FadesKeeps DEF ComposeInv
<1>8. ASSUME step' = "erase", answering = "always", n \in Named PROVE docker'[n].ours = FALSE
  <2>1. CASE docker' = [docker EXCEPT ![n] = Absent]
    BY <1>5, <1>8, <2>1, AbsentFades
  <2>2. CASE ~Found(n, memory[n]) /\ docker' = docker
    <3>1. docker[n].id \in 0 .. 4 /\ docker[n].ours \in BOOLEAN
      BY <1>5, <1>8 DEF DockerObject
    <3>2. docker[n].ours = TRUE => docker[n].id # 0 /\ memory[n] \in {Pending, docker[n].id}
      BY <1>5, <1>8 DEF DockerInv, RecordInv, Sound
    <3>3. docker[n].ours = TRUE => Found(n, memory[n])
      BY <1>8, <3>1, <3>2 DEF Found, Answers
    <3>4. QED
      BY <2>2, <3>1, <3>3
  <2>3. QED
    BY <1>3, <1>8, <2>1, <2>2
<1>9. LastRecorded' = n
  BY <1>1, <1>2, LastStays DEF SameRecords
<1>10. GoneInv'
  BY <1>1, <1>8, <1>9 DEF GoneInv, SameRecords
<1>11. UpInv' /\ ReleaseInv'
  BY <1>1 DEF ComposeInv, UpInv, ReleaseInv, PlatformRecorded, SameRecords
<1>12. ComposeTyped'
  BY <1>1, <1>6 DEF ComposeInv, ComposeTyped, SameRecords, ComposeSteps
<1>13. QED
  BY <1>4, <1>7, <1>10, <1>11, <1>12 DEF ComposeInv, OnlyOwnRemoved

LEMMA EraseStep == ASSUME ComposeInv, EraseRecord PROVE ComposeInv'
<1>1. /\ UNCHANGED <<docker, answering, releasable, release, harmed, admitAll, admission, graphStatus, composeResult>>
      /\ disk' = memory' /\ step = "erase" /\ step' = "remove"
  BY DEF EraseRecord, Saved, Continue, about
<1>2. PICK n : n = LastRecorded
  OBVIOUS
<1>3. memory' = [memory EXCEPT ![n] = Unrecorded] /\ Unrecorded \in -1 .. 4
  BY <1>2 DEF EraseRecord, Unrecorded
<1>4. RecordsKept /\ memory' \in [Named -> -1 .. 4] /\ disk' \in [Named -> -1 .. 4]
  <2>1. CASE n \in Named
    <3>1. answering = "always" => docker[n].ours = FALSE
      BY <1>1, <1>2, <2>1 DEF ComposeInv, GoneInv
    <3>2. QED
      BY <1>1, <1>3, <2>1, <3>1, OneWritten
  <2>2. CASE n \notin Named
    <3>1. memory \in [Named -> -1 .. 4]
      BY DEF ComposeInv, ComposeTyped
    <3>2. memory' = memory
      BY <1>3, <2>2, <3>1
    <3>3. RecordsKept
      BY <1>1, <3>2 DEF ComposeInv, RecordInv, Sound, RecordsKept, Both
    <3>4. QED
      BY <1>1, <3>1, <3>2, <3>3
  <2>3. QED
    BY <2>1, <2>2
<1>5. DockerInv' /\ RecordInv' /\ WorkInv'
  BY <1>1, <1>4, RecordsKeep DEF ComposeInv
<1>6. UpInv' /\ GoneInv' /\ ReleaseInv'
  BY <1>1 DEF ComposeInv, UpInv, GoneInv, ReleaseInv
<1>7. ComposeTyped'
  BY <1>1, <1>4 DEF ComposeInv, ComposeTyped, ComposeSteps
<1>8. QED
  BY <1>1, <1>5, <1>6, <1>7 DEF ComposeInv, OnlyOwnRemoved

-----------------------------------------------------------------------------
(* up records before it creates.                                           *)

LEMMA UpStep == ASSUME ComposeInv, ComposeUp PROVE ComposeInv'
<1>1. /\ UNCHANGED <<docker, answering, disk, release, harmed, admitAll, admission, composeResult>>
      /\ memory' = disk /\ releasable' = FALSE /\ step' = "own" /\ at' = 1 /\ graphStatus' = "creating"
      /\ answering # "no"
  BY DEF ComposeUp, Continue, Answers
<1>2. \A n \in Named : n # "history" => disk[n] = Unrecorded
  BY DEF ComposeUp, RetainedOnly
<1>3. release = FALSE
  BY <1>2, AppsNamed, NamesDiffer DEF ComposeInv, ComposeTyped, ReleaseInv, PlatformRecorded
<1>4. DockerInv' /\ RecordInv'
  BY <1>1 DEF ComposeInv, DockerInv, RecordInv, Sound
<1>5. WorkInv'
  <2>1. SUFFICES ASSUME NEW a \in Apps, docker[a].phase = "working"
                 PROVE  answering = "again" /\ disk[a] = Unrecorded
    BY <1>1 DEF WorkInv, Both
  <2>2. a \in Named /\ a # "history" /\ docker[a].ours = TRUE /\ docker[a].id # 0 /\ docker[a].id \in 0 .. 4
    <3>1. a \in Named
      BY AppsNamed
    <3>2. a # "history"
      BY ObjectFacts, NamesDiffer
    <3>3. docker[a].ours = TRUE /\ docker[a].id # 0
      BY <2>1, <3>1 DEF ComposeInv, DockerInv
    <3>4. docker[a].id \in 0 .. 4
      BY <3>1 DEF ComposeInv, ComposeTyped, DockerObject
    <3>5. QED
      BY <3>1, <3>2, <3>3, <3>4
  <2>3. disk[a] = Unrecorded /\ Unrecorded \notin {Pending, docker[a].id}
    BY <1>2, <2>2 DEF Unrecorded, Pending
  <2>4. answering # "always"
    BY <2>2, <2>3 DEF ComposeInv, RecordInv, Sound
  <2>5. QED
    BY <1>1, <2>3, <2>4 DEF ComposeInv, ComposeTyped
<1>6. UpInv'
  <2>1. 1 \in Place /\ \A j \in Place : ~(j >= Late /\ j < 1)
    BY ObjectFacts DEF Late
  <2>2. \A j \in Place : j >= Late => disk[Objects[j]] = Unrecorded
    BY <1>2, ObjectFacts, NamesDiffer
  <2>3. QED
    BY <1>1, <2>1, <2>2 DEF UpInv
<1>7. GoneInv' /\ ReleaseInv'
  BY <1>1, <1>3 DEF GoneInv, ReleaseInv
<1>8. ComposeTyped'
  BY <1>1 DEF ComposeInv, ComposeTyped, ComposeSteps, Starting
<1>9. QED
  BY <1>1, <1>4, <1>5, <1>6, <1>7, <1>8 DEF ComposeInv, OnlyOwnRemoved

\* What is left of the invariant when up goes on recording
Recording ==
  /\ step' \in {"own", "create", "observe", "stage", "compose"}
  /\ UNCHANGED <<docker, answering, releasable, release, harmed, admitAll, admission, graphStatus, composeResult>>

LEMMA RecordingKeeps ==
  ASSUME ComposeInv, Recording, RecordsKept, ReleaseKept, UpInv',
         memory' \in [Named -> -1 .. 4], disk' \in [Named -> -1 .. 4]
  PROVE  ComposeInv'
<1>1. DockerInv' /\ RecordInv' /\ WorkInv'
  BY RecordsKeep DEF ComposeInv, Recording
<1>2. GoneInv' /\ ReleaseInv'
  BY DEF Recording, GoneInv, ReleaseInv, ReleaseKept, PlatformRecorded
<1>3. ComposeTyped'
  BY DEF ComposeInv, ComposeTyped, Recording, ComposeSteps, Starting
<1>4. QED
  BY <1>1, <1>2, <1>3 DEF ComposeInv, OnlyOwnRemoved, Recording

LEMMA OwnStep == ASSUME ComposeInv, OwnObject PROVE ComposeInv'
<1>1. PICK n : n = Objects[at]
  OBVIOUS
<1>2. /\ step = "own" /\ UNCHANGED <<docker, answering, releasable, release, harmed, admitAll, admission, graphStatus>>
      /\ \/ /\ memory[n] # Unrecorded
            /\ memory' = [memory EXCEPT ![n] = Observed(n)] /\ Continue("own", at + 1) /\ disk' = disk
         \/ /\ memory[n] = Unrecorded /\ ~Found(n, Pending)
            /\ memory' = [memory EXCEPT ![n] = Pending] /\ disk' = memory'
            /\ IF n \in ToSet(Composed) /\ at < Len(Objects) THEN Continue("own", at + 1)
               ELSE Continue(IF n \in ToSet(Composed) THEN "compose" ELSE "create", at)
  BY <1>1 DEF OwnObject, SavedBefore, Saved, about
<1>3. ComposeTyped /\ DockerInv /\ "platform" \in Named
  BY AppsNamed DEF ComposeInv
<1>4. /\ at \in Place /\ \A j \in Place : j >= Late /\ j >= at => memory[Objects[j]] = Unrecorded
      /\ \A j \in Place : j >= Late /\ j < at => Both(Objects[j], Pending)
  BY <1>2 DEF ComposeInv, UpInv
<1>5. n \in Named /\ \A j \in Place : Objects[j] \in Named /\ (Objects[j] = n <=> j = at)
  BY <1>1, <1>4, ObjectFacts
<1>6. at \in Nat /\ at >= 1 /\ at <= Len(Objects) /\ Len(Objects) \in Nat /\ Len(Objects) >= 5 /\ Place = 1 .. Len(Objects)
  BY <1>4, ObjectFacts
<1>7. CASE memory[n] # Unrecorded
  <2>1. /\ memory' = [memory EXCEPT ![n] = Observed(n)] /\ disk' = disk
        /\ step' = "own" /\ at' = at + 1 /\ composeResult' = composeResult
    BY <1>2, <1>7 DEF Continue
  <2>2. at < Late
    BY <1>1, <1>4, <1>6, <1>7 DEF Late
  <2>3. PICK v : v = Observed(n)
    OBVIOUS
  <2>4. v \in -1 .. 4 /\ v \in {memory[n], docker[n].id} /\ v # Unrecorded
    BY <1>3, <1>5, <1>7, <2>3, ObservedFacts
  <2>5. answering = "always" /\ docker[n].ours = TRUE => v \in {Pending, docker[n].id}
    BY <1>5, <2>4 DEF ComposeInv, RecordInv, Sound
  <2>6. /\ RecordsKept /\ memory' \in [Named -> -1 .. 4] /\ disk' \in [Named -> -1 .. 4]
        /\ memory'[n] = v /\ \A m \in Named : m # n => memory'[m] = memory[m]
    BY <1>5, <1>7, <2>1, <2>3, <2>4, <2>5, OneWritten
  <2>7. ReleaseKept
    BY <1>2, <1>3, <2>1, <2>4, <2>6, ReleaseWritten
  <2>8. at + 1 \in Place /\ \A j \in Place : (j >= Late => j # at /\ ~(j < at + 1)) /\ (j >= at + 1 => j >= at)
    BY <1>6, <2>2 DEF Late
  <2>9. UpInv'
    BY <1>4, <1>5, <2>1, <2>6, <2>8 DEF UpInv
  <2>10. Recording
    BY <1>2, <2>1 DEF Recording
  <2>11. QED
    BY <2>6, <2>7, <2>9, <2>10, RecordingKeeps
<1>8. CASE memory[n] = Unrecorded
  <2>1. /\ memory' = [memory EXCEPT ![n] = Pending] /\ disk' = memory' /\ ~Found(n, Pending)
        /\ IF n \in ToSet(Composed) /\ at < Len(Objects) THEN Continue("own", at + 1)
           ELSE Continue(IF n \in ToSet(Composed) THEN "compose" ELSE "create", at)
    BY <1>2, <1>8
  <2>2. Pending \in -1 .. 4 /\ Pending # Unrecorded
    BY DEF Pending, Unrecorded
  <2>3. answering = "again" => docker[n].phase # "working"
    BY <1>3, <1>5, <2>1 DEF Found, Answers, DockerInv
  <2>4. /\ RecordsKept /\ memory' \in [Named -> -1 .. 4] /\ disk' \in [Named -> -1 .. 4]
        /\ memory'[n] = Pending /\ \A m \in Named : m # n => memory'[m] = memory[m]
    BY <1>5, <2>1, <2>2, <2>3, OneWritten
  <2>5. ReleaseKept
    BY <1>2, <1>3, <2>1, <2>2, <2>4, ReleaseWritten
  <2>6. n \in ToSet(Composed) <=> at >= Late
    BY <1>1, <1>4, <1>5, ObjectFacts
  <2>7. \A j \in Place : j >= Late /\ j <= at => Both(Objects[j], Pending)'
    <3>1. SUFFICES ASSUME NEW j \in Place, j >= Late, j <= at PROVE Both(Objects[j], Pending)'
      OBVIOUS
    <3>2. j = at \/ j < at
      BY <1>6, <3>1
    <3>3. memory'[Objects[j]] = Pending
      BY <1>4, <1>5, <2>4, <3>1, <3>2 DEF Both
    <3>4. QED
      BY <2>1, <3>3 DEF Both
  <2>8. \A j \in Place : j > at /\ j >= Late => memory'[Objects[j]] = Unrecorded
    BY <1>4, <1>5, <1>6, <2>4
  <2>9. CASE n \in ToSet(Composed) /\ at < Len(Objects)
    <3>1. step' = "own" /\ at' = at + 1 /\ composeResult' = composeResult
      BY <2>1, <2>9 DEF Continue
    <3>2. at + 1 \in Place /\ \A j \in Place : (j >= at + 1 => j > at) /\ (j < at + 1 => j <= at)
      BY <1>6, <2>9
    <3>3. UpInv'
      BY <2>7, <2>8, <3>1, <3>2 DEF UpInv
    <3>4. Recording
      BY <1>2, <3>1 DEF Recording
    <3>5. QED
      BY <2>4, <2>5, <3>3, <3>4, RecordingKeeps
  <2>10. CASE n \in ToSet(Composed) /\ ~(at < Len(Objects))
    <3>1. step' = "compose" /\ composeResult' = composeResult
      BY <2>1, <2>10 DEF Continue
    <3>2. \A j \in Place : j <= at
      BY <1>6, <2>10
    <3>3. UpInv'
      BY <2>7, <3>1, <3>2 DEF UpInv
    <3>4. Recording
      BY <1>2, <3>1 DEF Recording
    <3>5. QED
      BY <2>4, <2>5, <3>3, <3>4, RecordingKeeps
  <2>11. CASE n \notin ToSet(Composed)
    <3>1. step' = "create" /\ at' = at /\ composeResult' = composeResult
      BY <2>1, <2>11 DEF Continue
    <3>2. at < Late /\ \A j \in Place : j >= Late => j > at
      BY <1>6, <2>6, <2>11 DEF Late
    <3>3. UpInv'
      BY <1>1, <1>4, <2>1, <2>4, <2>8, <3>1, <3>2 DEF UpInv, Both
    <3>4. Recording
      BY <1>2, <3>1 DEF Recording
    <3>5. QED
      BY <2>4, <2>5, <3>3, <3>4, RecordingKeeps
  <2>12. QED
    BY <2>9, <2>10, <2>11
<1>9. QED
  BY <1>7, <1>8

LEMMA ObserveStep == ASSUME ComposeInv, ObserveObject PROVE ComposeInv'
<1>1. PICK n : n = Objects[at]
  OBVIOUS
<1>2. PICK v : v = Observed(n)
  OBVIOUS
<1>3. /\ step = "observe" /\ UNCHANGED <<docker, answering, releasable, release, harmed, admitAll, admission, graphStatus, composeResult>>
      /\ memory' = [memory EXCEPT ![n] = v] /\ disk' = memory'
      /\ (step' = "stage" /\ at' = at) \/ (step' = "own" /\ at' = at + 1)
  BY <1>1, <1>2 DEF ObserveObject, Continue, Saved, about
<1>4. ComposeTyped /\ "platform" \in Named
  BY AppsNamed DEF ComposeInv
<1>5. at \in Place /\ at < Late /\ \A j \in Place : j >= Late /\ j >= at => memory[Objects[j]] = Unrecorded
  BY <1>3 DEF ComposeInv, UpInv
<1>6. n \in Named /\ \A j \in Place : Objects[j] \in Named /\ (Objects[j] = n <=> j = at)
  BY <1>1, <1>5, ObjectFacts
<1>7. v \in -1 .. 4 /\ v \in {memory[n], docker[n].id} /\ (v = Unrecorded <=> memory[n] = Unrecorded)
  BY <1>2, <1>4, <1>6, ObservedFacts
<1>8. answering = "always" /\ docker[n].ours = TRUE => v \in {Pending, docker[n].id}
  BY <1>6, <1>7 DEF ComposeInv, RecordInv, Sound
<1>9. /\ RecordsKept /\ memory' \in [Named -> -1 .. 4] /\ disk' \in [Named -> -1 .. 4]
      /\ memory'[n] = v /\ \A m \in Named : m # n => memory'[m] = memory[m]
  BY <1>3, <1>6, <1>7, <1>8, OneWritten
<1>10. ReleaseKept
  BY <1>3, <1>4, <1>7, <1>9, ReleaseWritten
<1>11. at + 1 \in Place /\ \A j \in Place : j >= Late => j # at /\ j >= at /\ ~(j < at + 1)
  BY <1>5, ObjectFacts DEF Late
<1>12. UpInv'
  BY <1>3, <1>5, <1>6, <1>9, <1>11 DEF UpInv
<1>13. Recording
  BY <1>3 DEF Recording
<1>14. QED
  BY <1>9, <1>10, <1>12, <1>13, RecordingKeeps

LEMMA ForgetStep == ASSUME ComposeInv, ForgetStage PROVE ComposeInv'
<1>1. /\ step = "forget" /\ UNCHANGED <<docker, answering, releasable, release, harmed, admitAll, admission, graphStatus, composeResult>>
      /\ memory' = [memory EXCEPT ![Stage] = Unrecorded] /\ disk' = memory' /\ step' = "own" /\ at' = at + 1
  BY DEF ForgetStage, Continue, Saved, about
<1>2. Stage \in Named /\ "platform" \in Named /\ Unrecorded \in -1 .. 4
  BY AppsNamed DEF Unrecorded
<1>3. at \in Place /\ at < Late /\ \A j \in Place : j >= Late /\ j >= at => memory[Objects[j]] = Unrecorded
  BY <1>1 DEF ComposeInv, UpInv
<1>4. answering = "always" => docker[Stage].ours = FALSE
  BY <1>1 DEF ComposeInv, GoneInv
<1>5. /\ RecordsKept /\ memory' \in [Named -> -1 .. 4] /\ disk' \in [Named -> -1 .. 4]
      /\ \A m \in Named : m # Stage => memory'[m] = memory[m]
  BY <1>1, <1>2, <1>4, OneWritten
<1>6. ReleaseKept
  BY <1>1, <1>2, <1>5, NamesDiffer, ReleaseWritten
<1>7. at + 1 \in Place /\ \A j \in Place : j >= Late => j >= at /\ ~(j < at + 1)
  BY <1>3, ObjectFacts DEF Late
<1>8. UpInv'
  BY <1>1, <1>3, <1>5, <1>7, ObjectFacts, NamesDiffer DEF UpInv
<1>9. Recording
  BY <1>1 DEF Recording
<1>10. QED
  BY <1>5, <1>6, <1>8, <1>9, RecordingKeeps

\* What docker makes was recorded as pending
LEMMA CreateStep == ASSUME ComposeInv, CreateObject PROVE ComposeInv'
<1>1. /\ UNCHANGED <<release, harmed, admitAll, admission, graphStatus, composeResult>> /\ SameRecords
      /\ step = "create" /\ ((step' = "observe" /\ at' = at) \/ step' = "validate")
  BY DEF CreateObject, Continue, about, record, SameRecords
<1>2. PICK n : n = Objects[at]
  OBVIOUS
<1>3. docker' = [docker EXCEPT ![n] = Made(n, TRUE)]
  BY <1>2 DEF CreateObject, Creates
<1>4. n \in Named /\ Both(n, Pending)
  BY <1>1, <1>2, ObjectFacts DEF ComposeInv, UpInv
<1>5. docker' \in [Named -> DockerObject] /\ DockerInv' /\ RecordInv' /\ WorkInv'
  BY <1>1, <1>3, <1>4, MadeKeeps DEF ComposeInv
<1>6. UpInv'
  BY <1>1 DEF ComposeInv, UpInv, SameRecords
<1>7. GoneInv' /\ ReleaseInv'
  BY <1>1 DEF ComposeInv, GoneInv, ReleaseInv, PlatformRecorded, SameRecords
<1>8. ComposeTyped'
  BY <1>1, <1>5 DEF ComposeInv, ComposeTyped, SameRecords, ComposeSteps, Starting
<1>9. QED
  BY <1>1, <1>5, <1>6, <1>7, <1>8 DEF ComposeInv, OnlyOwnRemoved

LEMMA ComposeCreatesStep == ASSUME ComposeInv, ComposeCreates PROVE ComposeInv'
<1>1. UNCHANGED <<release, harmed, admitAll, admission, graphStatus, composeResult, step, at>> /\ SameRecords /\ step = "compose"
  BY DEF ComposeCreates, about, record, SameRecords
<1>2. PICK n \in ToSet(Composed) : docker' = [docker EXCEPT ![n] = Made(n, TRUE)]
  BY DEF ComposeCreates, Creates
<1>3. n \in Named /\ Both(n, Pending)
  BY <1>1, AppsNamed, ObjectFacts DEF ComposeInv, UpInv
<1>4. docker' \in [Named -> DockerObject] /\ DockerInv' /\ RecordInv' /\ WorkInv'
  BY <1>1, <1>2, <1>3, MadeKeeps DEF ComposeInv
<1>5. UpInv' /\ ReleaseInv'
  BY <1>1, UpStays, ReleaseInvStays DEF ComposeInv, SameRecords
<1>6. GoneInv'
  BY <1>1 DEF GoneInv
<1>7. ComposeTyped'
  BY <1>1, <1>4 DEF ComposeInv, ComposeTyped, SameRecords
<1>8. QED
  BY <1>1, <1>4, <1>5, <1>6, <1>7 DEF ComposeInv, OnlyOwnRemoved

\* The staging container runs and is removed
LEMMA StageSteps == ASSUME ComposeInv, RunStage \/ RemoveStage PROVE ComposeInv'
<1>1. UNCHANGED <<release, harmed, admitAll, admission, graphStatus, composeResult>> /\ SameRecords
  BY DEF RunStage, RemoveStage, Continue, about, record, SameRecords
<1>2. /\ step \in {"stage", "unstage"}
      /\ (step' \in {"unstage", "forget"} /\ at' = at) \/ step' = "validate"
  BY DEF RunStage, RemoveStage, Continue
<1>3. Stage \in Named /\ docker \in [Named -> DockerObject] /\ DockerInv /\ releasable \in BOOLEAN
  BY AppsNamed DEF ComposeInv, ComposeTyped
<1>4. docker' \in [Named -> DockerObject] /\ Fades /\ (step' = "forget" => docker'[Stage].ours = FALSE)
  <2>1. CASE RunStage
    <3>1. docker' = [docker EXCEPT ![Stage].phase = "exited"] /\ step' = "unstage" /\ "exited" \in ContainerPhases
      BY <2>1 DEF RunStage, Continue, ContainerPhases
    <3>2. QED
      BY <3>1, PhaseSteps
  <2>2. CASE RemoveStage
    <3>1. docker' = [docker EXCEPT ![Stage] = Absent]
      BY <2>2 DEF RemoveStage
    <3>2. QED
      BY <1>3, <3>1, AbsentFades
  <2>3. QED
    BY <2>1, <2>2
<1>5. DockerInv' /\ RecordInv' /\ WorkInv'
  BY <1>1, <1>3, <1>4, FadesKeeps DEF ComposeInv
<1>6. UpInv'
  BY <1>1, <1>2 DEF ComposeInv, UpInv, SameRecords
<1>7. GoneInv'
  BY <1>2, <1>4 DEF GoneInv
<1>8. ReleaseInv'
  BY <1>1, <1>2 DEF ComposeInv, ReleaseInv, PlatformRecorded, SameRecords
<1>9. ComposeTyped'
  BY <1>1, <1>2, <1>4 DEF ComposeInv, ComposeTyped, SameRecords, ComposeSteps, Starting
<1>10. QED
  BY <1>1, <1>5, <1>6, <1>7, <1>8, <1>9 DEF ComposeInv, OnlyOwnRemoved

-----------------------------------------------------------------------------
LEMMA ComposeBegins == ComposeInit => ComposeInv
<1>1. SUFFICES ASSUME ComposeInit PROVE ComposeInv
  OBVIOUS
<1>2. Absent \in DockerObject /\ Absent.id = 0 /\ Absent.ours = FALSE /\ Absent.phase = "none"
  BY DEF Absent, DockerObject, ContainerPhases
<1>3. \A n \in Named : docker[n] = Absent
  BY <1>1 DEF ComposeInit
<1>4. ComposeTyped
  <2>1. docker \in [Named -> DockerObject]
    BY <1>1, <1>2 DEF ComposeInit
  <2>2. memory \in [Named -> -1 .. 4] /\ disk \in [Named -> -1 .. 4]
    BY <1>1 DEF ComposeInit, Unrecorded
  <2>3. admission \in [Apps -> {"none", "ready", "exited", "timeout"}]
    BY <1>1 DEF ComposeInit
  <2>4. QED
    BY <1>1, <2>1, <2>2, <2>3 DEF ComposeInit, ComposeTyped, ComposeSteps
<1>5. DockerInv /\ RecordInv /\ WorkInv
  BY <1>2, <1>3, AppsNamed DEF DockerInv, RecordInv, Sound, WorkInv
<1>6. UpInv /\ GoneInv /\ ReleaseInv /\ OnlyOwnRemoved
  BY <1>1 DEF ComposeInit, UpInv, GoneInv, ReleaseInv, OnlyOwnRemoved
<1>7. QED
  BY <1>4, <1>5, <1>6 DEF ComposeInv

LEMMA ComposeStands == ASSUME ComposeInv, UNCHANGED composeVars PROVE ComposeInv'
<1>1. UNCHANGED <<release, harmed, admitAll, admission, graphStatus, composeResult, step, at, docker>> /\ SameRecords
  BY DEF composeVars, SameRecords
<1>2. docker' \in [Named -> DockerObject] /\ Fades
  BY <1>1, SameFades DEF ComposeInv, ComposeTyped
<1>3. DockerInv' /\ RecordInv' /\ WorkInv' /\ UpInv' /\ GoneInv' /\ ReleaseInv'
  BY <1>1, <1>2, DockerOnly
<1>4. ComposeTyped'
  BY <1>1 DEF ComposeInv, ComposeTyped, SameRecords
<1>5. QED
  BY <1>1, <1>3, <1>4 DEF ComposeInv, OnlyOwnRemoved

LEMMA ComposeStep == ASSUME ComposeInv, ComposeNext PROVE ComposeInv'
<1>1. \/ DaemonChanges \/ StrangerActs \/ Killed \/ ComposeUp \/ OwnObject \/ CreateObject \/ ObserveObject
      \/ ForgetStage \/ ComposeCreates \/ IdentifyAll \/ StartApplications \/ AdmitApplication
      \/ RecheckContainers \/ PublishRelease \/ RotateCall \/ RotateCreates \/ RotateRemoves
      \/ ComposeDown \/ ValidateAll \/ BeginRemoval \/ RemoveObject \/ EraseRecord
      \/ (Rollback \/ AwaitService \/ ComposeReady \/ RotateFails \/ StopFails \/ StopReturns)
      \/ (\E n : StopLate \/ StopContainer \/ (n \in Containers /\ ContainerRuns(n)))
      \/ (StartService \/ RotateRuns) \/ (RotateIdentifies \/ RotateCompletes) \/ (RunStage \/ RemoveStage)
  BY DEF ComposeNext
<1>2. CASE \E n : StopLate \/ StopContainer \/ (n \in Containers /\ ContainerRuns(n))
  BY <1>2, PhaseStep
<1>3. CASE DaemonChanges \/ StrangerActs \/ (Rollback \/ AwaitService \/ ComposeReady \/ RotateFails \/ StopFails \/ StopReturns)
  BY <1>3, DaemonStep, StrangerStep, QuietSteps
<1>4. CASE Killed \/ ComposeDown \/ ComposeUp \/ OwnObject \/ CreateObject \/ ObserveObject
  BY <1>4, LedgerSteps, UpStep, OwnStep, CreateStep, ObserveStep
<1>5. CASE ForgetStage \/ ComposeCreates \/ IdentifyAll \/ StartApplications \/ AdmitApplication \/ (RunStage \/ RemoveStage)
  BY <1>5, ForgetStep, ComposeCreatesStep, IdentifyStep, StartAppsStep, AdmitStep, StageSteps
<1>6. CASE RecheckContainers \/ PublishRelease \/ RotateCall \/ RotateCreates \/ RotateRemoves \/ (RotateIdentifies \/ RotateCompletes)
  BY <1>6, RecheckStep, PublishStep, RotateCallStep, RotateCreatesStep, RotateRemovesStep, RotateWritesSteps
<1>7. CASE ValidateAll \/ BeginRemoval \/ RemoveObject \/ EraseRecord \/ (StartService \/ RotateRuns)
  BY <1>7, ValidateStep, BeginRemovalStep, RemoveStep, EraseStep, ServiceSteps
<1>8. QED
  BY <1>1, <1>2, <1>3, <1>4, <1>5, <1>6, <1>7

LEMMA ComposeProperties == ASSUME ComposeInv PROVE ComposeTypeOK /\ OwnershipIsKept /\ WorksWhenReleased
<1>1. ComposeTypeOK
  <2>1. \A n \in Named : /\ docker[n].id \in 0 .. 4 /\ docker[n].ours \in BOOLEAN
                         /\ docker[n].phase \in {"none", "made", "running", "ready", "working", "exited"}
                         /\ {memory[n], disk[n]} \subseteq -1 .. 4
    BY DEF ComposeInv, ComposeTyped, DockerObject, ContainerPhases
  <2>2. QED
    BY <2>1 DEF ComposeInv, ComposeTyped, ComposeTypeOK, ComposeSteps
<1>2. ObjectsAreRecorded
  BY DEF ComposeInv, RecordInv, Sound, ObjectsAreRecorded, OursLeft
<1>3. WorksWhenReleased
  <2>1. SUFFICES ASSUME NEW a \in Apps, docker[a].phase = "working", docker[a].id = memory[a] PROVE releasable
    BY DEF WorksWhenReleased
  <2>2. docker[a].id \in 0 .. 4 /\ releasable \in BOOLEAN
    BY AppsNamed DEF ComposeInv, ComposeTyped, DockerObject
  <2>3. memory[a] # Unrecorded
    BY <2>1, <2>2 DEF Unrecorded
  <2>4. releasable = FALSE => Both(a, Unrecorded)
    BY <2>1 DEF ComposeInv, WorkInv
  <2>5. QED
    BY <2>2, <2>3, <2>4 DEF Both
<1>4. QED
  BY <1>1, <1>2, <1>3 DEF ComposeInv, OwnershipIsKept

-----------------------------------------------------------------------------
(***************************************************************************)
(* What holds of either kind of graph.                                     *)
(***************************************************************************)
ExecutionInv == NativeInv /\ ComposeInv

\* The two inductive invariants hold of every execution, whichever target its
\* graph has (execute_graph).
THEOREM ExecutionInvariant == ExecutionSpec => []ExecutionInv
<1>1. ExecutionInit => ExecutionInv
  BY NativeInit, ComposeBegins DEF ExecutionInit, ExecutionInv
<1>2. ExecutionInv /\ [ExecutionNext]_executionVars => ExecutionInv'
  <2>1. SUFFICES ASSUME ExecutionInv, [ExecutionNext]_executionVars PROVE ExecutionInv'
    OBVIOUS
  <2>2. NativeInv /\ ComposeInv
    BY <2>1 DEF ExecutionInv
  <2>3. CASE Next /\ UNCHANGED composeVars
    BY <2>2, <2>3, NativeStep, ComposeStands DEF ExecutionInv
  <2>4. CASE ComposeNext /\ UNCHANGED vars
    BY <2>2, <2>4, NativeStands, ComposeStep DEF ExecutionInv
  <2>5. CASE UNCHANGED vars /\ UNCHANGED composeVars
    BY <2>2, <2>5, NativeStands, ComposeStands DEF ExecutionInv
  <2>6. QED
    BY <2>1, <2>3, <2>4, <2>5 DEF ExecutionNext, executionVars
<1>3. QED
  BY <1>1, <1>2, PTL DEF ExecutionSpec

\* Processes, PIDs, logs, the ledger and the barrier of a native graph, and the
\* docker objects and records of a container graph, stay in type for every plan,
\* every set of services and every bound.
THEOREM ExecutionTypes == ExecutionSpec => []ExecutionTypeOK
<1>1. ExecutionInv => ExecutionTypeOK
  BY NativeProperties, ComposeProperties DEF ExecutionInv, ExecutionTypeOK
<1>2. QED
  BY <1>1, ExecutionInvariant, PTL

\* down and roll-back signal only processes the graph started, although the PID of
\* one that has ended may be another's by then: the start time is compared before
\* every signal (process_resources.cpp:143-168).
THEOREM OwnSignals == ExecutionSpec => []OnlyOwnSignalled
<1>1. ExecutionInv => OnlyOwnSignalled
  BY NativeProperties DEF ExecutionInv
<1>2. QED
  BY <1>1, ExecutionInvariant, PTL

\* No process of the graph runs on that the ledger does not name, wherever up, a
\* roll-back or down was killed: a child waits at its gate until its record is
\* saved, and ends when the writer of the gate is gone (process_resources.cpp:
\* 294-305, execution.cpp:264-286).
THEOREM ProcessesAreRecorded == ExecutionSpec => []NothingUnrecorded
<1>1. ExecutionInv => NothingUnrecorded
  BY NativeProperties DEF ExecutionInv
<1>2. QED
  BY <1>1, ExecutionInvariant, PTL

\* An application passes the barrier only in a run that was published, and then
\* everybody of the plan was ready or, with startup: available, had been settled
\* (execution.cpp:255-263, 446-518).
THEOREM ReleasedAfterReady == ExecutionSpec => []ReleaseMeansReady
<1>1. ExecutionInv => ReleaseMeansReady
  BY NativeProperties DEF ExecutionInv
<1>2. QED
  BY <1>1, ExecutionInvariant, PTL

\* A down that reports success left no process of the graph and no barrier
\* (ownership_lock.cpp:16-43, execution.cpp:264-286).
THEOREM StoppedIsStopped == ExecutionSpec => []StoppedMeansStopped
<1>1. ExecutionInv => StoppedMeansStopped
  BY NativeProperties DEF ExecutionInv
<1>2. QED
  BY <1>1, ExecutionInvariant, PTL

\* What a container graph made is recorded while docker answers, and nothing that
\* somebody else made is stopped or removed, at every step of up, down, rotation
\* and roll-back, whichever is killed and whichever command fails
\* (compose_execution.cpp:51-89, 281-288, 328-346, 513-525).
THEOREM ObjectsAreKept == ExecutionSpec => []OwnershipIsKept
<1>1. ExecutionInv => OwnershipIsKept
  BY ComposeProperties DEF ExecutionInv
<1>2. QED
  BY <1>1, ExecutionInvariant, PTL

\* A recorded application works only in a run that checked all of its containers:
\* the barrier of an earlier run, which bears the same token, never lets it pass (compose_execution.cpp:291-297,
\* 925-1006).
THEOREM WorkIsReleased == ExecutionSpec => []WorksWhenReleased
<1>1. ExecutionInv => WorksWhenReleased
  BY ComposeProperties DEF ExecutionInv
<1>2. QED
  BY <1>1, ExecutionInvariant, PTL
===============================================================================
