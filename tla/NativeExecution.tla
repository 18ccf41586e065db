--------------------------- MODULE NativeExecution ---------------------------
(***************************************************************************)
(* graphx run up|down for a native graph (execution.cpp): one invocation   *)
(* at a time holds the graph lock, starts the platform, the nodes and the  *)
(* console relay behind a registration gate (process_resources.cpp), waits *)
(* until they are ready, publishes the release barrier the nodes wait for  *)
(* (node_settings.cpp), and stops what the ledger records.  An invocation  *)
(* may be killed between any two steps, a process may exit at any time,    *)
(* and the kernel may give a freed PID to a process of somebody else.      *)
(*                                                                         *)
(* A process is named by the number of its start, its start time: PIDs are *)
(* reused, starts are not.  A test of an identity and the kill() that      *)
(* follows it are one step (the code has no pidfd; a PID is not reused     *)
(* within those instructions).                                             *)
(***************************************************************************)
EXTENDS Integers, Sequences, FiniteSets, SequencesExt

CONSTANTS
  Plan,        \* native-plan.json: the process names, the platform first
  Pids,        \* process IDs
  MaxUps,      \* bound: invocations of up
  MaxDowns,    \* bound: invocations of down
  MaxStarts,   \* bound: processes started, other people's included
  MaxExits,    \* bound: processes that exit by themselves
  MaxCrashes   \* bound: invocations that are killed

Relay == "mg-node-console"
Foreign == "foreign"
Names == ToSet(Plan) \cup {Relay}
Nodes == ToSet(Plan) \ {"platform"}

\* Names are distinct, and none of them is one of the marks used below.
ASSUME PlanAssumption ==
  /\ Plan \in Seq(STRING) /\ Len(Plan) > 0 /\ Plan[1] = "platform" /\ IsInjective(Plan)
  /\ {Relay, Foreign, "pop"} \cap ToSet(Plan) = {}
ASSUME BoundsAssumption == {MaxUps, MaxDowns, MaxStarts, MaxExits, MaxCrashes} \subseteq Nat

VARIABLES
  startup,     \* lifecycle.startup of the graph: all or available
  procs,       \* the processes, by their start
  log,         \* logs/<name>.log
  ledger,      \* ownership.yml
  barrier,     \* barriers/release
  pending,     \* leftovers of publish_execution_file: *.pending files
  console,     \* the console directory: absent, named, made or recorded
  inv,         \* the invocation that holds the graph lock
  result,      \* how the last invocation ended
  everReady,   \* history: the starts that reached readiness
  published,   \* history: the runs that published the barrier
  strangers,   \* history: processes of others that a signal of graphx reached
  budget       \* what the bounds leave

vars == <<startup, procs, log, ledger, barrier, pending, console, inv, result, everReady, published, strangers, budget>>

Live == {"gated", "entering", "handoff", "up", "serving", "ready", "released"}
Idle == [op |-> "none", pc |-> "idle", run |-> 0, then |-> "pop"]
Starts == 1 .. Len(procs)
Own == {s \in Starts : procs[s].name # Foreign}

Init ==
  /\ startup \in {"all", "available"}
  /\ procs = <<>>
  /\ log = [n \in Names |-> "absent"]
  /\ ledger = [status |-> "none", processes |-> <<>>, applications |-> [n \in Nodes |-> "none"]]
  /\ barrier = FALSE
  /\ pending = {}
  /\ console = "absent"
  /\ inv = Idle
  /\ result = "none"
  /\ everReady = {}
  /\ published = {}
  /\ strangers = {}
  /\ budget = [ups |-> MaxUps, downs |-> MaxDowns, exits |-> MaxExits, crashes |-> MaxCrashes]

history == <<everReady, published, strangers>>

-----------------------------------------------------------------------------
(* The operating system: process table, identity, exits.                   *)

FreePids == {p \in Pids : \A s \in Starts : procs[s].pid = p => procs[s].phase = "gone"}
Occupant(pid) == {s \in Starts : procs[s].pid = pid /\ procs[s].phase # "gone"}
IsChild(s) == inv.op = "up" /\ inv.run = procs[s].run
Ended(s) == IF IsChild(s) THEN "zombie" ELSE "gone"
Phase(s, phase) == [procs EXCEPT ![s].phase = phase]
\* waitpid(WNOHANG) for these processes.
Reaped(asked) ==
  [s \in Starts |-> IF s \in asked /\ procs[s].phase = "zombie" /\ IsChild(s)
                    THEN [procs[s] EXCEPT !.phase = "gone"] ELSE procs[s]]

\* native_process_status: 0, 1, or an exception.  The recorded executable is
\* the one the child will exec, so a child in its gate, or the platform while
\* it passes through "graphx platform-lock", has another one.
Status(s) ==
  LET o == Occupant(procs[s].pid) IN
  CASE o = {} \/ \E t \in o : procs[t].phase = "zombie" -> "dead"
    [] o = {s} /\ procs[s].phase \notin {"gated", "entering", "handoff", "zombie"} -> "alive"
    [] OTHER -> "unknown"

\* A child that does not wait for its registration.
Ungated(name, pid) == Append(procs, [name |-> name, pid |-> pid, phase |-> "entering", run |-> inv.run])
\* fork: the child reads its gate first.
Spawned(name, pid) == Append(procs, [name |-> name, pid |-> pid, phase |-> "gated", run |-> inv.run])

\* Only a recorded PID that is reused can matter.
ForeignStarts ==
  /\ Len(procs) < MaxStarts /\ Own = Starts
  /\ \E pid \in FreePids \cap {procs[s].pid : s \in ToSet(ledger.processes)} :
       procs' = Append(procs, [name |-> Foreign, pid |-> pid, phase |-> "up", run |-> 0])
  /\ UNCHANGED <<startup, log, ledger, barrier, pending, console, inv, result, history, budget>>

Exits(s) ==
  /\ procs[s].phase \in Live \ {"gated"} /\ budget.exits > 0
  /\ procs' = Phase(s, Ended(s))
  /\ budget' = [budget EXCEPT !.exits = @ - 1]
  /\ UNCHANGED <<startup, log, ledger, barrier, pending, console, inv, result, history>>

\* init reaps what a finished invocation left; a gated child reads end of file.
Orphaned(s) ==
  /\ procs[s].phase \in {"gated", "zombie"} /\ ~ IsChild(s)
  /\ procs' = Phase(s, "gone")
  /\ UNCHANGED <<startup, log, ledger, barrier, pending, console, inv, result, history, budget>>

\* The steps of a started process: execve, the platform's detour through
\* platform-lock, the ready line of await_node_release.
Advance(s) ==
  /\ \/ procs[s].phase = "entering" /\ procs' = Phase(s, "up")
     \/ procs[s].phase = "up" /\ procs[s].name = "platform" /\ procs' = Phase(s, "handoff")
     \/ procs[s].phase = "handoff" /\ procs' = Phase(s, "serving")
  /\ UNCHANGED <<startup, log, ledger, barrier, pending, console, inv, result, history, budget>>

BecomesReady(s) ==
  /\ \/ procs[s].name = "platform" /\ procs[s].phase = "serving"
     \/ procs[s].name \in Nodes /\ procs[s].phase = "up"
  /\ procs' = Phase(s, "ready")
  /\ log' = [log EXCEPT ![procs[s].name] = "ready"]
  /\ everReady' = everReady \cup {s}
  /\ UNCHANGED <<startup, ledger, barrier, pending, console, inv, result, published, strangers, budget>>

\* await_node_release: the token of the barrier is the ledger's, run after run.
Released(s) ==
  /\ procs[s].name \in Nodes /\ procs[s].phase = "ready" /\ barrier
  /\ procs' = Phase(s, "released")
  /\ UNCHANGED <<startup, log, ledger, barrier, pending, console, inv, result, history, budget>>

\* execute_node_console publishes the node's console through a .pending file.
RelayPublishes(s) ==
  /\ procs[s].name = Relay /\ procs[s].phase = "up" /\ ledger.status = "ready" /\ s \in ToSet(ledger.processes)
  /\ pending' = IF "console" \in pending THEN pending \ {"console"} ELSE pending \cup {"console"}
  /\ UNCHANGED <<startup, procs, log, ledger, barrier, console, inv, result, history, budget>>

-----------------------------------------------------------------------------
(* Invocations: the lock, and the way an invocation ends.                  *)

\* A lock closed by the fork.
ClosedOnFork == inv = Idle
\* The lock's descriptor is not close-on-exec: a child keeps it until it has
\* left its gate and closed what it inherited.
Unlocked == inv = Idle /\ \A s \in Starts : procs[s].phase \notin {"gated", "entering"}

Goto(pc) == inv' = [inv EXCEPT !.pc = pc]
Ends(outcome) == inv' = Idle /\ result' = outcome

Crash ==
  /\ inv # Idle /\ budget.crashes > 0
  /\ Ends("crashed")
  /\ budget' = [budget EXCEPT !.crashes = @ - 1]
  /\ UNCHANGED <<startup, procs, log, ledger, barrier, pending, console, history>>

-----------------------------------------------------------------------------
(* execute_graph, up: preparation.                                         *)

\* A clean-up that forgets the barrier.
KeepBarrier == barrier' = barrier
\* remove_barrier, of stop and of the next up.
RemoveBarrier == barrier' = FALSE

UpCall ==
  /\ Unlocked /\ budget.ups > 0 /\ ledger.processes = <<>>
  /\ RemoveBarrier
  /\ inv' = [op |-> "up", pc |-> "create", run |-> MaxUps + 1 - budget.ups, then |-> "pop"]
  /\ budget' = [budget EXCEPT !.ups = @ - 1]
  /\ result' = "none"
  /\ UNCHANGED <<startup, procs, log, ledger, pending, console, history>>

Create ==
  /\ inv.pc = "create"
  /\ ledger' = [ledger EXCEPT !.status = "creating", !.applications = [n \in Nodes |-> "none"]]
  /\ Goto("console")
  /\ UNCHANGED <<startup, procs, log, barrier, pending, console, result, history, budget>>

\* prepare_node_console removes the previous directory when it is the recorded
\* one and holds only known names, and saves the new name before it makes it.
Reusable == console = "absent" \/ (console = "recorded" /\ "console" \notin pending)
PrepareConsole ==
  /\ \/ /\ inv.pc = "console" /\ Reusable
        /\ console' = "named" /\ Goto("mkdir") /\ UNCHANGED result
     \/ inv.pc = "console" /\ ~ Reusable /\ Ends("failed") /\ UNCHANGED console
     \/ inv.pc = "mkdir" /\ console' = "made" /\ Goto("identity") /\ UNCHANGED result
     \/ inv.pc = "identity" /\ console' = "recorded" /\ Goto("start") /\ UNCHANGED result
  /\ UNCHANGED <<startup, procs, log, ledger, barrier, pending, history, budget>>

-----------------------------------------------------------------------------
(* start_native_process.                                                   *)

Started == Len(ledger.processes)
NextName == IF Started < Len(Plan) THEN Plan[Started + 1] ELSE Relay
Child == CHOOSE s \in Own : \A t \in Own : t <= s

\* The previous log is renamed away; the new one is created exclusively.
Rotated(name) == [log EXCEPT ![name] = "empty"]

Fork ==
  /\ inv.pc \in {"start", "relay"} /\ Len(procs) < MaxStarts
  /\ \E pid \in FreePids : procs' = Spawned(NextName, pid)
  /\ log' = Rotated(NextName)
  /\ Goto("register")
  /\ UNCHANGED <<startup, ledger, barrier, pending, console, result, history, budget>>

Recorded == [ledger EXCEPT !.processes = Append(@, Child)]
Register ==
  /\ inv.pc = "register"
  /\ ledger' = Recorded
  /\ Goto("gate")
  /\ UNCHANGED <<startup, procs, log, barrier, pending, console, result, history, budget>>

OpenGate ==
  /\ inv.pc = "gate"
  /\ procs' = IF procs[Child].phase = "gated" THEN Phase(Child, "entering") ELSE procs
  /\ Goto("confirm")
  /\ UNCHANGED <<startup, log, ledger, barrier, pending, console, result, history, budget>>

AfterStart ==
  IF procs[Child].name = Relay THEN "done"
  ELSE IF startup = "all" \/ procs[Child].name = "platform" THEN "readiness"
  ELSE IF Started < Len(Plan) THEN "start" ELSE "admit"
Confirm ==
  /\ inv.pc = "confirm" /\ procs[Child].phase \notin {"gated", "entering"}
  /\ IF AfterStart = "done" THEN Ends("ready") ELSE Goto(AfterStart) /\ UNCHANGED result
  /\ UNCHANGED <<startup, procs, log, ledger, barrier, pending, console, history, budget>>

\* Registration, the gate or the confirmation fails: the child is killed and reaped.
StartFails ==
  /\ inv.pc \in {"register", "gate", "confirm"}
  /\ procs' = Phase(Child, "gone")
  /\ Goto("validate")
  /\ UNCHANGED <<startup, log, ledger, barrier, pending, console, result, history, budget>>

-----------------------------------------------------------------------------
(* execute_graph, up: readiness, admission, release.                       *)

Readiness ==
  /\ inv.pc = "readiness"
  /\ \/ procs[Child].name = "platform" /\ procs[Child].phase = "ready"
     \/ procs[Child].name # "platform" /\ procs[Child].phase \in Live /\ log[procs[Child].name] = "ready"
  /\ Goto(IF Started < Len(Plan) THEN "start" ELSE IF startup = "all" THEN "recheck" ELSE "admit")
  /\ UNCHANGED <<startup, procs, log, ledger, barrier, pending, console, result, history, budget>>

\* The loop's waitpid takes the exit status, and with it the PID goes.
ReadinessExit ==
  /\ inv.pc = "readiness" /\ procs[Child].phase = "zombie"
  /\ procs' = Reaped({Child})
  /\ Goto("validate")
  /\ UNCHANGED <<startup, log, ledger, barrier, pending, console, result, history, budget>>

\* The available-startup loop.  The save() of a pass is taken with each of its
\* admissions: only status reads them.
Unsettled == {s \in ToSet(ledger.processes) : procs[s].name \in Nodes /\ ledger.applications[procs[s].name] = "none"}
Admission(s, outcome) == [ledger EXCEPT !.applications[procs[s].name] = outcome]
Admit ==
  /\ inv.pc = "admit"
  /\ \E s \in Unsettled :
     /\ procs' = Reaped({s})
     /\ \/ Status(s) = "dead" /\ ledger' = Admission(s, "exited") /\ UNCHANGED inv
        \/ Status(s) = "alive" /\ log[procs[s].name] = "ready" /\ ledger' = Admission(s, "ready") /\ UNCHANGED inv
        \/ /\ Status(s) = "alive" /\ inv' = [inv EXCEPT !.pc = "stop", !.then = procs[s].name]
           /\ UNCHANGED ledger
  /\ UNCHANGED <<startup, log, barrier, pending, console, result, history, budget>>
Admitted ==
  /\ inv.pc = "admit" /\ Unsettled = {} /\ Goto("recheck")
  /\ UNCHANGED <<startup, procs, log, ledger, barrier, pending, console, result, history, budget>>

MayRelease(s) ==
  \/ Status(s) = "alive"
  \/ Status(s) = "dead" /\ startup = "available" /\ procs[s].name # "platform"
Recheck ==
  /\ inv.pc = "recheck" /\ \A s \in ToSet(ledger.processes) : MayRelease(s)
  /\ ledger' = [ledger EXCEPT !.applications =
       [n \in Nodes |-> IF @[n] = "ready" /\ \E s \in ToSet(ledger.processes) : procs[s].name = n /\ Status(s) = "dead"
                        THEN "exited" ELSE @[n]]]
  /\ procs' = Reaped(ToSet(ledger.processes))
  /\ Goto("publish")
  /\ UNCHANGED <<startup, log, barrier, pending, console, result, history, budget>>

\* publish_execution_file: an exclusive .pending file, then a rename.
Publish ==
  /\ \/ /\ inv.pc = "publish" /\ "release" \notin pending
        /\ pending' = pending \cup {"release"} /\ Goto("rename") /\ UNCHANGED <<barrier, ledger, published>>
     \/ /\ inv.pc = "rename"
        /\ pending' = pending \ {"release"} /\ barrier' = TRUE /\ Goto("ready") /\ published' = published \cup {inv.run} /\ UNCHANGED ledger
     \/ /\ inv.pc = "ready"
        /\ ledger' = [ledger EXCEPT !.status = "ready"] /\ Goto("relay") /\ UNCHANGED <<pending, barrier, published>>
  /\ UNCHANGED <<startup, procs, log, console, result, everReady, strangers, budget>>

\* Interruption, a deadline, an exit, an I/O error: everything in the try block.
Fails ==
  /\ inv.op = "up" /\ inv.pc \in {"start", "readiness", "admit", "recheck", "publish", "rename", "ready", "relay"}
  /\ Goto("validate")
  /\ UNCHANGED <<startup, procs, log, ledger, barrier, pending, console, result, history, budget>>

-----------------------------------------------------------------------------
(* stop: down, and the end of an up that failed.                           *)

DownCall ==
  /\ Unlocked /\ budget.downs > 0 /\ ledger.status # "none"
  /\ inv' = [op |-> "down", pc |-> "validate", run |-> 0, then |-> "pop"]
  /\ budget' = [budget EXCEPT !.downs = @ - 1]
  /\ result' = "none"
  /\ UNCHANGED <<startup, procs, log, ledger, barrier, pending, console, history>>

Identified == \A s \in ToSet(ledger.processes) : Status(s) # "unknown"
Validate ==
  /\ inv.pc = "validate"
  /\ procs' = Reaped(ToSet(ledger.processes))
  /\ \/ Identified /\ RemoveBarrier /\ Goto("destroy") /\ UNCHANGED result
     \/ ~ Identified /\ Ends("failed") /\ UNCHANGED barrier
  /\ UNCHANGED <<startup, log, ledger, pending, console, history, budget>>

Destroy ==
  /\ inv.pc = "destroy"
  /\ ledger' = [ledger EXCEPT !.status = "destroying"]
  /\ inv' = [inv EXCEPT !.pc = "stop", !.then = "pop"]
  /\ UNCHANGED <<startup, procs, log, barrier, pending, console, result, history, budget>>

\* The process stop_native_process is called for, and what its return leads to.
Target ==
  IF inv.then = "pop" THEN Last(ledger.processes)
  ELSE CHOOSE s \in ToSet(ledger.processes) : procs[s].name = inv.then
Stopped ==
  IF inv.then = "pop"
  THEN ledger' = [ledger EXCEPT !.processes = Front(@)] /\ inv' = [inv EXCEPT !.pc = "stop"]
  ELSE ledger' = Admission(Target, "timeout") /\ inv' = [inv EXCEPT !.pc = "admit", !.then = "pop"]
Signal(s) == strangers' = strangers \cup (Occupant(procs[s].pid) \ Own)
Throws == IF inv.then = "pop" THEN Ends("failed") ELSE Goto("validate") /\ UNCHANGED result

StopProcess ==
  /\ inv.pc \in {"stop", "term", "kill"} /\ (inv.then = "pop" => ledger.processes # <<>>)
  /\ \/ Status(Target) = "dead" /\ Stopped /\ procs' = Reaped({Target}) /\ UNCHANGED <<result, strangers>>
     \/ /\ Status(Target) = "alive" /\ inv.pc = "stop" /\ Signal(Target) /\ Goto("term")
        /\ UNCHANGED <<procs, ledger, result>>
     \/ Status(Target) = "unknown" /\ Throws /\ UNCHANGED <<procs, ledger, strangers>>
  /\ UNCHANGED <<startup, log, barrier, pending, console, everReady, published, budget>>

\* A PID that answers to kill(pid, 0) is taken for the recorded process.
StatusByPid(s) == IF Occupant(procs[s].pid) = {} THEN "dead" ELSE "alive"
\* An escalation that asks for the PID only.
MayKillPid(s) == StatusByPid(s) = "alive"
\* Two seconds after SIGTERM: the identity once more, then SIGKILL.
MayKill(s) == Status(s) = "alive"
Escalate ==
  /\ inv.pc = "term" /\ MayKill(Target)
  /\ Signal(Target)
  /\ procs' = [s \in Starts |-> IF s \in Occupant(procs[Target].pid) THEN [procs[s] EXCEPT !.phase = Ended(s)] ELSE procs[s]]
  /\ Goto("kill")
  /\ UNCHANGED <<startup, log, ledger, barrier, pending, console, result, everReady, published, budget>>

StopEnds ==
  /\ inv.pc = "stop" /\ inv.then = "pop" /\ ledger.processes = <<>>
  /\ Ends(IF inv.op = "down" THEN "stopped" ELSE "failed")
  /\ UNCHANGED <<startup, procs, log, ledger, barrier, pending, console, history, budget>>

Next ==
  \/ ForeignStarts \/ Crash
  \/ \E s \in Starts : Exits(s) \/ Orphaned(s) \/ Advance(s) \/ BecomesReady(s) \/ Released(s) \/ RelayPublishes(s)
  \/ UpCall \/ Create \/ PrepareConsole
  \/ Fork \/ Register \/ OpenGate \/ Confirm \/ StartFails
  \/ Readiness \/ ReadinessExit \/ Admit \/ Admitted \/ Recheck \/ Publish \/ Fails
  \/ DownCall \/ Validate \/ Destroy \/ StopProcess \/ Escalate \/ StopEnds

Spec == Init /\ [][Next]_vars

-----------------------------------------------------------------------------
TypeOK ==
  /\ startup \in {"all", "available"}
  /\ procs \in Seq([name : Names \cup {Foreign}, pid : Pids, phase : Live \cup {"zombie", "gone"}, run : 0 .. MaxUps])
  /\ Len(procs) <= MaxStarts
  /\ \A p \in Pids : Cardinality(Occupant(p)) <= 1
  /\ log \in [Names -> {"absent", "empty", "ready"}]
  /\ ledger.status \in {"none", "creating", "ready", "destroying"}
  /\ IsInjective(ledger.processes) /\ ToSet(ledger.processes) \subseteq Own
  /\ ledger.applications \in [Nodes -> {"none", "ready", "exited", "timeout"}]
  /\ barrier \in BOOLEAN
  /\ pending \subseteq {"release", "console"}
  /\ console \in {"absent", "named", "made", "recorded"}
  /\ result \in {"none", "crashed", "failed", "ready", "stopped"}
  /\ everReady \subseteq Own /\ published \subseteq 1 .. MaxUps

\* No signal of graphx ever reaches a process it did not start, although a
\* recorded PID may belong to somebody else by the time down, the roll-back of
\* up or the escalation to SIGKILL uses it: every kill() follows a test of PID,
\* start time and executable (process_resources.cpp:143-168).
OnlyOwnSignalled == strangers = {}

\* A process past its gate is in the ledger on disk, whatever step up was killed
\* in: it is registered before the gate opens, a child whose gate never opens
\* exits, and its record goes only once it has ended (process_resources.cpp:
\* 294-305, execution.cpp:264-286).
NothingUnrecorded ==
  \A s \in Own : procs[s].phase \in Live \ {"gated"} => s \in ToSet(ledger.processes)

\* A node works only after up released its run: that up published the barrier,
\* and by then every process of the plan had answered its health probe or
\* printed its ready line or, with available startup, had been admitted as
\* exited or timed out.  The barrier's token is the same run after run, so a
\* barrier that outlives its run would let the next one's nodes pass before
\* their graph is ready (execution.cpp:255-263, 446-518).
ReleaseMeansReady ==
  \A s \in Own : procs[s].phase = "released" =>
    /\ procs[s].run \in published
    /\ \A n \in ToSet(Plan) : \E t \in Own :
         /\ procs[t].name = n /\ procs[t].run = procs[s].run
         /\ \/ t \in everReady
            \/ startup = "available" /\ n \in Nodes /\ ledger.applications[n] \in {"exited", "timeout"}

\* After a down that reports "stopped" nothing of the graph runs and no barrier
\* would release the next one early, although an up was killed before: a child
\* that was not registered yet still holds the graph lock, so down is refused
\* (ownership_lock.cpp:16-43, execution.cpp:264-286).
StoppedMeansStopped ==
  result = "stopped" => ~ barrier /\ \A s \in Own : procs[s].phase \notin Live
=============================================================================
