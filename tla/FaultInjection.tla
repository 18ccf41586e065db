--------------------------- MODULE FaultInjection ---------------------------
(***************************************************************************)
(* The scenario actions that change the network of a ready graph: one      *)
(* netem fault on one attachment, lifted by a timer process of its own, by *)
(* scenario-clear or by `down`, and one manual route of one router.  Every *)
(* operation runs under the exclusive graph lock, so one coordinator at a  *)
(* time; the timers and foreign administrators run beside it, and the      *)
(* coordinator may be killed at every step.                                *)
(*                                                                         *)
(* `tc qdisc show` prints the handle the kernel gave the qdisc, so two     *)
(* applications of a fault have two identities: they are numbered.         *)
(***************************************************************************)
EXTENDS Naturals

CONSTANTS MaxApplications, MaxForeign   \* bounds of the model

ASSUME FaultAssumption == MaxApplications \in Nat \ {0} /\ MaxForeign \in Nat

VARIABLES
  graph,        \* OwnershipState::status
  action,       \* the status of the fault's record in state.actions
  fault,        \* state.faults: the application registered, 0 for none
  routeAction,  \* the status of the route's record
  step,         \* what the coordinator is about to do
  seen,         \* timer_active of clear_fault
  applied,      \* applications so far: the number of the latest
  qdisc,        \* the netem qdisc of the interface: NoQdisc, ForeignQdisc or an application
  route,        \* the route in the router's namespace: "none", "foreign" or "ours"
  timer,        \* the timer process of each application
  elapsed,      \* the applications whose deadline has passed
  foreign,      \* changes by other administrators so far
  abandoned     \* killed coordinators that left a netem nobody lifts

ledgerVars == <<graph, action, fault, routeAction>>
kernelVars == <<qdisc, route>>
historyVars == <<foreign, abandoned>>
faultVars == <<ledgerVars, step, seen, applied, kernelVars, timer, elapsed, historyVars>>

Applications == 1 .. MaxApplications
NoQdisc == 0
ForeignQdisc == MaxApplications + 1
Netem(q) == q # NoQdisc
\* timer_owned: the process is there and is still called graphx-fault.
TimerOwned(k) == timer[k] \in {"gated", "asleep", "awake"}
\* process_start_time(pid).empty()
TimerGone(k) == timer[k] = "gone"

FaultInit ==
  /\ graph = "ready" /\ action = "none" /\ fault = 0 /\ routeAction = "none"
  /\ step = "idle" /\ seen = FALSE
  /\ applied = 0 /\ qdisc = NoQdisc /\ route = "none"
  /\ timer = [k \in Applications |-> "none"] /\ elapsed = {}
  /\ foreign = 0 /\ abandoned = FALSE

-----------------------------------------------------------------------------
\* fault_healthy, which the ownership check of every operation asks first.
FaultHealthy ==
  fault # 0 => IF TimerOwned(fault) THEN qdisc = fault
                                    ELSE fault \in elapsed /\ ~Netem(qdisc)

\* scenario-run of the fault: its record is pending before anything happens.
RunFault ==
  /\ step = "idle" /\ graph = "ready" /\ action \in {"none", "cleared"} /\ FaultHealthy
  /\ applied < MaxApplications
  /\ action' = "pending" /\ step' = "add"
  /\ UNCHANGED <<graph, fault, routeAction, seen, applied, kernelVars, timer, elapsed, historyVars>>
\* create_fault refuses an interface that has a netem qdisc, tc may fail, and a new
\* qdisc that cannot be read back is left behind; the record stays pending.
AddQdisc ==
  /\ step = "add"
  /\ \/ step' = "idle" /\ UNCHANGED <<qdisc, applied>>
     \/ /\ ~Netem(qdisc) /\ applied' = applied + 1 /\ qdisc' = applied + 1
        /\ step' \in {"spawn", "idle"}
  /\ UNCHANGED <<ledgerVars, seen, route, timer, elapsed, historyVars>>
\* spawn_fault_timer: the child waits at its gate for the registration.
SpawnTimer ==
  /\ step = "spawn"
  /\ \/ timer' = [timer EXCEPT ![applied] = "gated"] /\ step' = "register"
     \/ timer' = [timer EXCEPT ![applied] = "gone"] /\ step' = "rollback"  \* no fork, no identity
  /\ UNCHANGED <<ledgerVars, seen, applied, kernelVars, elapsed, historyVars>>
RegisterFault ==
  /\ step = "register"
  /\ \/ fault' = applied /\ step' = "gate"
     \/ UNCHANGED fault /\ step' = "unwind"                                \* the ledger is not saved
  /\ UNCHANGED <<graph, action, routeAction, seen, applied, kernelVars, timer, elapsed, historyVars>>
OpenGate ==
  /\ step = "gate"
  /\ timer' = [timer EXCEPT ![applied] = "asleep"] /\ step' = "complete"
  /\ UNCHANGED <<ledgerVars, seen, applied, kernelVars, elapsed, historyVars>>
\* The handler of create_fault stops the timer, then removes its own qdisc.
Unwind ==
  /\ step = "unwind" /\ step' = "rollback" /\ timer' = [timer EXCEPT ![applied] = "gone"]
  /\ UNCHANGED <<ledgerVars, seen, applied, kernelVars, elapsed, historyVars>>
Rollback ==
  /\ step = "rollback" /\ step' = "idle"
  /\ qdisc' = IF qdisc = applied THEN NoQdisc ELSE qdisc
  /\ UNCHANGED <<ledgerVars, seen, applied, route, timer, elapsed, historyVars>>
\* The last checkpoint: a signal leaves the record pending.
CompleteFault ==
  /\ step = "complete" /\ step' = "idle"
  /\ action' \in {"pending", "complete"}
  /\ UNCHANGED <<graph, fault, routeAction, seen, applied, kernelVars, timer, elapsed, historyVars>>

-----------------------------------------------------------------------------
\* clear_fault, called by scenario-clear and by destroy, reads the timer and
\* then the qdisc, stops the timer and removes the qdisc.
ClearCall ==
  /\ step = "idle" /\ graph = "ready" /\ action = "complete" /\ fault # 0 /\ FaultHealthy
  /\ step' = "look" /\ seen' = TimerOwned(fault)
  /\ UNCHANGED <<ledgerVars, applied, kernelVars, timer, elapsed, historyVars>>
FaultDown ==
  /\ step = "idle" /\ graph \in {"ready", "destroying"} /\ FaultHealthy
  /\ graph' = "destroying"
  /\ IF fault # 0 THEN step' = "look" /\ seen' = TimerOwned(fault)
                  ELSE step' = "destroy" /\ UNCHANGED seen
  /\ UNCHANGED <<action, fault, routeAction, applied, kernelVars, timer, elapsed, historyVars>>
Refusal(q) == IF seen THEN q # fault ELSE fault \notin elapsed \/ Netem(q)
Look ==
  /\ step = "look"
  /\ step' = IF Refusal(qdisc) THEN "idle" ELSE IF seen THEN "stop" ELSE "cleared"
  /\ UNCHANGED <<ledgerVars, seen, applied, kernelVars, timer, elapsed, historyVars>>
\* stop_owned_process: a timer that became tc is not stopped, and refused.
AnythingElseIsGone(k) == IF TimerOwned(k) THEN "kill" ELSE "delete"
StopCheck(k) == IF TimerOwned(k) THEN "kill" ELSE IF TimerGone(k) THEN "delete" ELSE "idle"
Stop ==
  /\ step = "stop" /\ step' = StopCheck(fault)
  /\ UNCHANGED <<ledgerVars, seen, applied, kernelVars, timer, elapsed, historyVars>>
Kill ==
  /\ step = "kill" /\ step' = "delete" /\ timer' = [timer EXCEPT ![fault] = "gone"]
  /\ UNCHANGED <<ledgerVars, seen, applied, kernelVars, elapsed, historyVars>>
\* `tc qdisc del` fails when there is nothing to delete.
LeavesExpired == qdisc' = IF fault \in elapsed THEN qdisc ELSE NoQdisc
RemoveRoot == qdisc' = NoQdisc
Delete ==
  /\ step = "delete"
  /\ step' = IF qdisc = NoQdisc THEN "idle" ELSE "cleared"
  /\ RemoveRoot
  /\ UNCHANGED <<ledgerVars, seen, applied, route, timer, elapsed, historyVars>>
Cleared ==
  /\ step = "cleared"
  /\ IF graph = "ready" THEN fault' = 0 /\ action' = "cleared" /\ step' = "idle"
                        ELSE UNCHANGED <<fault, action>> /\ step' = "destroy"
  /\ UNCHANGED <<graph, routeAction, seen, applied, kernelVars, timer, elapsed, historyVars>>
\* destroy deletes the interface and the namespace, then the infrastructure of the ledger.
Destroy ==
  /\ step = "destroy" /\ step' = "idle" /\ graph' = "absent"
  /\ qdisc' = NoQdisc /\ route' = "none" /\ fault' = 0
  /\ UNCHANGED <<action, routeAction, seen, applied, timer, elapsed, historyVars>>

-----------------------------------------------------------------------------
\* route-apply refuses a route that is there, then `ip route add`.
ApplyRoute ==
  /\ step = "idle" /\ graph = "ready" /\ routeAction \in {"none", "cleared"} /\ FaultHealthy
  /\ route = "none"
  /\ routeAction' = "pending" /\ step' = "route-add"
  /\ UNCHANGED <<graph, action, fault, seen, applied, kernelVars, timer, elapsed, historyVars>>
AddRoute ==
  /\ step = "route-add" /\ step' = "idle"
  /\ IF route = "none" THEN route' = "ours" /\ routeAction' \in {"pending", "complete"}
                       ELSE UNCHANGED <<route, routeAction>>      \* the command fails
  /\ UNCHANGED <<graph, action, fault, seen, applied, qdisc, timer, elapsed, historyVars>>
\* route-clear and scenario-clear compare the route with the recorded one.
ClearRoute ==
  /\ step = "idle" /\ graph = "ready" /\ routeAction = "complete" /\ FaultHealthy /\ route = "ours"
  /\ routeAction' = "pending" /\ step' = "route-delete"
  /\ UNCHANGED <<graph, action, fault, seen, applied, kernelVars, timer, elapsed, historyVars>>
DeleteRoute ==
  /\ step = "route-delete" /\ step' = "idle"
  /\ IF route = "none" THEN UNCHANGED <<route, routeAction>>
                       ELSE route' = "none" /\ routeAction' = "cleared"
  /\ UNCHANGED <<graph, action, fault, seen, applied, qdisc, timer, elapsed, historyVars>>

-----------------------------------------------------------------------------
\* The timer process, after its gate was opened.
Elapse(k) ==
  /\ timer[k] # "none" /\ k \notin elapsed /\ elapsed' = elapsed \cup {k}
  /\ UNCHANGED <<ledgerVars, step, seen, applied, kernelVars, timer, historyVars>>
Wake(k) ==
  /\ timer[k] = "asleep" /\ k \in elapsed
  /\ timer' = [timer EXCEPT ![k] = "awake"]
  /\ UNCHANGED <<ledgerVars, step, seen, applied, kernelVars, elapsed, historyVars>>
\* It compares the qdisc and becomes tc, or ends.
Compare(k) ==
  /\ timer[k] = "awake"
  /\ timer' = [timer EXCEPT ![k] = IF qdisc = k THEN "tc" ELSE "gone"]
  /\ UNCHANGED <<ledgerVars, step, seen, applied, kernelVars, elapsed, historyVars>>
LiftByTimer(k) ==
  /\ timer[k] = "tc"
  /\ timer' = [timer EXCEPT ![k] = "gone"] /\ qdisc' = NoQdisc
  /\ UNCHANGED <<ledgerVars, step, seen, applied, route, elapsed, historyVars>>

\* Other administrators of the host change the qdisc or the route.
ForeignChange ==
  /\ foreign < MaxForeign /\ foreign' = foreign + 1 /\ graph # "absent"
  /\ \/ qdisc' \in {NoQdisc, ForeignQdisc} \ {qdisc} /\ UNCHANGED route
     \/ route' \in {"none", "foreign"} \ {route} /\ UNCHANGED qdisc
  /\ UNCHANGED <<ledgerVars, step, seen, applied, timer, elapsed, abandoned>>
\* The coordinator is killed: the read end of a closed gate ends the timer.
Killed ==
  /\ step # "idle" /\ step' = "idle"
  /\ timer' = [k \in Applications |-> IF timer[k] = "gated" THEN "gone" ELSE timer[k]]
  /\ abandoned' = (abandoned \/ \E k \in Applications : qdisc = k /\ timer'[k] \in {"none", "gone"})
  /\ UNCHANGED <<ledgerVars, seen, applied, kernelVars, elapsed, foreign>>

TimerStep(k) == Wake(k) \/ Compare(k) \/ LiftByTimer(k)
Coordinator ==
  \/ AddQdisc \/ SpawnTimer \/ RegisterFault \/ OpenGate \/ Unwind \/ Rollback \/ CompleteFault
  \/ Look \/ Stop \/ Kill \/ Delete \/ Cleared \/ Destroy
  \/ AddRoute \/ DeleteRoute
FaultNext ==
  \/ RunFault \/ ClearCall \/ FaultDown \/ ApplyRoute \/ ClearRoute
  \/ Coordinator \/ ForeignChange \/ Killed
  \/ \E k \in Applications : Elapse(k) \/ TimerStep(k)

\* A process that can run does run, and time passes.
FaultFairness ==
  /\ WF_faultVars(Coordinator)
  /\ \A k \in Applications : WF_faultVars(TimerStep(k)) /\ WF_faultVars(Elapse(k))
FaultSpec == FaultInit /\ [][FaultNext]_faultVars /\ FaultFairness

-----------------------------------------------------------------------------
FaultTypeOK ==
  /\ graph \in {"ready", "destroying", "absent"}
  /\ action \in {"none", "pending", "complete", "cleared"} /\ routeAction \in {"none", "pending", "complete", "cleared"}
  /\ fault \in 0 .. MaxApplications /\ applied \in 0 .. MaxApplications
  /\ step \in {"idle", "add", "spawn", "register", "gate", "unwind", "rollback", "complete", "look", "stop",
               "kill", "delete", "cleared", "destroy", "route-add", "route-delete"}
  /\ seen \in BOOLEAN
  /\ qdisc \in 0 .. ForeignQdisc /\ route \in {"none", "foreign", "ours"}
  /\ timer \in [Applications -> {"none", "gated", "asleep", "awake", "tc", "gone"}]
  /\ elapsed \subseteq Applications /\ foreign \in 0 .. MaxForeign /\ abandoned \in BOOLEAN

\* What the ledger records is in force: while the timer of the registered
\* fault waits, its own qdisc is on the interface -- no timer of an earlier
\* application lifts it -- and the route of a complete record is there.  The
\* kernel and the ledger may differ only while an operation is under way, after
\* one was killed, or when another administrator changed them
\* (fault_resources.cpp:76-93, 190-201; scenario_execution.cpp:315-376).
RecordedIsInForce ==
  graph = "ready" /\ foreign = 0 =>
    /\ fault # 0 => (timer[fault] = "asleep" => qdisc = fault)
    /\ routeAction = "complete" => route = "ours"

\* A fault whose timer was released ends, whatever becomes of the coordinator,
\* unless that was killed after it had stopped the timer and before it removed
\* the qdisc (fault_resources.cpp:76-93, 190-201).
FaultsEnd == \A k \in Applications : (timer[k] = "asleep") ~> (qdisc # k \/ abandoned)
=============================================================================
