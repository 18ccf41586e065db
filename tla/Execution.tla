------------------------------ MODULE Execution ------------------------------
(***************************************************************************)
(* graphx run up and down: execute_graph hands a graph of native processes *)
(* to NativeExecution and every other one to ComposeExecution.  A graph is *)
(* of one kind, so each behaviour follows one of them.                     *)
(***************************************************************************)
EXTENDS NativeExecution, ComposeExecution

VARIABLE dispatch   \* what the graph's target asks for

executionVars == <<dispatch, vars, composeVars>>

ExecutionInit ==
  /\ dispatch \in {"native", "compose"}
  /\ Init /\ ComposeInit
  /\ admitAll = (startup = "all")   \* lifecycle.startup
ExecutionNext ==
  /\ dispatch' = dispatch
  /\ \/ dispatch = "native" /\ Next /\ UNCHANGED composeVars
     \/ dispatch = "compose" /\ ComposeNext /\ UNCHANGED vars
ExecutionSpec == ExecutionInit /\ [][ExecutionNext]_executionVars

-----------------------------------------------------------------------------
ExecutionTypeOK == TypeOK /\ ComposeTypeOK
=============================================================================
