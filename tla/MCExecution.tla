----------------------------- MODULE MCExecution -----------------------------
(* Execution for TLC: a platform and a node, started either way; PIDs are alike. *)
EXTENDS Execution, TLC

MCPlan == <<"platform", "n1">>
PidSymmetry == Permutations(Pids)
NoExtensions == <<>>
OneApplication == <<"a1">>
=============================================================================
