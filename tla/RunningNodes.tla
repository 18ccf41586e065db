----------------------------- MODULE RunningNodes -----------------------------
(***************************************************************************)
(* What the processes of a graph do beside moving messages: nodes carry    *)
(* out the commands of the telemetry collector, and the VITA processor     *)
(* controls its radios and assembles their samples.  The epoch that the    *)
(* controller starts a stream with is one of Epochs for the assembler;     *)
(* otherwise the three share no state, so each behaviour follows one.      *)
(***************************************************************************)
EXTENDS ControlPlane, SampleAssembler, RadioControl

VARIABLE followed   \* the part this behaviour follows

nodesVars == <<followed, vars, assemblerVars, radioControlVars>>

NodesInit ==
  /\ followed \in {"telemetry", "assembler", "radios"}
  /\ Init /\ AssemblerInit /\ RadioControlInit
  /\ followed # "telemetry" => files      \* of no concern to the others

NodesNext ==
  /\ followed' = followed
  /\ \/ followed = "telemetry" /\ Next /\ UNCHANGED <<assemblerVars, radioControlVars>>
     \/ followed = "assembler" /\ AssemblerNext /\ UNCHANGED <<vars, radioControlVars>>
     \/ followed = "radios" /\ RadioControlNext /\ UNCHANGED <<vars, assemblerVars>>

NodesSpec == NodesInit /\ [][NodesNext]_nodesVars

-----------------------------------------------------------------------------
NodesTypeOK == TypeOK /\ AssemblerTypeOK /\ RadioControlTypeOK
=============================================================================
