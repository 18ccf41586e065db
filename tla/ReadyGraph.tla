----------------------------- MODULE ReadyGraph -----------------------------
(***************************************************************************)
(* What happens in a graph that is up, beside its own messages: faults and *)
(* routes, the capture of a link, the rotation of a credential, the boot   *)
(* and the console of a guest, the history of its telemetry, the trace of  *)
(* a node, and a command that any of them runs.  They exclude each other   *)
(* by the graph lock or run in processes of their own, and share no state, *)
(* so each behaviour follows one of them.                                  *)
(***************************************************************************)
EXTENDS FaultInjection, CaptureHandoff, CredentialRotation, GuestSession, HistoryStore, CommandRunner,
        TraceExport

VARIABLE part   \* the part this behaviour follows

readyVars == <<part, faultVars, captureVars, credentialVars, guestVars, storeVars, commandVars, traceVars>>

ReadyInit ==
  /\ part \in {"fault", "capture", "credential", "guest", "history", "command", "trace"}
  /\ FaultInit /\ CaptureInit /\ CredentialInit /\ GuestInit /\ HistoryInit /\ CommandInit
  /\ TraceInit

ReadyNext ==
  /\ part' = part
  /\ \/ /\ part = "fault" /\ FaultNext
        /\ UNCHANGED <<captureVars, credentialVars, guestVars, storeVars, commandVars, traceVars>>
     \/ /\ part = "capture" /\ CaptureNext
        /\ UNCHANGED <<faultVars, credentialVars, guestVars, storeVars, commandVars, traceVars>>
     \/ /\ part = "credential" /\ CredentialNext
        /\ UNCHANGED <<faultVars, captureVars, guestVars, storeVars, commandVars, traceVars>>
     \/ /\ part = "guest" /\ GuestNext
        /\ UNCHANGED <<faultVars, captureVars, credentialVars, storeVars, commandVars, traceVars>>
     \/ /\ part = "history" /\ HistoryNext
        /\ UNCHANGED <<faultVars, captureVars, credentialVars, guestVars, commandVars, traceVars>>
     \/ /\ part = "command" /\ CommandNext
        /\ UNCHANGED <<faultVars, captureVars, credentialVars, guestVars, storeVars, traceVars>>
     \/ /\ part = "trace" /\ TraceNext
        /\ UNCHANGED <<faultVars, captureVars, credentialVars, guestVars, storeVars, commandVars>>

\* A part that has not begun has nothing that must happen.
Spec ==
  /\ ReadyInit /\ [][ReadyNext]_readyVars
  /\ FaultFairness /\ GuestFairness /\ HistoryFairness /\ CommandFairness /\ TraceFairness

-----------------------------------------------------------------------------
TypeOK == FaultTypeOK /\ CaptureTypeOK /\ CredentialTypeOK /\ GuestTypeOK /\ HistoryTypeOK /\ CommandTypeOK
          /\ TraceTypeOK
=============================================================================
