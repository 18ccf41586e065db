--------------------------- MODULE CommandRunner ---------------------------
(***************************************************************************)
(* run_command (command_runner.cpp), by which every other part calls ip,   *)
(* ovs-vsctl, tc, docker and node: a child with a pipe for its input and   *)
(* one for its output, a deadline, a cancellation, and a bound on what is  *)
(* kept of the output.                                                     *)
(*                                                                         *)
(* A cell is what one read or write of the child moves.  The pipes block:  *)
(* poll reports room for some of the input, and the write() that follows   *)
(* returns when all of it is in the pipe or nobody reads any more.  A      *)
(* child is any program: it wants to read, to write or to exit, and is     *)
(* blocked until it can.  It may leave a descendant that keeps its output  *)
(* open.                                                                   *)
(***************************************************************************)
EXTENDS Naturals

CONSTANTS
  PipeCells,                \* what a pipe holds
  OutputLimit,              \* options.output_limit
  InputCells, MaxOutput     \* bounds of the model: the input, the child's output

ASSUME CommandAssumption == {PipeCells, OutputLimit, InputCells, MaxOutput} \subseteq Nat \ {0}

VARIABLES
  runner,       \* where run_command is
  timed, captured,          \* options.timeout_ms # 0, options.capture_output
  overdue, interrupted,     \* the deadline has passed, cancellation_requested()
  left, stdinOpen, inPipe,  \* the input not written yet, our end of its pipe, the pipe
  outputOpen, outPipe,      \* our end of the output, and its pipe
  kept, truncated,          \* result.output and output_truncated
  outcome,      \* how run_command ended
  child, wants, stdinRead,  \* the child, its next operation, is its end of the input open
  heir,         \* a descendant that has the output open
  stalls,       \* the child need not go on
  produced      \* history: cells written to the output

ownEnds == <<left, stdinOpen, outputOpen>>
pipes == <<inPipe, outPipe>>
kinship == <<child, wants, stdinRead, heir, produced>>
commandVars == <<runner, timed, captured, overdue, interrupted, ownEnds, pipes, kept, truncated, outcome, kinship, stalls>>

CommandInit ==
  /\ runner = "idle" /\ timed = FALSE /\ captured = FALSE /\ overdue = FALSE /\ interrupted = FALSE
  /\ left = 0 /\ stdinOpen = FALSE /\ inPipe = 0
  /\ outputOpen = FALSE /\ outPipe = 0 /\ kept = 0 /\ truncated = FALSE /\ outcome = "none"
  /\ child = "none" /\ wants = "exit" /\ stdinRead = FALSE /\ heir = FALSE
  /\ stalls = FALSE /\ produced = 0

\* pipe, fork and execvp; an exec that fails is a child that exits.
RunCommand ==
  /\ runner = "idle"
  /\ runner' = "loop" /\ timed' \in BOOLEAN /\ stalls' \in BOOLEAN
  /\ left' \in {0, InputCells} /\ stdinOpen' = (left' > 0)
  /\ captured' \in BOOLEAN /\ outputOpen' = captured'
  /\ child' = "running" /\ stdinRead' = stdinOpen'
  /\ wants' \in {"read", "write", "exit"}
  /\ UNCHANGED <<overdue, interrupted, pipes, kept, truncated, outcome, heir, produced>>

-----------------------------------------------------------------------------
(* The parent.                                                             *)

Transferring == runner = "loop" /\ (stdinOpen \/ outputOpen)
\* The deadline and the cancellation are looked at in both loops.
TransferOnly == Transferring /\ (interrupted \/ (timed /\ overdue))
GivesUp == (Transferring \/ runner = "wait") /\ (interrupted \/ (timed /\ overdue))
\* ~ChildGuard: SIGKILL and waitpid.
Reaped == "reaped"
GiveUp ==
  /\ GivesUp
  /\ runner' = "done" /\ outcome' = "thrown"
  /\ child' = Reaped /\ stdinRead' = FALSE
  /\ stdinOpen' = FALSE /\ outputOpen' = FALSE
  /\ UNCHANGED <<timed, captured, overdue, interrupted, left, pipes, kept, truncated, wants, heir, produced, stalls>>

\* transfer_io: as long as the child can still read and there is room.
BeginWrite ==
  /\ runner = "loop" /\ ~GivesUp /\ stdinOpen
  /\ \/ stdinRead /\ inPipe < PipeCells /\ runner' = "writing" /\ UNCHANGED stdinOpen
     \/ ~stdinRead /\ stdinOpen' = FALSE /\ UNCHANGED runner   \* EPIPE
  /\ UNCHANGED <<timed, captured, overdue, interrupted, left, outputOpen, pipes, kept, truncated, outcome, kinship, stalls>>
WriteInput ==
  /\ runner = "writing"
  /\ \/ /\ stdinRead /\ inPipe < PipeCells
        /\ inPipe' = inPipe + 1 /\ left' = left - 1
        /\ stdinOpen' = (left' > 0)
        /\ runner' = IF left' > 0 THEN "writing" ELSE "loop"
     \/ /\ ~stdinRead
        /\ runner' = "loop" /\ UNCHANGED <<inPipe, left, stdinOpen>>
  /\ UNCHANGED <<timed, captured, overdue, interrupted, outputOpen, outPipe, kept, truncated, outcome, kinship, stalls>>

\* What exceeds the limit is read and dropped.
Keep == kept < OutputLimit
ReadOutput ==
  /\ runner = "loop" /\ ~GivesUp /\ outputOpen
  /\ \/ /\ outPipe > 0
        /\ outPipe' = outPipe - 1
        /\ kept' = (IF Keep THEN kept + 1 ELSE kept) /\ truncated' = (truncated \/ ~Keep)
        /\ UNCHANGED outputOpen
     \/ /\ outPipe = 0 /\ child # "running" /\ ~heir    \* end of file
        /\ outputOpen' = FALSE /\ UNCHANGED <<outPipe, kept, truncated>>
  /\ UNCHANGED <<runner, timed, captured, overdue, interrupted, left, stdinOpen, inPipe, outcome, kinship, stalls>>

TransferEnds ==
  /\ runner = "loop" /\ ~Transferring
  /\ runner' = "wait"
  /\ UNCHANGED <<timed, captured, overdue, interrupted, ownEnds, pipes, kept, truncated, outcome, kinship, stalls>>
WaitChild ==
  /\ runner = "wait" /\ child = "exited"
  /\ runner' = "done" /\ outcome' = "result" /\ child' = "reaped"
  /\ UNCHANGED <<timed, captured, overdue, interrupted, ownEnds, pipes, kept, truncated, wants, stdinRead, heir, produced, stalls>>

-----------------------------------------------------------------------------
(* The child, the clock and the user.                                      *)

NextWant(atEnd) ==
  wants' \in {"exit"} \cup (IF atEnd THEN {} ELSE {"read"}) \cup (IF produced' < MaxOutput THEN {"write"} ELSE {})
parent == <<runner, timed, captured, overdue, interrupted, ownEnds, kept, truncated, outcome, stalls>>

ChildReads ==
  /\ child = "running" /\ wants = "read"
  /\ inPipe > 0 \/ ~stdinOpen \/ ~stdinRead
  /\ inPipe' = (IF stdinRead /\ inPipe > 0 THEN inPipe - 1 ELSE inPipe)
  /\ UNCHANGED produced
  /\ NextWant(~stdinRead \/ inPipe = 0)
  /\ UNCHANGED <<parent, outPipe, child, stdinRead, heir>>
\* The output that is not captured goes elsewhere.
ChildWrites ==
  /\ child = "running" /\ wants = "write"
  /\ captured => outPipe < PipeCells
  /\ outPipe' = (IF captured THEN outPipe + 1 ELSE outPipe)
  /\ produced' = produced + 1
  /\ NextWant(FALSE)
  /\ UNCHANGED <<parent, inPipe, child, stdinRead, heir>>
ChildClosesInput ==
  /\ child = "running" /\ stdinRead
  /\ stdinRead' = FALSE
  /\ UNCHANGED <<parent, pipes, child, wants, heir, produced>>
\* It may leave a descendant behind.
ChildExits ==
  /\ child = "running" /\ wants = "exit"
  /\ child' = "exited" /\ stdinRead' = FALSE
  /\ heir' \in BOOLEAN
  /\ UNCHANGED <<parent, pipes, wants, produced>>
HeirExits ==
  /\ heir /\ heir' = FALSE
  /\ UNCHANGED <<parent, pipes, child, wants, stdinRead, produced>>

Elapses ==
  /\ runner \notin {"idle", "done"} /\ timed /\ ~overdue
  /\ overdue' = TRUE
  /\ UNCHANGED <<runner, timed, captured, interrupted, ownEnds, pipes, kept, truncated, outcome, kinship, stalls>>
\* SIGINT; a write() it interrupts returns to the loop.
Interrupt ==
  /\ runner \notin {"idle", "done"} /\ ~interrupted
  /\ interrupted' = TRUE
  /\ runner' \in {runner} \cup (IF runner = "writing" THEN {"loop"} ELSE {})
  /\ UNCHANGED <<timed, captured, overdue, ownEnds, pipes, kept, truncated, outcome, kinship, stalls>>

Parent == GiveUp \/ BeginWrite \/ WriteInput \/ ReadOutput \/ TransferEnds \/ WaitChild
Goes == ChildReads \/ ChildWrites \/ ChildExits \/ HeirExits
CommandNext == RunCommand \/ Parent \/ Goes \/ ChildClosesInput \/ Elapses \/ Interrupt

\* The parent runs on, deadlines pass, and a child that does not stall goes on
\* as far as its pipes let it.
CommandFairness == WF_commandVars(Parent) /\ WF_commandVars(Elapses) /\ WF_commandVars(~stalls /\ Goes)
CommandSpec == CommandInit /\ [][CommandNext]_commandVars /\ CommandFairness

-----------------------------------------------------------------------------
CommandTypeOK ==
  /\ runner \in {"idle", "loop", "writing", "wait", "done"}
  /\ {timed, captured, overdue, interrupted, stdinOpen, outputOpen, truncated, stdinRead, heir, stalls} \subseteq BOOLEAN
  /\ left \in 0 .. InputCells /\ {inPipe, outPipe} \subseteq 0 .. PipeCells
  /\ kept \in 0 .. OutputLimit /\ produced \in 0 .. MaxOutput
  /\ outcome \in {"none", "result", "thrown"} /\ child \in {"none", "running", "exited", "reaped"}
  /\ wants \in {"read", "write", "exit"}

\* write() on a full pipe that the child does not read, because it stalls or
\* because it waits for its own output to be read: nobody looks at the deadline.
BlockedInWrite ==
  runner = "writing" /\ inPipe = PipeCells /\ (stalls \/ (wants = "write" /\ outputOpen /\ outPipe = PipeCells))

\* When run_command has ended, in whatever way, it has left no child behind; and
\* what it returns is all the output of the command, or its prefix and
\* output_truncated (command_runner.cpp:57-72, 191-205, 313-334).
CommandIsOver ==
  runner = "done" =>
    /\ child = "reaped"
    /\ outcome = "result" /\ captured =>
         kept = (IF produced < OutputLimit THEN produced ELSE OutputLimit) /\ truncated = (produced > OutputLimit)

\* run_command ends, and then it is over (CommandIsOver): with a deadline whatever
\* the child does, and without one if the child and what it leaves behind go on.
\* Only a write() of input larger than the pipe to a child that does not read it
\* is beyond its deadline (command_runner.cpp:163-205, 304-320).
CommandReturns ==
  /\ runner \notin {"idle", "done"} /\ (timed \/ ~stalls) ~> runner = "done" \/ BlockedInWrite
  /\ []CommandIsOver
=============================================================================
