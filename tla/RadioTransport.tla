--------------------------- MODULE RadioTransport ---------------------------
(***************************************************************************)
(* The radio's end of an external edge (src/vita): one thread runs the     *)
(* VITA runtime, accepts one controller at a time over TLS and serves it   *)
(* (run_radio), on a HostTransport with a fixed number of slots.  Samples  *)
(* leave as datagrams, replies and cancellations as control records on the *)
(* TLS connection.                                                         *)
(*                                                                         *)
(* The runtime is a library: it submits what it likes when it is run.      *)
(* Deadlines are two seconds; the one of the input can be extended, so its *)
(* age is counted.                                                         *)
(***************************************************************************)
EXTENDS Naturals, Sequences

CONSTANTS
  DataSlots,          \* slots_ for datagrams
  ControlSlots,       \* slots_ for ordinary control records; there is one for a cancellation
  RecordSize,         \* the largest control record, in cells
  OrdinaryBudget,     \* bytes of queued control records, for an ordinary one
  ControlBudget,      \* and for a cancellation
  InputPatience,      \* age of the input at which its deadline has passed
  MaxControls         \* bound: control records of a behaviour

VARIABLES
  turn,             \* where the loop is: held (await_node_release), runtime, accept, client, receive, stopped
  peer,             \* the client: none, greeting (TLS handshake), bound
  greetingLate,     \* its handshake is past its deadline
  failedTls,        \* failed_
  partialInput,     \* ingress_->stalled(): a frame has begun
  inputAge,         \* time since input_deadline_ was set
  controls,         \* submitted control records, in the order of their sequence
  datagrams,        \* the number of submitted datagrams
  nextControl,      \* the next control record
  stream            \* history: what the present TLS connection has carried

queueVars == <<controls, datagrams, nextControl>>
clientVars == <<peer, greetingLate, partialInput, inputAge>>
radioVars == <<turn, clientVars, failedTls, queueVars, stream>>

RadioInit ==
  /\ turn = "held" /\ peer = "none" /\ greetingLate = FALSE
  /\ failedTls = FALSE /\ partialInput = FALSE /\ inputAge = 0
  /\ controls = <<>> /\ datagrams = 0 /\ nextControl = 1 /\ stream = <<>>

\* The graph is ready, or the radio is stopped before it is.
Release ==
  /\ turn = "held" /\ turn' \in {"runtime", "stopped"}
  /\ UNCHANGED <<clientVars, failedTls, queueVars, stream>>

-----------------------------------------------------------------------------
(* send, called by the runtime.                                            *)

QueuedCells[n \in 0 .. MaxControls] == IF n = 0 THEN 0 ELSE QueuedCells[n - 1] + controls[n].size
SlotFree(cancel) ==
  Len(SelectSeq(controls, LAMBDA r : r.cancel = cancel)) < (IF cancel THEN 1 ELSE ControlSlots)
SendControl(size, cancel) ==
  /\ turn = "runtime" /\ nextControl <= MaxControls
  /\ QueuedCells[Len(controls)] + size <= (IF cancel THEN ControlBudget ELSE OrdinaryBudget)
  /\ SlotFree(cancel)
  /\ controls' = Append(controls, [id |-> nextControl, size |-> size, offset |-> 0, cancel |-> cancel, late |-> FALSE])
  /\ nextControl' = nextControl + 1
  /\ UNCHANGED <<turn, clientVars, failedTls, datagrams, stream>>
SendDatagram ==
  /\ turn = "runtime" /\ datagrams < DataSlots
  /\ datagrams' = datagrams + 1
  /\ UNCHANGED <<turn, clientVars, failedTls, controls, nextControl, stream>>

-----------------------------------------------------------------------------
(* progress, called by the runtime.                                        *)

\* Mutant: the record that has expired is given up by itself.
GivesUpExpired == SelectSeq(controls, LAMBDA r : ~r.late)
\* Expiry of one record fails the connection, and with it every record that waits.
Broken == failedTls \/ \E i \in DOMAIN controls : controls[i].late
Waits == IF Broken THEN <<>> ELSE controls
ProgressEnds == turn = "runtime" /\ turn' = "accept" /\ UNCHANGED <<clientVars, nextControl>>

\* Datagrams go first, and are gone whether sendto succeeds or not.
ProgressDatagram ==
  /\ datagrams > 0 /\ datagrams' = datagrams - 1
  /\ failedTls' = Broken /\ controls' = Waits
  /\ ProgressEnds /\ UNCHANGED stream
ProgressIdle ==
  /\ datagrams = 0 /\ Waits = <<>>
  /\ failedTls' = Broken /\ controls' = <<>>
  /\ ProgressEnds /\ UNCHANGED <<datagrams, stream>>
ProgressUnconnected ==
  /\ datagrams = 0 /\ Waits # <<>> /\ peer # "bound"
  /\ failedTls' = FALSE /\ controls' = Tail(Waits)
  /\ ProgressEnds /\ UNCHANGED <<datagrams, stream>>

\* What the connection has carried of a record.
Carried(r, n) ==
  IF stream # <<>> /\ stream[Len(stream)].id = r.id THEN [stream EXCEPT ![Len(stream)].cells = @ + n]
  ELSE Append(stream, [id |-> r.id, size |-> r.size, cells |-> n])
\* SSL_write: a part of the record, or nothing yet (n = 0).
ProgressWrite ==
  /\ datagrams = 0 /\ Waits # <<>> /\ peer = "bound"
  /\ LET r == Head(Waits)
     IN \E n \in 0 .. r.size - r.offset :
          /\ controls' = IF r.offset + n = r.size THEN Tail(Waits) ELSE [Waits EXCEPT ![1].offset = @ + n]
          /\ stream' = IF n = 0 THEN stream ELSE Carried(r, n)
  /\ failedTls' = Broken
  /\ ProgressEnds /\ UNCHANGED datagrams
\* SSL_write fails, or the deadline passes just now.
ProgressFails ==
  /\ datagrams = 0 /\ Waits # <<>> /\ peer = "bound"
  /\ failedTls' = TRUE /\ controls' = Tail(Waits)
  /\ ProgressEnds /\ UNCHANGED <<datagrams, stream>>
Progress == ProgressDatagram \/ ProgressIdle \/ ProgressUnconnected \/ ProgressWrite \/ ProgressFails

-----------------------------------------------------------------------------
(* The rest of a turn of run_radio.                                        *)

\* One client at a time, from the controller's address; others are closed.
AcceptClient ==
  /\ turn = "accept" /\ turn' = "client"
  /\ \/ UNCHANGED clientVars
     \/ peer = "none" /\ peer' = "greeting" /\ greetingLate' = FALSE /\ UNCHANGED <<partialInput, inputAge>>
  /\ UNCHANGED <<failedTls, queueVars, stream>>
NoClient ==
  /\ turn = "client" /\ peer = "none" /\ turn' = "runtime"
  /\ UNCHANGED <<clientVars, failedTls, queueVars, stream>>

\* disconnect and client.reset()
DropClient ==
  /\ peer' = "none" /\ partialInput' = FALSE /\ controls' = <<>> /\ turn' = "runtime"
  /\ UNCHANGED <<greetingLate, inputAge, failedTls, datagrams, nextControl, stream>>
Greet ==
  /\ turn = "client" /\ peer = "greeting"
  /\ \/ DropClient
     \/ /\ ~greetingLate /\ turn' = "runtime"
        /\ UNCHANGED <<clientVars, failedTls, queueVars, stream>>
     \/ /\ ~greetingLate /\ turn' = "receive" /\ peer' = "bound"
        /\ failedTls' = FALSE /\ partialInput' = FALSE /\ inputAge' = 0 /\ stream' = <<>>
        /\ UNCHANGED <<greetingLate, queueVars>>
ServeClient ==
  /\ turn = "client" /\ peer = "bound" /\ turn' = "receive"
  /\ UNCHANGED <<clientVars, failedTls, queueVars, stream>>

\* Mutant: every byte extends the deadline.
AnyInput(began, stalled) == TRUE
\* receive: more of a frame that had begun before does not extend the deadline.
Extends(began, stalled) == ~began \/ ~stalled
ReceiveFails == turn = "receive" /\ DropClient
ReceiveNothing ==
  /\ turn = "receive" /\ ~failedTls /\ inputAge < InputPatience /\ turn' = "runtime"
  /\ UNCHANGED <<clientVars, failedTls, queueVars, stream>>
ReceiveBytes ==
  /\ turn = "receive" /\ ~failedTls /\ inputAge < InputPatience /\ turn' = "runtime"
  /\ partialInput' \in BOOLEAN
  /\ inputAge' = IF Extends(partialInput, partialInput') THEN 0 ELSE inputAge
  /\ UNCHANGED <<peer, greetingLate, failedTls, queueVars, stream>>
Client == NoClient \/ Greet \/ ServeClient \/ ReceiveFails \/ ReceiveNothing \/ ReceiveBytes

\* SIGTERM: disconnect, shutdown and detach.
StopRadio ==
  /\ turn = "runtime" /\ turn' = "stopped"
  /\ peer' = "none" /\ partialInput' = FALSE /\ controls' = <<>> /\ datagrams' = 0
  /\ UNCHANGED <<greetingLate, inputAge, failedTls, nextControl, stream>>

-----------------------------------------------------------------------------
(* Time.                                                                   *)

GreetingExpires ==
  /\ turn # "stopped" /\ peer = "greeting" /\ ~greetingLate /\ greetingLate' = TRUE
  /\ UNCHANGED <<turn, peer, partialInput, inputAge, failedTls, queueVars, stream>>
InputAges ==
  /\ turn # "stopped" /\ peer = "bound" /\ inputAge < InputPatience /\ inputAge' = inputAge + 1
  /\ UNCHANGED <<turn, peer, greetingLate, partialInput, failedTls, queueVars, stream>>
RecordExpires ==
  /\ turn # "stopped"
  /\ \E i \in DOMAIN controls :
       /\ ~controls[i].late /\ \A j \in 1 .. i - 1 : controls[j].late
       /\ controls' = [controls EXCEPT ![i].late = TRUE]
  /\ UNCHANGED <<turn, clientVars, failedTls, datagrams, nextControl, stream>>

Turn == Progress \/ AcceptClient \/ Client
RadioNext ==
  \/ Release
  \/ \E size \in 1 .. RecordSize, cancel \in BOOLEAN : SendControl(size, cancel)
  \/ SendDatagram \/ Turn \/ StopRadio
  \/ GreetingExpires \/ InputAges \/ RecordExpires

\* The loop runs on and time passes; nobody has to send or connect.
RadioFairness ==
  /\ WF_radioVars(Turn) /\ WF_radioVars(GreetingExpires)
  /\ WF_radioVars(InputAges) /\ WF_radioVars(RecordExpires)
RadioSpec == RadioInit /\ [][RadioNext]_radioVars /\ RadioFairness

-----------------------------------------------------------------------------
Records == [id : 1 .. MaxControls, size : 1 .. RecordSize, offset : 0 .. RecordSize, cancel : BOOLEAN, late : BOOLEAN]
RadioTypeOK ==
  /\ turn \in {"held", "runtime", "accept", "client", "receive", "stopped"}
  /\ peer \in {"none", "greeting", "bound"} /\ {greetingLate, failedTls, partialInput} \subseteq BOOLEAN
  /\ inputAge \in 0 .. InputPatience /\ datagrams \in 0 .. DataSlots /\ nextControl \in 1 .. MaxControls + 1
  /\ controls \in Seq(Records) /\ QueuedCells[Len(controls)] <= ControlBudget

\* What a TLS connection carries is whole control records in the order of their
\* submission; only the last may be cut, and then the connection carries nothing
\* more: "A partially written TLS record cannot be skipped" (host.cpp:129-180,
\* 196-201).
RecordsAreWhole ==
  \A i \in 1 .. Len(stream) - 1 : stream[i].cells = stream[i].size /\ stream[i].id < stream[i + 1].id

Submitted(c) == \E i \in DOMAIN controls : controls[i].id = c

\* Every control record is completed although datagrams always go first, a peer
\* does not keep the only connection with a frame it never finishes, and neither
\* does one that never finishes its handshake (host.cpp:129-142, 202-215,
\* radio.cpp:164-189).
RadioServes ==
  /\ \A c \in 1 .. MaxControls : []<>~Submitted(c)
  /\ []<>~partialInput
  /\ []<>(peer # "greeting")
=============================================================================
