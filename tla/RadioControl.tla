---------------------------- MODULE RadioControl ----------------------------
(***************************************************************************)
(* The processor as the controller of its radios: it connects to each one  *)
(* by TLS, configures it, asks for its state, and starts all the radios it *)
(* knows to be configured at one time.  Connection::progress runs for each *)
(* stream in every turn of run_processor; its stages are the actions here. *)
(* A radio answers what it receives; a connection that breaks loses what   *)
(* is on its way, in either direction.  Deadlines, back-off and the once a *)
(* second of the state query are choices of the environment.               *)
(***************************************************************************)
EXTENDS Integers, Sequences

CONSTANTS
  Streams,          \* the four radios
  MaxAttempts,      \* config.retry.max_attempts
  Reconnect,        \* config.reconnect
  MaxCommands, MaxBreaks   \* bounds of the model

ASSUME RadioControlAssumption ==
  /\ Reconnect \in BOOLEAN /\ {MaxAttempts, MaxCommands} \subseteq Nat \ {0} /\ MaxBreaks \in Nat

VARIABLES
  link,             \* socket and connected: "none", "connecting" or "up"
  attempts, authenticationFailed, everConnected,
  initialSent, configured, startSent, executed, reported,
  query,            \* pending: the number of the transaction, or 0
  startHandle,      \* start_handle, likewise
  transactions,     \* transactions so far
  toRadio, toHost,  \* commands and replies on their way
  authored,          \* the radio has the authored settings
  running,          \* the radio was started
  scheduled,        \* the start was scheduled
  late,             \* configure_until has passed
  breaks            \* broken connections so far

sessionVars == <<link, attempts, authenticationFailed, everConnected, breaks>>
controlVars == <<initialSent, configured, query, transactions>>
startVars == <<startSent, startHandle, executed, reported, scheduled, late>>
radioVars == <<toRadio, toHost, authored, running>>
radioControlVars == <<sessionVars, controlVars, startVars, radioVars>>

RadioControlInit ==
  /\ link = [s \in Streams |-> "none"] /\ attempts = [s \in Streams |-> 0]
  /\ authenticationFailed = [s \in Streams |-> FALSE] /\ everConnected = [s \in Streams |-> FALSE]
  /\ initialSent = [s \in Streams |-> FALSE] /\ configured = [s \in Streams |-> FALSE]
  /\ startSent = [s \in Streams |-> FALSE] /\ executed = [s \in Streams |-> FALSE]
  /\ reported = [s \in Streams |-> FALSE]
  /\ query = [s \in Streams |-> 0] /\ startHandle = [s \in Streams |-> 0]
  /\ transactions = [s \in Streams |-> 0]
  /\ toRadio = [s \in Streams |-> <<>>] /\ toHost = [s \in Streams |-> <<>>]
  /\ authored = [s \in Streams |-> FALSE] /\ running = [s \in Streams |-> FALSE]
  /\ scheduled = FALSE /\ late = FALSE /\ breaks = 0

-----------------------------------------------------------------------------
\* A command of the session: numbered, and on its way to the radio.
Command(s, kind) ==
  /\ transactions[s] < MaxCommands /\ transactions' = [transactions EXCEPT ![s] = @ + 1]
  /\ toRadio' = [toRadio EXCEPT ![s] = Append(@, [kind |-> kind, transaction |-> transactions[s] + 1])]

\* disconnect: the session forgets what is on its way; of the commands the
\* radio may still have read some.
AmongFirst(s, n, kind) == \E i \in 1 .. n : toRadio[s][i].kind = kind
Disconnect(s) ==
  /\ link' = [link EXCEPT ![s] = "none"]
  /\ \E n \in 0 .. Len(toRadio[s]) : \E accepted \in BOOLEAN :
       /\ authored' = [authored EXCEPT ![s] = @ \/ (accepted /\ AmongFirst(s, n, "configure"))]
       /\ running' = [running EXCEPT ![s] = @ \/ (accepted /\ AmongFirst(s, n, "start"))]
  /\ toRadio' = [toRadio EXCEPT ![s] = <<>>] /\ toHost' = [toHost EXCEPT ![s] = <<>>]

Connect(s) ==
  /\ link[s] = "none" /\ ~authenticationFailed[s] /\ attempts[s] < MaxAttempts
  /\ ~(everConnected[s] /\ ~Reconnect)
  /\ attempts' = [attempts EXCEPT ![s] = @ + 1]
  /\ \/ link' = [link EXCEPT ![s] = "connecting"]
     \/ UNCHANGED link                              \* connect fails at once
  /\ UNCHANGED <<authenticationFailed, everConnected, breaks, controlVars, startVars, radioVars>>
\* The deadline, or an error of the handshake.
HandshakeFails(s) ==
  /\ link[s] = "connecting" /\ Disconnect(s)
  /\ \E wrong \in BOOLEAN : authenticationFailed' = [authenticationFailed EXCEPT ![s] = wrong]
  /\ UNCHANGED <<attempts, everConnected, breaks, controlVars, startVars>>
Established(s) ==
  /\ link[s] = "connecting" /\ link' = [link EXCEPT ![s] = "up"]
  /\ everConnected' = [everConnected EXCEPT ![s] = TRUE] /\ attempts' = [attempts EXCEPT ![s] = 0]
  /\ \/ /\ initialSent[s] /\ Command(s, "status") /\ query' = [query EXCEPT ![s] = transactions[s] + 1]
     \/ /\ ~initialSent[s] \/ transactions[s] = MaxCommands
        /\ query' = [query EXCEPT ![s] = 0] /\ UNCHANGED <<transactions, toRadio>>
  /\ UNCHANGED <<authenticationFailed, breaks, initialSent, configured, startVars, toHost, authored, running>>
Break(s) ==
  /\ link[s] = "up" /\ breaks < MaxBreaks /\ breaks' = breaks + 1 /\ Disconnect(s)
  /\ UNCHANGED <<attempts, authenticationFailed, everConnected, controlVars, startVars>>

-----------------------------------------------------------------------------
\* The radio executes a command, or refuses it, and answers with its state.
RadioExecutes(s) ==
  /\ link[s] = "up" /\ toRadio[s] # <<>> /\ toRadio' = [toRadio EXCEPT ![s] = Tail(@)]
  /\ \E accepted \in BOOLEAN :
       LET c == Head(toRadio[s]) IN
       /\ authored' = [authored EXCEPT ![s] = @ \/ (accepted /\ c.kind = "configure")]
       /\ running' = [running EXCEPT ![s] = @ \/ (accepted /\ c.kind = "start")]
       /\ toHost' = [toHost EXCEPT ![s] =
            Append(@, [transaction |-> c.transaction, state |-> authored'[s], executed |-> accepted])]
  /\ UNCHANGED <<sessionVars, controlVars, startVars>>

\* session.progress takes a reply: the evidence of a transaction that is
\* awaited, and nothing for one that was released.
\* Mutant: any answer is taken for a confirmation.
AnyEvidence(s, reply) == [configured EXCEPT ![s] = @ \/ reply.transaction = query[s]]
Evidence(s, reply) == [configured EXCEPT ![s] = IF reply.transaction = query[s] THEN reply.state ELSE @]
Reply(s) ==
  /\ link[s] = "up" /\ toHost[s] # <<>> /\ toHost' = [toHost EXCEPT ![s] = Tail(@)]
  /\ LET reply == Head(toHost[s]) IN
     /\ configured' = Evidence(s, reply)
     /\ query' = [query EXCEPT ![s] = IF reply.transaction = @ THEN 0 ELSE @]
     /\ startHandle' = [startHandle EXCEPT ![s] = IF reply.transaction = @ THEN 0 ELSE @]
     /\ executed' = [executed EXCEPT ![s] = IF reply.transaction = startHandle[s] THEN reply.executed ELSE @]
  /\ UNCHANGED <<sessionVars, initialSent, transactions, startSent, reported, scheduled, late, toRadio, authored,
                 running>>
\* transaction_timeout
TimesOut(s) ==
  /\ link[s] = "up"
  /\ \/ query[s] # 0 /\ query' = [query EXCEPT ![s] = 0] /\ UNCHANGED <<startHandle, executed>>
     \/ /\ startHandle[s] # 0 /\ startHandle' = [startHandle EXCEPT ![s] = 0]
        /\ executed' = [executed EXCEPT ![s] = FALSE] /\ UNCHANGED query
  /\ UNCHANGED <<sessionVars, initialSent, configured, transactions, startSent, reported, scheduled, late, radioVars>>
\* Once, before the start was scheduled and within five seconds.
Configure(s) ==
  /\ link[s] = "up" /\ ~scheduled /\ ~late /\ ~initialSent[s] /\ query[s] = 0
  /\ Command(s, "configure") /\ query' = [query EXCEPT ![s] = transactions[s] + 1]
  /\ initialSent' = [initialSent EXCEPT ![s] = TRUE]
  /\ UNCHANGED <<sessionVars, configured, startVars, toHost, authored, running>>
AskState(s) ==
  /\ link[s] = "up" /\ query[s] = 0 /\ initialSent[s]
  /\ Command(s, "status") /\ query' = [query EXCEPT ![s] = transactions[s] + 1]
  /\ UNCHANGED <<sessionVars, initialSent, configured, startVars, toHost, authored, running>>

-----------------------------------------------------------------------------
\* run_processor: all radios are configured, or the five seconds are over.
FiveSeconds ==
  /\ ~late /\ late' = TRUE
  /\ UNCHANGED <<sessionVars, controlVars, startSent, startHandle, executed, reported, scheduled, radioVars>>
Schedule ==
  /\ ~scheduled /\ (late \/ \A s \in Streams : configured[s]) /\ scheduled' = TRUE
  /\ LET started == {s \in Streams : configured[s] /\ link[s] = "up" /\ transactions[s] < MaxCommands} IN
     /\ startSent' = [s \in Streams |-> s \in started]
     /\ startHandle' = [s \in Streams |-> IF s \in started THEN transactions[s] + 1 ELSE 0]
     /\ transactions' = [s \in Streams |-> IF s \in started THEN transactions[s] + 1 ELSE transactions[s]]
     /\ toRadio' = [s \in Streams |-> IF s \in started
                      THEN Append(toRadio[s], [kind |-> "start", transaction |-> transactions[s] + 1])
                      ELSE toRadio[s]]
  /\ UNCHANGED <<sessionVars, initialSent, configured, query, executed, reported, late, toHost, authored, running>>
Report(s) ==
  /\ startSent[s] /\ startHandle[s] = 0 /\ ~reported[s] /\ reported' = [reported EXCEPT ![s] = TRUE]
  /\ UNCHANGED <<sessionVars, controlVars, startSent, startHandle, executed, scheduled, late, radioVars>>

RadioControlNext ==
  \/ FiveSeconds \/ Schedule
  \/ \E s \in Streams :
       \/ Connect(s) \/ HandshakeFails(s) \/ Established(s) \/ Break(s) \/ RadioExecutes(s) \/ Reply(s)
       \/ TimesOut(s) \/ Configure(s) \/ AskState(s) \/ Report(s)
RadioControlSpec == RadioControlInit /\ [][RadioControlNext]_radioControlVars

-----------------------------------------------------------------------------
CommandRecord == [kind : {"configure", "status", "start"}, transaction : 1 .. MaxCommands]
ReplyRecord == [transaction : 1 .. MaxCommands, state : BOOLEAN, executed : BOOLEAN]
RadioControlTypeOK ==
  /\ link \in [Streams -> {"none", "connecting", "up"}] /\ attempts \in [Streams -> 0 .. MaxAttempts]
  /\ authenticationFailed \in [Streams -> BOOLEAN] /\ everConnected \in [Streams -> BOOLEAN]
  /\ initialSent \in [Streams -> BOOLEAN] /\ configured \in [Streams -> BOOLEAN]
  /\ startSent \in [Streams -> BOOLEAN] /\ executed \in [Streams -> BOOLEAN] /\ reported \in [Streams -> BOOLEAN]
  /\ query \in [Streams -> 0 .. MaxCommands] /\ startHandle \in [Streams -> 0 .. MaxCommands]
  /\ transactions \in [Streams -> 0 .. MaxCommands]
  /\ toRadio \in [Streams -> Seq(CommandRecord)] /\ toHost \in [Streams -> Seq(ReplyRecord)]
  /\ authored \in [Streams -> BOOLEAN] /\ running \in [Streams -> BOOLEAN]
  /\ scheduled \in BOOLEAN /\ late \in BOOLEAN /\ breaks \in 0 .. MaxBreaks

\* A radio is started only with the settings its author gave it, although its
\* configuration may be refused, or be lost with the connection and never be
\* sent again, or its answer come after the controller gave it up
\* (processing_app.cpp:189-218, 314-328).
StartedAsAuthored == \A s \in Streams : startSent[s] \/ running[s] => authored[s]
=============================================================================
