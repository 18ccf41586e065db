---------------------------- MODULE ControlPlane ----------------------------
(***************************************************************************)
(* Runtime control: the telemetry collector (control.mjs, collector.mjs,   *)
(* security.mjs) issues pause, resume and reset commands, the nodes' UDP   *)
(* trace sinks (observability.cpp) carry them out and acknowledge them.    *)
(* The two sides share nothing but datagrams, which the network may lose,  *)
(* duplicate, delay and reorder, and clocks that differ by Offset.         *)
(*                                                                         *)
(* A datagram stays in net once sent: receiving it any number of times,    *)
(* late, or never is what UDP allows.  Both processes may restart and then *)
(* forget all of their state.                                              *)
(***************************************************************************)
EXTENDS Integers, FiniteSets

CONSTANTS
  Nodes,            \* the controllable nodes
  Foreign,          \* those run by another runtime, which may refuse a command
  Requests,         \* the control requests clients may make
  Policy,           \* principal -> what it may do and to whom
  NoKey,            \* a request without an Idempotency-Key header
  None,             \* an absent map entry
  Offset,           \* how far each node's clock runs ahead of the collector's
  CommandTimeout, Retention, IdempotencyTtl, CommandLimit,  \* controlConfig
  HeartbeatTimeout,
  Skew,             \* MAX_CLOCK_SKEW_MS, 30 s on both sides
  ReplayLimit,      \* entries the collector's replay cache holds
  NonceLimit,       \* nonces a node remembers before it forgets them all
  MaxTime, MaxIssued, MaxTraces,  \* bounds of the model
  MaxFaults, LastFault  \* restarts and credential rewrites: how many, until when

Actions == {"pause", "resume", "reset"}
CommandIds == 1 .. MaxIssued
Principals == DOMAIN Policy

ASSUME CommandAssumption ==
  /\ {CommandTimeout, Retention, IdempotencyTtl, CommandLimit, Skew} \subseteq Nat \ {0}
  /\ CommandTimeout < Retention        \* 100..30000 ms against 60..86400 s
  /\ CommandTimeout <= Skew            \* both end at 30 s
ASSUME BoundAssumption == {MaxTime, MaxIssued, MaxTraces, MaxFaults} \subseteq Nat
ASSUME NodeAssumption ==
  /\ Foreign \subseteq Nodes /\ None \notin Nodes
  /\ \A n \in Nodes : Offset[n] \in -Skew .. Skew
ASSUME RequestAssumption ==
  \A r \in Requests : /\ r.actor \in Principals /\ r.action \in Actions
                      /\ r.targets \subseteq Nodes /\ (r.targets = {} <=> r.action = "reset")

VARIABLES
  now,            \* the collector's clock
  net,            \* every datagram ever sent that a receiver could still accept
  \* --- the collector ---
  commands,       \* ControlPlane.commands: id -> command
  idempotency,    \* ControlPlane.idempotency: set of live keys with their command
  stats,          \* ControlPlane.stats
  endpoints,      \* controlEndpoints: node -> last address and time it was heard from
  controlStates,  \* controlStates: node -> last acknowledged state
  paused,         \* state.paused, shown to every client
  replay,         \* ReplayCache.values: nonce -> when it was accepted
  files,          \* are the credential files on disk valid and free of collisions?
  registry,       \* credentialRegistry.lastError == null
  collectorRun,   \* incarnation of the collector
  \* --- the nodes ---
  nodeRun,        \* incarnation of each node, its socket's address
  nodePaused,     \* UdpJsonTraceSink::Impl::paused
  nonces,         \* nonces seen by the node's control thread
  traces, faults, \* traces sent and faults so far (bounds)
  \* --- history ---
  issued,         \* every command ever issued: what, for whom and when
  forgotten,      \* commands whose idempotency key a refused retry removed
  applied,        \* <<command, node>> the node really carried out
  handled         \* datagrams this collector run let in and did not evict for room

collector == <<commands, idempotency, stats, endpoints, controlStates, paused, replay,
               registry, collectorRun>>
nodes == <<nodeRun, nodePaused, nonces, traces>>
history == <<issued, forgotten, applied, handled>>
vars == <<now, net, files, collector, nodes, faults, history>>

Runs == 1 .. MaxFaults + 1
Statuses == {"pending", "accepted", "rejected", "timed-out"}
\* The command record of issue(); delivered and reason carry no behaviour.
Commands == [action : Actions, targets : SUBSET Nodes, status : Statuses,
             issuedAt : 0 .. MaxTime, acks : SUBSET Nodes]
Datagrams ==
  [kind : {"trace"}, node : Nodes, run : Runs, sentAt : Int]
  \cup [kind : {"control"}, node : Nodes, run : Runs, sentAt : Int, command : CommandIds,
        action : Actions]
  \cup [kind : {"control_ack"}, node : Nodes, run : Runs, sentAt : Int,
        command : CommandIds, action : Actions, accepted : BOOLEAN]
Keys == {r.key : r \in Requests}
Fingerprints == Actions \X SUBSET Nodes
IdempotencyEntries ==
  [actor : Principals, key : Keys, command : CommandIds, fingerprint : Fingerprints, expiresAt : Nat]
IssuedCommands ==
  [actor : Principals, key : Keys, fingerprint : Fingerprints, at : 0 .. MaxTime, run : Runs]
Endpoints == [run : Runs, lastSeen : 0 .. MaxTime]

\* What is absent from a map is no entry of it.
ASSUME AbsentAssumption == None \notin Commands /\ None \notin IssuedCommands /\ None \notin Endpoints

-----------------------------------------------------------------------------
(***************************************************************************)
(* ControlPlane of control.mjs.                                            *)
(***************************************************************************)
NoStats == [issued |-> 0, accepted |-> 0, rejected |-> 0, timedOut |-> 0]

Held(cs) == {c \in CommandIds : cs[c] # None}
Pending(cs) == {c \in Held(cs) : cs[c].status = "pending"}
Expired(cs, t) == {c \in Pending(cs) : t >= cs[c].issuedAt + CommandTimeout}

\* #maintain: first expire what is pending, then drop what is too old.
Maintain(cs, t) ==
  [c \in CommandIds |->
     IF cs[c] = None \/ cs[c].issuedAt < t - Retention THEN None
     ELSE IF c \in Expired(cs, t) THEN [cs[c] EXCEPT !.status = "timed-out"]
     ELSE cs[c]]
MaintainStats(cs, t) == [stats EXCEPT !.timedOut = @ + Cardinality(Expired(cs, t))]
MaintainKeys(t) == {k \in idempotency : t < k.expiresAt}

\* ControlAuthorizer.permits
Permits(r) ==
  LET principal == Policy[r.actor]
  IN /\ r.action \in principal.permissions
     /\ \A n \in (IF r.action = "reset" THEN {"collector"} ELSE r.targets) :
          "*" \in principal.nodes \/ n \in principal.nodes

\* issueControl and authorizeControl up to the call of issue()
Authorized(r) == registry /\ Permits(r)

Fingerprint(r) == <<r.action, r.targets>>
\* Mutant: a key only meets an entry of the same command.
SameCommandOnly(r) ==
  {k \in MaintainKeys(now) :
     k.actor = r.actor /\ k.key = r.key /\ k.fingerprint = Fingerprint(r)}
\* The live idempotency entry of a request, if there is one.
Previous(r) ==
  {k \in MaintainKeys(now) : r.key # NoKey /\ k.actor = r.actor /\ k.key = r.key}

\* liveControlEndpoints, restricted to the command's targets
LiveTargets(r) ==
  {n \in r.targets : endpoints[n] # None /\ now - endpoints[n].lastSeen <= HeartbeatTimeout}

\* deliverControl: one signed datagram per live target, to its last known address.
ControlDatagrams(r, id) ==
  {[kind |-> "control", node |-> n, run |-> endpoints[n].run, sentAt |-> now,
    command |-> id, action |-> r.action] : n \in LiveTargets(r)}

\* issueControl after an accepted result, replayed or not
PausedAfter(action) ==
  CASE action = "pause" -> TRUE [] action = "resume" -> FALSE [] OTHER -> paused

\* refreshCredentials: an error that was not there before forgets the endpoints.
Refresh(valid) ==
  /\ registry' = valid
  /\ IF registry /\ ~valid
     THEN /\ endpoints' = [n \in Nodes |-> None]
          /\ controlStates' = [n \in Nodes |-> None]
     ELSE UNCHANGED <<endpoints, controlStates>>

-----------------------------------------------------------------------------
Init ==
  /\ now = 0
  /\ net = {}
  /\ commands = [c \in CommandIds |-> None]
  /\ idempotency = {}
  /\ stats = NoStats
  /\ endpoints = [n \in Nodes |-> None]
  /\ controlStates = [n \in Nodes |-> None]
  /\ paused = FALSE
  /\ replay = {}
  /\ files \in BOOLEAN
  /\ registry = files
  /\ collectorRun = 1
  /\ nodeRun = [n \in Nodes |-> 1]
  /\ nodePaused = [n \in Nodes |-> FALSE]
  /\ nonces = [n \in Nodes |-> {}]
  /\ traces = 0
  /\ faults = 0
  /\ issued = [c \in CommandIds |-> None]
  /\ forgotten = {}
  /\ applied = {}
  /\ handled = {}

\* Mutant: a nonce is remembered for one skew only.
OneSkew == Skew
ReplayTtl == 2 * Skew
LocalTime(n) == now + Offset[n]

\* Time passes.  A datagram whose timestamp no receiver accepts any more is as
\* good as lost, and leaves the record of what was let in with it.
Tick ==
  /\ now < MaxTime
  /\ now' = now + 1
  /\ net' = {m \in net : IF m.kind = "control" THEN LocalTime(m.node) + 1 <= m.sentAt + Skew
                         ELSE now' <= m.sentAt + Skew}
  /\ handled' = handled \cap net'
  /\ replay' = {e \in replay : now' - e.seen <= ReplayTtl}   \* accept() drops them later
  /\ UNCHANGED <<faults, files, commands, idempotency, stats, endpoints, controlStates, paused,
                 registry, collectorRun, nodes, issued, forgotten, applied>>

Fault == faults < MaxFaults /\ now <= LastFault /\ faults' = faults + 1

\* The operator rewrites the policy, identity or transition files.
RewriteCredentials ==
  /\ Fault
  /\ files' = ~files
  /\ UNCHANGED <<now, net, collector, nodes, history>>

\* Any handler's unforced refreshCredentials() that gets past the one second
\* throttle: snapshots, metrics, requests and datagrams all begin with one.
RefreshCredentials ==
  /\ registry # files
  /\ Refresh(files)
  /\ UNCHANGED <<faults, now, net, files, commands, idempotency, stats, paused, replay, collectorRun,
                 nodes, history>>

\* list, get and pendingCount: every reader of the commands maintains them first.
ReadCommands ==
  /\ commands' = Maintain(commands, now)
  /\ stats' = MaintainStats(commands, now)
  /\ idempotency' = MaintainKeys(now)
  /\ commands' # commands \/ idempotency' # idempotency
  /\ UNCHANGED <<faults, now, net, files, endpoints, controlStates, paused, replay, registry,
                 collectorRun, nodes, history>>

NextId == Cardinality({c \in CommandIds : issued[c] # None}) + 1

\* There is room for another command and somebody to send it to.
MayIssue(r) ==
  /\ Cardinality(Held(Maintain(commands, now))) < CommandLimit
  /\ r.action = "reset" \/ LiveTargets(r) # {}

\* issue() past its checks: send, then store.
NewCommand(r) ==
  LET reset == r.action = "reset"
  IN /\ NextId \in CommandIds
     /\ MayIssue(r)
     /\ net' = IF reset THEN net ELSE net \cup ControlDatagrams(r, NextId)
     /\ commands' = [Maintain(commands, now) EXCEPT ![NextId] =
          [action |-> r.action, targets |-> r.targets, issuedAt |-> now, acks |-> {},
           status |-> IF reset THEN "accepted" ELSE "pending"]]
     /\ idempotency' =
          (MaintainKeys(now) \ Previous(r)) \cup
          (IF r.key = NoKey THEN {}
           ELSE {[actor |-> r.actor, key |-> r.key, command |-> NextId,
                  fingerprint |-> Fingerprint(r), expiresAt |-> now + IdempotencyTtl]})
     /\ stats' = [MaintainStats(commands, now) EXCEPT !.issued = @ + 1,
                    !.accepted = IF reset THEN @ + 1 ELSE @]
     /\ issued' = [issued EXCEPT ![NextId] =
          [actor |-> r.actor, key |-> r.key, fingerprint |-> Fingerprint(r), at |-> now,
           run |-> collectorRun]]
     /\ paused' = IF reset THEN PausedAfter(r.action) ELSE paused
     /\ UNCHANGED forgotten

\* issue() without room or anybody live: the key of a command that is gone was
\* removed before either check throws.
Refused(r) ==
  /\ ~MayIssue(r)
  /\ commands' = Maintain(commands, now)
  /\ stats' = MaintainStats(commands, now)
  /\ idempotency' = MaintainKeys(now) \ Previous(r)
  /\ forgotten' = forgotten \cup {k.command : k \in Previous(r)}
  /\ UNCHANGED <<net, issued, paused>>

\* A retry whose command is still known is answered with that command.
Replayed(r) ==
  \E k \in Previous(r) :
    LET cs == Maintain(commands, now)
    IN /\ k.fingerprint = Fingerprint(r)
       /\ cs[k.command] # None
       /\ commands' = cs
       /\ stats' = MaintainStats(commands, now)
       /\ idempotency' = MaintainKeys(now)
       /\ paused' = IF cs[k.command].status = "accepted" THEN PausedAfter(r.action) ELSE paused
       /\ UNCHANGED <<net, issued, forgotten>>

\* The request has no live key, or one of the same command which is gone.
NothingToReplay(r) ==
  \A k \in Previous(r) : /\ k.fingerprint = Fingerprint(r)
                         /\ Maintain(commands, now)[k.command] = None

\* issueControl: the request is authorized, then issued, replayed or refused.
\* A refusal for want of permission or for a conflicting key changes nothing
\* beyond what ReadCommands and RefreshCredentials do.
IssueControl(r) ==
  /\ Authorized(r)
  /\ \/ NothingToReplay(r) /\ NewCommand(r)
     \/ NothingToReplay(r) /\ Refused(r)
     \/ Replayed(r)
  /\ UNCHANGED <<faults, now, files, endpoints, controlStates, replay, registry, collectorRun, nodes,
                 applied, handled>>

-----------------------------------------------------------------------------
(***************************************************************************)
(* The collector's UDP socket.                                             *)
(***************************************************************************)
Abs(i) == IF i < 0 THEN -i ELSE i

\* ReplayCache.accept: forget old nonces, then the oldest if there are too many.
Remembered == {e \in replay : now - e.seen <= ReplayTtl}
Evicted ==
  IF Cardinality(Remembered) < ReplayLimit THEN {}
  ELSE {CHOOSE e \in Remembered : \A f \in Remembered : e.seen <= f.seen}
Accept(m) == (Remembered \ Evicted) \cup {[nonce |-> m, seen |-> now]}

\* verifyEnvelope of a collector that has a secret; without one every datagram
\* is let in unsigned, which is not modelled.
Verified(m) ==
  /\ Abs(now - m.sentAt) <= Skew
  /\ \A e \in Remembered : e.nonce # m

\* Mutant: a late answer still decides the command.
AcknowledgesLate(m, cs) ==
  /\ cs[m.command] # None
  /\ cs[m.command].action = m.action
  /\ m.node \in cs[m.command].targets
  /\ m.node \notin cs[m.command].acks
\* acknowledge(): only a pending command, the same action, a target, once.
Acknowledges(m, cs) ==
  /\ cs[m.command] # None
  /\ cs[m.command].status = "pending"
  /\ cs[m.command].action = m.action
  /\ m.node \in cs[m.command].targets
  /\ m.node \notin cs[m.command].acks

\* Mutant: the first answer decides.
FirstAnswerDecides(m, cs) ==
  [cs[m.command] EXCEPT !.acks = @ \cup {m.node},
     !.status = IF m.accepted THEN "accepted" ELSE "rejected"]
Acknowledged(m, cs) ==
  LET command == cs[m.command]
      acks == command.acks \cup {m.node}
  IN [command EXCEPT !.acks = acks,
        !.status = IF ~m.accepted THEN "rejected"
                   ELSE IF acks = command.targets THEN "accepted" ELSE @]

FromLiveEndpoint(m) ==
  /\ endpoints[m.node] # None
  /\ endpoints[m.node].run = m.run
  /\ now - endpoints[m.node].lastSeen <= HeartbeatTimeout

\* handleDatagram for an acknowledgement from the node's live endpoint
HandleAck(m) ==
  LET cs == Maintain(commands, now)
      done == Acknowledged(m, cs)
      states == IF m.accepted
                THEN [controlStates EXCEPT ![m.node] =
                        IF m.action = "pause" THEN "paused" ELSE "running"]
                ELSE controlStates
  IN /\ FromLiveEndpoint(m)
     /\ idempotency' = MaintainKeys(now)
     /\ IF Acknowledges(m, cs)
        THEN /\ commands' = [cs EXCEPT ![m.command] = done]
             /\ stats' = [MaintainStats(commands, now) EXCEPT
                  !.accepted = IF done.status = "accepted" THEN @ + 1 ELSE @,
                  !.rejected = IF done.status = "rejected" THEN @ + 1 ELSE @]
             /\ controlStates' = states
             /\ paused' = IF done.status = "accepted"
                          THEN \A n \in Nodes : states[n] = "paused" ELSE paused
        ELSE /\ commands' = cs
             /\ stats' = MaintainStats(commands, now)
             /\ UNCHANGED <<controlStates, paused>>
     /\ UNCHANGED endpoints

\* handleDatagram for a trace: it tells where the node can be reached.  The
\* snapshot broadcast at the end counts, and so maintains, the commands.
HandleTrace(m) ==
  /\ endpoints' = [endpoints EXCEPT ![m.node] = [run |-> m.run, lastSeen |-> now]]
  /\ commands' = Maintain(commands, now)
  /\ stats' = MaintainStats(commands, now)
  /\ idempotency' = MaintainKeys(now)
  /\ UNCHANGED <<controlStates, paused>>

\* An acknowledgement from an address that is not the node's live endpoint
HandleStray(m) ==
  /\ ~FromLiveEndpoint(m)
  /\ UNCHANGED <<endpoints, commands, idempotency, stats, controlStates, paused>>

\* handleDatagram: the nonce is consumed before the forced second refresh, so an
\* event that arrives with broken credentials on disk is lost for good.
HandleDatagram(m) ==
  /\ m.kind \in {"trace", "control_ack"}
  /\ registry
  /\ Verified(m)
  /\ replay' = Accept(m)
  /\ \/ /\ ~files
        /\ Refresh(FALSE)
        /\ handled' = handled \ {e.nonce : e \in Evicted}
        /\ UNCHANGED <<commands, idempotency, stats, paused>>
     \/ /\ files
        /\ handled' = (handled \ {e.nonce : e \in Evicted}) \cup {m}
        /\ UNCHANGED registry
        /\ \/ m.kind = "trace" /\ HandleTrace(m)
           \/ m.kind = "control_ack" /\ HandleAck(m)
           \/ m.kind = "control_ack" /\ HandleStray(m)
  /\ UNCHANGED <<faults, now, net, files, collectorRun, nodes, issued, forgotten, applied>>

\* The collector process dies and comes back with nothing but its files.
CollectorRestart ==
  /\ Fault
  /\ collectorRun' = collectorRun + 1
  /\ commands' = [c \in CommandIds |-> None]
  /\ idempotency' = {}
  /\ stats' = NoStats
  /\ endpoints' = [n \in Nodes |-> None]
  /\ controlStates' = [n \in Nodes |-> None]
  /\ paused' = FALSE
  /\ replay' = {}
  /\ registry' = files
  /\ handled' = {}
  /\ UNCHANGED <<now, net, files, nodes, issued, forgotten, applied>>

-----------------------------------------------------------------------------
(***************************************************************************)
(* The nodes: UdpJsonTraceSink of observability.cpp.                       *)
(***************************************************************************)
\* emit() of any trace event, a heartbeat for instance
SendTrace(n) ==
  /\ traces < MaxTraces
  /\ traces' = traces + 1
  /\ net' = net \cup {[kind |-> "trace", node |-> n, run |-> nodeRun[n],
                       sentAt |-> LocalTime(n)]}
  /\ net' # net                          \* bound: one trace per node and tick
  /\ UNCHANGED <<faults, now, files, collector, nodeRun, nodePaused, nonces, history>>

\* authenticate_command: known nonces are refused, and all are forgotten at once
\* when there are too many.
Authentic(n, m) ==
  /\ m.kind = "control"
  /\ m.node = n
  /\ m.run = nodeRun[n]
  /\ Abs(LocalTime(n) - m.sentAt) <= Skew
  /\ m.command \notin nonces[n]
RememberNonce(n, m) ==
  [nonces EXCEPT ![n] = (IF Cardinality(@) >= NonceLimit THEN {} ELSE @) \cup {m.command}]

NotExpired(n, m) ==
  LET expiresAt == m.sentAt + CommandTimeout
  IN LocalTime(n) <= expiresAt /\ expiresAt <= LocalTime(n) + Skew

Ack(n, m, ok) ==
  [kind |-> "control_ack", node |-> n, run |-> nodeRun[n], sentAt |-> LocalTime(n),
   command |-> m.command, action |-> m.action, accepted |-> ok]

\* The control thread: authenticate, check the expiry, act, acknowledge.
ReceiveCommand(n, m) ==
  /\ Authentic(n, m)
  /\ nonces' = RememberNonce(n, m)
  /\ IF NotExpired(n, m)
     THEN /\ nodePaused' = [nodePaused EXCEPT ![n] = m.action = "pause"]
          /\ net' = net \cup {Ack(n, m, TRUE)}
          /\ applied' = applied \cup {<<m.command, n>>}
     ELSE UNCHANGED <<nodePaused, net, applied>>
  /\ UNCHANGED <<faults, now, files, collector, nodeRun, traces, issued, forgotten, handled>>

\* Another runtime behind the same protocol may refuse.
RefuseCommand(n, m) ==
  /\ n \in Foreign
  /\ Authentic(n, m)
  /\ NotExpired(n, m)
  /\ nonces' = RememberNonce(n, m)
  /\ net' = net \cup {Ack(n, m, FALSE)}
  /\ UNCHANGED <<faults, now, files, collector, nodeRun, nodePaused, traces, history>>

\* A node that restarts is running, has a new socket and knows no nonce.
NodeRestart(n) ==
  /\ Fault
  /\ nodeRun' = [nodeRun EXCEPT ![n] = @ + 1]
  /\ nodePaused' = [nodePaused EXCEPT ![n] = FALSE]
  /\ nonces' = [nonces EXCEPT ![n] = {}]
  /\ UNCHANGED <<now, net, files, collector, traces, history>>

Next ==
  \/ Tick
  \/ RewriteCredentials
  \/ RefreshCredentials
  \/ ReadCommands
  \/ \E r \in Requests : IssueControl(r)
  \/ \E m \in net : HandleDatagram(m)
  \/ CollectorRestart
  \/ \E n \in Nodes : SendTrace(n) \/ NodeRestart(n)
  \/ \E n \in Nodes, m \in net : ReceiveCommand(n, m) \/ RefuseCommand(n, m)

Spec == Init /\ [][Next]_vars

-----------------------------------------------------------------------------
Counter == 0 .. MaxIssued
TypeOK ==
  /\ now \in 0 .. MaxTime
  /\ net \subseteq Datagrams
  /\ commands \in [CommandIds -> Commands \cup {None}]
  /\ stats \in [issued : Counter, accepted : Counter, rejected : Counter, timedOut : Counter]
  /\ idempotency \subseteq IdempotencyEntries
  /\ endpoints \in [Nodes -> Endpoints \cup {None}]
  /\ controlStates \in [Nodes -> {"paused", "running", None}]
  /\ {paused, files, registry} \subseteq BOOLEAN
  /\ replay \subseteq [nonce : Datagrams, seen : 0 .. MaxTime] /\ handled \subseteq Datagrams
  /\ collectorRun \in Runs
  /\ nodeRun \in [Nodes -> Runs]
  /\ nodePaused \in [Nodes -> BOOLEAN]
  /\ nonces \in [Nodes -> SUBSET CommandIds]
  /\ traces \in 0 .. MaxTraces /\ faults \in 0 .. MaxFaults
  /\ issued \in [CommandIds -> IssuedCommands \cup {None}]
  /\ forgotten \subseteq CommandIds
  /\ applied \subseteq CommandIds \X Nodes

\* Every issued command ends in exactly one counted way: with the commands still
\* pending the outcomes add up to the number issued, although answers, timeouts
\* and the removal of old commands (control.mjs:603-614) race with each other.
OutcomesBalance ==
  stats.issued = stats.accepted + stats.rejected + stats.timedOut + Cardinality(Pending(commands))

\* A command is only reported as accepted when every one of its targets really
\* carried it out (control.mjs:583, observability.cpp:560-574), whatever the
\* network did to the datagrams.
AcceptedWasApplied ==
  \A c \in Held(commands) :
    commands[c].status = "accepted" => \A n \in commands[c].targets : <<c, n>> \in applied

OneKey(c, d) ==
  /\ issued[c].key # NoKey /\ issued[c].key = issued[d].key
  /\ issued[c].actor = issued[d].actor /\ issued[c].run = issued[d].run
\* Two commands of one principal under one idempotency key in one collector run
\* are at least a key lifetime or a retention apart: within that time a retry
\* never sends a second command.  And within the lifetime of its key a command is
\* followed by a different one only if a retry came after the retention, found
\* the command gone, and was refused: it takes the key with it (control.mjs:537-561).
RetriesDoNotRepeat ==
  \A c, d \in CommandIds :
    c < d /\ issued[c] # None /\ issued[d] # None /\ OneKey(c, d) =>
      \/ issued[d].at - issued[c].at >= IdempotencyTtl
      \/ /\ issued[d].at - issued[c].at > Retention
         /\ \/ issued[c].fingerprint = issued[d].fingerprint
            \/ \E e \in forgotten : c <= e /\ e < d /\ OneKey(c, e)

\* A datagram the collector let in is never let in again in the same run, unless
\* its nonce was evicted for room: the cache remembers a nonce long enough for
\* clocks that are off by the permitted skew (security.mjs:97-110, 141-153).
LetInOnce == \A m \in handled \cap net : ~Verified(m)

=============================================================================
