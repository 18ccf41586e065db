# Formal models of GraphX

TLA+ models of GraphX, the runtime that turns a graph description into processes, containers,
Open vSwitch networks and message channels. TLC checks small instances; TLAPS proves safety results
about the network infrastructure, the execution of processes and containers, the transports, the
running nodes and the operations on a graph that is up, for every value of the constants. The models
are translated from the C++ and JavaScript source; `PROJECT.json` gives the source lines of every
definition, the hazards the properties are for, and a mutant of the code for every property.

Four groups of parts are modelled:

* **Execution**: how `graphx run up` and `down` create, roll back and delete a graph, as network
  infrastructure (`OvsLifecycle`), as native processes (`NativeExecution`) and as containers
  (`ComposeExecution`), around one ownership ledger, with crashes, failing commands and other
  people on the host.
* **Edges**: how a message gets from node to node over each transport (`Edge` and the transports
  below it, `SharedMemoryRing`), with threads that close, peers that die and networks that fail.
* **Running nodes** (`RunningNodes`): the collector's commands and the nodes' acknowledgements over
  UDP (`ControlPlane`), and the VITA processor, which controls its radios (`RadioControl`) and makes
  spectra of their samples (`SampleAssembler`).
* **The graph that is up** (`ReadyGraph`): faults, captures, rotated credentials, guests, history,
  the trace each node exports, and the command runner most of them use.

## 1. Inventory

| Component | State it keeps | Operations | What is hard | What makes it correct |
|---|---|---|---|---|
| OVS lifecycle coordinator (`src/src/infra/lifecycle_coordinator.cpp`) | status, intents and recorded identities of bridges, namespaces, endpoints, diagnostics | `create` with its rollback, `destroy` (validate only, or real), `recover`, `status`, capture export | a crash or a failing command between any two of some hundred external commands; names reused by others | nothing orphaned, nothing foreign touched, interrupted cleanup can be finished |
| Endpoint, namespace and bridge resources (`endpoint_resources.cpp`, `namespace_resources.cpp`, `ovs_resources.cpp`) | kernel links, named namespaces, OVSDB rows, each with an identity and an ownership mark | create, identify, delete | check and use are separate commands; objects vanish with the object they live in | deletion only on identity *and* mark |
| Ownership ledger (`ownership_state.cpp`, `ownership_lock.cpp`, `ownership.cpp`) | `ownership.yml`: atomic replacement, one lock per graph | load, save, clear, lock | loading rules stricter than what is saved | every saved ledger can be loaded |
| Compose execution (`compose_execution.cpp`) | volumes, networks, containers, pending and identified records, the release barrier | `up`, `down`, rollback | docker commands that fail with or without effect; the daemon away; names of others | every object made is recorded, only own ones removed, applications work only when released |
| Native execution (`execution.cpp`, `process_resources.cpp`) | recorded PID, start time, executable; a gate per child; the barrier | spawn, record, open the gate, readiness, admission, release, stop | PID reuse, crash between fork and record, SIGTERM to SIGKILL, a barrier whose token repeats | only recorded processes run, only own ones are signalled, stopped means stopped |
| Captures and handoff (`capture_resources.cpp`, `capture_handoff.cpp`) | sessions, a ring of PCAPNG files, the snapshot and its inode | create, export round, stop, seal, prune | a writer without a lock; a kill between copy, record and rename | snapshots are whole, sealed evidence does not change |
| Faults and routes (`fault_resources.cpp`, `scenario_execution.cpp`) | netem qdisc, timer process, action records | inject, expire, clear, `down` | timer of an earlier application; kill between rule and timer | what is recorded is in force, a fault ends |
| QEMU guests (`qemu_resources.cpp`, `guests/common/agent.py`) | virtio ports, serial ring, boot log | handshake, release, inspect | frames to a port not open are dropped; two readers of one destructive ring | the handshake ends, serial bytes are kept |
| Node console (`node_console.cpp`) | relay process and its directory | prepare, publish, read | shares the ring with scenarios | as guests |
| Command runner (`command_runner.cpp`) | pipes, deadline, child | `run_command` | full pipes in both directions, a child that stalls, a descendant that keeps a pipe | it returns |
| Shared-memory transport (`shared_memory_transport.cpp`) | a mapped header and ring, a robust mutex, a POSIX name | listen, connect, send, receive, close | a peer dies in the critical section; stale segments; names | a bounded FIFO channel whose calls return; a live listener keeps its name |
| In-process transport (`in_process_transport.cpp`) | bounded deque, mutex, two condition variables | push, pop, close | lost wakeups, notification after unlock, close against blocked calls | the same channel |
| TCP and Unix transports (`tcp_transport.cpp`, `unix_domain_socket_transport.cpp`) | atomic descriptors, `closed_`, backoff, TLS | connect, reconnect, send, accept, receive, close | `close` between any two loads of a descriptor; cut frames and resends | frames whole and in order, no descriptor lost, blocked work ends |
| UDP transport (`udp_transport.cpp`) | sequence tracker, two locks | send, receive, close | loss, repetition, wrap of the window | anomalies add up, descriptors outlive operations |
| VITA radio (`src/src/vita/host.cpp`, `radio.cpp`) | slots, budgets, deadlines, one TLS client | run, serve, stop | datagrams before records, a record cut by its deadline, peers that fall silent | records whole, the radio goes on serving |
| VITA processor (`src/src/vita/processing.cpp`, `processing_app.cpp`) | per stream a connection with its stages, the samples between two spectra, packets that wait for a gap | connect, configure, query, schedule the start; observe, ingest, consume, emit | a connection that breaks between configuration and start; packets late, twice, retuned, or half a sample off | only radios with the authored settings are started; a spectrum is of one tuning and gaps are accounted for |
| Node trace (`application_observer.hpp`, `capture.cpp`, the OTLP sink of `observability.cpp`) | span queue and its thread, the PCAPNG file, the offset of the last frame | trace, capture, post, destroy | writes that fail halfway, a kill, a destructor against a thread that posts | reported frames are whole, spans are not lost, the destructor returns |
| Node observability (`observability.cpp`) and control plane (`apps/telemetry/control.mjs`, `collector.mjs`, `security.mjs`) | commands, idempotency keys, replay cache, nonces, credentials, pause flag | issue, apply, acknowledge, time out, prune, reload, restart | lost, repeated, late datagrams; clock skew; restarts | one outcome per command, accepted means applied, retries do not repeat, nothing let in twice |
| Credentials (`credentials.mjs`, the TLS loader of `tcp_transport.cpp`) | generation file, member files, previous generation | stage, rotate, read, load | many files, no lock, a killed rotation | a consumer uses one generation |
| History (`history.mjs`, `history-worker.mjs`) | bounded queue, one batch in flight, queries, the worker | append, flush, query, maintain, degrade, close | answers after a timeout, death of the worker | the books balance, written is durable, waiters are answered |
| Telemetry operations (`operations.mjs`) | SLO windows, export queue | evaluate, export, retry | | not modelled |
| Configuration and compilation (`config*.cpp`, `compile*.cpp`, `resolved_network.cpp`), encodings, management policy | none | validate, generate, encode | size | not modelled |
| HTTP routing, metrics, web UI, dissector, scripts | little | I/O and presentation | | not modelled |

Interactions: `graphx run` takes the graph lock, loads the ledger and drives the coordinator,
the compose or native executor and the diagnostics, each of which saves the same ledger and calls
external programs through `run_command`. Nodes wait for the release barrier, exchange envelopes over
the transports and push telemetry to the collector, which carries the control commands back and
hands records to the history. Everything that outlives a `graphx` process does so through the
ledger or through marks on host objects.

The hazards of this code are listed, each with its line and with the properties that watch it,
under `hazards` in `PROJECT.json`.

## 2. Modules

| Module | Role |
|---|---|
| `OvsLifecycle` | `up`, rollback and `down` of bridges, namespaces and endpoints, command by command |
| `OvsInvariant` | the inductive invariants of `OvsLifecycle` |
| `OvsLifecycle_proofs`, `OvsOrphan_proofs`, `OvsIdentity_proofs` | types; nothing orphaned; records, foreign objects and interrupted cleanups |
| `NativeExecution`, `ComposeExecution` | `up` and `down` of processes and of containers |
| `Execution`, `Execution_proofs` | `execute_graph`: a graph is of one of the two kinds; the proofs of all its properties |
| `FifoChannel` | the abstract bounded channel |
| `SharedMemoryRing`, `SharedMemoryRing_proofs` | one shared-memory segment and the processes on both sides; types, sole producer, and that the ring implements the channel |
| `StreamTransport`, `DatagramTransport`, `InProcessChannel`, `SharedMemorySegment`, `RadioTransport` | TCP and Unix sockets; UDP; the in-process queue; the name of a shared-memory segment; the radio's end of an external edge |
| `Edge` | `TransportFactory::create`: an edge has one of the transports |
| `Edge_proofs` | the streams of TCP and Unix sockets, descriptors and anomalies of UDP, the segment's name, the radio's records, and that the in-process queue implements the channel |
| `ControlPlane`, `SampleAssembler`, `RadioControl` | collector and nodes; the sample assembler and the radio controller of the processor |
| `RunningNodes`, `RunningNodes_proofs` | their composition, and the proofs of all its properties |
| `FaultInjection`, `CaptureHandoff`, `CredentialRotation`, `GuestSession`, `HistoryStore`, `TraceExport`, `CommandRunner` | the parts of a graph that is up |
| `ReadyGraph`, `ReadyGraph_proofs` | their composition, and the proofs of its safety properties |
| `MCOvsLifecycle`, `MCSharedMemoryRing`, `MCRunningNodes`, `MCExecution`, `MCReadyGraph` | the instances TLC uses |

`Execution`, `Edge`, `RunningNodes` and `ReadyGraph` compose parts of which a behaviour follows one: a
graph has one kind of execution, an edge one transport, and the operations of a ready graph exclude
each other by the graph lock or share no state. Their compositions are therefore disjoint, and a product of
independent interleavings is not explored.

### OvsLifecycle

State: the host (`bridge`, `extra`, `netns`, `link`, `port`, `running`), the ledger twice (`mem`,
the copy of the running process, and `disk`), and the one process that holds the graph lock
(`pc`, the command it executes next, with its loop variables). A host object has an identity
(ifindex, namespace inode or row UUID; 0 when the name is free), an ownership mark (interface
alias or OVS `external_ids`), and a history flag `ours` that only the properties read.

* `Up`, `RecordIntent`/`RefuseCollision`: load, collision checks, intents saved before any
  mutation. `AddBridge` ... `RecordEndpoint`: one action per external command and one per save;
  `FinishCreate` ends `create`, `StartupFails` is a failure after the network stands.
* `CreateFails`/`CreateBlocked`: a command fails, by itself or because the host is in its way;
  `RecoverNamespace`, `Discover` and the deletion steps are the rollback, which goes on after a
  refused deletion and clears the ledger only when `cleanup_complete` holds (`RollbackDone`).
* `Down`, `Stop`, `ValidateOnly`, `StopContainers`, `BeginDestroy`, the deletions, `DestroyDone`,
  `FinishStop`: the `stop` closure, which destroys twice, first only validating.
* `Crash`, `ContainerExit`, `ForeignStep`: the environment. Somebody else may remove, add or
  replace anything under the graph's names, and the replacement may carry a copy of the marks of
  the resource it replaces once that resource is recorded. This is an assumption: a mark contains
  the random owner token and the resource's own id, so it cannot be copied before it was applied.
  Left out are a copy made between a creation and its record, and the deliberate forgery of a mark
  for one resource from the token read off another.

`Exposed` chooses the *name windows* in which others may act: `ip link set/delete` and `ip netns`
commands address by name an object the same process identified in an earlier command. With
`Exposed = {}` others act at any moment but those.

### NativeExecution and ComposeExecution

`NativeExecution`: `procs` are the processes by the number of their start, which stands for the
start time in a recorded identity, so a reused PID is another process; `ledger` and the
invocation's own copy, the `barrier` file, the logs and the lock. `Fork`, `Register`, `OpenGate`,
`Confirm` are the gated start of one process; `Readiness`, `Admit`, `Recheck`, `Publish` the way to
the release; `Validate`, `Destroy`, `StopProcess`, `Escalate`, `StopEnds` are `down` and also the
rollback (`Fails`). `PrepareConsole` and `RelayPublishes` are the console relay. `Crash` kills the
invocation, `Exits` and `Orphaned` are children, `ForeignStarts` gives a freed PID to somebody else.
The test of an identity and the `kill()` that follows it are one step.

`ComposeExecution`: `docker` is what exists under each name, the ledger records an object as
pending (`OwnObject`) before docker is asked (`CreateObject`, `ComposeCreates`) and with its
identity afterwards (`ObserveObject`, `IdentifyAll`). `RunStage` ... `ForgetStage` is the container
that stages credentials, `RotateCall` ... `RotateFails` the container of a rotation under the same
lock and ledger. `DaemonChanges` takes the daemon away and back, `StrangerActs` creates or removes
under the graph's names, `Killed` ends the invocation. A fresh identity only has to differ from the
recorded one, because that is the only comparison the code makes.

### Edges

`StreamTransport` gives every load, store and exchange of `socket_`, `listener_` and `closed_` a
step of its own, because the code shares them between threads as atomics without a lock. A frame is
`FrameCells` cells, the first `HeaderCells` its length; a cell is what one `send` or `recv` moves, so
a frame can be cut anywhere. `OutStep` is the sending thread (connect, handshake, write, back off,
reconnect, resend), `InStep` the receiving one, `CloseCall` and `Teardown` are `close()` on either
side, `Reset` is the network. Observers (`TraceSink`) may throw at every place the code calls them:
the TCP transport lets that fail the attempt, the `connect` or the receive (`AttemptFails`, `NextTry`,
`OutSecured`, `Written`, `Thrown`), the Unix transport mostly swallows it. `spoiled` remembers that an
exception has kept a connection from being closed.

`DatagramTransport` has the receive loop (`ReceiveStep`), its deadline, the sequence tracker with its
window, and `close()` that signals first and frees under both locks (`CloseStart`, `CloseFrees`).
A `send` is one step. `InProcessChannel` makes what happens under the mutex one step and the
notification after the unlock another; what a wait returns at its deadline is decided, as in `wait_for`,
by the predicate at that moment. `SharedMemorySegment` follows the name: check the old segment, unlink, create, size,
initialise, store the magic; open, stat, wait, claim; give up the role, unlink, destroy; and the
death of processes. `RadioTransport` is the loop of `run_radio` (`Turn`: runtime, accept, client,
receive) on `HostTransport`'s slots and budgets; the VITA runtime is a library that submits what it
likes.

`SharedMemoryRing`: the mapped header (`head`, `tail`, `slots`, `closed`, `discarded` for
`recovery_count # 0`, the two PIDs), the robust mutex (`free`, `held`, or `dead` when its owner
died), and for every process whether it lives, where its calling thread is (`pc`) and where its
control thread is in `request_close` (`closer`). A critical section nobody can see the middle of is
one action (`Section`). The copy into a slot is three (`SendCopies`, `SendCommits`, `SendUnlocks`),
because a process that dies there leaves a torn slot and the mutex `dead`. `RecoverMutex` is
`EOWNERDEAD` in `lock_header` and `wait_condition`; `CloseRing`, as the code, makes an abandoned
mutex consistent without touching the queue. A dead process is a zombie, which `kill(pid, 0)` still
finds, until it is reaped.

Both bounded channels implement `FifoChannel`: `ImplementsChannel` (the ring; `sent`, `received`,
`closed`, `discarded` and `eos` are mapped to themselves) and `ChannelIsFifo` (the queue, which never
discards).

### ControlPlane

Collector and nodes share only `net`, a set of datagrams that are never removed: receiving one late,
again, or never is what UDP allows. `IssueControl` is the whole of the HTTP handler (authorise, look
up the idempotency key, prune, sign, send), in which a retry whose command is gone loses its key before
the request can still be refused (`Refused`; the history variable `forgotten` remembers it); `HandleDatagram` verifies, remembers the nonce and
applies traces or acknowledgements; `ReceiveCommand` and `RefuseCommand` are the node's control
thread; `Tick` moves the collector's clock, from which each node's differs by `Offset`, and lets
timeouts fire. `RewriteCredentials`, `RefreshCredentials`, `CollectorRestart` and `NodeRestart` are
the faults.

### SampleAssembler and RadioControl

`SampleAssembler` is one stream of the processor. A sample is the time and the tuning it was taken at,
or missing; time is counted in half samples. The datagrams of one stream are counted modulo
`CountModulus`; a packet that is not next on the timeline waits in `pending` until it is or until it
is old (10 ms); consuming one appends first the missing samples and then its own (`work`), and emits a
spectrum whenever `Size` of them are there. The values of samples and the arithmetic of the spectra
are left out.

`RadioControl` is `Connection::progress` for each stream, stage by stage: connect, configure, wait
for the acknowledgement, query the state, schedule one start for all radios known to be configured,
send it. A connection that breaks loses what is on its way in either direction.

### The parts of ReadyGraph

* `FaultInjection`: one netem fault with its timer processes, numbered by application because the
  kernel's handle tells them apart, and one manual route; `Coordinator` is the step of whichever
  scenario command or `down` holds the lock.
* `CaptureHandoff`: dumpcap appends without a lock to files whose length is counted in half blocks
  (odd: inside a block); `Round` ... `SaveSnapshot` is the exporter's copy, record, rename;
  `SignalDumpcap` ... `Forget` is destroy; `Prune` removes expired sealed sessions.
* `CredentialRotation`: a rotation that replaces the member files one by one between two publications
  of `generation.json`, against two unlocked readers.
* `GuestSession`: host and agent over three ports that drop what is sent too early, and two consumers
  of the serial ring.
* `HistoryStore`: main thread and worker over two message ports.
* `TraceExport`: the application thread that traces an event, writes its frame cell by cell and
  reports its place in the file; the exporter's thread with its bounded queue; the destructor.
* `CommandRunner`: parent, child and descendant over two pipes.

## 3. Runs

| Run | Result | Distinct states | Properties |
|---|---|---|---|
| `OvsLifecycle` | pass | 235,569 | `NoOrphan`, `RecordsIdentifyOurs`, `ForeignPreserved` |
| `OvsRecovery` | pass | 5,045 | `CleanupReplays`, `CleanupCompletes` |
| `SharedMemoryRing` | pass | 141,806 | `SoleProducer`, `ImplementsChannel`, `OperationsReturn` |
| `Edge` | pass | 764,066 | `StreamIsFaithful`, `DescriptorsOutliveOperations`, `AnomaliesAddUp`, `NameIsKept`, `RecordsAreWhole`, `BlockedWorkEnds`, `ChannelIsFifo`, `RadioServes` |
| `RunningNodes` | pass | 2,481,586 | `OutcomesBalance`, `AcceptedWasApplied`, `RetriesDoNotRepeat`, `LetInOnce`, `SpectraAreSound`, `StartedAsAuthored` |
| `Execution` | pass | 1,728,521 | `OnlyOwnSignalled`, `NothingUnrecorded`, `ReleaseMeansReady`, `StoppedMeansStopped`, `OwnershipIsKept`, `WorksWhenReleased` |
| `ReadyGraph` | pass | 276,146 | `RecordedIsInForce`, `SnapshotIsWhole`, `EvidenceIsKept`, `OneGeneration`, `SerialIsKept`, `BooksAreTrue`, `TraceIsSound`, `FaultsEnd`, `GuestComesUp`, `WaitersAnswered`, `CommandReturns`, `DestructorReturns` |
| `OvsTapCleanup` | violation | | `CleanupReplays` with a TAP |
| `OvsLedgerReload` | violation | | `LedgerLoadable` |
| `OvsNameWindow` | violation | | `ForeignPreserved` with the deletion windows exposed |
| `TcpClose` | violation | | `CloseCancelsReceive` |
| `DownOutage` | violation | | `DownRemovesOwned` |

Each module has a type invariant. Those of `OvsLifecycle`, `SharedMemoryRing`, `Execution`,
`RunningNodes` and `ReadyGraph` are theorems; the others hold in the instances above and are not part
of the runs' properties, because they say nothing about the code beyond the shape of its state.

### Bounds

* `OvsLifecycle`, `OvsRecovery`: endpoints, bridges and namespaces interact only through the bridge
  and namespace they share, so two endpoints on one bridge next to one namespace show each
  interaction once; every kind of endpoint occurs in some run. One crash plus one failure is a crash
  in `up`, in the rollback, or in `down`; the two of `OvsRecovery` interrupt a cleanup that resumes
  an interrupted `up`. Two foreign steps are a removal and a replacement. Nine identities never run
  out within these bounds.
* `SharedMemoryRing`: two slots and three messages are full, wrap, and overwrite each slot; two
  producers let one take over from a dead or finished one. `MaxSends` bounds the run, not the code.
* `Edge`: frames of two cells, one of them the length, can be cut in both places; two connections and
  one fault, a reset or an observer that throws, are a reconnection with a resend; two messages show
  order (`TcpClose` needs no fault). A sequence window of two
  over the numbers 0..2 overwrites its oldest entry, and at most two copies and four receptions are a
  duplicate, a gap and a late datagram. Two producers, two consumers, capacity two and three messages
  let every kind of thread block and be woken by the wrong one. Two listeners in one or two processes and one connector
  are a predecessor, a successor and a peer. The radio has one datagram slot, two record slots, budgets
  that two records of the largest size exceed, and three records.
* `ControlPlane`: time 0..4 with a timeout of 1, retention 2, key lifetime 4 and skew 1. A key thus
  outlives its command for two units, in which a retry may start the command anew, or be refused and
  free the key for another one; at time 4 the key itself has expired. Two nodes, one ahead of and one
  behind the collector, one of them a foreign runtime; two commands, a command limit, replay cache and
  nonce set that are exhausted; two traces; one restart or rewrite of credentials, at time 0 and there
  between any two steps: at later times it would meet the same states with older commands.
* `SampleAssembler`: spectra of two samples, one apart; queues of two and a count modulo two, so that
  both overflow and wrap; packets that are retuned, half a sample late, or far apart; three datagrams
  and two epochs. `RadioControl`: two streams, of which one can fall behind the other, two attempts,
  three commands each and one broken connection.
* `Execution`: a platform and one node, two `up`, one `down`, four process starts (one of them may be
  somebody else's), one exit, one crash. Compose: two `up` or rotations, one `down`, two mishaps (a
  kill, a step of a stranger, an outage). `Extensions` is empty: an extension is another service
  started before the applications. PIDs are symmetric; the run has no liveness property.
* `ReadyGraph`: two applications of a fault and one foreign change; a ring of one capture file, two
  sessions, three half blocks, one rotation, two snapshots; credential generations 1..3, grace 1, time
  0..2, two reads; a serial ring of two bytes, a log of three, four bytes and three inspections; a queue
  and batch of two, one pending query, three records, two rows in the database, two queries and one
  maintenance error; a trace queue of two with three events, a file that one frame of the larger size
  overflows, two packets; a pipe of one cell, input and output of three, an output limit of two.

Deadlock is not checked where the system may stop: a graph that is down, a transport that was closed,
a ledger that cannot be loaded.

### What the properties say

Infrastructure:

* `NoOrphan`: while the ledger on disk names no infrastructure, nothing GraphX created exists.
* `RecordsIdentifyOurs`: what passes an ownership check was created by GraphX.
* `ForeignPreserved`: no step of GraphX removes or alters a foreign object, or a bridge with a
  foreign port.
* `CleanupReplays`: an interrupted cleanup is not refused when it is repeated, on a host nobody else
  touches (with a TAP it may be: `OvsTapCleanup`).
* `CleanupCompletes`: from every recoverable state, repeated `down` reaches an empty ledger.

Processes and containers:

* `OnlyOwnSignalled`, and `OnlyOwnRemoved` in `OwnershipIsKept`: no signal reaches, and no removal
  meets, what somebody else started or created, although it has a recorded PID or name.
* `NothingUnrecorded`, and `ObjectsAreRecorded` in `OwnershipIsKept`: what runs past its gate, and every
  docker object that was made, is in the ledger on disk, whatever step was interrupted. The second holds
  as long as the daemon answers (see `DownOutage`).
* `ReleaseMeansReady`, `WorksWhenReleased`: a node works only in a run that was checked and released;
  no barrier of an earlier run lets it pass.
* `StoppedMeansStopped`: after a `down` that says so nothing runs and no barrier is left.

Edges:

* `ImplementsChannel`, `ChannelIsFifo`: in order, nothing twice, at most the capacity under way, closing
  final, and end of stream only after everything was delivered unless a recovery discarded the queue.
* `SoleProducer`: the live producers that have not closed are the one the header names.
* `OperationsReturn`: no send hangs on a dead consumer, a full ring or an abandoned mutex, and a
  receive returns once its channel is closed or every producer is dead.
* `StreamIsFaithful` is three: `DeliveredInOrder` and `EndOfStreamIsComplete` (frames stay whole, each
  arrives in order and at most once, and a clean end of stream comes after all of them), and
  `NoDescriptorLost`: no interleaving of `close()` with accept, connect or reconnection leaves TCP with a
  descriptor nobody closes. They hold over resets, cut frames and observers that throw, with the two
  exceptions the TCP transport makes. An envelope whose `on_send` or `on_backpressure` threw after its
  frame was complete is sent again (`tcp_transport.cpp:628-634`); the model gives the second frame a
  number of its own, so the property counts frames. And nothing is claimed once an exception has kept a
  connection from being closed (`spoiled`): `on_error` in the catch of `send` (632), or `on_reconnect`
  or `on_connection` before a further try (464-466). (The Unix transport stores an accepted descriptor after `close()` without a
  second look, `unix_domain_socket_transport.cpp:339`; the property speaks of TCP.)
* `DescriptorsOutliveOperations`, `AnomaliesAddUp`: a UDP receive never uses a freed descriptor; gaps, advances and
  duplicates add up.
* `NameIsKept`: a ready listener has the name, and who attaches finds an initialised segment. It leaves
  out two listeners at work on one name at once, which can remove each other's name
  (`shared_memory_transport.cpp:105`, `248`).
* `RecordsAreWhole`, `RadioServes`: a TLS connection carries whole control records in order, a cut one
  ends it; no record waits forever and no silent peer keeps the radio.
* `BlockedWorkEnds`: blocked receives end after `close()`, a `close()` gets the lock it needs, no thread
  of the in-process channel sleeps on a true predicate (a consumer with a message or a closed channel, a
  producer with room or a closed channel), and a datagram receive meets its deadline.

Running nodes:

* `OutcomesBalance`: issued = pending + outcomes; no answer, timeout or removal counts twice or is lost.
* `AcceptedWasApplied`: a command reported as accepted was carried out by each target.
* `RetriesDoNotRepeat`: two commands under one key are at least a key lifetime or a retention apart, so a
  retry is no second command while its key and its command last. Within the lifetime of the key the
  second differs from the first only if a retry that came after the retention was refused and took
  the key with it (`control.mjs:543-558`).
* `LetInOnce`: the collector lets no datagram in twice in one run, unless its nonce was evicted at the
  capacity of the cache.
* `SpectraAreSound`: a sample of a spectrum stands at its place on the timeline or is marked missing, a
  spectrum is of one tuning, and the discontinuity counter accounts for every sample between two.
* `StartedAsAuthored`: a radio is started only with the settings its author gave it, whatever was refused,
  lost with a connection, or answered too late.

The graph that is up:

* `RecordedIsInForce`, `FaultsEnd`: what is registered is on the interface and no old timer lifts it; a
  released timer ends its fault, unless the coordinator was killed between stopping the timer and
  removing the qdisc (`abandoned`).
* `SnapshotIsWhole`, `EvidenceIsKept`: an exported file is a whole prefix known to the ledger; sealed
  evidence does not change before its retention ends.
* `OneGeneration`: the platform and the TLS loader use the members of one generation, and the previous
  one only within its overlap.
* `GuestComesUp`, `SerialIsKept`: the handshake ends; the boot log is the newest of all bytes completed
  inspections took from the ring, in order and each once.
* `BooksAreTrue`, `WaitersAnswered`: every accepted record is queued, in flight or counted, and what is
  reported as written is in the database once and in order (`NothingForgotten`, `WrittenIsDurable`);
  queries and `close()` are answered, although a live worker may fall silent. `NothingForgotten` is an
  inequality: a batch that the store gave up and whose answer still comes is counted as failed and as
  written (`history.mjs:322`).
* `TraceIsSound`, `DestructorReturns`: the frames a node reports are whole in its file and without a hole
  between them, and no span that had time is lost; the destructor of the exporter returns.
* `CommandReturns`: `run_command` ends, with its child reaped and its pipes closed. It leaves out a
  caller blocked in `write()` of input larger than the pipe (`command_runner.cpp:184`).

### What the violation runs show

* **`OvsTapCleanup`.** `destroy` asks `tap_owner_matches` of every recorded TAP, whether it still
  exists or not (`lifecycle_coordinator.cpp:846`). A crash after the TAP was deleted and before the
  ledger was cleared makes every later `down` refuse.
* **`OvsLedgerReload`.** A failed endpoint creation whose rollback cannot delete the half-made
  endpoint saves a record without a port UUID, which `load_state` rejects: neither `up` nor `down`
  runs again (`lifecycle_coordinator.cpp:692`, `ownership_state.cpp:764`).
* **`OvsNameWindow`.** The check before `ip link delete` and `ip netns delete` does not close the
  race the comment at `lifecycle_coordinator.cpp:828` speaks of: a replacement under the same name,
  between check and command, is deleted. (Bridges are safe: their check is part of the OVSDB
  transaction.)
* **`TcpClose`.** A receive without a deadline that has passed its test of `closed_` and loads `socket_`
  after `close()` has exchanged it polls the descriptor -1 without a timeout (`tcp_transport.cpp:650`,
  `551`, `663`). `docs/GraphX_Architecture.md:762` says that close cancels blocked work. The Unix
  transport has a cancellation pair and is covered by `BlockedWorkEnds`.
* **`DownOutage`.** `inspect()` takes every failed `docker inspect` for an absent object
  (`compose_execution.cpp:54`): a `down` during a short outage of the daemon erases the records of
  objects that still exist and reports `stopped`; `docs/GraphX_Architecture.md:280-282` says that it
  removes owned execution resources.

### Fairness

Common to all: a thread inside an operation, an event loop and a timer run on, and time passes. Nobody
has to begin an operation, and no fault, crash or step of other people is fair. A part or transport
a behaviour does not follow has nothing fair enabled.

* `OvsRecovery`: a running `graphx` process keeps running, and the operator repeats `down` while the
  ledger names infrastructure. `CleanupCompletes` starts from states in which crashes and failures are
  over and which the code can recover (`Recoverable`): every unrecorded object carries its proof or
  does not exist, and no recorded TAP is missing. It excludes, with the code, three states it
  refuses on purpose or by the defects above: a link added but not yet attached to OVS, a namespace
  added but not yet aliased, and a TAP deleted by an interrupted `down`.
* `SharedMemoryRing`: a call that has begun takes its next step (a wait for capacity ends at
  `send_timeout`, a wait for a message wakes every `kPeerCheckInterval`), a control thread finishes
  `request_close`, and the dead are reaped by their parents. A receive need not have a deadline:
  `ReceiveTimesOut` is not fair.
* `Edge`: the receiving thread and the `close()` of its own end; the UDP receive loop, its deadline and
  the step that frees; in the in-process channel the threads that notify and the producers and consumers
  that were woken (no timeout is counted on); the radio's loop and its three deadlines.
* `ReadyGraph`: coordinator and timers of faults; host and agent of a guest, and the host's deadline only
  when the agent is dead; the collector's event loop and the timers of the history, but not
  its worker, which may stop answering; the exporter's thread and
  the destructor of a trace; in `CommandRunner` the parent, its deadline, and a child that does not stall.

## 4. Proofs

All proofs are for arbitrary constants under the named assumptions of the modules.

* **Types** (`TypeCorrect`). `TypeOK` is not inductive: a loop index is in range only at certain
  points. `TypeInv` adds `IndexOK`, and every action preserves it.
* **Nothing orphaned** (`NothingOrphaned`). `NoOrphan` speaks of the disk only, so `OrphanInv` says
  why clearing is right: intents are on disk and equal in both copies while anything is done
  (`ControlInv`), only what the disk intends is ours (`PlannedOnly`), after recovery or adoption
  nothing of ours is unrecorded (`NamespacesCovered`, `Covered`), and a cleanup without a refusal
  has removed everything its loops have passed (`Progress`). `mode = "destroy" => clean` reflects
  that `destroy` throws at the first refusal.
* **Records identify ours, foreign objects are safe** (`RecordsSound`, `ForeignObjectsSafe`), for
  `Exposed = {}`. `IdentityInv` adds that marks on unrecorded objects are our own
  (`MarksAreOurs`), that the memory copy extends the disk (`DiskInMem`), that creation records in
  order (`CreationOrder`), that identities captured during a creation denote our objects
  (`CapturedOurs`), and that in a name window the name still denotes what it did (`WindowsSafe`,
  the only part that needs the assumption; `OvsNameWindow` shows that it is needed).
* **Interrupted cleanups are accepted again** (`InterruptedCleanupsReplay`), for topologies without a TAP
  (`NoTaps`; with one the code refuses, see `OvsTapCleanup`), and whatever `Exposed` is. `CleanupReplays`
  looks at one point of `down`; `ReplayInv` carries the reason there. While nobody else acts, what
  exists under our names is ours (`NobodyElse`), creation works under the status "creating" only
  (`CreatingStatus`), and a ledger copy in status "destroying" records every object that exists with
  its identity and mark (`Settled`): the validation established it, with `OrphanInv` for what it does
  not look at (an object outside the ledger would not be ours), and from then on objects only vanish.
* **The ring is a channel** (`RingImplementsChannel`), with `RingTypes` and `RingSoleProducer`.
  `RingInv` relates counters and histories (`CounterInv`), says that the slots from tail to head
  hold what was sent (`ContentInv`, with `SlotsDistinct`: numbers less than `Capacity` apart never
  share a slot), that what was received is a prefix (`PrefixInv`), that the thread inside the copy
  is alone and nothing closes or fills the ring behind it (`MutexInv`), and that the role is given
  up only by a cancelled process (`RoleInv`). Each action then maps to `Accept`, `Deliver`,
  `Close`, `Discard`, `EndOfStream` or a stutter.

The compositions keep the parts apart, so the invariant of each is the conjunction of those of its
parts (`ExecutionInv`, `NodesInv`, `ReadyInv`, `EdgeInv`), and a step of one part leaves the others'
state alone.

`Execution_proofs`, from `PlanAssumption`, `BoundsAssumption`, `ServicesAssumption` and
`ComposeBoundsAssumption`:

* **Native graphs** (`OwnSignals`, `ProcessesAreRecorded`, `ReleasedAfterReady`, `StoppedIsStopped`).
  None of the four is inductive. A PID has one occupant (`ProcessInv`), so what the identity test lets
  pass is the recorded process. The ledger names processes of one run in the order of the plan
  (`LedgerInv`), what the step of the invocation says of it (`PlaceInv`), and the process being started
  is the newest (`ChildInv`): that makes a registered child the one behind the gate. Whoever had to be
  awaited was (`SettledInv`), and the barrier stands only while the recorded run has been released
  (`BarrierInv`), although its token repeats. A `down` meets nobody at a gate, because a child there
  holds the lock (`StopInv`).
* **Container graphs** (`ObjectsAreKept`, `WorkIsReleased`). While docker answers, both copies of the
  records are sound (`RecordInv`). A record is pending in both before docker is asked (`UpInv`, over the
  places of `Objects`), and goes only when the object has gone (`GoneInv`). That nothing of others is
  removed is then immediate from the identity test. The barrier stands only while the platform of the
  run that published it is recorded (`ReleaseInv`), which is what a second `up` looks at; of an earlier
  run, only applications that an outage made unknown may still work (`WorkInv`).

`RunningNodes_proofs`, from `CommandAssumption`, `BoundAssumption`, `NodeAssumption`,
`RequestAssumption`, `AbsentAssumption` of the control plane, `AssemblerAssumption` and
`RadioControlAssumption`:

* **Commands** (`OutcomesAddUp`, `AcceptedIsTrue`, `RetriesAreSafe`, `NoReplay`). The sum of
  `OutcomesBalance` is preserved because a command changes from pending to an outcome at most once;
  the proof counts the pending ones with the cardinality lemmas. That a retry repeats nothing needs the
  histories `issued` and `forgotten`: numbers are given out in order of time (`IssuedInv`), a command of this run is held
  until its retention is over (`HeldInv`), and until a key expires an entry names the latest command
  issued with it (`KeysInv`, `LatestInv`), unless a refused retry removed it, by when the retention of
  that command was over (`ForgottenInv`). An answer under way says what its node did (`AckInv`). A
  datagram that was let in is remembered as long as its age lets it pass (`SeenInv`).
* **Spectra** (`SpectraSound`). The window under construction lies on the timeline (`WindowInv`), what is
  still to be appended continues it (`WorkInv`), and the last spectrum is where the counters say
  (`LastInv`).
* **Radios** (`StartsAsAuthored`). Whatever speaks of a configured radio, a reply or a start under way,
  was said after the radio took its settings (`AuthoredInv`).

`ReadyGraph_proofs`, from the assumption of each part (`FaultAssumption`, `CaptureAssumption`,
`RotationAssumption`, `GuestAssumption`, `HistoryAssumption`, `TraceAssumption`, `CommandAssumption`):

* **Faults** (`FaultsAreRecorded`): where the coordinator is determines the timer it works on
  (`FaultStepInv`), and while nobody else changes the interface a live timer is that of the qdisc in
  force (`UndisturbedInv`).
* **Captures** (`SnapshotsAreWhole`, `EvidenceStays`): dumpcap writes only into the session the ledger
  owns (`SessionInv`), and at each step of an export what was copied, recorded and renamed is whole and
  known to the ledger by its inode (`HandoffInv`). `EvidenceStays` is an action property.
* **Credentials** (`GenerationsAreWhole`): how far the files were replaced (`RotationInv`); what a reader
  holds is of the generation it saw first, for the loader only if that one is still published
  (`ReaderInv`, `LoaderInv`), and the overlap of the previous one is in force (`KnownInv`).
* **Serial log** (`SerialStays`): bytes are numbered, and those of the ring, of each reader and of the log
  rise and lie one after the other (`RingInv`); who holds bytes holds the lock.
* **History** (`HistoryIsTrue`): at most one batch is on its way, in either port or with the worker
  (`FlightInv`), the worker says once that it is ready (`StartInv`), a store that closed or degraded is
  drained (`CloseInv`), and the records queued, handed over, answered and committed add up and are in
  order (`BooksInv`).
* **Trace** (`TraceSound`): what entered the queue was posted, is held, or is queued, in that order
  (`SpanInv`); the file is the blocks the writer counts and the block being written (`FileInv`), and
  what was reported lies where nothing is written any more (`ReportInv`, `PacketInv`).
* **Commands** (`CommandLeavesNothing`, the safety part of `CommandReturns`): `StageInv` says what is
  left of the child at each stage, `OutputInv` where each cell of its output is.

`Edge_proofs`, from `StreamAssumption` (frames longer than their header, some buffer, finite bounds),
`DatagramAssumption`, `ChannelAssumption` and `SegmentAssumption`:

* **TCP and Unix sockets** (`StreamsAreFaithful`, `StreamsAreTyped`). `StreamIsFaithful` speaks of what
  the application saw; `StreamInv` explains it from the cells on the wire and the place of each thread.
  - Descriptors: whatever end of a connection is open is in `socket_` or in the hand of the thread about
    to store it, and `socket_` is empty while a thread connects or accepts (`SenderInv`, `ReaderInv`).
    This is what makes `NoDescriptorLost` hold for a `close()` between any two steps.
  - Cells: what was read are the first cells of one envelope (`FrameInv`); each connection holds
    consecutive cells of frames, an earlier connection earlier ones (`BytesInv`, over `Chained` and
    `Ahead`); it goes on where its reader stopped (`HeadInv`) and, while both ends may use it, ends where
    the sender is (`TailInv`). A frame cut by a failure is thus always the last of its connection, and
    what a new connection carries begins with a frame.
  - Order: what was received precedes what is on the wire, and the envelope of a send in progress is
    complete nowhere (`OrderInv`): a retry after a failed write repeats nothing that was delivered.
    Connections are accepted in the order they were made (`BacklogInv`).
  - End of stream: while no send failed, only the latest connection ever carried a frame (`LastInv`),
    so everything sent has arrived or is on the wire until the end is seen, and has arrived then
    (`EndInv`).

* **UDP** (`DescriptorsAreSafe`, `AnomaliesAreCounted`): the freed descriptor is used by nobody, because
  `close()` signals before it frees under the locks (`DescriptorInv`); the tracker's highest number is
  the largest delivered and what its window remembers was delivered (`TrackInv`).
* **The queue is a channel** (`ChannelImplements`): what was pushed is what was popped followed by the
  queue (`QueueInv`). `ThreadInv` bounds the calls the model makes. Each action maps to `Accept`,
  `Deliver`, `Close`, `EndOfStream` or a stutter.
* **The segment's name** (`NamesAreKept`): segments are numbered in the order they are made
  (`NumberInv`); what a listener has made of its own at each step (`ListenerInv`); who attaches found
  the magic, which is stored last (`AttachInv`); and with one listener at work the name is its segment's
  (`NameInv`).
* **Records** (`RecordsStayWhole`): a connection carried whole records and, at its end, a part of the
  first that waits (`RecordInv`).

Each inductive invariant was checked by TLC on the run of its module before it was proved.

Only model-checked, and why:

* liveness: `CleanupCompletes`, `OperationsReturn`, `BlockedWorkEnds`, `RadioServes`, `FaultsEnd`,
  `GuestComesUp`, `WaitersAnswered`, the leads-to of `CommandReturns`, `DestructorReturns`. TLAPS 1.4.5
  does not handle fairness and `ENABLED`.

So every safety invariant and action property of the runs is proved; `CleanupReplays` for topologies
without a TAP, `RecordsIdentifyOurs` and `ForeignPreserved` for `Exposed = {}`, as the runs have it.

## 5. Not modelled

* **Whole components.** Configuration and compilation, management policy, envelope and PCAPNG
  encodings: functions from text to text or bytes without state, whose results are the constants and
  message shapes here. SLO evaluation and the collector's OTLP export (the nodes' is in `TraceExport`):
  arithmetic over windows and a retry loop with no
  shared state. Metrics, topology, HTTP routing, browser sessions, web UI, dissector, scripts. The VITA
  runtime is a library; the virtual device, the arithmetic of the spectra and the recorder's counters
  have no concurrent state of their own.
* **OVS.** VLAN tags, addresses, routes, flows, mirrors; `recover` and `status`. A container start is
  one step, and so is `docker stop` for all containers. `destroy` deletes namespaces in any order.
  `stop` skips `destroy` when only namespaces are expected; no property is about it.
* **Execution.** `status`; the texts of commands. The run has one native node and no extension
  service; the proofs are for any number of both. The daemon is away at most once in a behaviour: with a
  second outage during the `own()` of a later `up`, a container whose record the first one erased could
  be taken over, which is the defect of `DownOutage` again.
* **Ring.** PID reuse and separate PID namespaces (the documentation calls PID liveness best-effort);
  the times between peer checks; the macOS build, which has no robust mutex; oversized messages,
  refused before any state is touched; a compiler that reorders the stores of the copy and of `head`
  inside the critical section.
* **Edges.** The half of `close()` against a UDP `send` that polls. The flag `closed_` of each
  `InProcessTransport` beside that of the channel they share: an endpoint that was closed reports
  cancelled where the model reports the end.
* **Control plane.** A collector without a secret, which lets every datagram in (`security.mjs:142`).
* **Guest.** `inspect_guest` refuses a guest that is not running (`qemu_resources.cpp:312`); the model
  inspects it, so it has more behaviours than the code.
* **Trace.** The spans of `on_error` and `on_processing`, which no frame follows.
* **Segment.** A connector that opens between `shm_open` and `ftruncate` is refused at once
  (`shared_memory_transport.cpp:300`), which the model follows.
* **Command runner.** `spawn_background`, a single fork.
* **Observed in the code, in no property.** `docker volume rm` goes by name after the check of the volume
  (`compose_execution.cpp:342`). A crash inside `prepare_node_console` makes a later `up` refuse
  (`node_console.cpp:84`). A killed rotation leaves metadata in the state `publishing`, and later
  rotations refuse (`credentials.mjs:193`). A capture registered without a PCAPNG file makes `down`
  refuse (`capture_resources.cpp:433`). A configured radio whose connection is down in the turn that
  schedules the start is never started (`processing_app.cpp:314-328`). A TCP edge that reconnects sends
  an envelope twice when `on_send` throws after a complete frame, keeps a connection with a cut frame when
  `on_error` throws (`tcp_transport.cpp:628-634`), and loses a descriptor when `on_connection` throws and
  another try follows (464-466). `docs/GraphX_Architecture.md:436-437` says that conflicting reuse of an
  idempotency key is rejected; within the key's lifetime it is not after a refused retry has removed
  the key of a command that is gone (`control.mjs:543`). A qdisc that was added and
  cannot be read back stays on the interface without a record and without a timer
  (`fault_resources.cpp:147-149`).

## 6. Plan

All modules of the plan are written, and all safety properties of the passing runs are proved.

Model extensions that would pay next: mirrors and the `recover` action in `OvsLifecycle`, and the SLO
evaluation of the collector.
