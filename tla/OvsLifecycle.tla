---------------------------- MODULE OvsLifecycle ----------------------------
(***************************************************************************)
(* The ownership-checked life of a graph's Open vSwitch infrastructure:    *)
(* `graphx run up` realises bridges, router namespaces and endpoints one   *)
(* command at a time, writing the ownership ledger (ownership.yml) before  *)
(* the first mutation and after each of them; a failure rolls back, and    *)
(* `graphx run down` adopts, validates and deletes what the ledger names.  *)
(* The process may crash between any two commands, commands may fail, and  *)
(* somebody else on the host may remove or replace anything by name.       *)
(*                                                                         *)
(* Sources: src/src/infra/lifecycle_coordinator.cpp (create, rollback,     *)
(* destroy), endpoint_resources.cpp, namespace_resources.cpp,              *)
(* ovs_resources.cpp, ownership_state.cpp (the ledger) and the `stop`      *)
(* closure of compose_execution.cpp that drives destroy.                   *)
(***************************************************************************)
EXTENDS Naturals

CONSTANTS
    NB, NR, NE,    \* bridges, router namespaces, endpoints, in config order
    KindOf,        \* KindOf[e]: the attachment kind of endpoint e
    SwitchOf,      \* SwitchOf[e]: the bridge endpoint e is attached to
    RouterOf,      \* RouterOf[e]: the namespace of a namespace_veth
    Ids,           \* identities (ifindex, netns inode, OVS row UUID)
    Exposed,       \* the NameWindows (below) in which others may act
    MaxCrashes, MaxFaults, MaxForeign   \* bounds on the disturbances

Bridges    == 1..NB
Namespaces == 1..NR
Endpoints  == 1..NE

Kinds == {"container_veth", "namespace_veth", "qemu_tap"}

NoId == 0

\* Without a switch there is no network to realise.
ASSUME SizesAssumption == NB \in Nat \ {0} /\ NR \in Nat /\ NE \in Nat
ASSUME TopologyAssumption ==
    /\ KindOf \in [Endpoints -> Kinds]
    /\ SwitchOf \in [Endpoints -> Bridges]
    /\ \A e \in Endpoints : KindOf[e] = "namespace_veth" => RouterOf[e] \in Namespaces
ASSUME IdsAssumption == Ids \subseteq Nat \ {NoId}
ASSUME BoundsAssumption == MaxCrashes \in Nat /\ MaxFaults \in Nat /\ MaxForeign \in Nat

VARIABLES
    \* The host: what exists under each name the graph uses.
    bridge,   \* OVS bridges
    extra,    \* extra[b]: somebody else's port sits on bridge b
    netns,    \* named Linux network namespaces
    link,     \* host interfaces of the endpoints (veth ends and TAPs)
    port,     \* OVS Port and Interface rows of the endpoints
    running,  \* running[e]: the container behind endpoint e is alive
    \* The ledger: the copy in the running process and the one on disk.
    mem, disk,
    \* The process that holds the graph lock.
    pc,       \* the command it executes next; "idle" when nobody runs
    k,        \* index of the resource that command is about
    rest,     \* namespaces the current loop has still to visit
    got,      \* identities captured while an endpoint is created
    mode,     \* which cleanup uses the deletion steps
    clean,    \* cleanup_complete of the rollback
    pass,     \* first (validate_only) or second destroy of `stop`
    \* How often each disturbance has happened.
    crashes, faults, foreign

host    == <<bridge, extra, netns, link, port, running>>
ledgers == <<mem, disk>>
process == <<pc, k, rest, got, mode, clean, pass>>
counts  == <<crashes, faults, foreign>>
vars    == <<host, ledgers, process, counts>>
-----------------------------------------------------------------------------
(***************************************************************************)
(* Objects.  `mark` is the graph's ownership proof on the object (the      *)
(* interface alias or the three external_ids), `tied` says that the object *)
(* lives inside another one (a veth whose peer sits in a container or a    *)
(* namespace, a Port row on the graph's bridge) and vanishes with it, and  *)
(* `ours` is a history flag: GraphX created the object.                    *)
(***************************************************************************)
Object == [id : Ids \cup {NoId}, mark : BOOLEAN, tied : BOOLEAN, ours : BOOLEAN]
Absent == [id |-> NoId, mark |-> FALSE, tied |-> FALSE, ours |-> FALSE]
Present(o) == o.id # NoId

Created(i, m, t)  == [id |-> i, mark |-> m, tied |-> t, ours |-> TRUE]
Stranger(i, m)    == [id |-> i, mark |-> m, tied |-> FALSE, ours |-> FALSE]

(***************************************************************************)
(* The ledger.  `intent` stands for expected_bridges, filled in one go;    *)
(* expNs and expEp are expected_namespaces and expected_endpoints, filled  *)
(* one by one until a collision.  All are cleared together.                *)
(***************************************************************************)
EndpointRecord == [known : BOOLEAN, link : Ids \cup {NoId}, port : Ids \cup {NoId}]
NoRecord == [known |-> FALSE, link |-> NoId, port |-> NoId]

Statuses == {"creating", "ready", "destroying"}

Ledger == [intent : BOOLEAN, expNs : SUBSET Namespaces, expEp : SUBSET Endpoints,
           status : Statuses,
           br : [Bridges -> Ids \cup {NoId}],
           ns : [Namespaces -> Ids \cup {NoId}],
           ep : [Endpoints -> EndpointRecord]]

\* clear_infrastructure: what is left of the ledger once everything is gone.
ClearedLedger(L) ==
    [L EXCEPT !.intent = FALSE, !.expNs = {}, !.expEp = {},
              !.br = [b \in Bridges |-> NoId],
              !.ns = [r \in Namespaces |-> NoId],
              !.ep = [e \in Endpoints |-> NoRecord]]

\* load_state refuses endpoint records without a UUID or with a zero ifindex.
Loadable(L) ==
    \A e \in Endpoints : L.ep[e].known => L.ep[e].link # NoId /\ L.ep[e].port # NoId

UsedIds(e) == {link[e].id, port[e].id, got.link, got.port,
               mem.ep[e].link, mem.ep[e].port, disk.ep[e].link, disk.ep[e].port}
UsedBridgeIds(b) == {bridge[b].id, mem.br[b], disk.br[b]}
UsedNamespaceIds(r) == {netns[r].id, mem.ns[r], disk.ns[r]}

\* Some identity nothing refers to: UUIDs and ifindices are never reused.
Fresh(used) == CHOOSE i \in Ids : i \notin used
HasFresh(used) == Ids \ used # {}
-----------------------------------------------------------------------------
(***************************************************************************)
(* Ownership checks, each on a ledger L and the host.                      *)
(***************************************************************************)
BridgeOwned(L, b) ==
    Present(bridge[b]) /\ bridge[b].id = L.br[b] /\ bridge[b].mark

NamespaceOwned(L, r) ==
    Present(netns[r]) /\ netns[r].id = L.ns[r] /\ netns[r].mark

\* Mutant: the alias alone is taken for ownership, the ifindex is not compared.
HostEndpointOwnedByAlias(L, e) == Present(link[e]) /\ link[e].mark

HostEndpointOwned(L, e) ==
    Present(link[e]) /\ link[e].id = L.ep[e].link /\ link[e].mark

OvsEndpointOwned(L, e) ==
    Present(port[e]) /\ port[e].id = L.ep[e].port /\ port[e].mark

\* endpoint_names_absent_or_recorded
NamesAbsentOrRecorded(L, e) ==
    Present(port[e]) => port[e].id = L.ep[e].port

\* Mutant: a recorded port that is gone already counts as tampering.
BridgeExactSetOwned(L, b) ==
    /\ BridgeOwned(L, b)
    /\ ~extra[b]
    /\ \A e \in Endpoints : SwitchOf[e] = b => L.ep[e].port = port[e].id

\* The bridge's port column holds exactly the internal port and the
\* recorded endpoint ports that still exist.
BridgeCompleteSetOwned(L, b) ==
    /\ BridgeOwned(L, b)
    /\ ~extra[b]
    /\ \A e \in Endpoints :
          SwitchOf[e] = b /\ port[e].tied => L.ep[e].known /\ L.ep[e].port = port[e].id

\* Destroying a bridge also destroys the Port rows on it, deleting a
\* namespace or stopping a container the veths whose peer is inside.
PortsWithoutBridge(b) ==
    [e \in Endpoints |-> IF SwitchOf[e] = b /\ port[e].tied THEN Absent ELSE port[e]]
LinksWithoutNamespace(r) ==
    [e \in Endpoints |->
        IF KindOf[e] = "namespace_veth" /\ RouterOf[e] = r /\ link[e].tied
        THEN Absent ELSE link[e]]
LinksWithoutContainers(S) ==
    [e \in Endpoints |->
        IF KindOf[e] = "container_veth" /\ e \in S /\ link[e].tied
        THEN Absent ELSE link[e]]
-----------------------------------------------------------------------------
(***************************************************************************)
(* Control skeleton.                                                       *)
(***************************************************************************)
CreateSteps == {"addBridge", "recordBridge", "addNamespace", "aliasNamespace",
                "recordNamespace", "addLink", "aliasLink", "addPort", "movePeer",
                "recordEndpoint", "finish"}
DeleteSteps == {"deleteEndpoint", "checkLink", "deleteLink", "checkNamespace",
                "deleteNamespace", "deleteBridge", "clear"}
Steps == {"idle", "intent", "started", "stop", "recoverNamespaces", "discover",
          "validate", "stopContainers", "finishStop"} \cup CreateSteps \cup DeleteSteps

\* The commands that act by name on something an earlier command of the same
\* process created or identified: a replacement in between goes unnoticed.
NameWindows == {"aliasNamespace", "aliasLink", "deleteNamespace", "deleteLink"}

ASSUME ExposedAssumption == Exposed \subseteq NameWindows

\* save_state: temporary file, fsync, rename, directory fsync; atomic.
Save(L) == mem' = L /\ disk' = L

\* The process ends, normally or by an exception: only the disk is left.
Exit ==
    /\ pc' = "idle" /\ k' = 0 /\ rest' = {} /\ got' = NoRecord
    /\ mode' = "destroy" /\ clean' = TRUE /\ pass' = 1

Goto(step, index) ==
    /\ pc' = step /\ k' = index
    /\ UNCHANGED <<rest, got, mode, clean, pass>>

Init ==
    /\ bridge = [b \in Bridges |-> Absent]
    /\ extra = [b \in Bridges |-> FALSE]
    /\ netns = [r \in Namespaces |-> Absent]
    /\ link = [e \in Endpoints |-> Absent]
    /\ port = [e \in Endpoints |-> Absent]
    /\ running = [e \in Endpoints |-> FALSE]
    /\ disk = [intent |-> FALSE, expNs |-> {}, expEp |-> {}, status |-> "creating",
               br |-> [b \in Bridges |-> NoId],
               ns |-> [r \in Namespaces |-> NoId],
               ep |-> [e \in Endpoints |-> NoRecord]]
    /\ mem = disk
    /\ pc = "idle" /\ k = 0 /\ rest = {} /\ got = NoRecord
    /\ mode = "destroy" /\ clean = TRUE /\ pass = 1
    /\ crashes = 0 /\ faults = 0 /\ foreign = 0
-----------------------------------------------------------------------------
(***************************************************************************)
(* `run up`: lock, load the ledger, start the held application containers, *)
(* then create the network.                                                *)
(***************************************************************************)
Up ==
    /\ pc = "idle" /\ Loadable(disk) /\ ~disk.intent
    /\ mem' = disk
    /\ running' = [e \in Endpoints |-> KindOf[e] = "container_veth"]
    /\ Goto("intent", 0)
    /\ UNCHANGED <<bridge, extra, netns, link, port, disk, counts>>

\* A planned name is taken, or the container of an endpoint is gone.
BridgeCollision == \E b \in Bridges : Present(bridge[b])
NamespaceCollision(r) == Present(netns[r])
EndpointCollision(e) ==
    \/ Present(link[e]) \/ Present(port[e])
    \/ KindOf[e] = "container_veth" /\ ~running[e]

\* The ledger with the intents for namespaces R and endpoints S.
Intending(R, S) ==
    [mem EXCEPT !.intent = TRUE, !.expNs = R, !.expEp = S, !.status = "creating"]

\* Every intent is written before the first mutation.
RecordIntent ==
    /\ pc = "intent" /\ ~BridgeCollision
    /\ \A r \in Namespaces : ~NamespaceCollision(r)
    /\ \A e \in Endpoints : ~EndpointCollision(e)
    /\ Save(Intending(Namespaces, Endpoints))
    /\ Goto("addBridge", 1)
    /\ UNCHANGED <<host, counts>>

\* A collision throws into `stop` before anything is created or saved, with
\* the intents listed so far in memory.
RefuseCollision ==
    /\ pc = "intent"
    /\ \/ BridgeCollision /\ UNCHANGED mem
       \/ ~BridgeCollision /\ \E r \in Namespaces :
            /\ NamespaceCollision(r) /\ \A q \in 1..(r - 1) : ~NamespaceCollision(q)
            /\ mem' = Intending(1..(r - 1), {})
       \/ ~BridgeCollision /\ (\A r \in Namespaces : ~NamespaceCollision(r)) /\ \E e \in Endpoints :
            /\ EndpointCollision(e) /\ \A q \in 1..(e - 1) : ~EndpointCollision(q)
            /\ mem' = Intending(Namespaces, 1..(e - 1))
    /\ Goto("stop", 0)
    /\ UNCHANGED <<host, disk, counts>>

\* ovs-vsctl add-br with its external_ids: one OVSDB transaction.
AddBridge ==
    /\ pc = "addBridge" /\ k <= NB /\ ~Present(bridge[k]) /\ HasFresh(UsedBridgeIds(k))
    /\ bridge' = [bridge EXCEPT ![k] = Created(Fresh(UsedBridgeIds(k)), TRUE, FALSE)]
    /\ Goto("recordBridge", k)
    /\ UNCHANGED <<extra, netns, link, port, running, ledgers, counts>>

RecordBridge ==
    /\ pc = "recordBridge" /\ Present(bridge[k])
    /\ Save([mem EXCEPT !.br[k] = bridge[k].id])
    /\ Goto("addBridge", k + 1)
    /\ UNCHANGED <<host, counts>>

BridgesDone ==
    /\ pc = "addBridge" /\ k > NB
    /\ pc' = "addNamespace" /\ k' = 0 /\ rest' = Namespaces
    /\ UNCHANGED <<host, ledgers, counts, got, mode, clean, pass>>

\* Routers come out of an unordered_map: any order.
AddNamespace ==
    /\ pc = "addNamespace"
    /\ \E r \in rest :
         /\ ~Present(netns[r]) /\ HasFresh(UsedNamespaceIds(r))
         /\ netns' = [netns EXCEPT ![r] = Created(Fresh(UsedNamespaceIds(r)), FALSE, FALSE)]
         /\ Goto("aliasNamespace", r)
    /\ UNCHANGED <<bridge, extra, link, port, running, ledgers, counts>>

\* The alias of the namespace's loopback is its ownership mark.
AliasNamespace ==
    /\ pc = "aliasNamespace" /\ Present(netns[k])
    /\ netns' = [netns EXCEPT ![k].mark = TRUE]
    /\ Goto("recordNamespace", k)
    /\ UNCHANGED <<bridge, extra, link, port, running, ledgers, counts>>

RecordNamespace ==
    /\ pc = "recordNamespace" /\ Present(netns[k])
    /\ Save([mem EXCEPT !.ns[k] = netns[k].id])
    /\ pc' = "addNamespace" /\ k' = 0 /\ rest' = rest \ {k}
    /\ UNCHANGED <<host, counts, got, mode, clean, pass>>

NamespacesDone ==
    /\ pc = "addNamespace" /\ rest = {}
    /\ Goto("addLink", 1)
    /\ UNCHANGED <<host, ledgers, counts>>

\* ip link add (a veth pair) or ip tuntap add.
AddLink ==
    /\ pc = "addLink" /\ k <= NE /\ ~Present(link[k]) /\ HasFresh(UsedIds(k))
    /\ link' = [link EXCEPT ![k] = Created(Fresh(UsedIds(k)), FALSE, FALSE)]
    /\ Goto("aliasLink", k)
    /\ UNCHANGED <<bridge, extra, netns, port, running, ledgers, counts>>

\* ip link set dev NAME alias, mtu.
AliasLink ==
    /\ pc = "aliasLink" /\ Present(link[k])
    /\ link' = [link EXCEPT ![k].mark = TRUE]
    /\ Goto("addPort", k)
    /\ UNCHANGED <<bridge, extra, netns, port, running, ledgers, counts>>

\* Capture the ifindex, then create Interface and Port with their external_ids
\* and add them to the bridge in one transaction, and capture the UUID.
AddPort ==
    /\ pc = "addPort" /\ Present(link[k])
    /\ ~Present(port[k]) /\ Present(bridge[SwitchOf[k]]) /\ HasFresh(UsedIds(k))
    /\ port' = [port EXCEPT ![k] = Created(Fresh(UsedIds(k)), TRUE, TRUE)]
    /\ got' = [known |-> TRUE, link |-> link[k].id, port |-> Fresh(UsedIds(k))]
    /\ pc' = (IF KindOf[k] = "qemu_tap" THEN "recordEndpoint" ELSE "movePeer")
    /\ UNCHANGED <<bridge, extra, netns, link, running, ledgers, counts,
                   k, rest, mode, clean, pass>>

\* The peer exists while the pair that AddLink created does.
PeerMovable(e) ==
    /\ link[e].ours
    /\ KindOf[e] = "container_veth" => running[e]
    /\ KindOf[e] = "namespace_veth" => Present(netns[RouterOf[e]])

\* ip link set dev PEER netns, then addresses, routes and up.
MovePeer ==
    /\ pc = "movePeer" /\ PeerMovable(k)
    /\ link' = [link EXCEPT ![k].tied = TRUE]
    /\ Goto("recordEndpoint", k)
    /\ UNCHANGED <<bridge, extra, netns, port, running, ledgers, counts>>

RecordEndpoint ==
    /\ pc = "recordEndpoint"
    /\ Save([mem EXCEPT !.ep[k] = got])
    /\ pc' = "addLink" /\ k' = k + 1 /\ got' = NoRecord
    /\ UNCHANGED <<host, counts, rest, mode, clean, pass>>

EndpointsDone ==
    /\ pc = "addLink" /\ k > NE
    /\ Goto("finish", 0)
    /\ UNCHANGED <<host, ledgers, counts>>

\* Flows, management policy, routing and readiness checks, then status ready.
FinishCreate ==
    /\ pc = "finish"
    /\ Save([mem EXCEPT !.status = "ready"])
    /\ Goto("started", 0)
    /\ UNCHANGED <<host, counts>>

\* The rest of startup succeeds and `up` returns ...
UpReturns ==
    /\ pc = "started" /\ Exit
    /\ UNCHANGED <<host, ledgers, counts>>

\* ... or fails (readiness, cancellation) and tears the graph down.
StartupFails ==
    /\ pc = "started" /\ faults < MaxFaults
    /\ faults' = faults + 1
    /\ Goto("stop", 0)
    /\ UNCHANGED <<host, ledgers, crashes, foreign>>

(***************************************************************************)
(* Failure of a creation step: the command's precondition does not hold    *)
(* any more, or it fails or is cancelled for a reason of its own.          *)
(***************************************************************************)
Blocked ==
    \/ pc = "addBridge" /\ k <= NB /\ Present(bridge[k])
    \/ pc = "recordBridge" /\ ~Present(bridge[k])
    \/ pc = "addNamespace" /\ \E r \in rest : Present(netns[r])
    \/ pc \in {"aliasNamespace", "recordNamespace"} /\ ~Present(netns[k])
    \/ pc = "addLink" /\ k <= NE /\ Present(link[k])
    \/ pc = "aliasLink" /\ ~Present(link[k])
    \/ pc = "addPort" /\ (\/ ~Present(link[k]) \/ Present(port[k])
                          \/ ~Present(bridge[SwitchOf[k]]))
    \/ pc = "movePeer" /\ ~PeerMovable(k)

Rollback ==
    /\ pc' = "recoverNamespaces" /\ k' = 1 /\ rest' = {} /\ got' = NoRecord
    /\ mode' = "rollback" /\ clean' = TRUE /\ UNCHANGED pass

CreateBlocked ==
    /\ pc \in CreateSteps /\ Blocked
    /\ Rollback
    /\ UNCHANGED <<host, ledgers, counts>>

CreateFails ==
    /\ pc \in CreateSteps /\ faults < MaxFaults
    /\ faults' = faults + 1
    /\ Rollback
    /\ UNCHANGED <<host, ledgers, crashes, foreign>>
-----------------------------------------------------------------------------
(***************************************************************************)
(* recover_namespaces, used by the rollback and by destroy.                *)
(***************************************************************************)
NamespaceUnrecorded(r) == r \in mem.expNs /\ mem.ns[r] = NoId /\ Present(netns[r])

RecoverNamespace ==
    /\ pc = "recoverNamespaces" /\ k <= NR
    /\ NamespaceUnrecorded(k) /\ netns[k].mark
    /\ Save([mem EXCEPT !.ns[k] = netns[k].id])
    /\ Goto("recoverNamespaces", k + 1)
    /\ UNCHANGED <<host, counts>>

SkipNamespace ==
    /\ pc = "recoverNamespaces" /\ k <= NR /\ ~NamespaceUnrecorded(k)
    /\ Goto("recoverNamespaces", k + 1)
    /\ UNCHANGED <<host, ledgers, counts>>

\* "interrupted namespace lacks ownership proof; state retained".  Thrown out
\* of the rollback it lands in `stop`, thrown out of destroy it ends `down`.
RefuseNamespace ==
    /\ pc = "recoverNamespaces" /\ k <= NR
    /\ NamespaceUnrecorded(k) /\ ~netns[k].mark
    /\ IF mode = "rollback"
       THEN Goto("stop", 0) /\ UNCHANGED ledgers
       ELSE Exit /\ mem' = disk /\ UNCHANGED disk
    /\ UNCHANGED <<host, counts>>

NamespacesRecovered ==
    /\ pc = "recoverNamespaces" /\ k > NR
    /\ Goto(IF mode = "rollback" THEN "discover" ELSE "validate", 0)
    /\ UNCHANGED <<host, ledgers, counts>>

(***************************************************************************)
(* Rollback: take every unrecorded endpoint that left a link or a port     *)
(* into the ledger with whatever identities it has, and marked bridges.    *)
(***************************************************************************)
Discovered(L) ==
    [L EXCEPT
       !.br = [b \in Bridges |->
                 IF L.br[b] = NoId /\ bridge[b].mark THEN bridge[b].id ELSE L.br[b]],
       !.ep = [e \in Endpoints |->
                 IF e \in L.expEp /\ ~L.ep[e].known /\ (Present(link[e]) \/ Present(port[e]))
                 THEN [known |-> TRUE, link |-> link[e].id, port |-> port[e].id]
                 ELSE L.ep[e]]]

Discover ==
    /\ pc = "discover"
    /\ mem' = Discovered(mem)
    /\ Goto("deleteEndpoint", NE)
    /\ UNCHANGED <<host, disk, counts>>
-----------------------------------------------------------------------------
(***************************************************************************)
(* `run down`, and `stop` after a failed `up`: a validating destroy, stop  *)
(* the application containers, then the destroy that deletes; the two are  *)
(* skipped while no infrastructure is expected.                            *)
(***************************************************************************)
Down ==
    /\ pc = "idle" /\ Loadable(disk) /\ disk.intent
    /\ mem' = disk
    /\ Goto("stop", 0)
    /\ UNCHANGED <<host, disk, counts>>

Stop ==
    /\ pc = "stop"
    /\ Save(mem)
    /\ IF mem.intent
       THEN /\ pc' = "recoverNamespaces" /\ k' = 1 /\ rest' = {} /\ got' = NoRecord
            /\ mode' = "destroy" /\ clean' = TRUE /\ pass' = 1
       ELSE Goto("stopContainers", 0)
    /\ UNCHANGED <<host, counts>>

\* An interrupted creation is adopted only with both ownership proofs.
AdoptionRefused(L) ==
    \/ \E b \in Bridges : L.br[b] = NoId /\ Present(bridge[b]) /\ ~bridge[b].mark
    \/ \E e \in L.expEp :
         /\ ~L.ep[e].known /\ (Present(link[e]) \/ Present(port[e]))
         /\ ~(Present(link[e]) /\ link[e].mark /\ Present(port[e]) /\ port[e].mark)

\* Every recorded resource that exists must be the recorded one; a recorded
\* TAP must exist as well (tap_owner_matches is asked unconditionally).
ValidationRefused(L) ==
    \/ \E b \in Bridges :
         L.br[b] # NoId /\ Present(bridge[b]) /\ ~BridgeCompleteSetOwned(L, b)
    \/ \E e \in Endpoints :
         /\ L.ep[e].known
         /\ \/ Present(link[e]) /\ ~HostEndpointOwned(L, e)
            \/ Present(port[e]) /\ port[e].id = L.ep[e].port /\ ~OvsEndpointOwned(L, e)
            \/ ~NamesAbsentOrRecorded(L, e)
            \/ KindOf[e] = "qemu_tap" /\ ~Present(link[e])
    \/ \E r \in Namespaces :
         L.ns[r] # NoId /\ Present(netns[r]) /\ ~NamespaceOwned(L, r)

DestroyRefused == AdoptionRefused(mem) \/ ValidationRefused(Discovered(mem))

\* First pass: nothing but the ledger copy in memory changes.
ValidateOnly ==
    /\ pc = "validate" /\ pass = 1 /\ ~DestroyRefused
    /\ mem' = Discovered(mem)
    /\ Goto("stopContainers", 0)
    /\ UNCHANGED <<host, disk, counts>>

\* Second pass: persist "destroying" and start deleting.
BeginDestroy ==
    /\ pc = "validate" /\ pass = 2 /\ ~DestroyRefused
    /\ Save([Discovered(mem) EXCEPT !.status = "destroying"])
    /\ Goto("deleteEndpoint", NE)
    /\ UNCHANGED <<host, counts>>

RefuseDestroy ==
    /\ pc = "validate" /\ DestroyRefused
    /\ Exit
    /\ mem' = disk
    /\ UNCHANGED <<host, disk, counts>>

\* docker stop of every application container takes its veths with it.
StopContainers ==
    /\ pc = "stopContainers"
    /\ running' = [e \in Endpoints |-> FALSE]
    /\ link' = LinksWithoutContainers(Endpoints)
    /\ IF mem.intent
       THEN pc' = "recoverNamespaces" /\ k' = 1 /\ pass' = 2
       ELSE pc' = "finishStop" /\ k' = 0 /\ UNCHANGED pass
    /\ UNCHANGED <<bridge, extra, netns, port, ledgers, counts, rest, got, mode, clean>>

\* With the infrastructure gone `stop` removes the containers and returns.
FinishStop ==
    /\ pc = "finishStop"
    /\ Save([mem EXCEPT !.status = "destroying"])
    /\ Exit
    /\ UNCHANGED <<host, counts>>
-----------------------------------------------------------------------------
(***************************************************************************)
(* Deletion, in reverse order.  The rollback notes what it could not       *)
(* delete and carries on, destroy throws and keeps the ledger.             *)
(***************************************************************************)
\* Mutant: deleting a port that is gone already fails.
PortStillThere(e) ==
    NamesAbsentOrRecorded(mem, e) /\ mem.br[SwitchOf[e]] # NoId /\ OvsEndpointOwned(mem, e)

\* delete_owned_endpoint up to and including the Port transaction.  With an
\* empty recorded UUID the lookup "succeeds" ("" = "") and ownership fails.
PortDeletable(e) ==
    LET b == SwitchOf[e] IN
    /\ NamesAbsentOrRecorded(mem, e)
    /\ mem.br[b] # NoId
    /\ mem.ep[e].port # NoId
    /\ Present(port[e]) => OvsEndpointOwned(mem, e) /\ bridge[b].id = mem.br[b]

DeletePort ==
    /\ pc = "deleteEndpoint" /\ k > 0 /\ mem.ep[k].known /\ PortDeletable(k)
    /\ port' = [port EXCEPT ![k] = Absent]
    /\ Goto("checkLink", k)
    /\ UNCHANGED <<bridge, extra, netns, link, running, ledgers, counts>>

SkipEndpoint ==
    /\ \/ pc = "deleteEndpoint" /\ k > 0 /\ ~mem.ep[k].known
       \/ pc = "checkLink" /\ ~Present(link[k])
    /\ Goto("deleteEndpoint", k - 1)
    /\ UNCHANGED <<host, ledgers, counts>>

CheckLink ==
    /\ pc = "checkLink" /\ HostEndpointOwned(mem, k)
    /\ Goto("deleteLink", k)
    /\ UNCHANGED <<host, ledgers, counts>>

\* ip link delete dev NAME / ip tuntap delete dev NAME: by name.
DeleteLink ==
    /\ pc = "deleteLink" /\ Present(link[k])
    /\ link' = [link EXCEPT ![k] = Absent]
    /\ Goto("deleteEndpoint", k - 1)
    /\ UNCHANGED <<bridge, extra, netns, port, running, ledgers, counts>>

EndpointsDeleted ==
    /\ pc = "deleteEndpoint" /\ k = 0
    /\ pc' = "checkNamespace" /\ rest' = {r \in Namespaces : mem.ns[r] # NoId}
    /\ UNCHANGED <<host, ledgers, counts, k, got, mode, clean, pass>>

\* The recorded order is the creation order, which is arbitrary.
CheckNamespace ==
    /\ pc = "checkNamespace"
    /\ \E r \in rest :
         \/ /\ ~Present(netns[r])
            /\ rest' = rest \ {r} /\ UNCHANGED <<pc, k>>
         \/ /\ NamespaceOwned(mem, r)
            /\ pc' = "deleteNamespace" /\ k' = r /\ UNCHANGED rest
    /\ UNCHANGED <<host, ledgers, counts, got, mode, clean, pass>>

\* ip netns delete NAME: by name.
DeleteNamespace ==
    /\ pc = "deleteNamespace" /\ Present(netns[k])
    /\ netns' = [netns EXCEPT ![k] = Absent]
    /\ link' = LinksWithoutNamespace(k)
    /\ pc' = "checkNamespace" /\ k' = 0 /\ rest' = rest \ {k}
    /\ UNCHANGED <<bridge, extra, port, running, ledgers, counts, got, mode, clean, pass>>

NamespacesDeleted ==
    /\ pc = "checkNamespace" /\ rest = {}
    /\ Goto("deleteBridge", NB)
    /\ UNCHANGED <<host, ledgers, counts>>

\* Mutant: the deletion does not wait for the bridge to be empty.
AnyPorts(b) == TRUE

\* The transaction waits until the row has our marks and only its internal port.
OnlyInternalPort(b) ==
    ~extra[b] /\ \A e \in Endpoints : SwitchOf[e] = b => ~port[e].tied

DeleteBridge ==
    /\ pc = "deleteBridge" /\ k > 0
    /\ mem.br[k] # NoId /\ BridgeOwned(mem, k) /\ OnlyInternalPort(k)
    /\ bridge' = [bridge EXCEPT ![k] = Absent]
    /\ Goto("deleteBridge", k - 1)
    /\ UNCHANGED <<extra, netns, link, port, running, ledgers, counts>>

SkipBridge ==
    /\ pc = "deleteBridge" /\ k > 0
    /\ mem.br[k] = NoId \/ ~Present(bridge[k])
    /\ Goto("deleteBridge", k - 1)
    /\ UNCHANGED <<host, ledgers, counts>>

BridgesDeleted ==
    /\ pc = "deleteBridge" /\ k = 0
    /\ Goto("clear", 0)
    /\ UNCHANGED <<host, ledgers, counts>>

\* A deletion is refused, or the command under way finds its object gone ...
DeletionRefused(r) ==
    \/ pc = "deleteEndpoint" /\ k > 0 /\ mem.ep[k].known /\ ~PortDeletable(k)
    \/ pc = "checkLink" /\ Present(link[k]) /\ ~HostEndpointOwned(mem, k)
    \/ pc = "deleteLink" /\ ~Present(link[k])
    \/ pc = "checkNamespace" /\ Present(netns[r]) /\ ~NamespaceOwned(mem, r)
    \/ pc = "deleteNamespace" /\ ~Present(netns[k])
    \/ pc = "deleteBridge" /\ k > 0 /\ mem.br[k] # NoId /\ Present(bridge[k])
         /\ ~(BridgeOwned(mem, k) /\ OnlyInternalPort(k))

\* ... or the command itself fails.
DeletionCommand ==
    \/ pc = "deleteEndpoint" /\ k > 0 /\ mem.ep[k].known /\ PortDeletable(k) /\ Present(port[k])
    \/ pc \in {"deleteLink", "deleteNamespace"}
    \/ pc = "deleteBridge" /\ k > 0 /\ mem.br[k] # NoId /\ BridgeOwned(mem, k)

NamespaceSteps == {"checkNamespace", "deleteNamespace"}

\* In the rollback: retain the ledger entry and go on with the next one.
KeepGoing(r) ==
    /\ clean' = FALSE
    /\ UNCHANGED <<mem, disk, got, mode, pass>>
    /\ \/ /\ pc \in {"deleteEndpoint", "checkLink", "deleteLink"}
          /\ pc' = "deleteEndpoint" /\ k' = k - 1 /\ UNCHANGED rest
       \/ /\ pc \in NamespaceSteps
          /\ pc' = "checkNamespace" /\ k' = 0
          /\ rest' = rest \ {IF pc = "checkNamespace" THEN r ELSE k}
       \/ /\ pc = "deleteBridge" /\ k' = k - 1 /\ UNCHANGED <<pc, rest>>

NotDeleted(r) ==
    /\ IF mode = "rollback" THEN KeepGoing(r) ELSE Exit /\ mem' = disk /\ UNCHANGED disk
    /\ UNCHANGED host

DeletionBlocked ==
    /\ \E r \in (IF pc = "checkNamespace" THEN rest ELSE {NoId}) :
          DeletionRefused(r) /\ NotDeleted(r)
    /\ UNCHANGED counts

DeletionFails ==
    /\ faults < MaxFaults /\ faults' = faults + 1
    /\ DeletionCommand /\ NotDeleted(NoId)
    /\ UNCHANGED <<crashes, foreign>>

\* Mutant: the ledger is cleared whatever the rollback had to leave behind.
RollbackForgets ==
    /\ pc = "clear" /\ mode = "rollback"
    /\ Save(ClearedLedger(mem))
    /\ Goto("stop", 0)
    /\ UNCHANGED <<host, counts>>

\* cleanup_complete: forget the infrastructure; otherwise save what is left.
RollbackDone ==
    /\ pc = "clear" /\ mode = "rollback"
    /\ Save(IF clean THEN ClearedLedger(mem) ELSE mem)
    /\ Goto("stop", 0)
    /\ UNCHANGED <<host, counts>>

DestroyDone ==
    /\ pc = "clear" /\ mode = "destroy"
    /\ Save(ClearedLedger(mem))
    /\ Goto("finishStop", 0)
    /\ UNCHANGED <<host, counts>>
-----------------------------------------------------------------------------
(***************************************************************************)
(* Disturbances.                                                           *)
(***************************************************************************)
\* SIGKILL, power loss: the lock is released with the process.
Crash ==
    /\ pc # "idle" /\ crashes < MaxCrashes
    /\ crashes' = crashes + 1
    /\ Exit /\ mem' = disk
    /\ UNCHANGED <<host, disk, faults, foreign>>

ContainerExit ==
    /\ \E e \in Endpoints :
         /\ running[e]
         /\ running' = [running EXCEPT ![e] = FALSE]
         /\ link' = LinksWithoutContainers({e})
    /\ UNCHANGED <<bridge, extra, netns, port, ledgers, process, counts>>

\* Somebody else's step on the host, outside the windows that are not exposed.
ForeignStep ==
    /\ foreign < MaxForeign /\ foreign' = foreign + 1
    /\ pc \in NameWindows => pc \in Exposed
    /\ UNCHANGED <<running, ledgers, process, crashes, faults>>

\* A replacement carries a copy of our marks only where the resource it
\* replaces is recorded: a mark names the random owner token and the
\* resource, and is not forged from the mark of another one.
ForeignBridge ==
    /\ ForeignStep
    /\ \E b \in Bridges :
         \/ /\ ~Present(bridge[b]) /\ HasFresh(UsedBridgeIds(b))
            /\ \E m \in {FALSE, disk.br[b] # NoId} :
                 bridge' = [bridge EXCEPT ![b] = Stranger(Fresh(UsedBridgeIds(b)), m)]
            /\ UNCHANGED <<extra, port>>
         \/ /\ Present(bridge[b])
            /\ bridge' = [bridge EXCEPT ![b] = Absent]
            /\ extra' = [extra EXCEPT ![b] = FALSE]
            /\ port' = PortsWithoutBridge(b)
         \/ /\ Present(bridge[b])
            /\ extra' = [extra EXCEPT ![b] = ~extra[b]]
            /\ UNCHANGED <<bridge, port>>
    /\ UNCHANGED <<netns, link>>

ForeignNamespace ==
    /\ ForeignStep
    /\ \E r \in Namespaces :
         \/ /\ ~Present(netns[r]) /\ HasFresh(UsedNamespaceIds(r))
            /\ \E m \in {FALSE, disk.ns[r] # NoId} :
                 netns' = [netns EXCEPT ![r] = Stranger(Fresh(UsedNamespaceIds(r)), m)]
            /\ UNCHANGED link
         \/ /\ Present(netns[r])
            /\ netns' = [netns EXCEPT ![r] = Absent]
            /\ link' = LinksWithoutNamespace(r)
    /\ UNCHANGED <<bridge, extra, port>>

ForeignEndpoint ==
    /\ ForeignStep
    /\ \E e \in Endpoints :
         \/ /\ ~Present(link[e]) /\ HasFresh(UsedIds(e))
            /\ \E m \in {FALSE, disk.ep[e].link # NoId} :
                 link' = [link EXCEPT ![e] = Stranger(Fresh(UsedIds(e)), m)]
            /\ UNCHANGED port
         \/ /\ Present(link[e])
            /\ link' = [link EXCEPT ![e] = Absent]
            /\ UNCHANGED port
         \/ /\ ~Present(port[e]) /\ HasFresh(UsedIds(e))
            /\ \E m \in {FALSE, disk.ep[e].port # NoId} :
                 port' = [port EXCEPT ![e] = Stranger(Fresh(UsedIds(e)), m)]
            /\ UNCHANGED link
         \/ /\ Present(port[e])
            /\ port' = [port EXCEPT ![e] = Absent]
            /\ UNCHANGED link
    /\ UNCHANGED <<bridge, extra, netns>>
-----------------------------------------------------------------------------
Create ==
    \/ RecordIntent \/ RefuseCollision
    \/ AddBridge \/ RecordBridge \/ BridgesDone
    \/ AddNamespace \/ AliasNamespace \/ RecordNamespace \/ NamespacesDone
    \/ AddLink \/ AliasLink \/ AddPort \/ MovePeer \/ RecordEndpoint \/ EndpointsDone
    \/ FinishCreate \/ UpReturns \/ StartupFails
    \/ CreateBlocked \/ CreateFails

Recover ==
    \/ RecoverNamespace \/ SkipNamespace \/ RefuseNamespace \/ NamespacesRecovered
    \/ Discover
    \/ Stop \/ ValidateOnly \/ BeginDestroy \/ RefuseDestroy \/ StopContainers
    \/ FinishStop

Delete ==
    \/ DeletePort \/ SkipEndpoint \/ CheckLink \/ DeleteLink \/ EndpointsDeleted
    \/ CheckNamespace \/ DeleteNamespace \/ NamespacesDeleted
    \/ DeleteBridge \/ SkipBridge \/ BridgesDeleted
    \/ DeletionBlocked \/ DeletionFails
    \/ RollbackDone \/ DestroyDone

Foreign == ForeignBridge \/ ForeignNamespace \/ ForeignEndpoint

Next == Up \/ Down \/ Create \/ Recover \/ Delete \/ Crash \/ ContainerExit \/ Foreign

Spec == Init /\ [][Next]_vars

\* A process that runs goes on running, and the operator repeats `down`
\* while the ledger still names infrastructure.
FairSpec == Spec /\ WF_vars(Create \/ Recover \/ Delete) /\ WF_vars(Down)
-----------------------------------------------------------------------------
(***************************************************************************)
(* Properties.                                                             *)
(***************************************************************************)
\* Every variable stays in its type: the host objects, both ledger copies and
\* the control state of the process (lifecycle_coordinator.cpp).
TypeOK ==
    /\ bridge \in [Bridges -> Object] /\ extra \in [Bridges -> BOOLEAN]
    /\ netns \in [Namespaces -> Object]
    /\ link \in [Endpoints -> Object] /\ port \in [Endpoints -> Object]
    /\ running \in [Endpoints -> BOOLEAN]
    /\ mem \in Ledger /\ disk \in Ledger
    /\ pc \in Steps /\ k \in Nat /\ rest \subseteq Namespaces /\ got \in EndpointRecord
    /\ mode \in {"rollback", "destroy"} /\ clean \in BOOLEAN /\ pass \in {1, 2}
    /\ crashes \in Nat /\ faults \in Nat /\ foreign \in Nat

\* Nothing GraphX created exists while the ledger on disk names no
\* infrastructure: intents precede mutations, and the rollback and destroy
\* clear the ledger only when everything is gone, whatever failed, crashed or
\* was replaced on the way (save_state at the end of create's preparation,
\* cleanup_complete, clear_infrastructure).
NoOrphan ==
    ~disk.intent =>
        /\ \A b \in Bridges : ~bridge[b].ours
        /\ \A r \in Namespaces : ~netns[r].ours
        /\ \A e \in Endpoints : ~link[e].ours /\ ~port[e].ours

\* No step of GraphX removes or alters an object somebody else created, or a
\* bridge that carries somebody else's port: every deletion rests on the
\* recorded identity and the ownership mark (delete_owned_endpoint,
\* delete_owned_namespace, delete_owned_bridge).
Kept(o, p) == Present(o) /\ ~o.ours => p = o
ForeignPreserved ==
    [][ foreign' = foreign =>
          /\ \A b \in Bridges : Kept(bridge[b], bridge'[b])
          /\ \A b \in Bridges : extra[b] => extra'[b] /\ bridge'[b] = bridge[b]
          /\ \A r \in Namespaces : Kept(netns[r], netns'[r])
          /\ \A e \in Endpoints : Kept(link[e], link'[e]) /\ Kept(port[e], port'[e]) ]_vars

\* An object that passes the ownership check of a ledger copy was created by
\* GraphX: neither adoption after a crash nor the rollback's discovery nor a
\* replacement that copies the marks lets a foreign object pass.
IdentifiesOurs(L) ==
    /\ \A b \in Bridges : BridgeOwned(L, b) => bridge[b].ours
    /\ \A r \in Namespaces : NamespaceOwned(L, r) => netns[r].ours
    /\ \A e \in Endpoints : /\ HostEndpointOwned(L, e) => link[e].ours
                            /\ OvsEndpointOwned(L, e) => port[e].ours
RecordsIdentifyOurs == IdentifiesOurs(mem) /\ IdentifiesOurs(disk)

\* A cleanup that passed its validation and was interrupted passes it again:
\* while nobody else touched the host, a ledger in status "destroying" is never
\* refused (the validation before "Refuse the entire cleanup before the first
\* mutation when any recorded resource has been replaced").
CleanupReplays ==
    pc = "validate" /\ mem.status = "destroying" /\ foreign = 0 => ~DestroyRefused

\* Every ledger the program saves is one it accepts when it loads it again.
LedgerLoadable == Loadable(disk)

\* The states in which an interrupted graph can be cleaned up: what is not
\* recorded carries every ownership proof or does not exist.
Recoverable ==
    /\ Loadable(disk)
    /\ \A r \in disk.expNs : disk.ns[r] = NoId /\ Present(netns[r]) => netns[r].mark
    /\ ~AdoptionRefused(disk)
    /\ \A e \in Endpoints :
          KindOf[e] = "qemu_tap" /\ disk.ep[e].known => Present(link[e])

Undisturbed ==
    /\ foreign = 0 /\ crashes = MaxCrashes /\ faults = MaxFaults
    /\ \A e \in Endpoints : running[e] /\ link[e].tied => disk.ep[e].known

\* Repeating `down` finishes an interrupted cleanup from every recoverable
\* state once crashes and failures are over, unless an endpoint that is not
\* recorded yet depends on a container that may still exit.
CleanupCompletes ==
    (pc = "idle" /\ Undisturbed /\ Recoverable) ~> ~disk.intent
=============================================================================
