---------------------------- MODULE OvsInvariant ----------------------------
(***************************************************************************)
(* The inductive invariants behind the theorems about OvsLifecycle: what   *)
(* each point of the program knows about the host and the ledger.          *)
(***************************************************************************)
EXTENDS OvsLifecycle

\* The index of each step is in range.
IndexOK ==
    /\ pc \in {"addBridge", "addLink", "recoverNamespaces"} => k >= 1
    /\ pc = "recordBridge" => k \in Bridges
    /\ pc \in {"aliasNamespace", "recordNamespace", "deleteNamespace"} => k \in Namespaces
    /\ pc \in {"aliasLink", "addPort", "movePeer", "recordEndpoint", "checkLink", "deleteLink"}
         => k \in Endpoints
    /\ pc = "deleteEndpoint" => k <= NE
    /\ pc = "deleteBridge" => k <= NB

TypeInv == TypeOK /\ IndexOK

Working == CreateSteps \cup DeleteSteps
             \cup {"started", "recoverNamespaces", "discover", "validate"}

\* Two ledger copies with the same intents.
SameIntent == mem.intent = disk.intent /\ mem.expNs = disk.expNs /\ mem.expEp = disk.expEp

\* Only what the ledger on disk intends is ours.
PlannedOnly ==
    /\ \A r \in Namespaces : netns[r].ours => r \in disk.expNs
    /\ \A e \in Endpoints : link[e].ours \/ port[e].ours => e \in disk.expEp

\* When the intent is on disk, and what the two ledger copies share; destroy
\* throws at the first refusal.
ControlInv ==
    /\ pc \in {"idle", "intent", "started"} => mem = disk
    /\ pc = "intent" => ~disk.intent
    /\ pc \in Working => disk.intent /\ SameIntent
    /\ pc \in CreateSteps => mem.expNs = Namespaces /\ mem.expEp = Endpoints
    /\ pc = "stop" /\ disk.intent => SameIntent
    /\ pc = "stopContainers" => SameIntent /\ (~mem.intent => mem = disk)
    /\ pc = "finishStop" => ~mem.intent /\ mem = disk
    /\ mode = "destroy" => clean

\* ours is set on objects that exist, and OVS rows are born with their marks.
OursExist ==
    /\ \A b \in Bridges : bridge[b].ours => Present(bridge[b]) /\ bridge[b].mark
    /\ \A r \in Namespaces : netns[r].ours => Present(netns[r])
    /\ \A e \in Endpoints : /\ link[e].ours => Present(link[e])
                            /\ port[e].ours => Present(port[e])

Gone(e) == ~link[e].ours /\ ~port[e].ours

\* Once recovered, discovered or adopted, nothing of ours is unrecorded.
NamespacesCovered ==
    /\ pc = "recoverNamespaces" =>
         \A r \in Namespaces : r < k /\ mem.ns[r] = NoId => ~netns[r].ours
    /\ pc \in DeleteSteps \cup {"discover", "validate"} =>
         \A r \in Namespaces : mem.ns[r] = NoId => ~netns[r].ours
Covered ==
    pc \in DeleteSteps =>
        /\ \A b \in Bridges : mem.br[b] = NoId => ~bridge[b].ours
        /\ \A e \in Endpoints : ~mem.ep[e].known => Gone(e)

\* What a cleanup that met no refusal has already removed.
EndpointsGone ==
    clean =>
      /\ pc \in {"deleteEndpoint", "checkLink", "deleteLink"} =>
           \A e \in Endpoints : e > k => Gone(e)
      /\ pc \in {"checkLink", "deleteLink"} => ~port[k].ours
      /\ pc \in {"checkNamespace", "deleteNamespace", "deleteBridge", "clear"} =>
           \A e \in Endpoints : Gone(e)
NamespacesGone ==
    clean =>
      /\ pc \in {"checkNamespace", "deleteNamespace"} =>
           \A r \in Namespaces : r \notin rest => ~netns[r].ours
      /\ pc \in {"deleteBridge", "clear"} => \A r \in Namespaces : ~netns[r].ours
BridgesGone ==
    clean =>
      /\ pc = "deleteBridge" => \A b \in Bridges : b > k => ~bridge[b].ours
      /\ pc = "clear" => \A b \in Bridges : ~bridge[b].ours

Progress == EndpointsGone /\ NamespacesGone /\ BridgesGone

OrphanInv ==
    TypeInv /\ ControlInv /\ OursExist /\ PlannedOnly /\ NamespacesCovered /\ Covered /\ Progress /\ NoOrphan
-----------------------------------------------------------------------------
\* The copy in memory extends the one on disk.
DiskInMem ==
    /\ disk.intent => mem.intent
    /\ disk.expNs \subseteq mem.expNs /\ disk.expEp \subseteq mem.expEp
    /\ \A b \in Bridges : disk.br[b] # NoId => mem.br[b] = disk.br[b]
    /\ \A r \in Namespaces : disk.ns[r] # NoId => mem.ns[r] = disk.ns[r]
    /\ \A e \in Endpoints : disk.ep[e].known => mem.ep[e] = disk.ep[e]

WellFormed(L) ==
    /\ \A e \in Endpoints : ~L.ep[e].known => L.ep[e].link = NoId /\ L.ep[e].port = NoId
    /\ ~L.intent => /\ L.expNs = {} /\ L.expEp = {}
                    /\ \A b \in Bridges : L.br[b] = NoId
                    /\ \A r \in Namespaces : L.ns[r] = NoId
                    /\ \A e \in Endpoints : ~L.ep[e].known

\* Under a free name there is neither a mark nor a port.
Bare ==
    /\ \A b \in Bridges : ~Present(bridge[b]) => ~bridge[b].mark /\ ~extra[b]
    /\ \A r \in Namespaces : ~Present(netns[r]) => ~netns[r].mark
    /\ \A e \in Endpoints : /\ ~Present(link[e]) => ~link[e].mark
                            /\ ~Present(port[e]) => ~port[e].mark

\* While an intent stands, marks on what is not recorded on disk are our own:
\* there was nothing to copy them from.
MarksAreOurs ==
    mem.intent =>
        /\ \A b \in Bridges : disk.br[b] = NoId /\ bridge[b].mark => bridge[b].ours
        /\ \A r \in Namespaces :
              r \in mem.expNs /\ disk.ns[r] = NoId /\ netns[r].mark => netns[r].ours
        /\ \A e \in Endpoints : e \in mem.expEp /\ ~disk.ep[e].known =>
              (link[e].mark => link[e].ours) /\ (port[e].mark => port[e].ours)

\* What sits inside another object was put there by us.
TiedAreOurs == \A e \in Endpoints : /\ link[e].tied => link[e].ours
                                    /\ port[e].tied => port[e].ours

\* With no window exposed, the name still denotes the object it denoted.
WindowsSafe ==
    /\ pc \in {"aliasLink", "deleteLink"} /\ Present(link[k]) => link[k].ours
    /\ pc \in {"aliasNamespace", "deleteNamespace"} /\ Present(netns[k]) => netns[k].ours

\* What creation has not reached yet is not recorded.
CreationOrder ==
    /\ pc \in {"addBridge", "recordBridge"} =>
         \A b \in Bridges : b >= k => mem.br[b] = NoId
    /\ pc \in {"addBridge", "recordBridge"} =>
         \A r \in Namespaces : mem.ns[r] = NoId
    /\ pc \in {"addNamespace", "aliasNamespace", "recordNamespace"} =>
         \A r \in rest : mem.ns[r] = NoId
    /\ pc \in {"aliasNamespace", "recordNamespace"} => k \in rest
    /\ pc \in {"addBridge", "recordBridge", "addNamespace", "aliasNamespace", "recordNamespace"} =>
         \A e \in Endpoints : ~mem.ep[e].known
    /\ pc \in {"addLink", "aliasLink", "addPort", "movePeer", "recordEndpoint"} =>
         \A e \in Endpoints : e >= k => ~mem.ep[e].known

\* The identities captured during creation denote our objects.
CapturedOurs ==
    pc \in {"movePeer", "recordEndpoint"} =>
        /\ got.known
        /\ Present(link[k]) /\ link[k].id = got.link /\ link[k].mark => link[k].ours
        /\ Present(port[k]) /\ port[k].id = got.port /\ port[k].mark => port[k].ours

IdentityInv ==
    /\ TypeInv /\ ControlInv /\ OursExist
    /\ DiskInMem /\ WellFormed(mem) /\ WellFormed(disk) /\ CreationOrder
    /\ Bare /\ TiedAreOurs /\ MarksAreOurs /\ IdentifiesOurs(mem)
    /\ WindowsSafe /\ CapturedOurs
-----------------------------------------------------------------------------
\* The topologies without a TAP: what a container or a router attaches is a veth.
NoTaps == \A e \in Endpoints : KindOf[e] # "qemu_tap"

\* While nobody else touched the host, everything under our names is ours, and
\* no port of somebody else sits on a bridge.
NobodyElse ==
    foreign = 0 =>
        /\ \A b \in Bridges : ~extra[b] /\ (Present(bridge[b]) => bridge[b].ours)
        /\ \A r \in Namespaces : Present(netns[r]) => netns[r].ours
        /\ \A e \in Endpoints : /\ Present(link[e]) => link[e].ours
                                /\ Present(port[e]) => port[e].ours
                                /\ port[e].tied => Present(port[e])

\* What exists is recorded in L with its identity, and carries its mark.
Settled(L) ==
    /\ \A b \in Bridges :
          Present(bridge[b]) => L.br[b] = bridge[b].id /\ bridge[b].mark
    /\ \A r \in Namespaces :
          Present(netns[r]) => L.ns[r] = netns[r].id /\ netns[r].mark
    /\ \A e \in Endpoints : Present(link[e]) =>
          L.ep[e].known /\ L.ep[e].link = link[e].id /\ link[e].mark
    /\ \A e \in Endpoints : Present(port[e]) =>
          L.ep[e].known /\ L.ep[e].port = port[e].id /\ port[e].mark

\* A ledger copy of a cleanup that has begun and not ended ...
Interrupted(L) == L.intent /\ L.status = "destroying"

\* ... was validated against the host.
Replayable(L) == foreign = 0 /\ Interrupted(L) => Settled(L)

\* Creation writes its status before it touches the host.
CreatingStatus == pc \in CreateSteps => mem.status = "creating" /\ disk.status = "creating"

ReplayInv == OrphanInv /\ NobodyElse /\ CreatingStatus /\ Replayable(mem) /\ Replayable(disk)
=============================================================================
