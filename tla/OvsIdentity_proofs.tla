-------------------------- MODULE OvsIdentity_proofs --------------------------
(***************************************************************************)
(* GraphX never takes somebody else's object for its own and never removes *)
(* or alters one, provided nobody acts in the name windows: IdentityInv is *)
(* inductive when Exposed = {}.  And while nobody else acts at all, a      *)
(* cleanup that was interrupted is accepted again: ReplayInv is inductive. *)
(***************************************************************************)
EXTENDS OvsOrphan_proofs

(***************************************************************************)
(* What any step may do to one host object, o becoming p.                  *)
(***************************************************************************)
Changed(o, p, used, recorded) ==
    \/ p = o
    \/ p.ours
    \/ ~p.tied /\ (p.mark => recorded) /\ (Present(p) => p.id \notin used)
               /\ (~Present(p) => ~p.mark)

HostChange ==
    /\ \A b \in Bridges : Changed(bridge[b], bridge'[b], UsedBridgeIds(b), disk.br[b] # NoId)
    /\ \A r \in Namespaces : Changed(netns[r], netns'[r], UsedNamespaceIds(r), disk.ns[r] # NoId)
    /\ \A e \in Endpoints :
          /\ Changed(link[e], link'[e], UsedIds(e), disk.ep[e].link # NoId)
          /\ Changed(port[e], port'[e], UsedIds(e), disk.ep[e].port # NoId)

HostStep == Adding \/ Altering \/ ContainerExit \/ Foreign

\* Vanishing is a permitted change, whatever vanished.
LEMMA AbsentChange == \A o, used, recorded : Changed(o, Absent, used, recorded)
BY DEF Changed, Absent, Present

\* So is no change at all.
LEMMA SameChange == \A o, used, recorded : Changed(o, o, used, recorded)
BY DEF Changed

\* What the creation steps put on the host is a permitted change.
LEMMA CreatedChange ==
  ASSUME NEW o, NEW used, NEW recorded, HasFresh(used)
  PROVE  /\ Changed(o, Created(Fresh(used), TRUE, FALSE), used, recorded)
         /\ Changed(o, Created(Fresh(used), FALSE, FALSE), used, recorded)
         /\ Changed(o, Created(Fresh(used), TRUE, TRUE), used, recorded)
BY FreshId DEF Changed, Created, Present

\* So is a stranger with a fresh identity, marked only where a record is on disk.
LEMMA StrangerChange ==
  ASSUME NEW o, NEW used, NEW recorded, HasFresh(used), NEW m \in BOOLEAN, m => recorded
  PROVE  Changed(o, Stranger(Fresh(used), m), used, recorded)
BY FreshId DEF Changed, Stranger, Present

\* add-br, netns add, link add and add-port change the host as permitted.
LEMMA AddingChanges ==
  ASSUME TypeInv, Adding
  PROVE  HostChange
<1> USE DEF TypeInv, TypeOK, HostChange
<1>1. CASE AddBridge
  BY <1>1, SameChange, CreatedChange DEF AddBridge
<1>2. CASE AddNamespace
  <2>1. PICK r \in Namespaces :
          /\ HasFresh(UsedNamespaceIds(r))
          /\ netns' = [netns EXCEPT ![r] = Created(Fresh(UsedNamespaceIds(r)), FALSE, FALSE)]
    BY <1>2 DEF AddNamespace
  <2>2. \A s \in Namespaces : Changed(netns[s], netns'[s], UsedNamespaceIds(s), disk.ns[s] # NoId)
    BY <2>1, SameChange, CreatedChange
  <2>3. QED
    BY <1>2, <2>2, SameChange DEF AddNamespace
<1>3. CASE AddLink
  BY <1>3, SameChange, CreatedChange DEF AddLink
<1>4. CASE AddPort
  BY <1>4, SameChange, CreatedChange DEF AddPort
<1>5. QED
  BY <1>1, <1>2, <1>3, <1>4 DEF Adding

\* So do the alias, move and deletion commands, while the name windows are safe.
LEMMA AlteringChanges ==
  ASSUME TypeInv, WindowsSafe, Altering
  PROVE  HostChange
<1> USE DEF TypeInv, TypeOK, HostChange
<1>1. CASE AliasNamespace
  <2>1. netns[k].ours /\ k \in Namespaces
    BY <1>1 DEF AliasNamespace, WindowsSafe, IndexOK
  <2>2. netns'[k].ours
    BY <1>1, <2>1 DEF AliasNamespace, Object, Present
  <2>3. \A r \in Namespaces : r # k => netns'[r] = netns[r]
    BY <1>1 DEF AliasNamespace
  <2>4. \A r \in Namespaces : Changed(netns[r], netns'[r], UsedNamespaceIds(r), disk.ns[r] # NoId)
    BY <2>2, <2>3 DEF Changed
  <2>5. QED
    BY <1>1, <2>4, SameChange DEF AliasNamespace
<1>2. CASE AliasLink \/ MovePeer
  <2>1. link[k].ours /\ k \in Endpoints
    BY <1>2 DEF AliasLink, MovePeer, PeerMovable, WindowsSafe, IndexOK
  <2>2. link'[k].ours
    BY <1>2, <2>1 DEF AliasLink, MovePeer, Object, Present
  <2>3. \A e \in Endpoints : e # k => link'[e] = link[e]
    BY <1>2 DEF AliasLink, MovePeer
  <2>4. \A e \in Endpoints : Changed(link[e], link'[e], UsedIds(e), disk.ep[e].link # NoId)
    BY <2>2, <2>3 DEF Changed
  <2>5. QED
    BY <1>2, <2>4, SameChange DEF AliasLink, MovePeer
<1>3. CASE StopContainers
  BY <1>3, SameChange, AbsentChange DEF StopContainers, LinksWithoutContainers
<1>4. CASE DeletePort
  BY <1>4, SameChange, AbsentChange DEF DeletePort
<1>5. CASE DeleteLink
  BY <1>5, SameChange, AbsentChange DEF DeleteLink
<1>6. CASE DeleteNamespace
  BY <1>6, SameChange, AbsentChange DEF DeleteNamespace, LinksWithoutNamespace
<1>7. CASE DeleteBridge
  BY <1>7, SameChange, AbsentChange DEF DeleteBridge
<1>8. QED
  BY <1>1, <1>2, <1>3, <1>4, <1>5, <1>6, <1>7 DEF Altering

\* So do a container that exits and everybody else on the host.
LEMMA OthersChanges ==
  ASSUME TypeInv, ContainerExit \/ Foreign
  PROVE  HostChange
<1> USE DEF TypeInv, TypeOK, HostChange
<1>1. CASE ContainerExit
  BY <1>1, SameChange, AbsentChange DEF ContainerExit, LinksWithoutContainers
<1>2. CASE ForeignBridge
  <2>1. PICK b \in Bridges :
          \/ /\ HasFresh(UsedBridgeIds(b))
             /\ \E m \in BOOLEAN : /\ m => disk.br[b] # NoId
                                   /\ bridge' = [bridge EXCEPT ![b] = Stranger(Fresh(UsedBridgeIds(b)), m)]
             /\ UNCHANGED port
          \/ bridge' = [bridge EXCEPT ![b] = Absent] /\ port' = PortsWithoutBridge(b)
          \/ UNCHANGED <<bridge, port>>
    BY <1>2 DEF ForeignBridge
  <2>2. \A c \in Bridges : Changed(bridge[c], bridge'[c], UsedBridgeIds(c), disk.br[c] # NoId)
    BY <2>1, SameChange, AbsentChange, StrangerChange
  <2>3. \A e \in Endpoints : Changed(port[e], port'[e], UsedIds(e), disk.ep[e].port # NoId)
    BY <2>1, SameChange, AbsentChange DEF PortsWithoutBridge
  <2>4. QED
    BY <1>2, <2>2, <2>3, SameChange DEF ForeignBridge
<1>3. CASE ForeignNamespace
  <2>1. PICK r \in Namespaces :
          \/ /\ HasFresh(UsedNamespaceIds(r))
             /\ \E m \in BOOLEAN : /\ m => disk.ns[r] # NoId
                                   /\ netns' = [netns EXCEPT ![r] = Stranger(Fresh(UsedNamespaceIds(r)), m)]
             /\ UNCHANGED link
          \/ netns' = [netns EXCEPT ![r] = Absent] /\ link' = LinksWithoutNamespace(r)
    BY <1>3 DEF ForeignNamespace
  <2>2. \A s \in Namespaces : Changed(netns[s], netns'[s], UsedNamespaceIds(s), disk.ns[s] # NoId)
    BY <2>1, SameChange, AbsentChange, StrangerChange
  <2>3. \A e \in Endpoints : Changed(link[e], link'[e], UsedIds(e), disk.ep[e].link # NoId)
    BY <2>1, SameChange, AbsentChange DEF LinksWithoutNamespace
  <2>4. QED
    BY <1>3, <2>2, <2>3, SameChange DEF ForeignNamespace
<1>4. CASE ForeignEndpoint
  <2>1. PICK e \in Endpoints :
          \/ /\ HasFresh(UsedIds(e))
             /\ \E m \in BOOLEAN : /\ m => disk.ep[e].link # NoId
                                   /\ link' = [link EXCEPT ![e] = Stranger(Fresh(UsedIds(e)), m)]
             /\ UNCHANGED port
          \/ link' = [link EXCEPT ![e] = Absent] /\ UNCHANGED port
          \/ /\ HasFresh(UsedIds(e))
             /\ \E m \in BOOLEAN : /\ m => disk.ep[e].port # NoId
                                   /\ port' = [port EXCEPT ![e] = Stranger(Fresh(UsedIds(e)), m)]
             /\ UNCHANGED link
          \/ port' = [port EXCEPT ![e] = Absent] /\ UNCHANGED link
    BY <1>4 DEF ForeignEndpoint
  <2>2. \A f \in Endpoints : Changed(link[f], link'[f], UsedIds(f), disk.ep[f].link # NoId)
    BY <2>1, SameChange, AbsentChange, StrangerChange
  <2>3. \A f \in Endpoints : Changed(port[f], port'[f], UsedIds(f), disk.ep[f].port # NoId)
    BY <2>1, SameChange, AbsentChange, StrangerChange
  <2>4. QED
    BY <1>4, <2>2, <2>3, SameChange DEF ForeignEndpoint
<1>5. QED
  BY <1>1, <1>2, <1>3, <1>4 DEF Foreign

\* Every step that touches the host changes it as permitted.
LEMMA HostChanges ==
  ASSUME IdentityInv, HostStep
  PROVE  HostChange
BY AddingChanges, AlteringChanges, OthersChanges DEF IdentityInv, HostStep

\* The ledgers stay as they are while the host changes.
LEMMA HostKeepsLedgers == HostStep => UNCHANGED ledgers
BY DEF HostStep, Adding, AddBridge, AddNamespace, AddLink, AddPort, Altering, AliasNamespace, AliasLink,
   MovePeer, StopContainers, DeletePort, DeleteLink, DeleteNamespace, DeleteBridge, ContainerExit,
   Foreign, ForeignBridge, ForeignNamespace, ForeignEndpoint, ForeignStep

\* What Changed preserves, about the host and the ledger in memory.
LEMMA HostIdentity ==
  ASSUME IdentityInv, HostChange, UNCHANGED ledgers, OursExist'
  PROVE  TiedAreOurs' /\ MarksAreOurs' /\ IdentifiesOurs(mem)'
<1>0. mem' = mem /\ disk' = disk
  BY DEF ledgers
<1> USE DEF IdentityInv, HostChange, Changed
<1>1. TiedAreOurs'
  BY DEF TiedAreOurs
<1>2. MarksAreOurs'
  BY <1>0 DEF MarksAreOurs, WellFormed
<1>3. \A b \in Bridges : BridgeOwned(mem, b)' => bridge'[b].ours
  BY <1>0 DEF IdentifiesOurs, BridgeOwned, UsedBridgeIds
<1>4. \A r \in Namespaces : NamespaceOwned(mem, r)' => netns'[r].ours
  BY <1>0 DEF IdentifiesOurs, NamespaceOwned, UsedNamespaceIds
<1>5. \A e \in Endpoints : HostEndpointOwned(mem, e)' => link'[e].ours
  BY <1>0 DEF IdentifiesOurs, HostEndpointOwned, UsedIds
<1>6. \A e \in Endpoints : OvsEndpointOwned(mem, e)' => port'[e].ours
  BY <1>0 DEF IdentifiesOurs, OvsEndpointOwned, UsedIds
<1>7. QED
  BY <1>1, <1>2, <1>3, <1>4, <1>5, <1>6 DEF IdentifiesOurs

\* A bridge that carries somebody else's port exists.
LEMMA BareNext ==
  ASSUME IdentityInv, HostStep, HostChange, OursExist'
  PROVE  Bare'
<1>1. \A b \in Bridges : ~Present(bridge'[b]) => ~bridge'[b].mark
  BY DEF HostChange, Changed, IdentityInv, Bare, OursExist
<1>2. \A b \in Bridges : ~Present(bridge'[b]) => ~extra'[b]
  <2>1. CASE UNCHANGED extra /\ \A b \in Bridges : Present(bridge[b]) => Present(bridge'[b])
    BY <2>1 DEF IdentityInv, Bare
  <2>2. CASE AddBridge
    BY <2>2, FreshId DEF AddBridge, IdentityInv, TypeInv, TypeOK, Bare, Present, Created
  <2>3. CASE DeleteBridge
    BY <2>3 DEF DeleteBridge, OnlyInternalPort, IdentityInv, TypeInv, TypeOK, Bare, Present
  <2>4. CASE ForeignBridge
    <3>1. PICK b \in Bridges :
            \/ /\ HasFresh(UsedBridgeIds(b)) /\ UNCHANGED extra
               /\ \E m \in BOOLEAN : bridge' = [bridge EXCEPT ![b] = Stranger(Fresh(UsedBridgeIds(b)), m)]
            \/ bridge' = [bridge EXCEPT ![b] = Absent] /\ extra' = [extra EXCEPT ![b] = FALSE]
            \/ Present(bridge[b]) /\ extra' = [extra EXCEPT ![b] = ~extra[b]] /\ UNCHANGED bridge
      BY <2>4 DEF ForeignBridge
    <3>2. HasFresh(UsedBridgeIds(b)) => \A m \in BOOLEAN : Present(Stranger(Fresh(UsedBridgeIds(b)), m))
      BY FreshId DEF Present, Stranger
    <3>3. QED
      BY <3>1, <3>2 DEF IdentityInv, TypeInv, TypeOK, Bare
  <2>5. CASE AddNamespace \/ AddLink \/ AddPort \/ AliasNamespace \/ AliasLink \/ MovePeer
             \/ StopContainers \/ DeletePort \/ DeleteLink \/ DeleteNamespace \/ ContainerExit
             \/ ForeignNamespace \/ ForeignEndpoint
    <3>1. UNCHANGED <<bridge, extra>>
      BY <2>5 DEF AddNamespace, AddLink, AddPort, AliasNamespace, AliasLink, MovePeer, StopContainers,
         DeletePort, DeleteLink, DeleteNamespace, ContainerExit, ForeignNamespace, ForeignEndpoint
    <3>2. QED
      BY <2>1, <3>1
  <2>6. QED
    BY <2>2, <2>3, <2>4, <2>5 DEF HostStep, Adding, Altering, Foreign
<1>3. \A r \in Namespaces : ~Present(netns'[r]) => ~netns'[r].mark
  BY DEF HostChange, Changed, IdentityInv, Bare, OursExist
<1>4. \A e \in Endpoints : /\ ~Present(link'[e]) => ~link'[e].mark
                           /\ ~Present(port'[e]) => ~port'[e].mark
  BY DEF HostChange, Changed, IdentityInv, Bare, OursExist
<1>5. QED
  BY <1>1, <1>2, <1>3, <1>4 DEF Bare, Present

-----------------------------------------------------------------------------
(***************************************************************************)
(* What a step may do to the ledgers.                                      *)
(***************************************************************************)
Reverts == mem' = disk /\ disk' = disk
Flushes == mem' = mem /\ disk' = mem
Clears  == Save(ClearedLedger(mem))
Records == RecordIntent \/ RecordBridge \/ RecordNamespace \/ RecordEndpoint \/ FinishCreate
           \/ RecoverNamespace
Learns  == Discover \/ ValidateOnly \/ BeginDestroy
Others  == RefuseCollision \/ FinishStop

\* The ways in which a step may treat the two copies of the ledger.
LEMMA LedgerSteps ==
  ASSUME [Next]_vars
  PROVE  UNCHANGED ledgers \/ Reverts \/ Flushes \/ Clears \/ Records \/ Learns \/ Others
<1> USE DEF Reverts, Others, ledgers
<1>1. CASE Up \/ Down \/ Crash
  BY <1>1 DEF Up, Down, Crash
<1>2. CASE Create
  <2>1. BridgesDone \/ NamespacesDone \/ EndpointsDone \/ UpReturns
        \/ StartupFails \/ CreateBlocked \/ CreateFails => UNCHANGED ledgers
    BY DEF BridgesDone, NamespacesDone, EndpointsDone, UpReturns, StartupFails,
       CreateBlocked, CreateFails
  <2>2. QED
    BY <1>2, <2>1, HostKeepsLedgers DEF Create, Records, HostStep, Adding, Altering
<1>3. CASE Recover
  <2>1. SkipNamespace \/ NamespacesRecovered => UNCHANGED ledgers
    BY DEF SkipNamespace, NamespacesRecovered
  <2>2. RefuseNamespace \/ RefuseDestroy => UNCHANGED ledgers \/ Reverts
    BY DEF RefuseNamespace, RefuseDestroy
  <2>3. Stop => Flushes
    BY DEF Stop, Flushes, Save
  <2>4. QED
    BY <1>3, <2>1, <2>2, <2>3, HostKeepsLedgers DEF Recover, Records, Learns, HostStep, Altering
<1>4. CASE Delete
  <2>1. SkipEndpoint \/ CheckLink \/ EndpointsDeleted \/ CheckNamespace \/ NamespacesDeleted
        \/ SkipBridge \/ BridgesDeleted => UNCHANGED ledgers
    BY DEF SkipEndpoint, CheckLink, EndpointsDeleted, CheckNamespace, NamespacesDeleted,
       SkipBridge, BridgesDeleted
  <2>2. DeletionBlocked \/ DeletionFails => UNCHANGED ledgers \/ Reverts
    BY DEF DeletionBlocked, DeletionFails, NotDeleted, KeepGoing
  <2>3. RollbackDone \/ DestroyDone => Clears \/ Flushes
    BY DEF RollbackDone, DestroyDone, Clears, Flushes, Save
  <2>4. QED
    BY <1>4, <2>1, <2>2, <2>3, HostKeepsLedgers DEF Delete, HostStep, Altering
<1>5. CASE ContainerExit \/ Foreign \/ UNCHANGED vars
  BY <1>5, HostKeepsLedgers DEF HostStep, vars
<1>6. QED
  BY <1>1, <1>2, <1>3, <1>4, <1>5 DEF Next

\* Entry by entry, what a discovery or an adoption makes of a ledger.
LEMMA DiscoveredParts ==
  ASSUME NEW L \in Ledger
  PROVE  /\ \A b \in Bridges :
              Discovered(L).br[b] =
                IF L.br[b] = NoId /\ bridge[b].mark THEN bridge[b].id ELSE L.br[b]
         /\ \A e \in Endpoints :
              \/ Discovered(L).ep[e] = L.ep[e]
              \/ /\ e \in L.expEp /\ ~L.ep[e].known
                 /\ Discovered(L).ep[e] = [known |-> TRUE, link |-> link[e].id, port |-> port[e].id]
BY DEF Discovered, Ledger

\* An endpoint record that carries identities is a known one.
LEMMA KnownRecord == \A i, j : [known |-> TRUE, link |-> i, port |-> j].known
OBVIOUS

LedgerInv == DiskInMem /\ WellFormed(mem) /\ WellFormed(disk)

\* Everything the process saves, forgets or learns keeps the copies consistent.
LEMMA LedgerNext ==
  ASSUME IdentityInv, [Next]_vars
  PROVE  LedgerInv'
<1>0. mem \in Ledger /\ disk \in Ledger /\ Discovered(mem) \in Ledger
  BY DiscoveredType DEF IdentityInv, TypeInv, TypeOK
<1>a. DiskInMem /\ WellFormed(mem) /\ WellFormed(disk)
  BY DEF IdentityInv
<1>1. CASE UNCHANGED ledgers \/ Reverts \/ Flushes
  BY <1>a, <1>1 DEF ledgers, Reverts, Flushes, LedgerInv, DiskInMem, WellFormed
<1>2. CASE Clears
  <2>1. WellFormed(ClearedLedger(mem))
    BY <1>0 DEF ClearedLedger, WellFormed, Ledger, NoRecord
  <2>2. QED
    BY <1>2, <2>1 DEF Clears, Save, LedgerInv, DiskInMem, WellFormed
<1>3. CASE Records
  <2>1. mem' = disk' /\ mem'.intent
    <3>1. CASE RecordIntent
      BY <3>1, IntendingType DEF RecordIntent, Save, IdentityInv, TypeInv
    <3>2. CASE RecordBridge \/ RecordNamespace \/ RecordEndpoint \/ FinishCreate \/ RecoverNamespace
      BY <1>0, <3>2 DEF RecordBridge, RecordNamespace, RecordEndpoint, FinishCreate, RecoverNamespace,
         Save, Ledger, IdentityInv, ControlInv, SameIntent, Working, CreateSteps
    <3>3. QED
      BY <1>3, <3>1, <3>2 DEF Records
  <2>2. \A e \in Endpoints : ~mem'.ep[e].known => mem'.ep[e].link = NoId /\ mem'.ep[e].port = NoId
    <3>1. CASE RecordEndpoint
      <4>1. got.known /\ mem'.ep = [mem.ep EXCEPT ![k] = got]
        BY <1>0, <3>1 DEF RecordEndpoint, Save, Ledger, IdentityInv, CapturedOurs
      <4>2. QED
        BY <1>0, <1>a, <4>1 DEF WellFormed, Ledger
    <3>2. CASE RecordIntent \/ RecordBridge \/ RecordNamespace \/ FinishCreate \/ RecoverNamespace
      <4>1. mem'.ep = mem.ep
        BY <1>0, <3>2 DEF RecordIntent, Intending, RecordBridge, RecordNamespace, FinishCreate,
           RecoverNamespace, Save, Ledger
      <4>2. QED
        BY <1>a, <4>1 DEF WellFormed
    <3>3. QED
      BY <1>3, <3>1, <3>2 DEF Records
  <2>3. QED
    BY <2>1, <2>2 DEF LedgerInv, DiskInMem, WellFormed
<1>4. CASE Learns
  <2>1. /\ mem'.br = Discovered(mem).br /\ mem'.ns = mem.ns /\ mem'.ep = Discovered(mem).ep
        /\ SameIntents(mem', mem) /\ mem.intent /\ (disk' = disk \/ disk' = mem')
    BY <1>0, <1>4, DiscoveredIntent DEF Learns, Discover, ValidateOnly, BeginDestroy, Save, Ledger,
       IdentityInv, ControlInv, SameIntent, SameIntents, Working
  <2>2. \A b \in Bridges : mem.br[b] # NoId => mem'.br[b] = mem.br[b]
    BY <1>0, <2>1, DiscoveredParts
  <2>3. \A e \in Endpoints : mem.ep[e].known => mem'.ep[e] = mem.ep[e]
    BY <1>0, <2>1, DiscoveredParts
  <2>4. \A e \in Endpoints : ~mem'.ep[e].known => mem'.ep[e] = mem.ep[e]
    <3>1. \A e \in Endpoints :
            \/ mem'.ep[e] = mem.ep[e]
            \/ mem'.ep[e] = [known |-> TRUE, link |-> link[e].id, port |-> port[e].id]
      BY <1>0, <2>1, DiscoveredParts
    <3>2. QED
      BY <3>1, KnownRecord
  <2>5. WellFormed(mem)'
    BY <1>a, <2>1, <2>4 DEF WellFormed, SameIntents
  <2>6. CASE disk' = mem'
    BY <2>5, <2>6 DEF LedgerInv, DiskInMem, WellFormed
  <2>7. CASE disk' = disk
    <3>1. DiskInMem'
      BY <1>a, <2>1, <2>2, <2>3, <2>7 DEF DiskInMem, SameIntents
    <3>2. WellFormed(disk)'
      BY <1>a, <2>7 DEF WellFormed
    <3>3. QED
      BY <2>5, <3>1, <3>2 DEF LedgerInv
  <2>8. QED
    BY <2>1, <2>6, <2>7
<1>5. CASE Others
  <2>1. ~mem.intent /\ mem = disk
    BY <1>5 DEF Others, RefuseCollision, FinishStop, IdentityInv, ControlInv
  <2>2. CASE RefuseCollision
    <3>1. CASE mem' = mem
      BY <1>a, <2>1, <2>2, <3>1 DEF RefuseCollision, LedgerInv, DiskInMem, WellFormed
    <3>2. CASE mem' # mem
      <4>1. PICK R \in SUBSET Namespaces, S \in SUBSET Endpoints : mem' = Intending(R, S)
        BY <2>2, <3>2, RefusalType DEF IdentityInv, TypeInv
      <4>2. mem'.intent /\ mem'.br = mem.br /\ mem'.ns = mem.ns /\ mem'.ep = mem.ep
        BY <4>1, IntendingType DEF IdentityInv, TypeInv
      <4>3. disk' = disk /\ disk.expNs = {} /\ disk.expEp = {} /\ ~disk.intent
        BY <1>a, <2>1, <2>2 DEF RefuseCollision, WellFormed
      <4>4. QED
        BY <1>a, <2>1, <4>2, <4>3 DEF LedgerInv, DiskInMem, WellFormed
    <3>3. QED
      BY <3>1, <3>2
  <2>3. CASE FinishStop
    <3>1. /\ mem' = disk' /\ SameIntents(mem', mem)
          /\ mem'.br = mem.br /\ mem'.ns = mem.ns /\ mem'.ep = mem.ep
      BY <1>0, <2>3 DEF FinishStop, Save, SameIntents, Ledger
    <3>2. QED
      BY <1>a, <2>1, <3>1 DEF LedgerInv, DiskInMem, WellFormed, SameIntents
  <2>4. QED
    BY <1>5, <2>2, <2>3 DEF Others
<1>6. QED
  BY <1>1, <1>2, <1>3, <1>4, <1>5, LedgerSteps

-----------------------------------------------------------------------------
\* The names a refused creation has listed were free.
LEMMA RefusedNames ==
  ASSUME TypeInv, RefuseCollision, ~mem.intent, mem'.intent
  PROVE  /\ \A r \in mem'.expNs : ~Present(netns[r])
         /\ \A e \in mem'.expEp : ~Present(link[e]) /\ ~Present(port[e])
<1>1. CASE \E r \in Namespaces :
              /\ \A q \in 1..(r - 1) : ~NamespaceCollision(q)
              /\ mem' = Intending(1..(r - 1), {})
  <2>1. PICK r \in Namespaces : /\ \A q \in 1..(r - 1) : ~NamespaceCollision(q)
                                /\ mem' = Intending(1..(r - 1), {})
    BY <1>1
  <2>2. 1..(r - 1) \in SUBSET Namespaces /\ {} \in SUBSET Endpoints
    BY SizesAssumption DEF Namespaces
  <2>3. mem'.expNs = 1..(r - 1) /\ mem'.expEp = {}
    BY <2>1, <2>2, IntendingType DEF TypeInv
  <2>4. QED
    BY <2>1, <2>3 DEF NamespaceCollision
<1>2. CASE \E e \in Endpoints :
              /\ \A r \in Namespaces : ~NamespaceCollision(r)
              /\ \A q \in 1..(e - 1) : ~EndpointCollision(q)
              /\ mem' = Intending(Namespaces, 1..(e - 1))
  <2>1. PICK e \in Endpoints : /\ \A r \in Namespaces : ~NamespaceCollision(r)
                               /\ \A q \in 1..(e - 1) : ~EndpointCollision(q)
                               /\ mem' = Intending(Namespaces, 1..(e - 1))
    BY <1>2
  <2>2. Namespaces \in SUBSET Namespaces /\ 1..(e - 1) \in SUBSET Endpoints
    BY SizesAssumption DEF Endpoints
  <2>3. mem'.expNs = Namespaces /\ mem'.expEp = 1..(e - 1)
    BY <2>1, <2>2, IntendingType DEF TypeInv
  <2>4. QED
    BY <2>1, <2>3 DEF NamespaceCollision, EndpointCollision
<1>3. QED
  BY <1>1, <1>2 DEF RefuseCollision

\* With the host at rest, nothing foreign starts to pass for ours: what a ledger
\* learns it did not know on disk, so the marks it saw are our own.
LEMMA QuietIdentity ==
  ASSUME IdentityInv, Quiet, [Next]_vars, LedgerInv'
  PROVE  TiedAreOurs' /\ Bare' /\ MarksAreOurs' /\ IdentifiesOurs(mem)'
<1>0. mem \in Ledger /\ disk \in Ledger /\ Discovered(mem) \in Ledger
  BY DiscoveredType DEF IdentityInv, TypeInv, TypeOK
<1>a. /\ bridge' = bridge /\ extra' = extra /\ netns' = netns /\ link' = link /\ port' = port
      /\ DiskInMem /\ WellFormed(mem) /\ WellFormed(disk) /\ MarksAreOurs /\ IdentifiesOurs(mem)
  BY DEF IdentityInv, Quiet
<1>1. TiedAreOurs' /\ Bare'
  BY <1>a DEF IdentityInv, TiedAreOurs, Bare, Present
<1>2. CASE UNCHANGED ledgers
  BY <1>1, <1>2, <1>a DEF ledgers, MarksAreOurs, IdentifiesOurs, BridgeOwned, NamespaceOwned,
     HostEndpointOwned, OvsEndpointOwned, Present
<1>3. CASE Reverts
  <2>1. MarksAreOurs'
    BY <1>3, <1>a DEF Reverts, MarksAreOurs, DiskInMem
  <2>2. IdentifiesOurs(mem)'
    BY <1>3, <1>a DEF Reverts, IdentifiesOurs, BridgeOwned, NamespaceOwned, HostEndpointOwned,
       OvsEndpointOwned, Present, DiskInMem, WellFormed
  <2>3. QED
    BY <1>1, <2>1, <2>2
<1>4. CASE Flushes
  <2>2. MarksAreOurs'
    BY <1>4, <1>a DEF Flushes, MarksAreOurs, DiskInMem
  <2>3. IdentifiesOurs(mem)'
    BY <1>4, <1>a DEF Flushes, IdentifiesOurs, BridgeOwned, NamespaceOwned, HostEndpointOwned,
       OvsEndpointOwned, Present
  <2>4. QED
    BY <1>1, <2>2, <2>3
<1>5. CASE Clears
  <2>1. ~mem'.intent /\ disk' = mem'
    BY <1>0, <1>5, ClearedIntent DEF Clears, Save
  <2>2. MarksAreOurs'
    BY <2>1 DEF MarksAreOurs
  <2>3. IdentifiesOurs(mem)'
    BY <2>1 DEF LedgerInv, WellFormed, IdentifiesOurs, BridgeOwned, NamespaceOwned, HostEndpointOwned,
       OvsEndpointOwned, Present
  <2>4. QED
    BY <1>1, <2>2, <2>3
<1>6. CASE Records
  <2>0. disk' = mem'
    BY <1>6 DEF Records, RecordIntent, RecordBridge, RecordNamespace, RecordEndpoint, FinishCreate,
       RecoverNamespace, Save
  <2>1. CASE RecordIntent
    <3>1. /\ \A b \in Bridges : ~Present(bridge'[b])
          /\ \A r \in Namespaces : ~Present(netns'[r])
          /\ \A e \in Endpoints : ~Present(link'[e]) /\ ~Present(port'[e])
      BY <1>a, <2>1 DEF RecordIntent, BridgeCollision, NamespaceCollision, EndpointCollision
    <3>0. mem'.expNs = Namespaces /\ mem'.expEp = Endpoints
      BY <2>1, IntendingType DEF RecordIntent, Save, IdentityInv, TypeInv
    <3>2. MarksAreOurs'
      BY <3>0, <3>1, <1>1 DEF MarksAreOurs, Bare
    <3>3. IdentifiesOurs(mem)'
      BY <3>1 DEF IdentifiesOurs, BridgeOwned, NamespaceOwned, HostEndpointOwned,
         OvsEndpointOwned
    <3>4. QED
      BY <1>1, <3>2, <3>3
  <2>2. CASE RecordBridge
    <3>1. /\ pc = "recordBridge" /\ k \in Bridges /\ mem.intent /\ SameIntents(mem', mem)
          /\ mem'.br = [mem.br EXCEPT ![k] = bridge[k].id] /\ mem'.ns = mem.ns /\ mem'.ep = mem.ep
      BY <1>0, <2>2 DEF RecordBridge, Save, Ledger, IdentityInv, TypeInv, IndexOK, ControlInv,
         SameIntent, SameIntents, Working, CreateSteps
    <3>2. mem.br[k] = NoId
      BY <3>1 DEF IdentityInv, CreationOrder, TypeInv, TypeOK, Bridges
    <3>3. bridge[k].mark => bridge[k].ours
      BY <1>a, <3>1, <3>2 DEF DiskInMem, MarksAreOurs
    <3>4. MarksAreOurs'
      BY <1>0, <1>a, <2>0, <3>1, <3>3 DEF MarksAreOurs, DiskInMem, Ledger, SameIntents
    <3>5. IdentifiesOurs(mem)'
      BY <1>0, <1>a, <3>1, <3>3 DEF IdentifiesOurs, BridgeOwned, NamespaceOwned, HostEndpointOwned,
         OvsEndpointOwned, Present, Ledger
    <3>6. QED
      BY <1>1, <3>4, <3>5
  <2>3. CASE RecordNamespace \/ RecoverNamespace
    <3>1. /\ k \in Namespaces /\ mem.intent /\ SameIntents(mem', mem) /\ mem'.ns = [mem.ns EXCEPT ![k] = netns[k].id]
          /\ mem'.br = mem.br /\ mem'.ep = mem.ep
      BY <1>0, <2>3, AddedTypes DEF RecordNamespace, RecoverNamespace, Save, Ledger, IdentityInv, TypeInv,
         IndexOK, ControlInv, SameIntent, SameIntents, Working, CreateSteps
    <3>2. mem.ns[k] = NoId /\ k \in mem.expNs
      BY <2>3, <3>1 DEF RecordNamespace, RecoverNamespace, NamespaceUnrecorded, IdentityInv, CreationOrder,
         ControlInv, CreateSteps
    <3>3. netns[k].mark => netns[k].ours
      BY <1>a, <3>1, <3>2 DEF DiskInMem, MarksAreOurs
    <3>4. MarksAreOurs'
      BY <1>0, <1>a, <2>0, <3>1, <3>3 DEF MarksAreOurs, DiskInMem, Ledger, SameIntents
    <3>5. IdentifiesOurs(mem)'
      BY <1>0, <1>a, <3>1, <3>3 DEF IdentifiesOurs, BridgeOwned, NamespaceOwned, HostEndpointOwned,
         OvsEndpointOwned, Present, Ledger
    <3>6. QED
      BY <1>1, <3>4, <3>5
  <2>4. CASE RecordEndpoint
    <3>1. /\ pc = "recordEndpoint" /\ k \in Endpoints /\ mem.intent /\ SameIntents(mem', mem)
          /\ mem'.ep = [mem.ep EXCEPT ![k] = got] /\ mem'.br = mem.br /\ mem'.ns = mem.ns
      BY <1>0, <2>4 DEF RecordEndpoint, Save, Ledger, IdentityInv, TypeInv, IndexOK, ControlInv,
         SameIntent, SameIntents, Working, CreateSteps
    <3>2. /\ got.known
          /\ Present(link[k]) /\ link[k].id = got.link /\ link[k].mark => link[k].ours
          /\ Present(port[k]) /\ port[k].id = got.port /\ port[k].mark => port[k].ours
      BY <3>1 DEF IdentityInv, CapturedOurs
    <3>3. MarksAreOurs'
      BY <1>0, <1>a, <2>0, <3>1, <3>2 DEF MarksAreOurs, DiskInMem, Ledger, SameIntents
    <3>4. IdentifiesOurs(mem)'
      BY <1>0, <1>a, <3>1, <3>2 DEF IdentifiesOurs, BridgeOwned, NamespaceOwned, HostEndpointOwned,
         OvsEndpointOwned, Present, Ledger
    <3>5. QED
      BY <1>1, <3>3, <3>4
  <2>5. CASE FinishCreate
    <3>1. mem'.br = mem.br /\ mem'.ns = mem.ns /\ mem'.ep = mem.ep /\ SameIntents(mem', mem)
      BY <1>0, <2>5 DEF FinishCreate, Save, Ledger, SameIntents
    <3>2. MarksAreOurs'
      BY <1>a, <2>0, <3>1 DEF MarksAreOurs, DiskInMem, SameIntents
    <3>3. IdentifiesOurs(mem)'
      BY <1>a, <3>1 DEF IdentifiesOurs, BridgeOwned, NamespaceOwned, HostEndpointOwned,
         OvsEndpointOwned, Present
    <3>4. QED
      BY <1>1, <3>2, <3>3
  <2>6. QED
    BY <1>6, <2>1, <2>2, <2>3, <2>4, <2>5 DEF Records
<1>7. CASE Learns
  <2>1. /\ mem'.br = Discovered(mem).br /\ mem'.ns = mem.ns /\ mem'.ep = Discovered(mem).ep
        /\ mem.intent /\ SameIntents(mem', mem) /\ (disk' = disk \/ disk' = mem')
    BY <1>0, <1>7, DiscoveredIntent DEF Learns, Discover, ValidateOnly, BeginDestroy, Save, Ledger,
       IdentityInv, ControlInv, SameIntent, SameIntents, Working
  <2>2. \A b \in Bridges : mem'.br[b] = mem.br[b] \/ (mem.br[b] = NoId /\ mem'.br[b] = bridge[b].id)
    BY <1>0, <2>1, DiscoveredParts
  <2>3. \A e \in Endpoints :
          \/ mem'.ep[e] = mem.ep[e]
          \/ /\ e \in mem.expEp /\ ~mem.ep[e].known
             /\ mem'.ep[e] = [known |-> TRUE, link |-> link[e].id, port |-> port[e].id]
    BY <1>0, <2>1, DiscoveredParts
  <2>4. MarksAreOurs'
    <3>1. CASE disk' = disk
      BY <1>a, <2>1, <3>1 DEF MarksAreOurs, SameIntents
    <3>2. CASE disk' = mem'
      <4>1. \A b \in Bridges : disk'.br[b] = NoId /\ bridge[b].mark => bridge[b].ours
        BY <1>a, <2>1, <2>2, <3>2 DEF MarksAreOurs, DiskInMem
      <4>2. \A r \in Namespaces :
              r \in mem.expNs /\ disk'.ns[r] = NoId /\ netns[r].mark => netns[r].ours
        BY <1>a, <2>1, <3>2 DEF MarksAreOurs, DiskInMem
      <4>3. \A e \in Endpoints : ~disk'.ep[e].known => ~disk.ep[e].known
        BY <1>a, <2>3, <3>2 DEF DiskInMem
      <4>4. QED
        BY <1>a, <2>1, <4>1, <4>2, <4>3 DEF MarksAreOurs, SameIntents
    <3>3. QED
      BY <2>1, <3>1, <3>2
  <2>5. IdentifiesOurs(mem)'
    <3>1. \A b \in Bridges : BridgeOwned(mem, b)' => bridge'[b].ours
      BY <1>a, <2>1, <2>2 DEF IdentifiesOurs, BridgeOwned, MarksAreOurs, DiskInMem
    <3>2. \A r \in Namespaces : NamespaceOwned(mem, r)' => netns'[r].ours
      BY <1>a, <2>1 DEF IdentifiesOurs, NamespaceOwned
    <3>3. \A e \in Endpoints : HostEndpointOwned(mem, e)' => link'[e].ours
      BY <1>a, <2>1, <2>3 DEF IdentifiesOurs, HostEndpointOwned, MarksAreOurs, DiskInMem
    <3>4. \A e \in Endpoints : OvsEndpointOwned(mem, e)' => port'[e].ours
      BY <1>a, <2>1, <2>3 DEF IdentifiesOurs, OvsEndpointOwned, MarksAreOurs, DiskInMem
    <3>5. QED
      BY <3>1, <3>2, <3>3, <3>4 DEF IdentifiesOurs
  <2>6. QED
    BY <1>1, <2>4, <2>5
<1>8. CASE Others
  <2>1. ~mem.intent /\ mem = disk
    BY <1>8 DEF Others, RefuseCollision, FinishStop, IdentityInv, ControlInv
  <2>2. \A r \in Namespaces : mem.ns[r] = NoId
    BY <1>a, <2>1 DEF WellFormed
  <2>3. CASE RefuseCollision
    <3>1. disk' = disk /\ mem'.br = mem.br /\ mem'.ns = mem.ns /\ mem'.ep = mem.ep
      <4>1. CASE mem' = mem
        BY <2>3, <4>1 DEF RefuseCollision
      <4>2. CASE mem' # mem
        BY <2>3, <4>2, RefusalType, IntendingType DEF RefuseCollision, IdentityInv, TypeInv
      <4>3. QED
        BY <4>1, <4>2
    <3>2. IdentifiesOurs(mem)'
      BY <1>a, <3>1 DEF IdentifiesOurs, BridgeOwned, NamespaceOwned, HostEndpointOwned,
         OvsEndpointOwned, Present
    <3>3. mem'.intent => \A b \in Bridges : ~Present(bridge[b])
      BY <2>1, <2>3 DEF RefuseCollision, BridgeCollision
    <3>4. mem'.intent => \A r \in Namespaces : r \in mem'.expNs => ~Present(netns[r])
      BY <2>1, <2>3, RefusedNames DEF IdentityInv
    <3>5. mem'.intent => \A e \in Endpoints : e \in mem'.expEp => ~Present(link[e]) /\ ~Present(port[e])
      BY <2>1, <2>3, RefusedNames DEF IdentityInv
    <3>6. MarksAreOurs'
      BY <1>1, <1>a, <3>3, <3>4, <3>5 DEF MarksAreOurs, Bare, Present
    <3>7. QED
      BY <1>1, <3>2, <3>6
  <2>4. CASE FinishStop
    <3>1. /\ mem' = disk' /\ SameIntents(mem', mem)
          /\ mem'.br = mem.br /\ mem'.ns = mem.ns /\ mem'.ep = mem.ep
      BY <1>0, <2>4 DEF FinishStop, Save, SameIntents, Ledger
    <3>2. MarksAreOurs'
      BY <2>1, <3>1 DEF MarksAreOurs, SameIntents
    <3>3. IdentifiesOurs(mem)'
      BY <1>a, <3>1 DEF IdentifiesOurs, BridgeOwned, NamespaceOwned, HostEndpointOwned,
         OvsEndpointOwned, Present
    <3>4. QED
      BY <1>1, <3>2, <3>3
  <2>5. QED
    BY <1>8, <2>3, <2>4 DEF Others
<1>9. QED
  BY <1>2, <1>3, <1>4, <1>5, <1>6, <1>7, <1>8, LedgerSteps

-----------------------------------------------------------------------------
(***************************************************************************)
(* The order of creation and the name windows.                             *)
(***************************************************************************)
CreationSteps == {"addBridge", "recordBridge", "addNamespace", "aliasNamespace", "recordNamespace",
                  "addLink", "aliasLink", "addPort", "movePeer", "recordEndpoint"}

\* No recovery or deletion step leads into the creation loops.
LEMMA CleanupNotCreation ==
  ASSUME Up \/ Down \/ Recover \/ Delete \/ Crash
  PROVE  pc' \notin CreationSteps
<1> USE DEF CreationSteps, Goto, Exit
<1>1. CASE Up \/ Down \/ Crash
  BY <1>1 DEF Up, Down, Crash
<1>2. CASE Recover
  <2>1. NamespacesRecovered => pc' \in {"discover", "validate"}
    BY DEF NamespacesRecovered
  <2>2. RefuseNamespace => pc' \in {"stop", "idle"}
    BY DEF RefuseNamespace
  <2>3. QED
    BY <1>2, <2>1, <2>2 DEF Recover, RecoverNamespace, SkipNamespace, Discover, Stop, ValidateOnly,
       BeginDestroy, RefuseDestroy, StopContainers, FinishStop
<1>3. CASE Delete
  <2>1. DeletionBlocked \/ DeletionFails => pc' \in DeleteSteps \cup {"idle"}
    BY DEF DeletionBlocked, DeletionFails, NotDeleted, KeepGoing, NamespaceSteps, DeleteSteps
  <2>2. QED
    BY <1>3, <2>1 DEF Delete, DeletePort, SkipEndpoint, CheckLink, DeleteLink, EndpointsDeleted,
       CheckNamespace, DeleteNamespace, NamespacesDeleted, DeleteBridge, SkipBridge, BridgesDeleted,
       RollbackDone, DestroyDone, DeleteSteps
<1>4. QED
  BY <1>1, <1>2, <1>3

\* The creation loops record resources in order and never ahead of themselves.
LEMMA CreationNext ==
  ASSUME IdentityInv, [Next]_vars
  PROVE  CreationOrder'
<1>0. mem \in Ledger /\ k \in Nat /\ NB \in Nat /\ NR \in Nat /\ NE \in Nat
  BY SizesAssumption DEF IdentityInv, TypeInv, TypeOK
<1>a. CreationOrder /\ rest \subseteq Namespaces
  BY DEF IdentityInv, TypeInv, TypeOK
<1>1. CASE pc' \notin CreationSteps
  BY <1>1 DEF CreationSteps, CreationOrder
<1>2. CASE RecordIntent
  <2>1. /\ pc' = "addBridge" /\ mem'.br = mem.br /\ mem'.ns = mem.ns /\ mem'.ep = mem.ep
    BY <1>0, <1>2 DEF RecordIntent, Intending, Goto, Save, Ledger
  <2>2. ~mem.intent
    BY <1>2 DEF RecordIntent, IdentityInv, ControlInv
  <2>3. QED
    BY <2>1, <2>2 DEF CreationOrder, IdentityInv, WellFormed
<1>3. CASE RecordBridge
  <2>1. /\ pc = "recordBridge" /\ pc' = "addBridge" /\ k' = k + 1
        /\ mem'.br = [mem.br EXCEPT ![k] = bridge[k].id] /\ mem'.ns = mem.ns /\ mem'.ep = mem.ep
    BY <1>0, <1>3 DEF RecordBridge, Goto, Save, Ledger
  <2>2. \A b \in Bridges : b >= k + 1 => b >= k /\ b # k
    BY <1>0 DEF Bridges
  <2>3. QED
    BY <1>0, <1>a, <2>1, <2>2 DEF CreationOrder, Ledger
<1>4. CASE RecordNamespace
  <2>1. /\ pc = "recordNamespace" /\ pc' = "addNamespace" /\ rest' = rest \ {k}
        /\ mem'.ns = [mem.ns EXCEPT ![k] = netns[k].id] /\ mem'.ep = mem.ep
    BY <1>0, <1>4 DEF RecordNamespace, Save, Ledger
  <2>2. \A r \in rest' : r \in rest /\ mem'.ns[r] = mem.ns[r]
    BY <1>0, <1>a, <2>1 DEF Ledger
  <2>3. QED
    BY <1>a, <2>1, <2>2 DEF CreationOrder
<1>5. CASE RecordEndpoint
  <2>1. /\ pc = "recordEndpoint" /\ pc' = "addLink" /\ k' = k + 1
        /\ mem'.ep = [mem.ep EXCEPT ![k] = got]
    BY <1>0, <1>5 DEF RecordEndpoint, Save, Ledger
  <2>2. \A e \in Endpoints : e >= k + 1 => e >= k /\ e # k
    BY <1>0 DEF Endpoints
  <2>3. QED
    BY <1>0, <1>a, <2>1, <2>2 DEF CreationOrder, Ledger
<1>6. CASE BridgesDone \/ NamespacesDone
  BY <1>6, <1>a DEF BridgesDone, NamespacesDone, Goto, ledgers, CreationOrder
<1>7. CASE AddNamespace
  <2>1. pc = "addNamespace" /\ pc' = "aliasNamespace" /\ k' \in rest /\ rest' = rest /\ mem' = mem
    BY <1>7 DEF AddNamespace, Goto, ledgers
  <2>2. QED
    BY <1>a, <2>1 DEF CreationOrder
<1>8. CASE AddBridge \/ AliasNamespace \/ AddLink \/ AliasLink \/ AddPort \/ MovePeer
  <2>1. /\ k' = k /\ rest' = rest /\ mem' = mem
        /\ \/ pc = "addBridge" /\ pc' = "recordBridge"
           \/ pc = "aliasNamespace" /\ pc' = "recordNamespace"
           \/ pc \in {"addLink", "aliasLink", "addPort", "movePeer"}
                /\ pc' \in {"aliasLink", "addPort", "movePeer", "recordEndpoint"}
    BY <1>8 DEF AddBridge, AliasNamespace, AddLink, AliasLink, AddPort, MovePeer, Goto, ledgers
  <2>2. QED
    BY <1>a, <2>1 DEF CreationOrder
<1>9. CASE ContainerExit \/ Foreign \/ UNCHANGED vars
  <2>1. UNCHANGED <<pc, k, rest, mem>>
    BY <1>9 DEF ContainerExit, Foreign, ForeignBridge, ForeignNamespace, ForeignEndpoint, ForeignStep,
       process, ledgers, vars
  <2>2. QED
    BY <1>a, <2>1 DEF CreationOrder
<1>10. CASE RefuseCollision \/ EndpointsDone \/ FinishCreate \/ UpReturns \/ StartupFails
            \/ CreateBlocked \/ CreateFails
  BY <1>1, <1>10 DEF RefuseCollision, EndpointsDone, FinishCreate, UpReturns, StartupFails,
     CreateBlocked, CreateFails, Rollback, Goto, Exit, CreationSteps
<1>11. QED
  BY <1>1, <1>2, <1>3, <1>4, <1>5, <1>6, <1>7, <1>8, <1>9, <1>10, CleanupNotCreation DEF Next, Create

\* The steps that enter a name window or stand in one, and the captures.
LEMMA WindowSteps ==
  ASSUME [Next]_vars
  PROVE  \/ AddNamespace \/ AddLink \/ AddPort \/ MovePeer \/ CheckLink \/ CheckNamespace
         \/ ContainerExit \/ Foreign \/ UNCHANGED vars
         \/ pc' \notin NameWindows \cup {"movePeer", "recordEndpoint"}
<1> USE DEF NameWindows, Goto, Exit
<1>1. CASE Up \/ Down \/ Crash
  BY <1>1 DEF Up, Down, Crash
<1>2. CASE Recover
  <2>1. pc' \notin CreationSteps
    BY <1>2, CleanupNotCreation
  <2>2. pc' \notin {"deleteLink", "deleteNamespace"}
    <3>1. NamespacesRecovered => pc' \in {"discover", "validate"}
      BY DEF NamespacesRecovered
    <3>2. RefuseNamespace => pc' \in {"stop", "idle"}
      BY DEF RefuseNamespace
    <3>3. QED
      BY <1>2, <3>1, <3>2 DEF Recover, RecoverNamespace, SkipNamespace, Discover, Stop, ValidateOnly,
         BeginDestroy, RefuseDestroy, StopContainers, FinishStop
  <2>3. QED
    BY <2>1, <2>2 DEF CreationSteps
<1>3. CASE Delete
  <2>1. pc' \notin CreationSteps
    BY <1>3, CleanupNotCreation
  <2>2. DeletionBlocked \/ DeletionFails => pc' \notin {"deleteLink", "deleteNamespace"}
    BY DEF DeletionBlocked, DeletionFails, NotDeleted, KeepGoing, NamespaceSteps
  <2>3. CheckLink \/ CheckNamespace \/ pc' \notin {"deleteLink", "deleteNamespace"}
    BY <1>3, <2>2 DEF Delete, DeletePort, SkipEndpoint, DeleteLink, EndpointsDeleted,
       DeleteNamespace, NamespacesDeleted, DeleteBridge, SkipBridge, BridgesDeleted,
       RollbackDone, DestroyDone
  <2>4. QED
    BY <2>1, <2>3 DEF CreationSteps
<1>4. CASE Create
  BY <1>4 DEF Create, RecordIntent, RefuseCollision, AddBridge, RecordBridge, BridgesDone,
     AliasNamespace, RecordNamespace, NamespacesDone, AliasLink, RecordEndpoint, EndpointsDone,
     FinishCreate, UpReturns, StartupFails, CreateBlocked, CreateFails, Rollback
<1>5. QED
  BY <1>1, <1>2, <1>3, <1>4 DEF Next

\* With no window exposed the names and captured identities keep denoting our objects.
LEMMA WindowsNext ==
  ASSUME IdentityInv, [Next]_vars, Exposed = {}
  PROVE  WindowsSafe' /\ CapturedOurs'
<1> USE DEF NameWindows
<1>0. TypeInv
  BY DEF IdentityInv
<1>1. CASE AddNamespace
  <2>1. PICK r \in Namespaces :
          /\ HasFresh(UsedNamespaceIds(r))
          /\ netns' = [netns EXCEPT ![r] = Created(Fresh(UsedNamespaceIds(r)), FALSE, FALSE)]
          /\ pc' = "aliasNamespace" /\ k' = r
    BY <1>0, <1>1 DEF AddNamespace, Goto, TypeInv, TypeOK
  <2>2. netns'[k'].ours
    BY <1>0, <2>1 DEF Created, TypeInv, TypeOK
  <2>3. QED
    BY <2>1, <2>2 DEF WindowsSafe, CapturedOurs
<1>2. CASE AddLink
  <2>1. pc' = "aliasLink" /\ k' = k /\ link'[k].ours
    BY <1>0, <1>2, AddedTypes DEF AddLink, Goto, Created, TypeInv, TypeOK
  <2>2. QED
    BY <2>1 DEF WindowsSafe, CapturedOurs
<1>3. CASE AddPort
  <2>1. /\ pc = "addPort" /\ k \in Endpoints /\ k' = k /\ pc' \in {"movePeer", "recordEndpoint"}
        /\ link' = link /\ port'[k].ours
        /\ got' = [known |-> TRUE, link |-> link[k].id, port |-> Fresh(UsedIds(k))]
    BY <1>0, <1>3 DEF AddPort, Created, TypeInv, TypeOK, IndexOK
  <2>2. link[k].mark => link[k].ours
    <3>1. ~mem.ep[k].known /\ mem.intent /\ mem.expEp = Endpoints
      BY <2>1 DEF IdentityInv, CreationOrder, TypeInv, TypeOK, Endpoints, ControlInv, SameIntent, Working,
         CreateSteps
    <3>2. QED
      BY <2>1, <3>1 DEF IdentityInv, DiskInMem, MarksAreOurs
  <2>3. got'.known
    BY <2>1, KnownRecord
  <2>4. QED
    BY <2>1, <2>2, <2>3 DEF WindowsSafe, CapturedOurs
<1>4. CASE MovePeer
  <2>1. /\ pc = "movePeer" /\ k \in Endpoints /\ k' = k /\ pc' = "recordEndpoint" /\ got' = got
        /\ port' = port /\ link'[k].ours
    BY <1>0, <1>4 DEF MovePeer, PeerMovable, Goto, TypeInv, TypeOK, IndexOK, Object
  <2>2. QED
    BY <2>1 DEF IdentityInv, WindowsSafe, CapturedOurs, Present
<1>5. CASE CheckLink
  <2>1. pc = "checkLink" /\ k \in Endpoints /\ pc' = "deleteLink" /\ k' = k /\ link' = link
    BY <1>0, <1>5 DEF CheckLink, Goto, host, TypeInv, IndexOK
  <2>2. link[k].ours
    BY <1>5, <2>1 DEF CheckLink, IdentityInv, IdentifiesOurs
  <2>3. QED
    BY <2>1, <2>2 DEF WindowsSafe, CapturedOurs
<1>6. CASE CheckNamespace
  <2>1. PICK r \in Namespaces : \/ pc' = pc
                                \/ NamespaceOwned(mem, r) /\ pc' = "deleteNamespace" /\ k' = r
    BY <1>0, <1>6 DEF CheckNamespace, TypeInv, TypeOK
  <2>2. pc = "checkNamespace" /\ netns' = netns
    BY <1>6 DEF CheckNamespace, host
  <2>3. QED
    BY <2>1, <2>2 DEF IdentityInv, IdentifiesOurs, WindowsSafe, CapturedOurs
<1>7. CASE ContainerExit \/ Foreign
  <2>1. /\ HostChange /\ UNCHANGED <<pc, k, got>>
    BY <1>7, HostChanges DEF HostStep, ContainerExit, Foreign, ForeignBridge, ForeignNamespace,
       ForeignEndpoint, ForeignStep, process
  <2>2. CapturedOurs'
    <3>1. SUFFICES ASSUME pc \in {"movePeer", "recordEndpoint"}
                   PROVE  CapturedOurs'
      BY <2>1 DEF CapturedOurs
    <3>2. k \in Endpoints
      BY <1>0, <3>1 DEF TypeInv, IndexOK
    <3>3. QED
      BY <2>1, <3>1, <3>2 DEF IdentityInv, CapturedOurs, HostChange, Changed, UsedIds
  <2>3. WindowsSafe'
    <3>1. CASE pc \notin NameWindows
      BY <2>1, <3>1 DEF WindowsSafe
    <3>2. CASE pc \in NameWindows
      <4>1. ContainerExit
        BY <1>7, <3>2 DEF Foreign, ForeignBridge, ForeignNamespace, ForeignEndpoint, ForeignStep
      <4>2. netns' = netns /\ \A e \in Endpoints : link'[e] = link[e] \/ link'[e] = Absent
        BY <4>1 DEF ContainerExit, LinksWithoutContainers
      <4>3. QED
        BY <1>0, <2>1, <4>2 DEF IdentityInv, WindowsSafe, TypeInv, IndexOK, Absent, Present
    <3>3. QED
      BY <3>1, <3>2
  <2>4. QED
    BY <2>2, <2>3
<1>8. CASE UNCHANGED vars
  BY <1>8 DEF vars, host, process, ledgers, IdentityInv, WindowsSafe, CapturedOurs, Present
<1>9. CASE pc' \notin NameWindows \cup {"movePeer", "recordEndpoint"}
  BY <1>9 DEF WindowsSafe, CapturedOurs
<1>10. QED
  BY <1>1, <1>2, <1>3, <1>4, <1>5, <1>6, <1>7, <1>8, <1>9, WindowSteps

-----------------------------------------------------------------------------

\* The identity invariant holds of an empty host.
LEMMA IdentityInit == Init => IdentityInv
<1> SUFFICES ASSUME Init PROVE IdentityInv
  OBVIOUS
<1>1. TypeInv /\ ControlInv /\ OursExist
  BY InitOrphan DEF OrphanInv
<1>2. DiskInMem /\ WellFormed(mem) /\ WellFormed(disk) /\ CreationOrder
  BY DEF Init, DiskInMem, WellFormed, CreationOrder, NoRecord
<1>3. Bare /\ TiedAreOurs /\ MarksAreOurs /\ IdentifiesOurs(mem)
  BY DEF Init, Bare, TiedAreOurs, MarksAreOurs, IdentifiesOurs, BridgeOwned, NamespaceOwned,
     HostEndpointOwned, OvsEndpointOwned, Present, Absent
<1>4. WindowsSafe /\ CapturedOurs
  BY DEF Init, WindowsSafe, CapturedOurs
<1>5. QED
  BY <1>1, <1>2, <1>3, <1>4 DEF IdentityInv

\* Every step keeps the identity invariant while no name window is exposed.
LEMMA IdentityNext ==
  ASSUME IdentityInv, [Next]_vars, Exposed = {}
  PROVE  IdentityInv'
<1>1. TypeInv' /\ ControlInv' /\ OursExist'
  BY NextType, ControlNext, OursNext DEF IdentityInv
<1>2. LedgerInv' /\ CreationOrder'
  BY LedgerNext, CreationNext
<1>3. Bare' /\ TiedAreOurs' /\ MarksAreOurs' /\ IdentifiesOurs(mem)'
  <2>1. CASE Quiet
    BY <1>2, <2>1, QuietIdentity
  <2>2. CASE HostStep
    BY <1>1, <2>2, HostChanges, HostKeepsLedgers, HostIdentity, BareNext
  <2>3. QED
    BY <2>1, <2>2, HostSteps DEF HostStep
<1>4. WindowsSafe' /\ CapturedOurs'
  BY WindowsNext
<1>5. QED
  BY <1>1, <1>2, <1>3, <1>4 DEF IdentityInv, LedgerInv

\* A ledger record never identifies somebody else's object: whatever is
\* replaced, copied or crashes, an object that passes the ownership checks of
\* endpoint_resources.cpp, namespace_resources.cpp or ovs_resources.cpp was
\* created by GraphX, if nobody acts in the name windows.
THEOREM RecordsSound == Exposed = {} => (Spec => []RecordsIdentifyOurs)
<1> SUFFICES ASSUME Exposed = {} PROVE Spec => []RecordsIdentifyOurs
  OBVIOUS
<1>1. Init => IdentityInv
  BY IdentityInit
<1>2. IdentityInv /\ [Next]_vars => IdentityInv'
  BY IdentityNext
<1>3. IdentityInv => RecordsIdentifyOurs
  BY DEF IdentityInv, RecordsIdentifyOurs, IdentifiesOurs, BridgeOwned, NamespaceOwned,
     HostEndpointOwned, OvsEndpointOwned, Present, DiskInMem, WellFormed
<1>4. QED
  BY <1>1, <1>2, <1>3, PTL DEF Spec

\* One step of ForeignPreserved.
ForeignKept ==
    foreign' = foreign =>
        /\ \A b \in Bridges : Kept(bridge[b], bridge'[b])
        /\ \A b \in Bridges : extra[b] => extra'[b] /\ bridge'[b] = bridge[b]
        /\ \A r \in Namespaces : Kept(netns[r], netns'[r])
        /\ \A e \in Endpoints : Kept(link[e], link'[e]) /\ Kept(port[e], port'[e])

\* Under the identity invariant no step of GraphX touches what is not ours.
LEMMA ForeignKeptNext ==
  ASSUME IdentityInv, [Next]_vars
  PROVE  ForeignKept
<1>0. /\ bridge \in [Bridges -> Object] /\ extra \in [Bridges -> BOOLEAN]
      /\ netns \in [Namespaces -> Object] /\ link \in [Endpoints -> Object]
      /\ port \in [Endpoints -> Object] /\ foreign \in Nat
  BY DEF IdentityInv, TypeInv, TypeOK
<1> USE DEF ForeignKept, Kept
<1>1. CASE Quiet
  BY <1>1 DEF Quiet
<1>2. CASE Foreign
  <2>1. foreign' = foreign + 1
    BY <1>2 DEF Foreign, ForeignBridge, ForeignNamespace, ForeignEndpoint, ForeignStep
  <2>2. QED
    BY <1>0, <2>1
<1>3. CASE ContainerExit \/ StopContainers
  BY <1>0, <1>3 DEF ContainerExit, StopContainers, LinksWithoutContainers, IdentityInv, TiedAreOurs
<1>4. CASE AddBridge
  <2>1. k \in Bridges /\ ~Present(bridge[k]) /\ ~extra[k]
    BY <1>4, AddedTypes DEF AddBridge, IdentityInv, Bare
  <2>2. QED
    BY <1>0, <1>4, <2>1 DEF AddBridge
<1>5. CASE AddNamespace
  BY <1>0, <1>5 DEF AddNamespace
<1>6. CASE AddLink \/ AddPort
  BY <1>0, <1>6 DEF AddLink, AddPort
<1>7. CASE AliasNamespace
  <2>1. netns[k].ours
    BY <1>7 DEF AliasNamespace, IdentityInv, WindowsSafe
  <2>2. QED
    BY <1>0, <1>7, <2>1 DEF AliasNamespace
<1>8. CASE AliasLink \/ MovePeer
  <2>1. link[k].ours
    BY <1>8 DEF AliasLink, MovePeer, PeerMovable, IdentityInv, WindowsSafe
  <2>2. QED
    BY <1>0, <1>8, <2>1 DEF AliasLink, MovePeer
<1>9. CASE DeletePort
  <2>1. k \in Endpoints
    BY <1>9, SizesAssumption DEF DeletePort, Endpoints, IdentityInv, TypeInv, TypeOK, IndexOK
  <2>2. Present(port[k]) => port[k].ours
    BY <1>9, <2>1 DEF DeletePort, PortDeletable, IdentityInv, IdentifiesOurs
  <2>3. QED
    BY <1>0, <1>9, <2>2 DEF DeletePort
<1>10. CASE DeleteLink
  <2>1. Present(link[k]) => link[k].ours
    BY <1>10 DEF DeleteLink, IdentityInv, WindowsSafe
  <2>2. QED
    BY <1>0, <1>10, <2>1 DEF DeleteLink
<1>11. CASE DeleteNamespace
  <2>1. Present(netns[k]) => netns[k].ours
    BY <1>11 DEF DeleteNamespace, IdentityInv, WindowsSafe
  <2>2. QED
    BY <1>0, <1>11, <2>1 DEF DeleteNamespace, LinksWithoutNamespace, IdentityInv, TiedAreOurs
<1>12. CASE DeleteBridge
  <2>1. k \in Bridges /\ bridge[k].ours /\ ~extra[k]
    <3>1. k \in Bridges
      BY <1>12, SizesAssumption DEF DeleteBridge, Bridges, IdentityInv, TypeInv, TypeOK, IndexOK
    <3>2. QED
      BY <1>12, <3>1 DEF DeleteBridge, OnlyInternalPort, IdentityInv, IdentifiesOurs
  <2>2. QED
    BY <1>0, <1>12, <2>1 DEF DeleteBridge
<1>13. QED
  BY <1>1, <1>2, <1>3, <1>4, <1>5, <1>6, <1>7, <1>8, <1>9, <1>10, <1>11, <1>12, HostSteps
     DEF Adding, Altering

\* GraphX never deletes or alters an object it did not create, nor a bridge
\* that carries somebody else's port, if nobody acts in the name windows.
THEOREM ForeignObjectsSafe == Exposed = {} => (Spec => ForeignPreserved)
<1> SUFFICES ASSUME Exposed = {} PROVE Spec => ForeignPreserved
  OBVIOUS
<1>1. Init => IdentityInv
  BY IdentityInit
<1>2. IdentityInv /\ [Next]_vars => IdentityInv'
  BY IdentityNext
<1>3. IdentityInv /\ [Next]_vars => ForeignKept
  BY ForeignKeptNext
<1>4. Spec => [][ForeignKept]_vars
  BY <1>1, <1>2, <1>3, PTL DEF Spec
<1>5. QED
  BY <1>4 DEF ForeignPreserved, ForeignKept
-----------------------------------------------------------------------------
(***************************************************************************)
(* An interrupted cleanup is accepted again: ReplayInv is inductive, and   *)
(* at "validate" a settled ledger is refused by neither check.             *)
(***************************************************************************)

\* Every object of the host stays as it is or vanishes.
OnlyVanish ==
    /\ \A b \in Bridges : bridge'[b] = bridge[b] \/ bridge'[b] = Absent
    /\ \A r \in Namespaces : netns'[r] = netns[r] \/ netns'[r] = Absent
    /\ \A e \in Endpoints : /\ link'[e] = link[e] \/ link'[e] = Absent
                            /\ port'[e] = port[e] \/ port'[e] = Absent

\* The steps that shape what is being created.
Shaping == Adding \/ AliasNamespace \/ AliasLink \/ MovePeer

\* Shaping belongs to creation.
LEMMA ShapingCreates == Shaping => pc \in CreateSteps
BY DEF Shaping, Adding, AddBridge, AddNamespace, AddLink, AddPort, AliasNamespace, AliasLink, MovePeer,
   CreateSteps

\* Whatever else happens on a host nobody else touches, objects only vanish.
LEMMA VanishSteps ==
  ASSUME TypeInv, [Next]_vars, ~Shaping, ~Foreign
  PROVE  OnlyVanish /\ extra' = extra
<1> USE DEF TypeInv, TypeOK, OnlyVanish
<1>1. CASE Quiet
  BY <1>1 DEF Quiet
<1>2. CASE StopContainers
  BY <1>2 DEF StopContainers, LinksWithoutContainers
<1>3. CASE DeletePort
  BY <1>3 DEF DeletePort
<1>4. CASE DeleteLink
  BY <1>4 DEF DeleteLink
<1>5. CASE DeleteNamespace
  BY <1>5 DEF DeleteNamespace, LinksWithoutNamespace
<1>6. CASE DeleteBridge
  BY <1>6 DEF DeleteBridge
<1>7. CASE ContainerExit
  BY <1>7 DEF ContainerExit, LinksWithoutContainers
<1>8. QED
  BY <1>1, <1>2, <1>3, <1>4, <1>5, <1>6, <1>7, HostSteps DEF Altering, Shaping

\* A step that is nobody else's does not count as one.
LEMMA ForeignCount ==
  ASSUME TypeInv, [Next]_vars, foreign' = 0
  PROVE  foreign = 0 /\ ~Foreign
<1>1. ~Foreign
  <2>1. Foreign => foreign' = foreign + 1
    BY DEF Foreign, ForeignBridge, ForeignNamespace, ForeignEndpoint, ForeignStep
  <2>2. foreign \in Nat
    BY DEF TypeInv, TypeOK
  <2>3. QED
    BY <2>1, <2>2
<1>2. foreign' = foreign
  <2>1. CASE Up \/ Down \/ Crash \/ ContainerExit \/ UNCHANGED vars
    BY <2>1 DEF Up, Down, Crash, ContainerExit, vars, counts
  <2>2. CASE Create
    BY <2>2 DEF Create, RecordIntent, RefuseCollision, AddBridge, RecordBridge, BridgesDone, AddNamespace,
       AliasNamespace, RecordNamespace, NamespacesDone, AddLink, AliasLink, AddPort, MovePeer,
       RecordEndpoint, EndpointsDone, FinishCreate, UpReturns, StartupFails, CreateBlocked, CreateFails,
       counts
  <2>3. CASE Recover
    BY <2>3 DEF Recover, RecoverNamespace, SkipNamespace, RefuseNamespace, NamespacesRecovered, Discover,
       Stop, ValidateOnly, BeginDestroy, RefuseDestroy, StopContainers, FinishStop, counts
  <2>4. CASE Delete
    BY <2>4 DEF Delete, DeletePort, SkipEndpoint, CheckLink, DeleteLink, EndpointsDeleted, CheckNamespace,
       DeleteNamespace, NamespacesDeleted, DeleteBridge, SkipBridge, BridgesDeleted, DeletionBlocked,
       DeletionFails, RollbackDone, DestroyDone, counts
  <2>5. QED
    BY <1>1, <2>1, <2>2, <2>3, <2>4 DEF Next
<1>3. QED
  BY <1>1, <1>2

\* Creation puts only our own objects on the host.
LEMMA ShapingOurs ==
  ASSUME TypeInv, NobodyElse, Shaping, foreign = 0
  PROVE  NobodyElse'
<1> USE DEF TypeInv, TypeOK, NobodyElse, Present, Object
<1>1. CASE AddBridge
  BY <1>1 DEF AddBridge, Created
<1>2. CASE AddNamespace
  BY <1>2 DEF AddNamespace, Created
<1>3. CASE AddLink
  BY <1>3 DEF AddLink, Created
<1>4. CASE AddPort
  BY <1>4, FreshId DEF AddPort, Created
<1>5. CASE AliasNamespace
  BY <1>5 DEF AliasNamespace
<1>6. CASE AliasLink
  BY <1>6 DEF AliasLink
<1>7. CASE MovePeer
  BY <1>7 DEF MovePeer
<1>8. QED
  BY <1>1, <1>2, <1>3, <1>4, <1>5, <1>6, <1>7 DEF Shaping, Adding

\* Nobody else's objects appear without somebody else's step.
LEMMA NobodyElseNext ==
  ASSUME TypeInv, NobodyElse, [Next]_vars
  PROVE  NobodyElse'
<1> SUFFICES ASSUME foreign' = 0 PROVE NobodyElse'
  BY DEF NobodyElse
<1>1. foreign = 0 /\ ~Foreign
  BY ForeignCount
<1>2. CASE Shaping
  BY <1>1, <1>2, ShapingOurs
<1>3. CASE ~Shaping
  <2>1. OnlyVanish /\ extra' = extra
    BY <1>1, <1>3, VanishSteps
  <2>2. QED
    BY <1>1, <2>1 DEF OnlyVanish, NobodyElse, Present, Absent
<1>4. QED
  BY <1>2, <1>3

\* What vanishes leaves a ledger settled.
LEMMA SettledShrinks ==
  ASSUME NEW L, Settled(L), OnlyVanish
  PROVE  Settled(L)'
BY DEF Settled, OnlyVanish, Present, Absent

\* The statuses and intents of what is recorded on the way.
LEMMA RecordedStatus ==
  ASSUME NEW L \in Ledger
  PROVE  /\ \A b, i : [L EXCEPT !.br[b] = i].status = L.status
         /\ \A r, i : [L EXCEPT !.ns[r] = i].status = L.status
         /\ \A e, x : [L EXCEPT !.ep[e] = x].status = L.status
         /\ \A s : [L EXCEPT !.status = s].status = s
         /\ Discovered(L).status = L.status
BY DEF Ledger, Discovered

\* The ledger that create prepares says "creating".
LEMMA IntendingStatus ==
  ASSUME mem \in Ledger
  PROVE  \A R, S : Intending(R, S).status = "creating"
BY DEF Ledger, Intending

\* During creation both copies say "creating".
LEMMA CreatingNext ==
  ASSUME TypeInv, CreatingStatus, [Next]_vars
  PROVE  CreatingStatus'
<1>0. mem \in Ledger /\ disk \in Ledger
  BY DEF TypeInv, TypeOK
<1> USE DEF CreatingStatus
<1>1. CASE RecordIntent
  BY <1>0, <1>1, IntendingStatus DEF RecordIntent, Save
<1>2. CASE RecordBridge \/ RecordNamespace \/ RecordEndpoint
  <2>1. pc \in CreateSteps
    BY <1>2 DEF RecordBridge, RecordNamespace, RecordEndpoint, CreateSteps
  <2>2. mem'.status = mem.status /\ disk'.status = mem.status
    <3>1. CASE RecordBridge
      BY <1>0, <3>1, RecordedStatus DEF RecordBridge, Save
    <3>2. CASE RecordNamespace
      BY <1>0, <3>2, RecordedStatus DEF RecordNamespace, Save
    <3>3. CASE RecordEndpoint
      BY <1>0, <3>3, RecordedStatus DEF RecordEndpoint, Save
    <3>4. QED
      BY <1>2, <3>1, <3>2, <3>3
  <2>3. QED
    BY <2>1, <2>2
<1>3. CASE HostStep \/ BridgesDone \/ NamespacesDone \/ EndpointsDone \/ UNCHANGED vars
  <2>1. UNCHANGED ledgers
    BY <1>3, HostKeepsLedgers DEF BridgesDone, NamespacesDone, EndpointsDone, vars
  <2>2. pc' \in CreateSteps => pc \in CreateSteps
    <3>1. CASE Adding \/ BridgesDone \/ NamespacesDone \/ EndpointsDone
      BY <3>1 DEF Adding, AddBridge, AddNamespace, AddLink, AddPort, BridgesDone, NamespacesDone,
         EndpointsDone, CreateSteps
    <3>2. CASE Altering
      BY <3>2 DEF Altering, AliasNamespace, AliasLink, MovePeer, StopContainers, DeletePort, DeleteLink,
         DeleteNamespace, DeleteBridge, Goto, CreateSteps
    <3>3. CASE ContainerExit \/ Foreign \/ UNCHANGED vars
      BY <3>3 DEF ContainerExit, Foreign, ForeignBridge, ForeignNamespace, ForeignEndpoint, ForeignStep,
         process, vars
    <3>4. QED
      BY <1>3, <3>1, <3>2, <3>3 DEF HostStep
  <2>3. QED
    BY <2>1, <2>2 DEF ledgers
<1>4. CASE Up \/ Down \/ Crash \/ RefuseCollision \/ FinishCreate \/ UpReturns \/ StartupFails
           \/ CreateBlocked \/ CreateFails
  BY <1>4 DEF Up, Down, Crash, RefuseCollision, FinishCreate, UpReturns, StartupFails, CreateBlocked,
     CreateFails, Rollback, Goto, Exit, CreateSteps
<1>5. CASE Recover
  BY <1>3, <1>5 DEF Recover, RecoverNamespace, SkipNamespace, RefuseNamespace, NamespacesRecovered,
     Discover, Stop, ValidateOnly, BeginDestroy, RefuseDestroy, FinishStop, Goto, Exit, CreateSteps,
     HostStep, Altering
<1>6. CASE Delete
  <2>1. CASE DeletionBlocked \/ DeletionFails
    <3>1. pc \in DeleteSteps /\ pc' \in DeleteSteps \cup {"idle"}
      BY <2>1 DEF DeletionBlocked, DeletionFails, DeletionRefused, DeletionCommand, NotDeleted, KeepGoing,
         Exit, DeleteSteps, NamespaceSteps
    <3>2. QED
      BY <3>1 DEF DeleteSteps, CreateSteps
  <2>2. CASE CheckNamespace
    BY <2>2 DEF CheckNamespace, CreateSteps
  <2>3. QED
    BY <1>3, <1>6, <2>1, <2>2 DEF Delete, SkipEndpoint, CheckLink, EndpointsDeleted, NamespacesDeleted,
       SkipBridge, BridgesDeleted, RollbackDone, DestroyDone, Goto, CreateSteps, HostStep, Altering
<1>7. QED
  BY <1>1, <1>2, <1>3, <1>4, <1>5, <1>6 DEF Next, Create, HostStep, Adding, Altering

\* A validation that passes, with everything on the host ours, settles the
\* ledger it has completed.
LEMMA ValidatedSettles ==
  ASSUME OrphanInv, NobodyElse, foreign = 0, pc = "validate", ~DestroyRefused
  PROVE  Settled(Discovered(mem))
<1>0. mem \in Ledger
  BY DEF OrphanInv, TypeInv, TypeOK
<1>a. ~AdoptionRefused(mem) /\ ~ValidationRefused(Discovered(mem))
  BY DEF DestroyRefused
<1>1. PICK D : D = Discovered(mem)
  OBVIOUS
<1>2. /\ \A b \in Bridges : D.br[b] = IF mem.br[b] = NoId /\ bridge[b].mark THEN bridge[b].id ELSE mem.br[b]
      /\ D.ns = mem.ns
  BY <1>0, <1>1, DiscoveredParts, DiscoveredIntent
<1>3. \A b \in Bridges : Present(bridge[b]) => D.br[b] = bridge[b].id /\ bridge[b].mark
  <2> SUFFICES ASSUME NEW b \in Bridges, Present(bridge[b])
               PROVE  D.br[b] = bridge[b].id /\ bridge[b].mark
    OBVIOUS
  <2>1. mem.br[b] = NoId => bridge[b].mark
    BY <1>a DEF AdoptionRefused
  <2>2. D.br[b] # NoId => BridgeOwned(D, b)
    BY <1>a, <1>1 DEF ValidationRefused, BridgeCompleteSetOwned
  <2>3. QED
    BY <1>2, <2>1, <2>2 DEF BridgeOwned, Present
<1>4. \A r \in Namespaces : Present(netns[r]) => D.ns[r] = netns[r].id /\ netns[r].mark
  <2> SUFFICES ASSUME NEW r \in Namespaces, Present(netns[r])
               PROVE  D.ns[r] = netns[r].id /\ netns[r].mark
    OBVIOUS
  <2>1. mem.ns[r] # NoId
    BY DEF NobodyElse, OrphanInv, NamespacesCovered
  <2>2. D.ns[r] # NoId => NamespaceOwned(D, r)
    BY <1>a, <1>1 DEF ValidationRefused
  <2>3. QED
    BY <1>2, <2>1, <2>2 DEF NamespaceOwned
<1>5. \A e \in Endpoints : Present(link[e]) \/ Present(port[e]) => D.ep[e].known
  <2> SUFFICES ASSUME NEW e \in Endpoints, Present(link[e]) \/ Present(port[e])
               PROVE  D.ep[e].known
    OBVIOUS
  <2>1. e \in mem.expEp
    BY DEF NobodyElse, OrphanInv, PlannedOnly, ControlInv, SameIntent, Working
  <2>2. D.ep[e] = IF ~mem.ep[e].known
                  THEN [known |-> TRUE, link |-> link[e].id, port |-> port[e].id]
                  ELSE mem.ep[e]
    BY <1>0, <1>1, <2>1 DEF Discovered, Ledger
  <2>3. QED
    BY <2>2, KnownRecord
<1>6. \A e \in Endpoints : Present(link[e]) => D.ep[e].link = link[e].id /\ link[e].mark
  BY <1>a, <1>1, <1>5 DEF ValidationRefused, HostEndpointOwned
<1>7. \A e \in Endpoints : Present(port[e]) => D.ep[e].port = port[e].id /\ port[e].mark
  BY <1>a, <1>1, <1>5 DEF ValidationRefused, NamesAbsentOrRecorded, OvsEndpointOwned
<1>8. QED
  BY <1>1, <1>3, <1>4, <1>5, <1>6, <1>7 DEF Settled

\* Completing a settled ledger from the host leaves it settled.
LEMMA DiscoveredSettled ==
  ASSUME NEW L \in Ledger, Settled(L)
  PROVE  Settled(Discovered(L))
<1>1. PICK D : D = Discovered(L)
  OBVIOUS
<1>2. \A b \in Bridges : D.br[b] = IF L.br[b] = NoId /\ bridge[b].mark THEN bridge[b].id ELSE L.br[b]
  BY <1>1, DiscoveredParts
<1>3. D.ns = L.ns
  BY <1>1, DiscoveredIntent
<1>4. \A e \in Endpoints : D.ep[e] = L.ep[e] \/ ~L.ep[e].known
  BY <1>1, DiscoveredParts
<1>5. QED
  BY <1>1, <1>2, <1>3, <1>4 DEF Settled, Present

\* A copy that a step of an undisturbed host leaves interrupted was so before,
\* or has just been settled.
LEMMA InterruptedNext ==
  ASSUME OrphanInv, NobodyElse, CreatingStatus, Replayable(mem), Replayable(disk),
         foreign = 0, ~Shaping, [Next]_vars, NEW L, L = mem' \/ L = disk', Interrupted(L)
  PROVE  Settled(L)
<1>0. TypeInv /\ mem \in Ledger /\ disk \in Ledger /\ Discovered(mem) \in Ledger
  BY DiscoveredType DEF OrphanInv, TypeInv, TypeOK
<1>a. (Interrupted(mem) => Settled(mem)) /\ (Interrupted(disk) => Settled(disk))
  BY DEF Replayable, Interrupted
<1>1. CASE UNCHANGED ledgers \/ Reverts \/ Flushes
  <2>1. L = mem \/ L = disk
    BY <1>1 DEF ledgers, Reverts, Flushes
  <2>2. QED
    BY <1>a, <2>1
<1>2. CASE Clears
  BY <1>0, <1>2, ClearedIntent DEF Clears, Save, Interrupted
<1>3. CASE Records
  <2>1. mem' = disk' /\ (mem'.status = "creating" \/ mem'.status = "ready" \/ mem'.status = mem.status)
    <3>1. CASE RecordIntent
      BY <1>0, <3>1, IntendingStatus DEF RecordIntent, Save
    <3>2. CASE RecordBridge
      <4>1. mem'.status = mem.status
        BY <1>0, <3>2, RecordedStatus DEF RecordBridge, Save
      <4>2. QED
        BY <3>2, <4>1 DEF RecordBridge, Save
    <3>3. CASE RecordNamespace
      <4>1. mem'.status = mem.status
        BY <1>0, <3>3, RecordedStatus DEF RecordNamespace, Save
      <4>2. QED
        BY <3>3, <4>1 DEF RecordNamespace, Save
    <3>4. CASE RecordEndpoint
      <4>1. mem'.status = mem.status
        BY <1>0, <3>4, RecordedStatus DEF RecordEndpoint, Save
      <4>2. QED
        BY <3>4, <4>1 DEF RecordEndpoint, Save
    <3>5. CASE FinishCreate
      <4>1. mem'.status = "ready"
        BY <1>0, <3>5, RecordedStatus DEF FinishCreate, Save
      <4>2. QED
        BY <3>5, <4>1 DEF FinishCreate, Save
    <3>6. CASE RecoverNamespace
      <4>1. mem'.status = mem.status
        BY <1>0, <3>6, RecordedStatus DEF RecoverNamespace, Save
      <4>2. QED
        BY <3>6, <4>1 DEF RecoverNamespace, Save
    <3>7. QED
      BY <1>3, <3>1, <3>2, <3>3, <3>4, <3>5, <3>6 DEF Records
  <2>2. mem.status = "destroying"
    BY <2>1 DEF Interrupted
  <2>3. pc \notin CreateSteps
    BY <2>2 DEF CreatingStatus
  <2>4. CASE RecordIntent
    BY <1>0, <2>4, IntendingStatus DEF RecordIntent, Save, Interrupted
  <2>5. CASE RecoverNamespace
    <3>1. mem.intent /\ k \in Namespaces
      BY <1>0, <2>5, SizesAssumption DEF RecoverNamespace, OrphanInv, ControlInv, SameIntent, Working,
         TypeInv, TypeOK, IndexOK, Namespaces
    <3>2. Settled(mem)
      BY <1>a, <2>2, <3>1 DEF Interrupted
    <3>3. FALSE
      BY <2>5, <3>1, <3>2 DEF RecoverNamespace, NamespaceUnrecorded, Settled, Present
    <3>4. QED
      BY <3>3
  <2>6. CASE RecordBridge \/ RecordNamespace \/ RecordEndpoint \/ FinishCreate
    BY <2>3, <2>6 DEF RecordBridge, RecordNamespace, RecordEndpoint, FinishCreate, CreateSteps
  <2>7. QED
    BY <1>3, <2>4, <2>5, <2>6 DEF Records
<1>4. CASE Learns
  <2>1. CASE L = disk /\ ~BeginDestroy
    BY <1>a, <2>1
  <2>2. CASE L = Discovered(mem) /\ ~BeginDestroy
    <3>1. Interrupted(mem)
      BY <1>0, <2>2, RecordedStatus, DiscoveredIntent DEF Interrupted, SameIntents
    <3>2. QED
      BY <1>0, <1>a, <2>2, <3>1, DiscoveredSettled
  <2>3. CASE BeginDestroy
    <3>1. Settled(Discovered(mem))
      BY <2>3, ValidatedSettles DEF BeginDestroy
    <3>2. PICK D \in Ledger : D = Discovered(mem)
      BY <1>0
    <3>3. L = [D EXCEPT !.status = "destroying"]
      BY <2>3, <3>2 DEF BeginDestroy, Save
    <3>4. L.br = D.br /\ L.ns = D.ns /\ L.ep = D.ep
      BY <3>2, <3>3 DEF Ledger
    <3>5. QED
      BY <3>1, <3>2, <3>4 DEF Settled
  <2>4. QED
    BY <1>4, <2>1, <2>2, <2>3 DEF Learns, Discover, ValidateOnly
<1>5. CASE Others
  <2>1. ~mem.intent /\ mem = disk
    BY <1>5 DEF Others, RefuseCollision, FinishStop, OrphanInv, ControlInv
  <2>2. CASE RefuseCollision
    <3>1. L = mem \/ L = disk \/ L.status = "creating"
      BY <1>0, <2>2, IntendingStatus DEF RefuseCollision
    <3>2. QED
      BY <2>1, <3>1 DEF Interrupted
  <2>3. CASE FinishStop
    <3>1. L = [mem EXCEPT !.status = "destroying"]
      BY <2>3 DEF FinishStop, Save
    <3>2. SameIntents(L, mem)
      BY <1>0, <3>1, RecordedIntent
    <3>3. QED
      BY <2>1, <3>2 DEF SameIntents, Interrupted
  <2>4. QED
    BY <1>5, <2>2, <2>3 DEF Others
<1>6. QED
  BY <1>1, <1>2, <1>3, <1>4, <1>5, LedgerSteps

\* Both copies stay replayable.
LEMMA ReplayableNext ==
  ASSUME OrphanInv, NobodyElse, CreatingStatus, Replayable(mem), Replayable(disk), [Next]_vars,
         NEW L, L = mem' \/ L = disk', foreign' = 0, Interrupted(L)
  PROVE  Settled(L)'
<1>0. TypeInv
  BY DEF OrphanInv
<1>1. foreign = 0 /\ ~Foreign
  BY <1>0, ForeignCount
<1>2. CASE Shaping
  <2>1. L = mem \/ L = disk
    BY <1>2, HostKeepsLedgers DEF Shaping, HostStep, Altering, ledgers
  <2>2. L.status = "creating"
    BY <1>2, <2>1, ShapingCreates DEF CreatingStatus
  <2>3. QED
    BY <2>2 DEF Interrupted
<1>3. CASE ~Shaping
  <2>1. Settled(L)
    BY <1>1, <1>3, InterruptedNext
  <2>2. OnlyVanish
    BY <1>0, <1>1, <1>3, VanishSteps
  <2>3. QED
    BY <2>1, <2>2, SettledShrinks
<1>4. QED
  BY <1>2, <1>3

\* Neither check refuses a settled ledger of an undisturbed host without TAPs.
LEMMA SettledAccepted ==
  ASSUME NoTaps, OrphanInv, NobodyElse, foreign = 0, Settled(mem)
  PROVE  ~DestroyRefused
<1>0. mem \in Ledger
  BY DEF OrphanInv, TypeInv, TypeOK
<1>1. ~AdoptionRefused(mem)
  <2>1. mem.expEp \subseteq Endpoints
    BY <1>0 DEF Ledger
  <2>2. QED
    BY <2>1 DEF AdoptionRefused, Settled
<1>2. PICK D : D = Discovered(mem)
  OBVIOUS
<1>3. Settled(D)
  BY <1>0, <1>2, DiscoveredSettled
<1>4. \A b \in Bridges : Present(bridge[b]) => BridgeCompleteSetOwned(D, b)
  BY <1>3 DEF Settled, BridgeCompleteSetOwned, BridgeOwned, NobodyElse
<1>5. \A e \in Endpoints :
        /\ Present(link[e]) => HostEndpointOwned(D, e)
        /\ Present(port[e]) => OvsEndpointOwned(D, e) /\ NamesAbsentOrRecorded(D, e)
  BY <1>3 DEF Settled, HostEndpointOwned, OvsEndpointOwned, NamesAbsentOrRecorded
<1>6. \A r \in Namespaces : Present(netns[r]) => NamespaceOwned(D, r)
  BY <1>3 DEF Settled, NamespaceOwned
<1>7. ~ValidationRefused(D)
  BY <1>4, <1>5, <1>6 DEF ValidationRefused, NoTaps, NamesAbsentOrRecorded
<1>8. QED
  BY <1>1, <1>2, <1>7 DEF DestroyRefused

\* Without TAPs, however often the process crashes and whatever commands fail:
\* while nobody else touches the host, a cleanup that was validated once and
\* then interrupted is not refused when `down` is repeated.
THEOREM InterruptedCleanupsReplay == NoTaps => (Spec => []CleanupReplays)
<1> SUFFICES ASSUME NoTaps PROVE Spec => []CleanupReplays
  OBVIOUS
<1>1. Init => ReplayInv
  <2> SUFFICES ASSUME Init PROVE ReplayInv
    OBVIOUS
  <2>1. NobodyElse
    BY DEF Init, NobodyElse, Present, Absent
  <2>2. CreatingStatus /\ Replayable(mem) /\ Replayable(disk)
    BY DEF Init, CreatingStatus, CreateSteps, Replayable, Interrupted
  <2>3. QED
    BY <2>1, <2>2, InitOrphan DEF ReplayInv
<1>2. ReplayInv /\ [Next]_vars => ReplayInv'
  <2> SUFFICES ASSUME ReplayInv, [Next]_vars PROVE ReplayInv'
    OBVIOUS
  <2>1. OrphanInv /\ NobodyElse /\ CreatingStatus /\ Replayable(mem) /\ Replayable(disk) /\ TypeInv
    BY DEF ReplayInv, OrphanInv
  <2>2. OrphanInv'
    BY <2>1, OrphanNext
  <2>3. NobodyElse' /\ CreatingStatus'
    BY <2>1, NobodyElseNext, CreatingNext
  <2>4. Replayable(mem)'
    <3>1. PICK L : L = mem'
      OBVIOUS
    <3>2. foreign' = 0 /\ Interrupted(L) => Settled(L)'
      BY <2>1, <3>1, ReplayableNext
    <3>3. QED
      BY <3>1, <3>2 DEF Replayable, Interrupted, Settled
  <2>5. Replayable(disk)'
    <3>1. PICK L : L = disk'
      OBVIOUS
    <3>2. foreign' = 0 /\ Interrupted(L) => Settled(L)'
      BY <2>1, <3>1, ReplayableNext
    <3>3. QED
      BY <3>1, <3>2 DEF Replayable, Interrupted, Settled
  <2>6. QED
    BY <2>2, <2>3, <2>4, <2>5 DEF ReplayInv
<1>3. ReplayInv => CleanupReplays
  <2> SUFFICES ASSUME ReplayInv, pc = "validate", mem.status = "destroying", foreign = 0
               PROVE  ~DestroyRefused
    BY DEF CleanupReplays
  <2>1. mem.intent
    BY DEF ReplayInv, OrphanInv, ControlInv, SameIntent, Working
  <2>2. Settled(mem)
    BY <2>1 DEF ReplayInv, Replayable, Interrupted
  <2>3. QED
    BY <2>2, SettledAccepted DEF ReplayInv
<1>4. QED
  BY <1>1, <1>2, <1>3, PTL DEF Spec
=============================================================================
