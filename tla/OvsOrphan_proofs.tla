-------------------------- MODULE OvsOrphan_proofs --------------------------
(***************************************************************************)
(* The ledger on disk names everything GraphX created: the invariant       *)
(* OrphanInv is inductive, whatever crashes, fails or is replaced.         *)
(***************************************************************************)
EXTENDS OvsLifecycle_proofs

\* No object becomes ours in this step.
OursShrink ==
    /\ \A b \in Bridges : bridge'[b].ours => bridge[b].ours
    /\ \A r \in Namespaces : netns'[r].ours => netns[r].ours
    /\ \A e \in Endpoints : /\ link'[e].ours => link[e].ours
                            /\ port'[e].ours => port[e].ours

\* The four steps that create something.
Adding == AddBridge \/ AddNamespace \/ AddLink \/ AddPort

\* The steps of the process that only alter or delete objects.
Altering == AliasNamespace \/ AliasLink \/ MovePeer \/ StopContainers \/ DeletePort
            \/ DeleteLink \/ DeleteNamespace \/ DeleteBridge

\* Alias, move and deletion commands never make anything ours.
LEMMA AlteringShrinks ==
  ASSUME TypeInv, OursExist, Altering
  PROVE  OursShrink /\ OursExist'
<1> USE DEF TypeInv, TypeOK, OursShrink, OursExist, Present
<1>1. CASE AliasNamespace
  BY <1>1 DEF AliasNamespace, Object
<1>2. CASE AliasLink
  BY <1>2 DEF AliasLink, Object
<1>3. CASE MovePeer
  BY <1>3 DEF MovePeer, Object
<1>4. CASE StopContainers
  BY <1>4 DEF StopContainers, LinksWithoutContainers, Absent
<1>5. CASE DeletePort
  BY <1>5 DEF DeletePort, Absent
<1>6. CASE DeleteLink
  BY <1>6 DEF DeleteLink, Absent
<1>7. CASE DeleteNamespace
  BY <1>7 DEF DeleteNamespace, LinksWithoutNamespace, Absent
<1>8. CASE DeleteBridge
  BY <1>8 DEF DeleteBridge, Absent
<1>9. QED
  BY <1>1, <1>2, <1>3, <1>4, <1>5, <1>6, <1>7, <1>8 DEF Altering

\* Neither an absent object nor a stranger is ours.
LEMMA NotOurs == ~Absent.ours /\ \A i : \A m \in BOOLEAN : ~Stranger(i, m).ours
BY DEF Absent, Stranger

\* Nobody else makes anything ours.
LEMMA OthersShrink ==
  ASSUME TypeInv, OursExist, ContainerExit \/ Foreign
  PROVE  OursShrink /\ OursExist'
<1> USE DEF TypeInv, TypeOK, OursShrink, OursExist, Present
<1>1. CASE ContainerExit
  BY <1>1 DEF ContainerExit, LinksWithoutContainers, Absent
<1>2. CASE ForeignBridge
  <2>1. PICK b \in Bridges :
          \/ (\E o : ~o.ours /\ bridge' = [bridge EXCEPT ![b] = o]) /\ UNCHANGED port
          \/ bridge' = [bridge EXCEPT ![b] = Absent] /\ port' = PortsWithoutBridge(b)
          \/ UNCHANGED <<bridge, port>>
    BY <1>2, NotOurs DEF ForeignBridge
  <2>2. UNCHANGED <<netns, link>>
    BY <1>2 DEF ForeignBridge
  <2>3. QED
    BY <2>1, <2>2 DEF Absent, PortsWithoutBridge
<1>3. CASE ForeignNamespace
  <2>1. PICK r \in Namespaces :
          \/ (\E o : ~o.ours /\ netns' = [netns EXCEPT ![r] = o]) /\ UNCHANGED link
          \/ netns' = [netns EXCEPT ![r] = Absent] /\ link' = LinksWithoutNamespace(r)
    BY <1>3, NotOurs DEF ForeignNamespace
  <2>2. UNCHANGED <<bridge, port>>
    BY <1>3 DEF ForeignNamespace
  <2>3. QED
    BY <2>1, <2>2 DEF Absent, LinksWithoutNamespace
<1>4. CASE ForeignEndpoint
  <2>1. PICK e \in Endpoints :
          \/ (\E o : ~o.ours /\ link' = [link EXCEPT ![e] = o]) /\ UNCHANGED port
          \/ (\E o : ~o.ours /\ port' = [port EXCEPT ![e] = o]) /\ UNCHANGED link
    BY <1>4, NotOurs DEF ForeignEndpoint
  <2>2. UNCHANGED <<bridge, netns>>
    BY <1>4 DEF ForeignEndpoint
  <2>3. QED
    BY <2>1, <2>2
<1>5. QED
  BY <1>1, <1>2, <1>3, <1>4 DEF Foreign

\* What a creation step makes ours exists.
LEMMA AddingExists ==
  ASSUME TypeInv, OursExist, Adding
  PROVE  OursExist'
<1> USE DEF TypeInv, TypeOK, OursExist, Present
<1>1. CASE AddBridge
  BY <1>1, AddedTypes, FreshId DEF AddBridge, Created
<1>2. CASE AddNamespace
  BY <1>2, FreshId DEF AddNamespace, Created
<1>3. CASE AddLink
  BY <1>3, FreshId DEF AddLink, Created
<1>4. CASE AddPort
  BY <1>4, FreshId DEF AddPort, Created
<1>5. QED
  BY <1>1, <1>2, <1>3, <1>4 DEF Adding

\* Everything else leaves the host objects alone.
Quiet == UNCHANGED <<bridge, extra, netns, link, port>>

\* Every step leaves the host alone, adds to it, alters it, or is somebody else's.
LEMMA HostSteps ==
  ASSUME [Next]_vars
  PROVE  Quiet \/ Adding \/ Altering \/ ContainerExit \/ Foreign
<1> USE DEF Quiet, host, process, ledgers, counts
<1>1. CASE Up \/ Down \/ Crash
  BY <1>1 DEF Up, Down, Crash
<1>2. CASE Create
  <2>1. CASE RecordIntent \/ RefuseCollision \/ RecordBridge \/ BridgesDone \/ RecordNamespace
             \/ NamespacesDone \/ RecordEndpoint \/ EndpointsDone \/ FinishCreate \/ UpReturns
             \/ StartupFails \/ CreateBlocked \/ CreateFails
    BY <2>1 DEF RecordIntent, RefuseCollision, RecordBridge, BridgesDone, RecordNamespace,
       NamespacesDone, RecordEndpoint, EndpointsDone, FinishCreate, UpReturns, StartupFails,
       CreateBlocked, CreateFails
  <2>2. QED
    BY <1>2, <2>1 DEF Create, Adding, Altering
<1>3. CASE Recover
  <2>1. CASE RecoverNamespace \/ SkipNamespace \/ RefuseNamespace \/ NamespacesRecovered \/ Discover
             \/ Stop \/ ValidateOnly \/ BeginDestroy \/ RefuseDestroy \/ FinishStop
    BY <2>1 DEF RecoverNamespace, SkipNamespace, RefuseNamespace, NamespacesRecovered, Discover,
       Stop, ValidateOnly, BeginDestroy, RefuseDestroy, FinishStop
  <2>2. QED
    BY <1>3, <2>1 DEF Recover, Altering
<1>4. CASE Delete
  <2>1. CASE SkipEndpoint \/ CheckLink \/ EndpointsDeleted \/ CheckNamespace \/ NamespacesDeleted
             \/ SkipBridge \/ BridgesDeleted \/ DeletionBlocked \/ DeletionFails
             \/ RollbackDone \/ DestroyDone
    BY <2>1 DEF SkipEndpoint, CheckLink, EndpointsDeleted, CheckNamespace, NamespacesDeleted,
       SkipBridge, BridgesDeleted, DeletionBlocked, DeletionFails, NotDeleted, RollbackDone,
       DestroyDone
  <2>2. QED
    BY <1>4, <2>1 DEF Delete, Altering
<1>5. CASE UNCHANGED vars
  BY <1>5 DEF vars
<1>6. QED
  BY <1>1, <1>2, <1>3, <1>4, <1>5 DEF Next

\* A step keeps OursExist, and creates nothing unless it is one of the four.
LEMMA OursNext ==
  ASSUME TypeInv, OursExist, [Next]_vars
  PROVE  OursExist' /\ (OursShrink \/ Adding)
<1>1. CASE Quiet
  BY <1>1 DEF Quiet, OursExist, OursShrink, Present
<1>2. QED
  BY <1>1, HostSteps, AddingExists, AlteringShrinks, OthersShrink

\* Ledgers with the same intents.
SameIntents(L, M) == L.intent = M.intent /\ L.expNs = M.expNs /\ L.expEp = M.expEp

\* clear_infrastructure forgets every intent.
LEMMA ClearedIntent ==
  ASSUME NEW L \in Ledger
  PROVE  ~ClearedLedger(L).intent
BY DEF ClearedLedger, Ledger

\* Recording an identity or a status keeps the intents.
LEMMA RecordedIntent ==
  ASSUME NEW L \in Ledger
  PROVE  /\ \A b, i : SameIntents([L EXCEPT !.br[b] = i], L)
         /\ \A r, i : SameIntents([L EXCEPT !.ns[r] = i], L)
         /\ \A e, x : SameIntents([L EXCEPT !.ep[e] = x], L)
         /\ \A s : SameIntents([L EXCEPT !.status = s], L)
BY DEF SameIntents, Ledger

\* So does the discovery, which also leaves the namespaces alone.
LEMMA DiscoveredIntent ==
  ASSUME NEW L \in Ledger
  PROVE  SameIntents(Discovered(L), L) /\ Discovered(L).ns = L.ns
BY DEF Discovered, Ledger, SameIntents

\* Intent and control go together.
LEMMA ControlNext ==
  ASSUME TypeInv, ControlInv, [Next]_vars
  PROVE  ControlInv'
<1>0. mem \in Ledger /\ disk \in Ledger
  BY DEF TypeInv, TypeOK
<1> USE DEF ControlInv, SameIntent, Working, CreateSteps, DeleteSteps, ledgers, process, Goto, Exit
<1>1. CASE Up \/ Down \/ Crash
  BY <1>1 DEF Up, Down, Crash
<1>2. CASE Create
  <2>1. CASE RecordIntent
    <3>1. mem' = Intending(Namespaces, Endpoints) /\ disk' = mem'
      BY <2>1 DEF RecordIntent, Save
    <3>2. mem'.intent /\ mem'.expNs = Namespaces /\ mem'.expEp = Endpoints
      BY <3>1, IntendingType DEF TypeInv
    <3>3. QED
      BY <2>1, <3>1, <3>2 DEF RecordIntent
  <2>2. CASE RefuseCollision \/ BridgesDone \/ NamespacesDone \/ EndpointsDone \/ UpReturns
             \/ StartupFails
    BY <2>2 DEF RefuseCollision, BridgesDone, NamespacesDone, EndpointsDone, UpReturns, StartupFails
  <2>3. CASE AddBridge \/ AliasNamespace \/ AddLink \/ AliasLink \/ AddPort \/ MovePeer
    BY <2>3 DEF AddBridge, AliasNamespace, AddLink, AliasLink, AddPort, MovePeer
  <2>4. CASE AddNamespace
    BY <2>4 DEF AddNamespace
  <2>5. CASE RecordBridge \/ RecordNamespace \/ RecordEndpoint \/ FinishCreate
    <3>1. SameIntents(mem', mem) /\ disk' = mem'
      <4>1. CASE RecordBridge
        BY <1>0, <4>1, RecordedIntent DEF RecordBridge, Save
      <4>2. CASE RecordNamespace
        BY <1>0, <4>2, RecordedIntent DEF RecordNamespace, Save
      <4>3. CASE RecordEndpoint
        BY <1>0, <4>3, RecordedIntent DEF RecordEndpoint, Save
      <4>4. CASE FinishCreate
        BY <1>0, <4>4, RecordedIntent DEF FinishCreate, Save
      <4>5. QED
        BY <2>5, <4>1, <4>2, <4>3, <4>4
    <3>2. pc \in CreateSteps /\ pc' \in CreateSteps \cup {"started"} /\ UNCHANGED <<mode, clean>>
      BY <2>5 DEF RecordBridge, RecordNamespace, RecordEndpoint, FinishCreate
    <3>3. QED
      BY <3>1, <3>2 DEF SameIntents
  <2>6. CASE CreateBlocked \/ CreateFails
    BY <2>6 DEF CreateBlocked, CreateFails, Rollback
  <2>7. QED
    BY <1>2, <2>1, <2>2, <2>3, <2>4, <2>5, <2>6 DEF Create
<1>3. CASE Recover
  <2>1. CASE RecoverNamespace
    <3>1. SameIntents(mem', mem) /\ disk' = mem'
      BY <1>0, <2>1, RecordedIntent DEF RecoverNamespace, Save
    <3>2. QED
      BY <2>1, <3>1 DEF RecoverNamespace, SameIntents
  <2>2. CASE SkipNamespace \/ RefuseNamespace \/ NamespacesRecovered \/ StopContainers
    <3>1. CASE SkipNamespace
      BY <3>1 DEF SkipNamespace
    <3>5. CASE StopContainers
      <4>1. CASE mem.intent
        BY <3>5, <4>1 DEF StopContainers
      <4>2. CASE ~mem.intent
        BY <3>5, <4>2 DEF StopContainers
      <4>3. QED
        BY <4>1, <4>2
    <3>2. CASE RefuseNamespace
      <4>1. pc = "recoverNamespaces" /\ disk.intent /\ SameIntent
        BY <3>2 DEF RefuseNamespace
      <4>2. CASE mode = "rollback"
        BY <3>2, <4>1, <4>2 DEF RefuseNamespace
      <4>3. CASE mode # "rollback"
        BY <3>2, <4>3 DEF RefuseNamespace
      <4>4. QED
        BY <4>2, <4>3
    <3>3. CASE NamespacesRecovered
      <4>1. pc' \in {"discover", "validate"} /\ UNCHANGED <<ledgers, mode, clean>>
            /\ pc = "recoverNamespaces"
        BY <3>3 DEF NamespacesRecovered
      <4>2. QED
        BY <4>1
    <3>4. QED
      BY <2>2, <3>1, <3>2, <3>3, <3>5
  <2>3. CASE Discover \/ ValidateOnly
    BY <1>0, <2>3, DiscoveredIntent DEF Discover, ValidateOnly, SameIntents
  <2>4. CASE BeginDestroy
    <3>0. Discovered(mem) \in Ledger
      BY <1>0, DiscoveredType DEF TypeInv
    <3>1. SameIntents(mem', mem) /\ disk' = mem'
      BY <1>0, <2>4, <3>0, DiscoveredIntent, RecordedIntent DEF BeginDestroy, Save, SameIntents
    <3>2. QED
      BY <2>4, <3>1 DEF BeginDestroy, SameIntents
  <2>5. CASE Stop \/ RefuseDestroy
    <3>1. CASE RefuseDestroy
      BY <3>1 DEF RefuseDestroy
    <3>2. CASE Stop /\ mem.intent
      BY <3>2 DEF Stop, Save
    <3>3. CASE Stop /\ ~mem.intent
      BY <3>3 DEF Stop, Save
    <3>4. QED
      BY <2>5, <3>1, <3>2, <3>3
  <2>6. CASE FinishStop
    BY <2>6 DEF FinishStop, Save
  <2>7. QED
    BY <1>3, <2>1, <2>2, <2>3, <2>4, <2>5, <2>6 DEF Recover
<1>4. CASE Delete
  <2>1. CASE DeletePort \/ SkipEndpoint \/ CheckLink \/ DeleteLink \/ EndpointsDeleted
    BY <2>1 DEF DeletePort, SkipEndpoint, CheckLink, DeleteLink, EndpointsDeleted
  <2>2. CASE DeleteNamespace \/ NamespacesDeleted \/ DeleteBridge \/ SkipBridge \/ BridgesDeleted
    BY <2>2 DEF DeleteNamespace, NamespacesDeleted, DeleteBridge, SkipBridge, BridgesDeleted
  <2>3. CASE CheckNamespace
    BY <2>3 DEF CheckNamespace
  <2>4. CASE DeletionBlocked \/ DeletionFails
    BY <2>4 DEF DeletionBlocked, DeletionFails, DeletionRefused, DeletionCommand, NotDeleted,
       KeepGoing, NamespaceSteps
  <2>5. CASE RollbackDone
    BY <1>0, <2>5, ClearedIntent DEF RollbackDone, Save
  <2>6. CASE DestroyDone
    BY <1>0, <2>6, ClearedIntent DEF DestroyDone, Save
  <2>7. QED
    BY <1>4, <2>1, <2>2, <2>3, <2>4, <2>5, <2>6 DEF Delete
<1>5. CASE ContainerExit \/ Foreign \/ UNCHANGED vars
  BY <1>5 DEF ContainerExit, Foreign, ForeignBridge, ForeignNamespace, ForeignEndpoint, ForeignStep, vars
<1>6. QED
  BY <1>1, <1>2, <1>3, <1>4, <1>5 DEF Next

\* Where no cleanup is under way there is nothing to cover or to have removed.
Elsewhere == pc \notin DeleteSteps \cup {"discover", "validate"}
               /\ (pc = "recoverNamespaces" => k = 1)

CleanupInv == NamespacesCovered /\ Covered /\ Progress

\* Outside the cleanup steps the cleanup invariant says nothing.
LEMMA ElsewhereTrivial ==
  ASSUME TypeInv', Elsewhere'
  PROVE  CleanupInv'
BY DEF Elsewhere, CleanupInv, NamespacesCovered, Covered, Progress, EndpointsGone, NamespacesGone,
   BridgesGone, DeleteSteps, Namespaces, TypeInv, TypeOK

\* Steps of others change neither the ledger nor the control.
LEMMA CleanupStable ==
  ASSUME TypeInv, CleanupInv, OursShrink, UNCHANGED <<ledgers, process>>
  PROVE  CleanupInv'
<1> USE DEF CleanupInv, Progress, OursShrink, ledgers, process
<1>1. \A e \in Endpoints : Gone(e) => Gone(e)'
  BY DEF Gone
<1>2. NamespacesCovered'
  BY DEF NamespacesCovered
<1>3. Covered'
  BY <1>1 DEF Covered
<1>4. EndpointsGone'
  <2>1. CASE pc \in {"checkLink", "deleteLink"} /\ clean
    BY <1>1, <2>1 DEF EndpointsGone, TypeInv, IndexOK
  <2>2. CASE pc \notin {"checkLink", "deleteLink"} \/ ~clean
    BY <1>1, <2>2 DEF EndpointsGone
  <2>3. QED
    BY <2>1, <2>2
<1>5. NamespacesGone' /\ BridgesGone'
  BY DEF NamespacesGone, BridgesGone
<1>6. QED
  BY <1>2, <1>3, <1>4, <1>5

\* The steps that do not lead into a cleanup loop.
LEMMA CreateElsewhere ==
  ASSUME TypeInv, Up \/ Down \/ Create \/ Crash \/ Stop \/ RefuseDestroy \/ RefuseNamespace
                  \/ ValidateOnly \/ StopContainers \/ FinishStop \/ RollbackDone \/ DestroyDone
  PROVE  Elsewhere'
<1> USE DEF Elsewhere, DeleteSteps, Goto, Exit
<1>1. CASE Up \/ Down \/ Crash \/ RefuseDestroy \/ ValidateOnly \/ StopContainers
           \/ FinishStop \/ RollbackDone \/ DestroyDone
  BY <1>1 DEF Up, Down, Crash, RefuseDestroy, ValidateOnly, StopContainers, FinishStop, RollbackDone,
     DestroyDone
<1>2. CASE Stop
  BY <1>2 DEF Stop
<1>3. CASE RefuseNamespace
  BY <1>3 DEF RefuseNamespace
<1>4. CASE Create
  <2>1. CASE RecordIntent \/ RefuseCollision \/ BridgesDone \/ NamespacesDone \/ EndpointsDone
             \/ UpReturns \/ StartupFails \/ FinishCreate
    BY <2>1 DEF RecordIntent, RefuseCollision, BridgesDone, NamespacesDone, EndpointsDone,
       UpReturns, StartupFails, FinishCreate
  <2>2. CASE AddBridge \/ AliasNamespace \/ AddLink \/ AliasLink \/ AddPort \/ MovePeer
             \/ RecordBridge \/ RecordNamespace \/ RecordEndpoint
    BY <2>2 DEF AddBridge, AliasNamespace, AddLink, AliasLink, AddPort, MovePeer,
       RecordBridge, RecordNamespace, RecordEndpoint
  <2>3. CASE AddNamespace
    BY <2>3 DEF AddNamespace
  <2>4. CASE CreateBlocked \/ CreateFails
    BY <2>4 DEF CreateBlocked, CreateFails, Rollback
  <2>5. QED
    BY <1>4, <2>1, <2>2, <2>3, <2>4 DEF Create
<1>5. QED
  BY <1>1, <1>2, <1>3, <1>4

\* The ledger that a discovery or an adoption computes names everything of ours
\* but the namespaces, which recover_namespaces has recorded before.
LEMMA DiscoveredCovers ==
  ASSUME TypeInv, OursExist, PlannedOnly, NEW L \in Ledger, L.expEp = disk.expEp
  PROVE  /\ \A b \in Bridges : Discovered(L).br[b] = NoId => ~bridge[b].ours
         /\ \A e \in Endpoints : ~Discovered(L).ep[e].known => Gone(e)
<1>1. \A b \in Bridges :
        Discovered(L).br[b] = IF L.br[b] = NoId /\ bridge[b].mark THEN bridge[b].id ELSE L.br[b]
  BY DEF Discovered, Ledger
<1>2. \A e \in Endpoints :
        e \in L.expEp /\ ~L.ep[e].known /\ (Present(link[e]) \/ Present(port[e]))
          => Discovered(L).ep[e].known
  BY DEF Discovered, Ledger
<1>3. \A e \in Endpoints : L.ep[e].known => Discovered(L).ep[e].known
  BY DEF Discovered, Ledger
<1>4. QED
  BY <1>1, <1>2, <1>3 DEF OursExist, PlannedOnly, Gone, Present

\* recover_namespaces, discovery and adoption establish what the deletion loops rely on.
LEMMA RecoverCleanup ==
  ASSUME TypeInv, ControlInv, OursExist, PlannedOnly, CleanupInv, Recover, OursShrink
  PROVE  CleanupInv'
<1> TypeInv'
  BY NextType DEF Next
<1>1. CASE RecoverNamespace
  <2>1. k \in Namespaces /\ mem' = [mem EXCEPT !.ns[k] = netns[k].id] /\ netns[k].id # NoId
    BY <1>1, AddedTypes DEF RecoverNamespace, Save, NamespaceUnrecorded, Present
  <2>2. \A r \in Namespaces : r # k => mem'.ns[r] = mem.ns[r]
    BY <2>1 DEF TypeInv, TypeOK, Ledger
  <2>3. mem'.ns[k] # NoId
    BY <2>1 DEF TypeInv, TypeOK, Ledger
  <2>4. pc = "recoverNamespaces" /\ pc' = "recoverNamespaces" /\ k' = k + 1
    BY <1>1 DEF RecoverNamespace, Goto
  <2>5. \A r \in Namespaces : r < k' /\ mem'.ns[r] = NoId => ~netns'[r].ours
    BY <2>1, <2>2, <2>3, <2>4 DEF CleanupInv, NamespacesCovered, OursShrink, Namespaces
  <2>6. QED
    BY <2>4, <2>5 DEF CleanupInv, NamespacesCovered, Covered, Progress, EndpointsGone,
       NamespacesGone, BridgesGone, DeleteSteps
<1>2. CASE SkipNamespace
  <2>1. pc = "recoverNamespaces" /\ pc' = "recoverNamespaces" /\ k' = k + 1 /\ mem' = mem
    BY <1>2 DEF SkipNamespace, Goto, ledgers
  <2>2. k \in Namespaces /\ (mem.ns[k] = NoId => ~netns[k].ours)
    <3>1. k \in Namespaces /\ mem.expNs = disk.expNs
      BY <1>2, SizesAssumption DEF SkipNamespace, TypeInv, TypeOK, IndexOK, Namespaces, ControlInv,
         SameIntent, Working
    <3>2. QED
      BY <1>2, <3>1 DEF SkipNamespace, NamespaceUnrecorded, OursExist, PlannedOnly
  <2>3. \A r \in Namespaces : r < k' /\ mem'.ns[r] = NoId => ~netns'[r].ours
    BY <2>1, <2>2 DEF CleanupInv, NamespacesCovered, OursShrink, Namespaces
  <2>4. QED
    BY <2>1, <2>3 DEF CleanupInv, NamespacesCovered, Covered, Progress, EndpointsGone,
       NamespacesGone, BridgesGone, DeleteSteps
<1>3. CASE NamespacesRecovered
  <2>1. pc = "recoverNamespaces" /\ pc' \in {"discover", "validate"} /\ mem' = mem /\ k > NR
    BY <1>3 DEF NamespacesRecovered, Goto, ledgers
  <2>2. \A r \in Namespaces : r < k
    BY <2>1, SizesAssumption DEF Namespaces, TypeInv, TypeOK
  <2>3. \A r \in Namespaces : mem'.ns[r] = NoId => ~netns'[r].ours
    BY <2>1, <2>2 DEF CleanupInv, NamespacesCovered, OursShrink
  <2>4. QED
    BY <2>1, <2>3 DEF CleanupInv, NamespacesCovered, Covered, Progress, EndpointsGone,
       NamespacesGone, BridgesGone, DeleteSteps
<1>4. CASE Discover \/ BeginDestroy
  <2>1. pc \in {"discover", "validate"} /\ pc' = "deleteEndpoint" /\ k' = NE /\ Quiet
    BY <1>4 DEF Discover, BeginDestroy, Goto, host, Quiet
  <2>2. mem' = Discovered(mem) \/ mem' = [Discovered(mem) EXCEPT !.status = "destroying"]
    BY <1>4 DEF Discover, BeginDestroy, Save
  <2>3. mem \in Ledger /\ Discovered(mem) \in Ledger
    BY DiscoveredType DEF TypeInv, TypeOK
  <2>4. mem'.br = Discovered(mem).br /\ mem'.ns = mem.ns /\ mem'.ep = Discovered(mem).ep
    BY <2>2, <2>3, DiscoveredIntent DEF Ledger
  <2>5. NamespacesCovered'
    BY <2>1, <2>4 DEF CleanupInv, NamespacesCovered, Quiet, DeleteSteps
  <2>6. Covered'
    <3>1. mem.expEp = disk.expEp
      BY <2>1 DEF ControlInv, SameIntent, Working
    <3>2. QED
      BY <2>1, <2>3, <2>4, <3>1, DiscoveredCovers DEF Covered, Quiet, Gone
  <2>7. Progress'
    BY <2>1, SizesAssumption DEF Progress, EndpointsGone, NamespacesGone, BridgesGone, Endpoints
  <2>8. QED
    BY <2>5, <2>6, <2>7 DEF CleanupInv
<1>5. CASE Stop \/ RefuseDestroy \/ RefuseNamespace \/ ValidateOnly \/ StopContainers \/ FinishStop
  BY <1>5, CreateElsewhere, ElsewhereTrivial
<1>6. QED
  BY <1>1, <1>2, <1>3, <1>4, <1>5 DEF Recover

\* Deleting keeps the ledger in memory, so what it covers stays covered.
LEMMA DeleteCovers ==
  ASSUME CleanupInv, OursShrink, mem' = mem, pc \in DeleteSteps
  PROVE  NamespacesCovered' /\ Covered'
BY DEF CleanupInv, NamespacesCovered, Covered, Gone, OursShrink, DeleteSteps

\* Every deletion step keeps what the cleanup has achieved so far.
LEMMA DeleteCleanup ==
  ASSUME TypeInv, OursExist, CleanupInv, Delete, OursShrink
  PROVE  CleanupInv'
<1> TypeInv'
  BY NextType DEF Next
<1>0. pc \in DeleteSteps
  <2>1. DeletionBlocked \/ DeletionFails => pc \in DeleteSteps
    BY DEF DeletionBlocked, DeletionFails, DeletionRefused, DeletionCommand, DeleteSteps
  <2>2. QED
    BY <2>1 DEF Delete, DeletePort, SkipEndpoint, CheckLink, DeleteLink, EndpointsDeleted,
       CheckNamespace, DeleteNamespace, NamespacesDeleted, DeleteBridge, SkipBridge, BridgesDeleted,
       RollbackDone, DestroyDone, DeleteSteps
<1> USE DEF CleanupInv
<1>1. CASE DeletePort
  <2>1. /\ pc = "deleteEndpoint" /\ pc' = "checkLink" /\ k' = k /\ k \in Endpoints /\ mem' = mem
        /\ clean' = clean
    BY <1>1, SizesAssumption DEF DeletePort, Goto, ledgers, TypeInv, TypeOK, IndexOK, Endpoints
  <2>2. ~port'[k].ours
    BY <1>1, <2>1 DEF DeletePort, Absent, TypeInv, TypeOK
  <2>3. clean => \A e \in Endpoints : e > k' => Gone(e)'
    BY <2>1 DEF Progress, EndpointsGone, Gone, OursShrink
  <2>4. EndpointsGone'
    BY <2>1, <2>2, <2>3 DEF EndpointsGone
  <2>5. QED
    BY <1>0, <2>1, <2>4, DeleteCovers DEF Progress, NamespacesGone, BridgesGone
<1>2. CASE SkipEndpoint
  <2>1. /\ pc \in {"deleteEndpoint", "checkLink"} /\ pc' = "deleteEndpoint" /\ k' = k - 1
        /\ k \in Endpoints /\ mem' = mem /\ clean' = clean
    BY <1>2, SizesAssumption DEF SkipEndpoint, Goto, ledgers, TypeInv, TypeOK, IndexOK, Endpoints
  <2>2. clean => Gone(k)
    <3>1. CASE pc = "deleteEndpoint" /\ ~mem.ep[k].known
      BY <2>1, <3>1 DEF Covered, DeleteSteps
    <3>2. CASE pc = "checkLink" /\ ~Present(link[k])
      BY <2>1, <3>2 DEF Progress, EndpointsGone, Gone, OursExist
    <3>3. QED
      BY <1>2, <3>1, <3>2 DEF SkipEndpoint
  <2>3. clean => \A e \in Endpoints : e > k' => Gone(e)
    <3>1. \A e \in Endpoints : e > k' => e = k \/ e > k
      BY <2>1 DEF Endpoints, TypeInv, TypeOK
    <3>2. QED
      BY <2>1, <2>2, <3>1 DEF Progress, EndpointsGone
  <2>4. EndpointsGone'
    BY <2>1, <2>3 DEF EndpointsGone, Gone, OursShrink
  <2>5. QED
    BY <1>0, <2>1, <2>4, DeleteCovers DEF Progress, NamespacesGone, BridgesGone
<1>3. CASE CheckLink
  <2>1. /\ pc = "checkLink" /\ pc' = "deleteLink" /\ k' = k /\ k \in Endpoints /\ mem' = mem
        /\ clean' = clean
    BY <1>3 DEF CheckLink, Goto, ledgers, TypeInv, IndexOK
  <2>2. EndpointsGone'
    BY <2>1 DEF Progress, EndpointsGone, Gone, OursShrink
  <2>3. QED
    BY <1>0, <2>1, <2>2, DeleteCovers DEF Progress, NamespacesGone, BridgesGone
<1>4. CASE DeleteLink
  <2>1. /\ pc = "deleteLink" /\ pc' = "deleteEndpoint" /\ k' = k - 1
        /\ k \in Endpoints /\ mem' = mem /\ clean' = clean
    BY <1>4 DEF DeleteLink, Goto, ledgers, TypeInv, IndexOK
  <2>2. ~link'[k].ours /\ (clean => ~port'[k].ours)
    <3>1. ~link'[k].ours
      BY <1>4, <2>1 DEF DeleteLink, Absent, TypeInv, TypeOK
    <3>2. clean => ~port'[k].ours
      BY <2>1 DEF Progress, EndpointsGone, OursShrink
    <3>3. QED
      BY <3>1, <3>2
  <2>3. clean => \A e \in Endpoints : e > k' => ~link'[e].ours /\ ~port'[e].ours
    <3>1. \A e \in Endpoints : e > k' => e = k \/ e > k
      BY <2>1 DEF Endpoints, TypeInv, TypeOK
    <3>2. QED
      BY <2>1, <2>2, <3>1 DEF Progress, EndpointsGone, Gone, OursShrink
  <2>4. EndpointsGone'
    BY <2>1, <2>3 DEF EndpointsGone, Gone
  <2>5. QED
    BY <1>0, <2>1, <2>4, DeleteCovers DEF Progress, NamespacesGone, BridgesGone
<1>5. CASE EndpointsDeleted
  <2>1. /\ pc = "deleteEndpoint" /\ k = 0 /\ pc' = "checkNamespace" /\ mem' = mem /\ clean' = clean
        /\ rest' = {r \in Namespaces : mem.ns[r] # NoId}
    BY <1>5 DEF EndpointsDeleted, ledgers
  <2>2. EndpointsGone'
    BY <2>1 DEF Progress, EndpointsGone, Gone, OursShrink, Endpoints
  <2>3. NamespacesGone'
    BY <2>1 DEF NamespacesCovered, NamespacesGone, OursShrink, DeleteSteps
  <2>4. QED
    BY <1>0, <2>1, <2>2, <2>3, DeleteCovers DEF Progress, BridgesGone
<1>6. CASE CheckNamespace
  <2>1. pc = "checkNamespace" /\ mem' = mem /\ clean' = clean
        /\ pc' \in {"checkNamespace", "deleteNamespace"}
    BY <1>6 DEF CheckNamespace, ledgers
  <2>2. EndpointsGone'
    BY <2>1 DEF Progress, EndpointsGone, Gone, OursShrink
  <2>3. \A r \in Namespaces : r \notin rest' => r \notin rest \/ ~netns[r].ours
    BY <1>6 DEF CheckNamespace, OursExist
  <2>4. NamespacesGone'
    BY <2>1, <2>3 DEF Progress, NamespacesGone, OursShrink
  <2>5. QED
    BY <1>0, <2>1, <2>2, <2>4, DeleteCovers DEF Progress, BridgesGone
<1>7. CASE DeleteNamespace
  <2>1. /\ pc = "deleteNamespace" /\ pc' = "checkNamespace" /\ mem' = mem /\ clean' = clean
        /\ rest' = rest \ {k} /\ k \in Namespaces
    BY <1>7 DEF DeleteNamespace, ledgers, TypeInv, IndexOK
  <2>2. EndpointsGone'
    BY <2>1 DEF Progress, EndpointsGone, Gone, OursShrink
  <2>3. ~netns'[k].ours
    BY <1>7, <2>1 DEF DeleteNamespace, Absent, TypeInv, TypeOK
  <2>4. NamespacesGone'
    BY <2>1, <2>3 DEF Progress, NamespacesGone, OursShrink
  <2>5. QED
    BY <1>0, <2>1, <2>2, <2>4, DeleteCovers DEF Progress, BridgesGone
<1>8. CASE NamespacesDeleted
  <2>1. /\ pc = "checkNamespace" /\ pc' = "deleteBridge" /\ k' = NB /\ mem' = mem /\ clean' = clean
        /\ rest = {}
    BY <1>8 DEF NamespacesDeleted, Goto, ledgers
  <2>2. EndpointsGone' /\ NamespacesGone'
    BY <2>1 DEF Progress, EndpointsGone, NamespacesGone, Gone, OursShrink
  <2>3. BridgesGone'
    BY <2>1, SizesAssumption DEF BridgesGone, Bridges
  <2>4. QED
    BY <1>0, <2>1, <2>2, <2>3, DeleteCovers DEF Progress
<1>9. CASE DeleteBridge \/ SkipBridge
  <2>1. /\ pc = "deleteBridge" /\ pc' = "deleteBridge" /\ k' = k - 1 /\ k \in Bridges /\ mem' = mem
        /\ clean' = clean
    BY <1>9, SizesAssumption DEF DeleteBridge, SkipBridge, Goto, ledgers, TypeInv, TypeOK, IndexOK, Bridges
  <2>2. EndpointsGone' /\ NamespacesGone'
    BY <2>1 DEF Progress, EndpointsGone, NamespacesGone, Gone, OursShrink
  <2>3. ~bridge'[k].ours
    <3>1. CASE DeleteBridge
      BY <2>1, <3>1 DEF DeleteBridge, Absent, TypeInv, TypeOK
    <3>2. CASE SkipBridge
      BY <2>1, <3>2 DEF SkipBridge, Covered, OursExist, OursShrink, DeleteSteps
    <3>3. QED
      BY <1>9, <3>1, <3>2
  <2>4. BridgesGone'
    <3>1. \A b \in Bridges : b > k' => b = k \/ b > k
      BY <2>1 DEF Bridges, TypeInv, TypeOK
    <3>2. QED
      BY <2>1, <2>3, <3>1 DEF Progress, BridgesGone, OursShrink
  <2>5. QED
    BY <1>0, <2>1, <2>2, <2>4, DeleteCovers DEF Progress
<1>10. CASE BridgesDeleted
  <2>1. pc = "deleteBridge" /\ k = 0 /\ pc' = "clear" /\ mem' = mem /\ clean' = clean
    BY <1>10 DEF BridgesDeleted, Goto, ledgers
  <2>2. EndpointsGone' /\ NamespacesGone'
    BY <2>1 DEF Progress, EndpointsGone, NamespacesGone, Gone, OursShrink
  <2>3. BridgesGone'
    BY <2>1 DEF Progress, BridgesGone, OursShrink, Bridges
  <2>4. QED
    BY <1>0, <2>1, <2>2, <2>3, DeleteCovers DEF Progress
<1>11. CASE DeletionBlocked \/ DeletionFails
  <2>1. PICK r : NotDeleted(r)
    BY <1>11 DEF DeletionBlocked, DeletionFails
  <2>2. CASE mode = "rollback"
    <3>1. ~clean' /\ mem' = mem
      BY <2>1, <2>2 DEF NotDeleted, KeepGoing
    <3>2. QED
      BY <1>0, <3>1, DeleteCovers DEF Progress, EndpointsGone, NamespacesGone, BridgesGone
  <2>3. CASE mode # "rollback"
    BY <2>1, <2>3, ElsewhereTrivial DEF NotDeleted, Exit, Elsewhere, DeleteSteps
  <2>4. QED
    BY <2>2, <2>3
<1>12. CASE RollbackDone \/ DestroyDone
  BY <1>12, CreateElsewhere, ElsewhereTrivial
<1>13. QED
  BY <1>1, <1>2, <1>3, <1>4, <1>5, <1>6, <1>7, <1>8, <1>9, <1>10, <1>11, <1>12 DEF Delete

\* Only the two clearing steps change an intent that is on disk, and something
\* is created only after every intent is there.
LEMMA IntentKept ==
  ASSUME TypeInv, ControlInv, [Next]_vars, ~(RollbackDone \/ DestroyDone)
  PROVE  /\ disk.intent => SameIntents(disk', disk)
         /\ Adding => disk.intent /\ disk.expNs = Namespaces /\ disk.expEp = Endpoints
<1>0. mem \in Ledger /\ disk \in Ledger /\ Discovered(mem) \in Ledger
  BY DiscoveredType DEF TypeInv, TypeOK
<1>1. Adding => disk.intent /\ disk.expNs = Namespaces /\ disk.expEp = Endpoints
  BY DEF Adding, AddBridge, AddNamespace, AddLink, AddPort, ControlInv, SameIntent, Working, CreateSteps
<1>2. disk.intent => SameIntents(disk', disk)
  <2>1. CASE disk' = disk
    BY <2>1 DEF SameIntents
  <2>2. CASE SameIntents(disk', mem) /\ pc \in Working
    BY <2>2 DEF ControlInv, SameIntent, SameIntents
  <2>3. QED
    <3>1. CASE Create
      <4>1. RefuseCollision \/ AddBridge \/ BridgesDone \/ AddNamespace \/ AliasNamespace
            \/ NamespacesDone \/ AddLink \/ AliasLink \/ AddPort \/ MovePeer \/ EndpointsDone
            \/ UpReturns \/ StartupFails \/ CreateBlocked \/ CreateFails => disk' = disk
        BY DEF RefuseCollision, AddBridge, BridgesDone, AddNamespace, AliasNamespace,
           NamespacesDone, AddLink, AliasLink, AddPort, MovePeer, EndpointsDone, UpReturns,
           StartupFails, CreateBlocked, CreateFails, ledgers
      <4>2. RecordIntent => ~disk.intent
        BY DEF RecordIntent, ControlInv
      <4>3. RecordBridge \/ RecordNamespace \/ RecordEndpoint \/ FinishCreate => pc \in Working
        BY DEF RecordBridge, RecordNamespace, RecordEndpoint, FinishCreate, Working, CreateSteps
      <4>4. RecordBridge => SameIntents(disk', mem)
        BY <1>0 DEF RecordBridge, Save, SameIntents, Ledger
      <4>5. RecordNamespace => SameIntents(disk', mem)
        BY <1>0 DEF RecordNamespace, Save, SameIntents, Ledger
      <4>6. RecordEndpoint => SameIntents(disk', mem)
        BY <1>0 DEF RecordEndpoint, Save, SameIntents, Ledger
      <4>7. FinishCreate => SameIntents(disk', mem)
        BY <1>0, RecordedIntent DEF FinishCreate, Save
      <4>8. QED
        BY <2>1, <2>2, <3>1, <4>1, <4>2, <4>3, <4>4, <4>5, <4>6, <4>7 DEF Create
    <3>2. CASE Recover
      <4>1. SkipNamespace \/ RefuseNamespace \/ NamespacesRecovered \/ Discover \/ ValidateOnly
            \/ RefuseDestroy => disk' = disk
        BY DEF SkipNamespace, RefuseNamespace, NamespacesRecovered, Discover, ValidateOnly,
           RefuseDestroy, ledgers
      <4>2. RecoverNamespace => SameIntents(disk', mem) /\ pc \in Working
        BY <1>0 DEF RecoverNamespace, Save, Working, SameIntents, Ledger
      <4>3. BeginDestroy => SameIntents(disk', mem) /\ pc \in Working
        BY <1>0, DiscoveredIntent, RecordedIntent DEF BeginDestroy, Save, Working, SameIntents
      <4>4. Stop /\ disk.intent => SameIntents(disk', disk)
        BY DEF Stop, Save, ControlInv, SameIntent, SameIntents
      <4>5. (StopContainers => disk' = disk) /\ (FinishStop => ~disk.intent)
        BY DEF StopContainers, FinishStop, ControlInv, ledgers
      <4>6. QED
        BY <2>1, <2>2, <3>2, <4>1, <4>2, <4>3, <4>4, <4>5 DEF Recover
    <3>3. CASE Delete
      <4>1. disk' = disk
        BY <3>3 DEF Delete, DeletePort, SkipEndpoint, CheckLink, DeleteLink, EndpointsDeleted,
           CheckNamespace, DeleteNamespace, NamespacesDeleted, DeleteBridge, SkipBridge,
           BridgesDeleted, DeletionBlocked, DeletionFails, NotDeleted, KeepGoing, ledgers
      <4>2. QED
        BY <2>1, <4>1
    <3>4. CASE Up \/ Down \/ Crash \/ ContainerExit \/ Foreign \/ UNCHANGED vars
      <4>1. disk' = disk
        BY <3>4 DEF Up, Down, Crash, ContainerExit, Foreign, ForeignBridge, ForeignNamespace,
           ForeignEndpoint, ForeignStep, vars, ledgers
      <4>2. QED
        BY <2>1, <4>1
    <3>5. QED
      BY <3>1, <3>2, <3>3, <3>4 DEF Next
<1>3. QED
  BY <1>1, <1>2

\* What is ours stays covered by the intents on disk.
LEMMA NoOrphanNext ==
  ASSUME OrphanInv, [Next]_vars
  PROVE  NoOrphan' /\ PlannedOnly'
<1> USE DEF OrphanInv
<1>1. CASE RollbackDone \/ DestroyDone
  <2>1. pc = "clear" /\ Quiet
    BY <1>1 DEF RollbackDone, DestroyDone, Quiet, host
  <2>2. clean => /\ \A b \in Bridges : ~bridge[b].ours
                 /\ \A r \in Namespaces : ~netns[r].ours
                 /\ \A e \in Endpoints : Gone(e)
    BY <2>1 DEF Progress, EndpointsGone, NamespacesGone, BridgesGone
  <2>3. ~clean => disk'.intent /\ disk'.expNs = disk.expNs /\ disk'.expEp = disk.expEp
    BY <1>1, <2>1 DEF RollbackDone, DestroyDone, Save, ControlInv, SameIntent, Working, DeleteSteps
  <2>4. QED
    BY <2>1, <2>2, <2>3 DEF NoOrphan, PlannedOnly, Quiet, Gone
<1>2. CASE ~(RollbackDone \/ DestroyDone)
  <2>1. CASE disk.intent
    <3>1. disk'.intent /\ disk'.expNs = disk.expNs /\ disk'.expEp = disk.expEp
      BY <1>2, <2>1, IntentKept DEF SameIntents
    <3>2. CASE OursShrink
      BY <3>1, <3>2 DEF NoOrphan, PlannedOnly, OursShrink
    <3>3. CASE Adding
      <4>1. disk.expNs = Namespaces /\ disk.expEp = Endpoints
        BY <1>2, <3>3, IntentKept
      <4>2. QED
        BY <3>1, <4>1 DEF NoOrphan, PlannedOnly
    <3>4. QED
      BY <3>2, <3>3, OursNext
  <2>2. CASE ~disk.intent
    <3>1. OursShrink
      BY <1>2, <2>2, IntentKept, OursNext
    <3>2. QED
      BY <2>2, <3>1 DEF NoOrphan, PlannedOnly, OursShrink
  <2>3. QED
    BY <2>1, <2>2
<1>3. QED
  BY <1>1, <1>2

\* The cleanup invariant is preserved by every step.
LEMMA CleanupNext ==
  ASSUME OrphanInv, [Next]_vars
  PROVE  CleanupInv'
<1> TypeInv'
  BY NextType DEF OrphanInv
<1>1. TypeInv /\ ControlInv /\ OursExist /\ PlannedOnly /\ CleanupInv
  BY DEF OrphanInv, CleanupInv
<1>2. CASE Up \/ Down \/ Create \/ Crash
  BY <1>1, <1>2, CreateElsewhere, ElsewhereTrivial
<1>3. CASE Recover \/ Delete
  <2>1. ~Adding
    <3>1. pc \notin {"addBridge", "addNamespace", "addLink", "addPort"}
      <4>1. CASE Recover
        BY <4>1 DEF Recover, RecoverNamespace, SkipNamespace, RefuseNamespace, NamespacesRecovered,
           Discover, Stop, ValidateOnly, BeginDestroy, RefuseDestroy, StopContainers, FinishStop
      <4>2. CASE Delete
        BY <4>2 DEF Delete, DeletePort, SkipEndpoint, CheckLink, DeleteLink, EndpointsDeleted,
           CheckNamespace, DeleteNamespace, NamespacesDeleted, DeleteBridge, SkipBridge,
           BridgesDeleted, DeletionBlocked, DeletionFails, DeletionRefused, DeletionCommand,
           RollbackDone, DestroyDone
      <4>3. QED
        BY <1>3, <4>1, <4>2
    <3>2. QED
      BY <3>1 DEF Adding, AddBridge, AddNamespace, AddLink, AddPort
  <2>2. QED
    BY <1>1, <1>3, <2>1, OursNext, RecoverCleanup, DeleteCleanup
<1>4. CASE ContainerExit \/ Foreign
  <2>1. UNCHANGED <<ledgers, process>>
    BY <1>4 DEF ContainerExit, Foreign, ForeignBridge, ForeignNamespace, ForeignEndpoint, ForeignStep
  <2>2. QED
    BY <1>1, <1>4, <2>1, OthersShrink, CleanupStable
<1>5. CASE UNCHANGED vars
  <2>1. UNCHANGED <<ledgers, process>> /\ OursShrink
    BY <1>5 DEF vars, host, OursShrink
  <2>2. QED
    BY <1>1, <2>1, CleanupStable
<1>6. QED
  BY <1>2, <1>3, <1>4, <1>5 DEF Next

\* The orphan invariant holds of an empty host.
LEMMA InitOrphan == Init => OrphanInv
<1> SUFFICES ASSUME Init PROVE OrphanInv
  OBVIOUS
<1>1. TypeInv
  BY InitType
<1>2. ControlInv
  BY DEF Init, ControlInv, Working, CreateSteps, DeleteSteps
<1>3. OursExist /\ NoOrphan /\ PlannedOnly
  BY DEF Init, OursExist, NoOrphan, PlannedOnly, Absent
<1>4. NamespacesCovered /\ Covered /\ Progress
  BY DEF Init, NamespacesCovered, Covered, Progress, EndpointsGone, NamespacesGone, BridgesGone,
     DeleteSteps
<1>5. QED
  BY <1>1, <1>2, <1>3, <1>4 DEF OrphanInv

\* Every step keeps the orphan invariant.
LEMMA OrphanNext ==
  ASSUME OrphanInv, [Next]_vars
  PROVE  OrphanInv'
<1>1. TypeInv'
  BY NextType DEF OrphanInv
<1>2. ControlInv'
  BY ControlNext DEF OrphanInv
<1>3. OursExist'
  BY OursNext DEF OrphanInv
<1>4. NamespacesCovered' /\ Covered' /\ Progress'
  BY CleanupNext DEF CleanupInv
<1>5. NoOrphan' /\ PlannedOnly'
  BY NoOrphanNext
<1>6. QED
  BY <1>1, <1>2, <1>3, <1>4, <1>5 DEF OrphanInv

\* Whatever the topology and however often the process crashes, commands fail
\* or somebody else interferes: when ownership.yml names no infrastructure,
\* nothing that GraphX created is left on the host.
THEOREM NothingOrphaned == Spec => []NoOrphan
<1>1. Init => OrphanInv
  BY InitOrphan
<1>2. OrphanInv /\ [Next]_vars => OrphanInv'
  BY OrphanNext
<1>3. OrphanInv => NoOrphan
  BY DEF OrphanInv
<1>4. QED
  BY <1>1, <1>2, <1>3, PTL DEF Spec
=============================================================================
