------------------------ MODULE OvsLifecycle_proofs ------------------------
(***************************************************************************)
(* Type correctness of OvsLifecycle and its first safety theorem, for any  *)
(* topology, any number of crashes, failing commands and foreign steps.    *)
(***************************************************************************)
EXTENDS OvsInvariant, TLAPS

\* An identity chosen by Fresh is new.
LEMMA FreshId ==
  ASSUME NEW used, HasFresh(used)
  PROVE  Fresh(used) \in Ids /\ Fresh(used) \notin used /\ Fresh(used) # NoId
BY IdsAssumption DEF Fresh, HasFresh, NoId

\* The objects the actions build are objects, and a stranger is not ours.
LEMMA ObjectTypes ==
  /\ Absent \in Object
  /\ \A i \in Ids, m \in BOOLEAN, t \in BOOLEAN :
       Created(i, m, t) \in Object /\ Stranger(i, m) \in Object
  /\ \A o \in Object : /\ o.id \in Ids \cup {NoId}
                       /\ o.mark \in BOOLEAN /\ o.tied \in BOOLEAN /\ o.ours \in BOOLEAN
                       /\ [o EXCEPT !.mark = TRUE] \in Object
                       /\ [o EXCEPT !.tied = TRUE] \in Object
BY DEF Object, Absent, Created, Stranger

\* Every ledger the program computes from a ledger is a ledger.
LEMMA LedgerTypes ==
  ASSUME NEW L \in Ledger
  PROVE  /\ \A b \in Bridges, i \in Ids \cup {NoId} : [L EXCEPT !.br[b] = i] \in Ledger
         /\ \A r \in Namespaces, i \in Ids \cup {NoId} : [L EXCEPT !.ns[r] = i] \in Ledger
         /\ \A e \in Endpoints, x \in EndpointRecord : [L EXCEPT !.ep[e] = x] \in Ledger
         /\ \A s \in Statuses : [L EXCEPT !.status = s] \in Ledger
<1>1. \A b \in Bridges, i \in Ids \cup {NoId} : [L EXCEPT !.br[b] = i] \in Ledger
  BY DEF Ledger
<1>2. \A r \in Namespaces, i \in Ids \cup {NoId} : [L EXCEPT !.ns[r] = i] \in Ledger
  BY DEF Ledger
<1>3. \A e \in Endpoints, x \in EndpointRecord : [L EXCEPT !.ep[e] = x] \in Ledger
  BY DEF Ledger
<1>4. \A s \in Statuses : [L EXCEPT !.status = s] \in Ledger
  BY DEF Ledger
<1>5. QED
  BY <1>1, <1>2, <1>3, <1>4

\* The ledger create prepares is a ledger with the intents it was given.
LEMMA IntendingType ==
  ASSUME TypeOK, NEW R \in SUBSET Namespaces, NEW S \in SUBSET Endpoints
  PROVE  /\ Intending(R, S) \in Ledger
         /\ Intending(R, S).intent /\ Intending(R, S).expNs = R /\ Intending(R, S).expEp = S
         /\ Intending(R, S).br = mem.br /\ Intending(R, S).ns = mem.ns
         /\ Intending(R, S).ep = mem.ep
BY DEF TypeOK, Ledger, Intending, Statuses

\* A collision leaves the ledger alone or lists intents that are ledger values.
LEMMA RefusalType ==
  ASSUME TypeOK, RefuseCollision
  PROVE  /\ \/ mem' = mem
            \/ \E R \in SUBSET Namespaces, S \in SUBSET Endpoints : mem' = Intending(R, S)
         /\ mem' \in Ledger
<1>1. \A r \in Namespaces : 1..(r - 1) \in SUBSET Namespaces
  BY SizesAssumption DEF Namespaces
<1>2. \A e \in Endpoints : 1..(e - 1) \in SUBSET Endpoints
  BY SizesAssumption DEF Endpoints
<1>3. {} \in SUBSET Endpoints /\ Namespaces \in SUBSET Namespaces
  OBVIOUS
<1>4. \/ mem' = mem
      \/ \E R \in SUBSET Namespaces, S \in SUBSET Endpoints : mem' = Intending(R, S)
  BY <1>1, <1>2, <1>3 DEF RefuseCollision
<1>5. \A R \in SUBSET Namespaces, S \in SUBSET Endpoints : Intending(R, S) \in Ledger
  BY IntendingType
<1>6. QED
  BY <1>4, <1>5 DEF TypeOK

\* The cleared ledger is a ledger.
LEMMA ClearedType ==
  ASSUME NEW L \in Ledger
  PROVE  ClearedLedger(L) \in Ledger
BY DEF Ledger, ClearedLedger, EndpointRecord, NoRecord, NoId

\* The ledger after discovery or adoption (create's catch block, destroy) is a ledger.
LEMMA DiscoveredType ==
  ASSUME NEW L \in Ledger, TypeOK
  PROVE  Discovered(L) \in Ledger
<1>1. \A b \in Bridges : bridge[b].id \in Ids \cup {NoId}
  BY ObjectTypes DEF TypeOK
<1>2. \A e \in Endpoints : link[e].id \in Ids \cup {NoId} /\ port[e].id \in Ids \cup {NoId}
  BY ObjectTypes DEF TypeOK
<1>3. QED
  BY <1>1, <1>2 DEF Ledger, Discovered, EndpointRecord

\* The initial state is in type.
LEMMA InitType == Init => TypeInv
BY SizesAssumption DEF Init, TypeInv, TypeOK, IndexOK, Object, Absent, Ledger, Statuses, NoId,
   EndpointRecord, NoRecord, Steps, CreateSteps, DeleteSteps

\* What a creation or a foreign step puts on the host is an object.
LEMMA FreshObject ==
  ASSUME NEW used, HasFresh(used)
  PROVE  /\ Created(Fresh(used), TRUE, FALSE) \in Object
         /\ Created(Fresh(used), FALSE, FALSE) \in Object
         /\ Created(Fresh(used), TRUE, TRUE) \in Object
         /\ \A m \in BOOLEAN : Stranger(Fresh(used), m) \in Object
BY FreshId DEF Object, Created, Stranger

\* Giving up a deletion leaves a state in type, in the rollback and in destroy.
LEMMA NotDeletedType ==
  ASSUME TypeInv, NEW r, NotDeleted(r),
         pc \in DeleteSteps \ {"clear"}, pc \in {"deleteEndpoint", "deleteBridge"} => k > 0,
         crashes' \in Nat, faults' \in Nat, foreign' \in Nat
  PROVE  TypeInv'
<1>1. UNCHANGED host /\ disk' = disk /\ mem' \in Ledger
  BY DEF NotDeleted, KeepGoing, Exit, TypeInv, TypeOK
<1>2. CASE mode = "rollback"
  <2> USE SizesAssumption DEF TypeInv, TypeOK, Bridges, Namespaces, Endpoints
  <2>1. KeepGoing(r)
    BY <1>2 DEF NotDeleted
  <2>2. pc' \in {"deleteEndpoint", "checkNamespace", "deleteBridge"} /\ rest' \subseteq Namespaces
    BY <2>1 DEF KeepGoing, NamespaceSteps
  <2>3. k' \in Nat /\ (pc' = "deleteEndpoint" => k' <= NE) /\ (pc' = "deleteBridge" => k' <= NB)
    BY <2>1 DEF KeepGoing, NamespaceSteps, IndexOK, DeleteSteps
  <2>4. IndexOK'
    BY <2>2, <2>3 DEF IndexOK
  <2>5. got' = got /\ mode' = mode /\ clean' \in BOOLEAN /\ pass' = pass
    BY <2>1 DEF KeepGoing
  <2>6. QED
    BY <1>1, <2>2, <2>3, <2>4, <2>5 DEF host, Steps, DeleteSteps
<1>3. CASE mode # "rollback"
  <2>1. Exit
    BY <1>3 DEF NotDeleted
  <2>2. QED
    BY <1>1, <2>1 DEF TypeInv, TypeOK, IndexOK, Exit, host, Steps, NoRecord, EndpointRecord, NoId
<1>4. QED
  BY <1>2, <1>3

\* The host objects that a creation adds, and a foreign step changes, stay in type.
LEMMA AddedTypes ==
  ASSUME TypeInv
  PROVE  /\ AddBridge => k \in Bridges /\ bridge' \in [Bridges -> Object]
         /\ AddNamespace => /\ netns' \in [Namespaces -> Object]
                            /\ pc' = "aliasNamespace" /\ k' \in Namespaces
         /\ AddLink => k \in Endpoints /\ link' \in [Endpoints -> Object]
         /\ RecoverNamespace => k \in Namespaces /\ netns[k].id \in Ids \cup {NoId}
<1> USE SizesAssumption DEF TypeInv, TypeOK
<1>1. ASSUME AddBridge PROVE k \in Bridges /\ bridge' \in [Bridges -> Object]
  <2>1. k \in Bridges
    BY <1>1 DEF AddBridge, IndexOK, Bridges
  <2>2. QED
    BY <1>1, <2>1, FreshObject DEF AddBridge
<1>2. ASSUME AddNamespace
      PROVE  netns' \in [Namespaces -> Object] /\ pc' = "aliasNamespace" /\ k' \in Namespaces
  <2>1. PICK r \in rest :
          /\ HasFresh(UsedNamespaceIds(r))
          /\ netns' = [netns EXCEPT ![r] = Created(Fresh(UsedNamespaceIds(r)), FALSE, FALSE)]
          /\ pc' = "aliasNamespace" /\ k' = r
    BY <1>2 DEF AddNamespace, Goto
  <2>2. netns' \in [Namespaces -> Object]
    BY <2>1, FreshObject
  <2>3. QED
    BY <2>1, <2>2
<1>3. ASSUME AddLink PROVE k \in Endpoints /\ link' \in [Endpoints -> Object]
  <2>1. k \in Endpoints
    BY <1>3 DEF AddLink, IndexOK, Endpoints
  <2>2. QED
    BY <1>3, <2>1, FreshObject DEF AddLink
<1>4. ASSUME RecoverNamespace PROVE k \in Namespaces /\ netns[k].id \in Ids \cup {NoId}
  <2>1. k \in Namespaces
    BY <1>4 DEF RecoverNamespace, IndexOK, Namespaces
  <2>2. QED
    BY <2>1, ObjectTypes
<1>5. QED
  BY <1>1, <1>2, <1>3, <1>4

\* The steps of others leave every host variable in its type.
LEMMA ForeignTypes ==
  ASSUME TypeInv
  PROVE  /\ ForeignBridge => /\ bridge' \in [Bridges -> Object] /\ extra' \in [Bridges -> BOOLEAN]
                             /\ port' \in [Endpoints -> Object]
         /\ ForeignNamespace => /\ netns' \in [Namespaces -> Object]
                                /\ link' \in [Endpoints -> Object]
         /\ ForeignEndpoint => /\ link' \in [Endpoints -> Object]
                               /\ port' \in [Endpoints -> Object]
<1> USE DEF TypeInv, TypeOK
<1>1. ASSUME ForeignBridge
      PROVE  /\ bridge' \in [Bridges -> Object] /\ extra' \in [Bridges -> BOOLEAN]
             /\ port' \in [Endpoints -> Object]
  <2>1. PICK b \in Bridges :
          \/ /\ \E o \in Object : bridge' = [bridge EXCEPT ![b] = o]
             /\ UNCHANGED <<extra, port>>
          \/ /\ bridge' = [bridge EXCEPT ![b] = Absent]
             /\ extra' = [extra EXCEPT ![b] = FALSE]
             /\ port' = PortsWithoutBridge(b)
          \/ extra' = [extra EXCEPT ![b] = ~extra[b]] /\ UNCHANGED <<bridge, port>>
    BY <1>1, FreshObject DEF ForeignBridge
  <2>2. QED
    BY <2>1, ObjectTypes DEF PortsWithoutBridge
<1>2. ASSUME ForeignNamespace
      PROVE  netns' \in [Namespaces -> Object] /\ link' \in [Endpoints -> Object]
  <2>1. PICK r \in Namespaces :
          \/ (\E o \in Object : netns' = [netns EXCEPT ![r] = o]) /\ UNCHANGED link
          \/ netns' = [netns EXCEPT ![r] = Absent] /\ link' = LinksWithoutNamespace(r)
    BY <1>2, FreshObject DEF ForeignNamespace
  <2>2. QED
    BY <2>1, ObjectTypes DEF LinksWithoutNamespace
<1>3. ASSUME ForeignEndpoint
      PROVE  link' \in [Endpoints -> Object] /\ port' \in [Endpoints -> Object]
  <2>1. PICK e \in Endpoints, o \in Object :
          \/ link' = [link EXCEPT ![e] = o] /\ UNCHANGED port
          \/ port' = [port EXCEPT ![e] = o] /\ UNCHANGED link
    BY <1>3, FreshObject, ObjectTypes DEF ForeignEndpoint
  <2>2. QED
    BY <2>1
<1>4. QED
  BY <1>1, <1>2, <1>3

\* Every step preserves the types and the ranges of the loop indices.
LEMMA NextType == TypeInv /\ [Next]_vars => TypeInv'
<1> SUFFICES ASSUME TypeInv, [Next]_vars PROVE TypeInv'
  OBVIOUS
<1>0. NoRecord \in EndpointRecord
  BY DEF NoRecord, EndpointRecord, NoId
<1> USE SizesAssumption, <1>0 DEF TypeInv, TypeOK, IndexOK, Steps, CreateSteps, DeleteSteps, Statuses,
      Bridges, Namespaces, Endpoints, host, ledgers, process, counts, Goto, Exit
<1>1. CASE Up
  BY <1>1 DEF Up
<1>2. CASE Down
  BY <1>2 DEF Down
<1>3. CASE RecordIntent
  <2>1. mem' \in Ledger /\ disk' \in Ledger
    BY <1>3, IntendingType DEF RecordIntent, Save
  <2>2. QED
    BY <1>3, <2>1 DEF RecordIntent
<1>4. CASE RefuseCollision
  <2>1. mem' \in Ledger
    BY <1>4, RefusalType
  <2>2. QED
    BY <1>4, <2>1 DEF RefuseCollision
<1>5. CASE AddBridge
  BY <1>5, AddedTypes DEF AddBridge
<1>6. CASE RecordBridge
  <2>1. k \in Bridges /\ bridge[k].id \in Ids \cup {NoId}
    BY <1>6, ObjectTypes DEF RecordBridge
  <2>2. mem' \in Ledger /\ disk' \in Ledger
    BY <1>6, <2>1 DEF RecordBridge, Save, Ledger
  <2>3. QED
    BY <1>6, <2>1, <2>2 DEF RecordBridge
<1>7. CASE BridgesDone
  BY <1>7 DEF BridgesDone
<1>8. CASE AddNamespace
  <2>1. UNCHANGED <<bridge, extra, link, port, running, mem, disk, crashes, faults, foreign,
                    rest, got, mode, clean, pass>>
    BY <1>8 DEF AddNamespace
  <2>2. k' \in Nat
    BY <1>8, AddedTypes
  <2>3. QED
    BY <1>8, <2>1, <2>2, AddedTypes
<1>9. CASE AliasNamespace
  BY <1>9, ObjectTypes DEF AliasNamespace
<1>10. CASE RecordNamespace
  BY <1>10, LedgerTypes, ObjectTypes DEF RecordNamespace, Save
<1>11. CASE NamespacesDone
  BY <1>11 DEF NamespacesDone
<1>12. CASE AddLink
  BY <1>12, AddedTypes DEF AddLink
<1>13. CASE AliasLink
  BY <1>13, ObjectTypes DEF AliasLink
<1>14. CASE AddPort
  BY <1>14, FreshId, ObjectTypes DEF AddPort, EndpointRecord
<1>15. CASE MovePeer
  BY <1>15, ObjectTypes DEF MovePeer
<1>16. CASE RecordEndpoint
  <2>1. mem' \in Ledger /\ disk' \in Ledger
    BY <1>16 DEF RecordEndpoint, Save, Ledger
  <2>2. QED
    BY <1>16, <2>1 DEF RecordEndpoint
<1>17. CASE EndpointsDone
  BY <1>17 DEF EndpointsDone
<1>18. CASE FinishCreate
  BY <1>18, LedgerTypes DEF FinishCreate, Save
<1>19. CASE UpReturns
  BY <1>19 DEF UpReturns
<1>20. CASE StartupFails
  BY <1>20 DEF StartupFails
<1>21. CASE CreateBlocked
  BY <1>21 DEF CreateBlocked, Rollback
<1>22. CASE CreateFails
  BY <1>22 DEF CreateFails, Rollback
<1>23. CASE RecoverNamespace
  <2>1. mem' \in Ledger /\ disk' \in Ledger
    BY <1>23, AddedTypes DEF RecoverNamespace, Save, Ledger
  <2>2. QED
    BY <1>23, <2>1 DEF RecoverNamespace
<1>24. CASE SkipNamespace
  BY <1>24 DEF SkipNamespace
<1>25. CASE RefuseNamespace
  <2>1. CASE mode = "rollback"
    <3>1. Goto("stop", 0) /\ UNCHANGED <<ledgers, host, counts>>
      BY <1>25, <2>1 DEF RefuseNamespace
    <3>2. QED
      BY <3>1
  <2>2. CASE mode # "rollback"
    BY <1>25, <2>2 DEF RefuseNamespace
  <2>3. QED
    BY <2>1, <2>2
<1>26. CASE NamespacesRecovered
  BY <1>26 DEF NamespacesRecovered
<1>27. CASE Discover
  <2>1. mem' \in Ledger
    BY <1>27, DiscoveredType DEF Discover
  <2>2. QED
    BY <1>27, <2>1 DEF Discover
<1>28. CASE Stop
  <2>1. mem' = mem /\ disk' = mem
    BY <1>28 DEF Stop, Save
  <2>2. CASE mem.intent
    BY <1>28, <2>1, <2>2 DEF Stop
  <2>3. CASE ~mem.intent
    <3>1. pc' = "stopContainers" /\ k' = 0 /\ UNCHANGED <<rest, got, mode, clean, pass>>
      BY <1>28, <2>3 DEF Stop
    <3>2. UNCHANGED <<host, counts>>
      BY <1>28 DEF Stop
    <3>3. QED
      BY <2>1, <3>1, <3>2
  <2>4. QED
    BY <2>2, <2>3
<1>29. CASE ValidateOnly
  BY <1>29, DiscoveredType DEF ValidateOnly
<1>30. CASE BeginDestroy
  <2>1. mem' \in Ledger /\ disk' \in Ledger
    <3>1. Discovered(mem) \in Ledger
      BY DiscoveredType
    <3>2. [Discovered(mem) EXCEPT !.status = "destroying"] \in Ledger
      BY <3>1 DEF Ledger
    <3>3. QED
      BY <1>30, <3>2 DEF BeginDestroy, Save
  <2>2. QED
    BY <1>30, <2>1 DEF BeginDestroy
<1>31. CASE RefuseDestroy
  BY <1>31 DEF RefuseDestroy
<1>32. CASE StopContainers
  <2>1. link' \in [Endpoints -> Object] /\ running' \in [Endpoints -> BOOLEAN]
        /\ UNCHANGED <<bridge, extra, netns, port, counts>>
    BY <1>32, ObjectTypes DEF StopContainers, LinksWithoutContainers
  <2>2. CASE mem.intent
    BY <1>32, <2>1, <2>2 DEF StopContainers
  <2>3. CASE ~mem.intent
    BY <1>32, <2>1, <2>3 DEF StopContainers
  <2>4. QED
    BY <2>2, <2>3
<1>55. CASE FinishStop
  <2>1. mem' = [mem EXCEPT !.status = "destroying"] /\ disk' = mem'
    BY <1>55 DEF FinishStop, Save
  <2>2. mem' \in Ledger /\ disk' \in Ledger
    BY <2>1, LedgerTypes
  <2>3. QED
    BY <1>55, <2>2 DEF FinishStop
<1>33. CASE DeletePort
  BY <1>33, ObjectTypes DEF DeletePort
<1>34. CASE SkipEndpoint
  BY <1>34 DEF SkipEndpoint
<1>35. CASE CheckLink
  BY <1>35 DEF CheckLink
<1>36. CASE DeleteLink
  BY <1>36, ObjectTypes DEF DeleteLink
<1>37. CASE EndpointsDeleted
  BY <1>37 DEF EndpointsDeleted
<1>38. CASE CheckNamespace
  <2>1. /\ rest' \subseteq Namespaces /\ k' \in Nat
        /\ \/ pc' = "checkNamespace"
           \/ pc' = "deleteNamespace" /\ k' \in Namespaces
    <3>1. PICK r \in rest :
            \/ rest' = rest \ {r} /\ UNCHANGED <<pc, k>>
            \/ pc' = "deleteNamespace" /\ k' = r /\ UNCHANGED rest
      BY <1>38 DEF CheckNamespace
    <3>2. pc = "checkNamespace"
      BY <1>38 DEF CheckNamespace
    <3>3. r \in 1..NR /\ r \in Nat
      OBVIOUS
    <3>4. rest' \subseteq 1..NR
      BY <3>1
    <3>5. QED
      BY <3>1, <3>2, <3>3, <3>4
  <2>2. QED
    BY <1>38, <2>1 DEF CheckNamespace
<1>39. CASE DeleteNamespace
  BY <1>39, ObjectTypes DEF DeleteNamespace, LinksWithoutNamespace
<1>40. CASE NamespacesDeleted
  BY <1>40 DEF NamespacesDeleted
<1>41. CASE DeleteBridge
  BY <1>41, ObjectTypes DEF DeleteBridge
<1>42. CASE SkipBridge
  BY <1>42 DEF SkipBridge
<1>43. CASE BridgesDeleted
  BY <1>43 DEF BridgesDeleted
<1>44. CASE DeletionBlocked
  <2>1. PICK r : DeletionRefused(r) /\ NotDeleted(r)
    BY <1>44 DEF DeletionBlocked
  <2>2. pc \in DeleteSteps \ {"clear"} /\ (pc \in {"deleteEndpoint", "deleteBridge"} => k > 0)
    BY <2>1 DEF DeletionRefused
  <2>3. QED
    BY <1>44, <2>1, <2>2, NotDeletedType DEF DeletionBlocked
<1>45. CASE DeletionFails
  <2>1. pc \in DeleteSteps \ {"clear"} /\ (pc \in {"deleteEndpoint", "deleteBridge"} => k > 0)
    BY <1>45 DEF DeletionFails, DeletionCommand
  <2>2. crashes' \in Nat /\ faults' \in Nat /\ foreign' \in Nat
    BY <1>45 DEF DeletionFails
  <2>3. QED
    BY <1>45, <2>1, <2>2, NotDeletedType DEF DeletionFails
<1>46. CASE RollbackDone
  BY <1>46, ClearedType DEF RollbackDone, Save
<1>47. CASE DestroyDone
  BY <1>47, ClearedType DEF DestroyDone, Save
<1>48. CASE Crash
  BY <1>48 DEF Crash
<1>49. CASE ContainerExit
  BY <1>49, ObjectTypes DEF ContainerExit, LinksWithoutContainers
<1>50. CASE ForeignBridge
  <2>1. foreign' \in Nat /\ UNCHANGED <<netns, link, running, mem, disk, crashes, faults, process>>
    BY <1>50 DEF ForeignBridge, ForeignStep
  <2>2. QED
    BY <1>50, <2>1, ForeignTypes
<1>51. CASE ForeignNamespace
  <2>1. foreign' \in Nat /\ UNCHANGED <<bridge, extra, port, running, mem, disk, crashes, faults, process>>
    BY <1>51 DEF ForeignNamespace, ForeignStep
  <2>2. QED
    BY <1>51, <2>1, ForeignTypes
<1>52. CASE ForeignEndpoint
  <2>1. foreign' \in Nat /\ UNCHANGED <<bridge, extra, netns, running, mem, disk, crashes, faults, process>>
    BY <1>52 DEF ForeignEndpoint, ForeignStep
  <2>2. QED
    BY <1>52, <2>1, ForeignTypes
<1>53. CASE UNCHANGED vars
  BY <1>53 DEF vars
<1>56. QED
  BY <1>1, <1>2, <1>3, <1>4, <1>5, <1>6, <1>7, <1>8, <1>9, <1>10, <1>11, <1>12, <1>13, <1>14,
     <1>15, <1>16, <1>17, <1>18, <1>19, <1>20, <1>21, <1>22, <1>23, <1>24, <1>25, <1>26, <1>27,
     <1>28, <1>29, <1>30, <1>31, <1>32, <1>33, <1>34, <1>35, <1>36, <1>37, <1>38, <1>39, <1>40,
     <1>41, <1>42, <1>43, <1>44, <1>45, <1>46, <1>47, <1>48, <1>49, <1>50, <1>51, <1>52, <1>53, <1>55
     DEF Next, Create, Recover, Delete, Foreign

\* Every behaviour of the specification is in type: the index of each command
\* in lifecycle_coordinator.cpp denotes a resource of the configuration, and
\* both ledger copies stay ledgers.
THEOREM TypeCorrect == Spec => []TypeOK
<1>1. Init => TypeInv
  BY InitType
<1>2. TypeInv /\ [Next]_vars => TypeInv'
  BY NextType
<1>3. TypeInv => TypeOK
  BY DEF TypeInv
<1>4. QED
  BY <1>1, <1>2, <1>3, PTL DEF Spec
=============================================================================
