--------------------------- MODULE CaptureHandoff ---------------------------
(***************************************************************************)
(* The Ethernet capture of a graph: dumpcap appends to a ring of PCAPNG    *)
(* files in a session directory; the exporter process mg-capture-handoff   *)
(* publishes the newest one as a snapshot, with exact-size copy, ledger    *)
(* record and rename; destroy stops dumpcap and seals the session, and a   *)
(* later create removes sealed sessions whose retention has ended.  Up,    *)
(* down and each round of the exporter hold the exclusive graph lock, and  *)
(* each may be killed at any step; dumpcap holds no lock.                  *)
(*                                                                         *)
(* A file is its number and its length in half blocks: an odd length ends  *)
(* inside a block.  A file only grows, so a prefix is known by its length. *)
(***************************************************************************)
EXTENDS Naturals, Sequences

CONSTANTS
  MaxFiles,                            \* files of the ring (definition.max_files)
  MaxSessions, MaxHalves, MaxRotations, MaxSnapshots   \* bounds of the model

ASSUME CaptureAssumption == {MaxFiles, MaxSessions, MaxHalves, MaxRotations, MaxSnapshots} \subseteq Nat \ {0}

VARIABLES
  holder,       \* who holds the graph lock, and what it does next
  status,       \* OwnershipState::status
  session,      \* the session of the ledger's capture, 0 before the first
  owned,        \* state.captures has the capture
  dumpcap,      \* "none", "running", "stopping" (signalled) or "gone"
  dir,          \* each session's directory: absent, open (0700) or sealed (0550)
  files,        \* each session's files, by number: their lengths
  readonly,     \* the sessions whose files are sealed
  expired,      \* the sessions whose retention has ended
  exporter,     \* the exporter process: absent, alive or gone
  pending,      \* <capture>.pending in the handoff directory
  destination,  \* <capture>.pcapng there
  source,       \* the file the exporter opened, with its size then
  snapshotInode, pendingInode,   \* the capture's record in the ledger
  inodes        \* files created in the handoff directory so far

sessionVars == <<dumpcap, dir, files, readonly, expired>>
handoffVars == <<pending, destination, source, snapshotInode, pendingInode, inodes>>
captureVars == <<holder, status, session, owned, sessionVars, exporter, handoffVars>>

Sessions == 1 .. MaxSessions
NoFile == [number |-> 0, size |-> 0, inode |-> 0]
Whole(size) == size > 0 /\ size % 2 = 0
\* The ring keeps the newest files.
Ring(s) == {n \in DOMAIN files[s] : n > Len(files[s]) - MaxFiles}

CaptureInit ==
  /\ holder = "nobody" /\ status = "absent" /\ session = 0 /\ owned = FALSE
  /\ dumpcap = "none" /\ dir = [s \in Sessions |-> "absent"] /\ files = [s \in Sessions |-> <<>>]
  /\ readonly = {} /\ expired = {}
  /\ exporter = "absent" /\ pending = NoFile /\ destination = NoFile /\ source = NoFile
  /\ snapshotInode = 0 /\ pendingInode = 0 /\ inodes = 0

-----------------------------------------------------------------------------
\* create: expired sealed sessions go, then the session of this generation.
UpCall ==
  /\ holder = "nobody" /\ status = "absent" /\ session < MaxSessions
  /\ holder' = "up-prune" /\ status' = "creating"
  /\ UNCHANGED <<session, owned, sessionVars, exporter, handoffVars>>
Prunable(s) == dir[s] = "sealed" /\ s \in expired /\ s \in readonly /\ files[s] # <<>>
Prune ==
  /\ holder = "up-prune" /\ holder' = "up-mkdir"
  /\ dir' = [s \in Sessions |-> IF Prunable(s) THEN "absent" ELSE dir[s]]
  /\ files' = [s \in Sessions |-> IF Prunable(s) THEN <<>> ELSE files[s]]
  /\ UNCHANGED <<status, session, owned, dumpcap, readonly, expired, exporter, handoffVars>>
CreateSession ==
  /\ holder = "up-mkdir" /\ holder' = "up-start"
  /\ session' = session + 1 /\ dir' = [dir EXCEPT ![session + 1] = "open"]
  /\ pending' = NoFile /\ destination' = NoFile /\ source' = NoFile   \* a handoff directory of its own
  /\ snapshotInode' = 0 /\ pendingInode' = 0
  /\ UNCHANGED <<status, owned, dumpcap, files, readonly, expired, exporter, inodes>>
StartDumpcap ==
  /\ holder = "up-start" /\ holder' = "up-wait"
  /\ owned' = TRUE /\ dumpcap' = "running"
  /\ UNCHANGED <<status, session, dir, files, readonly, expired, exporter, handoffVars>>
\* capture_file_count > 0, then ready, then the exporter is started.
Counted == files[session] # <<>> /\ \A n \in Ring(session) : files[session][n] > 0
SectionPublished ==
  /\ holder = "up-wait" /\ Counted
  /\ holder' = "nobody" /\ status' = "ready" /\ exporter' = "alive"
  /\ UNCHANGED <<session, owned, sessionVars, handoffVars>>
\* create_capture stops dumpcap; the rollback tries to stop and seal once more,
\* and forgets the capture since its process is gone.
CreateFails ==
  /\ holder = "up-wait"
  /\ holder' = "nobody" /\ status' = "absent" /\ owned' = FALSE /\ dumpcap' = "gone"
  /\ IF files[session] # <<>> THEN /\ dir' = [dir EXCEPT ![session] = "sealed"]
                                   /\ readonly' = readonly \cup {session}
                              ELSE UNCHANGED <<dir, readonly>>
  /\ UNCHANGED <<session, files, expired, exporter, handoffVars>>

-----------------------------------------------------------------------------
\* down stops the processes first, the exporter among them, then destroys.
CaptureDown ==
  /\ holder = "nobody" /\ status \in {"creating", "ready", "destroying"}
  /\ status' = "destroying" /\ exporter' = "gone"
  /\ holder' = IF owned THEN "down-stop" ELSE "down-forget"
  /\ UNCHANGED <<session, owned, sessionVars, handoffVars>>
\* stop_owned_process: a signal, then it waits until the process is gone.
SignalDumpcap ==
  /\ holder = "down-stop" /\ holder' = "down-await"
  /\ dumpcap' = IF dumpcap = "running" THEN "stopping" ELSE dumpcap
  /\ UNCHANGED <<status, session, owned, dir, files, readonly, expired, exporter, handoffVars>>
Signalled == TRUE
Stopped == dumpcap = "gone"
SealFiles ==
  /\ holder = "down-await" /\ Stopped
  /\ IF files[session] = <<>> THEN holder' = "nobody" /\ UNCHANGED readonly   \* no PCAPNG file: refused
     ELSE holder' = "down-seal" /\ readonly' = readonly \cup {session}
  /\ UNCHANGED <<status, session, owned, dumpcap, dir, files, expired, exporter, handoffVars>>
SealDirectory ==
  /\ holder = "down-seal" /\ holder' = "down-forget"
  /\ dir' = [dir EXCEPT ![session] = "sealed"]
  /\ UNCHANGED <<status, session, owned, dumpcap, files, readonly, expired, exporter, handoffVars>>
Forget ==
  /\ holder = "down-forget" /\ holder' = "nobody" /\ status' = "absent" /\ owned' = FALSE
  /\ UNCHANGED <<session, sessionVars, exporter, handoffVars>>

-----------------------------------------------------------------------------
\* A round of the exporter.
Return(e) == holder' = "nobody" /\ exporter' = e
Round ==
  /\ exporter = "alive" /\ holder = "nobody"
  /\ IF status = "ready" THEN holder' = "export-check" /\ UNCHANGED exporter ELSE Return("gone")
  /\ UNCHANGED <<status, session, owned, sessionVars, handoffVars>>
\* The snapshot of the last round must be the recorded one, and no interrupted
\* export may be there; the exporter throws otherwise, which ends it like
\* HolderKilled does.
CheckSnapshot ==
  /\ holder = "export-check"
  /\ IF destination = NoFile THEN snapshotInode = 0 /\ UNCHANGED <<snapshotInode, pendingInode>>
     ELSE /\ destination.inode \in {snapshotInode, pendingInode}
          /\ snapshotInode' = destination.inode /\ pendingInode' = 0
  /\ pending = NoFile
  /\ holder' = "export-open"
  /\ UNCHANGED <<status, session, owned, sessionVars, exporter, pending, destination, source, inodes>>
\* export_owned_network_capture_impl: a healthy capture, a whole file; a live
\* ring can end in a partial block, then the round ends.
Exportable(n) == Counted /\ dumpcap = "running" /\ Whole(files[session][n])
OpenSource ==
  /\ holder = "export-open" /\ inodes < MaxSnapshots
  /\ \E n \in Ring(session) :
       /\ Exportable(n)
       /\ source' = [number |-> n, size |-> files[session][n], inode |-> 0]
       /\ inodes' = inodes + 1
       /\ pending' = [number |-> n, size |-> 0, inode |-> inodes + 1]
  /\ holder' = "export-copy"
  /\ UNCHANGED <<status, session, owned, sessionVars, exporter, destination, snapshotInode, pendingInode>>
NotExportable ==
  /\ holder = "export-open" /\ Return("alive")
  /\ UNCHANGED <<status, session, owned, sessionVars, handoffVars>>
\* The copy has the size of the stat before it, however the file has grown.
UntilEnd == [source EXCEPT !.size = files[session][source.number]]
Copy == source
CopySource ==
  /\ holder = "export-copy"
  /\ \/ pending' = [Copy EXCEPT !.inode = pending.inode] /\ holder' = "export-record" /\ UNCHANGED exporter
     \/ pending' = NoFile /\ Return("alive")                    \* a failed write: unlinked
  /\ UNCHANGED <<status, session, owned, sessionVars, destination, source, snapshotInode, pendingInode, inodes>>
\* The ledger names the new inode before the rename publishes it.
RecordPending == pendingInode' = pending.inode
RecordSnapshot ==
  /\ holder = "export-record" /\ holder' = "export-rename" /\ RecordPending
  /\ UNCHANGED <<status, session, owned, sessionVars, exporter, pending, destination, source, snapshotInode, inodes>>
RenameSnapshot ==
  /\ holder = "export-rename" /\ holder' = "export-save"
  /\ destination' = pending /\ pending' = NoFile
  /\ UNCHANGED <<status, session, owned, sessionVars, exporter, source, snapshotInode, pendingInode, inodes>>
SaveSnapshot ==
  /\ holder = "export-save" /\ Return("alive")
  /\ snapshotInode' = pendingInode /\ pendingInode' = 0
  /\ UNCHANGED <<status, session, owned, sessionVars, pending, destination, source, inodes>>

-----------------------------------------------------------------------------
\* dumpcap writes what its buffer holds, which may end inside a block.
AppendBlock ==
  /\ dumpcap \in {"running", "stopping"}
  /\ IF files[session] = <<>> THEN files' = [files EXCEPT ![session] = <<1>>]
     ELSE LET n == Len(files[session]) IN
            /\ files[session][n] < MaxHalves
            /\ files' = [files EXCEPT ![session][n] = @ + 1]
  /\ UNCHANGED <<holder, status, session, owned, dumpcap, dir, readonly, expired, exporter, handoffVars>>
Rotate ==
  /\ dumpcap = "running" /\ Len(files[session]) \in 1 .. MaxRotations
  /\ Whole(files[session][Len(files[session])])
  /\ files' = [files EXCEPT ![session] = Append(@, 0)]
  /\ UNCHANGED <<holder, status, session, owned, dumpcap, dir, readonly, expired, exporter, handoffVars>>
DumpcapExits ==
  /\ dumpcap \in {"running", "stopping"} /\ dumpcap' = "gone"
  /\ UNCHANGED <<holder, status, session, owned, dir, files, readonly, expired, exporter, handoffVars>>
Expire(s) ==
  /\ dir[s] = "sealed" /\ s \notin expired /\ expired' = expired \cup {s}
  /\ UNCHANGED <<holder, status, session, owned, dumpcap, dir, files, readonly, exporter, handoffVars>>
\* Whoever holds the lock is killed; the kernel releases the lock.
Up == {"up-prune", "up-mkdir", "up-start", "up-wait"}
Down == {"down-stop", "down-await", "down-seal", "down-forget"}
HolderKilled ==
  /\ holder # "nobody" /\ holder' = "nobody"
  /\ exporter' = IF holder \in Up \cup Down THEN exporter ELSE "gone"
  /\ UNCHANGED <<status, session, owned, sessionVars, handoffVars>>

CaptureNext ==
  \/ UpCall \/ Prune \/ CreateSession \/ StartDumpcap \/ SectionPublished \/ CreateFails
  \/ CaptureDown \/ SignalDumpcap \/ SealFiles \/ SealDirectory \/ Forget
  \/ Round \/ CheckSnapshot \/ OpenSource \/ NotExportable \/ CopySource
  \/ RecordSnapshot \/ RenameSnapshot \/ SaveSnapshot
  \/ AppendBlock \/ Rotate \/ DumpcapExits \/ HolderKilled
  \/ \E s \in Sessions : Expire(s)
CaptureSpec == CaptureInit /\ [][CaptureNext]_captureVars

-----------------------------------------------------------------------------
CaptureTypeOK ==
  /\ holder \in Up \cup Down \cup {"nobody", "export-check", "export-open", "export-copy", "export-record",
                                   "export-rename", "export-save"}
  /\ status \in {"absent", "creating", "ready", "destroying"} /\ session \in 0 .. MaxSessions
  /\ owned \in BOOLEAN /\ dumpcap \in {"none", "running", "stopping", "gone"}
  /\ dir \in [Sessions -> {"absent", "open", "sealed"}]
  /\ files \in [Sessions -> Seq(0 .. MaxHalves)]
  /\ readonly \subseteq Sessions /\ expired \subseteq Sessions
  /\ exporter \in {"absent", "alive", "gone"}
  /\ {snapshotInode, pendingInode, inodes} \subseteq 0 .. MaxSnapshots

\* What a reader finds in the handoff directory is a whole PCAPNG file, a prefix
\* of a file of the ring, and the ledger knows its inode, although dumpcap never
\* stops writing and the exporter may be killed at every step
\* (lifecycle_coordinator.cpp:945-1034, capture_handoff.cpp:63-98).
SnapshotIsWhole ==
  destination # NoFile =>
    /\ Whole(destination.size)
    /\ dir[session] # "absent" => destination.size <= files[session][destination.number]
    /\ destination.inode \in {snapshotInode, pendingInode}

\* What a step leaves alone
KeepsEvidence ==
  \A s \in Sessions :
    /\ dir[s] = "sealed" => files'[s] = files[s] \/ s \in expired
    /\ dir[s] = "open" => dir'[s] # "absent"

\* Sealed evidence does not change until its retention ends, and a session
\* that is not sealed is never removed: dumpcap is gone before the directory is
\* sealed, also after a killed down, and a new create leaves the others alone
\* (capture_resources.cpp:78-94, 179-204, 272-323, 419-438).
EvidenceIsKept == [][KeepsEvidence]_captureVars
=============================================================================
