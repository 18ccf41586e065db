------------------------ MODULE SharedMemorySegment ------------------------
(***************************************************************************)
(* The name of a shared-memory segment (shared_memory_transport.cpp):      *)
(* listeners remove what a dead one has left, create the segment and       *)
(* initialise it; connectors open it, wait for its magic and claim it; a   *)
(* listener that closes gives up its role and removes the name.  What      *)
(* happens inside an initialised segment is SharedMemoryRing.              *)
(*                                                                         *)
(* Segments are numbered in the order of their creation: shm_unlink        *)
(* removes a name, and who has the segment mapped keeps it.  A process may *)
(* have several transports, and dies with all of them.                     *)
(***************************************************************************)
EXTENDS Naturals, FiniteSets

CONSTANTS
  Hosts,            \* processes that listen
  Listeners,        \* their transports
  Connectors        \* transports that connect

ASSUME SegmentAssumption == IsFiniteSet(Listeners)

Segments == 1 .. Cardinality(Listeners)

VARIABLES
  named,        \* the segment under the name, or 0
  segment,      \* every segment that was created
  listen,       \* every listener: its step, its segment, the one it inspects, owns_name
  attach,       \* every connector: its step and its segment
  host,         \* the processes
  within,       \* the process of every listener
  crowded       \* history: two listeners were at work on the name at a time

segmentVars == <<named, segment, listen, attach, host, within, crowded>>

Blank == [sized |-> FALSE, ready |-> FALSE, magic |-> FALSE, pid |-> {}, closed |-> FALSE]
SegmentInit ==
  /\ named = 0 /\ segment = [s \in Segments |-> Blank]
  /\ listen = [l \in Listeners |-> [step |-> "out", of |-> 0, old |-> 0, owns |-> FALSE]]
  /\ attach = [c \in Connectors |-> [step |-> "out", of |-> 0]]
  /\ host = [h \in Hosts |-> "running"] /\ within \in [Listeners -> Hosts] /\ crowded = FALSE

\* process_alive: so is one that nobody has reaped.
PidAlive(pids) == \E h \in pids : host[h] # "gone"
Listens(l, from, to) == listen[l].step = from /\ listen' = [listen EXCEPT ![l].step = to]
Attaches(c, from, to) == attach[c].step = from /\ attach' = [attach EXCEPT ![c].step = to]

-----------------------------------------------------------------------------
(* listen: remove_stale_segment and create_impl.                           *)

ListenCall(l) ==
  /\ host[within[l]] = "running" /\ listen[l].step = "out"
  /\ listen' = [listen EXCEPT ![l].step = IF named = 0 THEN "create" ELSE "check", ![l].old = named]
  /\ UNCHANGED <<named, segment, attach, host>>
LiveConsumer(s) == s.magic /\ PidAlive(s.pid)
CheckSegment(l) ==
  /\ listen[l].step = "check"
  /\ LET s == segment[listen[l].old]
     IN listen' = [listen EXCEPT ![l].step = IF s.sized /\ LiveConsumer(s) THEN "failed" ELSE "unlink", ![l].old = 0]
  /\ UNCHANGED <<named, segment, attach, host>>
UnlinkStale(l) ==
  /\ Listens(l, "unlink", "create") /\ named' = 0
  /\ UNCHANGED <<segment, attach, host>>

NextSegment == Cardinality({l \in Listeners : listen[l].of # 0}) + 1
\* O_CREAT | O_EXCL
CreateSegment(l) ==
  /\ listen[l].step = "create"
  /\ IF named # 0 THEN Listens(l, "create", "failed") /\ UNCHANGED named
     ELSE /\ named' = NextSegment
          /\ listen' = [listen EXCEPT ![l] = [@ EXCEPT !.step = "size", !.of = NextSegment, !.owns = TRUE]]
  /\ UNCHANGED <<segment, attach, host>>
\* ftruncate, or an error: the destructor removes the name.
SizeSegment(l) ==
  /\ \/ Listens(l, "size", "initialise") /\ segment' = [segment EXCEPT ![listen[l].of].sized = TRUE]
     \/ Listens(l, "size", "unlinking") /\ UNCHANGED segment
  /\ UNCHANGED <<named, attach, host>>
\* mmap and initialize_sync may fail as well.
InitialiseSegment(l) ==
  /\ \/ /\ Listens(l, "initialise", "magic")
        /\ segment' = [segment EXCEPT ![listen[l].of] = [@ EXCEPT !.ready = TRUE, !.pid = {within[l]}]]
     \/ Listens(l, "initialise", "unlinking") /\ UNCHANGED segment
  /\ UNCHANGED <<named, attach, host>>
StoreMagic(l) ==
  /\ Listens(l, "magic", "ready")
  /\ segment' = [segment EXCEPT ![listen[l].of].magic = TRUE]
  /\ UNCHANGED <<named, attach, host>>

-----------------------------------------------------------------------------
(* request_close and release.                                              *)

ReleaseRole(l) ==
  /\ Listens(l, "ready", "unlinking")
  /\ segment' = [segment EXCEPT ![listen[l].of].closed = TRUE, ![listen[l].of].pid = @ \ {within[l]}]
  /\ UNCHANGED <<named, attach, host>>
\* A close() that leaves the name to the destructor as well.
KeepsOwning(l) == TRUE
StillOwns(l) == FALSE
UnlinkName(l) ==
  /\ listen[l].step = "unlinking"
  /\ named' = 0
  /\ listen' = [listen EXCEPT ![l].step = "closed", ![l].owns = StillOwns(l)]
  /\ UNCHANGED <<segment, attach, host>>
DestroySegment(l) ==
  /\ Listens(l, "closed", "destroyed")
  /\ named' = IF listen[l].owns THEN 0 ELSE named
  /\ UNCHANGED <<segment, attach, host>>

-----------------------------------------------------------------------------
(* connect.                                                                *)

OpenSegment(c) ==
  /\ attach[c].step = "out" /\ named # 0
  /\ attach' = [attach EXCEPT ![c] = [step |-> "stat", of |-> named]]
  /\ UNCHANGED <<named, segment, listen, host>>
\* A segment that has no size yet is refused.
StatSegment(c) ==
  /\ Attaches(c, "stat", IF segment[attach[c].of].sized THEN "await" ELSE "failed")
  /\ UNCHANGED <<named, segment, listen, host>>
AwaitMagic(c) ==
  /\ attach[c].step = "await" /\ segment[attach[c].of].magic /\ Attaches(c, "await", "claim")
  /\ UNCHANGED <<named, segment, listen, host>>
ClaimSegment(c) ==
  /\ Attaches(c, "claim", IF segment[attach[c].of].closed THEN "failed" ELSE "attached")
  /\ UNCHANGED <<named, segment, listen, host>>
\* connect_timeout, or the node stops.
ConnectGivesUp(c) ==
  /\ Attaches(c, "out", "failed") \/ Attaches(c, "await", "failed")
  /\ UNCHANGED <<named, segment, listen, host>>

HostDies(h) ==
  /\ host[h] = "running" /\ host' = [host EXCEPT ![h] = "zombie"]
  /\ listen' = [l \in Listeners |-> IF within[l] = h THEN [listen[l] EXCEPT !.step = "dead"] ELSE listen[l]]
  /\ UNCHANGED <<named, segment, attach>>
HostReaped(h) ==
  /\ host[h] = "zombie" /\ host' = [host EXCEPT ![h] = "gone"]
  /\ UNCHANGED <<named, segment, listen, attach>>

AtWork == {l \in Listeners : listen[l].step \in {"check", "unlink", "create", "size", "initialise", "magic",
                                                 "unlinking"}}
SegmentNext ==
  /\ \/ \E l \in Listeners :
          \/ ListenCall(l) \/ CheckSegment(l) \/ UnlinkStale(l) \/ CreateSegment(l)
          \/ SizeSegment(l) \/ InitialiseSegment(l) \/ StoreMagic(l)
          \/ ReleaseRole(l) \/ UnlinkName(l) \/ DestroySegment(l)
     \/ \E c \in Connectors :
          OpenSegment(c) \/ StatSegment(c) \/ AwaitMagic(c) \/ ClaimSegment(c) \/ ConnectGivesUp(c)
     \/ \E h \in Hosts : HostDies(h) \/ HostReaped(h)
  /\ UNCHANGED within /\ crowded' = (crowded \/ Cardinality(AtWork') > 1)
SegmentSpec == SegmentInit /\ [][SegmentNext]_segmentVars

-----------------------------------------------------------------------------
SegmentTypeOK ==
  /\ named \in {0} \cup Segments /\ crowded \in BOOLEAN
  /\ segment \in [Segments -> [sized : BOOLEAN, ready : BOOLEAN, magic : BOOLEAN, pid : SUBSET Hosts,
                               closed : BOOLEAN]]
  /\ \A l \in Listeners : listen[l].of \in {0} \cup Segments /\ listen[l].owns \in BOOLEAN
  /\ \A c \in Connectors : attach[c].of \in {0} \cup Segments
  /\ within \in [Listeners -> Hosts] /\ host \in [Hosts -> {"running", "zombie", "gone"}]

\* A listener that is ready has the name: a listener that died in any step, a
\* close() of another transport and its later destruction do not take it away;
\* and who attaches finds the mutex initialised.  Only two listeners at work at
\* the same time can remove each other's name: the check of the old segment and
\* shm_unlink are separate, and so are the end of a role and shm_unlink
\* (shared_memory_transport.cpp:91-113, 227-266, 281-288, 306-329).
NameIsKept ==
  /\ ~crowded => \A l \in Listeners : listen[l].step = "ready" => named = listen[l].of
  /\ \A c \in Connectors : attach[c].step = "attached" => segment[attach[c].of].ready
=============================================================================
