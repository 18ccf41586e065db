-------------------------- MODULE ComposeExecution --------------------------
(***************************************************************************)
(* graphx run up|down for a container graph (compose_execution.cpp): the   *)
(* volumes, the container that stages credentials, the networks and the    *)
(* services, each recorded as pending before docker is asked to create it  *)
(* and recorded with its identity afterwards; readiness, admission and the *)
(* release barrier; stop, which removes what the ledger records; and the   *)
(* container in which a credential of a ready graph is rotated, under the  *)
(* same lock and ledger (scenario_execution.cpp).  An invocation may be    *)
(* killed between any two steps, any docker command may fail with or       *)
(* without having had its effect, the daemon may be unreachable, and other *)
(* people may use the same names.                                          *)
(*                                                                         *)
(* An object is found by name or by identity; identities are compared with *)
(* the recorded one only, so a fresh one differs from what is recorded.    *)
(* The test of an identity and the removal that follows are one step.      *)
(***************************************************************************)
EXTENDS Integers, Sequences, SequencesExt

CONSTANTS
  Extensions,        \* platform.extensions
  Applications,      \* the nodes that run in containers
  MaxComposeUps, MaxComposeDowns,  \* bounds: invocations of up and of a rotation, of down
  MaxMishaps         \* bound: killed invocations, steps of other people, outages of docker

Volumes == <<"history", "credentials">>
Stage == "stage"
Services == <<"platform">> \o Extensions \o Applications
Composed == <<"network">> \o Services
Objects == Volumes \o <<Stage>> \o Composed   \* in the order they are recorded
Rotation == "rotation"   \* the container of a credential-rotate action
Recordable == Objects \o <<Rotation>>
Named == ToSet(Recordable)
Containers == {Stage, Rotation} \cup ToSet(Services)
Apps == ToSet(Applications)
ASSUME ServicesAssumption ==
  Extensions \in Seq(STRING) /\ Applications \in Seq(STRING) /\ IsInjective(Recordable)
ASSUME ComposeBoundsAssumption ==
  {MaxComposeUps, MaxComposeDowns, MaxMishaps} \subseteq Nat

Unrecorded == -1   \* no entry in state.processes
Pending == 0       \* an entry with stable_id "pending"
Absent == [id |-> 0, ours |-> FALSE, phase |-> "none"]

VARIABLES
  admitAll,    \* lifecycle.startup is all, not available
  docker,      \* the object of every name
  answering,   \* does the daemon answer: always, not now, or again
  memory,      \* state.processes of the invocation
  disk,        \* state.processes of ownership.yml
  graphStatus, \* state.status of ownership.yml
  admission,   \* state.applications
  release,     \* barriers/release
  step,        \* where the invocation is, or idle
  at,          \* the place in Objects or Services it has got to; -1 in a down
  composeResult,  \* how the last invocation ended
  releasable,  \* history: this run's applications were admitted and checked
  harmed,      \* history: objects of others that were removed or stopped
  allowance    \* what the bounds leave

composeVars == <<admitAll, docker, answering, memory, disk, graphStatus, admission, release, step, at,
                 composeResult, releasable, harmed, allowance>>
record == <<memory, disk, graphStatus>>
about == <<admitAll, answering, releasable, allowance>>

ComposeInit ==
  /\ admitAll \in BOOLEAN
  /\ docker = [n \in Named |-> Absent]
  /\ answering = "always"
  /\ memory = [n \in Named |-> Unrecorded] /\ disk = memory
  /\ graphStatus = "none"
  /\ admission = [a \in Apps |-> "none"]
  /\ release = FALSE
  /\ step = "idle" /\ at = 0
  /\ composeResult = "none"
  /\ releasable = FALSE /\ harmed = {}
  /\ allowance = [ups |-> MaxComposeUps, downs |-> MaxComposeDowns, mishaps |-> MaxMishaps]

Answers == answering # "no"
Spend(what) == allowance' = [allowance EXCEPT ![what] = @ - 1]

-----------------------------------------------------------------------------
(* Docker, as the code uses it.                                            *)

Fresh(n) == CHOOSE k \in 1 .. 4 : k \notin {memory[n], disk[n], docker[n].id}
Made(n, ours) == [id |-> Fresh(n), ours |-> ours, phase |-> "made"]

\* inspect: a command that fails and an object that does not exist are the same
\* to it.  A volume's stable identity is its name.
Found(n, by) ==
  /\ Answers /\ docker[n].id # 0
  /\ by = Pending \/ n \in ToSet(Volumes) \/ docker[n].id = by
\* An object somebody else labelled, or a volume that was created anew.
Mismatch(n) ==
  Found(n, memory[n]) /\ (~docker[n].ours \/ (memory[n] # Pending /\ docker[n].id # memory[n]))
Refuses(n) == Mismatch(n)
\* What observe() makes of a record that it does not refuse.
Observed(n) == IF memory[n] # Unrecorded /\ Found(n, memory[n]) THEN docker[n].id ELSE memory[n]

Running(n) == docker[n].phase \in {"running", "ready", "working"}

DaemonChanges ==
  /\ \/ answering = "always" /\ allowance.mishaps > 0 /\ Spend("mishaps") /\ answering' = "no"
     \/ answering = "no" /\ answering' = "again" /\ UNCHANGED allowance
  /\ UNCHANGED <<admitAll, docker, record, admission, release, step, at, composeResult, releasable, harmed>>

\* Other people take a free name, or remove an object of ours.
StrangerActs ==
  /\ Answers /\ allowance.mishaps > 0 /\ Spend("mishaps")
  /\ \E n \in Named :
       /\ docker[n].id = 0 => n # Rotation   \* a random name
       /\ docker' = [docker EXCEPT ![n] = IF docker[n].id = 0 THEN Made(n, FALSE) ELSE Absent]
  /\ UNCHANGED <<admitAll, answering, record, admission, release, step, at, composeResult, releasable, harmed>>

\* A container prints its ready line, passes the barrier, or exits.  The token
\* of the barrier is the ledger's, run after run.
ContainerRuns(n) ==
  /\ docker[n].ours
  /\ \/ docker[n].phase = "running" /\ docker' = [docker EXCEPT ![n].phase = "ready"]
     \/ docker[n].phase = "ready" /\ n \in Apps /\ release /\ docker' = [docker EXCEPT ![n].phase = "working"]
     \/ Running(n) /\ docker' = [docker EXCEPT ![n].phase = "exited"]
  /\ UNCHANGED <<about, record, admission, release, step, at, composeResult, harmed>>

-----------------------------------------------------------------------------
(* How an invocation goes on and how it ends.                              *)

Saved == disk' = memory'
Continue(s, i) == step' = s /\ at' = i /\ UNCHANGED composeResult
Finish(outcome) == step' = "idle" /\ at' = 0 /\ composeResult' = outcome
Starting == {"own", "create", "observe", "stage", "unstage", "forget", "compose", "start", "await",
             "admit", "publish", "ready"}

\* The catch block of execute_compose: an interruption, a deadline, a failed
\* command or a failed test.
Rollback ==
  /\ step \in Starting
  /\ Continue("validate", 0)
  /\ UNCHANGED <<about, docker, record, admission, release, harmed>>

Killed ==
  /\ step # "idle" /\ allowance.mishaps > 0 /\ Spend("mishaps")
  /\ Finish("killed") /\ memory' = disk
  /\ UNCHANGED <<admitAll, docker, answering, disk, graphStatus, admission, release, releasable, harmed>>

-----------------------------------------------------------------------------
(* up: records before resources.                                           *)

RetainedOnly == \A n \in Named \ {"history"} : disk[n] = Unrecorded
ComposeUp ==
  /\ step = "idle" /\ Answers /\ allowance.ups > 0 /\ RetainedOnly
  /\ memory' = disk /\ graphStatus' = "creating" /\ releasable' = FALSE
  /\ Continue("own", 1) /\ Spend("ups")
  /\ UNCHANGED <<admitAll, docker, answering, disk, admission, release, harmed>>

\* A record that is saved together with the resource's identity.
SavedLater(n) == memory' = [memory EXCEPT ![n] = Pending] /\ UNCHANGED disk
SavedBefore(n) == memory' = [memory EXCEPT ![n] = Pending] /\ Saved

\* own(), and the volumes that an earlier run left behind.
OwnObject ==
  /\ step = "own"
  /\ LET n == Objects[at] IN
     \/ /\ memory[n] # Unrecorded /\ Found(n, memory[n]) /\ ~Refuses(n)
        /\ memory' = [memory EXCEPT ![n] = Observed(n)] /\ Continue("own", at + 1) /\ UNCHANGED disk
     \/ /\ memory[n] = Unrecorded /\ ~Found(n, Pending)
        /\ SavedBefore(n)
        /\ IF n \in ToSet(Composed) /\ at < Len(Objects) THEN Continue("own", at + 1)
           ELSE Continue(IF n \in ToSet(Composed) THEN "compose" ELSE "create", at)
  /\ UNCHANGED <<about, docker, graphStatus, admission, release, harmed>>

Creates(n) ==
  /\ Answers /\ docker[n].id = 0
  /\ docker' = [docker EXCEPT ![n] = Made(n, TRUE)]

CreateObject ==
  /\ step = "create"
  /\ Creates(Objects[at])
  /\ \/ Continue("observe", at)
     \/ Continue("validate", 0)   \* made, but the command failed
  /\ UNCHANGED <<about, record, admission, release, harmed>>

\* The result of observe() is not looked at: an object that is gone stays pending.
ObserveObject ==
  /\ step = "observe" /\ ~Refuses(Objects[at])
  /\ memory' = [memory EXCEPT ![Objects[at]] = Observed(Objects[at])] /\ Saved
  /\ IF Objects[at] = Stage THEN Continue("stage", at) ELSE Continue("own", at + 1)
  /\ UNCHANGED <<about, docker, graphStatus, admission, release, harmed>>

\* The staging container runs to its end, is removed and is forgotten.
RunStage ==
  /\ step = "stage" /\ memory[Stage] # Pending /\ Found(Stage, memory[Stage])
  /\ docker' = [docker EXCEPT ![Stage].phase = "exited"]
  /\ Continue("unstage", at)
  /\ UNCHANGED <<about, record, admission, release, harmed>>
RemoveStage ==
  /\ step = "unstage" /\ Found(Stage, memory[Stage])
  /\ docker' = [docker EXCEPT ![Stage] = Absent]
  /\ Continue("forget", at) \/ Continue("validate", 0)
  /\ UNCHANGED <<about, record, admission, release, harmed>>
ForgetStage ==
  /\ step = "forget"
  /\ memory' = [memory EXCEPT ![Stage] = Unrecorded] /\ Saved
  /\ Continue("own", at + 1)
  /\ UNCHANGED <<about, docker, graphStatus, admission, release, harmed>>

\* docker compose create makes the networks and the containers in turn; on any
\* failure what it has made stays.
ComposeCreates ==
  /\ step = "compose"
  /\ \E n \in ToSet(Composed) : Creates(n)
  /\ UNCHANGED <<about, record, admission, release, harmed, step, at, composeResult>>
IdentifyAll ==
  /\ step = "compose" /\ Answers
  /\ \A n \in ToSet(Composed) : docker[n].id # 0
  /\ \A n \in Named : memory[n] # Unrecorded => ~Refuses(n)
  /\ memory' = [n \in Named |-> Observed(n)] /\ Saved
  /\ Continue("start", 1)
  /\ UNCHANGED <<about, docker, graphStatus, admission, release, harmed>>

-----------------------------------------------------------------------------
(* up: readiness, admission, release.                                      *)

\* docker compose start: the platform and each extension in turn, each awaited,
\* then all applications at once.
Serial == 1 + Len(Extensions)
StartService ==
  /\ step = "start" /\ Answers /\ at <= Serial
  /\ docker[Services[at]].phase = "made"
  /\ docker' = [docker EXCEPT ![Services[at]].phase = "running"]
  /\ Continue("await", at)
  /\ UNCHANGED <<about, record, admission, release, harmed>>
AwaitService ==
  /\ step = "await" /\ Answers /\ docker[Services[at]].phase = "ready"
  /\ Continue("start", at + 1)
  /\ UNCHANGED <<about, docker, record, admission, release, harmed>>
StartApplications ==
  /\ step = "start" /\ Answers /\ at > Serial
  /\ \E started \in SUBSET {a \in Apps : docker[a].phase = "made"} :
       /\ docker' = [n \in Named |-> IF n \in started THEN [docker[n] EXCEPT !.phase = "running"] ELSE docker[n]]
       /\ IF started = Apps THEN Continue("admit", 0) ELSE Continue("validate", 0)
  /\ admission' = [a \in Apps |-> "none"]
  /\ UNCHANGED <<about, record, release, harmed>>

\* One application of a pass: it has exited, it is late, or it is ready.  The
\* one that is late is stopped after the loop.
Outcome(a) ==
  IF ~Running(a) THEN IF admitAll THEN {} ELSE {"exited"}
  ELSE (IF admitAll THEN {} ELSE {"timeout"}) \cup (IF docker[a].phase # "running" THEN {"ready"} ELSE {})
AdmitApplication ==
  /\ step = "admit"
  /\ \E a \in Apps :
       /\ admission[a] = "none" /\ Found(a, memory[a]) /\ ~Refuses(a)
       /\ \E outcome \in Outcome(a) : admission' = [admission EXCEPT ![a] = outcome]
  /\ UNCHANGED <<about, docker, record, release, harmed, step, at, composeResult>>
StopLate ==
  /\ step = "admit" /\ \A a \in Apps : admission[a] # "none"
  /\ \E a \in Apps :
       /\ admission[a] = "timeout" /\ Running(a) /\ Found(a, memory[a]) /\ ~Refuses(a)
       /\ docker' = [docker EXCEPT ![a].phase = "exited"]
  /\ UNCHANGED <<about, record, admission, release, harmed, step, at, composeResult>>

\* Every container once more before the release.
Releasable(n) ==
  /\ Found(n, memory[n]) /\ ~Refuses(n)
  /\ Running(n) \/ (~admitAll /\ n \in Apps)
RecheckContainers ==
  /\ step = "admit"
  /\ \A a \in Apps : admission[a] # "none" /\ ~(admission[a] = "timeout" /\ Running(a))
  /\ \A n \in ToSet(Services) : Releasable(n)
  /\ admission' = [a \in Apps |-> IF ~Running(a) /\ admission[a] = "ready" THEN "exited" ELSE admission[a]]
  /\ disk' = memory /\ UNCHANGED memory
  /\ releasable' = TRUE
  /\ Continue("publish", 0)
  /\ UNCHANGED <<admitAll, answering, allowance, docker, graphStatus, release, harmed>>
PublishRelease ==
  /\ step = "publish"
  /\ release' = TRUE
  /\ Continue("ready", 0)
  /\ UNCHANGED <<about, docker, record, admission, harmed>>
ComposeReady ==
  /\ step = "ready"
  /\ graphStatus' = "ready"
  /\ Finish("ready")
  /\ UNCHANGED <<about, docker, memory, disk, admission, release, harmed>>

-----------------------------------------------------------------------------
(* scenario run credential-rotate: another recorded container.  Whatever   *)
(* fails is left to down.                                                  *)

RotateCall ==
  /\ step = "idle" /\ allowance.ups > 0 /\ graphStatus = "ready" /\ disk[Rotation] = Unrecorded
  /\ \A n \in {"platform", "credentials"} :
       docker[n].ours /\ Found(n, disk[n]) /\ (n = "platform" => Running(n))
  /\ memory' = [disk EXCEPT ![Rotation] = Pending] /\ Saved
  /\ Continue("rotate", 0) /\ Spend("ups")
  /\ UNCHANGED <<admitAll, docker, answering, graphStatus, admission, release, releasable, harmed>>
RotateCreates ==
  /\ step = "rotate"
  /\ Creates(Rotation)
  /\ Continue("created", 0) \/ Finish("failed")
  /\ UNCHANGED <<about, record, admission, release, harmed>>
\* docker create prints the identity.
RotateIdentifies ==
  /\ step = "created"
  /\ memory' = [memory EXCEPT ![Rotation] = IF docker[Rotation].id # 0 THEN docker[Rotation].id ELSE Fresh(Rotation)]
  /\ Saved
  /\ Continue("rotating", 0)
  /\ UNCHANGED <<about, docker, graphStatus, admission, release, harmed>>
RotateRuns ==
  /\ step = "rotating" /\ Found(Rotation, memory[Rotation])
  /\ docker' = [docker EXCEPT ![Rotation].phase = "exited"]
  /\ Continue("rotated", 0)
  /\ UNCHANGED <<about, record, admission, release, harmed>>
RotateRemoves ==
  /\ step = "rotated" /\ Found(Rotation, memory[Rotation])
  /\ docker' = [docker EXCEPT ![Rotation] = Absent]
  /\ Continue("complete", 0) \/ Finish("failed")
  /\ UNCHANGED <<about, record, admission, release, harmed>>
RotateCompletes ==
  /\ step = "complete"
  /\ memory' = [memory EXCEPT ![Rotation] = Unrecorded] /\ Saved
  /\ Finish("rotated")
  /\ UNCHANGED <<about, docker, graphStatus, admission, release, harmed>>
Rotating == {"rotate", "created", "rotating", "rotated", "complete"}
RotateFails ==
  /\ step \in Rotating
  /\ Finish("failed")
  /\ UNCHANGED <<about, docker, record, admission, release, harmed>>

-----------------------------------------------------------------------------
(* stop: down, and the roll-back of up.                                    *)

ComposeDown ==
  /\ step = "idle" /\ Answers /\ allowance.downs > 0
  /\ memory' = disk
  /\ Continue("validate", -1) /\ Spend("downs")
  /\ UNCHANGED <<admitAll, docker, answering, disk, graphStatus, admission, release, releasable, harmed>>

\* The whole inventory is checked before anything is touched.
Trusted == \A n \in Named : memory[n] # Unrecorded => ~Refuses(n)
\* A stop that leaves the barrier to the next one.
LeavesRelease == UNCHANGED release
WithdrawRelease == release' = FALSE
ValidateAll ==
  /\ step = "validate"
  /\ \/ /\ Trusted
        /\ memory' = [n \in Named |-> Observed(n)] /\ Saved
        /\ WithdrawRelease /\ UNCHANGED graphStatus
        /\ Continue("withdrawn", at)
     \/ /\ ~Trusted /\ Finish("failed") /\ UNCHANGED <<record, release>>
  /\ UNCHANGED <<about, docker, admission, harmed>>

BeginRemoval ==
  /\ step = "withdrawn"
  /\ graphStatus' = "destroying" /\ disk' = memory
  /\ Continue("remove", at)
  /\ UNCHANGED <<about, docker, memory, admission, release, harmed>>

\* What is left to remove: all but the history volume of a finished creation.
ToRemove ==
  {n \in Named : memory[n] # Unrecorded /\ (n = "history" => memory[n] = Pending)}
LastRecorded ==
  CHOOSE n \in ToRemove : \E i \in DOMAIN Recordable :
    Recordable[i] = n /\ \A j \in DOMAIN Recordable : Recordable[j] \in ToRemove => j <= i
Harm(n) == harmed' = IF docker[n].ours THEN harmed ELSE harmed \cup {n}
StopContainer ==
  /\ step = "remove" /\ ToRemove # {}
  /\ LET n == LastRecorded IN
       /\ Running(n) /\ Found(n, memory[n]) /\ ~Refuses(n)
       /\ docker' = [docker EXCEPT ![n].phase = "exited"] /\ Harm(n)
  /\ UNCHANGED <<about, record, admission, release, step, at, composeResult>>
RemoveObject ==
  /\ step = "remove" /\ ToRemove # {}
  /\ LET n == LastRecorded IN
     \/ /\ Found(n, memory[n]) /\ ~Refuses(n) /\ ~Running(n)
        /\ docker' = [docker EXCEPT ![n] = Absent] /\ Harm(n)
        /\ Continue("erase", at) \/ Finish("failed")
     \/ ~Found(n, memory[n]) /\ Continue("erase", at) /\ UNCHANGED <<docker, harmed>>
     \/ Refuses(n) /\ Finish("failed") /\ UNCHANGED <<docker, harmed>>
  /\ UNCHANGED <<about, record, admission, release>>
EraseRecord ==
  /\ step = "erase"
  /\ memory' = [memory EXCEPT ![LastRecorded] = Unrecorded] /\ Saved
  /\ Continue("remove", at)
  /\ UNCHANGED <<about, docker, graphStatus, admission, release, harmed>>
\* A required command of stop fails.
StopFails ==
  /\ step = "remove" /\ ToRemove # {}
  /\ Finish("failed")
  /\ UNCHANGED <<about, docker, record, admission, release, harmed>>
StopReturns ==
  /\ step = "remove" /\ ToRemove = {}
  /\ Finish(IF at = -1 THEN "stopped" ELSE "failed")
  /\ UNCHANGED <<about, docker, record, admission, release, harmed>>

ComposeNext ==
  \/ DaemonChanges \/ StrangerActs \/ Rollback \/ Killed
  \/ \E n \in Containers : ContainerRuns(n)
  \/ ComposeUp \/ OwnObject \/ CreateObject \/ ObserveObject
  \/ RunStage \/ RemoveStage \/ ForgetStage \/ ComposeCreates \/ IdentifyAll
  \/ StartService \/ AwaitService \/ StartApplications \/ AdmitApplication \/ StopLate
  \/ RecheckContainers \/ PublishRelease \/ ComposeReady
  \/ RotateCall \/ RotateCreates \/ RotateIdentifies \/ RotateRuns \/ RotateRemoves \/ RotateCompletes
  \/ RotateFails
  \/ ComposeDown \/ ValidateAll \/ BeginRemoval \/ StopContainer \/ RemoveObject \/ EraseRecord \/ StopFails \/ StopReturns

ComposeSpec == ComposeInit /\ [][ComposeNext]_composeVars

-----------------------------------------------------------------------------
ComposeTypeOK ==
  /\ admitAll \in BOOLEAN /\ answering \in {"always", "no", "again"} /\ release \in BOOLEAN
  /\ \A n \in Named :
       /\ docker[n].id \in 0 .. 4 /\ docker[n].ours \in BOOLEAN
       /\ docker[n].phase \in {"none", "made", "running", "ready", "working", "exited"}
       /\ {memory[n], disk[n]} \subseteq -1 .. 4
  /\ admission \in [Apps -> {"none", "ready", "exited", "timeout"}]
  /\ graphStatus \in {"none", "creating", "ready", "destroying"}
  /\ step \in Starting \cup Rotating \cup {"idle", "validate", "withdrawn", "remove", "erase"}
  /\ composeResult \in {"none", "killed", "ready", "failed", "stopped", "rotated"}

OursLeft == {n \in Named : docker[n].ours}

\* Every docker object the graph has made is in the ledger on disk, whatever step
\* up or down was killed in and whichever command failed: the record is saved
\* before docker is asked, and goes after the object.  It holds as long as the
\* daemon answers: inspect() cannot tell a failed command from an object that is
\* gone.
ObjectsAreRecorded ==
  answering = "always" => \A n \in OursLeft : disk[n] \in {Pending, docker[n].id}

\* down and the roll-back of up stop and remove nothing that somebody else
\* created, although it may bear a recorded name by then: a replacement has
\* another identity, and a record that is still pending is compared by its owner
\* label.
OnlyOwnRemoved == harmed = {}

\* What the graph made is recorded, and what it removes it made, at every step
\* of up, down and roll-back, whichever is killed (compose_execution.cpp:51-89,
\* 281-288, 328-346, 513-525).
OwnershipIsKept == ObjectsAreRecorded /\ OnlyOwnRemoved

\* An application works only in a run whose applications were all admitted and
\* whose containers were all checked: the barrier of an earlier run, which bears
\* the same token, is gone before its containers are (compose_execution.cpp:
\* 291-297, 925-1006).
WorksWhenReleased == \A a \in Apps : docker[a].phase = "working" /\ docker[a].id = memory[a] => releasable

\* "Shutdown retains history ... while removing owned execution resources and
\* credential volumes" (docs/GraphX_Architecture.md:280-282): a down that reports
\* success leaves nothing but the history volume (compose_execution.cpp:328-346).
DownRemovesOwned == composeResult = "stopped" => OursLeft \subseteq {"history"}
=============================================================================
