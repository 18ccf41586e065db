---------------------------- MODULE GuestSession ----------------------------
(***************************************************************************)
(* One QEMU guest.  While `up` runs, GuestSession starts QEMU, connects    *)
(* the three virtio ports, provisions the agent of the guest and releases  *)
(* it; afterwards the console relay and the traffic scenario read the      *)
(* guest's serial ring through QMP and mirror it in a bounded file.  The   *)
(* agent (guests/common/agent.py) runs beside them and may fail; QEMU      *)
(* drops what is sent to a port that the guest has not opened, and a read  *)
(* of a port nobody is connected to returns nothing.                       *)
(***************************************************************************)
EXTENDS Naturals, Sequences, SequencesExt

CONSTANTS
  RingSize,     \* the serial ring of QEMU
  Window,       \* the bytes kept in <node>.boot
  MaxBytes, MaxInspections   \* bounds of the model

ASSUME GuestAssumption == {RingSize, Window, MaxBytes, MaxInspections} \subseteq Nat \ {0}

VARIABLES
  host,         \* what GuestSession does next
  connected,    \* the ports the host is connected to
  guest,        \* what the agent does next
  opened,       \* the ports the agent has opened
  inbox,        \* frames on their way to the guest, by port
  answers,      \* frames on their way to the host, on ready
  ring,         \* the serial ring
  emitted,      \* serial bytes written so far: byte n is the number n
  graphLock,    \* the consumer that holds the graph lock, or "nobody"
  consumer,     \* inspect_guest of each consumer: its step and what it holds
  cache,        \* <node>.boot
  settled,      \* history: the bytes of the inspections that were completed
  paused,       \* QMP stop
  inspections   \* inspections begun

handshakeVars == <<host, connected, guest, opened, inbox, answers>>
serialVars == <<ring, emitted, cache, settled, graphLock, consumer, paused, inspections>>
guestVars == <<handshakeVars, serialVars>>

Ports == <<"config", "credentials", "ready">>
AllPorts == ToSet(Ports)
Consumers == {"relay", "scenario"}
Idle == [step |-> "idle", serial |-> <<>>, retained |-> <<>>]
\* retained.erase: the newest n entries.
Newest(s, n) == IF Len(s) > n THEN SubSeq(s, Len(s) - n + 1, Len(s)) ELSE s

GuestInit ==
  /\ host = "start" /\ connected = {} /\ guest = "boot" /\ opened = {}
  /\ inbox = [p \in AllPorts |-> <<>>] /\ answers = <<>>
  /\ ring = <<>> /\ emitted = 0 /\ graphLock = "nobody" /\ consumer = [c \in Consumers |-> Idle]
  /\ cache = <<>> /\ settled = {} /\ paused = FALSE /\ inspections = 0

-----------------------------------------------------------------------------
\* The host.  QEMU runs from its start on, registered before its gate opens.
StartQemu ==
  /\ host = "start" /\ host' = "connect"
  /\ UNCHANGED <<connected, guest, opened, inbox, answers, serialVars>>
ConnectPort ==
  /\ host = "connect"
  /\ \E i \in DOMAIN Ports :
       /\ connected = ToSet(SubSeq(Ports, 1, i - 1)) /\ connected' = connected \cup {Ports[i]}
       /\ host' = IF i = Len(Ports) THEN "frontends" ELSE "connect"
  /\ UNCHANGED <<guest, opened, inbox, answers, serialVars>>
\* query-chardev until the guest has opened every port.
NotAwaited == TRUE
FrontendsOpen == opened = AllPorts
Frontends ==
  /\ host = "frontends" /\ FrontendsOpen /\ host' = "config"
  /\ UNCHANGED <<connected, guest, opened, inbox, answers, serialVars>>
Delivered(p, frame) == inbox' = IF p \in opened THEN [inbox EXCEPT ![p] = Append(@, frame)] ELSE inbox
Provision ==
  /\ \/ host = "config" /\ Delivered("config", "config") /\ host' = "credentials"
     \/ host = "credentials" /\ Delivered("credentials", "secret") /\ host' = "bound"
     \/ host = "barrier" /\ Delivered("ready", "release") /\ host' = "released?"
  /\ UNCHANGED <<connected, guest, opened, answers, serialVars>>
Receive ==
  /\ answers # <<>> /\ answers' = Tail(answers)
  /\ \/ host = "bound" /\ host' = IF Head(answers) = "listeners-bound" THEN "barrier" ELSE "failed"
     \/ host = "released?" /\ host' = IF Head(answers) = "released" THEN "released" ELSE "failed"
  /\ UNCHANGED <<connected, guest, opened, inbox, serialVars>>
\* The deadline, a signal, or QEMU gone: the rollback stops QEMU.
HostFails ==
  /\ host \notin {"start", "released", "failed"} /\ host' = "failed" /\ guest' = "dead"
  /\ UNCHANGED <<connected, opened, inbox, answers, serialVars>>

-----------------------------------------------------------------------------
\* The agent: it opens its ports, then reads config and credentials.
Awake == host # "start" /\ ~paused
OpenPort ==
  /\ Awake /\ guest = "boot"
  /\ \E i \in DOMAIN Ports :
       /\ opened = ToSet(SubSeq(Ports, 1, i - 1)) /\ opened' = opened \cup {Ports[i]}
       /\ guest' = IF i = Len(Ports) THEN "config" ELSE "boot"
  /\ UNCHANGED <<host, connected, inbox, answers, serialVars>>
Reads(p, next) ==
  \/ /\ inbox[p] # <<>> /\ inbox' = [inbox EXCEPT ![p] = Tail(@)] /\ guest' = next
  \/ /\ p \notin connected /\ guest' = "dead" /\ UNCHANGED inbox      \* truncated guest channel
AgentReads ==
  /\ Awake
  /\ \/ guest = "config" /\ Reads("config", "credentials")
     \/ guest = "credentials" /\ Reads("credentials", "provision")
     \/ guest = "release" /\ Reads("ready", "publish")
  /\ UNCHANGED <<host, connected, opened, answers, serialVars>>
\* provision and the start of the application; later the release file.
AgentAnswers ==
  /\ Awake
  /\ \/ guest = "provision" /\ guest' = "release" /\ answers' = Append(answers, "listeners-bound")
     \/ guest = "publish" /\ guest' = "running" /\ answers' = Append(answers, "released")
  /\ UNCHANGED <<host, connected, opened, inbox, serialVars>>
AgentFails ==
  /\ Awake /\ guest # "dead" /\ guest' = "dead"
  /\ UNCHANGED <<host, connected, opened, inbox, answers, serialVars>>
\* A full ring drops its oldest byte.
Emit ==
  /\ Awake /\ guest # "dead" /\ emitted < MaxBytes /\ emitted' = emitted + 1
  /\ ring' = Newest(Append(ring, emitted + 1), RingSize)
  /\ UNCHANGED <<handshakeVars, cache, settled, graphLock, consumer, paused, inspections>>

-----------------------------------------------------------------------------
\* inspect_guest, called with the graph lock held: shared by the relay,
\* exclusive by the scenario, which may pause the guest first.  A guest that
\* query-status does not call running is refused in the code and inspected here.
WithoutLock(c) == graphLock = "nobody" \/ c = "relay"
Obtains(c) == graphLock = "nobody"
Inspect(c) ==
  /\ host = "released" /\ consumer[c].step = "idle" /\ Obtains(c) /\ inspections < MaxInspections
  /\ graphLock' = c /\ inspections' = inspections + 1
  /\ \/ consumer' = [consumer EXCEPT ![c].step = "drain"]
     \/ c = "scenario" /\ consumer' = [consumer EXCEPT ![c].step = "pause"]
  /\ UNCHANGED <<handshakeVars, ring, emitted, cache, settled, paused>>
Pause ==
  /\ consumer["scenario"].step = "pause" /\ paused' = TRUE
  /\ consumer' = [consumer EXCEPT !["scenario"].step = "resume"]
  /\ UNCHANGED <<handshakeVars, ring, emitted, cache, settled, graphLock, inspections>>
Resume ==
  /\ consumer["scenario"].step = "resume" /\ paused' = FALSE
  /\ consumer' = [consumer EXCEPT !["scenario"].step = "drain"]
  /\ UNCHANGED <<handshakeVars, ring, emitted, cache, settled, graphLock, inspections>>
\* ringbuf-read until it is empty.
Drain(c) ==
  /\ consumer[c].step = "drain" /\ ring' = <<>>
  /\ consumer' = [consumer EXCEPT ![c].step = "retain", ![c].serial = ring]
  /\ UNCHANGED <<handshakeVars, emitted, cache, settled, graphLock, paused, inspections>>
Retain(c) ==
  /\ consumer[c].step = "retain"
  /\ consumer' = [consumer EXCEPT ![c].step = "publish", ![c].retained = cache]
  /\ UNCHANGED <<handshakeVars, ring, emitted, cache, settled, graphLock, paused, inspections>>
Publish(c) ==
  /\ consumer[c].step = "publish"
  /\ cache' = Newest(consumer[c].retained \o consumer[c].serial, Window)
  /\ settled' = settled \cup ToSet(consumer[c].serial)
  /\ consumer' = [consumer EXCEPT ![c] = Idle] /\ graphLock' = "nobody"
  /\ UNCHANGED <<handshakeVars, ring, emitted, paused, inspections>>
\* A consumer fails or is killed: the bytes it holds are gone, and a guest it
\* paused stays paused.
ConsumerFails(c) ==
  /\ consumer[c].step # "idle"
  /\ consumer' = [consumer EXCEPT ![c] = Idle] /\ graphLock' = "nobody"
  /\ UNCHANGED <<handshakeVars, ring, emitted, cache, settled, paused, inspections>>

HostStep == ConnectPort \/ Frontends \/ Provision \/ Receive
AgentStep == OpenPort \/ AgentReads \/ AgentAnswers
GuestNext ==
  \/ StartQemu \/ HostStep \/ HostFails \/ AgentStep \/ AgentFails \/ Emit
  \/ Pause \/ Resume
  \/ \E c \in Consumers : Inspect(c) \/ Drain(c) \/ Retain(c) \/ Publish(c) \/ ConsumerFails(c)
\* Host and agent run; the deadline is counted on only when the agent is dead.
GuestFairness ==
  /\ WF_guestVars(HostStep) /\ WF_guestVars(AgentStep) /\ WF_guestVars(HostFails /\ guest = "dead")
GuestSpec == GuestInit /\ [][GuestNext]_guestVars /\ GuestFairness

-----------------------------------------------------------------------------
GuestTypeOK ==
  /\ host \in {"start", "connect", "frontends", "config", "credentials", "bound", "barrier", "released?",
               "released", "failed"}
  /\ guest \in {"boot", "config", "credentials", "provision", "release", "publish", "running", "dead"}
  /\ connected \subseteq AllPorts /\ opened \subseteq AllPorts
  /\ inbox \in [AllPorts -> Seq({"config", "secret", "release"})]
  /\ answers \in Seq({"listeners-bound", "released"})
  /\ Len(ring) <= RingSize /\ Len(cache) <= Window /\ emitted \in 0 .. MaxBytes
  /\ graphLock \in Consumers \cup {"nobody"} /\ paused \in BOOLEAN

\* The handshake ends: it releases a guest that lives, without waiting for its
\* deadline, however the boot of the guest and the connections of the host
\* interleave, and it fails when the agent is dead; it never waits for an
\* answer to a frame that a closed port dropped
\* (qemu_resources.cpp:443-476, guests/common/agent.py:127-184).
GuestComesUp == (host # "start") ~> (host \in {"released", "failed"})

\* The boot log holds the newest of all bytes that completed inspections took
\* from the ring, in order, each once: two readers of the ring never overwrite
\* each other's bytes (qemu_resources.cpp:330-368, node_console.cpp:223-227).
SerialIsKept ==
  /\ \A i, j \in DOMAIN cache : i < j => cache[i] < cache[j]
  /\ ToSet(cache) \subseteq settled
  /\ \A n \in settled \ ToSet(cache) : Len(cache) = Window /\ \A i \in DOMAIN cache : n < cache[i]
=============================================================================
