-------------------------------- MODULE Edge --------------------------------
(***************************************************************************)
(* One edge of a graph, between a node that sends and a node that          *)
(* receives: TransportFactory::create gives it the transport its           *)
(* configuration names, and from then on only that transport moves.  Of    *)
(* the shared-memory transport this is the segment and its name; the ring  *)
(* in the segment has a specification of its own (SharedMemoryRing).  An   *)
(* external edge is not the factory's: its application brings a transport, *)
(* here the radio's.                                                       *)
(***************************************************************************)
EXTENDS StreamTransport, DatagramTransport, InProcessChannel, SharedMemorySegment, RadioTransport

VARIABLE transport   \* transport_kind(edge.transport)

edgeVars == <<transport, streamVars, datagramVars, channelVars, segmentVars, radioVars>>

\* TransportFactory::create; the options of the transports the edge does not have
\* do not matter.
Create ==
  /\ transport \in {"tcp", "unix", "udp", "in_process", "shared_memory", "external"}
  /\ options.kind = IF transport = "tcp" THEN "tcp" ELSE "unix"
  /\ transport # "in_process" => policy = "block"
  /\ transport # "shared_memory" => within = CHOOSE w \in [Listeners -> Hosts] : TRUE
EdgeInit == StreamInit /\ DatagramInit /\ ChannelInit /\ SegmentInit /\ RadioInit /\ Create

EdgeNext ==
  \/ /\ transport \in {"tcp", "unix"} /\ StreamNext
     /\ UNCHANGED <<transport, datagramVars, channelVars, segmentVars, radioVars>>
  \/ /\ transport = "udp" /\ DatagramNext
     /\ UNCHANGED <<transport, streamVars, channelVars, segmentVars, radioVars>>
  \/ /\ transport = "in_process" /\ ChannelNext
     /\ UNCHANGED <<transport, streamVars, datagramVars, segmentVars, radioVars>>
  \/ /\ transport = "shared_memory" /\ SegmentNext
     /\ UNCHANGED <<transport, streamVars, datagramVars, channelVars, radioVars>>
  \/ /\ transport = "external" /\ RadioNext
     /\ UNCHANGED <<transport, streamVars, datagramVars, channelVars, segmentVars>>

\* A transport that is not the edge's never begins, and then nothing of it must happen.
Spec ==
  /\ EdgeInit /\ [][EdgeNext]_edgeVars
  /\ StreamFairness /\ DatagramFairness /\ ChannelFairness /\ RadioFairness

-----------------------------------------------------------------------------
TypeOK ==
  /\ StreamTypeOK /\ DatagramTypeOK /\ ChannelTypeOK /\ SegmentTypeOK /\ RadioTypeOK
  /\ transport \in {"tcp", "unix", "udp", "in_process", "shared_memory", "external"}

\* Blocked work ends on every transport: a receive of the socket transports on
\* which close() was called and which has a deadline or can be cancelled, a
\* close() that needs the lock a receiver holds, and every thread asleep on the
\* in-process channel although its predicate holds: no wake-up is lost between
\* the test of the predicate, the wait and the notification after the unlock.
\* And a receive of datagrams meets its deadline although malformed ones keep
\* the socket readable (unix_domain_socket_transport.cpp:92-108,
\* udp_transport.cpp:219-248, 414-420, in_process_transport.cpp:15-59).
BlockedWorkEnds == []<>~(ReceiveHangs \/ closer = "waiting" \/ Asleep) /\ []<>~finite
=============================================================================
