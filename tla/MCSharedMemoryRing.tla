------------------------- MODULE MCSharedMemoryRing -------------------------
(***************************************************************************)
(* SharedMemoryRing for TLC: the processes, messages and bounds of its     *)
(* configuration.                                                          *)
(***************************************************************************)
EXTENDS SharedMemoryRing

CONSTANTS p1, p2, consumer, m1, m2

TwoProducers == {p1, p2}
TwoMessages == {m1, m2}
=============================================================================
