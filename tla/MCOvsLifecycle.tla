-------------------------- MODULE MCOvsLifecycle --------------------------
(***************************************************************************)
(* Instances of OvsLifecycle for TLC: the topologies the configurations    *)
(* choose from.                                                            *)
(***************************************************************************)
EXTENDS OvsLifecycle

\* One container and one guest on the same switch.
ContainerAndTap == <<"container_veth", "qemu_tap">>
\* A router namespace and a container on the same switch.
RouterAndContainer == <<"namespace_veth", "container_veth">>
OneTap == <<"qemu_tap">>
OneContainer == <<"container_veth">>

AllOnFirst == [e \in Endpoints |-> 1]
=============================================================================
