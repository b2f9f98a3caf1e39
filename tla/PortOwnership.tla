---------------------------- MODULE PortOwnership ----------------------------
(***************************************************************************)
(* The container manager implements PortPool: requests hold the ports they *)
(* have allocated, the entries of the map those of their containers, and a *)
(* used port without either is lost.                                       *)
(***************************************************************************)
EXTENDS ContainerManager

Free == "free"
Lost == "lost"

ASSUME HolderAssumption ==
  Request \cap Id = {} /\ {Free, Lost} \cap (Request \cup Id) = {}

HoldsFor(r, port) == Creating(r) /\ port \in PortsOf(request[r])
HoldsAsEntry(id, port) == Owns(id) /\ port \in PortsOf(containers[id])

\* The holder of a port, as far as the state of the manager tells.
OwnerOf(port) ==
  IF \E r \in Request : HoldsFor(r, port) THEN CHOOSE r \in Request : HoldsFor(r, port)
  ELSE IF \E id \in Id : HoldsAsEntry(id, port) THEN CHOOSE id \in Id : HoldsAsEntry(id, port)
  ELSE IF port \in usedPorts THEN Lost ELSE Free

Pool == INSTANCE PortPool WITH
  Holder <- Request \cup Id,
  owner <- [port \in Port |-> OwnerOf(port)],
  epoch <- restarts

\* Whatever requests overlap and calls fail, a port goes from holder to holder
\* as the pool promises (docker.go:51-70): the lowest free one to a create, from
\* a create to the entry of its container and from there back; nothing is
\* given to two of them and nothing is given back by a third.
ImplementsPortPool == Pool!Spec
=============================================================================
