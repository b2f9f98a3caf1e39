------------------------------ MODULE PortPool ------------------------------
(***************************************************************************)
(* What the port allocator of src/internal/container/docker.go promises:   *)
(* every port of the range has at most one holder, a new holder gets the   *)
(* lowest port that is free, and only its holder hands a port on, gives it *)
(* back or loses it.  A port that is lost is nobody's until the pool is    *)
(* built anew.                                                             *)
(***************************************************************************)
EXTENDS Naturals

CONSTANTS
  Port,    \* the range of the pool
  Holder,  \* those who hold ports: requests and containers
  Free,    \* the value of a port that nobody holds
  Lost     \* the value of a port that is used up

VARIABLES
  owner,   \* who holds each port
  epoch    \* how often the pool has been built anew

vars == <<owner, epoch>>

\* The operators below take the owners before and after a step.
Held(before, holder) == {port \in Port : before[port] = holder}

\* A holder gets the lowest free port.
Taken(before, after) ==
  \E port \in {p \in Port : before[p] = Free} :
    /\ \A other \in Port : before[other] = Free => port <= other
    /\ after[port] \in Holder
    /\ after = [before EXCEPT ![port] = after[port]]

\* All that a holder has is given back, is lost, or goes to a holder that has
\* nothing yet.
Passed(before, after) ==
  \E port \in {p \in Port : before[p] \in Holder} :
    LET from == before[port]
        to == after[port]
    IN /\ to \in Holder => Held(before, to) = {}
       /\ after = [p \in Port |-> IF before[p] = from THEN to ELSE before[p]]

Move(before, after) == before # after /\ (Taken(before, after) \/ Passed(before, after))

\* A restart finds out again who holds what.
Rebuilt(after) == \A port \in Port : after[port] \in Holder \cup {Free}

Init == owner = [port \in Port |-> Free] /\ epoch = 0

Next ==
  \/ epoch' = epoch /\ Move(owner, owner')
  \/ epoch' = epoch + 1 /\ Rebuilt(owner')

Spec == Init /\ [][Next]_vars
=============================================================================
