------------------------ MODULE PortOwnershipProofs ------------------------
(***************************************************************************)
(* The container manager implements PortPool, for every set of requests    *)
(* and ids, every range of ports, every choice of faults and any number of *)
(* restarts: each of its steps is a move of the pool or leaves the owners  *)
(* alone.                                                                  *)
(***************************************************************************)
EXTENDS PortOwnership, ContainerManagerProofs

-----------------------------------------------------------------------------
(* The refinement mapping *)

Holders == Request \cup Id

\* Who OwnerOf names: the one that holds the port, and nobody if it is free.
OwnerMeaning ==
  \A port \in Port :
    /\ OwnerOf(port) \in Holders \cup {Free, Lost}
    /\ \A r \in Request : OwnerOf(port) = r <=> HoldsFor(r, port)
    /\ \A id \in Id : OwnerOf(port) = id <=> HoldsAsEntry(id, port)
    /\ OwnerOf(port) = Free <=> port \notin usedPorts

LEMMA OwnersAreMeant == PortsInv => OwnerMeaning
<1> SUFFICES ASSUME PortsInv, NEW port \in Port
             PROVE  /\ OwnerOf(port) \in Holders \cup {Free, Lost}
                    /\ \A r \in Request : OwnerOf(port) = r <=> HoldsFor(r, port)
                    /\ \A id \in Id : OwnerOf(port) = id <=> HoldsAsEntry(id, port)
                    /\ OwnerOf(port) = Free <=> port \notin usedPorts
  BY DEF OwnerMeaning
<1>1. Free # Lost
  BY DEF Free, Lost
<1>2. \A r, s \in Request : HoldsFor(r, port) /\ HoldsFor(s, port) => r = s
  BY DEF PortsInv, ExclusivePorts, HoldsFor
<1>3. \A r \in Request, id \in Id : ~(HoldsFor(r, port) /\ HoldsAsEntry(id, port))
  BY DEF PortsInv, ExclusivePorts, HoldsFor, HoldsAsEntry
<1>4. \A a, b \in Id : HoldsAsEntry(a, port) /\ HoldsAsEntry(b, port) => a = b
  BY DEF PortsInv, ExclusivePorts, HoldsAsEntry
<1>5. /\ \A r \in Request : HoldsFor(r, port) => port \in usedPorts
      /\ \A id \in Id : HoldsAsEntry(id, port) => port \in usedPorts
  BY DEF PortsInv, HeldPortsReserved, HoldsFor, HoldsAsEntry
<1>6. CASE \E r \in Request : HoldsFor(r, port)
  <2>1. PICK r \in Request : HoldsFor(r, port)
    BY <1>6
  <2>2. OwnerOf(port) \in Request /\ HoldsFor(OwnerOf(port), port)
    BY <1>6 DEF OwnerOf
  <2>3. OwnerOf(port) = r
    BY <1>2, <2>1, <2>2
  <2> QED BY <1>2, <1>3, <1>5, <2>1, <2>3, HolderAssumption DEF Holders
<1>7. CASE /\ ~\E r \in Request : HoldsFor(r, port)
           /\ \E id \in Id : HoldsAsEntry(id, port)
  <2>1. PICK id \in Id : HoldsAsEntry(id, port)
    BY <1>7
  <2>2. OwnerOf(port) \in Id /\ HoldsAsEntry(OwnerOf(port), port)
    BY <1>7 DEF OwnerOf
  <2>3. OwnerOf(port) = id
    BY <1>4, <2>1, <2>2
  <2> QED BY <1>4, <1>5, <1>7, <2>1, <2>3, HolderAssumption DEF Holders
<1>8. CASE /\ ~\E r \in Request : HoldsFor(r, port)
           /\ ~\E id \in Id : HoldsAsEntry(id, port)
  <2>1. OwnerOf(port) = IF port \in usedPorts THEN Lost ELSE Free
    BY <1>8 DEF OwnerOf
  <2> QED BY <1>1, <1>8, <2>1, HolderAssumption DEF Holders
<1> QED BY <1>6, <1>7, <1>8

\* A port that the same ones hold before and after a step keeps its owner.
LEMMA SameOwner ==
  ASSUME OwnerMeaning, OwnerMeaning', NEW port \in Port,
         \A r \in Request : HoldsFor(r, port)' <=> HoldsFor(r, port),
         \A id \in Id : HoldsAsEntry(id, port)' <=> HoldsAsEntry(id, port),
         port \in usedPorts' <=> port \in usedPorts
  PROVE  OwnerOf(port)' = OwnerOf(port)
BY DEF OwnerMeaning, Holders

\* A step that changes no owner is a stutter of the pool.
LEMMA StutterStep ==
  ASSUME \A port \in Port : OwnerOf(port)' = OwnerOf(port), UNCHANGED restarts
  PROVE  UNCHANGED Pool!vars
BY DEF Pool!vars

\* A step that gives the lowest free port to r is a move of the pool.
LEMMA TakenStep ==
  ASSUME OwnerMeaning, UNCHANGED restarts,
         NEW r \in Request, NEW port \in FreePorts, Allocate(port), OwnerOf(port)' = r,
         \A p \in Port \ {port} : OwnerOf(p)' = OwnerOf(p)
  PROVE  Pool!Next
<1> DEFINE before == [p \in Port |-> OwnerOf(p)]
           after == [p \in Port |-> OwnerOf(p)']
<1>1. port \in Port /\ before[port] = Free
  BY DEF OwnerMeaning, FreePorts
<1>2. \A other \in Port : before[other] = Free => port <= other
  BY DEF OwnerMeaning, FreePorts, Allocate
<1>3. after[port] = r /\ r # Free
  BY <1>1, HolderAssumption
<1>4. after = [before EXCEPT ![port] = after[port]]
  <2>1. \A p \in Port : after[p] = IF p = port THEN after[port] ELSE before[p]
    OBVIOUS
  <2> QED BY <2>1
<1>5. Pool!Taken(before, after) /\ before # after
  BY <1>1, <1>2, <1>3, <1>4 DEF Pool!Taken
<1> QED BY <1>5 DEF Pool!Next, Pool!Move

\* A step that takes all from one holder is a move of the pool, or a stutter if
\* the holder has nothing.
LEMMA PassedStep ==
  ASSUME UNCHANGED restarts, NEW from \in Holders, NEW to, from # to,
         to \in Holders => \A p \in Port : OwnerOf(p) # to,
         \A p \in Port : OwnerOf(p)' = IF OwnerOf(p) = from THEN to ELSE OwnerOf(p)
  PROVE  [Pool!Next]_(Pool!vars)
<1> DEFINE before == [p \in Port |-> OwnerOf(p)]
           after == [p \in Port |-> OwnerOf(p)']
<1>1. CASE \A p \in Port : OwnerOf(p) # from
  BY <1>1, StutterStep
<1>2. CASE \E p \in Port : OwnerOf(p) = from
  <2>1. PICK port \in Port : before[port] = from
    BY <1>2
  <2>2. after[port] = to /\ after = [p \in Port |-> IF before[p] = from THEN to ELSE before[p]]
    BY <2>1
  <2>3. to \in Holders => Pool!Held(before, to) = {}
    BY DEF Pool!Held
  <2>4. Pool!Passed(before, after) /\ before # after
    BY <2>1, <2>2, <2>3 DEF Pool!Passed, Holders
  <2> QED BY <2>4 DEF Pool!Next, Pool!Move
<1> QED BY <1>1, <1>2

-----------------------------------------------------------------------------
(* The steps of the manager *)

\* What the refinement rests on: owners that never meet, all of whose ports are
\* marked as used, and a create without an ADB port that holds one port only.
PoolInv == IInv /\ NoAdbYet

LEMMA PoolInvNext ==
  ASSUME "repeat_delete" \notin Hazards
  PROVE  PoolInv /\ [Next]_vars => PoolInv'
<1> SUFFICES ASSUME PoolInv, [Next]_vars PROVE NoAdbYet'
  BY IInvNext DEF PoolInv
<1> USE DEF PoolInv, IInv
<1>1. CASE \E r \in Request : Begin(r)
  BY <1>1, BeginLocal DEF NoAdbYet, Creating, CreatePcs
<1>2. CASE \E r \in Request : Step(r)
  BY <1>2, PcFlow, StepLocal DEF NoAdbYet
<1>3. CASE Restart
  BY <1>3 DEF Restart, Idle, NoAdbYet
<1>4. CASE UNCHANGED request
  BY <1>4 DEF NoAdbYet
<1> QED BY <1>1, <1>2, <1>3, <1>4 DEF Next, SelfExit, LateCall, vars

\* Steps that leave the pool and every owner alone.
LEMMA OwnersUnchanged ==
  ASSUME OwnerMeaning, OwnerMeaning', UNCHANGED <<usedPorts, restarts>>,
         \A s \in Request :
           /\ Creating(s)' <=> Creating(s)
           /\ Creating(s) => PortsOf(request'[s]) = PortsOf(request[s]),
         \A id \in Id :
           /\ Owns(id)' <=> Owns(id)
           /\ Owns(id) => PortsOf(containers'[id]) = PortsOf(containers[id])
  PROVE  UNCHANGED Pool!vars
<1>1. ASSUME NEW port \in Port
      PROVE  OwnerOf(port)' = OwnerOf(port)
  <2>1. \A r \in Request : HoldsFor(r, port)' <=> HoldsFor(r, port)
    BY DEF HoldsFor
  <2>2. \A id \in Id : HoldsAsEntry(id, port)' <=> HoldsAsEntry(id, port)
    BY DEF HoldsAsEntry
  <2> QED BY <2>1, <2>2, SameOwner
<1> QED BY <1>1, StutterStep

\* A port goes to the create of r, be it as its gRPC or as its ADB port.
LEMMA CreateTakes ==
  ASSUME OwnerMeaning, OwnerMeaning', UNCHANGED <<containers, released, restarts>>,
         NEW r \in Request, NEW port \in FreePorts, Allocate(port),
         Creating(r)', \A s \in Request \ {r} : request'[s] = request[s],
         PortsOf(request'[r]) =
           (IF Creating(r) THEN PortsOf(request[r]) ELSE {}) \cup {port}
  PROVE  Pool!Next
<1>1. port \in Port /\ port \notin usedPorts /\ usedPorts' = usedPorts \cup {port}
  BY DEF FreePorts, Allocate
<1>2. OwnerOf(port)' = r
  BY <1>1 DEF OwnerMeaning, HoldsFor
<1>3. ASSUME NEW p \in Port \ {port}
      PROVE  OwnerOf(p)' = OwnerOf(p)
  <2>1. \A s \in Request : HoldsFor(s, p)' <=> HoldsFor(s, p)
    BY DEF HoldsFor, Creating
  <2>2. \A id \in Id : HoldsAsEntry(id, p)' <=> HoldsAsEntry(id, p)
    BY DEF HoldsAsEntry, Owns, InMap
  <2> QED BY <1>1, <2>1, <2>2, SameOwner
<1> QED BY <1>2, <1>3, TakenStep

\* The create of r ends, and its ports go to nobody: back to the pool, or, if
\* the pool is not told, out of use.
LEMMA CreateGivesUp ==
  ASSUME OwnerMeaning, OwnerMeaning', UNCHANGED <<containers, released, restarts>>,
         NEW r \in Request, Creating(r), ~Creating(r)',
         \A s \in Request \ {r} : request'[s] = request[s],
         usedPorts' = usedPorts \/ usedPorts' = usedPorts \ PortsOf(request[r])
  PROVE  [Pool!Next]_(Pool!vars)
<1> DEFINE to == IF usedPorts' = usedPorts THEN Lost ELSE Free
<1>1. \A p \in Port : \A s \in Request \ {r} : HoldsFor(s, p)' <=> HoldsFor(s, p)
  BY DEF HoldsFor, Creating
<1>2. \A p \in Port : \A id \in Id : HoldsAsEntry(id, p)' <=> HoldsAsEntry(id, p)
  BY DEF HoldsAsEntry, Owns, InMap
<1>3. ASSUME NEW p \in Port
      PROVE  OwnerOf(p)' = IF OwnerOf(p) = r THEN to ELSE OwnerOf(p)
  <2>1. CASE OwnerOf(p) = r
    <3>1. HoldsFor(r, p) /\ ~HoldsFor(r, p)' /\ p \in usedPorts
      BY <2>1, HolderAssumption DEF OwnerMeaning, HoldsFor
    <3>2. OwnerOf(p)' \notin Holders
      BY <1>1, <1>2, <2>1, <3>1, HolderAssumption DEF OwnerMeaning, Holders
    <3>3. OwnerOf(p)' = IF p \in usedPorts' THEN Lost ELSE Free
      BY <3>2 DEF OwnerMeaning, Free, Lost
    <3>4. p \in usedPorts' <=> usedPorts' = usedPorts
      BY <3>1 DEF HoldsFor
    <3> QED BY <2>1, <3>3, <3>4
  <2>2. CASE OwnerOf(p) # r
    <3>1. ~HoldsFor(r, p) /\ ~HoldsFor(r, p)' /\ p \notin PortsOf(request[r])
      BY <2>2 DEF OwnerMeaning, HoldsFor
    <3> QED BY <1>1, <1>2, <2>2, <3>1, SameOwner
  <2> QED BY <2>1, <2>2
<1>4. r \in Holders /\ to \notin Holders /\ r # to
  BY HolderAssumption DEF Holders
<1> QED BY <1>3, <1>4, PassedStep

\* The entry of a container gives up its ports: to the pool, or out of use.
LEMMA EntryGivesUp ==
  ASSUME OwnerMeaning, OwnerMeaning', UNCHANGED restarts,
         NEW id \in Id, ~Owns(id)',
         \A s \in Request :
           /\ Creating(s)' <=> Creating(s)
           /\ Creating(s) => PortsOf(request'[s]) = PortsOf(request[s]),
         \A i \in Id \ {id} :
           /\ Owns(i)' <=> Owns(i)
           /\ Owns(i) => PortsOf(containers'[i]) = PortsOf(containers[i]),
         \/ usedPorts' = usedPorts
         \/ Owns(id) /\ usedPorts' = usedPorts \ PortsOf(containers[id])
  PROVE  [Pool!Next]_(Pool!vars)
<1> DEFINE to == IF usedPorts' = usedPorts THEN Lost ELSE Free
<1>1. \A p \in Port : \A s \in Request : HoldsFor(s, p)' <=> HoldsFor(s, p)
  BY DEF HoldsFor
<1>2. \A p \in Port : \A i \in Id \ {id} : HoldsAsEntry(i, p)' <=> HoldsAsEntry(i, p)
  BY DEF HoldsAsEntry
<1>3. ASSUME NEW p \in Port
      PROVE  OwnerOf(p)' = IF OwnerOf(p) = id THEN to ELSE OwnerOf(p)
  <2>1. CASE OwnerOf(p) = id
    <3>1. HoldsAsEntry(id, p) /\ ~HoldsAsEntry(id, p)' /\ p \in usedPorts
      BY <2>1, HolderAssumption DEF OwnerMeaning, HoldsAsEntry
    <3>2. OwnerOf(p)' \notin Holders
      BY <1>1, <1>2, <2>1, <3>1, HolderAssumption DEF OwnerMeaning, Holders
    <3>3. OwnerOf(p)' = IF p \in usedPorts' THEN Lost ELSE Free
      BY <3>2 DEF OwnerMeaning, Free, Lost
    <3>4. p \in usedPorts' <=> usedPorts' = usedPorts
      BY <3>1 DEF HoldsAsEntry
    <3> QED BY <2>1, <3>3, <3>4
  <2>2. CASE OwnerOf(p) # id
    <3>1. ~HoldsAsEntry(id, p) /\ ~HoldsAsEntry(id, p)'
      BY <2>2 DEF OwnerMeaning, HoldsAsEntry
    <3>2. p \in usedPorts' <=> p \in usedPorts
      BY <3>1 DEF HoldsAsEntry
    <3> QED BY <1>1, <1>2, <2>2, <3>1, <3>2, SameOwner
  <2> QED BY <2>1, <2>2
<1>4. id \in Holders /\ to \notin Holders /\ id # to
  BY HolderAssumption DEF Holders
<1> QED BY <1>3, <1>4, PassedStep

LEMMA PoolStep ==
  ASSUME PoolInv, OwnerMeaning, OwnerMeaning', NEW r \in Request, Step(r)
  PROVE  [Pool!Next]_(Pool!vars)
<1> USE DEF PoolInv, IInv
<1>0. PICK id \in Id : id = request[r].id
  BY StepLocal
<1>1. UNCHANGED restarts /\ \A s \in Request \ {r} : request'[s] = request[s]
  BY StepLocal
<1>2. CASE AllocateADB(r)
  <2>1. Creating(r) /\ UNCHANGED <<containers, released>> /\ request[r].adb = NoPort
    BY <1>2 DEF AllocateADB, Creating, CreatePcs, NoAdbYet
  <2>2. PortsOf(request[r]) = {request[r].grpc} \ {NoPort}
    BY <2>1 DEF PortsOf
  <2>3. ASSUME NEW port \in FreePorts, Allocate(port), request'[r].pc = "docker_create",
               request'[r].grpc = request[r].grpc, request'[r].adb = port
        PROVE  Pool!Next
    <3>1. port # NoPort
      BY PortAssumption DEF FreePorts, Port, NoPort
    <3>2. Creating(r)' /\ PortsOf(request'[r]) = PortsOf(request[r]) \cup {port}
      BY <2>2, <2>3, <3>1 DEF Creating, CreatePcs, PortsOf
    <3> QED BY <1>1, <2>1, <2>3, <3>2, CreateTakes
  <2>4. ASSUME Release({request[r].grpc}), request'[r].pc = "idle"
        PROVE  [Pool!Next]_(Pool!vars)
    <3>1. ~Creating(r)'
      BY <2>4 DEF Creating, CreatePcs
    <3>2. NoPort \notin usedPorts
      BY PortAssumption DEF Typed, TypeOK, Port, NoPort
    <3>3. usedPorts' = usedPorts \ PortsOf(request[r])
      BY <2>2, <2>4, <3>2 DEF Release
    <3> QED BY <1>1, <2>1, <3>1, <3>3, CreateGivesUp
  <2> QED BY <1>2, <2>3, <2>4, AllocateADBFrame
<1>3. CASE ReleasePorts(r) \/ (CreateInDocker(r) /\ ~Active(r)')
  <2>1. /\ Creating(r) /\ UNCHANGED <<containers, released>>
        /\ usedPorts' = usedPorts \/ usedPorts' = usedPorts \ PortsOf(request[r])
    BY <1>3 DEF ReleasePorts, Release, CreateInDocker, Creating, CreatePcs
  <2>2. ~Creating(r)'
    BY <1>3, ReturnFrame DEF ReleasePorts, Active, Creating, CreatePcs
  <2> QED BY <1>1, <2>1, <2>2, CreateGivesUp
<1>4. CASE StoreInMap(r)
  <2>1. /\ Creating(r) /\ ~Creating(r)'
        /\ UNCHANGED <<usedPorts, released>>
        /\ containers' = [containers EXCEPT ![id] =
             [status |-> "running", grpc |-> request[r].grpc, adb |-> request[r].adb]]
    BY <1>0, <1>4, ReturnFrame DEF StoreInMap, Creating, CreatePcs
  <2>2. ~InMap(id) /\ id \notin released
    BY <1>0, <2>1 DEF ApartInv, CreatesApart
  <2>3. /\ \A i \in Id \ {id} : containers'[i] = containers[i]
        /\ containers'[id].status = "running" /\ PortsOf(containers'[id]) = PortsOf(request[r])
    BY <2>1 DEF PortsOf, Typed, TypeOK
  <2>4. ~Owns(id) /\ Owns(id)' /\ \A i \in Id \ {id} : Owns(i)' <=> Owns(i)
    BY <2>1, <2>2, <2>3 DEF Owns, InMap
  <2>5. \A p \in Port : OwnerOf(p) # id
    BY <2>4 DEF OwnerMeaning, HoldsAsEntry
  <2>6. ASSUME NEW p \in Port
        PROVE  OwnerOf(p)' = IF OwnerOf(p) = r THEN id ELSE OwnerOf(p)
    <3>1. CASE OwnerOf(p) = r
      <4>1. HoldsFor(r, p)
        BY <3>1 DEF OwnerMeaning
      <4>2. HoldsAsEntry(id, p)'
        BY <2>3, <2>4, <4>1 DEF HoldsAsEntry, HoldsFor
      <4> QED BY <3>1, <4>2 DEF OwnerMeaning
    <3>2. CASE OwnerOf(p) # r
      <4>1. ~HoldsFor(r, p) /\ ~HoldsFor(r, p)' /\ p \notin PortsOf(request[r])
        BY <2>1, <3>2 DEF OwnerMeaning, HoldsFor
      <4>2. \A s \in Request : HoldsFor(s, p)' <=> HoldsFor(s, p)
        BY <1>1, <4>1 DEF HoldsFor, Creating
      <4>3. \A i \in Id : HoldsAsEntry(i, p)' <=> HoldsAsEntry(i, p)
        BY <2>3, <2>4, <4>1 DEF HoldsAsEntry
      <4> QED BY <2>1, <3>2, <4>2, <4>3, SameOwner
    <3> QED BY <3>1, <3>2
  <2>7. r \in Holders /\ id \in Holders /\ r # id
    BY HolderAssumption DEF Holders
  <2> QED BY <1>1, <2>5, <2>6, <2>7, PassedStep
<1>5. CASE ReleaseEntry(r) \/ Forget(r)
  <2>1. \A s \in Request :
          /\ Creating(s)' <=> Creating(s)
          /\ Creating(s) => PortsOf(request'[s]) = PortsOf(request[s])
    <3>1. ~Creating(r) /\ ~Creating(r)'
      <4>1. request[r].pc \in {"release_entry", "forget"}
        BY <1>5 DEF ReleaseEntry, Forget
      <4>2. PICK pc \in {"docker_remove", "db_delete"} : Goto(r, pc)
        BY <1>5 DEF ReleaseEntry, Forget
      <4>3. request'[r].pc = pc
        BY <4>2, GotoFrame
      <4> QED BY <4>1, <4>3 DEF Creating, CreatePcs
    <3> QED BY <1>1, <3>1 DEF Creating
  <2>2. /\ \A i \in Id \ {id} :
             containers'[i] = containers[i] /\ (i \in released' <=> i \in released)
        /\ InMap(id) => id \in released' \/ ~InMap(id)'
    BY <1>0, <1>5
    DEF ReleaseEntry, Forget, InMap, NoEntry, Typed, TypeOK
  <2>3. \A i \in Id \ {id} :
          /\ Owns(i)' <=> Owns(i)
          /\ Owns(i) => PortsOf(containers'[i]) = PortsOf(containers[i])
    BY <2>2 DEF Owns, InMap
  <2>4. ~InMap(id) => ~InMap(id)'
    BY <1>0, <1>5 DEF ReleaseEntry, Forget, InMap, NoEntry, Typed, TypeOK
  <2>5. ~Owns(id)'
    BY <2>2, <2>4 DEF Owns
  <2>6. \/ usedPorts' = usedPorts
        \/ Owns(id) /\ usedPorts' = usedPorts \ PortsOf(containers[id])
    <3>1. CASE Forget(r)
      BY <3>1 DEF Forget
    <3>2. CASE ReleaseEntry(r)
      <4>1. id \notin released /\ usedPorts' = usedPorts \ PortsOf(containers[id])
        BY <1>0, <3>2 DEF ReleaseEntry, Release, ApartInv, DeletesApart, EarlyDelete
      <4>2. ~InMap(id) => PortsOf(containers[id]) = {}
        BY DEF DaemonInv, AbsentHasNoPorts
      <4> QED BY <4>1, <4>2 DEF Owns
    <3> QED BY <1>5, <3>1, <3>2
  <2> QED BY <1>1, <2>1, <2>3, <2>5, <2>6, EntryGivesUp
<1>6. CASE \/ CreateInDocker(r) /\ Active(r)'
           \/ StartInDocker(r) \/ Cleanup(r) \/ InsertInDb(r)
           \/ ChangeSteps(r) \/ MarkRemoving(r) \/ RemoveInDocker(r) \/ DeleteFromDb(r)
  BY <1>1, <1>6, QuietOwners, OwnersUnchanged
<1> QED
  BY <1>2, <1>3, <1>4, <1>5, <1>6 DEF Step, CreateSteps, DeleteSteps

LEMMA PoolBegin ==
  ASSUME PoolInv, OwnerMeaning, OwnerMeaning', NEW r \in Request, Begin(r)
  PROVE  [Pool!Next]_(Pool!vars)
<1> USE DEF PoolInv, IInv
<1>1. /\ ~Active(r) /\ UNCHANGED <<containers, released, restarts>>
      /\ \A s \in Request \ {r} : request'[s] = request[s]
  BY BeginLocal
<1>2. ~Creating(r)
  BY <1>1 DEF Active, Creating, CreatePcs
<1>3. PICK id \in Id :
        \/ \E enableADB \in BOOLEAN : AllocateGRPC(r, id, enableADB)
        \/ \E op \in {"start", "stop"} : BeginChange(r, op, id)
        \/ \E force \in BOOLEAN : BeginDelete(r, id, force)
  BY DEF Begin
<1>4. CASE \E enableADB \in BOOLEAN : AllocateGRPC(r, id, enableADB)
  <2>1. PICK port \in FreePorts :
          /\ Allocate(port)
          /\ request'[r].pc \in {"allocate_adb", "docker_create"}
          /\ request'[r].grpc = port /\ request'[r].adb = NoPort
    BY <1>4, BeginFrame
  <2>2. port # NoPort
    BY PortAssumption DEF FreePorts, Port, NoPort
  <2>3. Creating(r)' /\ PortsOf(request'[r]) = {port}
    BY <2>1, <2>2 DEF Creating, CreatePcs, PortsOf
  <2> QED BY <1>1, <1>2, <2>1, <2>3, CreateTakes
<1>5. CASE \/ \E op \in {"start", "stop"} : BeginChange(r, op, id)
           \/ \E force \in BOOLEAN : BeginDelete(r, id, force)
  <2>1. request'[r].pc \in {"mark", "mark_removing"} /\ UNCHANGED usedPorts
    BY <1>5, BeginFrame DEF BeginChange, BeginDelete, Begins
  <2>2. ~Creating(r)'
    BY <2>1 DEF Creating, CreatePcs
  <2>3. UNCHANGED Pool!vars
    BY <1>1, <1>2, <2>1, <2>2, OwnersUnchanged DEF Creating, Owns, InMap
  <2> QED BY <2>3
<1> QED BY <1>3, <1>4, <1>5

LEMMA PoolRestart ==
  ASSUME OwnerMeaning', Typed, Restart
  PROVE  Pool!Next
<1>1. \A port \in usedPorts' : Owned(port)'
  BY LeakRestart DEF LeakInv, NoPortLeak, Owned
<1>2. ASSUME NEW port \in Port
      PROVE  OwnerOf(port)' \in Holders \cup {Free}
  <2>1. CASE port \in usedPorts'
    <3>1. \/ \E r \in Request : HoldsFor(r, port)'
          \/ \E id \in Id : HoldsAsEntry(id, port)'
      BY <1>1, <2>1 DEF Owned, HoldsFor, HoldsAsEntry
    <3> QED BY <3>1 DEF OwnerMeaning, Holders
  <2>2. CASE port \notin usedPorts'
    BY <2>2 DEF OwnerMeaning
  <2> QED BY <2>1, <2>2
<1>3. restarts' = restarts + 1
  BY DEF Restart
<1> QED BY <1>2, <1>3 DEF Pool!Next, Pool!Rebuilt, Holders

LEMMA PoolNext ==
  PoolInv /\ OwnerMeaning /\ OwnerMeaning' /\ [Next]_vars => [Pool!Next]_(Pool!vars)
<1> SUFFICES ASSUME PoolInv, OwnerMeaning, OwnerMeaning', [Next]_vars
             PROVE  [Pool!Next]_(Pool!vars)
  OBVIOUS
<1>1. CASE \E r \in Request : Begin(r)
  BY <1>1, PoolBegin
<1>2. CASE \E r \in Request : Step(r)
  BY <1>2, PoolStep
<1>3. CASE Restart
  BY <1>3, PoolRestart DEF PoolInv, IInv
<1>4. CASE UNCHANGED <<usedPorts, containers, request, released, restarts>>
  BY <1>4, OwnersUnchanged DEF Creating, Owns, InMap
<1> QED BY <1>1, <1>2, <1>3, <1>4 DEF Next, SelfExit, LateCall, vars

LEMMA PoolInit == Init => Pool!Init
<1> SUFFICES ASSUME Init PROVE Pool!Init
  OBVIOUS
<1>1. PortsInv /\ usedPorts = {} /\ restarts = 0
  BY IInvInit DEF IInv, Init
<1>2. \A port \in Port : OwnerOf(port) = Free
  BY <1>1, OwnersAreMeant DEF OwnerMeaning
<1> QED BY <1>1, <1>2 DEF Pool!Init

\* The container manager implements the port pool, with any number of requests,
\* ports and restarts and whatever calls fail, as long as clients do not delete
\* a container twice: every port goes from holder to holder as PortPool says.
THEOREM PortPoolIsImplemented ==
  ASSUME "repeat_delete" \notin Hazards
  PROVE  Spec => ImplementsPortPool
<1>1. Init => PoolInv
  BY IInvInit DEF PoolInv, Init, Idle, NoAdbYet
<1>2. PoolInv /\ [Next]_vars => PoolInv'
  BY PoolInvNext
<1>3. PoolInv => OwnerMeaning
  BY OwnersAreMeant DEF PoolInv, IInv
<1> QED BY <1>1, <1>2, <1>3, PoolInit, PoolNext, PTL DEF Spec, ImplementsPortPool, Pool!Spec
=============================================================================
