----------------------- MODULE ContainerManagerProofs -----------------------
(***************************************************************************)
(* Theorems about ContainerManager, for every set of requests and ids,     *)
(* every range of ports and every choice of faults and hazards.            *)
(***************************************************************************)
EXTENDS ContainerManager, TLAPS

-----------------------------------------------------------------------------
(* Type correctness *)

\* A request that is under way names a container, and only StopContainer and
\* StartContainer reach the steps the two share.
ActiveIds ==
  \A r \in Request :
    /\ Active(r) => request[r].id \in Id
    /\ request[r].pc \in ChangePcs => request[r].op \in {"start", "stop"}

Typed == TypeOK /\ ActiveIds

LEMMA IdleType == Idle \in RequestState
BY DEF Idle, RequestState, Pcs, PortOrNone, NoPort

LEMMA NoEntryType == NoEntry \in Entry
BY DEF NoEntry, Entry, DbStatus, PortOrNone, NoPort

LEMMA NoContainerType ==
  ASSUME NEW state \in DockerState, NEW grpc \in PortOrNone, NEW adb \in PortOrNone
  PROVE  [NoContainer EXCEPT !.state = state, !.grpc = grpc, !.adb = adb] \in DockerContainer
BY DEF NoContainer, DockerContainer

LEMMA EffectType ==
  ASSUME Typed, NEW call \in DockerCalls, NEW id \in Id,
         NEW grpc \in PortOrNone, NEW adb \in PortOrNone
  PROVE  DockerEffect(call, id, grpc, adb) \in DockerContainer
<1>1. docker[id] \in DockerContainer
  BY DEF Typed, TypeOK
<1>2. CASE call = "create"
  BY <1>2, NoContainerType DEF DockerEffect, DockerState
<1>3. CASE call = "start"
  BY <1>1, <1>3 DEF DockerEffect, DockerContainer, DockerState
<1>4. CASE call = "stop"
  BY <1>1, <1>4 DEF DockerEffect, DockerContainer, DockerState
<1>5. CASE call = "remove"
  BY <1>1, <1>5 DEF DockerEffect, DockerContainer, DockerState
<1> QED BY <1>2, <1>3, <1>4, <1>5 DEF DockerCalls

LEMMA LeftType ==
  ASSUME Typed, NEW r \in Request, request[r].id \in Id, NEW call \in DockerCalls
  PROVE  LeftToDaemon(call, r) \in DockerContainer
<1>1. /\ request[r].grpc \in PortOrNone /\ request[r].adb \in PortOrNone
      /\ request[r].force \in BOOLEAN /\ docker[request[r].id] \in DockerContainer
  BY DEF Typed, TypeOK, RequestState
<1>2. CASE call = "create"
  BY <1>1, <1>2, NoContainerType DEF LeftToDaemon, DockerState
<1>3. CASE call # "create"
  BY <1>1, <1>3 DEF LeftToDaemon, DockerContainer, DockerCalls
<1> QED BY <1>2, <1>3

\* The reply is data only: whatever it is, a call of the daemon keeps the type.
LEMMA DockerType ==
  ASSUME Typed, NEW r \in Request, Active(r),
         NEW call \in DockerCalls, NEW reply, Docker(call, r, reply)
  PROVE  docker' \in [Id -> DockerContainer]
<1> DEFINE id == request[r].id
<1>1. id \in Id /\ request[r].grpc \in PortOrNone /\ request[r].adb \in PortOrNone
  BY DEF Typed, TypeOK, ActiveIds, RequestState
<1>2. docker[id] \in DockerContainer
  BY <1>1 DEF Typed, TypeOK
<1>3. DockerEffect(call, id, request[r].grpc, request[r].adb) \in DockerContainer
  BY <1>1, EffectType
<1>4. LeftToDaemon(call, r) \in DockerContainer
  BY <1>1, LeftType
<1>5. \/ UNCHANGED docker
      \/ docker' = [docker EXCEPT ![id] =
                      DockerEffect(call, id, request[r].grpc, request[r].adb)]
      \/ docker' = [docker EXCEPT ![id] = LeftToDaemon(call, r)]
  BY DEF Docker
<1> QED BY <1>3, <1>4, <1>5 DEF Typed, TypeOK

LEMMA SetStatusType ==
  ASSUME Typed, NEW id \in Id, NEW status \in Status, SetStatus(id, status)
  PROVE  containers' \in [Id -> Entry]
BY DEF Typed, TypeOK, SetStatus, Entry, DbStatus

LEMMA GotoType ==
  ASSUME Typed, NEW r \in Request, Active(r), NEW pc \in Pcs, Goto(r, pc),
         pc \in ChangePcs => request[r].pc \in ChangePcs
  PROVE  request' \in [Request -> RequestState] /\ ActiveIds'
BY DEF Typed, TypeOK, ActiveIds, Active, Goto, RequestState

LEMMA ReturnType ==
  ASSUME Typed, NEW r \in Request, Return(r)
  PROVE  request' \in [Request -> RequestState] /\ ActiveIds'
BY IdleType DEF Typed, TypeOK, ActiveIds, Active, Return, Idle, ChangePcs

LEMMA UpdateType ==
  ASSUME Typed, NEW r \in Request, NEW new \in RequestState,
         new.id \in Id, new.pc \notin ChangePcs,
         request' = [request EXCEPT ![r] = new]
  PROVE  request' \in [Request -> RequestState] /\ ActiveIds'
<1>1. request' \in [Request -> RequestState]
  BY DEF Typed, TypeOK
<1>2. ActiveIds'
  BY DEF Typed, TypeOK, ActiveIds, Active
<1> QED BY <1>1, <1>2

LEMMA TypedInit == Init => Typed
BY IdleType, NoEntryType
DEF Init, Typed, TypeOK, ActiveIds, Active, Idle, ChangePcs, NoContainer, DockerContainer,
    DockerState, DbStatus, PortOrNone, NoPort

LEMMA CreateTyped ==
  ASSUME Typed, NEW r \in Request, CreateSteps(r)
  PROVE  Typed'
<1>1. /\ request[r] \in RequestState
      /\ usedPorts \subseteq Port
  BY DEF Typed, TypeOK
<1>2. CASE AllocateADB(r)
  <2>1. CASE FreePorts = {} /\ Release({request[r].grpc}) /\ Return(r)
    BY <1>1, <1>2, <2>1, ReturnType DEF AllocateADB, Release, Typed, TypeOK
  <2>2. CASE \E port \in FreePorts :
               /\ Allocate(port)
               /\ request' = [request EXCEPT ![r] = [@ EXCEPT !.adb = port, !.pc = "docker_create"]]
    <3>1. PICK port \in FreePorts :
            /\ Allocate(port)
            /\ request' = [request EXCEPT ![r] = [@ EXCEPT !.adb = port, !.pc = "docker_create"]]
      BY <2>2
    <3>2. port \in Port
      BY DEF FreePorts
    <3>3. [request[r] EXCEPT !.adb = port, !.pc = "docker_create"] \in RequestState
      BY <1>1, <3>2 DEF RequestState, Pcs, CreatePcs, PortOrNone
    <3>4. request' \in [Request -> RequestState] /\ ActiveIds'
      <4> DEFINE new == [request[r] EXCEPT !.adb = port, !.pc = "docker_create"]
      <4>1. new.pc \notin ChangePcs /\ new.id \in Id
        BY <1>1, <1>2 DEF AllocateADB, RequestState, Typed, ActiveIds, Active, ChangePcs
      <4>2. request' = [request EXCEPT ![r] = new]
        BY <3>1
      <4> QED BY <3>3, <4>1, <4>2, UpdateType
    <3> QED BY <1>2, <3>1, <3>2, <3>3, <3>4 DEF AllocateADB, Allocate, Typed, TypeOK
  <2> QED BY <1>2, <2>1, <2>2 DEF AllocateADB
<1>3. CASE CreateInDocker(r)
  <2>1. PICK reply : Docker("create", r, reply)
    BY <1>3 DEF CreateInDocker
  <2>2. docker' \in [Id -> DockerContainer]
    BY <1>3, <2>1, DockerType DEF CreateInDocker, Active, DockerCalls
  <2>3. request' \in [Request -> RequestState] /\ ActiveIds'
    BY <1>3, GotoType, ReturnType DEF CreateInDocker, Active, Pcs, CreatePcs, ChangePcs
  <2> QED BY <1>3, <2>2, <2>3 DEF CreateInDocker, Typed, TypeOK
<1>4. CASE StartInDocker(r)
  <2>1. PICK reply : Docker("start", r, reply)
    BY <1>4 DEF StartInDocker
  <2>2. docker' \in [Id -> DockerContainer]
    BY <1>4, <2>1, DockerType DEF StartInDocker, Active, DockerCalls
  <2>3. request' \in [Request -> RequestState] /\ ActiveIds'
    <3>1. CASE Goto(r, "insert")
      BY <1>4, <3>1, GotoType DEF StartInDocker, Active, Pcs, CreatePcs, ChangePcs
    <3>2. CASE request' =
            [request EXCEPT ![r] = [@ EXCEPT !.pc = "cleanup", !.force = TRUE]]
      <4>1. [request[r] EXCEPT !.pc = "cleanup", !.force = TRUE] \in RequestState
        BY <1>1 DEF RequestState, Pcs, CreatePcs
      <4> DEFINE new == [request[r] EXCEPT !.pc = "cleanup", !.force = TRUE]
      <4>2. new.pc \notin ChangePcs /\ new.id \in Id
        BY <1>1, <1>4 DEF StartInDocker, RequestState, Typed, ActiveIds, Active, ChangePcs
      <4>3. request' = [request EXCEPT ![r] = new]
        BY <3>2
      <4> QED BY <4>1, <4>2, <4>3, UpdateType
    <3> QED BY <1>4, <3>1, <3>2 DEF StartInDocker
  <2> QED BY <1>4, <2>2, <2>3 DEF StartInDocker, Typed, TypeOK
<1>5. CASE Cleanup(r)
  <2>1. PICK reply : Docker("remove", r, reply)
    BY <1>5 DEF Cleanup
  <2>2. docker' \in [Id -> DockerContainer]
    BY <1>5, <2>1, DockerType DEF Cleanup, Active, DockerCalls
  <2>3. request' \in [Request -> RequestState] /\ ActiveIds'
    BY <1>5, GotoType DEF Cleanup, Active, Pcs, CreatePcs, ChangePcs
  <2> QED BY <1>5, <2>2, <2>3 DEF Cleanup, Typed, TypeOK
<1>6. CASE ReleasePorts(r)
  BY <1>6, ReturnType DEF ReleasePorts, Release, Typed, TypeOK
<1>7. CASE InsertInDb(r)
  <2>1. request' \in [Request -> RequestState] /\ ActiveIds'
    BY <1>7, GotoType DEF InsertInDb, Active, Pcs, CreatePcs, ChangePcs
  <2>2. db' \in [Id -> DbStatus]
    BY <1>7 DEF InsertInDb, Write, Typed, TypeOK, DbStatus, Status
  <2> QED BY <1>7, <2>1, <2>2 DEF InsertInDb, Typed, TypeOK
<1>8. CASE StoreInMap(r)
  <2>1. containers' \in [Id -> Entry]
    BY <1>1, <1>8 DEF StoreInMap, Typed, TypeOK, Entry, DbStatus, Status, RequestState
  <2> QED BY <1>8, <2>1, ReturnType DEF StoreInMap, Typed, TypeOK
<1> QED
  BY <1>2, <1>3, <1>4, <1>5, <1>6, <1>7, <1>8 DEF CreateSteps

LEMMA ChangeTyped ==
  ASSUME Typed, NEW r \in Request, ChangeSteps(r)
  PROVE  Typed'
<1>1. Active(r) => request[r].id \in Id
  BY DEF Typed, ActiveIds
<1>2. \A op : Transient(op) \in Status /\ Final(op) \in Status
  BY DEF Transient, Final, Status
<1>3. CASE Mark(r)
  <2>1. request' \in [Request -> RequestState] /\ ActiveIds'
    BY <1>3, GotoType DEF Mark, Active, Pcs, ChangePcs
  <2>2. containers' \in [Id -> Entry]
    BY <1>1, <1>2, <1>3, SetStatusType DEF Mark, Active
  <2> QED BY <1>3, <2>1, <2>2 DEF Mark, Typed, TypeOK
<1>4. CASE ChangeInDocker(r)
  <2>1. request' \in [Request -> RequestState] /\ ActiveIds'
    BY <1>4, GotoType, ReturnType DEF ChangeInDocker, Active, Pcs, ChangePcs
  <2>2. PICK reply : Docker(request[r].op, r, reply)
    BY <1>4 DEF ChangeInDocker
  <2>3. docker' \in [Id -> DockerContainer]
    BY <1>4, <2>2, DockerType
    DEF ChangeInDocker, Active, ChangePcs, DockerCalls, Typed, ActiveIds
  <2> QED BY <1>4, <2>1, <2>3 DEF ChangeInDocker, Typed, TypeOK
<1>5. CASE Settle(r)
  <2>1. request' \in [Request -> RequestState] /\ ActiveIds'
    BY <1>5, GotoType DEF Settle, Active, Pcs, ChangePcs
  <2>2. containers' \in [Id -> Entry]
    BY <1>1, <1>2, <1>5, SetStatusType DEF Settle, Active
  <2> QED BY <1>5, <2>1, <2>2 DEF Settle, Typed, TypeOK
<1>6. CASE Record(r)
  <2>1. db' \in [Id -> DbStatus]
    BY <1>1, <1>2, <1>6 DEF Record, Write, Typed, TypeOK, DbStatus, Active
  <2> QED BY <1>6, <2>1, ReturnType DEF Record, Typed, TypeOK
<1> QED BY <1>3, <1>4, <1>5, <1>6 DEF ChangeSteps

LEMMA DeleteTyped ==
  ASSUME Typed, NEW r \in Request, DeleteSteps(r)
  PROVE  Typed'
<1>1. Active(r) => request[r].id \in Id
  BY DEF Typed, ActiveIds
<1>2. CASE MarkRemoving(r)
  <2>1. request' \in [Request -> RequestState] /\ ActiveIds'
    BY <1>2, GotoType DEF MarkRemoving, Active, Pcs, DeletePcs, ChangePcs
  <2>2. containers' \in [Id -> Entry]
    BY <1>1, <1>2, SetStatusType DEF MarkRemoving, Active, Status
  <2> QED BY <1>2, <2>1, <2>2 DEF MarkRemoving, Typed, TypeOK
<1>3. CASE ReleaseEntry(r)
  <2>1. request' \in [Request -> RequestState] /\ ActiveIds'
    BY <1>3, GotoType DEF ReleaseEntry, Active, Pcs, DeletePcs, ChangePcs
  <2>2. usedPorts' \subseteq Port /\ released' \subseteq Id
    BY <1>1, <1>3 DEF ReleaseEntry, Release, Active, Typed, TypeOK
  <2> QED BY <1>3, <2>1, <2>2 DEF ReleaseEntry, Typed, TypeOK
<1>4. CASE RemoveInDocker(r)
  <2>1. PICK reply : Docker("remove", r, reply)
    BY <1>4 DEF RemoveInDocker
  <2>2. docker' \in [Id -> DockerContainer]
    BY <1>4, <2>1, DockerType DEF RemoveInDocker, Active, DockerCalls
  <2>3. request' \in [Request -> RequestState] /\ ActiveIds'
    BY <1>4, GotoType, ReturnType
    DEF RemoveInDocker, Active, Pcs, DeletePcs, ChangePcs
  <2> QED BY <1>4, <2>2, <2>3 DEF RemoveInDocker, Typed, TypeOK
<1>5. CASE Forget(r)
  <2>1. request' \in [Request -> RequestState] /\ ActiveIds'
    BY <1>5, GotoType DEF Forget, Active, Pcs, DeletePcs, ChangePcs
  <2>2. containers' \in [Id -> Entry]
    BY <1>5, NoEntryType DEF Forget, Typed, TypeOK
  <2> QED BY <1>5, <2>1, <2>2 DEF Forget, Typed, TypeOK
<1>6. CASE DeleteFromDb(r)
  <2>1. db' \in [Id -> DbStatus]
    BY <1>6 DEF DeleteFromDb, Write, Typed, TypeOK, DbStatus
  <2> QED BY <1>6, <2>1, ReturnType DEF DeleteFromDb, Typed, TypeOK
<1> QED BY <1>2, <1>3, <1>4, <1>5, <1>6 DEF DeleteSteps

LEMMA BeginTyped ==
  ASSUME Typed, NEW r \in Request, Begin(r)
  PROVE  Typed'
<1>1. PICK id \in Id :
        \/ \E enableADB \in BOOLEAN : AllocateGRPC(r, id, enableADB)
        \/ \E op \in {"start", "stop"} : BeginChange(r, op, id)
        \/ \E force \in BOOLEAN : BeginDelete(r, id, force)
  BY DEF Begin
<1>2. CASE \E enableADB \in BOOLEAN : AllocateGRPC(r, id, enableADB)
  <2>1. PICK enableADB \in BOOLEAN : AllocateGRPC(r, id, enableADB)
    BY <1>2
  <2>2. PICK port \in FreePorts :
          /\ Allocate(port)
          /\ request' = [request EXCEPT ![r] =
               [Idle EXCEPT !.op = "create", !.id = id, !.grpc = port,
                  !.pc = IF enableADB THEN "allocate_adb" ELSE "docker_create"]]
    BY <2>1 DEF AllocateGRPC
  <2> DEFINE new == [Idle EXCEPT !.op = "create", !.id = id, !.grpc = port,
                       !.pc = IF enableADB THEN "allocate_adb" ELSE "docker_create"]
  <2>3. new \in RequestState /\ new.id = id /\ new.pc \notin ChangePcs
    BY DEF Idle, RequestState, Pcs, CreatePcs, ChangePcs, PortOrNone, NoPort, FreePorts
  <2>4. request' \in [Request -> RequestState] /\ ActiveIds'
    BY <2>2, <2>3, UpdateType
  <2> QED BY <2>1, <2>2, <2>4 DEF AllocateGRPC, Allocate, FreePorts, Typed, TypeOK
<1>3. CASE \E op \in {"start", "stop"} : BeginChange(r, op, id)
  <2>1. PICK op \in {"start", "stop"} : BeginChange(r, op, id)
    BY <1>3
  <2> DEFINE new == [Idle EXCEPT !.op = op, !.id = id, !.pc = "mark", !.force = FALSE]
  <2>2. new \in RequestState /\ new.id = id /\ new.op = op
    BY DEF Idle, RequestState, Pcs, ChangePcs, PortOrNone, NoPort
  <2>3. request' = [request EXCEPT ![r] = new]
    BY <2>1 DEF BeginChange, Begins
  <2>4. request' \in [Request -> RequestState]
    BY <2>2, <2>3 DEF Typed, TypeOK
  <2>5. ActiveIds'
    BY <2>2, <2>3 DEF Typed, TypeOK, ActiveIds, Active
  <2> QED BY <2>1, <2>4, <2>5 DEF BeginChange, Begins, Typed, TypeOK
<1>4. CASE \E force \in BOOLEAN : BeginDelete(r, id, force)
  <2>1. PICK force \in BOOLEAN : BeginDelete(r, id, force)
    BY <1>4
  <2> DEFINE new == [Idle EXCEPT !.op = "delete", !.id = id,
                       !.pc = "mark_removing", !.force = force]
  <2>2. new \in RequestState /\ new.id = id /\ new.pc \notin ChangePcs
    BY DEF Idle, RequestState, Pcs, DeletePcs, ChangePcs, PortOrNone, NoPort
  <2>3. request' = [request EXCEPT ![r] = new]
    BY <2>1 DEF BeginDelete, Begins
  <2>4. request' \in [Request -> RequestState] /\ ActiveIds'
    BY <2>2, <2>3, UpdateType
  <2> QED BY <2>1, <2>4 DEF BeginDelete, Begins, Typed, TypeOK
<1> QED BY <1>1, <1>2, <1>3, <1>4

LEMMA SyncedType ==
  ASSUME Typed, NEW id \in Id
  PROVE  Synced(id) \in Entry
<1>1. docker[id] \in DockerContainer
  BY DEF Typed, TypeOK
<1> QED
  BY <1>1, NoEntryType
  DEF Synced, DockerContainer, DockerState, Entry, DbStatus, Status

\* What the surroundings do to the daemon between two calls of the manager.
LEMMA MovedFrame ==
  ASSUME Typed, NEW id \in Id, SelfExit(id) \/ LateCall(id)
  PROVE  /\ UNCHANGED <<usedPorts, containers, db, request, released, restarts>>
         /\ docker' \in [Id -> DockerContainer]
         /\ \A i \in Id \ {id} : docker'[i] = docker[i]
         /\ docker'[id].grpc = docker[id].grpc /\ docker'[id].adb = docker[id].adb
         /\ \/ docker[id].state = "requested" /\ docker'[id].state = "created"
               /\ docker'[id].moved = docker[id].moved
            \/ Exists(id) /\ docker'[id].moved
               /\ docker'[id].state \in {"running", "exited", "removed"}
         /\ docker'[id].state = "running" => ~PortsBound(id, PortsOf(docker[id]))
         /\ docker'[id].state = "removed" => docker[id].late # {}
<1> DEFINE d == docker[id]
<1>1. docker \in [Id -> DockerContainer] /\ d \in DockerContainer
  BY DEF Typed, TypeOK
<1>2. UNCHANGED <<usedPorts, containers, db, request, released, restarts>>
  BY DEF SelfExit, LateCall
<1>3. CASE SelfExit(id)
  <2>1. docker' = [docker EXCEPT ![id] = [d EXCEPT !.state = "exited", !.moved = TRUE]]
    BY <1>1, <1>3 DEF SelfExit, DockerContainer
  <2>2. [d EXCEPT !.state = "exited", !.moved = TRUE] \in DockerContainer
    BY <1>1 DEF DockerContainer, DockerState
  <2>3. /\ docker'[id].state = "exited" /\ docker'[id].moved
        /\ docker'[id].grpc = d.grpc /\ docker'[id].adb = d.adb
    BY <1>1, <2>1 DEF DockerContainer
  <2> QED BY <1>1, <1>2, <1>3, <2>1, <2>2, <2>3 DEF SelfExit, Exists
<1>4. CASE d.state = "requested" /\ docker' = [docker EXCEPT ![id].state = "created"]
  <2>1. docker' = [docker EXCEPT ![id] = [d EXCEPT !.state = "created"]]
    BY <1>1, <1>4 DEF DockerContainer
  <2>2. [d EXCEPT !.state = "created"] \in DockerContainer
    BY <1>1 DEF DockerContainer, DockerState
  <2>3. /\ docker'[id].state = "created" /\ docker'[id].moved = d.moved
        /\ docker'[id].grpc = d.grpc /\ docker'[id].adb = d.adb
    BY <1>1, <2>1 DEF DockerContainer
  <2> QED BY <1>1, <1>2, <1>4, <2>1, <2>2, <2>3
<1>5. ASSUME NEW call \in {"start", "stop", "remove"}, NEW force \in BOOLEAN,
             <<call, force>> \in d.late, DockerAccepts(call, id, force),
             DockerEffect(call, id, NoPort, NoPort).state # d.state,
             docker' = [docker EXCEPT ![id] =
               [DockerEffect(call, id, NoPort, NoPort)
                  EXCEPT !.late = @ \ {<<call, force>>}, !.moved = TRUE]]
      PROVE  /\ docker' \in [Id -> DockerContainer]
             /\ docker'[id].grpc = d.grpc /\ docker'[id].adb = d.adb
             /\ Exists(id) /\ docker'[id].moved
             /\ docker'[id].state \in {"running", "exited", "removed"}
             /\ docker'[id].state = "running" => ~PortsBound(id, PortsOf(d))
  <2> DEFINE effect == DockerEffect(call, id, NoPort, NoPort)
             new == [effect EXCEPT !.late = @ \ {<<call, force>>}, !.moved = TRUE]
  <2>1. effect \in DockerContainer
    BY EffectType DEF DockerCalls, PortOrNone
  <2>2. new \in DockerContainer
    BY <2>1 DEF DockerContainer
  <2>3. /\ docker'[id].state = effect.state /\ docker'[id].moved
        /\ docker'[id].grpc = effect.grpc /\ docker'[id].adb = effect.adb
    BY <1>1, <1>5, <2>1 DEF DockerContainer
  <2>4. effect.grpc = d.grpc /\ effect.adb = d.adb
    BY <1>1, <1>5 DEF DockerEffect, DockerContainer
  <2>5. Exists(id)
    BY <1>5 DEF DockerAccepts
  <2>6. effect.state \in {"running", "exited", "removed"}
    BY <1>1, <1>5 DEF DockerEffect, DockerContainer
  <2>7. effect.state = "running" => ~PortsBound(id, PortsOf(d))
    BY <1>1, <1>5 DEF DockerEffect, DockerContainer, DockerAccepts
  <2> QED BY <1>1, <1>5, <2>2, <2>3, <2>4, <2>5, <2>6, <2>7
<1>6. \A i \in Id \ {id} : docker'[i] = docker[i]
  BY <1>1 DEF SelfExit, LateCall
<1> QED BY <1>2, <1>3, <1>4, <1>5, <1>6 DEF LateCall

\* A crash leaves containers as they are, but for one that is being created.
LEMMA AfterCrashState ==
  ASSUME Typed, NEW id \in Id
  PROVE  /\ AfterCrash(id) \in DockerContainer
         /\ \/ /\ AfterCrash(id).state = docker[id].state
               /\ AfterCrash(id).grpc = docker[id].grpc /\ AfterCrash(id).adb = docker[id].adb
            \/ /\ docker[id].state = "none" /\ AfterCrash(id).state = "requested"
               /\ <<"create", "late">> \in DockerFaults
         /\ ~AfterCrash(id).moved
<1> DEFINE left == {r \in Request : request[r].id = id /\ <<CallOf(r), "late">> \in DockerFaults}
           creating == {r \in left : CallOf(r) = "create"}
<1>1. docker[id] \in DockerContainer /\ request \in [Request -> RequestState]
  BY DEF Typed, TypeOK
<1>2. CASE docker[id].state = "none" /\ creating # {}
  <2> DEFINE r == CHOOSE r \in creating : TRUE
  <2>1. r \in creating
    BY <1>2
  <2>2. AfterCrash(id) = LeftToDaemon("create", r)
    BY <1>2 DEF AfterCrash
  <2>3. r \in Request /\ request[r].id = id /\ <<"create", "late">> \in DockerFaults
    BY <2>1
  <2>4. LeftToDaemon("create", r) \in DockerContainer
    BY <2>3, LeftType DEF DockerCalls
  <2>5. LeftToDaemon("create", r).state = "requested" /\ ~LeftToDaemon("create", r).moved
    BY DEF LeftToDaemon, NoContainer
  <2> QED BY <1>2, <2>2, <2>3, <2>4, <2>5
<1>3. CASE ~(docker[id].state = "none" /\ creating # {})
  <2> DEFINE calls == {<<CallOf(r), request[r].force>> : r \in left \ creating}
  <2>1. \A r \in left \ creating : CallOf(r) \in {"start", "stop", "remove"}
    BY EnvironmentAssumption DEF DockerCalls
  <2>2. \A r \in left \ creating : request[r].force \in BOOLEAN
    BY <1>1 DEF RequestState
  <2>3. calls \subseteq {"start", "stop", "remove"} \X BOOLEAN
    <3>1. SUFFICES ASSUME NEW call \in calls
                   PROVE  call \in {"start", "stop", "remove"} \X BOOLEAN
      OBVIOUS
    <3>2. PICK r \in left \ creating : call = <<CallOf(r), request[r].force>>
      BY <3>1
    <3> QED BY <2>1, <2>2, <3>2
  <2>4. AfterCrash(id) = [docker[id] EXCEPT !.late = @ \cup calls, !.moved = FALSE]
    BY <1>3 DEF AfterCrash
  <2>5. AfterCrash(id) \in DockerContainer
    BY <1>1, <2>3, <2>4 DEF DockerContainer
  <2>6. /\ AfterCrash(id).state = docker[id].state /\ ~AfterCrash(id).moved
        /\ AfterCrash(id).grpc = docker[id].grpc /\ AfterCrash(id).adb = docker[id].adb
    BY <1>1, <2>4 DEF DockerContainer
  <2> QED BY <2>5, <2>6
<1> QED BY <1>2, <1>3

\* What the daemon has after a restart.
LEMMA RestartFrame ==
  ASSUME Typed, Restart
  PROVE  /\ docker' \in [Id -> DockerContainer]
         /\ \A id \in Id :
              /\ \/ /\ docker'[id].state = docker[id].state
                    /\ docker'[id].grpc = docker[id].grpc /\ docker'[id].adb = docker[id].adb
                 \/ /\ docker[id].state = "none" /\ docker'[id].state = "requested"
                    /\ <<"create", "late">> \in DockerFaults
              /\ ~docker'[id].moved
BY AfterCrashState DEF Restart

LEMMA RestartTyped ==
  ASSUME Typed, Restart
  PROVE  Typed'
<1>1. containers' \in [Id -> Entry]
  BY SyncedType, NoEntryType DEF Restart
<1>2. \A id \in Id : PortsOf(Synced(id)) \subseteq Port
  BY SyncedType DEF Entry, PortsOf, PortOrNone
<1>3. usedPorts' \subseteq Port
  BY <1>2 DEF Restart, Reserved
<1>4. request' \in [Request -> RequestState] /\ ActiveIds'
  BY IdleType DEF Restart, ActiveIds, Active, Idle, ChangePcs
<1> QED BY <1>1, <1>3, <1>4, RestartFrame DEF Restart, Typed, TypeOK

LEMMA TypedNext == Typed /\ [Next]_vars => Typed'
<1> SUFFICES ASSUME Typed, [Next]_vars PROVE Typed'
  OBVIOUS
<1>1. CASE \E r \in Request : Begin(r)
  BY <1>1, BeginTyped
<1>2. CASE \E r \in Request : Step(r)
  BY <1>2, CreateTyped, ChangeTyped, DeleteTyped DEF Step
<1>3. CASE \E id \in Id : SelfExit(id) \/ LateCall(id)
  BY <1>3, MovedFrame DEF Typed, TypeOK, ActiveIds, Active
<1>4. CASE Restart
  BY <1>4, RestartTyped
<1>5. CASE UNCHANGED vars
  BY <1>5 DEF vars, Typed, TypeOK, ActiveIds, Active
<1> QED BY <1>1, <1>2, <1>3, <1>4, <1>5 DEF Next

\* Every variable keeps its type in every behaviour of the container manager.
THEOREM TypeCorrect == Spec => []TypeOK
<1>1. Typed => TypeOK
  BY DEF Typed
<1> QED BY <1>1, TypedInit, TypedNext, PTL DEF Spec

-----------------------------------------------------------------------------
(* Ports: what the daemon knows *)

\* A container that the map, a delete or a later step of a create mentions is
\* one the daemon has created.
DaemonKnows ==
  /\ \A id \in Id : InMap(id) \/ id \in released => docker[id].state # "none"
  /\ \A r \in Request :
       request[r].pc \in {"docker_start", "insert", "store"} =>
         docker[request[r].id].state # "none"

\* The daemon runs no two containers with the same host port.
DaemonApart ==
  \A a, b \in Id :
    a # b /\ docker[a].state = "running" /\ docker[b].state = "running" =>
      PortsOf(docker[a]) \cap PortsOf(docker[b]) = {}

AbsentHasNoPorts == \A id \in Id : ~InMap(id) => PortsOf(containers[id]) = {}

DaemonInv == DaemonKnows /\ DaemonApart /\ AbsentHasNoPorts

LEMMA NoEntryPorts == PortsOf(NoEntry) = {}
BY DEF PortsOf, NoEntry, NoPort

\* One call of the daemon changes one container, never to "none", and keeps
\* running containers apart.
LEMMA DockerCall ==
  ASSUME Typed, DaemonApart, NEW r \in Request, Active(r),
         NEW call \in DockerCalls, NEW reply, Docker(call, r, reply)
  PROVE  /\ \A id \in Id : docker[id].state # "none" => docker'[id].state # "none"
         /\ call = "create" /\ reply \in {"ok", "garbled"} =>
              docker'[request[r].id].state # "none"
         /\ DaemonApart'
<1> DEFINE id == request[r].id
           new == DockerEffect(call, id, request[r].grpc, request[r].adb)
<1>1. id \in Id
  BY DEF Typed, ActiveIds
<1>2. docker \in [Id -> DockerContainer]
  BY DEF Typed, TypeOK
<1>3. CASE UNCHANGED docker /\ reply \in {"error", "refused"}
  BY <1>3 DEF DaemonApart
<1>4. CASE docker' = [docker EXCEPT ![id] = new] /\ DockerAccepts(call, id, request[r].force)
  <2>1. CASE call = "create"
    <3>1. new.state = "created"
      BY <2>1 DEF DockerEffect, NoContainer
    <3> QED BY <1>1, <1>2, <1>4, <3>1 DEF DaemonApart
  <2>2. CASE call = "start"
    <3>1. new = [docker[id] EXCEPT !.state = "running", !.moved = FALSE]
      BY <2>2 DEF DockerEffect
    <3>2. new.state = "running" /\ PortsOf(new) = PortsOf(docker[id])
      BY <1>1, <1>2, <3>1 DEF DockerContainer, PortsOf
    <3>3. \A other \in Id \ {id} : docker[other].state = "running" =>
            PortsOf(docker[other]) \cap PortsOf(docker[id]) = {}
      BY <1>1, <1>4, <2>2 DEF DockerAccepts, PortsBound, DaemonApart
    <3> QED BY <1>1, <1>2, <1>4, <2>2, <3>2, <3>3 DEF DaemonApart
  <2>3. CASE call = "stop"
    <3>1. docker[id].state # "none"
      BY <1>4, <2>3 DEF DockerAccepts, Exists
    <3>2. new.state # "none" /\ new.state # "running"
      BY <1>1, <1>2, <2>3, <3>1 DEF DockerEffect, DockerContainer
    <3> QED BY <1>1, <1>2, <1>4, <2>3, <3>2 DEF DaemonApart
  <2>4. CASE call = "remove"
    <3>1. new.state = "removed"
      BY <1>1, <1>2, <2>4 DEF DockerEffect, DockerContainer
    <3> QED BY <1>1, <1>2, <1>4, <2>4, <3>1 DEF DaemonApart
  <2> QED BY <2>1, <2>2, <2>3, <2>4 DEF DockerCalls
<1>5. CASE /\ docker' = [docker EXCEPT ![id] = LeftToDaemon(call, r)]
           /\ DockerAccepts(call, id, request[r].force) /\ reply = "error"
  <2>1. LeftToDaemon(call, r) \in DockerContainer
    BY <1>1, LeftType
  <2>2. CASE call = "create"
    <3>1. LeftToDaemon(call, r).state = "requested"
      BY <2>2 DEF LeftToDaemon, NoContainer
    <3> QED BY <1>1, <1>2, <1>5, <2>2, <3>1 DEF DaemonApart
  <2>3. CASE call # "create"
    <3>1. /\ LeftToDaemon(call, r).state = docker[id].state
          /\ PortsOf(LeftToDaemon(call, r)) = PortsOf(docker[id])
      BY <1>1, <1>2, <2>3 DEF LeftToDaemon, DockerContainer, PortsOf
    <3> QED BY <1>1, <1>2, <1>5, <2>3, <3>1 DEF DaemonApart
  <2> QED BY <2>2, <2>3
<1> QED BY <1>3, <1>4, <1>5 DEF Docker

\* A step that leaves the map alone and names no container anew.
LEMMA DaemonKeeps ==
  ASSUME Typed, DaemonInv, NEW r \in Request,
         UNCHANGED <<containers, released>>, DaemonApart',
         \A id \in Id : docker[id].state # "none" => docker'[id].state # "none",
         \A s \in Request \ {r} : request'[s] = request[s],
         request'[r].pc \in {"docker_start", "insert", "store"} =>
           docker'[request'[r].id].state # "none"
  PROVE  DaemonInv'
<1>1. \A s \in Request : Active(s) => request[s].id \in Id
  BY DEF Typed, ActiveIds
<1>2. \A id \in Id : (InMap(id) \/ id \in released)' => docker'[id].state # "none"
  BY DEF DaemonInv, DaemonKnows, InMap
<1>3. ASSUME NEW s \in Request,
             request'[s].pc \in {"docker_start", "insert", "store"}
      PROVE  docker'[request'[s].id].state # "none"
  <2>1. CASE s = r
    BY <1>3, <2>1
  <2>2. CASE s # r
    BY <1>1, <1>3, <2>2 DEF DaemonInv, DaemonKnows, Active
  <2> QED BY <2>1, <2>2
<1>4. AbsentHasNoPorts'
  BY DEF DaemonInv, AbsentHasNoPorts, InMap
<1> QED BY <1>2, <1>3, <1>4 DEF DaemonInv, DaemonKnows

\* Where the request is after a Goto or a Return, and that others stay.
LEMMA GotoFrame ==
  ASSUME Typed, NEW r \in Request, NEW pc, Goto(r, pc)
  PROVE  /\ request'[r] = [request[r] EXCEPT !.pc = pc]
         /\ request'[r].pc = pc /\ request'[r].id = request[r].id
         /\ request'[r].grpc = request[r].grpc /\ request'[r].adb = request[r].adb
         /\ \A s \in Request \ {r} : request'[s] = request[s]
BY DEF Goto, Typed, TypeOK, RequestState

LEMMA ReturnFrame ==
  ASSUME Typed, NEW r \in Request, Return(r)
  PROVE  /\ request'[r] = Idle /\ request'[r].pc = "idle"
         /\ \A s \in Request \ {r} : request'[s] = request[s]
BY DEF Return, Idle, Typed, TypeOK

\* The two ends of AllocateADB.
LEMMA AllocateADBFrame ==
  ASSUME Typed, NEW r \in Request, AllocateADB(r)
  PROVE  \/ \E port \in FreePorts :
              /\ Allocate(port)
              /\ request'[r].pc = "docker_create" /\ request'[r].id = request[r].id
              /\ request'[r].grpc = request[r].grpc /\ request'[r].adb = port
         \/ /\ Release({request[r].grpc}) /\ Return(r)
            /\ request'[r].pc = "idle"
<1>1. request[r] \in RequestState /\ request \in [Request -> RequestState]
  BY DEF Typed, TypeOK
<1>2. ASSUME NEW port \in FreePorts, Allocate(port),
             request' = [request EXCEPT ![r] =
                           [@ EXCEPT !.adb = port, !.pc = "docker_create"]]
      PROVE  /\ request'[r].pc = "docker_create" /\ request'[r].id = request[r].id
             /\ request'[r].grpc = request[r].grpc /\ request'[r].adb = port
  <2>1. request'[r] = [request[r] EXCEPT !.adb = port, !.pc = "docker_create"]
    BY <1>1, <1>2
  <2> QED BY <1>1, <2>1 DEF RequestState
<1> QED BY <1>2, ReturnFrame DEF AllocateADB

\* Where each of the beginnings leaves its request.
LEMMA BeginFrame ==
  ASSUME Typed, NEW r \in Request, NEW id \in Id
  PROVE  /\ \A enableADB \in BOOLEAN : AllocateGRPC(r, id, enableADB) =>
              \E port \in FreePorts :
                /\ Allocate(port)
                /\ request'[r].pc \in {"allocate_adb", "docker_create"}
                /\ request'[r].id = id
                /\ request'[r].grpc = port /\ request'[r].adb = NoPort
         /\ \A op \in {"start", "stop"} : BeginChange(r, op, id) =>
              request'[r].pc = "mark" /\ request'[r].id = id
         /\ \A force \in BOOLEAN : BeginDelete(r, id, force) =>
              request'[r].pc = "mark_removing" /\ request'[r].id = id
<1>1. request \in [Request -> RequestState]
  BY DEF Typed, TypeOK
<1>2. ASSUME NEW enableADB \in BOOLEAN, AllocateGRPC(r, id, enableADB)
      PROVE  \E port \in FreePorts :
               /\ Allocate(port)
               /\ request'[r].pc \in {"allocate_adb", "docker_create"}
               /\ request'[r].id = id
               /\ request'[r].grpc = port /\ request'[r].adb = NoPort
  <2>1. PICK port \in FreePorts :
          /\ Allocate(port)
          /\ request' = [request EXCEPT ![r] =
               [Idle EXCEPT !.op = "create", !.id = id, !.grpc = port,
                  !.pc = IF enableADB THEN "allocate_adb" ELSE "docker_create"]]
    BY <1>2 DEF AllocateGRPC
  <2>2. request'[r] = [Idle EXCEPT !.op = "create", !.id = id, !.grpc = port,
                         !.pc = IF enableADB THEN "allocate_adb" ELSE "docker_create"]
    BY <1>1, <2>1
  <2>3. /\ request'[r].pc \in {"allocate_adb", "docker_create"}
        /\ request'[r].id = id
        /\ request'[r].grpc = port /\ request'[r].adb = NoPort
    BY <2>2 DEF Idle
  <2> QED BY <2>1, <2>3
<1>3. ASSUME NEW op, NEW pc, NEW force, Begins(r, op, id, pc, force)
      PROVE  request'[r].pc = pc /\ request'[r].id = id
  <2>1. request'[r] = [Idle EXCEPT !.op = op, !.id = id, !.pc = pc, !.force = force]
    BY <1>1, <1>3 DEF Begins
  <2> QED BY <2>1 DEF Idle
<1> QED BY <1>2, <1>3 DEF BeginChange, BeginDelete

LEMMA CreateInDockerKeeps ==
  ASSUME Typed, DaemonInv, NEW r \in Request, CreateInDocker(r)
  PROVE  DaemonInv'
<1>1. PICK reply \in {"ok", "error", "refused", "garbled"} :
        /\ Docker("create", r, reply)
        /\ \/ reply = "ok" /\ Goto(r, "docker_start")
           \/ Goto(r, "release")
           \/ Return(r)
  BY DEF CreateInDocker
<1>2. Active(r)
  BY DEF CreateInDocker, Active
<1>3. /\ \A id \in Id : docker[id].state # "none" => docker'[id].state # "none"
      /\ reply = "ok" => docker'[request[r].id].state # "none"
      /\ DaemonApart'
  BY <1>1, <1>2, DockerCall DEF DaemonInv, DockerCalls
<1>4. \A s \in Request \ {r} : request'[s] = request[s]
  BY <1>1, GotoFrame, ReturnFrame
<1>5. request'[r].pc \in {"docker_start", "insert", "store"} =>
        docker'[request'[r].id].state # "none"
  BY <1>1, <1>3, GotoFrame, ReturnFrame
<1> QED BY <1>3, <1>4, <1>5, DaemonKeeps DEF CreateInDocker

LEMMA OtherCallKeeps ==
  ASSUME Typed, DaemonInv, NEW r \in Request,
         StartInDocker(r) \/ Cleanup(r) \/ ChangeInDocker(r) \/ RemoveInDocker(r)
  PROVE  DaemonInv'
<1>1. PICK call \in DockerCalls, reply \in {"ok", "error", "refused"} : Docker(call, r, reply)
  BY DEF StartInDocker, Cleanup, ChangeInDocker, RemoveInDocker, DockerCalls,
         Typed, ActiveIds, ChangePcs
<1>2. Active(r) /\ request[r].id \in Id
  BY DEF StartInDocker, Cleanup, ChangeInDocker, RemoveInDocker, Active, Typed, ActiveIds
<1>3. /\ \A id \in Id : docker[id].state # "none" => docker'[id].state # "none"
      /\ DaemonApart'
  BY <1>1, <1>2, DockerCall DEF DaemonInv
<1>4. /\ \A s \in Request \ {r} : request'[s] = request[s]
      /\ request'[r].pc \in {"docker_start", "insert", "store"} =>
           request[r].pc = "docker_start" /\ request'[r].id = request[r].id
  <2>1. CASE StartInDocker(r)
    <3>1. CASE Goto(r, "insert")
      BY <2>1, <3>1, GotoFrame DEF StartInDocker
    <3>2. CASE request' =
            [request EXCEPT ![r] = [@ EXCEPT !.pc = "cleanup", !.force = TRUE]]
      BY <3>2 DEF Typed, TypeOK, RequestState
    <3> QED BY <2>1, <3>1, <3>2 DEF StartInDocker
  <2>2. CASE Cleanup(r) \/ ChangeInDocker(r) \/ RemoveInDocker(r)
    BY <2>2, GotoFrame, ReturnFrame DEF Cleanup, ChangeInDocker, RemoveInDocker
  <2> QED BY <2>1, <2>2
<1>5. request'[r].pc \in {"docker_start", "insert", "store"} =>
        docker'[request'[r].id].state # "none"
  BY <1>2, <1>3, <1>4 DEF DaemonInv, DaemonKnows
<1>6. UNCHANGED <<containers, released>>
  BY DEF StartInDocker, Cleanup, ChangeInDocker, RemoveInDocker
<1> QED BY <1>3, <1>4, <1>5, <1>6, DaemonKeeps

\* The steps of a request that leave the daemon and the map alone.
LEMMA QuietKeeps ==
  ASSUME Typed, DaemonInv, NEW r \in Request,
         Begin(r) \/ AllocateADB(r) \/ ReleasePorts(r) \/ InsertInDb(r)
           \/ Record(r) \/ DeleteFromDb(r)
  PROVE  DaemonInv'
<1>1. UNCHANGED <<containers, docker, released>>
  BY DEF Begin, AllocateGRPC, BeginChange, BeginDelete, Begins, AllocateADB,
         ReleasePorts, InsertInDb, Record, DeleteFromDb
<1>2. \A s \in Request \ {r} : request'[s] = request[s]
  BY GotoFrame, ReturnFrame
  DEF Begin, AllocateGRPC, BeginChange, BeginDelete, Begins, AllocateADB,
      ReleasePorts, InsertInDb, Record, DeleteFromDb, Typed, TypeOK
<1>3. CASE InsertInDb(r)
  <2>1. request[r].pc = "insert" /\ request'[r].id = request[r].id
    BY <1>3, GotoFrame DEF InsertInDb
  <2> QED BY <1>1, <1>2, <2>1, DaemonKeeps DEF DaemonInv, DaemonKnows, DaemonApart
<1>4. CASE Begin(r) \/ AllocateADB(r) \/ ReleasePorts(r) \/ Record(r) \/ DeleteFromDb(r)
  <2>1. request'[r].pc \notin {"docker_start", "insert", "store"}
    <3>1. CASE Begin(r)
      BY <3>1, BeginFrame DEF Begin, BeginChange
    <3>2. CASE AllocateADB(r)
      BY <3>2, AllocateADBFrame
    <3>3. CASE ReleasePorts(r) \/ Record(r) \/ DeleteFromDb(r)
      BY <3>3, ReturnFrame DEF ReleasePorts, Record, DeleteFromDb
    <3> QED BY <1>4, <3>1, <3>2, <3>3
  <2> QED BY <1>1, <1>2, <2>1, DaemonKeeps DEF DaemonInv, DaemonApart
<1> QED BY <1>3, <1>4

\* A step that changes entries of the map, and nothing the daemon holds.
LEMMA SetStatusFrame ==
  ASSUME Typed, NEW id \in Id, NEW status \in Status, SetStatus(id, status)
  PROVE  /\ \A i \in Id : InMap(i)' <=> InMap(i)
         /\ \A i \in Id : PortsOf(containers'[i]) = PortsOf(containers[i])
BY DEF Typed, TypeOK, SetStatus, InMap, PortsOf, Entry, Status

LEMMA MapKeeps ==
  ASSUME Typed, DaemonInv, NEW r \in Request,
         Mark(r) \/ Settle(r) \/ MarkRemoving(r) \/ Forget(r) \/ StoreInMap(r)
           \/ ReleaseEntry(r)
  PROVE  DaemonInv'
<1>1. /\ request[r].id \in Id
      /\ \A op : Transient(op) \in Status /\ Final(op) \in Status
      /\ "removing" \in Status
  BY DEF Typed, ActiveIds, Active, Mark, Settle, MarkRemoving, Forget, StoreInMap,
         ReleaseEntry, Transient, Final, Status
<1>2. /\ \A s \in Request \ {r} : request'[s] = request[s]
      /\ request'[r].pc \notin {"docker_start", "insert", "store"}
  <2>1. CASE Mark(r) \/ MarkRemoving(r)
    BY <2>1, GotoFrame DEF Mark, MarkRemoving
  <2>2. CASE Settle(r)
    BY <2>2, GotoFrame, ReturnFrame DEF Settle
  <2>3. CASE Forget(r)
    BY <2>3, GotoFrame DEF Forget
  <2>4. CASE StoreInMap(r)
    BY <2>4, ReturnFrame DEF StoreInMap
  <2>5. CASE ReleaseEntry(r)
    BY <2>5, GotoFrame DEF ReleaseEntry
  <2> QED BY <2>1, <2>2, <2>3, <2>4, <2>5
<1>3. UNCHANGED docker
  BY DEF Mark, Settle, MarkRemoving, Forget, StoreInMap, ReleaseEntry
<1>4. \A id \in Id : (InMap(id) \/ id \in released)' =>
        \/ InMap(id) \/ id \in released
        \/ request[r].pc = "store" /\ id = request[r].id
  <2>1. CASE Mark(r) \/ Settle(r) \/ MarkRemoving(r)
    BY <1>1, <2>1, SetStatusFrame DEF Mark, Settle, MarkRemoving
  <2>2. CASE Forget(r)
    BY <2>2 DEF Forget, InMap, NoEntry, Typed, TypeOK
  <2>3. CASE StoreInMap(r)
    BY <2>3 DEF StoreInMap, InMap, Typed, TypeOK
  <2>4. CASE ReleaseEntry(r)
    BY <2>4 DEF ReleaseEntry, InMap
  <2> QED BY <2>1, <2>2, <2>3, <2>4
<1>5. AbsentHasNoPorts'
  <2>1. CASE Mark(r) \/ Settle(r) \/ MarkRemoving(r)
    BY <1>1, <2>1, SetStatusFrame DEF Mark, Settle, MarkRemoving, DaemonInv, AbsentHasNoPorts
  <2>2. CASE Forget(r)
    BY <2>2, NoEntryPorts DEF Forget, InMap, Typed, TypeOK, DaemonInv, AbsentHasNoPorts
  <2>3. CASE StoreInMap(r)
    BY <2>3 DEF StoreInMap, InMap, Typed, TypeOK, DaemonInv, AbsentHasNoPorts
  <2>4. CASE ReleaseEntry(r)
    BY <2>4 DEF ReleaseEntry, InMap, DaemonInv, AbsentHasNoPorts
  <2> QED BY <2>1, <2>2, <2>3, <2>4
<1>6. DaemonKnows'
  BY <1>1, <1>2, <1>3, <1>4 DEF DaemonInv, DaemonKnows
<1> QED BY <1>3, <1>5, <1>6 DEF DaemonInv, DaemonApart

LEMMA DaemonInit == Init => DaemonInv
BY NoEntryPorts
DEF Init, NoContainer, DaemonInv, DaemonKnows, DaemonApart, AbsentHasNoPorts, InMap,
    NoEntry, Idle

LEMMA DaemonNext ==
  ASSUME Typed, DaemonInv, [Next]_vars
  PROVE  DaemonInv'
<1>1. CASE \E r \in Request : Begin(r) \/ Step(r)
  BY <1>1, CreateInDockerKeeps, OtherCallKeeps, QuietKeeps, MapKeeps
  DEF Step, CreateSteps, ChangeSteps, DeleteSteps
<1>2. CASE \E id \in Id : SelfExit(id) \/ LateCall(id)
  <2>1. PICK id \in Id : SelfExit(id) \/ LateCall(id)
    BY <1>2
  <2>2. /\ UNCHANGED <<containers, request, released>>
        /\ \A i \in Id \ {id} : docker'[i] = docker[i]
        /\ PortsOf(docker'[id]) = PortsOf(docker[id])
        /\ docker'[id].state # "none"
        /\ docker'[id].state = "running" => ~PortsBound(id, PortsOf(docker[id]))
    BY <2>1, MovedFrame DEF PortsOf
  <2>3. \A other \in Id \ {id} :
          docker'[id].state = "running" /\ docker[other].state = "running" =>
            PortsOf(docker[other]) \cap PortsOf(docker[id]) = {}
    BY <2>2 DEF PortsBound
  <2>4. DaemonApart'
    BY <2>2, <2>3 DEF DaemonInv, DaemonApart
  <2>5. DaemonKnows'
    BY <2>2 DEF DaemonInv, DaemonKnows, InMap, Typed, ActiveIds, Active
  <2>6. AbsentHasNoPorts'
    BY <2>2 DEF DaemonInv, AbsentHasNoPorts, InMap
  <2> QED BY <2>4, <2>5, <2>6 DEF DaemonInv
<1>3. CASE Restart
  <2>1. released' = {} /\ \A r \in Request : request'[r].pc = "idle"
    BY <1>3 DEF Restart, Idle
  <2>2. \A id \in Id : containers'[id] \in {Synced(id), NoEntry}
    BY <1>3 DEF Restart
  <2>3. \A id \in Id : docker[id] \in DockerContainer
    BY DEF Typed, TypeOK
  <2>4. \A id \in Id : Synced(id).status # "absent" => docker[id].state # "none"
    BY <2>3 DEF Synced, NoEntry
  <2>5. \A id \in Id : Synced(id).status = "absent" => Synced(id) = NoEntry
    BY <2>3 DEF Synced, NoEntry, DockerContainer
  <2>6. \A id \in Id :
          /\ docker[id].state # "none" => docker'[id].state # "none"
          /\ docker'[id].state = "running" =>
               docker[id].state = "running" /\ PortsOf(docker'[id]) = PortsOf(docker[id])
    BY <1>3, RestartFrame DEF PortsOf
  <2>7. DaemonKnows'
    BY <2>1, <2>2, <2>4, <2>6 DEF DaemonKnows, InMap, NoEntry
  <2>8. AbsentHasNoPorts'
    BY <2>2, <2>5, NoEntryPorts DEF AbsentHasNoPorts, InMap
  <2>9. DaemonApart'
    BY <2>6 DEF DaemonInv, DaemonApart
  <2> QED BY <2>7, <2>8, <2>9 DEF DaemonInv
<1>4. CASE UNCHANGED vars
  BY <1>4 DEF vars, DaemonInv, DaemonKnows, DaemonApart, AbsentHasNoPorts, InMap
<1> QED BY <1>1, <1>2, <1>3, <1>4 DEF Next

-----------------------------------------------------------------------------
(* Ports: requests that own something do not meet *)

EarlyDelete(r) == request[r].pc \in {"mark_removing", "release_entry"}

\* Two creates make two containers, and neither is in the map yet.
CreatesApart ==
  /\ \A r, s \in Request :
       r # s /\ Creating(r) /\ Creating(s) => request[r].id # request[s].id
  /\ \A r \in Request :
       Creating(r) => ~InMap(request[r].id) /\ request[r].id \notin released

\* When clients do not repeat deletes, one delete at most works on a container,
\* and until it releases the ports nobody else has.
DeletesApart ==
  /\ \A r, s \in Request :
       r # s /\ Deleting(r) /\ Deleting(s) => request[r].id # request[s].id
  /\ \A r \in Request : EarlyDelete(r) => request[r].id \notin released

ApartInv == CreatesApart /\ DeletesApart

\* What the steps of a request do to its own record.
LEMMA StepFrame ==
  ASSUME Typed, NEW r \in Request, Step(r)
  PROVE  /\ \A s \in Request \ {r} : request'[s] = request[s]
         /\ Creating(r)' => Creating(r) /\ request'[r].id = request[r].id
         /\ Creating(r)' /\ ~AllocateADB(r) =>
              PortsOf(request'[r]) = PortsOf(request[r])
         /\ Deleting(r)' => Deleting(r) /\ request'[r].id = request[r].id
         /\ EarlyDelete(r)' => EarlyDelete(r) /\ ~ReleaseEntry(r)
<1>1. request[r] \in RequestState /\ request \in [Request -> RequestState]
  BY DEF Typed, TypeOK
<1>2. CASE AllocateADB(r)
  <2>1. \A s \in Request \ {r} : request'[s] = request[s]
    BY <1>1, <1>2, ReturnFrame DEF AllocateADB
  <2>2. /\ request'[r].pc \in {"docker_create", "idle"}
        /\ request'[r].pc = "docker_create" => request'[r].id = request[r].id
    BY <1>2, AllocateADBFrame
  <2> QED
    BY <1>2, <2>1, <2>2
    DEF AllocateADB, Creating, CreatePcs, Deleting, DeletePcs, EarlyDelete
<1>3. CASE StartInDocker(r)
  <2>1. CASE Goto(r, "insert")
    <3>1. request[r].pc = "docker_start"
      BY <1>3 DEF StartInDocker
    <3> QED
      BY <2>1, <3>1, GotoFrame
      DEF Creating, CreatePcs, Deleting, DeletePcs, EarlyDelete, PortsOf
  <2>2. CASE request' =
          [request EXCEPT ![r] = [@ EXCEPT !.pc = "cleanup", !.force = TRUE]]
    <3>1. request'[r] = [request[r] EXCEPT !.pc = "cleanup", !.force = TRUE]
      BY <1>1, <2>2
    <3>2. /\ request'[r].pc = "cleanup" /\ request'[r].id = request[r].id
          /\ request'[r].grpc = request[r].grpc /\ request'[r].adb = request[r].adb
      BY <1>1, <3>1 DEF RequestState
    <3> QED
      BY <1>1, <1>3, <2>2, <3>2
      DEF StartInDocker, Creating, CreatePcs, Deleting, DeletePcs, EarlyDelete, PortsOf
  <2> QED BY <1>3, <2>1, <2>2 DEF StartInDocker
<1>4. CASE \E pc \in {"docker_start", "release", "store"} :
             Creating(r) /\ Goto(r, pc)
  BY <1>4, GotoFrame
  DEF Creating, CreatePcs, Deleting, DeletePcs, EarlyDelete, PortsOf
<1>5. CASE \E pc \in {"docker_change", "settle", "record"} : Goto(r, pc)
  BY <1>5, GotoFrame
  DEF Creating, CreatePcs, Deleting, DeletePcs, EarlyDelete
<1>6. CASE request[r].pc = "mark_removing" /\ Goto(r, "release_entry")
  <2>1. ~ReleaseEntry(r)
    BY <1>6 DEF ReleaseEntry
  <2>2. /\ request'[r].pc = "release_entry" /\ request'[r].id = request[r].id
        /\ \A s \in Request \ {r} : request'[s] = request[s]
    BY <1>6, GotoFrame
  <2> QED
    BY <1>6, <2>1, <2>2 DEF Creating, CreatePcs, Deleting, DeletePcs, EarlyDelete
<1>7. CASE \E pc \in {"docker_remove", "forget", "db_delete"} :
             Deleting(r) /\ Goto(r, pc)
  BY <1>7, GotoFrame
  DEF Creating, CreatePcs, Deleting, DeletePcs, EarlyDelete
<1>8. CASE Return(r)
  BY <1>8, ReturnFrame
  DEF Creating, CreatePcs, Deleting, DeletePcs, EarlyDelete
<1>9. CASE CreateInDocker(r) \/ Cleanup(r) \/ ReleasePorts(r) \/ InsertInDb(r) \/ StoreInMap(r)
  <2>1. \/ \E pc \in {"docker_start", "release", "store"} : Creating(r) /\ Goto(r, pc)
        \/ Return(r)
    BY <1>9
    DEF CreateInDocker, Cleanup, ReleasePorts, InsertInDb, StoreInMap, Creating, CreatePcs
  <2> QED BY <1>4, <1>8, <2>1
<1>10. CASE ChangeSteps(r)
  <2>1. \/ \E pc \in {"docker_change", "settle", "record"} : Goto(r, pc)
        \/ Return(r)
    BY <1>10 DEF ChangeSteps, Mark, ChangeInDocker, Settle, Record
  <2> QED BY <1>5, <1>8, <2>1
<1>11. CASE DeleteSteps(r)
  <2>1. \/ \E pc \in {"docker_remove", "forget", "db_delete"} : Deleting(r) /\ Goto(r, pc)
        \/ request[r].pc = "mark_removing" /\ Goto(r, "release_entry")
        \/ Return(r)
    BY <1>11
    DEF DeleteSteps, MarkRemoving, ReleaseEntry, RemoveInDocker, Forget, DeleteFromDb,
        Deleting, DeletePcs
  <2> QED BY <1>6, <1>7, <1>8, <2>1
<1> QED BY <1>2, <1>3, <1>9, <1>10, <1>11 DEF Step, CreateSteps

\* What the steps of a request do to the map and to the history.
LEMMA MapFrame ==
  ASSUME Typed, NEW r \in Request, Step(r)
  PROVE  /\ \A id \in Id : InMap(id)' =>
              InMap(id) \/ (request[r].pc = "store" /\ id = request[r].id)
         /\ \A id \in Id : id \in released' =>
              id \in released \/ (ReleaseEntry(r) /\ id = request[r].id /\ InMap(id))
         /\ \A id \in Id : InMap(id)' /\ ~StoreInMap(r) =>
              InMap(id) /\ PortsOf(containers'[id]) = PortsOf(containers[id])
         /\ released \subseteq released'
<1>1. request[r].id \in Id /\ containers \in [Id -> Entry]
  BY DEF Typed, TypeOK, ActiveIds, Active, Step, CreateSteps, ChangeSteps, DeleteSteps,
         AllocateADB, CreateInDocker, StartInDocker, Cleanup, ReleasePorts, InsertInDb,
         StoreInMap, Mark, ChangeInDocker, Settle, Record, MarkRemoving, ReleaseEntry,
         RemoveInDocker, Forget, DeleteFromDb
<1>2. CASE Mark(r) \/ Settle(r) \/ MarkRemoving(r)
  <2>1. PICK status \in Status : SetStatus(request[r].id, status)
    BY <1>2 DEF Mark, Settle, MarkRemoving, Transient, Final, Status
  <2>2. UNCHANGED released
    BY <1>2 DEF Mark, Settle, MarkRemoving
  <2> QED BY <1>1, <2>1, <2>2, SetStatusFrame
<1>3. CASE Forget(r)
  <2>1. UNCHANGED released /\ containers' = [containers EXCEPT ![request[r].id] = NoEntry]
    BY <1>3 DEF Forget
  <2> QED BY <1>1, <2>1 DEF InMap, NoEntry
<1>4. CASE StoreInMap(r)
  <2>1. /\ UNCHANGED released /\ request[r].pc = "store" /\ StoreInMap(r)
        /\ \A id \in Id \ {request[r].id} : containers'[id] = containers[id]
    BY <1>1, <1>4 DEF StoreInMap
  <2> QED BY <1>1, <2>1 DEF InMap
<1>5. CASE ReleaseEntry(r)
  <2>1. /\ UNCHANGED containers
        /\ released' = IF InMap(request[r].id) THEN released \cup {request[r].id}
                       ELSE released
    BY <1>5 DEF ReleaseEntry
  <2> QED BY <1>5, <2>1 DEF InMap
<1>6. CASE UNCHANGED <<containers, released>>
  BY <1>6 DEF InMap
<1> QED
  BY <1>2, <1>3, <1>4, <1>5, <1>6
  DEF Step, CreateSteps, ChangeSteps, DeleteSteps, AllocateADB, CreateInDocker,
      StartInDocker, Cleanup, ReleasePorts, InsertInDb, ChangeInDocker, Record,
      RemoveInDocker, DeleteFromDb

LEMMA ApartStep ==
  ASSUME Typed, ApartInv, NEW r \in Request, Step(r)
  PROVE  ApartInv'
<1>1. \A s \in Request : Active(s) => request[s].id \in Id
  BY DEF Typed, ActiveIds
<1>2. \A s \in Request :
        /\ Creating(s)' => Creating(s) /\ request'[s].id = request[s].id
        /\ Deleting(s)' => Deleting(s) /\ request'[s].id = request[s].id
        /\ EarlyDelete(s)' => EarlyDelete(s) /\ (s = r => ~ReleaseEntry(r))
  BY StepFrame DEF Creating, Deleting, EarlyDelete
<1>3. \A s \in Request :
        /\ Creating(s) \/ Deleting(s) => Active(s)
        /\ EarlyDelete(s) => Deleting(s)
  BY DEF Creating, CreatePcs, Deleting, DeletePcs, EarlyDelete, Active
<1>4. request[r].pc = "store" => Creating(r) /\ request'[r].pc = "idle"
  BY ReturnFrame
  DEF Step, CreateSteps, ChangeSteps, DeleteSteps, AllocateADB, CreateInDocker,
      StartInDocker, Cleanup, ReleasePorts, InsertInDb, StoreInMap, Mark, ChangeInDocker,
      Settle, Record, MarkRemoving, ReleaseEntry, RemoveInDocker, Forget, DeleteFromDb,
      Creating, CreatePcs
<1>5. ReleaseEntry(r) => EarlyDelete(r)
  BY DEF ReleaseEntry, EarlyDelete
<1>6. CreatesApart'
  <2>1. ASSUME NEW s \in Request, Creating(s)'
        PROVE  (~InMap(request[s].id) /\ request[s].id \notin released)'
    <3>1. Creating(s) /\ request'[s].id = request[s].id /\ request[s].id \in Id
      BY <1>1, <1>2, <1>3, <2>1
    <3>2. ~InMap(request[s].id) /\ request[s].id \notin released
      BY <3>1 DEF ApartInv, CreatesApart
    <3>3. request[r].pc = "store" => request[r].id # request[s].id
      BY <1>4, <2>1, <3>1 DEF ApartInv, CreatesApart, Creating, CreatePcs
    <3>4. ReleaseEntry(r) => ~InMap(request[s].id)
      BY <3>2
    <3> QED BY <3>1, <3>2, <3>3, <3>4, MapFrame DEF InMap
  <2> QED BY <1>2, <2>1 DEF ApartInv, CreatesApart
<1>7. DeletesApart'
  <2>1. ASSUME NEW s \in Request, EarlyDelete(s)'
        PROVE  request'[s].id \notin released'
    <3>1. /\ EarlyDelete(s) /\ request'[s].id = request[s].id /\ request[s].id \in Id
          /\ s = r => ~ReleaseEntry(r)
      BY <1>1, <1>2, <1>3, <2>1 DEF EarlyDelete, Deleting, DeletePcs
    <3>2. request[s].id \notin released
      BY <3>1 DEF ApartInv, DeletesApart
    <3>3. ReleaseEntry(r) => request[r].id # request[s].id
      BY <1>3, <1>5, <3>1 DEF ApartInv, DeletesApart
    <3> QED BY <3>1, <3>2, <3>3, MapFrame
  <2> QED BY <1>2, <2>1 DEF ApartInv, DeletesApart
<1> QED BY <1>6, <1>7 DEF ApartInv

LEMMA ApartBegin ==
  ASSUME Typed, DaemonInv, ApartInv, "repeat_delete" \notin Hazards,
         NEW r \in Request, Begin(r)
  PROVE  ApartInv'
<1>1. PICK id \in Id :
        \/ \E enableADB \in BOOLEAN : AllocateGRPC(r, id, enableADB)
        \/ \E op \in {"start", "stop"} : BeginChange(r, op, id)
        \/ \E force \in BOOLEAN : BeginDelete(r, id, force)
  BY DEF Begin
<1>2. /\ UNCHANGED <<containers, released>>
      /\ \A s \in Request \ {r} : request'[s] = request[s]
  BY <1>1 DEF AllocateGRPC, BeginChange, BeginDelete, Begins, Typed, TypeOK
<1>3. CASE \E enableADB \in BOOLEAN : AllocateGRPC(r, id, enableADB)
  <2>1. /\ request'[r].pc \in {"allocate_adb", "docker_create"}
        /\ request'[r].id = id
        /\ docker[id].state = "none" /\ ~BusyFor(r, id)
    BY <1>3, BeginFrame DEF AllocateGRPC
  <2>2. ~InMap(id) /\ id \notin released
    BY <2>1 DEF DaemonInv, DaemonKnows
  <2> QED
    BY <1>2, <2>1, <2>2
    DEF ApartInv, CreatesApart, DeletesApart, Creating, CreatePcs, Deleting, DeletePcs,
        EarlyDelete, BusyFor, Active, InMap
<1>4. CASE \E op \in {"start", "stop"} : BeginChange(r, op, id)
  <2>1. request'[r].pc = "mark"
    BY <1>4, BeginFrame
  <2> QED
    BY <1>2, <2>1
    DEF ApartInv, CreatesApart, DeletesApart, Creating, CreatePcs, Deleting, DeletePcs,
        EarlyDelete, InMap
<1>5. CASE \E force \in BOOLEAN : BeginDelete(r, id, force)
  <2>1. /\ request'[r].pc = "mark_removing" /\ request'[r].id = id
        /\ id \notin released
        /\ \A s \in Request : Deleting(s) => request[s].id # id
    BY <1>5, BeginFrame DEF BeginDelete
  <2> QED
    BY <1>2, <2>1
    DEF ApartInv, CreatesApart, DeletesApart, Creating, CreatePcs, Deleting, DeletePcs,
        EarlyDelete, InMap
<1> QED BY <1>1, <1>3, <1>4, <1>5

-----------------------------------------------------------------------------
(* Ports: the invariant *)

PortsInv == ExclusivePorts /\ HeldPortsReserved

IInv == Typed /\ DaemonInv /\ ApartInv /\ PortsInv

\* Owners that only go, and keep what they have, stay apart.
LEMMA OwnersGo ==
  ASSUME PortsInv,
         \A r \in Request : Creating(r)' =>
           Creating(r) /\ PortsOf(request'[r]) = PortsOf(request[r]),
         \A id \in Id : Owns(id)' =>
           Owns(id) /\ PortsOf(containers'[id]) = PortsOf(containers[id])
  PROVE  /\ ExclusivePorts'
         /\ UNCHANGED usedPorts => HeldPortsReserved'
BY DEF PortsInv, ExclusivePorts, HeldPortsReserved

LEMMA PortsAllocateADB ==
  ASSUME IInv, NEW r \in Request, AllocateADB(r)
  PROVE  PortsInv'
<1>1. /\ \A s \in Request \ {r} : request'[s] = request[s]
      /\ UNCHANGED <<containers, released>>
      /\ Creating(r)
  BY StepFrame
  DEF IInv, Step, CreateSteps, AllocateADB, Creating, CreatePcs
<1>2. \A s \in Request \ {r} :
        /\ Creating(s)' <=> Creating(s)
        /\ PortsOf(request'[s]) = PortsOf(request[s])
  BY <1>1 DEF Creating
<1>3. \A id \in Id :
        /\ Owns(id)' <=> Owns(id)
        /\ PortsOf(containers'[id]) = PortsOf(containers[id])
  BY <1>1 DEF Owns, InMap
<1>4. ASSUME NEW port \in FreePorts, Allocate(port),
             request'[r].grpc = request[r].grpc, request'[r].adb = port
      PROVE  PortsInv'
  <2>1. PortsOf(request'[r]) \subseteq PortsOf(request[r]) \cup {port}
    BY <1>4 DEF PortsOf
  <2>2. port \in PortsOf(request'[r]) \/ port = NoPort
    BY <1>4 DEF PortsOf
  <2>3. port \notin usedPorts /\ usedPorts' = usedPorts \cup {port}
    BY <1>4 DEF FreePorts, Allocate
  <2>4. PortsOf(request[r]) \subseteq usedPorts
    BY <1>1 DEF IInv, PortsInv, HeldPortsReserved
  <2>5. HeldPortsReserved'
    BY <1>2, <1>3, <2>1, <2>3, <2>4 DEF IInv, PortsInv, HeldPortsReserved
  <2>6. \A s \in Request \ {r} : Creating(s) =>
          PortsOf(request'[r]) \cap PortsOf(request[s]) = {}
    BY <1>1, <2>1, <2>3 DEF IInv, PortsInv, ExclusivePorts, HeldPortsReserved
  <2>7. \A id \in Id : Owns(id) =>
          PortsOf(request'[r]) \cap PortsOf(containers[id]) = {}
    BY <1>1, <2>1, <2>3 DEF IInv, PortsInv, ExclusivePorts, HeldPortsReserved
  <2>8. ExclusivePorts'
    BY <1>2, <1>3, <2>6, <2>7 DEF IInv, PortsInv, ExclusivePorts
  <2> QED BY <2>5, <2>8 DEF PortsInv
<1>5. ASSUME Release({request[r].grpc}), request'[r].pc = "idle"
      PROVE  PortsInv'
  <2>1. ~Creating(r)'
    BY <1>5 DEF Creating, CreatePcs
  <2>2. ExclusivePorts'
    BY <1>2, <1>3, <2>1, OwnersGo DEF IInv
  <2>3. \A s \in Request \ {r} : Creating(s) => request[r].grpc \notin PortsOf(request[s])
    BY <1>1 DEF IInv, PortsInv, ExclusivePorts, PortsOf
  <2>4. \A id \in Id : Owns(id) => request[r].grpc \notin PortsOf(containers[id])
    BY <1>1 DEF IInv, PortsInv, ExclusivePorts, PortsOf
  <2>5. HeldPortsReserved'
    BY <1>2, <1>3, <1>5, <2>1, <2>3, <2>4
    DEF IInv, PortsInv, HeldPortsReserved, Release
  <2> QED BY <2>2, <2>5 DEF PortsInv
<1> QED BY <1>4, <1>5, AllocateADBFrame DEF IInv

LEMMA PortsReleasePorts ==
  ASSUME IInv, NEW r \in Request, ReleasePorts(r)
  PROVE  PortsInv'
<1>1. /\ \A s \in Request \ {r} : request'[s] = request[s]
      /\ request'[r].pc = "idle" /\ Creating(r)
      /\ UNCHANGED <<containers, released>>
      /\ usedPorts' = usedPorts \ PortsOf(request[r])
  BY ReturnFrame DEF IInv, ReleasePorts, Release, Creating, CreatePcs
<1>2. /\ ~Creating(r)'
      /\ \A s \in Request \ {r} : Creating(s)' <=> Creating(s)
      /\ \A id \in Id : Owns(id)' <=> Owns(id)
  BY <1>1 DEF Creating, CreatePcs, Owns, InMap
<1>3. ExclusivePorts'
  BY <1>1, <1>2, OwnersGo DEF IInv
<1>4. HeldPortsReserved'
  BY <1>1, <1>2 DEF IInv, PortsInv, ExclusivePorts, HeldPortsReserved
<1> QED BY <1>3, <1>4 DEF PortsInv

LEMMA PortsStoreInMap ==
  ASSUME IInv, NEW r \in Request, StoreInMap(r)
  PROVE  PortsInv'
<1> DEFINE new == request[r].id
<1>1. /\ \A s \in Request \ {r} : request'[s] = request[s]
      /\ request'[r].pc = "idle" /\ Creating(r)
      /\ UNCHANGED <<usedPorts, released>>
  BY ReturnFrame DEF IInv, StoreInMap, Creating, CreatePcs
<1>2. /\ ~Creating(r)'
      /\ \A s \in Request \ {r} :
           /\ Creating(s)' <=> Creating(s)
           /\ PortsOf(request'[s]) = PortsOf(request[s])
  BY <1>1 DEF Creating, CreatePcs
<1>3. new \in Id /\ containers \in [Id -> Entry]
  BY <1>1 DEF IInv, Typed, TypeOK, ActiveIds, Active, Creating, CreatePcs
<1>4. /\ \A id \in Id \ {new} : containers'[id] = containers[id]
      /\ PortsOf(containers'[new]) = PortsOf(request[r])
  BY <1>3 DEF StoreInMap, PortsOf
<1>5. \A id \in Id \ {new} :
        /\ Owns(id)' <=> Owns(id)
        /\ PortsOf(containers'[id]) = PortsOf(containers[id])
  BY <1>1, <1>4 DEF Owns, InMap
<1>6. HeldPortsReserved'
  BY <1>1, <1>2, <1>4, <1>5 DEF IInv, PortsInv, HeldPortsReserved
<1>7. ExclusivePorts'
  BY <1>1, <1>2, <1>4, <1>5 DEF IInv, PortsInv, ExclusivePorts
<1> QED BY <1>6, <1>7 DEF PortsInv

LEMMA PortsReleaseEntry ==
  ASSUME IInv, NEW r \in Request, ReleaseEntry(r)
  PROVE  PortsInv'
<1> DEFINE old == request[r].id
<1>1. /\ old \in Id /\ EarlyDelete(r)
      /\ UNCHANGED containers
      /\ usedPorts' = usedPorts \ PortsOf(containers[old])
      /\ released' = IF InMap(old) THEN released \cup {old} ELSE released
  BY DEF ReleaseEntry, Release, EarlyDelete, IInv, Typed, ActiveIds, Active
<1>2. old \notin released
  BY <1>1 DEF IInv, ApartInv, DeletesApart
<1>3. \A s \in Request : Creating(s)' => Creating(s) /\ PortsOf(request'[s]) = PortsOf(request[s])
  <2>1. ~AllocateADB(r)
    BY <1>1 DEF AllocateADB, EarlyDelete
  <2> QED
    BY <2>1, StepFrame DEF IInv, Step, DeleteSteps, Creating
<1>4. \A id \in Id :
        /\ Owns(id)' => Owns(id) /\ PortsOf(containers'[id]) = PortsOf(containers[id])
        /\ Owns(id)' /\ InMap(old) => id # old
  BY <1>1 DEF Owns, InMap
<1>5. ExclusivePorts'
  BY <1>3, <1>4, OwnersGo DEF IInv
<1>6. CASE InMap(old)
  <2>1. Owns(old)
    BY <1>2, <1>6 DEF Owns
  <2>2. HeldPortsReserved'
    BY <1>1, <1>3, <1>4, <1>6, <2>1 DEF IInv, PortsInv, ExclusivePorts, HeldPortsReserved
  <2> QED BY <1>5, <2>2 DEF PortsInv
<1>7. CASE ~InMap(old)
  <2>1. usedPorts' = usedPorts
    BY <1>1, <1>7 DEF IInv, DaemonInv, AbsentHasNoPorts
  <2> QED BY <1>3, <1>4, <2>1, OwnersGo DEF IInv, PortsInv
<1> QED BY <1>6, <1>7

\* Every other step of a request: owners go or stay, the pool is left alone.
LEMMA PortsOtherStep ==
  ASSUME IInv, NEW r \in Request, Step(r),
         ~AllocateADB(r), ~ReleasePorts(r), ~StoreInMap(r), ~ReleaseEntry(r)
  PROVE  PortsInv'
<1>1. UNCHANGED usedPorts
  BY DEF Step, CreateSteps, ChangeSteps, DeleteSteps, CreateInDocker, StartInDocker,
         Cleanup, InsertInDb, Mark, ChangeInDocker, Settle, Record, MarkRemoving,
         RemoveInDocker, Forget, DeleteFromDb
<1>2. \A s \in Request : Creating(s)' =>
        Creating(s) /\ PortsOf(request'[s]) = PortsOf(request[s])
  BY StepFrame DEF IInv, Creating
<1>3. \A id \in Id : Owns(id)' =>
        Owns(id) /\ PortsOf(containers'[id]) = PortsOf(containers[id])
  BY MapFrame DEF IInv, Owns
<1> QED BY <1>1, <1>2, <1>3, OwnersGo DEF IInv, PortsInv

LEMMA PortsBegin ==
  ASSUME IInv, NEW r \in Request, Begin(r)
  PROVE  PortsInv'
<1>1. PICK id \in Id :
        \/ \E enableADB \in BOOLEAN : AllocateGRPC(r, id, enableADB)
        \/ \E op \in {"start", "stop"} : BeginChange(r, op, id)
        \/ \E force \in BOOLEAN : BeginDelete(r, id, force)
  BY DEF Begin
<1>2. /\ UNCHANGED <<containers, released>>
      /\ \A s \in Request \ {r} : request'[s] = request[s]
  BY <1>1 DEF AllocateGRPC, BeginChange, BeginDelete, Begins, IInv, Typed, TypeOK
<1>3. \A s \in Request \ {r} :
        /\ Creating(s)' <=> Creating(s)
        /\ PortsOf(request'[s]) = PortsOf(request[s])
  BY <1>2 DEF Creating
<1>4. \A i \in Id :
        /\ Owns(i)' <=> Owns(i)
        /\ PortsOf(containers'[i]) = PortsOf(containers[i])
  BY <1>2 DEF Owns, InMap
<1>5. CASE \E enableADB \in BOOLEAN : AllocateGRPC(r, id, enableADB)
  <2>1. PICK port \in FreePorts :
          /\ Allocate(port)
          /\ request'[r].grpc = port /\ request'[r].adb = NoPort
    BY <1>5, BeginFrame DEF IInv
  <2>2. /\ PortsOf(request'[r]) \subseteq {port}
        /\ port \notin usedPorts /\ usedPorts' = usedPorts \cup {port}
    BY <2>1 DEF PortsOf, FreePorts, Allocate
  <2>3. HeldPortsReserved'
    BY <1>3, <1>4, <2>2 DEF IInv, PortsInv, HeldPortsReserved
  <2>4. \A s \in Request \ {r} : Creating(s) =>
          PortsOf(request'[r]) \cap PortsOf(request[s]) = {}
    BY <2>2 DEF IInv, PortsInv, HeldPortsReserved
  <2>5. \A i \in Id : Owns(i) => PortsOf(request'[r]) \cap PortsOf(containers[i]) = {}
    BY <2>2 DEF IInv, PortsInv, HeldPortsReserved
  <2>6. ExclusivePorts'
    BY <1>3, <1>4, <2>4, <2>5 DEF IInv, PortsInv, ExclusivePorts
  <2> QED BY <2>3, <2>6 DEF PortsInv
<1>6. CASE \/ \E op \in {"start", "stop"} : BeginChange(r, op, id)
           \/ \E force \in BOOLEAN : BeginDelete(r, id, force)
  <2>1. request'[r].pc \in {"mark", "mark_removing"} /\ UNCHANGED usedPorts
    BY <1>6, BeginFrame DEF IInv, BeginChange, BeginDelete, Begins
  <2>2. ~Creating(r)'
    BY <2>1 DEF Creating, CreatePcs
  <2> QED BY <1>3, <1>4, <2>1, <2>2, OwnersGo DEF IInv, PortsInv
<1> QED BY <1>1, <1>5, <1>6

\* A restart takes over the ports of running containers, which are apart.
LEMMA PortsRestart ==
  ASSUME IInv, Restart
  PROVE  ApartInv' /\ PortsInv'
<1>1. \A r \in Request : ~Creating(r)' /\ ~Deleting(r)' /\ ~EarlyDelete(r)'
  BY DEF Restart, Idle, Creating, CreatePcs, Deleting, DeletePcs, EarlyDelete
<1>2. \A id \in Id : docker[id] \in DockerContainer
  BY DEF IInv, Typed, TypeOK
<1>3. \A id \in Id : PortsOf(Synced(id)) =
        IF docker[id].state = "running" THEN PortsOf(docker[id]) ELSE {}
  BY <1>2, NoEntryPorts DEF Synced, PortsOf, NoEntry, NoPort, DockerContainer, DockerState
<1>4. CASE /\ containers' = [id \in Id |-> Synced(id)]
           /\ usedPorts' = UNION {Reserved(Synced(id)) : id \in Id}
  <2>1. \A id \in Id :
          /\ PortsOf(containers'[id]) = PortsOf(Synced(id))
          /\ PortsOf(containers'[id]) \subseteq usedPorts'
    BY <1>4 DEF Reserved
  <2>2. \A a, b \in Id : a # b => PortsOf(containers'[a]) \cap PortsOf(containers'[b]) = {}
    BY <1>3, <2>1 DEF IInv, DaemonInv, DaemonApart
  <2> QED
    BY <1>1, <2>1, <2>2
    DEF PortsInv, ExclusivePorts, HeldPortsReserved, ApartInv, CreatesApart, DeletesApart
<1>5. CASE containers' = [id \in Id |-> NoEntry]
  <2>1. \A id \in Id : ~Owns(id)'
    BY <1>5 DEF Owns, InMap, NoEntry
  <2> QED
    BY <1>1, <2>1
    DEF PortsInv, ExclusivePorts, HeldPortsReserved, ApartInv, CreatesApart, DeletesApart
<1> QED BY <1>4, <1>5 DEF Restart

LEMMA IInvInit == Init => IInv
<1> SUFFICES ASSUME Init PROVE IInv
  OBVIOUS
<1>1. \A r \in Request : ~Creating(r) /\ ~Deleting(r) /\ ~EarlyDelete(r)
  BY DEF Init, Idle, Creating, CreatePcs, Deleting, DeletePcs, EarlyDelete
<1>2. \A id \in Id : ~Owns(id)
  BY DEF Init, Owns, InMap, NoEntry
<1> QED
  BY <1>1, <1>2, TypedInit, DaemonInit
  DEF IInv, ApartInv, CreatesApart, DeletesApart, PortsInv, ExclusivePorts,
      HeldPortsReserved

LEMMA IInvNext ==
  ASSUME "repeat_delete" \notin Hazards, IInv, [Next]_vars
  PROVE  IInv'
<1>1. Typed' /\ DaemonInv'
  BY TypedNext, DaemonNext DEF IInv
<1>2. CASE \E r \in Request : Begin(r)
  BY <1>1, <1>2, ApartBegin, PortsBegin DEF IInv
<1>3. CASE \E r \in Request : Step(r)
  BY <1>1, <1>3, ApartStep, PortsAllocateADB, PortsReleasePorts, PortsStoreInMap,
     PortsReleaseEntry, PortsOtherStep
  DEF IInv
<1>4. CASE \E id \in Id : SelfExit(id) \/ LateCall(id)
  <2>1. UNCHANGED <<usedPorts, containers, request, released>>
    BY <1>4 DEF SelfExit, LateCall
  <2> QED
    BY <1>1, <2>1
    DEF IInv, ApartInv, CreatesApart, DeletesApart, PortsInv, ExclusivePorts,
        HeldPortsReserved, Owns, InMap, Creating, Deleting, EarlyDelete
<1>5. CASE Restart
  BY <1>1, <1>5, PortsRestart DEF IInv
<1>6. CASE UNCHANGED vars
  BY <1>1, <1>6
  DEF vars, IInv, ApartInv, CreatesApart, DeletesApart, PortsInv, ExclusivePorts,
      HeldPortsReserved, Owns, InMap, Creating, Deleting, EarlyDelete
<1> QED BY <1>2, <1>3, <1>4, <1>5, <1>6 DEF Next

\* No two owners hold the same port, for any number of requests, containers and
\* ports and whatever the daemon, the database and restarts do, as long as
\* clients do not delete a container twice.
THEOREM PortsAreExclusive ==
  ASSUME "repeat_delete" \notin Hazards
  PROVE  Spec => []ExclusivePorts
<1>1. IInv /\ [Next]_vars => IInv'
  BY IInvNext
<1>2. IInv => ExclusivePorts
  BY DEF IInv, PortsInv
<1> QED BY <1>1, <1>2, IInvInit, PTL DEF Spec

\* Under the same assumption every port that has an owner is marked as used, so
\* that Allocate never hands it out.
THEOREM HeldPortsAreReserved ==
  ASSUME "repeat_delete" \notin Hazards
  PROVE  Spec => []HeldPortsReserved
<1>1. IInv /\ [Next]_vars => IInv'
  BY IInvNext
<1>2. IInv => HeldPortsReserved
  BY DEF IInv, PortsInv
<1> QED BY <1>1, <1>2, IInvInit, PTL DEF Spec

-----------------------------------------------------------------------------
(***************************************************************************)
(* What the manager shows of its containers: no orphan in the daemon, no   *)
(* port without an owner, and a map that agrees with the daemon and with   *)
(* the database.                                                           *)
(*                                                                         *)
(* Most of it holds as long as clients do not name one container in two    *)
(* requests at once.  A step of a request then touches one container that  *)
(* no other request works on, and each invariant is a fact about a single  *)
(* container and the one request that has it in hand.                      *)
(***************************************************************************)

\* No two requests work on the same container.
Solo ==
  \A r, s \in Request :
    r # s /\ Active(r) /\ Active(s) => request[r].id # request[s].id

\* A create works on a container that the map does not hold, and that no
\* delete has dealt with.
CreateIsNew ==
  \A r \in Request :
    Creating(r) => ~InMap(request[r].id) /\ request[r].id \notin released

SoloInv == Solo /\ CreateIsNew

\* A delete that has been to the pool has given the ports of its entry back.
DeleteReleased ==
  \A r \in Request :
    request[r].pc \in {"docker_remove", "forget"} =>
      ~InMap(request[r].id) \/ request[r].id \in released

\* A create without an ADB port yet holds its gRPC port only.
NoAdbYet == \A r \in Request : request[r].pc = "allocate_adb" => request[r].adb = NoPort

LeakInv == DeleteReleased /\ NoAdbYet /\ NoPortLeak

\* A settled status of the map is the daemon's, whoever works on the container,
\* until the container moves by itself.
Faithful ==
  \A id \in Id : ~docker[id].moved =>
    /\ containers[id].status = "running" => docker[id].state = "running"
    /\ containers[id].status = "stopped" => docker[id].state \in {"created", "exited"}

\* While the daemon is asked to change a container, its status is not settled.
ChangeUnsettled ==
  \A r \in Request :
    request[r].pc \in {"docker_change", "settle", "release_entry", "docker_remove", "forget"} =>
      containers[request[r].id].status \notin {"running", "stopped"}

\* What the daemon has answered is still so when the code writes it down, unless
\* the container has moved by itself since.
ReplyStillTrue ==
  \A r \in Request : ~docker[request[r].id].moved =>
    /\ request[r].pc \in {"insert", "store"} => docker[request[r].id].state = "running"
    /\ request[r].pc = "settle" =>
         docker[request[r].id].state \in
           (IF request[r].op = "start" THEN {"running"} ELSE {"created", "exited"})

StatusInv == Faithful /\ ChangeUnsettled /\ ReplyStillTrue

\* Until the first restart the map has the port that the daemon was given.
PortAgrees ==
  restarts = 0 =>
    \A id \in Id : InMap(id) =>
      docker[id].grpc = containers[id].grpc /\ containers[id].grpc # NoPort

CreateBinds ==
  \A r \in Request :
    /\ Creating(r) => request[r].grpc # NoPort
    /\ request[r].pc \in {"docker_start", "insert", "store"} =>
         docker[request[r].id].grpc = request[r].grpc

AddressInv == PortAgrees /\ CreateBinds

\* Until the first restart an entry of the map has a document, with the status
\* of the entry unless a request is about to write it.
DocumentAgrees ==
  restarts = 0 =>
    \A id \in Id :
      /\ InMap(id) => InDb(id)
      /\ containers[id].status \in {"running", "stopped"} =>
           \/ db[id] = containers[id].status
           \/ \E r \in Request : request[r].pc = "record" /\ request[r].id = id

\* What a request is about to store or to record.
AboutToWrite ==
  restarts = 0 =>
    \A r \in Request :
      LET id == request[r].id IN
      /\ request[r].pc = "store" => db[id] = "running"
      /\ request[r].pc = "record" /\ InMap(id) => containers[id].status = Final(request[r].op)
      /\ request[r].pc = "db_delete" => ~InMap(id)

DatabaseInv == DocumentAgrees /\ AboutToWrite

\* The containers that requests and documents name were created, a create that
\* has not asked the daemon yet excepted.
NamedWasCreated ==
  /\ \A id \in Id : InDb(id) => docker[id].state # "none"
  /\ \A r \in Request :
       /\ Active(r) /\ ~Creating(r) => docker[request[r].id].state # "none"
       /\ request[r].pc \in {"allocate_adb", "docker_create"} =>
            docker[request[r].id].state = "none"

CreatesDiffer ==
  \A r, s \in Request :
    r # s /\ Creating(r) /\ Creating(s) => request[r].id # request[s].id

\* Containers are removed with force, and are gone when the code thinks so.
RemovalWorks ==
  \A r \in Request :
    /\ Deleting(r) \/ request[r].pc = "cleanup" => request[r].force
    /\ request[r].pc \in {"release", "forget"} => ~Exists(request[r].id)

\* No create is left to the daemon.
NoneRequested == \A id \in Id : docker[id].state # "requested"

OrphanInv == NamedWasCreated /\ CreatesDiffer /\ RemovalWorks /\ NoneRequested /\ NoOrphans

-----------------------------------------------------------------------------
(* A step of a request stays with its container *)

\* What a step of r does to its own record and to its container's neighbours.
LEMMA StepLocal ==
  ASSUME Typed, NEW r \in Request, Step(r)
  PROVE  /\ request[r].id \in Id /\ Active(r)
         /\ \A s \in Request \ {r} : request'[s] = request[s]
         /\ \/ request'[r] = Idle
            \/ /\ request'[r].id = request[r].id /\ request'[r].op = request[r].op
               /\ request'[r].grpc = request[r].grpc
               /\ request'[r].pc # "idle"
         /\ \A id \in Id \ {request[r].id} :
              /\ containers'[id] = containers[id] /\ docker'[id] = docker[id]
              /\ db'[id] = db[id]
              /\ id \in released' <=> id \in released
         /\ UNCHANGED restarts
<1>1. request[r].id \in Id /\ Active(r)
  BY DEF Typed, TypeOK, ActiveIds, Active, Step, CreateSteps, ChangeSteps, DeleteSteps,
         AllocateADB, CreateInDocker, StartInDocker, Cleanup, ReleasePorts, InsertInDb,
         StoreInMap, Mark, ChangeInDocker, Settle, Record, MarkRemoving, ReleaseEntry,
         RemoveInDocker, Forget, DeleteFromDb
<1>2. \A s \in Request \ {r} : request'[s] = request[s]
  BY StepFrame
<1>3. \/ request'[r] = Idle
      \/ /\ request'[r].id = request[r].id /\ request'[r].op = request[r].op
         /\ request'[r].grpc = request[r].grpc
         /\ request'[r].pc # "idle"
  <2>0. request[r] \in RequestState /\ request \in [Request -> RequestState]
    BY DEF Typed, TypeOK
  <2>1. ASSUME NEW pc \in Pcs \ {"idle"}, Goto(r, pc)
        PROVE  /\ request'[r].id = request[r].id /\ request'[r].op = request[r].op
               /\ request'[r].grpc = request[r].grpc
               /\ request'[r].pc # "idle"
    BY <2>0, <2>1 DEF Goto, RequestState
  <2>2. ASSUME Return(r)
        PROVE  request'[r] = Idle
    BY <2>2, ReturnFrame
  <2>3. ASSUME NEW port,
               request' = [request EXCEPT ![r] = [@ EXCEPT !.adb = port, !.pc = "docker_create"]]
        PROVE  /\ request'[r].id = request[r].id /\ request'[r].op = request[r].op
               /\ request'[r].grpc = request[r].grpc
               /\ request'[r].pc # "idle"
    <3>1. request'[r] = [request[r] EXCEPT !.adb = port, !.pc = "docker_create"]
      BY <2>0, <2>3
    <3> QED BY <2>0, <3>1 DEF RequestState
  <2>4. ASSUME request' = [request EXCEPT ![r] = [@ EXCEPT !.pc = "cleanup", !.force = TRUE]]
        PROVE  /\ request'[r].id = request[r].id /\ request'[r].op = request[r].op
               /\ request'[r].grpc = request[r].grpc
               /\ request'[r].pc # "idle"
    <3>1. request'[r] = [request[r] EXCEPT !.pc = "cleanup", !.force = TRUE]
      BY <2>0, <2>4
    <3> QED BY <2>0, <3>1 DEF RequestState
  <2>5. CASE CreateSteps(r)
    <3>1. \/ Return(r)
          \/ \E pc \in Pcs \ {"idle"} : Goto(r, pc)
          \/ \E port :
               request' = [request EXCEPT ![r] = [@ EXCEPT !.adb = port, !.pc = "docker_create"]]
          \/ request' = [request EXCEPT ![r] = [@ EXCEPT !.pc = "cleanup", !.force = TRUE]]
      BY <2>5 DEF CreateSteps, AllocateADB, CreateInDocker, StartInDocker, Cleanup,
                  ReleasePorts, InsertInDb, StoreInMap, Pcs, CreatePcs
    <3> QED BY <2>1, <2>2, <2>3, <2>4, <3>1
  <2>6. CASE ChangeSteps(r) \/ DeleteSteps(r)
    <3>1. \/ Return(r)
          \/ \E pc \in Pcs \ {"idle"} : Goto(r, pc)
      BY <2>6 DEF ChangeSteps, DeleteSteps, Mark, ChangeInDocker, Settle, Record,
                  MarkRemoving, ReleaseEntry, RemoveInDocker, Forget, DeleteFromDb,
                  Pcs, ChangePcs, DeletePcs
    <3> QED BY <2>1, <2>2, <3>1
  <2> QED BY <2>5, <2>6 DEF Step
<1>4. \A id \in Id \ {request[r].id} :
        /\ containers'[id] = containers[id] /\ docker'[id] = docker[id]
        /\ db'[id] = db[id]
        /\ id \in released' <=> id \in released
  <2>0. /\ containers \in [Id -> Entry] /\ docker \in [Id -> DockerContainer]
        /\ db \in [Id -> DbStatus]
    BY DEF Typed, TypeOK
  <2>1. \A id \in Id \ {request[r].id} : docker'[id] = docker[id]
    BY <2>0 DEF Docker, Step, CreateSteps, ChangeSteps, DeleteSteps,
         AllocateADB, CreateInDocker, StartInDocker, Cleanup, ReleasePorts, InsertInDb,
         StoreInMap, Mark, ChangeInDocker, Settle, Record, MarkRemoving, ReleaseEntry,
         RemoveInDocker, Forget, DeleteFromDb
  <2>2. \A id \in Id \ {request[r].id} : db'[id] = db[id]
    BY <2>0 DEF Write, Step, CreateSteps, ChangeSteps, DeleteSteps,
         AllocateADB, CreateInDocker, StartInDocker, Cleanup, ReleasePorts, InsertInDb,
         StoreInMap, Mark, ChangeInDocker, Settle, Record, MarkRemoving, ReleaseEntry,
         RemoveInDocker, Forget, DeleteFromDb
  <2>3. \A id \in Id \ {request[r].id} :
          containers'[id] = containers[id] /\ (id \in released' <=> id \in released)
    BY <2>0 DEF SetStatus, Step, CreateSteps, ChangeSteps, DeleteSteps,
         AllocateADB, CreateInDocker, StartInDocker, Cleanup, ReleasePorts, InsertInDb,
         StoreInMap, Mark, ChangeInDocker, Settle, Record, MarkRemoving, ReleaseEntry,
         RemoveInDocker, Forget, DeleteFromDb
  <2> QED BY <2>1, <2>2, <2>3
<1>5. UNCHANGED restarts
  BY DEF Step, CreateSteps, ChangeSteps, DeleteSteps,
         AllocateADB, CreateInDocker, StartInDocker, Cleanup, ReleasePorts, InsertInDb,
         StoreInMap, Mark, ChangeInDocker, Settle, Record, MarkRemoving, ReleaseEntry,
         RemoveInDocker, Forget, DeleteFromDb
<1> QED BY <1>1, <1>2, <1>3, <1>4, <1>5

\* What one call of the daemon does to the container it names.
LEMMA CallEffect ==
  ASSUME Typed, NEW r \in Request, Active(r),
         NEW call \in DockerCalls, NEW reply, Docker(call, r, reply)
  PROVE  LET d == docker[request[r].id]
             after == docker'[request[r].id]
             \* The call was carried out, as far as the reply tells.
             done == reply \in {"ok", "garbled"}
         IN /\ \/ done
               \/ after.state = d.state
               \/ reply = "error" /\ <<call, "lost_reply">> \in DockerFaults
               \/ reply = "error" /\ <<call, "late">> \in DockerFaults
            /\ after # d => DockerAccepts(call, request[r].id, request[r].force)
            /\ after.moved => d.moved
            /\ after.state = "requested" =>
                 d.state = "requested" \/ <<call, "late">> \in DockerFaults
            /\ done => DockerAccepts(call, request[r].id, request[r].force)
            /\ call # "create" => after.grpc = d.grpc /\ after.adb = d.adb
            /\ call = "create" /\ done =>
                 after.state = "created" /\ after.grpc = request[r].grpc
            /\ call = "create" => after.state \in {d.state, "requested", "created"}
            /\ call = "start" => after.state \in {d.state, "running"}
            /\ call = "start" /\ done => after.state = "running"
            /\ call = "stop" => after.state \in {d.state, "exited"}
            /\ call = "stop" /\ done => after.state \in {"created", "exited"}
            /\ call = "remove" => after.state \in {d.state, "removed"}
            /\ call = "remove" /\ done => after.state = "removed"
<1> DEFINE id == request[r].id
           new == DockerEffect(call, id, request[r].grpc, request[r].adb)
<1>1. id \in Id /\ docker \in [Id -> DockerContainer] /\ docker[id] \in DockerContainer
  BY DEF Typed, TypeOK, ActiveIds
<1>2. \/ docker'[id] = docker[id] /\ reply \in {"error", "refused"}
      \/ /\ docker'[id] = new /\ DockerAccepts(call, id, request[r].force)
         /\ \/ reply \in {"ok", "garbled"}
            \/ reply = "error" /\ <<call, "lost_reply">> \in DockerFaults
      \/ /\ docker'[id] = LeftToDaemon(call, r) /\ DockerAccepts(call, id, request[r].force)
         /\ reply = "error" /\ <<call, "late">> \in DockerFaults
  BY <1>1 DEF Docker
<1>3. CASE docker'[id] = docker[id] /\ reply \in {"error", "refused"}
  BY <1>3
<1>4. CASE /\ docker'[id] = new /\ DockerAccepts(call, id, request[r].force)
           /\ \/ reply \in {"ok", "garbled"}
              \/ reply = "error" /\ <<call, "lost_reply">> \in DockerFaults
  <2>1. CASE call = "create"
    <3>1. new.state = "created" /\ new.grpc = request[r].grpc /\ ~new.moved
      BY <2>1 DEF DockerEffect, NoContainer
    <3> QED BY <1>4, <2>1, <3>1
  <2>2. CASE call = "start"
    <3>1. /\ new.state = "running" /\ ~new.moved
          /\ new.grpc = docker[id].grpc /\ new.adb = docker[id].adb
      BY <1>1, <2>2 DEF DockerEffect, DockerContainer
    <3> QED BY <1>4, <2>2, <3>1
  <2>3. CASE call = "stop"
    <3>1. Exists(id)
      BY <1>4, <2>3 DEF DockerAccepts
    <3>2. /\ new.state = IF docker[id].state = "running" THEN "exited" ELSE docker[id].state
          /\ new.grpc = docker[id].grpc /\ new.adb = docker[id].adb /\ ~new.moved
      BY <1>1, <2>3 DEF DockerEffect, DockerContainer
    <3> QED BY <1>4, <2>3, <3>1, <3>2 DEF Exists
  <2>4. CASE call = "remove"
    <3>1. /\ new.state = "removed" /\ ~new.moved
          /\ new.grpc = docker[id].grpc /\ new.adb = docker[id].adb
      BY <1>1, <2>4 DEF DockerEffect, DockerContainer
    <3> QED BY <1>4, <2>4, <3>1
  <2> QED BY <2>1, <2>2, <2>3, <2>4 DEF DockerCalls
<1>5. CASE /\ docker'[id] = LeftToDaemon(call, r) /\ DockerAccepts(call, id, request[r].force)
           /\ reply = "error" /\ <<call, "late">> \in DockerFaults
  <2>1. CASE call = "create"
    <3>1. LeftToDaemon(call, r).state = "requested" /\ ~LeftToDaemon(call, r).moved
      BY <2>1 DEF LeftToDaemon, NoContainer
    <3> QED BY <1>5, <2>1, <3>1
  <2>2. CASE call # "create"
    <3>1. /\ LeftToDaemon(call, r).state = docker[id].state
          /\ LeftToDaemon(call, r).moved = docker[id].moved
          /\ LeftToDaemon(call, r).grpc = docker[id].grpc
          /\ LeftToDaemon(call, r).adb = docker[id].adb
      BY <1>1, <2>2 DEF LeftToDaemon, DockerContainer
    <3> QED BY <1>5, <2>2, <3>1
  <2> QED BY <2>1, <2>2
<1> QED BY <1>2, <1>3, <1>4, <1>5

\* Where a request that has just made a step comes from.
LEMMA PcFlow ==
  ASSUME Typed, NEW r \in Request, Step(r)
  PROVE  LET pc == request'[r].pc IN
         /\ pc \notin {"allocate_adb", "mark", "mark_removing"}
         /\ pc = "docker_create" => AllocateADB(r)
         /\ pc = "docker_start" => CreateInDocker(r) /\ Docker("create", r, "ok")
         /\ pc = "cleanup" => StartInDocker(r) /\ request'[r].force
         /\ pc = "release" =>
              \/ CreateInDocker(r) /\ \E reply \in {"error", "refused"} : Docker("create", r, reply)
              \/ Cleanup(r)
         /\ pc = "insert" => StartInDocker(r) /\ Docker("start", r, "ok")
         /\ pc = "store" => InsertInDb(r)
         /\ pc = "docker_change" => Mark(r)
         /\ pc = "settle" => ChangeInDocker(r) /\ Docker(request[r].op, r, "ok")
         /\ pc = "record" => Settle(r)
         /\ pc = "release_entry" => MarkRemoving(r)
         /\ pc = "docker_remove" => ReleaseEntry(r)
         /\ pc = "forget" =>
              RemoveInDocker(r) /\ \E reply \in {"ok", "refused"} : Docker("remove", r, reply)
         /\ pc = "db_delete" => Forget(r)
<1>0. request[r] \in RequestState /\ request \in [Request -> RequestState]
  BY DEF Typed, TypeOK
<1>1. \A pc : Goto(r, pc) => request'[r].pc = pc
  BY <1>0 DEF Goto, RequestState
<1>2. Return(r) => request'[r].pc = "idle"
  BY ReturnFrame
<1>3. CASE AllocateADB(r)
  <2>1. request'[r].pc \in {"docker_create", "idle"}
    BY <1>3, AllocateADBFrame
  <2> QED BY <1>3, <2>1
<1>4. CASE CreateInDocker(r)
  <2>1. \/ request'[r].pc = "docker_start" /\ Docker("create", r, "ok")
        \/ /\ request'[r].pc = "release"
           /\ \E reply \in {"error", "refused"} : Docker("create", r, reply)
        \/ request'[r].pc = "idle"
    BY <1>1, <1>2, <1>4 DEF CreateInDocker
  <2> QED BY <1>4, <2>1
<1>5. CASE StartInDocker(r)
  <2>1. CASE Docker("start", r, "ok") /\ Goto(r, "insert")
    BY <1>1, <1>5, <2>1
  <2>2. CASE request' = [request EXCEPT ![r] = [@ EXCEPT !.pc = "cleanup", !.force = TRUE]]
    <3>1. request'[r] = [request[r] EXCEPT !.pc = "cleanup", !.force = TRUE]
      BY <1>0, <2>2
    <3>2. request'[r].pc = "cleanup" /\ request'[r].force
      BY <1>0, <3>1 DEF RequestState
    <3> QED BY <1>5, <3>2
  <2> QED BY <1>5, <2>1, <2>2 DEF StartInDocker
<1>6. CASE Cleanup(r)
  BY <1>1, <1>6 DEF Cleanup
<1>7. CASE ReleasePorts(r) \/ StoreInMap(r) \/ Record(r) \/ DeleteFromDb(r)
  BY <1>2, <1>7 DEF ReleasePorts, StoreInMap, Record, DeleteFromDb
<1>8. CASE InsertInDb(r)
  BY <1>1, <1>8 DEF InsertInDb
<1>9. CASE Mark(r)
  BY <1>1, <1>9 DEF Mark
<1>10. CASE ChangeInDocker(r)
  <2>1. \/ request'[r].pc = "settle" /\ Docker(request[r].op, r, "ok")
        \/ request'[r].pc = "idle"
    BY <1>1, <1>2, <1>10 DEF ChangeInDocker
  <2> QED BY <1>10, <2>1
<1>11. CASE Settle(r)
  BY <1>1, <1>11 DEF Settle
<1>12. CASE MarkRemoving(r)
  BY <1>1, <1>12 DEF MarkRemoving
<1>13. CASE ReleaseEntry(r)
  BY <1>1, <1>13 DEF ReleaseEntry
<1>14. CASE RemoveInDocker(r)
  <2>1. \/ /\ request'[r].pc = "forget"
           /\ \E reply \in {"ok", "refused"} : Docker("remove", r, reply)
        \/ request'[r].pc = "idle"
    BY <1>1, <1>2, <1>14 DEF RemoveInDocker
  <2> QED BY <1>14, <2>1
<1>15. CASE Forget(r)
  BY <1>1, <1>15 DEF Forget
<1> QED
  BY <1>3, <1>4, <1>5, <1>6, <1>7, <1>8, <1>9, <1>10, <1>11, <1>12, <1>13, <1>14, <1>15
  DEF Step, CreateSteps, ChangeSteps, DeleteSteps

\* While nobody else works on a request's container, nobody else changes it.
LEMMA OthersKeep ==
  ASSUME Typed, Solo, NEW r \in Request, Step(r),
         NEW s \in Request \ {r}, Active(s)'
  PROVE  LET id == request[s].id IN
         /\ Active(s) /\ id \in Id /\ request'[s] = request[s]
         /\ containers'[id] = containers[id] /\ docker'[id] = docker[id]
         /\ db'[id] = db[id]
         /\ id \in released' <=> id \in released
<1>1. Active(s) /\ request'[s] = request[s]
  BY StepLocal DEF Active
<1>2. request[s].id \in Id /\ request[s].id # request[r].id
  BY <1>1, StepLocal DEF Solo, Typed, ActiveIds
<1> QED BY <1>1, <1>2, StepLocal

-----------------------------------------------------------------------------
(* One request for each container *)

LEMMA SoloStep ==
  ASSUME Typed, SoloInv, NEW r \in Request, Step(r)
  PROVE  SoloInv'
<1> USE DEF SoloInv
<1> DEFINE id == request[r].id
<1>1. Solo'
  <2>1. \A s \in Request : Active(s)' => Active(s) /\ request'[s].id = request[s].id
    BY StepLocal DEF Active, Idle
  <2> QED BY <2>1 DEF Solo
<1>2. ASSUME NEW s \in Request \ {r}, Active(s)'
      PROVE  Creating(s)' => (~InMap(request[s].id) /\ request[s].id \notin released)'
  <2>1. Active(s) /\ request'[s] = request[s] /\ request[s].id \in Id
    BY <1>2, OthersKeep
  <2>2. /\ containers'[request[s].id] = containers[request[s].id]
        /\ docker'[request[s].id] = docker[request[s].id]
        /\ request[s].id \in released' <=> request[s].id \in released
    BY <1>2, OthersKeep
  <2> QED BY <2>1, <2>2 DEF CreateIsNew, Creating, InMap
<1>3. Creating(r)' => (~InMap(request[r].id) /\ request[r].id \notin released)'
  <2>1. SUFFICES ASSUME Creating(r)'
                 PROVE  containers'[id].status = "absent" /\ id \notin released'
    BY StepFrame DEF InMap
  <2>2. ~InMap(id) /\ id \notin released /\ id \in Id
    BY <2>1, StepFrame, StepLocal DEF CreateIsNew
  <2>3. request[r].pc # "store"
    <3>1. CASE StoreInMap(r)
      BY <2>1, <3>1, ReturnFrame DEF StoreInMap, Creating, CreatePcs
    <3>2. CASE ~StoreInMap(r)
      BY <3>2 DEF Step, CreateSteps, ChangeSteps, DeleteSteps,
         AllocateADB, CreateInDocker, StartInDocker, Cleanup, ReleasePorts, InsertInDb,
         Mark, ChangeInDocker, Settle, Record, MarkRemoving, ReleaseEntry,
         RemoveInDocker, Forget, DeleteFromDb
    <3> QED BY <3>1, <3>2
  <2> QED BY <2>2, <2>3, MapFrame DEF InMap
<1>4. CreateIsNew'
  BY <1>2, <1>3 DEF CreateIsNew, Creating, CreatePcs, Active
<1> QED BY <1>1, <1>4

\* A request begins alone, and a create begins with a new container.
LEMMA BeginLocal ==
  ASSUME Typed, NEW r \in Request, Begin(r)
  PROVE  /\ ~Active(r)
         /\ UNCHANGED <<containers, docker, db, released, restarts>>
         /\ \A s \in Request \ {r} : request'[s] = request[s]
         /\ request'[r].id \in Id
         /\ request'[r].pc \in {"allocate_adb", "docker_create", "mark", "mark_removing"}
         /\ Creating(r)' =>
              /\ docker[request'[r].id].state = "none" /\ ~BusyFor(r, request'[r].id)
              /\ request'[r].grpc \in Port /\ request'[r].adb = NoPort
         /\ ~Creating(r)' =>
              /\ InMap(request'[r].id) \/ InDb(request'[r].id)
              /\ "overlap" \notin Hazards => ~BusyFor(r, request'[r].id)
         /\ Deleting(r)' /\ "unforced" \notin Hazards => request'[r].force
<1>0. request \in [Request -> RequestState]
  BY DEF Typed, TypeOK
<1>1. PICK id \in Id :
        \/ \E enableADB \in BOOLEAN : AllocateGRPC(r, id, enableADB)
        \/ \E op \in {"start", "stop"} : BeginChange(r, op, id)
        \/ \E force \in BOOLEAN : BeginDelete(r, id, force)
  BY DEF Begin
<1>2. /\ ~Active(r)
      /\ UNCHANGED <<containers, docker, db, released, restarts>>
      /\ \A s \in Request \ {r} : request'[s] = request[s]
  BY <1>0, <1>1 DEF AllocateGRPC, BeginChange, BeginDelete, Begins
<1>3. CASE \E enableADB \in BOOLEAN : AllocateGRPC(r, id, enableADB)
  <2>0. PICK enableADB \in BOOLEAN : AllocateGRPC(r, id, enableADB)
    BY <1>3
  <2>1. /\ request'[r].pc \in {"allocate_adb", "docker_create"}
        /\ request'[r].id = id
        /\ request'[r].grpc \in FreePorts /\ request'[r].adb = NoPort
    BY <2>0, BeginFrame
  <2>3. request'[r].grpc \in Port /\ docker[id].state = "none" /\ ~BusyFor(r, id)
    BY <2>0, <2>1 DEF AllocateGRPC, FreePorts
  <2>2. Creating(r)' /\ ~Deleting(r)'
    BY <2>1 DEF Creating, Deleting, CreatePcs, DeletePcs
  <2> QED BY <1>2, <2>1, <2>2, <2>3
<1>4. ASSUME NEW op, NEW pc \in {"mark", "mark_removing"}, NEW force, Begins(r, op, id, pc, force),
             pc = "mark_removing" /\ "unforced" \notin Hazards => force
      PROVE  /\ request'[r].pc = pc /\ request'[r].id = id /\ ~Creating(r)'
             /\ InMap(id) \/ InDb(id)
             /\ "overlap" \notin Hazards => ~BusyFor(r, id)
             /\ Deleting(r)' /\ "unforced" \notin Hazards => request'[r].force
  <2>1. request'[r] = [Idle EXCEPT !.op = op, !.id = id, !.pc = pc, !.force = force]
    BY <1>0, <1>4 DEF Begins
  <2>2. request'[r].pc = pc /\ request'[r].id = id /\ request'[r].force = force
    BY <2>1 DEF Idle
  <2>3. ~Creating(r)' /\ (Deleting(r)' => pc = "mark_removing")
    BY <2>2 DEF Creating, Deleting, CreatePcs, DeletePcs
  <2> QED BY <1>4, <2>2, <2>3 DEF Begins
<1>5. CASE \E op \in {"start", "stop"} : BeginChange(r, op, id)
  <2>1. PICK op \in {"start", "stop"} : Begins(r, op, id, "mark", FALSE)
    BY <1>5 DEF BeginChange
  <2> QED BY <1>2, <1>4, <2>1
<1>6. CASE \E force \in BOOLEAN : BeginDelete(r, id, force)
  <2>1. PICK force \in BOOLEAN : Begins(r, "delete", id, "mark_removing", force)
                                  /\ ("unforced" \notin Hazards => force)
    BY <1>6 DEF BeginDelete
  <2> QED BY <1>2, <1>4, <2>1
<1> QED BY <1>1, <1>3, <1>5, <1>6

LEMMA SoloBegin ==
  ASSUME Typed, DaemonInv, SoloInv, "overlap" \notin Hazards,
         NEW r \in Request, Begin(r)
  PROVE  SoloInv'
<1> USE DEF SoloInv
<1>1. /\ UNCHANGED <<containers, docker, released>>
      /\ \A s \in Request \ {r} : request'[s] = request[s]
      /\ ~BusyFor(r, request'[r].id) /\ request'[r].id \in Id
      /\ Creating(r)' => docker[request'[r].id].state = "none"
  BY BeginLocal
<1>2. Solo'
  BY <1>1 DEF Solo, BusyFor, Active
<1>3. CreateIsNew'
  <2>1. Creating(r)' => ~InMap(request'[r].id) /\ request'[r].id \notin released
    BY <1>1 DEF DaemonInv, DaemonKnows
  <2> QED BY <1>1, <2>1 DEF CreateIsNew, Creating, InMap
<1> QED BY <1>2, <1>3

LEMMA SoloNext ==
  ASSUME Typed, DaemonInv, SoloInv, "overlap" \notin Hazards, [Next]_vars
  PROVE  SoloInv'
<1> USE DEF SoloInv
<1>1. CASE \E r \in Request : Begin(r)
  BY <1>1, SoloBegin
<1>2. CASE \E r \in Request : Step(r)
  BY <1>2, SoloStep
<1>3. CASE \E id \in Id : SelfExit(id) \/ LateCall(id)
  BY <1>3 DEF SelfExit, LateCall, Solo, CreateIsNew, Creating, Active, InMap
<1>4. CASE Restart
  BY <1>4 DEF Restart, Idle, Solo, CreateIsNew, Active, Creating, CreatePcs
<1>5. CASE UNCHANGED vars
  BY <1>5 DEF vars, Solo, CreateIsNew, Creating, Active, InMap
<1> QED BY <1>1, <1>2, <1>3, <1>4, <1>5 DEF Next

SoloIInv == Typed /\ DaemonInv /\ SoloInv

LEMMA SoloIInvInit == Init => SoloIInv
BY TypedInit, DaemonInit
DEF Init, Idle, SoloIInv, SoloInv, Solo, CreateIsNew, Active, Creating, CreatePcs

LEMMA SoloIInvNext ==
  ASSUME "overlap" \notin Hazards
  PROVE  SoloIInv /\ [Next]_vars => SoloIInv'
BY TypedNext, DaemonNext, SoloNext DEF SoloIInv

-----------------------------------------------------------------------------
(* Ports that are marked as used have an owner *)

Owned(port) ==
  \/ \E r \in Request : Creating(r) /\ port \in PortsOf(request[r])
  \/ \E id \in Id : Owns(id) /\ port \in PortsOf(containers[id])

LEMMA NoPortLeakOwned == NoPortLeak <=> \A port \in usedPorts : Owned(port)
BY DEF NoPortLeak, Owned

\* Owners that stay, and keep what they have, leave nothing without an owner.
LEMMA OwnersStay ==
  ASSUME NoPortLeak, UNCHANGED usedPorts,
         \A r \in Request : Creating(r) =>
           Creating(r)' /\ PortsOf(request'[r]) = PortsOf(request[r]),
         \A id \in Id : Owns(id) =>
           Owns(id)' /\ PortsOf(containers'[id]) = PortsOf(containers[id])
  PROVE  NoPortLeak'
<1>1. \A port \in usedPorts' : Owned(port)'
  BY NoPortLeakOwned DEF Owned
<1> QED BY <1>1 DEF NoPortLeak, Owned

LEMMA LeakAllocateADB ==
  ASSUME Typed, LeakInv, NEW r \in Request, AllocateADB(r)
  PROVE  NoPortLeak'
<1>1. /\ request[r].pc = "allocate_adb" /\ request[r].adb = NoPort /\ Creating(r)
      /\ UNCHANGED <<containers, released>>
  BY DEF AllocateADB, LeakInv, NoAdbYet, Creating, CreatePcs
<1>2. \A s \in Request \ {r} : request'[s] = request[s]
  BY StepFrame DEF Step, CreateSteps
<1>3. \A port \in usedPorts : Owned(port)
  BY NoPortLeakOwned DEF LeakInv
<1>4. \A port : Owned(port) /\ port \notin PortsOf(request[r]) => Owned(port)'
  BY <1>1, <1>2 DEF Owned, Creating, Owns, InMap
<1>5. PortsOf(request[r]) \subseteq {request[r].grpc}
  BY <1>1 DEF PortsOf
<1>6. CASE \E port \in FreePorts :
              /\ Allocate(port)
              /\ request'[r].pc = "docker_create" /\ request'[r].id = request[r].id
              /\ request'[r].grpc = request[r].grpc /\ request'[r].adb = port
  <2>1. PICK port \in FreePorts :
              /\ usedPorts' = usedPorts \cup {port}
              /\ request'[r].pc = "docker_create"
              /\ request'[r].grpc = request[r].grpc /\ request'[r].adb = port
    BY <1>6 DEF Allocate
  <2>2. port # NoPort
    BY PortAssumption DEF FreePorts, Port, NoPort
  <2>3. Creating(r)' /\ PortsOf(request'[r]) = PortsOf(request[r]) \cup {port}
    BY <1>1, <2>1, <2>2 DEF Creating, CreatePcs, PortsOf
  <2>4. \A p \in usedPorts' : Owned(p)'
    BY <1>3, <1>4, <2>1, <2>3 DEF Owned
  <2> QED BY <2>4 DEF NoPortLeak, Owned
<1>7. CASE Release({request[r].grpc})
  <2>1. \A p \in usedPorts' : Owned(p)'
    BY <1>3, <1>4, <1>5, <1>7 DEF Release
  <2> QED BY <2>1 DEF NoPortLeak, Owned
<1> QED BY <1>6, <1>7, AllocateADBFrame

LEMMA LeakReleasePorts ==
  ASSUME Typed, LeakInv, NEW r \in Request, ReleasePorts(r)
  PROVE  NoPortLeak'
<1>1. /\ usedPorts' = usedPorts \ PortsOf(request[r])
      /\ UNCHANGED <<containers, released>>
      /\ \A s \in Request \ {r} : request'[s] = request[s]
  BY ReturnFrame DEF ReleasePorts, Release
<1>2. \A port \in usedPorts : Owned(port)
  BY NoPortLeakOwned DEF LeakInv
<1>3. \A port \in usedPorts' : Owned(port)'
  BY <1>1, <1>2 DEF Owned, Creating, Owns, InMap
<1> QED BY <1>3 DEF NoPortLeak, Owned

LEMMA LeakStoreInMap ==
  ASSUME Typed, SoloInv, LeakInv, NEW r \in Request, StoreInMap(r)
  PROVE  NoPortLeak'
<1>0. PICK id \in Id : id = request[r].id
  BY DEF StoreInMap, Typed, ActiveIds, Active
<1>1. /\ Creating(r)
      /\ UNCHANGED <<usedPorts, released>>
      /\ \A s \in Request \ {r} : request'[s] = request[s]
      /\ containers' = [containers EXCEPT ![id] =
           [status |-> "running", grpc |-> request[r].grpc, adb |-> request[r].adb]]
  BY <1>0, ReturnFrame DEF StoreInMap, Creating, CreatePcs
<1>2. ~InMap(id) /\ id \notin released
  BY <1>0, <1>1 DEF SoloInv, CreateIsNew
<1>3. /\ containers'[id].status = "running" /\ PortsOf(containers'[id]) = PortsOf(request[r])
      /\ \A i \in Id \ {id} : containers'[i] = containers[i]
  BY <1>1 DEF PortsOf, Typed, TypeOK
<1>4. Owns(id)' /\ \A i \in Id : Owns(i) => Owns(i)' /\ containers'[i] = containers[i]
  BY <1>1, <1>2, <1>3 DEF Owns, InMap
<1>5. \A port \in usedPorts : Owned(port)
  BY NoPortLeakOwned DEF LeakInv
<1>6. \A port \in PortsOf(request[r]) : Owned(port)'
  BY <1>1, <1>3, <1>4 DEF Owned
<1>7. \A port : Owned(port) => Owned(port)' \/ port \in PortsOf(request[r])
  BY <1>1, <1>4 DEF Owned, Creating
<1> QED BY <1>1, <1>5, <1>6, <1>7 DEF NoPortLeak, Owned

LEMMA LeakReleaseEntry ==
  ASSUME Typed, LeakInv, NEW r \in Request, ReleaseEntry(r)
  PROVE  NoPortLeak'
<1> DEFINE id == request[r].id
<1>1. /\ usedPorts' = usedPorts \ PortsOf(containers[id])
      /\ UNCHANGED containers
      /\ released' \subseteq released \cup {id}
      /\ \A s \in Request : Creating(s) => Creating(s)' /\ request'[s] = request[s]
  BY GotoFrame DEF ReleaseEntry, Release, Creating, CreatePcs
<1>2. \A port \in usedPorts : Owned(port)
  BY NoPortLeakOwned DEF LeakInv
<1>3. \A port \in usedPorts' : Owned(port)'
  BY <1>1, <1>2 DEF Owned, Owns, InMap
<1> QED BY <1>3 DEF NoPortLeak, Owned

LEMMA LeakForget ==
  ASSUME Typed, LeakInv, NEW r \in Request, Forget(r)
  PROVE  NoPortLeak'
<1> DEFINE id == request[r].id
<1>1. /\ UNCHANGED <<usedPorts, released>>
      /\ containers' = [containers EXCEPT ![id] = NoEntry]
      /\ ~Owns(id)
      /\ \A s \in Request : Creating(s) => Creating(s)' /\ request'[s] = request[s]
  BY GotoFrame
  DEF Forget, Creating, CreatePcs, LeakInv, DeleteReleased, Owns
<1>2. \A i \in Id : Owns(i) => Owns(i)' /\ containers'[i] = containers[i]
  BY <1>1 DEF Owns, InMap, Typed, TypeOK
<1> QED BY <1>1, <1>2, OwnersStay DEF LeakInv

\* A create goes on after each of these steps.
LEMMA CreateGoesOn ==
  ASSUME Typed, NEW r \in Request, StartInDocker(r) \/ Cleanup(r) \/ InsertInDb(r)
  PROVE  Creating(r)'
<1>1. request \in [Request -> RequestState]
  BY DEF Typed, TypeOK
<1>2. CASE \E pc \in {"insert", "release", "store"} : Goto(r, pc)
  BY <1>2, GotoFrame DEF Creating, CreatePcs
<1>3. CASE request' = [request EXCEPT ![r] = [@ EXCEPT !.pc = "cleanup", !.force = TRUE]]
  <2>1. request'[r] = [request[r] EXCEPT !.pc = "cleanup", !.force = TRUE]
    BY <1>1, <1>3
  <2>2. request'[r].pc = "cleanup"
    BY <1>1, <2>1 DEF RequestState
  <2> QED BY <2>2 DEF Creating, CreatePcs
<1> QED BY <1>2, <1>3 DEF StartInDocker, Cleanup, InsertInDb

\* The steps that do not touch the pool, but for a create that ends after a
\* garbled reply and a delete that drops its entry, leave every owner as it is.
LEMMA QuietOwners ==
  ASSUME Typed, NEW r \in Request,
         \/ CreateInDocker(r) /\ Active(r)'
         \/ StartInDocker(r) \/ Cleanup(r) \/ InsertInDb(r)
         \/ ChangeSteps(r) \/ MarkRemoving(r) \/ RemoveInDocker(r) \/ DeleteFromDb(r)
  PROVE  /\ UNCHANGED usedPorts
         /\ \A s \in Request :
              /\ Creating(s)' <=> Creating(s)
              /\ Creating(s) => PortsOf(request'[s]) = PortsOf(request[s])
         /\ \A id \in Id :
              /\ Owns(id)' <=> Owns(id)
              /\ Owns(id) => PortsOf(containers'[id]) = PortsOf(containers[id])
<1>0. Step(r) /\ request \in [Request -> RequestState] /\ request[r].id \in Id
  BY StepLocal DEF Step, CreateSteps, DeleteSteps, Typed, TypeOK
<1>1. UNCHANGED <<usedPorts, released>>
  BY DEF CreateInDocker, StartInDocker, Cleanup, InsertInDb, ChangeSteps, Mark,
         ChangeInDocker, Settle, Record, MarkRemoving, RemoveInDocker, DeleteFromDb
<1>2. \A id \in Id :
        /\ Owns(id)' <=> Owns(id)
        /\ Owns(id) => PortsOf(containers'[id]) = PortsOf(containers[id])
  <2>1. CASE Mark(r) \/ Settle(r) \/ MarkRemoving(r)
    <3>1. PICK status \in Status : SetStatus(request[r].id, status)
      BY <2>1 DEF Mark, Settle, MarkRemoving, Transient, Final, Status
    <3> QED BY <1>0, <1>1, <3>1, SetStatusFrame DEF Owns
  <2>2. CASE UNCHANGED containers
    BY <1>1, <2>2 DEF Owns, InMap
  <2> QED
    BY <2>1, <2>2
    DEF CreateInDocker, StartInDocker, Cleanup, InsertInDb, ChangeSteps,
        ChangeInDocker, Record, RemoveInDocker, DeleteFromDb
<1>3. Creating(r) => Creating(r)' /\ ~AllocateADB(r)
  <2>1. Creating(r) => ~AllocateADB(r)
    BY DEF AllocateADB, CreateInDocker, StartInDocker, Cleanup, InsertInDb, ChangeSteps,
           Mark, ChangeInDocker, Settle, Record, MarkRemoving, RemoveInDocker, DeleteFromDb
  <2>2. CASE CreateInDocker(r) /\ Active(r)'
    <3>1. PICK pc \in {"docker_start", "release"} : Goto(r, pc)
      BY <2>2, ReturnFrame DEF CreateInDocker, Active
    <3> QED BY <2>1, <3>1, GotoFrame DEF Creating, CreatePcs
  <2>3. CASE StartInDocker(r) \/ Cleanup(r) \/ InsertInDb(r)
    BY <2>1, <2>3, CreateGoesOn
  <2>4. CASE ChangeSteps(r) \/ MarkRemoving(r) \/ RemoveInDocker(r) \/ DeleteFromDb(r)
    BY <2>4
    DEF ChangeSteps, Mark, ChangeInDocker, Settle, Record, MarkRemoving, RemoveInDocker,
        DeleteFromDb, Creating, CreatePcs
  <2> QED BY <2>2, <2>3, <2>4
<1>4. \A s \in Request :
        /\ Creating(s)' <=> Creating(s)
        /\ Creating(s) => PortsOf(request'[s]) = PortsOf(request[s])
  BY <1>0, <1>3, StepFrame DEF Creating
<1> QED BY <1>1, <1>2, <1>4

LEMMA LeakOtherStep ==
  ASSUME Typed, LeakInv, <<"create", "garbled">> \notin DockerFaults,
         NEW r \in Request,
         \/ CreateInDocker(r) \/ StartInDocker(r) \/ Cleanup(r) \/ InsertInDb(r)
         \/ ChangeSteps(r) \/ MarkRemoving(r) \/ RemoveInDocker(r) \/ DeleteFromDb(r)
  PROVE  NoPortLeak'
<1>1. ASSUME CreateInDocker(r)
      PROVE  Active(r)'
  <2>1. ~Docker("create", r, "garbled")
    BY DEF Docker
  <2>2. PICK pc \in {"docker_start", "release"} : Goto(r, pc)
    BY <1>1, <2>1 DEF CreateInDocker
  <2> QED BY <2>2, GotoFrame DEF Active
<1> QED BY <1>1, QuietOwners, OwnersStay DEF LeakInv

LEMMA LeakStep ==
  ASSUME SoloIInv, LeakInv, <<"create", "garbled">> \notin DockerFaults,
         NEW r \in Request, Step(r)
  PROVE  LeakInv'
<1> USE DEF SoloIInv, SoloInv, LeakInv
<1>1. NoPortLeak'
  BY LeakAllocateADB, LeakReleasePorts, LeakStoreInMap, LeakReleaseEntry, LeakForget,
     LeakOtherStep
  DEF Step, CreateSteps, DeleteSteps
<1>2. NoAdbYet'
  BY PcFlow, StepLocal DEF NoAdbYet
<1>3. ASSUME NEW s \in Request \ {r}, request'[s].pc \in {"docker_remove", "forget"}
      PROVE  (~InMap(request[s].id) \/ request[s].id \in released)'
  BY <1>3, OthersKeep DEF DeleteReleased, InMap, Active
<1>4. ASSUME request'[r].pc = "docker_remove"
      PROVE  (~InMap(request[r].id) \/ request[r].id \in released)'
  <2>1. ReleaseEntry(r) /\ request'[r].id = request[r].id
    BY <1>4, PcFlow, StepLocal DEF Idle
  <2> QED BY <2>1 DEF ReleaseEntry, InMap
<1>5. ASSUME request'[r].pc = "forget"
      PROVE  (~InMap(request[r].id) \/ request[r].id \in released)'
  <2>1. RemoveInDocker(r) /\ request'[r].id = request[r].id
    BY <1>5, PcFlow, StepLocal DEF Idle
  <2> QED BY <2>1 DEF RemoveInDocker, DeleteReleased, InMap
<1>6. DeleteReleased'
  BY <1>3, <1>4, <1>5 DEF DeleteReleased
<1> QED BY <1>1, <1>2, <1>6

LEMMA LeakBegin ==
  ASSUME Typed, LeakInv, NEW r \in Request, Begin(r)
  PROVE  LeakInv'
<1> USE DEF LeakInv
<1>1. /\ ~Active(r)
      /\ UNCHANGED <<containers, released>>
      /\ \A s \in Request \ {r} : request'[s] = request[s]
      /\ request'[r].pc \in {"allocate_adb", "docker_create", "mark", "mark_removing"}
  BY BeginLocal
<1>2. request'[r].pc = "allocate_adb" => request'[r].adb = NoPort
  BY BeginLocal DEF Creating, CreatePcs
<1>3. DeleteReleased' /\ NoAdbYet'
  BY <1>1, <1>2 DEF DeleteReleased, NoAdbYet, InMap
<1>4. ~Creating(r)
  BY <1>1 DEF Active, Creating, CreatePcs
<1>5. PICK id \in Id :
        \/ \E enableADB \in BOOLEAN : AllocateGRPC(r, id, enableADB)
        \/ \E op \in {"start", "stop"} : BeginChange(r, op, id)
        \/ \E force \in BOOLEAN : BeginDelete(r, id, force)
  BY DEF Begin
<1>6. CASE \E enableADB \in BOOLEAN : AllocateGRPC(r, id, enableADB)
  <2>1. PICK port \in FreePorts :
          /\ usedPorts' = usedPorts \cup {port}
          /\ request'[r].pc \in {"allocate_adb", "docker_create"}
          /\ request'[r].grpc = port
    BY <1>6, BeginFrame DEF Allocate
  <2>2. port # NoPort
    BY PortAssumption DEF FreePorts, Port, NoPort
  <2>3. Creating(r)' /\ port \in PortsOf(request'[r])
    BY <2>1, <2>2 DEF Creating, CreatePcs, PortsOf
  <2>4. \A p \in usedPorts : Owned(p)
    BY NoPortLeakOwned
  <2>5. \A p \in usedPorts' : Owned(p)'
    BY <1>1, <1>4, <2>1, <2>3, <2>4 DEF Owned, Creating, Owns, InMap
  <2>6. NoPortLeak'
    BY <2>5 DEF NoPortLeak, Owned
  <2> QED BY <1>3, <2>6
<1>7. CASE \/ \E op \in {"start", "stop"} : BeginChange(r, op, id)
           \/ \E force \in BOOLEAN : BeginDelete(r, id, force)
  <2>1. UNCHANGED usedPorts
    BY <1>7 DEF BeginChange, BeginDelete, Begins
  <2>2. NoPortLeak'
    BY <1>1, <1>4, <2>1, OwnersStay DEF Creating, Owns, InMap
  <2> QED BY <1>3, <2>2
<1> QED BY <1>5, <1>6, <1>7

LEMMA LeakRestart ==
  ASSUME Restart
  PROVE  LeakInv'
<1>1. DeleteReleased' /\ NoAdbYet'
  BY DEF Restart, Idle, DeleteReleased, NoAdbYet
<1>2. CASE /\ containers' = [id \in Id |-> Synced(id)]
           /\ usedPorts' = UNION {Reserved(Synced(id)) : id \in Id}
  <2>1. ASSUME NEW port \in usedPorts'
        PROVE  Owned(port)'
    <3>1. PICK id \in Id : port \in PortsOf(Synced(id))
      BY <1>2, <2>1 DEF Reserved
    <3>2. Synced(id).status # "absent"
      BY <3>1 DEF Synced, NoEntry, PortsOf, NoPort
    <3>3. Owns(id)' /\ port \in PortsOf(containers'[id])
      BY <1>2, <3>1, <3>2 DEF Restart, Owns, InMap
    <3> QED BY <3>3 DEF Owned
  <2> QED BY <1>1, <2>1 DEF LeakInv, NoPortLeak, Owned
<1>3. CASE usedPorts' = {}
  BY <1>1, <1>3 DEF LeakInv, NoPortLeak
<1> QED BY <1>2, <1>3 DEF Restart

LEMMA LeakNext ==
  ASSUME <<"create", "garbled">> \notin DockerFaults,
         SoloIInv, LeakInv, [Next]_vars
  PROVE  LeakInv'
<1>1. CASE \E r \in Request : Begin(r)
  BY <1>1, LeakBegin DEF SoloIInv
<1>2. CASE \E r \in Request : Step(r)
  BY <1>2, LeakStep
<1>3. CASE Restart
  BY <1>3, LeakRestart
<1>4. CASE UNCHANGED <<usedPorts, containers, request, released>>
  <2>1. DeleteReleased' /\ NoAdbYet'
    BY <1>4 DEF LeakInv, DeleteReleased, NoAdbYet, InMap
  <2>2. NoPortLeak'
    BY <1>4, OwnersStay DEF LeakInv, Creating, Owns, InMap
  <2> QED BY <2>1, <2>2 DEF LeakInv
<1> QED BY <1>1, <1>2, <1>3, <1>4 DEF Next, SelfExit, LateCall, vars

\* Every exit of CreateContainer and DeleteContainer gives back what it took:
\* no port is marked as used without a create or an entry of the map that owns
\* it.  The one exit that does not, a reply to the create call that cannot be
\* decoded, is excluded, and so are two requests for one container at a time.
THEOREM NoPortLeaks ==
  ASSUME "overlap" \notin Hazards, <<"create", "garbled">> \notin DockerFaults
  PROVE  Spec => []NoPortLeak
<1>1. Init => LeakInv
  BY DEF Init, Idle, LeakInv, DeleteReleased, NoAdbYet, NoPortLeak
<1>2. SoloIInv /\ LeakInv /\ [Next]_vars => LeakInv'
  BY LeakNext
<1>3. LeakInv => NoPortLeak
  BY DEF LeakInv
<1> QED BY <1>1, <1>2, <1>3, SoloIInvInit, SoloIInvNext, PTL DEF Spec

-----------------------------------------------------------------------------
(* The map shows the status that the daemon has *)

\* A settled status survives the step of a request.
LEMMA FaithfulStep ==
  ASSUME SoloIInv, StatusInv, NEW r \in Request, Step(r)
  PROVE  Faithful'
<1> USE DEF SoloIInv, SoloInv, StatusInv
<1>0. PICK id \in Id : id = request[r].id
  BY StepLocal
<1>1. \A i \in Id \ {id} : containers'[i] = containers[i] /\ docker'[i] = docker[i]
  BY <1>0, StepLocal
<1>2. containers \in [Id -> Entry]
  BY DEF Typed, TypeOK
<1>3. CASE CreateInDocker(r) \/ StartInDocker(r) \/ Cleanup(r)
  <2>1. UNCHANGED containers /\ containers[id].status = "absent"
    BY <1>0, <1>3
    DEF CreateInDocker, StartInDocker, Cleanup, CreateIsNew, Creating, CreatePcs, InMap
  <2> QED BY <1>1, <2>1 DEF Faithful
<1>4. CASE ChangeInDocker(r) \/ RemoveInDocker(r)
  <2>1. UNCHANGED containers /\ containers[id].status \notin {"running", "stopped"}
    BY <1>0, <1>4 DEF ChangeInDocker, RemoveInDocker, ChangeUnsettled
  <2> QED BY <1>1, <2>1 DEF Faithful
<1>5. CASE StoreInMap(r)
  <2>1. /\ UNCHANGED docker /\ containers'[id].status = "running"
        /\ ~docker[id].moved => docker[id].state = "running"
    BY <1>0, <1>2, <1>5 DEF StoreInMap, ReplyStillTrue
  <2> QED BY <1>1, <2>1 DEF Faithful
<1>6. CASE Mark(r) \/ MarkRemoving(r)
  <2>1. UNCHANGED docker /\ containers'[id].status \notin {"running", "stopped"}
    BY <1>0, <1>2, <1>6 DEF Mark, MarkRemoving, SetStatus, Transient, Entry
  <2> QED BY <1>1, <2>1 DEF Faithful
<1>7. CASE Settle(r)
  <2>1. /\ UNCHANGED docker
        /\ containers'[id].status \in {"absent", Final(request[r].op)}
    BY <1>0, <1>2, <1>7 DEF Settle, SetStatus, Entry
  <2>2. /\ request[r].op \in {"start", "stop"}
        /\ ~docker[id].moved => docker[id].state \in
             (IF request[r].op = "start" THEN {"running"} ELSE {"created", "exited"})
    BY <1>0, <1>7 DEF Settle, ReplyStillTrue, Typed, ActiveIds, ChangePcs
  <2>3. ~docker'[id].moved =>
          /\ containers'[id].status = "running" => docker'[id].state = "running"
          /\ containers'[id].status = "stopped" => docker'[id].state \in {"created", "exited"}
    BY <2>1, <2>2 DEF Final
  <2> QED BY <1>1, <2>3 DEF Faithful
<1>8. CASE Forget(r)
  <2>1. UNCHANGED docker /\ containers'[id].status = "absent"
    BY <1>0, <1>2, <1>8 DEF Forget, NoEntry
  <2> QED BY <1>1, <2>1 DEF Faithful
<1>9. CASE UNCHANGED <<containers, docker>>
  BY <1>9 DEF Faithful
<1> QED
  BY <1>3, <1>4, <1>5, <1>6, <1>7, <1>8, <1>9
  DEF Step, CreateSteps, ChangeSteps, DeleteSteps, AllocateADB, ReleasePorts, InsertInDb,
      Record, ReleaseEntry, DeleteFromDb

LEMMA ChangeUnsettledStep ==
  ASSUME SoloIInv, StatusInv, NEW r \in Request, Step(r)
  PROVE  ChangeUnsettled'
<1> USE DEF SoloIInv, SoloInv, StatusInv
<1> DEFINE Pc == {"docker_change", "settle", "release_entry", "docker_remove", "forget"}
<1>0. PICK id \in Id : id = request[r].id
  BY StepLocal
<1>1. containers \in [Id -> Entry]
  BY DEF Typed, TypeOK
<1>2. ASSUME NEW s \in Request \ {r}, request'[s].pc \in Pc
      PROVE  containers'[request'[s].id].status \notin {"running", "stopped"}
  BY <1>2, OthersKeep DEF ChangeUnsettled, Active
<1>3. ASSUME request'[r].pc \in Pc
      PROVE  containers'[request'[r].id].status \notin {"running", "stopped"}
  <2>1. request'[r].id = id
    BY <1>0, <1>3, StepLocal DEF Idle
  <2>2. CASE request'[r].pc \in {"docker_change", "release_entry"}
    <3>1. Mark(r) \/ MarkRemoving(r)
      BY <2>2, PcFlow
    <3> QED BY <1>0, <1>1, <2>1, <3>1 DEF Mark, MarkRemoving, SetStatus, Transient, Entry
  <2>3. CASE request'[r].pc \in {"settle", "docker_remove", "forget"}
    <3>1. ChangeInDocker(r) \/ ReleaseEntry(r) \/ RemoveInDocker(r)
      BY <2>3, PcFlow
    <3> QED
      BY <1>0, <2>1, <3>1 DEF ChangeInDocker, ReleaseEntry, RemoveInDocker, ChangeUnsettled
  <2> QED BY <1>3, <2>2, <2>3
<1> QED BY <1>2, <1>3 DEF ChangeUnsettled

LEMMA ReplyStillTrueStep ==
  ASSUME SoloIInv, StatusInv, NEW r \in Request, Step(r)
  PROVE  ReplyStillTrue'
<1> USE DEF SoloIInv, SoloInv, StatusInv
<1>1. ASSUME NEW s \in Request \ {r}, Active(s)'
      PROVE  ~docker'[request'[s].id].moved =>
               /\ request'[s].pc \in {"insert", "store"} =>
                    docker'[request'[s].id].state = "running"
               /\ request'[s].pc = "settle" =>
                    docker'[request'[s].id].state \in
                      (IF request'[s].op = "start" THEN {"running"} ELSE {"created", "exited"})
  BY <1>1, OthersKeep DEF ReplyStillTrue
<1>2. ASSUME request'[r].pc = "insert"
      PROVE  docker'[request'[r].id].state = "running"
  <2>1. Docker("start", r, "ok") /\ Active(r) /\ request'[r].id = request[r].id
    BY <1>2, PcFlow, StepLocal DEF Idle
  <2> QED BY <2>1, CallEffect DEF DockerCalls
<1>3. ASSUME request'[r].pc = "store", ~docker'[request'[r].id].moved
      PROVE  docker'[request'[r].id].state = "running"
  <2>1. InsertInDb(r) /\ request'[r].id = request[r].id
    BY <1>3, PcFlow, StepLocal DEF Idle
  <2> QED BY <1>3, <2>1 DEF InsertInDb, ReplyStillTrue
<1>4. ASSUME request'[r].pc = "settle"
      PROVE  docker'[request'[r].id].state \in
               (IF request'[r].op = "start" THEN {"running"} ELSE {"created", "exited"})
  <2>1. /\ Docker(request[r].op, r, "ok") /\ Active(r) /\ request[r].op \in {"start", "stop"}
        /\ request'[r].id = request[r].id /\ request'[r].op = request[r].op
    BY <1>4, PcFlow, StepLocal
    DEF Idle, ChangeInDocker, Typed, ActiveIds, ChangePcs
  <2> QED BY <2>1, CallEffect DEF DockerCalls
<1> QED BY <1>1, <1>2, <1>3, <1>4 DEF ReplyStillTrue, Active

LEMMA StatusNext ==
  ASSUME SoloIInv, StatusInv, [Next]_vars
  PROVE  StatusInv'
<1> USE DEF SoloIInv, StatusInv
<1>1. CASE \E r \in Request : Begin(r)
  <2>1. PICK r \in Request : Begin(r)
    BY <1>1
  <2>2. /\ UNCHANGED <<containers, docker>>
        /\ \A s \in Request \ {r} : request'[s] = request[s]
        /\ request'[r].pc \in {"allocate_adb", "docker_create", "mark", "mark_removing"}
    BY <2>1, BeginLocal
  <2> QED BY <2>2 DEF Faithful, ChangeUnsettled, ReplyStillTrue
<1>2. CASE \E r \in Request : Step(r)
  BY <1>2, FaithfulStep, ChangeUnsettledStep, ReplyStillTrueStep
<1>3. CASE Restart
  <2>1. /\ \A r \in Request : request'[r].pc = "idle"
        /\ \A id \in Id : containers'[id] \in {Synced(id), NoEntry}
    BY <1>3 DEF Restart, Idle
  <2>2. \A id \in Id :
          /\ Synced(id).status = "running" => docker'[id].state = "running"
          /\ Synced(id).status = "stopped" => docker'[id].state = "exited"
    BY <1>3, RestartFrame DEF Synced, NoEntry
  <2>3. Faithful'
    BY <2>1, <2>2 DEF Faithful, NoEntry
  <2> QED BY <2>1, <2>3 DEF ChangeUnsettled, ReplyStillTrue
<1>4. CASE \E id \in Id : SelfExit(id) \/ LateCall(id)
  <2>1. PICK id \in Id : SelfExit(id) \/ LateCall(id)
    BY <1>4
  <2>2. /\ UNCHANGED <<containers, request>>
        /\ \A i \in Id \ {id} : docker'[i] = docker[i]
        /\ \/ docker[id].state = "requested" /\ docker'[id].moved = docker[id].moved
           \/ docker'[id].moved
    BY <2>1, MovedFrame
  <2>3. \A r \in Request : Active(r) => request[r].id \in Id
    BY DEF Typed, ActiveIds
  <2>4. Faithful'
    BY <2>2 DEF Faithful
  <2>5. ChangeUnsettled'
    BY <2>2 DEF ChangeUnsettled
  <2>6. ReplyStillTrue'
    BY <2>2, <2>3 DEF ReplyStillTrue, Active
  <2> QED BY <2>4, <2>5, <2>6
<1>5. CASE UNCHANGED vars
  BY <1>5 DEF vars, Faithful, ChangeUnsettled, ReplyStillTrue
<1> QED BY <1>1, <1>2, <1>3, <1>4, <1>5 DEF Next

StatusIInv == SoloIInv /\ StatusInv

LEMMA StatusIInvInit == Init => StatusIInv
BY SoloIInvInit
DEF Init, Idle, NoEntry, StatusIInv, StatusInv, Faithful, ChangeUnsettled, ReplyStillTrue

LEMMA StatusIInvNext ==
  ASSUME "overlap" \notin Hazards
  PROVE  StatusIInv /\ [Next]_vars => StatusIInv'
BY SoloIInvNext, StatusNext DEF StatusIInv

\* A settled status of the map is the one the daemon has, whatever calls fail,
\* are lost or are carried out late and however often the server is restarted,
\* unless requests for one container overlap.  A container that has exited by
\* itself, or by a call nobody waited for, is excepted until the manager hears
\* of it again: nothing in the code tells it.
THEOREM StatusIsFaithful ==
  ASSUME "overlap" \notin Hazards
  PROVE  Spec => []StatusFaithful
<1>1. StatusIInv => StatusFaithful
  BY DEF StatusIInv, StatusInv, Faithful, StatusFaithful
<1> QED BY <1>1, StatusIInvInit, StatusIInvNext, PTL DEF Spec

-----------------------------------------------------------------------------
(* The map shows the port that the daemon has bound *)

\* What the daemon's calls leave alone once the container is made.
LEMMA DockerPortKept ==
  ASSUME Typed, NEW r \in Request, Step(r), ~CreateInDocker(r)
  PROVE  \A id \in Id : docker'[id].grpc = docker[id].grpc
<1>1. request[r].id \in Id /\ Active(r)
  BY StepLocal
<1>2. docker'[request[r].id].grpc = docker[request[r].id].grpc
  <2>1. CASE StartInDocker(r) \/ Cleanup(r) \/ ChangeInDocker(r) \/ RemoveInDocker(r)
    <3>1. PICK call \in {"start", "stop", "remove"}, reply \in {"ok", "error", "refused"} :
            Docker(call, r, reply)
      BY <2>1 DEF StartInDocker, Cleanup, ChangeInDocker, RemoveInDocker, Typed, ActiveIds,
                  ChangePcs
    <3> QED BY <1>1, <3>1, CallEffect DEF DockerCalls
  <2>2. CASE UNCHANGED docker
    BY <2>2
  <2> QED
    BY <2>1, <2>2
    DEF Step, CreateSteps, ChangeSteps, DeleteSteps, AllocateADB, ReleasePorts, InsertInDb,
        StoreInMap, Mark, Settle, Record, MarkRemoving, ReleaseEntry, Forget, DeleteFromDb
<1> QED BY <1>2, StepLocal

LEMMA PortAgreesStep ==
  ASSUME SoloIInv, AddressInv, NEW r \in Request, Step(r)
  PROVE  PortAgrees'
<1> USE DEF SoloIInv, SoloInv, AddressInv
<1>0. PICK id \in Id : id = request[r].id
  BY StepLocal
<1>1. SUFFICES ASSUME restarts = 0, NEW i \in Id, InMap(i)'
               PROVE  docker'[i].grpc = containers'[i].grpc /\ containers'[i].grpc # NoPort
  BY StepLocal DEF PortAgrees, InMap
<1>2. containers \in [Id -> Entry]
  BY DEF Typed, TypeOK
<1>3. CASE StoreInMap(r)
  <2>1. CASE i = id
    <3>1. /\ UNCHANGED docker /\ containers'[i].grpc = request[r].grpc
          /\ docker[i].grpc = request[r].grpc /\ request[r].grpc # NoPort
      BY <1>0, <1>2, <1>3, <2>1 DEF StoreInMap, CreateBinds, Creating, CreatePcs
    <3> QED BY <3>1
  <2>2. CASE i # id
    BY <1>0, <1>1, <2>2, StepLocal DEF PortAgrees, InMap
  <2> QED BY <2>1, <2>2
<1>4. CASE ~StoreInMap(r)
  <2>1. InMap(i) /\ containers'[i].grpc = containers[i].grpc
    <3>1. CASE Mark(r) \/ Settle(r) \/ MarkRemoving(r)
      BY <1>0, <1>1, <1>2, <3>1 DEF Mark, Settle, MarkRemoving, SetStatus, InMap, Entry
    <3>2. CASE Forget(r)
      BY <1>0, <1>1, <1>2, <3>2 DEF Forget, InMap, NoEntry
    <3>3. CASE UNCHANGED containers
      BY <1>1, <3>3 DEF InMap
    <3> QED
      BY <1>4, <3>1, <3>2, <3>3
      DEF Step, CreateSteps, ChangeSteps, DeleteSteps, AllocateADB, CreateInDocker,
          StartInDocker, Cleanup, ReleasePorts, InsertInDb, ChangeInDocker, Record,
          ReleaseEntry, RemoveInDocker, DeleteFromDb
  <2>2. docker'[i].grpc = docker[i].grpc
    <3>1. CASE CreateInDocker(r)
      <4>1. i # id
        BY <1>0, <2>1, <3>1 DEF CreateInDocker, CreateIsNew, Creating, CreatePcs
      <4> QED BY <1>0, <4>1, StepLocal
    <3>2. CASE ~CreateInDocker(r)
      BY <3>2, DockerPortKept
    <3> QED BY <3>1, <3>2
  <2> QED BY <1>1, <2>1, <2>2 DEF PortAgrees
<1> QED BY <1>3, <1>4

LEMMA CreateBindsStep ==
  ASSUME SoloIInv, AddressInv, NEW r \in Request, Step(r)
  PROVE  CreateBinds'
<1> USE DEF SoloIInv, SoloInv, AddressInv
<1>1. ASSUME NEW s \in Request \ {r}, Active(s)'
      PROVE  /\ Creating(s)' => request'[s].grpc # NoPort
             /\ request'[s].pc \in {"docker_start", "insert", "store"} =>
                  docker'[request'[s].id].grpc = request'[s].grpc
  BY <1>1, OthersKeep DEF CreateBinds, Creating
<1>2. Creating(r)' => request'[r].grpc # NoPort
  BY StepFrame, StepLocal DEF Idle, CreateBinds, Creating, CreatePcs
<1>3. ASSUME request'[r].pc \in {"docker_start", "insert", "store"}
      PROVE  docker'[request'[r].id].grpc = request'[r].grpc
  <2>1. request'[r].id = request[r].id /\ request'[r].grpc = request[r].grpc
        /\ request[r].id \in Id /\ Active(r)
    BY <1>3, StepLocal DEF Idle
  <2>2. CASE request'[r].pc = "docker_start"
    BY <2>1, <2>2, PcFlow, CallEffect DEF DockerCalls
  <2>3. CASE request'[r].pc \in {"insert", "store"}
    <3>1. request[r].pc \in {"docker_start", "insert"} /\ ~CreateInDocker(r)
      BY <2>3, PcFlow DEF StartInDocker, InsertInDb, CreateInDocker
    <3> QED BY <2>1, <3>1, DockerPortKept DEF CreateBinds
  <2> QED BY <1>3, <2>2, <2>3
<1> QED BY <1>1, <1>2, <1>3 DEF CreateBinds, Creating, CreatePcs, Active

LEMMA AddressNext ==
  ASSUME SoloIInv, AddressInv, [Next]_vars
  PROVE  AddressInv'
<1> USE DEF SoloIInv, AddressInv
<1>1. CASE \E r \in Request : Begin(r)
  <2>1. PICK r \in Request : Begin(r)
    BY <1>1
  <2>2. /\ UNCHANGED <<containers, docker, restarts>>
        /\ \A s \in Request \ {r} : request'[s] = request[s]
        /\ request'[r].pc \notin {"docker_start", "insert", "store"}
        /\ Creating(r)' => request'[r].grpc # NoPort
    BY <2>1, BeginLocal, PortAssumption DEF Port, NoPort
  <2> QED BY <2>2 DEF PortAgrees, CreateBinds, Creating, InMap
<1>2. CASE \E r \in Request : Step(r)
  BY <1>2, PortAgreesStep, CreateBindsStep
<1>3. CASE \E id \in Id : SelfExit(id) \/ LateCall(id)
  <2>1. PICK id \in Id : SelfExit(id) \/ LateCall(id)
    BY <1>3
  <2>2. /\ \A i \in Id : docker'[i].grpc = docker[i].grpc
        /\ UNCHANGED <<containers, request, restarts>>
    BY <2>1, MovedFrame
  <2> QED
    BY <2>2
    DEF PortAgrees, CreateBinds, Creating, CreatePcs, InMap, Typed, ActiveIds, Active
<1>4. CASE Restart
  <2>1. restarts' # 0 /\ \A r \in Request : request'[r].pc = "idle"
    BY <1>4 DEF Restart, Idle, Typed, TypeOK
  <2> QED BY <2>1 DEF PortAgrees, CreateBinds, Creating, CreatePcs
<1>5. CASE UNCHANGED vars
  BY <1>5 DEF vars, PortAgrees, CreateBinds, Creating, InMap
<1> QED BY <1>1, <1>2, <1>3, <1>4, <1>5 DEF Next

\* The address of a running container is one that answers: the daemon has it
\* running, with the gRPC port the map shows, until a restart forgets ports or
\* the container exits without the manager.
THEOREM AddressIsReachable ==
  ASSUME "overlap" \notin Hazards
  PROVE  Spec => []AddressReachable
<1>1. Init => AddressInv
  BY DEF Init, Idle, NoEntry, AddressInv, PortAgrees, CreateBinds, Creating, CreatePcs, InMap
<1>2. StatusIInv /\ AddressInv /\ [Next]_vars => AddressInv'
  BY AddressNext DEF StatusIInv
<1>3. StatusIInv /\ AddressInv => AddressReachable
  BY DEF StatusIInv, StatusInv, Faithful, AddressInv, PortAgrees, AddressReachable, InMap
<1> QED BY <1>1, <1>2, <1>3, StatusIInvInit, StatusIInvNext, PTL DEF Spec

-----------------------------------------------------------------------------
(* The database shows what the map shows *)

LEMMA DocumentAgreesStep ==
  ASSUME SoloIInv, DatabaseInv, "db_error" \notin Hazards, NEW r \in Request, Step(r)
  PROVE  DocumentAgrees'
<1> USE DEF SoloIInv, SoloInv, DatabaseInv
<1>0. PICK id \in Id : id = request[r].id
  BY StepLocal
<1> DEFINE Settled(i) == containers[i].status \in {"running", "stopped"}
           Recording(i) == \E s \in Request : request[s].pc = "record" /\ request[s].id = i
<1>1. SUFFICES ASSUME restarts = 0, NEW i \in Id
               PROVE  /\ InMap(i)' => InDb(i)'
                      /\ Settled(i)' => db'[i] = containers'[i].status \/ Recording(i)'
  BY StepLocal DEF DocumentAgrees
<1>2. containers \in [Id -> Entry] /\ db \in [Id -> DbStatus]
  BY DEF Typed, TypeOK
<1>3. CASE i # id
  <2>1. containers'[i] = containers[i] /\ db'[i] = db[i]
    BY <1>0, <1>3, StepLocal
  <2>2. Recording(i) => Recording(i)'
    BY <1>0, <1>3, StepLocal
  <2> QED BY <1>1, <2>1, <2>2 DEF DocumentAgrees, InMap, InDb
<1>4. CASE i = id
  <2>0. \A s \in Request : request[s].pc = "record" /\ request[s].id = i => s = r
    BY <1>0, <1>4, StepLocal DEF Solo, Active
  <2>1. CASE Creating(r) /\ ~StoreInMap(r)
    <3>1. UNCHANGED containers /\ ~InMap(i)
      BY <1>0, <1>4, <2>1
      DEF CreateIsNew, Step, CreateSteps, ChangeSteps, DeleteSteps, AllocateADB,
          CreateInDocker, StartInDocker, Cleanup, ReleasePorts, InsertInDb, ChangeInDocker,
          Mark, Settle, MarkRemoving, Forget, Record, ReleaseEntry, RemoveInDocker,
          DeleteFromDb, Creating, CreatePcs
    <3> QED BY <3>1 DEF InMap
  <2>2. CASE StoreInMap(r)
    <3>1. db'[i] = "running" /\ containers'[i].status = "running"
      BY <1>0, <1>1, <1>2, <1>4, <2>2 DEF StoreInMap, AboutToWrite
    <3> QED BY <3>1 DEF InDb
  <2>3. CASE Mark(r) \/ MarkRemoving(r)
    <3>1. /\ UNCHANGED db
          /\ containers'[i].status \notin {"running", "stopped"}
          /\ InMap(i)' => InMap(i)
      BY <1>0, <1>2, <1>4, <2>3 DEF Mark, MarkRemoving, SetStatus, Transient, Entry, InMap
    <3> QED BY <1>1, <3>1 DEF DocumentAgrees, InDb
  <2>4. CASE Settle(r)
    <3>1. /\ UNCHANGED db
          /\ InMap(i)' => InMap(i)
          /\ Goto(r, "record")
      BY <1>0, <1>2, <1>4, <2>4 DEF Settle, SetStatus, Entry, InMap
    <3>2. request'[r].pc = "record" /\ request'[r].id = i
      BY <1>0, <1>4, <3>1, GotoFrame
    <3>3. InMap(i)' => InDb(i)'
      BY <1>1, <3>1 DEF DocumentAgrees, InDb
    <3> QED BY <3>2, <3>3
  <2>5. CASE Record(r)
    <3>1. /\ UNCHANGED containers
          /\ db'[i] = IF db[i] = "absent" THEN "absent" ELSE Final(request[r].op)
      BY <1>0, <1>2, <1>4, <2>5 DEF Record, Write
    <3>2. InMap(i) => db[i] # "absent" /\ containers[i].status = Final(request[r].op)
      BY <1>0, <1>1, <1>4, <2>5 DEF Record, DocumentAgrees, AboutToWrite, InDb
    <3>3. Final(request[r].op) # "absent"
      BY DEF Final
    <3> QED BY <3>1, <3>2, <3>3 DEF InMap, InDb
  <2>6. CASE Forget(r)
    <3>1. containers'[i].status = "absent"
      BY <1>0, <1>2, <1>4, <2>6 DEF Forget, NoEntry
    <3> QED BY <3>1 DEF InMap
  <2>7. CASE DeleteFromDb(r)
    <3>1. UNCHANGED containers /\ ~InMap(i)
      BY <1>0, <1>1, <1>4, <2>7 DEF DeleteFromDb, AboutToWrite
    <3> QED BY <3>1 DEF InMap
  <2>8. CASE ChangeInDocker(r) \/ ReleaseEntry(r) \/ RemoveInDocker(r)
    <3>1. UNCHANGED <<containers, db>> /\ request[r].pc # "record"
      BY <2>8 DEF ChangeInDocker, ReleaseEntry, RemoveInDocker
    <3> QED BY <1>1, <2>0, <3>1 DEF DocumentAgrees, InMap, InDb
  <2> QED
    BY <2>1, <2>2, <2>3, <2>4, <2>5, <2>6, <2>7, <2>8
    DEF Step, CreateSteps, ChangeSteps, DeleteSteps, AllocateADB, CreateInDocker,
        StartInDocker, Cleanup, ReleasePorts, InsertInDb, Creating, CreatePcs
<1> QED BY <1>3, <1>4

LEMMA AboutToWriteStep ==
  ASSUME SoloIInv, DatabaseInv, "db_error" \notin Hazards, NEW r \in Request, Step(r)
  PROVE  AboutToWrite'
<1> USE DEF SoloIInv, SoloInv, DatabaseInv
<1>0. PICK id \in Id : id = request[r].id
  BY StepLocal
<1>1. containers \in [Id -> Entry] /\ db \in [Id -> DbStatus]
  BY DEF Typed, TypeOK
<1>2. ASSUME NEW s \in Request \ {r}, Active(s)', restarts = 0
      PROVE  /\ request'[s].pc = "store" => db'[request'[s].id] = "running"
             /\ request'[s].pc = "record" /\ InMap(request[s].id)' =>
                  containers'[request'[s].id].status = Final(request'[s].op)
             /\ request'[s].pc = "db_delete" => (~InMap(request[s].id))'
  BY <1>2, OthersKeep DEF AboutToWrite, InMap
<1>3. ASSUME request'[r].pc = "store"
      PROVE  db'[request'[r].id] = "running"
  <2>1. InsertInDb(r) /\ request'[r].id = id
    BY <1>0, <1>3, PcFlow, StepLocal DEF Idle
  <2> QED BY <1>0, <1>1, <2>1 DEF InsertInDb, Write
<1>4. ASSUME request'[r].pc = "record", InMap(request[r].id)'
      PROVE  containers'[request'[r].id].status = Final(request'[r].op)
  <2>1. Settle(r) /\ request'[r].id = id /\ request'[r].op = request[r].op
    BY <1>0, <1>4, PcFlow, StepLocal DEF Idle
  <2> QED BY <1>0, <1>1, <1>4, <2>1 DEF Settle, SetStatus, InMap, Entry
<1>5. ASSUME request'[r].pc = "db_delete"
      PROVE  (~InMap(request[r].id))'
  <2>1. Forget(r) /\ request'[r].id = id
    BY <1>0, <1>5, PcFlow, StepLocal DEF Idle
  <2> QED BY <1>0, <1>1, <2>1 DEF Forget, InMap, NoEntry
<1>6. UNCHANGED restarts
  BY StepLocal
<1> QED BY <1>2, <1>3, <1>4, <1>5, <1>6 DEF AboutToWrite, Active

LEMMA DatabaseNext ==
  ASSUME SoloIInv, DatabaseInv, [Next]_vars, "db_error" \notin Hazards
  PROVE  DatabaseInv'
<1> USE DEF SoloIInv, DatabaseInv
<1>1. CASE \E r \in Request : Begin(r)
  <2>1. PICK r \in Request : Begin(r)
    BY <1>1
  <2>2. /\ UNCHANGED <<containers, db, restarts>>
        /\ \A s \in Request \ {r} : request'[s] = request[s]
        /\ request'[r].pc \notin {"store", "record", "db_delete"}
        /\ request[r].pc = "idle"
    BY <2>1, BeginLocal DEF Active
  <2>3. DocumentAgrees'
    BY <2>2 DEF DocumentAgrees, InMap, InDb
  <2>4. AboutToWrite'
    BY <2>2 DEF AboutToWrite, InMap
  <2> QED BY <2>3, <2>4
<1>2. CASE \E r \in Request : Step(r)
  BY <1>2, DocumentAgreesStep, AboutToWriteStep
<1>3. CASE Restart
  <2>1. restarts' # 0
    BY <1>3 DEF Restart, Typed, TypeOK
  <2> QED BY <2>1 DEF DocumentAgrees, AboutToWrite
<1>4. CASE UNCHANGED <<containers, db, request, restarts>>
  BY <1>4 DEF DocumentAgrees, AboutToWrite, InMap, InDb
<1> QED BY <1>1, <1>2, <1>3, <1>4 DEF Next, SelfExit, LateCall, vars

\* Until the first restart the list of containers and the map agree on every
\* settled status of a container that nobody works on, if no write of the
\* database fails and requests for one container do not overlap.
THEOREM DatabaseAgrees ==
  ASSUME "overlap" \notin Hazards, "db_error" \notin Hazards
  PROVE  Spec => []DatabaseFollowsMap
<1>1. Init => DatabaseInv
  BY DEF Init, Idle, NoEntry, DatabaseInv, DocumentAgrees, AboutToWrite, InMap
<1>2. SoloIInv /\ DatabaseInv /\ [Next]_vars => DatabaseInv'
  BY DatabaseNext
<1>3. DatabaseInv => DatabaseFollowsMap
  BY DEF DatabaseInv, DocumentAgrees, DatabaseFollowsMap, AtRest, Active
<1> QED BY <1>1, <1>2, <1>3, SoloIInvInit, SoloIInvNext, PTL DEF Spec

-----------------------------------------------------------------------------
(* No container is left behind in the daemon *)

\* A create that is not undone unseen, and a removal that is carried out when
\* it is waited for.
OrphanFaultsExcluded ==
  /\ <<"create", "lost_reply">> \notin DockerFaults
  /\ <<"create", "late">> \notin DockerFaults
  /\ <<"remove", "late">> \notin DockerFaults
  /\ <<"create", "garbled">> \notin DockerFaults
  /\ <<"remove", "unreachable">> \notin DockerFaults
  /\ <<"remove", "refused">> \notin DockerFaults

\* A forced removal leaves nothing, whichever of the replies left comes back.
LEMMA RemovalEffect ==
  ASSUME OrphanFaultsExcluded, Typed, NEW r \in Request, Active(r), request[r].force,
         NEW reply \in {"ok", "error", "refused"}, Docker("remove", r, reply)
  PROVE  docker'[request[r].id].state \notin {"created", "running", "exited"}
<1> DEFINE id == request[r].id
<1>1. id \in Id /\ docker \in [Id -> DockerContainer] /\ docker[id] \in DockerContainer
  BY DEF Typed, TypeOK, ActiveIds
<1>2. CASE UNCHANGED docker /\ ~DockerAccepts("remove", id, request[r].force)
  BY <1>2 DEF DockerAccepts, Exists
<1>3. CASE docker' = [docker EXCEPT ![id] =
                        DockerEffect("remove", id, request[r].grpc, request[r].adb)]
  BY <1>1, <1>3 DEF DockerEffect, DockerContainer
<1> QED BY <1>2, <1>3 DEF Docker, OrphanFaultsExcluded

\* Containers come into being by the create call only, and never become
\* unknown again.
LEMMA DockerSteps ==
  ASSUME Typed, NEW r \in Request, Step(r), NEW i \in Id
  PROVE  /\ docker[i].state # "none" => docker'[i].state # "none"
         /\ docker'[i].state # docker[i].state /\ docker[i].state = "none" =>
              CreateInDocker(r) /\ i = request[r].id
         /\ Exists(i)' /\ ~Exists(i) =>
              CreateInDocker(r) /\ i = request[r].id /\ docker[i].state = "none"
         /\ docker'[i].state = "requested" =>
              docker[i].state = "requested" \/ <<"create", "late">> \in DockerFaults
<1>1. request[r].id \in Id /\ Active(r)
  BY StepLocal
<1>2. CASE i # request[r].id
  BY <1>2, StepLocal DEF Exists
<1>3. CASE i = request[r].id /\ CreateInDocker(r)
  <2>1. PICK reply : Docker("create", r, reply)
    BY <1>3 DEF CreateInDocker
  <2>2. /\ docker'[i] # docker[i] => docker[i].state = "none"
        /\ docker'[i].state \in {docker[i].state, "requested", "created"}
        /\ docker'[i].state = "requested" =>
             docker[i].state = "requested" \/ <<"create", "late">> \in DockerFaults
    BY <1>1, <1>3, <2>1, CallEffect DEF DockerCalls, DockerAccepts
  <2> QED BY <1>3, <2>2 DEF Exists
<1>4. CASE /\ i = request[r].id
           /\ StartInDocker(r) \/ ChangeInDocker(r) \/ Cleanup(r) \/ RemoveInDocker(r)
  <2>1. PICK call \in {"start", "stop", "remove"}, reply \in {"ok", "error", "refused"} :
          Docker(call, r, reply)
    BY <1>4 DEF StartInDocker, Cleanup, ChangeInDocker, RemoveInDocker, Typed, ActiveIds,
                ChangePcs
  <2>2. /\ docker'[i].state \in {docker[i].state, "running", "exited", "removed"}
        /\ docker'[i] # docker[i] => DockerAccepts(call, i, request[r].force)
    BY <1>1, <1>4, <2>1, CallEffect DEF DockerCalls
  <2>3. docker'[i] # docker[i] => Exists(i)
    BY <2>2 DEF DockerAccepts
  <2> QED BY <2>2, <2>3 DEF Exists
<1>5. CASE UNCHANGED docker
  BY <1>5 DEF Exists
<1> QED
  BY <1>2, <1>3, <1>4, <1>5
  DEF Step, CreateSteps, ChangeSteps, DeleteSteps, AllocateADB, ReleasePorts, InsertInDb,
      StoreInMap, Mark, Settle, Record, MarkRemoving, ReleaseEntry, Forget, DeleteFromDb

LEMMA NamedStep ==
  ASSUME Typed, DaemonInv, OrphanInv, NEW r \in Request, Step(r)
  PROVE  NamedWasCreated'
<1> USE DEF OrphanInv
<1>0. PICK id \in Id : id = request[r].id
  BY StepLocal
<1>1. db \in [Id -> DbStatus]
  BY DEF Typed, TypeOK
<1>2. ASSUME NEW i \in Id, InDb(i)'
      PROVE  docker'[i].state # "none"
  <2>1. CASE InsertInDb(r) /\ i = id
    <3>1. UNCHANGED docker /\ docker[i].state # "none"
      BY <1>0, <2>1 DEF InsertInDb, DaemonInv, DaemonKnows
    <3> QED BY <3>1
  <2>2. CASE ~InsertInDb(r) \/ i # id
    <3>1. InDb(i)
      BY <1>0, <1>1, <1>2, <2>2
      DEF InDb, Write, Step, CreateSteps, ChangeSteps, DeleteSteps, AllocateADB,
          CreateInDocker, StartInDocker, Cleanup, ReleasePorts, InsertInDb, StoreInMap,
          Mark, ChangeInDocker, Settle, Record, MarkRemoving, ReleaseEntry,
          RemoveInDocker, Forget, DeleteFromDb
    <3> QED BY <3>1, DockerSteps DEF NamedWasCreated
  <2> QED BY <2>1, <2>2
<1>3. ASSUME NEW s \in Request \ {r}, Active(s)'
      PROVE  /\ ~Creating(s)' => docker'[request'[s].id].state # "none"
             /\ request'[s].pc \in {"allocate_adb", "docker_create"} =>
                  docker'[request'[s].id].state = "none"
  <2>1. request'[s] = request[s] /\ Active(s) /\ request[s].id \in Id
    BY <1>3, StepLocal DEF Active, Typed, ActiveIds
  <2>2. ASSUME request[s].pc \in {"allocate_adb", "docker_create"}, CreateInDocker(r)
        PROVE  request[s].id # request[r].id
    BY <2>2 DEF CreatesDiffer, Creating, CreatePcs, CreateInDocker
  <2> QED BY <2>1, <2>2, DockerSteps DEF NamedWasCreated, Creating
<1>4. Active(r)' /\ ~Creating(r)' => docker'[request'[r].id].state # "none"
  <2>1. SUFFICES ASSUME Active(r)', ~Creating(r)'
                 PROVE  docker'[id].state # "none"
    BY <1>0, StepLocal DEF Idle, Active
  <2>2. \/ Mark(r) \/ ChangeInDocker(r) \/ Settle(r)
        \/ MarkRemoving(r) \/ ReleaseEntry(r) \/ RemoveInDocker(r) \/ Forget(r)
    <3>1. request'[r].pc \in {"docker_change", "settle", "record", "release_entry",
                              "docker_remove", "forget", "db_delete"}
      <4>1. request'[r] \in RequestState
        BY CreateTyped, ChangeTyped, DeleteTyped DEF Step, Typed, TypeOK
      <4>2. request'[r].pc \in Pcs \ {"allocate_adb", "mark", "mark_removing"}
        BY <4>1, PcFlow DEF RequestState
      <4> QED BY <2>1, <4>2 DEF Active, Creating, Pcs, ChangePcs, DeletePcs
    <3> QED BY <3>1, PcFlow
  <2>3. Active(r) /\ ~Creating(r)
    BY <2>2
    DEF Active, Creating, CreatePcs, Mark, ChangeInDocker, Settle, MarkRemoving,
        ReleaseEntry, RemoveInDocker, Forget
  <2> QED BY <1>0, <2>3, DockerSteps DEF NamedWasCreated
<1>5. request'[r].pc \in {"allocate_adb", "docker_create"} =>
        docker'[request'[r].id].state = "none"
  <2>1. SUFFICES ASSUME request'[r].pc \in {"allocate_adb", "docker_create"}
                 PROVE  docker'[id].state = "none"
    BY <1>0, StepLocal DEF Idle
  <2>2. AllocateADB(r)
    BY <2>1, PcFlow
  <2> QED BY <1>0, <2>2 DEF AllocateADB, NamedWasCreated
<1> QED BY <1>2, <1>3, <1>4, <1>5 DEF NamedWasCreated, Active

LEMMA RemovalStep ==
  ASSUME OrphanFaultsExcluded, Typed, DaemonInv, OrphanInv, NEW r \in Request, Step(r)
  PROVE  RemovalWorks'
<1> USE DEF OrphanInv
<1>0. PICK id \in Id : id = request[r].id
  BY StepLocal
<1>1. ASSUME NEW s \in Request \ {r}, Active(s)'
      PROVE  /\ Deleting(s)' \/ request'[s].pc = "cleanup" => request'[s].force
             /\ request'[s].pc \in {"release", "forget"} =>
                  docker'[request'[s].id].state \notin {"created", "running", "exited"}
  <2>1. request'[s] = request[s] /\ Active(s) /\ request[s].id \in Id
    BY <1>1, StepLocal DEF Active, Typed, ActiveIds
  <2>2. Deleting(s)' \/ request'[s].pc = "cleanup" => request'[s].force
    BY <2>1 DEF RemovalWorks, Deleting
  <2>3. CASE request[s].pc \in {"release", "forget"}
    <3>1. ~Exists(request[s].id)
      BY <2>3 DEF RemovalWorks
    <3>2. CASE request[s].pc = "forget"
      <4>1. docker[request[s].id].state # "none"
        BY <2>1, <3>2 DEF NamedWasCreated, Active, Creating, CreatePcs
      <4>2. PICK i \in Id : i = request[s].id
        BY <2>1
      <4> QED BY <2>1, <2>2, <3>1, <4>1, <4>2, DockerSteps DEF Exists
    <3>3. CASE request[s].pc = "release"
      <4>1. CreateInDocker(r) => request[s].id # request[r].id
        BY <3>3 DEF CreatesDiffer, Creating, CreatePcs, CreateInDocker
      <4>2. PICK i \in Id : i = request[s].id
        BY <2>1
      <4> QED BY <2>1, <2>2, <3>1, <4>1, <4>2, DockerSteps DEF Exists
    <3> QED BY <2>3, <3>2, <3>3
  <2> QED BY <2>1, <2>2, <2>3
<1>2. Deleting(r)' => request'[r].force
  <2>1. SUFFICES ASSUME Deleting(r)' PROVE request'[r].force
    OBVIOUS
  <2>2. MarkRemoving(r) \/ ReleaseEntry(r) \/ RemoveInDocker(r) \/ Forget(r)
    BY <2>1, PcFlow DEF Deleting, DeletePcs
  <2>3. request[r].force
    BY <2>2
    DEF RemovalWorks, Deleting, DeletePcs, MarkRemoving, ReleaseEntry, RemoveInDocker, Forget
  <2>4. \E pc : Goto(r, pc)
    BY <2>1, <2>2, ReturnFrame
    DEF MarkRemoving, ReleaseEntry, RemoveInDocker, Forget, Deleting, DeletePcs
  <2>5. request'[r].force = request[r].force
    BY <2>4 DEF Goto, Typed, TypeOK, RequestState
  <2> QED BY <2>3, <2>5
<1>3. request'[r].pc = "cleanup" => request'[r].force
  BY PcFlow
<1>4. ASSUME request'[r].pc \in {"release", "forget"}
      PROVE  docker'[request'[r].id].state \notin {"created", "running", "exited"}
  <2>1. Active(r) /\ request'[r].id = id
    BY <1>0, <1>4, StepLocal DEF Idle
  <2>2. CASE CreateInDocker(r) /\ \E reply \in {"error", "refused"} : Docker("create", r, reply)
    <3>1. UNCHANGED docker
      BY <2>2 DEF Docker, OrphanFaultsExcluded
    <3>2. docker[id].state = "none"
      BY <1>0, <2>2 DEF CreateInDocker, NamedWasCreated
    <3> QED BY <2>1, <3>1, <3>2
  <2>3. CASE Cleanup(r)
    <3>1. request[r].force /\ \E reply \in {"ok", "error", "refused"} : Docker("remove", r, reply)
      BY <2>3 DEF Cleanup, RemovalWorks
    <3> QED BY <1>0, <2>1, <3>1, RemovalEffect
  <2>4. CASE RemoveInDocker(r) /\ \E reply \in {"ok", "refused"} : Docker("remove", r, reply)
    <3>1. request[r].force
      BY <2>4 DEF RemoveInDocker, RemovalWorks, Deleting, DeletePcs
    <3> QED BY <1>0, <2>1, <2>4, <3>1, RemovalEffect
  <2> QED BY <1>4, <2>2, <2>3, <2>4, PcFlow
<1>5. \A s \in Request :
        Deleting(s)' \/ request'[s].pc \in {"cleanup", "release", "forget"} => Active(s)'
  BY DEF Deleting, DeletePcs, Active
<1> QED BY <1>1, <1>2, <1>3, <1>4, <1>5 DEF RemovalWorks, Exists

LEMMA NoOrphansStep ==
  ASSUME OrphanFaultsExcluded, Typed, DaemonInv, OrphanInv, NEW r \in Request, Step(r)
  PROVE  NoOrphans'
<1> USE DEF OrphanInv
<1>0. PICK id \in Id : id = request[r].id
  BY StepLocal
<1>1. SUFFICES ASSUME NEW i \in Id, Exists(i)'
               PROVE  InMap(i)' \/ \E s \in Request : Creating(s)' /\ request'[s].id = i
  BY DEF NoOrphans
<1>2. CASE CreateInDocker(r) /\ i = id
  <2>1. docker[id].state = "none"
    BY <1>0, <1>2 DEF CreateInDocker, NamedWasCreated
  <2>2. ~UNCHANGED docker
    BY <1>1, <1>2, <2>1 DEF Exists
  <2>3. Goto(r, "docker_start")
    BY <1>2, <2>2 DEF CreateInDocker, Docker, OrphanFaultsExcluded
  <2>4. Creating(r)' /\ request'[r].id = i
    BY <1>0, <1>2, <2>3, GotoFrame DEF Creating, CreatePcs
  <2> QED BY <2>4
<1>3. CASE ~(CreateInDocker(r) /\ i = id)
  <2>1. Exists(i)
    BY <1>0, <1>1, <1>3, DockerSteps
  <2>2. CASE InMap(i)
    <3>1. CASE Forget(r) /\ i = id
      BY <1>0, <2>1, <3>1 DEF Forget, RemovalWorks
    <3>2. CASE ~(Forget(r) /\ i = id)
      <4>1. InMap(i)'
        <5>1. CASE Mark(r) \/ Settle(r) \/ MarkRemoving(r)
          <6>1. PICK status \in Status : SetStatus(id, status)
            BY <1>0, <5>1 DEF Mark, Settle, MarkRemoving, Transient, Final, Status
          <6> QED BY <2>2, <6>1, SetStatusFrame
        <5>2. CASE Forget(r)
          BY <1>0, <2>2, <3>2, <5>2 DEF Forget, InMap, Typed, TypeOK
        <5>3. CASE StoreInMap(r)
          BY <1>0, <2>2, <5>3 DEF StoreInMap, InMap, Typed, TypeOK
        <5>4. CASE UNCHANGED containers
          BY <2>2, <5>4 DEF InMap
        <5> QED
          BY <5>1, <5>2, <5>3, <5>4
          DEF Step, CreateSteps, ChangeSteps, DeleteSteps, AllocateADB, CreateInDocker,
              StartInDocker, Cleanup, ReleasePorts, InsertInDb, ChangeInDocker, Record,
              ReleaseEntry, RemoveInDocker, DeleteFromDb
      <4> QED BY <4>1
    <3> QED BY <3>1, <3>2
  <2>3. CASE \E s \in Request \ {r} : Creating(s) /\ request[s].id = i
    BY <2>3, StepLocal DEF Creating
  <2>4. CASE Creating(r) /\ id = i
    <3>1. CASE StoreInMap(r)
      <4>1. InMap(i)'
        BY <1>0, <2>4, <3>1 DEF StoreInMap, InMap, Typed, TypeOK
      <4> QED BY <4>1
    <3>2. CASE AllocateADB(r) \/ ReleasePorts(r)
      BY <1>0, <2>1, <2>4, <3>2
      DEF AllocateADB, ReleasePorts, NamedWasCreated, RemovalWorks, Exists
    <3>3. CASE StartInDocker(r) \/ Cleanup(r) \/ InsertInDb(r)
      <4>1. Creating(r)'
        BY <3>3, CreateGoesOn
      <4> QED BY <1>0, <2>4, <4>1, StepFrame
    <3>4. ~CreateInDocker(r)
      BY <1>3, <2>4
    <3> QED
      BY <2>4, <3>1, <3>2, <3>3, <3>4
      DEF Step, CreateSteps, ChangeSteps, DeleteSteps, Mark, ChangeInDocker, Settle, Record,
          MarkRemoving, ReleaseEntry, RemoveInDocker, Forget, DeleteFromDb, Creating, CreatePcs
  <2> QED BY <1>0, <2>1, <2>2, <2>3, <2>4 DEF NoOrphans
<1> QED BY <1>2, <1>3

LEMMA OrphanStep ==
  ASSUME OrphanFaultsExcluded, Typed, DaemonInv, OrphanInv, NEW r \in Request, Step(r)
  PROVE  OrphanInv'
<1>1. CreatesDiffer'
  BY StepFrame DEF OrphanInv, CreatesDiffer, Creating
<1>2. NoneRequested'
  BY DockerSteps DEF OrphanInv, NoneRequested, OrphanFaultsExcluded
<1> QED BY <1>1, <1>2, NamedStep, RemovalStep, NoOrphansStep DEF OrphanInv

LEMMA OrphanBegin ==
  ASSUME "unforced" \notin Hazards, Typed, DaemonInv, OrphanInv,
         NEW r \in Request, Begin(r)
  PROVE  OrphanInv'
<1> USE DEF OrphanInv
<1>1. /\ ~Active(r) /\ UNCHANGED <<containers, docker, db>>
      /\ \A s \in Request \ {r} : request'[s] = request[s]
      /\ request'[r].id \in Id
      /\ request'[r].pc \in {"allocate_adb", "docker_create", "mark", "mark_removing"}
      /\ Creating(r)' =>
           docker[request'[r].id].state = "none" /\ ~BusyFor(r, request'[r].id)
      /\ ~Creating(r)' => InMap(request'[r].id) \/ InDb(request'[r].id)
      /\ Deleting(r)' => request'[r].force
  BY BeginLocal
<1>2. NamedWasCreated'
  <2>1. ~Creating(r)' => docker[request'[r].id].state # "none"
    BY <1>1 DEF NamedWasCreated, DaemonInv, DaemonKnows
  <2>2. request'[r].pc \in {"allocate_adb", "docker_create"} => Creating(r)'
    BY DEF Creating, CreatePcs
  <2> QED BY <1>1, <2>1, <2>2 DEF NamedWasCreated, InDb, Active, Creating
<1>3. CreatesDiffer'
  BY <1>1 DEF CreatesDiffer, BusyFor, Creating, CreatePcs, Active
<1>4. RemovalWorks'
  BY <1>1 DEF RemovalWorks, Deleting, Exists
<1>5. NoOrphans'
  BY <1>1 DEF NoOrphans, Exists, InMap, Creating, CreatePcs, Active
<1>6. NoneRequested'
  BY <1>1 DEF NoneRequested
<1> QED BY <1>2, <1>3, <1>4, <1>5, <1>6

LEMMA OrphanNext ==
  ASSUME OrphanFaultsExcluded, "unforced" \notin Hazards, "sync_failure" \notin Hazards,
         Typed, DaemonInv, OrphanInv, [Next]_vars
  PROVE  OrphanInv'
<1> USE DEF OrphanInv
<1>1. CASE \E r \in Request : Begin(r)
  BY <1>1, OrphanBegin
<1>2. CASE \E r \in Request : Step(r)
  BY <1>2, OrphanStep
<1>3. CASE \E id \in Id : SelfExit(id) \/ LateCall(id)
  <2>1. PICK id \in Id : SelfExit(id) \/ LateCall(id)
    BY <1>3
  <2>2. /\ \A i \in Id \ {id} : docker'[i] = docker[i]
        /\ Exists(id) /\ docker'[id].state \in {"running", "exited", "removed"}
        /\ UNCHANGED <<containers, db, request>>
    BY <2>1, MovedFrame DEF NoneRequested, SelfExit, LateCall
  <2>3. \A i \in Id :
          /\ Exists(i)' => Exists(i)
          /\ docker'[i].state = "none" <=> docker[i].state = "none"
          /\ docker'[i].state # "requested"
    BY <2>2 DEF Exists, NoneRequested
  <2>4. \A s \in Request : Active(s) => request[s].id \in Id
    BY DEF Typed, ActiveIds
  <2>5. NamedWasCreated'
    BY <2>2, <2>3, <2>4 DEF NamedWasCreated, InDb, Active, Creating
  <2>6. RemovalWorks'
    BY <2>2, <2>3, <2>4 DEF RemovalWorks, Deleting, Exists, Active
  <2>7. NoneRequested' /\ NoOrphans'
    BY <2>2, <2>3 DEF NoneRequested, NoOrphans, Creating, InMap
  <2> QED BY <2>2, <2>5, <2>6, <2>7 DEF CreatesDiffer, Creating
<1>4. CASE Restart
  <2>1. /\ UNCHANGED db /\ \A r \in Request : request'[r].pc = "idle"
        /\ containers' = [id \in Id |-> Synced(id)]
    BY <1>4 DEF Restart, Idle
  <2>2. \A id \in Id : Exists(id) => Synced(id).status # "absent"
    BY DEF Synced, Exists, NoEntry
  <2>3. \A id \in Id : docker'[id].state = docker[id].state
    BY <1>4, RestartFrame DEF OrphanFaultsExcluded
  <2>4. NoOrphans'
    BY <2>1, <2>2, <2>3 DEF NoOrphans, Exists, InMap
  <2> QED
    BY <2>1, <2>3, <2>4
    DEF NamedWasCreated, CreatesDiffer, RemovalWorks, NoneRequested, InDb, Active, Creating,
        CreatePcs, Deleting, DeletePcs
<1>5. CASE UNCHANGED vars
  BY <1>5
  DEF vars, NamedWasCreated, CreatesDiffer, RemovalWorks, NoneRequested, NoOrphans, InDb,
      InMap, Exists, Active, Creating, Deleting
<1> QED BY <1>1, <1>2, <1>3, <1>4, <1>5 DEF Next

\* The clean-up of a failed start and the order of the steps of a delete leave
\* no container behind in the daemon that neither the map nor a create knows,
\* with requests that overlap, emulators that exit, deletes that are repeated
\* and restarts that list the containers.  Excluded is what goes wrong unseen:
\* a create that was or will be carried out but seems to have failed, a removal
\* that was not carried out or will be only later, and a delete without force.
THEOREM NoOrphanIsLeft ==
  ASSUME OrphanFaultsExcluded, "unforced" \notin Hazards, "sync_failure" \notin Hazards
  PROVE  Spec => []NoOrphans
<1>1. Init => Typed /\ DaemonInv /\ OrphanInv
  BY TypedInit, DaemonInit
  DEF Init, Idle, NoContainer, OrphanInv, NamedWasCreated, CreatesDiffer, RemovalWorks,
      NoneRequested, NoOrphans, InDb, Exists, Active, Creating, CreatePcs, Deleting, DeletePcs
<1>2. Typed /\ DaemonInv /\ OrphanInv /\ [Next]_vars => (Typed /\ DaemonInv /\ OrphanInv)'
  BY TypedNext, DaemonNext, OrphanNext
<1>3. OrphanInv => NoOrphans
  BY DEF OrphanInv
<1> QED BY <1>1, <1>2, <1>3, PTL DEF Spec
=============================================================================
