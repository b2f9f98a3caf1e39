-------------------------- MODULE ContainerManager --------------------------
(***************************************************************************)
(* The container manager of src/internal/container/docker.go: a pool of    *)
(* host ports, the in-memory map of emulator containers, the Docker daemon *)
(* that runs them and the MongoDB collection that lists them.              *)
(*                                                                         *)
(* Every HTTP request runs in a goroutine of its own.  A request is a      *)
(* sequence of steps: each critical section of Manager.mu or of            *)
(* PortAllocator.mu, each call of the Docker API and each database call is *)
(* one step, and the steps of different requests interleave freely.        *)
(*                                                                         *)
(* The daemon and the database are external: they are modelled from the    *)
(* replies that the code tells apart.                                      *)
(***************************************************************************)
EXTENDS Integers, FiniteSets

CONSTANTS
  Request,       \* the request goroutines that may be active at once
  Id,            \* the container ids Docker can still hand out
  MinPort, MaxPort,
                 \* the range of the pool (10000 and 20000 in NewManager)
  DockerFaults,  \* the faulty replies <<call, fault>> the daemon may give
  Hazards,       \* what else the surroundings may do, see HazardKinds
  MaxRestarts    \* bound: how often the server process may be restarted

\* What clients, containers, the database and the operator may do:
\*   overlap       requests that name the same container run at the same time
\*   repeat_delete a container is deleted again after a delete of it began
\*   unforced      a delete comes without force=true
\*   self_exit     a running emulator exits by itself
\*   db_error      a database write fails (or there is no database)
\*   restart       the server process crashes and comes up again
\*   sync_failure  the listing of the containers at start-up fails
HazardKinds == {"overlap", "repeat_delete", "unforced", "self_exit",
                "db_error", "restart", "sync_failure"}

DockerCalls == {"create", "start", "stop", "remove"}

\* unreachable: not executed, transport error.  lost_reply: executed, but the
\* client sees a transport error (the 30 s timeout of the HTTP client).
\* refused: an error status.  garbled: executed, a body that does not decode.
\* late: a transport error, or the crash of the server, while the daemon has the
\* call: it may carry it out at any later time, as a stop in its grace period.
FaultKinds == {"unreachable", "lost_reply", "refused", "garbled", "late"}

Port == MinPort .. MaxPort

ASSUME PortAssumption == MinPort \in Nat \ {0} /\ MaxPort \in Nat
ASSUME IdAssumption == "none" \notin Id
ASSUME EnvironmentAssumption ==
  /\ DockerFaults \subseteq DockerCalls \X FaultKinds
  /\ Hazards \subseteq HazardKinds
  /\ MaxRestarts \in Nat

VARIABLES
  usedPorts,   \* PortAllocator.usedPorts
  containers,  \* Manager.containers
  docker,      \* the daemon's containers (external)
  db,          \* the emulators collection (external)
  request,     \* the local variables of every request goroutine
  released,    \* history: entries of the map whose ports were given back
  restarts     \* history: restarts so far

vars == <<usedPorts, containers, docker, db, request, released, restarts>>

-----------------------------------------------------------------------------
(* Values *)

NoPort == 0
PortOrNone == Port \cup {NoPort}

Status == {"creating", "starting", "running", "stopping", "stopped", "removing"}
DbStatus == Status \cup {"absent"}
Entry == [status: DbStatus, grpc: PortOrNone, adb: PortOrNone]
NoEntry == [status |-> "absent", grpc |-> NoPort, adb |-> NoPort]

\* requested: a create nobody waits for any more, not carried out yet.
DockerState == {"none", "requested", "created", "running", "exited", "removed"}
\* late: the calls <<call, force>> nobody waits for any more that the daemon may
\* still carry out (bound: of two equal ones it carries out one).  moved, a
\* history: the state has changed by itself or by such a call since the last
\* call that was waited for and carried out, or the last restart.
DockerContainer == [state: DockerState, grpc: PortOrNone, adb: PortOrNone,
                    late: SUBSET ({"start", "stop", "remove"} \X BOOLEAN),
                    moved: BOOLEAN]
NoContainer == [state |-> "none", grpc |-> NoPort, adb |-> NoPort,
                late |-> {}, moved |-> FALSE]

CreatePcs == {"allocate_adb", "docker_create", "docker_start", "cleanup",
              "release", "insert", "store"}
ChangePcs == {"mark", "docker_change", "settle", "record"}
DeletePcs == {"mark_removing", "release_entry", "docker_remove", "forget",
              "db_delete"}
Pcs == {"idle"} \cup CreatePcs \cup ChangePcs \cup DeletePcs

RequestState == [op: {"none", "create", "start", "stop", "delete"}, pc: Pcs,
                 id: Id \cup {"none"}, grpc: PortOrNone, adb: PortOrNone,
                 force: BOOLEAN]
Idle == [op |-> "none", pc |-> "idle", id |-> "none", grpc |-> NoPort,
         adb |-> NoPort, force |-> FALSE]

-----------------------------------------------------------------------------
(* State functions *)

PortsOf(holder) == {holder.grpc, holder.adb} \ {NoPort}
\* Mutant: a loop that runs one past maxPort.
FreePortsPastEnd == (MinPort .. MaxPort + 1) \ usedPorts
FreePorts == Port \ usedPorts
InMap(id) == containers[id].status # "absent"
InDb(id) == db[id] # "absent"
Exists(id) == docker[id].state \in {"created", "running", "exited"}
Active(r) == request[r].pc # "idle"
Creating(r) == request[r].pc \in CreatePcs
Deleting(r) == request[r].pc \in DeletePcs

\* A request other than r is working on container id.
BusyFor(r, id) == \E s \in Request \ {r} : Active(s) /\ request[s].id = id
AtRest(id) == \A r \in Request : Active(r) => request[r].id # id

\* A running container other than id is bound to one of the ports.
PortsBound(id, ports) ==
  \E other \in Id \ {id} :
    docker[other].state = "running" /\ PortsOf(docker[other]) \cap ports # {}

-----------------------------------------------------------------------------
(* The Docker daemon: what a call does and whether it succeeds *)

DockerAccepts(call, id, force) ==
  CASE call = "create" -> docker[id].state = "none"
    [] call = "start"  -> /\ Exists(id)
                          /\ docker[id].state # "running" =>
                               ~PortsBound(id, PortsOf(docker[id]))
    [] call = "stop"   -> Exists(id)
    [] call = "remove" -> Exists(id) /\ (docker[id].state = "running" => force)

DockerEffect(call, id, grpc, adb) ==
  CASE call = "create" -> [NoContainer EXCEPT !.state = "created", !.grpc = grpc, !.adb = adb]
    [] call = "start"  -> [docker[id] EXCEPT !.state = "running", !.moved = FALSE]
    [] call = "stop"   -> [docker[id] EXCEPT !.state = IF @ = "running" THEN "exited" ELSE @,
                                             !.moved = FALSE]
    [] call = "remove" -> [docker[id] EXCEPT !.state = "removed", !.moved = FALSE]

\* A call of request r that the daemon has and nobody waits for any more.
LeftToDaemon(call, r) ==
  LET id == request[r].id
  IN IF call = "create"
     THEN [NoContainer EXCEPT !.state = "requested", !.grpc = request[r].grpc,
                              !.adb = request[r].adb]
     ELSE [docker[id] EXCEPT !.late = @ \cup {<<call, request[r].force>>}]

\* One call of the daemon by request r and the reply the code sees: "ok",
\* "refused" for an error status, "error" for a transport error, "garbled".
Docker(call, r, reply) ==
  LET id == request[r].id
      Faulty(fault) == <<call, fault>> \in DockerFaults
      Accepted == DockerAccepts(call, id, request[r].force)
      Executed == docker' = [docker EXCEPT ![id] =
                               DockerEffect(call, id, request[r].grpc, request[r].adb)]
  IN \/ reply = "ok" /\ Accepted /\ Executed
     \/ reply = "garbled" /\ Faulty("garbled") /\ Accepted /\ Executed
     \/ reply = "error" /\ Faulty("lost_reply") /\ Accepted /\ Executed
     \/ reply = "error" /\ Faulty("late") /\ Accepted
        /\ docker' = [docker EXCEPT ![id] = LeftToDaemon(call, r)]
     \/ reply = "error" /\ Faulty("unreachable") /\ UNCHANGED docker
     \/ reply = "refused" /\ (Faulty("refused") \/ ~Accepted) /\ UNCHANGED docker

\* A write of the database: the code logs a failure and goes on.
Write(newDb) ==
  \/ db' = newDb
  \/ "db_error" \in Hazards /\ UNCHANGED db

Goto(r, pc) == request' = [request EXCEPT ![r].pc = pc]
Return(r) == request' = [request EXCEPT ![r] = Idle]

-----------------------------------------------------------------------------
(* CreateContainer *)

\* Mutant: any free port, as a search that goes on where the last one ended.
AllocateNext(port) == usedPorts' = usedPorts \cup {port}

\* port is the lowest free one, as the loop of Allocate finds it.
Allocate(port) ==
  /\ \A free \in FreePorts : port <= free
  /\ usedPorts' = usedPorts \cup {port}

Release(ports) == usedPorts' = usedPorts \ ports

\* The gRPC port.  id is the one the daemon will give the container.  With no
\* free port the request ends here and nothing has changed.
AllocateGRPC(r, id, enableADB) ==
  /\ ~Active(r)
  /\ docker[id].state = "none" /\ ~BusyFor(r, id)
  /\ \E port \in FreePorts :
       /\ Allocate(port)
       /\ request' = [request EXCEPT ![r] =
            [Idle EXCEPT !.op = "create", !.id = id, !.grpc = port,
                         !.pc = IF enableADB THEN "allocate_adb" ELSE "docker_create"]]
  /\ UNCHANGED <<containers, docker, db, released, restarts>>

\* Mutant: an exhausted pool does not end the request.
AllocateADBGoesOn(r) ==
  /\ request[r].pc = "allocate_adb"
  /\ \/ \E port \in FreePorts :
          /\ Allocate(port)
          /\ request' = [request EXCEPT ![r] = [@ EXCEPT !.adb = port, !.pc = "docker_create"]]
     \/ FreePorts = {} /\ Release({request[r].grpc}) /\ Goto(r, "docker_create")
  /\ UNCHANGED <<containers, docker, db, released, restarts>>

\* Mutant: an exhausted pool ends the request, the gRPC port is kept.
AllocateADBKeeps(r) ==
  /\ request[r].pc = "allocate_adb"
  /\ \/ \E port \in FreePorts :
          /\ Allocate(port)
          /\ request' = [request EXCEPT ![r] = [@ EXCEPT !.adb = port, !.pc = "docker_create"]]
     \/ FreePorts = {} /\ UNCHANGED usedPorts /\ Return(r)
  /\ UNCHANGED <<containers, docker, db, released, restarts>>

\* The ADB port, or the end of the request when the pool is exhausted.
AllocateADB(r) ==
  /\ request[r].pc = "allocate_adb"
  /\ \/ \E port \in FreePorts :
          /\ Allocate(port)
          /\ request' = [request EXCEPT ![r] = [@ EXCEPT !.adb = port, !.pc = "docker_create"]]
     \/ FreePorts = {} /\ Release({request[r].grpc}) /\ Return(r)
  /\ UNCHANGED <<containers, docker, db, released, restarts>>

\* POST /containers/create.  A body that does not decode ends the request
\* without giving the ports back.
CreateInDocker(r) ==
  /\ request[r].pc = "docker_create"
  /\ \/ Docker("create", r, "ok") /\ Goto(r, "docker_start")
     \/ \E reply \in {"error", "refused"} :
          Docker("create", r, reply) /\ Goto(r, "release")
     \/ Docker("create", r, "garbled") /\ Return(r)
  /\ UNCHANGED <<usedPorts, containers, db, released, restarts>>

\* Mutant: the clean-up of a failed start without force.
StartInDockerUnforced(r) ==
  /\ request[r].pc = "docker_start"
  /\ \/ Docker("start", r, "ok") /\ Goto(r, "insert")
     \/ \E reply \in {"error", "refused"} :
          Docker("start", r, reply) /\ Goto(r, "cleanup")
  /\ UNCHANGED <<usedPorts, containers, db, released, restarts>>

\* POST /containers/{id}/start of the new container.
StartInDocker(r) ==
  /\ request[r].pc = "docker_start"
  /\ \/ Docker("start", r, "ok") /\ Goto(r, "insert")
     \/ \E reply \in {"error", "refused"} :
          Docker("start", r, reply) /\ request' =
            [request EXCEPT ![r] = [@ EXCEPT !.pc = "cleanup", !.force = TRUE]]
  /\ UNCHANGED <<usedPorts, containers, db, released, restarts>>

\* deleteContainer(force) after a failed start: whatever the reply is, the
\* ports are given back next.
Cleanup(r) ==
  /\ request[r].pc = "cleanup"
  /\ \E reply \in {"ok", "error", "refused"} : Docker("remove", r, reply)
  /\ Goto(r, "release")
  /\ UNCHANGED <<usedPorts, containers, db, released, restarts>>

ReleasePorts(r) ==
  /\ request[r].pc = "release"
  /\ Release(PortsOf(request[r]))
  /\ Return(r)
  /\ UNCHANGED <<containers, docker, db, released, restarts>>

\* Mutant: the document is saved before the status is set to running.
InsertInDbEarly(r) ==
  /\ request[r].pc = "insert"
  /\ Write([db EXCEPT ![request[r].id] = "starting"])
  /\ Goto(r, "store")
  /\ UNCHANGED <<usedPorts, containers, docker, released, restarts>>

\* Mutant: no document is saved.
InsertInDbNot(r) ==
  /\ request[r].pc = "insert"
  /\ Goto(r, "store")
  /\ UNCHANGED <<usedPorts, containers, docker, db, released, restarts>>

\* The document of the new container.
InsertInDb(r) ==
  /\ request[r].pc = "insert"
  /\ Write([db EXCEPT ![request[r].id] = "running"])
  /\ Goto(r, "store")
  /\ UNCHANGED <<usedPorts, containers, docker, released, restarts>>

\* Mutant: the two ports are swapped.
StoreInMapSwapped(r) ==
  /\ request[r].pc = "store"
  /\ containers' = [containers EXCEPT ![request[r].id] =
       [status |-> "running", grpc |-> request[r].adb, adb |-> request[r].grpc]]
  /\ Return(r)
  /\ UNCHANGED <<usedPorts, docker, db, released, restarts>>

StoreInMap(r) ==
  /\ request[r].pc = "store"
  /\ containers' = [containers EXCEPT ![request[r].id] =
       [status |-> "running", grpc |-> request[r].grpc, adb |-> request[r].adb]]
  /\ Return(r)
  /\ UNCHANGED <<usedPorts, docker, db, released, restarts>>

-----------------------------------------------------------------------------
(* The handlers that name a container *)

\* The status an entry has, if the map has one, after the step.
SetStatus(id, status) ==
  containers' = [containers EXCEPT ![id].status = IF @ = "absent" THEN @ ELSE status]

Begins(r, op, id, pc, force) ==
  /\ ~Active(r)
  /\ InMap(id) \/ InDb(id)
  /\ "overlap" \in Hazards \/ ~BusyFor(r, id)
  /\ request' = [request EXCEPT ![r] =
       [Idle EXCEPT !.op = op, !.id = id, !.pc = pc, !.force = force]]
  /\ UNCHANGED <<usedPorts, containers, docker, db, released, restarts>>

\* Stop looks the container up in the map and then in the database; start does
\* not, but a client only knows ids that one of the two has listed.
BeginChange(r, op, id) == op \in {"start", "stop"} /\ Begins(r, op, id, "mark", FALSE)

\* Without repeat_delete a client does not delete a container again once a
\* delete of it is under way or has given its ports back.
BeginDelete(r, id, force) ==
  /\ ~force => "unforced" \in Hazards
  /\ \/ "repeat_delete" \in Hazards
     \/ /\ id \notin released
        /\ \A s \in Request : Deleting(s) => request[s].id # id
  /\ Begins(r, "delete", id, "mark_removing", force)

\* StopContainer and StartContainer differ in the two statuses only.
Transient(op) == IF op = "stop" THEN "stopping" ELSE "starting"
Final(op) == IF op = "stop" THEN "stopped" ELSE "running"

Mark(r) ==
  /\ request[r].pc = "mark"
  /\ SetStatus(request[r].id, Transient(request[r].op))
  /\ Goto(r, "docker_change")
  /\ UNCHANGED <<usedPorts, docker, db, released, restarts>>

\* Mutant: an error status is taken for success.
ChangeInDockerUnchecked(r) ==
  /\ request[r].pc = "docker_change"
  /\ \/ \E reply \in {"ok", "refused"} :
          Docker(request[r].op, r, reply) /\ Goto(r, "settle")
     \/ Docker(request[r].op, r, "error") /\ Return(r)
  /\ UNCHANGED <<usedPorts, containers, db, released, restarts>>

\* Any failure returns and leaves the transient status in the map.
ChangeInDocker(r) ==
  /\ request[r].pc = "docker_change"
  /\ \/ Docker(request[r].op, r, "ok") /\ Goto(r, "settle")
     \/ \E reply \in {"error", "refused"} : Docker(request[r].op, r, reply) /\ Return(r)
  /\ UNCHANGED <<usedPorts, containers, db, released, restarts>>

\* Mutant: the final status is written to the database only.
SettleSkipped(r) ==
  /\ request[r].pc = "settle"
  /\ Goto(r, "record")
  /\ UNCHANGED <<usedPorts, containers, docker, db, released, restarts>>

Settle(r) ==
  /\ request[r].pc = "settle"
  /\ SetStatus(request[r].id, Final(request[r].op))
  /\ Goto(r, "record")
  /\ UNCHANGED <<usedPorts, docker, db, released, restarts>>

\* UpdateOne: a container the collection does not hold stays out of it.
Record(r) ==
  /\ request[r].pc = "record"
  /\ Write([db EXCEPT ![request[r].id] =
              IF @ = "absent" THEN @ ELSE Final(request[r].op)])
  /\ Return(r)
  /\ UNCHANGED <<usedPorts, containers, docker, released, restarts>>

-----------------------------------------------------------------------------
(* DeleteContainer *)

MarkRemoving(r) ==
  /\ request[r].pc = "mark_removing"
  /\ SetStatus(request[r].id, "removing")
  /\ Goto(r, "release_entry")
  /\ UNCHANGED <<usedPorts, docker, db, released, restarts>>

\* The ports go back to the pool before the daemon is asked.
ReleaseEntry(r) ==
  LET id == request[r].id IN
  /\ request[r].pc = "release_entry"
  /\ Release(PortsOf(containers[id]))
  /\ released' = IF InMap(id) THEN released \cup {id} ELSE released
  /\ Goto(r, "docker_remove")
  /\ UNCHANGED <<containers, docker, db, restarts>>

\* deleteContainer looks at transport errors only, not at the status.
RemoveInDocker(r) ==
  /\ request[r].pc = "docker_remove"
  /\ \/ \E reply \in {"ok", "refused"} :
          Docker("remove", r, reply) /\ Goto(r, "forget")
     \/ Docker("remove", r, "error") /\ Return(r)
  /\ UNCHANGED <<usedPorts, containers, db, released, restarts>>

Forget(r) ==
  /\ request[r].pc = "forget"
  /\ containers' = [containers EXCEPT ![request[r].id] = NoEntry]
  /\ Goto(r, "db_delete")
  /\ UNCHANGED <<usedPorts, docker, db, released, restarts>>

DeleteFromDb(r) ==
  /\ request[r].pc = "db_delete"
  /\ Write([db EXCEPT ![request[r].id] = "absent"])
  /\ Return(r)
  /\ UNCHANGED <<usedPorts, containers, docker, released, restarts>>

-----------------------------------------------------------------------------
(* The surroundings *)

SelfExit(id) ==
  /\ "self_exit" \in Hazards
  /\ docker[id].state = "running"
  /\ docker' = [docker EXCEPT ![id].state = "exited", ![id].moved = TRUE]
  /\ UNCHANGED <<usedPorts, containers, db, request, released, restarts>>

\* The daemon gets to a call nobody waits for any more, and the call changes
\* the container.
LateCall(id) ==
  /\ \/ /\ docker[id].state = "requested"
        /\ docker' = [docker EXCEPT ![id].state = "created"]
     \/ \E call \in {"start", "stop", "remove"}, force \in BOOLEAN :
          LET new == DockerEffect(call, id, NoPort, NoPort) IN
          /\ <<call, force>> \in docker[id].late
          /\ DockerAccepts(call, id, force) /\ new.state # docker[id].state
          /\ docker' = [docker EXCEPT ![id] =
               [new EXCEPT !.late = @ \ {<<call, force>>}, !.moved = TRUE]]
  /\ UNCHANGED <<usedPorts, containers, db, request, released, restarts>>

\* dockerToEmulatorContainer: the listing shows public ports of running
\* containers only.
Synced(id) ==
  CASE docker[id].state = "running" ->
         [status |-> "running", grpc |-> docker[id].grpc, adb |-> docker[id].adb]
    [] docker[id].state = "created" -> [NoEntry EXCEPT !.status = "creating"]
    [] docker[id].state = "exited"  -> [NoEntry EXCEPT !.status = "stopped"]
    [] OTHER -> NoEntry

\* Mutant: the ADB port is not reserved.
ReservedGrpcOnly(entry) == {entry.grpc} \ {NoPort}

\* What syncContainers marks as used for an entry.
Reserved(entry) == PortsOf(entry)

\* The call of the daemon that request r is waiting for, if any.
CallOf(r) ==
  CASE request[r].pc = "docker_create" -> "create"
    [] request[r].pc = "docker_start"  -> "start"
    [] request[r].pc = "docker_change" -> request[r].op
    [] request[r].pc \in {"cleanup", "docker_remove"} -> "remove"
    [] OTHER -> "none"

\* A container after a crash of the server: calls under way are left to the
\* daemon.
AfterCrash(id) ==
  LET left == {r \in Request : request[r].id = id /\ <<CallOf(r), "late">> \in DockerFaults}
      creating == {r \in left : CallOf(r) = "create"}
  IN IF docker[id].state = "none" /\ creating # {}
     THEN LeftToDaemon("create", CHOOSE r \in creating : TRUE)
     ELSE [docker[id] EXCEPT
            !.late = @ \cup {<<CallOf(r), request[r].force>> : r \in left \ creating},
            !.moved = FALSE]

\* A crash and NewManager of the next process: requests in flight are gone, but
\* for the calls that the daemon has.  A failing syncContainers is a warning only.
Restart ==
  /\ "restart" \in Hazards /\ restarts < MaxRestarts
  /\ restarts' = restarts + 1
  /\ \/ /\ containers' = [id \in Id |-> Synced(id)]
        /\ usedPorts' = UNION {Reserved(Synced(id)) : id \in Id}
     \/ /\ "sync_failure" \in Hazards
        /\ containers' = [id \in Id |-> NoEntry]
        /\ usedPorts' = {}
  /\ request' = [r \in Request |-> Idle]
  /\ released' = {}
  /\ docker' = [id \in Id |-> AfterCrash(id)]
  /\ UNCHANGED db

-----------------------------------------------------------------------------
Init ==
  /\ usedPorts = {}
  /\ containers = [id \in Id |-> NoEntry]
  /\ docker = [id \in Id |-> NoContainer]
  /\ db = [id \in Id |-> "absent"]
  /\ request = [r \in Request |-> Idle]
  /\ released = {}
  /\ restarts = 0

CreateSteps(r) ==
  \/ AllocateADB(r) \/ CreateInDocker(r) \/ StartInDocker(r) \/ Cleanup(r)
  \/ ReleasePorts(r) \/ InsertInDb(r) \/ StoreInMap(r)
ChangeSteps(r) == Mark(r) \/ ChangeInDocker(r) \/ Settle(r) \/ Record(r)
DeleteSteps(r) ==
  \/ MarkRemoving(r) \/ ReleaseEntry(r) \/ RemoveInDocker(r) \/ Forget(r)
  \/ DeleteFromDb(r)

\* What a request that has begun does next.
Step(r) == CreateSteps(r) \/ ChangeSteps(r) \/ DeleteSteps(r)

Begin(r) ==
  \E id \in Id :
    \/ \E enableADB \in BOOLEAN : AllocateGRPC(r, id, enableADB)
    \/ \E op \in {"start", "stop"} : BeginChange(r, op, id)
    \/ \E force \in BOOLEAN : BeginDelete(r, id, force)

Next ==
  \/ \E r \in Request : Begin(r) \/ Step(r)
  \/ \E id \in Id : SelfExit(id) \/ LateCall(id)
  \/ Restart

Spec == Init /\ [][Next]_vars

\* Go schedules every goroutine, and the 30 s timeout of the HTTP client ends
\* every call of the daemon: a request that has begun takes its next step.
FairSpec == Spec /\ \A r \in Request : WF_vars(Step(r))

-----------------------------------------------------------------------------
(* Invariants *)

\* Every variable has its type.
TypeOK ==
  /\ usedPorts \subseteq Port
  /\ containers \in [Id -> Entry]
  /\ docker \in [Id -> DockerContainer]
  /\ db \in [Id -> DbStatus]
  /\ request \in [Request -> RequestState]
  /\ released \subseteq Id
  /\ restarts \in Nat

\* An entry of the map owns its ports until a delete has given them back; a
\* create owns the ports it has allocated until it stores or releases them.
Owns(id) == InMap(id) /\ id \notin released

\* Allocate (docker.go:51) reserves: no two owners ever hold the same port,
\* whatever requests overlap, calls fail or restarts happen in between.
ExclusivePorts ==
  /\ \A r, s \in Request :
       r # s /\ Creating(r) /\ Creating(s) =>
         PortsOf(request[r]) \cap PortsOf(request[s]) = {}
  /\ \A r \in Request, id \in Id :
       Creating(r) /\ Owns(id) => PortsOf(request[r]) \cap PortsOf(containers[id]) = {}
  /\ \A a, b \in Id :
       a # b /\ Owns(a) /\ Owns(b) => PortsOf(containers[a]) \cap PortsOf(containers[b]) = {}

\* A port somebody owns is marked in usedPorts, so that Allocate passes over
\* it (docker.go:56-61, and docker.go:271-281 after a restart).
HeldPortsReserved ==
  /\ \A r \in Request : Creating(r) => PortsOf(request[r]) \subseteq usedPorts
  /\ \A id \in Id : Owns(id) => PortsOf(containers[id]) \subseteq usedPorts

\* Every exit of CreateContainer and DeleteContainer gives back what it took
\* (docker.go:363, 492-495, 502-505, 523-526, 533-536, 719-729): a port that is
\* marked as used has an owner.
NoPortLeak ==
  usedPorts \subseteq
    UNION ({PortsOf(request[r]) : r \in {s \in Request : Creating(s)}}
           \cup {PortsOf(containers[id]) : id \in {i \in Id : Owns(i)}})

\* A container that exists in the daemon is in the map or a create is still
\* responsible for it: the clean-up of a failed start (docker.go:522, 532) and
\* the order of the steps of a delete leave none behind.
NoOrphans ==
  \A id \in Id : Exists(id) =>
    InMap(id) \/ \E r \in Request : Creating(r) /\ request[r].id = id

\* When nothing is under way for a container, the status the map shows as
\* settled is the daemon's (models.go:35, "Current status"), also after a
\* restart, unless the container has exited by itself or by a call nobody
\* waited for since the manager last heard of it: nothing tells it of those.
StatusFaithful ==
  \A id \in Id : AtRest(id) /\ ~docker[id].moved =>
    /\ containers[id].status = "running" => docker[id].state = "running"
    /\ containers[id].status = "stopped" => docker[id].state \in {"created", "exited"}

\* GetContainerAddress (docker.go:810-821) gives localhost:GRPCPort for an
\* entry that is running: the daemon has bound that very port to it, unless the
\* container has been moved without the manager.  (Until the first restart: an
\* entry that was stopped then has no port any more.)
AddressReachable ==
  \A id \in Id : AtRest(id) /\ ~docker[id].moved /\ restarts = 0
                /\ containers[id].status = "running" =>
    docker[id].state = "running" /\ docker[id].grpc = containers[id].grpc
      /\ containers[id].grpc # NoPort

\* The list of containers comes from the database, a single container from the
\* map (docker.go:751-782): at rest they agree on a settled status.  (Until
\* the first restart, which forgets the requests between the two writes.)
DatabaseFollowsMap ==
  \A id \in Id : AtRest(id) /\ containers[id].status \in {"running", "stopped"} /\ restarts = 0 =>
    db[id] = containers[id].status

\* The ports a create is about to bind are not bound by another container
\* (docker.go:51, "finds and reserves an available port").
AllocatedPortsAvailable ==
  \A r \in Request : request[r].pc = "docker_start" =>
    ~PortsBound(request[r].id, PortsOf(request[r]))

\* The ports of a container in the map that Docker still has are reserved
\* until it is deleted (docker.go:271, "Reserve ports that are already in use
\* by existing containers").
ExistingPortsReserved ==
  \A id \in Id : Owns(id) /\ Exists(id) => PortsOf(docker[id]) \subseteq usedPorts
=============================================================================
