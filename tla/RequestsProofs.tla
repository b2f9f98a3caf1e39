--------------------------- MODULE RequestsProofs ---------------------------
(***************************************************************************)
(* Theorems about Requests: the HTTP API uses the container manager as     *)
(* ContainerManager says, and what its replies tell is so.                 *)
(*                                                                         *)
(* A reply is judged in the state that it is sent in, but most of it was   *)
(* read one or more steps earlier, so that the invariants say what the     *)
(* steps in between cannot have undone.                                    *)
(***************************************************************************)
EXTENDS Requests, ContainerManagerProofs

\* What the surroundings of Requests do: its clients delete with and without
\* force, and delete again; requests that change a container do not overlap,
\* the daemon carries out no call late, and the database works.
ApiSurroundings ==
  /\ "unforced" \in Hazards /\ "repeat_delete" \in Hazards
  /\ "overlap" \notin Hazards /\ "db_error" \notin Hazards
  /\ \A call \in DockerCalls : <<call, "late">> \notin DockerFaults

\* Calls the daemon must not have carried out when the code thinks it has not.
NothingUnknown ==
  <<"stop", "lost_reply">> \notin DockerFaults /\ <<"remove", "lost_reply">> \notin DockerFaults

\* A handler that waits for the manager has a request of the manager, and it
\* alone; one that waits for the database has none.
Coupled ==
  /\ http \in [Request -> HttpState] /\ available \in BOOLEAN
  /\ \A r \in Request :
       /\ Active(r) <=> http[r].stage = "manager"
       /\ http[r].stage = "manager" =>
            http[r].op = request[r].op /\ http[r].id = request[r].id
       /\ http[r].stage = "database" => http[r].op \in LookedUp /\ http[r].id \in Id
       /\ Free(r) => http[r] = Waiting

-----------------------------------------------------------------------------
(* The API drives the manager *)

LEMMA DeleteBegins ==
  ASSUME ApiSurroundings, NEW r \in Request, NEW id \in Id, NEW force \in BOOLEAN,
         Begins(r, "delete", id, "mark_removing", force)
  PROVE  Begin(r)
BY DEF ApiSurroundings, Begin, BeginDelete

LEMMA StopBegins ==
  ASSUME NEW r \in Request, NEW id \in Id, Begins(r, "stop", id, "mark", FALSE)
  PROVE  Begin(r)
BY DEF Begin, BeginChange

LEMMA FoundDrives ==
  ASSUME ApiSurroundings, NEW r \in Request, NEW op, NEW id \in Id, NEW user,
         NEW force \in BOOLEAN, NEW status, NEW port, Found(r, op, id, user, force, status, port)
  PROVE  UNCHANGED vars \/ Begin(r)
BY DeleteBegins, StopBegins DEF Found, Get, Connect, Stop, Delete

\* What a step of the API is to the manager.
LEMMA ApiDrives ==
  ASSUME ApiSurroundings, Coupled, ApiNext
  PROVE  UNCHANGED vars \/ \E r \in Request : Begin(r) \/ Step(r)
<1>1. CASE Seen
  BY <1>1 DEF Seen
<1>2. ASSUME NEW r \in Request, Arrive(r)
      PROVE  UNCHANGED vars \/ Begin(r)
  <2>1. CASE Rejected(r) \/ Malformed(r)
    BY <2>1 DEF Rejected, Malformed
  <2>2. ASSUME NEW user, NEW filter, List(r, user, filter)
        PROVE  UNCHANGED vars
    BY <2>2 DEF List
  <2>3. ASSUME NEW user, NEW id \in Id, NEW enableADB \in BOOLEAN, Create(r, id, user, enableADB)
        PROVE  UNCHANGED vars \/ Begin(r)
    BY <2>3 DEF Create, Begin
  <2>4. ASSUME NEW user, NEW id \in Id, Start(r, id, user)
        PROVE  Begin(r)
    BY <2>4 DEF Start, Begin
  <2>5. ASSUME NEW user, NEW id \in Id, NEW op, NEW force \in BOOLEAN,
               LookUp(r, op, id, user, force)
        PROVE  UNCHANGED vars \/ Begin(r)
    BY <2>5, FoundDrives DEF LookUp
  <2> QED BY <1>2, <2>1, <2>2, <2>3, <2>4, <2>5 DEF Arrive
<1>3. ASSUME NEW r \in Request, Continue(r)
      PROVE  UNCHANGED vars \/ Begin(r) \/ Step(r)
  <2>1. CASE Work(r)
    BY <2>1 DEF Work
  <2>2. ASSUME NEW force \in BOOLEAN, LookUpInDb(r, force)
        PROVE  UNCHANGED vars \/ Begin(r)
    <3>1. http[r].id \in Id
      BY <2>2 DEF LookUpInDb, Coupled
    <3> QED BY <2>2, <3>1, FoundDrives DEF LookUpInDb
  <2> QED BY <1>3, <2>1, <2>2 DEF Continue
<1> QED BY <1>1, <1>2, <1>3 DEF ApiNext

-----------------------------------------------------------------------------
(* What the manager keeps true between the steps of a handler *)

\* Which steps belong to which operation.
OpOfPc ==
  \A r \in Request :
    /\ Creating(r) => request[r].op = "create"
    /\ request[r].pc \in ChangePcs => request[r].op \in {"start", "stop"}
    /\ Deleting(r) => request[r].op = "delete"

\* What the daemon has done is still so when the database is told.
Recorded ==
  \A r \in Request :
    request[r].pc = "record" =>
      docker[request[r].id].state \in
        (IF request[r].op = "start" THEN {"running"} ELSE {"created", "exited"})

\* The database has no document of a container that is still being created.
Unlisted ==
  /\ \A id \in Id : InDb(id) => docker[id].state # "none"
  /\ \A r \in Request : request[r].pc \in CreatePcs \ {"store"} => ~InDb(request[r].id)

\* The handlers that stop or remove a container have done so and go on.
Ending(r) ==
  \/ request[r].pc \in {"settle", "record"} /\ request[r].op = "stop"
  \/ request[r].pc \in {"forget", "db_delete"}

\* A document that says running is right, or somebody is about to change it.
DocumentLive ==
  \A id \in Id : db[id] = "running" =>
    docker[id].state = "running" \/ \E r \in Request : Ending(r) /\ request[r].id = id

\* A forced delete has removed the container when it goes on.
Removed ==
  \A r \in Request :
    request[r].pc \in {"forget", "db_delete"} /\ request[r].force => ~Exists(request[r].id)

\* No container moves without the manager.
NoneMoved == \A id \in Id : ~docker[id].moved

ManagerInv ==
  /\ SoloIInv /\ StatusInv /\ AddressInv /\ DatabaseInv /\ restarts = 0
  /\ OpOfPc /\ Recorded /\ Unlisted /\ NoneMoved

LEMMA OpOfPcStep ==
  ASSUME Typed, OpOfPc, NEW r \in Request, Step(r)
  PROVE  OpOfPc'
<1>1. ASSUME NEW s \in Request \ {r}
      PROVE  request'[s] = request[s]
  BY StepLocal
<1>2. CASE request'[r] = Idle
  BY <1>1, <1>2
  DEF OpOfPc, Idle, Creating, Deleting, CreatePcs, ChangePcs, DeletePcs
<1>3. CASE request'[r].op = request[r].op /\ request'[r].pc # "idle"
  <2>1. /\ Creating(r)' => Creating(r)
        /\ request'[r].pc \in ChangePcs => request[r].pc \in ChangePcs
        /\ Deleting(r)' => Deleting(r)
    BY PcFlow
    DEF Creating, Deleting, CreatePcs, ChangePcs, DeletePcs, AllocateADB, CreateInDocker,
        StartInDocker, Cleanup, InsertInDb, Mark, ChangeInDocker, Settle, MarkRemoving,
        ReleaseEntry, RemoveInDocker, Forget
  <2> QED BY <1>1, <1>3, <2>1 DEF OpOfPc, Creating, Deleting
<1> QED BY <1>2, <1>3, StepLocal

LEMMA MovedStep ==
  ASSUME Typed, NoneMoved, NEW r \in Request, Step(r)
  PROVE  NoneMoved'
<1>1. request[r].id \in Id /\ Active(r)
  BY StepLocal
<1>2. ASSUME NEW call \in DockerCalls, NEW answer, Docker(call, r, answer)
      PROVE  ~docker'[request[r].id].moved
  BY <1>1, <1>2, CallEffect DEF NoneMoved
<1>3. ~docker'[request[r].id].moved
  <2>1. CASE CreateInDocker(r) \/ StartInDocker(r) \/ Cleanup(r) \/ ChangeInDocker(r)
              \/ RemoveInDocker(r)
    <3>1. PICK call \in DockerCalls, answer \in {"ok", "error", "refused", "garbled"} :
            Docker(call, r, answer)
      BY <2>1 DEF CreateInDocker, StartInDocker, Cleanup, ChangeInDocker, RemoveInDocker,
                  DockerCalls, Typed, ActiveIds, ChangePcs
    <3> QED BY <1>2, <3>1
  <2>2. CASE UNCHANGED docker
    BY <1>1, <2>2 DEF NoneMoved
  <2> QED
    BY <2>1, <2>2
    DEF Step, CreateSteps, ChangeSteps, DeleteSteps, AllocateADB, ReleasePorts, InsertInDb,
        StoreInMap, Mark, Settle, Record, MarkRemoving, ReleaseEntry, Forget, DeleteFromDb
<1> QED BY <1>3, StepLocal DEF NoneMoved

LEMMA RecordedStep ==
  ASSUME SoloIInv, StatusInv, NoneMoved, Recorded, NEW r \in Request, Step(r)
  PROVE  Recorded'
<1> USE DEF SoloIInv, SoloInv
<1>1. ASSUME NEW s \in Request \ {r}, request'[s].pc = "record"
      PROVE  docker'[request'[s].id].state \in
               (IF request'[s].op = "start" THEN {"running"} ELSE {"created", "exited"})
  BY <1>1, OthersKeep DEF Recorded, Active
<1>2. ASSUME request'[r].pc = "record"
      PROVE  docker'[request'[r].id].state \in
               (IF request'[r].op = "start" THEN {"running"} ELSE {"created", "exited"})
  <2>1. /\ Settle(r) /\ request'[r].id = request[r].id /\ request'[r].op = request[r].op
    BY <1>2, PcFlow, StepLocal DEF Idle
  <2> QED BY <2>1, StepLocal DEF Settle, StatusInv, ReplyStillTrue, NoneMoved
<1> QED BY <1>1, <1>2 DEF Recorded

LEMMA UnlistedStep ==
  ASSUME SoloIInv, StatusInv, NoneMoved, Unlisted, NEW r \in Request, Step(r)
  PROVE  Unlisted'
<1> USE DEF SoloIInv, SoloInv
<1>0. PICK id \in Id : id = request[r].id
  BY StepLocal
<1>1. ASSUME NEW i \in Id, InDb(i)'
      PROVE  docker'[i].state # "none"
  <2>1. CASE InDb(i)
    BY <2>1, DockerSteps DEF Unlisted
  <2>2. CASE ~InDb(i)
    <3>1. i = id
      BY <1>0, <1>1, <2>2, StepLocal DEF InDb
    <3>2. InsertInDb(r)
      BY <1>0, <1>1, <2>2, <3>1
      DEF Typed, TypeOK, InDb, Step, CreateSteps, ChangeSteps, DeleteSteps, AllocateADB,
          CreateInDocker, StartInDocker, Cleanup, ReleasePorts, StoreInMap, Mark,
          ChangeInDocker, Settle, Record, Write, MarkRemoving, ReleaseEntry,
          RemoveInDocker, Forget, DeleteFromDb
    <3> QED BY <1>0, <3>1, <3>2 DEF InsertInDb, StatusInv, ReplyStillTrue, NoneMoved
  <2> QED BY <2>1, <2>2
<1>2. ASSUME NEW s \in Request \ {r}, request'[s].pc \in CreatePcs \ {"store"}
      PROVE  db'[request'[s].id] = "absent"
  BY <1>2, OthersKeep DEF Unlisted, Active, CreatePcs, InDb
<1>3. ASSUME request'[r].pc \in CreatePcs \ {"store"}
      PROVE  db'[request'[r].id] = "absent"
  <2>1. /\ AllocateADB(r) \/ CreateInDocker(r) \/ StartInDocker(r) \/ Cleanup(r)
        /\ request'[r].id = id
    BY <1>0, <1>3, PcFlow, StepLocal DEF Idle, CreatePcs
  <2>2. /\ UNCHANGED db /\ request[r].pc \in CreatePcs \ {"store"}
    BY <2>1 DEF AllocateADB, CreateInDocker, StartInDocker, Cleanup, CreatePcs
  <2> QED BY <1>0, <2>1, <2>2 DEF Unlisted, InDb
<1> QED BY <1>1, <1>2, <1>3 DEF Unlisted, InDb

\* What a request that begins works on and as what.
LEMMA BeginOp ==
  ASSUME Typed, NEW r \in Request, Begin(r)
  PROVE  /\ request'[r].pc \in {"allocate_adb", "docker_create"} => request'[r].op = "create"
         /\ request'[r].pc = "mark" => request'[r].op \in {"start", "stop"}
         /\ request'[r].pc = "mark_removing" => request'[r].op = "delete"
<1>1. ASSUME NEW id \in Id, NEW enableADB \in BOOLEAN, AllocateGRPC(r, id, enableADB)
      PROVE  request'[r].op = "create" /\ request'[r].pc \in {"allocate_adb", "docker_create"}
  BY <1>1 DEF AllocateGRPC, Idle, Typed, TypeOK
<1>2. ASSUME NEW id \in Id, NEW op \in {"start", "stop"}, BeginChange(r, op, id)
      PROVE  request'[r].op \in {"start", "stop"} /\ request'[r].pc = "mark"
  BY <1>2 DEF BeginChange, Begins, Idle, Typed, TypeOK
<1>3. ASSUME NEW id \in Id, NEW force \in BOOLEAN, BeginDelete(r, id, force)
      PROVE  request'[r].op = "delete" /\ request'[r].pc = "mark_removing"
  BY <1>3 DEF BeginDelete, Begins, Idle, Typed, TypeOK
<1> QED BY <1>1, <1>2, <1>3 DEF Begin

LEMMA BeginManager ==
  ASSUME Typed, OpOfPc, Recorded, Unlisted, NoneMoved, NEW r \in Request, Begin(r)
  PROVE  OpOfPc' /\ Recorded' /\ Unlisted' /\ NoneMoved'
<1>1. /\ UNCHANGED <<docker, db>>
      /\ \A s \in Request \ {r} : request'[s] = request[s]
      /\ request'[r].id \in Id
      /\ request'[r].pc \in {"allocate_adb", "docker_create", "mark", "mark_removing"}
      /\ Creating(r)' => docker[request'[r].id].state = "none"
  BY BeginLocal
<1>2. OpOfPc'
  BY <1>1, BeginOp DEF OpOfPc, Creating, Deleting, CreatePcs, ChangePcs, DeletePcs
<1>3. Recorded'
  BY <1>1 DEF Recorded
<1>4. Unlisted'
  BY <1>1 DEF Unlisted, InDb, Creating
<1>5. NoneMoved'
  BY <1>1 DEF NoneMoved
<1> QED BY <1>2, <1>3, <1>4, <1>5

LEMMA ManagerInit == Init => ManagerInv
<1>1. Init => SoloIInv
  BY SoloIInvInit
<1>2. Init => StatusInv /\ AddressInv /\ DatabaseInv
  BY DEF Init, Idle, NoEntry, StatusInv, Faithful, ChangeUnsettled, ReplyStillTrue,
         AddressInv, PortAgrees, CreateBinds, Creating, CreatePcs, InMap,
         DatabaseInv, DocumentAgrees, AboutToWrite
<1>3. Init => restarts = 0 /\ OpOfPc /\ Recorded /\ Unlisted /\ NoneMoved
  BY DEF Init, Idle, NoContainer, OpOfPc, Recorded, Unlisted, NoneMoved, Creating, Deleting,
         CreatePcs, ChangePcs, DeletePcs, InDb
<1> QED BY <1>1, <1>2, <1>3 DEF ManagerInv

LEMMA ManagerNext ==
  ASSUME ApiSurroundings, ManagerInv, UNCHANGED vars \/ \E r \in Request : Begin(r) \/ Step(r)
  PROVE  ManagerInv'
<1>1. [Next]_vars
  BY DEF Next
<1>2. "overlap" \notin Hazards /\ "db_error" \notin Hazards
  BY DEF ApiSurroundings
<1>3. SoloIInv' /\ StatusInv' /\ AddressInv' /\ DatabaseInv'
  BY <1>1, <1>2, SoloIInvNext, StatusNext, AddressNext, DatabaseNext DEF ManagerInv
<1>4. CASE UNCHANGED vars
  BY <1>3, <1>4
  DEF ManagerInv, vars, OpOfPc, Recorded, Unlisted, NoneMoved, Creating, Deleting, InDb
<1>5. ASSUME NEW r \in Request, Begin(r)
      PROVE  restarts' = 0 /\ OpOfPc' /\ Recorded' /\ Unlisted' /\ NoneMoved'
  BY <1>5, BeginLocal, BeginManager DEF ManagerInv, SoloIInv
<1>6. ASSUME NEW r \in Request, Step(r)
      PROVE  restarts' = 0 /\ OpOfPc' /\ Recorded' /\ Unlisted' /\ NoneMoved'
  BY <1>6, StepLocal, OpOfPcStep, RecordedStep, UnlistedStep, MovedStep
  DEF ManagerInv, SoloIInv
<1> QED BY <1>3, <1>4, <1>5, <1>6 DEF ManagerInv

LEMMA GotoKeeps ==
  ASSUME Typed, NEW r \in Request, NEW pc, Goto(r, pc)
  PROVE  /\ request'[r].pc = pc /\ request'[r].id = request[r].id
         /\ request'[r].op = request[r].op /\ request'[r].force = request[r].force
BY DEF Goto, Typed, TypeOK, RequestState

LEMMA DocumentLiveStep ==
  ASSUME ApiSurroundings, NothingUnknown, ManagerInv, DocumentLive, NEW r \in Request, Step(r)
  PROVE  DocumentLive'
<1> DEFINE id == request[r].id
<1>0. id \in Id /\ Active(r) /\ Typed /\ Solo
  BY StepLocal DEF ManagerInv, SoloIInv, SoloInv
<1>1. ASSUME NEW i \in Id, i # id, db'[i] = "running"
      PROVE  docker'[i].state = "running" \/ \E s \in Request : Ending(s)' /\ request'[s].id = i
  <2>1. docker'[i] = docker[i] /\ db[i] = "running"
    BY <1>0, <1>1, StepLocal
  <2>2. ASSUME NEW s \in Request, Ending(s), request[s].id = i
        PROVE  Ending(s)' /\ request'[s].id = i
    BY <1>0, <1>1, <2>2, StepLocal DEF Ending
  <2> QED BY <2>1, <2>2 DEF DocumentLive
<1>2. ASSUME db'[id] = "running"
      PROVE  docker'[id].state = "running" \/ (Ending(r)' /\ request'[r].id = id)
  <2>0. docker[id].state = "running" \/ db[id] # "running" \/ Ending(r)
    BY <1>0 DEF DocumentLive, Solo, Ending, Active
  <2>1. CASE /\ UNCHANGED <<docker, db>>
             /\ ~Ending(r)
    BY <1>2, <2>0, <2>1
  <2>2. CASE CreateInDocker(r) \/ StartInDocker(r) \/ Cleanup(r)
    <3>1. UNCHANGED db /\ request[r].pc \in CreatePcs \ {"store"}
      BY <2>2 DEF CreateInDocker, StartInDocker, Cleanup, CreatePcs
    <3> QED BY <1>0, <1>2, <3>1 DEF ManagerInv, Unlisted, InDb
  <2>3. CASE InsertInDb(r)
    BY <1>0, <2>3 DEF InsertInDb, ManagerInv, StatusInv, ReplyStillTrue, NoneMoved
  <2>4. CASE ChangeInDocker(r)
    <3>1. /\ request[r].pc = "docker_change" /\ UNCHANGED db /\ ~Ending(r)
          /\ request[r].op \in {"start", "stop"}
      BY <1>0, <2>4 DEF ChangeInDocker, Ending, Typed, ActiveIds, ChangePcs
    <3>2. docker[id].state = "running"
      BY <1>2, <2>0, <3>1
    <3>3. CASE Docker(request[r].op, r, "ok") /\ Goto(r, "settle") /\ request[r].op = "stop"
      <4>1. request'[r].pc = "settle" /\ request'[r].op = "stop" /\ request'[r].id = id
        BY <1>0, <3>3, GotoKeeps
      <4> QED BY <4>1 DEF Ending
    <3>4. CASE Docker(request[r].op, r, "ok") /\ request[r].op = "start"
      BY <1>0, <3>4, CallEffect DEF DockerCalls
    <3>5. ASSUME NEW answer \in {"error", "refused"}, Docker(request[r].op, r, answer)
          PROVE  docker'[id].state = "running"
      <4>1. CASE request[r].op = "start"
        BY <1>0, <3>2, <3>5, <4>1, CallEffect DEF DockerCalls
      <4>2. CASE request[r].op = "stop"
        BY <1>0, <3>2, <3>5, <4>2, CallEffect DEF DockerCalls, NothingUnknown, ApiSurroundings
      <4> QED BY <3>1, <4>1, <4>2
    <3> QED BY <2>4, <3>1, <3>3, <3>4, <3>5 DEF ChangeInDocker
  <2>5. CASE Settle(r)
    <3>1. /\ request[r].pc = "settle" /\ UNCHANGED <<docker, db>>
          /\ request'[r].pc = "record" /\ request'[r].op = request[r].op /\ request'[r].id = id
      BY <1>0, <2>5, GotoKeeps DEF Settle
    <3> QED BY <1>2, <2>0, <3>1 DEF Ending
  <2>6. CASE Record(r)
    <3>1. /\ UNCHANGED docker /\ request[r].pc = "record"
          /\ db'[id] \in {"absent", Final(request[r].op)}
      BY <1>0, <2>6 DEF Record, Write, ApiSurroundings, Typed, TypeOK
    <3>2. request[r].op = "start"
      BY <1>0, <1>2, <3>1 DEF Final, Typed, ActiveIds, ChangePcs
    <3> QED BY <3>1, <3>2 DEF ManagerInv, Recorded
  <2>7. CASE RemoveInDocker(r)
    <3>1. request[r].pc = "docker_remove" /\ UNCHANGED db /\ ~Ending(r)
      BY <2>7 DEF RemoveInDocker, Ending
    <3>2. CASE Goto(r, "forget")
      BY <1>0, <3>2, GotoFrame DEF Ending
    <3>3. CASE Docker("remove", r, "error")
      <4>1. docker'[id].state = docker[id].state
        BY <1>0, <3>3, CallEffect DEF DockerCalls, NothingUnknown, ApiSurroundings
      <4> QED BY <1>2, <2>0, <3>1, <4>1
    <3> QED BY <2>7, <3>2, <3>3 DEF RemoveInDocker
  <2>8. CASE Forget(r)
    BY <1>0, <2>8, GotoFrame DEF Forget, Ending
  <2>9. CASE DeleteFromDb(r)
    BY <1>0, <1>2, <2>9 DEF DeleteFromDb, Write, ApiSurroundings, Typed, TypeOK
  <2>10. CASE AllocateADB(r) \/ ReleasePorts(r) \/ StoreInMap(r) \/ Mark(r) \/ MarkRemoving(r)
                \/ ReleaseEntry(r)
    BY <2>1, <2>10
    DEF AllocateADB, ReleasePorts, StoreInMap, Mark, MarkRemoving, ReleaseEntry, Ending
  <2> QED
    BY <2>2, <2>3, <2>4, <2>5, <2>6, <2>7, <2>8, <2>9, <2>10
    DEF Step, CreateSteps, ChangeSteps, DeleteSteps
<1>3. CASE db'[id] = "running"
  BY <1>0, <1>1, <1>2, <1>3 DEF DocumentLive
<1>4. CASE db'[id] # "running"
  BY <1>0, <1>1, <1>4 DEF DocumentLive
<1> QED BY <1>3, <1>4

LEMMA RemovedStep ==
  ASSUME <<"remove", "refused">> \notin DockerFaults,
         ManagerInv, Removed, NEW r \in Request, Step(r)
  PROVE  Removed'
<1> DEFINE id == request[r].id
<1>0. id \in Id /\ Active(r) /\ Typed /\ Solo
  BY StepLocal DEF ManagerInv, SoloIInv, SoloInv
<1>1. ASSUME NEW s \in Request \ {r}, request'[s].pc \in {"forget", "db_delete"}, request'[s].force
      PROVE  docker'[request'[s].id].state \notin {"created", "running", "exited"}
  BY <1>0, <1>1, OthersKeep DEF Removed, Active, Exists
<1>2. ASSUME request'[r].pc = "forget", request'[r].force
      PROVE  docker'[request'[r].id].state \notin {"created", "running", "exited"}
  <2>1. /\ RemoveInDocker(r) /\ request'[r].id = id
        /\ \E answer \in {"ok", "refused"} : Docker("remove", r, answer)
    BY <1>0, <1>2, PcFlow, StepLocal DEF Idle
  <2>2. Goto(r, "forget")
    BY <1>0, <1>2, <2>1, ReturnFrame DEF RemoveInDocker
  <2>3. request[r].force
    BY <1>0, <1>2, <2>2, GotoKeeps
  <2>4. CASE Docker("remove", r, "ok")
    BY <1>0, <2>1, <2>4, CallEffect DEF DockerCalls
  <2>5. CASE Docker("remove", r, "refused")
    <3>1. UNCHANGED docker /\ ~DockerAccepts("remove", id, request[r].force)
      BY <2>5 DEF Docker
    <3> QED BY <2>1, <2>3, <3>1 DEF DockerAccepts, Exists
  <2> QED BY <2>1, <2>4, <2>5
<1>3. ASSUME request'[r].pc = "db_delete", request'[r].force
      PROVE  docker'[request'[r].id].state \notin {"created", "running", "exited"}
  <2>1. Forget(r) /\ request'[r].id = id
    BY <1>0, <1>3, PcFlow, StepLocal DEF Idle
  <2>2. Goto(r, "db_delete") /\ UNCHANGED docker /\ request[r].pc = "forget"
    BY <2>1 DEF Forget
  <2>3. request[r].force
    BY <1>0, <1>3, <2>2, GotoKeeps
  <2> QED BY <2>1, <2>2, <2>3 DEF Removed, Exists
<1> QED BY <1>1, <1>2, <1>3 DEF Removed, Exists

-----------------------------------------------------------------------------
(* Handlers and requests of the manager go together *)

LEMMA WaitingType == Waiting \in HttpState
BY DEF Waiting, HttpState

\* A handler ends without the manager, and one that had a request with it.
LEMMA EndedCoupled ==
  ASSUME Coupled, NEW r \in Request, Ended(r), ~Active(r)', UNCHANGED available,
         \A s \in Request \ {r} : request'[s] = request[s]
  PROVE  Coupled'
<1>1. /\ http' \in [Request -> HttpState] /\ http'[r] = Waiting
      /\ \A s \in Request \ {r} : http'[s] = http[s]
  BY WaitingType DEF Ended, Coupled
<1>2. Waiting.stage = "none"
  BY DEF Waiting
<1> QED BY <1>1, <1>2 DEF Coupled, Active, Free

LEMMA StageCoupled ==
  ASSUME Coupled, NEW r \in Request, NEW op \in Op, NEW id \in Id, NEW user \in User \cup {NoUser},
         NEW stage \in {"database", "manager"}, Stage(r, stage, op, id, user), UNCHANGED available,
         \A s \in Request \ {r} : request'[s] = request[s],
         stage = "database" => op \in LookedUp /\ ~Active(r)',
         stage = "manager" => Active(r)' /\ request'[r].op = op /\ request'[r].id = id
  PROVE  Coupled'
<1> DEFINE state == [stage |-> stage, op |-> op, id |-> id, user |-> user]
<1>1. state \in HttpState
  BY DEF HttpState
<1>2. /\ http' \in [Request -> HttpState] /\ http'[r] = state
      /\ \A s \in Request \ {r} : http'[s] = http[s]
  BY <1>1 DEF Stage, Coupled
<1>3. state.stage = stage /\ state.op = op /\ state.id = id
  OBVIOUS
<1> HIDE DEF state
<1> QED BY <1>2, <1>3 DEF Coupled, Active, Free

LEMMA BeginsAs ==
  ASSUME Typed, NEW r \in Request, NEW op, NEW id \in Id, NEW pc, NEW force, pc # "idle",
         Begins(r, op, id, pc, force)
  PROVE  /\ Active(r)' /\ request'[r].op = op /\ request'[r].id = id
         /\ \A s \in Request \ {r} : request'[s] = request[s]
BY DEF Begins, Idle, Typed, TypeOK, Active

LEMMA FoundCoupled ==
  ASSUME Typed, Coupled, NEW r \in Request, NEW op, NEW id \in Id, NEW user \in User \cup {NoUser},
         NEW force \in BOOLEAN, NEW status, NEW port, Found(r, op, id, user, force, status, port),
         ~Active(r), UNCHANGED available
  PROVE  Coupled'
<1>1. CASE Ended(r) /\ UNCHANGED vars
  BY <1>1, EndedCoupled DEF vars, Active
<1>2. CASE Stop(r, id, user)
  <2>1. /\ Active(r)' /\ request'[r].op = "stop" /\ request'[r].id = id
        /\ \A s \in Request \ {r} : request'[s] = request[s]
    BY <1>2, BeginsAs DEF Stop
  <2>2. Stage(r, "manager", "stop", id, user) /\ "stop" \in Op
    BY <1>2 DEF Stop, Op
  <2> QED BY <2>1, <2>2, StageCoupled
<1>3. CASE Delete(r, id, user, force)
  <2>1. /\ Active(r)' /\ request'[r].op = "delete" /\ request'[r].id = id
        /\ \A s \in Request \ {r} : request'[s] = request[s]
    BY <1>3, BeginsAs DEF Delete
  <2>2. Stage(r, "manager", "delete", id, user) /\ "delete" \in Op
    BY <1>3 DEF Delete, Op
  <2> QED BY <2>1, <2>2, StageCoupled
<1> QED BY <1>1, <1>2, <1>3 DEF Found, Get, Connect

LEMMA IdleHandler ==
  ASSUME Coupled, NEW r \in Request, http[r].stage # "manager"
  PROVE  ~Active(r)
BY DEF Coupled

LEMMA CoupledNext ==
  ASSUME Typed, Coupled, ApiNext
  PROVE  Coupled'
<1>1. CASE UNCHANGED <<vars, http, available>>
  BY <1>1 DEF Coupled, vars, Active, Free
<1>2. CASE Seen
  BY <1>1, <1>2 DEF Seen
<1>3. ASSUME NEW r \in Request, Arrive(r)
      PROVE  Coupled'
  <2>1. CASE Rejected(r) \/ Malformed(r)
    BY <1>1, <2>1 DEF Rejected, Malformed
  <2>2. ASSUME NEW user, NEW filter, List(r, user, filter)
        PROVE  Coupled'
    BY <1>1, <2>2 DEF List
  <2>3. ASSUME NEW user \in User, NEW id \in Id, NEW enableADB \in BOOLEAN,
               Create(r, id, user, enableADB)
        PROVE  Coupled'
    <3>1. CASE AllocateGRPC(r, id, enableADB) /\ Stage(r, "manager", "create", id, user)
      <4>1. /\ Active(r)' /\ request'[r].op = "create" /\ request'[r].id = id
            /\ \A s \in Request \ {r} : request'[s] = request[s]
        BY <3>1 DEF AllocateGRPC, Idle, Typed, TypeOK, Active
      <4>2. "create" \in Op /\ user \in User \cup {NoUser} /\ UNCHANGED available
        BY <2>3 DEF Op, Create
      <4> QED BY <3>1, <4>1, <4>2, StageCoupled
    <3>2. CASE UNCHANGED <<vars, http>>
      BY <1>1, <2>3, <3>2 DEF Create
    <3> QED BY <2>3, <3>1, <3>2 DEF Create
  <2>4. ASSUME NEW user \in User, NEW id \in Id, Start(r, id, user)
        PROVE  Coupled'
    <3>1. /\ Active(r)' /\ request'[r].op = "start" /\ request'[r].id = id
          /\ \A s \in Request \ {r} : request'[s] = request[s]
      BY <2>4, BeginsAs DEF Start, BeginChange
    <3>2. /\ "start" \in Op /\ user \in User \cup {NoUser} /\ UNCHANGED available
          /\ Stage(r, "manager", "start", id, user)
      BY <2>4 DEF Op, Start
    <3> QED BY <3>1, <3>2, StageCoupled
  <2>5. ASSUME NEW user \in User, NEW id \in Id, NEW op, NEW force \in BOOLEAN,
               LookUp(r, op, id, user, force)
        PROVE  Coupled'
    <3>1. /\ op \in LookedUp /\ LookedUp \subseteq Op /\ user \in User \cup {NoUser}
          /\ UNCHANGED available /\ http[r].stage = "none" /\ ~Active(r)
      BY <2>5, IdleHandler DEF LookUp, LookedUp, Op, Ready, Free
    <3>2. CASE Found(r, op, id, user, force, containers[id].status, containers[id].grpc)
      BY <3>1, <3>2, FoundCoupled
    <3>3. CASE Stage(r, "database", op, id, user) /\ UNCHANGED vars
      <4>1. ~Active(r)' /\ \A s \in Request \ {r} : request'[s] = request[s]
        BY <3>1, <3>3 DEF vars, Active
      <4> QED BY <3>1, <3>3, <4>1, StageCoupled
    <3> QED BY <2>5, <3>2, <3>3 DEF LookUp
  <2> QED BY <1>3, <2>1, <2>2, <2>3, <2>4, <2>5 DEF Arrive
<1>4. ASSUME NEW r \in Request, Work(r)
      PROVE  Coupled'
  <2>1. /\ Step(r) /\ UNCHANGED available /\ http[r].stage = "manager"
        /\ \/ Active(r)' /\ UNCHANGED http
           \/ ~Active(r)' /\ Ended(r)
    BY <1>4 DEF Work
  <2>2. \A s \in Request \ {r} : request'[s] = request[s]
    BY <2>1, StepLocal
  <2>3. CASE Active(r)' /\ UNCHANGED http
    <3>1. request'[r].op = request[r].op /\ request'[r].id = request[r].id /\ Active(r)
      BY <2>1, <2>3, StepLocal DEF Active, Idle
    <3> QED BY <2>1, <2>2, <2>3, <3>1 DEF Coupled, Active, Free
  <2>4. CASE ~Active(r)' /\ Ended(r)
    BY <2>1, <2>2, <2>4, EndedCoupled
  <2> QED BY <2>1, <2>3, <2>4
<1>5. ASSUME NEW r \in Request, NEW force \in BOOLEAN, LookUpInDb(r, force)
      PROVE  Coupled'
  <2>1. /\ http[r].stage = "database" /\ UNCHANGED available /\ ~Active(r)
        /\ http[r].id \in Id /\ http[r].user \in User \cup {NoUser}
    BY <1>5, IdleHandler DEF LookUpInDb, Coupled, HttpState
  <2>2. CASE Found(r, http[r].op, http[r].id, http[r].user, force, db[http[r].id],
                   docker[http[r].id].grpc)
    BY <2>1, <2>2, FoundCoupled
  <2>3. CASE Ended(r) /\ UNCHANGED vars
    BY <2>1, <2>3, EndedCoupled DEF vars, Active
  <2> QED BY <1>5, <2>2, <2>3 DEF LookUpInDb
<1> QED BY <1>2, <1>3, <1>4, <1>5 DEF ApiNext, Continue

ApiInv == ManagerInv /\ Coupled

LEMMA ApiInvInit == ApiInit => ApiInv
<1>1. ApiInit => Coupled
  <2>1. Waiting.stage = "none"
    BY DEF Waiting
  <2> QED BY <2>1, WaitingType DEF ApiInit, Init, Coupled, Idle, Active, Free
<1>2. ApiInit => ManagerInv
  BY ManagerInit DEF ApiInit
<1> QED BY <1>1, <1>2 DEF ApiInv

LEMMA ApiInvNext ==
  ASSUME ApiSurroundings
  PROVE  ApiInv /\ [ApiNext]_allVars => ApiInv'
<1> SUFFICES ASSUME ApiInv, [ApiNext]_allVars PROVE ApiInv'
  OBVIOUS
<1>1. CASE ApiNext
  BY <1>1, ApiDrives, ManagerNext, CoupledNext DEF ApiInv, ManagerInv, SoloIInv
<1>2. CASE UNCHANGED allVars
  <2>1. UNCHANGED vars /\ UNCHANGED <<http, available>>
    BY <1>2 DEF allVars, apiVars
  <2>2. Coupled'
    BY <2>1 DEF ApiInv, Coupled, vars, Active, Free
  <2> QED BY <2>1, <2>2, ManagerNext DEF ApiInv
<1> QED BY <1>1, <1>2

\* The API uses the manager as ContainerManager says, with what it says of the
\* surroundings: whatever holds of the manager there holds under the handlers of
\* handler.go.
THEOREM ApiDrivesManager ==
  ASSUME ApiSurroundings
  PROVE  ApiSpec => Spec
<1>1. ApiInit => Init
  BY DEF ApiInit
<1>2. ApiInv /\ [ApiNext]_allVars => [Next]_vars
  BY ApiDrives DEF ApiInv, Next, allVars, apiVars
<1> QED BY <1>1, <1>2, ApiInvInit, ApiInvNext, PTL DEF ApiSpec, Spec

\* Under the handlers, at rest, the map shows what the daemon and the database
\* have, and addresses are bound.
THEOREM ManagerUnderApi ==
  ASSUME ApiSurroundings
  PROVE  ApiSpec => []StatusFaithful /\ []AddressReachable /\ []DatabaseFollowsMap
<1>1. "overlap" \notin Hazards /\ "db_error" \notin Hazards
  BY DEF ApiSurroundings
<1>2. Spec => []StatusFaithful /\ []AddressReachable /\ []DatabaseFollowsMap
  BY <1>1, StatusIsFaithful, AddressIsReachable, DatabaseAgrees
<1> QED BY <1>2, ApiDrivesManager

-----------------------------------------------------------------------------
(* What a step answers *)

\* No reply, or one that says nothing of a container.
Silent == reply.op = "none" /\ reply.code \notin {201, 404}

ListReply ==
  /\ UNCHANGED <<vars, http, owner>>
  /\ reply'.op = "list" /\ reply'.code = 200
  /\ reply'.shown = Listed(reply'.user, reply'.filter)

\* An address, as the map or the database has it.
ConnectReply ==
  /\ reply'.op = "connect" /\ reply'.code = 200 /\ reply'.id \in Id /\ UNCHANGED vars
  /\ \/ containers[reply'.id].status = "running" /\ reply'.port = containers[reply'.id].grpc
     \/ db[reply'.id] = "running" /\ reply'.port = docker[reply'.id].grpc
  /\ \E r \in Request : http[r].stage # "manager" /\ Ended(r)

UnknownReply ==
  /\ reply'.op = "none" /\ reply'.code = 404 /\ reply'.id \in Id /\ UNCHANGED vars
  /\ ~InDb(reply'.id)

\* The result of a request of the manager.
ManagerReply(r) ==
  /\ Step(r) /\ http[r].stage = "manager"
  /\ reply'.code = Result(http[r].op, request[r].pc) /\ reply'.op = http[r].op
  /\ reply'.id = http[r].id /\ reply'.force = request[r].force

LEMMA AnswerSilent ==
  ASSUME NEW code \in {200, 400, 401, 403, 405, 500, 503}, Answer(code)
  PROVE  Silent'
BY DEF Answer, NoReply, Silent

LEMMA StageSilent ==
  ASSUME NEW r, NEW stage, NEW op, NEW id, NEW user, Stage(r, stage, op, id, user)
  PROVE  Silent'
BY DEF Stage, NoReply, Silent

LEMMA FoundReplies ==
  ASSUME NEW r \in Request, NEW op, NEW id \in Id, NEW user, NEW force, NEW status, NEW port,
         Found(r, op, id, user, force, status, port), http[r].stage # "manager",
         \/ status = containers[id].status /\ port = containers[id].grpc
         \/ status = db[id] /\ port = docker[id].grpc
  PROVE  Silent' \/ ConnectReply
<1>1. CASE Answer(400) \/ Answer(403) \/ Answer(200)
  BY <1>1, AnswerSilent
<1>2. CASE Stop(r, id, user) \/ Delete(r, id, user, force)
  BY <1>2, StageSilent DEF Stop, Delete
<1>3. CASE /\ Ended(r) /\ UNCHANGED vars /\ status = "running"
           /\ reply' = [NoReply EXCEPT !.code = 200, !.op = "connect", !.id = id, !.port = port]
  <2>1. /\ reply'.op = "connect" /\ reply'.code = 200 /\ reply'.id = id /\ reply'.port = port
    BY <1>3 DEF NoReply
  <2> QED BY <1>3, <2>1 DEF ConnectReply
<1> QED BY <1>1, <1>2, <1>3 DEF Found, Get, Connect

\* Every reply tells what was read in its step, or the result of the step.
LEMMA ReplyShapes ==
  ASSUME Coupled, ApiNext
  PROVE  \/ Silent' \/ ListReply \/ ConnectReply \/ UnknownReply
         \/ \E r \in Request : ManagerReply(r)
<1>1. CASE Seen
  BY <1>1 DEF Seen, Silent, NoReply
<1>2. ASSUME NEW r \in Request, Arrive(r)
      PROVE  Silent' \/ ListReply \/ ConnectReply
  <2>1. CASE Rejected(r) \/ Malformed(r)
    <3>1. \E code \in {200, 400, 401, 405, 503} : Answer(code)
      BY <2>1 DEF Rejected, Malformed, LocalReplies
    <3> QED BY <3>1, AnswerSilent
  <2>2. ASSUME NEW user, NEW filter, List(r, user, filter)
        PROVE  ListReply
    <3>1. /\ reply'.op = "list" /\ reply'.code = 200 /\ reply'.user = user
          /\ reply'.filter = filter /\ reply'.shown = Listed(user, filter)
      BY <2>2 DEF List, NoReply
    <3> QED BY <2>2, <3>1 DEF List, ListReply
  <2>3. ASSUME NEW user, NEW id \in Id, NEW enableADB \in BOOLEAN, Create(r, id, user, enableADB)
        PROVE  Silent'
    BY <2>3, AnswerSilent, StageSilent DEF Create
  <2>4. ASSUME NEW user, NEW id \in Id, Start(r, id, user)
        PROVE  Silent'
    BY <2>4, StageSilent DEF Start
  <2>5. ASSUME NEW user, NEW id \in Id, NEW op, NEW force \in BOOLEAN,
               LookUp(r, op, id, user, force)
        PROVE  Silent' \/ ConnectReply
    <3>1. http[r].stage # "manager"
      BY <2>5 DEF LookUp, Ready, Free
    <3>2. CASE Found(r, op, id, user, force, containers[id].status, containers[id].grpc)
      BY <3>1, <3>2, FoundReplies
    <3>3. CASE Stage(r, "database", op, id, user)
      BY <3>3, StageSilent
    <3> QED BY <2>5, <3>2, <3>3 DEF LookUp
  <2> QED BY <1>2, <2>1, <2>2, <2>3, <2>4, <2>5 DEF Arrive
<1>3. ASSUME NEW r \in Request, Work(r)
      PROVE  Silent' \/ ManagerReply(r)
  <2>1. CASE reply' = NoReply
    BY <2>1 DEF Silent, NoReply
  <2>2. CASE reply' = [NoReply EXCEPT !.code = Result(http[r].op, request[r].pc),
                         !.op = http[r].op, !.id = http[r].id, !.force = request[r].force]
    <3>1. /\ reply'.code = Result(http[r].op, request[r].pc) /\ reply'.op = http[r].op
          /\ reply'.id = http[r].id /\ reply'.force = request[r].force
      BY <2>2 DEF NoReply
    <3> QED BY <1>3, <3>1 DEF Work, ManagerReply
  <2> QED BY <1>3, <2>1, <2>2 DEF Work
<1>4. ASSUME NEW r \in Request, NEW force \in BOOLEAN, LookUpInDb(r, force)
      PROVE  Silent' \/ ConnectReply \/ UnknownReply
  <2>1. http[r].stage = "database" /\ http[r].id \in Id
    BY <1>4 DEF LookUpInDb, Coupled
  <2>2. CASE Found(r, http[r].op, http[r].id, http[r].user, force, db[http[r].id],
                   docker[http[r].id].grpc)
    BY <2>1, <2>2, FoundReplies
  <2>3. CASE /\ ~InDb(http[r].id) /\ UNCHANGED vars
             /\ reply' = [NoReply EXCEPT !.code = 404, !.id = http[r].id]
    <3>1. reply'.op = "none" /\ reply'.code = 404 /\ reply'.id = http[r].id
      BY <2>3 DEF NoReply
    <3> QED BY <2>1, <2>3, <3>1 DEF UnknownReply
  <2> QED BY <1>4, <2>2, <2>3 DEF LookUpInDb
<1> QED BY <1>1, <1>2, <1>3, <1>4 DEF ApiNext, Continue

LEMMA ResultCodes ==
  ASSUME NEW op, NEW pc
  PROVE  /\ Result(op, pc) \in {200, 201, 500}
         /\ Result(op, pc) = 201 => op = "create"
         /\ Result(op, pc) # 500 => pc \in {"store", "record", "db_delete"}
BY DEF Result

-----------------------------------------------------------------------------
(* The replies are true *)

\* A container that the database does not have, read a step after the map, is
\* not in the map in the meantime: a create writes its document first, a delete
\* takes it out last.
THEOREM UnknownIsUnknown ==
  ASSUME ApiSurroundings
  PROVE  ApiSpec => []NotFoundIsUnknown
<1>1. ApiInit => NotFoundIsUnknown
  BY DEF ApiInit, NoReply, NotFoundIsUnknown
<1>2. ApiInv /\ NotFoundIsUnknown /\ [ApiNext]_allVars => NotFoundIsUnknown'
  <2> SUFFICES ASSUME ApiInv, NotFoundIsUnknown, [ApiNext]_allVars PROVE NotFoundIsUnknown'
    OBVIOUS
  <2>1. CASE UNCHANGED allVars
    BY <2>1 DEF allVars, apiVars, vars, NotFoundIsUnknown, InMap, InDb
  <2>2. CASE Silent' \/ ListReply \/ ConnectReply
    BY <2>2 DEF Silent, ListReply, ConnectReply, NotFoundIsUnknown
  <2>3. CASE UnknownReply
    <3>1. PICK id \in Id : id = reply'.id /\ ~InDb(id)
      BY <2>3 DEF UnknownReply
    <3>2. ~InMap(id)
      BY <3>1 DEF ApiInv, ManagerInv, DatabaseInv, DocumentAgrees
    <3>3. UNCHANGED <<containers, db>>
      BY <2>3 DEF UnknownReply, vars
    <3> QED BY <3>1, <3>2, <3>3 DEF NotFoundIsUnknown, InMap, InDb
  <2>4. ASSUME NEW r \in Request, ManagerReply(r)
        PROVE  NotFoundIsUnknown'
    <3>1. Result(http[r].op, request[r].pc) # 404
      BY ResultCodes
    <3> QED BY <2>4, <3>1 DEF ManagerReply, NotFoundIsUnknown
  <2> QED BY <2>1, <2>2, <2>3, <2>4, ReplyShapes DEF ApiInv
<1> QED BY <1>1, <1>2, ApiInvInit, ApiInvNext, PTL DEF ApiSpec

LEMMA DocumentLiveNext ==
  ASSUME ApiSurroundings, NothingUnknown
  PROVE  ApiInv /\ DocumentLive /\ [ApiNext]_allVars => DocumentLive'
<1> SUFFICES ASSUME ApiInv, DocumentLive, [ApiNext]_allVars PROVE DocumentLive'
  OBVIOUS
<1>1. CASE UNCHANGED vars
  BY <1>1 DEF DocumentLive, Ending, vars
<1>2. ASSUME NEW r \in Request, Begin(r)
      PROVE  DocumentLive'
  <2>1. /\ ~Active(r) /\ UNCHANGED <<docker, db>>
        /\ \A s \in Request \ {r} : request'[s] = request[s]
    BY <1>2, BeginLocal DEF ApiInv, ManagerInv, SoloIInv
  <2>2. ~Ending(r)
    BY <2>1 DEF Active, Ending
  <2> QED BY <2>1, <2>2 DEF DocumentLive, Ending
<1>3. ASSUME NEW r \in Request, Step(r)
      PROVE  DocumentLive'
  BY <1>3, DocumentLiveStep DEF ApiInv
<1> QED BY <1>1, <1>2, <1>3, ApiDrives DEF ApiInv, allVars, apiVars

\* An address that a client gets, also one that was looked up in the database
\* after the map had not got the container, is bound by the running container,
\* unless a handler that ends the container is still at work.
THEOREM AddressesAreLive ==
  ASSUME ApiSurroundings, NothingUnknown
  PROVE  ApiSpec => []AddressesLive
<1>1. ApiInit => DocumentLive /\ AddressesLive
  BY DEF ApiInit, Init, NoReply, DocumentLive, AddressesLive
<1>2. ApiInv /\ DocumentLive /\ AddressesLive /\ [ApiNext]_allVars => AddressesLive'
  <2> SUFFICES ASSUME ApiInv, DocumentLive, AddressesLive, [ApiNext]_allVars
               PROVE  AddressesLive'
    OBVIOUS
  <2>1. CASE UNCHANGED allVars
    BY <2>1 DEF allVars, apiVars, vars, AddressesLive
  <2>2. CASE Silent' \/ ListReply \/ UnknownReply
    BY <2>2 DEF Silent, ListReply, UnknownReply, AddressesLive
  <2>3. CASE ConnectReply
    <3>1. PICK id \in Id, r \in Request :
            /\ id = reply'.id /\ UNCHANGED vars /\ http[r].stage # "manager" /\ Ended(r)
            /\ \/ containers[id].status = "running" /\ reply'.port = containers[id].grpc
               \/ db[id] = "running" /\ reply'.port = docker[id].grpc
      BY <2>3 DEF ConnectReply
    <3>2. CASE docker[id].state = "running" /\ docker[id].grpc = reply'.port
      BY <3>1, <3>2 DEF AddressesLive, vars
    <3>3. CASE containers[id].status = "running" /\ reply'.port = containers[id].grpc
      <4>1. docker[id].state = "running" /\ docker[id].grpc = containers[id].grpc
        BY <3>3
        DEF ApiInv, ManagerInv, StatusInv, Faithful, NoneMoved, AddressInv, PortAgrees, InMap
      <4> QED BY <3>2, <3>3, <4>1
    <3>4. ASSUME NEW s \in Request, Ending(s), request[s].id = id
          PROVE  AddressesLive'
      <4>1. /\ http[s].stage = "manager" /\ http[s].id = id
            /\ http[s].op = request[s].op
        BY <3>4 DEF ApiInv, Coupled, Ending, Active
      <4>2. request[s].op \in {"stop", "delete"}
        BY <3>4 DEF ApiInv, ManagerInv, OpOfPc, Ending, Deleting, DeletePcs
      <4>3. http'[s] = http[s]
        BY <3>1, <4>1 DEF Ended, ApiInv, Coupled
      <4> QED BY <3>1, <4>1, <4>2, <4>3 DEF AddressesLive
    <3> QED BY <3>1, <3>2, <3>3, <3>4 DEF DocumentLive
  <2>4. ASSUME NEW r \in Request, ManagerReply(r)
        PROVE  AddressesLive'
    <3>1. http[r].op # "connect"
      BY <2>4, StepLocal
      DEF ManagerReply, ApiInv, Coupled, ManagerInv, SoloIInv, OpOfPc, Active, Creating,
          Deleting, Typed, TypeOK, RequestState
    <3> QED BY <2>4, <3>1 DEF ManagerReply, AddressesLive
  <2> QED BY <2>1, <2>2, <2>3, <2>4, ReplyShapes DEF ApiInv
<1> QED BY <1>1, <1>2, ApiInvInit, ApiInvNext, DocumentLiveNext, PTL DEF ApiSpec

-----------------------------------------------------------------------------
LEMMA RemovedNext ==
  ASSUME ApiSurroundings, <<"remove", "refused">> \notin DockerFaults
  PROVE  ApiInv /\ Removed /\ [ApiNext]_allVars => Removed'
<1> SUFFICES ASSUME ApiInv, Removed, [ApiNext]_allVars PROVE Removed'
  OBVIOUS
<1>1. CASE UNCHANGED vars
  BY <1>1 DEF Removed, Exists, vars
<1>2. ASSUME NEW r \in Request, Begin(r)
      PROVE  Removed'
  <2>1. /\ UNCHANGED docker /\ request'[r].pc \notin {"forget", "db_delete"}
        /\ \A s \in Request \ {r} : request'[s] = request[s]
    BY <1>2, BeginLocal DEF ApiInv, ManagerInv, SoloIInv
  <2> QED BY <2>1 DEF Removed, Exists
<1>3. ASSUME NEW r \in Request, Step(r)
      PROVE  Removed'
  BY <1>3, RemovedStep DEF ApiInv
<1> QED BY <1>1, <1>2, <1>3, ApiDrives DEF ApiInv, allVars, apiVars

\* What the last step of a request has left behind when its handler replies.
LEMMA CreatedIsThere ==
  ASSUME ManagerInv, NEW r \in Request, StoreInMap(r)
  PROVE  LET id == request[r].id IN
         docker'[id].state = "running" /\ containers'[id].status # "absent" /\ db'[id] # "absent"
<1>1. request[r].id \in Id /\ request[r].pc = "store" /\ containers \in [Id -> Entry]
  BY StepLocal DEF StoreInMap, Step, CreateSteps, ManagerInv, SoloIInv, Typed, TypeOK
<1> QED
  BY <1>1
  DEF StoreInMap, ManagerInv, StatusInv, ReplyStillTrue, NoneMoved, DatabaseInv, AboutToWrite,
      InMap, InDb

LEMMA ChangeIsMade ==
  ASSUME ManagerInv, NEW r \in Request, Record(r)
  PROVE  LET state == docker'[request[r].id].state IN
         IF request[r].op = "start" THEN state = "running" ELSE state # "running"
BY DEF Record, ManagerInv, Recorded

LEMMA DeletedIsGone ==
  ASSUME ApiSurroundings, ManagerInv, Removed, NEW r \in Request, DeleteFromDb(r)
  PROVE  LET id == request[r].id IN
         /\ containers'[id].status = "absent" /\ db'[id] = "absent"
         /\ request[r].force => docker'[id].state \notin {"created", "running", "exited"}
<1>1. request[r].id \in Id /\ request[r].pc = "db_delete" /\ db \in [Id -> DbStatus]
  BY StepLocal DEF DeleteFromDb, Step, DeleteSteps, ManagerInv, SoloIInv, Typed, TypeOK
<1>2. UNCHANGED <<containers, docker>> /\ db' = [db EXCEPT ![request[r].id] = "absent"]
  BY DEF DeleteFromDb, Write, ApiSurroundings
<1> QED BY <1>1, <1>2 DEF ManagerInv, DatabaseInv, AboutToWrite, Removed, InMap, InDb, Exists

\* Which step the success of an operation is the end of.
LEMMA LastStep ==
  ASSUME ManagerInv, Coupled, NEW r \in Request, ManagerReply(r), reply'.code # 500
  PROVE  /\ http[r].op = request[r].op /\ http[r].id = request[r].id
         /\ \/ StoreInMap(r) /\ request[r].op = "create"
            \/ Record(r) /\ request[r].op \in {"start", "stop"}
            \/ DeleteFromDb(r) /\ request[r].op = "delete"
<1>1. Step(r) /\ http[r].op = request[r].op /\ http[r].id = request[r].id
  BY DEF ManagerReply, Coupled
<1>2. request[r].pc \in {"store", "record", "db_delete"}
  BY ResultCodes DEF ManagerReply
<1>3. StoreInMap(r) \/ Record(r) \/ DeleteFromDb(r)
  BY <1>1, <1>2
  DEF Step, CreateSteps, ChangeSteps, DeleteSteps, AllocateADB, CreateInDocker, StartInDocker,
      Cleanup, ReleasePorts, InsertInDb, Mark, ChangeInDocker, Settle, MarkRemoving,
      ReleaseEntry, RemoveInDocker, Forget
<1>4. /\ request[r].pc = "store" => request[r].op = "create"
      /\ request[r].pc = "record" => request[r].op \in {"start", "stop"}
      /\ request[r].pc = "db_delete" => request[r].op = "delete"
  BY DEF ManagerInv, OpOfPc, Creating, Deleting, CreatePcs, ChangePcs, DeletePcs
<1> QED BY <1>1, <1>3, <1>4 DEF StoreInMap, Record, DeleteFromDb

\* A list has what it must have: a settled entry has a document that says the
\* same, unless somebody is about to write it.
LEMMA ListIsComplete ==
  ASSUME ManagerInv, Coupled, NEW i \in Id, ~Occupied(i),
         containers[i].status \in Settled
  PROVE  InDb(i) /\ db[i] = containers[i].status
<1>1. containers[i].status \in {"running", "stopped"}
  BY DEF Settled
<1>2. ASSUME NEW r \in Request, request[r].pc = "record", request[r].id = i
      PROVE  Occupied(i)
  <2>1. http[r].op = request[r].op /\ http[r].id = i
    BY <1>2 DEF Coupled, Active
  <2>2. request[r].op \in {"start", "stop"}
    BY <1>2 DEF ManagerInv, OpOfPc, ChangePcs
  <2> QED BY <2>1, <2>2 DEF Occupied, Changing
<1>3. db[i] = containers[i].status
  BY <1>1, <1>2 DEF ManagerInv, DatabaseInv, DocumentAgrees
<1> QED BY <1>1, <1>3 DEF InDb

\* What the handlers answer is so when they answer it, whatever else goes on.
THEOREM RepliesAreTrue ==
  ASSUME ApiSurroundings, <<"remove", "refused">> \notin DockerFaults
  PROVE  ApiSpec => []RepliesTrue
<1>1. ApiInit => Removed /\ RepliesTrue
  BY DEF ApiInit, Init, Idle, NoReply, Removed, RepliesTrue
<1>2. ApiInv /\ Removed /\ RepliesTrue /\ [ApiNext]_allVars => RepliesTrue'
  <2> SUFFICES ASSUME ApiInv, Removed, RepliesTrue, [ApiNext]_allVars
               PROVE  RepliesTrue'
    OBVIOUS
  <2>1. CASE UNCHANGED allVars
    BY <2>1 DEF allVars, apiVars, vars, RepliesTrue, InMap, InDb, Exists, Occupied
  <2>2. CASE Silent' \/ ConnectReply \/ UnknownReply
    BY <2>2 DEF Silent, ConnectReply, UnknownReply, RepliesTrue
  <2>3. CASE ListReply
    <3>1. ASSUME NEW i \in Id, owner'[i] = reply'.user, ~Occupied(i)',
                 containers'[i].status \in reply'.filter \cap Settled
          PROVE  i \in reply'.shown
      <4>1. UNCHANGED <<containers, db, http, owner>>
        BY <2>3 DEF ListReply, vars
      <4>2. InDb(i) /\ db[i] = containers[i].status
        BY <3>1, <4>1, ListIsComplete DEF ApiInv, Occupied
      <4> QED BY <2>3, <3>1, <4>1, <4>2 DEF ListReply, Listed, Documents
    <3>2. reply'.op = "list" /\ reply'.code = 200
      BY <2>3 DEF ListReply
    <3> QED BY <3>1, <3>2 DEF RepliesTrue
  <2>4. ASSUME NEW r \in Request, ManagerReply(r)
        PROVE  RepliesTrue'
    <3>1. CASE reply'.code = 500
      BY <3>1 DEF RepliesTrue
    <3>2. CASE reply'.code # 500
      <4> DEFINE id == request[r].id
      <4>1. /\ reply'.op = request[r].op /\ reply'.id = id /\ reply'.force = request[r].force
            /\ reply'.code = 201 => request[r].op = "create"
        BY <2>4, <3>2, LastStep, ResultCodes DEF ApiInv, ManagerReply
      <4>2. CASE StoreInMap(r) /\ request[r].op = "create"
        BY <4>1, <4>2, CreatedIsThere DEF RepliesTrue, ApiInv, InMap, InDb
      <4>3. CASE Record(r) /\ request[r].op \in {"start", "stop"}
        BY <4>1, <4>3, ChangeIsMade DEF RepliesTrue, ApiInv
      <4>4. CASE DeleteFromDb(r) /\ request[r].op = "delete"
        BY <4>1, <4>4, DeletedIsGone DEF RepliesTrue, ApiInv, InMap, InDb, Exists
      <4> QED BY <2>4, <3>2, <4>2, <4>3, <4>4, LastStep DEF ApiInv
    <3> QED BY <3>1, <3>2
  <2> QED BY <2>1, <2>2, <2>3, <2>4, ReplyShapes DEF ApiInv
<1> QED BY <1>1, <1>2, ApiInvInit, ApiInvNext, RemovedNext, PTL DEF ApiSpec
=============================================================================
