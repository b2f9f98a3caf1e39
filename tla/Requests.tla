------------------------------ MODULE Requests ------------------------------
(***************************************************************************)
(* The HTTP API of src/internal/api on top of the container manager: the   *)
(* middleware chain, the routing table, the handlers of the container      *)
(* endpoints and the replies clients get.                                  *)
(*                                                                         *)
(* What a handler does before it first looks at shared state is local, so  *)
(* it is one step with that first look.  From then on a request is a       *)
(* sequence of steps that interleave with those of all others: the read of *)
(* the map, the query of the database, and the steps of ContainerManager.  *)
(*                                                                         *)
(* Restarts, containers that exit by themselves and calls that the daemon  *)
(* carries out late are left to ContainerManager.                          *)
(***************************************************************************)
EXTENDS ContainerManager

CONSTANTS
  User,     \* the user ids that tokens name
  Creator   \* bound: the users who create containers

NoUser == "nobody"
ASSUME UserAssumption == NoUser \notin User /\ Creator \subseteq User

VARIABLES
  http,      \* the handler of every request goroutine
  reply,     \* the reply sent in the last step, if that step sent one
  owner,     \* UserID of every container, NoUser before its creation
  available  \* whether main.go has got a container manager

apiVars == <<http, reply, owner, available>>
allVars == <<vars, apiVars>>

-----------------------------------------------------------------------------
(* Operations *)

Op == {"list", "create", "get", "delete", "stop", "start", "connect"}
LookedUp == {"get", "delete", "stop", "connect"}
Changing == {"create", "delete", "stop", "start"}

\* What middleware, router and handlers answer by themselves: a preflight request,
\* health or images; no container id; no user; a method or action there is not;
\* no container manager.
LocalReplies == {200, 400, 401, 405} \cup (IF available THEN {} ELSE {503})

-----------------------------------------------------------------------------
(* Replies *)

Waiting == [stage |-> "none", op |-> "none", id |-> "none", user |-> NoUser]
HttpState == [stage: {"none", "database", "manager"}, op: Op \cup {"none"},
              id: Id \cup {"none"}, user: User \cup {NoUser}]
NoReply == [code |-> 0, op |-> "none", id |-> "none", user |-> NoUser,
            filter |-> {}, shown |-> {}, port |-> NoPort, force |-> FALSE]

\* A reply of which the properties need no more than its code.
Answer(code) == reply' = [NoReply EXCEPT !.code = code]
Ended(r) == http' = [http EXCEPT ![r] = Waiting]
Stage(r, stage, op, id, user) ==
  /\ http' = [http EXCEPT ![r] = [stage |-> stage, op |-> op, id |-> id, user |-> user]]
  /\ reply' = NoReply

Free(r) == http[r].stage = "none"
Ready(r) == Free(r) /\ reply = NoReply

\* A request that changes the container is under way.
Occupied(id) ==
  \E r \in Request : http[r].op \in Changing /\ http[r].id = id

-----------------------------------------------------------------------------
(* Requests that need nothing of the manager *)

Rejected(r) ==
  /\ Ready(r)
  /\ \E code \in LocalReplies : Answer(code)
  /\ UNCHANGED <<vars, http, owner, available>>

\* POST /api/containers: an image the table does not have, or a body that does
\* not decode.
Malformed(r) ==
  /\ Ready(r) /\ available
  /\ Answer(400)
  /\ UNCHANGED <<vars, http, owner, available>>

\* The documents of a user, and those of them with a status of the filter.
Documents(user) == {id \in Id : owner[id] = user /\ InDb(id)}
Listed(user, filter) == {id \in Documents(user) : db[id] \in filter}

\* GET /api/containers
List(r, user, filter) ==
  /\ Ready(r) /\ available
  /\ reply' = [NoReply EXCEPT !.code = 200, !.op = "list", !.user = user,
                              !.filter = filter, !.shown = Listed(user, filter)]
  /\ UNCHANGED <<vars, http, owner, available>>

-----------------------------------------------------------------------------
(* Create and start go to the manager at once *)

Create(r, id, user, enableADB) ==
  /\ Ready(r) /\ available /\ ~Occupied(id)
  /\ \/ /\ AllocateGRPC(r, id, enableADB)
        /\ Stage(r, "manager", "create", id, user)
        /\ owner' = [owner EXCEPT ![id] = user]
     \/ /\ FreePorts = {} /\ docker[id].state = "none"
        /\ Answer(500)
        /\ UNCHANGED <<vars, http, owner>>
  /\ UNCHANGED available

\* Without a look-up; clients start containers they know of.
Start(r, id, user) ==
  /\ Ready(r) /\ available /\ ~Occupied(id)
  /\ BeginChange(r, "start", id)
  /\ Stage(r, "manager", "start", id, user)
  /\ UNCHANGED <<owner, available>>

-----------------------------------------------------------------------------
(* Get, connect, stop and delete look the container up *)

Get(r) == Ended(r) /\ Answer(200) /\ UNCHANGED vars

\* Mutant: any container it finds will do.
ConnectAnyStatus(r, id, status, port) ==
  /\ Ended(r)
  /\ reply' = [NoReply EXCEPT !.code = 200, !.op = "connect", !.id = id, !.port = port]
  /\ UNCHANGED vars

\* status and port are those the container was found with.
Connect(r, id, status, port) ==
  /\ Ended(r)
  /\ IF status = "running"
     THEN reply' = [NoReply EXCEPT !.code = 200, !.op = "connect", !.id = id, !.port = port]
     ELSE Answer(400)
  /\ UNCHANGED vars

Stop(r, id, user) ==
  Begins(r, "stop", id, "mark", FALSE) /\ Stage(r, "manager", "stop", id, user)

Delete(r, id, user, force) ==
  /\ Begins(r, "delete", id, "mark_removing", force)
  /\ Stage(r, "manager", "delete", id, user)

\* What a handler does with a container it has found.
Found(r, op, id, user, force, status, port) ==
  IF owner[id] # user THEN Ended(r) /\ Answer(403) /\ UNCHANGED vars
  ELSE \/ op = "get" /\ Get(r)
       \/ op = "connect" /\ Connect(r, id, status, port)
       \/ op = "stop" /\ Stop(r, id, user)
       \/ op = "delete" /\ Delete(r, id, user, force)

\* GetContainer of the manager reads the map first.  Who changes a container
\* knows it, and waits for other changes of it; who reads it does not.
LookUp(r, op, id, user, force) ==
  /\ Ready(r) /\ available /\ op \in LookedUp
  /\ op \in Changing => (InMap(id) \/ InDb(id)) /\ ~Occupied(id)
  /\ \/ InMap(id) /\ Found(r, op, id, user, force, containers[id].status, containers[id].grpc)
     \/ ~InMap(id) /\ Stage(r, "database", op, id, user) /\ UNCHANGED vars
  /\ UNCHANGED <<owner, available>>

\* A container that the map does not have is looked for in the database; its
\* document has the port it was created with.
LookUpInDb(r, force) ==
  LET h == http[r] IN
  /\ h.stage = "database"
  /\ \/ /\ InDb(h.id)
        /\ Found(r, h.op, h.id, h.user, force, db[h.id], docker[h.id].grpc)
     \/ /\ ~InDb(h.id) /\ Ended(r) /\ UNCHANGED vars
        /\ reply' = [NoReply EXCEPT !.code = 404, !.id = h.id]
  /\ UNCHANGED <<owner, available>>

\* Mutant: the error of the manager is dropped.
ResultUnchecked(op, pc) == IF op = "create" THEN 201 ELSE 200

\* The code of a request whose manager call ends with the step from pc.
Result(op, pc) ==
  IF pc \notin {"store", "record", "db_delete"} THEN 500
  ELSE IF op = "create" THEN 201 ELSE 200

\* Mutant: an error of the manager is logged but not answered.
WorkUnanswered(r) ==
  /\ http[r].stage = "manager"
  /\ Step(r)
  /\ IF Active(r)' \/ Result(http[r].op, request[r].pc) = 500
     THEN reply' = NoReply /\ UNCHANGED http
     ELSE Ended(r) /\ Answer(Result(http[r].op, request[r].pc))
  /\ UNCHANGED <<owner, available>>

\* A step of the manager; with its last one the handler replies.
Work(r) ==
  LET h == http[r] IN
  /\ h.stage = "manager"
  /\ Step(r)
  /\ IF Active(r)' THEN reply' = NoReply /\ UNCHANGED http
     ELSE /\ Ended(r)
          /\ reply' = [NoReply EXCEPT !.code = Result(h.op, request[r].pc), !.op = h.op,
                                      !.id = h.id, !.force = request[r].force]
  /\ UNCHANGED <<owner, available>>

-----------------------------------------------------------------------------
\* NewManager fails when the daemon does not answer the ping; the API is served
\* all the same.
ApiInit ==
  /\ Init
  /\ http = [r \in Request |-> Waiting]
  /\ reply = NoReply
  /\ owner = [id \in Id |-> NoUser]
  /\ available \in BOOLEAN

Continue(r) == Work(r) \/ \E force \in BOOLEAN : LookUpInDb(r, force)

Arrive(r) ==
  \/ Rejected(r) \/ Malformed(r)
  \/ \E user \in User :
       \/ \E filter \in {Status, {"running"}, {"stopped"}} : List(r, user, filter)
       \/ \E id \in Id :
            \/ \E enableADB \in BOOLEAN :
                 user \in Creator /\ Create(r, id, user, enableADB)
            \/ Start(r, id, user)
            \/ \E op \in LookedUp, force \in BOOLEAN : LookUp(r, op, id, user, force)

\* A reply is seen before the next request comes.
Seen == reply # NoReply /\ reply' = NoReply /\ UNCHANGED <<vars, http, owner, available>>

ApiNext == Seen \/ \E r \in Request : Arrive(r) \/ Continue(r)

ApiSpec == ApiInit /\ [][ApiNext]_allVars

\* A request that has arrived takes its next step: goroutines are scheduled, and
\* calls of the daemon end after 30 s.
FairApiSpec == ApiSpec /\ \A r \in Request : WF_allVars(Continue(r))

-----------------------------------------------------------------------------
(* Invariants *)

Settled == {"running", "stopped"}

\* What a success says is so when it is said (handler.go:106, 166, 272, 314,
\* 363): a created container runs, is found and is listed; a stopped one does
\* not run, a started one does; a deleted one is in neither the map nor the
\* list, and the daemon has it no more if force was asked for; a list has every
\* container of the user that nobody is changing and whose status fits.
RepliesTrue ==
  LET id == reply.id
      Succeeds(op) == reply.code = 200 /\ reply.op = op
      Runs == docker[id].state = "running" IN
  /\ reply.code = 201 => Runs /\ InMap(id) /\ InDb(id)
  /\ Succeeds("stop") => ~Runs
  /\ Succeeds("start") => Runs
  /\ Succeeds("delete") => ~InMap(id) /\ ~InDb(id) /\ (reply.force => ~Exists(id))
  /\ Succeeds("list") =>
       \A i \in Id : owner[i] = reply.user /\ ~Occupied(i)
                     /\ containers[i].status \in reply.filter \cap Settled
                     => i \in reply.shown

\* An address to connect to (handler.go:405-417) is the port that a running
\* container has bound, unless it is being stopped or deleted: a look-up that
\* has not found it in the map takes what the database says a step later.
AddressesLive ==
  reply.op = "connect" /\ reply.code = 200 =>
    \/ docker[reply.id].state = "running" /\ docker[reply.id].grpc = reply.port
    \/ \E r \in Request : http[r].op \in {"stop", "delete"} /\ http[r].id = reply.id

\* A container that is said not to be found is not in the map either, though
\* that was read a step earlier (docker.go:754-772 against 563-576 and 735-745).
NotFoundIsUnknown ==
  reply.code = 404 => ~InMap(reply.id) /\ ~InDb(reply.id)

-----------------------------------------------------------------------------
(* Liveness *)

\* Every request that has arrived gets its reply.
RequestsAnswered == \A r \in Request : ~Free(r) ~> Free(r)

\* "starting", "stopping" and "removing" are passed through (docker.go:641, 678,
\* 736): an entry that a request has in hand does not stay in one of them,
\* unless the client of that request is told that it has failed.
TransientStatusSettles ==
  \A id \in Id :
    LET Passing(status) == status \in {"starting", "stopping", "removing"}
    IN Passing(containers[id].status) /\ Occupied(id) ~>
         ~Passing(containers[id].status) \/ (reply.code = 500 /\ reply.id = id)
=============================================================================
