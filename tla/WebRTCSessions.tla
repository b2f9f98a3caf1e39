--------------------------- MODULE WebRTCSessions ---------------------------
(***************************************************************************)
(* The WebRTC sessions of src/internal/api/handler.go: one map from        *)
(* container id to session under a mutex, the peer connections whose state *)
(* callbacks run in goroutines of their own, the GPU bridge that a         *)
(* connected session starts and the legacy streaming it falls back to.     *)
(*                                                                         *)
(* Peer connections (pion/webrtc), the Docker daemon and the emulator are  *)
(* external.  pion runs every state callback as "go handler(state)", also  *)
(* the one for Closed that PeerConnection.Close causes: a callback may run *)
(* at any time after its event.                                            *)
(***************************************************************************)
EXTENDS Naturals, FiniteSets

CONSTANTS
  Session,       \* bound: the WebRTCSession values that offers create
  Key,           \* container ids, and DefaultKey for offers without one
  DefaultKey,    \* "": no container, so no gRPC port and no bridge
  Task,          \* bound: one for every time a connection becomes connected
  UseGPUBridge,  \* the USE_GPU_BRIDGE setting
  Reoffer,       \* whether an id may be offered again after its first offer
  Reconnect      \* whether a disconnected connection may recover

None == "none"

ASSUME SessionAssumption ==
  /\ None \notin Session /\ None \notin Key /\ None \notin Task
  /\ DefaultKey \in Key
  /\ UseGPUBridge \in BOOLEAN /\ Reoffer \in BOOLEAN /\ Reconnect \in BOOLEAN

VARIABLES
  sessions,  \* WebRTCSessionManager.sessions
  session,   \* the WebRTCSession values
  pc,        \* the state of each session's peer connection (external)
  callbacks, \* the Failed and Closed callbacks that have not run yet
  task,      \* the goroutines that a Connected callback leads to
  bridge     \* the ContainerBridge each task creates

vars == <<sessions, session, pc, callbacks, task, bridge>>

-----------------------------------------------------------------------------
(* Values *)

SessionState ==
  [state: {"none", "negotiating", "abandoned", "open"}, key: Key \cup {None},
   bridge: Task \cup {None}, port: BOOLEAN]
PcState == {"new", "connected", "disconnected", "failed", "closed"}
Terminal == {"failed", "closed"}

\* callback: the Connected callback; assign, start, encoders: the goroutine
\* that starts the bridge; connect: startStreaming up to its loop; streaming
\* and test: the two loops that send frames.
TaskPc == {"free", "callback", "assign", "start", "encoders", "connect",
           "streaming", "test", "done"}
TaskState == [pc: TaskPc, session: Session \cup {None}, target: Task \cup {None}]

\* running and closed (of stopCh) are the fields; readers counts the runExec
\* goroutines.
Bridge == [running: BOOLEAN, closed: BOOLEAN, readers: Nat]

KeyOf(s) == session[s].key
InMap(s) == KeyOf(s) # None /\ sessions[KeyOf(s)] = s
SessionOf(t) == task[t].session
At(t, where) == task[t].pc = where
Go(t, where) == task' = [task EXCEPT ![t].pc = where]
Loops(t) == task[t].pc \in {"streaming", "test"}

-----------------------------------------------------------------------------
(* The session manager.  pending are the callbacks that are still to run.  *)

Stopped(b) ==
  IF b # None /\ bridge[b].running
  THEN [bridge EXCEPT ![b] = [@ EXCEPT !.running = FALSE, !.closed = TRUE]]
  ELSE bridge

\* Mutant: the entry is not deleted.
RemoveSessionKept(key, pending) ==
  LET s == sessions[key] IN
  IF s = None
  THEN callbacks' = pending /\ UNCHANGED <<sessions, pc, bridge>>
  ELSE /\ pc' = [pc EXCEPT ![s] = "closed"]
       /\ callbacks' = IF pc[s] = "closed" THEN pending ELSE pending \cup {<<s, "closed">>}
       /\ bridge' = Stopped(session[s].bridge)
       /\ UNCHANGED sessions

\* Mutant: the peer connection is left open.
RemoveSessionUnclosed(key, pending) ==
  LET s == sessions[key] IN
  IF s = None
  THEN callbacks' = pending /\ UNCHANGED <<sessions, pc, bridge>>
  ELSE /\ callbacks' = pending
       /\ bridge' = Stopped(session[s].bridge)
       /\ sessions' = [sessions EXCEPT ![key] = None]
       /\ UNCHANGED pc

\* Mutant: the container id gets lost, the session of DefaultKey is removed.
RemoveSessionUnnamed(key, pending) ==
  LET s == sessions[DefaultKey] IN
  IF s = None
  THEN callbacks' = pending /\ UNCHANGED <<sessions, pc, bridge>>
  ELSE /\ pc' = [pc EXCEPT ![s] = "closed"]
       /\ callbacks' = IF pc[s] = "closed" THEN pending ELSE pending \cup {<<s, "closed">>}
       /\ bridge' = Stopped(session[s].bridge)
       /\ sessions' = [sessions EXCEPT ![DefaultKey] = None]

\* removeSession: whatever session the key has now is closed and stopped, under
\* the mutex.  Close of the peer connection causes its Closed callback; Stop of
\* a bridge that is not running does nothing.
RemoveSession(key, pending) ==
  LET s == sessions[key] IN
  IF s = None
  THEN callbacks' = pending /\ UNCHANGED <<sessions, pc, bridge>>
  ELSE /\ pc' = [pc EXCEPT ![s] = "closed"]
       /\ callbacks' = IF pc[s] = "closed" THEN pending ELSE pending \cup {<<s, "closed">>}
       /\ bridge' = Stopped(session[s].bridge)
       /\ sessions' = [sessions EXCEPT ![key] = None]

-----------------------------------------------------------------------------
(* handleOffer *)

\* port tells whether the container has a gRPC port: one found again after a restart
\* of the server may have none.
Offer(s, key) ==
  /\ session[s].state = "none"
  /\ Reoffer \/ \A other \in Session : KeyOf(other) # key
  /\ \E port \in BOOLEAN :
       /\ key = DefaultKey => ~port
       /\ session' = [session EXCEPT ![s] = [@ EXCEPT !.state = "negotiating", !.key = key,
                                                     !.port = port]]
  /\ UNCHANGED <<sessions, pc, callbacks, task, bridge>>

\* An early return: the new peer connection is neither kept nor closed.
NegotiationFails(s) ==
  /\ session[s].state = "negotiating"
  /\ session' = [session EXCEPT ![s].state = "abandoned"]
  /\ UNCHANGED <<sessions, pc, callbacks, task, bridge>>

\* Mutant: the session is filed under the id for offers without one.
AddSessionUnnamed(s) ==
  /\ session[s].state = "negotiating"
  /\ session' = [session EXCEPT ![s].state = "open"]
  /\ sessions' = [sessions EXCEPT ![DefaultKey] = s]
  /\ UNCHANGED <<pc, callbacks, task, bridge>>

\* addSession overwrites.  Only then does the client get the answer that it
\* needs to connect.
AddSession(s) ==
  /\ session[s].state = "negotiating"
  /\ session' = [session EXCEPT ![s].state = "open"]
  /\ sessions' = [sessions EXCEPT ![KeyOf(s)] = s]
  /\ UNCHANGED <<pc, callbacks, task, bridge>>

-----------------------------------------------------------------------------
(* Peer connections *)

Connect(s, t) ==
  /\ session[s].state = "open"
  /\ pc[s] = "new" \/ (Reconnect /\ pc[s] = "disconnected")
  /\ At(t, "free")
  /\ pc' = [pc EXCEPT ![s] = "connected"]
  /\ task' = [task EXCEPT ![t] = [pc |-> "callback", session |-> s, target |-> None]]
  /\ UNCHANGED <<sessions, session, callbacks, bridge>>

Disconnect(s) ==
  /\ pc[s] = "connected"
  /\ pc' = [pc EXCEPT ![s] = "disconnected"]
  /\ UNCHANGED <<sessions, session, callbacks, task, bridge>>

Fail(s) ==
  /\ session[s].state = "open" /\ pc[s] \notin Terminal
  /\ pc' = [pc EXCEPT ![s] = "failed"]
  /\ callbacks' = callbacks \cup {<<s, "failed">>}
  /\ UNCHANGED <<sessions, session, task, bridge>>

-----------------------------------------------------------------------------
(* Callbacks *)

\* Mutant: only Closed removes the session.
LostCallbackClosedOnly(s, state) ==
  /\ <<s, state>> \in callbacks
  /\ IF state = "closed"
     THEN RemoveSession(KeyOf(s), callbacks \ {<<s, state>>})
     ELSE /\ callbacks' = callbacks \ {<<s, state>>}
          /\ UNCHANGED <<sessions, pc, bridge>>
  /\ UNCHANGED <<session, task>>

\* Failed and Closed name the session by its key.
LostCallback(s, state) ==
  /\ <<s, state>> \in callbacks
  /\ RemoveSession(KeyOf(s), callbacks \ {<<s, state>>})
  /\ UNCHANGED <<session, task>>

\* What a session does without a bridge.
Fallback(s) == IF session[s].port THEN "connect" ELSE "test"

\* Without a container there is neither a bridge nor a gRPC port.
ConnectedCallback(t) ==
  LET s == SessionOf(t) IN
  /\ At(t, "callback")
  /\ Go(t, IF UseGPUBridge /\ KeyOf(s) # DefaultKey THEN "assign" ELSE Fallback(s))
  /\ UNCHANGED <<sessions, session, pc, callbacks, bridge>>

-----------------------------------------------------------------------------
(* The GPU bridge *)

\* The task's own new bridge becomes the session's.
Assign(t) ==
  /\ At(t, "assign")
  /\ session' = [session EXCEPT ![SessionOf(t)].bridge = t]
  /\ Go(t, "start")
  /\ UNCHANGED <<sessions, pc, callbacks, bridge>>

\* Mutant: a bridge that is running is started again.
StartBridgeAgain(t) ==
  LET b == session[SessionOf(t)].bridge IN
  /\ At(t, "start")
  /\ bridge' = [bridge EXCEPT ![b].running = TRUE]
  /\ task' = [task EXCEPT ![t] = [@ EXCEPT !.pc = "encoders", !.target = b]]
  /\ UNCHANGED <<sessions, session, pc, callbacks>>

\* Start of whatever bridge the session has by now; one that is running is an
\* error, and the session falls back.
StartBridge(t) ==
  LET b == session[SessionOf(t)].bridge IN
  /\ At(t, "start")
  /\ \/ /\ ~bridge[b].running
        /\ bridge' = [bridge EXCEPT ![b].running = TRUE]
        /\ task' = [task EXCEPT ![t] = [@ EXCEPT !.pc = "encoders", !.target = b]]
     \/ bridge[b].running /\ Go(t, Fallback(SessionOf(t))) /\ UNCHANGED bridge
  /\ UNCHANGED <<sessions, session, pc, callbacks>>

\* The encoders are tried in turn: one exec is created and its reader runs, or
\* all of them fail and the session falls back.
StartEncoder(t) ==
  LET b == task[t].target IN
  /\ At(t, "encoders")
  /\ \/ bridge' = [bridge EXCEPT ![b].readers = @ + 1] /\ Go(t, "done")
     \/ bridge' = [bridge EXCEPT ![b].running = FALSE] /\ Go(t, Fallback(SessionOf(t)))
  /\ UNCHANGED <<sessions, session, pc, callbacks>>

\* runExec returns: stopCh is closed, the stream has ended or the 30 s of the
\* HTTP client are over.  Its deferred function clears the flag.
ReaderEnds(b) ==
  /\ bridge[b].readers > 0
  /\ bridge' = [bridge EXCEPT ![b].running = FALSE, ![b].readers = @ - 1]
  /\ UNCHANGED <<sessions, session, pc, callbacks, task>>

-----------------------------------------------------------------------------
(* Legacy streaming and test frames *)

\* startStreaming: connection, first frame and encoder, or the session ends.
StartStreaming(t) ==
  /\ At(t, "connect")
  /\ \/ Go(t, "streaming") /\ UNCHANGED <<sessions, pc, callbacks, bridge>>
     \/ Go(t, "done") /\ RemoveSession(KeyOf(SessionOf(t)), callbacks)
  /\ UNCHANGED session

\* A recovered panic, of a client that another stream of the session has set to nil:
\* nothing streams, and nothing is removed.  It may come from the removal after an
\* error, which has closed the connection by then.  (SessionResources has the client.)
StreamingPanics(t) ==
  LET s == sessions[KeyOf(SessionOf(t))] IN
  /\ At(t, "connect")
  /\ \E u \in Task \ {t} : SessionOf(u) = SessionOf(t) /\ task[u].pc \in {"streaming", "done"}
  /\ \/ UNCHANGED <<pc, callbacks>>
     \/ /\ s # None /\ pc[s] # "closed"
        /\ pc' = [pc EXCEPT ![s] = "closed"]
        /\ callbacks' = callbacks \cup {<<s, "closed">>}
  /\ Go(t, "done")
  /\ UNCHANGED <<sessions, session, bridge>>

\* Mutant: the loop looks at its own connection only.
StreamingLoopUnchecked(t) ==
  /\ At(t, "streaming")
  /\ pc[SessionOf(t)] = "failed"
  /\ Go(t, "done")
  /\ UNCHANGED <<sessions, session, pc, callbacks, bridge>>

\* streamingLoop ends when its key has no session; a tick that sends a frame
\* changes nothing here.
StreamingLoop(t) ==
  /\ At(t, "streaming")
  /\ sessions[KeyOf(SessionOf(t))] = None
  /\ Go(t, "done")
  /\ UNCHANGED <<sessions, session, pc, callbacks, bridge>>

\* After 20 errors in a row the connection to the emulator cannot be restarted.
StreamingGivesUp(t) ==
  /\ At(t, "streaming")
  /\ sessions[KeyOf(SessionOf(t))] # None
  /\ Go(t, "done")
  /\ UNCHANGED <<sessions, session, pc, callbacks, bridge>>

\* The test loop ends when its key has no session, or with it after 30 frames.
TestFrames(t) ==
  /\ At(t, "test")
  /\ Go(t, "done")
  /\ RemoveSession(KeyOf(SessionOf(t)), callbacks)
  /\ UNCHANGED session

-----------------------------------------------------------------------------
Init ==
  /\ sessions = [key \in Key |-> None]
  /\ session = [s \in Session |-> [state |-> "none", key |-> None, bridge |-> None,
                                   port |-> FALSE]]
  /\ pc = [s \in Session |-> "new"]
  /\ callbacks = {}
  /\ task = [t \in Task |-> [pc |-> "free", session |-> None, target |-> None]]
  /\ bridge = [b \in Task |-> [running |-> FALSE, closed |-> FALSE, readers |-> 0]]

\* What the goroutine of a task does next without a fault.
Run(t) ==
  \/ ConnectedCallback(t) \/ Assign(t) \/ StartBridge(t) \/ StartEncoder(t)
  \/ StartStreaming(t) \/ StreamingLoop(t) \/ TestFrames(t)

Negotiate(s) ==
  \/ \E key \in Key : Offer(s, key)
  \/ NegotiationFails(s) \/ AddSession(s)

PeerConnection(s) ==
  \/ \E t \in Task : Connect(s, t)
  \/ Disconnect(s) \/ Fail(s)

Next ==
  \/ \E s \in Session : Negotiate(s) \/ PeerConnection(s)
  \/ \E s \in Session, state \in Terminal : LostCallback(s, state)
  \/ \E t \in Task : Run(t) \/ StreamingGivesUp(t) \/ StreamingPanics(t) \/ ReaderEnds(t)

Spec == Init /\ [][Next]_vars

\* Go schedules every goroutine, callbacks included.  Nothing obliges clients
\* to offer or connections to change, and no stream has to fail.
FairSpec ==
  /\ Spec
  /\ \A t \in Task : WF_vars(Run(t))
  /\ \A s \in Session, state \in Terminal : WF_vars(LostCallback(s, state))

-----------------------------------------------------------------------------
(* Invariants *)

VariableTypes ==
  /\ sessions \in [Key -> Session \cup {None}]
  /\ session \in [Session -> SessionState]
  /\ pc \in [Session -> PcState]
  /\ callbacks \subseteq Session \X Terminal
  /\ task \in [Task -> TaskState]
  /\ bridge \in [Task -> Bridge]

\* Every variable has its type, and the map is one from ids to sessions that were
\* negotiated for that id and have been answered (handler.go:494-499, 804): whoever
\* looks a session up by its id (1072, 1120) gets one of that container.
TypeOK ==
  /\ VariableTypes
  /\ \A key \in Key : sessions[key] # None =>
       session[sessions[key]].state = "open" /\ KeyOf(sessions[key]) = key

\* Stop (container_bridge.go:573-582) never closes stopCh a second time, which
\* would be a panic with the mutex of the session manager held: no session in
\* the map has a bridge that runs with a closed stopCh.
StopClosesOnce ==
  \A s \in Session : InMap(s) /\ session[s].bridge # None =>
    ~(bridge[session[s].bridge].running /\ bridge[session[s].bridge].closed)

\* While its session is in the map, the bridge of a session has at most one
\* reader, and a reader means that Stop takes effect (container_bridge.go:
\* 376-380 and 577-579): no old reader clears the flag under a new one.
StoppableStream ==
  \A s \in Session : InMap(s) /\ session[s].bridge # None =>
    LET b == bridge[session[s].bridge] IN b.readers > 0 => b.running /\ b.readers = 1

\* No other session has been offered under the id of s.
Alone(s) == \A other \in Session \ {s} : KeyOf(other) # KeyOf(s)

\* A session whose connection is not closed is in the map, where the callbacks
\* find it (handler.go:501-524): nothing but an offer of the same id loses an
\* open connection.
OpenIsInMap ==
  \A s \in Session :
    session[s].state = "open" /\ pc[s] # "closed" /\ Alone(s) => InMap(s)

\* A stream that has not been told to stop belongs to a session in the map
\* (handler.go:511, "Stop GPU bridge if running").
StreamsHaveSessions ==
  \A t \in Task : bridge[t].readers > 0 /\ ~bridge[t].closed =>
    \E s \in Session : InMap(s) /\ \E u \in Task : SessionOf(u) = s /\ task[u].target = t

-----------------------------------------------------------------------------
(* Action properties *)

\* The session of a key is removed because of its own connection or its own
\* stream (handler.go:467, "persistent connections"): another session's late
\* callback does not end it, unless that session was offered under the same id.
RemovedForOwnReason ==
  [][\A s \in Session :
       InMap(s) /\ Alone(s) /\ pc[s] \notin Terminal /\ pc'[s] = "closed" =>
       \E t \in Task : SessionOf(t) = s /\ task'[t].pc = "done" /\ task[t].pc # "done"]_vars

-----------------------------------------------------------------------------
(* Liveness *)

\* A session whose connection has failed is removed (handler.go:745-748).
FailedSessionsGo ==
  \A s \in Session : InMap(s) /\ pc[s] = "failed" ~> ~InMap(s)

\* A loop of a session that removeSession has closed ends (handler.go:1072,
\* "Check if session is still active", and 1120, "Stop if session removed").
RemovedLoopsEnd ==
  \A t \in Task :
    Loops(t) /\ pc[SessionOf(t)] = "closed" ~> ~Loops(t)

\* The same for sessions whose id has not been offered again: whatever happens
\* to other ids does not keep the loop of a removed session alive.
LoneLoopsEnd ==
  \A t \in Task :
    Loops(t) /\ pc[SessionOf(t)] = "closed" ~> ~Loops(t) \/ ~Alone(SessionOf(t))
=============================================================================
