------------------------ MODULE WebRTCSessionsProofs ------------------------
(***************************************************************************)
(* Theorems about WebRTCSessions, for every set of sessions, keys and      *)
(* tasks and every setting of the switches.                                *)
(***************************************************************************)
EXTENDS WebRTCSessions, TLAPS

-----------------------------------------------------------------------------
(* The inductive invariant *)

\* What has been offered has a key, and the map holds open sessions only, each
\* under its own key.
Keyed ==
  /\ \A s \in Session : session[s].state # "none" => session[s].key \in Key
  /\ \A key \in Key : sessions[key] # None =>
       session[sessions[key]].state = "open" /\ session[sessions[key]].key = key

\* Tasks and callbacks belong to open sessions.
Opened ==
  /\ \A t \in Task : ~At(t, "free") =>
       SessionOf(t) \in Session /\ session[SessionOf(t)].state = "open"
  /\ \A callback \in callbacks : session[callback[1]].state = "open"

\* A bridge belongs to the session of the task that created it, and so does the
\* bridge a task has started.
Owned ==
  /\ \A s \in Session : session[s].bridge # None =>
       ~At(session[s].bridge, "free") /\ SessionOf(session[s].bridge) = s
  /\ \A t \in Task : At(t, "start") => session[SessionOf(t)].bridge \in Task
  /\ \A t \in Task : At(t, "encoders") => task[t].target \in Task

Typed == VariableTypes /\ Keyed /\ Opened /\ Owned

\* A bridge is stopped only together with the removal of its session, which
\* never comes back.
ClosedIsRemoved ==
  \A b \in Task : bridge[b].closed =>
    ~At(b, "free") /\ sessions[KeyOf(SessionOf(b))] # SessionOf(b)

Starting(t, b) == At(t, "encoders") /\ task[t].target = b

\* A bridge that has not been stopped is idle, or being started by one task, or
\* read by one reader.
OneStream ==
  \A b \in Task : ~bridge[b].closed =>
    /\ bridge[b].readers > 0 =>
         /\ bridge[b].running /\ bridge[b].readers = 1
         /\ \A t \in Task : ~Starting(t, b)
    /\ \A t \in Task : Starting(t, b) =>
         /\ bridge[b].running /\ bridge[b].readers = 0
         /\ \A u \in Task : Starting(u, b) => u = t

IInv == Typed /\ ClosedIsRemoved /\ OneStream

-----------------------------------------------------------------------------
(* Removal *)

\* What removeSession leaves behind: sessions are taken out of the map and
\* nothing else happens to it; a bridge is left as it is, or it is stopped and
\* its session is gone.
LEMMA RemovalFrame ==
  ASSUME Typed, NEW key \in Key, NEW pending, pending \subseteq callbacks,
         RemoveSession(key, pending)
  PROVE  /\ sessions' \in [Key -> Session \cup {None}]
         /\ pc' \in [Session -> PcState]
         /\ callbacks' \subseteq Session \X Terminal
         /\ bridge' \in [Task -> Bridge]
         /\ \A k \in Key : sessions'[k] \in {sessions[k], None}
         /\ \A callback \in callbacks' : session[callback[1]].state = "open"
         /\ \A b \in Task :
              \/ bridge'[b] = bridge[b]
              \/ /\ bridge'[b].closed /\ ~At(b, "free")
                 /\ sessions'[KeyOf(SessionOf(b))] = None
<1> DEFINE s == sessions[key]
           b == session[s].bridge
<1>1. CASE s = None
  BY <1>1 DEF RemoveSession, Typed, VariableTypes, Opened
<1>2. CASE s # None
  <2>1. s \in Session /\ session[s].state = "open" /\ session[s].key = key
    BY <1>2 DEF Typed, VariableTypes, Keyed
  <2>2. /\ pc' = [pc EXCEPT ![s] = "closed"]
        /\ callbacks' \subseteq pending \cup {<<s, "closed">>}
        /\ bridge' = Stopped(b)
        /\ sessions' = [sessions EXCEPT ![key] = None]
    BY <1>2 DEF RemoveSession
  <2>3. /\ sessions' \in [Key -> Session \cup {None}]
        /\ \A k \in Key : sessions'[k] \in {sessions[k], None}
        /\ sessions'[key] = None
    BY <2>2 DEF Typed, VariableTypes
  <2>4. pc' \in [Session -> PcState]
    BY <2>2 DEF Typed, VariableTypes, PcState
  <2>5. /\ callbacks' \subseteq Session \X Terminal
        /\ \A callback \in callbacks' : session[callback[1]].state = "open"
    BY <2>1, <2>2 DEF Typed, VariableTypes, Opened, Terminal
  <2>6. CASE b = None \/ ~bridge[b].running
    BY <2>2, <2>3, <2>4, <2>5, <2>6 DEF Stopped, Typed, VariableTypes
  <2>7. CASE b # None /\ bridge[b].running
    <3>1. b \in Task /\ ~At(b, "free") /\ KeyOf(SessionOf(b)) = key
      BY <2>1, <2>7 DEF Typed, VariableTypes, SessionState, Owned, KeyOf
    <3>2. bridge' = [bridge EXCEPT ![b] = [@ EXCEPT !.running = FALSE, !.closed = TRUE]]
      BY <2>2, <2>7 DEF Stopped
    <3>3. bridge' \in [Task -> Bridge] /\ bridge'[b].closed
      BY <3>1, <3>2 DEF Typed, VariableTypes, Bridge
    <3>4. \A other \in Task : other # b => bridge'[other] = bridge[other]
      BY <3>1, <3>2 DEF Typed, VariableTypes
    <3> QED BY <2>3, <2>4, <2>5, <3>1, <3>3, <3>4
  <2> QED BY <2>6, <2>7
<1> QED BY <1>1, <1>2

\* A removal, alone or as the last act of a task, keeps the invariant.
LEMMA RemovalKeeps ==
  ASSUME IInv, NEW key \in Key, NEW pending, pending \subseteq callbacks,
         RemoveSession(key, pending), UNCHANGED session,
         UNCHANGED task \/ \E t \in Task : ~At(t, "free") /\ Go(t, "done")
  PROVE  IInv'
<1>1. /\ sessions' \in [Key -> Session \cup {None}]
      /\ pc' \in [Session -> PcState]
      /\ callbacks' \subseteq Session \X Terminal
      /\ bridge' \in [Task -> Bridge]
      /\ \A k \in Key : sessions'[k] \in {sessions[k], None}
      /\ \A callback \in callbacks' : session[callback[1]].state = "open"
      /\ \A b \in Task :
           \/ bridge'[b] = bridge[b]
           \/ /\ bridge'[b].closed /\ ~At(b, "free")
              /\ sessions'[KeyOf(SessionOf(b))] = None
  BY RemovalFrame DEF IInv
<1>2. /\ task' \in [Task -> TaskState]
      /\ \A t \in Task :
           \/ task'[t] = task[t]
           \/ /\ ~At(t, "free") /\ task'[t].pc = "done"
              /\ SessionOf(t)' = SessionOf(t)
  BY DEF IInv, Typed, VariableTypes, Go, TaskState, TaskPc, SessionOf
<1>3. VariableTypes'
  BY <1>1, <1>2 DEF IInv, Typed, VariableTypes
<1>4. Keyed'
  BY <1>1 DEF IInv, Typed, Keyed
<1>5. Opened'
  BY <1>1, <1>2 DEF IInv, Typed, Opened, At, SessionOf
<1>6. Owned'
  BY <1>2 DEF IInv, Typed, VariableTypes, SessionState, Owned, At, SessionOf
<1>7. ClosedIsRemoved'
  <2> SUFFICES ASSUME NEW b \in Task, bridge'[b].closed
               PROVE  /\ ~At(b, "free")'
                      /\ sessions'[KeyOf(SessionOf(b))'] # SessionOf(b)'
    BY DEF ClosedIsRemoved
  <2>1. /\ ~At(b, "free")
        /\ sessions'[KeyOf(SessionOf(b))] # SessionOf(b)
        /\ SessionOf(b) \in Session
    <3>1. ~At(b, "free")
      BY <1>1 DEF IInv, ClosedIsRemoved
    <3>2. SessionOf(b) \in Session /\ KeyOf(SessionOf(b)) \in Key
      BY <3>1 DEF IInv, Typed, Opened, Keyed, KeyOf
    <3>3. SessionOf(b) # None
      BY <3>2, SessionAssumption
    <3>4. CASE bridge'[b] = bridge[b]
      BY <1>1, <3>1, <3>2, <3>3, <3>4 DEF IInv, ClosedIsRemoved
    <3>5. CASE bridge'[b] # bridge[b]
      BY <1>1, <3>1, <3>2, <3>3, <3>5
    <3> QED BY <3>1, <3>2, <3>4, <3>5
  <2>2. SessionOf(b)' = SessionOf(b) /\ ~At(b, "free")'
    BY <1>2, <2>1 DEF At, SessionOf
  <2>3. KeyOf(SessionOf(b))' = KeyOf(SessionOf(b))
    BY <2>2 DEF KeyOf
  <2> QED BY <2>1, <2>2, <2>3
<1>8. OneStream'
  <2>1. \A t, b \in Task : Starting(t, b)' => Starting(t, b)
    BY <1>2 DEF Starting, At
  <2> QED BY <1>1, <2>1 DEF IInv, OneStream
<1> QED BY <1>3, <1>4, <1>5, <1>6, <1>7, <1>8 DEF IInv, Typed

-----------------------------------------------------------------------------
(* The other steps *)

\* A step that leaves map, sessions and bridges alone, and whose task neither
\* begins nor starts a bridge.
LEMMA QuietKeeps ==
  ASSUME IInv, UNCHANGED <<sessions, session, bridge>>,
         pc' \in [Session -> PcState],
         callbacks' \subseteq Session \X Terminal,
         \A callback \in callbacks' : session[callback[1]].state = "open",
         \/ UNCHANGED task
         \/ \E t \in Task, where \in TaskPc \ {"free", "start", "encoders"} :
              ~At(t, "free") /\ Go(t, where)
  PROVE  IInv'
<1>1. /\ task' \in [Task -> TaskState]
      /\ \A t \in Task :
           \/ task'[t] = task[t]
           \/ /\ ~At(t, "free") /\ SessionOf(t)' = SessionOf(t)
              /\ task'[t].pc \notin {"free", "start", "encoders"}
  BY DEF IInv, Typed, VariableTypes, Go, TaskState, SessionOf
<1>2. VariableTypes'
  BY <1>1 DEF IInv, Typed, VariableTypes
<1>3. Keyed'
  BY DEF IInv, Typed, Keyed
<1>4. Opened'
  BY <1>1 DEF IInv, Typed, Opened, At, SessionOf
<1>5. Owned'
  BY <1>1 DEF IInv, Typed, VariableTypes, SessionState, Owned, At, SessionOf
<1>6. ClosedIsRemoved'
  BY <1>1 DEF IInv, ClosedIsRemoved, At, SessionOf, KeyOf
<1>7. OneStream'
  <2>1. \A t, b \in Task : Starting(t, b)' => Starting(t, b)
    BY <1>1 DEF Starting, At
  <2> QED BY <2>1 DEF IInv, OneStream
<1> QED BY <1>2, <1>3, <1>4, <1>5, <1>6, <1>7 DEF IInv, Typed

LEMMA NegotiateKeeps ==
  ASSUME IInv, NEW s \in Session, Negotiate(s)
  PROVE  IInv'
<1>1. /\ UNCHANGED <<pc, callbacks, task, bridge>>
      /\ session' \in [Session -> SessionState]
      /\ session[s].state # "open"
      /\ session'[s].bridge = session[s].bridge
      /\ \A other \in Session \ {s} : session'[other] = session[other]
      /\ session'[s].key \in Key
      /\ \/ sessions' = sessions
         \/ /\ sessions' = [sessions EXCEPT ![session[s].key] = s]
            /\ session'[s].state = "open" /\ session'[s].key = session[s].key
  <2>1. session[s] \in SessionState /\ session \in [Session -> SessionState]
    BY DEF IInv, Typed, VariableTypes
  <2>2. ASSUME NEW key \in Key, Offer(s, key)
        PROVE  <1>1!:
    <3>1. PICK port \in BOOLEAN :
            session' = [session EXCEPT ![s] = [@ EXCEPT !.state = "negotiating", !.key = key,
                                                        !.port = port]]
      BY <2>2 DEF Offer
    <3>2. [session[s] EXCEPT !.state = "negotiating", !.key = key, !.port = port]
            \in SessionState
      BY <2>1 DEF SessionState
    <3> QED BY <2>1, <2>2, <3>1, <3>2 DEF Offer, SessionState
  <2>3. CASE NegotiationFails(s)
    BY <2>1, <2>3 DEF NegotiationFails, SessionState, IInv, Typed, Keyed
  <2>4. CASE AddSession(s)
    BY <2>1, <2>4 DEF AddSession, SessionState, KeyOf, IInv, Typed, Keyed
  <2> QED BY <2>2, <2>3, <2>4 DEF Negotiate
<1>2. \A t \in Task : ~At(t, "free") =>
        SessionOf(t) \in Session \ {s} /\ KeyOf(SessionOf(t))' = KeyOf(SessionOf(t))
  BY <1>1 DEF IInv, Typed, Opened, SessionOf, KeyOf
<1>3. VariableTypes'
  BY <1>1 DEF IInv, Typed, VariableTypes, Keyed
<1>4. Keyed'
  <2>1. \A other \in Session : session'[other].state # "none" => session'[other].key \in Key
    BY <1>1 DEF IInv, Typed, Keyed
  <2>2. \A key \in Key : sessions[key] # None => sessions[key] \in Session \ {s}
    BY <1>1 DEF IInv, Typed, VariableTypes, Keyed
  <2>3. \A key \in Key : sessions'[key] # None =>
          session'[sessions'[key]].state = "open" /\ session'[sessions'[key]].key = key
    BY <1>1, <2>2 DEF IInv, Typed, VariableTypes, Keyed
  <2> QED BY <2>1, <2>3 DEF Keyed
<1>5. Opened'
  BY <1>1, <1>2 DEF IInv, Typed, VariableTypes, Opened, At, SessionOf
<1>6. Owned'
  BY <1>1, <1>2 DEF IInv, Typed, Owned, At, SessionOf
<1>7. ClosedIsRemoved'
  <2> SUFFICES ASSUME NEW b \in Task, bridge[b].closed
               PROVE  ~At(b, "free") /\ sessions'[KeyOf(SessionOf(b))] # SessionOf(b)
    BY <1>1, <1>2 DEF ClosedIsRemoved, At, SessionOf, IInv
  <2>1. ~At(b, "free") /\ sessions[KeyOf(SessionOf(b))] # SessionOf(b)
    BY DEF IInv, ClosedIsRemoved
  <2>2. SessionOf(b) # s /\ KeyOf(SessionOf(b)) \in Key
    BY <1>2, <2>1 DEF IInv, Typed, Opened, Keyed, KeyOf
  <2> QED BY <1>1, <2>1, <2>2 DEF IInv, Typed, VariableTypes
<1>8. OneStream'
  BY <1>1 DEF IInv, OneStream, Starting, At
<1> QED BY <1>3, <1>4, <1>5, <1>6, <1>7, <1>8 DEF IInv, Typed

LEMMA PeerConnectionKeeps ==
  ASSUME IInv, NEW s \in Session, PeerConnection(s)
  PROVE  IInv'
<1>1. ASSUME NEW t \in Task, Connect(s, t)
      PROVE  IInv'
  <2>1. /\ UNCHANGED <<sessions, session, callbacks, bridge>>
        /\ pc' \in [Session -> PcState]
        /\ session[s].state = "open" /\ At(t, "free")
        /\ task' = [task EXCEPT ![t] = [pc |-> "callback", session |-> s, target |-> None]]
    BY <1>1 DEF Connect, IInv, Typed, VariableTypes, PcState
  <2>2. /\ task' \in [Task -> TaskState]
        /\ task'[t].pc = "callback" /\ task'[t].session = s
        /\ \A other \in Task \ {t} : task'[other] = task[other]
    BY <2>1 DEF IInv, Typed, VariableTypes, TaskState, TaskPc
  <2>3. VariableTypes' /\ Keyed'
    BY <2>1, <2>2 DEF IInv, Typed, VariableTypes, Keyed
  <2>4. Opened'
    BY <2>1, <2>2 DEF IInv, Typed, Opened, At, SessionOf
  <2>5. Owned'
    BY <2>1, <2>2 DEF IInv, Typed, VariableTypes, SessionState, Owned, At, SessionOf
  <2>6. ClosedIsRemoved'
    BY <2>1, <2>2 DEF IInv, ClosedIsRemoved, At, SessionOf, KeyOf
  <2>7. OneStream'
    <3>1. \A u, b \in Task : Starting(u, b)' => Starting(u, b)
      BY <2>2 DEF Starting, At
    <3> QED BY <2>1, <3>1 DEF IInv, OneStream
  <2> QED BY <2>3, <2>4, <2>5, <2>6, <2>7 DEF IInv, Typed
<1>2. ASSUME Disconnect(s) \/ Fail(s)
      PROVE  IInv'
  <2>1. /\ pc' \in [Session -> PcState]
        /\ callbacks' \subseteq Session \X Terminal
        /\ \A callback \in callbacks' : session[callback[1]].state = "open"
    BY <1>2 DEF Disconnect, Fail, IInv, Typed, VariableTypes, PcState, Terminal, Opened
  <2> QED BY <1>2, <2>1, QuietKeeps DEF Disconnect, Fail
<1> QED BY <1>1, <1>2 DEF PeerConnection

LEMMA LostCallbackKeeps ==
  ASSUME IInv, NEW s \in Session, NEW state \in Terminal, LostCallback(s, state)
  PROVE  IInv'
<1>1. KeyOf(s) \in Key
  BY DEF LostCallback, IInv, Typed, Opened, Keyed, KeyOf
<1> QED BY <1>1, RemovalKeeps DEF LostCallback

\* The steps of a task that lead to nothing but another place, and the removal
\* of its session.
LEMMA TaskKeeps ==
  ASSUME IInv, NEW t \in Task,
         \/ ConnectedCallback(t) \/ StartStreaming(t) \/ StreamingLoop(t)
         \/ StreamingGivesUp(t) \/ TestFrames(t) \/ StreamingPanics(t)
  PROVE  IInv'
<1>1. ~At(t, "free")
  BY DEF ConnectedCallback, StartStreaming, StreamingLoop, StreamingGivesUp,
         StreamingPanics, TestFrames, At
<1>2. KeyOf(SessionOf(t)) \in Key
  BY <1>1 DEF IInv, Typed, Opened, Keyed, KeyOf
<1>3. ASSUME Go(t, "done"), RemoveSession(KeyOf(SessionOf(t)), callbacks), UNCHANGED session
      PROVE  IInv'
  BY <1>1, <1>2, <1>3, RemovalKeeps
<1>4. ASSUME NEW where \in {"test", "assign", "connect", "streaming", "done"},
             Go(t, where), UNCHANGED <<sessions, session, pc, callbacks, bridge>>
      PROVE  IInv'
  <2>1. where \in TaskPc \ {"free", "start", "encoders"}
    BY DEF TaskPc
  <2> QED BY <1>1, <1>4, <2>1, QuietKeeps DEF IInv, Typed, VariableTypes, Opened
<1>5. CASE StreamingPanics(t)
  <2> DEFINE s == sessions[KeyOf(SessionOf(t))]
  <2>1. Go(t, "done") /\ UNCHANGED <<sessions, session, bridge>>
    BY <1>5 DEF StreamingPanics
  <2>2. \/ UNCHANGED <<pc, callbacks>>
        \/ /\ s # None
           /\ pc' = [pc EXCEPT ![s] = "closed"]
           /\ callbacks' = callbacks \cup {<<s, "closed">>}
    BY <1>5 DEF StreamingPanics
  <2>3. s # None => s \in Session /\ session[s].state = "open"
    BY <1>2 DEF IInv, Typed, VariableTypes, Keyed
  <2>4. /\ pc' \in [Session -> PcState]
        /\ callbacks' \subseteq Session \X Terminal
        /\ \A callback \in callbacks' : session[callback[1]].state = "open"
    BY <2>2, <2>3 DEF IInv, Typed, VariableTypes, Opened, PcState, Terminal
  <2>5. "done" \in TaskPc \ {"free", "start", "encoders"}
    BY DEF TaskPc
  <2> QED BY <1>1, <2>1, <2>4, <2>5, QuietKeeps
<1>6. Fallback(SessionOf(t)) \in {"test", "connect"}
  BY DEF Fallback
<1> QED BY <1>3, <1>4, <1>5, <1>6 DEF ConnectedCallback, StartStreaming, StreamingLoop,
            StreamingGivesUp, TestFrames

LEMMA AssignKeeps ==
  ASSUME IInv, NEW t \in Task, Assign(t)
  PROVE  IInv'
<1> DEFINE s == SessionOf(t)
<1>1. /\ At(t, "assign") /\ s \in Session /\ session[s].state = "open"
      /\ UNCHANGED <<sessions, pc, callbacks, bridge>>
      /\ session' = [session EXCEPT ![s].bridge = t]
      /\ task' = [task EXCEPT ![t].pc = "start"]
  BY DEF Assign, Go, At, IInv, Typed, Opened
<1>2. /\ session' \in [Session -> SessionState]
      /\ session'[s].bridge = t
      /\ \A other \in Session \ {s} : session'[other] = session[other]
      /\ \A other \in Session :
           session'[other].state = session[other].state /\ session'[other].key = session[other].key
  BY <1>1 DEF IInv, Typed, VariableTypes, SessionState
<1>3. /\ task' \in [Task -> TaskState]
      /\ task'[t].pc = "start"
      /\ \A u \in Task : SessionOf(u)' = SessionOf(u)
      /\ \A other \in Task \ {t} : task'[other] = task[other]
  BY <1>1 DEF IInv, Typed, VariableTypes, TaskState, TaskPc, SessionOf
<1>4. VariableTypes'
  BY <1>1, <1>2, <1>3 DEF IInv, Typed, VariableTypes
<1>5. Keyed'
  BY <1>1, <1>2 DEF IInv, Typed, VariableTypes, Keyed
<1>6. Opened'
  BY <1>1, <1>2, <1>3 DEF IInv, Typed, VariableTypes, Opened, At
<1>7. Owned'
  <2>1. \A other \in Session : session'[other].bridge # None =>
          /\ task'[session'[other].bridge].pc # "free"
          /\ task'[session'[other].bridge].session = other
    <3> TAKE other \in Session
    <3>1. CASE other = s
      BY <1>2, <1>3, <3>1 DEF SessionOf
    <3>2. CASE other # s
      BY <1>2, <1>3, <3>2
         DEF IInv, Typed, VariableTypes, SessionState, Owned, At, SessionOf
    <3> QED BY <3>1, <3>2
  <2>2. \A u \in Task : task'[u].pc = "start" => session'[task'[u].session].bridge \in Task
    BY <1>2, <1>3 DEF IInv, Typed, Owned, Opened, At, SessionOf
  <2>3. \A u \in Task : task'[u].pc = "encoders" => task'[u].target \in Task
    BY <1>3 DEF IInv, Typed, Owned, At
  <2> QED BY <2>1, <2>2, <2>3 DEF Owned, At, SessionOf
<1>8. ClosedIsRemoved'
  <2> SUFFICES ASSUME NEW b \in Task, bridge[b].closed
               PROVE  ~At(b, "free")' /\ sessions[KeyOf(SessionOf(b))'] # SessionOf(b)
    BY <1>1, <1>3 DEF ClosedIsRemoved
  <2>1. ~At(b, "free") /\ sessions[KeyOf(SessionOf(b))] # SessionOf(b)
    BY DEF IInv, ClosedIsRemoved
  <2>2. SessionOf(b) \in Session
    BY <2>1 DEF IInv, Typed, Opened
  <2>3. KeyOf(SessionOf(b))' = KeyOf(SessionOf(b))
    BY <1>2, <1>3, <2>2 DEF KeyOf
  <2>4. ~At(b, "free")'
    BY <1>3, <2>1 DEF At
  <2> QED BY <2>1, <2>3, <2>4
<1>9. OneStream'
  <2>1. \A u, b \in Task : Starting(u, b)' => Starting(u, b)
    BY <1>3 DEF Starting, At
  <2> QED BY <1>1, <2>1 DEF IInv, OneStream
<1> QED BY <1>4, <1>5, <1>6, <1>7, <1>8, <1>9 DEF IInv, Typed

\* Start, the choice of an encoder and the end of a reader change the flags of
\* one bridge and never reopen it.
LEMMA BridgeStepKeeps ==
  ASSUME IInv, UNCHANGED <<sessions, session, pc, callbacks>>,
         bridge' \in [Task -> Bridge],
         \A b \in Task : bridge'[b].closed = bridge[b].closed,
         task' \in [Task -> TaskState],
         \A u \in Task :
           \/ task'[u] = task[u]
           \/ /\ ~At(u, "free") /\ SessionOf(u)' = SessionOf(u)
              /\ task'[u].pc \in {"encoders", "done", "connect", "test"}
              /\ task'[u].pc = "encoders" => task'[u].target \in Task,
         OneStream'
  PROVE  IInv'
<1>1. VariableTypes' /\ Keyed'
  BY DEF IInv, Typed, VariableTypes, Keyed
<1>2. Opened'
  BY DEF IInv, Typed, Opened, At, SessionOf
<1>3. Owned'
  BY DEF IInv, Typed, VariableTypes, SessionState, Owned, At, SessionOf
<1>4. ClosedIsRemoved'
  BY DEF IInv, ClosedIsRemoved, At, SessionOf, KeyOf
<1> QED BY <1>1, <1>2, <1>3, <1>4 DEF IInv, Typed

LEMMA StartBridgeKeeps ==
  ASSUME IInv, NEW t \in Task, StartBridge(t)
  PROVE  IInv'
<1> DEFINE b == session[SessionOf(t)].bridge
<1>1. At(t, "start") /\ b \in Task
  BY DEF StartBridge, IInv, Typed, Owned
<1>2. CASE bridge[b].running
  <2> DEFINE where == Fallback(SessionOf(t))
  <2>1. Go(t, where) /\ UNCHANGED <<sessions, session, pc, callbacks, bridge>>
    BY <1>2 DEF StartBridge
  <2>2. where \in TaskPc \ {"free", "start", "encoders"} /\ ~At(t, "free")
    BY <1>1 DEF Fallback, TaskPc, At
  <2> HIDE DEF where
  <2> QED BY <2>1, <2>2, QuietKeeps DEF IInv, Typed, VariableTypes, Opened
<1>3. CASE ~bridge[b].running
  <2>1. /\ UNCHANGED <<sessions, session, pc, callbacks>>
        /\ bridge' = [bridge EXCEPT ![b].running = TRUE]
        /\ task' = [task EXCEPT ![t] = [@ EXCEPT !.pc = "encoders", !.target = b]]
    BY <1>3 DEF StartBridge
  <2>2. /\ bridge' \in [Task -> Bridge]
        /\ bridge'[b].running
        /\ \A c \in Task : bridge'[c].closed = bridge[c].closed
                           /\ bridge'[c].readers = bridge[c].readers
        /\ \A c \in Task \ {b} : bridge'[c] = bridge[c]
    BY <1>1, <2>1 DEF IInv, Typed, VariableTypes, Bridge
  <2>3. /\ task' \in [Task -> TaskState]
        /\ task'[t].pc = "encoders" /\ task'[t].target = b /\ SessionOf(t)' = SessionOf(t)
        /\ \A u \in Task \ {t} : task'[u] = task[u]
    <3>1. task[t] \in TaskState
      BY DEF IInv, Typed, VariableTypes
    <3>2. [task[t] EXCEPT !.pc = "encoders", !.target = b] \in TaskState
      BY <1>1, <3>1 DEF TaskState, TaskPc
    <3>3. /\ [task[t] EXCEPT !.pc = "encoders", !.target = b].pc = "encoders"
          /\ [task[t] EXCEPT !.pc = "encoders", !.target = b].target = b
          /\ [task[t] EXCEPT !.pc = "encoders", !.target = b].session = task[t].session
      BY <3>1 DEF TaskState
    <3> QED BY <2>1, <3>2, <3>3 DEF IInv, Typed, VariableTypes, SessionOf
  <2>4. OneStream'
    <3> SUFFICES ASSUME NEW c \in Task, ~bridge[c].closed
                 PROVE  /\ bridge'[c].readers > 0 =>
                             /\ bridge'[c].running /\ bridge'[c].readers = 1
                             /\ \A u \in Task : ~Starting(u, c)'
                        /\ \A u \in Task : Starting(u, c)' =>
                             /\ bridge'[c].running /\ bridge'[c].readers = 0
                             /\ \A v \in Task : Starting(v, c)' => v = u
      BY <2>2 DEF OneStream
    <3>1. CASE c # b
      <4>1. \A u \in Task : Starting(u, c)' => Starting(u, c)
        BY <2>3, <3>1 DEF Starting, At
      <4> QED BY <2>2, <3>1, <4>1 DEF IInv, OneStream
    <3>2. CASE c = b
      <4>1. ~(bridge[c].readers > 0) /\ \A u \in Task : ~Starting(u, c)
        BY <1>3, <3>2 DEF IInv, OneStream
      <4>2. bridge'[c].readers = 0 /\ bridge'[c].running
        BY <2>2, <3>2, <4>1 DEF IInv, Typed, VariableTypes, Bridge
      <4>3. \A u \in Task : Starting(u, c)' => u = t
        BY <2>3, <4>1 DEF Starting, At
      <4> QED BY <4>2, <4>3
    <3> QED BY <3>1, <3>2
  <2>5. \A u \in Task :
           \/ task'[u] = task[u]
           \/ /\ ~At(u, "free") /\ SessionOf(u)' = SessionOf(u)
              /\ task'[u].pc \in {"encoders", "done", "connect", "test"}
              /\ task'[u].pc = "encoders" => task'[u].target \in Task
    BY <1>1, <2>3 DEF At
  <2> QED BY <2>1, <2>2, <2>3, <2>4, <2>5, BridgeStepKeeps
<1> QED BY <1>2, <1>3

LEMMA StartEncoderKeeps ==
  ASSUME IInv, NEW t \in Task, StartEncoder(t)
  PROVE  IInv'
<1> SUFFICES ASSUME NEW b \in Task, b = task[t].target
             PROVE  IInv'
  BY DEF StartEncoder, IInv, Typed, Owned
<1>1. /\ UNCHANGED <<sessions, session, pc, callbacks>>
      /\ Starting(t, b) /\ ~At(t, "free")
      /\ \/ /\ bridge' = [bridge EXCEPT ![b].readers = @ + 1]
            /\ task' = [task EXCEPT ![t].pc = "done"]
         \/ /\ bridge' = [bridge EXCEPT ![b].running = FALSE]
            /\ \E where \in {"connect", "test"} : task' = [task EXCEPT ![t].pc = where]
  BY DEF StartEncoder, Starting, At, Go, Fallback
<1>2. /\ task' \in [Task -> TaskState]
      /\ SessionOf(t)' = SessionOf(t)
      /\ task'[t].pc \in {"done", "connect", "test"}
      /\ \A u \in Task \ {t} : task'[u] = task[u]
  BY <1>1 DEF IInv, Typed, VariableTypes, TaskState, TaskPc, SessionOf
<1>3. /\ bridge' \in [Task -> Bridge]
      /\ \A c \in Task : bridge'[c].closed = bridge[c].closed
      /\ \A c \in Task \ {b} : bridge'[c] = bridge[c]
      /\ \/ /\ bridge[b].running => bridge'[b].running
            /\ bridge'[b].readers = bridge[b].readers + 1
         \/ bridge'[b].readers = bridge[b].readers
  <2>1. bridge[b] \in Bridge /\ bridge[b].readers + 1 \in Nat
    BY DEF IInv, Typed, VariableTypes, Bridge
  <2>2. CASE bridge' = [bridge EXCEPT ![b].readers = @ + 1]
    <3> DEFINE new == [bridge[b] EXCEPT !.readers = @ + 1]
    <3>1. /\ new \in Bridge /\ new.readers = bridge[b].readers + 1
          /\ new.closed = bridge[b].closed /\ new.running = bridge[b].running
      BY <2>1 DEF Bridge
    <3>2. bridge' = [bridge EXCEPT ![b] = new]
      BY <2>2
    <3> HIDE DEF new
    <3>3. bridge' \in [Task -> Bridge] /\ bridge'[b] = new
          /\ \A c \in Task \ {b} : bridge'[c] = bridge[c]
      BY <3>1, <3>2 DEF IInv, Typed, VariableTypes
    <3> QED BY <3>1, <3>3
  <2>3. CASE bridge' = [bridge EXCEPT ![b].running = FALSE]
    BY <2>1, <2>3 DEF IInv, Typed, VariableTypes, Bridge
  <2> QED BY <1>1, <2>2, <2>3
<1>4. OneStream'
  <2> SUFFICES ASSUME NEW c \in Task, ~bridge[c].closed
               PROVE  /\ bridge'[c].readers > 0 =>
                           /\ bridge'[c].running /\ bridge'[c].readers = 1
                           /\ \A u \in Task : ~Starting(u, c)'
                      /\ \A u \in Task : Starting(u, c)' =>
                           /\ bridge'[c].running /\ bridge'[c].readers = 0
                           /\ \A v \in Task : Starting(v, c)' => v = u
    BY <1>3 DEF OneStream
  <2>1. \A u \in Task : Starting(u, c)' => Starting(u, c) /\ u # t
    BY <1>2 DEF Starting, At
  <2>2. CASE c # b
    BY <1>3, <2>1, <2>2 DEF IInv, OneStream
  <2>3. CASE c = b
    <3>1. /\ bridge[c].running /\ bridge[c].readers = 0
          /\ \A u \in Task : Starting(u, c) => u = t
      BY <1>1, <2>3 DEF IInv, OneStream
    <3>2. \A u \in Task : ~Starting(u, c)'
      BY <2>1, <3>1
    <3>3. bridge'[c].readers > 0 => bridge'[c].running /\ bridge'[c].readers = 1
      <4>1. CASE bridge'[b].readers = bridge[b].readers
        BY <2>3, <3>1, <4>1
      <4>2. CASE /\ bridge[b].running => bridge'[b].running
                 /\ bridge'[b].readers = bridge[b].readers + 1
        <5>1. bridge'[c].readers = 1
          BY <2>3, <3>1, <4>2
        <5>2. bridge'[c].running
          BY <2>3, <3>1, <4>2, Zenon
        <5> QED BY <5>1, <5>2
      <4> QED BY <1>3, <4>1, <4>2
    <3> QED BY <3>2, <3>3
  <2> QED BY <2>2, <2>3
<1>5. \A u \in Task :
         \/ task'[u] = task[u]
         \/ /\ ~At(u, "free") /\ SessionOf(u)' = SessionOf(u)
            /\ task'[u].pc \in {"encoders", "done", "connect", "test"}
            /\ task'[u].pc = "encoders" => task'[u].target \in Task
  BY <1>1, <1>2
<1> QED BY <1>1, <1>2, <1>3, <1>4, <1>5, BridgeStepKeeps

LEMMA ReaderEndsKeeps ==
  ASSUME IInv, NEW b \in Task, ReaderEnds(b)
  PROVE  IInv'
<1>1. /\ UNCHANGED <<sessions, session, pc, callbacks, task>>
      /\ bridge[b] \in Bridge /\ bridge[b].readers \in Nat /\ bridge[b].readers > 0
      /\ bridge' = [bridge EXCEPT ![b].running = FALSE, ![b].readers = @ - 1]
  BY DEF ReaderEnds, IInv, Typed, VariableTypes, Bridge
<1>2. /\ bridge' \in [Task -> Bridge]
      /\ bridge'[b].readers = bridge[b].readers - 1
      /\ \A c \in Task : bridge'[c].closed = bridge[c].closed
      /\ \A c \in Task \ {b} : bridge'[c] = bridge[c]
  BY <1>1 DEF IInv, Typed, VariableTypes, Bridge
<1>3. OneStream'
  <2> SUFFICES ASSUME NEW c \in Task, ~bridge[c].closed
               PROVE  /\ bridge'[c].readers > 0 =>
                           /\ bridge'[c].running /\ bridge'[c].readers = 1
                           /\ \A u \in Task : ~Starting(u, c)
                      /\ \A u \in Task : Starting(u, c) =>
                           /\ bridge'[c].running /\ bridge'[c].readers = 0
                           /\ \A v \in Task : Starting(v, c) => v = u
    BY <1>1, <1>2 DEF OneStream, Starting, At
  <2>1. CASE c # b
    BY <1>2, <2>1 DEF IInv, OneStream
  <2>2. CASE c = b
    <3>1. bridge[c].readers = 1 /\ \A u \in Task : ~Starting(u, c)
      BY <1>1, <2>2 DEF IInv, OneStream
    <3> QED BY <1>2, <2>2, <3>1
  <2> QED BY <2>1, <2>2
<1> QED BY <1>1, <1>2, <1>3, BridgeStepKeeps DEF IInv, Typed, VariableTypes

-----------------------------------------------------------------------------
(* The theorems *)

LEMMA IInvInit == Init => IInv
<1> SUFFICES ASSUME Init PROVE IInv
  OBVIOUS
<1>1. VariableTypes
  BY DEF Init, VariableTypes, SessionState, PcState, TaskState, TaskPc, Bridge
<1>2. Keyed /\ Opened /\ Owned
  BY DEF Init, Keyed, Opened, Owned, At
<1>3. ClosedIsRemoved /\ OneStream
  BY DEF Init, ClosedIsRemoved, OneStream, Starting, At
<1> QED BY <1>1, <1>2, <1>3 DEF IInv, Typed

LEMMA IInvNext == IInv /\ [Next]_vars => IInv'
<1> SUFFICES ASSUME IInv, [Next]_vars PROVE IInv'
  OBVIOUS
<1>1. ASSUME NEW s \in Session, Negotiate(s) \/ PeerConnection(s)
      PROVE  IInv'
  BY <1>1, NegotiateKeeps, PeerConnectionKeeps
<1>2. ASSUME NEW s \in Session, NEW state \in Terminal, LostCallback(s, state)
      PROVE  IInv'
  BY <1>2, LostCallbackKeeps
<1>3. ASSUME NEW t \in Task,
             Run(t) \/ StreamingGivesUp(t) \/ StreamingPanics(t) \/ ReaderEnds(t)
      PROVE  IInv'
  BY <1>3, TaskKeeps, AssignKeeps, StartBridgeKeeps, StartEncoderKeeps,
     ReaderEndsKeeps DEF Run
<1>4. CASE UNCHANGED vars
  <2>1. UNCHANGED <<sessions, session, bridge, pc, callbacks, task>>
    BY <1>4 DEF vars
  <2> QED BY <2>1, QuietKeeps DEF IInv, Typed, VariableTypes, Opened
<1> QED BY <1>1, <1>2, <1>3, <1>4 DEF Next

LEMMA Inductive == Spec => []IInv
BY IInvInit, IInvNext, PTL DEF Spec

\* The model of the sessions keeps its types, and the map holds answered sessions
\* under their own ids only (handler.go:494-499), whatever offers, connection states,
\* callbacks and streams interleave.
THEOREM SessionTypes == Spec => []TypeOK
<1>1. IInv => TypeOK
  BY DEF IInv, Typed, Keyed, TypeOK, KeyOf
<1> QED BY Inductive, <1>1, PTL

\* Stop never closes stopCh of a session's bridge twice (container_bridge.go:
\* 573-582), because a bridge is stopped only while its session leaves the map.
THEOREM NeverClosedTwice == Spec => []StopClosesOnce
<1>1. IInv => StopClosesOnce
  <2> SUFFICES ASSUME IInv, NEW s \in Session, InMap(s), session[s].bridge # None
               PROVE  ~bridge[session[s].bridge].closed
    BY DEF StopClosesOnce
  <2>1. session[s].bridge \in Task /\ SessionOf(session[s].bridge) = s
    BY DEF IInv, Typed, VariableTypes, SessionState, Owned
  <2> QED BY <2>1 DEF IInv, ClosedIsRemoved, InMap
<1> QED BY Inductive, <1>1, PTL

\* A session in the map has at most one reader on its bridge, and Stop would end
\* it (container_bridge.go:376-380, 577-579).
THEOREM OneStoppableReader == Spec => []StoppableStream
<1>1. IInv => StoppableStream
  <2> SUFFICES ASSUME IInv, NEW s \in Session, InMap(s), session[s].bridge # None,
                      bridge[session[s].bridge].readers > 0
               PROVE  /\ bridge[session[s].bridge].running
                      /\ bridge[session[s].bridge].readers = 1
    BY DEF StoppableStream
  <2>1. session[s].bridge \in Task /\ SessionOf(session[s].bridge) = s
    BY DEF IInv, Typed, VariableTypes, SessionState, Owned
  <2>2. ~bridge[session[s].bridge].closed
    BY <2>1 DEF IInv, ClosedIsRemoved, InMap
  <2> QED BY <2>1, <2>2 DEF IInv, OneStream
<1> QED BY Inductive, <1>1, PTL

-----------------------------------------------------------------------------
(* Open connections *)

\* A session that was never offered has no key, and only a connection that has
\* come to its end has callbacks of its end to run.
Unoffered == \A s \in Session : session[s].state = "none" => session[s].key = None
CallbacksAreLate == \A callback \in callbacks : pc[callback[1]] \in Terminal

MapInv == IInv /\ Unoffered /\ CallbacksAreLate /\ OpenIsInMap

\* A removal closes the session that it takes out of the map and no other.
LEMMA RemovalCloses ==
  ASSUME Typed, NEW key \in Key, NEW pending, pending \subseteq callbacks,
         RemoveSession(key, pending)
  PROVE  /\ \A s \in Session : pc'[s] = pc[s] \/ (sessions[key] = s /\ pc'[s] = "closed")
         /\ \A k \in Key : sessions'[k] = sessions[k] \/
                           (k = key /\ sessions[key] \in Session /\ pc'[sessions[key]] = "closed")
         /\ \A callback \in callbacks' :
              callback \in callbacks \/ (callback[1] \in Session /\ pc'[callback[1]] = "closed")
<1>1. CASE sessions[key] = None
  BY <1>1 DEF RemoveSession
<1>2. CASE sessions[key] # None
  <2>1. sessions[key] \in Session
    BY <1>2 DEF Typed, VariableTypes
  <2>2. /\ pc' = [pc EXCEPT ![sessions[key]] = "closed"]
        /\ callbacks' \subseteq pending \cup {<<sessions[key], "closed">>}
        /\ sessions' = [sessions EXCEPT ![key] = None]
    BY <1>2 DEF RemoveSession
  <2> QED BY <2>1, <2>2 DEF Typed, VariableTypes
<1> QED BY <1>1, <1>2

LEMMA RemovalKeepsMap ==
  ASSUME MapInv, NEW key \in Key, NEW pending, pending \subseteq callbacks,
         RemoveSession(key, pending), UNCHANGED session
  PROVE  Unoffered' /\ CallbacksAreLate' /\ OpenIsInMap'
<1>1. /\ \A s \in Session : pc'[s] = pc[s] \/ (sessions[key] = s /\ pc'[s] = "closed")
      /\ \A k \in Key : sessions'[k] = sessions[k] \/
                        (k = key /\ sessions[key] \in Session /\ pc'[sessions[key]] = "closed")
      /\ \A callback \in callbacks' :
           callback \in callbacks \/ (callback[1] \in Session /\ pc'[callback[1]] = "closed")
  BY RemovalCloses DEF MapInv, IInv
<1>2. Unoffered'
  BY DEF MapInv, Unoffered
<1>3. CallbacksAreLate'
  BY <1>1 DEF MapInv, IInv, Typed, VariableTypes, CallbacksAreLate, Terminal
<1>4. OpenIsInMap'
  <2> SUFFICES ASSUME NEW s \in Session, session[s].state = "open", pc'[s] # "closed",
                      Alone(s)'
               PROVE  InMap(s)'
    BY DEF OpenIsInMap
  <2>1. pc[s] # "closed" /\ Alone(s) /\ KeyOf(s) \in Key
    BY <1>1 DEF Alone, KeyOf, MapInv, IInv, Typed, Keyed
  <2>2. InMap(s)
    BY <2>1 DEF MapInv, OpenIsInMap
  <2> QED BY <1>1, <2>1, <2>2 DEF InMap, KeyOf
<1> QED BY <1>2, <1>3, <1>4

\* A step that ends no connection and leaves map and sessions alone.
LEMMA LivelyKeepsMap ==
  ASSUME MapInv, UNCHANGED <<sessions, session>>,
         \A s \in Session : /\ pc'[s] # "closed" => pc[s] # "closed"
                            /\ pc[s] \in Terminal => pc'[s] \in Terminal,
         \A callback \in callbacks' : callback \in callbacks \/ pc'[callback[1]] \in Terminal
  PROVE  Unoffered' /\ CallbacksAreLate' /\ OpenIsInMap'
<1>1. Unoffered'
  BY DEF MapInv, Unoffered
<1>2. CallbacksAreLate'
  BY DEF MapInv, IInv, Typed, VariableTypes, CallbacksAreLate
<1>3. OpenIsInMap'
  BY DEF MapInv, OpenIsInMap, Alone, InMap, KeyOf
<1> QED BY <1>1, <1>2, <1>3

LEMMA NegotiateKeepsMap ==
  ASSUME MapInv, NEW u \in Session, Negotiate(u)
  PROVE  Unoffered' /\ CallbacksAreLate' /\ OpenIsInMap'
<1>1. CallbacksAreLate'
  BY DEF Negotiate, Offer, NegotiationFails, AddSession, MapInv, CallbacksAreLate
<1>2. ASSUME NEW key \in Key, Offer(u, key)
      PROVE  Unoffered' /\ OpenIsInMap'
  <2>1. /\ session[u].state = "none" /\ session[u].key = None
        /\ session'[u].state = "negotiating" /\ session'[u].key = key
        /\ \A s \in Session \ {u} : session'[s] = session[s]
        /\ UNCHANGED <<sessions, pc>>
    BY <1>2 DEF Offer, MapInv, IInv, Typed, VariableTypes, SessionState, Unoffered
  <2>2. Unoffered'
    BY <2>1 DEF MapInv, Unoffered
  <2>3. OpenIsInMap'
    <3> SUFFICES ASSUME NEW s \in Session, session'[s].state = "open", pc[s] # "closed",
                        Alone(s)'
                 PROVE  InMap(s)'
      BY <2>1 DEF OpenIsInMap
    <3>1. s # u /\ session'[s] = session[s] /\ KeyOf(s) \in Key
      BY <2>1 DEF KeyOf, MapInv, IInv, Typed, Keyed
    <3>2. Alone(s)
      BY <2>1, <3>1, SessionAssumption DEF Alone, KeyOf
    <3> QED BY <2>1, <3>1, <3>2 DEF MapInv, OpenIsInMap, InMap, KeyOf
  <2> QED BY <2>2, <2>3
<1>3. CASE NegotiationFails(u)
  <2>1. /\ session'[u].state = "abandoned"
        /\ \A s \in Session : session'[s].key = session[s].key
        /\ \A s \in Session \ {u} : session'[s] = session[s]
        /\ UNCHANGED <<sessions, pc>>
    BY <1>3 DEF NegotiationFails, MapInv, IInv, Typed, VariableTypes, SessionState
  <2>2. Unoffered' /\ OpenIsInMap'
    BY <2>1 DEF MapInv, Unoffered, OpenIsInMap, Alone, InMap, KeyOf
  <2> QED BY <1>1, <2>2
<1>4. CASE AddSession(u)
  <2>1. /\ session'[u].state = "open" /\ KeyOf(u) \in Key
        /\ \A s \in Session : session'[s].key = session[s].key
        /\ \A s \in Session \ {u} : session'[s] = session[s]
        /\ sessions' = [sessions EXCEPT ![KeyOf(u)] = u]
        /\ UNCHANGED pc
    BY <1>4 DEF AddSession, KeyOf, MapInv, IInv, Typed, VariableTypes, SessionState, Keyed
  <2>2. Unoffered'
    BY <2>1 DEF MapInv, Unoffered
  <2>3. OpenIsInMap'
    <3> SUFFICES ASSUME NEW s \in Session, session'[s].state = "open", pc[s] # "closed",
                        Alone(s)'
                 PROVE  InMap(s)'
      BY <2>1 DEF OpenIsInMap
    <3>1. KeyOf(s)' = KeyOf(s) /\ Alone(s)
      BY <2>1 DEF KeyOf, Alone
    <3>2. CASE s = u
      BY <2>1, <3>1, <3>2, SessionAssumption DEF InMap, MapInv, IInv, Typed, VariableTypes
    <3>3. CASE s # u
      <4>1. InMap(s)
        BY <2>1, <3>1, <3>3 DEF MapInv, OpenIsInMap
      <4>2. KeyOf(u) # KeyOf(s)
        BY <3>1, <3>3 DEF Alone
      <4> QED BY <2>1, <3>1, <4>1, <4>2 DEF InMap, MapInv, IInv, Typed, VariableTypes
    <3> QED BY <3>2, <3>3
  <2> QED BY <1>1, <2>2, <2>3
<1> QED BY <1>1, <1>2, <1>3, <1>4 DEF Negotiate

LEMMA MapInvNext == MapInv /\ [Next]_vars => MapInv'
<1> SUFFICES ASSUME MapInv, [Next]_vars PROVE Unoffered' /\ CallbacksAreLate' /\ OpenIsInMap'
  BY IInvNext DEF MapInv
<1>1. ASSUME NEW s \in Session, PeerConnection(s)
      PROVE  Unoffered' /\ CallbacksAreLate' /\ OpenIsInMap'
  <2>1. /\ UNCHANGED <<sessions, session>>
        /\ \A u \in Session : /\ pc'[u] # "closed" => pc[u] # "closed"
                              /\ pc[u] \in Terminal => pc'[u] \in Terminal
        /\ \A callback \in callbacks' :
             callback \in callbacks \/ pc'[callback[1]] \in Terminal
    BY <1>1 DEF PeerConnection, Connect, Disconnect, Fail, Terminal, MapInv, IInv,
                Typed, VariableTypes
  <2> QED BY <2>1, LivelyKeepsMap
<1>2. ASSUME NEW s \in Session, NEW state \in Terminal, LostCallback(s, state)
      PROVE  Unoffered' /\ CallbacksAreLate' /\ OpenIsInMap'
  <2>1. KeyOf(s) \in Key
    BY <1>2 DEF LostCallback, MapInv, IInv, Typed, Opened, Keyed, KeyOf
  <2> QED BY <1>2, <2>1, RemovalKeepsMap DEF LostCallback
<1>3. ASSUME NEW t \in Task, StartStreaming(t) \/ TestFrames(t)
      PROVE  Unoffered' /\ CallbacksAreLate' /\ OpenIsInMap'
  <2>1. KeyOf(SessionOf(t)) \in Key
    BY <1>3 DEF StartStreaming, TestFrames, At, MapInv, IInv, Typed, Opened, Keyed, KeyOf
  <2>2. \/ RemoveSession(KeyOf(SessionOf(t)), callbacks) /\ UNCHANGED session
        \/ UNCHANGED <<sessions, session, pc, callbacks>>
    BY <1>3 DEF StartStreaming, TestFrames
  <2> QED BY <2>1, <2>2, RemovalKeepsMap, LivelyKeepsMap
<1>4. ASSUME NEW t \in Task, Assign(t)
      PROVE  Unoffered' /\ CallbacksAreLate' /\ OpenIsInMap'
  <2>1. /\ UNCHANGED <<sessions, pc, callbacks>>
        /\ \A s \in Session :
             session'[s].state = session[s].state /\ session'[s].key = session[s].key
    BY <1>4 DEF Assign, MapInv, IInv, Typed, VariableTypes, SessionState
  <2>2. Unoffered' /\ CallbacksAreLate'
    BY <2>1 DEF MapInv, Unoffered, CallbacksAreLate
  <2>3. OpenIsInMap'
    BY <2>1 DEF MapInv, OpenIsInMap, Alone, InMap, KeyOf
  <2> QED BY <2>2, <2>3
<1>5. ASSUME UNCHANGED <<sessions, session, pc, callbacks>>
      PROVE  Unoffered' /\ CallbacksAreLate' /\ OpenIsInMap'
  BY <1>5, LivelyKeepsMap
<1>6. ASSUME NEW t \in Task, StreamingPanics(t)
      PROVE  Unoffered' /\ CallbacksAreLate' /\ OpenIsInMap'
  <2> DEFINE s == sessions[KeyOf(SessionOf(t))]
  <2>1. CASE UNCHANGED <<pc, callbacks>>
    BY <1>5, <1>6, <2>1 DEF StreamingPanics
  <2>2. CASE s # None /\ pc' = [pc EXCEPT ![s] = "closed"]
             /\ callbacks' = callbacks \cup {<<s, "closed">>}
    <3>1. s \in Session /\ UNCHANGED <<sessions, session>>
      <4>1. ~At(t, "free")
        BY <1>6 DEF StreamingPanics, At
      <4> QED BY <1>6, <2>2, <4>1
              DEF StreamingPanics, MapInv, IInv, Typed, VariableTypes, Opened, Keyed, KeyOf
    <3>2. \A u \in Session : pc'[u] = IF u = s THEN "closed" ELSE pc[u]
      BY <2>2, <3>1 DEF MapInv, IInv, Typed, VariableTypes
    <3> HIDE DEF s
    <3>3. \A callback \in callbacks' : callback \in callbacks \/ pc'[callback[1]] \in Terminal
      BY <2>2, <3>1, <3>2 DEF Terminal
    <3>4. \A u \in Session : /\ pc'[u] # "closed" => pc[u] # "closed"
                             /\ pc[u] \in Terminal => pc'[u] \in Terminal
      BY <3>2 DEF Terminal
    <3> QED BY <3>1, <3>3, <3>4, LivelyKeepsMap
  <2> QED BY <1>6, <2>1, <2>2 DEF StreamingPanics
<1> QED BY <1>1, <1>2, <1>3, <1>4, <1>5, <1>6, NegotiateKeepsMap
     DEF Next, Run, ConnectedCallback, StartBridge, StartEncoder, StreamingLoop,
         StreamingGivesUp, ReaderEnds, vars

LEMMA MapInductive == Spec => []MapInv
<1>1. Init => MapInv
  BY IInvInit DEF Init, MapInv, Unoffered, CallbacksAreLate, OpenIsInMap
<1> QED BY <1>1, MapInvNext, PTL DEF Spec

\* As long as no other session was offered under its id, a session whose
\* connection is not closed stays where its callbacks find it (handler.go:
\* 501-524): no callback, stream or failure of another session loses it.
THEOREM OpenStaysInMap == Spec => []OpenIsInMap
<1>1. MapInv => OpenIsInMap
  BY DEF MapInv
<1> QED BY <1>1, MapInductive, PTL

\* A session whose connection still works and whose id was offered once is
\* closed only by the end of its own stream (handler.go:467): every callback of
\* another session, however late, names another key.
THEOREM ClosedForOwnReason == Spec => RemovedForOwnReason
<1> DEFINE Step == \A s \in Session :
       InMap(s) /\ Alone(s) /\ pc[s] \notin Terminal /\ pc'[s] = "closed" =>
       \E t \in Task : SessionOf(t) = s /\ task'[t].pc = "done" /\ task[t].pc # "done"
<1>1. MapInv /\ [Next]_vars => Step
  <2> SUFFICES ASSUME MapInv, [Next]_vars, NEW s \in Session, InMap(s), Alone(s),
                      pc[s] \notin Terminal, pc'[s] = "closed"
               PROVE  \E t \in Task : /\ SessionOf(t) = s
                                      /\ task'[t].pc = "done" /\ task[t].pc # "done"
    OBVIOUS
  <2>1. pc'[s] # pc[s]
    BY DEF Terminal
  <2>2. ASSUME NEW u \in Session, KeyOf(u) \in Key, NEW pending, pending \subseteq callbacks,
               RemoveSession(KeyOf(u), pending)
        PROVE  u = s
    <3>1. sessions[KeyOf(u)] = s
      BY <2>1, <2>2, RemovalCloses DEF MapInv, IInv
    <3>2. KeyOf(u) = KeyOf(s)
      BY <2>2, <3>1, SessionAssumption DEF KeyOf, MapInv, IInv, Typed, Keyed
    <3> QED BY <3>2 DEF Alone
  <2>3. ASSUME NEW u \in Session, Negotiate(u) \/ PeerConnection(u)
        PROVE  FALSE
    BY <2>1, <2>3 DEF Negotiate, Offer, NegotiationFails, AddSession, PeerConnection,
       Connect, Disconnect, Fail, MapInv, IInv, Typed, VariableTypes, PcState
  <2>4. ASSUME NEW u \in Session, NEW state \in Terminal, LostCallback(u, state)
        PROVE  FALSE
    <3>1. KeyOf(u) \in Key /\ pc[u] \in Terminal
      BY <2>4 DEF LostCallback, MapInv, IInv, Typed, Opened, Keyed, KeyOf, CallbacksAreLate
    <3> QED BY <2>2, <2>4, <3>1 DEF LostCallback
  <2>5. ASSUME NEW t \in Task, StartStreaming(t) \/ TestFrames(t)
        PROVE  SessionOf(t) = s /\ task'[t].pc = "done" /\ task[t].pc # "done"
    <3>1. /\ SessionOf(t) \in Session /\ KeyOf(SessionOf(t)) \in Key
          /\ task[t].pc # "done"
      BY <2>5 DEF StartStreaming, TestFrames, At, MapInv, IInv, Typed, Opened, Keyed, KeyOf
    <3>2. Go(t, "done") /\ RemoveSession(KeyOf(SessionOf(t)), callbacks)
      BY <2>1, <2>5 DEF StartStreaming, TestFrames
    <3>3. task'[t].pc = "done"
      BY <3>2 DEF Go, MapInv, IInv, Typed, VariableTypes, TaskState
    <3> QED BY <2>2, <3>1, <3>2, <3>3
  <2>6. UNCHANGED pc => FALSE
    BY <2>1
  <2>7. ASSUME NEW t \in Task, StreamingPanics(t)
        PROVE  SessionOf(t) = s /\ task'[t].pc = "done" /\ task[t].pc # "done"
    <3>1. /\ SessionOf(t) \in Session /\ KeyOf(SessionOf(t)) \in Key
          /\ task[t].pc # "done"
      BY <2>7 DEF StreamingPanics, At, MapInv, IInv, Typed, Opened, Keyed, KeyOf
    <3>2. sessions[KeyOf(SessionOf(t))] = s /\ Go(t, "done")
      BY <2>1, <2>7 DEF StreamingPanics, MapInv, IInv, Typed, VariableTypes
    <3>3. KeyOf(SessionOf(t)) = KeyOf(s)
      BY <3>1, <3>2, SessionAssumption DEF KeyOf, MapInv, IInv, Typed, Keyed
    <3>4. task'[t].pc = "done"
      BY <3>2 DEF Go, MapInv, IInv, Typed, VariableTypes, TaskState
    <3> QED BY <3>1, <3>3, <3>4 DEF Alone
  <2> QED BY <2>3, <2>4, <2>5, <2>6, <2>7 DEF Next, Run, ConnectedCallback, Assign, StartBridge,
       StartEncoder, StreamingLoop, StreamingGivesUp, ReaderEnds, vars
<1>2. Spec => [][Step]_vars
  BY <1>1, MapInductive, PTL DEF Spec
<1> QED BY <1>2 DEF RemovedForOwnReason
=============================================================================
