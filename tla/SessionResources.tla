-------------------------- MODULE SessionResources --------------------------
(***************************************************************************)
(* What one WebRTC session of src/internal/api/handler.go holds: the       *)
(* emulator client (src/internal/emulator/client.go) that input goroutines *)
(* create, streaming replaces and restarts, and removal closes, all        *)
(* without a lock, and the encoder that streaming creates and removal      *)
(* closes.  Every read of the field emulatorClient is a step of its own.   *)
(*                                                                         *)
(* The session has a gRPC port: without one neither input nor streaming    *)
(* begins.  The emulator and gRPC are external: any call may fail, one on  *)
(* a closed connection does.                                               *)
(***************************************************************************)
EXTENDS Naturals, Sequences

CONSTANTS
  Input,       \* bound: the touch and key messages of the data channel
  Streamer,    \* bound: the calls of startStreaming
  MaxClients,  \* bound: the emulator clients made
  MaxErrors    \* maxConsecutiveErrors of streamingLoop, 20 in the code

None == 0
Callback == "callback"

ASSUME ResourceAssumption ==
  /\ Callback \notin Streamer /\ None \notin Streamer
  /\ MaxClients \in Nat /\ MaxErrors \in Nat \ {0}

VARIABLES
  client,     \* the field emulatorClient: a number or None
  conn,       \* the clients made so far, open or closed
  encoder,    \* the field encoder: its maker or None
  running,    \* the encoders that run (their ffmpeg does)
  inMap,      \* the session manager has the session
  removal,    \* the removeSession that holds the manager's mutex
  input,      \* the goroutine of each message
  streamer,   \* startStreaming, then streamingLoop
  frame,      \* the streamers whose frame goroutine is about to call GetFrame
  finger,     \* the emulator sees a finger down (external)
  lost,       \* history: clients and encoders overwritten while in use
  late,       \* history: those stored after removal had looked for them
  restarted,  \* history: a restart has set the field to nil
  panicked    \* the server has died of a nil client

fields == <<client, conn, encoder, running>>
actors == <<input, streamer, frame>>
history == <<lost, late, restarted>>
vars == <<fields, inMap, removal, actors, finger, history, panicked>>

NoRemoval == [pc |-> "none", by |-> Callback]
Open(c) == c # None /\ conn[c] = "open"
GoInput(i, where) == input' = [input EXCEPT ![i] = where]
GoStream(t, where) == streamer' = [streamer EXCEPT ![t].pc = where]
Streams(t, where) == streamer[t].pc = where

\* removal is past its look at what is stored now.
Late == ~inMap \/ removal.pc = "encoder"

\* NewEmulatorClient does not wait for the emulator.  What the field held before
\* is not closed.
Dial ==
  LET c == Len(conn) + 1 IN
  /\ c <= MaxClients
  /\ conn' = Append(conn, "open")
  /\ client' = c
  /\ lost' = IF Open(client) THEN lost \cup {<<"client", client>>} ELSE lost
  /\ late' = IF Late THEN late \cup {<<"client", c>>} ELSE late
  /\ UNCHANGED <<encoder, running, restarted>>

-----------------------------------------------------------------------------
(* Input: sendTouchToEmulator and sendKeyToEmulator *)

\* The data channel delivers messages while the connection lives; each gets a
\* goroutine.
Message(i) ==
  /\ input[i] = "idle" /\ inMap
  /\ \E what \in {"touch", "key"} : GoInput(i, what)
  /\ UNCHANGED <<fields, inMap, removal, streamer, frame, finger, history, panicked>>

AfterClient(pc) == IF pc \in {"touch", "dial touch"} THEN "down" ELSE "press"
AfterNil(pc) == IF pc = "touch" THEN "dial touch" ELSE "dial key"

\* The client is created if the field is nil.
Look(i) ==
  /\ input[i] \in {"touch", "key"}
  /\ GoInput(i, IF client = None THEN AfterNil(input[i]) ELSE AfterClient(input[i]))
  /\ UNCHANGED <<fields, inMap, removal, streamer, frame, finger, history, panicked>>

DialForInput(i) ==
  /\ input[i] \in {"dial touch", "dial key"}
  /\ GoInput(i, AfterClient(input[i]))
  /\ Dial
  /\ UNCHANGED <<inMap, removal, streamer, frame, finger, panicked>>

DialForInputFails(i) ==
  /\ input[i] \in {"dial touch", "dial key"}
  /\ GoInput(i, "done")
  /\ UNCHANGED <<fields, inMap, removal, streamer, frame, finger, history, panicked>>

\* SendTouch with pressure.  The calls have no deadline: the emulator may have
\* carried one out and the caller wait for the reply, for ever perhaps.
TouchDown(i) ==
  /\ input[i] = "down" /\ client # None
  /\ \/ Open(client) /\ finger' = TRUE /\ GoInput(i, "pressed")
     \/ GoInput(i, "done") /\ UNCHANGED finger
  /\ UNCHANGED <<fields, inMap, removal, streamer, frame, history, panicked>>

\* Mutant: no goroutine for the touch-up.
PressReturnsOnly(i) ==
  /\ input[i] = "pressed"
  /\ \E where \in {"done", "doubtful"} : GoInput(i, where)
  /\ UNCHANGED <<fields, inMap, removal, streamer, frame, finger, history, panicked>>

\* After a call that succeeds the touch is lifted 100 ms later.  After one that
\* returns an error, its effect notwithstanding, nothing is.
PressReturns(i) ==
  /\ input[i] = "pressed"
  /\ \E where \in {"up", "doubtful"} : GoInput(i, where)
  /\ UNCHANGED <<fields, inMap, removal, streamer, frame, finger, history, panicked>>

\* SendTouch without pressure, over whatever client the session has by then.
LiftBegins(i) ==
  /\ input[i] = "up" /\ client # None
  /\ GoInput(i, IF Open(client) THEN "lifting" ELSE "unlifted")
  /\ UNCHANGED <<fields, inMap, removal, streamer, frame, finger, history, panicked>>

LiftReturns(i) ==
  /\ input[i] = "lifting"
  /\ \/ finger' = FALSE /\ GoInput(i, "done")
     \/ finger' \in {finger, FALSE} /\ GoInput(i, "unlifted")
  /\ UNCHANGED <<fields, inMap, removal, streamer, frame, history, panicked>>

\* SendKey, or no key code for the key.
Press(i) ==
  /\ input[i] = "press" /\ client # None
  /\ GoInput(i, "done")
  /\ UNCHANGED <<fields, inMap, removal, streamer, frame, finger, history, panicked>>

-----------------------------------------------------------------------------
(* removeSession *)

\* Under the manager's mutex; a session that is gone already is left alone.
BeginRemoval(by) ==
  /\ inMap /\ removal = NoRemoval
  /\ removal' = [pc |-> "client", by |-> by]

\* The connection has failed or is closed.
ConnectionLost ==
  /\ BeginRemoval(Callback)
  /\ UNCHANGED <<fields, inMap, actors, finger, history, panicked>>

StreamerRemoves(t) ==
  /\ Streams(t, "remove")
  /\ \/ BeginRemoval(t) /\ GoStream(t, "removing")
     \/ ~inMap /\ GoStream(t, "done") /\ UNCHANGED removal
  /\ UNCHANGED <<fields, inMap, input, frame, finger, history, panicked>>

RemovalLooks ==
  /\ removal.pc = "client"
  /\ removal' = [removal EXCEPT !.pc = IF client = None THEN "encoder" ELSE "close"]
  /\ UNCHANGED <<fields, inMap, actors, finger, history, panicked>>

\* Mutant: the field is set to nil.
RemovalForgetsClient ==
  /\ removal.pc = "close" /\ client # None
  /\ conn' = [conn EXCEPT ![client] = "closed"]
  /\ client' = None
  /\ removal' = [removal EXCEPT !.pc = "encoder"]
  /\ UNCHANGED <<encoder, running, inMap, actors, finger, history, panicked>>

RemovalClosesClient ==
  /\ removal.pc = "close" /\ client # None
  /\ conn' = [conn EXCEPT ![client] = "closed"]
  /\ removal' = [removal EXCEPT !.pc = "encoder"]
  /\ UNCHANGED <<client, encoder, running, inMap, actors, finger, history, panicked>>

\* The end of a startStreaming that has removed the session.
Released(by) == IF by = Callback THEN UNCHANGED streamer ELSE GoStream(by, "done")

\* The encoder is closed, the entry deleted and the mutex released.
RemovalEnds ==
  /\ removal.pc = "encoder"
  /\ running' = running \ {encoder}
  /\ inMap' = FALSE
  /\ removal' = NoRemoval
  /\ Released(removal.by)
  /\ UNCHANGED <<client, conn, encoder, input, frame, finger, history, panicked>>

-----------------------------------------------------------------------------
(* startStreaming *)

StartStreaming(t) ==
  /\ Streams(t, "idle")
  /\ GoStream(t, "connect")
  /\ UNCHANGED <<fields, inMap, removal, input, frame, finger, history, panicked>>

\* A failure to connect, to get a frame or to make an encoder removes the session.
SetUpFails(t) ==
  /\ streamer[t].pc \in {"connect", "encoder"} \/ (Streams(t, "first") /\ client # None)
  /\ GoStream(t, "remove")
  /\ UNCHANGED <<fields, inMap, removal, input, frame, finger, history, panicked>>

\* A new client, whether the session has one or not.
ConnectStream(t) ==
  /\ Streams(t, "connect")
  /\ Dial
  /\ GoStream(t, "first")
  /\ UNCHANGED <<inMap, removal, input, frame, finger, panicked>>

FirstFrame(t) ==
  /\ Streams(t, "first") /\ Open(client)
  /\ GoStream(t, "encoder")
  /\ UNCHANGED <<fields, inMap, removal, input, frame, finger, history, panicked>>

\* NewH264Encoder, the first picture and the loop.
NewEncoder(t) ==
  /\ Streams(t, "encoder")
  /\ encoder' = t
  /\ running' = running \cup {t}
  /\ lost' = IF encoder \in running THEN lost \cup {<<"encoder", encoder>>} ELSE lost
  /\ late' = IF Late THEN late \cup {<<"encoder", t>>} ELSE late
  /\ GoStream(t, "loop")
  /\ UNCHANGED <<client, conn, inMap, removal, input, frame, finger, restarted,
                 panicked>>

-----------------------------------------------------------------------------
(* streamingLoop *)

\* getSession waits for a removal under way.
LoopEnds(t) ==
  /\ Streams(t, "loop") /\ removal = NoRemoval /\ ~inMap
  /\ GoStream(t, "done")
  /\ UNCHANGED <<fields, inMap, removal, input, frame, finger, history, panicked>>

\* getFrameWithTimeout: no client is an error, with one a goroutine gets a frame.
\* Bound: a loop has one such goroutine at a time.
Tick(t) ==
  /\ Streams(t, "loop") /\ removal = NoRemoval /\ inMap /\ t \notin frame
  /\ IF client = None
     THEN GoStream(t, "error") /\ UNCHANGED frame
     ELSE GoStream(t, "wait") /\ frame' = frame \cup {t}
  /\ UNCHANGED <<fields, inMap, removal, input, finger, history, panicked>>

\* The goroutine calls GetFrame of the client the field has by then.
FrameArrives(t) ==
  /\ Streams(t, "wait") /\ t \in frame /\ Open(client)
  /\ frame' = frame \ {t}
  /\ streamer' = [streamer EXCEPT ![t].pc = "loop", ![t].errors = 0]
  /\ UNCHANGED <<fields, inMap, removal, input, finger, history, panicked>>

FrameFails(t) ==
  /\ t \in frame /\ client # None
  /\ frame' = frame \ {t}
  /\ IF Streams(t, "wait") THEN GoStream(t, "error") ELSE UNCHANGED streamer
  /\ UNCHANGED <<fields, inMap, removal, input, finger, history, panicked>>

\* After three seconds the loop goes on; the goroutine is left behind.
FrameTimesOut(t) ==
  /\ Streams(t, "wait")
  /\ GoStream(t, "error")
  /\ UNCHANGED <<fields, inMap, removal, input, frame, finger, history, panicked>>

CountError(t) ==
  LET errors == streamer[t].errors + 1 IN
  /\ Streams(t, "error")
  /\ streamer' = [streamer EXCEPT ![t].errors = errors,
                                 ![t].pc = IF errors >= MaxErrors THEN "restart" ELSE "loop"]
  /\ UNCHANGED <<fields, inMap, removal, input, frame, finger, history, panicked>>

-----------------------------------------------------------------------------
(* restartEmulatorConnection *)

RestartLooks(t) ==
  /\ Streams(t, "restart")
  /\ GoStream(t, IF client = None THEN "redial" ELSE "close")
  /\ UNCHANGED <<fields, inMap, removal, input, frame, finger, history, panicked>>

\* Mutant: the old client is not closed.
RestartKeepsOld(t) ==
  /\ Streams(t, "close") /\ client # None
  /\ streamer' = [streamer EXCEPT ![t].pc = "forget", ![t].closed = client]
  /\ UNCHANGED <<fields, inMap, removal, input, frame, finger, history, panicked>>

RestartCloses(t) ==
  /\ Streams(t, "close") /\ client # None
  /\ conn' = [conn EXCEPT ![client] = "closed"]
  /\ streamer' = [streamer EXCEPT ![t].pc = "forget", ![t].closed = client]
  /\ UNCHANGED <<client, encoder, running, inMap, removal, input, frame, finger,
                 history, panicked>>

\* nil is stored, also over a client stored since.
RestartForgets(t) ==
  /\ Streams(t, "forget")
  /\ client' = None /\ restarted' = TRUE
  /\ lost' = IF Open(client) /\ client # streamer[t].closed
             THEN lost \cup {<<"client", client>>} ELSE lost
  /\ GoStream(t, "redial")
  /\ UNCHANGED <<conn, encoder, running, inMap, removal, input, frame, finger, late,
                 panicked>>

Redial(t) ==
  /\ Streams(t, "redial")
  /\ Dial
  /\ streamer' = [streamer EXCEPT ![t] = [pc |-> "loop", errors |-> 0, closed |-> None]]
  /\ UNCHANGED <<inMap, removal, input, frame, finger, panicked>>

\* The loop ends without the session: its result, nil, is stored all the same.
RedialFails(t) ==
  /\ Streams(t, "redial")
  /\ client' = None
  /\ lost' = IF Open(client) THEN lost \cup {<<"client", client>>} ELSE lost
  /\ GoStream(t, "done")
  /\ UNCHANGED <<conn, encoder, running, inMap, removal, input, frame, finger, late,
                 restarted, panicked>>

-----------------------------------------------------------------------------
(* A call on a nil client *)

\* Goroutines that nothing recovers: the server dies.
NilClient ==
  /\ client = None
  /\ \/ \E i \in Input : input[i] \in {"down", "up", "press"}
     \/ frame # {}
     \/ removal.pc = "close" /\ removal.by = Callback
     \/ \E t \in Streamer : Streams(t, "close")
  /\ panicked' = TRUE
  /\ UNCHANGED <<fields, inMap, removal, actors, finger, history>>

\* startStreaming recovers, from a removal of its own too, whose mutex a deferred
\* call releases: the session stays, and nothing streams to it.
RecoveredNilClient(t) ==
  /\ client = None
  /\ \/ Streams(t, "first") /\ UNCHANGED removal
     \/ removal.pc = "close" /\ removal.by = t /\ removal' = NoRemoval
  /\ GoStream(t, "done")
  /\ UNCHANGED <<fields, inMap, input, frame, finger, history, panicked>>

-----------------------------------------------------------------------------
Init ==
  /\ client = None /\ conn = <<>> /\ encoder = None /\ running = {}
  /\ inMap = TRUE /\ removal = NoRemoval
  /\ input = [i \in Input |-> "idle"]
  /\ streamer = [t \in Streamer |-> [pc |-> "idle", errors |-> 0, closed |-> None]]
  /\ frame = {}
  /\ finger = FALSE
  /\ lost = {} /\ late = {} /\ restarted = FALSE /\ panicked = FALSE

InputStep(i) ==
  \/ Look(i) \/ DialForInput(i) \/ DialForInputFails(i)
  \/ TouchDown(i) \/ PressReturns(i) \/ LiftBegins(i) \/ LiftReturns(i) \/ Press(i)

RemovalStep == RemovalLooks \/ RemovalClosesClient \/ RemovalEnds

StreamStep(t) ==
  \/ StreamerRemoves(t) \/ StartStreaming(t) \/ SetUpFails(t) \/ ConnectStream(t)
  \/ FirstFrame(t) \/ NewEncoder(t) \/ LoopEnds(t) \/ Tick(t)
  \/ FrameArrives(t) \/ FrameFails(t) \/ FrameTimesOut(t) \/ CountError(t)
  \/ RestartLooks(t) \/ RestartCloses(t) \/ RestartForgets(t) \/ Redial(t) \/ RedialFails(t)
  \/ RecoveredNilClient(t)

Next ==
  /\ ~panicked
  /\ \/ \E i \in Input : Message(i) \/ InputStep(i)
     \/ ConnectionLost \/ RemovalStep
     \/ \E t \in Streamer : StreamStep(t)
     \/ NilClient

Spec == Init /\ [][Next]_vars

\* The goroutine that lifts a touch is scheduled.  Nothing makes a call of the
\* emulator return.
FairSpec ==
  /\ Spec
  /\ \A i \in Input : WF_vars(~panicked /\ LiftBegins(i))
  /\ WF_vars(~panicked /\ NilClient)

-----------------------------------------------------------------------------
(* Properties *)

\* The fields are shared without a lock, but nobody calls a method of a nil client
\* before the first restart has set the field to nil (handler.go:818-893,
\* 1191-1238, 505-507).
NilOnlyByRestart == panicked => restarted

\* From the removal of a session on, no client is open and no encoder runs but those
\* that another goroutine has overwritten or that were stored when the removal had
\* passed them (handler.go:501-524, 976-1057, 1220-1238).
NothingLeaks ==
  ~inMap =>
    /\ \A c \in 1 .. Len(conn) : Open(c) => <<"client", c>> \in lost \cup late
    /\ \A t \in running : <<"encoder", t>> \in lost \cup late

\* Once its touch-down has succeeded, a tap does not become a long press: the finger
\* is lifted, whatever restarts and removals do to the client in the meantime, unless
\* the touch-up itself fails or never returns, or the server dies of a nil client
\* (handler.go:852-873).  Of a touch-down that has had its effect and returns an error
\* or does not return, nothing is claimed: the code makes no touch-up (847-849).
FingerLifts ==
  \A i \in Input :
    (input[i] = "pressed") ~>
      \/ ~finger
      \/ input[i] \in {"doubtful", "unlifted"} \/ panicked
      \/ [](input[i] = "pressed") \/ [](input[i] = "lifting")
=============================================================================
