----------------------- MODULE SessionResourcesProofs -----------------------
(***************************************************************************)
(* Theorems about SessionResources, for every number of messages,          *)
(* streamers, clients and errors.                                          *)
(***************************************************************************)
EXTENDS SessionResources, SequenceTheorems, TLAPS

-----------------------------------------------------------------------------
(* Types *)

InputPc == {"idle", "touch", "key", "dial touch", "dial key", "down", "pressed",
            "doubtful", "up", "lifting", "unlifted", "press", "done"}
\* The places of a streamer that has a client behind it.
Connected == {"first", "encoder", "loop", "wait", "error", "restart", "close", "forget", "redial"}
StreamPc == Connected \cup {"idle", "connect", "remove", "removing", "done"}
Stream == [pc: StreamPc, errors: Nat, closed: Nat]

Typed ==
  /\ conn \in Seq({"open", "closed"}) /\ client \in 0 .. Len(conn)
  /\ encoder \in Streamer \cup {None} /\ running \subseteq Streamer
  /\ inMap \in BOOLEAN
  /\ removal \in [pc: {"none", "client", "close", "encoder"}, by: Streamer \cup {Callback}]
  /\ input \in [Input -> InputPc]
  /\ streamer \in [Streamer -> Stream]
  /\ frame \subseteq Streamer
  /\ restarted \in BOOLEAN /\ panicked \in BOOLEAN

\* A new client is the last one made, open, and the others are as they were.
LEMMA DialEffect ==
  ASSUME Typed, Dial
  PROVE  /\ conn' \in Seq({"open", "closed"}) /\ client' \in 0 .. Len(conn')
         /\ client' # None /\ Len(conn) \in Nat
         /\ encoder' = encoder /\ running' = running /\ restarted' = restarted
         /\ Len(conn') = Len(conn) + 1 /\ client' = Len(conn) + 1
         /\ conn'[client'] = "open"
         /\ \A c \in 1 .. Len(conn) : conn'[c] = conn[c]
<1>1. conn \in Seq({"open", "closed"}) /\ "open" \in {"open", "closed"}
  BY DEF Typed
<1>2. conn' = Append(conn, "open") /\ client' = Len(conn) + 1
  BY DEF Dial
<1>3. Len(conn) \in Nat
  BY <1>1, LenProperties
<1>4. encoder' = encoder /\ running' = running /\ restarted' = restarted
  BY DEF Dial
<1>5. /\ conn' \in Seq({"open", "closed"}) /\ Len(conn') = Len(conn) + 1
      /\ conn'[Len(conn) + 1] = "open"
      /\ \A c \in 1 .. Len(conn) : conn'[c] = conn[c]
  BY <1>1, <1>2, AppendProperties
<1> QED BY <1>2, <1>3, <1>4, <1>5 DEF None

LEMMA CloseEffect ==
  ASSUME Typed, client # None, conn' = [conn EXCEPT ![client] = "closed"]
  PROVE  /\ conn' \in Seq({"open", "closed"}) /\ Len(conn') = Len(conn)
         /\ client \in 1 .. Len(conn) /\ conn'[client] = "closed"
         /\ \A c \in 1 .. Len(conn) : c # client => conn'[c] = conn[c]
<1>1. client \in 1 .. Len(conn)
  BY LenProperties DEF Typed, None
<1>2. "closed" \in {"open", "closed"}
  OBVIOUS
<1> QED BY <1>1, <1>2, ExceptSeq DEF Typed

\* What a step of a streamer does to its own place.
LEMMA StreamTyped ==
  ASSUME Typed, NEW t \in Streamer
  PROVE  /\ \A where \in StreamPc :
              [streamer EXCEPT ![t].pc = where] \in [Streamer -> Stream]
         /\ [streamer EXCEPT ![t].pc = "loop", ![t].errors = 0] \in [Streamer -> Stream]
         /\ \A c \in Nat : [streamer EXCEPT ![t].pc = "forget", ![t].closed = c]
                             \in [Streamer -> Stream]
         /\ [streamer EXCEPT ![t] = [pc |-> "loop", errors |-> 0, closed |-> None]]
              \in [Streamer -> Stream]
         /\ \A errors \in Nat, where \in StreamPc :
              [streamer EXCEPT ![t].errors = errors, ![t].pc = where] \in [Streamer -> Stream]
<1>1. /\ streamer \in [Streamer -> Stream] /\ streamer[t] \in Stream
      /\ streamer[t].errors + 1 \in Nat
  BY DEF Typed, Stream
<1>2. \A where \in StreamPc : [streamer[t] EXCEPT !.pc = where] \in Stream
  BY <1>1 DEF Stream
<1>3. [streamer[t] EXCEPT !.pc = "loop", !.errors = 0] \in Stream
  BY <1>1 DEF Stream, StreamPc, Connected
<1>4. \A c \in Nat : [streamer[t] EXCEPT !.pc = "forget", !.closed = c] \in Stream
  BY <1>1 DEF Stream, StreamPc, Connected
<1>5. [pc |-> "loop", errors |-> 0, closed |-> None] \in Stream
  BY DEF Stream, StreamPc, Connected, None
<1>6. \A errors \in Nat, where \in StreamPc :
        [streamer[t] EXCEPT !.errors = errors, !.pc = where] \in Stream
  BY <1>1 DEF Stream
<1> QED BY <1>1, <1>2, <1>3, <1>4, <1>5, <1>6

LEMMA GoStreamTyped ==
  ASSUME Typed, NEW t \in Streamer, NEW where \in StreamPc, GoStream(t, where)
  PROVE  /\ streamer' \in [Streamer -> Stream] /\ streamer'[t].pc = where
         /\ streamer'[t].closed = streamer[t].closed
         /\ \A other \in Streamer \ {t} : streamer'[other] = streamer[other]
<1>1. streamer \in [Streamer -> Stream] /\ streamer' = [streamer EXCEPT ![t].pc = where]
  BY DEF GoStream, Typed
<1>2. streamer[t] \in Stream /\ [streamer[t] EXCEPT !.pc = where] \in Stream
  BY <1>1 DEF Stream
<1>3. /\ streamer'[t] = [streamer[t] EXCEPT !.pc = where]
      /\ \A other \in Streamer \ {t} : streamer'[other] = streamer[other]
      /\ streamer' \in [Streamer -> Stream]
  BY <1>1, <1>2
<1>4. streamer'[t].pc = where /\ streamer'[t].closed = streamer[t].closed
  BY <1>2, <1>3 DEF Stream
<1> QED BY <1>3, <1>4

LEMMA TypedNext ==
  ASSUME Typed, [Next]_vars
  PROVE  Typed'
<1>1. CASE UNCHANGED vars
  BY <1>1 DEF Typed, vars, fields, actors, history
<1>2. ASSUME NEW i \in Input,
             \/ Message(i) \/ Look(i) \/ DialForInputFails(i) \/ TouchDown(i)
             \/ PressReturns(i) \/ LiftBegins(i) \/ LiftReturns(i) \/ Press(i)
      PROVE  Typed'
  <2>1. \A where \in InputPc : [input EXCEPT ![i] = where] \in [Input -> InputPc]
    BY DEF Typed
  <2>2. input' \in [Input -> InputPc]
    BY <1>2, <2>1 DEF Message, Look, DialForInputFails, TouchDown, PressReturns,
       LiftBegins, LiftReturns, Press, GoInput,
                      AfterClient, AfterNil, InputPc
  <2> QED BY <1>2, <2>2 DEF Typed, Message, Look, DialForInputFails, TouchDown, PressReturns,
       LiftBegins, LiftReturns, Press,
                            fields, history
<1>3. ASSUME NEW i \in Input, DialForInput(i)
      PROVE  Typed'
  <2>1. input' \in [Input -> InputPc]
    BY <1>3 DEF Typed, DialForInput, GoInput, AfterClient, InputPc
  <2> QED BY <1>3, <2>1, DialEffect DEF Typed, DialForInput, Dial
<1>4. CASE ConnectionLost \/ RemovalLooks
  BY <1>4 DEF ConnectionLost, BeginRemoval, RemovalLooks, Typed, fields, actors, history
<1>5. CASE RemovalClosesClient
  BY <1>5, CloseEffect DEF RemovalClosesClient, Typed, actors, history
<1>6. CASE RemovalEnds
  <2>1. streamer' \in [Streamer -> Stream]
    <3>1. CASE removal.by = Callback
      BY <1>6, <3>1 DEF RemovalEnds, Released, Typed
    <3>2. CASE removal.by # Callback
      <4>1. removal.by \in Streamer
        BY <3>2 DEF Typed
      <4>2. GoStream(removal.by, "done") /\ "done" \in StreamPc
        BY <1>6, <3>2 DEF RemovalEnds, Released, StreamPc
      <4> QED BY <4>1, <4>2, GoStreamTyped
    <3> QED BY <3>1, <3>2
  <2> QED BY <1>6, <2>1 DEF RemovalEnds, NoRemoval, Typed, history
<1>7. ASSUME NEW t \in Streamer,
             \/ StartStreaming(t) \/ SetUpFails(t) \/ FirstFrame(t) \/ LoopEnds(t)
             \/ FrameTimesOut(t) \/ CountError(t) \/ RestartLooks(t)
             \/ Tick(t) \/ FrameArrives(t) \/ FrameFails(t)
      PROVE  Typed'
  <2>1. streamer' \in [Streamer -> Stream]
    <3>1. CASE CountError(t)
      <4>1. streamer[t].errors + 1 \in Nat
        BY DEF Typed, Stream
      <4> QED BY <3>1, <4>1, StreamTyped DEF CountError, StreamPc, Connected
    <3>2. CASE FrameArrives(t)
      BY <3>2, StreamTyped DEF FrameArrives
    <3>3. CASE ~CountError(t) /\ ~FrameArrives(t)
      <4>1. UNCHANGED streamer \/ \E where \in StreamPc : GoStream(t, where)
        BY <1>7, <3>3 DEF StartStreaming, SetUpFails, FirstFrame, LoopEnds, FrameTimesOut,
           RestartLooks, Tick, FrameFails, StreamPc, Connected
      <4> QED BY <4>1, GoStreamTyped DEF Typed
    <3> QED BY <3>1, <3>2, <3>3
  <2>2. frame' \subseteq Streamer
    BY <1>7 DEF StartStreaming, SetUpFails, FirstFrame, LoopEnds, FrameTimesOut, CountError,
                RestartLooks, Tick, FrameArrives, FrameFails, Typed
  <2> QED BY <1>7, <2>1, <2>2 DEF StartStreaming, SetUpFails, FirstFrame, LoopEnds,
             FrameTimesOut, CountError, RestartLooks, Tick, FrameArrives, FrameFails, Typed,
             fields, history
<1>8. ASSUME NEW t \in Streamer, ConnectStream(t) \/ Redial(t)
      PROVE  Typed'
  <2>1. streamer' \in [Streamer -> Stream]
    <3>1. CASE ConnectStream(t)
      BY <3>1, GoStreamTyped DEF ConnectStream, StreamPc, Connected
    <3>2. CASE Redial(t)
      BY <3>2, StreamTyped DEF Redial
    <3> QED BY <1>8, <3>1, <3>2
  <2> QED BY <1>8, <2>1, DialEffect DEF ConnectStream, Redial, Typed, Dial
<1>9. ASSUME NEW t \in Streamer, NewEncoder(t) \/ StreamerRemoves(t)
      PROVE  Typed'
  <2>1. streamer' \in [Streamer -> Stream]
    BY <1>9, GoStreamTyped DEF NewEncoder, StreamerRemoves, StreamPc, Connected
  <2> QED BY <1>9, <2>1 DEF NewEncoder, StreamerRemoves, BeginRemoval, Typed, fields, history
<1>10. ASSUME NEW t \in Streamer, RestartCloses(t)
       PROVE  Typed'
  <2>1. client \in Nat
    BY LenProperties DEF Typed
  <2>2. streamer' \in [Streamer -> Stream]
    BY <1>10, <2>1, StreamTyped DEF RestartCloses
  <2> QED BY <1>10, <2>2, CloseEffect DEF RestartCloses, Typed, history
<1>11. ASSUME NEW t \in Streamer, RestartForgets(t) \/ RedialFails(t)
       PROVE  Typed'
  <2>1. streamer' \in [Streamer -> Stream]
    BY <1>11, GoStreamTyped DEF RestartForgets, RedialFails, StreamPc, Connected
  <2>2. None \in 0 .. Len(conn)
    BY LenProperties DEF Typed, None
  <2> QED BY <1>11, <2>1, <2>2 DEF RestartForgets, RedialFails, Typed
<1>12. ASSUME NEW t \in Streamer, RecoveredNilClient(t)
       PROVE  Typed'
  <2>1. streamer' \in [Streamer -> Stream]
    BY <1>12, GoStreamTyped DEF RecoveredNilClient, StreamPc
  <2>2. removal' \in [pc: {"none", "client", "close", "encoder"}, by: Streamer \cup {Callback}]
    BY <1>12 DEF RecoveredNilClient, NoRemoval, Typed
  <2> QED BY <1>12, <2>1, <2>2 DEF RecoveredNilClient, Typed, fields, history
<1>13. CASE NilClient
  BY <1>13 DEF NilClient, Typed, fields, actors, history
<1> QED BY <1>1, <1>2, <1>3, <1>4, <1>5, <1>6, <1>7, <1>8, <1>9, <1>10, <1>11, <1>12, <1>13
     DEF Next, InputStep, RemovalStep, StreamStep

-----------------------------------------------------------------------------
(* Nil clients *)

Made == conn # <<>>

\* Whoever is about to use the client came after the first one was made.
Dialled ==
  /\ \A i \in Input : input[i] \in {"down", "pressed", "up", "press"} => Made
  /\ \A t \in Streamer : streamer[t].pc \in Connected => Made
  /\ frame # {} \/ removal.pc = "close" => Made

\* The field is nil only before the first client and after a restart.  A restart
\* that finds it nil has therefore had one before it.
NilInv ==
  /\ Dialled
  /\ Made /\ ~restarted => client # None
  /\ \A t \in Streamer : Streams(t, "redial") => restarted
  /\ NilOnlyByRestart

LEMMA MadeFact ==
  ASSUME Typed
  PROVE  client # None => Made
BY EmptySeq DEF Typed, None, Made

LEMMA DialMakes ==
  ASSUME Typed, Dial
  PROVE  client' # None /\ restarted' = restarted /\ Made'
<1>1. /\ client' # None /\ restarted' = restarted
      /\ conn' \in Seq({"open", "closed"}) /\ Len(conn) \in Nat /\ Len(conn') = Len(conn) + 1
  BY DialEffect
<1>2. conn' # <<>>
  BY <1>1, EmptySeq
<1> QED BY <1>1, <1>2 DEF Made

LEMMA MadeStays ==
  ASSUME Typed, [Next]_vars, Made
  PROVE  Made'
<1>1. ASSUME Dial PROVE Made'
  BY <1>1, DialMakes
<1>2. ASSUME client # None, conn' = [conn EXCEPT ![client] = "closed"] PROVE Made'
  BY <1>2, CloseEffect, EmptySeq DEF Made
<1>3. ASSUME conn' = conn PROVE Made'
  BY <1>3 DEF Made
<1>4. ASSUME NEW i \in Input, Message(i) \/ InputStep(i) PROVE Made'
  BY <1>1, <1>3, <1>4 DEF Message, InputStep, Look, DialForInput, DialForInputFails, TouchDown,
     PressReturns, LiftBegins, LiftReturns, Press, fields
<1>5. ASSUME ConnectionLost \/ RemovalStep \/ NilClient \/ UNCHANGED vars PROVE Made'
  BY <1>2, <1>3, <1>5 DEF ConnectionLost, RemovalStep, RemovalLooks, RemovalClosesClient,
     RemovalEnds, NilClient, fields, vars
<1>6. ASSUME NEW t \in Streamer, StreamStep(t) PROVE Made'
  BY <1>1, <1>2, <1>3, <1>6 DEF StreamStep, StreamerRemoves, StartStreaming, SetUpFails,
     ConnectStream, FirstFrame, NewEncoder, LoopEnds, Tick, FrameArrives, FrameFails,
     FrameTimesOut, CountError, RestartLooks, RestartCloses, RestartForgets, Redial, RedialFails,
     RecoveredNilClient, fields
<1> QED BY <1>4, <1>5, <1>6 DEF Next

\* Input, the removal and the death of the server.
LEMMA NilOthersKeep ==
  ASSUME Typed, NilInv, [Next]_vars, ~panicked,
         \/ \E i \in Input : Message(i) \/ InputStep(i)
         \/ ConnectionLost \/ RemovalStep \/ NilClient
  PROVE  NilInv'
<1>1. (Made => Made') /\ (client # None => Made)
  BY MadeStays, MadeFact
<1>2. ASSUME NEW i \in Input,
             \/ Message(i) \/ Look(i) \/ DialForInputFails(i) \/ TouchDown(i)
             \/ PressReturns(i) \/ LiftBegins(i) \/ LiftReturns(i) \/ Press(i)
      PROVE  NilInv'
  <2>1. /\ UNCHANGED <<conn, client, streamer, frame, removal, restarted, panicked>>
        /\ \A other \in Input \ {i} : input'[other] = input[other]
    BY <1>2 DEF Message, Look, DialForInputFails, TouchDown, PressReturns,
       LiftBegins, LiftReturns, Press, GoInput, fields,
                history, Typed
  <2>2. input'[i] \in {"down", "pressed", "up", "press"} => Made
    BY <1>1, <1>2 DEF Message, Look, DialForInputFails, TouchDown, PressReturns,
       LiftBegins, LiftReturns, Press, GoInput,
       AfterNil, Typed, NilInv, Dialled
  <2> QED BY <2>1, <2>2 DEF NilInv, Dialled, Made, Streams, NilOnlyByRestart
<1>3. ASSUME NEW i \in Input, DialForInput(i)
      PROVE  NilInv'
  <2>1. client' # None /\ restarted' = restarted /\ Made'
    BY <1>3, DialMakes DEF DialForInput
  <2>2. UNCHANGED <<streamer, frame, removal, panicked>>
    BY <1>3 DEF DialForInput
  <2> QED BY <2>1, <2>2 DEF NilInv, Dialled, Streams, NilOnlyByRestart
<1>4. CASE ConnectionLost \/ RemovalLooks \/ RemovalClosesClient
  <2>1. /\ UNCHANGED <<client, streamer, input, frame, restarted, panicked>>
        /\ removal'.pc = "close" => Made
    BY <1>1, <1>4 DEF ConnectionLost, BeginRemoval, RemovalLooks, RemovalClosesClient, Typed,
                      fields, actors, history
  <2>2. Made' => Made
    BY <1>1, <1>4 DEF ConnectionLost, RemovalLooks, RemovalClosesClient, fields, Made
  <2> QED BY <1>1, <2>1, <2>2 DEF NilInv, Dialled, Streams, NilOnlyByRestart
<1>5. CASE RemovalEnds
  <2>1. /\ UNCHANGED <<conn, client, input, frame, restarted, panicked>>
        /\ removal'.pc = "none"
    BY <1>5 DEF RemovalEnds, NoRemoval, history
  <2>2. \A t \in Streamer : streamer'[t] = streamer[t] \/ streamer'[t].pc = "done"
    <3>1. CASE removal.by = Callback
      BY <1>5, <3>1 DEF RemovalEnds, Released
    <3>2. CASE removal.by # Callback
      <4>1. removal.by \in Streamer /\ "done" \in StreamPc
        BY <3>2 DEF Typed, StreamPc
      <4> QED BY <1>5, <3>2, <4>1, GoStreamTyped DEF RemovalEnds, Released
    <3> QED BY <3>1, <3>2
  <2> QED BY <2>1, <2>2 DEF NilInv, Dialled, Made, Streams, NilOnlyByRestart, Connected
<1>6. CASE NilClient
  <2>1. Made /\ client = None
    BY <1>6 DEF NilClient, NilInv, Dialled, Streams, Connected
  <2>2. restarted
    BY <2>1 DEF NilInv
  <2> QED BY <1>6, <2>2 DEF NilClient, NilInv, Dialled, Made, Streams, NilOnlyByRestart, fields,
                            actors, history
<1> QED BY <1>2, <1>3, <1>4, <1>5, <1>6 DEF InputStep, RemovalStep

LEMMA NilStreamKeeps ==
  ASSUME Typed, NilInv, [Next]_vars, ~panicked, NEW t \in Streamer, StreamStep(t)
  PROVE  NilInv'
<1>1. (Made => Made') /\ (client # None => Made)
  BY MadeStays, MadeFact
<1>2. input' = input /\ panicked' = panicked
  BY DEF StreamStep, StreamerRemoves, StartStreaming, SetUpFails,
     ConnectStream, FirstFrame, NewEncoder, LoopEnds, Tick, FrameArrives, FrameFails,
     FrameTimesOut, CountError, RestartLooks, RestartCloses, RestartForgets, Redial, RedialFails,
     RecoveredNilClient
<1>3. \A other \in Streamer \ {t} : streamer'[other] = streamer[other]
  BY DEF StreamStep, StreamerRemoves, StartStreaming, SetUpFails, GoStream, Typed,
     ConnectStream, FirstFrame, NewEncoder, LoopEnds, Tick, FrameArrives, FrameFails,
     FrameTimesOut, CountError, RestartLooks, RestartCloses, RestartForgets, Redial, RedialFails,
     RecoveredNilClient
<1>4. ASSUME ConnectStream(t) \/ Redial(t)
      PROVE  NilInv'
  <2>1. client' # None /\ restarted' = restarted /\ Made'
    BY <1>4, DialMakes DEF ConnectStream, Redial
  <2>2. streamer'[t].pc # "redial"
    <3>1. CASE ConnectStream(t)
      BY <3>1, GoStreamTyped DEF ConnectStream, StreamPc, Connected
    <3>2. CASE Redial(t)
      BY <3>2 DEF Redial, Typed
    <3> QED BY <1>4, <3>1, <3>2
  <2> QED BY <1>2, <1>3, <2>1, <2>2 DEF NilInv, Dialled, Streams, NilOnlyByRestart
<1>5. ASSUME RestartForgets(t) \/ RedialFails(t)
      PROVE  NilInv'
  <2>1. restarted' /\ UNCHANGED <<conn, frame, removal>>
    BY <1>5 DEF RestartForgets, RedialFails, NilInv
  <2>2. Made
    BY <1>5 DEF RestartForgets, RedialFails, Streams, NilInv, Dialled, Connected
  <2> QED BY <1>1, <1>2, <1>3, <2>1, <2>2 DEF NilInv, Dialled, Streams, NilOnlyByRestart
<1>6. ASSUME UNCHANGED <<client, restarted>>, Made' => Made,
             frame' # {} \/ removal'.pc = "close" => Made,
             streamer'[t].pc \in Connected => Made,
             streamer'[t].pc = "redial" => restarted
      PROVE  NilInv'
  BY <1>1, <1>2, <1>3, <1>6 DEF NilInv, Dialled, Streams, NilOnlyByRestart
<1>7. ASSUME \/ StreamerRemoves(t) \/ StartStreaming(t) \/ SetUpFails(t) \/ FirstFrame(t)
             \/ NewEncoder(t) \/ LoopEnds(t) \/ FrameTimesOut(t) \/ CountError(t)
             \/ RecoveredNilClient(t) \/ RestartCloses(t)
      PROVE  NilInv'
  <2>1. /\ UNCHANGED <<client, restarted, frame>> /\ (Made' => Made)
        /\ removal'.pc = "close" => removal.pc = "close"
    BY <1>1, <1>7 DEF StreamerRemoves, BeginRemoval, StartStreaming, SetUpFails, FirstFrame,
       NewEncoder, LoopEnds, FrameTimesOut, CountError, RecoveredNilClient, RestartCloses,
       NoRemoval, Made, fields, history, Typed
  <2>2. /\ streamer'[t].pc # "redial"
        /\ streamer'[t].pc \in Connected => streamer[t].pc \in Connected
    BY <1>7 DEF StreamerRemoves, StartStreaming, SetUpFails, FirstFrame, NewEncoder, LoopEnds,
       FrameTimesOut, CountError, RecoveredNilClient, RestartCloses, GoStream, Streams, Typed,
       Stream, Connected
  <2> QED BY <1>6, <2>1, <2>2 DEF NilInv, Dialled
<1>8. ASSUME Tick(t) \/ FrameArrives(t) \/ FrameFails(t) \/ RestartLooks(t)
      PROVE  NilInv'
  <2>1. /\ UNCHANGED <<client, restarted, conn, removal>>
        /\ streamer[t].pc \in Connected \/ frame # {}
    BY <1>8 DEF Tick, FrameArrives, FrameFails, RestartLooks, Streams, Connected, fields, history
  <2>2. Made
    BY <2>1 DEF NilInv, Dialled
  <2>3. streamer'[t].pc = "redial" =>
          (RestartLooks(t) /\ client = None) \/ streamer[t].pc = "redial"
    BY <1>8 DEF Tick, FrameArrives, FrameFails, RestartLooks, GoStream, Streams, Typed, Stream
  <2>4. streamer'[t].pc = "redial" => restarted
    BY <2>2, <2>3 DEF NilInv, Streams
  <2> QED BY <1>6, <2>1, <2>2, <2>4
<1> QED BY <1>4, <1>5, <1>7, <1>8 DEF StreamStep

LEMMA NilInductive == Spec => [](Typed /\ NilInv)
<1>1. Init => Typed /\ NilInv
  <2> SUFFICES ASSUME Init PROVE Typed /\ NilInv
    OBVIOUS
  <2>1. conn = <<>> /\ conn \in Seq({"open", "closed"}) /\ Len(conn) = 0 /\ client = 0
    BY EmptySeq DEF Init, None
  <2>2. Typed
    <3>1. /\ client \in 0 .. Len(conn) /\ encoder \in Streamer \cup {None}
          /\ running \subseteq Streamer /\ frame \subseteq Streamer
      BY <2>1 DEF Init
    <3>2. removal \in [pc: {"none", "client", "close", "encoder"}, by: Streamer \cup {Callback}]
      BY DEF Init, NoRemoval
    <3>3. input \in [Input -> InputPc]
      BY DEF Init, InputPc
    <3>4. [pc |-> "idle", errors |-> 0, closed |-> None] \in Stream
      BY DEF Stream, StreamPc, None
    <3>5. streamer \in [Streamer -> Stream]
      BY <3>4 DEF Init
    <3>6. inMap \in BOOLEAN /\ restarted \in BOOLEAN /\ panicked \in BOOLEAN
      BY DEF Init
    <3> QED BY <2>1, <3>1, <3>2, <3>3, <3>5, <3>6 DEF Typed
  <2>3. NilInv
    BY <2>1 DEF Init, NilInv, Dialled, Made, Streams, NilOnlyByRestart, NoRemoval, Connected
  <2> QED BY <2>2, <2>3
<1>2. Typed /\ NilInv /\ [Next]_vars => (Typed /\ NilInv)'
  <2> SUFFICES ASSUME Typed, NilInv, [Next]_vars PROVE NilInv'
    BY TypedNext
  <2>1. CASE UNCHANGED vars
    BY <2>1 DEF NilInv, Dialled, Made, Streams, NilOnlyByRestart, vars, fields, actors, history
  <2> QED BY <2>1, NilOthersKeep, NilStreamKeeps DEF Next
<1> QED BY <1>1, <1>2, PTL DEF Spec

\* Whatever messages, streamers, restarts and the removal interleave on the field
\* without a lock, nobody calls a method of a nil client before a restart has set
\* the field to nil (handler.go:818-893, 1191-1238, 505-507).
THEOREM NilNeedsRestart == Spec => []NilOnlyByRestart
<1>1. NilInv => NilOnlyByRestart
  BY DEF NilInv
<1> QED BY <1>1, NilInductive, PTL

-----------------------------------------------------------------------------
(* What a removed session leaves open *)

Accounted(what) == what \in lost \cup late

\* An open client that is not the session's was overwritten, or stored late.
ClientsAccounted ==
  /\ \A c \in 1 .. Len(conn) :
       conn[c] = "open" /\ c # client => Accounted(<<"client", c>>)
  /\ Late /\ Open(client) => Accounted(<<"client", client>>)

\* The same for the encoders that run.
EncodersAccounted ==
  /\ \A t \in running : t # encoder => Accounted(<<"encoder", t>>)
  /\ ~inMap /\ encoder \in running => Accounted(<<"encoder", encoder>>)

\* What a restart is about to forget it has closed.
ForgetsClosed ==
  \A t \in Streamer : Streams(t, "forget") =>
    streamer[t].closed \in 1 .. Len(conn) /\ conn[streamer[t].closed] = "closed"

LeakInv == ClientsAccounted /\ EncodersAccounted /\ ForgetsClosed

\* Streamers forget nothing new: all but a restart's first half.
Forgetting(t) == Streams(t, "forget")
ForgetNothingNew ==
  \A t \in Streamer : Forgetting(t)' => Forgetting(t) /\ streamer'[t].closed = streamer[t].closed

LEMMA SameClients ==
  ASSUME Typed, LeakInv, UNCHANGED <<client, conn>>,
         lost \subseteq lost', late \subseteq late',
         Late' => Late \/ ~Open(client)
  PROVE  ClientsAccounted'
BY DEF LeakInv, ClientsAccounted, Accounted, Open

LEMMA SameEncoders ==
  ASSUME LeakInv, UNCHANGED <<encoder, running, inMap>>,
         lost \subseteq lost', late \subseteq late'
  PROVE  EncodersAccounted'
BY DEF LeakInv, EncodersAccounted, Accounted

LEMMA SameForgets ==
  ASSUME Typed, LeakInv, ForgetNothingNew,
         \A c \in 1 .. Len(conn) : conn[c] = "closed" =>
           c \in 1 .. Len(conn') /\ conn'[c] = "closed"
  PROVE  ForgetsClosed'
BY DEF LeakInv, ForgetsClosed, ForgetNothingNew, Forgetting, Streams

\* A step that only moves actors.
LEMMA QuietLeaks ==
  ASSUME Typed, LeakInv, UNCHANGED <<fields, inMap, lost, late>>, ForgetNothingNew,
         removal'.pc = "encoder" => removal.pc = "encoder" \/ client = None
  PROVE  LeakInv'
<1>1. ClientsAccounted'
  BY SameClients DEF fields, Late, Open
<1>2. EncodersAccounted'
  BY SameEncoders DEF fields
<1>3. ForgetsClosed'
  BY SameForgets DEF fields
<1> QED BY <1>1, <1>2, <1>3 DEF LeakInv

\* A new client: what it overwrites is accounted for, and so is the client itself
\* when it comes late.
LEMMA DialLeaks ==
  ASSUME Typed, LeakInv, Dial, UNCHANGED <<inMap, removal>>, ForgetNothingNew
  PROVE  LeakInv'
<1>1. /\ conn' \in Seq({"open", "closed"}) /\ Len(conn) \in Nat /\ Len(conn') = Len(conn) + 1
      /\ client' = Len(conn) + 1 /\ encoder' = encoder /\ running' = running
      /\ \A c \in 1 .. Len(conn) : conn'[c] = conn[c]
  BY DialEffect
<1>2. /\ lost' = IF Open(client) THEN lost \cup {<<"client", client>>} ELSE lost
      /\ late' = IF Late THEN late \cup {<<"client", client'>>} ELSE late
  BY DEF Dial
<1>3. Late' <=> Late
  BY DEF Late
<1>4. lost \subseteq lost' /\ late \subseteq late'
  BY <1>2
<1>5. ClientsAccounted'
  <2>1. ASSUME NEW c \in 1 .. Len(conn'), conn'[c] = "open", c # client'
        PROVE  Accounted(<<"client", c>>)'
    <3>1. c \in 1 .. Len(conn) /\ conn[c] = "open" /\ c # None
      BY <1>1, <2>1 DEF None
    <3>2. CASE c = client
      BY <1>2, <3>1, <3>2 DEF Open, Accounted
    <3>3. CASE c # client
      BY <1>4, <3>1, <3>3 DEF LeakInv, ClientsAccounted, Accounted
    <3> QED BY <3>2, <3>3
  <2>2. Late' => Accounted(<<"client", client>>)'
    BY <1>2, <1>3 DEF Accounted
  <2> QED BY <2>1, <2>2 DEF ClientsAccounted
<1>6. EncodersAccounted'
  BY <1>1, <1>4, SameEncoders
<1>7. ForgetsClosed'
  <2>1. \A c \in 1 .. Len(conn) : c \in 1 .. Len(conn')
    BY <1>1
  <2> QED BY <1>1, <2>1, SameForgets
<1> QED BY <1>5, <1>6, <1>7 DEF LeakInv

\* The client that is closed is the session's.
LEMMA CloseClients ==
  ASSUME Typed, LeakInv, client # None, conn' = [conn EXCEPT ![client] = "closed"],
         UNCHANGED <<client, lost, late>>
  PROVE  /\ ClientsAccounted'
         /\ \A c \in 1 .. Len(conn) : conn[c] = "closed" =>
              c \in 1 .. Len(conn') /\ conn'[c] = "closed"
<1>1. /\ Len(conn') = Len(conn) /\ conn'[client] = "closed"
      /\ \A c \in 1 .. Len(conn) : c # client => conn'[c] = conn[c]
  BY CloseEffect
<1>2. ~Open(client)'
  BY <1>1 DEF Open
<1> QED BY <1>1, <1>2 DEF LeakInv, ClientsAccounted, Accounted

\* nil is stored over a client: it was closed, or it is accounted for.
LEMMA ForgetLeaks ==
  ASSUME Typed, LeakInv, client' = None, UNCHANGED <<conn, encoder, running, inMap, removal, late>>,
         ForgetNothingNew, lost \subseteq lost',
         Open(client) => <<"client", client>> \in lost'
  PROVE  LeakInv'
<1>1. ClientsAccounted'
  <2>1. ASSUME NEW c \in 1 .. Len(conn), conn[c] = "open"
        PROVE  Accounted(<<"client", c>>)'
    <3>1. c # None
      BY LenProperties DEF None, Typed
    <3> QED BY <2>1, <3>1 DEF LeakInv, ClientsAccounted, Accounted, Open
  <2>2. ~Open(client)'
    BY DEF Open
  <2> QED BY <2>1, <2>2 DEF ClientsAccounted
<1>2. EncodersAccounted'
  BY SameEncoders
<1>3. ForgetsClosed'
  BY SameForgets
<1> QED BY <1>1, <1>2, <1>3 DEF LeakInv

\* Only a restart that has closed the client goes on to forget it.
LEMMA OthersForgetNothing ==
  ASSUME Typed, NEW t \in Streamer, StreamStep(t), ~RestartCloses(t)
  PROVE  ForgetNothingNew
<1>1. ASSUME NEW where \in StreamPc \ {"forget"}, GoStream(t, where)
      PROVE  ForgetNothingNew
  BY <1>1, GoStreamTyped DEF ForgetNothingNew, Forgetting, Streams
<1>2. ASSUME UNCHANGED streamer
      PROVE  ForgetNothingNew
  BY <1>2 DEF ForgetNothingNew, Forgetting, Streams
<1>3. CASE FrameArrives(t) \/ CountError(t) \/ Redial(t)
  <2>1. /\ streamer'[t].pc \in {"loop", "restart"}
        /\ \A other \in Streamer \ {t} : streamer'[other] = streamer[other]
    BY <1>3 DEF FrameArrives, CountError, Redial, Typed, Stream
  <2> QED BY <2>1 DEF ForgetNothingNew, Forgetting, Streams
<1>4. CASE \/ StreamerRemoves(t) \/ StartStreaming(t) \/ SetUpFails(t) \/ ConnectStream(t)
           \/ FirstFrame(t) \/ NewEncoder(t) \/ LoopEnds(t) \/ Tick(t) \/ FrameFails(t)
           \/ FrameTimesOut(t) \/ RestartLooks(t) \/ RestartForgets(t) \/ RedialFails(t)
           \/ RecoveredNilClient(t)
  <2>1. UNCHANGED streamer \/ \E where \in StreamPc \ {"forget"} : GoStream(t, where)
    BY <1>4 DEF StreamerRemoves, StartStreaming, SetUpFails, ConnectStream, FirstFrame,
       NewEncoder, LoopEnds, Tick, FrameFails, FrameTimesOut, RestartLooks, RestartForgets,
       RedialFails, RecoveredNilClient, StreamPc, Connected
  <2> QED BY <1>1, <1>2, <2>1
<1> QED BY <1>3, <1>4 DEF StreamStep

LEMMA StreamLeaks ==
  ASSUME Typed, LeakInv, NEW t \in Streamer, StreamStep(t)
  PROVE  LeakInv'
<1>1. CASE RestartCloses(t)
  <2>1. /\ client # None /\ conn' = [conn EXCEPT ![client] = "closed"]
        /\ UNCHANGED <<client, encoder, running, inMap, removal, lost, late>>
        /\ streamer' = [streamer EXCEPT ![t].pc = "forget", ![t].closed = client]
    BY <1>1 DEF RestartCloses, history
  <2>2. ClientsAccounted' /\ \A c \in 1 .. Len(conn) : conn[c] = "closed" =>
          c \in 1 .. Len(conn') /\ conn'[c] = "closed"
    BY <2>1, CloseClients
  <2>3. EncodersAccounted'
    BY <2>1, SameEncoders
  <2>4. ForgetsClosed'
    <3>1. /\ streamer'[t].closed = client
          /\ \A other \in Streamer \ {t} : streamer'[other] = streamer[other]
      BY <2>1 DEF Typed, Stream
    <3>2. client \in 1 .. Len(conn') /\ conn'[client] = "closed"
      BY <2>1, CloseEffect
    <3> QED BY <2>2, <3>1, <3>2 DEF LeakInv, ForgetsClosed, Streams
  <2> QED BY <2>2, <2>3, <2>4 DEF LeakInv
<1>2. CASE ConnectStream(t) \/ Redial(t)
  <2>1. ForgetNothingNew
    BY <1>2, OthersForgetNothing DEF ConnectStream, Redial, RestartCloses, Streams
  <2> QED BY <1>2, <2>1, DialLeaks DEF ConnectStream, Redial
<1>3. CASE RestartForgets(t) \/ RedialFails(t)
  <2>1. ForgetNothingNew
    BY <1>3, OthersForgetNothing DEF RestartForgets, RedialFails, RestartCloses, Streams
  <2>2. /\ client' = None /\ UNCHANGED <<conn, encoder, running, inMap, removal, late>>
        /\ lost \subseteq lost'
    BY <1>3 DEF RestartForgets, RedialFails
  <2>3. Open(client) => <<"client", client>> \in lost'
    BY <1>3 DEF RestartForgets, RedialFails, Open, LeakInv, ForgetsClosed
  <2> QED BY <2>1, <2>2, <2>3, ForgetLeaks
<1>4. CASE NewEncoder(t)
  <2>1. ForgetNothingNew
    BY <1>4, OthersForgetNothing DEF NewEncoder, RestartCloses, Streams
  <2>2. /\ UNCHANGED <<client, conn, inMap, removal>>
        /\ encoder' = t /\ running' = running \cup {t}
        /\ lost' = IF encoder \in running THEN lost \cup {<<"encoder", encoder>>} ELSE lost
        /\ late' = IF Late THEN late \cup {<<"encoder", t>>} ELSE late
    BY <1>4 DEF NewEncoder
  <2>3. ClientsAccounted'
    <3>1. Late' => Late
      BY <2>2 DEF Late
    <3>2. lost \subseteq lost' /\ late \subseteq late'
      BY <2>2
    <3> QED BY <2>2, <3>1, <3>2, SameClients
  <2>4. EncodersAccounted'
    BY <2>2 DEF LeakInv, EncodersAccounted, Accounted, Late
  <2>5. ForgetsClosed'
    BY <2>1, <2>2, SameForgets
  <2> QED BY <2>3, <2>4, <2>5 DEF LeakInv
<1>5. CASE \/ StreamerRemoves(t) \/ StartStreaming(t) \/ SetUpFails(t) \/ FirstFrame(t)
           \/ LoopEnds(t) \/ Tick(t) \/ FrameArrives(t) \/ FrameFails(t) \/ FrameTimesOut(t)
           \/ CountError(t) \/ RestartLooks(t) \/ RecoveredNilClient(t)
  <2>1. CASE ~RestartCloses(t)
    <3>1. ForgetNothingNew
      BY <2>1, OthersForgetNothing
    <3>2. /\ UNCHANGED <<fields, inMap, lost, late>>
          /\ removal'.pc = "encoder" => removal.pc = "encoder"
      BY <1>5 DEF StreamerRemoves, BeginRemoval, StartStreaming, SetUpFails, FirstFrame,
         LoopEnds, Tick, FrameArrives, FrameFails, FrameTimesOut, CountError, RestartLooks,
         RecoveredNilClient, NoRemoval, history
    <3> QED BY <3>1, <3>2, QuietLeaks
  <2> QED BY <1>1, <2>1
<1> QED BY <1>1, <1>2, <1>3, <1>4, <1>5 DEF StreamStep

LEMMA OthersLeak ==
  ASSUME Typed, LeakInv,
         \/ \E i \in Input : Message(i) \/ InputStep(i)
         \/ ConnectionLost \/ RemovalStep \/ NilClient \/ UNCHANGED vars
  PROVE  LeakInv'
<1>1. UNCHANGED streamer => ForgetNothingNew
  BY DEF ForgetNothingNew, Forgetting, Streams
<1>2. ASSUME NEW i \in Input, Message(i) \/ InputStep(i), ~DialForInput(i)
      PROVE  LeakInv'
  <2>1. UNCHANGED <<fields, inMap, removal, streamer, lost, late>>
    BY <1>2 DEF Message, InputStep, Look, DialForInputFails, TouchDown, PressReturns,
       LiftBegins, LiftReturns, Press, history
  <2> QED BY <1>1, <2>1, QuietLeaks
<1>3. ASSUME NEW i \in Input, DialForInput(i)
      PROVE  LeakInv'
  BY <1>1, <1>3, DialLeaks DEF DialForInput
<1>4. CASE ConnectionLost \/ RemovalLooks \/ NilClient \/ UNCHANGED vars
  <2>1. UNCHANGED <<fields, inMap, streamer, lost, late>>
    BY <1>4 DEF ConnectionLost, RemovalLooks, NilClient, actors, history, vars
  <2>2. removal'.pc = "encoder" => removal.pc = "encoder" \/ client = None
    BY <1>4 DEF ConnectionLost, BeginRemoval, RemovalLooks, NilClient, vars, Typed
  <2> QED BY <1>1, <2>1, <2>2, QuietLeaks
<1>5. CASE RemovalClosesClient
  <2>1. /\ client # None /\ conn' = [conn EXCEPT ![client] = "closed"]
        /\ UNCHANGED <<client, encoder, running, inMap, streamer, lost, late>>
    BY <1>5 DEF RemovalClosesClient, actors, history
  <2>2. ClientsAccounted' /\ ForgetsClosed'
    BY <1>1, <2>1, CloseClients, SameForgets
  <2> QED BY <2>1, <2>2, SameEncoders DEF LeakInv
<1>6. CASE RemovalEnds
  <2>1. /\ UNCHANGED <<client, conn, encoder, lost, late>>
        /\ removal.pc = "encoder" /\ running' = running \ {encoder}
        /\ Released(removal.by)
    BY <1>6 DEF RemovalEnds, history
  <2>2. ForgetNothingNew
    <3>1. CASE removal.by = Callback
      BY <1>1, <2>1, <3>1 DEF Released
    <3>2. CASE removal.by # Callback
      <4>1. removal.by \in Streamer /\ "done" \in StreamPc
        BY <3>2 DEF Typed, StreamPc
      <4> QED BY <2>1, <3>2, <4>1, GoStreamTyped DEF Released, ForgetNothingNew, Forgetting,
                                                     Streams
    <3> QED BY <3>1, <3>2
  <2>3. ClientsAccounted'
    BY <2>1, SameClients DEF Late
  <2>4. EncodersAccounted'
    BY <2>1 DEF LeakInv, EncodersAccounted, Accounted
  <2>5. ForgetsClosed'
    BY <2>1, <2>2, SameForgets
  <2> QED BY <2>3, <2>4, <2>5 DEF LeakInv
<1> QED BY <1>2, <1>3, <1>4, <1>5, <1>6 DEF RemovalStep, InputStep

\* From the removal of a session on, every client still open and every encoder that
\* still runs was overwritten by another goroutine or stored after the removal had
\* passed (handler.go:501-524, 976-1057, 1220-1238): there is no third way to leak.
THEOREM OnlyLostOrLate == Spec => []NothingLeaks
<1>1. Init => LeakInv
  BY EmptySeq DEF Init, LeakInv, ClientsAccounted, EncodersAccounted, ForgetsClosed, Streams, Open,
                  Late, NoRemoval, None
<1>2. Typed /\ LeakInv /\ [Next]_vars => LeakInv'
  BY StreamLeaks, OthersLeak DEF Next
<1>3. Typed /\ LeakInv => NothingLeaks
  <2> SUFFICES ASSUME Typed, LeakInv, ~inMap PROVE NothingLeaks
    BY DEF NothingLeaks
  <2>1. \A c \in 1 .. Len(conn) : Open(c) => <<"client", c>> \in lost \cup late
    BY DEF LeakInv, ClientsAccounted, Accounted, Open, Late
  <2>2. \A t \in running : <<"encoder", t>> \in lost \cup late
    BY DEF LeakInv, EncodersAccounted, Accounted
  <2> QED BY <2>1, <2>2 DEF NothingLeaks
<1> QED BY <1>1, <1>2, <1>3, NilInductive, PTL DEF Spec
=============================================================================
