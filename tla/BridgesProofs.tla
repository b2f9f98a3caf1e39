---------------------------- MODULE BridgesProofs ----------------------------
(***************************************************************************)
(* Theorems about Bridges, for every set of calls of Start, every number   *)
(* of stops and of parameter sets, and both kinds of bridge.               *)
(***************************************************************************)
EXTENDS Bridges, SequenceTheorems, TLAPS

-----------------------------------------------------------------------------
(* The inductive invariant of control: Start, Stop and the readers *)

FfmpegState == {"none", "created", "running", "unread", "ended", "reaped"}

ControlTyped ==
  /\ kind \in {"container", "local"}
  /\ bridge \in [running: BOOLEAN, closed: BOOLEAN, exec: Starter \cup {None}]
  /\ start \in [Starter -> StartPc]
  /\ reader \in [Starter -> [pc: ReaderPc, from: Starter \cup {None}]]
  /\ ffmpeg \in [Starter -> FfmpegState]
  /\ stops \in 0 .. MaxStops /\ late \in Nat /\ panicked \in BOOLEAN

\* The goroutine of a reader is the last thing a Start does, and the two kinds
\* of bridge start in different ways.
Begun ==
  \A s \in Starter :
    /\ reader[s].pc # "none" => start[s] = "started"
    /\ start[s] \in {"command", "process", "spawned"} => kind = "local"

Active(s) == Starting(s) \/ Reading(s)

\* Before the first Stop, the flag admits one Start or reader at a time.
OneActor ==
  ~bridge.closed =>
    \A s \in Starter : Active(s) =>
      bridge.running /\ \A other \in Starter : Active(other) => other = s

\* A reader on its way out, past its own Stop, clears the flag no more.
Attends(s) ==
  \/ Starting(s) \/ (Reading(s) /\ reader[s].pc # "close")
  \/ kind = "local" /\ start[s] = "failed"

\* A flag that is set has somebody: on the local bridge a Start that is about to
\* write the command, or the one that wrote it last.
LocalAttended ==
  \/ \E s \in Starter : start[s] = "command"
  \/ bridge.exec \in Starter /\ Attends(bridge.exec)

Attended ==
  ~panicked /\ bridge.running =>
    \/ kind = "container" /\ \E s \in Starter : Attends(s)
    \/ kind = "local" /\ LocalAttended

\* No read is late before the first Stop; when it comes, one reader at most is in
\* a read, and none begins a read later.
LateOnce ==
  /\ ~bridge.closed => late = 0
  /\ late <= 1
  /\ bridge.closed =>
       \A s \in Starter : reader[s].pc = "read" =>
         late = 0 /\ \A other \in Starter : reader[other].pc = "read" => other = s

ControlInv ==
  ControlTyped /\ Begun /\ OneActor /\ Attended /\ RunningIsAttended /\ LateOnce

-----------------------------------------------------------------------------
(* What the steps do to control *)

LEMMA AbandonedTyped ==
  ASSUME ControlTyped
  PROVE  \A execs : Abandoned(execs) \in [Starter -> FfmpegState]
BY DEF Abandoned, ControlTyped, FfmpegState

\* What Stop leaves: nothing has changed, the server has died, or the bridge is
\* stopped for good.
LEMMA StopEffect ==
  ASSUME ControlTyped, NEW killed, StopWith(killed)
  PROVE  /\ bridge' \in [running: BOOLEAN, closed: BOOLEAN, exec: Starter \cup {None}]
         /\ ffmpeg' \in [Starter -> FfmpegState]
         /\ panicked' \in BOOLEAN
         /\ \/ ~bridge.running /\ bridge' = bridge /\ panicked' = panicked
            \/ bridge.running /\ bridge.closed /\ bridge' = bridge /\ panicked'
            \/ /\ bridge.running /\ ~bridge.closed
               /\ ~bridge'.running /\ bridge'.closed /\ panicked' = panicked
<1>1. CASE ~bridge.running \/ bridge.closed
  BY <1>1, AbandonedTyped DEF StopWith, ControlTyped
<1>2. CASE bridge.running /\ ~bridge.closed
  <2>1. /\ bridge' = [bridge EXCEPT !.running = FALSE, !.closed = TRUE]
        /\ ffmpeg' = [s \in Starter |-> IF s \in killed THEN "reaped" ELSE ffmpeg[s]]
        /\ panicked' = panicked
    BY <1>2 DEF StopWith
  <2>2. ffmpeg' \in [Starter -> FfmpegState]
    BY <2>1 DEF ControlTyped, FfmpegState
  <2> QED BY <1>2, <2>1, <2>2 DEF ControlTyped
<1> QED BY <1>1, <1>2

LEMMA ControlTypedNext ==
  ASSUME ControlTyped, [Next]_vars
  PROVE  ControlTyped'
<1>1. CASE UNCHANGED vars
  BY <1>1 DEF ControlTyped, vars, control, video
<1>2. CASE Stop
  <2>1. \E killed \in SUBSET Starter : StopWith(killed)
    BY <1>2 DEF Stop, Process
  <2>2. stops' \in 0 .. MaxStops
    BY <1>2, BridgeAssumption DEF Stop, ControlTyped
  <2> QED BY <1>2, <2>1, <2>2, StopEffect DEF Stop, video, ControlTyped
<1>3. ASSUME NEW s \in Starter,
             \/ Accept(s) \/ Probe(s) \/ CreateExec(s) \/ CreateExecFails(s)
      PROVE  ControlTyped'
  <2>1. /\ start[s] \in StartPc
        /\ \A where \in StartPc : [start EXCEPT ![s] = where] \in [Starter -> StartPc]
        /\ \A where \in ReaderPc : [reader EXCEPT ![s].pc = where] \in
                                     [Starter -> [pc: ReaderPc, from: Starter \cup {None}]]
    BY DEF ControlTyped
  <2>2. CASE Accept(s)
    BY <2>1, <2>2 DEF Accept, GoStart, video, ControlTyped, StartPc
  <2>3. CASE Probe(s)
    BY <2>1, <2>3 DEF Probe, GoStart, video, ControlTyped, StartPc, Encoder
  <2>4. CASE CreateExec(s)
    BY <2>1, <2>4 DEF CreateExec, GoStart, GoRead, video, ControlTyped, StartPc, ReaderPc,
                      FfmpegState
  <2>5. CASE CreateExecFails(s)
    BY <2>1, <2>5 DEF CreateExecFails, AfterEncoder, GoStart, video, ControlTyped, StartPc,
                      Encoder
  <2> QED BY <1>3, <2>2, <2>3, <2>4, <2>5
<1>4. ASSUME NEW s \in Starter,
             Command(s) \/ ProcessFails(s) \/ Spawn(s) \/ StartReader(s)
      PROVE  ControlTyped'
  <2>1. \A where \in StartPc : [start EXCEPT ![s] = where] \in [Starter -> StartPc]
    BY DEF ControlTyped
  <2> QED BY <1>4, <2>1 DEF Command, ProcessFails, Spawn, StartReader, GoStart, video,
                 ControlTyped, StartPc, ReaderPc, FfmpegState
<1>5. ASSUME NEW s \in Starter,
             \/ RunExec(s) \/ Check(s) \/ ReadFails(s) \/ ReadReturns(s) \/ AllSent(s)
      PROVE  ControlTyped'
  <2>1. \A where \in ReaderPc : [reader EXCEPT ![s].pc = where] \in
                                  [Starter -> [pc: ReaderPc, from: Starter \cup {None}]]
    BY DEF ControlTyped
  <2>2. CASE RunExec(s)
    <3>1. bridge.exec \in Starter \cup {None}
      BY DEF ControlTyped
    <3> QED BY <2>1, <2>2, <3>1 DEF RunExec, GoRead, video, ControlTyped, ReaderPc, FfmpegState
  <2>3. CASE Check(s) \/ ReadFails(s) \/ ReadReturns(s) \/ AllSent(s)
    BY <2>1, <2>3 DEF Check, ReadFails, ReadReturns, AllSent, GoRead, video, ControlTyped,
                      ReaderPc
  <2> QED BY <1>5, <2>2, <2>3
<1>6. ASSUME NEW s \in Starter,
             ExecReaderEnds(s) \/ LocalReaderStops(s) \/ LocalReaderCloses(s)
      PROVE  ControlTyped'
  <2>1. \A where \in ReaderPc : [reader EXCEPT ![s].pc = where] \in
                                  [Starter -> [pc: ReaderPc, from: Starter \cup {None}]]
    BY DEF ControlTyped
  <2>2. CASE ExecReaderEnds(s)
    BY <2>1, <2>2, AbandonedTyped DEF ExecReaderEnds, GoRead, video, ControlTyped, ReaderPc
  <2>3. CASE LocalReaderStops(s)
    BY <2>1, <2>3, StopEffect DEF LocalReaderStops, GoRead, video, ControlTyped, ReaderPc
  <2>4. CASE LocalReaderCloses(s)
    BY <2>1, <2>4, AbandonedTyped DEF LocalReaderCloses, GoRead, video, ControlTyped, ReaderPc
  <2> QED BY <1>6, <2>2, <2>3, <2>4
<1>7. ASSUME NEW s \in Starter,
             FfmpegDies(s) \/ BrokenPipe(s) \/ \E unit \in Unit : SendUnit(s, unit)
      PROVE  ControlTyped'
  BY <1>7 DEF FfmpegDies, BrokenPipe, SendUnit, control, video, ControlTyped, FfmpegState
<1> QED BY <1>1, <1>2, <1>3, <1>4, <1>5, <1>6, <1>7 DEF Next, Progress

LEMMA BegunNext ==
  ASSUME ControlTyped, Begun, [Next]_vars
  PROVE  Begun'
<1>1. CASE UNCHANGED vars \/ Stop
  BY <1>1 DEF Begun, Stop, vars, control
<1>2. ASSUME NEW s \in Starter,
             \/ Accept(s) \/ Probe(s) \/ CreateExec(s) \/ CreateExecFails(s)
             \/ Command(s) \/ ProcessFails(s) \/ Spawn(s) \/ StartReader(s)
      PROVE  Begun'
  <2>1. kind' = kind /\ \A other \in Starter \ {s} :
          start'[other] = start[other] /\ reader'[other] = reader[other]
    BY <1>2 DEF Accept, Probe, CreateExec, CreateExecFails, Command, ProcessFails, Spawn,
                StartReader, GoStart, GoRead, ControlTyped
  <2>2. \/ start'[s] = "started"
        \/ /\ reader'[s] = reader[s] /\ start[s] # "started"
           /\ start'[s] \in {"command", "process", "spawned"} => kind = "local"
    BY <1>2 DEF Accept, Probe, CreateExec, CreateExecFails, Command, ProcessFails, Spawn,
                StartReader, GoStart, AfterEncoder, Encoder, ControlTyped, Begun
  <2> QED BY <2>1, <2>2 DEF Begun
<1>3. ASSUME NEW s \in Starter,
             \/ RunExec(s) \/ Check(s) \/ ReadFails(s) \/ ReadReturns(s) \/ AllSent(s)
             \/ ExecReaderEnds(s) \/ LocalReaderStops(s) \/ LocalReaderCloses(s)
      PROVE  Begun'
  <2>1. /\ kind' = kind /\ start' = start /\ reader[s].pc # "none"
        /\ \A other \in Starter \ {s} : reader'[other] = reader[other]
    BY <1>3 DEF RunExec, Check, ReadFails, ReadReturns, AllSent, ExecReaderEnds,
                LocalReaderStops, LocalReaderCloses, GoRead, ControlTyped
  <2> QED BY <2>1 DEF Begun
<1>4. ASSUME UNCHANGED <<kind, start, reader>>
      PROVE  Begun'
  BY <1>4 DEF Begun
<1> QED BY <1>1, <1>2, <1>3, <1>4 DEF Next, Progress, FfmpegDies, BrokenPipe, SendUnit, control

\* Where Start and its reader can be after a step of s: nobody else moves, and
\* without an accepted Start nobody becomes active.
LEMMA ActorMoves ==
  ASSUME ControlTyped, Begun, NEW s \in Starter,
         \/ Accept(s) \/ Progress(s) \/ ReadReturns(s) \/ FfmpegDies(s) \/ BrokenPipe(s)
         \/ \E unit \in Unit : SendUnit(s, unit)
  PROVE  /\ \A other \in Starter \ {s} :
              start'[other] = start[other] /\ reader'[other] = reader[other]
         /\ Active(s)' => Active(s) \/ (~bridge.running /\ bridge'.running)
         /\ bridge'.closed # bridge.closed => ~bridge.closed /\ LocalReaderStops(s)
         /\ bridge'.running # bridge.running =>
              \/ ~bridge.running /\ Accept(s) /\ Active(s)'
              \/ Active(s) /\ ~Active(s)'
              \/ LocalReaderStops(s) /\ bridge'.closed
<1>1. CASE Accept(s)
  <2>1. start[s] = "idle" /\ reader[s].pc = "none" /\ reader' = reader
    BY <1>1 DEF Accept, Begun
  <2>2. \A other \in Starter \ {s} : start'[other] = start[other]
    BY <1>1 DEF Accept, GoStart, ControlTyped
  <2>3. CASE bridge.running
    <3>1. bridge' = bridge /\ start'[s] = "refused"
      BY <1>1, <2>3 DEF Accept, GoStart, ControlTyped
    <3> QED BY <2>1, <2>2, <3>1 DEF Active, Starting, Reading
  <2>4. CASE ~bridge.running
    <3>1. /\ bridge' = [bridge EXCEPT !.running = TRUE]
          /\ start'[s] \in {"probe", "command"}
      BY <1>1, <2>4 DEF Accept, GoStart, ControlTyped
    <3>2. bridge'.running /\ bridge'.closed = bridge.closed /\ Active(s)'
      BY <3>1 DEF ControlTyped, Active, Starting
    <3> QED BY <1>1, <2>1, <2>2, <2>4, <3>2
  <2> QED BY <2>3, <2>4
<1>2. CASE \/ Probe(s) \/ CreateExec(s) \/ Command(s) \/ ProcessFails(s) \/ Spawn(s)
           \/ StartReader(s)
  <2>1. \A other \in Starter \ {s} : start'[other] = start[other] /\ reader'[other] = reader[other]
    BY <1>2 DEF Probe, CreateExec, Command, ProcessFails, Spawn, StartReader, GoStart, GoRead,
                ControlTyped
  <2>2. Active(s)
    BY <1>2 DEF Probe, CreateExec, Command, ProcessFails, Spawn, StartReader, Active, Starting,
                Encoder
  <2>3. bridge'.closed = bridge.closed /\ bridge'.running = bridge.running
    BY <1>2 DEF Probe, CreateExec, Command, ProcessFails, Spawn, StartReader, ControlTyped
  <2> QED BY <2>1, <2>2, <2>3
<1>3. CASE CreateExecFails(s)
  <2>1. /\ \A other \in Starter \ {s} : start'[other] = start[other]
        /\ reader' = reader /\ reader[s].pc = "none" /\ Active(s)
    BY <1>3 DEF CreateExecFails, GoStart, ControlTyped, Active, Starting, Encoder, Begun
  <2>2. \/ bridge' = bridge
        \/ /\ start'[s] = "failed"
           /\ bridge' = [bridge EXCEPT !.running = FALSE]
    BY <1>3 DEF CreateExecFails, GoStart, ControlTyped
  <2>3. bridge'.closed = bridge.closed /\ (bridge'.running # bridge.running => ~Active(s)')
    BY <2>1, <2>2 DEF ControlTyped, Active, Starting, Reading
  <2> QED BY <2>1, <2>3
<1>4. CASE \/ RunExec(s) \/ Check(s) \/ ReadFails(s) \/ ReadReturns(s) \/ AllSent(s)
           \/ LocalReaderCloses(s)
  BY <1>4 DEF RunExec, Check, ReadFails, ReadReturns, AllSent, LocalReaderCloses, GoRead,
              ControlTyped, Active, Reading
<1>5. CASE ExecReaderEnds(s)
  <2>1. /\ start' = start /\ start[s] = "started" /\ reader'[s].pc = "done" /\ Active(s)
        /\ \A other \in Starter \ {s} : reader'[other] = reader[other]
    BY <1>5 DEF ExecReaderEnds, GoRead, ControlTyped, Active, Reading, Begun
  <2>2. bridge' = [bridge EXCEPT !.running = FALSE]
    BY <1>5 DEF ExecReaderEnds
  <2>3. bridge'.closed = bridge.closed /\ ~Active(s)'
    BY <2>1, <2>2 DEF ControlTyped, Active, Starting, Reading
  <2> QED BY <2>1, <2>3
<1>6. CASE LocalReaderStops(s)
  <2>1. /\ start' = start /\ Active(s)
        /\ \A other \in Starter \ {s} : reader'[other] = reader[other]
    BY <1>6 DEF LocalReaderStops, GoRead, ControlTyped, Active, Reading
  <2>2. StopWith(Process)
    BY <1>6 DEF LocalReaderStops
  <2> QED BY <1>6, <2>1, <2>2, StopEffect
<1>7. CASE FfmpegDies(s) \/ BrokenPipe(s) \/ \E unit \in Unit : SendUnit(s, unit)
  BY <1>7 DEF FfmpegDies, BrokenPipe, SendUnit, control, Active, Starting, Reading
<1> QED BY <1>1, <1>2, <1>3, <1>4, <1>5, <1>6, <1>7 DEF Progress

LEMMA OneActorNext ==
  ASSUME ControlTyped, Begun, OneActor, [Next]_vars
  PROVE  OneActor'
<1> SUFFICES ASSUME ~bridge'.closed
             PROVE  \A s \in Starter : Active(s)' =>
                      bridge'.running /\ \A other \in Starter : Active(other)' => other = s
  BY DEF OneActor
<1>1. CASE UNCHANGED vars
  BY <1>1 DEF OneActor, Active, Starting, Reading, vars, control
<1>2. CASE Stop
  <2>1. \E killed \in SUBSET Starter : StopWith(killed)
    BY <1>2 DEF Stop, Process
  <2>2. bridge' = bridge /\ start' = start /\ reader' = reader
    BY <1>2, <2>1, StopEffect DEF Stop
  <2> QED BY <2>2 DEF OneActor, Active, Starting, Reading
<1>3. ASSUME NEW s \in Starter,
             \/ Accept(s) \/ Progress(s) \/ ReadReturns(s) \/ FfmpegDies(s) \/ BrokenPipe(s)
             \/ \E unit \in Unit : SendUnit(s, unit)
      PROVE  \A u \in Starter : Active(u)' =>
                bridge'.running /\ \A other \in Starter : Active(other)' => other = u
  <2>1. /\ \A other \in Starter \ {s} : Active(other)' <=> Active(other)
        /\ Active(s)' => Active(s) \/ (~bridge.running /\ bridge'.running)
        /\ ~bridge.closed
        /\ \/ bridge'.running = bridge.running
           \/ ~bridge.running /\ bridge'.running
           \/ Active(s) /\ ~Active(s)'
    <3>1. /\ {bridge.running, bridge.closed, bridge'.running, bridge'.closed} \subseteq BOOLEAN
          /\ bridge' \in [running: BOOLEAN, closed: BOOLEAN, exec: Starter \cup {None}]
      BY ControlTypedNext DEF ControlTyped
    <3>2. \A other \in Starter \ {s} : Active(other)' <=> Active(other)
      BY <1>3, ActorMoves DEF Active, Starting, Reading
    <3>3. bridge'.closed = bridge.closed
      BY <1>3, <3>1, ActorMoves
    <3>4. Active(s)' => Active(s) \/ (~bridge.running /\ bridge'.running)
      BY <1>3, ActorMoves
    <3>5. \/ bridge'.running = bridge.running
          \/ ~bridge.running /\ bridge'.running
          \/ Active(s) /\ ~Active(s)'
      <4>1. CASE bridge'.running = bridge.running
        BY <4>1
      <4>2. CASE bridge'.running # bridge.running
        <5>1. \/ ~bridge.running /\ Accept(s) /\ Active(s)'
              \/ Active(s) /\ ~Active(s)'
          BY <1>3, <4>2, ActorMoves
        <5> QED BY <3>1, <4>2, <5>1
      <4> QED BY <4>1, <4>2
    <3> QED BY <3>2, <3>3, <3>4, <3>5
  <2>2. \A u \in Starter : Active(u) =>
          bridge.running /\ \A other \in Starter : Active(other) => other = u
    BY <2>1 DEF OneActor
  <2> QED BY <2>1, <2>2
<1> QED BY <1>1, <1>2, <1>3 DEF Next

\* Whoever a set flag is somebody's to clear clears it or goes on.
LEMMA AttendsKept ==
  ASSUME ControlTyped, Begun, NEW s \in Starter,
         \/ Accept(s) \/ Progress(s) \/ ReadReturns(s) \/ FfmpegDies(s) \/ BrokenPipe(s)
         \/ \E unit \in Unit : SendUnit(s, unit),
         Attends(s), bridge'.running, ~panicked'
  PROVE  Attends(s)'
<1>1. CASE Accept(s)
  <2>1. reader[s].pc = "none" /\ start[s] = "idle"
    BY <1>1 DEF Accept, Begun
  <2> QED BY <2>1 DEF Attends, Starting, Reading
<1>2. CASE Probe(s) \/ Command(s) \/ ProcessFails(s) \/ Spawn(s)
  BY <1>2 DEF Probe, Command, ProcessFails, Spawn, GoStart, ControlTyped, Begun, Attends,
              Starting, Encoder
<1>3. CASE CreateExec(s) \/ StartReader(s)
  <2>1. reader'[s].pc \in {"begin", "check"}
    BY <1>3 DEF CreateExec, StartReader, GoRead, ControlTyped
  <2> QED BY <2>1 DEF Attends, Reading
<1>4. CASE CreateExecFails(s)
  <2>1. start[s] # "software"
    BY <1>4 DEF CreateExecFails, ControlTyped
  <2>2. start'[s] \in {"nvenc", "software"}
    BY <1>4, <2>1 DEF CreateExecFails, GoStart, AfterEncoder, ControlTyped
  <2> QED BY <2>2 DEF Attends, Starting
<1>5. CASE RunExec(s) \/ Check(s) \/ ReadFails(s) \/ ReadReturns(s) \/ AllSent(s)
  <2>1. reader'[s].pc \in {"check", "end", "read", "send"}
    BY <1>5 DEF RunExec, Check, ReadFails, ReadReturns, AllSent, GoRead, ControlTyped
  <2> QED BY <2>1 DEF Attends, Reading
<1>6. CASE ExecReaderEnds(s)
  BY <1>6 DEF ExecReaderEnds, ControlTyped
<1>7. CASE LocalReaderStops(s)
  <2>1. StopWith(Process)
    BY <1>7 DEF LocalReaderStops
  <2>2. ~bridge'.running
    BY <2>1, StopEffect
  <2> QED BY <2>2
<1>8. CASE LocalReaderCloses(s)
  <2>1. start[s] = "started" /\ reader[s].pc = "close"
    BY <1>8 DEF LocalReaderCloses, Begun
  <2> QED BY <2>1 DEF Attends, Starting
<1>9. CASE FfmpegDies(s) \/ BrokenPipe(s) \/ \E unit \in Unit : SendUnit(s, unit)
  BY <1>9 DEF FfmpegDies, BrokenPipe, SendUnit, control, Attends, Starting, Reading
<1> QED BY <1>1, <1>2, <1>3, <1>4, <1>5, <1>6, <1>7, <1>8, <1>9 DEF Progress

\* The command of a bridge changes hands only to one who attends.
LEMMA ExecMoves ==
  ASSUME ControlTyped, Begun, NEW s \in Starter,
         \/ Accept(s) \/ Progress(s) \/ ReadReturns(s) \/ FfmpegDies(s) \/ BrokenPipe(s)
         \/ \E unit \in Unit : SendUnit(s, unit)
  PROVE  /\ bridge'.exec = bridge.exec \/ (bridge'.exec = s /\ Attends(s)')
         /\ start[s] = "command" =>
              start'[s] = "command" \/ (bridge'.exec = s /\ Attends(s)')
<1>1. CASE CreateExec(s)
  <2>1. bridge'.exec = s /\ reader'[s].pc = "begin"
    BY <1>1 DEF CreateExec, GoRead, ControlTyped
  <2> QED BY <2>1 DEF Attends, Reading
<1>2. CASE Command(s)
  <2>1. bridge'.exec = s /\ start'[s] = "process"
    BY <1>2 DEF Command, GoStart, ControlTyped
  <2> QED BY <2>1 DEF Attends, Starting
<1>3. CASE \/ Accept(s) \/ Probe(s) \/ CreateExecFails(s) \/ ProcessFails(s) \/ Spawn(s)
           \/ StartReader(s)
  <2>1. start[s] # "command"
    BY <1>3 DEF Accept, Probe, CreateExecFails, ProcessFails, Spawn, StartReader, Encoder
  <2>2. bridge'.exec = bridge.exec
    BY <1>3 DEF Accept, Probe, CreateExecFails, ProcessFails, Spawn, StartReader, ControlTyped
  <2> QED BY <2>1, <2>2
<1>4. CASE \/ RunExec(s) \/ Check(s) \/ ReadFails(s) \/ ReadReturns(s) \/ AllSent(s)
           \/ ExecReaderEnds(s) \/ LocalReaderCloses(s) \/ FfmpegDies(s) \/ BrokenPipe(s)
           \/ \E unit \in Unit : SendUnit(s, unit)
  BY <1>4 DEF RunExec, Check, ReadFails, ReadReturns, AllSent, ExecReaderEnds,
     LocalReaderCloses, FfmpegDies, BrokenPipe, SendUnit, control, ControlTyped
<1>5. CASE LocalReaderStops(s)
  <2>1. StopWith(Process) /\ start' = start
    BY <1>5 DEF LocalReaderStops
  <2>2. bridge' = bridge \/ bridge' = [bridge EXCEPT !.running = FALSE, !.closed = TRUE]
    BY <2>1 DEF StopWith
  <2> QED BY <2>1, <2>2 DEF ControlTyped
<1> QED BY <1>1, <1>2, <1>3, <1>4, <1>5 DEF Progress

LEMMA LocalAttendedKept ==
  ASSUME ControlTyped, Begun, NEW s \in Starter,
         \/ Accept(s) \/ Progress(s) \/ ReadReturns(s) \/ FfmpegDies(s) \/ BrokenPipe(s)
         \/ \E unit \in Unit : SendUnit(s, unit),
         LocalAttended, kind' = kind, bridge'.running, ~panicked'
  PROVE  LocalAttended'
<1>1. \A other \in Starter \ {s} : start'[other] = start[other] /\ reader'[other] = reader[other]
  BY ActorMoves
<1>2. CASE \E u \in Starter : start[u] = "command"
  <2>1. PICK u \in Starter : start[u] = "command"
    BY <1>2
  <2>2. CASE u = s
    BY <2>1, <2>2, ExecMoves DEF LocalAttended
  <2>3. CASE u # s
    BY <1>1, <2>1, <2>3 DEF LocalAttended
  <2> QED BY <2>2, <2>3
<1>3. CASE bridge.exec \in Starter /\ Attends(bridge.exec)
  <2>1. CASE bridge'.exec = s /\ Attends(s)'
    BY <2>1 DEF LocalAttended
  <2>2. CASE bridge'.exec = bridge.exec /\ bridge.exec = s
    BY <1>3, <2>2, AttendsKept DEF LocalAttended
  <2>3. CASE bridge'.exec = bridge.exec /\ bridge.exec # s
    <3>1. Attends(bridge.exec)'
      BY <1>1, <1>3, <2>3 DEF Attends, Starting, Reading
    <3> QED BY <1>3, <2>3, <3>1 DEF LocalAttended
  <2> QED BY <2>1, <2>2, <2>3, ExecMoves
<1> QED BY <1>2, <1>3 DEF LocalAttended

LEMMA AttendedNext ==
  ASSUME ControlTyped, Begun, Attended, RunningIsAttended, [Next]_vars
  PROVE  Attended' /\ RunningIsAttended'
<1>1. ASSUME UNCHANGED <<kind, bridge, start, reader, panicked>>
      PROVE  Attended' /\ RunningIsAttended'
  BY <1>1 DEF Attended, LocalAttended, Attends, RunningIsAttended, Starting, Reading
<1>2. CASE Stop /\ ~panicked
  <2>1. \E killed \in SUBSET Starter : StopWith(killed)
    BY <1>2 DEF Stop, Process
  <2>2. \/ bridge' = bridge /\ (panicked' \/ ~panicked)
        \/ ~bridge'.running
    BY <1>2, <2>1, StopEffect
  <2>3. kind' = kind /\ start' = start /\ reader' = reader
    BY <1>2 DEF Stop
  <2>4. CASE ~bridge'.running
    BY <2>4 DEF Attended, RunningIsAttended
  <2>5. CASE bridge' = bridge
    BY <1>2, <2>3, <2>5 DEF Attended, LocalAttended, Attends, RunningIsAttended, Starting,
                            Reading
  <2> QED BY <2>2, <2>4, <2>5
<1>3. ASSUME ~panicked, NEW s \in Starter,
             \/ Accept(s) \/ Progress(s) \/ ReadReturns(s) \/ FfmpegDies(s) \/ BrokenPipe(s)
             \/ \E unit \in Unit : SendUnit(s, unit)
      PROVE  Attended' /\ RunningIsAttended'
  <2>1. \A other \in Starter \ {s} :
          start'[other] = start[other] /\ reader'[other] = reader[other]
    BY <1>3, ActorMoves
  <2>2. kind' = kind
    BY <1>3 DEF Accept, Progress, ReadReturns, FfmpegDies, SendUnit, Probe, CreateExec,
       CreateExecFails, Command, ProcessFails, Spawn, StartReader, RunExec, Check, ReadFails,
       AllSent, ExecReaderEnds, LocalReaderStops, LocalReaderCloses, BrokenPipe, control
  <2>3. ASSUME ~panicked', bridge'.running
        PROVE  \/ kind' = "container" /\ \E w \in Starter : Attends(w)'
               \/ kind' = "local" /\ LocalAttended'
    <3>1. CASE bridge.running
      <4>1. CASE kind = "container"
        <5>1. PICK w \in Starter : Attends(w)
          BY <1>3, <3>1, <4>1 DEF Attended
        <5>2. CASE w = s
          BY <1>3, <2>2, <2>3, <4>1, <5>1, <5>2, AttendsKept
        <5>3. CASE w # s
          BY <2>1, <2>2, <4>1, <5>1, <5>3 DEF Attends, Starting, Reading
        <5> QED BY <5>2, <5>3
      <4>2. CASE kind = "local"
        <5>1. LocalAttended
          BY <1>3, <3>1, <4>2 DEF Attended
        <5>2. LocalAttended'
          BY <1>3, <2>2, <2>3, <5>1, LocalAttendedKept
        <5> QED BY <2>2, <4>2, <5>2
      <4> QED BY <4>1, <4>2 DEF ControlTyped
    <3>2. CASE ~bridge.running
      <4>1. Accept(s)
        <5>1. ASSUME ~Accept(s) PROVE FALSE
          <6>1. ASSUME LocalReaderStops(s) PROVE FALSE
            BY <2>3, <3>2, <6>1, StopEffect DEF LocalReaderStops
          <6>2. bridge'.running = bridge.running \/ ~bridge'.running
            BY <1>3, <5>1, <6>1 DEF Progress, ReadReturns, FfmpegDies, SendUnit, control, Probe,
               CreateExec, CreateExecFails, Command, ProcessFails, Spawn, StartReader, RunExec,
               Check, ReadFails, AllSent, ExecReaderEnds, LocalReaderCloses, BrokenPipe,
               ControlTyped
          <6> QED BY <2>3, <3>2, <6>2
        <5> QED BY <5>1
      <4>2. start'[s] = IF kind = "container" THEN "probe" ELSE "command"
        BY <3>2, <4>1 DEF Accept, GoStart, ControlTyped
      <4> QED BY <2>2, <4>2 DEF Attends, Starting, LocalAttended, ControlTyped
    <3> QED BY <3>1, <3>2
  <2>4. Attended'
    BY <2>3 DEF Attended
  <2>5. CASE ~panicked'
    <3>1. CASE bridge'.running /\ kind' = "container" /\ \E w \in Starter : Attends(w)'
      BY <2>4, <3>1 DEF Attends, RunningIsAttended
    <3>2. CASE bridge'.running /\ kind' = "local" /\ LocalAttended'
      BY <2>4, <3>2 DEF LocalAttended, Attends, Starting, RunningIsAttended
    <3>3. CASE ~bridge'.running
      BY <2>4, <3>3 DEF RunningIsAttended
    <3> QED BY <2>3, <2>5, <3>1, <3>2, <3>3
  <2>6. CASE panicked'
    <3>1. LocalReaderStops(s)
      BY <1>3, <2>6 DEF Accept, Progress, ReadReturns, FfmpegDies, SendUnit, control, Probe,
         CreateExec, CreateExecFails, Command, ProcessFails, Spawn, StartReader, RunExec, Check,
         ReadFails, AllSent, ExecReaderEnds, LocalReaderCloses, BrokenPipe
    <3>2. Reading(s)'
      BY <3>1 DEF LocalReaderStops, GoRead, ControlTyped, Reading
    <3> QED BY <2>4, <3>2 DEF RunningIsAttended
  <2> QED BY <2>4, <2>5, <2>6
<1>4. ASSUME NEW s \in Starter, FfmpegDies(s) \/ BrokenPipe(s)
      PROVE  Attended' /\ RunningIsAttended'
  BY <1>1, <1>4 DEF FfmpegDies, BrokenPipe
<1> QED BY <1>1, <1>2, <1>3, <1>4 DEF Next, vars, control

LEMMA LateOnceNext ==
  ASSUME ControlTyped, OneActor, LateOnce, [Next]_vars
  PROVE  LateOnce'
<1>1. CASE UNCHANGED vars
  BY <1>1 DEF LateOnce, vars, control, video
<1>2. ASSUME NEW killed, StopWith(killed), UNCHANGED late,
             \A s \in Starter : reader'[s].pc = "read" => reader[s].pc = "read"
      PROVE  LateOnce'
  <2>1. ASSUME NEW s \in Starter, reader[s].pc = "read"
        PROVE  Active(s)
    BY <2>1 DEF Active, Reading
  <2>2. \/ bridge' = bridge
        \/ ~bridge.closed /\ bridge'.closed
    BY <1>2, StopEffect
  <2> QED BY <1>2, <2>1, <2>2 DEF LateOnce, OneActor
<1>3. CASE Stop
  <2>1. \E killed \in SUBSET Starter : StopWith(killed)
    BY <1>3 DEF Stop, Process
  <2> QED BY <1>2, <1>3, <2>1 DEF Stop, video
<1>4. ASSUME NEW s \in Starter, LocalReaderStops(s)
      PROVE  LateOnce'
  <2>1. \A other \in Starter : reader'[other].pc = "read" => reader[other].pc = "read"
    BY <1>4 DEF LocalReaderStops, GoRead, ControlTyped
  <2> QED BY <1>2, <1>4, <2>1 DEF LocalReaderStops, video
<1>5. ASSUME NEW s \in Starter, ReadReturns(s)
      PROVE  LateOnce'
  <2>1. /\ reader[s].pc = "read" /\ reader'[s].pc = "send" /\ bridge' = bridge
        /\ \A other \in Starter \ {s} : reader'[other] = reader[other]
        /\ late' = late + (IF bridge.closed THEN 1 ELSE 0)
    BY <1>5 DEF ReadReturns, GoRead, ControlTyped
  <2>2. CASE bridge.closed
    <3>1. late' = 1 /\ \A other \in Starter : reader'[other].pc # "read"
      BY <2>1, <2>2 DEF LateOnce
    <3> QED BY <2>1, <2>2, <3>1 DEF LateOnce
  <2>3. CASE ~bridge.closed
    <3>1. late' = 0
      BY <2>1, <2>3 DEF LateOnce
    <3> QED BY <2>1, <2>3, <3>1 DEF LateOnce
  <2> QED BY <2>2, <2>3
<1>6. ASSUME NEW s \in Starter, Check(s)
      PROVE  LateOnce'
  <2>1. /\ bridge' = bridge /\ late' = late
        /\ reader'[s].pc = IF bridge.closed THEN "end" ELSE "read"
        /\ \A other \in Starter \ {s} : reader'[other] = reader[other]
    BY <1>6 DEF Check, GoRead, video, ControlTyped
  <2> QED BY <2>1 DEF LateOnce
<1>7. ASSUME bridge'.closed = bridge.closed, late' = late,
             \A s \in Starter : reader'[s].pc = "read" => reader[s].pc = "read"
      PROVE  LateOnce'
  BY <1>7 DEF LateOnce
<1>8. ASSUME NEW s \in Starter,
             \/ Accept(s) \/ Probe(s) \/ CreateExec(s) \/ CreateExecFails(s)
             \/ Command(s) \/ ProcessFails(s) \/ Spawn(s) \/ StartReader(s)
      PROVE  LateOnce'
  <2>1. /\ bridge'.closed = bridge.closed /\ late' = late
        /\ \A other \in Starter : reader'[other].pc = "read" => reader[other].pc = "read"
    BY <1>8 DEF Accept, Probe, CreateExec, CreateExecFails, Command, ProcessFails, Spawn,
       StartReader, GoRead, video, ControlTyped
  <2> QED BY <1>7, <2>1
<1>9. ASSUME NEW s \in Starter,
             \/ RunExec(s) \/ ReadFails(s) \/ AllSent(s) \/ ExecReaderEnds(s)
             \/ LocalReaderCloses(s) \/ FfmpegDies(s) \/ BrokenPipe(s)
             \/ \E unit \in Unit : SendUnit(s, unit)
      PROVE  LateOnce'
  <2>1. /\ bridge'.closed = bridge.closed /\ late' = late
        /\ \A other \in Starter : reader'[other].pc = "read" => reader[other].pc = "read"
    BY <1>9 DEF RunExec, ReadFails, AllSent, ExecReaderEnds, LocalReaderCloses, FfmpegDies,
       BrokenPipe, SendUnit, GoRead, control, video, ControlTyped
  <2> QED BY <1>7, <2>1
<1> QED BY <1>1, <1>3, <1>4, <1>5, <1>6, <1>8, <1>9 DEF Next, Progress

-----------------------------------------------------------------------------
LEMMA ControlInvInit == Init => ControlInv
<1> SUFFICES ASSUME Init PROVE ControlInv
  OBVIOUS
<1>1. ControlTyped
  <2>1. bridge \in [running: BOOLEAN, closed: BOOLEAN, exec: Starter \cup {None}]
    BY DEF Init
  <2>2. reader \in [Starter -> [pc: ReaderPc, from: Starter \cup {None}]]
    BY DEF Init, ReaderPc
  <2>3. start \in [Starter -> StartPc] /\ ffmpeg \in [Starter -> FfmpegState]
    BY DEF Init, StartPc, FfmpegState
  <2>4. kind \in {"container", "local"} /\ panicked \in BOOLEAN
    BY DEF Init
  <2>5. stops \in 0 .. MaxStops /\ late \in Nat
    <3>1. stops = 0 /\ late = 0
      BY DEF Init
    <3> QED BY <3>1, BridgeAssumption
  <2> QED BY <2>1, <2>2, <2>3, <2>4, <2>5 DEF ControlTyped
<1>2. /\ \A s \in Starter : ~Active(s) /\ reader[s].pc = "none" /\ start[s] = "idle"
      /\ ~bridge.running /\ ~bridge.closed /\ late = 0
  BY DEF Init, Active, Starting, Reading
<1> QED BY <1>1, <1>2 DEF ControlInv, Begun, OneActor, Attended, RunningIsAttended, LateOnce

LEMMA ControlInvNext == ControlInv /\ [Next]_vars => ControlInv'
BY ControlTypedNext, BegunNext, OneActorNext, AttendedNext, LateOnceNext DEF ControlInv

LEMMA ControlInductive == Spec => []ControlInv
BY ControlInvInit, ControlInvNext, PTL DEF Spec

\* A set running flag of a container bridge always belongs to a Start or a reader
\* that is still at work; that of a local bridge does, or the Start that wrote the
\* bridge's command last was accepted and has returned an error (bridge.go:106-126).
\* This holds however Starts, Stops and readers interleave; that who is at work does
\* get to clear the flag is liveness and not proved.
THEOREM FlagIsAttended == Spec => []RunningIsAttended
<1>1. ControlInv => RunningIsAttended
  BY DEF ControlInv
<1> QED BY ControlInductive, <1>1, PTL

\* After the first Stop the track gets what at most one read has brought
\* (container_bridge.go:432-440, bridge.go:255-263), because the flag admits one
\* reader until then and a closed stopCh admits none.
THEOREM OneLateRead == Spec => []OneReadAfterStop
<1>1. ControlInv => OneReadAfterStop
  BY DEF ControlInv, LateOnce, OneReadAfterStop
<1> QED BY ControlInductive, <1>1, PTL

-----------------------------------------------------------------------------
(* The track: parameter sets before an IDR picture *)

VideoTyped ==
  /\ newest \in [ParameterSet -> 0 .. MaxSets]
  /\ cache = newest
  /\ written \in Seq(Sample)

VideoInv == VideoTyped /\ ParametersFirst

LEMMA MaxOfTwo ==
  ASSUME NEW n \in Nat
  PROVE  Max({1, n - 2}) = IF n >= 3 THEN n - 2 ELSE 1
<1> DEFINE m == IF n >= 3 THEN n - 2 ELSE 1
<1>1. m \in {1, n - 2} /\ \A y \in {1, n - 2} : m >= y
  OBVIOUS
<1>2. Max({1, n - 2}) \in {1, n - 2} /\ \A y \in {1, n - 2} : Max({1, n - 2}) >= y
  BY <1>1 DEF Max
<1> QED BY <1>1, <1>2

Recent(q) == SubSeq(q, Max({1, Len(q) - 2}), Len(q))

\* The last three elements of a sequence that is not empty.
LEMMA LastThree ==
  ASSUME NEW S, NEW q \in Seq(S), q # <<>>
  PROVE  /\ Recent(q) \in Seq(S) /\ Recent(q) # <<>>
         /\ Recent(q)[Len(Recent(q))] = q[Len(q)]
         /\ Len(q) >= 3 =>
              Len(Recent(q)) = 3 /\ \A i \in 1 .. 3 : Recent(q)[i] = q[Len(q) - 3 + i]
<1> DEFINE n == Len(q)
           from == IF n >= 3 THEN n - 2 ELSE 1
           w == Recent(q)
<1>1. n \in Nat \ {0} /\ from \in 1 .. n
  BY EmptySeq
<1>2. Max({1, n - 2}) = from
  BY <1>1, MaxOfTwo
<1>3. w = SubSeq(q, from, n)
  BY <1>2 DEF Recent
<1>4. \A i \in from .. n : q[i] \in S
  BY <1>1, ElementOfSeq
<1> HIDE DEF from, n, w
<1>5. /\ w \in Seq(S) /\ Len(w) = n - from + 1
      /\ \A i \in 1 .. n - from + 1 : w[i] = q[from + i - 1]
  <2>1. from \in Int /\ n \in Int /\ from <= n
    BY <1>1
  <2>2. /\ SubSeq(q, from, n) \in Seq(S)
        /\ Len(SubSeq(q, from, n)) = IF from <= n THEN n - from + 1 ELSE 0
        /\ \A i \in 1 .. n - from + 1 : SubSeq(q, from, n)[i] = q[from + i - 1]
    <3>1. SubSeq(q, from, n) \in Seq(S)
      BY <1>4, <2>1
    <3>2. Len(SubSeq(q, from, n)) = IF from <= n THEN n - from + 1 ELSE 0
      BY <2>1
    <3>3. \A i \in 1 .. n - from + 1 : SubSeq(q, from, n)[i] = q[from + i - 1]
      BY <2>1
    <3> QED BY <3>1, <3>2, <3>3
  <2> QED BY <1>3, <2>1, <2>2, Zenon
<1>6. w[Len(w)] = q[n] /\ w # <<>>
  <2>1. Len(w) \in 1 .. n - from + 1 /\ from + Len(w) - 1 = n
    BY <1>1, <1>5
  <2>2. w # <<>>
    BY <2>1, EmptySeq
  <2> QED BY <1>5, <2>1, <2>2
<1>7. ASSUME n >= 3
      PROVE  Len(w) = 3 /\ \A i \in 1 .. 3 : w[i] = q[n - 3 + i]
  <2>1. from = n - 2
    BY <1>7 DEF from
  <2>2. n - from + 1 = 3 /\ \A i \in 1 .. 3 : from + i - 1 = n - 3 + i
    BY <1>1, <2>1
  <2> QED BY <1>5, <2>2
<1> QED BY <1>5, <1>6, <1>7 DEF n, w

\* What a write leaves at the end of the track: a lost sample, or the samples.
LEMMA WriteEffect ==
  ASSUME written \in Seq(Sample), NEW samples \in Seq(Sample), samples # <<>>,
         Write(samples)
  PROVE  /\ written' \in Seq(Sample) /\ written' # <<>>
         /\ \/ Last(written') = Lost
            \/ /\ Last(written') = samples[Len(samples)]
               /\ Len(samples) = 3 => written' = samples
<1>1. PICK k \in 0 .. Len(samples) :
        LET writes == written \o SubSeq(samples, 1, k)
                        \o IF k = Len(samples) THEN <<>> ELSE <<Lost>>
        IN written' = Recent(writes)
  BY DEF Write, Recent
<1>2. Lost \in Sample
  BY BridgeAssumption DEF Lost, Sample
<1>3. SubSeq(samples, 1, k) \in Seq(Sample)
  OBVIOUS
<1>4. CASE k = Len(samples)
  <2> DEFINE writes == written \o samples
  <2>1. /\ writes \in Seq(Sample) /\ writes # <<>>
        /\ Len(writes) = Len(written) + Len(samples)
        /\ \A i \in 1 .. Len(samples) : writes[Len(written) + i] = samples[i]
    BY ConcatProperties, EmptySeq
  <2>2. SubSeq(samples, 1, k) = samples
    BY <1>4, SubSeqFull
  <2>3. written' = Recent(writes)
    <3>1. writes \o <<>> = writes
      BY <2>1, ConcatEmptySeq
    <3> QED BY <1>1, <1>4, <2>2, <3>1
  <2> HIDE DEF writes
  <2>4. /\ written' \in Seq(Sample) /\ written' # <<>>
        /\ written'[Len(written')] = writes[Len(writes)]
        /\ Len(writes) >= 3 =>
             Len(written') = 3 /\ \A i \in 1 .. 3 : written'[i] = writes[Len(writes) - 3 + i]
    BY <2>1, <2>3, LastThree
  <2>5. writes[Len(writes)] = samples[Len(samples)]
    BY <2>1
  <2>6. ASSUME Len(samples) = 3
        PROVE  written' = samples
    <3>1. Len(writes) >= 3 /\ Len(writes) - 3 = Len(written)
      BY <2>1, <2>6
    <3>2. \A i \in 1 .. 3 : written'[i] = samples[i]
      BY <2>1, <2>4, <2>6, <3>1
    <3> QED BY <2>4, <2>6, <3>1, <3>2
  <2> QED BY <2>4, <2>5, <2>6 DEF Last
<1>5. CASE k # Len(samples)
  <2> DEFINE writes == written \o SubSeq(samples, 1, k) \o <<Lost>>
  <2>1. writes \in Seq(Sample) /\ writes # <<>> /\ writes[Len(writes)] = Lost
    BY <1>2, <1>3
  <2>2. written' = Recent(writes)
    BY <1>1, <1>5
  <2> HIDE DEF writes
  <2>3. /\ written' \in Seq(Sample) /\ written' # <<>>
        /\ written'[Len(written')] = writes[Len(writes)]
    BY <2>1, <2>2, LastThree
  <2> QED BY <2>1, <2>3 DEF Last
<1> QED BY <1>4, <1>5

LEMMA SendNALKeeps ==
  ASSUME VideoInv, NEW unit \in Unit, SendNAL(unit)
  PROVE  VideoInv'
<1>1. MaxSets \in Nat /\ newest.sps \in 0 .. MaxSets /\ newest.pps \in 0 .. MaxSets
  BY BridgeAssumption DEF VideoInv, VideoTyped, ParameterSet
<1>2. CASE unit \in ParameterSet
  <2> DEFINE number == newest[unit] + 1
             self == [unit |-> unit, number |-> number]
  <2>1. /\ newest[unit] \in 0 .. MaxSets /\ newest[unit] < MaxSets
        /\ newest' = [newest EXCEPT ![unit] = @ + 1]
        /\ cache' = [cache EXCEPT ![unit] = newest'[unit]]
        /\ Write(Samples(unit, newest'[unit]))
    BY <1>2 DEF SendNAL, VideoInv, VideoTyped
  <2>2. newest'[unit] = number /\ number \in 0 .. MaxSets
    BY <1>1, <1>2, <2>1 DEF VideoInv, VideoTyped
  <2>3. newest' \in [ParameterSet -> 0 .. MaxSets] /\ cache' = newest'
    BY <1>2, <2>1, <2>2 DEF VideoInv, VideoTyped
  <2>4. Samples(unit, newest'[unit]) = <<self>> /\ <<self>> \in Seq(Sample) /\ unit # "idr"
    BY <1>2, <2>2 DEF Samples, ParameterSet, Sample, Unit
  <2> HIDE DEF self, number
  <2>5. /\ written' \in Seq(Sample)
        /\ Last(written') = Lost \/ Last(written') = self
    <3>1. <<self>> # <<>> /\ <<self>>[Len(<<self>>)] = self
      OBVIOUS
    <3> QED BY <2>1, <2>4, <3>1, WriteEffect DEF VideoInv, VideoTyped
  <2>6. Last(written').unit # "idr"
    BY <2>4, <2>5 DEF Lost, self
  <2> QED BY <2>3, <2>5, <2>6 DEF VideoInv, VideoTyped, ParametersFirst
<1>3. CASE unit \notin ParameterSet
  <2> DEFINE self == [unit |-> unit, number |-> 0]
             sps == [unit |-> "sps", number |-> newest.sps]
             pps == [unit |-> "pps", number |-> newest.pps]
  <2>1. Write(Samples(unit, 0)) /\ newest' = newest /\ cache' = cache
    BY <1>3 DEF SendNAL
  <2>2. {self, sps, pps} \subseteq Sample
    BY <1>1 DEF Sample, Unit, ParameterSet
  <2>3. CASE unit = "idr" /\ newest.sps # 0 /\ newest.pps # 0
    <3>1. Samples(unit, 0) = <<sps, pps, self>>
      <4>1. cache = newest
        BY DEF VideoInv, VideoTyped
      <4>2. Samples(unit, 0) = Append(<<sps, pps>>, self)
        BY <2>3, <4>1, Zenon DEF Samples
      <4> HIDE DEF self, sps, pps
      <4>3. Append(<<sps, pps>>, self) = <<sps, pps, self>>
        <5>1. <<sps, pps>> \in Seq(Sample) /\ <<sps, pps, self>> \in Seq(Sample)
          BY <2>2
        <5>2. /\ Append(<<sps, pps>>, self) \in Seq(Sample)
              /\ Len(Append(<<sps, pps>>, self)) = 3
              /\ \A i \in 1 .. 3 : Append(<<sps, pps>>, self)[i] = <<sps, pps, self>>[i]
          BY <2>2, <5>1
        <5> QED BY <5>1, <5>2, SeqEqual
      <4> QED BY <4>2, <4>3
    <3> HIDE DEF self, sps, pps
    <3>2. /\ <<sps, pps, self>> \in Seq(Sample) /\ <<sps, pps, self>> # <<>>
          /\ Len(<<sps, pps, self>>) = 3
      BY <2>2
    <3>3. /\ written' \in Seq(Sample)
          /\ Last(written') = Lost \/ written' = <<sps, pps, self>>
      BY <2>1, <3>1, <3>2, WriteEffect DEF VideoInv, VideoTyped
    <3>4. Last(written').unit = "idr" => written' = <<sps, pps, self>>
      BY <3>3 DEF Lost
    <3> QED BY <2>1, <2>3, <3>3, <3>4 DEF VideoInv, VideoTyped, ParametersFirst, self, sps, pps
  <2>4. CASE ~(unit = "idr" /\ newest.sps # 0 /\ newest.pps # 0)
    <3>1. Samples(unit, 0) = <<self>>
      BY <2>4 DEF Samples, VideoInv, VideoTyped
    <3>2. unit = "idr" => newest.sps = 0 \/ newest.pps = 0
      BY <2>4
    <3> HIDE DEF self
    <3>3. <<self>> \in Seq(Sample) /\ <<self>> # <<>> /\ <<self>>[Len(<<self>>)] = self
      BY <2>2
    <3>4. /\ written' \in Seq(Sample)
          /\ Last(written') = Lost \/ Last(written') = self
      BY <2>1, <3>1, <3>3, WriteEffect DEF VideoInv, VideoTyped
    <3>5. Last(written').unit = "idr" => unit = "idr"
      BY <3>4 DEF Lost, self
    <3> QED BY <2>1, <3>2, <3>4, <3>5 DEF VideoInv, VideoTyped, ParametersFirst
  <2> QED BY <2>3, <2>4
<1> QED BY <1>2, <1>3

LEMMA VideoInvNext == VideoInv /\ [Next]_vars => VideoInv'
<1> SUFFICES ASSUME VideoInv, [Next]_vars PROVE VideoInv'
  OBVIOUS
<1>1. ASSUME UNCHANGED <<newest, cache, written>>
      PROVE  VideoInv'
  BY <1>1 DEF VideoInv, VideoTyped, ParametersFirst
<1>2. ASSUME NEW s \in Starter, NEW unit \in Unit, SendUnit(s, unit)
      PROVE  VideoInv'
  BY <1>2, SendNALKeeps DEF SendUnit
<1>3. ASSUME NEW s \in Starter,
             \/ Accept(s) \/ Progress(s) \/ ReadReturns(s) \/ FfmpegDies(s) \/ BrokenPipe(s)
      PROVE  UNCHANGED <<newest, cache, written>>
  BY <1>3 DEF Accept, Progress, ReadReturns, FfmpegDies, Probe, CreateExec, CreateExecFails,
     Command, ProcessFails, Spawn, StartReader, RunExec, Check, ReadFails, AllSent,
     ExecReaderEnds, LocalReaderStops, LocalReaderCloses, BrokenPipe, video
<1> QED BY <1>1, <1>2, <1>3 DEF Next, Stop, vars, video

\* Once the stream has had both parameter sets, an IDR picture that reaches the
\* track comes directly after the newest of them, whatever readers interleave and
\* whatever writes fail (container_bridge.go:520-551, bridge.go:334-373).
THEOREM PicturesHaveParameters == Spec => []ParametersFirst
<1>1. Init => VideoInv
  <2> SUFFICES ASSUME Init PROVE VideoInv
    OBVIOUS
  <2>1. newest = [sps |-> 0, pps |-> 0] /\ cache = newest /\ written = <<>>
    BY DEF Init
  <2>2. newest \in [ParameterSet -> 0 .. MaxSets]
    BY <2>1, BridgeAssumption DEF ParameterSet
  <2> QED BY <2>1, <2>2 DEF VideoInv, VideoTyped, ParametersFirst
<1>2. VideoInv => ParametersFirst
  BY DEF VideoInv
<1> QED BY <1>1, <1>2, VideoInvNext, PTL DEF Spec
=============================================================================
