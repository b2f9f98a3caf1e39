------------------------------- MODULE Bridges -------------------------------
(***************************************************************************)
(* The two bridges that bring ffmpeg's H.264 stream to a WebRTC track:     *)
(* ContainerBridge in src/internal/bridge/container_bridge.go, whose       *)
(* ffmpeg is a Docker exec, and Bridge in src/internal/bridge/bridge.go,   *)
(* whose ffmpeg is a child process of the server.  kind says which of them *)
(* a behaviour is about.  Their fields, their readers and sendNAL are the  *)
(* same; how they start, stop and end is not.                              *)
(*                                                                         *)
(* A reader here gets whole NAL units: NALStreams models how they are cut  *)
(* out of the bytes.  Docker, ffmpeg and the track are external.           *)
(***************************************************************************)
EXTENDS Naturals, SequencesExt

CONSTANTS
  Starter,   \* bound: the calls of Start
  MaxStops,  \* bound: the calls of Stop by the owner of the bridge
  MaxSets    \* bound: the SPS, and the PPS, that ffmpeg delivers

None == "none"

ASSUME BridgeAssumption ==
  /\ None \notin Starter /\ Starter # {}
  /\ MaxStops \in Nat /\ MaxSets \in Nat

VARIABLES
  kind,     \* "container" or "local"
  bridge,   \* the fields running, stopCh (closed) and execID or cmd (exec)
  start,    \* where each call of Start is
  stops,    \* how often the owner has called Stop
  reader,   \* the goroutine of each Start: runExec or readAndSendNALs
  ffmpeg,   \* the exec or the process of each Start (external)
  newest,   \* history: the number of SPS and of PPS that sendNAL got
  cache,    \* the fields sps and pps: the number of the one kept, 0 for nil
  written,  \* the last three writes to the track
  late,     \* history: the reads that returned data after stopCh was closed
  panicked  \* the server has died of a second close of stopCh

control == <<bridge, start, stops, reader, ffmpeg, panicked>>
video == <<newest, cache, written, late>>
vars == <<kind, control, video>>

ParameterSet == {"sps", "pps"}
Unit == ParameterSet \cup {"idr", "slice"}
Sample == [unit: Unit \cup {"lost"}, number: 0 .. MaxSets]
Lost == [unit |-> "lost", number |-> 0]
Encoder == {"vaapi", "nvenc", "software"}
StartPc == {"idle", "probe", "command", "process", "spawned", "started", "refused",
            "failed"} \cup Encoder
ReaderPc == {"none", "begin", "check", "read", "send", "end", "close", "done"}

Starting(s) == start[s] \notin {"idle", "started", "refused", "failed"}
Reading(s) == reader[s].pc \notin {"none", "done"}
GoStart(s, where) == start' = [start EXCEPT ![s] = where]
GoRead(s, where) == reader' = [reader EXCEPT ![s].pc = where]

-----------------------------------------------------------------------------
(* sendNAL *)

\* The samples for a unit: an IDR picture has its parameter sets before it once
\* both are known.
Samples(unit, number) ==
  LET self == [unit |-> unit, number |-> number]
      kept == <<[unit |-> "sps", number |-> cache.sps], [unit |-> "pps", number |-> cache.pps]>>
  IN IF unit = "idr" /\ cache.sps # 0 /\ cache.pps # 0 THEN Append(kept, self) ELSE <<self>>

\* A write that fails ends sendNAL: the samples after it are not written.
Write(samples) ==
  \E k \in 0 .. Len(samples) :
    LET writes == written \o SubSeq(samples, 1, k)
                    \o IF k = Len(samples) THEN <<>> ELSE <<Lost>>
    IN written' = SubSeq(writes, Max({1, Len(writes) - 2}), Len(writes))

\* Mutant: the first parameter sets are kept for ever.
SendNALFirstSets(unit) ==
  IF unit \in ParameterSet
  THEN /\ newest[unit] < MaxSets
       /\ newest' = [newest EXCEPT ![unit] = @ + 1]
       /\ cache' = [cache EXCEPT ![unit] = Min({1, newest'[unit]})]
       /\ Write(Samples(unit, newest'[unit]))
  ELSE Write(Samples(unit, 0)) /\ UNCHANGED <<newest, cache>>

\* A parameter set is kept and goes on the track like any unit.  A unit of less
\* than five bytes is dropped: no step.
SendNAL(unit) ==
  IF unit \in ParameterSet
  THEN /\ newest[unit] < MaxSets
       /\ newest' = [newest EXCEPT ![unit] = @ + 1]
       /\ cache' = [cache EXCEPT ![unit] = newest'[unit]]
       /\ Write(Samples(unit, newest'[unit]))
  ELSE Write(Samples(unit, 0)) /\ UNCHANGED <<newest, cache>>

-----------------------------------------------------------------------------
(* Stop and the end of a reader *)

\* What becomes of ffmpegs that nobody reads any more.
Abandoned(execs) ==
  [s \in Starter |-> IF s \in execs /\ ffmpeg[s] = "running" THEN "unread" ELSE ffmpeg[s]]

\* What becomes of bridge and processes; killed are the processes Stop finds.  A
\* server that dies closes its ends of all pipes and connections.
StopWith(killed) ==
  IF ~bridge.running THEN UNCHANGED <<bridge, ffmpeg, panicked>>
  ELSE IF bridge.closed
       THEN panicked' = TRUE /\ ffmpeg' = Abandoned(Starter) /\ UNCHANGED bridge
  ELSE /\ bridge' = [bridge EXCEPT !.running = FALSE, !.closed = TRUE]
       /\ ffmpeg' = [s \in Starter |-> IF s \in killed THEN "reaped" ELSE ffmpeg[s]]
       /\ UNCHANGED panicked

\* The process of cmd, if there is one.  The container bridge kills nothing.
Process ==
  {s \in Starter : /\ kind = "local" /\ s = bridge.exec
                   /\ ffmpeg[s] \in {"running", "unread", "ended"}}

\* The owner calls Stop.  While cmd.Start has not returned to Start, Stop reads
\* cmd.Process in a data race with it and may or may not see the process.
Stop ==
  /\ stops < MaxStops
  /\ stops' = stops + 1
  /\ \/ StopWith(Process)
     \/ StopWith({s \in Process : start[s] # "spawned"})
  /\ UNCHANGED <<kind, start, reader, video>>

\* runExec returns: the body is closed, and the deferred function clears the flag.
ExecReaderEnds(s) ==
  /\ kind = "container" /\ reader[s].pc = "end"
  /\ GoRead(s, "done")
  /\ bridge' = [bridge EXCEPT !.running = FALSE]
  /\ ffmpeg' = Abandoned({reader[s].from})
  /\ UNCHANGED <<kind, start, stops, panicked, video>>

\* readAndSendNALs returns: first its deferred Stop, then stdout is closed.
LocalReaderStops(s) ==
  /\ kind = "local" /\ reader[s].pc = "end"
  /\ StopWith(Process)
  /\ GoRead(s, "close")
  /\ UNCHANGED <<kind, start, stops, video>>

\* Mutant: stdout is left open.
LocalReaderLeaves(s) ==
  /\ reader[s].pc = "close"
  /\ GoRead(s, "done")
  /\ UNCHANGED <<kind, bridge, start, stops, ffmpeg, panicked, video>>

LocalReaderCloses(s) ==
  /\ reader[s].pc = "close"
  /\ ffmpeg' = Abandoned({s})
  /\ GoRead(s, "done")
  /\ UNCHANGED <<kind, bridge, start, stops, panicked, video>>

-----------------------------------------------------------------------------
(* Start *)

\* Mutant: a running bridge is started again.
AcceptRunning(s) ==
  /\ start[s] = "idle"
  /\ bridge' = [bridge EXCEPT !.running = TRUE]
  /\ GoStart(s, IF kind = "container" THEN "probe" ELSE "command")
  /\ UNCHANGED <<kind, stops, reader, ffmpeg, panicked, video>>

\* The check of the flag and its setting, under the mutex.
Accept(s) ==
  /\ start[s] = "idle"
  /\ IF bridge.running
     THEN GoStart(s, "refused") /\ UNCHANGED bridge
     ELSE /\ bridge' = [bridge EXCEPT !.running = TRUE]
          /\ GoStart(s, IF kind = "container" THEN "probe" ELSE "command")
  /\ UNCHANGED <<kind, stops, reader, ffmpeg, panicked, video>>

\* checkGPUAvailability: whatever goes wrong means that there is no GPU.
Probe(s) ==
  /\ start[s] = "probe"
  /\ \E gpu \in BOOLEAN : GoStart(s, IF gpu THEN "vaapi" ELSE "software")
  /\ UNCHANGED <<kind, bridge, stops, reader, ffmpeg, panicked, video>>

\* startWithEncoder succeeds once the exec exists; a reader is to start it.
CreateExec(s) ==
  /\ start[s] \in Encoder
  /\ bridge' = [bridge EXCEPT !.exec = s]
  /\ ffmpeg' = [ffmpeg EXCEPT ![s] = "created"]
  /\ GoRead(s, "begin") /\ GoStart(s, "started")
  /\ UNCHANGED <<kind, stops, panicked, video>>

AfterEncoder(encoder) == IF encoder = "vaapi" THEN "nvenc" ELSE "software"

\* Mutant: the last error return leaves the flag.
CreateExecFailsFlagged(s) ==
  /\ start[s] \in Encoder
  /\ GoStart(s, IF start[s] = "software" THEN "failed" ELSE AfterEncoder(start[s]))
  /\ UNCHANGED <<kind, bridge, stops, reader, ffmpeg, panicked, video>>

\* startWithEncoder fails: the next encoder, or an error and no running bridge.
CreateExecFails(s) ==
  /\ start[s] \in Encoder
  /\ \/ /\ start[s] # "software"
        /\ GoStart(s, AfterEncoder(start[s])) /\ UNCHANGED bridge
     \/ /\ start[s] = "software"
        /\ GoStart(s, "failed") /\ bridge' = [bridge EXCEPT !.running = FALSE]
  /\ UNCHANGED <<kind, stops, reader, ffmpeg, panicked, video>>

\* The commands of the local bridge can always be made: the first encoder it
\* is.  cmd is written without the mutex.
Command(s) ==
  /\ start[s] = "command"
  /\ bridge' = [bridge EXCEPT !.exec = s]
  /\ GoStart(s, "process")
  /\ UNCHANGED <<kind, stops, reader, ffmpeg, panicked, video>>

\* No pipe or no process: an error, and the flag stays.
ProcessFails(s) ==
  /\ start[s] = "process"
  /\ GoStart(s, "failed")
  /\ UNCHANGED <<kind, bridge, stops, reader, ffmpeg, panicked, video>>

Spawn(s) ==
  /\ start[s] = "process"
  /\ ffmpeg' = [ffmpeg EXCEPT ![s] = "running"]
  /\ GoStart(s, "spawned")
  /\ UNCHANGED <<kind, bridge, stops, reader, panicked, video>>

StartReader(s) ==
  /\ start[s] = "spawned"
  /\ reader' = [reader EXCEPT ![s] = [pc |-> "check", from |-> s]]
  /\ GoStart(s, "started")
  /\ UNCHANGED <<kind, bridge, stops, ffmpeg, panicked, video>>

-----------------------------------------------------------------------------
(* Readers *)

\* runExec starts whatever exec the field names by then.  Docker starts an exec
\* only once; when the call fails or its reply is lost, the exec may run all the
\* same and runExec returns.
RunExec(s) ==
  LET e == bridge.exec IN
  /\ reader[s].pc = "begin"
  /\ \/ /\ ffmpeg[e] = "created"
        /\ ffmpeg' = [ffmpeg EXCEPT ![e] = "running"]
        /\ reader' = [reader EXCEPT ![s] = [pc |-> "check", from |-> e]]
     \/ /\ ffmpeg[e] = "created"
        /\ ffmpeg' = [ffmpeg EXCEPT ![e] = "unread"]
        /\ GoRead(s, "end")
     \/ GoRead(s, "end") /\ UNCHANGED ffmpeg
  /\ UNCHANGED <<kind, bridge, start, stops, panicked, video>>

\* The select at the top of the loop.
Check(s) ==
  /\ reader[s].pc = "check"
  /\ GoRead(s, IF bridge.closed THEN "end" ELSE "read")
  /\ UNCHANGED <<kind, bridge, start, stops, ffmpeg, panicked, video>>

\* A read returns data: what ffmpeg writes, or has written before it ended.
ReadReturns(s) ==
  /\ reader[s].pc = "read" /\ ffmpeg[reader[s].from] \in {"running", "ended"}
  /\ late' = late + (IF bridge.closed THEN 1 ELSE 0)
  /\ GoRead(s, "send")
  /\ UNCHANGED <<kind, bridge, start, stops, ffmpeg, panicked, newest, cache, written>>

\* The stream has ended, or the HTTP client's 30 s are over.
ReadFails(s) ==
  /\ reader[s].pc = "read"
  /\ kind = "container" \/ ffmpeg[s] \in {"ended", "reaped"}
  /\ GoRead(s, "end")
  /\ UNCHANGED <<kind, bridge, start, stops, ffmpeg, panicked, video>>

\* One more unit of what the read has brought.
SendUnit(s, unit) ==
  /\ reader[s].pc = "send"
  /\ SendNAL(unit)
  /\ UNCHANGED <<kind, control, late>>

AllSent(s) ==
  /\ reader[s].pc = "send"
  /\ GoRead(s, "check")
  /\ UNCHANGED <<kind, bridge, start, stops, ffmpeg, panicked, video>>

-----------------------------------------------------------------------------
(* ffmpeg (external) *)

\* Docker drains the output of an exec that nobody is attached to.
FfmpegDies(s) ==
  /\ ffmpeg[s] = "running" \/ (kind = "container" /\ ffmpeg[s] = "unread")
  /\ ffmpeg' = [ffmpeg EXCEPT ![s] = "ended"]
  /\ UNCHANGED <<kind, bridge, start, stops, reader, panicked, video>>

\* A child process fails to write to a pipe that is closed.
BrokenPipe(s) ==
  /\ kind = "local" /\ ffmpeg[s] = "unread"
  /\ ffmpeg' = [ffmpeg EXCEPT ![s] = "ended"]
  /\ UNCHANGED <<kind, bridge, start, stops, reader, panicked, video>>

-----------------------------------------------------------------------------
Init ==
  /\ kind \in {"container", "local"}
  /\ bridge = [running |-> FALSE, closed |-> FALSE, exec |-> None]
  /\ start = [s \in Starter |-> "idle"] /\ stops = 0
  /\ reader = [s \in Starter |-> [pc |-> "none", from |-> None]]
  /\ ffmpeg = [s \in Starter |-> "none"]
  /\ newest = [sps |-> 0, pps |-> 0] /\ cache = newest /\ written = <<>>
  /\ late = 0 /\ panicked = FALSE

\* What a call of Start and its reader do once they are under way.
Progress(s) ==
  \/ Probe(s) \/ CreateExec(s) \/ CreateExecFails(s)
  \/ Command(s) \/ ProcessFails(s) \/ Spawn(s) \/ StartReader(s)
  \/ RunExec(s) \/ Check(s) \/ ReadFails(s) \/ AllSent(s)
  \/ ExecReaderEnds(s) \/ LocalReaderStops(s) \/ LocalReaderCloses(s)

\* A dead server leaves only ffmpeg.
Next ==
  \/ ~panicked /\ Stop
  \/ \E s \in Starter :
       \/ /\ ~panicked
          /\ \/ Accept(s) \/ Progress(s) \/ ReadReturns(s)
             \/ \E unit \in Unit : SendUnit(s, unit)
       \/ FfmpegDies(s) \/ BrokenPipe(s)

Spec == Init /\ [][Next]_vars

\* Goroutines are scheduled, a blocked read of a container's stream fails after
\* 30 s, one of a dead process at once, and a child process whose pipe is closed
\* fails to write.  No fairness for what callers and ffmpeg do of themselves, and
\* none for an exec: nothing the code does ends one.
FairSpec ==
  Spec /\ \A s \in Starter : WF_vars(~panicked /\ Progress(s)) /\ WF_vars(BrokenPipe(s))
-----------------------------------------------------------------------------
(* Properties *)

\* A decoder can start at every IDR picture on the track: once the stream has had
\* both parameter sets, the newest of them directly precede it, whatever writes
\* fail (container_bridge.go:520-551, bridge.go:334-373).
ParametersFirst ==
  (written # <<>> /\ Last(written).unit = "idr" /\ newest.sps # 0 /\ newest.pps # 0) =>
    written = <<[unit |-> "sps", number |-> newest.sps],
                [unit |-> "pps", number |-> newest.pps],
                [unit |-> "idr", number |-> 0]>>

\* After Stop the track gets what at most one read has brought, of all the readers
\* that the bridge has had (container_bridge.go:432-440, bridge.go:255-263).
OneReadAfterStop == late <= 1

\* The running flag of a bridge is somebody's to clear: a Start that goes on or a
\* reader; no later Start is accepted while it is set (container_bridge.go:88-128,
\* 373-378, bridge.go:88-130, 240).  The one exception is a local Start that was
\* accepted and has returned an error (bridge.go:106-126) after writing the
\* bridge's command.  A refused Start excuses nothing.
RunningIsAttended ==
  bridge.running =>
    \/ \E s \in Starter : Starting(s) \/ Reading(s)
    \/ kind = "local" /\ bridge.exec \in Starter /\ start[bridge.exec] = "failed"

\* After Stop no ffmpeg of a local bridge encodes for long, also when Stop comes in
\* the middle of a Start, when a stopped bridge is started again, and when that
\* second life ends in the panic of a second close (bridge.go:239-240, 397-417).
StoppedEncodersEnd ==
  (kind = "local" /\ bridge.closed) ~>
    [](\A s \in Starter : ffmpeg[s] \notin {"running", "unread"})
=============================================================================
