# Aether Droid backend: TLA+ models and proofs

This directory holds formal models of the Go backend that runs Android emulators
in Docker containers and streams their screens over WebRTC. It contains TLA+
modules translated from the source, TLC configurations that check them on small
instances, and theorems that TLAPS proves for every instance.

Contents: [the system](#the-system), [plan](#plan),
[ContainerManager](#containermanager), [PortPool and
PortOwnership](#portpool-and-portownership), [Requests](#requests),
[WebRTCSessions](#webrtcsessions), [SessionResources](#sessionresources),
[Bridges](#bridges), [NALStreams](#nalstreams), [H264Encoder](#h264encoder),
[runs](#runs), [proofs](#proofs), [where code and comments
differ](#where-code-and-comments-differ), [not modelled](#not-modelled).

How to check: `tlc -config <run>.cfg <MC module>.tla` for every run of the table
below, and `tlapm` on each of `ContainerManagerProofs`, `PortOwnershipProofs`,
`RequestsProofs`, `WebRTCSessionsProofs`, `SessionResourcesProofs`, `BridgesProofs`,
`NALStreamsProofs` and `H264EncoderProofs`.

## The system

One server process. Every HTTP request, every state callback of a peer
connection and every stream runs in a goroutine of its own.

| component | state | operations | talks to |
|---|---|---|---|
| port pool, `container/docker.go` 34-70 | `usedPorts`, mutex | `Allocate`, `Release`, reservations in `syncContainers` | container manager |
| container manager, `container/docker.go` | `containers` map, RWMutex | `NewManager`, create, start, stop, delete, get, list, address | Docker over HTTP (30 s timeout), MongoDB |
| Docker daemon (external) | containers, their state and bound ports | create, start, stop, remove, list, exec | emulators |
| MongoDB service, `database/database.go` | `emulators` collection | insert, update status, delete, find | - |
| HTTP handlers, `api/handler.go` 1-440 | none | decoding, ownership look-up, call of the manager | manager |
| WebRTC sessions, `api/handler.go` 442-816 | `sessions` map, mutex; fields of a session without a lock | offer, `addSession`, `removeSession`, connection state callback | pion/webrtc, container bridge, manager |
| touch and key input, `api/handler.go` 818-974 | `emulatorClient` of the session, no lock | one goroutine per data channel message | emulator over gRPC |
| legacy streaming, `api/handler.go` 976-1238 | `emulatorClient`, `encoder`, `broadcaster` of the session, no lock | `startStreaming`, `streamingLoop`, `restartEmulatorConnection`, `sendTestFrames` | emulator, H.264 encoder |
| container bridge, `bridge/container_bridge.go` | `running`, `stopCh`, `execID`, SPS/PPS | `Start`, `startWithEncoder`, `runExec`, `processH264Stream`, `sendNAL`, `Stop` | Docker exec, WebRTC track |
| local bridge, `bridge/bridge.go` (not called by the server) | `running`, the ffmpeg process, SPS/PPS | `Start`, `readAndSendNALs`, `Stop` | ffmpeg, WebRTC track |
| H.264 encoder, `emulator/h264_encoder.go` | ffmpeg process, queue of 20 chunks, `busy` | `Encode`, `EncodeWithNALs`, reader goroutine, `Close` | ffmpeg |
| emulator client, frames, broadcaster, VPX, `emulator/` | a gRPC connection | `GetFrame`, input | emulator |
| router, middleware, config, images, models | none | - | - |
| start-up, `cmd/server/main.go` | none | connects MongoDB (fatal if it fails), then the manager (a failure is logged) | all |

What is hard here:

* *Interleavings.* The manager holds its mutex for single reads and writes of the
  map and never during a call of the daemon or the database. So every request is
  a sequence of steps that other requests may come between. The fields of a
  WebRTC session have no lock at all.
* *Failure.* Every call of the daemon can fail before or after its execution, and
  its error returns have to give back what has been taken so far. Database errors
  are logged only.
* *Restart.* The map and the pool are rebuilt from a listing of Docker.
* *Late events.* pion runs each state callback as a goroutine of its own; a
  callback names its session by container id and may run when that id has
  another session. A stream can end at any time.
* *Bounded queues.* ffmpeg, the encoder's reader and its callers wait for each
  other unless the queue between them drops what it cannot hold.
* *Byte boundaries.* NAL units are cut out of reads of any size.

What makes each part correct:

* pool and manager: a port has one owner; what is owned is reserved and what is
  reserved is owned; a container is known to the map as long as the daemon has
  it; the status of a container at rest is the daemon's and the database's;
  transient statuses are left, or the client is told of the failure;
* sessions: the map has answered sessions under their own ids; an open connection
  is in the map, or it could not be closed; a
  session ends for reasons of its own; a failed one is removed; its loops end
  after it; its bridge is closed once, has one reader and can be stopped;
* HTTP API: what a reply says is so, an address leads to a running container, and
  every request is answered;
* resources of a session: what it has opened is closed by whoever ends it, and
  nobody calls a client that is not there;
* bridges: IDR pictures follow their parameter sets, a bridge that is marked as
  running has a Start or a reader at work, and no local ffmpeg outlives `Stop`;
* encoder: callers get the stream in order, with gaps only; no call waits for
  ever, and neither does `Close`, which the session manager calls under its lock;
* NAL readers: the units are those of the byte stream format, however the stream
  is split, and a reset does no further harm.

PROJECT.json lists the hazards one by one, at their lines.

## Plan

Done, in this order:

1. `ContainerManager`: pool, manager, daemon and database. The centre of the
   system, with the most state and the most ways to fail.
2. `WebRTCSessions`: the sessions with their callbacks, the life cycle of the
   bridge and the loops. It composes handler and bridge, because the hazards are
   between the two.
3. `NALStreams`: the two Annex B readers against one reference definition.
4. `H264Encoder`: the encoder shared by loops, with its queue, its per-chunk parser
   and its end.
5. `PortPool`, an abstract specification of the pool, and `PortOwnership`, the
   mapping under which `ContainerManager` implements it.
6. `Requests`: the container handlers, composed with `ContainerManager`.
7. `SessionResources`: the emulator client and the encoder of a session, shared
   by input goroutines, streaming and `removeSession` without a lock.
8. `Bridges`: both bridges step by step, with the chain of encoders, the
   processes and `sendNAL` with its cached parameter sets.

Proved: every invariant and every action property of the passing runs, the refinement
of `PortPool`, and that `Requests` uses the manager as `ContainerManager` says.

Left: liveness, which TLAPS does not treat. The eight liveness properties stay with
the runs.

## ContainerManager

| variable | code |
|---|---|
| `usedPorts` | `PortAllocator.usedPorts` |
| `containers` | `Manager.containers`: status, gRPC and ADB port of every id, `"absent"` if there is no entry, port 0 if there is none |
| `docker` | the daemon's containers (external) |
| `db` | the status in the `emulators` collection (external) |
| `request` | for every goroutine: operation, program counter, container id, allocated ports, `force` |
| `released`, `restarts` | history only: entries whose ports have been given back; restarts so far |

Actions and code:

* create: `AllocateGRPC`, `AllocateADB`, `CreateInDocker`, `StartInDocker`,
  `Cleanup`, `ReleasePorts`, `InsertInDb`, `StoreInMap` (docker.go:347-580);
* start and stop, which differ in two statuses only: `BeginChange`, `Mark`,
  `ChangeInDocker`, `Settle`, `Record` (docker.go:617-691);
* delete: `BeginDelete`, `MarkRemoving`, `ReleaseEntry`, `RemoveInDocker`,
  `Forget`, `DeleteFromDb` (docker.go:709-748);
* surroundings: `SelfExit`, `LateCall`, `Restart` (crash, then `NewManager` and
  `syncContainers`).

One step is one critical section, one call of the daemon or one call of the
database. Two releases of a container's ports in a row are one step: whoever
allocates between the two sees one free port less, which is also what it sees
before both. A call of the daemon has one of the replies the code tells apart:
success; an error status; a transport error before the execution
(`unreachable`) or after it (`lost_reply`); a body that does not decode. With `late`, a
call whose client has given up stays with the daemon: the request sees an error, and
`LateCall` may carry the call out at any later time, or never. A crash of the server
does the same to the calls under way (`AfterCrash`): a stop in its grace period is
finished by the daemon after the next process has listed the containers. `moved` is
history: the container has changed by itself or by such a call since the manager last
heard of it.
`DockerFaults` says which of them may happen beyond what the daemon's own rules
lead to (a start fails when a port is bound by another running container, a
removal of a running container without force fails).

`Hazards` switches the surroundings: overlapping requests for one container,
repeated deletes, deletes without force, emulators that exit, failing writes,
restarts and failing listings. The properties differ in which of them they
survive. `ManagerPorts` has overlapping requests, emulators that exit and failing
writes; `ManagerFaults` has restarts, failing listings, deletes without force, creates
and stops that come late or never and removals that do not reach the daemon:

* Overlapping requests for one container: a stop and a start, each of which has
  had its reply, can write their final statuses in the other order, and a stop between
  `InsertInDb` and `StoreInMap` finds no entry, so that the create then stores
  "running"; `StatusFaithful` is checked without overlap. A delete at that place is
  undone by the create, which brings the removed container back into the map: no
  property claims that it does not.
* Repeated deletes: the entry keeps its port numbers when its ports are given
  back. A second delete, after a failed first one, gives the same numbers back
  again, and they may be somebody else's by then. `ExclusivePorts` and the
  theorems are stated for clients that do not delete again.
* Deletes without force: the status of the daemon's reply is not looked at, so a
  running container is forgotten but runs on. `NoOrphans` is stated without them.
* Lost replies of a create, and replies that do not decode: the container exists
  and nobody knows of it; in the second case its ports stay reserved as well.
* A restart forgets the requests that were under way, so a document may keep the
  status from before the last call, and the listing gives no port for a stopped
  container: when it is started again its entry still has port 0, and its
  address is `localhost:0`. `DatabaseFollowsMap` and `AddressReachable` are stated
  up to the first restart, the other properties of `ManagerFaults` beyond it. A
  container started when the server crashed is in the next map and in no list.
* Emulators that exit by themselves and calls that are carried out late: nothing tells
  the map. `StatusFaithful` and `AddressReachable` except a container that has `moved`.
* Calls of the daemon that fail: the entry keeps its transient status until another
  request for it. `TransientStatusSettles` (of `Requests`) asks that the client is told.
* No database: the same as failing writes, for the code logs and goes on.

Left out: the statuses `paused`, `restarting`, `dead` of Docker and `error` of the
map; names, images, labels, resources, IP addresses; two requests racing
within one critical section.

## PortPool and PortOwnership

`PortPool` says what the callers of the allocator may rely on, without a map, a
daemon or requests: a port has one holder or none; a new holder gets the lowest
free port; all that a holder has is given back, lost, or passed to a holder that
had nothing. `epoch` counts restarts, which find out anew who holds what.

`PortOwnership` maps the manager to it. A create holds the ports in its request, an
entry of the map those of its container until they have been given back, and a
used port that neither has is lost. `StoreInMap` is then the only step that passes
ports on, and a second release of the same ports would be a step that takes them
from somebody else. `ImplementsPortPool` is checked in the run `ManagerPorts`. Ports
that get lost (a create whose reply does not decode) are not part of that
run's faults, so that there every used port has a holder at all times.

## Requests

`Requests` extends `ContainerManager` and runs its steps inside of handlers.

| variable | code |
|---|---|
| `http` | for every request goroutine: none, between the two look-ups of `GetContainer`, or inside of a manager call; its operation, id and user |
| `reply` | the reply just sent, seen by the client before the next request comes |
| `owner` | `UserID` of the containers |
| `available` | whether main.go has a container manager (it serves 503 without one) |

`LocalReplies` is what middleware, router and handlers answer without the manager
(router.go, middleware.go, main.go): a preflight, health and images, an empty container
id, a missing user, a method there is not, no manager. Which request gets which is
left out, for nothing follows from it. `Rejected` and `Malformed` send those replies,
`List`, `Create` and `Start` go to database or manager at once, and `LookUp` and
`LookUpInDb` are the two halves of `Manager.GetContainer`: the read of the map, then
the query. In between, any step of other requests may come. `Found` is what each
handler does next: ownership, then `Get`, `Connect`, `Stop` or `Delete`. `Work` is a step
of the manager, and with the last one the handler replies. `Start` has no look-up
and no ownership check in the code.

Changing requests for one container wait for each other here (`Occupied`): what goes
wrong without that is what `ContainerManager` describes under `overlap`. Reading ones
do not wait. `AddressesLive` therefore excepts a container that is being stopped or
deleted at the same moment. A create whose reply does not decode, deletes without
force, repeated deletes and what the daemon itself refuses are included in the run;
emulators that exit and restarts are not, for `RepliesTrue` says what is so at the moment
of the reply. The theorems cover lost calls as well, but for those named there.

Left out: bodies, headers, logging and the signature of tokens; `error` returns of
queries.

## WebRTCSessions

| variable | code |
|---|---|
| `sessions` | `WebRTCSessionManager.sessions`: container id to session |
| `session` | the `WebRTCSession` values: how far their offer is, their id, their `containerBridge`, whether they have a gRPC port |
| `pc` | state of the peer connection (external) |
| `callbacks` | Failed and Closed callbacks that have not run yet |
| `task` | one goroutine per Connected event: the callback, the start of the bridge, streaming |
| `bridge` | the `ContainerBridge` each of these creates: `running`, `stopCh` closed, readers |

Actions: `Offer`, `NegotiationFails`, `AddSession` (`handleOffer`), `LostCallback`,
`ConnectedCallback` (the callback at handler.go:741-790), `Assign`, `StartBridge`,
`StartEncoder`, `ReaderEnds` (the goroutine at handler.go:756-781 and
`ContainerBridge`), `StartStreaming`, `StreamingPanics`, `StreamingLoop`,
`StreamingGivesUp`, `TestFrames`; `Connect`, `Disconnect`, `Fail` are pion's. `RemoveSession` is a
helper that callbacks and loops use: it closes the connection, which causes a
Closed callback, and stops the bridge, as one step, for the code holds the
mutex of the session manager all the while.

The id `DefaultKey` is the empty string of offers without a container. They all
share one entry of the map, and have no gRPC port and no bridge. Without a port, as a
container found by a restart may be, a session falls back to test frames (`Fallback`).
`Reoffer` and
`Reconnect` say whether an id is offered more than once and whether an
interrupted connection may recover. `Task` bounds how often connections become
connected.

With `Reoffer`, an offer overwrites the entry of its id: the older session can no
longer be reached, its late callback removes the newer one, and its loops take the
newer session for their own (run `SessionOldLoop`). `OpenIsInMap`,
`RemovedForOwnReason` and `LoneLoopsEnd` are therefore about sessions that are
`Alone` under their id, with other sessions on other ids beside them, and all run
with re-offers. `StopClosesOnce`, `StoppableStream` and `FailedSessionsGo` hold for
all sessions.

## SessionResources

One session and all goroutines that touch its `emulatorClient` and `encoder`.

| variable | code |
|---|---|
| `client`, `conn` | `emulatorClient`; the clients made so far, open or closed |
| `encoder`, `running` | `encoder`; the encoders whose ffmpeg runs |
| `inMap`, `removal` | the entry in the session manager; the `removeSession` under way, with its mutex |
| `input` | the goroutine of each data channel message |
| `streamer`, `frame` | `startStreaming` and `streamingLoop`; the goroutine of `getFrameWithTimeout` |
| `finger` | what the emulator sees (external) |
| `lost`, `late`, `restarted`, `panicked` | history, and the end of the server |

The code reads `emulatorClient` once to compare it with nil and again to call it.
These are two steps here, and so are the close and the assignment of nil in
`restartEmulatorConnection`. Actions: `Message`, `Look`, `DialForInput`,
`DialForInputFails`, `TouchDown`, `PressReturns`, `LiftBegins`, `LiftReturns`, `Press`
(handler.go:818-974);
`StartStreaming`, `ConnectStream`, `FirstFrame`, `NewEncoder`, `SetUpFails`
(976-1057); `Tick`, `FrameArrives`, `FrameFails`, `FrameTimesOut`, `CountError`,
`LoopEnds` (1059-1218); `RestartLooks`, `RestartCloses`, `RestartForgets`, `Redial`,
`RedialFails` (1220-1238); `RemovalLooks`, `RemovalClosesClient`, `RemovalEnds`
(501-524). A call on a nil client is `NilClient`: the server dies, unless it is
`startStreaming` itself, which recovers.

What holds in spite of the missing lock: without a restart nobody calls a nil
client (`NilOnlyByRestart`); what stays open after the end of a session was overwritten by
another goroutine or stored when the removal had passed (`NothingLeaks`, with
`lost` and `late`); a finger whose touch-down has succeeded is lifted, unless the call
that lifts it fails or hangs (`FingerLifts`). What does not: a touch-down that has had
its effect and returns an error is never lifted, for the code returns (847-849); two input messages
that both find nil each make a client and one of them is never closed; a removal
while `startStreaming` connects leaves its client and encoder; after a restart a
call on nil ends the server.

Left out: keydown and keyup messages are goroutines of their own, so they can
arrive in the other order; frames and their encoding (`H264Encoder`); pacing.

## Bridges

`kind` says whether a behaviour is about `ContainerBridge` or `Bridge`.

| variable | code |
|---|---|
| `bridge` | `running`; `stopCh` closed; `execID` or `cmd` |
| `start` | where each call of `Start` is: probe, encoder, command, process |
| `reader` | `runExec` with `processH264Stream`, or `readAndSendNALs` |
| `ffmpeg` | the exec or process of each Start (external): created, running, unread (nobody reads from it any more), ended, reaped |
| `cache`, `newest` | `sps` and `pps`; how many have come (history) |
| `written` | the last three samples on the track |
| `stops`, `late`, `panicked` | calls of `Stop`; reads after it; the end of the server |

Actions: `Accept`, `Probe`, `CreateExec`, `CreateExecFails`
(container_bridge.go:86-262), `RunExec`, `Check`, `ReadReturns`, `ReadFails`,
`SendUnit`, `AllSent`, `ExecReaderEnds`, `Stop`; for the local bridge `Command`,
`ProcessFails`, `Spawn`, `StartReader`, `LocalReaderStops`, `LocalReaderCloses`
(bridge.go:68-417). `SendNAL` writes the cached sets before an IDR picture and gives
up at the first write that fails. `FfmpegDies` and `BrokenPipe` are ffmpeg's. A local
ffmpeg that nobody reads from fails at its next write (`BrokenPipe`). An exec does not:
Docker drains its output, so it runs on until it dies of itself. `RunExec` includes the
exec that Docker starts though the call fails or its reply is lost: it runs unread.

`Stop` of the local bridge reads `cmd.Process` while `Start` may be writing it: the model
lets it see the process or not. A second `Start` after `Stop` finds the closed
`stopCh`: the reader ends at once, and its deferred `Stop` closes the channel again,
which ends the server (`panicked`; the server never calls the local bridge).
The container bridge's reader only clears the flag.

`StoppedEncodersEnd` is about the local bridge only. For the container bridge the code
ends no exec, neither in `Stop` nor anywhere else. `RunningIsAttended` excepts a local
bridge whose last accepted `Start` has returned an error: its flag stays.

Left out: a frame rate of 0, by which both readers divide; ffmpeg's arguments.

## NALStreams

| variable | code |
|---|---|
| `received` | everything read so far |
| `buffer`, `extracting` | `nalBuffer` of `processH264Stream`, and whether it is in its inner loop |
| `nals` | the units it has extracted; the position of each in the stream is history |
| `localBuffer`, `localNals` | `nalBuffer` of `readAndSendNALs` and the units it has cut |
| `reset`, `localReset` | history only: whether the buffer has overflowed |

`Arrive` is a read. The container bridge then takes one unit after the other
(`ExtractNext`, container_bridge.go:453-469) until it finds none, and throws a buffer
over the limit away (`EndRound`, 471-475). The local bridge scans its whole buffer
at once (`Positions`, bridge.go:300-319), sends what is between the first position and
the last, and drops as many bytes as it has sent; all of that is part of the
read (`ReadLocal`), for nothing else sees its buffer.

`Units` is the reference: a unit begins at a start code (`Starts`) and ends where the
next one begins. `Cut` lists the pieces between the positions of a set, for
the reference as for the local bridge. The two scans differ: `extractNextNAL` looks
for the next code three bytes after the first, `parseNALUnits` jumps over what it has
found, and the three-byte code inside one of four bytes must not count
twice. Only the values 0 and 1 matter, so a third one stands for all others.

The container bridge's exec has no tty (container_bridge.go:383-386). Docker then puts
a header of eight bytes before each frame of the stream, and the code reads these
headers as part of it. The model starts both readers with a start code, where the
container's stream really starts with a header; after that, headers are bytes like any
others. Its properties are about where the stream is cut, whatever its bytes mean; what
a header in the middle of a unit does to a decoder is no part of them.

`ContainerCutsExactly` and `LocalCutsExactly` say which start codes have taken effect
at a given length of the stream, as long as no buffer has overflowed: for the container
bridge those that one byte follows, for the local bridge those whose first byte has
four more behind it. After an overflow the
container bridge finds the next start code (`ContainerResynchronises`, `NothingTwice`).
The local bridge counts what it has sent from the start of a buffer that then begins in
the middle of a unit, and sends bytes again: no property is claimed for it there.

## H264Encoder

| variable | code |
|---|---|
| `caller` | the goroutines that encode: `startStreaming` and the loops; `write` and `wait` are under `e.mu` |
| `closer`, `closed` | how far `Close` is; the field |
| `frameNum`, `stdinOpen` | the field; ffmpeg's stdin |
| `ffmpeg`, `stdout` | the process and its output pipe (external) |
| `reader`, `queue` | `readLoop` and `outputBuf` |
| `delivered` | history only: what the calls have returned |

Actions: `NextFrame`, `NoFrame` (`streamingLoop` up to its call), `Begin`, `Write`,
`WriteFails`, `Receive`, `Timeout` (`Encode` and `EncodeWithNALs`), `ReadChunk`, `Drain`,
`Add`, `ReadEnds` (`readLoop`), `CallClose` (`removeSession`), `CloseLocks`, `CloseStdin`,
`Waited` (`Close`); `TakeFrame`, `WritePart`, `Exit` and `Crash` are ffmpeg's. The busy
flag is set and cleared under the lock, so it is not a variable of its own.

ffmpeg answers each frame with one unit of three parts: start code, head, tail. A
read takes all that is in the pipe, so that a chunk begins and ends at any part
of any unit, and the parser keeps what stands between its first start code and
its end. A start code that a read cuts in two is not a part of its own: neither
half is a start code to the parser, which is what it does with a missing code.
ffmpeg may read one frame ahead; `FairSpec` does not rely on it.

A unit whose tail comes with the next chunk is delivered without it, and a chunk
that is dropped may hold any pieces. `CleanStream` says what remains true.

Left out: how long the timeouts are; `time.After` may fire while a chunk is there,
so `Timeout` is always possible. The parts of one call are delivered under the
lock; sending them to the track afterwards is not modelled.

## Runs

| run | module, bounds | checks | states |
|---|---|---|---|
| ManagerPorts | manager, 2 requests, 2 ids, 2 ports; overlap, self_exit, db_error; faults without lost containers | `TypeOK`, `ExclusivePorts`, `NoOrphans`, `ImplementsPortPool` | 770 000 |
| ManagerFaults | manager, 2 requests, 2 ids, 2 ports; one restart, failing listings, deletes without force, creates and stops that come late or never, removals that do not get through | `HeldPortsReserved`, `NoPortLeak`, `StatusFaithful`, `AddressReachable`, `DatabaseFollowsMap` | 6 500 000 |
| Requests | API and manager, fair, 2 requests, 2 ids, 2 ports, 2 users of whom one creates; creates that do not decode, refused starts, stops that do not get through | `RepliesTrue`, `AddressesLive`, `NotFoundIsUnknown`, `RequestsAnswered`, `TransientStatusSettles` | 540 000 |
| Sessions | sessions, fair, 2 sessions, 2 ids, 2 tasks, re-offers, reconnects | `TypeOK`, `StopClosesOnce`, `StoppableStream`, `OpenIsInMap`, `RemovedForOwnReason`, `FailedSessionsGo`, `LoneLoopsEnd` | 255 000 |
| Resources | resources, fair, 1 message, 2 streaming goroutines, 4 clients, restart after 1 error | `NilOnlyByRestart`, `NothingLeaks`, `FingerLifts` | 2 520 000 |
| Bridges | both bridges, fair, 2 calls of Start, 1 of Stop, 2 SPS and 2 PPS | `ParametersFirst`, `OneReadAfterStop`, `RunningIsAttended`, `StoppedEncodersEnd` | 1 140 000 |
| NALUnits | streams of up to 15 bytes, reads of 1 to 3, limits 5 and 8 | `TypeOK`, `ContainerCutsExactly`, `LocalCutsExactly`, `ContainerResynchronises`, `NothingTwice` | 6 700 000 |
| EncoderQueue | encoder, fair, 2 callers, queue of 2, pipe of 3 parts, up to 4 frames, ffmpeg may die | `TypeOK`, `NoEncodeAfterClose`, `NewestKept`, `CleanStream`, `EncodeEnds`, `CloseEnds` | 280 000 |
| ManagerPortBusy | manager, no faults | `AllocatedPortsAvailable` is violated | |
| ManagerReserve | manager, one restart | `ExistingPortsReserved` is violated | |
| SessionLostStop | sessions, ids offered once | `StreamsHaveSessions` is violated | |
| SessionOldLoop | sessions, fair, re-offers, no GPU bridge | `RemovedLoopsEnd` is violated | |

Why the bounds are enough. Two requests give every pair of concurrent operations, and
two ids every pair of owners; the third owner of a conflict (a port that is freed,
taken and freed again) needs a repeated delete, which the runs that check ports
exclude. Two ports make the pool run out between the two allocations of one request,
and are enough for two containers without ADB. One restart reaches all states of a rebuilt map and
pool, for a restart forgets everything else. Ids are used once: Docker makes new ones
for every create. Two sessions are an old and a new one on the same id or two on
different ids; two tasks let one session reconnect, or both be connected.
`StopClosesOnce` and `StoppableStream`, which more reconnects could endanger most, are
also proved for any number of tasks. In `Resources` one message and two streaming
goroutines (a reconnect) make three actors on one field: the reader, the one that
replaces the client, and the one that restarts or removes; four clients are one for
each of them and a restart. The code restarts after 20 errors in a row; fewer only
bring the restart forward. In `Bridges` two calls of `Start` are an old and a new
stream, one `Stop` is the owner's, and the second set of parameters replaces the
first. Two users are the owner and another one. 15 bytes hold a full start code, a
unit, an overflow of either buffer and at least one whole unit afterwards, and reads
of up to three bytes split a start code at every place. Four frames are twelve parts:
more than the queue, the pipe and the reader hold together, so that the queue
overflows and everybody who can wait for room does; two callers are the one with the
lock and one that waits for it.

Deadlock is not checked: when ids, sessions or stream bytes are used up and all
requests have ended, the models stop, and a server without requests is idle too.

Symmetry is used for requests, ids, sessions and tasks in the runs that check
safety only; ports are ordered and ids of sessions differ from the default id, so
neither is symmetric.

Fairness. `FairSpec` of the manager assumes that a request that has begun takes its
next step: Go schedules every goroutine, mutexes are held for a few instructions, and
the HTTP client ends every call after 30 s. `FairSpec` of the sessions assumes the
same of callbacks and tasks, `FairApiSpec` of requests that have arrived, and
`FairSpec` of `Bridges` of calls of `Start`, readers, and a local ffmpeg that nobody
reads from, whose next write fails. Nothing is assumed of an exec. A blocked read ends:
the shared HTTP client gives up after 30 s, and the pipe of a dead process is closed.
`FairSpec` of `SessionResources` assumes that the goroutine that lifts a touch is
scheduled, and nothing of the calls of the emulator, which have no deadline
(client.go:39-48). `FairSpec` of the encoder assumes it of the callers that hold the lock, of `readLoop` and of
`Close`, strongly for taking the lock (Go's mutex hands over to a goroutine that has
waited 1 ms), and that ffmpeg, unless it dies, reads, answers and at the end of stdin
exits as far as its pipes let it. Nothing is assumed about clients, containers,
connections or the end of a stream.

Every property has a mutant in PROJECT.json: a change of a definition, as a
plausible bug would make it, under which TLC finds the property violated. The
mutated definitions stand before the originals in the modules, with a comment
that begins with "Mutant".

## Proofs

TLC checks each property on a small instance, TLAPS proves it for every value of the
constants that the named assumptions admit: any sets of requests, ids, sessions,
tasks, callers, any port range, any capacity, and any faults but those a theorem
excludes. Each theorem has one shape: an invariant that says enough to be
inductive, a lemma for the initial states, one for the steps (case by case, one
lemma for what several steps have in common), and a temporal step that puts them
together. TLC checked the invariants on small instances first.

What a theorem excludes is what the code does not survive; the section of the
module says what happens then.

| theorem | property | assumed of the surroundings |
|---|---|---|
| `TypeCorrect` | `TypeOK` | - |
| `PortsAreExclusive` | `ExclusivePorts` | no repeated delete |
| `HeldPortsAreReserved` | `HeldPortsReserved` | no repeated delete |
| `PortPoolIsImplemented` | `ImplementsPortPool` | no repeated delete |
| `NoPortLeaks` | `NoPortLeak` | no overlap; the reply of a create decodes |
| `StatusIsFaithful` | `StatusFaithful` | no overlap |
| `AddressIsReachable` | `AddressReachable` | no overlap |
| `DatabaseAgrees` | `DatabaseFollowsMap` | no overlap, writes succeed |
| `NoOrphanIsLeft` | `NoOrphans` | forced deletes, working listings; a create that seems to have failed is not carried out, a removal that could be done is done at once |
| `ApiDrivesManager`, `ManagerUnderApi` | `ApiSpec => Spec` of the manager, and what follows for the map | those of `Requests` |
| `RepliesAreTrue` | `RepliesTrue` | those of `Requests`; a removal that could be done is not refused |
| `AddressesAreLive` | `AddressesLive` | those of `Requests`; no stop or removal is done behind an error |
| `UnknownIsUnknown` | `NotFoundIsUnknown` | those of `Requests` |
| `SessionTypes`, `NeverClosedTwice`, `OneStoppableReader` | `TypeOK`, `StopClosesOnce`, `StoppableStream` | - |
| `OpenStaysInMap`, `ClosedForOwnReason` | `OpenIsInMap`, `RemovedForOwnReason` | - |
| `NilNeedsRestart`, `OnlyLostOrLate` | `NilOnlyByRestart`, `NothingLeaks` | - |
| `FlagIsAttended`, `OneLateRead`, `PicturesHaveParameters` | `RunningIsAttended`, `OneReadAfterStop`, `ParametersFirst` | - |
| `TypesOK`, `ContainerExact`, `LocalExact`, `Resynchronises`, `NothingExtractedTwice` | `TypeOK`, `ContainerCutsExactly`, `LocalCutsExactly`, `ContainerResynchronises`, `NothingTwice` | the stream begins with a start code of four bytes |
| `EncoderTypes`, `ClosedStaysClosed`, `NewestAlwaysKept`, `StreamIsClean` | `TypeOK`, `NoEncodeAfterClose`, `NewestKept`, `CleanStream` | - |

The assumptions on constants are those the modules name: `PortAssumption`,
`IdAssumption`, `EnvironmentAssumption`, `SessionAssumption`, `UserAssumption`,
`HolderAssumption` (requests and ids are different things) and those of the other
modules. TLC evaluates each of them in a run.

### The manager

*Ports* (`ContainerManagerProofs`). Exclusiveness alone is not inductive: a restart
takes the ports of the map from the daemon, and a delete gives back the ports of
an entry that has to be its own still. `IInv` has four parts:

1. `Typed`, the types, and that a request under way names a container;
2. `DaemonInv`: what the daemon has was created from ports that a create or an
   entry held, running containers have different ports (two of them could not
   be bound), and an absent entry has no ports. This carries
   exclusiveness across a restart;
3. `ApartInv`: a create and a delete of the same container, and two deletes of it, do
   not meet before the ports are given back. This is where the assumption on
   repeated deletes is used;
4. `PortsInv`: exclusive and reserved ports themselves.

*What the map shows*. Without overlapping requests a step touches one
container that no other request works on (`Solo`, and `OthersKeep` for a step), so
each invariant is about one container and the one request that has it in hand:

* `SoloInv`: a create works on a container that the map does not hold and no
  delete has dealt with;
* `LeakInv`: a delete past the pool has given the ports of its entry back, and a create
  without an ADB port holds its gRPC port only, so that each exit releases
  what is owned;
* `StatusInv`: `Faithful` drops "at rest" from `StatusFaithful`, which is inductive
  together with `ChangeUnsettled` (while the daemon is asked, the status is not a settled
  one) and `ReplyStillTrue` (what the daemon has answered is still so when it is
  written down, unless the container has `moved` since);
* `AddressInv` and `DatabaseInv` say the same of ports and documents:
  what a request is about to write agrees with what is there already;
* `OrphanInv` does without `Solo`: overlapping requests cannot orphan a container. It
  says that what requests and documents name was created, and that two
  creates are about two containers.

*The pool* (`PortOwnershipProofs`). `OwnersAreMeant` shows that the mapped `owner` of a port is
the one request or entry that holds it, or nobody; this is where exclusive ports are
needed, for the mapping chooses. Then each step of the manager is shown to be a
step of `PortPool` or to leave every owner as it is, and a restart to
begin a new epoch.

*The API* (`RequestsProofs`). `Coupled` says that a handler waits for the manager as long as its
request is under way there, and for the same container. With it every step of a
handler is a step of the manager or none (`ApiDrives`), which gives
`ApiDrivesManager` and brings the manager's invariants to the API. A reply is judged in
the state after the step that sends it, but most of it was read earlier. What
the steps between cannot undo is said by `Recorded` (the daemon still has it as it was
told when the database is), `Unlisted` (no document before the end of a create),
`Removed` (a forced delete has removed the container when it goes on) and
`DocumentLive` (a document that says running is right, or a handler that has ended the
container goes on to write it). `ReplyShapes` lists the replies a step can
send. `ApiSurroundings` says what `Requests` assumes: no overlap, no late calls,
no failing writes; deletes with and without force, also repeated ones. The run has
the same.

### Sessions, bridges, encoder

*Sessions* (`WebRTCSessionsProofs`). The invariant adds to the types that the map holds open
sessions under their own ids (`Keyed`), that tasks and callbacks belong to open
sessions (`Opened`), that a bridge belongs to the session of the task that made it
(`Owned`), that a bridge whose channel is closed has a session that is not in the map
(`ClosedIsRemoved`: this is why a second `Stop` never comes), and that a bridge that has
not been stopped is idle, being started by one task, or read by one reader
(`OneStream`). For `OpenIsInMap`, `CallbacksAreLate` adds that only a connection at its
end has callbacks of its end to run, so that no other callback removes a session.

*Resources* (`SessionResourcesProofs`). `NilInv`: the field is nil only before the first client
has been made and after a restart, and whoever is about to use it came after the
first one (`Dialled`). `LeakInv`: a client or encoder that is open and not in its field was
overwritten or stored late, one that is in the field when the removal has passed is late,
and a restart forgets what it has closed (`ForgetsClosed`).

*Bridges* (`BridgesProofs`). `OneActor`: before the first `Stop` the flag admits one Start or reader at
a time. After it, `Attended` (a flag that is set has somebody who is not on his way
out) and `LateOnce` (at most one reader is in a read when `Stop` comes, and none
begins a read later). For the track: the cache has the newest sets whenever a
picture is written.

*Encoder* (`H264EncoderProofs`). `Control` proves types, closing and the queue. `CleanStream` needs
to know where every part stands: ffmpeg writes one place after the other
(`Answering`), `readLoop` holds a chunk only between its two selects (`EmptyHanded`), each
chunk on its way is a stretch of the stream without gaps, so that a parsed chunk is
too (`Whole`), the chunks are in order (`Orderly`), and all of them come behind what has
been delivered (`Behind`). The least element that `Parse` looks for comes from
`NatLessThanWellFounded`.

### NAL units

`NALStreamsProofs` does without induction over data. The pieces of a set of positions are
numbered by how many positions lie below (`Rank`), so that `Nth` and `Cut` are
functions of finite sets of numbers:

* `Enumeration`: a list that is in order and complete is the order of its set. It
  gives `NthOfUnion` for two sets that meet at one position (`MeetAt`), and from it
  `CutGoesOn`: the cut of the union is one cut after the other. `CutOfEnd` says that
  cutting the end of a stream cuts the stream, `CutStays` that what is read
  later changes nothing;
* of start codes: two are three bytes apart (`StartsApart`), a longer stream has those of
  a shorter one and others near its end only (`StartsGrow`, `SeenGrow`), and the first
  unit of a buffer goes from one start code, or the byte behind it, to the next one
  (`Extracted`).

`TypedInv` adds to the types that the stream begins with its start code and that the
buffer is the end of the stream (`IsEnd`). On it rest four invariants:

* `PiecesInv`, for `NothingTwice`: every unit is a piece of the stream, and none begins
  before the one before it ends;
* `WholeInv`, for `ContainerResynchronises`: every unit begins at a start code of the
  stream or one byte after it, and ends where the next one begins. It holds through overflows,
  because it says nothing of where the buffer begins;
* `CutInv`, for `ContainerCutsExactly`: the units are the cut at the start codes up to
  where the buffer begins, the buffer begins with one of them or with the stream, and
  when a round is over there are no others. `ContainerCutsExactly` alone is not
  inductive, for it says nothing while a round is under way;
* `LocalInv`, for `LocalCutsExactly`: the units are the cut at all start codes that are
  ready, and the buffer begins with the last of them. That is why dropping as many
  bytes as were sent is right: what precedes the first position is nothing.

### Only model-checked

All liveness properties, since TLAPS treats neither fairness nor ENABLED: `RequestsAnswered`,
`TransientStatusSettles`, `FailedSessionsGo`, `LoneLoopsEnd`, `FingerLifts`,
`StoppedEncodersEnd`, `EncodeEnds`, `CloseEnds`.

## Where code and comments differ

* docker.go:51, "Allocate finds and reserves an available port". `DeleteContainer`
  gives the ports back before the daemon has removed the container, so a
  concurrent create starts on ports that are still bound (run `ManagerPortBusy`).
  That start fails and is cleaned up.
* docker.go:271, "Reserve ports that are already in use by existing containers".
  The listing shows no public ports for stopped containers, so after a restart
  their ports are handed out again and they may not start any more (run
  `ManagerReserve`).
* handler.go:511, "Stop GPU bridge if running". A session that is removed before
  its goroutine has started the bridge gets one that nobody stops (run
  `SessionLostStop`).
* handler.go:1120, "Stop if session removed". The loop asks for a session of the
  container id, and a newer one keeps it alive (run `SessionOldLoop`).

Behaviour that no comment speaks about, which the modules show:

* a container that was stopped before a restart of the server and is started after
  it has the address `localhost:0` (docker.go:272, 820);
* `Bridge.Start` returns errors with the running flag set (bridge.go:106-126): every
  later `Start` is refused, and `IsRunning` says true with nothing at work. A `Bridge`
  that is started after `Stop` closes `stopCh` twice;
* an exec goes on in its container after `Stop` and the end of its reader: neither ends
  it, whatever container_bridge.go:586-587 expects of Docker;
* a delete between a create's insert into the database and its store into the map is
  undone by the store (docker.go:562-576), and a stop at that place leaves "running";
* a failed stop, start or delete leaves the entry stopping, starting or removing until
  the next request (docker.go:631-638, 667-674, 731-733);
* a container that was started when the server crashed is never listed (docker.go:564);
* a touch-down that fails after it has had its effect is not lifted (handler.go:847);
* `startWithEncoder` succeeds before ffmpeg has run, so an encoder that fails at run
  time is not followed by the next one (container_bridge.go:262);
* a client of the emulator is lost when two goroutines make one at a time, and the
  restart after 20 errors makes a call on nil possible (handler.go:826, 1224);
* when a restart fails, the loop ends and the session stays (handler.go:1147).

## Not modelled

The generated code under `emulator/proto` (half of the lines of the repository) has
no behaviour of its own. Configuration, the image table, pixel
conversion and gRPC plumbing keep no state that a property could be about.
`handleInputCommand` and `startFrameLoop` of main.go, `Manager.StartBridge`,
`EncodeRaw`, `ensureStream`, `GetRawFrame` and the VP8 encoder are never called. SDP
and ICE are pion's. Signatures of tokens, logging and recovery
middleware change no state.
