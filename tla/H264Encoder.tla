---------------------------- MODULE H264Encoder ----------------------------
(***************************************************************************)
(* The H.264 encoder of src/internal/emulator/h264_encoder.go: an ffmpeg   *)
(* process that gets raw frames on its stdin, a reader goroutine that puts *)
(* what it prints into a channel, the calls of EncodeWithNALs that share   *)
(* both, and Close.                                                        *)
(*                                                                         *)
(* startStreaming encodes a first frame; streamingLoop then encodes one at *)
(* every tick.  Several loops share an encoder when a session has          *)
(* connected more than once: each reads s.encoder at every use.            *)
(*                                                                         *)
(* ffmpeg is external.  It answers every frame with one NAL unit, which it *)
(* writes in three parts: the start code, the head and the tail.           *)
(***************************************************************************)
EXTENDS Naturals, SequencesExt

CONSTANTS
  Caller,     \* the goroutines that encode
  Creator,    \* the one in startStreaming, whose first frame needs no tick
  QueueCap,   \* capacity of outputBuf (20)
  OutPipe,    \* capacity of ffmpeg's stdout, in parts
  MaxFrames,  \* bound: no new frame once so many have been written
  MayCrash    \* whether ffmpeg may die

ASSUME EncoderAssumption ==
  /\ Creator \in Caller
  /\ QueueCap \in Nat \ {0} /\ OutPipe \in Nat \ {0} /\ MaxFrames \in Nat
  /\ MayCrash \in BOOLEAN

VARIABLES
  caller,     \* how far each caller is
  closer,     \* how far Close is
  closed,     \* the field closed
  frameNum,   \* the field frameNum: frames written to stdin
  stdinOpen,  \* whether ffmpeg's stdin is open
  ffmpeg,     \* ffmpeg: frames read, parts it has yet to write (external)
  stdout,     \* the parts in ffmpeg's stdout
  reader,     \* readLoop and the chunk it holds
  queue,      \* the chunks in outputBuf
  delivered   \* history: the parts that callers have got, in this order

vars == <<caller, closer, closed, frameNum, stdinOpen, ffmpeg, stdout, reader,
          queue, delivered>>

-----------------------------------------------------------------------------
(* Values *)

\* encode: past the check for a busy encoder, without the lock; write and
\* wait: with it, in Write and Flush or in the final select.
CallerPc == {"idle", "encode", "write", "wait"}

\* Close: called, closing stdin, in Wait, returned.
CloserPc == {"open", "called", "stdin", "waiting", "done"}

\* drain and add: the two selects after the queue has been found full.
ReaderPc == {"read", "drain", "add", "ended"}

Kind == <<"code", "head", "tail">>
Part == [frame : Nat, kind : Range(Kind)]
Unit(n) == [k \in 1 .. 3 |-> [frame |-> n, kind |-> Kind[k]]]

\* e.mu; the busy flag is set and cleared under it.
Locked == \E c \in Caller : caller[c] \in {"write", "wait"}
IsBusy == Locked

\* Mutant: what precedes the first start code is kept.
ParseAll(chunk) == chunk

\* ParseNALUnits on one chunk: nothing before its first start code, and no
\* start code that nothing follows.
Parse(chunk) ==
  LET codes == {i \in DOMAIN chunk : chunk[i].kind = "code"}
      end == IF Len(chunk) \in codes THEN Len(chunk) - 1 ELSE Len(chunk)
  IN IF codes = {} THEN <<>> ELSE SubSeq(chunk, Min(codes), end)

-----------------------------------------------------------------------------
(* The callers *)

Moves(c, to) == caller' = [caller EXCEPT ![c] = to]

\* A tick of streamingLoop: no frame for a busy encoder.
NextFrame(c) ==
  /\ caller[c] = "idle" /\ ~IsBusy /\ frameNum < MaxFrames
  /\ Moves(c, "encode")
  /\ UNCHANGED <<closer, closed, frameNum, stdinOpen, ffmpeg, stdout, reader, queue, delivered>>

\* The emulator has no frame for this tick.
NoFrame(c) ==
  /\ caller[c] = "encode"
  /\ Moves(c, "idle")
  /\ UNCHANGED <<closer, closed, frameNum, stdinOpen, ffmpeg, stdout, reader, queue, delivered>>

\* Encode takes the lock; a closed encoder is an error.
Begin(c) ==
  /\ caller[c] = "encode" /\ ~Locked
  /\ Moves(c, IF closed THEN "idle" ELSE "write")
  /\ UNCHANGED <<closer, closed, frameNum, stdinOpen, ffmpeg, stdout, reader, queue, delivered>>

\* A frame is far larger than the pipe: ffmpeg has read the one before it, and
\* may read this one before it has answered the last.
Write(c) ==
  /\ caller[c] = "write" /\ ffmpeg.running /\ stdinOpen
  /\ ffmpeg.frames = frameNum
  /\ frameNum' = frameNum + 1
  /\ Moves(c, "wait")
  /\ UNCHANGED <<closer, closed, stdinOpen, ffmpeg, stdout, reader, queue, delivered>>

\* Writing to a process that is gone, or to a closed stdin, fails.
WriteFails(c) ==
  /\ caller[c] = "write" /\ ~(ffmpeg.running /\ stdinOpen)
  /\ Moves(c, "idle")
  /\ UNCHANGED <<closer, closed, frameNum, stdinOpen, ffmpeg, stdout, reader, queue, delivered>>

\* The oldest chunk, whatever frame it belongs to; a closed and empty channel
\* is an error.
Receive(c) ==
  /\ caller[c] = "wait"
  /\ \/ /\ queue # <<>>
        /\ delivered' = delivered \o Parse(Head(queue))
        /\ queue' = Tail(queue)
     \/ /\ queue = <<>> /\ reader.pc = "ended"
        /\ UNCHANGED <<delivered, queue>>
  /\ Moves(c, "idle")
  /\ UNCHANGED <<closer, closed, frameNum, stdinOpen, ffmpeg, stdout, reader>>

\* After 100 or 500 ms there is nothing to send; a chunk may be there as well.
Timeout(c) ==
  /\ caller[c] = "wait"
  /\ Moves(c, "idle")
  /\ UNCHANGED <<closer, closed, frameNum, stdinOpen, ffmpeg, stdout, reader, queue, delivered>>

-----------------------------------------------------------------------------
(* readLoop *)

\* Mutant: the queue is not bounded.
ReadChunkUnbounded ==
  /\ reader.pc = "read" /\ stdout # <<>> /\ closer # "done"
  /\ stdout' = <<>>
  /\ queue' = Append(queue, stdout)
  /\ UNCHANGED <<caller, closer, closed, frameNum, stdinOpen, ffmpeg, reader, delivered>>

\* Mutant: the send waits for room in the queue.
ReadChunkBlocking ==
  /\ reader.pc = "read" /\ stdout # <<>> /\ closer # "done" /\ Len(queue) < QueueCap
  /\ stdout' = <<>>
  /\ queue' = Append(queue, stdout)
  /\ UNCHANGED <<caller, closer, closed, frameNum, stdinOpen, ffmpeg, reader, delivered>>

\* The read buffer is larger than the pipe: all that is there is one chunk.
ReadChunk ==
  /\ reader.pc = "read" /\ stdout # <<>> /\ closer # "done"
  /\ stdout' = <<>>
  /\ \/ /\ Len(queue) < QueueCap
        /\ queue' = Append(queue, stdout) /\ UNCHANGED reader
     \/ /\ Len(queue) >= QueueCap
        /\ reader' = [pc |-> "drain", chunk |-> stdout] /\ UNCHANGED queue
  /\ UNCHANGED <<caller, closer, closed, frameNum, stdinOpen, ffmpeg, delivered>>

\* Mutant: the oldest chunk stays.
DrainNothing ==
  /\ reader.pc = "drain"
  /\ reader' = [reader EXCEPT !.pc = "add"]
  /\ UNCHANGED <<caller, closer, closed, frameNum, stdinOpen, ffmpeg, stdout, queue, delivered>>

\* The oldest chunk is dropped, if no caller has come first.
Drain ==
  /\ reader.pc = "drain"
  /\ reader' = [reader EXCEPT !.pc = "add"]
  /\ queue' = IF queue = <<>> THEN queue ELSE Tail(queue)
  /\ UNCHANGED <<caller, closer, closed, frameNum, stdinOpen, ffmpeg, stdout, delivered>>

\* The second send does not wait either: without room the new chunk is lost.
Add ==
  /\ reader.pc = "add"
  /\ reader' = [pc |-> "read", chunk |-> <<>>]
  /\ queue' = IF Len(queue) < QueueCap THEN Append(queue, reader.chunk) ELSE queue
  /\ UNCHANGED <<caller, closer, closed, frameNum, stdinOpen, ffmpeg, stdout, delivered>>

\* The end of ffmpeg's output, or Wait has closed the pipe, read or not.
ReadEnds ==
  /\ reader.pc = "read"
  /\ (~ffmpeg.running /\ stdout = <<>>) \/ closer = "done"
  /\ reader' = [reader EXCEPT !.pc = "ended"]
  /\ UNCHANGED <<caller, closer, closed, frameNum, stdinOpen, ffmpeg, stdout, queue, delivered>>

-----------------------------------------------------------------------------
(* Close *)

\* removeSession, with the lock of the session manager.
CallClose ==
  /\ closer = "open"
  /\ closer' = "called"
  /\ UNCHANGED <<caller, closed, frameNum, stdinOpen, ffmpeg, stdout, reader, queue, delivered>>

\* Mutant: closed is set without the lock.
CloseLocksNot ==
  /\ closer = "called"
  /\ closed' = TRUE /\ closer' = "stdin"
  /\ UNCHANGED <<caller, frameNum, stdinOpen, ffmpeg, stdout, reader, queue, delivered>>

CloseLocks ==
  /\ closer = "called" /\ ~Locked
  /\ closed' = TRUE /\ closer' = "stdin"
  /\ UNCHANGED <<caller, frameNum, stdinOpen, ffmpeg, stdout, reader, queue, delivered>>

\* Mutant: Wait without the end of stdin.
CloseStdinNot ==
  /\ closer = "stdin"
  /\ closer' = "waiting"
  /\ UNCHANGED <<caller, closed, frameNum, stdinOpen, ffmpeg, stdout, reader, queue, delivered>>

CloseStdin ==
  /\ closer = "stdin"
  /\ stdinOpen' = FALSE /\ closer' = "waiting"
  /\ UNCHANGED <<caller, closed, frameNum, ffmpeg, stdout, reader, queue, delivered>>

\* cmd.Wait returns when ffmpeg has exited, and closes the reader's pipe.
Waited ==
  /\ closer = "waiting" /\ ~ffmpeg.running
  /\ closer' = "done"
  /\ UNCHANGED <<caller, closed, frameNum, stdinOpen, ffmpeg, stdout, reader, queue, delivered>>

-----------------------------------------------------------------------------
(* ffmpeg *)

\* With -tune zerolatency a frame is answered before the next one is read.
TakeFrame ==
  /\ ffmpeg.running /\ ffmpeg.frames < frameNum /\ ffmpeg.pending = <<>>
  /\ ffmpeg' = [ffmpeg EXCEPT !.frames = @ + 1, !.pending = Unit(ffmpeg.frames + 1)]
  /\ UNCHANGED <<caller, closer, closed, frameNum, stdinOpen, stdout, reader, queue, delivered>>

WritePart ==
  /\ ffmpeg.running /\ ffmpeg.pending # <<>> /\ Len(stdout) < OutPipe
  /\ stdout' = Append(stdout, Head(ffmpeg.pending))
  /\ ffmpeg' = [ffmpeg EXCEPT !.pending = Tail(@)]
  /\ UNCHANGED <<caller, closer, closed, frameNum, stdinOpen, reader, queue, delivered>>

Exit ==
  /\ ffmpeg.running /\ ~stdinOpen
  /\ ffmpeg.frames = frameNum /\ ffmpeg.pending = <<>>
  /\ ffmpeg' = [ffmpeg EXCEPT !.running = FALSE]
  /\ UNCHANGED <<caller, closer, closed, frameNum, stdinOpen, stdout, reader, queue, delivered>>

Crash ==
  /\ MayCrash /\ ffmpeg.running
  /\ ffmpeg' = [ffmpeg EXCEPT !.running = FALSE, !.pending = <<>>]
  /\ UNCHANGED <<caller, closer, closed, frameNum, stdinOpen, stdout, reader, queue, delivered>>

-----------------------------------------------------------------------------
(* Specification *)

\* NewH264Encoder has started ffmpeg and readLoop.
Init ==
  /\ caller = [c \in Caller |-> IF c = Creator THEN "encode" ELSE "idle"]
  /\ closer = "open" /\ closed = FALSE /\ frameNum = 0 /\ stdinOpen = TRUE
  /\ ffmpeg = [running |-> TRUE, frames |-> 0, pending |-> <<>>]
  /\ stdout = <<>> /\ reader = [pc |-> "read", chunk |-> <<>>]
  /\ queue = <<>> /\ delivered = <<>>

Holding(c) == WriteFails(c) \/ Receive(c) \/ Timeout(c)
Encoding(c) == NextFrame(c) \/ NoFrame(c) \/ Begin(c) \/ Write(c) \/ Holding(c)
Reading == ReadChunk \/ Drain \/ Add \/ ReadEnds
Closing == CloseStdin \/ Waited
Serving == TakeFrame \/ WritePart \/ Exit

Next ==
  \/ \E c \in Caller : Encoding(c)
  \/ Reading
  \/ CallClose \/ CloseLocks \/ Closing
  \/ Serving \/ Crash

Spec == Init /\ [][Next]_vars

\* Every goroutine is scheduled, Go's mutex lets a waiter in after 1 ms at
\* the latest, and ffmpeg goes on as long as its pipes let it.  It need not
\* read ahead: a write may have to wait until all answers are in the pipe.
FairSpec ==
  /\ Spec
  /\ \A c \in Caller :
       WF_vars(Holding(c)) /\ WF_vars(Write(c) /\ ffmpeg.pending = <<>>)
  /\ WF_vars(Reading) /\ WF_vars(Closing) /\ SF_vars(CloseLocks)
  /\ WF_vars(Serving)

-----------------------------------------------------------------------------
(* Properties *)

\* Types.  The queue and the pipe keep their capacities, and at most one frame
\* is on its way to ffmpeg: a slow reader or caller makes nobody buffer more.
TypeOK ==
  /\ caller \in [Caller -> CallerPc] /\ closer \in CloserPc
  /\ closed \in BOOLEAN /\ stdinOpen \in BOOLEAN /\ frameNum \in Nat
  /\ ffmpeg \in [running : BOOLEAN, frames : Nat, pending : Seq(Part)]
  /\ frameNum - ffmpeg.frames \in {0, 1}
  /\ stdout \in Seq(Part) /\ Len(stdout) <= OutPipe
  /\ reader \in [pc : ReaderPc, chunk : Seq(Part)]
  /\ queue \in Seq(Seq(Part)) /\ Len(queue) <= QueueCap
  /\ delivered \in Seq(Part)

\* No frame is on its way in once Close has set closed: a loop that passed all
\* checks before the removal still finds the encoder closed, and stdin is not
\* closed under a write (the check in Encode, the lock in Close).
NoEncodeAfterClose == closed => ~Locked

\* readLoop drops the oldest chunks only: callers may empty the queue between
\* its selects, but nothing fills it, so that the new chunk always has room.
NewestKept == reader.pc = "add" => Len(queue) < QueueCap

\* Where a part stands in the stream that ffmpeg has written.
Place(part) == 3 * part.frame + (CHOOSE k \in 1 .. 3 : Kind[k] = part.kind)

\* What the calls of EncodeWithNALs return is in the order of the stream, with
\* gaps only: no part comes twice, each start code has its head, and a tail
\* comes right behind its own head, although chunks are dropped from the
\* queue and parsed one by one.
CleanStream ==
  /\ \A i \in 1 .. Len(delivered) - 1 : Place(delivered[i]) < Place(delivered[i + 1])
  /\ \A i \in DOMAIN delivered :
       /\ delivered[i].kind # "code" =>
            i > 1 /\ Place(delivered[i - 1]) = Place(delivered[i]) - 1
       /\ delivered[i].kind = "code" =>
            i < Len(delivered) /\ delivered[i + 1].frame = delivered[i].frame

\* A call that has the lock returns: neither ffmpeg nor the reader waits for
\* the caller, even if nobody takes anything out of the queue.
EncodeEnds == \A c \in Caller : caller[c] \in {"write", "wait"} ~> caller[c] = "idle"

\* Close returns, with the session manager's lock at stake, and the reader
\* ends after it: it does not wait for room that nobody makes any more.
CloseEnds == closer = "called" ~> closer = "done" /\ reader.pc = "ended"
=============================================================================
