-------------------------- MODULE H264EncoderProofs --------------------------
(***************************************************************************)
(* Theorems about H264Encoder, for every set of callers, every capacity of *)
(* the queue and of the pipe, every number of frames, with and without     *)
(* crashes.                                                                *)
(***************************************************************************)
EXTENDS H264Encoder, SequenceTheorems, WellFoundedInduction, TLAPS

-----------------------------------------------------------------------------
(* Parts *)

LEMMA KindsAre == Range(Kind) = {"code", "head", "tail"}
<1>1. DOMAIN Kind = 1 .. 3
  BY DEF Kind
<1>2. Kind[1] = "code" /\ Kind[2] = "head" /\ Kind[3] = "tail"
  BY DEF Kind
<1> QED BY <1>1, <1>2 DEF Range

LEMMA UnitIsParts ==
  ASSUME NEW n \in Nat
  PROVE  Unit(n) \in Seq(Part) /\ Len(Unit(n)) = 3
<1>1. \A k \in 1 .. 3 : [frame |-> n, kind |-> Kind[k]] \in Part
  <2>1. \A k \in 1 .. 3 : Kind[k] \in {"code", "head", "tail"}
    BY DEF Kind
  <2> QED BY <2>1, KindsAre DEF Part
<1> QED BY <1>1 DEF Unit

\* Min is the least element of a set of numbers.
LEMMA MinIsLeast ==
  ASSUME NEW S, S \subseteq Nat, S # {}
  PROVE  Min(S) \in S /\ \A n \in S : Min(S) <= n
<1>1. PICK m \in S : \A n \in S : ~(<<n, m>> \in OpToRel(<, Nat))
  BY NatLessThanWellFounded, WFMin
<1>2. ASSUME NEW n \in S, n < m
      PROVE  FALSE
  <2>1. <<n, m>> \in Nat \X Nat /\ <<n, m>>[1] < <<n, m>>[2]
    BY <1>2
  <2>2. <<n, m>> \in OpToRel(<, Nat)
    BY <2>1, Zenon DEF OpToRel
  <2> QED BY <1>1, <2>2
<1>3. m \in S /\ \A n \in S : m <= n
  BY <1>2
<1> QED BY <1>3 DEF Min

\* A chunk is parsed to a stretch of it that begins with a start code.
Codes(chunk) == {i \in DOMAIN chunk : chunk[i].kind = "code"}
ParseEnd(chunk) == IF Len(chunk) \in Codes(chunk) THEN Len(chunk) - 1 ELSE Len(chunk)

LEMMA ParseIsStretch ==
  ASSUME NEW chunk \in Seq(Part), Codes(chunk) # {}
  PROVE  /\ Parse(chunk) = SubSeq(chunk, Min(Codes(chunk)), ParseEnd(chunk))
         /\ Min(Codes(chunk)) \in Codes(chunk) /\ Min(Codes(chunk)) \in 1 .. Len(chunk)
         /\ ParseEnd(chunk) \in 0 .. Len(chunk)
         /\ ParseEnd(chunk) - Min(Codes(chunk)) + 1 \in Nat
<1> DEFINE codes == Codes(chunk)
<1>1. Len(chunk) \in Nat /\ DOMAIN chunk = 1 .. Len(chunk)
  BY LenProperties
<1>2. codes \subseteq Nat /\ codes \subseteq 1 .. Len(chunk)
  BY <1>1 DEF Codes
<1>3. Min(codes) \in codes /\ \A n \in codes : Min(codes) <= n
  BY <1>2, MinIsLeast
<1>4. Parse(chunk) = SubSeq(chunk, Min(codes), ParseEnd(chunk))
  BY Zenon DEF Parse, ParseEnd, Codes
<1>5. ParseEnd(chunk) \in 0 .. Len(chunk) /\ ParseEnd(chunk) - Min(codes) + 1 \in Nat
  BY <1>1, <1>2, <1>3 DEF ParseEnd
<1> QED BY <1>2, <1>3, <1>4, <1>5

LEMMA ParseIsParts ==
  ASSUME NEW chunk \in Seq(Part)
  PROVE  Parse(chunk) \in Seq(Part)
<1>1. CASE Codes(chunk) = {}
  <2>1. Parse(chunk) = <<>>
    BY <1>1, Zenon DEF Parse, Codes
  <2> QED BY <2>1
<1>2. CASE Codes(chunk) # {}
  <2> DEFINE from == Min(Codes(chunk))
             end == ParseEnd(chunk)
  <2>1. /\ Parse(chunk) = SubSeq(chunk, from, end)
        /\ from \in 1 .. Len(chunk) /\ end \in 0 .. Len(chunk)
    BY <1>2, ParseIsStretch
  <2> HIDE DEF from, end
  <2>2. from \in Int /\ end \in Int /\ \A i \in from .. end : chunk[i] \in Part
    BY <2>1, ElementOfSeq, LenProperties
  <2>3. SubSeq(chunk, from, end) \in Seq(Part)
    BY <2>2
  <2> QED BY <2>1, <2>3
<1> QED BY <1>1, <1>2

-----------------------------------------------------------------------------
(* Types, the lock and the queue *)

Control == TypeOK /\ NoEncodeAfterClose /\ NewestKept

\* What drops or adds the last chunk keeps the queue one.
LEMMA QueueSteps ==
  ASSUME TypeOK
  PROVE  /\ Len(queue) \in Nat
         /\ queue # <<>> => /\ Head(queue) \in Seq(Part) /\ Tail(queue) \in Seq(Seq(Part))
                            /\ Len(Tail(queue)) = Len(queue) - 1 /\ Len(queue) > 0
         /\ \A chunk \in Seq(Part) :
              Append(queue, chunk) \in Seq(Seq(Part)) /\ Len(Append(queue, chunk)) = Len(queue) + 1
<1>1. queue \in Seq(Seq(Part))
  BY DEF TypeOK
<1>2. Len(queue) \in Nat
  BY <1>1, LenProperties
<1>3. ASSUME queue # <<>>
      PROVE  /\ Head(queue) \in Seq(Part) /\ Tail(queue) \in Seq(Seq(Part))
             /\ Len(Tail(queue)) = Len(queue) - 1 /\ Len(queue) > 0
  <2>1. Len(queue) > 0
    BY <1>1, <1>3, EmptySeq
  <2>2. /\ Head(queue) \in Seq(Part) /\ Tail(queue) \in Seq(Seq(Part))
        /\ Len(Tail(queue)) = Len(queue) - 1
    BY <1>1, <1>3, HeadTailProperties
  <2> QED BY <2>1, <2>2
<1>4. ASSUME NEW chunk \in Seq(Part)
      PROVE  Append(queue, chunk) \in Seq(Seq(Part)) /\ Len(Append(queue, chunk)) = Len(queue) + 1
  BY <1>1, AppendProperties
<1> QED BY <1>2, <1>3, <1>4

LEMMA CallersKeep ==
  ASSUME Control, NEW c \in Caller, Encoding(c)
  PROVE  Control'
<1>1. caller' \in [Caller -> CallerPc]
  BY DEF Control, TypeOK, Encoding, NextFrame, NoFrame, Begin, Write, Holding, WriteFails, Receive,
         Timeout, Moves, CallerPc
<1>2. closed' => ~Locked'
  <2>1. CASE Begin(c)
    BY <2>1 DEF Begin, Moves, Locked, Control, TypeOK, NoEncodeAfterClose
  <2>2. CASE ~Begin(c)
    <3>1. closed' = closed
      BY DEF Encoding, NextFrame, NoFrame, Begin, Write, Holding, WriteFails, Receive, Timeout
    <3>2. Locked' => Locked
      BY <2>2 DEF Encoding, NextFrame, NoFrame, Write, Holding, WriteFails, Receive, Timeout,
         Moves, Locked, Control, TypeOK
    <3> QED BY <3>1, <3>2 DEF Control, NoEncodeAfterClose
  <2> QED BY <2>1, <2>2
<1>3. CASE Receive(c)
  <2>1. /\ UNCHANGED <<closer, closed, frameNum, stdinOpen, ffmpeg, stdout, reader>>
        /\ \/ queue # <<>> /\ queue' = Tail(queue) /\ delivered' = delivered \o Parse(Head(queue))
           \/ queue' = queue /\ delivered' = delivered
    BY <1>3 DEF Receive
  <2>2. /\ queue' \in Seq(Seq(Part)) /\ Len(queue') \in Nat /\ Len(queue') <= Len(queue)
        /\ Len(queue) \in Nat
    <3>1. Len(queue) \in Nat /\ queue \in Seq(Seq(Part))
      BY QueueSteps DEF Control, TypeOK
    <3>2. CASE queue # <<>> /\ queue' = Tail(queue)
      <4>1. /\ Tail(queue) \in Seq(Seq(Part)) /\ Len(Tail(queue)) = Len(queue) - 1
            /\ Len(queue) > 0
        BY <3>2, QueueSteps DEF Control
      <4>2. queue' \in Seq(Seq(Part))
        BY <3>2, <4>1
      <4>3. Len(queue') = Len(queue) - 1
        BY <3>2, <4>1
      <4> QED BY <3>1, <4>1, <4>2, <4>3
    <3>3. CASE queue' = queue
      BY <3>1, <3>3
    <3> QED BY <2>1, <3>2, <3>3
  <2>3. delivered' \in Seq(Part)
    <3>1. delivered \in Seq(Part)
      BY DEF Control, TypeOK
    <3>2. CASE queue # <<>> /\ delivered' = delivered \o Parse(Head(queue))
      <4>1. Parse(Head(queue)) \in Seq(Part)
        BY <3>2, QueueSteps, ParseIsParts DEF Control
      <4> QED BY <3>1, <3>2, <4>1, ConcatProperties
    <3> QED BY <2>1, <3>1, <3>2
  <2>4. TypeOK'
    BY <1>1, <2>1, <2>2, <2>3, EncoderAssumption DEF Control, TypeOK
  <2>5. NewestKept'
    BY <2>1, <2>2, EncoderAssumption DEF Control, NewestKept
  <2> QED BY <1>2, <2>4, <2>5 DEF Control, NoEncodeAfterClose
<1>4. CASE Write(c)
  <2>1. /\ UNCHANGED <<closer, closed, stdinOpen, ffmpeg, stdout, reader, queue, delivered>>
        /\ frameNum' = frameNum + 1 /\ ffmpeg.frames = frameNum
    BY <1>4 DEF Write
  <2>2. frameNum' \in Nat /\ frameNum' - ffmpeg'.frames \in {0, 1}
    BY <2>1 DEF Control, TypeOK
  <2>3. TypeOK'
    BY <1>1, <2>1, <2>2 DEF Control, TypeOK
  <2> QED BY <1>2, <2>1, <2>3 DEF Control, NoEncodeAfterClose, NewestKept
<1>5. CASE ~Receive(c) /\ ~Write(c)
  <2>1. UNCHANGED <<closer, closed, frameNum, stdinOpen, ffmpeg, stdout, reader, queue, delivered>>
    BY <1>5 DEF Encoding, NextFrame, NoFrame, Begin, Holding, WriteFails, Timeout
  <2> QED BY <1>1, <1>2, <2>1 DEF Control, TypeOK, NoEncodeAfterClose, NewestKept
<1> QED BY <1>3, <1>4, <1>5

LEMMA ReaderKeeps ==
  ASSUME Control, Reading
  PROVE  Control'
<1> USE EncoderAssumption
<1>1. /\ UNCHANGED <<caller, closer, closed, frameNum, stdinOpen, ffmpeg, delivered>>
      /\ NoEncodeAfterClose'
  BY DEF Reading, ReadChunk, Drain, Add, ReadEnds, Control, NoEncodeAfterClose, Locked
<1>2. /\ stdout' \in Seq(Part) /\ Len(stdout') <= OutPipe
  <2>1. <<>> \in Seq(Part) /\ Len(<<>>) = 0
    BY EmptySeq
  <2>2. stdout' = stdout \/ stdout' = <<>>
    BY DEF Reading, ReadChunk, Drain, Add, ReadEnds
  <2>3. CASE stdout' = stdout
    BY <2>3 DEF Control, TypeOK
  <2>4. CASE stdout' = <<>>
    <3>1. 0 <= OutPipe
      OBVIOUS
    <3> QED BY <2>1, <2>4, <3>1
  <2> QED BY <2>2, <2>3, <2>4
<1>3. reader' \in [pc : ReaderPc, chunk : Seq(Part)]
  <2>1. <<>> \in Seq(Part)
    BY EmptySeq
  <2>2. /\ reader \in [pc : ReaderPc, chunk : Seq(Part)] /\ stdout \in Seq(Part)
        /\ {"read", "drain", "add", "ended"} = ReaderPc
    BY DEF Control, TypeOK, ReaderPc
  <2>3. CASE ReadChunk
    <3>1. reader' = reader \/ reader' = [pc |-> "drain", chunk |-> stdout]
      BY <2>3 DEF ReadChunk
    <3> QED BY <2>2, <3>1
  <2>4. CASE Drain
    BY <2>2, <2>4 DEF Drain
  <2>5. CASE Add
    BY <2>1, <2>2, <2>5 DEF Add
  <2>6. CASE ReadEnds
    BY <2>2, <2>6 DEF ReadEnds
  <2> QED BY <2>3, <2>4, <2>5, <2>6 DEF Reading
<1>4. queue' \in Seq(Seq(Part)) /\ Len(queue') <= QueueCap /\ NewestKept'
  <2>1. stdout \in Seq(Part) /\ reader.chunk \in Seq(Part)
    BY DEF Control, TypeOK
  <2>2. /\ Len(queue) \in Nat /\ Len(queue) <= QueueCap /\ queue \in Seq(Seq(Part))
        /\ queue # <<>> => /\ Tail(queue) \in Seq(Seq(Part))
                           /\ Len(Tail(queue)) = Len(queue) - 1
        /\ \A chunk \in Seq(Part) :
             Append(queue, chunk) \in Seq(Seq(Part)) /\ Len(Append(queue, chunk)) = Len(queue) + 1
    BY QueueSteps DEF Control, TypeOK
  <2>3. CASE ReadChunk
    <3>1. reader'.pc # "add"
      BY <2>3 DEF ReadChunk
    <3>2. queue' = queue \/ (queue' = Append(queue, stdout) /\ Len(queue) < QueueCap)
      BY <2>3 DEF ReadChunk
    <3>3. NewestKept'
      BY <3>1 DEF NewestKept
    <3>4. CASE queue' = queue
      BY <2>2, <3>3, <3>4
    <3>5. CASE queue' = Append(queue, stdout) /\ Len(queue) < QueueCap
      <4>1. queue' \in Seq(Seq(Part)) /\ Len(queue') = Len(queue) + 1
        BY <2>1, <2>2, <3>5
      <4> QED BY <2>2, <3>3, <3>5, <4>1
    <3> QED BY <3>2, <3>4, <3>5
  <2>4. CASE Drain
    <3>1. \/ queue = <<>> /\ queue' = queue
          \/ queue # <<>> /\ queue' = Tail(queue)
      BY <2>4 DEF Drain
    <3>2. queue = <<>> => Len(queue) = 0
      BY EmptySeq
    <3>3. CASE queue = <<>> /\ queue' = queue
      <4>1. queue' \in Seq(Seq(Part)) /\ Len(queue') = 0
        BY <2>2, <3>2, <3>3
      <4> QED BY <4>1 DEF NewestKept
    <3>4. CASE queue # <<>> /\ queue' = Tail(queue)
      <4>1. queue' \in Seq(Seq(Part)) /\ Len(queue') = Len(queue) - 1
        BY <2>2, <3>4
      <4> QED BY <2>2, <4>1 DEF NewestKept
    <3> QED BY <3>1, <3>3, <3>4
  <2>5. CASE Add
    <3>1. reader'.pc # "add" /\ queue' = Append(queue, reader.chunk) /\ Len(queue) < QueueCap
      BY <2>5 DEF Add, Control, NewestKept
    <3> QED BY <2>1, <2>2, <3>1 DEF NewestKept
  <2>6. CASE ReadEnds
    <3>1. reader'.pc # "add" /\ queue' = queue
      BY <2>6 DEF ReadEnds, Control, TypeOK
    <3> QED BY <2>2, <3>1 DEF NewestKept
  <2> QED BY <2>3, <2>4, <2>5, <2>6 DEF Reading
<1> QED BY <1>1, <1>2, <1>3, <1>4 DEF Control, TypeOK

LEMMA CloseKeeps ==
  ASSUME Control, CallClose \/ CloseLocks \/ Closing
  PROVE  Control'
<1>1. UNCHANGED <<caller, frameNum, ffmpeg, stdout, reader, queue, delivered>>
  BY DEF CallClose, CloseLocks, Closing, CloseStdin, Waited
<1>2. closer' \in CloserPc
  BY DEF CallClose, CloseLocks, Closing, CloseStdin, Waited, CloserPc
<1>3. closed' \in BOOLEAN /\ stdinOpen' \in BOOLEAN
  BY DEF CallClose, CloseLocks, Closing, CloseStdin, Waited, Control, TypeOK
<1>4. TypeOK'
  BY <1>1, <1>2, <1>3 DEF Control, TypeOK
<1>5. NewestKept'
  BY <1>1 DEF Control, NewestKept
<1>6. NoEncodeAfterClose'
  <2>1. closed' = closed \/ ~Locked
    BY DEF CallClose, CloseLocks, Closing, CloseStdin, Waited
  <2>2. Locked' = Locked
    BY <1>1 DEF Locked
  <2> QED BY <2>1, <2>2 DEF Control, NoEncodeAfterClose
<1> QED BY <1>4, <1>5, <1>6 DEF Control

LEMMA FfmpegKeeps ==
  ASSUME Control, Serving \/ Crash
  PROVE  Control'
<1>1. /\ UNCHANGED <<caller, closer, closed, frameNum, stdinOpen, reader, queue, delivered>>
      /\ NoEncodeAfterClose' /\ NewestKept'
  BY DEF Serving, TakeFrame, WritePart, Exit, Crash, Control, NoEncodeAfterClose, NewestKept, Locked
<1>2. /\ stdout' \in Seq(Part) /\ Len(stdout') <= OutPipe
      /\ ffmpeg' \in [running : BOOLEAN, frames : Nat, pending : Seq(Part)]
      /\ frameNum - ffmpeg'.frames \in {0, 1}
  <2>1. /\ ffmpeg \in [running : BOOLEAN, frames : Nat, pending : Seq(Part)]
        /\ frameNum \in Nat /\ frameNum - ffmpeg.frames \in {0, 1}
        /\ stdout \in Seq(Part) /\ Len(stdout) <= OutPipe /\ OutPipe \in Nat
    BY EncoderAssumption DEF Control, TypeOK
  <2>2. CASE TakeFrame
    <3>1. ffmpeg.frames + 1 \in Nat /\ Unit(ffmpeg.frames + 1) \in Seq(Part)
      BY <2>1, UnitIsParts
    <3>2. /\ ffmpeg' = [ffmpeg EXCEPT !.frames = @ + 1, !.pending = Unit(ffmpeg.frames + 1)]
          /\ ffmpeg.frames < frameNum /\ stdout' = stdout
      BY <2>2 DEF TakeFrame
    <3>3. ffmpeg'.frames = ffmpeg.frames + 1
      BY <2>1, <3>2
    <3>4. ffmpeg' \in [running : BOOLEAN, frames : Nat, pending : Seq(Part)]
      BY <2>1, <3>1, <3>2
    <3> QED BY <2>1, <3>2, <3>3, <3>4
  <2>3. CASE WritePart
    <3>1. /\ ffmpeg.pending # <<>> /\ Len(stdout) < OutPipe
          /\ stdout' = Append(stdout, Head(ffmpeg.pending))
          /\ ffmpeg' = [ffmpeg EXCEPT !.pending = Tail(@)]
      BY <2>3 DEF WritePart
    <3>2. Head(ffmpeg.pending) \in Part /\ Tail(ffmpeg.pending) \in Seq(Part)
      BY <2>1, <3>1, HeadTailProperties
    <3>3. /\ ffmpeg' \in [running : BOOLEAN, frames : Nat, pending : Seq(Part)]
          /\ ffmpeg'.frames = ffmpeg.frames
      BY <2>1, <3>1, <3>2
    <3>4. stdout' \in Seq(Part) /\ Len(stdout') = Len(stdout) + 1 /\ Len(stdout) \in Nat
      BY <2>1, <3>1, <3>2, AppendProperties, LenProperties
    <3> QED BY <2>1, <3>1, <3>3, <3>4
  <2>4. CASE Exit
    BY <2>1, <2>4 DEF Exit
  <2>5. CASE Crash
    <3>1. <<>> \in Seq(Part)
      BY EmptySeq
    <3> QED BY <2>1, <2>5, <3>1 DEF Crash
  <2> QED BY <2>2, <2>3, <2>4, <2>5 DEF Serving
<1> QED BY <1>1, <1>2 DEF Control, TypeOK

LEMMA InitControl ==
  ASSUME Init
  PROVE  Control
<1>1. <<>> \in Seq(Part) /\ <<>> \in Seq(Seq(Part)) /\ Len(<<>>) = 0
  BY EmptySeq
<1>2. caller \in [Caller -> CallerPc]
  BY DEF Init, CallerPc
<1>3. /\ ffmpeg \in [running : BOOLEAN, frames : Nat, pending : Seq(Part)]
      /\ ffmpeg.frames = 0 /\ frameNum = 0
      /\ reader \in [pc : ReaderPc, chunk : Seq(Part)] /\ reader.pc = "read"
  BY <1>1 DEF Init, ReaderPc
<1>4. TypeOK
  <2>1. frameNum - ffmpeg.frames \in {0, 1} /\ frameNum \in Nat
    BY <1>3
  <2>2. stdout \in Seq(Part) /\ Len(stdout) = 0 /\ queue \in Seq(Seq(Part)) /\ Len(queue) = 0
        /\ delivered \in Seq(Part)
    BY <1>1 DEF Init
  <2>3. Len(stdout) <= OutPipe /\ Len(queue) <= QueueCap
    BY <2>2, EncoderAssumption
  <2>4. closer \in CloserPc /\ closed \in BOOLEAN /\ stdinOpen \in BOOLEAN
    BY DEF Init, CloserPc
  <2> QED BY <1>2, <1>3, <2>1, <2>2, <2>3, <2>4 DEF TypeOK
<1> QED BY <1>3, <1>4 DEF Init, Control, NoEncodeAfterClose, NewestKept

LEMMA ControlStep ==
  ASSUME Control, [Next]_vars
  PROVE  Control'
<1>1. CASE UNCHANGED vars
  BY <1>1 DEF Control, TypeOK, NoEncodeAfterClose, NewestKept, Locked, vars
<1> QED BY <1>1, CallersKeep, ReaderKeeps, CloseKeeps, FfmpegKeeps DEF Next

LEMMA ControlInductive == Spec => []Control
BY InitControl, ControlStep, PTL DEF Spec

\* The queue and the pipe keep their capacities, and ffmpeg is at most one frame
\* behind, however callers, readLoop, Close and ffmpeg interleave.
THEOREM EncoderTypes == Spec => []TypeOK
<1>1. Control => TypeOK
  BY DEF Control
<1> QED BY <1>1, ControlInductive, PTL

\* No frame is on its way in once Close has set closed (h264_encoder.go): the
\* check and the write are under one lock, and so is the setting.
THEOREM ClosedStaysClosed == Spec => []NoEncodeAfterClose
<1>1. Control => NoEncodeAfterClose
  BY DEF Control
<1> QED BY <1>1, ControlInductive, PTL

\* The chunk readLoop has just read always finds room after it has dropped the
\* oldest one, because nobody else adds to outputBuf.
THEOREM NewestAlwaysKept == Spec => []NewestKept
<1>1. Control => NewestKept
  BY DEF Control
<1> QED BY <1>1, ControlInductive, PTL

-----------------------------------------------------------------------------
(* The order of the stream *)

\* A chunk is a stretch of the stream, all of it is below a place, all of one is
\* before all of another, and chunks are in order.
Stretch(chunk) == \A i \in DOMAIN chunk : Place(chunk[i]) = Place(chunk[1]) + i - 1
Below(chunk, place) == \A i \in DOMAIN chunk : Place(chunk[i]) < place
Before(x, y) == \A j \in DOMAIN y : Below(x, Place(y[j]))
InOrder(chunks) == \A k, l \in DOMAIN chunks : k < l => Before(chunks[k], chunks[l])

\* Head, tail and code follow each other in the stream, and only they.
LEMMA PlaceIs ==
  ASSUME NEW part \in Part
  PROVE  /\ part.frame \in Nat /\ Place(part) \in Nat
         /\ \/ part.kind = "code" /\ Place(part) = 3 * part.frame + 1
            \/ part.kind = "head" /\ Place(part) = 3 * part.frame + 2
            \/ part.kind = "tail" /\ Place(part) = 3 * part.frame + 3
<1> DEFINE number == CHOOSE k \in 1 .. 3 : Kind[k] = part.kind
<1>1. part.frame \in Nat /\ part.kind \in {"code", "head", "tail"}
  BY KindsAre DEF Part
<1>2. Kind[1] = "code" /\ Kind[2] = "head" /\ Kind[3] = "tail" /\ 1 .. 3 = {1, 2, 3}
  BY DEF Kind
<1>3. \E k \in 1 .. 3 : Kind[k] = part.kind
  BY <1>1, <1>2
<1>4. number \in {1, 2, 3} /\ Kind[number] = part.kind
  BY <1>2, <1>3
<1>5. Place(part) = 3 * part.frame + number
  BY DEF Place
<1> HIDE DEF number
<1>6. Place(part) \in Nat
  BY <1>1, <1>4, <1>5
<1>7. CASE number = 1
  BY <1>1, <1>2, <1>4, <1>5, <1>6, <1>7
<1>8. CASE number = 2
  BY <1>1, <1>2, <1>4, <1>5, <1>6, <1>8
<1>9. CASE number = 3
  BY <1>1, <1>2, <1>4, <1>5, <1>6, <1>9
<1> QED BY <1>4, <1>7, <1>8, <1>9

\* Behind a code comes the rest of its unit, before a code another unit.
LEMMA NextPlaces ==
  ASSUME NEW x \in Part, NEW y \in Part, Place(y) = Place(x) + 1
  PROVE  /\ x.kind = "code" => y.frame = x.frame
         /\ y.kind = "code" => x.kind # "code"
<1>1. /\ x.frame \in Nat
      /\ \/ x.kind = "code" /\ Place(x) = 3 * x.frame + 1
         \/ x.kind = "head" /\ Place(x) = 3 * x.frame + 2
         \/ x.kind = "tail" /\ Place(x) = 3 * x.frame + 3
  BY PlaceIs
<1>2. /\ y.frame \in Nat
      /\ \/ y.kind = "code" /\ Place(y) = 3 * y.frame + 1
         \/ y.kind = "head" /\ Place(y) = 3 * y.frame + 2
         \/ y.kind = "tail" /\ Place(y) = 3 * y.frame + 3
  BY PlaceIs
<1>3. ASSUME x.kind = "code"
      PROVE  y.frame = x.frame
  <2>1. Place(y) = 3 * x.frame + 2
    BY <1>1, <1>3
  <2> QED BY <1>1, <1>2, <2>1
<1>4. ASSUME x.kind = "code", y.kind = "code"
      PROVE  FALSE
  <2>1. Place(x) = 3 * x.frame + 1 /\ Place(y) = 3 * y.frame + 1
    BY <1>1, <1>2, <1>4
  <2> QED BY <1>1, <1>2, <2>1
<1> QED BY <1>3, <1>4

\* Whatever is parsed out of a chunk is in the chunk.
LEMMA ParseElements ==
  ASSUME NEW chunk \in Seq(Part), NEW i \in DOMAIN Parse(chunk)
  PROVE  \E k \in DOMAIN chunk : Parse(chunk)[i] = chunk[k]
<1>1. CASE Codes(chunk) = {}
  <2>1. Parse(chunk) = <<>>
    BY <1>1, Zenon DEF Parse, Codes
  <2> QED BY <2>1
<1>2. CASE Codes(chunk) # {}
  <2> DEFINE from == Min(Codes(chunk))
             end == ParseEnd(chunk)
  <2>1. /\ Parse(chunk) = SubSeq(chunk, from, end)
        /\ from \in 1 .. Len(chunk) /\ end \in 0 .. Len(chunk) /\ end - from + 1 \in Nat
        /\ Len(chunk) \in Nat /\ DOMAIN chunk = 1 .. Len(chunk)
    BY <1>2, ParseIsStretch, LenProperties
  <2> HIDE DEF from, end
  <2>2. DOMAIN SubSeq(chunk, from, end) = 1 .. end - from + 1
    BY <2>1
  <2>3. \A k \in 1 .. end - from + 1 : SubSeq(chunk, from, end)[k] = chunk[from + k - 1]
    BY <2>1
  <2>4. i \in 1 .. end - from + 1 /\ Parse(chunk)[i] = chunk[from + i - 1]
    BY <2>1, <2>2, <2>3
  <2>5. from + i - 1 \in DOMAIN chunk
    BY <2>1, <2>4
  <2> QED BY <2>4, <2>5
<1> QED BY <1>1, <1>2

LEMMA BelowFacts ==
  ASSUME NEW x \in Seq(Part), NEW place \in Nat, Below(x, place)
  PROVE  /\ \A y \in Seq(Part) : Below(y, place) => Below(x \o y, place)
         /\ \A part \in Part : Place(part) < place => Below(Append(x, part), place)
         /\ Below(Parse(x), place)
         /\ \A higher \in Nat : place <= higher => Below(x, higher)
<1>0. \A i \in DOMAIN x : x[i] \in Part /\ Place(x[i]) \in Nat
  BY PlaceIs, ElementOfSeq, LenProperties
<1>1. ASSUME NEW y \in Seq(Part), Below(y, place)
      PROVE  Below(x \o y, place)
  <2>1. /\ DOMAIN x = 1 .. Len(x) /\ DOMAIN y = 1 .. Len(y)
        /\ Len(x) \in Nat /\ Len(y) \in Nat
        /\ DOMAIN (x \o y) = 1 .. Len(x) + Len(y)
        /\ \A i \in 1 .. Len(x) + Len(y) :
             (x \o y)[i] = IF i <= Len(x) THEN x[i] ELSE y[i - Len(x)]
    BY ConcatProperties, LenProperties
  <2>2. ASSUME NEW i \in 1 .. Len(x) + Len(y)
        PROVE  Place((x \o y)[i]) < place
    <3>1. CASE i <= Len(x)
      BY <2>1, <3>1 DEF Below
    <3>2. CASE i > Len(x)
      <4>1. (x \o y)[i] = y[i - Len(x)] /\ i - Len(x) \in DOMAIN y
        BY <2>1, <3>2
      <4> QED BY <1>1, <4>1 DEF Below
    <3> QED BY <2>1, <3>1, <3>2
  <2> QED BY <2>1, <2>2 DEF Below
<1>2. ASSUME NEW part \in Part, Place(part) < place
      PROVE  Below(Append(x, part), place)
  <2>1. /\ DOMAIN x = 1 .. Len(x) /\ Len(x) \in Nat
        /\ DOMAIN Append(x, part) = 1 .. Len(x) + 1
        /\ \A i \in 1 .. Len(x) : Append(x, part)[i] = x[i]
        /\ Append(x, part)[Len(x) + 1] = part
    BY AppendProperties, LenProperties
  <2>2. ASSUME NEW i \in 1 .. Len(x) + 1
        PROVE  Place(Append(x, part)[i]) < place
    <3>1. CASE i \in 1 .. Len(x)
      BY <2>1, <3>1 DEF Below
    <3>2. CASE i = Len(x) + 1
      BY <1>2, <2>1, <3>2
    <3> QED BY <2>1, <3>1, <3>2
  <2> QED BY <2>1, <2>2 DEF Below
<1>3. Below(Parse(x), place)
  BY ParseElements DEF Below
<1>4. ASSUME NEW higher \in Nat, place <= higher
      PROVE  Below(x, higher)
  BY <1>0, <1>4 DEF Below
<1> QED BY <1>1, <1>2, <1>3, <1>4

\* The empty chunk is below and before everything.
LEMMA EmptyFacts ==
  /\ Stretch(<<>>)
  /\ \A place : Below(<<>>, place)
  /\ \A x : Before(x, <<>>) /\ Before(<<>>, x)
BY DEF Stretch, Below, Before

LEMMA BeforeFacts ==
  ASSUME NEW x \in Seq(Part), NEW y \in Seq(Part), Before(x, y)
  PROVE  /\ \A z \in Seq(Part) : Before(z, y) => Before(x \o z, y)
         /\ \A part \in Part : Below(x, Place(part)) => Before(x, Append(y, part))
         /\ Before(Parse(x), y)
<1>1. \A j \in DOMAIN y : Place(y[j]) \in Nat
  BY PlaceIs, ElementOfSeq, LenProperties
<1>2. ASSUME NEW z \in Seq(Part), Before(z, y)
      PROVE  Before(x \o z, y)
  BY <1>1, <1>2, BelowFacts DEF Before
<1>3. ASSUME NEW part \in Part, Below(x, Place(part))
      PROVE  Before(x, Append(y, part))
  <2>1. /\ DOMAIN y = 1 .. Len(y) /\ Len(y) \in Nat
        /\ DOMAIN Append(y, part) = 1 .. Len(y) + 1
        /\ \A i \in 1 .. Len(y) : Append(y, part)[i] = y[i]
        /\ Append(y, part)[Len(y) + 1] = part
    BY AppendProperties, LenProperties
  <2>2. ASSUME NEW i \in 1 .. Len(y) + 1
        PROVE  Below(x, Place(Append(y, part)[i]))
    <3>1. CASE i \in 1 .. Len(y)
      BY <2>1, <3>1 DEF Before
    <3>2. CASE i = Len(y) + 1
      BY <1>3, <2>1, <3>2
    <3> QED BY <2>1, <3>1, <3>2
  <2> QED BY <2>1, <2>2 DEF Before
<1>4. Before(Parse(x), y)
  BY <1>1, BelowFacts DEF Before
<1> QED BY <1>2, <1>3, <1>4

LEMMA OrderFacts ==
  ASSUME NEW chunks \in Seq(Seq(Part)), InOrder(chunks)
  PROVE  /\ chunks # <<>> =>
              /\ Head(chunks) \in Range(chunks) /\ Range(Tail(chunks)) \subseteq Range(chunks)
              /\ InOrder(Tail(chunks))
              /\ \A chunk \in Range(Tail(chunks)) : Before(Head(chunks), chunk)
         /\ \A new \in Seq(Part) :
              (\A chunk \in Range(chunks) : Before(chunk, new)) =>
                /\ Range(Append(chunks, new)) = Range(chunks) \cup {new}
                /\ InOrder(Append(chunks, new))
<1>1. Len(chunks) \in Nat /\ DOMAIN chunks = 1 .. Len(chunks)
  BY LenProperties
<1>2. ASSUME chunks # <<>>
      PROVE  /\ Head(chunks) \in Range(chunks) /\ Range(Tail(chunks)) \subseteq Range(chunks)
             /\ InOrder(Tail(chunks))
             /\ \A chunk \in Range(Tail(chunks)) : Before(Head(chunks), chunk)
  <2>1. /\ Len(chunks) > 0 /\ Head(chunks) = chunks[1]
        /\ DOMAIN Tail(chunks) = 1 .. Len(chunks) - 1
        /\ \A i \in 1 .. Len(chunks) - 1 : Tail(chunks)[i] = chunks[i + 1]
    <3>1. Len(chunks) > 0
      BY <1>2, EmptySeq
    <3>2. /\ Tail(chunks) \in Seq(Seq(Part)) /\ Len(Tail(chunks)) = Len(chunks) - 1
          /\ \A i \in 1 .. Len(Tail(chunks)) : Tail(chunks)[i] = chunks[i + 1]
      BY <1>2, HeadTailProperties
    <3>3. DOMAIN Tail(chunks) = 1 .. Len(Tail(chunks))
      BY <3>2, LenProperties
    <3>4. Head(chunks) = chunks[1]
      BY <1>2
    <3> QED BY <3>1, <3>2, <3>3, <3>4
  <2>2. Head(chunks) \in Range(chunks)
    BY <1>1, <2>1 DEF Range
  <2>3. Range(Tail(chunks)) \subseteq Range(chunks)
    <3>1. \A i \in 1 .. Len(chunks) - 1 : i + 1 \in DOMAIN chunks
      BY <1>1
    <3> QED BY <2>1, <3>1 DEF Range
  <2>4. InOrder(Tail(chunks))
    <3>1. ASSUME NEW k \in 1 .. Len(chunks) - 1, NEW l \in 1 .. Len(chunks) - 1, k < l
          PROVE  Before(Tail(chunks)[k], Tail(chunks)[l])
      <4>1. k + 1 \in DOMAIN chunks /\ l + 1 \in DOMAIN chunks /\ k + 1 < l + 1
        BY <1>1, <3>1
      <4> QED BY <2>1, <4>1 DEF InOrder
    <3> QED BY <2>1, <3>1 DEF InOrder
  <2>5. \A chunk \in Range(Tail(chunks)) : Before(Head(chunks), chunk)
    <3>1. ASSUME NEW k \in 1 .. Len(chunks) - 1
          PROVE  Before(chunks[1], Tail(chunks)[k])
      <4>1. 1 \in DOMAIN chunks /\ k + 1 \in DOMAIN chunks /\ 1 < k + 1
        BY <1>1, <2>1
      <4> QED BY <2>1, <4>1 DEF InOrder
    <3> QED BY <2>1, <3>1 DEF Range
  <2> QED BY <2>2, <2>3, <2>4, <2>5
<1>3. ASSUME NEW new \in Seq(Part), \A chunk \in Range(chunks) : Before(chunk, new)
      PROVE  /\ Range(Append(chunks, new)) = Range(chunks) \cup {new}
             /\ InOrder(Append(chunks, new))
  <2>1. /\ DOMAIN Append(chunks, new) = 1 .. Len(chunks) + 1
        /\ \A i \in 1 .. Len(chunks) : Append(chunks, new)[i] = chunks[i]
        /\ Append(chunks, new)[Len(chunks) + 1] = new
    BY <1>1, AppendProperties, LenProperties
  <2>2. Range(Append(chunks, new)) = Range(chunks) \cup {new}
    BY <1>1, <2>1 DEF Range
  <2>3. ASSUME NEW k \in 1 .. Len(chunks) + 1, NEW l \in 1 .. Len(chunks) + 1, k < l
        PROVE  Before(Append(chunks, new)[k], Append(chunks, new)[l])
    <3>1. k \in DOMAIN chunks /\ Append(chunks, new)[k] = chunks[k]
      BY <1>1, <2>1, <2>3
    <3>2. CASE l = Len(chunks) + 1
      BY <1>3, <2>1, <3>1, <3>2 DEF Range
    <3>3. CASE l \in DOMAIN chunks
      BY <1>1, <2>1, <2>3, <3>1, <3>3 DEF InOrder
    <3> QED BY <1>1, <3>2, <3>3
  <2> QED BY <2>1, <2>2, <2>3 DEF InOrder
<1> QED BY <1>2, <1>3

\* What is parsed out of a stretch is one, begins with a start code and does not
\* end with one.
LEMMA ParseIsClean ==
  ASSUME NEW chunk \in Seq(Part), Stretch(chunk), Parse(chunk) # <<>>
  PROVE  /\ Len(Parse(chunk)) \in Nat \ {0}
         /\ Parse(chunk)[1].kind = "code" /\ Parse(chunk)[Len(Parse(chunk))].kind # "code"
         /\ \A i \in 1 .. Len(Parse(chunk)) - 1 :
              Place(Parse(chunk)[i + 1]) = Place(Parse(chunk)[i]) + 1
<1> DEFINE parsed == Parse(chunk)
           from == Min(Codes(chunk))
           end == ParseEnd(chunk)
<1>1. Codes(chunk) # {}
  BY Zenon DEF Parse, Codes
<1>2. /\ parsed = SubSeq(chunk, from, end) /\ from \in Codes(chunk)
      /\ from \in 1 .. Len(chunk) /\ end \in 0 .. Len(chunk) /\ end - from + 1 \in Nat
      /\ Len(chunk) \in Nat /\ DOMAIN chunk = 1 .. Len(chunk)
  BY <1>1, ParseIsStretch, LenProperties
<1>3. chunk[from].kind = "code"
  BY <1>2 DEF Codes
<1>4. \/ end = Len(chunk) - 1 /\ chunk[Len(chunk)].kind = "code"
      \/ end = Len(chunk) /\ chunk[Len(chunk)].kind # "code"
  <2>1. Len(chunk) \in DOMAIN chunk
    BY <1>2
  <2>2. Len(chunk) \in Codes(chunk) <=> chunk[Len(chunk)].kind = "code"
    BY <2>1, Zenon DEF Codes
  <2> QED BY <2>2 DEF ParseEnd
<1> HIDE DEF from, end
<1>5. /\ Len(SubSeq(chunk, from, end)) = end - from + 1
      /\ \A k \in 1 .. end - from + 1 : SubSeq(chunk, from, end)[k] = chunk[from + k - 1]
  BY <1>2
<1>6. /\ Len(parsed) = end - from + 1 /\ Len(parsed) \in Nat \ {0}
      /\ \A k \in 1 .. Len(parsed) : parsed[k] = chunk[from + k - 1]
  <2>1. Len(parsed) # 0
    BY ParseIsParts, EmptySeq
  <2> QED BY <1>2, <1>5, <2>1
<1> HIDE DEF parsed
<1>7. parsed[1].kind = "code"
  <2>1. 1 \in 1 .. Len(parsed) /\ from + 1 - 1 = from
    BY <1>2, <1>6
  <2>2. parsed[1] = chunk[from]
    BY <1>6, <2>1
  <2> QED BY <1>3, <2>2
<1>8. \A k \in DOMAIN chunk :
        /\ chunk[k] \in Part /\ Place(chunk[k]) \in Nat
        /\ Place(chunk[k]) = Place(chunk[1]) + k - 1
  BY PlaceIs, ElementOfSeq, LenProperties DEF Stretch
<1>9. parsed[Len(parsed)].kind # "code"
  <2>1. parsed[Len(parsed)] = chunk[end]
    <3>1. Len(parsed) \in 1 .. Len(parsed) /\ from + Len(parsed) - 1 = end
      BY <1>2, <1>6
    <3> QED BY <1>6, <3>1
  <2>2. CASE end = Len(chunk) /\ chunk[Len(chunk)].kind # "code"
    BY <2>1, <2>2
  <2>3. CASE end = Len(chunk) - 1 /\ chunk[Len(chunk)].kind = "code"
    <3>1. end \in DOMAIN chunk /\ Len(chunk) \in DOMAIN chunk /\ 1 \in DOMAIN chunk
      <4>1. end - from + 1 \in Nat \ {0} /\ from \in 1 .. Len(chunk) /\ Len(chunk) \in Nat
        BY <1>2, <1>6
      <4>2. end = Len(chunk) - 1
        BY <2>3
      <4>3. end \in 1 .. Len(chunk) /\ Len(chunk) \in 1 .. Len(chunk) /\ 1 \in 1 .. Len(chunk)
        BY <4>1, <4>2
      <4> QED BY <1>2, <4>3
    <3>2. Place(chunk[Len(chunk)]) = Place(chunk[end]) + 1
      <4>1. /\ Place(chunk[Len(chunk)]) = Place(chunk[1]) + Len(chunk) - 1
            /\ Place(chunk[end]) = Place(chunk[1]) + end - 1
            /\ Place(chunk[1]) \in Nat /\ Len(chunk) \in Nat
        BY <1>2, <1>8, <3>1
      <4>2. end = Len(chunk) - 1
        BY <2>3
      <4> QED BY <4>1, <4>2
    <3>3. /\ chunk[end] \in Part /\ chunk[Len(chunk)] \in Part
      BY <1>8, <3>1
    <3> QED BY <2>1, <2>3, <3>2, <3>3, NextPlaces
  <2> QED BY <1>4, <2>2, <2>3
<1>10. ASSUME NEW i \in 1 .. Len(parsed) - 1
       PROVE  Place(parsed[i + 1]) = Place(parsed[i]) + 1
  <2>1. /\ i \in 1 .. Len(parsed) /\ i + 1 \in 1 .. Len(parsed)
        /\ from + i - 1 \in DOMAIN chunk /\ from + i \in DOMAIN chunk
        /\ from + (i + 1) - 1 = from + i /\ 1 \in DOMAIN chunk
    BY <1>2, <1>6
  <2>2. parsed[i] = chunk[from + i - 1] /\ parsed[i + 1] = chunk[from + i]
    BY <1>6, <2>1
  <2>3. /\ Place(chunk[from + i - 1]) = Place(chunk[1]) + (from + i - 1) - 1
        /\ Place(chunk[from + i]) = Place(chunk[1]) + (from + i) - 1
        /\ Place(chunk[1]) \in Nat
    BY <1>8, <2>1
  <2>4. from \in Int /\ i \in Int
    BY <1>2, <1>6
  <2>5. Place(chunk[from + i]) = Place(chunk[from + i - 1]) + 1
    BY <2>3, <2>4
  <2> QED BY <2>2, <2>5
<1> QED BY <1>6, <1>7, <1>9, <1>10 DEF parsed

\* What comes after the stream so far and is clean itself keeps it clean.
LEMMA CleanGrows ==
  ASSUME TypeOK, CleanStream, NEW chunk \in Seq(Part), Stretch(chunk), Before(delivered, chunk),
         delivered' = delivered \o Parse(chunk)
  PROVE  CleanStream'
<1> DEFINE parsed == Parse(chunk)
           got == Len(delivered)
           more == Len(parsed)
<1>1. CASE parsed = <<>>
  <2>1. delivered' = delivered
    BY <1>1 DEF TypeOK
  <2> QED BY <2>1 DEF CleanStream
<1>2. CASE parsed # <<>>
  <2>1. /\ parsed \in Seq(Part) /\ more \in Nat \ {0}
        /\ parsed[1].kind = "code" /\ parsed[more].kind # "code"
        /\ \A i \in 1 .. more - 1 : Place(parsed[i + 1]) = Place(parsed[i]) + 1
    BY <1>2, ParseIsParts, ParseIsClean
  <2>2. \A i \in DOMAIN delivered : Place(delivered[i]) < Place(parsed[1])
    <3>1. 1 \in DOMAIN parsed
      BY <2>1, LenProperties
    <3>2. PICK k \in DOMAIN chunk : parsed[1] = chunk[k]
      BY <3>1, ParseElements
    <3> QED BY <3>2 DEF Before, Below
  <2> HIDE DEF parsed
  <2>3. /\ got \in Nat /\ DOMAIN delivered = 1 .. got /\ delivered \in Seq(Part)
        /\ Len(delivered \o parsed) = got + more
        /\ DOMAIN (delivered \o parsed) = 1 .. got + more
        /\ \A i \in 1 .. got : (delivered \o parsed)[i] = delivered[i]
        /\ \A i \in 1 .. more : (delivered \o parsed)[got + i] = parsed[i]
    <3>1. got \in Nat /\ DOMAIN delivered = 1 .. got /\ delivered \in Seq(Part)
      BY LenProperties DEF TypeOK
    <3>2. /\ delivered \o parsed \in Seq(Part) /\ Len(delivered \o parsed) = got + more
          /\ \A i \in 1 .. got + more :
               (delivered \o parsed)[i] = IF i <= got THEN delivered[i] ELSE parsed[i - got]
      BY <2>1, <3>1, ConcatProperties
    <3>3. DOMAIN (delivered \o parsed) = 1 .. got + more
      BY <3>2, LenProperties
    <3>4. \A i \in 1 .. got : (delivered \o parsed)[i] = delivered[i]
      BY <2>1, <3>1, <3>2
    <3>5. ASSUME NEW i \in 1 .. more
          PROVE  (delivered \o parsed)[got + i] = parsed[i]
      <4>1. got + i \in 1 .. got + more /\ ~(got + i <= got) /\ got + i - got = i
        BY <2>1, <3>1
      <4> QED BY <3>2, <4>1
    <3> QED BY <3>1, <3>2, <3>3, <3>4, <3>5
  <2> DEFINE new == delivered \o parsed
  <2>4. delivered' = new
    BY DEF parsed
  <2> HIDE DEF got, more
  <2>5. ASSUME NEW i \in 1 .. got + more
        PROVE  i \in 1 .. got \/ \E j \in 1 .. more : i = got + j
    <3>1. CASE i > got
      <4>1. i - got \in 1 .. more /\ i = got + (i - got)
        BY <2>1, <2>3, <3>1
      <4> QED BY <4>1
    <3> QED BY <2>3, <3>1
  <2>6. \A j \in 1 .. more : parsed[j] \in Part /\ Place(parsed[j]) \in Nat
    BY <2>1, PlaceIs, ElementOfSeq DEF more
  <2>7. ASSUME NEW i \in 1 .. got + more - 1
        PROVE  Place(new[i]) < Place(new[i + 1])
    <3>1. CASE i \in 1 .. got - 1
      <4>1. i \in 1 .. got /\ i + 1 \in 1 .. got
        BY <2>3, <3>1
      <4> QED BY <2>3, <3>1, <4>1 DEF CleanStream, got
    <3>2. CASE i = got
      <4>1. i \in 1 .. got /\ 1 \in 1 .. more /\ i \in DOMAIN delivered
        BY <2>1, <2>3, <3>2
      <4>2. new[i] = delivered[i] /\ new[i + 1] = parsed[1]
        BY <2>3, <3>2, <4>1
      <4> QED BY <2>2, <4>1, <4>2
    <3>3. CASE i > got
      <4>1. PICK j \in 1 .. more : i = got + j
        BY <2>1, <2>3, <2>5, <3>3
      <4>2. j \in 1 .. more - 1 /\ j + 1 \in 1 .. more /\ i + 1 = got + (j + 1)
        BY <2>1, <2>3, <4>1
      <4>3. new[i] = parsed[j] /\ new[i + 1] = parsed[j + 1]
        BY <2>3, <4>1, <4>2
      <4> QED BY <2>1, <2>6, <4>2, <4>3
    <3> QED BY <2>1, <2>3, <3>1, <3>2, <3>3
  <2>8. ASSUME NEW i \in 1 .. got + more, new[i].kind # "code"
        PROVE  i > 1 /\ Place(new[i - 1]) = Place(new[i]) - 1
    <3>1. CASE i \in 1 .. got
      <4>1. i > 1 /\ Place(delivered[i - 1]) = Place(delivered[i]) - 1
        BY <2>3, <2>8, <3>1 DEF CleanStream
      <4>2. i - 1 \in 1 .. got
        BY <2>3, <3>1, <4>1
      <4> QED BY <2>3, <3>1, <4>1, <4>2
    <3>2. ASSUME NEW j \in 1 .. more, i = got + j
          PROVE  i > 1 /\ Place(new[i - 1]) = Place(new[i]) - 1
      <4>1. new[i] = parsed[j]
        BY <2>3, <3>2
      <4>2. j # 1
        BY <2>1, <2>8, <4>1
      <4>3. j - 1 \in 1 .. more - 1 /\ j - 1 \in 1 .. more /\ (j - 1) + 1 = j
            /\ i - 1 = got + (j - 1) /\ i > 1
        BY <2>1, <2>3, <3>2, <4>2
      <4>4. new[i - 1] = parsed[j - 1]
        BY <2>3, <4>3
      <4>5. Place(parsed[j]) = Place(parsed[j - 1]) + 1
        BY <2>1, <4>3
      <4> QED BY <2>6, <4>1, <4>3, <4>4, <4>5
    <3> QED BY <2>5, <3>1, <3>2
  <2>9. ASSUME NEW i \in 1 .. got + more, new[i].kind = "code"
        PROVE  i < got + more /\ new[i + 1].frame = new[i].frame
    <3>1. CASE i \in 1 .. got
      <4>1. i < got /\ delivered[i + 1].frame = delivered[i].frame
        BY <2>3, <2>9, <3>1 DEF CleanStream, got
      <4>2. i + 1 \in 1 .. got
        BY <2>3, <3>1, <4>1
      <4> QED BY <2>1, <2>3, <3>1, <4>1, <4>2
    <3>2. ASSUME NEW j \in 1 .. more, i = got + j
          PROVE  i < got + more /\ new[i + 1].frame = new[i].frame
      <4>1. new[i] = parsed[j]
        BY <2>3, <3>2
      <4>2. j # more
        BY <2>1, <2>9, <4>1
      <4>3. j \in 1 .. more - 1 /\ j + 1 \in 1 .. more /\ i + 1 = got + (j + 1) /\ i < got + more
        BY <2>1, <2>3, <3>2, <4>2
      <4>4. new[i + 1] = parsed[j + 1]
        BY <2>3, <4>3
      <4>5. Place(parsed[j + 1]) = Place(parsed[j]) + 1 /\ parsed[j].kind = "code"
        BY <2>1, <2>9, <4>1, <4>3
      <4>6. parsed[j + 1].frame = parsed[j].frame
        BY <2>6, <4>3, <4>5, NextPlaces
      <4> QED BY <4>1, <4>3, <4>4, <4>6
    <3> QED BY <2>5, <3>1, <3>2
  <2> HIDE DEF new
  <2>10. Len(new) = got + more /\ DOMAIN new = 1 .. got + more
    BY <2>3 DEF new
  <2>11. /\ \A i \in 1 .. Len(new) - 1 : Place(new[i]) < Place(new[i + 1])
         /\ \A i \in DOMAIN new :
              /\ new[i].kind # "code" => i > 1 /\ Place(new[i - 1]) = Place(new[i]) - 1
              /\ new[i].kind = "code" => i < Len(new) /\ new[i + 1].frame = new[i].frame
    <3>1. \A i \in 1 .. Len(new) - 1 : Place(new[i]) < Place(new[i + 1])
      <4>1. Len(new) - 1 = got + more - 1
        BY <2>1, <2>3, <2>10
      <4> QED BY <2>7, <4>1, Zenon
    <3>2. \A i \in DOMAIN new :
            new[i].kind # "code" => i > 1 /\ Place(new[i - 1]) = Place(new[i]) - 1
      BY <2>8, <2>10
    <3>3. \A i \in DOMAIN new :
            new[i].kind = "code" => i < Len(new) /\ new[i + 1].frame = new[i].frame
      BY <2>9, <2>10
    <3> QED BY <3>1, <3>2, <3>3
  <2> QED BY <2>4, <2>11 DEF CleanStream
<1> QED BY <1>1, <1>2

\* The place of what ffmpeg writes next, and the chunks on their way to a caller.
NextPlace == 3 * ffmpeg.frames + 4 - Len(ffmpeg.pending)
Buffered == Range(queue) \cup {reader.chunk, stdout}

\* ffmpeg writes one place after the other; readLoop holds a chunk only between
\* the two selects; what is on its way are stretches of the stream so far, in
\* order, and behind all that has been delivered.
Answering ==
  /\ Len(ffmpeg.pending) <= 3
  /\ \A i \in DOMAIN ffmpeg.pending : Place(ffmpeg.pending[i]) = NextPlace + i - 1
  /\ ffmpeg.running =>
       \A i \in DOMAIN stdout : Place(stdout[i]) = NextPlace - Len(stdout) + i - 1
EmptyHanded == reader.pc \in {"read", "ended"} => reader.chunk = <<>>
Whole == \A chunk \in Buffered : Stretch(chunk) /\ Below(chunk, NextPlace)
Behind == Below(delivered, NextPlace) /\ \A chunk \in Buffered : Before(delivered, chunk)
Orderly ==
  /\ InOrder(queue)
  /\ \A chunk \in Range(queue) : Before(chunk, reader.chunk) /\ Before(chunk, stdout)
  /\ Before(reader.chunk, stdout)

StreamInv == Control /\ Answering /\ EmptyHanded /\ Whole /\ Behind /\ Orderly /\ CleanStream

LEMMA StreamTypes ==
  ASSUME StreamInv
  PROVE  /\ delivered \in Seq(Part) /\ stdout \in Seq(Part) /\ queue \in Seq(Seq(Part))
         /\ reader \in [pc : ReaderPc, chunk : Seq(Part)] /\ reader.chunk \in Seq(Part)
         /\ ffmpeg \in [running : BOOLEAN, frames : Nat, pending : Seq(Part)]
         /\ \A chunk \in Buffered : chunk \in Seq(Part)
         /\ NextPlace \in Nat /\ Len(ffmpeg.pending) \in Nat /\ Len(stdout) \in Nat
<1>1. /\ delivered \in Seq(Part) /\ stdout \in Seq(Part) /\ queue \in Seq(Seq(Part))
      /\ reader \in [pc : ReaderPc, chunk : Seq(Part)] /\ reader.chunk \in Seq(Part)
      /\ ffmpeg \in [running : BOOLEAN, frames : Nat, pending : Seq(Part)]
  BY DEF StreamInv, Control, TypeOK
<1>2. \A chunk \in Range(queue) : chunk \in Seq(Part)
  BY <1>1, ElementOfSeq, LenProperties DEF Range
<1>3. Len(ffmpeg.pending) \in Nat /\ Len(stdout) \in Nat
  BY <1>1, LenProperties
<1>4. NextPlace \in Nat
  <2>1. ffmpeg.frames \in Nat /\ Len(ffmpeg.pending) <= 3
    BY <1>1 DEF StreamInv, Answering
  <2> QED BY <1>3, <2>1 DEF NextPlace
<1> QED BY <1>1, <1>2, <1>3, <1>4 DEF Buffered

\* The queue as it is or without its head.
LEMMA Shrinks ==
  ASSUME StreamInv, UNCHANGED <<ffmpeg, stdout>>, reader'.chunk = reader.chunk,
         queue' = queue \/ (queue # <<>> /\ queue' = Tail(queue))
  PROVE  /\ Buffered' \subseteq Buffered /\ NextPlace' = NextPlace
         /\ Answering' /\ Whole' /\ Orderly'
<1>1. Range(queue') \subseteq Range(queue) /\ InOrder(queue')
  BY StreamTypes, OrderFacts DEF StreamInv, Orderly
<1>2. Buffered' \subseteq Buffered
  BY <1>1 DEF Buffered
<1>3. NextPlace' = NextPlace
  BY DEF NextPlace
<1>4. Answering'
  BY <1>3 DEF StreamInv, Answering
<1>5. Whole'
  BY <1>2, <1>3 DEF StreamInv, Whole
<1>6. Orderly'
  BY <1>1 DEF StreamInv, Orderly
<1> QED BY <1>2, <1>3, <1>4, <1>5, <1>6

\* A caller takes the oldest chunk: it comes before all that are left.
LEMMA ReceiveInOrder ==
  ASSUME StreamInv, NEW c \in Caller, Receive(c), Control'
  PROVE  StreamInv'
<1>1. UNCHANGED <<ffmpeg, stdout, reader>>
  BY DEF Receive
<1>2. CASE queue # <<>> /\ delivered' = delivered \o Parse(Head(queue)) /\ queue' = Tail(queue)
  <2> DEFINE first == Head(queue)
  <2>1. /\ first \in Buffered /\ first \in Seq(Part) /\ Parse(first) \in Seq(Part)
        /\ \A chunk \in Range(Tail(queue)) : Before(first, chunk)
    BY <1>2, StreamTypes, OrderFacts, ParseIsParts DEF StreamInv, Orderly, Buffered
  <2>2. Before(first, reader.chunk) /\ Before(first, stdout)
    BY <1>2, StreamTypes, OrderFacts DEF StreamInv, Orderly
  <2>3. \A chunk \in Buffered' : Before(first, chunk)
    BY <1>1, <1>2, <2>1, <2>2 DEF Buffered
  <2>4. /\ Buffered' \subseteq Buffered /\ NextPlace' = NextPlace
        /\ Answering' /\ Whole' /\ Orderly'
    BY <1>1, <1>2, Shrinks
  <2> HIDE DEF first
  <2>5. Below(delivered', NextPlace)
    <3>1. Below(first, NextPlace) /\ Below(delivered, NextPlace) /\ NextPlace \in Nat
      BY <2>1, StreamTypes DEF StreamInv, Whole, Behind
    <3>2. Below(Parse(first), NextPlace)
      BY <2>1, <3>1, BelowFacts
    <3>3. Below(delivered \o Parse(first), NextPlace)
      BY <2>1, <3>1, <3>2, StreamTypes, BelowFacts
    <3> QED BY <1>2, <3>3 DEF first
  <2>6. ASSUME NEW chunk \in Buffered'
        PROVE  Before(delivered', chunk)
    <3>1. chunk \in Seq(Part) /\ Before(delivered, chunk) /\ Before(first, chunk)
      BY <2>3, <2>4, StreamTypes DEF StreamInv, Behind
    <3>2. Before(Parse(first), chunk)
      BY <2>1, <3>1, BeforeFacts
    <3>3. Before(delivered \o Parse(first), chunk)
      BY <2>1, <3>1, <3>2, StreamTypes, BeforeFacts
    <3> QED BY <1>2, <3>3 DEF first
  <2>7. CleanStream'
    <3>1. Stretch(first) /\ Before(delivered, first)
      BY <2>1 DEF StreamInv, Whole, Behind
    <3> QED BY <1>2, <2>1, <3>1, CleanGrows DEF StreamInv, Control, first
  <2>8. Behind'
    BY <2>4, <2>5, <2>6 DEF Behind
  <2> QED BY <1>1, <2>4, <2>7, <2>8 DEF StreamInv, EmptyHanded
<1>3. CASE UNCHANGED <<delivered, queue>>
  <2>1. /\ Buffered' \subseteq Buffered /\ NextPlace' = NextPlace
        /\ Answering' /\ Whole' /\ Orderly'
    BY <1>1, <1>3, Shrinks
  <2> QED BY <1>1, <1>3, <2>1 DEF StreamInv, EmptyHanded, Behind, CleanStream
<1> QED BY <1>2, <1>3 DEF Receive

\* readLoop takes what is in the pipe behind all it has taken before.
LEMMA ReadingInOrder ==
  ASSUME StreamInv, Reading, Control'
  PROVE  StreamInv'
<1>1. UNCHANGED <<ffmpeg, delivered>> /\ CleanStream' /\ NextPlace' = NextPlace
  BY DEF Reading, ReadChunk, Drain, Add, ReadEnds, StreamInv, CleanStream, NextPlace
<1>2. CASE ReadChunk /\ queue' = Append(queue, stdout) /\ UNCHANGED reader
  <2>1. /\ reader.chunk = <<>> /\ stdout' = <<>> /\ reader' = reader
    BY <1>2 DEF ReadChunk, StreamInv, EmptyHanded
  <2>2. Range(queue') = Range(queue) \cup {stdout} /\ InOrder(queue')
    BY <1>2, StreamTypes, OrderFacts DEF StreamInv, Orderly
  <2>3. Buffered' \subseteq Buffered \cup {<<>>}
    BY <2>1, <2>2 DEF Buffered
  <2>4. Answering'
    BY <1>1, <2>1 DEF StreamInv, Answering
  <2>5. Whole' /\ Behind'
    BY <1>1, <2>3, EmptyFacts DEF StreamInv, Whole, Behind
  <2>6. Orderly'
    BY <2>1, <2>2, EmptyFacts DEF Orderly
  <2>7. EmptyHanded'
    BY <2>1 DEF EmptyHanded
  <2> QED BY <1>1, <2>4, <2>5, <2>6, <2>7 DEF StreamInv
<1>3. CASE ReadChunk /\ reader' = [pc |-> "drain", chunk |-> stdout] /\ UNCHANGED queue
  <2>1. stdout' = <<>> /\ reader'.chunk = stdout /\ reader'.pc = "drain" /\ queue' = queue
    BY <1>3 DEF ReadChunk
  <2>2. Buffered' \subseteq Buffered \cup {<<>>}
    BY <2>1 DEF Buffered
  <2>3. Answering'
    BY <1>1, <2>1 DEF StreamInv, Answering
  <2>4. Whole' /\ Behind'
    BY <1>1, <2>2, EmptyFacts DEF StreamInv, Whole, Behind
  <2>5. Orderly'
    BY <2>1, EmptyFacts DEF StreamInv, Orderly
  <2>6. EmptyHanded'
    BY <2>1 DEF EmptyHanded
  <2> QED BY <1>1, <2>3, <2>4, <2>5, <2>6 DEF StreamInv
<1>4. CASE Drain \/ ReadEnds
  <2>1. /\ UNCHANGED <<ffmpeg, stdout>> /\ reader'.chunk = reader.chunk
        /\ queue' = queue \/ (queue # <<>> /\ queue' = Tail(queue))
    BY <1>4, StreamTypes DEF Drain, ReadEnds
  <2>2. Buffered' \subseteq Buffered /\ Answering' /\ Whole' /\ Orderly'
    BY <2>1, Shrinks
  <2>3. Behind'
    BY <1>1, <2>2 DEF StreamInv, Behind
  <2>4. EmptyHanded'
    BY <1>4, <2>1, StreamTypes DEF Drain, ReadEnds, StreamInv, EmptyHanded
  <2> QED BY <1>1, <2>2, <2>3, <2>4 DEF StreamInv
<1>5. CASE Add
  <2>1. /\ UNCHANGED stdout /\ reader'.chunk = <<>> /\ reader'.pc = "read"
        /\ queue' = queue \/ queue' = Append(queue, reader.chunk)
    BY <1>5 DEF Add
  <2>2. /\ Range(queue') \subseteq Range(queue) \cup {reader.chunk}
        /\ InOrder(queue')
    <3>1. /\ queue \in Seq(Seq(Part)) /\ InOrder(queue) /\ reader.chunk \in Seq(Part)
          /\ \A chunk \in Range(queue) : Before(chunk, reader.chunk)
      BY StreamTypes DEF StreamInv, Orderly
    <3>2. /\ Range(Append(queue, reader.chunk)) = Range(queue) \cup {reader.chunk}
          /\ InOrder(Append(queue, reader.chunk))
      BY <3>1, OrderFacts
    <3> QED BY <2>1, <3>1, <3>2
  <2>3. Buffered' \subseteq Buffered \cup {<<>>}
    BY <2>1, <2>2 DEF Buffered
  <2>4. Answering'
    BY <1>1, <2>1 DEF StreamInv, Answering
  <2>5. Whole' /\ Behind'
    BY <1>1, <2>3, EmptyFacts DEF StreamInv, Whole, Behind
  <2>6. Orderly'
    BY <2>1, <2>2, EmptyFacts DEF StreamInv, Orderly
  <2>7. EmptyHanded'
    BY <2>1 DEF EmptyHanded
  <2> QED BY <1>1, <2>4, <2>5, <2>6, <2>7 DEF StreamInv
<1> QED BY <1>1, <1>2, <1>3, <1>4, <1>5 DEF Reading, ReadChunk, StreamInv

\* ffmpeg writes behind all it has written, and a crash leaves what is there.
LEMMA WritingInOrder ==
  ASSUME StreamInv, Serving \/ Crash, Control'
  PROVE  StreamInv'
<1>1. UNCHANGED <<reader, queue, delivered>> /\ CleanStream' /\ EmptyHanded'
  BY DEF Serving, TakeFrame, WritePart, Exit, Crash, StreamInv, CleanStream, EmptyHanded
<1>2. /\ ffmpeg \in [running : BOOLEAN, frames : Nat, pending : Seq(Part)]
      /\ NextPlace \in Nat
      /\ stdout \in Seq(Part) /\ Len(stdout) \in Nat
      /\ Len(ffmpeg.pending) \in Nat /\ Len(ffmpeg.pending) <= 3
  BY StreamTypes DEF StreamInv, Answering
<1>3. Len(<<>>) = 0 /\ DOMAIN <<>> = {}
  OBVIOUS
<1>4. ASSUME stdout' = stdout, NextPlace' \in Nat, NextPlace <= NextPlace'
      PROVE  Whole' /\ Behind' /\ Orderly'
  <2>1. Buffered' = Buffered
    BY <1>1, <1>4 DEF Buffered
  <2>2. \A chunk \in Buffered \cup {delivered} :
          Below(chunk, NextPlace) => Below(chunk, NextPlace')
    BY <1>2, <1>4, StreamTypes, BelowFacts
  <2>3. Whole' /\ Behind'
    BY <1>1, <2>1, <2>2 DEF StreamInv, Whole, Behind
  <2>4. Orderly'
    BY <1>1, <1>4 DEF StreamInv, Orderly
  <2> QED BY <2>3, <2>4
<1>5. CASE TakeFrame
  <2> DEFINE unit == Unit(ffmpeg.frames + 1)
  <2>1. /\ stdout' = stdout /\ ffmpeg.pending = <<>> /\ ffmpeg.running
        /\ ffmpeg' = [ffmpeg EXCEPT !.frames = @ + 1, !.pending = unit]
    BY <1>5 DEF TakeFrame
  <2>2. /\ ffmpeg'.frames = ffmpeg.frames + 1 /\ ffmpeg'.pending = unit
        /\ ffmpeg'.running = ffmpeg.running
    BY <1>2, <2>1
  <2>3. Len(unit) = 3 /\ DOMAIN unit = 1 .. 3
    BY <1>2, UnitIsParts DEF Unit
  <2>4. \A i \in 1 .. 3 : Place(unit[i]) = 3 * (ffmpeg.frames + 1) + i
    <3>1. ASSUME NEW i \in 1 .. 3
          PROVE  Place(unit[i]) = 3 * (ffmpeg.frames + 1) + i
      <4>1. unit[i] = [frame |-> ffmpeg.frames + 1, kind |-> Kind[i]]
        BY DEF Unit
      <4>2. /\ unit[i].frame = ffmpeg.frames + 1 /\ unit[i].kind = Kind[i]
            /\ unit[i] \in Part
        <5>1. unit \in Seq(Part)
          BY <1>2, UnitIsParts
        <5>2. unit[i] \in Part
          BY <2>3, <5>1, ElementOfSeq
        <5> QED BY <4>1, <5>2
      <4>3. Kind[1] = "code" /\ Kind[2] = "head" /\ Kind[3] = "tail" /\ i \in {1, 2, 3}
        BY DEF Kind
      <4> HIDE DEF unit
      <4>4. /\ i = 1 => Place(unit[i]) = 3 * unit[i].frame + 1
            /\ i = 2 => Place(unit[i]) = 3 * unit[i].frame + 2
            /\ i = 3 => Place(unit[i]) = 3 * unit[i].frame + 3
        BY <4>2, <4>3, PlaceIs
      <4> QED BY <4>2, <4>3, <4>4
    <3> QED BY <3>1
  <2> HIDE DEF unit
  <2>5. NextPlace' = NextPlace /\ NextPlace = 3 * ffmpeg.frames + 4
    <3>1. NextPlace' = 3 * (ffmpeg.frames + 1) + 4 - 3
      BY <2>2, <2>3 DEF NextPlace
    <3>2. NextPlace = 3 * ffmpeg.frames + 4 - 0
      BY <1>3, <2>1 DEF NextPlace
    <3>3. ffmpeg.frames \in Nat
      BY <1>2
    <3> QED BY <3>1, <3>2, <3>3
  <2>6. Answering'
    <3>1. \A i \in DOMAIN unit : Place(unit[i]) = NextPlace + i - 1
      BY <1>2, <2>3, <2>4, <2>5
    <3>2. \A i \in DOMAIN stdout : Place(stdout[i]) = NextPlace - Len(stdout) + i - 1
      BY <2>1 DEF StreamInv, Answering
    <3>3. Len(ffmpeg'.pending) <= 3
      BY <2>2, <2>3
    <3>4. \A i \in DOMAIN ffmpeg'.pending : Place(ffmpeg'.pending[i]) = NextPlace' + i - 1
      BY <2>2, <2>5, <3>1
    <3>5. \A i \in DOMAIN stdout' : Place(stdout'[i]) = NextPlace' - Len(stdout') + i - 1
      BY <2>1, <2>5, <3>2
    <3> QED BY <3>3, <3>4, <3>5 DEF Answering
  <2> QED BY <1>1, <1>2, <1>4, <2>1, <2>5, <2>6 DEF StreamInv
<1>6. CASE WritePart
  <2> DEFINE part == Head(ffmpeg.pending)
             rest == Tail(ffmpeg.pending)
             long == Append(stdout, part)
  <2>1. /\ stdout' = long /\ ffmpeg.pending # <<>> /\ ffmpeg.running
        /\ ffmpeg' = [ffmpeg EXCEPT !.pending = rest]
    BY <1>6 DEF WritePart
  <2>2. /\ ffmpeg'.frames = ffmpeg.frames /\ ffmpeg'.pending = rest
        /\ ffmpeg'.running = ffmpeg.running
    BY <1>2, <2>1
  <2>3. /\ Len(ffmpeg.pending) > 0 /\ part = ffmpeg.pending[1] /\ part \in Part
        /\ rest \in Seq(Part) /\ Len(rest) = Len(ffmpeg.pending) - 1
        /\ DOMAIN rest = 1 .. Len(rest)
        /\ \A i \in 1 .. Len(rest) : rest[i] = ffmpeg.pending[i + 1]
    <3>1. ffmpeg.pending \in Seq(Part)
      BY <1>2
    <3>2. Len(ffmpeg.pending) > 0 /\ part = ffmpeg.pending[1]
      BY <2>1, <3>1, EmptySeq
    <3>3. /\ part \in Part /\ rest \in Seq(Part) /\ Len(rest) = Len(ffmpeg.pending) - 1
          /\ \A i \in 1 .. Len(rest) : rest[i] = ffmpeg.pending[i + 1]
      BY <2>1, <3>1, HeadTailProperties
    <3>4. DOMAIN rest = 1 .. Len(rest)
      BY <3>3, LenProperties
    <3> QED BY <3>2, <3>3, <3>4
  <2>4. /\ long \in Seq(Part) /\ Len(long) = Len(stdout) + 1 /\ DOMAIN long = 1 .. Len(stdout) + 1
        /\ \A i \in 1 .. Len(stdout) : long[i] = stdout[i]
        /\ long[Len(stdout) + 1] = part
    BY <1>2, <2>3, AppendProperties, LenProperties
  <2> HIDE DEF part, rest, long
  <2>5. NextPlace' = NextPlace + 1
    BY <1>2, <2>2, <2>3 DEF NextPlace
  <2>6. DOMAIN ffmpeg.pending = 1 .. Len(ffmpeg.pending) /\ DOMAIN stdout = 1 .. Len(stdout)
    BY <1>2, LenProperties
  <2>7. Place(part) = NextPlace
    <3>1. 1 \in DOMAIN ffmpeg.pending
      BY <1>2, <2>3, <2>6
    <3>2. Place(ffmpeg.pending[1]) = NextPlace + 1 - 1
      BY <3>1 DEF StreamInv, Answering
    <3> QED BY <1>2, <2>3, <3>2
  <2>8. \A i \in 1 .. Len(rest) : Place(rest[i]) = NextPlace' + i - 1
    <3>1. ASSUME NEW i \in 1 .. Len(rest)
          PROVE  Place(rest[i]) = NextPlace' + i - 1
      <4>1. i + 1 \in DOMAIN ffmpeg.pending
        BY <1>2, <2>3, <2>6
      <4>2. Place(ffmpeg.pending[i + 1]) = NextPlace + (i + 1) - 1
        BY <4>1 DEF StreamInv, Answering
      <4> QED BY <1>2, <2>3, <2>5, <4>2
    <3> QED BY <3>1
  <2>9. \A i \in 1 .. Len(long) : Place(long[i]) = NextPlace' - Len(long) + i - 1
    <3>1. ASSUME NEW i \in 1 .. Len(stdout)
          PROVE  Place(long[i]) = NextPlace' - Len(long) + i - 1
      <4>1. Place(stdout[i]) = NextPlace - Len(stdout) + i - 1
        BY <2>1, <2>6 DEF StreamInv, Answering
      <4> QED BY <1>2, <2>4, <2>5, <4>1
    <3>2. Place(long[Len(stdout) + 1]) = NextPlace' - Len(long) + (Len(stdout) + 1) - 1
      BY <1>2, <2>4, <2>5, <2>7
    <3> QED BY <1>2, <2>4, <3>1, <3>2
  <2>10. Answering'
    BY <1>2, <2>1, <2>2, <2>3, <2>4, <2>8, <2>9 DEF Answering
  <2>11. Stretch(long) /\ Below(long, NextPlace')
    BY <1>2, <2>4, <2>5, <2>9 DEF Stretch, Below
  <2>12. \A chunk \in Buffered \cup {delivered} : Below(chunk, NextPlace) /\ chunk \in Seq(Part)
    BY StreamTypes DEF StreamInv, Whole, Behind
  <2>13. \A chunk \in Buffered \cup {delivered} : Below(chunk, NextPlace')
    BY <1>2, <2>5, <2>12, BelowFacts
  <2>14. \A chunk \in Range(queue) \cup {reader.chunk, delivered} : Before(chunk, long)
    <3>1. \A chunk \in Range(queue) \cup {reader.chunk, delivered} :
            Before(chunk, stdout) /\ Below(chunk, Place(part)) /\ chunk \in Seq(Part)
      BY <2>7, <2>12 DEF StreamInv, Orderly, Behind, Buffered
    <3> QED BY <1>2, <2>3, <3>1, BeforeFacts DEF long
  <2>15. Buffered' = Range(queue) \cup {reader.chunk, long}
    BY <1>1, <2>1 DEF Buffered
  <2>16. Whole'
    BY <2>11, <2>13, <2>15 DEF StreamInv, Whole, Buffered
  <2>17. Behind'
    BY <1>1, <2>13, <2>14, <2>15 DEF StreamInv, Behind, Buffered
  <2>18. Orderly'
    BY <1>1, <2>1, <2>14 DEF StreamInv, Orderly
  <2> QED BY <1>1, <2>10, <2>16, <2>17, <2>18 DEF StreamInv
<1>7. CASE Exit
  <2>1. /\ stdout' = stdout /\ ffmpeg' = [ffmpeg EXCEPT !.running = FALSE]
    BY <1>7 DEF Exit
  <2>2. /\ ffmpeg'.frames = ffmpeg.frames /\ ffmpeg'.pending = ffmpeg.pending
        /\ ffmpeg'.running = FALSE
    BY <1>2, <2>1
  <2>3. NextPlace' = NextPlace
    BY <2>2 DEF NextPlace
  <2>4. Answering'
    BY <2>2, <2>3 DEF StreamInv, Answering
  <2> QED BY <1>1, <1>2, <1>4, <2>1, <2>3, <2>4 DEF StreamInv
<1>8. CASE Crash
  <2>1. /\ stdout' = stdout
        /\ ffmpeg' = [ffmpeg EXCEPT !.running = FALSE, !.pending = <<>>]
    BY <1>8 DEF Crash
  <2>2. /\ ffmpeg'.frames = ffmpeg.frames /\ ffmpeg'.pending = <<>> /\ ffmpeg'.running = FALSE
    BY <1>2, <2>1
  <2>3. NextPlace' = 3 * ffmpeg.frames + 4
    BY <1>2, <1>3, <2>2 DEF NextPlace
  <2>4. NextPlace' \in Nat /\ NextPlace <= NextPlace'
    BY <1>2, <2>3 DEF NextPlace
  <2>5. Answering'
    BY <1>3, <2>2 DEF Answering
  <2> QED BY <1>1, <1>4, <2>1, <2>4, <2>5 DEF StreamInv
<1> QED BY <1>5, <1>6, <1>7, <1>8 DEF Serving

\* What EncodeWithNALs returns is in the order of ffmpeg's stream, with gaps
\* only where chunks were dropped or cut by ParseNALUnits: no part comes twice,
\* every start code has its head and every tail its own head before it.
THEOREM StreamIsClean == Spec => []CleanStream
<1>1. Init => StreamInv
  <2> SUFFICES ASSUME Init PROVE StreamInv
    OBVIOUS
  <2>1. Control
    BY InitControl
  <2>2. /\ ffmpeg.pending = <<>> /\ ffmpeg.frames = 0 /\ stdout = <<>> /\ queue = <<>>
        /\ delivered = <<>> /\ reader.chunk = <<>> /\ Len(<<>>) = 0 /\ DOMAIN <<>> = {}
    BY DEF Init
  <2>3. Buffered = {<<>>}
    BY <2>2 DEF Buffered, Range
  <2>4. Answering /\ EmptyHanded
    BY <2>2 DEF Answering, EmptyHanded
  <2>5. Whole /\ Behind
    BY <2>2, <2>3, EmptyFacts DEF Whole, Behind
  <2>6. Orderly
    BY <2>2, EmptyFacts DEF Orderly, InOrder, Range
  <2>7. CleanStream
    BY <2>2 DEF CleanStream
  <2> QED BY <2>1, <2>4, <2>5, <2>6, <2>7 DEF StreamInv
<1>2. StreamInv /\ [Next]_vars => StreamInv'
  <2> SUFFICES ASSUME StreamInv, [Next]_vars PROVE StreamInv'
    OBVIOUS
  <2>1. Control'
    BY ControlStep DEF StreamInv
  <2>2. CASE \E c \in Caller : Receive(c)
    BY <2>1, <2>2, ReceiveInOrder
  <2>3. CASE UNCHANGED <<ffmpeg, stdout, reader, queue, delivered>>
    BY <2>1, <2>3 DEF StreamInv, Answering, EmptyHanded, Whole, Behind, Orderly, CleanStream,
                      NextPlace, Buffered
  <2>4. \/ \E c \in Caller : Receive(c)
        \/ Reading \/ Serving \/ Crash
        \/ UNCHANGED <<ffmpeg, stdout, reader, queue, delivered>>
    BY DEF Next, Encoding, NextFrame, NoFrame, Begin, Write, Holding, WriteFails, Timeout,
           CallClose, CloseLocks, Closing, CloseStdin, Waited, vars
  <2> QED BY <2>1, <2>2, <2>3, <2>4, ReadingInOrder, WritingInOrder
<1>3. StreamInv => CleanStream
  BY DEF StreamInv
<1> QED BY <1>1, <1>2, <1>3, PTL DEF Spec
=============================================================================
