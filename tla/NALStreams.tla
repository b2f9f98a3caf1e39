----------------------------- MODULE NALStreams -----------------------------
(***************************************************************************)
(* The two readers that cut an H.264 Annex-B byte stream into NAL units:   *)
(* ContainerBridge.processH264Stream in                                    *)
(* src/internal/bridge/container_bridge.go and Bridge.readAndSendNALs in   *)
(* src/internal/bridge/bridge.go.  A stream arrives in reads of any size.  *)
(* Here both readers get the same reads, so that one state shows what each *)
(* has made of one stream.                                                 *)
(*                                                                         *)
(* A byte is 0, 1 or any other value: nothing else matters to the cutting. *)
(* A NAL unit is its bytes and, as history, its position in the stream.    *)
(* sendNAL, which a NAL unit goes to next, is not part of this module.     *)
(***************************************************************************)
EXTENDS Naturals, Sequences, FiniteSetsExt

CONSTANTS
  Byte,                  \* the values of a byte
  MaxLength,             \* bound: the length of the stream
  MaxRead,               \* bound: the bytes of one read
  Limit,                 \* the container bridge's buffer limit (1 MB)
  LocalLimit             \* the local bridge's buffer limit (2 MB)

ASSUME StreamAssumption ==
  /\ {0, 1} \subseteq Byte /\ Byte \subseteq Nat
  /\ MaxLength \in Nat /\ MaxRead \in Nat \ {0}
  /\ Limit \in Nat /\ LocalLimit \in Nat
  /\ Limit >= 4 /\ LocalLimit >= 4

VARIABLES
  received,     \* everything read so far
  buffer,       \* nalBuffer of the container bridge
  extracting,   \* whether it is in its inner loop
  nals,         \* the NAL units it has extracted
  reset,        \* history: its buffer has overflowed
  localBuffer,  \* the same of the local bridge
  localNals,
  localReset

container == <<buffer, extracting, nals, reset>>
local == <<localBuffer, localNals, localReset>>
vars == <<received, container, local>>

-----------------------------------------------------------------------------
(* Start codes, and pieces of a stream *)

ShortAt(data, i) == data[i] = 0 /\ data[i + 1] = 0 /\ data[i + 2] = 1
LongAt(data, i) == data[i] = 0 /\ data[i + 1] = 0 /\ data[i + 2] = 0 /\ data[i + 3] = 1

\* Annex B, the reference: a NAL unit begins with a start code 0 0 1, or with
\* the 0 before it, and ends where the next one begins.
Starts(stream) ==
  {p \in 1 .. Len(stream) - 2 :
     \/ p < Len(stream) - 2 /\ LongAt(stream, p)
     \/ ShortAt(stream, p) /\ ~(p > 1 /\ stream[p - 1] = 0)}

\* What data, with so many bytes of the stream before it, has between two of
\* its positions, the second one excluded.
Piece(data, before, from, to) ==
  [at |-> before + from, bytes |-> SubSeq(data, from, to - 1)]

\* The position behind a piece.
Behind(piece) == piece.at + Len(piece.bytes)

\* The k-th position of a set.
Nth(positions, k) ==
  CHOOSE p \in positions : Cardinality({q \in positions : q < p}) = k - 1

\* The pieces between the positions of a set.
Cut(data, before, positions) ==
  [k \in 1 .. Cardinality(positions) - 1 |->
     Piece(data, before, Nth(positions, k), Nth(positions, k + 1))]

Units(stream) == Cut(stream, 0, Starts(stream))

\* All but the last n bytes.
Without(stream, n) == SubSeq(stream, 1, Len(stream) - n)

-----------------------------------------------------------------------------
(* The container bridge *)

\* Mutant: the four-byte start code is not known.
StartCodesShort(data) == {i \in 1 .. Len(data) - 3 : ShortAt(data, i)}

\* Where extractNextNAL sees a start code; i counts from 1.
StartCodes(data) ==
  {i \in 1 .. Len(data) - 3 : ShortAt(data, i) \/ (i < Len(data) - 3 /\ LongAt(data, i))}

\* The start codes that end the first NAL unit.
Ends(data) == {i \in StartCodes(data) : i >= Min(StartCodes(data)) + 3}

\* Mutant: the NAL unit stays in the buffer, and what is before it goes.
ExtractNextKeeping ==
  LET start == Min(StartCodes(buffer))
      end == Min(Ends(buffer))
  IN /\ extracting /\ Ends(buffer) # {}
     /\ nals' = Append(nals, Piece(buffer, Len(received) - Len(buffer), start, end))
     /\ buffer' = SubSeq(buffer, start, Len(buffer))
     /\ UNCHANGED <<received, extracting, reset, local>>

\* One round of the inner loop of processH264Stream: extractNextNAL finds a
\* complete NAL unit, and what follows it stays in the buffer.
ExtractNext ==
  LET start == Min(StartCodes(buffer))
      end == Min(Ends(buffer))
  IN /\ extracting /\ Ends(buffer) # {}
     /\ nals' = Append(nals, Piece(buffer, Len(received) - Len(buffer), start, end))
     /\ buffer' = SubSeq(buffer, end, Len(buffer))
     /\ UNCHANGED <<received, extracting, reset, local>>

\* Mutant: the limit is one byte too high.
EndRoundLate ==
  /\ extracting /\ Ends(buffer) = {}
  /\ extracting' = FALSE
  /\ \/ Len(buffer) > Limit + 1 /\ buffer' = <<>> /\ reset' = TRUE
     \/ Len(buffer) <= Limit + 1 /\ UNCHANGED <<buffer, reset>>
  /\ UNCHANGED <<received, nals, local>>

\* Mutant: an overflow cuts the buffer down to a start code.
EndRoundRestarting ==
  /\ extracting /\ Ends(buffer) = {}
  /\ extracting' = FALSE
  /\ \/ Len(buffer) > Limit /\ buffer' = SubSeq(buffer, 1, 4) /\ reset' = TRUE
     \/ Len(buffer) <= Limit /\ UNCHANGED <<buffer, reset>>
  /\ UNCHANGED <<received, nals, local>>

\* The loop ends when extractNextNAL finds no complete NAL unit, and a buffer
\* over the limit is thrown away.
EndRound ==
  /\ extracting /\ Ends(buffer) = {}
  /\ extracting' = FALSE
  /\ \/ Len(buffer) > Limit /\ buffer' = <<>> /\ reset' = TRUE
     \/ Len(buffer) <= Limit /\ UNCHANGED <<buffer, reset>>
  /\ UNCHANGED <<received, nals, local>>

-----------------------------------------------------------------------------
(* The local bridge *)

\* Mutant: the zero before a three-byte start code is cut off twice.
PositionsNoSkip(data) == {i \in 1 .. Len(data) - 4 : LongAt(data, i) \/ ShortAt(data, i)}

\* The positions parseNALUnits finds: its scan jumps over a start code, so the
\* three-byte code inside one of four bytes is not a second one.
Positions(data) ==
  {i \in 1 .. Len(data) - 4 :
     LongAt(data, i) \/ (ShortAt(data, i) /\ ~(i > 1 /\ LongAt(data, i - 1)))}

\* readAndSendNALs drops as many bytes as it has sent, counted from the start
\* of the buffer: the pieces it sends follow each other from the first position
\* to the last.
ReadLocal(chunk) ==
  LET data == localBuffer \o chunk
      positions == Positions(data)
      sent == IF positions = {} THEN 0 ELSE Max(positions) - Min(positions)
      rest == SubSeq(data, sent + 1, Len(data))
      overflow == Len(rest) > LocalLimit
  IN /\ localNals' = localNals \o Cut(data, Len(received) - Len(localBuffer), positions)
     /\ localBuffer' = IF overflow THEN <<>> ELSE rest
     /\ localReset' = (localReset \/ overflow)

-----------------------------------------------------------------------------
\* What comes in before the first step: the start code that ffmpeg (external)
\* begins its output with. The local bridge reads ffmpeg's output itself. The
\* container bridge reads the stream of an exec without a tty
\* (container_bridge.go:383-386), on which Docker puts a header of eight bytes
\* before each frame, and the code never takes these off: for this reader
\* received is what the connection brings, headers included, which the reads of
\* arbitrary bytes below stand for. Its properties compare what it cuts with the
\* start codes of that stream, wherever the first one is.
Init ==
  /\ received = <<0, 0, 0, 1>>
  /\ buffer = received /\ extracting = FALSE /\ nals = <<>> /\ reset = FALSE
  /\ localBuffer = received /\ localNals = <<>> /\ localReset = FALSE

\* A read: processH264Stream enters its inner loop with it.
Arrive(chunk) ==
  /\ ~extracting
  /\ Len(received) + Len(chunk) <= MaxLength
  /\ received' = received \o chunk
  /\ buffer' = buffer \o chunk
  /\ extracting' = TRUE
  /\ UNCHANGED <<nals, reset>>
  /\ ReadLocal(chunk)

Next ==
  \/ \E n \in 1 .. MaxRead : \E chunk \in [1 .. n -> Byte] : Arrive(chunk)
  \/ ExtractNext
  \/ EndRound

Spec == Init /\ [][Next]_vars

-----------------------------------------------------------------------------
(* Invariants *)

NALUnit == [at : Nat, bytes : Seq(Byte)]

\* Every variable has its type.  Between two reads the buffers are within their
\* limits, and the container bridge's is at most one read above it meanwhile
\* (container_bridge.go:471, bridge.go:292).
TypeOK ==
  /\ received \in Seq(Byte)
  /\ buffer \in Seq(Byte) /\ extracting \in BOOLEAN
  /\ nals \in Seq(NALUnit) /\ reset \in BOOLEAN
  /\ localBuffer \in Seq(Byte) /\ localNals \in Seq(NALUnit) /\ localReset \in BOOLEAN
  /\ Len(buffer) <= Limit + (IF extracting THEN MaxRead ELSE 0)
  /\ Len(localBuffer) <= LocalLimit

\* processH264Stream (container_bridge.go:426-477) cuts as Annex B says, however
\* the stream is split into reads, and a start code takes effect as soon as one
\* byte follows it.
ContainerCutsExactly == ~extracting /\ ~reset => nals = Units(Without(received, 1))

\* readAndSendNALs (bridge.go:247-298) cuts at the same places, but a start code
\* of three bytes takes effect when two bytes follow it.
LocalCutsExactly ==
  ~localReset =>
    localNals = Cut(received, 0, {p \in Starts(Without(received, 1)) : p + 4 <= Len(received)})

\* After an overflow (container_bridge.go:472-475) the container bridge finds
\* its way back: whatever it extracts is a whole NAL unit of the stream, with
\* the loss of the leading zero at most.
ContainerResynchronises ==
  \A k \in 1 .. Len(nals) :
    \E j \in 1 .. Len(Units(received)) :
      LET unit == Units(received)[j]
      IN nals[k] \in {unit, Piece(received, 0, unit.at + 1, Behind(unit))}

\* Every byte that is extracted (container_bridge.go:453-460) is the stream's at
\* its position, and no position is extracted twice or both extracted and still
\* buffered, resets included.
NothingTwice ==
  /\ \A k \in 1 .. Len(nals) :
       /\ nals[k] = Piece(received, 0, nals[k].at, Behind(nals[k]))
       /\ Behind(nals[k]) <= IF k < Len(nals) THEN nals[k + 1].at
                             ELSE Len(received) - Len(buffer) + 1
  /\ buffer = SubSeq(received, Len(received) - Len(buffer) + 1, Len(received))
=============================================================================
