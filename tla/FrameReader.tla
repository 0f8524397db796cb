----------------------------- MODULE FrameReader -----------------------------
(***************************************************************************)
(* readAWSStream: cutting Bedrock's event-stream frames out of a body that *)
(* arrives in pieces of any size.                                          *)
(*                                                                         *)
(* A frame begins with its own length, LenBytes digits of base Radix, most *)
(* significant first.  The reader keeps what has arrived and not been cut  *)
(* and the length it expects of the frame at its front.  Bytes are known   *)
(* by their position in the body, so the buffer is the span [front, fed).  *)
(*                                                                         *)
(* Source: handlers/streamHandler.ts.                                      *)
(***************************************************************************)
EXTENDS Naturals, Sequences, FiniteSets

LenBytes == 4    \* bytes of a length

CONSTANTS
  Start,         \* where each frame of the body begins, and where the body ends
  Radix,         \* values of a byte
  Trailer,       \* bytes at the end of a frame that nobody reads (its CRC)
  SplitsPrelude  \* a read may end within a frame's length

Frame == 1 .. Len(Start) - 1
Size(i) == Start[i + 1] - Start[i]
BodyLength == Start[Len(Start)]

(* A body is frames end to end, each with room for its length and trailer  *)
(* and of a length that LenBytes digits can write.                         *)
ASSUME FramesAssumption ==
  /\ Radix \in Nat \ {0, 1} /\ Trailer \in Nat
  /\ Start \in Seq(Nat) /\ Start # <<>> /\ Start[1] = 0
  /\ \A i, j \in DOMAIN Start :
       i < j => Start[i] + LenBytes + Trailer < Start[j]
  /\ \A i \in Frame : Size(i) < Radix * Radix * Radix * Radix
  /\ SplitsPrelude \in BOOLEAN

VARIABLES
  fed,        \* bytes read from the provider
  front,      \* the position of the buffer's first byte
  expected,   \* expectedLength
  delivered,  \* the frames whose payload the transform was given
  pc          \* "reading", "cutting", "draining" (cutting after the end),
              \* "ended" or "failed"

vars == <<fed, front, expected, delivered, pc>>

(* The digits of n, by their place from the left.                          *)
Digit(n, k) ==
  CASE k = 0 -> ((n \div Radix) \div Radix) \div Radix
    [] k = 1 -> ((n \div Radix) \div Radix) % Radix
    [] k = 2 -> (n \div Radix) % Radix
    [] k = 3 -> n % Radix

(* A digit of a length, or a byte of anything else.                        *)
Byte(p) ==
  LET i == CHOOSE j \in Frame : Start[j] <= p /\ p < Start[j + 1]
  IN  IF p < Start[i] + LenBytes THEN Digit(Size(i), p - Start[i]) ELSE 1

(* readUInt32BE: a byte that is not there yet counts as zero.              *)
ReadUInt(from, end) ==
  LET at(k) == IF from + k < end THEN Byte(from + k) ELSE 0
  IN  ((at(0) * Radix + at(1)) * Radix + at(2)) * Radix + at(3)

Init ==
  /\ fed = 0
  /\ front = 0
  /\ expected = 0
  /\ delivered = <<>>
  /\ pc = "reading"

-----------------------------------------------------------------------------
MidPrelude(p) == \E i \in Frame : Start[i] < p /\ p < Start[i] + LenBytes

(* Mutant: the length is read once, for the first frame.                   *)
ReadKeepingLength(n) ==
  /\ pc = "reading"
  /\ fed + n <= BodyLength
  /\ MidPrelude(fed + n) => SplitsPrelude
  /\ fed' = fed + n
  /\ expected' = IF fed = 0 THEN ReadUInt(fed, fed + n) ELSE expected
  /\ pc' = "cutting"
  /\ UNCHANGED <<front, delivered>>

(* With no length in hand, it is taken from the bytes that have just come. *)
Read(n) ==
  /\ pc = "reading"
  /\ fed + n <= BodyLength
  /\ MidPrelude(fed + n) => SplitsPrelude
  /\ fed' = fed + n
  /\ expected' = IF expected = 0 THEN ReadUInt(fed, fed + n) ELSE expected
  /\ pc' = "cutting"
  /\ UNCHANGED <<front, delivered>>

(* Mutant: an empty buffer is cut too.                                     *)
CuttableEmpty == fed - front >= expected

Cuttable == fed - front >= expected /\ fed # front

(* What getPayloadFromAWSChunk makes of the bytes cut: the frame, if they  *)
(* hold one from its first byte to its payload's last, or nothing.         *)
FrameCut(length) ==
  {i \in Frame : Start[i] = front /\ length >= Size(i) - Trailer}

Handed(cut) ==
  IF cut = {} THEN delivered ELSE Append(delivered, CHOOSE i \in cut : TRUE)

(* Mutant: one frame per read.                                             *)
CutOne ==
  /\ pc \in {"cutting", "draining"}
  /\ Cuttable
  /\ front' = front + expected
  /\ expected' = ReadUInt(front + expected, fed)
  /\ delivered' = Handed(FrameCut(expected))
  /\ pc' = IF FrameCut(expected) = {} THEN "failed" ELSE "reading"
  /\ UNCHANGED fed

(* One frame is cut, the next one's length taken from whatever follows it, *)
(* and only then is the frame read: one that does not parse throws.        *)
Cut ==
  /\ pc \in {"cutting", "draining"}
  /\ Cuttable
  /\ front' = front + expected
  /\ expected' = ReadUInt(front + expected, fed)
  /\ delivered' = Handed(FrameCut(expected))
  /\ pc' = IF FrameCut(expected) = {} THEN "failed" ELSE pc
  /\ UNCHANGED fed

CutNoMore ==
  /\ pc \in {"cutting", "draining"}
  /\ ~Cuttable
  /\ pc' = IF pc = "cutting" THEN "reading" ELSE "ended"
  /\ UNCHANGED <<fed, front, expected, delivered>>

(* The provider may close anywhere; what is left is cut once more.         *)
ProviderCloses ==
  /\ pc = "reading"
  /\ pc' = "draining"
  /\ expected' = IF fed # front THEN ReadUInt(front, fed) ELSE expected
  /\ UNCHANGED <<fed, front, delivered>>

Next == (\E n \in 1 .. BodyLength : Read(n)) \/ Cut \/ CutNoMore \/ ProviderCloses

Spec == Init /\ [][Next]_vars /\ WF_vars(Cut \/ CutNoMore)

-----------------------------------------------------------------------------
Whole == {i \in Frame : Start[i + 1] <= fed}

(* However the body was cut up on its way, the reader is never behind: when *)
(* it waits for more, and when it has ended, every frame that is all there *)
(* has been given to the transform, once and in order.                     *)
CutsWhatArrived ==
  pc \in {"reading", "ended"} => delivered = [k \in 1 .. Cardinality(Whole) |-> k]

(* A well formed body is never a fault.                                    *)
WellFormedIsRead == pc # "failed"

(* What arrives well formed is read: all of it, once and without a fault.  *)
ReadsFrames == CutsWhatArrived /\ WellFormedIsRead

(* No body sends the reader round its inner loop for ever.                 *)
CuttingEnds == pc \in {"cutting", "draining"} ~> pc \in {"reading", "ended"}

(* The reader takes lengths from the prelude (providers/bedrock/__tests__/ *)
(* streamException.test.ts 25): the length it expects of a frame whose     *)
(* prelude is all there is the one the prelude states.                     *)
LengthIsThePreludes ==
  \A i \in Frame :
    (pc = "cutting" /\ front = Start[i] /\ fed - front >= LenBytes)
      => expected = Size(i)
=============================================================================
