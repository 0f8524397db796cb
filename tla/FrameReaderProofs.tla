-------------------------- MODULE FrameReaderProofs --------------------------
(***************************************************************************)
(* What is proved of FrameReader, for any body and reads of any size that  *)
(* do not end inside a frame's length: every frame that has arrived is     *)
(* handed on once and in order, and a well formed body is never a fault.   *)
(***************************************************************************)
EXTENDS FrameReader, FiniteSetTheorems, TLAPS

(* The first k frames have been cut, and the reader knows the length of    *)
(* the one its buffer begins with, if anything of it has come.             *)
HasCut(k) ==
  /\ delivered = [j \in 1 .. k |-> j]
  /\ front = Start[k + 1]
  /\ front <= fed
  /\ expected = IF fed = front THEN 0 ELSE Size(k + 1)

IInv ==
  /\ fed \in 0 .. BodyLength
  /\ ~MidPrelude(fed)
  /\ pc \in {"reading", "cutting", "draining", "ended"}
  /\ \E k \in 0 .. Len(Start) - 1 : HasCut(k)
  /\ pc \in {"reading", "ended"} => ~Cuttable

-----------------------------------------------------------------------------
(* Positions are numbers, and later frames begin further on.               *)
LEMMA Positions ==
  /\ \A i \in DOMAIN Start : Start[i] \in Nat
  /\ \A i, j \in DOMAIN Start : i <= j => Start[i] <= Start[j]
  /\ \A i \in DOMAIN Start : Start[i] <= BodyLength
  /\ BodyLength \in Nat
  /\ Len(Start) \in Nat \ {0}
  /\ DOMAIN Start = 1 .. Len(Start)
  /\ Trailer \in Nat
  /\ \A i \in Frame : i \in DOMAIN Start /\ i + 1 \in DOMAIN Start
PROOF
<1>1. Len(Start) \in Nat \ {0} /\ DOMAIN Start = 1 .. Len(Start)
  BY FramesAssumption
<1>2. \A i \in DOMAIN Start : Start[i] \in Nat
  BY FramesAssumption
<1>3. \A i, j \in DOMAIN Start : i <= j => Start[i] <= Start[j]
  BY <1>1, <1>2, FramesAssumption DEF LenBytes
<1> QED
  BY <1>1, <1>2, <1>3, FramesAssumption DEF BodyLength, Frame

(* A frame has room for its length and its trailer.                        *)
LEMMA FramesAreLong ==
  \A i \in Frame :
    /\ Size(i) \in Nat
    /\ Size(i) > LenBytes + Trailer
    /\ Start[i + 1] = Start[i] + Size(i)
PROOF
<1> SUFFICES ASSUME NEW i \in Frame
             PROVE  /\ Size(i) \in Nat
                    /\ Size(i) > LenBytes + Trailer
                    /\ Start[i + 1] = Start[i] + Size(i)
  OBVIOUS
<1>1. /\ i \in DOMAIN Start /\ i + 1 \in DOMAIN Start
      /\ Start[i] \in Nat /\ Start[i + 1] \in Nat
  BY Positions
<1>2. Start[i] + 4 + Trailer < Start[i + 1]
  BY <1>1, FramesAssumption DEF Frame, LenBytes
<1>3. Trailer \in Nat /\ Size(i) = Start[i + 1] - Start[i]
  BY Positions DEF Size
<1> QED
  BY <1>1, <1>2, <1>3 DEF LenBytes

(* No two frames begin at the same place.                                  *)
LEMMA FramesDiffer ==
  \A i, j \in DOMAIN Start : Start[i] = Start[j] => i = j
PROOF
BY Positions, FramesAssumption DEF LenBytes

LEMMA FrameOf ==
  ASSUME NEW i \in Frame, NEW p \in Nat, Start[i] <= p, p < Start[i + 1]
  PROVE  i = CHOOSE j \in Frame : Start[j] <= p /\ p < Start[j + 1]
PROOF
<1>1. \A j \in Frame : Start[j] <= p /\ p < Start[j + 1] => j = i
  <2> SUFFICES ASSUME NEW j \in Frame, Start[j] <= p, p < Start[j + 1]
               PROVE  j = i
    OBVIOUS
  <2>1. ~ i + 1 <= j
    BY Positions
  <2>2. ~ j + 1 <= i
    BY Positions
  <2> QED
    BY <2>1, <2>2 DEF Frame
<1> QED
  BY <1>1

LEMMA DivMod ==
  \A n \in Nat : n \div Radix \in Nat /\ n % Radix \in Nat
                 /\ n = (n \div Radix) * Radix + (n % Radix)
PROOF
BY FramesAssumption

(* A number is the sum of its digits.                                      *)
LEMMA DigitsMakeNumber ==
  \A n \in Nat :
    ((Digit(n, 0) * Radix + Digit(n, 1)) * Radix + Digit(n, 2)) * Radix
      + Digit(n, 3) = n
PROOF
<1> SUFFICES ASSUME NEW n \in Nat
             PROVE  ((Digit(n, 0) * Radix + Digit(n, 1)) * Radix + Digit(n, 2))
                      * Radix + Digit(n, 3) = n
  OBVIOUS
<1> DEFINE q == n \div Radix
<1> DEFINE r == q \div Radix
<1>1. q \in Nat /\ n = q * Radix + (n % Radix)
  BY DivMod
<1>2. r \in Nat /\ q = r * Radix + (q % Radix)
  BY <1>1, DivMod
<1>3. r = (r \div Radix) * Radix + (r % Radix)
  BY <1>2, DivMod
<1>4. /\ Digit(n, 0) = r \div Radix /\ Digit(n, 1) = r % Radix
      /\ Digit(n, 2) = q % Radix /\ Digit(n, 3) = n % Radix
  BY DEF Digit
<1> QED
  BY <1>1, <1>2, <1>3, <1>4

(* A length that is all there is read as it was written.                   *)
LEMMA ReadsLength ==
  ASSUME NEW i \in Frame, NEW end \in Nat, Start[i] + LenBytes <= end
  PROVE  ReadUInt(Start[i], end) = Size(i)
PROOF
<1>1. \A k \in 0 .. 3 : Byte(Start[i] + k) = Digit(Size(i), k)
  <2> SUFFICES ASSUME NEW k \in 0 .. 3
               PROVE  Byte(Start[i] + k) = Digit(Size(i), k)
    OBVIOUS
  <2>1. /\ Start[i] \in Nat /\ Start[i] + k \in Nat
        /\ Start[i] <= Start[i] + k /\ Start[i] + k < Start[i + 1]
    <3>1. Start[i] \in Nat
      BY Positions
    <3>2. /\ Size(i) \in Nat /\ Size(i) > 4 + Trailer
          /\ Start[i + 1] = Start[i] + Size(i)
      BY FramesAreLong DEF LenBytes
    <3>3. Trailer \in Nat
      BY Positions
    <3> QED
      BY <3>1, <3>2, <3>3
  <2>2. i = CHOOSE j \in Frame : Start[j] <= Start[i] + k /\ Start[i] + k < Start[j + 1]
    BY <2>1, FrameOf
  <2>3. (Start[i] + k) - Start[i] = k /\ Start[i] + k < Start[i] + LenBytes
    BY <2>1 DEF LenBytes
  <2> QED
    BY <2>2, <2>3 DEF Byte
<1>2. \A k \in 0 .. 3 : Start[i] + k < end
  BY Positions DEF LenBytes
<1>3. ReadUInt(Start[i], end) =
        ((Digit(Size(i), 0) * Radix + Digit(Size(i), 1)) * Radix
           + Digit(Size(i), 2)) * Radix + Digit(Size(i), 3)
  BY <1>1, <1>2 DEF ReadUInt
<1> QED
  BY <1>3, FramesAreLong, DigitsMakeNumber

(* Nothing is read of an empty buffer.                                     *)
LEMMA ReadsNothing ==
  ASSUME NEW from \in Nat, NEW end \in Nat, end <= from
  PROVE  ReadUInt(from, end) = 0
PROOF
<1>1. \A k \in 0 .. 3 : ~ from + k < end
  OBVIOUS
<1> QED
  BY <1>1, FramesAssumption DEF ReadUInt

(* What the reader finds at the front of its buffer, wherever that is.     *)
LEMMA ReadsFront ==
  ASSUME NEW k \in 0 .. Len(Start) - 1, NEW end \in 0 .. BodyLength,
         Start[k + 1] <= end, ~MidPrelude(end)
  PROVE  /\ end = Start[k + 1] => ReadUInt(Start[k + 1], end) = 0
         /\ end # Start[k + 1] =>
              k + 1 \in Frame /\ ReadUInt(Start[k + 1], end) = Size(k + 1)
PROOF
<1>1. k + 1 \in DOMAIN Start /\ Start[k + 1] \in Nat /\ end \in Nat
  BY Positions
<1>2. end = Start[k + 1] => ReadUInt(Start[k + 1], end) = 0
  BY <1>1, ReadsNothing
<1>3. ASSUME end # Start[k + 1]
      PROVE  k + 1 \in Frame /\ ReadUInt(Start[k + 1], end) = Size(k + 1)
  <2>1. k + 1 \in Frame
    BY <1>1, <1>3, Positions DEF Frame, BodyLength
  <2>2. Start[k + 1] + LenBytes <= end
    BY <1>1, <1>3, <2>1 DEF MidPrelude, LenBytes
  <2> QED
    BY <1>1, <2>1, <2>2, ReadsLength
<1> QED
  BY <1>2, <1>3

-----------------------------------------------------------------------------
(* What HasCut says when the buffer's first frame is looked at.            *)
LEMMA FrontIsCut ==
  ASSUME IInv, NEW k \in 0 .. Len(Start) - 1, HasCut(k)
  PROVE  /\ fed \in Nat /\ front \in Nat /\ front \in 0 .. fed
         /\ fed # front => k + 1 \in Frame /\ expected = Size(k + 1)
         /\ fed # front => expected = ReadUInt(front, fed)
PROOF
<1>1. front = Start[k + 1] /\ front <= fed /\ fed \in 0 .. BodyLength /\ ~MidPrelude(fed)
  BY DEF IInv, HasCut
<1>2. /\ fed = front => ReadUInt(front, fed) = 0
      /\ fed # front => k + 1 \in Frame /\ ReadUInt(front, fed) = Size(k + 1)
  BY <1>1, ReadsFront
<1>3. front \in Nat /\ fed \in Nat
  BY <1>1, Positions
<1> QED
  BY <1>1, <1>2, <1>3 DEF HasCut

(* With frames cut up to where the buffer begins and less than one frame   *)
(* left in it, the frames that are all there are the ones that were cut.   *)
LEMMA CutIsWhole ==
  ASSUME IInv, NEW k \in 0 .. Len(Start) - 1, HasCut(k), ~Cuttable
  PROVE  Cardinality(Whole) = k
PROOF
<1>1. k + 1 \in DOMAIN Start /\ Start[k + 1] = front /\ k \in Nat
  BY Positions DEF HasCut
<1>2. front <= fed /\ fed \in Nat /\ front \in Nat
  BY FrontIsCut
<1>3. Whole = 1 .. k
  <2>1. ASSUME NEW i \in Frame, i <= k PROVE Start[i + 1] <= fed
    <3>1. i + 1 \in DOMAIN Start /\ i + 1 <= k + 1 /\ Start[i + 1] \in Nat
      BY <1>1, <2>1, Positions DEF Frame
    <3>2. Start[i + 1] <= front
      BY <1>1, <3>1, Positions
    <3> QED
      BY <1>2, <3>1, <3>2
  <2>2. ASSUME NEW i \in Frame, i > k, Start[i + 1] <= fed PROVE FALSE
    <3>1. k + 2 \in DOMAIN Start /\ k + 2 <= i + 1
      BY <1>1, <2>2, Positions DEF Frame
    <3>2. k + 1 \in Frame /\ Start[k + 2] <= fed
      <4>1. Start[k + 2] <= Start[i + 1] /\ Start[k + 2] \in Nat /\ Start[i + 1] \in Nat
        BY <2>2, <3>1, Positions
      <4> QED
        BY <1>1, <1>2, <2>2, <3>1, <4>1 DEF Frame
    <3>3. Size(k + 1) \in Nat /\ Start[k + 2] = front + Size(k + 1) /\ Size(k + 1) > 0
      BY <1>1, <3>2, FramesAreLong, FramesAssumption DEF LenBytes
    <3>4. fed # front /\ expected = Size(k + 1)
      BY <1>2, <3>2, <3>3, FrontIsCut
    <3> QED
      BY <1>2, <3>2, <3>3, <3>4 DEF Cuttable
  <2>3. 1 .. k \subseteq Frame
    BY <1>1, Positions DEF Frame
  <2> QED
    BY <2>1, <2>2, <2>3, <1>1 DEF Whole, Frame
<1> QED
  BY <1>1, <1>3, FS_Interval

-----------------------------------------------------------------------------
LEMMA InitKeeps ==
  Init => IInv
PROOF
<1> SUFFICES ASSUME Init PROVE IInv
  OBVIOUS
<1>1. fed \in 0 .. BodyLength /\ fed = 0 /\ front = 0
  BY Positions DEF Init
<1>2. ~MidPrelude(fed)
  BY <1>1, Positions DEF MidPrelude
<1>3. HasCut(0) /\ 0 \in 0 .. Len(Start) - 1
  <2>1. delivered = [j \in 1 .. 0 |-> j]
    BY DEF Init
  <2> QED
    BY <2>1, <1>1, Positions, FramesAssumption DEF Init, HasCut
<1> QED
  BY <1>1, <1>2, <1>3 DEF Init, IInv, Cuttable

LEMMA ReadKeeps ==
  ASSUME ~SplitsPrelude, IInv, NEW n \in 1 .. BodyLength, Read(n)
  PROVE  IInv'
PROOF
<1>1. PICK k \in 0 .. Len(Start) - 1 : HasCut(k)
  BY DEF IInv
<1>2. /\ fed \in Nat /\ front \in Nat /\ front <= fed
      /\ n \in Nat /\ fed' = fed + n /\ fed' \in 0 .. BodyLength
      /\ front' = front /\ front = Start[k + 1]
  BY <1>1, FrontIsCut, Positions DEF Read, HasCut
<1>3. ~MidPrelude(fed')
  BY DEF Read
<1>4. fed' # front'
  BY <1>2
<1>5. k + 1 \in Frame /\ expected' = Size(k + 1)
  <2>1. ~MidPrelude(fed') /\ Start[k + 1] <= fed'
    BY <1>2, <1>3
  <2>2. k + 1 \in Frame /\ ReadUInt(Start[k + 1], fed') = Size(k + 1)
    BY <2>1, <1>2, <1>4, ReadsFront
  <2>3. CASE fed = front
    BY <2>2, <2>3, <1>1, <1>2 DEF Read, HasCut
  <2>4. CASE fed # front
    <3>1. expected = Size(k + 1) /\ expected # 0
      BY <2>4, <2>2, <1>1, FrontIsCut, FramesAreLong, FramesAssumption DEF LenBytes
    <3> QED
      BY <3>1, <2>2 DEF Read
  <2> QED
    BY <2>3, <2>4
<1>6. HasCut(k)'
  BY <1>1, <1>2, <1>4, <1>5 DEF HasCut, Read
<1> QED
  BY <1>2, <1>3, <1>6 DEF IInv, Read

LEMMA CutKeeps ==
  ASSUME IInv, Cut
  PROVE  IInv'
PROOF
<1>1. PICK k \in 0 .. Len(Start) - 1 : HasCut(k)
  BY DEF IInv
<1>2. /\ fed \in 0 .. BodyLength /\ fed \in Nat /\ front \in Nat
      /\ fed # front /\ fed - front >= expected /\ fed' = fed
      /\ ~MidPrelude(fed)
  BY <1>1, FrontIsCut DEF Cut, Cuttable, IInv
<1>3. k + 1 \in Frame /\ expected = Size(k + 1) /\ Start[k + 1] = front
  BY <1>1, <1>2, FrontIsCut DEF HasCut
<1>4. /\ Size(k + 1) \in Nat /\ Start[(k + 1) + 1] = front + Size(k + 1)
      /\ k + 1 \in 0 .. Len(Start) - 1
  BY <1>3, FramesAreLong DEF Frame
<1>5. front' = Start[(k + 1) + 1] /\ front' <= fed'
  BY <1>2, <1>3, <1>4 DEF Cut
<1>6. FrameCut(expected) = {k + 1}
  <2>1. ASSUME NEW i \in Frame, Start[i] = front PROVE i = k + 1
    BY <2>1, <1>3, Positions, FramesDiffer
  <2>2. Size(k + 1) >= Size(k + 1) - Trailer
    BY <1>4, FramesAssumption
  <2> QED
    BY <2>1, <2>2, <1>3 DEF FrameCut
<1>7. delivered' = [j \in 1 .. k + 1 |-> j] /\ pc' = pc
  <2>1. Handed({k + 1}) = Append(delivered, k + 1)
    BY DEF Handed
  <2>2. Append([j \in 1 .. k |-> j], k + 1) = [j \in 1 .. k + 1 |-> j]
    BY <1>1
  <2> QED
    BY <2>1, <2>2, <1>1, <1>6 DEF Cut, HasCut
<1>8. expected' = IF fed' = front' THEN 0 ELSE Size((k + 1) + 1)
  <2>1. expected' = ReadUInt(Start[(k + 1) + 1], fed)
    BY <1>3, <1>4 DEF Cut
  <2> QED
    BY <2>1, <1>2, <1>4, <1>5, ReadsFront
<1>9. HasCut(k + 1)'
  BY <1>5, <1>7, <1>8 DEF HasCut
<1> QED
  BY <1>2, <1>4, <1>7, <1>9 DEF IInv, Cut

LEMMA CutNoMoreKeeps ==
  ASSUME IInv, CutNoMore
  PROVE  IInv'
PROOF
<1>1. PICK k \in 0 .. Len(Start) - 1 : HasCut(k)
  BY DEF IInv
<1>2. HasCut(k)' /\ MidPrelude(fed)' = MidPrelude(fed) /\ Cuttable' = Cuttable
  BY <1>1 DEF CutNoMore, HasCut, Cuttable, MidPrelude
<1> QED
  BY <1>2 DEF IInv, CutNoMore

LEMMA ProviderClosesKeeps ==
  ASSUME IInv, ProviderCloses
  PROVE  IInv'
PROOF
<1>1. PICK k \in 0 .. Len(Start) - 1 : HasCut(k)
  BY DEF IInv
<1>2. expected' = expected
  BY <1>1, FrontIsCut DEF ProviderCloses
<1>3. HasCut(k)' /\ MidPrelude(fed)' = MidPrelude(fed)
  BY <1>1, <1>2 DEF ProviderCloses, HasCut, MidPrelude
<1> QED
  BY <1>3 DEF IInv, ProviderCloses

(* The reader's state at every step, if no read ends inside a length.      *)
THEOREM ReaderIsSound ==
  ASSUME ~SplitsPrelude
  PROVE  Spec => []IInv
PROOF
<1>1. Init => IInv
  BY InitKeeps
<1>2. IInv /\ [Next]_vars => IInv'
  <2> SUFFICES ASSUME IInv, [Next]_vars PROVE IInv'
    OBVIOUS
  <2>1. CASE UNCHANGED vars
    BY <2>1 DEF vars, IInv, HasCut, Cuttable, MidPrelude
  <2>2. ASSUME NEW n \in 1 .. BodyLength, Read(n) PROVE IInv'
    BY <2>2, ReadKeeps
  <2>3. CASE Cut
    BY <2>3, CutKeeps
  <2>4. CASE CutNoMore
    BY <2>4, CutNoMoreKeeps
  <2>5. CASE ProviderCloses
    BY <2>5, ProviderClosesKeeps
  <2> QED
    BY <2>1, <2>2, <2>3, <2>4, <2>5 DEF Next
<1> QED
  BY <1>1, <1>2, PTL DEF Spec

(* However a body is cut up on its way, short of inside a length, every    *)
(* frame that is all there has been handed on once and in order whenever   *)
(* the reader waits for more or has ended (readAWSStream's inner loop).    *)
THEOREM FramesAreCut ==
  ASSUME ~SplitsPrelude
  PROVE  Spec => []CutsWhatArrived
PROOF
<1>1. IInv => CutsWhatArrived
  <2> SUFFICES ASSUME IInv, pc \in {"reading", "ended"}
               PROVE  delivered = [j \in 1 .. Cardinality(Whole) |-> j]
    BY DEF CutsWhatArrived
  <2>1. PICK k \in 0 .. Len(Start) - 1 : HasCut(k)
    BY DEF IInv
  <2>2. Cardinality(Whole) = k
    BY <2>1, CutIsWhole DEF IInv
  <2> QED
    BY <2>1, <2>2 DEF HasCut
<1> QED
  BY <1>1, ReaderIsSound, PTL

(* A well formed body whose lengths arrive whole never makes the reader    *)
(* throw: what it cuts is always a frame (getPayloadFromAWSChunk).         *)
THEOREM WellFormedIsNoFault ==
  ASSUME ~SplitsPrelude
  PROVE  Spec => []WellFormedIsRead
PROOF
<1>1. IInv => WellFormedIsRead
  BY DEF IInv, WellFormedIsRead
<1> QED
  BY <1>1, ReaderIsSound, PTL

(* Reads that do not end inside a length are all that it takes: what       *)
(* arrives well formed is read, once, in order and without a fault.        *)
THEOREM FramesAreRead ==
  ASSUME ~SplitsPrelude
  PROVE  Spec => []ReadsFrames
<1>1. CutsWhatArrived /\ WellFormedIsRead => ReadsFrames
  BY DEF ReadsFrames
<1> QED
  BY <1>1, FramesAreCut, WellFormedIsNoFault, PTL
-----------------------------------------------------------------------------
(* That the inner loop gets on.  The provers know nothing of what an       *)
(* action can do: CanBeTaken assumes that a frame can be cut where the     *)
(* buffer holds one and its length is not nothing, and the loop be left    *)
(* where it does not, which is so by the form of Cut and CutNoMore.        *)
CanBeTaken ==
  pc \in {"cutting", "draining"} /\ (Cuttable => expected > 0)
    => ENABLED <<Cut \/ CutNoMore>>_vars

(* The reader is in its loop with n bytes in the buffer, or with fewer.    *)
Cutting(n) == pc \in {"cutting", "draining"} /\ fed - front = n
CuttingLess(n) == \E m \in 0 .. n - 1 : Cutting(m)
Left == pc \in {"reading", "ended"}

(* What the buffer holds is cut by a length that is not nothing.           *)
LEMMA LengthIsSome ==
  ASSUME IInv
  PROVE  /\ fed \in Nat /\ front \in 0 .. fed
         /\ Cuttable => expected \in Nat \ {0}
<1>1. PICK k \in 0 .. Len(Start) - 1 : HasCut(k)
  BY DEF IInv
<1>2. /\ fed \in Nat /\ front \in 0 .. fed
      /\ fed # front => k + 1 \in Frame /\ expected = Size(k + 1)
  BY <1>1, FrontIsCut
<1>3. ASSUME fed # front PROVE expected \in Nat \ {0}
  BY <1>2, <1>3, FramesAreLong, FramesAssumption DEF LenBytes
<1> QED
  BY <1>2, <1>3 DEF Cuttable

(* For any body and any n, a reader with n bytes in its buffer goes on to  *)
(* fewer or leaves its loop, so that n bytes bound the rounds it can make: *)
(* no length it takes from a well formed body sends it round for ever.     *)
THEOREM CuttingGetsOn ==
  ASSUME ~SplitsPrelude, NEW n \in Nat
  PROVE  Spec /\ []CanBeTaken => (Cutting(n) ~> CuttingLess(n) \/ Left)
<1>1. ASSUME IInv, Cutting(n), Cut PROVE CuttingLess(n)'
  <2>1. /\ expected \in Nat \ {0} /\ fed \in Nat /\ front \in Nat
        /\ fed - front >= expected /\ fed - front = n
        /\ fed' = fed /\ front' = front + expected
    BY <1>1, LengthIsSome DEF Cut, Cuttable, Cutting
  <2>2. fed' - front' \in 0 .. n - 1
    BY <2>1
  <2>3. pc' \in {"cutting", "draining"}
    BY <1>1, CutKeeps DEF Cut, IInv
  <2> QED
    BY <2>2, <2>3 DEF CuttingLess, Cutting
<1>2. ASSUME Cutting(n), CutNoMore PROVE Left'
  BY <1>2 DEF CutNoMore, Left, Cutting
<1>3. IInv /\ Cutting(n) /\ [Next]_vars
        => Cutting(n)' \/ (CuttingLess(n) \/ Left)'
  <2> SUFFICES ASSUME IInv, Cutting(n), [Next]_vars
               PROVE  Cutting(n)' \/ CuttingLess(n)' \/ Left'
    OBVIOUS
  <2>1. CASE UNCHANGED vars
    BY <2>1 DEF vars, Cutting
  <2>2. ~ProviderCloses /\ \A k \in 1 .. BodyLength : ~Read(k)
    BY DEF Cutting, ProviderCloses, Read
  <2> QED
    BY <1>1, <1>2, <2>1, <2>2 DEF Next
<1>4. IInv /\ Cutting(n) /\ <<Cut \/ CutNoMore>>_vars
        => (CuttingLess(n) \/ Left)'
  BY <1>1, <1>2
<1>5. IInv /\ CanBeTaken /\ Cutting(n) => ENABLED <<Cut \/ CutNoMore>>_vars
  BY LengthIsSome DEF CanBeTaken, Cutting
<1> QED
  BY <1>3, <1>4, <1>5, ReaderIsSound, PTL DEF Spec
=============================================================================
