------------------------ MODULE MessagesStreamProofs ------------------------
(***************************************************************************)
(* What is proved of MessagesStream, for any indices and ids a provider    *)
(* gives its tool calls and any number of things said: the events follow   *)
(* the block protocol of the Messages API, a message ends once, closed,    *)
(* and every piece of a call's arguments gets to the call's own block.     *)
(***************************************************************************)
EXTENDS MessagesStream, FiniteSetTheorems, TLAPS

Kinds == {"text", "thinking", "tool_use"}
Slot == [id : Ids \cup {None}, block : Nat \cup {None}, pending : Seq(Nat)]
StreamState ==
  [hasStarted : BOOLEAN, completed : BOOLEAN, contentBlockIndex : Nat,
   thinkingIndex : Nat \cup {None}, textIndex : Nat \cup {None},
   openIndex : Nat \cup {None}, toolSlots : [Indices -> Slot \cup {None}]]
Event ==
  [type : {"message_start", "message_delta", "message_stop", "error"}]
    \cup [type : {"content_block_start"}, index : Nat, kind : Kinds]
    \cup [type : {"content_block_stop"}, index : Nat]
    \cup [type : {"content_block_delta"}, index : Nat, kind : Kinds, from : Seq(Nat)]
InProgress == [state : StreamState, events : Seq(Event)]

-----------------------------------------------------------------------------
(* What a caller who has read w knows: which events started a block, which *)
(* blocks those are and of what kind, which of them are over, and whether  *)
(* the message is.                                                         *)
Begun(w) == {m \in DOMAIN w : w[m].type = "content_block_start"}
StartedIn(w) == {w[m].index : m \in Begun(w)}
KindsIn(w) == {<<w[m].index, w[m].kind>> : m \in Begun(w)}
StoppedIn(w) ==
  {w[m].index : m \in {k \in DOMAIN w : w[k].type = "content_block_stop"}}
Over(w) == \E m \in DOMAIN w : w[m].type \in {"error", "message_stop"}

(* Whether that caller can be sent e next.                                 *)
Fits(w, e) ==
  /\ ~Over(w)
  /\ e.type = "message_start" => w = <<>>
  /\ e.type = "content_block_start" =>
       e.index = Cardinality(Begun(w)) /\ StartedIn(w) = StoppedIn(w)
  /\ e.type = "content_block_stop" => e.index \in StartedIn(w) \ StoppedIn(w)
  /\ e.type = "content_block_delta" =>
       /\ <<e.index, e.kind>> \in KindsIn(w)
       /\ e.kind # "tool_use" => e.index \notin StoppedIn(w)
  /\ e.type = "message_stop" =>
       /\ w # <<>> /\ w[1].type = "message_start"
       /\ StartedIn(w) # {} /\ StartedIn(w) = StoppedIn(w)

Protocol(w) == \A n \in DOMAIN w : Fits(SubSeq(w, 1, n - 1), w[n])

(* How the adapter's state stands to what it has sent: it knows how many   *)
(* blocks there are and which is open, no other is, and an index it keeps  *)
(* is that of a block of the right kind.                                   *)
Sound(s, w) ==
  /\ Protocol(w)
  /\ s.contentBlockIndex = Cardinality(Begun(w))
  /\ StartedIn(w) = 0 .. s.contentBlockIndex - 1
  /\ StoppedIn(w) = {i \in StartedIn(w) : i # s.openIndex}
  /\ s.openIndex # None => s.openIndex \in StartedIn(w)
  /\ s.thinkingIndex # None =>
       s.thinkingIndex = s.openIndex /\ <<s.thinkingIndex, "thinking">> \in KindsIn(w)
  /\ s.textIndex # None =>
       s.textIndex = s.openIndex /\ <<s.textIndex, "text">> \in KindsIn(w)
  /\ \A i \in Indices :
       s.toolSlots[i] # None /\ s.toolSlots[i].block # None =>
         <<s.toolSlots[i].block, "tool_use">> \in KindsIn(w)
  /\ s.hasStarted => w # <<>> /\ w[1].type = "message_start"
  /\ ~s.hasStarted => w = <<>> \/ Over(w)

Types == state \in StreamState /\ wire \in Seq(Event) /\ heard \in Seq(Piece)
IInv == Types /\ Sound(state, wire) /\ (Over(wire) => state.completed)

-----------------------------------------------------------------------------
LEMMA EventTypes ==
  /\ \A i \in Nat, k \in Kinds : Start(i, k) \in Event
  /\ \A i \in Nat : Stop(i) \in Event
  /\ \A i \in Nat, k \in Kinds, from \in Seq(Nat) : Delta(i, k, from) \in Event
  /\ \A t \in {"message_start", "message_delta", "message_stop", "error"} :
       [type |-> t] \in Event
BY DEF Start, Stop, Delta, Event

(* What one more event tells the caller.                                   *)
LEMMA AppendTells ==
  ASSUME NEW w \in Seq(Event), NEW e \in Event
  PROVE  LET v == Append(w, e) IN
         /\ v \in Seq(Event) /\ v # <<>> /\ v[1] = IF w = <<>> THEN e ELSE w[1]
         /\ Begun(v) = IF e.type = "content_block_start"
                       THEN Begun(w) \cup {Len(w) + 1} ELSE Begun(w)
         /\ StartedIn(v) = IF e.type = "content_block_start"
                           THEN StartedIn(w) \cup {e.index} ELSE StartedIn(w)
         /\ KindsIn(v) = IF e.type = "content_block_start"
                         THEN KindsIn(w) \cup {<<e.index, e.kind>>} ELSE KindsIn(w)
         /\ StoppedIn(v) = IF e.type = "content_block_stop"
                           THEN StoppedIn(w) \cup {e.index} ELSE StoppedIn(w)
         /\ Over(v) <=> Over(w) \/ e.type \in {"error", "message_stop"}
<1> DEFINE v == Append(w, e)
<1>1. /\ v \in Seq(Event) /\ v # <<>> /\ Len(v) = Len(w) + 1 /\ Len(w) \in Nat
      /\ DOMAIN w = 1 .. Len(w) /\ DOMAIN v = 1 .. Len(w) + 1
      /\ v[Len(w) + 1] = e /\ \A m \in 1 .. Len(w) : v[m] = w[m]
  OBVIOUS
<1>2. v[1] = IF w = <<>> THEN e ELSE w[1]
  BY <1>1
<1> HIDE DEF v
<1>3. \A m : m \in DOMAIN v <=> m \in DOMAIN w \/ m = Len(w) + 1
  BY <1>1
<1>4. \A m \in DOMAIN w : v[m] = w[m] /\ m # Len(w) + 1
  BY <1>1
<1>5. Begun(v) = IF e.type = "content_block_start"
                 THEN Begun(w) \cup {Len(w) + 1} ELSE Begun(w)
  BY <1>1, <1>3, <1>4 DEF Begun
<1>6. \A m \in Begun(w) : v[m] = w[m]
  BY <1>4 DEF Begun
<1>7. StartedIn(v) = IF e.type = "content_block_start"
                     THEN StartedIn(w) \cup {e.index} ELSE StartedIn(w)
  BY <1>1, <1>5, <1>6 DEF StartedIn
<1>8. KindsIn(v) = IF e.type = "content_block_start"
                   THEN KindsIn(w) \cup {<<e.index, e.kind>>} ELSE KindsIn(w)
  BY <1>1, <1>5, <1>6 DEF KindsIn
<1>9. StoppedIn(v) = IF e.type = "content_block_stop"
                     THEN StoppedIn(w) \cup {e.index} ELSE StoppedIn(w)
  BY <1>1, <1>3, <1>4 DEF StoppedIn
<1>10. Over(v) <=> Over(w) \/ e.type \in {"error", "message_stop"}
  BY <1>1, <1>3, <1>4 DEF Over
<1>11. QED
  BY <1>1, <1>2, <1>5, <1>7, <1>8, <1>9, <1>10 DEF v

(* An event that fits keeps the protocol.                                  *)
LEMMA AppendFits ==
  ASSUME NEW w \in Seq(Event), NEW e \in Event, Protocol(w), Fits(w, e)
  PROVE  Protocol(Append(w, e))
<1> DEFINE v == Append(w, e)
<1>1. /\ Len(w) \in Nat /\ DOMAIN w = 1 .. Len(w) /\ DOMAIN v = 1 .. Len(w) + 1
      /\ v[Len(w) + 1] = e /\ \A m \in 1 .. Len(w) : v[m] = w[m]
      /\ Len(v) = Len(w) + 1
  OBVIOUS
<1>2. \A n \in DOMAIN v : SubSeq(v, 1, n - 1) = SubSeq(w, 1, n - 1)
  BY <1>1
<1>3. SubSeq(w, 1, Len(w)) = w
  BY <1>1
<1> SUFFICES ASSUME NEW n \in DOMAIN v PROVE Fits(SubSeq(v, 1, n - 1), v[n])
  BY DEF Protocol
<1>4. CASE n = Len(w) + 1
  <2>1. SubSeq(v, 1, n - 1) = w /\ v[n] = e
    BY <1>1, <1>2, <1>3, <1>4
  <2>2. QED
    BY <2>1
<1>5. CASE n # Len(w) + 1
  <2>1. n \in DOMAIN w /\ v[n] = w[n]
    BY <1>1, <1>5
  <2>2. QED
    BY <1>2, <2>1 DEF Protocol
<1>6. QED
  BY <1>4, <1>5

(* The events that started a block are finitely many.                      *)
LEMMA BegunIsFinite ==
  ASSUME NEW w \in Seq(Event)
  PROVE  IsFiniteSet(Begun(w)) /\ Cardinality(Begun(w)) \in Nat
         /\ Len(w) + 1 \notin Begun(w)
<1>1. Len(w) \in Nat /\ DOMAIN w = 1 .. Len(w)
  OBVIOUS
<1>2. IsFiniteSet(1 .. Len(w)) /\ Begun(w) \subseteq 1 .. Len(w)
  BY <1>1, FS_Interval DEF Begun
<1>3. IsFiniteSet(Begun(w))
  BY <1>2, FS_Subset
<1>4. QED
  BY <1>1, <1>2, <1>3, FS_CardinalityType

-----------------------------------------------------------------------------
(* What the blocks of tool calls hold, and what leaves that as it is.      *)
InOrder(fragments, pieces) ==
  /\ {fragments[x] : x \in DOMAIN fragments} = pieces
  /\ \A x, y \in DOMAIN fragments : x < y => fragments[x] < fragments[y]

Alike(v, w) ==
  /\ Blocks(w) = Blocks(v)
  /\ \A i \in Blocks(v) : \A S : Holds(v, i, S) => Holds(w, i, S)

(* w is v with a block for one more tool call, with nothing in it yet.      *)
Adds(v, n, w) ==
  /\ n \notin Blocks(v) /\ Blocks(w) = Blocks(v) \cup {n} /\ Holds(w, n, {})
  /\ \A i \in Blocks(v) : \A S : Holds(v, i, S) => Holds(w, i, S)

LEMMA AlikeJoins == ASSUME NEW u, NEW v, NEW w, Alike(u, v), Alike(v, w) PROVE Alike(u, w)
BY DEF Alike

LEMMA BlocksAreKinds ==
  ASSUME NEW w
  PROVE  \A i : i \in Blocks(w) <=> <<i, "tool_use">> \in KindsIn(w)
BY DEF Blocks, KindsIn, Begun

(* A block is of one kind, and nothing is sent into one before it starts.  *)
LEMMA KindsAreOne ==
  ASSUME NEW w \in Seq(Event), Protocol(w)
  PROVE  \A i, k, l : <<i, k>> \in KindsIn(w) /\ <<i, l>> \in KindsIn(w) => k = l
<1>1. Len(w) \in Nat /\ DOMAIN w = 1 .. Len(w)
  OBVIOUS
<1>2. ASSUME NEW m \in Begun(w), NEW n \in Begun(w), m < n, w[m].index = w[n].index
      PROVE  FALSE
  <2> DEFINE u == SubSeq(w, 1, m - 1)
             v == SubSeq(w, 1, n - 1)
  <2>1. /\ m \in DOMAIN w /\ w[m].type = "content_block_start"
        /\ n \in DOMAIN w /\ w[n].type = "content_block_start"
    BY DEF Begun
  <2>2. /\ u \in Seq(Event) /\ DOMAIN u = 1 .. m - 1 /\ \A k \in 1 .. m - 1 : u[k] = w[k]
        /\ v \in Seq(Event) /\ DOMAIN v = 1 .. n - 1 /\ \A k \in 1 .. n - 1 : v[k] = w[k]
    BY <1>1, <2>1
  <2>3. Fits(u, w[m]) /\ Fits(v, w[n])
    BY <2>1 DEF Protocol
  <2> HIDE DEF u, v
  <2>4. Cardinality(Begun(u)) = Cardinality(Begun(v))
    BY <1>2, <2>1, <2>3 DEF Fits
  <2>5. m \in 1 .. n - 1 /\ m \notin 1 .. m - 1 /\ \A k \in 1 .. m - 1 : k \in 1 .. n - 1
    BY <1>1, <1>2, <2>1
  <2>6. Begun(u) \subseteq Begun(v) /\ m \in Begun(v) /\ m \notin Begun(u)
    BY <2>1, <2>2, <2>5 DEF Begun
  <2>7. IsFiniteSet(Begun(v))
    BY <2>2, BegunIsFinite
  <2>8. QED
    BY <2>4, <2>6, <2>7, FS_Subset
<1>3. \A m, n \in Begun(w) : w[m].index = w[n].index => m = n
  <2>1. \A m, n \in Begun(w) : m < n \/ n < m \/ m = n
    BY <1>1 DEF Begun
  <2>2. QED
    BY <1>2, <2>1
<1>4. QED
  BY <1>3 DEF KindsIn

LEMMA DeltasAreOfStarted ==
  ASSUME NEW w \in Seq(Event), Protocol(w), NEW i, i \notin StartedIn(w)
  PROVE  DeltasInto(w, i) = {} /\ i \notin Blocks(w)
<1>1. Len(w) \in Nat /\ DOMAIN w = 1 .. Len(w)
  OBVIOUS
<1>2. ASSUME NEW n \in DOMAIN w, w[n].type = "content_block_delta" PROVE w[n].index # i
  <2> DEFINE v == SubSeq(w, 1, n - 1)
  <2>1. DOMAIN v = 1 .. n - 1 /\ \A k \in 1 .. n - 1 : v[k] = w[k] /\ k \in DOMAIN w
    BY <1>1
  <2>2. Fits(v, w[n])
    BY DEF Protocol
  <2> HIDE DEF v
  <2>3. PICK m \in Begun(v) : v[m].index = w[n].index
    BY <1>2, <2>2 DEF Fits, KindsIn
  <2>4. m \in Begun(w) /\ w[m].index = w[n].index
    BY <2>1, <2>3 DEF Begun
  <2>5. QED
    BY <2>4 DEF StartedIn
<1>3. i \notin Blocks(w)
  BY DEF Blocks, StartedIn, Begun
<1>4. QED
  BY <1>2, <1>3 DEF DeltasInto

(* What one more event puts into the blocks.                               *)
LEMMA AppendInto ==
  ASSUME NEW w \in Seq(Event), NEW e \in Event
  PROVE  /\ Blocks(Append(w, e)) =
              IF e.type = "content_block_start" /\ e.kind = "tool_use"
              THEN Blocks(w) \cup {e.index} ELSE Blocks(w)
         /\ \A i : DeltasInto(Append(w, e), i) =
              IF e.type = "content_block_delta" /\ e.index = i
              THEN DeltasInto(w, i) \cup {Len(w) + 1} ELSE DeltasInto(w, i)
         /\ Append(w, e)[Len(w) + 1] = e
         /\ \A i : \A m \in DeltasInto(w, i) : Append(w, e)[m] = w[m] /\ m < Len(w) + 1
<1> DEFINE v == Append(w, e)
<1>1. /\ Len(w) \in Nat /\ DOMAIN w = 1 .. Len(w) /\ DOMAIN v = 1 .. Len(w) + 1
      /\ v[Len(w) + 1] = e /\ \A m \in 1 .. Len(w) : v[m] = w[m]
  OBVIOUS
<1> HIDE DEF v
<1>2. \A m : m \in DOMAIN v <=> m \in DOMAIN w \/ m = Len(w) + 1
  BY <1>1
<1>3. \A m \in DOMAIN w : v[m] = w[m] /\ m # Len(w) + 1 /\ m < Len(w) + 1
  BY <1>1
<1>4. Blocks(v) = IF e.type = "content_block_start" /\ e.kind = "tool_use"
                  THEN Blocks(w) \cup {e.index} ELSE Blocks(w)
  BY <1>1, <1>2, <1>3 DEF Blocks
<1>5. ASSUME NEW i
      PROVE  DeltasInto(v, i) = IF e.type = "content_block_delta" /\ e.index = i
                                THEN DeltasInto(w, i) \cup {Len(w) + 1}
                                ELSE DeltasInto(w, i)
  BY <1>1, <1>2, <1>3 DEF DeltasInto
<1>6. \A i : \A m \in DeltasInto(w, i) : v[m] = w[m] /\ m < Len(w) + 1
  BY <1>3 DEF DeltasInto
<1>7. QED
  BY <1>1, <1>4, <1>5, <1>6 DEF v

LEMMA HoldsStill ==
  ASSUME NEW v, NEW w, NEW i, DeltasInto(w, i) = DeltasInto(v, i),
         \A m \in DeltasInto(v, i) : w[m] = v[m], NEW S, Holds(v, i, S)
  PROVE  Holds(w, i, S)
<1> DEFINE into == DeltasInto(v, i)
<1>1. UNION {{w[m].from[x] : x \in DOMAIN w[m].from} : m \in into}
        = UNION {{v[m].from[x] : x \in DOMAIN v[m].from} : m \in into}
  OBVIOUS
<1>2. /\ UNION {{v[m].from[x] : x \in DOMAIN v[m].from} : m \in into} = S
      /\ \A m, k \in into : \A x \in DOMAIN v[m].from, y \in DOMAIN v[k].from :
           m < k \/ (m = k /\ x < y) => v[m].from[x] < v[k].from[y]
  BY DEF Holds
<1>3. \A m, k \in into : \A x \in DOMAIN w[m].from, y \in DOMAIN w[k].from :
        m < k \/ (m = k /\ x < y) => w[m].from[x] < w[k].from[y]
  BY <1>2
<1>4. QED
  BY <1>1, <1>2, <1>3 DEF Holds

LEMMA QuietAlike ==
  ASSUME NEW w \in Seq(Event), NEW e \in Event,
         e.type = "content_block_start" => e.kind # "tool_use",
         e.type = "content_block_delta" => e.index \notin Blocks(w)
  PROVE  Alike(w, Append(w, e))
<1> DEFINE v == Append(w, e)
<1>1. /\ Blocks(v) = Blocks(w)
      /\ \A i \in Blocks(w) : DeltasInto(v, i) = DeltasInto(w, i)
      /\ \A i : \A m \in DeltasInto(w, i) : v[m] = w[m]
  <2>1. /\ Blocks(v) = IF e.type = "content_block_start" /\ e.kind = "tool_use"
                       THEN Blocks(w) \cup {e.index} ELSE Blocks(w)
        /\ \A i : DeltasInto(v, i) = IF e.type = "content_block_delta" /\ e.index = i
                                    THEN DeltasInto(w, i) \cup {Len(w) + 1}
                                    ELSE DeltasInto(w, i)
        /\ v[Len(w) + 1] = e
        /\ \A i : \A m \in DeltasInto(w, i) : v[m] = w[m] /\ m < Len(w) + 1
    BY AppendInto, Zenon
  <2> HIDE DEF v
  <2>2. QED
    BY <2>1
<1> HIDE DEF v
<1>2. ASSUME NEW i \in Blocks(w), NEW S, Holds(w, i, S) PROVE Holds(v, i, S)
  BY <1>1, <1>2, HoldsStill
<1>3. Alike(w, v)
  BY <1>1, <1>2 DEF Alike
<1>4. QED
  BY <1>3 DEF v

(* A tool call's block starts with nothing in it.                          *)
LEMMA StartHolds ==
  ASSUME NEW w \in Seq(Event), Protocol(w), NEW n \in Nat, n \notin StartedIn(w)
  PROVE  Adds(w, n, Append(w, Start(n, "tool_use")))
<1> DEFINE e == Start(n, "tool_use")
           v == Append(w, e)
<1>1. /\ e \in Event /\ e.type = "content_block_start" /\ e.kind = "tool_use" /\ e.index = n
  BY EventTypes DEF Start, Kinds
<1>2. DeltasInto(w, n) = {} /\ n \notin Blocks(w)
  BY DeltasAreOfStarted
<1> HIDE DEF e
<1>3. /\ Blocks(v) = Blocks(w) \cup {n}
      /\ \A i : DeltasInto(v, i) = DeltasInto(w, i)
      /\ \A i : \A m \in DeltasInto(w, i) : v[m] = w[m]
  <2>1. /\ Blocks(v) = IF e.type = "content_block_start" /\ e.kind = "tool_use"
                       THEN Blocks(w) \cup {e.index} ELSE Blocks(w)
        /\ \A i : DeltasInto(v, i) = IF e.type = "content_block_delta" /\ e.index = i
                                    THEN DeltasInto(w, i) \cup {Len(w) + 1}
                                    ELSE DeltasInto(w, i)
        /\ v[Len(w) + 1] = e
        /\ \A i : \A m \in DeltasInto(w, i) : v[m] = w[m] /\ m < Len(w) + 1
    BY <1>1, AppendInto, Zenon
  <2> HIDE DEF v
  <2>2. QED
    BY <1>1, <2>1
<1> HIDE DEF v
<1>4. Holds(v, n, {})
  BY <1>2, <1>3 DEF Holds
<1>5. ASSUME NEW i \in Blocks(w), NEW S, Holds(w, i, S) PROVE Holds(v, i, S)
  BY <1>3, <1>5, HoldsStill
<1>6. QED
  BY <1>2, <1>3, <1>4, <1>5 DEF Adds, v, e

(* And a delta adds what it carries to its own block.                      *)
LEMMA DeltaHolds ==
  ASSUME NEW w \in Seq(Event), NEW i \in Nat, NEW from \in Seq(Nat), NEW S, NEW T,
         Holds(w, i, S), InOrder(from, T), \A a \in S, b \in T : a < b
  PROVE  LET v == Append(w, Delta(i, "tool_use", from)) IN
         /\ Blocks(v) = Blocks(w) /\ Holds(v, i, S \cup T)
         /\ \A j \in Blocks(w) \ {i} : \A R : Holds(w, j, R) => Holds(v, j, R)
<1> DEFINE e == Delta(i, "tool_use", from)
           v == Append(w, e)
           n == Len(w) + 1
           into == DeltasInto(w, i)
<1>1. /\ e \in Event /\ e.type = "content_block_delta" /\ e.index = i /\ e.from = from
  BY EventTypes DEF Delta, Kinds
<1> HIDE DEF e
<1>2. /\ Blocks(v) = Blocks(w) /\ v[n] = e
      /\ DeltasInto(v, i) = into \cup {n}
      /\ \A j \in Blocks(w) \ {i} : DeltasInto(v, j) = DeltasInto(w, j)
      /\ \A j : \A m \in DeltasInto(w, j) : v[m] = w[m] /\ m < n
  <2>1. /\ Blocks(v) = IF e.type = "content_block_start" /\ e.kind = "tool_use"
                       THEN Blocks(w) \cup {e.index} ELSE Blocks(w)
        /\ \A j : DeltasInto(v, j) = IF e.type = "content_block_delta" /\ e.index = j
                                    THEN DeltasInto(w, j) \cup {Len(w) + 1}
                                    ELSE DeltasInto(w, j)
        /\ v[Len(w) + 1] = e
        /\ \A j : \A m \in DeltasInto(w, j) : v[m] = w[m] /\ m < Len(w) + 1
    BY <1>1, AppendInto, Zenon
  <2> HIDE DEF v
  <2>2. QED
    BY <1>1, <2>1
<1> HIDE DEF v
<1>3. ASSUME NEW j \in Blocks(w) \ {i}, NEW R, Holds(w, j, R) PROVE Holds(v, j, R)
  BY <1>2, <1>3, HoldsStill
<1>4. /\ n \in Nat /\ into \subseteq Nat /\ n \notin into
  <2>1. into \subseteq Nat
    BY DEF DeltasInto
  <2>2. QED
    BY <1>2, <2>1
<1> HIDE DEF n
<1>5. /\ UNION {{w[m].from[x] : x \in DOMAIN w[m].from} : m \in into} = S
      /\ \A m, k \in into : \A x \in DOMAIN w[m].from, y \in DOMAIN w[k].from :
           m < k \/ (m = k /\ x < y) => w[m].from[x] < w[k].from[y]
  BY DEF Holds
<1>6. UNION {{v[m].from[x] : x \in DOMAIN v[m].from} : m \in into \cup {n}} = S \cup T
  <2>1. {v[n].from[x] : x \in DOMAIN v[n].from} = T
    BY <1>1, <1>2 DEF InOrder
  <2>2. UNION {{v[m].from[x] : x \in DOMAIN v[m].from} : m \in into} = S
    BY <1>2, <1>5
  <2>3. QED
    BY <2>1, <2>2
<1>7. ASSUME NEW m \in into \cup {n}, NEW k \in into \cup {n},
             NEW x \in DOMAIN v[m].from, NEW y \in DOMAIN v[k].from,
             m < k \/ (m = k /\ x < y)
      PROVE  v[m].from[x] < v[k].from[y]
  <2>1. CASE m \in into /\ k \in into
    BY <1>2, <1>5, <1>7, <2>1
  <2>2. CASE m \in into /\ k = n
    <3>1. v[m].from[x] \in S
      BY <1>2, <1>5, <2>2
    <3>2. v[k].from[y] \in T
      BY <1>1, <1>2, <2>2 DEF InOrder
    <3>3. QED
      BY <3>1, <3>2
  <2>3. CASE m = n /\ k = n
    <3>1. x < y
      BY <1>4, <1>7, <2>3
    <3>2. QED
      BY <1>1, <1>2, <2>3, <3>1 DEF InOrder
  <2>4. CASE m = n /\ k \in into
    BY <1>2, <1>4, <1>7, <2>4
  <2>5. QED
    BY <2>1, <2>2, <2>3, <2>4
<1>8. Holds(v, i, S \cup T)
  BY <1>2, <1>6, <1>7 DEF Holds
<1>9. QED
  BY <1>2, <1>3, <1>8 DEF v, e

-----------------------------------------------------------------------------
(* What the caller will have read once the call in progress has sent.      *)
Written(c) == wire \o c.events

LEMMA EmitWrites ==
  ASSUME wire \in Seq(Event), NEW c \in InProgress, NEW e \in Event
  PROVE  /\ Written(c) \in Seq(Event)
         /\ Emit(c, e) \in InProgress
         /\ Emit(c, e).state = c.state
         /\ Written(Emit(c, e)) = Append(Written(c), e)
<1>1. c.events \in Seq(Event) /\ c.state \in StreamState
  BY DEF InProgress
<1>2. /\ Emit(c, e) \in InProgress /\ Emit(c, e).state = c.state
      /\ Emit(c, e).events = Append(c.events, e)
  BY <1>1 DEF Emit, InProgress
<1>3. wire \o Append(c.events, e) = Append(wire \o c.events, e)
  BY <1>1
<1>4. QED
  BY <1>1, <1>2, <1>3 DEF Written

-----------------------------------------------------------------------------
(* The three events of a block, as steps of state and wire together.       *)

(* A state that has started and sent something it may still add to.        *)
Adding(s, w) ==
  /\ s \in StreamState /\ w \in Seq(Event)
  /\ Sound(s, w) /\ ~Over(w) /\ s.hasStarted

Closing(s) ==
  [s EXCEPT !.openIndex = None,
            !.thinkingIndex = IF @ = s.openIndex THEN None ELSE @,
            !.textIndex = IF @ = s.openIndex THEN None ELSE @]

LEMMA StopKeeps ==
  ASSUME NEW s, NEW w, Adding(s, w), s.openIndex # None
  PROVE  Adding(Closing(s), Append(w, Stop(s.openIndex)))
<1> DEFINE e == Stop(s.openIndex)
           v == Append(w, e)
           t == Closing(s)
<1>1. /\ s \in StreamState /\ w \in Seq(Event) /\ Sound(s, w) /\ ~Over(w) /\ s.hasStarted
      /\ s.openIndex \in Nat /\ None \notin Nat
  BY DataAssumption DEF Adding, StreamState
<1>2. e \in Event /\ e.type = "content_block_stop" /\ e.index = s.openIndex
  BY <1>1, EventTypes DEF Stop
<1>3. /\ t \in StreamState /\ t.openIndex = None /\ t.hasStarted = s.hasStarted
      /\ t.contentBlockIndex = s.contentBlockIndex /\ t.toolSlots = s.toolSlots
      /\ t.thinkingIndex = None \/ (t.thinkingIndex = s.thinkingIndex /\ s.thinkingIndex # s.openIndex)
      /\ t.textIndex = None \/ (t.textIndex = s.textIndex /\ s.textIndex # s.openIndex)
  BY <1>1 DEF Closing, StreamState
<1>4. t.thinkingIndex = None /\ t.textIndex = None
  BY <1>1, <1>3 DEF Sound
<1>5. Fits(w, e)
  BY <1>1, <1>2 DEF Fits, Sound
<1>6. Protocol(v)
  BY <1>1, <1>2, <1>5, AppendFits DEF Sound
<1>7. /\ v \in Seq(Event) /\ v # <<>> /\ v[1] = IF w = <<>> THEN e ELSE w[1]
      /\ Begun(v) = Begun(w) /\ StartedIn(v) = StartedIn(w) /\ KindsIn(v) = KindsIn(w)
      /\ StoppedIn(v) = StoppedIn(w) \cup {s.openIndex} /\ ~Over(v)
  BY <1>1, <1>2, AppendTells
<1> HIDE DEF v, t, e
<1>8. \A i \in StartedIn(v) : i # None
  BY <1>1, <1>7 DEF Sound
<1>9. StoppedIn(v) = {i \in StartedIn(v) : i # t.openIndex}
  BY <1>1, <1>3, <1>7, <1>8 DEF Sound
<1>10. v[1].type = "message_start"
  BY <1>1, <1>7 DEF Sound
<1>11. \A i \in Indices :
        t.toolSlots[i] # None /\ t.toolSlots[i].block # None =>
          <<t.toolSlots[i].block, "tool_use">> \in KindsIn(v)
  BY <1>1, <1>3, <1>7 DEF Sound
<1>12. t.contentBlockIndex = Cardinality(Begun(v)) /\ StartedIn(v) = 0 .. t.contentBlockIndex - 1
  BY <1>1, <1>3, <1>7 DEF Sound
<1>13. Sound(t, v)
  BY <1>1, <1>3, <1>4, <1>6, <1>7, <1>9, <1>10, <1>11, <1>12 DEF Sound
<1>14. Adding(t, v)
  BY <1>1, <1>3, <1>7, <1>13 DEF Adding
<1>15. QED
  BY <1>14 DEF t, v, e

Opening(s) ==
  [s EXCEPT !.contentBlockIndex = @ + 1, !.openIndex = s.contentBlockIndex]

LEMMA StartKeeps ==
  ASSUME NEW s, NEW w, NEW kind \in Kinds, Adding(s, w), s.openIndex = None
  PROVE  LET v == Append(w, Start(s.contentBlockIndex, kind)) IN
         /\ Adding(Opening(s), v)
         /\ <<s.contentBlockIndex, kind>> \in KindsIn(v)
<1> DEFINE n == s.contentBlockIndex
           e == Start(n, kind)
           v == Append(w, e)
           t == Opening(s)
<1>1. /\ s \in StreamState /\ w \in Seq(Event) /\ Sound(s, w) /\ ~Over(w) /\ s.hasStarted
      /\ n \in Nat /\ None \notin Nat
  BY DataAssumption DEF Adding, StreamState
<1>2. e \in Event /\ e.type = "content_block_start" /\ e.index = n /\ e.kind = kind
  BY <1>1, EventTypes DEF Start
<1>3. /\ t \in StreamState /\ t.openIndex = n /\ t.hasStarted = s.hasStarted
      /\ t.contentBlockIndex = n + 1 /\ t.toolSlots = s.toolSlots
      /\ t.thinkingIndex = s.thinkingIndex /\ t.textIndex = s.textIndex
  <2>1. s.contentBlockIndex + 1 \in Nat
    BY <1>1
  <2>2. /\ t.openIndex = n /\ t.hasStarted = s.hasStarted
        /\ t.contentBlockIndex = n + 1 /\ t.toolSlots = s.toolSlots
        /\ t.thinkingIndex = s.thinkingIndex /\ t.textIndex = s.textIndex
    BY <1>1 DEF Opening, StreamState
  <2>3. t \in StreamState
    BY <1>1, <2>1 DEF Opening, StreamState
  <2>4. QED
    BY <2>2, <2>3
<1>4. t.thinkingIndex = None /\ t.textIndex = None
  BY <1>1, <1>3 DEF Sound
<1>5. StartedIn(w) = 0 .. n - 1 /\ n = Cardinality(Begun(w))
  BY <1>1 DEF Sound
<1>6. StoppedIn(w) = StartedIn(w)
  BY <1>1, <1>5 DEF Sound
<1>7. Protocol(v)
  <2>1. Fits(w, e)
    BY <1>1, <1>2, <1>5, <1>6 DEF Fits
  <2>2. QED
    BY <1>1, <1>2, <2>1, AppendFits DEF Sound
<1>8. /\ v \in Seq(Event) /\ v # <<>> /\ v[1] = IF w = <<>> THEN e ELSE w[1]
      /\ Begun(v) = Begun(w) \cup {Len(w) + 1}
      /\ StartedIn(v) = StartedIn(w) \cup {n}
      /\ KindsIn(v) = KindsIn(w) \cup {<<n, kind>>}
      /\ StoppedIn(v) = StoppedIn(w) /\ ~Over(v)
  BY <1>1, <1>2, AppendTells
<1> HIDE DEF v, t, e
<1>9. Cardinality(Begun(v)) = n + 1
  <2>1. IsFiniteSet(Begun(w)) /\ Len(w) + 1 \notin Begun(w)
    BY <1>1, BegunIsFinite
  <2>2. Cardinality(Begun(w) \cup {Len(w) + 1}) = Cardinality(Begun(w)) + 1
    BY <2>1, FS_AddElement, Zenon
  <2>3. QED
    BY <1>5, <1>8, <2>2
<1>10. StartedIn(v) = 0 .. t.contentBlockIndex - 1
  BY <1>1, <1>3, <1>5, <1>8
<1>11. StoppedIn(v) = {i \in StartedIn(v) : i # t.openIndex}
  BY <1>1, <1>3, <1>5, <1>6, <1>8
<1>12. t.openIndex \in StartedIn(v)
  BY <1>3, <1>8
<1>13. v[1].type = "message_start"
  BY <1>1, <1>8 DEF Sound
<1>14. \A i \in Indices :
        t.toolSlots[i] # None /\ t.toolSlots[i].block # None =>
          <<t.toolSlots[i].block, "tool_use">> \in KindsIn(v)
  BY <1>1, <1>3, <1>8 DEF Sound
<1>15. Sound(t, v)
  BY <1>1, <1>3, <1>4, <1>7, <1>8, <1>9, <1>10, <1>11, <1>12, <1>13, <1>14 DEF Sound
<1>16. Adding(t, v) /\ <<n, kind>> \in KindsIn(v)
  BY <1>1, <1>3, <1>8, <1>15 DEF Adding
<1>17. QED
  BY <1>16 DEF t, v, e

LEMMA DeltaKeeps ==
  ASSUME NEW s, NEW w, Adding(s, w), NEW i \in Nat, NEW kind \in Kinds,
         NEW from \in Seq(Nat), <<i, kind>> \in KindsIn(w),
         kind # "tool_use" => i = s.openIndex
  PROVE  Adding(s, Append(w, Delta(i, kind, from)))
<1> DEFINE e == Delta(i, kind, from)
           v == Append(w, e)
<1>1. s \in StreamState /\ w \in Seq(Event) /\ Sound(s, w) /\ ~Over(w) /\ s.hasStarted
  BY DEF Adding
<1>2. /\ e \in Event /\ e.type = "content_block_delta" /\ e.index = i /\ e.kind = kind
  BY EventTypes DEF Delta
<1>3. kind # "tool_use" => i \notin StoppedIn(w)
  BY <1>1 DEF Sound
<1>4. Protocol(v)
  <2>1. Fits(w, e)
    BY <1>1, <1>2, <1>3 DEF Fits
  <2>2. QED
    BY <1>1, <1>2, <2>1, AppendFits DEF Sound
<1>5. /\ v \in Seq(Event) /\ v # <<>> /\ v[1] = IF w = <<>> THEN e ELSE w[1]
      /\ Begun(v) = Begun(w) /\ StartedIn(v) = StartedIn(w) /\ KindsIn(v) = KindsIn(w)
      /\ StoppedIn(v) = StoppedIn(w) /\ ~Over(v)
  BY <1>1, <1>2, AppendTells
<1> HIDE DEF v, e
<1>6. v[1].type = "message_start"
  BY <1>1, <1>5 DEF Sound
<1>7. Sound(s, v)
  BY <1>1, <1>4, <1>5, <1>6 DEF Sound
<1>8. Adding(s, v)
  BY <1>1, <1>5, <1>7 DEF Adding
<1>9. QED
  BY <1>8 DEF v, e

(* An index is kept only of a block of its kind.                           *)
LEMMA KeepThinking ==
  ASSUME NEW s, NEW w, Adding(s, w), s.openIndex # None,
         <<s.openIndex, "thinking">> \in KindsIn(w)
  PROVE  Adding([s EXCEPT !.thinkingIndex = s.openIndex], w)
<1> DEFINE t == [s EXCEPT !.thinkingIndex = s.openIndex]
<1>1. s \in StreamState /\ w \in Seq(Event) /\ Sound(s, w) /\ ~Over(w) /\ s.hasStarted
  BY DEF Adding
<1>2. /\ t \in StreamState /\ t.openIndex = s.openIndex /\ t.hasStarted = s.hasStarted
      /\ t.contentBlockIndex = s.contentBlockIndex /\ t.toolSlots = s.toolSlots
      /\ t.thinkingIndex = s.openIndex /\ t.textIndex = s.textIndex
  BY <1>1 DEF StreamState
<1> HIDE DEF t
<1>3. Sound(t, w)
  BY <1>1, <1>2 DEF Sound
<1>4. Adding(t, w)
  BY <1>1, <1>2, <1>3 DEF Adding
<1>5. QED
  BY <1>4 DEF t

LEMMA KeepText ==
  ASSUME NEW s, NEW w, Adding(s, w), s.openIndex # None,
         <<s.openIndex, "text">> \in KindsIn(w)
  PROVE  Adding([s EXCEPT !.textIndex = s.openIndex], w)
<1> DEFINE t == [s EXCEPT !.textIndex = s.openIndex]
<1>1. s \in StreamState /\ w \in Seq(Event) /\ Sound(s, w) /\ ~Over(w) /\ s.hasStarted
  BY DEF Adding
<1>2. /\ t \in StreamState /\ t.openIndex = s.openIndex /\ t.hasStarted = s.hasStarted
      /\ t.contentBlockIndex = s.contentBlockIndex /\ t.toolSlots = s.toolSlots
      /\ t.thinkingIndex = s.thinkingIndex /\ t.textIndex = s.openIndex
  BY <1>1 DEF StreamState
<1> HIDE DEF t
<1>3. Sound(t, w)
  BY <1>1, <1>2 DEF Sound
<1>4. Adding(t, w)
  BY <1>1, <1>2, <1>3 DEF Adding
<1>5. QED
  BY <1>4 DEF t

LEMMA KeepSlots ==
  ASSUME NEW s, NEW w, Adding(s, w),
         NEW slots \in [Indices -> Slot \cup {None}],
         \A i \in Indices : slots[i] # None /\ slots[i].block # None =>
           <<slots[i].block, "tool_use">> \in KindsIn(w)
  PROVE  Adding([s EXCEPT !.toolSlots = slots], w)
<1> DEFINE t == [s EXCEPT !.toolSlots = slots]
<1>1. s \in StreamState /\ w \in Seq(Event) /\ Sound(s, w) /\ ~Over(w) /\ s.hasStarted
  BY DEF Adding
<1>2. /\ t \in StreamState /\ t.openIndex = s.openIndex /\ t.hasStarted = s.hasStarted
      /\ t.contentBlockIndex = s.contentBlockIndex /\ t.toolSlots = slots
      /\ t.thinkingIndex = s.thinkingIndex /\ t.textIndex = s.textIndex
  BY <1>1 DEF StreamState
<1> HIDE DEF t
<1>3. Sound(t, w)
  BY <1>1, <1>2 DEF Sound
<1>4. Adding(t, w)
  BY <1>1, <1>2, <1>3 DEF Adding
<1>5. QED
  BY <1>4 DEF t

-----------------------------------------------------------------------------
(* The functions of the transform keep a call going: what they have made   *)
(* of the state stands to what they have sent as it should.                *)
Going(c) == wire \in Seq(Event) /\ c \in InProgress /\ Adding(c.state, Written(c))

LEMMA EmitGoes ==
  ASSUME NEW c, Going(c), NEW e \in Event, NEW d, d \in InProgress,
         d.events = c.events, Adding(d.state, Append(Written(c), e))
  PROVE  /\ Going(Emit(d, e)) /\ Emit(d, e).state = d.state
         /\ Written(Emit(d, e)) = Append(Written(c), e)
<1>1. Written(d) = Written(c)
  BY DEF Written
<1>2. QED
  BY <1>1, EmitWrites DEF Going

LEMMA CloseGoes ==
  ASSUME NEW c, Going(c)
  PROVE  LET d == CloseOpenBlock(c) IN
         /\ Going(d)
         /\ d.state.openIndex = None /\ d.state.thinkingIndex = None
         /\ d.state.textIndex = None
         /\ d.state.contentBlockIndex = c.state.contentBlockIndex
         /\ d.state.toolSlots = c.state.toolSlots
         /\ d.state.completed = c.state.completed
         /\ KindsIn(Written(d)) = KindsIn(Written(c))
         /\ Alike(Written(c), Written(d))
<1> DEFINE d == CloseOpenBlock(c)
           open == c.state.openIndex
<1>1. /\ c \in InProgress /\ c.state \in StreamState /\ Written(c) \in Seq(Event)
      /\ Adding(c.state, Written(c)) /\ Sound(c.state, Written(c))
  BY DEF Going, Adding
<1>2. CASE open = None
  <2>1. d = c
    BY <1>2 DEF CloseOpenBlock
  <2>2. c.state.thinkingIndex = None /\ c.state.textIndex = None
    BY <1>1, <1>2 DEF Sound
  <2>3. Alike(Written(c), Written(c))
    BY DEF Alike
  <2>4. QED
    BY <1>2, <2>1, <2>2, <2>3
<1>3. CASE open # None
  <2> DEFINE b == [c EXCEPT !.state.openIndex = None,
                            !.state.thinkingIndex = IF @ = open THEN None ELSE @,
                            !.state.textIndex = IF @ = open THEN None ELSE @]
  <2>1. d = Emit(b, Stop(open))
    BY <1>3 DEF CloseOpenBlock
  <2>2. Closing(c.state) \in StreamState
    BY <1>1 DEF Closing, StreamState
  <2>3. b.state = Closing(c.state) /\ b.events = c.events
    BY <1>1 DEF Closing, InProgress, StreamState
  <2>4. b \in InProgress
    BY <1>1, <2>2 DEF Closing, InProgress, StreamState
  <2>5. Adding(Closing(c.state), Append(Written(c), Stop(open)))
    BY <1>1, <1>3, StopKeeps
  <2>6. Stop(open) \in Event /\ Stop(open).type = "content_block_stop"
    <3>1. open \in Nat
      BY <1>1, <1>3 DEF StreamState
    <3>2. QED
      BY <3>1, EventTypes DEF Stop
  <2> HIDE DEF b
  <2>7. /\ Going(d) /\ d.state = Closing(c.state)
        /\ Written(d) = Append(Written(c), Stop(open))
    <3>1. Adding(b.state, Append(Written(c), Stop(open)))
      BY <2>3, <2>5
    <3>2. /\ Going(Emit(b, Stop(open))) /\ Emit(b, Stop(open)).state = b.state
          /\ Written(Emit(b, Stop(open))) = Append(Written(c), Stop(open))
      BY <2>3, <2>4, <2>6, <3>1, EmitGoes, Zenon
    <3>3. QED
      BY <2>1, <2>3, <3>2
  <2>8. KindsIn(Written(d)) = KindsIn(Written(c))
    BY <1>1, <2>6, <2>7, AppendTells
  <2>9. /\ d.state.openIndex = None
        /\ d.state.contentBlockIndex = c.state.contentBlockIndex
        /\ d.state.toolSlots = c.state.toolSlots
        /\ d.state.completed = c.state.completed
        /\ d.state.thinkingIndex = IF c.state.thinkingIndex = open THEN None ELSE c.state.thinkingIndex
        /\ d.state.textIndex = IF c.state.textIndex = open THEN None ELSE c.state.textIndex
    BY <1>1, <2>7 DEF Closing, StreamState
  <2>10. d.state.thinkingIndex = None /\ d.state.textIndex = None
    BY <1>1, <2>9 DEF Sound
  <2>11. Alike(Written(c), Written(d))
    BY <1>1, <2>6, <2>7, QuietAlike
  <2>12. QED
    BY <2>7, <2>8, <2>9, <2>10, <2>11
<1>4. QED
  BY <1>2, <1>3

LEMMA OpenGoes ==
  ASSUME NEW c, Going(c), NEW kind \in Kinds
  PROVE  LET d == OpenBlock(c, kind) IN
         /\ Going(d)
         /\ d.state.openIndex = c.state.contentBlockIndex
         /\ d.state.openIndex \in Nat
         /\ d.state.toolSlots = c.state.toolSlots
         /\ d.state.completed = c.state.completed
         /\ <<c.state.contentBlockIndex, kind>> \in KindsIn(Written(d))
         /\ \A x \in KindsIn(Written(c)) : x \in KindsIn(Written(d))
         /\ kind # "tool_use" => Alike(Written(c), Written(d))
         /\ kind = "tool_use" => Adds(Written(c), c.state.contentBlockIndex, Written(d))
<1> DEFINE d == OpenBlock(c, kind)
           n == c.state.contentBlockIndex
           a == CloseOpenBlock(c)
           b == [a EXCEPT !.state.contentBlockIndex = @ + 1, !.state.openIndex = n]
<1>1. /\ Going(a) /\ a.state.openIndex = None
      /\ a.state.contentBlockIndex = n /\ a.state.toolSlots = c.state.toolSlots
      /\ a.state.completed = c.state.completed
      /\ KindsIn(Written(a)) = KindsIn(Written(c))
      /\ Alike(Written(c), Written(a))
  BY CloseGoes
<1> HIDE DEF a
<1>2. /\ a \in InProgress /\ a.state \in StreamState /\ n \in Nat
      /\ Adding(a.state, Written(a)) /\ Written(a) \in Seq(Event)
  BY <1>1 DEF Going, Adding, StreamState
<1>3. d = Emit(b, Start(n, kind))
  BY DEF OpenBlock, a
<1>4. /\ Adding(Opening(a.state), Append(Written(a), Start(n, kind)))
      /\ <<n, kind>> \in KindsIn(Append(Written(a), Start(n, kind)))
  BY <1>1, <1>2, StartKeeps
<1>5. b.state = Opening(a.state) /\ b.events = a.events
  BY <1>1, <1>2 DEF Opening, InProgress, StreamState
<1>6. b \in InProgress
  <2>1. Opening(a.state) \in StreamState
    BY <1>4 DEF Adding
  <2>2. QED
    BY <1>1, <1>2, <2>1 DEF Opening, InProgress, StreamState
<1>7. Start(n, kind) \in Event /\ Start(n, kind).type = "content_block_start"
  BY <1>2, EventTypes DEF Start
<1> HIDE DEF b
<1>8. /\ Going(d) /\ d.state = Opening(a.state)
      /\ Written(d) = Append(Written(a), Start(n, kind))
  <2>1. Adding(b.state, Append(Written(a), Start(n, kind)))
    BY <1>4, <1>5
  <2>2. /\ Going(Emit(b, Start(n, kind))) /\ Emit(b, Start(n, kind)).state = b.state
        /\ Written(Emit(b, Start(n, kind))) = Append(Written(a), Start(n, kind))
    BY <1>1, <1>5, <1>6, <1>7, <2>1, EmitGoes, Zenon
  <2>3. QED
    BY <1>3, <1>5, <2>2
<1>9. /\ d.state.openIndex = n /\ d.state.toolSlots = c.state.toolSlots
      /\ d.state.completed = c.state.completed
  BY <1>1, <1>2, <1>8 DEF Opening, StreamState
<1>10. \A x \in KindsIn(Written(c)) : x \in KindsIn(Written(d))
  BY <1>1, <1>2, <1>7, <1>8, AppendTells
<1>11. kind # "tool_use" => Alike(Written(c), Written(d))
  <2> SUFFICES ASSUME kind # "tool_use" PROVE Alike(Written(c), Written(d))
    OBVIOUS
  <2>1. Start(n, kind).kind # "tool_use"
    BY DEF Start
  <2>2. Alike(Written(a), Written(d))
    BY <1>2, <1>7, <1>8, <2>1, QuietAlike
  <2>3. QED
    BY <1>1, <2>2, AlikeJoins
<1>12. kind = "tool_use" => Adds(Written(c), n, Written(d))
  <2> SUFFICES ASSUME kind = "tool_use" PROVE Adds(Written(c), n, Written(d))
    OBVIOUS
  <2>1. Protocol(Written(a)) /\ n \notin StartedIn(Written(a))
    <3>1. StartedIn(Written(a)) = 0 .. n - 1 /\ Protocol(Written(a))
      BY <1>1, <1>2 DEF Adding, Sound
    <3>2. QED
      BY <1>2, <3>1
  <2>2. Adds(Written(a), n, Written(d))
    BY <1>2, <1>8, <2>1, StartHolds
  <2>3. QED
    BY <1>1, <2>2 DEF Alike, Adds
<1>13. QED
  BY <1>2, <1>4, <1>8, <1>9, <1>10, <1>11, <1>12

LEMMA DeltaGoes ==
  ASSUME NEW c, Going(c), NEW i \in Nat, NEW kind \in Kinds, NEW from \in Seq(Nat),
         <<i, kind>> \in KindsIn(Written(c)),
         kind # "tool_use" => i = c.state.openIndex
  PROVE  LET d == Emit(c, Delta(i, kind, from)) IN
         /\ Going(d) /\ d.state = c.state
         /\ KindsIn(Written(d)) = KindsIn(Written(c))
         /\ Written(d) = Append(Written(c), Delta(i, kind, from))
         /\ kind # "tool_use" => Alike(Written(c), Written(d))
<1> DEFINE e == Delta(i, kind, from)
<1>1. Adding(c.state, Append(Written(c), e))
  BY DeltaKeeps DEF Going
<1>2. e \in Event /\ e.type = "content_block_delta" /\ e.index = i
  BY EventTypes DEF Delta
<1>3. c \in InProgress /\ wire \in Seq(Event) /\ Written(c) \in Seq(Event)
  BY DEF Going, Adding
<1> HIDE DEF e
<1>4. /\ Going(Emit(c, e)) /\ Emit(c, e).state = c.state
      /\ Written(Emit(c, e)) = Append(Written(c), e)
  BY <1>1, <1>2, <1>3, EmitGoes, Zenon
<1>5. KindsIn(Append(Written(c), e)) = KindsIn(Written(c))
  BY <1>2, <1>3, AppendTells
<1>6. kind # "tool_use" => Alike(Written(c), Append(Written(c), e))
  <2> SUFFICES ASSUME kind # "tool_use" PROVE Alike(Written(c), Append(Written(c), e))
    OBVIOUS
  <2>1. Protocol(Written(c))
    BY DEF Going, Adding, Sound
  <2>2. <<i, "tool_use">> \notin KindsIn(Written(c))
    BY <1>3, <2>1, KindsAreOne
  <2>3. i \notin Blocks(Written(c))
    BY <2>2, BlocksAreKinds
  <2>4. QED
    BY <1>2, <1>3, <2>3, QuietAlike
<1>7. QED
  BY <1>4, <1>5, <1>6 DEF e

LEMMA ThinkGoes ==
  ASSUME NEW c, Going(c)
  PROVE  /\ Going(Think(c)) /\ Think(c).state.completed = c.state.completed
         /\ Think(c).state.toolSlots = c.state.toolSlots
         /\ Alike(Written(c), Written(Think(c)))
<1> DEFINE n == c.state.contentBlockIndex
           a == OpenBlock(c, "thinking")
           b == [a EXCEPT !.state.thinkingIndex = n]
           opened == IF c.state.thinkingIndex # None THEN c ELSE b
<1>1. /\ Going(opened) /\ opened.state.thinkingIndex \in Nat
      /\ opened.state.thinkingIndex = opened.state.openIndex
      /\ <<opened.state.thinkingIndex, "thinking">> \in KindsIn(Written(opened))
      /\ opened.state.completed = c.state.completed
      /\ opened.state.toolSlots = c.state.toolSlots
      /\ Alike(Written(c), Written(opened))
  <2>1. CASE c.state.thinkingIndex # None
    <3>1. opened = c
      BY <2>1
    <3>2. Sound(c.state, Written(c)) /\ c.state \in StreamState
      BY DEF Going, Adding
    <3>3. Alike(Written(c), Written(c))
      BY DEF Alike
    <3>4. QED
      BY <2>1, <3>1, <3>2, <3>3 DEF Sound, StreamState
  <2>2. CASE c.state.thinkingIndex = None
    <3>1. /\ Going(a) /\ a.state.openIndex = n /\ n \in Nat
          /\ a.state.completed = c.state.completed
          /\ <<n, "thinking">> \in KindsIn(Written(a))
          /\ a.state.toolSlots = c.state.toolSlots /\ Alike(Written(c), Written(a))
      BY OpenGoes DEF Kinds
    <3> HIDE DEF a
    <3>2. Adding(a.state, Written(a)) /\ a \in InProgress /\ a.state \in StreamState /\ n # None
      BY <3>1, DataAssumption DEF Going, Adding
    <3>3. Adding([a.state EXCEPT !.thinkingIndex = n], Written(a))
      BY <3>1, <3>2, KeepThinking
    <3>4. b.state = [a.state EXCEPT !.thinkingIndex = n] /\ b.events = a.events
      BY <3>2 DEF InProgress, StreamState
    <3>5. b \in InProgress
      BY <3>1, <3>2 DEF InProgress, StreamState
    <3>6. /\ b.state.thinkingIndex = n /\ b.state.openIndex = n
          /\ b.state.completed = a.state.completed
          /\ b.state.toolSlots = a.state.toolSlots
      BY <3>1, <3>2, <3>4 DEF StreamState
    <3>7. Written(b) = Written(a)
      BY <3>4 DEF Written
    <3>8. Going(b)
      BY <3>1, <3>3, <3>4, <3>5, <3>7 DEF Going
    <3>9. QED
      BY <2>2, <3>1, <3>6, <3>7, <3>8
  <2>3. QED
    BY <2>1, <2>2
<1>2. Think(c) = Emit(opened, Delta(opened.state.thinkingIndex, "thinking", <<>>))
  BY DEF Think
<1> HIDE DEF opened
<1>3. <<>> \in Seq(Nat) /\ "thinking" \in Kinds
  BY DEF Kinds
<1>4. /\ Going(Think(c)) /\ Think(c).state = opened.state
      /\ Alike(Written(opened), Written(Think(c)))
  BY <1>1, <1>2, <1>3, DeltaGoes
<1>5. QED
  BY <1>1, <1>4, AlikeJoins

LEMMA SayGoes ==
  ASSUME NEW c, Going(c)
  PROVE  /\ Going(Say(c)) /\ Say(c).state.completed = c.state.completed
         /\ Say(c).state.toolSlots = c.state.toolSlots
         /\ Alike(Written(c), Written(Say(c)))
<1> DEFINE n == c.state.contentBlockIndex
           a == OpenBlock(c, "text")
           b == [a EXCEPT !.state.textIndex = n]
           opened == IF c.state.textIndex # None THEN c ELSE b
<1>1. /\ Going(opened) /\ opened.state.textIndex \in Nat
      /\ opened.state.textIndex = opened.state.openIndex
      /\ <<opened.state.textIndex, "text">> \in KindsIn(Written(opened))
      /\ opened.state.completed = c.state.completed
      /\ opened.state.toolSlots = c.state.toolSlots
      /\ Alike(Written(c), Written(opened))
  <2>1. CASE c.state.textIndex # None
    <3>1. opened = c
      BY <2>1
    <3>2. Sound(c.state, Written(c)) /\ c.state \in StreamState
      BY DEF Going, Adding
    <3>3. Alike(Written(c), Written(c))
      BY DEF Alike
    <3>4. QED
      BY <2>1, <3>1, <3>2, <3>3 DEF Sound, StreamState
  <2>2. CASE c.state.textIndex = None
    <3>1. /\ Going(a) /\ a.state.openIndex = n /\ n \in Nat
          /\ a.state.completed = c.state.completed
          /\ <<n, "text">> \in KindsIn(Written(a))
          /\ a.state.toolSlots = c.state.toolSlots /\ Alike(Written(c), Written(a))
      BY OpenGoes DEF Kinds
    <3> HIDE DEF a
    <3>2. Adding(a.state, Written(a)) /\ a \in InProgress /\ a.state \in StreamState /\ n # None
      BY <3>1, DataAssumption DEF Going, Adding
    <3>3. Adding([a.state EXCEPT !.textIndex = n], Written(a))
      BY <3>1, <3>2, KeepText
    <3>4. b.state = [a.state EXCEPT !.textIndex = n] /\ b.events = a.events
      BY <3>2 DEF InProgress, StreamState
    <3>5. b \in InProgress
      BY <3>1, <3>2 DEF InProgress, StreamState
    <3>6. /\ b.state.textIndex = n /\ b.state.openIndex = n
          /\ b.state.completed = a.state.completed
          /\ b.state.toolSlots = a.state.toolSlots
      BY <3>1, <3>2, <3>4 DEF StreamState
    <3>7. Written(b) = Written(a)
      BY <3>4 DEF Written
    <3>8. Going(b)
      BY <3>1, <3>3, <3>4, <3>5, <3>7 DEF Going
    <3>9. QED
      BY <2>2, <3>1, <3>6, <3>7, <3>8
  <2>3. QED
    BY <2>1, <2>2
<1>2. Say(c) = Emit(opened, Delta(opened.state.textIndex, "text", <<>>))
  BY DEF Say
<1> HIDE DEF opened
<1>3. <<>> \in Seq(Nat) /\ "text" \in Kinds
  BY DEF Kinds
<1>4. /\ Going(Say(c)) /\ Say(c).state = opened.state
      /\ Alike(Written(opened), Written(Say(c)))
  BY <1>1, <1>2, <1>3, DeltaGoes
<1>5. QED
  BY <1>1, <1>4, AlikeJoins

LEMMA SlotGoes ==
  ASSUME NEW c, Going(c), NEW i \in Indices, NEW slot \in Slot,
         slot.block # None => <<slot.block, "tool_use">> \in KindsIn(Written(c))
  PROVE  LET d == [c EXCEPT !.state.toolSlots[i] = slot] IN
         /\ Going(d) /\ d.state.toolSlots[i] = slot
         /\ d.state.completed = c.state.completed
         /\ KindsIn(Written(d)) = KindsIn(Written(c))
<1> DEFINE d == [c EXCEPT !.state.toolSlots[i] = slot]
           slots == [c.state.toolSlots EXCEPT ![i] = slot]
<1>1. /\ c \in InProgress /\ c.state \in StreamState /\ wire \in Seq(Event)
      /\ Adding(c.state, Written(c)) /\ Sound(c.state, Written(c))
      /\ c.state.toolSlots \in [Indices -> Slot \cup {None}]
  BY DEF Going, Adding, StreamState
<1>2. slots \in [Indices -> Slot \cup {None}] /\ slots[i] = slot
  BY <1>1
<1>3. \A j \in Indices : slots[j] # None /\ slots[j].block # None =>
        <<slots[j].block, "tool_use">> \in KindsIn(Written(c))
  BY <1>1 DEF Sound
<1>4. d.state = [c.state EXCEPT !.toolSlots = slots] /\ d.events = c.events
  BY <1>1 DEF InProgress, StreamState
<1>5. d \in InProgress
  BY <1>1, <1>2 DEF InProgress, StreamState
<1> HIDE DEF slots, d
<1>6. Adding([c.state EXCEPT !.toolSlots = slots], Written(c))
  BY <1>1, <1>2, <1>3, KeepSlots
<1>7. Written(d) = Written(c)
  BY <1>4 DEF Written
<1>8. d.state.toolSlots[i] = slot /\ d.state.completed = c.state.completed
  BY <1>1, <1>2, <1>4 DEF StreamState
<1>9. Going(d)
  BY <1>1, <1>4, <1>5, <1>6, <1>7 DEF Going
<1>10. QED
  BY <1>7, <1>8, <1>9 DEF d

Slotted(c, i, slot) == [c EXCEPT !.state.toolSlots[i] = slot]

LEMMA SlotTells ==
  ASSUME NEW c, Going(c), NEW i \in Indices, NEW slot \in Slot
  PROVE  /\ Written(Slotted(c, i, slot)) = Written(c)
         /\ \A j \in Indices : Slotted(c, i, slot).state.toolSlots[j] =
              IF j = i THEN slot ELSE c.state.toolSlots[j]
<1>1. c \in InProgress /\ c.state.toolSlots \in [Indices -> Slot \cup {None}]
  BY DEF Going, Adding, StreamState
<1>2. Slotted(c, i, slot).events = c.events
  BY <1>1 DEF Slotted, InProgress, StreamState
<1>3. Slotted(c, i, slot).state.toolSlots = [c.state.toolSlots EXCEPT ![i] = slot]
  BY <1>1 DEF Slotted, InProgress, StreamState
<1>4. QED
  BY <1>1, <1>2, <1>3 DEF Written

LEMMA SlottedGoes ==
  ASSUME NEW c, Going(c), NEW i \in Indices, NEW slot \in Slot,
         slot.block # None => <<slot.block, "tool_use">> \in KindsIn(Written(c))
  PROVE  /\ Going(Slotted(c, i, slot))
         /\ KindsIn(Written(Slotted(c, i, slot))) = KindsIn(Written(c))
BY SlotGoes DEF Slotted

(* The slot an entry belongs to is no other call's.                        *)
LEMMA SlotForIsSlot ==
  ASSUME NEW slots \in [Indices -> Slot \cup {None}], NEW p \in Piece
  PROVE  /\ SlotFor(slots, p) \in Slot
         /\ SlotFor(slots, p).block # None =>
              slots[p.index] # None /\ SlotFor(slots, p).block = slots[p.index].block
<1>1. p.index \in Indices /\ p.id \in Ids \cup {None}
  BY DEF Piece
<1>2. slots[p.index] = None \/ slots[p.index] \in Slot
  BY <1>1
<1>3. <<>> \in Seq(Nat)
  OBVIOUS
<1>4. QED
  BY <1>1, <1>2, <1>3 DEF SlotFor, Slot

LEMMA SlotFields ==
  ASSUME NEW slot \in Slot, NEW n \in Nat
  PROVE  /\ slot.block \in Nat \cup {None} /\ slot.pending \in Seq(Nat)
         /\ [slot EXCEPT !.block = n, !.pending = <<>>] \in Slot
         /\ [slot EXCEPT !.block = n, !.pending = <<>>].block = n
         /\ [slot EXCEPT !.pending = Append(@, n)] \in Slot
         /\ [slot EXCEPT !.pending = Append(@, n)].block = slot.block
<1>1. slot.block \in Nat \cup {None} /\ slot.pending \in Seq(Nat)
  BY DEF Slot
<1>2. <<>> \in Seq(Nat) /\ Append(slot.pending, n) \in Seq(Nat)
  BY <1>1
<1>3. /\ [slot EXCEPT !.block = n, !.pending = <<>>] \in Slot
      /\ [slot EXCEPT !.block = n, !.pending = <<>>].block = n
  BY <1>2 DEF Slot
<1>4. /\ [slot EXCEPT !.pending = Append(@, n)] \in Slot
      /\ [slot EXCEPT !.pending = Append(@, n)].block = slot.block
  BY <1>2 DEF Slot
<1>5. QED
  BY <1>1, <1>3, <1>4

(* A call's block, where it has one, is the block of a tool call.          *)
HasOwn(c, i) ==
  /\ c.state.toolSlots[i] \in Slot
  /\ c.state.toolSlots[i].block # None =>
       <<c.state.toolSlots[i].block, "tool_use">> \in KindsIn(Written(c))

LEMMA NameGoes ==
  ASSUME NEW c, Going(c), NEW p \in Piece, HasOwn(c, p.index)
  PROVE  /\ Going(Name(c, p))
         /\ HasOwn(Name(c, p), p.index)
         /\ Name(c, p).state.completed = c.state.completed
<1> DEFINE slot == c.state.toolSlots[p.index]
           n == c.state.contentBlockIndex
           a == OpenBlock(c, "tool_use")
           filled == [slot EXCEPT !.block = n, !.pending = <<>>]
           opened == [a EXCEPT !.state.toolSlots[p.index] = filled]
           sent == Emit(opened, Delta(n, "tool_use", slot.pending))
<1>1. CASE ~p.named \/ slot.block # None
  <2>1. Name(c, p) = c
    BY <1>1 DEF Name
  <2>2. QED
    BY <2>1
<1>2. CASE ~(~p.named \/ slot.block # None)
  <2>1. /\ Going(a) /\ n \in Nat /\ a.state.completed = c.state.completed
        /\ <<n, "tool_use">> \in KindsIn(Written(a))
    BY OpenGoes DEF Kinds
  <2>2. p.index \in Indices /\ "tool_use" \in Kinds /\ slot \in Slot
    BY DEF Piece, Kinds, HasOwn
  <2> HIDE DEF slot, a
  <2>3. filled \in Slot /\ filled.block = n /\ slot.pending \in Seq(Nat)
    BY <2>1, <2>2, SlotFields
  <2> HIDE DEF filled
  <2>4. /\ Going(opened) /\ opened.state.toolSlots[p.index] = filled
        /\ opened.state.completed = a.state.completed
        /\ KindsIn(Written(opened)) = KindsIn(Written(a))
    BY <2>1, <2>2, <2>3, SlotGoes
  <2> HIDE DEF opened
  <2>5. Name(c, p) = IF slot.pending = <<>> THEN opened ELSE sent
    BY <1>2 DEF Name, opened, filled, a, slot
  <2>6. /\ Going(sent) /\ sent.state = opened.state
        /\ KindsIn(Written(sent)) = KindsIn(Written(opened))
    BY <2>1, <2>2, <2>3, <2>4, DeltaGoes
  <2> HIDE DEF sent
  <2>7. HasOwn(opened, p.index) /\ HasOwn(sent, p.index)
    BY <2>1, <2>3, <2>4, <2>6 DEF HasOwn
  <2>8. QED
    BY <2>1, <2>4, <2>5, <2>6, <2>7
<1>3. QED
  BY <1>1, <1>2

LEMMA CallGoes ==
  ASSUME NEW c, Going(c), NEW p \in Piece, NEW n \in Nat
  PROVE  Going(Call(c, p, n)) /\ Call(c, p, n).state.completed = c.state.completed
<1> DEFINE own == SlotFor(c.state.toolSlots, p)
           placed == [c EXCEPT !.state.toolSlots[p.index] = own]
           named == Name(placed, p)
           slot == named.state.toolSlots[p.index]
           kept == [slot EXCEPT !.pending = Append(@, n)]
           held == [named EXCEPT !.state.toolSlots[p.index] = kept]
           sent == Emit(named, Delta(slot.block, "tool_use", <<n>>))
<1>1. /\ c.state.toolSlots \in [Indices -> Slot \cup {None}] /\ p.index \in Indices
      /\ Sound(c.state, Written(c))
  BY DEF Going, Adding, StreamState, Piece
<1>2. /\ own \in Slot
      /\ own.block # None => c.state.toolSlots[p.index] # None /\ own.block = c.state.toolSlots[p.index].block
  BY <1>1, SlotForIsSlot
<1> HIDE DEF own
<1>3. own.block # None => <<own.block, "tool_use">> \in KindsIn(Written(c))
  BY <1>1, <1>2 DEF Sound
<1>4. /\ Going(placed) /\ placed.state.toolSlots[p.index] = own
      /\ placed.state.completed = c.state.completed
      /\ KindsIn(Written(placed)) = KindsIn(Written(c))
  BY <1>1, <1>2, <1>3, SlotGoes
<1> HIDE DEF placed
<1>5. HasOwn(placed, p.index)
  BY <1>2, <1>3, <1>4 DEF HasOwn
<1>6. /\ Going(named) /\ HasOwn(named, p.index)
      /\ named.state.completed = c.state.completed
  BY <1>4, <1>5, NameGoes
<1> HIDE DEF named
<1>7. /\ slot \in Slot
      /\ slot.block # None => <<slot.block, "tool_use">> \in KindsIn(Written(named))
  BY <1>6 DEF HasOwn
<1>8. Call(c, p, n) = IF ~p.args THEN named ELSE IF slot.block = None THEN held ELSE sent
  BY DEF Call, named, placed, own
<1> HIDE DEF slot
<1>9. kept \in Slot /\ kept.block = slot.block /\ slot.block \in Nat \cup {None}
  BY <1>7, SlotFields
<1> HIDE DEF kept
<1>10. Going(held) /\ held.state.completed = named.state.completed
  BY <1>1, <1>6, <1>7, <1>9, SlotGoes
<1> HIDE DEF held
<1>11. slot.block # None => Going(sent) /\ sent.state = named.state
  <2> SUFFICES ASSUME slot.block # None PROVE Going(sent) /\ sent.state = named.state
    OBVIOUS
  <2>1. <<n>> \in Seq(Nat) /\ "tool_use" \in Kinds /\ slot.block \in Nat
    BY <1>9 DEF Kinds
  <2>2. QED
    BY <1>6, <1>7, <2>1, DeltaGoes
<1> HIDE DEF sent
<1>12. QED
  BY <1>6, <1>8, <1>10, <1>11

LEMMA CallAllGoes ==
  ASSUME NEW c, Going(c), NEW calls \in Calls, NEW n \in Nat
  PROVE  Going(CallAll(c, calls, n)) /\ CallAll(c, calls, n).state.completed = c.state.completed
<1>1. CASE calls = <<>>
  BY <1>1 DEF CallAll
<1>2. ASSUME NEW p \in Piece, calls = <<p>>
      PROVE  Going(CallAll(c, calls, n)) /\ CallAll(c, calls, n).state.completed = c.state.completed
  <2>1. calls # <<>> /\ Len(calls) = 1 /\ calls[1] = p
    BY <1>2
  <2>2. CallAll(c, calls, n) = Call(c, p, n + 1)
    BY <2>1 DEF CallAll
  <2>3. n + 1 \in Nat
    OBVIOUS
  <2>4. QED
    BY <2>2, <2>3, CallGoes
<1>3. ASSUME NEW p \in Piece, NEW q \in Piece, calls = <<p, q>>
      PROVE  Going(CallAll(c, calls, n)) /\ CallAll(c, calls, n).state.completed = c.state.completed
  <2>1. calls # <<>> /\ Len(calls) = 2 /\ calls[1] = p /\ calls[2] = q
    BY <1>3
  <2> DEFINE d == Call(c, p, n + 1)
  <2>2. CallAll(c, calls, n) = Call(d, q, n + 2)
    BY <2>1 DEF CallAll
  <2>3. n + 1 \in Nat /\ n + 2 \in Nat
    OBVIOUS
  <2>4. Going(d) /\ d.state.completed = c.state.completed
    BY <2>3, CallGoes
  <2> HIDE DEF d
  <2>5. QED
    BY <2>2, <2>3, <2>4, CallGoes
<1>4. calls = <<>> \/ (\E p \in Piece : calls = <<p>>) \/ (\E p, q \in Piece : calls = <<p, q>>)
  BY DEF Calls
<1>5. QED
  BY <1>1, <1>2, <1>3, <1>4

-----------------------------------------------------------------------------
(* Which block each named call owns: N are the calls, by the piece that    *)
(* began them, and given[b] the pieces of arguments given to call b.       *)
Owned(own, w, N, given) ==
  /\ own \in [N -> Blocks(w)]
  /\ \A i \in Blocks(w) : \E b \in N : own[b] = i
  /\ \A b, c \in N : own[b] = own[c] => b = c
  /\ \A b \in N : Holds(w, own[b], given[b])

(* And how the slot of call b stands to that: it knows the call's block,   *)
(* or keeps the pieces until there is one.                                 *)
KeepsCall(slot, own, N, given, b) ==
  IF b \in N THEN slot.block = own[b] /\ slot.pending = <<>>
  ELSE slot.block = None /\ InOrder(slot.pending, given[b])

LEMMA OwnedStays ==
  ASSUME NEW own, NEW v, NEW w, NEW N, NEW given, Owned(own, v, N, given), Alike(v, w)
  PROVE  Owned(own, w, N, given)
<1>1. Blocks(w) = Blocks(v) /\ own \in [N -> Blocks(v)]
  BY DEF Owned, Alike
<1>2. \A b \in N : Holds(w, own[b], given[b])
  BY <1>1 DEF Owned, Alike
<1>3. QED
  BY <1>1, <1>2 DEF Owned

Grown(own, N, b, n) == [x \in N \cup {b} |-> IF x = b THEN n ELSE own[x]]

LEMMA OwnedMore ==
  ASSUME NEW own, NEW v, NEW w, NEW n, NEW N, NEW given, NEW more, NEW b,
         Owned(own, v, N, given), Adds(v, n, w), b \notin N, more[b] = {},
         \A x \in N : more[x] = given[x]
  PROVE  /\ Owned(Grown(own, N, b, n), w, N \cup {b}, more)
         /\ Grown(own, N, b, n)[b] = n
         /\ \A x \in N : Grown(own, N, b, n)[x] = own[x]
<1> DEFINE one == Grown(own, N, b, n)
<1>1. /\ own \in [N -> Blocks(v)] /\ Blocks(w) = Blocks(v) \cup {n} /\ n \notin Blocks(v)
      /\ Holds(w, n, {})
  BY DEF Owned, Adds
<1>2. one[b] = n /\ \A x \in N : one[x] = own[x] /\ one[x] \in Blocks(v)
  BY <1>1 DEF Grown
<1>3. one \in [N \cup {b} -> Blocks(w)]
  BY <1>1 DEF Grown
<1> HIDE DEF one
<1>4. \A i \in Blocks(w) : \E x \in N \cup {b} : one[x] = i
  BY <1>1, <1>2 DEF Owned
<1>5. \A x, y \in N \cup {b} : one[x] = one[y] => x = y
  BY <1>1, <1>2 DEF Owned
<1>6. \A x \in N \cup {b} : Holds(w, one[x], more[x])
  <2>1. \A x \in N : Holds(w, one[x], more[x])
    BY <1>2 DEF Owned, Adds
  <2>2. QED
    BY <1>1, <1>2, <2>1
<1>7. Owned(one, w, N \cup {b}, more)
  BY <1>3, <1>4, <1>5, <1>6 DEF Owned
<1>8. QED
  BY <1>2, <1>7 DEF one

LEMMA OwnedDelta ==
  ASSUME NEW own, NEW w \in Seq(Event), NEW N, NEW given, NEW more, NEW b \in N,
         Owned(own, w, N, given), own[b] \in Nat, NEW from \in Seq(Nat), NEW T,
         InOrder(from, T), \A x \in given[b], y \in T : x < y,
         more[b] = given[b] \cup T, \A x \in N : x # b => more[x] = given[x]
  PROVE  Owned(own, Append(w, Delta(own[b], "tool_use", from)), N, more)
<1> DEFINE v == Append(w, Delta(own[b], "tool_use", from))
<1>1. /\ own \in [N -> Blocks(w)] /\ Holds(w, own[b], given[b])
      /\ \A x, y \in N : own[x] = own[y] => x = y
      /\ \A x \in N : Holds(w, own[x], given[x])
  BY DEF Owned
<1>2. /\ Blocks(v) = Blocks(w) /\ Holds(v, own[b], given[b] \cup T)
      /\ \A j \in Blocks(w) \ {own[b]} : \A R : Holds(w, j, R) => Holds(v, j, R)
  BY <1>1, DeltaHolds
<1> HIDE DEF v
<1>3. ASSUME NEW x \in N, x # b PROVE Holds(v, own[x], more[x])
  <2>1. own[x] \in Blocks(w) \ {own[b]} /\ Holds(w, own[x], given[x]) /\ more[x] = given[x]
    BY <1>1, <1>3
  <2>2. QED
    BY <1>2, <2>1
<1>4. \A x \in N : Holds(v, own[x], more[x])
  BY <1>2, <1>3
<1>5. Owned(own, v, N, more)
  BY <1>1, <1>2, <1>4 DEF Owned
<1>6. QED
  BY <1>5 DEF v

LEMMA BlocksAreNat == ASSUME NEW w \in Seq(Event) PROVE Blocks(w) \subseteq Nat
<1> SUFFICES ASSUME NEW m \in DOMAIN w, w[m].type = "content_block_start"
             PROVE  w[m].index \in Nat
  BY DEF Blocks
<1>1. w[m] \in Event
  OBVIOUS
<1>2. QED
  BY <1>1 DEF Event

(* Call b, in the slot at i, served: own is kept, and tells of M as well.   *)
Serves(d, i, own, one, N, M, given, b) ==
  /\ Owned(one, Written(d), M, given) /\ \A x \in N : one[x] = own[x]
  /\ KeepsCall(d.state.toolSlots[i], one, M, given, b)
Beside(c, d, i) == \A j \in Indices : j # i => d.state.toolSlots[j] = c.state.toolSlots[j]
With(p, N, b) == IF p.named THEN N \cup {b} ELSE N

(* A call is given its block when it is named, and what it was given       *)
(* before goes into it.                                                    *)
LEMMA NameServes ==
  ASSUME NEW c, Going(c), NEW p \in Piece, HasOwn(c, p.index),
         NEW own, NEW N, NEW given, NEW b, Owned(own, Written(c), N, given),
         KeepsCall(c.state.toolSlots[p.index], own, N, given, b)
  PROVE  /\ \E one : Serves(Name(c, p), p.index, own, one, N, With(p, N, b), given, b)
         /\ Name(c, p).state.toolSlots[p.index].id = c.state.toolSlots[p.index].id
         /\ Beside(c, Name(c, p), p.index)
<1> DEFINE slot == c.state.toolSlots[p.index]
           n == c.state.contentBlockIndex
           a == OpenBlock(c, "tool_use")
           filled == [slot EXCEPT !.block = n, !.pending = <<>>]
           opened == Slotted(a, p.index, filled)
           sent == Emit(opened, Delta(n, "tool_use", slot.pending))
           d == Name(c, p)
           M == With(p, N, b)
<1>1. p.index \in Indices /\ slot \in Slot /\ p.named \in BOOLEAN
  BY DEF Piece, HasOwn
<1>2. /\ Written(c) \in Seq(Event) /\ own \in [N -> Blocks(Written(c))]
      /\ \A x \in N : own[x] \in Nat
  <2>1. Written(c) \in Seq(Event) /\ own \in [N -> Blocks(Written(c))]
    BY DEF Going, Adding, Owned
  <2>2. QED
    BY <2>1, BlocksAreNat
<1>3. CASE ~p.named \/ slot.block # None
  <2>1. d = c
    BY <1>3 DEF Name
  <2>2. M = N
    BY <1>1, <1>3 DEF KeepsCall, With
  <2> HIDE DEF d, M
  <2>3. /\ Owned(own, Written(d), M, given) /\ \A x \in N : own[x] = own[x]
        /\ KeepsCall(d.state.toolSlots[p.index], own, M, given, b)
        /\ d.state.toolSlots[p.index].id = c.state.toolSlots[p.index].id
        /\ \A j \in Indices : j # p.index => d.state.toolSlots[j] = c.state.toolSlots[j]
    BY <2>1, <2>2
  <2>4. QED
    BY <2>3 DEF d, M, Serves, Beside
<1>4. CASE p.named /\ slot.block = None
  <2>1. b \notin N /\ InOrder(slot.pending, given[b]) /\ M = N \cup {b}
    BY <1>2, <1>4, DataAssumption DEF KeepsCall, With
  <2>2. /\ Going(a) /\ n \in Nat /\ a.state.toolSlots = c.state.toolSlots
        /\ Adds(Written(c), n, Written(a))
        /\ <<n, "tool_use">> \in KindsIn(Written(a))
    BY OpenGoes DEF Kinds
  <2>3. /\ filled \in Slot /\ filled.block = n /\ filled.pending = <<>>
        /\ filled.id = slot.id /\ slot.pending \in Seq(Nat)
    <3>1. slot.pending \in Seq(Nat) /\ slot.id \in Ids \cup {None}
      BY <1>1 DEF Slot
    <3> HIDE DEF n, slot
    <3>2. QED
      BY <1>1, <2>2, <3>1, SlotFields DEF Slot
  <2>4. d = IF slot.pending = <<>> THEN opened ELSE sent
    BY <1>4 DEF Name, Slotted
  <2> HIDE DEF a, filled, slot, d, M
  <2>5. /\ Written(opened) = Written(a) /\ opened.state.toolSlots[p.index] = filled
        /\ \A j \in Indices : j # p.index => opened.state.toolSlots[j] = c.state.toolSlots[j]
    BY <1>1, <2>2, <2>3, SlotTells
  <2>6. Going(opened) /\ KindsIn(Written(opened)) = KindsIn(Written(a))
    BY <1>1, <2>2, <2>3, SlottedGoes
  <2> HIDE DEF opened, n
  <2>7. CASE slot.pending = <<>>
    <3>1. given[b] = {}
      BY <2>1, <2>7 DEF InOrder
    <3> DEFINE one == Grown(own, N, b, n)
    <3>2. /\ Owned(one, Written(a), N \cup {b}, given)
          /\ one[b] = n /\ \A x \in N : one[x] = own[x]
      <4>1. \A x \in N : given[x] = given[x]
        OBVIOUS
      <4>2. Owned(own, Written(c), N, given) /\ Adds(Written(c), n, Written(a)) /\ b \notin N
        BY <2>1, <2>2
      <4>3. Owned(Grown(own, N, b, n), Written(a), N \cup {b}, given)
        BY <3>1, <4>1, <4>2, OwnedMore, Zenon
      <4>4. Grown(own, N, b, n)[b] = n /\ \A x \in N : Grown(own, N, b, n)[x] = own[x]
        BY <2>1 DEF Grown
      <4>5. QED
        BY <4>3, <4>4
    <3> HIDE DEF one
    <3>3. d = opened
      BY <2>4, <2>7
    <3>4. KeepsCall(filled, one, M, given, b)
      BY <2>1, <2>3, <3>2 DEF KeepsCall
    <3>5. /\ Owned(one, Written(d), M, given) /\ \A x \in N : one[x] = own[x]
          /\ KeepsCall(d.state.toolSlots[p.index], one, M, given, b)
          /\ d.state.toolSlots[p.index].id = slot.id
          /\ \A j \in Indices : j # p.index => d.state.toolSlots[j] = c.state.toolSlots[j]
      BY <2>1, <2>3, <2>5, <3>2, <3>3, <3>4
    <3>6. QED
      BY <3>5 DEF d, M, slot, Serves, Beside
  <2>8. CASE slot.pending # <<>>
    <3> DEFINE none == [x \in N \cup {b} |-> IF x = b THEN {} ELSE given[x]]
    <3>1. none[b] = {} /\ \A x \in N : none[x] = given[x]
      BY <2>1
    <3> HIDE DEF none
    <3> DEFINE one == Grown(own, N, b, n)
    <3>2. /\ Owned(one, Written(a), N \cup {b}, none)
          /\ one[b] = n /\ \A x \in N : one[x] = own[x]
      <4>1. Owned(own, Written(c), N, given) /\ Adds(Written(c), n, Written(a)) /\ b \notin N
        BY <2>1, <2>2
      <4>2. Owned(Grown(own, N, b, n), Written(a), N \cup {b}, none)
        BY <3>1, <4>1, OwnedMore, SMT
      <4>3. Grown(own, N, b, n)[b] = n /\ \A x \in N : Grown(own, N, b, n)[x] = own[x]
        BY <2>1 DEF Grown
      <4>4. QED
        BY <4>2, <4>3
    <3> HIDE DEF one
    <3>3. sent.state = opened.state /\ Written(sent) = Append(Written(a), Delta(one[b], "tool_use", slot.pending))
      <4>1. "tool_use" \in Kinds /\ <<n, "tool_use">> \in KindsIn(Written(opened))
        BY <2>2, <2>6 DEF Kinds
      <4>2. /\ sent.state = opened.state
            /\ Written(sent) = Append(Written(opened), Delta(n, "tool_use", slot.pending))
        BY <2>2, <2>3, <2>6, <4>1, DeltaGoes
      <4>3. QED
        BY <2>5, <3>2, <4>2
    <3>4. Owned(one, Append(Written(a), Delta(one[b], "tool_use", slot.pending)), N \cup {b}, given)
      <4>1. Written(a) \in Seq(Event)
        BY <2>2 DEF Going, Adding
      <4>2. /\ b \in N \cup {b} /\ one[b] \in Nat
            /\ \A x \in none[b], y \in given[b] : x < y
            /\ given[b] = none[b] \cup given[b]
            /\ \A x \in N \cup {b} : x # b => given[x] = none[x]
        BY <2>2, <3>1, <3>2
      <4>3. QED
        BY <2>1, <2>3, <3>2, <4>1, <4>2, OwnedDelta
    <3>5. d = sent
      BY <2>4, <2>8
    <3> HIDE DEF sent
    <3>6. KeepsCall(filled, one, M, given, b)
      BY <2>1, <2>3, <3>2 DEF KeepsCall
    <3>7. /\ Owned(one, Written(d), M, given) /\ \A x \in N : one[x] = own[x]
          /\ KeepsCall(d.state.toolSlots[p.index], one, M, given, b)
          /\ d.state.toolSlots[p.index].id = slot.id
          /\ \A j \in Indices : j # p.index => d.state.toolSlots[j] = c.state.toolSlots[j]
      BY <2>1, <2>3, <2>5, <3>2, <3>3, <3>4, <3>5, <3>6
    <3>8. QED
      BY <3>7 DEF d, M, slot, Serves, Beside
  <2>9. QED
    BY <2>7, <2>8
<1>5. QED
  BY <1>1, <1>3, <1>4

LEMMA OwnedSame ==
  ASSUME NEW own, NEW w, NEW N, NEW given, NEW more, Owned(own, w, N, given),
         \A x \in N : more[x] = given[x]
  PROVE  Owned(own, w, N, more)
BY DEF Owned

LEMMA InOrderMore ==
  ASSUME NEW fragments \in Seq(Nat), NEW S, InOrder(fragments, S), NEW n \in Nat,
         \A x \in S : x < n
  PROVE  InOrder(Append(fragments, n), S \cup {n})
<1> DEFINE more == Append(fragments, n)
           k == Len(fragments) + 1
<1>1. /\ DOMAIN fragments = 1 .. Len(fragments) /\ Len(fragments) \in Nat
      /\ DOMAIN more = 1 .. k /\ more[k] = n
      /\ \A x \in DOMAIN fragments : more[x] = fragments[x] /\ fragments[x] \in S
  BY DEF InOrder
<1> HIDE DEF more
<1>2. \A x : x \in DOMAIN more <=> x \in DOMAIN fragments \/ x = k
  BY <1>1
<1>3. {more[x] : x \in DOMAIN more} = S \cup {n}
  BY <1>1, <1>2 DEF InOrder
<1>4. ASSUME NEW x \in DOMAIN more, NEW y \in DOMAIN more, x < y PROVE more[x] < more[y]
  <2>1. x \in DOMAIN fragments
    BY <1>1, <1>4
  <2>2. CASE y = k
    BY <1>1, <2>1, <2>2
  <2>3. CASE y \in DOMAIN fragments
    BY <1>1, <1>4, <2>1, <2>3 DEF InOrder
  <2>4. QED
    BY <1>2, <2>2, <2>3
<1>5. QED
  BY <1>3, <1>4 DEF InOrder, more

(* More has been given than was: to call b the n-th piece, if it has any.   *)
Gives(p, n, N, given, more, b) ==
  /\ \A x \in given[b] : x < n
  /\ more[b] = IF p.args THEN given[b] \cup {n} ELSE given[b]
  /\ \A x \in N : x # b => more[x] = given[x]

(* A piece goes to the call it is of: into its block, where it has one by   *)
(* now, and else behind what waits in its slot.                            *)
LEMMA CallServes ==
  ASSUME NEW c, Going(c), NEW p \in Piece, NEW n \in Nat,
         NEW own, NEW N, NEW given, NEW more, NEW b, Owned(own, Written(c), N, given),
         KeepsCall(SlotFor(c.state.toolSlots, p), own, N, given, b),
         Gives(p, n, N, given, more, b)
  PROVE  /\ \E one : Serves(Call(c, p, n), p.index, own, one, N, With(p, N, b), more, b)
         /\ Call(c, p, n).state.toolSlots[p.index] \in Slot
         /\ Call(c, p, n).state.toolSlots[p.index].id = SlotFor(c.state.toolSlots, p).id
         /\ Beside(c, Call(c, p, n), p.index)
<1> DEFINE first == SlotFor(c.state.toolSlots, p)
           placed == Slotted(c, p.index, first)
           named == Name(placed, p)
           slot == named.state.toolSlots[p.index]
           kept == [slot EXCEPT !.pending = Append(@, n)]
           held == Slotted(named, p.index, kept)
           sent == Emit(named, Delta(slot.block, "tool_use", <<n>>))
           d == Call(c, p, n)
           M == With(p, N, b)
<1>0. /\ \A x \in given[b] : x < n
      /\ more[b] = IF p.args THEN given[b] \cup {n} ELSE given[b]
      /\ \A x \in N : x # b => more[x] = given[x]
  BY DEF Gives
<1>1. /\ c.state.toolSlots \in [Indices -> Slot \cup {None}] /\ p.index \in Indices
      /\ Sound(c.state, Written(c)) /\ p.args \in BOOLEAN
  BY DEF Going, Adding, StreamState, Piece
<1>2. /\ first \in Slot
      /\ first.block # None => <<first.block, "tool_use">> \in KindsIn(Written(c))
  <2>1. /\ first \in Slot
        /\ first.block # None => c.state.toolSlots[p.index] # None
                                 /\ first.block = c.state.toolSlots[p.index].block
    BY <1>1, SlotForIsSlot
  <2>2. QED
    BY <1>1, <2>1 DEF Sound
<1>3. d = IF ~p.args THEN named ELSE IF slot.block = None THEN held ELSE sent
  BY DEF Call, Slotted
<1> HIDE DEF first, d, M
<1>4. /\ Written(placed) = Written(c) /\ placed.state.toolSlots[p.index] = first
      /\ \A j \in Indices : j # p.index => placed.state.toolSlots[j] = c.state.toolSlots[j]
  BY <1>1, <1>2, SlotTells
<1>5. Going(placed)
  BY <1>1, <1>2, SlottedGoes
<1> HIDE DEF placed
<1>6. HasOwn(placed, p.index)
  BY <1>2, <1>4 DEF HasOwn
<1>7. /\ \E one : Serves(named, p.index, own, one, N, M, given, b)
      /\ slot.id = placed.state.toolSlots[p.index].id /\ Beside(placed, named, p.index)
  <2>1. Owned(own, Written(placed), N, given)
    BY <1>4
  <2>2. KeepsCall(placed.state.toolSlots[p.index], own, N, given, b)
    BY <1>4 DEF first
  <2>3. QED
    BY <1>5, <1>6, <2>1, <2>2, NameServes DEF M
<1>8. Going(named) /\ slot \in Slot
  BY <1>5, <1>6, NameGoes DEF HasOwn
<1>9. /\ slot.block \in Nat \cup {None} /\ slot.pending \in Seq(Nat)
      /\ kept \in Slot /\ kept.block = slot.block /\ kept.id = slot.id
      /\ kept.pending = Append(slot.pending, n)
  <2> HIDE DEF named
  <2>1. slot.id = slot.id /\ slot.block \in Nat \cup {None} /\ slot.pending \in Seq(Nat)
    BY <1>8 DEF Slot
  <2> HIDE DEF slot
  <2>2. kept \in Slot /\ kept.block = slot.block
    BY <1>8, SlotFields
  <2>3. kept.id = slot.id /\ kept.pending = Append(slot.pending, n)
    BY <1>8 DEF Slot
  <2>4. QED
    BY <2>1, <2>2, <2>3
<1>10. /\ M = N \/ M = N \cup {b}
       /\ slot.block # None => <<slot.block, "tool_use">> \in KindsIn(Written(named))
  BY <1>5, <1>6, NameGoes DEF HasOwn, M, With
<1>11. PICK one : Serves(named, p.index, own, one, N, M, given, b)
  BY <1>7
<1>12. /\ Owned(one, Written(named), M, given) /\ \A x \in N : one[x] = own[x]
       /\ KeepsCall(slot, one, M, given, b)
  BY <1>11 DEF Serves
<1>13. /\ slot.id = first.id
       /\ \A j \in Indices : j # p.index => named.state.toolSlots[j] = c.state.toolSlots[j]
  BY <1>4, <1>7 DEF Beside
<1> HIDE DEF named, slot, kept
<1> SUFFICES /\ Owned(one, Written(d), M, more) /\ \A x \in N : one[x] = own[x]
             /\ KeepsCall(d.state.toolSlots[p.index], one, M, more, b)
             /\ d.state.toolSlots[p.index] \in Slot
             /\ d.state.toolSlots[p.index].id = first.id
             /\ \A j \in Indices : j # p.index => d.state.toolSlots[j] = c.state.toolSlots[j]
  BY DEF d, M, first, Serves, Beside
<1>14. \A x \in M : x # b => more[x] = given[x]
  BY <1>0, <1>10
<1>15. CASE ~p.args
  <2>1. d = named /\ more[b] = given[b] /\ \A x \in M : more[x] = given[x]
    BY <1>0, <1>3, <1>14, <1>15
  <2>2. Owned(one, Written(named), M, more)
    BY <1>12, <2>1, OwnedSame
  <2>3. KeepsCall(slot, one, M, more, b)
    BY <1>12, <2>1 DEF KeepsCall
  <2>4. d.state.toolSlots[p.index] = slot
    BY <2>1 DEF slot
  <2>5. QED
    BY <1>8, <1>12, <1>13, <2>1, <2>2, <2>3, <2>4
<1>16. CASE p.args /\ slot.block = None
  <2>1. d = held
    BY <1>3, <1>16
  <2>2. /\ Written(held) = Written(named) /\ held.state.toolSlots[p.index] = kept
        /\ \A j \in Indices : j # p.index => held.state.toolSlots[j] = named.state.toolSlots[j]
    BY <1>1, <1>8, <1>9, SlotTells
  <2>3. b \notin M
    <3>1. Written(named) \in Seq(Event) /\ one \in [M -> Blocks(Written(named))]
      BY <1>8, <1>12 DEF Going, Adding, Owned
    <3>2. b \in M => one[b] \in Nat
      BY <3>1, BlocksAreNat
    <3>3. QED
      BY <1>12, <1>16, <3>2, DataAssumption DEF KeepsCall
  <2>4. Owned(one, Written(named), M, more)
    BY <1>12, <1>14, <2>3, OwnedSame
  <2>5. InOrder(slot.pending, given[b])
    BY <1>12, <2>3 DEF KeepsCall
  <2>6. InOrder(Append(slot.pending, n), given[b] \cup {n})
    BY <1>0, <1>9, <2>5, InOrderMore
  <2>7. KeepsCall(kept, one, M, more, b)
    BY <1>0, <1>9, <1>16, <2>3, <2>6 DEF KeepsCall
  <2>8. QED
    BY <1>9, <1>12, <1>13, <2>1, <2>2, <2>4, <2>7
<1>17. CASE p.args /\ slot.block # None
  <2>1. d = sent
    BY <1>3, <1>17
  <2>2. b \in M /\ one[b] = slot.block /\ slot.pending = <<>> /\ slot.block \in Nat
    BY <1>9, <1>12, <1>17 DEF KeepsCall
  <2>3. <<n>> \in Seq(Nat) /\ InOrder(<<n>>, {n}) /\ "tool_use" \in Kinds
    <3>1. <<n>> \in Seq(Nat) /\ InOrder(<<n>>, {n})
      BY DEF InOrder
    <3>2. QED
      BY <3>1 DEF Kinds
  <2>4. /\ sent.state = named.state
        /\ Written(sent) = Append(Written(named), Delta(slot.block, "tool_use", <<n>>))
    BY <1>8, <1>10, <1>17, <2>2, <2>3, DeltaGoes
  <2>5. Owned(one, Append(Written(named), Delta(one[b], "tool_use", <<n>>)), M, more)
    <3>1. Written(named) \in Seq(Event)
      BY <1>8 DEF Going, Adding
    <3>2. one[b] \in Nat /\ \A x \in given[b], y \in {n} : x < y
      BY <1>0, <2>2
    <3>3. more[b] = given[b] \cup {n}
      BY <1>0, <1>17
    <3>4. QED
      BY <1>12, <1>14, <2>2, <2>3, <3>1, <3>2, <3>3, OwnedDelta
  <2>6. KeepsCall(slot, one, M, more, b)
    BY <2>2 DEF KeepsCall
  <2>7. d.state.toolSlots = named.state.toolSlots /\ d.state.toolSlots[p.index] = slot
    BY <2>1, <2>4 DEF slot
  <2>8. QED
    BY <1>8, <1>12, <1>13, <2>1, <2>2, <2>4, <2>5, <2>6, <2>7
<1>18. QED
  BY <1>1, <1>15, <1>16, <1>17

-----------------------------------------------------------------------------
(* What one more piece makes of the calls the provider has meant: b began  *)
(* the latest call at index i, and id is the last one given there.         *)
Latest(h, i, b) ==
  /\ b \in DOMAIN h /\ h[b].index = i /\ Begins(h, b)
  /\ \A m \in b + 1 .. Len(h) : h[m].index = i => ~Begins(h, m)
Identifies(h, i, id) ==
  IF id = None THEN \A m \in DOMAIN h : h[m].index = i => h[m].id = None
  ELSE \E m \in DOMAIN h :
         /\ h[m].index = i /\ h[m].id = id
         /\ \A k \in m + 1 .. Len(h) : h[k].index = i => h[k].id = None
GivenIn(h) == [x \in Nat |-> Given(h, x)]

(* The call that a next piece p is of.                                     *)
IsOf(h, p, b) ==
  IF Begins(Append(h, p), Len(h) + 1) THEN b = Len(h) + 1 ELSE Latest(h, p.index, b)

LEMMA BeginsSame ==
  ASSUME NEW u, NEW v, NEW m \in Nat, \A k \in 1 .. m : u[k] = v[k], m > 0, Begins(u, m)
  PROVE  Begins(v, m)
<1>1. u[m] = v[m] /\ \A k \in 1 .. m - 1 : u[k] = v[k]
  OBVIOUS
<1>2. CASE \A k \in 1 .. m - 1 : u[k].index # u[m].index
  BY <1>1, <1>2 DEF Begins
<1>3. CASE ~ \A k \in 1 .. m - 1 : u[k].index # u[m].index
  <2>1. u[m].id # None
    BY <1>3 DEF Begins
  <2>2. PICK o \in 1 .. m - 1 :
          /\ u[o].index = u[m].index /\ u[o].id \notin {None, u[m].id}
          /\ \A k \in o + 1 .. m - 1 : u[k].index = u[m].index => u[k].id = None
    BY <1>3 DEF Begins
  <2>3. \A k \in o + 1 .. m - 1 : k \in 1 .. m - 1
    OBVIOUS
  <2>4. /\ v[o].index = v[m].index /\ v[o].id \notin {None, v[m].id}
        /\ \A k \in o + 1 .. m - 1 : v[k].index = v[m].index => v[k].id = None
    BY <1>1, <2>2, <2>3
  <2>5. QED
    BY <1>1, <2>1, <2>4 DEF Begins
<1>4. QED
  BY <1>2, <1>3

LEMMA AppendPiece ==
  ASSUME NEW h \in Seq(Piece), NEW p \in Piece
  PROVE  LET g == Append(h, p)
             n == Len(h) + 1
         IN /\ g \in Seq(Piece) /\ Len(g) = n /\ Len(h) \in Nat
            /\ DOMAIN g = 1 .. n /\ DOMAIN h = 1 .. Len(h)
            /\ g[n] = p /\ \A m \in 1 .. Len(h) : g[m] = h[m]
            /\ \A m \in DOMAIN h : Begins(g, m) <=> Begins(h, m)
<1> DEFINE g == Append(h, p)
           n == Len(h) + 1
<1>1. /\ g \in Seq(Piece) /\ Len(g) = n /\ Len(h) \in Nat
      /\ DOMAIN g = 1 .. n /\ DOMAIN h = 1 .. Len(h)
      /\ g[n] = p /\ \A m \in 1 .. Len(h) : g[m] = h[m]
  OBVIOUS
<1> HIDE DEF g
<1>2. ASSUME NEW m \in DOMAIN h PROVE Begins(g, m) <=> Begins(h, m)
  <2>1. m \in Nat /\ m > 0 /\ \A k \in 1 .. m : g[k] = h[k] /\ h[k] = g[k]
    BY <1>1
  <2>2. QED
    BY <2>1, BeginsSame
<1>3. QED
  BY <1>1, <1>2 DEF g

(* A piece begins a call when nothing came at its index before, or when it *)
(* has another id than the last one given there.                           *)
LEMMA BeginsNext ==
  ASSUME NEW h \in Seq(Piece), NEW p \in Piece, NEW old, Identifies(h, p.index, old)
  PROVE  /\ Begins(Append(h, p), Len(h) + 1) <=>
              \/ \A m \in DOMAIN h : h[m].index # p.index
              \/ p.id # None /\ old # None /\ old # p.id
         /\ Identifies(Append(h, p), p.index, IF p.id # None THEN p.id ELSE old)
<1> DEFINE g == Append(h, p)
           n == Len(h) + 1
           i == p.index
           new == IF p.id # None THEN p.id ELSE old
<1>1. /\ Len(g) = n /\ Len(h) \in Nat /\ n - 1 = Len(h)
      /\ DOMAIN g = 1 .. n /\ DOMAIN h = 1 .. n - 1
      /\ g[n] = p /\ \A m \in 1 .. n - 1 : g[m] = h[m]
  BY AppendPiece
<1> HIDE DEF g, n
<1>2. CASE old = None
  <2>1. \A m \in 1 .. n - 1 : g[m].index = i => g[m].id = None
    BY <1>1, <1>2 DEF Identifies
  <2>2. Begins(g, n) <=> \A m \in DOMAIN h : h[m].index # i
    BY <1>1, <2>1 DEF Begins
  <2>3. CASE p.id = None
    <3>1. \A m \in DOMAIN g : g[m].index = i => g[m].id = None
      BY <1>1, <2>1, <2>3
    <3>2. QED
      BY <1>2, <2>2, <2>3, <3>1 DEF Identifies, g, n
  <2>4. CASE p.id # None
    <3>1. n \in DOMAIN g /\ \A k \in n + 1 .. Len(g) : FALSE
      BY <1>1
    <3>2. Identifies(g, i, p.id)
      BY <1>1, <2>4, <3>1 DEF Identifies
    <3>3. QED
      BY <1>2, <2>2, <2>4, <3>2 DEF g, n
  <2>5. QED
    BY <2>3, <2>4
<1>3. CASE old # None
  <2>1. PICK o \in DOMAIN h : /\ h[o].index = i /\ h[o].id = old
                              /\ \A k \in o + 1 .. Len(h) : h[k].index = i => h[k].id = None
    BY <1>3 DEF Identifies
  <2>2. ASSUME NEW m \in 1 .. n - 1, g[m].index = i, g[m].id # None,
               \A k \in m + 1 .. n - 1 : g[k].index = i => g[k].id = None
        PROVE  m = o
    BY <1>1, <1>3, <2>1, <2>2
  <2>3. Begins(g, n) <=> p.id # None /\ old # p.id
    <3>1. ~ \A m \in 1 .. n - 1 : g[m].index # g[n].index
      BY <1>1, <2>1
    <3>2. ASSUME Begins(g, n) PROVE p.id # None /\ old # p.id
      <4>1. PICK m \in 1 .. n - 1 : /\ g[m].index = i /\ g[m].id \notin {None, p.id}
                                    /\ \A k \in m + 1 .. n - 1 : g[k].index = i => g[k].id = None
        BY <1>1, <3>1, <3>2 DEF Begins
      <4>2. m = o
        BY <2>2, <4>1
      <4>3. QED
        BY <1>1, <2>1, <3>1, <3>2, <4>1, <4>2 DEF Begins
    <3>3. ASSUME p.id # None, old # p.id PROVE Begins(g, n)
      <4>1. /\ o \in 1 .. n - 1 /\ g[o].index = g[n].index /\ g[o].id \notin {None, g[n].id}
            /\ \A k \in o + 1 .. n - 1 : g[k].index = g[n].index => g[k].id = None
        BY <1>1, <1>3, <2>1, <3>3
      <4>2. g[n].id # None
        BY <1>1, <3>3
      <4>3. QED
        BY <4>1, <4>2 DEF Begins
    <3>4. QED
      BY <3>2, <3>3
  <2>4. ~ \A m \in DOMAIN h : h[m].index # i
    BY <2>1
  <2>5. CASE p.id # None
    <3>1. n \in DOMAIN g /\ \A k \in n + 1 .. Len(g) : FALSE
      BY <1>1
    <3>2. Identifies(g, i, p.id)
      BY <1>1, <2>5, <3>1 DEF Identifies
    <3>3. QED
      BY <1>3, <2>3, <2>4, <2>5, <3>2 DEF g, n
  <2>6. CASE p.id = None
    <3>1. /\ o \in DOMAIN g /\ g[o].index = i /\ g[o].id = old
          /\ \A k \in o + 1 .. Len(g) : g[k].index = i => g[k].id = None
      BY <1>1, <2>1, <2>6
    <3>2. Identifies(g, i, old)
      BY <1>3, <3>1 DEF Identifies
    <3>3. QED
      BY <1>3, <2>3, <2>4, <2>6, <3>2 DEF g, n
  <2>7. QED
    BY <2>5, <2>6
<1>4. QED
  BY <1>2, <1>3

LEMMA IdentifiesStill ==
  ASSUME NEW h \in Seq(Piece), NEW p \in Piece, NEW i, i # p.index, NEW id, Identifies(h, i, id)
  PROVE  Identifies(Append(h, p), i, id)
<1> DEFINE g == Append(h, p)
           n == Len(h) + 1
<1>1. /\ Len(g) = n /\ Len(h) \in Nat /\ n - 1 = Len(h)
      /\ DOMAIN g = 1 .. n /\ DOMAIN h = 1 .. n - 1
      /\ g[n] = p /\ \A m \in 1 .. n - 1 : g[m] = h[m]
  BY AppendPiece
<1> HIDE DEF g, n
<1>2. CASE id = None
  <2>1. \A m \in DOMAIN g : g[m].index = i => g[m].id = None
    BY <1>1, <1>2 DEF Identifies
  <2>2. QED
    BY <1>2, <2>1 DEF Identifies, g
<1>3. CASE id # None
  <2>1. PICK o \in DOMAIN h : /\ h[o].index = i /\ h[o].id = id
                              /\ \A k \in o + 1 .. Len(h) : h[k].index = i => h[k].id = None
    BY <1>3 DEF Identifies
  <2>2. /\ o \in DOMAIN g /\ g[o].index = i /\ g[o].id = id
        /\ \A k \in o + 1 .. Len(g) : g[k].index = i => g[k].id = None
    BY <1>1, <2>1
  <2>3. QED
    BY <1>3, <2>2 DEF Identifies, g
<1>4. QED
  BY <1>2, <1>3

(* The pieces of a call: the next one is added to the call it is of.       *)
LEMMA OfNext ==
  ASSUME NEW h \in Seq(Piece), NEW p \in Piece, NEW x \in DOMAIN h
  PROVE  LET g == Append(h, p)
             n == Len(h) + 1
         IN Of(g, x) = IF /\ h[x].index = p.index /\ ~Begins(g, n)
                          /\ \A m \in x + 1 .. Len(h) : h[m].index = p.index => ~Begins(h, m)
                       THEN Of(h, x) \cup {n} ELSE Of(h, x)
<1> DEFINE g == Append(h, p)
           n == Len(h) + 1
           joins == /\ h[x].index = p.index /\ ~Begins(g, n)
                    /\ \A m \in x + 1 .. Len(h) : h[m].index = p.index => ~Begins(h, m)
<1>1. /\ Len(g) = n /\ Len(h) = n - 1 /\ n \in Nat
      /\ DOMAIN g = 1 .. n /\ DOMAIN h = 1 .. n - 1
      /\ g[n] = p /\ \A m \in 1 .. n - 1 : g[m] = h[m]
      /\ \A m \in 1 .. n - 1 : Begins(g, m) <=> Begins(h, m)
  BY AppendPiece
<1> HIDE DEF g, n
<1>2. ASSUME NEW k \in x .. n - 1 PROVE k \in Of(g, x) <=> k \in Of(h, x)
  <2>1. /\ k \in x .. Len(g) /\ k \in x .. Len(h) /\ k \in 1 .. n - 1
        /\ \A m \in x + 1 .. k : m \in 1 .. n - 1
    BY <1>1
  <2>2. /\ g[k].index = h[k].index /\ g[x].index = h[x].index
        /\ \A m \in x + 1 .. k : g[m].index = h[m].index /\ (Begins(g, m) <=> Begins(h, m))
    BY <1>1, <2>1
  <2>3. QED
    BY <2>1, <2>2 DEF Of
<1>3. n \in Of(g, x) <=> joins
  <2>1. n \in x .. Len(g) /\ x \in 1 .. n - 1 /\ \A m \in x + 1 .. n : m = n \/ m \in x + 1 .. Len(h)
    BY <1>1
  <2>2. n \in x + 1 .. n /\ \A m \in x + 1 .. Len(h) : m \in 1 .. n - 1 /\ m \in x + 1 .. n
    BY <1>1
  <2>3. n \in Of(g, x) <=> /\ g[n].index = g[x].index
                           /\ \A m \in x + 1 .. n : g[m].index = g[x].index => ~Begins(g, m)
    BY <2>1 DEF Of
  <2>4. /\ g[n].index = p.index /\ g[x].index = h[x].index
        /\ \A m \in x + 1 .. Len(h) : g[m].index = h[m].index /\ (Begins(g, m) <=> Begins(h, m))
    BY <1>1, <2>1, <2>2
  <2>5. QED
    BY <2>1, <2>2, <2>3, <2>4
<1>4. Of(g, x) \subseteq x .. n /\ Of(h, x) \subseteq x .. n - 1
  BY <1>1 DEF Of
<1>5. x .. n \subseteq (x .. n - 1) \cup {n} /\ n \notin x .. n - 1
  BY <1>1
<1> HIDE DEF joins
<1>6. Of(g, x) = IF joins THEN Of(h, x) \cup {n} ELSE Of(h, x)
  <2>1. CASE joins
    BY <1>2, <1>3, <1>4, <1>5, <2>1
  <2>2. CASE ~joins
    BY <1>2, <1>3, <1>4, <1>5, <2>2
  <2>3. QED
    BY <2>1, <2>2
<1>7. QED
  BY <1>6, Zenon DEF g, n, joins

LEMMA LatestIsOne ==
  ASSUME NEW h \in Seq(Piece), NEW i, NEW b, NEW c, Latest(h, i, b), Latest(h, i, c)
  PROVE  b = c
<1>1. Len(h) \in Nat /\ DOMAIN h = 1 .. Len(h) /\ b \in DOMAIN h /\ c \in DOMAIN h
  BY DEF Latest
<1>2. ~(b < c) /\ ~(c < b)
  BY <1>1 DEF Latest
<1>3. QED
  BY <1>1, <1>2

LEMMA LatestNext ==
  ASSUME NEW h \in Seq(Piece), NEW p \in Piece, NEW b, IsOf(h, p, b)
  PROVE  /\ Latest(Append(h, p), p.index, b)
         /\ \A i, c : i # p.index /\ Latest(h, i, c) => Latest(Append(h, p), i, c) /\ c # b
         /\ b \in Nat /\ \A x \in Given(h, b) : x < Len(h) + 1
<1> DEFINE g == Append(h, p)
           n == Len(h) + 1
<1>1. /\ Len(g) = n /\ Len(h) = n - 1 /\ n \in Nat
      /\ DOMAIN g = 1 .. n /\ DOMAIN h = 1 .. n - 1
      /\ g[n] = p /\ \A m \in 1 .. n - 1 : g[m] = h[m]
      /\ \A m \in 1 .. n - 1 : Begins(g, m) <=> Begins(h, m)
  BY AppendPiece
<1>2. IF Begins(g, n) THEN b = n ELSE Latest(h, p.index, b)
  BY DEF IsOf
<1> HIDE DEF g, n
<1>3. b \in DOMAIN g /\ g[b].index = p.index
  BY <1>1, <1>2 DEF Latest
<1>4. Latest(g, p.index, b)
  <2>1. CASE Begins(g, n)
    <3>1. b = n /\ \A m \in b + 1 .. Len(g) : FALSE
      BY <1>1, <1>2, <2>1
    <3>2. QED
      BY <1>3, <2>1, <3>1 DEF Latest
  <2>2. CASE ~Begins(g, n)
    <3>1. b \in 1 .. n - 1 /\ Begins(h, b) /\ \A m \in b + 1 .. n - 1 : h[m].index = p.index => ~Begins(h, m)
      BY <1>1, <1>2, <2>2 DEF Latest
    <3>2. \A m \in b + 1 .. Len(g) : m = n \/ (m \in b + 1 .. n - 1 /\ m \in 1 .. n - 1)
      BY <1>1, <3>1
    <3>3. Begins(g, b) /\ \A m \in b + 1 .. Len(g) : g[m].index = p.index => ~Begins(g, m)
      BY <1>1, <2>2, <3>1, <3>2
    <3>4. QED
      BY <1>3, <3>3 DEF Latest
  <2>3. QED
    BY <2>1, <2>2
<1>5. ASSUME NEW i, NEW c, i # p.index, Latest(h, i, c)
      PROVE  Latest(g, i, c) /\ c # b
  <2>1. /\ c \in 1 .. n - 1 /\ h[c].index = i /\ Begins(h, c)
        /\ \A m \in c + 1 .. n - 1 : h[m].index = i => ~Begins(h, m)
    BY <1>1, <1>5 DEF Latest
  <2>2. c \in DOMAIN g /\ g[c].index = i /\ Begins(g, c)
    BY <1>1, <2>1
  <2>3. \A m \in c + 1 .. Len(g) : m = n \/ (m \in c + 1 .. n - 1 /\ m \in 1 .. n - 1)
    BY <1>1, <2>1
  <2>4. \A m \in c + 1 .. Len(g) : g[m].index = i => ~Begins(g, m)
    BY <1>1, <1>5, <2>1, <2>3
  <2>5. c # b
    BY <1>3, <1>5, <2>2
  <2>6. QED
    BY <2>2, <2>4, <2>5 DEF Latest
<1>6. b \in Nat /\ \A x \in Given(h, b) : x < n
  <2>1. b \in Nat
    BY <1>1, <1>3
  <2>2. Given(h, b) \subseteq b .. n - 1
    BY <1>1 DEF Given, Of
  <2>3. QED
    BY <1>1, <2>1, <2>2
<1>7. QED
  BY <1>4, <1>5, <1>6 DEF g, n

(* So the calls named and what each has been given grow by the piece.      *)
LEMMA CallsNext ==
  ASSUME NEW h \in Seq(Piece), NEW p \in Piece, NEW b, IsOf(h, p, b)
  PROVE  LET g == Append(h, p)
             n == Len(h) + 1
         IN /\ Named(g) = With(p, Named(h), b)
            /\ Given(g, b) = IF p.args THEN Given(h, b) \cup {n} ELSE Given(h, b)
            /\ \A x \in DOMAIN h : Begins(h, x) /\ x # b => Given(g, x) = Given(h, x)
<1> DEFINE g == Append(h, p)
           n == Len(h) + 1
<1>1. /\ Len(g) = n /\ Len(h) = n - 1 /\ n \in Nat
      /\ DOMAIN g = 1 .. n /\ DOMAIN h = 1 .. n - 1
      /\ g[n] = p /\ \A m \in 1 .. n - 1 : g[m] = h[m]
      /\ \A m \in 1 .. n - 1 : Begins(g, m) <=> Begins(h, m)
  BY AppendPiece
<1>2. IF Begins(g, n) THEN b = n ELSE Latest(h, p.index, b)
  BY DEF IsOf
<1>3. \A x \in DOMAIN h :
        Of(g, x) = IF /\ h[x].index = p.index /\ ~Begins(g, n)
                      /\ \A m \in x + 1 .. Len(h) : h[m].index = p.index => ~Begins(h, m)
                   THEN Of(h, x) \cup {n} ELSE Of(h, x)
  BY OfNext, Zenon
<1>4. Begins(g, b) /\ b \in DOMAIN g
  BY LatestNext DEF Latest
<1> HIDE DEF g, n
<1>5. \A x \in DOMAIN h : Begins(h, x) /\ x # b => Of(g, x) = Of(h, x)
  <2> SUFFICES ASSUME NEW x \in DOMAIN h, Begins(h, x), x # b PROVE Of(g, x) = Of(h, x)
    OBVIOUS
  <2>1. CASE Begins(g, n)
    BY <1>3, <2>1
  <2>2. CASE ~Begins(g, n)
    <3>1. ~Latest(h, p.index, x)
      BY <1>2, <2>2, LatestIsOne
    <3>2. QED
      BY <1>3, <3>1 DEF Latest
  <2>3. QED
    BY <2>1, <2>2
<1>6. Of(g, b) = Of(h, b) \cup {n}
  <2>1. CASE Begins(g, n)
    <3>1. b = n /\ Of(h, n) = {}
      BY <1>1, <1>2, <2>1 DEF Of
    <3>2. Of(g, n) \subseteq {n}
      BY <1>1 DEF Of
    <3>3. n \in Of(g, n)
      BY <1>1 DEF Of
    <3>4. QED
      BY <3>1, <3>2, <3>3
  <2>2. CASE ~Begins(g, n)
    BY <1>2, <1>3, <2>2 DEF Latest
  <2>3. QED
    BY <2>1, <2>2
<1>7. \A x \in DOMAIN g : Of(h, x) \subseteq DOMAIN h
  <2> SUFFICES ASSUME NEW x \in DOMAIN g, NEW k \in Of(h, x) PROVE k \in DOMAIN h
    OBVIOUS
  <2>1. k \in x .. Len(h) /\ x \in 1 .. n
    BY <1>1 DEF Of
  <2>2. QED
    BY <1>1, <2>1
<1>8. Given(g, b) = IF p.args THEN Given(h, b) \cup {n} ELSE Given(h, b)
  <2>1. \A k \in Of(h, b) : g[k].args = h[k].args
    BY <1>1, <1>4, <1>7
  <2>2. QED
    BY <1>1, <1>6, <2>1 DEF Given
<1>9. ASSUME NEW x \in DOMAIN h, Begins(h, x), x # b PROVE Given(g, x) = Given(h, x)
  <2>1. Of(g, x) = Of(h, x) /\ \A k \in Of(h, x) : g[k] = h[k]
    BY <1>1, <1>5, <1>7, <1>9
  <2>2. QED
    BY <2>1 DEF Given
<1>10. ASSUME NEW x \in DOMAIN g, x # b PROVE x \in Named(g) <=> x \in Named(h)
  <2>1. CASE x \in DOMAIN h
    <3>1. Begins(g, x) <=> Begins(h, x)
      BY <1>1, <2>1
    <3>2. Begins(h, x) => Of(g, x) = Of(h, x) /\ \A k \in Of(h, x) : g[k] = h[k]
      BY <1>1, <1>5, <1>7, <1>10, <2>1
    <3>3. QED
      BY <2>1, <3>1, <3>2 DEF Named
  <2>2. CASE x \notin DOMAIN h
    <3>1. x = n /\ ~Begins(g, n)
      BY <1>1, <1>2, <1>10, <2>2
    <3>2. QED
      BY <2>2, <3>1 DEF Named
  <2>3. QED
    BY <2>1, <2>2
<1>11. b \in Named(g) <=> p.named \/ b \in Named(h)
  <2>1. \A k \in Of(h, b) : g[k] = h[k]
    BY <1>1, <1>4, <1>7
  <2>2. b \in Named(g) <=> p.named \/ \E k \in Of(h, b) : h[k].named
    BY <1>1, <1>4, <1>6, <2>1 DEF Named
  <2>3. CASE b \in DOMAIN h
    BY <1>1, <1>4, <2>2, <2>3 DEF Named
  <2>4. CASE b \notin DOMAIN h
    <3>1. b = n
      BY <1>1, <1>4, <2>4
    <3>2. Of(h, b) = {}
      BY <1>1, <3>1 DEF Of
    <3>3. QED
      BY <2>2, <2>4, <3>2 DEF Named
  <2>5. QED
    BY <2>3, <2>4
<1>12. Named(g) \subseteq DOMAIN g /\ Named(h) \subseteq DOMAIN g
  BY <1>1 DEF Named
<1>13. Named(g) = With(p, Named(h), b)
  <2>1. CASE p.named
    <3>1. Named(g) = Named(h) \cup {b}
      BY <1>4, <1>10, <1>11, <1>12, <2>1
    <3>2. QED
      BY <2>1, <3>1 DEF With
  <2>2. CASE ~p.named
    <3>1. \A x \in DOMAIN g : x \in Named(g) <=> x \in Named(h)
      BY <1>10, <1>11, <2>2
    <3>2. Named(g) = Named(h)
      BY <1>12, <3>1
    <3>3. QED
      BY <2>2, <3>2 DEF With
  <2>3. QED
    BY <2>1, <2>2
<1>14. QED
  BY <1>8, <1>9, <1>13 DEF g, n

-----------------------------------------------------------------------------
(* The slots stand for the calls as they have been heard: each for the     *)
(* latest call at its index, with the last id given there.                 *)
Placed(slots, h, own) ==
  \A i \in Indices :
    IF slots[i] = None THEN \A n \in DOMAIN h : h[n].index # i
    ELSE /\ Identifies(h, i, slots[i].id)
         /\ \E b \in DOMAIN h :
              Latest(h, i, b) /\ KeepsCall(slots[i], own, Named(h), GivenIn(h), b)

Kept(slots, w, h) ==
  \E own : Owned(own, w, Named(h), GivenIn(h)) /\ Placed(slots, h, own)

LEMMA NoneIsNoSlot == None \notin Slot
BY DataAssumption DEF Slot

(* The slot a piece finds is that of the call it is of.                    *)
LEMMA SlotForServes ==
  ASSUME NEW slots \in [Indices -> Slot \cup {None}], NEW h \in Seq(Piece), NEW p \in Piece,
         NEW own, Placed(slots, h, own)
  PROVE  /\ \E b : /\ IsOf(h, p, b)
                   /\ KeepsCall(SlotFor(slots, p), own, Named(h), GivenIn(h), b)
         /\ Identifies(Append(h, p), p.index, SlotFor(slots, p).id)
<1> DEFINE i == p.index
           n == Len(h) + 1
           slot == slots[i]
           old == IF slot = None THEN None ELSE slot.id
           takes == slot = None \/ (p.id # None /\ slot.id # None /\ slot.id # p.id)
           begins == Begins(Append(h, p), n)
<1>1. i \in Indices /\ (slot = None \/ slot \in Slot)
  BY DEF Piece
<1>2. IF slot = None THEN \A m \in DOMAIN h : h[m].index # i
      ELSE /\ Identifies(h, i, slot.id)
           /\ \E b \in DOMAIN h :
                Latest(h, i, b) /\ KeepsCall(slot, own, Named(h), GivenIn(h), b)
  BY <1>1 DEF Placed
<1>3. Identifies(h, i, old)
  BY <1>2 DEF Identifies
<1> HIDE DEF old, slot
<1>4. /\ begins <=> \/ \A m \in DOMAIN h : h[m].index # i
                    \/ p.id # None /\ old # None /\ old # p.id
      /\ Identifies(Append(h, p), i, IF p.id # None THEN p.id ELSE old)
  BY <1>3, BeginsNext
<1>5. begins <=> takes
  <2>1. CASE slot = None
    BY <1>2, <1>4, <2>1
  <2>2. CASE slot # None
    <3>1. ~ \A m \in DOMAIN h : h[m].index # i
      BY <1>2, <2>2 DEF Latest
    <3>2. QED
      BY <1>4, <2>2, <3>1 DEF old
  <2>3. QED
    BY <2>1, <2>2
<1>6. /\ takes => /\ SlotFor(slots, p).id = p.id /\ SlotFor(slots, p).block = None
                  /\ SlotFor(slots, p).pending = <<>>
      /\ ~takes => /\ SlotFor(slots, p).id = (IF p.id # None THEN p.id ELSE slot.id)
                   /\ SlotFor(slots, p).block = slot.block
                   /\ SlotFor(slots, p).pending = slot.pending
  <2>1. SlotFor(slots, p) =
          IF takes THEN [id |-> p.id, block |-> None, pending |-> <<>>]
          ELSE [slot EXCEPT !.id = IF p.id # None THEN p.id ELSE @]
    BY DEF SlotFor, slot
  <2>2. ~takes => slot \in Slot
    BY <1>1 DEF slot
  <2> HIDE DEF takes
  <2>3. CASE takes
    BY <2>1, <2>3
  <2>4. CASE ~takes
    BY <2>1, <2>2, <2>4 DEF Slot
  <2>5. QED
    BY <2>3, <2>4
<1>7. SlotFor(slots, p).id = IF p.id # None THEN p.id ELSE old
  BY <1>6 DEF old
<1>8. CASE takes
  <2>1. IsOf(h, p, n)
    BY <1>5, <1>8 DEF IsOf
  <2>2. n \notin Named(h) /\ n \in Nat /\ GivenIn(h)[n] = {}
    <3>1. DOMAIN h = 1 .. Len(h) /\ Len(h) \in Nat /\ n \in Nat /\ n .. Len(h) = {}
      OBVIOUS
    <3>2. Given(h, n) = {}
      BY <3>1 DEF Given, Of
    <3>3. QED
      BY <3>1, <3>2 DEF Named, GivenIn
  <2>3. InOrder(<<>>, {})
    BY DEF InOrder
  <2>4. KeepsCall(SlotFor(slots, p), own, Named(h), GivenIn(h), n)
    BY <1>6, <1>8, <2>2, <2>3 DEF KeepsCall
  <2>5. QED
    BY <1>4, <1>7, <2>1, <2>4
<1>9. CASE ~takes
  <2>1. PICK b \in DOMAIN h : Latest(h, i, b) /\ KeepsCall(slot, own, Named(h), GivenIn(h), b)
    BY <1>2, <1>9
  <2>2. IsOf(h, p, b)
    BY <1>5, <1>9, <2>1 DEF IsOf
  <2>3. KeepsCall(SlotFor(slots, p), own, Named(h), GivenIn(h), b)
    BY <1>6, <1>9, <2>1 DEF KeepsCall
  <2>4. QED
    BY <1>4, <1>7, <2>2, <2>3
<1>10. QED
  BY <1>8, <1>9

LEMMA CallKept ==
  ASSUME NEW c, Going(c), NEW h \in Seq(Piece), NEW p \in Piece,
         Kept(c.state.toolSlots, Written(c), h)
  PROVE  LET d == Call(c, p, Len(h) + 1)
         IN Kept(d.state.toolSlots, Written(d), Append(h, p))
<1> DEFINE i == p.index
           n == Len(h) + 1
           g == Append(h, p)
           d == Call(c, p, n)
           slots == c.state.toolSlots
<1>1. slots \in [Indices -> Slot \cup {None}] /\ i \in Indices /\ n \in Nat
  BY DEF Going, Adding, StreamState, Piece
<1>2. PICK own : Owned(own, Written(c), Named(h), GivenIn(h)) /\ Placed(slots, h, own)
  BY DEF Kept
<1> HIDE DEF slots
<1>3. PICK b : IsOf(h, p, b) /\ KeepsCall(SlotFor(slots, p), own, Named(h), GivenIn(h), b)
  BY <1>1, <1>2, SlotForServes
<1>4. Identifies(g, i, SlotFor(slots, p).id)
  BY <1>1, <1>2, SlotForServes
<1>5. /\ Latest(g, i, b)
      /\ \A j, x : j # i /\ Latest(h, j, x) => Latest(g, j, x) /\ x # b
      /\ b \in Nat /\ \A x \in Given(h, b) : x < n
  BY <1>3, LatestNext
<1>6. /\ Named(g) = With(p, Named(h), b)
      /\ Given(g, b) = IF p.args THEN Given(h, b) \cup {n} ELSE Given(h, b)
      /\ \A x \in DOMAIN h : Begins(h, x) /\ x # b => Given(g, x) = Given(h, x)
  BY <1>3, CallsNext, Zenon
<1>7. /\ \A x \in GivenIn(h)[b] : x < n
      /\ GivenIn(g)[b] = IF p.args THEN GivenIn(h)[b] \cup {n} ELSE GivenIn(h)[b]
      /\ \A x \in DOMAIN h : Begins(h, x) /\ x # b => GivenIn(g)[x] = GivenIn(h)[x]
  <2>1. DOMAIN h \subseteq Nat
    OBVIOUS
  <2>2. \A k : GivenIn(k) = [x \in Nat |-> Given(k, x)]
    BY DEF GivenIn
  <2> HIDE DEF g, n
  <2>3. QED
    BY <1>5, <1>6, <2>1, <2>2
<1>8. \A x \in Named(h) : x # b => GivenIn(g)[x] = GivenIn(h)[x]
  BY <1>7 DEF Named
<1>9. /\ \E one : Serves(d, i, own, one, Named(h), With(p, Named(h), b), GivenIn(g), b)
      /\ d.state.toolSlots[i] \in Slot
      /\ d.state.toolSlots[i].id = SlotFor(slots, p).id
      /\ Beside(c, d, i)
  <2> DEFINE given == GivenIn(h)
             more == GivenIn(g)
             N == Named(h)
  <2>1. /\ Owned(own, Written(c), N, given) /\ n \in Nat
        /\ KeepsCall(SlotFor(c.state.toolSlots, p), own, N, given, b)
        /\ Gives(p, n, N, given, more, b)
    BY <1>1, <1>2, <1>3, <1>7, <1>8 DEF slots, Gives
  <2> HIDE DEF given, more, N, n, g
  <2> HIDE DEF d, i
  <2>2. /\ \E one : Serves(Call(c, p, n), p.index, own, one, N, With(p, N, b), more, b)
        /\ Call(c, p, n).state.toolSlots[p.index] \in Slot
        /\ Call(c, p, n).state.toolSlots[p.index].id = SlotFor(c.state.toolSlots, p).id
        /\ Beside(c, Call(c, p, n), p.index)
    BY <2>1, CallServes
  <2>3. QED
    BY <2>2 DEF given, more, N, n, g, slots, d, i
<1> HIDE DEF d, g, n
<1>10. PICK one : Serves(d, i, own, one, Named(h), Named(g), GivenIn(g), b)
  BY <1>6, <1>9
<1>11. /\ Owned(one, Written(d), Named(g), GivenIn(g)) /\ \A x \in Named(h) : one[x] = own[x]
       /\ KeepsCall(d.state.toolSlots[i], one, Named(g), GivenIn(g), b)
  BY <1>10 DEF Serves
<1>12. ASSUME NEW j \in Indices, j # i
       PROVE  IF d.state.toolSlots[j] = None THEN \A k \in DOMAIN g : g[k].index # j
              ELSE /\ Identifies(g, j, d.state.toolSlots[j].id)
                   /\ \E x \in DOMAIN g :
                        /\ Latest(g, j, x)
                        /\ KeepsCall(d.state.toolSlots[j], one, Named(g), GivenIn(g), x)
  <2>1. d.state.toolSlots[j] = slots[j]
    BY <1>9, <1>12 DEF Beside, slots
  <2>2. CASE slots[j] = None
    <3>1. \A k \in DOMAIN h : h[k].index # j
      BY <1>2, <2>2 DEF Placed
    <3>2. g[n] = p /\ \A k \in DOMAIN g : k = n \/ (k \in DOMAIN h /\ g[k] = h[k])
      BY DEF g, n
    <3>3. QED
      BY <1>12, <2>1, <2>2, <3>1, <3>2
  <2>3. CASE slots[j] # None
    <3>1. Identifies(h, j, slots[j].id)
      BY <1>2, <2>3 DEF Placed
    <3>2. PICK x \in DOMAIN h :
            Latest(h, j, x) /\ KeepsCall(slots[j], own, Named(h), GivenIn(h), x)
      BY <1>2, <2>3 DEF Placed
    <3>3. Identifies(g, j, slots[j].id)
      BY <1>12, <3>1, IdentifiesStill DEF g
    <3>4. Latest(g, j, x) /\ x # b
      BY <1>5, <1>12, <3>2
    <3>5. GivenIn(g)[x] = GivenIn(h)[x]
      BY <1>7, <3>2, <3>4 DEF Latest
    <3>6. x \in Named(g) <=> x \in Named(h)
      BY <1>6, <3>4 DEF With
    <3>7. KeepsCall(slots[j], one, Named(g), GivenIn(g), x)
      BY <1>11, <3>2, <3>5, <3>6 DEF KeepsCall
    <3>8. x \in DOMAIN g
      BY <3>4 DEF Latest
    <3>9. QED
      BY <2>1, <2>3, <3>3, <3>4, <3>7, <3>8
  <2>4. QED
    BY <2>2, <2>3
<1>13. /\ d.state.toolSlots[i] # None /\ Identifies(g, i, d.state.toolSlots[i].id)
       /\ b \in DOMAIN g /\ Latest(g, i, b)
  BY <1>4, <1>5, <1>9, NoneIsNoSlot DEF Latest
<1>14. Placed(d.state.toolSlots, g, one)
  BY <1>11, <1>12, <1>13 DEF Placed
<1>15. Kept(d.state.toolSlots, Written(d), g)
  BY <1>11, <1>14 DEF Kept
<1>16. QED
  BY <1>15 DEF d, g, n

LEMMA CallAllKept ==
  ASSUME NEW c, Going(c), NEW calls \in Calls, NEW h \in Seq(Piece),
         Kept(c.state.toolSlots, Written(c), h)
  PROVE  LET d == CallAll(c, calls, Len(h))
         IN Kept(d.state.toolSlots, Written(d), h \o calls)
<1> DEFINE n == Len(h)
           d == CallAll(c, calls, n)
<1>1. n \in Nat
  OBVIOUS
<1>2. ASSUME calls = <<>> PROVE Kept(d.state.toolSlots, Written(d), h \o calls)
  <2>1. CallAll(c, calls, n) = c /\ h \o calls = h
    BY <1>2 DEF CallAll
  <2>2. QED
    BY <2>1
<1>3. ASSUME NEW p \in Piece, calls = <<p>>
      PROVE  Kept(d.state.toolSlots, Written(d), h \o calls)
  <2>1. calls # <<>> /\ Len(calls) = 1 /\ calls[1] = p /\ h \o calls = Append(h, p)
    BY <1>3
  <2>2. CallAll(c, calls, n) = Call(c, p, n + 1)
    BY <2>1 DEF CallAll
  <2>3. Kept(Call(c, p, n + 1).state.toolSlots, Written(Call(c, p, n + 1)), Append(h, p))
    BY CallKept
  <2>4. QED
    BY <2>1, <2>2, <2>3
<1>4. ASSUME NEW p \in Piece, NEW q \in Piece, calls = <<p, q>>
      PROVE  Kept(d.state.toolSlots, Written(d), h \o calls)
  <2> DEFINE g == Append(h, p)
             a == Call(c, p, n + 1)
             b == Call(a, q, n + 2)
  <2>1. calls # <<>> /\ Len(calls) = 2 /\ calls[1] = p /\ calls[2] = q
    BY <1>4
  <2>2. CallAll(c, calls, n) = b
    BY <2>1 DEF CallAll
  <2>3. g \in Seq(Piece) /\ Len(g) + 1 = n + 2 /\ h \o calls = Append(g, q)
    BY <1>4
  <2>4. Going(a)
    BY <1>1, CallGoes
  <2>5. Kept(a.state.toolSlots, Written(a), g)
    BY CallKept
  <2> HIDE DEF a, g
  <2>6. Kept(Call(a, q, Len(g) + 1).state.toolSlots, Written(Call(a, q, Len(g) + 1)),
             Append(g, q))
    BY <2>3, <2>4, <2>5, CallKept
  <2>7. QED
    BY <2>2, <2>3, <2>6
<1>5. calls = <<>> \/ (\E p \in Piece : calls = <<p>>) \/ (\E p, q \in Piece : calls = <<p, q>>)
  BY DEF Calls
<1> HIDE DEF n, d
<1>6. Kept(d.state.toolSlots, Written(d), h \o calls)
  BY <1>2, <1>3, <1>4, <1>5
<1>7. QED
  BY <1>6 DEF n, d

LEMMA KeptStays ==
  ASSUME NEW slots, NEW v, NEW w, NEW h, Kept(slots, v, h), Alike(v, w)
  PROVE  Kept(slots, w, h)
BY OwnedStays DEF Kept

(* The end of the blocks leaves none open.                                 *)
LEMMA DrainGoes ==
  ASSUME NEW c, Going(c)
  PROVE  LET d == DrainOpenBlocks(c) IN
         /\ Going(d) /\ d.state.openIndex = None
         /\ d.state.contentBlockIndex = c.state.contentBlockIndex
         /\ d.state.completed = c.state.completed
         /\ Alike(Written(c), Written(d))
<1> DEFINE d == DrainOpenBlocks(c)
           a == CloseOpenBlock(c)
           slots == [i \in Indices |-> IF a.state.toolSlots[i] = None THEN None
                                       ELSE [a.state.toolSlots[i] EXCEPT !.block = None]]
<1>1. /\ Going(a) /\ a.state.openIndex = None /\ a.state.thinkingIndex = None
      /\ a.state.textIndex = None
      /\ a.state.contentBlockIndex = c.state.contentBlockIndex
      /\ a.state.completed = c.state.completed /\ Alike(Written(c), Written(a))
  BY CloseGoes
<1>2. d = [a EXCEPT !.state.thinkingIndex = None, !.state.textIndex = None,
                    !.state.toolSlots = slots]
  BY DEF DrainOpenBlocks
<1> HIDE DEF a, d
<1>3. /\ a \in InProgress /\ a.state \in StreamState /\ Adding(a.state, Written(a))
      /\ a.state.toolSlots \in [Indices -> Slot \cup {None}]
  BY <1>1 DEF Going, Adding, StreamState
<1>4. ASSUME NEW i \in Indices, slots[i] # None
      PROVE  slots[i] \in Slot /\ slots[i].block = None
  <2>1. a.state.toolSlots[i] \in Slot /\ slots[i] = [a.state.toolSlots[i] EXCEPT !.block = None]
    BY <1>3, <1>4
  <2>2. QED
    BY <2>1 DEF Slot
<1>5. slots \in [Indices -> Slot \cup {None}]
  <2>1. \A i \in Indices : slots[i] \in Slot \cup {None}
    BY <1>4
  <2>2. QED
    BY <2>1
<1>6. \A i \in Indices : slots[i] # None /\ slots[i].block # None =>
        <<slots[i].block, "tool_use">> \in KindsIn(Written(a))
  BY <1>4
<1> HIDE DEF slots
<1>7. Adding([a.state EXCEPT !.toolSlots = slots], Written(a))
  BY <1>3, <1>5, <1>6, KeepSlots
<1>8. d.state = [a.state EXCEPT !.toolSlots = slots] /\ d.events = a.events
  BY <1>1, <1>2, <1>3 DEF InProgress, StreamState
<1>9. d \in InProgress
  BY <1>2, <1>3, <1>5 DEF InProgress, StreamState
<1>10. Written(d) = Written(a)
  BY <1>8 DEF Written
<1>11. Going(d)
  BY <1>1, <1>7, <1>8, <1>9, <1>10 DEF Going
<1>12. /\ d.state.openIndex = None
       /\ d.state.contentBlockIndex = c.state.contentBlockIndex
       /\ d.state.completed = c.state.completed
  BY <1>1, <1>3, <1>8 DEF StreamState
<1>13. QED
  BY <1>1, <1>10, <1>11, <1>12 DEF d

LEMMA FinishGoes ==
  ASSUME NEW c, Going(c)
  PROVE  Going(Finish(c)) /\ Finish(c).state.completed = c.state.completed
<1> DEFINE b == IF c.state.contentBlockIndex = 0 THEN OpenBlock(c, "text") ELSE c
<1>1. Going(b) /\ b.state.completed = c.state.completed
  BY OpenGoes DEF Kinds
<1>2. Finish(c) = DrainOpenBlocks(b)
  BY DEF Finish
<1> HIDE DEF b
<1>3. QED
  BY <1>1, <1>2, DrainGoes

-----------------------------------------------------------------------------
(* A call begins where the last one ended, and the first of them starts    *)
(* the message.                                                            *)
LEMMA FreshWrites ==
  ASSUME Types
  PROVE  Fresh \in InProgress /\ Fresh.state = state /\ Written(Fresh) = wire
<1>1. <<>> \in Seq(Event) /\ wire \o <<>> = wire
  BY DEF Types
<1>2. QED
  BY <1>1 DEF Fresh, InProgress, Types, Written

LEMMA BeginGoes ==
  ASSUME IInv, ~state.completed
  PROVE  /\ Going(Begin(Fresh)) /\ ~Begin(Fresh).state.completed
         /\ Begin(Fresh).state.toolSlots = state.toolSlots
         /\ Alike(wire, Written(Begin(Fresh)))
<1>1. /\ Types /\ state \in StreamState /\ wire \in Seq(Event) /\ Sound(state, wire)
      /\ ~Over(wire)
  BY DEF IInv, Types
<1>2. Fresh \in InProgress /\ Fresh.state = state /\ Written(Fresh) = wire
  BY <1>1, FreshWrites
<1> HIDE DEF Fresh
<1>3. CASE state.hasStarted
  <2>1. Begin(Fresh) = Fresh
    BY <1>2, <1>3 DEF Begin
  <2>2. Alike(wire, wire)
    BY DEF Alike
  <2>3. QED
    BY <1>1, <1>2, <1>3, <2>1, <2>2 DEF Going, Adding
<1>4. CASE ~state.hasStarted
  <2> DEFINE e == [type |-> "message_start"]
             t == [state EXCEPT !.hasStarted = TRUE]
             b == [Fresh EXCEPT !.state.hasStarted = TRUE]
             v == Append(wire, e)
  <2>1. wire = <<>> /\ e \in Event /\ e.type = "message_start"
    BY <1>1, <1>4, EventTypes DEF Sound
  <2>2. /\ t \in StreamState /\ t.hasStarted /\ t.openIndex = state.openIndex
        /\ t.contentBlockIndex = state.contentBlockIndex /\ t.toolSlots = state.toolSlots
        /\ t.thinkingIndex = state.thinkingIndex /\ t.textIndex = state.textIndex
        /\ t.completed = state.completed
    BY <1>1 DEF StreamState
  <2>3. /\ v \in Seq(Event) /\ v # <<>> /\ v[1] = e /\ Begun(v) = Begun(wire)
        /\ StartedIn(v) = StartedIn(wire) /\ KindsIn(v) = KindsIn(wire)
        /\ StoppedIn(v) = StoppedIn(wire) /\ ~Over(v)
    BY <1>1, <2>1, AppendTells
  <2>4. b.state = t /\ b.events = Fresh.events /\ b \in InProgress
    BY <1>1, <1>2, <2>2 DEF InProgress, StreamState
  <2>5. Begin(Fresh) = Emit(b, e)
    BY <1>2, <1>4 DEF Begin
  <2>6. Protocol(v)
    <3>1. Fits(wire, e)
      BY <1>1, <2>1 DEF Fits
    <3>2. QED
      BY <1>1, <2>1, <3>1, AppendFits DEF Sound
  <2> HIDE DEF t, b, v, e
  <2>7. Sound(t, v)
    BY <1>1, <2>1, <2>2, <2>3, <2>6 DEF Sound
  <2>8. Adding(t, v)
    BY <2>2, <2>3, <2>7 DEF Adding
  <2>9. /\ Emit(b, e) \in InProgress /\ Emit(b, e).state = b.state
        /\ Written(Emit(b, e)) = Append(Written(b), e)
    BY <1>1, <2>1, <2>4, EmitWrites
  <2>10. Written(b) = wire
    BY <1>2, <2>4 DEF Written
  <2>11. Going(Emit(b, e))
    BY <1>1, <2>4, <2>8, <2>9, <2>10 DEF Going, v
  <2>12. Alike(wire, Append(wire, e))
    BY <1>1, <2>1, QuietAlike
  <2>13. QED
    BY <2>2, <2>4, <2>5, <2>9, <2>10, <2>11, <2>12
<1>5. QED
  BY <1>3, <1>4

(* [DONE] closes what is open, fills what said nothing, and ends.          *)
LEMMA FillGoes ==
  ASSUME NEW c, Going(c), c.state.contentBlockIndex = 0
  PROVE  LET b == [c EXCEPT !.state.contentBlockIndex = 1]
             d == Emit(Emit(b, Start(0, "text")), Stop(0))
         IN /\ Going(d) /\ d.state.contentBlockIndex = 1
            /\ Alike(Written(c), Written(d))
<1> DEFINE s == c.state
           w == Written(c)
           b == [c EXCEPT !.state.contentBlockIndex = 1]
           v == Append(w, Start(0, "text"))
           f == Emit(b, Start(0, "text"))
           d == Emit(f, Stop(0))
<1>1. /\ c \in InProgress /\ s \in StreamState /\ wire \in Seq(Event) /\ w \in Seq(Event)
      /\ Adding(s, w) /\ Sound(s, w)
  BY DEF Going, Adding
<1>2. StartedIn(w) = {}
  BY <1>1 DEF Sound
<1>3. s.openIndex = None /\ s.thinkingIndex = None /\ s.textIndex = None
  BY <1>1, <1>2 DEF Sound
<1>4. Adding(Opening(s), v)
  <2>1. "text" \in Kinds
    BY DEF Kinds
  <2>2. QED
    BY <1>1, <1>3, <2>1, StartKeeps
<1>5. /\ Opening(s).openIndex = 0 /\ 0 # None
      /\ Closing(Opening(s)) = [s EXCEPT !.contentBlockIndex = 1]
  <2> HIDE DEF s
  <2> DEFINE o == Opening(s)
             t == [s EXCEPT !.contentBlockIndex = 1]
  <2>1. None # 0 /\ s.contentBlockIndex = 0 /\ s.contentBlockIndex + 1 = 1
    BY DataAssumption DEF s
  <2>2. /\ o.openIndex = 0 /\ o.contentBlockIndex = 1 /\ o.toolSlots = s.toolSlots
        /\ o.thinkingIndex = None /\ o.textIndex = None
        /\ o.hasStarted = s.hasStarted /\ o.completed = s.completed
        /\ o \in StreamState
    <3>1. o \in StreamState
      BY <1>4 DEF Adding
    <3>2. QED
      BY <1>1, <1>3, <2>1, <3>1 DEF Opening, StreamState
  <2>3. /\ t.openIndex = None /\ t.contentBlockIndex = 1 /\ t.toolSlots = s.toolSlots
        /\ t.thinkingIndex = None /\ t.textIndex = None
        /\ t.hasStarted = s.hasStarted /\ t.completed = s.completed
        /\ t \in StreamState
    BY <1>1, <1>3 DEF StreamState
  <2> HIDE DEF o, t
  <2> DEFINE k == Closing(o)
  <2>4. /\ k.openIndex = None /\ k.contentBlockIndex = 1 /\ k.toolSlots = s.toolSlots
        /\ k.thinkingIndex = None /\ k.textIndex = None
        /\ k.hasStarted = s.hasStarted /\ k.completed = s.completed
        /\ k \in StreamState
    BY <2>1, <2>2 DEF Closing, StreamState
  <2> HIDE DEF k
  <2>5. k = t
    BY <2>3, <2>4 DEF StreamState
  <2>6. QED
    BY <2>1, <2>2, <2>5 DEF o, t, k
<1>6. Adding(Closing(Opening(s)), Append(v, Stop(0)))
  BY <1>4, <1>5, StopKeeps
<1>7. /\ b.state = [s EXCEPT !.contentBlockIndex = 1] /\ b.events = c.events
      /\ b \in InProgress /\ b.state.contentBlockIndex = 1
  BY <1>1 DEF InProgress, StreamState
<1>8. /\ Start(0, "text") \in Event /\ Start(0, "text").kind # "tool_use"
      /\ Start(0, "text").type = "content_block_start"
      /\ Stop(0) \in Event /\ Stop(0).type = "content_block_stop"
  <2>1. Start(0, "text") \in Event /\ Stop(0) \in Event
    BY EventTypes DEF Kinds
  <2>2. /\ Start(0, "text").kind # "tool_use" /\ Start(0, "text").type = "content_block_start"
        /\ Stop(0).type = "content_block_stop"
    BY DEF Start, Stop
  <2>3. QED
    BY <2>1, <2>2
<1>9. Written(b) = w
  BY <1>7 DEF Written
<1>10. Alike(w, Append(v, Stop(0)))
  <2>1. Alike(w, v)
    BY <1>1, <1>8, QuietAlike
  <2>2. v \in Seq(Event)
    BY <1>1, <1>8
  <2> HIDE DEF v, w
  <2>3. Alike(v, Append(v, Stop(0)))
    BY <1>8, <2>2, QuietAlike
  <2>4. QED
    BY <2>1, <2>3, AlikeJoins
<1> HIDE DEF b, w
<1>11. f \in InProgress /\ f.state = b.state /\ Written(f) = v
  BY <1>1, <1>7, <1>8, <1>9, EmitWrites
<1> HIDE DEF f, v
<1>12. d \in InProgress /\ d.state = f.state /\ Written(d) = Append(v, Stop(0))
  BY <1>1, <1>8, <1>11, EmitWrites
<1> HIDE DEF d
<1>13. Going(d)
  BY <1>1, <1>5, <1>6, <1>7, <1>11, <1>12 DEF Going
<1>14. QED
  BY <1>7, <1>10, <1>11, <1>12, <1>13 DEF d, f, b, w

LEMMA CompleteEnds ==
  ASSUME NEW c, Going(c)
  PROVE  /\ Complete(c).state \in StreamState /\ Complete(c).state.completed
         /\ Written(Complete(c)) \in Seq(Event)
         /\ Sound(Complete(c).state, Written(Complete(c)))
         /\ Alike(Written(c), Written(Complete(c)))
<1> DEFINE filled == IF c.state.contentBlockIndex # 0 THEN c
                     ELSE Emit(Emit([c EXCEPT !.state.contentBlockIndex = 1],
                                    Start(0, "text")), Stop(0))
           t == [filled.state EXCEPT !.completed = TRUE]
           a == [filled EXCEPT !.state.completed = TRUE]
           d == DrainOpenBlocks(a)
           delta == [type |-> "message_delta"]
           stop == [type |-> "message_stop"]
           told == Emit(d, delta)
           over == Emit(told, stop)
<1>1. /\ Going(filled) /\ filled.state.contentBlockIndex # 0
      /\ Alike(Written(c), Written(filled))
  <2>1. Alike(Written(c), Written(c))
    BY DEF Alike
  <2>2. QED
    BY <2>1, FillGoes
<1>2. Complete(c) = over
  BY DEF Complete
<1> HIDE DEF filled
<1>3. /\ filled \in InProgress /\ filled.state \in StreamState /\ wire \in Seq(Event)
      /\ Adding(filled.state, Written(filled)) /\ Sound(filled.state, Written(filled))
      /\ Written(filled) \in Seq(Event)
  BY <1>1 DEF Going, Adding
<1>4. /\ t \in StreamState /\ t.openIndex = filled.state.openIndex
      /\ t.hasStarted = filled.state.hasStarted
      /\ t.contentBlockIndex = filled.state.contentBlockIndex
      /\ t.toolSlots = filled.state.toolSlots
      /\ t.thinkingIndex = filled.state.thinkingIndex
      /\ t.textIndex = filled.state.textIndex /\ t.completed = TRUE
  BY <1>3 DEF StreamState
<1>5. a.state = t /\ a.events = filled.events /\ a \in InProgress
  BY <1>3, <1>4 DEF InProgress, StreamState
<1> HIDE DEF t, a
<1>6. Written(a) = Written(filled)
  BY <1>5 DEF Written
<1>7. Going(a)
  <2>1. Sound(t, Written(filled))
    BY <1>3, <1>4 DEF Sound
  <2>2. Adding(t, Written(filled))
    BY <1>3, <1>4, <2>1 DEF Adding
  <2>3. QED
    BY <1>3, <1>5, <1>6, <2>2 DEF Going
<1>8. /\ Going(d) /\ d.state.openIndex = None
      /\ d.state.contentBlockIndex # 0 /\ d.state.completed
      /\ Alike(Written(a), Written(d))
  BY <1>1, <1>4, <1>5, <1>7, DrainGoes
<1> HIDE DEF d
<1> DEFINE s == d.state
           w == Written(d)
           v == Append(w, delta)
           u == Append(v, stop)
<1>9. /\ d \in InProgress /\ s \in StreamState /\ w \in Seq(Event)
      /\ Sound(s, w) /\ ~Over(w) /\ s.hasStarted
  BY <1>8 DEF Going, Adding
<1>10. /\ delta \in Event /\ delta.type = "message_delta"
       /\ stop \in Event /\ stop.type = "message_stop"
  BY EventTypes
<1>11. told \in InProgress /\ told.state = s /\ Written(told) = v
  BY <1>3, <1>9, <1>10, EmitWrites
<1>12. over.state = s /\ Written(over) = u
  BY <1>3, <1>10, <1>11, EmitWrites
<1> HIDE DEF told, over, delta, stop
<1>13. /\ v \in Seq(Event) /\ v # <<>> /\ v[1] = IF w = <<>> THEN delta ELSE w[1]
       /\ Begun(v) = Begun(w) /\ StartedIn(v) = StartedIn(w) /\ KindsIn(v) = KindsIn(w)
       /\ StoppedIn(v) = StoppedIn(w) /\ ~Over(v)
  BY <1>9, <1>10, AppendTells
<1>14. Protocol(v)
  <2>1. Fits(w, delta)
    BY <1>9, <1>10 DEF Fits
  <2>2. QED
    BY <1>9, <1>10, <2>1, AppendFits DEF Sound
<1>15. Alike(Written(c), u)
  <2>1. Alike(Written(c), w)
    BY <1>1, <1>6, <1>8, AlikeJoins
  <2>2. Alike(w, v) /\ Alike(v, u)
    BY <1>9, <1>10, <1>13, QuietAlike
  <2> HIDE DEF u, v, w
  <2>3. QED
    BY <2>1, <2>2, AlikeJoins
<1> HIDE DEF v, w
<1>16. v[1].type = "message_start" /\ StartedIn(v) = StoppedIn(v) /\ StartedIn(v) # {}
  <2>1. v[1].type = "message_start"
    BY <1>9, <1>13 DEF Sound
  <2>2. \A i \in StartedIn(w) : i # None
    BY <1>9, DataAssumption DEF Sound, StreamState
  <2>3. StartedIn(w) = StoppedIn(w)
    BY <1>8, <1>9, <2>2 DEF Sound
  <2>4. 0 \in StartedIn(w)
    <3>1. s.contentBlockIndex \in Nat /\ s.contentBlockIndex # 0
      BY <1>8, <1>9 DEF StreamState
    <3>2. QED
      BY <1>9, <3>1 DEF Sound
  <2>5. QED
    BY <1>13, <2>1, <2>3, <2>4
<1>17. /\ u \in Seq(Event) /\ u # <<>> /\ u[1] = IF v = <<>> THEN stop ELSE v[1]
       /\ Begun(u) = Begun(v) /\ StartedIn(u) = StartedIn(v) /\ KindsIn(u) = KindsIn(v)
       /\ StoppedIn(u) = StoppedIn(v) /\ Over(u)
  BY <1>10, <1>13, AppendTells
<1>18. Protocol(u)
  <2>1. Fits(v, stop)
    BY <1>10, <1>13, <1>16 DEF Fits
  <2>2. QED
    BY <1>10, <1>13, <1>14, <2>1, AppendFits
<1> HIDE DEF u
<1>19. Sound(s, u)
  BY <1>9, <1>13, <1>16, <1>17, <1>18 DEF Sound
<1>20. QED
  BY <1>2, <1>8, <1>9, <1>12, <1>15, <1>17, <1>19

-----------------------------------------------------------------------------
(* The events sent follow the protocol and the state stands to them as it  *)
(* should, however many chunks there are (streamTransform.ts).             *)
LEMMA InitIInv == Init => IInv
<1> SUFFICES ASSUME Init PROVE IInv
  OBVIOUS
<1>1. Types
  BY DataAssumption DEF Init, Types, StreamState
<1>2. wire = <<>> /\ DOMAIN wire = {}
  BY DEF Init
<1>3. Begun(wire) = {} /\ StartedIn(wire) = {} /\ StoppedIn(wire) = {} /\ ~Over(wire)
  BY <1>2 DEF Begun, StartedIn, StoppedIn, Over
<1>4. Cardinality(Begun(wire)) = 0
  BY <1>3, FS_EmptySet
<1>5. Protocol(wire)
  BY <1>2 DEF Protocol
<1>6. Sound(state, wire)
  BY <1>2, <1>3, <1>4, <1>5 DEF Init, Sound
<1>7. QED
  BY <1>1, <1>3, <1>6 DEF IInv

LEMMA ChunkKeeps ==
  ASSUME IInv, NEW calls \in Calls, NEW thinks \in BOOLEAN, NEW says \in BOOLEAN,
         NEW finishes \in BOOLEAN, HearChunk(thinks, says, calls, finishes)
  PROVE  IInv'
<1> DEFINE begun == Begin(Fresh)
           thought == IF thinks THEN Think(begun) ELSE begun
           said == IF says THEN Say(thought) ELSE thought
           called == CallAll(said, calls, Len(heard))
           last == IF finishes THEN Finish(called) ELSE called
<1>1. ~state.completed /\ Len(heard) \in Nat
  BY DEF HearChunk, Finished, IInv, Types
<1>2. Going(begun)
  BY <1>1, BeginGoes
<1>3. state' = last.state /\ wire' = Written(last) /\ heard' = heard \o calls
  BY DEF HearChunk, Sends, Written
<1> HIDE DEF begun
<1>4. Going(thought)
  BY <1>2, ThinkGoes
<1> HIDE DEF thought
<1>5. Going(said)
  BY <1>4, SayGoes
<1> HIDE DEF said
<1>6. Going(called)
  BY <1>1, <1>5, CallAllGoes
<1> HIDE DEF called
<1>7. Going(last)
  BY <1>6, FinishGoes
<1> HIDE DEF last
<1>8. /\ last.state \in StreamState /\ Written(last) \in Seq(Event)
      /\ Sound(last.state, Written(last)) /\ ~Over(Written(last))
  BY <1>7 DEF Going, Adding
<1>9. heard' \in Seq(Piece)
  <2>1. calls \in Seq(Piece)
    <3>1. calls = <<>> \/ (\E p \in Piece : calls = <<p>>)
          \/ (\E p, q \in Piece : calls = <<p, q>>)
      BY DEF Calls
    <3>2. <<>> \in Seq(Piece)
      OBVIOUS
    <3>3. ASSUME NEW p \in Piece, NEW q \in Piece
          PROVE  <<p>> \in Seq(Piece) /\ <<p, q>> \in Seq(Piece)
      OBVIOUS
    <3>4. QED
      BY <3>1, <3>2, <3>3, Zenon
  <2>2. QED
    BY <1>3, <2>1 DEF IInv, Types
<1>10. Types' /\ Sound(state', wire') /\ ~Over(wire')
  BY <1>3, <1>8, <1>9 DEF Types
<1>11. QED
  BY <1>10 DEF IInv

LEMMA ErrorKeeps == ASSUME IInv, HearError PROVE IInv'
<1> DEFINE e == [type |-> "error"]
           t == [state EXCEPT !.completed = TRUE]
           b == [Fresh EXCEPT !.state.completed = TRUE]
           v == Append(wire, e)
<1>1. /\ Types /\ state \in StreamState /\ wire \in Seq(Event) /\ Sound(state, wire)
      /\ ~Over(wire)
  BY DEF IInv, Types, HearError, Finished
<1>2. Fresh \in InProgress /\ Fresh.state = state /\ Written(Fresh) = wire
  BY <1>1, FreshWrites
<1>3. e \in Event /\ e.type = "error"
  BY EventTypes
<1>4. /\ state' = Emit(b, e).state /\ wire' = Written(Emit(b, e)) /\ heard' = heard
  BY DEF HearError, Sends, Written
<1> HIDE DEF Fresh
<1>5. /\ t \in StreamState /\ t.openIndex = state.openIndex
      /\ t.hasStarted = state.hasStarted /\ t.completed = TRUE
      /\ t.contentBlockIndex = state.contentBlockIndex /\ t.toolSlots = state.toolSlots
      /\ t.thinkingIndex = state.thinkingIndex /\ t.textIndex = state.textIndex
  BY <1>1 DEF StreamState
<1>6. b.state = t /\ b.events = Fresh.events /\ b \in InProgress
  BY <1>1, <1>2, <1>5 DEF InProgress, StreamState
<1> HIDE DEF t, b, e
<1>7. Emit(b, e).state = b.state /\ Written(Emit(b, e)) = Append(Written(b), e)
  BY <1>1, <1>3, <1>6, EmitWrites
<1>8. Written(b) = wire
  BY <1>2, <1>6 DEF Written
<1>9. /\ v \in Seq(Event) /\ v # <<>> /\ v[1] = IF wire = <<>> THEN e ELSE wire[1]
      /\ Begun(v) = Begun(wire) /\ StartedIn(v) = StartedIn(wire)
      /\ KindsIn(v) = KindsIn(wire) /\ StoppedIn(v) = StoppedIn(wire) /\ Over(v)
  BY <1>1, <1>3, AppendTells
<1>10. Protocol(v)
  <2>1. Fits(wire, e)
    BY <1>1, <1>3 DEF Fits
  <2>2. QED
    BY <1>1, <1>3, <2>1, AppendFits DEF Sound
<1> HIDE DEF v
<1>11. Sound(t, v)
  BY <1>1, <1>5, <1>9, <1>10 DEF Sound
<1>12. state' = t /\ wire' = v
  BY <1>4, <1>6, <1>7, <1>8 DEF v
<1>13. QED
  BY <1>1, <1>4, <1>5, <1>9, <1>11, <1>12 DEF IInv, Types

LEMMA DoneKeeps == ASSUME IInv, HearDone PROVE IInv'
<1>1. /\ Types /\ state \in StreamState /\ wire \in Seq(Event) /\ Sound(state, wire)
      /\ ~Over(wire) /\ state.hasStarted
  BY DEF IInv, Types, HearDone, Finished
<1>2. Fresh \in InProgress /\ Fresh.state = state /\ Written(Fresh) = wire
  BY <1>1, FreshWrites
<1>3. state' = Complete(Fresh).state /\ wire' = Written(Complete(Fresh)) /\ heard' = heard
  BY DEF HearDone, Sends, Written
<1> HIDE DEF Fresh
<1>4. Going(Fresh)
  BY <1>1, <1>2 DEF Going, Adding
<1>5. /\ Complete(Fresh).state \in StreamState /\ Complete(Fresh).state.completed
      /\ Written(Complete(Fresh)) \in Seq(Event)
      /\ Sound(Complete(Fresh).state, Written(Complete(Fresh)))
  BY <1>4, CompleteEnds
<1>6. QED
  BY <1>1, <1>3, <1>5 DEF IInv, Types

THEOREM StateIsSound == Spec => []IInv
<1>1. Init => IInv
  BY InitIInv
<1>2. IInv /\ [Next]_vars => IInv'
  <2> SUFFICES ASSUME IInv, [Next]_vars PROVE IInv'
    OBVIOUS
  <2>1. ASSUME NEW calls \in Calls, NEW thinks \in BOOLEAN, NEW says \in BOOLEAN,
               NEW finishes \in BOOLEAN, HearChunk(thinks, says, calls, finishes)
        PROVE  IInv'
    BY <2>1, ChunkKeeps
  <2>2. CASE HearError
    BY <2>2, ErrorKeeps
  <2>3. CASE HearDone
    BY <2>3, DoneKeeps
  <2>4. CASE UNCHANGED vars
    BY <2>4 DEF vars, IInv, Types
  <2>5. QED
    BY <2>1, <2>2, <2>3, <2>4 DEF Next
<1>3. QED
  BY <1>1, <1>2, PTL DEF Spec

-----------------------------------------------------------------------------
(* What the caller has read before the n-th event, by either account.      *)
LEMMA PrefixTells ==
  ASSUME wire \in Seq(Event), NEW n \in DOMAIN wire
  PROVE  LET w == SubSeq(wire, 1, n - 1) IN
         /\ Starts(n - 1) = Begun(w) /\ Started(n - 1) = StartedIn(w)
         /\ Stopped(n - 1) = StoppedIn(w)
         /\ w = <<>> => n = 1
         /\ w # <<>> => w[1] = wire[1]
         /\ \A m \in Begun(w) : w[m] = wire[m] /\ m \in Starts(n)
         /\ ~Is(n, "content_block_start") => Started(n) = Started(n - 1)
         /\ ~Is(n, "content_block_stop") => Stopped(n) = Stopped(n - 1)
<1> DEFINE w == SubSeq(wire, 1, n - 1)
<1>1. n \in Nat /\ n >= 1 /\ Len(wire) \in Nat /\ n <= Len(wire)
  OBVIOUS
<1>2. w \in Seq(Event) /\ Len(w) = n - 1 /\ \A m \in 1 .. n - 1 : w[m] = wire[m]
  BY <1>1
<1> HIDE DEF w
<1>3. DOMAIN w = 1 .. n - 1
  BY <1>2
<1>4. Begun(w) = Starts(n - 1)
  BY <1>2, <1>3 DEF Begun, Starts, Is
<1>5. Starts(n - 1) \subseteq 1 .. n - 1
  BY DEF Starts
<1>6. StartedIn(w) = Started(n - 1)
  BY <1>2, <1>4, <1>5 DEF StartedIn, Started
<1>7. StoppedIn(w) = Stopped(n - 1)
  BY <1>2, <1>3 DEF StoppedIn, Stopped, Is
<1>8. \A m \in Begun(w) : w[m] = wire[m] /\ m \in Starts(n)
  BY <1>1, <1>2, <1>4 DEF Starts
<1>9. ~Is(n, "content_block_start") => Started(n) = Started(n - 1)
  <2>1. ~Is(n, "content_block_start") => Starts(n) = Starts(n - 1)
    BY <1>1 DEF Starts
  <2>2. QED
    BY <2>1 DEF Started
<1>10. ~Is(n, "content_block_stop") => Stopped(n) = Stopped(n - 1)
  <2> DEFINE Stops(k) == {m \in 1 .. k : Is(m, "content_block_stop")}
  <2>1. ~Is(n, "content_block_stop") => Stops(n) = Stops(n - 1)
    BY <1>1
  <2>2. QED
    BY <2>1 DEF Stopped
<1>11. (w = <<>> => n = 1) /\ (w # <<>> => w[1] = wire[1])
  BY <1>1, <1>2
<1>12. QED
  BY <1>4, <1>6, <1>7, <1>8, <1>9, <1>10, <1>11 DEF w

LEMMA FollowsOne == ASSUME IInv PROVE OneBlockAtATime
<1>1. wire \in Seq(Event) /\ Protocol(wire)
  BY DEF IInv, Types, Sound
<1> SUFFICES ASSUME NEW n \in DOMAIN wire
             PROVE  /\ Is(n, "content_block_start") =>
                         /\ wire[n].index = Cardinality(Starts(n - 1))
                         /\ Started(n - 1) = Stopped(n - 1)
                    /\ Is(n, "content_block_stop") =>
                         wire[n].index \in Started(n - 1) \ Stopped(n - 1)
                    /\ Is(n, "content_block_delta") =>
                         /\ \E m \in Starts(n) :
                              wire[m].index = wire[n].index /\ wire[m].kind = wire[n].kind
                         /\ wire[n].kind # "tool_use" => wire[n].index \notin Stopped(n)
  BY Zenon DEF OneBlockAtATime
<1> DEFINE w == SubSeq(wire, 1, n - 1)
<1>2. Fits(w, wire[n])
  BY <1>1 DEF Protocol
<1>3. /\ Starts(n - 1) = Begun(w) /\ Started(n - 1) = StartedIn(w)
      /\ Stopped(n - 1) = StoppedIn(w)
      /\ \A m \in Begun(w) : w[m] = wire[m] /\ m \in Starts(n)
      /\ ~Is(n, "content_block_stop") => Stopped(n) = Stopped(n - 1)
  BY <1>1, PrefixTells
<1> HIDE DEF w
<1>4. CASE Is(n, "content_block_start")
  <2>1. wire[n].type = "content_block_start"
    BY <1>4 DEF Is
  <2>2. QED
    BY <1>2, <1>3, <2>1 DEF Fits, Is
<1>5. CASE Is(n, "content_block_stop")
  <2>1. wire[n].type = "content_block_stop"
    BY <1>5 DEF Is
  <2>2. QED
    BY <1>2, <1>3, <2>1 DEF Fits, Is
<1>6. CASE Is(n, "content_block_delta")
  <2>1. wire[n].type = "content_block_delta" /\ ~Is(n, "content_block_stop")
    BY <1>6 DEF Is
  <2>2. /\ <<wire[n].index, wire[n].kind>> \in KindsIn(w)
        /\ wire[n].kind # "tool_use" => wire[n].index \notin StoppedIn(w)
    BY <1>2, <2>1 DEF Fits
  <2>3. PICK m \in Begun(w) : <<wire[n].index, wire[n].kind>> = <<w[m].index, w[m].kind>>
    BY <2>2 DEF KindsIn
  <2>4. m \in Starts(n) /\ wire[m].index = wire[n].index /\ wire[m].kind = wire[n].kind
    BY <1>3, <2>3
  <2>5. QED
    BY <1>3, <2>1, <2>2, <2>4 DEF Is
<1>7. QED
  BY <1>4, <1>5, <1>6

LEMMA ClosesAtEnd == ASSUME IInv PROVE EndsClosed
<1>1. wire \in Seq(Event) /\ Protocol(wire) /\ Len(wire) \in Nat /\ DOMAIN wire = 1 .. Len(wire)
  BY DEF IInv, Types, Sound
<1> SUFFICES ASSUME NEW n \in DOMAIN wire
             PROVE  /\ Is(n, "message_start") => n = 1
                    /\ Is(n, "error") => n = Len(wire)
                    /\ Is(n, "message_stop") =>
                         /\ n = Len(wire)
                         /\ Is(1, "message_start")
                         /\ Started(n) # {} /\ Started(n) = Stopped(n)
  BY Zenon DEF EndsClosed
<1> DEFINE w == SubSeq(wire, 1, n - 1)
<1>2. Fits(w, wire[n])
  BY <1>1 DEF Protocol
<1>3. /\ Started(n - 1) = StartedIn(w) /\ Stopped(n - 1) = StoppedIn(w)
      /\ w = <<>> => n = 1
      /\ w # <<>> => w[1] = wire[1]
      /\ ~Is(n, "content_block_start") => Started(n) = Started(n - 1)
      /\ ~Is(n, "content_block_stop") => Stopped(n) = Stopped(n - 1)
  BY <1>1, PrefixTells
<1> HIDE DEF w
<1>4. Is(n, "error") \/ Is(n, "message_stop") => n = Len(wire)
  <2> SUFFICES ASSUME Is(n, "error") \/ Is(n, "message_stop"), n # Len(wire) PROVE FALSE
    OBVIOUS
  <2> DEFINE z == SubSeq(wire, 1, Len(wire) - 1)
  <2>1. Len(wire) \in DOMAIN wire /\ n \in 1 .. Len(wire) - 1
    BY <1>1
  <2>2. ~Over(z)
    BY <1>1, <2>1 DEF Protocol, Fits
  <2>3. DOMAIN z = 1 .. Len(wire) - 1 /\ z[n] = wire[n]
    BY <1>1, <2>1
  <2> HIDE DEF z
  <2>4. QED
    BY <2>1, <2>2, <2>3 DEF Over, Is
<1>5. Is(n, "message_start") => n = 1
  BY <1>2, <1>3 DEF Fits, Is
<1>6. CASE Is(n, "message_stop")
  <2>1. wire[n].type = "message_stop"
    BY <1>6 DEF Is
  <2>2. /\ w # <<>> /\ w[1].type = "message_start"
        /\ StartedIn(w) # {} /\ StartedIn(w) = StoppedIn(w)
    BY <1>2, <2>1 DEF Fits
  <2>3. ~Is(n, "content_block_start") /\ ~Is(n, "content_block_stop")
    BY <2>1 DEF Is
  <2>4. QED
    BY <1>3, <1>4, <1>5, <2>2, <2>3 DEF Is
<1>7. QED
  BY <1>4, <1>5, <1>6

(* The caller follows one block at a time, whatever the provider sends:    *)
(* openBlock and closeOpenBlock keep exactly one block open, and a delta   *)
(* of text or thinking goes to it.                                         *)
THEOREM CallerFollows == Spec => []OneBlockAtATime
<1>1. IInv => OneBlockAtATime
  BY FollowsOne
<1>2. QED
  BY <1>1, StateIsSound, PTL

(* A message ends once and closed: nothing follows an error or the         *)
(* message_stop that [DONE] makes, and that one leaves no block open.      *)
THEOREM MessageEndsClosed == Spec => []EndsClosed
<1>1. IInv => EndsClosed
  BY ClosesAtEnd
<1>2. QED
  BY <1>1, StateIsSound, PTL
-----------------------------------------------------------------------------
(* Up to the first finish reason the calls own their blocks, and the slots *)
(* stand for them as long as there is more to come.                        *)
CallsOwn == \E own : Owned(own, wire, Named(heard), GivenIn(heard))
ArgumentsInv ==
  finish = None =>
    IF state.completed THEN CallsOwn ELSE Kept(state.toolSlots, wire, heard)

LEMMA ArgumentsFirst == Init => ArgumentsInv
<1> SUFFICES ASSUME Init PROVE ArgumentsInv
  OBVIOUS
<1>1. wire = <<>> /\ heard = <<>> /\ state.toolSlots = [i \in Indices |-> None]
      /\ state.completed = FALSE
  BY DEF Init
<1>2. Blocks(wire) = {} /\ Named(heard) = {}
  BY <1>1 DEF Blocks, Named
<1> DEFINE own == [b \in {} |-> 0]
<1>3. Owned(own, wire, Named(heard), GivenIn(heard))
  BY <1>2 DEF Owned
<1>4. Placed(state.toolSlots, heard, own)
  BY <1>1 DEF Placed
<1>5. Kept(state.toolSlots, wire, heard)
  BY <1>3, <1>4 DEF Kept
<1>6. QED
  BY <1>1, <1>5 DEF ArgumentsInv

LEMMA ArgumentsChunk ==
  ASSUME IInv, ArgumentsInv, NEW calls \in Calls, NEW thinks \in BOOLEAN,
         NEW says \in BOOLEAN, NEW finishes \in BOOLEAN,
         HearChunk(thinks, says, calls, finishes)
  PROVE  ArgumentsInv'
<1> DEFINE begun == Begin(Fresh)
           thought == IF thinks THEN Think(begun) ELSE begun
           said == IF says THEN Say(thought) ELSE thought
           called == CallAll(said, calls, Len(heard))
           last == IF finishes THEN Finish(called) ELSE called
<1>1. ~state.completed /\ heard \in Seq(Piece) /\ Len(heard) \in Nat
  BY DEF HearChunk, Finished, IInv, Types
<1>2. IInv'
  BY ChunkKeeps
<1>3. /\ state' = last.state /\ wire' = Written(last) /\ heard' = heard \o calls
      /\ finish' = IF finishes /\ finish = None THEN Len(heard') ELSE finish
  BY DEF HearChunk, Sends, Written
<1>4. CASE finishes \/ finish # None
  <2>1. Len(heard') \in Nat
    BY <1>2 DEF IInv, Types
  <2>2. finish' # None
    BY <1>3, <1>4, <2>1, DataAssumption
  <2>3. QED
    BY <2>2 DEF ArgumentsInv
<1>5. CASE ~finishes /\ finish = None
  <2>1. last = called /\ Kept(state.toolSlots, wire, heard)
    BY <1>1, <1>5 DEF ArgumentsInv
  <2>2. /\ Going(begun) /\ begun.state.toolSlots = state.toolSlots
        /\ ~begun.state.completed /\ Alike(wire, Written(begun))
    BY <1>1, BeginGoes
  <2> HIDE DEF begun, last
  <2>3. Kept(begun.state.toolSlots, Written(begun), heard)
    BY <2>1, <2>2, KeptStays
  <2>4. Going(thought) /\ Kept(thought.state.toolSlots, Written(thought), heard)
        /\ ~thought.state.completed
    <3>1. CASE thinks
      <4>1. /\ Going(Think(begun)) /\ Think(begun).state.toolSlots = begun.state.toolSlots
            /\ Alike(Written(begun), Written(Think(begun)))
            /\ Think(begun).state.completed = begun.state.completed
        BY <2>2, ThinkGoes
      <4>2. QED
        BY <2>2, <2>3, <3>1, <4>1, KeptStays
    <3>2. CASE ~thinks
      BY <2>2, <2>3, <3>2
    <3>3. QED
      BY <3>1, <3>2
  <2> HIDE DEF thought
  <2>5. Going(said) /\ Kept(said.state.toolSlots, Written(said), heard)
        /\ ~said.state.completed
    <3>1. CASE says
      <4>1. /\ Going(Say(thought)) /\ Say(thought).state.toolSlots = thought.state.toolSlots
            /\ Alike(Written(thought), Written(Say(thought)))
            /\ Say(thought).state.completed = thought.state.completed
        BY <2>4, SayGoes
      <4>2. QED
        BY <2>4, <3>1, <4>1, KeptStays
    <3>2. CASE ~says
      BY <2>4, <3>2
    <3>3. QED
      BY <3>1, <3>2
  <2> HIDE DEF said
  <2>6. Kept(called.state.toolSlots, Written(called), heard \o calls)
    BY <1>1, <2>5, CallAllKept
  <2>7. called.state.completed = said.state.completed
    BY <1>1, <2>5, CallAllGoes
  <2> HIDE DEF called
  <2>8. Kept(state'.toolSlots, wire', heard') /\ ~state'.completed
    BY <1>3, <2>1, <2>5, <2>6, <2>7
  <2>9. QED
    BY <2>8 DEF ArgumentsInv
<1>6. QED
  BY <1>4, <1>5

(* An ending puts nothing more into the blocks.                            *)
LEMMA EndingAlike ==
  ASSUME IInv, HearError \/ HearDone
  PROVE  Alike(wire, wire') /\ state'.completed
<1>1. /\ Types /\ state \in StreamState /\ wire \in Seq(Event) /\ Sound(state, wire)
      /\ ~Over(wire)
  BY DEF IInv, Types, HearError, HearDone, Finished
<1>2. Fresh \in InProgress /\ Fresh.state = state /\ Written(Fresh) = wire
  BY <1>1, FreshWrites
<1>3. CASE HearError
  <2> DEFINE e == [type |-> "error"]
             b == [Fresh EXCEPT !.state.completed = TRUE]
  <2>1. e \in Event /\ e.type = "error"
    BY EventTypes
  <2>2. state' = Emit(b, e).state /\ wire' = Written(Emit(b, e))
    BY <1>3 DEF HearError, Sends, Written
  <2> HIDE DEF Fresh, e
  <2>3. b \in InProgress /\ b.events = Fresh.events /\ b.state.completed
    BY <1>1, <1>2 DEF InProgress, StreamState
  <2> HIDE DEF b
  <2>4. Written(b) = wire
    BY <1>2, <2>3 DEF Written
  <2>5. Emit(b, e).state = b.state /\ Written(Emit(b, e)) = Append(wire, e)
    BY <1>1, <2>1, <2>3, <2>4, EmitWrites
  <2>6. Alike(wire, Append(wire, e))
    BY <1>1, <2>1, QuietAlike
  <2>7. QED
    BY <2>2, <2>3, <2>5, <2>6
<1>4. CASE HearDone
  <2>1. state.hasStarted /\ state' = Complete(Fresh).state /\ wire' = Written(Complete(Fresh))
    BY <1>4 DEF HearDone, Sends, Written
  <2> HIDE DEF Fresh
  <2>2. Going(Fresh)
    BY <1>1, <1>2, <2>1 DEF Going, Adding
  <2>3. /\ Complete(Fresh).state.completed
        /\ Alike(Written(Fresh), Written(Complete(Fresh)))
    BY <2>2, CompleteEnds
  <2>4. QED
    BY <1>2, <2>1, <2>3
<1>5. QED
  BY <1>3, <1>4

LEMMA ArgumentsEnd ==
  ASSUME IInv, ArgumentsInv, HearError \/ HearDone
  PROVE  ArgumentsInv'
<1>1. /\ ~state.completed /\ finish' = finish /\ heard' = heard
  BY DEF HearError, HearDone, Finished
<1>2. Alike(wire, wire') /\ state'.completed
  BY EndingAlike
<1>3. ASSUME finish = None PROVE \E own : Owned(own, wire', Named(heard), GivenIn(heard))
  <2>1. PICK own : Owned(own, wire, Named(heard), GivenIn(heard))
    BY <1>1, <1>3 DEF ArgumentsInv, Kept
  <2>2. Owned(own, wire', Named(heard), GivenIn(heard))
    BY <1>2, <2>1, OwnedStays
  <2>3. QED
    BY <2>2
<1>4. QED
  BY <1>1, <1>2, <1>3 DEF ArgumentsInv, CallsOwn

LEMMA OwnedIsKept == ASSUME IInv, ArgumentsInv PROVE ArgumentsKept
<1> SUFFICES ASSUME finish = None
             PROVE  \E own \in [Named(heard) -> Blocks(wire)] :
                      /\ \A i \in Blocks(wire) : \E b \in Named(heard) : own[b] = i
                      /\ \A b, c \in Named(heard) : own[b] = own[c] => b = c
                      /\ \A b \in Named(heard) : Holds(wire, own[b], Given(heard, b))
  BY DEF ArgumentsKept
<1>1. PICK own : Owned(own, wire, Named(heard), GivenIn(heard))
  BY DEF ArgumentsInv, Kept, CallsOwn
<1>2. \A b \in Named(heard) : GivenIn(heard)[b] = Given(heard, b)
  <2>1. Named(heard) \subseteq Nat
    BY DEF IInv, Types, Named
  <2>2. QED
    BY <2>1 DEF GivenIn
<1>3. /\ own \in [Named(heard) -> Blocks(wire)]
      /\ \A i \in Blocks(wire) : \E b \in Named(heard) : own[b] = i
      /\ \A b, c \in Named(heard) : own[b] = own[c] => b = c
      /\ \A b \in Named(heard) : Holds(wire, own[b], Given(heard, b))
  BY <1>1, <1>2 DEF Owned
<1>4. QED
  BY <1>3

(* However the pieces of tool calls interleave, and whenever their names   *)
(* come, up to the first finish reason each named call has one block with  *)
(* all its arguments, once and in order: toolSlots finds the call a piece  *)
(* is of, and pendingArgs keeps what came before the call's name.          *)
THEOREM ArgumentsAreKept == Spec => []ArgumentsKept
<1>1. Init => ArgumentsInv
  BY ArgumentsFirst
<1>2. IInv /\ ArgumentsInv /\ [Next]_vars => ArgumentsInv'
  <2> SUFFICES ASSUME IInv, ArgumentsInv, [Next]_vars PROVE ArgumentsInv'
    OBVIOUS
  <2>1. ASSUME NEW calls \in Calls, NEW thinks \in BOOLEAN, NEW says \in BOOLEAN,
               NEW finishes \in BOOLEAN, HearChunk(thinks, says, calls, finishes)
        PROVE  ArgumentsInv'
    BY <2>1, ArgumentsChunk
  <2>2. CASE HearError \/ HearDone
    BY <2>2, ArgumentsEnd
  <2>3. CASE UNCHANGED vars
    BY <2>3 DEF vars, ArgumentsInv, CallsOwn
  <2>4. QED
    BY <2>1, <2>2, <2>3 DEF Next
<1>3. IInv /\ ArgumentsInv => ArgumentsKept
  BY OwnedIsKept
<1>4. QED
  BY <1>1, <1>2, <1>3, StateIsSound, PTL DEF Spec
=============================================================================
