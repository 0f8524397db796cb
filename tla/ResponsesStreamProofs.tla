----------------------- MODULE ResponsesStreamProofs ------------------------
(***************************************************************************)
(* What is proved of ResponsesStream, for any indices a provider gives its *)
(* tool calls and any number of things said: the events are numbered       *)
(* without a gap, a response ends once, items are added before and done    *)
(* after everything said of them, what ends them repeats what was streamed *)
(* of them, and a completed response leaves none of them open or out.      *)
(***************************************************************************)
EXTENDS ResponsesStream, TLAPS

Kinds ==
  {"created", "in_progress", "item_added", "part_added", "delta", "text_done",
   "part_done", "args_done", "item_done", "completed", "failed", "error"}
Item == {"reasoning", "text", "call"} \X Nat \X Nat
ToolCall == [index : Indices, item : Item, arguments : Seq(Nat)]
Output == [item : Item, text : Seq(Nat)]
Status == {"in_progress", "completed", "failed"}
Report == [status : Status, output : Seq(Output)]
StreamState ==
  [hasStarted : BOOLEAN, completed : BOOLEAN, sequenceNumber : Nat,
   hasEmittedReasoningItem : BOOLEAN, accumulatedReasoningText : Seq(Nat),
   hasEmittedTextOutputItem : BOOLEAN, accumulatedText : Seq(Nat),
   toolCalls : Seq(ToolCall), finishReason : {None, "stop", "length"}]
Event ==
  [type : Kinds, about : Item \cup {None}, body : Seq(Nat) \cup Report, seq : Nat]
InProgress == [state : StreamState, events : Seq(Event)]

-----------------------------------------------------------------------------
(* What a caller who has read w knows: the items added, those done, and    *)
(* whether the response has ended or is about to fail.                     *)
AboutIn(w) == {w[m].about : m \in DOMAIN w} \ {None}
DoneIn(w) == {w[m].about : m \in {k \in DOMAIN w : w[k].type = "item_done"}}
Ended(w) == \E m \in DOMAIN w : w[m].type \in {"completed", "failed"}
Failing(w) == \E m \in DOMAIN w : w[m].type = "error"

AddedIn(w) == {w[m].about : m \in {k \in DOMAIN w : w[k].type = "item_added"}}
DeltasIn(w, item) ==
  {w[m].seq : m \in {k \in DOMAIN w : w[k].type = "delta" /\ w[k].about = item}}

(* The calls whose index no later one took over: the events number them.   *)
LatestIn(w) ==
  {x \in AddedIn(w) :
     x[1] = "call" /\ \A y \in AddedIn(w) : y[1] = "call" /\ y[2] = x[2] => y[3] <= x[3]}

(* Whether e says no more and no less than what was streamed: an item is   *)
(* known for what it is, what ends it repeats its deltas, and so does the  *)
(* report, which leaves out nothing of a completed response.               *)
Adds(w, e) ==
  e.type = "item_added" =>
    /\ e.about # None
    /\ e.about[1] = "text" => e.about = TextItem
    /\ e.about[1] = "call" => e.about[3] = Len(w)

Repeats(w, e) ==
  /\ e.type \in {"text_done", "part_done", "args_done", "item_done"} =>
       InOrder(e.body, DeltasIn(w, e.about))
  /\ e.type \in {"completed", "failed"} =>
       \A i \in DOMAIN e.body.output :
         InOrder(e.body.output[i].text, DeltasIn(w, e.body.output[i].item))

Completes(w, e) ==
  e.type = "completed" =>
    \A x \in AddedIn(w) :
      x[1] = "text" \/ x \in LatestIn(w) =>
        /\ x \in DoneIn(w)
        /\ \E i \in DOMAIN e.body.output : e.body.output[i].item = x

Says(w, e) == Adds(w, e) /\ Repeats(w, e) /\ Completes(w, e)

(* Whether that caller can be sent e next.                                 *)
Fits(w, e) ==
  /\ e.seq = Len(w)
  /\ ~Ended(w)
  /\ Failing(w) => e.type = "failed"
  /\ e.type = "failed" => Len(w) > 1 /\ w[Len(w)].type = "error"
  /\ e.type = "created" <=> w = <<>> /\ e.type # "error"
  /\ e.about # None =>
       /\ e.type = "item_added" <=> e.about \notin AboutIn(w)
       /\ e.about \notin DoneIn(w)
  /\ Says(w, e)

Protocol(w) == \A n \in DOMAIN w : Fits(SubSeq(w, 1, n - 1), w[n])

(* How the adapter's state stands to the items A added in n events: it     *)
(* knows of the text and the reasoning, and each call it keeps was added,  *)
(* under its own index; an item of a call is known by an event's number.   *)
Known(s, A, n) ==
  /\ s.hasEmittedTextOutputItem <=> TextItem \in A
  /\ s.hasEmittedReasoningItem <=> Reasoning \in A
  /\ \A i \in DOMAIN s.toolCalls :
       /\ s.toolCalls[i].item \in A
       /\ s.toolCalls[i].item[1] = "call"
       /\ s.toolCalls[i].item[2] = s.toolCalls[i].index
  /\ \A i, j \in DOMAIN s.toolCalls :
       s.toolCalls[i].index = s.toolCalls[j].index => i = j
  /\ \A x \in A : x[1] = "call" => x[3] < n

(* What it keeps of them: the text, the reasoning and each call's          *)
(* arguments as they were streamed, and each call but those taken over.    *)
Keeps(s, w) ==
  /\ InOrder(s.accumulatedText, DeltasIn(w, TextItem))
  /\ InOrder(s.accumulatedReasoningText, DeltasIn(w, Reasoning))
  /\ \A i \in DOMAIN s.toolCalls :
       InOrder(s.toolCalls[i].arguments, DeltasIn(w, s.toolCalls[i].item))
  /\ \A x \in LatestIn(w) : \E i \in DOMAIN s.toolCalls : s.toolCalls[i].item = x

(* A stream that may be added to, and one that has begun no end.           *)
Running(w) == w # <<>> /\ Protocol(w) /\ ~Ended(w) /\ ~Failing(w)
Adding(s, w) ==
  /\ s \in StreamState /\ w \in Seq(Event)
  /\ s.hasStarted /\ ~s.completed
  /\ Running(w) /\ DoneIn(w) = {}
  /\ s.sequenceNumber = Len(w)
  /\ Known(s, AboutIn(w), Len(w))
  /\ Keeps(s, w)

Types == state \in StreamState /\ wire \in Seq(Event)
IInv ==
  /\ Types
  /\ Protocol(wire)
  /\ ~state.completed =>
       IF state.hasStarted THEN Adding(state, wire)
       ELSE /\ wire = <<>> /\ state.sequenceNumber = 0
            /\ Known(state, {}, 0) /\ Keeps(state, <<>>)
  /\ state.completed =>
       IF state.hasStarted
       THEN wire # <<>> /\ wire[Len(wire)].type \in {"completed", "failed"}
       ELSE Len(wire) = 1

-----------------------------------------------------------------------------
LEMMA NoneIsNoItem == None \notin Item /\ None \notin Nat
BY DataAssumption DEF Item

LEMMA ItemTypes ==
  /\ Reasoning \in Item /\ TextItem \in Item /\ Reasoning # TextItem
  /\ \A i \in Indices, n \in Nat :
       /\ CallItem(i, n) \in Item
       /\ CallItem(i, n)[1] = "call" /\ CallItem(i, n)[2] = i /\ CallItem(i, n)[3] = n
       /\ CallItem(i, n) # TextItem /\ CallItem(i, n) # Reasoning
BY DataAssumption DEF Reasoning, TextItem, CallItem, Item

LEMMA SnapshotType ==
  ASSUME NEW s \in StreamState, NEW status \in Status, NEW includes \in BOOLEAN
  PROVE  Snapshot(s, status, includes) \in Report
<1> DEFINE thought == IF s.accumulatedReasoningText # <<>>
                      THEN <<[item |-> Reasoning, text |-> s.accumulatedReasoningText]>>
                      ELSE <<>>
           said == IF s.hasEmittedTextOutputItem
                   THEN <<[item |-> TextItem, text |-> s.accumulatedText]>> ELSE <<>>
           called == [i \in DOMAIN s.toolCalls |->
                        [item |-> s.toolCalls[i].item, text |-> s.toolCalls[i].arguments]]
<1>1. /\ s.accumulatedReasoningText \in Seq(Nat) /\ s.accumulatedText \in Seq(Nat)
      /\ s.toolCalls \in Seq(ToolCall)
  BY DEF StreamState
<1>2. thought \in Seq(Output)
  <2>1. [item |-> Reasoning, text |-> s.accumulatedReasoningText] \in Output
    BY <1>1, ItemTypes DEF Output
  <2>2. QED
    BY <2>1
<1>3. said \in Seq(Output)
  <2>1. [item |-> TextItem, text |-> s.accumulatedText] \in Output
    BY <1>1, ItemTypes DEF Output
  <2>2. QED
    BY <2>1
<1>4. called \in Seq(Output)
  <2>1. Len(s.toolCalls) \in Nat /\ DOMAIN s.toolCalls = 1 .. Len(s.toolCalls)
    BY <1>1
  <2>2. ASSUME NEW i \in DOMAIN s.toolCalls
        PROVE  [item |-> s.toolCalls[i].item, text |-> s.toolCalls[i].arguments] \in Output
    <3>1. s.toolCalls[i] \in ToolCall
      BY <1>1
    <3>2. QED
      BY <3>1 DEF ToolCall, Output
  <2>3. QED
    BY <2>1, <2>2
<1>5. Snapshot(s, status, includes) =
        [status |-> status, output |-> IF ~includes THEN <<>> ELSE thought \o said \o called]
  BY DEF Snapshot
<1> HIDE DEF thought, said, called
<1>6. thought \o said \o called \in Seq(Output) /\ <<>> \in Seq(Output)
  BY <1>2, <1>3, <1>4
<1>7. QED
  BY <1>5, <1>6 DEF Report

(* What one more event tells the caller.                                   *)
LEMMA AppendTells ==
  ASSUME NEW w \in Seq(Event), NEW e \in Event
  PROVE  LET v == Append(w, e) IN
         /\ v \in Seq(Event) /\ v # <<>> /\ Len(v) = Len(w) + 1 /\ v[Len(v)] = e
         /\ AboutIn(v) = IF e.about = None THEN AboutIn(w) ELSE AboutIn(w) \cup {e.about}
         /\ DoneIn(v) = IF e.type = "item_done" THEN DoneIn(w) \cup {e.about} ELSE DoneIn(w)
         /\ Ended(v) <=> Ended(w) \/ e.type \in {"completed", "failed"}
         /\ Failing(v) <=> Failing(w) \/ e.type = "error"
<1> DEFINE v == Append(w, e)
<1>1. /\ v \in Seq(Event) /\ v # <<>> /\ Len(v) = Len(w) + 1 /\ Len(w) \in Nat
      /\ DOMAIN w = 1 .. Len(w) /\ DOMAIN v = 1 .. Len(w) + 1
      /\ v[Len(w) + 1] = e /\ \A m \in 1 .. Len(w) : v[m] = w[m]
  OBVIOUS
<1> HIDE DEF v
<1>2. \A m : m \in DOMAIN v <=> m \in DOMAIN w \/ m = Len(w) + 1
  BY <1>1
<1>3. \A m \in DOMAIN w : v[m] = w[m] /\ m # Len(w) + 1
  BY <1>1
<1>4. AboutIn(v) = IF e.about = None THEN AboutIn(w) ELSE AboutIn(w) \cup {e.about}
  BY <1>1, <1>2, <1>3 DEF AboutIn
<1>5. DoneIn(v) = IF e.type = "item_done" THEN DoneIn(w) \cup {e.about} ELSE DoneIn(w)
  BY <1>1, <1>2, <1>3 DEF DoneIn
<1>6. Ended(v) <=> Ended(w) \/ e.type \in {"completed", "failed"}
  BY <1>1, <1>2, <1>3 DEF Ended
<1>7. Failing(v) <=> Failing(w) \/ e.type = "error"
  BY <1>1, <1>2, <1>3 DEF Failing
<1>8. QED
  BY <1>1, <1>4, <1>5, <1>6, <1>7 DEF v

(* An event that fits keeps the protocol.                                  *)
LEMMA AppendFits ==
  ASSUME NEW w \in Seq(Event), NEW e \in Event, Protocol(w), Fits(w, e)
  PROVE  Protocol(Append(w, e))
<1> DEFINE v == Append(w, e)
<1>1. /\ Len(w) \in Nat /\ DOMAIN w = 1 .. Len(w) /\ DOMAIN v = 1 .. Len(w) + 1
      /\ v[Len(w) + 1] = e /\ \A m \in 1 .. Len(w) : v[m] = w[m]
      /\ Len(v) = Len(w) + 1
  OBVIOUS
<1>2. \A n \in DOMAIN v : SubSeq(v, 1, n - 1) = SubSeq(w, 1, n - 1)
  BY <1>1
<1>3. SubSeq(w, 1, Len(w)) = w
  BY <1>1
<1> SUFFICES ASSUME NEW n \in DOMAIN v PROVE Fits(SubSeq(v, 1, n - 1), v[n])
  BY DEF Protocol
<1>4. CASE n = Len(w) + 1
  <2>1. SubSeq(v, 1, n - 1) = w /\ v[n] = e
    BY <1>1, <1>2, <1>3, <1>4
  <2>2. QED
    BY <2>1
<1>5. CASE n # Len(w) + 1
  <2>1. n \in DOMAIN w /\ v[n] = w[n]
    BY <1>1, <1>5
  <2>2. QED
    BY <1>2, <2>1 DEF Protocol
<1>6. QED
  BY <1>4, <1>5

(* What one more event adds to the items and to what is streamed of them.  *)
LEMMA AppendAdds ==
  ASSUME NEW w \in Seq(Event), NEW e \in Event
  PROVE  /\ AddedIn(Append(w, e)) =
              IF e.type = "item_added" THEN AddedIn(w) \cup {e.about} ELSE AddedIn(w)
         /\ \A item : DeltasIn(Append(w, e), item) =
              IF e.type = "delta" /\ e.about = item THEN DeltasIn(w, item) \cup {e.seq}
              ELSE DeltasIn(w, item)
<1> DEFINE v == Append(w, e)
<1>1. /\ Len(w) \in Nat /\ DOMAIN w = 1 .. Len(w) /\ DOMAIN v = 1 .. Len(w) + 1
      /\ v[Len(w) + 1] = e /\ \A m \in 1 .. Len(w) : v[m] = w[m]
  OBVIOUS
<1> HIDE DEF v
<1>2. \A m : m \in DOMAIN v <=> m \in DOMAIN w \/ m = Len(w) + 1
  BY <1>1
<1>3. \A m \in DOMAIN w : v[m] = w[m] /\ m # Len(w) + 1
  BY <1>1
<1>4. AddedIn(v) = IF e.type = "item_added" THEN AddedIn(w) \cup {e.about} ELSE AddedIn(w)
  BY <1>1, <1>2, <1>3 DEF AddedIn
<1>5. ASSUME NEW item
      PROVE  DeltasIn(v, item) =
               IF e.type = "delta" /\ e.about = item THEN DeltasIn(w, item) \cup {e.seq}
               ELSE DeltasIn(w, item)
  BY <1>1, <1>2, <1>3 DEF DeltasIn
<1>6. QED
  BY <1>4, <1>5 DEF v

(* An added item is known for what it is, a call by its event's number.    *)
LEMMA AddedTold ==
  ASSUME NEW w \in Seq(Event), Protocol(w), NEW m \in DOMAIN w, w[m].type = "item_added"
  PROVE  /\ w[m].about \in Item
         /\ w[m].about[1] = "text" => w[m].about = TextItem
         /\ w[m].about[1] = "call" => w[m].about[3] = m - 1
<1>1. Fits(SubSeq(w, 1, m - 1), w[m])
  BY DEF Protocol
<1>2. Len(SubSeq(w, 1, m - 1)) = m - 1
  OBVIOUS
<1>3. w[m].about \in Item \cup {None}
  <2>1. w[m] \in Event
    OBVIOUS
  <2>2. QED
    BY <2>1 DEF Event
<1>4. QED
  BY <1>1, <1>2, <1>3 DEF Fits, Says, Adds

(* What has been streamed is numbered, and is of items that were added.    *)
LEMMA DeltasAreEarlier ==
  ASSUME NEW w \in Seq(Event), Protocol(w)
  PROVE  /\ \A item : DeltasIn(w, item) \subseteq {k \in Nat : k < Len(w)}
         /\ \A item : item # None /\ item \notin AboutIn(w) => DeltasIn(w, item) = {}
         /\ AddedIn(w) \subseteq AboutIn(w)
<1>1. /\ Len(w) \in Nat /\ DOMAIN w = 1 .. Len(w)
  OBVIOUS
<1>2. ASSUME NEW m \in DOMAIN w
      PROVE  /\ w[m].seq \in Nat /\ w[m].seq < Len(w)
             /\ w[m].type = "item_added" => w[m].about # None
  <2>1. Fits(SubSeq(w, 1, m - 1), w[m])
    BY DEF Protocol
  <2>2. Len(SubSeq(w, 1, m - 1)) = m - 1 /\ m - 1 \in Nat /\ m - 1 < Len(w)
    BY <1>1
  <2>3. QED
    BY <2>1, <2>2 DEF Fits, Says, Adds
<1>3. \A item : DeltasIn(w, item) \subseteq {k \in Nat : k < Len(w)}
  BY <1>2 DEF DeltasIn
<1>4. \A item : item # None /\ item \notin AboutIn(w) => DeltasIn(w, item) = {}
  BY DEF DeltasIn, AboutIn
<1>5. AddedIn(w) \subseteq AboutIn(w)
  BY <1>2 DEF AddedIn, AboutIn
<1>6. QED
  BY <1>3, <1>4, <1>5

LEMMA NothingInOrder == InOrder(<<>>, {})
BY DEF InOrder

(* A fragment later than all there are comes behind them.                  *)
LEMMA NextInOrder ==
  ASSUME NEW s \in Seq(Nat), NEW S, InOrder(s, S), NEW n \in Nat, \A x \in S : x < n
  PROVE  InOrder(Append(s, n), S \cup {n})
<1> DEFINE t == Append(s, n)
<1>1. /\ Len(s) \in Nat /\ DOMAIN s = 1 .. Len(s) /\ DOMAIN t = 1 .. Len(s) + 1
      /\ t[Len(s) + 1] = n /\ \A i \in 1 .. Len(s) : t[i] = s[i] /\ s[i] \in Nat
  OBVIOUS
<1> HIDE DEF t
<1>2. \A i : i \in DOMAIN t <=> i \in DOMAIN s \/ i = Len(s) + 1
  BY <1>1
<1>3. {t[i] : i \in DOMAIN t} = {s[i] : i \in DOMAIN s} \cup {n}
  BY <1>1, <1>2
<1>4. ASSUME NEW i \in DOMAIN t, NEW j \in DOMAIN t, i < j PROVE t[i] < t[j]
  <2>1. i \in DOMAIN s /\ t[i] = s[i]
    BY <1>1, <1>4
  <2>2. CASE j \in DOMAIN s
    BY <1>1, <1>4, <2>1, <2>2 DEF InOrder
  <2>3. CASE j = Len(s) + 1
    BY <1>1, <2>1, <2>3 DEF InOrder
  <2>4. QED
    BY <1>2, <2>2, <2>3
<1>5. QED
  BY <1>3, <1>4 DEF InOrder, t

(* What a report lists: all the state keeps, as it was streamed.           *)
LEMMA JoinedOutputs ==
  ASSUME NEW s \in Seq(Output), NEW t \in Seq(Output)
  PROVE  /\ s \o t \in Seq(Output)
         /\ \A x : (\E i \in DOMAIN (s \o t) : (s \o t)[i] = x) <=>
                     \/ \E i \in DOMAIN s : s[i] = x
                     \/ \E i \in DOMAIN t : t[i] = x
<1> DEFINE v == s \o t
<1>1. /\ v \in Seq(Output) /\ Len(s) \in Nat /\ Len(t) \in Nat
      /\ DOMAIN s = 1 .. Len(s) /\ DOMAIN t = 1 .. Len(t)
      /\ DOMAIN v = 1 .. Len(s) + Len(t)
      /\ \A i \in 1 .. Len(s) : v[i] = s[i]
      /\ \A i \in 1 .. Len(t) : v[Len(s) + i] = t[i]
  OBVIOUS
<1> HIDE DEF v
<1>2. \A i \in DOMAIN s : i \in DOMAIN v /\ v[i] = s[i]
  BY <1>1
<1>3. \A i \in DOMAIN t : Len(s) + i \in DOMAIN v /\ v[Len(s) + i] = t[i]
  BY <1>1
<1>4. ASSUME NEW i \in DOMAIN v
      PROVE  \/ i \in DOMAIN s /\ v[i] = s[i]
             \/ \E j \in DOMAIN t : v[i] = t[j]
  <2>1. CASE i <= Len(s)
    BY <1>1, <2>1
  <2>2. CASE ~(i <= Len(s))
    <3>1. i - Len(s) \in 1 .. Len(t) /\ i = Len(s) + (i - Len(s))
      BY <1>1, <2>2
    <3>2. QED
      BY <1>1, <3>1
  <2>3. QED
    BY <2>1, <2>2
<1>5. ASSUME NEW x
      PROVE  (\E i \in DOMAIN v : v[i] = x) <=>
                 \/ \E i \in DOMAIN s : s[i] = x
                 \/ \E i \in DOMAIN t : t[i] = x
  BY <1>2, <1>3, <1>4
<1>6. QED
  BY <1>1, <1>5 DEF v

LEMMA SnapshotTells ==
  ASSUME NEW s \in StreamState, NEW status, NEW w, Keeps(s, w)
  PROVE  /\ \A i \in DOMAIN Snapshot(s, status, TRUE).output :
              InOrder(Snapshot(s, status, TRUE).output[i].text,
                      DeltasIn(w, Snapshot(s, status, TRUE).output[i].item))
         /\ s.hasEmittedTextOutputItem =>
              \E i \in DOMAIN Snapshot(s, status, TRUE).output :
                Snapshot(s, status, TRUE).output[i].item = TextItem
         /\ \A j \in DOMAIN s.toolCalls :
              \E i \in DOMAIN Snapshot(s, status, TRUE).output :
                Snapshot(s, status, TRUE).output[i].item = s.toolCalls[j].item
<1> DEFINE thought == IF s.accumulatedReasoningText # <<>>
                      THEN <<[item |-> Reasoning, text |-> s.accumulatedReasoningText]>>
                      ELSE <<>>
           said == IF s.hasEmittedTextOutputItem
                   THEN <<[item |-> TextItem, text |-> s.accumulatedText]>> ELSE <<>>
           called == [i \in DOMAIN s.toolCalls |->
                        [item |-> s.toolCalls[i].item, text |-> s.toolCalls[i].arguments]]
           out == Snapshot(s, status, TRUE).output
<1>1. /\ s.accumulatedReasoningText \in Seq(Nat) /\ s.accumulatedText \in Seq(Nat)
      /\ s.toolCalls \in Seq(ToolCall)
  BY DEF StreamState
<1>2. /\ [item |-> Reasoning, text |-> s.accumulatedReasoningText] \in Output
      /\ [item |-> TextItem, text |-> s.accumulatedText] \in Output
  BY <1>1, ItemTypes DEF Output
<1>3. /\ thought \in Seq(Output)
      /\ \A i \in DOMAIN thought :
           thought[i] = [item |-> Reasoning, text |-> s.accumulatedReasoningText]
  BY <1>2
<1>4. /\ said \in Seq(Output)
      /\ \A i \in DOMAIN said : said[i] = [item |-> TextItem, text |-> s.accumulatedText]
      /\ s.hasEmittedTextOutputItem =>
           1 \in DOMAIN said /\ said[1] = [item |-> TextItem, text |-> s.accumulatedText]
  BY <1>2
<1>5. /\ called \in Seq(Output) /\ DOMAIN called = DOMAIN s.toolCalls
      /\ \A i \in DOMAIN s.toolCalls :
           called[i] = [item |-> s.toolCalls[i].item, text |-> s.toolCalls[i].arguments]
  <2>1. Len(s.toolCalls) \in Nat /\ DOMAIN s.toolCalls = 1 .. Len(s.toolCalls)
    BY <1>1
  <2>2. ASSUME NEW i \in DOMAIN s.toolCalls
        PROVE  [item |-> s.toolCalls[i].item, text |-> s.toolCalls[i].arguments] \in Output
    <3>1. s.toolCalls[i] \in ToolCall
      BY <1>1
    <3>2. QED
      BY <3>1 DEF ToolCall, Output
  <2>3. QED
    BY <2>1, <2>2
<1>6. out = (thought \o said) \o called
  BY <1>3, <1>4, <1>5 DEF Snapshot
<1> HIDE DEF thought, said, called, out
<1>7. \A x : (\E i \in DOMAIN out : out[i] = x) <=>
               \/ \E i \in DOMAIN thought : thought[i] = x
               \/ \E i \in DOMAIN said : said[i] = x
               \/ \E i \in DOMAIN called : called[i] = x
  <2> DEFINE spoken == thought \o said
  <2>1. /\ spoken \in Seq(Output)
        /\ \A x : (\E i \in DOMAIN spoken : spoken[i] = x) <=>
                    \/ \E i \in DOMAIN thought : thought[i] = x
                    \/ \E i \in DOMAIN said : said[i] = x
    BY <1>3, <1>4, JoinedOutputs
  <2>2. out = spoken \o called
    BY <1>6
  <2> HIDE DEF spoken
  <2>3. \A x : (\E i \in DOMAIN (spoken \o called) : (spoken \o called)[i] = x) <=>
                 \/ \E i \in DOMAIN spoken : spoken[i] = x
                 \/ \E i \in DOMAIN called : called[i] = x
    BY <1>5, <2>1, JoinedOutputs
  <2>4. QED
    BY <2>1, <2>2, <2>3
<1>8. ASSUME NEW i \in DOMAIN out
      PROVE  InOrder(out[i].text, DeltasIn(w, out[i].item))
  <2>1. \/ \E j \in DOMAIN thought : thought[j] = out[i]
        \/ \E j \in DOMAIN said : said[j] = out[i]
        \/ \E j \in DOMAIN called : called[j] = out[i]
    BY <1>7
  <2>2. CASE out[i] = [item |-> Reasoning, text |-> s.accumulatedReasoningText]
    BY <2>2 DEF Keeps
  <2>3. CASE out[i] = [item |-> TextItem, text |-> s.accumulatedText]
    BY <2>3 DEF Keeps
  <2>4. ASSUME NEW j \in DOMAIN s.toolCalls,
               out[i] = [item |-> s.toolCalls[j].item, text |-> s.toolCalls[j].arguments]
        PROVE  InOrder(out[i].text, DeltasIn(w, out[i].item))
    BY <2>4 DEF Keeps
  <2>5. QED
    BY <1>3, <1>4, <1>5, <2>1, <2>2, <2>3, <2>4
<1>9. s.hasEmittedTextOutputItem => \E i \in DOMAIN out : out[i].item = TextItem
  <2> SUFFICES ASSUME s.hasEmittedTextOutputItem
               PROVE  \E i \in DOMAIN out : out[i].item = TextItem
    OBVIOUS
  <2>1. PICK i \in DOMAIN out : out[i] = [item |-> TextItem, text |-> s.accumulatedText]
    BY <1>4, <1>7
  <2>2. QED
    BY <2>1
<1>10. ASSUME NEW j \in DOMAIN s.toolCalls
       PROVE  \E i \in DOMAIN out : out[i].item = s.toolCalls[j].item
  <2>1. PICK i \in DOMAIN out :
          out[i] = [item |-> s.toolCalls[j].item, text |-> s.toolCalls[j].arguments]
    BY <1>5, <1>7
  <2>2. QED
    BY <2>1
<1>11. QED
  BY <1>8, <1>9, <1>10 DEF out

LEMMA SnapshotLists ==
  ASSUME NEW s \in StreamState, NEW w, Keeps(s, w), NEW j \in DOMAIN s.toolCalls
  PROVE  \E i \in DOMAIN Snapshot(s, "completed", TRUE).output :
           Snapshot(s, "completed", TRUE).output[i].item = s.toolCalls[j].item
<1>1. \A k \in DOMAIN s.toolCalls :
        \E i \in DOMAIN Snapshot(s, "completed", TRUE).output :
          Snapshot(s, "completed", TRUE).output[i].item = s.toolCalls[k].item
  BY SnapshotTells, ZenonT(60)
<1>2. QED
  BY <1>1

(* Events that add, end and report nothing.                                *)
LEMMA SaysNothing ==
  ASSUME NEW w, NEW e,
         e.type \in {"created", "in_progress", "part_added", "delta", "error"}
  PROVE  Says(w, e)
BY DEF Says, Adds, Repeats, Completes

(* Nothing is streamed by an event of another kind, and no call is taken   *)
(* over by one that adds no call.                                          *)
LEMMA KeepsQuiet ==
  ASSUME NEW w \in Seq(Event), NEW e \in Event, e.type # "delta",
         e.type = "item_added" => e.about[1] # "call",
         NEW s, NEW t, Keeps(s, w),
         t.accumulatedText = s.accumulatedText,
         t.accumulatedReasoningText = s.accumulatedReasoningText,
         t.toolCalls = s.toolCalls
  PROVE  Keeps(t, Append(w, e))
<1> DEFINE v == Append(w, e)
<1>1. /\ AddedIn(v) = IF e.type = "item_added" THEN AddedIn(w) \cup {e.about} ELSE AddedIn(w)
      /\ \A item : DeltasIn(v, item) = DeltasIn(w, item)
  BY AppendAdds
<1> HIDE DEF v
<1>2. LatestIn(v) \subseteq LatestIn(w)
  BY <1>1 DEF LatestIn
<1>3. Keeps(t, v)
  BY <1>1, <1>2 DEF Keeps
<1>4. QED
  BY <1>3 DEF v

(* A delta is kept by the state that puts it where it belongs.             *)
LEMMA KeepsDelta ==
  ASSUME NEW w \in Seq(Event), Protocol(w), NEW e \in Event, e.type = "delta",
         e.seq = Len(w), NEW s \in StreamState, NEW t, Keeps(s, w),
         t.accumulatedText =
           IF e.about = TextItem THEN Append(s.accumulatedText, e.seq) ELSE s.accumulatedText,
         t.accumulatedReasoningText =
           IF e.about = Reasoning THEN Append(s.accumulatedReasoningText, e.seq)
           ELSE s.accumulatedReasoningText,
         DOMAIN t.toolCalls = DOMAIN s.toolCalls,
         \A i \in DOMAIN s.toolCalls :
           /\ t.toolCalls[i].item = s.toolCalls[i].item
           /\ t.toolCalls[i].arguments =
                IF e.about = s.toolCalls[i].item THEN Append(s.toolCalls[i].arguments, e.seq)
                ELSE s.toolCalls[i].arguments
  PROVE  Keeps(t, Append(w, e))
<1> DEFINE v == Append(w, e)
<1>1. /\ AddedIn(v) = AddedIn(w)
      /\ \A item : DeltasIn(v, item) =
           IF e.about = item THEN DeltasIn(w, item) \cup {e.seq} ELSE DeltasIn(w, item)
  BY AppendAdds
<1> HIDE DEF v
<1>2. LatestIn(v) = LatestIn(w)
  BY <1>1 DEF LatestIn
<1>3. e.seq \in Nat /\ \A item : \A x \in DeltasIn(w, item) : x < e.seq
  BY DeltasAreEarlier DEF Event
<1>4. ASSUME NEW old \in Seq(Nat), NEW item, InOrder(old, DeltasIn(w, item))
      PROVE  InOrder(IF e.about = item THEN Append(old, e.seq) ELSE old, DeltasIn(v, item))
  BY <1>1, <1>3, <1>4, NextInOrder
<1>5. /\ s.accumulatedText \in Seq(Nat) /\ s.accumulatedReasoningText \in Seq(Nat)
      /\ \A i \in DOMAIN s.toolCalls : s.toolCalls[i].arguments \in Seq(Nat)
  <2>1. s.accumulatedText \in Seq(Nat) /\ s.accumulatedReasoningText \in Seq(Nat)
        /\ s.toolCalls \in Seq(ToolCall)
    BY DEF StreamState
  <2>2. \A i \in DOMAIN s.toolCalls : s.toolCalls[i] \in ToolCall
    BY <2>1
  <2>3. QED
    BY <2>1, <2>2 DEF ToolCall
<1>6. InOrder(t.accumulatedText, DeltasIn(v, TextItem))
  BY <1>4, <1>5 DEF Keeps
<1>7. InOrder(t.accumulatedReasoningText, DeltasIn(v, Reasoning))
  BY <1>4, <1>5 DEF Keeps
<1>8. ASSUME NEW i \in DOMAIN t.toolCalls
      PROVE  InOrder(t.toolCalls[i].arguments, DeltasIn(v, t.toolCalls[i].item))
  <2> DEFINE old == s.toolCalls[i].arguments
             item == s.toolCalls[i].item
  <2>1. old \in Seq(Nat) /\ InOrder(old, DeltasIn(w, item))
    BY <1>5 DEF Keeps
  <2>2. InOrder(IF e.about = item THEN Append(old, e.seq) ELSE old, DeltasIn(v, item))
    BY <1>4, <2>1
  <2>3. QED
    BY <2>2
<1>9. \A x \in LatestIn(v) : \E i \in DOMAIN t.toolCalls : t.toolCalls[i].item = x
  BY <1>2 DEF Keeps
<1>10. QED
  BY <1>6, <1>7, <1>8, <1>9 DEF Keeps, v

-----------------------------------------------------------------------------
(* What the caller will have read once the call in progress has sent.      *)
Written(c) == wire \o c.events
Going(c) == wire \in Seq(Event) /\ c \in InProgress /\ Adding(c.state, Written(c))

(* Emit, in two: the event it makes, and its sending.                      *)
Made(c, type, about, body) ==
  [type |-> type, about |-> about, body |-> body, seq |-> c.state.sequenceNumber]
Send(c, e) == [c EXCEPT !.events = Append(@, e), !.state.sequenceNumber = @ + 1]

LEMMA EmitSends ==
  ASSUME NEW c, NEW type, NEW about, NEW body
  PROVE  Emit(c, type, about, body) = Send(c, Made(c, type, about, body))
BY DEF Emit, Send, Made

LEMMA CallNumbered ==
  ASSUME NEW c \in InProgress PROVE c.state.sequenceNumber \in Nat
BY DEF InProgress, StreamState

LEMMA SendWrites ==
  ASSUME wire \in Seq(Event), NEW c \in InProgress, NEW e \in Event
  PROVE  /\ Written(c) \in Seq(Event) /\ Send(c, e) \in InProgress
         /\ Written(Send(c, e)) = Append(Written(c), e)
         /\ Send(c, e).state = [c.state EXCEPT !.sequenceNumber = @ + 1]
         /\ Send(c, e).state.sequenceNumber = c.state.sequenceNumber + 1
<1> DEFINE t == [c.state EXCEPT !.sequenceNumber = @ + 1]
           d == Send(c, e)
<1>1. c.events \in Seq(Event) /\ c.state \in StreamState /\ c.state.sequenceNumber \in Nat
  BY DEF InProgress, StreamState
<1>2. Append(c.events, e) \in Seq(Event)
  BY <1>1
<1>3. t \in StreamState /\ t.sequenceNumber = c.state.sequenceNumber + 1
  <2>1. c.state.sequenceNumber + 1 \in Nat
    BY <1>1
  <2>2. QED
    BY <1>1, <2>1 DEF StreamState
<1>4. d = [c EXCEPT !.events = Append(c.events, e), !.state = t]
  BY <1>1 DEF Send, InProgress, StreamState
<1> HIDE DEF t, d
<1>5. d.events = Append(c.events, e) /\ d.state = t /\ d \in InProgress
  BY <1>1, <1>2, <1>3, <1>4 DEF InProgress
<1>6. wire \o Append(c.events, e) = Append(wire \o c.events, e) /\ wire \o c.events \in Seq(Event)
  BY <1>1, <1>2
<1>7. QED
  BY <1>3, <1>5, <1>6 DEF Written, t, d

-----------------------------------------------------------------------------
(* An event on the way, of a state that knows of what it is about.         *)
With(A, about) == IF about = None THEN A ELSE A \cup {about}

LEMMA SendGoes ==
  ASSUME NEW c, Going(c), NEW d \in InProgress, d.events = c.events,
         d.state.hasStarted, ~d.state.completed,
         d.state.sequenceNumber = c.state.sequenceNumber,
         NEW e \in Event, e.seq = d.state.sequenceNumber,
         e.type \in {"in_progress", "item_added", "part_added", "delta"},
         e.about # None => (e.type = "item_added" <=> e.about \notin AboutIn(Written(c))),
         Known(d.state, With(AboutIn(Written(c)), e.about), Len(Written(c)) + 1),
         Says(Written(c), e), Keeps(d.state, Append(Written(c), e))
  PROVE  /\ Going(Send(d, e))
         /\ AboutIn(Written(Send(d, e))) = With(AboutIn(Written(c)), e.about)
<1> DEFINE g == Send(d, e)
           w == Written(c)
           v == Append(w, e)
           A == With(AboutIn(w), e.about)
<1>1. /\ wire \in Seq(Event) /\ Adding(c.state, w) /\ w \in Seq(Event) /\ Running(w)
      /\ DoneIn(w) = {} /\ c.state.sequenceNumber = Len(w) /\ Len(w) \in Nat
      /\ d.state.sequenceNumber = Len(w)
  BY DEF Going, Adding
<1>2. Written(d) = w
  BY DEF Written
<1>3. /\ g \in InProgress /\ Written(g) = v
      /\ g.state = [d.state EXCEPT !.sequenceNumber = @ + 1]
      /\ g.state.sequenceNumber = Len(w) + 1
  BY <1>1, <1>2, SendWrites
<1> HIDE DEF g, w
<1>4. Fits(w, e)
  BY <1>1 DEF Fits, Running, w
<1>5. Protocol(v)
  BY <1>1, <1>4, AppendFits DEF Running
<1>6. /\ v \in Seq(Event) /\ v # <<>> /\ Len(v) = Len(w) + 1
      /\ AboutIn(v) = A /\ DoneIn(v) = {} /\ ~Ended(v) /\ ~Failing(v)
  BY <1>1, AppendTells DEF Running, With
<1> HIDE DEF v, A
<1>7. /\ g.state \in StreamState /\ g.state.hasStarted /\ ~g.state.completed
      /\ g.state.hasEmittedTextOutputItem = d.state.hasEmittedTextOutputItem
      /\ g.state.hasEmittedReasoningItem = d.state.hasEmittedReasoningItem
      /\ g.state.toolCalls = d.state.toolCalls
      /\ g.state.accumulatedText = d.state.accumulatedText
      /\ g.state.accumulatedReasoningText = d.state.accumulatedReasoningText
  BY <1>3 DEF InProgress, StreamState
<1>8. Known(g.state, A, Len(v))
  BY <1>6, <1>7 DEF Known, w, A
<1>9. Keeps(g.state, v)
  BY <1>7 DEF Keeps, v, w
<1>10. Adding(g.state, v)
  BY <1>3, <1>5, <1>6, <1>7, <1>8, <1>9 DEF Adding, Running
<1>11. QED
  BY <1>1, <1>3, <1>6, <1>10 DEF Going, g, A, w, v

(* What a state that may be added to knows.                                *)
LEMMA GoingKnows ==
  ASSUME NEW c, Going(c)
  PROVE  /\ AboutIn(Written(c)) \subseteq Item
         /\ \A x \in AboutIn(Written(c)) : x # None
         /\ \A x \in AboutIn(Written(c)) : x[1] = "call" => x[3] < Len(Written(c)) + 1
         /\ c \in InProgress /\ c.state \in StreamState /\ c.events \in Seq(Event)
         /\ c.state.hasStarted /\ ~c.state.completed
         /\ c.state.sequenceNumber = Len(Written(c)) /\ c.state.sequenceNumber \in Nat
         /\ Known(c.state, AboutIn(Written(c)), Len(Written(c)))
         /\ Keeps(c.state, Written(c))
         /\ Written(c) \in Seq(Event) /\ Protocol(Written(c))
<1> DEFINE w == Written(c)
<1>1. /\ c \in InProgress /\ c.state \in StreamState /\ c.events \in Seq(Event)
      /\ w \in Seq(Event) /\ Known(c.state, AboutIn(w), Len(w)) /\ Len(w) \in Nat
      /\ Keeps(c.state, w) /\ Protocol(w)
      /\ c.state.hasStarted /\ ~c.state.completed
      /\ c.state.sequenceNumber = Len(w)
  BY DEF Going, Adding, Running, InProgress
<1>2. AboutIn(w) \subseteq Item
  <2> SUFFICES ASSUME NEW m \in DOMAIN w, w[m].about # None PROVE w[m].about \in Item
    BY DEF AboutIn
  <2>1. w[m] \in Event
    BY <1>1
  <2>2. QED
    BY <2>1 DEF Event
<1> HIDE DEF w
<1>3. ASSUME NEW x \in AboutIn(w), x[1] = "call" PROVE x[3] < Len(w) + 1
  <2>1. x[3] < Len(w)
    BY <1>1, <1>3 DEF Known
  <2>2. x[3] \in Nat
    BY <1>2 DEF Item
  <2>3. QED
    BY <1>1, <2>1, <2>2
<1>4. \A x \in AboutIn(w) : x # None
  BY DEF AboutIn
<1>5. QED
  BY <1>1, <1>2, <1>3, <1>4 DEF w

(* Two states that know the same items, and the same calls but for what    *)
(* has been said in them.                                                  *)
Alike(s, t) ==
  /\ t.hasStarted = s.hasStarted /\ t.completed = s.completed
  /\ t.sequenceNumber = s.sequenceNumber
  /\ t.hasEmittedTextOutputItem = s.hasEmittedTextOutputItem
  /\ t.hasEmittedReasoningItem = s.hasEmittedReasoningItem
  /\ DOMAIN t.toolCalls = DOMAIN s.toolCalls
  /\ \A i \in DOMAIN s.toolCalls :
       /\ t.toolCalls[i].index = s.toolCalls[i].index
       /\ t.toolCalls[i].item = s.toolCalls[i].item

(* More about an item that was added.                                      *)
LEMMA MoreGoes ==
  ASSUME NEW c, Going(c), NEW d \in InProgress, d.events = c.events,
         Alike(c.state, d.state),
         NEW e \in Event, e.seq = d.state.sequenceNumber,
         e.type \in {"part_added", "delta"}, e.about \in AboutIn(Written(c)),
         Keeps(d.state, Append(Written(c), e))
  PROVE  /\ Going(Send(d, e))
         /\ AboutIn(Written(Send(d, e))) = AboutIn(Written(c))
<1> DEFINE w == Written(c)
<1>1. /\ Known(c.state, AboutIn(w), Len(w))
      /\ \A x \in AboutIn(w) : x # None
      /\ \A x \in AboutIn(w) : x[1] = "call" => x[3] < Len(w) + 1
      /\ c.state.hasStarted /\ ~c.state.completed
  BY GoingKnows
<1> HIDE DEF w
<1>2. Known(d.state, AboutIn(w), Len(w) + 1)
  <2>1. /\ d.state.hasEmittedTextOutputItem <=> TextItem \in AboutIn(w)
        /\ d.state.hasEmittedReasoningItem <=> Reasoning \in AboutIn(w)
    BY <1>1 DEF Known, Alike
  <2>2. \A i \in DOMAIN d.state.toolCalls :
          /\ d.state.toolCalls[i].item \in AboutIn(w)
          /\ d.state.toolCalls[i].item[1] = "call"
          /\ d.state.toolCalls[i].item[2] = d.state.toolCalls[i].index
    BY <1>1 DEF Known, Alike
  <2>3. \A i, j \in DOMAIN d.state.toolCalls :
          d.state.toolCalls[i].index = d.state.toolCalls[j].index => i = j
    BY <1>1 DEF Known, Alike
  <2>4. QED
    BY <1>1, <2>1, <2>2, <2>3 DEF Known
<1>3. /\ e.about # None /\ e.about \in AboutIn(w) /\ With(AboutIn(w), e.about) = AboutIn(w)
      /\ e.type \in {"in_progress", "item_added", "part_added", "delta"}
      /\ e.type # "item_added"
      /\ d.state.hasStarted /\ ~d.state.completed
      /\ d.state.sequenceNumber = c.state.sequenceNumber
  BY <1>1 DEF Alike, With, w
<1>4. /\ e.about # None => (e.type = "item_added" <=> e.about \notin AboutIn(Written(c)))
      /\ Known(d.state, With(AboutIn(Written(c)), e.about), Len(Written(c)) + 1)
  BY <1>2, <1>3 DEF w
<1>5. Says(Written(c), e)
  BY SaysNothing
<1>6. /\ Going(Send(d, e))
      /\ AboutIn(Written(Send(d, e))) = With(AboutIn(Written(c)), e.about)
  BY <1>3, <1>4, <1>5, SendGoes, Zenon
<1>7. QED
  BY <1>3, <1>6 DEF w

(* An item that was not there is added by a state that knows it then.      *)
LEMMA ItemGoes ==
  ASSUME NEW c, Going(c), NEW d \in InProgress, d.events = c.events,
         d.state.hasStarted, ~d.state.completed,
         d.state.sequenceNumber = c.state.sequenceNumber,
         NEW e \in Event, e.seq = d.state.sequenceNumber,
         e.type = "item_added", e.about # None, e.about \notin AboutIn(Written(c)),
         Known(d.state, AboutIn(Written(c)) \cup {e.about}, Len(Written(c)) + 1),
         Says(Written(c), e), Keeps(d.state, Append(Written(c), e))
  PROVE  /\ Going(Send(d, e))
         /\ AboutIn(Written(Send(d, e))) = AboutIn(Written(c)) \cup {e.about}
<1>1. With(AboutIn(Written(c)), e.about) = AboutIn(Written(c)) \cup {e.about}
  BY DEF With
<1>2. /\ e.type \in {"in_progress", "item_added", "part_added", "delta"}
      /\ e.about # None => (e.type = "item_added" <=> e.about \notin AboutIn(Written(c)))
      /\ Known(d.state, With(AboutIn(Written(c)), e.about), Len(Written(c)) + 1)
  BY <1>1
<1>3. /\ Going(Send(d, e))
      /\ AboutIn(Written(Send(d, e))) = With(AboutIn(Written(c)), e.about)
  BY <1>2, SendGoes, Zenon
<1>4. QED
  BY <1>1, <1>3

LEMMA SayGoes == ASSUME NEW c, Going(c) PROVE Going(Say(c))
<1> DEFINE a == [c EXCEPT !.state.hasEmittedTextOutputItem = TRUE]
           item == Made(a, "item_added", TextItem, <<>>)
           b == Send(a, item)
           part == Made(b, "part_added", TextItem, <<>>)
           added == IF c.state.hasEmittedTextOutputItem THEN c ELSE Send(b, part)
           n == added.state.sequenceNumber
           told == [added EXCEPT !.state.accumulatedText = Append(@, n)]
           delta == Made(told, "delta", TextItem, <<n>>)
<1>1. /\ c \in InProgress /\ c.state \in StreamState
      /\ c.state.hasStarted /\ ~c.state.completed
      /\ Known(c.state, AboutIn(Written(c)), Len(Written(c)))
      /\ \A x \in AboutIn(Written(c)) : x[1] = "call" => x[3] < Len(Written(c)) + 1
      /\ Keeps(c.state, Written(c)) /\ Written(c) \in Seq(Event)
  BY GoingKnows
<1>2. /\ TextItem \in Item \cup {None} /\ Reasoning # TextItem /\ TextItem[1] # "call"
      /\ <<>> \in Seq(Nat) \cup Report /\ TextItem # None
      /\ "item_added" \in Kinds /\ "part_added" \in Kinds /\ "delta" \in Kinds
  BY ItemTypes, NoneIsNoItem DEF TextItem, Kinds
<1>3. Going(added) /\ TextItem \in AboutIn(Written(added))
  <2>1. CASE c.state.hasEmittedTextOutputItem
    BY <1>1, <2>1 DEF Known
  <2>2. CASE ~c.state.hasEmittedTextOutputItem
    <3>1. /\ a.events = c.events /\ a.state.hasEmittedTextOutputItem
          /\ a.state.hasStarted /\ ~a.state.completed
          /\ a.state.sequenceNumber = c.state.sequenceNumber
          /\ a.state.hasEmittedReasoningItem = c.state.hasEmittedReasoningItem
          /\ a.state.toolCalls = c.state.toolCalls
          /\ a.state.accumulatedText = c.state.accumulatedText
          /\ a.state.accumulatedReasoningText = c.state.accumulatedReasoningText
      BY <1>1 DEF InProgress, StreamState
    <3>2. a \in InProgress
      BY <1>1 DEF InProgress, StreamState
    <3> HIDE DEF a
    <3>3. TextItem \notin AboutIn(Written(c))
      BY <1>1, <2>2 DEF Known
    <3>4. Known(a.state, AboutIn(Written(c)) \cup {TextItem}, Len(Written(c)) + 1)
      BY <1>1, <1>2, <3>1 DEF Known
    <3>5. /\ item \in Event /\ item.type = "item_added" /\ item.about = TextItem
          /\ item.seq = a.state.sequenceNumber
      BY <1>2, <3>2, CallNumbered DEF Made, Event
    <3> HIDE DEF item
    <3>55. Says(Written(c), item) /\ Keeps(a.state, Append(Written(c), item))
      <4>1. TextItem[1] = "text"
        BY DEF TextItem
      <4>2. Says(Written(c), item)
        BY <1>2, <3>5, <4>1 DEF Says, Adds, Repeats, Completes
      <4>3. QED
        BY <1>1, <1>2, <3>1, <3>5, <4>2, KeepsQuiet
    <3>6. Going(b) /\ AboutIn(Written(b)) = AboutIn(Written(c)) \cup {TextItem}
      BY <1>2, <3>1, <3>2, <3>3, <3>4, <3>5, <3>55, ItemGoes
    <3> HIDE DEF b
    <3>7. /\ b \in InProgress /\ Alike(b.state, b.state) /\ TextItem \in AboutIn(Written(b))
          /\ Keeps(b.state, Written(b)) /\ Written(b) \in Seq(Event)
      BY <3>6, GoingKnows DEF Alike
    <3>8. /\ part \in Event /\ part.type = "part_added" /\ part.about = TextItem
          /\ part.seq = b.state.sequenceNumber
      BY <1>2, <3>7, CallNumbered DEF Made, Event
    <3> HIDE DEF part
    <3>9. Going(Send(b, part)) /\ AboutIn(Written(Send(b, part))) = AboutIn(Written(b))
      <4>1. Keeps(b.state, Append(Written(b), part))
        BY <3>7, <3>8, KeepsQuiet
      <4>2. QED
        BY <3>6, <3>7, <3>8, <4>1, MoreGoes
    <3>10. QED
      BY <2>2, <3>7, <3>9
  <2>3. QED
    BY <2>1, <2>2
<1>4. Say(c) = Send(told, delta)
  BY EmitSends DEF Say
<1> HIDE DEF added
<1>5. /\ added \in InProgress /\ added.state \in StreamState
      /\ n \in Nat /\ n = Len(Written(added))
      /\ Keeps(added.state, Written(added))
      /\ Written(added) \in Seq(Event) /\ Protocol(Written(added))
      /\ Known(added.state, AboutIn(Written(added)), Len(Written(added)))
  BY <1>3, GoingKnows
<1>6. /\ told.events = added.events /\ Alike(added.state, told.state)
      /\ told.state.toolCalls = added.state.toolCalls
      /\ told.state.accumulatedText = Append(added.state.accumulatedText, n)
      /\ told.state.accumulatedReasoningText = added.state.accumulatedReasoningText
  BY <1>5 DEF InProgress, StreamState, Alike
<1>7. told \in InProgress
  <2>1. added.state.accumulatedText \in Seq(Nat)
    BY <1>5 DEF StreamState
  <2>2. Append(added.state.accumulatedText, n) \in Seq(Nat)
    BY <1>5, <2>1
  <2>3. QED
    BY <1>5, <2>2 DEF InProgress, StreamState
<1>8. <<n>> \in Seq(Nat) \cup Report
  BY <1>5
<1>85. told.state.sequenceNumber = n
  BY <1>6 DEF Alike
<1> HIDE DEF told, n
<1>9. /\ delta \in Event /\ delta.type = "delta" /\ delta.about = TextItem
      /\ delta.seq = told.state.sequenceNumber
  BY <1>2, <1>7, <1>8, CallNumbered DEF Made, Event
<1> HIDE DEF delta
<1>10. Keeps(told.state, Append(Written(added), delta))
  <2>1. delta.seq = n /\ Reasoning # TextItem
    BY <1>85, <1>9, ItemTypes
  <2>2. \A i \in DOMAIN added.state.toolCalls : added.state.toolCalls[i].item # TextItem
    BY <1>5 DEF Known, TextItem
  <2>3. QED
    BY <1>5, <1>6, <1>9, <2>1, <2>2, KeepsDelta
<1>11. QED
  BY <1>3, <1>4, <1>6, <1>7, <1>9, <1>10, MoreGoes

LEMMA ThinkGoes == ASSUME NEW c, Going(c) PROVE Going(Think(c))
<1> DEFINE a == [c EXCEPT !.state.hasEmittedReasoningItem = TRUE]
           item == Made(a, "item_added", Reasoning, <<>>)
           b == Send(a, item)
           part == Made(b, "part_added", Reasoning, <<>>)
           added == IF c.state.hasEmittedReasoningItem THEN c ELSE Send(b, part)
           n == added.state.sequenceNumber
           told == [added EXCEPT !.state.accumulatedReasoningText = Append(@, n)]
           delta == Made(told, "delta", Reasoning, <<n>>)
<1>1. /\ c \in InProgress /\ c.state \in StreamState
      /\ c.state.hasStarted /\ ~c.state.completed
      /\ Known(c.state, AboutIn(Written(c)), Len(Written(c)))
      /\ \A x \in AboutIn(Written(c)) : x[1] = "call" => x[3] < Len(Written(c)) + 1
      /\ Keeps(c.state, Written(c)) /\ Written(c) \in Seq(Event)
  BY GoingKnows
<1>2. /\ Reasoning \in Item \cup {None} /\ Reasoning # TextItem /\ Reasoning[1] # "call"
      /\ <<>> \in Seq(Nat) \cup Report /\ Reasoning # None
      /\ "item_added" \in Kinds /\ "part_added" \in Kinds /\ "delta" \in Kinds
  BY ItemTypes, NoneIsNoItem DEF Reasoning, Kinds
<1>3. Going(added) /\ Reasoning \in AboutIn(Written(added))
  <2>1. CASE c.state.hasEmittedReasoningItem
    BY <1>1, <2>1 DEF Known
  <2>2. CASE ~c.state.hasEmittedReasoningItem
    <3>1. /\ a.events = c.events /\ a.state.hasEmittedReasoningItem
          /\ a.state.hasStarted /\ ~a.state.completed
          /\ a.state.sequenceNumber = c.state.sequenceNumber
          /\ a.state.hasEmittedTextOutputItem = c.state.hasEmittedTextOutputItem
          /\ a.state.toolCalls = c.state.toolCalls
          /\ a.state.accumulatedText = c.state.accumulatedText
          /\ a.state.accumulatedReasoningText = c.state.accumulatedReasoningText
      BY <1>1 DEF InProgress, StreamState
    <3>2. a \in InProgress
      BY <1>1 DEF InProgress, StreamState
    <3> HIDE DEF a
    <3>3. Reasoning \notin AboutIn(Written(c))
      BY <1>1, <2>2 DEF Known
    <3>4. Known(a.state, AboutIn(Written(c)) \cup {Reasoning}, Len(Written(c)) + 1)
      BY <1>1, <1>2, <3>1 DEF Known
    <3>5. /\ item \in Event /\ item.type = "item_added" /\ item.about = Reasoning
          /\ item.seq = a.state.sequenceNumber
      BY <1>2, <3>2, CallNumbered DEF Made, Event
    <3> HIDE DEF item
    <3>55. Says(Written(c), item) /\ Keeps(a.state, Append(Written(c), item))
      <4>1. Reasoning[1] = "reasoning"
        BY DEF Reasoning
      <4>2. Says(Written(c), item)
        BY <1>2, <3>5, <4>1 DEF Says, Adds, Repeats, Completes
      <4>3. QED
        BY <1>1, <1>2, <3>1, <3>5, <4>2, KeepsQuiet
    <3>6. Going(b) /\ AboutIn(Written(b)) = AboutIn(Written(c)) \cup {Reasoning}
      BY <1>2, <3>1, <3>2, <3>3, <3>4, <3>5, <3>55, ItemGoes
    <3> HIDE DEF b
    <3>7. /\ b \in InProgress /\ Alike(b.state, b.state) /\ Reasoning \in AboutIn(Written(b))
          /\ Keeps(b.state, Written(b)) /\ Written(b) \in Seq(Event)
      BY <3>6, GoingKnows DEF Alike
    <3>8. /\ part \in Event /\ part.type = "part_added" /\ part.about = Reasoning
          /\ part.seq = b.state.sequenceNumber
      BY <1>2, <3>7, CallNumbered DEF Made, Event
    <3> HIDE DEF part
    <3>9. Going(Send(b, part)) /\ AboutIn(Written(Send(b, part))) = AboutIn(Written(b))
      <4>1. Keeps(b.state, Append(Written(b), part))
        BY <3>7, <3>8, KeepsQuiet
      <4>2. QED
        BY <3>6, <3>7, <3>8, <4>1, MoreGoes
    <3>10. QED
      BY <2>2, <3>7, <3>9
  <2>3. QED
    BY <2>1, <2>2
<1>4. Think(c) = Send(told, delta)
  BY EmitSends DEF Think
<1> HIDE DEF added
<1>5. /\ added \in InProgress /\ added.state \in StreamState
      /\ n \in Nat /\ n = Len(Written(added))
      /\ Keeps(added.state, Written(added))
      /\ Written(added) \in Seq(Event) /\ Protocol(Written(added))
      /\ Known(added.state, AboutIn(Written(added)), Len(Written(added)))
  BY <1>3, GoingKnows
<1>6. /\ told.events = added.events /\ Alike(added.state, told.state)
      /\ told.state.toolCalls = added.state.toolCalls
      /\ told.state.accumulatedReasoningText = Append(added.state.accumulatedReasoningText, n)
      /\ told.state.accumulatedText = added.state.accumulatedText
  BY <1>5 DEF InProgress, StreamState, Alike
<1>7. told \in InProgress
  <2>1. added.state.accumulatedReasoningText \in Seq(Nat)
    BY <1>5 DEF StreamState
  <2>2. Append(added.state.accumulatedReasoningText, n) \in Seq(Nat)
    BY <1>5, <2>1
  <2>3. QED
    BY <1>5, <2>2 DEF InProgress, StreamState
<1>8. <<n>> \in Seq(Nat) \cup Report
  BY <1>5
<1>85. told.state.sequenceNumber = n
  BY <1>6 DEF Alike
<1> HIDE DEF told, n
<1>9. /\ delta \in Event /\ delta.type = "delta" /\ delta.about = Reasoning
      /\ delta.seq = told.state.sequenceNumber
  BY <1>2, <1>7, <1>8, CallNumbered DEF Made, Event
<1> HIDE DEF delta
<1>10. Keeps(told.state, Append(Written(added), delta))
  <2>1. delta.seq = n /\ Reasoning # TextItem
    BY <1>85, <1>9, ItemTypes
  <2>2. \A i \in DOMAIN added.state.toolCalls : added.state.toolCalls[i].item # Reasoning
    BY <1>5 DEF Known, Reasoning
  <2>3. QED
    BY <1>5, <1>6, <1>9, <2>1, <2>2, KeepsDelta
<1>11. QED
  BY <1>3, <1>4, <1>6, <1>7, <1>9, <1>10, MoreGoes

-----------------------------------------------------------------------------
(* A call takes its index over, or a place of its own.                     *)
LEMMA PutKeeps ==
  ASSUME NEW calls \in Seq(ToolCall), NEW call \in ToolCall,
         \A i, j \in DOMAIN calls : calls[i].index = calls[j].index => i = j
  PROVE  /\ Put(calls, call) \in Seq(ToolCall)
         /\ \A i \in DOMAIN Put(calls, call) :
              \/ Put(calls, call)[i] = call
              \/ i \in DOMAIN calls /\ Put(calls, call)[i] = calls[i]
         /\ \A i, j \in DOMAIN Put(calls, call) :
              Put(calls, call)[i].index = Put(calls, call)[j].index => i = j
         /\ \E i \in DOMAIN Put(calls, call) : Put(calls, call)[i] = call
         /\ \A i \in DOMAIN calls : calls[i].index # call.index =>
              i \in DOMAIN Put(calls, call) /\ Put(calls, call)[i] = calls[i]
<1> DEFINE put == Put(calls, call)
<1>1. Len(calls) \in Nat /\ DOMAIN calls = 1 .. Len(calls)
  OBVIOUS
<1>2. CASE At(calls, call.index) = {}
  <2>1. put = Append(calls, call)
    BY <1>2 DEF Put
  <2>2. /\ put \in Seq(ToolCall) /\ DOMAIN put = 1 .. Len(calls) + 1
        /\ put[Len(calls) + 1] = call
        /\ \A i \in 1 .. Len(calls) : put[i] = calls[i]
    BY <2>1
  <2>3. \A i \in DOMAIN calls : calls[i].index # call.index
    BY <1>2 DEF At
  <2> HIDE DEF put
  <2>4. \A i \in DOMAIN put : i = Len(calls) + 1 \/ i \in DOMAIN calls
    BY <1>1, <2>2
  <2>5. Len(calls) + 1 \in DOMAIN put /\ DOMAIN calls \subseteq DOMAIN put
    BY <1>1, <2>2
  <2>6. QED
    BY <1>1, <2>2, <2>3, <2>4, <2>5 DEF put
<1>3. CASE At(calls, call.index) # {}
  <2>1. put = [i \in DOMAIN calls |-> IF calls[i].index = call.index THEN call ELSE calls[i]]
    BY <1>3 DEF Put
  <2>2. \A i \in DOMAIN calls : calls[i] \in ToolCall
    OBVIOUS
  <2> HIDE DEF put
  <2>3. /\ DOMAIN put = DOMAIN calls
        /\ \A i \in DOMAIN calls :
             put[i] = IF calls[i].index = call.index THEN call ELSE calls[i]
    BY <2>1
  <2>4. put \in Seq(ToolCall)
    BY <1>1, <2>1, <2>2
  <2>5. \A i \in DOMAIN calls : put[i].index = calls[i].index
    BY <2>3
  <2>6. \E i \in DOMAIN put : put[i] = call
    BY <1>3, <2>3 DEF At
  <2>7. QED
    BY <2>3, <2>4, <2>5, <2>6 DEF put
<1>4. QED
  BY <1>2, <1>3

LEMMA NameGoes ==
  ASSUME NEW c, Going(c), NEW p \in Piece
  PROVE  Going(Name(c, p))
<1> DEFINE n == c.state.sequenceNumber
           item == CallItem(p.index, n)
           call == [index |-> p.index, item |-> item, arguments |-> <<>>]
           calls == c.state.toolCalls
           put == Put(calls, call)
           a == [c EXCEPT !.state.toolCalls = put]
           e == Made(a, "item_added", item, <<>>)
           A == AboutIn(Written(c))
<1>1. /\ c \in InProgress /\ c.state \in StreamState
      /\ c.state.hasStarted /\ ~c.state.completed
      /\ Known(c.state, A, Len(Written(c)))
      /\ \A x \in A : x[1] = "call" => x[3] < Len(Written(c)) + 1
      /\ n = Len(Written(c)) /\ n \in Nat /\ A \subseteq Item
      /\ Keeps(c.state, Written(c)) /\ Written(c) \in Seq(Event) /\ Protocol(Written(c))
  BY GoingKnows
<1>2. /\ item \in Item /\ item[1] = "call" /\ item[2] = p.index /\ item[3] = n
      /\ item # TextItem /\ item # Reasoning /\ item # None
      /\ p.index \in Indices /\ <<>> \in Seq(Nat) /\ "item_added" \in Kinds
  BY <1>1, ItemTypes, NoneIsNoItem DEF Piece, Kinds
<1>3. CASE ~p.named
  BY <1>3 DEF Name
<1>4. CASE p.named
  <2>1. Name(c, p) = Send(a, e)
    BY <1>4, EmitSends DEF Name
  <2> HIDE DEF item, n
  <2>2. /\ call \in ToolCall /\ call.item = item /\ call.index = p.index
        /\ call.arguments = <<>>
    BY <1>2 DEF ToolCall
  <2> HIDE DEF call
  <2>3. /\ calls \in Seq(ToolCall)
        /\ \A i, j \in DOMAIN calls : calls[i].index = calls[j].index => i = j
    BY <1>1 DEF StreamState, Known
  <2>4. /\ put \in Seq(ToolCall)
        /\ \A i \in DOMAIN put : put[i] = call \/ (i \in DOMAIN calls /\ put[i] = calls[i])
        /\ \A i, j \in DOMAIN put : put[i].index = put[j].index => i = j
        /\ \E i \in DOMAIN put : put[i] = call
        /\ \A i \in DOMAIN calls :
             calls[i].index # call.index => i \in DOMAIN put /\ put[i] = calls[i]
    BY <2>2, <2>3, PutKeeps
  <2> HIDE DEF put
  <2>5. /\ a.events = c.events /\ a.state.toolCalls = put
        /\ a.state.hasStarted /\ ~a.state.completed
        /\ a.state.sequenceNumber = n
        /\ a.state.hasEmittedTextOutputItem = c.state.hasEmittedTextOutputItem
        /\ a.state.hasEmittedReasoningItem = c.state.hasEmittedReasoningItem
        /\ a.state.accumulatedText = c.state.accumulatedText
        /\ a.state.accumulatedReasoningText = c.state.accumulatedReasoningText
    BY <1>1, <2>4 DEF InProgress, StreamState, n
  <2>6. a \in InProgress
    BY <1>1, <2>4 DEF InProgress, StreamState
  <2> HIDE DEF a
  <2>7. item \notin A
    BY <1>1, <1>2 DEF Known
  <2>8. Known(a.state, A \cup {item}, Len(Written(c)) + 1)
    <3>1. /\ a.state.hasEmittedTextOutputItem <=> TextItem \in A \cup {item}
          /\ a.state.hasEmittedReasoningItem <=> Reasoning \in A \cup {item}
      BY <1>1, <1>2, <2>5 DEF Known
    <3>2. \A i \in DOMAIN calls : /\ calls[i].item \in A /\ calls[i].item[1] = "call"
                                  /\ calls[i].item[2] = calls[i].index
      BY <1>1 DEF Known
    <3>3. \A i \in DOMAIN put : /\ put[i].item \in A \cup {item}
                                /\ put[i].item[1] = "call"
                                /\ put[i].item[2] = put[i].index
      BY <1>2, <2>2, <2>4, <3>2
    <3>4. \A x \in A \cup {item} : x[1] = "call" => x[3] < Len(Written(c)) + 1
      BY <1>1, <1>2
    <3>5. QED
      BY <2>4, <2>5, <3>1, <3>3, <3>4 DEF Known
  <2>9. /\ e \in Event /\ e.type = "item_added" /\ e.about = item
        /\ e.seq = a.state.sequenceNumber
    BY <1>1, <1>2, <2>5 DEF Made, Event
  <2> HIDE DEF e
  <2>10. /\ e.about # None /\ e.about \notin AboutIn(Written(c))
         /\ Known(a.state, AboutIn(Written(c)) \cup {e.about}, Len(Written(c)) + 1)
         /\ a.state.sequenceNumber = c.state.sequenceNumber
    BY <1>2, <2>5, <2>7, <2>8, <2>9 DEF n
  <2>11. Says(Written(c), e)
    BY <1>1, <1>2, <2>9 DEF Says, Adds, Repeats, Completes
  <2>12. Keeps(a.state, Append(Written(c), e))
    <3> DEFINE w == Written(c)
               v == Append(w, e)
    <3>1. /\ AddedIn(v) = AddedIn(w) \cup {item}
          /\ \A x : DeltasIn(v, x) = DeltasIn(w, x)
      BY <1>1, <2>9, AppendAdds
    <3>2. DeltasIn(w, item) = {} /\ AddedIn(w) \subseteq A
      BY <1>1, <1>2, <2>7, DeltasAreEarlier
    <3> HIDE DEF v, w
    <3>3. /\ InOrder(a.state.accumulatedText, DeltasIn(v, TextItem))
          /\ InOrder(a.state.accumulatedReasoningText, DeltasIn(v, Reasoning))
      BY <1>1, <2>5, <3>1 DEF Keeps, w
    <3>4. ASSUME NEW i \in DOMAIN put
          PROVE  InOrder(put[i].arguments, DeltasIn(v, put[i].item))
      <4>1. CASE put[i] = call
        BY <2>2, <3>1, <3>2, <4>1, NothingInOrder
      <4>2. CASE i \in DOMAIN calls /\ put[i] = calls[i]
        BY <1>1, <3>1, <4>2 DEF Keeps, w
      <4>3. QED
        BY <2>4, <4>1, <4>2
    <3>5. ASSUME NEW x \in LatestIn(v)
          PROVE  \E i \in DOMAIN put : put[i].item = x
      <4>1. CASE x = item
        BY <2>2, <2>4, <4>1
      <4>2. CASE x # item
        <5>1. x \in AddedIn(w) /\ x \in A /\ x \in Item /\ x[1] = "call"
          BY <1>1, <3>1, <3>2, <4>2 DEF LatestIn
        <5>2. x[3] < n /\ x[3] \in Nat
          BY <1>1, <5>1 DEF Known, Item
        <5>3. x[2] # p.index
          BY <1>1, <1>2, <3>1, <5>2 DEF LatestIn
        <5>4. x \in LatestIn(w)
          BY <3>1, <5>1 DEF LatestIn
        <5>5. PICK i \in DOMAIN calls : calls[i].item = x
          BY <1>1, <5>4 DEF Keeps, w
        <5>6. calls[i].index # p.index
          BY <1>1, <5>3, <5>5 DEF Known
        <5>7. QED
          BY <2>2, <2>4, <5>5, <5>6
      <4>3. QED
        BY <4>1, <4>2
    <3>6. QED
      BY <2>5, <3>3, <3>4, <3>5 DEF Keeps, v, w
  <2>13. QED
    BY <2>1, <2>5, <2>6, <2>9, <2>10, <2>11, <2>12, ItemGoes
<1>5. QED
  BY <1>3, <1>4

LEMMA CallGoes ==
  ASSUME NEW c, Going(c), NEW p \in Piece
  PROVE  Going(Call(c, p))
<1> DEFINE named == Name(c, p)
           n == named.state.sequenceNumber
           calls == named.state.toolCalls
           at == At(calls, p.index)
           i == CHOOSE i \in at : TRUE
           longer == [calls EXCEPT ![i].arguments = Append(@, n)]
           told == [named EXCEPT !.state.toolCalls[i].arguments = Append(@, n)]
           e == Made(told, "delta", calls[i].item, <<n>>)
<1>1. Going(named)
  BY NameGoes
<1>2. CASE ~p.args \/ at = {}
  BY <1>1, <1>2 DEF Call
<1>3. CASE ~(~p.args \/ at = {})
  <2>1. Call(c, p) = Send(told, e)
    BY <1>3, EmitSends DEF Call
  <2> HIDE DEF named
  <2>2. /\ named \in InProgress /\ named.state \in StreamState /\ n \in Nat
        /\ Known(named.state, AboutIn(Written(named)), Len(Written(named)))
        /\ AboutIn(Written(named)) \subseteq Item
        /\ calls \in Seq(ToolCall) /\ n = Len(Written(named))
        /\ Keeps(named.state, Written(named))
        /\ Written(named) \in Seq(Event) /\ Protocol(Written(named))
    BY <1>1, GoingKnows DEF StreamState
  <2>3. i \in at /\ i \in DOMAIN calls
    BY <1>3 DEF At
  <2> HIDE DEF i, at
  <2>4. calls[i] \in ToolCall /\ calls[i].item \in AboutIn(Written(named)) /\ calls[i].item \in Item
    BY <2>2, <2>3 DEF Known
  <2>5. Append(calls[i].arguments, n) \in Seq(Nat) /\ <<n>> \in Seq(Nat)
    BY <2>2, <2>4 DEF ToolCall
  <2>6. [calls[i] EXCEPT !.arguments = Append(@, n)] \in ToolCall
    BY <2>4, <2>5 DEF ToolCall
  <2>7. told.events = named.events /\ told.state = [named.state EXCEPT !.toolCalls = longer]
    BY <2>2 DEF InProgress, StreamState
  <2>8. /\ longer \in Seq(ToolCall) /\ DOMAIN longer = DOMAIN calls
        /\ \A j \in DOMAIN calls :
             /\ longer[j].index = calls[j].index /\ longer[j].item = calls[j].item
             /\ longer[j].arguments =
                  IF j = i THEN Append(calls[j].arguments, n) ELSE calls[j].arguments
    <3>1. DOMAIN longer = DOMAIN calls
      OBVIOUS
    <3>2. \A j \in DOMAIN calls : longer[j] \in ToolCall
      BY <2>2, <2>6
    <3>3. longer \in Seq(ToolCall)
      <4>1. Len(calls) \in Nat /\ DOMAIN calls = 1 .. Len(calls)
        BY <2>2
      <4>2. longer = [j \in DOMAIN calls |-> longer[j]]
        OBVIOUS
      <4> HIDE DEF longer, calls
      <4>3. longer \in [1 .. Len(calls) -> ToolCall]
        BY <3>2, <4>1, <4>2
      <4>4. QED
        BY <4>1, <4>3
    <3>4. ASSUME NEW j \in DOMAIN calls
          PROVE  /\ longer[j].index = calls[j].index /\ longer[j].item = calls[j].item
                 /\ longer[j].arguments =
                      IF j = i THEN Append(calls[j].arguments, n) ELSE calls[j].arguments
      <4>1. calls[j] \in ToolCall
        BY <2>2
      <4>2. QED
        BY <2>3, <2>4, <4>1 DEF ToolCall
    <3>5. QED
      BY <3>1, <3>3, <3>4
  <2> HIDE DEF longer
  <2>9. told \in InProgress
    <3>1. told = [named EXCEPT !.state = [named.state EXCEPT !.toolCalls = longer]]
      BY <2>2 DEF InProgress, StreamState, longer
    <3>2. [named.state EXCEPT !.toolCalls = longer] \in StreamState
      BY <2>2, <2>8 DEF StreamState
    <3>3. QED
      BY <2>2, <3>1, <3>2 DEF InProgress
  <2> HIDE DEF told
  <2>10. /\ Alike(named.state, told.state) /\ told.state.sequenceNumber = n
         /\ told.state.toolCalls = longer
         /\ told.state.accumulatedText = named.state.accumulatedText
         /\ told.state.accumulatedReasoningText = named.state.accumulatedReasoningText
    BY <2>2, <2>7, <2>8 DEF Alike, StreamState
  <2>105. /\ calls[i].item # TextItem /\ calls[i].item # Reasoning
          /\ \A j \in DOMAIN calls : calls[j].item = calls[i].item => j = i
    BY <2>2, <2>3 DEF Known, TextItem, Reasoning
  <2> HIDE DEF calls, n
  <2>11. /\ e \in Event /\ e.type = "delta" /\ e.about \in AboutIn(Written(named))
         /\ e.seq = told.state.sequenceNumber /\ e.about = calls[i].item
    BY <2>2, <2>4, <2>5, <2>10 DEF Made, Event, Kinds
  <2> HIDE DEF e
  <2>115. Keeps(told.state, Append(Written(named), e))
    <3>1. \A j \in DOMAIN calls :
            /\ longer[j].item = calls[j].item
            /\ longer[j].arguments =
                 IF e.about = calls[j].item THEN Append(calls[j].arguments, e.seq)
                 ELSE calls[j].arguments
      BY <2>8, <2>10, <2>105, <2>11
    <3>2. e.about # TextItem /\ e.about # Reasoning /\ e.seq = Len(Written(named))
      BY <2>2, <2>10, <2>105, <2>11
    <3>3. QED
      BY <2>2, <2>8, <2>10, <2>11, <3>1, <3>2, KeepsDelta DEF calls
  <2>12. /\ Going(named) /\ told \in InProgress /\ told.events = named.events
         /\ Alike(named.state, told.state)
         /\ e \in Event /\ e.seq = told.state.sequenceNumber
         /\ e.type \in {"part_added", "delta"} /\ e.about \in AboutIn(Written(named))
         /\ Keeps(told.state, Append(Written(named), e))
    BY <1>1, <2>7, <2>9, <2>10, <2>11, <2>115
  <2>13. Going(Send(told, e))
    BY <2>12, MoreGoes, Zenon
  <2>14. QED
    BY <2>1, <2>13
<1>4. QED
  BY <1>2, <1>3

LEMMA CallAllGoes ==
  ASSUME NEW c, Going(c), NEW calls \in Calls
  PROVE  Going(CallAll(c, calls))
<1>1. CASE calls = <<>>
  BY <1>1 DEF CallAll
<1>2. ASSUME NEW p \in Piece, calls = <<p>>
      PROVE  Going(CallAll(c, calls))
  <2>1. calls # <<>> /\ Len(calls) = 1 /\ calls[1] = p
    BY <1>2
  <2>2. CallAll(c, calls) = Call(c, p)
    BY <2>1 DEF CallAll
  <2>3. QED
    BY <2>2, CallGoes
<1>3. ASSUME NEW p \in Piece, NEW q \in Piece, calls = <<p, q>>
      PROVE  Going(CallAll(c, calls))
  <2>1. calls # <<>> /\ Len(calls) = 2 /\ calls[1] = p /\ calls[2] = q
    BY <1>3
  <2> DEFINE d == Call(c, p)
  <2>2. CallAll(c, calls) = Call(d, q)
    BY <2>1 DEF CallAll
  <2>3. Going(d)
    BY CallGoes
  <2> HIDE DEF d
  <2>4. QED
    BY <2>2, <2>3, CallGoes
<1>4. calls = <<>> \/ (\E p \in Piece : calls = <<p>>) \/ (\E p, q \in Piece : calls = <<p, q>>)
  BY DEF Calls
<1>5. QED
  BY <1>1, <1>2, <1>3, <1>4

(* What a chunk says of its ending changes nothing the caller was told.    *)
LEMMA FinishGoes ==
  ASSUME NEW c, Going(c), NEW finish \in {None, "stop", "length"}
  PROVE  Going([c EXCEPT !.state.finishReason = IF finish # None THEN finish ELSE @])
<1> DEFINE t == [c.state EXCEPT !.finishReason = IF finish # None THEN finish ELSE @]
           d == [c EXCEPT !.state.finishReason = IF finish # None THEN finish ELSE @]
           w == Written(c)
<1>1. /\ wire \in Seq(Event) /\ c \in InProgress /\ c.state \in StreamState
      /\ w \in Seq(Event) /\ Running(w) /\ DoneIn(w) = {}
      /\ c.state.hasStarted /\ ~c.state.completed
      /\ c.state.sequenceNumber = Len(w) /\ Known(c.state, AboutIn(w), Len(w))
      /\ Keeps(c.state, w)
  BY DEF Going, Adding, InProgress
<1>2. /\ t \in StreamState
      /\ t.hasStarted = c.state.hasStarted /\ t.completed = c.state.completed
      /\ t.sequenceNumber = c.state.sequenceNumber /\ t.toolCalls = c.state.toolCalls
      /\ t.hasEmittedTextOutputItem = c.state.hasEmittedTextOutputItem
      /\ t.hasEmittedReasoningItem = c.state.hasEmittedReasoningItem
      /\ t.accumulatedText = c.state.accumulatedText
      /\ t.accumulatedReasoningText = c.state.accumulatedReasoningText
  BY <1>1 DEF StreamState
<1>3. d.state = t /\ d.events = c.events /\ d \in InProgress
  BY <1>1, <1>2 DEF InProgress, StreamState
<1> HIDE DEF t, d
<1>4. Written(d) = w
  BY <1>3 DEF Written
<1> HIDE DEF w
<1>5. Known(t, AboutIn(w), Len(w)) /\ Keeps(t, w)
  BY <1>1, <1>2 DEF Known, Keeps
<1>6. Adding(t, w)
  BY <1>1, <1>2, <1>5 DEF Adding
<1>7. Going(d)
  BY <1>1, <1>3, <1>4, <1>6 DEF Going
<1>8. QED
  BY <1>7 DEF d

-----------------------------------------------------------------------------
(* The beginning of a stream and of every call.                            *)
LEMMA FreshWrites ==
  ASSUME Types
  PROVE  /\ Fresh \in InProgress /\ Fresh.state = state /\ Fresh.events = <<>>
         /\ Written(Fresh) = wire
BY DEF Types, Fresh, InProgress, Written

LEMMA EmptyTells ==
  /\ AboutIn(<<>>) = {} /\ DoneIn(<<>>) = {} /\ ~Ended(<<>>) /\ ~Failing(<<>>)
  /\ Protocol(<<>>)
BY DEF AboutIn, DoneIn, Ended, Failing, Protocol

LEMMA BeginGoes ==
  ASSUME IInv, ~state.completed
  PROVE  Going(Begin(Fresh))
<1>1. /\ Types /\ state \in StreamState /\ wire \in Seq(Event)
      /\ Fresh \in InProgress /\ Fresh.state = state /\ Fresh.events = <<>>
      /\ Written(Fresh) = wire
  BY FreshWrites DEF IInv, Types
<1> HIDE DEF Fresh
<1>2. CASE state.hasStarted
  <2>1. Adding(state, wire)
    BY <1>2 DEF IInv
  <2>2. Begin(Fresh) = Fresh
    BY <1>1, <1>2 DEF Begin
  <2>3. QED
    BY <1>1, <2>1, <2>2 DEF Going
<1>3. CASE ~state.hasStarted
  <2> DEFINE a == [Fresh EXCEPT !.state.hasStarted = TRUE]
             now == Snapshot(a.state, "in_progress", FALSE)
             e == Made(a, "created", None, now)
             b == Send(a, e)
             f == Made(b, "in_progress", None, now)
  <2>1. Begin(Fresh) = Send(b, f)
    BY <1>1, <1>3, EmitSends DEF Begin
  <2>2. /\ wire = <<>> /\ state.sequenceNumber = 0
        /\ Known(state, {}, 0) /\ Keeps(state, wire)
    BY <1>3 DEF IInv
  <2>3. /\ a.events = <<>> /\ a.state.hasStarted /\ ~a.state.completed
        /\ a.state.sequenceNumber = 0 /\ a.state.toolCalls = state.toolCalls
        /\ a.state.hasEmittedTextOutputItem = state.hasEmittedTextOutputItem
        /\ a.state.hasEmittedReasoningItem = state.hasEmittedReasoningItem
        /\ a.state.accumulatedText = state.accumulatedText
        /\ a.state.accumulatedReasoningText = state.accumulatedReasoningText
    BY <1>1, <2>2 DEF InProgress, StreamState
  <2>4. a \in InProgress
    BY <1>1 DEF InProgress, StreamState
  <2> HIDE DEF a
  <2>5. now \in Report
    BY <2>4, SnapshotType DEF InProgress, Status
  <2> HIDE DEF now
  <2>6. e \in Event /\ e.type = "created" /\ e.about = None /\ e.seq = 0
    BY <2>3, <2>4, <2>5, CallNumbered DEF Made, Event, Kinds
  <2> HIDE DEF e
  <2>7. Written(a) = wire
    BY <1>1, <2>3 DEF Written
  <2>8. /\ b \in InProgress /\ Written(b) = Append(Written(a), e)
        /\ b.state = [a.state EXCEPT !.sequenceNumber = @ + 1]
        /\ b.state.sequenceNumber = a.state.sequenceNumber + 1
    BY <1>1, <2>4, <2>6, SendWrites, Zenon
  <2> HIDE DEF b
  <2> DEFINE v == Append(wire, e)
  <2>9. /\ Len(wire) = 0 /\ Protocol(wire) /\ AboutIn(wire) = {} /\ DoneIn(wire) = {}
        /\ ~Ended(wire) /\ ~Failing(wire)
    BY <2>2, EmptyTells
  <2>10. Fits(wire, e)
    <3>1. Says(wire, e)
      BY <2>6, SaysNothing
    <3>2. QED
      BY <2>2, <2>6, <2>9, <3>1 DEF Fits
  <2>11. Protocol(v)
    BY <1>1, <2>6, <2>9, <2>10, AppendFits
  <2>12. /\ v \in Seq(Event) /\ v # <<>> /\ Len(v) = 1
         /\ AboutIn(v) = {} /\ DoneIn(v) = {} /\ ~Ended(v) /\ ~Failing(v)
    <3>1. /\ v \in Seq(Event) /\ v # <<>> /\ Len(v) = Len(wire) + 1
          /\ AboutIn(v) = IF e.about = None THEN AboutIn(wire) ELSE AboutIn(wire) \cup {e.about}
          /\ DoneIn(v) = IF e.type = "item_done" THEN DoneIn(wire) \cup {e.about}
                         ELSE DoneIn(wire)
          /\ Ended(v) <=> Ended(wire) \/ e.type \in {"completed", "failed"}
          /\ Failing(v) <=> Failing(wire) \/ e.type = "error"
      BY <1>1, <2>6, AppendTells, Zenon
    <3> HIDE DEF v
    <3>2. QED
      BY <2>6, <2>9, <3>1
  <2> HIDE DEF v
  <2>13. /\ b.state \in StreamState /\ b.state.hasStarted /\ ~b.state.completed
         /\ b.state.toolCalls = state.toolCalls
         /\ b.state.hasEmittedTextOutputItem = state.hasEmittedTextOutputItem
         /\ b.state.hasEmittedReasoningItem = state.hasEmittedReasoningItem
         /\ b.state.accumulatedText = state.accumulatedText
         /\ b.state.accumulatedReasoningText = state.accumulatedReasoningText
    BY <2>3, <2>4, <2>8 DEF InProgress, StreamState
  <2>14. Known(b.state, {}, 1) /\ Known(b.state, {}, 2)
    BY <2>2, <2>13 DEF Known
  <2>145. Keeps(b.state, v)
    BY <1>1, <2>2, <2>6, <2>13, KeepsQuiet DEF v
  <2>15. Going(b)
    BY <1>1, <2>3, <2>7, <2>8, <2>11, <2>12, <2>13, <2>14, <2>145
       DEF Going, Adding, Running, v
  <2>16. f \in Event /\ f.type = "in_progress" /\ f.about = None
         /\ f.seq = b.state.sequenceNumber
    BY <2>5, <2>8, CallNumbered DEF Made, Event, Kinds
  <2> HIDE DEF f
  <2>17. AboutIn(Written(b)) = {} /\ Len(Written(b)) + 1 = 2
         /\ With(AboutIn(Written(b)), f.about) = {}
    BY <2>7, <2>8, <2>12, <2>16 DEF v, With
  <2>18. /\ f.type \in {"in_progress", "item_added", "part_added", "delta"}
         /\ f.about # None => (f.type = "item_added" <=> f.about \notin AboutIn(Written(b)))
         /\ Known(b.state, With(AboutIn(Written(b)), f.about), Len(Written(b)) + 1)
         /\ b.events = b.events /\ Says(Written(b), f)
         /\ Keeps(b.state, Append(Written(b), f))
    <3>1. Says(Written(b), f)
      BY <2>16, SaysNothing
    <3>2. Keeps(b.state, Written(b)) /\ Written(b) \in Seq(Event)
      BY <2>15, GoingKnows
    <3>3. Keeps(b.state, Append(Written(b), f))
      BY <2>16, <3>2, KeepsQuiet
    <3>4. QED
      BY <2>14, <2>16, <2>17, <3>1, <3>3
  <2>19. Going(Send(b, f))
    BY <2>8, <2>13, <2>15, <2>16, <2>18, SendGoes, Zenon
  <2>20. QED
    BY <2>1, <2>19
<1>4. QED
  BY <1>2, <1>3

-----------------------------------------------------------------------------
(* The end of a stream: a call in progress that has been told of one.      *)
Ending(c) ==
  /\ wire \in Seq(Event) /\ c \in InProgress /\ Running(Written(c))
  /\ c.state.sequenceNumber = Len(Written(c))
  /\ c.state.completed /\ c.state.hasStarted
  /\ Keeps(c.state, Written(c))

(* Two calls in progress whose callers know of the same items, and whose   *)
(* states keep the same of them.                                           *)
SameItems(c, d) ==
  /\ AboutIn(Written(d)) = AboutIn(Written(c))
  /\ AddedIn(Written(d)) = AddedIn(Written(c))
  /\ \A item : DeltasIn(Written(d), item) = DeltasIn(Written(c), item)
  /\ d.state.toolCalls = c.state.toolCalls
  /\ d.state.accumulatedText = c.state.accumulatedText
  /\ d.state.accumulatedReasoningText = c.state.accumulatedReasoningText
  /\ d.state.hasEmittedTextOutputItem = c.state.hasEmittedTextOutputItem

(* Something is done of an item that was not done.                         *)
LEMMA DoneGoes ==
  ASSUME NEW c, Ending(c), NEW e \in Event, e.seq = c.state.sequenceNumber,
         e.type \in {"text_done", "part_done", "item_done"},
         e.about \in AboutIn(Written(c)), e.about \notin DoneIn(Written(c)),
         InOrder(e.body, DeltasIn(Written(c), e.about))
  PROVE  /\ Ending(Send(c, e)) /\ SameItems(c, Send(c, e))
         /\ DoneIn(Written(Send(c, e))) =
              IF e.type = "item_done" THEN DoneIn(Written(c)) \cup {e.about}
              ELSE DoneIn(Written(c))
<1> DEFINE d == Send(c, e)
           w == Written(c)
           v == Append(w, e)
<1>1. /\ wire \in Seq(Event) /\ c \in InProgress /\ c.state \in StreamState
      /\ Running(w) /\ c.state.sequenceNumber = Len(w)
      /\ c.state.completed /\ c.state.hasStarted /\ Keeps(c.state, w)
  BY DEF Ending, InProgress
<1>2. /\ w \in Seq(Event) /\ d \in InProgress /\ Written(d) = v
      /\ d.state = [c.state EXCEPT !.sequenceNumber = @ + 1]
      /\ d.state.sequenceNumber = Len(w) + 1
  BY <1>1, SendWrites
<1> HIDE DEF d, w
<1>3. /\ d.state.toolCalls = c.state.toolCalls /\ d.state.completed /\ d.state.hasStarted
      /\ d.state.accumulatedText = c.state.accumulatedText
      /\ d.state.accumulatedReasoningText = c.state.accumulatedReasoningText
      /\ d.state.hasEmittedTextOutputItem = c.state.hasEmittedTextOutputItem
  BY <1>1, <1>2 DEF StreamState
<1>4. e.about # None /\ AboutIn(w) \cup {e.about} = AboutIn(w)
  BY DEF AboutIn, w
<1>5. Fits(w, e)
  <2>1. Says(w, e)
    BY DEF Says, Adds, Repeats, Completes, w
  <2>2. QED
    BY <1>1, <2>1 DEF Fits, Running, w
<1>6. Protocol(v)
  BY <1>1, <1>2, <1>5, AppendFits DEF Running
<1>65. /\ AddedIn(v) = AddedIn(w) /\ \A item : DeltasIn(v, item) = DeltasIn(w, item)
       /\ Keeps(d.state, v)
  <2>1. /\ AddedIn(Append(w, e)) = AddedIn(w)
        /\ \A item : DeltasIn(Append(w, e), item) = DeltasIn(w, item)
    BY <1>2, AppendAdds
  <2>2. Keeps(d.state, Append(w, e))
    BY <1>1, <1>2, <1>3, KeepsQuiet
  <2>3. QED
    BY <2>1, <2>2
<1>7. /\ v # <<>> /\ Len(v) = Len(w) + 1 /\ AboutIn(v) = AboutIn(w)
      /\ DoneIn(v) = IF e.type = "item_done" THEN DoneIn(w) \cup {e.about} ELSE DoneIn(w)
      /\ ~Ended(v) /\ ~Failing(v)
  BY <1>1, <1>2, <1>4, AppendTells DEF Running
<1> HIDE DEF v
<1>8. Ending(d)
  BY <1>1, <1>2, <1>3, <1>6, <1>65, <1>7 DEF Ending, Running
<1>9. QED
  BY <1>2, <1>3, <1>65, <1>7, <1>8 DEF SameItems, d, w

(* The text's three endings.                                               *)
LEMMA TextGoes ==
  ASSUME NEW c, Ending(c), TextItem \in AboutIn(Written(c)),
         TextItem \notin DoneIn(Written(c))
  PROVE  /\ Ending(TextCompletion(c)) /\ SameItems(c, TextCompletion(c))
         /\ DoneIn(Written(TextCompletion(c))) = DoneIn(Written(c)) \cup {TextItem}
<1> DEFINE text == c.state.accumulatedText
           e == Made(c, "text_done", TextItem, text)
           a == Send(c, e)
           f == Made(a, "part_done", TextItem, text)
           b == Send(a, f)
           g == Made(b, "item_done", TextItem, text)
           d == Send(b, g)
<1>1. TextCompletion(c) = d
  BY EmitSends DEF TextCompletion
<1>2. /\ c \in InProgress /\ text \in Seq(Nat)
      /\ InOrder(text, DeltasIn(Written(c), TextItem))
  BY DEF Ending, InProgress, StreamState, Keeps
<1> HIDE DEF text
<1>3. e \in Event /\ e.type = "text_done" /\ e.about = TextItem /\ e.body = text
      /\ e.seq = c.state.sequenceNumber
  BY <1>2, ItemTypes, CallNumbered DEF Made, Event, Kinds
<1> HIDE DEF e
<1>4. /\ Ending(a) /\ SameItems(c, a)
      /\ DoneIn(Written(a)) = DoneIn(Written(c))
  BY <1>2, <1>3, DoneGoes
<1> HIDE DEF a
<1>5. a \in InProgress
  BY <1>4 DEF Ending
<1>6. f \in Event /\ f.type = "part_done" /\ f.about = TextItem /\ f.body = text
      /\ f.seq = a.state.sequenceNumber
  BY <1>2, <1>5, ItemTypes, CallNumbered DEF Made, Event, Kinds
<1> HIDE DEF f
<1>7. /\ Ending(b) /\ SameItems(a, b)
      /\ DoneIn(Written(b)) = DoneIn(Written(a))
  <2>1. /\ f.about \in AboutIn(Written(a)) /\ f.about \notin DoneIn(Written(a))
        /\ InOrder(f.body, DeltasIn(Written(a), f.about))
    BY <1>2, <1>4, <1>6 DEF SameItems
  <2>2. QED
    BY <1>4, <1>6, <2>1, DoneGoes
<1> HIDE DEF b
<1>8. b \in InProgress
  BY <1>7 DEF Ending
<1>9. g \in Event /\ g.type = "item_done" /\ g.about = TextItem /\ g.body = text
      /\ g.seq = b.state.sequenceNumber
  BY <1>2, <1>8, ItemTypes, CallNumbered DEF Made, Event, Kinds
<1> HIDE DEF g
<1>10. /\ Ending(d) /\ SameItems(b, d)
       /\ DoneIn(Written(d)) = DoneIn(Written(b)) \cup {TextItem}
  <2>1. /\ g.about \in AboutIn(Written(b)) /\ g.about \notin DoneIn(Written(b))
        /\ InOrder(g.body, DeltasIn(Written(b), g.about))
    BY <1>2, <1>4, <1>7, <1>9 DEF SameItems
  <2>2. QED
    BY <1>7, <1>9, <2>1, DoneGoes
<1> HIDE DEF d
<1>11. SameItems(c, d)
  BY <1>4, <1>7, <1>10 DEF SameItems
<1>12. QED
  BY <1>1, <1>4, <1>7, <1>10, <1>11

(* A run of events that end items, none after its own item was done.       *)
LEMMA RunFits ==
  ASSUME NEW w \in Seq(Event), Running(w), NEW es \in Seq(Event),
         \A k \in DOMAIN es :
           /\ es[k].seq = Len(w) + k - 1
           /\ es[k].type \in {"args_done", "item_done"}
           /\ es[k].about \in AboutIn(w) /\ es[k].about \notin DoneIn(w)
           /\ \A j \in 1 .. k - 1 : es[j].type = "item_done" => es[j].about # es[k].about
           /\ InOrder(es[k].body, DeltasIn(w, es[k].about))
  PROVE  /\ Running(w \o es) /\ Len(w \o es) = Len(w) + Len(es)
         /\ AddedIn(w \o es) = AddedIn(w)
         /\ \A item : DeltasIn(w \o es, item) = DeltasIn(w, item)
         /\ DoneIn(w) \subseteq DoneIn(w \o es)
         /\ \A k \in DOMAIN es : es[k].type = "item_done" => es[k].about \in DoneIn(w \o es)
<1> DEFINE v == w \o es
<1>1. /\ Len(w) \in Nat /\ Len(es) \in Nat
      /\ DOMAIN w = 1 .. Len(w) /\ DOMAIN es = 1 .. Len(es)
  OBVIOUS
<1>2. /\ v \in Seq(Event) /\ Len(v) = Len(w) + Len(es) /\ DOMAIN v = 1 .. Len(w) + Len(es)
      /\ \A m \in 1 .. Len(w) : v[m] = w[m]
      /\ \A k \in 1 .. Len(es) : v[Len(w) + k] = es[k]
  BY <1>1
<1> HIDE DEF v
<1>3. v # <<>>
  BY <1>1, <1>2 DEF Running
<1>4. ASSUME NEW m \in DOMAIN v
      PROVE  \/ m \in DOMAIN w /\ v[m] = w[m]
             \/ \E k \in DOMAIN es : m = Len(w) + k /\ v[m] = es[k]
  <2>1. CASE m <= Len(w)
    BY <1>1, <1>2, <2>1
  <2>2. CASE ~(m <= Len(w))
    <3>1. m - Len(w) \in 1 .. Len(es) /\ m = Len(w) + (m - Len(w))
      BY <1>1, <1>2, <2>2
    <3>2. QED
      BY <1>1, <1>2, <3>1
  <2>3. QED
    BY <2>1, <2>2
<1>5. \A m \in DOMAIN v : v[m].type \notin {"completed", "failed", "error"}
  BY <1>4 DEF Running, Ended, Failing
<1>6. ~Ended(v) /\ ~Failing(v)
  BY <1>5 DEF Ended, Failing
<1>7. ASSUME NEW n \in DOMAIN v PROVE Fits(SubSeq(v, 1, n - 1), v[n])
  <2> DEFINE u == SubSeq(v, 1, n - 1)
  <2>1. /\ u \in Seq(Event) /\ Len(u) = n - 1 /\ DOMAIN u = 1 .. n - 1
        /\ \A m \in 1 .. n - 1 : u[m] = v[m] /\ m \in DOMAIN v
    BY <1>1, <1>2
  <2>2. CASE n \in DOMAIN w
    <3> DEFINE x == SubSeq(w, 1, n - 1)
    <3>1. /\ x \in Seq(Event) /\ Len(x) = n - 1 /\ DOMAIN x = 1 .. n - 1
          /\ \A m \in 1 .. n - 1 : x[m] = w[m]
          /\ n \in 1 .. Len(w) /\ \A m \in 1 .. n - 1 : m \in 1 .. Len(w)
      BY <1>1, <2>2
    <3>2. Fits(x, w[n])
      BY <2>2 DEF Running, Protocol
    <3> HIDE DEF u, x
    <3>3. v[n] = w[n] /\ \A m \in 1 .. n - 1 : u[m] = x[m]
      BY <1>2, <2>1, <3>1
    <3>4. u = x
      BY <2>1, <3>1, <3>3
    <3>5. QED
      BY <3>2, <3>3, <3>4 DEF u
  <2>3. ASSUME NEW k \in DOMAIN es, n = Len(w) + k, v[n] = es[k]
        PROVE  Fits(u, v[n])
    <3> HIDE DEF u
    <3>1. k \in Nat /\ k >= 1 /\ Len(u) = Len(w) + k - 1 /\ Len(w) <= n - 1
      BY <1>1, <2>1, <2>3
    <3>2. ~Ended(u) /\ ~Failing(u)
      BY <1>5, <2>1 DEF Ended, Failing
    <3>3. AboutIn(w) \subseteq AboutIn(u)
      <4>1. \A m \in DOMAIN w : m \in DOMAIN u /\ u[m] = w[m]
        BY <1>1, <1>2, <2>1, <3>1
      <4>2. QED
        BY <4>1 DEF AboutIn
    <3>4. es[k].about \notin DoneIn(u)
      <4> SUFFICES ASSUME NEW m \in DOMAIN u, u[m].type = "item_done",
                          u[m].about = es[k].about
                   PROVE  FALSE
        BY DEF DoneIn
      <4>1. u[m] = v[m] /\ m \in DOMAIN v /\ m \in 1 .. n - 1
        BY <2>1
      <4>2. CASE m \in DOMAIN w /\ v[m] = w[m]
        BY <4>1, <4>2 DEF DoneIn
      <4>3. ASSUME NEW j \in DOMAIN es, m = Len(w) + j, v[m] = es[j]
            PROVE  FALSE
        <5>1. j \in 1 .. k - 1
          BY <1>1, <2>3, <4>1, <4>3
        <5>2. QED
          BY <4>1, <4>3, <5>1
      <4>4. QED
        BY <1>4, <4>1, <4>2, <4>3
    <3>5. u # <<>>
      BY <1>1, <2>1, <3>1 DEF Running
    <3>6. /\ es[k].seq = Len(u) /\ es[k].type \in {"args_done", "item_done"}
          /\ es[k].about \in AboutIn(u)
      BY <3>1, <3>3
    <3>7. DeltasIn(u, es[k].about) = DeltasIn(w, es[k].about)
      <4>1. \A m \in DOMAIN w : m \in DOMAIN u /\ u[m] = w[m]
        BY <1>1, <1>2, <2>1, <3>1
      <4>2. \A m \in DOMAIN u : (m \in DOMAIN w /\ u[m] = w[m]) \/ u[m].type # "delta"
        BY <1>4, <2>1
      <4>3. QED
        BY <4>1, <4>2 DEF DeltasIn
    <3>8. Says(u, es[k])
      BY <3>6, <3>7 DEF Says, Adds, Repeats, Completes
    <3>9. QED
      BY <2>3, <3>2, <3>4, <3>5, <3>6, <3>8 DEF Fits
  <2>4. QED
    BY <1>4, <2>2, <2>3
<1>8. Running(v)
  BY <1>3, <1>6, <1>7 DEF Running, Protocol
<1>9. \A m \in DOMAIN w : m \in DOMAIN v /\ v[m] = w[m]
  BY <1>1, <1>2
<1>10. \A m \in DOMAIN v :
         (m \in DOMAIN w /\ v[m] = w[m]) \/ v[m].type \notin {"delta", "item_added"}
  BY <1>4
<1>11. AddedIn(v) = AddedIn(w)
  BY <1>9, <1>10 DEF AddedIn
<1>12. \A item : DeltasIn(v, item) = DeltasIn(w, item)
  BY <1>9, <1>10 DEF DeltasIn
<1>13. DoneIn(w) \subseteq DoneIn(v)
  BY <1>9 DEF DoneIn
<1>14. ASSUME NEW k \in DOMAIN es, es[k].type = "item_done"
       PROVE  es[k].about \in DoneIn(v)
  <2>1. Len(w) + k \in DOMAIN v /\ v[Len(w) + k] = es[k]
    BY <1>1, <1>2
  <2>2. QED
    BY <1>14, <2>1 DEF DoneIn
<1>15. QED
  BY <1>2, <1>8, <1>11, <1>12, <1>13, <1>14 DEF v

LEMMA HalfIsCall ==
  ASSUME NEW L \in Nat, NEW k \in 1 .. 2 * L
  PROVE  (k + 1) \div 2 \in 1 .. L
OBVIOUS

LEMMA HalvesGrow ==
  ASSUME NEW j \in Nat, NEW k \in Nat, j < k, (j + 1) \div 2 = (k + 1) \div 2
  PROVE  j % 2 = 1
OBVIOUS

LEMMA DoublesHalve ==
  ASSUME NEW L \in Nat, NEW i \in 1 .. L
  PROVE  2 * i \in 1 .. 2 * L /\ (2 * i + 1) \div 2 = i /\ (2 * i) % 2 # 1
OBVIOUS

LEMMA JoinsAgree ==
  \A s, t, u \in Seq(Event) : s \o (t \o u) = (s \o t) \o u
OBVIOUS

LEMMA WrittenJoins ==
  ASSUME wire \in Seq(Event), NEW c, c.events \in Seq(Event), NEW d,
         NEW es \in Seq(Event), d.events = c.events \o es
  PROVE  Written(d) = Written(c) \o es
<1>1. \A s, t, u \in Seq(Event) : s \o (t \o u) = (s \o t) \o u
  BY JoinsAgree
<1>2. PICK t \in Seq(Event) : t = c.events
  OBVIOUS
<1>3. wire \o (t \o es) = (wire \o t) \o es
  BY <1>1
<1>4. QED
  BY <1>2, <1>3 DEF Written

(* Every call's arguments and item, each done once.                        *)
LEMMA CallsGo ==
  ASSUME NEW c, Ending(c),
         \A i \in DOMAIN c.state.toolCalls :
           /\ c.state.toolCalls[i].item \in AboutIn(Written(c))
           /\ c.state.toolCalls[i].item \notin DoneIn(Written(c)),
         \A i, j \in DOMAIN c.state.toolCalls :
           c.state.toolCalls[i].item = c.state.toolCalls[j].item => i = j
  PROVE  /\ Ending(ToolCallCompletion(c))
         /\ AddedIn(Written(ToolCallCompletion(c))) = AddedIn(Written(c))
         /\ DoneIn(Written(c)) \subseteq DoneIn(Written(ToolCallCompletion(c)))
         /\ \A i \in DOMAIN c.state.toolCalls :
              c.state.toolCalls[i].item \in DoneIn(Written(ToolCallCompletion(c)))
         /\ ToolCallCompletion(c).state.toolCalls = c.state.toolCalls
         /\ ToolCallCompletion(c).state.hasEmittedTextOutputItem =
              c.state.hasEmittedTextOutputItem
<1> DEFINE calls == c.state.toolCalls
           n == c.state.sequenceNumber
           call(k) == calls[(k + 1) \div 2]
           ended == [k \in 1 .. 2 * Len(calls) |->
                       [type |-> IF k % 2 = 1 THEN "args_done" ELSE "item_done",
                        about |-> call(k).item, body |-> call(k).arguments,
                        seq |-> n + k - 1]]
           t == [c.state EXCEPT !.sequenceNumber = n + Len(ended)]
           d == ToolCallCompletion(c)
           w == Written(c)
<1>1. /\ wire \in Seq(Event) /\ c \in InProgress /\ c.state \in StreamState
      /\ c.events \in Seq(Event) /\ w \in Seq(Event)
      /\ Running(w) /\ n = Len(w) /\ n \in Nat /\ calls \in Seq(ToolCall)
      /\ c.state.completed /\ c.state.hasStarted /\ Keeps(c.state, w)
  BY DEF Ending, InProgress, StreamState, Written
<1>2. Len(calls) \in Nat /\ DOMAIN calls = 1 .. Len(calls)
  BY <1>1
<1>3. d = [c EXCEPT !.events = c.events \o ended, !.state = t]
  BY <1>1 DEF ToolCallCompletion, InProgress, StreamState
<1> DEFINE L == Len(calls)
<1>4. \A k \in 1 .. 2 * L : (k + 1) \div 2 \in DOMAIN calls
  BY <1>2, HalfIsCall
<1>5. /\ DOMAIN ended = 1 .. 2 * L
      /\ \A k \in 1 .. 2 * L :
           /\ ended[k].type = IF k % 2 = 1 THEN "args_done" ELSE "item_done"
           /\ ended[k].about = calls[(k + 1) \div 2].item
           /\ ended[k].seq = n + k - 1
           /\ ended[k].body = calls[(k + 1) \div 2].arguments
  OBVIOUS
<1>6. \A k \in 1 .. 2 * L : ended[k] \in Event
  <2> SUFFICES ASSUME NEW k \in 1 .. 2 * L PROVE ended[k] \in Event
    OBVIOUS
  <2>1. call(k) \in ToolCall
    BY <1>1, <1>4
  <2>2. call(k).item \in Item /\ call(k).arguments \in Seq(Nat)
    BY <2>1 DEF ToolCall
  <2>3. n + k - 1 \in Nat
    BY <1>1, <1>2
  <2>4. QED
    BY <2>2, <2>3 DEF Event, Kinds
<1>7. ended \in Seq(Event) /\ Len(ended) = 2 * L
  <2>1. ended = [k \in 1 .. 2 * L |-> ended[k]]
    BY <1>5
  <2> HIDE DEF ended
  <2>2. 2 * L \in Nat
    BY <1>2
  <2> HIDE DEF L
  <2>3. QED
    BY <1>5, <1>6, <2>1, <2>2
<1> HIDE DEF ended
<1>8. ASSUME NEW k \in DOMAIN ended
      PROVE  /\ ended[k].seq = Len(w) + k - 1
             /\ ended[k].type \in {"args_done", "item_done"}
             /\ ended[k].about \in AboutIn(w) /\ ended[k].about \notin DoneIn(w)
             /\ \A j \in 1 .. k - 1 :
                  ended[j].type = "item_done" => ended[j].about # ended[k].about
             /\ InOrder(ended[k].body, DeltasIn(w, ended[k].about))
  <2>1. k \in 1 .. 2 * L /\ (k + 1) \div 2 \in DOMAIN calls
    BY <1>4, <1>5
  <2>2. ASSUME NEW j \in 1 .. k - 1, ended[j].type = "item_done",
               ended[j].about = ended[k].about
        PROVE  FALSE
    <3>1. j \in 1 .. 2 * L /\ j \in Nat /\ k \in Nat /\ j < k
      BY <1>2, <2>1
    <3>2. j % 2 # 1
      BY <1>5, <2>2, <3>1
    <3>3. (j + 1) \div 2 \in DOMAIN calls
      BY <1>4, <3>1
    <3>4. (j + 1) \div 2 = (k + 1) \div 2
      BY <1>5, <2>1, <2>2, <3>1, <3>3
    <3>5. QED
      BY <3>1, <3>2, <3>4, HalvesGrow
  <2>3. InOrder(ended[k].body, DeltasIn(w, ended[k].about))
    BY <1>1, <1>5, <2>1 DEF Keeps
  <2>4. QED
    BY <1>1, <1>5, <2>1, <2>2, <2>3
<1>85. \A i \in DOMAIN calls :
         \E k \in DOMAIN ended : ended[k].type = "item_done" /\ ended[k].about = calls[i].item
  <2> SUFFICES ASSUME NEW i \in DOMAIN calls
               PROVE  \E k \in DOMAIN ended :
                        ended[k].type = "item_done" /\ ended[k].about = calls[i].item
    OBVIOUS
  <2>1. 2 * i \in 1 .. 2 * L /\ (2 * i + 1) \div 2 = i /\ (2 * i) % 2 # 1
    BY <1>2, DoublesHalve
  <2>2. ended[2 * i].type = "item_done" /\ ended[2 * i].about = calls[i].item
    BY <1>5, <2>1
  <2>3. QED
    BY <1>5, <2>1, <2>2
<1>9. /\ Running(w \o ended) /\ Len(w \o ended) = Len(w) + Len(ended)
      /\ AddedIn(w \o ended) = AddedIn(w)
      /\ \A item : DeltasIn(w \o ended, item) = DeltasIn(w, item)
      /\ DoneIn(w) \subseteq DoneIn(w \o ended)
      /\ \A k \in DOMAIN ended :
           ended[k].type = "item_done" => ended[k].about \in DoneIn(w \o ended)
  BY <1>1, <1>7, <1>8, RunFits, Zenon
<1>10. /\ t \in StreamState /\ t.sequenceNumber = Len(w) + Len(ended)
       /\ t.completed = c.state.completed /\ t.hasStarted = c.state.hasStarted
       /\ t.toolCalls = calls
       /\ t.hasEmittedTextOutputItem = c.state.hasEmittedTextOutputItem
       /\ t.accumulatedText = c.state.accumulatedText
       /\ t.accumulatedReasoningText = c.state.accumulatedReasoningText
  <2>1. n + Len(ended) \in Nat
    BY <1>1, <1>2, <1>7
  <2> HIDE DEF n
  <2>2. QED
    BY <1>1, <2>1 DEF StreamState
<1>105. Keeps(t, w \o ended)
  <2>1. LatestIn(w \o ended) = LatestIn(w)
    BY <1>9 DEF LatestIn
  <2>2. QED
    BY <1>1, <1>9, <1>10, <2>1 DEF Keeps
<1> HIDE DEF t, d, n, L
<1> HIDE DEF calls
<1>11. d.events = c.events \o ended /\ d.state = t /\ d \in InProgress
  <2>1. c.events \o ended \in Seq(Event)
    BY <1>1, <1>7
  <2>2. QED
    BY <1>1, <1>3, <1>10, <2>1 DEF InProgress
<1>12. Written(d) = w \o ended
  BY <1>1, <1>7, <1>11, WrittenJoins, Zenon DEF w
<1>13. Ending(d)
  BY <1>1, <1>9, <1>10, <1>105, <1>11, <1>12 DEF Ending
<1>14. /\ AddedIn(Written(d)) = AddedIn(w) /\ DoneIn(w) \subseteq DoneIn(Written(d))
       /\ \A i \in DOMAIN calls : calls[i].item \in DoneIn(Written(d))
       /\ d.state.toolCalls = calls
       /\ d.state.hasEmittedTextOutputItem = c.state.hasEmittedTextOutputItem
  <2>1. ASSUME NEW i \in DOMAIN calls PROVE calls[i].item \in DoneIn(Written(d))
    <3>1. PICK k \in DOMAIN ended :
            ended[k].type = "item_done" /\ ended[k].about = calls[i].item
      BY <1>85
    <3>2. QED
      BY <1>9, <1>12, <3>1
  <2>2. QED
    BY <1>9, <1>10, <1>11, <1>12, <2>1
<1>15. QED
  BY <1>13, <1>14 DEF d, calls, w

-----------------------------------------------------------------------------
(* What has been sent follows the protocol and the state stands to it as   *)
(* it should, however many chunks there are (streamTransform.ts).          *)
LEMMA InitIInv == Init => IInv
<1> SUFFICES ASSUME Init PROVE IInv
  OBVIOUS
<1>1. Types
  BY DataAssumption DEF Init, Types, StreamState
<1>2. wire = <<>> /\ state.sequenceNumber = 0 /\ ~state.completed /\ ~state.hasStarted
  BY DEF Init
<1>3. Known(state, {}, 0) /\ Keeps(state, <<>>)
  <2>1. LatestIn(<<>>) = {} /\ \A item : DeltasIn(<<>>, item) = {}
    BY DEF LatestIn, AddedIn, DeltasIn
  <2>2. /\ ~state.hasEmittedTextOutputItem /\ ~state.hasEmittedReasoningItem
        /\ state.accumulatedText = <<>> /\ state.accumulatedReasoningText = <<>>
        /\ state.toolCalls = <<>> /\ DOMAIN state.toolCalls = {}
    BY DEF Init
  <2>3. Known(state, {}, 0)
    BY <2>2 DEF Known
  <2>4. Keeps(state, <<>>)
    BY <2>1, <2>2, NothingInOrder DEF Keeps
  <2>5. QED
    BY <2>3, <2>4
<1>4. QED
  BY <1>1, <1>2, <1>3, EmptyTells DEF IInv

LEMMA ChunkKeeps ==
  ASSUME IInv, NEW says \in BOOLEAN, NEW thinks \in BOOLEAN, NEW calls \in Calls,
         NEW finish \in {None, "stop", "length"}, HearChunk(says, thinks, calls, finish)
  PROVE  IInv'
<1> DEFINE begun == Begin(Fresh)
           said == IF says THEN Say(begun) ELSE begun
           thought == IF thinks THEN Think(said) ELSE said
           called == CallAll(thought, calls)
           last == [called EXCEPT !.state.finishReason = IF finish # None THEN finish ELSE @]
<1>1. ~state.completed
  BY DEF HearChunk
<1>2. Going(begun)
  BY <1>1, BeginGoes
<1>3. state' = last.state /\ wire' = Written(last)
  BY DEF HearChunk, Sends, Written
<1> HIDE DEF begun
<1>4. Going(said)
  BY <1>2, SayGoes
<1> HIDE DEF said
<1>5. Going(thought)
  BY <1>4, ThinkGoes
<1> HIDE DEF thought
<1>6. Going(called)
  BY <1>5, CallAllGoes
<1> HIDE DEF called
<1>7. Going(last)
  BY <1>6, FinishGoes
<1> HIDE DEF last
<1>8. /\ last.state \in StreamState /\ Written(last) \in Seq(Event)
      /\ Adding(last.state, Written(last)) /\ Protocol(Written(last))
      /\ last.state.hasStarted /\ ~last.state.completed
  BY <1>7 DEF Going, Adding, Running
<1>9. /\ state' \in StreamState /\ wire' \in Seq(Event)
      /\ Adding(state', wire') /\ Protocol(wire')
      /\ state.hasStarted' /\ ~state.completed'
  BY <1>3, <1>8
<1>10. QED
  BY <1>9 DEF IInv, Types

(* The last event of a stream that had begun.                              *)
LEMMA LastEnds ==
  ASSUME NEW w \in Seq(Event), w # <<>>, Protocol(w), ~Ended(w), NEW e \in Event,
         e.seq = Len(w), e.about = None,
         \/ e.type = "completed" /\ ~Failing(w)
         \/ e.type = "failed" /\ Len(w) > 1 /\ w[Len(w)].type = "error",
         Repeats(w, e), Completes(w, e)
  PROVE  LET v == Append(w, e) IN
         /\ v \in Seq(Event) /\ Protocol(v) /\ v # <<>>
         /\ v[Len(v)].type \in {"completed", "failed"}
<1>1. Fits(w, e)
  BY DEF Fits, Says, Adds
<1>2. Protocol(Append(w, e))
  BY <1>1, AppendFits
<1>3. /\ Append(w, e) \in Seq(Event) /\ Append(w, e) # <<>>
      /\ Append(w, e)[Len(Append(w, e))] = e
  OBVIOUS
<1>4. QED
  BY <1>2, <1>3

(* A state that has been told of its end.                                  *)
LEMMA ToldOfEnd ==
  ASSUME Types
  PROVE  LET a == [Fresh EXCEPT !.state.completed = TRUE] IN
         /\ a \in InProgress /\ Written(a) = wire
         /\ a.state.completed /\ a.state.hasStarted = state.hasStarted
         /\ a.state.sequenceNumber = state.sequenceNumber
         /\ a.state.toolCalls = state.toolCalls
         /\ a.state.hasEmittedTextOutputItem = state.hasEmittedTextOutputItem
         /\ a.state.accumulatedText = state.accumulatedText
         /\ a.state.accumulatedReasoningText = state.accumulatedReasoningText
<1>1. /\ Fresh \in InProgress /\ Fresh.state = state /\ Fresh.events = <<>>
      /\ Written(Fresh) = wire
  BY FreshWrites
<1> HIDE DEF Fresh
<1> DEFINE a == [Fresh EXCEPT !.state.completed = TRUE]
<1>2. /\ a \in InProgress /\ a.events = Fresh.events
      /\ a.state.completed /\ a.state.hasStarted = state.hasStarted
      /\ a.state.sequenceNumber = state.sequenceNumber
      /\ a.state.toolCalls = state.toolCalls
      /\ a.state.hasEmittedTextOutputItem = state.hasEmittedTextOutputItem
      /\ a.state.accumulatedText = state.accumulatedText
      /\ a.state.accumulatedReasoningText = state.accumulatedReasoningText
  BY <1>1 DEF InProgress, StreamState
<1>3. QED
  BY <1>1, <1>2 DEF Written

LEMMA ErrorKeeps == ASSUME IInv, HearError PROVE IInv'
<1> DEFINE a == [Fresh EXCEPT !.state.completed = TRUE]
           e == Made(a, "error", None, <<>>)
           told == Send(a, e)
           now == Snapshot(told.state, "failed", TRUE)
           f == Made(told, "failed", None, now)
           d == IF state.hasStarted THEN Send(told, f) ELSE told
           v == Append(wire, e)
<1>1. Types /\ wire \in Seq(Event) /\ ~state.completed /\ Protocol(wire)
  BY DEF IInv, Types, HearError
<1>2. state' = d.state /\ wire' = Written(d)
  BY EmitSends DEF HearError, Sends, Written
<1>3. /\ a \in InProgress /\ Written(a) = wire
      /\ a.state.completed /\ a.state.hasStarted = state.hasStarted
      /\ a.state.sequenceNumber = state.sequenceNumber
      /\ a.state.toolCalls = state.toolCalls
      /\ a.state.accumulatedText = state.accumulatedText
      /\ a.state.accumulatedReasoningText = state.accumulatedReasoningText
  BY <1>1, ToldOfEnd
<1> HIDE DEF a
<1>4. /\ state.sequenceNumber = Len(wire) /\ DoneIn(wire) = {}
      /\ ~Ended(wire) /\ ~Failing(wire)
      /\ state.hasStarted => wire # <<>>
      /\ ~state.hasStarted => wire = <<>>
  <2>1. CASE state.hasStarted
    BY <1>1, <2>1 DEF IInv, Adding, Running
  <2>2. CASE ~state.hasStarted
    <3>1. wire = <<>> /\ state.sequenceNumber = 0
      BY <1>1, <2>2 DEF IInv
    <3>2. Len(wire) = 0
      BY <3>1
    <3>3. QED
      BY <2>2, <3>1, <3>2, EmptyTells
  <2>3. QED
    BY <2>1, <2>2
<1>5. /\ e \in Event /\ e.type = "error" /\ e.about = None /\ e.seq = Len(wire)
  <2>1. a.state.sequenceNumber \in Nat
    BY <1>3, CallNumbered
  <2>2. QED
    BY <1>3, <1>4, <2>1 DEF Made, Event, Kinds
<1> HIDE DEF e
<1>6. /\ told \in InProgress /\ Written(told) = Append(Written(a), e)
      /\ told.state = [a.state EXCEPT !.sequenceNumber = @ + 1]
      /\ told.state.sequenceNumber = a.state.sequenceNumber + 1
  BY <1>1, <1>3, <1>5, SendWrites, Zenon
<1> HIDE DEF told
<1>7. /\ told.state.completed /\ told.state.hasStarted = state.hasStarted
      /\ told.state.toolCalls = state.toolCalls
      /\ told.state.accumulatedText = state.accumulatedText
      /\ told.state.accumulatedReasoningText = state.accumulatedReasoningText
  BY <1>3, <1>6 DEF InProgress, StreamState
<1>8. Written(told) = v /\ told.state.sequenceNumber = Len(wire) + 1
  BY <1>3, <1>4, <1>6
<1>9. Protocol(v)
  <2>1. Fits(wire, e)
    <3>1. Says(wire, e)
      BY <1>5, SaysNothing
    <3>2. QED
      BY <1>4, <1>5, <3>1 DEF Fits
  <2>2. QED
    BY <1>1, <1>5, <2>1, AppendFits
<1>10. /\ v \in Seq(Event) /\ v # <<>> /\ Len(v) = Len(wire) + 1 /\ v[Len(v)] = e
       /\ ~Ended(v)
  <2>1. /\ v \in Seq(Event) /\ v # <<>> /\ Len(v) = Len(wire) + 1 /\ v[Len(v)] = e
        /\ Ended(v) <=> Ended(wire) \/ e.type \in {"completed", "failed"}
    BY <1>1, <1>5, AppendTells, Zenon
  <2>2. QED
    BY <1>4, <1>5, <2>1
<1> HIDE DEF v
<1>11. CASE ~state.hasStarted
  <2>1. state' = told.state /\ wire' = v /\ Len(wire) = 0
    BY <1>2, <1>4, <1>8, <1>11
  <2>2. /\ state' \in StreamState /\ wire' \in Seq(Event) /\ Protocol(wire')
        /\ Len(wire') = 1 /\ state.completed' /\ ~state.hasStarted'
    BY <1>6, <1>7, <1>9, <1>10, <1>11, <2>1 DEF InProgress
  <2>3. QED
    BY <2>2 DEF IInv, Types
<1>12. CASE state.hasStarted
  <2> DEFINE g == Send(told, f)
             u == Append(v, f)
  <2>1. state' = g.state /\ wire' = Written(g)
    BY <1>2, <1>12
  <2>2. now \in Report
    BY <1>6, SnapshotType DEF InProgress, Status
  <2>25. \A i \in DOMAIN now.output :
           InOrder(now.output[i].text, DeltasIn(v, now.output[i].item))
    <3>1. Keeps(state, wire)
      BY <1>1, <1>12 DEF IInv, Adding
    <3>2. Keeps(told.state, v)
      BY <1>1, <1>5, <1>7, <3>1, KeepsQuiet DEF v
    <3>3. told.state \in StreamState
      BY <1>6 DEF InProgress
    <3>4. QED
      BY <3>2, <3>3, SnapshotTells
  <2> HIDE DEF now
  <2>3. f \in Event /\ f.type = "failed" /\ f.about = None /\ f.seq = Len(v) /\ f.body = now
    <3>1. told.state.sequenceNumber \in Nat
      BY <1>6, CallNumbered
    <3>2. QED
      BY <1>8, <1>10, <2>2, <3>1 DEF Made, Event, Kinds
  <2> HIDE DEF f
  <2>4. /\ g \in InProgress /\ Written(g) = Append(Written(told), f)
        /\ g.state = [told.state EXCEPT !.sequenceNumber = @ + 1]
    BY <1>1, <1>6, <2>3, SendWrites, Zenon
  <2> HIDE DEF g
  <2>5. g.state \in StreamState /\ g.state.completed /\ g.state.hasStarted
    BY <1>6, <1>7, <1>12, <2>4 DEF InProgress, StreamState
  <2>6. Len(v) > 1 /\ v[Len(v)].type = "error"
    BY <1>1, <1>4, <1>5, <1>10, <1>12
  <2>7. u \in Seq(Event) /\ Protocol(u) /\ u # <<>> /\ u[Len(u)].type \in {"completed", "failed"}
    <3>1. Repeats(v, f) /\ Completes(v, f)
      BY <2>25, <2>3 DEF Repeats, Completes
    <3>2. QED
      BY <1>9, <1>10, <2>3, <2>6, <3>1, LastEnds
  <2>8. wire' = u
    BY <1>8, <2>1, <2>4
  <2> HIDE DEF u
  <2>9. /\ state' \in StreamState /\ wire' \in Seq(Event) /\ Protocol(wire')
        /\ state.completed' /\ state.hasStarted'
        /\ wire' # <<>> /\ (wire')[Len(wire')].type \in {"completed", "failed"}
    BY <2>1, <2>5, <2>7, <2>8
  <2>10. QED
    BY <2>9 DEF IInv, Types
<1>13. QED
  BY <1>11, <1>12

LEMMA DoneKeeps == ASSUME IInv, HearDone PROVE IInv'
<1> DEFINE ending == [Fresh EXCEPT !.state.completed = TRUE]
           text == IF state.hasEmittedTextOutputItem THEN TextCompletion(ending) ELSE ending
           calls == ToolCallCompletion(text)
           now == Snapshot(calls.state, "completed", TRUE)
           e == Made(calls, "completed", None, now)
           d == Send(calls, e)
<1>1. Types /\ wire \in Seq(Event) /\ ~state.completed /\ state.hasStarted
  BY DEF IInv, Types, HearDone
<1>2. Adding(state, wire)
  BY <1>1 DEF IInv
<1>3. state' = d.state /\ wire' = Written(d)
  BY EmitSends DEF HearDone, Sends, Written
<1>4. /\ ending \in InProgress /\ Written(ending) = wire
      /\ ending.state.completed /\ ending.state.hasStarted
      /\ ending.state.sequenceNumber = state.sequenceNumber
      /\ ending.state.toolCalls = state.toolCalls
      /\ ending.state.hasEmittedTextOutputItem = state.hasEmittedTextOutputItem
      /\ ending.state.accumulatedText = state.accumulatedText
      /\ ending.state.accumulatedReasoningText = state.accumulatedReasoningText
  BY <1>1, ToldOfEnd
<1> HIDE DEF ending
<1>5. Ending(ending) /\ DoneIn(Written(ending)) = {}
  <2>1. Keeps(ending.state, wire)
    BY <1>2, <1>4 DEF Adding, Keeps
  <2>2. QED
    BY <1>1, <1>2, <1>4, <2>1 DEF Ending, Adding
<1>6. /\ Ending(text) /\ AboutIn(Written(text)) = AboutIn(wire)
      /\ AddedIn(Written(text)) = AddedIn(wire)
      /\ DoneIn(Written(text)) = IF state.hasEmittedTextOutputItem THEN {TextItem} ELSE {}
      /\ text.state.toolCalls = state.toolCalls
      /\ text.state.hasEmittedTextOutputItem = state.hasEmittedTextOutputItem
  <2>1. CASE state.hasEmittedTextOutputItem
    <3>1. TextItem \in AboutIn(wire)
      BY <1>2, <2>1 DEF Adding, Known
    <3>2. /\ Ending(TextCompletion(ending)) /\ SameItems(ending, TextCompletion(ending))
          /\ DoneIn(Written(TextCompletion(ending))) = {TextItem}
      BY <1>4, <1>5, <3>1, TextGoes
    <3>3. text = TextCompletion(ending)
      BY <2>1
    <3> HIDE DEF text
    <3>4. QED
      BY <1>4, <2>1, <3>2, <3>3 DEF SameItems
  <2>2. CASE ~state.hasEmittedTextOutputItem
    <3>1. text = ending
      BY <2>2
    <3> HIDE DEF text
    <3>2. QED
      BY <1>4, <1>5, <2>2, <3>1
  <2>3. QED
    BY <2>1, <2>2
<1> HIDE DEF text
<1>7. /\ \A i \in DOMAIN state.toolCalls :
           /\ state.toolCalls[i].item \in AboutIn(wire)
           /\ state.toolCalls[i].item[1] = "call"
           /\ state.toolCalls[i].item[2] = state.toolCalls[i].index
      /\ \A i, j \in DOMAIN state.toolCalls :
           state.toolCalls[i].index = state.toolCalls[j].index => i = j
  BY <1>2 DEF Adding, Known
<1>8. \A i \in DOMAIN state.toolCalls : state.toolCalls[i].item # TextItem
  BY <1>7 DEF TextItem
<1>9. \A i \in DOMAIN text.state.toolCalls :
        /\ text.state.toolCalls[i].item \in AboutIn(Written(text))
        /\ text.state.toolCalls[i].item \notin DoneIn(Written(text))
  BY <1>6, <1>7, <1>8
<1>10. \A i, j \in DOMAIN text.state.toolCalls :
         text.state.toolCalls[i].item = text.state.toolCalls[j].item => i = j
  BY <1>6, <1>7
<1>11. /\ Ending(calls) /\ AddedIn(Written(calls)) = AddedIn(wire)
       /\ state.hasEmittedTextOutputItem => TextItem \in DoneIn(Written(calls))
       /\ \A i \in DOMAIN state.toolCalls : state.toolCalls[i].item \in DoneIn(Written(calls))
       /\ calls.state.toolCalls = state.toolCalls
       /\ calls.state.hasEmittedTextOutputItem = state.hasEmittedTextOutputItem
  <2>1. /\ Ending(calls) /\ AddedIn(Written(calls)) = AddedIn(Written(text))
        /\ DoneIn(Written(text)) \subseteq DoneIn(Written(calls))
        /\ \A i \in DOMAIN text.state.toolCalls :
             text.state.toolCalls[i].item \in DoneIn(Written(calls))
        /\ calls.state.toolCalls = text.state.toolCalls
        /\ calls.state.hasEmittedTextOutputItem = text.state.hasEmittedTextOutputItem
    BY <1>6, <1>9, <1>10, CallsGo
  <2> HIDE DEF calls
  <2>2. QED
    BY <1>6, <2>1
<1> HIDE DEF calls
<1> DEFINE w == Written(calls)
           v == Append(w, e)
<1>12. /\ calls \in InProgress /\ calls.state \in StreamState /\ w \in Seq(Event)
       /\ w # <<>> /\ Protocol(w) /\ ~Ended(w) /\ ~Failing(w)
       /\ calls.state.sequenceNumber = Len(w)
       /\ calls.state.completed /\ calls.state.hasStarted
       /\ Keeps(calls.state, w)
  BY <1>1, <1>11 DEF Ending, Running, InProgress, Written
<1>13. now \in Report
  BY <1>12, SnapshotType DEF Status
<1>135. /\ \A i \in DOMAIN now.output :
             InOrder(now.output[i].text, DeltasIn(w, now.output[i].item))
        /\ state.hasEmittedTextOutputItem =>
             \E i \in DOMAIN now.output : now.output[i].item = TextItem
        /\ \A j \in DOMAIN state.toolCalls :
             \E i \in DOMAIN now.output : now.output[i].item = state.toolCalls[j].item
  <2> HIDE DEF w
  <2>1. PICK s \in StreamState : s = calls.state /\ Keeps(s, w)
    BY <1>12
  <2> DEFINE told == Snapshot(s, "completed", TRUE)
  <2>2. /\ \A i \in DOMAIN told.output :
             InOrder(told.output[i].text, DeltasIn(w, told.output[i].item))
        /\ s.hasEmittedTextOutputItem =>
             \E i \in DOMAIN told.output : told.output[i].item = TextItem
        /\ \A j \in DOMAIN s.toolCalls :
             \E i \in DOMAIN told.output : told.output[i].item = s.toolCalls[j].item
    <3>1. \A i \in DOMAIN told.output :
            InOrder(told.output[i].text, DeltasIn(w, told.output[i].item))
      BY <2>1, SnapshotTells
    <3>2. s.hasEmittedTextOutputItem =>
            \E i \in DOMAIN told.output : told.output[i].item = TextItem
      BY <2>1, SnapshotTells
    <3>3. \A j \in DOMAIN s.toolCalls :
            \E i \in DOMAIN told.output : told.output[i].item = s.toolCalls[j].item
      <4> SUFFICES ASSUME NEW j \in DOMAIN s.toolCalls
                   PROVE  \E i \in DOMAIN told.output : told.output[i].item = s.toolCalls[j].item
        OBVIOUS
      <4>1. QED
        BY <2>1, SnapshotLists
    <3>4. QED
      BY <3>1, <3>2, <3>3
  <2>3. now = told
    BY <2>1
  <2> HIDE DEF now, told
  <2>4. QED
    BY <1>11, <2>1, <2>2, <2>3
<1> HIDE DEF now
<1>14. /\ e \in Event /\ e.type = "completed" /\ e.about = None /\ e.seq = Len(w)
       /\ e.body = now
  BY <1>12, <1>13, CallNumbered DEF Made, Event, Kinds
<1> HIDE DEF e
<1>15. /\ d \in InProgress /\ Written(d) = v
       /\ d.state = [calls.state EXCEPT !.sequenceNumber = @ + 1]
  BY <1>1, <1>12, <1>14, SendWrites, Zenon
<1>155. Repeats(w, e) /\ Completes(w, e)
  <2>1. Repeats(w, e)
    BY <1>135, <1>14 DEF Repeats
  <2>2. ASSUME NEW x \in AddedIn(w), x[1] = "text" \/ x \in LatestIn(w)
        PROVE  x \in DoneIn(w) /\ \E i \in DOMAIN now.output : now.output[i].item = x
    <3>1. CASE x \in LatestIn(w)
      <4>1. PICK j \in DOMAIN state.toolCalls : state.toolCalls[j].item = x
        BY <1>11, <1>12, <3>1 DEF Keeps
      <4>2. QED
        BY <1>11, <1>135, <4>1
    <3>2. CASE x[1] = "text"
      <4>1. PICK m \in DOMAIN w : w[m].type = "item_added" /\ w[m].about = x
        BY DEF AddedIn
      <4>2. x = TextItem
        BY <1>12, <3>2, <4>1, AddedTold
      <4>3. x \in AboutIn(wire)
        <5>1. AddedIn(wire) \subseteq AboutIn(wire)
          BY <1>1, <1>2, DeltasAreEarlier DEF Adding, Running
        <5>2. QED
          BY <1>11, <5>1
      <4>4. state.hasEmittedTextOutputItem
        BY <1>2, <4>2, <4>3 DEF Adding, Known
      <4>5. QED
        BY <1>11, <1>135, <4>2, <4>4
    <3>3. QED
      BY <2>2, <3>1, <3>2
  <2>3. Completes(w, e)
    BY <1>14, <2>2 DEF Completes
  <2>4. QED
    BY <2>1, <2>3
<1> HIDE DEF d, w
<1>16. d.state \in StreamState /\ d.state.completed /\ d.state.hasStarted
  BY <1>12, <1>15 DEF InProgress, StreamState
<1>17. v \in Seq(Event) /\ Protocol(v) /\ v # <<>> /\ v[Len(v)].type \in {"completed", "failed"}
  BY <1>12, <1>14, <1>155, LastEnds
<1> HIDE DEF v
<1>18. /\ state' \in StreamState /\ wire' \in Seq(Event) /\ Protocol(wire')
       /\ state.completed' /\ state.hasStarted'
       /\ wire' # <<>> /\ (wire')[Len(wire')].type \in {"completed", "failed"}
  BY <1>3, <1>15, <1>16, <1>17
<1>19. QED
  BY <1>18 DEF IInv, Types

THEOREM StateIsSound == Spec => []IInv
<1>1. Init => IInv
  BY InitIInv
<1>2. IInv /\ [Next]_vars => IInv'
  <2> SUFFICES ASSUME IInv, [Next]_vars PROVE IInv'
    OBVIOUS
  <2>1. ASSUME NEW says \in BOOLEAN, NEW thinks \in BOOLEAN, NEW calls \in Calls,
               NEW finish \in {None, "stop", "length"},
               HearChunk(says, thinks, calls, finish)
        PROVE  IInv'
    BY <2>1, ChunkKeeps
  <2>2. CASE HearError
    BY <2>2, ErrorKeeps
  <2>3. CASE HearDone
    BY <2>3, DoneKeeps
  <2>4. CASE UNCHANGED vars
    BY <2>4 DEF vars, IInv, Types
  <2>5. QED
    BY <2>1, <2>2, <2>3, <2>4 DEF Next
<1>3. QED
  BY <1>1, <1>2, PTL DEF Spec

-----------------------------------------------------------------------------
(* What the caller has read before the n-th event.                         *)
LEMMA PrefixTells ==
  ASSUME wire \in Seq(Event), NEW n \in DOMAIN wire
  PROVE  /\ SubSeq(wire, 1, n - 1) \in Seq(Event)
         /\ Len(SubSeq(wire, 1, n - 1)) = n - 1
         /\ DOMAIN SubSeq(wire, 1, n - 1) = 1 .. n - 1
         /\ \A m \in 1 .. n - 1 : SubSeq(wire, 1, n - 1)[m] = wire[m] /\ m \in DOMAIN wire
         /\ SubSeq(wire, 1, n - 1) = <<>> <=> n = 1
         /\ n \in Nat /\ n >= 1 /\ n <= Len(wire)
OBVIOUS

LEMMA NumbersAgree == ASSUME IInv PROVE Sequenced
<1>1. wire \in Seq(Event) /\ Protocol(wire)
  BY DEF IInv, Types
<1> SUFFICES ASSUME NEW n \in DOMAIN wire PROVE wire[n].seq = n - 1
  BY DEF Sequenced
<1>2. wire[n].seq = Len(SubSeq(wire, 1, n - 1))
  BY <1>1 DEF Protocol, Fits
<1>3. QED
  BY <1>1, <1>2, PrefixTells

LEMMA ItemsAgree == ASSUME IInv PROVE ItemsFollow
<1>1. wire \in Seq(Event) /\ Protocol(wire)
  BY DEF IInv, Types
<1> SUFFICES ASSUME NEW n \in DOMAIN wire, wire[n].about # None
             PROVE  LET earlier == {m \in 1 .. n - 1 : wire[m].about = wire[n].about} IN
                    /\ Is(n, "item_added") <=> earlier = {}
                    /\ \A m \in earlier : ~Is(m, "item_done")
  BY DEF ItemsFollow
<1> DEFINE w == SubSeq(wire, 1, n - 1)
           earlier == {m \in 1 .. n - 1 : wire[m].about = wire[n].about}
<1>2. Fits(w, wire[n])
  BY <1>1 DEF Protocol
<1>3. DOMAIN w = 1 .. n - 1 /\ \A m \in 1 .. n - 1 : w[m] = wire[m]
  BY <1>1, PrefixTells
<1> HIDE DEF w
<1>4. Is(n, "item_added") <=> wire[n].about \notin AboutIn(w)
  BY <1>2 DEF Fits, Is
<1>5. wire[n].about \notin DoneIn(w)
  BY <1>2 DEF Fits
<1>6. wire[n].about \notin AboutIn(w) <=> earlier = {}
  BY <1>3 DEF AboutIn
<1>7. \A m \in earlier : ~Is(m, "item_done")
  BY <1>3, <1>5 DEF DoneIn, Is
<1>8. QED
  BY <1>4, <1>6, <1>7

LEMMA EndAgrees == ASSUME IInv PROVE EndsOnce
<1>1. /\ wire \in Seq(Event) /\ Protocol(wire) /\ Len(wire) \in Nat
      /\ DOMAIN wire = 1 .. Len(wire)
  BY DEF IInv, Types
<1>2. ASSUME NEW m \in DOMAIN wire, NEW n \in DOMAIN wire, m < n
      PROVE  /\ wire[m].type \notin {"completed", "failed"}
             /\ wire[m].type = "error" => wire[n].type = "failed"
  <2> DEFINE w == SubSeq(wire, 1, n - 1)
  <2>1. Fits(w, wire[n])
    BY <1>1 DEF Protocol
  <2>2. DOMAIN w = 1 .. n - 1 /\ \A k \in 1 .. n - 1 : w[k] = wire[k]
    BY <1>1, PrefixTells
  <2>3. m \in 1 .. n - 1
    BY <1>1, <1>2
  <2> HIDE DEF w
  <2>4. m \in DOMAIN w /\ w[m] = wire[m]
    BY <2>2, <2>3
  <2>5. QED
    BY <2>1, <2>4 DEF Fits, Ended, Failing
<1>3. ASSUME NEW n \in DOMAIN wire, wire[n].type = "failed"
      PROVE  n > 2 /\ wire[n - 1].type = "error"
  <2> DEFINE w == SubSeq(wire, 1, n - 1)
  <2>1. Fits(w, wire[n])
    BY <1>1 DEF Protocol
  <2>2. /\ Len(w) = n - 1 /\ \A k \in 1 .. n - 1 : w[k] = wire[k]
        /\ n \in Nat
    BY <1>1, PrefixTells
  <2> HIDE DEF w
  <2>3. n - 1 > 1 /\ w[n - 1].type = "error"
    BY <1>3, <2>1, <2>2 DEF Fits
  <2>4. QED
    BY <2>2, <2>3
<1>4. ASSUME NEW n \in DOMAIN wire
      PROVE  wire[n].type = "created" <=> n = 1 /\ wire[1].type # "error"
  <2> DEFINE w == SubSeq(wire, 1, n - 1)
  <2>1. Fits(w, wire[n]) /\ (w = <<>> <=> n = 1)
    BY <1>1, PrefixTells DEF Protocol
  <2> HIDE DEF w
  <2>2. wire[n].type = "created" <=> w = <<>> /\ wire[n].type # "error"
    BY <2>1 DEF Fits
  <2>3. QED
    BY <2>1, <2>2
<1>5. ASSUME NEW n \in DOMAIN wire, wire[n].type \in {"completed", "failed"}
      PROVE  n = Len(wire)
  <2> SUFFICES ASSUME n # Len(wire) PROVE FALSE
    OBVIOUS
  <2>1. Len(wire) \in DOMAIN wire /\ n < Len(wire)
    BY <1>1
  <2>2. QED
    BY <1>2, <1>5, <2>1
<1>6. ASSUME NEW n \in DOMAIN wire, wire[n].type = "error"
      PROVE  IF n = 1 THEN Len(wire) = 1
             ELSE n = Len(wire) - 1 /\ wire[n + 1].type = "failed"
  <2>1. n = Len(wire) \/ (n + 1 \in DOMAIN wire /\ n < n + 1)
    BY <1>1
  <2>2. ASSUME n + 1 \in DOMAIN wire, n < n + 1
        PROVE  wire[n + 1].type = "failed" /\ n + 1 = Len(wire) /\ n > 1
    <3>1. wire[n + 1].type = "failed"
      BY <1>2, <1>6, <2>2
    <3>2. n + 1 = Len(wire) /\ n + 1 > 2
      BY <1>3, <1>5, <2>2, <3>1
    <3>3. QED
      BY <1>1, <3>1, <3>2
  <2>3. CASE n = Len(wire)
    <3>1. wire # <<>> /\ Failing(wire)
      BY <1>1, <1>6 DEF Failing
    <3>2. state.completed /\ ~state.hasStarted
      <4>1. ~(~state.completed /\ state.hasStarted)
        BY <3>1 DEF IInv, Adding, Running
      <4>2. ~(~state.completed /\ ~state.hasStarted)
        BY <3>1 DEF IInv
      <4>3. ~(state.completed /\ state.hasStarted)
        BY <1>6, <2>3 DEF IInv
      <4>4. QED
        BY <4>1, <4>2, <4>3
    <3>3. Len(wire) = 1
      BY <3>2 DEF IInv
    <3>4. QED
      BY <2>3, <3>3
  <2>4. CASE n + 1 \in DOMAIN wire /\ n < n + 1
    BY <1>1, <2>2, <2>4
  <2>5. QED
    BY <2>1, <2>3, <2>4
<1>7. state.completed /\ state.hasStarted => wire[Len(wire)].type \in {"completed", "failed"}
  BY DEF IInv
<1>8. ASSUME NEW n \in DOMAIN wire
      PROVE  /\ Is(n, "created") <=> n = 1 /\ ~Is(1, "error")
             /\ Is(n, "completed") => n = Len(wire)
             /\ Is(n, "error") => IF n = 1 THEN Len(wire) = 1
                                  ELSE n = Len(wire) - 1 /\ Is(n + 1, "failed")
             /\ Is(n, "failed") => n = Len(wire) /\ Is(n - 1, "error")
  BY <1>3, <1>4, <1>5, <1>6 DEF Is
<1>9. QED
  BY <1>7, <1>8, Zenon DEF EndsOnce, Is

(* What an event repeats of an item is what the caller was sent of it.     *)
LEMMA StreamedTells ==
  ASSUME wire \in Seq(Event), NEW n \in DOMAIN wire, wire[n].type # "delta", NEW item
  PROVE  Streamed(item, n) = DeltasIn(SubSeq(wire, 1, n - 1), item)
<1> DEFINE w == SubSeq(wire, 1, n - 1)
<1>1. DOMAIN w = 1 .. n - 1 /\ \A m \in 1 .. n - 1 : w[m] = wire[m]
  BY PrefixTells
<1>2. n \in Nat /\ \A k : k \in 1 .. n <=> k \in 1 .. n - 1 \/ k = n
  BY PrefixTells
<1> HIDE DEF w
<1>3. \A k : k \in 1 .. n /\ Tells(k, item, "delta") <=>
             k \in DOMAIN w /\ w[k].type = "delta" /\ w[k].about = item
  BY <1>1, <1>2 DEF Tells, Is
<1>4. Streamed(item, n) = DeltasIn(w, item)
  BY <1>1, <1>3 DEF Streamed, DeltasIn
<1>5. QED
  BY <1>4 DEF w

LEMMA AssembledAgrees == ASSUME IInv PROVE Assembled
<1>1. wire \in Seq(Event) /\ Protocol(wire)
  BY DEF IInv, Types
<1> SUFFICES ASSUME NEW n \in DOMAIN wire
             PROVE  /\ wire[n].type \in {"text_done", "part_done", "args_done", "item_done"} =>
                         InOrder(wire[n].body, Streamed(wire[n].about, n))
                    /\ wire[n].type \in {"completed", "failed"} =>
                         \A i \in DOMAIN wire[n].body.output :
                           InOrder(wire[n].body.output[i].text,
                                   Streamed(wire[n].body.output[i].item, n))
  BY DEF Assembled
<1> DEFINE w == SubSeq(wire, 1, n - 1)
<1>2. Repeats(w, wire[n])
  BY <1>1 DEF Protocol, Fits, Says
<1>3. ASSUME wire[n].type # "delta"
      PROVE  \A item : Streamed(item, n) = DeltasIn(w, item)
  BY <1>1, <1>3, StreamedTells
<1> HIDE DEF w
<1>4. QED
  BY <1>2, <1>3 DEF Repeats

LEMMA AllDoneAgrees == ASSUME IInv PROVE AllDone
<1>1. wire \in Seq(Event) /\ Protocol(wire) /\ ItemsFollow
  BY ItemsAgree DEF IInv, Types
<1> SUFFICES ASSUME NEW n \in DOMAIN wire, wire[n].type = "completed",
                    NEW m \in 1 .. n, wire[m].type = "item_added",
                    wire[m].about[1] # "reasoning",
                    \A k \in m + 1 .. n :
                      ~(/\ wire[k].type = "item_added" /\ wire[k].about[1] = "call"
                        /\ wire[k].about[1] = wire[m].about[1]
                        /\ wire[k].about[2] = wire[m].about[2])
             PROVE  /\ \E k \in m .. n :
                         wire[k].about = wire[m].about /\ wire[k].type = "item_done"
                    /\ \E i \in DOMAIN wire[n].body.output :
                         wire[n].body.output[i].item = wire[m].about
  BY DEF AllDone, Tells, Is
<1> DEFINE w == SubSeq(wire, 1, n - 1)
           x == wire[m].about
<1>2. Fits(w, wire[n])
  BY <1>1 DEF Protocol
<1>3. /\ w \in Seq(Event) /\ DOMAIN w = 1 .. n - 1 /\ n \in Nat
      /\ \A k \in 1 .. n - 1 : w[k] = wire[k] /\ k \in DOMAIN wire
  BY <1>1, PrefixTells
<1> HIDE DEF w
<1>4. m \in 1 .. n - 1 /\ m \in DOMAIN wire /\ m \in Nat
  BY <1>3
<1>5. x \in AddedIn(w)
  BY <1>3, <1>4 DEF AddedIn
<1>6. ASSUME NEW k \in 1 .. n - 1, wire[k].type = "item_added"
      PROVE  /\ wire[k].about \in Item
             /\ wire[k].about[1] = "text" => wire[k].about = TextItem
             /\ wire[k].about[1] = "call" => wire[k].about[3] = k - 1
  BY <1>1, <1>3, <1>6, AddedTold
<1>7. x[1] = "text" \/ x \in LatestIn(w)
  <2>1. x[1] \in {"text", "call"}
    BY <1>4, <1>6 DEF Item
  <2>2. ASSUME x[1] = "call", NEW y \in AddedIn(w), y[1] = "call", y[2] = x[2]
        PROVE  y[3] <= x[3]
    <3>1. PICK k \in 1 .. n - 1 : wire[k].type = "item_added" /\ wire[k].about = y
      BY <1>3 DEF AddedIn
    <3>2. y[3] = k - 1 /\ x[3] = m - 1 /\ k \in Nat
      BY <1>4, <1>6, <2>2, <3>1
    <3>3. k \notin m + 1 .. n
      BY <2>2, <3>1
    <3>4. k <= m
      BY <1>3, <1>4, <3>1, <3>3
    <3>5. QED
      BY <1>4, <3>2, <3>4
  <2>3. QED
    BY <1>5, <2>1, <2>2 DEF LatestIn
<1>8. /\ x \in DoneIn(w)
      /\ \E i \in DOMAIN wire[n].body.output : wire[n].body.output[i].item = x
  BY <1>2, <1>5, <1>7 DEF Fits, Says, Completes
<1>9. PICK k \in 1 .. n - 1 : wire[k].type = "item_done" /\ wire[k].about = x
  BY <1>3, <1>8 DEF DoneIn
<1>10. m <= k
  <2> SUFFICES ASSUME k < m PROVE FALSE
    BY <1>4
  <2>1. k \in 1 .. m - 1
    BY <1>4
  <2>2. x # None
    BY <1>4, <1>6, NoneIsNoItem
  <2>3. \A j \in {i \in 1 .. m - 1 : wire[i].about = wire[m].about} : wire[j].type # "item_done"
    BY <1>1, <1>4, <2>2 DEF ItemsFollow, Is
  <2>4. QED
    BY <1>9, <2>1, <2>3
<1>11. k \in m .. n
  BY <1>3, <1>4, <1>10
<1>12. QED
  BY <1>8, <1>9, <1>11

(* The events are numbered without a gap, whatever the chunks carry: every *)
(* emitter takes the number and moves it on (sequenceNumber++).            *)
THEOREM EventsNumbered == Spec => []Sequenced
<1>1. IInv => Sequenced
  BY NumbersAgree
<1>2. QED
  BY <1>1, StateIsSound, PTL

(* A response ends once: [DONE] completes it, an error fails one that was  *)
(* announced, and neither is followed by anything.                         *)
THEOREM ResponseEndsOnce == Spec => []EndsOnce
<1>1. IInv => EndsOnce
  BY EndAgrees
<1>2. QED
  BY <1>1, StateIsSound, PTL

(* The events are one sequence from its beginning to its end, whatever the *)
(* provider streams and however much of it.                                *)
THEOREM SequenceIsOne == Spec => []OneSequence
<1>1. Sequenced /\ EndsOnce => OneSequence
  BY DEF OneSequence
<1> QED
  BY <1>1, EventsNumbered, ResponseEndsOnce, PTL

(* Items are added before and done after all that is said of them, for any *)
(* number of tool calls and takeovers of an index.                         *)
THEOREM ItemsAreFollowed == Spec => []ItemsFollow
<1>1. IInv => ItemsFollow
  BY ItemsAgree
<1>2. QED
  BY <1>1, StateIsSound, PTL

(* What ends an item, and the report of the response's own end, completed  *)
(* or failed, repeat its deltas and all of them, in order: the adapter     *)
(* accumulates what it streams, and nothing else (accumulatedText,         *)
(* toolCall.arguments).                                                    *)
THEOREM ItemsAreAssembled == Spec => []Assembled
<1>1. IInv => Assembled
  BY AssembledAgrees
<1>2. QED
  BY <1>1, StateIsSound, PTL

(* A completed response has done, and reports, its text and every call but *)
(* those whose index a later call took over (toolCalls.set).               *)
THEOREM AllIsDone == Spec => []AllDone
<1>1. IInv => AllDone
  BY AllDoneAgrees
<1>2. QED
  BY <1>1, StateIsSound, PTL
=============================================================================
