-------------------------- MODULE ResponsesStream ---------------------------
(***************************************************************************)
(* The Responses adapter: chat completion chunks in, Responses API events  *)
(* out (adapters/responses/streamTransform.ts).  Each chunk is transformed *)
(* whole, by one synchronous call that reads and writes one state.         *)
(*                                                                         *)
(* A fragment of text or of arguments is known by the sequence number of   *)
(* the delta that carried it, so what an item is assembled from can be     *)
(* compared with what was streamed of it.  Events keep the order and the   *)
(* items they are about; ids, models and token counts are left out.        *)
(***************************************************************************)
EXTENDS Naturals, Sequences, FiniteSets

CONSTANTS
  Indices,   \* the indices a provider gives its tool calls
  MaxParts,  \* bound: things said before the stream ends
  None       \* null, undefined

ASSUME DataAssumption ==
  /\ Indices \subseteq Nat
  /\ MaxParts \in Nat
  /\ None \notin Nat /\ None \notin {"reasoning", "text", "call"} \X Nat \X Nat

(* One entry of delta.tool_calls, and what a chunk may carry of them.      *)
Piece == [index : Indices, named : BOOLEAN, args : BOOLEAN]
Calls == {<<>>} \cup {<<p>> : p \in Piece} \cup (Piece \X Piece)

(* Items, with their output_index: the reasoning, the text, and one per    *)
(* tool call, whose random id is the sequence number it is added with.     *)
Reasoning == <<"reasoning", 0, 0>>
TextItem == <<"text", 0, 0>>
CallItem(index, n) == <<"call", index, n>>

VARIABLES
  state,  \* StreamState
  wire,   \* the events sent
  parts   \* how much has been said, for the bound

vars == <<state, wire, parts>>

Init ==
  /\ state = [hasStarted |-> FALSE, completed |-> FALSE, sequenceNumber |-> 0,
              hasEmittedReasoningItem |-> FALSE, accumulatedReasoningText |-> <<>>,
              hasEmittedTextOutputItem |-> FALSE, accumulatedText |-> <<>>,
              toolCalls |-> <<>>, finishReason |-> None]
  /\ wire = <<>>
  /\ parts = 0

-----------------------------------------------------------------------------
(* The transform, as functions of a call in progress: c.state is the       *)
(* StreamState and c.events what the call has made so far.                 *)

(* A mutant of Emit: the number is used without being moved on.            *)
EmitUnnumbered(c, type, about, body) ==
  [c EXCEPT !.events = Append(@, [type |-> type, about |-> about, body |-> body,
                                  seq |-> c.state.sequenceNumber]),
            !.state.sequenceNumber = IF type = "error" THEN @ ELSE @ + 1]

(* Every event takes the next sequence number.  Its body is the text or    *)
(* the arguments it repeats, or the response it reports.                   *)
Emit(c, type, about, body) ==
  [c EXCEPT !.events = Append(@, [type |-> type, about |-> about, body |-> body,
                                  seq |-> c.state.sequenceNumber]),
            !.state.sequenceNumber = @ + 1]

(* What the response is reported to have put out: the items and the texts  *)
(* they have been assembled to.                                            *)
Snapshot(s, status, includeOutput) ==
  [status |-> status,
   output |->
     IF ~includeOutput THEN <<>>
     ELSE (IF s.accumulatedReasoningText # <<>>
           THEN <<[item |-> Reasoning, text |-> s.accumulatedReasoningText]>> ELSE <<>>)
          \o (IF s.hasEmittedTextOutputItem
              THEN <<[item |-> TextItem, text |-> s.accumulatedText]>> ELSE <<>>)
          \o [i \in DOMAIN s.toolCalls |->
                [item |-> s.toolCalls[i].item, text |-> s.toolCalls[i].arguments]]]

Begin(c) ==
  IF c.state.hasStarted THEN c
  ELSE LET started == [c EXCEPT !.state.hasStarted = TRUE]
           now == Snapshot(started.state, "in_progress", FALSE)
       IN Emit(Emit(started, "created", None, now), "in_progress", None, now)

(* A mutant of Say: the item is added again by every delta.                *)
SayAgain(c) ==
  LET added == Emit(Emit([c EXCEPT !.state.hasEmittedTextOutputItem = TRUE],
                         "item_added", TextItem, <<>>), "part_added", TextItem, <<>>)
      n == added.state.sequenceNumber
  IN Emit([added EXCEPT !.state.accumulatedText = Append(@, n)],
          "delta", TextItem, <<n>>)

Say(c) ==
  LET added == IF c.state.hasEmittedTextOutputItem THEN c
               ELSE Emit(Emit([c EXCEPT !.state.hasEmittedTextOutputItem = TRUE],
                              "item_added", TextItem, <<>>), "part_added", TextItem, <<>>)
      n == added.state.sequenceNumber
  IN Emit([added EXCEPT !.state.accumulatedText = Append(@, n)],
          "delta", TextItem, <<n>>)

Think(c) ==
  LET added == IF c.state.hasEmittedReasoningItem THEN c
               ELSE Emit(Emit([c EXCEPT !.state.hasEmittedReasoningItem = TRUE],
                              "item_added", Reasoning, <<>>), "part_added", Reasoning, <<>>)
      n == added.state.sequenceNumber
  IN Emit([added EXCEPT !.state.accumulatedReasoningText = Append(@, n)],
          "delta", Reasoning, <<n>>)

(* Map.set: a key that is there keeps its place and gets a new value.      *)
At(toolCalls, index) == {i \in DOMAIN toolCalls : toolCalls[i].index = index}
Put(toolCalls, call) ==
  IF At(toolCalls, call.index) = {} THEN Append(toolCalls, call)
  ELSE [i \in DOMAIN toolCalls |->
          IF toolCalls[i].index = call.index THEN call ELSE toolCalls[i]]

(* A mutant of Name: the call that has the index keeps it.                 *)
NameKeeping(c, p) ==
  LET item == CallItem(p.index, c.state.sequenceNumber) IN
  IF ~p.named THEN c
  ELSE Emit([c EXCEPT !.state.toolCalls =
               IF At(@, p.index) = {}
               THEN Put(@, [index |-> p.index, item |-> item, arguments |-> <<>>]) ELSE @],
            "item_added", item, <<>>)

(* An entry with a name is a new call, taking over its index.              *)
Name(c, p) ==
  LET item == CallItem(p.index, c.state.sequenceNumber) IN
  IF ~p.named THEN c
  ELSE Emit([c EXCEPT !.state.toolCalls =
               Put(@, [index |-> p.index, item |-> item, arguments |-> <<>>])],
            "item_added", item, <<>>)

(* A mutant of Call: arguments are sent on and not kept.                   *)
CallForgetting(c, p) ==
  LET named == Name(c, p)
      calls == named.state.toolCalls
  IN IF ~p.args \/ At(calls, p.index) = {} THEN named
     ELSE Emit(named, "delta", calls[CHOOSE i \in At(calls, p.index) : TRUE].item,
               <<named.state.sequenceNumber>>)

(* Arguments go to the call at their index; with none there they are lost. *)
Call(c, p) ==
  LET named == Name(c, p)
      n == named.state.sequenceNumber
  IN IF ~p.args \/ At(named.state.toolCalls, p.index) = {} THEN named
     ELSE LET i == CHOOSE i \in At(named.state.toolCalls, p.index) : TRUE IN
          Emit([named EXCEPT !.state.toolCalls[i].arguments = Append(@, n)],
               "delta", named.state.toolCalls[i].item, <<n>>)

CallAll(c, calls) ==
  IF calls = <<>> THEN c
  ELSE IF Len(calls) = 1 THEN Call(c, calls[1])
  ELSE Call(Call(c, calls[1]), calls[2])

TextCompletion(c) ==
  Emit(Emit(Emit(c, "text_done", TextItem, c.state.accumulatedText),
            "part_done", TextItem, c.state.accumulatedText),
       "item_done", TextItem, c.state.accumulatedText)

(* Each call's arguments and then its item, in the order of the map.       *)
ToolCallCompletion(c) ==
  LET calls == c.state.toolCalls
      ended == [k \in 1 .. 2 * Len(calls) |->
                  LET call == calls[(k + 1) \div 2] IN
                  [type |-> IF k % 2 = 1 THEN "args_done" ELSE "item_done",
                   about |-> call.item, body |-> call.arguments,
                   seq |-> c.state.sequenceNumber + k - 1]]
  IN [c EXCEPT !.events = @ \o ended, !.state.sequenceNumber = @ + Len(ended)]

-----------------------------------------------------------------------------
Fresh == [state |-> state, events |-> <<>>]

Sends(c) == state' = c.state /\ wire' = wire \o c.events

One(said) == IF said THEN 1 ELSE 0

(* A chunk the provider's transform made, with whatever it carries; text   *)
(* is read before thinking here.  Nothing follows an ending.               *)
HearChunk(says, thinks, calls, finish) ==
  LET cost == One(says) + One(thinks) + Len(calls) + One(finish # None)
      begun == Begin(Fresh)
      said == IF says THEN Say(begun) ELSE begun
      thought == IF thinks THEN Think(said) ELSE said
      called == CallAll(thought, calls)
  IN /\ ~state.completed
     /\ parts + cost <= MaxParts
     /\ Sends([called EXCEPT !.state.finishReason = IF finish # None THEN finish ELSE @])
     /\ parts' = parts + cost

(* A mutant of HearError: a response that was announced is given no end.   *)
HearErrorAlone ==
  /\ ~state.completed
  /\ Sends(Emit([Fresh EXCEPT !.state.completed = TRUE], "error", None, <<>>))
  /\ UNCHANGED parts

(* An upstream error, or the gateway's own truncation frame.               *)
HearError ==
  /\ ~state.completed
  /\ LET told == Emit([Fresh EXCEPT !.state.completed = TRUE], "error", None, <<>>) IN
     Sends(IF state.hasStarted
           THEN Emit(told, "failed", None, Snapshot(told.state, "failed", TRUE))
           ELSE told)
  /\ UNCHANGED parts

(* [DONE], the provider's or the adapter's own at the end of the stream.   *)
HearDone ==
  /\ ~state.completed
  /\ state.hasStarted
  /\ LET ending == [Fresh EXCEPT !.state.completed = TRUE]
         text == IF state.hasEmittedTextOutputItem THEN TextCompletion(ending) ELSE ending
         calls == ToolCallCompletion(text)
     IN Sends(Emit(calls, "completed", None, Snapshot(calls.state, "completed", TRUE)))
  /\ UNCHANGED parts

Next ==
  \/ \E says, thinks \in BOOLEAN, calls \in Calls, finish \in {None, "stop", "length"} :
       HearChunk(says, thinks, calls, finish)
  \/ HearError
  \/ HearDone

Spec == Init /\ [][Next]_vars

-----------------------------------------------------------------------------
(* Properties.                                                             *)

Is(n, type) == wire[n].type = type
Tells(n, item, type) == Is(n, type) /\ wire[n].about = item

(* The events of a stream are numbered from zero without a gap, whichever  *)
(* of the many places that number one an event comes from.                 *)
Sequenced == \A n \in DOMAIN wire : wire[n].seq = n - 1

(* A response that was announced is given exactly one end, completed or    *)
(* failed, a failure is preceded by its error, and nothing comes after.    *)
EndsOnce ==
  /\ \A n \in DOMAIN wire :
       /\ Is(n, "created") <=> n = 1 /\ ~Is(1, "error")
       /\ Is(n, "completed") => n = Len(wire)
       /\ Is(n, "error") => IF n = 1 THEN Len(wire) = 1
                            ELSE n = Len(wire) - 1 /\ Is(n + 1, "failed")
       /\ Is(n, "failed") => n = Len(wire) /\ Is(n - 1, "error")
  /\ state.completed /\ state.hasStarted =>
       Is(Len(wire), "completed") \/ Is(Len(wire), "failed")

(* The events are one sequence, numbered, begun and ended as a client of   *)
(* the Responses API reads it.                                             *)
OneSequence == Sequenced /\ EndsOnce

(* An item is added once, before anything is said about it, and once it is *)
(* done nothing more is.                                                   *)
ItemsFollow ==
  \A n \in DOMAIN wire :
    wire[n].about # None =>
      LET earlier == {m \in 1 .. n - 1 : wire[m].about = wire[n].about} IN
      /\ Is(n, "item_added") <=> earlier = {}
      /\ \A m \in earlier : ~Is(m, "item_done")

(* What has been streamed of an item, up to the n-th event; and that some  *)
(* fragments are those, in the order they were sent.                       *)
Streamed(item, n) == {wire[m].seq : m \in {k \in 1 .. n : Tells(k, item, "delta")}}

InOrder(fragments, streamed) ==
  /\ {fragments[i] : i \in DOMAIN fragments} = streamed
  /\ \A i, j \in DOMAIN fragments : i < j => fragments[i] < fragments[j]

(* An item is done, and reported in the response's own end, with exactly   *)
(* the fragments that were streamed of it, in order; so a client may read  *)
(* either, for a response that failed part way too.                        *)
Assembled ==
  \A n \in DOMAIN wire :
    /\ wire[n].type \in {"text_done", "part_done", "args_done", "item_done"} =>
         InOrder(wire[n].body, Streamed(wire[n].about, n))
    /\ wire[n].type \in {"completed", "failed"} =>
         \A i \in DOMAIN wire[n].body.output :
           InOrder(wire[n].body.output[i].text, Streamed(wire[n].body.output[i].item, n))

(* A completed response leaves no item of text or tool call open and none  *)
(* out of its output, except a call whose index a later one took over.     *)
AllDone ==
  \A n \in DOMAIN wire :
    Is(n, "completed") =>
      \A m \in 1 .. n :
        /\ Is(m, "item_added")
        /\ wire[m].about[1] # "reasoning"
        /\ \A k \in m + 1 .. n : ~(/\ Is(k, "item_added") /\ wire[k].about[1] = "call"
                                  /\ wire[k].about[1] = wire[m].about[1]
                                  /\ wire[k].about[2] = wire[m].about[2])
        => /\ \E k \in m .. n : Tells(k, wire[m].about, "item_done")
           /\ \E i \in DOMAIN wire[n].body.output :
                wire[n].body.output[i].item = wire[m].about

(* "Only a response that ran to the end has completed items", says the     *)
(* comment on the item statuses; one cut off at its length limit did not.  *)
CompletedRanToTheEnd ==
  \A n \in DOMAIN wire : Is(n, "completed") => state.finishReason # "length"
=============================================================================
