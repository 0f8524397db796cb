--------------------------- MODULE MessagesStream ---------------------------
(***************************************************************************)
(* The Messages adapter: chat completion chunks in, Messages API events    *)
(* out (adapters/messages/streamTransform.ts).  Each chunk is transformed  *)
(* whole, by one synchronous call that reads and writes one state.         *)
(*                                                                         *)
(* What is said is left out and what is said where is kept: an event has   *)
(* its type, its block and the kind of that block, and a piece of a tool   *)
(* call's arguments is known by the position of the piece that carried it. *)
(***************************************************************************)
EXTENDS Naturals, Sequences, FiniteSets

CONSTANTS
  Indices,   \* the indices a provider gives its tool calls
  Ids,       \* the ids it gives them
  MaxParts,  \* bound: things said before the stream ends
  None       \* null, undefined

ASSUME DataAssumption ==
  /\ MaxParts \in Nat
  /\ None \notin Nat /\ None \notin Ids
  /\ None \notin [id : Ids \cup {None}, block : Nat \cup {None}, pending : Seq(Nat)]

(* One entry of delta.tool_calls, and a chunk.  More than two entries are  *)
(* what two chunks carry.                                                  *)
Piece == [index : Indices, id : Ids \cup {None}, named : BOOLEAN, args : BOOLEAN]
Calls == {<<>>} \cup {<<p>> : p \in Piece} \cup (Piece \X Piece)

VARIABLES
  state,   \* StreamState; a slot of a call: its id, its block, what waits for it
  wire,    \* the events sent
  heard,   \* history: every entry of delta.tool_calls so far
  finish,  \* history: how many had been heard at the first finish reason
  parts    \* how much has been said, for the bound

vars == <<state, wire, heard, finish, parts>>

Init ==
  /\ state = [hasStarted |-> FALSE, completed |-> FALSE, contentBlockIndex |-> 0,
              thinkingIndex |-> None, textIndex |-> None, openIndex |-> None,
              toolSlots |-> [i \in Indices |-> None]]
  /\ wire = <<>>
  /\ heard = <<>>
  /\ finish = None
  /\ parts = 0

-----------------------------------------------------------------------------
(* The transform, as functions of a call in progress: c.state is the       *)
(* StreamState and c.events what the call has made so far.                 *)

Emit(c, event) == [c EXCEPT !.events = Append(@, event)]

Start(i, kind) == [type |-> "content_block_start", index |-> i, kind |-> kind]
Stop(i) == [type |-> "content_block_stop", index |-> i]
Delta(i, kind, from) ==
  [type |-> "content_block_delta", index |-> i, kind |-> kind, from |-> from]

(* A mutant of CloseOpenBlock: the index that pointed at it is kept.       *)
CloseRemembering(c) ==
  IF c.state.openIndex = None THEN c
  ELSE Emit([c EXCEPT !.state.openIndex = None], Stop(c.state.openIndex))

(* Closes the open block, if any, and forgets whichever index pointed at it. *)
CloseOpenBlock(c) ==
  LET open == c.state.openIndex IN
  IF open = None THEN c
  ELSE Emit([c EXCEPT !.state.openIndex = None,
                      !.state.thinkingIndex = IF @ = open THEN None ELSE @,
                      !.state.textIndex = IF @ = open THEN None ELSE @],
            Stop(open))

(* Opens a block at the next free index, closing what was open first.      *)
OpenBlock(c, kind) ==
  LET closed == CloseOpenBlock(c)
      index == c.state.contentBlockIndex
  IN Emit([closed EXCEPT !.state.contentBlockIndex = @ + 1, !.state.openIndex = index],
          Start(index, kind))

(* The same at the end, where every index is forgotten.                    *)
DrainOpenBlocks(c) ==
  LET closed == CloseOpenBlock(c) IN
  [closed EXCEPT
     !.state.thinkingIndex = None,
     !.state.textIndex = None,
     !.state.toolSlots =
       [i \in Indices |-> IF @[i] = None THEN None ELSE [@[i] EXCEPT !.block = None]]]

Begin(c) ==
  IF c.state.hasStarted THEN c
  ELSE Emit([c EXCEPT !.state.hasStarted = TRUE], [type |-> "message_start"])

Think(c) ==
  LET index == c.state.contentBlockIndex
      opened == IF c.state.thinkingIndex # None THEN c
                ELSE [OpenBlock(c, "thinking") EXCEPT !.state.thinkingIndex = index]
  IN Emit(opened, Delta(opened.state.thinkingIndex, "thinking", <<>>))

Say(c) ==
  LET index == c.state.contentBlockIndex
      opened == IF c.state.textIndex # None THEN c
                ELSE [OpenBlock(c, "text") EXCEPT !.state.textIndex = index]
  IN Emit(opened, Delta(opened.state.textIndex, "text", <<>>))

(* The slot a piece belongs to: a different id at the same index is a      *)
(* different call, and takes the slot over.                                *)
SlotFor(slots, p) ==
  LET old == slots[p.index] IN
  IF \/ old = None
     \/ p.id # None /\ old.id # None /\ old.id # p.id
  THEN [id |-> p.id, block |-> None, pending |-> <<>>]
  ELSE [old EXCEPT !.id = IF p.id # None THEN p.id ELSE @]

(* A mutant of Name: what came before the name is not sent on.             *)
NameForgetting(c, p) ==
  LET slot == c.state.toolSlots[p.index]
      index == c.state.contentBlockIndex
  IN IF ~p.named \/ slot.block # None THEN c
     ELSE [OpenBlock(c, "tool_use") EXCEPT
             !.state.toolSlots[p.index] = [slot EXCEPT !.block = index, !.pending = <<>>]]

(* A call is given its block by the piece that first names it, and what    *)
(* arguments were held for want of one go into it.                         *)
Name(c, p) ==
  LET slot == c.state.toolSlots[p.index]
      index == c.state.contentBlockIndex
      opened == [OpenBlock(c, "tool_use") EXCEPT
                   !.state.toolSlots[p.index] =
                     [slot EXCEPT !.block = index, !.pending = <<>>]]
  IN IF ~p.named \/ slot.block # None THEN c
     ELSE IF slot.pending = <<>> THEN opened
     ELSE Emit(opened, Delta(index, "tool_use", slot.pending))

(* One entry of delta.tool_calls, the n-th heard.                          *)
Call(c, p, n) ==
  LET named == Name([c EXCEPT !.state.toolSlots[p.index] = SlotFor(c.state.toolSlots, p)], p)
      block == named.state.toolSlots[p.index].block
  IN IF ~p.args THEN named
     ELSE IF block = None
     THEN [named EXCEPT !.state.toolSlots[p.index].pending = Append(@, n)]
     ELSE Emit(named, Delta(block, "tool_use", <<n>>))

CallAll(c, calls, n) ==
  IF calls = <<>> THEN c
  ELSE IF Len(calls) = 1 THEN Call(c, calls[1], n + 1)
  ELSE Call(Call(c, calls[1], n + 1), calls[2], n + 2)

(* A finish reason: a message that said nothing gets an empty text block,  *)
(* and every block is closed.                                              *)
Finish(c) ==
  DrainOpenBlocks(IF c.state.contentBlockIndex = 0 THEN OpenBlock(c, "text") ELSE c)

(* A mutant of Complete: what is still open is left open.                  *)
CompleteOpen(c) ==
  LET filled == IF c.state.contentBlockIndex = 0
                THEN Emit(OpenBlock(c, "text"), Stop(0)) ELSE c
  IN Emit(Emit([filled EXCEPT !.state.completed = TRUE],
               [type |-> "message_delta"]), [type |-> "message_stop"])

(* [DONE]: the empty text block again, without becoming the open one.      *)
Complete(c) ==
  LET filled ==
        IF c.state.contentBlockIndex # 0 THEN c
        ELSE Emit(Emit([c EXCEPT !.state.contentBlockIndex = 1], Start(0, "text")), Stop(0))
  IN Emit(Emit(DrainOpenBlocks([filled EXCEPT !.state.completed = TRUE]),
               [type |-> "message_delta"]), [type |-> "message_stop"])

-----------------------------------------------------------------------------
Fresh == [state |-> state, events |-> <<>>]

Sends(c) == state' = c.state /\ wire' = wire \o c.events

(* Whether an ending has been given, after which nothing is transformed,   *)
(* and a mutant that asks only at [DONE].                                  *)
NeverFinished == FALSE
Finished == state.completed

One(said) == IF said THEN 1 ELSE 0
Cost(thinks, says, calls, finishes) ==
  One(thinks) + One(says) + Len(calls) + One(finishes)

(* A chunk the provider's transform made, with whatever it carries.        *)
HearChunk(thinks, says, calls, finishes) ==
  /\ ~Finished
  /\ parts + Cost(thinks, says, calls, finishes) <= MaxParts
  /\ LET begun == Begin(Fresh)
         thought == IF thinks THEN Think(begun) ELSE begun
         said == IF says THEN Say(thought) ELSE thought
         called == CallAll(said, calls, Len(heard))
     IN Sends(IF finishes THEN Finish(called) ELSE called)
  /\ heard' = heard \o calls
  /\ finish' = IF finishes /\ finish = None THEN Len(heard') ELSE finish
  /\ parts' = parts + Cost(thinks, says, calls, finishes)

(* An upstream error, or the gateway's own truncation frame.               *)
HearError ==
  /\ ~Finished
  /\ Sends(Emit([Fresh EXCEPT !.state.completed = TRUE], [type |-> "error"]))
  /\ UNCHANGED <<heard, finish, parts>>

(* [DONE], the provider's or the adapter's own at the end of the stream.   *)
HearDone ==
  /\ ~Finished
  /\ state.hasStarted
  /\ Sends(Complete(Fresh))
  /\ UNCHANGED <<heard, finish, parts>>

Next ==
  \/ /\ parts < MaxParts
     /\ \E calls \in Calls, thinks, says, finishes \in BOOLEAN :
          HearChunk(thinks, says, calls, finishes)
  \/ HearError
  \/ HearDone

Spec == Init /\ [][Next]_vars

-----------------------------------------------------------------------------
(* Properties.                                                             *)

Is(n, type) == wire[n].type = type
Starts(n) == {m \in 1 .. n : Is(m, "content_block_start")}
Started(n) == {wire[m].index : m \in Starts(n)}
Stopped(n) == {wire[m].index : m \in {k \in 1 .. n : Is(k, "content_block_stop")}}

(* The caller follows one block at a time: blocks are numbered from zero   *)
(* in the order they start, none starts inside another, only the open one  *)
(* is ever stopped, and what is thought or said is sent into an open block *)
(* of its kind, arguments into a block of a tool call.                     *)
OneBlockAtATime ==
  \A n \in DOMAIN wire :
    /\ Is(n, "content_block_start") =>
         /\ wire[n].index = Cardinality(Starts(n - 1))
         /\ Started(n - 1) = Stopped(n - 1)
    /\ Is(n, "content_block_stop") =>
         wire[n].index \in Started(n - 1) \ Stopped(n - 1)
    /\ Is(n, "content_block_delta") =>
         /\ \E m \in Starts(n) :
              wire[m].index = wire[n].index /\ wire[m].kind = wire[n].kind
         /\ wire[n].kind # "tool_use" => wire[n].index \notin Stopped(n)

(* A message ends once: after an error nothing is sent, and message_stop   *)
(* comes last, behind a start, at least one block and no open one.         *)
EndsClosed ==
  \A n \in DOMAIN wire :
    /\ Is(n, "message_start") => n = 1
    /\ Is(n, "error") => n = Len(wire)
    /\ Is(n, "message_stop") =>
         /\ n = Len(wire)
         /\ Is(1, "message_start")
         /\ Started(n) # {} /\ Started(n) = Stopped(n)

(* The calls as the provider meant them: a piece begins a call when it is  *)
(* the first at its index, or has another id than the last one given       *)
(* there; pieces after it are of the same call until the next one begins.  *)
Begins(h, n) ==
  \/ \A m \in 1 .. n - 1 : h[m].index # h[n].index
  \/ /\ h[n].id # None
     /\ \E m \in 1 .. n - 1 :
          /\ h[m].index = h[n].index
          /\ h[m].id \notin {None, h[n].id}
          /\ \A k \in m + 1 .. n - 1 : h[k].index = h[n].index => h[k].id = None
Of(h, b) ==
  {n \in b .. Len(h) :
     /\ h[n].index = h[b].index
     /\ \A m \in b + 1 .. n : h[m].index = h[b].index => ~Begins(h, m)}

(* The calls that have been named, and the argument pieces of a call.      *)
Named(h) == {b \in DOMAIN h : Begins(h, b) /\ \E n \in Of(h, b) : h[n].named}
Given(h, b) == {n \in Of(h, b) : h[n].args}

(* The blocks of tool calls, and whether the deltas into a block carry     *)
(* just these pieces, one after the other.                                 *)
Blocks(w) ==
  {w[m].index : m \in {k \in DOMAIN w : /\ w[k].type = "content_block_start"
                                       /\ w[k].kind = "tool_use"}}
DeltasInto(w, i) == {m \in DOMAIN w : w[m].type = "content_block_delta" /\ w[m].index = i}
Holds(w, i, pieces) ==
  LET into == DeltasInto(w, i) IN
  /\ UNION {{w[m].from[x] : x \in DOMAIN w[m].from} : m \in into} = pieces
  /\ \A m, k \in into : \A x \in DOMAIN w[m].from, y \in DOMAIN w[k].from :
       m < k \/ (m = k /\ x < y) => w[m].from[x] < w[k].from[y]

(* A call the provider has named has a block of its own, holding every     *)
(* piece of its arguments once and in order: those that came before its    *)
(* name, and those that came between the pieces of other calls, included;  *)
(* and no other block of a tool call is made.  So it is up to the first    *)
(* finish reason; a call spoken of again after that is given another.      *)
ArgumentsKept ==
  LET named == Named(heard)
      blocks == Blocks(wire)
  IN finish = None =>
       \E own \in [named -> blocks] :
         /\ \A i \in blocks : \E b \in named : own[b] = i
         /\ \A b, c \in named : own[b] = own[c] => b = c
         /\ \A b \in named : Holds(wire, own[b], Given(heard, b))

(* "A block is never opened inside another and a delta never follows its   *)
(* own stop", says the comment on openBlock.                               *)
NoDeltaAfterStop ==
  \A n \in DOMAIN wire :
    Is(n, "content_block_delta") => wire[n].index \notin Stopped(n)
=============================================================================
