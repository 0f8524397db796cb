---------------------------- MODULE ProviderAnswer ----------------------------
(***************************************************************************)
(* An answer of a provider on its way to the caller: read whole by the     *)
(* transform of whole answers, or chunk by chunk, by the transform of      *)
(* chunks and what it remembers from one to the next.                      *)
(*                                                                         *)
(* A message is a sequence of blocks, each of two pieces; a call's first   *)
(* piece names it.  Whether a caller can make the message out of what is   *)
(* told is what this is about, so what is told is kept as the caller's     *)
(* client would assemble it, and beside it whether some was told under     *)
(* another choice than the first and whether texts were parted by a line.  *)
(*                                                                         *)
(* Source: handlers/responseHandlers.ts and the transforms the answer's    *)
(* rows stand for.                                                         *)
(***************************************************************************)
EXTENDS AnswerTables, FiniteSets

CONSTANTS
  Messages,       \* the messages a provider may answer with
  Excepted(_, _)  \* whether of an entry of the catalogue something is known

Kinds == {"thought", "text", "call"}

VARIABLES
  entry,     \* of the catalogue: by whom, and how, the request is served
  strict,    \* strictOpenAiCompliance
  lone,      \* the caller asked for usage in a chunk of its own
  message,   \* what the provider answers
  reason,    \* why it stopped
  pieces,    \* how many of each block it has sent
  ends,      \* how many of the chunks that end a stream it has sent
  counted,   \* streamState: the calls counted, and each block's number
  told,      \* what the caller has been told
  answer     \* how far the answer is

vars ==
  <<entry, strict, lone, message, reason, pieces, ends, counted, told, answer>>

dialect == entry.at.speaks
Blocks == DOMAIN message
CallsOf(m) == {b \in DOMAIN m : m[b] = "call"}
Ordinal(m, b) == Cardinality({c \in CallsOf(m) : c < b})

NothingTold ==
  [thought |-> <<>>, text |-> <<>>, calls |-> <<>>, finish |-> NoReason,
   usage |-> FALSE, done |-> 0, late |-> FALSE, strays |-> FALSE,
   parted |-> FALSE]
NoneCounted == [calls |-> 0, of |-> <<>>]

(* No answer yet.                                                          *)
Waiting ==
  /\ message = <<>> /\ reason = NoReason /\ pieces = <<>> /\ ends = 0
  /\ counted = NoneCounted /\ told = NothingTold

-----------------------------------------------------------------------------
(* The providers.  Of the dialects some carry one text alone (Oracle's     *)
(* answers have a list, of which both transforms read the first text).  A  *)
(* stream ends with the reason, the counts and [DONE], in chunks that      *)
(* differ.                                                                 *)
Chatty == {"chat", "anthropic", "converse", "gemini", "cohere"}
CanSay(m) == dialect \in Chatty \/ m = <<"text">>

Reasons(called) ==
  IF called THEN {Reason("calls"), OwnWord("calls")}
  ELSE {Reason("stop"), OwnWord("length"), OwnWord("other")}
CanStopFor(m) == Reasons(CallsOf(m) # {})

EndingOf(speaks, alone) ==
  CASE speaks \in {"chat", "text"} /\ ~alone -> <<{"finish", "usage"}, {"done"}>>
    [] speaks \in {"chat", "text"} /\ alone ->
         <<{"finish"}, {"usage"}, {"done"}>>
    [] speaks = "anthropic" -> <<{"finish", "usage"}, {"done"}>>
    [] speaks = "converse" -> <<{"finish"}, {"usage"}>>
    [] speaks = "run" -> <<{"done"}>>
    [] speaks \in {"claude", "generate", "oracle"} -> <<{"finish"}>>
    [] OTHER -> <<{"finish", "usage"}>>
Ending == EndingOf(dialect, lone)

(* A call comes in pieces, but for Gemini's.  Blocks follow one another;   *)
(* only the calls of OpenAI's dialect may be under way together.           *)
Length(b) == IF dialect = "gemini" /\ message[b] = "call" THEN 1 ELSE 2
Complete(b) == pieces[b] = Length(b)
CanSend(b) ==
  /\ ~Complete(b)
  /\ \A c \in 1 .. b - 1 :
       \/ Complete(c)
       \/ dialect = "chat" /\ {message[b], message[c]} = {"call"} /\ pieces[c] > 0

-----------------------------------------------------------------------------
(* What the transform of whole answers makes of the message.               *)
Pieces(kind) == {p \in Blocks \X {1, 2} : message[p[1]] = kind}
Earlier(p, q) == p[1] < q[1] \/ (p[1] = q[1] /\ p[2] < q[2])
PiecesOf(kind) ==
  LET all == Pieces(kind)
  IN  [n \in 1 .. Cardinality(all) |->
         CHOOSE p \in all : Cardinality({q \in all : Earlier(q, p)}) = n - 1]
NumberedCalls ==
  [n \in 0 .. Cardinality(CallsOf(message)) - 1 |->
     LET b == CHOOSE b \in CallsOf(message) : Ordinal(message, b) = n
     IN  [i \in 1 .. Length(b) |-> <<b, i>>]]
If(kept, what) == IF kept THEN what ELSE <<>>

WholeTold ==
  LET row == entry.whole
      called == "calls" \in row.keeps /\ CallsOf(message) # {}
  IN  [NothingTold EXCEPT
         !.thought = If(ReasoningKept(row, strict), PiecesOf("thought")),
         !.text = If("text" \in row.keeps, PiecesOf("text")),
         !.calls = If(called, NumberedCalls),
         !.finish = FinishTold(row.finish, reason, strict, called),
         !.usage = "usage" \in row.keeps,
         !.parted = /\ row.joins = "lines" /\ "text" \in row.keeps
                    /\ \E b, c \in Blocks :
                         b # c /\ message[b] = "text" /\ message[c] = "text"]

-----------------------------------------------------------------------------
(* What the transform of chunks makes of each.                             *)

(* A call is counted with the piece that names it.                         *)
Count(b) ==
  IF message[b] = "call" /\ pieces[b] = 0
  THEN [calls |-> counted.calls + 1,
        of |-> [c \in DOMAIN counted.of \union {b} |->
                  IF c = b THEN counted.calls ELSE counted.of[c]]]
  ELSE counted

(* The number the provider says is that of the block, but in OpenAI's      *)
(* dialect.  Mutant: so it is passed on.                                   *)
NumberSaid(b, row, count) == b - 1
Number(b, row, count) ==
  CASE row.numbers = "said" ->
         IF dialect = "chat" THEN Ordinal(message, b) ELSE b - 1
    [] row.numbers = "byBlock" -> count.of[b]
    [] row.numbers = "latest" -> count.calls - 1

TellPiece(b, row, count) ==
  LET piece == <<b, pieces[b] + 1>>
  IN  CASE message[b] = "thought" /\ ReasoningKept(row, strict) ->
             [told EXCEPT !.thought = Append(@, piece)]
        [] message[b] = "text" /\ "text" \in row.keeps ->
             [told EXCEPT !.text = Append(@, piece)]
        [] message[b] = "call" /\ "calls" \in row.keeps ->
             LET n == Number(b, row, count)
             IN  [told EXCEPT !.calls =
                    [m \in DOMAIN @ \union {n} |->
                       IF m \notin DOMAIN @ THEN <<piece>>
                       ELSE IF m = n THEN Append(@[m], piece) ELSE @[m]]]
        [] OTHER -> told

(* The reason is told where the row says, and SambaNova's twice: where it  *)
(* is said and, as stop, with the counts.                                  *)
TellFinish(sofar, end, row) ==
  LET said == FinishTold(row.finish, reason, strict, counted.calls > 0)
  IN  CASE row.tells = "finishAndUsage" /\ "usage" \in end ->
             [sofar EXCEPT !.finish = Reason("stop")]
        [] row.tells \in {"finish", "finishAndUsage"} /\ "finish" \in end ->
             [sofar EXCEPT !.finish = said]
        [] row.tells = "usage" /\ "usage" \in end -> [sofar EXCEPT !.finish = said]
        [] OTHER -> sofar

TellUsage(sofar, end, row) ==
  IF "usage" \in end /\ "usage" \in row.keeps
  THEN [sofar EXCEPT !.usage = TRUE] ELSE sofar

(* Mutant: the provider's own [DONE] is passed on beside the one made.     *)
DoneBeside(sofar, end, row) ==
  IF row.done = "each" \/ "done" \in end \/ row.done \in end
  THEN [sofar EXCEPT !.done = @ + 1] ELSE sofar

TellsDone(end, row) ==
  \/ row.done = "each"
  \/ row.done = "passed" /\ "done" \in end
  \/ row.done \in {"finish", "usage"} /\ row.done \in end
TellDone(sofar, end, row) ==
  IF TellsDone(end, row) THEN [sofar EXCEPT !.done = @ + 1] ELSE sofar

(* Cohere numbers calls apart from what is not one.                        *)
SaidUnder(b) ==
  IF message[b] = "call" THEN Ordinal(message, b)
  ELSE Cardinality({c \in Blocks \ CallsOf(message) : c < b})

(* Mutant: every transform takes the number of the block for the choice's. *)
StraysWithAll(b, new, row) == SaidUnder(b) > 0 /\ new # told

(* Text or a reason that is told with block b, or behind it, is told in    *)
(* another choice than the first.                                          *)
Strays(b, new, row) ==
  /\ row.choice = "asNumbered" /\ SaidUnder(b) > 0
  /\ new.text # told.text \/ new.finish # told.finish

(* What is told after [DONE] is told to nobody.                            *)
Tell(b, new) ==
  told' = [new EXCEPT !.late = told.late \/ (told.done > 0 /\ new # told),
                      !.strays = told.strays \/ Strays(b, new, entry.chunks)]

(* A chunk of usage without choices, and a [DONE], may trip a transform    *)
(* that reads every chunk alike.                                           *)
OnlyUsage(speaks, end) == speaks = "chat" /\ end = {"usage"}
TripsUp(speaks, end, row) ==
  \/ OnlyUsage(speaks, end) /\ row.alone = "breaks"
  \/ end = {"done"} /\ row.done = "breaks"
Drops(speaks, end, row) == OnlyUsage(speaks, end) /\ row.alone = "dropped"

-----------------------------------------------------------------------------
Fixed == UNCHANGED <<entry, strict, lone>>

(* A stream is read as one if it was asked for and the provider streamed;  *)
(* what is labelled application/json is read whole.                        *)
Open ==
  /\ answer = "streamed"
  /\ message' \in {m \in Messages : CanSay(m)}
  /\ reason' \in CanStopFor(message')
  /\ pieces' = [b \in DOMAIN message' |-> 0]
  /\ answer' = "streaming"
  /\ Fixed /\ UNCHANGED <<ends, counted, told>>

SendPiece(b) ==
  LET row == entry.chunks
      count == Count(b)
  IN  /\ answer = "streaming" /\ CanSend(b)
      /\ pieces' = [pieces EXCEPT ![b] = @ + 1]
      /\ counted' = count
      /\ Tell(b, TellDone(TellPiece(b, row, count), {}, row))
      /\ Fixed /\ UNCHANGED <<message, reason, ends, answer>>

SendEnd ==
  LET row == entry.chunks
      end == Ending[ends + 1]
  IN  /\ answer = "streaming" /\ ends < Len(Ending)
      /\ \A b \in Blocks : Complete(b)
      /\ ends' = ends + 1
      /\ IF TripsUp(dialect, end, row)
         THEN answer' = "cut" /\ UNCHANGED told
         ELSE /\ Tell(Len(message),
                      IF Drops(dialect, end, row) THEN told
                      ELSE TellDone(TellUsage(TellFinish(told, end, row),
                                              end, row), end, row))
              /\ UNCHANGED answer
      /\ Fixed /\ UNCHANGED <<message, reason, pieces, counted>>

EndStream ==
  /\ answer = "streaming" /\ ends = Len(Ending)
  /\ answer' = "ended"
  /\ Fixed /\ UNCHANGED <<message, reason, pieces, ends, counted, told>>

AnswerWhole ==
  /\ answer = "whole"
  /\ message' \in {m \in Messages : CanSay(m)}
  /\ reason' \in CanStopFor(message')
  /\ answer' = "told"
  /\ Fixed /\ UNCHANGED <<pieces, ends, counted>>
  /\ told' = WholeTold'

(* An array of events is no answer the transform of whole answers knows.   *)
AnswerInJson ==
  /\ answer = "array"
  /\ answer' = "misread"
  /\ Fixed /\ UNCHANGED <<message, reason, pieces, ends, counted, told>>

(* A failure is read whole, though a stream was asked for.                 *)
Fail(body) ==
  /\ answer \in {"streamed", "whole", "array"}
  /\ answer' = entry.whole.refuses.failing[body]
  /\ Fixed /\ UNCHANGED <<message, reason, pieces, ends, counted, told>>
FailUnderFine(body) ==
  /\ answer = "whole"
  /\ answer' = entry.whole.refuses.fine[body]
  /\ Fixed /\ UNCHANGED <<message, reason, pieces, ends, counted, told>>

Bodies == {"error", "other", "text"}
Failures == {"refusal", "unreadable", "passed", "trips", "answer"}
Next ==
  \/ Open
  \/ \E b \in Blocks : SendPiece(b)
  \/ SendEnd
  \/ EndStream
  \/ AnswerWhole
  \/ AnswerInJson
  \/ \E body \in Bodies : Fail(body) \/ FailUnderFine(body)

-----------------------------------------------------------------------------
(* What the rows of an entry must be like for the properties below to hold *)
(* of it, whatever is answered and asked.  The ends that are told: all but *)
(* those that are dropped.                                                 *)
Told(e, alone) ==
  LET its == EndingOf(e.at.speaks, alone)
  IN  {j \in DOMAIN its : ~Drops(e.at.speaks, its[j], e.chunks)}
Tells(e, alone, what) ==
  \E j \in Told(e, alone) : what \in EndingOf(e.at.speaks, alone)[j]

AgreeOnThought(e) ==
  e.at.speaks \in Chatty =>
    \A s \in BOOLEAN : ReasoningKept(e.whole, s) = ReasoningKept(e.chunks, s)
AgreeOnText(e) == "text" \in e.whole.keeps <=> "text" \in e.chunks.keeps
AgreeOnChoice(e) == e.chunks.choice = "first"
AgreeOnJoins(e) == e.whole.joins = "bare"
AgreeOnCalls(e) ==
  e.at.speaks \in Chatty =>
    /\ "calls" \in e.whole.keeps <=> "calls" \in e.chunks.keeps
    /\ "calls" \in e.chunks.keeps =>
         \/ e.chunks.numbers = "byBlock"
         \/ e.chunks.numbers = "said" /\ e.at.speaks = "chat"
         \/ e.chunks.numbers = "latest" /\ e.at.speaks # "chat"
FinishEnds(e, alone, why, s, called) ==
  IF e.chunks.tells \in {"finish", "usage"} /\ Tells(e, alone, e.chunks.tells)
  THEN FinishTold(e.chunks.finish, why, s, called) ELSE NoReason
AgreeOnFinish(e, alone) ==
  /\ e.chunks.tells # "finishAndUsage"
  /\ \A s \in BOOLEAN, called \in {e.at.speaks \in Chatty, FALSE} :
       \A why \in Reasons(called) :
         FinishEnds(e, alone, why, s, called) =
           FinishTold(e.whole.finish, why, s, called /\ "calls" \in e.whole.keeps)
AgreeOnUsage(e, alone) ==
  "usage" \in e.whole.keeps
    <=> "usage" \in e.chunks.keeps /\ Tells(e, alone, "usage")

EndsOnce(e, alone) ==
  LET its == EndingOf(e.at.speaks, alone)
  IN  /\ e.chunks.done # "each"
      /\ \E j \in Told(e, alone) :
           /\ TellsDone(its[j], e.chunks)
           /\ \A k \in Told(e, alone) \ {j} : ~TellsDone(its[k], e.chunks)
           /\ \A k \in Told(e, alone) : k > j => its[k] = {"done"}
Breaks(e, alone) ==
  LET its == EndingOf(e.at.speaks, alone)
  IN  \E j \in DOMAIN its : TripsUp(e.at.speaks, its[j], e.chunks)

-----------------------------------------------------------------------------
(* A stream and a whole answer are two ways to say one thing.  When a      *)
(* stream has ended the caller's client has assembled what the whole       *)
(* answer to the same request would have told: the reasoning, the text,    *)
(* each call under its own number and with its own pieces in order, the    *)
(* reason it stopped and whether it was told what it used, all of it in    *)
(* the one choice and with nothing between the texts but what they say.    *)
StreamedAsWhole ==
  answer = "ended" =>
    \A facet \in {"thought", "text", "calls", "finish", "usage", "strays",
                 "parted"} :
      told[facet] = WholeTold[facet] \/ Excepted(entry, facet)

(* A stream that was answered comes to its end with one [DONE] and nothing *)
(* after it: no chunk that a provider may send trips its transform, and    *)
(* what streamed is not taken for an answer of one piece.                  *)
EndsWell ==
  /\ answer = "ended" =>
       (told.done = 1 /\ ~told.late) \/ Excepted(entry, "done")
  /\ answer \in {"cut", "misread"} => Excepted(entry, answer)

(* A provider's failure is not taken for an answer, does not trip the      *)
(* transform that reads it, and unless the provider's failures are passed  *)
(* on as they come it is told as a failure, whether its body names an      *)
(* error, is another or is a page of text.                                 *)
FailureIsNamed ==
  answer \in {"answer", "trips", "passed"} => Excepted(entry, answer)

(* What reads the answer was written for the dialect of the address the    *)
(* request went to, and so was the table the request was written by.       *)
SentWhereServed ==
  answer # "none" =>
    \/ /\ entry.says = dialect
       /\ entry.whole.reads = dialect
       /\ entry.chunks.reads = dialect
    \/ Excepted(entry, "dialect")
=============================================================================
