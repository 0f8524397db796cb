---------------------------- MODULE AnswerTables ----------------------------
(***************************************************************************)
(* The language the providers' response transforms are written in: one row *)
(* for the transform of a whole answer, one for that of a stream's chunks. *)
(* A row says what of the message gets through the transform and how.      *)
(*                                                                         *)
(* Source: providers/utils.ts, utils/finishReasonMap.ts, and the response  *)
(* half of open-ai-base/index.ts.                                          *)
(***************************************************************************)
EXTENDS Integers, Sequences

(* What a failure is taken for: a refusal that names the provider's        *)
(* reason, an answer that could not be read, an answer after all; or it is *)
(* passed on as it came, or trips the transform up.  For a failing status  *)
(* and then for one that says all is well, in turn: a body that names its  *)
(* error, another body, and a page of text, which comes as html-message.   *)
Taken(failing, fine) ==
  LET byBody(taken) == [error |-> taken[1], other |-> taken[2], text |-> taken[3]]
  IN  [failing |-> byBody(failing), fine |-> byBody(fine)]

AllOf(taken) == <<taken, taken, taken>>
ErrorOnly(taken, rest) == <<taken, rest, rest>>

(* Mutant: only a body that names an error is a failure.                   *)
ReadByError == Taken(ErrorOnly("refusal", "passed"), AllOf("unreadable"))

(* status !== 200 && 'error' in response, and then the answer's own field. *)
Checked == Taken(ErrorOnly("refusal", "unreadable"), AllOf("unreadable"))
Unchecked == Taken(ErrorOnly("refusal", "passed"), AllOf("passed"))

(* An error is one whatever the status.                                    *)
CheckedAlways ==
  Taken(ErrorOnly("refusal", "unreadable"), ErrorOnly("refusal", "unreadable"))

(* A failing status is a failure whatever the body, and so is a page of    *)
(* text: it is the reason if nothing in it says more.                      *)
readProviderResponse ==
  Taken(AllOf("refusal"), <<"unreadable", "unreadable", "refusal">>)

(* A custom transformer answers for what was read, and with no word of its *)
(* own on a failure leaves that to the reader.                             *)
ReadThenPassed == Taken(AllOf("refusal"), <<"passed", "passed", "refusal">>)

-----------------------------------------------------------------------------
(* "blocks" is reasoning kept in content_blocks alone, which only a caller *)
(* who is not strict is sent.                                              *)
Everything == {"thought", "text", "calls", "usage"}
Facets == Everything \union {"finish"}

(* reads    the dialect the transform was written for                      *)
(* keeps    what of the message it passes on                               *)
(* joins    what it puts between texts that come apart: nothing, or lines  *)
(* finish   how the reason the provider gives is told                      *)
(* refuses  what it makes of an answer that is a failure                   *)
Whole(keeps) ==
  [reads |-> "chat", keeps |-> keeps, joins |-> "bare", finish |-> "said",
   refuses |-> Checked]

(* numbers  whether a call goes by the number the provider said, by one    *)
(*          counted and kept for its block, or by the latest counted       *)
(* tells    the piece of the end the finish reason is told with            *)
(* alone    what becomes of usage in a chunk without choices               *)
(* done     when it tells [DONE]: when the provider says so, or of itself  *)
(*          with the finish, or with the usage, or with each chunk         *)
(* choice   the choice it tells all of it under: the first, or the one     *)
(*          with the number of the block that was sent last                *)
Stream(keeps) ==
  [reads |-> "chat", keeps |-> keeps, finish |-> "said", numbers |-> "said",
   tells |-> "finish", alone |-> "kept", done |-> "passed",
   choice |-> "first"]

Reading(dialect, row) == [row EXCEPT !.reads = dialect]
Finishing(how, row) == [row EXCEPT !.finish = how]
Refusing(how, row) == [row EXCEPT !.refuses = how]
Alone(fate, row) == [row EXCEPT !.alone = fate]
Done(when, row) == [row EXCEPT !.done = when]
Numbering(how, row) == [row EXCEPT !.numbers = how]

(* Without a transform an answer is passed on as it came.                  *)
Passed ==
  Refusing(Taken(AllOf("passed"), AllOf("passed")), Whole(Everything))
PassedChunks == Stream(Everything)

(* What the OpenAI-compatible providers' answers are read by: the body is  *)
(* read, its fields kept, and transformReasoning names the reasoning.      *)
upstreamTransformer == Refusing(readProviderResponse, Whole(Everything))

-----------------------------------------------------------------------------
(* A reason is one of OpenAI's, or the provider's own word for it; "other" *)
(* is a word of its own the map does not know.                             *)
NoReason == [is |-> "none", own |-> FALSE]
Reason(is) == [is |-> is, own |-> FALSE]
OwnWord(is) == [is |-> is, own |-> TRUE]

transformFinishReason(reason, strict) ==
  IF ~strict THEN reason
  ELSE Reason(IF reason.is = "other" THEN "stop" ELSE reason.is)

FinishTold(how, reason, strict, called) ==
  CASE how = "said" -> reason
    [] how = "mapped" -> transformFinishReason(reason, strict)
    [] how = "called" -> IF called THEN Reason("calls")
                         ELSE transformFinishReason(reason, strict)
    [] how \in {"stop", "length"} -> Reason(how)
    [] how = "none" -> NoReason

(* content_blocks are for callers who did not ask for OpenAI's own shape.  *)
ReasoningKept(row, strict) ==
  "thought" \in row.keeps \/ ("blocks" \in row.keeps /\ ~strict)
=============================================================================
