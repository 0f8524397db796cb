--------------------------- MODULE ProviderExchange ---------------------------
(***************************************************************************)
(* A request and its answer.  The caller's words become the request the    *)
(* table of the provider writes (ProviderRequest); it goes to the address  *)
(* the catalogue has for it, and the answer comes back through the         *)
(* transforms the catalogue names (ProviderAnswer).  What the table made   *)
(* of the caller's "stream" decides how the provider answers, and what the *)
(* caller said how the answer is read.                                     *)
(*                                                                         *)
(* Source: handlers/handlerUtils.ts and handlers/responseHandlers.ts.      *)
(***************************************************************************)
EXTENDS ProviderRequest

CONSTANTS
  Catalogue,      \* who serves what
  Messages,       \* the messages a provider may answer with
  Excepted(_, _)  \* whether of an entry of the catalogue something is known

VARIABLES
  entry, strict, lone, message, reason, pieces, ends, counted, told, answer

answerVars ==
  <<entry, strict, lone, message, reason, pieces, ends, counted, told, answer>>

Answer == INSTANCE ProviderAnswer

ASSUME MessagesAssumption == Messages \subseteq Seq(Answer!Kinds) \ {<<>>}

ExchangeInit ==
  /\ Init
  /\ entry = "none" /\ strict = FALSE /\ lone = FALSE
  /\ Answer!Waiting /\ answer = "none"

-----------------------------------------------------------------------------
(* streamingMode is read off what the caller said, before it is mapped.    *)
Streamed == {"chatComplete", "complete"}

(* An entry can be asked to stream, and to tell usage in a chunk of its    *)
(* own, if its table speaks of it.                                         *)
SpeaksOf(e, p) ==
  \E i \in DOMAIN Rows(e.table) :
    p \in {Rows(e.table)[i].of} \union Rows(e.table)[i].reads
MayStream(e) ==
  /\ e.fn \in Streamed /\ e.at.streams # "json"
  /\ e.at.streams = "body" => SpeaksOf(e, "stream")
MayBeLone(e) == {SpeaksOf(e, "stream_options"), FALSE}

(* The transforms of an entry agree with each other, with the dialect they *)
(* read and with what its table passes on, or something is known of it.    *)
ASSUME CatalogueAssumption ==
  \A e \in Catalogue :
    /\ \A body \in Answer!Bodies :
         {e.whole.refuses.failing[body], e.whole.refuses.fine[body]}
           \subseteq Answer!Failures
    /\ e.fn \in Streamed /\ e.at.streams = "json" => Excepted(e, "misread")
    /\ MayStream(e) =>
         /\ Answer!AgreeOnThought(e) \/ Excepted(e, "thought")
         /\ Answer!AgreeOnText(e) \/ Excepted(e, "text")
         /\ Answer!AgreeOnChoice(e) \/ Excepted(e, "strays")
         /\ Answer!AgreeOnJoins(e) \/ Excepted(e, "parted")
         /\ Answer!AgreeOnCalls(e) \/ Excepted(e, "calls")
         /\ \A alone \in MayBeLone(e) :
              /\ Answer!AgreeOnFinish(e, alone) \/ Excepted(e, "finish")
              /\ Answer!AgreeOnUsage(e, alone) \/ Excepted(e, "usage")
              /\ Answer!Breaks(e, alone) => Excepted(e, "cut")
              /\ \/ Answer!EndsOnce(e, alone) \/ Answer!Breaks(e, alone)
                 \/ Excepted(e, "done")

streamingMode(e) == "stream" \in DOMAIN asked /\ e.fn \in Streamed

Reached(p) == \E f \in DOMAIN sent : p \in sent[f].from /\ sent[f].is # "undefined"
ToldToStream ==
  "stream" \in DOMAIN asked /\ asked["stream"].is = "word" /\ Reached("stream")

(* The provider streams where its address is one that does, or, where it   *)
(* is the body that says so, if the body came to say so.                   *)
Streams(e) ==
  streamingMode(e) /\ (e.at.streams = "body" => ToldToStream)

(* The request is on its way; it and what the caller said are not looked   *)
(* at again.                                                               *)
HandOver ==
  /\ outcome = "sent"
  /\ outcome' = "handed"
  /\ entry' \in {e \in Catalogue : e.table = table}
  /\ strict' \in BOOLEAN
  /\ lone' = (Streams(entry') /\ Reached("stream_options"))
  /\ answer' = IF ~Streams(entry') THEN "whole"
               ELSE IF entry'.at.streams = "json" THEN "array" ELSE "streamed"
  /\ asked' = <<>> /\ params' = <<>> /\ sent' = <<>> /\ at' = 0
  /\ UNCHANGED <<table, message, reason, pieces, ends, counted, told>>

Map == Next /\ UNCHANGED answerVars
Read == outcome = "handed" /\ Answer!Next /\ UNCHANGED vars

ExchangeNext == Map \/ HandOver \/ Read

ExchangeSpec == ExchangeInit /\ [][ExchangeNext]_<<vars, answerVars>>

-----------------------------------------------------------------------------
(* Of every answer to every request: a stream that has ended has told the  *)
(* caller what the whole answer to the same request would have, whatever   *)
(* transforms the catalogue reads the two with.                            *)
StreamedAsWhole == Answer!StreamedAsWhole

(* A stream ends with one [DONE], nothing after it, and no transform       *)
(* trips over how its provider ends one, with usage in a chunk of its own  *)
(* where the table passed stream_options on.                               *)
EndsWell == Answer!EndsWell

(* Whatever status and body a provider fails with, the caller is told of a *)
(* failure.                                                                *)
FailureIsNamed == Answer!FailureIsNamed

(* The table a request is written by, the address getEndpoint sends it to  *)
(* and the transforms its answer is read by are those of one dialect.      *)
SentWhereServed == Answer!SentWhereServed
=============================================================================
