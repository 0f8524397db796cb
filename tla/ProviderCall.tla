---------------------------- MODULE ProviderCall ----------------------------
(***************************************************************************)
(* One call to a provider: from a request that has been read to the        *)
(* answer sendWebResponse is given.                                        *)
(*                                                                         *)
(* postToProvider prepares the request, sends it under the caller's abort  *)
(* signal and an optional deadline, gives what comes back to               *)
(* responseHandler and the result to adaptResponse.  tryPost turns         *)
(* whatever fails after a hangup into a 499, and the handler's own catch   *)
(* reports every other failure.  A body that streams is handed on unread:  *)
(* what becomes of it is the business of StreamDelivery.                   *)
(*                                                                         *)
(* Sources: handlers/handlerUtils.ts, handlers/responseHandlers.ts,        *)
(* handlers/streamHandler.ts, handlers/adapterUtils.ts, utils/fetch.ts,    *)
(* handlers/*Handler.ts, errors/gatewayErrorResponse.ts, index.ts.         *)
(***************************************************************************)
EXTENDS Naturals

CONSTANTS
  Status,     \* statuses a provider answers with
  Redirects   \* those of them isRedirect recognises

(* 204 and 205 are left out: they carry no body to route.                  *)
ASSUME StatusAssumption ==
  /\ Status \subseteq (200 .. 599) \ {204, 205, 499}
  /\ Redirects = Status \cap (300 .. 399)

(* The content types the routing of responseHandler tells apart.  sse is   *)
(* also every stream handleStreamingMode relabels (Bedrock's frames), raw  *)
(* is audio, images and octet-streams, none is a missing header.           *)
ContentType == {"json", "sse", "text", "raw", "none"}
Kind == {"stream", "json", "text", "passthrough", "error"}
NoStatus == 0
None == "none"

Request == [streaming : BOOLEAN,   \* the caller asked for a stream
            adapted : BOOLEAN,     \* served through the Responses adapter
            timed : BOOLEAN,       \* a request timeout applies
            transforms : BOOLEAN]  \* the provider has a response transform

VARIABLES
  request,   \* what the caller asked for
  pc,        \* "arriving", "preparing", "fetching", "reading", "adapting",
             \* "answered"
  gone,      \* getClientAbortSignal().aborted
  timer,     \* the request timeout: "off", "armed" or "fired"
  heard,     \* the status the provider answered with
  response,  \* the response responseHandler is given: status, content type
  body,      \* its body: "arriving", "whole", "odd" (does not parse, or the
             \* transform rejects it), "broken" or "aborted"
  mapped,    \* what responseHandler made of it
  answer,    \* what sendWebResponse is given
  captured   \* a fault has been sent to Sentry

vars == <<request, pc, gone, timer, heard, response, body, mapped, answer,
          captured>>

NoResponse == [status |-> NoStatus, type |-> "none"]
NoAnswer == [status |-> NoStatus, kind |-> None]

DataTypeOK ==
  /\ request \in Request
  /\ pc \in {"arriving", "preparing", "fetching", "reading", "adapting",
             "answered"}
  /\ timer \in {"off", "armed", "fired"}
  /\ heard \in Status \cup {NoStatus}
  /\ response \in [status : Nat, type : ContentType]
  /\ body \in {"arriving", "whole", "odd", "broken", "aborted"}
  /\ mapped \in Kind \cup {None}
  /\ answer \in {NoAnswer} \cup [status : Nat, kind : Kind]

FlagTypeOK == gone \in BOOLEAN /\ captured \in BOOLEAN

TypeOK == DataTypeOK /\ FlagTypeOK

Init ==
  /\ request \in Request
  /\ pc = "arriving"
  /\ gone = FALSE
  /\ timer = "off"
  /\ heard = NoStatus
  /\ response = NoResponse
  /\ body = "arriving"
  /\ mapped = None
  /\ answer = NoAnswer
  /\ captured = FALSE

-----------------------------------------------------------------------------
(* The two ways a call ends: with a response, or with something thrown.    *)

Return(status, kind) ==
  /\ pc' = "answered"
  /\ answer' = [status |-> status, kind |-> kind]
  /\ UNCHANGED captured

(* Mutant: tryPost has no guard, so a hangup is a fault like any other.    *)
UnguardedThrow(status) ==
  /\ pc' = "answered"
  /\ answer' = [status |-> status, kind |-> "error"]
  /\ captured' = TRUE

(* tryPost's catch, then the handler's.                                    *)
Throw(status) ==
  /\ pc' = "answered"
  /\ IF gone
     THEN /\ answer' = [status |-> 499, kind |-> "error"]
          /\ UNCHANGED captured
     ELSE /\ answer' = [status |-> status, kind |-> "error"]
          /\ captured' = TRUE

-----------------------------------------------------------------------------
(* Ahead of the handler a request is refused without a report: a body that *)
(* does not parse or a header that does not validate.                      *)
Refuse ==
  /\ pc = "arriving"
  /\ Return(400, "error")
  /\ UNCHANGED <<request, gone, timer, heard, response, body, mapped>>

Admit ==
  /\ pc = "arriving"
  /\ pc' = "preparing"
  /\ UNCHANGED <<request, gone, timer, heard, response, body, mapped, answer,
                 captured>>

(* The Responses routes that only a native provider serves.                *)
AdapterRefuses ==
  /\ pc = "preparing"
  /\ Return(400, "error")
  /\ UNCHANGED <<request, gone, timer, heard, response, body, mapped>>

(* A GatewayError (unsupported provider or endpoint, a bad host, an        *)
(* identity that may not be used), or a token that cannot be minted.       *)
PreparationFails(status) ==
  /\ pc = "preparing"
  /\ Throw(status)
  /\ UNCHANGED <<request, gone, timer, heard, response, body, mapped>>

(* Mutant: the deadline is set for calls that stream only.                 *)
SendLate ==
  /\ pc = "preparing"
  /\ pc' = "fetching"
  /\ timer' = IF request.timed /\ request.streaming THEN "armed" ELSE "off"
  /\ UNCHANGED <<request, gone, heard, response, body, mapped, answer,
                 captured>>

Send ==
  /\ pc = "preparing"
  /\ pc' = "fetching"
  /\ timer' = IF request.timed THEN "armed" ELSE "off"
  /\ UNCHANGED <<request, gone, heard, response, body, mapped, answer,
                 captured>>

-----------------------------------------------------------------------------
(* How responseHandler routes: what it streams and what it hands on        *)
(* unread, both in the turn the headers arrive in.                         *)
Streamed == request.streaming /\ response.type # "json"
            /\ response.status \in {200, 246}

(* 408 and 412 are read whole and handed on as they came.                  *)
ReadAsItIs == response.status \in {408, 412}

Unread ==
  /\ ~Streamed
  /\ \/ response.type \in {"raw", "none"}
     \/ /\ response.type \in {"json", "sse"}
        /\ ~request.transforms
        /\ ~ReadAsItIs

(* The caller's signal and the deadline both abort the fetch, and the      *)
(* caller's goes on to abort the body the provider is still sending.       *)
(*                                                                         *)
(* Mutant: the signal ends with the fetch and leaves the body alone.       *)
HangUpDuringFetch ==
  /\ pc # "answered"
  /\ ~gone
  /\ pc = "reading" => ~Streamed /\ ~Unread
  /\ gone' = TRUE
  /\ UNCHANGED <<request, pc, timer, heard, response, body, mapped, answer,
                 captured>>

HangUp ==
  /\ pc # "answered"
  /\ ~gone
  /\ pc = "reading" => ~Streamed /\ ~Unread
  /\ gone' = TRUE
  /\ body' = IF pc \in {"reading", "adapting"} /\ body = "arriving"
             THEN "aborted" ELSE body
  /\ UNCHANGED <<request, pc, timer, heard, response, mapped, answer,
                 captured>>

TimerFires ==
  /\ timer = "armed"
  /\ timer' = "fired"
  /\ UNCHANGED <<request, pc, gone, heard, response, body, mapped, answer,
                 captured>>

Aborted == gone \/ timer = "fired"

(* Mutant: nobody clears the timer.                                        *)
StillTicking(t) == t

(* clearTimeout, in the finally of every way out of the fetch.             *)
Disarmed(t) == IF t = "armed" THEN "off" ELSE t

(* Mutant: every abort is taken for the deadline's.                        *)
AlwaysTimedOut ==
  /\ pc = "fetching"
  /\ Aborted
  /\ timer' = Disarmed(timer)
  /\ pc' = "reading"
  /\ response' = [status |-> 408, type |-> "json"]
  /\ body' = "whole"
  /\ UNCHANGED <<answer, captured>>
  /\ UNCHANGED <<request, gone, heard, mapped>>

(* A hangup is left to tryPost's guard; a deadline the caller is still     *)
(* waiting on becomes the gateway's own 408, which goes on to              *)
(* responseHandler like any other response.                                *)
FetchAborts ==
  /\ pc = "fetching"
  /\ Aborted
  /\ timer' = Disarmed(timer)
  /\ IF gone
     THEN /\ Throw(500)
          /\ UNCHANGED <<response, body>>
     ELSE /\ pc' = "reading"
          /\ response' = [status |-> 408, type |-> "json"]
          /\ body' = "whole"
          /\ UNCHANGED <<answer, captured>>
  /\ UNCHANGED <<request, gone, heard, mapped>>

(* The connection fails, or the agent's headersTimeout runs out.           *)
FetchFails ==
  /\ pc = "fetching"
  /\ ~Aborted
  /\ timer' = Disarmed(timer)
  /\ Throw(500)
  /\ UNCHANGED <<request, gone, heard, response, body, mapped>>

(* Mutant: the redirect is passed on.                                      *)
RelayedRedirect(status, type) == [status |-> status, type |-> type]

(* A redirect is answered rather than followed.                            *)
Unredirected(status, type) ==
  IF status \in Redirects THEN [status |-> 502, type |-> "json"]
                          ELSE [status |-> status, type |-> type]

HeadersArrive(status, type) ==
  /\ pc = "fetching"
  /\ ~Aborted
  /\ pc' = "reading"
  /\ timer' = Disarmed(timer)
  /\ heard' = status
  /\ response' = Unredirected(status, type)
  /\ body' = IF status \in Redirects THEN "whole" ELSE "arriving"
  /\ UNCHANGED <<request, gone, mapped, answer, captured>>

-----------------------------------------------------------------------------
(* The provider's body, while somebody may be reading it.                  *)

BodyIsRead == pc \in {"reading", "adapting"} /\ body = "arriving"

BodyEnds ==
  /\ BodyIsRead
  /\ body' \in {"whole", "odd"}
  /\ UNCHANGED <<request, pc, gone, timer, heard, response, mapped, answer,
                 captured>>

BodyBreaks ==
  /\ BodyIsRead
  /\ body' = "broken"
  /\ UNCHANGED <<request, pc, gone, timer, heard, response, mapped, answer,
                 captured>>

-----------------------------------------------------------------------------
(* responseHandler.                                                        *)
(* updateResponseHeaders keeps the status and adaptResponse takes the      *)
(* result further only when an adapter is active.                          *)
HandOn(kind) ==
  /\ mapped' = kind
  /\ IF request.adapted
     THEN pc' = "adapting" /\ UNCHANGED <<answer, captured>>
     ELSE Return(response.status, kind)

Route ==
  /\ pc = "reading"
  /\ \/ Streamed /\ HandOn("stream")
     \/ Unread /\ HandOn("passthrough")
  /\ UNCHANGED <<request, gone, timer, heard, response, body>>

(* Mutant: only a body that breaks is noticed, not one that is aborted.    *)
ReadFailsWhenBroken ==
  /\ pc = "reading"
  /\ ~Streamed /\ ~Unread
  /\ body = "broken" \/ (body = "odd" /\ response.type \in {"json", "sse"})
  /\ Throw(500)
  /\ UNCHANGED <<request, gone, timer, heard, response, body, mapped>>

ReadFails ==
  /\ pc = "reading"
  /\ ~Streamed /\ ~Unread
  /\ \/ body \in {"broken", "aborted"}
     \/ body = "odd" /\ response.type \in {"json", "sse"}
  /\ Throw(500)
  /\ UNCHANGED <<request, gone, timer, heard, response, body, mapped>>

ReadText ==
  /\ pc = "reading"
  /\ ~Streamed
  /\ response.type = "text"
  /\ body \in {"whole", "odd"}
  /\ HandOn(IF request.transforms THEN "json" ELSE "text")
  /\ UNCHANGED <<request, gone, timer, heard, response, body>>

ReadJson ==
  /\ pc = "reading"
  /\ ~Streamed /\ ~Unread
  /\ response.type \in {"json", "sse"}
  /\ body = "whole"
  /\ HandOn("json")
  /\ UNCHANGED <<request, gone, timer, heard, response, body>>

-----------------------------------------------------------------------------
(* adaptResponse.  The adapter's answer is JSON unless the response still  *)
(* says it is an event stream.  The stream it writes is a new response,    *)
(* which is a 200 whatever the provider's status was; JSON keeps it.       *)

AdaptStream ==
  /\ pc = "adapting"
  /\ response.type = "sse"
  /\ Return(200, "stream")
  /\ UNCHANGED <<request, gone, timer, heard, response, body, mapped>>

(* Mutant: an untransformed body is taken as it is.                        *)
TakenOnTrust ==
  \/ mapped = "json"
  \/ mapped = "text" /\ body = "whole"
  \/ mapped = "passthrough"

Readable ==
  \/ mapped = "json"
  \/ mapped = "text" /\ body = "whole"
  \/ mapped = "passthrough" /\ body = "whole"

Unreadable ==
  \/ mapped = "text" /\ body = "odd"
  \/ mapped = "passthrough" /\ body \in {"odd", "broken", "aborted"}
  \/ mapped = "stream" /\ body # "arriving"

(* Mutant: JSON is told as a 200 too, as a stream is.                      *)
AdaptJsonAsOk ==
  /\ pc = "adapting"
  /\ response.type # "sse"
  /\ Readable
  /\ Return(200, "json")
  /\ UNCHANGED <<request, gone, timer, heard, response, body, mapped>>

AdaptJson ==
  /\ pc = "adapting"
  /\ response.type # "sse"
  /\ Readable
  /\ Return(response.status, "json")
  /\ UNCHANGED <<request, gone, timer, heard, response, body, mapped>>

(* The failure is caught here, so neither tryPost nor the handler sees it. *)
AdaptFails ==
  /\ pc = "adapting"
  /\ response.type # "sse"
  /\ Unreadable
  /\ Return(500, "error")
  /\ UNCHANGED <<request, gone, timer, heard, response, body, mapped>>

-----------------------------------------------------------------------------
Prepare ==
  \/ AdapterRefuses
  \/ \E status \in {400, 500} : PreparationFails(status)
  \/ Send

(* What the gateway does by itself, once what it waits for is there.       *)
Gateway ==
  \/ Refuse \/ Admit
  \/ FetchAborts
  \/ Route \/ ReadFails \/ ReadText \/ ReadJson
  \/ AdaptStream \/ AdaptJson \/ AdaptFails

Provider ==
  \/ FetchFails
  \/ \E status \in Status, type \in ContentType : HeadersArrive(status, type)
  \/ BodyEnds \/ BodyBreaks

Next == Prepare \/ Gateway \/ Provider \/ HangUp \/ TimerFires

(* The gateway's own steps and its timers happen; preparation ends because *)
(* the token requests it may wait for run under the agent's headersTimeout *)
(* and the caller's signal.  Nothing makes the provider answer or finish,  *)
(* and nothing makes a caller stay or leave.                               *)
Fairness ==
  /\ WF_vars(Gateway)
  /\ WF_vars(Prepare)
  /\ WF_vars(TimerFires)

Spec == Init /\ [][Next]_vars /\ Fairness

-----------------------------------------------------------------------------
(* The call keeps what CallPromise says: every status the caller is sent   *)
(* is one its cause justifies, whatever the order of hangup, deadline and  *)
(* answer (tryPost, postToProvider).                                       *)
Promise == INSTANCE CallPromise WITH
  late <- timer = "fired", answered <- answer.status, reported <- captured,
  rewritten <- request.adapted /\ response.type = "sse"
KeepsPromise == Promise!Init /\ [][Promise!Next]_Promise!vars

(* A deadline never outlives the fetch it is for: firing later it would    *)
(* abort a body the caller is being sent.                                  *)
DeadlineEndsWithFetch == timer = "armed" => pc = "fetching"

(* Nobody is paged for a caller who left: no failure is captured once the  *)
(* caller has gone, wherever the hangup found the call.                    *)
HangupIsNotReported == [][captured' # captured => ~gone]_vars

(* Whatever the provider answers with, and in whatever type, a caller of   *)
(* the Responses API is never handed the provider's body unconverted, and  *)
(* what the gateway converts or composes is the whole body, never the part *)
(* that arrived before the provider broke off or the caller left.          *)
AnswersFromWholes ==
  /\ request.adapted => answer.kind \notin {"passthrough", "text"}
  /\ answer.kind \in {"json", "text"} => body \in {"whole", "odd"}

(* Whatever a call waits for, the gateway has a step to take once it is    *)
(* there: no status, content type, body and conversion fall between the    *)
(* cases of responseHandler, and none between those of adaptResponse.      *)
NeverStuck ==
  /\ pc = "preparing" => ENABLED <<Prepare>>_vars
  /\ timer = "armed" => ENABLED <<TimerFires>>_vars
  /\ \/ pc = "arriving"
     \/ pc = "fetching" /\ Aborted
     \/ pc \in {"reading", "adapting"} /\ body # "arriving"
     => ENABLED <<Gateway>>_vars

(* A caller who leaves ends the call, however slow the provider is: the    *)
(* fetch or the body being read is aborted for them.                       *)
HangupEndsTheCall == gone ~> pc = "answered"

(* A request timeout ends the wait for a provider that never answers.      *)
TimeoutEndsTheWait ==
  (pc = "fetching" /\ request.timed) ~> (pc # "fetching")

(* No wait for a provider outlasts the caller, or the deadline set for it. *)
EveryWaitEnds == HangupEndsTheCall /\ TimeoutEndsTheWait
=============================================================================
