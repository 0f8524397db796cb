------------------------- MODULE ProviderCallProofs -------------------------
(***************************************************************************)
(* Proofs about ProviderCall: its type, the deadline that ends with the    *)
(* fetch, the hangup nobody is paged for, that the call implements         *)
(* CallPromise, that it is never stuck and that a hangup and a deadline    *)
(* end it.  The strengthening is Cause: in every state, what has been      *)
(* heard, whether the timer fired and the status about to be handed on     *)
(* belong together.                                                        *)
(*                                                                         *)
(* And, at the end, about CredentialCache, where a call that is being      *)
(* prepared finds the credential it is sent with.                          *)
(***************************************************************************)
EXTENDS ProviderCall, CredentialCache, TLAPS

(* Nothing is answered before the call is over, nothing is heard before    *)
(* the fetch is, and a response that is being read has a status its cause  *)
(* justifies.                                                              *)
Cause ==
  /\ pc # "answered" => answer = NoAnswer
  /\ pc \in {"arriving", "preparing", "fetching"} => heard = NoStatus
  /\ pc \in {"arriving", "preparing"} => timer = "off"
  /\ pc \in {"reading", "adapting"} =>
       \/ response.status = 408 /\ timer = "fired" /\ heard = NoStatus
       \/ response.status = 502 /\ heard \in Redirects
       \/ response.status = heard /\ heard \in Status \ Redirects

(* A report ends the call.                                                 *)
Unreported == pc # "answered" => captured = FALSE

DataInv == DataTypeOK /\ DeadlineEndsWithFetch /\ Cause
FlagInv == FlagTypeOK /\ Unreported
IInv == DataInv /\ FlagInv

LEMMA StatusFacts ==
  /\ Status \subseteq Nat \ {0, 499}
  /\ Redirects \subseteq Status
BY StatusAssumption

LEMMA InitInv == Init => IInv
<1>1. Init => DataInv
  BY DEF Init, DataInv, DataTypeOK, DeadlineEndsWithFetch, Cause, NoAnswer,
         NoResponse, NoStatus, None, ContentType, Kind
<1>2. Init => FlagInv
  BY DEF Init, FlagInv, FlagTypeOK, Unreported
<1> QED
  BY <1>1, <1>2 DEF IInv

-----------------------------------------------------------------------------
(* The data keep their type and their cause.                               *)
LEMMA DataStep == DataInv /\ [Next]_vars => DataInv'
<1> SUFFICES ASSUME DataInv, [Next]_vars PROVE DataInv'
  OBVIOUS
<1> USE DEF DataInv, DataTypeOK, DeadlineEndsWithFetch, Cause, NoAnswer,
            NoStatus, None, Kind
<1>1. CASE Prepare
  <2>1. CASE AdapterRefuses
    BY <2>1 DEF AdapterRefuses, Return
  <2>2. ASSUME NEW status \in {400, 500}, PreparationFails(status)
        PROVE  DataInv'
    BY <2>2 DEF PreparationFails, Throw
  <2>3. CASE Send
    BY <2>3 DEF Send
  <2> QED
    BY <1>1, <2>1, <2>2, <2>3 DEF Prepare
<1>2. CASE Gateway
  <2>1. CASE Refuse \/ Admit
    BY <2>1 DEF Refuse, Admit, Return
  <2>2. CASE FetchAborts
    BY <2>2 DEF FetchAborts, Throw, Aborted, Disarmed, ContentType
  <2>3. CASE Route
    BY <2>3 DEF Route, HandOn, Return
  <2>4. CASE ReadFails
    BY <2>4 DEF ReadFails, Throw
  <2>5. CASE ReadText
    BY <2>5 DEF ReadText, HandOn, Return
  <2>6. CASE ReadJson
    BY <2>6 DEF ReadJson, HandOn, Return
  <2>7. CASE AdaptStream \/ AdaptJson \/ AdaptFails
    BY <2>7 DEF AdaptStream, AdaptJson, AdaptFails, Return
  <2> QED
    BY <1>2, <2>1, <2>2, <2>3, <2>4, <2>5, <2>6, <2>7 DEF Gateway
<1>3. CASE Provider
  <2>1. CASE FetchFails
    BY <2>1 DEF FetchFails, Throw, Aborted, Disarmed
  <2>2. ASSUME NEW status \in Status, NEW type \in ContentType,
               HeadersArrive(status, type)
        PROVE  DataInv'
    <3>1. pc' = "reading" /\ timer' = "off" /\ heard' = status
      BY <2>2 DEF HeadersArrive, Disarmed, Aborted
    <3>2. CASE status \in Redirects
      BY <2>2, <3>1, <3>2 DEF HeadersArrive, Unredirected, ContentType
    <3>3. CASE status \notin Redirects
      BY <2>2, <3>1, <3>3, StatusFacts DEF HeadersArrive, Unredirected
    <3> QED
      BY <3>2, <3>3
  <2>3. CASE BodyEnds \/ BodyBreaks
    BY <2>3 DEF BodyEnds, BodyBreaks, BodyIsRead
  <2> QED
    BY <1>3, <2>1, <2>2, <2>3 DEF Provider
<1>4. CASE HangUp \/ TimerFires
  BY <1>4 DEF HangUp, TimerFires
<1>5. CASE UNCHANGED vars
  BY <1>5 DEF vars
<1> QED
  BY <1>1, <1>2, <1>3, <1>4, <1>5 DEF Next

(* Whatever reports also ends the call.                                    *)
LEMMA FlagStep == FlagInv /\ [Next]_vars => FlagInv'
<1> SUFFICES ASSUME FlagInv, [Next]_vars PROVE FlagInv'
  OBVIOUS
<1> USE DEF FlagInv, FlagTypeOK, Unreported
<1>1. CASE Prepare
  <2>1. CASE AdapterRefuses
    BY <2>1 DEF AdapterRefuses, Return
  <2>2. ASSUME NEW status \in {400, 500}, PreparationFails(status)
        PROVE  FlagInv'
    BY <2>2 DEF PreparationFails, Throw
  <2>3. CASE Send
    BY <2>3 DEF Send
  <2> QED
    BY <1>1, <2>1, <2>2, <2>3 DEF Prepare
<1>2. CASE Gateway
  BY <1>2 DEF Gateway, Refuse, Admit, FetchAborts, Route, ReadFails, ReadText,
              ReadJson, AdaptStream, AdaptJson, AdaptFails, HandOn, Return,
              Throw
<1>3. CASE Provider
  BY <1>3 DEF Provider, FetchFails, HeadersArrive, BodyEnds, BodyBreaks, Throw
<1>4. CASE HangUp \/ TimerFires \/ UNCHANGED vars
  BY <1>4 DEF HangUp, TimerFires, vars
<1> QED
  BY <1>1, <1>2, <1>3, <1>4 DEF Next

LEMMA StepInv == IInv /\ [Next]_vars => IInv'
BY DataStep, FlagStep DEF IInv

LEMMA Invariant == Spec => []IInv
BY InitInv, StepInv, PTL DEF Spec

(* Every variable keeps its type.                                          *)
THEOREM TypeCorrect == Spec => []TypeOK
<1>1. IInv => TypeOK
  BY DEF IInv, DataInv, FlagInv, TypeOK
<1> QED
  BY <1>1, Invariant, PTL

(* No request timeout is pending once the fetch it bounds is over.         *)
THEOREM DeadlineEnds == Spec => []DeadlineEndsWithFetch
<1>1. IInv => DeadlineEndsWithFetch
  BY DEF IInv, DataInv
<1> QED
  BY <1>1, Invariant, PTL

-----------------------------------------------------------------------------
(* Nothing but Throw reports, and Throw looks at the caller first.         *)
LEMMA ReportStep == IInv /\ [Next]_vars => (captured' # captured => ~gone)
<1> SUFFICES ASSUME IInv, [Next]_vars, captured' # captured PROVE ~gone
  OBVIOUS
<1>1. CASE Prepare
  BY <1>1 DEF Prepare, AdapterRefuses, PreparationFails, Send, Return, Throw
<1>2. CASE Gateway
  BY <1>2 DEF Gateway, Refuse, Admit, FetchAborts, Route, ReadFails, ReadText,
              ReadJson, AdaptStream, AdaptJson, AdaptFails, HandOn, Return,
              Throw
<1>3. CASE Provider
  BY <1>3 DEF Provider, FetchFails, HeadersArrive, BodyEnds, BodyBreaks, Throw
<1>4. CASE HangUp \/ TimerFires \/ UNCHANGED vars
  BY <1>4 DEF HangUp, TimerFires, vars
<1> QED
  BY <1>1, <1>2, <1>3, <1>4 DEF Next

(* No failure is captured once the caller has gone, wherever the hangup    *)
(* found the call.                                                         *)
THEOREM HangupUnreported == Spec => HangupIsNotReported
<1>1. IInv /\ [Next]_vars => [captured' # captured => ~gone]_vars
  BY ReportStep
<1> QED
  BY <1>1, Invariant, PTL DEF Spec, HangupIsNotReported

-----------------------------------------------------------------------------
(* The call implements its promise, step by step.                          *)

LEMMA PromiseInit == Init => Promise!Init
BY DEF Init, Promise!Init, NoAnswer, NoResponse, NoStatus, Promise!NoStatus

(* Before the call is over nothing has been answered or reported.          *)
LEMMA Before ==
  ASSUME IInv, pc # "answered"
  PROVE  /\ answer.status = 0
         /\ captured = FALSE
<1>1. answer.status = 0
  BY DEF IInv, DataInv, Cause, NoAnswer, NoStatus
<1>2. captured = FALSE
  BY DEF IInv, FlagInv, Unreported
<1> QED
  BY <1>1, <1>2

(* An adapter writes the response anew as an event stream.                 *)
Rewritten == request.adapted /\ response.type = "sse"

(* What the gateway composed itself, a 408 or the 502 of a redirect, is    *)
(* JSON: no event stream is written from it.  And only what is served      *)
(* through an adapter waits for one.                                       *)
ComposedIsJson ==
  /\ pc = "adapting" => request.adapted
  /\ pc \in {"arriving", "preparing", "fetching"} => response.type = "none"
  /\ pc \in {"reading", "adapting"} /\ response.type = "sse"
       => heard \in Status \ Redirects

LEMMA ComposedStep == IInv /\ ComposedIsJson /\ [Next]_vars => ComposedIsJson'
<1> SUFFICES ASSUME IInv, ComposedIsJson, [Next]_vars PROVE ComposedIsJson'
  OBVIOUS
<1> USE DEF ComposedIsJson
<1>1. CASE Prepare
  BY <1>1 DEF Prepare, AdapterRefuses, PreparationFails, Send, Return, Throw
<1>2. CASE FetchAborts
  BY <1>2 DEF FetchAborts, Throw
<1>3. CASE Refuse \/ Admit \/ Route \/ ReadFails \/ ReadText \/ ReadJson
            \/ AdaptStream \/ AdaptJson \/ AdaptFails
  BY <1>3 DEF Refuse, Admit, Route, ReadFails, ReadText, ReadJson,
              AdaptStream, AdaptJson, AdaptFails, HandOn, Return, Throw
<1>4. ASSUME NEW status \in Status, NEW type \in ContentType,
             HeadersArrive(status, type)
      PROVE  ComposedIsJson'
  BY <1>4 DEF HeadersArrive, Unredirected
<1>5. CASE FetchFails \/ BodyEnds \/ BodyBreaks \/ HangUp \/ TimerFires
            \/ UNCHANGED vars
  BY <1>5 DEF FetchFails, BodyEnds, BodyBreaks, HangUp, TimerFires, Throw, vars
<1> QED
  BY <1>1, <1>2, <1>3, <1>4, <1>5 DEF Next, Gateway, Provider

LEMMA ComposedInvariant == Spec => [](IInv /\ ComposedIsJson)
<1>1. Init => ComposedIsJson
  BY DEF Init, ComposedIsJson, NoResponse
<1> QED
  BY <1>1, ComposedStep, Invariant, PTL DEF Spec

(* The status of a response being read is one the promise permits, unless  *)
(* an adapter writes it anew; then what it permits is a 200.               *)
LEMMA CausePermits ==
  ASSUME IInv, ComposedIsJson, pc \in {"reading", "adapting"}
  PROVE  /\ ~Rewritten => /\ response.status \in {200, 499, 408, 502} \cup Status
                         /\ Promise!Permitted(response.status)
         /\ Rewritten => Promise!Permitted(200)
<1>1. heard \in Status => heard # 0
  BY StatusFacts
<1>2. CASE ~Rewritten
  BY <1>1, <1>2 DEF IInv, DataInv, Cause, Promise!Permitted, Promise!Relay,
                    Rewritten, NoStatus, Promise!NoStatus
<1>3. CASE Rewritten
  BY <1>1, <1>3 DEF ComposedIsJson, Promise!Permitted, Promise!Relay,
                    Rewritten, Promise!NoStatus
<1> QED
  BY <1>2, <1>3

(* What Throw answers with is the 499 of a caller who left or an error of  *)
(* the gateway's own.                                                      *)
LEMMA ThrowIsAnswer ==
  ASSUME IInv, pc # "answered", NEW status \in {400, 500}, Throw(status),
         UNCHANGED <<request, gone, heard, response>>,
         (timer' = "fired") = (timer = "fired")
  PROVE  Promise!Answer
<1>1. answer.status = 0 /\ captured = FALSE
  BY Before
<1>2. CASE gone
  <2>1. answer'.status = 499 /\ captured' = FALSE
    BY <1>1, <1>2 DEF Throw
  <2>2. Promise!Permitted(499)
    BY <1>2 DEF Promise!Permitted
  <2> QED
    BY <1>1, <2>1, <2>2 DEF Promise!Answer, Promise!NoStatus
<1>3. CASE ~gone
  <2>1. answer'.status \in {400, 500}
    BY <1>3 DEF Throw
  <2>2. captured' \in {FALSE, ~gone}
    BY <1>3 DEF Throw
  <2> QED
    BY <1>1, <2>1, <2>2 DEF Promise!Answer, Promise!Own, Promise!NoStatus
<1> QED
  BY <1>2, <1>3

LEMMA ReturnIsAnswer ==
  ASSUME IInv, ComposedIsJson, pc # "answered",
         NEW status, NEW kind, Return(status, kind),
         \/ status \in {400, 500}
         \/ /\ pc \in {"reading", "adapting"}
            /\ status = IF Rewritten THEN 200 ELSE response.status,
         UNCHANGED <<request, gone, heard, response, timer>>
  PROVE  Promise!Answer
<1>1. answer.status = 0 /\ captured = FALSE
  BY Before
<1>2. answer'.status = status /\ captured' = FALSE
  BY <1>1 DEF Return
<1>3. CASE status \in {400, 500}
  BY <1>1, <1>2, <1>3 DEF Promise!Answer, Promise!Own, Promise!NoStatus
<1>4. CASE /\ pc \in {"reading", "adapting"}
           /\ status = IF Rewritten THEN 200 ELSE response.status
  <2>1. /\ status \in {200, 499, 408, 502} \cup Status
        /\ Promise!Permitted(status)
    BY <1>4, CausePermits
  <2>2. /\ answer'.status \in {200, 499, 408, 502} \cup Status
        /\ Promise!Permitted(answer'.status)
    BY <1>2, <2>1
  <2>3. UNCHANGED <<gone, timer = "fired", heard,
                    request.adapted /\ response.type = "sse">>
    OBVIOUS
  <2> QED
    BY <1>1, <1>2, <2>2, <2>3, Zenon DEF Promise!Answer, Promise!NoStatus
<1> QED
  BY <1>3, <1>4

LEMMA PreparePromise == IInv /\ ComposedIsJson /\ Prepare => [Promise!Next]_Promise!vars
<1> SUFFICES ASSUME IInv, ComposedIsJson, Prepare
             PROVE  [Promise!Next]_Promise!vars
  OBVIOUS
<1>1. CASE AdapterRefuses
  <2>1. Promise!Answer
    BY <1>1, ReturnIsAnswer DEF AdapterRefuses
  <2> QED
    BY <2>1 DEF Promise!Next
<1>2. ASSUME NEW status \in {400, 500}, PreparationFails(status)
      PROVE  [Promise!Next]_Promise!vars
  <2>1. Promise!Answer
    BY <1>2, ThrowIsAnswer DEF PreparationFails
  <2> QED
    BY <2>1 DEF Promise!Next
<1>3. CASE Send
  <2>1. timer = "off"
    BY <1>3 DEF Send, IInv, DataInv, Cause
  <2>2. (timer' = "fired") = (timer = "fired")
    BY <1>3, <2>1 DEF Send
  <2> QED
    BY <1>3, <2>2 DEF Send, Promise!vars
<1> QED
  BY <1>1, <1>2, <1>3 DEF Prepare

LEMMA GatewayPromise == IInv /\ ComposedIsJson /\ Gateway => [Promise!Next]_Promise!vars
<1> SUFFICES ASSUME IInv, ComposedIsJson, Gateway
             PROVE  [Promise!Next]_Promise!vars
  OBVIOUS
<1>1. CASE Refuse
  <2>1. Promise!Answer
    BY <1>1, ReturnIsAnswer DEF Refuse
  <2> QED
    BY <2>1 DEF Promise!Next
<1>2. CASE Admit
  BY <1>2 DEF Admit, Promise!vars
<1>3. CASE FetchAborts
  <2>1. (timer' = "fired") = (timer = "fired")
    BY <1>3 DEF FetchAborts, Disarmed
  <2>2. CASE gone
    <3>1. Promise!Answer
      BY <1>3, <2>1, <2>2, ThrowIsAnswer DEF FetchAborts
    <3> QED
      BY <3>1 DEF Promise!Next
  <2>3. CASE ~gone
    BY <1>3, <2>1, <2>3 DEF FetchAborts, ComposedIsJson, Promise!vars
  <2> QED
    BY <2>2, <2>3
<1>4. ASSUME NEW kind, HandOn(kind), pc = "reading",
             UNCHANGED <<request, gone, timer, heard, response, body>>
      PROVE  [Promise!Next]_Promise!vars
  <2>1. CASE request.adapted
    BY <1>4, <2>1 DEF HandOn, Promise!vars
  <2>2. CASE ~request.adapted
    <3>1. Promise!Answer
      BY <1>4, <2>2, ReturnIsAnswer DEF HandOn, Rewritten
    <3> QED
      BY <3>1 DEF Promise!Next
  <2> QED
    BY <2>1, <2>2
<1>5. CASE Route
  BY <1>4, <1>5 DEF Route
<1>6. CASE ReadText
  BY <1>4, <1>6 DEF ReadText
<1>7. CASE ReadJson
  BY <1>4, <1>7 DEF ReadJson
<1>8. CASE ReadFails
  <2>1. Promise!Answer
    BY <1>8, ThrowIsAnswer DEF ReadFails
  <2> QED
    BY <2>1 DEF Promise!Next
<1>9. CASE AdaptStream \/ AdaptJson \/ AdaptFails
  <2>1. request.adapted
    BY <1>9 DEF AdaptStream, AdaptJson, AdaptFails, ComposedIsJson
  <2>2. Promise!Answer
    BY <1>9, <2>1, ReturnIsAnswer
       DEF AdaptStream, AdaptJson, AdaptFails, Rewritten
  <2> QED
    BY <2>2 DEF Promise!Next
<1> QED
  BY <1>1, <1>2, <1>3, <1>5, <1>6, <1>7, <1>8, <1>9 DEF Gateway

LEMMA ProviderPromise == IInv /\ ComposedIsJson /\ Provider => [Promise!Next]_Promise!vars
<1> SUFFICES ASSUME IInv, ComposedIsJson, Provider
             PROVE  [Promise!Next]_Promise!vars
  OBVIOUS
<1>1. CASE FetchFails
  <2>1. (timer' = "fired") = (timer = "fired")
    BY <1>1 DEF FetchFails, Disarmed
  <2>2. Promise!Answer
    BY <1>1, <2>1, ThrowIsAnswer DEF FetchFails
  <2> QED
    BY <2>2 DEF Promise!Next
<1>2. ASSUME NEW status \in Status, NEW type \in ContentType,
             HeadersArrive(status, type)
      PROVE  [Promise!Next]_Promise!vars
  <2>1. timer # "fired" /\ timer' # "fired" /\ ~gone
    BY <1>2 DEF HeadersArrive, Aborted, Disarmed
  <2>2. heard = 0 /\ answer.status = 0
    BY <1>2, Before DEF HeadersArrive, IInv, DataInv, Cause, NoStatus
  <2>3. Rewritten' => heard' \notin Redirects
    BY <1>2 DEF HeadersArrive, Unredirected, Rewritten
  <2>4. Promise!ProviderAnswers
    BY <1>2, <2>1, <2>2, <2>3
       DEF HeadersArrive, Promise!ProviderAnswers, Promise!NoStatus, Rewritten
  <2> QED
    BY <2>4 DEF Promise!Next
<1>3. CASE BodyEnds \/ BodyBreaks
  BY <1>3 DEF BodyEnds, BodyBreaks, Promise!vars
<1> QED
  BY <1>1, <1>2, <1>3 DEF Provider

LEMMA CallerPromise ==
  IInv /\ (HangUp \/ TimerFires) => [Promise!Next]_Promise!vars
<1> SUFFICES ASSUME IInv, HangUp \/ TimerFires
             PROVE  [Promise!Next]_Promise!vars
  OBVIOUS
<1>1. CASE HangUp
  <2>1. Promise!CallerLeaves
    BY <1>1, Before DEF HangUp, Promise!CallerLeaves, Promise!NoStatus
  <2> QED
    BY <2>1 DEF Promise!Next
<1>2. CASE TimerFires
  <2>1. pc = "fetching"
    BY <1>2 DEF TimerFires, IInv, DataInv, DeadlineEndsWithFetch
  <2>2. heard = 0 /\ answer.status = 0
    BY <2>1, Before DEF IInv, DataInv, Cause, NoStatus
  <2>3. Promise!TimeRunsOut
    BY <1>2, <2>1, <2>2 DEF TimerFires, Promise!TimeRunsOut, Promise!NoStatus
  <2> QED
    BY <2>3 DEF Promise!Next
<1> QED
  BY <1>1, <1>2

LEMMA PromiseStep ==
  IInv /\ ComposedIsJson /\ [Next]_vars => [Promise!Next]_Promise!vars
<1>1. UNCHANGED vars => UNCHANGED Promise!vars
  BY DEF vars, Promise!vars
<1> QED
  BY <1>1, PreparePromise, GatewayPromise, ProviderPromise, CallerPromise
     DEF Next

(* Every behaviour of a call is one CallPromise allows: each answer's      *)
(* status follows from its cause, an adapted event stream is a 200, and a  *)
(* caller who left is never reported.                                      *)
THEOREM ImplementsPromise == Spec => KeepsPromise
BY PromiseInit, PromiseStep, ComposedInvariant, PTL DEF Spec, KeepsPromise

-----------------------------------------------------------------------------
(* What was made of the body, while it waits for the adapter, was made of  *)
(* the whole of it.                                                        *)
MadeOfWholes ==
  pc = "adapting" /\ mapped \in {"json", "text"} => body \in {"whole", "odd"}

(* A body that has arrived whole stays as it is.                           *)
LEMMA WholeStays ==
  ASSUME [Next]_vars, body \in {"whole", "odd"}, pc # "fetching"
  PROVE  body' = body
BY DEF Next, vars, Prepare, AdapterRefuses, PreparationFails, Send, Gateway,
       Refuse, Admit, FetchAborts, Route, ReadFails, ReadText, ReadJson,
       AdaptStream, AdaptJson, AdaptFails, Provider, FetchFails, HeadersArrive,
       BodyEnds, BodyBreaks, BodyIsRead, HangUp, TimerFires

LEMMA WholesInvariant == Spec => [](MadeOfWholes /\ AnswersFromWholes)
<1>1. Init => MadeOfWholes /\ AnswersFromWholes
  BY DEF Init, MadeOfWholes, AnswersFromWholes, NoAnswer, None
<1>2. IInv /\ MadeOfWholes /\ AnswersFromWholes /\ [Next]_vars
        => MadeOfWholes' /\ AnswersFromWholes'
  <2> SUFFICES ASSUME IInv, MadeOfWholes, AnswersFromWholes, [Next]_vars
               PROVE  MadeOfWholes' /\ AnswersFromWholes'
    OBVIOUS
  <2>1. pc # "answered" => answer = NoAnswer
    BY DEF IInv, DataInv, Cause
  <2>2. ASSUME NEW kind \in {"stream", "error"}, NEW status, Return(status, kind)
        PROVE  MadeOfWholes' /\ AnswersFromWholes'
    BY <2>2 DEF Return, MadeOfWholes, AnswersFromWholes
  <2>3. ASSUME NEW status, Throw(status)
        PROVE  MadeOfWholes' /\ AnswersFromWholes'
    <3>1. pc' = "answered" /\ answer'.kind = "error"
      BY <2>3 DEF Throw
    <3> QED
      BY <3>1 DEF MadeOfWholes, AnswersFromWholes
  <2>4. ASSUME NEW kind \in Kind, HandOn(kind), UNCHANGED <<request, body>>,
               pc = "reading",
               kind \in {"json", "text"} => body \in {"whole", "odd"}
        PROVE  MadeOfWholes' /\ AnswersFromWholes'
    <3>1. CASE request.adapted
      BY <2>1, <2>4, <3>1
         DEF HandOn, MadeOfWholes, AnswersFromWholes, NoAnswer, None
    <3>2. CASE ~request.adapted
      BY <2>4, <3>2 DEF HandOn, Return, MadeOfWholes, AnswersFromWholes
    <3> QED
      BY <3>1, <3>2
  <2>5. CASE Route
    BY <2>4, <2>5 DEF Route, Kind
  <2>6. CASE ReadText
    BY <2>4, <2>6 DEF ReadText, Kind
  <2>7. CASE ReadJson
    BY <2>4, <2>7 DEF ReadJson, Kind
  <2>8. CASE AdaptJson
    <3>1. body \in {"whole", "odd"}
      BY <2>8 DEF AdaptJson, Readable, MadeOfWholes
    <3> QED
      BY <2>8, <3>1 DEF AdaptJson, Return, MadeOfWholes, AnswersFromWholes
  <2>9. CASE AdapterRefuses \/ Refuse \/ AdaptStream \/ AdaptFails
    BY <2>2, <2>9 DEF AdapterRefuses, Refuse, AdaptStream, AdaptFails
  <2>10. CASE ReadFails \/ FetchFails \/ \E status \in {400, 500} : PreparationFails(status)
    BY <2>3, <2>10 DEF ReadFails, FetchFails, PreparationFails
  <2>11. ASSUME pc' \notin {"answered", "adapting"}, pc # "answered",
                UNCHANGED <<answer, request>>
         PROVE  MadeOfWholes' /\ AnswersFromWholes'
    BY <2>1, <2>11 DEF MadeOfWholes, AnswersFromWholes, NoAnswer, None
  <2>12. CASE Admit \/ Send
    BY <2>11, <2>12 DEF Admit, Send
  <2>13. CASE FetchAborts
    BY <2>3, <2>11, <2>13 DEF FetchAborts
  <2>14. ASSUME NEW status \in Status, NEW type \in ContentType,
                HeadersArrive(status, type)
         PROVE  MadeOfWholes' /\ AnswersFromWholes'
    BY <2>11, <2>14 DEF HeadersArrive
  <2>15. ASSUME UNCHANGED <<pc, mapped, answer, request>>,
                pc = "answered" => UNCHANGED body
         PROVE  MadeOfWholes' /\ AnswersFromWholes'
    BY <2>1, <2>15, WholeStays
       DEF MadeOfWholes, AnswersFromWholes, NoAnswer, None
  <2>16. CASE BodyEnds \/ BodyBreaks \/ HangUp \/ TimerFires \/ UNCHANGED vars
    BY <2>15, <2>16 DEF BodyEnds, BodyBreaks, BodyIsRead, HangUp, TimerFires, vars
  <2> QED
    BY <2>5, <2>6, <2>7, <2>8, <2>9, <2>10, <2>12, <2>13, <2>14, <2>16
       DEF Next, Prepare, Gateway, Provider
<1> QED
  BY <1>1, <1>2, Invariant, PTL DEF Spec

(* Whatever order the body, the hangup and the deadline come in, what is   *)
(* converted or composed is the whole body, and a caller of the Responses  *)
(* API never gets the provider's own.                                      *)
THEOREM WholesOnly == Spec => []AnswersFromWholes
BY WholesInvariant, PTL

-----------------------------------------------------------------------------
(* That the call goes on.  What an action can do is known to the provers   *)
(* only as far as it is assumed: CanBeTaken says of each fair action that  *)
(* it can be taken where one of its disjuncts has its guard, which is so   *)
(* by the form of the actions.  That the guards leave no case out is what  *)
(* is proved.                                                              *)
CanBeTaken ==
  /\ pc = "preparing" => ENABLED <<Prepare>>_vars          \* Send
  /\ timer = "armed" => ENABLED <<TimerFires>>_vars
  /\ \/ pc = "arriving"                                    \* Refuse, Admit
     \/ pc = "fetching" /\ Aborted                         \* FetchAborts
     \/ pc = "reading" /\ (Streamed \/ Unread)             \* Route
     \/ /\ pc = "reading" /\ ~Streamed /\ ~Unread          \* ReadFails
        /\ \/ body \in {"broken", "aborted"}
           \/ body = "odd" /\ response.type \in {"json", "sse"}
     \/ /\ pc = "reading" /\ ~Streamed                     \* ReadText
        /\ response.type = "text" /\ body \in {"whole", "odd"}
     \/ /\ pc = "reading" /\ ~Streamed /\ ~Unread          \* ReadJson
        /\ response.type \in {"json", "sse"} /\ body = "whole"
     \/ pc = "adapting" /\ response.type = "sse"           \* AdaptStream
     \/ pc = "adapting" /\ response.type # "sse" /\ Readable
     \/ pc = "adapting" /\ response.type # "sse" /\ Unreadable
     => ENABLED <<Gateway>>_vars

(* What waits for the adapter has been made into something it can take, a  *)
(* caller who left leaves no body arriving, and a fetch with a deadline    *)
(* has its timer.                                                          *)
Going ==
  /\ pc = "adapting" => mapped \in {"stream", "json", "text", "passthrough"}
  /\ gone /\ pc \in {"reading", "adapting"} => body # "arriving"
  /\ pc = "fetching" /\ request.timed => timer # "off"

GoingInv == IInv /\ MadeOfWholes /\ Going

LEMMA GoingStep ==
  IInv /\ MadeOfWholes /\ Going /\ [Next]_vars => Going'
<1> SUFFICES ASSUME IInv, MadeOfWholes, Going, [Next]_vars PROVE Going'
  OBVIOUS
<1> USE DEF Going
<1>1. CASE Prepare
  BY <1>1 DEF Prepare, AdapterRefuses, PreparationFails, Send, Return, Throw
<1>2. CASE Refuse \/ Admit \/ FetchAborts \/ ReadFails \/ AdaptStream
            \/ AdaptJson \/ AdaptFails
  BY <1>2 DEF Refuse, Admit, FetchAborts, ReadFails, AdaptStream, AdaptJson,
              AdaptFails, Return, Throw
<1>3. CASE Route \/ ReadText \/ ReadJson
  BY <1>3 DEF Route, ReadText, ReadJson, HandOn, Return
<1>4. CASE Provider
  BY <1>4 DEF Provider, FetchFails, HeadersArrive, BodyEnds, BodyBreaks,
              Throw, Aborted
<1>5. CASE HangUp
  BY <1>5 DEF HangUp
<1>6. CASE TimerFires \/ UNCHANGED vars
  BY <1>6 DEF TimerFires, vars
<1> QED
  BY <1>1, <1>2, <1>3, <1>4, <1>5, <1>6 DEF Next, Gateway

LEMMA GoingInvariant == Spec => []GoingInv
<1>1. Init => Going
  BY DEF Init, Going
<1> QED
  BY <1>1, GoingStep, Invariant, WholesInvariant, PTL DEF Spec, GoingInv

(* For any statuses and types, whatever a call waits for, some step of the *)
(* gateway can be taken once it is there: the cases of responseHandler and *)
(* of adaptResponse leave none out, because what reaches the adapter was   *)
(* made of a whole body and into a kind the adapter knows.                 *)
THEOREM NoCaseLeftOut == Spec /\ []CanBeTaken => []NeverStuck
<1>1. GoingInv /\ CanBeTaken => NeverStuck
  <2> SUFFICES ASSUME GoingInv, CanBeTaken,
                      pc \in {"reading", "adapting"}, body # "arriving"
               PROVE  ENABLED <<Gateway>>_vars
    BY DEF NeverStuck, CanBeTaken
  <2>1. /\ response.type \in ContentType
        /\ body \in {"whole", "odd", "broken", "aborted"}
    BY DEF GoingInv, IInv, DataInv, DataTypeOK
  <2>2. CASE pc = "reading"
    <3>1. CASE Streamed \/ Unread
      BY <2>2, <3>1 DEF CanBeTaken
    <3>2. CASE ~Streamed /\ ~Unread
      <4>1. response.type \notin {"raw", "none"}
        BY <3>2 DEF Unread
      <4> QED
        BY <2>1, <2>2, <3>2, <4>1 DEF CanBeTaken, ContentType
    <3> QED
      BY <3>1, <3>2
  <2>3. CASE pc = "adapting"
    <3>1. mapped \in {"stream", "json", "text", "passthrough"}
          /\ (mapped = "text" => body \in {"whole", "odd"})
      BY <2>3 DEF GoingInv, Going, MadeOfWholes
    <3>2. Readable \/ Unreadable
      BY <2>1, <3>1 DEF Readable, Unreadable
    <3> QED
      BY <2>3, <3>2 DEF CanBeTaken
  <2> QED
    BY <2>2, <2>3
<1> QED
  BY <1>1, GoingInvariant, PTL

-----------------------------------------------------------------------------
(* Where a call is, once its caller has left.                              *)
Left(place) == gone /\ pc = place

(* A caller who has left stays away, and the call goes one way.            *)
LEMMA LeftStep ==
  ASSUME [Next]_vars, gone
  PROVE  /\ gone'
         /\ pc = "arriving" => pc' \in {"arriving", "preparing", "answered"}
         /\ pc = "preparing" => pc' \in {"preparing", "fetching", "answered"}
         /\ pc = "fetching" => pc' \in {"fetching", "answered"}
         /\ pc = "reading" => pc' \in {"reading", "adapting", "answered"}
         /\ pc = "adapting" => pc' \in {"adapting", "answered"}
<1>1. CASE Prepare
  BY <1>1 DEF Prepare, AdapterRefuses, PreparationFails, Send, Return, Throw
<1>2. CASE Gateway
  BY <1>2 DEF Gateway, Refuse, Admit, FetchAborts, Route, ReadFails, ReadText,
              ReadJson, AdaptStream, AdaptJson, AdaptFails, HandOn, Return,
              Throw
<1>3. CASE Provider
  BY <1>3 DEF Provider, FetchFails, HeadersArrive, BodyEnds, BodyBreaks,
              BodyIsRead, Aborted
<1>4. CASE HangUp \/ TimerFires \/ UNCHANGED vars
  BY <1>4 DEF HangUp, TimerFires, vars
<1> QED
  BY <1>1, <1>2, <1>3, <1>4 DEF Next

(* What the gateway does moves the call on.                                *)
LEMMA GatewayMoves == Gateway => pc' # pc
BY DEF Gateway, Refuse, Admit, FetchAborts, Route, ReadFails, ReadText,
       ReadJson, AdaptStream, AdaptJson, AdaptFails, HandOn, Return, Throw

LEMMA PrepareMoves == Prepare => pc' # pc
BY DEF Prepare, AdapterRefuses, PreparationFails, Send, Return, Throw

(* For any statuses and types, a call whose caller has left is over in the *)
(* end, wherever the hangup finds it and whether or not the provider ever  *)
(* answers or finishes.                                                    *)
THEOREM HangupEnds == Spec /\ []CanBeTaken => HangupEndsTheCall
<1>1. ASSUME NEW place \in {"arriving", "fetching", "reading", "adapting"}
      PROVE  GoingInv /\ NeverStuck /\ Left(place) => ENABLED <<Gateway>>_vars
  BY DEF Left, GoingInv, Going, NeverStuck, Aborted
<1>2. Spec /\ []CanBeTaken =>
        (Left("arriving") ~> Left("preparing") \/ Left("answered"))
  <2>1. Left("arriving") /\ [Next]_vars
          => (Left("arriving") \/ Left("preparing") \/ Left("answered"))'
    BY LeftStep DEF Left
  <2>2. Left("arriving") /\ [Next]_vars /\ <<Gateway>>_vars
          => (Left("preparing") \/ Left("answered"))'
    BY LeftStep, GatewayMoves DEF Left
  <2>3. GoingInv /\ NeverStuck /\ Left("arriving") => ENABLED <<Gateway>>_vars
    BY <1>1
  <2> QED
    BY <2>1, <2>2, <2>3, NoCaseLeftOut, GoingInvariant, PTL DEF Spec, Fairness
<1>3. Spec /\ []CanBeTaken =>
        (Left("preparing") ~> Left("fetching") \/ Left("answered"))
  <2>1. Left("preparing") /\ [Next]_vars
          => (Left("preparing") \/ Left("fetching") \/ Left("answered"))'
    BY LeftStep DEF Left
  <2>2. Left("preparing") /\ [Next]_vars /\ <<Prepare>>_vars
          => (Left("fetching") \/ Left("answered"))'
    BY LeftStep, PrepareMoves DEF Left
  <2>3. NeverStuck /\ Left("preparing") => ENABLED <<Prepare>>_vars
    BY DEF NeverStuck, Left
  <2> QED
    BY <2>1, <2>2, <2>3, NoCaseLeftOut, PTL DEF Spec, Fairness
<1>4. Spec /\ []CanBeTaken => (Left("fetching") ~> Left("answered"))
  <2>1. Left("fetching") /\ [Next]_vars
          => (Left("fetching") \/ Left("answered"))'
    BY LeftStep DEF Left
  <2>2. Left("fetching") /\ [Next]_vars /\ <<Gateway>>_vars => Left("answered")'
    BY LeftStep, GatewayMoves DEF Left
  <2>3. GoingInv /\ NeverStuck /\ Left("fetching") => ENABLED <<Gateway>>_vars
    BY <1>1
  <2> QED
    BY <2>1, <2>2, <2>3, NoCaseLeftOut, GoingInvariant, PTL DEF Spec, Fairness
<1>5. Spec /\ []CanBeTaken =>
        (Left("reading") ~> Left("adapting") \/ Left("answered"))
  <2>1. Left("reading") /\ [Next]_vars
          => (Left("reading") \/ Left("adapting") \/ Left("answered"))'
    BY LeftStep DEF Left
  <2>2. Left("reading") /\ [Next]_vars /\ <<Gateway>>_vars
          => (Left("adapting") \/ Left("answered"))'
    BY LeftStep, GatewayMoves DEF Left
  <2>3. GoingInv /\ NeverStuck /\ Left("reading") => ENABLED <<Gateway>>_vars
    BY <1>1
  <2> QED
    BY <2>1, <2>2, <2>3, NoCaseLeftOut, GoingInvariant, PTL DEF Spec, Fairness
<1>6. Spec /\ []CanBeTaken => (Left("adapting") ~> Left("answered"))
  <2>1. Left("adapting") /\ [Next]_vars
          => (Left("adapting") \/ Left("answered"))'
    BY LeftStep DEF Left
  <2>2. Left("adapting") /\ [Next]_vars /\ <<Gateway>>_vars => Left("answered")'
    BY LeftStep, GatewayMoves DEF Left
  <2>3. GoingInv /\ NeverStuck /\ Left("adapting") => ENABLED <<Gateway>>_vars
    BY <1>1
  <2> QED
    BY <2>1, <2>2, <2>3, NoCaseLeftOut, GoingInvariant, PTL DEF Spec, Fairness
<1>7. GoingInv /\ gone => \/ Left("arriving") \/ Left("preparing")
                          \/ Left("fetching") \/ Left("reading")
                          \/ Left("adapting") \/ Left("answered")
  BY DEF GoingInv, IInv, DataInv, DataTypeOK, Left
<1>8. Left("answered") => pc = "answered"
  BY DEF Left
<1> QED
  BY <1>2, <1>3, <1>4, <1>5, <1>6, <1>7, <1>8, GoingInvariant, PTL
     DEF HangupEndsTheCall

-----------------------------------------------------------------------------
(* A fetch with a deadline, before the deadline and after it.              *)
Timing(state) == pc = "fetching" /\ timer = state

LEMMA TimingStep ==
  [Next]_vars /\ pc = "fetching" =>
    \/ pc' # "fetching"
    \/ timer' = timer
    \/ timer' = "fired"
<1> SUFFICES ASSUME [Next]_vars, pc = "fetching",
                    pc' = "fetching", timer' # timer
             PROVE  timer' = "fired"
  OBVIOUS
<1>1. ~Prepare
  BY DEF Prepare, AdapterRefuses, PreparationFails, Send
<1>2. ~Gateway
  BY GatewayMoves
<1>3. ~Provider
  BY DEF Provider, FetchFails, HeadersArrive, Throw, BodyEnds, BodyBreaks
<1>4. CASE HangUp \/ TimerFires \/ UNCHANGED vars
  BY <1>4 DEF HangUp, TimerFires, vars
<1> QED
  BY <1>1, <1>2, <1>3, <1>4 DEF Next

(* For any statuses and types, a fetch with a deadline does not wait for   *)
(* ever, though nothing makes the provider answer.                         *)
THEOREM TimeoutEnds == Spec /\ []CanBeTaken => TimeoutEndsTheWait
<1>1. Spec /\ []CanBeTaken =>
        (Timing("armed") ~> Timing("fired") \/ pc # "fetching")
  <2>1. Timing("armed") /\ [Next]_vars
          => Timing("armed")' \/ (Timing("fired") \/ pc # "fetching")'
    BY TimingStep DEF Timing
  <2>2. Timing("armed") /\ [Next]_vars /\ <<TimerFires>>_vars
          => (Timing("fired") \/ pc # "fetching")'
    BY DEF Timing, TimerFires
  <2>3. CanBeTaken /\ Timing("armed") => ENABLED <<TimerFires>>_vars
    BY DEF CanBeTaken, Timing
  <2> QED
    BY <2>1, <2>2, <2>3, PTL DEF Spec, Fairness
<1>2. Spec /\ []CanBeTaken => (Timing("fired") ~> pc # "fetching")
  <2>1. Timing("fired") /\ [Next]_vars
          => Timing("fired")' \/ (pc # "fetching")'
    BY TimingStep DEF Timing
  <2>2. Timing("fired") /\ [Next]_vars /\ <<Gateway>>_vars
          => (pc # "fetching")'
    BY GatewayMoves DEF Timing
  <2>3. CanBeTaken /\ Timing("fired") => ENABLED <<Gateway>>_vars
    BY DEF CanBeTaken, Timing, Aborted
  <2> QED
    BY <2>1, <2>2, <2>3, PTL DEF Spec, Fairness
<1>3. GoingInv /\ pc = "fetching" /\ request.timed
        => Timing("armed") \/ Timing("fired")
  BY DEF GoingInv, IInv, DataInv, DataTypeOK, Going, Timing
<1> QED
  BY <1>1, <1>2, <1>3, GoingInvariant, PTL DEF TimeoutEndsTheWait

(* No provider keeps a call waiting past its caller or its deadline.       *)
THEOREM WaitsEnd == Spec /\ []CanBeTaken => EveryWaitEnds
BY HangupEnds, TimeoutEnds DEF EveryWaitEnds

-----------------------------------------------------------------------------
(* A value that the key's mint can have made: for the key, and with its    *)
(* token unless the mint makes an object of anything.                      *)
Fits(k, value) == value.key = k /\ (k \notin Wrapped => value.full)

(* An entry holds a credential of its own key, or none, and ends within a  *)
(* mint's latency of the credential's own time and within one of the       *)
(* lengths its key allows from now.                                        *)
EntryInv ==
  \A k \in Identity : cache[k] # NoEntry =>
    /\ cache[k].value # Nothing =>
         /\ Fits(k, cache[k].value)
         /\ cache[k].expiresAt <=
              cache[k].value.issued + cache[k].value.kept + MintBound
    /\ \E kept \in Kept[k] : cache[k].expiresAt <= clock + kept

(* What a call was minted is for the key it wants, may be kept as long as  *)
(* it says, and is no older than the bound.                                *)
MintInv ==
  \A c \in Caller :
    /\ stage[c] # "idle" => wanted[c] \in Identity
    /\ minted[c] # Nothing =>
         /\ stage[c] = "answered"
         /\ Fits(wanted[c], minted[c])
         /\ minted[c].kept \in Kept[wanted[c]]
         /\ clock <= minted[c].issued + MintBound

CacheInv == CacheTypeOK /\ EntryInv /\ MintInv

LEMMA CacheInitInv == CacheInit => CacheInv /\ GoodCredentials
BY CacheAssumption
   DEF CacheInit, CacheInv, CacheTypeOK, EntryInv, MintInv, GoodCredentials,
       HandedInTime, HitsAreCredentials

(* What is given keeps the promises about it, if it is a credential of the *)
(* key asked for and in its time, or nothing and no hit.                   *)
LEMMA GiveIsGood ==
  ASSUME NEW k \in Identity, NEW value \in Credential \cup {Nothing},
         NEW hit \in BOOLEAN, Give(k, value, hit), UNCHANGED clock,
         value # Nothing => /\ Fits(k, value)
                            /\ clock <= value.issued + value.kept + MintBound,
         hit => value # Nothing
  PROVE  handed' \in Handing /\ GoodCredentials'
<1> DEFINE new == [key |-> k, value |-> value, hit |-> hit]
<1>1. handed' = new /\ new \in Handing
  BY DEF Give, Handing
<1>2. new.key = k /\ new.value = value /\ new.hit = hit
  OBVIOUS
<1> HIDE DEF new
<1>3. HandedInTime'
  BY <1>1, <1>2 DEF HandedInTime
<1>4. HitsAreCredentials'
  BY <1>1, <1>2, Zenon DEF HitsAreCredentials, Fits
<1> QED
  BY <1>1, <1>3, <1>4 DEF GoodCredentials

LEMMA GiveNothingIsGood == GiveNothing => GoodCredentials'
BY DEF GiveNothing, GoodCredentials, HandedInTime, HitsAreCredentials

(* What get finds was made for its key and is still in its time.           *)
LEMMA FoundIsCurrent ==
  ASSUME CacheInv, NEW k \in Identity, Usable(k)
  PROVE  /\ Found(k) \in Credential
         /\ Fits(k, Found(k))
         /\ clock <= Found(k).issued + Found(k).kept + MintBound
<1>1. /\ cache[k] # NoEntry /\ clock <= cache[k].expiresAt
      /\ Found(k) = cache[k].value /\ cache[k].value # Nothing
  BY CacheAssumption DEF Usable, Found, Overdue, CacheInv, CacheTypeOK, Entry
<1>2. cache[k] \in Entry
  BY <1>1 DEF CacheInv, CacheTypeOK
<1>3. cache[k].value \in Credential /\ cache[k].expiresAt \in Nat
  BY <1>1, <1>2 DEF Entry
<1>4. /\ Fits(k, cache[k].value)
      /\ cache[k].expiresAt <=
           cache[k].value.issued + cache[k].value.kept + MintBound
  BY <1>1 DEF CacheInv, EntryInv
<1> QED
  BY <1>1, <1>3, <1>4, CacheAssumption DEF CacheInv, CacheTypeOK, Credential

-----------------------------------------------------------------------------
(* A call that ends leaves every other mint as it was.                     *)
LEMMA FinishKeeps ==
  ASSUME CacheTypeOK, MintInv, NEW c \in Caller, Finish(c), UNCHANGED clock
  PROVE  /\ stage' \in [Caller -> {"idle", "minting", "answered"}]
         /\ wanted' \in [Caller -> Identity \cup {Nothing}]
         /\ minted' \in [Caller -> Credential \cup {Nothing}]
         /\ MintInv'
<1>1. /\ stage'[c] = "idle" /\ minted'[c] = Nothing
      /\ \A d \in Caller \ {c} : /\ stage'[d] = stage[d]
                                 /\ wanted'[d] = wanted[d]
                                 /\ minted'[d] = minted[d]
  BY DEF Finish, CacheTypeOK
<1>2. MintInv'
  BY <1>1 DEF MintInv
<1> QED
  BY <1>2 DEF Finish, CacheTypeOK

LEMMA HitStep ==
  ASSUME CacheInv, NEW c \in Caller, NEW k \in Identity, Hit(c, k)
  PROVE  CacheInv' /\ GoodCredentials'
<1> DEFINE value == Found(k)
<1>0. /\ value \in Credential /\ Fits(k, value)
      /\ clock <= value.issued + value.kept + MintBound
      /\ value # Nothing
      /\ Give(k, value, TRUE) /\ UNCHANGED clock
  BY FoundIsCurrent DEF Hit, Usable
<1> HIDE DEF value
<1>1. handed' \in Handing /\ GoodCredentials'
  BY <1>0, GiveIsGood
<1> QED
  BY <1>1 DEF Hit, CacheInv, CacheTypeOK, EntryInv, MintInv

LEMMA MissStep ==
  ASSUME CacheInv, NEW c \in Caller, NEW k \in Identity, Miss(c, k)
  PROVE  CacheInv' /\ GoodCredentials'
<1>1. CacheTypeOK'
  BY DEF Miss, GiveNothing, CacheInv, CacheTypeOK
<1>2. \A j \in Identity : cache'[j] = cache[j] \/ cache'[j] = NoEntry
  BY DEF Miss, CacheInv, CacheTypeOK
<1>3. EntryInv'
  BY <1>2 DEF Miss, CacheInv, EntryInv
<1>4. /\ stage'[c] = "minting" /\ wanted'[c] = k /\ minted'[c] = Nothing
      /\ \A d \in Caller \ {c} : /\ stage'[d] = stage[d]
                                 /\ wanted'[d] = wanted[d]
                                 /\ minted'[d] = minted[d]
  BY DEF Miss, CacheInv, CacheTypeOK, MintInv
<1>5. MintInv'
  BY <1>4 DEF Miss, CacheInv, MintInv
<1>6. GoodCredentials'
  BY GiveNothingIsGood DEF Miss
<1> QED
  BY <1>1, <1>3, <1>5, <1>6 DEF CacheInv

(* What a mint makes, with its token or without.                           *)
LEMMA MakeFits ==
  ASSUME CacheInv, NEW c \in Caller, stage[c] = "minting",
         NEW full \in {TRUE, FALSE}, Make(c, full),
         full = FALSE => wanted[c] \in Wrapped
  PROVE  \E new \in Credential :
           /\ minted' = [minted EXCEPT ![c] = new]
           /\ Fits(wanted[c], new)
           /\ new.kept \in Kept[wanted[c]]
           /\ clock <= new.issued + MintBound
<1>1. wanted[c] \in Identity
  BY DEF CacheInv, MintInv
<1>2. CASE full = TRUE
  <2>1. PICK kept \in Kept[wanted[c]] :
               minted' = [minted EXCEPT ![c] =
                            [key |-> wanted[c], issued |-> clock,
                             kept |-> kept, full |-> TRUE]]
    BY <1>2 DEF Make
  <2> DEFINE new == [key |-> wanted[c], issued |-> clock, kept |-> kept,
                     full |-> TRUE]
  <2>2. kept \in Nat /\ clock \in Nat /\ MintBound \in Nat
    BY <1>1, CacheAssumption DEF CacheInv, CacheTypeOK
  <2>3. new \in Credential
    BY <1>1, <2>2 DEF Credential
  <2>4. new.key = wanted[c] /\ new.issued = clock /\ new.kept = kept
    OBVIOUS
  <2>5. Fits(wanted[c], new)
    BY <1>2 DEF Fits
  <2>6. minted' = [minted EXCEPT ![c] = new]
    BY <2>1
  <2> HIDE DEF new
  <2>7. clock <= new.issued + MintBound
    BY <2>2, <2>4
  <2> QED
    BY <2>3, <2>4, <2>5, <2>6, <2>7
<1>3. CASE full = FALSE
  <2>1. PICK kept \in Kept[wanted[c]] :
               minted' = [minted EXCEPT ![c] =
                            [key |-> wanted[c], issued |-> clock,
                             kept |-> kept, full |-> FALSE]]
    BY <1>3 DEF Make
  <2> DEFINE new == [key |-> wanted[c], issued |-> clock, kept |-> kept,
                     full |-> FALSE]
  <2>2. kept \in Nat /\ clock \in Nat /\ MintBound \in Nat
    BY <1>1, CacheAssumption DEF CacheInv, CacheTypeOK
  <2>3. new \in Credential
    BY <1>1, <2>2 DEF Credential
  <2>4. new.key = wanted[c] /\ new.issued = clock /\ new.kept = kept
    OBVIOUS
  <2>5. Fits(wanted[c], new)
    BY <1>3 DEF Fits
  <2>6. minted' = [minted EXCEPT ![c] = new]
    BY <2>1
  <2> HIDE DEF new
  <2>7. clock <= new.issued + MintBound
    BY <2>2, <2>4
  <2> QED
    BY <2>3, <2>4, <2>5, <2>6, <2>7
<1> QED
  BY <1>2, <1>3

LEMMA IssueStep ==
  ASSUME CacheInv, NEW c \in Caller,
         Issue(c) \/ IssueNothing(c) \/ IssueHollow(c)
  PROVE  CacheInv' /\ GoodCredentials'
<1>1. /\ UNCHANGED <<clock, cache, wanted>> /\ GiveNothing
      /\ wanted[c] \in Identity /\ stage[c] = "minting"
  BY DEF Issue, IssueNothing, IssueHollow, Answered, CacheInv, MintInv
<1>2. EntryInv' /\ GoodCredentials'
  BY <1>1, GiveNothingIsGood DEF CacheInv, EntryInv
<1>3. /\ stage'[c] = "answered"
      /\ stage' = [stage EXCEPT ![c] = "answered"]
      /\ \A d \in Caller \ {c} : stage'[d] = stage[d]
  BY DEF Issue, IssueNothing, IssueHollow, Answered, CacheInv, CacheTypeOK
<1>4. CASE Issue(c) \/ IssueHollow(c)
  <2>1. PICK new \in Credential :
               /\ minted' = [minted EXCEPT ![c] = new]
               /\ Fits(wanted[c], new)
               /\ new.kept \in Kept[wanted[c]]
               /\ clock <= new.issued + MintBound
    <3>1. CASE Issue(c)
      BY <1>1, <3>1, MakeFits DEF Issue
    <3>2. CASE IssueHollow(c)
      BY <1>1, <3>2, MakeFits DEF IssueHollow
    <3> QED
      BY <1>4, <3>1, <3>2
  <2>2. /\ minted'[c] = new /\ minted' \in [Caller -> Credential \cup {Nothing}]
        /\ \A d \in Caller \ {c} : minted'[d] = minted[d]
    BY <2>1 DEF CacheInv, CacheTypeOK
  <2>3. CacheTypeOK'
    BY <1>1, <1>3, <2>2 DEF GiveNothing, CacheInv, CacheTypeOK
  <2>4. MintInv'
    BY <1>1, <1>3, <2>1, <2>2 DEF CacheInv, MintInv
  <2> QED
    BY <1>2, <2>3, <2>4 DEF CacheInv
<1>5. CASE IssueNothing(c)
  <2>1. UNCHANGED minted
    BY <1>5 DEF IssueNothing
  <2>2. minted[c] = Nothing
    BY <1>5 DEF IssueNothing, Answered, CacheInv, MintInv
  <2>3. CacheTypeOK'
    BY <1>1, <1>3, <2>1 DEF GiveNothing, CacheInv, CacheTypeOK
  <2>4. MintInv'
    BY <1>1, <1>3, <2>1, <2>2 DEF CacheInv, MintInv
  <2> QED
    BY <1>2, <2>3, <2>4 DEF CacheInv
<1> QED
  BY <1>4, <1>5

(* What a mint sets is an entry like every other.                          *)
LEMMA SetKeepsEntries ==
  ASSUME CacheInv, NEW k \in Identity, NEW value \in Credential \cup {Nothing},
         NEW kept \in Kept[k], Set(k, value, kept), UNCHANGED clock,
         value # Nothing => /\ Fits(k, value) /\ value.kept = kept
                            /\ clock <= value.issued + MintBound
  PROVE  cache' \in [Identity -> Entry \cup {NoEntry}] /\ EntryInv'
<1> DEFINE new == [value |-> value, expiresAt |-> clock + kept]
<1>1. kept \in Nat /\ clock \in Nat /\ MintBound \in Nat
  BY CacheAssumption DEF CacheInv, CacheTypeOK
<1>2. new \in Entry
  BY <1>1 DEF Entry
<1>3. cache' = [cache EXCEPT ![k] = new]
  BY DEF Set
<1>4. new.value = value /\ new.expiresAt = clock + kept
  OBVIOUS
<1> HIDE DEF new
<1>5. cache' \in [Identity -> Entry \cup {NoEntry}]
  BY <1>2, <1>3 DEF CacheInv, CacheTypeOK
<1>6. cache'[k] = new /\ \A j \in Identity \ {k} : cache'[j] = cache[j]
  BY <1>3 DEF CacheInv, CacheTypeOK
<1>7. ASSUME new.value # Nothing
      PROVE  /\ Fits(k, new.value)
             /\ new.expiresAt <= new.value.issued + new.value.kept + MintBound
  BY <1>1, <1>4, <1>7 DEF Credential
<1>8. \E t \in Kept[k] : new.expiresAt <= clock + t
  BY <1>1, <1>4
<1> QED
  BY <1>5, <1>6, <1>7, <1>8 DEF CacheInv, EntryInv

LEMMA KeepStep ==
  ASSUME CacheInv, NEW c \in Caller, KeepMinted(c)
  PROVE  CacheInv' /\ GoodCredentials'
<1> DEFINE k == wanted[c]
           value == minted[c]
<1>1. /\ k \in Identity
      /\ value \in Credential \cup {Nothing}
      /\ value # Nothing => /\ Fits(k, value) /\ value.kept \in Kept[k]
                            /\ clock <= value.issued + MintBound
      /\ UNCHANGED clock
  BY DEF KeepMinted, CacheInv, CacheTypeOK, MintInv
<1>2. /\ stage' \in [Caller -> {"idle", "minting", "answered"}]
      /\ wanted' \in [Caller -> Identity \cup {Nothing}]
      /\ minted' \in [Caller -> Credential \cup {Nothing}]
      /\ MintInv'
  BY FinishKeeps DEF KeepMinted, CacheInv
<1>3. cache' \in [Identity -> Entry \cup {NoEntry}] /\ EntryInv'
  <2>1. CASE IsKept(k, value)
    <3>1. PICK kept \in IF value = Nothing THEN Kept[k] ELSE {value.kept} :
                 Set(k, value, kept)
      BY <2>1 DEF KeepMinted
    <3>2. kept \in Kept[k] /\ (value # Nothing => value.kept = kept)
      BY <1>1, <3>1
    <3> HIDE DEF k, value
    <3> QED
      BY <1>1, <3>1, <3>2, SetKeepsEntries
  <2>2. CASE ~IsKept(k, value)
    BY <1>1, <2>2 DEF KeepMinted, CacheInv, CacheTypeOK, EntryInv
  <2> QED
    BY <2>1, <2>2
<1>4. Give(k, value, FALSE)
  BY DEF KeepMinted
<1>5. value # Nothing => clock <= value.issued + value.kept + MintBound
  BY <1>1, CacheAssumption DEF Credential, CacheInv, CacheTypeOK
<1> HIDE DEF k, value
<1>6. handed' \in Handing /\ GoodCredentials'
  BY <1>1, <1>4, <1>5, GiveIsGood
<1> QED
  BY <1>1, <1>2, <1>3, <1>6 DEF CacheInv, CacheTypeOK

LEMMA MintFailsStep ==
  ASSUME CacheInv, NEW c \in Caller, MintFails(c)
  PROVE  CacheInv' /\ GoodCredentials'
<1>1. wanted[c] \in Identity /\ Give(wanted[c], Nothing, FALSE)
      /\ UNCHANGED <<clock, cache>>
  BY DEF MintFails, CacheInv, MintInv
<1>2. /\ stage' \in [Caller -> {"idle", "minting", "answered"}]
      /\ wanted' \in [Caller -> Identity \cup {Nothing}]
      /\ minted' \in [Caller -> Credential \cup {Nothing}]
      /\ MintInv'
  BY <1>1, FinishKeeps DEF MintFails, CacheInv
<1>3. handed' \in Handing /\ GoodCredentials'
  BY <1>1, GiveIsGood
<1>4. EntryInv'
  BY <1>1 DEF CacheInv, EntryInv
<1> QED
  BY <1>1, <1>2, <1>3, <1>4 DEF CacheInv, CacheTypeOK

LEMMA TickStep ==
  ASSUME CacheInv, ClockTicks
  PROVE  CacheInv' /\ GoodCredentials'
<1>1. clock' = clock + 1 /\ clock \in Nat
      /\ UNCHANGED <<cache, stage, wanted, minted>> /\ GiveNothing
  BY DEF ClockTicks, CacheInv, CacheTypeOK
<1>2. CacheTypeOK' /\ GoodCredentials'
  BY <1>1, GiveNothingIsGood DEF GiveNothing, CacheInv, CacheTypeOK
<1>3. EntryInv'
  <2> SUFFICES ASSUME NEW k \in Identity, cache[k] # NoEntry
               PROVE  \E t \in Kept[k] : cache[k].expiresAt <= clock' + t
    BY <1>1 DEF CacheInv, EntryInv
  <2>1. PICK t \in Kept[k] : cache[k].expiresAt <= clock + t
    BY DEF CacheInv, EntryInv
  <2>2. t \in Nat
    BY CacheAssumption
  <2>3. cache[k].expiresAt \in Nat
    BY DEF CacheInv, CacheTypeOK, Entry
  <2> QED
    BY <1>1, <2>1, <2>2, <2>3
<1>4. MintInv'
  <2> SUFFICES ASSUME NEW c \in Caller, minted[c] # Nothing
               PROVE  clock' <= minted[c].issued + MintBound
    BY <1>1 DEF CacheInv, MintInv
  <2>1. minted[c].issued \in Nat /\ clock < minted[c].issued + MintBound
    BY DEF ClockTicks, CacheInv, CacheTypeOK, Credential
  <2> QED
    BY <1>1, <2>1, CacheAssumption
<1> QED
  BY <1>2, <1>3, <1>4 DEF CacheInv

LEMMA CacheInvariant == CacheSpec => [](CacheInv /\ GoodCredentials)
<1>1. CacheInv /\ GoodCredentials /\ [CacheNext]_cacheVars
        => (CacheInv /\ GoodCredentials)'
  <2> SUFFICES ASSUME CacheInv, GoodCredentials, [CacheNext]_cacheVars
               PROVE  CacheInv' /\ GoodCredentials'
    OBVIOUS
  <2>1. CASE UNCHANGED cacheVars
    BY <2>1 DEF cacheVars, CacheInv, CacheTypeOK, EntryInv, MintInv,
                GoodCredentials, HandedInTime, HitsAreCredentials
  <2> QED
    BY <2>1, HitStep, MissStep, IssueStep, KeepStep, MintFailsStep, TickStep
       DEF CacheNext
<1> QED
  BY <1>1, CacheInitInv, PTL DEF CacheSpec

(* For any keys, lifetimes and number of calls minting at once, whichever  *)
(* of them is kept last, no credential is handed on past the time it may   *)
(* be kept and the latency of its mint; and what the map hands on was made *)
(* for the key asked for, with its token where the mint looks for one,     *)
(* though two callers keep whatever came.                                  *)
THEOREM CredentialsAreGood == CacheSpec => []GoodCredentials
BY CacheInvariant, PTL

-----------------------------------------------------------------------------
(* What a step without a tick does to an entry: it leaves it, deletes one  *)
(* that is overdue, or sets what its caller keeps.                         *)
LEMMA EntryChanges ==
  ASSUME CacheInv, [CacheNext]_cacheVars, NEW k \in Identity
  PROVE  \/ cache'[k] = cache[k]
         \/ cache'[k] = NoEntry /\ ~Usable(k)
         \/ /\ UNCHANGED clock
            /\ \E value \in Credential \cup {Nothing}, kept \in Kept[k] :
                 /\ cache'[k] = [value |-> value, expiresAt |-> clock + kept]
                 /\ IsKept(k, value)
                 /\ value # Nothing => Fits(k, value)
<1>1. CASE UNCHANGED cache
  BY <1>1
<1>2. ASSUME NEW c \in Caller, NEW j \in Identity, Miss(c, j)
      PROVE  cache'[k] = cache[k] \/ (cache'[k] = NoEntry /\ ~Usable(k))
  BY <1>2 DEF Miss, CacheInv, CacheTypeOK
<1>3. ASSUME NEW c \in Caller, KeepMinted(c)
      PROVE  \/ cache'[k] = cache[k]
             \/ \E value \in Credential \cup {Nothing}, kept \in Kept[k] :
                  /\ cache'[k] = [value |-> value, expiresAt |-> clock + kept]
                  /\ IsKept(k, value)
                  /\ value # Nothing => Fits(k, value)
  <2>1. CASE ~IsKept(wanted[c], minted[c])
    BY <1>3, <2>1 DEF KeepMinted
  <2>2. CASE IsKept(wanted[c], minted[c])
    <3>1. PICK kept \in IF minted[c] = Nothing THEN Kept[wanted[c]]
                                               ELSE {minted[c].kept} :
                 Set(wanted[c], minted[c], kept)
      BY <1>3, <2>2 DEF KeepMinted
    <3>2. kept \in Kept[wanted[c]] /\ wanted[c] \in Identity
          /\ minted[c] \in Credential \cup {Nothing}
          /\ (minted[c] # Nothing => Fits(wanted[c], minted[c]))
      BY <1>3, <3>1 DEF KeepMinted, CacheInv, CacheTypeOK, MintInv
    <3>3. CASE k = wanted[c]
      <4>1. cache'[k] = [value |-> minted[c], expiresAt |-> clock + kept]
        BY <3>1, <3>3 DEF Set, CacheInv, CacheTypeOK
      <4> QED
        BY <2>2, <3>2, <3>3, <4>1
    <3>4. CASE k # wanted[c]
      BY <3>1, <3>4 DEF Set, CacheInv, CacheTypeOK
    <3> QED
      BY <3>3, <3>4
  <2> QED
    BY <2>1, <2>2
<1>4. \A c \in Caller : KeepMinted(c) => UNCHANGED clock
  BY DEF KeepMinted
<1> QED
  BY <1>1, <1>2, <1>3, <1>4
     DEF CacheNext, Hit, Issue, IssueNothing, IssueHollow, Answered, MintFails,
         ClockTicks, cacheVars

(* For any keys and calls, nothing but time takes a credential away from   *)
(* the calls that share it, where what was minted is tested for one.       *)
THEOREM OnlyTime == CacheSpec => OnlyTimeTakesAway
<1>1. CacheInv /\ [CacheNext]_cacheVars =>
        [UNCHANGED clock =>
           \A k \in Guarded \ Wrapped : Holds(k) => Holds(k)']_cacheVars
  <2> SUFFICES ASSUME CacheInv, [CacheNext]_cacheVars, UNCHANGED clock,
                      NEW k \in Guarded \ Wrapped, Holds(k)
               PROVE  Holds(k)'
    OBVIOUS
  <2>1. k \in Identity
    BY CacheAssumption
  <2>2. CASE cache'[k] = cache[k]
    BY <2>2 DEF Holds, Usable, Found, Overdue
  <2>3. ASSUME NEW value \in Credential \cup {Nothing}, NEW kept \in Kept[k],
               cache'[k] = [value |-> value, expiresAt |-> clock + kept],
               IsKept(k, value), value # Nothing => Fits(k, value)
        PROVE  Holds(k)'
    <3>1. kept \in Nat /\ clock \in Nat
      BY <2>1, CacheAssumption DEF CacheInv, CacheTypeOK
    <3>2. cache'[k] \in Entry
      BY <2>3, <3>1 DEF Entry
    <3>3. cache'[k] # NoEntry
      BY <3>2, CacheAssumption
    <3>4. ~(clock' > cache'[k].expiresAt)
      BY <2>3, <3>1
    <3>5. cache'[k].value # Nothing /\ cache'[k].value.full
      BY <2>3 DEF IsKept, Fits
    <3> QED
      BY <3>3, <3>4, <3>5 DEF Holds, Usable, Found, Overdue
  <2> QED
    BY <2>1, <2>2, <2>3, EntryChanges DEF Holds
<1> QED
  BY <1>1, CacheInvariant, PTL DEF CacheSpec, OnlyTimeTakesAway

(* For any keys kept one length of time, mints that overtake each other    *)
(* never bring an entry's end forward.                                     *)
THEOREM DeadlinesAdvance == CacheSpec => DeadlineAdvances
<1>1. CacheInv /\ [CacheNext]_cacheVars =>
        [\A k \in Identity :
           /\ cache[k] # NoEntry /\ cache'[k] # NoEntry
           /\ \A a, b \in Kept[k] : a = b
           => cache'[k].expiresAt >= cache[k].expiresAt]_cacheVars
  <2> SUFFICES ASSUME CacheInv, [CacheNext]_cacheVars, NEW k \in Identity,
                      cache[k] # NoEntry, cache'[k] # NoEntry,
                      \A a, b \in Kept[k] : a = b
               PROVE  cache'[k].expiresAt >= cache[k].expiresAt
    OBVIOUS
  <2>1. PICK t \in Kept[k] : cache[k].expiresAt <= clock + t
    BY DEF CacheInv, EntryInv
  <2>2. cache[k].expiresAt \in Nat
    BY DEF CacheInv, CacheTypeOK, Entry
  <2>3. CASE cache'[k] = cache[k]
    BY <2>2, <2>3
  <2>4. ASSUME NEW value, NEW kept \in Kept[k],
               cache'[k] = [value |-> value, expiresAt |-> clock + kept]
        PROVE  cache'[k].expiresAt >= cache[k].expiresAt
    <3>1. kept = t /\ kept \in Nat /\ clock \in Nat
      BY CacheAssumption DEF CacheInv, CacheTypeOK
    <3> QED
      BY <2>1, <2>2, <2>4, <3>1
  <2> QED
    BY <2>3, <2>4, EntryChanges
<1> QED
  BY <1>1, CacheInvariant, PTL DEF CacheSpec, DeadlineAdvances

(* Whatever becomes of a mint, and however late, it costs no other call    *)
(* the credential it would have had, where what was minted is tested for   *)
(* one, nor any of its time, where all are kept equally long.              *)
THEOREM MintsCostNothing == CacheSpec => NoMintCosts
BY OnlyTime, DeadlinesAdvance DEF NoMintCosts
=============================================================================
