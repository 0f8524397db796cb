----------------------------- MODULE CallPromise -----------------------------
(***************************************************************************)
(* What the gateway promises about the answer to one call, whatever        *)
(* happens inside it:                                                      *)
(*   - 499 is for a caller who left, 408 for a deadline that ran out with  *)
(*     nothing heard from the provider, 502 for a redirect;                *)
(*   - every other status of the provider's is told as it is, except that  *)
(*     an event stream an adapter writes anew is told as a 200, whatever   *)
(*     the provider's status was;                                          *)
(*   - an error of the gateway's own, 400 or 500, may follow anything;     *)
(*   - a fault is reported only while the caller waits, and then the       *)
(*     answer is one of those two;                                         *)
(*   - there is one answer, and nothing is reported after it.              *)
(***************************************************************************)
EXTENDS Naturals

CONSTANTS
  Status,     \* statuses a provider answers with
  Redirects   \* those of them that are redirects

NoStatus == 0
Own == {400, 500}

VARIABLES
  gone,      \* the caller has hung up
  late,      \* the deadline ran out
  heard,     \* what the provider answered with
  rewritten, \* and it is an event stream that an adapter writes anew
  answered,  \* what the caller is answered with
  reported   \* a fault went to Sentry

vars == <<gone, late, heard, rewritten, answered, reported>>

Init ==
  /\ gone = FALSE
  /\ late = FALSE
  /\ heard = NoStatus
  /\ rewritten = FALSE
  /\ answered = NoStatus
  /\ reported = FALSE

CallerLeaves ==
  /\ answered = NoStatus
  /\ gone' = TRUE
  /\ UNCHANGED <<late, heard, rewritten, answered, reported>>

TimeRunsOut ==
  /\ heard = NoStatus
  /\ answered = NoStatus
  /\ late' = TRUE
  /\ UNCHANGED <<gone, heard, rewritten, answered, reported>>

ProviderAnswers ==
  /\ heard = NoStatus
  /\ answered = NoStatus
  /\ ~late
  /\ ~gone
  /\ heard' \in Status
  /\ rewritten' \in BOOLEAN
  /\ rewritten' => heard' \notin Redirects
  /\ UNCHANGED <<gone, late, answered, reported>>

(* What of the provider's is told of itself.                               *)
Relay(s) ==
  /\ heard # NoStatus
  /\ heard \notin Redirects
  /\ s = IF rewritten THEN 200 ELSE heard

Permitted(s) ==
  \/ s = 499 /\ gone
  \/ s = 408 /\ late /\ heard = NoStatus
  \/ s = 502 /\ heard \in Redirects
  \/ Relay(s)

Answer ==
  /\ answered = NoStatus
  /\ \/ /\ answered' \in {200, 499, 408, 502} \cup Status
        /\ Permitted(answered')
        /\ reported' = FALSE
     \/ /\ answered' \in Own
        /\ reported' \in {FALSE, ~gone}
  /\ UNCHANGED <<gone, late, heard, rewritten>>

Next == CallerLeaves \/ TimeRunsOut \/ ProviderAnswers \/ Answer

Spec == Init /\ [][Next]_vars

=============================================================================
