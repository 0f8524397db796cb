---------------------------- MODULE PromisedBody ----------------------------
(***************************************************************************)
(* What the gateway promises of a streamed body, with none of the stages   *)
(* that deliver it: the provider produces chunks and at some point stops,  *)
(* having completed or having broken; the gateway works its way through    *)
(* them; and the body is closed once, as whole or as cut short.  Only a    *)
(* completed stream, worked through to its end, may be closed as whole.    *)
(***************************************************************************)
EXTENDS Naturals

VARIABLES
  produced,  \* how many chunks the provider has sent
  reached,   \* how many of them the gateway has dealt with
  source,    \* "open", "complete" or "broken"
  outcome    \* what the caller is told became of the body

vars == <<produced, reached, source, outcome>>

TypeOK ==
  /\ produced \in Nat
  /\ reached \in 0 .. produced
  /\ source \in {"open", "complete", "broken"}
  /\ outcome \in {"open", "whole", "cut"}

Init ==
  /\ produced = 0
  /\ reached = 0
  /\ source = "open"
  /\ outcome = "open"

Produce ==
  /\ source = "open"
  /\ produced' = produced + 1
  /\ UNCHANGED <<reached, source, outcome>>

SourceStops ==
  /\ source = "open"
  /\ source' \in {"complete", "broken"}
  /\ UNCHANGED <<produced, reached, outcome>>

Advance ==
  /\ reached < produced
  /\ reached' = reached + 1
  /\ UNCHANGED <<produced, source, outcome>>

CloseWhole ==
  /\ outcome = "open"
  /\ source = "complete"
  /\ reached = produced
  /\ outcome' = "whole"
  /\ UNCHANGED <<produced, reached, source>>

CutShort ==
  /\ outcome = "open"
  /\ outcome' = "cut"
  /\ source' \in {source, "broken"}
  /\ UNCHANGED <<produced, reached>>

(* A body cut short takes its provider down with it.                       *)
Abandon ==
  /\ outcome = "cut"
  /\ source' = "broken"
  /\ UNCHANGED <<produced, reached, outcome>>

Next ==
  \/ Produce
  \/ SourceStops
  \/ Advance
  \/ CloseWhole
  \/ CutShort
  \/ Abandon

(* A source that has stopped is answered for: the body is closed.          *)
Closes == source # "open" /\ (CloseWhole \/ CutShort)

Safely == Init /\ [][Next]_vars

Spec == Safely /\ WF_vars(Closes)
=============================================================================
