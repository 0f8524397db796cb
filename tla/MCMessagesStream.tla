-------------------------- MODULE MCMessagesStream --------------------------
(***************************************************************************)
(* MessagesStream for TLC, with a reference definition of what the         *)
(* provider's tool calls were to hold Begins, Of and Given against.        *)
(***************************************************************************)
EXTENDS MessagesStream, SequencesExt, TLC

Symmetry == Permutations(Ids)

(* The piece that began the call a piece is of: the last one at its index  *)
(* that was the first there or changed the id.                             *)
Before(h, n) == {m \in 1 .. n - 1 : h[m].index = h[n].index}
Identified(h, n) == {m \in Before(h, n) : h[m].id # None}
Changes(h, n) ==
  /\ h[n].id # None /\ Identified(h, n) # {}
  /\ h[Max(Identified(h, n))].id # h[n].id
CallOf(h, n) == Max({m \in Before(h, n) \cup {n} : Before(h, m) = {} \/ Changes(h, m)})

(* What ArgumentsKept takes the calls to be is that, for up to three       *)
(* pieces.                                                                 *)
ASSUME CallsAreMeant ==
  \A len \in 0 .. 3 : \A h \in [1 .. len -> Piece] :
    /\ Named(h) = {CallOf(h, n) : n \in {m \in DOMAIN h : h[m].named}}
    /\ \A b \in Named(h) : Given(h, b) = {n \in DOMAIN h : h[n].args /\ CallOf(h, n) = b}
=============================================================================
