-------------------------- MODULE MCStreamDelivery --------------------------
(***************************************************************************)
(* StreamDelivery for TLC, with the stream a caller is to see told chunk   *)
(* by chunk, which its places are checked against.                         *)
(***************************************************************************)
EXTENDS StreamDelivery, SequencesExt

(* What one more chunk adds to the wire when nothing cuts the stream       *)
(* short: on an adapted route nothing once an ending has been given, and   *)
(* no [DONE] before there was content to end.                              *)
Shows(throughAdapter, shown, k) ==
  IF \/ k = "ping"
     \/ throughAdapter /\ shown # <<>> /\ shown[Len(shown)] \in Terminal
     \/ throughAdapter /\ k = "done" /\ "delta" \notin ToSet(shown)
  THEN shown
  ELSE Append(shown, k)

Visible(throughAdapter, chunks) ==
  FoldLeft(LAMBDA shown, k : Shows(throughAdapter, shown, k), <<>>, chunks)

(* The chunks at these places, in their order.                             *)
At(chunks, places) ==
  LET ordered == SetToSortSeq(places, LAMBDA p, q : p < q)
  IN  [j \in DOMAIN ordered |-> chunks[ordered[j]]]

ASSUME ShownIsVisible ==
  \A throughAdapter \in BOOLEAN, length \in 0 .. MaxChunks + 1 :
    \A chunks \in [1 .. length -> Kind] :
      At(chunks, Shown(throughAdapter, chunks, length)) = Visible(throughAdapter, chunks)
=============================================================================
