--------------------------- MODULE EventAllowance ---------------------------
(***************************************************************************)
(* What rate limiting of Sentry events promises, with no map to keep and   *)
(* none to prune: every key, and all keys together, have an allowance that *)
(* an event opens, that admitted events use up, and that lapses by itself  *)
(* a window after it was opened.  A key nothing is known of has all of it. *)
(***************************************************************************)
EXTENDS Naturals, Sequences

CONSTANTS
  Key, MaxPerWindow, GlobalMaxPerWindow, WindowMs,
  None  \* no window is open

VARIABLES
  now,
  used,     \* per key: events admitted and when the window opened, or None
  overall,  \* the same for all keys together
  seen      \* every event, when it came, whether it was admitted

vars == <<now, used, overall, seen>>

Init ==
  /\ now \in Nat
  /\ used = [k \in Key |-> None]
  /\ overall \in {None, [count |-> 0, opened |-> now]}
  /\ seen = <<>>

Lapsed(a, t) ==
  IF a = None THEN None ELSE IF t - a.opened >= WindowMs THEN None ELSE a

Opened(a) == IF a = None THEN [count |-> 0, opened |-> now] ELSE a
Charged(a) == [Opened(a) EXCEPT !.count = @ + 1]

Pass ==
  /\ now' \in Nat
  /\ now' >= now
  /\ used' = [k \in Key |-> Lapsed(used[k], now')]
  /\ overall' = Lapsed(overall, now')
  /\ UNCHANGED seen

Admit(k) ==
  /\ Opened(overall).count < GlobalMaxPerWindow
  /\ Opened(used[k]).count < MaxPerWindow
  /\ used' = [used EXCEPT ![k] = Charged(@)]
  /\ overall' = Charged(overall)
  /\ seen' = Append(seen, [key |-> k, at |-> now, kept |-> TRUE])
  /\ UNCHANGED now

(* A dropped event may open the window over all keys, and nothing else.    *)
Drop(k) ==
  /\ \/ Opened(overall).count >= GlobalMaxPerWindow
     \/ Opened(used[k]).count >= MaxPerWindow
  /\ overall' = Opened(overall)
  /\ seen' = Append(seen, [key |-> k, at |-> now, kept |-> FALSE])
  /\ UNCHANGED <<now, used>>

Next ==
  \/ Pass
  \/ \E k \in Key : Admit(k) \/ Drop(k)

Spec == Init /\ [][Next]_vars
=============================================================================
