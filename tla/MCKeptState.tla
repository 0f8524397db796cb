---------------------------- MODULE MCKeptState ----------------------------
(***************************************************************************)
(* What a process keeps from one request to the next: the limiter's map    *)
(* and the credentials'.  Neither reads or writes a variable of the other, *)
(* so what a step of one may do does not depend on the other's state, and  *)
(* TLC follows each while the other has not begun.  No history that        *)
(* matters to a property of either is lost, and their product is not       *)
(* gone through.                                                           *)
(*                                                                         *)
(* The limiter's keys are interchangeable, and so are callers.  Of the     *)
(* identities, one belongs to callers who check what they keep, for a time *)
(* of their own (Azure's), one to callers whose check every answer passes  *)
(* (Bedrock's), and one to callers who are told the time and keep what has *)
(* no token too (the workload identity of GCP; getAccessToken of Vertex AI *)
(* is that with one time).                                                 *)
(***************************************************************************)
EXTENDS EventRateLimiter, CredentialCache, TLC

CONSTANTS checked, wrapped, told

MCKept == (checked :> {2}) @@ (wrapped :> {2}) @@ (told :> {1, 2})

Symmetry == Permutations(Key) \cup Permutations(Caller)

KeptInit == Init /\ CacheInit

(* Bound: an entry is a matter of its key alone, so two keys at a time, of *)
(* any two kinds, are enough for one to disturb the other.                 *)
InUse(k) == cache[k] # NoEntry \/ \E c \in Caller : wanted[c] = k
FewInUse == \E idle \in Identity : ~InUse(idle)

Limits == Next /\ CacheInit /\ UNCHANGED cacheVars
Caches == CacheNext /\ FewInUse' /\ Init /\ UNCHANGED vars

KeptNext == Limits \/ Caches

KeptSpec == KeptInit /\ [][KeptNext]_<<vars, cacheVars>>
=============================================================================
