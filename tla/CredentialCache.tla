-------------------------- MODULE CredentialCache --------------------------
(***************************************************************************)
(* The one Map of services/cache/cacheService.ts and the calls that keep   *)
(* provider credentials in it: Google's access tokens, Azure's, the AWS    *)
(* credentials of Bedrock.  Each of them asks the map, mints on a miss and *)
(* keeps what it minted.  There is no lock: calls that miss together mint  *)
(* together, and whichever is answered last is the one that stays.         *)
(*                                                                         *)
(* get and set have no await inside, so each is a step; everything a mint  *)
(* awaits (one request or several) lies between Issue and KeepMinted.      *)
(***************************************************************************)
EXTENDS Naturals

CONSTANTS
  Identity,   \* cache keys: one for each identity credentials are for
  Caller,     \* requests in flight that need a credential
  Guarded,    \* keys whose caller tests what was minted before it is kept
  Wrapped,    \* keys whose mint makes an object of any answer it is given
  Kept,       \* the lengths of time each key's credentials may be kept for
  MintBound,  \* how old a credential can be when its answer has been read
  Nothing,    \* null, undefined and '': no credential
  NoEntry,    \* no entry in the map
  MaxClock    \* bound: when the clock stops

(* What a mint makes: kept is the ttl the caller will give it, a constant  *)
(* of the caller's or the expires_in that came with it.  Bedrock's makes   *)
(* an object of any answer under 200, full or not: the fields of its keys  *)
(* may be missing or empty.                                                *)
Credential == [key : Identity, issued : Nat, kept : Nat, full : BOOLEAN]

(* What a call is given, and whether it came from the map.                 *)
Handing == [key : Identity, value : Credential \cup {Nothing}, hit : BOOLEAN]

Entry == [value : Credential \cup {Nothing}, expiresAt : Nat]

ASSUME CacheAssumption ==
  /\ Guarded \subseteq Identity
  /\ Wrapped \subseteq Identity
  /\ Kept \in [Identity -> SUBSET Nat]
  /\ MintBound \in Nat
  /\ MaxClock \in Nat
  /\ Nothing \notin Credential \cup Handing \cup Identity
  /\ NoEntry \notin Entry

VARIABLES
  clock,    \* Date.now()
  cache,    \* the Map
  stage,    \* where each call is: "idle", "minting" or "answered"
  wanted,   \* the key it wants a credential for
  minted,   \* what its mint was answered with
  handed    \* what the last step gave its caller, if it gave anything

cacheVars == <<clock, cache, stage, wanted, minted, handed>>

CacheTypeOK ==
  /\ clock \in Nat
  /\ cache \in [Identity -> Entry \cup {NoEntry}]
  /\ stage \in [Caller -> {"idle", "minting", "answered"}]
  /\ wanted \in [Caller -> Identity \cup {Nothing}]
  /\ minted \in [Caller -> Credential \cup {Nothing}]
  /\ handed \in Handing \cup {Nothing}

CacheInit ==
  /\ clock = 0
  /\ cache = [k \in Identity |-> NoEntry]
  /\ stage = [c \in Caller |-> "idle"]
  /\ wanted = [c \in Caller |-> Nothing]
  /\ minted = [c \in Caller |-> Nothing]
  /\ handed = Nothing

-----------------------------------------------------------------------------
(* get: an entry past its time is deleted and read as no entry.            *)
Overdue(k) == cache[k] # NoEntry /\ clock > cache[k].expiresAt

(* Mutant: entries are good for ever.                                      *)
FoundEver(k) == IF cache[k] = NoEntry THEN Nothing ELSE cache[k].value

Found(k) ==
  IF cache[k] = NoEntry \/ Overdue(k) THEN Nothing ELSE cache[k].value

(* if (resp), if (cached), if (cachedToken?.access_token): an object of    *)
(* Bedrock's passes whatever is in it.                                     *)
Usable(k) == Found(k) # Nothing

Give(k, value, hit) == handed' = [key |-> k, value |-> value, hit |-> hit]

GiveNothing == handed' = Nothing

Hit(c, k) ==
  /\ stage[c] = "idle"
  /\ Usable(k)
  /\ Give(k, Found(k), TRUE)
  /\ UNCHANGED <<clock, cache, stage, wanted, minted>>

Miss(c, k) ==
  /\ stage[c] = "idle"
  /\ ~Usable(k)
  /\ cache' = IF Overdue(k) THEN [cache EXCEPT ![k] = NoEntry] ELSE cache
  /\ stage' = [stage EXCEPT ![c] = "minting"]
  /\ wanted' = [wanted EXCEPT ![c] = k]
  /\ GiveNothing
  /\ UNCHANGED <<clock, minted>>

-----------------------------------------------------------------------------
(* The service is done and its answer has been made into something.        *)
Answered(c) ==
  /\ stage[c] = "minting"
  /\ stage' = [stage EXCEPT ![c] = "answered"]
  /\ GiveNothing
  /\ UNCHANGED <<clock, cache, wanted>>

Make(c, full) ==
  \E kept \in Kept[wanted[c]] :
    minted' = [minted EXCEPT ![c] =
                 [key |-> wanted[c], issued |-> clock, kept |-> kept,
                  full |-> full]]

(* It issues a credential.                                                 *)
Issue(c) == Answered(c) /\ Make(c, TRUE)

(* It answers without one, an error body under 200 or a missing field, and *)
(* the mint reads the token's field of that: there is nothing.             *)
IssueNothing(c) ==
  /\ wanted[c] \notin Wrapped
  /\ Answered(c)
  /\ UNCHANGED minted

(* Mutant: no mint looks for the token in what it was answered.            *)
IssueHollowAnywhere(c) == Answered(c) /\ Make(c, FALSE)

(* It does, and the mint copies the fields of that into an object: there   *)
(* is one, with nothing in it.                                             *)
IssueHollow(c) ==
  /\ wanted[c] \in Wrapped
  /\ Answered(c)
  /\ Make(c, FALSE)

-----------------------------------------------------------------------------
(* Mutant: what was minted is kept unchecked by every caller.              *)
IsAlwaysKept(k, value) == TRUE

(* if (token), if (credentials): Azure's and Bedrock's, of which the last  *)
(* is true of every object Bedrock's mints make.  Both of Google's keep    *)
(* what has no token: getAccessToken looks at nothing, and if (data) asks  *)
(* for a body alone.                                                       *)
IsKept(k, value) == k \in Guarded => value # Nothing

(* set: the time to keep it starts when the answer has been read.          *)
Set(k, value, kept) ==
  cache' = [cache EXCEPT ![k] = [value |-> value, expiresAt |-> clock + kept]]

Finish(c) ==
  /\ stage' = [stage EXCEPT ![c] = "idle"]
  /\ wanted' = [wanted EXCEPT ![c] = Nothing]
  /\ minted' = [minted EXCEPT ![c] = Nothing]

KeepMinted(c) ==
  /\ stage[c] = "answered"
  /\ IF IsKept(wanted[c], minted[c])
     THEN \E kept \in IF minted[c] = Nothing THEN Kept[wanted[c]]
                                             ELSE {minted[c].kept} :
            Set(wanted[c], minted[c], kept)
     ELSE UNCHANGED cache
  /\ Give(wanted[c], minted[c], FALSE)
  /\ Finish(c)
  /\ UNCHANGED clock

(* The request fails, its status or body is refused before anything is     *)
(* kept, or the caller hangs up and externalServiceFetch aborts it; every  *)
(* caller of the map goes on without.                                      *)
MintFails(c) ==
  /\ stage[c] \in {"minting", "answered"}
  /\ Give(wanted[c], Nothing, FALSE)
  /\ Finish(c)
  /\ UNCHANGED <<clock, cache>>

ClockTicks ==
  /\ clock < MaxClock
  /\ \A c \in Caller :
       minted[c] # Nothing => clock < minted[c].issued + MintBound
  /\ clock' = clock + 1
  /\ GiveNothing
  /\ UNCHANGED <<cache, stage, wanted, minted>>

CacheNext ==
  \/ \E c \in Caller :
       \/ \E k \in Identity : Hit(c, k) \/ Miss(c, k)
       \/ Issue(c) \/ IssueNothing(c) \/ IssueHollow(c)
       \/ KeepMinted(c) \/ MintFails(c)
  \/ ClockTicks

CacheSpec == CacheInit /\ [][CacheNext]_cacheVars

-----------------------------------------------------------------------------
(* A credential is handed on for as long as its caller keeps it and no     *)
(* longer than its answer took beyond that, whichever of several mints was *)
(* kept last: the time a credential has to last is the ttl of its key and  *)
(* the latency of a mint, not the ttl alone (cacheService.ts get and set). *)
HandedInTime ==
  handed # Nothing /\ handed.value # Nothing =>
    clock <= handed.value.issued + handed.value.kept + MintBound

(* The map never answers for a service that did not: what is handed on was *)
(* minted for the key it was asked under; a kept value without a token is  *)
(* minted again, and a hit has one.  Of Bedrock's it says only that there  *)
(* is an object: with or without keys it is a hit (bedrock/utils.ts).      *)
HitsAreCredentials ==
  handed # Nothing =>
    /\ handed.hit => handed.value # Nothing
    /\ handed.value # Nothing =>
         /\ handed.value.key = handed.key
         /\ handed.key \notin Wrapped => handed.value.full

(* What a call is given is a credential of its own key in its time.        *)
GoodCredentials == HandedInTime /\ HitsAreCredentials

(* The map has a credential that the next call for the key will be given.  *)
Holds(k) == Usable(k) /\ Found(k).full

(* Where the caller tests what it keeps, only time takes a credential      *)
(* away: no mint that fails, is refused or is aborted costs the other      *)
(* calls theirs.  A test that every answer passes, Bedrock's, is none: an  *)
(* object without keys takes the place of one with them.                   *)
OnlyTimeTakesAway ==
  [][UNCHANGED clock =>
       \A k \in Guarded \ Wrapped : Holds(k) => Holds(k)']_cacheVars

(* Mints that overtake each other never bring an entry's end forward: an   *)
(* older credential kept last stays as long as the newer would have.       *)
DeadlineAdvances ==
  [][\A k \in Identity :
       /\ cache[k] # NoEntry /\ cache'[k] # NoEntry
       /\ \A a, b \in Kept[k] : a = b
       => cache'[k].expiresAt >= cache[k].expiresAt]_cacheVars

(* No mint costs the other calls what they have: neither an empty answer   *)
(* or a failure, nor an answer that comes late.                            *)
NoMintCosts == OnlyTimeTakesAway /\ DeadlineAdvances
=============================================================================
