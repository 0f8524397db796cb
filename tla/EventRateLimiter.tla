-------------------------- MODULE EventRateLimiter --------------------------
(***************************************************************************)
(* The limiter in front of Sentry (sentry/createEventRateLimiter.ts): a    *)
(* count and the start of its window for every grouping key seen, and one  *)
(* of each for all keys together.  Each event is one synchronous call.     *)
(* The warnings it logs, and their flags, are left out.                    *)
(***************************************************************************)
EXTENDS Naturals, FiniteSets, Sequences

CONSTANTS
  Key,                 \* what deriveGroupingKey makes of events
  MaxPerWindow,        \* events of one key let through in a window
  GlobalMaxPerWindow,  \* events let through in a window
  WindowMs,            \* how long a window is
  MaxKeyCount,         \* MAX_KEY_COUNT: keys kept before stale ones are pruned
  None,                \* no bucket
  MaxTime,             \* bound: when the clock stops
  MaxEvents            \* bound: events reported

ASSUME LimitsAssumption ==
  /\ MaxPerWindow \in Nat \ {0}
  /\ GlobalMaxPerWindow \in Nat \ {0}
  /\ WindowMs \in Nat \ {0}
  /\ MaxKeyCount \in Nat
  /\ MaxTime \in Nat
  /\ MaxEvents \in Nat
  /\ None \notin [count : Nat, opened : Nat]

VARIABLES
  now,                \* Date.now()
  buckets,            \* the Map: a bucket for every key in its domain
  globalCount,
  globalWindowStart,
  seen                \* history: every event, when it came, whether it was kept

vars == <<now, buckets, globalCount, globalWindowStart, seen>>

BucketState == [count : Nat, windowStart : Nat]
Report == [key : Key, at : Nat, kept : BOOLEAN]

TypeOK ==
  /\ now \in Nat
  /\ DOMAIN buckets \subseteq Key
  /\ buckets \in [DOMAIN buckets -> BucketState]
  /\ globalCount \in Nat
  /\ globalWindowStart \in Nat
  /\ seen \in Seq(Report)

Init ==
  /\ now = 0
  /\ buckets = [k \in {} |-> [count |-> 0, windowStart |-> 0]]
  /\ globalCount = 0
  /\ globalWindowStart = 0
  /\ seen = <<>>

-----------------------------------------------------------------------------
(* Whether a window that began at start is over, and the mutant whose      *)
(* windows are over one tick early.                                        *)
StaleEarly(start) == now - start + 1 >= WindowMs
Stale(start) == now - start >= WindowMs

(* resetBucketIfStale *)
Refreshed(bucket) ==
  IF Stale(bucket.windowStart) THEN [count |-> 0, windowStart |-> now] ELSE bucket

(* The bucket of a key: the one there, or a new one.                       *)
BucketFor(k) ==
  IF k \in DOMAIN buckets THEN Refreshed(buckets[k])
  ELSE [count |-> 0, windowStart |-> now]

With(k, bucket) ==
  [j \in DOMAIN buckets \cup {k} |-> IF j = k THEN bucket ELSE buckets[j]]

(* Mutants of Pruned: nothing is ever pruned, or everything is.            *)
PrunedNever(kept) == kept
PrunedAll(kept) ==
  IF Cardinality(DOMAIN kept) <= MaxKeyCount THEN kept ELSE [j \in {} |-> kept[j]]

(* pruneStaleEntries *)
Pruned(kept) ==
  IF Cardinality(DOMAIN kept) <= MaxKeyCount THEN kept
  ELSE [j \in {k \in DOMAIN kept : ~Stale(kept[k].windowStart)} |-> kept[j]]

(* The window over all keys, as the call finds or makes it.                *)
GlobalCount == IF Stale(globalWindowStart) THEN 0 ELSE globalCount
GlobalStart == IF Stale(globalWindowStart) THEN now ELSE globalWindowStart

Reported(k, kept) == seen' = Append(seen, [key |-> k, at |-> now, kept |-> kept])

(* The overall limit is asked first, and no bucket is touched behind it.   *)
DropOverall(k) ==
  /\ GlobalCount >= GlobalMaxPerWindow
  /\ globalCount' = GlobalCount
  /\ globalWindowStart' = GlobalStart
  /\ UNCHANGED buckets
  /\ Reported(k, FALSE)

(* A bucket past its limit was refreshed first, and stays in the map.      *)
DropKey(k) ==
  /\ GlobalCount < GlobalMaxPerWindow
  /\ BucketFor(k).count >= MaxPerWindow
  /\ globalCount' = GlobalCount
  /\ globalWindowStart' = GlobalStart
  /\ buckets' = With(k, BucketFor(k))
  /\ Reported(k, FALSE)

Keep(k) ==
  /\ GlobalCount < GlobalMaxPerWindow
  /\ BucketFor(k).count < MaxPerWindow
  /\ globalCount' = GlobalCount + 1
  /\ globalWindowStart' = GlobalStart
  /\ buckets' = Pruned(With(k, [BucketFor(k) EXCEPT !.count = @ + 1]))
  /\ Reported(k, TRUE)

BeforeSend(k) ==
  /\ Len(seen) < MaxEvents
  /\ DropOverall(k) \/ DropKey(k) \/ Keep(k)
  /\ UNCHANGED now

Tick ==
  /\ now < MaxTime
  /\ now' = now + 1
  /\ UNCHANGED <<buckets, globalCount, globalWindowStart, seen>>

Next ==
  \/ Tick
  \/ \E k \in Key : BeforeSend(k)

Spec == Init /\ [][Next]_vars

-----------------------------------------------------------------------------
(* Properties.                                                             *)

(* The events kept in the window that ends with the n-th, of keys in K.    *)
KeptBefore(n, K) ==
  {m \in 1 .. n : /\ seen[m].kept /\ seen[m].key \in K
                  /\ seen[n].at - seen[m].at < WindowMs}

(* However the windows fall, no key gets twice its limit into one span as  *)
(* long as a window, and all keys together no more than twice theirs; and  *)
(* nothing is silenced that was not repeated: an event is dropped only     *)
(* behind as many of its key, or of all keys, as a window lets through.    *)
KeepsToLimits ==
  \A n \in DOMAIN seen :
    LET ofKey == Cardinality(KeptBefore(n, {seen[n].key}))
        ofAll == Cardinality(KeptBefore(n, Key))
    IN  IF seen[n].kept
        THEN ofKey < 2 * MaxPerWindow /\ ofAll <= 2 * GlobalMaxPerWindow
        ELSE ofKey >= MaxPerWindow \/ ofAll >= GlobalMaxPerWindow

(* The map does not grow with the keys ever seen: it holds the count it    *)
(* may before it is pruned, or what two overall windows can have opened.   *)
MapIsBounded ==
  \/ Cardinality(DOMAIN buckets) <= MaxKeyCount
  \/ Cardinality(DOMAIN buckets) <= 2 * GlobalMaxPerWindow

(* Pruning is never seen from outside: the limiter admits and drops what   *)
(* one that keeps every key's allowance for ever does.                     *)
Allowances == INSTANCE EventAllowance WITH
  used <- [k \in Key |->
             IF k \in DOMAIN buckets /\ ~Stale(buckets[k].windowStart)
             THEN [count |-> buckets[k].count, opened |-> buckets[k].windowStart]
             ELSE None],
  overall <- IF Stale(globalWindowStart) THEN None
             ELSE [count |-> globalCount, opened |-> globalWindowStart]

KeepsAllowances == Allowances!Spec
=============================================================================
