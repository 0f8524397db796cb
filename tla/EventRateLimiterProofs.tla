----------------------- MODULE EventRateLimiterProofs ------------------------
(***************************************************************************)
(* EventRateLimiter keeps its types, and implements EventAllowance: that   *)
(* buckets are pruned, and refreshed only when next asked for, can be told *)
(* from no event it admits or drops.  It keeps to its limits in every span *)
(* as long as a window, and its map within a bound: both from what the     *)
(* counts say of the events that were kept.                                *)
(***************************************************************************)
EXTENDS EventRateLimiter, FiniteSetTheorems, TLAPS

(* No window began in the future.                                          *)
Past ==
  /\ globalWindowStart <= now
  /\ \A k \in DOMAIN buckets : buckets[k].windowStart <= now

Inv == TypeOK /\ Past

Used(k) ==
  IF k \in DOMAIN buckets /\ ~Stale(buckets[k].windowStart)
  THEN [count |-> buckets[k].count, opened |-> buckets[k].windowStart]
  ELSE None

Overall ==
  IF Stale(globalWindowStart) THEN None
  ELSE [count |-> globalCount, opened |-> globalWindowStart]

(* A bucket asked for is a bucket of a window that is open, begun no later *)
(* than now; and so is the window over all keys.                           *)
LEMMA BucketForKey ==
  ASSUME Inv, NEW k \in Key
  PROVE  /\ BucketFor(k) \in BucketState
         /\ BucketFor(k).windowStart <= now
         /\ ~Stale(BucketFor(k).windowStart)
         /\ GlobalCount \in Nat /\ GlobalStart \in Nat
         /\ GlobalStart <= now /\ ~Stale(GlobalStart)
  <1>1. ~Stale(now)
    BY LimitsAssumption DEF Stale, Inv, TypeOK
  <1>2. k \in DOMAIN buckets =>
          buckets[k] \in BucketState /\ buckets[k].windowStart <= now
    BY DEF Inv, TypeOK, Past
  <1>3. BucketFor(k) \in BucketState /\ BucketFor(k).windowStart <= now
    BY <1>2 DEF BucketFor, Refreshed, BucketState, Inv, TypeOK
  <1>4. ~Stale(BucketFor(k).windowStart)
    BY <1>1 DEF BucketFor, Refreshed
  <1>5. /\ GlobalCount \in Nat /\ GlobalStart \in Nat
        /\ GlobalStart <= now /\ ~Stale(GlobalStart)
    BY <1>1 DEF GlobalCount, GlobalStart, Inv, TypeOK, Past
  <1> QED
    BY <1>3, <1>4, <1>5

(* Putting a bucket into the map changes that key's and no other.          *)
LEMMA WithBucket ==
  ASSUME Inv, NEW k \in Key, NEW b \in BucketState
  PROVE  /\ DOMAIN With(k, b) = DOMAIN buckets \cup {k}
         /\ With(k, b)[k] = b
         /\ \A j \in DOMAIN buckets : j # k => With(k, b)[j] = buckets[j]
         /\ \A j \in DOMAIN With(k, b) : With(k, b)[j] \in BucketState
         /\ With(k, b) \in [DOMAIN With(k, b) -> BucketState]
  <1>1. /\ DOMAIN With(k, b) = DOMAIN buckets \cup {k}
        /\ With(k, b)[k] = b
        /\ \A j \in DOMAIN buckets : j # k => With(k, b)[j] = buckets[j]
    BY DEF With
  <1>2. \A j \in DOMAIN With(k, b) : With(k, b)[j] \in BucketState
    BY <1>1 DEF Inv, TypeOK
  <1>3. With(k, b) = [j \in DOMAIN With(k, b) |-> With(k, b)[j]]
    BY DEF With
  <1> QED
    BY <1>1, <1>2, <1>3

(* Pruning takes out stale buckets, and leaves the others as they are.     *)
LEMMA PrunedBuckets ==
  ASSUME NEW kept, NEW D, kept \in [D -> BucketState]
  PROVE  /\ DOMAIN Pruned(kept) \subseteq D
         /\ \A j \in D : ~Stale(kept[j].windowStart) => j \in DOMAIN Pruned(kept)
         /\ \A j \in DOMAIN Pruned(kept) : Pruned(kept)[j] = kept[j]
         /\ Pruned(kept) \in [DOMAIN Pruned(kept) -> BucketState]
  <1>1. CASE Cardinality(DOMAIN kept) <= MaxKeyCount
    BY <1>1 DEF Pruned
  <1>2. CASE ~(Cardinality(DOMAIN kept) <= MaxKeyCount)
    <2> DEFINE Fresh == {k \in DOMAIN kept : ~Stale(kept[k].windowStart)}
    <2>1. Pruned(kept) = [j \in Fresh |-> kept[j]]
      BY <1>2 DEF Pruned
    <2>2. Fresh \subseteq D /\ \A j \in D : ~Stale(kept[j].windowStart) => j \in Fresh
      OBVIOUS
    <2> QED
      BY <2>1, <2>2
  <1> QED
    BY <1>1, <1>2

-----------------------------------------------------------------------------
LEMMA Initially == Init => Inv
  BY LimitsAssumption DEF Init, Inv, TypeOK, Past, BucketState

LEMMA ReportedIsTyped ==
  ASSUME Inv, NEW k \in Key, NEW kept \in BOOLEAN, Reported(k, kept)
  PROVE  seen' \in Seq(Report)
  BY DEF Reported, Inv, TypeOK, Report

LEMMA InvStep == Inv /\ [Next]_vars => Inv'
  <1> SUFFICES ASSUME Inv, [Next]_vars PROVE Inv'
    OBVIOUS
  <1>1. CASE Tick
    BY <1>1 DEF Tick, Inv, TypeOK, Past, BucketState
  <1>2. ASSUME NEW k \in Key, BeforeSend(k) PROVE Inv'
    <2>0. /\ BucketFor(k) \in BucketState /\ BucketFor(k).windowStart <= now
          /\ GlobalCount \in Nat /\ GlobalStart \in Nat /\ GlobalStart <= now
      BY BucketForKey
    <2>1. now' = now /\ seen' \in Seq(Report)
      <3>1. now' = now
        BY <1>2 DEF BeforeSend
      <3>2. PICK kept \in BOOLEAN : Reported(k, kept)
        BY <1>2 DEF BeforeSend, DropOverall, DropKey, Keep
      <3> QED
        BY <3>1, <3>2, ReportedIsTyped
    <2>2. CASE DropOverall(k)
      BY <2>0, <2>1, <2>2 DEF DropOverall, Inv, TypeOK, Past
    <2>3. CASE DropKey(k)
      <3> DEFINE placed == With(k, BucketFor(k))
      <3>1. /\ DOMAIN placed = DOMAIN buckets \cup {k}
            /\ placed[k] = BucketFor(k)
            /\ \A j \in DOMAIN buckets : j # k => placed[j] = buckets[j]
            /\ placed \in [DOMAIN placed -> BucketState]
        BY <2>0, WithBucket
      <3>2. \A j \in DOMAIN placed : placed[j].windowStart <= now
        BY <3>1, <2>0 DEF Inv, Past
      <3> QED
        BY <2>0, <2>1, <2>3, <3>1, <3>2 DEF DropKey, Inv, TypeOK, Past
    <2>4. CASE Keep(k)
      <3> DEFINE charged == [BucketFor(k) EXCEPT !.count = @ + 1]
                 placed == With(k, charged)
      <3>1. charged \in BucketState /\ charged.windowStart <= now
        BY <2>0 DEF BucketState
      <3> HIDE DEF charged
      <3>2. /\ DOMAIN placed = DOMAIN buckets \cup {k}
            /\ placed[k] = charged
            /\ \A j \in DOMAIN buckets : j # k => placed[j] = buckets[j]
            /\ placed \in [DOMAIN placed -> BucketState]
        BY <3>1, WithBucket
      <3>3. \A j \in DOMAIN placed : placed[j].windowStart <= now
        BY <3>1, <3>2 DEF Inv, Past
      <3> HIDE DEF placed
      <3>4. /\ DOMAIN Pruned(placed) \subseteq DOMAIN placed
            /\ \A j \in DOMAIN Pruned(placed) : Pruned(placed)[j] = placed[j]
            /\ Pruned(placed) \in [DOMAIN Pruned(placed) -> BucketState]
        BY <3>2, PrunedBuckets
      <3>5. buckets' = Pruned(placed)
        BY <2>4 DEF Keep, placed, charged
      <3>6. globalCount' = GlobalCount + 1 /\ globalWindowStart' = GlobalStart
        BY <2>4 DEF Keep
      <3> QED
        BY <2>0, <2>1, <3>2, <3>3, <3>4, <3>5, <3>6 DEF Inv, TypeOK, Past
    <2> QED
      BY <1>2, <2>2, <2>3, <2>4 DEF BeforeSend
  <1>3. CASE UNCHANGED vars
    BY <1>3 DEF vars, Inv, TypeOK, Past
  <1> QED
    BY <1>1, <1>2, <1>3 DEF Next

THEOREM InvCorrect == Spec => []Inv
  BY Initially, InvStep, PTL DEF Spec

(* The counts and windows of createEventRateLimiter keep their types, and  *)
(* the map holds no key but one that was derived from an event.            *)
THEOREM TypeCorrect == Spec => []TypeOK
  BY InvCorrect, PTL DEF Inv
-----------------------------------------------------------------------------
(* What the abstract limiter finds open is the bucket the call asks for.   *)
LEMMA OpenedIs ==
  ASSUME Inv, NEW k \in Key
  PROVE  /\ Allowances!Opened(Used(k)) =
              [count |-> BucketFor(k).count, opened |-> BucketFor(k).windowStart]
         /\ Allowances!Opened(Overall) =
              [count |-> GlobalCount, opened |-> GlobalStart]
  <1>1. k \in DOMAIN buckets => [count |-> buckets[k].count,
                                opened |-> buckets[k].windowStart] # None
    BY LimitsAssumption DEF Inv, TypeOK, BucketState
  <1>2. [count |-> globalCount, opened |-> globalWindowStart] # None
    BY LimitsAssumption DEF Inv, TypeOK
  <1>3. Allowances!Opened(Used(k)) =
          [count |-> BucketFor(k).count, opened |-> BucketFor(k).windowStart]
    BY <1>1 DEF Allowances!Opened, Used, BucketFor, Refreshed
  <1>4. Allowances!Opened(Overall) = [count |-> GlobalCount, opened |-> GlobalStart]
    BY <1>2 DEF Allowances!Opened, Overall, GlobalCount, GlobalStart
  <1> QED
    BY <1>3, <1>4

(* A window that is over stays over.                                       *)
LEMMA TimePasses ==
  ASSUME Inv, Tick
  PROVE  Allowances!Pass
  <1>1. now \in Nat /\ now' = now + 1
    BY DEF Tick, Inv, TypeOK
  <1>2. \A k \in Key : Used(k)' = Allowances!Lapsed(Used(k), now')
    <2> SUFFICES ASSUME NEW k \in Key
                 PROVE  Used(k)' = Allowances!Lapsed(Used(k), now')
      OBVIOUS
    <2>1. buckets' = buckets
      BY DEF Tick
    <2>2. CASE k \in DOMAIN buckets
      <3>1. /\ buckets[k].windowStart \in Nat
            /\ [count |-> buckets[k].count, opened |-> buckets[k].windowStart] # None
        BY <2>2, LimitsAssumption DEF Inv, TypeOK, BucketState
      <3> QED
        BY <1>1, <2>1, <2>2, <3>1, LimitsAssumption
           DEF Used, Stale, Allowances!Lapsed
    <2>3. CASE k \notin DOMAIN buckets
      BY <2>1, <2>3 DEF Used, Allowances!Lapsed
    <2> QED
      BY <2>2, <2>3
  <1>3. Overall' = Allowances!Lapsed(Overall, now')
    <2>1. /\ globalWindowStart \in Nat
          /\ [count |-> globalCount, opened |-> globalWindowStart] # None
      BY LimitsAssumption DEF Inv, TypeOK
    <2>2. globalCount' = globalCount /\ globalWindowStart' = globalWindowStart
      BY DEF Tick
    <2> QED
      BY <1>1, <2>1, <2>2, LimitsAssumption DEF Overall, Stale, Allowances!Lapsed
  <1>4. seen' = seen
    BY DEF Tick
  <1> QED
    BY <1>1, <1>2, <1>3, <1>4 DEF Allowances!Pass, Used, Overall

(* An event that is kept is charged to its key and to all keys, though     *)
(* other keys' buckets were pruned behind it.                              *)
LEMMA KeptIsAdmitted ==
  ASSUME Inv, NEW k \in Key, Keep(k), now' = now
  PROVE  Allowances!Admit(k)
  <1> DEFINE charged == [BucketFor(k) EXCEPT !.count = @ + 1]
             placed == With(k, charged)
  <1>0. /\ BucketFor(k) \in BucketState /\ ~Stale(BucketFor(k).windowStart)
        /\ GlobalCount \in Nat /\ GlobalStart \in Nat /\ ~Stale(GlobalStart)
    BY BucketForKey
  <1>1. /\ charged \in BucketState
        /\ charged.count = BucketFor(k).count + 1
        /\ charged.windowStart = BucketFor(k).windowStart
    BY <1>0 DEF BucketState
  <1>2. /\ GlobalCount < GlobalMaxPerWindow /\ BucketFor(k).count < MaxPerWindow
        /\ globalCount' = GlobalCount + 1 /\ globalWindowStart' = GlobalStart
        /\ buckets' = Pruned(placed)
        /\ seen' = Append(seen, [key |-> k, at |-> now, kept |-> TRUE])
    BY DEF Keep, Reported
  <1> HIDE DEF charged
  <1>3. /\ DOMAIN placed = DOMAIN buckets \cup {k}
        /\ placed[k] = charged
        /\ \A j \in DOMAIN buckets : j # k => placed[j] = buckets[j]
        /\ placed \in [DOMAIN placed -> BucketState]
    BY <1>1, WithBucket
  <1> HIDE DEF placed
  <1>4. /\ DOMAIN buckets' \subseteq DOMAIN placed
        /\ \A j \in DOMAIN placed : ~Stale(placed[j].windowStart) => j \in DOMAIN buckets'
        /\ \A j \in DOMAIN buckets' : buckets'[j] = placed[j]
    BY <1>2, <1>3, PrunedBuckets
  <1>5. Used(k)' = [count |-> BucketFor(k).count + 1, opened |-> BucketFor(k).windowStart]
    BY <1>0, <1>1, <1>3, <1>4, now' = now DEF Used, Stale
  <1>6. \A j \in Key : j # k => Used(j)' = Used(j)
    BY <1>3, <1>4, now' = now DEF Used, Stale
  <1>7. Overall' = [count |-> GlobalCount + 1, opened |-> GlobalStart]
    BY <1>0, <1>2, now' = now DEF Overall, Stale
  <1>8. /\ Allowances!Opened(Used(k)).count = BucketFor(k).count
        /\ Allowances!Opened(Overall).count = GlobalCount
        /\ Allowances!Charged(Used(k)) = Used(k)'
        /\ Allowances!Charged(Overall) = Overall'
    BY OpenedIs, <1>5, <1>7 DEF Allowances!Charged
  <1>9. [j \in Key |-> Used(j)]' =
          [[j \in Key |-> Used(j)] EXCEPT ![k] = Allowances!Charged(@)]
    BY <1>6, <1>8
  <1> QED
    BY <1>2, <1>8, <1>9, now' = now DEF Allowances!Admit, Used, Overall

(* An event that is dropped costs no key anything: a key that is past its  *)
(* limit has a bucket, and one that is not stale.                          *)
LEMMA DroppedIsDropped ==
  ASSUME Inv, NEW k \in Key, DropOverall(k) \/ DropKey(k), now' = now
  PROVE  Allowances!Drop(k)
  <1>0. /\ BucketFor(k) \in BucketState
        /\ GlobalCount \in Nat /\ GlobalStart \in Nat /\ ~Stale(GlobalStart)
    BY BucketForKey
  <1>1. \A j \in Key : Used(j)' = Used(j)
    <2>1. CASE DropOverall(k)
      BY <2>1, now' = now DEF DropOverall, Used, Stale
    <2>2. CASE DropKey(k)
      <3>1. k \in DOMAIN buckets /\ BucketFor(k) = buckets[k]
        BY <2>2, LimitsAssumption DEF DropKey, BucketFor, Refreshed
      <3>2. buckets' = With(k, buckets[k])
        BY <2>2, <3>1 DEF DropKey
      <3>3. /\ DOMAIN buckets' = DOMAIN buckets
            /\ \A j \in DOMAIN buckets : buckets'[j] = buckets[j]
        BY <3>1, <3>2 DEF With
      <3> QED
        BY <3>3, now' = now DEF Used, Stale
    <2> QED
      BY <2>1, <2>2
  <1>2. /\ globalCount' = GlobalCount /\ globalWindowStart' = GlobalStart
        /\ seen' = Append(seen, [key |-> k, at |-> now, kept |-> FALSE])
        /\ GlobalCount >= GlobalMaxPerWindow \/ BucketFor(k).count >= MaxPerWindow
    BY DEF DropOverall, DropKey, Reported
  <1>3. Overall' = Allowances!Opened(Overall)
    BY <1>0, <1>2, OpenedIs, now' = now DEF Overall, Stale
  <1>4. /\ Allowances!Opened(Used(k)).count = BucketFor(k).count
        /\ Allowances!Opened(Overall).count = GlobalCount
    BY OpenedIs
  <1> QED
    BY <1>1, <1>2, <1>3, <1>4, now' = now DEF Allowances!Drop, Used, Overall

LEMMA AllowancesInitially == Init => Allowances!Init
  <1> SUFFICES ASSUME Init PROVE Allowances!Init
    OBVIOUS
  <1>1. \A k \in Key : Used(k) = None
    BY DEF Init, Used
  <1>2. Overall = [count |-> 0, opened |-> now]
    BY LimitsAssumption DEF Init, Overall, Stale
  <1> QED
    BY <1>1, <1>2 DEF Init, Allowances!Init, Used, Overall

LEMMA AllowancesStep == Inv /\ [Next]_vars => [Allowances!Next]_(Allowances!vars)
  <1> SUFFICES ASSUME Inv, [Next]_vars PROVE [Allowances!Next]_(Allowances!vars)
    OBVIOUS
  <1>1. CASE Tick
    BY <1>1, TimePasses DEF Allowances!Next
  <1>2. ASSUME NEW k \in Key, BeforeSend(k) PROVE Allowances!Next
    <2>1. now' = now
      BY <1>2 DEF BeforeSend
    <2>2. CASE Keep(k)
      BY <2>1, <2>2, KeptIsAdmitted DEF Allowances!Next
    <2>3. CASE DropOverall(k) \/ DropKey(k)
      BY <2>1, <2>3, DroppedIsDropped DEF Allowances!Next
    <2> QED
      BY <1>2, <2>2, <2>3 DEF BeforeSend
  <1>3. CASE UNCHANGED vars
    BY <1>3 DEF vars, Allowances!vars, Stale
  <1> QED
    BY <1>1, <1>2, <1>3 DEF Next

(* However keys come and go from the map, and however late a stale window  *)
(* is noticed, events are kept and dropped as by a limiter that keeps      *)
(* every key's allowance and lets it lapse on time.                        *)
THEOREM AllowancesAreKept == Spec => KeepsAllowances
  BY InvCorrect, AllowancesInitially, AllowancesStep, PTL
     DEF Spec, KeepsAllowances, Allowances!Spec
-----------------------------------------------------------------------------
(***************************************************************************)
(* The limits.  Counts are related to the events they counted: those kept  *)
(* of keys in K at times in T, which is all from the start of a window on, *)
(* the span before it, or the span that ends now.                          *)
(***************************************************************************)
KeptIn(log, K, T) ==
  {m \in DOMAIN log : log[m].kept /\ log[m].key \in K /\ log[m].at \in T}

From(start) == {t \in Nat : t >= start}
Behind(start) == {t \in Nat : t < start /\ start - t < WindowMs}
Span(end) == {t \in Nat : end - t < WindowMs}

NoneAhead == \A m \in DOMAIN seen : seen[m].at <= now

(* A bucket counts the events kept in its window, of which the first opened *)
(* it; so of the window before, which was over when that one came, one     *)
(* event less than it may let through is in the span behind.               *)
BucketsCount ==
  \A k \in DOMAIN buckets :
    LET start == buckets[k].windowStart
        counted == KeptIn(seen, {k}, From(start))
    IN  /\ buckets[k].count = Cardinality(counted)
        /\ buckets[k].count <= MaxPerWindow
        /\ \E m \in counted : seen[m].at = start
        /\ \A m \in counted : seen[m].at - start < WindowMs
        /\ Cardinality(KeptIn(seen, {k}, Behind(start))) < MaxPerWindow

(* A key whose bucket was pruned has all of its last window behind it but  *)
(* the event that opened it.                                               *)
OthersAreQuiet ==
  \A k \in Key \ DOMAIN buckets :
    /\ Cardinality(KeptIn(seen, {k}, Span(now))) < MaxPerWindow
    /\ KeptIn(seen, {k}, From(now)) = {}

(* The overall window may be opened by an event that is then dropped.      *)
AllAreCounted ==
  LET counted == KeptIn(seen, Key, From(globalWindowStart))
  IN  /\ globalCount = Cardinality(counted)
      /\ globalCount <= GlobalMaxPerWindow
      /\ \A m \in counted : seen[m].at - globalWindowStart < WindowMs
      /\ Cardinality(KeptIn(seen, Key, Behind(globalWindowStart)))
            <= GlobalMaxPerWindow

Counts == NoneAhead /\ BucketsCount /\ OthersAreQuiet /\ AllAreCounted

LEMMA Reports ==
  ASSUME NEW log \in Seq(Report)
  PROVE  \A m \in DOMAIN log : log[m].at \in Nat /\ log[m].key \in Key /\ log[m].kept \in BOOLEAN
  <1>1. \A m \in DOMAIN log : log[m] \in Report
    OBVIOUS
  <1> QED
    BY <1>1 DEF Report

(* Sets of events seen are finite, and a set within another no larger.     *)
LEMMA EventsAreFinite ==
  ASSUME NEW log \in Seq(Report), NEW S, NEW T, S \subseteq T, T \subseteq DOMAIN log
  PROVE  /\ IsFiniteSet(S) /\ Cardinality(S) \in Nat
         /\ IsFiniteSet(T) /\ Cardinality(T) \in Nat
         /\ Cardinality(S) <= Cardinality(T)
  <1>1. IsFiniteSet(1 .. Len(log)) /\ DOMAIN log = 1 .. Len(log)
    BY FS_Interval
  <1>2. IsFiniteSet(T)
    BY <1>1, FS_Subset
  <1>3. IsFiniteSet(S) /\ Cardinality(S) <= Cardinality(T)
    BY <1>2, FS_Subset
  <1> QED
    BY <1>2, <1>3, FS_CardinalityType

(* One more event adds itself, where it was kept, is of such a key and of  *)
(* such a time.                                                            *)
LEMMA OneMore ==
  ASSUME NEW log \in Seq(Report), NEW e \in Report, NEW K, NEW T
  PROVE  LET old == KeptIn(log, K, T)
             new == KeptIn(Append(log, e), K, T)
             adds == e.kept /\ e.key \in K /\ e.at \in T
         IN  /\ adds => new = old \cup {Len(log) + 1}
             /\ ~adds => new = old
             /\ Cardinality(old) \in Nat
             /\ Cardinality(new) = IF adds THEN Cardinality(old) + 1 ELSE Cardinality(old)
  <1> DEFINE old == KeptIn(log, K, T)
             new == KeptIn(Append(log, e), K, T)
             adds == e.kept /\ e.key \in K /\ e.at \in T
  <1>1. /\ Len(log) \in Nat /\ DOMAIN log = 1 .. Len(log)
        /\ DOMAIN Append(log, e) = 1 .. (Len(log) + 1)
        /\ \A m \in DOMAIN log : Append(log, e)[m] = log[m]
        /\ Append(log, e)[Len(log) + 1] = e
    OBVIOUS
  <1>2. adds => new = old \cup {Len(log) + 1}
    BY <1>1 DEF KeptIn
  <1>3. ~adds => new = old
    BY <1>1 DEF KeptIn
  <1>4. old \subseteq DOMAIN log /\ Len(log) + 1 \notin old
    BY <1>1 DEF KeptIn
  <1>5. IsFiniteSet(old) /\ Cardinality(old) \in Nat
    BY <1>4, EventsAreFinite
  <1> HIDE DEF old, new, adds
  <1>6. Cardinality(old \cup {Len(log) + 1}) = Cardinality(old) + 1
    BY <1>4, <1>5, FS_AddElement
  <1>7. /\ adds => new = old \cup {Len(log) + 1}
        /\ ~adds => new = old
        /\ Cardinality(old) \in Nat
        /\ Cardinality(new) = IF adds THEN Cardinality(old) + 1 ELSE Cardinality(old)
    BY <1>2, <1>3, <1>5, <1>6
  <1> QED
    BY <1>7 DEF old, new, adds

(* What was kept in the span that ends now, around the start of a window   *)
(* that is open.                                                           *)
LEMMA SpanSplits ==
  ASSUME NEW log \in Seq(Report), NEW K, NEW start \in Nat, NEW end \in Nat,
         start <= end, end - start < WindowMs
  PROVE  /\ Cardinality(KeptIn(log, K, Span(end))) \in Nat
         /\ Cardinality(KeptIn(log, K, From(start))) \in Nat
         /\ Cardinality(KeptIn(log, K, Behind(start))) \in Nat
         /\ Cardinality(KeptIn(log, K, Span(end)))
              <= Cardinality(KeptIn(log, K, From(start)))
                   + Cardinality(KeptIn(log, K, Behind(start)))
         /\ Cardinality(KeptIn(log, K, From(start)))
              <= Cardinality(KeptIn(log, K, Span(end)))
  <1> DEFINE spanned == KeptIn(log, K, Span(end))
             since == KeptIn(log, K, From(start))
             behind == KeptIn(log, K, Behind(start))
  <1>0. \A m \in DOMAIN log : log[m].at \in Nat
    BY Reports
  <1>1. spanned \subseteq since \cup behind
    BY <1>0, LimitsAssumption DEF KeptIn, From, Behind, Span
  <1>2. since \subseteq spanned
    BY <1>0, LimitsAssumption DEF KeptIn, From, Span
  <1>3. spanned \subseteq DOMAIN log /\ behind \subseteq DOMAIN log /\ since \subseteq DOMAIN log
    BY DEF KeptIn
  <1> HIDE DEF spanned, since, behind
  <1>4. /\ IsFiniteSet(since) /\ Cardinality(since) \in Nat
        /\ Cardinality(spanned) \in Nat /\ Cardinality(since) <= Cardinality(spanned)
    BY <1>2, <1>3, EventsAreFinite
  <1>5. IsFiniteSet(behind) /\ Cardinality(behind) \in Nat
    BY <1>3, EventsAreFinite
  <1>6. /\ Cardinality(since \cup behind)
              = Cardinality(since) + Cardinality(behind) - Cardinality(since \cap behind)
        /\ Cardinality(since \cap behind) \in Nat
    BY <1>4, <1>5, FS_Union, FS_Intersection, FS_CardinalityType
  <1>7. Cardinality(spanned) <= Cardinality(since \cup behind)
    BY <1>1, <1>3, EventsAreFinite
  <1>8. Cardinality(spanned) <= Cardinality(since) + Cardinality(behind)
    BY <1>4, <1>5, <1>6, <1>7
  <1> QED
    BY <1>4, <1>5, <1>8 DEF spanned, since, behind

(* Behind a window that is over there is one event less than it counted.   *)
LEMMA OverIsQuiet ==
  ASSUME Inv, Counts, NEW k \in DOMAIN buckets, Stale(buckets[k].windowStart)
  PROVE  /\ Cardinality(KeptIn(seen, {k}, Span(now))) < MaxPerWindow
         /\ KeptIn(seen, {k}, From(now)) = {}
  <1> DEFINE start == buckets[k].windowStart
             counted == KeptIn(seen, {k}, From(start))
             spanned == KeptIn(seen, {k}, Span(now))
  <1>0. /\ start \in Nat /\ now \in Nat /\ now - start >= WindowMs /\ start <= now
        /\ seen \in Seq(Report)
        /\ \A m \in DOMAIN seen : seen[m].at \in Nat
    <2>1. buckets[k] \in BucketState
      BY DEF Inv, TypeOK
    <2> QED
      BY <2>1, Reports DEF Inv, TypeOK, Past, BucketState, Stale
  <1>1. /\ Cardinality(counted) <= MaxPerWindow
        /\ \A m \in counted : seen[m].at - start < WindowMs
    BY DEF Counts, BucketsCount
  <1>2. PICK m \in counted : seen[m].at = start
    BY DEF Counts, BucketsCount
  <1>3. spanned \subseteq counted \ {m}
    BY <1>0, <1>2, LimitsAssumption DEF KeptIn, From, Span
  <1>4. counted \subseteq DOMAIN seen
    BY DEF KeptIn
  <1>5. KeptIn(seen, {k}, From(now)) = {}
    BY <1>0, <1>1, LimitsAssumption DEF KeptIn, From
  <1> HIDE DEF counted, spanned, start
  <1>6. IsFiniteSet(counted) /\ Cardinality(counted) \in Nat
    BY <1>0, <1>4, EventsAreFinite
  <1>7. Cardinality(counted \ {m}) = Cardinality(counted) - 1
    BY <1>2, <1>6, FS_RemoveElement
  <1>8. Cardinality(spanned) <= Cardinality(counted \ {m}) /\ Cardinality(spanned) \in Nat
    BY <1>0, <1>3, <1>4, EventsAreFinite
  <1>9. Cardinality(spanned) < MaxPerWindow
    BY <1>1, <1>6, <1>7, <1>8, LimitsAssumption
  <1> QED
    BY <1>5, <1>9 DEF spanned

(* Before an event is counted, the bucket it asks for counts what was kept *)
(* in its window, and the span behind that holds less than its limit.      *)
LEMMA BucketIsTrue ==
  ASSUME Inv, Counts, NEW k \in Key
  PROVE  LET start == BucketFor(k).windowStart
             counted == KeptIn(seen, {k}, From(start))
         IN  /\ BucketFor(k).count = Cardinality(counted)
             /\ BucketFor(k).count <= MaxPerWindow
             /\ BucketFor(k).count > 0 =>
                  /\ k \in DOMAIN buckets /\ BucketFor(k) = buckets[k]
                  /\ \E m \in counted : seen[m].at = start
             /\ BucketFor(k).count = 0 => start = now
             /\ \A m \in counted : seen[m].at - start < WindowMs
             /\ Cardinality(KeptIn(seen, {k}, Behind(start))) < MaxPerWindow
  <1>0. seen \in Seq(Report) /\ now \in Nat /\ \A m \in DOMAIN seen : seen[m].at \in Nat
    BY Reports DEF Inv, TypeOK
  <1>1. CASE k \in DOMAIN buckets /\ ~Stale(buckets[k].windowStart)
    <2>1. BucketFor(k) = buckets[k] /\ buckets[k] \in BucketState
      BY <1>1 DEF BucketFor, Refreshed, Inv, TypeOK
    <2> DEFINE counted == KeptIn(seen, {k}, From(buckets[k].windowStart))
    <2>2. /\ buckets[k].count = Cardinality(counted)
          /\ buckets[k].count <= MaxPerWindow
          /\ \E m \in counted : seen[m].at = buckets[k].windowStart
          /\ \A m \in counted : seen[m].at - buckets[k].windowStart < WindowMs
          /\ Cardinality(KeptIn(seen, {k}, Behind(buckets[k].windowStart))) < MaxPerWindow
      BY <1>1 DEF Counts, BucketsCount
    <2>3. counted \subseteq DOMAIN seen
      BY DEF KeptIn
    <2>4. IsFiniteSet(counted) /\ counted # {}
      BY <1>0, <2>2, <2>3, EventsAreFinite
    <2>5. buckets[k].count # 0
      BY <2>2, <2>4, FS_EmptySet
    <2> QED
      BY <1>1, <2>1, <2>2, <2>5
  <1>2. CASE k \notin DOMAIN buckets \/ Stale(buckets[k].windowStart)
    <2>1. BucketFor(k) = [count |-> 0, windowStart |-> now]
      BY <1>2 DEF BucketFor, Refreshed
    <2>2. /\ Cardinality(KeptIn(seen, {k}, Span(now))) < MaxPerWindow
          /\ KeptIn(seen, {k}, From(now)) = {}
      BY <1>2, OverIsQuiet DEF Counts, OthersAreQuiet
    <2>3. /\ KeptIn(seen, {k}, Behind(now)) \subseteq KeptIn(seen, {k}, Span(now))
          /\ KeptIn(seen, {k}, Span(now)) \subseteq DOMAIN seen
      BY DEF KeptIn, Behind, Span
    <2>4. /\ Cardinality(KeptIn(seen, {k}, Behind(now)))
                <= Cardinality(KeptIn(seen, {k}, Span(now)))
          /\ Cardinality(KeptIn(seen, {k}, Behind(now))) \in Nat
          /\ Cardinality(KeptIn(seen, {k}, Span(now))) \in Nat
      BY <1>0, <2>3, EventsAreFinite
    <2>5. Cardinality(KeptIn(seen, {k}, Behind(now))) < MaxPerWindow
      BY <2>2, <2>4, LimitsAssumption
    <2>6. BucketFor(k).count = 0 /\ BucketFor(k).windowStart = now
      BY <2>1
    <2>7. Cardinality(KeptIn(seen, {k}, From(now))) = 0
      BY <2>2, FS_EmptySet
    <2> QED
      BY <2>2, <2>5, <2>6, <2>7, LimitsAssumption
  <1> QED
    BY <1>1, <1>2

(* So does the window over all keys.                                       *)
LEMMA OverallIsTrue ==
  ASSUME Inv, Counts
  PROVE  LET counted == KeptIn(seen, Key, From(GlobalStart))
         IN  /\ GlobalCount = Cardinality(counted)
             /\ GlobalCount <= GlobalMaxPerWindow
             /\ \A m \in counted : seen[m].at - GlobalStart < WindowMs
             /\ Cardinality(KeptIn(seen, Key, Behind(GlobalStart))) <= GlobalMaxPerWindow
  <1> DEFINE counted == KeptIn(seen, Key, From(globalWindowStart))
  <1>0. /\ seen \in Seq(Report) /\ now \in Nat /\ globalWindowStart \in Nat
        /\ globalCount \in Nat
        /\ \A m \in DOMAIN seen : seen[m].at \in Nat
    BY Reports DEF Inv, TypeOK
  <1>1. /\ globalCount = Cardinality(counted) /\ globalCount <= GlobalMaxPerWindow
        /\ \A m \in counted : seen[m].at - globalWindowStart < WindowMs
        /\ Cardinality(KeptIn(seen, Key, Behind(globalWindowStart))) <= GlobalMaxPerWindow
    BY DEF Counts, AllAreCounted
  <1>2. CASE ~Stale(globalWindowStart)
    BY <1>1, <1>2 DEF GlobalCount, GlobalStart
  <1>3. CASE Stale(globalWindowStart)
    <2>1. now - globalWindowStart >= WindowMs
      BY <1>3 DEF Stale
    <2>2. KeptIn(seen, Key, From(now)) = {}
      BY <1>0, <1>1, <2>1, LimitsAssumption DEF KeptIn, From
    <2>3. KeptIn(seen, Key, Behind(now)) \subseteq counted /\ counted \subseteq DOMAIN seen
      BY <1>0, <2>1, LimitsAssumption DEF KeptIn, From, Behind
    <2>4. /\ Cardinality(KeptIn(seen, Key, Behind(now))) <= Cardinality(counted)
          /\ Cardinality(KeptIn(seen, Key, Behind(now))) \in Nat
          /\ Cardinality(counted) \in Nat
      BY <1>0, <2>3, EventsAreFinite
    <2>5. Cardinality(KeptIn(seen, Key, Behind(now))) <= GlobalMaxPerWindow
      BY <1>1, <2>4, LimitsAssumption
    <2>6. GlobalCount = 0 /\ GlobalStart = now
      BY <1>3 DEF GlobalCount, GlobalStart
    <2> QED
      BY <2>2, <2>5, <2>6, FS_EmptySet, LimitsAssumption
  <1> QED
    BY <1>2, <1>3

LEMMA CountsInitially == Init => Counts
  <1> SUFFICES ASSUME Init PROVE Counts
    OBVIOUS
  <1>1. \A K, T : KeptIn(seen, K, T) = {}
    BY DEF Init, KeptIn
  <1>2. DOMAIN buckets = {} /\ globalCount = 0 /\ seen = <<>>
    BY DEF Init
  <1>3. \A K, T : Cardinality(KeptIn(seen, K, T)) = 0
    BY <1>1, FS_EmptySet
  <1>4. NoneAhead
    BY <1>2 DEF NoneAhead
  <1>5. BucketsCount /\ OthersAreQuiet
    BY <1>1, <1>2, <1>3, LimitsAssumption DEF BucketsCount, OthersAreQuiet
  <1>6. AllAreCounted
    BY <1>1, <1>2, <1>3, LimitsAssumption DEF AllAreCounted
  <1> QED
    BY <1>4, <1>5, <1>6 DEF Counts

(* Time only takes events out of the span that ends now.                   *)
LEMMA TickCounts ==
  ASSUME Inv, Counts, Tick
  PROVE  Counts'
  <1>0. /\ seen \in Seq(Report) /\ now \in Nat /\ now' = now + 1
        /\ \A m \in DOMAIN seen : seen[m].at \in Nat
        /\ UNCHANGED <<buckets, globalCount, globalWindowStart, seen>>
    BY Reports DEF Inv, TypeOK, Tick
  <1>1. \A m \in DOMAIN seen : seen[m].at <= now
    BY DEF Counts, NoneAhead
  <1>2. NoneAhead'
    BY <1>0, <1>1 DEF NoneAhead
  <1>3. BucketsCount' /\ AllAreCounted'
    BY <1>0 DEF Counts, BucketsCount, AllAreCounted
  <1>4. ASSUME NEW k \in Key \ DOMAIN buckets
        PROVE  /\ Cardinality(KeptIn(seen, {k}, Span(now + 1))) < MaxPerWindow
               /\ KeptIn(seen, {k}, From(now + 1)) = {}
    <2>1. Cardinality(KeptIn(seen, {k}, Span(now))) < MaxPerWindow
      BY <1>4 DEF Counts, OthersAreQuiet
    <2>2. /\ KeptIn(seen, {k}, Span(now + 1)) \subseteq KeptIn(seen, {k}, Span(now))
          /\ KeptIn(seen, {k}, Span(now)) \subseteq DOMAIN seen
      BY <1>0, LimitsAssumption DEF KeptIn, Span
    <2>3. /\ Cardinality(KeptIn(seen, {k}, Span(now + 1)))
                <= Cardinality(KeptIn(seen, {k}, Span(now)))
          /\ Cardinality(KeptIn(seen, {k}, Span(now + 1))) \in Nat
          /\ Cardinality(KeptIn(seen, {k}, Span(now))) \in Nat
      BY <1>0, <2>2, EventsAreFinite
    <2>4. KeptIn(seen, {k}, From(now + 1)) = {}
      BY <1>0, <1>1 DEF KeptIn, From
    <2> QED
      BY <2>1, <2>3, <2>4, LimitsAssumption
  <1>5. OthersAreQuiet'
    BY <1>0, <1>4 DEF OthersAreQuiet
  <1> QED
    BY <1>2, <1>3, <1>5 DEF Counts

(* An event that is reported is the last, and comes now.                   *)
LEMMA ReportedIsLast ==
  ASSUME Inv, Counts, NEW k \in Key, NEW kept \in BOOLEAN, Reported(k, kept), now' = now
  PROVE  LET e == [key |-> k, at |-> now, kept |-> kept]
         IN  /\ e \in Report /\ seen' = Append(seen, e)
             /\ DOMAIN seen' = DOMAIN seen \cup {Len(seen) + 1}
             /\ \A m \in DOMAIN seen : seen'[m] = seen[m]
             /\ seen'[Len(seen) + 1] = e
             /\ NoneAhead'
  <1> DEFINE e == [key |-> k, at |-> now, kept |-> kept]
  <1>1. e \in Report /\ seen \in Seq(Report) /\ now \in Nat
    BY DEF Inv, TypeOK, Report
  <1>2. seen' = Append(seen, e) /\ e.at = now
    BY DEF Reported
  <1>3. \A m \in DOMAIN seen : seen[m].at <= now
    BY DEF Counts, NoneAhead
  <1> HIDE DEF e
  <1>4. /\ DOMAIN seen' = DOMAIN seen \cup {Len(seen) + 1}
        /\ \A m \in DOMAIN seen : seen'[m] = seen[m]
        /\ seen'[Len(seen) + 1] = e
    BY <1>1, <1>2
  <1>5. NoneAhead'
    BY <1>1, <1>2, <1>3, <1>4, now' = now DEF NoneAhead
  <1> QED
    BY <1>1, <1>2, <1>4, <1>5 DEF e

(* The key that an event is dropped behind keeps its bucket as it was.     *)
LEMMA DropLeavesBuckets ==
  ASSUME Inv, NEW k \in Key, DropOverall(k) \/ DropKey(k)
  PROVE  buckets' = buckets
  <1>1. CASE DropOverall(k)
    BY <1>1 DEF DropOverall
  <1>2. CASE DropKey(k)
    <2>1. k \in DOMAIN buckets /\ BucketFor(k) = buckets[k]
      BY <1>2, LimitsAssumption DEF DropKey, BucketFor, Refreshed
    <2>2. buckets' = [j \in DOMAIN buckets |-> buckets[j]]
      BY <1>2, <2>1 DEF DropKey, With
    <2> QED
      BY <2>2 DEF Inv, TypeOK
  <1> QED
    BY <1>1, <1>2

(* An event that is dropped is counted nowhere.                            *)
LEMMA DropCounts ==
  ASSUME Inv, Counts, NEW k \in Key, DropOverall(k) \/ DropKey(k), now' = now
  PROVE  Counts'
  <1> DEFINE e == [key |-> k, at |-> now, kept |-> FALSE]
  <1>1. Reported(k, FALSE)
    BY DEF DropOverall, DropKey
  <1>2. /\ e \in Report /\ seen' = Append(seen, e) /\ NoneAhead'
        /\ \A m \in DOMAIN seen : seen'[m] = seen[m]
    BY <1>1, ReportedIsLast, now' = now
  <1>3. ~e.kept
    OBVIOUS
  <1>4. seen \in Seq(Report)
    BY DEF Inv, TypeOK
  <1> HIDE DEF e
  <1>5. \A K, T : KeptIn(seen', K, T) = KeptIn(seen, K, T)
    BY <1>2, <1>3, <1>4, OneMore
  <1>6. \A K, T : KeptIn(seen, K, T) \subseteq DOMAIN seen
    BY DEF KeptIn
  <1>7. buckets' = buckets
    BY DropLeavesBuckets
  <1>8. BucketsCount'
    <2> SUFFICES ASSUME NEW j \in DOMAIN buckets
                 PROVE  LET start == buckets[j].windowStart
                            counted == KeptIn(seen', {j}, From(start))
                        IN  /\ buckets[j].count = Cardinality(counted)
                            /\ buckets[j].count <= MaxPerWindow
                            /\ \E m \in counted : seen'[m].at = start
                            /\ \A m \in counted : seen'[m].at - start < WindowMs
                            /\ Cardinality(KeptIn(seen', {j}, Behind(start))) < MaxPerWindow
      BY <1>7 DEF BucketsCount
    <2> DEFINE start == buckets[j].windowStart
               counted == KeptIn(seen, {j}, From(start))
    <2>1. /\ buckets[j].count = Cardinality(counted)
          /\ buckets[j].count <= MaxPerWindow
          /\ \E m \in counted : seen[m].at = start
          /\ \A m \in counted : seen[m].at - start < WindowMs
          /\ Cardinality(KeptIn(seen, {j}, Behind(start))) < MaxPerWindow
      BY DEF Counts, BucketsCount
    <2> QED
      BY <1>2, <1>5, <1>6, <2>1
  <1>9. OthersAreQuiet'
    <2>1. \A j \in Key \ DOMAIN buckets :
            /\ Cardinality(KeptIn(seen', {j}, Span(now))) < MaxPerWindow
            /\ KeptIn(seen', {j}, From(now)) = {}
      BY <1>5 DEF Counts, OthersAreQuiet
    <2> QED
      BY <1>7, <2>1, now' = now DEF OthersAreQuiet
  <1>10. AllAreCounted'
    <2>1. globalCount' = GlobalCount /\ globalWindowStart' = GlobalStart
      BY DEF DropOverall, DropKey
    <2> DEFINE counted == KeptIn(seen, Key, From(GlobalStart))
    <2>2. /\ GlobalCount = Cardinality(counted)
          /\ GlobalCount <= GlobalMaxPerWindow
          /\ \A m \in counted : seen[m].at - GlobalStart < WindowMs
          /\ Cardinality(KeptIn(seen, Key, Behind(GlobalStart))) <= GlobalMaxPerWindow
      BY OverallIsTrue
    <2>3. \A m \in counted : seen'[m].at - GlobalStart < WindowMs
      BY <1>2, <1>6, <2>2
    <2> QED
      BY <1>5, <2>1, <2>2, <2>3 DEF AllAreCounted
  <1> QED
    BY <1>2, <1>8, <1>9, <1>10 DEF Counts

(* An event that is kept is counted for its key and for all keys, and a    *)
(* bucket that is pruned behind it was of a window that is over.           *)
LEMMA KeepCounts ==
  ASSUME Inv, Counts, NEW k \in Key, Keep(k), now' = now
  PROVE  Counts'
  <1> DEFINE e == [key |-> k, at |-> now, kept |-> TRUE]
             start == BucketFor(k).windowStart
             charged == [BucketFor(k) EXCEPT !.count = @ + 1]
             placed == With(k, charged)
             last == Len(seen) + 1
  <1>1. /\ e \in Report /\ seen' = Append(seen, e) /\ NoneAhead'
        /\ \A m \in DOMAIN seen : seen'[m] = seen[m]
        /\ seen'[last] = e
    <2>1. Reported(k, TRUE)
      BY DEF Keep
    <2> QED
      BY <2>1, ReportedIsLast, now' = now
  <1>2. e.kept /\ e.key = k /\ e.at = now
    OBVIOUS
  <1>3. seen \in Seq(Report) /\ now \in Nat
    BY DEF Inv, TypeOK
  <1>4. /\ BucketFor(k) \in BucketState /\ start <= now /\ ~Stale(start)
        /\ GlobalCount \in Nat /\ GlobalStart \in Nat /\ GlobalStart <= now
        /\ ~Stale(GlobalStart)
    BY BucketForKey
  <1>5. /\ charged \in BucketState /\ charged.count = BucketFor(k).count + 1
        /\ charged.windowStart = start /\ start \in Nat
    BY <1>4 DEF BucketState
  <1>6. /\ GlobalCount < GlobalMaxPerWindow /\ BucketFor(k).count < MaxPerWindow
        /\ globalCount' = GlobalCount + 1 /\ globalWindowStart' = GlobalStart
        /\ buckets' = Pruned(placed)
    BY DEF Keep
  <1> HIDE DEF e, charged, last
  <1>7. /\ DOMAIN placed = DOMAIN buckets \cup {k} /\ placed[k] = charged
        /\ \A j \in DOMAIN buckets : j # k => placed[j] = buckets[j]
        /\ placed \in [DOMAIN placed -> BucketState]
    BY <1>5, WithBucket
  <1> HIDE DEF placed
  <1>8. /\ DOMAIN buckets' \subseteq DOMAIN placed
        /\ \A j \in DOMAIN placed : ~Stale(placed[j].windowStart) => j \in DOMAIN buckets'
        /\ \A j \in DOMAIN buckets' : buckets'[j] = placed[j]
    BY <1>6, <1>7, PrunedBuckets
  <1>9. k \in DOMAIN buckets'
    BY <1>4, <1>5, <1>7, <1>8
  <1>10. \A K, T : KeptIn(seen, K, T) \subseteq DOMAIN seen
    BY DEF KeptIn
  <1>11. \A j, T : j # k => KeptIn(seen', {j}, T) = KeptIn(seen, {j}, T)
    BY <1>1, <1>2, <1>3, OneMore
  <1>12. BucketsCount'
    <2>1. ASSUME NEW j \in DOMAIN buckets', j # k
          PROVE  LET from == buckets'[j].windowStart
                     counted == KeptIn(seen', {j}, From(from))
                 IN  /\ buckets'[j].count = Cardinality(counted)
                     /\ buckets'[j].count <= MaxPerWindow
                     /\ \E m \in counted : seen'[m].at = from
                     /\ \A m \in counted : seen'[m].at - from < WindowMs
                     /\ Cardinality(KeptIn(seen', {j}, Behind(from))) < MaxPerWindow
      <3> DEFINE from == buckets[j].windowStart
                 counted == KeptIn(seen, {j}, From(from))
      <3>1. j \in DOMAIN buckets /\ buckets'[j] = buckets[j]
        BY <1>7, <1>8, <2>1
      <3>2. /\ buckets[j].count = Cardinality(counted)
            /\ buckets[j].count <= MaxPerWindow
            /\ \E m \in counted : seen[m].at = from
            /\ \A m \in counted : seen[m].at - from < WindowMs
            /\ Cardinality(KeptIn(seen, {j}, Behind(from))) < MaxPerWindow
        BY <3>1 DEF Counts, BucketsCount
      <3>3. /\ \E m \in counted : seen'[m].at = from
            /\ \A m \in counted : seen'[m].at - from < WindowMs
        BY <1>1, <1>10, <3>2
      <3>4. /\ KeptIn(seen', {j}, From(from)) = counted
            /\ KeptIn(seen', {j}, Behind(from)) = KeptIn(seen, {j}, Behind(from))
        BY <1>11, <2>1
      <3> QED
        BY <3>1, <3>2, <3>3, <3>4
    <2>2. LET counted == KeptIn(seen', {k}, From(start))
          IN  /\ charged.count = Cardinality(counted)
              /\ charged.count <= MaxPerWindow
              /\ \E m \in counted : seen'[m].at = start
              /\ \A m \in counted : seen'[m].at - start < WindowMs
              /\ Cardinality(KeptIn(seen', {k}, Behind(start))) < MaxPerWindow
      <3> DEFINE counted == KeptIn(seen, {k}, From(start))
      <3>1. /\ BucketFor(k).count = Cardinality(counted)
            /\ BucketFor(k).count > 0 => \E m \in counted : seen[m].at = start
            /\ BucketFor(k).count = 0 => start = now
            /\ \A m \in counted : seen[m].at - start < WindowMs
            /\ Cardinality(KeptIn(seen, {k}, Behind(start))) < MaxPerWindow
        BY BucketIsTrue
      <3>2. now \in From(start) /\ now \notin Behind(start) /\ now - start < WindowMs
        BY <1>3, <1>4, <1>5, LimitsAssumption DEF From, Behind, Stale
      <3>3. /\ KeptIn(seen', {k}, From(start)) = counted \cup {last}
            /\ Cardinality(KeptIn(seen', {k}, From(start))) = Cardinality(counted) + 1
        BY <1>1, <1>2, <1>3, <3>2, OneMore DEF last
      <3>4. KeptIn(seen', {k}, Behind(start)) = KeptIn(seen, {k}, Behind(start))
        BY <1>1, <1>2, <1>3, <3>2, OneMore
      <3>5. \E m \in counted \cup {last} : seen'[m].at = start
        <4>1. CASE BucketFor(k).count > 0
          <5>1. PICK m \in counted : seen[m].at = start
            BY <3>1, <4>1
          <5> QED
            BY <1>1, <1>10, <5>1
        <4>2. CASE BucketFor(k).count = 0
          BY <1>1, <1>2, <3>1, <4>2
        <4>3. BucketFor(k).count > 0 \/ BucketFor(k).count = 0
          BY <1>4 DEF BucketState
        <4> QED
          BY <4>1, <4>2, <4>3
      <3>6. \A m \in counted \cup {last} : seen'[m].at - start < WindowMs
        BY <1>1, <1>2, <1>10, <3>1, <3>2
      <3>7. charged.count <= MaxPerWindow
        BY <1>4, <1>5, <1>6, LimitsAssumption DEF BucketState
      <3> QED
        BY <1>5, <3>1, <3>3, <3>4, <3>5, <3>6, <3>7
    <2>3. buckets'[k].windowStart = start /\ buckets'[k].count = charged.count
      BY <1>5, <1>7, <1>8, <1>9
    <2> QED
      BY <2>1, <2>2, <2>3 DEF BucketsCount
  <1>13. OthersAreQuiet'
    <2>1. ASSUME NEW j \in Key \ DOMAIN buckets'
          PROVE  /\ Cardinality(KeptIn(seen', {j}, Span(now))) < MaxPerWindow
                 /\ KeptIn(seen', {j}, From(now)) = {}
      <3>1. j # k
        BY <1>9
      <3>2. CASE j \in DOMAIN buckets
        <4>1. Stale(buckets[j].windowStart)
          BY <1>7, <1>8, <2>1, <3>1, <3>2
        <4> QED
          BY <1>11, <3>1, <3>2, <4>1, OverIsQuiet
      <3>3. CASE j \notin DOMAIN buckets
        BY <1>11, <3>1, <3>3 DEF Counts, OthersAreQuiet
      <3> QED
        BY <3>2, <3>3
    <2> QED
      BY <2>1, now' = now DEF OthersAreQuiet
  <1>14. AllAreCounted'
    <2> DEFINE counted == KeptIn(seen, Key, From(GlobalStart))
    <2>1. /\ GlobalCount = Cardinality(counted)
          /\ \A m \in counted : seen[m].at - GlobalStart < WindowMs
          /\ Cardinality(KeptIn(seen, Key, Behind(GlobalStart))) <= GlobalMaxPerWindow
      BY OverallIsTrue
    <2>2. /\ now \in From(GlobalStart) /\ now \notin Behind(GlobalStart)
          /\ now - GlobalStart < WindowMs
      BY <1>3, <1>4, LimitsAssumption DEF From, Behind, Stale
    <2>3. /\ KeptIn(seen', Key, From(GlobalStart)) = counted \cup {last}
          /\ Cardinality(KeptIn(seen', Key, From(GlobalStart))) = Cardinality(counted) + 1
      BY <1>1, <1>2, <1>3, <2>2, OneMore DEF last
    <2>4. KeptIn(seen', Key, Behind(GlobalStart)) = KeptIn(seen, Key, Behind(GlobalStart))
      BY <1>1, <1>2, <1>3, <2>2, OneMore
    <2>5. \A m \in counted \cup {last} : seen'[m].at - GlobalStart < WindowMs
      BY <1>1, <1>2, <1>10, <2>1, <2>2
    <2>6. GlobalCount + 1 <= GlobalMaxPerWindow
      BY <1>4, <1>6, LimitsAssumption
    <2> QED
      BY <1>6, <2>1, <2>3, <2>4, <2>5, <2>6 DEF AllAreCounted
  <1> QED
    BY <1>1, <1>12, <1>13, <1>14 DEF Counts

LEMMA CountsStep == Inv /\ Counts /\ [Next]_vars => Counts'
  <1> SUFFICES ASSUME Inv, Counts, [Next]_vars PROVE Counts'
    OBVIOUS
  <1>1. CASE Tick
    BY <1>1, TickCounts
  <1>2. ASSUME NEW k \in Key, BeforeSend(k) PROVE Counts'
    BY <1>2, KeepCounts, DropCounts DEF BeforeSend
  <1>3. CASE UNCHANGED vars
    BY <1>3 DEF vars, Counts, NoneAhead, BucketsCount, OthersAreQuiet, AllAreCounted
  <1> QED
    BY <1>1, <1>2, <1>3 DEF Next

THEOREM CountsCorrect == Spec => []Counts
  BY InvCorrect, CountsInitially, CountsStep, PTL DEF Spec

-----------------------------------------------------------------------------
(* KeptBefore of any log; and of the last event in it.                     *)
KeptUpTo(log, n, K) ==
  {m \in 1 .. n : /\ log[m].kept /\ log[m].key \in K
                  /\ log[n].at - log[m].at < WindowMs}

(* What was kept before an event does not change when more come, and the   *)
(* span that ends with the last event is the one that ends now.            *)
LEMMA LastIsJudged ==
  ASSUME Inv, Counts, NEW k \in Key, NEW kept \in BOOLEAN, Reported(k, kept), now' = now
  PROVE  /\ DOMAIN seen' = DOMAIN seen \cup {Len(seen) + 1}
         /\ \A n \in DOMAIN seen : seen'[n] = seen[n]
         /\ seen'[Len(seen) + 1].key = k /\ seen'[Len(seen) + 1].kept = kept
         /\ \A n \in DOMAIN seen : \A K : KeptUpTo(seen', n, K) = KeptUpTo(seen, n, K)
         /\ \A K : KeptUpTo(seen', Len(seen) + 1, K) = KeptIn(seen', K, Span(now))
  <1> DEFINE e == [key |-> k, at |-> now, kept |-> kept]
             last == Len(seen) + 1
  <1>1. seen \in Seq(Report) /\ now \in Nat /\ Len(seen) \in Nat
    BY DEF Inv, TypeOK
  <1>2. /\ DOMAIN seen' = DOMAIN seen \cup {last}
        /\ \A m \in DOMAIN seen : seen'[m] = seen[m]
        /\ seen'[last] = e
    BY ReportedIsLast, now' = now, Zenon
  <1>3. e.key = k /\ e.kept = kept /\ e.at = now
    OBVIOUS
  <1>4. DOMAIN seen = 1 .. Len(seen) /\ DOMAIN seen' = 1 .. last
    BY <1>1, <1>2
  <1>5. \A m \in DOMAIN seen' : seen'[m].at \in Nat
    <2>1. seen' \in Seq(Report)
      BY ReportedIsTyped
    <2> QED
      BY <2>1, Reports
  <1> HIDE DEF e
  <1>6. \A n \in DOMAIN seen : \A K : KeptUpTo(seen', n, K) = KeptUpTo(seen, n, K)
    <2> SUFFICES ASSUME NEW n \in DOMAIN seen, NEW K
                 PROVE  KeptUpTo(seen', n, K) = KeptUpTo(seen, n, K)
      OBVIOUS
    <2>1. \A m \in 1 .. n : seen'[m] = seen[m]
      BY <1>1, <1>2, <1>4
    <2>2. seen'[n] = seen[n]
      BY <1>2
    <2> QED
      BY <2>1, <2>2 DEF KeptUpTo
  <1>7. \A K : KeptUpTo(seen', last, K) = KeptIn(seen', K, Span(now))
    <2>1. seen'[last].at = now
      BY <1>2, <1>3
    <2> QED
      BY <1>4, <1>5, <2>1 DEF KeptUpTo, KeptIn, Span
  <1> QED
    BY <1>2, <1>3, <1>6, <1>7

(* In the span that ends now a key whose window is open has had what its   *)
(* bucket counts, and less than twice its limit; all keys together have    *)
(* had at most twice theirs; and as no two open buckets were opened by one *)
(* event, there are no more of those.                                      *)
SpansAreBounded ==
  /\ \A k \in DOMAIN buckets :
       ~Stale(buckets[k].windowStart) =>
         LET spanned == Cardinality(KeptIn(seen, {k}, Span(now)))
         IN  buckets[k].count <= spanned /\ spanned < 2 * MaxPerWindow
  /\ LET spanned == Cardinality(KeptIn(seen, Key, Span(now)))
     IN  /\ spanned <= 2 * GlobalMaxPerWindow
         /\ ~Stale(globalWindowStart) => globalCount <= spanned
  /\ Cardinality({k \in DOMAIN buckets : ~Stale(buckets[k].windowStart)})
       <= 2 * GlobalMaxPerWindow

LEMMA SpansBounded == Inv /\ Counts => SpansAreBounded
  <1> SUFFICES ASSUME Inv, Counts PROVE SpansAreBounded
    OBVIOUS
  <1>0. /\ seen \in Seq(Report) /\ now \in Nat /\ globalWindowStart \in Nat
        /\ globalWindowStart <= now
        /\ \A m \in DOMAIN seen : seen[m].at \in Nat
    BY Reports DEF Inv, TypeOK, Past
  <1>1. ASSUME NEW k \in DOMAIN buckets, ~Stale(buckets[k].windowStart)
        PROVE  LET spanned == Cardinality(KeptIn(seen, {k}, Span(now)))
               IN  buckets[k].count <= spanned /\ spanned < 2 * MaxPerWindow
    <2> DEFINE start == buckets[k].windowStart
               counted == Cardinality(KeptIn(seen, {k}, From(start)))
               behind == Cardinality(KeptIn(seen, {k}, Behind(start)))
               spanned == Cardinality(KeptIn(seen, {k}, Span(now)))
    <2>1. start \in Nat /\ start <= now /\ now - start < WindowMs
      <3>1. buckets[k] \in BucketState /\ start <= now
        BY DEF Inv, TypeOK, Past
      <3> QED
        BY <1>0, <1>1, <3>1, LimitsAssumption DEF BucketState, Stale
    <2>2. buckets[k].count = counted /\ counted <= MaxPerWindow /\ behind < MaxPerWindow
      BY DEF Counts, BucketsCount
    <2> HIDE DEF start
    <2>3. /\ spanned <= counted + behind /\ counted <= spanned
          /\ spanned \in Nat /\ counted \in Nat /\ behind \in Nat
      BY <1>0, <2>1, SpanSplits
    <2> HIDE DEF counted, behind, spanned
    <2>4. buckets[k].count <= spanned /\ spanned < 2 * MaxPerWindow
      BY <2>2, <2>3, LimitsAssumption
    <2> QED
      BY <2>4 DEF spanned
  <1>2. LET spanned == Cardinality(KeptIn(seen, Key, Span(now)))
        IN  /\ spanned <= 2 * GlobalMaxPerWindow
            /\ ~Stale(globalWindowStart) => globalCount <= spanned
    <2> DEFINE counted == Cardinality(KeptIn(seen, Key, From(GlobalStart)))
               behind == Cardinality(KeptIn(seen, Key, Behind(GlobalStart)))
               spanned == Cardinality(KeptIn(seen, Key, Span(now)))
    <2>1. GlobalStart \in Nat /\ GlobalStart <= now /\ now - GlobalStart < WindowMs
      BY <1>0, LimitsAssumption DEF GlobalStart, Stale
    <2>2. /\ GlobalCount = counted /\ counted <= GlobalMaxPerWindow
          /\ behind <= GlobalMaxPerWindow
      BY OverallIsTrue
    <2>3. /\ spanned <= counted + behind /\ counted <= spanned
          /\ spanned \in Nat /\ counted \in Nat /\ behind \in Nat
      BY <1>0, <2>1, SpanSplits
    <2> HIDE DEF counted, behind, spanned
    <2>4. spanned <= 2 * GlobalMaxPerWindow /\ GlobalCount <= spanned
      BY <2>2, <2>3, LimitsAssumption
    <2> QED
      BY <2>4 DEF spanned, GlobalCount
  <1>3. Cardinality({k \in DOMAIN buckets : ~Stale(buckets[k].windowStart)})
          <= 2 * GlobalMaxPerWindow
    <2> DEFINE open == {k \in DOMAIN buckets : ~Stale(buckets[k].windowStart)}
               spanned == KeptIn(seen, Key, Span(now))
               opening == [k \in open |-> CHOOSE m \in spanned : seen[m].key = k]
    <2>1. \A k \in open : \E m \in spanned : seen[m].key = k
      <3> SUFFICES ASSUME NEW k \in open PROVE \E m \in spanned : seen[m].key = k
        OBVIOUS
      <3> DEFINE counted == KeptIn(seen, {k}, From(buckets[k].windowStart))
      <3>1. PICK m \in counted : seen[m].at = buckets[k].windowStart
        BY DEF Counts, BucketsCount
      <3>2. m \in spanned /\ seen[m].key = k
        BY <1>0, <3>1, LimitsAssumption DEF KeptIn, From, Span, Stale, Inv, TypeOK
      <3> QED
        BY <3>2
    <2>2. \A k \in open : opening[k] \in spanned /\ seen[opening[k]].key = k
      BY <2>1
    <2>3. opening \in Injection(open, spanned)
      <3>1. opening \in [open -> spanned]
        BY <2>2
      <3> HIDE DEF opening, open, spanned
      <3>2. \A j, k \in open : opening[j] = opening[k] => j = k
        BY <2>2
      <3> QED
        BY <3>1, <3>2 DEF Injection, IsInjective
    <2>4. IsFiniteSet(spanned) /\ Cardinality(spanned) \in Nat
      <3>1. spanned \subseteq DOMAIN seen
        BY DEF KeptIn
      <3> HIDE DEF spanned
      <3> QED
        BY <1>0, <3>1, EventsAreFinite
    <2> HIDE DEF opening, open, spanned
    <2>5. IsFiniteSet(open) /\ Cardinality(open) <= Cardinality(spanned)
      BY <2>3, <2>4, FS_Injection
    <2>6. Cardinality(open) \in Nat
      BY <2>5, FS_CardinalityType
    <2>7. Cardinality(open) <= 2 * GlobalMaxPerWindow
      BY <1>2, <2>4, <2>5, <2>6, LimitsAssumption DEF spanned
    <2> QED
      BY <2>7 DEF open
  <1> QED
    BY <1>1, <1>2, <1>3 DEF SpansAreBounded

(* What the last event was let through or dropped behind.                  *)
LEMMA LastIsWithinLimits ==
  ASSUME Inv, Counts, SpansAreBounded', NEW k \in Key, NEW kept \in BOOLEAN, now' = now,
         kept => Keep(k), ~kept => DropOverall(k) \/ DropKey(k)
  PROVE  LET ofKey == Cardinality(KeptIn(seen', {k}, Span(now)))
             ofAll == Cardinality(KeptIn(seen', Key, Span(now)))
         IN  IF kept
             THEN ofKey < 2 * MaxPerWindow /\ ofAll <= 2 * GlobalMaxPerWindow
             ELSE ofKey >= MaxPerWindow \/ ofAll >= GlobalMaxPerWindow
  <1> DEFINE ofKey == Cardinality(KeptIn(seen', {k}, Span(now)))
             ofAll == Cardinality(KeptIn(seen', Key, Span(now)))
  <1>0. \A start : Stale(start)' <=> Stale(start)
    BY now' = now DEF Stale
  <1>1. /\ k \in DOMAIN buckets' /\ ~Stale(buckets'[k].windowStart) =>
             buckets'[k].count <= ofKey /\ ofKey < 2 * MaxPerWindow
        /\ ofAll <= 2 * GlobalMaxPerWindow
        /\ ~Stale(globalWindowStart') => globalCount' <= ofAll
    BY now' = now DEF SpansAreBounded, Stale
  <1>2. /\ BucketFor(k) \in BucketState /\ ~Stale(BucketFor(k).windowStart)
        /\ ~Stale(GlobalStart) /\ GlobalCount \in Nat
    BY BucketForKey
  <1>3. CASE kept
    <2> DEFINE charged == [BucketFor(k) EXCEPT !.count = @ + 1]
               placed == With(k, charged)
    <2>1. charged \in BucketState /\ ~Stale(charged.windowStart)
      BY <1>2 DEF BucketState
    <2> HIDE DEF charged
    <2>2. /\ k \in DOMAIN placed /\ placed[k] = charged
          /\ placed \in [DOMAIN placed -> BucketState]
      BY <2>1, WithBucket
    <2>3. buckets' = Pruned(placed)
      BY <1>3 DEF Keep, placed, charged
    <2> HIDE DEF placed
    <2>4. k \in DOMAIN buckets' /\ ~Stale(buckets'[k].windowStart)
      BY <2>1, <2>2, <2>3, PrunedBuckets
    <2> QED
      BY <1>1, <1>3, <2>4
  <1>4. CASE ~kept /\ DropOverall(k)
    <2>1. /\ globalCount' >= GlobalMaxPerWindow /\ ~Stale(globalWindowStart')
          /\ globalCount' \in Nat
      BY <1>2, <1>4 DEF DropOverall
    <2>2. ofAll \in Nat
      <3>1. seen' \in Seq(Report)
        BY <1>4, ReportedIsTyped DEF DropOverall
      <3>2. KeptIn(seen', Key, Span(now)) \subseteq DOMAIN seen'
        BY DEF KeptIn
      <3> QED
        BY <3>1, <3>2, EventsAreFinite
    <2> HIDE DEF ofKey, ofAll
    <2>3. ofAll >= GlobalMaxPerWindow
      BY <1>1, <2>1, <2>2, LimitsAssumption
    <2> QED
      BY <1>4, <2>3 DEF ofAll
  <1>5. CASE ~kept /\ DropKey(k)
    <2>1. buckets' = buckets
      BY <1>5, DropLeavesBuckets
    <2>2. k \in DOMAIN buckets /\ BucketFor(k) = buckets[k] /\ buckets[k].count >= MaxPerWindow
      BY <1>5, LimitsAssumption DEF DropKey, BucketFor, Refreshed
    <2>3. ofKey \in Nat
      <3>1. seen' \in Seq(Report)
        BY <1>5, ReportedIsTyped DEF DropKey
      <3>2. KeptIn(seen', {k}, Span(now)) \subseteq DOMAIN seen'
        BY DEF KeptIn
      <3> QED
        BY <3>1, <3>2, EventsAreFinite
    <2>4. buckets[k].count <= ofKey /\ buckets[k].count \in Nat
      BY <1>1, <1>2, <2>1, <2>2 DEF BucketState
    <2> HIDE DEF ofKey, ofAll
    <2>5. ofKey >= MaxPerWindow
      BY <2>2, <2>3, <2>4, LimitsAssumption
    <2> QED
      BY <1>5, <2>5 DEF ofKey
  <1> QED
    BY <1>3, <1>4, <1>5

LEMMA LastKeepsLimits ==
  ASSUME Inv, Counts, SpansAreBounded', KeepsToLimits, now' = now, NEW k \in Key,
         NEW kept \in BOOLEAN, Reported(k, kept),
         kept => Keep(k), ~kept => DropOverall(k) \/ DropKey(k)
  PROVE  KeepsToLimits'
  <1> DEFINE last == Len(seen) + 1
  <1>1. /\ DOMAIN seen' = DOMAIN seen \cup {last}
        /\ \A n \in DOMAIN seen : seen'[n] = seen[n]
        /\ seen'[last].key = k /\ seen'[last].kept = kept
        /\ \A n \in DOMAIN seen : \A K : KeptUpTo(seen', n, K) = KeptUpTo(seen, n, K)
        /\ \A K : KeptUpTo(seen', last, K) = KeptIn(seen', K, Span(now))
    BY now' = now, LastIsJudged
  <1>2. LET ofKey == Cardinality(KeptIn(seen', {k}, Span(now)))
            ofAll == Cardinality(KeptIn(seen', Key, Span(now)))
        IN  IF kept
            THEN ofKey < 2 * MaxPerWindow /\ ofAll <= 2 * GlobalMaxPerWindow
            ELSE ofKey >= MaxPerWindow \/ ofAll >= GlobalMaxPerWindow
    BY now' = now, LastIsWithinLimits
  <1>3. ASSUME NEW n \in DOMAIN seen'
        PROVE  LET ofKey == Cardinality(KeptUpTo(seen', n, {seen'[n].key}))
                   ofAll == Cardinality(KeptUpTo(seen', n, Key))
               IN  IF seen'[n].kept
                   THEN ofKey < 2 * MaxPerWindow /\ ofAll <= 2 * GlobalMaxPerWindow
                   ELSE ofKey >= MaxPerWindow \/ ofAll >= GlobalMaxPerWindow
    <2>1. CASE n \in DOMAIN seen
      <3>1. LET ofKey == Cardinality(KeptUpTo(seen, n, {seen[n].key}))
                ofAll == Cardinality(KeptUpTo(seen, n, Key))
            IN  IF seen[n].kept
                THEN ofKey < 2 * MaxPerWindow /\ ofAll <= 2 * GlobalMaxPerWindow
                ELSE ofKey >= MaxPerWindow \/ ofAll >= GlobalMaxPerWindow
        BY <2>1 DEF KeepsToLimits, KeptBefore, KeptUpTo
      <3> QED
        BY <1>1, <2>1, <3>1
    <2>2. CASE n = last
      BY <1>1, <1>2, <2>2
    <2> QED
      BY <1>1, <1>3, <2>1, <2>2
  <1> QED
    BY <1>3 DEF KeepsToLimits, KeptBefore, KeptUpTo

LEMMA LimitsStep ==
  Inv /\ Counts /\ SpansAreBounded' /\ KeepsToLimits /\ [Next]_vars => KeepsToLimits'
  <1> SUFFICES ASSUME Inv, Counts, SpansAreBounded', KeepsToLimits, [Next]_vars
               PROVE  KeepsToLimits'
    OBVIOUS
  <1>1. CASE Tick
    BY <1>1 DEF Tick, KeepsToLimits, KeptBefore
  <1>2. ASSUME NEW k \in Key, BeforeSend(k) PROVE KeepsToLimits'
    <2>1. now' = now
      BY <1>2 DEF BeforeSend
    <2>2. CASE Keep(k)
      <3>1. Reported(k, TRUE)
        BY <2>2 DEF Keep
      <3> QED
        BY <2>1, <2>2, <3>1, LastKeepsLimits
    <2>3. CASE DropOverall(k) \/ DropKey(k)
      <3>1. Reported(k, FALSE)
        BY <2>3 DEF DropOverall, DropKey
      <3> QED
        BY <2>1, <2>3, <3>1, LastKeepsLimits
    <2> QED
      BY <1>2, <2>2, <2>3 DEF BeforeSend
  <1>3. CASE UNCHANGED vars
    BY <1>3 DEF vars, KeepsToLimits, KeptBefore
  <1> QED
    BY <1>1, <1>2, <1>3 DEF Next

(* However the events come and the windows fall, createEventRateLimiter    *)
(* lets fewer than two limits' worth of one key through in any span as     *)
(* long as a window, no more than two limits' worth of all keys, and drops *)
(* an event only behind as many as a window lets through.                  *)
THEOREM LimitsAreKept == Spec => []KeepsToLimits
  <1>1. Init => KeepsToLimits
    BY DEF Init, KeepsToLimits
  <1> QED
    BY <1>1, InvCorrect, CountsCorrect, SpansBounded, LimitsStep, PTL DEF Spec

-----------------------------------------------------------------------------
LEMMA MapStep ==
  Inv /\ SpansAreBounded' /\ MapIsBounded /\ [Next]_vars => MapIsBounded'
  <1> SUFFICES ASSUME Inv, SpansAreBounded', MapIsBounded, [Next]_vars
               PROVE  MapIsBounded'
    OBVIOUS
  <1>1. CASE Tick
    BY <1>1 DEF Tick, MapIsBounded
  <1>2. ASSUME NEW k \in Key, BeforeSend(k) PROVE MapIsBounded'
    <2>1. now' = now
      BY <1>2 DEF BeforeSend
    <2>2. CASE Keep(k)
      <3> DEFINE placed == With(k, [BucketFor(k) EXCEPT !.count = @ + 1])
                 open == {j \in DOMAIN placed : ~Stale(placed[j].windowStart)}
      <3>1. buckets' = Pruned(placed)
        BY <2>2 DEF Keep
      <3> HIDE DEF placed
      <3>2. CASE Cardinality(DOMAIN placed) <= MaxKeyCount
        BY <3>1, <3>2 DEF Pruned, MapIsBounded
      <3>3. CASE ~(Cardinality(DOMAIN placed) <= MaxKeyCount)
        <4>1. buckets' = [j \in open |-> placed[j]]
          BY <3>1, <3>3 DEF Pruned
        <4>2. DOMAIN buckets' = {j \in DOMAIN buckets' : ~Stale(buckets'[j].windowStart)}
          BY <4>1
        <4>3. Cardinality({j \in DOMAIN buckets' : ~Stale(buckets'[j].windowStart)})
                <= 2 * GlobalMaxPerWindow
          BY <2>1 DEF SpansAreBounded, Stale
        <4> QED
          BY <4>2, <4>3 DEF MapIsBounded
      <3> QED
        BY <3>2, <3>3
    <2>3. CASE DropOverall(k) \/ DropKey(k)
      BY <2>3, DropLeavesBuckets DEF MapIsBounded
    <2> QED
      BY <1>2, <2>2, <2>3 DEF BeforeSend
  <1>3. CASE UNCHANGED vars
    BY <1>3 DEF vars, MapIsBounded
  <1> QED
    BY <1>1, <1>2, <1>3 DEF Next

(* However many keys are ever seen, the limiter's map holds no more than   *)
(* MAX_KEY_COUNT of them, or what two overall windows let through.         *)
THEOREM MapStaysBounded == Spec => []MapIsBounded
  <1>1. Init => MapIsBounded
    BY FS_EmptySet, LimitsAssumption DEF Init, MapIsBounded
  <1> QED
    BY <1>1, InvCorrect, CountsCorrect, SpansBounded, MapStep, PTL DEF Spec
=============================================================================
