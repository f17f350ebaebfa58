------------------------ MODULE RateLimiter_proofs ------------------------
(***************************************************************************)
(* Theorems about RateLimiter for every limit, window, cap and clock.      *)
(***************************************************************************)
EXTENDS RateLimiter, FiniteSetTheorems, SequenceTheorems, TLAPS

-----------------------------------------------------------------------------
(* Types                                                                    *)

\* The bucket rate_limit_check works on, and the map it leaves.
LEMMA BucketFacts ==
  ASSUME TypeOK, NEW k \in Keys, NEW t \in Boot .. now
  PROVE  /\ Bucket(k, t).count \in 0 .. kRateLimitMax
         /\ Bucket(k, t).window_start_unix \in Boot .. now
         /\ Bucket(k, t) \in BucketType
BY RateAssumption DEF TypeOK, Bucket, BucketType, RateBucket, Expired

LEMMA SweptFacts ==
  ASSUME NEW k, NEW t
  PROVE  /\ DOMAIN Swept(k, t) \subseteq DOMAIN buckets
         /\ \A x \in DOMAIN Swept(k, t) : Swept(k, t)[x] = buckets[x]
         /\ \A x \in DOMAIN buckets : x \in DOMAIN Swept(k, t) \/ Expired(buckets[x], t)
         /\ k \in DOMAIN buckets => DOMAIN Swept(k, t) = DOMAIN buckets
BY DEF Swept, Sweep

\* The call a pending handler makes.
LEMMA CallFacts ==
  ASSUME TypeOK, NEW c \in Callers, asked[c] # NoCall
  PROVE  asked[c].key \in Keys /\ asked[c].t \in Boot .. now
BY DEF TypeOK, CallType

LEMMA TypeInit == Init => TypeOK
BY RateAssumption DEF Init, TypeOK

LEMMA PutTypes ==
  ASSUME TypeOK, NEW k \in Keys, NEW t, NEW b \in BucketType, Put(k, t, b)
  PROVE  DOMAIN buckets' \subseteq Keys /\ \A x \in DOMAIN buckets' : buckets'[x] \in BucketType
BY SweptFacts DEF TypeOK, Put

LEMMA CheckTypes ==
  ASSUME TypeOK, NEW c \in Callers, Check(c)
  PROVE  TypeOK'
<1> DEFINE k == asked[c].key
           t == asked[c].t
           b == Bucket(k, t)
<1>1. asked[c] # NoCall /\ Return(c)
  BY DEF Check, Deny, Trip, Admit
<1>2. k \in Keys /\ t \in Boot .. now
  BY <1>1, CallFacts
<1>3. b \in BucketType /\ b.count \in 0 .. kRateLimitMax
  BY <1>2, BucketFacts
<1>4. now' = now /\ restarts' = restarts /\ asked' \in [Callers -> CallType \union {NoCall}]
  BY <1>1 DEF Return, TypeOK
<1>5. BucketType' = BucketType /\ CallType' = CallType
  BY <1>4 DEF BucketType, CallType
<1> HIDE DEF k, t, b
<1>6. DOMAIN buckets' \subseteq Keys /\ \A x \in DOMAIN buckets' : buckets'[x] \in BucketType
  <2>1. CASE Deny(c)
    BY <2>1, SweptFacts DEF Deny, TypeOK
  <2>2. CASE Trip(c)
    BY <2>2, <1>2, <1>3, PutTypes DEF Trip, k, t, b
  <2>3. CASE Admit(c)
    <3>1. [b EXCEPT !.count = @ + 1] \in BucketType
      BY <2>3, <1>3, RateAssumption DEF Admit, BucketType, k, t, b
    <3> QED BY <2>3, <3>1, <1>2, PutTypes DEF Admit, k, t, b
  <2> QED BY <2>1, <2>2, <2>3 DEF Check
<1>7. admitted' \in [Keys -> Seq(Boot .. now)]
  <2>1. CASE Admit(c)
    <3>1. now \in Boot .. now /\ admitted[k] \in Seq(Boot .. now)
      BY <1>2 DEF TypeOK
    <3>2. Append(admitted[k], now) \in Seq(Boot .. now)
      BY <3>1
    <3>3. admitted' = [admitted EXCEPT ![k] = Append(admitted[k], now)]
      BY <2>1 DEF Admit, k
    <3> QED BY <3>2, <3>3 DEF TypeOK
  <2> QED BY <2>1 DEF Check, Deny, Trip, TypeOK
<1> QED BY <1>4, <1>5, <1>6, <1>7 DEF TypeOK

LEMMA TypeNext == TypeOK /\ [Next]_vars => TypeOK'
<1> SUFFICES ASSUME TypeOK, [Next]_vars PROVE TypeOK'
  OBVIOUS
<1>1. ASSUME NEW c \in Callers, Enter(c) PROVE TypeOK'
  BY <1>1 DEF Enter, TypeOK, BucketType, CallType
<1>2. ASSUME NEW c \in Callers, Check(c) PROVE TypeOK'
  BY <1>2, CheckTypes
<1>3. CASE Tick
  <2>1. Boot .. now \subseteq Boot .. now'
    BY <1>3 DEF Tick, TypeOK
  <2>2. BucketType \subseteq BucketType' /\ CallType \subseteq CallType'
    BY <2>1 DEF BucketType, CallType
  <2>3. \A s \in Seq(Boot .. now) : s \in Seq(Boot .. now')
    BY <2>1, SeqMonotonic
  <2>4. admitted' \in [Keys -> Seq(Boot .. now')]
    BY <1>3, <2>3 DEF Tick, TypeOK
  <2>5. DOMAIN buckets' \subseteq Keys /\ \A k \in DOMAIN buckets' : buckets'[k] \in BucketType'
    BY <1>3, <2>2 DEF Tick, TypeOK
  <2>6. asked' \in [Callers -> CallType' \union {NoCall}]
    BY <1>3, <2>2 DEF Tick, TypeOK
  <2>7. now' \in Nat /\ now' >= Boot /\ restarts' \in Nat
    BY <1>3, RateAssumption DEF Tick, TypeOK
  <2> QED BY <2>4, <2>5, <2>6, <2>7 DEF TypeOK
<1>4. CASE Restart
  BY <1>4 DEF Restart, TypeOK, CallType
<1>5. CASE UNCHANGED vars
  BY <1>5 DEF vars, TypeOK, BucketType, CallType
<1> QED BY <1>1, <1>2, <1>3, <1>4, <1>5 DEF Next

\* No bucket counts past the limit or starts in the future.
THEOREM TypeCorrect == Spec => []TypeOK
BY TypeInit, TypeNext, PTL DEF Spec

-----------------------------------------------------------------------------
(* The map is bounded                                                       *)

Bounded == IsFiniteSet(DOMAIN buckets) /\ MapBounded

LEMMA PutBounded ==
  ASSUME TypeOK, Bounded, NEW k \in Keys, NEW t, NEW b, ~Saturated(k, t), Put(k, t, b)
  PROVE  Bounded'
<1> DEFINE D == DOMAIN Swept(k, t)
<1>1. IsFiniteSet(D) /\ Cardinality(D) <= Cardinality(DOMAIN buckets)
  BY SweptFacts, FS_Subset DEF Bounded
<1>2. DOMAIN buckets' = D \union {k}
  BY DEF Put
<1>3. CASE k \in DOMAIN buckets
  <2>1. DOMAIN buckets' = DOMAIN buckets
    BY <1>2, <1>3, SweptFacts
  <2> QED BY <2>1 DEF Bounded, MapBounded
<1>4. CASE k \notin DOMAIN buckets
  <2>1. k \notin D /\ ~(Cardinality(D) >= kMaxRateBuckets)
    BY <1>4, SweptFacts DEF Saturated
  <2>2. Cardinality(D) \in Nat
    BY <1>1, FS_CardinalityType
  <2>3. IsFiniteSet(D \union {k}) /\ Cardinality(D \union {k}) = Cardinality(D) + 1
    BY <1>1, <2>1, FS_AddElement
  <2>4. Cardinality(D) + 1 <= kMaxRateBuckets
    BY <2>1, <2>2, RateAssumption
  <2> QED BY <1>2, <2>3, <2>4 DEF Bounded, MapBounded
<1> QED BY <1>3, <1>4

LEMMA BoundedNext == TypeOK /\ Bounded /\ [Next]_vars => Bounded'
<1> SUFFICES ASSUME TypeOK, Bounded, [Next]_vars PROVE Bounded'
  OBVIOUS
<1>1. ASSUME NEW c \in Callers, Deny(c) PROVE Bounded'
  <2> DEFINE D == DOMAIN Swept(asked[c].key, asked[c].t)
  <2>1. DOMAIN buckets' = D
    BY <1>1 DEF Deny
  <2>2. IsFiniteSet(D) /\ Cardinality(D) <= Cardinality(DOMAIN buckets)
    BY SweptFacts, FS_Subset DEF Bounded
  <2>3. Cardinality(D) \in Nat /\ Cardinality(DOMAIN buckets) \in Nat
    BY <2>2, FS_CardinalityType DEF Bounded
  <2>4. Cardinality(D) <= kMaxRateBuckets
    BY <2>2, <2>3, RateAssumption DEF Bounded, MapBounded
  <2> QED BY <2>1, <2>2, <2>4 DEF Bounded, MapBounded
<1>2. ASSUME NEW c \in Callers, Trip(c) \/ Admit(c) PROVE Bounded'
  <2>1. asked[c].key \in Keys
    BY <1>2, CallFacts DEF Trip, Admit
  <2> QED BY <1>2, <2>1, PutBounded DEF Trip, Admit
<1>3. CASE Restart
  <2>1. DOMAIN buckets' = {}
    BY <1>3 DEF Restart
  <2> QED BY <2>1, FS_EmptySet, RateAssumption DEF Bounded, MapBounded
<1>4. ASSUME buckets' = buckets PROVE Bounded'
  BY <1>4 DEF Bounded, MapBounded
<1> QED BY <1>1, <1>2, <1>3, <1>4 DEF Next, Check, Enter, Tick, vars

\* Whatever emails are tried, the map of buckets stays within its cap.
THEOREM MapStaysBounded == Spec => []MapBounded
<1>1. Init => Bounded
  <2>1. Init => DOMAIN buckets = {}
    BY DEF Init
  <2> QED BY <2>1, FS_EmptySet, RateAssumption DEF Bounded, MapBounded
<1>2. Bounded => MapBounded
  BY DEF Bounded
<1> QED BY <1>1, <1>2, BoundedNext, TypeCorrect, PTL DEF Spec

-----------------------------------------------------------------------------
(* No early pardon                                                          *)

LEMMA PardonStep ==
  ASSUME TypeOK, [Next]_vars, restarts' = restarts,
         NEW x \in DOMAIN buckets, ~Expired(buckets[x], now)
  PROVE  x \in DOMAIN buckets' /\ buckets'[x].count >= buckets[x].count
<1>1. buckets[x] \in BucketType
  BY DEF TypeOK
<1>2. ASSUME NEW t \in Boot .. now PROVE ~Expired(buckets[x], t)
  BY <1>1, RateAssumption DEF TypeOK, Expired, BucketType
<1>3. ASSUME NEW k, NEW t \in Boot .. now
      PROVE  x \in DOMAIN Swept(k, t) /\ Swept(k, t)[x] = buckets[x]
  BY <1>2, SweptFacts
<1>4. ASSUME NEW c \in Callers, Check(c)
      PROVE  x \in DOMAIN buckets' /\ buckets'[x].count >= buckets[x].count
  <2> DEFINE k == asked[c].key
             t == asked[c].t
  <2>1. k \in Keys /\ t \in Boot .. now
    BY <1>4, CallFacts DEF Check, Deny, Trip, Admit
  <2>2. x \in DOMAIN Swept(k, t) /\ Swept(k, t)[x] = buckets[x]
    BY <1>3, <2>1
  <2>3. x = k => Bucket(k, t) = buckets[x]
    BY <1>2, <2>1 DEF Bucket
  <2>4. buckets[x].count \in Nat
    BY <1>1 DEF BucketType
  <2> HIDE DEF k, t
  <2>5. CASE Deny(c)
    BY <2>2, <2>4, <2>5 DEF Deny, k, t
  <2>6. ASSUME NEW b, Put(k, t, b), b.count >= Bucket(k, t).count
        PROVE  x \in DOMAIN buckets' /\ buckets'[x].count >= buckets[x].count
    BY <2>2, <2>3, <2>4, <2>6 DEF Put
  <2>7. CASE Trip(c)
    <3>1. Bucket(k, t).count \in Nat
      BY <2>1, BucketFacts
    <3> QED BY <2>6, <2>7, <3>1 DEF Trip, k, t
  <2>8. CASE Admit(c)
    <3>1. Bucket(k, t) \in BucketType
      BY <2>1, BucketFacts
    <3>2. [Bucket(k, t) EXCEPT !.count = @ + 1].count >= Bucket(k, t).count
      BY <3>1 DEF BucketType
    <3> QED BY <2>6, <2>8, <3>2 DEF Admit, k, t
  <2> QED BY <1>4, <2>5, <2>7, <2>8 DEF Check
<1>5. ~Restart
  BY DEF Restart, TypeOK
<1>6. ASSUME buckets' = buckets
      PROVE  x \in DOMAIN buckets' /\ buckets'[x].count >= buckets[x].count
  BY <1>1, <1>6 DEF BucketType
<1> QED BY <1>4, <1>5, <1>6 DEF Next, Enter, Tick, vars

\* As long as the server runs no bucket loses an attempt before its window is
\* over, even with calls that carry old times.
THEOREM AttemptsAreKept == Spec => NoEarlyPardon
<1>1. TypeOK /\ [Next]_vars =>
        [restarts' = restarts =>
           \A k \in DOMAIN buckets :
             ~Expired(buckets[k], now)
               => k \in DOMAIN buckets' /\ buckets'[k].count >= buckets[k].count]_vars
  BY PardonStep
<1> QED BY <1>1, TypeCorrect, PTL DEF Spec, NoEarlyPardon

-----------------------------------------------------------------------------
(* The rate of admissions                                                   *)

\* No handler that is about to call carries a time older than the longest stall.
Recent ==
  \A c \in Callers : asked[c] # NoCall => now - asked[c].t <= MaxStall

\* The earliest time at which the bucket after the p-th one since base can start:
\* each takes its shortest window, but for those that a restart cut short.
Turn(base, p) == base + (p - restarts) * ShortestWindow

\* The len admissions of k since base are those of P full buckets, the last of which
\* may be the one in the map.
PacedBy(P, k, base, len) ==
  IF k \in DOMAIN buckets
  THEN /\ P >= 1
       /\ len <= kRateLimitMax * (P - 1) + buckets[k].count
       /\ Turn(base, P - 1) <= now
       /\ Turn(base, P - 1) <= buckets[k].window_start_unix + MaxStall
  ELSE /\ len <= kRateLimitMax * P
       /\ Turn(base, P) <= now

Paced(k, base, len) == \E P \in Nat : PacedBy(P, k, base, len)

\* The admissions after the i-th are of its own bucket, and then paced from its time.
InBucket(k, i) == k \in DOMAIN buckets /\ Len(admitted[k]) - i <= buckets[k].count - 1

PacedFrom(k, i) ==
  InBucket(k, i) \/ Paced(k, admitted[k][i], Len(admitted[k]) - i - (kRateLimitMax - 1))

Sorted ==
  \A k \in Keys : \A i, j \in 1 .. Len(admitted[k]) :
    i <= j => admitted[k][i] <= admitted[k][j]

\* SlidingBound with any distance: it stays so when a restart makes bursts longer.
Apart ==
  \A k \in Keys : \A i, j \in 1 .. Len(admitted[k]) :
    j - i >= (2 + restarts) * kRateLimitMax
      => admitted[k][j] - admitted[k][i] >= ShortestWindow

RateInv ==
  /\ Recent
  /\ ShortestWindow > 0 =>
       \A k \in Keys :
         /\ Paced(k, Boot, Len(admitted[k]))
         /\ \A i \in 1 .. Len(admitted[k]) : PacedFrom(k, i)
  /\ Sorted
  /\ Apart

LEMMA OneMore ==
  ASSUME NEW a \in Int, NEW b \in Int
  PROVE  (a + 1) * b = a * b + b /\ a * b \in Int
OBVIOUS

LEMMA Parameters ==
  /\ kRateLimitMax \in Nat /\ kRateLimitMax >= 1
  /\ ShortestWindow \in Int /\ kRateLimitWindowSecs = ShortestWindow + MaxStall
  /\ MaxStall \in Nat /\ Boot \in Nat
BY RateAssumption DEF ShortestWindow

\* What one call does to the bucket of any key, and to its history.
Same(k) ==
  /\ k \in DOMAIN buckets <=> k \in DOMAIN buckets'
  /\ k \in DOMAIN buckets => buckets'[k] = buckets[k]
  /\ admitted'[k] = admitted[k]

Evicted(k, t) ==
  /\ k \in DOMAIN buckets /\ Expired(buckets[k], t) /\ k \notin DOMAIN buckets'
  /\ admitted'[k] = admitted[k]

Counted(k) ==
  /\ k \in DOMAIN buckets /\ k \in DOMAIN buckets'
  /\ buckets'[k].count = buckets[k].count + 1
  /\ buckets'[k].window_start_unix = buckets[k].window_start_unix
  /\ admitted'[k] = Append(admitted[k], now)

Started(k, t) ==
  /\ k \in DOMAIN buckets => Expired(buckets[k], t)
  /\ k \in DOMAIN buckets'
  /\ buckets'[k].count = 1 /\ buckets'[k].window_start_unix = t
  /\ admitted'[k] = Append(admitted[k], now)

Turns(k, t) == Same(k) \/ Evicted(k, t) \/ Counted(k) \/ Started(k, t)

LEMMA CheckTurns ==
  ASSUME TypeOK, NEW c \in Callers, Check(c), NEW x \in Keys
  PROVE  Turns(x, asked[c].t)
<1> DEFINE k == asked[c].key
           t == asked[c].t
           b == Bucket(k, t)
<1>1. k \in Keys /\ t \in Boot .. now
  BY CallFacts DEF Check, Deny, Trip, Admit
<1>2. b \in BucketType
  BY <1>1, BucketFacts
<1>3. k \in DOMAIN buckets /\ ~Expired(buckets[k], t) => b = buckets[k]
  BY DEF Bucket
<1>4. ~(k \in DOMAIN buckets /\ ~Expired(buckets[k], t)) => b.count = 0 /\ b.window_start_unix = t
  BY <1>1, RateAssumption DEF Bucket, Expired, RateBucket
<1>5. /\ DOMAIN Swept(k, t) \subseteq DOMAIN buckets
      /\ \A y \in DOMAIN Swept(k, t) : Swept(k, t)[y] = buckets[y]
      /\ \A y \in DOMAIN buckets : y \in DOMAIN Swept(k, t) \/ Expired(buckets[y], t)
      /\ k \in DOMAIN buckets => DOMAIN Swept(k, t) = DOMAIN buckets
  BY SweptFacts
<1> HIDE DEF k, t, b
<1>6. CASE Deny(c)
  <2>1. buckets' = Swept(k, t) /\ admitted' = admitted
    BY <1>6 DEF Deny, k, t
  <2> QED BY <1>5, <2>1 DEF Turns, Same, Evicted, t
<1>7. CASE Trip(c)
  <2>1. /\ buckets' = [y \in DOMAIN Swept(k, t) \union {k} |-> IF y = k THEN b ELSE Swept(k, t)[y]]
        /\ b.count >= kRateLimitMax /\ admitted' = admitted
    BY <1>7 DEF Trip, Put, k, t, b
  <2>2. k \in DOMAIN buckets /\ b = buckets[k]
    BY <2>1, <1>3, <1>4, Parameters
  <2> QED BY <1>5, <2>1, <2>2 DEF Turns, Same, Evicted, t
<1>8. CASE Admit(c)
  <2> DEFINE b1 == [b EXCEPT !.count = @ + 1]
  <2>1. /\ buckets' = [y \in DOMAIN Swept(k, t) \union {k} |-> IF y = k THEN b1 ELSE Swept(k, t)[y]]
        /\ admitted' = [admitted EXCEPT ![k] = Append(@, now)]
    BY <1>8 DEF Admit, Put, k, t, b
  <2>2. b1.count = b.count + 1 /\ b1.window_start_unix = b.window_start_unix
    BY <1>2 DEF BucketType
  <2> HIDE DEF b1
  <2>3. DOMAIN admitted = Keys
    BY DEF TypeOK
  <2>4. CASE x # k
    BY <1>5, <2>1, <2>3, <2>4 DEF Turns, Same, Evicted, t
  <2>5. CASE x = k /\ k \in DOMAIN buckets /\ ~Expired(buckets[k], t)
    BY <1>3, <2>1, <2>2, <2>3, <2>5 DEF Turns, Counted
  <2>6. CASE x = k /\ ~(k \in DOMAIN buckets /\ ~Expired(buckets[k], t))
    BY <1>4, <2>1, <2>2, <2>3, <2>6 DEF Turns, Started, t
  <2> QED BY <2>4, <2>5, <2>6
<1> QED BY <1>6, <1>7, <1>8 DEF Check

\* One call keeps a key's pace, counting what it lets through.
LEMMA PaceKept ==
  ASSUME TypeOK, TypeOK', NEW k \in Keys, NEW t \in Boot .. now, now - t <= MaxStall, Turns(k, t),
         now' = now, restarts' = restarts, NEW base \in Int, NEW len \in Int, Paced(k, base, len),
         NEW more, more = Len(admitted'[k]) - Len(admitted[k])
  PROVE  Paced(k, base, len + more)'
<1>1. PICK P \in Nat : PacedBy(P, k, base, len)
  BY DEF Paced
<1>2. /\ now \in Int /\ restarts \in Int /\ admitted[k] \in Seq(Boot .. now)
  BY DEF TypeOK
<1>3. k \in DOMAIN buckets => /\ buckets[k].count \in Int /\ buckets[k].count <= kRateLimitMax
                              /\ buckets[k].window_start_unix \in Int
  BY Parameters DEF TypeOK, BucketType
<1>4. /\ Turn(base, P)' = Turn(base, P) /\ Turn(base, P - 1)' = Turn(base, P - 1)
      /\ Turn(base, P) \in Int /\ Turn(base, P - 1) \in Int
      /\ Turn(base, P) = Turn(base, P - 1) + ShortestWindow
  <2>1. (P - restarts) * ShortestWindow = (P - 1 - restarts) * ShortestWindow + ShortestWindow
    BY <1>2, OneMore, Parameters
  <2> DEFINE upto == (P - restarts) * ShortestWindow
             before == (P - 1 - restarts) * ShortestWindow
  <2>2. upto \in Int /\ before \in Int
    BY <1>2, OneMore, Parameters DEF ShortestWindow
  <2>3. /\ Turn(base, P) = base + upto /\ Turn(base, P - 1) = base + before
        /\ Turn(base, P)' = base + upto /\ Turn(base, P - 1)' = base + before
    BY DEF Turn
  <2> HIDE DEF upto, before
  <2>4. upto = before + ShortestWindow /\ ShortestWindow \in Int
    BY <2>1, Parameters DEF upto, before, ShortestWindow
  <2> QED BY <2>2, <2>3, <2>4
<1>5. /\ kRateLimitMax * P \in Int /\ kRateLimitMax * (P - 1) \in Int
      /\ kRateLimitMax * P = kRateLimitMax * (P - 1) + kRateLimitMax
  BY OneMore, Parameters
<1>6. Turn(base, P + 1 - 1)' = Turn(base, P)
  BY <1>4
<1>7. ASSUME k \in DOMAIN buckets, Expired(buckets[k], t)
      PROVE  Turn(base, P) <= now /\ len <= kRateLimitMax * P
  <2>1. /\ len <= kRateLimitMax * (P - 1) + buckets[k].count
        /\ Turn(base, P - 1) <= buckets[k].window_start_unix + MaxStall
    BY <1>1, <1>7 DEF PacedBy
  <2>2. t \in Int /\ t <= now /\ t - buckets[k].window_start_unix >= kRateLimitWindowSecs
    <3>1. t - buckets[k].window_start_unix >= kRateLimitWindowSecs
      BY <1>7 DEF Expired
    <3>2. t \in Int /\ t <= now
      BY <1>2, Parameters
    <3> QED BY <3>1, <3>2
  <2>3. Turn(base, P) <= now
    <3> DEFINE w == buckets[k].window_start_unix
               turn == Turn(base, P - 1)
    <3>1. /\ w \in Int /\ turn \in Int /\ turn <= w + MaxStall
          /\ t - w >= kRateLimitWindowSecs /\ Turn(base, P) = turn + ShortestWindow
      BY <1>3, <1>4, <1>7, <2>1, <2>2
    <3> HIDE DEF w, turn
    <3>2. turn + ShortestWindow <= now
      BY <1>2, <2>2, <3>1, Parameters
    <3> QED BY <3>1, <3>2
  <2> DEFINE before == kRateLimitMax * (P - 1)
             upto == kRateLimitMax * P
  <2>4. before \in Int /\ upto = before + kRateLimitMax /\ len <= before + buckets[k].count
    BY <1>5, <2>1
  <2> HIDE DEF before, upto
  <2>5. len <= upto
    BY <1>3, <1>7, <2>4, Parameters
  <2> QED BY <2>3, <2>5 DEF upto
<1>8. CASE Same(k)
  <2>1. more = 0
    BY <1>2, <1>8 DEF Same
  <2> QED BY <1>1, <1>4, <1>8, <2>1 DEF Same, Paced, PacedBy
<1>9. CASE Evicted(k, t)
  <2>1. more = 0
    BY <1>2, <1>9 DEF Evicted
  <2> QED BY <1>4, <1>7, <1>9, <2>1 DEF Evicted, Paced, PacedBy
<1>10. CASE Counted(k)
  <2>1. more = 1
    BY <1>2, <1>10 DEF Counted
  <2> QED BY <1>1, <1>3, <1>4, <1>5, <1>10, <2>1 DEF Counted, Paced, PacedBy
<1>11. CASE Started(k, t)
  <2>1. more = 1
    BY <1>2, <1>11 DEF Started
  <2>2. Turn(base, P) <= now /\ len <= kRateLimitMax * P
    BY <1>1, <1>7, <1>11 DEF Started, PacedBy
  <2>3. /\ P + 1 >= 1 /\ Turn(base, P + 1 - 1)' <= now'
        /\ Turn(base, P + 1 - 1)' <= buckets'[k].window_start_unix + MaxStall
    <3>1. P + 1 >= 1
      OBVIOUS
    <3>2. buckets'[k].window_start_unix = t
      BY <1>11 DEF Started
    <3>3. now <= t + MaxStall
      <4>1. now \in Int /\ t \in Int /\ MaxStall \in Int /\ now - t <= MaxStall
        BY <1>2, Parameters
      <4> QED BY <4>1
    <3> DEFINE turn == Turn(base, P)
    <3>4. turn \in Int /\ turn <= now /\ Turn(base, P + 1 - 1)' = turn
      BY <1>4, <1>6, <2>2
    <3> HIDE DEF turn
    <3>5. turn <= t + MaxStall
      <4>1. now \in Int /\ t + MaxStall \in Int
        BY <1>2, Parameters
      <4> QED BY <3>3, <3>4, <4>1
    <3> QED BY <3>1, <3>2, <3>4, <3>5
  <2>4. P + 1 - 1 = P
    OBVIOUS
  <2>5. len + more <= kRateLimitMax * (P + 1 - 1) + buckets'[k].count
    BY <1>5, <1>11, <2>1, <2>2, <2>4 DEF Started
  <2>6. PacedBy(P + 1, k, base, len + more)'
    BY <1>11, <2>3, <2>5 DEF Started, PacedBy
  <2> QED BY <2>6, P + 1 \in Nat DEF Paced, PacedBy
<1> QED BY <1>8, <1>9, <1>10, <1>11 DEF Turns

LEMMA Times ==
  /\ \A a, b \in Int : \A c \in Nat : a <= b => a * c <= b * c
  /\ \A a, b \in Int : a * b \in Int /\ a * b = b * a
OBVIOUS

LEMMA Quotient ==
  ASSUME NEW a \in Nat, NEW b \in Nat, b > 0, NEW q \in Int, q * b <= a
  PROVE  a \div b \in Nat /\ q <= a \div b
<1> DEFINE d == a \div b
<1>1. d \in Nat /\ a < (d + 1) * b
  OBVIOUS
<1> HIDE DEF d
<1>2. CASE q >= d + 1
  <2>1. (d + 1) * b <= q * b
    BY <1>1, <1>2, Times
  <2>2. (d + 1) * b \in Int /\ q * b \in Int
    BY <1>1, Times
  <2> QED BY <1>1, <2>1, <2>2
<1>3. CASE ~(q >= d + 1)
  BY <1>1, <1>3 DEF d
<1> QED BY <1>2, <1>3

\* No turn is later than the time that it counts from while there is none yet.
LEMMA NoTurnYet ==
  ASSUME TypeOK, ShortestWindow > 0, NEW base \in Int
  PROVE  Turn(base, 0) \in Int /\ Turn(base, 0) <= base
<1>1. restarts \in Nat
  BY DEF TypeOK
<1>2. (0 - restarts) * ShortestWindow <= 0 * ShortestWindow
  BY <1>1, Times, Parameters
<1>3. (0 - restarts) * ShortestWindow \in Int /\ 0 * ShortestWindow = 0
  BY <1>1, Times, Parameters
<1> QED BY <1>2, <1>3 DEF Turn

LEMMA TickPaces ==
  ASSUME TypeOK, Tick, NEW k \in Keys, NEW base \in Int, NEW len \in Int, Paced(k, base, len)
  PROVE  Paced(k, base, len)'
<1>1. PICK P \in Nat : PacedBy(P, k, base, len)
  BY DEF Paced
<1>2. /\ buckets' = buckets /\ restarts' = restarts
      /\ now \in Int /\ now' = now + 1 /\ restarts \in Int
  BY DEF Tick, TypeOK
<1>3. /\ Turn(base, P)' = Turn(base, P) /\ Turn(base, P - 1)' = Turn(base, P - 1)
      /\ Turn(base, P) \in Int /\ Turn(base, P - 1) \in Int
  BY <1>2, Times, Parameters DEF Turn, ShortestWindow
<1>4. PacedBy(P, k, base, len)'
  BY <1>1, <1>2, <1>3 DEF PacedBy
<1> QED BY <1>4 DEF Paced

LEMMA RestartPaces ==
  ASSUME TypeOK, ShortestWindow > 0, Restart, NEW k \in Keys,
         NEW base \in Int, NEW len \in Int, Paced(k, base, len)
  PROVE  Paced(k, base, len)'
<1>1. PICK P \in Nat : PacedBy(P, k, base, len)
  BY DEF Paced
<1>2. /\ k \notin DOMAIN buckets' /\ restarts' = restarts + 1
      /\ now \in Int /\ now' = now /\ restarts \in Int
  BY DEF Restart, TypeOK
<1>3. k \in DOMAIN buckets => buckets[k].count \in Int /\ buckets[k].count <= kRateLimitMax
  BY Parameters DEF TypeOK, BucketType
<1>4. /\ Turn(base, P)' = Turn(base, P - 1)
      /\ Turn(base, P - 1) \in Int /\ Turn(base, P) \in Int
      /\ Turn(base, P) = Turn(base, P - 1) + ShortestWindow
  <2>1. (P - restarts) * ShortestWindow = (P - 1 - restarts) * ShortestWindow + ShortestWindow
    BY <1>2, OneMore, Parameters
  <2>2. P - (restarts + 1) = P - 1 - restarts
    BY <1>2
  <2> QED BY <1>2, <2>1, <2>2, OneMore, Parameters DEF Turn, ShortestWindow
<1>5. Turn(base, P)' <= now'
  BY <1>1, <1>2, <1>4, Parameters DEF PacedBy
<1>6. len <= kRateLimitMax * P
  <2> DEFINE before == kRateLimitMax * (P - 1)
             upto == kRateLimitMax * P
  <2>1. before \in Int /\ upto = before + kRateLimitMax
    BY OneMore, Parameters
  <2>2. IF k \in DOMAIN buckets THEN len <= before + buckets[k].count ELSE len <= upto
    BY <1>1 DEF PacedBy
  <2> HIDE DEF before, upto
  <2>3. len <= upto
    BY <1>3, <2>1, <2>2, Parameters
  <2> QED BY <2>3 DEF upto
<1>7. PacedBy(P, k, base, len)'
  BY <1>2, <1>5, <1>6 DEF PacedBy
<1> QED BY <1>7 DEF Paced

LEMMA HistoryFacts ==
  ASSUME TypeOK, NEW k \in Keys
  PROVE  /\ admitted[k] \in Seq(Boot .. now) /\ Len(admitted[k]) \in Nat
         /\ \A i \in 1 .. Len(admitted[k]) :
              admitted[k][i] \in Int /\ admitted[k][i] <= now /\ Boot <= admitted[k][i]
BY Parameters DEF TypeOK

\* When its bucket goes, what follows an admission is behind no turn yet.
LEMMA BucketIsOver ==
  ASSUME TypeOK, ShortestWindow > 0, NEW k \in Keys, NEW i \in 1 .. Len(admitted[k]),
         InBucket(k, i)
  PROVE  /\ Len(admitted[k]) - i - (kRateLimitMax - 1) <= kRateLimitMax * 0
         /\ Turn(admitted[k][i], 0) <= now
<1>1. /\ buckets[k].count \in Int /\ buckets[k].count <= kRateLimitMax
      /\ Len(admitted[k]) - i <= buckets[k].count - 1
  BY Parameters DEF TypeOK, BucketType, InBucket
<1>2. kRateLimitMax * 0 = 0
  BY Parameters
<1>3. Turn(admitted[k][i], 0) \in Int /\ Turn(admitted[k][i], 0) <= admitted[k][i]
  BY HistoryFacts, NoTurnYet
<1>4. now \in Int /\ Len(admitted[k]) \in Int /\ admitted[k][i] \in Int /\ admitted[k][i] <= now
  BY HistoryFacts DEF TypeOK
<1>5. Len(admitted[k]) - i - (kRateLimitMax - 1) <= 0
  BY <1>1, <1>4, Parameters
<1> DEFINE turn == Turn(admitted[k][i], 0)
           len == Len(admitted[k]) - i - (kRateLimitMax - 1)
<1>6. turn \in Int /\ turn <= admitted[k][i] /\ len <= 0
  BY <1>3, <1>5
<1> HIDE DEF turn, len
<1>7. turn <= now
  BY <1>4, <1>6
<1> QED BY <1>2, <1>6, <1>7 DEF turn, len

\* One call keeps the pace after an admission that was made before.
LEMMA FollowersPaced ==
  ASSUME TypeOK, TypeOK', ShortestWindow > 0, NEW k \in Keys, NEW t \in Boot .. now,
         now - t <= MaxStall, Turns(k, t), now' = now, restarts' = restarts,
         NEW i \in 1 .. Len(admitted[k]), PacedFrom(k, i)
  PROVE  PacedFrom(k, i)'
<1> DEFINE more == Len(admitted'[k]) - Len(admitted[k])
           len == Len(admitted[k]) - i - (kRateLimitMax - 1)
<1>1. /\ admitted[k] \in Seq(Boot .. now) /\ Len(admitted[k]) \in Nat
      /\ admitted[k][i] \in Int /\ now \in Int
  BY HistoryFacts DEF TypeOK
<1>2. admitted'[k][i] = admitted[k][i] /\ len \in Int
  <2>1. len \in Int
    <3>1. /\ Len(admitted[k]) \in Int /\ i \in Int /\ kRateLimitMax \in Int
          /\ \A a, j, m \in Int : a - j - (m - 1) \in Int
      BY <1>1, Parameters
    <3> QED BY <3>1
  <2>2. \/ admitted'[k] = admitted[k]
        \/ admitted'[k] = Append(admitted[k], now)
    BY DEF Turns, Same, Evicted, Counted, Started
  <2>3. Append(admitted[k], now)[i] = admitted[k][i]
    BY <1>1
  <2> HIDE DEF len
  <2> QED BY <2>1, <2>2, <2>3
<1>3. Len(admitted'[k]) - i - (kRateLimitMax - 1) = len + more /\ len + more \in Int
  <2>1. Len(admitted'[k]) \in Nat
    <3>1. admitted'[k] \in Seq(Boot .. now')
      BY DEF TypeOK
    <3> QED BY <3>1
  <2>2. /\ kRateLimitMax \in Int /\ i \in Int
        /\ Len(admitted[k]) \in Int /\ Len(admitted'[k]) \in Int
    BY <1>1, <2>1, Parameters
  <2>3. \A a, b, m, j \in Int :
          b - j - (m - 1) = (a - j - (m - 1)) + (b - a) /\ (a - j - (m - 1)) + (b - a) \in Int
    OBVIOUS
  <2> QED BY <2>2, <2>3
<1>4. CASE Paced(k, admitted[k][i], len)
  <2>0. more \in Int
    <3>1. admitted'[k] \in Seq(Boot .. now')
      BY DEF TypeOK
    <3>2. Len(admitted'[k]) \in Int /\ Len(admitted[k]) \in Int
      BY <1>1, <3>1
    <3>3. \A a, b \in Int : a - b \in Int
      OBVIOUS
    <3> QED BY <3>2, <3>3
  <2>1. PICK base \in Int, l \in Int, m \in Int : base = admitted[k][i] /\ l = len /\ m = more
    <3> HIDE DEF len, more
    <3> QED BY <1>1, <1>2, <2>0
  <2>2. Paced(k, base, l)
    BY <1>4, <2>1
  <2>3. m = Len(admitted'[k]) - Len(admitted[k])
    BY <2>1
  <2>4. Paced(k, base, l + m)'
    BY <2>2, <2>3, PaceKept
  <2>5. base = admitted'[k][i] /\ l + m = Len(admitted'[k]) - i - (kRateLimitMax - 1)
    BY <1>2, <1>3, <2>1
  <2> QED BY <2>4, <2>5 DEF PacedFrom, Paced, PacedBy, Turn
<1>5. CASE InBucket(k, i)
  <2>1. /\ k \in DOMAIN buckets /\ len <= kRateLimitMax * 0 /\ Turn(admitted[k][i], 0) <= now
        /\ Turn(admitted[k][i], 0) \in Int /\ buckets[k].count \in Int
    <3>1. k \in DOMAIN buckets /\ buckets[k].count \in Int
      BY <1>5 DEF InBucket, TypeOK, BucketType
    <3>2. /\ len <= kRateLimitMax * 0 /\ Turn(admitted[k][i], 0) <= now
      BY <1>5, BucketIsOver
    <3>3. Turn(admitted[k][i], 0) \in Int
      BY <1>1, NoTurnYet
    <3> QED BY <3>1, <3>2, <3>3
  <2>2. /\ Turn(admitted[k][i], 0)' = Turn(admitted[k][i], 0)
        /\ Turn(admitted[k][i], 1 - 1)' = Turn(admitted[k][i], 0)
    BY <1>2 DEF Turn, ShortestWindow
  <2>3. CASE Same(k)
    BY <1>5, <2>3 DEF Same, InBucket, PacedFrom
  <2>4. CASE Counted(k)
    <3>1. Len(admitted'[k]) = Len(admitted[k]) + 1
      BY <1>1, <2>4 DEF Counted
    <3>2. k \in DOMAIN buckets' /\ buckets'[k].count = buckets[k].count + 1
      BY <2>4 DEF Counted
    <3>3. Len(admitted[k]) - i <= buckets[k].count - 1
      BY <1>5 DEF InBucket
    <3>4. /\ Len(admitted[k]) \in Int /\ i \in Int /\ buckets[k].count \in Int
          /\ \A a, b, j \in Int : a - j <= b - 1 => (a + 1) - j <= (b + 1) - 1
      BY <1>1, <2>1
    <3>5. Len(admitted'[k]) - i <= buckets'[k].count - 1
      BY <3>1, <3>2, <3>3, <3>4
    <3> QED BY <3>2, <3>5 DEF InBucket, PacedFrom
  <2>5. CASE Evicted(k, t)
    <3>1. admitted'[k] = admitted[k] /\ k \notin DOMAIN buckets'
      BY <2>5 DEF Evicted
    <3>2. PacedBy(0, k, admitted[k][i], len)'
      BY <2>1, <2>2, <3>1 DEF PacedBy
    <3> QED BY <3>2 DEF Paced, PacedFrom
  <2>6. CASE Started(k, t)
    <3>1. /\ k \in DOMAIN buckets' /\ buckets'[k].count = 1
          /\ buckets'[k].window_start_unix = t /\ more = 1
      BY <1>1, <2>6 DEF Started
    <3>2. len + more <= kRateLimitMax * 0 + 1
      <4> HIDE DEF len, more
      <4>1. kRateLimitMax * 0 = 0
        BY Parameters
      <4> QED BY <1>2, <2>1, <3>1, <4>1
    <3>3. Turn(admitted[k][i], 0) <= t + MaxStall
      BY <1>1, <2>1, Parameters
    <3>4. 1 - 1 = 0 /\ 1 >= 1
      OBVIOUS
    <3>5. PacedBy(1, k, admitted[k][i], Len(admitted[k]) - i - (kRateLimitMax - 1))'
      BY <1>3, <2>1, <2>2, <3>1, <3>2, <3>3, <3>4 DEF PacedBy
    <3> QED BY <3>5 DEF Paced, PacedFrom
  <2> QED BY <2>3, <2>4, <2>5, <2>6 DEF Turns
<1> QED BY <1>4, <1>5 DEF PacedFrom

\* An admission is of the bucket that counts it.
LEMMA LastIsInBucket ==
  ASSUME TypeOK, NEW k \in Keys, NEW t, Counted(k) \/ Started(k, t),
         NEW j, j = Len(admitted[k]) + 1
  PROVE  InBucket(k, j)' /\ Len(admitted'[k]) = j /\ admitted'[k][j] = now
<1>1. admitted[k] \in Seq(Boot .. now) /\ Len(admitted[k]) \in Nat
  BY HistoryFacts
<1>2. k \in DOMAIN buckets => buckets[k].count \in Nat
  BY DEF TypeOK, BucketType
<1>3. admitted'[k] = Append(admitted[k], now)
  BY DEF Counted, Started
<1>4. Len(admitted'[k]) = j /\ admitted'[k][j] = now
  BY <1>1, <1>3
<1>5. k \in DOMAIN buckets' /\ buckets'[k].count \in Int /\ buckets'[k].count >= 1
  BY <1>2 DEF Counted, Started
<1> QED BY <1>1, <1>4, <1>5 DEF InBucket

\* An admission that far from an earlier one has two bucket starts in between that
\* no restart came between.
LEMMA LastIsApart ==
  ASSUME TypeOK, ShortestWindow > 0, NEW k \in Keys,
         NEW i \in 1 .. Len(admitted[k]), PacedFrom(k, i), k \in DOMAIN buckets,
         Len(admitted[k]) - i >= (2 + restarts) * kRateLimitMax
  PROVE  now - admitted[k][i] >= ShortestWindow
<1> DEFINE n == Len(admitted[k])
           full == (2 + restarts) * kRateLimitMax
           turn == Turn(admitted[k][i], 1 + restarts)
<1>1. /\ n \in Int /\ restarts \in Nat /\ now \in Int /\ admitted[k][i] \in Int
      /\ buckets[k].count \in Int /\ buckets[k].count <= kRateLimitMax
  BY HistoryFacts, Parameters DEF TypeOK, BucketType
<1>2. full \in Int /\ full >= 2 * kRateLimitMax
  <2>1. 2 <= 2 + restarts /\ 2 + restarts \in Int
    BY <1>1
  <2> QED BY <1>1, <2>1, Times, Parameters
<1>3. ~InBucket(k, i)
  <2> HIDE DEF full
  <2> QED BY <1>1, <1>2, Parameters DEF InBucket
<1>4. PICK P \in Nat : PacedBy(P, k, admitted[k][i], n - i - (kRateLimitMax - 1))
  BY <1>3 DEF PacedFrom, Paced
<1>5. P >= 2 + restarts
  <2> DEFINE q == kRateLimitMax * (P - 1)
             p == P * kRateLimitMax
  <2>1. n - i - (kRateLimitMax - 1) <= q + buckets[k].count
    BY <1>4 DEF PacedBy
  <2>2. q \in Int /\ p \in Int /\ p = q + kRateLimitMax
    BY OneMore, Times, Parameters
  <2>3. P <= 1 + restarts => p <= (1 + restarts) * kRateLimitMax
    BY <1>1, Times, Parameters
  <2>4. /\ (1 + restarts) * kRateLimitMax \in Int
        /\ full = (1 + restarts) * kRateLimitMax + kRateLimitMax
    <3>1. 2 + restarts = (1 + restarts) + 1
      BY <1>1
    <3> QED BY <1>1, <3>1, OneMore, Parameters
  <2>5. n - i >= full
    OBVIOUS
  <2> HIDE DEF q, p, full, n
  <2> QED BY <1>1, <2>1, <2>2, <2>3, <2>4, <2>5, Parameters
<1>6. Turn(admitted[k][i], P - 1) <= now
  BY <1>4 DEF PacedBy
<1>7. Turn(admitted[k][i], P - 1) \in Int /\ turn <= Turn(admitted[k][i], P - 1)
  <2>1. 1 <= P - 1 - restarts /\ P - 1 - restarts \in Int
    BY <1>1, <1>5
  <2>2. /\ 1 * ShortestWindow <= (P - 1 - restarts) * ShortestWindow
        /\ 1 * ShortestWindow \in Int /\ (P - 1 - restarts) * ShortestWindow \in Int
    BY <2>1, Times, Parameters
  <2>3. 1 + restarts - restarts = 1
    BY <1>1
  <2> QED BY <1>1, <2>2, <2>3 DEF Turn
<1>8. turn = admitted[k][i] + ShortestWindow
  <2> DEFINE one == 1 + restarts - restarts
  <2>1. one = 1 /\ turn = admitted[k][i] + one * ShortestWindow
    BY <1>1 DEF Turn
  <2> HIDE DEF one, turn
  <2> QED BY <2>1, Parameters
<1> QED BY <1>1, <1>6, <1>7, <1>8, Parameters

LastsApart ==
  TypeOK /\ ShortestWindow > 0 =>
    \A k \in Keys : \A i \in 1 .. Len(admitted[k]) :
      /\ PacedFrom(k, i) /\ k \in DOMAIN buckets
      /\ Len(admitted[k]) - i >= (2 + restarts) * kRateLimitMax
      => now - admitted[k][i] >= ShortestWindow

LEMMA LastsAreApart == LastsApart
BY LastIsApart DEF LastsApart

LEMMA InvInit == Init => RateInv
<1> SUFFICES ASSUME Init PROVE RateInv
  OBVIOUS
<1>1. TypeOK /\ now = Boot /\ restarts = 0 /\ buckets = <<>>
  BY TypeInit DEF Init
<1>2. \A k \in Keys : admitted[k] = <<>> /\ Len(admitted[k]) = 0
  BY DEF Init
<1>3. ASSUME NEW k \in Keys, ShortestWindow > 0 PROVE Paced(k, Boot, Len(admitted[k]))
  <2>1. PacedBy(0, k, Boot, 0)
    BY <1>1, <1>3, NoTurnYet, Parameters DEF PacedBy
  <2> QED BY <1>2, <2>1 DEF Paced
<1>4. Recent /\ Sorted /\ Apart
  BY <1>2 DEF Init, Recent, Sorted, Apart
<1> QED BY <1>2, <1>3, <1>4 DEF RateInv

LEMMA InvCheck ==
  ASSUME TypeOK, TypeOK', RateInv, NEW c \in Callers, Check(c)
  PROVE  RateInv'
<1> DEFINE t == asked[c].t
<1>1. /\ now' = now /\ restarts' = restarts /\ asked' = [asked EXCEPT ![c] = NoCall]
      /\ asked[c] # NoCall
  BY DEF Check, Deny, Trip, Admit, Return
<1>2. t \in Boot .. now /\ now - t <= MaxStall
  BY <1>1, CallFacts DEF RateInv, Recent
<1>3. Recent'
  BY <1>1 DEF RateInv, Recent, TypeOK
<1>4. ASSUME NEW k \in Keys PROVE Turns(k, t)
  BY CheckTurns
<1> HIDE DEF t
<1>5. ASSUME NEW k \in Keys
      PROVE  \/ admitted'[k] = admitted[k]
             \/ \E j : /\ j = Len(admitted[k]) + 1
                      /\ InBucket(k, j)' /\ Len(admitted'[k]) = j /\ admitted'[k][j] = now
                      /\ \A i \in 1 .. Len(admitted[k]) : admitted'[k][i] = admitted[k][i]
  <2>1. CASE Same(k) \/ Evicted(k, t)
    BY <2>1 DEF Same, Evicted
  <2>2. CASE Counted(k) \/ Started(k, t)
    <3>1. admitted'[k] = Append(admitted[k], now)
      BY <2>2 DEF Counted, Started
    <3> QED BY <2>2, <3>1, LastIsInBucket, HistoryFacts
  <2> QED BY <1>4, <2>1, <2>2 DEF Turns
<1>6. ASSUME NEW k \in Keys, ShortestWindow > 0 PROVE Paced(k, Boot, Len(admitted[k]))'
  <2>1. Len(admitted'[k]) \in Int /\ Len(admitted[k]) \in Int
    BY <1>5, HistoryFacts
  <2>2. PICK l \in Int, m \in Int : l = Len(admitted[k]) /\ m = Len(admitted'[k]) - Len(admitted[k])
    <3>1. \A a, b \in Int : a - b \in Int
      OBVIOUS
    <3>2. Len(admitted'[k]) - Len(admitted[k]) \in Int
      BY <2>1, <3>1
    <3> QED BY <2>1, <3>2
  <2>3. Paced(k, Boot, l)
    BY <1>6, <2>2 DEF RateInv
  <2>4. Boot \in Int /\ m = Len(admitted'[k]) - Len(admitted[k])
    BY <2>2, Parameters
  <2>5. Paced(k, Boot, l + m)'
    BY <1>1, <1>2, <1>4, <2>3, <2>4, PaceKept
  <2>6. l + m = Len(admitted'[k])
    BY <2>1, <2>2
  <2> QED BY <2>5, <2>6 DEF Paced, PacedBy, Turn
<1>7. ASSUME NEW k \in Keys, NEW i \in 1 .. Len(admitted'[k]), ShortestWindow > 0
      PROVE  PacedFrom(k, i)'
  <2>1. CASE i \in 1 .. Len(admitted[k])
    BY <1>1, <1>2, <1>4, <1>7, <2>1, FollowersPaced DEF RateInv
  <2>2. CASE i \notin 1 .. Len(admitted[k])
    <3>1. InBucket(k, i)'
      <4>1. PICK j : j = Len(admitted[k]) + 1 /\ InBucket(k, j)' /\ Len(admitted'[k]) = j
        BY <1>5, <2>2
      <4>2. i = j
        BY <2>2, <4>1, HistoryFacts
      <4> QED BY <4>1, <4>2
    <3> QED BY <3>1 DEF PacedFrom
  <2> QED BY <2>1, <2>2
<1>8. Sorted'
  <2> SUFFICES ASSUME NEW k \in Keys, NEW i \in 1 .. Len(admitted'[k]),
                      NEW j \in 1 .. Len(admitted'[k]), i <= j
               PROVE  admitted'[k][i] <= admitted'[k][j]
    BY DEF Sorted
  <2>1. CASE admitted'[k] = admitted[k]
    BY <2>1 DEF RateInv, Sorted
  <2>2. CASE /\ Len(admitted'[k]) = Len(admitted[k]) + 1
             /\ admitted'[k][Len(admitted[k]) + 1] = now
             /\ \A y \in 1 .. Len(admitted[k]) : admitted'[k][y] = admitted[k][y]
    <3>1. CASE j \in 1 .. Len(admitted[k])
      <4>1. i \in 1 .. Len(admitted[k])
        BY <3>1
      <4> QED BY <2>2, <3>1, <4>1 DEF RateInv, Sorted
    <3>2. CASE j \notin 1 .. Len(admitted[k])
      <4>1. j = Len(admitted[k]) + 1 /\ now \in Int
        BY <2>2, <3>2, HistoryFacts DEF TypeOK
      <4>2. CASE i \in 1 .. Len(admitted[k])
        BY <2>2, <4>1, <4>2, HistoryFacts
      <4>3. CASE i \notin 1 .. Len(admitted[k])
        <5>1. i = j
          BY <2>2, <4>1, <4>3, HistoryFacts
        <5> QED BY <2>2, <4>1, <5>1
      <4> QED BY <4>2, <4>3
    <3> QED BY <3>1, <3>2
  <2> QED BY <1>5, <2>1, <2>2
<1>9. Apart'
  <2> SUFFICES ASSUME NEW k \in Keys, NEW i \in 1 .. Len(admitted'[k]),
                      NEW j \in 1 .. Len(admitted'[k]),
                      j - i >= (2 + restarts') * kRateLimitMax
               PROVE  admitted'[k][j] - admitted'[k][i] >= ShortestWindow
    BY DEF Apart
  <2>1. CASE j \in 1 .. Len(admitted[k])
    <3>1. (2 + restarts) * kRateLimitMax \in Int /\ 0 <= (2 + restarts) * kRateLimitMax
      <4>1. restarts \in Nat
        BY DEF TypeOK
      <4> QED BY <4>1, Times, Parameters
    <3>2. i \in 1 .. Len(admitted[k])
      BY <1>1, <2>1, <3>1, HistoryFacts
    <3> QED BY <1>1, <1>5, <2>1, <3>2 DEF RateInv, Apart
  <2>2. CASE j \notin 1 .. Len(admitted[k])
    <3>1. j = Len(admitted'[k]) /\ k \in DOMAIN buckets' /\ admitted'[k][j] = now'
      BY <1>1, <1>5, <2>2, HistoryFacts DEF InBucket
    <3>2. CASE ShortestWindow > 0
      <4>1. LastsApart'
        BY LastsAreApart, PTL
      <4> QED BY <1>7, <3>1, <3>2, <4>1 DEF LastsApart
    <3>3. CASE ~(ShortestWindow > 0)
      <4>1. admitted'[k][i] <= now' /\ admitted'[k][i] \in Int /\ now' \in Int
        BY Parameters DEF TypeOK
      <4> QED BY <3>1, <3>3, <4>1, Parameters
    <3> QED BY <3>2, <3>3
  <2> QED BY <2>1, <2>2
<1> QED BY <1>3, <1>6, <1>7, <1>8, <1>9 DEF RateInv

LEMMA InvNext == TypeOK /\ TypeOK' /\ RateInv /\ [Next]_vars => RateInv'
<1> SUFFICES ASSUME TypeOK, TypeOK', RateInv, [Next]_vars PROVE RateInv'
  OBVIOUS
<1>1. ASSUME NEW c \in Callers, Check(c) PROVE RateInv'
  BY <1>1, InvCheck
<1>2. CASE /\ UNCHANGED <<buckets, now, restarts, admitted>>
           /\ \A c \in Callers : asked'[c] # NoCall => asked'[c] = asked[c] \/ asked'[c].t = now
  <2>1. Recent'
    BY <1>2, Parameters DEF RateInv, Recent, TypeOK
  <2> QED BY <1>2, <2>1
      DEF RateInv, Paced, PacedBy, PacedFrom, InBucket, Turn, Sorted, Apart
<1>3. ASSUME NEW c \in Callers, Enter(c) PROVE RateInv'
  BY <1>2, <1>3 DEF Enter, TypeOK, NoCall
<1>4. CASE Tick
  <2>1. UNCHANGED <<buckets, restarts, admitted, asked>> /\ now' = now + 1
    BY <1>4 DEF Tick
  <2>2. Recent'
    BY <1>4, <2>1, Parameters DEF Tick, Recent, TypeOK, CallType
  <2>3. ASSUME NEW k \in Keys, ShortestWindow > 0 PROVE Paced(k, Boot, Len(admitted[k]))'
    <3>1. PICK l \in Int : l = Len(admitted[k])
      BY HistoryFacts
    <3>2. Paced(k, Boot, l)
      BY <2>3, <3>1 DEF RateInv
    <3>3. Paced(k, Boot, l)'
      BY <1>4, <3>2, TickPaces, Parameters
    <3> QED BY <2>1, <3>1, <3>3 DEF Paced, PacedBy, Turn
  <2>4. ASSUME NEW k \in Keys, NEW i \in 1 .. Len(admitted'[k]), ShortestWindow > 0
        PROVE  PacedFrom(k, i)'
    <3>1. CASE InBucket(k, i)
      BY <2>1, <3>1 DEF InBucket, PacedFrom
    <3>2. CASE Paced(k, admitted[k][i], Len(admitted[k]) - i - (kRateLimitMax - 1))
      <4>1. PICK base \in Int, l \in Int :
              base = admitted[k][i] /\ l = Len(admitted[k]) - i - (kRateLimitMax - 1)
        BY <2>1, HistoryFacts, Parameters
      <4>2. Paced(k, base, l)'
        BY <1>4, <3>2, <4>1, TickPaces
      <4> QED BY <2>1, <4>1, <4>2 DEF PacedFrom, Paced, PacedBy, Turn
    <3> QED BY <2>1, <2>4, <3>1, <3>2 DEF RateInv, PacedFrom
  <2> QED BY <2>1, <2>2, <2>3, <2>4 DEF RateInv, Sorted, Apart
<1>5. CASE Restart
  <2>1. /\ UNCHANGED <<now, admitted>> /\ restarts' = restarts + 1
        /\ buckets' = <<>> /\ \A c \in Callers : asked'[c] = NoCall
    BY <1>5 DEF Restart
  <2>2. Recent'
    BY <2>1 DEF Recent
  <2>3. ASSUME NEW k \in Keys, ShortestWindow > 0 PROVE Paced(k, Boot, Len(admitted[k]))'
    <3>1. PICK l \in Int : l = Len(admitted[k])
      BY HistoryFacts
    <3>2. Paced(k, Boot, l)
      BY <2>3, <3>1 DEF RateInv
    <3>3. Paced(k, Boot, l)'
      BY <1>5, <2>3, <3>2, RestartPaces, Parameters
    <3> QED BY <2>1, <3>1, <3>3 DEF Paced, PacedBy, Turn
  <2>4. ASSUME NEW k \in Keys, NEW i \in 1 .. Len(admitted'[k]), ShortestWindow > 0
        PROVE  PacedFrom(k, i)'
    <3> DEFINE len == Len(admitted[k]) - i - (kRateLimitMax - 1)
    <3>1. PICK base \in Int, l \in Int : base = admitted[k][i] /\ l = len
      BY <2>1, HistoryFacts, Parameters
    <3>2. Paced(k, base, l)'
      <4>1. CASE InBucket(k, i)
        <5>1. l <= kRateLimitMax * 0 /\ Turn(base, 0) <= now
          BY <2>1, <2>4, <3>1, <4>1, BucketIsOver
        <5>2. Turn(base, 0)' <= Turn(base, 0) /\ Turn(base, 0) \in Int /\ Turn(base, 0)' \in Int
          <6>1. restarts \in Nat /\ 0 - restarts = (0 - restarts') + 1
            BY <2>1 DEF TypeOK
          <6>2. /\ (0 - restarts) * ShortestWindow
                     = (0 - restarts') * ShortestWindow + ShortestWindow
                /\ (0 - restarts') * ShortestWindow \in Int
            BY <2>1, <6>1, OneMore, Parameters
          <6> QED BY <2>4, <6>2, Parameters DEF Turn, ShortestWindow
        <5>3. now \in Int /\ now' = now
          BY <2>1 DEF TypeOK
        <5>4. Turn(base, 0)' <= now'
          BY <5>1, <5>2, <5>3
        <5>5. PacedBy(0, k, base, l)'
          BY <2>1, <5>1, <5>4 DEF PacedBy
        <5> QED BY <5>5 DEF Paced
      <4>2. CASE Paced(k, admitted[k][i], len)
        <5>1. Paced(k, base, l)
          BY <3>1, <4>2
        <5> QED BY <1>5, <2>4, <5>1, RestartPaces
      <4> QED BY <2>1, <2>4, <4>1, <4>2 DEF RateInv, PacedFrom
    <3> QED BY <2>1, <3>1, <3>2 DEF PacedFrom, Paced, PacedBy, Turn
  <2>5. Apart'
    <3>1. (2 + restarts') * kRateLimitMax = (2 + restarts) * kRateLimitMax + kRateLimitMax
      <4>1. 2 + restarts' = (2 + restarts) + 1 /\ restarts \in Nat
        BY <2>1 DEF TypeOK
      <4> QED BY <4>1, OneMore, Parameters
    <3>2. (2 + restarts) * kRateLimitMax \in Int
      BY Times, Parameters DEF TypeOK
    <3> QED BY <2>1, <3>1, <3>2, Parameters DEF RateInv, Apart
  <2> QED BY <2>1, <2>2, <2>3, <2>4, <2>5 DEF RateInv, Sorted
<1>6. CASE UNCHANGED vars
  BY <1>2, <1>6 DEF vars
<1> QED BY <1>1, <1>3, <1>4, <1>5, <1>6 DEF Next

\* As many buckets as there is time for, each full.
LEMMA PaceIsRate == TypeOK /\ RateInv => LongRunRate
<1> SUFFICES ASSUME TypeOK, RateInv, ShortestWindow > 0, NEW k \in Keys
             PROVE  Len(admitted[k])
                      <= kRateLimitMax * ((now - Boot) \div ShortestWindow + 1 + restarts)
  BY DEF LongRunRate
<1> DEFINE n == Len(admitted[k])
           windows == (now - Boot) \div ShortestWindow
<1>1. PICK P \in Nat : PacedBy(P, k, Boot, n)
  BY DEF RateInv, Paced
<1>2. /\ n \in Int /\ restarts \in Nat /\ now - Boot \in Nat /\ now \in Int
      /\ k \in DOMAIN buckets => buckets[k].count \in Int /\ buckets[k].count <= kRateLimitMax
  BY HistoryFacts, Parameters DEF TypeOK, BucketType
<1> DEFINE turns == IF k \in DOMAIN buckets THEN P - 1 ELSE P
<1>3. turns \in Int /\ turns <= windows + restarts /\ windows \in Nat
  <2>1. Turn(Boot, turns) <= now
    BY <1>1 DEF PacedBy
  <2>2. (turns - restarts) * ShortestWindow <= now - Boot
    <3>1. (turns - restarts) * ShortestWindow \in Int
      BY <1>2, Times, Parameters
    <3> HIDE DEF turns
    <3> QED BY <1>2, <2>1, <3>1, Parameters DEF Turn
  <2>3. turns - restarts \in Int /\ ShortestWindow \in Nat
    BY <1>2, Parameters
  <2>4. windows \in Nat /\ turns - restarts <= windows
    BY <1>2, <2>2, <2>3, Quotient
  <2> HIDE DEF windows
  <2> QED BY <1>2, <2>4
<1>4. n <= kRateLimitMax * P /\ kRateLimitMax * P \in Int
  <2> DEFINE part == kRateLimitMax * (P - 1)
             full == kRateLimitMax * P
  <2>1. part \in Int /\ full = part + kRateLimitMax
    BY OneMore, Parameters
  <2>2. IF k \in DOMAIN buckets THEN n <= part + buckets[k].count ELSE n <= full
    BY <1>1 DEF PacedBy
  <2> HIDE DEF part, full, n
  <2>3. n <= full /\ full \in Int
    BY <1>2, <2>1, <2>2, Parameters
  <2> QED BY <2>3 DEF full
<1>5. P <= windows + 1 + restarts /\ windows + 1 + restarts \in Int
  <2> HIDE DEF windows
  <2> QED BY <1>2, <1>3
<1>6. /\ P * kRateLimitMax <= (windows + 1 + restarts) * kRateLimitMax
      /\ P * kRateLimitMax = kRateLimitMax * P
      /\ (windows + 1 + restarts) * kRateLimitMax = kRateLimitMax * (windows + 1 + restarts)
      /\ kRateLimitMax * (windows + 1 + restarts) \in Int
  <2> HIDE DEF windows
  <2> QED BY <1>5, Times, Parameters
<1> HIDE DEF windows, n
<1>7. n <= kRateLimitMax * (windows + 1 + restarts)
  BY <1>2, <1>4, <1>6
<1> QED BY <1>7 DEF n, windows

LEMMA ApartIsSliding == TypeOK /\ RateInv => SlidingBound
<1> SUFFICES ASSUME TypeOK, RateInv, NEW k \in Keys,
                    NEW i \in 1 .. Len(admitted[k]) - (2 + restarts) * kRateLimitMax
             PROVE  admitted[k][i + (2 + restarts) * kRateLimitMax] - admitted[k][i]
                      >= ShortestWindow
  BY DEF SlidingBound
<1> DEFINE burst == (2 + restarts) * kRateLimitMax
<1>1. burst \in Int /\ 0 <= burst /\ Len(admitted[k]) \in Int
  BY HistoryFacts, Times, Parameters DEF TypeOK
<1>2. i \in 1 .. Len(admitted[k]) - burst
  OBVIOUS
<1>3. \A j, l \in 1 .. Len(admitted[k]) :
        l - j >= burst => admitted[k][l] - admitted[k][j] >= ShortestWindow
  <2>1. Apart
    BY DEF RateInv
  <2>2. \A h \in Keys : \A j, l \in 1 .. Len(admitted[h]) :
          l - j >= (2 + restarts) * kRateLimitMax
            => admitted[h][l] - admitted[h][j] >= ShortestWindow
    BY <2>1, Zenon DEF Apart
  <2> QED BY <2>2, Zenon DEF burst
<1> HIDE DEF burst
<1> DEFINE n == Len(admitted[k])
<1>4. n \in Int /\ i \in 1 .. n - burst
  BY <1>1, <1>2
<1> DEFINE last == i + burst
<1>5. i \in 1 .. n /\ last \in 1 .. n /\ last - i >= burst
  <2> HIDE DEF n
  <2> QED BY <1>1, <1>4
<1> HIDE DEF last
<1>6. admitted[k][last] - admitted[k][i] >= ShortestWindow
  BY <1>3, <1>5
<1> QED BY <1>6 DEF burst, last

\* However the sweep evicts, the callers stall and the server restarts, the map keeps
\* within its cap and no key is let through more often than the fixed windows allow,
\* in the long run or in a burst.
THEOREM AdmissionsAreLimited == Spec => []LimitsKept
<1>1. TypeOK /\ RateInv /\ MapBounded => LimitsKept
  BY PaceIsRate, ApartIsSliding DEF LimitsKept
<1> QED BY <1>1, InvInit, InvNext, TypeCorrect, MapStaysBounded, PTL DEF Spec
=============================================================================
