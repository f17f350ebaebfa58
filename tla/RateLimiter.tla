---------------------------- MODULE RateLimiter ----------------------------
(***************************************************************************)
(* rate_limit_check (server/auth/AuthHandlers.cpp) as the login handlers   *)
(* of the thread pool call it.  A handler reads the clock on entry and     *)
(* takes g_rate_mutex later, so the times it is called with may be out of  *)
(* order.  The map of buckets lives in the process: a restart empties it.  *)
(***************************************************************************)
EXTENDS Integers, FiniteSets, Sequences

CONSTANTS Keys,     \* bucket keys: "auth_login:" and an email
          Callers,  \* threads of the pool
          kRateLimitMax, kRateLimitWindowSecs, kMaxRateBuckets,
          Boot,     \* unix time when the run starts
          MaxTime, MaxRestarts,
          MaxStall  \* how long a handler may lie between its two steps

\* Unix time is past the first window of 1970, so that the zero-initialised
\* bucket counts as expired.
ASSUME RateAssumption ==
  /\ kRateLimitMax \in Nat \ {0}
  /\ kRateLimitWindowSecs \in Nat \ {0}
  /\ kMaxRateBuckets \in Nat \ {0}
  /\ Boot \in Nat /\ Boot >= kRateLimitWindowSecs
  /\ MaxTime \in Nat
  /\ MaxRestarts \in Nat
  /\ MaxStall \in Nat

VARIABLES buckets,   \* g_rate_buckets
          asked,     \* asked[c]: the call that caller c is about to make
          now,       \* the wall clock
          restarts,  \* restarts so far
          admitted   \* admitted[k]: the times at which k was let through

vars == <<buckets, asked, now, restarts, admitted>>

NoCall == [key |-> "none", t |-> 0]

Init ==
  /\ buckets = <<>>
  /\ asked = [c \in Callers |-> NoCall]
  /\ now = Boot
  /\ restarts = 0
  /\ admitted = [k \in Keys |-> <<>>]

-----------------------------------------------------------------------------
RateBucket == [count |-> 0, window_start_unix |-> 0]

\* The difference taken as an unsigned number: an old time wraps around.
UnsignedExpired(b, t) ==
  t < b.window_start_unix \/ t - b.window_start_unix >= kRateLimitWindowSecs

Expired(b, t) == t - b.window_start_unix >= kRateLimitWindowSecs

\* Evict every bucket whose window is over.
Sweep(t) ==
  LET live == {k \in DOMAIN buckets : ~Expired(buckets[k], t)}
  IN  [k \in live |-> buckets[k]]

\* The map after the opportunistic sweep for a new key at the cap.
Swept(k, t) ==
  IF k \notin DOMAIN buckets /\ Cardinality(DOMAIN buckets) >= kMaxRateBuckets
  THEN Sweep(t) ELSE buckets

Saturated(k, t) ==
  /\ k \notin DOMAIN buckets
  /\ Cardinality(DOMAIN Swept(k, t)) >= kMaxRateBuckets

\* The count is reset and the window is not.
BucketKeepsWindow(k, t) ==
  LET found == IF k \in DOMAIN buckets THEN buckets[k] ELSE [RateBucket EXCEPT !.window_start_unix = t]
  IN  IF Expired(found, t) THEN [found EXCEPT !.count = 0] ELSE found

\* The bucket of k, reset if its window is over.
Bucket(k, t) ==
  LET found == IF k \in DOMAIN buckets THEN buckets[k] ELSE RateBucket
  IN  IF Expired(found, t) THEN [count |-> 0, window_start_unix |-> t] ELSE found

Put(k, t, b) ==
  LET map == Swept(k, t)
  IN  buckets' = [x \in DOMAIN map \union {k} |-> IF x = k THEN b ELSE map[x]]

\* now_unix() on entry of handle_login.
Enter(c) ==
  /\ asked[c] = NoCall
  /\ \E k \in Keys : asked' = [asked EXCEPT ![c] = [key |-> k, t |-> now]]
  /\ UNCHANGED <<buckets, now, restarts, admitted>>

Return(c) == asked' = [asked EXCEPT ![c] = NoCall] /\ UNCHANGED <<now, restarts>>

Deny(c) ==
  /\ asked[c] # NoCall
  /\ LET k == asked[c].key
         t == asked[c].t
     IN  /\ Saturated(k, t)
         /\ buckets' = Swept(k, t)
  /\ Return(c)
  /\ UNCHANGED admitted

Trip(c) ==
  /\ asked[c] # NoCall
  /\ LET k == asked[c].key
         t == asked[c].t
     IN  /\ ~Saturated(k, t)
         /\ Bucket(k, t).count >= kRateLimitMax
         /\ Put(k, t, Bucket(k, t))
  /\ Return(c)
  /\ UNCHANGED admitted

AdmitOneMore(c) ==
  /\ asked[c] # NoCall
  /\ LET k == asked[c].key
         t == asked[c].t
         b == Bucket(k, t)
     IN  /\ ~Saturated(k, t)
         /\ b.count <= kRateLimitMax
         /\ Put(k, t, [b EXCEPT !.count = @ + 1])
         /\ admitted' = [admitted EXCEPT ![k] = Append(@, now)]
  /\ Return(c)

Admit(c) ==
  /\ asked[c] # NoCall
  /\ LET k == asked[c].key
         t == asked[c].t
         b == Bucket(k, t)
     IN  /\ ~Saturated(k, t)
         /\ b.count < kRateLimitMax
         /\ Put(k, t, [b EXCEPT !.count = @ + 1])
         /\ admitted' = [admitted EXCEPT ![k] = Append(@, now)]
  /\ Return(c)

Check(c) == Deny(c) \/ Trip(c) \/ Admit(c)

Tick ==
  /\ now < Boot + MaxTime
  /\ \A c \in Callers : asked[c] # NoCall => now - asked[c].t < MaxStall
  /\ now' = now + 1
  /\ UNCHANGED <<buckets, asked, restarts, admitted>>

Restart ==
  /\ restarts < MaxRestarts
  /\ restarts' = restarts + 1
  /\ buckets' = <<>>
  /\ asked' = [c \in Callers |-> NoCall]
  /\ UNCHANGED <<now, admitted>>

Next == (\E c \in Callers : Enter(c) \/ Check(c)) \/ Tick \/ Restart

Spec == Init /\ [][Next]_vars

-----------------------------------------------------------------------------
BucketType == [count : 0 .. kRateLimitMax, window_start_unix : Boot .. now]
CallType == [key : Keys, t : Boot .. now]

\* A bucket's window never starts in the future, and its count never passes
\* the limit.
TypeOK ==
  /\ DOMAIN buckets \subseteq Keys
  /\ \A k \in DOMAIN buckets : buckets[k] \in BucketType
  /\ asked \in [Callers -> CallType \union {NoCall}]
  /\ now \in Nat /\ now >= Boot
  /\ restarts \in Nat
  /\ admitted \in [Keys -> Seq(Boot .. now)]

\* AuthRateLimitInternal.h, "Global cap of kMaxRateBuckets entries": however many
\* emails are tried, the map stays within its bound.
MapBounded == Cardinality(DOMAIN buckets) <= kMaxRateBuckets

\* No sweep and no reset pardons an attempt early: as long as the server runs, a
\* bucket whose window is not over stays in the map and its count does not fall,
\* whatever the other callers do and however old the time they carry.
NoEarlyPardon ==
  [][restarts' = restarts =>
       \A k \in DOMAIN buckets :
         ~Expired(buckets[k], now)
           => k \in DOMAIN buckets' /\ buckets'[k].count >= buckets[k].count]_vars

\* A handler that lies between its two steps carries a time that old; if its bucket
\* was evicted meanwhile, the new one starts in the past and ends early.
ShortestWindow == kRateLimitWindowSecs - MaxStall

\* In the long run a key is let through at most kRateLimitMax times per window, plus
\* once that for every restart, whichever buckets the sweep evicts and however the
\* calls of stalled handlers are ordered.
LongRunRate ==
  ShortestWindow > 0 =>
    \A k \in Keys :
      Len(admitted[k]) <= kRateLimitMax * ((now - Boot) \div ShortestWindow + 1 + restarts)

\* The windows are fixed ones, so a short interval meets at most two of them, and one
\* more for every restart: any 2 * kRateLimitMax + 1 attempts let through between two
\* restarts take the shortest window.
SlidingBound ==
  \A k \in Keys :
    LET burst == (2 + restarts) * kRateLimitMax
    IN  \A i \in 1 .. Len(admitted[k]) - burst :
          admitted[k][i + burst] - admitted[k][i] >= ShortestWindow

\* The limits rate_limit_check sets, for every history of attempts: on the emails it
\* keeps in memory and on the attempts it lets through, in the long run and at once.
LimitsKept == MapBounded /\ LongRunRate /\ SlidingBound
=============================================================================
