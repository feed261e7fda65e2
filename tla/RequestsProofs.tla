--------------------------- MODULE RequestsProofs ---------------------------
(***************************************************************************)
(* Proofs about the rate limiter, the token of the RTT client and their    *)
(* composition: for any number of handlers, any limit, window, margin and  *)
(* lifetimes of tokens.                                                    *)
(*                                                                         *)
(* QuietReadmits is proved from a stronger fact, that the key expires at   *)
(* the latest when the refused user's wait is over (KeyGoesInTime).        *)
(* BurstBound is a sum over a window that several keys may have counted.   *)
(* A key lets through no more than it counts; when it goes, nothing was    *)
(* let through for a window, since each update prolongs it, but for those  *)
(* counted and not yet prolonged, one of each handler (Budget).  The       *)
(* properties of the token need that the mutex is held over the whole      *)
(* refresh, and only for a token not worth using (CacheInv).               *)
(***************************************************************************)
EXTENDS Requests, FiniteSetTheorems, TLAPS

USE WindowAssumption, RateMaxAssumption, MarginAssumption

-----------------------------------------------------------------------------
(* The updates let through                                                  *)

\* The updates let through, by their age and number.
Passes == [age : 0..(Window - 1), nr : Nat \ {0}]

\* The updates let through in the present tick are numbered.
Numbered == \A p \in PassedNow : p.nr <= Cardinality(PassedNow)

\* They are finitely many, as numbered.
PassedOK ==
    /\ \A p \in passed : p \in Passes
    /\ IsFiniteSet(passed)
    /\ Numbered

\* Each update let through is counted as one more.
LEMMA PassCounts ==
    ASSUME PassedOK, Pass
    PROVE  PassedOK' /\ Cardinality(passed') = Cardinality(passed) + 1
<1> DEFINE n == Cardinality(PassedNow)
           new == [age |-> 0, nr |-> n + 1]
<1>1. IsFiniteSet(PassedNow) /\ n \in Nat
    BY FS_Subset, FS_CardinalityType DEF PassedOK, PassedNow
<1>2. passed' = passed \cup {new} /\ new \in Passes /\ new.age = 0 /\ new.nr = n + 1
    BY <1>1 DEF Pass, Passes
<1>3. new \notin passed
    BY <1>1, <1>2 DEF PassedOK, Numbered, PassedNow
<1>4. PassedNow' = PassedNow \cup {new} /\ new \notin PassedNow
    BY <1>2, <1>3 DEF PassedNow
<1> HIDE DEF new
<1>5. IsFiniteSet(passed') /\ Cardinality(passed') = Cardinality(passed) + 1
    BY <1>2, <1>3, FS_AddElement DEF PassedOK
<1>6. Cardinality(PassedNow') = n + 1
    BY <1>1, <1>4, FS_AddElement
<1>7. Numbered'
    <2>1. \A p \in PassedNow : p.nr <= n /\ p.nr \in Nat
        BY DEF PassedOK, Numbered, PassedNow, Passes
    <2> QED BY <1>1, <1>2, <1>4, <1>6, <2>1 DEF Numbered
<1> QED BY <1>2, <1>5, <1>7 DEF PassedOK

\* A tick makes all of them older, and loses the oldest.
LEMMA AgeForgets ==
    ASSUME PassedOK, Age
    PROVE  /\ PassedOK'
           /\ Cardinality(passed') <= Cardinality(passed)
           /\ \A p \in passed' : \E q \in passed : p.age = q.age + 1 /\ p.age < Window
<1> DEFINE Kept == {q \in passed : q.age < Window - 1}
           f == [q \in Kept |-> [q EXCEPT !.age = @ + 1]]
<1>1. passed' = {[q EXCEPT !.age = @ + 1] : q \in Kept}
    BY DEF Age
<1>2. \A q \in Kept : q \in Passes /\ q.age < Window - 1
    BY DEF PassedOK
<1>3. \A q \in Kept : /\ [q EXCEPT !.age = @ + 1] \in Passes
                      /\ [q EXCEPT !.age = @ + 1].age = q.age + 1
    BY <1>2 DEF Passes
<1>4. f \in Surjection(Kept, passed')
    BY <1>1 DEF Surjection
<1>5. IsFiniteSet(Kept) /\ Cardinality(Kept) <= Cardinality(passed)
    BY FS_Subset DEF PassedOK
<1>6. IsFiniteSet(passed') /\ Cardinality(passed') <= Cardinality(Kept)
    BY <1>4, <1>5, FS_Surjection
<1>7. Cardinality(passed') <= Cardinality(passed)
    BY <1>5, <1>6, FS_CardinalityType DEF PassedOK
<1>8. \A p \in passed' : \E q \in Kept : p \in Passes /\ p.age = q.age + 1
    BY <1>1, <1>3
<1>9. \A p \in passed' : \E q \in passed : p.age = q.age + 1 /\ p.age < Window
    BY <1>2, <1>8 DEF Passes
<1>10. \A p \in passed' : p.age # 0
    BY <1>2, <1>8 DEF Passes
<1>11. Numbered'
    BY <1>10 DEF Numbered, PassedNow
<1> QED BY <1>6, <1>7, <1>8, <1>9, <1>11 DEF PassedOK

LEMMA PassedKept ==
    ASSUME PassedOK, UNCHANGED passed
    PROVE  PassedOK'
BY DEF PassedOK, Numbered, PassedNow

-----------------------------------------------------------------------------
(* The rate limiter                                                         *)

\* A key goes at the latest when the refused user's wait is over.
KeyGoesInTime == wait \in 0..Window => hits = 0 \/ ttl <= wait

\* What one EXPIRE grants is over when the key goes: an update let through since would
\* have prolonged it.
PassesProlong == hits > 0 /\ ttl <= Window => \A p \in passed : p.age >= Window - ttl

\* Updates counted and not decided, that will be let through.
Pending == {h \in Handlers : update[h] = "counted" /\ ~Exceeded(h)}

\* How many of the updates the key has counted are let through.
Counted == IF hits > RateMax THEN RateMax ELSE hits

\* A key lets through what it counts; beyond that, at most one update of each handler was
\* counted by a key that is gone.
Budget == Cardinality(passed) + Cardinality(Pending) <= Counted + Cardinality(Handlers)

\* The invariant of the limiter.
LimiterInv ==
    /\ LimiterTypeOK
    /\ PassedOK
    /\ KeyGoesInTime
    /\ PassesProlong
    /\ Budget

LEMMA PendingSize ==
    /\ IsFiniteSet(Pending)
    /\ Cardinality(Pending) \in Nat
    /\ Cardinality(Handlers) \in Nat
    /\ Cardinality(Pending) <= Cardinality(Handlers)
BY HandlersAssumption, FS_Subset, FS_CardinalityType DEF Pending

\* It holds at the start.
LEMMA LimiterInitInv == LimiterInit => LimiterInv
<1> SUFFICES ASSUME LimiterInit PROVE LimiterInv
    OBVIOUS
<1>1. LimiterTypeOK /\ KeyGoesInTime
    BY DEF LimiterInit, LimiterTypeOK, KeyGoesInTime, Forever
<1>2. IsFiniteSet(passed) /\ Cardinality(passed) = 0
    BY FS_EmptySet DEF LimiterInit
<1>3. PassedOK /\ PassesProlong
    BY <1>2 DEF LimiterInit, PassedOK, Numbered, PassedNow, PassesProlong
<1>4. Counted = 0
    BY DEF Counted, LimiterInit
<1>5. Budget
    BY <1>2, <1>4, PendingSize DEF Budget
<1> QED BY <1>1, <1>3, <1>5 DEF LimiterInv

\* Every command of the middleware, a stop and a tick keep the invariant.
LEMMA LimiterNextInv == LimiterInv /\ [LimiterNext]_limiterVars => LimiterInv'
<1> SUFFICES ASSUME LimiterInv, [LimiterNext]_limiterVars PROVE LimiterInv'
    OBVIOUS
<1>t. /\ hits \in 0..(RateMax + 1)
      /\ ttl \in 1..(Window + 1)
      /\ update \in [Handlers -> {"idle", "counted", "running"}]
      /\ count \in [Handlers -> 0..(RateMax + 1)]
      /\ wait \in 0..(Window + 1)
      /\ \A h \in Handlers : update[h] = "counted" => count[h] > 0
      /\ hits = 0 => ttl = Window + 1
      /\ wait \in 0..Window => hits = 0 \/ ttl <= wait
      /\ PassedOK
    BY DEF LimiterInv, LimiterTypeOK, KeyGoesInTime, Forever
<1>n. /\ Cardinality(passed) \in Nat
      /\ Counted \in 0..RateMax
      /\ IsFiniteSet(Pending)
      /\ Cardinality(Pending) \in Nat
      /\ Cardinality(Handlers) \in Nat
      /\ \A p \in passed : p.age \in 0..(Window - 1)
    BY <1>t, PendingSize, FS_CardinalityType DEF PassedOK, Passes, Counted
<1>s. ASSUME \A h \in Handlers : h \in Pending' => h \in Pending
      PROVE  Cardinality(Pending') \in Nat /\ Cardinality(Pending') <= Cardinality(Pending)
    <2>1. \A h \in Pending' : h \in Pending
        BY <1>s DEF Pending
    <2>2. Pending' \subseteq Pending
        BY <2>1
    <2> QED BY <1>n, <2>2, FS_Subset, FS_CardinalityType
<1>b. Cardinality(passed) + Cardinality(Pending) <= Counted + Cardinality(Handlers)
    BY DEF LimiterInv, Budget
<1>p. hits > 0 /\ ttl <= Window => \A p \in passed : p.age >= Window - ttl
    BY DEF LimiterInv, PassesProlong
<1> HIDE DEF LimiterInv
<1>1. ASSUME NEW h \in Handlers, Incr(h) PROVE LimiterInv'
    <2>1. hits' \in 1..(RateMax + 1)
        BY <1>1, <1>t DEF Incr
    <2>2. /\ update' \in [Handlers -> {"idle", "counted", "running"}]
          /\ count' \in [Handlers -> 0..(RateMax + 1)]
          /\ \A k \in Handlers : update'[k] = "counted" => count'[k] > 0
        BY <1>1, <1>t, <2>1 DEF Incr
    <2>3. ttl' = ttl /\ passed' = passed /\ wait' = Window + 1
        BY <1>1 DEF Incr, Forever
    <2>4. PassedOK'
        BY <1>t, <2>3, PassedKept
    <2>5. LimiterTypeOK' /\ KeyGoesInTime'
        BY <1>t, <2>1, <2>2, <2>3, <2>4
           DEF LimiterTypeOK, KeyGoesInTime, Forever, PassedOK, Passes
    <2>6. PassesProlong'
        BY <1>1, <1>t, <1>p, <2>3 DEF Incr, PassesProlong
    <2>7. Cardinality(Pending') \in Nat
              /\ Cardinality(Pending') - Cardinality(Pending) <= Counted' - Counted
        <3>1. \A k \in Handlers : k # h => (k \in Pending' <=> k \in Pending)
            BY <1>1, <1>t DEF Incr, Pending, Exceeded
        <3>2. h \in Pending' => hits' <= RateMax
            BY <1>1, <1>t DEF Incr, Pending, Exceeded
        <3>3. CASE hits' > RateMax
            <4>1. \A k \in Handlers : k \in Pending' => k \in Pending
                BY <3>1, <3>2, <3>3, <2>1
            <4>2. Counted' = RateMax
                BY <3>3 DEF Counted
            <4> QED BY <1>n, <1>s, <4>1, <4>2
        <3>4. CASE ~(hits' > RateMax)
            <4>1. Counted' = Counted + 1
                BY <1>1, <1>t, <3>4 DEF Counted, Incr
            <4>2. \A k \in Pending' : k \in Pending \cup {h}
                BY <3>1 DEF Pending
            <4>3. Pending' \subseteq Pending \cup {h}
                BY <4>2
            <4>4. /\ IsFiniteSet(Pending \cup {h})
                  /\ Cardinality(Pending \cup {h}) <= Cardinality(Pending) + 1
                BY <1>n, FS_AddElement
            <4>5. Cardinality(Pending \cup {h}) \in Nat
                BY <4>4, FS_CardinalityType
            <4>6. IsFiniteSet(Pending') /\ Cardinality(Pending') <= Cardinality(Pending \cup {h})
                BY <4>3, <4>4, FS_Subset
            <4>7. Cardinality(Pending') \in Nat
                BY <4>6, FS_CardinalityType
            <4> QED BY <1>n, <4>1, <4>4, <4>5, <4>6, <4>7
        <3> QED BY <3>3, <3>4
    <2>8. Counted' \in 0..RateMax
        BY <2>1 DEF Counted
    <2>9. Budget'
        BY <1>b, <1>n, <2>3, <2>7, <2>8 DEF Budget
    <2> QED BY <2>4, <2>5, <2>6, <2>9 DEF LimiterInv
<1>k. ASSUME UNCHANGED <<hits, ttl, count, passed>>,
             update' \in [Handlers -> {"idle", "counted", "running"}],
             \A h \in Handlers : update'[h] = "counted" => update[h] = "counted",
             wait' \in {wait, Window + 1}
      PROVE  LimiterInv'
    <2>1. PassedOK'
        BY <1>k, <1>t, PassedKept
    <2>2. LimiterTypeOK' /\ KeyGoesInTime'
        BY <1>k, <1>t, <2>1 DEF LimiterTypeOK, KeyGoesInTime, Forever, PassedOK, Passes
    <2>3. PassesProlong'
        BY <1>k, <1>p DEF PassesProlong
    <2>4. \A h \in Handlers : h \in Pending' => h \in Pending
        BY <1>k DEF Pending, Exceeded
    <2>5. Counted' = Counted
        BY <1>k DEF Counted
    <2>6. Budget'
        BY <1>b, <1>k, <1>n, <1>s, <2>4, <2>5 DEF Budget
    <2> QED BY <2>1, <2>2, <2>3, <2>6 DEF LimiterInv
<1>2. ASSUME NEW h \in Handlers, IncrFails(h) PROVE LimiterInv'
    <2>1. update' \in [Handlers -> {"idle", "counted", "running"}]
              /\ \A k \in Handlers : update'[k] = "counted" => update[k] = "counted"
        BY <1>2, <1>t DEF IncrFails
    <2> QED BY <1>2, <1>k, <2>1 DEF IncrFails, Forever
<1>3. ASSUME NEW h \in Handlers, Decide(h) PROVE LimiterInv'
    <2>1. ttl' \in 1..(Window + 1) /\ (hits > 0 => ttl' = Window) /\ (hits = 0 => ttl' = Window + 1)
        BY <1>3, <1>t DEF Decide, Expire
    <2>2. wait' \in {Window, Window + 1}
        BY <1>3 DEF Decide, Forever
    <2>3. update' \in [Handlers -> {"idle", "counted", "running"}]
              /\ \A k \in Handlers : update'[k] = "counted" <=> k # h /\ update[k] = "counted"
        BY <1>3, <1>t DEF Decide
    <2>4. hits' = hits /\ count' = count
        BY <1>3 DEF Decide
    <2>5. \A k \in Handlers : k \in Pending' <=> k # h /\ k \in Pending
        BY <2>3, <2>4 DEF Pending, Exceeded
    <2>6. PassedOK' /\ Cardinality(passed') + Cardinality(Pending')
                            <= Cardinality(passed) + Cardinality(Pending)
                    /\ Cardinality(passed') \in Nat /\ Cardinality(Pending') \in Nat
        <3>1. CASE Exceeded(h)
            <4>1. passed' = passed
                BY <1>3, <3>1 DEF Decide
            <4>2. Cardinality(Pending') \in Nat /\ Cardinality(Pending') <= Cardinality(Pending)
                BY <1>s, <2>5
            <4> QED BY <1>n, <1>t, <4>1, <4>2, PassedKept
        <3>2. CASE ~Exceeded(h)
            <4>1. Pass
                BY <1>3, <3>2 DEF Decide
            <4>2. PassedOK' /\ Cardinality(passed') = Cardinality(passed) + 1
                BY <1>t, <4>1, PassCounts
            <4>3. h \in Pending
                BY <1>3, <3>2 DEF Decide, Pending
            <4>4. Pending' = Pending \ {h}
                BY <2>5 DEF Pending
            <4>5. Cardinality(Pending') = Cardinality(Pending) - 1
                BY <1>n, <4>3, <4>4, FS_RemoveElement
            <4>6. IsFiniteSet(Pending')
                BY <1>n, <4>4, FS_RemoveElement
            <4>7. Cardinality(Pending') \in Nat
                BY <4>6, FS_CardinalityType
            <4> QED BY <1>n, <4>2, <4>5, <4>7
        <3> QED BY <3>1, <3>2
    <2>7. LimiterTypeOK' /\ KeyGoesInTime'
        <3>1. \A p \in passed' : p \in Passes
            BY <2>6 DEF PassedOK
        <3>2. passed' \subseteq Passes
            BY <3>1
        <3> QED BY <1>t, <2>1, <2>2, <2>3, <2>4, <3>2
                DEF LimiterTypeOK, KeyGoesInTime, Forever, Passes
    <2>8. PassesProlong'
        <3>1. \A p \in passed' : p.age >= 0
            BY <2>6 DEF PassedOK, Passes
        <3> QED BY <2>1, <2>4, <3>1 DEF PassesProlong
    <2>9. Counted' = Counted
        BY <2>4 DEF Counted
    <2>10. Budget'
        BY <1>b, <1>n, <2>6, <2>9 DEF Budget
    <2> QED BY <2>6, <2>7, <2>8, <2>10 DEF LimiterInv
<1>4. ASSUME NEW h \in Handlers, Return(h) PROVE LimiterInv'
    <2>1. update' \in [Handlers -> {"idle", "counted", "running"}]
              /\ \A k \in Handlers : update'[k] = "counted" => update[k] = "counted"
        BY <1>4, <1>t DEF Return
    <2> QED BY <1>4, <1>k, <2>1 DEF Return
<1>5. CASE LimiterStop
    <2>1. update' \in [Handlers -> {"idle", "counted", "running"}]
              /\ \A k \in Handlers : update'[k] = "counted" => update[k] = "counted"
        BY <1>5 DEF LimiterStop
    <2> QED BY <1>5, <1>k, <2>1 DEF LimiterStop, Forever
<1>6. CASE LimiterTick
    <2>1. ttl' \in 1..(Window + 1) /\ hits' \in 0..(RateMax + 1) /\ wait' \in 0..(Window + 1)
        BY <1>6, <1>t DEF LimiterTick, Forever
    <2>2. hits' = 0 => ttl' = Window + 1
        BY <1>6, <1>t DEF LimiterTick, Forever
    <2>3. wait' \in 0..Window => hits' = 0 \/ ttl' <= wait'
        BY <1>6, <1>t DEF LimiterTick, Forever
    <2>4. update' = update /\ count' = count
        BY <1>6 DEF LimiterTick
    <2>5. /\ PassedOK'
          /\ Cardinality(passed') <= Cardinality(passed)
          /\ \A p \in passed' : \E q \in passed : p.age = q.age + 1 /\ p.age < Window
        BY <1>6, <1>t, AgeForgets DEF LimiterTick
    <2>6. LimiterTypeOK' /\ KeyGoesInTime'
        <3>1. \A p \in passed' : p \in Passes
            BY <2>5 DEF PassedOK
        <3>2. passed' \subseteq Passes
            BY <3>1
        <3> QED BY <1>t, <2>1, <2>2, <2>3, <2>4, <3>2
                DEF LimiterTypeOK, KeyGoesInTime, Forever, Passes
    <2>7. Cardinality(Pending') \in Nat /\ Cardinality(Pending') <= Cardinality(Pending)
        BY <1>s, <2>4 DEF Pending, Exceeded
    <2>8. Cardinality(passed') \in Nat
        BY <2>5, FS_CardinalityType DEF PassedOK
    <2>9. CASE ttl = 1
        <3>1. hits' = 0 /\ hits > 0
            BY <1>6, <1>t, <2>9 DEF LimiterTick
        <3>2. \A p \in passed : p.age >= Window - 1
            BY <1>p, <1>t, <2>9, <3>1
        <3>3. passed' = {}
            BY <1>n, <2>5, <3>2
        <3>4. Cardinality(passed') = 0 /\ Counted' = 0
            BY <3>1, <3>3, FS_EmptySet DEF Counted
        <3>5. Budget'
            BY <1>n, <2>7, <3>4, PendingSize DEF Budget
        <3> QED BY <2>5, <2>6, <3>1, <3>5 DEF LimiterInv, PassesProlong
    <2>10. CASE ttl # 1
        <3>1. hits' = hits
            BY <1>6, <2>10 DEF LimiterTick
        <3>2. Budget'
            BY <1>b, <1>n, <2>5, <2>7, <2>8, <3>1 DEF Budget, Counted
        <3>3. PassesProlong'
            <4> SUFFICES ASSUME hits' > 0, ttl' <= Window, NEW p \in passed'
                         PROVE  p.age >= Window - ttl'
                BY DEF PassesProlong
            <4>1. ttl \in 2..Window /\ ttl' = ttl - 1
                BY <1>6, <1>t, <2>10 DEF LimiterTick, Forever
            <4>2. PICK q \in passed : p.age = q.age + 1
                BY <2>5
            <4> QED BY <1>n, <1>p, <3>1, <4>1, <4>2
        <3> QED BY <2>5, <2>6, <3>2, <3>3 DEF LimiterInv
    <2> QED BY <2>9, <2>10
<1>7. CASE UNCHANGED limiterVars
    BY <1>7, <1>k, <1>t DEF limiterVars
<1> QED BY <1>1, <1>2, <1>3, <1>4, <1>5, <1>6, <1>7 DEF LimiterNext

LEMMA LimiterInductive == LimiterSpec => []LimiterInv
BY LimiterInitInv, LimiterNextInv, PTL DEF LimiterSpec

\* No window sees more updates pass than the limit and, beyond it, one for each handler:
\* whatever commands of the updates interleave, stop or come late (rateLimitMiddleware).
THEOREM LimiterBounds == LimiterSpec => []BurstBound
<1>1. LimiterInv => BurstBound
    <2> SUFFICES ASSUME LimiterInv PROVE BurstBound
        OBVIOUS
    <2>1. Cardinality(passed) \in Nat /\ hits \in Nat
        BY FS_CardinalityType DEF LimiterInv, PassedOK, LimiterTypeOK
    <2>2. Counted <= RateMax /\ Counted \in Nat
        BY <2>1 DEF Counted
    <2> QED BY <2>1, <2>2, PendingSize DEF LimiterInv, Budget, BurstBound
<1> QED BY <1>1, LimiterInductive, PTL

\* A refused user who sends nothing for a window finds the count gone, whatever stops
\* between INCR and EXPIRE (rateLimitMiddleware).
THEOREM LimiterReadmits == LimiterSpec => []QuietReadmits
<1>1. LimiterInv => QuietReadmits
    BY DEF LimiterInv, LimiterTypeOK, KeyGoesInTime, QuietReadmits
<1> QED BY <1>1, LimiterInductive, PTL

-----------------------------------------------------------------------------
(* The token                                                                *)

\* A refresh has a reason, and a token in use outlives what is left of the search.
CacheInv ==
    /\ CacheTypeOK
    /\ OneRefresh
    /\ \A c \in Callers :
          /\ call[c] = "refreshing" => ~Usable
          /\ call[c] = "searching" => hand[c] > Margin
          /\ call[c] = "ending" => hand[c] > 0

LEMMA LivesType ==
    /\ Lives \subseteq Nat
    /\ Lifetimes \subseteq Lives
    /\ \A l \in Lives : Older(l) \in Lives
BY LifetimesAssumption DEF Lives, Older

LEMMA CacheInitInv == CacheInit => CacheInv
BY NobodyAssumption DEF CacheInit, CacheInv, CacheTypeOK, OneRefresh, Lives, Usable

\* A caller's step: only its own place in the code changes, the mutex is taken only when
\* free, and only its holder replaces the token.
LEMMA CacheNextInv == CacheInv /\ [CacheNext]_cacheVars => CacheInv'
<1> SUFFICES ASSUME CacheInv, [CacheNext]_cacheVars PROVE CacheInv'
    OBVIOUS
<1> USE NobodyAssumption, LivesType, LifetimesAssumption
    DEF CacheInv, CacheTypeOK, OneRefresh, Usable
<1>1. ASSUME NEW c \in Callers, GetAccessToken(c) PROVE CacheInv'
    BY <1>1 DEF GetAccessToken, SearchWith, Go
<1>2. ASSUME NEW c \in Callers, LockToRefresh(c) PROVE CacheInv'
    BY <1>2 DEF LockToRefresh, RefreshedMeanwhile, SearchWith, Go
<1>3. ASSUME NEW c \in Callers, Refreshed(c) PROVE CacheInv'
    BY <1>3 DEF Refreshed, SearchWith, Go
<1>4. ASSUME NEW c \in Callers, RefreshFails(c) PROVE CacheInv'
    BY <1>4 DEF RefreshFails, Unlock, Go
<1>5. ASSUME NEW c \in Callers, SearchDone(c) PROVE CacheInv'
    <2>1. 0 \in Lives
        BY DEF Lives
    <2> QED BY <1>5, <2>1 DEF SearchDone, Go
<1>6. CASE CacheStop
    <2>1. 0 \in Lives
        BY DEF Lives
    <2> QED BY <1>6, <2>1 DEF CacheStop
<1>7. CASE CacheTick
    <2>1. expiry \in Nat /\ \A c \in Callers : hand[c] \in Nat
        OBVIOUS
    <2>2. \A life \in Nat : Older(life) \in Nat /\ Older(life) <= life /\ Older(life) >= life - 1
        BY DEF Older
    <2>3. CacheTypeOK'
        BY <1>7 DEF CacheTick
    <2>4. mu' = mu /\ \A c \in Callers : call'[c] = "refreshing" <=> call[c] = "refreshing"
        BY <1>7 DEF CacheTick
    <2>5. expiry <= Margin => expiry' <= Margin
        BY <1>7, <2>1, <2>2 DEF CacheTick
    <2>6. \A c \in Callers :
              /\ call'[c] # "searching"
              /\ call'[c] = "ending" => call[c] = "searching" /\ hand'[c] = Older(hand[c])
        BY <1>7 DEF CacheTick
    <2>7. \A c \in Callers : call'[c] = "ending" => hand'[c] > 0
        BY <2>1, <2>2, <2>6
    <2>8. expiry' \in Nat
        BY <2>3
    <2> QED BY <2>1, <2>3, <2>4, <2>5, <2>6, <2>7, <2>8
<1>8. CASE UNCHANGED cacheVars
    BY <1>8 DEF cacheVars
<1> QED BY <1>1, <1>2, <1>3, <1>4, <1>5, <1>6, <1>7, <1>8 DEF CacheNext, CallerStep

LEMMA CacheInductive == CacheSpec => []CacheInv
BY CacheInitInv, CacheNextInv, PTL DEF CacheSpec

\* One request for a token at a time, made by the holder of the mutex
\* (refreshAccessToken).
THEOREM CacheRefreshesOnce == CacheSpec => []OneRefresh
<1>1. CacheInv => OneRefresh
    BY DEF CacheInv
<1> QED BY <1>1, CacheInductive, PTL

\* A search is made with a token that does not expire before it ends, if the service
\* gives tokens that live longer than the margin.
THEOREM CacheTokenLives == CacheSpec => []TokenOutlivesSearch
<1>1. CacheInv => TokenOutlivesSearch
    <2> SUFFICES ASSUME CacheInv, NEW c \in Callers, call[c] \in {"searching", "ending"}
                 PROVE  hand[c] > 0
        BY DEF TokenOutlivesSearch
    <2>1. hand[c] \in Nat
        BY LivesType DEF CacheInv, CacheTypeOK
    <2> QED BY <2>1 DEF CacheInv
<1> QED BY <1>1, CacheInductive, PTL

\* A token worth using is never replaced: the second look under the mutex suffices.
THEOREM CacheWastesNothing == CacheSpec => NoTokenWasted
<1>1. CacheInv /\ [CacheNext]_cacheVars => [expiry' > expiry => expiry <= Margin]_cacheVars
    <2> SUFFICES ASSUME CacheInv, CacheNext, expiry' > expiry PROVE expiry <= Margin
        OBVIOUS
    <2>1. expiry \in Nat
        BY LivesType DEF CacheInv, CacheTypeOK
    <2>2. CASE \E c \in Callers : Refreshed(c)
        BY <2>1, <2>2 DEF Refreshed, CacheInv, Usable
    <2>3. CASE expiry' \in {expiry, 0, Older(expiry)}
        BY <2>1, <2>3 DEF Older
    <2> QED BY <2>2, <2>3 DEF CacheNext, GetAccessToken, CallerStep, LockToRefresh,
                RefreshFails, SearchDone, CacheStop, CacheTick
<1> QED BY <1>1, CacheInductive, PTL DEF CacheSpec, NoTokenWasted

-----------------------------------------------------------------------------
(* The composition                                                          *)

\* What an update does between limiter and timetable is seen by the limiter as its own
\* steps.
THEOREM RequestsAreLimited == RequestSpec => LimiterSpec
<1>1. RequestInit => LimiterInit
    BY DEF RequestInit
<1>2. [RequestNext]_requestVars => [LimiterNext]_limiterVars
    BY DEF RequestNext, requestVars, Limited, Search, Progress, Stop, Tick, LimiterNext
<1> QED BY <1>1, <1>2, PTL DEF RequestSpec, LimiterSpec

\* Handlers and daemon use the token as its callers do.
THEOREM RequestsShareToken == RequestSpec => CacheSpec
<1>1. RequestInit => CacheInit
    BY DEF RequestInit
<1>2. [RequestNext]_requestVars => [CacheNext]_cacheVars
    BY DEF RequestNext, requestVars, Limited, Search, Progress, Stop, Tick, CacheNext
<1> QED BY <1>1, <1>2, PTL DEF RequestSpec, CacheSpec

\* Types of the composition; only updates the limiter let through search the timetable.
THEOREM RequestsTyped == RequestSpec => []RequestTypeOK
<1> DEFINE Through == \A h \in Handlers : call[h] # "idle" => update[h] = "running"
           All == LimiterInv /\ CacheInv /\ Through
<1>1. RequestInit => Through
    BY CallersAssumption DEF RequestInit, CacheInit
<1>2. ASSUME LimiterTypeOK, CacheTypeOK, Through, [RequestNext]_requestVars PROVE Through'
    <2> USE CallersAssumption DEF LimiterTypeOK, CacheTypeOK
    <2>1. ASSUME NEW h \in Handlers, Limited(h) PROVE Through'
        BY <1>2, <2>1 DEF Limited, Incr, IncrFails, Decide, Return, cacheVars
    <2>2. ASSUME NEW c \in Callers, Search(c) PROVE Through'
        BY <1>2, <2>2 DEF Search, GetAccessToken, SearchWith, Go, limiterVars
    <2>3. ASSUME NEW c \in Callers, Progress(c) PROVE Through'
        BY <1>2, <2>3 DEF Progress, CallerStep, LockToRefresh, Refreshed, RefreshFails,
               SearchDone, SearchWith, Go, limiterVars
    <2>4. CASE Stop
        BY <2>4 DEF Stop, CacheStop
    <2>5. CASE Tick
        BY <1>2, <2>5 DEF Tick, LimiterTick, CacheTick
    <2>6. CASE UNCHANGED requestVars
        BY <1>2, <2>6 DEF requestVars, limiterVars, cacheVars
    <2> QED BY <1>2, <2>1, <2>2, <2>3, <2>4, <2>5, <2>6 DEF RequestNext
<1>3. LimiterInv => LimiterTypeOK
    BY DEF LimiterInv
<1>4. CacheInv => CacheTypeOK
    BY DEF CacheInv
<1>5. LimiterTypeOK /\ CacheTypeOK /\ Through => RequestTypeOK
    BY DEF RequestTypeOK
<1>6. LimiterTypeOK /\ CacheTypeOK /\ Through /\ [RequestNext]_requestVars => Through'
    BY <1>2
<1> HIDE DEF Through
<1> QED
    BY <1>1, <1>3, <1>4, <1>5, <1>6, RequestsAreLimited, RequestsShareToken,
       LimiterInductive, CacheInductive, PTL DEF RequestSpec
=============================================================================
