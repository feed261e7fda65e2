----------------------------- MODULE NewsProofs -----------------------------
(***************************************************************************)
(* What the user believes of the train, against what the daemon knows: the *)
(* invariant that ties the messages sent, the baseline of the comparison   *)
(* and the cached service together, through every step of a turn, for every *)
(* set of routes, trains, delays and platforms and every threshold.        *)
(*                                                                         *)
(* The theorems are of days on which the daemon alone picks the trains: a  *)
(* choice of the user's, or a route created while its train is cancelled,  *)
(* leaves the baseline behind (see the README's findings).                 *)
(***************************************************************************)
EXTENDS TrackerProofs

\* The three agree about the train and its cancellation: t was told, l is the baseline,
\* s the service.
CancelAgrees(t, l, s) ==
    /\ t # None => t.svc = s.svc
    /\ l # None => l.svc = s.svc /\ l.cancelled = s.cancelled
    /\ BeliefOf(t, s.svc).cancelled <=> (l # None /\ s.cancelled)

\* They agree about delay and platform as far as the comparison sees.
DetailsAgree(t, l, s) ==
    LET b == BeliefOf(t, s.svc)
    IN /\ b.cancelled => b.delay = Unknown /\ b.platform = NoPlatform
       /\ b.delay # Unknown => AbsDiff(b.delay, l.delay) < DelayThreshold
       /\ AbsDiff(l.delay, s.delay) < DelayThreshold
       /\ b.platform # NoPlatform => b.platform = l.platform
       /\ s.platform # NoPlatform => s.platform = l.platform

\* A failed check leaves a reminder to tell what no baseline holds: the details agree
\* where checks do not fail.
Agrees(t, l, s) ==
    /\ CancelAgrees(t, l, s)
    /\ ~ChecksMayFail => IF l = None THEN t = None ELSE DetailsAgree(t, l, s)

-----------------------------------------------------------------------------
(* The comparison: what one check says and remembers                       *)

\* The baseline after a check, field by field.
LEMMA BaselineFields ==
    ASSUME NEW l \in Status, NEW f \in Status
    PROVE  LET n == NewBaseline(l, f)
           IN IF ShouldNotify(l, f)
              THEN /\ n.svc = f.svc /\ n.cancelled = f.cancelled /\ n.delay = f.delay
                   /\ n.platform = IF f.platform = NoPlatform THEN l.platform ELSE f.platform
              ELSE /\ n.svc = l.svc /\ n.cancelled = l.cancelled /\ n.delay = l.delay
                   /\ n.platform = IF l.platform = NoPlatform THEN f.platform ELSE l.platform
<1>1. l # None
    BY NoneAssumption
<1>2. \A a, b \in Status :
        /\ WithKnownPlatform(a, b).svc = a.svc
        /\ WithKnownPlatform(a, b).cancelled = a.cancelled
        /\ WithKnownPlatform(a, b).delay = a.delay
        /\ WithKnownPlatform(a, b).platform
              = IF a.platform = NoPlatform THEN b.platform ELSE a.platform
    BY DEF WithKnownPlatform, Status
<1>3. CASE ShouldNotify(l, f)
    <2>1. NewBaseline(l, f) = WithKnownPlatform(f, l)
        BY <1>1, <1>3 DEF NewBaseline
    <2> QED BY <1>2, <1>3, <2>1
<1>4. CASE ~ShouldNotify(l, f) /\ PlatformConfirmed(l, f)
    <2>1. NewBaseline(l, f) = WithKnownPlatform(l, f)
        BY <1>1, <1>4 DEF NewBaseline
    <2> QED BY <1>2, <1>4, <2>1
<1>5. CASE ~ShouldNotify(l, f) /\ ~PlatformConfirmed(l, f)
    <2>1. NewBaseline(l, f) = l
        BY <1>1, <1>5 DEF NewBaseline
    <2> QED BY <1>5, <2>1 DEF PlatformConfirmed
<1> QED BY <1>3, <1>4, <1>5

\* The fields of a status, and the threshold.
LEMMA StatusFields ==
    ASSUME NEW f \in Status
    PROVE  /\ f # None /\ f.svc \in Trains /\ f.cancelled \in BOOLEAN /\ f.delay \in Nat
           /\ DelayThreshold \in Nat /\ DelayThreshold > 0
<1>1. f # None
    BY NoneAssumption
<1>2. f.svc \in Trains /\ f.cancelled \in BOOLEAN /\ f.delay \in Delays
    BY DEF Status
<1>3. f.delay \in Nat
    BY <1>2, TimesAssumption
<1>4. DelayThreshold \in Nat /\ DelayThreshold > 0
    BY DelayThresholdAssumption
<1> QED BY <1>1, <1>2, <1>3, <1>4

\* A belief about a train.
LEMMA BeliefTypes ==
    ASSUME NEW t \in Belief \cup {None}, NEW s \in Trains
    PROVE  BeliefOf(t, s) \in Belief /\ BeliefOf(t, s).svc = s
BY UnawareTypes DEF BeliefOf, Unaware

\* What a belief is after a check.
TellCheck(t, l, f) == IF Announces(l, f) THEN TellAlert(t, l, f) ELSE t

\* A message is about the train it names.
LEMMA ToldBelief ==
    ASSUME NEW t, t # None
    PROVE  BeliefOf(t, t.svc) = t
BY DEF BeliefOf

\* A check keeps the agreement about the cancellation, whatever it observes.
LEMMA CheckCancel ==
    ASSUME NEW t \in Belief \cup {None}, NEW l \in Status \cup {None},
           NEW s \in Status, NEW f \in Status, f.svc = s.svc, CancelAgrees(t, l, s)
    PROVE  CancelAgrees(TellCheck(t, l, f), NewBaseline(l, f), f)
<1>0. f # None /\ f.svc \in Trains /\ f.cancelled \in BOOLEAN /\ s.cancelled \in BOOLEAN
    BY NoneAssumption DEF Status
<1>b. BeliefOf(t, f.svc) \in Belief /\ BeliefOf(t, f.svc).svc = f.svc
    BY <1>0, BeliefTypes
<1>1. CASE l = None
    <2>1. NewBaseline(l, f) = f
        BY <1>1 DEF NewBaseline
    <2>2. CASE f.cancelled
        <3>1. TellCheck(t, l, f) = TellStatus(f)
            BY <1>1, <2>2 DEF TellCheck, Announces, TellAlert
        <3>2. TellStatus(f).svc = f.svc /\ TellStatus(f).cancelled = f.cancelled
            BY DEF TellStatus
        <3>3. TellStatus(f) # None
            BY TellTypes, NoneAssumption
        <3> QED BY <1>0, <2>1, <3>1, <3>2, <3>3, ToldBelief DEF CancelAgrees
    <2>3. CASE ~f.cancelled
        <3>1. TellCheck(t, l, f) = t
            BY <1>1, <2>3 DEF TellCheck, Announces
        <3> QED BY <1>0, <1>1, <2>1, <2>3, <3>1 DEF CancelAgrees
    <2> QED BY <2>2, <2>3
<1>2. CASE l # None
    <2>1. l \in Status /\ l.svc = s.svc /\ l.cancelled = s.cancelled
        BY <1>2 DEF CancelAgrees
    <2>2. NewBaseline(l, f) # None
        BY BaselineTypes, NoneAssumption
    <2>3. NewBaseline(l, f).svc = f.svc /\ NewBaseline(l, f).cancelled = f.cancelled
        BY <2>1, BaselineFields DEF ShouldNotify
    <2>4. CASE Announces(l, f)
        <3>1. TellCheck(t, l, f) = TellChanges(t, l, f)
            BY <1>2, <2>4 DEF TellCheck, TellAlert
        <3>2. /\ TellChanges(t, l, f).svc = f.svc
              /\ TellChanges(t, l, f).cancelled
                    = IF l.cancelled # f.cancelled THEN f.cancelled
                      ELSE BeliefOf(t, f.svc).cancelled
            BY DEF TellChanges
        <3>3. TellCheck(t, l, f) # None
            BY <2>1, <2>4, AlertTypes, NoneAssumption DEF TellCheck
        <3> DEFINE c == TellCheck(t, l, f)
        <3>4. c.svc = f.svc /\ c.cancelled = f.cancelled
            <4>1. BeliefOf(t, f.svc).cancelled <=> s.cancelled
                BY <1>2 DEF CancelAgrees
            <4>2. BeliefOf(t, f.svc).cancelled \in BOOLEAN
                BY <1>b DEF Belief
            <4>3. BeliefOf(t, f.svc).cancelled = s.cancelled
                BY <1>0, <4>1, <4>2
            <4> QED BY <2>1, <3>1, <3>2, <4>3
        <3> HIDE DEF c
        <3>5. BeliefOf(c, f.svc) = c
            BY <3>3, <3>4, ToldBelief DEF c
        <3>6. CancelAgrees(c, NewBaseline(l, f), f)
            BY <2>2, <2>3, <3>4, <3>5 DEF CancelAgrees
        <3> QED BY <3>6 DEF c
    <2>5. CASE ~Announces(l, f)
        <3>1. TellCheck(t, l, f) = t
            BY <2>5 DEF TellCheck
        <3>2. l.cancelled = f.cancelled
            BY <1>2, <2>1, <2>5 DEF Announces, ShouldNotify, Status
        <3> QED BY <1>2, <2>1, <2>2, <2>3, <3>1, <3>2 DEF CancelAgrees
    <2> QED BY <2>4, <2>5
<1> QED BY <1>1, <1>2

\* The distance of two delays.
LEMMA DiffFacts ==
    ASSUME NEW a \in Nat, NEW b \in Nat
    PROVE  AbsDiff(a, a) = 0 /\ AbsDiff(a, b) = AbsDiff(b, a) /\ AbsDiff(a, b) \in Nat
BY DEF AbsDiff

\* A check keeps the agreement about delay and platform.
LEMMA CheckDetails ==
    ASSUME NEW t \in Belief \cup {None}, NEW l \in Status, NEW s \in Status, NEW f \in Status,
           f.svc = s.svc, CancelAgrees(t, l, s), DetailsAgree(t, l, s)
    PROVE  DetailsAgree(TellCheck(t, l, f), NewBaseline(l, f), f)
<1> DEFINE b == BeliefOf(t, f.svc)
           n == NewBaseline(l, f)
<1>0. /\ l # None /\ f.svc \in Trains /\ f.delay \in Nat /\ l.delay \in Nat
      /\ f.cancelled \in BOOLEAN /\ l.cancelled \in BOOLEAN
      /\ DelayThreshold \in Nat /\ DelayThreshold > 0
    BY StatusFields
<1>1. /\ b.cancelled => b.delay = Unknown /\ b.platform = NoPlatform
      /\ b.delay # Unknown => AbsDiff(b.delay, l.delay) < DelayThreshold
      /\ b.platform # NoPlatform => b.platform = l.platform
      /\ b.cancelled <=> l.cancelled
    BY <1>0 DEF DetailsAgree, CancelAgrees
<1>2. b.cancelled \in BOOLEAN
    BY <1>0, BeliefTypes DEF Belief
<1>3. IF ShouldNotify(l, f)
      THEN /\ n.svc = f.svc /\ n.cancelled = f.cancelled /\ n.delay = f.delay
           /\ n.platform = IF f.platform = NoPlatform THEN l.platform ELSE f.platform
      ELSE /\ n.svc = l.svc /\ n.cancelled = l.cancelled /\ n.delay = l.delay
           /\ n.platform = IF l.platform = NoPlatform THEN f.platform ELSE l.platform
    BY BaselineFields
<1> HIDE DEF b, n
<1>4. AbsDiff(n.delay, f.delay) < DelayThreshold
    <2>1. CASE ShouldNotify(l, f)
        BY <1>0, <1>3, <2>1, DiffFacts
    <2>2. CASE ~ShouldNotify(l, f)
        <3>1. AbsDiff(l.delay, f.delay) \in Nat /\ ~(AbsDiff(l.delay, f.delay) >= DelayThreshold)
            BY <1>0, <2>2, DiffFacts DEF ShouldNotify, DelayMoved
        <3> QED BY <1>0, <1>3, <2>2, <3>1
    <2> QED BY <2>1, <2>2
<1>5. f.platform # NoPlatform => f.platform = n.platform
    BY <1>3 DEF ShouldNotify, PlatformReassigned
<1>6. CASE Announces(l, f)
    <2> DEFINE c == TellCheck(t, l, f)
    <2>1. c = TellChanges(t, l, f)
        BY <1>0, <1>6 DEF TellCheck, TellAlert
    <2>2. /\ c.svc = f.svc
          /\ c.cancelled = IF l.cancelled # f.cancelled THEN f.cancelled ELSE b.cancelled
          /\ c.delay = IF f.cancelled THEN Unknown
                       ELSE IF l.delay # f.delay THEN f.delay ELSE b.delay
          /\ c.platform = IF f.cancelled THEN NoPlatform
                          ELSE IF PlatformReassigned(l, f) THEN f.platform ELSE b.platform
        BY <2>1 DEF TellChanges, b
    <2>3. c # None
        BY <1>6, AlertTypes, NoneAssumption DEF TellCheck
    <2> HIDE DEF c
    <2>4. BeliefOf(c, f.svc) = c
        BY <2>2, <2>3, ToldBelief
    <2>5. ShouldNotify(l, f)
        BY <1>0, <1>6 DEF Announces
    <2>6. c.cancelled => c.delay = Unknown /\ c.platform = NoPlatform
        BY <1>0, <1>1, <2>2
    <2>7. c.delay # Unknown => AbsDiff(c.delay, n.delay) < DelayThreshold
        BY <1>0, <1>1, <1>3, <2>2, <2>5, DiffFacts
    <2>8. c.platform # NoPlatform => c.platform = n.platform
        BY <1>1, <1>3, <2>2, <2>5 DEF PlatformReassigned
    <2>9. DetailsAgree(c, n, f)
        BY <1>4, <1>5, <2>4, <2>6, <2>7, <2>8 DEF DetailsAgree
    <2> QED BY <2>9 DEF c, n
<1>7. CASE ~Announces(l, f)
    <2>1. TellCheck(t, l, f) = t
        BY <1>7 DEF TellCheck
    <2>2. b.delay # Unknown => AbsDiff(b.delay, n.delay) < DelayThreshold
        BY <1>0, <1>1, <1>3, <1>7 DEF Announces
    <2>3. b.platform # NoPlatform => b.platform = n.platform
        BY <1>0, <1>1, <1>3, <1>7 DEF Announces
    <2> QED BY <1>1, <1>4, <1>5, <2>1, <2>2, <2>3 DEF DetailsAgree, b, n
<1> QED BY <1>6, <1>7

\* A whole status, told or not yet told, agrees with a baseline that is the status.
LEMMA WholeStatus ==
    ASSUME NEW f \in Status, NEW t \in {TellStatus(f), None}, t = None => ~f.cancelled
    PROVE  Agrees(t, f, f)
<1>0. /\ f # None /\ f.svc \in Trains /\ f.cancelled \in BOOLEAN /\ f.delay \in Nat
      /\ DelayThreshold \in Nat /\ DelayThreshold > 0
    BY StatusFields
<1>1. AbsDiff(f.delay, f.delay) < DelayThreshold
    BY <1>0, DiffFacts
<1>2. CASE t = None
    <2>1. BeliefOf(t, f.svc) = Unaware(f.svc)
        BY <1>2 DEF BeliefOf
    <2>2. /\ ~BeliefOf(t, f.svc).cancelled
          /\ BeliefOf(t, f.svc).cancelled \in BOOLEAN
          /\ BeliefOf(t, f.svc).delay = Unknown /\ BeliefOf(t, f.svc).platform = NoPlatform
        BY <2>1 DEF Unaware
    <2>3. CancelAgrees(t, f, f)
        BY <1>0, <1>2, <2>2 DEF CancelAgrees
    <2>4. DetailsAgree(t, f, f)
        BY <1>1, <2>2 DEF DetailsAgree
    <2> QED BY <1>0, <2>3, <2>4 DEF Agrees
<1>3. CASE t = TellStatus(f)
    <2>1. t # None
        BY <1>3, TellTypes, NoneAssumption
    <2>2. /\ t.svc = f.svc /\ t.cancelled = f.cancelled
          /\ t.delay = IF f.cancelled THEN Unknown ELSE f.delay
          /\ t.platform = IF f.cancelled THEN NoPlatform ELSE f.platform
        BY <1>3 DEF TellStatus
    <2>3. BeliefOf(t, f.svc) = t
        BY <2>1, <2>2, ToldBelief
    <2> QED BY <1>0, <1>1, <2>1, <2>2, <2>3 DEF Agrees, CancelAgrees, DetailsAgree
<1> QED BY <1>2, <1>3

\* One check: what it says and what it remembers agree with what it saw.
LEMMA CheckAgrees ==
    ASSUME NEW t \in Belief \cup {None}, NEW l \in Status \cup {None},
           NEW s \in Status, NEW f \in Status, f.svc = s.svc, Agrees(t, l, s)
    PROVE  Agrees(TellCheck(t, l, f), NewBaseline(l, f), f)
<1>1. CancelAgrees(TellCheck(t, l, f), NewBaseline(l, f), f)
    BY CheckCancel DEF Agrees
<1>2. NewBaseline(l, f) # None
    BY BaselineTypes, NoneAssumption
<1>3. ASSUME ~ChecksMayFail PROVE DetailsAgree(TellCheck(t, l, f), NewBaseline(l, f), f)
    <2>1. CASE l # None
        BY <1>3, <2>1, CheckDetails DEF Agrees
    <2>2. CASE l = None
        <3>1. t = None /\ NewBaseline(l, f) = f
            BY <1>3, <2>2 DEF Agrees, NewBaseline
        <3>2. TellCheck(t, l, f) = IF f.cancelled THEN TellStatus(f) ELSE None
            BY <2>2, <3>1 DEF TellCheck, Announces, TellAlert
        <3>3. Agrees(TellCheck(t, l, f), f, f)
            <4>1. CASE f.cancelled
                BY <3>2, <4>1, WholeStatus, TellTypes, NoneAssumption
            <4>2. CASE ~f.cancelled
                BY <3>2, <4>2, WholeStatus
            <4> QED BY <4>1, <4>2
        <3> QED BY <1>2, <1>3, <3>1, <3>3 DEF Agrees
    <2> QED BY <2>1, <2>2
<1> QED BY <1>1, <1>2, <1>3 DEF Agrees

\* A reminder tells the status as it is cached; before any baseline it is of a train
\* that runs.
LEMMA ReminderAgrees ==
    ASSUME NEW t \in Belief \cup {None}, NEW l \in Status \cup {None}, NEW s \in Status,
           Agrees(t, l, s), l = None => ~s.cancelled /\ ChecksMayFail
    PROVE  Agrees(TellStatus(s), l, s)
<1>0. s # None /\ s.svc \in Trains /\ s.cancelled \in BOOLEAN /\ s.delay \in Nat
    BY StatusFields
<1> DEFINE c == TellStatus(s)
<1>1. /\ c.svc = s.svc /\ c.cancelled = s.cancelled
      /\ c.delay = IF s.cancelled THEN Unknown ELSE s.delay
      /\ c.platform = IF s.cancelled THEN NoPlatform ELSE s.platform
    BY DEF TellStatus
<1>2. c # None
    BY TellTypes, NoneAssumption
<1> HIDE DEF c
<1>3. BeliefOf(c, s.svc) = c
    BY <1>1, <1>2, ToldBelief
<1>4. CancelAgrees(c, l, s)
    BY <1>0, <1>1, <1>2, <1>3 DEF Agrees, CancelAgrees
<1>5. ASSUME ~ChecksMayFail PROVE l # None /\ DetailsAgree(c, l, s)
    <2>1. l # None /\ DetailsAgree(t, l, s)
        BY <1>5 DEF Agrees
    <2>2. l.delay \in Nat /\ AbsDiff(s.delay, l.delay) = AbsDiff(l.delay, s.delay)
        BY <1>0, <2>1, StatusFields, DiffFacts
    <2> QED BY <1>0, <1>1, <1>3, <2>1, <2>2 DEF DetailsAgree
<1>6. Agrees(c, l, s)
    BY <1>4, <1>5 DEF Agrees
<1> QED BY <1>6 DEF c

-----------------------------------------------------------------------------
(* The invariant                                                           *)

\* The route has a train with live data.
Tracked(r) == redis[r].service # None /\ ~redis[r].service.scheduleOnly

\* Between the turns of a route.
AtRest(r) ==
    IF Tracked(r) THEN Agrees(chat[r].told, redis[r].last, redis[r].service)
    ELSE /\ redis[r].last = None
         /\ chat[r].told = None \/ (redis[r].service = None /\ Over(r))

\* In the middle of one: nothing tracked yet; a switch to another train under way; a
\* check under way; or nothing under way.
Untold(r) == redis[r].last = None /\ chat[r].told = None
Adopting(r) ==
    /\ redis[r].service = job.fresh
    /\ chat[r].told # None => chat[r].told.svc # redis[r].service.svc

\* Where the daemon stands in the route's turn, and what holds there.
InTurn(r) ==
    LET t == chat[r].told  l == redis[r].last  s == redis[r].service
    IN /\ pc \in {"transition", "plan", "miss", "nearest", "markChoice", "timetable"} =>
              s = job.cached /\ ~Tracked(r) /\ Untold(r)
       /\ pc = "transitionSave" => s = job.fresh /\ Untold(r)
       /\ pc = "transitionTell" => s = job.fresh /\ l = s /\ t = None
       /\ pc = "check" => s = job.cached /\ Agrees(t, l, s)
       /\ pc = "checkSave" =>
              /\ s = job.cached /\ job.fresh.svc = s.svc
              /\ Agrees(t, NewBaseline(l, job.fresh), job.fresh)
       /\ pc \in {"better", "remind", "mark"} =>
              /\ Tracked(r) /\ Agrees(t, l, s)
              /\ pc = "better" => s.svc = job.cached.svc
              /\ l = None => s = job.cached /\ ChecksMayFail
       /\ pc = "adoptSave" => Adopting(r)
       /\ pc = "adoptTell" => Adopting(r) /\ l = s

\* A route in its turn, or at rest.
News(r) == IF pc \in Turns /\ job.route = r THEN InTurn(r) ELSE AtRest(r)

\* Of a process that has not stopped, where every message arrives.
NewsInv == crashes = 0 => \A r \in Routes : News(r)

\* The handlers that pick a train do not run.
NoPicker == \A h \in Handlers : handler[h].at \notin {"choose", "plan", "nearest", "schedule"}

-----------------------------------------------------------------------------
(* The steps                                                               *)

\* A route whose keys and beliefs a step leaves alone, between its turns.
LEMMA RestStays ==
    ASSUME Types, [Next]_vars, NEW r \in Routes, AtRest(r),
           chat'[r].told = chat[r].told,
           redis'[r].service = redis[r].service, redis'[r].last = redis[r].last
    PROVE  AtRest(r)'
BY OverStays DEF AtRest, Tracked

\* The ends of a turn: with live data that agrees, and with nothing told.
LEMMA RestTracked ==
    ASSUME NEW r \in Routes, redis'[r].service \in LiveStatus,
           Agrees(chat'[r].told, redis'[r].last, redis'[r].service)
    PROVE  AtRest(r)'
<1>1. redis'[r].service # None /\ ~redis'[r].service.scheduleOnly
    BY NoneAssumption DEF LiveStatus
<1> QED BY <1>1 DEF AtRest, Tracked

LEMMA RestUntold ==
    ASSUME NEW r \in Routes, ~Tracked(r)', Untold(r)'
    PROVE  AtRest(r)'
BY DEF AtRest, Untold

\* What the updates of the keys make of the route's service and baseline.
LEMMA KeysHere ==
    ASSUME redis \in [Routes -> Keys], NEW r \in Routes
    PROVE  /\ \A v : redis' = [redis EXCEPT ![r].service = v] =>
                    redis'[r].service = v /\ redis'[r].last = redis[r].last
           /\ \A v : redis' = [redis EXCEPT ![r].last = v] =>
                    redis'[r].service = redis[r].service /\ redis'[r].last = v
           /\ \A v, w : redis' = [redis EXCEPT ![r].last = w, ![r].service = v] =>
                    redis'[r].service = v /\ redis'[r].last = w
           /\ \A v, w : redis' = [redis EXCEPT ![r].service = v, ![r].first_miss = w] =>
                    redis'[r].service = v /\ redis'[r].last = redis[r].last
           /\ \A w : \/ redis' = [redis EXCEPT ![r].first_miss = w]
                    \/ redis' = [redis EXCEPT ![r].backoff = w]
                    \/ redis' = [redis EXCEPT ![r].choice_sent = w]
                    \/ redis' = [redis EXCEPT ![r].alert_sent = @ \cup w] =>
                    redis'[r].service = redis[r].service /\ redis'[r].last = redis[r].last
BY DEF Keys

\* A message that cannot get lost.
LEMMA SendHere ==
    ASSUME chat \in [Routes -> Chat], ~SendsMayFail, NEW r \in Routes, NEW b, Send(r, b)
    PROVE  chat'[r].told = b
BY DEF Send, Chat

\* In a turn of r.
LEMMA TurnHere ==
    ASSUME Types, DaemonActs, NEW r \in Routes, r = job.route, pc \in Turns, News(r)
    PROVE  /\ InTurn(r)
           /\ redis[r].service \in Status \cup {None} /\ redis[r].last \in Status \cup {None}
           /\ chat[r].told \in Belief \cup {None}
           /\ r # None /\ None \notin LiveStatus
BY TypesHere, NoneAssumption DEF News, LiveStatus

\* The turns, branch by branch: from the timetable to live data.
LEMMA TransitionNewsKept ==
    ASSUME Types, DaemonActs, ~SendsMayFail, NEW r \in Routes, News(r),
           TransitionPlan(r) \/ TransitionSave(r) \/ TransitionTell(r)
    PROVE  News(r)'
<1>0. r = job.route /\ pc \in Turns
    BY DEF TransitionPlan, TransitionSave, TransitionTell, Turns, Steps
<1>h. /\ InTurn(r) /\ r # None
      /\ redis \in [Routes -> Keys] /\ chat \in [Routes -> Chat]
    BY <1>0, TurnHere, TypesHere
<1>1. CASE TransitionPlan(r)
    <2>1. pc = "transition" /\ chat' = chat /\ ~Tracked(r) /\ Untold(r)
        BY <1>1, <1>h DEF TransitionPlan, InTurn
    <2>2. CASE NextRoute /\ redis' = redis
        BY <1>h, <2>1, <2>2, RestUntold DEF NextRoute, NoJob, News, Tracked, Untold
    <2>3. ASSUME NEW st \in BoardAnswers(Dep[r]), redis' = [redis EXCEPT ![r].service = st],
                 job' = [job EXCEPT !.fresh = st], pc' = "transitionSave"
          PROVE  News(r)'
        <3>1. redis'[r].service = st /\ redis'[r].last = redis[r].last
            BY <1>h, <2>3, KeysHere, Zenon
        <3>2. job'.fresh = st
            BY <2>3 DEF Types, TypeOK, DaemonTypeOK
        <3>3. InTurn(r)'
            BY <2>1, <2>3, <3>1, <3>2 DEF InTurn, Untold
        <3>4. job'.route = r
            BY <1>0, <2>3 DEF Types, TypeOK, DaemonTypeOK
        <3> QED BY <2>3, <3>3, <3>4 DEF News, Turns, Steps
    <2> QED BY <1>1, <2>2, <2>3 DEF TransitionPlan
<1>2. CASE TransitionSave(r)
    <2>1. /\ pc = "transitionSave" /\ chat' = chat /\ job' = job /\ pc' = "transitionTell"
          /\ redis' = [redis EXCEPT ![r].last = job.fresh]
          /\ redis[r].service = job.fresh /\ Untold(r)
        BY <1>2, <1>h DEF TransitionSave, Goto, InTurn
    <2>2. redis'[r].service = redis[r].service /\ redis'[r].last = job.fresh
        BY <1>h, <2>1, KeysHere, Zenon
    <2>3. InTurn(r)'
        BY <2>1, <2>2 DEF InTurn, Untold
    <2> QED BY <1>0, <2>1, <2>3 DEF News, Turns, Steps
<1>3. CASE TransitionTell(r)
    <2>1. /\ pc = "transitionTell" /\ redis' = redis /\ NextRoute
          /\ redis[r].service = job.fresh /\ redis[r].last = job.fresh /\ chat[r].told = None
          /\ job.fresh \in LiveStatus
        BY <1>3, <1>h DEF TransitionTell, InTurn, Types, TurnOK
    <2>2. job.fresh \in Status
        BY <2>1 DEF LiveStatus
    <2>3. /\ chat'[r].told = TellStatus(job.fresh) \/ chat'[r].told = None
          /\ chat'[r].told = None => ~job.fresh.cancelled
        <3>1. CASE job.fresh.cancelled
            <4>1. chat'[r].told = TellStatus(job.fresh)
                BY <1>3, <1>h, <3>1, SendHere DEF TransitionTell, TransitionNews
            <4> QED BY <2>2, <4>1, TellTypes, NoneAssumption
        <3>2. CASE ~job.fresh.cancelled
            BY <1>3, <2>1, <3>2 DEF TransitionTell, TransitionNews
        <3> QED BY <3>1, <3>2
    <2>4. Agrees(chat'[r].told, job.fresh, job.fresh)
        BY <2>2, <2>3, WholeStatus
    <2>5. AtRest(r)'
        BY <2>1, <2>4, RestTracked
    <2> QED BY <1>h, <2>1, <2>5 DEF NextRoute, NoJob, News
<1> QED BY <1>1, <1>2, <1>3

\* A check.
LEMMA CheckNewsKept ==
    ASSUME Types, DaemonActs, ~SendsMayFail, NEW r \in Routes, News(r),
           CheckFails(r) \/ CheckAnswers(r) \/ CheckSave(r)
    PROVE  News(r)'
<1>0. r = job.route /\ pc \in Turns
    BY DEF CheckFails, CheckAnswers, CheckSave, Turns, Steps
<1>h. /\ InTurn(r) /\ redis \in [Routes -> Keys] /\ chat \in [Routes -> Chat]
      /\ redis[r].service \in Status \cup {None} /\ redis[r].last \in Status \cup {None}
      /\ chat[r].told \in Belief \cup {None}
    BY <1>0, TurnHere, TypesHere
<1>c. /\ job.cached # None /\ ~job.cached.scheduleOnly /\ job.cached \in Status
      /\ pc = "checkSave" => job.fresh \in LiveStatus /\ job.fresh \in Status
    BY DEF CheckFails, CheckAnswers, CheckSave, Checking, Types, TypeOK, DaemonTypeOK, TurnOK,
       LiveStatus
<1>1. CASE CheckFails(r)
    <2>1. /\ ChecksMayFail /\ pc = "check" /\ pc' = "better" /\ job' = job
          /\ redis' = redis /\ chat' = chat
        BY <1>1 DEF CheckFails, Goto, storeVars
    <2>2. redis[r].service = job.cached
          /\ Agrees(chat[r].told, redis[r].last, redis[r].service)
        BY <1>h, <2>1 DEF InTurn
    <2>3. InTurn(r)'
        BY <1>c, <2>1, <2>2 DEF InTurn, Tracked
    <2> QED BY <1>0, <2>1, <2>3 DEF News, Turns, Steps
<1>2. CASE CheckAnswers(r)
    <2>1. PICK st \in LiveStatus :
            /\ st.svc = job.cached.svc
            /\ job' = [job EXCEPT !.fresh = st]
            /\ IF Announces(redis[r].last, st)
               THEN Send(r, TellAlert(chat[r].told, redis[r].last, st))
               ELSE UNCHANGED chat
        BY <1>2 DEF CheckAnswers
    <2>2. pc = "check" /\ pc' = "checkSave" /\ redis' = redis
        BY <1>2 DEF CheckAnswers
    <2>3. redis[r].service = job.cached
          /\ Agrees(chat[r].told, redis[r].last, job.cached)
        BY <1>h, <2>2 DEF InTurn
    <2>4. chat'[r].told = TellCheck(chat[r].told, redis[r].last, st)
        BY <1>h, <2>1, SendHere DEF TellCheck
    <2>5. Agrees(chat'[r].told, NewBaseline(redis[r].last, st), st)
        BY <1>c, <1>h, <2>1, <2>3, <2>4, CheckAgrees DEF LiveStatus
    <2>6. /\ job'.fresh = st /\ job'.cached = job.cached /\ job'.route = r
        BY <1>0, <2>1 DEF Types, TypeOK, DaemonTypeOK
    <2>7. InTurn(r)'
        BY <2>1, <2>2, <2>3, <2>5, <2>6 DEF InTurn
    <2> QED BY <2>2, <2>6, <2>7 DEF News, Turns, Steps
<1>3. CASE CheckSave(r)
    <2> DEFINE base == NewBaseline(redis[r].last, job.fresh)
    <2>1. /\ pc = "checkSave" /\ pc' = "better" /\ job' = job /\ chat' = chat
          /\ redis' = [redis EXCEPT ![r].last = base, ![r].service = job.fresh]
        BY <1>3 DEF CheckSave, Goto
    <2>2. /\ redis[r].service = job.cached /\ job.fresh.svc = redis[r].service.svc
          /\ Agrees(chat[r].told, base, job.fresh)
        BY <1>h, <2>1 DEF InTurn
    <2>3. base # None
        BY <1>c, <1>h, <2>1, BaselineTypes, NoneAssumption
    <2> HIDE DEF base
    <2>4. redis'[r].service = job.fresh /\ redis'[r].last = base
        BY <1>h, <2>1, KeysHere, Zenon
    <2>5. Tracked(r)'
        BY <1>c, <2>1, <2>4, NoneAssumption DEF Tracked, LiveStatus
    <2>6. InTurn(r)'
        BY <2>1, <2>2, <2>3, <2>4, <2>5 DEF InTurn
    <2> QED BY <1>0, <2>1, <2>6 DEF News, Turns, Steps
<1> QED BY <1>1, <1>2, <1>3

\* A better train, and the switch to it.
LEMMA SwitchNewsKept ==
    ASSUME Types, DaemonActs, ~SendsMayFail, NEW r \in Routes, News(r),
           CheckBetter(r) \/ AdoptSave(r) \/ AdoptTell(r)
    PROVE  News(r)'
<1>0. r = job.route /\ pc \in Turns
    BY DEF CheckBetter, AdoptSave, AdoptTell, Turns, Steps
<1>h. /\ InTurn(r) /\ redis \in [Routes -> Keys] /\ chat \in [Routes -> Chat] /\ r # None
      /\ redis[r].service \in Status \cup {None} /\ redis[r].last \in Status \cup {None}
      /\ chat[r].told \in Belief \cup {None}
    BY <1>0, TurnHere, TypesHere
<1>f. pc \in {"adoptSave", "adoptTell"} => job.fresh \in LiveStatus /\ job.fresh \in Status
    BY DEF Types, TurnOK, LiveStatus
<1>1. CASE CheckBetter(r)
    <2>1. pc = "better" /\ chat' = chat
        BY <1>1 DEF CheckBetter
    <2>2. /\ Tracked(r) /\ Agrees(chat[r].told, redis[r].last, redis[r].service)
          /\ redis[r].service.svc = job.cached.svc
          /\ redis[r].last = None => redis[r].service = job.cached /\ ChecksMayFail
        BY <1>h, <2>1 DEF InTurn
    <2>3. CASE Goto("remind") /\ UNCHANGED redis
        <3>1. InTurn(r)'
            BY <2>1, <2>2, <2>3 DEF Goto, InTurn, Tracked
        <3> QED BY <1>0, <2>3, <3>1 DEF Goto, News, Turns, Steps
    <2>4. ASSUME NEW st \in BoardAnswers(Dep[r]), st # None, st.svc # job.cached.svc,
                 redis' = [redis EXCEPT ![r].service = st],
                 job' = [job EXCEPT !.fresh = st], pc' = "adoptSave"
          PROVE  News(r)'
        <3>1. redis'[r].service = st
            BY <1>h, <2>4, KeysHere, Zenon
        <3>2. job'.fresh = st /\ job'.route = r
            BY <1>0, <2>4 DEF Types, TypeOK, DaemonTypeOK
        <3>3. chat[r].told # None => chat[r].told.svc # st.svc
            BY <2>2, <2>4 DEF Agrees, CancelAgrees
        <3>4. InTurn(r)'
            BY <2>1, <2>4, <3>1, <3>2, <3>3 DEF InTurn, Adopting
        <3> QED BY <2>4, <3>2, <3>4 DEF News, Turns, Steps
    <2> QED BY <1>1, <2>3, <2>4 DEF CheckBetter
<1>2. CASE AdoptSave(r)
    <2>1. /\ pc = "adoptSave" /\ pc' = "adoptTell" /\ job' = job /\ chat' = chat
          /\ redis' = [redis EXCEPT ![r].last = job.fresh]
        BY <1>2 DEF AdoptSave, AdoptBaseline, Goto
    <2>2. redis'[r].service = redis[r].service /\ redis'[r].last = job.fresh
        BY <1>h, <2>1, KeysHere, Zenon
    <2>3. InTurn(r)'
        BY <1>h, <2>1, <2>2 DEF InTurn, Adopting
    <2> QED BY <1>0, <2>1, <2>3 DEF News, Turns, Steps
<1>3. CASE AdoptTell(r)
    <2>1. /\ pc = "adoptTell" /\ redis' = redis /\ Send(r, TellStatus(job.fresh))
          /\ IF job.cached = None THEN NextRoute ELSE Goto("remind")
        BY <1>3 DEF AdoptTell, AdoptNews
    <2>2. redis[r].service = job.fresh /\ redis[r].last = job.fresh
        BY <1>h, <2>1 DEF InTurn, Adopting
    <2>3. chat'[r].told = TellStatus(job.fresh)
        BY <1>h, <2>1, SendHere
    <2>4. Agrees(TellStatus(job.fresh), job.fresh, job.fresh)
        BY <1>f, <2>1, WholeStatus, TellTypes, NoneAssumption
    <2>5. CASE job.cached = None
        <3>1. AtRest(r)'
            BY <1>f, <2>1, <2>2, <2>3, <2>4, RestTracked
        <3> QED BY <1>h, <2>1, <2>5, <3>1 DEF NextRoute, NoJob, News
    <2>6. CASE job.cached # None
        <3>1. Tracked(r)' /\ job.fresh # None
            BY <1>f, <2>1, <2>2, NoneAssumption DEF Tracked, LiveStatus
        <3>2. pc' = "remind" /\ job' = job
            BY <2>1, <2>6 DEF Goto
        <3>3. InTurn(r)'
            BY <2>1, <2>2, <2>3, <2>4, <3>1, <3>2 DEF InTurn
        <3> QED BY <1>0, <3>2, <3>3 DEF News, Turns, Steps
    <2> QED BY <2>5, <2>6
<1> QED BY <1>1, <1>2, <1>3

\* The reminders of a check.
LEMMA RemindNewsKept ==
    ASSUME Types, DaemonActs, ~SendsMayFail, NEW r \in Routes, News(r),
           SkipReminder(r) \/ SendDepartureReminder(r) \/ MarkReminder(r) \/ EndReminders(r)
    PROVE  News(r)'
<1>0. r = job.route /\ pc \in Turns /\ pc \in {"remind", "mark"}
    BY DEF SkipReminder, SendDepartureReminder, MarkReminder, EndReminders, Turns, Steps
<1>h. /\ InTurn(r) /\ redis \in [Routes -> Keys] /\ chat \in [Routes -> Chat] /\ r # None
      /\ redis[r].service \in Status \cup {None} /\ redis[r].last \in Status \cup {None}
      /\ chat[r].told \in Belief \cup {None}
    BY <1>0, TurnHere, TypesHere
<1>i. /\ Tracked(r) /\ Agrees(chat[r].told, redis[r].last, redis[r].service)
      /\ redis[r].last = None => redis[r].service = job.cached /\ ChecksMayFail
    BY <1>0, <1>h DEF InTurn
<1>1. CASE SkipReminder(r)
    <2>1. /\ pc = "remind" /\ pc' = pc /\ redis' = redis /\ chat' = chat
          /\ job'.cached = job.cached /\ job'.route = r
        BY <1>0, <1>1 DEF SkipReminder, storeVars, Types, TypeOK, DaemonTypeOK
    <2>2. InTurn(r)'
        BY <1>i, <2>1 DEF InTurn, Tracked
    <2> QED BY <2>1, <2>2 DEF News, Turns, Steps
<1>2. CASE SendDepartureReminder(r)
    <2>1. PICK o \in job.left :
            /\ ReminderDue(r, o)
            /\ chat' = [chat EXCEPT ![r].told = TellStatus(redis[r].service),
                                    ![r].reminded[o] = OneMore(@)]
            /\ job' = [job EXCEPT !.offset = o]
        BY <1>2, <1>i DEF SendDepartureReminder, Tracked
    <2>2. pc = "remind" /\ pc' = "mark" /\ redis' = redis
        BY <1>2 DEF SendDepartureReminder
    <2>3. job'.cached = job.cached /\ job'.route = r
        BY <1>0, <2>1 DEF Types, TypeOK, DaemonTypeOK
    <2>4. chat'[r].told = TellStatus(redis[r].service)
        <3> DEFINE new == [chat[r].reminded EXCEPT ![o] = OneMore(@)]
        <3>1. chat' = [chat EXCEPT ![r] = [chat[r] EXCEPT !.told = TellStatus(redis[r].service),
                                                        !.reminded = new]]
            BY <2>1
        <3>2. DOMAIN chat = Routes /\ DOMAIN chat[r] = {"told", "keyboards", "asked", "reminded"}
            BY <1>h DEF Chat
        <3> HIDE DEF new
        <3> QED BY <3>1, <3>2
    <2>5. redis[r].last = None => ~redis[r].service.cancelled /\ ChecksMayFail
        BY <1>i, <2>1 DEF ReminderDue
    <2>6. Agrees(chat'[r].told, redis[r].last, redis[r].service)
        BY <1>h, <1>i, <2>4, <2>5, ReminderAgrees DEF Tracked
    <2>7. InTurn(r)'
        BY <1>i, <2>2, <2>3, <2>6 DEF InTurn, Tracked
    <2> QED BY <2>2, <2>3, <2>7 DEF News, Turns, Steps
<1>3. CASE MarkReminder(r)
    <2>1. /\ pc = "mark" /\ pc' = "remind" /\ chat' = chat
          /\ job'.cached = job.cached /\ job'.route = r
          /\ redis' = [redis EXCEPT ![r].alert_sent = @ \cup {job.offset}]
        BY <1>0, <1>3 DEF MarkReminder, MarkAlertSent, Types, TypeOK, DaemonTypeOK
    <2>2. redis'[r].service = redis[r].service /\ redis'[r].last = redis[r].last
        BY <1>h, <2>1 DEF Keys
    <2>3. InTurn(r)'
        BY <1>i, <2>1, <2>2 DEF InTurn, Tracked
    <2> QED BY <2>1, <2>3 DEF News, Turns, Steps
<1>4. CASE EndReminders(r)
    <2>1. redis' = redis /\ chat' = chat /\ pc' = "next"
        BY <1>4 DEF EndReminders, NextRoute, storeVars
    <2>2. AtRest(r)'
        BY <1>i, <2>1 DEF AtRest, Tracked
    <2> QED BY <2>1, <2>2 DEF News, Turns
<1> QED BY <1>1, <1>2, <1>3, <1>4

\* A route without a train: planning, the question, the timetable.
LEMMA PlanNewsKept ==
    ASSUME Types, DaemonActs, ~SendsMayFail, NEW r \in Routes, News(r),
           PlanRoute(r) \/ Miss(r) \/ FindNearest(r) \/ MarkChoice(r) \/ FetchTimetable(r)
    PROVE  News(r)'
<1>0. /\ r = job.route /\ pc \in Turns
      /\ pc \in {"plan", "miss", "nearest", "markChoice", "timetable"}
    BY DEF PlanRoute, Miss, FindNearest, MarkChoice, FetchTimetable, Turns, Steps
<1>h. /\ InTurn(r) /\ redis \in [Routes -> Keys] /\ chat \in [Routes -> Chat] /\ r # None
    BY <1>0, TurnHere, TypesHere
<1>i. redis[r].service = job.cached /\ ~Tracked(r) /\ Untold(r) /\ job.cached = None
    BY <1>0, <1>h DEF InTurn, Types, TurnOK
\* Steps after which nothing is tracked or told yet.
<1>n. ASSUME redis'[r].service = redis[r].service, redis'[r].last = redis[r].last,
             chat'[r].told = chat[r].told,
             NextRoute \/ \E p \in {"miss", "nearest", "markChoice"} : Goto(p)
      PROVE  News(r)'
    <2>1. ~Tracked(r)' /\ Untold(r)'
        BY <1>i, <1>n DEF Tracked, Untold
    <2>2. CASE NextRoute
        BY <2>1, <2>2, RestUntold DEF NextRoute, News, Turns
    <2>3. ASSUME NEW p \in {"miss", "nearest", "markChoice"}, Goto(p) PROVE News(r)'
        <3>1. InTurn(r)'
            BY <1>i, <1>n, <2>1, <2>3 DEF Goto, InTurn
        <3> QED BY <1>0, <2>3, <3>1 DEF Goto, News, Turns, Steps
    <2> QED BY <1>n, <2>2, <2>3
\* A train is found.
<1>f. ASSUME NEW st \in LiveStatus, redis'[r].service = st, redis'[r].last = redis[r].last,
             chat'[r].told = chat[r].told
      PROVE  AtRest(r)'
    <2>1. Agrees(None, None, st)
        BY DEF Agrees, CancelAgrees, BeliefOf, Unaware
    <2> QED BY <1>i, <1>f, <2>1, RestTracked DEF Untold
<1>1. CASE PlanRoute(r)
    <2>1. chat' = chat
        BY <1>1 DEF PlanRoute
    <2>2. CASE Goto("miss") /\ UNCHANGED redis
        BY <1>n, <2>1, <2>2
    <2>3. ASSUME NEW st \in BoardAnswers(Dep[r]), st # None, NextRoute,
                 redis' = [redis EXCEPT ![r].service = st, ![r].first_miss = None]
          PROVE  News(r)'
        <3>1. redis'[r].service = st /\ redis'[r].last = redis[r].last
            BY <1>h, <2>3, KeysHere, Zenon
        <3>2. AtRest(r)'
            BY <1>f, <2>1, <2>3, <3>1, AnswerTypes
        <3> QED BY <2>3, <3>2 DEF NextRoute, News, Turns
    <2> QED BY <1>1, <2>2, <2>3 DEF PlanRoute
<1>2. CASE Miss(r)
    <2>1. chat' = chat /\ (Goto("nearest") \/ NextRoute)
        BY <1>2 DEF Miss
    <2>2. redis' = redis \/ redis' = [redis EXCEPT ![r].first_miss = now]
        BY <1>2 DEF Miss
    <2>3. redis'[r].service = redis[r].service /\ redis'[r].last = redis[r].last
        BY <1>h, <2>2 DEF Keys
    <2> QED BY <1>n, <2>1, <2>3
<1>3. CASE FindNearest(r)
    <2>1. ASSUME NextRoute, UNCHANGED <<redis, chat>> PROVE News(r)'
        BY <1>n, <2>1
    <2>2. ASSUME NEW options \in NearestAnswers(Dep[r]), NEW st \in options,
                 redis' = [redis EXCEPT ![r].service = st],
                 job' = [job EXCEPT !.fresh = st], pc' = "adoptSave", chat' = chat
          PROVE  News(r)'
        <3>1. redis'[r].service = st
            BY <1>h, <2>2, KeysHere, Zenon
        <3>2. job'.fresh = st /\ job'.route = r
            BY <1>0, <2>2 DEF Types, TypeOK, DaemonTypeOK
        <3>3. InTurn(r)'
            BY <1>i, <2>2, <3>1, <3>2 DEF InTurn, Adopting, Untold
        <3> QED BY <2>2, <3>2, <3>3 DEF News, Turns, Steps
    <2>3. ASSUME NEW k, Goto("markChoice"), redis' = redis,
                 chat' = [chat EXCEPT ![r].keyboards = @ \cup {k}, ![r].asked = OneMore(@)]
          PROVE  News(r)'
        <3>1. chat'[r].told = chat[r].told
            BY <1>h, <2>3 DEF Chat
        <3> QED BY <1>n, <2>3, <3>1
    <2> QED BY <1>3, <2>1, <2>2, <2>3 DEF FindNearest
<1>4. CASE MarkChoice(r)
    <2>1. /\ chat' = chat /\ NextRoute
          /\ redis' = [redis EXCEPT ![r].choice_sent = TRUE]
        BY <1>4 DEF MarkChoice, MarkChoiceSent
    <2>2. redis'[r].service = redis[r].service /\ redis'[r].last = redis[r].last
        BY <1>h, <2>1 DEF Keys
    <2> QED BY <1>n, <2>1, <2>2
<1>5. CASE FetchTimetable(r)
    <2>1. chat' = chat /\ NextRoute
        BY <1>5 DEF FetchTimetable
    <2>2. CASE redis' = redis \/ redis' = [redis EXCEPT ![r].backoff = now]
        <3>1. redis'[r].service = redis[r].service /\ redis'[r].last = redis[r].last
            BY <1>h, <2>2 DEF Keys
        <3> QED BY <1>n, <2>1, <3>1
    <2>3. ASSUME NEW st \in TimetableStatus, redis' = [redis EXCEPT ![r].service = st]
          PROVE  News(r)'
        <3>1. redis'[r].service = st /\ redis'[r].last = redis[r].last
            BY <1>h, <2>3, KeysHere, Zenon
        <3>2. ~Tracked(r)' /\ Untold(r)'
            BY <1>i, <2>1, <2>3, <3>1 DEF Tracked, Untold, TimetableStatus
        <3> QED BY <2>1, <3>2, RestUntold DEF NextRoute, News, Turns
    <2>4. \/ redis' = redis \/ redis' = [redis EXCEPT ![r].backoff = now]
          \/ \E st \in TimetableStatus : redis' = [redis EXCEPT ![r].service = st]
        BY <1>5, AnswerTypes DEF FetchTimetable
    <2> QED BY <2>2, <2>3, <2>4
<1> QED BY <1>1, <1>2, <1>3, <1>4, <1>5

\* A turn leaves every other route's keys and chat alone.
LEMMA OthersAlone ==
    ASSUME Types, DaemonActs, NEW q \in Routes, Turn(q), NEW r \in Routes, r # q
    PROVE  chat'[r].told = chat[r].told /\ redis'[r] = redis[r]
<1>0. redis \in [Routes -> Keys] /\ chat \in [Routes -> Chat]
    BY TypesHere
<1>1. redis' = redis \/ \E keys : redis' = [redis EXCEPT ![q] = keys]
    <2>1. CASE TransitionPlan(q) \/ TransitionSave(q) \/ TransitionTell(q)
        BY <2>1 DEF TransitionPlan, TransitionSave, TransitionTell
    <2>2. CASE CheckFails(q) \/ CheckAnswers(q) \/ CheckSave(q)
        BY <2>2 DEF CheckFails, CheckAnswers, CheckSave, storeVars
    <2>3. CASE CheckBetter(q) \/ AdoptSave(q) \/ AdoptTell(q)
        BY <2>3 DEF CheckBetter, AdoptSave, AdoptBaseline, AdoptTell
    <2>4. CASE SkipReminder(q) \/ SendDepartureReminder(q) \/ MarkReminder(q) \/ EndReminders(q)
        BY <2>4 DEF SkipReminder, SendDepartureReminder, MarkReminder, MarkAlertSent,
           EndReminders, storeVars
    <2>5. CASE PlanRoute(q) \/ Miss(q) \/ FindNearest(q) \/ MarkChoice(q) \/ FetchTimetable(q)
        BY <2>5 DEF PlanRoute, Miss, FindNearest, MarkChoice, MarkChoiceSent, FetchTimetable
    <2> QED BY <2>1, <2>2, <2>3, <2>4, <2>5 DEF Turn
<1>2. chat' = chat \/ \E line : chat' = [chat EXCEPT ![q] = line]
    <2>1. CASE TransitionPlan(q) \/ TransitionSave(q) \/ TransitionTell(q)
        BY <2>1 DEF TransitionPlan, TransitionSave, TransitionTell, Send
    <2>2. CASE CheckFails(q) \/ CheckAnswers(q) \/ CheckSave(q)
        BY <2>2 DEF CheckFails, CheckAnswers, CheckSave, storeVars, Send
    <2>3. CASE CheckBetter(q) \/ AdoptSave(q) \/ AdoptTell(q)
        BY <2>3 DEF CheckBetter, AdoptSave, AdoptTell, AdoptNews, Send
    <2>4. CASE SkipReminder(q) \/ SendDepartureReminder(q) \/ MarkReminder(q) \/ EndReminders(q)
        BY <2>4 DEF SkipReminder, SendDepartureReminder, MarkReminder, EndReminders, storeVars
    <2>5. CASE PlanRoute(q) \/ Miss(q) \/ FindNearest(q) \/ MarkChoice(q) \/ FetchTimetable(q)
        BY <2>5 DEF PlanRoute, Miss, FindNearest, MarkChoice, FetchTimetable
    <2> QED BY <2>1, <2>2, <2>3, <2>4, <2>5 DEF Turn
<1>3. redis'[r] = redis[r]
    BY <1>0, <1>1
<1>4. chat'[r] = chat[r]
    BY <1>0, <1>2
<1> QED BY <1>3, <1>4

\* Every step of a turn, seen from every route.
LEMMA TurnNewsKept ==
    ASSUME Types, DaemonActs, ~SendsMayFail, NEW q \in Routes, Turn(q), NEW r \in Routes, News(r)
    PROVE  News(r)'
<1>1. CASE r = q
    BY <1>1, TransitionNewsKept, CheckNewsKept, SwitchNewsKept, RemindNewsKept, PlanNewsKept
    DEF Turn
<1>2. CASE r # q
    <2>1. /\ q = job.route /\ job'.route \in {q, None} /\ r # None
        BY TurnRoute, NoneAssumption
    <2>2. AtRest(r)
        BY <1>2, <2>1 DEF News
    <2>3. [Next]_vars
        BY DEF Next
    <2>4. AtRest(r)'
        BY <1>2, <2>2, <2>3, OthersAlone, RestStays
    <2> QED BY <1>2, <2>1, <2>4 DEF News
<1> QED BY <1>1, <1>2

\* A turn begins with what the route's rest left.
LEMMA BeginNewsKept ==
    ASSUME Types, DaemonActs, NEW q \in Routes, BeginRoute(q), NEW r \in Routes, News(r)
    PROVE  News(r)'
<1> DEFINE cached == redis[q].service
<1>1. /\ pc = "next" /\ q \in tick.todo /\ ~IsDeparted(q, tick.now)
      /\ pc' = Branch(q, cached)
      /\ job' = IF pc' = "next" THEN NoJob
                ELSE [route |-> q, cached |-> cached, fresh |-> None,
                      left |-> tick.offsets[q], offset |-> None]
      /\ redis' = redis /\ chat' = chat
    BY DEF BeginRoute, storeVars
<1>2. AtRest(r) /\ [Next]_vars
    BY <1>1 DEF News, Turns, Next
<1>3. AtRest(r)'
    BY <1>1, <1>2, RestStays
<1>4. CASE pc' = "next" \/ r # q
    BY <1>1, <1>3, <1>4 DEF News, Turns, NoJob
<1>5. CASE pc' # "next" /\ r = q
    <2>1. ~Over(r)
        BY <1>1, <1>5 DEF Over
    <2>2. job'.cached = cached /\ job'.route = q
        BY <1>1, <1>5
    <2>3. CASE cached # None /\ ~cached.scheduleOnly
        <3>1. pc' = "check"
            BY <1>1, <2>3 DEF Branch
        <3>2. Agrees(chat[r].told, redis[r].last, redis[r].service)
            BY <1>2, <1>5, <2>3 DEF AtRest, Tracked
        <3>3. InTurn(r)'
            BY <1>1, <1>5, <2>2, <3>1, <3>2 DEF InTurn
        <3> QED BY <1>5, <2>2, <3>1, <3>3 DEF News, Turns, Steps
    <2>4. CASE ~(cached # None /\ ~cached.scheduleOnly)
        <3>1. pc' \in {"plan", "timetable", "transition"}
            BY <1>1, <1>5, <2>4 DEF Branch
        <3>2. ~Tracked(r) /\ Untold(r)
            BY <1>2, <1>5, <2>1, <2>4 DEF AtRest, Tracked, Untold
        <3>3. ~Tracked(r)' /\ Untold(r)'
            BY <1>1, <3>2 DEF Tracked, Untold
        <3>4. InTurn(r)'
            BY <1>1, <1>5, <2>2, <3>1, <3>3 DEF InTurn
        <3> QED BY <1>5, <2>2, <3>1, <3>4 DEF News, Turns, Steps
    <2> QED BY <2>3, <2>4
<1> QED BY <1>4, <1>5

\* The tick's own steps.
LEMMA TickNewsKept ==
    ASSUME Types, DaemonActs, NEW r \in Routes, News(r),
           StartTick \/ EndTick \/ \E q \in Routes : ClearDeparted(q)
    PROVE  News(r)'
<1>1. [Next]_vars
    BY DEF Next
<1>2. pc \notin Turns /\ pc' \notin Turns /\ chat' = chat
    BY DEF StartTick, EndTick, ClearDeparted, Turns, storeVars
<1>3. AtRest(r)
    BY <1>2 DEF News
<1>4. CASE redis'[r] = redis[r]
    BY <1>1, <1>2, <1>3, <1>4, RestStays DEF News
<1>5. CASE ClearDeparted(r)
    <2>1. Over(r)'
        BY <1>5, ClearedIsOver
    <2>2. redis'[r] = NoKeys
        BY <1>5, TypesHere DEF ClearDeparted, ClearRouteCache
    <2>3. AtRest(r)'
        BY <2>1, <2>2 DEF NoKeys, AtRest, Tracked
    <2> QED BY <1>2, <2>3 DEF News
<1>6. redis'[r] = redis[r] \/ ClearDeparted(r)
    BY TypesHere DEF StartTick, EndTick, ClearDeparted, ClearRouteCache, storeVars
<1> QED BY <1>4, <1>5, <1>6

\* The handlers that do not pick a train touch neither keys nor chat, but for a flag.
LEMMA BotNewsKept ==
    ASSUME "choose" \notin Uses, "create" \notin Uses, Types, BotActs, NoPicker
    PROVE  /\ NoPicker'
           /\ \A r \in Routes : News(r) => News(r)'
<1>0. redis \in [Routes -> Keys]
    BY BotTypesHere
<1>1. ASSUME NEW q \in Routes,
             StopRoute(q) \/ ResumeRoute(q) \/ DeleteRoute(q)
                \/ \E h \in Handlers : EditAlerts(h, q)
      PROVE  chat' = chat /\ redis' = redis
    BY <1>1 DEF StopRoute, ResumeRoute, DeleteRoute, EditAlerts
<1>2. ASSUME NEW q \in Routes, NEW h \in Handlers, Reconcile(h, q)
      PROVE  chat' = chat /\ \E w : redis' = [redis EXCEPT ![q].alert_sent = @ \cup w]
    BY <1>2 DEF Reconcile
<1>3. ASSUME NEW q \in Routes, NEW h \in Handlers, HandlerStep(h, q)
      PROVE  EditAlerts(h, q) \/ Reconcile(h, q)
    BY <1>3 DEF HandlerStep, PressTrain, ChooseAnswered, CreateRoute, PlanNow, NearestNow,
       ScheduleNow, NoPicker
<1>4. NoPicker'
    <2>1. ASSUME NEW q \in Routes, NEW h \in Handlers, EditAlerts(h, q) PROVE NoPicker'
        <3>1. PICK new : handler' = [handler EXCEPT ![h].at = "reconcile", ![h].route = q,
                                           ![h].old = db[q].offsets, ![h].new = new]
            BY <2>1 DEF EditAlerts
        <3>2. /\ DOMAIN handler = Handlers
              /\ \A x \in Handlers : DOMAIN handler[x] = {"at", "route", "train", "old", "new"}
            BY DEF Types, TypeOK, BotTypeOK
        <3>3. ASSUME NEW k \in Handlers PROVE handler'[k].at \in {handler[k].at, "reconcile"}
            BY <3>1, <3>2
        <3> QED BY <3>3 DEF NoPicker
    <2>2. ASSUME NEW q \in Routes, NEW h \in Handlers, Reconcile(h, q) PROVE NoPicker'
        BY <2>2 DEF Reconcile, Finish, NoHandler, NoPicker, Types, TypeOK, BotTypeOK
    <2>3. ASSUME NEW q \in Routes, StopRoute(q) \/ ResumeRoute(q) \/ DeleteRoute(q)
          PROVE  NoPicker'
        BY <2>3 DEF StopRoute, ResumeRoute, DeleteRoute, NoPicker
    <2> QED BY <1>3, <2>1, <2>2, <2>3 DEF BotActs, BotStep
<1>5. ASSUME NEW r \in Routes
      PROVE  /\ chat' = chat
             /\ redis'[r].service = redis[r].service /\ redis'[r].last = redis[r].last
    <2>1. \/ chat' = chat /\ redis' = redis
          \/ /\ chat' = chat
             /\ \E q \in Routes : \E w : redis' = [redis EXCEPT ![q].alert_sent = @ \cup w]
        BY <1>1, <1>2, <1>3 DEF BotActs, BotStep
    <2> QED BY <1>0, <2>1 DEF Keys
<1>6. ASSUME NEW r \in Routes, News(r) PROVE News(r)'
    <2>1. UNCHANGED <<pc, tick, job>> /\ [Next]_vars
        BY DEF BotActs, daemonVars, Next
    <2>2. CASE pc \in Turns /\ job.route = r
        <3>1. InTurn(r)
            BY <1>6, <2>2 DEF News
        <3>2. InTurn(r)'
            BY <1>5, <2>1, <3>1 DEF InTurn, Tracked, Untold, Adopting
        <3> QED BY <2>1, <2>2, <3>2 DEF News
    <2>3. CASE ~(pc \in Turns /\ job.route = r)
        <3>1. AtRest(r)'
            BY <1>5, <1>6, <2>1, <2>3, RestStays DEF News
        <3> QED BY <2>1, <2>3, <3>1 DEF News
    <2> QED BY <2>2, <2>3
<1> QED BY <1>4, <1>6

\* The daemon alone picks the trains, and its messages arrive.
DaemonPicks == "choose" \notin Uses /\ "create" \notin Uses

\* Where the daemon alone picks the trains, every step keeps the invariant.
LEMMA NewsStep ==
    ASSUME DaemonPicks, ~SendsMayFail, Types, [Next]_vars, NewsInv, NoPicker
    PROVE  NewsInv' /\ NoPicker'
<1>1. CASE UNCHANGED vars
    BY <1>1 DEF vars, storeVars, daemonVars, NewsInv, News, InTurn, AtRest, Tracked, Untold,
       Adopting, Over, IsDeparted, NoPicker
<1>2. CASE DaemonActs
    <2>1. NoPicker' /\ crashes' = crashes
        BY <1>2 DEF DaemonActs, NoPicker
    <2>2. ASSUME NEW r \in Routes, News(r) PROVE News(r)'
        BY <1>2, <2>2, TurnNewsKept, BeginNewsKept, TickNewsKept DEF DaemonActs, DaemonStep
    <2> QED BY <2>1, <2>2 DEF NewsInv
<1>3. CASE BotActs
    <2>1. crashes' = crashes
        BY <1>3 DEF BotActs
    <2> QED BY <1>3, <2>1, BotNewsKept DEF DaemonPicks, NewsInv
<1>4. CASE Clock
    <2>1. UNCHANGED <<pc, tick, job, redis, chat, handler, crashes>>
        BY <1>4 DEF Clock, Advance, daemonVars
    <2>2. ASSUME NEW r \in Routes, News(r) PROVE News(r)'
        <3>1. CASE pc \in Turns /\ job.route = r
            BY <2>1, <2>2, <3>1 DEF News, InTurn, Tracked, Untold, Adopting
        <3>2. CASE ~(pc \in Turns /\ job.route = r)
            <4>1. AtRest(r)'
                BY <2>1, <2>2, <3>2, RestStays DEF News
            <4> QED BY <2>1, <3>2, <4>1 DEF News
        <3> QED BY <3>1, <3>2
    <2> QED BY <2>1, <2>2 DEF NewsInv, NoPicker
<1>5. CASE Crash
    <2>1. crashes' # 0
        BY <1>5 DEF Crash, Types, TypeOK
    <2>2. NoPicker'
        BY <1>5 DEF Crash, BotCrash, NoHandler, NoPicker
    <2> QED BY <2>1, <2>2 DEF NewsInv
<1> QED BY <1>1, <1>2, <1>3, <1>4, <1>5 DEF Next

LEMMA NewsInit == Init => NewsInv /\ NoPicker
BY DEF Init, StoreInit, DaemonInit, BotInit, NoKeys, NoChat, NoHandler, NewsInv, News, AtRest,
   Tracked, Turns, NoPicker

LEMMA NewsAlways ==
    ASSUME DaemonPicks, ~SendsMayFail
    PROVE  Spec => [](Types /\ NewsInv)
<1>1. Types /\ NewsInv /\ NoPicker /\ [Next]_vars => NewsInv' /\ NoPicker'
    BY NewsStep
<1> QED BY <1>1, NewsInit, InitTypes, TypesStep, PTL DEF Spec

-----------------------------------------------------------------------------
(* What the user knows                                                     *)

\* With the daemon between two turns, every route is at rest.
LEMMA SettledRest ==
    ASSUME NewsInv, Settled, Delivered, NEW r \in Routes
    PROVE  AtRest(r)
BY DEF NewsInv, News, Settled, Delivered, Turns

\* The train last told is the one tracked, after every switch and selection.
THEOREM ToldTrainIsTracked ==
    ASSUME DaemonPicks
    PROVE  Spec => []TrackedIsTold
<1>1. CASE SendsMayFail
    <2>1. TrackedIsTold
        BY <1>1 DEF TrackedIsTold, Delivered
    <2> QED BY <2>1, PTL
<1>2. CASE ~SendsMayFail
    <2>1. NewsInv => TrackedIsTold
        <3> SUFFICES ASSUME NewsInv, Settled, Delivered, NEW r \in Routes,
                            chat[r].told # None, redis[r].service # None
                     PROVE  chat[r].told.svc = redis[r].service.svc
            BY DEF TrackedIsTold
        <3> QED BY SettledRest DEF AtRest, Tracked, Agrees, CancelAgrees
    <2> QED BY <1>2, <2>1, NewsAlways, PTL
<1> QED BY <1>1, <1>2

\* A route with a baseline of its own train is tracked, and the three agree.
LEMMA BaselineAgrees ==
    ASSUME Types, NewsInv, Settled, Delivered, NEW r \in Routes, OnBaseline(r)
    PROVE  /\ Agrees(chat[r].told, redis[r].last, redis[r].service)
           /\ redis[r].last \in Status /\ redis[r].service \in Status
           /\ Believed(r) \in Belief
<1>1. redis[r].last \in Status /\ redis[r].service \in Status /\ chat[r].told \in Belief \cup {None}
    BY DEF OnBaseline, Types, TypeOK, StoreTypeOK, Keys, Chat
<1>2. Agrees(chat[r].told, redis[r].last, redis[r].service)
    BY SettledRest DEF AtRest, OnBaseline
<1> QED BY <1>1, <1>2, StatusFields, BeliefTypes DEF Believed

\* After every check, switch, failure of a check and reminder, the user knows whether the
\* train is cancelled.
THEOREM CancellationReported ==
    ASSUME DaemonPicks
    PROVE  Spec => []CancellationKnown
<1>1. CASE SendsMayFail
    <2>1. CancellationKnown
        BY <1>1 DEF CancellationKnown, Delivered
    <2> QED BY <2>1, PTL
<1>2. CASE ~SendsMayFail
    <2>1. Types /\ NewsInv => CancellationKnown
        <3> SUFFICES ASSUME Types, NewsInv, Settled, Delivered, NEW r \in Routes, OnBaseline(r)
                     PROVE  Believed(r).cancelled = redis[r].service.cancelled
            BY DEF CancellationKnown
        <3>1. Believed(r).cancelled \in BOOLEAN /\ redis[r].service.cancelled \in BOOLEAN
            BY BaselineAgrees, StatusFields DEF Belief
        <3>2. Believed(r).cancelled <=> redis[r].service.cancelled
            BY BaselineAgrees DEF Believed, Agrees, CancelAgrees, OnBaseline
        <3> QED BY <3>1, <3>2
    <2> QED BY <1>2, <2>1, NewsAlways, PTL
<1> QED BY <1>1, <1>2

\* Where checks do not fail, a delay the user was told is off by what the threshold
\* hides, twice at most: the sum of the steps too small to report never grows beyond.
THEOREM DelayIsClose ==
    ASSUME DaemonPicks, ~ChecksMayFail
    PROVE  Spec => []DelayKnown
<1>1. CASE SendsMayFail
    <2>1. DelayKnown
        BY <1>1 DEF DelayKnown, Delivered
    <2> QED BY <2>1, PTL
<1>2. CASE ~SendsMayFail
    <2>1. Types /\ NewsInv => DelayKnown
        <3> SUFFICES ASSUME Types, NewsInv, Settled, Delivered, NEW r \in Routes, OnBaseline(r),
                            Believed(r).delay # Unknown
                     PROVE  AbsDiff(Believed(r).delay, redis[r].service.delay)
                                <= 2 * (DelayThreshold - 1)
            BY DEF DelayKnown
        <3> DEFINE d == Believed(r).delay  l == redis[r].last.delay  s == redis[r].service.delay
        <3>1. AbsDiff(d, l) < DelayThreshold /\ AbsDiff(l, s) < DelayThreshold
            BY BaselineAgrees DEF Believed, Agrees, DetailsAgree, OnBaseline
        <3>2. l \in Nat /\ s \in Nat /\ DelayThreshold \in Nat
            BY BaselineAgrees, StatusFields
        <3>3. d \in Delays
            BY BaselineAgrees DEF Belief
        <3>4. d \in Nat
            BY <3>3, TimesAssumption
        <3> HIDE DEF d, l, s
        <3>5. AbsDiff(d, s) <= 2 * (DelayThreshold - 1)
            BY <3>1, <3>2, <3>4 DEF AbsDiff
        <3> QED BY <3>5 DEF d, s
    <2> QED BY <1>2, <2>1, NewsAlways, PTL
<1> QED BY <1>1, <1>2

\* Where checks do not fail, the platform a user was told is the one the train has,
\* whenever it has one.
THEOREM PlatformIsRight ==
    ASSUME DaemonPicks, ~ChecksMayFail
    PROVE  Spec => []PlatformKnown
<1>1. CASE SendsMayFail
    <2>1. PlatformKnown
        BY <1>1 DEF PlatformKnown, Delivered
    <2> QED BY <2>1, PTL
<1>2. CASE ~SendsMayFail
    <2>1. Types /\ NewsInv => PlatformKnown
        BY BaselineAgrees DEF PlatformKnown, Believed, Agrees, DetailsAgree, OnBaseline
    <2> QED BY <1>2, <2>1, NewsAlways, PTL
<1> QED BY <1>1, <1>2

=============================================================================
