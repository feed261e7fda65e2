---------------------------- MODULE TrackerProofs ----------------------------
(***************************************************************************)
(* Types of the daemon and the handlers on the shared store, for every set *)
(* of routes, trains and handlers, every clock and any number of restarts, *)
(* and the facts that the proofs of ReminderProofs and NewsProofs share.   *)
(*                                                                         *)
(* The types alone are not inductive: a turn acts on what its earlier      *)
(* steps left in its locals, so TurnOK says what they hold at each place.  *)
(* The shared facts are about a route whose day is over: the only steps    *)
(* that forget what was sent clear its keys, and no turn of it follows.    *)
(***************************************************************************)
EXTENDS Tracker, WellFoundedInduction, TLAPS

\* Where the program counter stands tells what the locals of a turn or a handler hold.
TurnOK ==
    /\ pc # "idle" => tick.now # None /\ tick.now <= now
    /\ pc \in Turns => job.route \notin tick.todo
    /\ pc \in {"plan", "miss", "nearest", "markChoice", "timetable"} => job.cached = None
    /\ pc \in {"adoptSave", "adoptTell"} => job.cached = None \/ ~job.cached.scheduleOnly
    /\ pc \in {"transitionSave", "transitionTell", "checkSave", "adoptSave", "adoptTell"}
          => job.fresh \in LiveStatus
    /\ pc = "mark" => job.offset # None
    /\ \A h \in Handlers : handler[h].at # "idle" => handler[h].route # None
    /\ \A h \in Handlers : handler[h].at = "choose" => handler[h].train \in Trains

Types == TypeOK /\ TurnOK

\* The least element of a set of instants exists.
LEMMA MinIsLeast ==
    ASSUME NEW S \in SUBSET Nat, S # {}
    PROVE  Min(S) \in S /\ \A t \in S : Min(S) <= t
<1> DEFINE less == OpToRel(<, Nat)
<1>1. IsWellFoundedOn(less, Nat)
    BY NatLessThanWellFounded
<1>2. \A t, m \in S : t < m => <<t, m>> \in less
    BY DEF OpToRel
<1> HIDE DEF less
<1>3. \E m \in S : \A t \in S : ~(<<t, m>> \in less)
    BY <1>1, WFMin
<1>4. PICK m \in S : \A t \in S : ~(<<t, m>> \in less)
    BY <1>3
<1>5. \A t \in S : ~(t < m)
    BY <1>2, <1>4, Zenon
<1>6. \A t \in S : m <= t
    BY <1>5
<1> QED BY <1>6 DEF Min

\* Every answer of the train APIs is a status or None.
LEMMA AnswerTypes ==
    ASSUME NEW target
    PROVE  /\ \A st \in BoardAnswers(target) : st = None \/ st \in LiveStatus
           /\ \A st \in TimetableAnswers(target) : st = None \/ st \in TimetableStatus
           /\ \A options \in NearestAnswers(target) : options \subseteq LiveStatus
BY DEF BoardAnswers, TimetableAnswers, NearestAnswers

\* Each message leaves a belief, whatever was believed before.
LEMMA TellTypes ==
    ASSUME NEW st \in Status
    PROVE  TellStatus(st) \in Belief
BY MarkersAssumption DEF TellStatus, Status, Belief

LEMMA UnawareTypes ==
    ASSUME NEW s \in Trains
    PROVE  Unaware(s) \in Belief
BY MarkersAssumption DEF Unaware, Belief

LEMMA AlertTypes ==
    ASSUME NEW b \in Belief \cup {None}, NEW last \in Status \cup {None}, NEW st \in Status
    PROVE  TellAlert(b, last, st) \in Belief
<1>1. BeliefOf(b, st.svc) \in Belief
    <2>1. st.svc \in Trains
        BY DEF Status
    <2> QED BY <2>1, UnawareTypes DEF BeliefOf
<1>2. CASE last = None
    BY <1>2, TellTypes DEF TellAlert
<1>3. CASE last # None
    <2> DEFINE known == BeliefOf(b, st.svc)
    <2>1. known \in Belief
        BY <1>1
    <2>2. last \in Status
        BY <1>3
    <2> HIDE DEF known
    <2>3. TellChanges(b, last, st) =
            [svc       |-> st.svc,
             cancelled |-> IF last.cancelled # st.cancelled THEN st.cancelled ELSE known.cancelled,
             delay     |-> IF st.cancelled THEN Unknown
                           ELSE IF last.delay # st.delay THEN st.delay ELSE known.delay,
             platform  |-> IF st.cancelled THEN NoPlatform
                           ELSE IF PlatformReassigned(last, st) THEN st.platform
                           ELSE known.platform]
        BY DEF TellChanges, known
    <2>4. TellChanges(b, last, st) \in Belief
        BY <2>1, <2>2, <2>3, MarkersAssumption DEF Belief, Status
    <2> QED BY <1>3, <2>4 DEF TellAlert
<1> QED BY <1>2, <1>3

\* The baseline after a check is a status.
LEMMA BaselineTypes ==
    ASSUME NEW last \in Status \cup {None}, NEW st \in Status
    PROVE  NewBaseline(last, st) \in Status
<1>1. \A a, b \in Status : WithKnownPlatform(a, b) \in Status
    BY DEF WithKnownPlatform, Status
<1>2. CASE last = None
    BY <1>2 DEF NewBaseline
<1>3. CASE last # None /\ ShouldNotify(last, st)
    BY <1>1, <1>3 DEF NewBaseline
<1>4. CASE last # None /\ ~ShouldNotify(last, st)
    BY <1>1, <1>4 DEF NewBaseline
<1> QED BY <1>2, <1>3, <1>4
-----------------------------------------------------------------------------
\* What a daemon's step has to show.
LEMMA DaemonTypes ==
    ASSUME Types, redis' \in [Routes -> Keys], chat' \in [Routes -> Chat],
           UNCHANGED <<now, db, handler, crashes>>,
           DaemonTypeOK',
           pc' # "idle" => tick'.now # None /\ tick'.now <= now,
           pc' \in Turns => job'.route \notin tick'.todo,
           pc' \in {"plan", "miss", "nearest", "markChoice", "timetable"} => job'.cached = None,
           pc' \in {"adoptSave", "adoptTell"} => job'.cached = None \/ ~job'.cached.scheduleOnly,
           pc' \in {"transitionSave", "transitionTell", "checkSave", "adoptSave", "adoptTell"}
              => job'.fresh \in LiveStatus,
           pc' = "mark" => job'.offset # None
    PROVE  Types'
<1>1. StoreTypeOK'
    BY DEF Types, TypeOK, StoreTypeOK
<1>2. BotTypeOK'
    BY DEF Types, TypeOK, BotTypeOK
<1>3. TypeOK'
    BY <1>1, <1>2 DEF Types, TypeOK
<1>4. TurnOK'
    BY DEF Types, TurnOK
<1> QED BY <1>3, <1>4 DEF Types

\* Every write of one route's keys keeps the keys of all.
LEMMA KeysTypes ==
    ASSUME redis \in [Routes -> Keys], NEW r \in Routes
    PROVE  /\ \A st \in Status : [redis EXCEPT ![r].service = st] \in [Routes -> Keys]
           /\ \A st \in Status : [redis EXCEPT ![r].last = st] \in [Routes -> Keys]
           /\ \A st, l \in Status :
                [redis EXCEPT ![r].last = l, ![r].service = st] \in [Routes -> Keys]
           /\ \A st \in Status :
                [redis EXCEPT ![r].service = st, ![r].first_miss = None] \in [Routes -> Keys]
           /\ \A b \in BOOLEAN : [redis EXCEPT ![r].choice_sent = b] \in [Routes -> Keys]
           /\ \A t \in Instants : [redis EXCEPT ![r].first_miss = t] \in [Routes -> Keys]
           /\ \A t \in Instants : [redis EXCEPT ![r].backoff = t] \in [Routes -> Keys]
           /\ \A os \in SUBSET Offsets :
                [redis EXCEPT ![r].alert_sent = @ \cup os] \in [Routes -> Keys]
           /\ [redis EXCEPT ![r] = NoKeys] \in [Routes -> Keys]
BY DEF Keys, NoKeys

\* So does every message, with its ghosts.
LEMMA ChatTypes ==
    ASSUME chat \in [Routes -> Chat], NEW r \in Routes
    PROVE  /\ \A b \in Belief : [chat EXCEPT ![r].told = b] \in [Routes -> Chat]
           /\ \A k \in SUBSET Trains :
                [chat EXCEPT ![r].keyboards = @ \cup {k}, ![r].asked = OneMore(@)]
                    \in [Routes -> Chat]
           /\ \A b \in Belief, o \in Offsets :
                [chat EXCEPT ![r].told = b, ![r].reminded[o] = OneMore(@)] \in [Routes -> Chat]
           /\ \A gone : [chat EXCEPT ![r].keyboards = @ \ gone, ![r].asked = 0] \in [Routes -> Chat]
<1> DEFINE boards == SUBSET SUBSET Trains
<1>1. \A n \in 0..MaxCount : OneMore(n) \in 0..MaxCount
    BY CountAssumption DEF OneMore
<1>2. 0 \in 0..MaxCount
    BY CountAssumption
<1>c. Chat = [told : Belief \cup {None}, keyboards : boards, asked : 0..MaxCount,
              reminded : [Offsets -> 0..MaxCount]]
    BY DEF Chat
<1>k. \A K \in boards : /\ \A k \in SUBSET Trains : K \cup {k} \in boards
                       /\ \A gone : K \ gone \in boards
    OBVIOUS
<1> HIDE DEF boards
<1>3. ASSUME NEW b \in Belief PROVE [chat EXCEPT ![r].told = b] \in [Routes -> Chat]
    BY <1>c, <1>k
<1>4. ASSUME NEW k \in SUBSET Trains
      PROVE  [chat EXCEPT ![r].keyboards = @ \cup {k}, ![r].asked = OneMore(@)] \in [Routes -> Chat]
    <2> DEFINE c == [chat[r] EXCEPT !.keyboards = @ \cup {k}, !.asked = OneMore(@)]
    <2>1. chat[r].keyboards \cup {k} \in boards
        BY <1>c, <1>k
    <2>2. OneMore(chat[r].asked) \in 0..MaxCount
        BY <1>c, <1>1
    <2>3. c \in Chat
        BY <1>c, <2>1, <2>2
    <2>4. [chat EXCEPT ![r].keyboards = @ \cup {k}, ![r].asked = OneMore(@)]
            = [chat EXCEPT ![r] = c]
        OBVIOUS
    <2> QED BY <2>3, <2>4
<1>5. ASSUME NEW b \in Belief, NEW o \in Offsets
      PROVE  [chat EXCEPT ![r].told = b, ![r].reminded[o] = OneMore(@)] \in [Routes -> Chat]
    <2> DEFINE n == [chat[r].reminded EXCEPT ![o] = OneMore(@)]
               c == [chat[r] EXCEPT !.told = b, !.reminded = n]
    <2>1. n \in [Offsets -> 0..MaxCount]
        BY <1>c, <1>1
    <2>2. c \in Chat
        BY <1>c, <2>1
    <2>3. [chat EXCEPT ![r].told = b, ![r].reminded[o] = OneMore(@)] = [chat EXCEPT ![r] = c]
        OBVIOUS
    <2> QED BY <2>2, <2>3
<1>6. ASSUME NEW gone
      PROVE  [chat EXCEPT ![r].keyboards = @ \ gone, ![r].asked = 0] \in [Routes -> Chat]
    <2> DEFINE c == [chat[r] EXCEPT !.keyboards = @ \ gone, !.asked = 0]
    <2>1. chat[r].keyboards \ gone \in boards
        BY <1>c, <1>k
    <2>2. c \in Chat
        BY <1>c, <1>2, <2>1
    <2>3. [chat EXCEPT ![r].keyboards = @ \ gone, ![r].asked = 0] = [chat EXCEPT ![r] = c]
        OBVIOUS
    <2> QED BY <2>2, <2>3
<1> QED BY <1>3, <1>4, <1>5, <1>6

\* A message that arrives, or does not.
LEMMA SendTypes ==
    ASSUME chat \in [Routes -> Chat], NEW r \in Routes, NEW b \in Belief, Send(r, b)
    PROVE  chat' \in [Routes -> Chat]
<1>1. CASE chat' = [chat EXCEPT ![r].told = b]
    BY <1>1, ChatTypes, Zenon
<1>2. CASE chat' = chat
    BY <1>2
<1> QED BY <1>1, <1>2 DEF Send

-----------------------------------------------------------------------------

\* The tick's own steps, and the beginning of a turn.
LEMMA StartTickTypes == Types /\ DaemonActs /\ StartTick => Types'
<1> SUFFICES ASSUME Types, DaemonActs, StartTick PROVE Types'
    OBVIOUS
<1>1. DaemonTypeOK'
    BY DEF StartTick, Types, TypeOK, StoreTypeOK, DaemonTypeOK, ActiveRoutes, Row, storeVars,
           Turns, Checking, Steps
<1> QED BY <1>1, DaemonTypes, TimesAssumption, MarkersAssumption
        DEF StartTick, DaemonActs, Types, TypeOK, StoreTypeOK, storeVars, Turns

LEMMA EndTickTypes == Types /\ DaemonActs /\ EndTick => Types'
<1> SUFFICES ASSUME Types, DaemonActs, EndTick PROVE Types'
    OBVIOUS
<1>1. DaemonTypeOK'
    BY DEF EndTick, Types, TypeOK, StoreTypeOK, DaemonTypeOK, NoTick, storeVars,
           Turns, Checking, Steps
<1> QED BY <1>1, DaemonTypes
        DEF EndTick, DaemonActs, Types, TypeOK, StoreTypeOK, storeVars, Turns

LEMMA ClearDepartedTypes ==
    ASSUME NEW r \in Routes, Types, DaemonActs, ClearDeparted(r) PROVE Types'
<1>1. redis' \in [Routes -> Keys]
    BY KeysTypes DEF ClearDeparted, ClearRouteCache, Types, TypeOK, StoreTypeOK
<1>2. DaemonTypeOK'
    BY DEF ClearDeparted, Done, Types, TypeOK, DaemonTypeOK, Turns, Checking, Steps
<1> QED BY <1>1, <1>2, DaemonTypes
        DEF ClearDeparted, Done, DaemonActs, Types, TypeOK, TurnOK, StoreTypeOK, DaemonTypeOK, Turns

LEMMA BeginRouteTypes ==
    ASSUME NEW r \in Routes, Types, DaemonActs, BeginRoute(r) PROVE Types'
<1> DEFINE cached == redis[r].service
<1>1. cached \in Status \cup {None} /\ r # None
    BY NoneAssumption DEF Types, TypeOK, StoreTypeOK, Keys
<1>2. /\ pc' \in {"plan", "timetable", "check", "transition", "next"}
      /\ pc' \in {"plan", "timetable"} => cached = None
      /\ pc' = "check" => cached # None /\ ~cached.scheduleOnly
    BY DEF BeginRoute, Branch
<1>3. /\ tick' = [tick EXCEPT !.todo = @ \ {r}]
      /\ job' = IF pc' = "next" THEN NoJob
                    ELSE [route |-> r, cached |-> cached, fresh |-> None,
                          left |-> tick.offsets[r], offset |-> None]
      /\ UNCHANGED storeVars
      /\ pc = "next"
    BY DEF BeginRoute, Done
<1>4. DaemonTypeOK'
    BY <1>1, <1>2, <1>3 DEF Types, TypeOK, DaemonTypeOK, Turns, Checking, Steps, NoJob
<1> QED BY <1>1, <1>2, <1>3, <1>4, DaemonTypes
        DEF DaemonActs, storeVars, Types, TypeOK, TurnOK, StoreTypeOK, DaemonTypeOK, Turns, NoJob

\* A turn that ends, or goes on to step without a new answer.
LEMMA NextRouteTypes ==
    ASSUME Types, DaemonActs, pc \in Turns, NextRoute, UNCHANGED <<now, db>>,
           redis' \in [Routes -> Keys], chat' \in [Routes -> Chat]
    PROVE  Types'
<1>1. DaemonTypeOK'
    BY DEF NextRoute, NoJob, Types, TypeOK, DaemonTypeOK, Turns, Checking, Steps
<1> QED BY <1>1, DaemonTypes
        DEF NextRoute, DaemonActs, Types, TypeOK, TurnOK, Turns

\* The same of a turn that goes on, with what the next place asks for.
LEMMA GotoTypes ==
    ASSUME Types, DaemonActs, pc \in Turns, NEW step \in Turns \ {"mark"}, Goto(step),
           UNCHANGED <<now, db>>, redis' \in [Routes -> Keys], chat' \in [Routes -> Chat],
           step \in Checking => job.cached # None /\ ~job.cached.scheduleOnly,
           step \in {"plan", "miss", "nearest", "markChoice", "timetable"} => job.cached = None,
           step \in {"adoptSave", "adoptTell"} => job.cached = None \/ ~job.cached.scheduleOnly,
           step \in {"transitionSave", "transitionTell", "checkSave", "adoptSave", "adoptTell"}
              => job.fresh \in LiveStatus
    PROVE  Types'
<1>1. DaemonTypeOK'
    BY DEF Goto, Types, TypeOK, DaemonTypeOK, Turns, Checking, Steps
<1> QED BY <1>1, DaemonTypes
        DEF Goto, DaemonActs, Types, TypeOK, TurnOK, Turns

\* A turn that goes on with a new answer.
LEMMA AnswerStepTypes ==
    ASSUME Types, DaemonActs, pc \in Turns, UNCHANGED <<now, db, tick>>,
           redis' \in [Routes -> Keys], chat' \in [Routes -> Chat],
           NEW st \in LiveStatus, job' = [job EXCEPT !.fresh = st],
           pc' \in {"transitionSave", "checkSave", "adoptSave"},
           pc' = "checkSave" => pc = "check",
           pc' = "adoptSave" => pc \in {"better", "nearest"}
    PROVE  Types'
<1>1. st \in Status
    BY DEF LiveStatus
<1>2. /\ pc' = "checkSave" => job.cached # None /\ ~job.cached.scheduleOnly
      /\ pc' = "adoptSave" => job.cached = None \/ ~job.cached.scheduleOnly
    BY DEF Types, TypeOK, DaemonTypeOK, TurnOK, Checking
<1>3. DaemonTypeOK'
    BY <1>1, <1>2 DEF Types, TypeOK, DaemonTypeOK, Turns, Checking, Steps
<1> QED BY <1>2, <1>3, DaemonTypes
        DEF DaemonActs, Types, TypeOK, TurnOK, DaemonTypeOK, Turns

\* A turn's step is one of a route in Routes.
LEMMA TypesHere ==
    ASSUME Types, DaemonActs
    PROVE  /\ redis \in [Routes -> Keys] /\ chat \in [Routes -> Chat] /\ now \in Instants
           /\ job.cached \in Status \cup {None}
           /\ \A r \in Routes : /\ redis[r].service \in Status \cup {None}
                                /\ redis[r].last \in Status \cup {None}
                                /\ chat[r].told \in Belief \cup {None}
           /\ job.fresh \in LiveStatus => job.fresh \in Status
BY DEF Types, TypeOK, StoreTypeOK, DaemonTypeOK, Keys, Chat, LiveStatus

\* The turns, branch by branch.
LEMMA TransitionTypes ==
    ASSUME NEW r \in Routes, Types, DaemonActs,
           TransitionPlan(r) \/ TransitionSave(r) \/ TransitionTell(r)
    PROVE  Types'
<1>1. CASE TransitionPlan(r)
    <2>1. PICK st \in BoardAnswers(Dep[r]) :
              \/ st = None /\ NextRoute /\ UNCHANGED redis
              \/ /\ st # None
                 /\ redis' = [redis EXCEPT ![r].service = st]
                 /\ job' = [job EXCEPT !.fresh = st]
                 /\ pc' = "transitionSave"
                 /\ UNCHANGED tick
        BY <1>1 DEF TransitionPlan
    <2>2. pc = "transition" /\ UNCHANGED <<now, db, chat>>
        BY <1>1 DEF TransitionPlan
    <2>3. CASE st = None
        BY <2>1, <2>2, <2>3, TypesHere, NextRouteTypes DEF Turns, Steps
    <2>4. CASE st # None
        <3>1. st \in LiveStatus /\ st \in Status
            BY <2>4, AnswerTypes DEF LiveStatus
        <3>2. redis' = [redis EXCEPT ![r].service = st]
            BY <2>1, <2>4
        <3>3. redis' \in [Routes -> Keys]
            BY <3>1, <3>2, KeysTypes, TypesHere
        <3> QED BY <2>1, <2>2, <2>4, <3>1, <3>3, TypesHere, AnswerStepTypes DEF Turns, Steps
    <2> QED BY <2>3, <2>4
<1>2. CASE TransitionSave(r)
    <2>1. job.fresh \in LiveStatus /\ job.fresh \in Status
        BY <1>2 DEF TransitionSave, Types, TurnOK, LiveStatus
    <2>2. redis' \in [Routes -> Keys]
        BY <1>2, <2>1, KeysTypes, TypesHere DEF TransitionSave
    <2> QED BY <1>2, <2>1, <2>2, TypesHere, GotoTypes
            DEF TransitionSave, Turns, Steps, Checking
<1>3. CASE TransitionTell(r)
    <2>1. job.fresh \in Status
        BY <1>3 DEF TransitionTell, Types, TurnOK, LiveStatus
    <2>2. chat' \in [Routes -> Chat]
        BY <1>3, <2>1, TypesHere, TellTypes, SendTypes DEF TransitionTell
    <2> QED BY <1>3, <2>2, TypesHere, NextRouteTypes DEF TransitionTell, Turns, Steps
<1> QED BY <1>1, <1>2, <1>3

LEMMA CheckTypes ==
    ASSUME NEW r \in Routes, Types, DaemonActs,
           CheckFails(r) \/ CheckAnswers(r) \/ CheckSave(r)
    PROVE  Types'
<1>1. CASE CheckFails(r)
    <2>1. job.cached # None /\ ~job.cached.scheduleOnly
        BY <1>1 DEF CheckFails, Types, TypeOK, DaemonTypeOK, Checking
    <2> QED BY <1>1, <2>1, TypesHere, GotoTypes
            DEF CheckFails, storeVars, Turns, Steps, Checking
<1>2. CASE CheckAnswers(r)
    <2>1. PICK st \in LiveStatus :
            /\ job' = [job EXCEPT !.fresh = st]
            /\ IF Announces(redis[r].last, st)
               THEN Send(r, TellAlert(chat[r].told, redis[r].last, st))
               ELSE UNCHANGED chat
        BY <1>2 DEF CheckAnswers
    <2>2. TellAlert(chat[r].told, redis[r].last, st) \in Belief
        BY AlertTypes, TypesHere DEF LiveStatus
    <2>3. chat' \in [Routes -> Chat]
        BY <2>1, <2>2, TypesHere, SendTypes
    <2>4. pc = "check" /\ pc' = "checkSave" /\ UNCHANGED <<now, db, redis, tick>>
        BY <1>2 DEF CheckAnswers
    <2> QED BY <2>1, <2>3, <2>4, TypesHere, AnswerStepTypes DEF Turns, Steps
<1>3. CASE CheckSave(r)
    <2>1. job.fresh \in Status
        BY <1>3 DEF CheckSave, Types, TurnOK, LiveStatus
    <2>2. NewBaseline(redis[r].last, job.fresh) \in Status
        BY <2>1, TypesHere, BaselineTypes
    <2>3. redis' = [redis EXCEPT ![r].last = NewBaseline(redis[r].last, job.fresh),
                                 ![r].service = job.fresh]
        BY <1>3, TypesHere DEF CheckSave
    <2>4. redis' \in [Routes -> Keys]
        BY <2>1, <2>2, <2>3, TypesHere, KeysTypes
    <2>5. job.cached # None /\ ~job.cached.scheduleOnly
        BY <1>3 DEF CheckSave, Types, TypeOK, DaemonTypeOK, Checking
    <2> QED BY <1>3, <2>4, <2>5, TypesHere, GotoTypes DEF CheckSave, Turns, Steps, Checking
<1> QED BY <1>1, <1>2, <1>3

LEMMA BetterTypes ==
    ASSUME NEW r \in Routes, Types, DaemonActs,
           CheckBetter(r) \/ AdoptSave(r) \/ AdoptTell(r)
    PROVE  Types'
<1>1. CASE CheckBetter(r)
    <2>1. job.cached # None /\ ~job.cached.scheduleOnly
        BY <1>1 DEF CheckBetter, Types, TypeOK, DaemonTypeOK, Checking
    <2>2. pc = "better" /\ UNCHANGED <<now, db, chat>>
        BY <1>1 DEF CheckBetter
    <2>3. CASE Goto("remind") /\ UNCHANGED redis
        BY <2>1, <2>2, <2>3, TypesHere, GotoTypes DEF Turns, Steps, Checking
    <2>4. ASSUME NEW st \in BoardAnswers(Dep[r]), st # None,
                 redis' = [redis EXCEPT ![r].service = st],
                 job' = [job EXCEPT !.fresh = st], pc' = "adoptSave", UNCHANGED tick
          PROVE  Types'
        <3>1. st \in LiveStatus /\ st \in Status
            BY <2>4, AnswerTypes DEF LiveStatus
        <3>2. redis' \in [Routes -> Keys]
            BY <2>4, <3>1, KeysTypes, TypesHere
        <3> QED BY <2>2, <2>4, <3>1, <3>2, TypesHere, AnswerStepTypes DEF Turns, Steps
    <2> QED BY <1>1, <2>3, <2>4 DEF CheckBetter
<1>2. CASE AdoptSave(r)
    <2>1. job.fresh \in LiveStatus /\ job.fresh \in Status
        BY <1>2 DEF AdoptSave, Types, TurnOK, LiveStatus
    <2>2. redis' \in [Routes -> Keys]
        BY <1>2, <2>1, KeysTypes, TypesHere DEF AdoptSave, AdoptBaseline
    <2>3. job.cached = None \/ ~job.cached.scheduleOnly
        BY <1>2 DEF AdoptSave, Types, TurnOK
    <2> QED BY <1>2, <2>1, <2>2, <2>3, TypesHere, GotoTypes
            DEF AdoptSave, Turns, Steps, Checking
<1>3. CASE AdoptTell(r)
    <2>1. job.fresh \in Status
        BY <1>3 DEF AdoptTell, Types, TurnOK, LiveStatus
    <2>2. chat' \in [Routes -> Chat]
        BY <1>3, <2>1, TypesHere, TellTypes, SendTypes DEF AdoptTell, AdoptNews
    <2>3. job.cached = None \/ ~job.cached.scheduleOnly
        BY <1>3 DEF AdoptTell, Types, TurnOK
    <2>4. CASE job.cached = None
        BY <1>3, <2>2, <2>4, TypesHere, NextRouteTypes DEF AdoptTell, Turns, Steps
    <2>5. CASE job.cached # None
        BY <1>3, <2>2, <2>3, <2>5, TypesHere, GotoTypes DEF AdoptTell, Turns, Steps, Checking
    <2> QED BY <2>4, <2>5
<1> QED BY <1>1, <1>2, <1>3

LEMMA RemindTypes ==
    ASSUME NEW r \in Routes, Types, DaemonActs,
           SkipReminder(r) \/ SendDepartureReminder(r) \/ MarkReminder(r) \/ EndReminders(r)
    PROVE  Types'
<1>0. ASSUME pc \in {"remind", "mark"}
      PROVE  job.cached # None /\ ~job.cached.scheduleOnly
    BY <1>0 DEF Types, TypeOK, DaemonTypeOK, Checking
<1>1. CASE SkipReminder(r)
    <2>1. DaemonTypeOK'
        BY <1>1 DEF SkipReminder, Types, TypeOK, DaemonTypeOK
    <2> QED BY <1>0, <1>1, <2>1, TypesHere, DaemonTypes
            DEF SkipReminder, storeVars, DaemonActs, Types, TypeOK, TurnOK, Turns
<1>2. CASE SendDepartureReminder(r)
    <2> DEFINE shown == IF redis[r].service = None THEN job.cached ELSE redis[r].service
    <2>1. PICK o \in job.left :
            /\ \/ chat' = [chat EXCEPT ![r].told = TellStatus(shown),
                                       ![r].reminded[o] = OneMore(@)]
               \/ SendsMayFail /\ chat' = chat
            /\ job' = [job EXCEPT !.offset = o]
        BY <1>2 DEF SendDepartureReminder
    <2>2. shown \in Status
        BY <1>0, <1>2, TypesHere DEF SendDepartureReminder
    <2> HIDE DEF shown
    <2>3. o \in Offsets
        BY DEF Types, TypeOK, DaemonTypeOK
    <2>4. TellStatus(shown) \in Belief
        BY <2>2, TellTypes
    <2>t. [chat EXCEPT ![r].told = TellStatus(shown), ![r].reminded[o] = OneMore(@)]
            \in [Routes -> Chat]
        BY <2>3, <2>4, TypesHere, ChatTypes, Zenon
    <2>5. chat' \in [Routes -> Chat]
        BY <2>1, <2>t, TypesHere, Zenon
    <2>6. pc = "remind" /\ pc' = "mark" /\ UNCHANGED <<now, db, redis, tick>>
        BY <1>2 DEF SendDepartureReminder
    <2>7. o # None
        BY <2>3, TimesAssumption, MarkersAssumption
    <2>8. DaemonTypeOK'
        BY <2>1, <2>3, <2>6 DEF Types, TypeOK, DaemonTypeOK, Turns, Checking, Steps
    <2> QED BY <1>0, <2>1, <2>3, <2>5, <2>6, <2>7, <2>8, TypesHere, DaemonTypes
            DEF DaemonActs, Types, TypeOK, TurnOK, DaemonTypeOK, Turns
<1>3. CASE MarkReminder(r)
    <2>1. job.offset \in Offsets
        BY <1>3 DEF MarkReminder, Types, TypeOK, DaemonTypeOK, TurnOK
    <2>2. redis' = [redis EXCEPT ![r].alert_sent = @ \cup {job.offset}]
        BY <1>3 DEF MarkReminder, MarkAlertSent
    <2>s. {job.offset} \in SUBSET Offsets
        BY <2>1
    <2>3. redis' \in [Routes -> Keys]
        BY <2>2, <2>s, TypesHere, KeysTypes, Zenon
    <2>4. DaemonTypeOK'
        BY <1>3 DEF MarkReminder, Types, TypeOK, DaemonTypeOK, Turns, Checking, Steps
    <2> QED BY <1>0, <1>3, <2>3, <2>4, TypesHere, DaemonTypes
            DEF MarkReminder, DaemonActs, Types, TypeOK, TurnOK, DaemonTypeOK, Turns
<1>4. CASE EndReminders(r)
    BY <1>4, TypesHere, NextRouteTypes DEF EndReminders, storeVars, Turns, Steps
<1> QED BY <1>1, <1>2, <1>3, <1>4

LEMMA PlanTypes ==
    ASSUME NEW r \in Routes, Types, DaemonActs,
           PlanRoute(r) \/ Miss(r) \/ FindNearest(r) \/ MarkChoice(r) \/ FetchTimetable(r)
    PROVE  Types'
<1>0. ASSUME pc \in {"plan", "miss", "nearest", "markChoice", "timetable"} PROVE job.cached = None
    BY <1>0 DEF Types, TurnOK
<1>1. CASE PlanRoute(r)
    <2>1. pc = "plan" /\ UNCHANGED <<now, db, chat>>
        BY <1>1 DEF PlanRoute
    <2>2. CASE Goto("miss") /\ UNCHANGED redis
        BY <1>0, <2>1, <2>2, TypesHere, GotoTypes DEF Turns, Steps, Checking
    <2>3. ASSUME NEW st \in BoardAnswers(Dep[r]), st # None, NextRoute,
                 redis' = [redis EXCEPT ![r].service = st, ![r].first_miss = None]
          PROVE  Types'
        <3>1. st \in Status
            BY <2>3, AnswerTypes DEF LiveStatus
        <3>2. redis' \in [Routes -> Keys]
            BY <2>3, <3>1, KeysTypes, TypesHere, Zenon
        <3> QED BY <2>1, <2>3, <3>2, TypesHere, NextRouteTypes DEF Turns, Steps
    <2> QED BY <1>1, <2>2, <2>3 DEF PlanRoute
<1>2. CASE Miss(r)
    <2>1. pc = "miss" /\ UNCHANGED <<now, db, chat>> /\ (Goto("nearest") \/ NextRoute)
        BY <1>2 DEF Miss
    <2>2. redis' = redis \/ redis' = [redis EXCEPT ![r].first_miss = now]
        BY <1>2 DEF Miss
    <2>3. redis' \in [Routes -> Keys]
        <3>1. CASE redis' = redis
            BY <3>1, TypesHere
        <3>2. CASE redis' = [redis EXCEPT ![r].first_miss = now]
            BY <3>2, TypesHere, KeysTypes, Zenon
        <3> QED BY <2>2, <3>1, <3>2
    <2>4. CASE Goto("nearest")
        BY <1>0, <2>1, <2>3, <2>4, TypesHere, GotoTypes DEF Turns, Steps, Checking
    <2>5. CASE NextRoute
        BY <2>1, <2>3, <2>5, TypesHere, NextRouteTypes DEF Turns, Steps
    <2> QED BY <2>1, <2>4, <2>5
<1>3. CASE FindNearest(r)
    <2>1. pc = "nearest" /\ UNCHANGED <<now, db>>
        BY <1>3 DEF FindNearest
    <2>2. ASSUME NextRoute, UNCHANGED <<redis, chat>> PROVE Types'
        BY <2>1, <2>2, TypesHere, NextRouteTypes DEF Turns, Steps
    <2>3. ASSUME NEW options \in NearestAnswers(Dep[r]), NEW st \in options,
                 redis' = [redis EXCEPT ![r].service = st],
                 job' = [job EXCEPT !.fresh = st],
                 pc' = "adoptSave", UNCHANGED <<chat, tick>>
          PROVE  Types'
        <3>1. st \in LiveStatus /\ st \in Status
            BY <2>3, AnswerTypes DEF LiveStatus
        <3>2. redis' \in [Routes -> Keys]
            BY <2>3, <3>1, KeysTypes, TypesHere, Zenon
        <3> QED BY <2>1, <2>3, <3>1, <3>2, TypesHere, AnswerStepTypes DEF Turns, Steps
    <2>4. ASSUME NEW options \in NearestAnswers(Dep[r]),
                 chat' = [chat EXCEPT ![r].keyboards = @ \cup {ServicesOf(options)},
                                      ![r].asked = OneMore(@)],
                 Goto("markChoice"), UNCHANGED redis
          PROVE  Types'
        <3>1. ServicesOf(options) \in SUBSET Trains
            BY AnswerTypes DEF ServicesOf, LiveStatus, Status
        <3>2. chat' \in [Routes -> Chat]
            BY <2>4, <3>1, ChatTypes, TypesHere, Zenon
        <3> QED BY <1>0, <2>1, <2>4, <3>2, TypesHere, GotoTypes DEF Turns, Steps, Checking
    <2> QED BY <1>3, <2>2, <2>3, <2>4 DEF FindNearest
<1>4. CASE MarkChoice(r)
    <2>1. redis' \in [Routes -> Keys]
        BY <1>4, TypesHere, KeysTypes, Zenon DEF MarkChoice, MarkChoiceSent
    <2> QED BY <1>4, <2>1, TypesHere, NextRouteTypes DEF MarkChoice, Turns, Steps
<1>5. CASE FetchTimetable(r)
    <2>1. \/ redis' = redis \/ redis' = [redis EXCEPT ![r].backoff = now]
          \/ \E st \in Status : redis' = [redis EXCEPT ![r].service = st]
        BY <1>5, AnswerTypes DEF FetchTimetable, TimetableStatus
    <2>2. redis' \in [Routes -> Keys]
        <3>1. CASE redis' = redis
            BY <3>1, TypesHere
        <3>2. CASE redis' = [redis EXCEPT ![r].backoff = now]
            BY <3>2, TypesHere, KeysTypes, Zenon
        <3>3. ASSUME NEW st \in Status, redis' = [redis EXCEPT ![r].service = st]
              PROVE  redis' \in [Routes -> Keys]
            BY <3>3, TypesHere, KeysTypes, Zenon
        <3> QED BY <2>1, <3>1, <3>2, <3>3
    <2> QED BY <1>5, <2>2, TypesHere, NextRouteTypes DEF FetchTimetable, Turns, Steps
<1> QED BY <1>1, <1>2, <1>3, <1>4, <1>5

\* Every step of the daemon keeps the types.
LEMMA DaemonActsTypes == Types /\ DaemonActs => Types'
<1> SUFFICES ASSUME Types, DaemonActs PROVE Types'
    OBVIOUS
<1>1. ASSUME NEW r \in Routes, Turn(r) PROVE Types'
    BY <1>1, TransitionTypes, CheckTypes, BetterTypes, RemindTypes, PlanTypes DEF Turn
<1> QED BY <1>1, StartTickTypes, EndTickTypes, ClearDepartedTypes, BeginRouteTypes
        DEF DaemonActs, DaemonStep

-----------------------------------------------------------------------------
(* Types: the handlers, the clock, restarts                                *)

\* Where a handler can be.
HandlerPlaces == {"idle", "choose", "reconcile", "plan", "nearest", "schedule"}

\* What a handler's step has to show.
LEMMA BotTypes ==
    ASSUME Types, BotActs, now' = now, db' \in [Routes -> Row], redis' \in [Routes -> Keys],
           chat' \in [Routes -> Chat],
           \/ UNCHANGED handler
           \/ \E h \in Handlers : Finish(h)
           \/ \E h \in Handlers, at \in HandlerPlaces \ {"idle", "choose"} :
                 /\ handler[h].route # None
                 /\ handler' = [handler EXCEPT ![h].at = at]
    PROVE  Types'
<1>1. BotTypeOK' /\ \A h \in Handlers : /\ handler'[h].at # "idle" => handler'[h].route # None
                                        /\ handler'[h].at = "choose" => handler'[h].train \in Trains
    <2>1. CASE UNCHANGED handler
        BY <2>1 DEF Types, TypeOK, TurnOK, BotTypeOK
    <2>2. ASSUME NEW h \in Handlers, Finish(h)
          PROVE  BotTypeOK' /\ \A k \in Handlers :
                    /\ handler'[k].at # "idle" => handler'[k].route # None
                    /\ handler'[k].at = "choose" => handler'[k].train \in Trains
        BY <2>2 DEF Finish, NoHandler, Types, TypeOK, TurnOK, BotTypeOK
    <2>3. ASSUME NEW h \in Handlers, NEW at \in HandlerPlaces \ {"idle", "choose"},
                 handler[h].route # None, handler' = [handler EXCEPT ![h].at = at]
          PROVE  BotTypeOK' /\ \A k \in Handlers :
                    /\ handler'[k].at # "idle" => handler'[k].route # None
                    /\ handler'[k].at = "choose" => handler'[k].train \in Trains
        BY <2>3 DEF HandlerPlaces, Types, TypeOK, TurnOK, BotTypeOK
    <2> QED BY <2>1, <2>2, <2>3
<1>2. StoreTypeOK' /\ DaemonTypeOK'
    BY DEF BotActs, daemonVars, Types, TypeOK, StoreTypeOK, DaemonTypeOK
<1>3. TypeOK'
    BY <1>1, <1>2 DEF BotActs, Types, TypeOK
<1>4. TurnOK'
    BY <1>1 DEF BotActs, daemonVars, Types, TurnOK
<1> QED BY <1>3, <1>4 DEF Types

\* What a handler's step starts from.
LEMMA BotTypesHere ==
    ASSUME Types
    PROVE  /\ redis \in [Routes -> Keys] /\ chat \in [Routes -> Chat] /\ db \in [Routes -> Row]
           /\ \A h \in Handlers : handler[h].at # "idle" => handler[h].route # None
           /\ \A h \in Handlers : handler[h].at = "choose" => handler[h].train \in Trains
BY DEF Types, TypeOK, StoreTypeOK, TurnOK

\* /stop, /resume and /delete write a row.
LEMMA RowTypes ==
    ASSUME NEW r \in Routes, Types, BotActs,
           StopRoute(r) \/ ResumeRoute(r) \/ DeleteRoute(r)
    PROVE  Types'
<1>1. db' \in [Routes -> Row]
    BY BotTypesHere DEF StopRoute, ResumeRoute, DeleteRoute, Row
<1> QED BY <1>1, BotTypesHere, BotTypes DEF StopRoute, ResumeRoute, DeleteRoute

\* The locals a handler begins with.
LEMMA ChooseLocals ==
    ASSUME BotTypeOK, NEW h \in Handlers, NEW r \in Routes, NEW s \in Trains,
           handler' = [handler EXCEPT ![h].at = "choose", ![h].route = r, ![h].train = s]
    PROVE  BotTypeOK'
<1> DEFINE offsets == SUBSET Offsets
           locals == [at : {"idle", "choose", "reconcile", "plan", "nearest", "schedule"},
                      route : Routes \cup {None}, train : Trains \cup {None},
                      old : offsets, new : offsets]
<1>1. handler \in [Handlers -> locals]
    BY DEF BotTypeOK
<1> HIDE DEF offsets
<1>2. [handler[h] EXCEPT !.at = "choose", !.route = r, !.train = s] \in locals
    BY <1>1
<1> HIDE DEF locals
<1>3. handler' \in [Handlers -> locals]
    BY <1>1, <1>2
<1> USE DEF locals, offsets
<1> QED BY <1>3 DEF BotTypeOK

LEMMA EditLocals ==
    ASSUME BotTypeOK, NEW h \in Handlers, NEW r \in Routes,
           NEW a \in SUBSET Offsets, NEW b \in SUBSET Offsets,
           handler' = [handler EXCEPT ![h].at = "reconcile", ![h].route = r,
                                      ![h].old = a, ![h].new = b]
    PROVE  BotTypeOK'
<1> DEFINE offsets == SUBSET Offsets
           locals == [at : {"idle", "choose", "reconcile", "plan", "nearest", "schedule"},
                      route : Routes \cup {None}, train : Trains \cup {None},
                      old : offsets, new : offsets]
<1>1. handler \in [Handlers -> locals]
    BY DEF BotTypeOK
<1>a. a \in offsets /\ b \in offsets
    OBVIOUS
<1> HIDE DEF offsets
<1>2. [handler[h] EXCEPT !.at = "reconcile", !.route = r, !.old = a, !.new = b] \in locals
    BY <1>1, <1>a
<1> HIDE DEF locals
<1>3. handler' \in [Handlers -> locals]
    BY <1>1, <1>2
<1> USE DEF locals, offsets
<1> QED BY <1>3 DEF BotTypeOK

\* The two handlers that begin with a choice of their own.
LEMMA PressTypes ==
    ASSUME NEW r \in Routes, NEW h \in Handlers, Types, BotActs, PressTrain(h, r) PROVE Types'
<1>0. PICK k \in chat[r].keyboards : \E s \in k :
        /\ \E gone : chat' = [chat EXCEPT ![r].keyboards = @ \ gone, ![r].asked = 0]
        /\ IF Exists(r)
           THEN /\ redis' = [redis EXCEPT ![r].choice_sent = FALSE]
                /\ handler' = [handler EXCEPT ![h].at = "choose", ![h].route = r,
                                              ![h].train = s]
           ELSE UNCHANGED <<redis, handler>>
    BY DEF PressTrain
<1>1. PICK s \in k :
        /\ \E gone : chat' = [chat EXCEPT ![r].keyboards = @ \ gone, ![r].asked = 0]
        /\ IF Exists(r)
           THEN /\ redis' = [redis EXCEPT ![r].choice_sent = FALSE]
                /\ handler' = [handler EXCEPT ![h].at = "choose", ![h].route = r,
                                              ![h].train = s]
           ELSE UNCHANGED <<redis, handler>>
    BY <1>0
<1>2. s \in Trains
    BY BotTypesHere DEF Chat
<1>3. chat' \in [Routes -> Chat]
    <2>1. PICK gone : chat' = [chat EXCEPT ![r].keyboards = @ \ gone, ![r].asked = 0]
        BY <1>1
    <2> QED BY <2>1, BotTypesHere, ChatTypes, Zenon
<1>4. CASE Exists(r)
    <2>0. redis' = [redis EXCEPT ![r].choice_sent = FALSE]
        BY <1>1, <1>4
    <2>1. redis' \in [Routes -> Keys]
        BY <2>0, BotTypesHere, KeysTypes, Zenon
    <2>2. handler' = [handler EXCEPT ![h].at = "choose", ![h].route = r, ![h].train = s]
        BY <1>1, <1>4
    <2>3. BotTypeOK'
        BY <1>2, <2>2, ChooseLocals DEF Types, TypeOK
    <2>4. StoreTypeOK' /\ DaemonTypeOK'
        BY <1>3, <2>1 DEF PressTrain, BotActs, daemonVars, Types, TypeOK, StoreTypeOK, DaemonTypeOK
    <2>5. TypeOK'
        BY <2>3, <2>4 DEF BotActs, Types, TypeOK
    <2>6. TurnOK'
        BY <1>2, <2>2, NoneAssumption
        DEF PressTrain, BotActs, daemonVars, Types, TypeOK, BotTypeOK, TurnOK
    <2> QED BY <2>5, <2>6 DEF Types
<1>5. CASE ~Exists(r)
    BY <1>1, <1>3, <1>5, BotTypesHere, BotTypes DEF PressTrain
<1> QED BY <1>4, <1>5

\* An edit, and the reconciliation that follows it.
LEMMA EditTypes ==
    ASSUME NEW r \in Routes, NEW h \in Handlers, Types, BotActs, EditAlerts(h, r) PROVE Types'
<1>1. PICK new \in OffsetChoices :
        /\ db' = [db EXCEPT ![r].offsets = new]
        /\ handler' = [handler EXCEPT ![h].at = "reconcile", ![h].route = r,
                                      ![h].old = db[r].offsets, ![h].new = new]
    BY DEF EditAlerts
<1>2. new \in SUBSET Offsets /\ db[r].offsets \in SUBSET Offsets
    BY BotTypesHere DEF OffsetChoices, Row
<1>3. db' \in [Routes -> Row]
    BY <1>1, <1>2, BotTypesHere DEF Row
<1>4. BotTypeOK'
    BY <1>1, <1>2, EditLocals DEF Types, TypeOK
<1>5. StoreTypeOK' /\ DaemonTypeOK'
    BY <1>3 DEF EditAlerts, BotActs, daemonVars, Types, TypeOK, StoreTypeOK, DaemonTypeOK
<1>6. TypeOK'
    BY <1>4, <1>5 DEF BotActs, Types, TypeOK
<1>7. TurnOK'
    BY <1>1, NoneAssumption
    DEF EditAlerts, BotActs, daemonVars, Types, TypeOK, BotTypeOK, TurnOK
<1> QED BY <1>6, <1>7 DEF Types

LEMMA ReconcileTypes ==
    ASSUME NEW r \in Routes, NEW h \in Handlers, Types, BotActs, Reconcile(h, r) PROVE Types'
<1>1. PassedOffsets(r, handler[h].old, handler[h].new) \in SUBSET Offsets
    BY DEF PassedOffsets, Types, TypeOK, BotTypeOK
<1>2. redis' \in [Routes -> Keys]
    BY <1>1, BotTypesHere, KeysTypes, Zenon DEF Reconcile
<1> QED BY <1>2, BotTypesHere, BotTypes DEF Reconcile

\* A new route, for which the handler goes on to plan.
LEMMA CreateTypes ==
    ASSUME NEW r \in Routes, NEW h \in Handlers, Types, BotActs, CreateRoute(h, r) PROVE Types'
<1>1. PICK os \in OffsetChoices : db' = [db EXCEPT ![r] = [status |-> "active", offsets |-> os]]
    BY DEF CreateRoute
<1>2. os \in SUBSET Offsets
    BY DEF OffsetChoices
<1>3. db' \in [Routes -> Row]
    BY <1>1, <1>2, BotTypesHere DEF Row
<1>4. CASE UNCHANGED handler
    BY <1>3, <1>4, BotTypesHere, BotTypes DEF CreateRoute
<1>5. CASE handler' = [handler EXCEPT ![h].at = "plan", ![h].route = r]
    <2>1. BotTypeOK'
        BY <1>5 DEF Types, TypeOK, BotTypeOK
    <2>2. StoreTypeOK' /\ DaemonTypeOK'
        BY <1>3 DEF CreateRoute, BotActs, daemonVars, Types, TypeOK, StoreTypeOK, DaemonTypeOK
    <2>3. TypeOK'
        BY <2>1, <2>2 DEF BotActs, Types, TypeOK
    <2>4. TurnOK'
        BY <1>5, NoneAssumption
        DEF CreateRoute, BotActs, daemonVars, Types, TypeOK, BotTypeOK, TurnOK
    <2> QED BY <2>3, <2>4 DEF Types
<1> QED BY <1>4, <1>5 DEF CreateRoute

\* The handlers that plan: what is found is tracked and told.
LEMMA FoundTypes ==
    ASSUME Types, NEW r \in Routes, NEW st \in Status, NEW b \in Belief,
           redis' = [redis EXCEPT ![r].service = st] \/ redis' = redis, Send(r, b)
    PROVE  redis' \in [Routes -> Keys] /\ chat' \in [Routes -> Chat]
<1>1. CASE redis' = [redis EXCEPT ![r].service = st]
    <2>1. redis' \in [Routes -> Keys]
        BY <1>1, BotTypesHere, KeysTypes, Zenon
    <2> QED BY <2>1, BotTypesHere, SendTypes
<1>2. CASE redis' = redis
    BY <1>2, BotTypesHere, SendTypes
<1> QED BY <1>1, <1>2

\* The answers of the APIs to the handlers.
LEMMA ChooseTypes ==
    ASSUME NEW r \in Routes, NEW h \in Handlers, Types, BotActs, ChooseAnswered(h, r)
    PROVE  Types'
<1>1. PICK st \in BoardAnswers(Sched[handler[h].train]) :
          \/ st = None /\ Send(r, Unaware(handler[h].train)) /\ UNCHANGED redis
          \/ /\ st # None
             /\ redis' = [redis EXCEPT ![r].service = st]
             /\ Send(r, TellStatus(st))
    BY DEF ChooseAnswered
<1>2. CASE st = None
    <2>1. Unaware(handler[h].train) \in Belief
        BY BotTypesHere, UnawareTypes DEF ChooseAnswered
    <2>2. chat' \in [Routes -> Chat]
        BY <1>1, <1>2, <2>1, BotTypesHere, SendTypes
    <2> QED BY <1>1, <1>2, <2>2, BotTypesHere, BotTypes DEF ChooseAnswered
<1>3. CASE st # None
    <2>1. st \in Status
        BY <1>3, AnswerTypes DEF LiveStatus
    <2>2. TellStatus(st) \in Belief
        BY <2>1, TellTypes
    <2>3. redis' \in [Routes -> Keys] /\ chat' \in [Routes -> Chat]
        BY <1>1, <1>3, <2>1, <2>2, FoundTypes, Zenon
    <2> QED BY <2>3, BotTypesHere, BotTypes DEF ChooseAnswered
<1> QED BY <1>2, <1>3

LEMMA PlanNowTypes ==
    ASSUME NEW r \in Routes, NEW h \in Handlers, Types, BotActs, PlanNow(h, r) PROVE Types'
<1>1. now' = now /\ db' = db /\ handler[h].at = "plan" /\ handler[h].route # None
    BY BotTypesHere DEF PlanNow
<1>2. ASSUME NEW at \in {"nearest", "schedule"}, handler' = [handler EXCEPT ![h].at = at],
             UNCHANGED <<redis, chat>>
      PROVE  Types'
    BY <1>1, <1>2, BotTypesHere, BotTypes DEF HandlerPlaces
<1>3. ASSUME NEW st \in BoardAnswers(Dep[r]), st # None,
             redis' = [redis EXCEPT ![r].service = st], Send(r, TellStatus(st)), Finish(h)
      PROVE  Types'
    <2>1. st \in Status
        BY <1>3, AnswerTypes DEF LiveStatus
    <2>2. TellStatus(st) \in Belief
        BY <2>1, TellTypes
    <2>3. redis' \in [Routes -> Keys] /\ chat' \in [Routes -> Chat]
        BY <1>3, <2>1, <2>2, FoundTypes, Zenon
    <2> QED BY <1>1, <1>3, <2>3, BotTypesHere, BotTypes
<1> QED BY <1>2, <1>3 DEF PlanNow

LEMMA NearestNowTypes ==
    ASSUME NEW r \in Routes, NEW h \in Handlers, Types, BotActs, NearestNow(h, r) PROVE Types'
<1>1. now' = now /\ db' = db /\ handler[h].at = "nearest" /\ handler[h].route # None
    BY BotTypesHere DEF NearestNow
<1>2. ASSUME handler' = [handler EXCEPT ![h].at = "schedule"], UNCHANGED <<redis, chat>>
      PROVE  Types'
    BY <1>1, <1>2, BotTypesHere, BotTypes DEF HandlerPlaces
<1>3. ASSUME NEW options \in NearestAnswers(Dep[r]), NEW st \in options,
             redis' = [redis EXCEPT ![r].service = st], Send(r, TellStatus(st)), Finish(h)
      PROVE  Types'
    <2>1. st \in Status
        BY <1>3, AnswerTypes DEF LiveStatus
    <2>2. TellStatus(st) \in Belief
        BY <2>1, TellTypes
    <2>3. redis' \in [Routes -> Keys] /\ chat' \in [Routes -> Chat]
        BY <1>3, <2>1, <2>2, FoundTypes, Zenon
    <2> QED BY <1>1, <1>3, <2>3, BotTypesHere, BotTypes
<1>4. ASSUME NEW options \in NearestAnswers(Dep[r]),
             chat' = [chat EXCEPT ![r].keyboards = @ \cup {ServicesOf(options)},
                                  ![r].asked = OneMore(@)],
             Finish(h), UNCHANGED redis
      PROVE  Types'
    <2>1. ServicesOf(options) \in SUBSET Trains
        BY AnswerTypes DEF ServicesOf, LiveStatus, Status
    <2>2. chat' \in [Routes -> Chat]
        BY <1>4, <2>1, ChatTypes, BotTypesHere, Zenon
    <2> QED BY <1>1, <1>4, <2>2, BotTypesHere, BotTypes
<1>5. ASSUME Finish(h), UNCHANGED <<redis, chat>> PROVE Types'
    BY <1>1, <1>5, BotTypesHere, BotTypes
<1> QED BY <1>2, <1>3, <1>4, <1>5 DEF NearestNow

LEMMA ScheduleNowTypes ==
    ASSUME NEW r \in Routes, NEW h \in Handlers, Types, BotActs, ScheduleNow(h, r) PROVE Types'
<1>1. now' = now /\ db' = db /\ Finish(h)
    BY DEF ScheduleNow
<1>2. ASSUME UNCHANGED <<redis, chat>> PROVE Types'
    BY <1>1, <1>2, BotTypesHere, BotTypes
<1>3. ASSUME NEW st \in TimetableAnswers(Dep[r]), st # None,
             redis' = [redis EXCEPT ![r].service = st], Send(r, Unaware(st.svc))
      PROVE  Types'
    <2>1. st \in Status /\ st.svc \in Trains
        BY <1>3, AnswerTypes DEF TimetableStatus, Status
    <2>2. Unaware(st.svc) \in Belief
        BY <2>1, UnawareTypes
    <2>3. redis' \in [Routes -> Keys] /\ chat' \in [Routes -> Chat]
        BY <1>3, <2>1, <2>2, FoundTypes, Zenon
    <2> QED BY <1>1, <2>3, BotTypesHere, BotTypes
<1> QED BY <1>2, <1>3 DEF ScheduleNow

\* Every step of the handlers keeps the types.
LEMMA BotActsTypes == Types /\ BotActs => Types'
<1> SUFFICES ASSUME Types, BotActs PROVE Types'
    OBVIOUS
<1>1. ASSUME NEW r \in Routes, NEW h \in Handlers, HandlerStep(h, r) PROVE Types'
    BY <1>1, PressTypes, ChooseTypes, EditTypes, ReconcileTypes, CreateTypes, PlanNowTypes,
       NearestNowTypes, ScheduleNowTypes DEF HandlerStep
<1> QED BY <1>1, RowTypes DEF BotActs, BotStep

\* The clock moves on to a later instant.
LEMMA ClockMoves ==
    ASSUME Types, Clock
    PROVE  now' \in Instants /\ now < now'
<1> DEFINE later == {t \in Instants : t > now}
<1>1. later # {} /\ later \in SUBSET Nat /\ now' = Min(later)
    BY TimesAssumption DEF Clock, Advance
<1>2. now' \in later
    BY <1>1, MinIsLeast
<1> QED BY <1>2, TimesAssumption DEF Types, TypeOK, StoreTypeOK

\* The clock and a restart keep the types.
LEMMA ClockTypes == Types /\ Clock => Types'
<1> SUFFICES ASSUME Types, Clock PROVE Types'
    OBVIOUS
<1>1. now' \in Instants /\ now < now'
    BY ClockMoves
<1>2. TypeOK'
    BY <1>1 DEF Clock, Advance, daemonVars, Types, TypeOK, StoreTypeOK, DaemonTypeOK, BotTypeOK
<1>3. UNCHANGED <<pc, tick, job, handler>>
    BY DEF Clock, daemonVars
<1>4. now \in Nat /\ now' \in Nat /\ tick.now \in Nat \cup {None}
    BY <1>1, TimesAssumption DEF Types, TypeOK, StoreTypeOK, DaemonTypeOK
<1>5. pc' # "idle" => tick'.now # None /\ tick'.now <= now'
    <2>1. ASSUME pc # "idle" PROVE tick.now # None /\ tick.now <= now
        BY <2>1 DEF Types, TurnOK
    <2> QED BY <1>1, <1>3, <1>4, <2>1
<1>6. TurnOK'
    BY <1>3, <1>5 DEF Types, TurnOK
<1> QED BY <1>2, <1>6 DEF Types

LEMMA CrashTypes == Types /\ Crash => Types'
<1> SUFFICES ASSUME Types, Crash PROVE Types'
    OBVIOUS
<1>1. StoreTypeOK' /\ BotTypeOK'
    BY DEF Crash, BotCrash, NoHandler, storeVars, Types, TypeOK, StoreTypeOK, BotTypeOK
<1>2. DaemonTypeOK'
    BY DEF Crash, DaemonCrash, NoTick, NoJob, DaemonTypeOK, Turns, Checking, Steps
<1>3. crashes' \in 0..MaxCrashes
    BY BoundsAssumption DEF Crash, Types, TypeOK
<1>4. TypeOK'
    BY <1>1, <1>2, <1>3 DEF Crash, Types, TypeOK
<1>5. TurnOK'
    BY DEF Crash, DaemonCrash, BotCrash, NoHandler, TurnOK, Turns
<1> QED BY <1>4, <1>5 DEF Types

\* The day begins in the types.
LEMMA InitTypes == Init => Types
<1> SUFFICES ASSUME Init PROVE Types
    OBVIOUS
<1>1. now \in Instants
    BY MinIsLeast, TimesAssumption DEF Init, StoreInit
<1>2. NoKeys \in Keys
    BY DEF NoKeys, Keys
<1>3. NoChat \in Chat
    BY CountAssumption DEF NoChat, Chat
<1>4. StoreTypeOK
    BY <1>1, <1>2, <1>3, InitialRowsAssumption DEF Init, StoreInit, StoreTypeOK
<1>5. DaemonTypeOK
    BY DEF Init, DaemonInit, NoTick, NoJob, DaemonTypeOK, Turns, Checking, Steps
<1>6. BotTypeOK
    BY DEF Init, BotInit, NoHandler, BotTypeOK
<1>c. crashes \in 0..MaxCrashes
    BY BoundsAssumption DEF Init
<1>7. TypeOK
    BY <1>4, <1>5, <1>6, <1>c, Zenon DEF Init, TypeOK
<1>8. TurnOK
    BY DEF Init, DaemonInit, BotInit, NoHandler, TurnOK, Turns
<1> QED BY <1>7, <1>8 DEF Types

\* The types, with what the places of the processes say of their locals, are inductive.
LEMMA TypesStep == Types /\ [Next]_vars => Types'
<1>1. Types /\ UNCHANGED vars => Types'
    BY DEF vars, storeVars, daemonVars, Types, TypeOK, StoreTypeOK, DaemonTypeOK, BotTypeOK, TurnOK
<1> QED BY <1>1, DaemonActsTypes, BotActsTypes, ClockTypes, CrashTypes DEF Next

\* The daemon's turns, the handlers, the clock and restarts keep the types; in particular a
\* turn never acts on a train or an answer that the step before did not leave it
\* (checkRoute, planRoute and what they call).
THEOREM TypeCorrect == Spec => []TypeOK
<1>1. Spec => []Types
    BY InitTypes, TypesStep, PTL DEF Spec
<1>2. Types => TypeOK
    BY DEF Types
<1> QED BY <1>1, <1>2, PTL

-----------------------------------------------------------------------------
(* The clock, the turns and the end of a route's day                       *)

\* The route has departed and no turn of the daemon's will ever be its own again.
Over(r) ==
    /\ IsDeparted(r, now)
    /\ job.route # r
    /\ pc # "idle" => IsDeparted(r, tick.now) \/ r \notin tick.todo

\* No handler moves the clock.
LEMMA BotClock == BotActs => now' = now
<1>1. ASSUME NEW q \in Routes, NEW h \in Handlers, HandlerStep(h, q) PROVE now' = now
    BY <1>1 DEF HandlerStep, PressTrain, ChooseAnswered, EditAlerts, Reconcile, CreateRoute,
       PlanNow, NearestNow, ScheduleNow
<1>2. ASSUME NEW q \in Routes, StopRoute(q) \/ ResumeRoute(q) \/ DeleteRoute(q)
      PROVE  now' = now
    BY <1>2 DEF StopRoute, ResumeRoute, DeleteRoute
<1> QED BY <1>1, <1>2 DEF BotActs, BotStep

\* A turn stays one of the same route until it ends.
LEMMA TurnRoute ==
    ASSUME Types, NEW q \in Routes, Turn(q)
    PROVE  /\ now' = now /\ tick' = tick
           /\ job'.route \in {job.route, None}
           /\ q = job.route /\ pc \in Turns
<1>1. /\ now' = now /\ tick' = tick
      /\ q = job.route /\ pc \in Turns
    BY DEF Turn, TransitionPlan, TransitionSave, TransitionTell, CheckFails,
       CheckAnswers, CheckSave, CheckBetter, AdoptSave, AdoptTell, SkipReminder,
       SendDepartureReminder, MarkReminder, EndReminders, PlanRoute, Miss, FindNearest,
       MarkChoice, FetchTimetable, Goto, NextRoute, storeVars, Turns, Steps
<1>2. CASE TransitionPlan(q) \/ CheckAnswers(q) \/ CheckBetter(q) \/ FindNearest(q)
    <2>1. job' = NoJob \/ job' = job \/ \E v : job' = [job EXCEPT !.fresh = v]
        BY <1>2 DEF TransitionPlan, CheckAnswers, CheckBetter, FindNearest, Goto, NextRoute
    <2> QED BY <1>1, <2>1 DEF NoJob, Types, TypeOK, DaemonTypeOK
<1>3. CASE \/ TransitionSave(q) \/ TransitionTell(q) \/ CheckFails(q) \/ CheckSave(q)
           \/ AdoptSave(q) \/ AdoptTell(q) \/ EndReminders(q)
           \/ PlanRoute(q) \/ Miss(q) \/ MarkChoice(q) \/ FetchTimetable(q)
    <2>1. job' = NoJob \/ job' = job
        BY <1>3 DEF TransitionSave, TransitionTell, CheckFails, CheckSave, AdoptSave, AdoptTell,
           EndReminders, PlanRoute, Miss, MarkChoice, FetchTimetable, Goto, NextRoute
    <2> QED BY <1>1, <2>1 DEF NoJob
<1>4. CASE SkipReminder(q) \/ SendDepartureReminder(q) \/ MarkReminder(q)
    BY <1>1, <1>4 DEF SkipReminder, SendDepartureReminder, MarkReminder,
       Types, TypeOK, DaemonTypeOK
<1> QED BY <1>1, <1>2, <1>3, <1>4 DEF Turn

\* The clock does not go back.
LEMMA NowMoves ==
    ASSUME Types, [Next]_vars
    PROVE  now \in Nat /\ now' \in Nat /\ now <= now'
<1>1. now \in Nat
    BY TimesAssumption DEF Types, TypeOK, StoreTypeOK
<1>2. CASE Clock
    <2>1. now' \in Instants /\ now < now'
        BY <1>2, ClockMoves
    <2> QED BY <1>1, <2>1, TimesAssumption
<1>3. CASE DaemonActs
    <2>1. ASSUME NEW q \in Routes, Turn(q) PROVE now' = now
        BY <2>1, TurnRoute
    <2>2. now' = now
        BY <1>3, <2>1 DEF DaemonActs, DaemonStep, StartTick, EndTick, ClearDeparted, BeginRoute,
           storeVars
    <2> QED BY <1>1, <2>2
<1>4. CASE BotActs \/ Crash \/ UNCHANGED vars
    BY <1>1, <1>4, BotClock DEF Crash, vars, storeVars
<1> QED BY <1>2, <1>3, <1>4 DEF Next

\* A route that is over stays so.
LEMMA OverStays ==
    ASSUME Types, [Next]_vars, NEW r \in Routes, Over(r)
    PROVE  Over(r)'
<1>0. /\ now \in Nat /\ Dep[r] \in Nat /\ r # None
      /\ pc # "idle" => tick.now \in Nat
      /\ tick \in [now : Instants \cup {None}, todo : SUBSET Routes,
                    offsets : [Routes -> SUBSET Offsets]]
    BY TimesAssumption, NoneAssumption DEF Types, TypeOK, TurnOK, StoreTypeOK, DaemonTypeOK
<1>1. CASE UNCHANGED vars
    BY <1>1 DEF vars, storeVars, daemonVars, Over, IsDeparted
<1>2. CASE BotActs
    BY <1>2, BotClock DEF BotActs, daemonVars, Over, IsDeparted
<1>3. CASE Clock
    <2>1. now' \in Nat /\ now < now' /\ UNCHANGED <<pc, tick, job>>
        BY <1>3, ClockMoves, TimesAssumption DEF Clock, daemonVars
    <2>2. Dep[r] < now /\ Dep[r] < now'
        BY <1>0, <2>1 DEF Over, IsDeparted
    <2> QED BY <1>0, <2>1, <2>2 DEF Over, IsDeparted
<1>4. CASE Crash
    BY <1>0, <1>4 DEF Crash, DaemonCrash, NoJob, storeVars, Over, IsDeparted
<1>5. CASE DaemonActs
    <2>1. CASE StartTick
        BY <1>0, <2>1 DEF StartTick, storeVars, Over, IsDeparted
    <2>2. CASE EndTick
        BY <1>0, <2>2 DEF EndTick, storeVars, Over, IsDeparted
    <2>3. ASSUME NEW q \in Routes, ClearDeparted(q) PROVE Over(r)'
        BY <1>0, <2>3 DEF ClearDeparted, Done, Over, IsDeparted
    <2>4. ASSUME NEW q \in Routes, BeginRoute(q) PROVE Over(r)'
        <3>1. /\ now' = now /\ tick' = [tick EXCEPT !.todo = @ \ {q}]
              /\ job'.route \in {q, None} /\ q # r /\ pc = "next"
            BY <1>0, <2>4 DEF BeginRoute, Done, storeVars, NoJob, Over
        <3> QED BY <1>0, <3>1 DEF Over, IsDeparted
    <2>5. ASSUME NEW q \in Routes, Turn(q) PROVE Over(r)'
        <3>1. now' = now /\ tick' = tick /\ pc # "idle" /\ job'.route \in {job.route, None}
            BY <2>5, TurnRoute DEF Turns
        <3> QED BY <1>0, <3>1 DEF Over, IsDeparted
    <2> QED BY <1>5, <2>1, <2>2, <2>3, <2>4, <2>5 DEF DaemonActs, DaemonStep
<1> QED BY <1>1, <1>2, <1>3, <1>4, <1>5 DEF Next

\* When the keys of a departed route are cleared, it is over.
LEMMA ClearedIsOver ==
    ASSUME Types, DaemonActs, NEW r \in Routes, ClearDeparted(r)
    PROVE  Over(r)'
<1>1. /\ now \in Nat /\ Dep[r] \in Nat /\ r # None
      /\ tick.now \in Nat /\ tick.now <= now /\ job.route = None
    BY TimesAssumption, NoneAssumption
    DEF ClearDeparted, Types, TypeOK, TurnOK, StoreTypeOK, DaemonTypeOK, Turns
<1>2. tick' = [tick EXCEPT !.todo = @ \ {r}] /\ now' = now /\ job' = job /\ Dep[r] < tick.now
    BY DEF ClearDeparted, Done, IsDeparted
<1>3. r \notin tick'.todo
    BY <1>2 DEF Types, TypeOK, DaemonTypeOK
<1> QED BY <1>1, <1>2, <1>3 DEF Over, IsDeparted

=============================================================================
