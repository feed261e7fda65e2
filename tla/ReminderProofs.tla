--------------------------- MODULE ReminderProofs ---------------------------
(***************************************************************************)
(* The day of a route, for every set of routes, trains and offsets, every  *)
(* clock and any number of restarts: how often a reminder and a question   *)
(* about trains can be sent, and which reminders are marked without being  *)
(* sent.                                                                   *)
(*                                                                         *)
(* A flag in Redis is what keeps a message from being sent twice, and it   *)
(* is set after the message: the invariants say where the daemon stands in *)
(* between, and that the only other way to lose the flag, the clearing of  *)
(* the departed route's keys, comes when the route has no turn left.       *)
(***************************************************************************)
EXTENDS TrackerProofs

\* The reminder went out and its flag is about to be set.
Sending(r, o) == pc = "mark" /\ job.route = r /\ job.offset = o

\* The question went out and its flag is about to be set.
Asking(r) == pc = "markChoice" /\ job.route = r

\* One reminder more than the restarts is one whose flag cannot be lost.
ReminderInv ==
    \A r \in Routes, o \in Offsets :
        /\ chat[r].reminded[o] <= crashes + 1
        /\ chat[r].reminded[o] > crashes =>
              o \in redis[r].alert_sent \/ Sending(r, o) \/ Over(r)

\* The same of the questions, when only the daemon asks them.
AskInv ==
    /\ \A r \in Routes :
        /\ chat[r].asked <= crashes + 1
        /\ chat[r].asked > crashes => redis[r].choice_sent \/ Asking(r) \/ Over(r)
    /\ pc = "nearest" => ~redis[job.route].choice_sent
    /\ \A h \in Handlers : handler[h].at \notin {"plan", "nearest", "schedule"}

\* A flag that is set, or about to be, belongs to a window that has opened.
FlagInv ==
    /\ \A r \in Routes : \A o \in redis[r].alert_sent : AlertStart(r, o) <= now
    /\ pc = "mark" => AlertStart(job.route, job.offset) <= now

-----------------------------------------------------------------------------
(* What the steps leave alone                                              *)

\* No reminder and no question arrives at the route.
SameCounts(r) ==
    /\ chat'[r].reminded = chat[r].reminded
    /\ chat'[r].asked = chat[r].asked

\* None of its flags is set or cleared.
SameFlags(r) ==
    /\ redis'[r].alert_sent = redis[r].alert_sent
    /\ redis'[r].choice_sent = redis[r].choice_sent

\* What the other messages count.
Counted(q, p, r, o) ==
    /\ chat'[r].asked = chat[r].asked
    /\ q = r /\ p = o => chat'[r].reminded[o] = OneMore(chat[r].reminded[o])
    /\ ~(q = r /\ p = o) => chat'[r].reminded[o] = chat[r].reminded[o]

\* A reminder counts as one more of its route and offset.
LEMMA ReminderCounts ==
    ASSUME chat \in [Routes -> Chat], NEW q \in Routes, NEW r \in Routes, NEW b,
           NEW p \in Offsets, NEW o \in Offsets,
           chat' = [chat EXCEPT ![q].told = b, ![q].reminded[p] = OneMore(@)]
    PROVE  Counted(q, p, r, o)
<1> DEFINE new == [chat[q].reminded EXCEPT ![p] = OneMore(@)]
           line == [chat[q] EXCEPT !.told = b, !.reminded = new]
<1>1. /\ DOMAIN chat = Routes
      /\ DOMAIN chat[q] = {"told", "keyboards", "asked", "reminded"}
      /\ DOMAIN chat[q].reminded = Offsets
    BY DEF Chat
<1>2. /\ \A x \in Offsets : x # p => new[x] = chat[q].reminded[x]
      /\ new[p] = OneMore(chat[q].reminded[p])
    BY <1>1
<1>3. chat' = [chat EXCEPT ![q] = line]
    OBVIOUS
<1> HIDE DEF new
<1>4. line.asked = chat[q].asked /\ line.reminded = new
    BY <1>1
<1> HIDE DEF line
<1>5. /\ q = r => chat'[r] = line
      /\ q # r => chat'[r] = chat[r]
    BY <1>1, <1>3
<1> QED BY <1>2, <1>4, <1>5 DEF Counted

\* A question or its answer sets the count of its route to n.
Questioned(q, r, n) ==
    /\ chat'[r].reminded = chat[r].reminded
    /\ chat'[r].asked = IF q = r THEN n ELSE chat[r].asked

LEMMA QuestionCounts ==
    ASSUME chat \in [Routes -> Chat], NEW q \in Routes, NEW r \in Routes, NEW k, NEW n,
           \/ chat' = [chat EXCEPT ![q].keyboards = @ \cup {k}, ![q].asked = n]
           \/ chat' = [chat EXCEPT ![q].keyboards = @ \ k, ![q].asked = n]
    PROVE  Questioned(q, r, n)
<1>1. /\ DOMAIN chat = Routes
      /\ DOMAIN chat[q] = {"told", "keyboards", "asked", "reminded"}
    BY DEF Chat
<1>2. ASSUME NEW board, chat' = [chat EXCEPT ![q].keyboards = board, ![q].asked = n]
      PROVE  Questioned(q, r, n)
    <2> DEFINE line == [chat[q] EXCEPT !.keyboards = board, !.asked = n]
    <2>1. line.asked = n /\ line.reminded = chat[q].reminded
        BY <1>1
    <2>2. chat' = [chat EXCEPT ![q] = line]
        BY <1>2
    <2> HIDE DEF line
    <2>3. /\ q = r => chat'[r] = line
          /\ q # r => chat'[r] = chat[r]
        BY <1>1, <2>2
    <2> QED BY <2>1, <2>3 DEF Questioned
<1>3. \E board : chat' = [chat EXCEPT ![q].keyboards = board, ![q].asked = n]
    <2>1. CASE chat' = [chat EXCEPT ![q].keyboards = @ \cup {k}, ![q].asked = n]
        <3> DEFINE board == chat[q].keyboards \cup {k}
        <3>1. chat' = [chat EXCEPT ![q].keyboards = board, ![q].asked = n]
            BY <2>1
        <3> QED BY <3>1
    <2>2. CASE chat' = [chat EXCEPT ![q].keyboards = @ \ k, ![q].asked = n]
        <3> DEFINE board == chat[q].keyboards \ k
        <3>1. chat' = [chat EXCEPT ![q].keyboards = board, ![q].asked = n]
            BY <2>2
        <3> QED BY <3>1
    <2> QED BY <2>1, <2>2
<1> QED BY <1>2, <1>3

\* No message of a status changes what is counted.
LEMMA SendCounts ==
    ASSUME chat \in [Routes -> Chat], NEW q \in Routes, NEW b, Send(q, b), NEW r \in Routes
    PROVE  SameCounts(r)
BY DEF Send, SameCounts, Chat

\* No change of another key changes a flag.
LEMMA KeyFlags ==
    ASSUME redis \in [Routes -> Keys], NEW q \in Routes, NEW r \in Routes, NEW v, NEW w,
           \/ redis' = redis
           \/ redis' = [redis EXCEPT ![q].service = v]
           \/ redis' = [redis EXCEPT ![q].last = v]
           \/ redis' = [redis EXCEPT ![q].last = v, ![q].service = w]
           \/ redis' = [redis EXCEPT ![q].service = v, ![q].first_miss = w]
           \/ redis' = [redis EXCEPT ![q].first_miss = v]
           \/ redis' = [redis EXCEPT ![q].backoff = v]
    PROVE  SameFlags(r)
BY DEF SameFlags, Keys

\* The turns' steps that neither count nor flag anything.
LEMMA PlainTurns ==
    ASSUME Types, DaemonActs, NEW q \in Routes, NEW r \in Routes,
           \/ TransitionPlan(q) \/ TransitionSave(q) \/ TransitionTell(q)
           \/ CheckFails(q) \/ CheckAnswers(q) \/ CheckSave(q)
           \/ CheckBetter(q) \/ AdoptSave(q) \/ AdoptTell(q)
           \/ SkipReminder(q) \/ EndReminders(q)
           \/ PlanRoute(q) \/ Miss(q) \/ FetchTimetable(q)
    PROVE  SameCounts(r) /\ SameFlags(r)
<1>0. redis \in [Routes -> Keys] /\ chat \in [Routes -> Chat]
    BY TypesHere
<1>a. chat' = chat => SameCounts(r)
    BY DEF SameCounts
<1>b. redis' = redis => SameFlags(r)
    BY DEF SameFlags
<1>1. CASE TransitionPlan(q)
    <2>1. chat' = chat /\ (redis' = redis \/ \E st : redis' = [redis EXCEPT ![q].service = st])
        BY <1>1 DEF TransitionPlan
    <2> QED BY <1>0, <1>a, <2>1, KeyFlags
<1>2. CASE TransitionSave(q)
    BY <1>0, <1>2, <1>a, KeyFlags DEF TransitionSave
<1>3. CASE TransitionTell(q)
    BY <1>0, <1>3, <1>a, <1>b, SendCounts DEF TransitionTell
<1>4. CASE CheckFails(q) \/ SkipReminder(q) \/ EndReminders(q)
    BY <1>4, <1>a, <1>b DEF CheckFails, SkipReminder, EndReminders, storeVars
<1>5. CASE CheckAnswers(q)
    <2>1. redis' = redis /\ (chat' = chat \/ \E b : Send(q, b))
        BY <1>5 DEF CheckAnswers
    <2> QED BY <1>0, <1>a, <1>b, <2>1, SendCounts
<1>6. CASE CheckSave(q)
    <2>1. chat' = chat /\ \E v, w : redis' = [redis EXCEPT ![q].last = v, ![q].service = w]
        BY <1>6 DEF CheckSave
    <2> QED BY <1>0, <1>a, <2>1, KeyFlags
<1>7. CASE CheckBetter(q)
    <2>1. chat' = chat /\ (redis' = redis \/ \E st : redis' = [redis EXCEPT ![q].service = st])
        BY <1>7 DEF CheckBetter
    <2> QED BY <1>0, <1>a, <2>1, KeyFlags
<1>8. CASE AdoptSave(q)
    BY <1>0, <1>8, <1>a, KeyFlags DEF AdoptSave, AdoptBaseline
<1>9. CASE AdoptTell(q)
    BY <1>0, <1>9, <1>a, <1>b, SendCounts DEF AdoptTell, AdoptNews
<1>10. CASE PlanRoute(q)
    <2>1. chat' = chat /\ (redis' = redis \/ \E st, w :
              redis' = [redis EXCEPT ![q].service = st, ![q].first_miss = w])
        BY <1>10 DEF PlanRoute
    <2> QED BY <1>0, <1>a, <2>1, KeyFlags
<1>11. CASE Miss(q)
    <2>1. chat' = chat /\ (redis' = redis \/ \E v : redis' = [redis EXCEPT ![q].first_miss = v])
        BY <1>11 DEF Miss
    <2> QED BY <1>0, <1>a, <2>1, KeyFlags
<1>12. CASE FetchTimetable(q)
    <2>1. chat' = chat /\ (redis' = redis \/ (\E v : redis' = [redis EXCEPT ![q].backoff = v])
                           \/ \E st : redis' = [redis EXCEPT ![q].service = st])
        BY <1>12 DEF FetchTimetable
    <2> QED BY <1>0, <1>a, <2>1, KeyFlags
<1> QED BY <1>1, <1>2, <1>3, <1>4, <1>5, <1>6, <1>7, <1>8, <1>9, <1>10, <1>11, <1>12

\* The handlers' steps, when none of them plans a new route.
LEMMA BotFlags ==
    ASSUME Types, BotActs, NEW r \in Routes
    PROVE  /\ chat'[r].reminded = chat[r].reminded
           /\ \/ redis'[r].alert_sent = redis[r].alert_sent
              \/ \E h \in Handlers : Reconcile(h, r)
<1>0. redis \in [Routes -> Keys] /\ chat \in [Routes -> Chat]
    BY BotTypesHere
<1>1. ASSUME NEW q \in Routes, StopRoute(q) \/ ResumeRoute(q) \/ DeleteRoute(q)
      PROVE  redis' = redis /\ chat' = chat
    BY <1>1 DEF StopRoute, ResumeRoute, DeleteRoute
<1>2. ASSUME NEW q \in Routes, NEW h \in Handlers, EditAlerts(h, q) \/ CreateRoute(h, q)
      PROVE  redis' = redis /\ chat' = chat
    BY <1>2 DEF EditAlerts, CreateRoute
<1>3. ASSUME NEW q \in Routes, NEW h \in Handlers, PressTrain(h, q)
      PROVE  /\ chat'[r].reminded = chat[r].reminded
             /\ redis'[r].alert_sent = redis[r].alert_sent
    <2>1. \E gone : chat' = [chat EXCEPT ![q].keyboards = @ \ gone, ![q].asked = 0]
        BY <1>3 DEF PressTrain
    <2>2. redis' = redis \/ redis' = [redis EXCEPT ![q].choice_sent = FALSE]
        BY <1>3 DEF PressTrain
    <2>3. chat'[r].reminded = chat[r].reminded
        BY <1>0, <2>1 DEF Chat
    <2>4. redis'[r].alert_sent = redis[r].alert_sent
        BY <1>0, <2>2 DEF Keys
    <2> QED BY <2>3, <2>4
<1>4. ASSUME NEW q \in Routes, NEW h \in Handlers, Reconcile(h, q)
      PROVE  /\ chat' = chat
             /\ q = r \/ redis'[r].alert_sent = redis[r].alert_sent
    BY <1>0, <1>4 DEF Reconcile, Keys
<1>5. ASSUME NEW q \in Routes, NEW h \in Handlers,
             ChooseAnswered(h, q) \/ PlanNow(h, q) \/ NearestNow(h, q) \/ ScheduleNow(h, q)
      PROVE  /\ chat'[r].reminded = chat[r].reminded
             /\ redis'[r].alert_sent = redis[r].alert_sent
    <2>1. redis' = redis \/ \E st : redis' = [redis EXCEPT ![q].service = st]
        BY <1>5 DEF ChooseAnswered, PlanNow, NearestNow, ScheduleNow
    <2>0. SameFlags(r)
        BY <1>0, <2>1, KeyFlags
    <2>2. redis'[r].alert_sent = redis[r].alert_sent
        BY <2>0 DEF SameFlags
    <2>3. ASSUME NEW b, Send(q, b) PROVE chat'[r].reminded = chat[r].reminded
        BY <1>0, <2>3, SendCounts DEF SameCounts
    <2>4. ASSUME NEW k,
                 chat' = [chat EXCEPT ![q].keyboards = @ \cup {k}, ![q].asked = OneMore(@)]
          PROVE  chat'[r].reminded = chat[r].reminded
        BY <1>0, <2>4 DEF Chat
    <2>6. CASE ChooseAnswered(h, q)
        BY <2>2, <2>3, <2>6 DEF ChooseAnswered
    <2>7. CASE PlanNow(h, q)
        BY <2>2, <2>3, <2>7 DEF PlanNow
    <2>8. CASE NearestNow(h, q)
        BY <2>2, <2>3, <2>4, <2>8 DEF NearestNow
    <2>9. CASE ScheduleNow(h, q)
        BY <2>2, <2>3, <2>9 DEF ScheduleNow
    <2> QED BY <1>5, <2>6, <2>7, <2>8, <2>9
<1>6. ASSUME NEW q \in Routes, NEW h \in Handlers, HandlerStep(h, q)
      PROVE  /\ chat'[r].reminded = chat[r].reminded
             /\ redis'[r].alert_sent = redis[r].alert_sent \/ Reconcile(h, r)
    BY <1>2, <1>3, <1>4, <1>5, <1>6 DEF HandlerStep
<1> QED BY <1>1, <1>6 DEF BotActs, BotStep

-----------------------------------------------------------------------------
(* Reminders                                                               *)

\* ReminderInv, of one route and offset.
Reminders(r, o) ==
    /\ chat[r].reminded[o] <= crashes + 1
    /\ chat[r].reminded[o] > crashes =>
          o \in redis[r].alert_sent \/ Sending(r, o) \/ Over(r)

\* A step that neither reminds nor restarts, and keeps the flag, keeps the invariant.
LEMMA RemindersKept ==
    ASSUME Types, [Next]_vars, NEW r \in Routes, NEW o \in Offsets, Reminders(r, o),
           chat'[r].reminded = chat[r].reminded, crashes' = crashes,
           o \in redis[r].alert_sent => o \in redis'[r].alert_sent \/ Over(r)',
           Sending(r, o) => Sending(r, o)' \/ o \in redis'[r].alert_sent
    PROVE  Reminders(r, o)'
<1>1. Over(r) => Over(r)'
    BY OverStays
<1> QED BY <1>1 DEF Reminders

\* The daemon's steps: a reminder is sent where no flag is set, and the flag is set next.
LEMMA RemindersDaemon ==
    ASSUME Types, DaemonActs, NEW r \in Routes, NEW o \in Offsets, Reminders(r, o)
    PROVE  Reminders(r, o)'
<1>0. [Next]_vars /\ crashes' = crashes
    BY DEF Next, DaemonActs
<1>a. redis \in [Routes -> Keys] /\ chat \in [Routes -> Chat]
    BY TypesHere
<1>1. CASE StartTick \/ EndTick
    BY <1>0, <1>1, RemindersKept DEF StartTick, EndTick, storeVars, Sending
<1>2. ASSUME NEW q \in Routes, ClearDeparted(q) PROVE Reminders(r, o)'
    <2>1. q = r => Over(r)'
        BY <1>2, ClearedIsOver
    <2>2. chat' = chat /\ (q # r => redis'[r] = redis[r]) /\ pc = "next"
        BY <1>a, <1>2 DEF ClearDeparted, ClearRouteCache
    <2> QED BY <1>0, <2>1, <2>2, RemindersKept DEF Sending
<1>3. ASSUME NEW q \in Routes, BeginRoute(q) PROVE Reminders(r, o)'
    BY <1>0, <1>3, RemindersKept DEF BeginRoute, storeVars, Sending
<1>4. ASSUME NEW q \in Routes, Turn(q) PROVE Reminders(r, o)'
    <2>1. CASE \/ TransitionPlan(q) \/ TransitionSave(q) \/ TransitionTell(q)
               \/ CheckFails(q) \/ CheckAnswers(q) \/ CheckSave(q)
               \/ CheckBetter(q) \/ AdoptSave(q) \/ AdoptTell(q)
               \/ SkipReminder(q) \/ EndReminders(q)
               \/ PlanRoute(q) \/ Miss(q) \/ FetchTimetable(q)
        <3>1. SameCounts(r) /\ SameFlags(r)
            BY <2>1, PlainTurns
        <3>2. pc # "mark"
            BY <2>1 DEF TransitionPlan, TransitionSave, TransitionTell, CheckFails, CheckAnswers,
               CheckSave, CheckBetter, AdoptSave, AdoptTell, SkipReminder, EndReminders,
               PlanRoute, Miss, FetchTimetable
        <3> QED BY <1>0, <3>1, <3>2, RemindersKept DEF SameCounts, SameFlags, Sending
    <2>2. CASE SendDepartureReminder(q)
        <3>1. PICK p \in job.left :
                /\ ReminderDue(q, p)
                /\ \/ \E b : chat' = [chat EXCEPT ![q].told = b, ![q].reminded[p] = OneMore(@)]
                   \/ chat' = chat
                /\ job' = [job EXCEPT !.offset = p]
            BY <2>2 DEF SendDepartureReminder
        <3>c. ASSUME NEW b, chat' = [chat EXCEPT ![q].told = b, ![q].reminded[p] = OneMore(@)],
                     p \in Offsets
              PROVE  Counted(q, p, r, o)
            BY <1>a, <3>c, ReminderCounts, Zenon
        <3>2. pc = "remind" /\ pc' = "mark" /\ q = job.route /\ redis' = redis
            BY <2>2 DEF SendDepartureReminder
        <3>3. p \in Offsets
            BY DEF Types, TypeOK, DaemonTypeOK
        <3>4. CASE q = r /\ p = o
            <4>1. chat[r].reminded[o] <= crashes
                <5>1. o \notin redis[r].alert_sent /\ ~Sending(r, o) /\ ~Over(r)
                    BY <3>1, <3>2, <3>4 DEF ReminderDue, AlertSent, Sending, Over
                <5>2. chat[r].reminded[o] \in Nat /\ crashes \in Nat
                    BY <1>a DEF Chat, Types, TypeOK
                <5>3. ~(chat[r].reminded[o] > crashes)
                    BY <5>1 DEF Reminders
                <5>4. \A a, b \in Nat : ~(a > b) => a <= b
                    OBVIOUS
                <5> QED BY <5>2, <5>3, <5>4
            <4>2. chat'[r].reminded[o] \in {chat[r].reminded[o], OneMore(chat[r].reminded[o])}
                BY <3>1, <3>3, <3>4, <3>c DEF Counted
            <4>3. chat'[r].reminded[o] <= crashes + 1
                BY <1>a, <4>1, <4>2 DEF OneMore, Chat, Types, TypeOK
            <4>4. Sending(r, o)'
                BY <3>1, <3>2, <3>4 DEF Sending, Types, TypeOK, DaemonTypeOK
            <4> QED BY <1>0, <4>3, <4>4 DEF Reminders
        <3>5. CASE ~(q = r /\ p = o)
            <4>1. chat'[r].reminded[o] = chat[r].reminded[o]
                BY <3>1, <3>3, <3>5, <3>c DEF Counted
            <4>2. ~Sending(r, o)
                BY <3>2 DEF Sending
            <4>3. Over(r) => Over(r)'
                BY <1>0, OverStays
            <4> QED BY <1>0, <3>2, <4>1, <4>2, <4>3 DEF Reminders
        <3> QED BY <3>4, <3>5
    <2>3. CASE MarkReminder(q)
        <3>1. chat' = chat /\ q = job.route /\ pc = "mark"
              /\ redis' = [redis EXCEPT ![q].alert_sent = @ \cup {job.offset}]
            BY <2>3 DEF MarkReminder, MarkAlertSent
        <3>2. /\ o \in redis[r].alert_sent => o \in redis'[r].alert_sent
              /\ Sending(r, o) => o \in redis'[r].alert_sent
            BY <1>a, <3>1 DEF Sending, Keys
        <3> QED BY <1>0, <3>1, <3>2, RemindersKept
    <2>4. CASE FindNearest(q) \/ MarkChoice(q)
        <3>1. pc # "mark"
            BY <2>4 DEF FindNearest, MarkChoice
        <3>2. \/ redis' = redis \/ redis' = [redis EXCEPT ![q].choice_sent = TRUE]
              \/ \E st : redis' = [redis EXCEPT ![q].service = st]
            BY <2>4 DEF FindNearest, MarkChoice, MarkChoiceSent
        <3>3. redis'[r].alert_sent = redis[r].alert_sent
            BY <1>a, <3>2 DEF Keys
        <3>4. \/ chat' = chat
              \/ \E k, n : chat' = [chat EXCEPT ![q].keyboards = @ \cup {k}, ![q].asked = n]
            BY <2>4 DEF FindNearest, MarkChoice
        <3>5. chat'[r].reminded = chat[r].reminded
            <4>1. ASSUME NEW k, NEW n,
                         chat' = [chat EXCEPT ![q].keyboards = @ \cup {k}, ![q].asked = n]
                  PROVE  Questioned(q, r, n)
                BY <1>a, <4>1, QuestionCounts, Zenon
            <4> QED BY <3>4, <4>1 DEF Questioned
        <3> QED BY <1>0, <3>1, <3>3, <3>5, RemindersKept DEF Sending
    <2> QED BY <1>4, <2>1, <2>2, <2>3, <2>4 DEF Turn
<1> QED BY <1>1, <1>2, <1>3, <1>4 DEF DaemonActs, DaemonStep

\* Every step; a restart loses at most the flag of one reminder under way.
LEMMA RemindersStep ==
    ASSUME Types, [Next]_vars, NEW r \in Routes, NEW o \in Offsets, Reminders(r, o)
    PROVE  Reminders(r, o)'
<1>1. CASE UNCHANGED vars
    BY <1>1, RemindersKept DEF vars, storeVars, daemonVars, Sending
<1>2. CASE BotActs
    <2>1. o \in redis[r].alert_sent => o \in redis'[r].alert_sent
        <3>1. CASE redis'[r].alert_sent = redis[r].alert_sent
            BY <3>1
        <3>2. ASSUME NEW h \in Handlers, Reconcile(h, r)
              PROVE  redis[r].alert_sent \subseteq redis'[r].alert_sent
            BY <3>2, BotTypesHere DEF Reconcile, Keys
        <3> QED BY <1>2, <3>1, <3>2, BotFlags
    <2>2. chat'[r].reminded = chat[r].reminded /\ crashes' = crashes
        BY <1>2, BotFlags DEF BotActs
    <2>3. Sending(r, o) => Sending(r, o)'
        BY <1>2 DEF BotActs, daemonVars, Sending
    <2> QED BY <2>1, <2>2, <2>3, RemindersKept
<1>3. CASE Clock
    BY <1>3, RemindersKept DEF Clock, Advance, daemonVars, Sending
<1>4. CASE Crash
    <2>1. chat' = chat /\ crashes' = crashes + 1
        BY <1>4 DEF Crash, storeVars
    <2>2. chat[r].reminded[o] \in Nat /\ crashes \in Nat
        BY DEF Types, TypeOK, StoreTypeOK, Chat
    <2> QED BY <2>1, <2>2 DEF Reminders
<1> QED BY <1>1, <1>2, <1>3, <1>4, RemindersDaemon DEF Next

\* However the daemon's turns, the handlers, the clock and the restarts interleave, a
\* reminder reaches the user once, and once more at most for every restart.
THEOREM OneReminder == Spec => []RemindedOnce
<1>1. ReminderInv <=> \A r \in Routes, o \in Offsets : Reminders(r, o)
    BY DEF ReminderInv, Reminders
<1>2. Init => ReminderInv
    BY <1>1 DEF Init, StoreInit, NoChat, Reminders
<1>3. Types /\ ReminderInv /\ [Next]_vars => ReminderInv'
    <2> SUFFICES ASSUME Types, ReminderInv, [Next]_vars,
                        NEW r \in Routes, NEW o \in Offsets
                 PROVE  Reminders(r, o)'
        BY DEF ReminderInv, Reminders
    <2>1. Reminders(r, o)
        BY <1>1
    <2> QED BY <2>1, RemindersStep
<1>4. Types /\ ReminderInv => RemindedOnce
    BY DEF ReminderInv, RemindedOnce, Types, TypeOK, StoreTypeOK, Chat
<1> QED BY <1>2, <1>3, <1>4, InitTypes, TypesStep, PTL DEF Spec

-----------------------------------------------------------------------------
(* Questions                                                               *)

\* AskInv, part by part: no handler plans, and a route is asked or searched for.
NoPlanner == \A h \in Handlers : handler[h].at \notin {"plan", "nearest", "schedule"}

Asked(r) ==
    /\ chat[r].asked <= crashes + 1
    /\ chat[r].asked > crashes => redis[r].choice_sent \/ Asking(r) \/ Over(r)

Unasked == pc = "nearest" => ~redis[job.route].choice_sent

\* A step that neither asks nor restarts, and keeps the flag or starts the count anew.
LEMMA AskedKept ==
    ASSUME Types, [Next]_vars, NEW r \in Routes, Asked(r), crashes' = crashes,
           \/ chat'[r].asked = 0
           \/ /\ chat'[r].asked = chat[r].asked
              /\ redis[r].choice_sent => redis'[r].choice_sent \/ Over(r)'
              /\ Asking(r) => Asking(r)' \/ redis'[r].choice_sent
    PROVE  Asked(r)'
<1>1. Over(r) => Over(r)'
    BY OverStays
<1>2. crashes \in Nat
    BY DEF Types, TypeOK
<1> QED BY <1>1, <1>2 DEF Asked

\* The handlers, when none of them plans a new route: an answer takes the flag and the
\* count away together.
LEMMA BotAsks ==
    ASSUME Types, BotActs, NoPlanner, "create" \notin Uses, NEW r \in Routes
    PROVE  /\ NoPlanner'
           /\ \/ chat'[r].asked = chat[r].asked /\ redis'[r].choice_sent = redis[r].choice_sent
              \/ chat'[r].asked = 0 /\ (redis'[r].choice_sent => redis[r].choice_sent)
<1>0. redis \in [Routes -> Keys] /\ chat \in [Routes -> Chat]
    BY BotTypesHere
<1>1. ASSUME NEW q \in Routes, StopRoute(q) \/ ResumeRoute(q) \/ DeleteRoute(q)
      PROVE  redis' = redis /\ chat' = chat /\ handler' = handler
    BY <1>1 DEF StopRoute, ResumeRoute, DeleteRoute
<1>2. ASSUME NEW q \in Routes, NEW h \in Handlers,
             \/ CreateRoute(h, q) \/ PlanNow(h, q) \/ NearestNow(h, q) \/ ScheduleNow(h, q)
      PROVE  FALSE
    BY <1>2 DEF CreateRoute, PlanNow, NearestNow, ScheduleNow, NoPlanner
<1>3. ASSUME NEW q \in Routes, NEW h \in Handlers,
             PressTrain(h, q) \/ ChooseAnswered(h, q) \/ EditAlerts(h, q) \/ Reconcile(h, q)
      PROVE  NoPlanner'
    <2>1. \/ handler' = handler \/ handler' = [handler EXCEPT ![h] = NoHandler]
          \/ \E s : handler' = [handler EXCEPT ![h].at = "choose", ![h].route = q, ![h].train = s]
          \/ \E a, b : handler' = [handler EXCEPT ![h].at = "reconcile", ![h].route = q,
                                                  ![h].old = a, ![h].new = b]
        BY <1>3 DEF PressTrain, ChooseAnswered, EditAlerts, Reconcile, Finish
    <2>2. /\ DOMAIN handler = Handlers
          /\ \A k \in Handlers : DOMAIN handler[k] = {"at", "route", "train", "old", "new"}
        BY DEF Types, TypeOK, BotTypeOK
    <2>3. ASSUME NEW k \in Handlers
          PROVE  handler'[k].at \in {handler[k].at, "idle", "choose", "reconcile"}
        <3>1. CASE handler' = handler \/ handler' = [handler EXCEPT ![h] = NoHandler]
            BY <2>2, <3>1 DEF NoHandler
        <3>2. ASSUME NEW s, handler' = [handler EXCEPT ![h].at = "choose", ![h].route = q,
                                                      ![h].train = s]
              PROVE  handler'[k].at \in {handler[k].at, "choose"}
            BY <2>2, <3>2
        <3>3. ASSUME NEW a, NEW b,
                     handler' = [handler EXCEPT ![h].at = "reconcile", ![h].route = q,
                                                ![h].old = a, ![h].new = b]
              PROVE  handler'[k].at \in {handler[k].at, "reconcile"}
            BY <2>2, <3>3
        <3> QED BY <2>1, <3>1, <3>2, <3>3
    <2> QED BY <2>3 DEF NoPlanner
<1>4. ASSUME NEW q \in Routes, NEW h \in Handlers, PressTrain(h, q)
      PROVE  \/ chat'[r].asked = chat[r].asked /\ redis'[r].choice_sent = redis[r].choice_sent
             \/ chat'[r].asked = 0 /\ (redis'[r].choice_sent => redis[r].choice_sent)
    <2>1. PICK gone : chat' = [chat EXCEPT ![q].keyboards = @ \ gone, ![q].asked = 0]
        BY <1>4 DEF PressTrain
    <2>2. redis' = redis \/ redis' = [redis EXCEPT ![q].choice_sent = FALSE]
        BY <1>4 DEF PressTrain
    <2>a. Questioned(q, r, 0)
        BY <1>0, <2>1, QuestionCounts, Zenon
    <2>3. chat'[r].asked = IF q = r THEN 0 ELSE chat[r].asked
        BY <2>a DEF Questioned
    <2>4. CASE q = r
        BY <1>0, <2>2, <2>3, <2>4 DEF Keys
    <2>5. CASE q # r
        BY <1>0, <2>2, <2>3, <2>5 DEF Keys
    <2> QED BY <2>4, <2>5
<1>5. ASSUME NEW q \in Routes, NEW h \in Handlers, ChooseAnswered(h, q)
      PROVE  chat'[r].asked = chat[r].asked /\ redis'[r].choice_sent = redis[r].choice_sent
    <2>1. redis' = redis \/ \E st : redis' = [redis EXCEPT ![q].service = st]
        BY <1>5 DEF ChooseAnswered
    <2>2. \E b : Send(q, b)
        BY <1>5 DEF ChooseAnswered
    <2>3. SameFlags(r)
        BY <1>0, <2>1, KeyFlags
    <2>4. SameCounts(r)
        BY <1>0, <2>2, SendCounts
    <2> QED BY <2>3, <2>4 DEF SameFlags, SameCounts
<1>6. ASSUME NEW q \in Routes, NEW h \in Handlers, EditAlerts(h, q) \/ Reconcile(h, q)
      PROVE  chat'[r].asked = chat[r].asked /\ redis'[r].choice_sent = redis[r].choice_sent
    BY <1>0, <1>6 DEF EditAlerts, Reconcile, Keys
<1>7. ASSUME NEW q \in Routes, NEW h \in Handlers, HandlerStep(h, q)
      PROVE  /\ NoPlanner'
             /\ \/ chat'[r].asked = chat[r].asked /\ redis'[r].choice_sent = redis[r].choice_sent
                \/ chat'[r].asked = 0 /\ (redis'[r].choice_sent => redis[r].choice_sent)
    BY <1>2, <1>3, <1>4, <1>5, <1>6, <1>7 DEF HandlerStep
<1>8. CASE redis' = redis /\ chat' = chat /\ handler' = handler
    BY <1>8 DEF NoPlanner
<1> QED BY <1>1, <1>7, <1>8 DEF BotActs, BotStep

\* The daemon's steps: a question is sent where no flag is set, and the flag is set next.
LEMMA AskedDaemon ==
    ASSUME Types, DaemonActs, Unasked, NEW r \in Routes, Asked(r)
    PROVE  Asked(r)'
<1>0. [Next]_vars /\ crashes' = crashes
    BY DEF Next, DaemonActs
<1>a. redis \in [Routes -> Keys] /\ chat \in [Routes -> Chat]
    BY TypesHere
<1>1. CASE StartTick \/ EndTick
    BY <1>0, <1>1, AskedKept DEF StartTick, EndTick, storeVars, Asking
<1>2. ASSUME NEW q \in Routes, ClearDeparted(q) PROVE Asked(r)'
    <2>1. q = r => Over(r)'
        BY <1>2, ClearedIsOver
    <2>2. chat' = chat /\ (q # r => redis'[r] = redis[r]) /\ pc = "next"
        BY <1>a, <1>2 DEF ClearDeparted, ClearRouteCache
    <2> QED BY <1>0, <2>1, <2>2, AskedKept DEF Asking
<1>3. ASSUME NEW q \in Routes, BeginRoute(q) PROVE Asked(r)'
    BY <1>0, <1>3, AskedKept DEF BeginRoute, storeVars, Asking
<1>4. ASSUME NEW q \in Routes, Turn(q) PROVE Asked(r)'
    <2>1. CASE \/ TransitionPlan(q) \/ TransitionSave(q) \/ TransitionTell(q)
               \/ CheckFails(q) \/ CheckAnswers(q) \/ CheckSave(q)
               \/ CheckBetter(q) \/ AdoptSave(q) \/ AdoptTell(q)
               \/ SkipReminder(q) \/ EndReminders(q)
               \/ PlanRoute(q) \/ Miss(q) \/ FetchTimetable(q)
        <3>1. SameCounts(r) /\ SameFlags(r)
            BY <2>1, PlainTurns
        <3>2. pc # "markChoice"
            BY <2>1 DEF TransitionPlan, TransitionSave, TransitionTell, CheckFails, CheckAnswers,
               CheckSave, CheckBetter, AdoptSave, AdoptTell, SkipReminder, EndReminders,
               PlanRoute, Miss, FetchTimetable
        <3> QED BY <1>0, <3>1, <3>2, AskedKept DEF SameCounts, SameFlags, Asking
    <2>2. CASE SendDepartureReminder(q)
        <3>1. PICK p \in job.left :
                /\ ReminderDue(q, p)
                /\ \/ \E b : chat' = [chat EXCEPT ![q].told = b, ![q].reminded[p] = OneMore(@)]
                   \/ chat' = chat
                /\ job' = [job EXCEPT !.offset = p]
            BY <2>2 DEF SendDepartureReminder
        <3>2. p \in Offsets
            BY DEF Types, TypeOK, DaemonTypeOK
        <3>3. ASSUME NEW b, chat' = [chat EXCEPT ![q].told = b, ![q].reminded[p] = OneMore(@)]
              PROVE  Counted(q, p, r, p)
            BY <1>a, <3>2, <3>3, ReminderCounts, Zenon
        <3>4. chat'[r].asked = chat[r].asked
            BY <3>1, <3>3 DEF Counted
        <3>5. redis' = redis /\ pc = "remind"
            BY <2>2 DEF SendDepartureReminder
        <3> QED BY <1>0, <3>4, <3>5, AskedKept DEF Asking
    <2>3. CASE MarkReminder(q)
        <3>1. redis'[r].choice_sent = redis[r].choice_sent
            BY <1>a, <2>3 DEF MarkReminder, MarkAlertSent, Keys
        <3> QED BY <1>0, <2>3, <3>1, AskedKept DEF MarkReminder, Asking
    <2>4. CASE MarkChoice(q)
        <3>1. redis[r].choice_sent \/ q = r => redis'[r].choice_sent
            BY <1>a, <2>4 DEF MarkChoice, MarkChoiceSent, Keys
        <3>2. Asking(r) => q = r
            BY <2>4 DEF MarkChoice, Asking
        <3> QED BY <1>0, <2>4, <3>1, <3>2, AskedKept DEF MarkChoice
    <2>5. CASE FindNearest(q)
        <3>1. pc = "nearest" /\ q = job.route
            BY <2>5 DEF FindNearest
        <3>2. redis' = redis \/ \E st : redis' = [redis EXCEPT ![q].service = st]
            BY <2>5 DEF FindNearest
        <3>3. SameFlags(r)
            BY <1>a, <3>2, KeyFlags
        <3>4. \/ chat' = chat
              \/ /\ \E k : chat' = [chat EXCEPT ![q].keyboards = @ \cup {k},
                                                ![q].asked = OneMore(@)]
                 /\ Goto("markChoice")
            BY <2>5 DEF FindNearest
        <3>5. CASE chat' = chat
            BY <1>0, <3>1, <3>3, <3>5, AskedKept DEF SameFlags, Asking
        <3>6. ASSUME NEW k, Goto("markChoice"),
                     chat' = [chat EXCEPT ![q].keyboards = @ \cup {k}, ![q].asked = OneMore(@)]
              PROVE  Asked(r)'
            <4>1. \E n : /\ n = OneMore(chat[q].asked)
                         /\ chat' = [chat EXCEPT ![q].keyboards = @ \cup {k}, ![q].asked = n]
                BY <3>6
            <4>a. ASSUME NEW n,
                         chat' = [chat EXCEPT ![q].keyboards = @ \cup {k}, ![q].asked = n]
                  PROVE  Questioned(q, r, n)
                BY <1>a, <4>a, QuestionCounts, Zenon
            <4>2. chat'[r].asked = IF q = r THEN OneMore(chat[q].asked) ELSE chat[r].asked
                BY <4>1, <4>a DEF Questioned
            <4>3. CASE q # r
                BY <1>0, <3>1, <3>3, <4>2, <4>3, AskedKept DEF SameFlags, Asking
            <4>4. CASE q = r
                <5>1. ~redis[r].choice_sent /\ ~Asking(r) /\ ~Over(r)
                    BY <3>1, <4>4 DEF Unasked, Asking, Over
                <5>2. chat[r].asked \in Nat /\ crashes \in Nat
                    BY <1>a DEF Chat, Types, TypeOK
                <5>3. ~(chat[r].asked > crashes)
                    BY <5>1 DEF Asked
                <5>4. OneMore(chat[r].asked) <= crashes + 1
                    BY <5>2, <5>3 DEF OneMore
                <5>5. Asking(r)'
                    BY <3>1, <3>6, <4>4 DEF Goto, Asking
                <5> QED BY <1>0, <4>2, <4>4, <5>4, <5>5 DEF Asked
            <4> QED BY <4>3, <4>4
        <3> QED BY <3>4, <3>5, <3>6
    <2> QED BY <1>4, <2>1, <2>2, <2>3, <2>4, <2>5 DEF Turn
<1> QED BY <1>1, <1>2, <1>3, <1>4 DEF DaemonActs, DaemonStep

\* The daemon looks for trains to ask about only where it has not asked.
LEMMA UnaskedDaemon == Types /\ DaemonActs => Unasked'
<1> SUFFICES ASSUME Types, DaemonActs, pc' = "nearest" PROVE ~redis'[job'.route].choice_sent
    BY DEF Unasked
<1>1. ASSUME NEW q \in Routes, BeginRoute(q) PROVE FALSE
    BY <1>1 DEF BeginRoute, Branch
<1>2. \E q \in Routes : Turn(q)
    BY <1>1 DEF DaemonActs, DaemonStep, StartTick, EndTick, ClearDeparted
<1>3. PICK q \in Routes : Turn(q)
    BY <1>2
<1>4. Miss(q)
    BY <1>3 DEF Turn, TransitionPlan, TransitionSave, TransitionTell, CheckFails, CheckAnswers,
       CheckSave, CheckBetter, AdoptSave, AdoptTell, SkipReminder, SendDepartureReminder,
       MarkReminder, EndReminders, PlanRoute, FindNearest, MarkChoice, FetchTimetable,
       Goto, NextRoute
<1>5. ~redis[q].choice_sent /\ q = job.route /\ job' = job
    BY <1>4 DEF Miss, Goto, NextRoute
<1>6. redis' = redis \/ redis' = [redis EXCEPT ![q].first_miss = now]
    BY <1>4 DEF Miss
<1> QED BY <1>5, <1>6, TypesHere DEF Keys

\* Every step keeps the invariant of the questions.
LEMMA AskStep ==
    ASSUME "create" \notin Uses, Types, [Next]_vars, AskInv
    PROVE  AskInv'
<1>0. NoPlanner /\ Unasked /\ \A r \in Routes : Asked(r)
    BY DEF AskInv, NoPlanner, Unasked, Asked
<1>g. ASSUME NoPlanner', Unasked', \A r \in Routes : Asked(r)'
      PROVE  AskInv'
    BY <1>g DEF AskInv, NoPlanner, Unasked, Asked
<1>1. CASE UNCHANGED vars
    BY <1>1, <1>0, <1>g, AskedKept
    DEF vars, storeVars, daemonVars, NoPlanner, Unasked, Asking
<1>2. CASE BotActs
    <2>1. ASSUME NEW r \in Routes PROVE Asked(r)'
        <3>1. Asking(r) => Asking(r)'
            BY <1>2 DEF BotActs, daemonVars, Asking
        <3>2. crashes' = crashes
            BY <1>2 DEF BotActs
        <3>3. redis'[r].choice_sent = redis[r].choice_sent =>
                (redis[r].choice_sent => redis'[r].choice_sent)
            OBVIOUS
        <3> QED BY <1>0, <1>2, <3>1, <3>2, <3>3, BotAsks, AskedKept
    <2>2. NoPlanner'
        <3>1. CASE Routes = {}
            BY <1>2, <3>1 DEF BotActs, BotStep
        <3> QED BY <1>0, <1>2, <3>1, BotAsks
    <2>3. Unasked'
        <3> SUFFICES ASSUME pc' = "nearest" PROVE ~redis'[job'.route].choice_sent
            BY DEF Unasked
        <3>1. job' = job /\ pc = "nearest" /\ job.route \in Routes
            BY <1>2 DEF BotActs, daemonVars, Types, TypeOK, DaemonTypeOK, Turns, Steps
        <3> QED BY <1>0, <1>2, <3>1, BotAsks DEF Unasked
    <2> QED BY <1>g, <2>1, <2>2, <2>3
<1>3. CASE Clock
    BY <1>3, <1>0, <1>g, AskedKept DEF Clock, Advance, daemonVars, NoPlanner, Unasked, Asking
<1>4. CASE Crash
    <2>1. NoPlanner' /\ Unasked'
        BY <1>4 DEF Crash, BotCrash, NoHandler, DaemonCrash, NoPlanner, Unasked
    <2>2. ASSUME NEW r \in Routes PROVE Asked(r)'
        <3>1. chat' = chat /\ crashes' = crashes + 1
            BY <1>4 DEF Crash, storeVars
        <3>2. chat[r].asked \in Nat /\ crashes \in Nat
            BY DEF Types, TypeOK, StoreTypeOK, Chat
        <3> QED BY <1>0, <3>1, <3>2 DEF Asked
    <2> QED BY <1>g, <2>1, <2>2
<1>5. CASE DaemonActs
    <2>1. NoPlanner'
        BY <1>0, <1>5 DEF DaemonActs, NoPlanner
    <2> QED BY <1>0, <1>5, <1>g, <2>1, AskedDaemon, UnaskedDaemon
<1> QED BY <1>1, <1>2, <1>3, <1>4, <1>5 DEF Next

\* Where the daemon alone asks, a question follows another only after an answer, or
\* after a restart that came between the question and its flag.
THEOREM OneQuestion ==
    ASSUME "create" \notin Uses
    PROVE  Spec => []AskedOnce
<1>1. Init => AskInv
    BY DEF Init, StoreInit, DaemonInit, BotInit, NoChat, NoHandler, AskInv
<1>2. Types /\ AskInv /\ [Next]_vars => AskInv'
    BY AskStep
<1>3. Types /\ AskInv => AskedOnce
    BY DEF AskInv, AskedOnce, Types, TypeOK, StoreTypeOK, Chat
<1> QED BY <1>1, <1>2, <1>3, InitTypes, TypesStep, PTL DEF Spec

-----------------------------------------------------------------------------
(* Flags without a reminder                                                *)

\* No train leaves before the time of a route.
LateTrains == \A r \in Routes, s \in Trains : Dep[r] <= Sched[s]

\* FlagInv, of one route and of the reminder being marked.
Opened(r) == \A o \in redis[r].alert_sent : AlertStart(r, o) <= now
SendingOpened == pc = "mark" => AlertStart(job.route, job.offset) <= now

LEMMA StartIsNat ==
    ASSUME NEW r \in Routes, NEW o \in Offsets PROVE AlertStart(r, o) \in Nat
<1>1. Dep[r] \in Nat /\ o \in Nat
    BY TimesAssumption
<1> QED BY <1>1 DEF AlertStart

\* A window that has opened stays open for the flags, and only a reminder being marked
\* and an edit set one.
LEMMA OpenedKept ==
    ASSUME Types, [Next]_vars, NEW r \in Routes, Opened(r),
           redis'[r].alert_sent \subseteq redis[r].alert_sent
    PROVE  Opened(r)'
<1>1. now \in Nat /\ now' \in Nat /\ now <= now'
    BY NowMoves
<1>2. redis[r].alert_sent \subseteq Offsets
    BY DEF Types, TypeOK, StoreTypeOK, Keys
<1>3. \A o \in redis[r].alert_sent : AlertStart(r, o) \in Nat
    BY <1>2, StartIsNat
<1> QED BY <1>1, <1>3 DEF Opened, AlertStart

\* The daemon sets the flag of the reminder it sent, and no other.
LEMMA DaemonFlags ==
    ASSUME Types, DaemonActs, NEW r \in Routes
    PROVE  \/ redis'[r].alert_sent \subseteq redis[r].alert_sent
           \/ /\ MarkReminder(r)
              /\ redis'[r].alert_sent = redis[r].alert_sent \cup {job.offset}
<1>a. redis \in [Routes -> Keys]
    BY TypesHere
<1>1. CASE StartTick \/ EndTick
    BY <1>1 DEF StartTick, EndTick, storeVars
<1>2. ASSUME NEW q \in Routes, ClearDeparted(q) \/ BeginRoute(q)
      PROVE  redis'[r].alert_sent \subseteq redis[r].alert_sent
    BY <1>a, <1>2 DEF ClearDeparted, ClearRouteCache, NoKeys, BeginRoute, storeVars
<1>3. ASSUME NEW q \in Routes, Turn(q)
      PROVE  \/ redis'[r].alert_sent \subseteq redis[r].alert_sent
             \/ /\ MarkReminder(r)
                /\ redis'[r].alert_sent = redis[r].alert_sent \cup {job.offset}
    <2>1. CASE \/ TransitionPlan(q) \/ TransitionSave(q) \/ TransitionTell(q)
               \/ CheckFails(q) \/ CheckAnswers(q) \/ CheckSave(q)
               \/ CheckBetter(q) \/ AdoptSave(q) \/ AdoptTell(q)
               \/ SkipReminder(q) \/ EndReminders(q)
               \/ PlanRoute(q) \/ Miss(q) \/ FetchTimetable(q)
        BY <2>1, PlainTurns DEF SameFlags
    <2>2. CASE SendDepartureReminder(q)
        BY <2>2 DEF SendDepartureReminder
    <2>3. CASE MarkReminder(q)
        <3>1. CASE q = r
            BY <1>a, <2>3, <3>1 DEF MarkReminder, MarkAlertSent, Keys
        <3>2. CASE q # r
            BY <1>a, <2>3, <3>2 DEF MarkReminder, MarkAlertSent, Keys
        <3> QED BY <3>1, <3>2
    <2>4. CASE FindNearest(q) \/ MarkChoice(q)
        <3>1. \/ redis' = redis \/ redis' = [redis EXCEPT ![q].choice_sent = TRUE]
              \/ \E st : redis' = [redis EXCEPT ![q].service = st]
            BY <2>4 DEF FindNearest, MarkChoice, MarkChoiceSent
        <3> QED BY <1>a, <3>1 DEF Keys
    <2> QED BY <1>3, <2>1, <2>2, <2>3, <2>4 DEF Turn
<1> QED BY <1>1, <1>2, <1>3 DEF DaemonActs, DaemonStep

\* A reminder is sent in its window, as the tick saw it.
LEMMA SendingInWindow ==
    ASSUME Types, [Next]_vars, SendingOpened PROVE SendingOpened'
<1>1. now \in Nat /\ now' \in Nat /\ now <= now'
    BY NowMoves
<1>2. CASE pc' = "mark" /\ pc # "mark"
    <2>1. \E q \in Routes : SendDepartureReminder(q)
        <3>1. DaemonActs
            BY <1>2 DEF Next, BotActs, Clock, Crash, DaemonCrash, daemonVars, vars
        <3>2. ASSUME NEW q \in Routes, BeginRoute(q) PROVE FALSE
            BY <1>2, <3>2 DEF BeginRoute, Branch
        <3>3. \E q \in Routes : Turn(q)
            BY <1>2, <3>1, <3>2 DEF DaemonActs, DaemonStep, StartTick, EndTick, ClearDeparted
        <3>4. PICK q \in Routes : Turn(q)
            BY <3>3
        <3>5. SendDepartureReminder(q)
            BY <1>2, <3>4 DEF Turn, TransitionPlan, TransitionSave, TransitionTell, CheckFails,
               CheckAnswers, CheckSave, CheckBetter, AdoptSave, AdoptTell, SkipReminder,
               MarkReminder, EndReminders, PlanRoute, Miss, FindNearest, MarkChoice,
               FetchTimetable, Goto, NextRoute
        <3> QED BY <3>5
    <2>2. PICK q \in Routes : SendDepartureReminder(q)
        BY <2>1
    <2>3. PICK o \in job.left : ReminderDue(q, o) /\ job' = [job EXCEPT !.offset = o]
        BY <2>2 DEF SendDepartureReminder
    <2>4. q = job.route /\ now' = now /\ pc = "remind"
        BY <2>2 DEF SendDepartureReminder
    <2>5. job'.route = q /\ job'.offset = o
        BY <2>3, <2>4 DEF Types, TypeOK, DaemonTypeOK
    <2>6. AlertStart(q, o) <= tick.now
        BY <2>3 DEF ReminderDue, IsWithinAlertWindow
    <2>7. tick.now \in Nat /\ tick.now <= now
        BY <2>4, TimesAssumption DEF Types, TypeOK, TurnOK, DaemonTypeOK
    <2>8. o \in Nat /\ Dep[q] \in Nat
        BY <2>3, TimesAssumption DEF Types, TypeOK, DaemonTypeOK
    <2>9. AlertStart(q, o) \in Nat
        BY <2>8 DEF AlertStart
    <2>10. AlertStart(q, o) <= now'
        BY <1>1, <2>4, <2>6, <2>7, <2>9
    <2> QED BY <2>5, <2>10 DEF SendingOpened, AlertStart
<1>3. CASE pc' = "mark" /\ pc = "mark"
    <2>1. job' = job
        <3>1. CASE DaemonActs
            <4>1. ASSUME NEW q \in Routes, Turn(q) PROVE FALSE
                BY <1>3, <4>1 DEF Turn, TransitionPlan, TransitionSave, TransitionTell,
                   CheckFails, CheckAnswers, CheckSave, CheckBetter, AdoptSave, AdoptTell,
                   SkipReminder, SendDepartureReminder, MarkReminder, EndReminders, PlanRoute,
                   Miss, FindNearest, MarkChoice, FetchTimetable
            <4> QED BY <1>3, <3>1, <4>1
                    DEF DaemonActs, DaemonStep, StartTick, EndTick, ClearDeparted, BeginRoute
        <3> QED BY <1>3, <3>1 DEF Next, BotActs, Clock, Crash, DaemonCrash, daemonVars, vars
    <2>2. AlertStart(job.route, job.offset) \in Nat
        <3>1. job.route \in Routes /\ job.offset \in Offsets
            BY <1>3 DEF Types, TypeOK, TurnOK, DaemonTypeOK, Turns, Steps
        <3> QED BY <3>1, StartIsNat
    <2> QED BY <1>1, <1>3, <2>1, <2>2 DEF SendingOpened, AlertStart
<1> QED BY <1>2, <1>3 DEF SendingOpened

\* An edit that marks what has passed on the train marks nothing that is still to come
\* on the route, when the train is not ahead of it.
LEMMA PassedHasOpened ==
    ASSUME Types, LateTrains, NEW r \in Routes, NEW old, NEW new \in SUBSET Offsets
    PROVE  \A o \in PassedOffsets(r, old, new) : AlertStart(r, o) <= now
<1> SUFFICES ASSUME NEW o \in PassedOffsets(r, old, new) PROVE AlertStart(r, o) <= now
    OBVIOUS
<1>1. redis[r].service # None /\ redis[r].service \in Status \cup {None}
    BY DEF PassedOffsets, Types, TypeOK, StoreTypeOK, Keys
<1>2. redis[r].service.svc \in Trains
    BY <1>1 DEF Status
<1>3. now + o >= Sched[redis[r].service.svc] /\ o \in Offsets
    BY <1>1 DEF PassedOffsets
<1>4. Dep[r] <= Sched[redis[r].service.svc]
    BY <1>2 DEF LateTrains
<1>5. now \in Nat /\ o \in Nat /\ Dep[r] \in Nat /\ Sched[redis[r].service.svc] \in Nat
    BY <1>2, <1>3, TimesAssumption DEF Types, TypeOK, StoreTypeOK
<1> QED BY <1>3, <1>4, <1>5 DEF AlertStart

\* Every step keeps the flags to windows that have opened.
LEMMA FlagStep ==
    ASSUME "edit" \notin Uses \/ LateTrains, Types, [Next]_vars, FlagInv,
           \A h \in Handlers : handler[h].at = "reconcile" => "edit" \in Uses
    PROVE  FlagInv'
<1>0. SendingOpened /\ \A r \in Routes : Opened(r)
    BY DEF FlagInv, SendingOpened, Opened
<1>1. SendingOpened'
    BY <1>0, SendingInWindow
<1>2. ASSUME NEW r \in Routes PROVE Opened(r)'
    <2>1. CASE UNCHANGED vars \/ Clock \/ Crash
        BY <1>0, <2>1, OpenedKept DEF vars, storeVars, Clock, Advance, Crash
    <2>2. CASE BotActs
        <3>1. CASE redis'[r].alert_sent = redis[r].alert_sent
            BY <1>0, <3>1, OpenedKept
        <3>2. ASSUME NEW h \in Handlers, Reconcile(h, r) PROVE Opened(r)'
            <4> DEFINE passed == PassedOffsets(r, handler[h].old, handler[h].new)
            <4>1. redis'[r].alert_sent = redis[r].alert_sent \cup passed /\ now' = now
                BY <3>2, BotTypesHere DEF Reconcile, Keys
            <4>2. LateTrains /\ handler[h].new \in SUBSET Offsets
                BY <3>2 DEF Reconcile, Types, TypeOK, BotTypeOK
            <4>3. \A o \in passed : AlertStart(r, o) <= now
                BY <4>2, PassedHasOpened
            <4> HIDE DEF passed
            <4> QED BY <1>0, <4>1, <4>3 DEF Opened, AlertStart
        <3> QED BY <2>2, <3>1, <3>2, BotFlags
    <2>3. CASE DaemonActs
        <3>1. CASE redis'[r].alert_sent \subseteq redis[r].alert_sent
            BY <1>0, <3>1, OpenedKept
        <3>2. CASE /\ MarkReminder(r)
                   /\ redis'[r].alert_sent = redis[r].alert_sent \cup {job.offset}
            BY <1>0, <3>2 DEF MarkReminder, SendingOpened, Opened, AlertStart
        <3> QED BY <2>3, <3>1, <3>2, DaemonFlags
    <2> QED BY <2>1, <2>2, <2>3 DEF Next
<1> QED BY <1>1, <1>2 DEF FlagInv, SendingOpened, Opened

\* Only an edit is reconciled.
EditsOnly == \A h \in Handlers : handler[h].at = "reconcile" => "edit" \in Uses

\* It stays so.
LEMMA EditsOnlyStep == Types /\ EditsOnly /\ [Next]_vars => EditsOnly'
<1> SUFFICES ASSUME Types, EditsOnly, [Next]_vars PROVE EditsOnly'
    OBVIOUS
<1>1. CASE UNCHANGED vars \/ DaemonActs \/ Clock \/ Crash
    BY <1>1 DEF vars, DaemonActs, Clock, Crash, BotCrash, NoHandler, EditsOnly
<1>2. ASSUME NEW q \in Routes, StopRoute(q) \/ ResumeRoute(q) \/ DeleteRoute(q)
      PROVE  handler' = handler
    BY <1>2 DEF StopRoute, ResumeRoute, DeleteRoute
<1>3. ASSUME NEW q \in Routes, NEW h \in Handlers, HandlerStep(h, q)
      PROVE  EditsOnly'
    <2>1. ASSUME NEW k \in Handlers
          PROVE  \/ handler'[k].at \in {handler[k].at, "idle", "choose", "plan", "nearest",
                                        "schedule"}
                 \/ "edit" \in Uses
        <3>1. /\ DOMAIN handler = Handlers
              /\ \A x \in Handlers : DOMAIN handler[x] = {"at", "route", "train", "old", "new"}
            BY DEF Types, TypeOK, BotTypeOK
        <3>2. CASE EditAlerts(h, q)
            BY <3>2 DEF EditAlerts
        <3>3. CASE \/ ChooseAnswered(h, q) \/ Reconcile(h, q) \/ CreateRoute(h, q)
                   \/ PlanNow(h, q) \/ NearestNow(h, q) \/ ScheduleNow(h, q)
            <4>1. \/ handler' = handler \/ handler' = [handler EXCEPT ![h] = NoHandler]
                  \/ \E at \in {"nearest", "schedule"} : handler' = [handler EXCEPT ![h].at = at]
                  \/ handler' = [handler EXCEPT ![h].at = "plan", ![h].route = q]
                BY <3>3 DEF ChooseAnswered, Reconcile, CreateRoute, PlanNow, NearestNow,
                   ScheduleNow, Finish
            <4> QED BY <3>1, <4>1 DEF NoHandler
        <3>4. CASE PressTrain(h, q)
            <4>1. \/ handler' = handler
                  \/ \E s : handler' = [handler EXCEPT ![h].at = "choose", ![h].route = q,
                                                       ![h].train = s]
                BY <3>4 DEF PressTrain
            <4>2. ASSUME NEW s, handler' = [handler EXCEPT ![h].at = "choose", ![h].route = q,
                                                          ![h].train = s]
                  PROVE  handler'[k].at \in {handler[k].at, "choose"}
                BY <3>1, <4>2
            <4> QED BY <4>1, <4>2
        <3> QED BY <1>3, <3>2, <3>3, <3>4 DEF HandlerStep
    <2> QED BY <2>1 DEF EditsOnly
<1>4. CASE handler' = handler
    BY <1>4 DEF EditsOnly
<1> QED BY <1>1, <1>2, <1>3, <1>4 DEF Next, BotActs, BotStep

\* Without edits, or with no train ahead of a route's time, a flag that stands for no
\* reminder is one of a window that has opened: none still to come is silenced.
THEOREM NoneSilenced ==
    ASSUME "edit" \notin Uses \/ LateTrains
    PROVE  Spec => []NoReminderSilenced
<1>1. Init => FlagInv /\ EditsOnly
    BY DEF Init, StoreInit, DaemonInit, BotInit, NoKeys, NoHandler, FlagInv, EditsOnly
<1>2. Types /\ FlagInv /\ EditsOnly /\ [Next]_vars => FlagInv'
    BY FlagStep DEF EditsOnly
<1>3. FlagInv => NoReminderSilenced
    BY DEF FlagInv, NoReminderSilenced
<1> QED BY <1>1, <1>2, <1>3, EditsOnlyStep, InitTypes, TypesStep, PTL DEF Spec

=============================================================================
