------------------------------- MODULE Search -------------------------------
(***************************************************************************)
(* The arithmetic of times behind every search for trains: which part of   *)
(* the departure board, or of the timetable, is asked for a train around a *)
(* time of day, and how long what is found is kept.  Times are minutes of  *)
(* the day; the clock is a parameter.  The theorems say that the windows,  *)
(* which the APIs force into fixed bounds, still hold every train that the *)
(* program would accept: that the cut at the bounds costs nothing, and     *)
(* where it does.  They are about the window: of a board longer than ten   *)
(* trains Darwin sends the first ten (numRows), and how many trains run is *)
(* not the program's to know.                                              *)
(***************************************************************************)
EXTENDS Integers, TLAPS

Minutes == 0..1439

SearchMargin        == 10   \* searchMargin
MatchToleranceMins  == 5    \* matchToleranceMins
NearestSearchMargin == 30   \* nearestSearchMargin
MaxAPIRangeMins     == 240  \* maxAPIRangeMins
MaxChoiceRangeMins  == 90   \* maxChoiceRangeMins

\* The two ifs that force a value into its bounds.
Clamp(x, low, high) == IF x < low THEN low ELSE IF x > high THEN high ELSE x

\* The board of Darwin takes an offset from now and the length of a window.
SearchParams(target, now, minOffset) ==
    LET offset == Clamp(target - now - SearchMargin, minOffset, 120)
    IN [offset |-> offset,
        window |-> Clamp(target - now - offset + MatchToleranceMins, 20, 120)]

DepartureSearch(target, now) == SearchParams(target, now, -120)

NearestTrainSearch(target, now) ==
    LET offset  == Clamp(target - NearestSearchMargin - now, -120, 120)
        desired == target + NearestSearchMargin - (now + offset)
        reach   == MaxAPIRangeMins - offset
    IN [offset |-> offset,
        window |-> Clamp(IF desired > reach THEN reach ELSE desired, 20, 120)]

\* The trains on the board that a search asks for.
OnBoard(search, now) == (now + search.offset)..(now + search.offset + search.window)

\* GetScheduledDepartures asks for an hour, from half an hour before the target on, but
\* not from the day before.
ScheduleStart(target) == IF target - 30 < 0 THEN 0 ELSE target - 30
OnSchedule(target) == ScheduleStart(target)..(ScheduleStart(target) + 60)

IsWithinAPIRange(target, now) == target - now > 0 /\ target - now <= MaxAPIRangeMins
IsWithinChoiceRange(target, now) == target - now > 0 /\ target - now <= MaxChoiceRangeMins
IsWithinDarwinRange(target, now) == target - now >= -120 /\ target - now <= 240

\* Days from today to the date the timetable is asked for.
TargetDate(target, now) == IF target <= now THEN 1 ELSE 0

\* findClosestService accepts these.
Matches(target) == (target - MatchToleranceMins)..(target + MatchToleranceMins)

\* A time of day as PostgreSQL has it, in microseconds, and back.
PgTime(hour, minute) == hour * 3600000000 + minute * 60000000
PgTimeToMinutes(micros) == (micros \div 3600000000) * 60 + (micros % 3600000000) \div 60000000

\* timeUntilEndOfDay, in seconds, at a second of the day.
TimeUntilEndOfDay(second) == IF 86399 - second < 60 THEN 60 ELSE 86399 - second

-----------------------------------------------------------------------------

\* Whatever is searched for and whenever, Darwin is asked within its bounds: an offset of
\* two hours either way, a window of twenty minutes to two hours.
THEOREM SearchesInBounds ==
    ASSUME NEW target \in Minutes, NEW now \in Minutes, NEW minOffset \in {-120, 0}
    PROVE  /\ SearchParams(target, now, minOffset).offset \in minOffset..120
           /\ SearchParams(target, now, minOffset).window \in 20..120
           /\ NearestTrainSearch(target, now).offset \in -120..120
           /\ NearestTrainSearch(target, now).window \in 20..120
BY DEF Minutes, SearchParams, NearestTrainSearch, Clamp, SearchMargin, MatchToleranceMins,
       NearestSearchMargin, MaxAPIRangeMins

\* While the daemon plans a route (isWithinAPIRange), a train at the route's time is on
\* the board it asks for: the range and the cut of the window at two hours agree.
THEOREM ExactTrainIsOnBoard ==
    ASSUME NEW target \in Minutes, NEW now \in Minutes, IsWithinAPIRange(target, now)
    PROVE  target \in OnBoard(DepartureSearch(target, now), now)
BY DEF Minutes, OnBoard, DepartureSearch, SearchParams, Clamp, SearchMargin,
       MatchToleranceMins, MaxAPIRangeMins, IsWithinAPIRange

\* So is every train that would match, but for the first five minutes of the range, in
\* which trains after the route's time are still beyond the window (PlanRoute).
THEOREM MatchesAreOnBoard ==
    ASSUME NEW target \in Minutes, NEW now \in Minutes, IsWithinAPIRange(target, now),
           target - now <= MaxAPIRangeMins - MatchToleranceMins
    PROVE  Matches(target) \subseteq OnBoard(DepartureSearch(target, now), now)
BY DEF Minutes, OnBoard, DepartureSearch, SearchParams, Clamp, SearchMargin,
       MatchToleranceMins, MaxAPIRangeMins, IsWithinAPIRange, Matches

\* A choice of trains is offered (isWithinChoiceRange) from a board that reaches half an
\* hour to either side of the route's time.
THEOREM ChoiceSeesBothSides ==
    ASSUME NEW target \in Minutes, NEW now \in Minutes, IsWithinChoiceRange(target, now)
    PROVE  (target - NearestSearchMargin)..(target + NearestSearchMargin)
               \subseteq OnBoard(NearestTrainSearch(target, now), now)
BY DEF Minutes, OnBoard, NearestTrainSearch, Clamp, NearestSearchMargin, MaxAPIRangeMins,
       IsWithinChoiceRange, MaxChoiceRangeMins

\* The bot searches over a wider range (isWithinDarwinRange): of the hour around the
\* target it sees what lies between two hours ago and four hours from now.
THEOREM BotSeesWhatDarwinHas ==
    ASSUME NEW target \in Minutes, NEW now \in Minutes, IsWithinDarwinRange(target, now),
           NEW m \in (target - NearestSearchMargin)..(target + NearestSearchMargin),
           m - now >= -120, m - now <= MaxAPIRangeMins
    PROVE  m \in OnBoard(NearestTrainSearch(target, now), now)
BY DEF Minutes, OnBoard, NearestTrainSearch, Clamp, NearestSearchMargin, MaxAPIRangeMins,
       IsWithinDarwinRange

\* The hour of the timetable holds every match of the target on the target's day, at the
\* cut at midnight too.
THEOREM TimetableHoldsMatches ==
    ASSUME NEW target \in Minutes, NEW m \in Matches(target), m >= 0
    PROVE  m \in OnSchedule(target)
BY DEF Minutes, Matches, MatchToleranceMins, OnSchedule, ScheduleStart

\* The timetable asked for outside Darwin's range is that of the target's next occurrence:
\* today only for a time more than four hours ahead.
THEOREM TimetableOfNextOccurrence ==
    ASSUME NEW target \in Minutes, NEW now \in Minutes, ~IsWithinDarwinRange(target, now)
    PROVE  /\ TargetDate(target, now) = 0 <=> target - now > 240
           /\ TargetDate(target, now) * 1440 + target - now \in 1..1440
BY DEF Minutes, TargetDate, IsWithinDarwinRange

\* The minute read back from PostgreSQL is the one that was entered.
THEOREM MinutesSurvive ==
    ASSUME NEW hour \in 0..23, NEW minute \in 0..59
    PROVE  PgTimeToMinutes(PgTime(hour, minute)) = hour * 60 + minute
BY DEF PgTimeToMinutes, PgTime

\* A key outlives its day only if it is written in the last minute, and then for less
\* than a minute (timeUntilEndOfDay).
THEOREM KeysGoWithTheDay ==
    ASSUME NEW second \in 0..86399
    PROVE  /\ second <= 86339 => second + TimeUntilEndOfDay(second) = 86399
           /\ second + TimeUntilEndOfDay(second) < 86400 + 60
BY DEF TimeUntilEndOfDay
=============================================================================
