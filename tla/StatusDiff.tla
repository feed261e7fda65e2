----------------------------- MODULE StatusDiff -----------------------------
(***************************************************************************)
(* How the daemon compares two observations of a train, which one it keeps *)
(* as its baseline, and what the message it sends tells the user: the pure *)
(* functions at the end of internal/tracker/daemon.go.                     *)
(*                                                                         *)
(* An observation (domain.TrainStatus) is a record                         *)
(*   [svc, cancelled, delay, platform, scheduleOnly].                      *)
(* A belief is what the messages so far have told the user of one train:   *)
(*   [svc, cancelled, delay, platform], with delay = Unknown and           *)
(*   platform = NoPlatform where no message has said.                      *)
(***************************************************************************)
EXTENDS Naturals

CONSTANTS
    NoPlatform,     \* the empty Platform, shown as TBC
    Unknown,        \* no message has mentioned the delay
    None,           \* nil
    DelayThreshold  \* delayNotifyThresholdMins

ASSUME DelayThresholdAssumption == DelayThreshold \in Nat \ {0}

AbsDiff(a, b) == IF a > b THEN a - b ELSE b - a

\* Reported only between two confirmed platforms.
PlatformReassigned(previous, current) ==
    /\ previous.platform # NoPlatform
    /\ current.platform # NoPlatform
    /\ previous.platform # current.platform

PlatformConfirmed(previous, current) ==
    /\ previous.platform = NoPlatform
    /\ current.platform # NoPlatform

DelayMoved(previous, current) ==
    \/ current.delay = 0 /\ previous.delay # 0
    \/ AbsDiff(previous.delay, current.delay) >= DelayThreshold

\* mutant: a change of cancellation alone is no news
DelayOrPlatform(previous, current) ==
    PlatformReassigned(previous, current) \/ DelayMoved(previous, current)

ShouldNotify(previous, current) ==
    \/ PlatformReassigned(previous, current)
    \/ previous.cancelled # current.cancelled
    \/ DelayMoved(previous, current)

\* mutant: a platform that is not shown is forgotten
ForgetPlatform(base, fallback) == base

WithKnownPlatform(base, fallback) ==
    IF base.platform = NoPlatform THEN [base EXCEPT !.platform = fallback.platform] ELSE base

-----------------------------------------------------------------------------
(* checkRoute's switch: what to say and what to remember                   *)

\* Is there a message?  A first observation is announced only when cancelled; a
\* change between two cancelled observations is not announced.
Announces(last, fresh) ==
    IF last = None
    THEN fresh.cancelled
    ELSE ShouldNotify(last, fresh) /\ ~(last.cancelled /\ fresh.cancelled)

\* mutant: a change below the threshold moves the baseline too
FreshBaseline(last, fresh) == IF last = None THEN fresh ELSE WithKnownPlatform(fresh, last)

\* The baseline after the check.
NewBaseline(last, fresh) ==
    CASE last = None                    -> fresh
      [] last # None /\ ShouldNotify(last, fresh)
                                        -> WithKnownPlatform(fresh, last)
      [] last # None /\ ~ShouldNotify(last, fresh) /\ PlatformConfirmed(last, fresh)
                                        -> WithKnownPlatform(last, fresh)
      [] OTHER                          -> last

-----------------------------------------------------------------------------
(* What a message tells                                                    *)

\* A user who was told nothing of train s takes it to run.
Unaware(s) == [svc |-> s, cancelled |-> FALSE, delay |-> Unknown, platform |-> NoPlatform]

\* The belief about train s of a user whose last message left belief b.
BeliefOf(b, s) == IF b # None /\ b.svc = s THEN b ELSE Unaware(s)

\* A message with the whole status: the first alert, a reminder, a new train.  Of a
\* cancelled train no delay is shown, and a platform is nothing to rely on.
TellStatus(st) ==
    [svc       |-> st.svc,
     cancelled |-> st.cancelled,
     delay     |-> IF st.cancelled THEN Unknown ELSE st.delay,
     platform  |-> IF st.cancelled THEN NoPlatform ELSE st.platform]

\* A message with the changes since the baseline, added to what was known of the train.
TellChanges(b, previous, current) ==
    LET known == BeliefOf(b, current.svc)
    IN [svc       |-> current.svc,
        cancelled |-> IF previous.cancelled # current.cancelled
                      THEN current.cancelled ELSE known.cancelled,
        delay     |-> IF current.cancelled THEN Unknown
                      ELSE IF previous.delay # current.delay THEN current.delay
                      ELSE known.delay,
        platform  |-> IF current.cancelled THEN NoPlatform
                      ELSE IF PlatformReassigned(previous, current) THEN current.platform
                      ELSE known.platform]

\* sendAlert's message: formatAlert with or without a previous observation.
TellAlert(b, last, fresh) ==
    IF last = None THEN TellStatus(fresh) ELSE TellChanges(b, last, fresh)
=============================================================================
