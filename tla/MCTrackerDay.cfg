\* The daemon picks the trains, over the day of a route; the user stops, resumes and
\* edits it; one restart at any point.
SPECIFICATION Spec
CONSTANTS
    r1 = r1  h1 = h1  exact = exact  soon = soon  late = late  p1 = p1  p2 = p2
    NoPlatform = NoPlatform
    Unknown = Unknown
    None = None
    DelayThreshold = 2
    Routes <- OneRoute
    Trains <- AllTrains
    Dep <- MCDep
    Sched <- MCSched
    Delays = {0}
    Platforms = {NoPlatform}
    Offsets <- TwoOffsets
    Instants <- WholeDay
    SendsMayFail = FALSE
    ChecksMayFail = TRUE
    Handlers = {h1}
    Uses = {"stop", "resume", "edit"}
    InitialRows <- ActiveRows
    MaxCrashes = 1
    MaxCount = 3
INVARIANTS
    TypeOK
    TrackedIsTold
    CancellationKnown
    RemindedOnce
    AskedOnce
    NoReminderSilenced
