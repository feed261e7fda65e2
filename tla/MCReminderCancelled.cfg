\* A train found cancelled in the tick that sends its reminder.
SPECIFICATION Spec
CONSTANTS
    r1 = r1  h1 = h1  exact = exact  soon = soon  late = late  p1 = p1  p2 = p2
    NoPlatform = NoPlatform
    Unknown = Unknown
    None = None
    DelayThreshold = 2
    Routes <- OneRoute
    Trains <- OneTrain
    Dep <- MCDep
    Sched <- MCSched
    Delays = {0}
    Platforms = {NoPlatform}
    Offsets <- TwoOffsets
    Instants <- LastHours
    SendsMayFail = FALSE
    ChecksMayFail = TRUE
    Handlers = {}
    Uses = {}
    InitialRows <- ActiveRows
    MaxCrashes = 0
    MaxCount = 3
PROPERTIES
    NoReminderWhenCancelled
