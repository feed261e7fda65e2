SPECIFICATION Spec
CONSTANTS
    MaxRoutesPerUser = 2
    Times <- TwoTimes
    MaxCreated = 3
    d1 = d1
    d2 = d2
    Dialogs <- TwoDialogs
    Missing = Missing
    MaxSearches = 1
    ChatMemory = 1
    MaxExtra = 0
    h1 = h1
    h2 = h2
    Handlers <- TwoHandlers
SYMMETRY Renamings
INVARIANT DeletesWhatItNames
