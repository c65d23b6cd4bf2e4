SPECIFICATION FairSpec
CONSTANTS
    Days = 3
    Window = 2
    MaxAttempts = 2
    MaxGap = 1
    EndInside = {"native"}
    Holes = {2, 3}
    MaxClock = 4
    MaxErrors = 3
    MaxDeaths = 1
INVARIANTS StoredWhole RunAccounted GapsTrue PageTrue
PROPERTY Heals
