SPECIFICATION FairSpec
CONSTANTS
    Keys = {"disk_full", "unit_down"}
    MaxRestarts = 1
    MaxDeaths = 1
INVARIANTS OnceUnlessLost MemoryTold
PROPERTY LastingProblemTold
