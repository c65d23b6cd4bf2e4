SPECIFICATION FairSpec
CONSTANTS
  MaxSeq = 1
  MaxQty = 1
  MaxCrash = 1
  MaxCloses = 1
  Kills = {"run", "shutdown"}
INVARIANTS ConsistentWhenFree IInv
PROPERTIES LedgerKept GuardReturns Converges
