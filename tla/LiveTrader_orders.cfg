SPECIFICATION FairSpec
CONSTANTS
  MaxSeq = 2
  MaxQty = 1
  MaxCrash = 0
  MaxCloses = 0
  Kills = {"run"}
PROPERTIES PendingEnds Converges
