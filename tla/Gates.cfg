SPECIFICATION GatesSpec
CONSTANTS
  Pairs = {p1, p2}
  InAuto = TRUE
  MaxRuns = 2
  MaxVersion = 2
  MaxEdits = 1
  MaxOrders = 1
INVARIANTS CodeThatTradesWasTested EvidenceRederived
PROPERTIES RecheckCloses
CHECK_DEADLOCK FALSE
