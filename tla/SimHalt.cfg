SPECIFICATION HaltSpec
CONSTANTS
  MaxSeq = 3
  MaxQty = 1
  MaxCrash = 2
  MaxFires = 1
  Kills = {"run", "pause", "shutdown"}
INVARIANTS NoPhantomHalt BooksAgree GuardedWhenQuiet BeliefTrue
PROPERTIES CycleKept
