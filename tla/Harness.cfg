SPECIFICATION Spec
CONSTANTS
    Kinds = {"whole", "partial", "hole"}
    HoldBars = 4
    MaxWarmup = 2
INVARIANTS SameTrades PricedWhenHeld BeliefMatches
