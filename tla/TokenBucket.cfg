SPECIFICATION BucketSpec
CONSTANTS
  Callers = {t1, t2, t3}
  Token = 3
  Burst = 2
  Early = 1
  MaxElapsed = 8
  MaxWindow = 8
INVARIANTS RateBound IInv
