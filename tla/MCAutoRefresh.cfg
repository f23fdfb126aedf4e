SPECIFICATION Spec
CONSTANTS
  Auths = {a1}
  Workers = {w1, w2}
  JobCap = 1
  Interval = 3
  Pending = 1
  Failure = 2
  Life = 1
  MaxLag = 1
  Managed = {a1}
  MaxOps = 1
INVARIANTS
  TypeOK
  SleepIsSafe
  OverlapExplained
  ChangesStick
PROPERTY
  DueIsAttempted
