SPECIFICATION Spec
CONSTANTS
  Sessions = {s1}
  Requests = {r1}
  Buffer = 1
  MaxChunks = 2
INVARIANTS
  TypeOK
  SuccessIsComplete
  PanicsExplained
  NoGhosts
PROPERTY
  CallersReturn
