SPECIFICATION Spec
CONSTANTS
  Files = {f1}
  Keys = {k1}
  Relays = {x1}
  Affected = {f1, k1, x1}
  Versions <- MCVersions
  Partial = Partial
  Reloaders = {r1, r2}
  Starter = r1
  QueueCap = 1
  MaxOps = 3
PROPERTY DeliversInOrder
INVARIANTS
  TypeOK
  CoreFollowsWatcher
  FilesCaughtUp
  ConfigCaughtUp
  RelaysKept
