SPECIFICATION Spec
CONSTANTS
  Node = {n1, n2, n3}
  loop = loop
  cli = cli
  Loop = {loop}
  Cli = {cli}
  Unlocker = unlockAll
  Scenarios <- MeetFailOrDie
  MaxLost = 1
  MaxOrphans = 1
SYMMETRY NodeSymmetry
INVARIANTS TypeOK RunsExclude OnePuppetPerNode NoLeakedLock MissingBound CleanStart
PROPERTY ImplementsOwnership
