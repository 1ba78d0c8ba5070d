SPECIFICATION Spec
CONSTANTS
  v1 = v1
  v2 = v2
  v3 = v3
  web = web
  db = db
  proxy = proxy
  n1 = n1
  n2 = n2
  manifest = manifest
  Node = {n1, n2}
  Resource = {web, db, proxy}
  Commit = {0, 1, 2, 3}
  Parents <- Diamond
  Value = {v1, v2, v3}
  Catalog <- SameOnAll
  File = {manifest}
  FileOf <- OneFile
  Subscribes <- OnlyProxy
  Ignored = {}
  Round = round
  Request = request
  Asked = {3}
  MaxErrored = 1
  MaxLocked = 0
  Scenarios <- OneOrTwoThings
INVARIANTS TypeOK SameBase ReportsThere NoopLocks ChangeIsListed 
CHECK_DEADLOCK FALSE
SYMMETRY NodeSymmetry
