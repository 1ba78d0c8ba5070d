SPECIFICATION Spec
CONSTANTS
  v1 = v1
  v2 = v2
  v3 = v3
  web = web
  db = db
  proxy = proxy
  n1 = n1
  n2 = n2
  manifest = manifest
  Node = {n1, n2}
  Resource = {web, db}
  Commit = {0, 1, 2}
  Parents <- Line
  Value = {v1, v2, v3}
  Catalog <- PerNode
  File = {manifest}
  FileOf <- OneFile
  Subscribes <- OnlyProxy
  Ignored = {}
  Round = round
  Request = request
  Asked = {}
  MaxErrored = 1
  MaxLocked = 0
  Scenarios <- Nothing
INVARIANT AggregatedIsIdentical
CHECK_DEADLOCK FALSE
