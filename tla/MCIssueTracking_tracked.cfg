SPECIFICATION Spec
CONSTANTS
  web1 = web1
  web2 = web2
  db1 = db1
  old1 = old1
  web = web
  db = db
  Commit = {c1, c2}
  Node = {web1, web2, db1, old1}
  NodeFile = {web, db}
  nodeFile <- TwoFiles
  MaxEvents = 3
INVARIANTS TypeOK TrackedUnlessInterrupted OneOpenErrorIssue
PROPERTIES KeepsEarliest CommitsGetIssues ErroredEndsLocked
