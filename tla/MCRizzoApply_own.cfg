SPECIFICATION Spec
CONSTANTS
  site = site
  service = service
  Handler = {h1, h2}
  Main = main
  LastCommit = 2
  File <- Files
  Changes <- OneChanged
  MaxFailures = 1
  FailingApply = TRUE
INVARIANTS TypeOK CompilesTheCommit ReportIsOwn LastApplyHolds
PROPERTY ServesAgain
