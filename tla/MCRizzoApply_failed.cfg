SPECIFICATION Spec
CONSTANTS
  site = site
  service = service
  Handler = {h1}
  Main = main
  LastCommit = 2
  File <- Files
  Changes <- OneChanged
  MaxFailures = 0
  FailingApply = TRUE
INVARIANT FailureIsReported
