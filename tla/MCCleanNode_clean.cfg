SPECIFICATION Spec
CONSTANTS
  MaxCommit = 2
  childThreshold = 2
  MaxLost = 1
INVARIANTS TypeOK NeverReverts ReportHasNoop
PROPERTY CleanedOrAllNooped
