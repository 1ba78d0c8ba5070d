SPECIFICATION Spec
CONSTANTS
  alice = alice
  bob = bob
  carol = carol
  muppets = muppets
  file = file
  service = service
  User = {alice, bob, carol}
  Group = {muppets}
  Member <- Members
  AdminOwner = {carol}
  Resource = {file, service}
  Commit = {1}
  LastTag = 1
  TagOf <- OneTag
  Author <- OneAuthor
  Noops <- AnyNoop
  Codeowners <- TwoVersions
  MaxMoves = 3
PROPERTIES IssueFollowsApproval ReleaseHappens
CHECK_DEADLOCK FALSE
