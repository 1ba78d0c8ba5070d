SPECIFICATION Spec
CONSTANTS
  alice = alice
  bob = bob
  carol = carol
  muppets = muppets
  file = file
  service = service
  User = {alice, bob, carol}
  Group = {muppets}
  Member <- Members
  AdminOwner = {carol}
  Resource = {file, service}
  Commit = {1}
  LastTag = 1
  TagOf <- OneTag
  Author <- OneAuthor
  Noops <- OneBroken
  Codeowners <- TwoVersions
  MaxMoves = 0
INVARIANT BreakageIsApproved
CHECK_DEADLOCK FALSE
