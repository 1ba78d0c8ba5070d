SPECIFICATION Spec
CONSTANTS
  alice = alice
  bob = bob
  carol = carol
  muppets = muppets
  file = file
  service = service
  User = {alice, bob, carol}
  Group = {muppets}
  Member <- Members
  AdminOwner = {carol}
  Resource = {file, service}
  Commit = {1, 2}
  LastTag = 2
  TagOf <- TwoTags
  Author <- TwoAuthors
  Noops <- OneChanges
  Codeowners <- TwoVersions
  MaxMoves = 2
INVARIANTS TypeOK AppliedIsReviewed
CHECK_DEADLOCK FALSE
