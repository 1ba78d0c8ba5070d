SPECIFICATION Spec
CONSTANTS
  root = root
  alice = alice
  ghost = ghost
  s1 = s1
  s2 = s2
  s3 = s3
  NoUser = NoUser
  NoHandler = NoHandler
  User = {root, alice}
  LocalUser = {root, alice}
  Session = {s1, s2}
  UserOf <- RootAndAlice
  Handler = {h1, h2}
  AllowForce = TRUE
  AllowTimeout = TRUE
  AllowCrash = TRUE
  AllowLinkError = TRUE
SYMMETRY HandlerSymmetry
CHECK_DEADLOCK TRUE
PROPERTY TakeoverOnlyByForce
