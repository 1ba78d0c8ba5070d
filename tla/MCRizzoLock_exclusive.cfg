SPECIFICATION Spec
CONSTANTS
  root = root
  alice = alice
  ghost = ghost
  s1 = s1
  s2 = s2
  s3 = s3
  NoUser = NoUser
  NoHandler = NoHandler
  User = {root, alice, ghost}
  LocalUser = {root, alice}
  Session = {s1, s2, s3}
  UserOf <- OneSessionEach
  Handler = {h1, h2, h3}
  AllowForce = FALSE
  AllowTimeout = FALSE
  AllowCrash = TRUE
  AllowLinkError = FALSE
SYMMETRY HandlerSymmetry
CHECK_DEADLOCK TRUE
INVARIANTS TypeOK ExclusionInv MutualExclusion
PROPERTY ImplementsNodeLock
