----------------------------- MODULE MCRizzoLock -----------------------------
(***************************************************************************)
(* RizzoLock on small instances.  ghost has no account on the node.        *)
(***************************************************************************)
EXTENDS RizzoLock, TLC

CONSTANTS root, alice, ghost, s1, s2, s3

OneSessionEach == s1 :> root @@ s2 :> alice @@ s3 :> ghost
RootAndAlice == s1 :> root @@ s2 :> alice

HandlerSymmetry == Permutations(Handler)

=============================================================================
