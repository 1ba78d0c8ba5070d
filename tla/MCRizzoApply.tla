----------------------------- MODULE MCRizzoApply -----------------------------
(***************************************************************************)
(* RizzoApply on a branch of two commits, the second of which changes one  *)
(* of two files.                                                           *)
(***************************************************************************)
EXTENDS RizzoApply, TLC

CONSTANTS site, service

Files == {site, service}
OneChanged == 1 :> Files @@ 2 :> {site}

=============================================================================
