---------------------------- MODULE MCIssueTracking ----------------------------
(***************************************************************************)
(* IssueTracking with two commits, two node files with three nodes, and a  *)
(* node without one.                                                       *)
(***************************************************************************)
EXTENDS IssueTracking, TLC

CONSTANTS web1, web2, db1, old1, web, db

TwoFiles == web1 :> web @@ web2 :> web @@ db1 :> db
=============================================================================
