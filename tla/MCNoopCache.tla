----------------------------- MODULE MCNoopCache -----------------------------
(***************************************************************************)
(* NoopCache on two nodes.  Commits 1 and 2 are made side by side from 0   *)
(* and merged by 3, which changes web once more and takes db from 2 as it  *)
(* is; proxy, which none of them changes, is refreshed by web and by db.   *)
(***************************************************************************)
EXTENDS NoopCache, TLC

CONSTANTS v1, v2, v3, web, db, proxy, n1, n2, manifest

Diamond == 0 :> {} @@ 1 :> {0} @@ 2 :> {0} @@ 3 :> {1, 2}
Values == 0 :> (web :> v1 @@ db :> v1) @@ 1 :> (web :> v2 @@ db :> v1)
          @@ 2 :> (web :> v1 @@ db :> v2) @@ 3 :> (web :> v3 @@ db :> v2)
SameOnAll == [i \in Commit |-> [n \in Node |-> Values[i] @@ proxy :> v1]]
OnlyProxy == [i \in Commit |-> [n \in Node |-> [r \in Resource |->
                IF r = proxy THEN {web, db} ELSE {}]]]
OneFile == [n \in Node |-> [r \in Resource |-> manifest]]

Line == 0 :> {} @@ 1 :> {0} @@ 2 :> {1}
PerNode == [i \in Commit |-> [n \in Node |-> [r \in Resource |->
              IF i = 0 THEN v1 ELSE IF r = web /\ n = n2 THEN v3 ELSE v2]]]

Some(applies, requests, failures, broken) ==
  [applies |-> applies, requests |-> requests, failures |-> failures, broken |-> broken]
OneOrTwoThings == {Some(1, 1, 0, {}), Some(2, 0, 0, {}), Some(1, 0, 1, {})}
                  \cup {Some(1, 0, 0, {<<2, n>>}) : n \in Node}
Nothing == {Some(0, 0, 0, {})}

NodeSymmetry == Permutations(Node)
=============================================================================
