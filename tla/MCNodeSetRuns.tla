---------------------------- MODULE MCNodeSetRuns ----------------------------
(***************************************************************************)
(* NodeSetRuns on up to three nodes.  Runs of the loop and of the command  *)
(* line meet on two nodes; a run of the loop, whose thresholds may be      *)
(* exceeded at any phase, meets lost locks on three and all failures on    *)
(* two; hecklerd dies and starts again with either kind of run on one,     *)
(* which it may fail to list or to reach.  On one node users override the  *)
(* lock of both kinds of run while requests are lost or late, and requests *)
(* of a dead hecklerd reach its successor's run.                           *)
(***************************************************************************)
EXTENDS NodeSetRuns, TLC

CONSTANTS loop, cli

Hosts(k) == {S \in SUBSET Node : Cardinality(S) = k}

Scenario(hosts, runs, errored, locked, timeouts, deaths, unreachable, overrides) ==
  [hosts |-> hosts, runs |-> runs, errored |-> errored, lockedByAnother |-> locked,
   timeouts |-> timeouts, deaths |-> deaths, unreachable |-> unreachable,
   overrides |-> overrides]

All == {"query", "lock", "apply", "unlock"}

MeetFailOrDie ==
  {Scenario(h, {loop, cli}, 0, 1, {}, FALSE, FALSE, FALSE) : h \in Hosts(2)}
  \cup {Scenario(h, {loop}, 0, 1, {"lock", "unlock"}, FALSE, FALSE, FALSE) : h \in Hosts(3)}
  \cup {Scenario(h, {loop}, 1, 0, All, FALSE, TRUE, FALSE) : h \in Hosts(2)}
  \cup {Scenario(h, {r}, 0, 1, {}, TRUE, TRUE, FALSE) : h \in Hosts(1), r \in {loop, cli}}
  \cup {Scenario(h, {loop, cli}, 0, 1, {"lock", "unlock"}, FALSE, FALSE, TRUE) : h \in Hosts(1)}
  \cup {Scenario(h, {loop}, 0, 1, {"lock", "unlock"}, TRUE, FALSE, FALSE) : h \in Hosts(1)}

NodeSymmetry == Permutations(Node)
=============================================================================
