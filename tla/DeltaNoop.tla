------------------------------- MODULE DeltaNoop -------------------------------
(***************************************************************************)
(* What hecklerd computes from the noops of a commit and of its parents:   *)
(* the delta of each node, and the groups of nodes with the same change.   *)
(* A catalog is a value for each resource of a node; the noop of a commit  *)
(* reports an event for each resource whose value differs from the one of  *)
(* the commit that the node has applied, and logs each resource that such  *)
(* changes would refresh.                                                  *)
(***************************************************************************)
EXTENDS Integers, FiniteSets

CONSTANTS Node, Resource,
          Commit,    \* numbered so that parents come before their children
          Parents,   \* [Commit -> SUBSET Commit]
          Value,
          Catalog,   \* [Commit -> [Node -> [Resource -> Value]]]
          File,      \* manifests
          FileOf,    \* [Node -> [Resource -> File]]: where a resource is declared
          Subscribes,   \* [Commit -> [Node -> [Resource -> SUBSET Resource]]]: whose
                        \* changes refresh a resource
          Ignored    \* ignored_resources

ASSUME DeltaNoopAssumption ==
  /\ Commit \subseteq Nat /\ Commit # {}
  /\ Parents \in [Commit -> SUBSET Commit]
  /\ \A c \in Commit : \A p \in Parents[c] : p < c
  /\ Catalog \in [Commit -> [Node -> [Resource -> Value]]]
  /\ FileOf \in [Node -> [Resource -> File]]
  /\ Subscribes \in [Commit -> [Node -> [Resource -> SUBSET Resource]]]
  /\ Ignored \subseteq Resource

None == -1

\* A commit and its ancestors.
Lineage[c \in Commit] == {c} \cup UNION {Lineage[p] : p \in Parents[c]}

commitAlreadyApplied(applied, c) == c \in Lineage[applied]

commitInNodeLineage(c, applied) == c \in Lineage[applied] \/ applied \in Lineage[c]

\* base is the last apply of each active node.
commitInAllNodeLineages(c, base) == \A n \in DOMAIN base : commitInNodeLineage(c, base[n])

-----------------------------------------------------------------------------
(* Reports.                                                                *)

\* base is the last apply that a noop was taken against; the report of a failed
\* evaluation is made by rizzod and has none.
Report == [status : {"ok"}, base : Commit] \cup [status : {"failed", "empty"}, base : {None}]
EmptyReport == [status |-> "empty", base |-> None]
NoReport == [status |-> "none", base |-> None]

\* The noop of a commit on a node that has applied commit a.
Noop(evaluates, a) == IF evaluates THEN [status |-> "ok", base |-> a]
                      ELSE [status |-> "failed", base |-> None]

\* What commit c changes on node n at commit a, and what of it refreshes resource r.
Changed(n, a, c) == {r \in Resource : Catalog[a][n][r] # Catalog[c][n][r]}
Refreshing(n, a, c, r) == Changed(n, a, c) \cap Subscribes[c][n][r]

\* The events of the noop of commit c on node n.
Events(n, c, rep) ==
  IF rep.status # "ok" THEN {}
  ELSE {[resource |-> r, previous |-> Catalog[rep.base][n][r], desired |-> Catalog[c][n][r]] :
          r \in Changed(n, rep.base, c)}

\* Its logs: "Would have triggered 'refresh' from 1 event" tells how many changes there
\* are.  The diff of a file's content says what its event does.
Logs(n, c, rep) ==
  IF rep.status # "ok" THEN {}
  ELSE {[resource |-> r, changes |-> Cardinality(Refreshing(n, rep.base, c, r))] :
          r \in {r \in Resource : Refreshing(n, rep.base, c, r) # {}}}

priorEvent(e, n, c, reps) == \E p \in Parents[c] : e \in Events(n, p, reps[p])
priorLog(l, n, c, reps) == \E p \in Parents[c] : l \in Logs(n, p, reps[p])

OfResource(S, r) == {x \in S : x.resource = r}
Shown(deltas) == {d \in deltas : d.events # {} \/ d.logs # {}}

\* Mutated form of subtractNoops: nothing is subtracted.
subtractNothing(n, c, reps) ==
  Shown({[resource |-> r, events |-> OfResource(Events(n, c, reps[c]), r),
          logs |-> OfResource(Logs(n, c, reps[c]), r)] : r \in Resource \ Ignored})

\* The resources of commit c's noop with the events and the logs that are not those of
\* a parent: one that only logs are left of is kept.
subtractNoops(n, c, reps) ==
  LET events == {e \in Events(n, c, reps[c]) : ~priorEvent(e, n, c, reps)}
      logs == {l \in Logs(n, c, reps[c]) : ~priorLog(l, n, c, reps)}
  IN Shown({[resource |-> r, events |-> OfResource(events, r), logs |-> OfResource(logs, r)] :
              r \in Resource \ Ignored})

-----------------------------------------------------------------------------
(* Groups.                                                                 *)

\* The nodes of which delta[n] has resource r, declared in file f.
Having(delta, r, f) == {n \in DOMAIN delta : FileOf[n][r] = f /\ \E d \in delta[n] : d.resource = r}

DeltaOf(delta, n, r) == CHOOSE d \in delta[n] : d.resource = r

\* Nodes are grouped when their delta resources are shallowly equal: when title, type
\* and file are, for the events and logs are slices, which ShallowEqual skips.  The
\* group shows those of the node at which it was begun.
groupResources(delta) ==
  LET classes == {k \in Resource \X File : Having(delta, k[1], k[2]) # {}}
  IN {{[shown |-> DeltaOf(delta, first[k], k[1]), hosts |-> Having(delta, k[1], k[2])] :
         k \in classes} :
       first \in {g \in [classes -> DOMAIN delta] : \A k \in classes : g[k] \in Having(delta, k[1], k[2])}}
=============================================================================
