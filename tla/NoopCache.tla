------------------------------- MODULE NoopCache -------------------------------
(***************************************************************************)
(* Noops of commits on nodes, kept in files, and the delta noops made from *)
(* them: noop(), which saves a grouped report for every new commit of the  *)
(* branch, beside HecklerApply and HecklerNoopRange, which noop for the    *)
(* command line.  All of them use the same files.  Commits are applied,    *)
(* and nodes locked, between their steps.                                  *)
(***************************************************************************)
EXTENDS DeltaNoop

CONSTANTS Round,                   \* noop()
          Request,                 \* the request of the command line
          Asked,                   \* bound: commits at which its requests begin
          MaxErrored, MaxLocked,   \* max_node_thresholds
          Scenarios                \* bounds: how many applies, requests, and failures and
                                   \* user's locks there are, and what does not evaluate

ASSUME NoopCacheAssumption ==
  /\ Round # Request /\ 0 \in Commit /\ Asked \subseteq Commit
  /\ {MaxErrored, MaxLocked} \subseteq Nat
  /\ Scenarios \subseteq [applies : Nat, requests : Nat, failures : Nat,
                          broken : SUBSET (Commit \X Node)]

Run == {Round, Request}

VARIABLES applied,   \* last apply of each node
          holder,    \* who owns each node's lock: "none", "root", or "user", as which a
                     \* request of the command line locks as well
          noops,     \* the file of each node and commit
          grouped,   \* the grouped report saved for each commit
          pc,        \* of each run
          job,       \* of each run: the commit, whether by delta, how it was asked for
          base,      \* last apply of each active node, read at the start
          start,     \* base when grouping began
          missing,   \* the nodes left out: errored, locked by another
          asking,    \* the commit being nooped: the job's, then its parents
          left,      \* parents not yet nooped
          todo,      \* active nodes whose noop is not loaded
          waiting,   \* active nodes whose noop is awaited
          reps,      \* commitReports of each node
          moved,     \* history: nodes whose last apply changed since the run read it
          lost,      \* history: nodes a lock or unlock RPC of which failed
          budget     \* the scenario: applies, requests and failures left, and
                     \* the commits and nodes on which the manifests do not evaluate

ns == <<pc, job, base, start, missing, asking, left, todo, waiting, reps>>
vars == <<applied, holder, noops, grouped, ns, moved, lost, budget>>

NoJob == [commit |-> None, delta |-> TRUE, kind |-> "none"]
Job == [commit : Commit, delta : BOOLEAN, kind : {"round", "range", "apply"}]
NoReports == [n \in Node |-> [c \in Commit |-> NoReport]]
NoBase == [n \in {} |-> None]
NotSaved == [status |-> "none", base |-> NoBase, done |-> {}, resources |-> {}]
Bases == UNION {[S -> Commit] : S \in SUBSET Node}
NodeReports == [Node -> [Commit -> Report \cup {NoReport}]]

TypeOK ==
  /\ applied \in [Node -> Commit]
  /\ holder \in [Node -> {"none", "root", "user"}]
  /\ noops \in NodeReports
  /\ \A c \in Commit : /\ grouped[c].status \in {"none", "notInAllLineages", "grouped"}
                       /\ grouped[c].done \subseteq Node
  /\ pc \in [Run -> {"idle", "noop", "group"}]
  /\ job \in [Run -> Job \cup {NoJob}]
  /\ base \in [Run -> Bases] /\ start \in [Run -> Bases]
  /\ missing \in [Run -> [errored : SUBSET Node, locked : SUBSET Node]]
  /\ asking \in [Run -> Commit \cup {None}] /\ left \in [Run -> SUBSET Commit]
  /\ todo \in [Run -> SUBSET Node] /\ waiting \in [Run -> SUBSET Node]
  /\ \A r \in Run : todo[r] \cup waiting[r] \subseteq DOMAIN base[r]
  /\ reps \in [Run -> NodeReports]
  /\ moved \in [Run -> SUBSET Node] /\ lost \subseteq Node
  /\ budget \in [applies : Nat, requests : Nat, failures : Nat, broken : SUBSET (Commit \X Node)]

Init ==
  /\ applied \in [Node -> {0}]
  /\ holder = [n \in Node |-> "none"]
  /\ noops = NoReports
  /\ grouped = [c \in Commit |-> NotSaved]
  /\ pc = [r \in Run |-> "idle"] /\ job = [r \in Run |-> NoJob]
  /\ base = [r \in Run |-> NoBase] /\ start = [r \in Run |-> NoBase]
  /\ missing = [r \in Run |-> [errored |-> {}, locked |-> {}]]
  /\ asking = [r \in Run |-> None] /\ left = [r \in Run |-> {}]
  /\ todo = [r \in Run |-> {}] /\ waiting = [r \in Run |-> {}]
  /\ reps = [r \in Run |-> NoReports]
  /\ moved = [r \in Run |-> {}] /\ lost = {}
  /\ budget \in Scenarios

Least(S) == CHOOSE c \in S : \A d \in S : c <= d
Without(f, S) == [n \in DOMAIN f \ S |-> f[n]]

Evaluates(c, n) == <<c, n>> \notin budget.broken

Spend(what) == budget[what] > 0 /\ budget' = [budget EXCEPT ![what] = @ - 1]

\* thresholdExceededNodeSet; requests of the command line have no thresholds.
Exceeded(r, m) == r = Round /\ (Cardinality(m.errored) > MaxErrored \/ Cardinality(m.locked) > MaxLocked)

-----------------------------------------------------------------------------
(* The start of a run, and of groupReportNodeSet for a commit.             *)

\* Mutated form of ParentsToNoop: all parents are, in whichever lineage.
AllParentsToNoop(j, b) == IF j.delta THEN Parents[j.commit] ELSE {}

\* Parents outside a node's lineage are not nooped: nothing is subtracted for them.
ParentsToNoop(j, b) ==
  {p \in Parents[j.commit] : j.delta /\ commitInAllNodeLineages(p, b)}

\* groupReportNodeSet of job j on the nodes of b: no noop is asked for a delta that
\* cannot be made, an empty one stands for parents that are not nooped.
Begin(r, j, b) ==
  LET possible == j.delta => commitInAllNodeLineages(j.commit, b)
      parents == ParentsToNoop(j, b)
  IN /\ pc' = [pc EXCEPT ![r] = IF possible THEN "noop" ELSE "group"]
     /\ job' = [job EXCEPT ![r] = j]
     /\ base' = [base EXCEPT ![r] = b] /\ start' = [start EXCEPT ![r] = b]
     /\ asking' = [asking EXCEPT ![r] = IF possible THEN j.commit ELSE None]
     /\ left' = [left EXCEPT ![r] = IF possible THEN parents ELSE {}]
     /\ todo' = [todo EXCEPT ![r] = IF possible THEN DOMAIN b ELSE {}]
     /\ reps' = [reps EXCEPT ![r] =
                   [n \in Node |-> [c \in Commit |->
                      IF possible /\ n \in DOMAIN b /\ c \in Parents[j.commit] \ parents
                      THEN EmptyReport ELSE NoReport]]]
     /\ UNCHANGED waiting

\* dialNodeSet and lastApplyNodeSet: nodes that a user has locked and those that do
\* not answer are left out.
Query(r, j, b, failing, locked) ==
  /\ failing # {} => Spend("failures")
  /\ ~Exceeded(r, [errored |-> failing, locked |-> locked])
  /\ missing' = [missing EXCEPT ![r] = [errored |-> failing, locked |-> locked]]
  /\ moved' = [moved EXCEPT ![r] = {}]
  /\ Begin(r, j, b)

Locked == {n \in Node : holder[n] = "user"}

\* noop() on a commit for which no grouped report is saved.  Commit 0 is the common
\* tag, from which the nodes set out.
StartRound ==
  /\ pc[Round] = "idle"
  /\ \E c \in Commit, failing \in SUBSET (Node \ Locked) :
       /\ grouped[c] = NotSaved /\ c # 0
       /\ Query(Round, [commit |-> c, delta |-> TRUE, kind |-> "round"],
                Without(applied, failing \cup Locked), failing, Locked)
       /\ failing = {} => UNCHANGED budget
  /\ UNCHANGED <<applied, holder, noops, grouped, lost>>

\* HecklerNoopRange begins at any commit.
StartRange ==
  /\ pc[Request] = "idle" /\ Spend("requests")
  /\ \E c \in Asked, n \in Node :
       LET locked == Locked \cap {n}
       IN Query(Request, [commit |-> c, delta |-> TRUE, kind |-> "range"],
                [i \in {n} \ locked |-> applied[i]], {}, locked)
  /\ UNCHANGED <<applied, holder, noops, grouped, lost>>

\* HecklerApply with Noop locks the nodes as its user first.
StartApply ==
  /\ pc[Request] = "idle" /\ Spend("requests")
  /\ \E c \in Asked, n \in Node, delta \in BOOLEAN :
       LET locked == {i \in {n} : holder[i] # "none"}
       IN /\ Query(Request, [commit |-> c, delta |-> delta, kind |-> "apply"],
                   [i \in {n} \ locked |-> applied[i]], {}, locked)
          /\ holder' = [i \in Node |-> IF i \in {n} \ locked THEN "user" ELSE holder[i]]
  /\ UNCHANGED <<applied, noops, grouped, lost>>

-----------------------------------------------------------------------------
(* noopNodeSet.                                                            *)

\* Mutated form of loadNoop: a noop taken against another last apply is used.
loadAnyNoop(n, c, b) ==
  IF commitAlreadyApplied(b, c) THEN EmptyReport ELSE noops[n][c]

\* A commit that is applied has an empty noop.  A noop counts if it was taken against
\* the node's last apply, or if it failed.
loadNoop(n, c, b) ==
  IF commitAlreadyApplied(b, c) THEN EmptyReport
  ELSE IF noops[n][c].status = "failed" \/ noops[n][c].base = b THEN noops[n][c]
  ELSE NoReport

Drop(r, n, why) ==
  /\ base' = [base EXCEPT ![r] = Without(@, {n})]
  /\ missing' = [missing EXCEPT ![r][why] = @ \cup {n}]

\* A node without a valid noop is locked and asked for one.
Load(r, n) ==
  /\ pc[r] = "noop" /\ n \in todo[r]
  /\ todo' = [todo EXCEPT ![r] = @ \ {n}]
  /\ LET rep == loadNoop(n, asking[r], base[r][n])
     IN \/ /\ rep # NoReport
           /\ reps' = [reps EXCEPT ![r][n][asking[r]] = rep]
           /\ UNCHANGED <<holder, base, missing, waiting, lost, budget>>
        \/ /\ rep = NoReport /\ holder[n] = "none"
           /\ holder' = [holder EXCEPT ![n] = "root"]
           /\ waiting' = [waiting EXCEPT ![r] = @ \cup {n}]
           /\ UNCHANGED <<base, missing, reps, lost, budget>>
        \/ /\ rep = NoReport /\ holder[n] # "none"
           /\ Drop(r, n, "locked")
           /\ UNCHANGED <<holder, waiting, reps, lost, budget>>
        \/ /\ rep = NoReport /\ Spend("failures")
           /\ Drop(r, n, "errored")
           /\ lost' = lost \cup {n}
           /\ holder' \in {holder, [holder EXCEPT ![n] = IF @ = "none" THEN "root" ELSE @]}
           /\ UNCHANGED <<waiting, reps>>
  /\ UNCHANGED <<applied, noops, grouped, pc, job, start, asking, left, moved>>

\* Mutated form of Reply: a node is unlocked only once its noop has come.
ReplyKeepsLock(r, n) ==
  /\ pc[r] = "noop" /\ todo[r] = {} /\ n \in waiting[r]
  /\ waiting' = [waiting EXCEPT ![r] = @ \ {n}]
  /\ Spend("failures") /\ Drop(r, n, "errored")
  /\ UNCHANGED <<applied, holder, noops, grouped, pc, job, start, asking, left, todo, reps, moved, lost>>

\* Mutated form of Reply: a node whose noop failed stays active.
ReplyKeepsNode(r, n) ==
  /\ pc[r] = "noop" /\ todo[r] = {} /\ n \in waiting[r]
  /\ waiting' = [waiting EXCEPT ![r] = @ \ {n}]
  /\ Spend("failures") /\ missing' = [missing EXCEPT ![r].errored = @ \cup {n}]
  /\ holder' = [holder EXCEPT ![n] = "none"]
  /\ UNCHANGED <<applied, noops, grouped, pc, job, base, start, asking, left, todo, reps, moved, lost>>

\* Mutated form of Reply: a failed noop is still counted as outstanding.
ReplyOutstanding(r, n) ==
  /\ pc[r] = "noop" /\ todo[r] = {} /\ n \in waiting[r]
  /\ Spend("failures") /\ Drop(r, n, "errored")
  /\ holder' = [holder EXCEPT ![n] = "none"]
  /\ UNCHANGED <<applied, noops, grouped, pc, job, start, asking, left, todo, waiting, reps, moved, lost>>

\* The noop comes, or its RPC fails; the node is unlocked in any case, and an unlock
\* that fails is logged.
Reply(r, n) ==
  /\ pc[r] = "noop" /\ todo[r] = {} /\ n \in waiting[r]
  /\ waiting' = [waiting EXCEPT ![r] = @ \ {n}]
  /\ LET rep == Noop(Evaluates(asking[r], n), applied[n])
     IN \/ /\ noops' = [noops EXCEPT ![n][asking[r]] = rep]
           /\ reps' = [reps EXCEPT ![r][n][asking[r]] = rep]
           /\ \/ holder' = [holder EXCEPT ![n] = "none"] /\ UNCHANGED <<lost, budget>>
              \/ Spend("failures") /\ lost' = lost \cup {n} /\ UNCHANGED holder
           /\ UNCHANGED <<base, missing>>
        \/ /\ Spend("failures") /\ Drop(r, n, "errored")
           /\ holder' = [holder EXCEPT ![n] = "none"]
           /\ UNCHANGED <<noops, reps, lost>>
  /\ UNCHANGED <<applied, grouped, pc, job, start, asking, left, todo, moved>>

\* The job that is over leaves nothing behind; one that locked its nodes unlocks them.
Forget(r) ==
  /\ pc' = [pc EXCEPT ![r] = "idle"] /\ job' = [job EXCEPT ![r] = NoJob]
  /\ base' = [base EXCEPT ![r] = NoBase] /\ start' = [start EXCEPT ![r] = NoBase]
  /\ missing' = [missing EXCEPT ![r] = [errored |-> {}, locked |-> {}]]
  /\ asking' = [asking EXCEPT ![r] = None] /\ left' = [left EXCEPT ![r] = {}]
  /\ todo' = [todo EXCEPT ![r] = {}] /\ waiting' = [waiting EXCEPT ![r] = {}]
  /\ reps' = [reps EXCEPT ![r] = NoReports] /\ moved' = [moved EXCEPT ![r] = {}]

\* All nodes have answered.  Over a threshold the commit is given up.
Nooped(r) ==
  /\ pc[r] = "noop" /\ todo[r] = {} /\ waiting[r] = {}
  /\ \/ Exceeded(r, missing[r]) /\ Forget(r)
     \/ /\ ~Exceeded(r, missing[r]) /\ left[r] # {}
        /\ asking' = [asking EXCEPT ![r] = Least(left[r])]
        /\ left' = [left EXCEPT ![r] = @ \ {Least(left[r])}]
        /\ todo' = [todo EXCEPT ![r] = DOMAIN base[r]]
        /\ UNCHANGED <<pc, job, base, start, missing, waiting, reps, moved>>
     \/ /\ ~Exceeded(r, missing[r]) /\ left[r] = {}
        /\ pc' = [pc EXCEPT ![r] = "group"] /\ asking' = [asking EXCEPT ![r] = None]
        /\ UNCHANGED <<job, base, start, missing, left, todo, waiting, reps, moved>>
  /\ UNCHANGED <<applied, holder, noops, grouped, lost, budget>>

-----------------------------------------------------------------------------
(* The grouped report.                                                     *)

\* There is no delta for a node on which the commit or a parent does not evaluate.
EvalErrors(r) == {n \in DOMAIN base[r] : reps[r][n][job[r].commit].status = "failed"}
ParentEvalErrors(r) ==
  {n \in DOMAIN base[r] : \E p \in Parents[job[r].commit] : reps[r][n][p].status = "failed"}
Grouping(r) == DOMAIN base[r] \ (EvalErrors(r) \cup ParentEvalErrors(r))

GroupedReports(r) ==
  LET c == job[r].commit
      possible == job[r].delta => commitInAllNodeLineages(c, start[r])
      delta == [n \in Grouping(r) |-> subtractNoops(n, c, reps[r][n])]
  IN IF ~possible
     THEN {[status |-> "notInAllLineages", base |-> start[r], done |-> {}, resources |-> {}]}
     ELSE {[status |-> "grouped", base |-> start[r], done |-> Grouping(r) \ moved[r],
            resources |-> groups] : groups \in groupResources(delta)}

\* noop() creates the commit's issue, which may fail, and saves the report.
GroupRound ==
  /\ pc[Round] = "group"
  /\ \/ /\ \E g \in GroupedReports(Round) : grouped' = [grouped EXCEPT ![job[Round].commit] = g]
        /\ UNCHANGED budget
     \/ Spend("failures") /\ UNCHANGED grouped
  /\ Forget(Round)
  /\ UNCHANGED <<applied, holder, noops, lost>>

\* A range goes on with the nodes that are left.
GroupRange ==
  /\ pc[Request] = "group" /\ job[Request].kind = "range"
  /\ \/ /\ job[Request].commit + 1 \in Commit
        /\ Begin(Request, [job[Request] EXCEPT !.commit = @ + 1],
                 Without(base[Request], EvalErrors(Request) \cup ParentEvalErrors(Request)))
        /\ UNCHANGED <<missing, moved>>
     \/ Forget(Request)
  /\ UNCHANGED <<applied, holder, noops, grouped, lost, budget>>

GroupApply ==
  /\ pc[Request] = "group" /\ job[Request].kind = "apply"
  /\ holder' = [n \in Node |-> IF holder[n] = "user" /\ n \in DOMAIN start[Request]
                               THEN "none" ELSE holder[n]]
  /\ Forget(Request)
  /\ UNCHANGED <<applied, noops, grouped, lost, budget>>

-----------------------------------------------------------------------------
(* The nodes.                                                              *)

\* The apply loop, which noopLock keeps from noop() but not from the requests, or the
\* command line's apply, which nothing keeps but the node's lock.
Apply(n) ==
  /\ holder[n] = "none" /\ Spend("applies")
  /\ \E c \in Commit : /\ c # applied[n] /\ Evaluates(c, n)
                       /\ applied' = [applied EXCEPT ![n] = c]
  /\ moved' = [r \in Run |-> IF n \in DOMAIN base[r] THEN moved[r] \cup {n} ELSE moved[r]]
  /\ UNCHANGED <<holder, noops, grouped, ns, lost>>

User(n) ==
  /\ \/ holder[n] = "none" /\ holder' = [holder EXCEPT ![n] = "user"] /\ Spend("failures")
     \/ holder[n] = "user" /\ holder' = [holder EXCEPT ![n] = "none"] /\ UNCHANGED budget
  /\ UNCHANGED <<applied, noops, grouped, ns, moved, lost>>

Step(r) == (\E n \in Node : Load(r, n) \/ Reply(r, n)) \/ Nooped(r)

noop == StartRound \/ Step(Round) \/ GroupRound
Requests == StartRange \/ StartApply \/ Step(Request) \/ GroupRange \/ GroupApply

Next == noop \/ Requests \/ \E n \in Node : Apply(n) \/ User(n)

Spec == Init /\ [][Next]_vars

-----------------------------------------------------------------------------
(* Properties.                                                             *)

\* "The last applied version which the noop is taken against must match between all
\* the noops" of a delta, though some are cached from earlier rounds and others fresh:
\* they do on every node on which nothing was applied since the run asked for it.
SameBase ==
  \A r \in Run : pc[r] = "group" =>
    \A n \in DOMAIN base[r] \ moved[r], c \in Commit :
      reps[r][n][c].status = "ok" => reps[r][n][c].base = base[r][n]

\* Whatever nodes were dropped on the way, those that are left have a report of the
\* commit and of each parent: hecklerd stops when one is missing.
ReportsThere ==
  \A r \in Run : pc[r] = "group" /\ (job[r].delta => commitInAllNodeLineages(job[r].commit, start[r])) =>
    \A n \in DOMAIN base[r], c \in {job[r].commit} \cup Parents[job[r].commit] :
      reps[r][n][c] # NoReport

\* A node is nooped with root's lock, by one run, and unlocked whatever came of it.
NoopLocks ==
  \A n \in Node :
    /\ \A r \in Run : n \in waiting[r] => holder[n] = "root"
    /\ holder[n] = "root" => n \in lost \/ \E r \in Run : n \in waiting[r]
    /\ \A r, s \in Run : n \in waiting[r] \cap waiting[s] => r = s

\* The commits between a and its descendant c, which an apply of c brings to a node at a.
Between(a, c) == {d \in Lineage[c] : a \in Lineage[d]} \ {a}

Listed(c, n, r) == \E g \in grouped[c].resources : g.shown.resource = r /\ n \in g.hosts

\* When all commits between a node's last apply and c were nooped against the same last
\* applies, and the node took part, every resource of the node that an apply of c changes
\* is listed in the report of one that sets it so, although each report leaves out what its
\* parents' noops show, and no delta is made of commits beside some node's lineage.
ChangeIsListed ==
  \A n \in Node, c \in Commit :
    LET a == applied[n]
        b == grouped[c].base
    IN /\ grouped[c].status = "grouped" /\ n \in DOMAIN b /\ b[n] = a
       /\ a # c /\ a \in Lineage[c]
       /\ \A d \in Between(a, c) :
            /\ grouped[d].status # "none" /\ grouped[d].base = b
            /\ grouped[d].status = "grouped" => n \in grouped[d].done
       => \A r \in Resource \ Ignored :
            Catalog[c][n][r] # Catalog[a][n][r] =>
              \E d \in Between(a, c) : Listed(d, n, r) /\ Catalog[d][n][r] = Catalog[c][n][r]

\* What commit c leaves of a resource as its parent p has it: its value, and whatever
\* would refresh it.
LeavesAs(c, p, n, r) ==
  /\ Catalog[c][n][r] = Catalog[p][n][r] /\ Subscribes[c][n][r] = Subscribes[p][n][r]
  /\ \A s \in Subscribes[c][n][r] : Catalog[c][n][s] = Catalog[p][n][s]

\* A report lists no resource of a node that its commit leaves as a parent has it, not
\* for an event and not for a log.  One that is refreshed by what the commit changes is
\* listed for its log, even when the parent's noop would refresh it too.
OnlyOwnChanges ==
  \A c \in Commit, n \in Node : n \in grouped[c].done =>
    \A p \in Parents[c] :
      grouped[c].base[n] \in Lineage[p] /\ commitInAllNodeLineages(p, grouped[c].base) =>
        \A r \in Resource : Listed(c, n, r) => ~LeavesAs(c, p, n, r)

\* "Heckler aggregates identical noop changes across nodes."
AggregatedIsIdentical ==
  \A c \in Commit : \A g \in grouped[c].resources :
    \A n \in g.hosts, e \in g.shown.events : e.desired = Catalog[c][n][e.resource]
=============================================================================
