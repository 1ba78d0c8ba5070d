---------------------------- MODULE NoopCache_proofs ----------------------------
(***************************************************************************)
(* Proofs about NoopCache, for all nodes, resources, histories of commits, *)
(* thresholds and numbers of applies, requests and failures.               *)
(***************************************************************************)
EXTENDS NoopCache, DeltaNoop_proofs

\* Of the parents left there is one to be nooped next.
LEMMA LeastOf ==
  ASSUME NEW S \in SUBSET Commit, S # {}
  PROVE  Least(S) \in S
BY LeastCommit, Zenon DEF Least

\* What a run keeps.
RunTypes == /\ pc \in [Run -> {"idle", "noop", "group"}]
            /\ job \in [Run -> Job \cup {NoJob}]
            /\ base \in [Run -> Bases] /\ start \in [Run -> Bases]
            /\ missing \in [Run -> [errored : SUBSET Node, locked : SUBSET Node]]
            /\ asking \in [Run -> Commit \cup {None}] /\ left \in [Run -> SUBSET Commit]
            /\ todo \in [Run -> SUBSET Node] /\ waiting \in [Run -> SUBSET Node]
            /\ \A r \in Run : todo[r] \cup waiting[r] \subseteq DOMAIN base[r]
            /\ reps \in [Run -> NodeReports]
            /\ moved \in [Run -> SUBSET Node]

\* What the files and the nodes keep, and the bounds.
WorldTypes == /\ applied \in [Node -> Commit]
              /\ holder \in [Node -> {"none", "root", "user"}]
              /\ noops \in NodeReports
              /\ lost \subseteq Node
              /\ budget \in [applies : Nat, requests : Nat, failures : Nat,
                             broken : SUBSET (Commit \X Node)]

GroupedTypes == /\ grouped = [c \in Commit |-> grouped[c]]
                /\ \A c \in Commit : /\ grouped[c].status \in {"none", "notInAllLineages", "grouped"}
                                     /\ grouped[c].done \subseteq Node

\* A run that noops has a commit to noop, awaits no node that is still to be loaded, nor
\* any once it has nooped, and has no nodes when it is over.
PhaseInv == \A r \in Run : /\ pc[r] # "idle" => job[r] \in Job
                           /\ pc[r] = "noop" => asking[r] \in Commit
                           /\ pc[r] # "noop" => waiting[r] = {}
                           /\ todo[r] \cap waiting[r] = {}
                           /\ pc[r] = "idle" => base[r] = NoBase

TypeInv == RunTypes /\ WorldTypes /\ GroupedTypes /\ PhaseInv

LEMMA TypeParts == TypeInv => TypeOK
BY Zenon DEF TypeInv, RunTypes, WorldTypes, GroupedTypes, TypeOK

\* The set of last applies of some nodes.
LEMMA IsBase ==
  /\ \A b \in Bases : DOMAIN b \subseteq Node /\ \A n \in DOMAIN b : b[n] \in Commit
  /\ NoBase \in Bases /\ DOMAIN NoBase = {}
  /\ \A b \in Bases : \A S : /\ Without(b, S) \in Bases
                              /\ DOMAIN Without(b, S) = DOMAIN b \ S
                              /\ \A n \in DOMAIN b \ S : Without(b, S)[n] = b[n]
  /\ \A S \in SUBSET Node, f \in [Node -> Commit] : [n \in S |-> f[n]] \in Bases
<1>1. \A b \in Bases : DOMAIN b \subseteq Node /\ \A n \in DOMAIN b : b[n] \in Commit
  BY DEF Bases
<1>2. \A S \in SUBSET Node : [S -> Commit] \subseteq Bases
  BY DEF Bases
<1>3. NoBase \in [{} -> Commit] /\ DOMAIN NoBase = {}
  BY DEF NoBase
<1>4. ASSUME NEW b \in Bases, NEW S
      PROVE  Without(b, S) \in [DOMAIN b \ S -> Commit]
  BY <1>1 DEF Without
<1> QED
  BY <1>1, <1>2, <1>3, <1>4 DEF Without

LEMMA IsJob ==
  \A c \in Commit, delta \in BOOLEAN, kind \in {"round", "range", "apply"} :
    [commit |-> c, delta |-> delta, kind |-> kind] \in Job
BY DEF Job

\* The last applies that a run reads.
LEMMA IsRead ==
  ASSUME applied \in [Node -> Commit]
  PROVE  /\ \A S : Without(applied, S) \in Bases
         /\ \A S \in SUBSET Node : [i \in S |-> applied[i]] \in Bases
<1>1. ASSUME NEW S \in SUBSET Node PROVE [i \in S |-> applied[i]] \in Bases
  <2>1. [i \in S |-> applied[i]] \in [S -> Commit]
    OBVIOUS
  <2> QED
    BY <2>1 DEF Bases
<1>2. ASSUME NEW S PROVE Without(applied, S) \in Bases
  <2>1. Without(applied, S) \in [Node \ S -> Commit]
    BY DEF Without
  <2> QED
    BY <2>1 DEF Bases
<1> QED
  BY <1>1, <1>2

LEMMA IsReport ==
  /\ EmptyReport \in Report /\ EmptyReport # NoReport /\ NoReport \notin Report
  /\ \A e \in BOOLEAN, a \in Commit : Noop(e, a) \in Report
  /\ NoReports \in NodeReports
BY DEF EmptyReport, NoReport, Report, Noop, NoReports, NodeReports

\* The record of a report that a run gets for one of its nodes.
LEMMA Filed ==
  ASSUME RunTypes, NEW r \in Run, NEW n \in Node, NEW c \in Commit, NEW rep \in Report,
         reps' = [reps EXCEPT ![r][n][c] = rep]
  PROVE  /\ reps' \in [Run -> NodeReports]
         /\ reps'[r][n][c] = rep
         /\ \A q \in Run, m \in Node, d \in Commit :
              <<q, m, d>> # <<r, n, c>> => reps'[q][m][d] = reps[q][m][d]
BY DEF RunTypes, NodeReports

\* groupReportNodeSet begins with every active node to noop, and no report.
LEMMA Begun ==
  ASSUME RunTypes, PhaseInv, NEW r \in Run, NEW j \in Job, NEW b \in Bases, Begin(r, j, b),
         pc[r] # "noop"
  PROVE  /\ pc' \in [Run -> {"idle", "noop", "group"}] /\ job' \in [Run -> Job \cup {NoJob}]
         /\ base' \in [Run -> Bases] /\ start' \in [Run -> Bases]
         /\ asking' \in [Run -> Commit \cup {None}] /\ left' \in [Run -> SUBSET Commit]
         /\ todo' \in [Run -> SUBSET Node] /\ waiting' = waiting
         /\ \A q \in Run : todo'[q] \cup waiting'[q] \subseteq DOMAIN base'[q]
         /\ reps' \in [Run -> NodeReports]
         /\ PhaseInv'
<1> DEFINE possible == j.delta => commitInAllNodeLineages(j.commit, b)
           rep == [n \in Node |-> [c \in Commit |->
                     IF possible /\ n \in DOMAIN b /\ c \in Parents[j.commit] \ ParentsToNoop(j, b)
                     THEN EmptyReport ELSE NoReport]]
<1>1. rep \in NodeReports
  BY IsReport DEF NodeReports
<1>2. reps' = [reps EXCEPT ![r] = rep]
  BY DEF Begin
<1>3. j.commit \in Commit /\ ParentsToNoop(j, b) \subseteq Commit /\ DOMAIN b \subseteq Node
  BY DeltaNoopAssumption, IsBase DEF Job, ParentsToNoop
<1>4. reps' \in [Run -> NodeReports]
  BY <1>1, <1>2 DEF RunTypes
<1>5. waiting[r] = {}
  BY DEF PhaseInv
<1> HIDE DEF possible, rep
<1>6. /\ pc' = [pc EXCEPT ![r] = IF possible THEN "noop" ELSE "group"]
      /\ job' = [job EXCEPT ![r] = j]
      /\ base' = [base EXCEPT ![r] = b] /\ start' = [start EXCEPT ![r] = b]
      /\ asking' = [asking EXCEPT ![r] = IF possible THEN j.commit ELSE None]
      /\ left' = [left EXCEPT ![r] = IF possible THEN ParentsToNoop(j, b) ELSE {}]
      /\ todo' = [todo EXCEPT ![r] = IF possible THEN DOMAIN b ELSE {}]
      /\ waiting' = waiting
  BY DEF Begin, possible
<1>7. \A q \in Run : todo'[q] \cup waiting'[q] \subseteq DOMAIN base'[q]
  BY <1>5, <1>6 DEF RunTypes
<1>8. PhaseInv'
  BY <1>3, <1>5, <1>6 DEF PhaseInv, RunTypes
<1> QED
  BY <1>3, <1>4, <1>6, <1>7, <1>8 DEF RunTypes

\* A run that is over keeps nothing.
LEMMA Forgotten ==
  ASSUME RunTypes, PhaseInv, NEW r \in Run, Forget(r)
  PROVE  RunTypes' /\ PhaseInv'
<1>1. NoBase \in Bases /\ NoReports \in NodeReports
  BY IsBase, IsReport
<1> QED
  BY <1>1 DEF Forget, RunTypes, PhaseInv

\* A node that is dropped leaves the run's nodes.
LEMMA Dropped ==
  ASSUME RunTypes, NEW r \in Run, NEW n \in Node, NEW why \in {"errored", "locked"},
         Drop(r, n, why)
  PROVE  /\ base' \in [Run -> Bases]
         /\ missing' \in [Run -> [errored : SUBSET Node, locked : SUBSET Node]]
         /\ DOMAIN base'[r] = DOMAIN base[r] \ {n}
         /\ \A m \in DOMAIN base[r] \ {n} : base'[r][m] = base[r][m]
         /\ \A q \in Run \ {r} : base'[q] = base[q]
<1>1. base' = [base EXCEPT ![r] = Without(base[r], {n})]
  BY DEF Drop
<1>2. base[r] \in Bases
  BY DEF RunTypes
<1>3. missing' \in [Run -> [errored : SUBSET Node, locked : SUBSET Node]]
  BY DEF Drop, RunTypes
<1>4. /\ Without(base[r], {n}) \in Bases
      /\ DOMAIN Without(base[r], {n}) = DOMAIN base[r] \ {n}
      /\ \A m \in DOMAIN base[r] \ {n} : Without(base[r], {n})[m] = base[r][m]
  BY <1>2, IsBase
<1>5. /\ base'[r] = Without(base[r], {n}) /\ base' \in [Run -> Bases]
      /\ \A q \in Run \ {r} : base'[q] = base[q]
  BY <1>1, <1>4 DEF RunTypes
<1> QED
  BY <1>3, <1>4, <1>5

LEMMA Spent ==
  ASSUME WorldTypes, NEW what \in {"applies", "requests", "failures"}, Spend(what)
  PROVE  budget' \in [applies : Nat, requests : Nat, failures : Nat,
                      broken : SUBSET (Commit \X Node)]
<1>1. budget[what] \in Nat /\ budget[what] > 0 /\ budget' = [budget EXCEPT ![what] = @ - 1]
  BY DEF WorldTypes, Spend
<1>2. budget[what] - 1 \in Nat
  BY <1>1
<1> QED
  BY <1>1, <1>2 DEF WorldTypes

\* A run that starts.
LEMMA Queried ==
  ASSUME RunTypes, PhaseInv, NEW r \in Run, NEW j \in Job, NEW b \in Bases,
         NEW failing \in SUBSET Node, NEW locked \in SUBSET Node,
         Query(r, j, b, failing, locked), pc[r] # "noop"
  PROVE  RunTypes' /\ PhaseInv'
<1>1. Begin(r, j, b)
  BY DEF Query
<1>2. /\ missing' \in [Run -> [errored : SUBSET Node, locked : SUBSET Node]]
      /\ moved' \in [Run -> SUBSET Node]
  BY DEF Query, RunTypes
<1>3. waiting' \in [Run -> SUBSET Node]
  BY <1>1, Begun DEF RunTypes
<1> QED
  BY <1>1, <1>2, <1>3, Begun DEF RunTypes

\* loadNoop returns a report.
LEMMA Loaded ==
  ASSUME WorldTypes, NEW n \in Node, NEW c \in Commit, NEW a \in Commit
  PROVE  loadNoop(n, c, a) \in Report \cup {NoReport}
BY IsReport DEF WorldTypes, NodeReports, loadNoop

LEMMA LoadTypes ==
  ASSUME TypeInv, NEW r \in Run, NEW n \in Node, Load(r, n)
  PROVE  TypeInv'
<1> USE DEF TypeInv
<1>1. /\ n \in todo[r] /\ asking[r] \in Commit /\ n \in DOMAIN base[r] /\ base[r] \in Bases
      /\ pc[r] = "noop" /\ todo' = [todo EXCEPT ![r] = @ \ {n}]
      /\ UNCHANGED <<applied, noops, grouped, pc, job, start, asking, left, moved>>
  BY DEF Load, RunTypes, PhaseInv
<1>2. base[r][n] \in Commit
  BY <1>1, IsBase
<1>3. loadNoop(n, asking[r], base[r][n]) \in Report \cup {NoReport}
  BY <1>1, <1>2, Loaded
<1>4. GroupedTypes'
  BY <1>1 DEF GroupedTypes
<1>5. CASE /\ loadNoop(n, asking[r], base[r][n]) # NoReport
           /\ reps' = [reps EXCEPT ![r][n][asking[r]] = loadNoop(n, asking[r], base[r][n])]
           /\ UNCHANGED <<holder, base, missing, waiting, lost, budget>>
  <2>1. reps' \in [Run -> NodeReports]
    BY <1>1, <1>3, <1>5, Filed
  <2> QED
    BY <1>1, <1>4, <1>5, <2>1 DEF RunTypes, WorldTypes, PhaseInv
<1>6. CASE /\ holder[n] = "none" /\ holder' = [holder EXCEPT ![n] = "root"]
           /\ waiting' = [waiting EXCEPT ![r] = @ \cup {n}]
           /\ UNCHANGED <<base, missing, reps, lost, budget>>
  BY <1>1, <1>4, <1>6 DEF RunTypes, WorldTypes, PhaseInv
<1>7. CASE /\ n \notin waiting[r]
           /\ \/ Drop(r, n, "locked") /\ UNCHANGED <<holder, lost, budget>>
              \/ /\ Spend("failures") /\ Drop(r, n, "errored")
                 /\ lost' = lost \cup {n}
                 /\ holder' \in {holder, [holder EXCEPT ![n] = IF @ = "none" THEN "root" ELSE @]}
           /\ UNCHANGED <<waiting, reps>>
  <2>1. WorldTypes'
    BY <1>1, <1>7, Spent DEF WorldTypes
  <2>2. /\ base' \in [Run -> Bases]
        /\ missing' \in [Run -> [errored : SUBSET Node, locked : SUBSET Node]]
        /\ DOMAIN base'[r] = DOMAIN base[r] \ {n}
        /\ \A q \in Run \ {r} : base'[q] = base[q]
    BY <1>7, Dropped
  <2> QED
    BY <1>1, <1>4, <1>7, <2>1, <2>2 DEF RunTypes, PhaseInv
<1>8. n \notin waiting[r]
  BY <1>1 DEF PhaseInv
<1> QED
  BY <1>5, <1>6, <1>7, <1>8 DEF Load

LEMMA ReplyTypes ==
  ASSUME TypeInv, NEW r \in Run, NEW n \in Node, Reply(r, n)
  PROVE  TypeInv'
<1> USE DEF TypeInv
<1>1. /\ n \in waiting[r] /\ asking[r] \in Commit /\ n \in DOMAIN base[r]
      /\ pc[r] = "noop" /\ todo[r] = {} /\ waiting' = [waiting EXCEPT ![r] = @ \ {n}]
      /\ UNCHANGED <<applied, grouped, pc, job, start, asking, left, todo, moved>>
  BY DEF Reply, RunTypes, PhaseInv
<1>2. Noop(Evaluates(asking[r], n), applied[n]) \in Report
  BY IsReport DEF Evaluates, WorldTypes
<1>3. GroupedTypes'
  BY <1>1 DEF GroupedTypes
<1> DEFINE rep == Noop(Evaluates(asking[r], n), applied[n])
<1>4. CASE /\ noops' = [noops EXCEPT ![n][asking[r]] = rep]
           /\ reps' = [reps EXCEPT ![r][n][asking[r]] = rep]
           /\ \/ holder' = [holder EXCEPT ![n] = "none"] /\ UNCHANGED <<lost, budget>>
              \/ Spend("failures") /\ lost' = lost \cup {n} /\ UNCHANGED holder
           /\ UNCHANGED <<base, missing>>
  <2> HIDE DEF rep
  <2>1. reps' \in [Run -> NodeReports]
    BY <1>1, <1>2, <1>4, Filed DEF rep
  <2>2. noops' \in NodeReports
    BY <1>1, <1>2, <1>4 DEF WorldTypes, NodeReports, rep
  <2>3. WorldTypes'
    BY <1>1, <1>4, <2>2, Spent DEF WorldTypes
  <2> QED
    BY <1>1, <1>3, <1>4, <2>1, <2>3 DEF RunTypes, PhaseInv
<1>5. CASE /\ Spend("failures") /\ Drop(r, n, "errored")
           /\ holder' = [holder EXCEPT ![n] = "none"]
           /\ UNCHANGED <<noops, reps, lost>>
  <2>1. WorldTypes'
    BY <1>1, <1>5, Spent DEF WorldTypes
  <2>2. /\ base' \in [Run -> Bases]
        /\ missing' \in [Run -> [errored : SUBSET Node, locked : SUBSET Node]]
        /\ DOMAIN base'[r] = DOMAIN base[r] \ {n}
        /\ \A q \in Run \ {r} : base'[q] = base[q]
    BY <1>5, Dropped
  <2> QED
    BY <1>1, <1>3, <1>5, <2>1, <2>2 DEF RunTypes, PhaseInv
<1> QED
  BY <1>4, <1>5 DEF Reply

LEMMA NoopedTypes ==
  ASSUME TypeInv, NEW r \in Run, Nooped(r)
  PROVE  TypeInv'
<1> USE DEF TypeInv
<1>1. /\ pc[r] = "noop" /\ todo[r] = {} /\ waiting[r] = {}
      /\ WorldTypes' /\ GroupedTypes'
  BY DEF Nooped, WorldTypes, GroupedTypes
<1>2. CASE Forget(r)
  BY <1>1, <1>2, Forgotten
<1>3. CASE /\ left[r] # {}
           /\ asking' = [asking EXCEPT ![r] = Least(left[r])]
           /\ left' = [left EXCEPT ![r] = @ \ {Least(left[r])}]
           /\ todo' = [todo EXCEPT ![r] = DOMAIN base[r]]
           /\ UNCHANGED <<pc, job, base, start, missing, waiting, reps, moved>>
  <2>1. Least(left[r]) \in Commit /\ DOMAIN base[r] \subseteq Node
    BY <1>3, LeastOf, IsBase DEF RunTypes
  <2> QED
    BY <1>1, <1>3, <2>1 DEF RunTypes, PhaseInv
<1>4. CASE /\ pc' = [pc EXCEPT ![r] = "group"] /\ asking' = [asking EXCEPT ![r] = None]
           /\ UNCHANGED <<job, base, start, missing, left, todo, waiting, reps, moved>>
  BY <1>1, <1>4 DEF RunTypes, PhaseInv
<1> QED
  BY <1>2, <1>3, <1>4 DEF Nooped

\* What is saved for a commit.
LEMMA IsGrouped ==
  ASSUME RunTypes, NEW r \in Run, NEW g \in GroupedReports(r)
  PROVE  g.status \in {"none", "notInAllLineages", "grouped"} /\ g.done \subseteq Node
<1>1. DOMAIN base[r] \subseteq Node
  BY IsBase DEF RunTypes
<1>2. Grouping(r) \ moved[r] \subseteq Node
  BY <1>1 DEF Grouping
<1>3. \/ g = [status |-> "notInAllLineages", base |-> start[r], done |-> {}, resources |-> {}]
      \/ \E groups : g = [status |-> "grouped", base |-> start[r],
                          done |-> Grouping(r) \ moved[r], resources |-> groups]
  BY Zenon DEF GroupedReports
<1> QED
  BY <1>2, <1>3

\* Every action keeps every variable in its type.
LEMMA TypeStep == TypeInv /\ [Next]_vars => TypeInv'
<1> SUFFICES ASSUME TypeInv, [Next]_vars PROVE TypeInv'
  OBVIOUS
<1> USE DEF TypeInv, Run
<1>1. CASE StartRound
  <2>1. PICK c \in Commit, failing \in SUBSET (Node \ Locked) :
          Query(Round, [commit |-> c, delta |-> TRUE, kind |-> "round"],
                Without(applied, failing \cup Locked), failing, Locked)
          /\ (failing = {} => UNCHANGED budget)
    BY <1>1 DEF StartRound
  <2>2. /\ [commit |-> c, delta |-> TRUE, kind |-> "round"] \in Job
        /\ Without(applied, failing \cup Locked) \in Bases
        /\ failing \in SUBSET Node /\ Locked \in SUBSET Node
    BY IsJob, IsRead DEF WorldTypes, Locked
  <2>3. RunTypes' /\ PhaseInv'
    BY <1>1, <2>1, <2>2, Queried DEF StartRound
  <2>4. WorldTypes' /\ GroupedTypes'
    BY <1>1, <2>1, Spent DEF StartRound, Query, WorldTypes, GroupedTypes
  <2> QED
    BY <2>3, <2>4
<1>2. CASE StartRange
  <2>1. PICK c \in Asked, n \in Node :
          Query(Request, [commit |-> c, delta |-> TRUE, kind |-> "range"],
                [i \in {n} \ (Locked \cap {n}) |-> applied[i]], {}, Locked \cap {n})
    BY <1>2 DEF StartRange
  <2>2. /\ [commit |-> c, delta |-> TRUE, kind |-> "range"] \in Job
        /\ [i \in {n} \ (Locked \cap {n}) |-> applied[i]] \in Bases
        /\ {} \in SUBSET Node /\ Locked \cap {n} \in SUBSET Node
    BY IsJob, IsRead, NoopCacheAssumption DEF WorldTypes
  <2>3. RunTypes' /\ PhaseInv'
    BY <1>2, <2>1, <2>2, Queried DEF StartRange
  <2>4. WorldTypes' /\ GroupedTypes'
    BY <1>2, Spent DEF StartRange, WorldTypes, GroupedTypes
  <2> QED
    BY <2>3, <2>4
<1>3. CASE StartApply
  <2>1. PICK c \in Asked, n \in Node, delta \in BOOLEAN :
          LET locked == {i \in {n} : holder[i] # "none"}
          IN /\ Query(Request, [commit |-> c, delta |-> delta, kind |-> "apply"],
                      [i \in {n} \ locked |-> applied[i]], {}, locked)
             /\ holder' = [i \in Node |-> IF i \in {n} \ locked THEN "user" ELSE holder[i]]
    BY <1>3 DEF StartApply
  <2> DEFINE locked == {i \in {n} : holder[i] # "none"}
  <2>2. /\ [commit |-> c, delta |-> delta, kind |-> "apply"] \in Job
        /\ [i \in {n} \ locked |-> applied[i]] \in Bases
        /\ {} \in SUBSET Node /\ locked \in SUBSET Node
    <3> HIDE DEF locked
    <3>1. locked \in SUBSET Node /\ {n} \ locked \in SUBSET Node
      BY DEF locked
    <3> QED
      BY <3>1, IsJob, IsRead, NoopCacheAssumption DEF WorldTypes
  <2>3. RunTypes' /\ PhaseInv'
    BY <1>3, <2>1, <2>2, Queried DEF StartApply
  <2>4. WorldTypes' /\ GroupedTypes'
    BY <1>3, <2>1, Spent DEF StartApply, WorldTypes, GroupedTypes
  <2> QED
    BY <2>3, <2>4
<1>4. ASSUME NEW r \in Run, Step(r) PROVE TypeInv'
  BY <1>4, LoadTypes, ReplyTypes, NoopedTypes DEF Step
<1>5. CASE GroupRound
  <2>1. RunTypes' /\ PhaseInv'
    BY <1>5, Forgotten DEF GroupRound
  <2>2. WorldTypes'
    BY <1>5, Spent DEF GroupRound, WorldTypes
  <2>3. GroupedTypes'
    <3>1. CASE UNCHANGED grouped
      BY <3>1 DEF GroupedTypes
    <3>2. ASSUME NEW g \in GroupedReports(Round),
                 grouped' = [grouped EXCEPT ![job[Round].commit] = g]
          PROVE  GroupedTypes'
      BY <3>2, IsGrouped DEF GroupedTypes
    <3> QED
      BY <1>5, <3>1, <3>2 DEF GroupRound
  <2> QED
    BY <2>1, <2>2, <2>3
<1>6. CASE GroupRange
  <2>1. WorldTypes' /\ GroupedTypes'
    BY <1>6 DEF GroupRange, WorldTypes, GroupedTypes
  <2>2. CASE Forget(Request)
    BY <2>1, <2>2, Forgotten
  <2>3. CASE /\ job[Request].commit + 1 \in Commit
             /\ Begin(Request, [job[Request] EXCEPT !.commit = @ + 1],
                      Without(base[Request], EvalErrors(Request) \cup ParentEvalErrors(Request)))
             /\ UNCHANGED <<missing, moved>>
    <3>1. /\ [job[Request] EXCEPT !.commit = @ + 1] \in Job /\ pc[Request] = "group"
          /\ Without(base[Request], EvalErrors(Request) \cup ParentEvalErrors(Request)) \in Bases
      BY <1>6, <2>3, IsBase DEF GroupRange, PhaseInv, Job, RunTypes
    <3> QED
      BY <2>1, <2>3, <3>1, Begun DEF RunTypes
  <2> QED
    BY <1>6, <2>2, <2>3 DEF GroupRange
<1>7. CASE GroupApply
  <2>1. RunTypes' /\ PhaseInv'
    BY <1>7, Forgotten DEF GroupApply
  <2> QED
    BY <1>7, <2>1 DEF GroupApply, WorldTypes, GroupedTypes
<1>8. ASSUME NEW n \in Node, Apply(n) PROVE TypeInv'
  <2>1. applied' \in [Node -> Commit] /\ UNCHANGED <<holder, noops, grouped, ns, lost>>
    BY <1>8 DEF Apply, WorldTypes
  <2>2. moved' \in [Run -> SUBSET Node]
    BY <1>8 DEF Apply, RunTypes
  <2>3. WorldTypes' /\ GroupedTypes'
    BY <1>8, <2>1, Spent DEF Apply, WorldTypes, GroupedTypes
  <2> QED
    BY <2>1, <2>2, <2>3 DEF RunTypes, PhaseInv, ns
<1>9. ASSUME NEW n \in Node, User(n) PROVE TypeInv'
  <2>1. WorldTypes' /\ GroupedTypes'
    BY <1>9, Spent DEF User, WorldTypes, GroupedTypes
  <2> QED
    BY <1>9, <2>1 DEF User, RunTypes, PhaseInv, ns
<1>10. CASE UNCHANGED vars
  BY <1>10 DEF vars, ns, RunTypes, WorldTypes, GroupedTypes, PhaseInv
<1> QED
  BY <1>1, <1>2, <1>3, <1>4, <1>5, <1>6, <1>7, <1>8, <1>9, <1>10 DEF Next, noop, Requests

LEMMA TypeInit == Init => TypeInv
<1> SUFFICES ASSUME Init PROVE TypeInv
  OBVIOUS
<1>1. NoBase \in Bases /\ NoReports \in NodeReports
  BY IsBase, IsReport
<1>2. RunTypes
  BY <1>1 DEF Init, RunTypes
<1>3. WorldTypes
  BY <1>1, NoopCacheAssumption DEF Init, WorldTypes
<1>4. GroupedTypes /\ PhaseInv
  BY DEF Init, GroupedTypes, PhaseInv, NotSaved
<1> QED
  BY <1>2, <1>3, <1>4 DEF TypeInv

\* Whatever is applied, locked, and asked for meanwhile, and whatever fails, the runs
\* keep their types, and a run that noops has a commit to noop.
THEOREM TypesHold == Spec => []TypeInv
BY TypeInit, TypeStep, PTL DEF Spec

\* The type invariant of the module.
THEOREM Typing == Spec => []TypeOK
BY TypesHold, TypeParts, PTL

-----------------------------------------------------------------------------
(* The locks of the nodes.                                                 *)

\* A run that starts, goes on with another commit or ends awaits what it awaited.
LEMMA AwaitsTheSame ==
  ASSUME TypeInv, NEW r \in Run,
         \/ \E j, b : Begin(r, j, b)
         \/ Forget(r) /\ waiting[r] = {}
  PROVE  waiting' = waiting
<1>1. CASE \E j, b : Begin(r, j, b)
  BY <1>1 DEF Begin
<1>2. CASE Forget(r) /\ waiting[r] = {}
  <2>1. waiting \in [Run -> SUBSET Node] /\ waiting' = [waiting EXCEPT ![r] = {}]
    BY <1>2 DEF Forget, TypeInv, RunTypes
  <2> QED
    BY <1>2, <2>1
<1> QED
  BY <1>1, <1>2

LEMMA LockStep == TypeInv /\ NoopLocks /\ [Next]_vars => NoopLocks'
<1> SUFFICES ASSUME TypeInv, NoopLocks, [Next]_vars PROVE NoopLocks'
  OBVIOUS
<1> USE DEF Run
<1>1. CASE waiting' = waiting /\ UNCHANGED <<holder, lost>>
  BY <1>1 DEF NoopLocks
<1>2. CASE StartRound \/ StartRange
  <2>1. \E r \in Run : \E j, b : Begin(r, j, b)
    BY <1>2 DEF StartRound, StartRange, Query
  <2> QED
    BY <1>1, <1>2, <2>1, AwaitsTheSame DEF StartRound, StartRange
<1>3. CASE StartApply
  <2>1. \E r \in Run : \E j, b : Begin(r, j, b)
    BY <1>3 DEF StartApply, Query
  <2>2. waiting' = waiting /\ lost' = lost
    BY <1>3, <2>1, AwaitsTheSame DEF StartApply
  <2>3. \A n \in Node : holder'[n] = "root" <=> holder[n] = "root"
    BY <1>3 DEF StartApply
  <2> QED
    BY <2>2, <2>3 DEF NoopLocks
<1>4. ASSUME NEW r \in Run, NEW n \in Node, Load(r, n) PROVE NoopLocks'
  <2>1. CASE UNCHANGED <<waiting, holder, lost>>
    BY <1>1, <2>1
  <2>2. CASE /\ holder[n] = "none" /\ holder' = [holder EXCEPT ![n] = "root"]
             /\ waiting' = [waiting EXCEPT ![r] = @ \cup {n}] /\ lost' = lost
    BY <2>2 DEF NoopLocks, TypeInv, RunTypes, WorldTypes
  <2>3. CASE /\ waiting' = waiting /\ lost' = lost \cup {n}
             /\ holder' \in {holder, [holder EXCEPT ![n] = IF @ = "none" THEN "root" ELSE @]}
    BY <2>3 DEF NoopLocks, TypeInv, RunTypes, WorldTypes
  <2> QED
    BY <1>4, <2>1, <2>2, <2>3 DEF Load
<1>5. ASSUME NEW r \in Run, NEW n \in Node, Reply(r, n) PROVE NoopLocks'
  <2>1. n \in waiting[r] /\ waiting' = [waiting EXCEPT ![r] = @ \ {n}]
    BY <1>5 DEF Reply
  <2>2. \/ holder' = [holder EXCEPT ![n] = "none"] /\ lost' = lost
        \/ holder' = holder /\ lost' = lost \cup {n}
    BY <1>5 DEF Reply
  <2> QED
    BY <2>1, <2>2 DEF NoopLocks, TypeInv, RunTypes, WorldTypes
<1>6. ASSUME NEW r \in Run, Nooped(r) PROVE NoopLocks'
  BY <1>1, <1>6, AwaitsTheSame DEF Nooped
<1>7. CASE GroupRound \/ GroupRange
  <2>1. waiting' = waiting
    BY <1>7, AwaitsTheSame DEF GroupRound, GroupRange, TypeInv, PhaseInv
  <2> QED
    BY <1>1, <1>7, <2>1 DEF GroupRound, GroupRange
<1>8. CASE GroupApply
  <2>1. waiting' = waiting /\ lost' = lost
    BY <1>8, AwaitsTheSame DEF GroupApply, TypeInv, PhaseInv
  <2>2. \A n \in Node : holder'[n] = "root" <=> holder[n] = "root"
    BY <1>8 DEF GroupApply
  <2> QED
    BY <2>1, <2>2 DEF NoopLocks
<1>9. ASSUME NEW n \in Node, Apply(n) \/ User(n) PROVE NoopLocks'
  <2>1. waiting' = waiting /\ lost' = lost
    BY <1>9 DEF Apply, User, ns
  <2>2. \A m \in Node : holder'[m] = "root" <=> holder[m] = "root"
    BY <1>9 DEF Apply, User, TypeInv, WorldTypes
  <2> QED
    BY <2>1, <2>2 DEF NoopLocks
<1>10. CASE UNCHANGED vars
  BY <1>1, <1>10 DEF vars, ns
<1> QED
  BY <1>2, <1>3, <1>4, <1>5, <1>6, <1>7, <1>8, <1>9, <1>10 DEF Next, noop, Requests, Step

\* A node is nooped by one run, with root's lock, and unlocked unless an RPC was lost,
\* however rounds and requests interleave on it and whatever of them fails.
THEOREM NodesAreUnlocked == Spec => []NoopLocks
<1>1. Init => NoopLocks
  BY DEF Init, NoopLocks, Run
<1> QED
  BY <1>1, TypesHold, LockStep, PTL DEF Spec

-----------------------------------------------------------------------------
(* The last apply that noops are taken against.                            *)

\* A node of run r to which nothing was applied since r read its last apply still has
\* it, and r's noops of the node, cached or fresh, were taken against it.
Fresh(r) ==
  \A n \in DOMAIN base[r] \ moved[r] :
    /\ base[r][n] = applied[n]
    /\ \A c \in Commit : reps[r][n][c].status = "ok" => reps[r][n][c].base = base[r][n]

BaseInv == \A r \in Run : Fresh(r)

\* What a run keeps changes with its own steps only.
Same(q) == /\ pc'[q] = pc[q] /\ job'[q] = job[q] /\ base'[q] = base[q] /\ start'[q] = start[q]
           /\ asking'[q] = asking[q] /\ left'[q] = left[q] /\ todo'[q] = todo[q]
           /\ waiting'[q] = waiting[q] /\ reps'[q] = reps[q] /\ moved'[q] = moved[q]

LEMMA OthersAreLeftAlone ==
  ASSUME TypeInv, NEW r \in Run, NEW q \in Run \ {r},
         \/ \E n \in Node : Load(r, n) \/ Reply(r, n)
         \/ Nooped(r) \/ Forget(r)
         \/ \E j, b : Begin(r, j, b) /\ moved' \in {moved, [moved EXCEPT ![r] = {}]}
  PROVE  Same(q)
<1> USE DEF TypeInv, RunTypes, Same
<1>1. CASE \E n \in Node : Load(r, n)
  BY <1>1 DEF Load, Drop
<1>2. CASE \E n \in Node : Reply(r, n)
  BY <1>2 DEF Reply, Drop
<1>3. CASE Nooped(r) \/ Forget(r)
  BY <1>3 DEF Nooped, Forget
<1>4. CASE \E j, b : Begin(r, j, b) /\ moved' \in {moved, [moved EXCEPT ![r] = {}]}
  BY <1>4 DEF Begin
<1> QED
  BY <1>1, <1>2, <1>3, <1>4

\* A run begins without noops.
LEMMA BegunReports ==
  ASSUME TypeInv, NEW r \in Run, NEW j, NEW b, Begin(r, j, b)
  PROVE  /\ base'[r] = b
         /\ \A n \in Node, c \in Commit : reps'[r][n][c] \in {EmptyReport, NoReport}
         /\ \A n \in Node, c \in Commit : reps'[r][n][c].status # "ok"
<1>1. base'[r] = b
  BY DEF Begin, TypeInv, RunTypes
<1>2. \A n \in Node, c \in Commit : reps'[r][n][c] \in {EmptyReport, NoReport}
  BY DEF Begin, TypeInv, RunTypes
<1> QED
  BY <1>1, <1>2 DEF EmptyReport, NoReport

LEMMA FreshKept ==
  ASSUME NEW q \in Run, Fresh(q), Same(q), applied' = applied
  PROVE  Fresh(q)'
BY DEF Fresh, Same

\* A run that begins has read the last applies, or goes on with what it had read.
LEMMA FreshBegun ==
  ASSUME TypeInv, BaseInv, NEW r \in Run, NEW j, NEW b \in Bases, Begin(r, j, b), applied' = applied,
         \/ moved' = [moved EXCEPT ![r] = {}] /\ \A n \in DOMAIN b : b[n] = applied[n]
         \/ moved' = moved /\ \E S : b = Without(base[r], S)
  PROVE  BaseInv'
<1>1. \A n \in DOMAIN b \ moved'[r] : b[n] = applied[n]
  <2>1. CASE moved' = [moved EXCEPT ![r] = {}] /\ \A n \in DOMAIN b : b[n] = applied[n]
    BY <2>1
  <2>2. ASSUME moved' = moved, NEW S, b = Without(base[r], S)
        PROVE  \A n \in DOMAIN b \ moved'[r] : b[n] = applied[n]
    BY <2>2 DEF Without, BaseInv, Fresh
  <2> QED
    BY <2>1, <2>2
<1>2. Fresh(r)'
  BY <1>1, BegunReports, IsBase DEF Fresh
<1>3. \A q \in Run \ {r} : Same(q)
  BY OthersAreLeftAlone
<1> QED
  BY <1>2, <1>3, FreshKept DEF BaseInv

\* A noop that counts was taken against the last apply.
LEMMA LoadFresh ==
  ASSUME TypeInv, BaseInv, NEW r \in Run, NEW n \in Node, Load(r, n)
  PROVE  BaseInv'
<1>1. /\ n \in todo[r] /\ asking[r] \in Commit /\ n \in DOMAIN base[r]
      /\ applied' = applied /\ moved' = moved
  BY DEF Load, TypeInv, RunTypes, PhaseInv
<1>2. CASE /\ base' = base
           /\ reps' = [reps EXCEPT ![r][n][asking[r]] = loadNoop(n, asking[r], base[r][n])]
  <2> DEFINE rep == loadNoop(n, asking[r], base[r][n])
  <2>1. rep \in Report \cup {NoReport}
    BY <1>1, Loaded, IsBase DEF TypeInv, RunTypes
  <2>2. rep.status = "ok" => rep.base = base[r][n]
    BY DEF loadNoop, EmptyReport, NoReport
  <2> HIDE DEF rep
  <2>3. /\ reps'[r][n][asking[r]] = rep
        /\ \A m \in Node, c \in Commit : <<m, c>> # <<n, asking[r]>> => reps'[r][m][c] = reps[r][m][c]
    BY <1>1, <1>2 DEF rep, TypeInv, RunTypes, NodeReports
  <2>4. Fresh(r)'
    BY <1>1, <1>2, <2>2, <2>3, IsBase DEF Fresh, BaseInv, TypeInv, RunTypes
  <2> QED
    BY <1>1, <2>4, OthersAreLeftAlone, FreshKept DEF BaseInv
<1>3. CASE base' = base /\ reps' = reps
  BY <1>1, <1>3 DEF BaseInv, Fresh
<1>4. ASSUME NEW why \in {"locked", "errored"}, Drop(r, n, why), reps' = reps PROVE BaseInv'
  <2>1. Fresh(r)'
    BY <1>1, <1>4, Dropped DEF Fresh, BaseInv, TypeInv
  <2> QED
    BY <1>1, <2>1, OthersAreLeftAlone, FreshKept DEF BaseInv
<1> QED
  BY <1>2, <1>3, <1>4 DEF Load

LEMMA ReplyFresh ==
  ASSUME TypeInv, BaseInv, NEW r \in Run, NEW n \in Node, Reply(r, n)
  PROVE  BaseInv'
<1>1. /\ n \in waiting[r] /\ asking[r] \in Commit /\ n \in DOMAIN base[r]
      /\ applied' = applied /\ moved' = moved
  BY DEF Reply, TypeInv, RunTypes, PhaseInv
<1> DEFINE rep == Noop(Evaluates(asking[r], n), applied[n])
<1>2. CASE base' = base /\ reps' = [reps EXCEPT ![r][n][asking[r]] = rep]
  <2>1. rep.status = "ok" => rep.base = applied[n]
    BY DEF Noop
  <2> HIDE DEF rep
  <2>2. /\ reps'[r][n][asking[r]] = rep
        /\ \A m \in Node, c \in Commit : <<m, c>> # <<n, asking[r]>> => reps'[r][m][c] = reps[r][m][c]
    BY <1>1, <1>2 DEF rep, TypeInv, RunTypes, NodeReports
  <2>3. Fresh(r)'
    BY <1>1, <1>2, <2>1, <2>2, IsBase DEF Fresh, BaseInv, TypeInv, RunTypes
  <2> QED
    BY <1>1, <2>3, OthersAreLeftAlone, FreshKept DEF BaseInv
<1>3. CASE Drop(r, n, "errored") /\ reps' = reps
  <2>1. Fresh(r)'
    BY <1>1, <1>3, Dropped DEF Fresh, BaseInv, TypeInv
  <2> QED
    BY <1>1, <2>1, OthersAreLeftAlone, FreshKept DEF BaseInv
<1> QED
  BY <1>2, <1>3 DEF Reply

LEMMA FreshForgotten ==
  ASSUME TypeInv, BaseInv, NEW r \in Run, Forget(r), applied' = applied
  PROVE  BaseInv'
<1>1. base'[r] = NoBase
  BY DEF Forget, TypeInv, RunTypes
<1>2. Fresh(r)'
  BY <1>1, IsBase DEF Fresh
<1> QED
  BY <1>2, OthersAreLeftAlone, FreshKept DEF BaseInv

LEMMA FreshStep == TypeInv /\ BaseInv /\ [Next]_vars => BaseInv'
<1> SUFFICES ASSUME TypeInv, BaseInv, [Next]_vars PROVE BaseInv'
  OBVIOUS
<1> USE DEF Run
<1>1. ASSUME NEW r \in Run, NEW j, NEW b, NEW failing, NEW locked, Query(r, j, b, failing, locked),
             b \in Bases, \A n \in DOMAIN b : b[n] = applied[n], applied' = applied
      PROVE  BaseInv'
  BY <1>1, FreshBegun DEF Query
<1>2. CASE StartRound
  <2>1. \A S : \A n \in DOMAIN Without(applied, S) : Without(applied, S)[n] = applied[n]
    BY DEF Without
  <2> QED
    BY <1>1, <1>2, <2>1, IsRead DEF StartRound, TypeInv, WorldTypes
<1>3. CASE StartRange
  <2>1. PICK c \in Asked, n \in Node :
          Query(Request, [commit |-> c, delta |-> TRUE, kind |-> "range"],
                [i \in {n} \ (Locked \cap {n}) |-> applied[i]], {}, Locked \cap {n})
    BY <1>3 DEF StartRange
  <2>2. [i \in {n} \ (Locked \cap {n}) |-> applied[i]] \in Bases
    BY IsRead DEF TypeInv, WorldTypes
  <2> QED
    BY <1>1, <1>3, <2>1, <2>2 DEF StartRange
<1>4. CASE StartApply
  <2>1. PICK c \in Asked, n \in Node, delta \in BOOLEAN :
          LET locked == {i \in {n} : holder[i] # "none"}
          IN Query(Request, [commit |-> c, delta |-> delta, kind |-> "apply"],
                   [i \in {n} \ locked |-> applied[i]], {}, locked)
    BY <1>4 DEF StartApply
  <2> DEFINE locked == {i \in {n} : holder[i] # "none"}
  <2>2. [i \in {n} \ locked |-> applied[i]] \in Bases
    <3> HIDE DEF locked
    <3>1. {n} \ locked \in SUBSET Node
      OBVIOUS
    <3> QED
      BY <3>1, IsRead DEF TypeInv, WorldTypes
  <2> QED
    BY <1>1, <1>4, <2>1, <2>2 DEF StartApply
<1>5. ASSUME NEW r \in Run, NEW n \in Node, Load(r, n) \/ Reply(r, n) PROVE BaseInv'
  BY <1>5, LoadFresh, ReplyFresh
<1>6. ASSUME NEW r \in Run, Nooped(r) PROVE BaseInv'
  <2>1. CASE Forget(r)
    BY <1>6, <2>1, FreshForgotten DEF Nooped
  <2>2. CASE UNCHANGED <<base, reps, moved>>
    BY <1>6, <2>2 DEF Nooped, BaseInv, Fresh
  <2> QED
    BY <1>6, <2>1, <2>2 DEF Nooped
<1>7. CASE GroupRound \/ GroupApply
  BY <1>7, FreshForgotten DEF GroupRound, GroupApply
<1>8. CASE GroupRange
  <2>1. CASE Forget(Request)
    BY <1>8, <2>1, FreshForgotten DEF GroupRange
  <2>2. ASSUME NEW j, NEW S, Begin(Request, j, Without(base[Request], S)), moved' = moved
        PROVE  BaseInv'
    <3>1. Without(base[Request], S) \in Bases
      BY IsBase DEF TypeInv, RunTypes
    <3> QED
      BY <1>8, <2>2, <3>1, FreshBegun DEF GroupRange
  <2> QED
    BY <1>8, <2>1, <2>2 DEF GroupRange
<1>9. ASSUME NEW n \in Node, Apply(n) PROVE BaseInv'
  <2>1. /\ base' = base /\ reps' = reps
        /\ \A m \in Node \ {n} : applied'[m] = applied[m]
        /\ \A r \in Run : moved'[r] = IF n \in DOMAIN base[r] THEN moved[r] \cup {n} ELSE moved[r]
    BY <1>9 DEF Apply, ns, TypeInv, WorldTypes
  <2> QED
    BY <2>1, IsBase DEF BaseInv, Fresh, TypeInv, RunTypes
<1>10. ASSUME NEW n \in Node, User(n) PROVE BaseInv'
  BY <1>10 DEF User, ns, BaseInv, Fresh
<1>11. CASE UNCHANGED vars
  BY <1>11 DEF vars, ns, BaseInv, Fresh
<1> QED
  BY <1>2, <1>3, <1>4, <1>5, <1>6, <1>7, <1>8, <1>9, <1>10, <1>11 DEF Next, noop, Requests, Step

\* All noops that a delta is made of were taken against one last apply, for every history
\* and every order in which noops are saved, used again and outdated by applies.
THEOREM DeltasHaveOneBase == Spec => []SameBase
<1>1. Init => BaseInv
  BY IsBase DEF Init, BaseInv, Fresh
<1>2. BaseInv => SameBase
  BY DEF BaseInv, Fresh, SameBase
<1> QED
  BY <1>1, <1>2, TypesHold, FreshStep, PTL DEF Spec

-----------------------------------------------------------------------------
(* The reports that a delta is made of.                                    *)

Wanted(r) == {job[r].commit} \cup Parents[job[r].commit]
Possible(r) == job[r].delta => commitInAllNodeLineages(job[r].commit, start[r])

\* Of each wanted commit a node that is still active has a report, unless it is to be
\* nooped later, or is being nooped and the node has not answered.
Served(r) ==
  /\ pc[r] = "noop" =>
       \A n \in DOMAIN base[r], c \in Wanted(r) :
         \/ reps[r][n][c] # NoReport \/ c \in left[r]
         \/ c = asking[r] /\ n \in todo[r] \cup waiting[r]
  /\ pc[r] = "group" /\ Possible(r) =>
       \A n \in DOMAIN base[r], c \in Wanted(r) : reps[r][n][c] # NoReport

ServedInv == \A r \in Run : Served(r)

LEMMA ServedKept ==
  ASSUME NEW q \in Run, Served(q), Same(q)
  PROVE  Served(q)'
<1>1. Wanted(q)' = Wanted(q) /\ (Possible(q)' <=> Possible(q))
  BY DEF Same, Wanted, Possible
<1> QED
  BY <1>1 DEF Served, Same

LEMMA AreWanted ==
  ASSUME TypeInv, NEW r \in Run, pc[r] # "idle"
  PROVE  job[r].commit \in Commit /\ Wanted(r) \subseteq Commit
BY DeltaNoopAssumption DEF TypeInv, PhaseInv, Job, Wanted

\* Parents that are not nooped have their empty report from the beginning.
LEMMA ServedBegun ==
  ASSUME TypeInv, ServedInv, NEW r \in Run, NEW j \in Job, NEW b \in Bases, Begin(r, j, b),
         moved' \in {moved, [moved EXCEPT ![r] = {}]}
  PROVE  ServedInv'
<1> DEFINE possible == j.delta => commitInAllNodeLineages(j.commit, b)
<1>1. j.commit \in Commit /\ Parents[j.commit] \subseteq Commit /\ DOMAIN b \subseteq Node
  BY DeltaNoopAssumption, IsBase DEF Job
<1>2. /\ pc'[r] = IF possible THEN "noop" ELSE "group"
      /\ job'[r] = j /\ base'[r] = b /\ start'[r] = b
      /\ asking'[r] = IF possible THEN j.commit ELSE None
      /\ left'[r] = IF possible THEN ParentsToNoop(j, b) ELSE {}
      /\ todo'[r] = IF possible THEN DOMAIN b ELSE {}
  BY DEF Begin, TypeInv, RunTypes
<1>3. \A n \in Node, c \in Commit :
        reps'[r][n][c] = IF possible /\ n \in DOMAIN b /\ c \in Parents[j.commit] \ ParentsToNoop(j, b)
                         THEN EmptyReport ELSE NoReport
  BY DEF Begin, TypeInv, RunTypes
<1>4. Wanted(r)' = {j.commit} \cup Parents[j.commit] /\ (Possible(r)' <=> possible)
  BY <1>2 DEF Wanted, Possible
<1> HIDE DEF possible
<1>5. Served(r)'
  BY <1>1, <1>2, <1>3, <1>4, IsReport DEF Served
<1>6. \A q \in Run \ {r} : Same(q)
  BY OthersAreLeftAlone
<1> QED
  BY <1>5, <1>6, ServedKept DEF ServedInv

LEMMA ServedForgotten ==
  ASSUME TypeInv, ServedInv, NEW r \in Run, Forget(r)
  PROVE  ServedInv'
<1>1. Served(r)'
  BY DEF Forget, TypeInv, RunTypes, Served
<1>2. \A q \in Run \ {r} : Same(q)
  BY OthersAreLeftAlone
<1> QED
  BY <1>1, <1>2, ServedKept DEF ServedInv

\* A node that leaves todo has a report, is awaited, or is dropped.
LEMMA ServedLoad ==
  ASSUME TypeInv, ServedInv, NEW r \in Run, NEW n \in Node, Load(r, n) \/ Reply(r, n)
  PROVE  ServedInv'
<1>1. /\ pc[r] = "noop" /\ asking[r] \in Commit /\ n \in DOMAIN base[r]
      /\ pc' = pc /\ job' = job /\ start' = start /\ asking' = asking /\ left' = left
  BY DEF Load, Reply, TypeInv, RunTypes, PhaseInv
<1>2. Wanted(r)' = Wanted(r) /\ Wanted(r) \subseteq Commit /\ DOMAIN base[r] \subseteq Node
  BY <1>1, AreWanted, IsBase DEF Wanted, TypeInv, RunTypes
<1>3. \A m \in Node \ {n} :
        m \in todo[r] \cup waiting[r] => m \in todo'[r] \cup waiting'[r]
  BY DEF Load, Reply, TypeInv, RunTypes
<1>4. ASSUME NEW rep, rep # NoReport, reps' = [reps EXCEPT ![r][n][asking[r]] = rep], base' = base
      PROVE  Served(r)'
  <2>1. /\ reps'[r][n][asking[r]] = rep
        /\ \A m \in Node, c \in Commit : <<m, c>> # <<n, asking[r]>> => reps'[r][m][c] = reps[r][m][c]
    BY <1>1, <1>4 DEF TypeInv, RunTypes, NodeReports
  <2> QED
    BY <1>1, <1>2, <1>3, <1>4, <2>1 DEF Served, ServedInv
<1>5. ASSUME reps' = reps, base' = base, n \in waiting'[r] PROVE Served(r)'
  BY <1>1, <1>2, <1>3, <1>5 DEF Served, ServedInv
<1>6. ASSUME reps' = reps, NEW why \in {"locked", "errored"}, Drop(r, n, why) PROVE Served(r)'
  <2>1. DOMAIN base'[r] = DOMAIN base[r] \ {n}
    BY <1>6, Dropped DEF TypeInv
  <2> QED
    BY <1>1, <1>2, <1>3, <1>6, <2>1 DEF Served, ServedInv
<1>7. Served(r)'
  <2>1. CASE Load(r, n)
    <3>1. CASE waiting' = [waiting EXCEPT ![r] = @ \cup {n}] /\ reps' = reps /\ base' = base
      BY <1>5, <3>1 DEF TypeInv, RunTypes
    <3> QED
      BY <1>4, <1>6, <2>1, <3>1 DEF Load
  <2>2. CASE Reply(r, n)
    <3>1. Noop(Evaluates(asking[r], n), applied[n]) # NoReport
      BY DEF Noop, NoReport
    <3> QED
      BY <1>4, <1>6, <2>2, <3>1 DEF Reply
  <2> QED
    BY <2>1, <2>2
<1>8. \A q \in Run \ {r} : Same(q)
  BY OthersAreLeftAlone
<1> QED
  BY <1>7, <1>8, ServedKept DEF ServedInv

LEMMA ServedNooped ==
  ASSUME TypeInv, ServedInv, NEW r \in Run, Nooped(r)
  PROVE  ServedInv'
<1>1. CASE Forget(r)
  BY <1>1, ServedForgotten
<1>2. CASE /\ left[r] # {}
           /\ asking' = [asking EXCEPT ![r] = Least(left[r])]
           /\ left' = [left EXCEPT ![r] = @ \ {Least(left[r])}]
           /\ todo' = [todo EXCEPT ![r] = DOMAIN base[r]]
           /\ UNCHANGED <<pc, job, base, start, waiting, reps>>
  <2>1. /\ Wanted(r)' = Wanted(r) /\ pc[r] = "noop" /\ todo[r] = {} /\ waiting[r] = {}
        /\ asking'[r] = Least(left[r]) /\ left'[r] = left[r] \ {Least(left[r])}
        /\ todo'[r] = DOMAIN base[r]
    BY <1>2 DEF Nooped, Wanted, TypeInv, RunTypes
  <2>2. Served(r)'
    BY <1>2, <2>1 DEF Served, ServedInv
  <2> QED
    BY <2>2, OthersAreLeftAlone, ServedKept DEF ServedInv
<1>3. CASE /\ left[r] = {} /\ pc' = [pc EXCEPT ![r] = "group"]
           /\ UNCHANGED <<job, base, start, reps>>
  <2>1. /\ Wanted(r)' = Wanted(r) /\ pc[r] = "noop" /\ todo[r] = {} /\ waiting[r] = {}
        /\ pc'[r] = "group"
    BY <1>3 DEF Nooped, Wanted, TypeInv, RunTypes
  <2>2. Served(r)'
    BY <1>3, <2>1 DEF Served, ServedInv
  <2> QED
    BY <2>2, OthersAreLeftAlone, ServedKept DEF ServedInv
<1> QED
  BY <1>1, <1>2, <1>3 DEF Nooped

LEMMA ServedStep == TypeInv /\ ServedInv /\ [Next]_vars => ServedInv'
<1> SUFFICES ASSUME TypeInv, ServedInv, [Next]_vars PROVE ServedInv'
  OBVIOUS
<1> USE DEF Run
<1>1. ASSUME NEW r \in Run, NEW j \in Job, NEW b \in Bases, NEW failing, NEW locked,
             Query(r, j, b, failing, locked)
      PROVE  ServedInv'
  BY <1>1, ServedBegun DEF Query
<1>2. CASE StartRound
  <2>1. PICK c \in Commit, failing \in SUBSET (Node \ Locked) :
          Query(Round, [commit |-> c, delta |-> TRUE, kind |-> "round"],
                Without(applied, failing \cup Locked), failing, Locked)
    BY <1>2 DEF StartRound
  <2> QED
    BY <1>1, <2>1, IsRead, IsJob DEF TypeInv, WorldTypes
<1>3. CASE StartRange
  <2>1. PICK c \in Asked, n \in Node :
          Query(Request, [commit |-> c, delta |-> TRUE, kind |-> "range"],
                [i \in {n} \ (Locked \cap {n}) |-> applied[i]], {}, Locked \cap {n})
    BY <1>3 DEF StartRange
  <2>2. /\ [i \in {n} \ (Locked \cap {n}) |-> applied[i]] \in Bases
        /\ [commit |-> c, delta |-> TRUE, kind |-> "range"] \in Job
    BY IsRead, IsJob, NoopCacheAssumption DEF TypeInv, WorldTypes
  <2> QED
    BY <1>1, <2>1, <2>2
<1>4. CASE StartApply
  <2>1. PICK c \in Asked, n \in Node, delta \in BOOLEAN :
          LET locked == {i \in {n} : holder[i] # "none"}
          IN Query(Request, [commit |-> c, delta |-> delta, kind |-> "apply"],
                   [i \in {n} \ locked |-> applied[i]], {}, locked)
    BY <1>4 DEF StartApply
  <2> DEFINE locked == {i \in {n} : holder[i] # "none"}
  <2>2. /\ [i \in {n} \ locked |-> applied[i]] \in Bases
        /\ [commit |-> c, delta |-> delta, kind |-> "apply"] \in Job
    <3> HIDE DEF locked
    <3>1. {n} \ locked \in SUBSET Node
      OBVIOUS
    <3> QED
      BY <3>1, IsRead, IsJob, NoopCacheAssumption DEF TypeInv, WorldTypes
  <2> QED
    BY <1>1, <2>1, <2>2
<1>5. ASSUME NEW r \in Run, Step(r) PROVE ServedInv'
  BY <1>5, ServedLoad, ServedNooped DEF Step
<1>6. CASE GroupRound \/ GroupApply
  BY <1>6, ServedForgotten DEF GroupRound, GroupApply
<1>7. CASE GroupRange
  <2>1. CASE Forget(Request)
    BY <2>1, ServedForgotten
  <2>2. ASSUME NEW S, job[Request].commit + 1 \in Commit, moved' = moved,
               Begin(Request, [job[Request] EXCEPT !.commit = @ + 1], Without(base[Request], S))
        PROVE  ServedInv'
    <3>1. /\ Without(base[Request], S) \in Bases
          /\ [job[Request] EXCEPT !.commit = @ + 1] \in Job
      BY <1>7, <2>2, IsBase DEF GroupRange, TypeInv, RunTypes, PhaseInv, Job
    <3> QED
      BY <2>2, <3>1, ServedBegun
  <2> QED
    BY <1>7, <2>1, <2>2 DEF GroupRange
<1>8. ASSUME NEW n \in Node, Apply(n) \/ User(n) PROVE ServedInv'
  <2>1. UNCHANGED ns
    BY <1>8 DEF Apply, User
  <2> QED
    BY <2>1 DEF ns, ServedInv, Served, Wanted, Possible
<1>9. CASE UNCHANGED vars
  BY <1>9 DEF vars, ns, ServedInv, Served, Wanted, Possible
<1> QED
  BY <1>2, <1>3, <1>4, <1>5, <1>6, <1>7, <1>8, <1>9 DEF Next, noop, Requests

\* A delta finds the noops of its commit and of all parents on every node that is left,
\* on any history: hecklerd never stops for a missing one.
THEOREM NoReportIsMissing == Spec => []ReportsThere
<1>1. Init => ServedInv
  BY DEF Init, ServedInv, Served
<1>2. ServedInv => ReportsThere
  BY DEF ServedInv, Served, Possible, Wanted, ReportsThere
<1> QED
  BY <1>1, <1>2, TypesHold, ServedStep, PTL DEF Spec
-----------------------------------------------------------------------------
(* What grouped reports list.                                              *)

\* The commits that a run noops.
NoopsOf(r) == {job[r].commit} \cup ParentsToNoop(job[r], start[r])

\* A node that is left keeps the last apply read at the start.  Only what the run noops,
\* and the node does not have, is nooped on it; an empty report is one of a commit that
\* the node has, or of a parent that is not nooped.
Kind(r) ==
  /\ \A n \in DOMAIN base[r] : n \in DOMAIN start[r] /\ base[r][n] = start[r][n]
  /\ pc[r] = "noop" => asking[r] \in NoopsOf(r) /\ left[r] \subseteq NoopsOf(r)
  /\ \A n \in waiting[r] : asking[r] \notin Lineage[base[r][n]]
  /\ \A n \in DOMAIN base[r], c \in Commit :
       /\ reps[r][n][c].status = "ok" => c \in NoopsOf(r) /\ c \notin Lineage[base[r][n]]
       /\ reps[r][n][c].status = "empty" =>
            \/ c \in Lineage[base[r][n]]
            \/ c \in Parents[job[r].commit] \ ParentsToNoop(job[r], start[r])

\* Empty reports are not saved, and noop() makes deltas.
KindInv == /\ \A r \in Run : Kind(r)
           /\ \A n \in Node, c \in Commit : noops[n][c].status # "empty"
           /\ pc[Round] # "idle" => job[Round].delta

LEMMA KindKept ==
  ASSUME NEW q \in Run, Kind(q), Same(q)
  PROVE  Kind(q)'
<1>1. NoopsOf(q)' = NoopsOf(q) /\ ParentsToNoop(job[q], start[q])' = ParentsToNoop(job[q], start[q])
  BY DEF Same, NoopsOf
<1> QED
  BY <1>1 DEF Kind, Same

LEMMA KindBegun ==
  ASSUME TypeInv, KindInv, NEW r \in Run, NEW j \in Job, NEW b \in Bases, Begin(r, j, b),
         pc[r] # "noop", moved' \in {moved, [moved EXCEPT ![r] = {}]},
         noops' = noops, r = Round => j.delta
  PROVE  KindInv'
<1> DEFINE possible == j.delta => commitInAllNodeLineages(j.commit, b)
<1>1. DOMAIN b \subseteq Node /\ waiting[r] = {}
  BY IsBase DEF TypeInv, PhaseInv
<1>2. /\ job'[r] = j /\ base'[r] = b /\ start'[r] = b /\ waiting' = waiting
      /\ asking'[r] = IF possible THEN j.commit ELSE None
      /\ left'[r] = IF possible THEN ParentsToNoop(j, b) ELSE {}
      /\ pc'[r] = IF possible THEN "noop" ELSE "group"
  BY DEF Begin, TypeInv, RunTypes
<1>3. \A n \in Node, c \in Commit :
        reps'[r][n][c] = IF possible /\ n \in DOMAIN b /\ c \in Parents[j.commit] \ ParentsToNoop(j, b)
                         THEN EmptyReport ELSE NoReport
  BY DEF Begin, TypeInv, RunTypes
<1>4. /\ NoopsOf(r)' = {j.commit} \cup ParentsToNoop(j, b)
      /\ ParentsToNoop(job[r], start[r])' = ParentsToNoop(j, b)
  BY <1>2 DEF NoopsOf
<1>5. EmptyReport.status = "empty" /\ NoReport.status = "none"
  BY DEF EmptyReport, NoReport
<1> HIDE DEF possible
<1>6. Kind(r)'
  BY <1>1, <1>2, <1>3, <1>4, <1>5 DEF Kind
<1>7. \A q \in Run \ {r} : Same(q)
  BY OthersAreLeftAlone
<1>8. (pc[Round] # "idle" => job[Round].delta)'
  BY <1>2, <1>7 DEF KindInv, Same, Run
<1> QED
  BY <1>6, <1>7, <1>8, KindKept DEF KindInv

LEMMA KindForgotten ==
  ASSUME TypeInv, KindInv, NEW r \in Run, Forget(r), noops' = noops
  PROVE  KindInv'
<1>1. pc'[r] = "idle" /\ base'[r] = NoBase /\ waiting'[r] = {}
  BY DEF Forget, TypeInv, RunTypes
<1>2. Kind(r)'
  BY <1>1, IsBase DEF Kind
<1>3. \A q \in Run \ {r} : Same(q)
  BY OthersAreLeftAlone
<1>4. (pc[Round] # "idle" => job[Round].delta)'
  BY <1>1, <1>3 DEF KindInv, Same, Run
<1> QED
  BY <1>2, <1>3, <1>4, KindKept DEF KindInv

\* A commit that the node has is not asked for, and only what was asked for is filed.
LEMMA KindLoad ==
  ASSUME TypeInv, KindInv, NEW r \in Run, NEW n \in Node, Load(r, n)
  PROVE  KindInv'
<1>1. /\ pc[r] = "noop" /\ asking[r] \in Commit /\ n \in DOMAIN base[r] /\ DOMAIN base[r] \subseteq Node
      /\ pc' = pc /\ job' = job /\ start' = start /\ asking' = asking /\ left' = left
      /\ noops' = noops
  BY IsBase DEF Load, TypeInv, RunTypes, PhaseInv
<1>2. /\ NoopsOf(r)' = NoopsOf(r) /\ asking[r] \in NoopsOf(r)
      /\ ParentsToNoop(job[r], start[r])' = ParentsToNoop(job[r], start[r])
  BY <1>1 DEF NoopsOf, KindInv, Kind
<1> DEFINE rep == loadNoop(n, asking[r], base[r][n])
<1>3. /\ rep.status = "ok" => asking[r] \notin Lineage[base[r][n]]
      /\ rep.status = "empty" => asking[r] \in Lineage[base[r][n]]
      /\ rep = NoReport => asking[r] \notin Lineage[base[r][n]]
  BY <1>1 DEF loadNoop, commitAlreadyApplied, EmptyReport, NoReport, KindInv
<1> HIDE DEF rep
<1>4. ASSUME reps' = [reps EXCEPT ![r][n][asking[r]] = rep], base' = base, waiting' = waiting
      PROVE  Kind(r)'
  <2>1. /\ reps'[r][n][asking[r]] = rep
        /\ \A m \in Node, c \in Commit : <<m, c>> # <<n, asking[r]>> => reps'[r][m][c] = reps[r][m][c]
    BY <1>1, <1>4 DEF TypeInv, RunTypes, NodeReports
  <2> QED
    BY <1>1, <1>2, <1>3, <1>4, <2>1 DEF Kind, KindInv
<1>5. ASSUME rep = NoReport, waiting' = [waiting EXCEPT ![r] = @ \cup {n}], base' = base,
             reps' = reps
      PROVE  Kind(r)'
  <2>1. waiting'[r] = waiting[r] \cup {n}
    BY <1>5 DEF TypeInv, RunTypes
  <2> QED
    BY <1>1, <1>2, <1>3, <1>5, <2>1 DEF Kind, KindInv
<1>6. ASSUME NEW why \in {"locked", "errored"}, Drop(r, n, why), reps' = reps, waiting' = waiting
      PROVE  Kind(r)'
  <2>1. /\ DOMAIN base'[r] = DOMAIN base[r] \ {n}
        /\ \A m \in DOMAIN base[r] \ {n} : base'[r][m] = base[r][m]
    BY <1>6, Dropped DEF TypeInv
  <2>2. waiting[r] \subseteq DOMAIN base[r] \ {n}
    BY DEF Load, TypeInv, RunTypes, PhaseInv
  <2> QED
    BY <1>1, <1>2, <1>6, <2>1, <2>2 DEF Kind, KindInv
<1>7. Kind(r)'
  BY <1>4, <1>5, <1>6 DEF Load, rep
<1>8. \A q \in Run \ {r} : Same(q)
  BY OthersAreLeftAlone
<1> QED
  BY <1>1, <1>7, <1>8, KindKept DEF KindInv

LEMMA KindReply ==
  ASSUME TypeInv, KindInv, NEW r \in Run, NEW n \in Node, Reply(r, n)
  PROVE  KindInv'
<1>1. /\ pc[r] = "noop" /\ asking[r] \in Commit /\ n \in DOMAIN base[r] /\ DOMAIN base[r] \subseteq Node
      /\ pc' = pc /\ job' = job /\ start' = start /\ asking' = asking /\ left' = left
      /\ n \in waiting[r] /\ waiting'[r] = waiting[r] \ {n}
  BY IsBase DEF Reply, TypeInv, RunTypes, PhaseInv
<1>2. /\ NoopsOf(r)' = NoopsOf(r) /\ asking[r] \in NoopsOf(r)
      /\ ParentsToNoop(job[r], start[r])' = ParentsToNoop(job[r], start[r])
      /\ asking[r] \notin Lineage[base[r][n]]
  BY <1>1 DEF NoopsOf, KindInv, Kind
<1> DEFINE rep == Noop(Evaluates(asking[r], n), applied[n])
<1>3. rep.status # "empty"
  BY DEF Noop
<1> HIDE DEF rep
<1>4. CASE /\ reps' = [reps EXCEPT ![r][n][asking[r]] = rep] /\ base' = base
           /\ noops' = [noops EXCEPT ![n][asking[r]] = rep]
  <2>1. /\ reps'[r][n][asking[r]] = rep
        /\ \A m \in Node, c \in Commit : <<m, c>> # <<n, asking[r]>> => reps'[r][m][c] = reps[r][m][c]
    BY <1>1, <1>4 DEF TypeInv, RunTypes, NodeReports
  <2>2. \A m \in Node, c \in Commit : noops'[m][c].status # "empty"
    BY <1>1, <1>3, <1>4 DEF KindInv, TypeInv, WorldTypes, NodeReports
  <2>3. Kind(r)'
    BY <1>1, <1>2, <1>3, <1>4, <2>1 DEF Kind, KindInv
  <2> QED
    BY <1>1, <2>2, <2>3, OthersAreLeftAlone, KindKept DEF KindInv
<1>5. CASE Drop(r, n, "errored") /\ reps' = reps /\ noops' = noops
  <2>1. /\ DOMAIN base'[r] = DOMAIN base[r] \ {n}
        /\ \A m \in DOMAIN base[r] \ {n} : base'[r][m] = base[r][m]
    BY <1>5, Dropped DEF TypeInv
  <2>2. waiting'[r] \subseteq DOMAIN base[r] \ {n}
    BY <1>1 DEF TypeInv, RunTypes
  <2>3. Kind(r)'
    BY <1>1, <1>2, <1>5, <2>1, <2>2 DEF Kind, KindInv
  <2> QED
    BY <1>1, <1>5, <2>3, OthersAreLeftAlone, KindKept DEF KindInv
<1> QED
  BY <1>4, <1>5 DEF Reply, rep

LEMMA KindNooped ==
  ASSUME TypeInv, KindInv, NEW r \in Run, Nooped(r)
  PROVE  KindInv'
<1>1. pc[r] = "noop" /\ waiting[r] = {} /\ noops' = noops
  BY DEF Nooped
<1>2. CASE Forget(r)
  BY <1>1, <1>2, KindForgotten
<1>3. CASE /\ left[r] # {}
           /\ asking' = [asking EXCEPT ![r] = Least(left[r])]
           /\ left' = [left EXCEPT ![r] = @ \ {Least(left[r])}]
           /\ UNCHANGED <<pc, job, base, start, waiting, reps>>
  <2>1. /\ NoopsOf(r)' = NoopsOf(r) /\ Least(left[r]) \in left[r]
        /\ ParentsToNoop(job[r], start[r])' = ParentsToNoop(job[r], start[r])
        /\ asking'[r] = Least(left[r]) /\ left'[r] = left[r] \ {Least(left[r])}
    BY <1>3, LeastOf DEF NoopsOf, TypeInv, RunTypes
  <2>2. Kind(r)'
    BY <1>1, <1>3, <2>1 DEF Kind, KindInv
  <2> QED
    BY <1>1, <1>3, <2>2, OthersAreLeftAlone, KindKept DEF KindInv
<1>4. CASE /\ pc' = [pc EXCEPT ![r] = "group"]
           /\ UNCHANGED <<job, base, start, waiting, reps>>
  <2>1. /\ NoopsOf(r)' = NoopsOf(r) /\ pc'[r] = "group"
        /\ ParentsToNoop(job[r], start[r])' = ParentsToNoop(job[r], start[r])
    BY <1>4 DEF NoopsOf, TypeInv, RunTypes
  <2>2. Kind(r)'
    BY <1>1, <1>4, <2>1 DEF Kind, KindInv
  <2>3. (pc[Round] # "idle" => job[Round].delta)'
    BY <1>1, <1>4 DEF KindInv, TypeInv, RunTypes
  <2> QED
    BY <1>1, <2>2, <2>3, OthersAreLeftAlone, KindKept DEF KindInv
<1> QED
  BY <1>2, <1>3, <1>4 DEF Nooped

LEMMA KindStep == TypeInv /\ KindInv /\ [Next]_vars => KindInv'
<1> SUFFICES ASSUME TypeInv, KindInv, [Next]_vars PROVE KindInv'
  OBVIOUS
<1> USE DEF Run
<1>1. ASSUME NEW r \in Run, NEW j \in Job, NEW b \in Bases, NEW failing, NEW locked,
             Query(r, j, b, failing, locked), pc[r] = "idle", noops' = noops, r = Round => j.delta
      PROVE  KindInv'
  BY <1>1, KindBegun DEF Query
<1>2. CASE StartRound
  <2>1. PICK c \in Commit, failing \in SUBSET (Node \ Locked) :
          Query(Round, [commit |-> c, delta |-> TRUE, kind |-> "round"],
                Without(applied, failing \cup Locked), failing, Locked)
    BY <1>2 DEF StartRound
  <2> QED
    BY <1>1, <1>2, <2>1, IsRead, IsJob DEF StartRound, TypeInv, WorldTypes
<1>3. CASE StartRange
  <2>1. PICK c \in Asked, n \in Node :
          Query(Request, [commit |-> c, delta |-> TRUE, kind |-> "range"],
                [i \in {n} \ (Locked \cap {n}) |-> applied[i]], {}, Locked \cap {n})
    BY <1>3 DEF StartRange
  <2>2. /\ [i \in {n} \ (Locked \cap {n}) |-> applied[i]] \in Bases
        /\ [commit |-> c, delta |-> TRUE, kind |-> "range"] \in Job
    BY IsRead, IsJob, NoopCacheAssumption DEF TypeInv, WorldTypes
  <2> QED
    BY <1>1, <1>3, <2>1, <2>2 DEF StartRange
<1>4. CASE StartApply
  <2>1. PICK c \in Asked, n \in Node, delta \in BOOLEAN :
          LET locked == {i \in {n} : holder[i] # "none"}
          IN Query(Request, [commit |-> c, delta |-> delta, kind |-> "apply"],
                   [i \in {n} \ locked |-> applied[i]], {}, locked)
    BY <1>4 DEF StartApply
  <2> DEFINE locked == {i \in {n} : holder[i] # "none"}
  <2>2. /\ [i \in {n} \ locked |-> applied[i]] \in Bases
        /\ [commit |-> c, delta |-> delta, kind |-> "apply"] \in Job
    <3> HIDE DEF locked
    <3>1. {n} \ locked \in SUBSET Node
      OBVIOUS
    <3> QED
      BY <3>1, IsRead, IsJob, NoopCacheAssumption DEF TypeInv, WorldTypes
  <2> QED
    BY <1>1, <1>4, <2>1, <2>2, NoopCacheAssumption DEF StartApply
<1>5. ASSUME NEW r \in Run, Step(r) PROVE KindInv'
  BY <1>5, KindLoad, KindReply, KindNooped DEF Step
<1>6. CASE GroupRound \/ GroupApply
  BY <1>6, KindForgotten DEF GroupRound, GroupApply
<1>7. CASE GroupRange
  <2>1. CASE Forget(Request)
    BY <1>7, <2>1, KindForgotten DEF GroupRange
  <2>2. ASSUME NEW S, job[Request].commit + 1 \in Commit, moved' = moved,
               Begin(Request, [job[Request] EXCEPT !.commit = @ + 1], Without(base[Request], S))
        PROVE  KindInv'
    <3>1. /\ Without(base[Request], S) \in Bases
          /\ [job[Request] EXCEPT !.commit = @ + 1] \in Job
      BY <1>7, <2>2, IsBase DEF GroupRange, TypeInv, RunTypes, PhaseInv, Job
    <3> QED
      BY <1>7, <2>2, <3>1, KindBegun, NoopCacheAssumption DEF GroupRange
  <2> QED
    BY <1>7, <2>1, <2>2 DEF GroupRange
<1>8. ASSUME UNCHANGED <<ns, noops>> PROVE KindInv'
  BY <1>8 DEF ns, KindInv, Kind, NoopsOf
<1>9. ASSUME NEW n \in Node, Apply(n) \/ User(n) PROVE KindInv'
  BY <1>8, <1>9 DEF Apply, User
<1>10. CASE UNCHANGED vars
  BY <1>8, <1>10 DEF vars
<1> QED
  BY <1>2, <1>3, <1>4, <1>5, <1>6, <1>7, <1>9, <1>10 DEF Next, noop, Requests
\* What the noop of commit c shows of a resource on a node at a last apply of b: a
\* change, or that changes refresh it.
Subtracted(p, n, b) == commitInAllNodeLineages(p, b) /\ p \notin Lineage[b[n]]
ShowsChange(c, n, r, b) ==
  /\ Catalog[b[n]][n][r] # Catalog[c][n][r]
  /\ \A p \in Parents[c] : Subtracted(p, n, b) => Catalog[p][n][r] # Catalog[c][n][r]
ShowsRefresh(c, n, r, b) ==
  /\ Refreshing(n, b[n], c, r) # {}
  /\ \A p \in Parents[c] : Subtracted(p, n, b) =>
       \/ Refreshing(n, b[n], p, r) = {}
       \/ Cardinality(Refreshing(n, b[n], p, r)) # Cardinality(Refreshing(n, b[n], c, r))

\* What a node is shown of a resource, unless the noops of the parents show the same.
ShowsOwn(c, n, r, b) ==
  /\ r \notin Ignored /\ c \notin Lineage[b[n]]
  /\ ShowsChange(c, n, r, b) \/ ShowsRefresh(c, n, r, b)

\* A saved report lists, of a node that took part, just this.
GroupedInv ==
  \A c \in Commit :
    /\ grouped[c].status = "notInAllLineages" => ~commitInAllNodeLineages(c, grouped[c].base)
    /\ grouped[c].status # "grouped" => grouped[c].done = {}
    /\ grouped[c].status = "grouped" =>
         \A n \in grouped[c].done :
           /\ n \in DOMAIN grouped[c].base /\ grouped[c].base[n] \in Commit
           /\ \A r \in Resource : Listed(c, n, r) <=> ShowsOwn(c, n, r, grouped[c].base)

\* A delta has the resources of which an event or a log is not a parent's.
LEMMA DeltaResources ==
  ASSUME NEW n, NEW c, NEW rep
  PROVE  /\ \A d \in subtractNoops(n, c, rep) : d.resource \in Resource
         /\ \A x \in Resource :
              (\E d \in subtractNoops(n, c, rep) : d.resource = x) <=>
                /\ x \notin Ignored
                /\ \/ \E e \in Events(n, c, rep[c]) : e.resource = x /\ ~priorEvent(e, n, c, rep)
                   \/ \E l \in Logs(n, c, rep[c]) : l.resource = x /\ ~priorLog(l, n, c, rep)
<1> DEFINE events == {e \in Events(n, c, rep[c]) : ~priorEvent(e, n, c, rep)}
           logs == {l \in Logs(n, c, rep[c]) : ~priorLog(l, n, c, rep)}
           D(x) == [resource |-> x, events |-> OfResource(events, x), logs |-> OfResource(logs, x)]
<1>1. subtractNoops(n, c, rep) = Shown({D(x) : x \in Resource \ Ignored})
  BY Zenon DEF subtractNoops
<1>2. \A x : /\ D(x).resource = x
             /\ D(x).events # {} <=> \E e \in events : e.resource = x
             /\ D(x).logs # {} <=> \E l \in logs : l.resource = x
  BY DEF OfResource
<1> HIDE DEF D
<1>3. ASSUME NEW d \in subtractNoops(n, c, rep)
      PROVE  \E x \in Resource \ Ignored : d = D(x) /\ (D(x).events # {} \/ D(x).logs # {})
  BY <1>1 DEF Shown
<1>4. ASSUME NEW x \in Resource \ Ignored, D(x).events # {} \/ D(x).logs # {}
      PROVE  D(x) \in subtractNoops(n, c, rep)
  BY <1>1, <1>4 DEF Shown
<1>5. \A x : /\ (\E e \in events : e.resource = x) <=>
                  \E e \in Events(n, c, rep[c]) : e.resource = x /\ ~priorEvent(e, n, c, rep)
             /\ (\E l \in logs : l.resource = x) <=>
                  \E l \in Logs(n, c, rep[c]) : l.resource = x /\ ~priorLog(l, n, c, rep)
  OBVIOUS
<1> HIDE DEF events, logs
<1> QED
  BY <1>2, <1>3, <1>4, <1>5

\* The one event and the one log that a noop may have of a resource.
LEMMA ShownOfResource ==
  ASSUME NEW n, NEW c, NEW rep, rep.status = "ok", NEW x \in Resource
  PROVE  /\ \A e \in Events(n, c, rep) : e.resource = x =>
              /\ e = [resource |-> x, previous |-> Catalog[rep.base][n][x], desired |-> Catalog[c][n][x]]
              /\ Catalog[rep.base][n][x] # Catalog[c][n][x]
         /\ Catalog[rep.base][n][x] # Catalog[c][n][x] =>
              [resource |-> x, previous |-> Catalog[rep.base][n][x], desired |-> Catalog[c][n][x]]
                \in Events(n, c, rep)
         /\ \A l \in Logs(n, c, rep) : l.resource = x =>
              /\ l = [resource |-> x, changes |-> Cardinality(Refreshing(n, rep.base, c, x))]
              /\ Refreshing(n, rep.base, c, x) # {}
         /\ Refreshing(n, rep.base, c, x) # {} =>
              [resource |-> x, changes |-> Cardinality(Refreshing(n, rep.base, c, x))] \in Logs(n, c, rep)
<1>1. Events(n, c, rep) =
        {[resource |-> r, previous |-> Catalog[rep.base][n][r], desired |-> Catalog[c][n][r]] :
           r \in {r \in Resource : Catalog[rep.base][n][r] # Catalog[c][n][r]}}
  BY Zenon DEF Events, Changed
<1>2. Logs(n, c, rep) =
        {[resource |-> r, changes |-> Cardinality(Refreshing(n, rep.base, c, r))] :
           r \in {r \in Resource : Refreshing(n, rep.base, c, r) # {}}}
  BY Zenon DEF Logs
<1> QED
  BY <1>1, <1>2

\* The delta of a node on which nothing was applied since the run asked for it.
LEMMA DeltaShowsOwn ==
  ASSUME TypeInv, BaseInv, ServedInv, KindInv, NEW r \in Run, pc[r] = "group",
         job[r].delta, Possible(r), NEW n \in Grouping(r) \ moved[r], NEW x \in Resource
  PROVE  (\E d \in subtractNoops(n, job[r].commit, reps[r][n]) : d.resource = x)
           <=> ShowsOwn(job[r].commit, n, x, start[r])
<1> DEFINE c == job[r].commit
           a == start[r][n]
           rep == reps[r][n]
           toNoop == ParentsToNoop(job[r], start[r])
<1>1. /\ n \in DOMAIN base[r] /\ n \in Node /\ n \notin moved[r] /\ base[r][n] = a
      /\ c \in Commit /\ a \in Commit /\ Wanted(r) \subseteq Commit
      /\ rep[c].status # "failed" /\ \A p \in Parents[c] : rep[p].status # "failed"
  BY AreWanted, IsBase DEF Grouping, EvalErrors, ParentEvalErrors, KindInv, Kind, TypeInv, RunTypes
<1>2. \A d \in Commit : rep[d] \in Report \cup {NoReport}
  BY <1>1 DEF TypeInv, RunTypes, NodeReports
<1>3. \A d \in Wanted(r) : rep[d].status \in {"ok", "empty"}
  <2>1. \A d \in Wanted(r) : rep[d] # NoReport
    BY <1>1 DEF ServedInv, Served
  <2> QED
    BY <1>1, <1>2, <2>1 DEF Wanted, Report
<1>4. \A d \in Commit : rep[d].status = "ok" =>
        rep[d].base = a /\ d \in {c} \cup toNoop /\ d \notin Lineage[a]
  BY <1>1 DEF BaseInv, Fresh, KindInv, Kind, NoopsOf
<1>5. \A d \in Commit : rep[d].status = "empty" => d \in Lineage[a] \/ d \in Parents[c] \ toNoop
  BY <1>1 DEF KindInv, Kind
<1>6. \A p \in Parents[c] : /\ p \in Commit /\ p # c
                            /\ p \in toNoop <=> commitInAllNodeLineages(p, start[r])
  <2> TAKE p \in Parents[c]
  <2>1. p \in Commit /\ p # c
    <3>1. p \in Commit /\ p < c
      BY <1>1, DeltaNoopAssumption
    <3>2. c \in Nat
      BY <1>1, DeltaNoopAssumption
    <3> HIDE DEF c
    <3> QED
      BY <3>1, <3>2
  <2>2. p \in toNoop <=> commitInAllNodeLineages(p, start[r])
    BY DEF ParentsToNoop
  <2> QED
    BY <2>1, <2>2
<1>7. rep[c].status = "ok" <=> c \notin Lineage[a]
  BY <1>1, <1>3, <1>4, <1>5, <1>6 DEF Wanted
<1>8. \A p \in Parents[c] :
        rep[p].status = "ok" <=> commitInAllNodeLineages(p, start[r]) /\ p \notin Lineage[a]
  BY <1>1, <1>3, <1>4, <1>5, <1>6 DEF Wanted
<1> HIDE DEF c, a, rep, toNoop
<1>9. rep[c].status = "ok" => rep[c].base = a
  BY <1>1, <1>4
<1>10. ASSUME NEW p \in Parents[c]
       PROVE  /\ p \in Commit /\ (rep[p].status = "ok" <=> Subtracted(p, n, start[r]))
              /\ rep[p].status = "ok" => rep[p].base = a
              /\ rep[p].status # "ok" => Events(n, p, rep[p]) = {} /\ Logs(n, p, rep[p]) = {}
  BY <1>4, <1>6, <1>8 DEF Subtracted, Events, Logs, a
<1> DEFINE Event(d) == [resource |-> x, previous |-> Catalog[a][n][x], desired |-> Catalog[d][n][x]]
           Log(d) == [resource |-> x, changes |-> Cardinality(Refreshing(n, a, d, x))]
<1>11. ASSUME NEW d \in Commit, rep[d].status = "ok", rep[d].base = a
       PROVE  /\ \A e \in Events(n, d, rep[d]) : e.resource = x =>
                   e = Event(d) /\ Catalog[a][n][x] # Catalog[d][n][x]
              /\ Catalog[a][n][x] # Catalog[d][n][x] => Event(d) \in Events(n, d, rep[d])
              /\ \A l \in Logs(n, d, rep[d]) : l.resource = x =>
                   l = Log(d) /\ Refreshing(n, a, d, x) # {}
              /\ Refreshing(n, a, d, x) # {} => Log(d) \in Logs(n, d, rep[d])
  BY <1>11, ShownOfResource
<1>12. \A d, e : /\ Event(d).resource = x /\ Log(d).resource = x
                 /\ Event(d) = Event(e) <=> Catalog[d][n][x] = Catalog[e][n][x]
                 /\ Log(d) = Log(e) <=>
                      Cardinality(Refreshing(n, a, d, x)) = Cardinality(Refreshing(n, a, e, x))
  OBVIOUS
<1> HIDE DEF Event, Log
<1>13. CASE rep[c].status # "ok"
  <2>1. Events(n, c, rep[c]) = {} /\ Logs(n, c, rep[c]) = {}
    BY <1>13 DEF Events, Logs
  <2>2. c \in Lineage[start[r][n]]
    BY <1>7, <1>13 DEF a
  <2> QED
    BY <2>1, <2>2, DeltaResources DEF ShowsOwn, c, rep
<1>14. CASE rep[c].status = "ok"
  <2>1. c \in Commit /\ c \notin Lineage[start[r][n]] /\ a = start[r][n]
    BY <1>1, <1>7, <1>14 DEF a
  <2>2. (\E e \in Events(n, c, rep[c]) : e.resource = x /\ ~priorEvent(e, n, c, rep))
          <=> ShowsChange(c, n, x, start[r])
    <3>1. (\E e \in Events(n, c, rep[c]) : e.resource = x /\ ~priorEvent(e, n, c, rep))
            <=> Catalog[a][n][x] # Catalog[c][n][x] /\ ~priorEvent(Event(c), n, c, rep)
      BY <1>9, <1>11, <1>12, <1>14, <2>1
    <3>2. ASSUME Catalog[a][n][x] # Catalog[c][n][x], NEW p \in Parents[c]
          PROVE  Event(c) \in Events(n, p, rep[p]) <=>
                   Subtracted(p, n, start[r]) /\ Catalog[p][n][x] = Catalog[c][n][x]
      <4>1. CASE rep[p].status # "ok"
        BY <1>10, <4>1
      <4>2. CASE rep[p].status = "ok"
        <5>1. p \in Commit /\ Subtracted(p, n, start[r]) /\ rep[p].base = a
          BY <1>10, <4>2
        <5>2. /\ Event(c) \in Events(n, p, rep[p]) => Event(c) = Event(p)
              /\ Catalog[a][n][x] # Catalog[p][n][x] => Event(p) \in Events(n, p, rep[p])
          BY <1>11, <1>12, <4>2, <5>1
        <5> QED
          BY <1>12, <3>2, <5>1, <5>2
      <4> QED
        BY <4>1, <4>2
    <3> QED
      BY <2>1, <3>1, <3>2 DEF ShowsChange, priorEvent
  <2>3. (\E l \in Logs(n, c, rep[c]) : l.resource = x /\ ~priorLog(l, n, c, rep))
          <=> ShowsRefresh(c, n, x, start[r])
    <3>1. (\E l \in Logs(n, c, rep[c]) : l.resource = x /\ ~priorLog(l, n, c, rep))
            <=> Refreshing(n, a, c, x) # {} /\ ~priorLog(Log(c), n, c, rep)
      BY <1>9, <1>11, <1>12, <1>14, <2>1
    <3>2. ASSUME NEW p \in Parents[c]
          PROVE  Log(c) \in Logs(n, p, rep[p]) <=>
                   /\ Subtracted(p, n, start[r]) /\ Refreshing(n, a, p, x) # {}
                   /\ Cardinality(Refreshing(n, a, p, x)) = Cardinality(Refreshing(n, a, c, x))
      <4>1. CASE rep[p].status # "ok"
        BY <1>10, <4>1
      <4>2. CASE rep[p].status = "ok"
        <5>1. p \in Commit /\ Subtracted(p, n, start[r]) /\ rep[p].base = a
          BY <1>10, <4>2
        <5>2. /\ Log(c) \in Logs(n, p, rep[p]) => Log(c) = Log(p) /\ Refreshing(n, a, p, x) # {}
              /\ Refreshing(n, a, p, x) # {} => Log(p) \in Logs(n, p, rep[p])
          BY <1>11, <1>12, <4>2, <5>1
        <5> QED
          BY <1>12, <5>1, <5>2
      <4> QED
        BY <4>1, <4>2
    <3> QED
      BY <2>1, <3>1, <3>2 DEF ShowsRefresh, priorLog
  <2> QED
    BY <2>1, <2>2, <2>3, DeltaResources DEF ShowsOwn, c, rep
<1> QED
  BY <1>13, <1>14 DEF c, rep

LEMMA ReportShowsOwn ==
  ASSUME TypeInv, BaseInv, ServedInv, KindInv, pc[Round] = "group",
         NEW g \in GroupedReports(Round)
  PROVE  LET c == job[Round].commit
         IN /\ g.base = start[Round]
            /\ g.status = "notInAllLineages" => ~commitInAllNodeLineages(c, g.base)
            /\ g.status # "grouped" => g.done = {}
            /\ g.status = "grouped" =>
                 \A n \in g.done :
                   /\ n \in DOMAIN g.base /\ g.base[n] \in Commit
                   /\ \A x \in Resource :
                        (\E k \in g.resources : k.shown.resource = x /\ n \in k.hosts)
                          <=> ShowsOwn(c, n, x, g.base)
<1> USE DEF Run
<1> DEFINE c == job[Round].commit
           delta == [n \in Grouping(Round) |-> subtractNoops(n, c, reps[Round][n])]
<1>1. /\ job[Round].delta /\ DOMAIN base[Round] \subseteq Node /\ start[Round] \in Bases
      /\ \A n \in DOMAIN base[Round] : n \in DOMAIN start[Round]
  BY IsBase DEF KindInv, Kind, TypeInv, RunTypes
<1>2. CASE ~Possible(Round)
  <2>1. g = [status |-> "notInAllLineages", base |-> start[Round], done |-> {}, resources |-> {}]
    BY <1>2, Zenon DEF GroupedReports, Possible
  <2> QED
    BY <1>2, <2>1 DEF Possible
<1>3. CASE Possible(Round)
  <2>1. PICK groups \in groupResources(delta) :
          g = [status |-> "grouped", base |-> start[Round],
               done |-> Grouping(Round) \ moved[Round], resources |-> groups]
    BY <1>3, Zenon DEF GroupedReports, Possible
  <2>2. ASSUME NEW m \in DOMAIN delta, NEW d \in delta[m] PROVE d.resource \in Resource
    <3>1. d \in subtractNoops(m, c, reps[Round][m])
      OBVIOUS
    <3> HIDE DEF c, delta
    <3> QED
      BY <3>1, DeltaResources
  <2>3. ASSUME NEW n \in Grouping(Round) \ moved[Round], NEW x \in Resource
        PROVE  (\E k \in groups : k.shown.resource = x /\ n \in k.hosts)
                 <=> ShowsOwn(c, n, x, start[Round])
    <3>1. n \in Node
      BY <1>1 DEF Grouping
    <3>2. (\E k \in groups : k.shown.resource = x /\ n \in k.hosts)
            <=> n \in DOMAIN delta /\ \E d \in delta[n] : d.resource = x
      <4> HIDE DEF delta
      <4> QED
        BY <2>1, <2>2, <3>1, GroupsListDeltas
    <3>3. (\E d \in subtractNoops(n, c, reps[Round][n]) : d.resource = x)
            <=> ShowsOwn(c, n, x, start[Round])
      BY <1>1, <1>3, DeltaShowsOwn
    <3> QED
      BY <3>2, <3>3
  <2>4. \A n \in Grouping(Round) : n \in DOMAIN start[Round] /\ start[Round][n] \in Commit
    BY <1>1, IsBase DEF Grouping
  <2> HIDE DEF c, delta
  <2> QED
    BY <2>1, <2>3, <2>4 DEF c
<1> QED
  BY <1>2, <1>3

LEMMA GroupedStep ==
  TypeInv /\ BaseInv /\ ServedInv /\ KindInv /\ GroupedInv /\ [Next]_vars => GroupedInv'
<1> SUFFICES ASSUME TypeInv, BaseInv, ServedInv, KindInv, GroupedInv, [Next]_vars
             PROVE  GroupedInv'
  OBVIOUS
<1>1. CASE UNCHANGED grouped
  BY <1>1 DEF GroupedInv, Listed
<1>2. CASE GroupRound
  <2>1. ASSUME NEW g \in GroupedReports(Round),
               grouped' = [grouped EXCEPT ![job[Round].commit] = g]
        PROVE  GroupedInv'
    <3>0. PICK c \in Commit : c = job[Round].commit
      BY <1>2, AreWanted DEF GroupRound, Run
    <3>1. /\ grouped'[c] = g /\ \A d \in Commit \ {c} : grouped'[d] = grouped[d]
          /\ pc[Round] = "group"
      BY <1>2, <2>1, <3>0 DEF GroupRound, TypeInv, GroupedTypes
    <3>2. /\ g.status = "notInAllLineages" => ~commitInAllNodeLineages(c, g.base)
          /\ g.status # "grouped" => g.done = {}
          /\ g.status = "grouped" =>
               \A n \in g.done :
                 /\ n \in DOMAIN g.base /\ g.base[n] \in Commit
                 /\ \A x \in Resource :
                      (\E k \in g.resources : k.shown.resource = x /\ n \in k.hosts)
                        <=> ShowsOwn(c, n, x, g.base)
      BY <2>1, <3>0, <3>1, ReportShowsOwn
    <3>3. \A n \in Node, x \in Resource :
            Listed(c, n, x)' <=> \E k \in g.resources : k.shown.resource = x /\ n \in k.hosts
      BY <3>1 DEF Listed
    <3>4. \A d \in Commit \ {c}, n \in Node, x \in Resource : Listed(d, n, x)' <=> Listed(d, n, x)
      BY <3>1 DEF Listed
    <3>5. g.done \subseteq Node
      BY <2>1, IsGrouped DEF Run, TypeInv
    <3> QED
      BY <3>1, <3>2, <3>3, <3>4, <3>5 DEF GroupedInv, TypeInv, GroupedTypes
  <2> QED
    BY <1>1, <1>2, <2>1 DEF GroupRound
<1>3. UNCHANGED grouped \/ GroupRound
  BY DEF Next, noop, Requests, StartRound, StartRange, StartApply, Step, Load, Reply, Nooped,
         GroupRange, GroupApply, Apply, User, vars
<1> QED
  BY <1>1, <1>2, <1>3

\* What runs keep and reports list, on every history.
LEMMA ReportsHold == Spec => [](TypeInv /\ GroupedInv)
<1>1. Init => BaseInv /\ ServedInv
  BY IsBase DEF Init, BaseInv, Fresh, ServedInv, Served
<1>2. Init => KindInv
  BY IsBase DEF Init, KindInv, Kind, NoReports, NoReport, Run
<1>3. Init => GroupedInv
  BY DEF Init, GroupedInv, NotSaved
<1> QED
  BY <1>1, <1>2, <1>3, TypesHold, FreshStep, ServedStep, KindStep, GroupedStep, PTL DEF Spec

\* No report lists a resource of a node that its commit leaves as a parent has it, with
\* all that would refresh it, when the node comes before that parent: for every history
\* with merges and branches, any catalogs, and whatever is applied, cached and asked for
\* meanwhile.
THEOREM OwnChangesOnly == Spec => []OnlyOwnChanges
<1>1. TypeInv /\ GroupedInv => OnlyOwnChanges
  <2> SUFFICES ASSUME GroupedInv, TypeInv, NEW c \in Commit, NEW n \in Node,
                      n \in grouped[c].done, NEW p \in Parents[c],
                      grouped[c].base[n] \in Lineage[p],
                      commitInAllNodeLineages(p, grouped[c].base),
                      NEW r \in Resource, Listed(c, n, r)
               PROVE  ~LeavesAs(c, p, n, r)
    BY DEF OnlyOwnChanges
  <2> DEFINE b == grouped[c].base
  <2>1. b[n] \in Commit /\ ShowsOwn(c, n, r, b)
    BY DEF GroupedInv
  <2>2. p \in Commit
    BY DeltaNoopAssumption
  <2>5. ASSUME LeavesAs(c, p, n, r)
        PROVE  /\ Catalog[c][n][r] = Catalog[p][n][r]
               /\ Refreshing(n, b[n], c, r) = Refreshing(n, b[n], p, r)
    BY <2>5 DEF LeavesAs, Refreshing, Changed
  <2>3. CASE p \in Lineage[b[n]]
    <3>1. p = b[n]
      BY <2>1, <2>2, <2>3, LineageAntisymmetric
    <3>2. Refreshing(n, b[n], b[n], r) = {}
      BY DEF Refreshing, Changed
    <3> QED
      BY <2>1, <2>5, <3>1, <3>2 DEF ShowsOwn, ShowsChange, ShowsRefresh
  <2>4. CASE p \notin Lineage[b[n]]
    <3>1. Subtracted(p, n, b)
      BY <2>4 DEF Subtracted
    <3> QED
      BY <2>1, <2>5, <3>1 DEF ShowsOwn, ShowsChange, ShowsRefresh
  <2> QED
    BY <2>3, <2>4
<1> QED
  BY <1>1, ReportsHold, PTL

\* The reports of the commits between a node's last apply and a commit list, together,
\* every change that an apply of the commit makes on the node: of the commits that set a
\* resource as the last one does, the first lists it, for its parents differ.
THEOREM ChangesAreListed == Spec => []ChangeIsListed
<1>1. TypeInv /\ GroupedInv => ChangeIsListed
  <2> SUFFICES ASSUME GroupedInv, TypeInv, NEW n \in Node, NEW c \in Commit, NEW b, NEW a,
                      b = grouped[c].base, a = applied[n],
                      grouped[c].status = "grouped", n \in DOMAIN b, b[n] = a,
                      a # c, a \in Lineage[c],
                      \A d \in Between(a, c) :
                        /\ grouped[d].status # "none" /\ grouped[d].base = b
                        /\ grouped[d].status = "grouped" => n \in grouped[d].done,
                      NEW r \in Resource \ Ignored, Catalog[c][n][r] # Catalog[a][n][r]
               PROVE  \E d \in Between(a, c) : Listed(d, n, r) /\ Catalog[d][n][r] = Catalog[c][n][r]
    BY DEF ChangeIsListed
  <2> DEFINE S == {d \in Between(a, c) : /\ Catalog[d][n][r] = Catalog[c][n][r]
                                         /\ grouped[d].status = "grouped"}
  <2>1. a \in Commit /\ Between(a, c) \subseteq Commit
    BY LineageOrder DEF TypeInv, WorldTypes, Between
  <2>2. c \in S
    BY OwnLineage DEF Between
  <2>3. PICK d \in S : \A e \in S : d <= e
    BY <2>1, <2>2, LeastCommit
  <2>4. /\ d \in Commit /\ d \in Between(a, c) /\ d \in Lineage[c] /\ a \in Lineage[d] /\ d # a
        /\ Catalog[d][n][r] = Catalog[c][n][r] /\ n \in grouped[d].done
        /\ grouped[d].base = b /\ grouped[d].status = "grouped"
    BY <2>1 DEF Between
  <2>5. d \notin Lineage[a]
    BY <2>1, <2>4, LineageAntisymmetric
  <2>6. ASSUME NEW p \in Parents[d], commitInAllNodeLineages(p, b), p \notin Lineage[a]
        PROVE  Catalog[p][n][r] # Catalog[d][n][r]
    <3>1. p \in Commit /\ p < d /\ p \in Lineage[d] /\ Lineage[d] \subseteq Lineage[c]
      BY <2>4, ParentsLineage, OwnLineage, LineageTransitive
    <3>2. a \in Lineage[p] /\ p # a
      BY <2>1, <2>6, OwnLineage DEF commitInAllNodeLineages, commitInNodeLineage
    <3>3. p \in Between(a, c)
      BY <3>1, <3>2 DEF Between
    <3>4. grouped[p].status = "grouped"
      BY <2>6, <3>1, <3>3 DEF GroupedInv, TypeInv, GroupedTypes
    <3>5. p \notin S
      BY <2>1, <2>3, <2>4, <3>1, DeltaNoopAssumption
    <3> QED
      BY <2>4, <3>3, <3>4, <3>5
  <2>7. ShowsOwn(d, n, r, b)
    BY <2>4, <2>5, <2>6 DEF ShowsOwn, ShowsChange, Subtracted
  <2>8. Listed(d, n, r)
    BY <2>4, <2>7 DEF GroupedInv
  <2> QED
    BY <2>4, <2>8
<1> QED
  BY <1>1, ReportsHold, PTL
-----------------------------------------------------------------------------
(* What is done once is not done again.                                    *)

\* A grouped report is for good, and so is the noop of a commit that did not evaluate
\* on a node.  Another noop is replaced, under the node's lock, only when the node's last
\* apply has moved since it was taken: no run, round or request, takes a noop that is there.
KeepsNoops ==
  /\ \A c \in Commit : grouped[c] # NotSaved => grouped'[c] = grouped[c]
  /\ \A n \in Node, c \in Commit :
       noops'[n][c] # noops[n][c] =>
         /\ holder[n] = "root"
         /\ noops[n][c].status # "failed" /\ noops[n][c].base # applied[n]
         /\ noops'[n][c] = Noop(Evaluates(c, n), applied[n])

NoopsAreKept == [][KeepsNoops]_vars

\* A noop that has succeeded would again, a run does not await a noop that has failed,
\* and noop() works on a commit that has no report.
KeptInv ==
  /\ \A n \in Node, c \in Commit : noops[n][c].status = "ok" => Evaluates(c, n)
  /\ \A r \in Run : \A n \in waiting[r] : noops[n][asking[r]].status # "failed"
  /\ pc[Round] # "idle" => grouped[job[Round].commit] = NotSaved

\* What does not evaluate does not change.
LEMMA BrokenStays ==
  ASSUME TypeInv, [Next]_vars
  PROVE  \A n, c : Evaluates(c, n)' <=> Evaluates(c, n)
<1>1. ASSUME NEW what \in {"applies", "requests", "failures"}, Spend(what)
      PROVE  budget'.broken = budget.broken
  BY <1>1 DEF Spend, TypeInv, WorldTypes
<1>2. ASSUME NEW r \in Run, NEW n \in Node, Load(r, n) \/ Reply(r, n)
      PROVE  budget'.broken = budget.broken
  BY <1>1, <1>2 DEF Load, Reply
<1>3. ASSUME \/ StartRound \/ StartRange \/ StartApply
             \/ \E r \in Run : Nooped(r)
             \/ GroupRound \/ GroupRange \/ GroupApply
      PROVE  budget'.broken = budget.broken
  <2>1. UNCHANGED budget \/ Spend("requests") \/ Spend("failures")
    BY <1>3 DEF StartRound, StartRange, StartApply, Query, Nooped, GroupRound, GroupRange, GroupApply
  <2> QED
    BY <1>1, <2>1
<1>4. ASSUME NEW n \in Node, Apply(n) \/ User(n) PROVE budget'.broken = budget.broken
  BY <1>1, <1>4 DEF Apply, User
<1>5. budget'.broken = budget.broken
  BY <1>2, <1>3, <1>4 DEF Next, noop, Requests, Step, Run, vars
<1> QED
  BY <1>5 DEF Evaluates

\* A run that begins with a commit, or ends, awaits nothing.
LEMMA KeptBegun ==
  ASSUME TypeInv, KeptInv, NEW r \in Run, waiting[r] = {},
         (\E j, b : Begin(r, j, b)) \/ Forget(r),
         UNCHANGED <<noops, grouped>>, \A n, c : Evaluates(c, n)' <=> Evaluates(c, n),
         r = Round => \/ Forget(r)
                      \/ \E j \in Job : \E b : Begin(r, j, b) /\ grouped[j.commit] = NotSaved
  PROVE  KeptInv'
<1>1. waiting' = waiting
  BY AwaitsTheSame
<1>2. \A q \in Run \ {r} : asking'[q] = asking[q] /\ pc'[q] = pc[q] /\ job'[q] = job[q]
  BY DEF Begin, Forget, TypeInv, RunTypes
<1>3. \A q \in Run : \A n \in waiting'[q] : noops'[n][asking'[q]].status # "failed"
  BY <1>1, <1>2 DEF KeptInv
<1>4. pc'[Round] # "idle" => grouped'[job'[Round].commit] = NotSaved
  <2>1. CASE r # Round
    BY <1>2, <2>1 DEF KeptInv, Run
  <2>2. CASE r = Round /\ Forget(r)
    BY <2>2 DEF Forget, TypeInv, RunTypes
  <2>3. ASSUME r = Round, NEW j \in Job, NEW b, Begin(r, j, b), grouped[j.commit] = NotSaved
        PROVE  grouped'[job'[Round].commit] = NotSaved
    BY <2>3 DEF Begin, TypeInv, RunTypes
  <2> QED
    BY <2>1, <2>2, <2>3
<1> QED
  BY <1>3, <1>4 DEF KeptInv

LEMMA KeptLoad ==
  ASSUME TypeInv, NoopLocks, KeptInv, NEW r \in Run, NEW n \in Node, Load(r, n),
         \A m, c : Evaluates(c, m)' <=> Evaluates(c, m)
  PROVE  KeptInv'
<1>1. /\ asking[r] \in Commit /\ pc[r] = "noop" /\ n \in todo[r]
      /\ UNCHANGED <<noops, grouped, pc, job, asking>>
  BY DEF Load, TypeInv, PhaseInv
<1>2. CASE waiting' = waiting
  BY <1>1, <1>2 DEF KeptInv
<1>3. CASE /\ loadNoop(n, asking[r], base[r][n]) = NoReport
           /\ waiting' = [waiting EXCEPT ![r] = @ \cup {n}]
  <2>1. noops[n][asking[r]].status # "failed"
    BY <1>3 DEF loadNoop, EmptyReport, NoReport
  <2>2. /\ waiting'[r] = waiting[r] \cup {n}
        /\ \A q \in Run \ {r} : waiting'[q] = waiting[q]
    BY <1>3 DEF TypeInv, RunTypes
  <2> QED
    BY <1>1, <2>1, <2>2 DEF KeptInv
<1> QED
  BY <1>2, <1>3 DEF Load

\* A reply replaces the noop it was asked for, which was against another last apply.
LEMMA KeptReply ==
  ASSUME TypeInv, NoopLocks, KeptInv, NEW r \in Run, NEW n \in Node, Reply(r, n),
         \A m, c : Evaluates(c, m)' <=> Evaluates(c, m)
  PROVE  KeptInv' /\ KeepsNoops
<1> DEFINE c == asking[r]
           rep == Noop(Evaluates(c, n), applied[n])
<1>1. /\ c \in Commit /\ n \in waiting[r] /\ applied[n] \in Commit /\ None \notin Commit
      /\ waiting' = [waiting EXCEPT ![r] = @ \ {n}]
      /\ UNCHANGED <<applied, grouped, pc, job, asking>>
  BY DeltaNoopAssumption DEF Reply, TypeInv, PhaseInv, WorldTypes, None
<1>2. holder[n] = "root" /\ noops[n][c].status # "failed"
  BY <1>1 DEF NoopLocks, KeptInv
<1>3. /\ \A q \in Run : waiting'[q] \subseteq waiting[q]
      /\ \A q \in Run : n \notin waiting'[q]
  BY <1>1 DEF NoopLocks, TypeInv, RunTypes
<1>4. pc'[Round] # "idle" => grouped'[job'[Round].commit] = NotSaved
  BY <1>1 DEF KeptInv
<1>5. CASE noops' = noops
  BY <1>1, <1>3, <1>4, <1>5 DEF KeptInv, KeepsNoops
<1>6. CASE noops' = [noops EXCEPT ![n][c] = rep]
  <2> HIDE DEF c, rep
  <2>1. /\ noops'[n][c] = rep
        /\ \A m \in Node, d \in Commit : <<m, d>> # <<n, c>> => noops'[m][d] = noops[m][d]
    BY <1>1, <1>6 DEF TypeInv, WorldTypes, NodeReports
  <2>2. rep.status = "ok" => Evaluates(c, n)
    BY DEF rep, Noop
  <2>3. \A m \in Node, d \in Commit : noops'[m][d].status = "ok" => Evaluates(d, m)'
    BY <2>1, <2>2 DEF KeptInv
  <2>4. \A q \in Run : \A m \in waiting'[q] : asking[q] \in Commit /\ m \in Node
    BY <1>3 DEF TypeInv, PhaseInv, RunTypes
  <2>5. \A q \in Run : \A m \in waiting'[q] : noops'[m][asking'[q]].status # "failed"
    BY <1>1, <1>3, <2>1, <2>4 DEF KeptInv
  <2>6. noops[n][c].base = applied[n] => rep = noops[n][c]
    <3>1. noops[n][c] \in Report \cup {NoReport}
      BY <1>1 DEF TypeInv, WorldTypes, NodeReports
    <3>2. ASSUME noops[n][c].base = applied[n]
          PROVE  noops[n][c] = [status |-> "ok", base |-> applied[n]]
      BY <1>1, <3>1, <3>2 DEF Report, NoReport
    <3> QED
      BY <1>1, <3>2 DEF KeptInv, rep, Noop
  <2>7. KeepsNoops
    BY <1>1, <1>2, <2>1, <2>6 DEF KeepsNoops, rep
  <2> QED
    BY <1>4, <2>3, <2>5, <2>7 DEF KeptInv
<1> QED
  BY <1>5, <1>6 DEF Reply

LEMMA KeptStep ==
  ASSUME TypeInv, NoopLocks, KeptInv, [Next]_vars
  PROVE  KeptInv' /\ KeepsNoops
<1> USE DEF Run
<1>1. \A n, c : Evaluates(c, n)' <=> Evaluates(c, n)
  BY BrokenStays
<1>2. UNCHANGED <<noops, grouped>> => KeepsNoops
  BY DEF KeepsNoops
<1>3. CASE UNCHANGED <<noops, grouped, waiting, asking, pc, job>>
  BY <1>1, <1>2, <1>3 DEF KeptInv
<1>4. \A r \in Run : pc[r] # "noop" => waiting[r] = {}
  BY DEF TypeInv, PhaseInv
<1>5. CASE StartRound
  <2>1. PICK c \in Commit :
          /\ grouped[c] = NotSaved
          /\ \E b : Begin(Round, [commit |-> c, delta |-> TRUE, kind |-> "round"], b)
    BY <1>5, Zenon DEF StartRound, Query
  <2>2. [commit |-> c, delta |-> TRUE, kind |-> "round"] \in Job
    BY IsJob
  <2>3. waiting[Round] = {} /\ UNCHANGED <<noops, grouped>>
    BY <1>4, <1>5 DEF StartRound
  <2> DEFINE j == [commit |-> c, delta |-> TRUE, kind |-> "round"]
  <2>4. j.commit = c /\ j \in Job /\ \E b : Begin(Round, j, b)
    BY <2>1, <2>2
  <2> HIDE DEF j
  <2> QED
    BY <1>1, <1>2, <2>1, <2>3, <2>4, KeptBegun
<1>6. CASE StartRange \/ StartApply
  <2>1. \E j, b : Begin(Request, j, b)
    BY <1>6, Zenon DEF StartRange, StartApply, Query
  <2>2. waiting[Request] = {} /\ UNCHANGED <<noops, grouped>>
    BY <1>4, <1>6 DEF StartRange, StartApply
  <2>3. Request # Round
    BY NoopCacheAssumption
  <2> QED
    BY <1>1, <1>2, <2>1, <2>2, <2>3, KeptBegun
<1>7. ASSUME NEW r \in Run, NEW n \in Node, Load(r, n)
      PROVE  KeptInv' /\ KeepsNoops
  <2>1. KeptInv'
    BY <1>1, <1>7, KeptLoad
  <2>2. UNCHANGED <<noops, grouped>>
    BY <1>7 DEF Load
  <2> QED
    BY <1>2, <2>1, <2>2
<1>8. ASSUME NEW r \in Run, NEW n \in Node, Reply(r, n)
      PROVE  KeptInv' /\ KeepsNoops
  BY <1>1, <1>8, KeptReply
<1>9. ASSUME NEW r \in Run, Nooped(r)
      PROVE  KeptInv' /\ KeepsNoops
  <2>1. waiting[r] = {} /\ UNCHANGED <<noops, grouped>> /\ pc[r] = "noop"
    BY <1>9 DEF Nooped
  <2>2. CASE Forget(r)
    BY <1>1, <1>2, <2>1, <2>2, KeptBegun
  <2>3. CASE /\ UNCHANGED <<job, waiting>>
             /\ \A q \in Run \ {r} : asking'[q] = asking[q]
             /\ pc' = pc \/ pc' = [pc EXCEPT ![r] = "group"]
    <3>1. pc'[Round] # "idle" => pc[Round] # "idle"
      BY <2>1, <2>3 DEF TypeInv, RunTypes
    <3>2. \A q \in Run : \A n \in waiting'[q] : noops'[n][asking'[q]].status # "failed"
      BY <2>1, <2>3 DEF KeptInv
    <3> QED
      BY <1>1, <1>2, <2>1, <2>3, <3>1, <3>2 DEF KeptInv
  <2>4. \/ Forget(r)
        \/ /\ UNCHANGED <<job, waiting>>
           /\ \A q \in Run \ {r} : asking'[q] = asking[q]
           /\ pc' = pc \/ pc' = [pc EXCEPT ![r] = "group"]
    BY <1>9 DEF Nooped, TypeInv, RunTypes
  <2> QED
    BY <2>2, <2>3, <2>4
<1>10. CASE GroupRound
  <2>1. /\ pc[Round] = "group" /\ Forget(Round) /\ noops' = noops
        /\ \/ grouped' = grouped
           \/ \E g : grouped' = [grouped EXCEPT ![job[Round].commit] = g]
    BY <1>10, Zenon DEF GroupRound
  <2>2. grouped[job[Round].commit] = NotSaved
    BY <2>1 DEF KeptInv
  <2>3. \A c \in Commit : grouped[c] # NotSaved => grouped'[c] = grouped[c]
    BY <2>1, <2>2 DEF TypeInv, GroupedTypes
  <2>4. KeepsNoops
    BY <2>1, <2>3 DEF KeepsNoops
  <2>5. waiting[Round] = {}
    BY <1>4, <2>1
  <2>6. waiting' = waiting /\ pc'[Round] = "idle" /\ \A q \in Run \ {Round} : asking'[q] = asking[q]
    BY <2>1, <2>5, AwaitsTheSame DEF Forget, TypeInv, RunTypes
  <2>7. \A q \in Run : \A n \in waiting'[q] : noops'[n][asking'[q]].status # "failed"
    BY <2>1, <2>5, <2>6 DEF KeptInv
  <2> QED
    BY <1>1, <2>1, <2>4, <2>6, <2>7 DEF KeptInv
<1>11. CASE GroupRange \/ GroupApply
  <2>1. (\E j, b : Begin(Request, j, b)) \/ Forget(Request)
    BY <1>11, Zenon DEF GroupRange, GroupApply
  <2>2. waiting[Request] = {} /\ UNCHANGED <<noops, grouped>>
    BY <1>4, <1>11 DEF GroupRange, GroupApply
  <2>3. Request # Round
    BY NoopCacheAssumption
  <2> QED
    BY <1>1, <1>2, <2>1, <2>2, <2>3, KeptBegun
<1>12. ASSUME NEW n \in Node, Apply(n) \/ User(n) PROVE KeptInv' /\ KeepsNoops
  BY <1>3, <1>12 DEF Apply, User, ns
<1>13. CASE UNCHANGED vars
  BY <1>3, <1>13 DEF vars, ns
<1> QED
  BY <1>5, <1>6, <1>7, <1>8, <1>9, <1>10, <1>11, <1>12, <1>13 DEF Next, noop, Requests, Step

\* Rounds and requests share the saved noops and lose none: a report is not replaced,
\* and a node is asked again for a noop it has answered only after its last apply moved,
\* for any nodes, commits and failures.
THEOREM NoopsAreTakenOnce == Spec => NoopsAreKept
<1>1. Init => KeptInv
  BY DEF Init, KeptInv, NoReports, NoReport, Run
<1>2. TypeInv /\ NoopLocks /\ KeptInv /\ [Next]_vars => KeptInv' /\ [KeepsNoops]_vars
  BY KeptStep
<1> QED
  BY <1>1, <1>2, TypesHold, NodesAreUnlocked, PTL DEF Spec, NoopsAreKept
=============================================================================
