----------------------------- MODULE IssueTracking -----------------------------
(***************************************************************************)
(* The issues that hecklerd keeps on GitHub: one for each commit, created  *)
(* by noop(), whose number is cached on disk and which -deldups rids of    *)
(* duplicates; and one for each node file of nodes whose applies are       *)
(* reported as failed, which are then locked by the user heckler.          *)
(* hecklerd may die, and calls to GitHub and to the nodes may fail,        *)
(* between any two steps.                                                  *)
(***************************************************************************)
EXTENDS Integers, FiniteSets, Sequences

CONSTANTS Commit, Node, NodeFile,
          nodeFile,    \* the node file of each node that one matches
          MaxEvents    \* bound: deaths, calls that fail, and what users do

ASSUME IssueTrackingAssumption ==
  /\ IsFiniteSet(Commit)
  /\ nodeFile \in [DOMAIN nodeFile -> NodeFile] /\ DOMAIN nodeFile \subseteq Node
  /\ MaxEvents \in Nat

VARIABLES issues,      \* commit of each issue, in the order of their creation
          deleted,     \* numbers of the issues that are soft deleted: the title is gone
          cache,       \* the cached number of each commit, None when there is no file
          saved,       \* commits whose grouped report is on disk
          noop,        \* what noop() is doing
          dups,        \* the process of -deldups: commits left to search, and the
                       \* issues that it will delete before it goes on
          open,        \* open PuppetApplyFailed issues of each node file
          holder,      \* who owns each node's lock
          bad,         \* nodes on which applies fail
          report,      \* what reportErrors is doing
          interrupted, \* history: commits after the creation of whose issue hecklerd
                       \* died or did not get the answer
          budget       \* events left

commitVars == <<issues, deleted, cache, saved, noop, dups, interrupted>>
errorVars == <<open, holder, bad, report>>
vars == <<commitVars, errorVars, budget>>

None == 0
NotNooping == [step |-> "idle", commit |-> {}, issue |-> None]
NoDups == [on |-> FALSE, left |-> {}, doomed |-> {}]
NotReporting == [step |-> "idle", errors |-> {}, files |-> {}, toLock |-> {}]

TypeOK ==
  /\ issues \in Seq(Commit) /\ deleted \subseteq DOMAIN issues
  /\ cache \in [Commit -> {None} \cup DOMAIN issues]
  /\ saved \subseteq Commit /\ interrupted \subseteq Commit
  /\ noop \in [step : {"idle", "create", "cache", "save"},
               commit : {{}} \cup {{c} : c \in Commit}, issue : {None} \cup DOMAIN issues]
  /\ dups \in [on : BOOLEAN, left : SUBSET Commit, doomed : SUBSET DOMAIN issues]
  /\ open \in [NodeFile -> Nat]
  /\ holder \in [Node -> {"none", "heckler", "user"}]
  /\ bad \subseteq Node
  /\ report \in [step : {"idle", "sort", "find", "create", "lock"}, errors : SUBSET Node,
                 files : SUBSET NodeFile, toLock : SUBSET Node]
  /\ budget \in 0..MaxEvents

\* Either the commits are still to be nooped, or they have been and applies fail.
Init ==
  /\ \/ issues = <<>> /\ saved = {} /\ bad = {} /\ cache = [c \in Commit |-> None]
     \/ /\ saved = Commit /\ bad = Node
        /\ issues \in {s \in [1..Cardinality(Commit) -> Commit] :
                        \A c \in Commit : \E i \in DOMAIN s : s[i] = c}
        /\ cache = [c \in Commit |-> CHOOSE i \in DOMAIN issues : issues[i] = c]
  /\ deleted = {} /\ noop = NotNooping /\ dups = NoDups
  /\ open = [f \in NodeFile |-> 0] /\ holder = [n \in Node |-> "none"]
  /\ report = NotReporting /\ interrupted = {} /\ budget = MaxEvents

Spend == budget > 0 /\ budget' = budget - 1

\* The issues that a search for the commit's id in titles finds.
Live(c) == {i \in DOMAIN issues \ deleted : issues[i] = c}
Earliest(S) == CHOOSE i \in S : \A j \in S : i <= j

\* Mutated form of Duplicates: the issue created last is kept.
DuplicatesOfLast(c) == {i \in Live(c) : \E j \in Live(c) : j > i}

Duplicates(c) == {i \in Live(c) : \E j \in Live(c) : j < i}

-----------------------------------------------------------------------------
(* noop() on a commit, once it has the grouped report (see NoopCache).     *)

\* Mutated form of StartNoop: a commit with a saved report is nooped again.
StartNoopAgain(c) ==
  /\ noop.step = "idle"
  /\ noop' = [NotNooping EXCEPT !.step = "create", !.commit = {c}]
  /\ UNCHANGED <<issues, deleted, cache, saved, dups, interrupted, errorVars, budget>>

StartNoop(c) ==
  /\ noop.step = "idle" /\ c \notin saved
  /\ noop' = [NotNooping EXCEPT !.step = "create", !.commit = {c}]
  /\ UNCHANGED <<issues, deleted, cache, saved, dups, interrupted, errorVars, budget>>

\* Mutated form of CreateCommitIssue: a commit that has an issue does not get another.
CreateUnlessFound ==
  /\ noop.step = "create"
  /\ \E c \in noop.commit :
       IF Live(c) = {} THEN /\ issues' = Append(issues, c)
                            /\ noop' = [noop EXCEPT !.step = "cache", !.issue = Len(issues')]
                            /\ interrupted' = interrupted
       ELSE noop' = NotNooping /\ UNCHANGED <<issues, interrupted>>
  /\ UNCHANGED <<deleted, cache, saved, dups, errorVars, budget>>

\* githubCreateCommitIssue does not look for an issue that is there already.  After
\* an error the commit has to wait for another round.
CreateCommitIssue ==
  /\ noop.step = "create"
  /\ \E c \in noop.commit :
       \/ /\ issues' = Append(issues, c)
          /\ noop' = [noop EXCEPT !.step = "cache", !.issue = Len(issues')]
          /\ UNCHANGED <<interrupted, budget>>
       \/ /\ Spend /\ noop' = NotNooping
          /\ \/ UNCHANGED <<issues, interrupted>>
             \/ issues' = Append(issues, c) /\ interrupted' = interrupted \cup {c}
  /\ UNCHANGED <<deleted, cache, saved, dups, errorVars>>

\* Mutated form of cacheCommitIssueNumber: the issue's id is cached, not its number.
cacheCommitIssueId ==
  /\ noop.step = "cache"
  /\ noop' = [noop EXCEPT !.step = "save"]
  /\ \E c \in noop.commit : cache' = [cache EXCEPT ![c] = noop.issue + MaxEvents + 2]
  /\ UNCHANGED <<issues, deleted, saved, dups, interrupted, errorVars, budget>>

\* An error of the cache is only logged.
cacheCommitIssueNumber ==
  /\ noop.step = "cache"
  /\ noop' = [noop EXCEPT !.step = "save"]
  /\ \/ \E c \in noop.commit : cache' = [cache EXCEPT ![c] = noop.issue] /\ UNCHANGED budget
     \/ Spend /\ UNCHANGED cache
  /\ UNCHANGED <<issues, deleted, saved, dups, interrupted, errorVars>>

SaveReport ==
  /\ noop.step = "save"
  /\ saved' = saved \cup noop.commit
  /\ noop' = NotNooping
  /\ UNCHANGED <<issues, deleted, cache, dups, interrupted, errorVars, budget>>

-----------------------------------------------------------------------------
(* What the approval loop, the milestone loop and the gate take for the    *)
(* commit's issue.                                                         *)

\* None stands for no issue and, when there are several, for an error.
githubIssueFromCommit(c) ==
  IF cache[c] # None THEN cache[c]
  ELSE IF Cardinality(Live(c)) = 1 THEN Earliest(Live(c)) ELSE None

\* A search that finds one issue caches its number.
Lookup(c) ==
  /\ cache[c] = None /\ githubIssueFromCommit(c) # None
  /\ cache' = [cache EXCEPT ![c] = githubIssueFromCommit(c)]
  /\ UNCHANGED <<issues, deleted, saved, noop, dups, interrupted, errorVars, budget>>

-----------------------------------------------------------------------------
(* deleteDupIssues, a process of its own, which may run beside hecklerd.   *)

StartDups ==
  /\ ~dups.on /\ issues # <<>>
  /\ dups' = [on |-> TRUE, left |-> Commit, doomed |-> {}]
  /\ UNCHANGED <<issues, deleted, cache, saved, noop, interrupted, errorVars, budget>>

\* All but the earliest issue are to be deleted.  The error of a search is dropped.
SearchDups(c) ==
  /\ c \in dups.left /\ dups.doomed = {}
  /\ \/ dups' = [dups EXCEPT !.left = @ \ {c}, !.doomed = Duplicates(c)] /\ UNCHANGED budget
     \/ Spend /\ dups' = [dups EXCEPT !.left = @ \ {c}]
  /\ UNCHANGED <<issues, deleted, cache, saved, noop, interrupted, errorVars>>

\* An error ends the deletion of this commit's issues, and is dropped.
deleteIssue(i) ==
  /\ i \in dups.doomed
  /\ \/ /\ deleted' = deleted \cup {i}
        /\ dups' = [dups EXCEPT !.doomed = @ \ {i}]
        /\ UNCHANGED budget
     \/ /\ Spend /\ dups' = [dups EXCEPT !.doomed = {}]
        /\ deleted' \in {deleted, deleted \cup {i}}
  /\ UNCHANGED <<issues, cache, saved, noop, interrupted, errorVars>>

EndDups ==
  /\ dups.on /\ dups' = NoDups
  /\ \/ dups.left = {} /\ dups.doomed = {} /\ UNCHANGED budget
     \/ Spend
  /\ UNCHANGED <<issues, deleted, cache, saved, noop, interrupted, errorVars>>

-----------------------------------------------------------------------------
(* The end of apply: reportErrors and lockErroredNodes.                    *)

\* Nodes that another user has locked, that are dirty or cannot be reached take no part.
\* Of those whose apply fails, one whose report has the status "failed" is an applyError;
\* one that ends in any other error, or whose failure puppet's exit code does not show,
\* is not.  So any of the nodes on which applies fail may be reported.
apply ==
  /\ report.step = "idle"
  /\ \E errors \in SUBSET {n \in bad : holder[n] = "none"} :
       errors # {} /\ report' = [NotReporting EXCEPT !.step = "sort", !.errors = errors]
  /\ UNCHANGED <<commitVars, open, holder, bad, budget>>

\* reportErrors looks for the node file of each host first, and ends at one that has none.
SortErrors ==
  /\ report.step = "sort"
  /\ report' = IF report.errors \subseteq DOMAIN nodeFile
               THEN [report EXCEPT !.step = "find", !.files = {nodeFile[n] : n \in report.errors}]
               ELSE NotReporting
  /\ UNCHANGED <<commitVars, open, holder, bad, budget>>

Errored(f) == {n \in report.errors : nodeFile[n] = f}

\* Mutated form of FindIssue: the issues that are there are not looked for.
FindNoIssue(f) ==
  /\ report.step = "find" /\ f \in report.files
  /\ report' = [report EXCEPT !.step = "create", !.files = @ \ {f}, !.toLock = Errored(f)]
  /\ UNCHANGED <<commitVars, open, holder, bad, budget>>

\* Mutated form of FindIssue: nodes whose file has an issue are passed over.
FindIssueSkips(f) ==
  /\ report.step = "find" /\ f \in report.files
  /\ report' = IF open[f] = 0
               THEN [report EXCEPT !.step = "create", !.files = @ \ {f}, !.toLock = Errored(f)]
               ELSE [report EXCEPT !.step = "lock", !.files = @ \ {f}]
  /\ UNCHANGED <<commitVars, open, holder, bad, budget>>

\* The node files come in any order.  A search that fails, or that finds several
\* issues, ends the report.
FindIssue(f) ==
  /\ report.step = "find" /\ f \in report.files
  /\ LET next(step) == [report EXCEPT !.step = step, !.files = @ \ {f}, !.toLock = Errored(f)]
     IN \/ open[f] = 0 /\ report' = next("create") /\ UNCHANGED budget
        \/ open[f] = 1 /\ report' = next("lock") /\ UNCHANGED budget
        \/ open[f] > 1 /\ report' = NotReporting /\ UNCHANGED budget
        \/ Spend /\ report' = NotReporting
  /\ UNCHANGED <<commitVars, open, holder, bad>>

CreateErrorIssue ==
  /\ report.step = "create"
  /\ LET f == nodeFile[CHOOSE n \in report.toLock : TRUE]
     IN \/ /\ open' = [open EXCEPT ![f] = @ + 1]
           /\ report' = [report EXCEPT !.step = "lock"] /\ UNCHANGED budget
        \/ /\ Spend /\ report' = NotReporting
           /\ open' \in {open, [open EXCEPT ![f] = @ + 1]}
  /\ UNCHANGED <<commitVars, holder, bad>>

\* A node that does not answer, or that a user locks first, is passed over.
lockErroredNodes ==
  /\ report.step = "lock"
  /\ \/ \E n \in report.toLock :
          /\ report' = [report EXCEPT !.toLock = @ \ {n}]
          /\ \/ holder' = [holder EXCEPT ![n] = IF @ = "none" THEN "heckler" ELSE @]
                /\ UNCHANGED budget
             \/ Spend /\ UNCHANGED holder
     \/ /\ report.toLock = {}
        /\ report' = IF report.files = {} THEN NotReporting ELSE [report EXCEPT !.step = "find"]
        /\ UNCHANGED <<holder, budget>>
  /\ UNCHANGED <<commitVars, open, bad>>

-----------------------------------------------------------------------------
(* Deaths of hecklerd, and users.                                          *)

Crash ==
  /\ Spend
  /\ noop' = NotNooping /\ report' = NotReporting
  /\ interrupted' = interrupted \cup (IF noop.step \in {"cache", "save"} THEN noop.commit ELSE {})
  /\ UNCHANGED <<issues, deleted, cache, saved, dups, open, holder, bad>>

\* Users lock and unlock nodes, mend them, and close issues; nobody opens one again.
User ==
  /\ Spend
  /\ \/ \E n \in Node : /\ holder' = [holder EXCEPT ![n] = IF @ = "none" THEN "user" ELSE "none"]
                        /\ UNCHANGED <<open, bad>>
     \/ \E n \in bad : bad' = bad \ {n} /\ UNCHANGED <<open, holder>>
     \/ \E f \in NodeFile : /\ open[f] > 0
                            /\ open' = [open EXCEPT ![f] = @ - 1]
                            /\ UNCHANGED <<holder, bad>>
  /\ UNCHANGED <<commitVars, report>>

noopLoop == \/ \E c \in Commit : StartNoop(c)
            \/ CreateCommitIssue \/ cacheCommitIssueNumber \/ SaveReport

reportErrors == \/ SortErrors
                \/ \E f \in NodeFile : FindIssue(f)
                \/ CreateErrorIssue \/ lockErroredNodes

deleteDupIssues == \/ StartDups \/ EndDups
                   \/ \E c \in Commit : SearchDups(c)
                   \/ \E i \in DOMAIN issues : deleteIssue(i)

Next == \/ noopLoop \/ deleteDupIssues \/ apply \/ reportErrors \/ Crash \/ User
        \/ \E c \in Commit : Lookup(c)

\* noopLoop runs for ever, and a report that has begun goes on.  Nobody has to run
\* -deldups, and no apply has to come to report a node.
Spec == Init /\ [][Next]_vars /\ WF_vars(noopLoop) /\ WF_vars(reportErrors)

-----------------------------------------------------------------------------
(* Properties.                                                             *)

\* A commit whose issue was created and saved in one go has this one issue, and every
\* lookup finds it, by the cached number or by search, whatever -deldups does meanwhile.
\* After an interruption there are two: -deldups keeps the earlier, and the number
\* cached is the later one's.
TrackedUnlessInterrupted ==
  \A c \in saved \ interrupted :
    Cardinality(Live(c)) = 1 /\ githubIssueFromCommit(c) \in Live(c)

\* "Delete any duplicates, keeping the earliest issue": no death, failed deletion or
\* issue created after the search makes -deldups delete a commit's earliest issue.
KeepsEarliest ==
  [][\A c \in Commit : Live(c) # {} => Earliest(Live(c)) \notin deleted']_vars

\* Each commit's noop is saved in the end and its issue is there to approve it.
CommitsGetIssues == \A c \in Commit : <>[](c \in saved /\ Live(c) # {})

\* "Create issues if they do not already exist": a node file has one open issue,
\* although answers of GitHub are lost and hecklerd dies before it locks the nodes.
OneOpenErrorIssue == \A f \in NodeFile : open[f] <= 1

\* A node whose applies are reported as failed for ever, among hosts that all have a
\* node file, does not stay open to the next apply: reports that an error on another
\* node file cuts short are made up for.
ErroredEndsLocked ==
  \A n \in Node : []<>(report.step = "find" /\ n \in report.errors) => []<>(holder[n] # "none")
=============================================================================
