------------------------------ MODULE RizzoApply ------------------------------
(***************************************************************************)
(* PuppetApply on one node: rizzod pulls the watched branch, checks out    *)
(* the commit it is asked for, runs puppet on the checkout and returns the *)
(* report that puppet's report processor wrote for that commit.  Requests  *)
(* are served on goroutines that share the one checkout and the report     *)
(* files.  rizzod may die between and within any two of its git steps; it  *)
(* resets the checkout and pulls before it serves again, and puppet may    *)
(* outlive it (KillMode=none in rizzod.service).                           *)
(* Commits are numbered along the branch.                                  *)
(***************************************************************************)
EXTENDS Integers, FiniteSets

CONSTANTS Handler,        \* requests in service at the same time
          Main,           \* rizzod's main, which pulls before it serves
          LastCommit,     \* bound: the branch's last commit
          File,
          Changes,        \* [1..LastCommit -> SUBSET File]
          MaxFailures,    \* bound: deaths of rizzod, clones and fetches that fail, files
                          \* puppet cannot write, and requests that overlap another one
          FailingApply    \* resources of an apply may fail

ASSUME RizzoApplyAssumption ==
  /\ Main \notin Handler
  /\ {LastCommit, MaxFailures} \subseteq Nat /\ LastCommit >= 1
  /\ Changes \in [1..LastCommit -> SUBSET File] /\ Changes[1] = File
  /\ FailingApply \in BOOLEAN

Commit == 1..LastCommit
Thread == Handler \cup {Main}
None == 0

VARIABLES remote,     \* head of the branch in hecklerd's repository
          repo,       \* "none", "ok", or what a death left: "empty", "unborn" when HEAD
                      \* names a branch that is not there, or "broken" for git
          fetched,    \* the last commit whose objects are in it
          branch,     \* the local branch
          detached,   \* commit HEAD is detached at, None when it is on the branch
          tree,       \* the checked out version of each file: the commit it is from
          indexLock,  \* .git/index.lock is there
          stale,      \* the other lock files that a death left
          reports,    \* heckler_<commit>.json of each commit
          lastApply,  \* configuration version in heckler_last_apply.json
          node,       \* what the node is configured as: the files applied, or Mixed
          pc, req, run, out,   \* of each thread: its next step, the request, what it
                      \* fast-forwards to and what puppet compiled, and the reply
          left,       \* the puppets that outlived their rizzod
          shared,     \* history: requests have overlapped since rizzod was started
          torn,       \* history: an apply was interrupted, overlapped, outlived its rizzod
                      \* or was not recorded, and none was completed alone since
          budget      \* failures left

git == <<repo, fetched, branch, detached, tree, indexLock, stale>>
files == <<reports, lastApply>>
vars == <<remote, git, files, node, pc, req, run, out, left, shared, torn, budget>>

Version == [commit : Commit \cup {None}, dirty : BOOLEAN]
NoVersion == [commit |-> None, dirty |-> FALSE]
Report == [status : {"ok", "failed"}, noop : BOOLEAN, base : Version,
           by : Handler \cup {None}]   \* by: the request whose puppet wrote it
NoReport == [status |-> "none", noop |-> FALSE, base |-> NoVersion, by |-> None]
Error == [NoReport EXCEPT !.status = "error"]
Request == [commit : Commit \cup {None}, noop : BOOLEAN,
            beside : BOOLEAN]   \* received while a puppet of an earlier rizzod ran
NoReq == [commit |-> None, noop |-> FALSE, beside |-> FALSE]
Run == [ahead : Commit \cup {None}, commit : Commit \cup {None},
        tree : [File -> Commit \cup {None}],
        unwritten : BOOLEAN]    \* its puppet could not write one of its files
NoRun == [ahead |-> None, commit |-> None, tree |-> [f \in File |-> None], unwritten |-> FALSE]
Mixed == [f \in File |-> None]
Pulling == {"open", "branchTree", "branchHead", "fetch", "ffTree", "ffMove"}
InPuppet == {"compile", "run", "report", "lastApply"}
PC == Pulling \cup InPuppet \cup {"reset", "serving", "idle", "tree", "head", "read", "reply"}
Repo == {"none", "broken", "empty", "unborn", "ok"}
Lock == {"config", "refs"}
Puppet == [of : Handler, death : 0..MaxFailures, stage : InPuppet, noop : BOOLEAN,
           commit : Commit \cup {None}, tree : [File -> Commit \cup {None}],
           status : {"none", "ok", "failed"}]

TypeOK ==
  /\ remote \in Commit /\ repo \in Repo /\ stale \in SUBSET Lock
  /\ fetched \in Commit \cup {None}
  /\ branch \in Commit \cup {None} /\ detached \in Commit \cup {None}
  /\ tree \in [File -> Commit \cup {None}] /\ indexLock \in BOOLEAN
  /\ reports \in [Commit -> Report \cup {NoReport}] /\ lastApply \in Version
  /\ node \in [File -> Commit \cup {None}]
  /\ pc \in [Thread -> PC] /\ pc[Main] \in Pulling \cup {"reset", "serving"}
  /\ req \in [Thread -> Request] /\ run \in [Thread -> Run]
  /\ out \in [Thread -> Report \cup {NoReport, Error}] /\ left \in SUBSET Puppet
  /\ shared \in BOOLEAN /\ torn \in BOOLEAN
  /\ budget \in 0..MaxFailures

-----------------------------------------------------------------------------
(* The checkout.                                                           *)

Newest(S) == CHOOSE c \in S : \A d \in S : d <= c

\* The files of a commit: for each file the last commit up to it that changes it.
Content(c) == [f \in File |-> IF c = None THEN None
                              ELSE Newest({d \in 1..c : f \in Changes[d]})]

\* rizzod is started, on a new node or over a checkout that a death left, with
\* files, HEAD and branch out of step.  No report is there and nothing applied.
Init ==
  /\ \/ /\ remote = 1 /\ repo = "none" /\ fetched = None /\ branch = None /\ detached = None
        /\ tree = Mixed /\ indexLock = FALSE /\ stale = {}
     \/ /\ remote = LastCommit /\ repo = "ok" /\ fetched = remote
        /\ branch \in Commit /\ detached \in Commit \cup {None}
        /\ tree \in {[f \in File |-> Content(c[f])[f]] : c \in [File -> Commit]}
        /\ indexLock \in BOOLEAN /\ stale \in SUBSET Lock
  /\ reports = [c \in Commit |-> NoReport] /\ lastApply = NoVersion /\ node = Mixed
  /\ pc = [t \in Thread |-> IF t = Main THEN "reset" ELSE "idle"]
  /\ req = [t \in Thread |-> NoReq] /\ run = [t \in Thread |-> NoRun]
  /\ out = [t \in Thread |-> NoReport]
  /\ left = {} /\ shared = FALSE /\ torn = FALSE
  /\ budget = MaxFailures

Head == IF detached # None THEN detached ELSE branch

\* A safe checkout of commit c writes the files in which HEAD and c differ, and
\* refuses to when one of them has been changed; what is changed in a file that
\* does not differ stays.
Differing(c) == {f \in File : Content(Head)[f] # Content(c)[f]}
Conflict(c) == \E f \in Differing(c) : tree[f] \notin {Content(Head)[f], Content(c)[f]}
Written(c, S) == [f \in File |-> IF f \in S THEN Content(c)[f] ELSE tree[f]]

Goto(t, l) == pc' = [pc EXCEPT ![t] = l]

\* Of the reports of requests that are over, whose they were and what they were
\* taken against no longer matters here.
Old(S) == [c \in Commit |-> IF reports[c].by \in S
                            THEN [reports[c] EXCEPT !.by = None, !.base = NoVersion]
                            ELSE reports[c]]

\* The puppet of a request.
PuppetOf(h) == [of |-> h, death |-> budget, stage |-> pc[h], noop |-> req[h].noop,
                commit |-> run[h].commit, tree |-> run[h].tree, status |-> out[h].status]

\* The process ends: its handlers are gone, its files stay, and puppets may go on.
Dead == /\ \E S \in SUBSET {h \in Handler : pc[h] \in InPuppet} :
             left' = left \cup {PuppetOf(h) : h \in S}
        /\ pc' = [t \in Thread |-> IF t = Main THEN "reset" ELSE "idle"]
        /\ req' = [t \in Thread |-> NoReq] /\ run' = [t \in Thread |-> NoRun]
        /\ out' = [t \in Thread |-> NoReport]
        /\ shared' = FALSE
        /\ reports' = Old(Handler)
        /\ torn' = \/ torn
                   \/ \E h \in Handler : pc[h] \in InPuppet \ {"compile"} /\ ~req[h].noop
                   \/ \E p \in left' : ~p.noop

\* An error ends a handler's request; in main it is fatal.
Fail(t) == \/ /\ t # Main
              /\ Goto(t, "reply") /\ out' = [out EXCEPT ![t] = Error]
              /\ UNCHANGED <<req, run, left, shared, torn, reports>>
           \/ t = Main /\ Dead

Continue(t, l) == Goto(t, l) /\ UNCHANGED <<req, run, out, left, shared, torn, reports>>

CheckoutTree(t, c, l) ==
  /\ \/ Conflict(c) /\ Fail(t) /\ UNCHANGED tree
     \/ /\ ~Conflict(c)
        /\ tree' = Written(c, Differing(c))
        /\ IF indexLock THEN Fail(t) ELSE Continue(t, l)
  /\ UNCHANGED <<remote, repo, fetched, branch, detached, indexLock, stale, lastApply, node, budget>>

-----------------------------------------------------------------------------
(* ResetRepo and PullBranch.                                               *)

\* What git cannot reset or verify is removed, whatever else a death left in it.
RemoveRepo == /\ repo' = "none" /\ fetched' = None /\ branch' = None /\ detached' = None
              /\ tree' = Mixed /\ indexLock' = FALSE /\ stale' = {}

\* Mutated form of ResetRepo: the lock file of a dead git process stays.
ResetRepoKeepsLock ==
  /\ pc[Main] = "reset"
  /\ \/ /\ repo \in {"ok", "empty", "unborn"} /\ tree' = Content(Head)
        /\ UNCHANGED <<repo, fetched, branch, detached, indexLock, stale>>
     \/ repo \in {"none", "broken"} /\ RemoveRepo
  /\ Continue(Main, "open")
  /\ UNCHANGED <<remote, lastApply, node, budget>>

\* Mutated form of ResetRepo: modified files stay.
ResetRepoKeepsFiles ==
  /\ pc[Main] = "reset"
  /\ \/ /\ repo \in {"ok", "empty", "unborn"} /\ indexLock' = FALSE
        /\ UNCHANGED <<repo, fetched, branch, detached, tree, stale>>
     \/ repo \in {"none", "broken"} /\ RemoveRepo
  /\ Continue(Main, "open")
  /\ UNCHANGED <<remote, lastApply, node, budget>>

\* Removes the lock file of the index and no other, and resets the files to HEAD,
\* which git does without a commit as well.
ResetRepo ==
  /\ pc[Main] = "reset"
  /\ \/ /\ repo \in {"ok", "empty", "unborn"}
        /\ indexLock' = FALSE /\ tree' = Content(Head)
        /\ UNCHANGED <<repo, fetched, branch, detached, stale>>
     \/ repo \in {"none", "broken"} /\ RemoveRepo
  /\ Continue(Main, "open")
  /\ UNCHANGED <<remote, lastApply, node, budget>>

\* An empty repository is removed with an error; one whose HEAD is unborn but that
\* has other references is not empty.  The URL of the remote is written into the
\* configuration.  A clone that fails is removed, and returned as a nil repository
\* without an error: Checkout dereferences it, and the process dies.
CloneOrOpen(t) ==
  /\ pc[t] = "open"
  /\ \/ /\ repo \in {"ok", "unborn"}
        /\ IF "config" \in stale THEN Fail(t) ELSE Continue(t, "branchTree")
        /\ UNCHANGED <<git, budget>>
     \/ /\ repo = "empty"
        /\ RemoveRepo /\ Fail(t) /\ UNCHANGED budget
     \/ /\ repo = "none"
        /\ repo' = "ok" /\ fetched' = remote /\ branch' = remote /\ detached' = None
        /\ tree' = Content(remote) /\ indexLock' = FALSE /\ stale' = {}
        /\ Continue(t, "branchTree") /\ UNCHANGED budget
     \/ /\ repo = "none" /\ budget > 0
        /\ budget' = budget - 1
        /\ Dead
        /\ UNCHANGED git
  /\ UNCHANGED <<remote, lastApply, node>>

\* Checkout of the branch, which has to be there: its files, then HEAD.
BranchTree(t) ==
  /\ pc[t] = "branchTree"
  /\ \/ repo # "unborn" /\ CheckoutTree(t, branch, "branchHead")
     \/ repo = "unborn" /\ Fail(t) /\ UNCHANGED <<remote, git, lastApply, node, budget>>

BranchHead(t) ==
  /\ pc[t] = "branchHead"
  /\ detached' = None
  /\ Continue(t, "fetch")
  /\ UNCHANGED <<remote, repo, fetched, branch, tree, indexLock, stale, lastApply, node, budget>>

\* Mutated form of Pulled: main goes on as a handler does.
PulledGoesOn(t) == "tree"

Pulled(t) == IF t = Main THEN "serving" ELSE "tree"

\* FastForward needs HEAD to be on a branch.  The lock of a reference stops a fetch
\* that has to write it.
Fetch(t) ==
  /\ pc[t] = "fetch"
  /\ \/ /\ detached # None \/ "refs" \in stale
        /\ Fail(t) /\ UNCHANGED <<fetched, budget>>
     \/ /\ budget > 0
        /\ budget' = budget - 1
        /\ Fail(t) /\ UNCHANGED fetched
     \/ /\ detached = None /\ ("refs" \in stale => fetched = remote)
        /\ fetched' = remote
        /\ IF branch = remote THEN Continue(t, Pulled(t))
           ELSE /\ Goto(t, "ffTree") /\ run' = [run EXCEPT ![t].ahead = remote]
                /\ UNCHANGED <<req, out, left, shared, torn, reports>>
        /\ UNCHANGED budget
  /\ UNCHANGED <<remote, repo, branch, detached, tree, indexLock, stale, lastApply, node>>

\* The remote's branch, as it was fetched, is ahead: its files are checked out, then
\* the branch moves.
FastForwardTree(t) == pc[t] = "ffTree" /\ CheckoutTree(t, run[t].ahead, "ffMove")

FastForwardMove(t) ==
  /\ pc[t] = "ffMove"
  /\ branch' = run[t].ahead /\ detached' = None
  /\ Goto(t, Pulled(t)) /\ run' = [run EXCEPT ![t] = NoRun]
  /\ UNCHANGED <<remote, repo, fetched, tree, indexLock, stale, files, node, req, out, left,
                 shared, torn, budget>>

PullBranch(t) == \/ CloneOrOpen(t) \/ BranchTree(t) \/ BranchHead(t) \/ Fetch(t)
                 \/ FastForwardTree(t) \/ FastForwardMove(t)

-----------------------------------------------------------------------------
(* PuppetApply.                                                            *)

\* hecklerd asks for a commit that it has.  Any idle handler is as good as another.
Receive(h) ==
  /\ h = CHOOSE i \in Handler : pc[i] = "idle" \/ \A j \in Handler : pc[j] # "idle"
  /\ pc[h] = "idle" /\ pc[Main] = "serving"
  /\ \E c \in 1..remote, noop \in BOOLEAN :
       req' = [req EXCEPT ![h] = [commit |-> c, noop |-> noop, beside |-> left # {}]]
  /\ LET overlap == \E i \in Handler : pc[i] # "idle"
     IN /\ shared' = (shared \/ overlap) /\ torn' = (torn \/ overlap)
        /\ overlap => budget > 0
        /\ budget' = IF overlap THEN budget - 1 ELSE budget
  /\ Goto(h, "open")
  /\ UNCHANGED <<remote, git, files, node, run, out, left>>

\* Checkout of the commit: a revision that is not there yet is an error.
Checkout(h) ==
  /\ pc[h] = "tree"
  /\ \/ req[h].commit <= fetched /\ CheckoutTree(h, req[h].commit, "head")
     \/ /\ req[h].commit > fetched /\ Fail(h)
        /\ UNCHANGED <<remote, git, lastApply, node, budget>>

CheckoutHead(h) ==
  /\ pc[h] = "head"
  /\ detached' = req[h].commit
  /\ Continue(h, "compile")
  /\ UNCHANGED <<remote, repo, fetched, branch, tree, indexLock, stale, lastApply, node, budget>>

\* puppet asks rizzo-rev for its configuration version, which prints HEAD, and
\* compiles the manifests.  When they do not evaluate it exits with an error:
\* rizzod makes a report from the output, or returns an error if it does not
\* recognise it.  An apply begins to change the node.
Compile(h) ==
  /\ pc[h] = "compile"
  /\ \/ /\ run' = [run EXCEPT ![h] = [NoRun EXCEPT !.commit = Head, !.tree = tree]]
        /\ Goto(h, "run")
        /\ node' = IF req[h].noop THEN node ELSE Mixed
        /\ UNCHANGED out
     \/ /\ Goto(h, "reply")
        /\ out' = [out EXCEPT ![h] = [NoReport EXCEPT !.status = "failed", !.by = h]]
        /\ UNCHANGED <<run, node>>
     \/ Goto(h, "reply") /\ out' = [out EXCEPT ![h] = Error] /\ UNCHANGED <<run, node>>
  /\ UNCHANGED <<remote, git, files, req, left, shared, torn, budget>>

\* puppet ends; with failed resources it exits zero as well.
RunPuppet(h) ==
  /\ pc[h] = "run"
  /\ \/ /\ out' = [out EXCEPT ![h].status = "ok"]
        /\ node' = IF req[h].noop THEN node ELSE run[h].tree
     \/ /\ FailingApply /\ ~req[h].noop
        /\ out' = [out EXCEPT ![h].status = "failed"]
        /\ UNCHANGED node
  /\ Goto(h, "report")
  /\ UNCHANGED <<remote, git, files, req, run, left, shared, torn, budget>>

\* Mutated form of VersionOf: the mark of a failed apply is lost.
VersionOfClean(p) == [commit |-> p.commit, dirty |-> FALSE]

\* The configuration version in the report: that of a failed apply is dirty.
VersionOf(p) == [commit |-> p.commit, dirty |-> ~p.noop /\ p.status = "failed"]

\* Mutated form of Reported: a noop does not record the last apply.
ReportedNoBase(p, h) ==
  IF VersionOf(p).dirty THEN reports
  ELSE [reports EXCEPT ![p.commit] = [status |-> p.status, noop |-> p.noop, by |-> h,
                                      base |-> NoVersion]]

\* The report processor names the file after the version.  A noop records what
\* it was taken against.  Nobody reads the file of a dirty version.
Reported(p, h) ==
  IF VersionOf(p).dirty THEN reports
  ELSE [reports EXCEPT ![p.commit] = [status |-> p.status, noop |-> p.noop, by |-> h,
                                      base |-> IF p.noop THEN lastApply ELSE NoVersion]]

AfterReport(p) == IF p.noop THEN "read" ELSE "lastApply"

\* A write that fails is logged, and without a version the report processor writes
\* neither file; puppet exits with zero all the same.
WriteReport(h) ==
  /\ pc[h] = "report"
  /\ \/ /\ reports' = Reported(PuppetOf(h), h)
        /\ Goto(h, AfterReport(PuppetOf(h)))
        /\ UNCHANGED <<run, torn, budget>>
     \/ /\ budget > 0 /\ budget' = budget - 1
        /\ run' = [run EXCEPT ![h].unwritten = TRUE]
        /\ \/ Goto(h, AfterReport(PuppetOf(h))) /\ UNCHANGED torn
           \/ Goto(h, "read") /\ torn' = (torn \/ ~req[h].noop)
        /\ UNCHANGED reports
  /\ UNCHANGED <<remote, git, lastApply, node, req, out, left, shared>>

\* So is a write of the last apply that fails: the earlier one stays.
WriteLastApply(h) ==
  /\ pc[h] = "lastApply"
  /\ \/ /\ lastApply' = VersionOf(PuppetOf(h))
        /\ torn' = (torn /\ (shared \/ req[h].beside))
        /\ UNCHANGED <<run, budget>>
     \/ /\ budget > 0 /\ budget' = budget - 1
        /\ run' = [run EXCEPT ![h].unwritten = TRUE] /\ torn' = TRUE
        /\ UNCHANGED lastApply
  /\ Goto(h, "read")
  /\ UNCHANGED <<remote, git, reports, node, req, out, left, shared>>

\* rizzod reads the file named after the commit that it checked out.
ReadReport(h) ==
  /\ pc[h] = "read"
  /\ out' = [out EXCEPT ![h] = IF reports[req[h].commit] = NoReport THEN Error
                               ELSE reports[req[h].commit]]
  /\ Goto(h, "reply")
  /\ UNCHANGED <<remote, git, files, node, req, run, left, shared, torn, budget>>

Reply(h) ==
  /\ pc[h] = "reply"
  /\ Goto(h, "idle")
  /\ req' = [req EXCEPT ![h] = NoReq] /\ run' = [run EXCEPT ![h] = NoRun]
  /\ out' = [out EXCEPT ![h] = NoReport]
  /\ reports' = Old({h})
  /\ UNCHANGED <<remote, git, lastApply, node, left, shared, torn, budget>>

PuppetApply(h) == \/ PullBranch(h) \/ Checkout(h) \/ CheckoutHead(h) \/ Compile(h)
                  \/ RunPuppet(h) \/ WriteReport(h) \/ WriteLastApply(h)
                  \/ ReadReport(h) \/ Reply(h)

-----------------------------------------------------------------------------
(* The branch, the death of rizzod, and the puppets that outlive it.       *)

Push == /\ remote < LastCommit
        /\ remote' = remote + 1
        /\ UNCHANGED <<git, files, node, pc, req, run, out, left, shared, torn, budget>>

\* A clone leaves a repository without references or one that is of no use, one of
\* which HEAD's branch is not there yet, or one with some of its files.
LeftByClone ==
  /\ repo = "none" /\ UNCHANGED <<detached, stale>>
  /\ \/ repo' \in {"broken", "empty"} /\ UNCHANGED <<fetched, branch, tree, indexLock>>
     \/ repo' = "unborn" /\ fetched' = remote /\ UNCHANGED <<branch, tree, indexLock>>
     \/ /\ repo' = "ok" /\ fetched' = remote /\ branch' = remote
        /\ tree' \in {Written(remote, S) : S \in SUBSET File} /\ indexLock' \in BOOLEAN

\* Some of the files, and perhaps the index's lock.
LeftByCheckout(c) ==
  /\ repo = "ok" /\ ~Conflict(c) /\ c <= fetched
  /\ \E S \in SUBSET Differing(c) : tree' = Written(c, S)
  /\ indexLock' \in BOOLEAN
  /\ UNCHANGED <<repo, fetched, branch, detached, stale>>

\* What the death of rizzod leaves of the git step that a thread is in: with the
\* lock of HEAD or of the branch git cannot reset the repository.
LeftBy(t) ==
  \/ pc[t] = "open" /\ LeftByClone
  \/ pc[t] = "branchTree" /\ LeftByCheckout(branch)
  \/ pc[t] = "ffTree" /\ LeftByCheckout(run[t].ahead)
  \/ pc[t] = "tree" /\ LeftByCheckout(req[t].commit)
  \/ /\ \/ pc[t] \in {"branchHead", "ffMove", "head"} /\ repo' = "broken" /\ stale' = stale
        \/ pc[t] = "open" /\ repo = "ok" /\ stale' = stale \cup {"config"} /\ repo' = repo
        \/ pc[t] = "fetch" /\ stale' = stale \cup {"refs"} /\ repo' = repo
     /\ UNCHANGED <<fetched, branch, detached, tree, indexLock>>

Crash ==
  /\ budget > 0
  /\ budget' = budget - 1
  /\ UNCHANGED git \/ \E t \in Thread : LeftBy(t)
  /\ Dead
  /\ UNCHANGED <<remote, lastApply, node>>

\* A puppet that outlived its rizzod takes its next step and is q then.
LeftGoesOn(p, q) == left' = (left \ {p}) \cup {q}

\* It compiles what is checked out by now, runs, and writes its files as any puppet
\* does; it may end at any time, as it does when it writes to the closed output.
LeftPuppet(p) ==
  /\ \/ left' = left \ {p} /\ UNCHANGED <<files, node>>
     \/ /\ p.stage = "compile" /\ Head # None
        /\ LeftGoesOn(p, [p EXCEPT !.stage = "run", !.commit = Head, !.tree = tree])
        /\ node' = IF p.noop THEN node ELSE Mixed
        /\ UNCHANGED files
     \/ /\ p.stage = "run"
        /\ \/ /\ LeftGoesOn(p, [p EXCEPT !.stage = "report", !.status = "ok"])
              /\ node' = IF p.noop THEN node ELSE p.tree
           \/ /\ FailingApply /\ ~p.noop
              /\ LeftGoesOn(p, [p EXCEPT !.stage = "report", !.status = "failed"])
              /\ UNCHANGED node
        /\ UNCHANGED files
     \/ /\ p.stage = "report"
        /\ reports' \in {Reported(p, None), reports}
        /\ IF p.noop THEN left' = left \ {p} ELSE LeftGoesOn(p, [p EXCEPT !.stage = "lastApply"])
        /\ UNCHANGED <<lastApply, node>>
     \/ /\ p.stage = "lastApply"
        /\ lastApply' = VersionOf(p) /\ left' = left \ {p}
        /\ UNCHANGED <<reports, node>>
  /\ UNCHANGED <<remote, git, pc, req, run, out, shared, torn, budget>>

Next == \/ ResetRepo \/ PullBranch(Main)
        \/ \E h \in Handler : Receive(h) \/ PuppetApply(h)
        \/ \E p \in left : LeftPuppet(p)
        \/ Push \/ Crash

\* rizzod is started again when it ends; its calls to git and puppet return.
Spec == /\ Init /\ [][Next]_vars
        /\ WF_vars(ResetRepo \/ PullBranch(Main))
        /\ \A h \in Handler : WF_vars(PuppetApply(h))

-----------------------------------------------------------------------------
(* Properties.                                                             *)

\* What puppet compiles is the commit asked for, and puppet calls it by that commit,
\* whatever state of the checkout earlier deaths of rizzod have left.  It holds until
\* requests overlap, and again when rizzod is started anew: the files that overlapping
\* checkouts leave out of step with HEAD stay so, safe checkouts do not touch them.
CompilesTheCommit ==
  \A h \in Handler : pc[h] = "run" /\ ~shared =>
    run[h].commit = req[h].commit /\ run[h].tree = Content(req[h].commit)

\* The report returned to a request was written for it, and a noop's was taken
\* against the node's present last apply, unless puppet could not write it or a
\* puppet of an earlier rizzod ran beside.  The apply that failed is excepted: its
\* file has another name.
ReportIsOwn ==
  \A h \in Handler :
    /\ pc[h] = "reply" /\ out[h].status \in {"ok", "failed"}
    /\ ~shared /\ ~req[h].beside /\ ~run[h].unwritten
    /\ req[h].noop \/ lastApply # [commit |-> req[h].commit, dirty |-> TRUE]
    => /\ out[h].by = h
       /\ out[h].noop => out[h].base = lastApply

\* Between applies a clean last apply tells what the node is configured as, unless
\* an apply was interrupted or overlapped, outlived its rizzod or was not recorded,
\* and no other has been completed alone since: its report is written last.
LastApplyHolds ==
  /\ \A h \in Handler : pc[h] \in {"run", "report", "lastApply"} => req[h].noop
  /\ ~torn /\ lastApply.commit # None /\ ~lastApply.dirty
  => node = Content(lastApply.commit)

\* What a death leaves that no restart clears away: a lock file besides the index's,
\* or a clone whose HEAD is unborn.
Stuck == stale # {} \/ repo = "unborn"

\* However rizzod dies, it serves again, but for what no restart clears away: no
\* other state that it leaves keeps the checkout from being reset and pulled.
ServesAgain == []<>(pc[Main] = "serving") \/ <>[]Stuck

\* The report processor marks the version of an apply that failed, since the state
\* of the box is unknown: an apply that is not reported as failed did not fail.
FailureIsReported ==
  \A h \in Handler : pc[h] = "reply" /\ ~req[h].noop /\ out[h].status = "ok"
                     /\ ~shared => ~lastApply.dirty
=============================================================================
