---------------------------- MODULE RizzoApply_proofs ----------------------------
(***************************************************************************)
(* Proofs about RizzoApply, for any number of requests in service, any     *)
(* branch and any number of deaths, failures and overlapping requests.     *)
(***************************************************************************)
EXTENDS RizzoApply, TLAPS, WellFoundedInduction

\* A set of naturals that nothing in Less precedes is bounded from below by it.
LEMMA NothingBelow ==
  ASSUME NEW Less, \A i, j \in Nat : i < j => <<i, j>> \in Less,
         NEW S \in SUBSET Nat, NEW i \in S, \A j \in S : ~(<<j, i>> \in Less)
  PROVE  \A j \in S : i <= j
<1> TAKE j \in S
<1>1. i \in Nat /\ j \in Nat /\ ~(j < i)
  OBVIOUS
<1> QED
  BY <1>1

\* Of some commits of the branch one is the newest.
LEMMA NewestOf ==
  ASSUME NEW S \in SUBSET Commit, S # {}
  PROVE  Newest(S) \in S
<1> DEFINE T == {LastCommit - c : c \in S}
<1>1. T \in SUBSET Nat /\ T # {}
  <2>1. ASSUME NEW c \in S PROVE LastCommit - c \in Nat
    <3>1. c \in Int /\ c <= LastCommit /\ LastCommit \in Nat
      BY RizzoApplyAssumption DEF Commit
    <3> QED
      BY <3>1
  <2> QED
    BY <2>1
<1>2. \A i, j \in Nat : i < j => <<i, j>> \in OpToRel(<, Nat)
  BY Zenon DEF OpToRel
<1> HIDE DEF T
<1>3. PICK i \in T : \A j \in T : ~(<<j, i>> \in OpToRel(<, Nat))
  BY <1>1, NatLessThanWellFounded, WFMin, Zenon
<1>4. \A j \in T : i <= j
  BY <1>1, <1>2, <1>3, NothingBelow, Zenon
<1>5. PICK c \in S : i = LastCommit - c
  BY <1>3 DEF T
<1>6. \A d \in S : d <= c
  <2> TAKE d \in S
  <2>1. LastCommit - c <= LastCommit - d
    BY <1>4, <1>5 DEF T
  <2>2. c \in Int /\ d \in Int /\ LastCommit \in Int
    BY RizzoApplyAssumption DEF Commit
  <2> QED
    BY <2>1, <2>2
<1> QED
  BY <1>6, Zenon DEF Newest

\* Every commit of the branch has each file, from a commit of the branch.
LEMMA Contents ==
  \A c \in Commit \cup {None} : Content(c) \in [File -> Commit \cup {None}]
<1> SUFFICES ASSUME NEW c \in Commit \cup {None}, NEW f \in File, c # None
             PROVE  Newest({d \in 1..c : f \in Changes[d]}) \in Commit
  BY DEF Content
<1>1. 1 \in {d \in 1..c : f \in Changes[d]}
  BY RizzoApplyAssumption DEF Commit
<1>2. {d \in 1..c : f \in Changes[d]} \in SUBSET Commit
  BY RizzoApplyAssumption DEF Commit
<1> QED
  BY <1>1, <1>2, NewestOf, Zenon

-----------------------------------------------------------------------------
(* Types.                                                                  *)

\* A handler serves while main does, a commit of the branch; when puppet has ended
\* its outcome is known.
HandlerInv ==
  \A h \in Handler :
    /\ pc[h] \notin {"reset", "serving"}
    /\ pc[h] # "idle" => pc[Main] = "serving" /\ req[h].commit \in Commit
    /\ pc[h] \in {"report", "lastApply", "read"} => out[h].status \in {"ok", "failed"}
    /\ pc[h] # "reply" => out[h].status # "error"
    /\ pc[h] = "lastApply" => ~req[h].noop

StageInv == /\ HandlerInv
            /\ \A p \in left : p.stage \in {"report", "lastApply"} => p.status \in {"ok", "failed"}

GitTypes == /\ repo \in Repo /\ stale \in SUBSET Lock
            /\ fetched \in Commit \cup {None}
            /\ branch \in Commit \cup {None} /\ detached \in Commit \cup {None}
            /\ tree \in [File -> Commit \cup {None}] /\ indexLock \in BOOLEAN

NodeTypes == lastApply \in Version /\ node \in [File -> Commit \cup {None}]

ThreadTypes == /\ pc \in [Thread -> PC] /\ pc[Main] \in Pulling \cup {"reset", "serving"}
               /\ req \in [Thread -> Request]
               /\ run \in [Thread -> Run]
               /\ out \in [Thread -> Report \cup {NoReport, Error}]
               /\ shared \in BOOLEAN /\ torn \in BOOLEAN

ReportTypes == reports \in [Commit -> Report \cup {NoReport}]

LEMMA TypeParts ==
  /\ TypeOK <=> /\ GitTypes /\ NodeTypes /\ ThreadTypes /\ ReportTypes
                /\ remote \in Commit /\ budget \in 0..MaxFailures /\ left \in SUBSET Puppet
  /\ TypeOK' <=> /\ GitTypes' /\ NodeTypes' /\ ThreadTypes' /\ ReportTypes'
                 /\ remote' \in Commit /\ budget' \in 0..MaxFailures /\ left' \in SUBSET Puppet
BY Zenon DEF TypeOK, GitTypes, NodeTypes, ThreadTypes, ReportTypes

\* The values of a thread at rest.
LEMMA AtRest ==
  /\ NoReq \in Request
  /\ NoRun \in Run /\ Mixed \in [File -> Commit \cup {None}]
  /\ NoVersion \in Version
BY DEF NoReq, Request, NoRun, Run, Mixed, NoVersion, Version

LEMMA OldReports ==
  ASSUME ReportTypes, NEW S, reports' = Old(S)
  PROVE  ReportTypes'
<1>1. \A c \in Commit : Old(S)[c] \in Report \cup {NoReport}
  <2> TAKE c \in Commit
  <2>1. [NoReport EXCEPT !.by = None, !.base = NoVersion] = NoReport
    <3>1. [NoReport EXCEPT !.by = None, !.base = NoVersion]
            \in [status : {"none"}, noop : {FALSE}, base : {NoVersion}, by : {None}]
      BY DEF NoReport
    <3>2. ASSUME NEW rep \in [status : {"none"}, noop : {FALSE}, base : {NoVersion}, by : {None}]
          PROVE  rep = NoReport
      BY DEF NoReport
    <3> QED
      BY <3>1, <3>2
  <2>2. \A rep \in Report : [rep EXCEPT !.by = None, !.base = NoVersion] \in Report
    BY AtRest DEF Report
  <2> QED
    BY <2>1, <2>2 DEF Old, ReportTypes
<1> QED
  BY <1>1 DEF Old, ReportTypes

LEMMA ReportedTypes ==
  ASSUME ReportTypes, NodeTypes, NEW p, NEW h \in Handler \cup {None},
         p.status \in {"ok", "failed"}, p.noop \in BOOLEAN
  PROVE  Reported(p, h) \in [Commit -> Report \cup {NoReport}]
<1> DEFINE rep == [status |-> p.status, noop |-> p.noop, by |-> h,
                   base |-> IF p.noop THEN lastApply ELSE NoVersion]
<1>1. rep \in Report
  BY AtRest DEF Report, NodeTypes
<1>2. Reported(p, h) \in {reports, [reports EXCEPT ![p.commit] = rep]}
  BY DEF Reported
<1> HIDE DEF rep
<1> QED
  BY <1>1, <1>2 DEF ReportTypes

\* A thread that goes on, fails, or ends with the process.
LEMMA Moves ==
  ASSUME ThreadTypes, ReportTypes, NEW t \in Thread,
         \/ Dead \/ Fail(t)
         \/ \E l \in PC : Continue(t, l) /\ (t = Main => l \in Pulling \cup {"serving"})
  PROVE  ThreadTypes' /\ ReportTypes'
<1>1. Main \in Thread
  BY DEF Thread
<1>2. ASSUME Dead PROVE ThreadTypes' /\ ReportTypes'
  <2>1. ReportTypes'
    BY <1>2, OldReports DEF Dead
  <2>2. ThreadTypes'
    BY <1>1, <1>2, AtRest DEF Dead, ThreadTypes, PC
  <2> QED
    BY <2>1, <2>2
<1>3. CASE t # Main /\ Fail(t)
  BY <1>1, <1>3 DEF Fail, Goto, ThreadTypes, ReportTypes, PC
<1>4. CASE \E l \in PC : Continue(t, l) /\ (t = Main => l \in Pulling \cup {"serving"})
  BY <1>1, <1>4 DEF Continue, Goto, ThreadTypes, ReportTypes
<1> QED
  BY <1>2, <1>3, <1>4 DEF Fail

LEMMA Writes ==
  ASSUME GitTypes, NEW c \in Commit \cup {None}, NEW S
  PROVE  Written(c, S) \in [File -> Commit \cup {None}]
BY Contents DEF GitTypes, Written

LEMMA CheckoutTypes ==
  ASSUME GitTypes, NodeTypes, ThreadTypes, ReportTypes, NEW t \in Thread,
         NEW c \in Commit \cup {None}, NEW l \in PC, t = Main => l \in Pulling,
         CheckoutTree(t, c, l)
  PROVE  GitTypes' /\ NodeTypes' /\ ThreadTypes' /\ ReportTypes'
<1>1. ThreadTypes' /\ ReportTypes'
  BY Moves DEF CheckoutTree
<1>2. Written(c, Differing(c)) \in [File -> Commit \cup {None}]
  BY Writes
<1>3. GitTypes' /\ NodeTypes'
  BY <1>2 DEF CheckoutTree, GitTypes, NodeTypes
<1> QED
  BY <1>1, <1>3

LEMMA PullTypes ==
  ASSUME TypeOK, NEW t \in Thread, PullBranch(t)
  PROVE  /\ GitTypes' /\ NodeTypes' /\ ThreadTypes' /\ ReportTypes'
         /\ remote' \in Commit /\ budget' \in 0..MaxFailures
<1> SUFFICES ASSUME GitTypes, NodeTypes, ThreadTypes, ReportTypes,
                    remote \in Commit, budget \in 0..MaxFailures
             PROVE  /\ GitTypes' /\ NodeTypes' /\ ThreadTypes' /\ ReportTypes'
                    /\ remote' \in Commit /\ budget' \in 0..MaxFailures
  BY TypeParts
<1>1. {"branchTree", "branchHead", "fetch", "ffTree", "ffMove"} \subseteq PC \cap Pulling
  BY DEF PC, Pulling
<1>2. Pulled(t) \in PC /\ (t = Main => Pulled(t) = "serving") /\ Main \in Thread
  BY DEF Pulled, PC, Thread
<1>3. MaxFailures \in Nat
  BY RizzoApplyAssumption
<1>4. CASE CloneOrOpen(t)
  <2>1. ThreadTypes' /\ ReportTypes'
    BY <1>1, <1>4, Moves DEF CloneOrOpen
  <2>2. GitTypes'
    BY <1>4, Contents, AtRest DEF CloneOrOpen, RemoveRepo, GitTypes, git, Repo
  <2> QED
    BY <1>3, <1>4, <2>1, <2>2 DEF CloneOrOpen, NodeTypes
<1>5. CASE BranchTree(t)
  <2>1. CASE CheckoutTree(t, branch, "branchHead")
    <3>1. branch \in Commit \cup {None}
      BY DEF GitTypes
    <3>2. GitTypes' /\ NodeTypes' /\ ThreadTypes' /\ ReportTypes'
      BY <1>1, <2>1, <3>1, CheckoutTypes
    <3> QED
      BY <2>1, <3>2 DEF CheckoutTree
  <2>2. CASE Fail(t) /\ UNCHANGED <<remote, git, lastApply, node, budget>>
    BY <2>2, Moves DEF git, GitTypes, NodeTypes
  <2> QED
    BY <1>5, <2>1, <2>2 DEF BranchTree
<1>6. CASE BranchHead(t)
  <2>1. ThreadTypes' /\ ReportTypes'
    BY <1>1, <1>6, Moves DEF BranchHead
  <2> QED
    BY <1>6, <2>1 DEF BranchHead, GitTypes, NodeTypes
<1>7. CASE Fetch(t)
  <2>1. GitTypes' /\ NodeTypes' /\ remote' \in Commit /\ budget' \in 0..MaxFailures
    BY <1>3, <1>7 DEF Fetch, GitTypes, NodeTypes
  <2>2. CASE Fail(t) \/ Continue(t, Pulled(t))
    BY <1>2, <2>1, <2>2, Moves
  <2>3. CASE /\ Goto(t, "ffTree") /\ run' = [run EXCEPT ![t].ahead = remote]
             /\ UNCHANGED <<req, out, left, shared, torn, reports>>
    <3>1. run' \in [Thread -> Run]
      BY <2>3 DEF ThreadTypes, Run
    <3> QED
      BY <1>1, <1>2, <2>1, <2>3, <3>1 DEF Goto, ThreadTypes, ReportTypes
  <2> QED
    BY <1>7, <2>2, <2>3 DEF Fetch
<1>8. CASE FastForwardTree(t)
  <2>1. run[t].ahead \in Commit \cup {None} /\ CheckoutTree(t, run[t].ahead, "ffMove")
    BY <1>8 DEF FastForwardTree, ThreadTypes, Run
  <2>2. GitTypes' /\ NodeTypes' /\ ThreadTypes' /\ ReportTypes'
    BY <1>1, <2>1, CheckoutTypes
  <2> QED
    BY <2>1, <2>2 DEF CheckoutTree
<1>9. CASE FastForwardMove(t)
  <2>1. GitTypes'
    BY <1>9 DEF FastForwardMove, GitTypes, ThreadTypes, Run
  <2>2. ThreadTypes'
    BY <1>2, <1>9, AtRest DEF FastForwardMove, Goto, ThreadTypes
  <2> QED
    BY <1>9, <2>1, <2>2 DEF FastForwardMove, files, NodeTypes, ReportTypes
<1> QED
  BY <1>4, <1>5, <1>6, <1>7, <1>8, <1>9 DEF PullBranch

\* A handler between the checkout and its reply.
LEMMA PuppetTypes ==
  ASSUME TypeOK, StageInv, NEW h \in Handler,
         \/ Receive(h) \/ Checkout(h) \/ CheckoutHead(h) \/ Compile(h) \/ RunPuppet(h)
         \/ WriteReport(h) \/ WriteLastApply(h) \/ ReadReport(h) \/ Reply(h)
  PROVE  /\ GitTypes' /\ NodeTypes' /\ ThreadTypes' /\ ReportTypes'
         /\ remote' \in Commit /\ budget' \in 0..MaxFailures
<1> SUFFICES ASSUME GitTypes, NodeTypes, ThreadTypes, ReportTypes,
                    remote \in Commit, budget \in 0..MaxFailures
             PROVE  /\ GitTypes' /\ NodeTypes' /\ ThreadTypes' /\ ReportTypes'
                    /\ remote' \in Commit /\ budget' \in 0..MaxFailures
  BY TypeParts
<1>1. h \in Thread /\ h # Main /\ Main \in Thread /\ h \in Handler
  BY RizzoApplyAssumption DEF Thread
<1>2. {"idle", "open", "tree", "head", "compile", "run", "report", "lastApply", "read", "reply"} \subseteq PC
  BY DEF PC, Pulling, InPuppet
<1>3. CASE Receive(h)
  <2>1. PICK c \in 1..remote, noop \in BOOLEAN :
          req' = [req EXCEPT ![h] = [commit |-> c, noop |-> noop, beside |-> left # {}]]
    BY <1>3 DEF Receive
  <2>2. c \in Commit
    BY RizzoApplyAssumption DEF Commit
  <2>3. req' \in [Thread -> Request]
    BY <2>1, <2>2 DEF ThreadTypes, Request
  <2>4. ThreadTypes' /\ budget' \in 0..MaxFailures
    BY <1>1, <1>2, <1>3, <2>3, RizzoApplyAssumption DEF Receive, Goto, ThreadTypes
  <2> QED
    BY <1>3, <2>4 DEF Receive, git, files, GitTypes, NodeTypes, ReportTypes
<1>4. CASE Checkout(h)
  <2>1. CASE CheckoutTree(h, req[h].commit, "head")
    <3>1. req[h].commit \in Commit \cup {None}
      BY <1>1 DEF ThreadTypes, Request
    <3>2. GitTypes' /\ NodeTypes' /\ ThreadTypes' /\ ReportTypes'
      BY <1>1, <1>2, <2>1, <3>1, CheckoutTypes
    <3> QED
      BY <2>1, <3>2 DEF CheckoutTree
  <2>2. CASE Fail(h) /\ UNCHANGED <<remote, git, lastApply, node, budget>>
    BY <1>1, <2>2, Moves DEF git, GitTypes, NodeTypes
  <2> QED
    BY <1>4, <2>1, <2>2 DEF Checkout
<1>5. CASE CheckoutHead(h)
  <2>1. ThreadTypes' /\ ReportTypes'
    BY <1>1, <1>2, <1>5, Moves DEF CheckoutHead
  <2> QED
    BY <1>1, <1>5, <2>1 DEF CheckoutHead, GitTypes, NodeTypes, ThreadTypes, Request
<1>6. CASE Compile(h)
  <2>1. Head \in Commit \cup {None}
    BY DEF Head, GitTypes
  <2>2. [NoRun EXCEPT !.commit = Head, !.tree = tree] \in Run
    BY <2>1, AtRest DEF Run, GitTypes
  <2>3. [NoReport EXCEPT !.status = "failed", !.by = h] \in Report
    BY <1>1, AtRest DEF NoReport, Report
  <2>4. run' \in [Thread -> Run] /\ out' \in [Thread -> Report \cup {NoReport, Error}]
    BY <1>6, <2>2, <2>3 DEF Compile, ThreadTypes
  <2>5. ThreadTypes'
    BY <1>1, <1>2, <1>6, <2>4 DEF Compile, Goto, ThreadTypes
  <2>6. node' \in [File -> Commit \cup {None}]
    BY <1>6, AtRest DEF Compile, NodeTypes
  <2> QED
    BY <1>6, <2>5, <2>6 DEF Compile, git, files, GitTypes, NodeTypes, ReportTypes
<1>7. CASE RunPuppet(h)
  <2>1. \A rep \in Report \cup {NoReport, Error}, s \in {"ok", "failed"} :
          [rep EXCEPT !.status = s] \in Report
    <3> TAKE rep \in Report \cup {NoReport, Error}, s \in {"ok", "failed"}
    <3>1. CASE rep \in Report
      BY <3>1 DEF Report
    <3>2. CASE rep = NoReport
      BY <3>2, AtRest DEF Report, NoReport
    <3>3. CASE rep = Error
      BY <3>3, AtRest DEF Report, NoReport, Error
    <3> QED
      BY <3>1, <3>2, <3>3
  <2>2. out' \in [Thread -> Report \cup {NoReport, Error}]
    <3>1. PICK s \in {"ok", "failed"} : out' = [out EXCEPT ![h].status = s]
      BY <1>7 DEF RunPuppet
    <3>2. [out[h] EXCEPT !.status = s] \in Report
      BY <1>1, <2>1 DEF ThreadTypes
    <3>3. out' = [out EXCEPT ![h] = [out[h] EXCEPT !.status = s]]
      BY <3>1
    <3> QED
      BY <1>1, <3>2, <3>3 DEF ThreadTypes
  <2>3. ThreadTypes'
    BY <1>1, <1>2, <1>7, <2>2 DEF RunPuppet, Goto, ThreadTypes
  <2>4. node' \in [File -> Commit \cup {None}]
    BY <1>1, <1>7 DEF RunPuppet, NodeTypes, ThreadTypes, Run
  <2> QED
    BY <1>7, <2>3, <2>4 DEF RunPuppet, git, files, GitTypes, NodeTypes, ReportTypes
<1>8. CASE WriteReport(h)
  <2>1. {"read", "lastApply"} \subseteq PC /\ AfterReport(PuppetOf(h)) \in {"read", "lastApply"}
    BY <1>2 DEF AfterReport
  <2>2. run' \in [Thread -> Run]
    <3>1. [run[h] EXCEPT !.unwritten = TRUE] \in Run
      BY <1>1 DEF ThreadTypes, Run
    <3>2. run' \in {run, [run EXCEPT ![h] = [run[h] EXCEPT !.unwritten = TRUE]]}
      BY <1>8 DEF WriteReport
    <3> QED
      BY <3>1, <3>2 DEF ThreadTypes
  <2>3. ThreadTypes'
    BY <1>1, <1>8, <2>1, <2>2 DEF WriteReport, Goto, ThreadTypes
  <2>4. ReportTypes'
    <3>1. PuppetOf(h).status \in {"ok", "failed"} /\ PuppetOf(h).noop \in BOOLEAN
      BY <1>1, <1>8 DEF PuppetOf, WriteReport, StageInv, HandlerInv, ThreadTypes, Request
    <3>2. Reported(PuppetOf(h), h) \in [Commit -> Report \cup {NoReport}]
      BY <1>1, <3>1, ReportedTypes
    <3> QED
      BY <1>8, <3>2 DEF WriteReport, ReportTypes
  <2>5. budget' \in 0..MaxFailures
    BY <1>8, RizzoApplyAssumption DEF WriteReport
  <2> QED
    BY <1>8, <2>3, <2>4, <2>5 DEF WriteReport, git, GitTypes, NodeTypes
<1>9. CASE WriteLastApply(h)
  <2>1. run' \in [Thread -> Run]
    <3>1. [run[h] EXCEPT !.unwritten = TRUE] \in Run
      BY <1>1 DEF ThreadTypes, Run
    <3>2. run' \in {run, [run EXCEPT ![h] = [run[h] EXCEPT !.unwritten = TRUE]]}
      BY <1>9 DEF WriteLastApply
    <3> QED
      BY <3>1, <3>2 DEF ThreadTypes
  <2>2. ThreadTypes'
    BY <1>1, <1>2, <1>9, <2>1 DEF WriteLastApply, Goto, ThreadTypes
  <2>3. VersionOf(PuppetOf(h)) \in Version
    <3>1. run[h].commit \in Commit \cup {None}
      BY <1>1 DEF ThreadTypes, Run
    <3> QED
      BY <3>1 DEF VersionOf, PuppetOf, Version
  <2>4. budget' \in 0..MaxFailures
    BY <1>9, RizzoApplyAssumption DEF WriteLastApply
  <2> QED
    BY <1>9, <2>2, <2>3, <2>4 DEF WriteLastApply, git, GitTypes, NodeTypes, ReportTypes
<1>10. CASE ReadReport(h)
  <2>1. Report \cup {NoReport} \subseteq Report \cup {NoReport, Error}
    OBVIOUS
  <2>2. out' \in [Thread -> Report \cup {NoReport, Error}]
    <3>1. req[h].commit \in Commit
      BY <1>1, <1>10 DEF ReadReport, StageInv, HandlerInv
    <3> QED
      BY <1>10, <2>1, <3>1 DEF ReadReport, ThreadTypes, ReportTypes
  <2>3. ThreadTypes'
    BY <1>1, <1>2, <1>10, <2>2 DEF ReadReport, Goto, ThreadTypes
  <2> QED
    BY <1>10, <2>3 DEF ReadReport, git, files, GitTypes, NodeTypes, ReportTypes
<1>11. CASE Reply(h)
  <2>1. ThreadTypes'
    BY <1>1, <1>2, <1>11, AtRest DEF Reply, Goto, ThreadTypes
  <2>2. ReportTypes'
    BY <1>11, OldReports DEF Reply
  <2> QED
    BY <1>11, <2>1, <2>2 DEF Reply, git, GitTypes, NodeTypes
<1> QED
  BY <1>3, <1>4, <1>5, <1>6, <1>7, <1>8, <1>9, <1>10, <1>11

\* The puppets that a death leaves.
LEMMA LeftTypes ==
  ASSUME TypeOK, StageInv, Dead
  PROVE  left' \in SUBSET Puppet
<1> SUFFICES ASSUME NEW h \in Handler, pc[h] \in InPuppet PROVE PuppetOf(h) \in Puppet
  <2>1. left \in SUBSET Puppet
    BY TypeParts
  <2> QED
    BY <2>1 DEF Dead
<1>1. ThreadTypes /\ budget \in 0..MaxFailures /\ h \in Thread
  BY TypeParts DEF Thread
<1>2. out[h].status \in {"none", "ok", "failed"}
  <2>1. out[h] \in Report \cup {NoReport, Error} /\ out[h].status # "error"
    BY <1>1 DEF ThreadTypes, StageInv, HandlerInv, InPuppet
  <2> QED
    BY <2>1 DEF Report, NoReport, Error
<1>3. req[h] \in Request /\ run[h] \in Run
  BY <1>1 DEF ThreadTypes
<1> QED
  BY <1>1, <1>2, <1>3 DEF PuppetOf, Puppet, Request, Run

\* The step of a puppet that outlived its rizzod.
LEMMA LeftPuppetTypes ==
  ASSUME TypeOK, StageInv, NEW p \in left, LeftPuppet(p)
  PROVE  TypeOK'
<1>1. /\ GitTypes /\ NodeTypes /\ ThreadTypes /\ ReportTypes
      /\ remote \in Commit /\ budget \in 0..MaxFailures /\ left \in SUBSET Puppet
  BY TypeParts
<1>2. p \in Puppet
  BY <1>1
<1>3. GitTypes' /\ ThreadTypes' /\ remote' \in Commit /\ budget' \in 0..MaxFailures
  BY <1>1 DEF LeftPuppet, git, GitTypes, ThreadTypes
<1>4. left' \in SUBSET Puppet
  <2>1. Head \in Commit \cup {None} /\ tree \in [File -> Commit \cup {None}]
    BY <1>1 DEF GitTypes, Head
  <2>2. ASSUME NEW q \in Puppet, LeftGoesOn(p, q) PROVE left' \in SUBSET Puppet
    BY <1>1, <2>2 DEF LeftGoesOn
  <2>3. /\ [p EXCEPT !.stage = "run", !.commit = Head, !.tree = tree] \in Puppet
        /\ [p EXCEPT !.stage = "report", !.status = "ok"] \in Puppet
        /\ [p EXCEPT !.stage = "report", !.status = "failed"] \in Puppet
        /\ [p EXCEPT !.stage = "lastApply"] \in Puppet
    BY <1>2, <2>1 DEF Puppet, InPuppet
  <2>4. left \ {p} \in SUBSET Puppet
    BY <1>1
  <2> QED
    BY <2>2, <2>3, <2>4 DEF LeftPuppet
<1>5. NodeTypes'
  <2>1. VersionOf(p) \in Version
    BY <1>2 DEF VersionOf, Version, Puppet
  <2>2. p.tree \in [File -> Commit \cup {None}]
    BY <1>2 DEF Puppet
  <2> QED
    BY <1>1, <2>1, <2>2, AtRest DEF LeftPuppet, files, NodeTypes
<1>6. ReportTypes'
  <2>1. CASE p.stage # "report"
    BY <1>1, <2>1 DEF LeftPuppet, files, ReportTypes
  <2>2. CASE p.stage = "report"
    <3>1. p.status \in {"ok", "failed"} /\ p.noop \in BOOLEAN
      BY <1>2, <2>2 DEF StageInv, HandlerInv, Puppet
    <3>2. Reported(p, None) \in [Commit -> Report \cup {NoReport}]
      BY <1>1, <3>1, ReportedTypes
    <3> QED
      BY <1>1, <3>2 DEF LeftPuppet, files, ReportTypes
  <2> QED
    BY <2>1, <2>2
<1> QED
  BY <1>3, <1>4, <1>5, <1>6, TypeParts

\* What a thread that pulls may do.
LEMMA PullMoves ==
  ASSUME ThreadTypes, NEW t \in Thread, PullBranch(t)
  PROVE  /\ pc[t] \in Pulling
         /\ UNCHANGED <<remote, lastApply, node>>
         /\ \/ Dead
            \/ t # Main /\ Fail(t)
            \/ /\ \E l \in Pulling \cup {Pulled(t)} : Goto(t, l)
               /\ UNCHANGED <<req, out, left, shared, torn, reports>>
               /\ \A u \in Thread \ {t} : run'[u] = run[u]
<1>1. {"open", "branchTree", "branchHead", "fetch", "ffTree", "ffMove"} \subseteq Pulling
  BY DEF Pulling
<1>2. CASE CloneOrOpen(t)
  BY <1>1, <1>2 DEF CloneOrOpen, Continue, Fail
<1>3. CASE BranchTree(t)
  BY <1>1, <1>3 DEF BranchTree, CheckoutTree, Continue, Fail
<1>4. CASE BranchHead(t)
  BY <1>1, <1>4 DEF BranchHead, Continue
<1>5. CASE Fetch(t)
  <2>1. CASE /\ Goto(t, "ffTree") /\ run' = [run EXCEPT ![t].ahead = remote]
             /\ UNCHANGED <<req, out, left, shared, torn, reports>>
    BY <1>1, <1>5, <2>1 DEF Fetch, ThreadTypes
  <2>2. CASE Fail(t) \/ Continue(t, Pulled(t))
    BY <1>1, <1>5, <2>2 DEF Fetch, Continue, Fail
  <2> QED
    BY <1>5, <2>1, <2>2 DEF Fetch
<1>6. CASE FastForwardTree(t)
  BY <1>1, <1>6 DEF FastForwardTree, CheckoutTree, Continue, Fail
<1>7. CASE FastForwardMove(t)
  BY <1>1, <1>7 DEF FastForwardMove, ThreadTypes, files
<1> QED
  BY <1>2, <1>3, <1>4, <1>5, <1>6, <1>7 DEF PullBranch

\* A step is that of a puppet that outlived its rizzod, leaves such puppets alone, or
\* is rizzod's death.
LEMMA LeftMoves ==
  ASSUME TypeOK, [Next]_vars
  PROVE  \/ Dead
         \/ left' = left
         \/ \E p \in left : LeftPuppet(p)
<1>1. ASSUME NEW t \in Thread, PullBranch(t) PROVE Dead \/ left' = left
  <2>1. ThreadTypes
    BY TypeParts
  <2> QED
    BY <1>1, <2>1, PullMoves DEF Fail
<1>2. ASSUME NEW h \in Handler, PuppetApply(h), ~PullBranch(h) PROVE Dead \/ left' = left
  BY <1>2 DEF PuppetApply, Checkout, CheckoutHead, CheckoutTree, Compile, RunPuppet, WriteReport,
              WriteLastApply, ReadReport, Reply, Fail, Continue
<1>3. ASSUME NEW h \in Handler, Receive(h) PROVE left' = left
  BY <1>3 DEF Receive
<1>4. CASE ResetRepo \/ Push \/ Crash \/ UNCHANGED vars
  BY <1>4 DEF ResetRepo, Continue, Push, Crash, vars
<1> QED
  BY <1>1, <1>2, <1>3, <1>4 DEF Next, Thread

\* What a death leaves of the repository.
LEMMA LeftTyped ==
  ASSUME GitTypes, ThreadTypes, remote \in Commit, NEW t \in Thread, LeftBy(t)
  PROVE  GitTypes'
<1>1. CASE LeftByClone
  <2>1. \A S \in SUBSET File : Written(remote, S) \in [File -> Commit \cup {None}]
    BY Writes
  <2> QED
    BY <1>1, <2>1 DEF LeftByClone, GitTypes, Repo
<1>2. ASSUME NEW c \in Commit \cup {None}, LeftByCheckout(c) PROVE GitTypes'
  BY <1>2, Writes DEF LeftByCheckout, GitTypes
<1>3. {branch, run[t].ahead, req[t].commit} \subseteq Commit \cup {None}
  BY DEF GitTypes, ThreadTypes, Run, Request
<1> QED
  BY <1>1, <1>2, <1>3 DEF LeftBy, GitTypes, Repo, Lock

LEMMA TypeStep ==
  ASSUME TypeOK, StageInv, [Next]_vars
  PROVE  TypeOK'
<1> SUFFICES ASSUME GitTypes, NodeTypes, ThreadTypes, ReportTypes,
                    remote \in Commit, budget \in 0..MaxFailures,
                    ~(\E p \in left : LeftPuppet(p))
             PROVE  /\ GitTypes' /\ NodeTypes' /\ ThreadTypes' /\ ReportTypes'
                    /\ remote' \in Commit /\ budget' \in 0..MaxFailures
  <2>1. left' \in SUBSET Puppet \/ \E p \in left : LeftPuppet(p)
    BY LeftTypes, LeftMoves, TypeParts
  <2> QED
    BY <2>1, LeftPuppetTypes, TypeParts
<1> DEFINE Typed == /\ GitTypes' /\ NodeTypes' /\ ThreadTypes' /\ ReportTypes'
                    /\ remote' \in Commit /\ budget' \in 0..MaxFailures
<1>1. Main \in Thread /\ Handler \subseteq Thread
  BY DEF Thread
<1>2. CASE ResetRepo
  <2>1. Continue(Main, "open") /\ "open" \in PC \cap Pulling
    BY <1>2 DEF ResetRepo, PC, Pulling
  <2>2. ThreadTypes' /\ ReportTypes'
    BY <1>1, <2>1, Moves
  <2>3. Content(Head) \in [File -> Commit \cup {None}]
    BY Contents DEF Head, GitTypes
  <2>4. GitTypes'
    BY <1>2, <2>3, AtRest DEF ResetRepo, RemoveRepo, GitTypes, Repo
  <2> QED
    BY <1>2, <2>2, <2>4 DEF ResetRepo, NodeTypes
<1>3. CASE PullBranch(Main)
  BY <1>1, <1>3, PullTypes, TypeParts
<1>4. ASSUME NEW h \in Handler, Receive(h) \/ PuppetApply(h)
      PROVE  Typed
  <2>1. CASE PullBranch(h)
    BY <1>1, <2>1, PullTypes, TypeParts
  <2> QED
    BY <1>4, <2>1, PuppetTypes, TypeParts DEF PuppetApply
<1>5. CASE Push
  <2>1. remote' \in Commit
    BY <1>5, RizzoApplyAssumption DEF Push, Commit
  <2> QED
    BY <1>5, <2>1 DEF Push, git, files, GitTypes, NodeTypes, ThreadTypes, ReportTypes
<1>6. CASE Crash
  <2>1. ThreadTypes' /\ ReportTypes'
    BY <1>1, <1>6, Moves DEF Crash
  <2>2. budget' \in 0..MaxFailures
    BY <1>6, RizzoApplyAssumption DEF Crash
  <2>3. GitTypes'
    <3>1. CASE UNCHANGED git
      BY <3>1 DEF git, GitTypes
    <3>2. ASSUME NEW t \in Thread, LeftBy(t) PROVE GitTypes'
      BY <3>2, LeftTyped
    <3> QED
      BY <1>6, <3>1, <3>2 DEF Crash
  <2> QED
    BY <1>6, <2>1, <2>2, <2>3 DEF Crash, NodeTypes
<1>7. CASE UNCHANGED vars
  BY <1>7 DEF vars, git, files, GitTypes, NodeTypes, ThreadTypes, ReportTypes
<1> QED
  BY <1>2, <1>3, <1>4, <1>5, <1>6, <1>7 DEF Next

-----------------------------------------------------------------------------
(* One thread moves at a time.                                             *)

LEMMA HandlerStep ==
  ASSUME TypeOK, StageInv, [Next]_vars
  PROVE  HandlerInv'
<1> SUFFICES ASSUME ThreadTypes, remote \in Commit
             PROVE  HandlerInv'
  BY TypeParts
<1>1. Main \in Thread /\ Handler \subseteq Thread /\ Main \notin Handler
  BY RizzoApplyAssumption DEF Thread
<1>2. ASSUME Dead PROVE HandlerInv'
  BY <1>1, <1>2 DEF Dead, NoReport, StageInv, HandlerInv
<1>3. ASSUME NEW h \in Handler, Fail(h), pc[h] # "idle" PROVE HandlerInv'
  BY <1>1, <1>3 DEF Fail, Goto, StageInv, HandlerInv, ThreadTypes
<1>4. ASSUME NEW h \in Handler, pc[h] \notin {"idle", "reply"},
             NEW l \in PC \ {"reset", "serving", "report", "lastApply", "read"}, Goto(h, l), UNCHANGED req,
             \A u \in Handler \ {h} : out'[u] = out[u], l = "reply" \/ out'[h] = out[h]
      PROVE  HandlerInv'
  BY <1>1, <1>4 DEF Goto, StageInv, HandlerInv, ThreadTypes
<1>5. CASE ResetRepo
  BY <1>1, <1>5 DEF ResetRepo, Continue, Goto, StageInv, HandlerInv, ThreadTypes
<1>6. CASE PullBranch(Main)
  <2>1. \A h \in Handler : pc[h] = "idle"
    BY <1>1, <1>6, PullMoves DEF StageInv, HandlerInv, Pulling
  <2>2. CASE (\E l \in Pulling \cup {Pulled(Main)} : Goto(Main, l)) /\ UNCHANGED out
    BY <1>1, <2>1, <2>2 DEF Goto, StageInv, HandlerInv, ThreadTypes
  <2> QED
    BY <1>1, <1>2, <1>6, <2>2, PullMoves
<1>7. ASSUME NEW h \in Handler, PullBranch(h) PROVE HandlerInv'
  <2>1. pc[h] \notin {"idle", "reply"}
    BY <1>1, <1>7, PullMoves DEF Pulling
  <2>2. Pulling \cup {Pulled(h)} \subseteq PC \ {"reset", "serving", "report", "lastApply", "read"}
    BY <1>1 DEF Pulling, Pulled, PC, InPuppet
  <2> QED
    BY <1>1, <1>2, <1>3, <1>4, <1>7, <2>1, <2>2, PullMoves
<1>8. ASSUME NEW h \in Handler, Receive(h) PROVE HandlerInv'
  <2>1. PICK c \in 1..remote, noop \in BOOLEAN :
          req' = [req EXCEPT ![h] = [commit |-> c, noop |-> noop, beside |-> left # {}]]
    BY <1>8 DEF Receive
  <2>2. c \in Commit
    BY RizzoApplyAssumption DEF Commit
  <2>3. req'[h].commit \in Commit /\ \A u \in Thread \ {h} : req'[u] = req[u]
    BY <1>1, <2>1, <2>2 DEF ThreadTypes
  <2>4. /\ pc[h] = "idle" /\ pc'[h] = "open" /\ pc[Main] = "serving" /\ out' = out
        /\ \A u \in Thread \ {h} : pc'[u] = pc[u]
    BY <1>1, <1>8 DEF Receive, Goto, ThreadTypes
  <2> QED
    BY <1>1, <2>3, <2>4 DEF StageInv, HandlerInv
<1>9. {"head", "compile", "run", "reply"} \subseteq PC \ {"reset", "serving", "report", "lastApply", "read"}
  BY DEF PC, InPuppet
<1>10. ASSUME NEW h \in Handler, Checkout(h) PROVE HandlerInv'
  <2>1. CASE Continue(h, "head")
    BY <1>4, <1>9, <1>10, <2>1 DEF Checkout, Continue
  <2> QED
    BY <1>3, <1>10, <2>1 DEF Checkout, CheckoutTree
<1>11. ASSUME NEW h \in Handler, CheckoutHead(h) PROVE HandlerInv'
  BY <1>4, <1>9, <1>11 DEF CheckoutHead, Continue
<1>12. ASSUME NEW h \in Handler, Compile(h) PROVE HandlerInv'
  <2>1. \A u \in Handler \ {h} : out'[u] = out[u]
    BY <1>1, <1>12 DEF Compile, ThreadTypes
  <2> QED
    BY <1>1, <1>4, <1>9, <1>12, <2>1 DEF Compile
<1>13. ASSUME NEW h \in Handler, RunPuppet(h) PROVE HandlerInv'
  <2>1. PICK s \in {"ok", "failed"} : out' = [out EXCEPT ![h].status = s]
    BY <1>13 DEF RunPuppet
  <2>2. out[h] \in Report \cup {NoReport, Error}
    BY <1>1 DEF ThreadTypes
  <2>3. out'[h].status = s
    BY <1>1, <2>1, <2>2 DEF ThreadTypes, Report, NoReport, Error
  <2>4. \A u \in Handler \ {h} : out'[u] = out[u]
    BY <1>1, <2>1 DEF ThreadTypes
  <2> QED
    BY <1>1, <1>13, <2>3, <2>4 DEF RunPuppet, Goto, StageInv, HandlerInv, ThreadTypes
<1>14. ASSUME NEW h \in Handler, WriteReport(h) PROVE HandlerInv'
  BY <1>1, <1>14 DEF WriteReport, AfterReport, PuppetOf, Goto, StageInv, HandlerInv, ThreadTypes
<1>15. ASSUME NEW h \in Handler, WriteLastApply(h) PROVE HandlerInv'
  BY <1>1, <1>15 DEF WriteLastApply, Goto, StageInv, HandlerInv, ThreadTypes
<1>16. ASSUME NEW h \in Handler, ReadReport(h) PROVE HandlerInv'
  <2>1. \A u \in Handler \ {h} : out'[u] = out[u]
    BY <1>1, <1>16 DEF ReadReport, ThreadTypes
  <2> QED
    BY <1>4, <1>9, <1>16, <2>1 DEF ReadReport
<1>17. ASSUME NEW h \in Handler, Reply(h) PROVE HandlerInv'
  BY <1>1, <1>17 DEF Reply, Goto, NoReport, StageInv, HandlerInv, ThreadTypes
<1>18. CASE Push
  BY <1>18 DEF Push, StageInv, HandlerInv
<1>19. CASE Crash
  BY <1>2, <1>19 DEF Crash
<1>20. CASE UNCHANGED vars
  BY <1>20 DEF vars, StageInv, HandlerInv
<1>21. ASSUME NEW p \in left, LeftPuppet(p) PROVE HandlerInv'
  BY <1>21 DEF LeftPuppet, StageInv, HandlerInv
<1> QED
  BY <1>5, <1>6, <1>7, <1>8, <1>10, <1>11, <1>12, <1>13, <1>14, <1>15, <1>16, <1>17, <1>18, <1>19, <1>20, <1>21
     DEF Next, PuppetApply

LEMMA StageStep ==
  ASSUME TypeOK, StageInv, [Next]_vars
  PROVE  StageInv'
<1> DEFINE Known(p) == p.stage \in {"report", "lastApply"} => p.status \in {"ok", "failed"}
<1>1. ASSUME NEW p \in left PROVE Known(p)
  BY DEF StageInv
<1>2. ASSUME Dead, NEW p \in left' PROVE Known(p)
  <2>1. PICK S \in SUBSET Handler : left' = left \cup {PuppetOf(h) : h \in S}
    BY <1>2 DEF Dead
  <2>2. ASSUME NEW h \in S PROVE Known(PuppetOf(h))
    BY DEF PuppetOf, StageInv, HandlerInv
  <2> QED
    BY <1>1, <1>2, <2>1, <2>2
<1>3. ASSUME NEW q \in left, LeftPuppet(q), NEW p \in left' PROVE Known(p)
  <2>1. q \in Puppet
    BY DEF TypeOK
  <2>2. /\ Known([q EXCEPT !.stage = "run", !.commit = Head, !.tree = tree])
        /\ Known([q EXCEPT !.stage = "report", !.status = "ok"])
        /\ Known([q EXCEPT !.stage = "report", !.status = "failed"])
        /\ q.stage = "report" => Known([q EXCEPT !.stage = "lastApply"])
    BY <1>1, <2>1 DEF Puppet
  <2> HIDE DEF Known
  <2> QED
    BY <1>1, <1>3, <2>2 DEF LeftPuppet, LeftGoesOn
<1> QED
  BY <1>1, <1>2, <1>3, HandlerStep, LeftMoves DEF StageInv

LEMMA TypeAtStart == ASSUME Init PROVE TypeOK /\ StageInv
<1>1. Main \in Thread /\ Handler \subseteq Thread /\ Main \notin Handler
  BY RizzoApplyAssumption DEF Thread
<1>2. StageInv
  BY <1>1 DEF Init, NoReport, StageInv, HandlerInv
<1>3. 1 \in Commit /\ LastCommit \in Commit
  BY RizzoApplyAssumption DEF Commit
<1>4. tree \in [File -> Commit \cup {None}]
  <2>1. ASSUME NEW c \in [File -> Commit], tree = [f \in File |-> Content(c[f])[f]]
        PROVE  tree \in [File -> Commit \cup {None}]
    BY <2>1, Contents
  <2> QED
    BY <2>1, AtRest DEF Init
<1>5. GitTypes /\ remote \in Commit
  BY <1>3, <1>4 DEF Init, GitTypes, Repo
<1>6. NodeTypes /\ ReportTypes /\ budget \in 0..MaxFailures
  BY AtRest, RizzoApplyAssumption DEF Init, NodeTypes, ReportTypes
<1>7. ThreadTypes
  BY <1>1, AtRest DEF Init, ThreadTypes, PC, Pulling
<1>8. left \in SUBSET Puppet
  BY DEF Init
<1> QED
  BY <1>2, <1>5, <1>6, <1>7, <1>8, TypeParts

\* At any time the checkout, the report files and every thread hold values of
\* their type, however rizzod dies and requests overlap.
THEOREM Typing == Spec => []TypeOK
<1>1. Init => TypeOK /\ StageInv
  BY TypeAtStart
<1>2. TypeOK /\ StageInv /\ [Next]_vars => (TypeOK /\ StageInv)'
  BY TypeStep, StageStep
<1> QED
  BY <1>1, <1>2, PTL DEF Spec

-----------------------------------------------------------------------------
(* The checkout, while requests do not overlap.                            *)

Quiet == {"idle", "serving"}

\* Unless requests overlap one thread at most is at work.
AloneInv ==
  /\ shared => torn
  /\ ~shared => \A t, u \in Thread : pc[t] \notin Quiet /\ pc[u] \notin Quiet => t = u

Moving == {"branchHead", "ffMove", "head"}

\* The files are those of HEAD or, between the two steps of a checkout, those
\* of the commit that HEAD moves to.
TreeInv ==
  ~shared /\ pc[Main] # "reset" =>
    /\ ~indexLock
    /\ \A t \in Thread : /\ pc[t] = "branchHead" => tree = Content(branch)
                         /\ pc[t] = "ffMove" => tree = Content(run[t].ahead)
                         /\ pc[t] = "head" => tree = Content(req[t].commit)
    /\ (\A t \in Thread : pc[t] \notin Moving) => tree = Content(Head)

\* From the checkout of a commit to the last word of its puppet they agree.
CompiledInv ==
  ~shared => \A h \in Handler :
    /\ pc[h] = "compile" => detached = req[h].commit
    /\ pc[h] \in {"run", "report", "lastApply"} =>
         run[h].commit = req[h].commit /\ run[h].tree = Content(req[h].commit)

\* A step of a thread at work, which leaves the others where they are.
Steps(t) ==
  /\ pc[t] \notin Quiet /\ shared' = shared
  /\ torn /\ shared => torn'
  /\ \A u \in Thread \ {t} : pc'[u] = pc[u]

\* How a step concerns the threads.
LEMMA StepKinds ==
  ASSUME TypeOK, StageInv, [Next]_vars
  PROVE  \/ Dead
         \/ UNCHANGED <<pc, shared, torn>>
         \/ \E h \in Handler : Receive(h)
         \/ \E t \in Thread : Steps(t)
<1> SUFFICES ASSUME ThreadTypes, ~Dead
             PROVE  \/ UNCHANGED <<pc, shared, torn>>
                    \/ \E h \in Handler : Receive(h)
                    \/ \E t \in Thread : Steps(t)
  BY TypeParts
<1>1. Main \in Thread /\ Handler \subseteq Thread
  BY DEF Thread
<1>2. CASE ResetRepo
  <2>1. Steps(Main)
    BY <1>2 DEF ResetRepo, Continue, Goto, ThreadTypes, Quiet, Steps
  <2> QED
    BY <1>1, <2>1
<1>3. ASSUME NEW t \in Thread, PullBranch(t) PROVE Steps(t)
  <2>1. pc[t] \notin Quiet
    BY <1>3, PullMoves DEF Quiet, Pulling
  <2>2. CASE t # Main /\ Fail(t)
    BY <1>3, <2>1, <2>2 DEF Fail, Goto, ThreadTypes, Steps
  <2>3. CASE /\ \E l \in Pulling \cup {Pulled(t)} : Goto(t, l)
             /\ UNCHANGED <<req, out, left, shared, torn, reports>>
    BY <1>3, <2>1, <2>3 DEF Goto, ThreadTypes, Steps
  <2> QED
    BY <1>3, <2>2, <2>3, PullMoves
<1>4. ASSUME NEW h \in Handler, PuppetApply(h), ~PullBranch(h) PROVE Steps(h)
  <2>1. CASE Checkout(h) \/ CheckoutHead(h)
    BY <1>1, <2>1 DEF Checkout, CheckoutHead, CheckoutTree, Continue, Fail, Goto, ThreadTypes, Quiet, Steps
  <2>2. CASE Compile(h) \/ RunPuppet(h) \/ ReadReport(h) \/ Reply(h)
    BY <1>1, <2>2 DEF Compile, RunPuppet, ReadReport, Reply, Goto, ThreadTypes, Quiet, Steps
  <2>3. CASE WriteReport(h) \/ WriteLastApply(h)
    BY <1>1, <2>3 DEF WriteReport, WriteLastApply, AfterReport, Goto, ThreadTypes, Quiet, Steps
  <2> QED
    BY <1>4, <2>1, <2>2, <2>3 DEF PuppetApply
<1>5. CASE Push \/ \E p \in left : LeftPuppet(p)
  BY <1>5 DEF Push, LeftPuppet
<1>6. CASE Crash
  BY <1>6 DEF Crash
<1>7. CASE UNCHANGED vars
  BY <1>7 DEF vars
<1>8. CASE \E h \in Handler : Receive(h) \/ PuppetApply(h)
  BY <1>1, <1>3, <1>4, <1>8
<1> QED
  BY <1>1, <1>2, <1>3, <1>5, <1>6, <1>7, <1>8 DEF Next

LEMMA AloneStep ==
  ASSUME TypeOK, StageInv, AloneInv, [Next]_vars
  PROVE  AloneInv'
<1> SUFFICES ASSUME ThreadTypes
             PROVE  AloneInv'
  BY TypeParts
<1>1. Main \in Thread /\ Handler \subseteq Thread
  BY DEF Thread
<1>2. CASE Dead
  <2>1. ~shared' /\ \A t \in Thread : pc'[t] \notin Quiet => t = Main
    BY <1>2 DEF Dead, Quiet
  <2> QED
    BY <2>1 DEF AloneInv
<1>3. CASE UNCHANGED <<pc, shared, torn>>
  BY <1>3 DEF AloneInv
<1>4. ASSUME NEW h \in Handler, Receive(h) PROVE AloneInv'
  <2>1. \A u \in Thread \ {h} : pc'[u] = pc[u]
    BY <1>1, <1>4 DEF Receive, Goto, ThreadTypes
  <2>2. pc[Main] \in Quiet /\ "idle" \in Quiet
    BY <1>4 DEF Receive, Quiet
  <2>3. (shared' => torn') /\ (~shared' => \A u \in Handler : pc[u] = "idle")
    BY <1>4 DEF Receive, AloneInv
  <2>4. ~shared' => \A u \in Thread \ {h} : pc'[u] \in Quiet
    BY <2>1, <2>2, <2>3 DEF Thread
  <2> QED
    BY <2>3, <2>4 DEF AloneInv
<1>5. ASSUME NEW t \in Thread, Steps(t) PROVE AloneInv'
  <2>1. shared' => torn'
    <3>1. CASE shared
      BY <1>5, <3>1, Zenon DEF AloneInv, Steps
    <3>2. CASE ~shared
      BY <1>5, <3>2 DEF Steps
    <3> QED
      BY <3>1, <3>2
  <2>2. ~shared' => \A u \in Thread \ {t} : pc'[u] \in Quiet
    BY <1>5 DEF AloneInv, Steps
  <2> QED
    BY <2>1, <2>2 DEF AloneInv
<1> QED
  BY <1>2, <1>3, <1>4, <1>5, StepKinds

\* A checkout of files that are HEAD's goes through and writes the commit's files.
LEMMA SafeCheckout ==
  ASSUME GitTypes, tree = Content(Head), ~indexLock,
         NEW t, NEW l, NEW c \in Commit \cup {None}, CheckoutTree(t, c, l)
  PROVE  Continue(t, l) /\ tree' = Content(c) /\ UNCHANGED <<branch, detached, indexLock>>
<1>1. ~Conflict(c)
  BY DEF Conflict, Differing
<1>2. Written(c, Differing(c)) = Content(c)
  <2>1. \A f \in File : (IF f \in Differing(c) THEN Content(c)[f] ELSE tree[f]) = Content(c)[f]
    BY DEF Differing
  <2>2. Content(c) \in [File -> Commit \cup {None}]
    BY Contents
  <2> QED
    BY <2>1, <2>2 DEF Written
<1> QED
  BY <1>1, <1>2 DEF CheckoutTree

LEMMA CheckPull ==
  ASSUME GitTypes, ThreadTypes, StageInv, TreeInv, CompiledInv, ~shared,
         NEW t \in Thread, \A u \in Thread \ {t} : pc[u] \in Quiet, PullBranch(t), ~Dead
  PROVE  TreeInv' /\ CompiledInv'
<1>1. Main \in Thread /\ Handler \subseteq Thread /\ pc[Main] # "reset" /\ pc[t] \in Pulling
  BY PullMoves DEF Thread, Quiet, Pulling
<1>2. \A u \in Thread \ {t} : pc'[u] \in Quiet
  BY PullMoves DEF Fail, Goto, ThreadTypes
<1>3. ~shared' /\ req' = req
  BY PullMoves DEF Fail
<1>4. /\ ~indexLock
      /\ pc[t] = "branchHead" => tree = Content(branch)
      /\ pc[t] = "ffMove" => tree = Content(run[t].ahead)
      /\ pc[t] \notin Moving => tree = Content(Head)
  BY <1>1 DEF TreeInv, Moving, Quiet
<1>5. ASSUME ~indexLock',
             pc'[t] = "branchHead" => tree' = Content(branch'),
             pc'[t] = "ffMove" => tree' = Content(run'[t].ahead),
             pc'[t] \notin Moving => tree' = Content(Head'),
             pc'[t] \notin {"head", "compile", "run", "report", "lastApply"}
      PROVE  TreeInv' /\ CompiledInv'
  BY <1>1, <1>2, <1>5 DEF TreeInv, CompiledInv, Moving, Quiet
<1>6. CASE CloneOrOpen(t)
  <2>1. pc'[t] \in {"branchTree", "reply"} /\ pc[t] = "open"
    BY <1>6 DEF CloneOrOpen, Continue, Fail, Goto, ThreadTypes
  <2>2. tree' = Content(Head') /\ ~indexLock'
    <3>1. CASE RemoveRepo
      BY <3>1 DEF RemoveRepo, Head, Content, Mixed
    <3>2. CASE ~RemoveRepo
      BY <1>4, <1>6, <2>1, <3>2 DEF CloneOrOpen, Head, git, Moving
    <3> QED
      BY <3>1, <3>2
  <2> QED
    BY <1>5, <2>1, <2>2 DEF Moving
<1>7. CASE BranchTree(t) /\ repo = "unborn"
  <2>1. pc'[t] = "reply" /\ pc[t] = "branchTree" /\ UNCHANGED git
    BY <1>7 DEF BranchTree, Fail, Goto, ThreadTypes
  <2> QED
    BY <1>4, <1>5, <2>1 DEF Head, git, Moving
<1>12. CASE BranchTree(t) /\ repo # "unborn"
  <2>1. Continue(t, "branchHead") /\ tree' = Content(branch) /\ UNCHANGED <<branch, indexLock>>
    BY <1>4, <1>12, SafeCheckout DEF BranchTree, Moving, GitTypes
  <2>2. pc'[t] = "branchHead" /\ "branchHead" \in Moving
    BY <2>1 DEF Continue, Goto, ThreadTypes, Moving
  <2> QED
    BY <1>4, <1>5, <2>1, <2>2
<1>8. CASE BranchHead(t)
  <2>1. pc'[t] = "fetch" /\ tree' = Content(Head') /\ ~indexLock'
    BY <1>4, <1>8 DEF BranchHead, Continue, Goto, ThreadTypes, Head
  <2> QED
    BY <1>5, <2>1
<1>9. CASE Fetch(t)
  <2>1. pc'[t] \in {"reply", "ffTree", "serving", "tree"}
    BY <1>9 DEF Fetch, Fail, Continue, Goto, Pulled, ThreadTypes
  <2>2. tree' = Content(Head') /\ ~indexLock'
    BY <1>4, <1>9 DEF Fetch, Head, Moving
  <2> QED
    BY <1>5, <2>1, <2>2
<1>10. CASE FastForwardTree(t)
  <2>1. run[t].ahead \in Commit \cup {None}
    BY DEF ThreadTypes, Run
  <2>2. /\ Continue(t, "ffMove") /\ tree' = Content(run[t].ahead)
        /\ UNCHANGED <<run, indexLock>>
    BY <1>4, <1>10, <2>1, SafeCheckout DEF FastForwardTree, Moving, Continue
  <2>3. pc'[t] = "ffMove" /\ "ffMove" \in Moving
    BY <2>2 DEF Continue, Goto, ThreadTypes, Moving
  <2> QED
    BY <1>4, <1>5, <2>2, <2>3
<1>11. CASE FastForwardMove(t)
  <2>1. pc'[t] \in {"serving", "tree"} /\ tree' = Content(Head') /\ ~indexLock'
    BY <1>4, <1>11 DEF FastForwardMove, Goto, Pulled, ThreadTypes, Head
  <2> QED
    BY <1>5, <2>1
<1> QED
  BY <1>6, <1>7, <1>8, <1>9, <1>10, <1>11, <1>12 DEF PullBranch

LEMMA CheckHandler ==
  ASSUME GitTypes, ThreadTypes, StageInv, TreeInv, CompiledInv, ~shared,
         NEW h \in Handler, \A u \in Thread \ {h} : pc[u] \in Quiet,
         PuppetApply(h), ~PullBranch(h)
  PROVE  TreeInv' /\ CompiledInv'
<1>1. Main \in Thread /\ Handler \subseteq Thread /\ h \in Thread /\ pc[Main] \in Quiet
  BY RizzoApplyAssumption DEF Thread
<1>2. CASE Checkout(h) /\ ~Fail(h)
  <2>1. req[h].commit \in Commit /\ pc[h] = "tree"
    BY <1>2 DEF Checkout, StageInv, HandlerInv
  <2>2. tree = Content(Head) /\ ~indexLock
    BY <1>1, <2>1 DEF TreeInv, Moving, Quiet
  <2>3. Continue(h, "head") /\ tree' = Content(req[h].commit) /\ ~indexLock'
    BY <1>2, <2>1, <2>2, SafeCheckout DEF Checkout
  <2> QED
    BY <1>1, <2>3 DEF Continue, Goto, ThreadTypes, TreeInv, CompiledInv, Moving, Quiet
<1>3. CASE Checkout(h) /\ Fail(h)
  <2>1. req[h].commit \in Commit /\ pc[h] = "tree"
    BY <1>3 DEF Checkout, StageInv, HandlerInv
  <2>2. tree = Content(Head) /\ ~indexLock
    BY <1>1, <2>1 DEF TreeInv, Moving, Quiet
  <2>3. UNCHANGED <<tree, branch, detached, indexLock>>
    <3>1. CASE CheckoutTree(h, req[h].commit, "head")
      <4>1. Continue(h, "head")
        BY <2>1, <2>2, <3>1, SafeCheckout
      <4> QED
        BY <1>1, <1>3, <4>1 DEF Continue, Fail, Goto, ThreadTypes, Dead
    <3> QED
      BY <1>3, <3>1 DEF Checkout, git
  <2>4. pc'[h] = "reply" /\ UNCHANGED <<req, run, shared>> /\ \A u \in Thread \ {h} : pc'[u] = pc[u]
    BY <1>1, <1>3, RizzoApplyAssumption DEF Fail, Goto, ThreadTypes
  <2> QED
    BY <1>1, <2>2, <2>3, <2>4 DEF TreeInv, CompiledInv, Moving, Quiet, Head
<1>4. CASE CheckoutHead(h)
  <2>1. req[h].commit \in Commit /\ req[h].commit # None
    BY <1>4, RizzoApplyAssumption DEF CheckoutHead, StageInv, HandlerInv, Commit, None
  <2>2. tree = Content(req[h].commit) /\ ~indexLock
    BY <1>1, <1>4 DEF CheckoutHead, TreeInv, Quiet
  <2>3. pc'[h] = "compile" /\ UNCHANGED <<req, run, shared, tree, indexLock>>
        /\ detached' = req[h].commit /\ \A u \in Thread \ {h} : pc'[u] = pc[u]
    BY <1>1, <1>4 DEF CheckoutHead, Continue, Goto, ThreadTypes
  <2> QED
    BY <1>1, <2>1, <2>2, <2>3 DEF TreeInv, CompiledInv, Moving, Quiet, Head
<1>5. ASSUME pc[h] \in {"compile", "run", "report", "lastApply", "read", "reply"},
             pc'[h] \in {"run", "report", "lastApply", "read", "reply", "idle"},
             UNCHANGED <<git, shared>>, \A u \in Thread \ {h} : pc'[u] = pc[u],
             pc'[h] \in {"run", "report", "lastApply"} =>
               run'[h].commit = req'[h].commit /\ run'[h].tree = Content(req'[h].commit)
      PROVE  TreeInv' /\ CompiledInv'
  <2>1. tree = Content(Head) /\ ~indexLock
    BY <1>1, <1>5 DEF TreeInv, Moving, Quiet
  <2> QED
    BY <1>1, <1>5, <2>1 DEF TreeInv, CompiledInv, Moving, Quiet, Head, git
<1>6. CASE Compile(h)
  <2>1. req[h].commit \in Commit /\ req[h].commit # None
    BY <1>6, RizzoApplyAssumption DEF Compile, StageInv, HandlerInv, Commit, None
  <2>2. Head = req[h].commit /\ tree = Content(Head)
    BY <1>1, <1>6, <2>1 DEF Compile, TreeInv, CompiledInv, Moving, Quiet, Head
  <2>3. CASE Goto(h, "run") /\ run' = [run EXCEPT ![h] = [NoRun EXCEPT !.commit = Head, !.tree = tree]]
    <3>1. run'[h].commit = Head /\ run'[h].tree = tree
      BY <1>1, <2>3 DEF ThreadTypes, NoRun
    <3>2. pc'[h] = "run" /\ \A u \in Thread \ {h} : pc'[u] = pc[u]
      BY <1>1, <2>3 DEF Goto, ThreadTypes
    <3> QED
      BY <1>5, <1>6, <2>2, <3>1, <3>2 DEF Compile
  <2>4. CASE Goto(h, "reply")
    <3>1. pc'[h] = "reply" /\ \A u \in Thread \ {h} : pc'[u] = pc[u]
      BY <1>1, <2>4 DEF Goto, ThreadTypes
    <3> QED
      BY <1>5, <1>6, <3>1 DEF Compile
  <2> QED
    BY <1>6, <2>3, <2>4 DEF Compile
<1>7. pc[h] \in {"run", "report", "lastApply"} =>
        run[h].commit = req[h].commit /\ run[h].tree = Content(req[h].commit)
  BY DEF CompiledInv
<1>8. CASE RunPuppet(h)
  <2>1. pc[h] = "run" /\ pc'[h] = "report" /\ \A u \in Thread \ {h} : pc'[u] = pc[u]
    BY <1>1, <1>8 DEF RunPuppet, Goto, ThreadTypes
  <2> QED
    BY <1>5, <1>7, <1>8, <2>1 DEF RunPuppet
<1>9. CASE WriteReport(h)
  <2>1. pc[h] = "report" /\ pc'[h] \in {"read", "lastApply"} /\ \A u \in Thread \ {h} : pc'[u] = pc[u]
    BY <1>1, <1>9 DEF WriteReport, AfterReport, Goto, ThreadTypes
  <2>2. run'[h].commit = run[h].commit /\ run'[h].tree = run[h].tree /\ UNCHANGED <<git, req, shared>>
    BY <1>1, <1>9 DEF WriteReport, ThreadTypes, Run
  <2> QED
    BY <1>5, <1>7, <2>1, <2>2
<1>10. CASE WriteLastApply(h)
  <2>1. pc[h] = "lastApply" /\ pc'[h] = "read" /\ \A u \in Thread \ {h} : pc'[u] = pc[u]
    BY <1>1, <1>10 DEF WriteLastApply, Goto, ThreadTypes
  <2> QED
    BY <1>5, <1>10, <2>1 DEF WriteLastApply
<1>11. CASE ReadReport(h)
  <2>1. pc[h] = "read" /\ pc'[h] = "reply" /\ \A u \in Thread \ {h} : pc'[u] = pc[u]
    BY <1>1, <1>11 DEF ReadReport, Goto, ThreadTypes
  <2> QED
    BY <1>5, <1>11, <2>1 DEF ReadReport
<1>12. CASE Reply(h)
  <2>1. pc[h] = "reply" /\ pc'[h] = "idle" /\ \A u \in Thread \ {h} : pc'[u] = pc[u]
    BY <1>1, <1>12 DEF Reply, Goto, ThreadTypes
  <2> QED
    BY <1>5, <1>12, <2>1 DEF Reply
<1> QED
  BY <1>2, <1>3, <1>4, <1>6, <1>8, <1>9, <1>10, <1>11, <1>12 DEF PuppetApply

LEMMA CheckStep ==
  ASSUME TypeOK, StageInv, AloneInv, TreeInv, CompiledInv, [Next]_vars
  PROVE  TreeInv' /\ CompiledInv'
<1> SUFFICES ASSUME GitTypes, ThreadTypes
             PROVE  TreeInv' /\ CompiledInv'
  BY TypeParts
<1>1. Main \in Thread /\ Handler \subseteq Thread /\ Main \notin Handler
  BY RizzoApplyAssumption DEF Thread
<1>2. CASE Dead
  <2>1. pc'[Main] = "reset" /\ \A h \in Handler : pc'[h] = "idle"
    BY <1>1, <1>2 DEF Dead
  <2> QED
    BY <2>1 DEF TreeInv, CompiledInv
<1>3. CASE shared'
  BY <1>3 DEF TreeInv, CompiledInv
<1>4. ASSUME ~Dead, ~shared' PROVE ~shared
  BY <1>4, StepKinds DEF Receive, Steps
<1>5. ASSUME ~shared, NEW t \in Thread, pc[t] \notin Quiet
      PROVE  \A u \in Thread \ {t} : pc[u] \in Quiet
  BY <1>5 DEF AloneInv
<1>6. CASE ResetRepo
  <2>1. \A h \in Handler : pc[h] = "idle"
    BY <1>6 DEF ResetRepo, StageInv, HandlerInv
  <2>2. pc'[Main] = "open" /\ \A h \in Handler : pc'[h] = "idle"
    BY <1>1, <1>6, <2>1 DEF ResetRepo, Continue, Goto, ThreadTypes
  <2>3. tree' = Content(Head') /\ ~indexLock'
    <3>1. Content(None) = Mixed
      BY DEF Content, Mixed
    <3> QED
      BY <1>6, <3>1 DEF ResetRepo, RemoveRepo, Head
  <2> QED
    BY <2>2, <2>3 DEF TreeInv, CompiledInv, Thread, Moving
<1>7. ASSUME NEW t \in Thread, PullBranch(t), ~Dead, ~shared'
      PROVE  TreeInv' /\ CompiledInv'
  <2>1. ~shared
    BY <1>4, <1>7
  <2>2. pc[t] \notin Quiet
    BY <1>7, PullMoves DEF Quiet, Pulling
  <2> QED
    BY <1>5, <1>7, <2>1, <2>2, CheckPull
<1>8. ASSUME NEW h \in Handler, PuppetApply(h), ~PullBranch(h), ~Dead, ~shared'
      PROVE  TreeInv' /\ CompiledInv'
  <2>1. ~shared
    BY <1>4, <1>8
  <2>2. pc[h] \notin Quiet
    BY <1>8 DEF PuppetApply, Checkout, CheckoutHead, Compile, RunPuppet, WriteReport, WriteLastApply,
                ReadReport, Reply, Quiet
  <2> QED
    BY <1>1, <1>5, <1>8, <2>1, <2>2, CheckHandler
<1>9. ASSUME NEW h \in Handler, Receive(h), ~shared'
      PROVE  TreeInv' /\ CompiledInv'
  <2>1. ~shared /\ pc[Main] = "serving" /\ \A u \in Handler : pc[u] = "idle"
    BY <1>9 DEF Receive
  <2>2. pc'[h] = "open" /\ \A u \in Thread \ {h} : pc'[u] = pc[u]
    BY <1>1, <1>9 DEF Receive, Goto, ThreadTypes
  <2>3. tree' = Content(Head') /\ ~indexLock'
    <3>1. tree = Content(Head) /\ ~indexLock
      BY <2>1 DEF TreeInv, Thread, Moving
    <3> QED
      BY <1>9, <3>1 DEF Receive, git, Head
  <2> QED
    BY <1>1, <2>1, <2>2, <2>3 DEF TreeInv, CompiledInv, Thread, Moving
<1>10. CASE UNCHANGED <<git, pc, req, run, shared>>
  BY <1>10 DEF git, TreeInv, CompiledInv, Head
<1>11. CASE Push \/ UNCHANGED vars \/ \E p \in left : LeftPuppet(p)
  BY <1>10, <1>11 DEF Push, LeftPuppet, vars
<1>12. CASE Crash
  BY <1>2, <1>12 DEF Crash
<1>13. CASE \E h \in Handler : Receive(h) \/ PuppetApply(h)
  BY <1>1, <1>2, <1>3, <1>7, <1>8, <1>9, <1>13
<1> QED
  BY <1>1, <1>2, <1>3, <1>6, <1>7, <1>11, <1>12, <1>13 DEF Next

LEMMA CheckAtStart ==
  ASSUME Init
  PROVE  TypeOK /\ StageInv /\ AloneInv /\ TreeInv /\ CompiledInv
<1>1. TypeOK /\ StageInv
  BY TypeAtStart
<1>2. Main \in Thread /\ pc[Main] = "reset" /\ \A h \in Handler : pc[h] = "idle"
  BY RizzoApplyAssumption DEF Init, Thread
<1>3. AloneInv
  BY <1>2 DEF Init, AloneInv, Thread, Quiet
<1>4. TreeInv /\ CompiledInv
  BY <1>2 DEF TreeInv, CompiledInv
<1> QED
  BY <1>1, <1>3, <1>4

\* What puppet compiles is the commit asked for, and puppet calls it by that commit,
\* whatever state of the checkout earlier deaths of rizzod have left.
THEOREM CompilesWhatIsAsked == Spec => []CompilesTheCommit
<1> DEFINE Inv == TypeOK /\ StageInv /\ AloneInv /\ TreeInv /\ CompiledInv
<1>1. Init => Inv
  BY CheckAtStart
<1>2. Inv /\ [Next]_vars => Inv'
  BY TypeStep, StageStep, AloneStep, CheckStep
<1>3. Inv => CompilesTheCommit
  BY DEF CompiledInv, CompilesTheCommit
<1> QED
  BY <1>1, <1>2, <1>3, PTL DEF Spec

-----------------------------------------------------------------------------
(* Nothing stands in the way of a pull and a checkout.                     *)

\* rizzod's main ends, and git ends a request that is alone in service, only when a
\* clone or a fetch fails or rizzod is killed, which the budget counts, and for the
\* lock files and the half-made clones that no restart clears away: whatever else
\* earlier deaths have left of the checkout, no conflict, no lock of the index, no
\* detached HEAD and no commit that is not there yet stops them.
Accident == budget' < budget \/ Stuck \/ repo = "empty"

GitFailsByAccident ==
  [][/\ pc[Main] # "reset" /\ pc'[Main] = "reset" => Accident
     /\ \A h \in Handler :
          ~shared /\ pc[h] \in Pulling \cup {"tree"} /\ pc'[h] = "reply" => Accident
    ]_vars

\* HEAD is on the branch when a fetch begins, and the commit asked for is fetched by
\* the time it is checked out.
WayInv ==
  /\ pc[Main] # "serving" => ~shared
  /\ ~shared =>
       \A t \in Thread :
         /\ pc[t] \in {"fetch", "ffTree", "ffMove"} => detached = None
         /\ pc[t] \notin Quiet /\ t # Main => req[t].commit <= remote
         /\ pc[t] \in {"ffTree", "ffMove", "tree"} /\ t # Main => req[t].commit <= fetched

\* What a pull of a thread alone comes to, but for failures.
GoesOn(t) ==
  /\ pc'[t] \in Pulling \cup {Pulled(t)}
  /\ pc'[t] \in {"fetch", "ffTree", "ffMove"} => detached' = None
  /\ pc'[t] \in {"ffTree", "ffMove", "tree"} /\ t # Main => req[t].commit <= fetched'

LEMMA PullGoesOn ==
  ASSUME TypeOK, StageInv, TreeInv, WayInv, ~shared, NEW t \in Thread,
         \A u \in Thread \ {t} : pc[u] \in Quiet, PullBranch(t)
  PROVE  GoesOn(t) \/ (Accident /\ (Dead \/ Fail(t)))
<1> SUFFICES ASSUME GitTypes, ThreadTypes, ~(Accident /\ (Dead \/ Fail(t)))
             PROVE  GoesOn(t)
  BY TypeParts
<1>1. budget \in Int
  BY RizzoApplyAssumption DEF TypeOK
<1>2. /\ Main \in Thread /\ pc[Main] # "reset" /\ pc[t] \in Pulling
      /\ pc[t] \notin {"idle", "serving", "tree"}
  BY PullMoves DEF Thread, Quiet, Pulling
<1>3. /\ ~indexLock
      /\ pc[t] \notin Moving => tree = Content(Head)
  BY <1>2 DEF TreeInv, Moving, Quiet
<1>4. /\ pc[t] \in {"fetch", "ffTree", "ffMove"} => detached = None
      /\ t # Main => req[t].commit <= remote
      /\ pc[t] \in {"ffTree", "ffMove"} /\ t # Main => req[t].commit <= fetched
  BY <1>2 DEF WayInv, Quiet
<1>5. {"branchTree", "branchHead", "fetch", "ffTree", "ffMove"} \subseteq Pulling
  BY DEF Pulling
<1>6. CASE CloneOrOpen(t)
  <2>1. Continue(t, "branchTree")
    BY <1>1, <1>6 DEF CloneOrOpen, Accident, Stuck
  <2>2. pc'[t] = "branchTree"
    BY <2>1 DEF Continue, Goto, ThreadTypes
  <2> QED
    BY <1>5, <2>2 DEF GoesOn
<1>7. CASE BranchTree(t)
  <2>1. CheckoutTree(t, branch, "branchHead")
    BY <1>7 DEF BranchTree, Accident, Stuck
  <2>2. Continue(t, "branchHead")
    BY <1>3, <1>7, <2>1, SafeCheckout DEF BranchTree, Moving, GitTypes
  <2>3. pc'[t] = "branchHead"
    BY <2>2 DEF Continue, Goto, ThreadTypes
  <2> QED
    BY <1>5, <2>3 DEF GoesOn
<1>8. CASE BranchHead(t)
  <2>1. pc'[t] = "fetch" /\ detached' = None
    BY <1>8 DEF BranchHead, Continue, Goto, ThreadTypes
  <2> QED
    BY <1>5, <2>1 DEF GoesOn
<1>9. CASE Fetch(t)
  <2>1. detached = None
    BY <1>4, <1>9 DEF Fetch
  <2>2. fetched' = remote /\ detached' = detached /\ pc'[t] \in {Pulled(t), "ffTree"}
    BY <1>1, <1>9, <2>1 DEF Fetch, Continue, Goto, ThreadTypes, Accident, Stuck
  <2> QED
    BY <1>4, <1>5, <2>1, <2>2 DEF GoesOn
<1>10. CASE FastForwardTree(t)
  <2>1. run[t].ahead \in Commit \cup {None} /\ pc[t] = "ffTree"
    BY <1>10 DEF FastForwardTree, ThreadTypes, Run
  <2>2. Continue(t, "ffMove") /\ UNCHANGED <<detached, fetched>>
    BY <1>3, <1>10, <2>1, SafeCheckout DEF FastForwardTree, CheckoutTree, Moving
  <2>3. pc'[t] = "ffMove"
    BY <2>2 DEF Continue, Goto, ThreadTypes
  <2> QED
    BY <1>4, <1>5, <2>1, <2>2, <2>3 DEF GoesOn
<1>11. CASE FastForwardMove(t)
  <2>1. pc[t] = "ffMove" /\ pc'[t] = Pulled(t) /\ detached' = None /\ fetched' = fetched
    BY <1>11 DEF FastForwardMove, Goto, ThreadTypes
  <2> QED
    BY <1>4, <2>1 DEF GoesOn
<1> QED
  BY <1>6, <1>7, <1>8, <1>9, <1>10, <1>11 DEF PullBranch

\* A checkout of the commit goes on as well.
LEMMA CheckoutGoesOn ==
  ASSUME TypeOK, StageInv, TreeInv, WayInv, ~shared, NEW h \in Handler,
         \A u \in Thread \ {h} : pc[u] \in Quiet, Checkout(h)
  PROVE  pc'[h] = "head"
<1> SUFFICES ASSUME GitTypes, ThreadTypes PROVE pc'[h] = "head"
  BY TypeParts
<1>1. h \in Thread /\ Main \in Thread /\ h # Main /\ pc[h] = "tree" /\ pc[Main] = "serving"
  BY RizzoApplyAssumption DEF Thread, Checkout, StageInv, HandlerInv
<1>2. ~indexLock /\ tree = Content(Head)
  BY <1>1 DEF TreeInv, Moving, Quiet
<1>3. req[h].commit <= fetched /\ req[h].commit \in Commit
  BY <1>1 DEF WayInv, StageInv, HandlerInv
<1>4. fetched \in Int /\ req[h].commit \in Int
  BY <1>3 DEF GitTypes, Commit, None
<1>5. CheckoutTree(h, req[h].commit, "head")
  BY <1>3, <1>4 DEF Checkout
<1>6. Continue(h, "head")
  BY <1>2, <1>3, <1>5, SafeCheckout
<1> QED
  BY <1>1, <1>6 DEF Continue, Goto, ThreadTypes

LEMMA WayStep ==
  ASSUME TypeOK, StageInv, AloneInv, TreeInv, WayInv, [Next]_vars
  PROVE  WayInv'
<1> SUFFICES ASSUME GitTypes, ThreadTypes, remote \in Commit
             PROVE  WayInv'
  BY TypeParts
<1>1. Main \in Thread /\ Handler \subseteq Thread /\ Main \notin Handler
  BY RizzoApplyAssumption DEF Thread
<1>2. CASE Dead
  <2>1. ~shared' /\ \A u \in Thread : pc'[u] \in {"reset", "idle"} /\ (u # Main => pc'[u] = "idle")
    BY <1>2 DEF Dead
  <2> QED
    BY <2>1 DEF WayInv, Quiet
<1>3. ASSUME ~Dead, ~shared' PROVE ~shared
  BY <1>3, StepKinds DEF Receive, Steps
<1>4. ASSUME ~shared, NEW t \in Thread, pc[t] \notin Quiet
      PROVE  \A u \in Thread \ {t} : pc[u] \in Quiet
  BY <1>4 DEF AloneInv
<1>5. ASSUME NEW t \in Thread, \A u \in Thread \ {t} : pc'[u] \in Quiet,
             ~shared', pc'[t] \in {"fetch", "ffTree", "ffMove"} => detached' = None,
             t # Main /\ pc'[t] \notin Quiet => req'[t].commit <= remote',
             t # Main /\ pc'[t] \in {"ffTree", "ffMove", "tree"} => req'[t].commit <= fetched'
      PROVE  WayInv'
  BY <1>5 DEF WayInv, Quiet
<1>6. CASE ResetRepo
  <2>1. \A h \in Handler : pc[h] = "idle"
    BY <1>6 DEF ResetRepo, StageInv, HandlerInv
  <2>2. ~shared /\ shared' = shared /\ \A u \in Thread \ {Main} : pc'[u] \in Quiet
    BY <1>1, <1>6, <2>1 DEF ResetRepo, Continue, Goto, ThreadTypes, WayInv, Thread, Quiet
  <2>3. pc'[Main] = "open"
    BY <1>1, <1>6 DEF ResetRepo, Continue, Goto, ThreadTypes
  <2> QED
    BY <1>1, <1>5, <2>2, <2>3
<1>7. ASSUME NEW t \in Thread, PullBranch(t), ~Dead PROVE WayInv'
  <2>1. pc[t] \notin Quiet /\ pc[t] \in Pulling /\ remote' = remote /\ req' = req /\ shared' = shared
    BY <1>7, PullMoves DEF Fail, Quiet, Pulling
  <2>2. CASE shared
    <3>1. t # Main /\ pc[Main] = "serving"
      BY <1>1, <2>1, <2>2 DEF WayInv, Quiet
    <3>2. pc'[Main] = "serving"
      BY <1>1, <1>7, <3>1, PullMoves DEF Fail, Goto, ThreadTypes
    <3> QED
      BY <2>1, <2>2, <3>2 DEF WayInv
  <2>3. CASE ~shared
    <3>1. \A u \in Thread \ {t} : pc[u] \in Quiet
      BY <1>4, <2>1, <2>3
    <3>2. \A u \in Thread \ {t} : pc'[u] \in Quiet
      BY <1>7, <3>1, PullMoves DEF Fail, Goto, ThreadTypes
    <3>3. t # Main => req'[t].commit <= remote'
      BY <2>1, <2>3 DEF WayInv
    <3>4. CASE GoesOn(t)
      BY <1>5, <2>1, <2>3, <3>2, <3>3, <3>4 DEF GoesOn
    <3>5. CASE Fail(t)
      <4>1. pc'[t] = "reply"
        BY <1>7, <3>5 DEF Fail, Goto, ThreadTypes
      <4> QED
        BY <1>5, <2>1, <2>3, <3>2, <3>3, <4>1
    <3> QED
      BY <1>7, <2>3, <3>1, <3>4, <3>5, PullGoesOn
  <2> QED
    BY <2>2, <2>3
<1>8. ASSUME NEW h \in Handler, PuppetApply(h), ~PullBranch(h), ~Dead PROVE WayInv'
  <2>1. /\ pc[h] \notin Quiet /\ remote' = remote /\ shared' = shared
        /\ pc'[h] \in {"head", "compile", "run", "report", "lastApply", "read", "reply", "idle"}
        /\ pc'[h] # "idle" => req' = req
        /\ \A u \in Thread \ {h} : pc'[u] = pc[u]
    <3>1. CASE Checkout(h) \/ CheckoutHead(h)
      BY <1>1, <3>1 DEF Checkout, CheckoutHead, CheckoutTree, Continue, Fail, Goto, ThreadTypes, Quiet
    <3>2. CASE Compile(h) \/ RunPuppet(h) \/ ReadReport(h) \/ Reply(h)
      BY <1>1, <3>2 DEF Compile, RunPuppet, ReadReport, Reply, Goto, ThreadTypes, Quiet
    <3>3. CASE WriteReport(h) \/ WriteLastApply(h)
      BY <1>1, <3>3 DEF WriteReport, AfterReport, WriteLastApply, Goto, ThreadTypes, Quiet
    <3> QED
      BY <1>8, <3>1, <3>2, <3>3 DEF PuppetApply
  <2>2. pc[Main] = "serving" /\ pc'[Main] = "serving"
    BY <1>1, <2>1 DEF StageInv, HandlerInv, Quiet
  <2>3. CASE ~shared
    <3>1. \A u \in Thread \ {h} : pc'[u] \in Quiet
      BY <1>1, <1>4, <2>1, <2>3
    <3>2. pc'[h] \notin Quiet => req'[h].commit <= remote'
      BY <1>1, <2>1, <2>3 DEF WayInv, Quiet
    <3> QED
      BY <1>1, <1>5, <2>1, <2>3, <3>1, <3>2
  <2> QED
    BY <2>1, <2>2, <2>3 DEF WayInv
<1>9. ASSUME NEW h \in Handler, Receive(h) PROVE WayInv'
  <2>1. /\ pc[Main] = "serving" /\ pc'[Main] = "serving"
        /\ ~shared' => \A u \in Handler : pc[u] = "idle"
        /\ pc'[h] = "open" /\ \A u \in Thread \ {h} : pc'[u] = pc[u]
    BY <1>1, <1>9 DEF Receive, Goto, ThreadTypes
  <2>2. req'[h].commit <= remote'
    <3>1. PICK c \in 1..remote, noop \in BOOLEAN :
            req' = [req EXCEPT ![h] = [commit |-> c, noop |-> noop, beside |-> left # {}]]
      BY <1>9 DEF Receive
    <3> QED
      BY <1>1, <1>9, <3>1 DEF Receive, ThreadTypes
  <2>3. ~shared' => \A u \in Thread \ {h} : pc'[u] \in Quiet
    BY <1>1, <2>1 DEF Thread, Quiet
  <2>4. CASE shared'
    BY <2>1, <2>4 DEF WayInv
  <2> QED
    BY <1>1, <1>5, <2>1, <2>2, <2>3, <2>4
<1>10. CASE Push
  <2>1. \A u \in Thread : req[u].commit \in Int /\ (req[u].commit <= remote => req[u].commit <= remote')
    <3> TAKE u \in Thread
    <3>1. req[u].commit \in Int /\ remote \in Int /\ remote' = remote + 1
      BY <1>10 DEF Push, ThreadTypes, Request, Commit, None
    <3> QED
      BY <3>1
  <2> QED
    BY <1>10, <2>1 DEF Push, git, WayInv, Quiet
<1>11. CASE UNCHANGED vars \/ \E p \in left : LeftPuppet(p)
  <2>1. UNCHANGED <<pc, req, shared, remote, fetched, detached>>
    BY <1>11 DEF vars, git, LeftPuppet
  <2> QED
    BY <2>1 DEF WayInv
<1>12. CASE Crash
  BY <1>2, <1>12 DEF Crash
<1>13. CASE \E h \in Handler : Receive(h) \/ PuppetApply(h)
  BY <1>1, <1>2, <1>7, <1>8, <1>9, <1>13
<1> QED
  BY <1>1, <1>2, <1>6, <1>7, <1>10, <1>11, <1>12, <1>13 DEF Next

\* rizzod's main ends, and git ends a request that is alone in service, only when a
\* clone or a fetch fails or rizzod is killed.
THEOREM GitFails == Spec => GitFailsByAccident
<1> DEFINE Inv == TypeOK /\ StageInv /\ AloneInv /\ TreeInv /\ CompiledInv /\ WayInv
           Only == /\ pc[Main] # "reset" /\ pc'[Main] = "reset" => Accident
                   /\ \A h \in Handler :
                        ~shared /\ pc[h] \in Pulling \cup {"tree"} /\ pc'[h] = "reply" => Accident
<1>1. Init => Inv
  <2> SUFFICES ASSUME Init PROVE WayInv
    BY CheckAtStart
  <2>1. ~shared /\ \A t \in Thread : pc[t] \in {"reset", "idle"} /\ (t # Main => pc[t] = "idle")
    BY DEF Init
  <2> QED
    BY <2>1 DEF WayInv, Quiet
<1>2. Inv /\ [Next]_vars => Inv'
  BY TypeStep, StageStep, AloneStep, CheckStep, WayStep
<1>3. Inv /\ [Next]_vars => [Only]_vars
  <2> SUFFICES ASSUME Inv, Next PROVE Only
    BY DEF vars
  <2>1. ThreadTypes /\ GitTypes /\ budget \in Int
    BY TypeParts, RizzoApplyAssumption DEF TypeOK
  <2>2. Main \in Thread /\ Handler \subseteq Thread /\ Main \notin Handler
    BY RizzoApplyAssumption DEF Thread
  <2>3. ASSUME NEW t \in Thread, ~shared, pc[t] \notin Quiet
        PROVE  \A u \in Thread \ {t} : pc[u] \in Quiet
    BY <2>3 DEF AloneInv
  <2>4. ASSUME NEW t \in Thread, PullBranch(t), ~shared, ~Accident
        PROVE  pc'[t] \notin {"reset", "reply"}
    <3>1. pc[t] \notin Quiet
      BY <2>1, <2>4, PullMoves DEF Quiet, Pulling
    <3>2. GoesOn(t)
      BY <2>3, <2>4, <3>1, PullGoesOn
    <3> QED
      BY <3>2 DEF GoesOn, Pulling, Pulled
  <2>5. ASSUME pc[Main] # "reset", pc'[Main] = "reset" PROVE Accident
    <3>1. CASE PullBranch(Main)
      <4>1. pc[Main] # "serving"
        BY <2>1, <2>2, <3>1, PullMoves DEF Pulling
      <4>2. ~shared
        BY <4>1 DEF WayInv
      <4> QED
        BY <2>2, <2>4, <2>5, <3>1, <4>2
    <3>2. CASE Crash
      BY <2>1, <3>2 DEF Crash, Accident
    <3>3. ASSUME NEW h \in Handler, PullBranch(h) PROVE Accident
      <4>1. CASE CloneOrOpen(h)
        BY <2>1, <2>2, <2>5, <4>1 DEF CloneOrOpen, Fail, Continue, Goto, ThreadTypes, Accident
      <4>2. CASE ~CloneOrOpen(h)
        <5>1. pc'[Main] = pc[Main]
          BY <2>1, <2>2, <3>3, <4>2 DEF PullBranch, BranchTree, BranchHead, Fetch,
             FastForwardTree, FastForwardMove, CheckoutTree, Fail, Continue, Goto, ThreadTypes
        <5> QED
          BY <2>5, <5>1
      <4> QED
        BY <4>1, <4>2
    <3>4. ASSUME NEW h \in Handler, Receive(h) \/ (PuppetApply(h) /\ ~PullBranch(h)) PROVE FALSE
      <4>1. pc'[Main] = pc[Main]
        BY <2>1, <2>2, <3>4 DEF Receive, PuppetApply, Checkout, CheckoutHead, CheckoutTree, Compile,
             RunPuppet, WriteReport, WriteLastApply, ReadReport, Reply, Fail, Continue, Goto, ThreadTypes
      <4> QED
        BY <2>5, <4>1
    <3>5. CASE Push \/ \E p \in left : LeftPuppet(p)
      BY <2>5, <3>5 DEF Push, LeftPuppet
    <3>6. CASE ResetRepo
      BY <2>5, <3>6 DEF ResetRepo
    <3> QED
      BY <3>1, <3>2, <3>3, <3>4, <3>5, <3>6 DEF Next
  <2>6. ASSUME NEW h \in Handler, ~shared, pc[h] \in Pulling \cup {"tree"}, pc'[h] = "reply"
        PROVE  Accident
    <3>1. pc[h] \notin Quiet /\ pc[h] \notin {"head", "compile", "run", "report", "lastApply", "read", "reply", "idle"}
      BY <2>6 DEF Quiet, Pulling
    <3>2. CASE PullBranch(h)
      BY <2>2, <2>4, <2>6, <3>2
    <3>3. CASE Checkout(h)
      <4>1. pc'[h] = "head"
        BY <2>2, <2>3, <2>6, <3>1, <3>3, CheckoutGoesOn
      <4> QED
        BY <2>6, <4>1
    <3>4. CASE Crash
      BY <2>1, <3>4 DEF Crash, Accident
    <3>10. CASE \E p \in left : LeftPuppet(p)
      BY <2>6, <3>1, <3>10 DEF LeftPuppet
    <3>5. CASE ResetRepo \/ Push
      BY <2>1, <2>2, <2>6, <3>1, <3>5 DEF ResetRepo, Continue, Goto, ThreadTypes, Push
    <3>6. ASSUME NEW t \in Thread \ {h}, PullBranch(t) PROVE pc'[h] # "reply"
      <4>1. CASE Dead
        BY <2>2, <4>1 DEF Dead
      <4>2. CASE \E l : Goto(t, l)
        BY <2>1, <2>2, <3>1, <3>6, <4>2 DEF Goto, ThreadTypes
      <4> QED
        BY <2>1, <3>6, <4>1, <4>2, PullMoves DEF Fail
    <3>7. ASSUME NEW u \in Handler, Receive(u) PROVE pc'[h] # "reply"
      BY <2>1, <2>2, <3>1, <3>7 DEF Receive, Goto, ThreadTypes
    <3>8. ASSUME NEW u \in Handler \ {h}, PuppetApply(u), ~PullBranch(u) PROVE pc'[h] # "reply"
      BY <2>1, <2>2, <3>1, <3>8 DEF PuppetApply, Checkout, CheckoutHead, CheckoutTree, Compile,
            RunPuppet, WriteReport, WriteLastApply, ReadReport, Reply, Fail, Continue, Goto, ThreadTypes
    <3>9. ASSUME PuppetApply(h) PROVE PullBranch(h) \/ Checkout(h)
      BY <3>1, <3>9 DEF PuppetApply, CheckoutHead, Compile, RunPuppet, WriteReport,
            WriteLastApply, ReadReport, Reply
    <3> QED
      BY <2>2, <2>6, <3>2, <3>3, <3>4, <3>5, <3>6, <3>7, <3>8, <3>9, <3>10 DEF Next
  <2> QED
    BY <2>5, <2>6
<1> QED
  BY <1>1, <1>2, <1>3, PTL DEF Spec, GitFailsByAccident

-----------------------------------------------------------------------------
(* What the node is configured as.                                         *)

\* A request is beside the puppets of an earlier rizzod that run while it is served,
\* and an apply among them is remembered until another is completed without them.
LeftInv ==
  /\ \A h \in Handler : pc[h] # "idle" /\ ~req[h].beside => left = {}
  /\ \A p \in left : /\ ~p.noop => torn
                     /\ p.stage = "lastApply" => ~p.noop

LEMMA LeftStep ==
  ASSUME TypeOK, StageInv, LeftInv, [Next]_vars
  PROVE  LeftInv'
<1> DEFINE Kept(p) == p.stage = "lastApply" => ~p.noop
<1>1. ThreadTypes /\ left \in SUBSET Puppet /\ Handler \subseteq Thread /\ Main \notin Handler
  BY TypeParts, RizzoApplyAssumption DEF Thread
<1>2. CASE Dead
  <2>1. \A h \in Handler : pc'[h] = "idle"
    BY <1>1, <1>2 DEF Dead
  <2>2. ASSUME NEW p \in left', ~p.noop PROVE torn'
    BY <1>2, <2>2 DEF Dead
  <2>3. ASSUME NEW p \in left' PROVE Kept(p)
    <3>1. PICK S \in SUBSET Handler : left' = left \cup {PuppetOf(h) : h \in S}
      BY <1>2 DEF Dead
    <3>2. ASSUME NEW h \in S PROVE Kept(PuppetOf(h))
      BY DEF PuppetOf, StageInv, HandlerInv
    <3> QED
      BY <2>3, <3>1, <3>2 DEF LeftInv
  <2> QED
    BY <2>1, <2>2, <2>3 DEF LeftInv
<1>3. ASSUME NEW q \in left, LeftPuppet(q) PROVE LeftInv'
  <2>1. \A h \in Handler : pc'[h] # "idle" => req'[h].beside
    BY <1>3 DEF LeftPuppet, LeftInv
  <2>2. q \in Puppet
    BY <1>1
  <2>3. ASSUME NEW p \in left' \ left PROVE p.noop = q.noop /\ Kept(p)
    <3>1. CASE \/ p = [q EXCEPT !.stage = "run", !.commit = Head, !.tree = tree]
               \/ p = [q EXCEPT !.stage = "report", !.status = "ok"]
               \/ p = [q EXCEPT !.stage = "report", !.status = "failed"]
      BY <2>2, <3>1 DEF Puppet
    <3>2. CASE p = [q EXCEPT !.stage = "lastApply"] /\ ~q.noop
      BY <2>2, <3>2 DEF Puppet
    <3> QED
      BY <1>3, <2>3, <3>1, <3>2 DEF LeftPuppet, LeftGoesOn
  <2>4. torn' = torn
    BY <1>3 DEF LeftPuppet
  <2> QED
    BY <2>1, <2>3, <2>4 DEF LeftInv
\* A step that leaves those puppets alone.
<1>4. ASSUME NEW t \in Thread, left' = left,
             \A u \in Thread \ {t} : pc'[u] = pc[u] /\ req'[u] = req[u],
             t \in Handler /\ pc'[t] # "idle" /\ ~req'[t].beside => left = {},
             left # {} /\ torn => torn'
      PROVE  LeftInv'
  BY <1>1, <1>4 DEF LeftInv
<1>5. ASSUME NEW t \in Thread, left' = left, req' = req, torn' = torn, pc[t] # "idle",
             \A u \in Thread \ {t} : pc'[u] = pc[u]
      PROVE  LeftInv'
  BY <1>4, <1>5 DEF LeftInv
<1>6. ASSUME NEW t \in Thread, PullBranch(t), ~Dead PROVE LeftInv'
  <2>1. pc[t] # "idle" /\ left' = left /\ req' = req /\ torn' = torn
    BY <1>1, <1>6, PullMoves DEF Pulling, Fail
  <2>2. \A u \in Thread \ {t} : pc'[u] = pc[u]
    BY <1>1, <1>6, PullMoves DEF Fail, Goto, ThreadTypes
  <2> QED
    BY <1>5, <2>1, <2>2
<1>7. ASSUME NEW h \in Handler, PuppetApply(h), ~PullBranch(h), ~Dead PROVE LeftInv'
  <2>1. CASE Checkout(h) \/ CheckoutHead(h)
    BY <1>1, <1>5, <2>1 DEF Checkout, CheckoutHead, CheckoutTree, Continue, Fail, Goto, ThreadTypes
  <2>2. CASE Compile(h) \/ RunPuppet(h) \/ ReadReport(h)
    BY <1>1, <1>5, <2>2 DEF Compile, RunPuppet, ReadReport, Goto, ThreadTypes
  <2>3. CASE WriteReport(h)
    <3>1. /\ pc[h] = "report" /\ left' = left /\ req' = req /\ (torn => torn')
          /\ \A u \in Thread \ {h} : pc'[u] = pc[u]
      BY <1>1, <2>3 DEF WriteReport, Goto, ThreadTypes
    <3> QED
      BY <1>1, <1>4, <3>1 DEF LeftInv
  <2>4. CASE WriteLastApply(h)
    <3>1. /\ pc[h] = "lastApply" /\ left' = left /\ req' = req
          /\ torn /\ req[h].beside => torn'
          /\ \A u \in Thread \ {h} : pc'[u] = pc[u]
      BY <1>1, <2>4 DEF WriteLastApply, Goto, ThreadTypes
    <3>2. left # {} => req[h].beside
      BY <3>1 DEF LeftInv
    <3> QED
      BY <1>1, <1>4, <3>1, <3>2
  <2>5. CASE Reply(h)
    <3>1. /\ pc'[h] = "idle" /\ left' = left /\ torn' = torn
          /\ \A u \in Thread \ {h} : pc'[u] = pc[u] /\ req'[u] = req[u]
      BY <1>1, <2>5 DEF Reply, Goto, ThreadTypes
    <3> QED
      BY <1>1, <1>4, <3>1
  <2> QED
    BY <1>7, <2>1, <2>2, <2>3, <2>4, <2>5 DEF PuppetApply
<1>8. ASSUME NEW h \in Handler, Receive(h) PROVE LeftInv'
  <2>1. /\ left' = left /\ (torn => torn')
        /\ \A u \in Thread \ {h} : pc'[u] = pc[u] /\ req'[u] = req[u]
    BY <1>1, <1>8 DEF Receive, Goto, ThreadTypes
  <2>2. req'[h].beside = (left # {})
    <3>1. PICK c \in 1..remote, noop \in BOOLEAN :
            req' = [req EXCEPT ![h] = [commit |-> c, noop |-> noop, beside |-> left # {}]]
      BY <1>8 DEF Receive
    <3> QED
      BY <1>1, <3>1 DEF ThreadTypes
  <2> QED
    BY <1>1, <1>4, <2>1, <2>2
<1>9. CASE ResetRepo
  <2>1. /\ Main \in Thread /\ left' = left /\ req' = req /\ torn' = torn /\ pc[Main] # "idle"
        /\ \A u \in Thread \ {Main} : pc'[u] = pc[u]
    BY <1>1, <1>9 DEF ResetRepo, Continue, Goto, ThreadTypes, Thread
  <2> QED
    BY <1>5, <2>1
<1>10. CASE Push \/ UNCHANGED vars
  BY <1>10 DEF Push, vars, LeftInv
<1>11. CASE Crash
  BY <1>2, <1>11 DEF Crash
<1> QED
  BY <1>1, <1>2, <1>3, <1>6, <1>7, <1>8, <1>9, <1>10, <1>11 DEF Next, Thread

Applying == \E h \in Handler : pc[h] \in {"run", "report", "lastApply"} /\ ~req[h].noop

\* Puppet has brought the node to what it compiled, unless an apply of an earlier
\* rizzod may be at work on it too.
AppliedInv ==
  ~shared => \A h \in Handler :
    /\ pc[h] \in {"report", "lastApply"} /\ ~req[h].noop /\ out[h].status = "ok"
    /\ req[h].beside => ~torn
    => node = run[h].tree

LEMMA NodeStep ==
  ASSUME TypeOK, StageInv, AloneInv, LeftInv, CompiledInv, AppliedInv, LastApplyHolds, [Next]_vars
  PROVE  AppliedInv' /\ LastApplyHolds'
<1> SUFFICES ASSUME ThreadTypes
             PROVE  AppliedInv' /\ LastApplyHolds'
  BY TypeParts
<1> DEFINE Stages == {"run", "report", "lastApply"}
<1>1. Main \in Thread /\ Handler \subseteq Thread /\ Main \notin Handler
  BY RizzoApplyAssumption DEF Thread
<1>2. ASSUME Dead, UNCHANGED <<lastApply, node>> PROVE AppliedInv' /\ LastApplyHolds'
  <2>1. \A h \in Handler : pc'[h] = "idle"
    BY <1>1, <1>2 DEF Dead
  <2>2. ~torn' => ~torn /\ ~Applying
    BY <1>2 DEF Dead, Applying, InPuppet
  <2> QED
    BY <1>2, <2>1, <2>2 DEF AppliedInv, LastApplyHolds, Applying
\* A step by which no apply begins or ends.
<1>3. ASSUME NEW t \in Thread, UNCHANGED <<lastApply, node>>, ~shared' => ~shared,
             torn' => torn', ~torn' => ~torn,
             \A u \in Thread \ {t} : pc'[u] = pc[u] /\ req'[u] = req[u] /\ run'[u] = run[u] /\ out'[u] = out[u],
             t \in Handler => ((pc'[t] \in Stages /\ ~req'[t].noop) <=> (pc[t] \in Stages /\ ~req[t].noop)),
             pc'[t] \in {"report", "lastApply"} =>
               req'[t].noop \/ (pc[t] = "report" /\ req'[t] = req[t] /\ run'[t] = run[t] /\ out'[t] = out[t])
      PROVE  AppliedInv' /\ LastApplyHolds'
  <2>1. Applying' <=> Applying
    BY <1>1, <1>3 DEF Applying
  <2>2. AppliedInv'
    BY <1>1, <1>3 DEF AppliedInv
  <2> QED
    BY <1>3, <2>1, <2>2 DEF LastApplyHolds, Applying
<1>4. ASSUME ~shared, NEW h \in Handler, pc[h] # "idle"
      PROVE  \A u \in Handler \ {h} : pc[u] = "idle"
  BY <1>1, <1>4 DEF AloneInv, StageInv, HandlerInv, Quiet
<1>5. ASSUME NEW h \in Handler, Fail(h), pc[h] \notin Stages, UNCHANGED <<lastApply, node>>
      PROVE  AppliedInv' /\ LastApplyHolds'
  <2>1. h # Main /\ pc'[h] = "reply" /\ UNCHANGED <<req, run, shared, torn>>
    BY <1>1, <1>5 DEF Fail, Goto, ThreadTypes
  <2>2. \A u \in Thread \ {h} : pc'[u] = pc[u] /\ out'[u] = out[u]
    BY <1>1, <1>5, <2>1 DEF Fail, Goto, ThreadTypes
  <2> QED
    BY <1>1, <1>3, <1>5, <2>1, <2>2
<1>6. CASE ResetRepo
  <2>1. pc'[Main] = "open" /\ UNCHANGED <<req, run, out, shared, torn, lastApply, node>>
        /\ \A u \in Thread \ {Main} : pc'[u] = pc[u]
    BY <1>1, <1>6 DEF ResetRepo, Continue, Goto, ThreadTypes
  <2> QED
    BY <1>1, <1>3, <2>1
<1>7. ASSUME NEW t \in Thread, PullBranch(t) PROVE AppliedInv' /\ LastApplyHolds'
  <2>1. pc[t] \notin Stages /\ pc[t] # "idle" /\ UNCHANGED <<lastApply, node>>
    BY <1>7, PullMoves DEF Pulling
  <2>2. CASE t # Main /\ Fail(t)
    BY <1>5, <2>1, <2>2 DEF Thread
  <2>3. CASE /\ \E l \in Pulling \cup {Pulled(t)} : Goto(t, l)
             /\ UNCHANGED <<req, out, left, shared, torn, reports>>
             /\ \A u \in Thread \ {t} : run'[u] = run[u]
    <3>1. pc'[t] \notin Stages /\ \A u \in Thread \ {t} : pc'[u] = pc[u]
      BY <1>7, <2>3 DEF Goto, ThreadTypes, Pulling, Pulled
    <3> QED
      BY <1>3, <1>7, <2>1, <2>3, <3>1
  <2> QED
    BY <1>2, <1>7, <2>1, <2>2, <2>3, PullMoves
<1>8. ASSUME NEW h \in Handler, Receive(h) PROVE AppliedInv' /\ LastApplyHolds'
  <2>1. pc[h] = "idle" /\ pc'[h] = "open" /\ UNCHANGED <<lastApply, node, run, out>>
        /\ (~torn' => ~torn) /\ (~shared' => ~shared)
    BY <1>1, <1>8 DEF Receive, Goto, ThreadTypes, files
  <2>2. \A u \in Thread \ {h} : pc'[u] = pc[u] /\ req'[u] = req[u]
    BY <1>1, <1>8 DEF Receive, Goto, ThreadTypes
  <2>3. Applying' <=> Applying
    BY <1>1, <2>1, <2>2 DEF Applying
  <2>4. AppliedInv'
    BY <1>1, <2>1, <2>2 DEF AppliedInv
  <2> QED
    BY <2>1, <2>3, <2>4 DEF LastApplyHolds, Applying
<1>9. ASSUME NEW h \in Handler, Checkout(h) \/ CheckoutHead(h)
      PROVE  AppliedInv' /\ LastApplyHolds'
  <2>1. pc[h] \notin Stages /\ UNCHANGED <<lastApply, node>>
    BY <1>9 DEF Checkout, CheckoutHead, CheckoutTree
  <2>2. ASSUME NEW l \in {"head", "compile"}, Continue(h, l) PROVE AppliedInv' /\ LastApplyHolds'
    <3>1. pc'[h] = l /\ UNCHANGED <<req, run, out, shared, torn>> /\ \A u \in Thread \ {h} : pc'[u] = pc[u]
      BY <1>1, <2>2 DEF Continue, Goto, ThreadTypes
    <3> QED
      BY <1>1, <1>3, <2>1, <3>1
  <2> QED
    BY <1>5, <1>9, <2>1, <2>2 DEF Checkout, CheckoutHead, CheckoutTree
<1>10. ASSUME NEW h \in Handler, Compile(h) PROVE AppliedInv' /\ LastApplyHolds'
  <2>1. pc[h] = "compile" /\ pc'[h] \in {"run", "reply"} /\ UNCHANGED <<req, lastApply, shared, torn>>
    BY <1>1, <1>10 DEF Compile, Goto, ThreadTypes, files
  <2>2. \A u \in Thread \ {h} : pc'[u] = pc[u] /\ run'[u] = run[u] /\ out'[u] = out[u]
    BY <1>1, <1>10 DEF Compile, Goto, ThreadTypes
  <2>3. CASE pc'[h] = "run" /\ ~req[h].noop
    <3>1. LastApplyHolds'
      BY <2>1, <2>3 DEF LastApplyHolds
    <3>2. ~shared => \A u \in Handler \ {h} : pc[u] = "idle"
      BY <1>4, <2>1
    <3> QED
      BY <1>1, <2>1, <2>2, <2>3, <3>1, <3>2 DEF AppliedInv
  <2>4. CASE pc'[h] = "reply" \/ req[h].noop
    <3>1. node' = node
      BY <1>1, <1>10, <2>4 DEF Compile, Goto, ThreadTypes
    <3> QED
      BY <1>1, <1>3, <2>1, <2>2, <2>4, <3>1
  <2> QED
    BY <2>1, <2>3, <2>4
<1>11. ASSUME NEW h \in Handler, RunPuppet(h) PROVE AppliedInv' /\ LastApplyHolds'
  <2>1. pc[h] = "run" /\ pc'[h] = "report" /\ UNCHANGED <<req, run, lastApply, shared, torn>>
    BY <1>1, <1>11 DEF RunPuppet, Goto, ThreadTypes, files
  <2>2. \A u \in Thread \ {h} : pc'[u] = pc[u] /\ out'[u] = out[u]
    BY <1>1, <1>11 DEF RunPuppet, Goto, ThreadTypes
  <2>3. CASE req[h].noop
    <3>1. node' = node
      BY <1>11, <2>3 DEF RunPuppet
    <3> QED
      BY <1>1, <1>3, <2>1, <2>2, <2>3, <3>1
  <2>4. CASE ~req[h].noop
    <3>1. LastApplyHolds'
      BY <2>1, <2>4 DEF LastApplyHolds
    <3>2. ~shared => \A u \in Handler \ {h} : pc[u] = "idle"
      BY <1>4, <2>1
    <3>3. node' = run[h].tree \/ out'[h].status = "failed"
      <4>1. CASE out' = [out EXCEPT ![h].status = "failed"]
        <5>1. out[h] \in Report \cup {NoReport, Error}
          BY <1>1 DEF ThreadTypes
        <5> QED
          BY <1>1, <4>1, <5>1 DEF ThreadTypes, Report, NoReport, Error
      <4> QED
        BY <1>11, <2>4, <4>1 DEF RunPuppet
    <3> QED
      BY <1>1, <2>1, <2>2, <3>1, <3>2, <3>3 DEF AppliedInv
  <2> QED
    BY <2>3, <2>4
<1>12. ASSUME NEW h \in Handler, WriteReport(h) PROVE AppliedInv' /\ LastApplyHolds'
  <2>1. /\ pc[h] = "report" /\ UNCHANGED <<req, out, lastApply, node, shared>>
        /\ \A u \in Thread \ {h} : pc'[u] = pc[u] /\ run'[u] = run[u]
        /\ run'[h].tree = run[h].tree
    BY <1>1, <1>12 DEF WriteReport, Goto, ThreadTypes, Run
  <2>2. /\ pc'[h] \in {"read", "lastApply"} /\ (pc'[h] = "lastApply" => ~req[h].noop)
        /\ ~torn' => ~torn /\ (~req[h].noop => pc'[h] = "lastApply")
    BY <1>1, <1>12 DEF WriteReport, AfterReport, PuppetOf, Goto, ThreadTypes
  <2>3. AppliedInv'
    BY <1>1, <2>1, <2>2 DEF AppliedInv
  <2>4. CASE torn'
    BY <2>3, <2>4 DEF LastApplyHolds
  <2>5. CASE ~torn'
    <3>1. ~torn /\ (Applying' <=> Applying)
      BY <1>1, <2>1, <2>2, <2>5 DEF Applying
    <3> QED
      BY <2>1, <2>3, <3>1 DEF LastApplyHolds, Applying
  <2> QED
    BY <2>4, <2>5
<1>13. ASSUME NEW h \in Handler, WriteLastApply(h) PROVE AppliedInv' /\ LastApplyHolds'
  <2>1. /\ pc[h] = "lastApply" /\ pc'[h] = "read" /\ ~req[h].noop
        /\ UNCHANGED <<req, out, node, shared>>
        /\ \A u \in Thread \ {h} : pc'[u] = pc[u] /\ run'[u] = run[u]
    BY <1>1, <1>13 DEF WriteLastApply, Goto, ThreadTypes, StageInv, HandlerInv
  <2>2. AppliedInv'
    BY <1>1, <1>4, <2>1 DEF AppliedInv
  <2>3. CASE torn'
    BY <2>2, <2>3 DEF LastApplyHolds
  <2>5. ASSUME ~torn' PROVE /\ ~shared /\ lastApply' = VersionOf(PuppetOf(h))
                            /\ torn => ~req[h].beside
    BY <1>13, <2>5 DEF WriteLastApply, AloneInv
  <2>4. CASE ~torn'
    <3>1. run[h].commit = req[h].commit /\ run[h].tree = Content(req[h].commit)
      BY <2>1, <2>4, <2>5 DEF CompiledInv
    <3>2. out[h].status = "ok" => node = run[h].tree
      BY <2>1, <2>4, <2>5 DEF AppliedInv
    <3>3. /\ lastApply'.commit = run[h].commit
          /\ ~lastApply'.dirty => out[h].status # "failed"
      <4>1. /\ PuppetOf(h).commit = run[h].commit /\ PuppetOf(h).noop = req[h].noop
            /\ PuppetOf(h).status = out[h].status
        BY DEF PuppetOf
      <4>2. lastApply' = VersionOf(PuppetOf(h))
        BY <2>4, <2>5
      <4>3. CASE out[h].status = "failed"
        <5>1. VersionOf(PuppetOf(h)) = [commit |-> run[h].commit, dirty |-> TRUE]
          BY <2>1, <4>1, <4>3 DEF VersionOf
        <5> QED
          BY <4>2, <5>1
      <4>4. CASE out[h].status # "failed"
        BY <4>1, <4>2, <4>4 DEF VersionOf
      <4> QED
        BY <4>3, <4>4
    <3>4. out[h].status \in {"ok", "failed"}
      BY <2>1 DEF StageInv, HandlerInv
    <3> QED
      BY <2>1, <2>2, <3>1, <3>2, <3>3, <3>4 DEF LastApplyHolds
  <2> QED
    BY <2>3, <2>4
<1>14. ASSUME NEW h \in Handler, ReadReport(h) \/ Reply(h) PROVE AppliedInv' /\ LastApplyHolds'
  <2>1. pc[h] \in {"read", "reply"} /\ pc'[h] \in {"reply", "idle"} /\ UNCHANGED <<lastApply, node, shared, torn>>
    BY <1>1, <1>14 DEF ReadReport, Reply, Goto, ThreadTypes, files
  <2>2. \A u \in Thread \ {h} : pc'[u] = pc[u] /\ req'[u] = req[u] /\ run'[u] = run[u] /\ out'[u] = out[u]
    BY <1>1, <1>14 DEF ReadReport, Reply, Goto, ThreadTypes
  <2> QED
    BY <1>1, <1>3, <2>1, <2>2
<1>15. CASE Push \/ UNCHANGED vars
  BY <1>15 DEF Push, vars, files, AppliedInv, LastApplyHolds
<1>16. CASE Crash
  BY <1>2, <1>16 DEF Crash
<1>17. CASE \E h \in Handler : Receive(h) \/ PuppetApply(h)
  BY <1>1, <1>7, <1>8, <1>9, <1>10, <1>11, <1>12, <1>13, <1>14, <1>17 DEF PuppetApply
<1>18. ASSUME NEW q \in left, LeftPuppet(q) PROVE AppliedInv' /\ LastApplyHolds'
  <2>1. UNCHANGED <<pc, req, run, out, shared, torn>>
    BY <1>18 DEF LeftPuppet
  <2>2. CASE q.noop
    <3>1. UNCHANGED <<lastApply, node>>
      BY <1>18, <2>2 DEF LeftPuppet, LeftInv, files
    <3> QED
      BY <2>1, <3>1 DEF AppliedInv, LastApplyHolds
  <2>3. CASE ~q.noop
    <3>1. torn' /\ \A h \in Handler : pc'[h] # "idle" => req'[h].beside
      BY <1>18, <2>1, <2>3 DEF LeftInv
    <3> QED
      BY <3>1 DEF AppliedInv, LastApplyHolds
  <2> QED
    BY <2>2, <2>3
<1> QED
  BY <1>1, <1>6, <1>7, <1>15, <1>16, <1>17, <1>18 DEF Next

\* Between applies a clean last apply tells what the node is configured as, unless
\* an apply was interrupted or overlapped, outlived its rizzod or was not recorded,
\* and none has been completed alone since: the report processor writes it last.
THEOREM LastApplyIsTrue == Spec => []LastApplyHolds
<1> DEFINE Inv == /\ TypeOK /\ StageInv /\ AloneInv /\ LeftInv /\ TreeInv /\ CompiledInv
                  /\ AppliedInv /\ LastApplyHolds
<1>1. Init => Inv
  <2> SUFFICES ASSUME Init PROVE Inv
    OBVIOUS
  <2>1. TypeOK /\ StageInv /\ AloneInv /\ TreeInv /\ CompiledInv
    BY CheckAtStart
  <2>2. AppliedInv /\ LeftInv
    BY RizzoApplyAssumption DEF Init, AppliedInv, LeftInv, Thread
  <2>3. LastApplyHolds
    BY DEF Init, LastApplyHolds, NoVersion
  <2> QED
    BY <2>1, <2>2, <2>3
<1>2. Inv /\ [Next]_vars => Inv'
  BY TypeStep, StageStep, AloneStep, LeftStep, CheckStep, NodeStep
<1>3. Inv => LastApplyHolds
  OBVIOUS
<1> QED
  BY <1>1, <1>2, <1>3, PTL DEF Spec

-----------------------------------------------------------------------------
(* The report that is returned.                                            *)

\* A request whose puppet is alone and writes its files.
Own(h) == ~req[h].beside /\ ~run[h].unwritten

\* When a report is read the file is the request's own, unless its apply failed.
WrittenInv ==
  ~shared => \A h \in Handler : Own(h) =>
    /\ pc[h] = "lastApply" /\ out[h].status = "ok" =>
         reports[req[h].commit].by = h /\ ~reports[req[h].commit].noop
    /\ pc[h] = "read" =>
         \/ ~req[h].noop /\ lastApply = [commit |-> req[h].commit, dirty |-> TRUE]
         \/ /\ reports[req[h].commit].by = h
            /\ reports[req[h].commit].noop => reports[req[h].commit].base = lastApply

LEMMA OwnStep ==
  ASSUME TypeOK, StageInv, AloneInv, LeftInv, CompiledInv, WrittenInv, ReportIsOwn, [Next]_vars
  PROVE  WrittenInv' /\ ReportIsOwn'
<1> SUFFICES ASSUME ThreadTypes, ReportTypes
             PROVE  WrittenInv' /\ ReportIsOwn'
  BY TypeParts
<1>1. Main \in Thread /\ Handler \subseteq Thread /\ Main \notin Handler
  BY RizzoApplyAssumption DEF Thread
<1>2. CASE Dead
  <2>1. \A h \in Handler : pc'[h] = "idle"
    BY <1>1, <1>2 DEF Dead
  <2> QED
    BY <2>1 DEF WrittenInv, ReportIsOwn
<1>3. CASE shared'
  BY <1>3 DEF WrittenInv, ReportIsOwn
<1>4. ASSUME ~shared, NEW t \in Thread, pc[t] \notin Quiet
      PROVE  \A u \in Handler \ {t} : pc[u] = "idle"
  BY <1>1, <1>4 DEF AloneInv, StageInv, HandlerInv, Quiet
\* A step of the one thread at work need be looked at for that thread.
<1>5. ASSUME NEW t \in Thread, ~shared, pc[t] \notin Quiet, \A u \in Thread \ {t} : pc'[u] = pc[u],
             pc'[t] \notin {"lastApply", "read"},
             t \in Handler /\ pc'[t] = "reply" /\ out'[t].status \in {"ok", "failed"} /\ Own(t)'
               /\ (req'[t].noop \/ lastApply' # [commit |-> req'[t].commit, dirty |-> TRUE])
             => out'[t].by = t /\ (out'[t].noop => out'[t].base = lastApply')
      PROVE  WrittenInv' /\ ReportIsOwn'
  <2>1. \A u \in Handler \ {t} : pc'[u] = "idle"
    BY <1>1, <1>4, <1>5
  <2>2. WrittenInv'
    BY <1>5, <2>1 DEF WrittenInv
  <2>3. ReportIsOwn'
    BY <1>5, <2>1 DEF ReportIsOwn, Own
  <2> QED
    BY <2>2, <2>3
<1>6. ASSUME NEW h \in Handler, ~shared, pc[h] \notin Quiet, Fail(h)
      PROVE  WrittenInv' /\ ReportIsOwn'
  <2>1. pc'[h] = "reply" /\ out'[h] = Error /\ \A u \in Thread \ {h} : pc'[u] = pc[u]
    BY <1>1, <1>6 DEF Fail, Goto, ThreadTypes
  <2>2. Error.status = "error"
    BY DEF Error, NoReport
  <2> QED
    BY <1>1, <1>5, <1>6, <2>1, <2>2
<1>7. CASE ResetRepo /\ ~shared
  <2>1. pc[Main] = "reset" /\ pc'[Main] = "open" /\ \A u \in Thread \ {Main} : pc'[u] = pc[u]
    BY <1>1, <1>7 DEF ResetRepo, Continue, Goto, ThreadTypes
  <2> QED
    BY <1>1, <1>5, <1>7, <2>1 DEF Quiet
<1>8. ASSUME NEW t \in Thread, PullBranch(t), ~shared PROVE WrittenInv' /\ ReportIsOwn'
  <2>1. pc[t] \notin Quiet
    BY <1>8, PullMoves DEF Pulling, Quiet
  <2>2. CASE \E l \in Pulling \cup {Pulled(t)} : Goto(t, l)
    <3>1. pc'[t] \notin {"lastApply", "read", "reply"} /\ \A u \in Thread \ {t} : pc'[u] = pc[u]
      BY <1>8, <2>2 DEF Goto, ThreadTypes, Pulling, Pulled
    <3> QED
      BY <1>5, <1>8, <2>1, <3>1
  <2> QED
    BY <1>2, <1>6, <1>8, <2>1, <2>2, PullMoves DEF Thread
<1>9. ASSUME NEW h \in Handler, Receive(h), ~shared' PROVE WrittenInv' /\ ReportIsOwn'
  <2>1. \A u \in Handler : pc'[u] \in {"idle", "open"}
    BY <1>1, <1>9 DEF Receive, Goto, ThreadTypes
  <2> QED
    BY <2>1 DEF WrittenInv, ReportIsOwn
<1>10. ASSUME NEW h \in Handler, Checkout(h) \/ CheckoutHead(h), ~shared
       PROVE  WrittenInv' /\ ReportIsOwn'
  <2>1. pc[h] \notin Quiet
    BY <1>10 DEF Checkout, CheckoutHead, Quiet
  <2>2. ASSUME NEW l \in {"head", "compile"}, Continue(h, l) PROVE WrittenInv' /\ ReportIsOwn'
    <3>1. pc'[h] = l /\ \A u \in Thread \ {h} : pc'[u] = pc[u]
      BY <1>1, <2>2 DEF Continue, Goto, ThreadTypes
    <3> QED
      BY <1>1, <1>5, <1>10, <2>1, <3>1
  <2> QED
    BY <1>6, <1>10, <2>1, <2>2 DEF Checkout, CheckoutHead, CheckoutTree
<1>11. ASSUME NEW h \in Handler, Compile(h), ~shared PROVE WrittenInv' /\ ReportIsOwn'
  <2>1. pc[h] \notin Quiet /\ pc'[h] \in {"run", "reply"} /\ \A u \in Thread \ {h} : pc'[u] = pc[u]
    BY <1>1, <1>11 DEF Compile, Goto, ThreadTypes, Quiet
  <2>2. CASE out' = [out EXCEPT ![h] = Error]
    <3>1. out'[h].status = "error"
      BY <1>1, <2>2 DEF ThreadTypes, Error, NoReport
    <3> QED
      BY <1>1, <1>5, <1>11, <2>1, <3>1
  <2>3. CASE out' = [out EXCEPT ![h] = [NoReport EXCEPT !.status = "failed", !.by = h]]
    <3>1. out'[h].by = h /\ ~out'[h].noop
      BY <1>1, <2>3 DEF ThreadTypes, NoReport
    <3> QED
      BY <1>1, <1>5, <1>11, <2>1, <3>1
  <2>4. CASE Goto(h, "run")
    <3>1. pc'[h] = "run"
      BY <1>1, <2>4 DEF Goto, ThreadTypes
    <3> QED
      BY <1>1, <1>5, <1>11, <2>1, <3>1
  <2> QED
    BY <1>11, <2>2, <2>3, <2>4 DEF Compile
<1>12. ASSUME NEW h \in Handler, RunPuppet(h), ~shared PROVE WrittenInv' /\ ReportIsOwn'
  <2>1. pc[h] \notin Quiet /\ pc'[h] = "report" /\ \A u \in Thread \ {h} : pc'[u] = pc[u]
    BY <1>1, <1>12 DEF RunPuppet, Goto, ThreadTypes, Quiet
  <2> QED
    BY <1>1, <1>5, <1>12, <2>1
<1>13. ASSUME NEW h \in Handler, WriteReport(h), ~shared PROVE WrittenInv' /\ ReportIsOwn'
  <2> DEFINE q == PuppetOf(h)
             rep == [status |-> q.status, noop |-> q.noop, by |-> h,
                     base |-> IF q.noop THEN lastApply ELSE NoVersion]
  <2>1. /\ pc[h] = "report" /\ UNCHANGED <<req, out, lastApply>> /\ pc'[h] \in {"read", "lastApply"}
        /\ \A u \in Thread \ {h} : pc'[u] = pc[u]
    BY <1>1, <1>13 DEF WriteReport, AfterReport, Goto, ThreadTypes
  <2>2. \A u \in Handler \ {h} : pc'[u] = "idle"
    BY <1>1, <1>4, <1>13, <2>1 DEF Quiet
  <2>3. ReportIsOwn'
    BY <2>1, <2>2 DEF ReportIsOwn
  <2>4. CASE run' = [run EXCEPT ![h].unwritten = TRUE]
    <3>1. ~Own(h)'
      BY <1>1, <2>4 DEF Own, ThreadTypes, Run
    <3> QED
      BY <2>2, <2>3, <3>1 DEF WrittenInv
  <2>5. CASE run' = run /\ reports' = Reported(q, h) /\ Goto(h, AfterReport(q))
    <3>1. /\ pc'[h] = IF req[h].noop THEN "read" ELSE "lastApply"
          /\ q.noop = req[h].noop /\ q.status = out[h].status /\ q.commit = run[h].commit
      BY <1>1, <2>5 DEF Goto, AfterReport, PuppetOf, ThreadTypes
    <3>2. run[h].commit = req[h].commit /\ req[h].commit \in Commit
      BY <1>13, <2>1 DEF CompiledInv, StageInv, HandlerInv
    <3>3. req[h].noop \/ out[h].status = "ok" => reports' = [reports EXCEPT ![req[h].commit] = rep]
      BY <2>5, <3>1, <3>2 DEF Reported, VersionOf
    <3>4. rep.by = h /\ rep.noop = req[h].noop /\ (req[h].noop => rep.base = lastApply)
      BY <3>1
    <3> HIDE DEF q, rep
    <3>5. req[h].noop \/ out[h].status = "ok" => reports'[req[h].commit] = rep
      BY <3>2, <3>3 DEF ReportTypes
    <3>6. WrittenInv'
      BY <2>1, <2>2, <3>1, <3>4, <3>5 DEF WrittenInv
    <3> QED
      BY <2>3, <3>6
  <2> QED
    BY <1>13, <2>4, <2>5 DEF WriteReport
<1>14. ASSUME NEW h \in Handler, WriteLastApply(h), ~shared PROVE WrittenInv' /\ ReportIsOwn'
  <2>1. /\ pc[h] = "lastApply" /\ pc'[h] = "read" /\ ~req[h].noop /\ out[h].status \in {"ok", "failed"}
        /\ UNCHANGED <<req, out, reports>> /\ \A u \in Thread \ {h} : pc'[u] = pc[u]
    BY <1>1, <1>14 DEF WriteLastApply, Goto, ThreadTypes, StageInv, HandlerInv
  <2>2. \A u \in Handler \ {h} : pc'[u] = "idle"
    BY <1>1, <1>4, <1>14, <2>1 DEF Quiet
  <2>3. ReportIsOwn'
    BY <2>1, <2>2 DEF ReportIsOwn
  <2>4. CASE run' = [run EXCEPT ![h].unwritten = TRUE]
    <3>1. ~Own(h)'
      BY <1>1, <2>4 DEF Own, ThreadTypes, Run
    <3> QED
      BY <2>2, <2>3, <3>1 DEF WrittenInv
  <2>5. CASE run' = run /\ lastApply' = VersionOf(PuppetOf(h))
    <3>1. run[h].commit = req[h].commit
      BY <1>14, <2>1 DEF CompiledInv
    <3>2. out[h].status = "failed" => lastApply' = [commit |-> req[h].commit, dirty |-> TRUE]
      BY <2>1, <2>5, <3>1 DEF VersionOf, PuppetOf
    <3>3. Own(h)' => Own(h)
      BY <2>1, <2>5 DEF Own
    <3>4. out[h].status = "ok" /\ Own(h) => reports[req[h].commit].by = h /\ ~reports[req[h].commit].noop
      BY <1>14, <2>1 DEF WrittenInv
    <3>5. WrittenInv'
      BY <2>1, <2>2, <3>2, <3>3, <3>4 DEF WrittenInv
    <3> QED
      BY <2>3, <3>5
  <2> QED
    BY <1>14, <2>4, <2>5 DEF WriteLastApply
<1>15. ASSUME NEW h \in Handler, ReadReport(h), ~shared PROVE WrittenInv' /\ ReportIsOwn'
  <2>1. /\ pc[h] = "read" /\ pc'[h] = "reply" /\ UNCHANGED <<req, run, lastApply>>
        /\ \A u \in Thread \ {h} : pc'[u] = pc[u]
    BY <1>1, <1>15 DEF ReadReport, Goto, ThreadTypes, files
  <2>2. out'[h] = Error \/ out'[h] = reports[req[h].commit]
    BY <1>1, <1>15 DEF ReadReport, ThreadTypes
  <2>3. Error.status = "error"
    BY DEF Error, NoReport
  <2>4. \/ ~Own(h)
        \/ ~req[h].noop /\ lastApply = [commit |-> req[h].commit, dirty |-> TRUE]
        \/ /\ reports[req[h].commit].by = h
           /\ reports[req[h].commit].noop => reports[req[h].commit].base = lastApply
    BY <1>15, <2>1 DEF WrittenInv
  <2>5. Own(h)' => Own(h)
    BY <2>1 DEF Own
  <2> QED
    BY <1>1, <1>5, <1>15, <2>1, <2>2, <2>3, <2>4, <2>5 DEF Quiet
<1>16. ASSUME NEW h \in Handler, Reply(h), ~shared PROVE WrittenInv' /\ ReportIsOwn'
  <2>1. pc[h] \notin Quiet /\ pc'[h] = "idle" /\ \A u \in Thread \ {h} : pc'[u] = pc[u]
    BY <1>1, <1>16 DEF Reply, Goto, ThreadTypes, Quiet
  <2> QED
    BY <1>1, <1>5, <1>16, <2>1
<1>17. CASE Push \/ UNCHANGED vars
  BY <1>17 DEF Push, vars, files, WrittenInv, ReportIsOwn, Own
<1>18. CASE Crash
  BY <1>2, <1>18 DEF Crash
<1>19. CASE \E h \in Handler : Receive(h) \/ PuppetApply(h)
  <2>1. Dead \/ shared' \/ ~shared
    BY StepKinds DEF Receive, Steps
  <2> QED
    BY <1>1, <1>2, <1>3, <1>8, <1>9, <1>10, <1>11, <1>12, <1>13, <1>14, <1>15, <1>16, <1>19, <2>1
       DEF PuppetApply
<1>20. Dead \/ shared' \/ ~shared
  BY StepKinds DEF Receive, Steps
<1>21. CASE \E q \in left : LeftPuppet(q)
  <2>1. \A h \in Handler : pc'[h] # "idle" => req'[h].beside
    BY <1>21 DEF LeftPuppet, LeftInv
  <2> QED
    BY <2>1 DEF WrittenInv, ReportIsOwn, Own
<1> QED
  BY <1>1, <1>2, <1>3, <1>7, <1>8, <1>17, <1>18, <1>19, <1>20, <1>21 DEF Next

\* The report that rizzod returns was written for the request, and a noop's was
\* taken against the node's present last apply, when puppet could write its files
\* and no puppet of an earlier rizzod ran beside it.  rizzod reads it from a file
\* that is named after the commit only.
THEOREM ReportIsTheRequests == Spec => []ReportIsOwn
<1> DEFINE Inv == /\ TypeOK /\ StageInv /\ AloneInv /\ LeftInv /\ TreeInv /\ CompiledInv
                  /\ WrittenInv /\ ReportIsOwn
<1>1. Init => Inv
  <2> SUFFICES ASSUME Init PROVE Inv
    OBVIOUS
  <2>1. TypeOK /\ StageInv /\ AloneInv /\ TreeInv /\ CompiledInv
    BY CheckAtStart
  <2>2. \A h \in Handler : pc[h] = "idle"
    BY RizzoApplyAssumption DEF Init, Thread
  <2>3. WrittenInv /\ ReportIsOwn /\ LeftInv
    BY <2>2 DEF Init, WrittenInv, ReportIsOwn, LeftInv
  <2> QED
    BY <2>1, <2>3
<1>2. Inv /\ [Next]_vars => Inv'
  BY TypeStep, StageStep, AloneStep, LeftStep, CheckStep, OwnStep
<1>3. Inv => ReportIsOwn
  OBVIOUS
<1> QED
  BY <1>1, <1>2, <1>3, PTL DEF Spec
=============================================================================
