-------------------------------- MODULE Release --------------------------------
(***************************************************************************)
(* From a commit to its release: noopLoop opens an issue for every commit  *)
(* and saves its grouped noop; approvalLoop closes the issues whose noop is*)
(* approved and opens the others; milestoneLoop puts the issues of a tag   *)
(* under its milestone; the apply cron applies the tags when every commit  *)
(* of every tag is approved.  The loops share GitHub and the files of the  *)
(* noops, and noop and apply share a lock; users comment, close and open   *)
(* issues between their steps.  Tag 0 is the one all nodes have at start.  *)
(***************************************************************************)
EXTENDS NoopApproved, Integers, FiniteSets

CONSTANTS Commit,
          LastTag,      \* bound: the last tag that is pushed
          TagOf,        \* the first tag that contains a commit
          Author,       \* the GitHub users of a commit's authors, {} if unknown
          Noops,        \* what the noops of the commits may find
          Codeowners,   \* the versions of CODEOWNERS on the branch
          MaxMoves      \* bound: changes by users, and calls that fail

CommitsOf(t) == {c \in Commit : TagOf[c] = t}
Tag == 1..LastTag

ASSUME ReleaseAssumption ==
  /\ LastTag \in Nat \ {0} /\ MaxMoves \in Nat
  /\ TagOf \in [Commit -> Tag]
  /\ \A t \in Tag : CommitsOf(t) # {}
  /\ Author \in [Commit -> SUBSET User]
  /\ Noops \subseteq [Commit -> [resources : SUBSET Resource, evalErrors : BOOLEAN]]
  /\ Codeowners \subseteq [Resource -> Owners] /\ Codeowners # {}

VARIABLES autoClose,  \* auto_close_issues of the configuration
          issue,      \* the issue of each commit
          milestoned, \* the tag whose milestone the issue is under, 0 for none
          comments,   \* users with an approving comment on the issue
          report,     \* what the noop of each commit finds
          saved,      \* the commits whose grouped noop is on disk
          codeowners, \* the CODEOWNERS of the work repository
          milestone,  \* the milestone of each tag
          tags,       \* the last tag of the repository
          common,     \* the tag that all nodes have
          loop,       \* approvalLoop: its commits, its place, what it has read
          run,        \* the apply cron: its tags, its place, what it has read
          moves,      \* users' changes and failed calls so far
          since       \* history: approvals and CODEOWNERS seen since run began

github == <<issue, milestoned, comments, milestone>>
disk == <<saved, codeowners>>
env == <<autoClose, report, tags, common>>
vars == <<github, disk, env, loop, run, moves, since>>

IdleLoop == [pc |-> "next", todo |-> {}, commit |-> CHOOSE c \in Commit : TRUE,
             issue |-> "none", co |-> CHOOSE v \in Codeowners : TRUE]
IdleRun == [pc |-> "idle", prior |-> 0, tag |-> 0, last |-> 0, todo |-> {}, approved |-> TRUE,
            commit |-> CHOOSE c \in Commit : TRUE, co |-> CHOOSE v \in Codeowners : TRUE]

NothingSince == [said |-> [c \in Commit |-> {}], versions |-> {}]

LoopState == [pc : {"next", "report", "approvers", "close", "open"},
              todo : SUBSET Commit, commit : Commit,
              issue : {"none", "open", "closed"}, co : Codeowners]
RunState == [pc : {"idle", "milestone", "commits", "approvers", "close", "apply"},
             prior : Tag \cup {0}, tag : Tag \cup {0}, last : Tag \cup {0},
             todo : SUBSET Commit, approved : BOOLEAN, commit : Commit, co : Codeowners]
History == [said : [Commit -> SUBSET User], versions : SUBSET Codeowners]

TypeOK ==
  /\ autoClose \in BOOLEAN
  /\ issue \in [Commit -> {"none", "open", "closed"}]
  /\ milestoned \in [Commit -> Tag \cup {0}]
  /\ comments \in [Commit -> SUBSET User]
  /\ report \in Noops /\ saved \subseteq Commit
  /\ codeowners \in Codeowners
  /\ milestone \in [Tag -> {"none", "open", "closed"}]
  /\ tags \in Tag \cup {0} /\ common \in Tag \cup {0}
  /\ loop \in LoopState
  /\ run \in RunState
  /\ moves \in 0..MaxMoves
  /\ since \in History

Init ==
  /\ autoClose \in BOOLEAN
  /\ issue = [c \in Commit |-> "none"]
  /\ milestoned = [c \in Commit |-> 0]
  /\ comments = [c \in Commit |-> {}]
  /\ report \in Noops /\ saved = {}
  /\ codeowners \in Codeowners
  /\ milestone = [t \in Tag |-> "none"]
  /\ tags = 0 /\ common = 0
  /\ loop = IdleLoop /\ run = IdleRun
  /\ moves = 0
  /\ since = NothingSince

Pending == {c \in Commit : TagOf[c] > common}
NextTags == (common + 1)..tags

\* A user acts, or a call of Heckler fails.
Move == moves < MaxMoves /\ moves' = moves + 1

-----------------------------------------------------------------------------
(* noopLoop.                                                               *)

\* noop has noopLock, which apply waits for: it has created an issue and has not
\* yet saved the grouped noop.
noopLocked == \E c \in Commit : issue[c] # "none" /\ c \notin saved

\* The issue of a commit is created when it has been nooped on all nodes; the
\* grouped noop is saved afterwards.  No run of apply is under way.
CreateIssue(c) ==
  /\ run.pc = "idle" /\ ~noopLocked
  /\ c \in Pending /\ issue[c] = "none"
  /\ issue' = [issue EXCEPT ![c] = "open"]
  /\ UNCHANGED <<milestoned, comments, milestone, disk, env, loop, run, moves, since>>

SaveReport(c) ==
  /\ issue[c] # "none" /\ c \notin saved
  /\ saved' = saved \cup {c}
  /\ UNCHANGED <<github, codeowners, env, loop, run, moves, since>>

-----------------------------------------------------------------------------
(* approvalLoop and updateIssueApproval.                                   *)

\* A round goes over the commits after the common tag, in any order.
StartRound ==
  /\ loop.pc = "next" /\ loop.todo = {} /\ Pending # {}
  /\ loop' = [IdleLoop EXCEPT !.todo = Pending]
  /\ UNCHANGED <<github, disk, env, run, moves, since>>

\* The loop goes on with the commits of todo.
Continue(todo) == loop' = [IdleLoop EXCEPT !.todo = todo]
Goto(pc) == loop' = [loop EXCEPT !.pc = pc]

\* A commit's issue is read; what is decided from here on is about this copy.
ReadIssue(c) ==
  /\ loop.pc = "next" /\ c \in loop.todo
  /\ IF issue[c] = "none" \/ (autoClose /\ issue[c] = "closed")
     THEN Continue(loop.todo \ {c})
     ELSE loop' = [loop EXCEPT !.commit = c, !.issue = issue[c], !.todo = @ \ {c},
                               !.pc = IF autoClose THEN "close" ELSE "report"]
  /\ UNCHANGED <<github, disk, env, run, moves, since>>

\* The noop is read, and, for one that needs an approval, the owners.
ReadReport ==
  /\ loop.pc = "report"
  /\ LET c == loop.commit
         required == noopRequiresApproval(report[c])
     IN \/ c \in saved /\ required
           /\ loop' = [loop EXCEPT !.pc = "approvers", !.co = codeowners]
        \/ c \in saved /\ ~required /\ loop.issue = "open" /\ Goto("close")
        \/ (c \in saved => ~required /\ loop.issue = "closed") /\ Continue(loop.todo)
  /\ UNCHANGED <<github, disk, env, run, moves, since>>

\* Mutated form of ReadApprovers: an issue closed by hand stays closed.
ReadApproversOneWay ==
  /\ loop.pc = "approvers"
  /\ LET c == loop.commit
         approved == noopApproved(report[c].resources, loop.co, comments[c], Author[c])
     IN \/ approved /\ loop.issue = "open" /\ Goto("close")
        \/ (approved => loop.issue = "closed") /\ Continue(loop.todo)
  /\ UNCHANGED <<github, disk, env, run, moves, since>>

\* The comments are read; the issue is closed or opened if its copy was not.
ReadApprovers ==
  /\ loop.pc = "approvers"
  /\ LET c == loop.commit
         approved == noopApproved(report[c].resources, loop.co, comments[c], Author[c])
     IN \/ approved /\ loop.issue = "open" /\ Goto("close")
        \/ ~approved /\ loop.issue = "closed" /\ Goto("open")
        \/ (approved <=> loop.issue = "closed") /\ Continue(loop.todo)
  /\ UNCHANGED <<github, disk, env, run, moves, since>>

WriteIssue ==
  /\ loop.pc \in {"close", "open"}
  /\ issue' = [issue EXCEPT ![loop.commit] = IF loop.pc = "close" THEN "closed" ELSE "open"]
  /\ Continue(loop.todo)
  /\ UNCHANGED <<milestoned, comments, milestone, disk, env, run, moves, since>>

\* A failed call: the loop goes on with the next commit.
LoopFails ==
  /\ Move
  /\ \/ loop.pc # "next" /\ Continue(loop.todo)
     \/ loop.pc = "next" /\ \E c \in loop.todo : Continue(loop.todo \ {c})
  /\ UNCHANGED <<github, disk, env, run, since>>

approvalLoop == \/ StartRound \/ ReadReport \/ ReadApprovers \/ WriteIssue
                \/ \E c \in Commit : ReadIssue(c)

-----------------------------------------------------------------------------
(* milestoneLoop and reconcileMilestone.                                   *)

\* Every next tag gets a milestone, from the earliest to the latest.
CreateMilestone(t) ==
  /\ t \in NextTags /\ milestone[t] = "none"
  /\ \A u \in NextTags : u < t => milestone[u] # "none"
  /\ milestone' = [milestone EXCEPT ![t] = "open"]
  /\ UNCHANGED <<issue, milestoned, comments, disk, env, loop, run, moves, since>>

\* Mutated form of UpdateMilestone: closed issues are left alone.
UpdateMilestoneOpen(c) ==
  /\ TagOf[c] \in NextTags /\ milestone[TagOf[c]] # "none"
  /\ issue[c] = "open" /\ milestoned[c] # TagOf[c]
  /\ milestoned' = [milestoned EXCEPT ![c] = TagOf[c]]
  /\ UNCHANGED <<issue, comments, milestone, disk, env, loop, run, moves, since>>

\* The issues of a tag's commits are put under its milestone, closed ones too.
UpdateMilestone(c) ==
  /\ TagOf[c] \in NextTags /\ milestone[TagOf[c]] # "none"
  /\ issue[c] # "none" /\ milestoned[c] # TagOf[c]
  /\ milestoned' = [milestoned EXCEPT ![c] = TagOf[c]]
  /\ UNCHANGED <<issue, comments, milestone, disk, env, loop, run, moves, since>>

-----------------------------------------------------------------------------
(* The apply cron: apply, greatestTagApproved, tagReadyAndApproved and     *)
(* tagApproved.                                                            *)

\* The run is over.
End == run' = IdleRun /\ since' = NothingSince

\* The tags after the common tag are taken in order; the first one that is not
\* ready and approved ends the run, because only the last tag is applied.
StartApply ==
  /\ run.pc = "idle" /\ ~noopLocked /\ NextTags # {}
  /\ run' = [IdleRun EXCEPT !.pc = "milestone", !.prior = common, !.tag = common + 1,
                            !.last = tags]
  /\ since' = [said |-> comments, versions |-> {codeowners}]
  /\ UNCHANGED <<github, disk, env, loop, moves>>

ReadMilestone ==
  /\ run.pc = "milestone"
  /\ IF milestone[run.tag] = "none" THEN End
     ELSE /\ run' = [run EXCEPT !.pc = "commits", !.todo = CommitsOf(run.tag)]
          /\ UNCHANGED since
  /\ UNCHANGED <<github, disk, env, loop, moves>>

\* The next commit of the tag: its issue, its noop, and, where it takes one, its
\* approval, for which the owners are read first.
Checked(c, approved) ==
  run' = [run EXCEPT !.pc = "commits", !.todo = @ \ {c}, !.approved = @ /\ approved,
                     !.commit = IdleRun.commit, !.co = IdleRun.co]

CheckCommit(c) ==
  /\ run.pc = "commits" /\ c \in run.todo
  /\ LET ready == issue[c] # "none" /\ milestoned[c] = run.tag /\ c \in saved
         required == noopRequiresApproval(report[c]) /\ ~autoClose
     IN \/ ~ready /\ Checked(c, FALSE)
        \/ ready /\ ~required /\ Checked(c, TRUE)
        \/ ready /\ required
           /\ run' = [run EXCEPT !.pc = "approvers", !.commit = c, !.co = codeowners]
  /\ UNCHANGED <<github, disk, env, loop, moves, since>>

\* Mutated form of CheckApprovers: a closed issue counts as an approval.
CheckApproversClosed ==
  /\ run.pc = "approvers"
  /\ Checked(run.commit, issue[run.commit] = "closed")
  /\ UNCHANGED <<github, disk, env, loop, moves, since>>

CheckApprovers ==
  /\ run.pc = "approvers"
  /\ LET c == run.commit
     IN Checked(c, noopApproved(report[c].resources, run.co, comments[c], Author[c]))
  /\ UNCHANGED <<github, disk, env, loop, moves, since>>

TagChecked ==
  /\ run.pc = "commits" /\ run.todo = {}
  /\ IF run.approved THEN run' = [run EXCEPT !.pc = "close"] /\ UNCHANGED since
     ELSE End
  /\ UNCHANGED <<github, disk, env, loop, moves>>

\* Mutated form of CloseMilestone: one tag too many is looked at.
CloseMilestonePastLast ==
  /\ run.pc = "close"
  /\ milestone' = [milestone EXCEPT ![run.tag] = "closed"]
  /\ run' = IF run.tag > run.last THEN [run EXCEPT !.pc = "apply"]
            ELSE [run EXCEPT !.pc = "milestone", !.tag = @ + 1]
  /\ UNCHANGED <<issue, milestoned, comments, disk, env, loop, moves, since>>

\* The milestone of an approved tag is closed, and the next tag is looked at.
CloseMilestone ==
  /\ run.pc = "close"
  /\ milestone' = [milestone EXCEPT ![run.tag] = "closed"]
  /\ run' = IF run.tag = run.last THEN [run EXCEPT !.pc = "apply"]
            ELSE [run EXCEPT !.pc = "milestone", !.tag = @ + 1]
  /\ UNCHANGED <<issue, milestoned, comments, disk, env, loop, moves, since>>

\* The last tag is applied to all nodes; some may be left out, or fail, and then
\* the common tag stays.
Apply ==
  /\ run.pc = "apply"
  /\ \/ common' = run.last /\ UNCHANGED moves
     \/ Move /\ UNCHANGED common
  /\ End
  /\ UNCHANGED <<github, disk, autoClose, report, tags, loop>>

ApplyFails ==
  /\ run.pc \notin {"idle", "apply"} /\ Move
  /\ End
  /\ UNCHANGED <<github, disk, env, loop>>

apply == \/ StartApply \/ ReadMilestone \/ (\E c \in Commit : CheckCommit(c))
         \/ CheckApprovers \/ TagChecked \/ CloseMilestone \/ Apply

-----------------------------------------------------------------------------
(* Users, autoTag, and the nodes.                                          *)

\* A user writes an approving comment, or edits or deletes it.
Comment(c, u) ==
  /\ issue[c] # "none" /\ Move
  /\ comments' = [comments EXCEPT ![c] = IF u \in @ THEN @ \ {u} ELSE @ \cup {u}]
  /\ since' = IF run.pc = "idle" THEN since
              ELSE [since EXCEPT !.said[c] = @ \cup comments'[c]]
  /\ UNCHANGED <<issue, milestoned, milestone, disk, env, loop, run>>

\* A user closes an issue, or opens it again.
SetIssue(c) ==
  /\ issue[c] # "none" /\ Move
  /\ issue' = [issue EXCEPT ![c] = IF @ = "open" THEN "closed" ELSE "open"]
  /\ UNCHANGED <<milestoned, comments, milestone, disk, env, loop, run, since>>

\* A change of CODEOWNERS reaches the work repository.
Pull ==
  /\ Move
  /\ codeowners' \in Codeowners \ {codeowners}
  /\ since' = IF run.pc = "idle" THEN since
              ELSE [since EXCEPT !.versions = @ \cup {codeowners'}]
  /\ UNCHANGED <<github, saved, env, loop, run>>

\* A tag appears, pushed by a user or created by autoTag.
createTag ==
  /\ tags < LastTag /\ tags' = tags + 1
  /\ UNCHANGED <<github, disk, autoClose, report, common, loop, run, moves, since>>

\* The common tag is the earliest one of the nodes that are not locked and answer:
\* a node that was left out of an apply brings it back.
commonTagNodeSet ==
  /\ common > 0 /\ Move
  /\ common' \in 0..(common - 1)
  /\ UNCHANGED <<github, disk, autoClose, report, tags, loop, run, since>>

Users == \/ \E c \in Commit : SetIssue(c) \/ \E u \in User : Comment(c, u)
         \/ Pull \/ createTag \/ commonTagNodeSet

noopLoop == \E c \in Commit : CreateIssue(c) \/ SaveReport(c)
milestoneLoop == (\E t \in Tag : CreateMilestone(t)) \/ \E c \in Commit : UpdateMilestone(c)

Next == noopLoop \/ approvalLoop \/ LoopFails \/ milestoneLoop \/ apply \/ ApplyFails \/ Users

\* Each loop is a goroutine that sleeps between rounds, or a cron job; noopLock, a
\* sync.Mutex, is handed to who waits for it however often apply takes it.
Spec == /\ Init /\ [][Next]_vars
        /\ SF_vars(noopLoop) /\ WF_vars(approvalLoop)
        /\ WF_vars(milestoneLoop) /\ WF_vars(apply)

-----------------------------------------------------------------------------
(* Properties.                                                             *)

\* What is about to be applied has been reviewed: while the run looked at the
\* tags, every commit of theirs that changes something had approvals, of others
\* than its authors, that cover all it changes, or an admin's.  Closing the issue
\* by hand is not enough, nor is an approval withdrawn before.
AppliedIsReviewed ==
  run.pc = "apply" /\ ~autoClose =>
    \A c \in Commit : TagOf[c] \in (run.prior + 1)..run.last =>
      \E co \in since.versions :
        Reviewed(report[c].resources, co, since.said[c], Author[c])

\* Whether the noop of a commit needs no approval any more.
Cleared(c) ==
  /\ c \in saved
  /\ \/ autoClose \/ ~noopRequiresApproval(report[c])
     \/ noopApproved(report[c].resources, codeowners, comments[c], Author[c])

\* However users and failures interfere, once they stop the issue of a commit not
\* yet released is closed exactly when its noop is approved.
IssueFollowsApproval ==
  \A c \in Commit :
    <>[](TagOf[c] <= common \/ (issue[c] = "closed" <=> Cleared(c)))

\* When the owners have approved, and no more tags come, all nodes end up with the
\* last tag.
ReleaseHappens == <>[](\A c \in Commit : c \in saved => Cleared(c)) => <>[](common = tags)

\* "We should not auto approve the commit if it introduced some type of breakage
\* manifesting in an EvalError": such a commit is not applied unless somebody
\* approved it.
BreakageIsApproved ==
  run.pc = "apply" /\ ~autoClose =>
    \A c \in Commit :
      TagOf[c] \in (run.prior + 1)..run.last /\ report[c].evalErrors => since.said[c] # {}
=============================================================================
