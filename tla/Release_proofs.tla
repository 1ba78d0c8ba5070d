---------------------------- MODULE Release_proofs ----------------------------
(***************************************************************************)
(* Whatever the loops interleave with, what is about to be applied has been*)
(* reviewed.  The argument follows a run of the apply cron through its     *)
(* tags: approvals and CODEOWNERS that were seen since the run began only  *)
(* accumulate, so a commit that has passed its check stays reviewed.       *)
(***************************************************************************)
EXTENDS Release, TLAPS

-----------------------------------------------------------------------------
(* Approval.                                                               *)

\* Whoever intersectionOwnersApprovers returns is an approver and is one of the
\* owners, or a member of one: expanding fewer groups only loses approvers.
LEMMA ApproversOwn ==
  ASSUME NEW owners, NEW approvers \in SUBSET User, NEW asked \in SUBSET Group
  PROVE  intersectionOwnersApprovers(owners, approvers, asked)
           \subseteq approvers \cap People(owners)
BY DEF intersectionOwnersApprovers, People

\* What noopApproved accepts has been reviewed.
LEMMA ApprovedIsReviewed ==
  ASSUME NEW resources, NEW co, NEW approvers \in SUBSET User, NEW authors,
         noopApproved(resources, co, approvers, authors)
  PROVE  Reviewed(resources, co, approvers, authors)
<1>1. CASE AdminOwner \cap approvers # {}
  BY <1>1 DEF Reviewed
<1>2. CASE resourcesApproved(resources, co, approvers \ authors)
  <2> DEFINE valid == approvers \ authors
             asked == groups(resources, co)
  <2>1. valid \in SUBSET User /\ asked \in SUBSET Group
    BY DEF groups
  <2>2. \A owners : intersectionOwnersApprovers(owners, valid, asked)
                      \subseteq valid \cap People(owners)
    BY <2>1, ApproversOwn
  <2> HIDE DEF valid, asked
  <2>3. ASSUME NEW r \in resources
        PROVE  \/ valid \cap People(co[r].file) # {}
               \/ valid \cap People(co[r].module) # {}
               \/ /\ co[r].nodeFiles # {}
                  /\ \A nodeFile \in co[r].nodeFiles : valid \cap People(nodeFile) # {}
    <3>1. resourceApproved(co[r], valid, asked)
      BY <1>2, <2>3 DEF resourcesApproved, valid, asked
    <3>2. \A owners : intersectionOwnersApprovers(owners, valid, asked) # {}
                        => valid \cap People(owners) # {}
      BY <2>2
    <3> QED
      BY <3>1, <3>2 DEF resourceApproved
  <2>4. OwnsAll(resources, co, valid)
    BY <2>3 DEF OwnsAll
  <2> QED
    BY <2>4 DEF Reviewed, valid
<1> QED
  BY <1>1, <1>2 DEF noopApproved

\* More approvals do not undo a review.
LEMMA ReviewedMonotone ==
  ASSUME NEW resources, NEW co, NEW authors, NEW A, NEW B, A \subseteq B,
         Reviewed(resources, co, A, authors)
  PROVE  Reviewed(resources, co, B, authors)
<1>1. CASE AdminOwner \cap A # {}
  BY <1>1 DEF Reviewed
<1>2. CASE OwnsAll(resources, co, A \ authors)
  <2>1. \A P : (A \ authors) \cap P # {} => (B \ authors) \cap P # {}
    OBVIOUS
  <2>2. OwnsAll(resources, co, B \ authors)
    BY <1>2, <2>1 DEF OwnsAll
  <2> QED
    BY <2>2 DEF Reviewed
<1> QED
  BY <1>1, <1>2 DEF Reviewed

\* No approvers are lost among owners whose groups are asked for.
LEMMA ApproversFound ==
  ASSUME NEW owners \in SUBSET Owner, NEW approvers \in SUBSET User, NEW asked \in SUBSET Group,
         owners \cap Group \subseteq asked
  PROVE  approvers \cap People(owners)
           \subseteq intersectionOwnersApprovers(owners, approvers, asked)
<1>1. \A u \in User : u \notin asked
  BY NoopApprovedAssumption
<1> QED
  BY <1>1 DEF intersectionOwnersApprovers, People

\* What has been reviewed noopApproved accepts, if an author is known and no group owns
\* a module of the commit without owning one of its files or node files: these are
\* the only approvals that hecklerd overlooks.
THEOREM ReviewedIsApproved ==
  ASSUME NEW resources, NEW co \in [resources -> Owners],
         NEW approvers \in SUBSET User, NEW authors, authors # {},
         \A r \in resources : co[r].module \cap Group \subseteq groups(resources, co),
         Reviewed(resources, co, approvers, authors)
  PROVE  noopApproved(resources, co, approvers, authors)
<1>1. CASE AdminOwner \cap approvers # {}
  BY <1>1 DEF noopApproved
<1>2. CASE OwnsAll(resources, co, approvers \ authors)
  <2> DEFINE valid == approvers \ authors
             asked == groups(resources, co)
  <2>1. valid \in SUBSET User /\ asked \in SUBSET Group
    BY DEF groups
  <2>2. ASSUME NEW r \in resources
        PROVE  resourceApproved(co[r], valid, asked)
    <3>1. /\ co[r].file \in SUBSET Owner /\ co[r].module \in SUBSET Owner
          /\ co[r].nodeFiles \in SUBSET SUBSET Owner
      BY DEF Owners
    <3>2. /\ co[r].file \cap Group \subseteq asked
          /\ \A nodeFile \in co[r].nodeFiles : nodeFile \cap Group \subseteq asked
      BY DEF groups
    <3>3. co[r].module \cap Group \subseteq asked
      OBVIOUS
    <3> HIDE DEF valid, asked
    <3>4. \A owners \in SUBSET Owner :
            owners \cap Group \subseteq asked /\ valid \cap People(owners) # {}
              => intersectionOwnersApprovers(owners, valid, asked) # {}
      BY <2>1, ApproversFound
    <3>5. \/ valid \cap People(co[r].file) # {}
          \/ valid \cap People(co[r].module) # {}
          \/ /\ co[r].nodeFiles # {}
             /\ \A nodeFile \in co[r].nodeFiles : valid \cap People(nodeFile) # {}
      BY <1>2 DEF OwnsAll, valid
    <3>6. ASSUME NEW nodeFile \in co[r].nodeFiles
          PROVE  nodeFile \in SUBSET Owner
      BY <3>1
    <3> QED
      BY <3>1, <3>2, <3>3, <3>4, <3>5, <3>6 DEF resourceApproved
  <2> QED
    BY <2>2 DEF noopApproved, resourcesApproved
<1> QED
  BY <1>1, <1>2 DEF Reviewed

\* A noop that needs no approval changes nothing that could be reviewed.
LEMMA NothingToReview ==
  ASSUME NEW rep, NEW co, NEW approvers, NEW authors, ~noopRequiresApproval(rep)
  PROVE  Reviewed(rep.resources, co, approvers, authors)
BY DEF noopRequiresApproval, Reviewed, OwnsAll

-----------------------------------------------------------------------------
(* Types.                                                                  *)

LEMMA IdleTypes ==
  /\ IdleLoop \in LoopState /\ IdleRun \in RunState /\ NothingSince \in History
  /\ \A todo \in SUBSET Commit : [IdleLoop EXCEPT !.todo = todo] \in LoopState
<1>1. Commit # {}
  <2>1. 1 \in Tag
    BY ReleaseAssumption DEF Tag
  <2> QED
    BY <2>1, ReleaseAssumption DEF CommitsOf
<1>2. (CHOOSE c \in Commit : TRUE) \in Commit
  BY <1>1
<1>3. (CHOOSE v \in Codeowners : TRUE) \in Codeowners
  BY ReleaseAssumption
<1> QED
  BY <1>2, <1>3 DEF IdleLoop, IdleRun, NothingSince, LoopState, RunState, History

\* The tags of a run are in order, and none is past the last it was begun with.
RunTags == run.pc # "idle" => run.prior < run.tag /\ run.tag <= run.last

\* Every action keeps each variable in its type.
LEMMA TypeStep == TypeOK /\ RunTags /\ [Next]_vars => TypeOK'
<1> SUFFICES ASSUME TypeOK, RunTags, [Next]_vars PROVE TypeOK'
  OBVIOUS
<1> USE DEF TypeOK, github, disk, env
<1>0. /\ LastTag \in Nat \ {0} /\ MaxMoves \in Nat
      /\ Tag = 1..LastTag
  BY ReleaseAssumption DEF Tag
<1>m. Move => moves' \in 0..MaxMoves
  BY <1>0 DEF Move
<1>e. End => run' \in RunState /\ since' \in History
  BY IdleTypes DEF End
<1>c. /\ \A todo \in SUBSET Commit : Continue(todo) => loop' \in LoopState
      /\ loop.todo \in SUBSET Commit
  BY IdleTypes DEF Continue, LoopState
<1>g. \A pc \in {"close", "open"} : Goto(pc) => loop' \in LoopState
  BY DEF Goto, LoopState
<1>k. \A c \in Commit, a \in BOOLEAN : Checked(c, a) => run' \in RunState
  <2>1. ASSUME NEW x \in Commit, NEW v \in Codeowners, NEW todo \in SUBSET Commit,
               NEW b \in BOOLEAN
        PROVE  [run EXCEPT !.pc = "commits", !.todo = todo, !.approved = b,
                           !.commit = x, !.co = v] \in RunState
    BY DEF RunState
  <2>2. /\ IdleRun.commit \in Commit /\ IdleRun.co \in Codeowners
        /\ run.todo \in SUBSET Commit /\ run.approved \in BOOLEAN
    BY IdleTypes DEF RunState
  <2>3. ASSUME NEW c \in Commit, NEW a \in BOOLEAN
        PROVE  run.todo \ {c} \in SUBSET Commit /\ (run.approved /\ a) \in BOOLEAN
    BY <2>2
  <2>4. ASSUME NEW c \in Commit, NEW a \in BOOLEAN, Checked(c, a)
        PROVE  run' \in RunState
    <3> DEFINE todo == run.todo \ {c}
               b == run.approved /\ a
    <3>1. run' = [run EXCEPT !.pc = "commits", !.todo = todo, !.approved = b,
                             !.commit = IdleRun.commit, !.co = IdleRun.co]
      BY <2>4 DEF Checked
    <3>2. todo \in SUBSET Commit /\ b \in BOOLEAN
      BY <2>2, <2>3
    <3> HIDE DEF todo, b
    <3> QED
      BY <2>1, <2>2, <3>1, <3>2
  <2> QED
    BY <2>4
<1>1. ASSUME NEW c \in Commit, CreateIssue(c) PROVE TypeOK'
  BY <1>1 DEF CreateIssue
<1>2. ASSUME NEW c \in Commit, SaveReport(c) PROVE TypeOK'
  BY <1>2 DEF SaveReport
<1>3. CASE StartRound
  BY <1>3, IdleTypes DEF StartRound, Pending
<1>4. ASSUME NEW c \in Commit, ReadIssue(c) PROVE TypeOK'
  <2>1. CASE issue[c] = "none" \/ (autoClose /\ issue[c] = "closed")
    BY <2>1, <1>4, <1>c DEF ReadIssue
  <2>2. CASE ~(issue[c] = "none" \/ (autoClose /\ issue[c] = "closed"))
    <3>1. issue[c] \in {"none", "open", "closed"}
      OBVIOUS
    <3>2. ASSUME NEW pc \in {"close", "report"}
          PROVE  [loop EXCEPT !.commit = c, !.issue = issue[c], !.todo = @ \ {c},
                              !.pc = pc] \in LoopState
      BY <3>1 DEF LoopState
    <3>3. loop' \in LoopState
      BY <2>2, <3>2, <1>4 DEF ReadIssue
    <3> QED
      BY <1>4, <3>3 DEF ReadIssue
  <2> QED
    BY <2>1, <2>2
<1>5. CASE ReadReport
  <2>1. loop' \in LoopState
    BY <1>5, <1>c, <1>g DEF ReadReport, LoopState
  <2> QED
    BY <1>5, <2>1 DEF ReadReport
<1>6. CASE ReadApprovers
  BY <1>6, <1>c, <1>g DEF ReadApprovers
<1>7. CASE WriteIssue
  BY <1>7, <1>c DEF WriteIssue
<1>8. CASE LoopFails
  <2>1. loop' \in LoopState
    BY <1>8, <1>c DEF LoopFails
  <2> QED
    BY <1>8, <2>1, <1>m DEF LoopFails
<1>9. ASSUME NEW t \in Tag, CreateMilestone(t) PROVE TypeOK'
  BY <1>9 DEF CreateMilestone
<1>10. ASSUME NEW c \in Commit, UpdateMilestone(c) PROVE TypeOK'
  BY <1>10, ReleaseAssumption DEF UpdateMilestone
<1>11. CASE StartApply
  <2>1. common + 1 \in Tag
    BY <1>11, <1>0 DEF StartApply, NextTags
  <2>2. run' \in RunState
    BY <1>11, <2>1, IdleTypes DEF StartApply, RunState
  <2>3. since' \in History
    BY <1>11 DEF StartApply, History
  <2> QED
    BY <1>11, <2>2, <2>3 DEF StartApply
<1>12. CASE ReadMilestone
  <2>1. run' \in RunState /\ since' \in History
    <3>1. CASE milestone[run.tag] = "none"
      BY <3>1, <1>12, <1>e DEF ReadMilestone
    <3>2. CASE milestone[run.tag] # "none"
      <4>1. CommitsOf(run.tag) \in SUBSET Commit
        BY DEF CommitsOf
      <4>2. [run EXCEPT !.pc = "commits", !.todo = CommitsOf(run.tag)] \in RunState
        BY <4>1 DEF RunState
      <4> QED
        BY <3>2, <4>2, <1>12 DEF ReadMilestone
    <3> QED
      BY <3>1, <3>2
  <2> QED
    BY <1>12, <2>1 DEF ReadMilestone
<1>13. ASSUME NEW c \in Commit, CheckCommit(c) PROVE TypeOK'
  <2>1. run' \in RunState
    <3>1. CASE run' = [run EXCEPT !.pc = "approvers", !.commit = c, !.co = codeowners]
      BY <3>1, <1>13 DEF RunState
    <3> QED
      BY <1>13, <3>1, <1>k DEF CheckCommit
  <2> QED
    BY <1>13, <2>1 DEF CheckCommit
<1>14. CASE CheckApprovers
  <2>1. run' \in RunState
    <3>1. run.commit \in Commit
      BY DEF RunState
    <3>2. noopApproved(report[run.commit].resources, run.co, comments[run.commit],
                       Author[run.commit]) \in BOOLEAN
      BY DEF noopApproved
    <3> QED
      BY <1>14, <3>1, <3>2, <1>k DEF CheckApprovers
  <2> QED
    BY <1>14, <2>1 DEF CheckApprovers
<1>15. CASE TagChecked
  <2>1. run' \in RunState /\ since' \in History
    BY <1>15, <1>e DEF TagChecked, RunState
  <2> QED
    BY <1>15, <2>1 DEF TagChecked
<1>16. CASE CloseMilestone
  <2>1. run.tag \in Tag /\ (run.tag # run.last => run.tag + 1 \in Tag)
    BY <1>16, <1>0 DEF CloseMilestone, RunTags, RunState
  <2>2. run' \in RunState
    BY <1>16, <2>1 DEF CloseMilestone, RunState
  <2>3. milestone' \in [Tag -> {"none", "open", "closed"}]
    BY <1>16, <2>1 DEF CloseMilestone
  <2> QED
    BY <1>16, <2>2, <2>3 DEF CloseMilestone
<1>17. CASE Apply
  <2>1. run.last \in Tag \cup {0}
    BY DEF RunState
  <2> QED
    BY <1>17, <1>e, <1>m, <2>1 DEF Apply
<1>18. CASE ApplyFails
  BY <1>18, <1>e, <1>m DEF ApplyFails
<1>19. ASSUME NEW c \in Commit, NEW u \in User, Comment(c, u) PROVE TypeOK'
  <2>1. comments' \in [Commit -> SUBSET User]
    BY <1>19 DEF Comment
  <2>2. since' \in History
    BY <1>19, <2>1 DEF Comment, History
  <2> QED
    BY <1>19, <2>1, <2>2, <1>m DEF Comment
<1>20. ASSUME NEW c \in Commit, SetIssue(c) PROVE TypeOK'
  BY <1>20, <1>m DEF SetIssue
<1>21. CASE Pull
  <2>1. codeowners' \in Codeowners /\ since' \in History
    BY <1>21 DEF Pull, History
  <2> QED
    BY <1>21, <2>1, <1>m DEF Pull
<1>22. CASE createTag
  BY <1>22, <1>0 DEF createTag
<1>23. CASE commonTagNodeSet
  BY <1>23, <1>0, <1>m DEF commonTagNodeSet
<1>24. CASE UNCHANGED vars
  BY <1>24 DEF vars
<1> QED
  BY <1>1, <1>2, <1>3, <1>4, <1>5, <1>6, <1>7, <1>8, <1>9, <1>10, <1>11, <1>12, <1>13,
     <1>14, <1>15, <1>16, <1>17, <1>18, <1>19, <1>20, <1>21, <1>22, <1>23, <1>24
     DEF Next, noopLoop, approvalLoop, milestoneLoop, apply, Users

-----------------------------------------------------------------------------
(* What a run of the apply cron knows.                                     *)

\* Since the run began there was a review of what the commit changes.
Covered(c) ==
  \/ autoClose
  \/ \E co \in since.versions : Reviewed(report[c].resources, co, since.said[c], Author[c])

\* The run has seen the comments and the CODEOWNERS of now, the tags behind it are
\* covered, and so is the tag it is at, as far as the run has checked it.
RunInv ==
  run.pc # "idle" =>
    /\ codeowners \in since.versions
    /\ \A c \in Commit : comments[c] \subseteq since.said[c]
    /\ \A c \in Commit : TagOf[c] \in (run.prior + 1)..(run.tag - 1) => Covered(c)
    /\ run.pc \in {"commits", "approvers"} /\ run.approved =>
         \A c \in CommitsOf(run.tag) \ run.todo : Covered(c)
    /\ run.pc = "approvers" => run.co \in since.versions
    /\ run.pc \in {"close", "apply"} => \A c \in CommitsOf(run.tag) : Covered(c)
    /\ run.pc = "apply" => run.tag = run.last

Inv == TypeOK /\ RunTags /\ RunInv

\* A step that leaves the run alone and only adds to what it has seen keeps what the
\* run knows.
LEMMA SeenMore ==
  ASSUME Inv, UNCHANGED <<run, report, autoClose>>,
         since.versions \subseteq since'.versions,
         \A c \in Commit : since.said[c] \subseteq since'.said[c],
         run.pc # "idle" => /\ codeowners' \in since'.versions
                            /\ \A c \in Commit : comments'[c] \subseteq since'.said[c]
  PROVE  RunTags' /\ RunInv'
<1>1. ASSUME NEW c \in Commit, Covered(c) PROVE Covered(c)'
  <2>1. CASE autoClose
    BY <2>1 DEF Covered
  <2>2. CASE ~autoClose
    <3>1. PICK co \in since.versions :
            Reviewed(report[c].resources, co, since.said[c], Author[c])
      BY <1>1, <2>2 DEF Covered
    <3>2. Reviewed(report[c].resources, co, since'.said[c], Author[c])
      BY <3>1, ReviewedMonotone
    <3> QED
      BY <3>1, <3>2 DEF Covered
  <2> QED
    BY <2>1, <2>2
<1>2. RunTags'
  BY DEF Inv, RunTags
<1> QED
  BY <1>1, <1>2 DEF Inv, RunInv, CommitsOf

\* A run that is over knows nothing and need not.
LEMMA EndKnows == End => RunTags' /\ RunInv'
BY DEF End, IdleRun, RunTags, RunInv

\* Every action keeps what the run knows.
LEMMA RunStep == Inv /\ [Next]_vars => RunTags' /\ RunInv'
<1> SUFFICES ASSUME Inv, [Next]_vars PROVE RunTags' /\ RunInv'
  OBVIOUS
<1> USE DEF github, disk, env
<1>0. TypeOK /\ RunTags /\ RunInv
  BY DEF Inv
<1>t. /\ LastTag \in Nat \ {0} /\ Tag = 1..LastTag
      /\ run.prior \in Nat /\ run.tag \in Nat /\ run.last \in Nat
      /\ common \in Nat /\ tags \in Nat
      /\ \A c \in Commit : TagOf[c] \in Nat
  BY <1>0, ReleaseAssumption DEF Tag, TypeOK, RunState
<1>u. UNCHANGED <<run, codeowners, comments, report, autoClose, since>>
        => RunTags' /\ RunInv'
  BY <1>0, SeenMore DEF RunInv
\* Steps of the other loops, and of users who do not approve.
<1>1. ASSUME NEW c \in Commit, CreateIssue(c) \/ SaveReport(c) PROVE RunTags' /\ RunInv'
  BY <1>1, <1>u DEF CreateIssue, SaveReport
<1>2. CASE approvalLoop
  BY <1>2, <1>u DEF approvalLoop, StartRound, ReadReport, ReadApprovers, WriteIssue, ReadIssue
<1>3. CASE LoopFails
  BY <1>3, <1>u DEF LoopFails
<1>4. CASE milestoneLoop
  BY <1>4, <1>u DEF milestoneLoop, CreateMilestone, UpdateMilestone
<1>5. ASSUME NEW c \in Commit, SetIssue(c) PROVE RunTags' /\ RunInv'
  BY <1>5, <1>u DEF SetIssue
<1>6. CASE createTag \/ commonTagNodeSet
  BY <1>6, <1>u DEF createTag, commonTagNodeSet
\* Steps of the world that the run remembers.
<1>7. ASSUME NEW c \in Commit, NEW u \in User, Comment(c, u) PROVE RunTags' /\ RunInv'
  <2>1. CASE run.pc = "idle"
    BY <2>1, <1>7 DEF Comment, RunTags, RunInv
  <2>2. CASE run.pc # "idle"
    <3>1. since' = [since EXCEPT !.said[c] = @ \cup comments'[c]]
      BY <2>2, <1>7 DEF Comment
    <3>2. /\ since.said \in [Commit -> SUBSET User] /\ since \in History
          /\ comments \in [Commit -> SUBSET User]
      BY <1>0 DEF TypeOK, History
    <3>3. /\ since'.versions = since.versions
          /\ since'.said = [since.said EXCEPT ![c] = @ \cup comments'[c]]
      BY <3>1, <3>2 DEF History
    <3>4. \A d \in Commit : d # c => comments'[d] = comments[d]
      BY <1>7, <3>2 DEF Comment
    <3>5. codeowners \in since.versions /\ \A d \in Commit : comments[d] \subseteq since.said[d]
      BY <1>0, <2>2 DEF RunInv
    <3> QED
      BY <1>7, <3>2, <3>3, <3>4, <3>5, SeenMore DEF Comment
  <2> QED
    BY <2>1, <2>2
<1>8. CASE Pull
  <2>1. CASE run.pc = "idle"
    BY <2>1, <1>8 DEF Pull, RunTags, RunInv
  <2>2. CASE run.pc # "idle"
    <3>1. since' = [since EXCEPT !.versions = @ \cup {codeowners'}] /\ since \in History
      BY <2>2, <1>8, <1>0 DEF Pull, TypeOK
    <3>2. since'.versions = since.versions \cup {codeowners'} /\ since'.said = since.said
      BY <3>1 DEF History
    <3>3. \A c \in Commit : comments[c] \subseteq since.said[c]
      BY <1>0, <2>2 DEF RunInv
    <3> QED
      BY <1>8, <3>2, <3>3, SeenMore DEF Pull
  <2> QED
    BY <2>1, <2>2
\* Steps of the run.
<1>9. CASE StartApply
  <2>1. common < common + 1 /\ common + 1 <= tags
    BY <1>9, <1>t DEF StartApply, NextTags
  <2>2. /\ run'.pc = "milestone" /\ run'.prior = common /\ run'.tag = common + 1
        /\ run'.last = tags
    BY <1>9, IdleTypes DEF StartApply, RunState
  <2>3. since'.said = comments /\ since'.versions = {codeowners}
    BY <1>9 DEF StartApply
  <2>4. \A t \in Nat : t \notin (common + 1)..(common + 1 - 1)
    BY <1>t
  <2> QED
    BY <1>9, <1>t, <2>1, <2>2, <2>3, <2>4 DEF StartApply, RunTags, RunInv
<1>e. End => RunTags' /\ RunInv'
  BY EndKnows
<1>10. CASE ReadMilestone
  <2>1. CASE milestone[run.tag] = "none"
    BY <2>1, <1>10, <1>e DEF ReadMilestone
  <2>2. CASE milestone[run.tag] # "none"
    <3>1. /\ run' = [run EXCEPT !.pc = "commits", !.todo = CommitsOf(run.tag)]
          /\ UNCHANGED <<since, codeowners, comments, report, autoClose>>
      BY <2>2, <1>10 DEF ReadMilestone
    <3>2. /\ run'.pc = "commits" /\ run'.todo = CommitsOf(run.tag)
          /\ run'.prior = run.prior /\ run'.tag = run.tag /\ run'.last = run.last
      BY <3>1, <1>0 DEF TypeOK, RunState
    <3>3. run.pc # "idle"
      BY <1>10 DEF ReadMilestone
    <3> QED
      BY <1>0, <3>1, <3>2, <3>3 DEF RunTags, RunInv, Covered, CommitsOf
  <2> QED
    BY <2>1, <2>2
<1>c. ASSUME NEW c \in Commit, NEW a \in BOOLEAN, Checked(c, a), a => Covered(c),
             run.pc \in {"commits", "approvers"},
             UNCHANGED <<since, codeowners, comments, report, autoClose>>
      PROVE  RunTags' /\ RunInv'
  <2>1. /\ run'.pc = "commits" /\ run'.todo = run.todo \ {c}
        /\ run'.approved = (run.approved /\ a)
        /\ run'.prior = run.prior /\ run'.tag = run.tag /\ run'.last = run.last
    BY <1>c, <1>0 DEF Checked, TypeOK, RunState
  <2>2. run.pc # "idle"
    BY <1>c
  <2>3. run'.approved => \A d \in CommitsOf(run.tag) \ run'.todo : Covered(d)
    BY <1>0, <1>c, <2>1 DEF RunInv
  <2>4. \A d \in Commit : Covered(d) => Covered(d)'
    BY <1>c DEF Covered
  <2>5. RunTags'
    BY <1>0, <2>1, <2>2 DEF RunTags
  <2> QED
    BY <1>0, <1>c, <2>1, <2>2, <2>3, <2>4, <2>5 DEF RunInv, CommitsOf
<1>11. ASSUME NEW c \in Commit, CheckCommit(c) PROVE RunTags' /\ RunInv'
  <2>u. run.pc = "commits" /\ UNCHANGED <<since, codeowners, comments, report, autoClose>>
    BY <1>11 DEF CheckCommit
  <2>v. codeowners \in since.versions
    BY <1>0, <2>u DEF RunInv
  <2>1. CASE Checked(c, FALSE)
    BY <2>1, <2>u, <1>c
  <2>2. CASE Checked(c, TRUE) /\ ~(noopRequiresApproval(report[c]) /\ ~autoClose)
    <3>1. Covered(c)
      <4>1. CASE autoClose
        BY <4>1 DEF Covered
      <4>2. CASE ~noopRequiresApproval(report[c])
        BY <4>2, <2>v, NothingToReview DEF Covered
      <4> QED
        BY <2>2, <4>1, <4>2
    <3> QED
      BY <2>2, <2>u, <3>1, <1>c
  <2>3. CASE run' = [run EXCEPT !.pc = "approvers", !.commit = c, !.co = codeowners]
    <3>1. /\ run'.pc = "approvers" /\ run'.todo = run.todo /\ run'.co = codeowners
          /\ run'.approved = run.approved
          /\ run'.prior = run.prior /\ run'.tag = run.tag /\ run'.last = run.last
      BY <2>3, <1>0 DEF TypeOK, RunState
    <3> QED
      BY <1>0, <2>u, <2>v, <3>1 DEF RunTags, RunInv, Covered, CommitsOf
  <2> QED
    BY <1>11, <2>1, <2>2, <2>3 DEF CheckCommit
<1>12. CASE CheckApprovers
  <2> DEFINE c == run.commit
             approved == noopApproved(report[c].resources, run.co, comments[c], Author[c])
  <2>1. /\ c \in Commit /\ approved \in BOOLEAN /\ Checked(c, approved)
        /\ run.pc = "approvers"
        /\ UNCHANGED <<since, codeowners, comments, report, autoClose>>
    BY <1>12, <1>0 DEF CheckApprovers, TypeOK, RunState, noopApproved
  <2>2. /\ run.co \in since.versions /\ comments[c] \subseteq since.said[c]
        /\ comments[c] \in SUBSET User
    BY <1>0, <2>1 DEF RunInv, TypeOK
  <2> HIDE DEF c
  <2>3. ASSUME approved PROVE Covered(c)
    <3>1. Reviewed(report[c].resources, run.co, comments[c], Author[c])
      BY <2>2, <2>3, ApprovedIsReviewed
    <3>2. Reviewed(report[c].resources, run.co, since.said[c], Author[c])
      BY <2>2, <3>1, ReviewedMonotone
    <3> QED
      BY <2>2, <3>2 DEF Covered
  <2> HIDE DEF approved
  <2> QED
    BY <2>1, <2>3, <1>c
<1>13. CASE TagChecked
  <2>1. CASE ~run.approved
    BY <2>1, <1>13, <1>e DEF TagChecked
  <2>2. CASE run.approved
    <3>1. /\ run.pc = "commits" /\ run.todo = {} /\ run' = [run EXCEPT !.pc = "close"]
          /\ UNCHANGED <<since, codeowners, comments, report, autoClose>>
      BY <2>2, <1>13 DEF TagChecked
    <3>2. /\ run'.pc = "close" /\ run'.tag = run.tag
          /\ run'.prior = run.prior /\ run'.last = run.last
      BY <3>1, <1>0 DEF TypeOK, RunState
    <3>3. \A c \in CommitsOf(run.tag) : Covered(c)
      BY <1>0, <2>2, <3>1 DEF RunInv
    <3> QED
      BY <1>0, <3>1, <3>2, <3>3 DEF RunTags, RunInv, Covered, CommitsOf
  <2> QED
    BY <2>1, <2>2
<1>14. CASE CloseMilestone
  <2>u. run.pc = "close" /\ UNCHANGED <<since, codeowners, comments, report, autoClose>>
    BY <1>14 DEF CloseMilestone
  <2>c. /\ codeowners \in since.versions
        /\ \A c \in Commit : comments[c] \subseteq since.said[c]
        /\ \A c \in Commit : TagOf[c] \in (run.prior + 1)..(run.tag - 1) => Covered(c)
        /\ \A c \in CommitsOf(run.tag) : Covered(c)
        /\ run.prior < run.tag /\ run.tag <= run.last
    BY <1>0, <2>u DEF RunTags, RunInv
  <2>p. \A c \in Commit : Covered(c)' <=> Covered(c)
    BY <2>u DEF Covered
  <2>1. CASE run.tag = run.last
    <3>1. /\ run'.pc = "apply" /\ run'.tag = run.tag
          /\ run'.prior = run.prior /\ run'.last = run.last
      BY <2>1, <1>14, <1>0 DEF CloseMilestone, TypeOK, RunState
    <3> QED
      BY <2>u, <2>c, <2>p, <2>1, <3>1 DEF RunTags, RunInv, CommitsOf
  <2>2. CASE run.tag # run.last
    <3>1. /\ run'.pc = "milestone" /\ run'.tag = run.tag + 1
          /\ run'.prior = run.prior /\ run'.last = run.last
      BY <2>2, <1>14, <1>0 DEF CloseMilestone, TypeOK, RunState
    <3>2. \A c \in Commit : TagOf[c] \in (run.prior + 1)..(run'.tag - 1) => Covered(c)
      BY <2>c, <3>1, <1>t DEF CommitsOf
    <3>3. run'.prior < run'.tag /\ run'.tag <= run'.last
      BY <2>c, <2>2, <3>1, <1>t
    <3> QED
      BY <2>u, <2>c, <2>p, <3>1, <3>2, <3>3 DEF RunTags, RunInv
  <2> QED
    BY <2>1, <2>2
<1>15. CASE Apply \/ ApplyFails
  BY <1>15, <1>e DEF Apply, ApplyFails
<1>16. CASE UNCHANGED vars
  BY <1>16, <1>u DEF vars
<1> QED
  BY <1>1, <1>2, <1>3, <1>4, <1>5, <1>6, <1>7, <1>8, <1>9, <1>10, <1>11, <1>12, <1>13,
     <1>14, <1>15, <1>16
     DEF Next, noopLoop, apply, Users

-----------------------------------------------------------------------------
(* The theorems.                                                           *)

LEMMA Invariance == Spec => []Inv
<1>1. Init => Inv
  <2>1. Init => TypeOK
    BY IdleTypes, ReleaseAssumption DEF Init, TypeOK, Tag
  <2>2. Init => RunTags /\ RunInv
    BY DEF Init, IdleRun, RunTags, RunInv
  <2> QED
    BY <2>1, <2>2 DEF Inv
<1>2. Inv /\ [Next]_vars => Inv'
  BY TypeStep, RunStep DEF Inv
<1> QED
  BY <1>1, <1>2, PTL DEF Spec

\* The tags that a run of apply looks at exist, the commits it looks at are commits,
\* and what it remembers are approvals by users under versions of CODEOWNERS.
THEOREM Typing == Spec => []TypeOK
BY Invariance, PTL DEF Inv

\* What apply is about to bring to all nodes has been reviewed, whatever the loops
\* and the users did while it looked at the tags.
THEOREM ReleasedIsReviewed == Spec => []AppliedIsReviewed
<1>1. Inv => AppliedIsReviewed
  <2> SUFFICES ASSUME Inv, run.pc = "apply", ~autoClose,
                      NEW c \in Commit, TagOf[c] \in (run.prior + 1)..run.last
               PROVE  Covered(c)
    BY DEF AppliedIsReviewed, Covered
  <2>1. /\ run.tag = run.last
        /\ \A d \in Commit : TagOf[d] \in (run.prior + 1)..(run.tag - 1) => Covered(d)
        /\ \A d \in CommitsOf(run.tag) : Covered(d)
    BY DEF Inv, RunInv
  <2>2. run.prior \in Nat /\ run.tag \in Nat /\ TagOf[c] \in Nat
    BY ReleaseAssumption DEF Inv, TypeOK, RunState, Tag
  <2>3. TagOf[c] = run.tag \/ TagOf[c] \in (run.prior + 1)..(run.tag - 1)
    BY <2>1, <2>2
  <2> QED
    BY <2>1, <2>3 DEF CommitsOf
<1> QED
  BY <1>1, Invariance, PTL

-----------------------------------------------------------------------------
(* What is released has gone through its milestone.                        *)

\* The commit has been nooped, and its issue is under the milestone of tag t.
Registered(c, t) == issue[c] # "none" /\ milestoned[c] = t /\ c \in saved

\* A tag that all nodes once had has a closed milestone, and a closed milestone has the
\* issues of all commits of its tag, each with a saved noop to approve: however
\* users close and reopen issues, tags come, nodes fall back, and runs fail between
\* closing a milestone and applying.
ReleasedIsComplete ==
  \A t \in Tag :
    /\ t <= common => milestone[t] = "closed"
    /\ milestone[t] = "closed" => \A c \in CommitsOf(t) : Registered(c, t)

\* A milestone is closed only when every commit of its tag has been reviewed, while the
\* run looked at the tags.
ClosesOnReview ==
  \A t \in Tag :
    milestone[t] # "closed" /\ milestone'[t] = "closed" => \A c \in CommitsOf(t) : Covered(c)

ClosingIsReviewed == [][ClosesOnReview]_vars

\* How far the run has got with the milestones, and what it has found of the tag it is
\* at.  An issue that is under a milestone is under that of its tag.
MilestoneInv ==
  /\ ReleasedIsComplete
  /\ \A c \in Commit : milestoned[c] \in {0, TagOf[c]}
  /\ run.pc # "idle" =>
       /\ \A t \in Tag : t < run.tag => milestone[t] = "closed"
       /\ run.pc \in {"commits", "approvers"} /\ run.approved =>
            \A c \in CommitsOf(run.tag) \ run.todo : Registered(c, run.tag)
       /\ run.pc = "approvers" => Registered(run.commit, run.tag)
       /\ run.pc \in {"close", "apply"} => \A c \in CommitsOf(run.tag) : Registered(c, run.tag)
       /\ run.pc = "apply" => milestone[run.tag] = "closed"

TagTypes ==
  /\ LastTag \in Nat \ {0} /\ Tag = 1..LastTag
  /\ common \in Nat /\ tags \in Tag \cup {0}
  /\ run \in RunState /\ run.tag \in Nat /\ run.last \in Nat
  /\ run.pc # "idle" => run.tag \in Tag

LEMMA TagTypesHold == Inv => TagTypes
<1> SUFFICES ASSUME Inv PROVE TagTypes
  OBVIOUS
<1>1. LastTag \in Nat \ {0} /\ Tag = 1..LastTag
  BY ReleaseAssumption DEF Tag
<1>2. /\ run \in RunState /\ run.prior \in Tag \cup {0} /\ run.tag \in Tag \cup {0}
      /\ run.last \in Tag \cup {0} /\ common \in Tag \cup {0} /\ tags \in Tag \cup {0}
  BY DEF Inv, TypeOK, RunState
<1>3. run.pc # "idle" => run.tag \in Tag
  BY <1>1, <1>2 DEF Inv, RunTags
<1> QED
  BY <1>1, <1>2, <1>3 DEF TagTypes

\* Nothing takes an issue, a noop or a milestone's end back.
Lasts == /\ \A c \in Commit, t \in Tag : Registered(c, t) => Registered(c, t)'
         /\ \A t \in Tag : milestone[t] = "closed" => milestone'[t] = "closed"
         /\ \A c \in Commit : milestoned'[c] \in {0, TagOf[c]}

LEMMA EverythingLasts ==
  ASSUME Inv, MilestoneInv, [Next]_vars
  PROVE  Lasts
<1> USE DEF github, disk, env
<1>1. /\ issue \in [Commit -> {"none", "open", "closed"}]
      /\ milestoned \in [Commit -> Tag \cup {0}]
      /\ milestone \in [Tag -> {"none", "open", "closed"}]
      /\ 0 \notin Tag /\ \A c \in Commit : milestoned[c] \in {0, TagOf[c]}
  BY ReleaseAssumption DEF Inv, TypeOK, Tag, MilestoneInv
<1>2. ASSUME UNCHANGED <<milestoned, milestone>>, saved \subseteq saved',
             \A c \in Commit : issue[c] # "none" => issue'[c] # "none"
      PROVE  Lasts
  BY <1>1, <1>2 DEF Lasts, Registered
<1>3. CASE UNCHANGED <<issue, milestoned, milestone, saved>>
  BY <1>2, <1>3
<1>4. ASSUME NEW c \in Commit, CreateIssue(c) \/ SaveReport(c) \/ SetIssue(c) PROVE Lasts
  <2>1. /\ UNCHANGED <<milestoned, milestone>> /\ saved \subseteq saved'
        /\ \A d \in Commit : issue[d] # "none" => issue'[d] # "none"
    BY <1>1, <1>4 DEF CreateIssue, SaveReport, SetIssue
  <2> QED
    BY <1>2, <2>1
<1>5. CASE WriteIssue
  <2>1. /\ UNCHANGED <<milestoned, milestone>> /\ saved \subseteq saved'
        /\ \A d \in Commit : issue[d] # "none" => issue'[d] # "none"
    BY <1>1, <1>5 DEF WriteIssue
  <2> QED
    BY <1>2, <2>1
<1>6. CASE StartRound \/ ReadReport \/ ReadApprovers \/ LoopFails \/ \E c \in Commit : ReadIssue(c)
  BY <1>3, <1>6 DEF StartRound, ReadReport, ReadApprovers, LoopFails, ReadIssue
<1>7. ASSUME NEW t \in Tag, CreateMilestone(t) PROVE Lasts
  BY <1>1, <1>7 DEF CreateMilestone, Lasts, Registered
<1>8. ASSUME NEW c \in Commit, UpdateMilestone(c) PROVE Lasts
  BY <1>1, <1>8 DEF UpdateMilestone, Lasts, Registered
<1>9. CASE CloseMilestone
  BY <1>1, <1>9 DEF CloseMilestone, Lasts, Registered
<1>10. CASE \/ StartApply \/ ReadMilestone \/ (\E c \in Commit : CheckCommit(c))
            \/ CheckApprovers \/ TagChecked \/ Apply \/ ApplyFails
  BY <1>3, <1>10 DEF StartApply, ReadMilestone, CheckCommit, CheckApprovers, TagChecked, Apply,
     ApplyFails
<1>11. CASE \/ \E c \in Commit, u \in User : Comment(c, u)
            \/ Pull \/ createTag \/ commonTagNodeSet \/ UNCHANGED vars
  BY <1>3, <1>11 DEF Comment, Pull, createTag, commonTagNodeSet, vars
<1> QED
  BY <1>4, <1>5, <1>6, <1>7, <1>8, <1>9, <1>10, <1>11
     DEF Next, noopLoop, approvalLoop, milestoneLoop, apply, Users

\* A step that leaves the run where it is, and brings no node to a tag, keeps what the
\* run knows of the milestones.
LEMMA MilestoneKept ==
  ASSUME Inv, TagTypes, MilestoneInv, Lasts, run' = run, common' <= common, common' \in Nat,
         \A t \in Tag : milestone'[t] = "closed" => milestone[t] = "closed"
  PROVE  MilestoneInv' /\ ClosesOnReview
<1>1. ReleasedIsComplete'
  BY DEF ReleasedIsComplete, MilestoneInv, Lasts, TagTypes, CommitsOf
<1>2. run.pc # "idle" => run.tag \in Tag /\ run.commit \in Commit
  BY DEF TagTypes, RunState
<1> QED
  BY <1>1, <1>2 DEF MilestoneInv, Lasts, ClosesOnReview, CommitsOf

\* So do the steps of a run that change no milestone.
LEMMA RunOnly ==
  ASSUME Inv, MilestoneInv, UNCHANGED <<issue, milestoned, saved, milestone, common>>,
         run'.pc # "idle" =>
           /\ \A t \in Tag : t < run'.tag => milestone[t] = "closed"
           /\ run'.pc \in {"commits", "approvers"} /\ run'.approved =>
                \A c \in CommitsOf(run'.tag) \ run'.todo : Registered(c, run'.tag)
           /\ run'.pc = "approvers" => Registered(run'.commit, run'.tag)
           /\ run'.pc \in {"close", "apply"} =>
                \A c \in CommitsOf(run'.tag) : Registered(c, run'.tag)
           /\ run'.pc = "apply" => milestone[run'.tag] = "closed"
  PROVE  MilestoneInv' /\ ClosesOnReview
<1>1. ReleasedIsComplete'
  BY DEF ReleasedIsComplete, MilestoneInv, CommitsOf, Registered
<1> QED
  BY <1>1 DEF MilestoneInv, ClosesOnReview, CommitsOf, Registered

\* The run checks a commit: one that passes is registered.
LEMMA MilestoneChecked ==
  ASSUME Inv, TagTypes, MilestoneInv, run.pc \in {"commits", "approvers"},
         NEW c \in Commit, NEW a \in BOOLEAN, Checked(c, a), a => Registered(c, run.tag),
         UNCHANGED <<issue, milestoned, saved, milestone, common>>
  PROVE  MilestoneInv' /\ ClosesOnReview
<1>1. /\ run'.pc = "commits" /\ run'.todo = run.todo \ {c} /\ run'.tag = run.tag
      /\ run'.approved = (run.approved /\ a)
  BY DEF Checked, TagTypes, RunState
<1>2. run.pc # "idle"
  OBVIOUS
<1> QED
  BY <1>1, <1>2, RunOnly DEF MilestoneInv

\* Every action keeps it, and a milestone is closed when the commits are covered.
LEMMA MilestoneStep ==
  ASSUME Inv, MilestoneInv, [Next]_vars
  PROVE  MilestoneInv' /\ ClosesOnReview
<1> USE DEF github, disk, env
<1>1. Lasts /\ TagTypes
  BY EverythingLasts, TagTypesHold
<1>2. CASE run' = run /\ UNCHANGED <<milestone, common>>
  BY <1>1, <1>2, MilestoneKept DEF TagTypes
<1>3. CASE noopLoop \/ approvalLoop \/ LoopFails \/ (\E c \in Commit : UpdateMilestone(c))
  BY <1>2, <1>3 DEF noopLoop, CreateIssue, SaveReport, approvalLoop, StartRound, ReadIssue,
     ReadReport, ReadApprovers, WriteIssue, LoopFails, UpdateMilestone
<1>4. ASSUME NEW t \in Tag, CreateMilestone(t) PROVE MilestoneInv' /\ ClosesOnReview
  <2>1. \A u \in Tag : milestone'[u] = "closed" => milestone[u] = "closed"
    BY <1>4 DEF CreateMilestone, Inv, TypeOK
  <2> QED
    BY <1>1, <1>4, <2>1, MilestoneKept DEF CreateMilestone, TagTypes
<1>5. CASE Pull \/ createTag \/ (\E c \in Commit : SetIssue(c) \/ \E u \in User : Comment(c, u))
  BY <1>2, <1>5 DEF Pull, createTag, SetIssue, Comment
<1>6. CASE commonTagNodeSet
  <2>1. run' = run /\ milestone' = milestone /\ common' <= common /\ common' \in Nat
    BY <1>1, <1>6 DEF commonTagNodeSet, TagTypes
  <2> QED
    BY <1>1, <2>1, MilestoneKept
\* Steps of the run.
<1>e. ASSUME End, UNCHANGED <<issue, milestoned, saved, milestone, common>>
      PROVE  MilestoneInv' /\ ClosesOnReview
  BY <1>e, RunOnly DEF End, IdleRun
<1>7. CASE StartApply
  <2>1. run'.pc = "milestone" /\ run'.tag = common + 1
    BY <1>1, <1>7, IdleTypes DEF StartApply, RunState
  <2>2. \A t \in Tag : t < common + 1 => milestone[t] = "closed"
    BY <1>1 DEF MilestoneInv, ReleasedIsComplete, TagTypes
  <2> QED
    BY <1>7, <2>1, <2>2, RunOnly DEF StartApply
<1>8. CASE ReadMilestone
  <2>1. CASE End
    BY <1>8, <1>e, <2>1 DEF ReadMilestone
  <2>2. CASE run' = [run EXCEPT !.pc = "commits", !.todo = CommitsOf(run.tag)]
    <3>1. run'.pc = "commits" /\ run'.todo = CommitsOf(run.tag) /\ run'.tag = run.tag
      BY <1>1, <2>2 DEF TagTypes, RunState
    <3> QED
      BY <1>8, <3>1, RunOnly DEF ReadMilestone, MilestoneInv
  <2> QED
    BY <1>8, <2>1, <2>2 DEF ReadMilestone
<1>9. ASSUME NEW c \in Commit, CheckCommit(c) PROVE MilestoneInv' /\ ClosesOnReview
  <2>1. run.pc = "commits" /\ UNCHANGED <<issue, milestoned, saved, milestone, common>>
    BY <1>9 DEF CheckCommit
  <2>2. CASE Checked(c, FALSE)
    BY <1>1, <2>1, <2>2, MilestoneChecked
  <2>3. CASE Checked(c, TRUE) /\ Registered(c, run.tag)
    BY <1>1, <2>1, <2>3, MilestoneChecked
  <2>4. CASE /\ run' = [run EXCEPT !.pc = "approvers", !.commit = c, !.co = codeowners]
             /\ Registered(c, run.tag)
    <3>1. /\ run'.pc = "approvers" /\ run'.todo = run.todo /\ run'.tag = run.tag
          /\ run'.approved = run.approved /\ run'.commit = c
      BY <1>1, <2>4 DEF TagTypes, RunState
    <3> QED
      BY <2>1, <2>4, <3>1, RunOnly DEF MilestoneInv
  <2> QED
    BY <1>9, <2>2, <2>3, <2>4 DEF CheckCommit, Registered
<1>10. CASE CheckApprovers
  <2> DEFINE a == noopApproved(report[run.commit].resources, run.co, comments[run.commit],
                               Author[run.commit])
  <2>1. /\ run.pc = "approvers" /\ Checked(run.commit, a) /\ a \in BOOLEAN
        /\ UNCHANGED <<issue, milestoned, saved, milestone, common>>
    BY <1>10 DEF CheckApprovers, noopApproved
  <2>2. run.commit \in Commit /\ Registered(run.commit, run.tag)
    BY <1>1, <2>1 DEF TagTypes, RunState, MilestoneInv
  <2> HIDE DEF a
  <2> QED
    BY <1>1, <2>1, <2>2, MilestoneChecked
<1>11. CASE TagChecked
  <2>1. CASE End
    BY <1>11, <1>e, <2>1 DEF TagChecked
  <2>2. CASE run.approved /\ run' = [run EXCEPT !.pc = "close"]
    <3>1. run.pc = "commits" /\ run.todo = {} /\ run'.pc = "close" /\ run'.tag = run.tag
      BY <1>1, <1>11, <2>2 DEF TagChecked, TagTypes, RunState
    <3>2. \A c \in CommitsOf(run.tag) : Registered(c, run.tag)
      BY <2>2, <3>1 DEF MilestoneInv
    <3> QED
      BY <1>11, <3>1, <3>2, RunOnly DEF TagChecked, MilestoneInv
  <2> QED
    BY <1>11, <2>1, <2>2 DEF TagChecked
<1>12. CASE CloseMilestone
  <2>1. /\ run.pc = "close" /\ run.tag \in Tag
        /\ milestone' = [milestone EXCEPT ![run.tag] = "closed"]
        /\ UNCHANGED <<issue, milestoned, saved, common, report, autoClose, since>>
    BY <1>1, <1>12 DEF CloseMilestone, TagTypes
  <2>2. /\ \A c \in CommitsOf(run.tag) : Registered(c, run.tag) /\ Covered(c)
        /\ \A t \in Tag : t < run.tag => milestone[t] = "closed"
    BY <2>1 DEF MilestoneInv, Inv, RunInv
  <2>3. /\ milestone'[run.tag] = "closed"
        /\ \A t \in Tag \ {run.tag} : milestone'[t] = milestone[t]
    BY <2>1 DEF Inv, TypeOK
  <2>4. ClosesOnReview
    BY <2>2, <2>3 DEF ClosesOnReview
  <2>5. ReleasedIsComplete'
    BY <2>1, <2>2, <2>3 DEF MilestoneInv, ReleasedIsComplete, Registered, CommitsOf
  <2>6. CASE run'.pc = "apply" /\ run'.tag = run.tag
    BY <2>1, <2>2, <2>3, <2>4, <2>5, <2>6 DEF MilestoneInv, Registered, CommitsOf
  <2>7. CASE run'.pc = "milestone" /\ run'.tag = run.tag + 1
    <3>1. \A t \in Tag : t < run.tag + 1 => milestone'[t] = "closed"
      BY <1>1, <2>2, <2>3 DEF TagTypes
    <3> QED
      BY <2>1, <2>4, <2>5, <2>7, <3>1 DEF MilestoneInv
  <2>8. \/ run'.pc = "apply" /\ run'.tag = run.tag
        \/ run'.pc = "milestone" /\ run'.tag = run.tag + 1
    BY <1>1, <1>12 DEF CloseMilestone, TagTypes, RunState
  <2> QED
    BY <2>6, <2>7, <2>8
<1>13. CASE Apply
  <2>1. /\ run.pc = "apply" /\ End /\ UNCHANGED <<issue, milestoned, saved, milestone>>
        /\ common' = run.last \/ common' = common
    BY <1>13 DEF Apply
  <2>2. run.tag = run.last /\ run.tag \in Tag /\ milestone[run.tag] = "closed"
    BY <1>1, <2>1 DEF Inv, RunInv, TagTypes, MilestoneInv
  <2>3. \A t \in Tag : t <= run.tag => milestone[t] = "closed"
    BY <1>1, <2>1, <2>2 DEF MilestoneInv, TagTypes
  <2>4. ReleasedIsComplete'
    BY <2>1, <2>2, <2>3 DEF MilestoneInv, ReleasedIsComplete, Registered, CommitsOf
  <2>5. run'.pc = "idle"
    BY <2>1 DEF End, IdleRun
  <2> QED
    BY <2>1, <2>4, <2>5 DEF MilestoneInv, ClosesOnReview
<1>14. CASE ApplyFails
  BY <1>14, <1>e DEF ApplyFails
<1>15. CASE UNCHANGED vars
  BY <1>2, <1>15 DEF vars
<1> QED
  BY <1>3, <1>4, <1>5, <1>6, <1>7, <1>8, <1>9, <1>10, <1>11, <1>12, <1>13, <1>14, <1>15
     DEF Next, milestoneLoop, apply, Users

LEMMA MilestonesHold == Spec => [](Inv /\ MilestoneInv)
<1>1. Init => MilestoneInv
  BY ReleaseAssumption DEF Init, IdleRun, MilestoneInv, ReleasedIsComplete, Tag
<1>2. Inv /\ MilestoneInv /\ [Next]_vars => MilestoneInv'
  BY MilestoneStep
<1> QED
  BY <1>1, <1>2, Invariance, PTL DEF Spec

\* Nothing is released past its milestone: every commit of every tag that the nodes had
\* in common has an issue under the closed milestone of its tag, and a saved noop.
THEOREM ReleasesAreComplete == Spec => []ReleasedIsComplete
BY MilestonesHold, PTL DEF MilestoneInv

\* And the milestone was closed on a review of all its commits, so that, with the theorem
\* before, whatever the nodes have in common has been reviewed at some time.
THEOREM ReleasesAreReviewed == Spec => ClosingIsReviewed
<1>1. Inv /\ MilestoneInv /\ [Next]_vars => [ClosesOnReview]_vars
  BY MilestoneStep
<1> QED
  BY <1>1, MilestonesHold, PTL DEF Spec, ClosingIsReviewed
=============================================================================
