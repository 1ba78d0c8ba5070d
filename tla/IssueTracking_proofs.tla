------------------------- MODULE IssueTracking_proofs -------------------------
(***************************************************************************)
(* Proofs about IssueTracking, for all finite sets of commits and all      *)
(* nodes, node files and numbers of failures.                              *)
(***************************************************************************)
EXTENDS IssueTracking, TLAPS, WellFoundedInduction, FiniteSetTheorems, SequenceTheorems

\* A set of naturals that nothing in Less precedes is bounded from below by it.
LEMMA NothingBelow ==
  ASSUME NEW Less, \A i, j \in Nat : i < j => <<i, j>> \in Less,
         NEW S \in SUBSET Nat, NEW i \in S, \A j \in S : ~(<<j, i>> \in Less)
  PROVE  \A j \in S : i <= j
<1> TAKE j \in S
<1>1. i \in Nat /\ j \in Nat /\ ~(j < i)
  OBVIOUS
<1> QED
  BY <1>1

\* There is an earliest one in a set of issues that has any.
LEMMA EarliestOf ==
  ASSUME NEW S \in SUBSET Nat, S # {}
  PROVE  Earliest(S) \in S /\ \A j \in S : Earliest(S) <= j
<1>1. \A i, j \in Nat : i < j => <<i, j>> \in OpToRel(<, Nat)
  BY Zenon DEF OpToRel
<1>2. PICK i \in S : \A j \in S : ~(<<j, i>> \in OpToRel(<, Nat))
  BY NatLessThanWellFounded, WFMin, Zenon
<1>3. \A j \in S : i <= j
  BY <1>1, <1>2, NothingBelow, Zenon
<1> QED
  BY <1>3, Zenon DEF Earliest

\* A finite set of issues of which there is one has this one as its earliest.
LEMMA OnlyOne ==
  ASSUME NEW S \in SUBSET Nat, IsFiniteSet(S)
  PROVE  /\ Cardinality(S) = 1 => \E i \in S : S = {i} /\ Earliest(S) = i
         /\ \A i \in S : S = {i} => Cardinality(S) = 1 /\ Earliest(S) = i
<1>1. ASSUME NEW i \in S, S = {i} PROVE Cardinality(S) = 1 /\ Earliest(S) = i
  BY <1>1, EarliestOf, FS_Singleton
<1>2. ASSUME Cardinality(S) = 1 PROVE \E i \in S : S = {i} /\ Earliest(S) = i
  <2>1. PICK i : S = {i}
    BY <1>2, FS_Singleton
  <2> QED
    BY <2>1, <1>1
<1> QED
  BY <1>1, <1>2

\* What is known of the numbers of issues.
LEMMA Numbers ==
  ASSUME issues \in Seq(Commit)
  PROVE  /\ DOMAIN issues = 1..Len(issues) /\ Len(issues) \in Nat
         /\ DOMAIN issues \subseteq Nat /\ None \notin DOMAIN issues
         /\ \A c : Live(c) \in SUBSET Nat /\ IsFiniteSet(Live(c))
                   /\ Live(c) \subseteq DOMAIN issues
<1>1. DOMAIN issues = 1..Len(issues) /\ Len(issues) \in Nat
  BY LenProperties
<1>2. IsFiniteSet(DOMAIN issues)
  BY <1>1, FS_Interval
<1>3. \A c : Live(c) \subseteq DOMAIN issues
  BY DEF Live
<1> QED
  BY <1>1, <1>2, <1>3, FS_Subset DEF None

\* A new issue gets the next number, and the others stay what they are.
LEMMA NewIssue ==
  ASSUME issues \in Seq(Commit), NEW c \in Commit, issues' = Append(issues, c)
  PROVE  /\ issues' \in Seq(Commit) /\ Len(issues') = Len(issues) + 1
         /\ Len(issues') \notin DOMAIN issues
         /\ DOMAIN issues' = DOMAIN issues \cup {Len(issues')}
         /\ issues'[Len(issues')] = c
         /\ \A i \in DOMAIN issues : issues'[i] = issues[i]
         /\ \A i \in DOMAIN issues : i < Len(issues')
<1>1. issues' \in Seq(Commit) /\ issues' # <<>>
  OBVIOUS
<1>2. DOMAIN issues' = 1..Len(issues') /\ Len(issues') = Len(issues) + 1
  BY <1>1, LenProperties
<1> QED
  BY <1>1, <1>2, LenProperties

Nooping(numbers) == [step : {"idle", "create", "cache", "save"},
                     commit : {{}} \cup {{c} : c \in Commit}, issue : {None} \cup numbers]
Dups(numbers) == [on : BOOLEAN, left : SUBSET Commit, doomed : SUBSET numbers]
Reporting == [step : {"idle", "sort", "find", "create", "lock"}, errors : SUBSET Node,
              files : SUBSET NodeFile, toLock : SUBSET Node]

CommitTypes == /\ issues \in Seq(Commit) /\ deleted \subseteq DOMAIN issues
               /\ cache \in [Commit -> {None} \cup DOMAIN issues]
               /\ saved \subseteq Commit /\ interrupted \subseteq Commit
               /\ noop \in Nooping(DOMAIN issues)
               /\ dups \in Dups(DOMAIN issues)
ErrorTypes == /\ open \in [NodeFile -> Nat]
              /\ holder \in [Node -> {"none", "heckler", "user"}] /\ bad \subseteq Node
              /\ report \in Reporting

LEMMA TypeParts ==
  /\ TypeOK <=> CommitTypes /\ ErrorTypes /\ budget \in 0..MaxEvents
  /\ TypeOK' <=> CommitTypes' /\ ErrorTypes' /\ budget' \in 0..MaxEvents
BY Zenon DEF TypeOK, CommitTypes, ErrorTypes, Nooping, Dups, Reporting

LEMMA KeepsNumbers == CommitTypes /\ UNCHANGED commitVars => CommitTypes'
BY DEF CommitTypes, commitVars

LEMMA KeepsErrors == ErrorTypes /\ UNCHANGED errorVars => ErrorTypes'
BY DEF ErrorTypes, errorVars

\* The types of the three records, for the values that actions give them.
LEMMA Resting ==
  /\ \A numbers : NotNooping \in Nooping(numbers) /\ NoDups \in Dups(numbers)
  /\ NotReporting \in Reporting
BY DEF NotNooping, Nooping, NoDups, Dups, NotReporting, Reporting, None

\* Every action keeps every variable in its type.
LEMMA TypeStep == TypeOK /\ [Next]_vars => TypeOK'
<1> SUFFICES ASSUME CommitTypes, ErrorTypes, budget \in 0..MaxEvents, [Next]_vars
             PROVE  CommitTypes' /\ ErrorTypes' /\ budget' \in 0..MaxEvents
  BY TypeParts
<1> USE IssueTrackingAssumption, Resting, KeepsNumbers, KeepsErrors DEF Spend
<1> DEFINE Typed == CommitTypes' /\ ErrorTypes' /\ budget' \in 0..MaxEvents
<1>1. ASSUME NEW c \in Commit, StartNoop(c) PROVE Typed
  <2>1. noop' \in Nooping(DOMAIN issues)
    BY <1>1 DEF StartNoop, NotNooping, Nooping, None
  <2> QED
    BY <1>1, <2>1 DEF StartNoop, CommitTypes
<1>2. CASE CreateCommitIssue
  <2>1. PICK c \in Commit : noop.commit = {c}
    BY <1>2 DEF CreateCommitIssue, CommitTypes, Nooping
  <2>2. ErrorTypes' /\ budget' \in 0..MaxEvents
    BY <1>2 DEF CreateCommitIssue
  <2>3. CASE issues' = Append(issues, c)
    <3>1. issues' \in Seq(Commit) /\ DOMAIN issues' = DOMAIN issues \cup {Len(issues')}
      BY <2>3, NewIssue DEF CommitTypes
    <3>2. /\ deleted' \subseteq DOMAIN issues'
          /\ cache' \in [Commit -> {None} \cup DOMAIN issues']
      BY <1>2, <3>1 DEF CreateCommitIssue, CommitTypes
    <3>3. interrupted' \subseteq Commit /\ saved' \subseteq Commit
      BY <1>2, <2>1 DEF CreateCommitIssue, CommitTypes
    <3>4. dups' \in Dups(DOMAIN issues')
      <4>1. Dups(DOMAIN issues) \subseteq Dups(DOMAIN issues')
        BY <3>1 DEF Dups
      <4> QED
        BY <1>2, <4>1 DEF CreateCommitIssue, CommitTypes
    <3>5. noop' \in Nooping(DOMAIN issues')
      <4>1. noop' = NotNooping \/ noop' = [noop EXCEPT !.step = "cache", !.issue = Len(issues')]
        BY <1>2 DEF CreateCommitIssue
      <4> QED
        BY <2>1, <3>1, <4>1 DEF CommitTypes, Nooping
    <3> QED
      BY <2>2, <3>1, <3>2, <3>3, <3>4, <3>5 DEF CommitTypes
  <2>4. CASE UNCHANGED issues /\ noop' = NotNooping
    BY <1>2, <2>1, <2>2, <2>4 DEF CreateCommitIssue, CommitTypes
  <2> QED
    BY <1>2, <2>1, <2>3, <2>4 DEF CreateCommitIssue
<1>3. CASE cacheCommitIssueNumber
  <2>1. noop' \in Nooping(DOMAIN issues)
    BY <1>3 DEF cacheCommitIssueNumber, CommitTypes, Nooping
  <2>2. cache' \in [Commit -> {None} \cup DOMAIN issues]
    BY <1>3 DEF cacheCommitIssueNumber, CommitTypes, Nooping
  <2> QED
    BY <1>3, <2>1, <2>2 DEF cacheCommitIssueNumber, CommitTypes
<1>4. CASE SaveReport
  <2>1. saved' \subseteq Commit
    BY <1>4 DEF SaveReport, CommitTypes, Nooping
  <2> QED
    BY <1>4, <2>1 DEF SaveReport, CommitTypes
<1>5. ASSUME NEW c \in Commit, Lookup(c) PROVE Typed
  <2>1. githubIssueFromCommit(c) \in DOMAIN issues
    BY <1>5, Numbers, OnlyOne DEF Lookup, githubIssueFromCommit, CommitTypes
  <2> QED
    BY <1>5, <2>1 DEF Lookup, CommitTypes
<1>6. CASE StartDups
  <2>1. dups' \in Dups(DOMAIN issues)
    BY <1>6 DEF StartDups, Dups
  <2> QED
    BY <1>6, <2>1 DEF StartDups, CommitTypes
<1>7. ASSUME NEW c \in Commit, SearchDups(c) PROVE Typed
  <2>1. Duplicates(c) \subseteq DOMAIN issues
    BY DEF Duplicates, Live
  <2>2. \A S \in SUBSET DOMAIN issues :
          [dups EXCEPT !.left = @ \ {c}, !.doomed = S] \in Dups(DOMAIN issues)
    BY DEF CommitTypes, Dups
  <2>3. [dups EXCEPT !.left = @ \ {c}] \in Dups(DOMAIN issues)
    BY DEF CommitTypes, Dups
  <2>4. dups' \in Dups(DOMAIN issues)
    BY <1>7, <2>1, <2>2, <2>3 DEF SearchDups
  <2> QED
    BY <1>7, <2>4 DEF SearchDups, CommitTypes
<1>8. ASSUME NEW i \in DOMAIN issues, deleteIssue(i) PROVE Typed
  <2>1. /\ [dups EXCEPT !.doomed = @ \ {i}] \in Dups(DOMAIN issues)
        /\ [dups EXCEPT !.doomed = {}] \in Dups(DOMAIN issues)
    BY DEF CommitTypes, Dups
  <2>2. dups' \in Dups(DOMAIN issues) /\ deleted' \subseteq DOMAIN issues
    BY <1>8, <2>1 DEF deleteIssue, CommitTypes
  <2> QED
    BY <1>8, <2>2 DEF deleteIssue, CommitTypes
<1>9. CASE EndDups
  BY <1>9 DEF EndDups, CommitTypes
<1>10. CASE apply
  <2>1. PICK errors \in SUBSET Node :
          report' = [NotReporting EXCEPT !.step = "sort", !.errors = errors]
    BY <1>10 DEF apply, ErrorTypes
  <2>2. report' \in Reporting
    BY <2>1 DEF Reporting, NotReporting
  <2>3. ErrorTypes' /\ UNCHANGED commitVars
    BY <1>10, <2>2 DEF apply, ErrorTypes
  <2>4. budget' \in 0..MaxEvents
    BY <1>10 DEF apply
  <2> QED
    BY <2>3, <2>4
<1>11. ASSUME NEW f \in NodeFile, FindIssue(f) PROVE Typed
  <2>1. Errored(f) \subseteq Node
    BY DEF Errored, ErrorTypes, Reporting
  <2>2. \A step \in {"create", "lock"} :
          [report EXCEPT !.step = step, !.files = @ \ {f}, !.toLock = Errored(f)] \in Reporting
    BY <2>1 DEF ErrorTypes, Reporting
  <2>3. report' \in Reporting
    BY <1>11, <2>2 DEF FindIssue
  <2> QED
    BY <1>11, <2>3 DEF FindIssue, ErrorTypes
<1>12. CASE CreateErrorIssue
  <2>1. report' \in Reporting
    BY <1>12 DEF CreateErrorIssue, ErrorTypes, Reporting
  <2>2. open' \in [NodeFile -> Nat]
    <3> DEFINE f == nodeFile[CHOOSE n \in report.toLock : TRUE]
    <3>1. [open EXCEPT ![f] = @ + 1] \in [NodeFile -> Nat]
      <4>1. CASE f \in NodeFile
        BY <4>1 DEF ErrorTypes
      <4>2. CASE f \notin NodeFile
        <5> HIDE DEF f
        <5> QED
          BY <4>2 DEF ErrorTypes
      <4> QED
        BY <4>1, <4>2
    <3>2. open' = open \/ open' = [open EXCEPT ![f] = @ + 1]
      BY <1>12 DEF CreateErrorIssue
    <3> QED
      BY <3>1, <3>2 DEF ErrorTypes
  <2> QED
    BY <1>12, <2>1, <2>2 DEF CreateErrorIssue, ErrorTypes
<1>13. CASE lockErroredNodes
  <2>1. report' \in Reporting
    BY <1>13 DEF lockErroredNodes, ErrorTypes, Reporting
  <2>2. holder' \in [Node -> {"none", "heckler", "user"}]
    BY <1>13 DEF lockErroredNodes, ErrorTypes
  <2> QED
    BY <1>13, <2>1, <2>2 DEF lockErroredNodes, ErrorTypes
<1>14. CASE Crash
  <2>1. interrupted' \subseteq Commit
    BY <1>14 DEF Crash, CommitTypes, Nooping
  <2> QED
    BY <1>14, <2>1 DEF Crash, CommitTypes, ErrorTypes
<1>15. CASE User
  <2>1. open' \in [NodeFile -> Nat]
    BY <1>15 DEF User, ErrorTypes
  <2>2. holder' \in [Node -> {"none", "heckler", "user"}] /\ bad' \subseteq Node
    BY <1>15 DEF User, ErrorTypes
  <2> QED
    BY <1>15, <2>1, <2>2 DEF User, ErrorTypes
<1>16. CASE UNCHANGED vars
  BY <1>16 DEF vars
<1>17. CASE SortErrors
  <2>1. ASSUME report.errors \subseteq DOMAIN nodeFile
        PROVE  {nodeFile[n] : n \in report.errors} \subseteq NodeFile
    BY <2>1
  <2>2. report' \in Reporting
    BY <1>17, <2>1 DEF SortErrors, ErrorTypes, Reporting
  <2> QED
    BY <1>17, <2>2 DEF SortErrors, ErrorTypes
<1> QED
  BY <1>1, <1>2, <1>3, <1>4, <1>5, <1>6, <1>7, <1>8, <1>9, <1>10, <1>11, <1>12, <1>13,
     <1>14, <1>15, <1>16, <1>17 DEF Next, noopLoop, deleteDupIssues, reportErrors

\* The type invariant of IssueTracking.
THEOREM Typing == Spec => []TypeOK
<1>1. Init => TypeOK
  <2> SUFFICES ASSUME Init PROVE TypeOK
    OBVIOUS
  <2>1. Cardinality(Commit) \in Nat
    BY IssueTrackingAssumption, FS_CardinalityType
  <2>2. issues \in Seq(Commit)
    <3>1. CASE issues = <<>>
      BY <3>1
    <3>2. CASE issues \in [1..Cardinality(Commit) -> Commit]
      BY <2>1, <3>2, SeqDef
    <3> QED
      BY <3>1, <3>2 DEF Init
  <2>3. cache \in [Commit -> {None} \cup DOMAIN issues]
    <3>1. CASE /\ \A c \in Commit : \E i \in DOMAIN issues : issues[i] = c
               /\ cache = [c \in Commit |-> CHOOSE i \in DOMAIN issues : issues[i] = c]
      BY <3>1
    <3> QED
      BY <3>1 DEF Init
  <2> QED
    BY <2>2, <2>3, IssueTrackingAssumption
    DEF Init, TypeOK, NotNooping, NoDups, NotReporting, None
<1> QED
  BY <1>1, TypeStep, PTL DEF Spec

-----------------------------------------------------------------------------
(* -deldups.                                                               *)

\* Of the commit of an issue that is going to be deleted, an earlier issue is there
\* which is not.
DoomedInv == \A i \in dups.doomed : \E j \in Live(issues[i]) : j < i /\ j \notin dups.doomed

LEMMA DoomedStep == TypeOK /\ DoomedInv /\ [Next]_vars => DoomedInv'
<1> SUFFICES ASSUME TypeOK, DoomedInv, [Next]_vars PROVE DoomedInv'
  OBVIOUS
<1>1. issues \in Seq(Commit) /\ dups.doomed \subseteq DOMAIN issues
  BY DEF TypeOK
<1>2. ASSUME UNCHANGED <<issues, deleted>>, dups'.doomed = {} \/ dups'.doomed = dups.doomed
      PROVE  DoomedInv'
  BY <1>2 DEF DoomedInv, Live
<1>3. CASE CreateCommitIssue
  <2>1. CASE UNCHANGED issues
    BY <1>3, <1>2, <2>1 DEF CreateCommitIssue
  <2>2. ASSUME NEW c \in Commit, issues' = Append(issues, c) PROVE DoomedInv'
    <3> SUFFICES ASSUME NEW i \in dups.doomed
                 PROVE  \E j \in Live(issues[i])' : j < i /\ j \notin dups.doomed
      BY <1>1, <1>3, <2>2, NewIssue DEF DoomedInv, CreateCommitIssue
    <3>1. PICK j \in Live(issues[i]) : j < i /\ j \notin dups.doomed
      BY DEF DoomedInv
    <3>2. j \in DOMAIN issues' \ deleted' /\ issues'[j] = issues'[i]
      BY <1>1, <1>3, <2>2, <3>1, NewIssue DEF Live, CreateCommitIssue
    <3> QED
      BY <3>1, <3>2 DEF Live
  <2> QED
    BY <1>3, <2>1, <2>2 DEF CreateCommitIssue, TypeOK
<1>4. ASSUME NEW c \in Commit, SearchDups(c) PROVE DoomedInv'
  <2>1. UNCHANGED <<issues, deleted>>
    BY <1>4 DEF SearchDups
  <2>2. dups'.doomed = dups.doomed \/ dups'.doomed = Duplicates(c)
    BY <1>4 DEF SearchDups, TypeOK
  <2>3. ASSUME dups'.doomed = Duplicates(c), NEW i \in Duplicates(c)
        PROVE  \E j \in Live(issues[i]) : j < i /\ j \notin dups'.doomed
    <3>1. issues[i] = c /\ Live(c) # {} /\ i \in Live(c)
      BY DEF Duplicates, Live
    <3>2. Earliest(Live(c)) \in Live(c) /\ \A j \in Live(c) : Earliest(Live(c)) <= j
      BY <1>1, <3>1, Numbers, EarliestOf
    <3>3. Live(c) \subseteq Nat
      BY <1>1, Numbers
    <3>4. Earliest(Live(c)) \notin Duplicates(c)
      BY <3>2, <3>3 DEF Duplicates
    <3>5. Earliest(Live(c)) < i
      BY <3>1, <3>2, <3>3 DEF Duplicates
    <3> QED
      BY <2>3, <3>1, <3>2, <3>4, <3>5
  <2>4. \A i : Live(issues[i])' = Live(issues[i])
    BY <2>1 DEF Live
  <2>5. ASSUME dups'.doomed = Duplicates(c) PROVE DoomedInv'
    <3> SUFFICES ASSUME NEW i \in dups'.doomed
                 PROVE  \E j \in Live(issues[i])' : j < i /\ j \notin dups'.doomed
      BY DEF DoomedInv
    <3>1. i \in Duplicates(c)
      BY <2>5
    <3>2. PICK j \in Live(issues[i]) : j < i /\ j \notin dups'.doomed
      BY <2>3, <2>5, <3>1
    <3>3. j \in Live(issues[i])'
      BY <2>4, <3>2
    <3> QED
      BY <3>2, <3>3
  <2> QED
    BY <1>2, <2>1, <2>2, <2>5
<1>5. ASSUME NEW i \in DOMAIN issues, deleteIssue(i) PROVE DoomedInv'
  <2>1. UNCHANGED issues /\ i \in dups.doomed /\ deleted' \subseteq deleted \cup {i}
    BY <1>5 DEF deleteIssue
  <2>2. \/ dups'.doomed = {}
        \/ dups'.doomed = dups.doomed \ {i} /\ deleted' = deleted \cup {i}
    BY <1>5 DEF deleteIssue, TypeOK
  <2>3. ASSUME dups'.doomed = dups.doomed \ {i}, NEW k \in dups.doomed \ {i}
        PROVE  \E j \in Live(issues[k])' : j < k /\ j \notin dups'.doomed
    <3>1. PICK j \in Live(issues[k]) : j < k /\ j \notin dups.doomed
      BY DEF DoomedInv
    <3>2. j \in Live(issues[k])'
      BY <2>1, <3>1 DEF Live
    <3> QED
      BY <2>3, <3>1, <3>2
  <2> QED
    BY <2>1, <2>2, <2>3 DEF DoomedInv
<1>6. ASSUME UNCHANGED <<issues, deleted, dups>> PROVE DoomedInv'
  BY <1>2, <1>6
<1>7. CASE StartDups \/ EndDups
  BY <1>7, <1>2 DEF StartDups, EndDups, NoDups
<1>8. CASE noopLoop
  BY <1>8, <1>3, <1>6 DEF noopLoop, StartNoop, cacheCommitIssueNumber, SaveReport
<1>9. CASE apply \/ reportErrors
  BY <1>9, <1>6 DEF apply, reportErrors, SortErrors, FindIssue, CreateErrorIssue,
     lockErroredNodes, commitVars
<1>10. CASE Crash \/ User \/ \E c \in Commit : Lookup(c)
  BY <1>10, <1>6 DEF Crash, User, Lookup, commitVars
<1>11. CASE UNCHANGED vars
  BY <1>11, <1>6 DEF vars, commitVars
<1> QED
  BY <1>4, <1>5, <1>7, <1>8, <1>9, <1>10, <1>11 DEF Next, deleteDupIssues

\* Only -deldups deletes, and what it deletes has an earlier issue of the commit.
LEMMA DeletesDuplicates ==
  ASSUME TypeOK, DoomedInv, [Next]_vars
  PROVE  /\ deleted \subseteq deleted'
         /\ \A i \in deleted' \ deleted : \E j \in Live(issues[i]) : j < i
<1>1. ASSUME NEW k \in DOMAIN issues, deleteIssue(k)
      PROVE  /\ deleted \subseteq deleted'
             /\ \A i \in deleted' \ deleted : \E j \in Live(issues[i]) : j < i
  BY <1>1 DEF deleteIssue, DoomedInv
<1>2. CASE UNCHANGED deleted
  BY <1>2
<1>3. CASE noopLoop
  BY <1>3, <1>2 DEF noopLoop, StartNoop, CreateCommitIssue, cacheCommitIssueNumber, SaveReport
<1>4. CASE apply \/ reportErrors
  BY <1>4, <1>2 DEF apply, reportErrors, SortErrors, FindIssue, CreateErrorIssue,
     lockErroredNodes, commitVars
<1>5. CASE Crash \/ User \/ \E c \in Commit : Lookup(c)
  BY <1>5, <1>2 DEF Crash, User, Lookup, commitVars
<1>6. CASE StartDups \/ EndDups \/ \E c \in Commit : SearchDups(c)
  BY <1>6, <1>2 DEF StartDups, EndDups, SearchDups
<1>7. CASE UNCHANGED vars
  BY <1>7, <1>2 DEF vars, commitVars
<1> QED
  BY <1>1, <1>3, <1>4, <1>5, <1>6, <1>7 DEF Next, deleteDupIssues

LEMMA TypedAndDoomed == Spec => [](TypeOK /\ DoomedInv)
<1>1. Init => DoomedInv
  BY DEF Init, NoDups, DoomedInv
<1> QED
  BY <1>1, DoomedStep, Typing, PTL DEF Spec

\* -deldups never deletes the earliest issue of a commit.
THEOREM EarliestIsKept == Spec => KeepsEarliest
<1> DEFINE Keeps == \A c \in Commit : Live(c) # {} => Earliest(Live(c)) \notin deleted'
<1>1. TypeOK /\ DoomedInv /\ [Next]_vars => Keeps
  <2> SUFFICES ASSUME TypeOK, DoomedInv, [Next]_vars, NEW c \in Commit, Live(c) # {},
                      Earliest(Live(c)) \in deleted'
               PROVE  FALSE
    OBVIOUS
  <2>1. Live(c) \in SUBSET Nat
    BY Numbers DEF TypeOK
  <2>2. /\ Earliest(Live(c)) \in Live(c)
        /\ \A j \in Live(c) : Earliest(Live(c)) <= j
    BY <2>1, EarliestOf
  <2>3. Earliest(Live(c)) \notin deleted /\ issues[Earliest(Live(c))] = c
    BY <2>2 DEF Live
  <2>4. PICK j \in Live(c) : j < Earliest(Live(c))
    BY <2>3, DeletesDuplicates
  <2> QED
    BY <2>1, <2>2, <2>4
<1>2. TypeOK /\ DoomedInv /\ [Next]_vars => [Keeps]_vars
  BY <1>1
<1>3. Spec => [][Keeps]_vars
  BY <1>2, TypedAndDoomed, PTL DEF Spec
<1> QED
  BY <1>3 DEF KeepsEarliest

-----------------------------------------------------------------------------
(* The issue of each commit.                                               *)

\* Issue i is the only one that is left of commit c, and no other number is cached.
Sole(c, i) == Live(c) = {i} /\ cache[c] \in {None, i}

Created(c) == c \in noop.commit /\ noop.step \in {"cache", "save"}

\* A commit at whose noop hecklerd was not interrupted has its issue from its creation
\* on, and none before.
TrackInv ==
  /\ noop.commit \cap saved = {}
  /\ \A c \in Commit \ interrupted :
       \/ c \in saved /\ \E i \in DOMAIN issues : Sole(c, i)
       \/ c \notin saved /\ Created(c) /\ Sole(c, noop.issue)
       \/ c \notin saved /\ ~Created(c) /\ Live(c) = {} /\ cache[c] = None

\* -deldups leaves the only issue of a commit, and opens none again.
LEMMA SoleStays ==
  ASSUME TypeOK, DoomedInv, [Next]_vars, UNCHANGED issues, NEW c
  PROVE  /\ Live(c) = {} => Live(c)' = {}
         /\ \A i : Live(c) = {i} => Live(c)' = {i}
<1>1. deleted \subseteq deleted' /\ Live(c)' \subseteq Live(c)
  BY DeletesDuplicates DEF Live
<1>2. ASSUME NEW i, Live(c) = {i}, i \in deleted' PROVE FALSE
  <2>1. i \in Nat /\ issues[i] = c /\ i \notin deleted
    BY <1>2, Numbers DEF Live, TypeOK
  <2>2. PICK j \in Live(c) : j < i
    BY <1>2, <2>1, DeletesDuplicates
  <2> QED
    BY <1>2, <2>1, <2>2
<1>3. ASSUME NEW i, Live(c) = {i} PROVE Live(c)' = {i}
  <2>1. i \in Live(c)'
    BY <1>2, <1>3 DEF Live
  <2> QED
    BY <1>1, <1>3, <2>1
<1> QED
  BY <1>1, <1>3

\* Steps that leave noop() and the caches alone.
LEMMA TrackKept ==
  ASSUME TypeOK, DoomedInv, TrackInv, [Next]_vars, UNCHANGED <<issues, cache, saved, noop>>,
         interrupted \subseteq interrupted'
  PROVE  TrackInv'
<1> SUFFICES ASSUME NEW c \in Commit \ interrupted
             PROVE  \/ c \in saved /\ \E i \in DOMAIN issues : Sole(c, i)'
                    \/ c \notin saved /\ Created(c) /\ Sole(c, noop.issue)'
                    \/ c \notin saved /\ ~Created(c) /\ Live(c)' = {} /\ cache[c] = None
  BY DEF TrackInv, Created
<1>1. \A i : Sole(c, i) => Sole(c, i)'
  BY SoleStays DEF Sole
<1> QED
  BY <1>1, SoleStays DEF TrackInv, Sole

LEMMA TrackStep == TypeOK /\ DoomedInv /\ TrackInv /\ [Next]_vars => TrackInv'
<1> SUFFICES ASSUME TypeOK, DoomedInv, TrackInv, [Next]_vars PROVE TrackInv'
  OBVIOUS
<1>1. NotNooping.commit = {} /\ NotNooping.step = "idle"
  BY DEF NotNooping
<1>2. /\ noop.commit \in {{}} \cup {{c} : c \in Commit} /\ cache \in [Commit -> {None} \cup DOMAIN issues]
      /\ issues \in Seq(Commit) /\ deleted \subseteq DOMAIN issues
      /\ \A s : [noop EXCEPT !.step = s].step = s /\ [noop EXCEPT !.step = s].commit = noop.commit
                /\ [noop EXCEPT !.step = s].issue = noop.issue
      /\ \A s, i : LET m == [noop EXCEPT !.step = s, !.issue = i]
                   IN m.step = s /\ m.commit = noop.commit /\ m.issue = i
  BY DEF TypeOK
<1>3. ASSUME NEW c \in Commit, StartNoop(c) PROVE TrackInv'
  <2>1. noop'.commit = {c} /\ noop'.step = "create" /\ noop.step = "idle" /\ c \notin saved
    BY <1>3 DEF StartNoop, NotNooping
  <2>2. \A d : Live(d)' = Live(d)
    BY <1>3 DEF StartNoop, Live
  <2>3. \A d : ~Created(d) /\ ~Created(d)'
    BY <2>1 DEF Created
  <2> QED
    BY <1>3, <2>1, <2>2, <2>3 DEF StartNoop, TrackInv, Sole
<1>4. CASE CreateCommitIssue
  <2>1. PICK c \in Commit : noop.commit = {c}
    BY <1>2, <1>4 DEF CreateCommitIssue
  <2>2. (\A d : ~Created(d)) /\ c \notin saved /\ UNCHANGED <<deleted, cache, saved>>
    BY <1>4, <2>1 DEF CreateCommitIssue, Created, TrackInv
  <2>3. noop'.commit \cap saved' = {}
    <3>1. \/ noop' = NotNooping
          \/ \E i : noop' = [noop EXCEPT !.step = "cache", !.issue = i]
      BY <1>4 DEF CreateCommitIssue
    <3>2. \A i : [noop EXCEPT !.step = "cache", !.issue = i].commit = noop.commit
      BY DEF TypeOK
    <3>3. noop'.commit = {} \/ noop'.commit = {c}
      BY <1>1, <2>1, <3>1, <3>2, Zenon
    <3> QED
      BY <2>2, <3>3
  <2>4. CASE UNCHANGED issues /\ noop' = NotNooping /\ UNCHANGED interrupted
    <3>1. \A d : Live(d)' = Live(d) /\ ~Created(d)'
      BY <1>1, <2>2, <2>4 DEF Live, Created
    <3> QED
      BY <2>2, <2>3, <2>4, <3>1 DEF TrackInv, Sole
  <2>5. CASE issues' = Append(issues, c)
    <3>1. /\ \A d \in Commit \ {c} : Live(d)' = Live(d)
          /\ Live(c)' = Live(c) \cup {Len(issues')}
          /\ DOMAIN issues \subseteq DOMAIN issues'
      BY <1>2, <2>2, <2>5, NewIssue DEF Live
    <3>2. ASSUME NEW d \in Commit \ interrupted, d # c
          PROVE  \/ d \in saved /\ \E i \in DOMAIN issues' : Sole(d, i)'
                 \/ d \notin saved /\ Live(d)' = {} /\ cache'[d] = None
      BY <2>2, <3>1, <3>2 DEF TrackInv, Sole
    <3>3. CASE noop' = [noop EXCEPT !.step = "cache", !.issue = Len(issues')] /\ UNCHANGED interrupted
      <4>1. noop'.commit = {c} /\ noop'.step = "cache" /\ noop'.issue = Len(issues')
        BY <1>2, <2>1, <3>3
      <4>2. Created(c)' /\ \A d : d # c => ~Created(d)'
        BY <4>1 DEF Created
      <4>3. c \notin interrupted => Live(c) = {} /\ cache[c] = None
        BY <2>2 DEF TrackInv
      <4>4. c \notin interrupted => Sole(c, noop.issue)'
        BY <2>2, <3>1, <4>1, <4>3 DEF Sole
      <4> QED
        BY <2>2, <2>3, <3>2, <3>3, <4>2, <4>4 DEF TrackInv
    <3>4. CASE noop' = NotNooping /\ interrupted' = interrupted \cup {c}
      <4>1. \A d : ~Created(d)'
        BY <1>1, <3>4 DEF Created
      <4> QED
        BY <2>2, <2>3, <3>2, <3>4, <4>1 DEF TrackInv
    <3> QED
      BY <1>4, <2>1, <2>5, <3>3, <3>4 DEF CreateCommitIssue
  <2> QED
    BY <1>4, <2>1, <2>4, <2>5 DEF CreateCommitIssue
<1>5. CASE cacheCommitIssueNumber
  <2>1. noop'.commit = noop.commit /\ noop'.step = "save" /\ noop'.issue = noop.issue
    BY <1>2, <1>5 DEF cacheCommitIssueNumber
  <2>2. \A d : Live(d)' = Live(d) /\ (Created(d)' <=> Created(d))
    BY <1>5, <2>1 DEF cacheCommitIssueNumber, Live, Created
  <2>3. ASSUME NEW d \in Commit
        PROVE  cache'[d] = cache[d] \/ (Created(d) /\ cache'[d] = noop.issue)
    <3>1. cache' = cache \/ \E c \in noop.commit : cache' = [cache EXCEPT ![c] = noop.issue]
      BY <1>5 DEF cacheCommitIssueNumber
    <3>2. \A c \in noop.commit : Created(c)
      BY <1>5 DEF cacheCommitIssueNumber, Created
    <3> QED
      BY <1>2, <3>1, <3>2
  <2>4. UNCHANGED <<issues, saved, interrupted>>
    BY <1>5 DEF cacheCommitIssueNumber
  <2>5. ASSUME NEW d \in Commit \ interrupted
        PROVE  \/ d \in saved /\ \E i \in DOMAIN issues : Sole(d, i)'
               \/ d \notin saved /\ Created(d)' /\ Sole(d, noop.issue)'
               \/ d \notin saved /\ ~Created(d)' /\ Live(d)' = {} /\ cache'[d] = None
    <3>1. ASSUME NEW i, Sole(d, i), Created(d) => i = noop.issue PROVE Sole(d, i)'
      BY <2>1, <2>2, <2>3, <3>1 DEF Sole
    <3>2. CASE d \in saved
      <4>1. ~Created(d)
        BY <3>2 DEF TrackInv, Created
      <4> QED
        BY <3>1, <3>2, <4>1 DEF TrackInv
    <3>3. CASE d \notin saved /\ Created(d)
      BY <2>1, <2>2, <2>3, <3>3 DEF TrackInv, Sole
    <3>4. CASE d \notin saved /\ ~Created(d)
      BY <2>2, <2>3, <3>4 DEF TrackInv
    <3> QED
      BY <3>2, <3>3, <3>4
  <2> QED
    BY <2>1, <2>4, <2>5 DEF TrackInv
<1>6. CASE SaveReport
  <2>1. (\A d : ~Created(d)') /\ \A d : Live(d)' = Live(d)
    BY <1>1, <1>6 DEF SaveReport, Created, Live
  <2>2. \A d : d \in noop.commit => Created(d)
    BY <1>6 DEF SaveReport, Created
  <2>3. \A d : Sole(d, noop.issue) => noop.issue \in DOMAIN issues
    BY DEF Sole, Live
  <2>4. UNCHANGED <<issues, cache, interrupted>> /\ saved' = saved \cup noop.commit
    BY <1>6 DEF SaveReport
  <2>5. ASSUME NEW d \in Commit \ interrupted
        PROVE  \/ d \in saved' /\ \E i \in DOMAIN issues : Sole(d, i)'
               \/ d \notin saved' /\ Live(d)' = {} /\ cache[d] = None
    <3>1. \A i : Sole(d, i) => Sole(d, i)'
      BY <2>1, <2>4 DEF Sole
    <3> QED
      BY <2>1, <2>2, <2>3, <2>4, <3>1 DEF TrackInv, Created
  <2>6. noop'.commit = {}
    BY <1>1, <1>6 DEF SaveReport
  <2> QED
    BY <2>1, <2>4, <2>5, <2>6 DEF TrackInv
<1>7. ASSUME NEW c \in Commit, Lookup(c) PROVE TrackInv'
  <2>1. \A d : Live(d)' = Live(d) /\ (Created(d)' <=> Created(d))
    BY <1>7 DEF Lookup, Live, Created
  <2>2. /\ cache' = [cache EXCEPT ![c] = Earliest(Live(c))]
        /\ Cardinality(Live(c)) = 1 /\ Live(c) # {}
    BY <1>2, <1>7, Numbers, OnlyOne DEF Lookup, githubIssueFromCommit
  <2>3. \A i \in DOMAIN issues : Live(c) = {i} => Earliest(Live(c)) = i
    BY <1>2, Numbers, OnlyOne
  <2>4. UNCHANGED <<issues, saved, noop, interrupted>>
    BY <1>7 DEF Lookup
  <2>5. ASSUME NEW d \in Commit, NEW i, Sole(d, i) PROVE Sole(d, i)'
    <3>1. i \in DOMAIN issues
      BY <2>5 DEF Sole, Live
    <3> QED
      BY <1>2, <2>1, <2>2, <2>3, <2>5, <3>1 DEF Sole
  <2>6. \A d \in Commit : Live(d) = {} /\ cache[d] = None => cache'[d] = None
    BY <1>2, <2>2
  <2> QED
    BY <2>1, <2>4, <2>5, <2>6 DEF TrackInv
<1>8. CASE Crash
  <2>1. \A d : ~Created(d)' /\ Live(d)' = Live(d)
    BY <1>1, <1>8 DEF Crash, Created, Live
  <2>2. \A d : Created(d) => d \in interrupted'
    BY <1>8 DEF Crash, Created
  <2>3. UNCHANGED <<issues, cache, saved>> /\ interrupted \subseteq interrupted' /\ noop'.commit = {}
    BY <1>1, <1>8 DEF Crash
  <2> QED
    BY <2>1, <2>2, <2>3 DEF TrackInv, Sole
<1>9. ASSUME UNCHANGED <<issues, cache, saved, noop, interrupted>> PROVE TrackInv'
  BY <1>9, TrackKept
<1>10. CASE deleteDupIssues
  BY <1>10, <1>9 DEF deleteDupIssues, StartDups, SearchDups, deleteIssue, EndDups
<1>11. CASE apply \/ reportErrors
  BY <1>11, <1>9 DEF apply, reportErrors, SortErrors, FindIssue, CreateErrorIssue,
     lockErroredNodes, commitVars
<1>12. CASE User
  BY <1>12, <1>9 DEF User, commitVars
<1>13. CASE UNCHANGED vars
  BY <1>13, <1>9 DEF vars, commitVars
<1> QED
  BY <1>3, <1>4, <1>5, <1>6, <1>7, <1>8, <1>10, <1>11, <1>12, <1>13 DEF Next, noopLoop

\* When the commits have as many issues as there are commits, each has one.
LEMMA TrackInit == Init => TrackInv
<1> SUFFICES ASSUME Init PROVE TrackInv
  OBVIOUS
<1>1. noop.commit = {} /\ \A c : ~Created(c)
  BY DEF Init, NotNooping, Created
<1>2. CASE issues = <<>> /\ saved = {} /\ \A c \in Commit : cache[c] = None
  BY <1>1, <1>2 DEF TrackInv, Live
<1>3. CASE /\ saved = Commit /\ issues \in [1..Cardinality(Commit) -> Commit]
           /\ \A c \in Commit : \E i \in DOMAIN issues : issues[i] = c
           /\ cache = [c \in Commit |-> CHOOSE i \in DOMAIN issues : issues[i] = c]
  <2> DEFINE n == Cardinality(Commit)
  <2>1. n \in Nat
    BY IssueTrackingAssumption, FS_CardinalityType
  <2>2. IsFiniteSet(1..n) /\ Cardinality(1..n) = n
    BY <2>1, FS_Interval
  <2>3. issues \in Surjection(1..n, Commit)
    BY <1>3 DEF Surjection
  <2>4. issues \in Injection(1..n, Commit)
    BY <2>2, <2>3, FS_SurjSameCardinalityImpliesInj
  <2>5. ASSUME NEW c \in Commit PROVE \E i \in DOMAIN issues : Sole(c, i)
    <3>1. PICK i \in 1..n : issues[i] = c
      BY <1>3
    <3>2. \A i1, i2 \in 1..n : issues[i1] = issues[i2] => i1 = i2
      BY <1>3, <2>4, Zenon DEF Injection, IsInjective
    <3>3. Live(c) = {j \in 1..n : issues[j] = c}
      <4>1. deleted = {}
        BY DEF Init
      <4> QED
        BY <1>3, <4>1 DEF Live
    <3>4. Live(c) = {i} /\ cache[c] = i
      BY <1>3, <3>1, <3>2, <3>3
    <3> QED
      BY <1>3, <3>1, <3>4 DEF Sole
  <2> QED
    BY <1>1, <1>3, <2>5 DEF TrackInv
<1> QED
  BY <1>2, <1>3 DEF Init

\* A commit at whose noop hecklerd is not interrupted has one issue, and it is the one
\* that lookups take.
THEOREM CommitsAreTracked == Spec => []TrackedUnlessInterrupted
<1>1. TypeOK /\ TrackInv => TrackedUnlessInterrupted
  <2> SUFFICES ASSUME TypeOK, TrackInv, NEW c \in saved \ interrupted
               PROVE  Cardinality(Live(c)) = 1 /\ githubIssueFromCommit(c) \in Live(c)
    BY DEF TrackedUnlessInterrupted
  <2>1. PICK i \in DOMAIN issues : Live(c) = {i} /\ cache[c] \in {None, i}
    BY DEF TrackInv, Sole, TypeOK
  <2>2. Live(c) \in SUBSET Nat /\ IsFiniteSet(Live(c)) /\ i \in Live(c)
    BY <2>1, Numbers DEF TypeOK
  <2>3. Cardinality(Live(c)) = 1 /\ Earliest(Live(c)) = i
    BY <2>1, <2>2, OnlyOne
  <2> QED
    BY <2>1, <2>3 DEF githubIssueFromCommit
<1> QED
  BY <1>1, TrackInit, TrackStep, TypedAndDoomed, PTL DEF Spec

-----------------------------------------------------------------------------
(* What stays true of a commit's issues after interruptions.               *)

\* Once a commit has an issue it always has one, and the earliest, which users know and
\* githubIssueDeleteDups keeps, stays the same, however many more are created, deleted
\* or lost.
EarliestStays ==
  [][\A c \in Commit : Live(c) # {} =>
       Live(c)' # {} /\ Earliest(Live(c)') = Earliest(Live(c))]_vars

\* Whatever is interrupted or lost, a commit whose noop is saved, and which is then
\* nooped no more, has an issue to be approved on, and a cached number is that of an
\* issue created for this commit, although -deldups may have deleted it since.
SavedHaveIssues ==
  /\ \A c \in saved : Live(c) # {}
  /\ \A c \in Commit : cache[c] # None => issues[cache[c]] = c

\* The issue just created is of the commit that is nooped.
CreatedInv ==
  /\ SavedHaveIssues
  /\ noop.step \in {"cache", "save"} =>
       \A c \in noop.commit : Live(c) # {} /\ issues[noop.issue] = c /\ noop.issue # None

\* The issues there are stay as they are.
LEMMA IssuesGrow ==
  ASSUME TypeOK, [Next]_vars
  PROVE  /\ DOMAIN issues \subseteq DOMAIN issues'
         /\ \A i \in DOMAIN issues : issues'[i] = issues[i]
         /\ \A i \in DOMAIN issues' \ DOMAIN issues, j \in DOMAIN issues : j < i
<1>1. issues \in Seq(Commit)
  BY DEF TypeOK
<1>2. CASE UNCHANGED issues
  BY <1>2
<1>3. ASSUME NEW c \in Commit, issues' = Append(issues, c)
      PROVE  /\ DOMAIN issues \subseteq DOMAIN issues'
             /\ \A i \in DOMAIN issues : issues'[i] = issues[i]
             /\ \A i \in DOMAIN issues' \ DOMAIN issues, j \in DOMAIN issues : j < i
  BY <1>1, <1>3, NewIssue
<1>4. CASE noopLoop
  <2>1. CASE CreateCommitIssue
    BY <1>2, <1>3, <2>1 DEF CreateCommitIssue, TypeOK
  <2> QED
    BY <1>2, <1>4, <2>1 DEF noopLoop, StartNoop, cacheCommitIssueNumber, SaveReport
<1>5. CASE apply \/ reportErrors
  BY <1>5, <1>2 DEF apply, reportErrors, SortErrors, FindIssue, CreateErrorIssue,
     lockErroredNodes, commitVars
<1>6. CASE Crash \/ User \/ \E c \in Commit : Lookup(c)
  BY <1>6, <1>2 DEF Crash, User, Lookup, commitVars
<1>7. CASE deleteDupIssues
  BY <1>7, <1>2 DEF deleteDupIssues, StartDups, EndDups, SearchDups, deleteIssue
<1>8. CASE UNCHANGED vars
  BY <1>8, <1>2 DEF vars, commitVars
<1> QED
  BY <1>4, <1>5, <1>6, <1>7, <1>8 DEF Next

\* The earliest issue of a commit outlives every step, and stays the earliest.
LEMMA EarliestSurvives ==
  ASSUME TypeOK, TypeOK', DoomedInv, [Next]_vars, NEW c, Live(c) # {}
  PROVE  Live(c)' # {} /\ Earliest(Live(c)') = Earliest(Live(c))
<1> DEFINE e == Earliest(Live(c))
<1>1. Live(c) \in SUBSET Nat /\ Live(c)' \in SUBSET Nat /\ Live(c)' \subseteq DOMAIN issues'
  <2>1. \A S : S \in Seq(Commit) => DOMAIN S \subseteq Nat
    BY LenProperties
  <2> QED
    BY <2>1 DEF TypeOK, Live
<1>2. e \in Live(c) /\ \A j \in Live(c) : e <= j
  BY <1>1, EarliestOf
<1>3. e \in Nat /\ e \in DOMAIN issues /\ e \notin deleted /\ issues[e] = c
  BY <1>1, <1>2 DEF Live
<1>4. e \notin deleted'
  <2> SUFFICES ASSUME e \in deleted' PROVE FALSE
    OBVIOUS
  <2>1. PICK j \in Live(c) : j < e
    BY <1>3, DeletesDuplicates
  <2> QED
    BY <1>1, <1>2, <1>3, <2>1
<1>5. e \in Live(c)'
  BY <1>3, <1>4, IssuesGrow DEF Live
<1>6. \A j \in Live(c)' : e <= j
  <2> TAKE j \in Live(c)'
  <2>1. j \in Nat
    BY <1>1
  <2>2. CASE j \in DOMAIN issues
    <3>1. j \in Live(c)
      BY <2>2, IssuesGrow, DeletesDuplicates DEF Live
    <3> QED
      BY <1>2, <3>1
  <2>3. CASE j \notin DOMAIN issues
    <3>1. e < j
      BY <1>1, <1>3, <2>3, IssuesGrow
    <3> QED
      BY <1>3, <2>1, <3>1
  <2> QED
    BY <2>2, <2>3
<1>7. Earliest(Live(c)') \in Live(c)' /\ \A j \in Live(c)' : Earliest(Live(c)') <= j
  BY <1>1, <1>5, EarliestOf
<1>8. Earliest(Live(c)') = e
  <2>1. Earliest(Live(c)') \in Nat /\ Earliest(Live(c)') <= e /\ e <= Earliest(Live(c)')
    BY <1>1, <1>5, <1>6, <1>7
  <2> HIDE DEF e
  <2> QED
    BY <1>3, <2>1
<1> QED
  BY <1>5, <1>8

\* Once a commit has an issue it always has one, and the earliest stays the same.
THEOREM EarliestIsForGood == Spec => EarliestStays
<1> DEFINE Stays == \A c \in Commit : Live(c) # {} =>
                      Live(c)' # {} /\ Earliest(Live(c)') = Earliest(Live(c))
<1>1. TypeOK /\ TypeOK' /\ DoomedInv /\ [Next]_vars => Stays
  BY EarliestSurvives
<1>2. TypeOK /\ TypeOK' /\ DoomedInv /\ [Next]_vars => [Stays]_vars
  BY <1>1
<1>3. Spec => [][Stays]_vars
  BY <1>2, TypedAndDoomed, PTL DEF Spec
<1> QED
  BY <1>3 DEF EarliestStays

LEMMA CreatedStep ==
  ASSUME TypeOK, TypeOK', DoomedInv, CreatedInv, [Next]_vars
  PROVE  CreatedInv'
<1>1. /\ issues \in Seq(Commit) /\ cache \in [Commit -> {None} \cup DOMAIN issues]
      /\ noop \in Nooping(DOMAIN issues)
  BY DEF TypeOK, Nooping
<1>2. \A c : Live(c) # {} => Live(c)' # {}
  BY EarliestSurvives
<1>3. \A i \in DOMAIN issues : issues'[i] = issues[i]
  BY IssuesGrow
<1>4. noop.issue \in {None} \cup DOMAIN issues /\ None \notin DOMAIN issues
  BY <1>1, Numbers DEF Nooping
<1>5. ASSUME saved' = saved, cache' = cache, noop' = noop \/ noop'.step \notin {"cache", "save"}
      PROVE  CreatedInv'
  <2>1. \A c \in saved' : Live(c)' # {}
    BY <1>2, <1>5 DEF CreatedInv, SavedHaveIssues
  <2>2. \A c \in Commit : cache'[c] # None => issues'[cache'[c]] = c
    BY <1>1, <1>3, <1>5 DEF CreatedInv, SavedHaveIssues
  <2>3. noop'.step \in {"cache", "save"} =>
          \A c \in noop'.commit : Live(c)' # {} /\ issues'[noop'.issue] = c /\ noop'.issue # None
    BY <1>2, <1>3, <1>4, <1>5 DEF CreatedInv
  <2> QED
    BY <2>1, <2>2, <2>3 DEF CreatedInv, SavedHaveIssues
<1>6. ASSUME NEW c \in Commit, StartNoop(c) PROVE CreatedInv'
  BY <1>5, <1>6 DEF StartNoop, NotNooping
<1>7. CASE CreateCommitIssue
  <2>1. CASE noop' = NotNooping
    BY <1>5, <1>7, <2>1 DEF CreateCommitIssue, NotNooping
  <2>2. ASSUME NEW c \in noop.commit, issues' = Append(issues, c),
               noop' = [noop EXCEPT !.step = "cache", !.issue = Len(issues')]
        PROVE  CreatedInv'
    <3>1. noop.commit = {c} /\ c \in Commit
      BY <1>1, <2>2 DEF Nooping
    <3>2. /\ DOMAIN issues' = DOMAIN issues \cup {Len(issues')}
          /\ issues'[Len(issues')] = c /\ Len(issues') \notin DOMAIN issues
          /\ issues' \in Seq(Commit) /\ Len(issues') = Len(issues) + 1
      BY <1>1, <2>2, <3>1, NewIssue
    <3>3. deleted \subseteq DOMAIN issues /\ deleted' = deleted
      BY <1>7 DEF CreateCommitIssue, TypeOK
    <3>4. Len(issues') \in Live(c)'
      BY <3>2, <3>3 DEF Live
    <3>5. Len(issues') # None
      <4>1. Len(issues) \in Nat
        BY <1>1, LenProperties
      <4> QED
        BY <3>2, <4>1 DEF None
    <3>6. noop'.commit = {c} /\ noop'.issue = Len(issues') /\ noop'.step = "cache"
      BY <1>1, <2>2, <3>1 DEF Nooping
    <3>7. saved' = saved /\ cache' = cache
      BY <1>7 DEF CreateCommitIssue
    <3>8. SavedHaveIssues'
      BY <1>1, <1>2, <1>3, <3>7 DEF CreatedInv, SavedHaveIssues
    <3> QED
      BY <3>2, <3>4, <3>5, <3>6, <3>8 DEF CreatedInv
  <2> QED
    BY <1>7, <2>1, <2>2 DEF CreateCommitIssue
<1>8. CASE cacheCommitIssueNumber
  <2>1. noop'.commit = noop.commit /\ noop'.issue = noop.issue /\ saved' = saved
    BY <1>1, <1>8 DEF cacheCommitIssueNumber, Nooping
  <2>2. \A c \in noop.commit : Live(c) # {} /\ issues[noop.issue] = c /\ noop.issue # None
    BY <1>8 DEF cacheCommitIssueNumber, CreatedInv
  <2>3. \A c \in noop.commit : Live(c)' # {} /\ issues'[noop.issue] = c
    BY <1>2, <1>3, <1>4, <2>2
  <2>4. \A c \in Commit : cache'[c] # None => issues'[cache'[c]] = c
    BY <1>1, <1>3, <1>8, <2>3 DEF cacheCommitIssueNumber, CreatedInv, SavedHaveIssues
  <2>5. SavedHaveIssues'
    BY <1>2, <2>1, <2>4 DEF CreatedInv, SavedHaveIssues
  <2> QED
    BY <2>1, <2>2, <2>3, <2>5 DEF CreatedInv
<1>9. CASE SaveReport
  <2>1. \A c \in saved' : Live(c)' # {}
    BY <1>2, <1>9 DEF SaveReport, CreatedInv, SavedHaveIssues
  <2>2. \A c \in Commit : cache'[c] # None => issues'[cache'[c]] = c
    BY <1>9 DEF SaveReport, CreatedInv, SavedHaveIssues
  <2> QED
    BY <1>9, <2>1, <2>2 DEF SaveReport, NotNooping, CreatedInv, SavedHaveIssues
<1>10. ASSUME NEW c \in Commit, Lookup(c) PROVE CreatedInv'
  <2>1. cache' = [cache EXCEPT ![c] = githubIssueFromCommit(c)] /\ cache[c] = None
    BY <1>10 DEF Lookup
  <2>2. githubIssueFromCommit(c) # None => githubIssueFromCommit(c) \in Live(c)
    <3>1. Live(c) \in SUBSET Nat /\ IsFiniteSet(Live(c))
      BY <1>1, Numbers
    <3> QED
      BY <2>1, <3>1, OnlyOne DEF githubIssueFromCommit
  <2>3. UNCHANGED <<issues, deleted, saved, noop>>
    BY <1>10 DEF Lookup
  <2>4. \A d \in Commit : cache'[d] # None => issues'[cache'[d]] = d
    BY <1>1, <2>1, <2>2, <2>3 DEF Live, CreatedInv, SavedHaveIssues
  <2>5. SavedHaveIssues'
    BY <1>2, <2>3, <2>4 DEF CreatedInv, SavedHaveIssues
  <2> QED
    BY <1>2, <2>3, <2>5 DEF CreatedInv
<1>11. CASE deleteDupIssues
  BY <1>5, <1>11 DEF deleteDupIssues, StartDups, EndDups, SearchDups, deleteIssue
<1>12. CASE apply \/ reportErrors
  BY <1>5, <1>12 DEF apply, reportErrors, SortErrors, FindIssue, CreateErrorIssue,
     lockErroredNodes, commitVars
<1>13. CASE Crash \/ User
  BY <1>5, <1>13 DEF Crash, User, commitVars, NotNooping
<1>14. CASE UNCHANGED vars
  BY <1>5, <1>14 DEF vars, commitVars
<1> QED
  BY <1>6, <1>7, <1>8, <1>9, <1>10, <1>11, <1>12, <1>13, <1>14 DEF Next, noopLoop

\* A commit whose noop is saved has an issue, and a cached number is of its own commit.
THEOREM SavedCommitsHaveIssues == Spec => []SavedHaveIssues
<1>1. Init => CreatedInv
  <2> SUFFICES ASSUME Init PROVE CreatedInv
    OBVIOUS
  <2>1. /\ noop.step = "idle" /\ deleted = {}
        /\ \A c \in Commit : cache[c] # None => issues[cache[c]] = c
    BY DEF Init, NotNooping
  <2>2. \A c \in saved : \E i \in DOMAIN issues : issues[i] = c
    BY DEF Init
  <2> QED
    BY <2>1, <2>2 DEF CreatedInv, SavedHaveIssues, Live
<1>2. TypeOK /\ TypeOK' /\ DoomedInv /\ CreatedInv /\ [Next]_vars => CreatedInv'
  BY CreatedStep
<1>3. CreatedInv => SavedHaveIssues
  BY DEF CreatedInv
<1> QED
  BY <1>1, <1>2, <1>3, TypedAndDoomed, PTL DEF Spec

-----------------------------------------------------------------------------
(* reportErrors.                                                           *)

\* An issue is only created for a node file that has none open, and the nodes that
\* are to be locked are of that file.  Once reportErrors looks for issues, every host
\* of the report has a node file.
ReportInv ==
  /\ OneOpenErrorIssue
  /\ report.step \in {"find", "create", "lock"} => report.errors \subseteq DOMAIN nodeFile
  /\ report.files # {} => report.step \in {"find", "create", "lock"}
  /\ \A f \in report.files : \E n \in report.errors : nodeFile[n] = f
  /\ report.step = "create" =>
       /\ report.toLock # {}
       /\ \A n \in report.toLock : n \in DOMAIN nodeFile /\ open[nodeFile[n]] = 0

\* What the steps that only turn to the next one change of the report.
LEMMA Relocked ==
  ASSUME TypeOK
  PROVE  /\ NotReporting.step = "idle" /\ NotReporting.files = {}
         /\ \A S, r : r = [report EXCEPT !.toLock = S] =>
              r.step = report.step /\ r.files = report.files /\ r.errors = report.errors
         /\ \A s, r : r = [report EXCEPT !.step = s] =>
              r.step = s /\ r.files = report.files /\ r.errors = report.errors
BY DEF NotReporting, TypeOK

LEMMA ReportStep == TypeOK /\ ReportInv /\ [Next]_vars => ReportInv'
<1> SUFFICES ASSUME TypeOK, ReportInv, [Next]_vars PROVE ReportInv'
  OBVIOUS
<1>1. /\ open \in [NodeFile -> Nat] /\ report.files \subseteq NodeFile
      /\ report.toLock \subseteq Node /\ report.errors \subseteq Node
  BY DEF TypeOK
<1> USE IssueTrackingAssumption DEF ReportInv, OneOpenErrorIssue
<1>2. CASE apply
  <2>1. report'.step = "sort" /\ report'.files = {}
    BY <1>2 DEF apply, NotReporting
  <2> QED
    BY <1>2, <2>1 DEF apply
<1>13. CASE SortErrors
  <2>1. CASE report' = NotReporting
    BY <1>13, <2>1 DEF SortErrors, NotReporting
  <2>2. CASE /\ report.errors \subseteq DOMAIN nodeFile
             /\ report' = [report EXCEPT !.step = "find",
                                         !.files = {nodeFile[n] : n \in report.errors}]
    <3>1. /\ report'.step = "find" /\ report'.errors = report.errors
          /\ report'.files = {nodeFile[n] : n \in report.errors}
      BY <2>2 DEF TypeOK
    <3> QED
      BY <1>13, <2>2, <3>1 DEF SortErrors
  <2> QED
    BY <1>13, <2>1, <2>2 DEF SortErrors
<1>3. ASSUME NEW f \in NodeFile, FindIssue(f) PROVE ReportInv'
  <2>1. Errored(f) # {} /\ \A n \in Errored(f) : nodeFile[n] = f
    BY <1>3 DEF FindIssue, Errored
  <2>2. CASE report' = NotReporting
    BY <1>3, <2>2 DEF FindIssue, NotReporting
  <2>3. ASSUME NEW step \in {"create", "lock"}, step = "create" => open[f] = 0,
               report' = [report EXCEPT !.step = step, !.files = @ \ {f}, !.toLock = Errored(f)]
        PROVE  ReportInv'
    <3>1. /\ report'.step = step /\ report'.files = report.files \ {f}
          /\ report'.toLock = Errored(f) /\ report'.errors = report.errors
      BY <2>3 DEF TypeOK
    <3>2. report.errors \subseteq DOMAIN nodeFile
      BY <1>3 DEF FindIssue
    <3>3. /\ Errored(f) \subseteq DOMAIN nodeFile
          /\ step = "create" => \A n \in Errored(f) : open[nodeFile[n]] = 0
      BY <2>1, <2>3, <3>2 DEF Errored
    <3>4. open' = open
      BY <1>3 DEF FindIssue
    <3> QED
      BY <2>1, <3>1, <3>2, <3>3, <3>4
  <2> QED
    BY <1>3, <2>2, <2>3 DEF FindIssue
<1>4. CASE CreateErrorIssue
  <2> DEFINE f == nodeFile[CHOOSE n \in report.toLock : TRUE]
  <2>1. f \in NodeFile /\ open[f] = 0
    BY <1>1, <1>4 DEF CreateErrorIssue
  <2>2. \A g \in NodeFile : [open EXCEPT ![f] = @ + 1][g] <= 1
    BY <1>1, <2>1
  <2>3. open' = open \/ open' = [open EXCEPT ![f] = @ + 1]
    BY <1>4 DEF CreateErrorIssue
  <2>4. report' = NotReporting \/ report' = [report EXCEPT !.step = "lock"]
    BY <1>4 DEF CreateErrorIssue
  <2>5. report.errors \subseteq DOMAIN nodeFile
    BY <1>4 DEF CreateErrorIssue
  <2>6. \/ report'.step = "idle" /\ report'.files = {}
        \/ /\ report'.step = "lock"
           /\ report'.files = report.files /\ report'.errors = report.errors
    <3>1. CASE report' = NotReporting
      BY <3>1, Relocked
    <3>2. CASE report' = [report EXCEPT !.step = "lock"]
      <4>1. report'.step = "lock" /\ report'.files = report.files /\ report'.errors = report.errors
        BY <3>2, Relocked, Zenon
      <4> QED
        BY <4>1
    <3> QED
      BY <2>4, <3>1, <3>2
  <2> QED
    BY <2>2, <2>3, <2>5, <2>6
<1>5. CASE lockErroredNodes
  <2>1. \/ report'.step = "idle" /\ report'.files = {}
        \/ /\ report'.step \in {"find", "lock"}
           /\ report'.files = report.files /\ report'.errors = report.errors
    <3>1. report.step = "lock"
      BY <1>5 DEF lockErroredNodes
    <3>2. \/ \E S : report' = [report EXCEPT !.toLock = S]
          \/ report' = NotReporting
          \/ report' = [report EXCEPT !.step = "find"]
      BY <1>5, Zenon DEF lockErroredNodes
    <3>3. ASSUME NEW S, report' = [report EXCEPT !.toLock = S]
          PROVE  /\ report'.step = "lock" /\ report'.files = report.files
                 /\ report'.errors = report.errors
      BY <3>1, <3>3, Relocked, Zenon
    <3>4. CASE report' = [report EXCEPT !.step = "find"]
      <4>1. report'.step = "find" /\ report'.files = report.files /\ report'.errors = report.errors
        BY <3>4, Relocked, Zenon
      <4> QED
        BY <4>1
    <3>5. CASE report' = NotReporting
      BY <3>5, Relocked
    <3> QED
      BY <3>2, <3>3, <3>4, <3>5
  <2>2. open' = open /\ report.errors \subseteq DOMAIN nodeFile
    BY <1>5 DEF lockErroredNodes
  <2> QED
    BY <2>1, <2>2
<1>6. CASE Crash
  BY <1>6 DEF Crash, NotReporting
<1>7. CASE User
  <2>1. \A f \in NodeFile : open'[f] \in Nat /\ open'[f] <= open[f]
    BY <1>1, <1>7 DEF User
  <2> QED
    BY <1>1, <1>7, <2>1 DEF User
<1>8. ASSUME UNCHANGED errorVars PROVE ReportInv'
  BY <1>8 DEF errorVars
<1>9. CASE noopLoop
  BY <1>9, <1>8 DEF noopLoop, StartNoop, CreateCommitIssue, cacheCommitIssueNumber, SaveReport
<1>10. CASE deleteDupIssues
  BY <1>10, <1>8 DEF deleteDupIssues, StartDups, SearchDups, deleteIssue, EndDups
<1>11. CASE \E c \in Commit : Lookup(c)
  BY <1>11, <1>8 DEF Lookup
<1>12. CASE UNCHANGED vars
  BY <1>12, <1>8 DEF vars
<1> QED
  BY <1>2, <1>3, <1>4, <1>5, <1>6, <1>7, <1>9, <1>10, <1>11, <1>12, <1>13 DEF Next, reportErrors

\* A node file never has two open issues.
THEOREM OneErrorIssue == Spec => []OneOpenErrorIssue
<1>1. Init => ReportInv
  BY DEF Init, ReportInv, OneOpenErrorIssue, NotReporting
<1>2. ReportInv => OneOpenErrorIssue
  BY DEF ReportInv
<1> QED
  BY <1>1, <1>2, ReportStep, Typing, PTL DEF Spec
===============================================================================
