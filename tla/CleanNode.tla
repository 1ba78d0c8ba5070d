------------------------------ MODULE CleanNode ------------------------------
(***************************************************************************)
(* hecklerd's clean loop on one node.  A user has applied uncommitted      *)
(* changes, so the node's last apply is dirty; each round of the loop takes*)
(* the node's lock, noops the next commits of the branch that it has not   *)
(* nooped yet, and applies the first one whose noop shows no differences.  *)
(* Commits are numbered along the branch.                                  *)
(***************************************************************************)
EXTENDS Integers, FiniteSets

CONSTANTS MaxCommit,       \* bound: the branch's last commit
          childThreshold,  \* commits considered, 10 in the code
          MaxLost          \* bound: RPCs that are lost while rizzod goes on with them

ASSUME CleanNodeAssumption ==
  /\ MaxCommit \in Nat \ {0} /\ childThreshold \in Nat \ {0} /\ MaxLost \in Nat

Commit == 0..MaxCommit
OffBranch == -1        \* not in the branch's lineage: never pushed, or rebased away
None == -2

VARIABLES head,      \* the branch's latest commit
          broken,    \* commits whose manifests do not evaluate
          rev,       \* commit of the node's last apply
          dirty,     \* whether it is marked -dirty
          match,     \* the commit whose noop shows no difference on this node
          holder,    \* who owns the lock file
          puppet,    \* the puppet process hecklerd started: [noop, commit]
          pc,        \* where cleanNode is
          queried,   \* the last apply that dirtyNodeSet returned
          todo,      \* commitsToNoop, those not yet nooped in this round
          first,     \* i == 0 in the loop over commitsToNoop
          dn,        \* dirtyNoops of the node, kept from round to round
          reported,  \* a cleanError was handed to reportErrors
          late,      \* lock and unlock requests in service after their deadline
          orphans,   \* commits of applies that go on after their deadline
          lost,      \* history: how many lock RPCs were lost, and how many applies
          seen,      \* history: whether this round's lock was taken away, whether the
                     \* last noop failed to evaluate by accident, and whether an apply
                     \* that outlived its RPC ran during the round
          calm       \* whether the node's users have left it alone for good, and RPCs
                     \* and evaluations fail no more but for the commits that are broken

node == <<rev, dirty, match>>
round == <<pc, queried, todo, first>>
wire == <<late, orphans, lost>>
vars == <<head, broken, node, holder, puppet, round, dn, reported, seen, calm, wire>>

Idle == [noop |-> TRUE, commit |-> None]
NoDirtyNoops == [rev |-> None, commitIds |-> {}, dirtyNoop |-> None]
NothingSeen == [stolen |-> FALSE, accident |-> FALSE, orphan |-> FALSE]

\* cleanNode goes by the lock it was granted.
InLock == pc \in {"noop", "noopWait", "apply", "applyWait", "unlock"}

TypeOK == /\ head \in Commit /\ broken \subseteq Commit
          /\ rev \in Commit \cup {OffBranch} /\ dirty \in BOOLEAN
          /\ match \in Commit \cup {None}
          /\ holder \in {"none", "root", "user"}
          /\ puppet \in [noop : BOOLEAN, commit : Commit \cup {None}]
          /\ pc \in {"idle", "list", "lock", "noop", "noopWait", "apply", "applyWait", "unlock"}
          /\ queried \in Commit \cup {OffBranch, None}
          /\ todo \subseteq Commit /\ first \in BOOLEAN
          /\ dn \in [rev : Commit \cup {OffBranch, None}, commitIds : SUBSET Commit,
                     dirtyNoop : Commit \cup {None}]
          /\ reported \in BOOLEAN
          /\ late \subseteq {"lock", "unlock"} /\ orphans \subseteq Commit
          /\ lost \in [lock : Nat, apply : Nat]
          /\ seen \in [stolen : BOOLEAN, accident : BOOLEAN, orphan : BOOLEAN] /\ calm \in BOOLEAN

Init == /\ head \in 0..1
        /\ broken \in SUBSET Commit
        /\ rev \in {0, OffBranch} /\ dirty = TRUE
        /\ match \in Commit \cup {None}
        /\ holder = "none" /\ puppet = Idle
        /\ pc = "idle" /\ queried = None /\ todo = {} /\ first = TRUE
        /\ dn = NoDirtyNoops /\ reported = FALSE /\ seen = NothingSeen /\ calm = FALSE
        /\ late = {} /\ orphans = {} /\ lost = [lock |-> 0, apply |-> 0]

-----------------------------------------------------------------------------
(* Choosing the commits.                                                   *)

\* The k earliest commits of a set.
Earliest(S, k) == {c \in S : Cardinality({d \in S : d < c}) < k}

\* Mutated form of commitsToConsider: the list runs one past the branch's head.
ConsiderPastHead(r) ==
  Earliest(IF r # OffBranch THEN r..(head + 1) ELSE (head - childThreshold + 1)..head,
           childThreshold)

\* The dirty commit and its children, or, when it is not in the branch's lineage,
\* the commits after the one childThreshold before the head; the first
\* childThreshold of them.
commitsToConsider(r) ==
  Earliest(IF r # OffBranch THEN r..head ELSE (head - childThreshold + 1)..head,
           childThreshold)

-----------------------------------------------------------------------------
(* A round.                                                                *)

\* cleanNode returns, and what it has read is gone.
EndRound == pc' = "idle" /\ queried' = None /\ todo' = {} /\ first' = TRUE

\* dirtyNodeSet returns the node if no other user has it and it is dirty; what
\* was nooped for another last apply is forgotten.
Query ==
  /\ pc = "idle" /\ holder # "user"
  /\ \/ /\ dirty
        /\ pc' = "list" /\ queried' = rev
        /\ dn' = IF dn.rev = rev THEN dn ELSE [NoDirtyNoops EXCEPT !.rev = rev]
     \/ /\ ~dirty
        /\ dn' = NoDirtyNoops
        /\ UNCHANGED <<pc, queried>>
  /\ reported' = FALSE
  /\ UNCHANGED <<head, broken, node, holder, puppet, todo, first, seen, calm, wire>>

\* A node that another user has locked, or that does not answer, is not in the
\* set: its record is dropped, unless the set is over its thresholds.
QueryFails ==
  /\ pc = "idle" /\ (holder = "user" \/ ~calm)
  /\ dn' \in {dn, NoDirtyNoops}
  /\ reported' = FALSE
  /\ UNCHANGED <<head, broken, node, holder, puppet, round, seen, calm, wire>>

\* branch~childThreshold cannot be resolved: the round ends with an error.
ListError ==
  /\ pc = "list" /\ queried = OffBranch /\ head < childThreshold
  /\ EndRound
  /\ UNCHANGED <<head, broken, node, holder, puppet, dn, reported, seen, calm, wire>>

\* Only commits without a noop are nooped; when there is none left and
\* childThreshold were considered, the failure is reported.
List ==
  /\ pc = "list" /\ (queried = OffBranch => head >= childThreshold)
  /\ LET consider == commitsToConsider(queried)
     IN \/ /\ ~(consider \subseteq dn.commitIds)
           /\ pc' = "lock" /\ todo' = consider \ dn.commitIds /\ first' = TRUE
           /\ UNCHANGED <<queried, reported>>
        \/ /\ consider \subseteq dn.commitIds
           /\ EndRound /\ reported' = (Cardinality(consider) = childThreshold)
  /\ UNCHANGED <<head, broken, node, holder, puppet, dn, seen, calm, wire>>

MayLose == ~calm /\ lost.lock + lost.apply < MaxLost

\* A lock RPC comes to no answer: its request was served, or still will be, or never.
\* Whoever has the lock instead of `from` keeps it.
Lost(request, from, to) ==
  /\ MayLose /\ lost' = [lost EXCEPT !.lock = @ + 1]
  /\ \/ holder' = (IF holder = from THEN to ELSE holder) /\ UNCHANGED late
     \/ late' = late \cup {request} /\ UNCHANGED holder
     \/ UNCHANGED <<holder, late>>

\* The lock is granted, refused, to root as to any other, or not heard of: only in the
\* first case the round goes on.
Lock ==
  /\ pc = "lock"
  /\ \/ /\ holder = "none" /\ holder' = "root" /\ pc' = "noop"
        /\ seen' = [NothingSeen EXCEPT !.orphan = orphans # {}]
        /\ UNCHANGED <<queried, todo, first, late, lost>>
     \/ /\ holder # "none" /\ EndRound
        /\ UNCHANGED <<holder, seen, late, lost>>
     \/ /\ Lost("lock", "none", "root") /\ EndRound
        /\ UNCHANGED seen
  /\ UNCHANGED <<head, broken, node, puppet, dn, reported, calm, orphans>>

\* The next commit is nooped, from earliest to latest.
Noop ==
  /\ pc = "noop" /\ todo # {}
  /\ puppet' = [noop |-> TRUE, commit |-> CHOOSE c \in todo : \A d \in todo : c <= d]
  /\ pc' = "noopWait"
  /\ UNCHANGED <<head, broken, node, holder, queried, todo, first, dn, reported, seen, calm, wire>>

\* What puppet reports: a failed evaluation, differences, or none.  Beside an apply that
\* goes on it may be anything, since both use rizzod's one checkout.
Outcomes(c) == {o \in {"failed", "diff", "diffless"} :
                  \/ o = IF c \in broken THEN "failed" ELSE IF c = match THEN "diffless" ELSE "diff"
                  \/ o = "failed" /\ ~calm
                  \/ orphans # {}}

\* The report of an evaluation that failed is made by rizzod from puppet's error
\* output and lists no resources, as the report of a noop without differences.
ResourceStatuses(o) == IF o = "diff" THEN {"resource"} ELSE {}

\* Mutated form of NoopReply: the node counts as clean whatever the noop says.
NoopReplyAlwaysClean ==
  /\ pc = "noopWait"
  /\ \E o \in Outcomes(puppet.commit) :
       /\ dn' = [dn EXCEPT !.commitIds = @ \cup {puppet.commit},
                           !.dirtyNoop = IF first THEN puppet.commit ELSE @]
       /\ pc' = "apply"
       /\ seen' = [seen EXCEPT !.accident = (o = "failed" /\ puppet.commit \notin broken)]
  /\ todo' = todo \ {puppet.commit} /\ first' = FALSE
  /\ UNCHANGED <<head, broken, node, holder, puppet, queried, reported, calm, wire>>

\* Mutated form of NoopReply: only the noop of the dirty commit itself is saved.
NoopReplySavesDirtyCommit ==
  /\ pc = "noopWait"
  /\ \/ ~calm /\ pc' = "noop" /\ puppet' = Idle /\ UNCHANGED <<dn, seen>>
     \/ \E o \in Outcomes(puppet.commit) :
          /\ dn' = [dn EXCEPT !.commitIds = @ \cup {puppet.commit},
                      !.dirtyNoop = IF puppet.commit = queried THEN puppet.commit ELSE @]
          /\ IF ResourceStatuses(o) = {} THEN pc' = "apply" /\ UNCHANGED puppet
             ELSE pc' = "noop" /\ puppet' = Idle
          /\ seen' = [seen EXCEPT !.accident = (o = "failed" /\ puppet.commit \notin broken)]
  /\ todo' = todo \ {puppet.commit} /\ first' = FALSE
  /\ UNCHANGED <<head, broken, node, holder, queried, reported, calm, wire>>

\* Mutated form of NoopReply: only a noop without differences is remembered.
NoopReplyUnmarked ==
  /\ pc = "noopWait"
  /\ \E o \in Outcomes(puppet.commit) :
       /\ dn' = [dn EXCEPT !.commitIds = IF ResourceStatuses(o) = {} THEN @ \cup {puppet.commit} ELSE @,
                           !.dirtyNoop = puppet.commit]
       /\ IF ResourceStatuses(o) = {} THEN pc' = "apply" /\ UNCHANGED puppet
          ELSE pc' = "noop" /\ puppet' = Idle
       /\ seen' = [seen EXCEPT !.accident = (o = "failed" /\ puppet.commit \notin broken)]
  /\ todo' = todo \ {puppet.commit} /\ first' = FALSE
  /\ UNCHANGED <<head, broken, node, holder, queried, reported, calm, wire>>

\* A noop that could not be had is tried again in another round.  Otherwise the
\* commit is marked as nooped, the round's first report is saved, and the commit
\* is applied when the report lists no resources.
NoopReply ==
  /\ pc = "noopWait"
  /\ \/ ~calm /\ pc' = "noop" /\ puppet' = Idle /\ UNCHANGED <<dn, seen>>
     \/ \E o \in Outcomes(puppet.commit) :
          /\ dn' = [dn EXCEPT !.commitIds = @ \cup {puppet.commit},
                              !.dirtyNoop = IF first THEN puppet.commit ELSE @]
          /\ IF ResourceStatuses(o) = {} THEN pc' = "apply" /\ UNCHANGED puppet
             ELSE pc' = "noop" /\ puppet' = Idle
          /\ seen' = [seen EXCEPT !.accident = (o = "failed" /\ puppet.commit \notin broken)]
  /\ todo' = todo \ {puppet.commit} /\ first' = FALSE
  /\ UNCHANGED <<head, broken, node, holder, queried, reported, calm, wire>>

Apply ==
  /\ pc = "apply"
  /\ puppet' = [puppet EXCEPT !.noop = FALSE]
  /\ pc' = "applyWait"
  /\ UNCHANGED <<head, broken, node, holder, queried, todo, first, dn, reported, seen, calm, wire>>

\* What an apply of c makes of the node: it has the commit, or, when resources failed,
\* part of it, and its last apply is marked dirty.
AppliedClean(c) == c \notin broken /\ rev' = c /\ match' = c /\ dirty' = FALSE
AppliedDirty(c) == c \notin broken /\ rev' = c /\ match' \in Commit \cup {None} /\ dirty' = TRUE

\* An apply that fails, or whose reply is lost, lets the round go on.  rizzod may take
\* one whose resources failed for a success.  At the deadline puppet may still run.
ApplyReply ==
  /\ pc = "applyWait"
  /\ LET c == puppet.commit
     IN \/ AppliedClean(c) /\ pc' \in {"unlock"} \cup (IF calm THEN {} ELSE {"noop"})
           /\ UNCHANGED <<orphans, lost, seen>>
        \/ ~calm /\ AppliedDirty(c) /\ pc' \in {"unlock", "noop"}
           /\ UNCHANGED <<orphans, lost, seen>>
        \/ (c \in broken \/ ~calm) /\ pc' = "noop"
           /\ UNCHANGED <<node, orphans, lost, seen>>
        \/ /\ MayLose /\ c \notin orphans /\ orphans' = orphans \cup {c}
           /\ lost' = [lost EXCEPT !.apply = @ + 1]
           /\ seen' = [seen EXCEPT !.orphan = TRUE]
           /\ pc' = "noop" /\ UNCHANGED node
  /\ puppet' = Idle
  /\ UNCHANGED <<head, broken, holder, queried, todo, first, dn, reported, calm, late>>

\* A failed unlock is only logged.
Unlock ==
  /\ pc = "unlock" \/ (pc = "noop" /\ todo = {})
  /\ \/ /\ holder' = (IF holder = "root" THEN "none" ELSE holder)
        /\ UNCHANGED <<late, lost>>
     \/ Lost("unlock", "root", "none")
  /\ EndRound /\ seen' = NothingSeen
  /\ UNCHANGED <<head, broken, node, puppet, dn, reported, calm, orphans>>

-----------------------------------------------------------------------------
(* What is left of RPCs that are over.                                     *)

\* rizzod serves a lock request that nobody waits for any more.
LateLock ==
  /\ "lock" \in late /\ late' = late \ {"lock"}
  /\ holder' = (IF holder = "none" THEN "root" ELSE holder)
  /\ UNCHANGED <<head, broken, node, puppet, round, dn, reported, seen, calm, orphans, lost>>

\* The same for an unlock: it may be the lock of a later round that it removes.
LateUnlock ==
  /\ "unlock" \in late /\ late' = late \ {"unlock"}
  /\ holder' = (IF holder = "root" THEN "none" ELSE holder)
  /\ seen' = [seen EXCEPT !.stolen = @ \/ (InLock /\ holder = "root")]
  /\ UNCHANGED <<head, broken, node, puppet, round, dn, reported, calm, orphans, lost>>

\* A puppet that nobody waits for comes to an end: it has applied its commit or parts
\* of it, or it has failed before it changed anything.
OrphanEnds(c) ==
  /\ c \in orphans /\ orphans' = orphans \ {c}
  /\ AppliedClean(c) \/ AppliedDirty(c) \/ UNCHANGED node
  /\ UNCHANGED <<head, broken, holder, puppet, round, dn, reported, seen, calm, late, lost>>

-----------------------------------------------------------------------------
(* The branch and the node's users.                                        *)

Push == /\ head < MaxCommit
        /\ head' = head + 1
        /\ UNCHANGED <<broken, node, holder, puppet, round, dn, reported, seen, calm, wire>>

\* A user locks the node, or overrides Heckler's lock.
UserLock == /\ ~calm
            /\ \/ holder = "none" /\ UNCHANGED seen
               \/ holder = "root" /\ seen' = [seen EXCEPT !.stolen = InLock]
            /\ holder' = "user"
            /\ UNCHANGED <<head, broken, node, puppet, round, dn, reported, calm, wire>>

UserUnlock == /\ holder = "user" /\ holder' = "none"
              /\ UNCHANGED <<head, broken, node, puppet, round, dn, reported, seen, calm, wire>>

\* With the lock a user applies a branch of uncommitted changes.
UserApply == /\ holder = "user"
             /\ dirty' = TRUE
             /\ rev' \in 0..head \cup {OffBranch}
             /\ match' \in Commit \cup {None}
             /\ UNCHANGED <<head, broken, holder, puppet, round, dn, reported, seen, calm, wire>>

Calm == /\ ~calm /\ holder # "user" /\ late = {} /\ orphans = {}
        /\ calm' = TRUE
        /\ UNCHANGED <<head, broken, node, holder, puppet, round, dn, reported, seen, wire>>

Clean == \/ Query \/ QueryFails \/ ListError \/ List \/ Lock \/ Noop \/ NoopReply
         \/ Apply \/ ApplyReply \/ Unlock

Left == LateLock \/ LateUnlock \/ \E c \in orphans : OrphanEnds(c)

Next == Clean \/ Left \/ Push \/ UserLock \/ UserUnlock \/ UserApply \/ Calm

\* cleanLoop runs for ever, and the RPCs it waits for have deadlines.
Spec == Init /\ [][Next]_vars /\ WF_vars(Clean)

-----------------------------------------------------------------------------
(* Properties.                                                             *)

\* What a cleanError reports exists: when every considered commit has been
\* nooped over any number of rounds, some of whose noops may have failed, a
\* report has been saved for the issue.
ReportHasNoop == reported => dn.dirtyNoop # None

\* Unless its lock was taken away in the round, its noop failed to evaluate by accident, or
\* an apply that outlived its RPC ran beside it, an apply of the clean loop changes
\* nothing on the node, whatever was pushed, nooped in earlier rounds or applied by hand
\* before: the uncommitted changes that its user applied are those of the commit, or the
\* commit does not evaluate at all.
NeverReverts ==
  pc = "applyWait" /\ ~seen.stolen /\ ~seen.accident /\ ~seen.orphan
    => puppet.commit \in broken \cup {match}

\* root's lock is on the node, and it is not this round's: rizzod refuses it to root too.
Leaked == holder = "root" /\ ~InLock

\* Once its users leave it alone, a node is cleaned or all its considered commits end
\* up nooped, whatever users and failures did before and in the middle of a round.  The
\* one thing that keeps the loop from it is a lock that a lost RPC has left behind.
CleanedOrAllNooped ==
  <>calm => <>[](\/ lost.lock > 0 /\ Leaked
                 \/ ~dirty
                 \/ rev = OffBranch /\ head < childThreshold
                 \/ commitsToConsider(rev) \subseteq dn.commitIds)
=============================================================================
