--------------------------- MODULE CleanNode_proofs ---------------------------
(***************************************************************************)
(* Proofs about CleanNode, for every length of the branch and every        *)
(* childThreshold.                                                         *)
(***************************************************************************)
EXTENDS CleanNode, TLAPS, WellFoundedInduction, FiniteSetTheorems

\* A set of naturals that nothing in Less precedes is bounded from below by it.
LEMMA Below ==
  ASSUME NEW Less, \A d, e \in Nat : d < e => <<d, e>> \in Less,
         NEW S \in SUBSET Nat, NEW c \in S, \A d \in S : ~(<<d, c>> \in Less)
  PROVE  \A d \in S : c <= d
<1> TAKE d \in S
<1>1. c \in Nat /\ d \in Nat /\ ~(d < c)
  OBVIOUS
<1> QED
  BY <1>1

\* Nonempty sets of commits have an earliest one.
LEMMA EarliestExists ==
  ASSUME NEW S \in SUBSET Commit, S # {}
  PROVE  \E c \in S : \A d \in S : c <= d
<1>1. S \in SUBSET Nat
  BY CleanNodeAssumption DEF Commit
<1>2. \A d, e \in Nat : d < e => <<d, e>> \in OpToRel(<, Nat)
  BY Zenon DEF OpToRel
<1>3. PICK c \in S : \A d \in S : ~(<<d, c>> \in OpToRel(<, Nat))
  BY <1>1, NatLessThanWellFounded, WFMin, Zenon
<1>4. \A d \in S : c <= d
  BY <1>1, <1>2, <1>3, Below, Zenon
<1> QED
  BY <1>4, Zenon

\* The loop over commitsToNoop always has a next commit, the earliest.
LEMMA EarliestIs ==
  ASSUME NEW S \in SUBSET Commit, S # {}
  PROVE  LET e == CHOOSE c \in S : \A d \in S : c <= d
         IN  e \in S /\ \A d \in S : e <= d
<1>1. PICK c \in S : \A d \in S : c <= d
  BY EarliestExists
<1> QED
  BY <1>1, Zenon

\* The commits to consider are commits of the branch, when branch~childThreshold
\* can be resolved.
LEMMA ConsideredAreCommits ==
  ASSUME head \in Commit, NEW r \in Commit \cup {OffBranch},
         r = OffBranch => head >= childThreshold
  PROVE  commitsToConsider(r) \subseteq Commit
<1>1. CASE r = OffBranch
  BY <1>1, CleanNodeAssumption DEF commitsToConsider, Earliest, Commit, OffBranch
<1>2. CASE r # OffBranch
  BY <1>2, CleanNodeAssumption DEF commitsToConsider, Earliest, Commit, OffBranch
<1> QED
  BY <1>1, <1>2

Puppets == [noop : BOOLEAN, commit : Commit \cup {None}]
DirtyNoops == [rev : Commit \cup {OffBranch, None}, commitIds : SUBSET Commit,
               dirtyNoop : Commit \cup {None}]
History == [stolen : BOOLEAN, accident : BOOLEAN, orphan : BOOLEAN]
Losses == [lock : Nat, apply : Nat]

\* A round that lists commits does so for a last apply that the query returned, and a
\* puppet process that is waited for was started on a commit.
Started == /\ pc = "list" => queried \in Commit \cup {OffBranch}
           /\ pc \in {"noopWait", "apply", "applyWait"} => puppet.commit \in Commit

\* Every action keeps every variable in its type.
LEMMA TypeStep == TypeOK /\ Started /\ [Next]_vars => (TypeOK /\ Started)'
<1> SUFFICES ASSUME TypeOK, Started, [Next]_vars PROVE (TypeOK /\ Started)'
  OBVIOUS
<1> USE CleanNodeAssumption
    DEF TypeOK, Started, node, round, wire, Idle, NoDirtyNoops, NothingSeen
<1>0. ASSUME Lost("lock", "none", "root") \/ Lost("unlock", "root", "none")
      PROVE  /\ holder' \in {"none", "root", "user"} /\ late' \subseteq {"lock", "unlock"}
             /\ lost' \in Losses
  BY <1>0 DEF Lost, Losses
<1>1. CASE Query
  <2>1. dn' \in DirtyNoops
    BY <1>1 DEF Query, DirtyNoops
  <2>2. lost' \in Losses /\ puppet' \in Puppets /\ seen' \in History
    BY <1>1 DEF Query, Losses, Puppets, History
  <2>3. /\ pc' \in {"idle", "list"} /\ queried' \in Commit \cup {OffBranch, None}
        /\ pc' = "list" => queried' \in Commit \cup {OffBranch}
    BY <1>1 DEF Query
  <2> QED
    BY <1>1, <2>1, <2>2, <2>3 DEF Query, DirtyNoops, Losses, Puppets, History
<1>2. CASE QueryFails
  <2>1. dn' \in DirtyNoops
    BY <1>2 DEF QueryFails, DirtyNoops
  <2>2. /\ head' = head /\ broken' = broken /\ rev' = rev /\ dirty' = dirty
        /\ match' = match /\ holder' = holder /\ puppet' = puppet /\ pc' = pc
        /\ queried' = queried /\ todo' = todo /\ first' = first /\ seen' = seen
        /\ calm' = calm /\ reported' = FALSE
        /\ late' = late /\ orphans' = orphans /\ lost' = lost
    BY <1>2 DEF QueryFails
  <2>3. Started' /\ reported' \in BOOLEAN
    BY <2>2, Zenon
  <2>4. puppet' \in Puppets /\ seen' \in History /\ lost' \in Losses
    BY <2>2, Zenon DEF Puppets, History, Losses
  <2>5. /\ head' \in Commit /\ broken' \subseteq Commit
        /\ rev' \in Commit \cup {OffBranch} /\ dirty' \in BOOLEAN
        /\ match' \in Commit \cup {None} /\ holder' \in {"none", "root", "user"}
        /\ queried' \in Commit \cup {OffBranch, None}
        /\ todo' \subseteq Commit /\ first' \in BOOLEAN /\ calm' \in BOOLEAN
        /\ late' \subseteq {"lock", "unlock"} /\ orphans' \subseteq Commit
    BY <2>2, Zenon
  <2> QED
    BY <2>1, <2>2, <2>3, <2>4, <2>5 DEF DirtyNoops, Puppets, History, Losses
<1>3. CASE ListError
  BY <1>3 DEF ListError, EndRound
<1>4. CASE List
  <2>1. commitsToConsider(queried) \subseteq Commit
    BY <1>4, ConsideredAreCommits DEF List
  <2>2. todo' \subseteq Commit /\ reported' \in BOOLEAN
    BY <1>4, <2>1 DEF List, EndRound
  <2>3. first' \in BOOLEAN /\ queried' \in Commit \cup {OffBranch, None}
        /\ (pc' = "lock" \/ pc' = "idle")
    BY <1>4 DEF List, EndRound
  <2> QED
    BY <1>4, <2>2, <2>3 DEF List
<1>5. CASE Lock
  <2>1. /\ holder' \in {"none", "root", "user"} /\ late' \subseteq {"lock", "unlock"}
        /\ lost' \in Losses
    BY <1>0, <1>5 DEF Lock, Losses
  <2>2. seen' \in History
    <3>1. CASE seen' = seen
      BY <3>1 DEF History
    <3>2. CASE seen' = [NothingSeen EXCEPT !.orphan = orphans # {}]
      BY <3>2 DEF History
    <3> QED
      BY <1>5, <3>1, <3>2 DEF Lock
  <2>3. /\ todo' \subseteq Commit /\ first' \in BOOLEAN /\ pc' \in {"idle", "noop"}
        /\ queried' \in Commit \cup {OffBranch, None}
    BY <1>5 DEF Lock, EndRound
  <2> QED
    BY <1>5, <2>1, <2>2, <2>3 DEF Lock, History, Losses
<1>6. CASE Noop
  <2> DEFINE c == CHOOSE c \in todo : \A d \in todo : c <= d
  <2>1. c \in Commit
    BY <1>6, EarliestIs DEF Noop
  <2>2. puppet' = [noop |-> TRUE, commit |-> c]
    BY <1>6 DEF Noop
  <2> HIDE DEF c
  <2>3. puppet' \in Puppets /\ puppet'.commit \in Commit
    BY <2>1, <2>2 DEF Puppets
  <2> QED
    BY <1>6, <2>3 DEF Noop, Puppets
<1>7. CASE NoopReply
  <2>1. dn' \in DirtyNoops
    <3>1. \/ dn' = dn
          \/ dn' = [dn EXCEPT !.commitIds = @ \cup {puppet.commit},
                               !.dirtyNoop = IF first THEN puppet.commit ELSE @]
      BY <1>7, Zenon DEF NoopReply
    <3>2. puppet.commit \in Commit
      BY <1>7 DEF NoopReply
    <3>3. ASSUME NEW d \in Commit \cup {None},
                 dn' = [dn EXCEPT !.commitIds = @ \cup {puppet.commit}, !.dirtyNoop = d]
          PROVE  dn' \in DirtyNoops
      BY <3>2, <3>3 DEF DirtyNoops
    <3>4. (IF first THEN puppet.commit ELSE dn.dirtyNoop) \in Commit \cup {None}
      BY <3>2
    <3>5. CASE dn' = dn
      BY <3>5 DEF DirtyNoops
    <3> QED
      BY <3>1, <3>3, <3>4, <3>5, Zenon
  <2>2. puppet' \in Puppets /\ (pc' = "apply" => puppet'.commit \in Commit)
    <3>1. \/ pc' = "noop" /\ puppet' = Idle
          \/ pc' = "apply" /\ puppet' = puppet
      BY <1>7, Zenon DEF NoopReply
    <3>2. pc = "noopWait"
      BY <1>7 DEF NoopReply
    <3>3. CASE puppet' = Idle /\ pc' = "noop"
      BY <3>3 DEF Puppets
    <3>4. CASE puppet' = puppet
      BY <3>4, <3>2, Zenon DEF Puppets
    <3> QED
      BY <3>1, <3>3, <3>4
  <2>3. seen' \in History
    <3>1. CASE UNCHANGED seen
      BY <3>1 DEF History
    <3>2. ASSUME NEW a \in BOOLEAN, seen' = [seen EXCEPT !.accident = a]
          PROVE seen' \in History
      BY <3>2 DEF History
    <3> QED
      BY <1>7, <3>1, <3>2, Zenon DEF NoopReply
  <2>4. pc' \in {"noop", "apply"}
    BY <1>7 DEF NoopReply
  <2> QED
    BY <1>7, <2>1, <2>2, <2>3, <2>4 DEF NoopReply, DirtyNoops, Puppets, History
<1>8. CASE Apply
  <2>1. puppet' \in Puppets /\ puppet'.commit \in Commit
    BY <1>8 DEF Apply, Puppets
  <2> QED
    BY <1>8, <2>1 DEF Apply, Puppets
<1>9. CASE ApplyReply
  <2>1. puppet' \in Puppets
    BY <1>9 DEF ApplyReply, Puppets
  <2>2. rev' \in Commit \cup {OffBranch} /\ match' \in Commit \cup {None} /\ dirty' \in BOOLEAN
    BY <1>9 DEF ApplyReply, AppliedClean, AppliedDirty
  <2>3. pc' \in {"noop", "unlock"}
    BY <1>9 DEF ApplyReply
  <2>4. orphans' \subseteq Commit
    BY <1>9 DEF ApplyReply
  <2>5. lost' \in Losses /\ seen' \in History
    <3>1. \/ lost' = lost /\ seen' = seen
          \/ /\ lost' = [lost EXCEPT !.apply = @ + 1]
             /\ seen' = [seen EXCEPT !.orphan = TRUE]
      BY <1>9 DEF ApplyReply
    <3>2. CASE lost' = lost /\ seen' = seen
      BY <3>2 DEF Losses, History
    <3>3. CASE /\ lost' = [lost EXCEPT !.apply = @ + 1]
               /\ seen' = [seen EXCEPT !.orphan = TRUE]
      <4>1. lost' \in Losses
        BY <3>3 DEF Losses
      <4>2. seen' \in History
        BY <3>3 DEF History
      <4> QED
        BY <4>1, <4>2
    <3> QED
      BY <3>1, <3>2, <3>3
  <2> QED
    BY <1>9, <2>1, <2>2, <2>3, <2>4, <2>5 DEF ApplyReply, Puppets, Losses, History
<1>10. CASE Unlock
  <2>1. /\ holder' \in {"none", "root", "user"} /\ late' \subseteq {"lock", "unlock"}
        /\ lost' \in Losses
    BY <1>0, <1>10 DEF Unlock, Losses
  <2> QED
    BY <1>10, <2>1 DEF Unlock, EndRound, Losses
<1>11. CASE Push
  BY <1>11 DEF Push, Commit
<1>12. CASE UserLock
  <2>1. seen' \in History
    <3>1. ASSUME NEW s \in BOOLEAN, seen' = [seen EXCEPT !.stolen = s]
          PROVE  seen' \in History
      BY <3>1 DEF History
    <3>2. InLock \in BOOLEAN
      BY DEF InLock
    <3>3. CASE seen' = seen
      BY <3>3 DEF History
    <3> QED
      BY <1>12, <3>1, <3>2, <3>3 DEF UserLock
  <2> QED
    BY <1>12, <2>1 DEF UserLock, History
<1>13. CASE UserApply
  <2>1. 0..head \subseteq Commit
    BY DEF Commit
  <2> QED
    BY <1>13, <2>1 DEF UserApply
<1>14. CASE UserUnlock \/ Calm
  <2>1. CASE UserUnlock
    BY <2>1 DEF UserUnlock
  <2>2. CASE Calm
    BY <2>2 DEF Calm
  <2> QED
    BY <1>14, <2>1, <2>2
<1>15. CASE UNCHANGED vars
  BY <1>15 DEF vars
<1>16. CASE LateLock
  BY <1>16 DEF LateLock
<1>17. CASE LateUnlock
  <2>1. seen' \in History
    <3>1. (seen.stolen \/ (InLock /\ holder = "root")) \in BOOLEAN
      OBVIOUS
    <3> QED
      BY <1>17, <3>1 DEF LateUnlock, History
  <2> QED
    BY <1>17, <2>1 DEF LateUnlock, History
<1>18. ASSUME NEW c \in orphans, OrphanEnds(c) PROVE (TypeOK /\ Started)'
  <2>1. rev' \in Commit \cup {OffBranch} /\ match' \in Commit \cup {None} /\ dirty' \in BOOLEAN
    BY <1>18 DEF OrphanEnds, AppliedClean, AppliedDirty
  <2> QED
    BY <1>18, <2>1 DEF OrphanEnds
<1> QED
  BY <1>1, <1>2, <1>3, <1>4, <1>5, <1>6, <1>7, <1>8, <1>9, <1>10, <1>11, <1>12, <1>13,
     <1>14, <1>15, <1>16, <1>17, <1>18 DEF Next, Clean, Left

\* The typing together with what it needs about a round.
LEMMA TypedAndStarted == Spec => [](TypeOK /\ Started)
<1>1. Init => TypeOK /\ Started
  <2> SUFFICES ASSUME Init PROVE TypeOK /\ Started
    OBVIOUS
  <2>1. 0 \in Commit /\ 0..1 \subseteq Commit
    BY CleanNodeAssumption DEF Commit
  <2>2. puppet \in Puppets /\ dn \in DirtyNoops /\ seen \in History /\ lost \in Losses
    BY DEF Init, Puppets, DirtyNoops, History, Losses, Idle, NoDirtyNoops, NothingSeen
  <2> QED
    BY <2>1, <2>2 DEF Init, TypeOK, Started, Puppets, DirtyNoops, History, Losses
<1> QED
  BY <1>1, TypeStep, PTL DEF Spec

\* Whatever the branch's length and the threshold, the rounds of the clean loop only
\* ever list, noop and apply commits that the branch has.
THEOREM Typing == Spec => []TypeOK
BY TypedAndStarted, PTL

-----------------------------------------------------------------------------
(* The clean loop does not revert what a node's user did.                  *)

\* From Lock to Unlock the file is root's unless it was taken away, and so nobody
\* applies by hand; a commit is handed to Apply only right after a noop of it that
\* listed no resources.  UserApply is what moves match, besides applies that outlived
\* their RPC, which is why that clause needs the first two.  The last two follow a lock
\* that nobody gives back to the RPC that was lost.
RevertInv ==
  /\ InLock /\ ~seen.stolen => holder = "root"
  /\ InLock /\ ~seen.orphan => orphans = {}
  /\ ~InLock => seen = NothingSeen
  /\ pc \in {"apply", "applyWait"} /\ ~seen.stolen /\ ~seen.accident /\ ~seen.orphan
       => puppet.commit \in broken \cup {match}
  /\ Leaked => lost.lock > 0
  /\ late # {} => lost.lock > 0

\* Every action keeps the invariant.
LEMMA RevertStep == TypeOK /\ RevertInv /\ [Next]_vars => RevertInv'
<1> SUFFICES ASSUME TypeOK, RevertInv, [Next]_vars PROVE RevertInv'
  OBVIOUS
<1> USE DEF RevertInv, node, round, wire, InLock, Leaked
<1>0. /\ lost.lock \in Nat /\ holder \in {"none", "root", "user"}
      /\ seen \in [stolen : BOOLEAN, accident : BOOLEAN, orphan : BOOLEAN]
      /\ lost \in [lock : Nat, apply : Nat]
  BY DEF TypeOK
\* Whatever becomes of a lock RPC that is lost, it is counted.
<1>1. ASSUME NEW q, NEW from, NEW to, Lost(q, from, to) PROVE lost'.lock > 0
  BY <1>0, <1>1 DEF Lost
<1>2. CASE Query \/ QueryFails \/ ListError \/ List
  <2>1. /\ UNCHANGED <<holder, seen, late, orphans, lost>>
        /\ pc \in {"idle", "list"} /\ pc' \in {"idle", "list", "lock"}
    BY <1>2 DEF Query, QueryFails, ListError, List, EndRound
  <2> QED
    BY <2>1
<1>3. CASE Lock
  <2>1. CASE /\ holder' = "root" /\ pc' = "noop"
             /\ seen' = [NothingSeen EXCEPT !.orphan = orphans # {}]
             /\ UNCHANGED <<late, lost>>
    BY <1>3, <2>1 DEF Lock, NothingSeen
  <2>2. CASE EndRound /\ UNCHANGED <<holder, seen, late, lost>>
    BY <1>3, <2>2 DEF Lock, EndRound
  <2>3. CASE Lost("lock", "none", "root") /\ EndRound /\ UNCHANGED seen
    BY <1>1, <1>3, <2>3 DEF Lock, EndRound
  <2> QED
    BY <1>3, <2>1, <2>2, <2>3 DEF Lock
<1>4. CASE Noop
  BY <1>4 DEF Noop
<1>5. CASE NoopReply
  <2>1. /\ pc = "noopWait" /\ pc' \in {"noop", "apply"}
        /\ seen'.stolen = seen.stolen /\ seen'.orphan = seen.orphan
        /\ UNCHANGED <<broken, match, holder, late, orphans, lost>>
    BY <1>0, <1>5 DEF NoopReply
  <2>2. ASSUME pc' = "apply", ~seen'.stolen, ~seen'.accident, ~seen'.orphan
        PROVE  puppet'.commit \in broken \cup {match}
    <3>1. PICK o \in Outcomes(puppet.commit) :
            /\ ResourceStatuses(o) = {} /\ UNCHANGED puppet
            /\ seen' = [seen EXCEPT !.accident = (o = "failed" /\ puppet.commit \notin broken)]
      BY <1>5, <2>2 DEF NoopReply
    <3>2. o # "diff"
      BY <3>1 DEF ResourceStatuses
    <3>3. puppet.commit \in broken \/ puppet.commit = match \/ o = "failed"
      BY <2>1, <2>2, <3>2 DEF Outcomes
    <3> QED
      BY <1>0, <2>2, <3>1, <3>3
  <2> QED
    BY <2>1, <2>2
<1>6. CASE Apply
  BY <1>6 DEF Apply
<1>7. CASE ApplyReply
  <2>1. /\ pc = "applyWait" /\ pc' \in {"noop", "unlock"} /\ seen'.stolen = seen.stolen
        /\ UNCHANGED <<holder, late>> /\ lost'.lock = lost.lock
        /\ \/ orphans' = orphans /\ seen' = seen
           \/ seen'.orphan = TRUE
    BY <1>0, <1>7 DEF ApplyReply
  <2> QED
    BY <2>1
<1>8. CASE Unlock
  BY <1>1, <1>8 DEF Unlock, EndRound
<1>9. CASE LateLock
  BY <1>0, <1>9 DEF LateLock
<1>10. CASE LateUnlock
  <2>1. /\ UNCHANGED <<pc, puppet, broken, match, orphans, lost>> /\ late # {}
        /\ seen' = [seen EXCEPT !.stolen = @ \/ (InLock /\ holder = "root")]
        /\ holder' = (IF holder = "root" THEN "none" ELSE holder)
    BY <1>10 DEF LateUnlock
  <2>2. seen'.accident = seen.accident /\ seen'.orphan = seen.orphan
    BY <1>0, <2>1
  <2>3. seen'.stolen = (seen.stolen \/ (InLock /\ holder = "root"))
    BY <1>0, <2>1
  <2>4. ~InLock => seen' = seen
    BY <1>0, <2>1 DEF NothingSeen
  <2> QED
    BY <2>1, <2>2, <2>3, <2>4
<1>11. ASSUME NEW c \in orphans, OrphanEnds(c) PROVE RevertInv'
  <2>1. /\ UNCHANGED <<pc, puppet, broken, holder, seen, late, lost>> /\ orphans # {}
    BY <1>11 DEF OrphanEnds
  <2> QED
    BY <2>1
<1>12. CASE UserLock
  <2>1. /\ UNCHANGED <<pc, puppet, broken, match, late, orphans, lost>> /\ holder' = "user"
        /\ \/ holder = "none" /\ seen' = seen
           \/ holder = "root" /\ seen' = [seen EXCEPT !.stolen = InLock]
    BY <1>12 DEF UserLock
  <2>2. seen'.accident = seen.accident /\ seen'.orphan = seen.orphan
    BY <1>0, <2>1
  <2>3. InLock => seen'.stolen = TRUE
    BY <1>0, <2>1
  <2>4. ~InLock => seen' = seen
    BY <1>0, <2>1 DEF NothingSeen
  <2> QED
    BY <2>1, <2>2, <2>3, <2>4
<1>13. CASE UserUnlock \/ UserApply
  BY <1>13 DEF UserUnlock, UserApply
<1>14. CASE Push \/ Calm \/ UNCHANGED vars
  BY <1>14 DEF Push, Calm, vars
<1> QED
  BY <1>2, <1>3, <1>4, <1>5, <1>6, <1>7, <1>8, <1>9, <1>10, <1>11, <1>12, <1>13, <1>14
     DEF Next, Clean, Left

LEMMA RevertHolds == Spec => []RevertInv
<1>1. Init => RevertInv
  BY DEF Init, RevertInv, InLock, Leaked
<1> QED
  BY <1>1, Typing, RevertStep, PTL DEF Spec

\* What the clean loop applies is what the node has already, or does not evaluate at
\* all, unless the lock was taken away, the noop failed to evaluate by accident, or an
\* apply that outlived its RPC ran in the round.
THEOREM NothingReverted == Spec => []NeverReverts
<1>2. RevertInv => NeverReverts
  BY DEF RevertInv, NeverReverts
<1> QED
  BY <1>2, RevertHolds, PTL

\* Between rounds root's lock is there only after a lock RPC of the loop was lost: it was
\* granted without anybody hearing of it, or its unlock did not get through.
LeaksByLoss == Leaked => lost.lock > 0

\* Every round that hears of its lock and whose unlock gets through gives the node back,
\* whatever becomes of its noops and applies.
THEOREM LocksAreGivenBack == Spec => []LeaksByLoss
<1>1. RevertInv => LeaksByLoss
  BY DEF RevertInv, LeaksByLoss
<1> QED
  BY <1>1, RevertHolds, PTL

-----------------------------------------------------------------------------
(* The clean loop keeps to the ownership of a node.                        *)

\* Whose the node is: the loop's while cleanNode has the lock, contested once a user has
\* overridden it or a late unlock has removed it, until the round ends.
Owner == IF InLock THEN IF seen.stolen THEN "contested" ELSE "clean"
         ELSE IF holder = "none" THEN "free"
         ELSE IF holder = "root" THEN "stray"
         ELSE holder

Own == INSTANCE NodeOwnership WITH Run <- {"clean"}, owner <- Owner,
                                   busy <- ~seen.stolen /\ pc \in {"noopWait", "applyWait"}

\* The clean loop is one more run of NodeOwnership: it takes the node only when nobody
\* has it, waits for one puppet at a time there, noops and the apply alike, while the
\* node is its own, and gives it back; a lock or unlock RPC that is lost or late makes a
\* stray lock or removes one.  As for the runs over node sets, nothing is promised of a
\* round whose lock was taken away, and none of an apply that outlives its RPC.
ImplementsOwnership == Own!Spec

\* Every step of the loop and of the users is one of NodeOwnership, or a stutter.
LEMMA OwnStep ==
  ASSUME TypeOK, RevertInv, [Next]_vars
  PROVE  [Own!Next]_(Own!vars)
<1> DEFINE busy == ~seen.stolen /\ pc \in {"noopWait", "applyWait"}
<1>0. /\ InLock /\ ~seen.stolen => holder = "root"
      /\ holder \in {"none", "root", "user"}
      /\ seen \in [stolen : BOOLEAN, accident : BOOLEAN, orphan : BOOLEAN]
      /\ ~InLock => ~seen.stolen
  BY DEF RevertInv, TypeOK, NothingSeen
<1> USE DEF Own!Next, Own!vars, InLock
<1>1. CASE UNCHANGED <<holder, pc, seen>>
  BY <1>1 DEF Owner
<1>2. CASE Query \/ QueryFails \/ ListError \/ List
  <2>1. ~InLock /\ ~InLock' /\ UNCHANGED <<holder, seen>>
    BY <1>2 DEF Query, QueryFails, ListError, List, EndRound, round
  <2>2. Owner' = Owner /\ busy' = busy
    BY <2>1 DEF Owner
  <2> QED
    BY <2>2 DEF Owner
<1>3. CASE Lock
  <2>1. CASE holder = "none" /\ holder' = "root" /\ pc' = "noop"
    <3>1. Owner = "free" /\ Owner' = "clean" /\ busy' = busy
      BY <1>0, <1>3, <2>1 DEF Lock, EndRound, Owner, NothingSeen
    <3> QED
      BY <3>1 DEF Own!Take
  <2>2. CASE pc' = "idle" /\ holder' = holder /\ seen' = seen
    <3>1. Owner' = Owner /\ busy' = busy
      BY <1>3, <2>2 DEF Lock, Owner
    <3> QED
      BY <3>1 DEF Owner
  <2>3. CASE pc' = "idle" /\ holder = "none" /\ holder' = "root" /\ seen' = seen
    <3>1. Owner = "free" /\ Owner' = "stray" /\ busy' = busy
      BY <1>3, <2>3 DEF Lock, Owner
    <3> QED
      BY <3>1 DEF Own!Stray
  <2> QED
    BY <1>3, <2>1, <2>2, <2>3 DEF Lock, Lost, EndRound
<1>4. CASE Noop \/ Apply
  <2>1. UNCHANGED <<holder, seen>> /\ pc \in {"noop", "apply"} /\ pc' \in {"noopWait", "applyWait"}
    BY <1>4 DEF Noop, Apply
  <2>2. CASE seen.stolen
    BY <2>1, <2>2 DEF Owner
  <2>3. CASE ~seen.stolen
    <3>1. Owner = "clean" /\ Owner' = Owner /\ ~busy /\ busy' = TRUE
      BY <2>1, <2>3 DEF Owner
    <3> QED
      BY <3>1 DEF Own!StartPuppet
  <2> QED
    BY <2>2, <2>3
<1>5. CASE NoopReply \/ ApplyReply
  <2>1. /\ pc \in {"noopWait", "applyWait"} /\ pc' \in {"noop", "apply", "unlock"}
        /\ holder' = holder /\ seen'.stolen = seen.stolen
    BY <1>0, <1>5 DEF NoopReply, ApplyReply
  <2>2. CASE seen.stolen
    BY <2>1, <2>2 DEF Owner
  <2>3. CASE ~seen.stolen
    <3>1. Owner = "clean" /\ Owner' = Owner /\ busy /\ busy' = FALSE
      BY <2>1, <2>3 DEF Owner
    <3> QED
      BY <3>1 DEF Own!EndPuppet
  <2> QED
    BY <2>2, <2>3
<1>6. CASE Unlock
  <2>1. /\ pc \in {"unlock", "noop"} /\ pc' = "idle" /\ seen' = NothingSeen
        /\ holder' \in {holder, IF holder = "root" THEN "none" ELSE holder}
    BY <1>6 DEF Unlock, Lost, EndRound
  <2>2. CASE seen.stolen
    <3>1. Owner = "contested" /\ Owner' \in {"free", "stray", "user"} /\ busy' = FALSE
      BY <1>0, <2>1, <2>2 DEF Owner
    <3> QED
      BY <3>1 DEF Own!Die
  <2>3. CASE ~seen.stolen
    <3>1. Owner = "clean" /\ Owner' \in {"free", "stray"} /\ ~busy /\ busy' = busy
      BY <1>0, <2>1, <2>3 DEF Owner, NothingSeen
    <3> QED
      BY <3>1 DEF Own!Leave
  <2> QED
    BY <2>2, <2>3
<1>7. CASE UserLock
  <2>1. pc' = pc /\ holder' = "user"
    BY <1>7 DEF UserLock, round
  <2>2. CASE ~InLock
    <3>1. Owner \in {"free", "stray"} /\ Owner' = "user" /\ busy' = busy
      BY <1>7, <2>1, <2>2 DEF UserLock, Owner
    <3> QED
      BY <3>1 DEF Own!UserLocks
  <2>3. CASE InLock /\ seen.stolen
    <3>1. seen'.stolen = TRUE
      BY <1>0, <1>7, <2>3 DEF UserLock
    <3> QED
      BY <2>1, <2>3, <3>1 DEF Owner
  <2>4. CASE InLock /\ ~seen.stolen
    <3>1. seen'.stolen = TRUE
      BY <1>0, <1>7, <2>4 DEF UserLock
    <3>2. Owner = "clean" /\ Owner' = "contested" /\ busy' = FALSE
      BY <2>1, <2>4, <3>1 DEF Owner
    <3> QED
      BY <3>2 DEF Own!TakeAway
  <2> QED
    BY <2>2, <2>3, <2>4
<1>8. CASE UserUnlock
  <2>1. pc' = pc /\ holder = "user" /\ holder' = "none" /\ seen' = seen
    BY <1>8 DEF UserUnlock, round
  <2>2. CASE InLock
    BY <1>0, <2>1, <2>2 DEF Owner
  <2>3. CASE ~InLock
    <3>1. Owner = "user" /\ Owner' = "free" /\ busy' = busy
      BY <2>1, <2>3 DEF Owner
    <3> QED
      BY <3>1 DEF Own!UserUnlocks
  <2> QED
    BY <2>2, <2>3
<1>9. CASE Push \/ UserApply \/ Calm \/ UNCHANGED vars
  BY <1>1, <1>9 DEF Push, UserApply, Calm, vars, round
<1>10. CASE LateLock
  <2>1. /\ UNCHANGED <<pc, seen>>
        /\ holder' = (IF holder = "none" THEN "root" ELSE holder)
    BY <1>10 DEF LateLock, round
  <2>2. CASE InLock \/ holder # "none"
    BY <1>0, <1>1, <2>1, <2>2 DEF Owner
  <2>3. CASE ~InLock /\ holder = "none"
    <3>1. Owner = "free" /\ Owner' = "stray" /\ busy' = busy
      BY <2>1, <2>3 DEF Owner
    <3> QED
      BY <3>1 DEF Own!Stray
  <2> QED
    BY <2>2, <2>3
<1>11. CASE LateUnlock
  <2>1. /\ pc' = pc /\ holder' = (IF holder = "root" THEN "none" ELSE holder)
        /\ seen' = [seen EXCEPT !.stolen = @ \/ (InLock /\ holder = "root")]
    BY <1>11 DEF LateUnlock, round
  <2>2. seen'.stolen = (seen.stolen \/ (InLock /\ holder = "root"))
    BY <1>0, <2>1
  <2>3. CASE InLock /\ ~seen.stolen
    <3>1. Owner = "clean" /\ Owner' = "contested" /\ busy' = FALSE
      BY <1>0, <2>1, <2>2, <2>3 DEF Owner
    <3> QED
      BY <3>1 DEF Own!TakeAway
  <2>4. CASE InLock /\ seen.stolen
    BY <2>1, <2>2, <2>4 DEF Owner
  <2>5. CASE ~InLock /\ holder = "root"
    <3>1. Owner = "stray" /\ Owner' = "free" /\ busy' = busy
      BY <1>0, <2>1, <2>2, <2>5 DEF Owner
    <3> QED
      BY <3>1 DEF Own!Clear
  <2>6. CASE ~InLock /\ holder # "root"
    BY <1>0, <2>1, <2>2, <2>6 DEF Owner
  <2> QED
    BY <2>3, <2>4, <2>5, <2>6
<1>12. ASSUME NEW c \in orphans, OrphanEnds(c) PROVE [Own!Next]_(Own!vars)
  BY <1>1, <1>12 DEF OrphanEnds, round
<1> QED
  BY <1>2, <1>3, <1>4, <1>5, <1>6, <1>7, <1>8, <1>9, <1>10, <1>11, <1>12 DEF Next, Clean, Left

\* The rounds implement the ownership, for any branch, threshold and users.
THEOREM CleanOwnership == Spec => ImplementsOwnership
<1>1. Init => Own!Init
  BY DEF Init, Own!Init, Owner, InLock
<1> QED
  BY <1>1, Typing, RevertHolds, OwnStep, PTL DEF Spec, ImplementsOwnership, Own!Spec

-----------------------------------------------------------------------------
(* A node that is reported has a noop to show.                             *)

\* An earlier commit m is considered whenever c is, and the branch's head with it.
Near(m, c) == IF dn.rev = OffBranch THEN c - m < childThreshold ELSE dn.rev <= m

\* Only a round's first noop is saved.  Where none has been, each commit marked as
\* nooped has an earlier one that is not: the first of its round, whose noop failed.
UnsavedInv ==
  /\ \A c \in dn.commitIds \cup todo : c <= head
  /\ dn.dirtyNoop = None =>
       \A c \in dn.commitIds : \E m \in Commit \ dn.commitIds : m < c /\ Near(m, c)

InRound == pc \in {"lock", "noop", "noopWait", "apply", "applyWait"}

\* In a round, commits are nooped from the earliest on; past the first, the one whose
\* noop failed stays behind.
RoundInv ==
  /\ pc = "list" \/ InRound => dn.rev = queried
  /\ InRound =>
       /\ todo \cap dn.commitIds = {}
       /\ \A d \in todo : \A c \in dn.commitIds \cup todo : Near(d, c)
       /\ pc = "noopWait" => puppet.commit \in todo /\ \A d \in todo : puppet.commit <= d
       /\ ~first /\ dn.dirtyNoop = None =>
            \E m \in Commit \ dn.commitIds :
              (\A d \in todo : m < d) /\ \A c \in dn.commitIds \cup todo : Near(m, c)

\* A considered commit is one of the range.
LEMMA Considered ==
  ASSUME TypeOK, NEW r \in Commit \cup {OffBranch}, NEW c \in commitsToConsider(r)
  PROVE  /\ c \in Int /\ c <= head
         /\ IF r = OffBranch THEN head - c < childThreshold ELSE r <= c
BY CleanNodeAssumption DEF commitsToConsider, Earliest, TypeOK, Commit, OffBranch

\* All of a set that is no larger than k is among its k earliest.
LEMMA AllEarliest ==
  ASSUME NEW S \in SUBSET Int, IsFiniteSet(S), NEW k \in Nat, Cardinality(S) <= k
  PROVE  Earliest(S, k) = S
<1> SUFFICES ASSUME NEW c \in S PROVE Cardinality({d \in S : d < c}) < k
  BY DEF Earliest
<1> DEFINE T == {d \in S : d < c}
<1>1. T \in SUBSET S /\ T # S
  OBVIOUS
<1> HIDE DEF T
<1>2. /\ IsFiniteSet(T) /\ Cardinality(T) <= Cardinality(S)
      /\ Cardinality(S) = Cardinality(T) => S = T
  BY <1>1, FS_Subset, Zenon
<1>3. Cardinality(T) \in Nat /\ Cardinality(S) \in Nat
  BY <1>2, FS_CardinalityType, Zenon
<1>4. Cardinality(T) < k
  BY <1>1, <1>2, <1>3
<1> QED
  BY <1>4 DEF T

\* With a commit, those before it in the range are considered.
LEMMA ConsideredBefore ==
  ASSUME TypeOK, NEW r \in Commit, NEW c \in commitsToConsider(r),
         NEW m \in Commit, r <= m, m < c
  PROVE  m \in commitsToConsider(r)
<1> DEFINE S == r..head
           A == {d \in S : d < c}
           B == {d \in S : d < m}
<1>1. r \in Int /\ head \in Int /\ m \in Int /\ r # OffBranch
  BY CleanNodeAssumption DEF TypeOK, Commit, OffBranch
<1>2. c \in S /\ Cardinality(A) < childThreshold
  BY <1>1 DEF commitsToConsider, Earliest
<1>3. m \in S
  BY <1>1, <1>2
<1>4. IsFiniteSet(S)
  BY <1>1, FS_Interval
<1>5. A \in SUBSET S /\ B \in SUBSET A
  BY <1>1, <1>2
<1> HIDE DEF A, B, S
<1>6. IsFiniteSet(A)
  BY <1>4, <1>5, FS_Subset, Zenon
<1>7. IsFiniteSet(B) /\ Cardinality(B) <= Cardinality(A)
  BY <1>5, <1>6, FS_Subset, Zenon
<1>8. Cardinality(A) \in Nat /\ Cardinality(B) \in Nat
  BY <1>6, <1>7, FS_CardinalityType, Zenon
<1>9. Cardinality(B) < childThreshold
  BY <1>2, <1>7, <1>8, CleanNodeAssumption
<1> QED
  BY <1>1, <1>3, <1>9 DEF commitsToConsider, Earliest, S, B

\* Off the branch, childThreshold commits up to the head are considered.
LEMMA ConsideredOffBranch ==
  ASSUME TypeOK, head >= childThreshold
  PROVE  commitsToConsider(OffBranch) = (head - childThreshold + 1)..head
<1> DEFINE S == (head - childThreshold + 1)..head
<1>1. head \in Int /\ childThreshold \in Nat \ {0}
  BY CleanNodeAssumption DEF TypeOK, Commit
<1>2. IsFiniteSet(S) /\ Cardinality(S) = childThreshold /\ S \in SUBSET Int
  BY <1>1, FS_Interval
<1> HIDE DEF S
<1>3. Earliest(S, childThreshold) = S
  BY <1>1, <1>2, AllEarliest
<1> QED
  BY <1>3 DEF commitsToConsider, S

\* When the considered commits are all marked, and are as many as can be, a noop is
\* saved.
LEMMA SavedWhenReported ==
  ASSUME TypeOK, UnsavedInv, dn.rev \in Commit \cup {OffBranch},
         dn.rev = OffBranch => head >= childThreshold,
         commitsToConsider(dn.rev) \subseteq dn.commitIds,
         Cardinality(commitsToConsider(dn.rev)) = childThreshold
  PROVE  dn.dirtyNoop # None
<1> SUFFICES ASSUME dn.dirtyNoop = None PROVE FALSE
  OBVIOUS
<1>1. \A c \in dn.commitIds : \E m \in Commit \ dn.commitIds : m < c /\ Near(m, c)
  BY DEF UnsavedInv
<1>2. CASE dn.rev = OffBranch
  <2>1. commitsToConsider(dn.rev) = (head - childThreshold + 1)..head
    BY <1>2, ConsideredOffBranch
  <2>2. head \in commitsToConsider(dn.rev)
    BY <2>1, CleanNodeAssumption DEF TypeOK, Commit
  <2>3. PICK m \in Commit \ dn.commitIds : m < head /\ Near(m, head)
    BY <1>1, <2>2
  <2>4. m \in (head - childThreshold + 1)..head
    BY <1>2, <2>3, CleanNodeAssumption DEF Near, TypeOK, Commit
  <2> QED
    BY <2>1, <2>3, <2>4
<1>3. CASE dn.rev # OffBranch
  <2>1. commitsToConsider(dn.rev) # {}
    BY FS_EmptySet, CleanNodeAssumption
  <2>2. PICK c \in commitsToConsider(dn.rev) : TRUE
    BY <2>1
  <2>3. PICK m \in Commit \ dn.commitIds : m < c /\ Near(m, c)
    BY <1>1, <2>2
  <2>4. dn.rev \in Commit /\ dn.rev <= m
    BY <1>3, <2>3 DEF Near
  <2>5. m \in commitsToConsider(dn.rev)
    BY <2>3, <2>4, ConsideredBefore
  <2> QED
    BY <2>3, <2>5
<1> QED
  BY <1>2, <1>3

\* A reply to a noop keeps the invariant.
LEMMA NoopReplySaves ==
  ASSUME TypeOK, Started, UnsavedInv, RoundInv, ReportHasNoop, NoopReply
  PROVE  UnsavedInv' /\ RoundInv' /\ ReportHasNoop'
<1> DEFINE p == puppet.commit
<1>1. /\ p \in Commit /\ p \in todo /\ p \notin dn.commitIds /\ todo \subseteq Commit
      /\ \A d \in todo : p <= d
      /\ \A d \in todo : \A c \in dn.commitIds \cup todo : Near(d, c)
      /\ todo \cap dn.commitIds = {} /\ dn.rev = queried
      /\ dn.commitIds \subseteq Commit /\ None \notin Commit
  BY CleanNodeAssumption DEF NoopReply, Started, RoundInv, InRound, TypeOK, None, Commit
<1>2. /\ todo' = todo \ {p} /\ ~first' /\ pc' \in {"noop", "apply"}
      /\ UNCHANGED <<head, queried, reported>>
  BY DEF NoopReply
<1>3. \A d \in todo' : p < d
  BY <1>1, <1>2 DEF Commit
<1>4. CASE UNCHANGED dn
  <2>1. UnsavedInv' /\ ReportHasNoop'
    BY <1>2, <1>4 DEF UnsavedInv, ReportHasNoop, Near
  <2>2. dn.dirtyNoop = None =>
          \E m \in Commit \ dn.commitIds :
            (\A d \in todo' : m < d) /\ \A c \in dn.commitIds \cup todo' : Near(m, c)
    <3>1. CASE first
      BY <1>1, <1>2, <1>3, <3>1
    <3>2. CASE ~first
      BY <1>2, <3>2 DEF RoundInv, InRound, NoopReply
    <3> QED
      BY <3>1, <3>2
  <2>3. RoundInv'
    BY <1>1, <1>2, <1>4, <2>2 DEF RoundInv, InRound, Near
  <2> QED
    BY <2>1, <2>3
<1>5. CASE dn' = [dn EXCEPT !.commitIds = @ \cup {p}, !.dirtyNoop = IF first THEN p ELSE @]
  <2>1. /\ dn'.rev = dn.rev /\ dn'.commitIds = dn.commitIds \cup {p}
        /\ dn'.dirtyNoop = IF first THEN p ELSE dn.dirtyNoop
    BY <1>5 DEF TypeOK
  <2>2. \A m, c : Near(m, c)' <=> Near(m, c)
    BY <2>1 DEF Near
  <2>3. ReportHasNoop'
    BY <1>1, <1>2, <2>1 DEF ReportHasNoop
  <2>4. /\ \A c \in dn'.commitIds \cup todo' : c <= head'
        /\ todo' \cap dn'.commitIds = {}
        /\ \A d \in todo' : \A c \in dn'.commitIds \cup todo' : Near(d, c)
    BY <1>1, <1>2, <2>1 DEF UnsavedInv
  <2>5. CASE first
    BY <1>1, <1>2, <2>1, <2>2, <2>3, <2>4, <2>5 DEF UnsavedInv, RoundInv, InRound
  <2>6. CASE ~first /\ dn.dirtyNoop # None
    BY <1>1, <1>2, <2>1, <2>2, <2>3, <2>4, <2>6 DEF UnsavedInv, RoundInv, InRound
  <2>7. CASE ~first /\ dn.dirtyNoop = None
    <3>1. PICK m \in Commit \ dn.commitIds :
            (\A d \in todo : m < d) /\ \A c \in dn.commitIds \cup todo : Near(m, c)
      BY <2>7 DEF RoundInv, InRound, NoopReply
    <3>2. m < p /\ m \in Commit \ dn'.commitIds
      BY <1>1, <2>1, <3>1 DEF Commit
    <3>3. ASSUME NEW c \in dn'.commitIds
          PROVE  \E w \in Commit \ dn'.commitIds : w < c /\ Near(w, c)
      <4>1. CASE c = p
        BY <1>1, <3>1, <3>2, <4>1
      <4>2. CASE c \in dn.commitIds
        <5>1. PICK w \in Commit \ dn.commitIds : w < c /\ Near(w, c)
          BY <2>7, <4>2 DEF UnsavedInv
        <5>2. CASE w # p
          BY <2>1, <5>1, <5>2
        <5>3. CASE w = p
          <6>1. m < c /\ c \in Commit
            BY <1>1, <3>2, <4>2, <5>1, <5>3 DEF Commit
          <6> QED
            BY <3>1, <3>2, <4>2, <6>1
        <5> QED
          BY <5>2, <5>3
      <4> QED
        BY <2>1, <4>1, <4>2
    <3>4. UnsavedInv'
      BY <2>2, <2>4, <3>3 DEF UnsavedInv
    <3>5. \E w \in Commit \ dn'.commitIds :
            (\A d \in todo' : w < d) /\ \A c \in dn'.commitIds \cup todo' : Near(w, c)
      BY <1>1, <1>2, <2>1, <3>1, <3>2
    <3>6. RoundInv'
      BY <1>1, <1>2, <2>1, <2>2, <2>4, <3>5 DEF RoundInv, InRound
    <3> QED
      BY <2>3, <3>4, <3>6
  <2> QED
    BY <2>5, <2>6, <2>7
<1> QED
  BY <1>4, <1>5 DEF NoopReply

\* Every action keeps it.
LEMMA SaveStep ==
  ASSUME TypeOK, Started, UnsavedInv, RoundInv, ReportHasNoop, [Next]_vars
  PROVE  UnsavedInv' /\ RoundInv' /\ ReportHasNoop'
<1> DEFINE Saves == UnsavedInv' /\ RoundInv' /\ ReportHasNoop'
<1>1. ASSUME dn' \in {dn, NoDirtyNoops, [NoDirtyNoops EXCEPT !.rev = rev]}, reported' = FALSE,
             UNCHANGED <<head, todo>>, pc' = "idle" \/ (pc' = "list" /\ dn'.rev = queried')
      PROVE  Saves
  <2>1. dn' = dn \/ (dn'.commitIds = {})
    BY <1>1 DEF NoDirtyNoops
  <2>2. ReportHasNoop' /\ RoundInv'
    BY <1>1 DEF ReportHasNoop, RoundInv, InRound
  <2>3. UnsavedInv'
    BY <1>1, <2>1 DEF UnsavedInv, Near
  <2> QED
    BY <2>2, <2>3
<1>2. CASE Query
  <2>1. pc' = "list" => dn'.rev = queried'
    BY <1>2 DEF Query, NoDirtyNoops
  <2>2. pc' \in {"idle", "list"} /\ dn' \in {dn, NoDirtyNoops, [NoDirtyNoops EXCEPT !.rev = rev]}
    BY <1>2 DEF Query
  <2> QED
    BY <1>1, <1>2, <2>1, <2>2 DEF Query
<1>3. CASE QueryFails
  BY <1>1, <1>3 DEF QueryFails, round
\* A step that does not touch what the round is about.
<1>4. ASSUME UNCHANGED <<dn, reported>>, head \in Int, head' \in Int, head <= head',
             UNCHANGED <<todo, first>> \/ EndRound,
             \/ EndRound
             \/ pc' = "unlock"
             \/ InRound /\ pc' \in {"lock", "noop", "apply", "applyWait"} /\ queried' = queried
             \/ UNCHANGED <<pc, queried, puppet>>
      PROVE  Saves
  <2>1. dn.commitIds \subseteq Int /\ todo \subseteq Int
    BY CleanNodeAssumption DEF TypeOK, Commit
  <2>2. ASSUME NEW c \in dn.commitIds \cup todo PROVE c <= head'
    <3>1. c \in Int /\ c <= head
      BY <2>1 DEF UnsavedInv
    <3> QED
      BY <1>4, <3>1
  <2>3. UnsavedInv' /\ ReportHasNoop'
    BY <1>4, <2>2 DEF UnsavedInv, ReportHasNoop, Near, EndRound
  <2>4. RoundInv'
    BY <1>4 DEF RoundInv, InRound, Near, EndRound
  <2> QED
    BY <2>3, <2>4
<1>5. head \in Int
  BY CleanNodeAssumption DEF TypeOK, Commit
<1>6. CASE ListError
  BY <1>4, <1>5, <1>6 DEF ListError
<1>7. CASE List
  <2> DEFINE consider == commitsToConsider(queried)
  <2>1. queried \in Commit \cup {OffBranch} /\ dn.rev = queried
        /\ (queried = OffBranch => head >= childThreshold)
    BY <1>7 DEF List, Started, RoundInv
  <2>2. /\ todo' = consider \ dn.commitIds /\ first' = TRUE /\ UNCHANGED <<head, dn>>
        /\ \/ pc' = "lock" /\ UNCHANGED <<queried, reported>>
           \/ /\ pc' = "idle" /\ todo' = {}
              /\ reported' = (Cardinality(consider) = childThreshold)
    BY <1>7 DEF List, EndRound
  <2>3. \A c \in consider : /\ c \in Int /\ c <= head
                            /\ IF queried = OffBranch THEN head - c < childThreshold ELSE queried <= c
    BY <2>1, Considered
  <2>4. dn.commitIds \subseteq Int /\ \A c \in dn.commitIds : c <= head
    BY CleanNodeAssumption DEF TypeOK, Commit, UnsavedInv
  <2> HIDE DEF consider
  <2>5. UnsavedInv'
    BY <2>2, <2>3, <2>4 DEF UnsavedInv, Near
  <2>6. \A d \in todo' : \A c \in dn.commitIds \cup todo' : Near(d, c)
    BY <1>5, <2>1, <2>2, <2>3, <2>4, CleanNodeAssumption DEF Near
  <2>7. RoundInv'
    BY <2>1, <2>2, <2>6 DEF RoundInv, InRound, Near
  <2>8. ReportHasNoop'
    <3>1. CASE pc' = "lock" /\ reported' = reported
      BY <2>2, <3>1 DEF ReportHasNoop
    <3>2. CASE /\ pc' = "idle" /\ todo' = {}
               /\ reported' = (Cardinality(consider) = childThreshold)
      <4>1. consider \subseteq dn.commitIds
        BY <2>2, <3>2
      <4>2. Cardinality(consider) = childThreshold => dn.dirtyNoop # None
        BY <2>1, <4>1, SavedWhenReported DEF consider
      <4> QED
        BY <2>2, <3>2, <4>2 DEF ReportHasNoop
    <3> QED
      BY <2>2, <3>1, <3>2
  <2> QED
    BY <2>5, <2>7, <2>8
<1>8. CASE Lock
  <2>1. UNCHANGED <<head, dn, reported>>
    BY <1>8 DEF Lock
  <2>2. EndRound \/ (UNCHANGED <<queried, todo, first>> /\ InRound /\ pc' = "noop")
    BY <1>8 DEF Lock, InRound
  <2> QED
    BY <1>4, <1>5, <2>1, <2>2
<1>9. CASE Noop
  <2> DEFINE c == CHOOSE c \in todo : \A d \in todo : c <= d
  <2>1. c \in todo /\ \A d \in todo : c <= d
    <3>1. todo \in SUBSET Commit /\ todo # {}
      BY <1>9 DEF Noop, TypeOK
    <3> QED
      BY <3>1, EarliestIs
  <2>2. puppet' = [noop |-> TRUE, commit |-> c]
    BY <1>9 DEF Noop
  <2> HIDE DEF c
  <2>3. /\ UNCHANGED <<head, queried, todo, first, dn, reported>>
        /\ pc = "noop" /\ pc' = "noopWait" /\ puppet'.commit = c
    BY <1>9, <2>2 DEF Noop
  <2>4. UnsavedInv' /\ ReportHasNoop'
    BY <2>3 DEF UnsavedInv, ReportHasNoop, Near
  <2>5. RoundInv'
    BY <2>1, <2>3 DEF RoundInv, InRound, Near
  <2> QED
    BY <2>4, <2>5
<1>10. CASE NoopReply
  BY <1>10, NoopReplySaves
<1>11. CASE Apply
  BY <1>4, <1>5, <1>11 DEF Apply, InRound
<1>12. CASE ApplyReply
  <2>1. pc' \in {"unlock", "noop"}
    BY <1>12 DEF ApplyReply
  <2> QED
    BY <1>4, <1>5, <1>12, <2>1 DEF ApplyReply, InRound
<1>13. CASE Unlock
  BY <1>4, <1>5, <1>13 DEF Unlock
<1>14. CASE Push
  <2>1. head' \in Int /\ head <= head'
    BY <1>5, <1>14 DEF Push
  <2> QED
    BY <1>4, <1>5, <1>14, <2>1 DEF Push, round
<1>15. CASE Left \/ UserLock \/ UserUnlock \/ UserApply \/ Calm \/ UNCHANGED vars
  <2>1. UNCHANGED <<head, todo, first, dn, reported, pc, queried, puppet>>
    BY <1>15 DEF Left, LateLock, LateUnlock, OrphanEnds, UserLock, UserUnlock, UserApply, Calm,
       vars, round
  <2> QED
    BY <1>4, <1>5, <2>1
<1> QED
  BY <1>2, <1>3, <1>6, <1>7, <1>8, <1>9, <1>10, <1>11, <1>12, <1>13, <1>14, <1>15 DEF Next, Clean

\* What rounds keep from one to the next, all together.
LEMMA RoundsHold == Spec => [](TypeOK /\ Started /\ UnsavedInv /\ RoundInv /\ ReportHasNoop)
<1>1. Init => UnsavedInv /\ RoundInv /\ ReportHasNoop
  BY DEF Init, UnsavedInv, RoundInv, InRound, ReportHasNoop, NoDirtyNoops
<1>2. TypeOK /\ Started /\ UnsavedInv /\ RoundInv /\ ReportHasNoop /\ [Next]_vars
        => (UnsavedInv /\ RoundInv /\ ReportHasNoop)'
  BY SaveStep
<1> QED
  BY <1>1, <1>2, TypedAndStarted, PTL DEF Spec

\* When cleanNode reports that none of the considered commits cleans the node, it has
\* saved a noop for the issue, over any number of rounds, pushes and failed noops.
THEOREM ReportsCarryANoop == Spec => []ReportHasNoop
BY RoundsHold, PTL

-----------------------------------------------------------------------------
(* Once its users leave a node alone, each round gets on with it.          *)

\* A node left alone by its users stays clean once it is, and as long as it is dirty its
\* last apply stays and nothing that was nooped against it is forgotten.  Each noop adds
\* a commit that was not nooped before, and an apply cleans the node if it evaluates: so
\* rounds neither repeat nor undo each other, whatever is pushed between them.
GetsOn ==
  calm =>
    /\ calm' /\ holder # "user" /\ holder' # "user"
    /\ ~dirty => ~dirty'
    /\ dirty' /\ dn.rev = rev =>
         rev' = rev /\ dn'.rev = rev /\ dn.commitIds \subseteq dn'.commitIds
    /\ pc = "noopWait" /\ pc' # pc => puppet.commit \in dn'.commitIds \ dn.commitIds
    /\ pc = "applyWait" /\ pc' # pc /\ puppet.commit \notin broken => ~dirty'

RoundsGetOn == [][GetsOn]_vars

\* What Calm waits for stays away.
CalmInv == calm => holder # "user" /\ late = {} /\ orphans = {}

\* The loop's own steps.
LEMMA CleanGetsOn ==
  ASSUME TypeOK, Started, RoundInv, CalmInv, calm, Clean
  PROVE  GetsOn
<1> USE DEF node, round
<1>1. calm' /\ holder # "user" /\ holder' # "user"
  BY DEF CalmInv, Clean, Query, QueryFails, ListError, List, Lock, Noop, NoopReply, Apply,
     ApplyReply, Unlock, Lost, MayLose
<1>2. CASE Query \/ QueryFails
  <2>1. pc = "idle" /\ UNCHANGED <<rev, dirty, match>>
    BY <1>2 DEF Query, QueryFails
  <2>2. dirty' /\ dn.rev = rev => dn' = dn
    BY <1>1, <1>2, <2>1 DEF Query, QueryFails
  <2> QED
    BY <1>1, <2>1, <2>2 DEF GetsOn
<1>3. CASE ListError \/ List \/ Lock \/ Noop \/ Apply \/ Unlock
  <2>1. UNCHANGED <<rev, dirty, dn>> /\ pc \notin {"noopWait", "applyWait"}
    BY <1>3 DEF ListError, List, Lock, Noop, Apply, Unlock
  <2> QED
    BY <1>1, <2>1 DEF GetsOn
<1>4. CASE NoopReply
  <2>1. pc = "noopWait" /\ UNCHANGED <<rev, dirty>>
    BY <1>4 DEF NoopReply
  <2>2. PICK d \in {dn.dirtyNoop, puppet.commit} :
          dn' = [dn EXCEPT !.commitIds = @ \cup {puppet.commit}, !.dirtyNoop = d]
    BY <1>4 DEF NoopReply
  <2>3. dn'.rev = dn.rev /\ dn'.commitIds = dn.commitIds \cup {puppet.commit}
    BY <2>2 DEF TypeOK
  <2>4. puppet.commit \notin dn.commitIds
    BY <2>1 DEF RoundInv, InRound
  <2> QED
    BY <1>1, <2>1, <2>3, <2>4 DEF GetsOn
<1>5. CASE ApplyReply
  <2>1. /\ pc = "applyWait" /\ dn' = dn
        /\ dirty' = FALSE \/ (puppet.commit \in broken /\ UNCHANGED <<rev, dirty>>)
    BY <1>5 DEF ApplyReply, AppliedClean, AppliedDirty, MayLose
  <2> QED
    BY <1>1, <2>1 DEF GetsOn
<1> QED
  BY <1>2, <1>3, <1>4, <1>5 DEF Clean

\* The safety half of CleanedOrAllNooped: after Calm each answer to a noop leaves one
\* commit less to noop, or the node clean, for any branch and any threshold.
THEOREM NothingIsRepeated == Spec => RoundsGetOn
<1> DEFINE Inv == TypeOK /\ Started /\ UnsavedInv /\ RoundInv /\ ReportHasNoop
<1>1. Init => CalmInv
  BY DEF Init, CalmInv
<1>2. ASSUME Inv, CalmInv, [Next]_vars
      PROVE  CalmInv' /\ [GetsOn]_vars
  <2>1. CASE Clean
    <3>1. CASE calm
      <4>1. GetsOn
        BY <1>2, <2>1, <3>1, CleanGetsOn
      <4>2. late' = {} /\ orphans' = {}
        BY <1>2, <2>1, <3>1 DEF CalmInv, Clean, Query, QueryFails, ListError, List, Lock, Noop,
           NoopReply, Apply, ApplyReply, Unlock, Lost, MayLose, wire
      <4> QED
        BY <3>1, <4>1, <4>2 DEF GetsOn, CalmInv
    <3>2. CASE ~calm
      BY <2>1, <3>2 DEF GetsOn, CalmInv, Clean, Query, QueryFails, ListError, List, Lock, Noop,
         NoopReply, Apply, ApplyReply, Unlock
    <3> QED
      BY <3>1, <3>2
  <2>2. CASE Push \/ UserLock \/ UserUnlock \/ UserApply \/ Calm
    BY <1>2, <2>2 DEF CalmInv, GetsOn, Push, UserLock, UserUnlock, UserApply, Calm, node, round,
       wire
  <2>3. CASE Left
    BY <1>2, <2>3 DEF CalmInv, GetsOn, Left, LateLock, LateUnlock, OrphanEnds
  <2>4. CASE UNCHANGED vars
    BY <1>2, <2>4 DEF CalmInv, vars, wire
  <2> QED
    BY <1>2, <2>1, <2>2, <2>3, <2>4 DEF Next
<1> QED
  BY <1>1, <1>2, RoundsHold, PTL DEF Spec, RoundsGetOn
=============================================================================
