--------------------------- MODULE RizzoLock_proofs ---------------------------
(***************************************************************************)
(* Proofs about RizzoLock, for every set of users, sessions and handlers.  *)
(***************************************************************************)
EXTENDS RizzoLock, TLAPS

USE DEF Goto, Answer

\* The constants NoUser and the idle request tell apart what they must.
LEMMA Requests == NoReq \notin Request /\ NoUser \notin LocalUser
BY RizzoLockAssumption DEF Request, NoReq

\* Every action keeps each variable in its type; the file is only ever given to
\* an account of the node, because puppetLock looks the locker up before it
\* touches the file.  The clause needed for that: a handler about to link or
\* rename serves a request whose user has an account.
LookedUp == \A h \in Handler : pc[h] \in {"link", "rename"} => req[h].user \in LocalUser

LEMMA TypeStep == TypeOK /\ LookedUp /\ [Next]_vars => (TypeOK /\ LookedUp)'
<1> SUFFICES ASSUME TypeOK, LookedUp, [Next]_vars PROVE (TypeOK /\ LookedUp)'
  OBVIOUS
<1> USE RizzoLockAssumption, Requests DEF TypeOK, LookedUp, PC, Status
<1>1. ASSUME NEW s \in Session, NEW h \in Handler, Send(s, h)
      PROVE (TypeOK /\ LookedUp)'
  BY <1>1 DEF Send, Request
<1>2. ASSUME NEW s \in Session, GiveUp(s) PROVE (TypeOK /\ LookedUp)'
  BY <1>2 DEF GiveUp
<1>3. ASSUME NEW h \in Handler, Deliver(h) PROVE (TypeOK /\ LookedUp)'
  BY <1>3 DEF Deliver
<1>4. ASSUME NEW h \in Handler, Prepare(h) PROVE (TypeOK /\ LookedUp)'
  BY <1>4 DEF Prepare
<1>5. ASSUME NEW h \in Handler, Rename(h) PROVE (TypeOK /\ LookedUp)'
  BY <1>5 DEF Rename
<1>6. ASSUME NEW h \in Handler, Link(h) PROVE (TypeOK /\ LookedUp)'
  BY <1>6 DEF Link
<1>7. ASSUME NEW h \in Handler, LinkError(h) PROVE (TypeOK /\ LookedUp)'
  BY <1>7 DEF LinkError
<1>8. ASSUME NEW h \in Handler, Stat(h) PROVE (TypeOK /\ LookedUp)'
  BY <1>8 DEF Stat
<1>9. ASSUME NEW h \in Handler, Owner(h) PROVE (TypeOK /\ LookedUp)'
  BY <1>9 DEF Owner
<1>10. ASSUME NEW h \in Handler, Comment(h) PROVE (TypeOK /\ LookedUp)'
  BY <1>10 DEF Comment
<1>11. ASSUME NEW h \in Handler, Remove(h) PROVE (TypeOK /\ LookedUp)'
  BY <1>11 DEF Remove
<1>12. CASE Crash
  BY <1>12 DEF Crash
<1>13. CASE UNCHANGED vars
  BY <1>13 DEF vars
<1> QED
  BY <1>1, <1>2, <1>3, <1>4, <1>5, <1>6, <1>7, <1>8, <1>9, <1>10, <1>11, <1>12,
     <1>13 DEF Next, Serve

\* Whatever callers do and however rizzod fails, the lock file belongs to nobody
\* or to an account of the node, and a handler without a request is idle.
THEOREM Typing == Spec => []TypeOK
<1>1. Init => TypeOK /\ LookedUp
  BY RizzoLockAssumption, Requests DEF Init, TypeOK, LookedUp, PC, Status
<1>2. QED
  BY <1>1, TypeStep, PTL DEF Spec

-----------------------------------------------------------------------------
(* Mutual exclusion.                                                       *)

\* The strengthened invariant holds initially and every step keeps it, clause by
\* clause, when the callers are Exclusive.
LEMMA ExclusionStep ==
  ASSUME Exclusive
  PROVE  TypeOK /\ ExclusionInv /\ [Next]_vars => ExclusionInv'
<1> SUFFICES ASSUME TypeOK, ExclusionInv, [Next]_vars PROVE ExclusionInv'
  OBVIOUS
<1> USE Exclusive, RizzoLockAssumption, Requests
    DEF TypeOK, ExclusionInv, HoldersOwnTheFile, Served, PC, Status
<1>1. ASSUME NEW s \in Session, NEW h \in Handler, Send(s, h)
      PROVE ExclusionInv'
  BY <1>1 DEF Send, Exclusive, Request
<1>2. ASSUME NEW s \in Session, GiveUp(s) PROVE ExclusionInv'
  BY <1>2 DEF GiveUp, Exclusive
<1>3. ASSUME NEW h \in Handler, Deliver(h) PROVE ExclusionInv'
  BY <1>3 DEF Deliver, Exclusive
<1>4. ASSUME NEW h \in Handler, Prepare(h) PROVE ExclusionInv'
  BY <1>4 DEF Prepare, Exclusive
<1>5. ASSUME NEW h \in Handler, Rename(h) PROVE ExclusionInv'
  BY <1>5 DEF Rename
<1>6. ASSUME NEW h \in Handler, Link(h) PROVE ExclusionInv'
  BY <1>6 DEF Link, Exclusive
<1>7. ASSUME NEW h \in Handler, LinkError(h) PROVE ExclusionInv'
  BY <1>7 DEF LinkError, Exclusive
<1>8. ASSUME NEW h \in Handler, Stat(h) PROVE ExclusionInv'
  BY <1>8 DEF Stat, Exclusive
<1>9. ASSUME NEW h \in Handler, Owner(h) PROVE ExclusionInv'
  BY <1>9 DEF Owner, Exclusive
<1>10. ASSUME NEW h \in Handler, Comment(h) PROVE ExclusionInv'
  BY <1>10 DEF Comment, Exclusive
<1>11. ASSUME NEW h \in Handler, Remove(h) PROVE ExclusionInv'
  BY <1>11 DEF Remove, Exclusive
<1>12. CASE Crash
  BY <1>12 DEF Crash
<1>13. CASE UNCHANGED vars
  BY <1>13 DEF vars
<1> QED
  BY <1>1, <1>2, <1>3, <1>4, <1>5, <1>6, <1>7, <1>8, <1>9, <1>10, <1>11, <1>12,
     <1>13 DEF Next, Serve

\* When the callers are Exclusive, an unlock that has passed its owner check
\* still removes its caller's own file, and nobody told that it has the lock
\* loses it to another session.
THEOREM Exclusion == ASSUME Exclusive PROVE Spec => []ExclusionInv
<1>1. Init => ExclusionInv
  BY RizzoLockAssumption DEF Init, ExclusionInv, HoldersOwnTheFile, Served
<1>2. QED
  BY <1>1, Typing, ExclusionStep, PTL DEF Spec

\* Two sessions never both have the lock.
THEOREM LockExcludes == ASSUME Exclusive PROVE Spec => []MutualExclusion
<1>1. ExclusionInv => MutualExclusion
  BY DEF Exclusive, ExclusionInv, HoldersOwnTheFile, MutualExclusion
<1>2. QED
  BY <1>1, Exclusion, PTL

-----------------------------------------------------------------------------
(* The handlers implement the atomic lock.                                 *)

bar == <<lockFile, req, [h \in Handler |-> Outcome(h)]>>

\* A step of one handler changes the abstract outcome of that handler only.
LEMMA OutcomeOfOthers ==
  ASSUME TypeOK, NEW h \in Handler, NEW l, pc' = [pc EXCEPT ![h] = l],
         \A g \in Handler \ {h} : req'[g] = req[g] /\ seen'[g] = seen[g] /\ out'[g] = out[g]
  PROVE  \A d : Outcome(h)' = d =>
            [g \in Handler |-> Outcome(g)]' =
              [[g \in Handler |-> Outcome(g)] EXCEPT ![h] = d]
<1> TAKE d
<1> HAVE Outcome(h)' = d
<1>1. \A g \in Handler \ {h} : Outcome(g)' = Outcome(g)
  BY DEF TypeOK, Outcome
<1>2. QED
  BY <1>1

\* Each system call is one step of NodeLock or none: Send receives, Deliver
\* replies, a link or a rename grants, a successful remove releases, and every
\* other call decides an answer, loses one, or only moves the program counter.
LEMMA RefinementStep ==
  ASSUME Exclusive, TypeOK, ExclusionInv, [Next]_vars
  PROVE  [Abstract!Next]_(Abstract!vars)
<1> USE Requests, RizzoLockAssumption
<1> DEFINE O == [g \in Handler |-> Outcome(g)]
<1>0. \A h \in Handler : O[h] = Outcome(h)
  OBVIOUS
<1>a. \A h \in Handler : (\/ Abstract!Receive(h) \/ Abstract!Lock(h)
                          \/ Abstract!Unlock(h) \/ Abstract!State(h)
                          \/ Abstract!Fail(h) \/ Abstract!Degrade(h)
                          \/ Abstract!Reply(h)) => Abstract!Next
  BY DEF Abstract!Next
<1>1. ASSUME NEW s \in Session, NEW h \in Handler, Send(s, h)
      PROVE Abstract!Receive(h)
  <2>1. Outcome(h) = "undecided" /\ Outcome(h)' = "undecided"
    BY <1>1 DEF Send, Outcome, TypeOK
  <2>2. O' = O
    <3>1. O' = [O EXCEPT ![h] = "undecided"]
      BY <1>1, <2>1, OutcomeOfOthers DEF Send, TypeOK
    <3>2. QED
      BY <3>1, <2>1
  <2>3. req[h] = NoReq /\ \E r \in Request : req' = [req EXCEPT ![h] = r]
    BY <1>1 DEF Send, TypeOK
  <2>4. QED
    BY <2>2, <2>3, <1>1
       DEF Send, Abstract!Receive, NoReq, Request, Abstract!NoOp, Abstract!Request
<1>2. ASSUME NEW s \in Session, GiveUp(s) PROVE FALSE
  BY <1>2 DEF GiveUp, Exclusive
<1>3. ASSUME NEW h \in Handler, Deliver(h) PROVE Abstract!Reply(h)
  <2>1. Outcome(h) = out[h] /\ Outcome(h)' = "undecided" /\ out[h] # "undecided"
    BY <1>3 DEF Deliver, Outcome, TypeOK, Status
  <2>2. O' = [O EXCEPT ![h] = "undecided"]
    BY <1>3, <2>1, OutcomeOfOthers DEF Deliver, TypeOK
  <2>3. QED
    BY <2>1, <2>2, <1>3 DEF Deliver, Abstract!Reply, NoReq, Abstract!NoOp
<1>4. ASSUME NEW h \in Handler, Serve(h) PROVE Abstract!Next \/ UNCHANGED bar
  <2> DEFINE Keeps == UNCHANGED <<lockFile, req>>
  <2>0. Abstract!Pending(h) <=> req[h] # NoReq /\ Outcome(h) = "undecided"
    BY DEF Abstract!Pending, NoReq, Abstract!NoOp
  <2>1. \A d : Outcome(h)' = d => O' = [O EXCEPT ![h] = d]
    BY <1>4, OutcomeOfOthers
       DEF Serve, Prepare, Rename, Link, LinkError, Stat, Owner, Comment, Remove,
           Goto, Answer, TypeOK
  <2>2. (Outcome(h)' = Outcome(h)) /\ Keeps => UNCHANGED bar
    BY <2>1 DEF bar
  <2>3. req[h] # NoReq /\ ~req[h].force /\ req[h] \in Request
    BY <1>4 DEF Serve, Prepare, Rename, Link, LinkError, Stat, Owner, Comment,
                Remove, TypeOK, ExclusionInv, Served
  <2>4. CASE Prepare(h)
    <3>1. CASE Outcome(h)' = "lock_unknown"
      <4>1. Abstract!Fail(h)
        BY <2>4, <3>1, <2>0, <2>1, <2>3 DEF Prepare, Outcome, Abstract!Fail, Abstract!Decide
      <4> QED
        BY <4>1, <1>a
    <3>2. CASE Outcome(h)' = Outcome(h)
      BY <2>4, <3>2, <2>2 DEF Prepare
    <3> QED
      BY <2>4, <3>1, <3>2 DEF Prepare, Outcome, TypeOK, ExclusionInv
  <2>5. CASE Rename(h)
    BY <2>5 DEF Rename, ExclusionInv
  <2>6. CASE Link(h)
    <3>1. req[h].type = "lock" /\ Outcome(h) = "undecided"
      BY <2>6 DEF Link, ExclusionInv, Outcome
    <3>2. CASE lockFile = NoUser
      <4>1. Outcome(h)' = "locked_by_user"
        BY <2>6, <3>2 DEF Link, Outcome, TypeOK
      <4>2. Abstract!Lock(h)
        BY <2>6, <3>1, <3>2, <4>1, <2>0, <2>1, <2>3
           DEF Link, Abstract!Lock, Abstract!Decide
      <4> QED
        BY <4>2, <1>a
    <3>3. CASE lockFile # NoUser
      <4>1. Outcome(h)' = "locked_by_another"
        BY <2>6, <3>1, <3>3 DEF Link, Outcome, TypeOK
      <4>2. Abstract!Lock(h)
        BY <2>6, <3>1, <3>3, <4>1, <2>0, <2>1, <2>3
           DEF Link, Abstract!Lock, Abstract!Decide
      <4> QED
        BY <4>2, <1>a
    <3> QED
      BY <3>2, <3>3
  <2>7. CASE LinkError(h)
    BY <2>7 DEF LinkError, Exclusive
  <2>8. CASE Stat(h)
    <3>1. req[h].type \in {"unlock", "state"} /\ Outcome(h) = "undecided"
      BY <2>8, <2>3 DEF Stat, ExclusionInv, Outcome, Request
    <3>2. CASE lockFile = NoUser
      <4>1. Outcome(h)' = "unlocked"
        BY <2>8, <3>2 DEF Stat, Outcome, TypeOK
      <4>2. Abstract!Unlock(h) \/ Abstract!State(h)
        BY <2>8, <3>1, <3>2, <4>1, <2>0, <2>1, <2>3
           DEF Stat, Abstract!Unlock, Abstract!State, Abstract!Decide
      <4> QED
        BY <4>2, <1>a
    <3>3. CASE lockFile # NoUser
      <4>1. Outcome(h)' = Outcome(h)
        BY <2>8, <3>1, <3>3 DEF Stat, Outcome, TypeOK
      <4> QED
        BY <4>1, <2>8, <2>2 DEF Stat
    <3> QED
      BY <3>2, <3>3
  <2>9. CASE Owner(h)
    <3>1. CASE lockFile = NoUser
      <4>1. Outcome(h)' = "lock_unknown"
        BY <2>9, <3>1 DEF Owner, Outcome, TypeOK
      <4>2. CASE req[h].type = "lock"
        <5>1. Outcome(h) = "locked_by_another"
          BY <4>2, <2>9 DEF Owner, Outcome
        <5>2. Abstract!Degrade(h)
          BY <2>9, <3>1, <4>1, <5>1, <2>1 DEF Owner, Abstract!Degrade, Abstract!Decide
        <5> QED
          BY <5>2, <1>a
      <4>3. CASE req[h].type # "lock"
        <5>1. Outcome(h) = "undecided"
          BY <4>3, <2>9 DEF Owner, Outcome
        <5>2. Abstract!Fail(h)
          BY <2>9, <3>1, <4>1, <5>1, <2>0, <2>1, <2>3
             DEF Owner, Abstract!Fail, Abstract!Decide
        <5> QED
          BY <5>2, <1>a
      <4> QED
        BY <4>2, <4>3
    <3>2. CASE lockFile # NoUser /\ req[h].type = "lock"
      <4>1. Outcome(h) = "locked_by_another" /\ Outcome(h)' = "locked_by_another"
        BY <3>2, <2>9 DEF Owner, Outcome, TypeOK
      <4> QED
        BY <4>1, <2>9, <2>2 DEF Owner
    <3>3. CASE lockFile # NoUser /\ req[h].type = "state"
      <4>1. Outcome(h) = "undecided"
        BY <3>3, <2>9 DEF Owner, Outcome
      <4>2. Outcome(h)' = IF lockFile = req[h].user THEN "locked_by_user"
                          ELSE "locked_by_another"
        BY <3>3, <2>9 DEF Owner, Outcome, TypeOK
      <4>3. Abstract!State(h)
        BY <2>9, <3>3, <4>1, <4>2, <2>0, <2>1, <2>3
           DEF Owner, Abstract!State, Abstract!Decide
      <4> QED
        BY <4>3, <1>a
    <3>4. CASE lockFile # NoUser /\ req[h].type = "unlock"
      <4>1. Outcome(h) = "undecided"
        BY <3>4, <2>9 DEF Owner, Outcome
      <4>2. CASE req[h].user = lockFile
        <5>1. Outcome(h)' = Outcome(h)
          BY <3>4, <4>1, <4>2, <2>9 DEF Owner, Outcome, TypeOK
        <5> QED
          BY <5>1, <2>9, <2>2 DEF Owner
      <4>3. CASE req[h].user # lockFile
        <5>1. Outcome(h)' = "locked_by_another"
          BY <3>4, <4>3, <2>3, <2>9 DEF Owner, Outcome, TypeOK
        <5>2. Abstract!Unlock(h)
          BY <2>9, <3>4, <4>1, <4>3, <5>1, <2>0, <2>1, <2>3
             DEF Owner, Abstract!Unlock, Abstract!Decide
        <5> QED
          BY <5>2, <1>a
      <4> QED
        BY <4>2, <4>3
    <3> QED
      BY <3>1, <3>2, <3>3, <3>4, <2>3 DEF Request
  <2>10. CASE Comment(h)
    <3>1. Outcome(h) = IF req[h].type = "state" /\ seen[h] = req[h].user
                       THEN "locked_by_user" ELSE "locked_by_another"
      BY <2>10 DEF Comment, Outcome
    <3>2. CASE lockFile = NoUser
      <4>1. Outcome(h)' = "lock_unknown"
        BY <2>10, <3>2 DEF Comment, Outcome, TypeOK
      <4>2. Abstract!Degrade(h)
        BY <2>10, <3>1, <4>1, <2>1 DEF Comment, Abstract!Degrade, Abstract!Decide
      <4> QED
        BY <4>2, <1>a
    <3>3. CASE lockFile # NoUser
      <4>1. Outcome(h)' = Outcome(h)
        BY <2>10, <3>1, <3>3 DEF Comment, Outcome, TypeOK
      <4> QED
        BY <4>1, <2>10, <2>2 DEF Comment
    <3> QED
      BY <3>2, <3>3
  <2>11. CASE Remove(h)
    <3>1. req[h].type = "unlock" /\ lockFile = req[h].user /\ lockFile # NoUser
      BY <2>11, <2>3 DEF Remove, ExclusionInv, Request
    <3>2. Outcome(h) = "undecided" /\ Outcome(h)' = "unlocked"
      BY <2>11, <3>1 DEF Remove, Outcome, TypeOK
    <3>3. Abstract!Unlock(h)
      BY <2>11, <3>1, <3>2, <2>0, <2>1, <2>3
         DEF Remove, Abstract!Unlock, Abstract!Decide
    <3> QED
      BY <3>3, <1>a
  <2> QED
    BY <1>4, <2>4, <2>5, <2>6, <2>7, <2>8, <2>9, <2>10, <2>11 DEF Serve
<1>5. CASE Crash
  <2>1. \A h \in Handler : Outcome(h)' = "undecided"
    BY <1>5 DEF Crash, Outcome
  <2>2. Abstract!Crash
    BY <1>5, <2>1 DEF Crash, Abstract!Crash, NoReq, Abstract!NoOp
  <2> QED
    BY <2>2 DEF Abstract!Next
<1>6. CASE UNCHANGED vars
  <2>1. \A h \in Handler : Outcome(h)' = Outcome(h)
    BY <1>6 DEF vars, Outcome
  <2> QED
    BY <1>6, <2>1 DEF vars, Abstract!vars
<1> QED
  BY <1>1, <1>2, <1>3, <1>4, <1>5, <1>6, <1>a DEF Next, bar, Abstract!vars

\* When the callers are Exclusive, rizzod's lock is the atomic lock of NodeLock:
\* every request takes effect at one system call, or fails without effect.
THEOREM Refinement == ASSUME Exclusive PROVE Spec => ImplementsNodeLock
<1>1. Init => Abstract!Init
  BY DEF Init, Abstract!Init, Outcome, NoReq, Abstract!NoOp
<1>2. TypeOK /\ ExclusionInv /\ [Next]_vars => [Abstract!Next]_(Abstract!vars)
  BY RefinementStep
<1>3. QED
  BY <1>1, <1>2, Typing, Exclusion, PTL DEF Spec, ImplementsNodeLock, Abstract!Spec

-----------------------------------------------------------------------------
(* Takeovers.                                                              *)

\* A handler about to rename serves a forced request.
ForcedInv == \A h \in Handler : pc[h] = "rename" => req[h].force

LEMMA ForcedStep == TypeOK /\ ForcedInv /\ [Next]_vars => ForcedInv'
<1> SUFFICES ASSUME TypeOK, ForcedInv, [Next]_vars PROVE ForcedInv'
  OBVIOUS
<1> USE DEF TypeOK, ForcedInv
<1>1. ASSUME NEW s \in Session, NEW h \in Handler, Send(s, h) PROVE ForcedInv'
  BY <1>1 DEF Send
<1>2. ASSUME NEW h \in Handler, Prepare(h) PROVE ForcedInv'
  BY <1>2 DEF Prepare
<1>3. ASSUME NEW h \in Handler,
             \/ Rename(h) \/ Link(h) \/ LinkError(h) \/ Stat(h) \/ Owner(h) \/ Comment(h)
             \/ Remove(h) \/ Deliver(h)
      PROVE  ForcedInv'
  BY <1>3 DEF Rename, Link, LinkError, Stat, Owner, Comment, Remove, Deliver
<1>4. CASE Crash \/ UNCHANGED vars \/ \E s \in Session : GiveUp(s)
  BY <1>4 DEF Crash, vars, GiveUp
<1> QED
  BY <1>1, <1>2, <1>3, <1>4 DEF Next, Serve

\* Only a forced request takes the lock file from its owner, whatever is lost, dies or
\* fails to link: of the calls that change the file, link leaves an owner's alone,
\* remove leaves none, and a rename is forced.
THEOREM TakeoversAreForced == Spec => TakeoverOnlyByForce
<1> DEFINE Taken == lockFile # NoUser /\ lockFile' \notin {NoUser, lockFile}
                    => \E h \in Handler : req[h].force /\ req[h].user = lockFile'
<1>1. Init => ForcedInv
  BY DEF Init, ForcedInv
<1>2. TypeOK /\ ForcedInv /\ [Next]_vars => [Taken]_vars
  <2> SUFFICES ASSUME TypeOK, ForcedInv, Next, lockFile # NoUser,
                      lockFile' \notin {NoUser, lockFile}
               PROVE  \E h \in Handler : req[h].force /\ req[h].user = lockFile'
    OBVIOUS
  <2>1. PICK h \in Handler : Rename(h)
    BY DEF Next, Serve, Send, GiveUp, Deliver, Prepare, Link, LinkError, Stat, Owner, Comment,
           Remove, Crash
  <2> QED
    BY <2>1 DEF Rename, ForcedInv
<1> QED
  BY <1>1, <1>2, Typing, ForcedStep, PTL DEF Spec, TakeoverOnlyByForce
=============================================================================
