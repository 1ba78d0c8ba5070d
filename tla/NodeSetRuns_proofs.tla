-------------------------- MODULE NodeSetRuns_proofs --------------------------
(***************************************************************************)
(* Proofs about NodeSetRuns, for every set of nodes, of runs and of        *)
(* scenarios.                                                              *)
(***************************************************************************)
EXTENDS NodeSetRuns, TLAPS, FiniteSetTheorems

\* The answers of a phase sort nodes: what Answered returns are nodes.
LEMMA AnsweredAreNodes == ASSUME NEW r, NEW A PROVE Answered(r, A) \subseteq Node
BY DEF Answered

\* The puppet processes that die with hecklerd on one node can be counted.
LEMMA RunningOf == \A n : Cardinality({r \in Run : n \in running[r]}) \in Nat
<1>1. IsFiniteSet(Run)
  BY NodeSetRunsAssumption, FS_Union, FS_Singleton DEF Run, Applier
<1> QED
  BY <1>1, FS_Subset, FS_CardinalityType

\* A run that enters a phase with buckets and recipients of their types keeps all
\* that Enter assigns in its types.
EnterTypes == /\ phase \in [Run -> Phase] /\ waiting \in [Run -> SUBSET Node]
              /\ reply \in [Run -> [Node -> Reply]] /\ ns \in [Run -> Buckets]

LEMMA EnterTyped ==
  ASSUME EnterTypes, NEW r \in Run, NEW p \in Phase, NEW b \in Buckets,
         NEW sent \in SUBSET Node, Enter(r, p, b, sent)
  PROVE  EnterTypes'
BY DEF EnterTypes, Enter, NoReply, Reply

LEMMA ReceiveTyped ==
  ASSUME EnterTypes, NEW r \in Run, NEW n \in Node, NEW a \in Reply, Receive(r, n, a)
  PROVE  EnterTypes'
BY DEF EnterTypes, Receive

\* The nodes' part of the type invariant, and the rest.
EnvTypes == /\ holder \in [Node -> {"none", "root", "user"}]
            /\ lastApply \in [Node -> {"behind", "at", "dirty"}]
            /\ orphans \in [Node -> 0..MaxOrphans]
            /\ late \subseteq Node /\ lateUnlock \subseteq Node
            /\ lost \subseteq Node /\ taken \subseteq Node
            /\ scenario \in Scenarios
            /\ daemon \in {"boot", "up", "stopping"}
            /\ running \in [Run -> SUBSET Node]

LEMMA TypeParts == /\ TypeOK <=> EnterTypes /\ EnvTypes
                   /\ TypeOK' <=> EnterTypes' /\ EnvTypes'
BY DEF TypeOK, EnterTypes, EnvTypes

\* A lock that is taken from a run is that of a node.
LEMMA TakenTyped ==
  ASSUME taken \subseteq Node, NEW n \in Node, TakeFromRun(n) \/ UNCHANGED taken
  PROVE  taken' \subseteq Node
BY DEF TakeFromRun

\* What a scenario is.
LEMMA ScenarioType ==
  ASSUME scenario \in Scenarios
  PROVE  scenario.hosts \subseteq Node
BY NodeSetRunsAssumption

\* The steps of a run between two phases keep every variable in its type.
LEMMA StepTyped == ASSUME TypeOK, NEW r \in Run, Step(r) PROVE TypeOK'
<1> USE TypeParts, AnsweredAreNodes
<1>0. ns[r] \in Buckets /\ EnterTypes /\ EnvTypes
  BY DEF TypeOK
<1>1. CASE Eligible(r)
  <2> DEFINE b == [ns[r] EXCEPT
                 !.active = Answered(r, {"unlocked", "locked_by_user"}),
                 !.errored = @ \cup Answered(r, {"error"}),
                 !.lockedByAnother = Answered(r, {"locked_by_another"})]
  <2>1. b \in Buckets /\ b.active \subseteq Node
    BY <1>0 DEF Buckets
  <2>2. Enter(r, "done", b, {}) \/ Enter(r, "lastApply", b, b.active)
    BY <1>1 DEF Eligible
  <2> HIDE DEF b
  <2>3. EnterTypes'
    BY <1>0, <2>1, <2>2, EnterTyped DEF Phase
  <2> QED
    BY <1>0, <1>1, <2>3 DEF Eligible, EnvTypes, env
<1>2. CASE LastApplied(r)
  <2> DEFINE b == [ns[r] EXCEPT
                 !.active = Answered(r, {"behind"}),
                 !.beyondRev = Answered(r, {"at"}),
                 !.errored = @ \cup Answered(r, {"dirty", "error"})]
  <2>1. b \in Buckets /\ b.active \subseteq Node
    BY <1>0 DEF Buckets
  <2>2. Enter(r, "done", b, {}) \/ Enter(r, "lock", b, b.active)
    BY <1>2 DEF LastApplied
  <2> HIDE DEF b
  <2>3. EnterTypes'
    BY <1>0, <2>1, <2>2, EnterTyped DEF Phase
  <2> QED
    BY <1>0, <1>2, <2>3 DEF LastApplied, EnvTypes, env
<1>3. CASE Locked(r)
  <2> DEFINE locked == Answered(r, {"locked_by_user"})
             b == [ns[r] EXCEPT !.active = locked, !.locked = locked,
                     !.errored = @ \cup Answered(r, {"error"}),
                     !.lockedByAnother = Answered(r, {"locked_by_another"})]
  <2>1. b \in Buckets /\ locked \subseteq Node
    BY <1>0 DEF Buckets
  <2>2. Enter(r, "giveUp", b, locked) \/ Enter(r, "apply", b, locked)
    BY <1>3 DEF Locked
  <2> HIDE DEF b, locked
  <2>3. EnterTypes'
    BY <1>0, <2>1, <2>2, EnterTyped DEF Phase
  <2> QED
    BY <1>0, <1>3, <2>3 DEF Locked, EnvTypes, env
<1>4. CASE Applied(r)
  <2> DEFINE b == [ns[r] EXCEPT !.applied = Answered(r, {"applied"}),
                         !.errored = @ \cup Answered(r, {"failed", "error"})]
  <2>1. b \in Buckets /\ ns[r].locked \subseteq Node
    BY <1>0 DEF Buckets
  <2>2. Enter(r, "unlock", b, ns[r].locked)
    BY <1>4 DEF Applied
  <2> HIDE DEF b
  <2>3. EnterTypes'
    BY <1>0, <2>1, <2>2, EnterTyped DEF Phase
  <2> QED
    BY <1>0, <1>4, <2>3 DEF Applied, EnvTypes, env
<1>5. CASE Unlocked(r)
  <2> DEFINE active == IF InPhase(r, "unlock") /\ r \in Applier
                       THEN ns[r].applied \cup ns[r].beyondRev
                       ELSE Answered(r, {"unlocked"})
             b == [ns[r] EXCEPT
                 !.active = active,
                 !.locked = {},
                 !.errored = @ \cup Answered(r, {"error"}),
                 !.lockedByAnother = @ \cup Answered(r, {"locked_by_another"})]
  <2>1. active \subseteq Node
    BY <1>0 DEF Buckets
  <2>2. Enter(r, "done", b, {})
    BY <1>5 DEF Unlocked
  <2> HIDE DEF active
  <2>3. b \in Buckets
    BY <1>0, <2>1 DEF Buckets
  <2> HIDE DEF b
  <2>4. EnterTypes'
    BY <1>0, <2>2, <2>3, EnterTyped DEF Phase
  <2> QED
    BY <1>0, <1>5, <2>4 DEF Unlocked, EnvTypes, env
<1>6. CASE Finish(r)
  <2>1. NoNodes \in Buckets
    BY DEF NoNodes, Buckets
  <2>2. EnterTypes'
    BY <1>0, <1>6, <2>1, EnterTyped DEF Finish, Phase
  <2> QED
    BY <1>0, <1>6, <2>2 DEF Finish, EnvTypes, env
<1> QED
  BY <1>1, <1>2, <1>3, <1>4, <1>5, <1>6 DEF Step

\* The RPCs of a run keep every variable in its type.
LEMMA RpcTyped == ASSUME TypeOK, NEW r \in Run, NEW n \in Node, Rpc(r, n) PROVE TypeOK'
<1> USE TypeParts, NodeSetRunsAssumption
<1>0. EnterTypes /\ EnvTypes
  OBVIOUS
<1>1. CASE StateReply(r, n) \/ LastApplyReply(r, n)
  <2>1. PICK a \in Reply : Receive(r, n, a)
    BY <1>0, <1>1 DEF StateReply, LastApplyReply, LockState, EnvTypes, Reply
  <2>2. EnterTypes'
    BY <1>0, <2>1, ReceiveTyped
  <2> QED
    BY <1>0, <1>1, <2>1, <2>2 DEF StateReply, LastApplyReply, EnvTypes, env, Receive
<1>2. CASE LockReply(r, n)
  <2>1. PICK a \in Reply : Receive(r, n, a)
    BY <1>2 DEF LockReply, Reply
  <2>2. EnterTypes'
    BY <1>0, <2>1, ReceiveTyped
  <2> QED
    BY <1>0, <1>2, <2>1, <2>2 DEF LockReply, EnvTypes, Receive
<1>3. CASE LockTimeout(r, n)
  <2>1. EnterTypes'
    BY <1>0, <1>3, ReceiveTyped DEF LockTimeout, Reply
  <2> QED
    BY <1>0, <1>3, <2>1 DEF LockTimeout, EnvTypes, Receive
<1>4. CASE ApplyStart(r, n)
  BY <1>0, <1>4 DEF ApplyStart, EnvTypes, EnterTypes, env
<1>5. CASE ApplyReply(r, n)
  <2>1. PICK a \in Reply : Receive(r, n, a)
    BY <1>5 DEF ApplyReply, Reply
  <2>2. EnterTypes'
    BY <1>0, <2>1, ReceiveTyped
  <2> QED
    BY <1>0, <1>5, <2>1, <2>2 DEF ApplyReply, EnvTypes, Receive
<1>6. CASE ApplyTimeout(r, n)
  <2>1. EnterTypes'
    BY <1>0, <1>6, ReceiveTyped DEF ApplyTimeout, Reply
  <2> QED
    BY <1>0, <1>6, <2>1 DEF ApplyTimeout, EnvTypes, Receive
<1>7. CASE UnlockReply(r, n)
  <2>1. PICK a \in Reply : Receive(r, n, a)
    BY <1>7 DEF UnlockReply, Reply
  <2>2. EnterTypes'
    BY <1>0, <2>1, ReceiveTyped
  <2> QED
    BY <1>0, <1>7, <2>1, <2>2, TakenTyped DEF UnlockReply, EnvTypes, Receive
<1>8. CASE UnlockTimeout(r, n)
  <2>1. EnterTypes'
    BY <1>0, <1>8, ReceiveTyped DEF UnlockTimeout, Reply
  <2> QED
    BY <1>0, <1>8, <2>1, TakenTyped DEF UnlockTimeout, EnvTypes, Receive
<1> QED
  BY <1>1, <1>2, <1>3, <1>4, <1>5, <1>6, <1>7, <1>8 DEF Rpc

\* The start of a run, and the end of hecklerd.
LEMMA StartTyped == ASSUME TypeOK, NEW r \in Applier, Start(r) PROVE TypeOK'
<1> USE TypeParts
<1>1. r \in Run
  BY DEF Run
<1>2. PICK dialed \in SUBSET scenario.hosts, p \in Phase, b \in Buckets :
        Enter(r, p, b, dialed)
  <2>1. ASSUME NEW dialed \in SUBSET scenario.hosts
        PROVE  [NoNodes EXCEPT !.active = dialed, !.errored = scenario.hosts \ dialed]
                 \in Buckets
    BY ScenarioType DEF NoNodes, Buckets, EnvTypes
  <2> QED
    BY <2>1 DEF Start, Phase
<1>3. EnterTypes'
  BY <1>1, <1>2, ScenarioType, EnterTyped DEF EnvTypes
<1> QED
  BY <1>3 DEF Start, EnvTypes, env

LEMMA DieTyped == ASSUME TypeOK, Die PROVE TypeOK'
<1> USE TypeParts, NodeSetRunsAssumption
<1>1. EnterTypes' /\ running' \in [Run -> SUBSET Node]
  BY DEF Die, EnterTypes, NoReply, Reply, NoNodes, Buckets, Phase
<1>2. orphans' \in [Node -> 0..MaxOrphans]
  <2> SUFFICES ASSUME NEW n \in Node
               PROVE  orphans'[n] \in 0..MaxOrphans
    BY DEF Die
  <2> DEFINE killed == Cardinality({r \in Run : n \in running[r]})
  <2>1. killed \in Nat
    BY RunningOf
  <2>2. orphans'[n] = orphans[n] + killed /\ orphans'[n] <= MaxOrphans
    BY DEF Die
  <2> HIDE DEF killed
  <2> QED
    BY <2>1, <2>2 DEF EnvTypes
<1>3. /\ late' \subseteq Node /\ lateUnlock' \subseteq Node
      /\ lost' \subseteq Node /\ taken' \subseteq Node
  BY DEF Die, OnTheWire, UnlocksOnTheWire, EnvTypes
<1> QED
  BY <1>1, <1>2, <1>3 DEF Die, EnvTypes

\* Every action keeps every variable in its type.
LEMMA TypeStep == TypeOK /\ [Next]_vars => TypeOK'
<1> SUFFICES ASSUME TypeOK, [Next]_vars PROVE TypeOK'
  OBVIOUS
<1> USE TypeParts, NodeSetRunsAssumption
<1>1. ASSUME NEW r \in Applier, Start(r) PROVE TypeOK'
  BY <1>1, StartTyped
<1>2. CASE StartUnlockAll
  <2>1. ASSUME NEW dialed \in SUBSET scenario.hosts
        PROVE  [NoNodes EXCEPT !.active = dialed, !.locked = dialed,
                               !.errored = scenario.hosts \ dialed] \in Buckets
    BY ScenarioType DEF NoNodes, Buckets, EnvTypes
  <2>2. EnterTypes'
    <3>1. NoNodes \in Buckets /\ {} \in SUBSET Node
      BY DEF NoNodes, Buckets
    <3>2. PICK p \in {"unlock", "done"}, b \in Buckets, sent \in SUBSET Node :
            Enter(Unlocker, p, b, sent)
      <4>1. CASE Enter(Unlocker, "done", NoNodes, {})
        BY <3>1, <4>1
      <4>2. CASE ~Enter(Unlocker, "done", NoNodes, {})
        BY <1>2, <2>1, <4>2, ScenarioType DEF StartUnlockAll, EnvTypes
      <4> QED
        BY <4>1, <4>2
    <3> QED
      BY <3>2, EnterTyped DEF Phase, Run
  <2>3. daemon' \in {"boot", "up", "stopping"}
    BY <1>2 DEF StartUnlockAll, EnvTypes
  <2> QED
    BY <1>2, <2>2, <2>3 DEF StartUnlockAll, EnvTypes, env
<1>3. ASSUME NEW r \in Run, Step(r) PROVE TypeOK'
  BY <1>3, StepTyped
<1>4. ASSUME NEW r \in Run, NEW n \in Node, Rpc(r, n) PROVE TypeOK'
  BY <1>4, RpcTyped
<1>5. ASSUME NEW n \in Node, LateLock(n) \/ LateUnlock(n) \/ User(n) \/ Override(n)
      PROVE  TypeOK'
  BY <1>5, TakenTyped DEF LateLock, LateUnlock, User, Override, EnterTypes, EnvTypes
<1>6. ASSUME NEW n \in Node, OrphanExit(n) PROVE TypeOK'
  BY <1>6 DEF OrphanExit, EnterTypes, EnvTypes
<1>7. CASE Crash \/ Exit
  BY <1>7, DieTyped DEF Crash, Exit
<1>8. CASE Sigterm
  BY <1>8 DEF Sigterm, EnterTypes, EnvTypes, env, Phase, Run
<1>9. CASE UNCHANGED vars
  BY <1>9 DEF vars, env, EnterTypes, EnvTypes
<1>10. scenario.hosts \subseteq Node
  BY ScenarioType DEF EnvTypes
<1> QED
  BY <1>1, <1>2, <1>3, <1>4, <1>5, <1>6, <1>7, <1>8, <1>9, <1>10 DEF Next

\* Whatever is lost or dies, buckets, replies and locks keep their types.
THEOREM Typing == Spec => []TypeOK
<1>1. Init => TypeOK
  <2> SUFFICES ASSUME Init PROVE TypeOK
    OBVIOUS
  <2>1. NoNodes \in Buckets /\ NoReply \in [Node -> Reply]
    BY DEF NoNodes, Buckets, NoReply, Reply
  <2> QED
    BY <2>1, NodeSetRunsAssumption DEF Init, TypeOK, Phase
<1> QED
  BY <1>1, TypeStep, PTL DEF Spec

-----------------------------------------------------------------------------
(* Which nodes a run has locked.                                           *)

\* What a run has locked is up to its own part of the state.
LEMMA MineOf ==
  ASSUME NEW q, phase'[q] = phase[q], waiting'[q] = waiting[q],
         reply'[q] = reply[q], ns'[q] = ns[q]
  PROVE  Mine(q)' = Mine(q)
BY DEF Mine, InPhase, Answered

\* A run that enters a phase has no answer yet: it has what its buckets and the
\* recipients of the phase's RPCs say.
LEMMA MineEntered ==
  ASSUME TypeOK, NEW r \in Run, NEW p, NEW b, NEW sent, Enter(r, p, b, sent)
  PROVE  /\ \A q \in Run \ {r} : Mine(q)' = Mine(q)
         /\ p = "apply" => Mine(r)' = b.locked
         /\ p \in {"unlock", "giveUp"} => Mine(r)' = sent
         /\ p \notin {"apply", "unlock", "giveUp"} => Mine(r)' = {}
<1>1. \A q \in Run \ {r} : Mine(q)' = Mine(q)
  BY MineOf DEF TypeOK, Enter
<1>2. phase'[r] = p /\ ns'[r] = b /\ waiting'[r] = sent /\ reply'[r] = NoReply
  BY DEF TypeOK, Enter
<1>3. Answered(r, {"locked_by_user"})' = {}
  BY <1>2 DEF Answered, NoReply
<1> QED
  BY <1>1, <1>2, <1>3 DEF Mine, InPhase

\* An answer changes what the run has locked in the lock and unlock phases only.
LEMMA MineReceived ==
  ASSUME TypeOK, NEW r \in Run, NEW n \in Node, NEW a, Receive(r, n, a)
  PROVE  /\ \A q \in Run \ {r} : Mine(q)' = Mine(q)
         /\ phase[r] = "lock" => Mine(r)' = IF a = "locked_by_user" THEN Mine(r) \cup {n}
                                           ELSE Mine(r) \ {n}
         /\ phase[r] \in {"unlock", "giveUp"} => Mine(r)' = Mine(r) \ {n}
         /\ phase[r] \notin {"lock", "unlock", "giveUp"} => Mine(r)' = Mine(r)
<1>1. \A q \in Run \ {r} : Mine(q)' = Mine(q)
  BY MineOf DEF TypeOK, Receive
<1>2. /\ phase' = phase /\ ns' = ns /\ waiting'[r] = waiting[r] \ {n}
      /\ reply'[r] = [reply[r] EXCEPT ![n] = a]
  BY DEF TypeOK, Receive
<1>3. Answered(r, {"locked_by_user"})' =
        IF a = "locked_by_user" THEN Answered(r, {"locked_by_user"}) \cup {n}
        ELSE Answered(r, {"locked_by_user"}) \ {n}
  BY <1>2 DEF Answered, TypeOK
<1> QED
  BY <1>1, <1>2, <1>3 DEF Mine, InPhase

\* No run gains or loses a lock by entering a phase: what it locked in lockNodeSet it
\* applies to, and unlocks afterwards or when it gives up.
LEMMA StepKeepsMine ==
  ASSUME TypeOK, NEW r \in Run, Step(r)
  PROVE  \A q \in Run : Mine(q)' = Mine(q)
<1>1. CASE Eligible(r)
  <2>1. PICK p, b, sent : p \in {"done", "lastApply"} /\ Enter(r, p, b, sent)
    BY <1>1 DEF Eligible
  <2> QED
    BY <1>1, <2>1, MineEntered DEF Eligible, Complete, InPhase, Mine
<1>2. CASE LastApplied(r)
  <2>1. PICK p, b, sent : p \in {"done", "lock"} /\ Enter(r, p, b, sent)
    BY <1>2 DEF LastApplied
  <2> QED
    BY <1>2, <2>1, MineEntered DEF LastApplied, Complete, InPhase, Mine
<1>3. CASE Locked(r)
  <2> DEFINE locked == Answered(r, {"locked_by_user"})
             b == [ns[r] EXCEPT !.active = locked, !.locked = locked,
                     !.errored = @ \cup Answered(r, {"error"}),
                     !.lockedByAnother = Answered(r, {"locked_by_another"})]
  <2>1. b.locked = locked
    BY DEF TypeOK, Buckets
  <2>2. Mine(r) = locked
    BY <1>3 DEF Locked, Complete, InPhase, Mine
  <2>3. Enter(r, "giveUp", b, locked) \/ Enter(r, "apply", b, locked)
    BY <1>3 DEF Locked
  <2> HIDE DEF b, locked
  <2> QED
    BY <2>1, <2>2, <2>3, MineEntered
<1>4. CASE Applied(r)
  <2>1. PICK b : Enter(r, "unlock", b, ns[r].locked)
    BY <1>4 DEF Applied
  <2>2. Mine(r) = ns[r].locked
    BY <1>4 DEF Applied, Complete, InPhase, Mine
  <2> QED
    BY <2>1, <2>2, MineEntered
<1>5. CASE Unlocked(r)
  <2>1. PICK b : Enter(r, "done", b, {})
    BY <1>5 DEF Unlocked
  <2>2. Mine(r) = {}
    BY <1>5 DEF Unlocked, Complete, InPhase, Mine
  <2> QED
    BY <2>1, <2>2, MineEntered
<1>6. CASE Finish(r)
  <2>1. Enter(r, "idle", NoNodes, {}) /\ Mine(r) = {}
    BY <1>6 DEF Finish, InPhase, Mine
  <2> QED
    BY <2>1, MineEntered
<1> QED
  BY <1>1, <1>2, <1>3, <1>4, <1>5, <1>6 DEF Step

LEMMA StartKeepsMine ==
  ASSUME TypeOK, NEW r \in Applier, Start(r)
  PROVE  \A q \in Run : Mine(q)' = Mine(q)
<1>1. PICK p, b, sent : p \in {"lock", "state"} /\ Enter(r, p, b, sent)
  BY DEF Start
<1>2. Mine(r) = {}
  BY DEF Start, InPhase, Mine
<1> QED
  BY <1>1, <1>2, MineEntered DEF Run

\* unlockAll is no run with locks of its own.
LEMMA UnlockAllKeepsMine ==
  ASSUME TypeOK, StartUnlockAll \/ Sigterm
  PROVE  \A q \in Applier : Mine(q)' = Mine(q)
<1>1. CASE StartUnlockAll
  <2>1. PICK p, b, sent : Enter(Unlocker, p, b, sent)
    BY <1>1 DEF StartUnlockAll
  <2> QED
    BY <2>1, MineEntered, NodeSetRunsAssumption DEF Run, Applier
<1>2. CASE Sigterm
  BY <1>2, MineOf, NodeSetRunsAssumption DEF Sigterm, TypeOK, Run, Applier
<1> QED
  BY <1>1, <1>2

LEMMA OthersKeepMine ==
  ASSUME TypeOK, NEW n, \/ LateLock(n) \/ LateUnlock(n) \/ OrphanExit(n)
                        \/ User(n) \/ Override(n) \/ UNCHANGED vars
  PROVE  \A q \in Run : Mine(q)' = Mine(q)
BY MineOf DEF LateLock, LateUnlock, OrphanExit, User, Override, vars

-----------------------------------------------------------------------------
(* Runs keep to the nodes of their set.                                    *)

\* A run sends RPCs to nodes of the node set only, each is answered at most once in
\* a phase, and unlockAll only ever unlocks: it neither locks nor applies.
Orderly(r) == /\ waiting[r] \subseteq scenario.hosts
              /\ \A n \in Node : reply[r][n] # "none" => n \in scenario.hosts \ waiting[r]
              /\ ns[r].locked \subseteq scenario.hosts

OrderInv == /\ \A r \in Run : Orderly(r)
            /\ phase[Unlocker] \in {"idle", "unlock", "done"} /\ running[Unlocker] = {}

LEMMA UnlockerIsNoApplier == Unlocker \in Run /\ Unlocker \notin Applier /\ Applier \subseteq Run
BY NodeSetRunsAssumption DEF Run, Applier

LEMMA AnsweredAreHosts ==
  ASSUME OrderInv, NEW r \in Run, NEW A, "none" \notin A
  PROVE  Answered(r, A) \subseteq scenario.hosts
BY DEF OrderInv, Orderly, Answered

\* unlockAll sends unlocks to the nodes it could dial, or is done without a list of them.
UnlockAllEnters(p, b, sent) ==
  /\ Enter(Unlocker, p, b, sent)
  /\ sent \subseteq scenario.hosts /\ b.locked = sent
  /\ \/ p = "unlock" /\ daemon' = daemon /\ b.errored = scenario.hosts \ sent
     \/ p = "done" /\ daemon' # "boot" /\ b = NoNodes

LEMMA UnlockAllStarts ==
  ASSUME StartUnlockAll
  PROVE  \E p, b, sent : UnlockAllEnters(p, b, sent)
<1>1. CASE Enter(Unlocker, "done", NoNodes, {}) /\ daemon' = IF daemon = "boot" THEN "up" ELSE daemon
  <2>1. UnlockAllEnters("done", NoNodes, {})
    BY <1>1 DEF UnlockAllEnters, NoNodes
  <2> QED
    BY <2>1
<1>2. CASE daemon' = daemon /\ \E dialed \in SUBSET scenario.hosts :
             Enter(Unlocker, "unlock",
                   [NoNodes EXCEPT !.active = dialed, !.locked = dialed,
                                   !.errored = scenario.hosts \ dialed], dialed)
  <2>1. PICK dialed \in SUBSET scenario.hosts :
          Enter(Unlocker, "unlock",
                [NoNodes EXCEPT !.active = dialed, !.locked = dialed,
                                !.errored = scenario.hosts \ dialed], dialed)
    BY <1>2
  <2> DEFINE b == [NoNodes EXCEPT !.active = dialed, !.locked = dialed,
                                  !.errored = scenario.hosts \ dialed]
  <2>2. b.locked = dialed /\ b.errored = scenario.hosts \ dialed
    BY DEF NoNodes
  <2>3. Enter(Unlocker, "unlock", b, dialed)
    BY <2>1
  <2> HIDE DEF b
  <2>4. UnlockAllEnters("unlock", b, dialed)
    BY <1>2, <2>2, <2>3 DEF UnlockAllEnters
  <2> QED
    BY <2>4
<1> QED
  BY <1>1, <1>2 DEF StartUnlockAll

LEMMA OrderlyEntered ==
  ASSUME TypeOK, OrderInv, NEW r \in Run, NEW p, NEW b, NEW sent \in SUBSET scenario.hosts,
         Enter(r, p, b, sent), b.locked \subseteq scenario.hosts, scenario' = scenario
  PROVE  \A q \in Run : Orderly(q)'
<1>1. \A q \in Run \ {r} : waiting'[q] = waiting[q] /\ reply'[q] = reply[q] /\ ns'[q] = ns[q]
  BY DEF TypeOK, Enter
<1>2. waiting'[r] = sent /\ reply'[r] = NoReply /\ ns'[r] = b
  BY DEF TypeOK, Enter
<1> QED
  BY <1>1, <1>2 DEF OrderInv, Orderly, NoReply

LEMMA OrderlyReceived ==
  ASSUME TypeOK, OrderInv, NEW r \in Run, NEW n \in waiting[r], NEW a, Receive(r, n, a),
         scenario' = scenario
  PROVE  \A q \in Run : Orderly(q)'
<1>1. \A q \in Run \ {r} : waiting'[q] = waiting[q] /\ reply'[q] = reply[q]
  BY DEF TypeOK, Receive
<1>2. /\ waiting'[r] = waiting[r] \ {n} /\ ns' = ns
      /\ \A m \in Node \ {n} : reply'[r][m] = reply[r][m]
  BY DEF TypeOK, Receive
<1> QED
  BY <1>1, <1>2 DEF OrderInv, Orderly

LEMMA OrderlyKept ==
  ASSUME OrderInv, UNCHANGED <<waiting, reply, ns, scenario>>
  PROVE  \A q \in Run : Orderly(q)'
BY DEF OrderInv, Orderly

\* The steps between phases keep runs to their nodes.
LEMMA OrderlyStep ==
  ASSUME TypeOK, OrderInv, NEW r \in Run, Step(r)
  PROVE  \A q \in Run : Orderly(q)'
<1>0. ns[r] \in Buckets /\ ns[r].locked \subseteq scenario.hosts
  BY DEF TypeOK, OrderInv, Orderly
<1>1. CASE Eligible(r) \/ LastApplied(r) \/ Locked(r) \/ Finish(r) \/ Unlocked(r)
  <2>1. PICK p, b, sent : /\ Enter(r, p, b, sent) /\ sent \subseteq scenario.hosts
                          /\ b.locked \subseteq scenario.hosts
    <3>1. CASE Eligible(r)
      <4> DEFINE b == [ns[r] EXCEPT
                 !.active = Answered(r, {"unlocked", "locked_by_user"}),
                 !.errored = @ \cup Answered(r, {"error"}),
                 !.lockedByAnother = Answered(r, {"locked_by_another"})]
      <4>1. b.locked = ns[r].locked /\ b.active = Answered(r, {"unlocked", "locked_by_user"})
        BY <1>0 DEF Buckets
      <4>2. Enter(r, "done", b, {}) \/ Enter(r, "lastApply", b, b.active)
        BY <3>1 DEF Eligible
      <4> HIDE DEF b
      <4> QED
        BY <1>0, <4>1, <4>2, AnsweredAreHosts
    <3>2. CASE LastApplied(r)
      <4> DEFINE b == [ns[r] EXCEPT
                 !.active = Answered(r, {"behind"}),
                 !.beyondRev = Answered(r, {"at"}),
                 !.errored = @ \cup Answered(r, {"dirty", "error"})]
      <4>1. b.locked = ns[r].locked /\ b.active = Answered(r, {"behind"})
        BY <1>0 DEF Buckets
      <4>2. Enter(r, "done", b, {}) \/ Enter(r, "lock", b, b.active)
        BY <3>2 DEF LastApplied
      <4> HIDE DEF b
      <4> QED
        BY <1>0, <4>1, <4>2, AnsweredAreHosts
    <3>3. CASE Locked(r)
      <4> DEFINE locked == Answered(r, {"locked_by_user"})
                 b == [ns[r] EXCEPT !.active = locked, !.locked = locked,
                         !.errored = @ \cup Answered(r, {"error"}),
                         !.lockedByAnother = Answered(r, {"locked_by_another"})]
      <4>1. b.locked = locked /\ locked \subseteq scenario.hosts
        BY <1>0, AnsweredAreHosts DEF Buckets
      <4>2. Enter(r, "giveUp", b, locked) \/ Enter(r, "apply", b, locked)
        BY <3>3 DEF Locked
      <4> HIDE DEF b, locked
      <4> QED
        BY <4>1, <4>2
    <3>4. CASE Finish(r)
      BY <3>4 DEF Finish, NoNodes
    <3>5. CASE Unlocked(r)
      <4> DEFINE b == [ns[r] EXCEPT
                 !.active = IF InPhase(r, "unlock") /\ r \in Applier
                            THEN ns[r].applied \cup ns[r].beyondRev
                            ELSE Answered(r, {"unlocked"}),
                 !.locked = {},
                 !.errored = @ \cup Answered(r, {"error"}),
                 !.lockedByAnother = @ \cup Answered(r, {"locked_by_another"})]
      <4>1. b.locked = {}
        BY <1>0 DEF Buckets
      <4>2. Enter(r, "done", b, {})
        BY <3>5 DEF Unlocked
      <4> HIDE DEF b
      <4> QED
        BY <4>1, <4>2
    <3> QED
      BY <1>1, <3>1, <3>2, <3>3, <3>4, <3>5
  <2> QED
    BY <1>1, <2>1, OrderlyEntered
       DEF Eligible, LastApplied, Locked, Finish, Unlocked, env
<1>2. CASE Applied(r)
  <2> DEFINE b == [ns[r] EXCEPT !.applied = Answered(r, {"applied"}),
                         !.errored = @ \cup Answered(r, {"failed", "error"})]
  <2>1. b.locked = ns[r].locked
    BY <1>0 DEF Buckets
  <2>2. Enter(r, "unlock", b, ns[r].locked)
    BY <1>2 DEF Applied
  <2> HIDE DEF b
  <2> QED
    BY <1>0, <1>2, <2>1, <2>2, OrderlyEntered DEF Applied, env
<1> QED
  BY <1>1, <1>2 DEF Step

\* Every action keeps runs to their nodes and unlockAll to unlocking.
LEMMA OrderStep == TypeOK /\ OrderInv /\ [Next]_vars => OrderInv'
<1> SUFFICES ASSUME TypeOK, OrderInv, [Next]_vars PROVE OrderInv'
  OBVIOUS
<1> USE UnlockerIsNoApplier
<1> DEFINE UnlockAll == phase[Unlocker] \in {"idle", "unlock", "done"} /\ running[Unlocker] = {}
<1>0. UnlockAll
  BY DEF OrderInv
<1>1. ASSUME NEW r \in Applier, Start(r) PROVE OrderInv'
  <2>1. PICK p, b, sent : /\ Enter(r, p, b, sent) /\ sent \subseteq scenario.hosts
                          /\ b.locked \subseteq scenario.hosts
    <3>1. ASSUME NEW dialed
          PROVE [NoNodes EXCEPT !.active = dialed,
                                !.errored = scenario.hosts \ dialed].locked = {}
      BY DEF NoNodes
    <3> QED
      BY <1>1, <3>1 DEF Start
  <2>2. UnlockAll'
    BY <1>0, <1>1, <2>1 DEF Start, Enter, TypeOK
  <2> QED
    BY <1>1, <2>1, <2>2, OrderlyEntered DEF Start, env, OrderInv
<1>2. CASE StartUnlockAll
  <2>1. PICK p, b, sent : UnlockAllEnters(p, b, sent)
    BY <1>2, UnlockAllStarts
  <2>2. UnlockAll'
    BY <1>0, <1>2, <2>1 DEF UnlockAllEnters, StartUnlockAll, Enter, TypeOK
  <2> QED
    BY <1>2, <2>1, <2>2, OrderlyEntered DEF UnlockAllEnters, StartUnlockAll, env, OrderInv
<1>3. ASSUME NEW r \in Run, Step(r) PROVE OrderInv'
  <2>1. running' = running
    BY <1>3 DEF Step, Eligible, LastApplied, Locked, Applied, Unlocked, Finish
  <2>2. PICK p, b, sent : Enter(r, p, b, sent)
    BY <1>3 DEF Step, Eligible, LastApplied, Locked, Applied, Unlocked, Finish
  <2>3. CASE r # Unlocker
    BY <1>0, <1>3, <2>1, <2>2, <2>3, OrderlyStep DEF Enter, OrderInv, TypeOK
  <2>4. CASE r = Unlocker
    <3>1. Unlocked(r)
      BY <1>0, <1>3, <2>4
         DEF Step, Eligible, LastApplied, Locked, Applied, Finish, Complete, InPhase
    <3>2. UnlockAll'
      BY <1>0, <2>1, <2>4, <3>1 DEF Unlocked, Enter, TypeOK
    <3> QED
      BY <1>3, <3>2, OrderlyStep DEF OrderInv
  <2> QED
    BY <2>3, <2>4
<1>4. ASSUME NEW r \in Run, NEW n \in Node, Rpc(r, n) PROVE OrderInv'
  <2>1. phase' = phase /\ scenario' = scenario /\ n \in waiting[r]
    BY <1>4 DEF Rpc, StateReply, LastApplyReply, LockReply, LockTimeout, ApplyStart, Unlocking,
                ApplyReply, ApplyTimeout, UnlockReply, UnlockTimeout, Receive, Asked, env
  <2>2. running' = running \/ (r # Unlocker /\ \E v : running' = [running EXCEPT ![r] = v])
    BY <1>0, <1>4 DEF Rpc, StateReply, LastApplyReply, LockReply, LockTimeout, ApplyStart,
                ApplyReply, ApplyTimeout, UnlockReply, UnlockTimeout, Asked, InPhase
  <2>3. UnlockAll'
    BY <1>0, <2>1, <2>2 DEF TypeOK
  <2>4. (\E a : Receive(r, n, a)) \/ UNCHANGED <<waiting, reply, ns>>
    BY <1>4 DEF Rpc, StateReply, LastApplyReply, LockReply, LockTimeout, ApplyStart,
                ApplyReply, ApplyTimeout, UnlockReply, UnlockTimeout
  <2> QED
    BY <2>1, <2>3, <2>4, OrderlyReceived, OrderlyKept DEF OrderInv
<1>5. ASSUME NEW n \in Node, \/ LateLock(n) \/ LateUnlock(n) \/ OrphanExit(n)
                             \/ User(n) \/ Override(n)
      PROVE OrderInv'
  BY <1>0, <1>5, OrderlyKept DEF LateLock, LateUnlock, OrphanExit, User, Override, OrderInv
<1>6. CASE Crash \/ Exit
  BY <1>6 DEF Crash, Exit, Die, OrderInv, Orderly, NoReply, NoNodes
<1>7. CASE Sigterm
  BY <1>0, <1>7, OrderlyKept DEF Sigterm, env, OrderInv, TypeOK
<1>8. CASE UNCHANGED vars
  BY <1>0, <1>8, OrderlyKept DEF vars, env, OrderInv
<1>9. scenario.hosts \subseteq Node
  BY ScenarioType DEF TypeOK
<1> QED
  BY <1>1, <1>2, <1>3, <1>4, <1>5, <1>6, <1>7, <1>8, <1>9 DEF Next

LEMMA OrderKept == Spec => []OrderInv
<1>1. Init => OrderInv
  BY UnlockerIsNoApplier DEF Init, OrderInv, Orderly, NoReply, NoNodes
<1> QED
  BY <1>1, Typing, OrderStep, PTL DEF Spec

-----------------------------------------------------------------------------
(* No lock is left behind.                                                 *)

\* The invariant, with the lock requests still in service: each is of a node whose
\* reply was lost, so its late grant surprises nobody.
LeakInv == /\ late \subseteq lost
           /\ \A n \in Node : holder[n] = "root" =>
                n \in lost \/ \E r \in Applier : n \in Mine(r)

\* A step that keeps what runs have locked, and locks no node as root, keeps it.
LEMMA LeakKept ==
  ASSUME LeakInv, late' \subseteq late, lost' = lost,
         \A n \in Node : holder'[n] = "root" => holder[n] = "root",
         \A q \in Applier : Mine(q)' = Mine(q)
  PROVE  LeakInv'
BY DEF LeakInv

\* Every RPC keeps it: a lock granted is known to its run or lost, and a node leaves
\* what its run has locked only unlocked, in a user's hands or lost.
LEMMA LeakRpc ==
  ASSUME TypeOK, OrderInv, LeakInv, NEW r \in Run, NEW n \in Node, Rpc(r, n)
  PROVE  LeakInv'
<1>0. Applier \subseteq Run
  BY DEF Run
<1>1. CASE StateReply(r, n) \/ LastApplyReply(r, n)
  <2>1. PICK a : Receive(r, n, a)
    BY <1>1 DEF StateReply, LastApplyReply
  <2>2. phase[r] \in {"state", "lastApply"}
    BY <1>1 DEF StateReply, LastApplyReply, Asked, InPhase
  <2>3. UNCHANGED <<holder, late, lost>>
    BY <1>1 DEF StateReply, LastApplyReply, env
  <2> QED
    BY <1>0, <2>1, <2>2, <2>3, MineReceived, LeakKept
<1>2. CASE LockReply(r, n)
  <2>1. phase[r] = "lock" /\ UNCHANGED <<late, lost>>
    BY <1>2 DEF LockReply, Asked, InPhase
  <2>2. r \in Applier
    BY <2>1 DEF OrderInv, Run
  <2>3. CASE holder[n] = "none"
    <3>1. Receive(r, n, "locked_by_user") /\ holder' = [holder EXCEPT ![n] = "root"]
      BY <1>2, <2>3 DEF LockReply
    <3>2. n \in Mine(r)' /\ \A q \in Applier : Mine(q) \subseteq Mine(q)'
      BY <1>0, <2>1, <3>1, MineReceived
    <3> QED
      BY <2>1, <2>2, <3>1, <3>2 DEF LeakInv, TypeOK
  <2>4. CASE holder[n] # "none"
    <3>1. Receive(r, n, "locked_by_another") /\ holder' = holder
      BY <1>2, <2>4 DEF LockReply
    <3>2. n \notin Mine(r)
      BY <1>2, <2>1 DEF LockReply, Asked, OrderInv, Orderly, Mine, InPhase, Answered
    <3>3. \A q \in Applier : Mine(q)' = Mine(q)
      BY <1>0, <2>1, <3>1, <3>2, MineReceived
    <3> QED
      BY <2>1, <3>1, <3>3, LeakKept
  <2> QED
    BY <2>3, <2>4
<1>3. CASE LockTimeout(r, n)
  <2>1. /\ phase[r] = "lock" /\ Receive(r, n, "error")
        /\ lost' = lost \cup {n} /\ late' \subseteq late \cup {n}
        /\ \A m \in Node \ {n} : holder'[m] = holder[m]
    BY <1>3 DEF LockTimeout, Asked, InPhase, TypeOK
  <2>2. \A q \in Applier : Mine(q) \subseteq Mine(q)' \cup {n}
    BY <1>0, <2>1, MineReceived
  <2> QED
    BY <2>1, <2>2 DEF LeakInv
<1>4. CASE ApplyStart(r, n)
  <2>1. \A q \in Run : Mine(q)' = Mine(q)
    BY <1>4, MineOf DEF ApplyStart
  <2> QED
    BY <1>0, <1>4, <2>1, LeakKept DEF ApplyStart, env
<1>5. CASE ApplyReply(r, n) \/ ApplyTimeout(r, n)
  <2>1. PICK a : Receive(r, n, a)
    BY <1>5 DEF ApplyReply, ApplyTimeout
  <2>2. phase[r] = "apply" /\ UNCHANGED <<holder, late, lost>>
    BY <1>5 DEF ApplyReply, ApplyTimeout, Asked, InPhase
  <2> QED
    BY <1>0, <2>1, <2>2, MineReceived, LeakKept
<1>6. CASE UnlockReply(r, n) \/ UnlockTimeout(r, n)
  <2>1. PICK a : Receive(r, n, a)
    BY <1>6 DEF UnlockReply, UnlockTimeout
  <2>2. /\ phase[r] \in {"unlock", "giveUp"} /\ late' = late /\ lost \subseteq lost'
        /\ \A m \in Node \ {n} : holder'[m] = holder[m]
        /\ holder'[n] # "root" \/ n \in lost'
    BY <1>6 DEF UnlockReply, UnlockTimeout, Unlocking, Asked, InPhase, TypeOK
  <2>3. \A q \in Applier : Mine(q) \subseteq Mine(q)' \cup {n}
    BY <1>0, <2>1, <2>2, MineReceived
  <2> QED
    BY <2>2, <2>3 DEF LeakInv
<1> QED
  BY <1>1, <1>2, <1>3, <1>4, <1>5, <1>6 DEF Rpc

\* Every action keeps the invariant.
LEMMA LeakStep == TypeOK /\ OrderInv /\ LeakInv /\ [Next]_vars => LeakInv'
<1> SUFFICES ASSUME TypeOK, OrderInv, LeakInv, [Next]_vars PROVE LeakInv'
  OBVIOUS
<1>0. Applier \subseteq Run
  BY DEF Run
<1>1. ASSUME NEW r \in Applier, Start(r) PROVE LeakInv'
  BY <1>0, <1>1, StartKeepsMine, LeakKept DEF Start, env
<1>2. CASE StartUnlockAll \/ Sigterm
  BY <1>2, UnlockAllKeepsMine, LeakKept DEF StartUnlockAll, Sigterm, env
<1>3. ASSUME NEW r \in Run, Step(r) PROVE LeakInv'
  <2>1. UNCHANGED <<holder, late, lost>>
    BY <1>3 DEF Step, Eligible, LastApplied, Locked, Applied, Unlocked, Finish, env
  <2> QED
    BY <1>0, <1>3, <2>1, StepKeepsMine, LeakKept
<1>4. ASSUME NEW r \in Run, NEW n \in Node, Rpc(r, n) PROVE LeakInv'
  BY <1>4, LeakRpc
<1>5. ASSUME NEW n \in Node, LateLock(n) PROVE LeakInv'
  <2>1. \A q \in Run : Mine(q)' = Mine(q)
    BY <1>5, OthersKeepMine
  <2> QED
    BY <1>0, <1>5, <2>1 DEF LateLock, LeakInv, TypeOK
<1>6. ASSUME NEW n \in Node, LateUnlock(n) \/ OrphanExit(n) \/ User(n) \/ Override(n)
      PROVE  LeakInv'
  <2>1. \A q \in Run : Mine(q)' = Mine(q)
    BY <1>6, OthersKeepMine
  <2>2. \A m \in Node : holder'[m] = "root" => holder[m] = "root"
    BY <1>6 DEF LateUnlock, OrphanExit, User, Override, TypeOK
  <2> QED
    BY <1>0, <1>6, <2>1, <2>2, LeakKept DEF LateUnlock, OrphanExit, User, Override
<1>7. CASE Crash \/ Exit
  BY <1>7 DEF Crash, Exit, Die, LeakInv
<1>8. CASE UNCHANGED vars
  <2>1. \A q \in Run : Mine(q)' = Mine(q)
    BY <1>8, OthersKeepMine
  <2> QED
    BY <1>0, <1>8, <2>1, LeakKept DEF vars, env
<1>9. scenario.hosts \subseteq Node
  BY ScenarioType DEF TypeOK
<1> QED
  BY <1>1, <1>2, <1>3, <1>4, <1>5, <1>6, <1>7, <1>8, <1>9 DEF Next

\* Whatever path runs take, a node that stays locked by root belongs to a run, or a
\* lock reply of it was lost or its hecklerd died.
THEOREM NoLockLeaked == Spec => []NoLeakedLock
<1>1. Init => LeakInv
  BY DEF Init, LeakInv
<1>2. LeakInv => NoLeakedLock
  BY DEF LeakInv, NoLeakedLock
<1> QED
  BY <1>1, <1>2, Typing, OrderKept, LeakStep, PTL DEF Spec

-----------------------------------------------------------------------------
(* Runs exclude each other.                                                *)

\* A run holds the lock it counts on, and no other run counts on it, except on nodes
\* whose lock was taken.
LockInv ==
  \A r \in Applier :
    /\ \A n \in Mine(r) \ taken : holder[n] = "root"
    /\ \A q \in Applier \ {r} : Mine(r) \cap Mine(q) \subseteq taken

\* A run waits for puppet on nodes only that it has locked and that have not answered.
PuppetInv ==
  \A r \in Applier :
    /\ phase[r] = "apply" => waiting[r] \subseteq ns[r].locked /\ running[r] \subseteq waiting[r]
    /\ phase[r] # "apply" => running[r] = {}

\* What it takes for a lock to be taken, and for a puppet process to be abandoned: an
\* unlock request that is late, a user who forces, or the death of hecklerd, without
\* which unlockAll never runs; an apply beyond its deadline, or a death.
CauseInv ==
  /\ taken # {} => scenario.overrides \/ scenario.deaths \/ "unlock" \in scenario.timeouts
  /\ lateUnlock # {} => "unlock" \in scenario.timeouts
  /\ ~scenario.deaths => daemon = "up" /\ phase[Unlocker] = "idle"
  /\ "apply" \notin scenario.timeouts /\ ~scenario.deaths => \A n \in Node : orphans[n] = 0

LEMMA MineAreNodes == ASSUME TypeOK, NEW r \in Run PROVE Mine(r) \subseteq Node
BY DEF Mine, Answered, TypeOK, Buckets

\* What runs hold stays theirs when nobody gains a lock and no lock that somebody still
\* counts on afterwards is removed, unless it counts as taken.
LEMMA LockKept ==
  ASSUME TypeOK, LockInv, taken \subseteq taken',
         \A q \in Applier : Mine(q)' \subseteq Mine(q),
         \A q \in Applier : \A n \in Mine(q)' \ taken' : holder'[n] = holder[n]
  PROVE  LockInv'
BY DEF LockInv

LEMMA TakenGrows ==
  ASSUME NEW n, TakeFromRun(n) \/ UNCHANGED taken PROVE taken \subseteq taken'
BY DEF TakeFromRun

\* Who removes a lock from outside takes it from all the runs that count on it.
LEMMA LockTakenAway ==
  ASSUME TypeOK, LockInv, NEW n \in Node, TakeFromRun(n),
         \A q \in Applier : Mine(q)' \subseteq Mine(q),
         \A m \in Node \ {n} : holder'[m] = holder[m]
  PROVE  LockInv'
<1>1. ASSUME NEW q \in Applier, NEW m \in Mine(q)' \ taken' PROVE holder'[m] = holder[m]
  <2>1. m \in Mine(q) /\ m \in Node
    BY <1>1, MineAreNodes DEF Run
  <2>2. CASE m = n
    BY <1>1, <2>1, <2>2 DEF TakeFromRun, Holders
  <2> QED
    BY <2>1, <2>2
<1> QED
  BY <1>1, LockKept, TakenGrows

\* An RPC keeps it: a lock is granted on a node that nobody has, and removed by the run
\* that has it, or else taken.
LEMMA LockRpc ==
  ASSUME TypeOK, OrderInv, LockInv, NEW r \in Run, NEW n \in Node, Rpc(r, n)
  PROVE  LockInv'
<1> USE UnlockerIsNoApplier
<1>1. CASE StateReply(r, n) \/ LastApplyReply(r, n) \/ ApplyReply(r, n) \/ ApplyTimeout(r, n)
  <2>1. PICK a : Receive(r, n, a)
    BY <1>1 DEF StateReply, LastApplyReply, ApplyReply, ApplyTimeout
  <2>2. /\ phase[r] \in {"state", "lastApply", "apply"} /\ UNCHANGED <<holder, taken>>
    BY <1>1 DEF StateReply, LastApplyReply, ApplyReply, ApplyTimeout, Asked, InPhase, env
  <2>3. \A q \in Applier : Mine(q)' = Mine(q)
    BY <2>1, <2>2, MineReceived
  <2> QED
    BY <2>2, <2>3, LockKept
<1>2. CASE ApplyStart(r, n)
  <2>1. \A q \in Run : Mine(q)' = Mine(q)
    BY <1>2, MineOf DEF ApplyStart
  <2> QED
    BY <1>2, <2>1, LockKept DEF ApplyStart, env
<1>3. CASE LockReply(r, n) /\ holder[n] = "none"
  <2>1. /\ Receive(r, n, "locked_by_user") /\ holder' = [holder EXCEPT ![n] = "root"]
        /\ phase[r] = "lock" /\ taken' = taken
    BY <1>3 DEF LockReply, Asked, InPhase
  <2>2. Mine(r)' = Mine(r) \cup {n} /\ \A q \in Applier \ {r} : Mine(q)' = Mine(q)
    BY <2>1, MineReceived
  <2>3. \A q \in Applier : n \in Mine(q) => n \in taken
    BY <1>3 DEF LockInv
  <2>4. \A m \in Node : holder'[m] = IF m = n THEN "root" ELSE holder[m]
    BY <2>1 DEF TypeOK
  <2>5. \A q \in Applier : Mine(q) \subseteq Node
    BY MineAreNodes
  <2>6. r \in Applier
    BY <2>1 DEF OrderInv, Run
  <2>7. ASSUME NEW q \in Applier, NEW m \in Mine(q)' \ taken' PROVE holder'[m] = "root"
    BY <2>1, <2>2, <2>4, <2>5, <2>7 DEF LockInv
  <2>8. ASSUME NEW p \in Applier, NEW q \in Applier \ {p}, NEW m \in Mine(p)' \cap Mine(q)'
        PROVE  m \in taken'
    <3>1. CASE m # n
      BY <2>1, <2>2, <2>8, <3>1 DEF LockInv
    <3>2. CASE m = n
      BY <2>1, <2>2, <2>3, <2>8, <3>2
    <3> QED
      BY <3>1, <3>2
  <2> QED
    BY <2>7, <2>8 DEF LockInv
<1>4. CASE (LockReply(r, n) /\ holder[n] # "none") \/ LockTimeout(r, n)
  <2>1. PICK a : Receive(r, n, a) /\ a # "locked_by_user"
    BY <1>4 DEF LockReply, LockTimeout
  <2>2. phase[r] = "lock" /\ taken' = taken /\ (holder[n] # "none" => holder' = holder)
        /\ \A m \in Node \ {n} : holder'[m] = holder[m]
    BY <1>4 DEF LockReply, LockTimeout, Asked, InPhase, TypeOK
  <2>3. \A q \in Applier : Mine(q)' \subseteq Mine(q)
    BY <2>1, <2>2, MineReceived
  <2>4. ASSUME NEW q \in Applier, NEW m \in Mine(q)' \ taken' PROVE holder'[m] = holder[m]
    <3>1. m \in Node /\ holder[m] = "root"
      BY <2>2, <2>3, <2>4, MineAreNodes DEF LockInv
    <3> QED
      BY <2>2, <3>1
  <2> QED
    BY <2>2, <2>3, <2>4, LockKept
<1>5. CASE UnlockReply(r, n) \/ UnlockTimeout(r, n)
  <2>1. PICK a : Receive(r, n, a)
    BY <1>5 DEF UnlockReply, UnlockTimeout
  <2>2. /\ phase[r] \in {"unlock", "giveUp"} /\ n \in waiting[r]
        /\ \A m \in Node \ {n} : holder'[m] = holder[m]
    BY <1>5 DEF UnlockReply, UnlockTimeout, Unlocking, Asked, InPhase, TypeOK
  <2>3. \A q \in Applier : Mine(q)' \subseteq Mine(q)
    BY <2>1, <2>2, MineReceived
  <2>4. CASE r = Unlocker
    <3>1. TakeFromRun(n) \/ UNCHANGED <<holder, taken>>
      BY <1>5, <2>4 DEF UnlockReply, UnlockTimeout
    <3> QED
      BY <2>2, <2>3, <3>1, LockTakenAway, LockKept
  <2>5. CASE r # Unlocker
    <3>1. r \in Applier /\ taken' = taken
      BY <1>5, <2>5 DEF UnlockReply, UnlockTimeout, Run
    <3>2. n \in Mine(r) /\ Mine(r)' = Mine(r) \ {n}
      BY <2>1, <2>2, MineReceived DEF Mine, InPhase
    <3>3. ASSUME NEW q \in Applier, NEW m \in Mine(q)' \ taken' PROVE holder'[m] = holder[m]
      BY <2>2, <2>3, <3>1, <3>2, <3>3, MineAreNodes DEF LockInv
    <3> QED
      BY <2>3, <3>1, <3>3, LockKept
  <2> QED
    BY <2>4, <2>5
<1> QED
  BY <1>1, <1>2, <1>3, <1>4, <1>5 DEF Rpc

\* The end of hecklerd leaves no run that counts on a lock.
LEMMA DieForgets == ASSUME Die PROVE \A q \in Run : Mine(q)' = {}
BY DEF Die, Mine, InPhase

\* Every action keeps it.
LEMMA LockNext == TypeOK /\ OrderInv /\ LockInv /\ [Next]_vars => LockInv'
<1> SUFFICES ASSUME TypeOK, OrderInv, LockInv, [Next]_vars PROVE LockInv'
  OBVIOUS
<1> USE UnlockerIsNoApplier
<1>1. ASSUME NEW r \in Applier, Start(r) PROVE LockInv'
  BY <1>1, StartKeepsMine, LockKept DEF Start, env
<1>2. CASE StartUnlockAll \/ Sigterm
  BY <1>2, UnlockAllKeepsMine, LockKept DEF StartUnlockAll, Sigterm, env
<1>3. ASSUME NEW r \in Run, Step(r) PROVE LockInv'
  <2>1. UNCHANGED <<holder, taken>>
    BY <1>3 DEF Step, Eligible, LastApplied, Locked, Applied, Unlocked, Finish, env
  <2> QED
    BY <1>3, <2>1, StepKeepsMine, LockKept
<1>4. ASSUME NEW r \in Run, NEW n \in Node, Rpc(r, n) PROVE LockInv'
  BY <1>4, LockRpc
<1>5. ASSUME NEW n \in Node, LateLock(n) \/ OrphanExit(n) \/ User(n) PROVE LockInv'
  <2>1. \A q \in Run : Mine(q)' = Mine(q)
    BY <1>5, OthersKeepMine
  <2>2. \A m \in Node : holder[m] = "root" => holder'[m] = "root"
    BY <1>5 DEF LateLock, OrphanExit, User, TypeOK
  <2>3. taken' = taken
    BY <1>5 DEF LateLock, OrphanExit, User
  <2>4. \A q \in Applier : Mine(q) \subseteq Node
    BY MineAreNodes
  <2> QED
    BY <2>1, <2>2, <2>3, <2>4, LockKept DEF LockInv
<1>6. ASSUME NEW n \in Node, LateUnlock(n) \/ Override(n) PROVE LockInv'
  <2>1. \A q \in Run : Mine(q)' = Mine(q)
    BY <1>6, OthersKeepMine
  <2>2. TakeFromRun(n) \/ UNCHANGED <<holder, taken>>
    BY <1>6 DEF LateUnlock, Override
  <2>3. \A m \in Node \ {n} : holder'[m] = holder[m]
    BY <1>6 DEF LateUnlock, Override, TypeOK
  <2> QED
    BY <2>1, <2>2, <2>3, LockTakenAway, LockKept
<1>7. CASE Crash \/ Exit
  BY <1>7, DieForgets DEF Crash, Exit, LockInv
<1>8. CASE UNCHANGED vars
  BY <1>8, OthersKeepMine, LockKept DEF vars, env
<1>9. scenario.hosts \subseteq Node
  BY ScenarioType DEF TypeOK
<1> QED
  BY <1>1, <1>2, <1>3, <1>4, <1>5, <1>6, <1>7, <1>8, <1>9 DEF Next

LEMMA LocksAreOwn == Spec => []LockInv
<1>1. Init => LockInv
  BY UnlockerIsNoApplier DEF Init, LockInv, Mine, InPhase
<1> QED
  BY <1>1, Typing, OrderKept, LockNext, PTL DEF Spec

-----------------------------------------------------------------------------
(* Puppet runs on locked nodes only.                                       *)

\* Entering a phase changes the phase of its run only.
LEMMA EnteredPhase ==
  ASSUME TypeOK, NEW r \in Run, NEW p, NEW b, NEW sent, Enter(r, p, b, sent)
  PROVE  /\ phase'[r] = p /\ waiting'[r] = sent /\ ns'[r] = b
         /\ \A q \in Run \ {r} : phase'[q] = phase[q] /\ waiting'[q] = waiting[q]
         /\ \A q \in Run \ {r} : ns'[q] = ns[q]
BY DEF TypeOK, Enter

\* Only Locked enters apply, with an RPC to each node it has locked.
LEMMA PuppetEntered ==
  ASSUME TypeOK, PuppetInv, NEW r \in Run, NEW p, NEW b, NEW sent, Enter(r, p, b, sent),
         UNCHANGED running, phase[r] # "apply" \/ waiting[r] = {},
         p = "apply" => sent \subseteq b.locked
  PROVE  PuppetInv'
<1>1. r \in Applier => running[r] = {}
  BY DEF PuppetInv
<1> QED
  BY <1>1, EnteredPhase, UnlockerIsNoApplier DEF PuppetInv

LEMMA PuppetStep ==
  ASSUME TypeOK, PuppetInv, NEW r \in Run, Step(r)
  PROVE  PuppetInv'
<1>1. UNCHANGED running /\ (phase[r] # "apply" \/ waiting[r] = {})
  BY DEF Step, Eligible, LastApplied, Locked, Applied, Unlocked, Finish, Complete, InPhase, env
<1>2. CASE Locked(r)
  <2> DEFINE locked == Answered(r, {"locked_by_user"})
             b == [ns[r] EXCEPT !.active = locked, !.locked = locked,
                     !.errored = @ \cup Answered(r, {"error"}),
                     !.lockedByAnother = Answered(r, {"locked_by_another"})]
  <2>1. b.locked = locked
    BY DEF TypeOK, Buckets
  <2>2. Enter(r, "giveUp", b, locked) \/ Enter(r, "apply", b, locked)
    BY <1>2 DEF Locked
  <2> HIDE DEF b, locked
  <2> QED
    BY <1>1, <2>1, <2>2, PuppetEntered
<1>3. CASE Eligible(r) \/ LastApplied(r) \/ Applied(r) \/ Unlocked(r) \/ Finish(r)
  <2>1. PICK p, b, sent : Enter(r, p, b, sent) /\ p # "apply"
    BY <1>3 DEF Eligible, LastApplied, Applied, Unlocked, Finish
  <2> QED
    BY <1>1, <2>1, PuppetEntered
<1> QED
  BY <1>2, <1>3 DEF Step

\* A run starts puppet on a node that it waits for, and waits for no other answer of it
\* than puppet's.
LEMMA PuppetRpc ==
  ASSUME TypeOK, OrderInv, PuppetInv, NEW r \in Run, NEW n \in Node, Rpc(r, n)
  PROVE  PuppetInv'
<1> USE UnlockerIsNoApplier
<1>1. phase' = phase /\ ns' = ns /\ n \in waiting[r]
  BY DEF Rpc, StateReply, LastApplyReply, LockReply, LockTimeout, Unlocking, Asked,
         ApplyStart, ApplyReply, ApplyTimeout, UnlockReply, UnlockTimeout, Receive
<1>2. CASE ApplyStart(r, n)
  BY <1>1, <1>2 DEF ApplyStart, Asked, InPhase, PuppetInv, TypeOK
<1>3. CASE ApplyReply(r, n) \/ ApplyTimeout(r, n)
  <2>1. /\ waiting' = [waiting EXCEPT ![r] = @ \ {n}]
        /\ running' = [running EXCEPT ![r] = @ \ {n}] /\ phase[r] = "apply"
    BY <1>3 DEF ApplyReply, ApplyTimeout, Receive, Asked, InPhase
  <2> QED
    BY <1>1, <2>1 DEF PuppetInv, TypeOK
<1>4. CASE \/ StateReply(r, n) \/ LastApplyReply(r, n) \/ LockReply(r, n)
           \/ LockTimeout(r, n) \/ UnlockReply(r, n) \/ UnlockTimeout(r, n)
  <2>1. /\ waiting' = [waiting EXCEPT ![r] = @ \ {n}] /\ running' = running
        /\ phase[r] # "apply"
    BY <1>4 DEF StateReply, LastApplyReply, LockReply, LockTimeout, UnlockReply,
                UnlockTimeout, Unlocking, Receive, Asked, InPhase, env
  <2> QED
    BY <1>1, <2>1 DEF PuppetInv, TypeOK
<1> QED
  BY <1>2, <1>3, <1>4 DEF Rpc

LEMMA PuppetNext == TypeOK /\ OrderInv /\ PuppetInv /\ [Next]_vars => PuppetInv'
<1> SUFFICES ASSUME TypeOK, OrderInv, PuppetInv, [Next]_vars PROVE PuppetInv'
  OBVIOUS
<1> USE UnlockerIsNoApplier
<1>1. ASSUME NEW r \in Applier, Start(r) PROVE PuppetInv'
  <2>1. PICK p, b, sent : Enter(r, p, b, sent) /\ p # "apply"
    BY <1>1 DEF Start
  <2> QED
    BY <1>1, <2>1, PuppetEntered DEF Start, InPhase
<1>2. CASE StartUnlockAll
  <2>1. PICK p, b, sent : UnlockAllEnters(p, b, sent)
    BY <1>2, UnlockAllStarts
  <2>2. p # "apply" /\ Enter(Unlocker, p, b, sent) /\ running' = running /\ phase[Unlocker] # "apply"
    BY <1>2, <2>1 DEF UnlockAllEnters, StartUnlockAll, InPhase
  <2> QED
    BY <2>2, PuppetEntered, UnlockerIsNoApplier
<1>3. ASSUME NEW r \in Run, Step(r) PROVE PuppetInv'
  BY <1>3, PuppetStep
<1>4. ASSUME NEW r \in Run, NEW n \in Node, Rpc(r, n) PROVE PuppetInv'
  BY <1>4, PuppetRpc
<1>5. CASE Crash \/ Exit
  BY <1>5 DEF Crash, Exit, Die, PuppetInv
<1>6. CASE Sigterm
  BY <1>6 DEF Sigterm, PuppetInv, TypeOK, env
<1>7. CASE \/ \E n \in scenario.hosts : \/ LateLock(n) \/ LateUnlock(n) \/ OrphanExit(n)
                                        \/ User(n) \/ Override(n)
           \/ UNCHANGED vars
  BY <1>7 DEF LateLock, LateUnlock, OrphanExit, User, Override, vars, PuppetInv
<1>8. scenario.hosts \subseteq Node
  BY ScenarioType DEF TypeOK
<1> QED
  BY <1>1, <1>2, <1>3, <1>4, <1>5, <1>6, <1>7 DEF Next

LEMMA PuppetsAreAwaited == Spec => []PuppetInv
<1>1. Init => PuppetInv
  BY UnlockerIsNoApplier DEF Init, PuppetInv
<1> QED
  BY <1>1, Typing, OrderKept, PuppetNext, PTL DEF Spec

LEMMA RunningIsMine ==
  ASSUME PuppetInv, NEW r \in Applier PROVE running[r] \subseteq Mine(r)
BY DEF PuppetInv, Mine, InPhase

-----------------------------------------------------------------------------
(* What it takes for a lock to be taken or a puppet process abandoned.     *)

LEMMA CauseRpc ==
  ASSUME TypeOK, OrderInv, PuppetInv, CauseInv, NEW r \in Run, NEW n \in Node, Rpc(r, n)
  PROVE  CauseInv'
<1>1. UNCHANGED <<phase, daemon, scenario>>
  BY DEF Rpc, StateReply, LastApplyReply, LockReply, LockTimeout, env,
         ApplyStart, ApplyReply, ApplyTimeout, UnlockReply, UnlockTimeout, Receive
<1>2. CASE \/ StateReply(r, n) \/ LastApplyReply(r, n) \/ LockReply(r, n)
           \/ LockTimeout(r, n) \/ ApplyStart(r, n) \/ ApplyReply(r, n)
  <2>1. UNCHANGED <<taken, lateUnlock, orphans>>
    BY <1>2 DEF StateReply, LastApplyReply, LockReply, LockTimeout, ApplyStart, ApplyReply, env
  <2> QED
    BY <1>1, <2>1 DEF CauseInv
<1>3. CASE ApplyTimeout(r, n)
  BY <1>1, <1>3 DEF ApplyTimeout, CauseInv
<1>4. CASE UnlockReply(r, n)
  <2>1. UNCHANGED <<lateUnlock, orphans>>
    BY <1>4 DEF UnlockReply
  <2>2. taken' = taken \/ (r = Unlocker /\ phase[r] # "idle")
    BY <1>4 DEF UnlockReply, Unlocking, Asked, InPhase
  <2> QED
    BY <1>1, <2>1, <2>2 DEF CauseInv
<1>5. CASE UnlockTimeout(r, n)
  BY <1>1, <1>5 DEF UnlockTimeout, CauseInv
<1> QED
  BY <1>2, <1>3, <1>4, <1>5 DEF Rpc

LEMMA CauseNext ==
  TypeOK /\ OrderInv /\ PuppetInv /\ CauseInv /\ [Next]_vars => CauseInv'
<1> SUFFICES ASSUME TypeOK, OrderInv, PuppetInv, CauseInv, [Next]_vars PROVE CauseInv'
  OBVIOUS
<1> USE UnlockerIsNoApplier
<1>1. ASSUME NEW r \in Applier, Start(r) PROVE CauseInv'
  <2>1. PICK p, b, sent : Enter(r, p, b, sent)
    BY <1>1 DEF Start
  <2> QED
    BY <1>1, <2>1, EnteredPhase DEF Start, env, CauseInv
<1>2. CASE StartUnlockAll
  BY <1>2 DEF StartUnlockAll, env, CauseInv
<1>3. ASSUME NEW r \in Run, Step(r) PROVE CauseInv'
  <2>1. PICK p, b, sent : Enter(r, p, b, sent)
    BY <1>3 DEF Step, Eligible, LastApplied, Locked, Applied, Unlocked, Finish
  <2>2. UNCHANGED env
    BY <1>3 DEF Step, Eligible, LastApplied, Locked, Applied, Unlocked, Finish
  <2>3. r = Unlocker => phase[Unlocker] # "idle"
    BY <1>3 DEF Step, Eligible, LastApplied, Locked, Applied, Unlocked, Finish, Complete, InPhase
  <2>4. daemon' = daemon \/ r = Unlocker
    BY <1>3 DEF Step, Eligible, LastApplied, Locked, Applied, Unlocked, Finish
  <2>5. r # Unlocker => phase'[Unlocker] = phase[Unlocker]
    BY <2>1, EnteredPhase
  <2> QED
    BY <2>2, <2>3, <2>4, <2>5 DEF env, CauseInv
<1>4. ASSUME NEW r \in Run, NEW n \in Node, Rpc(r, n) PROVE CauseInv'
  BY <1>4, CauseRpc
<1>5. CASE Crash \/ Exit
  <2>1. scenario.deaths
    BY <1>5 DEF Crash, Exit, CauseInv
  <2>2. /\ taken' = {} /\ scenario' = scenario
        /\ lateUnlock' # {} => lateUnlock # {} \/ "unlock" \in scenario.timeouts
    BY <1>5 DEF Crash, Exit, Die
  <2> QED
    BY <2>1, <2>2 DEF CauseInv
<1>6. CASE Sigterm
  BY <1>6 DEF Sigterm, CauseInv, env
<1>7. ASSUME NEW n \in Node, LateLock(n) \/ User(n) \/ OrphanExit(n) PROVE CauseInv'
  BY <1>7 DEF LateLock, User, OrphanExit, CauseInv
<1>8. ASSUME NEW n \in Node, LateUnlock(n) \/ Override(n) PROVE CauseInv'
  BY <1>8 DEF LateUnlock, Override, CauseInv
<1>9. CASE UNCHANGED vars
  BY <1>9 DEF vars, env, CauseInv
<1>10. scenario.hosts \subseteq Node
  BY ScenarioType DEF TypeOK
<1> QED
  BY <1>1, <1>2, <1>3, <1>4, <1>5, <1>6, <1>7, <1>8, <1>9, <1>10 DEF Next

LEMMA CausesAreKnown == Spec => []CauseInv
<1>1. Init => CauseInv
  BY UnlockerIsNoApplier DEF Init, CauseInv
<1> QED
  BY <1>1, Typing, OrderKept, PuppetsAreAwaited, CauseNext, PTL DEF Spec

\* Runs of the loop and of the command line, any number of them at once, never have the
\* lock of the same node, and each has it until its puppet process has been answered,
\* whatever is lost and however often hecklerd dies, except where it was taken.
THEOREM RunsAreExclusive == Spec => []RunsExclude
<1>1. LockInv /\ PuppetInv /\ CauseInv => RunsExclude
  <2> SUFFICES ASSUME LockInv, PuppetInv, CauseInv PROVE RunsExclude
    OBVIOUS
  <2>1. taken # {} =>
          scenario.overrides \/ scenario.deaths \/ "unlock" \in scenario.timeouts
    BY DEF CauseInv
  <2> QED
    BY <2>1, RunningIsMine DEF RunsExclude, LockInv
<1> QED
  BY <1>1, LocksAreOwn, PuppetsAreAwaited, CausesAreKnown, PTL

\* Nor do the puppet processes of two runs run on one node then, nor one of a run beside
\* one that nobody waits for, as long as nothing abandons any.
THEOREM OnePuppet == Spec => []OnePuppetPerNode
<1>1. TypeOK /\ OrderInv /\ LockInv /\ PuppetInv /\ CauseInv => OnePuppetPerNode
  <2> SUFFICES ASSUME TypeOK, OrderInv, LockInv, PuppetInv, CauseInv,
                      NEW n \in Node \ taken
               PROVE  LET puppets == Cardinality({r \in Run : n \in running[r]})
                      IN /\ puppets <= 1
                         /\ "apply" \notin scenario.timeouts /\ ~scenario.deaths
                              => orphans[n] + puppets <= 1
    BY DEF OnePuppetPerNode
  <2> DEFINE R == {r \in Run : n \in running[r]}
  <2>1. "apply" \notin scenario.timeouts /\ ~scenario.deaths => orphans[n] = 0
    BY DEF CauseInv
  <2>2. \A r \in R : r \in Applier /\ n \in Mine(r)
    BY RunningIsMine DEF OrderInv, Run
  <2>3. \A r, q \in R : r = q
    BY <2>2 DEF LockInv
  <2>4. Cardinality(R) \in {0, 1}
    <3>1. CASE R = {}
      BY <3>1, FS_EmptySet
    <3>2. CASE R # {}
      <4>1. PICK r : R = {r}
        BY <2>3, <3>2
      <4> QED
        BY <4>1, FS_Singleton
    <3> QED
      BY <3>1, <3>2
  <2>5. /\ Cardinality(R) <= 1
        /\ "apply" \notin scenario.timeouts /\ ~scenario.deaths
             => orphans[n] + Cardinality(R) <= 1
    <3> HIDE DEF R
    <3> QED
      BY <2>1, <2>4
  <2> QED
    BY <2>5
<1> QED
  BY <1>1, Typing, OrderKept, LocksAreOwn, PuppetsAreAwaited, CausesAreKnown, PTL

-----------------------------------------------------------------------------
(* The runs keep the promise of NodeOwnership on every node.               *)

\* What step a node makes in NodeOwnership, or none.
OwnStep(n) == UNCHANGED <<Owner(n), Busy(n)>> \/ Own(n)!Next

\* A node keeps its owner while the same runs count on it, and what they wait for and
\* who has the lock stay as they are.
LEMMA OwnKept ==
  ASSUME NEW n, Holders(n)' = Holders(n), n \in taken' <=> n \in taken,
         n \in taken \/ Holders(n) # {} \/ holder'[n] = holder[n],
         \A q \in Applier : n \in running'[q] <=> n \in running[q]
  PROVE  OwnStep(n)
<1>1. Owner(n)' = Owner(n)
  <2>1. CASE n \in taken
    BY <2>1 DEF Owner
  <2>2. CASE n \notin taken /\ Holders(n) # {}
    <3>1. AHolder(n)' = AHolder(n)
      BY Zenon DEF AHolder
    <3> QED
      BY <2>2, <3>1 DEF Owner
  <2>3. CASE n \notin taken /\ Holders(n) = {}
    BY <2>3 DEF Owner
  <2> QED
    BY <2>1, <2>2, <2>3
<1>2. Busy(n)' <=> Busy(n)
  BY DEF Busy
<1>3. Busy(n) \in BOOLEAN /\ Busy(n)' \in BOOLEAN
  BY DEF Busy
<1> QED
  BY <1>1, <1>2, <1>3 DEF OwnStep

\* A contested node stays so as long as hecklerd lives.
LEMMA ContestedStays ==
  ASSUME NEW n, n \in taken, n \in taken' PROVE OwnStep(n)
BY DEF OwnStep, Owner, Busy

LEMMA HoldersKept ==
  ASSUME NEW n, \A q \in Applier : n \in Mine(q)' <=> n \in Mine(q)
  PROVE  Holders(n)' = Holders(n)
BY DEF Holders

\* Only one run counts on a node that is not contested, and it has the lock.
LEMMA OneHolder ==
  ASSUME LockInv, NEW n, n \notin taken, NEW r \in Applier, n \in Mine(r)
  PROVE  Holders(n) = {r} /\ Owner(n) = r /\ holder[n] = "root"
<1>1. Holders(n) = {r}
  BY DEF LockInv, Holders
<1> QED
  BY <1>1 DEF Owner, AHolder, LockInv

LEMMA NoHolder ==
  ASSUME PuppetInv, NEW n, n \notin taken, Holders(n) = {}, holder[n] \in {"none", "root", "user"}
  PROVE  /\ Owner(n) = IF holder[n] = "none" THEN "free"
                       ELSE IF holder[n] = "root" THEN "stray" ELSE "user"
         /\ ~Busy(n)
BY RunningIsMine DEF Owner, Busy, Holders

\* While nobody counts on a node, only whoever has its lock changes.
LEMMA NobodysStep ==
  ASSUME PuppetInv, PuppetInv', NEW n, n \notin taken, n \notin taken',
         Holders(n) = {}, Holders(n)' = {},
         holder[n] \in {"none", "root", "user"}, holder'[n] \in {"none", "root", "user"},
         holder[n] = "user" => holder'[n] # "root"
  PROVE  OwnStep(n)
<1>1. ~Busy(n) /\ ~Busy(n)'
  BY NoHolder, RunningIsMine DEF Busy, Holders, PuppetInv, Mine, InPhase
<1>2. /\ Owner(n) = IF holder[n] = "none" THEN "free"
                    ELSE IF holder[n] = "root" THEN "stray" ELSE "user"
      /\ Owner(n)' = IF holder'[n] = "none" THEN "free"
                     ELSE IF holder'[n] = "root" THEN "stray" ELSE "user"
  BY DEF Owner
<1>3. Busy(n)' = Busy(n)
  BY <1>1 DEF Busy
<1> QED
  BY <1>1, <1>2, <1>3
     DEF OwnStep, Own!Next, Own!Stray, Own!Clear, Own!UserLocks, Own!UserUnlocks

LEMMA TakenAwayStep ==
  ASSUME NEW n, n \notin taken, n \in taken', Holders(n) # {}
  PROVE  OwnStep(n)
<1>1. PICK r \in Applier : Owner(n) = r
  BY DEF Owner, AHolder, Holders
<1>2. Owner(n)' = "contested" /\ Busy(n)' = FALSE
  BY DEF Owner, Busy
<1> QED
  BY <1>1, <1>2 DEF OwnStep, Own!Next, Own!TakeAway

\* Who removes a lock from outside frees a node that nobody counts on, or makes it
\* contested.
LEMMA RemovalStep ==
  ASSUME PuppetInv, PuppetInv', NEW n \in Node, TakeFromRun(n), Holders(n)' = Holders(n),
         holder[n] = "root", holder'[n] \in {"none", "user"}
  PROVE  OwnStep(n)
<1>1. CASE n \in taken
  BY <1>1, ContestedStays DEF TakeFromRun
<1>2. CASE n \notin taken /\ Holders(n) # {}
  BY <1>2, TakenAwayStep DEF TakeFromRun
<1>3. CASE n \notin taken /\ Holders(n) = {}
  BY <1>3, NobodysStep DEF TakeFromRun
<1> QED
  BY <1>1, <1>2, <1>3

\* An RPC to another node changes nothing on this one.
LEMMA OwnElsewhere ==
  ASSUME TypeOK, NEW r \in Run, NEW m \in Node, Rpc(r, m), NEW n \in Node \ {m}
  PROVE  OwnStep(n)
<1>1. holder'[n] = holder[n]
  BY DEF Rpc, StateReply, LastApplyReply, LockReply, LockTimeout, env, TypeOK,
         ApplyStart, ApplyReply, ApplyTimeout, UnlockReply, UnlockTimeout
<1>2. n \in taken' <=> n \in taken
  BY DEF Rpc, StateReply, LastApplyReply, LockReply, LockTimeout, env, TakeFromRun,
         ApplyStart, ApplyReply, ApplyTimeout, UnlockReply, UnlockTimeout
<1>3. \A q \in Run : n \in running'[q] <=> n \in running[q]
  BY DEF Rpc, StateReply, LastApplyReply, LockReply, LockTimeout, env, TypeOK,
         ApplyStart, ApplyReply, ApplyTimeout, UnlockReply, UnlockTimeout
<1>4. (\E a : Receive(r, m, a)) \/ UNCHANGED <<phase, waiting, reply, ns>>
  BY DEF Rpc, StateReply, LastApplyReply, LockReply, LockTimeout,
         ApplyStart, ApplyReply, ApplyTimeout, UnlockReply, UnlockTimeout
<1>5. \A q \in Run : n \in Mine(q)' <=> n \in Mine(q)
  <2>1. CASE \E a : Receive(r, m, a)
    BY <2>1, MineReceived
  <2>2. CASE UNCHANGED <<phase, waiting, reply, ns>>
    BY <2>2, MineOf
  <2> QED
    BY <1>4, <2>1, <2>2
<1>6. Holders(n)' = Holders(n)
  BY <1>5, UnlockerIsNoApplier, HoldersKept
<1> QED
  BY <1>1, <1>2, <1>3, <1>6, UnlockerIsNoApplier, OwnKept

\* A run's owner starts puppet on it, and gets its answer.
LEMMA OwnApply ==
  ASSUME TypeOK, OrderInv, LockInv, PuppetInv, LockInv', NEW r \in Run, NEW n \in Node,
         ApplyStart(r, n) \/ ApplyReply(r, n) \/ ApplyTimeout(r, n)
  PROVE  OwnStep(n)
<1>1. /\ phase[r] = "apply" /\ n \in waiting[r] /\ r \in Applier
      /\ UNCHANGED <<taken, holder>>
  BY DEF ApplyStart, ApplyReply, ApplyTimeout, Asked, InPhase, env, OrderInv, Run
<1>2. n \in Mine(r)
  BY <1>1 DEF PuppetInv, Mine, InPhase
<1>3. \A q \in Run : Mine(q)' = Mine(q)
  <2>1. CASE ApplyStart(r, n)
    BY <2>1, MineOf DEF ApplyStart
  <2>2. CASE ApplyReply(r, n) \/ ApplyTimeout(r, n)
    <3>1. PICK a : Receive(r, n, a)
      BY <2>2 DEF ApplyReply, ApplyTimeout
    <3> QED
      BY <1>1, <3>1, MineReceived
  <2> QED
    BY <2>1, <2>2
<1>4. CASE n \in taken
  BY <1>1, <1>4, ContestedStays
<1>5. CASE n \notin taken
  <2>1. Owner(n) = r /\ Holders(n) = {r}
    BY <1>1, <1>2, <1>5, OneHolder
  <2>2. Owner(n)' = r
    <3>1. Holders(n)' = Holders(n)
      BY <1>3, HoldersKept, UnlockerIsNoApplier
    <3> QED
      BY <1>1, <1>5, <2>1, <3>1 DEF Owner, AHolder
  <2>3. Busy(n) <=> n \in running[r]
    BY <1>1, <1>2, <1>5, RunningIsMine DEF Busy, LockInv
  <2>4. \A q \in Applier \ {r} : running'[q] = running[q]
    BY UnlockerIsNoApplier DEF ApplyStart, ApplyReply, ApplyTimeout, TypeOK
  <2>5. Busy(n)' <=> n \in running'[r]
    BY <1>1, <1>2, <1>5, <2>4, RunningIsMine DEF Busy, LockInv
  <2>6. CASE ApplyStart(r, n)
    <3>1. ~Busy(n) /\ Busy(n)'
      BY <2>3, <2>5, <2>6 DEF ApplyStart, TypeOK
    <3>2. Busy(n)' = TRUE
      BY <3>1 DEF Busy
    <3> QED
      BY <1>1, <2>1, <2>2, <3>1, <3>2 DEF OwnStep, Own!Next, Own!StartPuppet
  <2>7. CASE ApplyReply(r, n) \/ ApplyTimeout(r, n)
    <3>1. ~Busy(n)'
      BY <2>5, <2>7 DEF ApplyReply, ApplyTimeout, TypeOK
    <3>2. Busy(n)' = FALSE
      BY <3>1 DEF Busy
    <3>3. CASE Busy(n)
      BY <1>1, <2>1, <2>2, <3>2, <3>3 DEF OwnStep, Own!Next, Own!EndPuppet
    <3>4. CASE ~Busy(n)
      BY <2>1, <2>2, <3>1, <3>4 DEF OwnStep, Busy
    <3> QED
      BY <3>3, <3>4
  <2> QED
    BY <2>6, <2>7
<1> QED
  BY <1>4, <1>5

\* A run takes a node that is free; a lost lock RPC may lock it for nobody.
LEMMA OwnLock ==
  ASSUME TypeOK, OrderInv, LockInv, PuppetInv, PuppetInv', LockInv', NEW r \in Run, NEW n \in Node,
         LockReply(r, n) \/ LockTimeout(r, n)
  PROVE  OwnStep(n)
<1>1. /\ phase[r] = "lock" /\ n \in waiting[r] /\ r \in Applier
      /\ UNCHANGED <<taken, running>>
  BY DEF LockReply, LockTimeout, Asked, InPhase, OrderInv, Run
<1>2. n \notin Mine(r)
  BY <1>1 DEF OrderInv, Orderly, Mine, InPhase, Answered
<1>3. PICK a : Receive(r, n, a)
  BY DEF LockReply, LockTimeout
<1>4. holder[n] \in {"none", "root", "user"}
  BY DEF TypeOK
<1>5. CASE n \in taken
  BY <1>1, <1>5, ContestedStays
<1>6. CASE n \notin taken /\ LockReply(r, n) /\ holder[n] = "none"
  <2>1. Receive(r, n, "locked_by_user") /\ holder'[n] = "root"
    BY <1>6 DEF LockReply, TypeOK
  <2>2. Holders(n) = {}
    BY <1>6 DEF LockInv, Holders
  <2>3. n \in Mine(r)'
    BY <1>1, <2>1, MineReceived
  <2>4. Owner(n) = "free" /\ ~Busy(n)
    BY <1>4, <1>6, <2>2, NoHolder
  <2>5. r \in Holders(n)' /\ Holders(n)' \subseteq {r}
    BY <1>1, <1>6, <2>3 DEF Holders, LockInv
  <2>6. Owner(n)' = r
    BY <1>1, <1>6, <2>5 DEF Owner, AHolder
  <2>7. Busy(n)' = Busy(n)
    BY <1>1 DEF Busy
  <2> QED
    BY <1>1, <2>4, <2>6, <2>7 DEF OwnStep, Own!Next, Own!Take
<1>7. CASE n \notin taken /\ (LockTimeout(r, n) \/ holder[n] # "none")
  <2>1. Receive(r, n, "locked_by_another") \/ Receive(r, n, "error")
    BY <1>7 DEF LockReply, LockTimeout
  <2>2. Holders(n)' = Holders(n)
    BY <1>1, <1>2, <2>1, MineReceived, HoldersKept, UnlockerIsNoApplier
  <2>3. \/ holder'[n] = holder[n]
        \/ holder[n] = "none" /\ holder'[n] = "root"
    BY <1>7 DEF LockReply, LockTimeout, TypeOK
  <2>4. holder[n] = "none" => Holders(n) = {}
    BY <1>7 DEF LockInv, Holders
  <2>5. CASE holder'[n] = holder[n]
    BY <1>1, <2>2, <2>5, OwnKept
  <2>6. CASE holder[n] = "none" /\ holder'[n] = "root"
    BY <1>1, <1>7, <2>2, <2>4, <2>6, NobodysStep
  <2> QED
    BY <2>3, <2>5, <2>6
<1> QED
  BY <1>5, <1>6, <1>7

\* A run gives back a node that its puppet has left; unlockAll may take one from a run.
LEMMA OwnUnlock ==
  ASSUME TypeOK, OrderInv, LockInv, PuppetInv, PuppetInv', LockInv', NEW r \in Run, NEW n \in Node,
         UnlockReply(r, n) \/ UnlockTimeout(r, n)
  PROVE  OwnStep(n)
<1>1. /\ phase[r] \in {"unlock", "giveUp"} /\ n \in waiting[r] /\ UNCHANGED running
  BY DEF UnlockReply, UnlockTimeout, Unlocking, Asked, InPhase
<1>2. PICK a : Receive(r, n, a)
  BY DEF UnlockReply, UnlockTimeout
<1>3. holder[n] \in {"none", "root", "user"} /\ taken \subseteq taken'
  BY TakenGrows DEF TypeOK, UnlockReply, UnlockTimeout
<1>4. CASE n \in taken
  BY <1>3, <1>4, ContestedStays
<1>5. CASE n \notin taken /\ r # Unlocker
  <2>1. r \in Applier /\ taken' = taken
    BY <1>5 DEF Run, UnlockReply, UnlockTimeout
  <2>2. n \in Mine(r)
    BY <1>1 DEF Mine, InPhase
  <2>3. Owner(n) = r /\ Holders(n) = {r} /\ holder[n] = "root"
    BY <1>5, <2>1, <2>2, OneHolder
  <2>4. ~Busy(n)
    BY <1>1, <1>5, <2>1, <2>2, RunningIsMine DEF Busy, PuppetInv, LockInv
  <2>5. n \notin Mine(r)' /\ \A q \in Applier \ {r} : Mine(q)' = Mine(q)
    BY <1>1, <1>2, MineReceived, UnlockerIsNoApplier
  <2>6. Holders(n)' = {}
    BY <2>3, <2>5 DEF Holders
  <2>7. holder'[n] \in {"none", "root"}
    BY <2>3 DEF UnlockReply, UnlockTimeout, TypeOK
  <2>8. Owner(n)' \in {"free", "stray"}
    BY <1>5, <2>1, <2>6, <2>7 DEF Owner
  <2>9. Busy(n)' = Busy(n)
    BY <1>1, <2>1 DEF Busy
  <2> QED
    BY <2>1, <2>3, <2>4, <2>8, <2>9 DEF OwnStep, Own!Next, Own!Leave
<1>6. CASE n \notin taken /\ r = Unlocker
  <2>1. Holders(n)' = Holders(n)
    BY <1>2, <1>6, MineReceived, HoldersKept, UnlockerIsNoApplier
  <2>2. \/ TakeFromRun(n) /\ holder'[n] = "none" /\ holder[n] # "user"
        \/ UNCHANGED <<holder, taken>>
    BY <1>6 DEF UnlockReply, UnlockTimeout, TypeOK
  <2>3. CASE UNCHANGED <<holder, taken>>
    BY <1>1, <2>1, <2>3, OwnKept
  <2>4. CASE TakeFromRun(n) /\ holder'[n] = "none" /\ holder[n] = "root"
    BY <2>1, <2>4, RemovalStep
  <2>5. CASE TakeFromRun(n) /\ holder'[n] = "none" /\ holder[n] = "none"
    <3>1. Holders(n) = {}
      BY <1>6, <2>5 DEF LockInv, Holders
    <3> QED
      BY <1>1, <2>1, <2>5, <3>1, OwnKept DEF TakeFromRun
  <2> QED
    BY <1>3, <2>2, <2>3, <2>4, <2>5
<1> QED
  BY <1>4, <1>5, <1>6

\* Users, late requests and processes without a caller change a node as they may.
LEMMA OwnOutside ==
  ASSUME TypeOK, LockInv, PuppetInv, PuppetInv', NEW n \in Node, NEW m \in Node,
         \/ LateLock(m) \/ LateUnlock(m) \/ OrphanExit(m) \/ User(m) \/ Override(m)
  PROVE  OwnStep(n)
<1>1. Holders(n)' = Holders(n) /\ UNCHANGED running
  BY OthersKeepMine, HoldersKept, UnlockerIsNoApplier
     DEF LateLock, LateUnlock, OrphanExit, User, Override
<1>2. CASE n # m
  <2>1. holder'[n] = holder[n] /\ (n \in taken' <=> n \in taken)
    BY <1>2 DEF LateLock, LateUnlock, OrphanExit, User, Override, TypeOK, TakeFromRun
  <2> QED
    BY <1>1, <2>1, OwnKept
<1>3. CASE n = m /\ (LateUnlock(n) \/ Override(n))
  <2>1. \/ TakeFromRun(n) /\ holder[n] = "root" /\ holder'[n] \in {"none", "user"}
        \/ UNCHANGED <<holder, taken>>
    BY <1>3 DEF LateUnlock, Override, TypeOK
  <2> QED
    BY <1>1, <2>1, RemovalStep, OwnKept
<1>4. CASE n = m /\ (LateLock(n) \/ OrphanExit(n) \/ User(n))
  <2>1. /\ taken' = taken
        /\ \/ holder'[n] = holder[n]
           \/ holder[n] = "none" /\ holder'[n] \in {"root", "user"}
           \/ holder[n] = "user" /\ holder'[n] = "none"
    BY <1>4 DEF LateLock, OrphanExit, User, TypeOK
  <2>2. CASE n \in taken \/ holder'[n] = holder[n]
    BY <1>1, <2>1, <2>2, OwnKept
  <2>3. CASE n \notin taken /\ holder[n] # "root" /\ holder'[n] # holder[n]
    <3>1. Holders(n) = {}
      BY <2>3 DEF LockInv, Holders
    <3> QED
      BY <1>1, <2>1, <2>3, <3>1, NobodysStep
  <2> QED
    BY <2>1, <2>2, <2>3
<1> QED
  BY <1>2, <1>3, <1>4

\* When hecklerd dies the nodes of its runs stay locked, and contested ones go to whoever
\* has their lock.
LEMMA OwnDie ==
  ASSUME TypeOK, LockInv, PuppetInv, NEW n \in Node, Die PROVE OwnStep(n)
<1>1. Holders(n)' = {} /\ taken' = {} /\ holder' = holder /\ Busy(n)' = FALSE
  BY DieForgets, UnlockerIsNoApplier DEF Holders, Die, Busy
<1>2. holder[n] \in {"none", "root", "user"}
  BY DEF TypeOK
<1>3. Owner(n)' = IF holder[n] = "none" THEN "free"
                  ELSE IF holder[n] = "root" THEN "stray" ELSE "user"
  BY <1>1, <1>2 DEF Owner
<1>4. CASE n \in taken
  BY <1>1, <1>3, <1>4 DEF OwnStep, Owner, Own!Next, Own!Die
<1>5. CASE n \notin taken /\ Holders(n) # {}
  <2>1. PICK r \in Applier : n \in Mine(r)
    BY <1>5 DEF Holders
  <2>2. Owner(n) = r /\ holder[n] = "root"
    BY <1>5, <2>1, OneHolder
  <2> QED
    BY <1>1, <1>3, <2>1, <2>2 DEF OwnStep, Own!Next, Own!Die
<1>6. CASE n \notin taken /\ Holders(n) = {}
  <2>1. Owner(n)' = Owner(n) /\ ~Busy(n)
    BY <1>2, <1>3, <1>6, NoHolder
  <2> QED
    BY <1>1, <2>1 DEF OwnStep, Busy
<1> QED
  BY <1>4, <1>5, <1>6

\* Every action is a step of NodeOwnership on every node, or none.
LEMMA OwnNext ==
  /\ TypeOK /\ OrderInv /\ LockInv /\ PuppetInv /\ LockInv' /\ PuppetInv'
  /\ [Next]_vars
  => \A n \in Node : OwnStep(n)
<1> SUFFICES ASSUME TypeOK, OrderInv, LockInv, PuppetInv, LockInv', PuppetInv',
                    [Next]_vars, NEW n \in Node
             PROVE  OwnStep(n)
  OBVIOUS
<1> USE UnlockerIsNoApplier
<1>1. ASSUME \A q \in Applier : Mine(q)' = Mine(q), UNCHANGED <<holder, taken, running>>
      PROVE  OwnStep(n)
  BY <1>1, HoldersKept, OwnKept
<1>2. ASSUME NEW r \in Applier, Start(r) PROVE OwnStep(n)
  BY <1>1, <1>2, StartKeepsMine DEF Start, env
<1>3. CASE StartUnlockAll \/ Sigterm
  BY <1>1, <1>3, UnlockAllKeepsMine DEF StartUnlockAll, Sigterm, env
<1>4. ASSUME NEW r \in Run, Step(r) PROVE OwnStep(n)
  <2>1. UNCHANGED <<holder, taken, running>>
    BY <1>4 DEF Step, Eligible, LastApplied, Locked, Applied, Unlocked, Finish, env
  <2> QED
    BY <1>1, <1>4, <2>1, StepKeepsMine
<1>5. ASSUME NEW r \in Run, NEW m \in Node, Rpc(r, m) PROVE OwnStep(n)
  <2>1. CASE n # m
    BY <1>5, <2>1, OwnElsewhere
  <2>2. CASE n = m /\ (StateReply(r, n) \/ LastApplyReply(r, n))
    <3>1. PICK a : Receive(r, n, a)
      BY <2>2 DEF StateReply, LastApplyReply
    <3>2. phase[r] \in {"state", "lastApply"} /\ UNCHANGED <<holder, taken, running>>
      BY <2>2 DEF StateReply, LastApplyReply, Asked, InPhase, env
    <3> QED
      BY <1>1, <3>1, <3>2, MineReceived
  <2>3. CASE n = m /\ (LockReply(r, n) \/ LockTimeout(r, n))
    BY <2>3, OwnLock
  <2>4. CASE n = m /\ (ApplyStart(r, n) \/ ApplyReply(r, n) \/ ApplyTimeout(r, n))
    BY <2>4, OwnApply
  <2>5. CASE n = m /\ (UnlockReply(r, n) \/ UnlockTimeout(r, n))
    BY <2>5, OwnUnlock
  <2> QED
    BY <1>5, <2>1, <2>2, <2>3, <2>4, <2>5 DEF Rpc
<1>6. ASSUME NEW m \in Node, \/ LateLock(m) \/ LateUnlock(m) \/ OrphanExit(m)
                             \/ User(m) \/ Override(m)
      PROVE  OwnStep(n)
  BY <1>6, OwnOutside
<1>7. CASE Crash \/ Exit
  BY <1>7, OwnDie DEF Crash, Exit
<1>8. CASE UNCHANGED vars
  BY <1>1, <1>8, OthersKeepMine DEF vars, env
<1>9. scenario.hosts \subseteq Node
  BY ScenarioType DEF TypeOK
<1> QED
  BY <1>2, <1>3, <1>4, <1>5, <1>6, <1>7, <1>8, <1>9 DEF Next

\* On every node, of any set and with any number of runs, hecklerd's phases, replies,
\* deadlines, deaths and restarts amount to NodeOwnership: a node is taken when it is
\* free, has one puppet of its owner at a time, and is given back after that.
THEOREM Ownership == Spec => ImplementsOwnership
<1>1. Init => \A n \in scenario.hosts : Own(n)!Init
  <2> SUFFICES ASSUME Init, NEW n \in scenario.hosts PROVE Own(n)!Init
    OBVIOUS
  <2>1. n \in Node
    BY ScenarioType DEF Init
  <2>2. taken = {} /\ holder[n] \in {"none", "user"} /\ Holders(n) = {}
    BY <2>1, UnlockerIsNoApplier DEF Init, Holders, Mine, InPhase
  <2>3. Owner(n) \in {"free", "user"} /\ Busy(n) = FALSE
    BY <2>2, UnlockerIsNoApplier DEF Init, Owner, Busy
  <2> QED
    BY <2>3 DEF Own!Init
<1>2. /\ TypeOK /\ OrderInv /\ LockInv /\ PuppetInv /\ LockInv' /\ PuppetInv'
      /\ [Next]_vars
      => \A n \in scenario.hosts : UNCHANGED <<Owner(n), Busy(n)>> \/ Own(n)!Next
  BY OwnNext, ScenarioType DEF OwnStep, TypeOK
<1> QED
  BY <1>1, <1>2, Typing, OrderKept, LocksAreOwn, PuppetsAreAwaited, PTL
     DEF Spec, ImplementsOwnership

-----------------------------------------------------------------------------
(* What a restarted hecklerd finds of the locks of the dead one.           *)

NothingLost == scenario.timeouts \cap {"lock", "unlock"} = {}

\* The locks of root that no run knows of are, from the moment unlockAll has sent its
\* RPCs, those it still waits for and those on nodes that it could not dial; they are all
\* on nodes of the set, and the loops start only after it is done, or has given up.
BootInv ==
  NothingLost =>
    /\ late = {}
    /\ daemon = "boot" => phase[Unlocker] \in {"idle", "unlock"}
    /\ \A n \in Node : holder[n] = "root" => n \in scenario.hosts
    /\ \A n \in Node :
         holder[n] = "root" /\ (daemon = "up" \/ (daemon = "boot" /\ phase[Unlocker] = "unlock")) =>
           \/ \E r \in Applier : n \in Mine(r)
           \/ n \in ns[Unlocker].errored
           \/ daemon = "boot" /\ n \in waiting[Unlocker]
           \/ daemon = "up" /\ Unlisted

\* A step that keeps the locks of root, what runs have locked and how far unlockAll is.
LEMMA BootKept ==
  ASSUME BootInv, UNCHANGED <<daemon, scenario, late>>,
         phase'[Unlocker] = phase[Unlocker], waiting'[Unlocker] = waiting[Unlocker],
         ns'[Unlocker] = ns[Unlocker],
         \A n \in Node : holder'[n] = "root" => holder[n] = "root",
         \A q \in Applier : Mine(q)' = Mine(q)
  PROVE  BootInv'
BY DEF BootInv, NothingLost, Unlisted, InPhase

\* The RPCs keep it: unlockAll's own unlock the node or find it a user's.
LEMMA BootRpc ==
  ASSUME TypeOK, OrderInv, BootInv, NEW r \in Run, NEW n \in Node, Rpc(r, n)
  PROVE  BootInv'
<1> USE UnlockerIsNoApplier
<1>0. SUFFICES ASSUME NothingLost PROVE BootInv'
  BY DEF BootInv, NothingLost, Rpc, StateReply, LastApplyReply, LockReply, LockTimeout,
         ApplyStart, ApplyReply, ApplyTimeout, UnlockReply, UnlockTimeout, env
<1>1. /\ daemon' = daemon /\ phase' = phase /\ scenario' = scenario /\ late' = late
      /\ ns' = ns /\ n \in waiting[r]
  BY <1>0 DEF Rpc, StateReply, LastApplyReply, LockReply, LockTimeout, Unlocking, Asked,
         ApplyStart, ApplyReply, ApplyTimeout, UnlockReply, UnlockTimeout, env, Receive,
         BootInv, NothingLost
<1>2. n \in scenario.hosts
  BY <1>1 DEF OrderInv, Orderly
<1> USE DEF NothingLost, Unlisted, InPhase
<1>3. CASE \/ StateReply(r, n) \/ LastApplyReply(r, n) \/ ApplyReply(r, n)
           \/ LockReply(r, n) /\ holder[n] # "none"
  <2>1. holder' = holder
    BY <1>3 DEF StateReply, LastApplyReply, ApplyReply, LockReply, env
  <2>2. PICK a : Receive(r, n, a) /\ (phase[r] = "lock" => a # "locked_by_user")
    <3>1. CASE LockReply(r, n) /\ holder[n] # "none"
      BY <3>1 DEF LockReply
    <3>2. CASE StateReply(r, n) \/ LastApplyReply(r, n) \/ ApplyReply(r, n)
      BY <3>2 DEF StateReply, LastApplyReply, ApplyReply, Asked, InPhase
    <3> QED
      BY <1>3, <3>1, <3>2
  <2>3. phase[r] \in {"state", "lastApply", "apply", "lock"} /\ r # Unlocker
    BY <1>3 DEF StateReply, LastApplyReply, ApplyReply, LockReply, Asked, InPhase, OrderInv
  <2>4. phase[r] = "lock" => n \notin Mine(r)
    BY <1>1 DEF OrderInv, Orderly, Mine, InPhase, Answered
  <2>5. \A q \in Applier : Mine(q)' = Mine(q)
    BY <2>2, <2>3, <2>4, MineReceived
  <2>6. waiting'[Unlocker] = waiting[Unlocker]
    BY <2>2, <2>3 DEF Receive, TypeOK
  <2> QED
    BY <1>1, <2>1, <2>5, <2>6, BootKept
<1>4. CASE LockReply(r, n) /\ holder[n] = "none"
  <2>1. /\ Receive(r, n, "locked_by_user") /\ phase[r] = "lock"
        /\ holder' = [holder EXCEPT ![n] = "root"]
    BY <1>4 DEF LockReply, Asked, InPhase
  <2>2. r \in Applier /\ waiting'[Unlocker] = waiting[Unlocker]
    BY <2>1 DEF OrderInv, Run, Receive, TypeOK
  <2>3. n \in Mine(r)' /\ \A q \in Applier : Mine(q) \subseteq Mine(q)'
    BY <2>1, MineReceived
  <2> QED
    BY <1>0, <1>1, <1>2, <2>1, <2>2, <2>3 DEF BootInv, TypeOK
<1>5. CASE ApplyStart(r, n)
  <2>1. \A q \in Run : Mine(q)' = Mine(q)
    BY <1>5, MineOf DEF ApplyStart
  <2> QED
    BY <1>1, <1>5, <2>1, BootKept DEF ApplyStart, env
<1>6. CASE UnlockReply(r, n)
  <2>1. PICK a : Receive(r, n, a)
    BY <1>6 DEF UnlockReply
  <2>2. /\ phase[r] \in {"unlock", "giveUp"} /\ holder'[n] # "root"
        /\ \A m \in Node \ {n} : holder'[m] = holder[m]
    BY <1>6 DEF UnlockReply, Unlocking, Asked, InPhase, TypeOK
  <2>3. \A q \in Applier : Mine(q) \subseteq Mine(q)' \cup {n}
    BY <2>1, <2>2, MineReceived
  <2>4. waiting[Unlocker] \subseteq waiting'[Unlocker] \cup {n}
    BY <2>1 DEF Receive, TypeOK
  <2> QED
    BY <1>0, <1>1, <2>2, <2>3, <2>4 DEF BootInv
<1>7. CASE ApplyTimeout(r, n)
  <2>1. PICK a : Receive(r, n, a) /\ phase[r] = "apply" /\ holder' = holder
    BY <1>7 DEF ApplyTimeout, Asked, InPhase
  <2>2. \A q \in Applier : Mine(q)' = Mine(q)
    BY <2>1, MineReceived
  <2>3. r # Unlocker
    BY <2>1 DEF OrderInv
  <2>4. waiting'[Unlocker] = waiting[Unlocker]
    BY <2>1, <2>3 DEF Receive, TypeOK
  <2> QED
    BY <1>1, <2>1, <2>2, <2>4, BootKept
<1>8. CASE LockTimeout(r, n) \/ UnlockTimeout(r, n)
  BY <1>0, <1>8 DEF LockTimeout, UnlockTimeout
<1> QED
  BY <1>3, <1>4, <1>5, <1>6, <1>7, <1>8 DEF Rpc

\* Every action keeps it.
LEMMA BootStep == TypeOK /\ OrderInv /\ BootInv /\ [Next]_vars => BootInv'
<1> SUFFICES ASSUME TypeOK, OrderInv, BootInv, [Next]_vars PROVE BootInv'
  OBVIOUS
<1> USE UnlockerIsNoApplier
<1>1. ASSUME NEW r \in Applier, Start(r) PROVE BootInv'
  <2>1. PICK p, b, sent : Enter(r, p, b, sent)
    BY <1>1 DEF Start
  <2>2. \A q \in Run \ {r} : phase'[q] = phase[q] /\ waiting'[q] = waiting[q] /\ ns'[q] = ns[q]
    BY <2>1, EnteredPhase
  <2> QED
    BY <1>1, <2>2, StartKeepsMine, BootKept DEF Start, env
<1>2. CASE StartUnlockAll
  <2>1. daemon \in {"boot", "stopping"} /\ UNCHANGED env
    BY <1>2 DEF StartUnlockAll
  <2>2. PICK p, b, sent : UnlockAllEnters(p, b, sent)
    BY <1>2, UnlockAllStarts
  <2>3. phase'[Unlocker] = p /\ ns'[Unlocker] = b /\ waiting'[Unlocker] = sent
    BY <2>2, EnteredPhase DEF UnlockAllEnters
  <2>4. CASE p = "done"
    BY <2>1, <2>2, <2>3, <2>4 DEF UnlockAllEnters, BootInv, NothingLost, env, Unlisted, InPhase
  <2>5. CASE p = "unlock"
    BY <2>1, <2>2, <2>3, <2>5 DEF UnlockAllEnters, BootInv, NothingLost, env
  <2> QED
    BY <2>2, <2>4, <2>5 DEF UnlockAllEnters
<1>3. ASSUME NEW r \in Run, Step(r) PROVE BootInv'
  <2>1. \A q \in Applier : Mine(q)' = Mine(q)
    BY <1>3, StepKeepsMine
  <2>2. UNCHANGED <<holder, late, scenario>>
    BY <1>3 DEF Step, Eligible, LastApplied, Locked, Applied, Unlocked, Finish, env
  <2>3. PICK p, b, sent : Enter(r, p, b, sent)
    BY <1>3 DEF Step, Eligible, LastApplied, Locked, Applied, Unlocked, Finish
  <2>4. CASE r # Unlocker
    <3>1. daemon' = daemon
      BY <1>3, <2>4 DEF Step, Eligible, LastApplied, Locked, Applied, Unlocked, Finish
    <3>2. /\ phase'[Unlocker] = phase[Unlocker] /\ waiting'[Unlocker] = waiting[Unlocker]
          /\ ns'[Unlocker] = ns[Unlocker]
      BY <2>3, <2>4, EnteredPhase
    <3> QED
      BY <2>1, <2>2, <3>1, <3>2, BootKept
  <2>5. CASE r = Unlocker
    <3>1. Unlocked(Unlocker) /\ waiting[Unlocker] = {} /\ phase[Unlocker] = "unlock"
      BY <1>3, <2>5 DEF Step, Eligible, LastApplied, Locked, Applied, Unlocked, Finish,
                        Complete, InPhase, OrderInv
    <3>2. daemon' = IF daemon = "boot" THEN "up" ELSE daemon
      BY <3>1 DEF Unlocked
    <3>3. ns[Unlocker].errored \subseteq ns'[Unlocker].errored
      <4>1. PICK c : /\ Enter(Unlocker, "done", c, {})
                     /\ \E active, more : c = [ns[Unlocker] EXCEPT
                                                !.active = active, !.locked = {},
                                                !.errored = @ \cup Answered(Unlocker, {"error"}),
                                                !.lockedByAnother = more]
        BY <3>1 DEF Unlocked
      <4>2. ns[Unlocker] \in Buckets
        BY DEF TypeOK
      <4>3. ns[Unlocker].errored \subseteq c.errored
        BY <4>1, <4>2 DEF Buckets
      <4> QED
        BY <4>1, <4>3, EnteredPhase
    <3>4. ~Unlisted
      BY <3>1 DEF Unlisted, InPhase
    <3> QED
      BY <2>1, <2>2, <3>1, <3>2, <3>3, <3>4 DEF BootInv, NothingLost, TypeOK
  <2> QED
    BY <2>4, <2>5
<1>4. ASSUME NEW r \in Run, NEW n \in Node, Rpc(r, n) PROVE BootInv'
  BY <1>4, BootRpc
<1>5. ASSUME NEW n \in Node, LateLock(n) PROVE BootInv'
  BY <1>5 DEF LateLock, BootInv, NothingLost
<1>6. ASSUME NEW n \in Node, LateUnlock(n) \/ OrphanExit(n) \/ User(n) \/ Override(n)
      PROVE  BootInv'
  <2>1. \A q \in Run : Mine(q)' = Mine(q)
    BY <1>6, OthersKeepMine
  <2>2. \A m \in Node : holder'[m] = "root" => holder[m] = "root"
    BY <1>6 DEF LateUnlock, OrphanExit, User, Override, TypeOK
  <2> QED
    BY <1>6, <2>1, <2>2, BootKept DEF LateUnlock, OrphanExit, User, Override
<1>7. CASE Crash \/ Exit
  <2>1. /\ daemon' = "boot" /\ phase'[Unlocker] = "idle" /\ UNCHANGED <<holder, scenario>>
    BY <1>7 DEF Crash, Exit, Die
  <2>2. NothingLost => late' = late
    BY <1>7 DEF Crash, Exit, Die, NothingLost
  <2> QED
    BY <2>1, <2>2 DEF BootInv, NothingLost
<1>8. CASE Sigterm
  BY <1>8 DEF Sigterm, BootInv, NothingLost, env
<1>9. CASE UNCHANGED vars
  <2>1. \A q \in Run : Mine(q)' = Mine(q)
    BY <1>9, OthersKeepMine
  <2> QED
    BY <1>9, <2>1, BootKept DEF vars, env
<1>10. scenario.hosts \subseteq Node
  BY ScenarioType DEF TypeOK
<1> QED
  BY <1>1, <1>2, <1>3, <1>4, <1>5, <1>6, <1>7, <1>8, <1>9, <1>10 DEF Next

\* When no lock RPC is lost, the locks of an earlier hecklerd that are left once the loops
\* run are on nodes that unlockAll could not dial, or it could not list the nodes, however
\* hecklerd ended and whatever the command line did while unlockAll was under way.
THEOREM StartsClean == Spec => []CleanStart
<1>1. Init => BootInv
  BY DEF Init, BootInv, NothingLost
<1>2. BootInv => CleanStart
  BY DEF BootInv, CleanStart, NothingLost
<1> QED
  BY <1>1, <1>2, Typing, OrderKept, BootStep, PTL DEF Spec

-----------------------------------------------------------------------------
(* How many nodes an apply leaves out.                                     *)

Limited == scenario.errored >= 0 /\ scenario.lockedByAnother >= 0

\* What a node may answer before the applies.
AnswersOf == [state |-> {"unlocked", "locked_by_user", "locked_by_another", "error"},
              lastApply |-> {"behind", "at", "dirty", "error"},
              lock |-> {"locked_by_user", "locked_by_another", "error"}]

\* Of buckets b: they are nodes of the node set, and within the thresholds.
Within(b) == /\ b.errored \subseteq scenario.hosts /\ b.lockedByAnother \subseteq scenario.hosts
             /\ Cardinality(b.errored) <= scenario.errored
             /\ Cardinality(b.lockedByAnother) <= scenario.lockedByAnother

\* The nodes of the set that an apply with buckets b leaves out.
LeftOut(b) == scenario.hosts \ (b.active \cup b.beyondRev)

\* Until its applies, a run of the loop loses sight of no node: each is in a bucket,
\* has answered, or is waited for.  The buckets of locked nodes and of nodes that have
\* the revision are empty before the phase that fills them.
Covered(r) ==
  /\ phase[r] \in DOMAIN AnswersOf =>
       /\ Within(ns[r])
       /\ scenario.hosts \subseteq ns[r].errored \cup ns[r].lockedByAnother \cup ns[r].beyondRev
                                     \cup waiting[r] \cup Answered(r, AnswersOf[phase[r]])
  /\ phase[r] = "state" => ns[r].lockedByAnother = {}
  /\ phase[r] \in {"state", "lastApply"} => ns[r].beyondRev = {}
  /\ phase[r] = "apply" =>
       Cardinality(LeftOut(ns[r])) <= scenario.errored + 2 * scenario.lockedByAnother

CoverInv == Limited => \A r \in Loop : Covered(r)

LEMMA AnswerPhases == /\ DOMAIN AnswersOf = {"state", "lastApply", "lock"}
                      /\ AnswersOf["state"] = {"unlocked", "locked_by_user", "locked_by_another", "error"}
                      /\ AnswersOf["lastApply"] = {"behind", "at", "dirty", "error"}
                      /\ AnswersOf["lock"] = {"locked_by_user", "locked_by_another", "error"}
BY DEF AnswersOf

LEMMA LoopIsRun == Loop \subseteq Run /\ Unlocker \notin Loop
BY NodeSetRunsAssumption DEF Run, Applier

\* A run of the loop that goes on is within its thresholds.
LEMMA WithinOfLoop ==
  ASSUME TypeOK, Limited, NEW r \in Loop, NEW b \in Buckets, ~thresholdExceeded(r, b),
         b.errored \subseteq scenario.hosts, b.lockedByAnother \subseteq scenario.hosts
  PROVE  Within(b)
<1>1. IsFiniteSet(scenario.hosts) /\ scenario.errored \in Int /\ scenario.lockedByAnother \in Int
  BY NodeSetRunsAssumption DEF TypeOK
<1>2. Cardinality(b.errored) \in Nat /\ Cardinality(b.lockedByAnother) \in Nat
  BY <1>1, FS_Subset, FS_CardinalityType
<1> QED
  BY <1>1, <1>2 DEF thresholdExceeded, Over, Threshold, Within, Limited

\* Three sets of nodes that cover what is left out bound it.
LEMMA LeftOutBound ==
  ASSUME TypeOK, Limited, NEW b, NEW c, Within(b), Within(c),
         LeftOut(b) \subseteq b.errored \cup c.lockedByAnother \cup b.lockedByAnother
  PROVE  Cardinality(LeftOut(b)) <= scenario.errored + 2 * scenario.lockedByAnother
<1> DEFINE both == c.lockedByAnother \cup b.lockedByAnother
           all == b.errored \cup both
<1>1. IsFiniteSet(scenario.hosts) /\ scenario.errored \in Int /\ scenario.lockedByAnother \in Int
  BY NodeSetRunsAssumption DEF TypeOK
<1>2. /\ IsFiniteSet(b.errored) /\ IsFiniteSet(b.lockedByAnother) /\ IsFiniteSet(c.lockedByAnother)
      /\ Cardinality(b.errored) \in Nat /\ Cardinality(b.lockedByAnother) \in Nat
      /\ Cardinality(c.lockedByAnother) \in Nat
  BY <1>1, FS_Subset, FS_CardinalityType DEF Within
<1>3. /\ IsFiniteSet(both)
      /\ Cardinality(both) <= 2 * scenario.lockedByAnother
  <2>1. /\ IsFiniteSet(both)
        /\ Cardinality(both) = Cardinality(c.lockedByAnother) + Cardinality(b.lockedByAnother)
                                 - Cardinality(c.lockedByAnother \cap b.lockedByAnother)
    BY <1>2, FS_Union
  <2>2. Cardinality(c.lockedByAnother \cap b.lockedByAnother) \in Nat
    BY <1>2, FS_Intersection, FS_CardinalityType
  <2> QED
    BY <1>1, <1>2, <2>1, <2>2 DEF Within
<1>4. IsFiniteSet(all) /\ Cardinality(all) <= scenario.errored + 2 * scenario.lockedByAnother
  <2>1. IsFiniteSet(all) /\ Cardinality(all) = Cardinality(b.errored) + Cardinality(both)
                                                 - Cardinality(b.errored \cap both)
    BY <1>2, <1>3, FS_Union
  <2>2. Cardinality(both) \in Nat /\ Cardinality(b.errored \cap both) \in Nat
    BY <1>2, <1>3, FS_Intersection, FS_CardinalityType
  <2> QED
    BY <1>1, <1>2, <1>3, <2>1, <2>2 DEF Within
<1>5. LeftOut(b) \subseteq all
  OBVIOUS
<1>6. IsFiniteSet(LeftOut(b)) /\ Cardinality(LeftOut(b)) <= Cardinality(all)
  BY <1>4, <1>5, FS_Subset
<1>7. Cardinality(LeftOut(b)) \in Nat /\ Cardinality(all) \in Nat
  BY <1>4, <1>6, FS_CardinalityType
<1> QED
  BY <1>1, <1>4, <1>6, <1>7

\* What a run sees of its nodes is up to its own part of the state.
LEMMA CoveredKept ==
  ASSUME NEW r, Covered(r), scenario' = scenario, phase'[r] = phase[r],
         waiting'[r] = waiting[r], reply'[r] = reply[r], ns'[r] = ns[r]
  PROVE  Covered(r)'
BY DEF Covered, Within, LeftOut, Answered

\* A run that enters a phase without applies or queries has nothing to see.
LEMMA CoveredIdle ==
  ASSUME NEW r, phase'[r] \in {"idle", "unlock", "giveUp", "done"}
  PROVE  Covered(r)'
BY AnswerPhases DEF Covered

\* A phase that begins with an RPC to each node that is in no other bucket covers all.
LEMMA CoveredEntered ==
  ASSUME TypeOK, NEW r \in Run, NEW p \in {"state", "lastApply", "lock"}, NEW b, NEW sent,
         Enter(r, p, b, sent), scenario' = scenario, Within(b),
         scenario.hosts \subseteq b.errored \cup b.lockedByAnother \cup b.beyondRev \cup sent,
         p = "state" => b.lockedByAnother = {},
         p \in {"state", "lastApply"} => b.beyondRev = {}
  PROVE  Covered(r)'
<1>1. phase'[r] = p /\ waiting'[r] = sent /\ ns'[r] = b
  BY DEF Enter, TypeOK
<1>2. Within(b)'
  BY DEF Within
<1> QED
  BY <1>1, <1>2 DEF Covered, Within

\* An answer moves its node from those waited for to those that have answered.
LEMMA CoveredReceived ==
  ASSUME TypeOK, NEW r \in Run, Covered(r), NEW n \in Node, NEW a, Receive(r, n, a),
         scenario' = scenario, phase[r] \in DOMAIN AnswersOf => a \in AnswersOf[phase[r]]
  PROVE  Covered(r)'
<1>1. /\ phase' = phase /\ ns' = ns /\ waiting'[r] = waiting[r] \ {n}
      /\ reply'[r][n] = a /\ \A m \in Node \ {n} : reply'[r][m] = reply[r][m]
  BY DEF Receive, TypeOK
<1>2. ASSUME phase[r] \in DOMAIN AnswersOf
      PROVE  waiting[r] \cup Answered(r, AnswersOf[phase[r]])
               \subseteq waiting'[r] \cup Answered(r, AnswersOf[phase[r]])'
  BY <1>1, <1>2 DEF Answered, TypeOK
<1>3. ASSUME phase[r] \in DOMAIN AnswersOf
      PROVE  scenario.hosts \subseteq ns[r].errored \cup ns[r].lockedByAnother \cup ns[r].beyondRev
                                 \cup waiting'[r] \cup Answered(r, AnswersOf[phase[r]])'
  BY <1>2, <1>3 DEF Covered
<1> QED
  BY <1>1, <1>3 DEF Covered, Within, LeftOut

\* The steps between the phases, of which only Locked enters apply.
LEMMA CoveredStep ==
  ASSUME TypeOK, OrderInv, Limited, NEW r \in Loop, Covered(r), Step(r)
  PROVE  Covered(r)'
<1> USE LoopIsRun, AnswerPhases
<1>0. ns[r] \in Buckets /\ scenario' = scenario /\ scenario.hosts \subseteq Node
  BY ScenarioType DEF TypeOK, Step, Eligible, LastApplied, Locked, Applied, Unlocked, Finish, env
<1>1. CASE Eligible(r)
  <2> DEFINE active == Answered(r, {"unlocked", "locked_by_user"})
             errors == Answered(r, {"error"})
             another == Answered(r, {"locked_by_another"})
             b == [ns[r] EXCEPT !.active = active, !.errored = @ \cup errors,
                                !.lockedByAnother = another]
  <2>1. /\ active \subseteq scenario.hosts /\ errors \subseteq scenario.hosts
        /\ another \subseteq scenario.hosts
    BY AnsweredAreHosts
  <2>2. phase[r] = "state" /\ waiting[r] = {}
    BY <1>1 DEF Eligible, Complete, InPhase
  <2>3. Answered(r, AnswersOf[phase[r]]) \subseteq active \cup errors \cup another
    BY <2>2 DEF Answered
  <2>4. /\ Within(ns[r]) /\ ns[r].lockedByAnother = {} /\ ns[r].beyondRev = {}
        /\ scenario.hosts \subseteq ns[r].errored \cup active \cup errors \cup another
    BY <2>2, <2>3 DEF Covered
  <2>5. \/ Enter(r, "done", b, {})
        \/ ~thresholdExceeded(r, b) /\ Enter(r, "lastApply", b, active)
    <3>1. b.active = active
      BY <1>0
    <3> QED
      BY <1>1, <3>1 DEF Eligible
  <2> HIDE DEF active, errors, another
  <2>6. /\ b \in Buckets /\ b.active = active /\ b.errored = ns[r].errored \cup errors
        /\ b.lockedByAnother = another /\ b.beyondRev = {}
    BY <1>0, <2>1, <2>4 DEF Buckets
  <2> HIDE DEF b
  <2>7. CASE Enter(r, "done", b, {})
    BY <2>7, CoveredIdle, EnteredPhase
  <2>8. CASE ~thresholdExceeded(r, b) /\ Enter(r, "lastApply", b, active)
    <3>1. Within(b)
      BY <2>1, <2>4, <2>6, <2>8, WithinOfLoop DEF Within
    <3> QED
      BY <1>0, <2>4, <2>6, <2>8, <3>1, CoveredEntered
  <2> QED
    BY <2>5, <2>7, <2>8
<1>2. CASE LastApplied(r)
  <2> DEFINE active == Answered(r, {"behind"})
             errors == Answered(r, {"dirty", "error"})
             beyond == Answered(r, {"at"})
             b == [ns[r] EXCEPT !.active = active, !.beyondRev = beyond,
                                !.errored = @ \cup errors]
  <2>1. /\ active \subseteq scenario.hosts /\ errors \subseteq scenario.hosts
        /\ beyond \subseteq scenario.hosts
    BY AnsweredAreHosts
  <2>2. phase[r] = "lastApply" /\ waiting[r] = {}
    BY <1>2 DEF LastApplied, Complete, InPhase
  <2>3. Answered(r, AnswersOf[phase[r]]) \subseteq active \cup errors \cup beyond
    BY <2>2 DEF Answered
  <2>4. /\ Within(ns[r]) /\ ns[r].beyondRev = {}
        /\ scenario.hosts \subseteq ns[r].errored \cup ns[r].lockedByAnother
                                      \cup active \cup errors \cup beyond
    BY <2>2, <2>3 DEF Covered
  <2>5. \/ Enter(r, "done", b, {})
        \/ ~thresholdExceeded(r, b) /\ Enter(r, "lock", b, active)
    <3>1. b.active = active
      BY <1>0
    <3> QED
      BY <1>2, <3>1 DEF LastApplied
  <2> HIDE DEF active, errors, beyond
  <2>6. /\ b \in Buckets /\ b.active = active /\ b.errored = ns[r].errored \cup errors
        /\ b.lockedByAnother = ns[r].lockedByAnother /\ b.beyondRev = beyond
    BY <1>0, <2>1 DEF Buckets
  <2> HIDE DEF b
  <2>7. CASE Enter(r, "done", b, {})
    BY <2>7, CoveredIdle, EnteredPhase
  <2>8. CASE ~thresholdExceeded(r, b) /\ Enter(r, "lock", b, active)
    <3>1. Within(b)
      BY <2>1, <2>4, <2>6, <2>8, WithinOfLoop DEF Within
    <3> QED
      BY <1>0, <2>4, <2>6, <2>8, <3>1, CoveredEntered
  <2> QED
    BY <2>5, <2>7, <2>8
<1>3. CASE Locked(r)
  <2> DEFINE locked == Answered(r, {"locked_by_user"})
             errors == Answered(r, {"error"})
             another == Answered(r, {"locked_by_another"})
             b == [ns[r] EXCEPT !.active = locked, !.locked = locked,
                                !.errored = @ \cup errors, !.lockedByAnother = another]
  <2>1. /\ locked \subseteq scenario.hosts /\ errors \subseteq scenario.hosts
        /\ another \subseteq scenario.hosts
    BY AnsweredAreHosts
  <2>2. phase[r] = "lock" /\ waiting[r] = {}
    BY <1>3 DEF Locked, Complete, InPhase
  <2>3. Answered(r, AnswersOf[phase[r]]) \subseteq locked \cup errors \cup another
    BY <2>2 DEF Answered
  <2>4. /\ Within(ns[r])
        /\ scenario.hosts \subseteq ns[r].errored \cup ns[r].lockedByAnother
                              \cup ns[r].beyondRev \cup locked \cup errors \cup another
    BY <2>2, <2>3 DEF Covered
  <2>5. \/ Enter(r, "giveUp", b, locked)
        \/ ~thresholdExceeded(r, b) /\ Enter(r, "apply", b, locked)
    BY <1>3 DEF Locked
  <2> HIDE DEF locked, errors, another
  <2>6. /\ b \in Buckets /\ b.active = locked /\ b.errored = ns[r].errored \cup errors
        /\ b.lockedByAnother = another /\ b.beyondRev = ns[r].beyondRev
    BY <1>0, <2>1 DEF Buckets
  <2> HIDE DEF b
  <2>7. CASE Enter(r, "giveUp", b, locked)
    BY <2>7, CoveredIdle, EnteredPhase
  <2>8. CASE ~thresholdExceeded(r, b) /\ Enter(r, "apply", b, locked)
    <3>1. Within(b)
      BY <2>1, <2>4, <2>6, <2>8, WithinOfLoop DEF Within
    <3>2. LeftOut(b) \subseteq b.errored \cup ns[r].lockedByAnother \cup b.lockedByAnother
      BY <2>4, <2>6 DEF LeftOut
    <3>3. Cardinality(LeftOut(b)) <= scenario.errored + 2 * scenario.lockedByAnother
      BY <2>4, <3>1, <3>2, LeftOutBound
    <3>4. phase'[r] = "apply" /\ ns'[r] = b
      BY <2>8 DEF Enter, TypeOK
    <3> QED
      BY <1>0, <3>3, <3>4 DEF Covered, LeftOut
  <2> QED
    BY <2>5, <2>7, <2>8
<1>4. CASE Applied(r) \/ Unlocked(r) \/ Finish(r)
  <2>1. PICK p, b, sent : p \in {"idle", "unlock", "done"} /\ Enter(r, p, b, sent)
    BY <1>4 DEF Applied, Unlocked, Finish
  <2> QED
    BY <2>1, CoveredIdle, EnteredPhase
<1> QED
  BY <1>1, <1>2, <1>3, <1>4 DEF Step

\* A run of the loop starts with the nodes it has dialed and the rest as errors.
LEMMA CoveredStart ==
  ASSUME TypeOK, Limited, NEW r \in Loop, Start(r)
  PROVE  Covered(r)'
<1>1. PICK dialed \in SUBSET scenario.hosts :
        LET b == [NoNodes EXCEPT !.active = dialed, !.errored = scenario.hosts \ dialed]
        IN ~thresholdExceeded(r, b) /\ Enter(r, "state", b, dialed)
  BY NodeSetRunsAssumption DEF Start
<1> DEFINE b == [NoNodes EXCEPT !.active = dialed, !.errored = scenario.hosts \ dialed]
<1>2. ~thresholdExceeded(r, b) /\ Enter(r, "state", b, dialed)
  BY <1>1
<1>3. /\ b \in Buckets /\ b.errored = scenario.hosts \ dialed
      /\ b.lockedByAnother = {} /\ b.beyondRev = {}
  BY ScenarioType DEF NoNodes, Buckets, TypeOK
<1> HIDE DEF b
<1>4. Within(b)
  BY <1>2, <1>3, WithinOfLoop
<1>5. scenario' = scenario
  BY DEF Start, env
<1> QED
  BY <1>2, <1>3, <1>4, <1>5, LoopIsRun, CoveredEntered

\* The RPCs of a run of the loop before its applies answer with what AnswersOf lists.
LEMMA CoveredRpc ==
  ASSUME TypeOK, NEW r \in Loop, Covered(r), NEW n \in Node, Rpc(r, n)
  PROVE  Covered(r)'
<1> USE LoopIsRun, AnswerPhases
<1>1. scenario' = scenario
  BY DEF Rpc, StateReply, LastApplyReply, LockReply, LockTimeout, ApplyStart, ApplyReply,
         ApplyTimeout, UnlockReply, UnlockTimeout, env
<1>2. CASE StateReply(r, n)
  BY <1>1, <1>2, CoveredReceived DEF StateReply, Asked, InPhase, LockState, TypeOK
<1>3. CASE LastApplyReply(r, n)
  <2>1. lastApply[n] \in {"behind", "at", "dirty"}
    BY DEF TypeOK
  <2> QED
    BY <1>1, <1>3, <2>1, CoveredReceived DEF LastApplyReply, Asked, InPhase
<1>4. CASE LockReply(r, n) \/ LockTimeout(r, n)
  <2>1. PICK a \in AnswersOf["lock"] : Receive(r, n, a)
    BY <1>4 DEF LockReply, LockTimeout
  <2>2. phase[r] = "lock"
    BY <1>4 DEF LockReply, LockTimeout, Asked, InPhase
  <2> QED
    BY <1>1, <2>1, <2>2, CoveredReceived
<1>5. CASE ApplyReply(r, n) \/ ApplyTimeout(r, n) \/ UnlockReply(r, n) \/ UnlockTimeout(r, n)
  <2>1. PICK a : Receive(r, n, a)
    BY <1>5 DEF ApplyReply, ApplyTimeout, UnlockReply, UnlockTimeout
  <2>2. phase[r] \in {"apply", "unlock", "giveUp"}
    BY <1>5 DEF ApplyReply, ApplyTimeout, UnlockReply, UnlockTimeout, Unlocking, Asked, InPhase
  <2> QED
    BY <1>1, <2>1, <2>2, CoveredReceived
<1>6. CASE ApplyStart(r, n)
  BY <1>1, <1>6, CoveredKept DEF ApplyStart
<1> QED
  BY <1>2, <1>3, <1>4, <1>5, <1>6 DEF Rpc

\* The scenario is one for all runs and does not change.
LEMMA ScenarioKept ==
  ASSUME NEW q, Start(q) \/ Step(q) \/ \E n \in Node : Rpc(q, n)
  PROVE  scenario' = scenario
BY DEF Start, Step, Eligible, LastApplied, Locked, Applied, Unlocked, Finish, Rpc,
       StateReply, LastApplyReply, LockReply, LockTimeout, ApplyStart, ApplyReply,
       ApplyTimeout, UnlockReply, UnlockTimeout, env

\* What one run does is nothing to the others' buckets.
LEMMA OthersCovered ==
  ASSUME TypeOK, NEW q \in Run, Start(q) \/ Step(q) \/ \E n \in Node : Rpc(q, n),
         NEW r \in Loop, r # q, Covered(r)
  PROVE  Covered(r)'
<1> USE LoopIsRun
<1>1. scenario' = scenario
  BY ScenarioKept
<1>2. \/ \E p, b, sent : Enter(q, p, b, sent)
      \/ \E n, a : Receive(q, n, a)
      \/ UNCHANGED <<phase, waiting, reply, ns>>
  <2>1. CASE Start(q)
    BY <2>1 DEF Start
  <2>2. CASE Step(q)
    BY <2>2 DEF Step, Eligible, LastApplied, Locked, Applied, Unlocked, Finish
  <2>3. ASSUME NEW n \in Node, Rpc(q, n)
        PROVE (\E a : Receive(q, n, a)) \/ UNCHANGED <<phase, waiting, reply, ns>>
    BY <2>3 DEF Rpc, StateReply, LastApplyReply, LockReply, LockTimeout, ApplyStart,
                ApplyReply, ApplyTimeout, UnlockReply, UnlockTimeout
  <2> QED
    BY <2>1, <2>2, <2>3
<1>3. /\ phase'[r] = phase[r] /\ waiting'[r] = waiting[r]
      /\ reply'[r] = reply[r] /\ ns'[r] = ns[r]
  BY <1>2 DEF Enter, Receive, TypeOK
<1> QED
  BY <1>1, <1>3, CoveredKept

\* Every action keeps it.
LEMMA CoverStep == TypeOK /\ OrderInv /\ CoverInv /\ [Next]_vars => CoverInv'
<1> SUFFICES ASSUME TypeOK, OrderInv, CoverInv, [Next]_vars, Limited', NEW r \in Loop
             PROVE  Covered(r)'
  BY DEF CoverInv
<1> USE LoopIsRun
<1>0. scenario' = scenario
  <2>1. ASSUME NEW q \in Run, Start(q) \/ Step(q) \/ \E n \in Node : Rpc(q, n)
        PROVE  scenario' = scenario
    BY <2>1, ScenarioKept
  <2>2. CASE StartUnlockAll \/ UNCHANGED vars \/ Crash \/ Sigterm \/ Exit
    BY <2>2 DEF StartUnlockAll, vars, Crash, Sigterm, Exit, Die, env
  <2>3. CASE \E n \in scenario.hosts : \/ LateLock(n) \/ LateUnlock(n) \/ OrphanExit(n)
                                        \/ User(n) \/ Override(n)
    BY <2>3 DEF LateLock, LateUnlock, OrphanExit, User, Override
  <2> QED
    BY <2>1, <2>2, <2>3 DEF Next, Run
<1>1. Limited /\ Covered(r)
  BY <1>0 DEF Limited, CoverInv
<1>2. ASSUME NEW q \in Run, Start(q) \/ Step(q) \/ \E n \in Node : Rpc(q, n)
      PROVE  Covered(r)'
  BY <1>1, <1>2, CoveredStart, CoveredStep, CoveredRpc, OthersCovered
<1>3. CASE StartUnlockAll
  <2>1. PICK p, b, sent : Enter(Unlocker, p, b, sent)
    BY <1>3 DEF StartUnlockAll
  <2> QED
    BY <1>0, <1>1, <2>1, CoveredKept DEF Enter, TypeOK
<1>4. CASE \/ \E n \in Node : \/ LateLock(n) \/ LateUnlock(n) \/ OrphanExit(n)
                              \/ User(n) \/ Override(n)
           \/ UNCHANGED vars
  BY <1>0, <1>1, <1>4, CoveredKept DEF LateLock, LateUnlock, OrphanExit, User, Override, vars
<1>5. CASE Crash \/ Exit
  <2>1. phase'[r] = "idle"
    BY <1>5 DEF Crash, Exit, Die
  <2> QED
    BY <2>1, CoveredIdle
<1>6. CASE Sigterm
  BY <1>0, <1>1, <1>6, CoveredKept DEF Sigterm, TypeOK
<1>7. scenario.hosts \subseteq Node
  BY ScenarioType DEF TypeOK
<1> QED
  BY <1>2, <1>3, <1>4, <1>5, <1>6, <1>7 DEF Next, Run

\* An apply of the loop leaves out at most as many nodes as may be in error and twice
\* as many as may be locked by others, whatever is lost and whoever locks in between.
THEOREM FewAreMissing == Spec => []MissingBound
<1>1. Init => CoverInv
  BY LoopIsRun, CoveredIdle, AnswerPhases DEF Init, CoverInv, Covered
<1>2. CoverInv => MissingBound
  BY DEF CoverInv, Covered, Limited, LeftOut, MissingBound, InPhase
<1> QED
  BY <1>1, <1>2, Typing, OrderKept, CoverStep, PTL DEF Spec
=============================================================================
