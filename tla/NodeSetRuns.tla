----------------------------- MODULE NodeSetRuns -----------------------------
(***************************************************************************)
(* hecklerd's runs over a set of nodes: the apply loop and the HecklerApply*)
(* RPC of the command line, both through applyNodeSet, and unlockAll at    *)
(* start and at SIGTERM.  A run queries, locks, applies and unlocks its    *)
(* nodes in phases; in a phase it sends one RPC per node, on a goroutine   *)
(* each, and sorts the replies into the buckets of its NodeSet.  The nodes'*)
(* lock is the atomic one of NodeLock, as RizzoLock implements it.  What   *)
(* all this promises for one node is NodeOwnership.                        *)
(***************************************************************************)
EXTENDS Integers, FiniteSets

CONSTANTS Node,
          Loop,           \* runs of the apply loop (at most one at a time)
          Cli,            \* runs of the HecklerApply RPC
          Unlocker,       \* unlockAll
          Scenarios,      \* bounds: which nodes, runs and failures there are
          MaxLost,        \* bound: nodes whose lock and unlock RPCs are lost
          MaxOrphans      \* bound: puppet processes nobody waits for, per node

ASSUME NodeSetRunsAssumption ==
  /\ Loop \cap Cli = {} /\ Unlocker \notin Loop \cup Cli
  /\ IsFiniteSet(Loop) /\ IsFiniteSet(Cli)
  /\ MaxOrphans \in Nat /\ MaxLost \in Nat
  /\ Scenarios \subseteq [hosts : SUBSET Node, runs : SUBSET (Loop \cup Cli),
                          errored : Int, lockedByAnother : Int,
                          timeouts : SUBSET {"query", "lock", "apply", "unlock"},
                          deaths : BOOLEAN, unreachable : BOOLEAN,
                          overrides : BOOLEAN]
  /\ \A s \in Scenarios : IsFiniteSet(s.hosts)

Applier == Loop \cup Cli
Run == Applier \cup {Unlocker}

VARIABLES holder,     \* who owns each node's lock file: "none", "root", "user"
          lastApply,  \* each node's last apply, relative to the target revision
          orphans,    \* puppet processes of each node whose caller went away
          late,       \* lock requests still in service after their deadline
          lateUnlock, \* unlock requests still in service after their deadline
          daemon,     \* "boot" until unlockAll is done, "up", or "stopping"
          phase,      \* what each run is doing
          waiting,    \* nodes whose RPC of this phase has not been answered
          running,    \* nodes whose puppet process the run waits for
          reply,      \* the answer of each node in this phase
          ns,         \* the NodeSet's buckets
          lost,       \* history: nodes a lock reply of which was lost, or whose
                      \* hecklerd died: nobody may know that they are locked
          taken,      \* history: nodes whose lock was taken from a run of this
                      \* hecklerd that counts on it
          scenario    \* the nodes of all node sets and the runs; max_node_thresholds,
                      \* -1 for none; the RPCs whose deadlines pass or whose replies
                      \* are lost; whether hecklerd dies or is stopped and starts
                      \* again, whether nodes cannot be reached or listed, and
                      \* whether users force their locks and unlocks

env == <<holder, lastApply, orphans, late, lateUnlock, lost, taken, scenario>>
vars == <<env, daemon, phase, waiting, running, reply, ns>>

Phase == {"idle", "state", "lastApply", "lock", "apply", "unlock", "giveUp", "done"}
Reply == {"none", "unlocked", "locked_by_user", "locked_by_another",
          "behind", "at", "dirty", "applied", "failed", "error"}
Buckets == [active : SUBSET Node, locked : SUBSET Node, errored : SUBSET Node,
            lockedByAnother : SUBSET Node, beyondRev : SUBSET Node,
            applied : SUBSET Node]
NoNodes == [active |-> {}, locked |-> {}, errored |-> {}, lockedByAnother |-> {},
            beyondRev |-> {}, applied |-> {}]
NoReply == [n \in Node |-> "none"]

TypeOK == /\ holder \in [Node -> {"none", "root", "user"}]
          /\ lastApply \in [Node -> {"behind", "at", "dirty"}]
          /\ orphans \in [Node -> 0..MaxOrphans]
          /\ late \subseteq Node /\ lateUnlock \subseteq Node
          /\ lost \subseteq Node /\ taken \subseteq Node
          /\ daemon \in {"boot", "up", "stopping"}
          /\ phase \in [Run -> Phase]
          /\ waiting \in [Run -> SUBSET Node]
          /\ running \in [Run -> SUBSET Node]
          /\ reply \in [Run -> [Node -> Reply]]
          /\ ns \in [Run -> Buckets]
          /\ scenario \in Scenarios

Init == /\ scenario \in Scenarios
        /\ holder \in {h \in [Node -> {"none", "user"}] :
                         \A n \in Node \ scenario.hosts : h[n] = "none"}
        /\ lastApply = [n \in Node |-> "behind"]
        /\ orphans = [n \in Node |-> 0]
        /\ late = {} /\ lateUnlock = {} /\ lost = {} /\ taken = {}
        /\ daemon = "up"
        /\ phase = [r \in Run |-> "idle"]
        /\ waiting = [r \in Run |-> {}]
        /\ running = [r \in Run |-> {}]
        /\ reply = [r \in Run |-> NoReply]
        /\ ns = [r \in Run |-> NoNodes]

-----------------------------------------------------------------------------
(* Buckets and thresholds.                                                 *)

Answered(r, answers) == {n \in Node : reply[r][n] \in answers}

\* Requests of the command line and unlockAll disable the thresholds.
Threshold(r, max) == IF r \in Loop THEN max ELSE -1

Over(count, max) == max > -1 /\ count > max

thresholdExceeded(r, b) ==
  \/ Over(Cardinality(b.errored), Threshold(r, scenario.errored))
  \/ Over(Cardinality(b.lockedByAnother), Threshold(r, scenario.lockedByAnother))

\* Run r enters phase p with buckets b and sends an RPC to each node of sent.
Enter(r, p, b, sent) ==
  /\ phase' = [phase EXCEPT ![r] = p]
  /\ ns' = [ns EXCEPT ![r] = b]
  /\ waiting' = [waiting EXCEPT ![r] = sent]
  /\ reply' = [reply EXCEPT ![r] = NoReply]

\* A node's RPC of the current phase is answered.
Receive(r, n, answer) ==
  /\ waiting' = [waiting EXCEPT ![r] = @ \ {n}]
  /\ reply' = [reply EXCEPT ![r][n] = answer]
  /\ UNCHANGED <<phase, ns, daemon>>

InPhase(r, p) == phase[r] = p
Asked(r, p, n) == InPhase(r, p) /\ n \in waiting[r]
Complete(r, p) == InPhase(r, p) /\ waiting[r] = {}

\* The nodes run r has locked, as far as it knows, and has not unlocked.
Mine(r) == CASE InPhase(r, "lock") -> Answered(r, {"locked_by_user"})
             [] InPhase(r, "apply") -> ns[r].locked
             [] InPhase(r, "unlock") \/ InPhase(r, "giveUp") -> waiting[r]
             [] OTHER -> {}

\* The runs that count on the lock of node n.
Holders(n) == {r \in Applier : n \in Mine(r)}

\* Somebody else removes the lock of node n, or puts another in its place.
TakeFromRun(n) == taken' = IF Holders(n) # {} THEN taken \cup {n} ELSE taken

-----------------------------------------------------------------------------
(* dialNodeSet, dialReqNodes and the start of applyNodeSet.                *)

\* The gRPC server answers the command line before unlockAll has run; the loops
\* start after it.  Only the command line can force, which skips lastApply.  A run
\* whose nodes cannot be listed, or that is over a threshold, does not begin.
Start(r) ==
  /\ InPhase(r, "idle")
  /\ r \in Loop => daemon # "boot"
  /\ r \in Cli => ~(daemon = "stopping" /\ InPhase(Unlocker, "done"))
  /\ r \in scenario.runs
  /\ \E dialed \in SUBSET scenario.hosts, force \in BOOLEAN :
       LET b == [NoNodes EXCEPT !.active = dialed, !.errored = scenario.hosts \ dialed]
       IN /\ dialed # scenario.hosts => scenario.unreachable
          /\ force => r \in Cli
          /\ ~thresholdExceeded(r, b)
          /\ Enter(r, IF force THEN "lock" ELSE "state", b, dialed)
  /\ UNCHANGED <<env, daemon, running>>

\* unlockAll dials all nodes and asks each one it reaches to unlock.  When the command
\* that lists the nodes fails, it returns at once, and main drops its error.
StartUnlockAll ==
  /\ InPhase(Unlocker, "idle") /\ daemon \in {"boot", "stopping"}
  /\ \/ /\ \E dialed \in SUBSET scenario.hosts :
             /\ dialed # scenario.hosts => scenario.unreachable
             /\ Enter(Unlocker, "unlock",
                      [NoNodes EXCEPT !.active = dialed, !.locked = dialed,
                                      !.errored = scenario.hosts \ dialed], dialed)
        /\ UNCHANGED daemon
     \/ /\ scenario.unreachable
        /\ Enter(Unlocker, "done", NoNodes, {})
        /\ daemon' = IF daemon = "boot" THEN "up" ELSE daemon
  /\ UNCHANGED <<env, running>>

-----------------------------------------------------------------------------
(* lastApplyNodeSet: the lock state of the nodes, then their last apply.   *)

\* Mutated form of LockState: the owner is taken for the status.
LockStateOwner(n) == IF holder[n] = "none" THEN "unlocked" ELSE holder[n]

LockState(n) == CASE holder[n] = "none" -> "unlocked"
                  [] holder[n] = "root" -> "locked_by_user"
                  [] holder[n] = "user" -> "locked_by_another"

StateReply(r, n) ==
  /\ Asked(r, "state", n)
  /\ \E a \in {LockState(n), "error"} :
       (a = "error" => "query" \in scenario.timeouts) /\ Receive(r, n, a)
  /\ UNCHANGED <<env, running>>

\* eligibleNodeSet: unlocked nodes, and those locked by root already.
Eligible(r) ==
  /\ Complete(r, "state")
  /\ LET b == [ns[r] EXCEPT
                 !.active = Answered(r, {"unlocked", "locked_by_user"}),
                 !.errored = @ \cup Answered(r, {"error"}),
                 !.lockedByAnother = Answered(r, {"locked_by_another"})]
     IN IF thresholdExceeded(r, b) THEN Enter(r, "done", b, {})
        ELSE Enter(r, "lastApply", b, b.active)
  /\ UNCHANGED <<env, daemon, running>>

LastApplyReply(r, n) ==
  /\ Asked(r, "lastApply", n)
  /\ \E a \in {lastApply[n], "error"} :
       (a = "error" => "query" \in scenario.timeouts) /\ Receive(r, n, a)
  /\ UNCHANGED <<env, running>>

\* Dirty nodes are errors; those that have the revision already are put aside.
LastApplied(r) ==
  /\ Complete(r, "lastApply")
  /\ LET b == [ns[r] EXCEPT
                 !.active = Answered(r, {"behind"}),
                 !.beyondRev = Answered(r, {"at"}),
                 !.errored = @ \cup Answered(r, {"dirty", "error"})]
     IN IF thresholdExceeded(r, b) THEN Enter(r, "done", b, {})
        ELSE Enter(r, "lock", b, b.active)
  /\ UNCHANGED <<env, daemon, running>>

-----------------------------------------------------------------------------
(* lockNodeSet.                                                            *)

\* Mutated form of LockReply: a lock owned by root already is granted again.
LockReplyReentrant(r, n) ==
  /\ Asked(r, "lock", n)
  /\ \/ /\ holder[n] \in {"none", "root"}
        /\ holder' = [holder EXCEPT ![n] = "root"]
        /\ Receive(r, n, "locked_by_user")
     \/ /\ holder[n] = "user"
        /\ Receive(r, n, "locked_by_another")
        /\ UNCHANGED holder
  /\ UNCHANGED <<lastApply, orphans, late, lateUnlock, lost, taken, scenario, running>>

\* rizzod does not grant a lock twice, even to the same user.
LockReply(r, n) ==
  /\ Asked(r, "lock", n)
  /\ \/ /\ holder[n] = "none"
        /\ holder' = [holder EXCEPT ![n] = "root"]
        /\ Receive(r, n, "locked_by_user")
     \/ /\ holder[n] # "none"
        /\ Receive(r, n, "locked_by_another")
        /\ UNCHANGED holder
  /\ UNCHANGED <<lastApply, orphans, late, lateUnlock, lost, taken, scenario, running>>

\* The deadline of a lock RPC passes; the request may have had its effect, may
\* have it later, or may never have it.
LockTimeout(r, n) ==
  /\ "lock" \in scenario.timeouts /\ Cardinality(lost \cup {n}) <= MaxLost /\ Asked(r, "lock", n)
  /\ Receive(r, n, "error")
  /\ \/ /\ holder[n] = "none"
        /\ holder' = [holder EXCEPT ![n] = "root"]
        /\ UNCHANGED late
     \/ late' = late \cup {n} /\ UNCHANGED holder
     \/ UNCHANGED <<holder, late>>
  /\ lost' = lost \cup {n}
  /\ UNCHANGED <<lastApply, orphans, lateUnlock, taken, scenario, running>>

LateLock(n) ==
  /\ n \in late
  /\ late' = late \ {n}
  /\ holder' = [holder EXCEPT ![n] = IF @ = "none" THEN "root" ELSE @]
  /\ UNCHANGED <<lastApply, orphans, lateUnlock, lost, taken, scenario,
                 daemon, phase, waiting, running, reply, ns>>

\* Mutated form of Locked: a run over its thresholds stops without unlocking.
LockedNoCleanup(r) ==
  /\ Complete(r, "lock")
  /\ LET locked == Answered(r, {"locked_by_user"})
         b == [ns[r] EXCEPT !.active = locked, !.locked = locked,
                 !.errored = @ \cup Answered(r, {"error"}),
                 !.lockedByAnother = Answered(r, {"locked_by_another"})]
     IN IF thresholdExceeded(r, b) THEN Enter(r, "done", b, {})
        ELSE Enter(r, "apply", b, locked)
  /\ UNCHANGED <<env, daemon, running>>

\* Mutated form of Locked: the threshold is compared before the merge.
LockedLateCheck(r) ==
  /\ Complete(r, "lock")
  /\ LET locked == Answered(r, {"locked_by_user"})
         b == [ns[r] EXCEPT !.active = locked, !.locked = locked,
                 !.errored = @ \cup Answered(r, {"error"}),
                 !.lockedByAnother = Answered(r, {"locked_by_another"})]
     IN IF thresholdExceeded(r, ns[r]) THEN Enter(r, "giveUp", b, locked)
        ELSE Enter(r, "apply", b, locked)
  /\ UNCHANGED <<env, daemon, running>>

\* The bucket of nodes locked by another is replaced: the nodes that lastApply
\* had put there are in no bucket any more.  Over a threshold the nodes locked
\* so far are unlocked.
Locked(r) ==
  /\ Complete(r, "lock")
  /\ LET locked == Answered(r, {"locked_by_user"})
         b == [ns[r] EXCEPT !.active = locked, !.locked = locked,
                 !.errored = @ \cup Answered(r, {"error"}),
                 !.lockedByAnother = Answered(r, {"locked_by_another"})]
     IN IF thresholdExceeded(r, b) THEN Enter(r, "giveUp", b, locked)
        ELSE Enter(r, "apply", b, locked)
  /\ UNCHANGED <<env, daemon, running>>

-----------------------------------------------------------------------------
(* hecklerApply on every active node, and what becomes of the process.     *)

ApplyStart(r, n) ==
  /\ Asked(r, "apply", n) /\ n \notin running[r]
  /\ running' = [running EXCEPT ![r] = @ \cup {n}]
  /\ UNCHANGED <<env, daemon, phase, waiting, reply, ns>>

\* The report says applied or failed; a failed apply leaves the node dirty.
ApplyReply(r, n) ==
  /\ Asked(r, "apply", n) /\ n \in running[r]
  /\ running' = [running EXCEPT ![r] = @ \ {n}]
  /\ \/ /\ lastApply' = [lastApply EXCEPT ![n] = "at"]
        /\ Receive(r, n, "applied")
     \/ /\ lastApply' = [lastApply EXCEPT ![n] = "dirty"]
        /\ Receive(r, n, "failed")
  /\ UNCHANGED <<holder, orphans, late, lateUnlock, lost, taken, scenario>>

\* Ten minutes pass, or the connection breaks: rizzod's puppet goes on.
ApplyTimeout(r, n) ==
  /\ "apply" \in scenario.timeouts /\ Asked(r, "apply", n)
  /\ Receive(r, n, "error")
  /\ running' = [running EXCEPT ![r] = @ \ {n}]
  /\ orphans[n] < MaxOrphans
  /\ orphans' = [orphans EXCEPT ![n] = IF n \in running[r] THEN @ + 1 ELSE @]
  /\ UNCHANGED <<holder, lastApply, late, lateUnlock, lost, taken, scenario>>

OrphanExit(n) ==
  /\ orphans[n] > 0
  /\ orphans' = [orphans EXCEPT ![n] = @ - 1]
  /\ \E v \in {"at", "dirty"} : lastApply' = [lastApply EXCEPT ![n] = v]
  /\ UNCHANGED <<holder, late, lateUnlock, lost, taken, scenario,
                 daemon, phase, waiting, running, reply, ns>>

\* Mutated form of Applied: the first error ends the wait for the other nodes.
AppliedEarly(r) ==
  /\ InPhase(r, "apply")
  /\ waiting[r] = {} \/ Answered(r, {"failed", "error"}) # {}
  /\ Enter(r, "unlock",
           [ns[r] EXCEPT !.applied = Answered(r, {"applied"}),
                         !.errored = @ \cup Answered(r, {"failed", "error"})],
           ns[r].locked)
  /\ UNCHANGED <<env, daemon, running>>

Applied(r) ==
  /\ Complete(r, "apply")
  /\ Enter(r, "unlock",
           [ns[r] EXCEPT !.applied = Answered(r, {"applied"}),
                         !.errored = @ \cup Answered(r, {"failed", "error"})],
           ns[r].locked)
  /\ UNCHANGED <<env, daemon, running>>

-----------------------------------------------------------------------------
(* unlockNodeSet, on the nodes of the locked bucket.                       *)

Unlocking(r, n) == Asked(r, "unlock", n) \/ Asked(r, "giveUp", n)

\* An unlock of unlockAll may be of a node that a run has locked since.
UnlockReply(r, n) ==
  /\ Unlocking(r, n)
  /\ \/ /\ holder[n] \in {"none", "root"}
        /\ holder' = [holder EXCEPT ![n] = "none"]
        /\ Receive(r, n, "unlocked")
        /\ IF r = Unlocker THEN TakeFromRun(n) ELSE UNCHANGED taken
     \/ /\ holder[n] = "user"
        /\ Receive(r, n, "locked_by_another")
        /\ UNCHANGED <<holder, taken>>
  /\ UNCHANGED <<lastApply, orphans, late, lateUnlock, lost, scenario, running>>

\* The deadline of an unlock RPC passes; the request may have had its effect, may
\* have it later, or may never have it.
UnlockTimeout(r, n) ==
  /\ "unlock" \in scenario.timeouts /\ Cardinality(lost \cup {n}) <= MaxLost /\ Unlocking(r, n)
  /\ Receive(r, n, "error")
  /\ \/ /\ holder[n] = "root"
        /\ holder' = [holder EXCEPT ![n] = "none"]
        /\ IF r = Unlocker THEN TakeFromRun(n) ELSE UNCHANGED taken
        /\ UNCHANGED lateUnlock
     \/ lateUnlock' = lateUnlock \cup {n} /\ UNCHANGED <<holder, taken>>
     \/ UNCHANGED <<holder, lateUnlock, taken>>
  /\ lost' = lost \cup {n}
  /\ UNCHANGED <<lastApply, orphans, late, scenario, running>>

\* By the time it is served another run may have the lock, as the same user.
LateUnlock(n) ==
  /\ n \in lateUnlock
  /\ lateUnlock' = lateUnlock \ {n}
  /\ \/ /\ holder[n] = "root"
        /\ holder' = [holder EXCEPT ![n] = "none"]
        /\ TakeFromRun(n)
     \/ holder[n] # "root" /\ UNCHANGED <<holder, taken>>
  /\ UNCHANGED <<lastApply, orphans, late, lost, scenario,
                 daemon, phase, waiting, running, reply, ns>>

Unlocked(r) ==
  /\ Complete(r, "unlock") \/ Complete(r, "giveUp")
  /\ LET b == [ns[r] EXCEPT
                 !.active = IF InPhase(r, "unlock") /\ r \in Applier
                            THEN ns[r].applied \cup ns[r].beyondRev
                            ELSE Answered(r, {"unlocked"}),
                 !.locked = {},
                 !.errored = @ \cup Answered(r, {"error"}),
                 !.lockedByAnother = @ \cup Answered(r, {"locked_by_another"})]
     IN Enter(r, "done", b, {})
  /\ daemon' = IF r = Unlocker /\ daemon = "boot" THEN "up" ELSE daemon
  /\ UNCHANGED <<env, running>>

\* The caller reports and forgets the node set.
Finish(r) ==
  /\ InPhase(r, "done") /\ r \in Applier
  /\ Enter(r, "idle", NoNodes, {})
  /\ UNCHANGED <<env, daemon, running>>

-----------------------------------------------------------------------------
(* hecklerd's life.                                                        *)

\* Lock and unlock requests on the wire when hecklerd dies may still be served.
OnTheWire == {n \in Node : \E r \in Applier : Asked(r, "lock", n)}
UnlocksOnTheWire == {n \in Node : \E r \in Run : Unlocking(r, n)}

\* Mutated form of Die: nothing is unlocked before the loops start again.
DieNoUnlock ==
  /\ daemon' = "up"
  /\ phase' = [r \in Run |-> "idle"]
  /\ waiting' = [r \in Run |-> {}]
  /\ running' = [r \in Run |-> {}]
  /\ reply' = [r \in Run |-> NoReply]
  /\ ns' = [r \in Run |-> NoNodes]
  /\ lost' = lost \cup {n \in Node : holder[n] = "root"}
  /\ taken' = {}
  /\ UNCHANGED <<holder, lastApply, late, lateUnlock, orphans, scenario>>

\* The process ends: its runs are gone, the puppet processes are not.
Die == /\ daemon' = "boot"
       /\ phase' = [r \in Run |-> "idle"]
       /\ waiting' = [r \in Run |-> {}]
       /\ running' = [r \in Run |-> {}]
       /\ reply' = [r \in Run |-> NoReply]
       /\ ns' = [r \in Run |-> NoNodes]
       /\ orphans' = [n \in Node |->
                        orphans[n] + Cardinality({r \in Run : n \in running[r]})]
       /\ \A n \in Node : orphans'[n] <= MaxOrphans
       /\ \E sent \in SUBSET OnTheWire :
            /\ sent # {} => "lock" \in scenario.timeouts
            /\ late' = late \cup sent
            /\ lost' = lost \cup sent \cup {n \in Node : holder[n] = "root"}
       /\ \E sent \in SUBSET UnlocksOnTheWire :
            /\ sent # {} => "unlock" \in scenario.timeouts
            /\ lateUnlock' = lateUnlock \cup sent
       /\ taken' = {}
       /\ UNCHANGED <<holder, lastApply, scenario>>

Crash == scenario.deaths /\ Die

\* On SIGTERM the signal goroutine runs unlockAll beside the runs, waits for the
\* RPCs of the command line, and ends the process.
Sigterm == /\ scenario.deaths /\ daemon = "up"
           /\ daemon' = "stopping"
           /\ phase' = [phase EXCEPT ![Unlocker] = "idle"]
           /\ UNCHANGED <<env, waiting, running, reply, ns>>

Exit == /\ daemon = "stopping" /\ InPhase(Unlocker, "done")
        /\ \A r \in Cli : InPhase(r, "idle")
        /\ Die

-----------------------------------------------------------------------------
(* The nodes' users, who lock a node with their own account, or override   *)
(* the lock that root has.                                                 *)

User(n) ==
  /\ \/ /\ holder[n] = "none"
        /\ holder' = [holder EXCEPT ![n] = "user"]
        /\ UNCHANGED lastApply
     \/ /\ holder[n] = "user"
        /\ holder' = [holder EXCEPT ![n] = "none"]
        /\ UNCHANGED lastApply
     \/ /\ holder[n] = "user"                      \* applies a branch by hand
        /\ \E v \in {"behind", "dirty"} : lastApply' = [lastApply EXCEPT ![n] = v]
        /\ UNCHANGED holder
  /\ UNCHANGED <<orphans, late, lateUnlock, lost, taken, scenario,
                 daemon, phase, waiting, running, reply, ns>>

Override(n) ==
  /\ scenario.overrides /\ holder[n] = "root"
  /\ \E h \in {"none", "user"} : holder' = [holder EXCEPT ![n] = h]
  /\ TakeFromRun(n)
  /\ UNCHANGED <<lastApply, orphans, late, lateUnlock, lost, scenario,
                 daemon, phase, waiting, running, reply, ns>>

Step(r) == \/ Eligible(r) \/ LastApplied(r) \/ Locked(r) \/ Applied(r)
           \/ Unlocked(r) \/ Finish(r)

Rpc(r, n) == \/ StateReply(r, n) \/ LastApplyReply(r, n)
             \/ LockReply(r, n) \/ LockTimeout(r, n)
             \/ ApplyStart(r, n) \/ ApplyReply(r, n) \/ ApplyTimeout(r, n)
             \/ UnlockReply(r, n) \/ UnlockTimeout(r, n)

Next == \/ \E r \in Applier : Start(r)
        \/ StartUnlockAll
        \/ \E r \in Run : Step(r) \/ \E n \in Node : Rpc(r, n)
        \/ \E n \in scenario.hosts : \/ LateLock(n) \/ LateUnlock(n) \/ OrphanExit(n)
                                     \/ User(n) \/ Override(n)
        \/ Crash \/ Sigterm \/ Exit

Spec == Init /\ [][Next]_vars

-----------------------------------------------------------------------------
(* Properties.                                                             *)

\* The apply loop and the command line lock as the same user, yet whatever is lost or
\* dies, a node's lock belongs to one run, which keeps it while its puppet process
\* runs, unless the lock is taken from it: by a user, by unlockAll at the start or the
\* end of hecklerd, or by an unlock request that is served after its deadline.
RunsExclude ==
  /\ taken # {} =>
       scenario.overrides \/ scenario.deaths \/ "unlock" \in scenario.timeouts
  /\ \A r \in Applier :
       /\ \A n \in Mine(r) \ taken : holder[n] = "root"
       /\ \A q \in Applier \ {r} : Mine(r) \cap Mine(q) \subseteq taken
       /\ running[r] \subseteq Mine(r)

\* No two runs have puppet run on a node whose lock was not taken; and when hecklerd
\* does not die and no apply outlives its deadline, nobody else's puppet runs there.
OnePuppetPerNode ==
  \A n \in Node \ taken :
    LET puppets == Cardinality({r \in Run : n \in running[r]})
    IN /\ puppets <= 1
       /\ "apply" \notin scenario.timeouts /\ ~scenario.deaths => orphans[n] + puppets <= 1

AHolder(n) == CHOOSE r \in Holders(n) : TRUE

\* Whose node n is: the run's that counts on its lock, unless it was taken from it.
Owner(n) == IF n \in taken THEN "contested"
            ELSE IF Holders(n) # {} THEN AHolder(n)
                 ELSE CASE holder[n] = "none" -> "free"
                        [] holder[n] = "root" -> "stray"
                        [] OTHER -> "user"

Busy(n) == n \notin taken /\ \E r \in Applier : n \in running[r]

Own(n) == INSTANCE NodeOwnership WITH Run <- Applier, owner <- Owner(n), busy <- Busy(n)

\* On every node of every node set the phases of the runs, the replies, deadlines and
\* deaths amount to the promise of NodeOwnership.
ImplementsOwnership ==
  /\ \A n \in scenario.hosts : Own(n)!Init
  /\ [][\A n \in scenario.hosts : UNCHANGED <<Owner(n), Busy(n)>> \/ Own(n)!Next]_vars

\* Whatever path a run takes, thresholds exceeded included, it leaves no lock
\* behind, except on nodes where a lock RPC or hecklerd itself was lost.
NoLeakedLock ==
  \A n \in Node : holder[n] = "root" =>
     n \in lost \cup UNION {Mine(r) : r \in Applier}

\* unlockAll came to an end without a list of the nodes.
Unlisted == InPhase(Unlocker, "done") /\ ns[Unlocker] = NoNodes

\* When the loops run and no lock or unlock RPC is lost, a lock that root has and no run
\* knows of is on a node that unlockAll has put down as an error, or unlockAll could not
\* list the nodes at all: those are the locks of a dead hecklerd that stay for good.
CleanStart ==
  daemon = "up" /\ scenario.timeouts \cap {"lock", "unlock"} = {} =>
    \A n \in Node : holder[n] = "root" =>
       \/ \E r \in Applier : n \in Mine(r)
       \/ n \in ns[Unlocker].errored
       \/ Unlisted

\* How many nodes an apply of the loop may leave out, when both thresholds are set.
\* The nodes found locked by lastApplyNodeSet and those found locked by lockNodeSet
\* are each held against the threshold alone, so it counts twice.
MissingBound ==
  \A r \in Loop :
    InPhase(r, "apply") /\ scenario.errored >= 0 /\ scenario.lockedByAnother >= 0 =>
      Cardinality(scenario.hosts \ (ns[r].active \cup ns[r].beyondRev))
        <= scenario.errored + 2 * scenario.lockedByAnother
=============================================================================
