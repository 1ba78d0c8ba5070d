------------------------------- MODULE NodeLock -------------------------------
(***************************************************************************)
(* What the Puppet lock of one node promises to its callers, as an atomic  *)
(* object.  A request is received, takes effect at one instant between its *)
(* receipt and its reply (or has no effect and is answered lock_unknown),  *)
(* and is answered.  A lock is granted only when nobody holds it, unless   *)
(* the request forces it, and it is released only by its holder, unless    *)
(* the request forces it.  RizzoLock is the implementation, one system     *)
(* call at a time.                                                         *)
(***************************************************************************)
CONSTANTS User,       \* names a lock request may carry
          NoUser,     \* nobody holds the lock
          Handler     \* requests in service at the same time

VARIABLES holder,     \* the user who holds the lock, or NoUser
          op,         \* the request each handler serves, or NoOp
          outcome     \* what has been decided for it, or "undecided"

vars == <<holder, op, outcome>>

Request == [type : {"lock", "unlock", "state"}, user : User, force : BOOLEAN]
NoOp == [type |-> "none", user |-> NoUser, force |-> FALSE]

Status == {"lock_unknown", "locked_by_user", "locked_by_another", "unlocked"}

Init == /\ holder = NoUser
        /\ op = [h \in Handler |-> NoOp]
        /\ outcome = [h \in Handler |-> "undecided"]

Receive(h) == /\ op[h] = NoOp
              /\ \E r \in Request : op' = [op EXCEPT ![h] = r]
              /\ UNCHANGED <<holder, outcome>>

Pending(h) == op[h] # NoOp /\ outcome[h] = "undecided"

Decide(h, status) == outcome' = [outcome EXCEPT ![h] = status]

\* A lock is granted when it is free or forced, and refused otherwise, even to
\* the user who holds it already.
Lock(h) == /\ Pending(h) /\ op[h].type = "lock"
           /\ \/ /\ holder = NoUser \/ op[h].force
                 /\ holder' = op[h].user
                 /\ Decide(h, "locked_by_user")
              \/ /\ holder # NoUser /\ ~op[h].force
                 /\ Decide(h, "locked_by_another")
                 /\ UNCHANGED holder
           /\ UNCHANGED op

\* An unlock of a free lock succeeds; of a held one, for its holder or by force.
Unlock(h) == /\ Pending(h) /\ op[h].type = "unlock"
             /\ \/ /\ holder \in {NoUser, op[h].user} \/ op[h].force
                   /\ holder' = NoUser
                   /\ Decide(h, "unlocked")
                \/ /\ holder \notin {NoUser, op[h].user} /\ ~op[h].force
                   /\ Decide(h, "locked_by_another")
                   /\ UNCHANGED holder
             /\ UNCHANGED op

State(h) == /\ Pending(h) /\ op[h].type = "state"
            /\ Decide(h, IF holder = NoUser THEN "unlocked"
                         ELSE IF holder = op[h].user THEN "locked_by_user"
                         ELSE "locked_by_another")
            /\ UNCHANGED <<holder, op>>

\* A request may fail without effect.
Fail(h) == /\ Pending(h)
           /\ Decide(h, "lock_unknown")
           /\ UNCHANGED <<holder, op>>

\* An answer that describes somebody's lock may be lost to an error; an answer
\* that reports an effect never is.
Degrade(h) == /\ \/ outcome[h] = "locked_by_another"
                 \/ outcome[h] = "locked_by_user" /\ op[h].type = "state"
              /\ Decide(h, "lock_unknown")
              /\ UNCHANGED <<holder, op>>

Reply(h) == /\ outcome[h] # "undecided"
            /\ op' = [op EXCEPT ![h] = NoOp]
            /\ outcome' = [outcome EXCEPT ![h] = "undecided"]
            /\ UNCHANGED holder

\* The service stops: requests are forgotten, the lock is not.
Crash == /\ op' = [h \in Handler |-> NoOp]
         /\ outcome' = [h \in Handler |-> "undecided"]
         /\ UNCHANGED holder

Next == \/ \E h \in Handler : \/ Receive(h) \/ Lock(h) \/ Unlock(h) \/ State(h)
                              \/ Fail(h) \/ Degrade(h) \/ Reply(h)
        \/ Crash

Spec == Init /\ [][Next]_vars
=============================================================================
