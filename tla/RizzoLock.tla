------------------------------ MODULE RizzoLock ------------------------------
(***************************************************************************)
(* The Puppet lock of one node, as rizzod serves it: the lock is the file  *)
(* /var/tmp/puppet.lock, its owner on disk is the holder, and every RPC    *)
(* handler runs on a goroutine of its own, without a mutex, so that the    *)
(* handlers interleave at each system call on the file.  The sessions are  *)
(* the callers: a goroutine of hecklerd (user root) or a user's command.   *)
(***************************************************************************)
CONSTANTS User,            \* names a lock request may carry
          LocalUser,       \* those with an account on the node
          NoUser,          \* the lock file does not exist
          Session,         \* callers, each with one request out at a time
          UserOf,          \* [Session -> User]
          Handler,         \* requests in service at the same time
          NoHandler,
          AllowForce,      \* callers may pass Force
          AllowTimeout,    \* callers give up after ten seconds
          AllowCrash,      \* rizzod may be killed and started again
          AllowLinkError   \* link(2) may fail for a reason other than EEXIST

ASSUME RizzoLockAssumption ==
  /\ LocalUser \subseteq User
  /\ NoUser \notin User
  /\ UserOf \in [Session -> User]
  /\ NoHandler \notin Handler
  /\ {AllowForce, AllowTimeout, AllowCrash, AllowLinkError} \subseteq BOOLEAN

VARIABLES lockFile,   \* owner of the lock file, or NoUser
          pc,         \* next system call of each handler
          req,        \* the request it serves
          seen,       \* the owner its stat(2) of the file returned
          out,        \* the status it replies
          call,       \* the handler each session waits for, or NoHandler
          holds       \* what the session may conclude from the replies: told
                      \* it has the lock, and has not asked to unlock since

vars == <<lockFile, pc, req, seen, out, call, holds>>

Request == [type : {"lock", "unlock", "state"}, user : User, force : BOOLEAN]
NoReq == [type |-> "none", user |-> NoUser, force |-> FALSE]
Status == {"lock_unknown", "locked_by_user", "locked_by_another", "unlocked"}
PC == {"idle", "prepare", "link", "rename", "stat", "owner", "comment",
       "remove", "reply"}

TypeOK == /\ lockFile \in LocalUser \cup {NoUser}
          /\ pc \in [Handler -> PC]
          /\ req \in [Handler -> Request \cup {NoReq}]
          /\ seen \in [Handler -> LocalUser \cup {NoUser}]
          /\ out \in [Handler -> Status]
          /\ call \in [Session -> Handler \cup {NoHandler}]
          /\ holds \in [Session -> BOOLEAN]
          /\ \A h \in Handler : req[h] = NoReq <=> pc[h] = "idle"

Init == /\ lockFile = NoUser
        /\ pc = [h \in Handler |-> "idle"]
        /\ req = [h \in Handler |-> NoReq]
        /\ seen = [h \in Handler |-> NoUser]
        /\ out = [h \in Handler |-> "lock_unknown"]
        /\ call = [s \in Session |-> NoHandler]
        /\ holds = [s \in Session |-> FALSE]

-----------------------------------------------------------------------------
(* The callers.                                                            *)

Send(s, h) ==
  /\ call[s] = NoHandler /\ pc[h] = "idle"
  /\ \E r \in Request :
       /\ r.user = UserOf[s]
       /\ r.force => AllowForce /\ r.type # "state"
       /\ req' = [req EXCEPT ![h] = r]
       /\ pc' = [pc EXCEPT ![h] = IF r.type = "lock" THEN "prepare" ELSE "stat"]
       /\ holds' = [holds EXCEPT ![s] = holds[s] /\ r.type # "unlock"]
  /\ call' = [call EXCEPT ![s] = h]
  /\ UNCHANGED <<lockFile, seen, out>>

\* The caller's deadline passes.  The handler does not look at its context and
\* goes on; its reply will be dropped.
GiveUp(s) ==
  /\ AllowTimeout /\ call[s] # NoHandler
  /\ call' = [call EXCEPT ![s] = NoHandler]
  /\ UNCHANGED <<lockFile, pc, req, seen, out, holds>>

Deliver(h) ==
  /\ pc[h] = "reply"
  /\ holds' = [s \in Session |->
                 holds[s] \/ /\ call[s] = h
                             /\ req[h].type = "lock"
                             /\ out[h] = "locked_by_user"]
  /\ call' = [s \in Session |-> IF call[s] = h THEN NoHandler ELSE call[s]]
  /\ pc' = [pc EXCEPT ![h] = "idle"]
  /\ req' = [req EXCEPT ![h] = NoReq]
  /\ seen' = [seen EXCEPT ![h] = NoUser]
  /\ out' = [out EXCEPT ![h] = "lock_unknown"]
  /\ UNCHANGED lockFile

-----------------------------------------------------------------------------
(* The handlers, one action per system call on the lock file.              *)

Goto(h, l) == pc' = [pc EXCEPT ![h] = l]

Answer(h, status) == /\ Goto(h, "reply")
                     /\ out' = [out EXCEPT ![h] = status]

\* Mutated form of Prepare: the error of the account lookup is ignored.
PrepareUnknownAccount(h) ==
  /\ pc[h] = "prepare"
  /\ Goto(h, IF req[h].force THEN "rename" ELSE "link")
  /\ UNCHANGED <<lockFile, req, seen, out, call, holds>>

\* puppetLock writes a temporary file and gives it to the locker's account,
\* which must exist on this node.
Prepare(h) ==
  /\ pc[h] = "prepare"
  /\ \/ /\ req[h].user \notin LocalUser
        /\ Answer(h, "lock_unknown")
     \/ /\ req[h].user \in LocalUser
        /\ Goto(h, IF req[h].force THEN "rename" ELSE "link")
        /\ UNCHANGED out
  /\ UNCHANGED <<lockFile, req, seen, call, holds>>

Rename(h) ==
  /\ pc[h] = "rename"
  /\ lockFile' = req[h].user
  /\ Answer(h, "locked_by_user")
  /\ UNCHANGED <<req, seen, call, holds>>

\* Mutated form of Link: the file is renamed into place without a check.
LinkOverwrites(h) ==
  /\ pc[h] = "link"
  /\ lockFile' = req[h].user
  /\ Answer(h, "locked_by_user")
  /\ UNCHANGED <<req, seen, call, holds>>

\* link(2) fails with EEXIST when the lock file is there, whoever owns it.
Link(h) ==
  /\ pc[h] = "link"
  /\ \/ /\ lockFile = NoUser
        /\ lockFile' = req[h].user
        /\ Answer(h, "locked_by_user")
     \/ /\ lockFile # NoUser
        /\ Goto(h, "owner")
        /\ UNCHANGED <<lockFile, out>>
  /\ UNCHANGED <<req, seen, call, holds>>

\* Only EEXIST is looked for: any other error takes the branch of success.
LinkError(h) ==
  /\ AllowLinkError /\ pc[h] = "link"
  /\ Answer(h, "locked_by_user")
  /\ UNCHANGED <<lockFile, req, seen, call, holds>>

\* puppetUnlock and puppetLockState first ask whether the file exists.
Stat(h) ==
  /\ pc[h] = "stat"
  /\ \/ lockFile = NoUser /\ Answer(h, "unlocked")
     \/ lockFile # NoUser /\ Goto(h, "owner") /\ UNCHANGED out
  /\ UNCHANGED <<lockFile, req, seen, call, holds>>

\* Mutated form of Owner: an unlock does not compare the owner.
OwnerUnchecked(h) ==
  /\ pc[h] = "owner"
  /\ \/ lockFile = NoUser /\ Answer(h, "lock_unknown") /\ UNCHANGED seen
     \/ /\ lockFile # NoUser
        /\ seen' = [seen EXCEPT ![h] = lockFile]
        /\ Goto(h, IF req[h].type = "unlock" THEN "remove" ELSE "comment")
        /\ UNCHANGED out
  /\ UNCHANGED <<lockFile, req, call, holds>>

\* lockOwner, and what each request does with the owner it returns.
Owner(h) ==
  /\ pc[h] = "owner"
  /\ \/ /\ lockFile = NoUser
        /\ Answer(h, "lock_unknown")
        /\ UNCHANGED seen
     \/ /\ lockFile # NoUser
        /\ seen' = [seen EXCEPT ![h] = lockFile]
        /\ Goto(h, IF /\ req[h].type = "unlock"
                      /\ req[h].user = lockFile \/ req[h].force
                   THEN "remove" ELSE "comment")
        /\ UNCHANGED out
  /\ UNCHANGED <<lockFile, req, call, holds>>

\* Mutated form of Comment: a lock request of the owner is granted again.
CommentReentrant(h) ==
  /\ pc[h] = "comment"
  /\ Answer(h, IF lockFile = NoUser THEN "lock_unknown"
               ELSE IF seen[h] = req[h].user
                    THEN "locked_by_user" ELSE "locked_by_another")
  /\ UNCHANGED <<lockFile, req, seen, call, holds>>

\* lockComment reads the file; a lock request is refused even when the owner
\* is the requester, a state request compares the two.
Comment(h) ==
  /\ pc[h] = "comment"
  /\ Answer(h, IF lockFile = NoUser THEN "lock_unknown"
               ELSE IF req[h].type = "state" /\ seen[h] = req[h].user
                    THEN "locked_by_user" ELSE "locked_by_another")
  /\ UNCHANGED <<lockFile, req, seen, call, holds>>

\* The file is removed by name, whoever owns it by now.
Remove(h) ==
  /\ pc[h] = "remove"
  /\ \/ lockFile = NoUser /\ Answer(h, "lock_unknown")
     \/ lockFile # NoUser /\ Answer(h, "unlocked")
  /\ lockFile' = NoUser
  /\ UNCHANGED <<req, seen, call, holds>>

\* rizzod dies: its handlers are gone, their callers get an error, and the
\* file stays.
Crash ==
  /\ AllowCrash
  /\ pc' = [h \in Handler |-> "idle"]
  /\ req' = [h \in Handler |-> NoReq]
  /\ seen' = [h \in Handler |-> NoUser]
  /\ out' = [h \in Handler |-> "lock_unknown"]
  /\ call' = [s \in Session |-> NoHandler]
  /\ UNCHANGED <<lockFile, holds>>

Serve(h) == \/ Prepare(h) \/ Rename(h) \/ Link(h) \/ LinkError(h) \/ Stat(h)
            \/ Owner(h) \/ Comment(h) \/ Remove(h)

Next == \/ \E s \in Session : GiveUp(s) \/ \E h \in Handler : Send(s, h)
        \/ \E h \in Handler : Serve(h) \/ Deliver(h)
        \/ Crash

Spec == Init /\ [][Next]_vars

-----------------------------------------------------------------------------
(* Properties.                                                             *)

\* The sessions' users are different, nobody forces, gives up or meets a failing
\* link: what a lock needs to exclude.
Exclusive == /\ ~AllowForce /\ ~AllowTimeout /\ ~AllowLinkError
             /\ \A s, t \in Session : UserOf[s] = UserOf[t] => s = t

\* A session that was told it has the lock still owns the lock file: between its
\* reply and its own unlock nobody's link or remove touches it, although owner
\* check and remove(2) of an unlock are separate system calls.
HoldersOwnTheFile == \A s \in Session : holds[s] => lockFile = UserOf[s]

\* Two sessions are never both told that they have the lock.
MutualExclusion == \A s, t \in Session : holds[s] /\ holds[t] => s = t

\* The clauses that make HoldersOwnTheFile inductive: a request in service is
\* its caller's, a grant on its way is backed by the file, an unlock that passed
\* its owner check is still about its caller's own file, and who has an unlock
\* on the way does not count on the lock.
Served(s, h) == call[s] = h /\ pc[h] # "idle"

ExclusionInv ==
  /\ \A h \in Handler : pc[h] # "idle" => \E s \in Session : Served(s, h)
  /\ \A s \in Session, h \in Handler :
       call[s] = h => pc[h] # "idle" /\ req[h].user = UserOf[s] /\ ~req[h].force
  /\ \A h \in Handler :
       pc[h] = "reply" /\ req[h].type = "lock" /\ out[h] = "locked_by_user"
         => lockFile = req[h].user
  /\ \A h \in Handler :
       /\ pc[h] \in {"prepare", "link"} => req[h].type = "lock"
       /\ pc[h] = "stat" => req[h].type # "lock"
       /\ pc[h] = "link" => req[h].user \in LocalUser
       /\ pc[h] = "remove" => req[h].type = "unlock" /\ lockFile = req[h].user
       /\ pc[h] # "rename"
  /\ \A s \in Session, h \in Handler :
       Served(s, h) /\ req[h].type = "unlock" => ~holds[s]
  /\ HoldersOwnTheFile

\* The owner of an existing lock file changes only by the rename of a forced
\* request: a lock that is not forced links, so as not to overwrite.
TakeoverOnlyByForce ==
  [][ lockFile # NoUser /\ lockFile' \notin {NoUser, lockFile}
        => \E h \in Handler : req[h].force /\ req[h].user = lockFile' ]_vars

\* What NodeLock calls decided, in terms of the program counter: a refused lock
\* is decided at its link, a query at its stat of the owner, everything else
\* when its reply is computed.
Outcome(h) ==
  CASE pc[h] = "reply" -> out[h]
    [] pc[h] = "owner" /\ req[h].type = "lock" -> "locked_by_another"
    [] pc[h] = "comment" -> IF req[h].type = "state" /\ seen[h] = req[h].user
                            THEN "locked_by_user" ELSE "locked_by_another"
    [] OTHER -> "undecided"

Abstract == INSTANCE NodeLock
              WITH holder <- lockFile,
                   op <- req,
                   outcome <- [h \in Handler |-> Outcome(h)]

\* Under Exclusive the handlers implement the atomic lock: every request takes
\* effect at one of its system calls, or fails without effect.
ImplementsNodeLock == Abstract!Spec
=============================================================================
