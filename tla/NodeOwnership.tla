---------------------------- MODULE NodeOwnership ----------------------------
(***************************************************************************)
(* What the runs of hecklerd promise about one node: whose it is, and      *)
(* whether its owner has puppet run on it.  A run takes a node that is     *)
(* free, has one puppet run there at most, and gives the node back when    *)
(* that is over.  Nobody else comes by the node meanwhile, unless its lock *)
(* is taken from the run: then nothing is promised any more until the run  *)
(* is over.  The runs over node sets implement it one RPC at a time, and   *)
(* so do the rounds of the clean loop.                                     *)
(***************************************************************************)
CONSTANT Run          \* runs that lock and apply

VARIABLES owner,      \* a run, "user", "free", "stray": locked, and nobody knows,
                      \* or "contested": taken from the run that counts on it
          busy        \* whether the owner waits for puppet on the node

vars == <<owner, busy>>

Init == owner \in {"free", "user"} /\ busy = FALSE

Take(r) == owner = "free" /\ owner' = r /\ UNCHANGED busy

StartPuppet(r) == owner = r /\ ~busy /\ busy' = TRUE /\ UNCHANGED owner

\* Puppet has answered, or the run waits for it no longer.
EndPuppet(r) == owner = r /\ busy /\ busy' = FALSE /\ UNCHANGED owner

\* An unlock RPC that is lost may leave the node locked.
Leave(r) == owner = r /\ ~busy /\ owner' \in {"free", "stray"} /\ UNCHANGED busy

\* A lock RPC that is lost may lock the node.
Stray == owner = "free" /\ owner' = "stray" /\ UNCHANGED busy

\* unlockAll, a user or a late unlock request free a node that nobody knew was locked.
Clear == owner = "stray" /\ owner' = "free" /\ UNCHANGED busy

TakeAway(r) == owner = r /\ owner' = "contested" /\ busy' = FALSE

UserLocks == owner \in {"free", "stray"} /\ owner' = "user" /\ UNCHANGED busy

UserUnlocks == owner = "user" /\ owner' = "free" /\ UNCHANGED busy

\* The runs die.  What they had locked stays locked.
Die == /\ \/ owner \in Run /\ owner' = "stray"
          \/ owner = "contested" /\ owner' \in {"free", "stray", "user"}
       /\ busy' = FALSE

Next == \/ \E r \in Run : \/ Take(r) \/ StartPuppet(r) \/ EndPuppet(r)
                          \/ Leave(r) \/ TakeAway(r)
        \/ Stray \/ Clear \/ UserLocks \/ UserUnlocks \/ Die

Spec == Init /\ [][Next]_vars
=============================================================================
