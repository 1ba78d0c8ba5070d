------------------------------ MODULE MCRelease ------------------------------
(***************************************************************************)
(* Release with one or two commits, each in a tag of its own.  bob wrote   *)
(* the first, alice the second; both are muppets, and carol is an admin.   *)
(***************************************************************************)
EXTENDS Release, TLC

CONSTANTS alice, bob, carol, muppets, file, service

Members == muppets :> {alice, bob}

OneTag == 1 :> 1
OneAuthor == 1 :> {bob}
TwoTags == 1 :> 1 @@ 2 :> 2
TwoAuthors == 1 :> {bob} @@ 2 :> {alice}

Nothing == [resources |-> {}, evalErrors |-> FALSE]
Broken == [resources |-> {}, evalErrors |-> TRUE]
Changes == [resources |-> {file, service}, evalErrors |-> FALSE]
AnyNoop == {1 :> Nothing, 1 :> Broken, 1 :> Changes}
OneChanges == {1 :> Changes @@ 2 :> Nothing, 1 :> Nothing @@ 2 :> Changes}
OneBroken == {1 :> Broken}

ByFile == [file |-> {muppets}, module |-> {}, nodeFiles |-> {}]
ByModule == [file |-> {}, module |-> {alice}, nodeFiles |-> {{bob}}]
ByNode == [file |-> {}, module |-> {}, nodeFiles |-> {{muppets}, {bob}}]
TwoVersions == {file :> ByFile @@ service :> ByModule, file :> ByNode @@ service :> ByFile}
=============================================================================
