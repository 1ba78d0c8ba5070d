----------------------------- MODULE NoopApproved -----------------------------
(***************************************************************************)
(* Who may approve a noop.  The resources that a commit changes are owned, *)
(* by CODEOWNERS, through their source file, their module and the files of *)
(* the nodes they are on; owners are users and groups.                     *)
(***************************************************************************)

CONSTANTS User, Group,
          Member,     \* the members of each group
          AdminOwner, \* admin_owners of the configuration
          Resource

Owner == User \cup Group

ASSUME NoopApprovedAssumption ==
  /\ User \cap Group = {}
  /\ Member \in [Group -> SUBSET User]
  /\ AdminOwner \subseteq User

\* The owners of a resource; one set for each node file of the resource's nodes.
\* A file, module or node file without owners has the empty set.
Owners == [file : SUBSET Owner, module : SUBSET Owner, nodeFiles : SUBSET SUBSET Owner]

\* The groups whose members are asked of GitHub: those that own a source file or
\* a node file of one of the resources, not those that own a module alone.
groups(resources, co) ==
  Group \cap UNION {co[r].file \cup UNION co[r].nodeFiles : r \in resources}

\* The approvers among owners, once the groups asked for are expanded.
intersectionOwnersApprovers(owners, approvers, asked) ==
  approvers \cap ((owners \ asked) \cup UNION {Member[g] : g \in owners \cap asked})

\* A resource is approved by an owner of its source file, an owner of its module,
\* or an owner of every node file.
resourceApproved(o, approvers, asked) ==
  LET valid(owners) == intersectionOwnersApprovers(owners, approvers, asked)
  IN \/ valid(o.file) # {}
     \/ valid(o.module) # {}
     \/ o.nodeFiles # {} /\ \A nodeFile \in o.nodeFiles : valid(nodeFile) # {}

resourcesApproved(resources, co, approvers) ==
  \A r \in resources : resourceApproved(co[r], approvers, groups(resources, co))

\* Authors do not approve their own commits as owners, and without known authors
\* no owner can approve; an admin can in any case.
noopApproved(resources, co, approvers, authors) ==
  \/ authors # {} /\ resourcesApproved(resources, co, approvers \ authors)
  \/ AdminOwner \cap approvers # {}

\* Changes, or the failure to evaluate on some node, need an approval.
noopRequiresApproval(report) == report.resources # {} \/ report.evalErrors

-----------------------------------------------------------------------------
(* What the documentation promises of an approval.                         *)

\* The people behind a set of owners.
People(owners) == (owners \cap User) \cup UNION {Member[g] : g \in owners \cap Group}

\* "Ownership may be specified by node, file, or module."
OwnsAll(resources, co, approvers) ==
  \A r \in resources :
     \/ approvers \cap People(co[r].file) # {}
     \/ approvers \cap People(co[r].module) # {}
     \/ /\ co[r].nodeFiles # {}
        /\ \A nodeFile \in co[r].nodeFiles : approvers \cap People(nodeFile) # {}

\* Somebody other than the authors approved every resource, or an admin did.
Reviewed(resources, co, approvers, authors) ==
  \/ OwnsAll(resources, co, approvers \ authors)
  \/ AdminOwner \cap approvers # {}
=============================================================================
