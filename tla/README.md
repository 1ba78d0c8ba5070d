# Heckler in TLA+

TLA+ models, model checking and machine-checked proofs for Heckler, which brings the commits of a
Puppet repository to a fleet of nodes: it noops every commit, asks the owners of what changes for
approval on GitHub, and applies the release tags that are approved. `hecklerd` is the server,
`rizzod` the agent on each node, `heckler` the command line.

Below, H is `src/cmd/hecklerd/main.go`, Z is `src/cmd/rizzod/main.go`, G is
`src/internal/gitutil/gitutil.go` and RB is
`src/manifests/vendor/heckler/lib/puppet/reports/heckler.rb`.

## 1. Inventory

| Component | State | Operations | Talks to |
|---|---|---|---|
| Node lock (Z 104-293) | the file `/var/tmp/puppet.lock`; its owner on disk is the holder | lock, forced lock, unlock, forced unlock, state; each RPC on its own goroutine, no mutex | callers through gRPC with a 10 s deadline (H 2647) |
| Apply of rizzod (Z 50-102, 295-384; RB) | the checkout, one report file per commit, the last apply's report | PuppetApply, PuppetLastApply | git, puppet and its report processor |
| Git helpers (G) | repositories | clone or open, fast forward, pull, checkout, reset | libgit2 |
| Runs over node sets (H 1461-1575, 2552-2733, 3769-3798, 4119-4260) | a `NodeSet`: buckets active, errored, locked by another, beyond rev; thresholds | dial, lock state, last apply, lock, apply, unlock, unlockAll | the lock and PuppetApply of every node |
| Noop files (H 534-741) | one JSON per node and commit, valid for one last apply; one grouped report per commit | loadNoop, noopNodeSet, marshalReport | rizzod |
| Delta noop (H 743-955, 1034-1210) | none: functions on reports | subtractNoops, groupReportNodeSet, groupResources | - |
| Clean loop (H 4294-4368, 4640-4780) | `nodeDirtyNoops`: per dirty node its revision, the commits nooped, a saved report | query dirty nodes, lock, noop commit after commit, apply the first without differences, unlock, report | rizzod, GitHub, users at the node |
| Issue tracking (H 1816-2075, 4397-4640, 4839-4916) | cached issue numbers; commit issues and error issues on GitHub; locks of user `heckler` | create, look up, delete duplicates, report errors | GitHub, the lock |
| Approval (H 3110-3228, 3263-3377, 3562-3741) | none: functions of noop, CODEOWNERS, groups, comments, authors, admins | `noopApproved`, `resourcesApproved`, `intersectionOwnersApprovers` | GitHub, the work repository |
| Release (H 2866-3108, 4048-4224, 4782-4870) | issues, milestones and comments on GitHub; grouped noops on disk; tags | noopLoop, approvalLoop, milestoneLoop, the apply cron with its gate, autoTag | each other only through GitHub, files and `noopLock` |
| `puppetutil`, `pbutil`, `heckler`, `rizzo-rev`, generated messages, templates, Slack | no state of their own | parsing, printing | - |

What is hard here:

- **Interleaving.** rizzod's handlers share a lock file, a checkout and report files, and no mutex; the
  command line's applies and noops share nodes and noop files with hecklerd's loops and none of its
  mutexes; approvals, closed issues and pulled CODEOWNERS come between any two reads of the gate.
- **Deadlines and deaths.** A lock RPC may be lost and still lock; an apply RPC may time out while
  puppet runs; hecklerd may die holding the lock of many nodes, or between an issue and the file that
  remembers it; rizzod may die in the middle of a checkout, with lock files of git left behind, and
  puppet outlives it (`src/debian/rizzod.service`: `KillMode=none`).
- **Stale state.** A noop is worth something only against the last apply it was taken on; the clean
  loop keeps its findings from round to round about nodes that others change meanwhile.
- **Partial failure** of operations on many nodes, under thresholds.
- **Progress** of loops that wait for each other's results.

Properties that make the components correct: at most one holder of a node's lock, and the lock file
as good as an atomic lock; no two runs and no two puppet processes on a node; no lock left behind;
puppet compiles the commit asked for, and the report returned is the request's own; deltas are made
of noops on one last apply, and every change is listed in some commit's report; the clean loop applies
only what changes nothing; each commit has the issue on which it is approved; nothing is released that
was not reviewed; what is approved is released.

## 2. Modules

| Module | Models | State and actions in the code |
|---|---|---|
| `NodeLock` | the lock as its callers imagine it: one atomic decision per request | abstract specification |
| `NodeOwnership` | what hecklerd's runs promise about one node: whose it is, and whether its owner waits for puppet there | abstract specification |
| `RizzoLock` | rizzod's implementation | `lockFile` is the file's owner; one action per system call: temporary file and chown (`Prepare`), `Link`, forced `Rename`, `Stat`, `Owner`, `Comment`, `Remove`; sessions `Send` and `GiveUp`; `Crash` of rizzod |
| `RizzoApply` | PuppetApply and the start of rizzod, on one node | `repo`, `fetched`, `branch`, `detached`, `tree`, `indexLock` are the checkout; `stale` the lock files that no restart removes; `reports` and `lastApply` the files of the report processor; `node` what puppet has made of the node; `left` the puppets that outlived their rizzod. One action per git step that a death or another request can come between: `CloneOrOpen`, `BranchTree`, `BranchHead`, `Fetch`, `FastForwardTree`, `FastForwardMove`, `Checkout`, `CheckoutHead`; then `Compile`, `RunPuppet`, `WriteReport` and `WriteLastApply`, which may fail unnoticed, `ReadReport`, `Reply`; `ResetRepo` at the start; `Push`; `Crash`, which leaves of a git step what `LeftBy` says; `LeftPuppet` |
| `NodeSetRuns` | runs of the apply loop, runs of the command line and unlockAll | `ns` holds the buckets, `phase` the place in the code, `waiting` the outstanding RPCs; per phase one action for a node's reply, one for its deadline, one for the end of the phase (`Eligible`, `LastApplied`, `Locked`, `Applied`, `Unlocked`, `Finish`); `StartUnlockAll`, which may fail to list the nodes at all; `LateLock` and `LateUnlock` serve requests after their deadline; users lock and unlock (`User`) and force either (`Override`); `Crash`, `Sigterm`, `Exit` |
| `DeltaNoop` | what is computed from the noops of a commit and its parents | lineages, `Events` and `Logs` of a noop, `priorEvent` and `priorLog`, subtraction and grouping as operators over histories, catalogs and nodes |
| `NoopCache` | `noop()` and the requests HecklerApply and HecklerNoopRange of the command line over the same files | `noops` and `grouped` are the files, `base`, `left`, `todo`, `waiting`, `reps` a run's node set; a run begins (`StartRound`, `StartRange`, `StartApply`), loads saved noops (`Load`), has the others taken under the node's lock (`Reply`), goes on to the parents (`Nooped`), and groups (`GroupRound`, `GroupRange`, `GroupApply`); nodes are applied and locked beside it |
| `CleanNode` | the clean loop at one dirty node | `dn` is the node's entry of `nodeDirtyNoops`; actions follow `cleanNode` from `Query` to `Unlock`; `late` and `orphans` are the lock requests and applies that outlive their deadline (`LateLock`, `LateUnlock`, `OrphanEnds`); users lock, override, apply by hand; commits are pushed |
| `IssueTracking` | the issues of commits and of failed applies | `issues`, `deleted`, `open` are GitHub's, `cache` the cached numbers, `saved` the grouped noops; `noop()` in `StartNoop`, `CreateCommitIssue`, `cacheCommitIssueNumber`, `SaveReport`; the process of `-deldups` in `SearchDups` and `deleteIssue`; `reportErrors` in `SortErrors`, `FindIssue`, `CreateErrorIssue`, `lockErroredNodes`; `Crash`, `User` |
| `NoopApproved` | who may approve a noop | operators named after the functions; `Reviewed` is the reference definition, written from the README's words on ownership, files, modules and nodes |
| `Release` | noopLoop, approvalLoop, milestoneLoop and the apply cron's gate | `issue`, `milestoned`, `comments`, `milestone` are GitHub's; `saved` the grouped noops on disk; `loop` and `run` what approvalLoop and a run of apply have read; one action per call whose answer others may make stale |
| `MC*` | small instances for TLC | |
| `*_proofs` | theorems, one module for each of the above that has any | |

How they fit together. `NodeSetRuns` and `NoopCache` use the lock as the atomic operation of
`NodeLock`, which `RizzoLock` is shown to implement. `NodeSetRuns`, node by node, and the rounds of
`CleanNode` both implement `NodeOwnership`: the loops and the command line keep off each other's nodes
because each keeps that promise. `RizzoApply` says what one request does on the node and
names what overlapping requests would break. `Release` sees a whole run over the node sets as its
action `Apply`, which may or may not bring every node to the tag, takes a commit's grouped noop as
given, where `NoopCache` shows how it comes about, and a commit's issue as there, where
`IssueTracking` shows how it is created and found. The sets of `apply_set_order` are runs of `Loop`,
one after the other. `NoopApproved` is used by both loops of `Release` that decide on approval.

Some modules hold definitions whose comment begins with "Mutated form of". They are plausible slips
in the code, occur in no specification, and each property has one that makes it fail.

## 3. What is checked

| Run | Bounds | Properties | Shows |
|---|---|---|---|
| `lock_exclusive` | 3 sessions of 3 users, one without an account; 3 handlers; deaths of rizzod | `TypeOK`, `ExclusionInv`, `MutualExclusion`, `ImplementsNodeLock` | handlers that check and change the file in separate calls still exclude, and implement the atomic lock |
| `lock_force` | 2 sessions, 2 handlers, forced requests, deadlines, deaths, failing links | `TakeoverOnlyByForce` | a lock changes hands only by force |
| `rizzo_own` | 2 requests, 2 commits of 2 files; one death, failure, unwritable file or overlap; puppets that outlive rizzod; failing applies | `TypeOK`, `CompilesTheCommit`, `ReportIsOwn`, `LastApplyHolds`, `ServesAgain` | a checkout left by a death does not reach puppet, a report is the request's own and a clean last apply is true, each unless a named failure comes between, and rizzod comes to serve again but for lock files and half-made clones that no restart clears |
| `rizzo_failed` | 1 request, no deaths | `FailureIsReported`: **violated** | finding 1 |
| `runs` | the scenarios of `MCNodeSetRuns`: a loop and a command line run on 2 nodes; a loop run with lost lock RPCs on 3; all failures and unreachable nodes on 2; and on 1, either kind of run with deaths and stops at a node that may not be listed or reached, both kinds with users who override locks while lock RPCs are lost or late, and the loop with requests of a dead hecklerd | `TypeOK`, `RunsExclude`, `OnePuppetPerNode`, `NoLeakedLock`, `MissingBound`, `CleanStart`, `ImplementsOwnership` | a node whose lock is not taken from its run belongs to that run and runs one puppet; the runs keep `NodeOwnership`; locks are left only where an RPC was lost; how many nodes an apply may leave out; a dead hecklerd's locks are there when the loops run only where unlockAll could not dial or not list the nodes |
| `noop_delta` | 2 nodes, 3 resources, one of them refreshed by the others, a diamond of 4 commits; up to two of applies, requests and failures | `TypeOK`, `SameBase`, `ReportsThere`, `NoopLocks`, `ChangeIsListed`, `OnlyOwnChanges` | deltas are made of noops on one last apply, nodes are unlocked, each change is listed, and no report lists, for an event or a log, what its commit leaves as a parent has it |
| `noop_grouped` | 2 nodes on which a line of 3 commits sets one resource differently | `AggregatedIsIdentical`: **violated** | finding 2 |
| `clean` | 3 commits, threshold 2, users, overrides, one lock or apply RPC that is lost or late, evaluations that fail, pushes | `TypeOK`, `NeverReverts`, `ReportHasNoop`, `CleanedOrAllNooped` | the clean loop reverts nobody's changes, has a noop for what it reports, and comes to an end unless a lost lock RPC leaves root's lock |
| `issues_tracked` | 2 commits; 3 nodes in 2 node files and one in none; 3 deaths, lost answers and moves of users | `TypeOK`, `TrackedUnlessInterrupted`, `OneOpenErrorIssue`, `KeepsEarliest`, `CommitsGetIssues`, `ErroredEndsLocked` | each commit gets the issue that lookups find, the earliest is kept, and nodes reported again and again are locked under one issue |
| `release_reviewed` | 2 tags of one commit each, 2 resources, 2 versions of CODEOWNERS, 2 authors, a group, an admin, 2 moves | `TypeOK`, `AppliedIsReviewed` | nothing unreviewed passes the gate |
| `release_happens` | 1 commit, 3 kinds of noop, 3 moves | `IssueFollowsApproval`, `ReleaseHappens` | the loops settle, and approved tags are released |
| `release_evalerror` | 1 commit whose noop has evaluation errors only | `BreakageIsApproved`: **violated** | finding 3 |

**Bounds and why they are enough.** Three handlers of the lock are an unlock past its owner check, the
lock that would slip in between, and the request that would profit.

In `rizzo_own` two requests are one and another that overlaps it, and `MaxFailures` of one is a death
at any step, or a failed clone or fetch, or a file that puppet cannot write, or an overlap. Files, HEAD and
branch out of step and lock files, as a death leaves them, are also among the initial states, so that
the one failure may come on top of them. Two commits, the second of which changes one of two
files, are enough for a checkout to leave one file and replace the other. They are not enough for a
push between a fetch and its fast forward, which needs a third: only the theorems cover that.

In `runs` two runs are all there can be: the loop's runs exclude each other by `applySem`, and further
command line runs behave as the first. Deaths of hecklerd meet one kind of run at a time; with both, a
lock that unlockAll takes from a run is to the other what an overridden one is, and the theorems cover
the rest. `MaxLost` bounds the nodes whose lock and unlock RPCs are lost or late and `MaxOrphans` the
puppet processes without a caller, per node; one of each is the case, more only repeat it. Late requests
are a set per kind, one at a time on a node: to the lock two late unlocks are the same as one that comes
at the later moment and one that finds nothing. Overrides and late requests are about one node at a
time, so one node shows them. Three nodes with a threshold of one make it possible to exceed a threshold
in each phase with a node to spare, and to reach `2 * MaxLocked` in `MissingBound`, which is tight.

The diamond of `noop_delta` is the smallest history in which a commit has two parents that are beside
each other: a node that has applied one side makes the other side unfit for a delta. Its resources are
one that the merge changes again, one that it takes from a side, and one that only ever would be
refreshed by these two, of which the merge's noop counts more changes than either side's. The scenarios
combine two applies, an apply and a request, an apply and a failure, and an apply and a commit that does
not evaluate on one of the nodes.

`CleanNode`'s threshold of 2 stands for 10: what matters is that there are fewer, as many and more
commits than it. `MaxLost` of one is one lock, unlock or apply RPC that comes to no answer, which rizzod
serves then, later or never; a lock once leaked stays, so that more only repeat it. Three events in
`issues_tracked` are a death after an issue was created, the second issue that follows, and one more
thing to go wrong while duplicates are deleted. One commit per tag and two tags let a run of apply carry
what it learnt of one tag over to the next, and let the common tag move back below it. `MaxMoves` counts
what users change and which calls fail; approvals, withdrawals, issues closed by hand and a new
CODEOWNERS need two moves in any order.

**Fairness.** `RizzoLock`, `NodeSetRuns` and `NoopCache` have safety properties only. In `RizzoApply`
the start of rizzod is weakly fair, which is restarted and whose git calls return, and so is every
request: puppet ends. In `CleanNode` the loop is weakly fair: `cleanLoop` sleeps and begins again for
ever, and each RPC it waits for has a deadline. In `IssueTracking` `noop()` is, which runs again every
round, and so is a report of errors that has begun; no apply has to come. In `Release` each loop is
weakly fair for the same reason, and noopLoop strongly: it waits for `noopLock`, a `sync.Mutex`, which
goes to a waiter that has waited for more than a millisecond, however often apply takes it. Users,
pushes, `-deldups` and failures have no fairness: nobody has to approve. `ReleaseHappens` is conditional
on approvals that last, and `CleanedOrAllNooped` on users who leave the node alone, not on any loop.
`ErroredEndsLocked` is conditional on reports that name the node again and again and get as far as the
issues. It and `CommitsGetIssues` need the number of failures and deaths to be finite, which `MaxEvents`
makes it.

**Deadlock** is checked except in `Release` and `NoopCache`: the one comes to rest when all commits
are released and users have no moves left, the other when all commits are grouped and its scenario's
applies and requests are used up.

**Assumptions the properties name.** `MutualExclusion` holds under `Exclusive`: sessions of different
users that do not force, give up or meet a failing `link`. `RunsExclude`,
`OnePuppetPerNode` and `ImplementsOwnership` hold under all failures, for nodes whose lock was not
`taken` from the run that counts on it: by a user, by unlockAll, or by an unlock request served after
its deadline, which rizzod cannot tell from one of the present owner; `RunsExclude` also says that
nothing is taken unless one of these can happen. What they say of puppet is about what runs wait for.
The last conjunct of `OnePuppetPerNode`, that no other puppet runs there, is about scenarios without
apply deadlines and deaths: an apply that outlives its deadline of ten minutes is unlocked while puppet
runs, and a second puppet may start beside it. `CleanStart` is about scenarios in which no lock or
unlock RPC is lost, and excepts the nodes that unlockAll put down as errors, to which it does not come
back, and the start at which it could not list the nodes (`Unlisted`). `CompilesTheCommit` and
`ReportIsOwn` exclude requests that have overlapped since rizzod was started (`shared`); `ReportIsOwn`
also requests beside a puppet of an earlier rizzod (`beside`), those whose puppet could not write a file
(`unwritten`), and the apply that failed, which is finding 1. `LastApplyHolds` excludes the time from an
apply that was interrupted, overlapped, outlived its rizzod or was not recorded (`torn`) to the next one
that is completed alone. `ServesAgain` excepts what no restart clears away (`Stuck`): a lock file of git
besides the index's, and a clone whose HEAD is unborn. `SameBase` leaves out nodes that
were applied while the run was under way (`moved`). `OnlyOwnChanges` says that a commit leaves a resource
as a parent has it when its value, its subscriptions and the values it subscribes to are the same
(`LeavesAs`); a resource that the commit's own changes refresh may be listed beside the parent.
`TrackedUnlessInterrupted` leaves out commits at which hecklerd died, or lost an answer, after the issue
was created. `NeverReverts` excludes rounds whose lock was taken away, by a user or by an unlock request
of an earlier round that is served late, since cleanNode does not look at the lock again; rounds beside an
apply that outlived its RPC; and a noop that failed to evaluate by accident (see below).
`CleanedOrAllNooped` excepts a lock of root that a lost RPC has left (`lost.lock > 0 /\ Leaked`).

### Findings

1. `rizzo_failed`, Z 369: `puppet apply` exits zero although resources failed, since its arguments
   (`doc/sample-configs/rizzod_conf.yaml`) do not ask for detailed exit codes. Its report goes to
   `heckler_<commit>-dirty.json`; rizzod opens `heckler_<commit>.json`, which is there from the
   commit's noop, and returns it. The failure is not reported, where RB 125-127 marks such an apply
   because the state of the box is unknown.
2. `noop_grouped`, H 1151: `pbutil.ShallowEqual` compares comparable fields only, and what tells the
   changes of two nodes apart is in slices. Nodes with different changes of one resource are shown
   under the change of one of them, where the project's README (line 163) says that identical changes
   are aggregated, and the comment at H 1141 that everything except the line is compared.
3. `release_evalerror`, H 3203: `resourcesApproved` of no resources is true, so a noop with nothing
   but evaluation errors counts as approved by code owners once its authors are known. The comment at
   H 3038-3039 says such a commit should not be approved automatically.

### Observations without a run

The lock and the runs:

- Z 271: `puppetUnlock` reads the owner and removes the file by name in two system calls. A user who
  overrides the lock in between loses the new lock to hecklerd's unlock, although
  `doc/sample-configs/hecklerd_conf.yaml:20-22` promises that Heckler will respect it.
- Z 229: a `link` that fails for a reason other than EEXIST is answered as a granted lock.
- H 5403, 5432: the gRPC server serves applies before unlockAll has run at start; both act as root, so
  unlockAll can remove the lock of an apply in progress.
- H 3779-3782, 5432: when a node set cannot be listed unlockAll returns before it unlocks anything, main
  drops its error, and the loops start among the locks of the dead process.
- H 3005: thresholds are not looked at again after the applies of a set.
- H 704: a failed unlock after a noop is only logged. H 666: a command line noop locks as its user, so
  a node that root has locked is refused to it.

rizzod:

- Overlapping requests leave HEAD and the files out of step; checkouts do not repair what they believe
  to be there, so it stays so until rizzod is started again.
- A fetched branch that is no descendant of the local one fails every later pull. A clone that fails
  returns neither a repository nor an error, and the next use panics.
- A death in the middle of an apply leaves the clean last apply of before. So do RB 108-112, where the
  report processor returns without a version, and RB 145-153, where a write that fails is logged; puppet
  exits with zero. After RB 137-143 rizzod returns whatever report of the commit was there before.
- `src/debian/rizzod.service` (`KillMode=none`): puppet goes on when rizzod dies, changes the node and
  writes its report and last apply beside requests of the rizzod that is started next.
- G 320-327 removes `index.lock` and no other lock. The lock of a reference left by a fetch (once there
  is something new to fetch), the lock of the configuration, and a clone that was killed before its HEAD
  had a branch make every later start fail, where the comments at G 306-307 and G 320 speak of removing
  or cleaning up what a crashed process has left.
- Z 482-483 counts on the port to be the only process when it resets the checkout; a rizzod that is told
  to stop closes the port first and may still be serving.

Noops and grouping:

- A failed noop is saved and accepted whatever the node's last apply is, and never taken again.
- A report is not checked against the node's last apply when it arrives: an apply of the command line
  in the middle of a run brings a noop of another base into the delta.
- A resource that the commit leaves alone is listed with nothing but the log of a refresh when the number
  of changes that would refresh it differs from the parent's (`src/sample_output.md:159-169`).
- Nodes on which a commit or a parent fails to evaluate drop out of the rest of a command line range.
- `groupResources` sets `Line` to 0 in the caller's resources.
- `ChangeIsListed` needs all commits in between to be nooped on the same nodes and last applies: a
  node that is missing for one round, or a last apply that moves between two commits, can hide the
  change of a commit whose delta was saved before.
- A grouped noop or a noop file that a death leaves half written ends hecklerd at every later start.
  Writes are atomic in the model.

Clean loop:

- H 4739: the report of a failed evaluation lists no resources and passes for a noop without
  differences; the commit is applied. The comment at H 4737-4738 says that an empty list means a clean
  node.
- H 4700-4714, 4755-4763: a lock that was granted after the deadline, or whose unlock failed, which is
  only logged, stays root's, and rizzod refuses it to root too (Z 216-228): every later round ends at
  "Unable to lock node".
- An apply that outlives its deadline is taken for failed. Its puppet may yet bring the node to the commit
  when users have locked it and applied changes again.
- H 4732: a later round replaces the saved "first" report; H 4744: a diffless commit whose apply
  failed is not tried again, and the error says that none was found.

Issues and approval:

- H 4852, 1902: a death between creating an issue and saving the grouped noop leads to a second issue,
  without a look for the first, where H 4781 says "if it does not exist"; the cached number is then the
  second's. `-deldups` keeps the earlier, so lookups return the deleted one.
- H 4851: an error of the connection to GitHub is overwritten. H 4910: the error of
  `githubIssueDeleteDups` is dropped.
- H 1556-1561, 3013: only applies whose report says "failed" are reported. Those that end in an error of
  the RPC or in output that rizzod does not recognise (Z 355-360), and those of finding 1, are not.
- H 4425-4429: one host without a node file ends the report for all nodes, at every apply.
- A user who reopens an error issue beside a new one blocks all reports for that node file.
- H 3496: only the first page of an issue's comments is read.
- H 3562: `githubGroupsForGroupedResources` does not ask for groups that own a module alone, so their
  members cannot approve. This loses approvals and never adds any, and no others
  are lost: theorems `ApprovedIsReviewed` and `ReviewedIsApproved`.
- H 3168, 3218: an admin who is the author may approve the commit as admin; `Reviewed` says so too.
- H 2912: the gate applies the last tag or nothing, where the comment above `apply` speaks of the
  greatest approved one. The milestone is closed before the apply (H 2881), where the project's README
  has it after.

## 4. What is proved

For every value of the constants, checked by TLAPS. Each module but `NodeLock`, `NodeOwnership`,
`DeltaNoop` and `NoopApproved` has its type invariant proved as `Typing`; what follows is about the
others. An invariant named `...Inv` is inductive together with the type invariant; it is what the
property needs besides itself. Some theorems are about formulas that only their proof module defines,
such as `GitFailsByAccident`; TLC checked those on the instances of section 3 too before they were
proved, but no run lists them.

`RizzoLock_proofs`
- `Exclusion`: under `Exclusive`, `ExclusionInv` is invariant. `HoldersOwnTheFile` alone is not
  inductive: one must know that a grant on its way is backed by the file, that an unlock past its owner
  check is about its caller's own file, and that who asks to unlock does not count on the lock any more.
- `LockExcludes`: `MutualExclusion` follows, since holders own the one file and users differ.
- `Refinement`: under `Exclusive`, `Spec` implements `NodeLock`: every system call is a decision of the
  atomic lock or a stutter. A refused lock is decided at its `link`, a query at its second `stat`,
  everything else when the reply is computed.
- `TakeoversAreForced`: `TakeoverOnlyByForce`, an action property, for any number of handlers. `ForcedInv`:
  a handler that is about to rename serves a forced request; `link` never replaces a file.

`RizzoApply_proofs`
- `CompilesWhatIsAsked` (`CompilesTheCommit`). `StageInv` says what each step leaves to the next;
  `AloneInv`, that while requests have not overlapped one thread at most is in the checkout; `TreeInv`,
  how far the files are from HEAD in the middle of a git step, and that they agree between steps;
  `CompiledInv`, that what was compiled is the commit asked for. A death breaks `TreeInv` only in ways
  that leave rizzod to reset before it serves.
- `LastApplyIsTrue` (`LastApplyHolds`): `AppliedInv` follows the one apply from the moment puppet has
  changed the node to the moment the last apply is written. `LeftInv`: a request that is not marked as
  beside an earlier rizzod's puppet has none beside it, and an apply among those puppets has been
  remembered in `torn`, so that it can be at work only while nothing is claimed.
- `ReportIsTheRequests` (`ReportIsOwn`): by `WrittenInv` the file of the commit is, from the request's
  report on, its own, unless its apply failed or could not write; no other puppet writes it, by `LeftInv`.
- `GitFails` (`GitFailsByAccident`, an action property): the start of rizzod ends, and git ends a request
  that is alone, only when a clone or fetch fails, rizzod is killed, or a lock file or half-made clone that
  no restart clears is in the way (`Stuck`, or an empty clone, which is removed once). `WayInv`: HEAD is on
  the branch when a fetch begins, and the commit asked for is fetched by its checkout. It is the safety half
  of `ServesAgain`: no conflict, no lock of the index and no detached HEAD that a death left stands in the
  way.

`NodeSetRuns_proofs`
- `NoLockLeaked` (`NoLeakedLock`). `OrderInv`: runs keep to the node set, a node answers once in a
  phase, and unlockAll only unlocks. `LeakInv` adds the lock requests in service after their deadline.
- `RunsAreExclusive` and `OnePuppet`. `LockInv`: on a node that was not taken, root's lock is there for
  each run that counts on it, and one run at most does. `PuppetInv`: a run waits for puppet only on nodes it
  has locked and that have not answered. `CauseInv`: nodes are taken only by overrides, late unlocks and
  unlockAll. None of it excludes lost RPCs or deaths.
- `Ownership` (`ImplementsOwnership`), a refinement with one step per action: on each node of a node set a
  reply to `lock` is `Take` or nothing, the end of an apply `EndPuppet`, a reply to `unlock` `Leave`, a lost
  one `Leave` or `Stray`, a death `Die`, all else a stutter. That a run leaves a node only after puppet has
  answered there is `OrderInv` and `PuppetInv`.
- `StartsClean` (`CleanStart`). `BootInv`: while no lock RPC is lost, the locks of root that no run knows
  of are on nodes that unlockAll still waits for or could not dial, or unlockAll gave up before it had
  any.
- `FewAreMissing` (`MissingBound`). `CoverInv`: until its applies a run of the loop loses sight of no
  node; each is in a bucket within its threshold, has answered, or is waited for. `lockNodeSet`
  replaces the bucket of nodes locked by another, which is why the bound counts that threshold twice.

`NoopCache_proofs`
- `NodesAreUnlocked` (`NoopLocks`): a locked node is one that a run waits for, or whose RPC was lost.
- `DeltasHaveOneBase` (`SameBase`). `BaseInv`: what a run has loaded or taken on a node that has not
  moved is against the last apply it read at the start.
- `NoReportIsMissing` (`ReportsThere`). `ServedInv`: of each commit asked for, a node that is left has a
  report, or is still to load or awaited.
- `OwnChangesOnly` (`OnlyOwnChanges`) and `ChangesAreListed` (`ChangeIsListed`), for every history with
  merges and branches and any catalogs. `KindInv` says which commits a run noops on a node and what an
  empty report stands for. `DeltaShowsOwn` and `ReportShowsOwn` derive, from it and from `BaseInv` and
  `ServedInv`, what a saved report lists in terms of catalogs and subscriptions alone (`GroupedInv`): a
  resource whose event or whose log is not a parent's. The argument for
  `ChangesAreListed`: of the commits between that set a resource as the last one does, take the least; no
  parent of it that was nooped sets it so, or it would be a lesser one.
- `NoopsAreTakenOnce` (`NoopsAreKept`, an action property): a grouped report is never replaced, a failed
  noop stays for good, and any other is replaced only under root's lock and after the node's last apply has
  moved. `KeptInv`: nobody awaits a noop that has failed, and `noop()` works on a commit without a report.

`DeltaNoop_proofs`
- `GroupsListDeltas`: the groups list a node with the resources of its delta, be it for events or for logs,
  whatever node each group was begun at.
- Lemmas on `Lineage`, a recursive function: that it satisfies its equation (`LineageUnfolds`, by the least
  set closed under parents), that ancestors are numbered lower, that ancestry is transitive and
  antisymmetric. Where induction over commits would be used, a least counterexample is.

`CleanNode_proofs`
- `NothingReverted` (`NeverReverts`). `RevertInv` ties the commit about to be applied to the noop that
  showed no difference on what the node has, and a lock of root outside a round to an RPC that was lost.
- `LocksAreGivenBack` (`LeaksByLoss`): the latter, for itself. A round that hears of its lock and whose
  unlock gets through gives the node back, whatever becomes of its noops and applies.
- `ReportsCarryANoop` (`ReportHasNoop`). Only the first noop of a round is saved, and a noop that fails
  saves nothing, yet its commit may be marked. `UnsavedInv`: as long as nothing is saved, each marked
  commit has an earlier one that is considered with it and not marked; `RoundInv` says what of this a
  round in progress has consumed. So all considered commits can be marked only when something is saved.
- `CleanOwnership`: the loop implements `NodeOwnership` as one more run, noops and the apply alike. A round
  whose lock a user overrides, or a late unlock removes, is contested until it ends, which is `Die` of the
  abstract specification; a lost lock RPC is `Stray`.
- `NothingIsRepeated` (`RoundsGetOn`, an action property), the safety half of `CleanedOrAllNooped`: once
  users leave the node alone, each noop adds a commit that was not nooped before, nothing is forgotten
  while the last apply stays, and an apply that evaluates cleans the node.

`IssueTracking_proofs`
- `EarliestIsKept`: `KeepsEarliest`, an action property. `DoomedInv`: each issue about to be deleted has
  an earlier live one of its commit that is not.
- `CommitsAreTracked` (`TrackedUnlessInterrupted`), by `TrackInv`, which counts a commit's live issues in
  each step of `noop()`; `OneErrorIssue` (`OneOpenErrorIssue`), by `ReportInv`,
  which also says that reportErrors looks for issues only when every host it sorts has a node file.
- `EarliestIsForGood` (`EarliestStays`, an action property): a commit that has an issue always has one, and
  its earliest, on which approvals are looked for, stays the same.
- `SavedCommitsHaveIssues` (`SavedHaveIssues`), also after interruptions, where `CommitsAreTracked` says
  nothing: a commit that is nooped no more has an issue to be approved on, and a cached number is that of an
  issue created for this commit. `CreatedInv` follows the issue from its creation to the saved noop.

`Release_proofs`
- `Typing`, together with `RunTags`: the tags of a run are in order and do not pass the last one.
- `ApprovedIsReviewed`: what `noopApproved` accepts satisfies the reference definition `Reviewed`, by
  `ApproversOwn`: who survives the intersection is an approver and among the people behind the owners.
- `ReviewedIsApproved`, the converse: what satisfies `Reviewed` is approved, if an author is known and
  no group owns a module alone. So the approvals that `noopApproved` overlooks are those of H 3562 and
  no others.
- `ReleasedIsReviewed`: `Spec => []AppliedIsReviewed`. The gate reads a world that changes under it, so
  at the end of the run nothing can be said of the comments or CODEOWNERS of that moment. The inductive
  invariant `RunInv` is about what has been seen since the run began: this only grows, and
  `ReviewedMonotone` keeps a commit that passed its check covered.
- `ReleasesAreComplete` (`ReleasedIsComplete`) and `ReleasesAreReviewed` (`ClosingIsReviewed`, an action
  property): a tag that all nodes have has a closed milestone with the issues of all its commits, each
  with a saved noop, and a milestone is closed only on a review of them all. With both, whatever the
  nodes have in common was reviewed at some time, also when a run fails between closing a milestone and
  the apply and a later run goes on from there. `MilestoneInv` says how far a run has got with the
  milestones.

Assumptions are those named in the modules, which TLC evaluates on the instances: the constants'
types; that there are finitely many runs, commits of issues, and nodes in a node set; that the branch
of `CleanNode` has a commit besides the first and `Changes` of the first commit are all files; that 0,
what nodes start with, is a commit of `NoopCache`; that every tag has a commit, without which
`tagApproved` returns an error.

Only model-checked: all liveness (`ServesAgain`, `CleanedOrAllNooped`, `CommitsGetIssues`,
`ErroredEndsLocked`, `IssueFollowsApproval`, `ReleaseHappens`), which the proof system does not reach.
Every safety property that a passing run checks is a theorem.

## 5. Abstractions

- Revisions and tags are numbers, owners and comments sets; messages, wording and Markdown are left out.
- In `RizzoApply` the versions of files stand for their content. A git step is two actions where its
  effect on files and on HEAD can be told apart; objects in the repository are the commits up to
  `fetched`. Puppet's effect on the node is one step, the writes of the two report files one each.
- A report in `DeltaNoop` is a set of events and, for each resource that would be refreshed, the number of
  changes in its log line; the other log lines, such as the diff of a file, say what the event does.
- In `IssueTracking` any of the nodes on which applies fail may be reported, none of them has to be; a
  connection to GitHub that fails ends a report as a search that fails does.
- A noop of a commit lists, for each resource, whether the node's catalog differs from that of the last
  apply; drift on the node itself is left out of `NoopCache`, and is what `CleanNode` is about.
- Writing a file is atomic, in `NoopCache` and in `IssueTracking`.
- `Release` takes the result of a commit's noop as given and fixed; noop rounds create one issue and save
  one report under `noopLock`, so that apply may begin between two commits of a round, as it may between
  two rounds. `commonTagNodeSet` may move the common tag back, as when a node that was left out returns.
- A call to GitHub that fails ends the commit in approvalLoop and the run in apply.
- `shared`, `torn`, `beside` and `unwritten` in `RizzoApply`, `lost` in `NodeSetRuns`, `NoopCache` and,
  but for its bound, `CleanNode`, `taken` in `NodeSetRuns`, `moved` in `NoopCache`, `interrupted` in
  `IssueTracking`, `seen` in `CleanNode`, `since` in `Release` and `holds` in `RizzoLock` are history:
  nothing in the code depends on them.

### Not modelled

- `puppetutil` (containment and source paths) and most of `pbutil` process strings and messages without
  state; `pbutil.ShallowEqual` is modelled as far as grouping uses it.
- `heckler` prints and parses flags; its requests are runs of `Cli` and `Request`, and sessions.
- The protocol messages are generated; templates, Slack and the connection to GitHub are I/O.
- Of issues: those of clean failures, `-clear`, and the hound that reminds of open ones, which reads and
  comments only. Of git: `Gc`, and `Pull`, with which hecklerd updates its own clone.
- Of release: comments on approval status, and the contents of announcements.

- Of rizzod's death: git steps of one that is stopping beside the next one's, git's child processes that
  survive it, and what an interrupted `git gc` leaves.

## 6. Plan

What could follow, in this order: `NodeSetRuns` over the requests of `RizzoApply`, so that `shared` is
traced back to the deadlines, deaths and taken locks that let requests overlap; the overlap of two
requests in `RizzoApply` up to the reset, to bound the damage; torn writes of the noop files, with what
hecklerd does on a restart; the issues of clean failures, composed with `CleanNode`; an instance of
`NoopCache` with a revert, for the hole in `ChangeIsListed` that saved deltas leave.
