# Verification of the CSI volume group operator

TLA+ models of the operator in this repository, TLC configurations that check
them on small instances, and theorems checked by TLAPS. Paths are relative to the
root of the repository; `utils/` stands for `controllers/utils/`.

## 1. The system

The operator runs two controllers in one process. Each has one worker, which
takes requests from a queue and runs `Reconcile` to its end. Both read from one
informer cache, which lags behind the API server, and write to the API server,
which refuses a write whose copy is out of date. An error return puts the request
back on the queue.

| component | state | operations | interacts with |
|---|---|---|---|
| VolumeGroup controller (`controllers/volumegroup_controller.go`, `utils/volumegroup.go`) | VolumeGroup: finalizer, `spec.source.volumeGroupContentName`, `status.ready`, `status.pvcList` | add finalizer, create the content, wait until it is ready, record it, bind a named content, update members, delete the content, remove the finalizer | contents through the API server; driver by `ModifyVolumeGroupMembership` |
| VolumeGroupContent controller (`controllers/volumegroupcontent/`, `utils/volumegroupcontent.go`) | VolumeGroupContent: finalizer, class, `volumeGroupRef`, handle, policy, `status.ready`, `status.pvList` | default a thin content, add finalizer, create the group, record its handle, delete claims, delete the group, remove the finalizer | VolumeGroups by name; driver by `CreateVolumeGroup`, `DeleteVolumeGroup` |
| membership (`utils/controller_utils.go`, `persistentvolumeclaim.go`, `modify_volumegroup.go`) | the two lists, the claims' finalizer, the group's volumes on the storage system | match claims, check exclusivity, modify the group, add and remove one claim at a time | label and phase events of claims |
| watches (`utils/predicate.go`, both `SetupWithManager`) | cache, queues | map events to requests | all |
| CSI client (`pkg/client/`, `controllers/volumegroup/`) | none | three RPCs with a timeout | storage driver |
| start-up (`main.go`, `pkg/config/`, `waitForCrds`) | step of `main` | flags, connection, probe, wait for the CRDs, exit on any error and on loss of the connection | driver, API server, kubelet |
| classes and secrets (`utils/storageclass.go`, `volumegroupclass.go`, `parameters.go`, `secret.go`) | none | existence, driver, validity | every reconcile reads them, nothing watches them |
| events and messages | none | event objects, log text | – |

What is hard: the two workers and the user interleave freely; every decision rests
on a cached, possibly stale object; one reconcile is a series of writes any of which
can fail, be refused or be the last before a crash; conflict retries fetch the object
again and go on; nothing but a requeue wakes a worker for what the watches do not report.

What makes the parts correct:

- lifecycle: no group on the storage system is leaked, deleted while in use, or
  reported ready without being there; provisioning and deletion complete;
- static contents: VolumeGroup and content find each other; `Retain` is honoured;
- membership: lists, finalizers and storage system follow the labels; exclusivity
  under `--multiple-vgs-to-pvc=false`;
- deletion of claims: the claims on a group's list are deleted after its VolumeGroup and before
  its content and group go;
- eligibility: one odd claim, group or class may hold up others but never leaves them wrong
  once it is put right;
- process: it runs only on a complete cluster, and comes back after outages.

The hazards behind these are listed, line by line, in `PROJECT.json`.

## 2. Modules

| module | what it models |
|---|---|
| `GroupLifecycle` | both controllers, API server, cache, user and driver for provisioning, binding and deletion |
| `GroupLifecycleProofs`, `GroupOwnershipProofs`, `DeletionPolicyProofs` | theorems about it |
| `GroupPromise` | abstract specification: what a user may rely on for groups of policy Delete |
| `GroupRefinement`, `GroupRefinementProofs` | the mapping under which `GroupLifecycle` implements `GroupPromise`, and the proof that it does |
| `GroupMembership` | the work of the VolumeGroup worker on the members (`updatePVCs`), which is the step `VGMembers` of `GroupLifecycle`: the writes one by one, from stale copies; theorems in `MembershipProofs` |
| `ClaimEligibility` | which claims are members and what stands in the way: phases, classes, selectors, secrets, events; theorems about it and the process in `EligibilityProofs` |
| `ClaimDeletion` | `DeletePVCsUnderVGC` on claims that others use too |
| `GroupRelease` | `GroupLifecycle` and `ClaimDeletion` composed: the writes of the members are the step `members` of the VolumeGroup worker, the loop is the step `deletePVCs` of the content worker; theorems in `ReleaseProofs` |
| `OperatorProcess` | the process from `main` to the running manager |
| `MCDynamic`, `MCStatic`, `MCMembership`, `MCClaimDeletion`, `MCRelease`, `MCEligibility` | constants and symmetry for TLC |

The modules split one program by the state their questions need. `GroupLifecycle` has the
objects; `GroupMembership` and `ClaimEligibility` look at the members of groups that are
provisioned, the first with every interleaving of a few well-formed claims, the second with
every way to be ill-formed but up-to-date reads, under the process of `OperatorProcess`; `GroupRelease` brings objects and members
together where their order matters, at the end.

### GroupLifecycle

`vgs` and `vgcs` are the stored objects, `vgCache` and `vgcCache` the cached ones,
`groups` the groups on the storage system, named by their content. Each worker has a
step (`vgPc`, `vgcPc`), a request and its copy of the object; one action is one API
call or RPC of the reconcile with the code around it. A worker's write is accepted
when its copy equals the stored object. `VGRetry` and `VGCRetry` are the conflict
retries, which fetch from the cache; `VGRefused` and `VGCRefused` a write refused for
good; `VGCallFails` and `VGCCallFails` any other error of a call. A call that took
effect though the caller saw an error is the call followed by a failure of the next
step. `Restart` clears caches, workers and queues. `SyncVG` and `SyncVGC` deliver a watch event and
queue a request when the predicates say so. `PVCEvent` and `BindingEvent` stand for
requests whose cause the module leaves out (an event of a claim; a new uid in a
reference).

The reconcile of a VolumeGroup that has a content name takes the static path, also
when the operator wrote the name itself; the model has this, as the code does.

### GroupMembership

`wanted` gives for each claim the groups whose selector it matches. A reconcile is
`Start` (matching, exclusivity, comparison of the lists), `Modify` (one RPC), then per
claim `RemoveFromList`, `RemovePV`, `RemoveFin` or `AddToList`, `AddPV`, `AddFin`.
`IsPVCListEqual` compares full claims with stored ones whose metadata the CRD schema
prunes, so it holds of two empty lists only. `SecretMissing` is the error path of
`getSecrets`. `SetPVList` is the write with its retry: the list comes from the cached
content, and after a conflict the same list is written over a fresh copy. `multiple` and `lag`, fixed at the start, are the flag and the caches that may be behind.

### ClaimDeletion

The slice the loop ranges over is `array`; `len` is the length of the slice in the
object after removals. `Shifted` is Go's `append(s[:i], s[i+1:]...)` on the shared array.
Taking a claim's finalizer off is `ReleaseClaim` (read, `isFinalizerShouldBeREmovedFromPVC`),
`WriteFinalizers` (the whole list, refused when the claim has `moved`) and `RetryFinalizers`
(read again, write the same list); `kept` is what the first copy had of other controllers'
finalizers. `Shared` claims are listed by another VolumeGroup as well.

### GroupRelease

`GroupLifecycle` is extended, `ClaimDeletion` instantiated as `Loop` over the same
`failures`. `list` is the PV list of one content and `copy` what the content worker read of it.
`pvcList` is the list of claims in each VolumeGroup's status. The VolumeGroup worker's `updatePVCs` is made
of its calls: `ModifyVolumes` finds the claims, once; then, claim by claim, `AddPVCToVG` or `RemovePVCFromVG`
writes the VolumeGroup, `MakeList` reads the cached content and makes the new list of volumes, `WriteList` writes it,
and `AddFinalizerToPVC` holds the claim. A list made from a stale content is written over a newer one, as in
`lost_pv`, and a failure, a refused write or a restart leaves the three apart, so a claim can be held, or in the
VolumeGroup's list, without its volume being on the content's: the properties speak of the volumes on that list. The set
of matching claims is fixed; a claim that users delete meanwhile leaves the lists. `LoopStep` is
one step of the loop while `vgcPc = "deletePVCs"`, `LoopEnds` the lifecycle's `VGCDeletePVCs`.
Every other step of the lifecycle is taken as it is; steps that remove an object remove its list.

### GroupPromise and GroupRefinement

The abstract state of a record is its owner (none, pending, ready, gone), its phase
(absent, open, guarded, closing), and whether its group is stored and its handle known.
The mapping reads all of it off the API server and the storage system: `owner` from `nameOf` and
`vgs`, `phase` from the content's finalizer and deletion timestamp, `stored` from `groups`,
`known` from the handle. Caches, queues and workers have no counterpart: the promise
is that they do not show.

### ClaimEligibility

Claims are records of label, class, phase and volume; groups of selector and class.
`GetPVCListFails`, `MatchFails`, `GetVGListFails` and `AddCheckFails` are the errors (and the nil
dereference, which controller-runtime recovers from) that one object causes for others. They are met when
a reconcile decides what to do (`Modify`, `Same` or `SecretMissing`), once; the claims are then removed and added one by one
(`RemoveClaim`, `AddClaim`) while the cluster goes on changing. A
reconcile that fails before its first write is no action: its request stays on the queue. `CreateRequests` is the mapping of
claim events to groups with its early return on a selector that is not valid. The process of
`OperatorProcess` is part of the state: events reach a running operator only, an exit forgets the queue, and a
start lists all groups.

### OperatorProcess

`Start` is `Validate`, `Connect` and `Probe` the gRPC client, `WaitForCrd` one turn of
`waitForCrds`, `ExitWithError` every other `exitWithError`, `ConnectionLost`
`ExitOnConnectionLoss`. `rpc.ProbeForever`, of a library, returns every error but a timeout, after which it
probes again; its context ends with `--rpc-timeout`, so a driver that is slower leaves the process `hung`
in probes that time out at once, until the connection is lost. The driver comes and goes; CRDs are installed in any order.

## 3. Runs

| run | shows |
|---|---|
| `dynamic` | `ReadyIsBacked`, `DeletesOnlyReleased`, and the refinement `PromiseKept`, for two VolumeGroups that use one name in turn |
| `dynamic_live` | provisioning and deletion complete; a bound VolumeGroup releases its content; `NoLeakedGroup` and the inductive invariant `FinalizerInv` |
| `static` | `Retain` is honoured; VolumeGroup and named content are bound in either order |
| `members` | `ListFollowsDriver`; `Exclusive` with the flag off; the finalizers are those of the members (`HeldWhileListed`) |
| `members_live` | the PVC lists follow the labels whatever fails; when nothing fails, everything does |
| `release` | claims are deleted after the VolumeGroup (`ClaimsOutliveGroup`), leave the list when they are done with (`LeavesDeleted`), and go in the end (`ClaimsReleased`); the group goes when the list has no volume whose claim is not on its way out or is still held (`ClaimsBeforeGroup`) |
| `eligibility` | the process runs only with all CRDs (`RunsOnlyWithCrds`) and comes back after errors and outages (`Recovers`); the lists are right once the cluster is (`ListsFollowCluster`) |

Five runs show where documentation, messages and tests say more than the code keeps
(`findings` in `PROJECT.json` quotes them):

| run | what happens |
|---|---|
| `orphaned_content` | VolumeGroup deleted before its content name is recorded: content and group stay |
| `static_race` | a content is bound between the check for its VolumeGroup and the delete RPC |
| `lost_pv` | a PV list made from a stale content overwrites a newer one |
| `swap` | claims that exchange groups block both under exclusivity |
| `skipped_claim` | the second of three volumes is passed over |

### Conditions in the properties

Several properties that hold are stated with a condition, because TLC refutes them without it:

- `ContentReclaimed` wants the handle recorded: a content deleted between
  `CreateVolumeGroup` and `UpdateVGCByResponse` asks the driver for ever to delete a group
  with an empty id. It also lets a VolumeGroup of the same name stand in the way, since
  `IsVgExist` does not compare uids.
- `Exclusive` wants a current cache of VolumeGroups; `HeldWhileListed` wants that too, and no failure: one between the
  calls for a claim leaves it listed without the finalizer or the other way round.
- `Converges` wants no failure: after one between the lists the volume is never listed
  (`AddVolumeToPvcListAndPvList`), and a relabel after a failed write of the list leaves the volume
  in the group on the storage system. `SecretMissing` breaks `ListFollowsDriver`, so `members` leaves it out.
- `StaticBound` wants contents left alone by users: one that is deleted and created again
  while its VolumeGroup is bound is not bound again, as nothing wakes the VolumeGroup worker.
- `RetainedStays` is for static contents under `--disable-delete-pvcs`: a conflict in the loop over the
  claims fetches the content again (`vgcRetryOnConflictFunc`), and if its name was used three times the policy
  then looked at is that of a content already gone.
- `ClaimsBeforeGroup` speaks of the volumes on the content's list only, and `ClaimsReleased` wants all those of the group's own claims on it. A volume that a stale list
  has overwritten (`lost_pv`), or that was never written after a failure, leaves its claim with the finalizer, and the group
  goes before it. They are for groups of one or two volumes,
  since the loop skips beyond that (`skipped_claim`), for generated contents, policy Delete and
  `--disable-delete-pvcs=false`. With Retain or the flag nothing takes the finalizer off the claims, and
  a static content deleted before it has its own finalizer goes with its list.
- `Recovers` excepts a process that hangs in the probe for ever.
- `ListsFollowCluster` wants that the process runs in the end, that no selector was ever invalid, and, under
  `--multiple-vgs-to-pvc=false`, that every group has a class name and a selector, that no claim matches two
  groups, and that a group that lists claims can be reconciled: each of these blocks the others.

### Bounds

`MaxFailures` bounds failed calls, spurious conflicts and restarts; conflicts over
stale copies are not bounded. One failure suffices to put a crash or an error at every
point of a run; two successive VolumeGroups under one name are what it takes to confuse old and new. The
liveness runs have one uid, as a group's progress depends on no other uid except through
its name (see the condition of `ContentReclaimed`). Two groups and two claims cover moves and
exchanges; two changes of labels cover a move during a reconcile and a move back.
In `release` the group has either a pair of claims, one without a back reference and one that another group lists
too, listed in either order, or a single one that users and other controllers work on (`InUse`), whose one change can
hit any step of the members' writes or of the loop; the proofs cover changes to every claim. Three volumes in `skipped_claim` are the fewest that
make it skip. In `eligibility` one group and one claim may be odd from the start, and two changes, outages or
errors in all follow, from CRDs and driver that may still be missing: enough to mend what is odd, to
break and mend something else, to change a claim while the process is down, and to fail again while it recovers.
Symmetry is used in safety runs only. Deadlock is not checked: with the users'
actions bounded the system may come to rest.

### Fairness

`Fairness` has weak fairness for the steps of each worker and for the watches
(controller-runtime runs a started reconcile to its end and the informers deliver),
and strong fairness for taking a queued request: the work queue is first in, first out,
so requests that keep coming cannot overtake it, while the worker is not idle all the
time. Users, events of claims, failures and restarts are not fair. `GroupRelease` adds that a claim being
deleted loses other controllers' finalizers and goes in the end; without it no one could promise that it
does. In `ClaimEligibility` every group that can be reconciled is, as its request is retried with a backoff;
the process takes its next step and the kubelet starts it again; driver and CRDs
are not fair, `Recovers` assumes instead that they are there in the end. No step leaves the hung probe, and none is assumed.

## 4. Proofs

Every safety property of the passing runs, invariant or action property, is a theorem for
every value of the constants: any number of names, uids, contents, claims, kinds, failures and changes. The
constants' named assumptions (`ConstantsAssumption`, `ReleaseAssumption`, ...) are used throughout; a theorem that needs
more says so in its statement:

- `NamesUnguessed`: no user names a generated content as the source of a VolumeGroup. The name ends with
  the uid the API server gives the VolumeGroup at its creation, so a user cannot know it then.
- `SourceContents \subseteq {NoName}`: VolumeGroups are provisioned dynamically. `static_race` shows that with static
  ones a group in use can be deleted.
- `DeletionPolicy = "Delete"`: what `GroupPromise` is about.
- `Content \in DynamicContents \ UserDeletes`, `~DisableDeletePvcs`, `~SecretFails`,
  `DisableDeletePvcs \/ StaticContents = {}`: the conditions named above, under which the runs check the properties.

| module | theorems (property) | needs |
|---|---|---|
| `GroupLifecycleProofs` | `TypeCorrect` (`TypeOK`), `FinalizerInvariant` (`FinalizerInv`), `GroupsNeverLeak` (`NoLeakedGroup`) | – |
| `GroupOwnershipProofs` | `OwnersKnown` (`OwnerInv`) | – |
| | `CopiesReliable` (`BackedInv`), `ReportsAreTrue` (`ReadyIsBacked`) | `NamesUnguessed` |
| | `DeletionsAreSafe` (`DeletesOnlyReleased`) | dynamic provisioning |
| `GroupRefinementProofs` | `OperatorKeepsPromise` (`PromiseKept`) | dynamic provisioning, policy Delete |
| `DeletionPolicyProofs` | `RetainHonoured` (`RetainedStays`) | static contents only with the flag |
| | `ContentLetGo` (`BoundIsReleased`) | `NamesUnguessed` |
| `MembershipProofs` | `MembershipTyped`, `NoSharedClaim` (`Exclusive`), `MembersHeld` (`HeldWhileListed`) | – |
| | `DriverBeforeList` (`ListFollowsDriver`) | `~SecretFails` |
| `EligibilityProofs` | `CrdsFirst` (`RunsOnlyWithCrds`), `EligibilityTyped` | – |
| `ReleaseProofs` | `ReleaseTyped` | – |
| | `ClaimsWaitForGroup` (`ClaimsOutliveGroup`) | `NamesUnguessed` |
| | `RemovedIsDone` (`LeavesDeleted`) | and a generated content no user deletes |
| | `GroupGoesLast` (`ClaimsBeforeGroup`) | and `~DisableDeletePvcs` |

The arguments:

- **Finalizers.** `NoLeakedGroup` is not inductive: the
  finalizer is removed, and the group created, on the strength of copies read earlier.
  `FinalizerInv` adds that a content being deleted keeps its finalizer
  (`DeletingHasFinalizer`); that protection seen in the cache still holds in the store and
  that a deletion seen there is final until the content is gone (`CacheSeesProtection`);
  what each step of the content worker relies on (`ContentWorkerInv`); and that every copy
  of a generated content has the class's policy (`DynamicPolicy`). Most actions never
  remove a finalizer from the store (`Keeps`); the proof treats those at once and the others one by one.
- **Owners.** `OwnerInv` is the same for VolumeGroups, with uids: a uid has one name for ever, and a worker that is
  busy with one has seen it in the cache, so an older VolumeGroup of the same name cannot come back.
  `BackedInv` then says that whoever knows a handle may rely on it while the VolumeGroup is there.
  `Steady` sums up what any step may do to a generated content and its group; it gives the invariant,
  `ReadyIsBacked`, `DeletesOnlyReleased`, and, action by action, the refinement.
- **Policy.** `RetainInv` follows a static content through its successors of the same name: a copy marked for
  deletion with policy Delete is the stored content, or the group is gone (`Settled`); one that says Retain
  excludes that a content with the finalizer says otherwise (`RetainStands`). `BoundIsReleased` has the form
  `[](A => []B)`; `Held` is what holds from `A` on: a worker about to let the VolumeGroup go knows its content,
  since that name was there before the deletion was asked for, and the cache has the content
  (`BoundInv`), since the worker saw it ready before it wrote the name.
- **Membership.** `MembersInv` adds to `Exclusive` that what the worker is about to add no other group lists (`AddsAlone`), and
  that the rest of its work agrees with the storage system (`DriverFirst`). `HeldInv` adds to `HeldWhileListed` that a claim
  just taken off a list still has the finalizer, since the list had it, and that one being added is listed already.
- **Eligibility.** `CrdsSeen`: the CRDs waited for so far are there.
- **Release.** The composition keeps `FinalizerInv`, `OwnerInv` and `BackedInv`: its
  steps are steps of `GroupLifecycle`, or end the reconcile and queue the content again. Once a content is
  being deleted its VolumeGroup is gone or going, nothing is provisioned for it any more (`RetireInv`), and no copy takes the
  deletion back (`GoingInv`). By then the VolumeGroup worker is not among the members' writes either, so from there on only the loop changes
  the list; before, `ListsInv` says that the stored list, the cached one and the one about to be written name
  matching volumes, none twice, whichever of them is behind. `PlaceInv` and `DoneInv` say where the loop is and what the claim at
  hand has been through; `WorkInv` that the stored list, the cached one, the worker's copy and the slice in its hands
  differ by finished volumes only, so that a list written from an old copy loses nothing. `LeftInv` adds that the
  volumes left to do are among those from the index on: with at most two volumes the only one ahead of it is in the
  last place of the array, which a shift leaves as it is.

Each inductive invariant was checked with TLC on the bounds of section 3 before it was proved.

Only model-checked: liveness, which is out of the prover's reach (`Provisioned`, `DeletionCompletes`,
`ContentReclaimed`, `StaticBound`, `ListsFollowLabels`, `Converges`, `ClaimsReleased`, `Recovers`,
`ListsFollowCluster`).

## 5. Not modelled

- Finalizers of other controllers on VolumeGroups and contents (`IsContainOtherFinalizers`), which
  put deletion off until they are gone. Those on claims are in `ClaimDeletion`.
- Classes and secrets that vanish under the lifecycle: `GroupLifecycle` has them exist. Before
  a VolumeGroup or content is deleted this blocks its deletion, as the reconciles look at the class first.
- An RPC that times out and takes effect later than the operator's next call: the driver is
  taken to do what it is asked at once or not at all.
- Claims that are relabelled while their group goes; `GroupRelease` fixes the matching claims.
- Events, messages, logs; parameters other than valid or not; generated deep copies.
- Conflicts over fields the models leave out (`status.error`, times): failed calls stand for them.

## 6. Plan

1. Weaken hypotheses where the code allows: `DeletesOnlyReleased` next to static contents that no generated
   one meets; `LeavesDeleted` when users delete contents.
2. For groups of any size, what the loop still guarantees: which volumes it passes over.
3. Safety lemmas behind the liveness properties (what enables the worker when a request waits).
