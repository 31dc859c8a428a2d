-------------------------- MODULE GroupMembership --------------------------
(***************************************************************************)
(* The members of volume groups: how the VolumeGroup worker keeps the PVC  *)
(* list of each VolumeGroup, the PV list of its VolumeGroupContent, the    *)
(* finalizer of each claim and the group on the storage system in step     *)
(* with the labels of the claims.                                          *)
(*                                                                         *)
(* Simplifications:                                                        *)
(*  - Every group is provisioned and stays; GroupLifecycle has the rest of *)
(*    the reconcile.  Its copy of the VolumeGroup is current when the work *)
(*    on the members starts, because updateItems has just written it.      *)
(*  - A claim stands for itself and for its volume.  wanted is the cached  *)
(*    view of claims and selectors: the groups of this driver whose        *)
(*    selector a claim matches, if it is bound, of the driver's storage    *)
(*    class and without the volume group parameter there.                  *)
(*  - The lists are sets: the code keeps them free of duplicates and       *)
(*    depends on no order here.                                            *)
(*  - A call that took effect although the caller saw an error is the call *)
(*    followed by a failure of the next one.                               *)
(***************************************************************************)
EXTENDS Naturals, FiniteSets

CONSTANTS
    Groups,            \* VolumeGroups
    Claims,            \* PersistentVolumeClaims, each with its volume
    MultipleVGsToPVC,  \* values the --multiple-vgs-to-pvc flag may have
    Lags,              \* sets of caches that may lag: "vg", "vgc"
    SecretFails,       \* the secret of the class may be missing
    MaxFailures,       \* bound on failed calls and restarts
    MaxRelabels,       \* bound on changes of labels and selectors
    None               \* no group, no claim

ASSUME MembershipAssumption ==
    /\ MultipleVGsToPVC \subseteq BOOLEAN /\ SecretFails \in BOOLEAN
    /\ Lags \subseteq SUBSET {"vg", "vgc"}
    /\ MaxFailures \in Nat /\ MaxRelabels \in Nat
    /\ None \notin Groups \cup Claims

VARIABLES
    multiple, lag,         \* how this operator runs: the flag, the caches that lag
    wanted,                \* for each claim, the groups whose selector it matches
    pvcList, pvList,       \* stored status.pvcList, and status.pvList of the content
    listCache, pvListCache,\* what the informer cache returns for them
    pvcFin,                \* claims that have the operator's finalizer
    driver,                \* for each group, its volumes on the storage system
    queue,                 \* work queue of the VolumeGroup controller
    pc, req,               \* the worker's step and group
    matching,              \* ... the claims it found to match
    toRemove, toAdd, cur,  \* ... the claims left to remove and to add, the one at hand
    relabels, failures

setting == <<multiple, lag>>
stored == <<pvcList, pvList>>
caches == <<listCache, pvListCache>>
worker == <<pc, req, matching, toRemove, toAdd, cur>>
vars == <<setting, wanted, stored, caches, pvcFin, driver, queue, worker, relabels, failures>>

Steps == {"idle", "modify", "update", "removePV", "removeFin", "addPV", "addFin"}

TypeOK ==
    /\ multiple \in MultipleVGsToPVC /\ lag \in Lags
    /\ wanted \in [Claims -> SUBSET Groups]
    /\ pvcList \in [Groups -> SUBSET Claims]
    /\ pvList \in [Groups -> SUBSET Claims]
    /\ listCache \in [Groups -> SUBSET Claims]
    /\ pvListCache \in [Groups -> SUBSET Claims]
    /\ driver \in [Groups -> SUBSET Claims]
    /\ pvcFin \subseteq Claims
    /\ queue \subseteq Groups
    /\ pc \in Steps
    /\ IF pc = "idle" THEN req = None ELSE req \in Groups
    /\ IF pc \in {"idle", "modify", "update"} THEN cur = None ELSE cur \in Claims
    /\ matching \subseteq Claims
    /\ toRemove \subseteq Claims
    /\ toAdd \subseteq Claims
    /\ relabels \in 0 .. MaxRelabels
    /\ failures \in 0 .. MaxFailures

NoMembers == [g \in Groups |-> {}]

Init ==
    /\ multiple \in MultipleVGsToPVC /\ lag \in Lags
    /\ wanted \in [Claims -> SUBSET Groups]
    /\ pvcList = NoMembers /\ listCache = NoMembers
    /\ pvList = NoMembers /\ pvListCache = NoMembers
    /\ driver = NoMembers
    /\ pvcFin = {}
    /\ queue = Groups
    /\ pc = "idle" /\ req = None /\ cur = None
    /\ matching = {} /\ toRemove = {} /\ toAdd = {}
    /\ relabels = 0 /\ failures = 0

-----------------------------------------------------------------------------
(***************************************************************************)
(* Which claims a group should have.                                       *)
(***************************************************************************)
Matching(g) == {p \in Claims : g \in wanted[p]}

\* Seeded fault: a claim that belongs to another group may be added.
CanBeAdded_OnlyNew(p) ==
    Cardinality({g \in Groups : p \notin listCache[g] /\ g \in wanted[p]}) <= 1

\* IsPVCCanBeAddedToVG
CanBeAdded(p) ==
    LET vgsWithPVC == {g \in Groups : p \in listCache[g]}
        newVGsForPVC == {g \in Groups : p \notin listCache[g] /\ g \in wanted[p]}
    IN /\ vgsWithPVC = {} \/ newVGsForPVC = {}
       /\ Cardinality(newVGsForPVC) <= 1

\* isPVCShouldBeInVg: one claim that cannot be added is an error for the group.
NoConflict(g) == multiple \/ \A p \in Matching(g) : CanBeAdded(p)

-----------------------------------------------------------------------------
(***************************************************************************)
(* The worker.                                                             *)
(***************************************************************************)
Idle ==
    /\ pc' = "idle" /\ req' = None /\ cur' = None
    /\ matching' = {} /\ toRemove' = {} /\ toAdd' = {}

Requeue == Idle /\ queue' = queue \cup {req}

\* A cache that does not lag follows what is stored.
Caches(list, pvs) ==
    /\ listCache' = IF "vg" \in lag THEN listCache ELSE list
    /\ pvListCache' = IF "vgc" \in lag THEN pvListCache ELSE pvs

SetPVCList(S) ==
    /\ pvcList' = [pvcList EXCEPT ![req] = S]
    /\ Caches(pvcList', pvListCache)
    /\ UNCHANGED pvList

WorkFrame == UNCHANGED <<setting, wanted, relabels>>
StepFrame == WorkFrame /\ UNCHANGED <<queue, failures, req, matching>>

\* updatePVCs up to the driver call: getMatchingPVCs, and IsPVCListEqual, which
\* holds only of two empty lists: the API server drops most of the metadata of
\* the claims in the stored list.
Start(g) ==
    /\ pc = "idle" /\ g \in queue
    /\ IF ~NoConflict(g) THEN UNCHANGED <<queue, worker>>
       ELSE /\ queue' = queue \ {g}
            /\ IF Matching(g) = {} /\ pvcList[g] = {} THEN UNCHANGED worker
               ELSE /\ pc' = "modify" /\ req' = g /\ matching' = Matching(g)
                    /\ UNCHANGED <<toRemove, toAdd, cur>>
    /\ UNCHANGED <<stored, caches, pvcFin, driver, failures>> /\ WorkFrame

\* Seeded fault: an error of the RPC does not end the reconcile.
Modify_ErrorIgnored ==
    /\ pc = "modify"
    /\ \/ driver' = [driver EXCEPT ![req] = matching] /\ UNCHANGED failures
       \/ failures < MaxFailures /\ failures' = failures + 1 /\ UNCHANGED driver
    /\ pc' = "update" /\ matching' = {}
    /\ toRemove' = pvcList[req] \ matching /\ toAdd' = matching \ pvcList[req]
    /\ UNCHANGED <<stored, caches, pvcFin, queue, req, cur>> /\ WorkFrame

\* Seeded fault: the volumes the group already has are left out of the request.
Modify_OnlyNew ==
    /\ pc = "modify"
    /\ driver' = [driver EXCEPT ![req] = matching \ pvcList[req]]
    /\ pc' = "update" /\ matching' = {}
    /\ toRemove' = pvcList[req] \ matching /\ toAdd' = matching \ pvcList[req]
    /\ UNCHANGED <<stored, caches, pvcFin, queue, req, cur, failures>> /\ WorkFrame

\* ModifyVolumesInVG: one RPC with all the volumes of the group.
Modify ==
    /\ pc = "modify"
    /\ driver' = [driver EXCEPT ![req] = matching]
    /\ pc' = "update" /\ matching' = {}
    /\ toRemove' = pvcList[req] \ matching /\ toAdd' = matching \ pvcList[req]
    /\ UNCHANGED <<stored, caches, pvcFin, queue, req, cur, failures>> /\ WorkFrame

\* getSecrets: the error is recorded in the status of the copy whose list has
\* been replaced for the request, and so the list is stored with it.
SecretMissing ==
    /\ pc = "modify" /\ SecretFails
    /\ failures < MaxFailures /\ failures' = failures + 1
    /\ SetPVCList(matching)
    /\ Requeue
    /\ UNCHANGED <<pvcFin, driver>> /\ WorkFrame

\* RemovePVCFromVG, for each claim of the old list that does not match
RemoveFromList(p) ==
    /\ pc = "update" /\ p \in toRemove
    /\ SetPVCList(pvcList[req] \ {p})
    /\ toRemove' = toRemove \ {p} /\ cur' = p /\ pc' = "removePV"
    /\ UNCHANGED <<pvcFin, driver, toAdd>> /\ StepFrame

\* updateVGCStatusPVList.  The list is made from the cached content; when the
\* write is refused the content is fetched again and the same list is written
\* over what it has.
SetPVList(S) ==
    /\ pvList' = [pvList EXCEPT ![req] = S]
    /\ IF "vgc" \in lag THEN pvListCache' = [pvListCache EXCEPT ![req] = pvList[req]]
                        ELSE pvListCache' = pvList'
    /\ UNCHANGED <<pvcList, listCache>>

RemovePV ==
    /\ pc = "removePV"
    /\ SetPVList(pvListCache[req] \ {cur})
    /\ pc' = "removeFin"
    /\ UNCHANGED <<pvcFin, driver, toRemove, toAdd, cur>> /\ StepFrame

\* Seeded fault: the finalizer goes with the first group the claim leaves.
IsPVCPartAnyVG_Never(p) == FALSE

IsPVCPartAnyVG(p) == \E g \in Groups : p \in listCache[g]

\* RemoveFinalizerFromPVC
RemoveFin ==
    /\ pc = "removeFin"
    /\ pvcFin' = IF IsPVCPartAnyVG(cur) THEN pvcFin ELSE pvcFin \ {cur}
    /\ pc' = "update" /\ cur' = None
    /\ UNCHANGED <<stored, caches, driver, toRemove, toAdd>> /\ StepFrame

\* AddPVCToVG, when every claim that had to go is gone
AddToList(p) ==
    /\ pc = "update" /\ toRemove = {} /\ p \in toAdd
    /\ SetPVCList(pvcList[req] \cup {p})
    /\ toAdd' = toAdd \ {p} /\ cur' = p /\ pc' = "addPV"
    /\ UNCHANGED <<pvcFin, driver, toRemove>> /\ StepFrame

\* AddMatchingPVToMatchingVGC
AddPV ==
    /\ pc = "addPV"
    /\ SetPVList(pvListCache[req] \cup {cur})
    /\ pc' = "addFin"
    /\ UNCHANGED <<pvcFin, driver, toRemove, toAdd, cur>> /\ StepFrame

\* AddFinalizerToPVC
AddFin ==
    /\ pc = "addFin"
    /\ pvcFin' = pvcFin \cup {cur}
    /\ pc' = "update" /\ cur' = None
    /\ UNCHANGED <<stored, caches, driver, toRemove, toAdd>> /\ StepFrame

Done ==
    /\ pc = "update" /\ toRemove = {} /\ toAdd = {}
    /\ Idle
    /\ UNCHANGED <<stored, caches, pvcFin, driver, queue, failures>> /\ WorkFrame

\* A call fails: the error is reported and the reconcile starts again.
CallFails ==
    /\ pc # "idle"
    /\ failures < MaxFailures /\ failures' = failures + 1
    /\ Requeue
    /\ UNCHANGED <<stored, caches, pvcFin, driver>> /\ WorkFrame

Work ==
    \/ Modify \/ RemovePV \/ RemoveFin \/ AddPV \/ AddFin \/ Done
    \/ \E p \in Claims : RemoveFromList(p) \/ AddToList(p)

-----------------------------------------------------------------------------
(***************************************************************************)
(* The user, the watches and the operator's process.                       *)
(***************************************************************************)
UserFrame == UNCHANGED <<setting, stored, caches, pvcFin, driver, worker, failures>>

\* Seeded fault: the groups a claim no longer matches are not told.
Relabel_OnlyNew(p, gs) ==
    /\ relabels < MaxRelabels /\ relabels' = relabels + 1
    /\ gs # wanted[p]
    /\ wanted' = [wanted EXCEPT ![p] = gs]
    /\ queue' = queue \cup gs
    /\ UserFrame

\* CreateRequests maps the old and the new claim to the groups they match.
Relabel(p, gs) ==
    /\ relabels < MaxRelabels /\ relabels' = relabels + 1
    /\ gs # wanted[p]
    /\ wanted' = [wanted EXCEPT ![p] = gs]
    /\ queue' = queue \cup wanted[p] \cup gs
    /\ UserFrame

\* The selector of a group is changed: a new generation of the VolumeGroup.
Reselect(g, ps) ==
    /\ relabels < MaxRelabels /\ relabels' = relabels + 1
    /\ ps # Matching(g)
    /\ wanted' = [p \in Claims |-> IF p \in ps THEN wanted[p] \cup {g} ELSE wanted[p] \ {g}]
    /\ queue' = queue \cup {g}
    /\ UserFrame

SyncFrame ==
    UNCHANGED <<setting, wanted, stored, pvcFin, driver, queue, worker, relabels, failures>>

\* A change of status alone asks for no reconcile.
SyncVG(g) ==
    /\ listCache[g] # pvcList[g]
    /\ listCache' = [listCache EXCEPT ![g] = pvcList[g]]
    /\ UNCHANGED pvListCache /\ SyncFrame

SyncVGC(g) ==
    /\ pvListCache[g] # pvList[g]
    /\ pvListCache' = [pvListCache EXCEPT ![g] = pvList[g]]
    /\ UNCHANGED listCache /\ SyncFrame

Restart ==
    /\ failures < MaxFailures /\ failures' = failures + 1
    /\ listCache' = pvcList /\ pvListCache' = pvList
    /\ queue' = Groups
    /\ Idle
    /\ UNCHANGED <<stored, pvcFin, driver>> /\ WorkFrame

Next ==
    \/ \E g \in Groups : Start(g) \/ SyncVG(g) \/ SyncVGC(g)
    \/ Work \/ SecretMissing \/ CallFails \/ Restart
    \/ \E p \in Claims, gs \in SUBSET Groups : Relabel(p, gs)
    \/ \E g \in Groups, ps \in SUBSET Claims : Reselect(g, ps)

Spec == Init /\ [][Next]_vars

(***************************************************************************)
(* The worker runs and a request that is queued is taken, the queue being  *)
(* first in, first out.  Watches deliver at last.                          *)
(***************************************************************************)
Fairness ==
    /\ WF_vars(Work)
    /\ \A g \in Groups : WF_vars(SyncVG(g)) /\ WF_vars(SyncVGC(g)) /\ SF_vars(Start(g))

FairSpec == Spec /\ Fairness

-----------------------------------------------------------------------------
(***************************************************************************)
(* Properties.                                                             *)
(***************************************************************************)

\* The PVC list of a group follows the storage system: a claim is listed only
\* when the group has its volume there, and is taken off the list only when
\* the group no longer has it.  UpdatePvcAndPvList works from the list found
\* before the RPC, over several calls any of which may fail.
ListFollowsDriver ==
    [][\A g \in Groups :
         /\ pvcList'[g] \ pvcList[g] \subseteq driver[g]
         /\ (pvcList[g] \ pvcList'[g]) \cap driver[g] = {}]_vars

\* Exactly the claims that some group lists have the finalizer, but for the one
\* the worker has at hand.  A listed claim without it may be deleted under its
\* group; an unlisted one with it can never be deleted.  A claim gets and loses
\* it two calls after the list of one group has changed, while other groups may
\* list the claim too.  A failure between the calls breaks it, and so does a
\* cache of VolumeGroups that lags.
HeldWhileListed ==
    "vg" \notin lag /\ failures = 0 =>
        \A p \in Claims \ {cur} : p \in pvcFin <=> \E g \in Groups : p \in pvcList[g]

\* With --multiple-vgs-to-pvc=false no claim is listed by two groups, while
\* labels move and calls fail: the check and the additions are steps apart.  It
\* rests on a cache of VolumeGroups that is up to date.
Exclusive ==
    ~multiple /\ "vg" \notin lag =>
        \A g, h \in Groups : g # h => pvcList[g] \cap pvcList[h] = {}

\* If claims may have several groups, the lists users see end up being what the
\* labels ask for, whatever fails meanwhile and however stale the caches are:
\* nothing but the requeue after an error wakes the worker again.
ListsFollowLabels ==
    multiple => <>[](\A g \in Groups : pvcList[g] = Matching(g))

InStep(g) ==
    /\ pvcList[g] = Matching(g) /\ pvList[g] = Matching(g) /\ driver[g] = Matching(g)

\* When nothing fails and the caches keep up, the PVC list, the PV list and
\* the storage system all end up with the claims that the labels select, and
\* exactly the members have the finalizer.
Converges ==
    [](multiple /\ failures = 0 /\ lag = {})
    => <>[](/\ \A g \in Groups : InStep(g)
            /\ pvcFin = UNION {pvcList[g] : g \in Groups})

(***************************************************************************)
(* What the repository says of the members and the code does not keep.     *)
(***************************************************************************)

\* A claim that stays in the list of a group has its volume in the list of
\* the content: the tests validate "that PVC is in VG" and "that PV is in VGC".
ListedHasPV ==
    \A g \in Groups, p \in Claims :
        [](p \in pvcList[g] => <>(p \notin pvcList[g] \/ p \in pvList[g]))

\* "when the label is added to PVC, the PVC will be added to the matching
\* group": a claim that goes on matching exactly one group joins it, if every
\* claim goes on matching at most one.
LabelledJoins ==
    <>[](\A p \in Claims : Cardinality(wanted[p]) <= 1)
    => \A g \in Groups, p \in Claims :
          [](g \in wanted[p] => <>(g \notin wanted[p] \/ p \in pvcList[g]))
=============================================================================
