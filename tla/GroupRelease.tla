---------------------------- MODULE GroupRelease ----------------------------
(***************************************************************************)
(* The end of a group with its claims: GroupLifecycle and the loop of      *)
(* ClaimDeletion on the content of one VolumeGroup.  The step "members" of *)
(* the VolumeGroup worker puts each claim on the VolumeGroup's list, its   *)
(* volume on the content's list and the finalizer on it, one write after   *)
(* the other, so a crash, a stale content or a refused write leaves them   *)
(* apart.  The step "deletePVCs" of the other worker is the loop; the list *)
(* of volumes goes with the content.                                       *)
(*                                                                         *)
(* Simplifications: the claims that match the group are fixed and bound,   *)
(* and its secret is there (labels that change, claims of several groups   *)
(* and a missing secret belong to GroupMembership); the volume of a claim  *)
(* that is gone may be gone as well.                                       *)
(***************************************************************************)
EXTENDS GroupLifecycle, Sequences

CONSTANTS
    PVs, Unnamed, Shared, InUse, MaxChanges,
    Content,      \* the content whose list and claims are kept
    Matches       \* the sets of volumes that may match the VolumeGroup

VARIABLES
    list, cache, claim, fin, foreign,
    pc, i, array, len, kept, moved, changes,
    matching,     \* volumes whose claims match the VolumeGroup
    copy,         \* the list in the VolumeGroupContent worker's copy
    pvcList,      \* status.pvcList of each VolumeGroup
    memPc,        \* step of the VolumeGroup worker within "members"
    wanted,       \* the claims it found to match
    others,       \* those that had a finalizer of another controller then
    pvc,          \* the claim at hand
    newList       \* the list of volumes it is about to write

ASSUME ReleaseAssumption ==
    /\ Unnamed \subseteq PVs /\ Shared \subseteq PVs
    /\ MaxChanges \in Nat
    /\ Content \in ContentNames
    /\ \A S \in Matches : S \subseteq PVs /\ IsFiniteSet(S)

Loop == INSTANCE ClaimDeletion

listVars == <<list, cache>>
claimVars == <<claim, fin, foreign>>
loopVars == <<pc, i, array, len, kept, moved>>
memberVars == <<memPc, wanted, others, pvc, newList>>

\* What a step of the loop leaves alone: all of the lifecycle but failures.
lifeVars ==
    <<apiVars, cacheVars, groups, nameOf, vgQueue, vgcQueue, vgWorker, vgcWorker, matching, copy,
      pvcList, memberVars>>
quiet == <<listVars, claimVars, loopVars, changes, matching, copy, pvcList, memberVars>>
allVars == <<vars, quiet>>

MemberSteps == {"none", "update", "addPV", "removePV", "writePV", "addFin", "removeFin"}

ReleaseTypeOK ==
    /\ TypeOK /\ Loop!TypeOK
    /\ copy \in Loop!Lists /\ matching \in Matches
    /\ pvcList \in [Names -> SUBSET PVs]
    /\ memPc \in MemberSteps
    /\ wanted \subseteq matching /\ others \subseteq wanted
    /\ IF memPc \in {"none", "update"} THEN pvc = NoName ELSE pvc \in matching
    /\ newList \in Loop!Lists

ReleaseInit ==
    /\ Init
    /\ matching \in Matches
    /\ list = <<>> /\ cache = <<>>
    /\ claim = [pv \in PVs |-> IF pv \in matching THEN "present" ELSE "gone"]
    /\ fin = {} /\ foreign = {}
    /\ Loop!LoopInit /\ copy = <<>>
    /\ pvcList = [n \in Names |-> {}]
    /\ memPc = "none" /\ wanted = {} /\ others = {} /\ pvc = NoName /\ newList = <<>>

-----------------------------------------------------------------------------
(***************************************************************************)
(* updatePVCs.  The worker's copy of status.pvcList is the stored list:    *)
(* UpdateVGSourceContent has just written the whole object, and only this  *)
(* worker changes the list.                                                *)
(***************************************************************************)
AtMembers == vgPc = "members" /\ vgObj.content = Content

\* getMatchingPVCs
Found == {pv \in matching : claim[pv] # "gone"}

\* IsPVCListEqual holds only of two empty lists, as in GroupMembership.
SomeClaims == Found \cup pvcList[vgReq] # {}

MembersIdle ==
    /\ memPc' = "none" /\ wanted' = {} /\ others' = {} /\ pvc' = NoName /\ newList' = <<>>

\* The claims are looked up once; ModifyVolumesInVG needs the content's handle.
ModifyVolumes ==
    /\ AtMembers /\ memPc = "none"
    /\ SomeClaims /\ vgcCache[Content] # NoObj
    /\ memPc' = "update" /\ wanted' = Found /\ others' = foreign \cap Found
    /\ UNCHANGED <<vars, listVars, claimVars, loopVars, changes, matching, copy, pvcList, pvc,
                   newList>>

\* updateVGStatusPVCList: a conflict is met with the VolumeGroup in the cache.
Writable == vgs[vgReq] # NoObj /\ vgs[vgReq] \in {vgObj, vgCache[vgReq]}

ListClaim == AtMembers /\ memPc = "update" /\ Writable

Listed(pv, pvcs, step) ==
    /\ pvcList' = [pvcList EXCEPT ![vgReq] = pvcs] /\ pvc' = pv /\ memPc' = step
    /\ UNCHANGED <<vars, listVars, claimVars, loopVars, changes, matching, copy, wanted, others,
                   newList>>

\* UpdatePvcAndPvList: first what no longer matches ...
RemovePVCFromVG(pv) ==
    /\ ListClaim /\ pv \in pvcList[vgReq] \ wanted
    /\ Listed(pv, pvcList[vgReq] \ {pv}, "removePV")

\* ... and then what is new.
AddPVCToVG(pv) ==
    /\ ListClaim /\ pvcList[vgReq] \subseteq wanted /\ pv \in wanted \ pvcList[vgReq]
    /\ Listed(pv, pvcList[vgReq] \cup {pv}, "addPV")

WithoutPlace(s, j) == [k \in 1 .. Len(s) - 1 |-> IF k < j THEN s[k] ELSE s[k + 1]]

\* GetVGC, and appendPV or removeFromPVList on the list of the cached content.
MakeList ==
    /\ AtMembers /\ vgcCache[Content] # NoObj
    /\ \/ memPc = "addPV" /\ pvc \notin Loop!Members(cache) /\ newList' = Append(cache, pvc)
       \/ memPc = "addPV" /\ pvc \in Loop!Members(cache) /\ newList' = cache
       \/ memPc = "removePV" /\ pvc \notin Loop!Members(cache) /\ newList' = cache
       \/ /\ memPc = "removePV"
          /\ \E j \in DOMAIN cache : cache[j] = pvc /\ newList' = WithoutPlace(cache, j)
    /\ memPc' = "writePV"
    /\ UNCHANGED <<vars, listVars, claimVars, loopVars, changes, matching, copy, pvcList, wanted,
                   others, pvc>>

\* updateVGCStatusPVList: the write is accepted once the cached content is the
\* stored one, and on a conflict the same list is written over a newer content.
ContentCurrent == vgcs[Content] # NoObj /\ vgcCache[Content] = vgcs[Content] /\ cache = list

WriteList ==
    /\ AtMembers /\ memPc = "writePV" /\ ContentCurrent
    /\ list' = newList /\ newList' = <<>>
    /\ memPc' = IF pvc \in wanted THEN "addFin" ELSE "removeFin"
    /\ UNCHANGED <<vars, cache, claimVars, loopVars, changes, matching, copy, pvcList, wanted,
                   others, pvc>>

\* AddFinalizerToPVC: the claim's finalizers are those it had when it was found,
\* and one more.  A claim that is being deleted takes no new finalizer.
AddFinalizerToPVC ==
    /\ AtMembers /\ memPc = "addFin"
    /\ \/ pvc \in fin /\ UNCHANGED <<fin, foreign, moved>>
       \/ /\ pvc \notin fin /\ claim[pvc] = "present"
          /\ fin' = fin \cup {pvc}
          /\ foreign' = IF pvc \in others THEN foreign \cup {pvc} ELSE foreign \ {pvc}
          /\ Loop!Moves(pvc)
    /\ memPc' = "update" /\ pvc' = NoName
    /\ UNCHANGED <<vars, listVars, claim, pc, i, array, len, kept, changes, matching, copy, pvcList,
                   wanted, others, newList>>

\* Every claim is on the list: createSuccessVGEvent ends the reconcile.
MembersDone ==
    /\ AtMembers
    /\ \/ memPc = "none" /\ ~SomeClaims
       \/ memPc = "update" /\ pvcList[vgReq] = wanted
    /\ VGMembers /\ MembersIdle
    /\ UNCHANGED <<listVars, claimVars, loopVars, changes, matching, copy, pvcList>>

\* The reconcile ends with an error: the content or the claim at hand, or its
\* volume, is not found; the retries meet a cache that is still behind; or the
\* API server takes no finalizer.  A claim leaves the list because it is gone,
\* so RemoveFinalizerFromPVC does not find it.
MembersRefused ==
    /\ AtMembers
    /\ \/ memPc = "none" /\ SomeClaims /\ vgcCache[Content] = NoObj
       \/ memPc \in {"addPV", "removePV"} /\ vgcCache[Content] = NoObj
       \/ memPc = "update" /\ ~Writable /\ pvcList[vgReq] # wanted
       \/ memPc \in {"addPV", "removePV"} /\ claim[pvc] = "gone"
       \/ memPc = "writePV" /\ ~ContentCurrent
       \/ memPc = "addFin" /\ pvc \notin fin /\ claim[pvc] # "present"
       \/ memPc = "removeFin"
    /\ VGRequeue /\ MembersIdle
    /\ UNCHANGED <<apiVars, cacheVars, groups, nameOf, vgcQueue, vgcWorker, failures, listVars,
                   claimVars, loopVars, changes, matching, copy, pvcList>>

UpdatePVCs ==
    \/ ModifyVolumes \/ MakeList \/ WriteList \/ AddFinalizerToPVC \/ MembersDone \/ MembersRefused
    \/ \E pv \in matching : AddPVCToVG(pv) \/ RemovePVCFromVG(pv)

-----------------------------------------------------------------------------
VGTaken(n) == VGStart(n) /\ UNCHANGED quiet

\* The list of claims goes with the VolumeGroup.
ListsGo == pvcList' = [n \in Names |-> IF vgs'[n] = NoObj THEN {} ELSE pvcList[n]]

VGWork ==
    \/ UpdatePVCs
    \/ /\ ~AtMembers /\ VGStep /\ ListsGo
       /\ UNCHANGED <<listVars, claimVars, loopVars, changes, matching, copy, memberVars>>

VGOther ==
    \/ /\ VGCallFails /\ MembersIdle
       /\ UNCHANGED <<listVars, claimVars, loopVars, changes, matching, copy, pvcList>>
    \/ (\E n \in Names : PVCEvent(n)) /\ UNCHANGED quiet

\* The loop at its place in the VolumeGroupContent worker.
InLoop == vgcPc = "deletePVCs" /\ vgcReq = Content

LoopStep ==
    /\ InLoop
    /\ Loop!BeginWith(copy) \/ Loop!Body \/ (vgcs[Content] # NoObj /\ Loop!RemovePV)
    /\ UNCHANGED lifeVars

LoopEnds ==
    /\ InLoop /\ pc = "done"
    /\ Loop!Idle /\ VGCDeletePVCs
    /\ UNCHANGED <<listVars, claimVars, changes, matching, copy, pvcList, memberVars>>

\* The reconcile ends with an error: a claim or the content was not found, or
\* the API server refused the finalizers.
LoopRefused ==
    /\ InLoop
    /\ \/ Loop!ClaimRefused
       \/ pc = "removePV" /\ vgcs[Content] = NoObj /\ Loop!Idle
          /\ UNCHANGED <<listVars, claimVars, changes, failures>>
    /\ VGCRequeue /\ copy' = <<>>
    /\ UNCHANGED <<apiVars, cacheVars, groups, nameOf, vgQueue, vgWorker, matching, pvcList,
                   memberVars>>

ContentCallFails ==
    /\ VGCCallFails /\ Loop!Idle /\ copy' = <<>>
    /\ UNCHANGED <<listVars, claimVars, changes, matching, pvcList, memberVars>>

\* The list is part of the content: it goes with it, and a new content has none.
VGCWork ==
    \/ LoopStep \/ LoopRefused \/ LoopEnds
    \/ /\ ~InLoop /\ VGCStep
       /\ list' = IF vgcs'[Content] = NoObj THEN <<>> ELSE list
       /\ copy' = IF vgcPc' = "idle" THEN <<>> ELSE copy
       /\ UNCHANGED <<cache, claimVars, loopVars, changes, matching, pvcList, memberVars>>

\* Reconcile reads the content, its list with it.
Copies(c) ==
    /\ copy' = IF c = Content /\ vgcPc' # "idle" THEN cache ELSE <<>>
    /\ UNCHANGED <<listVars, claimVars, loopVars, changes, matching, pvcList, memberVars>>

VGCTaken(c) == VGCStart(c) /\ Copies(c)
VGCBound(c) == BindingEvent(c) /\ Copies(c)

\* The cache takes over the object as a whole, or only its new list.
SyncContent(c) ==
    \/ /\ SyncVGC(c) /\ cache' = IF c = Content THEN list ELSE cache
       /\ UNCHANGED <<list, claimVars, loopVars, changes, matching, copy, pvcList, memberVars>>
    \/ c = Content /\ vgcCache[c] = vgcs[c] /\ Loop!Sync /\ UNCHANGED lifeVars

SyncGroup(n) == SyncVG(n) /\ UNCHANGED quiet

RestartAll ==
    /\ Restart /\ Loop!Idle /\ MembersIdle /\ cache' = list /\ copy' = <<>>
    /\ UNCHANGED <<list, claimVars, changes, matching, pvcList>>

Users ==
    /\ User /\ ListsGo
    /\ UNCHANGED <<listVars, claimVars, loopVars, changes, matching, copy, memberVars>>

ClaimStep == Loop!Claims /\ UNCHANGED lifeVars

ReleaseNext ==
    \/ VGWork \/ VGOther \/ VGCWork \/ ContentCallFails
    \/ \E n \in Names : VGTaken(n) \/ SyncGroup(n)
    \/ \E c \in ContentNames : VGCTaken(c) \/ VGCBound(c) \/ SyncContent(c)
    \/ RestartAll \/ Users \/ ClaimStep

ReleaseSpec == ReleaseInit /\ [][ReleaseNext]_allVars

\* A claim that is being deleted loses other controllers' finalizers, and goes.
ClaimEnds ==
    /\ \E pv \in PVs :
          Loop!ClaimGoes(pv) \/ (claim[pv] = "terminating" /\ Loop!OtherRemoves(pv))
    /\ UNCHANGED lifeVars

Deliveries == (\E n \in Names : SyncGroup(n)) \/ (\E c \in ContentNames : SyncContent(c))

\* As in GroupLifecycle: the workers run, watches deliver, requests are taken.
ReleaseFairness ==
    /\ WF_allVars(VGWork) /\ WF_allVars(VGCWork)
    /\ WF_allVars(Deliveries) /\ WF_allVars(ClaimEnds)
    /\ \A n \in Names : SF_allVars(VGTaken(n))
    /\ \A c \in ContentNames : SF_allVars(VGCTaken(c))

FairReleaseSpec == ReleaseSpec /\ ReleaseFairness

-----------------------------------------------------------------------------
\* The loop takes a volume off the list only when its claim is on its way out
\* and, unless another group lists the claim, released: the list is what is
\* left to do when the loop starts again after an error.
LeavesDeleted ==
    [][\A pv \in Loop!Members(list) \ Loop!Members(list') :
         pc = "removePV" => claim[pv] # "present" /\ pv \notin fin \ Shared]_allVars

\* The operator deletes a claim only when the VolumeGroup its content was made
\* for is gone: IsVgExist decides that once, from the cache, before a loop of
\* many steps that survives errors, restarts and conflicts.
ClaimsOutliveGroup ==
    [][\A pv \in PVs, u \in UIDs :
         pc = "removeClaim" /\ claim'[pv] # claim[pv] /\ Content = MakeVGName(u)
         => ~Alive(u)]_allVars

Small == Cardinality(matching) <= 2

\* Once the VolumeGroup is gone, its content is being deleted and the volumes
\* of the claims that are its own are on the list, these claims go, however
\* often the loop fails and starts again from a stale list (groups of one or
\* two volumes).  A volume that is not on the list is not seen by the loop.
Own == matching \ Shared
ClaimsReleased ==
    (/\ Small /\ Own \subseteq Loop!Members(list)
     /\ \A n \in Names : vgs[n] = NoObj
     /\ vgcs[Content] # NoObj /\ vgcs[Content].deleting)
    ~> \A pv \in Own : claim[pv] = "gone"

\* When the group is deleted from the storage system the content's list holds
\* no volume whose claim is not on its way out or is still held for the group,
\* however the members' writes and the loop's met (one or two volumes).
ClaimsBeforeGroup ==
    [][Small /\ Content \in groups \ groups'
         => \A pv \in Loop!Members(list) :
               claim[pv] # "present" /\ pv \notin fin \ Shared]_allVars
=============================================================================
