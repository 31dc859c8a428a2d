--------------------------- MODULE ReleaseProofs ---------------------------
(***************************************************************************)
(* Proofs about the end of a group with its claims (GroupRelease): what    *)
(* the loop of DeletePVCsUnderVGC relies on in the life of the VolumeGroup *)
(* and of its content, for any number of VolumeGroups, volumes, failures   *)
(* and changes of claims.                                                  *)
(***************************************************************************)
EXTENDS GroupRelease, GroupOwnershipProofs, SequenceTheorems, FiniteSetTheorems

Leaving(vg, u) == vg = NoObj \/ vg.uid # u \/ vg.deleting

\* The operator has seen that the VolumeGroup with this uid is to go.
Ending(u) ==
    /\ Seen(u)
    /\ Leaving(vgs[nameOf[u]], u) /\ Leaving(vgCache[nameOf[u]], u)

\* It is gone, from the cache as well.
Past(u) ==
    /\ ~Alive(u)
    /\ vgCache[nameOf[u]] = NoObj \/ vgCache[nameOf[u]].uid # u

VGForwardSteps == VGProvisionSteps \cup {"addFinalizer"}

\* Nothing is provisioned for it any more.
Retired(u) ==
    /\ Ending(u)
    /\ vgPc \in VGForwardSteps /\ vgReq = nameOf[u] => Past(u)

\* A deletion that the cache shows is not taken back, and a content is only
\* deleted for a VolumeGroup whose own deletion has been seen.
RetireInv ==
    /\ \A n \in Names : vgCache[n] # NoObj /\ vgCache[n].deleting
                          => Leaving(vgs[n], vgCache[n].uid)
    /\ vgPc = "deleteContent" => Ending(vgObj.uid)
    /\ \A u \in UIDs : Content = MakeVGName(u) =>
         /\ vgcs[Content] # NoObj /\ vgcs[Content].deleting => Retired(u)
         /\ vgcCache[Content] # NoObj /\ vgcCache[Content].deleting => Retired(u)
         /\ vgcReq = Content /\ vgcPc \in VGCRemoveSteps => Retired(u)

\* Until it is gone, the stored content is being deleted whenever a copy the
\* worker goes by is.
GoingInv ==
    vgcs[Content] # NoObj =>
        /\ vgcCache[Content] # NoObj /\ vgcCache[Content].deleting => vgcs[Content].deleting
        /\ vgcReq = Content /\ vgcPc \in VGCRemoveSteps => vgcs[Content].deleting

\* A volume the loop need not come back to.
Finished(pv) == claim[pv] # "present" /\ pv \notin fin \ Shared

\* The volumes left to do are those of the stored list.
SameWork(S) == \A pv \in PVs : Finished(pv) \/ (pv \in S <=> pv \in Loop!Members(list))

\* The slice as it is now.
Slice == {array[k] : k \in 1 .. len}

\* Every list the loop may work from or write back has the same left to do,
\* however old it is.
WorkInv ==
    /\ list # <<>> => vgcs[Content] # NoObj /\ vgcs[Content].fin
    /\ vgcs[Content] # NoObj =>
         /\ vgcCache[Content] # NoObj /\ vgcCache[Content].deleting
              => SameWork(Loop!Members(cache))
         /\ vgcReq = Content /\ vgcPc \in {"checkOwner", "deletePVCs"}
              => SameWork(Loop!Members(copy))
         /\ pc # "idle" => SameWork(Slice)

\* Where the loop is; a claim goes only without the finalizer.
PlaceInv ==
    /\ pc # "idle" => InLoop
    /\ \A pv \in fin : claim[pv] # "gone"

\* What that claim has been through.
DoneInv ==
    /\ pc = "removeClaim" => array[i] \notin fin \ Shared
    /\ pc = "removePV" => Finished(array[i])

SliceDistinct == \A j, k \in 1 .. len : array[j] = array[k] => j = k

\* No list has a volume twice, or one that does not match the group.
Proper(s) == Loop!Distinct(s) /\ Loop!Members(s) \subseteq matching

ListsInv ==
    /\ Proper(list) /\ Proper(cache) /\ Proper(copy) /\ Proper(newList)
    /\ Loop!Members(array) \subseteq matching
    /\ SliceDistinct

AllFinished == \A pv \in Loop!Members(list) : Finished(pv)

\* What is left to do is among what the loop has not come to yet.  The body
\* moves the slice under the loop, and only the last place stays as it is.
LeftInv ==
    Small =>
        /\ Len(array) <= 2
        /\ pc # "idle" =>
             /\ i > 0
             /\ \A pv \in Loop!Members(list) :
                  Finished(pv) \/ \E k \in i .. Len(array) : array[k] = pv
        /\ pc = "done" => AllFinished
        /\ vgcReq = Content /\ vgcPc \in {"removeContent", "removeFinalizer"} => AllFinished

-----------------------------------------------------------------------------
(***************************************************************************)
(* The composition keeps the invariants of GroupLifecycle.  Its steps are  *)
(* steps of GroupLifecycle, or put the content or the VolumeGroup back on  *)
(* the queue because the loop or the work on members was refused.          *)
(***************************************************************************)
LifeInv == TypeOK /\ FinalizerInv /\ OwnerInv /\ BackedInv

LoopRequeue ==
    /\ vgcPc # "idle" /\ VGCRequeue
    /\ UNCHANGED <<vgs, vgcs, vgCache, vgcCache, groups, nameOf, vgQueue, vgPc, vgReq, vgObj,
                   vgStatic, failures>>

MembersRequeue ==
    /\ vgPc # "idle" /\ VGRequeue
    /\ UNCHANGED <<vgs, vgcs, vgCache, vgcCache, groups, nameOf, vgcQueue, vgcPc, vgcReq, vgcObj,
                   failures>>

LifeStep == [Next]_vars \/ LoopRequeue \/ MembersRequeue

\* The steps of updatePVCs that go on with the reconcile.
Listing ==
    \/ ModifyVolumes \/ MakeList \/ WriteList \/ AddFinalizerToPVC
    \/ \E pv \in matching : AddPVCToVG(pv) \/ RemovePVCFromVG(pv)

LEMMA ReleaseIsLife == [ReleaseNext]_allVars => LifeStep
<1> SUFFICES ASSUME [ReleaseNext]_allVars PROVE LifeStep
  OBVIOUS
<1>1. CASE UNCHANGED allVars
  BY <1>1 DEF allVars, LifeStep
<1>2. CASE (VGWork /\ ~UpdatePVCs) \/ VGOther \/ MembersDone \/ \E n \in Names : VGTaken(n)
  BY <1>2 DEF VGWork, VGOther, VGTaken, MembersDone, VGStep, VGController, Next, LifeStep
<1>10. CASE Listing
  BY <1>10
  DEF Listing, ModifyVolumes, MakeList, WriteList, AddFinalizerToPVC, AddPVCToVG, RemovePVCFromVG,
      Listed, LifeStep
<1>11. CASE MembersRefused
  BY <1>11 DEF MembersRefused, AtMembers, LifeStep, MembersRequeue, apiVars, cacheVars, vgcWorker
<1>12. VGWork => (VGWork /\ ~UpdatePVCs) \/ Listing \/ MembersDone \/ MembersRefused
  BY DEF VGWork, UpdatePVCs, Listing
<1>3. ASSUME UNCHANGED lifeVars, UNCHANGED failures PROVE LifeStep
  BY <1>3 DEF lifeVars, vars, LifeStep
<1>4. CASE LoopStep \/ ClaimStep
  BY <1>3, <1>4
  DEF LoopStep, ClaimStep, Loop!BeginWith, Loop!Body, Loop!Turn, Loop!ReleaseClaim,
      Loop!WriteFinalizers, Loop!RetryFinalizers, Loop!RemoveClaim, Loop!Finish, Loop!RemovePV,
      Loop!Claims, Loop!UserDeletesClaim, Loop!OtherAdds, Loop!OtherRemoves, Loop!ClaimGoes,
      Loop!Moves
<1>5. CASE LoopRefused
  BY <1>5 DEF LoopRefused, Loop!ClaimRefused, InLoop, LifeStep, LoopRequeue, apiVars, cacheVars,
              vgWorker
<1>6. CASE LoopEnds \/ (VGCStep /\ ~InLoop) \/ ContentCallFails
  BY <1>6 DEF LoopEnds, VGCStep, ContentCallFails, VGCController, Next, LifeStep
<1>7. CASE \E c \in ContentNames : VGCTaken(c) \/ VGCBound(c)
  BY <1>7 DEF VGCTaken, VGCBound, VGCController, Next, LifeStep
<1>8. CASE \/ \E n \in Names : SyncGroup(n)
           \/ \E c \in ContentNames : SyncContent(c)
  BY <1>3, <1>8 DEF SyncGroup, SyncContent, Watches, Next, LifeStep, Loop!Sync
<1>9. CASE RestartAll \/ Users
  BY <1>9 DEF RestartAll, Users, Next, LifeStep
<1> QED BY <1>1, <1>2, <1>4, <1>5, <1>6, <1>7, <1>8, <1>9, <1>10, <1>11, <1>12 DEF ReleaseNext, VGCWork

LEMMA RequeueType == TypeOK /\ LoopRequeue => TypeOK'
<1> SUFFICES ASSUME TypeOK, LoopRequeue PROVE TypeOK'
  OBVIOUS
<1> USE NameFacts
<1>1. /\ vgcPc' = "idle" /\ vgcReq' = NoName /\ vgcObj' = NoObj
      /\ vgcQueue' = vgcQueue \cup {vgcReq} /\ vgcReq \in ContentNames
  BY DEF LoopRequeue, VGCRequeue, VGCIdle, TypeOK
<1> QED BY <1>1 DEF LoopRequeue, TypeOK, VGCSteps

LEMMA MembersRequeueType == TypeOK /\ MembersRequeue => TypeOK'
<1> SUFFICES ASSUME TypeOK, MembersRequeue PROVE TypeOK'
  OBVIOUS
<1> USE NameFacts
<1>1. /\ vgPc' = "idle" /\ vgReq' = NoName /\ vgObj' = NoObj /\ vgStatic' = FALSE
      /\ vgQueue' = vgQueue \cup {vgReq} /\ vgReq \in Names
  BY DEF MembersRequeue, VGRequeue, VGIdle, TypeOK
<1> QED BY <1>1 DEF MembersRequeue, TypeOK, VGSteps

LEMMA MembersRequeueLife == LifeInv /\ MembersRequeue => LifeInv' /\ GroupsMoveOn
<1> SUFFICES ASSUME LifeInv, MembersRequeue PROVE LifeInv' /\ GroupsMoveOn
  OBVIOUS
<1> USE NameFacts
<1>1. /\ vgPc' = "idle" /\ vgReq' = NoName /\ vgObj' = NoObj /\ vgStatic' = FALSE
      /\ UNCHANGED <<vgs, vgcs, vgCache, vgcCache, groups, nameOf, vgcQueue, vgcPc, vgcReq, vgcObj,
                     failures>>
  BY DEF MembersRequeue, VGRequeue, VGIdle
<1>2. TypeOK'
  BY MembersRequeueType DEF LifeInv
<1>3. FinalizerInv'
  BY <1>1 DEF LifeInv, FinalizerInv, DeletingHasFinalizer, CacheSeesProtection, ContentWorkerInv,
              VGCRemoveSteps, DynamicPolicy, NoLeakedGroup, Protected
<1>4. OwnerInv'
  BY <1>1 DEF LifeInv, OwnerInv, UidsNamed, GroupProtection, GroupWorkerInv, Seen, Alive, IsVG,
              Protected, VGProvisionSteps
<1>5. BackedInv'
  BY <1>1, UidOfName
  DEF LifeInv, BackedInv, CopiesInv, HandleBacked, ReportInv, GroupCopy, ContentCopy,
      HandleRecorded, Seen, Alive, IsVG, VGCRemoveSteps
<1>6. GroupsMoveOn
  BY <1>1 DEF GroupsMoveOn
<1> QED BY <1>2, <1>3, <1>4, <1>5, <1>6 DEF LifeInv

LEMMA RequeueLife == LifeInv /\ LoopRequeue => LifeInv' /\ GroupsMoveOn
<1> SUFFICES ASSUME LifeInv, LoopRequeue PROVE LifeInv' /\ GroupsMoveOn
  OBVIOUS
<1> USE NameFacts
<1>1. /\ vgcPc' = "idle" /\ vgcReq' = NoName /\ vgcObj' = NoObj
      /\ vgcQueue' = vgcQueue \cup {vgcReq} /\ vgcReq \in ContentNames
      /\ UNCHANGED <<vgs, vgcs, vgCache, vgcCache, groups, nameOf, vgQueue, vgPc, vgReq, vgObj,
                     vgStatic, failures>>
  BY DEF LoopRequeue, VGCRequeue, VGCIdle, LifeInv, TypeOK
<1>2. TypeOK'
  BY RequeueType DEF LifeInv
<1>3. FinalizerInv'
  BY <1>1 DEF LifeInv, FinalizerInv, DeletingHasFinalizer, CacheSeesProtection, ContentWorkerInv,
              VGCRemoveSteps, DynamicPolicy, NoLeakedGroup, Protected
<1>4. OwnerInv'
  BY <1>1 DEF LifeInv, OwnerInv, UidsNamed, GroupProtection, GroupWorkerInv, Seen, Alive, IsVG,
              Protected
<1>5. BackedInv'
  BY <1>1, UidOfName
  DEF LifeInv, BackedInv, CopiesInv, HandleBacked, ReportInv, GroupCopy, ContentCopy,
      HandleRecorded, Seen, Alive, IsVG, VGCRemoveSteps
<1>6. GroupsMoveOn
  BY <1>1 DEF GroupsMoveOn
<1> QED BY <1>2, <1>3, <1>4, <1>5, <1>6 DEF LifeInv

LEMMA StepLife ==
    ASSUME NamesUnguessed, LifeInv, LifeStep
    PROVE  LifeInv' /\ GroupsMoveOn
<1>1. CASE LoopRequeue
  BY <1>1, RequeueLife
<1>2. CASE [Next]_vars
  BY <1>2, NextType, NextInv, NextOwner, NextBacked, NextMovesOn DEF LifeInv
<1>3. CASE MembersRequeue
  BY <1>3, MembersRequeueLife
<1> QED BY <1>1, <1>2, <1>3 DEF LifeStep

-----------------------------------------------------------------------------
(***************************************************************************)
(* A VolumeGroup that is retired stays so, and its content is deleted only *)
(* once it is.                                                             *)
(***************************************************************************)

\* A VolumeGroup on its way out does not come back.
LEMMA LeavingStays ==
    ASSUME GroupsMoveOn, NEW u \in UIDs, nameOf[u] # NoName, NEW n \in Names, Leaving(vgs[n], u)
    PROVE  Leaving(vgs'[n], u)
BY DEF GroupsMoveOn, Leaving

LEMMA EndingStays ==
    ASSUME TypeOK, TypeOK', GroupsMoveOn, NEW u \in UIDs, Ending(u)
    PROVE  Ending(u)'
<1>1. nameOf[u] # NoName /\ Seen(u)
  BY DEF Ending, Seen
<1>2. nameOf'[u] = nameOf[u] /\ nameOf[u] \in Names /\ Seen(u)'
  BY <1>1, SeenStays
<1>3. Leaving(vgs'[nameOf[u]], u)
  BY <1>1, <1>2, LeavingStays DEF Ending
<1>4. Leaving(vgCache'[nameOf[u]], u)
  BY <1>2 DEF Ending, GroupsMoveOn
<1> QED BY <1>2, <1>3, <1>4 DEF Ending

\* The worker goes forward only for a VolumeGroup it was at work on, or one
\* that the cache does not show to be deleted.
LEMMA GoesForward ==
    ASSUME LifeInv, LifeStep, vgPc' \in VGForwardSteps
    PROVE  \/ vgPc \in VGForwardSteps /\ vgReq' = vgReq
           \/ /\ vgReq' \in Names /\ vgCache' = vgCache
              /\ vgCache[vgReq'] # NoObj /\ ~vgCache[vgReq'].deleting
<1>1. CASE vgPc' = vgPc /\ vgReq' = vgReq
  BY <1>1
<1>2. ASSUME NEW n \in Names, VGReconcile(n)
      PROVE  /\ vgReq' = n /\ vgCache' = vgCache
             /\ vgCache[n] # NoObj /\ ~vgCache[n].deleting
  <2>1. ReconcileStep(vgCache[n]) # "idle"
    BY <1>2 DEF VGReconcile, VGIdle, VGForwardSteps, VGProvisionSteps
  <2>2. /\ vgPc' = ReconcileStep(vgCache[n]) /\ vgReq' = n /\ vgCache' = vgCache
    BY <1>2, <2>1 DEF VGReconcile, VGFrame, cacheVars
  <2>3. vgCache[n] \in VG \cup {NoObj}
    BY DEF LifeInv, TypeOK
  <2> QED BY <2>1, <2>2, <2>3, NameFacts
          DEF ReconcileStep, VGForwardSteps, VGProvisionSteps, VG
<1>3. CASE VGStep \/ VGCallFails
  BY <1>3
  DEF VGStep, VGCallFails, VGAddFinalizer, VGCreateContent, VGCheckReady, VGSetContent,
      VGSetStatus, VGConfirmStatus, VGBindContent, VGMembers, VGDeleteContent,
      VGRemoveFinalizer, VGRetry, VGRefused, VGGoto, VGRequeue, VGDone, VGIdle,
      VGForwardSteps, VGProvisionSteps, VGRetrySteps
<1>4. CASE UNCHANGED vars \/ User \/ Watches \/ VGCController \/ LoopRequeue
  BY <1>1, <1>4
  DEF vars, vgWorker, User, Watches, CreateVG, DeleteVG, DeleteVGC, CreateStaticVGC, SyncVG,
      SyncVGC, WorkersFrame, VGCController, VGCStep, VGCStart, BindingEvent,
      VGCReconcile, VGCThinSpec, VGCStaticSpec, FreshSpecUpdate, VGCThinStatus,
      VGCReadyStatus, StatusUpdate, VGCAddFinalizer, VGCCreateGroup, VGCSetHandle,
      VGCCheckOwner, VGCDeletePVCs, VGCRemoveContent, VGCRemoveFinalizer, VGCRetry,
      VGCRefused, VGCCallFails, VGCFrame, LoopRequeue
<1>5. CASE Restart
  BY <1>5 DEF Restart, VGIdle, VGForwardSteps, VGProvisionSteps
<1>6. CASE MembersRequeue
  BY <1>6 DEF MembersRequeue, VGRequeue, VGIdle, VGForwardSteps, VGProvisionSteps
<1> QED BY <1>2, <1>3, <1>4, <1>5, <1>6 DEF LifeStep, Next, VGController, VGStart, PVCEvent

LEMMA RetiredStays ==
    ASSUME LifeInv, LifeInv', LifeStep, GroupsMoveOn, NEW u \in UIDs, Retired(u)
    PROVE  Retired(u)'
<1>1. TypeOK /\ TypeOK' /\ Ending(u) /\ Ending(u)' /\ nameOf[u] # NoName
  BY EndingStays DEF Retired, LifeInv, Ending, Seen
<1>2. nameOf'[u] = nameOf[u] /\ nameOf[u] \in Names /\ (Alive(u)' => Alive(u))
  BY <1>1, SeenStays
<1> SUFFICES ASSUME vgPc' \in VGForwardSteps, vgReq' = nameOf[u] PROVE Past(u)'
  BY <1>1, <1>2 DEF Retired
<1>3. Past(u)
  <2>1. CASE vgPc \in VGForwardSteps /\ vgReq' = vgReq
    BY <2>1 DEF Retired
  <2>2. CASE vgCache[vgReq'] # NoObj /\ ~vgCache[vgReq'].deleting
    BY <1>1, <2>2 DEF Past, Ending, Leaving, Seen
  <2> QED BY <2>1, <2>2, GoesForward
<1> QED BY <1>1, <1>2, <1>3 DEF Past, GroupsMoveOn, Alive, IsVG

\* No step of the VolumeGroup worker that provisions is for a retired one.
LEMMA NotForRetired ==
    ASSUME LifeInv, NEW u \in UIDs, Retired(u), vgPc \in VGProvisionSteps
    PROVE  vgObj.uid # u
<1> SUFFICES ASSUME vgObj.uid = u PROVE FALSE
  OBVIOUS
<1>1. vgPc # "idle" /\ vgReq = nameOf[u] /\ IsVG(vgReq, u)
  BY DEF LifeInv, OwnerInv, UidsNamed, GroupWorkerInv, VGProvisionSteps
<1>2. vgReq # NoName
  BY <1>1, NameFacts DEF LifeInv, TypeOK
<1> QED BY <1>1, <1>2 DEF Retired, Past, Alive, VGForwardSteps

-----------------------------------------------------------------------------
(***************************************************************************)
(* What a step may do to the content: create it for a VolumeGroup, ask for *)
(* its deletion for one that is deleted, write it, or release it.          *)
(***************************************************************************)
ContentMade(u) ==
    /\ vgPc = "createContent" /\ vgObj.uid = u
    /\ vgcs[Content] = NoObj /\ vgcs'[Content] # NoObj /\ ~vgcs'[Content].deleting

ContentAsked(u) ==
    /\ vgPc = "deleteContent" /\ vgObj.uid = u /\ vgPc' = "removeFinalizer"
    /\ vgcs[Content] # NoObj /\ vgcs'[Content] = Deleted(vgcs[Content])

ContentWritten ==
    /\ vgcs[Content] # NoObj /\ vgcs'[Content] # NoObj
    /\ vgcs'[Content].deleting = vgcs[Content].deleting
    /\ vgcs[Content].fin => vgcs'[Content].fin

ContentReleased ==
    /\ vgcPc = "removeFinalizer" /\ vgcReq = Content /\ vgcPc' = "idle"
    /\ vgcs[Content] # NoObj /\ vgcs'[Content] = Released(vgcs[Content])

LEMMA ContentSteps ==
    ASSUME NamesUnguessed, Content \notin UserDeletes, LifeInv, LifeStep,
           NEW u \in UIDs, Content = MakeVGName(u)
    PROVE  \/ vgcs'[Content] = vgcs[Content]
           \/ ContentMade(u) \/ ContentAsked(u) \/ ContentWritten \/ ContentReleased
<1> DEFINE Goal == \/ vgcs'[Content] = vgcs[Content]
                   \/ ContentMade(u) \/ ContentAsked(u) \/ ContentWritten \/ ContentReleased
<1> SUFFICES Goal
  OBVIOUS
<1> USE NameFacts
<1>type. /\ Content \in ContentNames /\ Content \notin StaticContents /\ Content # NoName
         /\ vgcs \in [ContentNames -> VGC \cup {NoObj}]
         /\ vgcCache \in [ContentNames -> VGC \cup {NoObj}]
         /\ vgPc # "idle" => vgReq \in Names /\ vgObj \in VG
         /\ vgcPc # "idle" => vgcReq \in ContentNames /\ vgcObj \in VGC
  BY UidOfName DEF LifeInv, TypeOK
<1>write. ASSUME NEW c \in ContentNames, NEW new \in VGC, vgcs' = [vgcs EXCEPT ![c] = new],
                 vgcs[c] # NoObj, new.deleting = vgcs[c].deleting, vgcs[c].fin => new.fin
          PROVE  Goal
  BY <1>type, <1>write DEF ContentWritten
<1>1. CASE vgcs' = vgcs
  BY <1>1
<1>2. CASE VGCreateContent
  <2>1. /\ vgPc = "createContent" /\ vgObj \in VG /\ vgReq \in Names /\ vgObj.uid \in UIDs
        /\ vgcs' = IF vgcs[MakeVGName(vgObj.uid)] = NoObj
                     THEN [vgcs EXCEPT ![MakeVGName(vgObj.uid)] = NewVGC(vgReq)] ELSE vgcs
    BY <1>2, <1>type DEF VGCreateContent, VG
  <2>2. NewVGC(vgReq) \in VGC /\ NewVGC(vgReq) # NoObj /\ ~NewVGC(vgReq).deleting
    BY <2>1, NewVGCType DEF NewVGC
  <2> QED BY <1>type, <2>1, <2>2, UidOfName DEF ContentMade
<1>3. CASE VGBindContent
  <2>1. CASE vgcs' # vgcs
    <3>1. /\ vgObj.content \in ContentNames /\ vgReq \in Names
          /\ vgcCache[vgObj.content] # NoObj /\ vgcs[vgObj.content] = vgcCache[vgObj.content]
          /\ vgcs' = [vgcs EXCEPT ![vgObj.content] =
                        [StaticSpec(vgcCache[vgObj.content]) EXCEPT !.ref = vgReq]]
      <4>1. /\ vgPc = "bindContent" /\ vgcCache[vgObj.content] # NoObj
            /\ vgcs[vgObj.content] = vgcCache[vgObj.content]
            /\ vgcs' = [vgcs EXCEPT ![vgObj.content] =
                          [StaticSpec(vgcCache[vgObj.content]) EXCEPT !.ref = vgReq]]
        BY <1>3, <2>1 DEF VGBindContent
      <4>2. vgObj.content \in ContentNames
        BY <1>type, <2>1, <4>1 DEF VG
      <4> QED BY <1>type, <4>1, <4>2
    <3>2. vgcs[vgObj.content] \in VGC
      BY <1>type, <3>1
    <3>3. /\ [StaticSpec(vgcs[vgObj.content]) EXCEPT !.ref = vgReq] \in VGC
          /\ [StaticSpec(vgcs[vgObj.content]) EXCEPT !.ref = vgReq].deleting
               = vgcs[vgObj.content].deleting
          /\ [StaticSpec(vgcs[vgObj.content]) EXCEPT !.ref = vgReq].fin = vgcs[vgObj.content].fin
      BY <3>1, <3>2, SpecFacts, SpecKeeps
    <3> QED BY <1>write, <3>1, <3>2, <3>3
  <2> QED BY <1>1, <2>1
<1>4. CASE VGDeleteContent
  <2>1. CASE vgcs'[Content] # vgcs[Content]
    <3>1. /\ vgPc = "deleteContent" /\ vgObj \in VG /\ vgPc' = "removeFinalizer"
          /\ vgObj.content # NoName /\ vgcs[vgObj.content] # NoObj
          /\ vgcs' = [vgcs EXCEPT ![vgObj.content] = Deleted(vgcs[vgObj.content])]
      BY <1>4, <1>type, <2>1 DEF VGDeleteContent, VGGoto, VGRequeue
    <3>2. vgObj.content = Content /\ vgObj.uid \in UIDs
      BY <1>type, <2>1, <3>1 DEF VG
    <3>3. vgObj.content \notin SourceContents
      BY <3>2 DEF NamesUnguessed
    <3>4. vgObj.content = MakeVGName(vgObj.uid)
      BY <3>1, <3>3 DEF LifeInv, BackedInv, CopiesInv, GroupCopy
    <3>5. vgObj.uid = u
      BY <3>2, <3>4, UidOfName
    <3> QED BY <1>type, <3>1, <3>2, <3>5 DEF ContentAsked
  <2> QED BY <2>1
<1>5. ASSUME NEW step, NEW next, NEW spec,
             spec \in {ThinSpec(vgcCache[vgcReq]), StaticSpec(vgcCache[vgcReq])},
             step # "idle", FreshSpecUpdate(step, spec, next)
      PROVE  Goal
  <2>1. CASE vgcs' # vgcs
    <3>1. /\ vgcReq \in ContentNames /\ vgcCache[vgcReq] # NoObj
          /\ vgcs[vgcReq] = vgcCache[vgcReq] /\ vgcs' = [vgcs EXCEPT ![vgcReq] = spec]
      BY <1>5, <1>type, <2>1 DEF FreshSpecUpdate, VGCWrite
    <3>2. vgcs[vgcReq] \in VGC /\ vgcs[vgcReq] # NoObj
      BY <1>type, <3>1
    <3>3. spec \in VGC /\ spec.deleting = vgcs[vgcReq].deleting /\ spec.fin = vgcs[vgcReq].fin
      <4>1. ASSUME NEW vgc \in VGC
            PROVE  /\ ThinSpec(vgc).deleting = vgc.deleting /\ ThinSpec(vgc).fin = vgc.fin
                   /\ StaticSpec(vgc).deleting = vgc.deleting /\ StaticSpec(vgc).fin = vgc.fin
        BY DEF ThinSpec, StaticSpec, VGC
      <4> QED BY <1>5, <3>1, <3>2, <4>1, SpecFacts
    <3> QED BY <1>write, <3>1, <3>2, <3>3
  <2> QED BY <1>1, <2>1
<1>6. ASSUME NEW new \in VGC, vgcPc # "idle", VGCCurrent, VGCWrite(new),
             new.deleting = vgcObj.deleting, vgcObj.fin => new.fin
      PROVE  Goal
  BY <1>write, <1>type, <1>6 DEF VGCCurrent, VGCWrite
<1>7. CASE VGCThinStatus \/ VGCReadyStatus
  <2>1. \E ready \in BOOLEAN :
          /\ vgcPc # "idle" /\ VGCCurrent /\ VGCWrite([vgcObj EXCEPT !.ready = ready])
    BY <1>7 DEF VGCThinStatus, VGCReadyStatus, StatusUpdate
  <2>2. PICK ready \in BOOLEAN :
          /\ vgcPc # "idle" /\ VGCCurrent /\ VGCWrite([vgcObj EXCEPT !.ready = ready])
    BY <2>1
  <2>3. /\ [vgcObj EXCEPT !.ready = ready] \in VGC
        /\ [vgcObj EXCEPT !.ready = ready].deleting = vgcObj.deleting
        /\ [vgcObj EXCEPT !.ready = ready].fin = vgcObj.fin
    BY <1>type, <2>2 DEF VGC
  <2> QED BY <1>6, <2>2, <2>3
<1>8. CASE VGCAddFinalizer
  <2>1. /\ vgcPc # "idle" /\ VGCCurrent /\ VGCWrite([vgcObj EXCEPT !.fin = TRUE])
    BY <1>8 DEF VGCAddFinalizer
  <2>2. /\ [vgcObj EXCEPT !.fin = TRUE] \in VGC
        /\ [vgcObj EXCEPT !.fin = TRUE].deleting = vgcObj.deleting
        /\ [vgcObj EXCEPT !.fin = TRUE].fin
    BY <1>type, <2>1 DEF VGC
  <2> QED BY <1>6, <2>1, <2>2
<1>9. CASE VGCSetHandle
  <2>1. /\ vgcPc # "idle" /\ VGCCurrent /\ VGCWrite([vgcObj EXCEPT !.handle = TRUE])
    BY <1>9 DEF VGCSetHandle
  <2>2. /\ [vgcObj EXCEPT !.handle = TRUE] \in VGC
        /\ [vgcObj EXCEPT !.handle = TRUE].deleting = vgcObj.deleting
        /\ [vgcObj EXCEPT !.handle = TRUE].fin = vgcObj.fin
    BY <1>type, <2>1 DEF VGC
  <2> QED BY <1>6, <2>1, <2>2
<1>10. CASE VGCRemoveFinalizer
  <2>1. /\ vgcPc = "removeFinalizer" /\ vgcPc' = "idle" /\ vgcs[vgcReq] = vgcObj
        /\ vgcs' = [vgcs EXCEPT ![vgcReq] = Released(vgcObj)]
    BY <1>10 DEF VGCRemoveFinalizer, VGCCurrent, VGCWrite, VGCDone, VGCIdle
  <2> QED BY <1>type, <2>1 DEF ContentReleased
<1>11. CASE User
  BY <1>type, <1>11 DEF User, CreateVG, DeleteVG, DeleteVGC, CreateStaticVGC
<1>12. CASE VGController
  BY <1>1, <1>2, <1>3, <1>4, <1>12
  DEF VGController, VGStep, VGStart, PVCEvent, VGReconcile, VGAddFinalizer, VGCheckReady,
      VGSetContent, VGSetStatus, VGConfirmStatus, VGMembers, VGRemoveFinalizer, VGRetry,
      VGRefused, VGCallFails, apiVars
<1>13. CASE VGCController
  <2>1. CASE VGCThinSpec \/ VGCStaticSpec
    BY <1>5, <2>1 DEF VGCThinSpec, VGCStaticSpec
  <2> QED
    BY <1>1, <1>7, <1>8, <1>9, <1>10, <1>13, <2>1
    DEF VGCController, VGCStep, VGCStart, BindingEvent, VGCReconcile, VGCCreateGroup,
        VGCCheckOwner, VGCDeletePVCs, VGCRemoveContent, VGCRetry, VGCRefused, VGCCallFails
<1>14. CASE UNCHANGED vars \/ Watches \/ Restart \/ LoopRequeue \/ MembersRequeue
  BY <1>1, <1>14
  DEF vars, apiVars, Watches, Restart, SyncVG, SyncVGC, LoopRequeue, MembersRequeue
<1> QED BY <1>11, <1>12, <1>13, <1>14 DEF LifeStep, Next

\* The cache of contents moves on to what is stored.
LEMMA CacheMoves ==
    ASSUME TypeOK, Content \in ContentNames, LifeStep
    PROVE  vgcCache'[Content] = vgcCache[Content] \/ vgcCache'[Content] = vgcs[Content]
BY DEF LifeStep, Next, vars, cacheVars, User, Watches, Restart, CreateVG, DeleteVG, DeleteVGC,
    CreateStaticVGC, SyncVG, SyncVGC, VGController, VGStep, VGStart, PVCEvent,
    VGReconcile, VGAddFinalizer, VGCreateContent, VGCheckReady, VGSetContent,
    VGSetStatus, VGConfirmStatus, VGBindContent, VGMembers, VGDeleteContent,
    VGRemoveFinalizer, VGRetry, VGRefused, VGCallFails, VGFrame, VGCController,
    VGCStep, VGCStart, BindingEvent, VGCReconcile, VGCThinSpec, VGCStaticSpec,
    FreshSpecUpdate, VGCThinStatus, VGCReadyStatus, StatusUpdate, VGCAddFinalizer,
    VGCCreateGroup, VGCSetHandle, VGCCheckOwner, VGCDeletePVCs, VGCRemoveContent,
    VGCRemoveFinalizer, VGCRetry, VGCRefused, VGCCallFails, VGCFrame, LoopRequeue,
    MembersRequeue, TypeOK

\* The worker removes a content that the cache shows to be deleted.
LEMMA EntersRemoval ==
    ASSUME TypeOK, LifeStep, vgcReq' = Content, vgcPc' \in VGCRemoveSteps
    PROVE  \/ vgcReq = Content /\ vgcPc \in VGCRemoveSteps
           \/ vgcCache[Content] # NoObj /\ vgcCache[Content].deleting
<1> DEFINE Goal == \/ vgcReq = Content /\ vgcPc \in VGCRemoveSteps
                   \/ vgcCache[Content] # NoObj /\ vgcCache[Content].deleting
<1> SUFFICES Goal
  OBVIOUS
<1>1. CASE vgcPc \in VGCRemoveSteps /\ vgcReq' = vgcReq
  BY <1>1
<1>2. ASSUME NEW c \in ContentNames, VGCReconcile(c) PROVE Goal
  <2>1. /\ c = Content /\ vgcCache[c] # NoObj /\ vgcPc' = ContentStep(vgcCache[c])
    BY <1>2 DEF VGCReconcile, VGCIdle, VGCRemoveSteps
  <2>2. vgcCache[c] \in VGC
    BY <1>2, <2>1 DEF TypeOK
  <2>3. vgcCache[c].deleting
    BY <2>1, <2>2 DEF ContentStep, GroupStep, VGCRemoveSteps, VGC
  <2> QED BY <2>1, <2>3
<1>3. CASE VGCStep \/ VGCCallFails
  <2>1. \A vgc \in VGC : GroupStep(vgc) \notin VGCRemoveSteps
    BY DEF GroupStep, VGCRemoveSteps
  <2>2. VGCAddFinalizer => vgcPc' \notin VGCRemoveSteps
    BY <2>1 DEF VGCAddFinalizer, VGCGoto, GroupStep, VGCRemoveSteps
  <2> QED
    BY <1>1, <1>3, <2>2
    DEF VGCStep, VGCCallFails, VGCThinSpec, VGCStaticSpec, FreshSpecUpdate, VGCThinStatus,
        VGCReadyStatus, StatusUpdate, VGCCreateGroup, VGCSetHandle, VGCCheckOwner,
        VGCDeletePVCs, VGCRemoveContent, VGCRemoveFinalizer, VGCRetry, VGCRefused, VGCGoto,
        VGCDone, VGCRequeue, VGCIdle, VGCRemoveSteps, VGCRetrySteps
<1>4. CASE UNCHANGED vars \/ User \/ Watches \/ VGController \/ MembersRequeue
  BY <1>1, <1>4
  DEF MembersRequeue, vars, vgcWorker, User, Watches, CreateVG, DeleteVG, DeleteVGC, CreateStaticVGC, SyncVG,
      SyncVGC, WorkersFrame, VGController, VGStep, VGStart, PVCEvent,
      VGReconcile, VGAddFinalizer, VGCreateContent, VGCheckReady, VGSetContent,
      VGSetStatus, VGConfirmStatus, VGBindContent, VGMembers, VGDeleteContent,
      VGRemoveFinalizer, VGRetry, VGRefused, VGCallFails, VGFrame
<1>5. CASE Restart \/ LoopRequeue
  BY <1>5 DEF Restart, LoopRequeue, VGCRequeue, VGCIdle, VGCRemoveSteps
<1> QED
  BY <1>2, <1>3, <1>4, <1>5 DEF LifeStep, Next, VGCController, VGCStart, BindingEvent

\* RetireInv is kept by every step.
LEMMA StepRetire ==
    ASSUME NamesUnguessed, Content \in DynamicContents \ UserDeletes,
           LifeInv, RetireInv, LifeStep
    PROVE  RetireInv'
<1> USE NameFacts
<1>life. LifeInv' /\ GroupsMoveOn /\ TypeOK /\ TypeOK' /\ OwnerInv /\ OwnerInv'
  BY StepLife DEF LifeInv
<1>1. ASSUME NEW n \in Names, vgCache'[n] # NoObj, vgCache'[n].deleting
      PROVE  Leaving(vgs'[n], vgCache'[n].uid)
  <2>1. vgCache'[n].uid \in UIDs /\ Leaving(vgs[n], vgCache'[n].uid)
    BY <1>1, <1>life DEF TypeOK, VG, GroupsMoveOn, RetireInv, Leaving
  <2>2. nameOf[vgCache'[n].uid] = n
    BY <1>1, <1>life DEF GroupsMoveOn, OwnerInv, UidsNamed
  <2> QED BY <1>life, <2>1, <2>2, LeavingStays
<1>2. ASSUME vgPc' = "deleteContent" PROVE Ending(vgObj.uid)'
  <2>1. vgObj' \in VG /\ vgObj'.uid \in UIDs
    BY <1>2, <1>life DEF TypeOK, VG
  <2>2. CASE vgPc = "deleteContent" /\ vgObj' = vgObj
    <3>1. Ending(vgObj.uid)
      BY <2>2 DEF RetireInv
    <3>2. PICK u \in UIDs : u = vgObj.uid
      BY <2>1, <2>2
    <3> QED BY <1>life, <2>2, <3>1, <3>2, EndingStays
  <2>3. CASE /\ vgReq' \in Names /\ vgObj' = vgCache[vgReq'] /\ vgObj'.deleting
             /\ vgCache' = vgCache
    <3>1. Seen(vgObj.uid)' /\ nameOf'[vgObj'.uid] = vgReq'
      BY <1>2, <1>life DEF OwnerInv, UidsNamed
    <3>2. vgObj' # NoObj
      BY <2>1
    <3>3. Leaving(vgs'[vgReq'], vgObj'.uid)
      BY <1>1, <2>3, <3>2
    <3>4. Leaving(vgCache'[vgReq'], vgObj'.uid)
      BY <2>3 DEF Leaving
    <3> QED BY <3>1, <3>3, <3>4 DEF Ending
  <2>4. ASSUME NEW n \in Names, VGReconcile(n)
        PROVE  /\ vgReq' \in Names /\ vgObj' = vgCache[vgReq'] /\ vgObj'.deleting
               /\ vgCache' = vgCache
    <3>1. /\ vgReq' = n /\ vgObj' = vgCache[n] /\ vgCache' = vgCache
          /\ ReconcileStep(vgCache[n]) = "deleteContent"
      BY <1>2, <2>4 DEF VGReconcile, VGIdle, VGFrame, cacheVars
    <3>2. vgCache[n] \in VG
      BY <2>1, <3>1
    <3> QED BY <3>1, <3>2 DEF ReconcileStep, VG, ProvisionStep
  <2>5. CASE VGStep \/ VGCallFails
    BY <1>2, <2>2, <2>5, StepFacts, <1>life
    DEF VGStep, VGCallFails, VGAddFinalizer, VGCreateContent, VGCheckReady, VGSetContent,
        VGSetStatus, VGConfirmStatus, VGBindContent, VGMembers, VGDeleteContent, ProvisionStep,
        VGRemoveFinalizer, VGRetry, VGRefused, VGGoto, VGRequeue, VGDone, VGIdle, VGRetrySteps
  <2>6. CASE UNCHANGED vars \/ User \/ Watches \/ VGCController \/ LoopRequeue
    BY <1>2, <2>2, <2>6
    DEF vars, vgWorker, User, Watches, CreateVG, DeleteVG, DeleteVGC, CreateStaticVGC, SyncVG,
        SyncVGC, WorkersFrame, VGCController, VGCStep, VGCStart, BindingEvent,
        VGCReconcile, VGCThinSpec, VGCStaticSpec, FreshSpecUpdate, VGCThinStatus,
        VGCReadyStatus, StatusUpdate, VGCAddFinalizer, VGCCreateGroup, VGCSetHandle,
        VGCCheckOwner, VGCDeletePVCs, VGCRemoveContent, VGCRemoveFinalizer, VGCRetry,
        VGCRefused, VGCCallFails, VGCFrame, LoopRequeue
  <2>7. CASE Restart \/ MembersRequeue
    BY <1>2, <2>7 DEF Restart, MembersRequeue, VGRequeue, VGIdle
  <2> QED
    BY <2>3, <2>4, <2>5, <2>6, <2>7 DEF LifeStep, Next, VGController, VGStart, PVCEvent
<1>3. ASSUME NEW u \in UIDs, Content = MakeVGName(u)
      PROVE  /\ vgcs'[Content] # NoObj /\ vgcs'[Content].deleting => Retired(u)'
             /\ vgcCache'[Content] # NoObj /\ vgcCache'[Content].deleting => Retired(u)'
             /\ vgcReq' = Content /\ vgcPc' \in VGCRemoveSteps => Retired(u)'
  <2>1. Retired(u) => Retired(u)'
    BY <1>life, RetiredStays
  <2>2. /\ vgcs[Content] # NoObj /\ vgcs[Content].deleting => Retired(u)
        /\ vgcCache[Content] # NoObj /\ vgcCache[Content].deleting => Retired(u)
        /\ vgcReq = Content /\ vgcPc \in VGCRemoveSteps => Retired(u)
    BY <1>3 DEF RetireInv
  <2>3. ASSUME vgcs'[Content] # NoObj, vgcs'[Content].deleting PROVE Retired(u)'
    <3>1. CASE ContentAsked(u)
      <4>1. Ending(u)
        BY <3>1 DEF ContentAsked, RetireInv
      <4>2. Ending(u)'
        BY <1>life, <4>1, EndingStays
      <4> QED BY <3>1, <4>2 DEF ContentAsked, Retired, VGForwardSteps, VGProvisionSteps
    <3>2. CASE ContentReleased
      <4>1. vgcs[Content] \in VGC
        BY <3>2, <1>life, UidOfName, <1>3 DEF ContentReleased, TypeOK
      <4> QED BY <2>3, <3>2, <4>1 DEF ContentReleased, Released, VGC
    <3> QED BY <1>3, <2>1, <2>2, <2>3, <3>1, <3>2, ContentSteps DEF ContentMade, ContentWritten
  <2>4. \/ vgcCache'[Content] = vgcCache[Content]
        \/ vgcCache'[Content] = vgcs[Content]
    BY <1>3, <1>life, UidOfName, CacheMoves
  <2>5. ASSUME vgcReq' = Content, vgcPc' \in VGCRemoveSteps PROVE Retired(u)
    BY <2>2, <2>5, <1>life, EntersRemoval
  <2> QED BY <2>1, <2>2, <2>3, <2>4, <2>5
<1> QED BY <1>1, <1>2, <1>3 DEF RetireInv

\* So is GoingInv.
LEMMA StepGoing ==
    ASSUME NamesUnguessed, Content \in DynamicContents \ UserDeletes,
           LifeInv, RetireInv, GoingInv, LifeStep
    PROVE  GoingInv'
<1>1. PICK u \in UIDs : Content = MakeVGName(u)
  BY DEF DynamicContents
<1>2. /\ Content \in ContentNames /\ TypeOK /\ LifeInv' /\ TypeOK'
      /\ vgcs[Content] \in VGC \cup {NoObj}
  BY <1>1, NameFacts, StepLife DEF LifeInv, TypeOK
<1>3. CASE ContentMade(u)
  <2>1. ~Retired(u)
    BY <1>3, NotForRetired DEF ContentMade, VGProvisionSteps
  <2>2. /\ ~(vgcCache[Content] # NoObj /\ vgcCache[Content].deleting)
        /\ ~(vgcReq = Content /\ vgcPc \in VGCRemoveSteps)
    BY <1>1, <2>1 DEF RetireInv
  <2>3. ~(vgcCache'[Content] # NoObj /\ vgcCache'[Content].deleting)
    BY <1>2, <1>3, <2>2, CacheMoves DEF ContentMade
  <2>4. ~(vgcReq' = Content /\ vgcPc' \in VGCRemoveSteps)
    BY <1>2, <2>2, EntersRemoval
  <2> QED BY <2>3, <2>4 DEF GoingInv
<1>4. CASE ~ContentMade(u)
  <2>1. vgcs'[Content] # NoObj =>
          /\ vgcs[Content] # NoObj
          /\ vgcs[Content].deleting => vgcs'[Content].deleting
    BY <1>1, <1>2, <1>4, ContentSteps, NameFacts
    DEF ContentAsked, ContentWritten, ContentReleased, Deleted, Released, VGC
  <2>2. ASSUME vgcCache'[Content] # NoObj, vgcCache'[Content].deleting, vgcs[Content] # NoObj
        PROVE  vgcs[Content].deleting
    BY <1>2, <2>2, CacheMoves DEF GoingInv
  <2>3. ASSUME vgcReq' = Content, vgcPc' \in VGCRemoveSteps, vgcs[Content] # NoObj
        PROVE  vgcs[Content].deleting
    BY <1>2, <2>3, EntersRemoval DEF GoingInv
  <2> QED BY <2>1, <2>2, <2>3 DEF GoingInv
<1> QED BY <1>3, <1>4

-----------------------------------------------------------------------------
(***************************************************************************)
(* Types.                                                                  *)
(***************************************************************************)

\* Lists of volumes.
LEMMA ListFacts ==
    /\ \A s \in Loop!Lists : /\ s \in Seq(PVs) /\ Len(s) \in Nat
                             /\ DOMAIN s = 1 .. Len(s) /\ s \in [1 .. Len(s) -> PVs]
    /\ \A n \in Nat : \A s \in [1 .. n -> PVs] : s \in Loop!Lists /\ Len(s) = n
    /\ <<>> \in Loop!Lists /\ Len(<<>>) = 0 /\ DOMAIN <<>> = {}
<1>1. ASSUME NEW s \in Loop!Lists
      PROVE  /\ s \in Seq(PVs) /\ Len(s) \in Nat
             /\ DOMAIN s = 1 .. Len(s) /\ s \in [1 .. Len(s) -> PVs]
  BY <1>1, LenProperties DEF Loop!Lists
<1>2. ASSUME NEW n \in Nat, NEW s \in [1 .. n -> PVs] PROVE s \in Loop!Lists /\ Len(s) = n
  <2>1. s \in Seq(PVs) /\ DOMAIN s = 1 .. n
    BY SeqDef
  <2>2. Len(s) \in Nat /\ DOMAIN s = 1 .. Len(s)
    BY <2>1, LenProperties
  <2> QED BY <2>1, <2>2 DEF Loop!Lists
<1>3. <<>> \in Loop!Lists /\ Len(<<>>) = 0
  BY EmptySeq DEF Loop!Lists
<1>4. DOMAIN <<>> = {}
  BY <1>3, <1>1
<1> QED BY <1>1, <1>2, <1>3, <1>4

\* The first places of a list.
LEMMA PrefixFacts ==
    ASSUME NEW s \in Loop!Lists, NEW n \in 0 .. Len(s)
    PROVE  /\ SubSeq(s, 1, n) \in Loop!Lists /\ Len(SubSeq(s, 1, n)) = n
           /\ Loop!Members(SubSeq(s, 1, n)) = {s[k] : k \in 1 .. n}
           /\ \A k \in 1 .. n : SubSeq(s, 1, n)[k] = s[k]
<1>1. /\ Len(s) \in Nat /\ s \in [1 .. Len(s) -> PVs]
      /\ n \in Int /\ 1 \in Int /\ \A k \in 1 .. n : s[k] \in PVs
  BY ListFacts
<1>2. /\ SubSeq(s, 1, n) \in Seq(PVs)
      /\ Len(SubSeq(s, 1, n)) = IF 1 <= n THEN n - 1 + 1 ELSE 0
      /\ \A k \in 1 .. n - 1 + 1 : SubSeq(s, 1, n)[k] = s[1 + k - 1]
  BY <1>1, SubSeqProperties
<1>3. Len(SubSeq(s, 1, n)) = n /\ \A k \in 1 .. n : SubSeq(s, 1, n)[k] = s[k]
  BY <1>1, <1>2
<1>4. SubSeq(s, 1, n) \in Loop!Lists /\ DOMAIN SubSeq(s, 1, n) = 1 .. n
  BY <1>2, <1>3, LenProperties DEF Loop!Lists
<1> QED BY <1>3, <1>4 DEF Loop!Members

\* What RemovePV does to the slice, and the list it writes.
LEMMA RemovedPV ==
    ASSUME Loop!TypeOK, pc = "removePV", Loop!RemovePV
    PROVE  /\ array' \in Loop!Lists /\ Len(array') = Len(array) /\ len' \in 0 .. Len(array)
           /\ list' \in Loop!Lists /\ Len(list') = len'
           /\ Loop!Members(list') = {array'[k] : k \in 1 .. len'}
           /\ Len(array) > 0 => array'[Len(array)] = array[Len(array)]
           /\ Loop!Members(array') \subseteq Loop!Members(array)
           /\ SliceDistinct => SliceDistinct' /\ Loop!Distinct(list')
           /\ \A pv \in PVs : pv # array[i] =>
                (pv \in Loop!Members(list') <=> pv \in Slice)
<1>1. /\ array \in Loop!Lists /\ len \in 0 .. Len(array)
      /\ Len(array) \in Nat /\ array \in [1 .. Len(array) -> PVs]
      /\ DOMAIN array = 1 .. Len(array)
  BY ListFacts DEF Loop!TypeOK
<1>2. CASE Loop!Index(array[i]) = {}
  <2>1. array' = array /\ len' = len /\ list' = SubSeq(array, 1, len)
    BY <1>2 DEF Loop!RemovePV
  <2>2. /\ list' \in Loop!Lists /\ Len(list') = len
        /\ Loop!Members(list') = {array[k] : k \in 1 .. len}
        /\ \A k \in 1 .. len : list'[k] = array[k]
    BY <1>1, <2>1, PrefixFacts
  <2>3. DOMAIN list' = 1 .. len
    BY <2>2, ListFacts
  <2>4. ASSUME SliceDistinct PROVE SliceDistinct' /\ Loop!Distinct(list')
    <3>1. SliceDistinct'
      BY <2>1, <2>4 DEF SliceDistinct
    <3>2. \A j, k \in 1 .. len : list'[j] = list'[k] => j = k
      BY <2>2, <2>4 DEF SliceDistinct
    <3> QED BY <2>3, <3>1, <3>2 DEF Loop!Distinct
  <2> QED BY <1>1, <2>1, <2>2, <2>4 DEF Slice
<1>3. CASE Loop!Index(array[i]) # {}
  <2>1. PICK j \in 1 .. len : /\ array[j] = array[i] /\ array' = Loop!Shifted(j) /\ len' = len - 1
                              /\ list' = SubSeq(array', 1, len')
    BY <1>3 DEF Loop!RemovePV, Loop!Index
  <2>2. /\ array' = [k \in 1 .. Len(array) |->
                       IF j <= k /\ k < len THEN array[k + 1] ELSE array[k]]
        /\ j \in Nat /\ j >= 1 /\ j <= len /\ len <= Len(array)
    BY <1>1, <2>1 DEF Loop!Shifted
  <2>3. array' \in [1 .. Len(array) -> PVs] /\ len' \in 0 .. Len(array)
    BY <1>1, <2>1, <2>2
  <2>4. array' \in Loop!Lists /\ Len(array') = Len(array)
    BY <1>1, <2>3, ListFacts
  <2>5. /\ list' \in Loop!Lists /\ Len(list') = len'
        /\ Loop!Members(list') = {array'[k] : k \in 1 .. len'}
        /\ \A k \in 1 .. len' : list'[k] = array'[k]
    BY <2>1, <2>3, <2>4, PrefixFacts
  <2>9. Loop!Members(array') \subseteq Loop!Members(array)
    <3>1. DOMAIN array' = 1 .. Len(array)
      BY <2>2
    <3>2. ASSUME NEW k \in 1 .. Len(array) PROVE \E m \in 1 .. Len(array) : array'[k] = array[m]
      <4>1. k + 1 \in 1 .. Len(array) \/ ~(k < len)
        BY <1>1, <2>2
      <4> QED BY <1>1, <2>2, <4>1
    <3> QED BY <1>1, <3>1, <3>2 DEF Loop!Members
  <2>10. ASSUME SliceDistinct PROVE SliceDistinct' /\ Loop!Distinct(list')
    <3>1. SliceDistinct'
      <4> SUFFICES ASSUME NEW k \in 1 .. len', NEW m \in 1 .. len', array'[k] = array'[m]
                   PROVE  k = m
        BY DEF SliceDistinct
      <4>1. /\ array'[k] = array[IF j <= k THEN k + 1 ELSE k]
            /\ array'[m] = array[IF j <= m THEN m + 1 ELSE m]
        BY <1>1, <2>1, <2>2
      <4>2. /\ (IF j <= k THEN k + 1 ELSE k) \in 1 .. len
            /\ (IF j <= m THEN m + 1 ELSE m) \in 1 .. len
        BY <1>1, <2>1, <2>2
      <4>3. (IF j <= k THEN k + 1 ELSE k) = (IF j <= m THEN m + 1 ELSE m)
        BY <2>10, <4>1, <4>2 DEF SliceDistinct
      <4> QED BY <1>1, <2>1, <2>2, <4>3
    <3>2. DOMAIN list' = 1 .. len'
      BY <2>5, ListFacts
    <3> QED BY <2>5, <3>1, <3>2 DEF SliceDistinct, Loop!Distinct
  <2>7. Len(array) > 0 => array'[Len(array)] = array[Len(array)]
    BY <1>1, <2>2
  <2>8. ASSUME NEW pv \in PVs, pv # array[i]
        PROVE  pv \in Loop!Members(list') <=> pv \in Slice
    <3>1. ASSUME NEW k \in 1 .. len', array'[k] = pv PROVE \E m \in 1 .. len : array[m] = pv
      BY <1>1, <2>1, <2>2, <3>1
    <3>2. ASSUME NEW m \in 1 .. len, array[m] = pv PROVE \E k \in 1 .. len' : array'[k] = pv
      <4>1. CASE m < j
        BY <1>1, <2>1, <2>2, <3>2, <4>1
      <4>2. CASE m > j
        <5>1. m - 1 \in 1 .. len' /\ array'[m - 1] = pv
          BY <1>1, <2>1, <2>2, <3>2, <4>2
        <5> QED BY <5>1
      <4>3. m # j
        BY <2>1, <2>8, <3>2
      <4> QED BY <2>2, <4>1, <4>2, <4>3
    <3> QED BY <2>5, <3>1, <3>2 DEF Slice
  <2> QED BY <2>3, <2>4, <2>5, <2>7, <2>8, <2>9, <2>10
<1> QED BY <1>2, <1>3

\* The list of volumes that MakeList makes.
LEMMA MadeList ==
    ASSUME ReleaseTypeOK, MakeList
    PROVE  newList' \in Loop!Lists /\ (Proper(cache) => Proper(newList)')
<1>1. /\ cache \in Loop!Lists /\ cache \in Seq(PVs) /\ Len(cache) \in Nat
      /\ DOMAIN cache = 1 .. Len(cache) /\ cache \in [1 .. Len(cache) -> PVs]
      /\ pvc \in matching /\ pvc \in PVs /\ matching' = matching
  <2>1. pvc \in matching /\ matching' = matching
    BY DEF MakeList, ReleaseTypeOK
  <2>2. cache \in Loop!Lists /\ pvc \in PVs
    BY <2>1, ReleaseAssumption DEF ReleaseTypeOK, Loop!TypeOK
  <2> QED BY <2>1, <2>2, ListFacts
<1>2. CASE newList' = cache
  BY <1>1, <1>2 DEF Proper
<1>3. CASE pvc \notin Loop!Members(cache) /\ newList' = Append(cache, pvc)
  <2>1. /\ newList' \in Seq(PVs) /\ Len(newList') = Len(cache) + 1
        /\ \A k \in 1 .. Len(cache) : newList'[k] = cache[k]
        /\ newList'[Len(cache) + 1] = pvc
    BY <1>1, <1>3, AppendProperties
  <2>2. newList' \in Loop!Lists /\ DOMAIN newList' = 1 .. Len(cache) + 1
    BY <2>1, LenProperties DEF Loop!Lists
  <2>3. \A k \in 1 .. Len(cache) + 1 : k \in 1 .. Len(cache) \/ k = Len(cache) + 1
    BY <1>1
  <2>4. \A k \in 1 .. Len(cache) : cache[k] # pvc /\ cache[k] \in Loop!Members(cache)
    BY <1>1, <1>3 DEF Loop!Members
  <2>5. Loop!Members(cache) \subseteq matching => Loop!Members(newList') \subseteq matching
    BY <1>1, <2>1, <2>2, <2>3, <2>4 DEF Loop!Members
  <2>6. ASSUME Loop!Distinct(cache) PROVE Loop!Distinct(newList')
    BY <1>1, <2>1, <2>2, <2>3, <2>4, <2>6 DEF Loop!Distinct
  <2> QED BY <1>1, <2>2, <2>5, <2>6 DEF Proper
<1>4. ASSUME NEW j \in DOMAIN cache, cache[j] = pvc, newList' = WithoutPlace(cache, j)
      PROVE  newList' \in Loop!Lists /\ (Proper(cache) => Proper(newList)')
  <2>1. /\ newList' = [k \in 1 .. Len(cache) - 1 |-> IF k < j THEN cache[k] ELSE cache[k + 1]]
        /\ j \in 1 .. Len(cache) /\ Len(cache) - 1 \in Nat
    BY <1>1, <1>4 DEF WithoutPlace
  <2>2. \A k \in 1 .. Len(cache) - 1 : k \in 1 .. Len(cache) /\ k + 1 \in 1 .. Len(cache)
    BY <1>1
  <2>3. newList' \in [1 .. Len(cache) - 1 -> PVs]
    BY <1>1, <2>1, <2>2
  <2>4. newList' \in Loop!Lists /\ DOMAIN newList' = 1 .. Len(cache) - 1
    BY <2>1, <2>3, ListFacts
  <2>5. \A k \in 1 .. Len(cache) - 1 : newList'[k] \in Loop!Members(cache)
    BY <1>1, <2>1, <2>2 DEF Loop!Members
  <2>6. Loop!Members(cache) \subseteq matching => Loop!Members(newList') \subseteq matching
    BY <2>4, <2>5 DEF Loop!Members
  <2>7. ASSUME Loop!Distinct(cache) PROVE Loop!Distinct(newList')
    <3> SUFFICES ASSUME NEW k \in 1 .. Len(cache) - 1, NEW m \in 1 .. Len(cache) - 1,
                        newList'[k] = newList'[m]
                 PROVE  k = m
      BY <2>4 DEF Loop!Distinct
    <3>1. /\ newList'[k] = cache[IF k < j THEN k ELSE k + 1]
          /\ newList'[m] = cache[IF m < j THEN m ELSE m + 1]
          /\ (IF k < j THEN k ELSE k + 1) \in DOMAIN cache
          /\ (IF m < j THEN m ELSE m + 1) \in DOMAIN cache
      BY <1>1, <2>1, <2>2
    <3>2. (IF k < j THEN k ELSE k + 1) = (IF m < j THEN m ELSE m + 1)
      BY <2>7, <3>1 DEF Loop!Distinct
    <3> QED BY <1>1, <2>1, <3>2
  <2> QED BY <1>1, <2>4, <2>6, <2>7 DEF Proper
<1> QED BY <1>2, <1>3, <1>4 DEF MakeList

LEMMA NextReleaseType == ReleaseTypeOK /\ [ReleaseNext]_allVars => ReleaseTypeOK'
<1> SUFFICES ASSUME ReleaseTypeOK, [ReleaseNext]_allVars PROVE ReleaseTypeOK'
  OBVIOUS
<1>type. /\ TypeOK' /\ failures' \in 0 .. MaxFailures
         /\ Loop!TypeOK /\ copy \in Loop!Lists /\ matching \in Matches
  <2>1. TypeOK /\ LifeStep
    BY ReleaseIsLife DEF ReleaseTypeOK
  <2>2. TypeOK'
    BY <2>1, NextType, RequeueType, MembersRequeueType DEF LifeStep
  <2> QED BY <2>2 DEF ReleaseTypeOK, TypeOK
<1>array. /\ Len(array) \in Nat /\ DOMAIN array = 1 .. Len(array)
          /\ len \in 0 .. Len(array) /\ array \in [1 .. Len(array) -> PVs]
  BY <1>type, ListFacts DEF Loop!TypeOK
<1> DEFINE Typed ==
             /\ list' \in Loop!Lists /\ cache' \in Loop!Lists /\ copy' \in Loop!Lists
             /\ claim' \in [PVs -> Loop!ClaimStates] /\ fin' \subseteq PVs /\ foreign' \subseteq PVs
             /\ changes' \in 0 .. MaxChanges /\ matching' \in Matches
             /\ array' \in Loop!Lists /\ len' \in 0 .. Len(array')
             /\ pc' \in Loop!LoopSteps \cup {"idle", "done"}
             /\ i' \in Nat
             /\ (pc' \in Loop!LoopSteps \ {"next"} => i' \in DOMAIN array')
             /\ {kept', moved'} \subseteq BOOLEAN
             /\ pvcList' \in [Names -> SUBSET PVs] /\ memPc' \in MemberSteps
             /\ wanted' \subseteq matching' /\ others' \subseteq wanted'
             /\ IF memPc' \in {"none", "update"} THEN pvc' = NoName ELSE pvc' \in matching'
             /\ newList' \in Loop!Lists
<1> SUFFICES Typed
  BY <1>type DEF ReleaseTypeOK, Loop!TypeOK
<1> USE DEF loopVars, listVars, claimVars, memberVars, Loop!loopVars, Loop!listVars, Loop!claimVars
<1>same. ASSUME UNCHANGED <<array, len, pc, i, kept, moved>>
         PROVE  /\ array' \in Loop!Lists /\ len' \in 0 .. Len(array')
                /\ pc' \in Loop!LoopSteps \cup {"idle", "done"}
                /\ i' \in Nat
                /\ (pc' \in Loop!LoopSteps \ {"next"} => i' \in DOMAIN array')
                /\ {kept', moved'} \subseteq BOOLEAN
  BY <1>type, <1>same DEF Loop!TypeOK
<1>idle. ASSUME Loop!Idle
         PROVE  /\ array' \in Loop!Lists /\ len' \in 0 .. Len(array')
                /\ pc' \in Loop!LoopSteps \cup {"idle", "done"}
                /\ i' \in Nat
                /\ (pc' \in Loop!LoopSteps \ {"next"} => i' \in DOMAIN array')
                /\ {kept', moved'} \subseteq BOOLEAN
  <2>1. /\ array' = <<>> /\ len' = 0 /\ pc' = "idle" /\ i' = 0
        /\ kept' = FALSE /\ moved' = FALSE
    BY <1>idle DEF Loop!Idle, Loop!Forget
  <2>2. array' \in Loop!Lists /\ Len(array') = 0
    BY <2>1, ListFacts
  <2>3. len' \in 0 .. Len(array') /\ i' \in Nat
    BY <2>1, <2>2, <1>array
  <2> QED BY <2>1, <2>2, <2>3 DEF Loop!LoopSteps
<1>claims. ASSUME UNCHANGED <<claim, fin, foreign, changes, matching>>
           PROVE  /\ claim' \in [PVs -> Loop!ClaimStates] /\ fin' \subseteq PVs
                  /\ foreign' \subseteq PVs
                  /\ changes' \in 0 .. MaxChanges /\ matching' \in Matches
  BY <1>type, <1>claims DEF Loop!TypeOK
<1>lists. list \in Loop!Lists /\ cache \in Loop!Lists /\ copy \in Loop!Lists /\ <<>> \in Loop!Lists
  BY <1>type, ListFacts DEF Loop!TypeOK
<1>pvcs. pvcList \in [Names -> SUBSET PVs] /\ (ListsGo => pvcList' \in [Names -> SUBSET PVs])
  BY DEF ReleaseTypeOK, ListsGo
<1>members. ASSUME UNCHANGED <<matching, memPc, wanted, others, pvc, newList>>
            PROVE  /\ memPc' \in MemberSteps
                   /\ wanted' \subseteq matching' /\ others' \subseteq wanted'
                   /\ IF memPc' \in {"none", "update"} THEN pvc' = NoName ELSE pvc' \in matching'
                   /\ newList' \in Loop!Lists
  BY <1>members DEF ReleaseTypeOK
<1>ended. ASSUME MembersIdle, UNCHANGED matching
          PROVE  /\ memPc' \in MemberSteps
                 /\ wanted' \subseteq matching' /\ others' \subseteq wanted'
                 /\ IF memPc' \in {"none", "update"} THEN pvc' = NoName ELSE pvc' \in matching'
                 /\ newList' \in Loop!Lists
  BY <1>ended, ListFacts DEF MembersIdle, MemberSteps
<1>1. ASSUME UNCHANGED <<list, cache, claim, fin, foreign, changes, matching, copy>>,
             UNCHANGED <<array, len, pc, i, kept, moved>>,
             ListsGo \/ UNCHANGED pvcList, MembersIdle \/ UNCHANGED memberVars
      PROVE  Typed
  BY <1>1, <1>same, <1>claims, <1>lists, <1>pvcs, <1>members, <1>ended
<1>2. CASE Listing
  <2> USE DEF AtMembers
  <2>type. /\ fin \subseteq PVs /\ foreign \subseteq PVs /\ wanted \subseteq matching
           /\ others \subseteq wanted /\ newList \in Loop!Lists
           /\ memPc \notin {"none", "update"} => pvc \in matching /\ pvc \in PVs
           /\ matching \subseteq PVs
    BY ReleaseAssumption DEF ReleaseTypeOK, Loop!TypeOK, TypeOK
  <2>1. CASE ModifyVolumes
    <3>1. /\ UNCHANGED <<list, cache, claim, fin, foreign, changes, matching, copy, pvcList>>
          /\ UNCHANGED <<array, len, pc, i, kept, moved, pvc, newList>>
          /\ memPc = "none" /\ memPc' = "update" /\ wanted' = Found /\ others' = foreign \cap Found
      BY <2>1 DEF ModifyVolumes
    <3>2. Found \subseteq matching
      BY DEF Found
    <3>3. pvc' = NoName
      BY <3>1 DEF ReleaseTypeOK
    <3>4. /\ memPc' \in MemberSteps /\ wanted' \subseteq matching' /\ others' \subseteq wanted'
          /\ IF memPc' \in {"none", "update"} THEN pvc' = NoName ELSE pvc' \in matching'
          /\ newList' \in Loop!Lists
      BY <2>type, <3>1, <3>2, <3>3 DEF MemberSteps
    <3> QED BY <3>1, <3>4, <1>same, <1>claims, <1>lists, <1>pvcs
  <2>2. ASSUME NEW pv \in matching, AddPVCToVG(pv) \/ RemovePVCFromVG(pv)
        PROVE  Typed
    <3>1. /\ UNCHANGED <<list, cache, claim, fin, foreign, changes, matching, copy>>
          /\ UNCHANGED <<array, len, pc, i, kept, moved, wanted, others, newList>>
          /\ memPc' \in {"addPV", "removePV"} /\ pvc' = pv
          /\ pvcList' \in {[pvcList EXCEPT ![vgReq] = pvcList[vgReq] \cup {pv}],
                           [pvcList EXCEPT ![vgReq] = pvcList[vgReq] \ {pv}]}
      BY <2>2 DEF AddPVCToVG, RemovePVCFromVG, Listed
    <3>2. pv \in PVs
      BY <2>type
    <3>3. pvcList' \in [Names -> SUBSET PVs]
      BY <1>pvcs, <3>1, <3>2
    <3>4. /\ memPc' \in MemberSteps /\ wanted' \subseteq matching' /\ others' \subseteq wanted'
          /\ IF memPc' \in {"none", "update"} THEN pvc' = NoName ELSE pvc' \in matching'
          /\ newList' \in Loop!Lists
      BY <2>type, <3>1 DEF MemberSteps
    <3> QED BY <3>1, <3>3, <3>4, <1>same, <1>claims, <1>lists
  <2>3. CASE MakeList
    <3>1. /\ UNCHANGED <<list, cache, claim, fin, foreign, changes, matching, copy, pvcList>>
          /\ UNCHANGED <<array, len, pc, i, kept, moved, wanted, others, pvc>>
          /\ memPc \in {"addPV", "removePV"} /\ memPc' = "writePV"
      BY <2>3 DEF MakeList
    <3>2. newList' \in Loop!Lists
      BY <2>3, MadeList
    <3>4. /\ memPc' \in MemberSteps /\ wanted' \subseteq matching' /\ others' \subseteq wanted'
          /\ IF memPc' \in {"none", "update"} THEN pvc' = NoName ELSE pvc' \in matching'
          /\ newList' \in Loop!Lists
      BY <2>type, <3>1, <3>2 DEF MemberSteps
    <3> QED BY <3>1, <3>4, <1>same, <1>claims, <1>lists, <1>pvcs
  <2>4. CASE WriteList
    <3>1. /\ UNCHANGED <<cache, claim, fin, foreign, changes, matching, copy, pvcList>>
          /\ UNCHANGED <<array, len, pc, i, kept, moved, wanted, others, pvc>>
          /\ list' = newList /\ newList' = <<>>
          /\ memPc = "writePV" /\ memPc' \in {"addFin", "removeFin"}
      BY <2>4 DEF WriteList
    <3>4. /\ memPc' \in MemberSteps /\ wanted' \subseteq matching' /\ others' \subseteq wanted'
          /\ IF memPc' \in {"none", "update"} THEN pvc' = NoName ELSE pvc' \in matching'
          /\ newList' \in Loop!Lists
      BY <2>type, <3>1, <1>lists DEF MemberSteps
    <3> QED BY <2>type, <3>1, <3>4, <1>same, <1>claims, <1>lists, <1>pvcs
  <2>5. CASE AddFinalizerToPVC
    <3>1. /\ UNCHANGED <<list, cache, claim, changes, matching, copy, pvcList>>
          /\ UNCHANGED <<array, len, pc, i, kept, wanted, others, newList>>
          /\ memPc = "addFin" /\ memPc' = "update" /\ pvc' = NoName
          /\ fin' \in {fin, fin \cup {pvc}}
          /\ foreign' \in {foreign, foreign \cup {pvc}, foreign \ {pvc}}
      BY <2>5 DEF AddFinalizerToPVC
    <3>2. moved' = moved \/ moved' = (moved \/ (pc = "writeFinalizers" /\ array[i] = pvc))
      BY <2>5 DEF AddFinalizerToPVC, Loop!Moves
    <3>3. moved' \in BOOLEAN
      BY <3>2, <1>type DEF Loop!TypeOK
    <3>4. {kept', moved'} \subseteq BOOLEAN
      BY <3>1, <3>3, <1>type DEF Loop!TypeOK
    <3>5. pvc \in PVs
      BY <2>type, <3>1
    <3>6. /\ memPc' \in MemberSteps /\ wanted' \subseteq matching' /\ others' \subseteq wanted'
          /\ IF memPc' \in {"none", "update"} THEN pvc' = NoName ELSE pvc' \in matching'
          /\ newList' \in Loop!Lists
      BY <2>type, <3>1 DEF MemberSteps
    <3>7. fin' \subseteq PVs /\ foreign' \subseteq PVs
      BY <2>type, <3>1, <3>5
    <3> QED BY <3>1, <3>4, <3>6, <3>7, <1>lists, <1>pvcs, <1>type DEF Loop!TypeOK
  <2> QED BY <1>2, <2>1, <2>2, <2>3, <2>4, <2>5 DEF Listing
<1>3. CASE LoopStep /\ Loop!RemovePV
  <2>1. /\ UNCHANGED <<cache, copy, claim, fin, foreign, changes, matching, pvcList>>
        /\ UNCHANGED <<memPc, wanted, others, pvc, newList>>
        /\ pc = "removePV" /\ pc' = "next" /\ i' = i + 1 /\ Loop!Forget
    BY <1>3 DEF LoopStep, Loop!RemovePV, lifeVars
  <2>2. i \in DOMAIN array
    BY <2>1, <1>type DEF Loop!TypeOK, Loop!LoopSteps
  <2>3. i' \in Nat
    BY <2>1, <2>2, <1>array
  <2>4. list' \in Loop!Lists /\ array' \in Loop!Lists /\ len' \in 0 .. Len(array')
    BY <1>3, <1>type, <2>1, RemovedPV
  <2> QED BY <2>1, <2>3, <2>4, <1>claims, <1>lists, <1>pvcs, <1>members
          DEF Loop!Forget, Loop!LoopSteps
<1>4. CASE LoopStep /\ Loop!BeginWith(copy)
  <2>1. /\ UNCHANGED <<list, cache, copy, claim, fin, foreign, changes, matching, pvcList>>
        /\ UNCHANGED <<memPc, wanted, others, pvc, newList>>
        /\ pc' = "next" /\ i' = 1 /\ array' = copy /\ len' = Len(copy) /\ Loop!Forget
    BY <1>4 DEF LoopStep, Loop!BeginWith, lifeVars
  <2>2. len' \in 0 .. Len(array') /\ i' \in Nat
    BY <2>1, <1>lists, <1>array, ListFacts
  <2> QED BY <2>1, <2>2, <1>claims, <1>lists, <1>pvcs, <1>members DEF Loop!Forget, Loop!LoopSteps
<1>5. CASE LoopStep /\ Loop!Body
  <2>1. /\ UNCHANGED <<list, cache, copy, changes, matching, array, len, pvcList>>
        /\ UNCHANGED <<memPc, wanted, others, pvc, newList>>
    BY <1>5
    DEF LoopStep, lifeVars, Loop!Body, Loop!Turn, Loop!ReleaseClaim, Loop!WriteFinalizers,
        Loop!RetryFinalizers, Loop!RemoveClaim, Loop!Finish, Loop!Goto
  <2>2. pc' \in Loop!LoopSteps \cup {"idle", "done"}
    BY <1>5, <1>type
    DEF LoopStep, Loop!Body, Loop!Turn, Loop!ReleaseClaim, Loop!WriteFinalizers,
        Loop!RetryFinalizers, Loop!RemoveClaim, Loop!Finish, Loop!Goto, Loop!LoopSteps, Loop!TypeOK
  <2>3. pc' \in Loop!LoopSteps \ {"next"} => i \in DOMAIN array /\ i' = i
    BY <1>5, <1>type
    DEF LoopStep, Loop!Body, Loop!Turn, Loop!ReleaseClaim, Loop!WriteFinalizers,
        Loop!RetryFinalizers, Loop!RemoveClaim, Loop!Finish, Loop!Goto, Loop!LoopSteps, Loop!TypeOK
  <2>4. i' = i \/ (i \in DOMAIN array /\ i' = i + 1)
    BY <1>5
    DEF LoopStep, Loop!Body, Loop!Turn, Loop!ReleaseClaim, Loop!WriteFinalizers,
        Loop!RetryFinalizers, Loop!RemoveClaim, Loop!Finish, Loop!Goto
  <2>5. i' \in Nat
    BY <2>4, <1>array, <1>type DEF Loop!TypeOK
  <2>6. {kept', moved'} \subseteq BOOLEAN
    <3>1. CASE Loop!Forget
      BY <3>1 DEF Loop!Forget
    <3>2. CASE Loop!ReleaseClaim
      <4>1. kept' = (array[i] \in foreign) /\ moved' = FALSE
        BY <3>2 DEF Loop!ReleaseClaim
      <4>2. (array[i] \in foreign) \in BOOLEAN
        OBVIOUS
      <4> QED BY <4>1, <4>2
    <3>3. CASE Loop!RetryFinalizers
      BY <3>3, <1>type DEF Loop!RetryFinalizers, Loop!TypeOK
    <3> QED
      BY <1>5, <3>1, <3>2, <3>3
      DEF Loop!Body, Loop!Turn, Loop!WriteFinalizers, Loop!RemoveClaim, Loop!Finish
  <2>7. /\ claim' \in [PVs -> Loop!ClaimStates] /\ fin' \subseteq PVs /\ foreign' \subseteq PVs
    <3>1. \/ UNCHANGED claim
          \/ claim' = [claim EXCEPT ![array[i]] = "terminating"]
      BY <1>5
      DEF LoopStep, Loop!Body, Loop!Turn, Loop!ReleaseClaim, Loop!WriteFinalizers,
          Loop!RetryFinalizers, Loop!RemoveClaim, Loop!Finish
    <3>2. \/ UNCHANGED <<fin, foreign>>
          \/ /\ array[i] \in PVs
             /\ fin' = fin \ {array[i]}
             /\ foreign' \in {foreign \cup {array[i]}, foreign \ {array[i]}}
      <4>1. pc = "writeFinalizers" => array[i] \in PVs
        BY <1>type, <1>array DEF Loop!TypeOK, Loop!LoopSteps
      <4> QED BY <1>5, <4>1
      DEF LoopStep, Loop!Body, Loop!Turn, Loop!ReleaseClaim, Loop!WriteFinalizers,
          Loop!RetryFinalizers, Loop!RemoveClaim, Loop!Finish
    <3> QED BY <3>1, <3>2, <1>type DEF Loop!TypeOK, Loop!ClaimStates
  <2> QED BY <2>1, <2>2, <2>3, <2>5, <2>6, <2>7, <1>type, <1>lists, <1>pvcs, <1>members
          DEF Loop!TypeOK
<1>6. CASE LoopRefused \/ LoopEnds \/ ContentCallFails \/ RestartAll
  <2>1. /\ Loop!Idle /\ UNCHANGED <<list, claim, fin, foreign, changes, matching, pvcList>>
        /\ MembersIdle \/ UNCHANGED <<memPc, wanted, others, pvc, newList>>
        /\ cache' \in {cache, list} /\ copy' \in {copy, <<>>}
    BY <1>6 DEF LoopRefused, LoopEnds, ContentCallFails, RestartAll, Loop!ClaimRefused
  <2> QED BY <2>1, <1>idle, <1>claims, <1>lists, <1>pvcs, <1>members, <1>ended
<1>7. CASE ~InLoop /\ VGCWork
  <2>1. /\ UNCHANGED <<cache, claim, fin, foreign, changes, matching, pvcList>>
        /\ UNCHANGED <<memPc, wanted, others, pvc, newList>>
        /\ UNCHANGED <<array, len, pc, i, kept, moved>>
        /\ list' \in {list, <<>>} /\ copy' \in {copy, <<>>}
    BY <1>7 DEF VGCWork, LoopStep, LoopRefused, LoopEnds
  <2> QED BY <2>1, <1>same, <1>claims, <1>lists, <1>pvcs, <1>members
<1>8. CASE \E c \in ContentNames : VGCTaken(c) \/ VGCBound(c)
  <2>1. /\ UNCHANGED <<list, cache, claim, fin, foreign, changes, matching, pvcList>>
        /\ UNCHANGED <<memPc, wanted, others, pvc, newList>>
        /\ UNCHANGED <<array, len, pc, i, kept, moved>>
        /\ copy' \in {cache, <<>>}
    BY <1>8 DEF VGCTaken, VGCBound, Copies
  <2> QED BY <2>1, <1>same, <1>claims, <1>lists, <1>pvcs, <1>members
<1>9. CASE \E c \in ContentNames : SyncContent(c)
  <2>1. /\ UNCHANGED <<list, copy, claim, fin, foreign, changes, matching, pvcList>>
        /\ UNCHANGED <<memPc, wanted, others, pvc, newList>>
        /\ UNCHANGED <<array, len, pc, i, kept, moved>>
        /\ cache' \in {cache, list}
    BY <1>9 DEF SyncContent, Loop!Sync, lifeVars
  <2> QED BY <2>1, <1>same, <1>claims, <1>lists, <1>pvcs, <1>members
<1>10. CASE ClaimStep
  <2>1. PICK pv \in PVs : \/ Loop!UserDeletesClaim(pv) \/ Loop!OtherAdds(pv)
                          \/ Loop!OtherRemoves(pv) \/ Loop!ClaimGoes(pv)
    BY <1>10 DEF ClaimStep, Loop!Claims
  <2>2. /\ UNCHANGED <<list, cache, copy, matching, array, len, pc, i, kept, pvcList>>
        /\ UNCHANGED <<memPc, wanted, others, pvc, newList>>
        /\ fin' = fin
        /\ moved' = (moved \/ (pc = "writeFinalizers" /\ array[i] = pv))
    BY <1>10, <2>1 DEF ClaimStep, lifeVars, Loop!UserDeletesClaim, Loop!OtherAdds,
       Loop!OtherRemoves, Loop!ClaimGoes, Loop!Moves
  <2>3. changes' \in 0 .. MaxChanges
    BY <2>1, <1>type, ReleaseAssumption
    DEF Loop!UserDeletesClaim, Loop!OtherAdds, Loop!OtherRemoves, Loop!ClaimGoes, Loop!Change,
        Loop!TypeOK
  <2>4. claim' \in [PVs -> Loop!ClaimStates] /\ foreign' \subseteq PVs
    BY <2>1, <1>type
    DEF Loop!UserDeletesClaim, Loop!OtherAdds, Loop!OtherRemoves, Loop!ClaimGoes, Loop!TypeOK,
        Loop!ClaimStates
  <2>5. {kept', moved'} \subseteq BOOLEAN
    <3>1. moved' \in BOOLEAN
      BY <2>2
    <3> QED BY <2>2, <3>1, <1>type DEF Loop!TypeOK
  <2> QED BY <2>2, <2>3, <2>4, <2>5, <1>type, <1>lists, <1>pvcs, <1>members DEF Loop!TypeOK
<1>11. CASE UNCHANGED quiet
  BY <1>1, <1>11 DEF quiet
<1>12. CASE VGWork \/ VGOther \/ Users
  <2>1. CASE MembersDone \/ MembersRefused
    BY <1>1, <2>1 DEF MembersDone, MembersRefused
  <2>2. VGWork => Listing \/ MembersDone \/ MembersRefused \/ (VGWork /\ ~UpdatePVCs)
    BY DEF VGWork, UpdatePVCs, Listing
  <2>3. CASE (VGWork /\ ~UpdatePVCs) \/ Users
    BY <1>1, <2>3 DEF VGWork, Users
  <2>4. CASE VGOther
    BY <1>1, <1>11, <2>4 DEF VGOther
  <2> QED BY <1>2, <1>12, <2>1, <2>2, <2>3, <2>4
<1>13. CASE VGCWork
  BY <1>3, <1>4, <1>5, <1>6, <1>7, <1>13 DEF VGCWork, LoopStep
<1>14. CASE UNCHANGED allVars \/ \E n \in Names : VGTaken(n) \/ SyncGroup(n)
  BY <1>11, <1>14 DEF allVars, VGTaken, SyncGroup
<1> QED BY <1>6, <1>8, <1>9, <1>10, <1>12, <1>13, <1>14 DEF ReleaseNext

LEMMA InitReleaseType == ReleaseInit => ReleaseTypeOK
<1> SUFFICES ASSUME ReleaseInit PROVE ReleaseTypeOK
  OBVIOUS
<1>1. TypeOK /\ failures = 0 /\ matching \in Matches
  BY InitType DEF ReleaseInit, Init
<1>2. /\ list = <<>> /\ cache = <<>> /\ copy = <<>> /\ array = <<>>
      /\ fin = {} /\ foreign = {} /\ changes = 0 /\ pc = "idle" /\ i = 0 /\ len = 0
      /\ kept = FALSE /\ moved = FALSE
      /\ claim \in [PVs -> Loop!ClaimStates]
  BY DEF ReleaseInit, Loop!LoopInit, Loop!ClaimStates
<1>3. /\ MaxChanges \in Nat /\ MaxFailures \in Nat
      /\ <<>> \in Loop!Lists /\ Len(<<>>) = 0
  BY ReleaseAssumption, ConstantsAssumption, ListFacts
<1>4. /\ i \in Nat /\ len \in 0 .. Len(array) /\ changes \in 0 .. MaxChanges
      /\ failures \in 0 .. MaxFailures
  BY <1>1, <1>2, <1>3
<1>5. /\ pvcList \in [Names -> SUBSET PVs] /\ newList = <<>>
      /\ memPc = "none" /\ wanted = {} /\ others = {} /\ pvc = NoName
  BY DEF ReleaseInit
<1> QED BY <1>1, <1>2, <1>3, <1>4, <1>5
        DEF ReleaseTypeOK, Loop!TypeOK, Loop!LoopSteps, MemberSteps

\* The types, for every value of the constants: the index of the loop stays
\* inside the backing array while the body shortens the slice under it.
THEOREM ReleaseTyped == ReleaseSpec => []ReleaseTypeOK
BY InitReleaseType, NextReleaseType, PTL DEF ReleaseSpec

-----------------------------------------------------------------------------
(***************************************************************************)
(* The loop at its place, and the claim at hand.                           *)
(***************************************************************************)

\* The steps of ReleaseNext by what they do to the loop and to the claims.
LoopStops == LoopRefused \/ LoopEnds \/ ContentCallFails \/ RestartAll

OutsideLoop ==
    /\ ~InLoop /\ VGCStep
    /\ list' = IF vgcs'[Content] = NoObj THEN <<>> ELSE list
    /\ copy' = IF vgcPc' = "idle" THEN <<>> ELSE copy
    /\ UNCHANGED <<cache, claimVars, loopVars, changes, matching, memberVars>>

\* The writes of updatePVCs to the content and to the claims.
Writes == MakeList \/ WriteList \/ AddFinalizerToPVC

Away ==
    /\ UNCHANGED <<listVars, claimVars, loopVars, changes, matching, copy, vgcWorker, vgcCache>>
    /\ newList' \in {newList, <<>>}

LEMMA ReleaseSteps ==
    ASSUME [ReleaseNext]_allVars
    PROVE  \/ Away \/ Writes \/ LoopStep \/ LoopStops \/ OutsideLoop \/ ClaimStep
           \/ \E c \in ContentNames : VGCTaken(c) \/ VGCBound(c) \/ SyncContent(c)
<1>1. CASE UNCHANGED allVars \/ Users
  BY <1>1
  DEF Away, allVars, quiet, vars, memberVars, cacheVars, Users, User, CreateVG, DeleteVG, DeleteVGC,
      CreateStaticVGC, WorkersFrame
<1>2. CASE VGOther \/ (\E n \in Names : VGTaken(n) \/ SyncGroup(n))
  BY <1>2
  DEF Away, VGOther, VGTaken, SyncGroup, VGCallFails, PVCEvent, VGStart, VGReconcile, VGFrame,
      cacheVars, SyncVG, WorkersFrame, quiet, memberVars, MembersIdle
<1>3. CASE VGWork /\ ~UpdatePVCs
  BY <1>3
  DEF Away, VGWork, VGStep, VGAddFinalizer, VGCreateContent, VGCheckReady, VGSetContent,
      VGSetStatus, VGConfirmStatus, VGBindContent, VGMembers, VGDeleteContent,
      VGRemoveFinalizer, VGRetry, VGRefused, VGFrame, cacheVars, memberVars
<1>4. CASE MembersDone \/ MembersRefused
  BY <1>4 DEF Away, MembersDone, MembersRefused, MembersIdle, VGMembers, VGFrame, cacheVars
<1>5. CASE ModifyVolumes \/ \E pv \in matching : AddPVCToVG(pv) \/ RemovePVCFromVG(pv)
  BY <1>5
  DEF Away, ModifyVolumes, AddPVCToVG, RemovePVCFromVG, Listed, vars, cacheVars
<1>6. VGWork => \/ VGWork /\ ~UpdatePVCs
                \/ Writes \/ MembersDone \/ MembersRefused \/ ModifyVolumes
                \/ \E pv \in matching : AddPVCToVG(pv) \/ RemovePVCFromVG(pv)
  BY DEF VGWork, UpdatePVCs, Writes
<1>7. VGCWork => LoopStep \/ LoopStops \/ OutsideLoop
  BY DEF VGCWork, LoopStops, OutsideLoop
<1> QED
  BY <1>1, <1>2, <1>3, <1>4, <1>5, <1>6, <1>7 DEF ReleaseNext, LoopStops

\* What the writes leave alone: the finalizer is only put on a claim that is
\* there and not being deleted.
LEMMA WritesFrame ==
    ASSUME Writes
    PROVE  /\ AtMembers
           /\ UNCHANGED <<cache, claim, pc, i, array, len, kept>>
           /\ UNCHANGED <<changes, matching, copy, vgcWorker, vgcs, vgcCache, groups>>
           /\ list' = list \/ WriteList
           /\ fin' = fin \/ (fin' = fin \cup {pvc} /\ claim[pvc] = "present")
<1>1. CASE MakeList
  BY <1>1 DEF MakeList, vars, apiVars, cacheVars, listVars, claimVars, loopVars
<1>2. CASE WriteList
  BY <1>2 DEF WriteList, vars, apiVars, cacheVars, listVars, claimVars, loopVars
<1>3. CASE AddFinalizerToPVC
  BY <1>3 DEF AddFinalizerToPVC, vars, apiVars, cacheVars, listVars, claimVars, loopVars
<1> QED BY <1>1, <1>2, <1>3 DEF Writes

\* What stopping the loop does.
LEMMA StopsFrame ==
    ASSUME LoopStops
    PROVE  /\ pc' = "idle" /\ UNCHANGED <<list, claim, fin, foreign, matching, vgcs>>
           /\ array' = <<>> /\ len' = 0
           /\ UNCHANGED <<cache, vgcCache>> \/ (RestartAll /\ cache' = list)
           /\ vgcPc' \in {"idle", "removeContent"}
BY DEF LoopStops, LoopRefused, LoopEnds, ContentCallFails, RestartAll, Loop!ClaimRefused, Loop!Idle,
       listVars, claimVars, Loop!listVars, Loop!claimVars, VGCRequeue, VGCIdle, VGCDeletePVCs,
       VGCGoto, VGCCallFails, Restart, apiVars, cacheVars, VGCFrame

LEMMA StepPlace ==
    ASSUME ReleaseTypeOK, PlaceInv, [ReleaseNext]_allVars
    PROVE  PlaceInv'
<1> USE DEF loopVars, listVars, claimVars, Loop!loopVars, Loop!listVars, Loop!claimVars
<1>type. /\ claim \in [PVs -> Loop!ClaimStates] /\ fin \subseteq PVs
         /\ pc \in Loop!LoopSteps \ {"next"} => array[i] \in PVs
  <2>1. pc \in Loop!LoopSteps \ {"next"} => i \in DOMAIN array
    BY DEF ReleaseTypeOK, Loop!TypeOK
  <2>2. array \in Loop!Lists
    BY DEF ReleaseTypeOK, Loop!TypeOK
  <2> QED BY <2>1, <2>2, ListFacts DEF ReleaseTypeOK, Loop!TypeOK
<1>1. CASE Away
  BY <1>1 DEF Away, vgcWorker, PlaceInv, InLoop
<1>2. CASE Writes
  <2>1. UNCHANGED <<claim, pc, vgcPc, vgcReq>>
    BY <1>2, WritesFrame DEF vgcWorker
  <2>2. \A pv \in fin' : claim[pv] # "gone"
    BY <1>2, WritesFrame DEF PlaceInv
  <2> QED BY <2>1, <2>2 DEF PlaceInv, InLoop
<1>3. CASE LoopStep
  <2>1. InLoop /\ InLoop'
    BY <1>3 DEF LoopStep, lifeVars, vgcWorker, InLoop
  <2>2. \A pv \in fin' : claim'[pv] # "gone"
    <3>1. fin' \subseteq fin
      BY <1>3
      DEF LoopStep, Loop!BeginWith, Loop!RemovePV, Loop!Body, Loop!Turn, Loop!ReleaseClaim,
          Loop!WriteFinalizers, Loop!RetryFinalizers, Loop!RemoveClaim, Loop!Finish
    <3>2. claim' = claim \/ claim' = [claim EXCEPT ![array[i]] = "terminating"]
      BY <1>3
      DEF LoopStep, Loop!BeginWith, Loop!RemovePV, Loop!Body, Loop!Turn, Loop!ReleaseClaim,
          Loop!WriteFinalizers, Loop!RetryFinalizers, Loop!RemoveClaim, Loop!Finish
    <3> QED BY <1>type, <3>1, <3>2 DEF PlaceInv
  <2> QED BY <2>1, <2>2 DEF PlaceInv
<1>4. CASE LoopStops
  <2>1. pc' = "idle" /\ UNCHANGED <<claim, fin>>
    BY <1>4, StopsFrame
  <2> QED BY <2>1 DEF PlaceInv
<1>5. CASE OutsideLoop
  <2>1. pc = "idle" /\ pc' = pc /\ UNCHANGED <<claim, fin>>
    BY <1>5 DEF OutsideLoop, PlaceInv
  <2> QED BY <2>1 DEF PlaceInv
<1>6. CASE ClaimStep
  <2>1. PICK pv \in PVs : \/ Loop!UserDeletesClaim(pv) \/ Loop!OtherAdds(pv)
                          \/ Loop!OtherRemoves(pv) \/ Loop!ClaimGoes(pv)
    BY <1>6 DEF ClaimStep, Loop!Claims
  <2>2. UNCHANGED <<fin, vgcPc, vgcReq, pc>>
    BY <1>6, <2>1
    DEF ClaimStep, lifeVars, vgcWorker, Loop!UserDeletesClaim, Loop!OtherAdds,
        Loop!OtherRemoves, Loop!ClaimGoes, Loop!Moves
  <2>3. \A p \in fin : claim'[p] # "gone"
    BY <1>type, <2>1
    DEF PlaceInv, Loop!UserDeletesClaim, Loop!OtherAdds, Loop!OtherRemoves, Loop!ClaimGoes
  <2> QED BY <2>2, <2>3 DEF PlaceInv, InLoop
<1>7. ASSUME NEW c \in ContentNames, VGCTaken(c) \/ VGCBound(c) PROVE PlaceInv'
  <2>1. vgcPc = "idle" /\ UNCHANGED <<pc, claim, fin>>
    BY <1>7 DEF VGCTaken, VGCBound, Copies, VGCStart, BindingEvent, VGCReconcile
  <2> QED BY <2>1 DEF PlaceInv, InLoop
<1>8. ASSUME NEW c \in ContentNames, SyncContent(c) PROVE PlaceInv'
  <2>1. UNCHANGED <<claim, fin, pc, vgcPc, vgcReq>>
    BY <1>8 DEF SyncContent, SyncVGC, WorkersFrame, vgcWorker, Loop!Sync, lifeVars
  <2> QED BY <2>1 DEF PlaceInv, InLoop
<1> QED BY <1>1, <1>2, <1>3, <1>4, <1>5, <1>6, <1>7, <1>8, ReleaseSteps

LEMMA PlacesKnown == ReleaseSpec => []PlaceInv
<1>1. ReleaseInit => PlaceInv
  BY DEF ReleaseInit, Loop!LoopInit, PlaceInv
<1>2. ReleaseTypeOK /\ PlaceInv /\ [ReleaseNext]_allVars => PlaceInv'
  BY StepPlace
<1> QED BY <1>1, <1>2, ReleaseTyped, PTL DEF ReleaseSpec

\* The invariants of GroupLifecycle in the composition.
LEMMA LifeKept ==
    ASSUME NamesUnguessed
    PROVE  ReleaseSpec => []LifeInv
<1>1. ReleaseInit => LifeInv
  BY InitType, InitInv, InitOwner, InitBacked DEF ReleaseInit, LifeInv
<1>2. LifeInv /\ [ReleaseNext]_allVars => LifeInv'
  BY ReleaseIsLife, StepLife
<1> QED BY <1>1, <1>2, PTL DEF ReleaseSpec

\* The loop deletes a claim only once the VolumeGroup of its content is gone.
THEOREM ClaimsWaitForGroup ==
    ASSUME NamesUnguessed
    PROVE  ReleaseSpec => ClaimsOutliveGroup
<1>1. LifeInv /\ PlaceInv /\ [ReleaseNext]_allVars
        => [\A pv \in PVs, u \in UIDs :
              pc = "removeClaim" /\ claim'[pv] # claim[pv] /\ Content = MakeVGName(u)
              => ~Alive(u)]_allVars
  <2> SUFFICES ASSUME LifeInv, PlaceInv, NEW u \in UIDs, pc = "removeClaim", Content = MakeVGName(u)
               PROVE  ~Alive(u)
    OBVIOUS
  <2>1. vgcPc = "deletePVCs" /\ vgcReq = Content
    BY DEF PlaceInv, InLoop
  <2> QED BY <2>1 DEF LifeInv, BackedInv, ReportInv, VGCRemoveSteps
<1> QED BY <1>1, LifeKept, PlacesKnown, PTL DEF ReleaseSpec, ClaimsOutliveGroup

-----------------------------------------------------------------------------
(***************************************************************************)
(* Every list the loop may go by has the same left to do.                  *)
(***************************************************************************)

\* Members are listed only for a content that no one removes, under its
\* finalizer.
LEMMA MembersSet ==
    ASSUME NamesUnguessed, Content \in DynamicContents, LifeInv, RetireInv, AtMembers
    PROVE  /\ vgcs[Content] # NoObj => vgcs[Content].fin
           /\ ~(vgcCache[Content] # NoObj /\ vgcCache[Content].deleting)
           /\ ~(vgcReq = Content /\ vgcPc \in VGCRemoveSteps)
<1>1. vgPc = "members" /\ vgObj.content = Content
  BY DEF AtMembers
<1>2. vgObj \in VG /\ vgObj # NoObj
  BY <1>1, NameFacts DEF LifeInv, TypeOK
<1>3. vgObj.uid \in UIDs /\ Content = MakeVGName(vgObj.uid) /\ HandleRecorded(vgObj.uid)
  BY <1>1, <1>2 DEF LifeInv, BackedInv, CopiesInv, GroupCopy, NamesUnguessed, VG
<1>4. vgcs[Content] # NoObj => vgcs[Content].fin
  BY <1>3 DEF HandleRecorded, LifeInv, BackedInv, HandleBacked
<1>5. ~Retired(vgObj.uid)
  BY <1>1, <1>3, NotForRetired DEF VGProvisionSteps
<1> QED BY <1>3, <1>4, <1>5 DEF RetireInv

\* The loop is not running then.
LEMMA MembersAlone ==
    ASSUME NamesUnguessed, Content \in DynamicContents, LifeInv, RetireInv, PlaceInv, AtMembers
    PROVE  pc = "idle"
BY MembersSet DEF PlaceInv, InLoop, VGCRemoveSteps

\* What is finished stays so: a claim that is being deleted takes no finalizer.
LEMMA FinishedStays ==
    ASSUME ReleaseTypeOK, [ReleaseNext]_allVars, NEW pv \in PVs, Finished(pv)
    PROVE  Finished(pv)'
<1> USE DEF loopVars, listVars, claimVars, Loop!loopVars, Loop!listVars, Loop!claimVars
<1>1. claim \in [PVs -> Loop!ClaimStates]
  BY DEF ReleaseTypeOK, Loop!TypeOK
<1>2. fin' \subseteq fin \/ (Writes /\ \A p \in fin' \ fin : claim[p] = "present")
  <2>1. CASE Writes
    BY <2>1, WritesFrame
  <2> QED
    BY <2>1, ReleaseSteps, StopsFrame
    DEF Away, OutsideLoop, VGCTaken, VGCBound, Copies, SyncContent, Loop!Sync, LoopStep,
        Loop!BeginWith, Loop!RemovePV, Loop!Body, Loop!Turn, Loop!ReleaseClaim,
        Loop!WriteFinalizers, Loop!RetryFinalizers, Loop!RemoveClaim, Loop!Finish, ClaimStep,
        Loop!Claims, Loop!UserDeletesClaim, Loop!OtherAdds, Loop!OtherRemoves, Loop!ClaimGoes
<1>3. \/ claim' = claim
      \/ \E p, new : new \in {"terminating", "gone"} /\ claim' = [claim EXCEPT ![p] = new]
  <2>1. CASE LoopStep
    BY <2>1
    DEF LoopStep, Loop!BeginWith, Loop!RemovePV, Loop!Body, Loop!Turn, Loop!ReleaseClaim,
        Loop!WriteFinalizers, Loop!RetryFinalizers, Loop!RemoveClaim, Loop!Finish
  <2>2. CASE ClaimStep
    BY <2>2
    DEF ClaimStep, Loop!Claims, Loop!UserDeletesClaim, Loop!OtherAdds, Loop!OtherRemoves,
        Loop!ClaimGoes
  <2> QED
    BY <2>1, <2>2, ReleaseSteps, StopsFrame, WritesFrame
    DEF Away, OutsideLoop, VGCTaken, VGCBound, Copies, SyncContent, Loop!Sync
<1> QED BY <1>1, <1>2, <1>3 DEF Finished

LEMMA StepDone ==
    ASSUME NamesUnguessed, Content \in DynamicContents, ReleaseTypeOK, LifeInv, RetireInv,
           PlaceInv, DoneInv, [ReleaseNext]_allVars
    PROVE  DoneInv'
<1> USE DEF loopVars, listVars, claimVars, Loop!loopVars, Loop!listVars, Loop!claimVars
<1>type. /\ claim \in [PVs -> Loop!ClaimStates] /\ fin \subseteq PVs
         /\ pc \in Loop!LoopSteps \ {"next"} => array[i] \in PVs
         /\ pc = "next" /\ i \in DOMAIN array => array[i] \in PVs
  <2>1. pc \in Loop!LoopSteps \ {"next"} => i \in DOMAIN array
    BY DEF ReleaseTypeOK, Loop!TypeOK
  <2>2. array \in Loop!Lists
    BY DEF ReleaseTypeOK, Loop!TypeOK
  <2> QED BY <2>1, <2>2, ListFacts DEF ReleaseTypeOK, Loop!TypeOK
<1>1. CASE Writes
  <2>1. AtMembers /\ UNCHANGED pc
    BY <1>1, WritesFrame
  <2> QED BY <2>1, MembersAlone DEF DoneInv
<1>2. CASE ~Writes /\ UNCHANGED <<pc, i, array>>
  <2>1. ASSUME pc = "removePV" PROVE Finished(array[i])'
    <3>1. PICK pv \in PVs : pv = array[i]
      BY <1>type, <2>1 DEF Loop!LoopSteps
    <3>2. Finished(pv) /\ pv = array'[i']
      BY <1>2, <2>1, <3>1 DEF DoneInv
    <3> QED BY <3>1, <3>2, FinishedStays DEF Finished
  <2>2. fin' \subseteq fin
    BY <1>2, ReleaseSteps, StopsFrame
    DEF Away, OutsideLoop, VGCTaken, VGCBound, Copies, SyncContent, Loop!Sync, LoopStep,
        Loop!BeginWith, Loop!RemovePV, Loop!Body, Loop!Turn, Loop!ReleaseClaim,
        Loop!WriteFinalizers, Loop!RetryFinalizers, Loop!RemoveClaim, Loop!Finish, ClaimStep,
        Loop!Claims, Loop!UserDeletesClaim, Loop!OtherAdds, Loop!OtherRemoves, Loop!ClaimGoes
  <2> QED BY <1>2, <2>1, <2>2 DEF DoneInv
<1>3. CASE LoopStep
  <2>1. CASE Loop!Turn
    <3>1. pc = "next" /\ UNCHANGED <<claim, fin, array>>
      BY <2>1 DEF Loop!Turn, Loop!Goto
    <3>2. pc' # "removeClaim"
      BY <2>1 DEF Loop!Turn, Loop!Goto
    <3>3. pc' = "removePV" => i' = i /\ claim[array[i]] = "gone"
      BY <2>1 DEF Loop!Turn, Loop!Goto
    <3> QED BY <3>1, <3>2, <3>3 DEF DoneInv, PlaceInv, Finished
  <2>2. CASE Loop!ReleaseClaim
    BY <2>2 DEF Loop!ReleaseClaim, Loop!Goto, DoneInv
  <2>3. CASE Loop!WriteFinalizers
    BY <2>3 DEF Loop!WriteFinalizers, Loop!Goto, DoneInv
  <2>4. CASE Loop!RemoveClaim
    <3>1. /\ pc = "removeClaim" /\ pc' = "removePV" /\ UNCHANGED <<fin, i, array>>
          /\ claim' = [claim EXCEPT ![array[i]] = "terminating"]
      BY <2>4 DEF Loop!RemoveClaim, Loop!Goto
    <3>2. array[i] \in PVs
      BY <1>type, <3>1 DEF Loop!LoopSteps
    <3> QED BY <1>type, <3>1, <3>2 DEF DoneInv, Finished
  <2>5. CASE Loop!RetryFinalizers
    BY <2>5 DEF Loop!RetryFinalizers, DoneInv
  <2>6. CASE Loop!BeginWith(copy) \/ Loop!RemovePV \/ Loop!Finish
    BY <2>6 DEF Loop!BeginWith, Loop!RemovePV, Loop!Finish, Loop!Goto, DoneInv
  <2> QED BY <1>3, <2>1, <2>2, <2>3, <2>4, <2>5, <2>6 DEF LoopStep, Loop!Body
<1>4. CASE LoopStops
  BY <1>4, StopsFrame DEF DoneInv
<1>5. ~LoopStep /\ ~LoopStops => UNCHANGED <<pc, i, array>>
  BY ReleaseSteps, WritesFrame
  DEF Away, OutsideLoop, VGCTaken, VGCBound, Copies, SyncContent, Loop!Sync, ClaimStep,
      Loop!Claims, Loop!UserDeletesClaim, Loop!OtherAdds, Loop!OtherRemoves,
      Loop!ClaimGoes, Loop!Moves
<1> QED BY <1>1, <1>2, <1>3, <1>4, <1>5

\* The content that a list is on is not lost under it.
LEMMA ListHasContent ==
    ASSUME NamesUnguessed, Content \in DynamicContents \ UserDeletes, LifeInv, RetireInv,
           GoingInv, WorkInv, [ReleaseNext]_allVars, list' # <<>>
    PROVE  vgcs'[Content] # NoObj /\ vgcs'[Content].fin
<1>1. PICK u \in UIDs : Content = MakeVGName(u)
  BY DEF DynamicContents
<1>2. Content \in ContentNames /\ vgcs[Content] \in VGC \cup {NoObj} /\ LifeStep
  BY <1>1, NameFacts, ReleaseIsLife DEF LifeInv, TypeOK
<1>3. CASE vgcs'[Content] = vgcs[Content]
  <2>1. CASE list' = list
    BY <1>3, <2>1 DEF WorkInv
  <2>2. CASE WriteList
    BY <1>3, <2>2, MembersSet DEF WriteList, ContentCurrent
  <2>3. CASE LoopStep /\ Loop!RemovePV
    <3>1. InLoop /\ vgcs[Content] # NoObj
      BY <2>3 DEF LoopStep, Loop!BeginWith, Loop!Body, Loop!Turn, Loop!ReleaseClaim,
         Loop!WriteFinalizers, Loop!RetryFinalizers, Loop!RemoveClaim, Loop!Finish, Loop!RemovePV
    <3>2. vgcs[Content].deleting
      BY <3>1 DEF GoingInv, InLoop, VGCRemoveSteps
    <3> QED BY <1>2, <1>3, <3>1, <3>2 DEF LifeInv, FinalizerInv, DeletingHasFinalizer
  <2>4. LoopStep /\ ~Loop!RemovePV => list' = list
    BY DEF LoopStep, Loop!BeginWith, Loop!Body, Loop!Turn, Loop!ReleaseClaim,
       Loop!WriteFinalizers, Loop!RetryFinalizers, Loop!RemoveClaim, Loop!Finish,
       Loop!listVars
  <2>5. ~LoopStep /\ ~WriteList => list' = list
    BY ReleaseSteps, StopsFrame, WritesFrame
    DEF Away, listVars, OutsideLoop, VGCTaken, VGCBound, Copies, SyncContent, Loop!Sync,
        ClaimStep, Loop!Claims, Loop!UserDeletesClaim, Loop!OtherAdds, Loop!OtherRemoves,
        Loop!ClaimGoes, Loop!Moves, Loop!listVars
  <2> QED BY <2>1, <2>2, <2>3, <2>4, <2>5
<1>4. CASE vgcs'[Content] # vgcs[Content]
  <2>1. Away \/ OutsideLoop
    <3>1. Writes \/ LoopStops => vgcs' = vgcs
      BY WritesFrame, StopsFrame
    <3>2. LoopStep \/ ClaimStep => vgcs' = vgcs
      BY DEF LoopStep, ClaimStep, lifeVars, apiVars
    <3>3. ASSUME NEW c \in ContentNames, VGCTaken(c) \/ VGCBound(c) \/ SyncContent(c)
          PROVE  vgcs' = vgcs
      BY <3>3
      DEF VGCTaken, VGCBound, VGCStart, BindingEvent, VGCReconcile, SyncContent, SyncVGC, lifeVars,
          apiVars
    <3> QED BY <1>4, <3>1, <3>2, <3>3, ReleaseSteps
  <2>2. list' = list /\ vgcs[Content] # NoObj /\ vgcs[Content].fin
    <3>1. list' = list
      BY <2>1 DEF Away, listVars, OutsideLoop
    <3> QED BY <3>1 DEF WorkInv
  <2>3. CASE ContentReleased
    <3>1. vgcs[Content].deleting
      BY <2>2, <2>3 DEF ContentReleased, LifeInv, FinalizerInv, ContentWorkerInv, VGCRemoveSteps,
         Protected
    <3>2. vgcs'[Content] = NoObj
      BY <2>3, <3>1 DEF ContentReleased, Released
    <3>3. vgcPc' # vgcPc
      BY <2>3 DEF ContentReleased
    <3> QED BY <2>1, <3>2, <3>3 DEF Away, vgcWorker, OutsideLoop
  <2>4. CASE ContentAsked(u)
    <3>1. vgcs[Content] \in VGC /\ [vgcs[Content] EXCEPT !.deleting = TRUE] \in VGC
      BY <1>2, <2>2 DEF VGC
    <3> QED BY <2>2, <2>4, <3>1, NameFacts DEF ContentAsked, Deleted, VGC
  <2>5. ContentMade(u) \/ ContentAsked(u) \/ ContentWritten \/ ContentReleased
    BY <1>1, <1>2, <1>4, ContentSteps
  <2> QED BY <2>2, <2>3, <2>4, <2>5 DEF ContentMade, ContentWritten
<1> QED BY <1>3, <1>4

\* What the step of a loop does to its list, as long as the content is there.
LEMMA ListMoves ==
    ASSUME ReleaseTypeOK, PlaceInv, DoneInv, WorkInv, [ReleaseNext]_allVars, ~Writes,
           vgcs[Content] # NoObj, vgcs'[Content] # NoObj
    PROVE  /\ \A pv \in PVs :
                Finished(pv) \/ (pv \in Loop!Members(list') <=> pv \in Loop!Members(list))
           /\ list' # list => pc = "removePV" /\ Loop!RemovePV /\ LoopStep
<1>1. CASE list' = list
  BY <1>1
<1>2. CASE LoopStep /\ Loop!RemovePV
  <2>1. pc = "removePV" /\ Loop!TypeOK
    BY <1>2 DEF Loop!RemovePV, ReleaseTypeOK
  <2>2. SameWork(Slice) /\ Finished(array[i])
    BY <2>1 DEF WorkInv, DoneInv
  <2>3. \A pv \in PVs : pv # array[i] => (pv \in Loop!Members(list') <=> pv \in Slice)
    BY <1>2, <2>1, RemovedPV
  <2> QED BY <1>2, <2>1, <2>2, <2>3 DEF SameWork
<1>3. LoopStep /\ ~Loop!RemovePV => list' = list
  BY DEF LoopStep, Loop!BeginWith, Loop!Body, Loop!Turn, Loop!ReleaseClaim,
     Loop!WriteFinalizers, Loop!RetryFinalizers, Loop!RemoveClaim, Loop!Finish, Loop!listVars
<1>4. ~LoopStep => list' = list
  BY ReleaseSteps, StopsFrame
  DEF Away, listVars, OutsideLoop, VGCTaken, VGCBound, Copies, SyncContent, Loop!Sync,
      ClaimStep, Loop!Claims, Loop!UserDeletesClaim, Loop!OtherAdds, Loop!OtherRemoves,
      Loop!ClaimGoes, Loop!Moves, Loop!listVars
<1> QED BY <1>1, <1>2, <1>3, <1>4

\* Where the copies of the list come from.
LEMMA CopiesMove ==
    ASSUME ReleaseTypeOK, PlaceInv, [ReleaseNext]_allVars, ~Writes
    PROVE  /\ \/ cache' = cache /\ vgcCache'[Content] = vgcCache[Content]
              \/ cache' = list /\ list' = list
           /\ vgcReq' = Content /\ vgcPc' \in {"checkOwner", "deletePVCs"} =>
                \/ copy' = copy /\ vgcReq = Content /\ vgcPc \in {"checkOwner", "deletePVCs"}
                \/ copy' = cache /\ vgcCache[Content] # NoObj /\ vgcCache[Content].deleting
           /\ pc' # "idle" =>
                \/ pc # "idle" /\ array' = array /\ len' = len
                \/ pc # "idle" /\ Loop!RemovePV
                \/ InLoop /\ array' = copy /\ len' = Len(copy)
<1> USE DEF loopVars, listVars, claimVars, Loop!loopVars, Loop!listVars, Loop!claimVars
<1>type. /\ TypeOK /\ Content \in ContentNames /\ LifeStep
         /\ vgcCache \in [ContentNames -> VGC \cup {NoObj}]
  BY ReleaseIsLife, ReleaseAssumption DEF ReleaseTypeOK, TypeOK
<1>1. \/ cache' = cache /\ vgcCache'[Content] = vgcCache[Content]
      \/ cache' = list /\ list' = list
  <2>1. CASE Away \/ OutsideLoop
    BY <2>1
    DEF Away, OutsideLoop, VGCStep, VGCThinSpec, VGCStaticSpec, FreshSpecUpdate,
        VGCThinStatus, VGCReadyStatus, StatusUpdate, VGCAddFinalizer, VGCCreateGroup,
        VGCSetHandle, VGCCheckOwner, VGCDeletePVCs, VGCRemoveContent, VGCRemoveFinalizer,
        VGCRetry, VGCRefused, VGCFrame, cacheVars
  <2>2. CASE LoopStep \/ ClaimStep
    BY <2>2
    DEF LoopStep, ClaimStep, lifeVars, cacheVars, Loop!BeginWith, Loop!RemovePV, Loop!Body,
        Loop!Turn, Loop!ReleaseClaim, Loop!WriteFinalizers, Loop!RetryFinalizers,
        Loop!RemoveClaim, Loop!Finish, Loop!Claims, Loop!UserDeletesClaim, Loop!OtherAdds,
        Loop!OtherRemoves, Loop!ClaimGoes, Loop!Moves
  <2>3. CASE LoopStops
    BY <2>3, StopsFrame
  <2>4. ASSUME NEW c \in ContentNames, VGCTaken(c) \/ VGCBound(c)
        PROVE  cache' = cache /\ vgcCache' = vgcCache
    BY <2>4
    DEF VGCTaken, VGCBound, Copies, VGCStart, BindingEvent, VGCReconcile, VGCFrame, cacheVars
  <2>5. ASSUME NEW c \in ContentNames, SyncContent(c)
        PROVE  \/ cache' = cache /\ vgcCache'[Content] = vgcCache[Content]
               \/ cache' = list /\ list' = list
    BY <1>type, <2>5 DEF SyncContent, SyncVGC, Loop!Sync
  <2> QED BY <2>1, <2>2, <2>3, <2>4, <2>5, ReleaseSteps
<1>2. ASSUME vgcReq' = Content, vgcPc' \in {"checkOwner", "deletePVCs"}
      PROVE  \/ copy' = copy /\ vgcReq = Content /\ vgcPc \in {"checkOwner", "deletePVCs"}
             \/ copy' = cache /\ vgcCache[Content] # NoObj /\ vgcCache[Content].deleting
  <2>1. CASE Away
    BY <1>2, <2>1 DEF Away, vgcWorker
  <2>2. CASE LoopStep \/ ClaimStep
    BY <1>2, <2>2 DEF LoopStep, ClaimStep, lifeVars, vgcWorker
  <2>3. CASE LoopStops
    BY <1>2, <2>3, StopsFrame
  <2>4. CASE OutsideLoop
    <3>1. copy' = copy
      BY <1>2, <2>4 DEF OutsideLoop
    <3>2. VGCAddFinalizer => vgcPc' \notin {"checkOwner", "deletePVCs"}
      BY DEF VGCAddFinalizer, VGCGoto, GroupStep
    <3>3. vgcReq = Content /\ vgcPc \in {"checkOwner", "deletePVCs"}
      BY <1>2, <2>4, <3>2
      DEF OutsideLoop, VGCStep, VGCThinSpec, VGCStaticSpec, FreshSpecUpdate,
          VGCThinStatus, VGCReadyStatus, StatusUpdate, VGCCreateGroup,
          VGCSetHandle, VGCCheckOwner, VGCDeletePVCs, VGCRemoveContent, VGCRemoveFinalizer,
          VGCRetry, VGCRefused, VGCGoto, VGCDone, VGCRequeue, VGCIdle, VGCRetrySteps
    <3> QED BY <3>1, <3>3
  <2>5. ASSUME NEW c \in ContentNames, VGCTaken(c) \/ VGCBound(c)
        PROVE  copy' = cache /\ vgcCache[Content] # NoObj /\ vgcCache[Content].deleting
    <3>1. vgcPc = "idle" /\ VGCReconcile(c)
      BY <2>5 DEF VGCTaken, VGCBound, VGCStart, BindingEvent, VGCReconcile
    <3>2. c = Content
      BY <1>2, <3>1 DEF VGCReconcile, VGCIdle
    <3>3. copy' = cache
      BY <1>2, <2>5, <3>2 DEF VGCTaken, VGCBound, Copies
    <3> QED BY <1>type, <1>2, <3>1, <3>3, EntersRemoval DEF VGCRemoveSteps
  <2>6. ASSUME NEW c \in ContentNames, SyncContent(c)
        PROVE  UNCHANGED <<copy, vgcPc, vgcReq>>
    BY <2>6 DEF SyncContent, SyncVGC, WorkersFrame, vgcWorker, lifeVars
  <2> QED BY <1>2, <2>1, <2>2, <2>3, <2>4, <2>5, <2>6, ReleaseSteps
<1>3. ASSUME pc' # "idle"
      PROVE  \/ pc # "idle" /\ array' = array /\ len' = len
             \/ pc # "idle" /\ Loop!RemovePV
             \/ InLoop /\ array' = copy /\ len' = Len(copy)
  <2>1. CASE LoopStep
    BY <2>1
    DEF LoopStep, Loop!BeginWith, Loop!RemovePV, Loop!Body, Loop!Turn, Loop!ReleaseClaim,
        Loop!WriteFinalizers, Loop!RetryFinalizers, Loop!RemoveClaim, Loop!Finish, Loop!Goto
  <2> QED
    BY <1>3, <2>1, ReleaseSteps, StopsFrame
    DEF Away, OutsideLoop, VGCTaken, VGCBound, Copies, SyncContent, Loop!Sync,
        ClaimStep, Loop!Claims, Loop!UserDeletesClaim, Loop!OtherAdds, Loop!OtherRemoves,
        Loop!ClaimGoes, Loop!Moves
<1> QED BY <1>1, <1>2, <1>3

LEMMA StepWork ==
    ASSUME NamesUnguessed, Content \in DynamicContents \ UserDeletes, ReleaseTypeOK, LifeInv,
           RetireInv, GoingInv, PlaceInv, DoneInv, WorkInv, [ReleaseNext]_allVars
    PROVE  WorkInv'
<1>1. PICK u \in UIDs : Content = MakeVGName(u)
  BY DEF DynamicContents
<1>2. /\ LifeStep /\ ReleaseTypeOK' /\ PlaceInv' /\ Content \in ContentNames /\ TypeOK
  BY ReleaseIsLife, NextReleaseType, StepPlace, ReleaseAssumption DEF LifeInv
<1>3. list' # <<>> => vgcs'[Content] # NoObj /\ vgcs'[Content].fin
  BY ListHasContent
<1> SUFFICES ASSUME vgcs'[Content] # NoObj
             PROVE  /\ vgcCache'[Content] # NoObj /\ vgcCache'[Content].deleting
                         => SameWork(Loop!Members(cache))'
                    /\ vgcReq' = Content /\ vgcPc' \in {"checkOwner", "deletePVCs"}
                         => SameWork(Loop!Members(copy))'
                    /\ pc' # "idle" => SameWork(Slice)'
  BY <1>3 DEF WorkInv
<1>4. CASE vgcs[Content] = NoObj
  <2>1. ContentMade(u)
    BY <1>1, <1>2, <1>4, ContentSteps DEF ContentAsked, ContentWritten, ContentReleased
  <2>2. ~Retired(u)
    BY <2>1, NotForRetired DEF ContentMade, VGProvisionSteps
  <2>3. /\ ~(vgcCache[Content] # NoObj /\ vgcCache[Content].deleting)
        /\ ~(vgcReq = Content /\ vgcPc \in VGCRemoveSteps)
    BY <1>1, <2>2 DEF RetireInv
  <2>4. /\ ~(vgcCache'[Content] # NoObj /\ vgcCache'[Content].deleting)
    BY <1>2, <1>4, <2>3, CacheMoves
  <2>5. ~(vgcReq' = Content /\ vgcPc' \in VGCRemoveSteps)
    BY <1>2, <2>3, EntersRemoval
  <2> QED BY <1>2, <2>4, <2>5 DEF VGCRemoveSteps, PlaceInv, InLoop
<1>5. CASE vgcs[Content] # NoObj /\ Writes
  <2>1. AtMembers /\ UNCHANGED <<pc, vgcPc, vgcReq, vgcCache>>
    BY <1>5, WritesFrame DEF vgcWorker
  <2>2. /\ ~(vgcCache[Content] # NoObj /\ vgcCache[Content].deleting)
        /\ ~(vgcReq = Content /\ vgcPc \in VGCRemoveSteps) /\ pc = "idle"
    BY <2>1, MembersSet, MembersAlone
  <2> QED BY <2>1, <2>2 DEF VGCRemoveSteps
<1>6. CASE vgcs[Content] # NoObj /\ ~Writes
  <2>1. \A pv \in PVs : \/ Finished(pv)'
                        \/ /\ ~Finished(pv)
                           /\ pv \in Loop!Members(list') <=> pv \in Loop!Members(list)
    BY <1>6, ListMoves, FinishedStays
  <2>3. ASSUME vgcCache'[Content] # NoObj, vgcCache'[Content].deleting
        PROVE  SameWork(Loop!Members(cache))'
    <3>1. CASE cache' = cache /\ vgcCache'[Content] = vgcCache[Content]
      <4>1. SameWork(Loop!Members(cache))
        BY <1>6, <2>3, <3>1 DEF WorkInv
      <4> QED BY <2>1, <3>1, <4>1 DEF SameWork
    <3>2. CASE cache' = list /\ list' = list
      BY <3>2 DEF SameWork
    <3> QED BY <1>6, <3>1, <3>2, CopiesMove
  <2>4. ASSUME vgcReq' = Content, vgcPc' \in {"checkOwner", "deletePVCs"}
        PROVE  SameWork(Loop!Members(copy))'
    <3>1. CASE copy' = copy /\ vgcReq = Content /\ vgcPc \in {"checkOwner", "deletePVCs"}
      <4>1. SameWork(Loop!Members(copy))
        BY <1>6, <3>1 DEF WorkInv
      <4> QED BY <2>1, <3>1, <4>1 DEF SameWork
    <3>2. CASE copy' = cache /\ vgcCache[Content] # NoObj /\ vgcCache[Content].deleting
      <4>1. SameWork(Loop!Members(cache))
        BY <1>6, <3>2 DEF WorkInv
      <4> QED BY <2>1, <3>2, <4>1 DEF SameWork
    <3> QED BY <1>6, <2>4, <3>1, <3>2, CopiesMove
  <2>5. ASSUME pc' # "idle" PROVE SameWork(Slice)'
    <3>1. CASE pc # "idle" /\ array' = array /\ len' = len
      <4>1. SameWork(Slice)
        BY <1>6, <3>1 DEF WorkInv
      <4> QED BY <2>1, <3>1, <4>1 DEF SameWork, Slice
    <3>2. CASE Loop!RemovePV
      <4>1. Loop!Members(list') = {array'[k] : k \in 1 .. len'}
        BY <3>2, RemovedPV DEF Loop!RemovePV, ReleaseTypeOK
      <4> QED BY <4>1 DEF SameWork, Slice
    <3>3. CASE InLoop /\ array' = copy /\ len' = Len(copy)
      <4>1. SameWork(Loop!Members(copy))
        BY <1>6, <3>3 DEF WorkInv, InLoop
      <4>2. DOMAIN copy = 1 .. Len(copy)
        BY ListFacts DEF ReleaseTypeOK
      <4>3. {array'[k] : k \in 1 .. len'} = Loop!Members(copy)
        BY <3>3, <4>2 DEF Loop!Members
      <4> QED BY <2>1, <4>1, <4>3 DEF SameWork, Slice
    <3> QED BY <1>6, <2>5, <3>1, <3>2, <3>3, CopiesMove
  <2> QED BY <2>3, <2>4, <2>5
<1> QED BY <1>4, <1>5, <1>6

\* No step makes a list that has a volume twice, or one of another group.
LEMMA StepLists ==
    ASSUME ReleaseTypeOK, ListsInv, [ReleaseNext]_allVars
    PROVE  ListsInv'
<1> USE DEF loopVars, listVars, claimVars, memberVars, Loop!loopVars, Loop!listVars, Loop!claimVars
<1>type. /\ Loop!TypeOK /\ DOMAIN copy = 1 .. Len(copy) /\ len \in 0 .. Len(array)
         /\ array \in Loop!Lists /\ DOMAIN array = 1 .. Len(array)
  BY ListFacts DEF ReleaseTypeOK, Loop!TypeOK
<1>lists. /\ Proper(list) /\ Proper(cache) /\ Proper(copy) /\ Proper(newList) /\ Proper(<<>>)
          /\ Loop!Members(array) \subseteq matching /\ SliceDistinct
  <2>1. Proper(<<>>)
    BY ListFacts DEF Proper, Loop!Distinct, Loop!Members
  <2> QED BY <2>1 DEF ListsInv
<1>same. ASSUME UNCHANGED <<array, len, matching>>,
                list' \in {list, newList, <<>>}, cache' \in {list, cache},
                copy' \in {copy, cache, <<>>}, newList' \in {newList, <<>>}
         PROVE  ListsInv'
  <2>1. /\ Proper(list)' /\ Proper(cache)' /\ Proper(copy)' /\ Proper(newList)'
    BY <1>lists, <1>same DEF Proper
  <2>2. Loop!Members(array') \subseteq matching' /\ SliceDistinct'
    BY <1>lists, <1>same DEF SliceDistinct
  <2> QED BY <2>1, <2>2 DEF ListsInv
<1>1. CASE Away \/ OutsideLoop
  BY <1>1, <1>same DEF Away, OutsideLoop
<1>2. CASE MakeList
  <2>1. UNCHANGED <<list, cache, copy, array, len, matching>>
    BY <1>2 DEF MakeList
  <2>2. Proper(newList)'
    BY <1>2, <1>lists, MadeList
  <2>3. /\ Proper(list)' /\ Proper(cache)' /\ Proper(copy)'
        /\ Loop!Members(array') \subseteq matching' /\ SliceDistinct'
    BY <1>lists, <2>1 DEF Proper, SliceDistinct
  <2> QED BY <2>2, <2>3 DEF ListsInv
<1>3. CASE WriteList \/ AddFinalizerToPVC
  BY <1>3, <1>same DEF WriteList, AddFinalizerToPVC
<1>4. CASE LoopStep /\ Loop!BeginWith(copy)
  <2>1. /\ UNCHANGED <<list, cache, copy, newList, matching>>
        /\ array' = copy /\ len' = Len(copy)
    BY <1>4 DEF LoopStep, lifeVars, Loop!BeginWith
  <2>2. SliceDistinct' /\ Loop!Members(array') \subseteq matching'
    BY <1>type, <1>lists, <2>1 DEF SliceDistinct, Proper, Loop!Distinct
  <2>3. Proper(list)' /\ Proper(cache)' /\ Proper(copy)' /\ Proper(newList)'
    BY <1>lists, <2>1 DEF Proper
  <2> QED BY <2>2, <2>3 DEF ListsInv
<1>5. CASE LoopStep /\ Loop!RemovePV
  <2>1. /\ UNCHANGED <<cache, copy, newList, matching>> /\ pc = "removePV"
    BY <1>5 DEF LoopStep, lifeVars, Loop!RemovePV
  <2>2. /\ array' \in Loop!Lists /\ Len(array') = Len(array) /\ len' \in 0 .. Len(array)
        /\ Loop!Members(list') = {array'[k] : k \in 1 .. len'}
        /\ Loop!Members(array') \subseteq Loop!Members(array)
        /\ SliceDistinct' /\ Loop!Distinct(list')
    BY <1>5, <1>type, <1>lists, <2>1, RemovedPV
  <2>3. Loop!Members(list') \subseteq Loop!Members(array')
    <3>1. DOMAIN array' = 1 .. Len(array) /\ Len(array) \in Nat
      BY <2>2, <1>type, ListFacts
    <3> QED BY <2>2, <3>1 DEF Loop!Members
  <2>4. Proper(list)' /\ Proper(cache)' /\ Proper(copy)' /\ Proper(newList)'
    BY <1>lists, <2>1, <2>2, <2>3 DEF Proper
  <2> QED BY <1>lists, <2>1, <2>2, <2>4 DEF ListsInv
<1>6. CASE LoopStep /\ Loop!Body
  BY <1>6, <1>same
  DEF LoopStep, lifeVars, Loop!Body, Loop!Turn, Loop!ReleaseClaim, Loop!WriteFinalizers,
      Loop!RetryFinalizers, Loop!RemoveClaim, Loop!Finish, Loop!Goto
<1>7. CASE LoopStops
  <2>1. /\ array' = <<>> /\ len' = 0 /\ UNCHANGED <<list, matching>> /\ cache' \in {list, cache}
    BY <1>7, StopsFrame
  <2>2. copy' \in {copy, <<>>} /\ newList' \in {newList, <<>>}
    BY <1>7
    DEF LoopStops, LoopRefused, LoopEnds, ContentCallFails, RestartAll, MembersIdle
  <2>3. Loop!Members(array') \subseteq matching' /\ SliceDistinct'
    BY <1>lists, <2>1 DEF SliceDistinct, Proper
  <2>4. Proper(list)' /\ Proper(cache)' /\ Proper(copy)' /\ Proper(newList)'
    BY <1>lists, <2>1, <2>2 DEF Proper
  <2> QED BY <2>3, <2>4 DEF ListsInv
<1>8. CASE ClaimStep
  BY <1>8, <1>same
  DEF ClaimStep, lifeVars, Loop!Claims, Loop!UserDeletesClaim, Loop!OtherAdds, Loop!OtherRemoves,
      Loop!ClaimGoes, Loop!Moves
<1>9. ASSUME NEW c \in ContentNames, VGCTaken(c) \/ VGCBound(c) \/ SyncContent(c)
      PROVE  ListsInv'
  BY <1>9, <1>same DEF VGCTaken, VGCBound, Copies, SyncContent, Loop!Sync, lifeVars
<1> QED BY <1>1, <1>2, <1>3, <1>4, <1>5, <1>6, <1>7, <1>8, <1>9, ReleaseSteps DEF Writes, LoopStep

\* What the loop relies on, together.
ReleaseInv ==
    /\ ReleaseTypeOK /\ LifeInv /\ RetireInv /\ GoingInv
    /\ PlaceInv /\ DoneInv /\ WorkInv /\ ListsInv

LEMMA InitRelease == ReleaseInit => ReleaseInv
<1> SUFFICES ASSUME ReleaseInit PROVE ReleaseInv
  OBVIOUS
<1>1. ReleaseTypeOK /\ LifeInv
  BY InitReleaseType, InitType, InitInv, InitOwner, InitBacked DEF ReleaseInit, LifeInv
<1>2. /\ vgcs[Content] = NoObj /\ vgcCache[Content] = NoObj /\ vgcPc = "idle" /\ vgPc = "idle"
      /\ \A n \in Names : vgCache[n] = NoObj
      /\ pc = "idle" /\ list = <<>> /\ fin = {}
  BY ReleaseAssumption DEF ReleaseInit, Init, Loop!LoopInit
<1>3. RetireInv /\ GoingInv
  BY <1>2 DEF RetireInv, GoingInv, VGCRemoveSteps
<1>4. PlaceInv /\ DoneInv /\ WorkInv
  BY <1>2 DEF PlaceInv, DoneInv, WorkInv
<1>5. ListsInv
  <2>1. /\ list = <<>> /\ cache = <<>> /\ copy = <<>> /\ newList = <<>> /\ array = <<>> /\ len = 0
    BY DEF ReleaseInit, Loop!LoopInit
  <2>2. Proper(<<>>) /\ Loop!Members(<<>>) = {}
    BY ListFacts DEF Proper, Loop!Distinct, Loop!Members
  <2> QED BY <2>1, <2>2 DEF ListsInv, SliceDistinct
<1> QED BY <1>1, <1>3, <1>4, <1>5 DEF ReleaseInv

LEMMA NextRelease ==
    ASSUME NamesUnguessed, Content \in DynamicContents \ UserDeletes
    PROVE  ReleaseInv /\ [ReleaseNext]_allVars => ReleaseInv'
BY ReleaseIsLife, NextReleaseType, StepLife, StepRetire, StepGoing, StepPlace, StepDone, StepWork,
   StepLists
DEF ReleaseInv

LEMMA ReleaseKnown ==
    ASSUME NamesUnguessed, Content \in DynamicContents \ UserDeletes
    PROVE  ReleaseSpec => []ReleaseInv
BY InitRelease, NextRelease, PTL DEF ReleaseSpec

\* A volume that the loop takes off the list is done with, although the list
\* it writes is made from a copy that others have overtaken.  No user deletes
\* the content or names it before it is made.
THEOREM RemovedIsDone ==
    ASSUME NamesUnguessed, Content \in DynamicContents \ UserDeletes
    PROVE  ReleaseSpec => LeavesDeleted
<1>1. ReleaseInv /\ [ReleaseNext]_allVars
        => [\A pv \in Loop!Members(list) \ Loop!Members(list') :
              pc = "removePV" => claim[pv] # "present" /\ pv \notin fin \ Shared]_allVars
  <2> SUFFICES ASSUME ReleaseInv, [ReleaseNext]_allVars,
                      NEW pv \in Loop!Members(list) \ Loop!Members(list'), pc = "removePV"
               PROVE  Finished(pv)
    BY DEF Finished
  <2>1. /\ ReleaseTypeOK /\ LifeInv /\ RetireInv /\ PlaceInv /\ DoneInv /\ WorkInv /\ InLoop
    BY DEF ReleaseInv, PlaceInv
  <2>2. pv \in PVs
    <3>1. list \in Loop!Lists
      BY <2>1 DEF ReleaseTypeOK, Loop!TypeOK
    <3> QED BY <3>1, ListFacts DEF Loop!Members
  <2>3. list' # list /\ list # <<>>
    BY ListFacts DEF Loop!Members
  <2>4. ~Writes
    BY <2>1, MembersAlone, WritesFrame
  <2>5. vgcs[Content] # NoObj
    BY <2>1, <2>3 DEF WorkInv
  <2>6. ~OutsideLoop
    BY <2>1 DEF OutsideLoop
  <2>7. CASE vgcs'[Content] # NoObj
    BY <2>1, <2>2, <2>4, <2>5, <2>7, ListMoves
  <2>8. CASE vgcs'[Content] = NoObj
    <3>1. list' = list \/ vgcs' = vgcs
      BY <2>4, <2>6, ReleaseSteps, StopsFrame
      DEF Away, listVars, LoopStep, ClaimStep, lifeVars, apiVars, VGCTaken, VGCBound,
          Copies, SyncContent, Loop!Sync, Loop!listVars
    <3> QED BY <2>3, <2>5, <2>8, <3>1
  <2> QED BY <2>7, <2>8
<1> QED BY <1>1, ReleaseKnown, PTL DEF ReleaseSpec, LeavesDeleted

-----------------------------------------------------------------------------
(***************************************************************************)
(* Groups of one or two volumes, with --disable-delete-pvcs off: the loop  *)
(* skips none.                                                             *)
(***************************************************************************)

\* A list without duplicates is no longer than the set it is made from.
LEMMA ShortList ==
    ASSUME matching \in Matches, Small, NEW s \in Loop!Lists, Proper(s)
    PROVE  Len(s) <= 2
<1> SUFFICES ASSUME ~(Len(s) <= 2) PROVE FALSE
  OBVIOUS
<1>1. s \in Loop!Lists /\ Loop!Distinct(s) /\ Loop!Members(s) \subseteq matching
  BY DEF Proper
<1>2. Len(s) \in Nat /\ DOMAIN s = 1 .. Len(s)
  BY <1>1, ListFacts, ReleaseAssumption
<1>3. 1 \in DOMAIN s /\ 2 \in DOMAIN s /\ 3 \in DOMAIN s
  BY <1>2
<1>4. PICK a, b, c : a = s[1] /\ b = s[2] /\ c = s[3]
  OBVIOUS
<1>5. a # b /\ a # c /\ b # c /\ {a} \cup {b} \cup {c} \subseteq matching
  BY <1>1, <1>3, <1>4 DEF Loop!Distinct, Loop!Members
<1>6. ASSUME NEW S, IsFiniteSet(S), NEW x, x \notin S
      PROVE  IsFiniteSet(S \cup {x}) /\ Cardinality(S \cup {x}) = Cardinality(S) + 1
  BY <1>6, FS_AddElement, Zenon
<1>7. Cardinality({a} \cup {b} \cup {c}) = 3
  <2>1. IsFiniteSet({a}) /\ Cardinality({a}) = 1
    BY FS_Singleton, Zenon
  <2>2. b \notin {a} /\ c \notin {a} \cup {b}
    BY <1>5
  <2>3. IsFiniteSet({a} \cup {b}) /\ Cardinality({a} \cup {b}) = Cardinality({a}) + 1
    BY <1>6, <2>1, <2>2, Zenon
  <2>4. Cardinality({a} \cup {b} \cup {c}) = Cardinality({a} \cup {b}) + 1
    BY <1>6, <2>2, <2>3, Zenon
  <2>5. \A x, y, z : x = 1 /\ y = x + 1 /\ z = y + 1 => z = 3
    OBVIOUS
  <2> QED BY <2>1, <2>3, <2>4, <2>5, Zenon
<1>8. IsFiniteSet(matching)
  BY ReleaseAssumption
<1>9. Cardinality(matching) \in Nat /\ Cardinality(matching) <= 2
  BY <1>8, FS_CardinalityType DEF Small
<1>10. ASSUME NEW S \in SUBSET matching PROVE Cardinality(S) <= Cardinality(matching)
  BY <1>8, FS_Subset
<1>11. Cardinality({a} \cup {b} \cup {c}) <= Cardinality(matching)
  BY <1>5, <1>10
<1>12. \A x, y : x = 3 /\ x <= y /\ y \in Nat /\ y <= 2 => FALSE
  OBVIOUS
<1> QED BY <1>7, <1>9, <1>11, <1>12, Zenon

\* The worker gets past the loop only through its end.
LEMMA PastLoop ==
    ASSUME ~DisableDeletePvcs, [ReleaseNext]_allVars,
           vgcReq' = Content, vgcPc' \in {"removeContent", "removeFinalizer"}
    PROVE  \/ vgcReq = Content /\ vgcPc \in {"removeContent", "removeFinalizer"}
           \/ pc = "done"
<1>1. CASE UNCHANGED vgcWorker
  BY <1>1 DEF vgcWorker
<1>2. CASE OutsideLoop
  <2>1. VGCAddFinalizer => vgcPc' \notin {"removeContent", "removeFinalizer"}
    BY DEF VGCAddFinalizer, VGCGoto, GroupStep
  <2>2. VGCDeletePVCs => InLoop
    BY DEF VGCDeletePVCs, VGCGoto, InLoop
  <2> QED
    BY <1>2, <2>1, <2>2
    DEF OutsideLoop, VGCStep, VGCThinSpec, VGCStaticSpec, FreshSpecUpdate,
        VGCThinStatus, VGCReadyStatus, StatusUpdate, VGCCreateGroup,
        VGCSetHandle, VGCCheckOwner, VGCRemoveContent, VGCRemoveFinalizer,
        VGCRetry, VGCRefused, VGCGoto, VGCDone, VGCRequeue, VGCIdle, VGCRetrySteps
<1>3. CASE LoopStops
  BY <1>3
  DEF LoopStops, LoopRefused, LoopEnds, ContentCallFails, RestartAll, Restart, VGCCallFails,
      VGCRequeue, VGCIdle
<1>4. ASSUME NEW c \in ContentNames, VGCTaken(c) \/ VGCBound(c) PROVE FALSE
  <2>1. VGCReconcile(c)
    BY <1>4 DEF VGCTaken, VGCBound, VGCStart, BindingEvent
  <2> QED BY <2>1 DEF VGCReconcile, VGCIdle, ContentStep, GroupStep
<1>5. ASSUME NEW c \in ContentNames, SyncContent(c) PROVE UNCHANGED vgcWorker
  BY <1>5 DEF SyncContent, SyncVGC, WorkersFrame, lifeVars
<1>6. Away \/ Writes \/ LoopStep \/ ClaimStep => UNCHANGED vgcWorker
  BY WritesFrame DEF Away, LoopStep, ClaimStep, lifeVars
<1> QED BY <1>1, <1>2, <1>3, <1>4, <1>5, <1>6, ReleaseSteps

LEMMA StepLeft ==
    ASSUME NamesUnguessed, Content \in DynamicContents \ UserDeletes, ~DisableDeletePvcs,
           ReleaseInv, LeftInv, [ReleaseNext]_allVars
    PROVE  LeftInv'
<1> USE DEF loopVars, listVars, claimVars, Loop!loopVars, Loop!listVars, Loop!claimVars
<1>inv. /\ ReleaseTypeOK /\ LifeInv /\ RetireInv /\ PlaceInv /\ DoneInv /\ WorkInv /\ ListsInv
        /\ ReleaseTypeOK'
  BY NextRelease DEF ReleaseInv
<1>type. /\ Loop!TypeOK /\ matching \in Matches /\ i \in Nat
         /\ array \in Loop!Lists /\ Len(array) \in Nat /\ DOMAIN array = 1 .. Len(array)
         /\ copy \in Loop!Lists /\ DOMAIN copy = 1 .. Len(copy) /\ Len(copy) \in Nat
         /\ Loop!Members(list) \subseteq PVs /\ Loop!Members(list') \subseteq PVs
  <2>1. list \in Loop!Lists /\ list' \in Loop!Lists
    BY <1>inv DEF ReleaseTypeOK, Loop!TypeOK
  <2>2. Loop!Members(list) \subseteq PVs /\ Loop!Members(list') \subseteq PVs
    BY <2>1, ListFacts DEF Loop!Members
  <2> QED BY <1>inv, <2>2, ListFacts DEF ReleaseTypeOK, Loop!TypeOK
<1>match. matching' = matching
  BY ReleaseSteps, WritesFrame, StopsFrame
  DEF Away, LoopStep, ClaimStep, lifeVars, OutsideLoop, VGCTaken, VGCBound, Copies, SyncContent
<1> SUFFICES ASSUME Small PROVE LeftInv'
  BY <1>match DEF LeftInv, Small
<1>left. /\ Len(array) <= 2
         /\ pc # "idle" =>
              /\ i > 0
              /\ \A pv \in Loop!Members(list) :
                   Finished(pv) \/ \E k \in i .. Len(array) : array[k] = pv
         /\ pc = "done" => AllFinished
         /\ vgcReq = Content /\ vgcPc \in {"removeContent", "removeFinalizer"} => AllFinished
  BY DEF LeftInv
<1>past. ASSUME vgcReq' = Content, vgcPc' \in {"removeContent", "removeFinalizer"}
         PROVE  AllFinished
  BY <1>left, <1>past, PastLoop
<1>stays. \A pv \in PVs : Finished(pv) => Finished(pv)'
  BY <1>inv, FinishedStays
<1>all. ASSUME AllFinished, Loop!Members(list') \subseteq Loop!Members(list)
        PROVE  AllFinished'
  BY <1>all, <1>type, <1>stays DEF AllFinished
\* The loop is at its place, so the worker is not past it.
<1>here. ASSUME InLoop PROVE ~(vgcReq = Content /\ vgcPc \in {"removeContent", "removeFinalizer"})
  BY <1>here DEF InLoop
\* What is left to do is in every list.
<1>todo. ASSUME NEW pv \in Loop!Members(list), ~Finished(pv), InLoop
         PROVE  pv \in Loop!Members(copy)
  <2>1. list # <<>>
    BY ListFacts DEF Loop!Members
  <2> QED BY <1>inv, <1>type, <1>todo, <2>1 DEF WorkInv, SameWork, InLoop
<1>1. CASE Writes
  <2>1. /\ UNCHANGED <<pc, array, vgcPc, vgcReq>> /\ AtMembers
    BY <1>1, WritesFrame DEF vgcWorker
  <2>2. pc = "idle" /\ ~(vgcReq = Content /\ vgcPc \in VGCRemoveSteps)
    BY <1>inv, <2>1, MembersSet, MembersAlone
  <2> QED BY <1>left, <2>1, <2>2 DEF LeftInv, VGCRemoveSteps
<1>2. CASE LoopStep /\ Loop!RemovePV
  <2>1. /\ pc = "removePV" /\ pc' = "next" /\ i' = i + 1 /\ UNCHANGED <<claim, fin>>
        /\ UNCHANGED <<vgcPc, vgcReq>> /\ InLoop /\ vgcs[Content] # NoObj
    BY <1>2
    DEF LoopStep, Loop!BeginWith, Loop!Body, Loop!Turn, Loop!ReleaseClaim, Loop!WriteFinalizers,
        Loop!RetryFinalizers, Loop!RemoveClaim, Loop!Finish, Loop!RemovePV, lifeVars, vgcWorker
  <2>2. /\ Len(array') = Len(array)
        /\ Len(array) > 0 => array'[Len(array)] = array[Len(array)]
        /\ \A pv \in PVs : pv # array[i] => (pv \in Loop!Members(list') <=> pv \in Slice)
    BY <1>2, <1>type, <2>1, RemovedPV
  <2>3. i \in 1 .. Len(array) /\ Finished(array[i]) /\ SameWork(Slice)
    BY <1>inv, <1>type, <2>1 DEF Loop!TypeOK, Loop!LoopSteps, DoneInv, WorkInv
  <2>4. ASSUME NEW pv \in Loop!Members(list'), ~Finished(pv)'
        PROVE  \E k \in i' .. Len(array') : array'[k] = pv
    <3>1. pv \in PVs /\ ~Finished(pv) /\ pv # array[i]
      BY <1>type, <2>1, <2>3, <2>4 DEF Finished
    <3>2. pv \in Loop!Members(list)
      BY <2>2, <2>3, <2>4, <3>1 DEF SameWork
    <3>3. PICK k \in i .. Len(array) : array[k] = pv
      BY <1>left, <2>1, <3>1, <3>2
    <3>4. k # i
      BY <3>1, <3>3
    <3>5. k = Len(array) /\ k \in i' .. Len(array')
      <4>1. ASSUME NEW n \in Nat, NEW j \in 1 .. n, NEW m \in j .. n, n <= 2, m # j
            PROVE  m = n /\ m \in j + 1 .. n
        BY <4>1
      <4>2. k = Len(array) /\ k \in i + 1 .. Len(array)
        BY <1>type, <1>left, <2>3, <3>3, <3>4, <4>1
      <4> QED BY <2>1, <2>2, <4>2
    <3> QED BY <1>type, <2>2, <2>3, <3>3, <3>5
  <2>5. i' > 0
    BY <1>type, <2>1
  <2> QED BY <1>left, <1>here, <2>1, <2>2, <2>4, <2>5 DEF LeftInv
<1>3. CASE LoopStep /\ Loop!BeginWith(copy)
  <2>1. /\ pc' = "next" /\ i' = 1 /\ array' = copy /\ UNCHANGED <<list, claim, fin>>
        /\ UNCHANGED <<vgcPc, vgcReq>> /\ InLoop
    BY <1>3 DEF LoopStep, Loop!BeginWith, lifeVars, vgcWorker
  <2>2. ASSUME NEW pv \in Loop!Members(list'), ~Finished(pv)'
        PROVE  \E k \in i' .. Len(array') : array'[k] = pv
    <3>1. pv \in Loop!Members(copy)
      BY <1>todo, <2>1, <2>2 DEF Finished
    <3> QED BY <1>type, <2>1, <3>1 DEF Loop!Members
  <2>3. Len(array') <= 2
    BY <1>inv, <1>type, <2>1, ShortList DEF ListsInv
  <2> QED BY <1>here, <2>1, <2>2, <2>3 DEF LeftInv
<1>4. CASE LoopStep /\ Loop!Body
  <2>1. /\ UNCHANGED <<list, array, vgcPc, vgcReq>> /\ pc # "idle" /\ InLoop
    BY <1>4
    DEF LoopStep, lifeVars, vgcWorker, Loop!Body, Loop!Turn, Loop!ReleaseClaim,
        Loop!WriteFinalizers, Loop!RetryFinalizers, Loop!RemoveClaim, Loop!Finish, Loop!Goto
  <2>2. CASE i' = i /\ pc' # "done"
    <3>1. ASSUME NEW pv \in Loop!Members(list')
          PROVE  Finished(pv)' \/ \E k \in i' .. Len(array') : array'[k] = pv
      BY <1>left, <1>stays, <1>type, <2>1, <2>2
    <3> QED BY <1>left, <1>here, <2>1, <2>2, <3>1 DEF LeftInv
  <2>3. CASE Loop!Turn /\ i' = i + 1
    <3>1. i \in DOMAIN array /\ claim[array[i]] = "gone" /\ pc' = "next"
      BY <1>type, <2>3 DEF Loop!Turn, Loop!Goto
    <3>2. ASSUME NEW pv \in Loop!Members(list')
          PROVE  Finished(pv)' \/ \E k \in i' .. Len(array') : array'[k] = pv
      <4>1. CASE Finished(pv)
        BY <1>stays, <1>type, <4>1
      <4>2. CASE ~Finished(pv)
        <5>1. PICK k \in i .. Len(array) : array[k] = pv
          BY <1>left, <2>1, <4>2
        <5>2. k # i
          BY <1>inv, <3>1, <4>2, <5>1 DEF PlaceInv, Finished
        <5> QED BY <1>type, <2>1, <2>3, <5>1, <5>2
      <4> QED BY <4>1, <4>2
    <3>3. i' > 0
      BY <1>type, <2>3
    <3> QED BY <1>left, <1>here, <2>1, <3>1, <3>2, <3>3 DEF LeftInv
  <2>4. CASE Loop!Finish
    <3>1. i' = i /\ i \notin DOMAIN array
      BY <2>4 DEF Loop!Finish, Loop!Goto
    <3>2. AllFinished
      BY <1>left, <1>type, <2>1, <3>1 DEF AllFinished
    <3>3. AllFinished'
      BY <1>all, <2>1, <3>2
    <3> QED BY <1>left, <1>here, <2>1, <3>1, <3>3 DEF LeftInv, AllFinished
  <2> QED
    BY <1>4, <2>2, <2>3, <2>4
    DEF Loop!Body, Loop!Turn, Loop!ReleaseClaim, Loop!WriteFinalizers, Loop!RetryFinalizers,
        Loop!RemoveClaim, Loop!Goto
<1>5. ASSUME pc' = "idle", Loop!Members(list') \subseteq Loop!Members(list), Len(array') <= 2
      PROVE  LeftInv'
  BY <1>5, <1>past, <1>all DEF LeftInv
<1>6. CASE LoopStops
  <2>1. pc' = "idle" /\ list' = list /\ Len(array') <= 2
    BY <1>6, StopsFrame, ListFacts
  <2> QED BY <1>5, <2>1
<1>7. CASE OutsideLoop
  <2>1. /\ pc' = "idle" /\ UNCHANGED array /\ list' \in {list, <<>>}
    BY <1>7, <1>inv DEF OutsideLoop, PlaceInv
  <2>2. Loop!Members(<<>>) = {}
    BY ListFacts DEF Loop!Members
  <2>3. Loop!Members(list') \subseteq Loop!Members(list)
    BY <2>1, <2>2
  <2> QED BY <1>5, <1>left, <2>1, <2>3
<1>8. ASSUME UNCHANGED <<list, pc, i, array>> PROVE LeftInv'
  <2>1. AllFinished => AllFinished'
    BY <1>8, <1>all
  <2>2. ASSUME pc # "idle", NEW pv \in Loop!Members(list')
        PROVE  Finished(pv)' \/ \E k \in i' .. Len(array') : array'[k] = pv
    BY <1>left, <1>stays, <1>type, <1>8, <2>2
  <2> QED BY <1>left, <1>past, <1>8, <2>1, <2>2 DEF LeftInv
<1>9. CASE Away \/ ClaimStep
  BY <1>8, <1>9
  DEF Away, ClaimStep, lifeVars, Loop!Claims, Loop!UserDeletesClaim, Loop!OtherAdds,
      Loop!OtherRemoves, Loop!ClaimGoes, Loop!Moves
<1>10. ASSUME NEW c \in ContentNames, VGCTaken(c) \/ VGCBound(c) \/ SyncContent(c)
       PROVE  LeftInv'
  BY <1>8, <1>10 DEF VGCTaken, VGCBound, Copies, SyncContent, Loop!Sync, lifeVars
<1> QED BY <1>1, <1>2, <1>3, <1>4, <1>6, <1>7, <1>9, <1>10, ReleaseSteps DEF LoopStep

LEMMA LeftKnown ==
    ASSUME NamesUnguessed, Content \in DynamicContents \ UserDeletes, ~DisableDeletePvcs
    PROVE  ReleaseSpec => []LeftInv
<1>1. ReleaseInit => LeftInv
  <2> SUFFICES ASSUME ReleaseInit PROVE LeftInv
    OBVIOUS
  <2>1. array = <<>> /\ pc = "idle" /\ vgcPc = "idle"
    BY DEF ReleaseInit, Init, Loop!LoopInit
  <2>2. Len(<<>>) <= 2
    BY ListFacts
  <2> QED BY <2>1, <2>2 DEF LeftInv
<1>2. ReleaseInv /\ LeftInv /\ [ReleaseNext]_allVars => LeftInv'
  BY StepLeft
<1> QED BY <1>1, <1>2, ReleaseKnown, PTL DEF ReleaseSpec

\* In a group of one or two volumes the driver deletes the group only when the
\* content's list holds no volume that the loop has still to do, whatever list
\* the worker's copy was and however the slice moved under the loop.
THEOREM GroupGoesLast ==
    ASSUME NamesUnguessed, Content \in DynamicContents \ UserDeletes, ~DisableDeletePvcs
    PROVE  ReleaseSpec => ClaimsBeforeGroup
<1>1. ReleaseInv /\ LeftInv /\ [ReleaseNext]_allVars
        => [Small /\ Content \in groups \ groups'
              => \A pv \in Loop!Members(list) :
                    claim[pv] # "present" /\ pv \notin fin \ Shared]_allVars
  <2> SUFFICES ASSUME ReleaseInv, LeftInv, [ReleaseNext]_allVars, Small,
                      Content \in groups \ groups'
               PROVE  AllFinished
    BY DEF AllFinished, Finished
  <2>1. vgcPc = "removeContent" /\ vgcReq = Content
    BY ReleaseIsLife
    DEF LifeStep, LoopRequeue, MembersRequeue, Next, vars, User, Watches, Restart, CreateVG,
        DeleteVG, DeleteVGC, CreateStaticVGC, SyncVG, SyncVGC, WorkersFrame, VGController, VGStep,
        VGStart, PVCEvent, VGReconcile, VGAddFinalizer, VGCreateContent, VGCheckReady, VGSetContent,
        VGSetStatus, VGConfirmStatus, VGBindContent, VGMembers, VGDeleteContent,
        VGRemoveFinalizer, VGRetry, VGRefused, VGCallFails, VGFrame, VGCController,
        VGCStep, VGCStart, BindingEvent, VGCReconcile, VGCThinSpec, VGCStaticSpec,
        FreshSpecUpdate, VGCThinStatus, VGCReadyStatus, StatusUpdate, VGCAddFinalizer,
        VGCCreateGroup, VGCSetHandle, VGCCheckOwner, VGCDeletePVCs, VGCRemoveContent,
        VGCRemoveFinalizer, VGCRetry, VGCRefused, VGCCallFails
  <2> QED BY <2>1 DEF LeftInv
<1> QED BY <1>1, ReleaseKnown, LeftKnown, PTL DEF ReleaseSpec, ClaimsBeforeGroup
=============================================================================
