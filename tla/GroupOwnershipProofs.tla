------------------------ MODULE GroupOwnershipProofs ------------------------
(***************************************************************************)
(* A VolumeGroup, the content generated for it and the group on the        *)
(* storage system stay together: proofs of ReadyIsBacked and               *)
(* DeletesOnlyReleased, for every value of the constants.                  *)
(*                                                                         *)
(* OwnerInv is about VolumeGroups alone and proved first; BackedInv, about *)
(* contents and handles, builds on it and on FinalizerInv.                 *)
(***************************************************************************)
EXTENDS GroupLifecycleProofs

\* The name of a content tells the uid it was made from.
LEMMA UidOfName ==
    /\ \A u, v \in UIDs : MakeVGName(u) = MakeVGName(v) => u = v
    /\ \A u \in UIDs : MakeVGName(u) \in ContentNames /\ MakeVGName(u) # NoName
BY NameFacts DEF MakeVGName

\* What a step may do to VolumeGroups: a uid keeps its name, an object keeps
\* its uid, and a deletion stands, until it goes, a new one has a new uid, and
\* the cache only moves on.
GroupsMoveOn ==
    /\ \A u \in UIDs : nameOf[u] # NoName => nameOf'[u] = nameOf[u]
    /\ \A n \in Names : \/ vgs'[n] = NoObj
                        \/ /\ vgs[n] # NoObj /\ vgs'[n].uid = vgs[n].uid
                           /\ vgs[n].deleting => vgs'[n].deleting
                        \/ nameOf[vgs'[n].uid] = NoName
    /\ \A n \in Names : vgCache'[n] \in {vgCache[n], vgs[n]}

\* Writing back a copy of a VolumeGroup keeps its uid.
LEMMA WriteMovesOn ==
    ASSUME TypeOK, NEW n \in Names, vgs[n] # NoObj, NEW new \in VG \cup {NoObj},
           new # NoObj => new.uid = vgs[n].uid /\ (vgs[n].deleting => new.deleting),
           vgs' = [vgs EXCEPT ![n] = new], nameOf' = nameOf, vgCache' = vgCache
    PROVE  GroupsMoveOn
BY DEF TypeOK, GroupsMoveOn

\* Removing an object, or its finalizer, changes nothing else of it.
LEMMA RemovedGroup ==
    ASSUME NEW vg \in VG
    PROVE  /\ Deleted(vg) # NoObj =>
                /\ vg.fin /\ Deleted(vg) = [vg EXCEPT !.deleting = TRUE]
                /\ Deleted(vg).uid = vg.uid /\ Deleted(vg).content = vg.content
                /\ Deleted(vg).fin /\ Deleted(vg).deleting /\ Deleted(vg).ready = vg.ready
           /\ Released(vg) # NoObj =>
                /\ ~vg.deleting /\ Released(vg) = [vg EXCEPT !.fin = FALSE]
                /\ Released(vg).uid = vg.uid /\ Released(vg).content = vg.content
                /\ ~Released(vg).fin /\ ~Released(vg).deleting /\ Released(vg).ready = vg.ready
           /\ vg.fin => Deleted(vg) # NoObj
           /\ vg.deleting => Released(vg) = NoObj
BY NameFacts DEF Deleted, Released, VG

\* Every step moves VolumeGroups on.
LEMMA NextMovesOn == TypeOK /\ [Next]_vars => GroupsMoveOn
<1> SUFFICES ASSUME TypeOK, [Next]_vars PROVE GroupsMoveOn
  OBVIOUS
<1>same. ASSUME vgs' = vgs, nameOf' = nameOf,
                \A n \in Names : vgCache'[n] \in {vgCache[n], vgs[n]}
         PROVE  GroupsMoveOn
  BY <1>same DEF GroupsMoveOn
<1>1. CASE UNCHANGED vars \/ VGCController
  BY <1>1, <1>same
  DEF vars, apiVars, cacheVars, VGCController, VGCStep, VGCStart, BindingEvent,
      VGCReconcile, VGCThinSpec, VGCStaticSpec, FreshSpecUpdate, VGCThinStatus,
      VGCReadyStatus, StatusUpdate, VGCAddFinalizer, VGCCreateGroup, VGCSetHandle,
      VGCCheckOwner, VGCDeletePVCs, VGCRemoveContent, VGCRemoveFinalizer, VGCRetry,
      VGCRefused, VGCCallFails, VGCFrame
<1>2. CASE VGController
  <2>1. vgCache' = vgCache /\ nameOf' = nameOf
    BY <1>2 DEF VGController, VGStep, VGStart, PVCEvent, VGReconcile, VGAddFinalizer,
         VGCreateContent, VGCheckReady, VGSetContent, VGSetStatus, VGConfirmStatus,
         VGBindContent, VGMembers, VGDeleteContent, VGRemoveFinalizer, VGRetry,
         VGRefused, VGCallFails, VGFrame, cacheVars
  <2>2. CASE vgs' = vgs
    BY <1>same, <2>1, <2>2
  <2>3. ASSUME NEW new \in VG \cup {NoObj},
               new # NoObj => new.uid = vgObj.uid /\ (vgObj.deleting => new.deleting),
               VGCurrent, VGWrite(new), vgReq \in Names, vgObj \in VG
        PROVE  GroupsMoveOn
    BY <2>1, <2>3, NameFacts, WriteMovesOn DEF VGCurrent, VGWrite
  <2>4. vgPc # "idle" => vgReq \in Names /\ vgObj \in VG
    BY DEF TypeOK
  <2>5. CASE VGAddFinalizer
    <3>1. /\ [vgObj EXCEPT !.fin = TRUE] \in VG /\ [vgObj EXCEPT !.fin = TRUE].uid = vgObj.uid
          /\ [vgObj EXCEPT !.fin = TRUE].deleting = vgObj.deleting
      BY <1>2, <2>4, <2>5 DEF VGAddFinalizer, VG
    <3> QED BY <2>3, <2>4, <2>5, <3>1 DEF VGAddFinalizer
  <2>6. CASE VGSetContent
    <3> DEFINE vg == [vgObj EXCEPT !.content = IF vgStatic THEN @ ELSE MakeVGName(vgObj.uid)]
    <3>1. vgObj \in VG /\ vgReq \in Names
      BY <2>4, <2>6 DEF VGSetContent
    <3>2. vg \in VG /\ vg.uid = vgObj.uid /\ vg.deleting = vgObj.deleting
      BY <3>1, NameFacts DEF VG
    <3>3. VGCurrent /\ VGWrite(vg)
      BY <2>6 DEF VGSetContent
    <3> HIDE DEF vg
    <3> QED BY <2>3, <3>1, <3>2, <3>3
  <2>7. CASE VGSetStatus
    <3>1. /\ [vgObj EXCEPT !.ready = TRUE] \in VG
          /\ [vgObj EXCEPT !.ready = TRUE].uid = vgObj.uid
          /\ [vgObj EXCEPT !.ready = TRUE].deleting = vgObj.deleting
      BY <2>4, <2>7 DEF VGSetStatus, VG
    <3> QED BY <2>3, <2>4, <2>7, <3>1 DEF VGSetStatus
  <2>8. CASE VGRemoveFinalizer
    BY <2>3, <2>4, <2>8, RemovalFacts, RemovedGroup DEF VGRemoveFinalizer
  <2> QED
    BY <1>2, <2>2, <2>5, <2>6, <2>7, <2>8
    DEF VGController, VGStep, VGStart, PVCEvent, VGReconcile, VGCreateContent,
        VGCheckReady, VGConfirmStatus, VGBindContent, VGMembers, VGDeleteContent,
        VGRetry, VGRefused, VGCallFails, apiVars
<1>3. CASE User
  <2>1. ASSUME NEW n \in Names, NEW u \in UIDs, NEW content \in SourceContents,
               CreateVG(n, u, content)
        PROVE  GroupsMoveOn
    BY <2>1 DEF CreateVG, GroupsMoveOn, cacheVars, TypeOK
  <2>2. ASSUME NEW n \in Names, DeleteVG(n) PROVE GroupsMoveOn
    <3>1. vgs[n] \in VG /\ Deleted(vgs[n]) \in VG \cup {NoObj}
      BY <2>2, RemovalFacts DEF DeleteVG, TypeOK
    <3> QED BY <2>2, <3>1, RemovedGroup, WriteMovesOn DEF DeleteVG, cacheVars
  <2>3. ASSUME NEW c \in ContentNames, DeleteVGC(c) PROVE GroupsMoveOn
    BY <1>same, <2>3 DEF DeleteVGC, cacheVars
  <2>4. ASSUME NEW c, NEW class, NEW policy, CreateStaticVGC(c, class, policy)
        PROVE  GroupsMoveOn
    BY <1>same, <2>4 DEF CreateStaticVGC, cacheVars
  <2> QED BY <1>3, <2>1, <2>2, <2>3, <2>4 DEF User
<1>4. CASE Watches \/ Restart
  BY <1>4, <1>same DEF Watches, Restart, SyncVG, SyncVGC, apiVars, TypeOK
<1> QED BY <1>1, <1>2, <1>3, <1>4 DEF Next

\* When VolumeGroups move on, one that is gone stays away, and one that has
\* been seen stays seen.
LEMMA SeenStays ==
    ASSUME TypeOK, TypeOK', GroupsMoveOn, NEW u \in UIDs, nameOf[u] # NoName
    PROVE  /\ nameOf'[u] = nameOf[u] /\ nameOf[u] \in Names
           /\ Alive(u)' => Alive(u)
           /\ Seen(u) => Seen(u)'
<1>1. nameOf'[u] = nameOf[u] /\ nameOf[u] \in Names
  BY DEF GroupsMoveOn, TypeOK
<1>2. Alive(u)' => Alive(u)
  BY <1>1 DEF Alive, IsVG, GroupsMoveOn
<1>3. Seen(u) => Seen(u)'
  BY <1>1, <1>2 DEF Seen, Alive, IsVG, GroupsMoveOn
<1> QED BY <1>1, <1>2, <1>3

-----------------------------------------------------------------------------
(***************************************************************************)
(* OwnerInv.                                                               *)
(***************************************************************************)

\* A step that leaves the VolumeGroups and the cache of them alone, by a
\* worker that goes idle, stays, or goes on to another step of provisioning.
LEMMA QuietOwner ==
    ASSUME TypeOK, TypeOK', OwnerInv, vgs' = vgs, vgCache' = vgCache, nameOf' = nameOf,
           \/ vgPc' = "idle"
           \/ vgPc' = vgPc /\ vgReq' = vgReq /\ vgObj' = vgObj
           \/ /\ {vgPc, vgPc'} \subseteq VGProvisionSteps
              /\ vgReq' = vgReq /\ vgObj' = vgObj
           \/ /\ vgPc = "deleteContent" /\ vgPc' = "removeFinalizer"
              /\ vgReq' = vgReq /\ vgObj' = vgObj
    PROVE  OwnerInv'
<1>1. vgPc' # "idle" => vgPc # "idle" /\ vgReq' = vgReq /\ vgObj' = vgObj
  BY DEF VGProvisionSteps
<1>2. UidsNamed'
  BY <1>1 DEF OwnerInv, UidsNamed, Seen, Alive, IsVG
<1>3. GroupProtection'
  BY DEF OwnerInv, GroupProtection, IsVG
<1>4. GroupWorkerInv'
  BY DEF OwnerInv, GroupWorkerInv, VGProvisionSteps, IsVG
<1> QED BY <1>2, <1>3, <1>4 DEF OwnerInv

\* A write by the VolumeGroup worker that keeps uid, finalizer and deletion.
LEMMA WriteOwner ==
    ASSUME TypeOK, TypeOK', OwnerInv, GroupsMoveOn, NEW new \in VG,
           vgPc \in VGProvisionSteps, vgPc' \in VGProvisionSteps, vgs[vgReq] = vgObj,
           new.uid = vgObj.uid, new.fin = vgObj.fin, new.deleting = vgObj.deleting,
           vgs' = [vgs EXCEPT ![vgReq] = new], vgObj' = new, vgReq' = vgReq,
           vgCache' = vgCache, nameOf' = nameOf
    PROVE  OwnerInv'
<1>1. vgReq \in Names /\ vgObj \in VG /\ vgObj # NoObj /\ new # NoObj /\ vgPc # "idle"
  BY NameFacts DEF TypeOK, VGProvisionSteps
<1>2. Seen(new.uid)'
  <2>1. new.uid \in UIDs /\ nameOf[new.uid] # NoName /\ Seen(new.uid)
    BY <1>1, NameFacts DEF OwnerInv, UidsNamed, VG
  <2> QED BY <2>1, SeenStays
<1>3. UidsNamed'
  BY <1>1, <1>2 DEF TypeOK, OwnerInv, UidsNamed
<1>4. GroupProtection'
  BY <1>1 DEF TypeOK, OwnerInv, GroupProtection, Protected, IsVG
<1>5. GroupWorkerInv'
  BY <1>1 DEF TypeOK, OwnerInv, GroupWorkerInv, VGProvisionSteps, IsVG
<1> QED BY <1>3, <1>4, <1>5 DEF OwnerInv

\* The VolumeGroup worker keeps OwnerInv.
LEMMA VGControllerOwner ==
    TypeOK /\ TypeOK' /\ OwnerInv /\ GroupsMoveOn /\ VGController => OwnerInv'
<1> SUFFICES ASSUME TypeOK, TypeOK', OwnerInv, GroupsMoveOn, VGController PROVE OwnerInv'
  OBVIOUS
<1> USE NameFacts
<1>cache. vgCache' = vgCache /\ nameOf' = nameOf
  BY DEF VGController, VGStep, VGStart, PVCEvent, VGReconcile, VGAddFinalizer,
         VGCreateContent, VGCheckReady, VGSetContent, VGSetStatus, VGConfirmStatus,
         VGBindContent, VGMembers, VGDeleteContent, VGRemoveFinalizer, VGRetry,
         VGRefused, VGCallFails, VGFrame, cacheVars
<1>busy. vgPc # "idle" => vgReq \in Names /\ vgObj \in VG /\ vgObj # NoObj /\ vgObj.uid \in UIDs
  BY DEF TypeOK, VG
<1>1. ASSUME NEW n \in Names, VGReconcile(n) PROVE OwnerInv'
  <2>1. vgs' = vgs
    BY <1>1 DEF VGReconcile, apiVars
  <2>2. CASE ReconcileStep(vgCache[n]) = "idle"
    BY <1>1, <1>cache, <2>1, <2>2, QuietOwner DEF VGReconcile, VGIdle
  <2>3. CASE ReconcileStep(vgCache[n]) # "idle"
    <3>1. /\ vgPc' = ReconcileStep(vgCache[n]) /\ vgReq' = n /\ vgObj' = vgCache[n]
          /\ vgCache[n] \in VG /\ vgCache[n] # NoObj /\ vgCache[n].uid \in UIDs
      BY <1>1, <2>3, StepFacts DEF VGReconcile, TypeOK, VG
    <3>2. /\ vgPc' \in VGProvisionSteps => Protected(vgCache[n])
          /\ vgPc' \in {"deleteContent", "removeFinalizer"} => vgCache[n].deleting
          /\ vgPc' = "addFinalizer" => ~vgCache[n].deleting
      BY <3>1 DEF ReconcileStep, ProvisionStep, VGProvisionSteps, Protected, VG
    <3>3. UidsNamed'
      BY <1>cache, <2>1, <3>1 DEF OwnerInv, UidsNamed, Seen, Alive, IsVG
    <3>4. GroupProtection'
      BY <1>cache, <2>1 DEF OwnerInv, GroupProtection, IsVG
    <3>5. GroupWorkerInv'
      BY <1>cache, <2>1, <3>1, <3>2
      DEF OwnerInv, GroupWorkerInv, GroupProtection, Protected, IsVG, VGProvisionSteps
    <3> QED BY <3>3, <3>4, <3>5 DEF OwnerInv
  <2> QED BY <2>2, <2>3
<1>2. ASSUME NEW n \in Names, VGStart(n) \/ PVCEvent(n) PROVE OwnerInv'
  BY <1>1, <1>2 DEF VGStart, PVCEvent
<1>3. CASE VGAddFinalizer
  <2> DEFINE new == [vgObj EXCEPT !.fin = TRUE]
  <2>1. /\ vgPc = "addFinalizer" /\ vgs[vgReq] = vgObj /\ vgs' = [vgs EXCEPT ![vgReq] = new]
        /\ vgObj' = new /\ vgReq' = vgReq /\ vgPc' \in {"createContent", "setContent"}
    BY <1>3 DEF VGAddFinalizer, VGCurrent, VGWrite, ProvisionStep
  <2>2. /\ vgReq \in Names /\ vgObj \in VG /\ vgObj # NoObj /\ new \in VG /\ new # NoObj
        /\ new.uid = vgObj.uid /\ new.fin /\ new.deleting = vgObj.deleting
        /\ vgObj.uid \in UIDs
    BY <1>busy, <2>1 DEF VG
  <2>u. PICK u \in UIDs : u = vgObj.uid
    BY <2>2
  <2>3. Seen(u)'
    <3>1. nameOf[u] # NoName /\ Seen(u)
      BY <2>1, <2>2, <2>u DEF OwnerInv, UidsNamed
    <3> QED BY <3>1, SeenStays
  <2>4. UidsNamed'
    BY <1>cache, <2>1, <2>2, <2>3, <2>u DEF TypeOK, OwnerInv, UidsNamed
  <2>5. GroupProtection'
    BY <1>cache, <2>1, <2>2 DEF TypeOK, OwnerInv, GroupProtection, GroupWorkerInv, Protected, IsVG
  <2>6. GroupWorkerInv'
    BY <1>cache, <2>1, <2>2 DEF TypeOK, GroupWorkerInv, VGProvisionSteps, IsVG
  <2> QED BY <2>4, <2>5, <2>6 DEF OwnerInv
<1>4. CASE VGCreateContent \/ VGCheckReady \/ VGConfirmStatus \/ VGBindContent \/ VGMembers
  BY <1>4, <1>cache, QuietOwner
  DEF VGCreateContent, VGCheckReady, VGConfirmStatus, VGBindContent, VGMembers, VGGoto,
      VGDone, VGRequeue, VGIdle, VGProvisionSteps, apiVars
<1>5. CASE VGSetContent
  <2> DEFINE new == [vgObj EXCEPT !.content = IF vgStatic THEN @ ELSE MakeVGName(vgObj.uid)]
  <2>1. /\ vgPc = "setContent" /\ vgs[vgReq] = vgObj /\ vgs' = [vgs EXCEPT ![vgReq] = new]
        /\ vgObj' = new /\ vgReq' = vgReq /\ vgPc' = "setStatus"
    BY <1>5 DEF VGSetContent, VGCurrent, VGWrite, VGGoto
  <2>2. /\ new \in VG /\ new.uid = vgObj.uid /\ new.fin = vgObj.fin
        /\ new.deleting = vgObj.deleting
    BY <1>busy, <2>1 DEF VG
  <2> HIDE DEF new
  <2> QED BY <1>cache, <2>1, <2>2, WriteOwner DEF VGProvisionSteps
<1>6. CASE VGSetStatus
  <2> DEFINE new == [vgObj EXCEPT !.ready = TRUE]
  <2>1. /\ vgPc = "setStatus" /\ vgs[vgReq] = vgObj /\ vgs' = [vgs EXCEPT ![vgReq] = new]
        /\ vgObj' = new /\ vgReq' = vgReq /\ vgPc' = "confirmStatus"
    BY <1>6 DEF VGSetStatus, VGCurrent, VGWrite, VGGoto
  <2>2. /\ new \in VG /\ new.uid = vgObj.uid /\ new.fin = vgObj.fin
        /\ new.deleting = vgObj.deleting
    BY <1>busy, <2>1 DEF VG
  <2> HIDE DEF new
  <2> QED BY <1>cache, <2>1, <2>2, WriteOwner DEF VGProvisionSteps
<1>7. CASE VGDeleteContent
  BY <1>7, <1>cache, QuietOwner DEF VGDeleteContent, VGGoto, VGRequeue, VGIdle
<1>8. CASE VGRemoveFinalizer
  <2>1. /\ vgPc = "removeFinalizer" /\ vgs[vgReq] = vgObj
        /\ vgs' = [vgs EXCEPT ![vgReq] = Released(vgObj)] /\ vgPc' = "idle"
    BY <1>8 DEF VGRemoveFinalizer, VGCurrent, VGWrite, VGDone, VGIdle
  <2>2. /\ vgReq \in Names /\ vgObj # NoObj /\ vgObj \in VG
        /\ Released(vgObj) # NoObj =>
             /\ Released(vgObj).uid = vgObj.uid
             /\ ~Released(vgObj).fin /\ ~Released(vgObj).deleting
    BY <1>busy, <2>1, RemovedGroup
  <2>3. UidsNamed'
    BY <1>cache, <2>1, <2>2 DEF TypeOK, OwnerInv, UidsNamed
  <2>4. GroupProtection'
    BY <1>cache, <2>1, <2>2 DEF TypeOK, OwnerInv, GroupProtection, GroupWorkerInv, Protected, IsVG
  <2>5. GroupWorkerInv'
    BY <2>1 DEF GroupWorkerInv, VGProvisionSteps
  <2> QED BY <2>3, <2>4, <2>5 DEF OwnerInv
<1>9. CASE VGRetry
  <2>1. /\ vgPc \in VGRetrySteps /\ vgPc # "idle" /\ vgCache[vgReq] # NoObj /\ vgs' = vgs
        /\ vgPc' = vgPc /\ vgReq' = vgReq /\ vgObj' = vgCache[vgReq] /\ vgReq \in Names
    BY <1>9, <1>busy DEF VGRetry, VGRetrySteps, apiVars
  <2>2. UidsNamed'
    BY <1>cache, <2>1 DEF OwnerInv, UidsNamed, Seen, Alive, IsVG
  <2>3. GroupProtection'
    BY <1>cache, <2>1 DEF OwnerInv, GroupProtection, IsVG
  <2>4. vgPc \in VGProvisionSteps => IsVG(vgReq, vgCache[vgReq].uid) /\ vgs[vgReq].fin
    BY <1>busy, <2>1 DEF OwnerInv, GroupWorkerInv, UidsNamed, Seen, Alive, IsVG
  <2>5. GroupWorkerInv'
    BY <1>cache, <2>1, <2>4 DEF OwnerInv, GroupWorkerInv, IsVG
  <2> QED BY <2>2, <2>3, <2>5 DEF OwnerInv
<1>10. CASE VGRefused \/ VGCallFails
  BY <1>10, <1>cache, QuietOwner DEF VGRefused, VGCallFails, VGRequeue, VGIdle, apiVars
<1> QED
  BY <1>2, <1>3, <1>4, <1>5, <1>6, <1>7, <1>8, <1>9, <1>10 DEF VGController, VGStep

\* Everyone else keeps it too.
LEMMA OthersOwner ==
    TypeOK /\ TypeOK' /\ OwnerInv /\ GroupsMoveOn
    /\ (UNCHANGED vars \/ VGCController \/ User \/ Watches \/ Restart) => OwnerInv'
<1> SUFFICES ASSUME TypeOK, TypeOK', OwnerInv, GroupsMoveOn,
                    UNCHANGED vars \/ VGCController \/ User \/ Watches \/ Restart
             PROVE  OwnerInv'
  OBVIOUS
<1> USE NameFacts
<1>busy. vgPc # "idle" =>
           /\ vgReq \in Names /\ vgObj \in VG /\ vgObj # NoObj /\ vgObj.uid \in UIDs
           /\ nameOf[vgObj.uid] = vgReq /\ Seen(vgObj.uid)
           /\ \A u \in UIDs : u = vgObj.uid => nameOf'[u] = vgReq /\ Seen(u)'
  <2>1. vgPc # "idle" =>
           /\ vgReq \in Names /\ vgObj \in VG /\ vgObj # NoObj /\ vgObj.uid \in UIDs
           /\ nameOf[vgObj.uid] = vgReq /\ Seen(vgObj.uid)
    BY DEF TypeOK, VG, OwnerInv, UidsNamed
  <2> QED BY <2>1, SeenStays
<1>frame. ASSUME WorkersFrame
          PROVE  vgPc' = vgPc /\ vgReq' = vgReq /\ vgObj' = vgObj
  BY <1>frame DEF WorkersFrame, vgWorker
<1>1. CASE UNCHANGED vars \/ VGCController
  BY <1>1, QuietOwner
  DEF vars, apiVars, cacheVars, vgWorker, VGCController, VGCStep, VGCStart, BindingEvent,
      VGCReconcile, VGCThinSpec, VGCStaticSpec, FreshSpecUpdate, VGCThinStatus,
      VGCReadyStatus, StatusUpdate, VGCAddFinalizer, VGCCreateGroup, VGCSetHandle,
      VGCCheckOwner, VGCDeletePVCs, VGCRemoveContent, VGCRemoveFinalizer, VGCRetry,
      VGCRefused, VGCCallFails, VGCFrame
<1>2. ASSUME NEW n \in Names, NEW u \in UIDs, NEW content \in SourceContents,
             CreateVG(n, u, content)
      PROVE  OwnerInv'
  <2> DEFINE new == [uid |-> u, deleting |-> FALSE, fin |-> FALSE,
                     content |-> content, ready |-> FALSE]
  <2>1. /\ vgs[n] = NoObj /\ nameOf[u] = NoName /\ nameOf' = [nameOf EXCEPT ![u] = n]
        /\ vgs' = [vgs EXCEPT ![n] = new] /\ vgCache' = vgCache
        /\ vgPc' = vgPc /\ vgReq' = vgReq /\ vgObj' = vgObj
    BY <1>2, <1>frame DEF CreateVG, cacheVars
  <2>2. new \in VG /\ new.uid = u /\ ~new.fin /\ ~new.deleting
    BY <1>2 DEF VG
  <2> HIDE DEF new
  <2>3. UidsNamed'
    BY <1>busy, <2>1, <2>2 DEF TypeOK, OwnerInv, UidsNamed, VG
  <2>4. GroupProtection'
    BY <2>1, <2>2 DEF TypeOK, OwnerInv, GroupProtection, Protected, IsVG
  <2>5. GroupWorkerInv'
    BY <1>busy, <2>1, <2>2
    DEF TypeOK, OwnerInv, GroupWorkerInv, Protected, IsVG, VGProvisionSteps
  <2> QED BY <2>3, <2>4, <2>5 DEF OwnerInv
<1>3. ASSUME NEW n \in Names, DeleteVG(n) PROVE OwnerInv'
  <2> DEFINE new == Deleted(vgs[n])
  <2>1. /\ vgs[n] # NoObj /\ vgs[n] \in VG /\ vgs' = [vgs EXCEPT ![n] = new]
        /\ vgCache' = vgCache /\ nameOf' = nameOf
        /\ vgPc' = vgPc /\ vgReq' = vgReq /\ vgObj' = vgObj
    BY <1>3, <1>frame DEF DeleteVG, cacheVars, TypeOK
  <2>2. /\ new # NoObj => new.uid = vgs[n].uid /\ new.fin /\ new.deleting /\ vgs[n].fin
        /\ vgs[n].fin => new # NoObj
    BY <2>1, RemovedGroup
  <2> HIDE DEF new
  <2>3. UidsNamed'
    BY <1>busy, <2>1, <2>2 DEF TypeOK, OwnerInv, UidsNamed
  <2>4. GroupProtection'
    BY <2>1, <2>2 DEF TypeOK, OwnerInv, GroupProtection, Protected, IsVG
  <2>5. GroupWorkerInv'
    BY <1>busy, <2>1, <2>2
    DEF TypeOK, OwnerInv, GroupWorkerInv, Protected, IsVG, VGProvisionSteps
  <2> QED BY <2>3, <2>4, <2>5 DEF OwnerInv
<1>4. ASSUME NEW c, NEW class, NEW policy,
             CreateStaticVGC(c, class, policy) \/ DeleteVGC(c) \/ SyncVGC(c)
      PROVE  OwnerInv'
  BY <1>4, <1>frame, QuietOwner DEF CreateStaticVGC, DeleteVGC, SyncVGC, apiVars, cacheVars
<1>5. ASSUME NEW n \in Names, SyncVG(n) PROVE OwnerInv'
  <2>1. /\ vgs' = vgs /\ vgCache' = [vgCache EXCEPT ![n] = vgs[n]] /\ nameOf' = nameOf
        /\ vgPc' = vgPc /\ vgReq' = vgReq /\ vgObj' = vgObj
    BY <1>5, <1>frame DEF SyncVG, apiVars
  <2>2. UidsNamed'
    BY <1>busy, <2>1 DEF TypeOK, OwnerInv, UidsNamed
  <2>3. GroupProtection'
    BY <2>1 DEF TypeOK, OwnerInv, GroupProtection, Protected, IsVG
  <2>4. GroupWorkerInv'
    BY <1>busy, <2>1 DEF TypeOK, OwnerInv, GroupProtection, GroupWorkerInv, Protected, IsVG,
                         VGProvisionSteps
  <2> QED BY <2>2, <2>3, <2>4 DEF OwnerInv
<1>6. CASE Restart
  <2>1. vgs' = vgs /\ vgCache' = vgs /\ nameOf' = nameOf /\ vgPc' = "idle"
    BY <1>6 DEF Restart, VGIdle, apiVars
  <2> QED BY <2>1 DEF OwnerInv, UidsNamed, GroupProtection, GroupWorkerInv, Protected, IsVG,
                     VGProvisionSteps
<1> QED BY <1>1, <1>2, <1>3, <1>4, <1>5, <1>6 DEF User, Watches

LEMMA InitOwner == Init => OwnerInv
BY DEF Init, OwnerInv, UidsNamed, GroupProtection, GroupWorkerInv, Protected,
       VGProvisionSteps

LEMMA NextOwner == TypeOK /\ OwnerInv /\ [Next]_vars => OwnerInv'
BY NextType, NextMovesOn, VGControllerOwner, OthersOwner DEF Next

\* OwnerInv is an invariant: while the VolumeGroup worker provisions a group
\* its VolumeGroup is there, under the finalizer, and the cache has shown it.
THEOREM OwnersKnown == Spec => []OwnerInv
BY InitOwner, NextOwner, TypeCorrect, PTL DEF Spec

-----------------------------------------------------------------------------
(***************************************************************************)
(* BackedInv.  Steady says what any step may do to the content generated   *)
(* for a uid and to its group: leave the content alone, write it without   *)
(* losing the finalizer or a handle, remove it when it has no finalizer or *)
(* no VolumeGroup, or create it for a VolumeGroup that is there.           *)
(***************************************************************************)
Steady(u) ==
    LET c == MakeVGName(u)
        old == vgcs[c]
        new == vgcs'[c] IN
      /\ c \in groups /\ Alive(u) => c \in groups'
      /\ \/ new = old
         \/ /\ old # NoObj /\ new # NoObj /\ new.ref = old.ref
            /\ old.fin => new.fin
            /\ old.handle => new.handle
            /\ new.handle => old.handle \/ (new.fin /\ c \in groups')
            /\ new.ready => new.handle
         \/ /\ old # NoObj /\ new = NoObj
            /\ ~old.fin \/ (~Alive(u) /\ vgcPc = "removeFinalizer")
         \/ /\ old = NoObj /\ new # NoObj /\ Alive(u) /\ Seen(u)
            /\ ~new.handle /\ ~new.ready /\ new.ref = nameOf[u]

\* What steady steps keep, whatever the workers do.
LEMMA SteadyStore ==
    ASSUME TypeOK, TypeOK', BackedInv, GroupsMoveOn, \A u \in UIDs : Steady(u)
    PROVE  /\ \A u \in UIDs : nameOf[u] # NoName => nameOf'[u] = nameOf[u]
           /\ \A u \in UIDs : Seen(u) => Seen(u)'
           /\ \A u \in UIDs : nameOf[u] # NoName /\ Alive(u)' => Alive(u)
           /\ \A u \in UIDs : HandleRecorded(u) => HandleRecorded(u)'
           /\ \A u \in UIDs : ContentCopy(u, vgcs[MakeVGName(u)])'
           /\ HandleBacked'
<1>1. ASSUME NEW u \in UIDs
      PROVE  /\ nameOf[u] # NoName => nameOf'[u] = nameOf[u]
             /\ Seen(u) => Seen(u)' /\ nameOf[u] # NoName
             /\ nameOf[u] # NoName /\ Alive(u)' => Alive(u)
  <2>1. nameOf[u] # NoName => /\ nameOf'[u] = nameOf[u]
                              /\ Alive(u)' => Alive(u)
                              /\ Seen(u) => Seen(u)'
    BY SeenStays
  <2> QED BY <2>1 DEF Seen
<1>2. ASSUME NEW u \in UIDs PROVE HandleRecorded(u) => HandleRecorded(u)'
  BY <1>1, <1>2 DEF HandleRecorded, Steady, BackedInv, HandleBacked
<1>3. ASSUME NEW u \in UIDs PROVE ContentCopy(u, vgcs[MakeVGName(u)])'
  <2> DEFINE c == MakeVGName(u)
  <2>1. ContentCopy(u, vgcs[c])
    BY DEF BackedInv, CopiesInv
  <2>2. CASE vgcs'[c] = vgcs[c]
    BY <1>1, <1>2, <2>1, <2>2 DEF ContentCopy, Seen
  <2>3. CASE vgcs[c] # NoObj /\ vgcs'[c] # vgcs[c] /\ vgcs'[c] # NoObj
    <3>1. Seen(u) /\ nameOf[u] # NoName /\ vgcs[c].ref = nameOf[u]
      BY <2>1, <2>3 DEF ContentCopy, Seen
    <3>2. vgcs'[c].ref = vgcs[c].ref /\ (vgcs'[c].ready => vgcs'[c].handle)
      BY <2>3 DEF Steady
    <3> QED BY <1>1, <2>3, <3>1, <3>2 DEF ContentCopy, HandleRecorded
  <2>4. CASE vgcs[c] = NoObj /\ vgcs'[c] # NoObj
    BY <1>1, <2>4 DEF Steady, ContentCopy, Seen
  <2>5. CASE vgcs'[c] = NoObj
    BY <2>5 DEF ContentCopy
  <2> QED BY <2>2, <2>3, <2>4, <2>5
<1>4. HandleBacked'
  <2> SUFFICES ASSUME NEW u \in UIDs, vgcs'[MakeVGName(u)] # NoObj, vgcs'[MakeVGName(u)].handle
               PROVE  /\ vgcs'[MakeVGName(u)].fin
                      /\ Alive(u)' => MakeVGName(u) \in groups'
    BY DEF HandleBacked
  <2>1. vgcs[MakeVGName(u)] # NoObj => nameOf[u] # NoName
    BY DEF BackedInv, CopiesInv, ContentCopy, Seen
  <2> QED
    BY <1>1, <2>1 DEF Steady, BackedInv, HandleBacked
<1> QED BY <1>1, <1>2, <1>3, <1>4

\* What the writes of a content keep of it.
LEMMA WrittenContent ==
    ASSUME NEW vgc \in VGC
    PROVE  /\ \A new \in {ThinSpec(vgc), StaticSpec(vgc)} :
                /\ new.ref = vgc.ref /\ new.fin = vgc.fin /\ new.handle = vgc.handle
                /\ new.ready = vgc.ready
           /\ \A n \in Names : LET new == [StaticSpec(vgc) EXCEPT !.ref = n] IN
                /\ new.ref = n /\ new.fin = vgc.fin /\ new.handle = vgc.handle
                /\ new.ready = vgc.ready
           /\ Deleted(vgc) # NoObj =>
                /\ vgc.fin /\ Deleted(vgc).ref = vgc.ref /\ Deleted(vgc).fin
                /\ Deleted(vgc).deleting /\ Deleted(vgc).handle = vgc.handle
                /\ Deleted(vgc).ready = vgc.ready
           /\ vgc.fin => Deleted(vgc) # NoObj
           /\ Released(vgc) # NoObj =>
                /\ ~vgc.deleting /\ Released(vgc).ref = vgc.ref /\ ~Released(vgc).fin
                /\ ~Released(vgc).deleting /\ Released(vgc).handle = vgc.handle
                /\ Released(vgc).ready = vgc.ready
           /\ vgc.deleting => Released(vgc) = NoObj
<1>1. \A new \in {ThinSpec(vgc), StaticSpec(vgc)} :
                /\ new.ref = vgc.ref /\ new.fin = vgc.fin /\ new.handle = vgc.handle
                /\ new.ready = vgc.ready
  BY DEF ThinSpec, StaticSpec, VGC
<1>2. \A n \in Names : LET new == [StaticSpec(vgc) EXCEPT !.ref = n] IN
                /\ new.ref = n /\ new.fin = vgc.fin /\ new.handle = vgc.handle
                /\ new.ready = vgc.ready
  BY DEF StaticSpec, VGC
<1> QED BY <1>1, <1>2, NameFacts DEF Deleted, Released, VGC

\* A step that leaves contents and groups alone is steady.
LEMMA QuietSteady == vgcs' = vgcs /\ groups \subseteq groups' => \A u \in UIDs : Steady(u)
BY DEF Steady

\* Asking for the deletion of a content is steady.
LEMMA DeleteSteady ==
    ASSUME TypeOK, BackedInv, NEW c \in ContentNames, vgcs[c] # NoObj,
           vgcs' = [vgcs EXCEPT ![c] = Deleted(vgcs[c])], groups' = groups
    PROVE  \A u \in UIDs : Steady(u)
<1> TAKE u \in UIDs
<1>1. CASE c # MakeVGName(u)
  BY <1>1, UidOfName DEF Steady, TypeOK
<1>2. CASE c = MakeVGName(u)
  <2> DEFINE new == Deleted(vgcs[c])
  <2>1. /\ vgcs[c] \in VGC /\ vgcs'[c] = new
        /\ vgcs[c].ready => vgcs[c].handle
    BY <1>2 DEF TypeOK, BackedInv, CopiesInv, ContentCopy
  <2>2. /\ new = NoObj => ~vgcs[c].fin
        /\ new # NoObj => /\ new.ref = vgcs[c].ref /\ new.fin /\ new.handle = vgcs[c].handle
                          /\ new.ready = vgcs[c].ready
    BY <2>1, WrittenContent
  <2> HIDE DEF new
  <2> QED BY <1>2, <2>1, <2>2 DEF Steady
<1> QED BY <1>1, <1>2

\* A write that keeps finalizer, handle and readiness is steady.
LEMMA WriteSteady ==
    ASSUME TypeOK, BackedInv, NEW c \in ContentNames, vgcs[c] # NoObj,
           NEW new \in VGC, vgcs' = [vgcs EXCEPT ![c] = new], groups' = groups,
           new.fin = vgcs[c].fin, new.handle = vgcs[c].handle,
           new.ready => vgcs[c].ready \/ new.handle,
           c \in DynamicContents => new.ref = vgcs[c].ref
    PROVE  \A u \in UIDs : Steady(u)
<1> TAKE u \in UIDs
<1>1. CASE c # MakeVGName(u)
  BY <1>1, UidOfName DEF Steady, TypeOK
<1>2. CASE c = MakeVGName(u)
  <2>1. vgcs'[c] = new /\ new # NoObj /\ c \in DynamicContents
        /\ (vgcs[c].ready => vgcs[c].handle)
    BY <1>2, NameFacts DEF TypeOK, BackedInv, CopiesInv, ContentCopy
  <2> QED BY <1>2, <2>1 DEF Steady
<1> QED BY <1>1, <1>2

\* The steps of the VolumeGroup worker are steady.
LEMMA VGControllerSteady ==
    ASSUME NamesUnguessed, TypeOK, OwnerInv, BackedInv, VGController
    PROVE  \A u \in UIDs : Steady(u)
<1>groups. groups' = groups
  BY DEF VGController, VGStep, VGStart, PVCEvent, VGReconcile, VGAddFinalizer,
         VGCreateContent, VGCheckReady, VGSetContent, VGSetStatus, VGConfirmStatus,
         VGBindContent, VGMembers, VGDeleteContent, VGRemoveFinalizer, VGRetry,
         VGRefused, VGCallFails, VGFrame
<1>busy. vgPc # "idle" => /\ vgReq \in Names /\ vgObj \in VG /\ vgObj # NoObj
                          /\ vgObj.uid \in UIDs /\ vgObj.content \in ContentNames \cup {NoName}
                          /\ nameOf[vgObj.uid] = vgReq /\ Seen(vgObj.uid)
  BY NameFacts DEF TypeOK, VG, OwnerInv, UidsNamed
<1>1. CASE VGCreateContent
  <2> DEFINE c == MakeVGName(vgObj.uid)
  <2>1. CASE vgcs[c] = NoObj
    <3>1. /\ vgPc = "createContent" /\ vgcs' = [vgcs EXCEPT ![c] = NewVGC(vgReq)]
          /\ vgObj.uid \in UIDs
      BY <1>1, <1>busy, <2>1 DEF VGCreateContent
    <3>2. Alive(vgObj.uid) /\ Seen(vgObj.uid) /\ nameOf[vgObj.uid] = vgReq
      BY <1>busy, <3>1, NameFacts DEF OwnerInv, GroupWorkerInv, VGProvisionSteps, Alive
    <3>3. /\ NewVGC(vgReq) # NoObj /\ ~NewVGC(vgReq).handle /\ ~NewVGC(vgReq).ready
          /\ NewVGC(vgReq).ref = vgReq
      BY <1>busy, <3>1, NewVGCType, NameFacts DEF NewVGC
    <3> TAKE u \in UIDs
    <3>4. CASE u = vgObj.uid
      <4>1. vgcs'[c] = NewVGC(vgReq)
        BY <3>1, UidOfName DEF TypeOK
      <4> QED BY <1>groups, <2>1, <3>2, <3>3, <3>4, <4>1 DEF Steady
    <3>5. CASE u # vgObj.uid
      BY <1>groups, <3>1, <3>5, UidOfName DEF Steady, TypeOK
    <3> QED BY <3>4, <3>5
  <2>2. CASE vgcs[c] # NoObj
    BY <1>1, <1>groups, <2>2, QuietSteady DEF VGCreateContent
  <2> QED BY <2>1, <2>2
<1>2. CASE VGBindContent
  <2> DEFINE c == vgObj.content
             new == [StaticSpec(vgcCache[c]) EXCEPT !.ref = vgReq]
  <2>1. vgPc # "idle"
    BY <1>2 DEF VGBindContent
  <2>2. CASE c \in ContentNames /\ vgcCache[c] # NoObj /\ vgcs[c] = vgcCache[c]
    <3>1. vgcs' = [vgcs EXCEPT ![c] = new]
      BY <1>2, <2>2 DEF VGBindContent
    <3>2. vgcs[c] \in VGC
      BY <2>2 DEF TypeOK
    <3>3. /\ new \in VGC /\ new.ref = vgReq /\ new.fin = vgcs[c].fin
          /\ new.handle = vgcs[c].handle /\ new.ready = vgcs[c].ready
      BY <1>busy, <2>1, <2>2, <3>2, SpecFacts, WrittenContent
    <3>4. c \in DynamicContents => vgcs[c].ref = vgReq
      <4>1. c \in DynamicContents => c = MakeVGName(vgObj.uid)
        BY <1>busy, <2>1 DEF NamesUnguessed, BackedInv, CopiesInv, GroupCopy
      <4>2. c = MakeVGName(vgObj.uid) => vgcs[c].ref = nameOf[vgObj.uid]
        BY <1>busy, <2>1, <2>2 DEF BackedInv, CopiesInv, ContentCopy
      <4> QED BY <1>busy, <2>1, <4>1, <4>2
    <3> HIDE DEF new
    <3> QED BY <1>groups, <2>2, <3>1, <3>3, <3>4, WriteSteady
  <2>3. CASE c \notin ContentNames \/ ~(vgcCache[c] # NoObj /\ vgcs[c] = vgcCache[c])
    <3>1. vgcs' = vgcs
      BY <1>2, <2>3 DEF VGBindContent, TypeOK
    <3> QED BY <1>groups, <3>1, QuietSteady
  <2> QED BY <2>2, <2>3
<1>3. CASE VGDeleteContent
  <2> DEFINE c == vgObj.content
  <2>1. vgcs' = vgcs \/ (vgcs[c] # NoObj /\ vgcs' = [vgcs EXCEPT ![c] = Deleted(vgcs[c])])
    BY <1>3 DEF VGDeleteContent
  <2>2. c \notin ContentNames => vgcs' = vgcs
    BY <2>1 DEF TypeOK
  <2> QED BY <1>groups, <2>1, <2>2, QuietSteady, DeleteSteady
<1>4. CASE vgcs' = vgcs
  BY <1>groups, <1>4, QuietSteady
<1> QED
  BY <1>1, <1>2, <1>3, <1>4
  DEF VGController, VGStep, VGStart, PVCEvent, VGReconcile, VGAddFinalizer,
      VGCheckReady, VGSetContent, VGSetStatus, VGConfirmStatus, VGMembers,
      VGRemoveFinalizer, VGRetry, VGRefused, VGCallFails, apiVars

\* What users, watches and a restart do is steady.
LEMMA EnvironmentSteady ==
    ASSUME TypeOK, BackedInv, UNCHANGED vars \/ User \/ Watches \/ Restart
    PROVE  \A u \in UIDs : Steady(u)
<1>1. ASSUME NEW c \in StaticContents, NEW class, NEW policy,
             CreateStaticVGC(c, class, policy)
      PROVE  \A u \in UIDs : Steady(u)
  <2>1. \A u \in UIDs : vgcs'[MakeVGName(u)] = vgcs[MakeVGName(u)]
    BY <1>1, NameFacts, UidOfName DEF CreateStaticVGC, TypeOK
  <2> QED BY <1>1, <2>1 DEF CreateStaticVGC, WorkersFrame, Steady
<1>2. ASSUME NEW c \in ContentNames, DeleteVGC(c) PROVE \A u \in UIDs : Steady(u)
  BY <1>2, DeleteSteady DEF DeleteVGC, WorkersFrame
<1>3. CASE vgcs' = vgcs /\ groups' = groups
  BY <1>3, QuietSteady
<1> QED
  BY <1>1, <1>2, <1>3
  DEF User, Watches, Restart, CreateVG, DeleteVG, SyncVG, SyncVGC, WorkersFrame, vars, apiVars

\* The steps of the VolumeGroupContent worker are steady.
LEMMA VGCControllerSteady ==
    ASSUME TypeOK, FinalizerInv, BackedInv, VGCController
    PROVE  \A u \in UIDs : Steady(u)
<1>busy. vgcPc # "idle" => vgcReq \in ContentNames /\ vgcObj \in VGC /\ vgcObj # NoObj
  BY NameFacts DEF TypeOK
<1>1. ASSUME NEW pc, NEW spec, NEW next, FreshSpecUpdate(pc, spec, next), pc # "idle",
             spec \in {ThinSpec(vgcCache[vgcReq]), StaticSpec(vgcCache[vgcReq])}
      PROVE  \A u \in UIDs : Steady(u)
  <2>1. CASE vgcCache[vgcReq] # NoObj /\ vgcs[vgcReq] = vgcCache[vgcReq]
    <3>1. /\ vgcReq \in ContentNames /\ vgcs[vgcReq] \in VGC /\ groups' = groups
          /\ vgcs' = [vgcs EXCEPT ![vgcReq] = spec]
      BY <1>1, <1>busy, <2>1 DEF FreshSpecUpdate, VGCWrite, TypeOK
    <3>2. /\ spec \in VGC /\ spec.ref = vgcs[vgcReq].ref /\ spec.fin = vgcs[vgcReq].fin
          /\ spec.handle = vgcs[vgcReq].handle /\ spec.ready = vgcs[vgcReq].ready
      BY <1>1, <2>1, <3>1, SpecFacts, WrittenContent
    <3> QED BY <2>1, <3>1, <3>2, WriteSteady
  <2>2. CASE ~(vgcCache[vgcReq] # NoObj /\ vgcs[vgcReq] = vgcCache[vgcReq])
    BY <1>1, <2>2, QuietSteady DEF FreshSpecUpdate
  <2> QED BY <2>1, <2>2
<1>2. CASE VGCThinSpec \/ VGCStaticSpec
  BY <1>1, <1>2 DEF VGCThinSpec, VGCStaticSpec
<1>3. ASSUME NEW pc, NEW ready \in BOOLEAN, StatusUpdate(pc, ready), pc # "idle",
             ready => vgcObj.handle
      PROVE  \A u \in UIDs : Steady(u)
  <2> DEFINE new == [vgcObj EXCEPT !.ready = ready]
  <2>1. /\ vgcReq \in ContentNames /\ vgcObj \in VGC /\ vgcObj # NoObj
        /\ vgcs[vgcReq] = vgcObj /\ groups' = groups
        /\ vgcs' = [vgcs EXCEPT ![vgcReq] = new]
    BY <1>3, <1>busy DEF StatusUpdate, VGCCurrent, VGCWrite
  <2>2. /\ new \in VGC /\ new.fin = vgcObj.fin /\ new.handle = vgcObj.handle
        /\ new.ref = vgcObj.ref /\ new.ready = ready
    BY <1>3, <2>1 DEF VGC
  <2> HIDE DEF new
  <2> QED BY <1>3, <2>1, <2>2, WriteSteady
<1>4. CASE VGCThinStatus \/ VGCReadyStatus
  <2>1. vgcPc = "readyStatus" => vgcObj.handle
    BY DEF BackedInv, ReportInv
  <2>2. CASE VGCThinStatus
    BY <1>3, <2>2 DEF VGCThinStatus
  <2>3. CASE VGCReadyStatus
    <3>1. StatusUpdate("readyStatus", TRUE) /\ vgcObj.handle
      BY <2>1, <2>3 DEF VGCReadyStatus, StatusUpdate
    <3> QED BY <1>3, <3>1
  <2> QED BY <1>4, <2>2, <2>3
<1>5. CASE VGCAddFinalizer \/ VGCSetHandle
  <2> DEFINE new == IF vgcPc = "addFinalizer" THEN [vgcObj EXCEPT !.fin = TRUE]
                                              ELSE [vgcObj EXCEPT !.handle = TRUE]
  <2>1. /\ vgcPc \in {"addFinalizer", "setHandle"}
        /\ vgcReq \in ContentNames /\ vgcObj \in VGC /\ vgcObj # NoObj
        /\ vgcs[vgcReq] = vgcObj /\ groups' = groups
        /\ vgcs' = [vgcs EXCEPT ![vgcReq] = new]
    BY <1>5, <1>busy DEF VGCAddFinalizer, VGCSetHandle, VGCCurrent, VGCWrite
  <2>2. /\ new \in VGC /\ new # NoObj /\ new.ref = vgcObj.ref /\ new.ready = vgcObj.ready
        /\ vgcObj.fin => new.fin
        /\ vgcObj.handle => new.handle
        /\ vgcPc = "addFinalizer" => new.handle = vgcObj.handle
        /\ vgcPc = "setHandle" => new.fin = vgcObj.fin
    BY <2>1, NameFacts DEF VGC
  <2>3. \A u \in UIDs : vgcReq = MakeVGName(u) =>
           (vgcPc = "setHandle" => vgcs[vgcReq].fin /\ vgcReq \in groups)
    BY DEF BackedInv, ReportInv
  <2>4. \A u \in UIDs : vgcReq = MakeVGName(u) => (vgcObj.ready => vgcObj.handle)
    BY <2>1 DEF BackedInv, CopiesInv, ContentCopy
  <2> HIDE DEF new
  <2> TAKE u \in UIDs
  <2>5. CASE vgcReq # MakeVGName(u)
    BY <2>1, <2>5, UidOfName DEF Steady, TypeOK
  <2>6. CASE vgcReq = MakeVGName(u)
    <3>1. vgcs'[vgcReq] = new
      BY <2>1 DEF TypeOK
    <3> QED BY <2>1, <2>2, <2>3, <2>4, <2>6, <3>1 DEF Steady
  <2> QED BY <2>5, <2>6
<1>6. CASE VGCCreateGroup
  BY <1>6, QuietSteady DEF VGCCreateGroup
<1>7. CASE VGCRemoveContent
  <2>1. vgcPc = "removeContent" /\ vgcs' = vgcs /\ groups \ {vgcReq} \subseteq groups'
    BY <1>7 DEF VGCRemoveContent
  <2>2. \A u \in UIDs : vgcReq = MakeVGName(u) => ~Alive(u)
    BY <2>1 DEF BackedInv, ReportInv, VGCRemoveSteps
  <2> QED BY <2>1, <2>2 DEF Steady
<1>8. CASE VGCRemoveFinalizer
  <2> DEFINE new == Released(vgcObj)
  <2>1. /\ vgcPc = "removeFinalizer" /\ vgcReq \in ContentNames /\ vgcObj \in VGC
        /\ vgcObj # NoObj /\ vgcs[vgcReq] = vgcObj /\ groups' = groups
        /\ vgcs' = [vgcs EXCEPT ![vgcReq] = new]
    BY <1>8, <1>busy DEF VGCRemoveFinalizer, VGCCurrent, VGCWrite
  <2>2. new # NoObj => /\ ~vgcObj.deleting /\ new.ref = vgcObj.ref
                       /\ new.handle = vgcObj.handle /\ new.ready = vgcObj.ready
    BY <2>1, WrittenContent
  <2>3. new # NoObj => ~vgcObj.fin
    BY <2>1, <2>2 DEF FinalizerInv, ContentWorkerInv, VGCRemoveSteps, Protected
  <2>4. \A u \in UIDs : vgcReq = MakeVGName(u) =>
           ~Alive(u) /\ (vgcObj.ready => vgcObj.handle)
    BY <2>1 DEF BackedInv, CopiesInv, ContentCopy, ReportInv, VGCRemoveSteps
  <2> HIDE DEF new
  <2> TAKE u \in UIDs
  <2>5. CASE vgcReq # MakeVGName(u)
    BY <2>1, <2>5, UidOfName DEF Steady, TypeOK
  <2>6. CASE vgcReq = MakeVGName(u)
    <3>1. vgcs'[vgcReq] = new
      BY <2>1 DEF TypeOK
    <3> QED BY <2>1, <2>2, <2>3, <2>4, <2>6, <3>1 DEF Steady
  <2> QED BY <2>5, <2>6
<1>9. CASE vgcs' = vgcs /\ groups' = groups
  BY <1>9, QuietSteady
<1> QED
  BY <1>2, <1>4, <1>5, <1>6, <1>7, <1>8, <1>9
  DEF VGCController, VGCStep, VGCStart, BindingEvent, VGCReconcile, VGCCheckOwner,
      VGCDeletePVCs, VGCRetry, VGCRefused, VGCCallFails

\* The VolumeGroup worker keeps BackedInv.
LEMMA VGControllerBacked ==
    ASSUME TypeOK, TypeOK', OwnerInv, OwnerInv', BackedInv, GroupsMoveOn,
           \A u \in UIDs : Steady(u), VGController
    PROVE  BackedInv'
<1> USE NameFacts
<1>frame. /\ vgCache' = vgCache /\ vgcCache' = vgcCache /\ groups' = groups
          /\ vgcPc' = vgcPc /\ vgcReq' = vgcReq /\ vgcObj' = vgcObj
  BY DEF VGController, VGStep, VGStart, PVCEvent, VGReconcile, VGAddFinalizer,
         VGCreateContent, VGCheckReady, VGSetContent, VGSetStatus, VGConfirmStatus,
         VGBindContent, VGMembers, VGDeleteContent, VGRemoveFinalizer, VGRetry,
         VGRefused, VGCallFails, VGFrame, cacheVars, vgcWorker
<1>busy. vgPc # "idle" => /\ vgReq \in Names /\ vgObj \in VG /\ vgObj # NoObj
                          /\ vgObj.uid \in UIDs
  BY DEF TypeOK, VG
<1>store. /\ \A u \in UIDs : nameOf[u] # NoName => nameOf'[u] = nameOf[u]
          /\ \A u \in UIDs : Seen(u) => Seen(u)'
          /\ \A u \in UIDs : nameOf[u] # NoName /\ Alive(u)' => Alive(u)
          /\ \A u \in UIDs : HandleRecorded(u) => HandleRecorded(u)'
          /\ \A u \in UIDs : ContentCopy(u, vgcs[MakeVGName(u)])'
          /\ HandleBacked'
  BY SteadyStore
<1>contents. \A u \in UIDs : /\ ContentCopy(u, vgcCache[MakeVGName(u)])'
                             /\ vgcReq' = MakeVGName(u) => ContentCopy(u, vgcObj)'
  BY <1>frame, <1>store DEF BackedInv, CopiesInv, ContentCopy, Seen
<1>caches. \A n \in Names : GroupCopy(vgCache[n])'
  BY <1>frame, <1>store DEF TypeOK, VG, BackedInv, CopiesInv, GroupCopy
<1>worker. /\ vgcPc' \in {"staticSpec", "readyStatus"} => vgcObj'.handle
           /\ \A u \in UIDs : vgcReq' = MakeVGName(u) =>
                /\ vgcPc' = "setHandle" =>
                     vgcs'[vgcReq'] # NoObj /\ vgcs'[vgcReq'].fin /\ vgcReq' \in groups'
                /\ vgcPc' \in VGCRemoveSteps \ {"checkOwner"} => ~Alive(u)'
  <2>1. vgcPc' \in {"staticSpec", "readyStatus"} => vgcObj'.handle
    BY <1>frame DEF BackedInv, ReportInv
  <2>2. ASSUME NEW u \in UIDs, vgcReq = MakeVGName(u), vgcPc = "setHandle"
        PROVE  vgcs'[vgcReq] # NoObj /\ vgcs'[vgcReq].fin /\ vgcReq \in groups'
    BY <1>frame, <2>2 DEF BackedInv, ReportInv, Steady
  <2>3. ASSUME NEW u \in UIDs, vgcReq = MakeVGName(u),
               vgcPc \in VGCRemoveSteps \ {"checkOwner"}
        PROVE  ~Alive(u)'
    <3>1. ~Alive(u) /\ vgcPc # "idle" /\ vgcObj # NoObj
      BY <2>3 DEF BackedInv, ReportInv, VGCRemoveSteps, TypeOK
    <3>2. nameOf[u] # NoName
      BY <2>3, <3>1 DEF BackedInv, CopiesInv, ContentCopy, Seen
    <3> QED BY <1>store, <3>1, <3>2
  <2> QED BY <1>frame, <2>1, <2>2, <2>3
\* The rest is about the copies of VolumeGroups and the steps of this worker.
<1>rest. ASSUME \A n \in Names : GroupCopy(vgs[n])',
                vgPc' # "idle" => GroupCopy(vgObj)',
                vgPc' \in {"createContent", "checkReady"} => ~vgStatic',
                vgPc' = "setContent" => IF vgStatic' THEN vgObj'.content # NoName
                                                     ELSE HandleRecorded(vgObj.uid)',
                vgPc' = "setStatus" => vgs'[vgReq'].content # NoName
         PROVE  BackedInv'
  BY <1>store, <1>contents, <1>caches, <1>worker, <1>rest DEF BackedInv, CopiesInv, ReportInv
<1>same. vgs' = vgs => \A n \in Names : GroupCopy(vgs[n])'
  BY <1>store DEF TypeOK, VG, BackedInv, CopiesInv, GroupCopy
<1>obj. vgPc # "idle" /\ vgObj' = vgObj => GroupCopy(vgObj)'
  BY <1>busy, <1>store DEF BackedInv, CopiesInv, GroupCopy
<1>1. ASSUME NEW n \in Names, VGReconcile(n) PROVE BackedInv'
  <2>1. vgs' = vgs
    BY <1>1 DEF VGReconcile, apiVars
  <2>2. CASE ReconcileStep(vgCache[n]) = "idle"
    BY <1>1, <1>rest, <1>same, <2>1, <2>2 DEF VGReconcile, VGIdle
  <2>3. CASE ReconcileStep(vgCache[n]) # "idle"
    <3>1. /\ vgPc' = ReconcileStep(vgCache[n]) /\ vgReq' = n /\ vgObj' = vgCache[n]
          /\ vgStatic' = (vgCache[n].content # NoName) /\ vgCache[n] \in VG
      BY <1>1, <2>3, StepFacts DEF VGReconcile, TypeOK
    <3>2. /\ vgPc' \in {"createContent", "checkReady"} => vgCache[n].content = NoName
          /\ vgPc' = "setContent" => vgCache[n].content # NoName
          /\ vgPc' # "setStatus"
      BY <3>1 DEF ReconcileStep, ProvisionStep, VG
    <3>3. GroupCopy(vgObj)'
      BY <1>caches, <1>frame, <3>1 DEF GroupCopy
    <3> QED BY <1>rest, <1>same, <2>1, <3>1, <3>2, <3>3
  <2> QED BY <2>2, <2>3
<1>2. ASSUME NEW n \in Names, VGStart(n) \/ PVCEvent(n) PROVE BackedInv'
  BY <1>1, <1>2 DEF VGStart, PVCEvent
\* A write of the worker's copy that keeps its uid.
<1>write. ASSUME NEW new \in VG, vgs[vgReq] = vgObj, vgPc # "idle",
                 vgs' = [vgs EXCEPT ![vgReq] = new], vgObj' = new, new.uid = vgObj.uid,
                 \/ new.content = vgObj.content
                 \/ new.content = MakeVGName(new.uid) /\ HandleRecorded(new.uid)
          PROVE  /\ \A n \in Names : GroupCopy(vgs[n])'
                 /\ GroupCopy(vgObj)'
  <2>1. new # NoObj /\ new.uid \in UIDs
    BY DEF VG
  <2>2. \/ new.content \in SourceContents
        \/ new.content = MakeVGName(new.uid) /\ HandleRecorded(new.uid)'
    BY <1>busy, <1>write, <1>store, <2>1 DEF BackedInv, CopiesInv, GroupCopy
  <2>3. GroupCopy(vgObj)'
    BY <1>write, <2>2 DEF GroupCopy
  <2>4. ASSUME NEW n \in Names PROVE GroupCopy(vgs[n])'
    <3>1. CASE n = vgReq
      BY <1>busy, <1>write, <2>2, <3>1 DEF TypeOK, GroupCopy
    <3>2. CASE n # vgReq
      BY <1>write, <1>store, <3>2 DEF TypeOK, VG, BackedInv, CopiesInv, GroupCopy
    <3> QED BY <3>1, <3>2
  <2> QED BY <2>3, <2>4
<1>3. CASE VGAddFinalizer
  <2> DEFINE new == [vgObj EXCEPT !.fin = TRUE]
  <2>1. /\ vgPc = "addFinalizer" /\ vgs[vgReq] = vgObj /\ vgs' = [vgs EXCEPT ![vgReq] = new]
        /\ vgObj' = new /\ vgPc' = ProvisionStep(new) /\ vgStatic' = (new.content # NoName)
    BY <1>3 DEF VGAddFinalizer, VGCurrent, VGWrite
  <2>2. new \in VG /\ new.uid = vgObj.uid /\ new.content = vgObj.content
    BY <1>busy, <2>1 DEF VG
  <2> HIDE DEF new
  <2>3. (\A n \in Names : GroupCopy(vgs[n])') /\ GroupCopy(vgObj)'
    BY <1>write, <2>1, <2>2
  <2> QED BY <1>rest, <2>1, <2>3 DEF ProvisionStep
<1>4. CASE VGCreateContent
  <2>1. /\ vgPc = "createContent" /\ vgPc' = "checkReady" /\ vgs' = vgs /\ vgObj' = vgObj
        /\ vgStatic' = vgStatic
    BY <1>4 DEF VGCreateContent, VGGoto
  <2> QED BY <1>rest, <1>same, <1>obj, <2>1 DEF BackedInv, ReportInv
<1>5. CASE VGCheckReady
  <2> DEFINE vgc == vgcCache[MakeVGName(vgObj.uid)]
  <2>1. vgPc = "checkReady" /\ vgs' = vgs
    BY <1>5 DEF VGCheckReady, apiVars
  <2>2. CASE vgc # NoObj /\ vgc.ready
    <3>1. vgPc' = "setContent" /\ vgObj' = vgObj /\ vgStatic' = vgStatic /\ ~vgStatic
      BY <1>5, <2>1, <2>2 DEF VGCheckReady, VGGoto, BackedInv, ReportInv
    <3>2. PICK u \in UIDs : u = vgObj.uid
      BY <1>busy, <2>1
    <3>3. HandleRecorded(u)'
      BY <1>store, <2>2, <3>2 DEF BackedInv, CopiesInv, ContentCopy
    <3> QED BY <1>rest, <1>same, <1>obj, <2>1, <3>1, <3>2, <3>3
  <2>3. CASE ~(vgc # NoObj /\ vgc.ready)
    BY <1>5, <1>rest, <1>same, <2>1, <2>3 DEF VGCheckReady, VGRequeue, VGIdle
  <2> QED BY <2>2, <2>3
<1>6. CASE VGSetContent
  <2> DEFINE new == [vgObj EXCEPT !.content = IF vgStatic THEN @ ELSE MakeVGName(vgObj.uid)]
  <2>1. /\ vgPc = "setContent" /\ vgs[vgReq] = vgObj /\ vgs' = [vgs EXCEPT ![vgReq] = new]
        /\ vgObj' = new /\ vgPc' = "setStatus" /\ vgReq' = vgReq
    BY <1>6 DEF VGSetContent, VGCurrent, VGWrite, VGGoto
  <2>2. /\ new \in VG /\ new.uid = vgObj.uid
        /\ new.content = IF vgStatic THEN vgObj.content ELSE MakeVGName(vgObj.uid)
    BY <1>busy, <2>1 DEF VG
  <2>3. /\ \/ new.content = vgObj.content
           \/ new.content = MakeVGName(new.uid) /\ HandleRecorded(new.uid)
        /\ new.content # NoName
    <3>1. CASE vgStatic
      BY <2>1, <2>2, <3>1 DEF BackedInv, ReportInv
    <3>2. CASE ~vgStatic
      BY <1>busy, <2>1, <2>2, <3>2, UidOfName DEF BackedInv, ReportInv
    <3> QED BY <3>1, <3>2
  <2> HIDE DEF new
  <2>4. (\A n \in Names : GroupCopy(vgs[n])') /\ GroupCopy(vgObj)'
    BY <1>write, <2>1, <2>2, <2>3
  <2>5. vgs'[vgReq'] = new
    BY <1>busy, <2>1 DEF TypeOK
  <2> QED BY <1>rest, <2>1, <2>3, <2>4, <2>5
<1>7. CASE VGSetStatus
  <2> DEFINE new == [vgObj EXCEPT !.ready = TRUE]
  <2>1. /\ vgPc = "setStatus" /\ vgs[vgReq] = vgObj /\ vgs' = [vgs EXCEPT ![vgReq] = new]
        /\ vgObj' = new /\ vgPc' = "confirmStatus"
    BY <1>7 DEF VGSetStatus, VGCurrent, VGWrite, VGGoto
  <2>2. new \in VG /\ new.uid = vgObj.uid /\ new.content = vgObj.content
    BY <1>busy, <2>1 DEF VG
  <2> HIDE DEF new
  <2>3. (\A n \in Names : GroupCopy(vgs[n])') /\ GroupCopy(vgObj)'
    BY <1>write, <2>1, <2>2
  <2> QED BY <1>rest, <2>1, <2>3
<1>8. CASE VGConfirmStatus \/ VGBindContent \/ VGMembers \/ VGDeleteContent
  <2>1. /\ vgPc # "idle" /\ vgs' = vgs
        /\ \/ vgPc' = "idle"
           \/ vgPc' \in {"bindContent", "members", "removeFinalizer"} /\ vgObj' = vgObj
    BY <1>8 DEF VGConfirmStatus, VGBindContent, VGMembers, VGDeleteContent, VGGoto, VGDone,
                VGRequeue, VGIdle, apiVars
  <2> QED BY <1>rest, <1>same, <1>obj, <2>1
<1>9. CASE VGRemoveFinalizer
  <2> DEFINE new == Released(vgObj)
  <2>1. /\ vgPc = "removeFinalizer" /\ vgs[vgReq] = vgObj /\ vgPc' = "idle"
        /\ vgs' = [vgs EXCEPT ![vgReq] = new]
    BY <1>9 DEF VGRemoveFinalizer, VGCurrent, VGWrite, VGDone, VGIdle
  <2>2. new # NoObj => new.uid = vgObj.uid /\ new.content = vgObj.content
    BY <1>busy, <2>1, RemovedGroup
  <2> HIDE DEF new
  <2>3. ASSUME NEW n \in Names PROVE GroupCopy(vgs[n])'
    BY <1>busy, <1>store, <2>1, <2>2 DEF TypeOK, VG, BackedInv, CopiesInv, GroupCopy
  <2> QED BY <1>rest, <2>1, <2>3
<1>10. CASE VGRetry
  <2>1. /\ vgPc \in VGRetrySteps /\ vgPc # "idle" /\ vgs' = vgs /\ vgPc' = vgPc
        /\ vgReq' = vgReq /\ vgObj' = vgCache[vgReq]
    BY <1>10 DEF VGRetry, VGRetrySteps, apiVars
  <2>2. GroupCopy(vgObj)'
    BY <1>busy, <1>caches, <1>frame, <2>1 DEF GroupCopy
  <2> QED BY <1>rest, <1>same, <2>1, <2>2 DEF VGRetrySteps, BackedInv, ReportInv
<1>11. CASE VGRefused \/ VGCallFails
  BY <1>11, <1>rest, <1>same DEF VGRefused, VGCallFails, VGRequeue, VGIdle, apiVars
<1> QED
  BY <1>2, <1>3, <1>4, <1>5, <1>6, <1>7, <1>8, <1>9, <1>10, <1>11 DEF VGController, VGStep

\* The VolumeGroupContent worker keeps BackedInv.
LEMMA VGCControllerBacked ==
    ASSUME TypeOK, TypeOK', FinalizerInv, BackedInv, GroupsMoveOn,
           \A u \in UIDs : Steady(u), VGCController
    PROVE  BackedInv'
<1> USE NameFacts
<1>frame. /\ vgs' = vgs /\ vgCache' = vgCache /\ vgcCache' = vgcCache /\ nameOf' = nameOf
          /\ vgPc' = vgPc /\ vgReq' = vgReq /\ vgObj' = vgObj /\ vgStatic' = vgStatic
  BY DEF VGCController, VGCStep, VGCStart, BindingEvent, VGCReconcile, VGCThinSpec,
         VGCStaticSpec, FreshSpecUpdate, VGCThinStatus, VGCReadyStatus, StatusUpdate,
         VGCAddFinalizer, VGCCreateGroup, VGCSetHandle, VGCCheckOwner, VGCDeletePVCs,
         VGCRemoveContent, VGCRemoveFinalizer, VGCRetry, VGCRefused, VGCCallFails,
         VGCFrame, cacheVars, vgWorker
<1>busy. vgcPc # "idle" => vgcReq \in ContentNames /\ vgcObj \in VGC /\ vgcObj # NoObj
  BY DEF TypeOK
<1>store. /\ \A u \in UIDs : HandleRecorded(u) => HandleRecorded(u)'
          /\ \A u \in UIDs : ContentCopy(u, vgcs[MakeVGName(u)])'
          /\ HandleBacked'
  BY SteadyStore
<1>alive. \A u \in UIDs : Alive(u)' = Alive(u) /\ Seen(u)' = Seen(u)
  BY <1>frame DEF Alive, Seen, IsVG
<1>groups. /\ \A n \in Names : GroupCopy(vgs[n])' /\ GroupCopy(vgCache[n])'
           /\ vgPc' # "idle" => GroupCopy(vgObj)'
  <2>1. \A n \in Names : GroupCopy(vgs[n])' /\ GroupCopy(vgCache[n])'
    BY <1>frame, <1>store DEF TypeOK, VG, BackedInv, CopiesInv, GroupCopy
  <2>2. vgPc' # "idle" => GroupCopy(vgObj)'
    BY <1>frame, <1>store DEF TypeOK, VG, BackedInv, CopiesInv, GroupCopy
  <2> QED BY <2>1, <2>2
<1>cached. \A u \in UIDs : ContentCopy(u, vgcCache[MakeVGName(u)])'
  BY <1>frame, <1>store, <1>alive DEF BackedInv, CopiesInv, ContentCopy
<1>worker. /\ vgPc' \in {"createContent", "checkReady"} => ~vgStatic'
           /\ vgPc' = "setContent" => IF vgStatic' THEN vgObj'.content # NoName
                                                   ELSE HandleRecorded(vgObj.uid)'
           /\ vgPc' = "setStatus" => vgs'[vgReq'].content # NoName
  <2>1. vgPc = "setContent" /\ ~vgStatic => HandleRecorded(vgObj.uid)'
    <3>1. ASSUME vgPc = "setContent" PROVE vgObj.uid \in UIDs
      BY <3>1 DEF TypeOK, VG
    <3> QED BY <1>frame, <1>store, <3>1 DEF BackedInv, ReportInv
  <2> QED BY <1>frame, <2>1 DEF BackedInv, ReportInv
\* The rest is about the copy and the steps of this worker.
<1>rest. ASSUME \A u \in UIDs : vgcReq' = MakeVGName(u) => ContentCopy(u, vgcObj)',
                vgcPc' \in {"staticSpec", "readyStatus"} => vgcObj'.handle,
                \A u \in UIDs : vgcReq' = MakeVGName(u) =>
                  /\ vgcPc' = "setHandle" =>
                       vgcs'[vgcReq'] # NoObj /\ vgcs'[vgcReq'].fin /\ vgcReq' \in groups'
                  /\ vgcPc' \in VGCRemoveSteps \ {"checkOwner"} => ~Alive(u)'
         PROVE  BackedInv'
  BY <1>store, <1>groups, <1>cached, <1>worker, <1>rest DEF BackedInv, CopiesInv, ReportInv
<1>idle. ASSUME vgcPc' = "idle" PROVE BackedInv'
  <2>1. vgcReq' = NoName
    BY <1>idle DEF TypeOK
  <2> QED BY <1>idle, <1>rest, <2>1, UidOfName DEF VGCRemoveSteps
<1>same. vgcPc # "idle" /\ vgcReq' = vgcReq /\ vgcObj' = vgcObj =>
           \A u \in UIDs : vgcReq' = MakeVGName(u) => ContentCopy(u, vgcObj)'
  BY <1>busy, <1>store, <1>alive, <1>frame DEF BackedInv, CopiesInv, ContentCopy
<1>fresh. \A c \in ContentNames : vgcReq' = c /\ vgcObj' = vgcCache[c] =>
            \A u \in UIDs : vgcReq' = MakeVGName(u) => ContentCopy(u, vgcObj)'
  BY <1>cached, <1>frame DEF ContentCopy
<1>written. vgcs'[vgcReq'] = vgcObj' =>
              \A u \in UIDs : vgcReq' = MakeVGName(u) => ContentCopy(u, vgcObj)'
  BY <1>store DEF ContentCopy
<1>gone. vgcPc \in VGCRemoveSteps \ {"checkOwner"} =>
           \A u \in UIDs : vgcReq = MakeVGName(u) => ~Alive(u)'
  BY <1>alive DEF BackedInv, ReportInv
<1>1. ASSUME NEW c \in ContentNames, VGCReconcile(c) PROVE BackedInv'
  <2>1. CASE vgcCache[c] = NoObj
    BY <1>1, <1>idle, <2>1 DEF VGCReconcile, VGCIdle
  <2>2. CASE vgcCache[c] # NoObj
    <3>1. /\ vgcPc' = ContentStep(vgcCache[c]) /\ vgcReq' = c /\ vgcObj' = vgcCache[c]
          /\ vgcCache[c] \in VGC
      BY <1>1, <2>2 DEF VGCReconcile, TypeOK
    <3>2. /\ vgcPc' = "staticSpec" => vgcCache[c].handle
          /\ vgcPc' \notin {"readyStatus", "setHandle"} \cup (VGCRemoveSteps \ {"checkOwner"})
      BY <3>1 DEF ContentStep, GroupStep, VGC, VGCRemoveSteps
    <3> QED BY <1>fresh, <1>rest, <3>1, <3>2
  <2> QED BY <2>1, <2>2
<1>2. ASSUME NEW c \in ContentNames, VGCStart(c) \/ BindingEvent(c) PROVE BackedInv'
  BY <1>1, <1>2 DEF VGCStart, BindingEvent
<1>3. CASE VGCThinSpec \/ VGCStaticSpec
  <2>1. \/ vgcPc' = "idle"
        \/ /\ vgcPc # "idle" /\ vgcReq' = vgcReq /\ vgcObj' = vgcObj
           /\ vgcPc' = "thinStatus" \/ (vgcPc = "staticSpec" /\ vgcPc' = "readyStatus")
    BY <1>3 DEF VGCThinSpec, VGCStaticSpec, FreshSpecUpdate, VGCGoto, VGCRequeue, VGCIdle
  <2>2. vgcPc = "staticSpec" => vgcObj.handle
    BY DEF BackedInv, ReportInv
  <2> QED BY <1>idle, <1>same, <1>rest, <2>1, <2>2 DEF VGCRemoveSteps
<1>4. CASE VGCThinStatus \/ VGCReadyStatus
  BY <1>4, <1>idle DEF VGCThinStatus, VGCReadyStatus, StatusUpdate, VGCDone, VGCIdle
<1>5. CASE VGCAddFinalizer
  <2>1. /\ vgcReq' = vgcReq /\ vgcPc' = GroupStep(vgcObj') /\ vgcReq \in ContentNames
        /\ vgcs' = [vgcs EXCEPT ![vgcReq] = vgcObj']
    BY <1>5, <1>busy DEF VGCAddFinalizer, VGCGoto, VGCWrite
  <2>2. vgcs'[vgcReq'] = vgcObj'
    BY <2>1 DEF TypeOK
  <2> QED BY <1>written, <1>rest, <2>1, <2>2 DEF GroupStep, VGCRemoveSteps
<1>6. CASE VGCCreateGroup
  <2>1. /\ vgcPc = "createGroup" /\ vgcPc' = "setHandle" /\ vgcReq' = vgcReq
        /\ vgcObj' = vgcObj /\ vgcs' = vgcs /\ vgcReq \in groups'
    BY <1>6 DEF VGCCreateGroup, VGCGoto
  <2>2. vgcs[vgcReq] # NoObj /\ vgcs[vgcReq].fin
    BY <2>1 DEF FinalizerInv, ContentWorkerInv
  <2> QED BY <1>same, <1>rest, <2>1, <2>2 DEF VGCRemoveSteps
<1>7. CASE VGCSetHandle
  <2>1. /\ vgcReq' = vgcReq /\ vgcPc' = "readyStatus" /\ vgcReq \in ContentNames
        /\ vgcs' = [vgcs EXCEPT ![vgcReq] = vgcObj'] /\ vgcObj \in VGC
        /\ vgcObj' = [vgcObj EXCEPT !.handle = TRUE]
    BY <1>7, <1>busy DEF VGCSetHandle, VGCGoto, VGCWrite
  <2>2. vgcs'[vgcReq'] = vgcObj' /\ vgcObj'.handle
    BY <2>1 DEF TypeOK, VGC
  <2> QED BY <1>written, <1>rest, <2>1, <2>2 DEF VGCRemoveSteps
<1>8. CASE VGCCheckOwner
  <2>1. CASE IsVgExist(vgcObj) \/ ~vgcObj.fin
    BY <1>8, <1>idle, <2>1 DEF VGCCheckOwner, VGCRequeue, VGCDone, VGCIdle
  <2>2. CASE ~IsVgExist(vgcObj) /\ vgcObj.fin
    <3>1. /\ vgcPc # "idle" /\ vgcReq' = vgcReq /\ vgcObj' = vgcObj
          /\ vgcPc' \in {"removeContent", "deletePVCs"}
      BY <1>8, <2>2 DEF VGCCheckOwner, VGCGoto
    <3>2. ASSUME NEW u \in UIDs, vgcReq = MakeVGName(u) PROVE ~Alive(u)
      <4>1. Seen(u) /\ nameOf[u] # NoName /\ vgcObj.ref = nameOf[u]
        BY <1>busy, <3>1, <3>2 DEF BackedInv, CopiesInv, ContentCopy, Seen
      <4> QED BY <2>2, <4>1 DEF IsVgExist, Seen
    <3> QED BY <1>alive, <1>same, <1>rest, <3>1, <3>2
  <2> QED BY <2>1, <2>2
<1>9. CASE VGCDeletePVCs
  <2>1. /\ vgcPc = "deletePVCs" /\ vgcReq' = vgcReq /\ vgcPc' = "removeContent"
        /\ vgcObj' = vgcObj \/ vgcObj' = vgcCache[vgcReq]
    BY <1>9 DEF VGCDeletePVCs, VGCGoto
  <2> QED BY <1>busy, <1>fresh, <1>same, <1>gone, <1>rest, <2>1 DEF VGCRemoveSteps
<1>10. CASE VGCRemoveContent
  <2>1. /\ vgcPc = "removeContent"
        /\ \/ vgcPc' = "idle"
           \/ vgcReq' = vgcReq /\ vgcObj' = vgcObj /\ vgcPc' = "removeFinalizer"
    BY <1>10 DEF VGCRemoveContent, VGCGoto, VGCRequeue, VGCIdle
  <2> QED BY <1>idle, <1>same, <1>gone, <1>rest, <2>1 DEF VGCRemoveSteps
<1>11. CASE VGCRemoveFinalizer \/ VGCRefused \/ VGCCallFails
  BY <1>11, <1>idle DEF VGCRemoveFinalizer, VGCRefused, VGCCallFails, VGCDone, VGCRequeue, VGCIdle
<1>12. CASE VGCRetry
  <2>1. /\ vgcPc \in {"addFinalizer", "removeFinalizer"} /\ vgcPc' = vgcPc
        /\ vgcReq' = vgcReq /\ vgcObj' = vgcCache[vgcReq]
    BY <1>12 DEF VGCRetry, VGCRetrySteps
  <2> QED BY <1>busy, <1>fresh, <1>gone, <1>rest, <2>1 DEF VGCRemoveSteps
<1> QED
  BY <1>2, <1>3, <1>4, <1>5, <1>6, <1>7, <1>8, <1>9, <1>10, <1>11, <1>12
  DEF VGCController, VGCStep

\* Users, watches and a restart keep BackedInv.
LEMMA EnvironmentBacked ==
    ASSUME TypeOK, TypeOK', OwnerInv, OwnerInv', BackedInv, GroupsMoveOn,
           \A u \in UIDs : Steady(u), UNCHANGED vars \/ User \/ Watches \/ Restart
    PROVE  BackedInv'
<1> USE NameFacts
<1>workers. /\ \/ vgPc' = "idle"
               \/ /\ vgPc' = vgPc /\ vgReq' = vgReq /\ vgObj' = vgObj
                  /\ vgStatic' = vgStatic
            /\ \/ vgcPc' = "idle"
               \/ vgcPc' = vgcPc /\ vgcReq' = vgcReq /\ vgcObj' = vgcObj
  <2>1. CASE Restart
    BY <2>1 DEF Restart, VGIdle, VGCIdle
  <2>2. CASE UNCHANGED <<vgWorker, vgcWorker>>
    BY <2>2 DEF vgWorker, vgcWorker
  <2>3. UNCHANGED vars \/ User \/ Watches => UNCHANGED <<vgWorker, vgcWorker>>
    BY DEF vars, User, Watches, CreateVG, DeleteVG, DeleteVGC, CreateStaticVGC, SyncVG,
           SyncVGC, WorkersFrame
  <2> QED BY <2>1, <2>2, <2>3
<1>store. /\ \A u \in UIDs : nameOf[u] # NoName => nameOf'[u] = nameOf[u]
          /\ \A u \in UIDs : Seen(u) => Seen(u)'
          /\ \A u \in UIDs : nameOf[u] # NoName /\ Alive(u)' => Alive(u)
          /\ \A u \in UIDs : HandleRecorded(u) => HandleRecorded(u)'
          /\ \A u \in UIDs : ContentCopy(u, vgcs[MakeVGName(u)])'
          /\ HandleBacked'
  BY SteadyStore
\* What each step does to the VolumeGroups and to the caches.
<1>vgs. ASSUME NEW n \in Names, vgs'[n] # NoObj
        PROVE  \/ vgs'[n].content \in SourceContents /\ vgs[n] = NoObj
               \/ /\ vgs[n] # NoObj
                  /\ vgs'[n].uid = vgs[n].uid /\ vgs'[n].content = vgs[n].content
  <2>1. ASSUME NEW m \in Names, NEW u \in UIDs, NEW content \in SourceContents,
               CreateVG(m, u, content)
        PROVE  \/ vgs'[n].content \in SourceContents /\ vgs[n] = NoObj
               \/ vgs'[n] = vgs[n]
    BY <2>1 DEF CreateVG, TypeOK
  <2>2. ASSUME NEW m \in Names, DeleteVG(m)
        PROVE  /\ vgs[n] # NoObj /\ vgs'[n].uid = vgs[n].uid
               /\ vgs'[n].content = vgs[n].content
    <3>1. vgs[m] \in VG /\ vgs' = [vgs EXCEPT ![m] = Deleted(vgs[m])] /\ vgs[m] # NoObj
      BY <2>2 DEF DeleteVG, TypeOK
    <3> QED BY <1>vgs, <3>1, RemovedGroup DEF TypeOK
  <2>3. CASE vgs' = vgs
    BY <1>vgs, <2>3
  <2> QED
    BY <1>vgs, <2>1, <2>2, <2>3
    DEF vars, apiVars, User, Watches, Restart, DeleteVGC, CreateStaticVGC, SyncVG, SyncVGC
<1>cache. \A c \in ContentNames : vgcCache'[c] \in {vgcCache[c], vgcs[c]}
  BY DEF vars, apiVars, cacheVars, User, Watches, Restart, CreateVG, DeleteVG, DeleteVGC,
         CreateStaticVGC, SyncVG, SyncVGC, TypeOK
<1>1. \A n \in Names : GroupCopy(vgs[n])'
  <2> TAKE n \in Names
  <2>1. CASE vgs'[n] # NoObj /\ vgs[n] # NoObj
    <3>1. /\ vgs[n] \in VG /\ vgs[n].uid \in UIDs
          /\ vgs'[n].uid = vgs[n].uid /\ vgs'[n].content = vgs[n].content
      BY <1>vgs, <2>1 DEF TypeOK, VG
    <3> QED BY <1>store, <2>1, <3>1 DEF BackedInv, CopiesInv, GroupCopy
  <2>2. CASE ~(vgs'[n] # NoObj /\ vgs[n] # NoObj)
    BY <1>vgs, <2>2 DEF GroupCopy
  <2> QED BY <2>1, <2>2
<1>2. \A n \in Names : GroupCopy(vgCache[n])'
  <2> TAKE n \in Names
  <2>1. vgCache'[n] \in {vgCache[n], vgs[n]}
    BY DEF GroupsMoveOn
  <2>2. vgCache'[n] # NoObj => vgCache'[n].uid \in UIDs
    BY DEF TypeOK, VG
  <2>3. vgCache'[n] # NoObj =>
           \/ vgCache'[n].content \in SourceContents
           \/ /\ vgCache'[n].content = MakeVGName(vgCache'[n].uid)
              /\ \A u \in UIDs : u = vgCache'[n].uid => HandleRecorded(u)
    BY <2>1 DEF BackedInv, CopiesInv, GroupCopy
  <2> QED BY <1>store, <2>2, <2>3 DEF GroupCopy
<1>3. vgPc' # "idle" => GroupCopy(vgObj)'
  <2>1. vgPc' # "idle" => vgObj' = vgObj /\ vgPc # "idle" /\ vgObj \in VG /\ vgObj.uid \in UIDs
    BY <1>workers DEF TypeOK, VG
  <2> QED BY <1>store, <2>1 DEF BackedInv, CopiesInv, GroupCopy
<1>4. ASSUME NEW u \in UIDs
      PROVE  /\ ContentCopy(u, vgcCache[MakeVGName(u)])'
             /\ vgcReq' = MakeVGName(u) => ContentCopy(u, vgcObj)'
  <2>1. ASSUME NEW vgc, ContentCopy(u, vgc), vgc # NoObj
        PROVE  /\ Seen(u)' /\ vgc.ref = nameOf'[u]
               /\ vgc.handle => HandleRecorded(u)'
               /\ vgc.ready => vgc.handle
    BY <1>store, <2>1 DEF ContentCopy, Seen
  <2>2. ContentCopy(u, vgcCache[MakeVGName(u)])'
    <3>1. /\ vgcCache'[MakeVGName(u)] \in {vgcCache[MakeVGName(u)], vgcs[MakeVGName(u)]}
          /\ ContentCopy(u, vgcCache[MakeVGName(u)]) /\ ContentCopy(u, vgcs[MakeVGName(u)])
      BY <1>cache DEF BackedInv, CopiesInv
    <3> QED BY <2>1, <3>1 DEF ContentCopy
  <2>3. vgcReq' = MakeVGName(u) => ContentCopy(u, vgcObj)'
    <3>1. vgcReq' = MakeVGName(u) => vgcObj' = vgcObj /\ ContentCopy(u, vgcObj)
      BY <1>workers, UidOfName DEF TypeOK, BackedInv, CopiesInv
    <3> QED BY <2>1, <3>1 DEF ContentCopy
  <2> QED BY <2>2, <2>3
<1>5. /\ vgPc' \in {"createContent", "checkReady"} => ~vgStatic'
      /\ vgPc' = "setContent" => IF vgStatic' THEN vgObj'.content # NoName
                                              ELSE HandleRecorded(vgObj.uid)'
      /\ vgPc' = "setStatus" => vgs'[vgReq'].content # NoName
  <2>1. vgPc' \in {"createContent", "checkReady"} => ~vgStatic'
    BY <1>workers DEF BackedInv, ReportInv
  <2>2. ASSUME vgPc' = "setContent"
        PROVE  IF vgStatic' THEN vgObj'.content # NoName ELSE HandleRecorded(vgObj.uid)'
    <3>1. vgPc = "setContent" /\ vgObj' = vgObj /\ vgStatic' = vgStatic /\ vgObj.uid \in UIDs
      BY <1>workers, <2>2 DEF TypeOK, VG
    <3> QED BY <1>store, <3>1 DEF BackedInv, ReportInv
  <2>3. ASSUME vgPc' = "setStatus" PROVE vgs'[vgReq'].content # NoName
    <3>1. /\ vgPc = "setStatus" /\ vgReq' = vgReq /\ vgReq \in Names
          /\ vgs[vgReq].content # NoName
      BY <1>workers, <2>3 DEF TypeOK, BackedInv, ReportInv
    <3>2. IsVG(vgReq, vgObj.uid) /\ vgs'[vgReq] # NoObj
      BY <2>3, <3>1 DEF OwnerInv, GroupWorkerInv, VGProvisionSteps, IsVG
    <3> QED BY <1>vgs, <3>1, <3>2 DEF IsVG
  <2> QED BY <2>1, <2>2, <2>3
<1>6. vgcPc' \in {"staticSpec", "readyStatus"} => vgcObj'.handle
  BY <1>workers DEF BackedInv, ReportInv
<1>7. ASSUME NEW u \in UIDs, vgcReq' = MakeVGName(u)
      PROVE  /\ vgcPc' = "setHandle" =>
                  vgcs'[vgcReq'] # NoObj /\ vgcs'[vgcReq'].fin /\ vgcReq' \in groups'
             /\ vgcPc' \in VGCRemoveSteps \ {"checkOwner"} => ~Alive(u)'
  <2>1. vgcPc' # "idle" /\ vgcPc' = vgcPc /\ vgcReq' = vgcReq /\ vgcObj # NoObj
    BY <1>7, <1>workers, UidOfName DEF TypeOK
  <2>2. groups' = groups
    BY DEF vars, User, Watches, Restart, CreateVG, DeleteVG, DeleteVGC, CreateStaticVGC,
           SyncVG, SyncVGC, WorkersFrame
  <2>3. nameOf[u] # NoName
    BY <1>7, <2>1 DEF BackedInv, CopiesInv, ContentCopy, Seen
  <2> QED BY <1>7, <1>store, <2>1, <2>2, <2>3 DEF BackedInv, ReportInv, Steady
<1> QED BY <1>store, <1>1, <1>2, <1>3, <1>4, <1>5, <1>6, <1>7 DEF BackedInv, CopiesInv, ReportInv

LEMMA InitBacked == Init => BackedInv
BY NameFacts, UidOfName
DEF Init, BackedInv, CopiesInv, HandleBacked, ReportInv, GroupCopy, ContentCopy, VGCRemoveSteps

LEMMA NextSteady ==
    ASSUME NamesUnguessed, TypeOK, FinalizerInv, OwnerInv, BackedInv, [Next]_vars
    PROVE  \A u \in UIDs : Steady(u)
BY VGControllerSteady, VGCControllerSteady, EnvironmentSteady DEF Next

LEMMA NextBacked ==
    ASSUME NamesUnguessed
    PROVE  TypeOK /\ FinalizerInv /\ OwnerInv /\ BackedInv /\ [Next]_vars => BackedInv'
<1> SUFFICES ASSUME TypeOK, FinalizerInv, OwnerInv, BackedInv, [Next]_vars PROVE BackedInv'
  OBVIOUS
<1>1. TypeOK' /\ GroupsMoveOn /\ OwnerInv'
  BY NextType, NextMovesOn, NextOwner
<1>2. \A u \in UIDs : Steady(u)
  BY NextSteady
<1> QED BY <1>1, <1>2, VGControllerBacked, VGCControllerBacked, EnvironmentBacked DEF Next

\* BackedInv is an invariant if users do not guess the names of generated
\* contents: what any cached or held copy of a VolumeGroup or of a content says
\* about the handle of a group may be relied on while the VolumeGroup is there.
THEOREM CopiesReliable ==
    ASSUME NamesUnguessed
    PROVE  Spec => []BackedInv
BY InitBacked, NextBacked, TypeCorrect, FinalizerInvariant, OwnersKnown, PTL DEF Spec

\* What updateItems reports is there: a ready VolumeGroup bound to its own
\* content has it under the finalizer, with the handle of an existing group.
THEOREM ReportsAreTrue ==
    ASSUME NamesUnguessed
    PROVE  Spec => []ReadyIsBacked
<1>1. TypeOK /\ OwnerInv /\ BackedInv => ReadyIsBacked
  <2> SUFFICES ASSUME TypeOK, OwnerInv, BackedInv, NEW n \in Names, vgs[n] # NoObj,
                      vgs[n].content = MakeVGName(vgs[n].uid)
               PROVE  LET c == vgs[n].content IN
                        /\ vgcs[c] # NoObj /\ vgcs[c].fin /\ vgcs[c].handle
                        /\ c \in groups
    BY DEF ReadyIsBacked
  <2>1. vgs[n] \in VG /\ vgs[n].uid \in UIDs /\ nameOf[vgs[n].uid] = n
    BY DEF TypeOK, VG, OwnerInv, UidsNamed
  <2>2. Alive(vgs[n].uid)
    BY <2>1, NameFacts DEF Alive, IsVG
  <2>3. vgs[n].content \notin SourceContents
    BY <2>1, NameFacts DEF NamesUnguessed
  <2>4. HandleRecorded(vgs[n].uid)
    BY <2>3 DEF BackedInv, CopiesInv, GroupCopy
  <2> QED BY <2>1, <2>2, <2>4 DEF HandleRecorded, BackedInv, HandleBacked
<1> QED BY <1>1, TypeCorrect, OwnersKnown, CopiesReliable, PTL

\* The driver deletes a group only when its VolumeGroup is gone, if new
\* VolumeGroups name no content: IsVgExist looked at a cached VolumeGroup, and
\* the VolumeGroup cannot have come back since.
THEOREM DeletionsAreSafe ==
    ASSUME SourceContents \subseteq {NoName}
    PROVE  Spec => DeletesOnlyReleased
<1>0. NamesUnguessed
  BY NameFacts DEF NamesUnguessed
<1>1. TypeOK /\ OwnerInv /\ BackedInv /\ [Next]_vars =>
        [\A c \in groups \ groups', n \in Names :
           vgs[n] # NoObj => c \notin {vgs[n].content, MakeVGName(vgs[n].uid)}]_vars
  <2> SUFFICES ASSUME TypeOK, OwnerInv, BackedInv, [Next]_vars,
                      NEW c \in groups \ groups', NEW n \in Names, vgs[n] # NoObj
               PROVE  c \notin {vgs[n].content, MakeVGName(vgs[n].uid)}
    OBVIOUS
  <2>1. vgcPc = "removeContent" /\ c = vgcReq
    BY DEF Next, vars, User, Watches, Restart, CreateVG, DeleteVG, DeleteVGC, CreateStaticVGC,
           SyncVG, SyncVGC, WorkersFrame, VGController, VGStep, VGStart, PVCEvent,
           VGReconcile, VGAddFinalizer, VGCreateContent, VGCheckReady, VGSetContent,
           VGSetStatus, VGConfirmStatus, VGBindContent, VGMembers, VGDeleteContent,
           VGRemoveFinalizer, VGRetry, VGRefused, VGCallFails, VGFrame, VGCController,
           VGCStep, VGCStart, BindingEvent, VGCReconcile, VGCThinSpec, VGCStaticSpec,
           FreshSpecUpdate, VGCThinStatus, VGCReadyStatus, StatusUpdate, VGCAddFinalizer,
           VGCCreateGroup, VGCSetHandle, VGCCheckOwner, VGCDeletePVCs, VGCRemoveContent,
           VGCRemoveFinalizer, VGCRetry, VGCRefused, VGCCallFails
  <2>2. /\ vgs[n].uid \in UIDs /\ Alive(vgs[n].uid) /\ c \in ContentNames
    BY NameFacts DEF TypeOK, VG, OwnerInv, UidsNamed, Alive, IsVG
  <2>3. c # MakeVGName(vgs[n].uid)
    BY <2>1, <2>2 DEF BackedInv, ReportInv, VGCRemoveSteps
  <2>4. vgs[n].content \in {NoName, MakeVGName(vgs[n].uid)}
    BY DEF BackedInv, CopiesInv, GroupCopy
  <2> QED BY <2>2, <2>3, <2>4, NameFacts
<1> QED
  BY <1>0, <1>1, TypeCorrect, OwnersKnown, CopiesReliable, PTL DEF Spec, DeletesOnlyReleased
=============================================================================
