------------------------ MODULE GroupLifecycleProofs ------------------------
(***************************************************************************)
(* Proofs about GroupLifecycle, for every value of its constants.          *)
(***************************************************************************)
EXTENDS GroupLifecycle, TLAPS

\* The names the operator generates are content names, and no object is
\* taken for the absence of one.
LEMMA NameFacts ==
    /\ \A u \in UIDs : MakeVGName(u) \in DynamicContents
    /\ DynamicContents \subseteq ContentNames
    /\ NoName \notin Names /\ NoName \notin ContentNames
    /\ NoObj \notin VG /\ NoObj \notin VGC
    /\ SourceContents \subseteq ContentNames \cup {NoName}
    /\ StaticContents \subseteq ContentNames
    /\ StaticContents \cap DynamicContents = {}
    /\ DeletionPolicy \in {"Delete", "Retain"}
    /\ MaxFailures \in Nat
BY ConstantsAssumption DEF ContentNames, DynamicContents, DeletionPolicy, Policies

\* Filling a content's specification in keeps it a content.
LEMMA SpecFacts ==
    ASSUME NEW vgc \in VGC
    PROVE  /\ StaticSpec(vgc) \in VGC /\ ThinSpec(vgc) \in VGC
           /\ \A n \in Names : [StaticSpec(vgc) EXCEPT !.ref = n] \in VGC
BY NameFacts DEF StaticSpec, ThinSpec, VGC, Policies

\* The content GenerateVGC builds is a content.
LEMMA NewVGCType == \A n \in Names : NewVGC(n) \in VGC
BY NameFacts DEF NewVGC, VGC, Policies

\* Deleting an object, or taking its finalizer off, leaves an object of its
\* kind or none.
LEMMA RemovalFacts ==
    /\ \A o \in VG : Deleted(o) \in VG \cup {NoObj} /\ Released(o) \in VG \cup {NoObj}
    /\ \A o \in VGC : Deleted(o) \in VGC \cup {NoObj} /\ Released(o) \in VGC \cup {NoObj}
BY DEF Deleted, Released, VG, VGC

\* Where a reconcile of an object starts is a step of the worker.
LEMMA StepFacts ==
    /\ \A vg \in VG : ProvisionStep(vg) \in VGSteps \ {"idle"}
    /\ \A vg \in VG \cup {NoObj} :
          ReconcileStep(vg) \in VGSteps /\ (ReconcileStep(vg) # "idle" => vg \in VG)
    /\ \A vgc \in VGC : GroupStep(vgc) \in VGCSteps \ {"idle"}
    /\ \A vgc \in VGC : ContentStep(vgc) \in VGCSteps \ {"idle"}
<1>1. \A vg \in VG : ProvisionStep(vg) \in VGSteps \ {"idle"}
  BY DEF ProvisionStep, VGSteps
<1>2. \A vg \in VG \cup {NoObj} :
          ReconcileStep(vg) \in VGSteps /\ (ReconcileStep(vg) # "idle" => vg \in VG)
  BY <1>1, NameFacts DEF ReconcileStep, VGSteps, VG
<1>3. \A vgc \in VGC : GroupStep(vgc) \in VGCSteps \ {"idle"}
  BY DEF GroupStep, VGCSteps
<1>4. \A vgc \in VGC : ContentStep(vgc) \in VGCSteps \ {"idle"}
  BY <1>3 DEF ContentStep, VGCSteps, VGC
<1> QED BY <1>1, <1>2, <1>3, <1>4

-----------------------------------------------------------------------------
\* The type invariant holds initially.
LEMMA InitType == Init => TypeOK
<1> SUFFICES ASSUME Init PROVE TypeOK
  OBVIOUS
<1>1. /\ vgs \in [Names -> VG \cup {NoObj}] /\ vgCache \in [Names -> VG \cup {NoObj}]
      /\ vgcs \in [ContentNames -> VGC \cup {NoObj}]
      /\ vgcCache \in [ContentNames -> VGC \cup {NoObj}]
      /\ nameOf \in [UIDs -> Names \cup {NoName}]
  BY DEF Init
<1>2. groups \subseteq ContentNames
  BY NameFacts DEF Init
<1>3. failures \in 0 .. MaxFailures
  BY NameFacts DEF Init
<1> QED BY <1>1, <1>2, <1>3 DEF Init, TypeOK, VGSteps, VGCSteps

\* The steps of the VolumeGroup worker keep the types.
LEMMA VGControllerType == TypeOK /\ VGController => TypeOK'
<1> SUFFICES ASSUME TypeOK, VGController PROVE TypeOK'
  OBVIOUS
<1> USE NameFacts
<1>frame. ASSUME VGFrame
          PROVE  /\ vgCache' = vgCache /\ vgcCache' = vgcCache /\ groups' = groups
                 /\ nameOf' = nameOf /\ vgcQueue' = vgcQueue
                 /\ vgcPc' = vgcPc /\ vgcReq' = vgcReq /\ vgcObj' = vgcObj
  BY <1>frame DEF VGFrame, cacheVars, vgcWorker
<1>1. ASSUME NEW n \in Names, VGReconcile(n), vgQueue' \subseteq Names PROVE TypeOK'
  <2>1. vgCache[n] \in VG \cup {NoObj}
    BY DEF TypeOK
  <2>2. /\ ReconcileStep(vgCache[n]) \in VGSteps
        /\ ReconcileStep(vgCache[n]) # "idle" => vgCache[n] \in VG
    BY <2>1, StepFacts
  <2> QED
    BY <1>1, <1>frame, <2>2 DEF VGReconcile, VGIdle, TypeOK, apiVars
<1>2. ASSUME NEW n \in Names, VGStart(n) \/ PVCEvent(n) PROVE TypeOK'
  BY <1>1, <1>2 DEF VGStart, PVCEvent, TypeOK
<1>3. CASE VGAddFinalizer
  <2> DEFINE vg == [vgObj EXCEPT !.fin = TRUE]
  <2>1. vgObj \in VG /\ vgReq \in Names /\ vg \in VG
    BY <1>3 DEF VGAddFinalizer, TypeOK, VG
  <2>2. ProvisionStep(vg) \in VGSteps \ {"idle"}
    BY <2>1, StepFacts
  <2> QED
    BY <1>3, <1>frame, <2>1, <2>2 DEF VGAddFinalizer, VGWrite, TypeOK
<1>4. CASE VGCreateContent
  <2>1. vgObj \in VG /\ vgReq \in Names /\ NewVGC(vgReq) \in VGC
    BY <1>4, NewVGCType DEF VGCreateContent, TypeOK
  <2> QED
    BY <1>4, <1>frame, <2>1 DEF VGCreateContent, VGGoto, TypeOK, VGSteps, VG
<1>5. CASE VGCheckReady
  <2>1. vgReq \in Names /\ vgObj \in VG
    BY <1>5 DEF VGCheckReady, TypeOK
  <2>2. \/ vgPc' = "setContent" /\ vgReq' = vgReq /\ vgObj' = vgObj
           /\ vgStatic' = vgStatic /\ vgQueue' = vgQueue
        \/ VGRequeue
    BY <1>5 DEF VGCheckReady, VGGoto
  <2> QED
    BY <1>5, <1>frame, <2>1, <2>2
    DEF VGCheckReady, VGRequeue, VGIdle, TypeOK, VGSteps, apiVars
<1>6. CASE VGSetContent
  <2> DEFINE vg == [vgObj EXCEPT !.content = IF vgStatic THEN @ ELSE MakeVGName(vgObj.uid)]
  <2>1. vgObj \in VG /\ vgReq \in Names
    BY <1>6 DEF VGSetContent, TypeOK
  <2>2. vg \in VG
    BY <2>1 DEF VG
  <2> QED
    BY <1>6, <1>frame, <2>1, <2>2 DEF VGSetContent, VGWrite, VGGoto, TypeOK, VGSteps
<1>7. CASE VGSetStatus
  <2> DEFINE vg == [vgObj EXCEPT !.ready = TRUE]
  <2>1. vgObj \in VG /\ vgReq \in Names /\ vg \in VG
    BY <1>7 DEF VGSetStatus, TypeOK, VG
  <2> QED
    BY <1>7, <1>frame, <2>1 DEF VGSetStatus, VGWrite, VGGoto, TypeOK, VGSteps
<1>8. CASE VGConfirmStatus
  BY <1>8, <1>frame DEF VGConfirmStatus, VGGoto, TypeOK, VGSteps, apiVars
<1>9. CASE VGBindContent
  <2> DEFINE c == vgObj.content
             new == [StaticSpec(vgcCache[c]) EXCEPT !.ref = vgReq]
  <2>1. vgReq \in Names /\ vgObj \in VG
    BY <1>9 DEF VGBindContent, TypeOK
  <2>2. CASE vgcCache[c] # NoObj /\ vgcs[c] = vgcCache[c]
    <3>1. c \in ContentNames => new \in VGC
      BY <2>1, <2>2, SpecFacts DEF TypeOK
    <3>2. vgcs' = [vgcs EXCEPT ![c] = new]
      BY <1>9, <2>2 DEF VGBindContent
    <3>3. vgcs' \in [ContentNames -> VGC \cup {NoObj}]
      BY <3>1, <3>2 DEF TypeOK
    <3> QED
      BY <1>9, <1>frame, <2>1, <2>2, <3>3 DEF VGBindContent, VGGoto, TypeOK, VGSteps
  <2>3. CASE ~(vgcCache[c] # NoObj /\ vgcs[c] = vgcCache[c])
    BY <1>9, <1>frame, <2>1, <2>3 DEF VGBindContent, VGRequeue, VGIdle, TypeOK, VGSteps
  <2> QED BY <2>2, <2>3
<1>10. CASE VGMembers
  BY <1>10, <1>frame DEF VGMembers, VGDone, VGIdle, TypeOK, VGSteps, apiVars
<1>11. CASE VGDeleteContent
  <2> DEFINE c == vgObj.content
  <2>1. vgReq \in Names /\ vgObj \in VG
    BY <1>11 DEF VGDeleteContent, TypeOK
  <2>2. CASE vgPc' = "removeFinalizer" /\ vgObj' = vgObj
    <3>1. vgcs' = vgcs \/ (vgcs[c] # NoObj /\ vgcs' = [vgcs EXCEPT ![c] = Deleted(vgcs[c])])
      BY <1>11, <2>2 DEF VGDeleteContent, VGRequeue, VGIdle
    <3>2. vgcs' \in [ContentNames -> VGC \cup {NoObj}]
      BY <3>1, RemovalFacts DEF TypeOK
    <3> QED
      BY <1>11, <1>frame, <2>1, <2>2, <3>2
      DEF VGDeleteContent, VGRequeue, VGIdle, VGGoto, TypeOK, VGSteps
  <2>3. CASE VGRequeue /\ vgcs' = vgcs
    BY <1>11, <1>frame, <2>1, <2>3 DEF VGDeleteContent, VGRequeue, VGIdle, TypeOK, VGSteps
  <2> QED
    BY <1>11, <2>2, <2>3 DEF VGDeleteContent, VGGoto
<1>12. CASE VGRemoveFinalizer
  <2>1. vgReq \in Names /\ Released(vgObj) \in VG \cup {NoObj}
    BY <1>12, RemovalFacts DEF VGRemoveFinalizer, TypeOK
  <2> QED
    BY <1>12, <1>frame, <2>1 DEF VGRemoveFinalizer, VGWrite, VGDone, VGIdle, TypeOK, VGSteps
<1>13. CASE VGRetry
  BY <1>13, <1>frame DEF VGRetry, VGRetrySteps, Fails, TypeOK, apiVars
<1>14. CASE VGRefused \/ VGCallFails
  <2>1. vgReq \in Names
    BY <1>14 DEF VGRefused, VGWriteSteps, VGCallFails, TypeOK
  <2>2. /\ vgs' = vgs /\ vgcs' = vgcs /\ VGRequeue /\ VGFrame
        /\ \/ failures' = failures
           \/ failures < MaxFailures /\ failures' = failures + 1
    BY <1>14 DEF VGRefused, VGCallFails, Fails, apiVars
  <2>3. failures' \in 0 .. MaxFailures
    BY <2>2 DEF TypeOK
  <2> QED
    BY <1>frame, <2>1, <2>2, <2>3 DEF VGRequeue, VGIdle, TypeOK, VGSteps
<1> QED
  BY <1>2, <1>3, <1>4, <1>5, <1>6, <1>7, <1>8, <1>9, <1>10, <1>11, <1>12, <1>13, <1>14
  DEF VGController, VGStep
\* The steps of the VolumeGroupContent worker keep the types.
LEMMA VGCControllerType == TypeOK /\ VGCController => TypeOK'
<1> SUFFICES ASSUME TypeOK, VGCController PROVE TypeOK'
  OBVIOUS
<1> USE NameFacts
<1>frame. ASSUME VGCFrame
          PROVE  /\ vgs' = vgs /\ vgCache' = vgCache /\ vgcCache' = vgcCache
                 /\ nameOf' = nameOf /\ vgQueue' = vgQueue /\ vgPc' = vgPc
                 /\ vgReq' = vgReq /\ vgObj' = vgObj /\ vgStatic' = vgStatic
  BY <1>frame DEF VGCFrame, cacheVars, vgWorker
<1>busy. vgcPc # "idle" => vgcReq \in ContentNames /\ vgcObj \in VGC
  BY DEF TypeOK
<1>1. ASSUME NEW c \in ContentNames, VGCReconcile(c), vgcQueue' \subseteq ContentNames
      PROVE  TypeOK'
  <2>1. CASE vgcCache[c] = NoObj
    BY <1>1, <1>frame, <2>1 DEF VGCReconcile, VGCIdle, TypeOK
  <2>2. CASE vgcCache[c] # NoObj
    <3>1. vgcCache[c] \in VGC /\ ContentStep(vgcCache[c]) \in VGCSteps \ {"idle"}
      BY <2>2, StepFacts DEF TypeOK
    <3> QED
      BY <1>1, <1>frame, <2>2, <3>1 DEF VGCReconcile, TypeOK
  <2> QED BY <2>1, <2>2
<1>2. ASSUME NEW c \in ContentNames, VGCStart(c) \/ BindingEvent(c) PROVE TypeOK'
  BY <1>1, <1>2 DEF VGCStart, BindingEvent, TypeOK
<1>3. ASSUME NEW pc \in VGCSteps \ {"idle"}, NEW spec, NEW next \in VGCSteps \ {"idle"},
             FreshSpecUpdate(pc, spec, next),
             vgcCache[vgcReq] # NoObj => spec \in VGC
      PROVE  TypeOK'
  <2>1. vgcReq \in ContentNames /\ vgcObj \in VGC
    BY <1>3, <1>busy DEF FreshSpecUpdate
  <2>2. CASE vgcCache[vgcReq] # NoObj /\ vgcs[vgcReq] = vgcCache[vgcReq]
    BY <1>3, <1>frame, <2>1, <2>2 DEF FreshSpecUpdate, VGCWrite, VGCGoto, TypeOK
  <2>3. CASE ~(vgcCache[vgcReq] # NoObj /\ vgcs[vgcReq] = vgcCache[vgcReq])
    BY <1>3, <1>frame, <2>1, <2>3 DEF FreshSpecUpdate, VGCRequeue, VGCIdle, TypeOK, VGCSteps
  <2> QED BY <2>2, <2>3
<1>4. CASE VGCThinSpec
  <2>1. vgcCache[vgcReq] # NoObj => ThinSpec(vgcCache[vgcReq]) \in VGC
    BY <1>4, <1>busy, SpecFacts DEF VGCThinSpec, FreshSpecUpdate, TypeOK
  <2> QED BY <1>3, <1>4, <2>1 DEF VGCThinSpec, VGCSteps
<1>5. CASE VGCStaticSpec
  <2>1. vgcCache[vgcReq] # NoObj => StaticSpec(vgcCache[vgcReq]) \in VGC
    BY <1>5, <1>busy, SpecFacts DEF VGCStaticSpec, FreshSpecUpdate, TypeOK
  <2> QED BY <1>3, <1>5, <2>1 DEF VGCStaticSpec, VGCSteps
<1>6. ASSUME NEW pc \in VGCSteps \ {"idle"}, NEW ready \in BOOLEAN, StatusUpdate(pc, ready)
      PROVE  TypeOK'
  <2>1. vgcReq \in ContentNames /\ vgcObj \in VGC
    BY <1>6, <1>busy DEF StatusUpdate
  <2>2. [vgcObj EXCEPT !.ready = ready] \in VGC
    BY <1>6, <2>1 DEF VGC
  <2> QED
    BY <1>6, <1>frame, <2>1, <2>2 DEF StatusUpdate, VGCWrite, VGCDone, VGCIdle, TypeOK, VGCSteps
<1>7. CASE VGCThinStatus \/ VGCReadyStatus
  BY <1>6, <1>7 DEF VGCThinStatus, VGCReadyStatus, VGCSteps
<1>8. CASE VGCAddFinalizer
  <2> DEFINE vgc == [vgcObj EXCEPT !.fin = TRUE]
  <2>1. vgcReq \in ContentNames /\ vgc \in VGC
    BY <1>8, <1>busy DEF VGCAddFinalizer, VGC
  <2>2. GroupStep(vgc) \in VGCSteps \ {"idle"}
    BY <2>1, StepFacts
  <2> QED
    BY <1>8, <1>frame, <2>1, <2>2 DEF VGCAddFinalizer, VGCWrite, VGCGoto, TypeOK
<1>9. CASE VGCCreateGroup
  BY <1>9, <1>frame, <1>busy DEF VGCCreateGroup, VGCGoto, TypeOK, VGCSteps
<1>10. CASE VGCSetHandle
  <2> DEFINE vgc == [vgcObj EXCEPT !.handle = TRUE]
  <2>1. vgcReq \in ContentNames /\ vgc \in VGC
    BY <1>10, <1>busy DEF VGCSetHandle, VGC
  <2> QED
    BY <1>10, <1>frame, <2>1 DEF VGCSetHandle, VGCWrite, VGCGoto, TypeOK, VGCSteps
<1>11. CASE VGCCheckOwner
  <2>1. vgcReq \in ContentNames /\ vgcObj \in VGC
    BY <1>11, <1>busy DEF VGCCheckOwner
  <2>2. \/ VGCRequeue \/ VGCDone
        \/ /\ vgcPc' \in {"removeContent", "deletePVCs"} /\ vgcReq' = vgcReq
           /\ vgcObj' = vgcObj /\ vgcQueue' = vgcQueue
    BY <1>11 DEF VGCCheckOwner, VGCGoto
  <2>3. vgcs' = vgcs /\ groups' = groups /\ failures' = failures /\ VGCFrame
    BY <1>11 DEF VGCCheckOwner
  <2> QED
    BY <1>frame, <2>1, <2>2, <2>3 DEF VGCRequeue, VGCDone, VGCIdle, TypeOK, VGCSteps
<1>12. CASE VGCDeletePVCs
  BY <1>12, <1>frame, <1>busy DEF VGCDeletePVCs, VGCGoto, TypeOK, VGCSteps
<1>13. CASE VGCRemoveContent
  <2>1. vgcReq \in ContentNames /\ vgcObj \in VGC
    BY <1>13, <1>busy DEF VGCRemoveContent
  <2>2. groups' \subseteq ContentNames
    BY <1>13 DEF VGCRemoveContent, TypeOK
  <2>3. \/ VGCRequeue
        \/ /\ vgcPc' = "removeFinalizer" /\ vgcReq' = vgcReq
           /\ vgcObj' = vgcObj /\ vgcQueue' = vgcQueue
    BY <1>13 DEF VGCRemoveContent, VGCGoto
  <2>4. vgcs' = vgcs /\ failures' = failures /\ VGCFrame
    BY <1>13 DEF VGCRemoveContent
  <2> QED
    BY <1>frame, <2>1, <2>2, <2>3, <2>4 DEF VGCRequeue, VGCIdle, TypeOK, VGCSteps
<1>14. CASE VGCRemoveFinalizer
  <2>1. vgcReq \in ContentNames /\ Released(vgcObj) \in VGC \cup {NoObj}
    BY <1>14, <1>busy, RemovalFacts DEF VGCRemoveFinalizer
  <2> QED
    BY <1>14, <1>frame, <2>1 DEF VGCRemoveFinalizer, VGCWrite, VGCDone, VGCIdle, TypeOK, VGCSteps
<1>15. CASE VGCRetry
  BY <1>15, <1>frame, <1>busy DEF VGCRetry, VGCRetrySteps, Fails, TypeOK
<1>16. CASE VGCRefused \/ VGCCallFails
  <2>1. vgcReq \in ContentNames
    BY <1>16, <1>busy DEF VGCRefused, VGCWriteSteps, VGCCallFails
  <2>2. /\ vgcs' = vgcs /\ groups' = groups /\ VGCRequeue /\ VGCFrame
        /\ \/ failures' = failures
           \/ failures < MaxFailures /\ failures' = failures + 1
    BY <1>16 DEF VGCRefused, VGCCallFails, Fails
  <2>3. failures' \in 0 .. MaxFailures
    BY <2>2 DEF TypeOK
  <2> QED
    BY <1>frame, <2>1, <2>2, <2>3 DEF VGCRequeue, VGCIdle, TypeOK, VGCSteps
<1> QED
  BY <1>2, <1>4, <1>5, <1>7, <1>8, <1>9, <1>10, <1>11, <1>12, <1>13, <1>14, <1>15, <1>16
  DEF VGCController, VGCStep

\* The user, the watches and a restart keep the types.
LEMMA EnvironmentType == TypeOK /\ (User \/ Watches \/ Restart) => TypeOK'
<1> SUFFICES ASSUME TypeOK, User \/ Watches \/ Restart PROVE TypeOK'
  OBVIOUS
<1> USE NameFacts
<1>frame. ASSUME WorkersFrame
          PROVE  /\ groups' = groups /\ vgPc' = vgPc /\ vgReq' = vgReq /\ vgObj' = vgObj
                 /\ vgStatic' = vgStatic /\ vgcPc' = vgcPc /\ vgcReq' = vgcReq
                 /\ vgcObj' = vgcObj
  BY <1>frame DEF WorkersFrame, vgWorker, vgcWorker
<1>1. ASSUME NEW n \in Names, NEW u \in UIDs, NEW content \in SourceContents,
             CreateVG(n, u, content)
      PROVE  TypeOK'
  <2> DEFINE vg == [uid |-> u, deleting |-> FALSE, fin |-> FALSE,
                    content |-> content, ready |-> FALSE]
  <2>1. vg \in VG
    BY <1>1 DEF VG
  <2> QED BY <1>1, <1>frame, <2>1 DEF CreateVG, TypeOK, cacheVars
<1>2. ASSUME NEW n \in Names, DeleteVG(n) PROVE TypeOK'
  <2>1. Deleted(vgs[n]) \in VG \cup {NoObj}
    BY <1>2, RemovalFacts DEF DeleteVG, TypeOK
  <2> QED BY <1>2, <1>frame, <2>1 DEF DeleteVG, TypeOK, cacheVars
<1>3. ASSUME NEW c \in StaticContents, NEW class \in BOOLEAN, NEW policy \in Policies,
             CreateStaticVGC(c, class, policy)
      PROVE  TypeOK'
  <2> DEFINE vgc == [class |-> class, ref |-> NoName, handle |-> TRUE, policy |-> policy,
                     ready |-> FALSE, deleting |-> FALSE, fin |-> FALSE]
  <2>1. vgc \in VGC /\ c \in ContentNames
    BY <1>3 DEF VGC
  <2> QED BY <1>3, <1>frame, <2>1 DEF CreateStaticVGC, TypeOK, cacheVars
<1>4. ASSUME NEW c \in ContentNames, DeleteVGC(c) PROVE TypeOK'
  <2>1. Deleted(vgcs[c]) \in VGC \cup {NoObj}
    BY <1>4, RemovalFacts DEF DeleteVGC, TypeOK
  <2> QED BY <1>4, <1>frame, <2>1 DEF DeleteVGC, TypeOK, cacheVars
<1>5. ASSUME NEW n \in Names, SyncVG(n) PROVE TypeOK'
  BY <1>5, <1>frame DEF SyncVG, TypeOK, apiVars
<1>6. ASSUME NEW c \in ContentNames, SyncVGC(c) PROVE TypeOK'
  BY <1>6, <1>frame DEF SyncVGC, TypeOK, apiVars
<1>7. CASE Restart
  <2>1. failures' \in 0 .. MaxFailures
    BY <1>7 DEF Restart, Fails, TypeOK
  <2>2. /\ vgs' = vgs /\ vgcs' = vgcs /\ groups' = groups /\ nameOf' = nameOf
        /\ vgCache' = vgs /\ vgcCache' = vgcs
        /\ vgQueue' \subseteq Names /\ vgcQueue' \subseteq ContentNames
        /\ VGIdle /\ VGCIdle
    BY <1>7 DEF Restart, apiVars
  <2> QED BY <2>1, <2>2 DEF VGIdle, VGCIdle, TypeOK, VGSteps, VGCSteps
<1> QED
  BY <1>1, <1>2, <1>3, <1>4, <1>5, <1>6, <1>7 DEF User, Watches

\* Every step keeps the types.
LEMMA NextType == TypeOK /\ [Next]_vars => TypeOK'
<1> SUFFICES ASSUME TypeOK, [Next]_vars PROVE TypeOK'
  OBVIOUS
<1>1. CASE UNCHANGED vars
  BY <1>1 DEF TypeOK, vars, apiVars, cacheVars, vgWorker, vgcWorker
<1> QED
  BY <1>1, VGControllerType, VGCControllerType, EnvironmentType DEF Next

\* TypeOK is an invariant: in particular a worker that is busy holds a copy of
\* an object, never the absence of one, whatever the cache returned to a retry.
THEOREM TypeCorrect == Spec => []TypeOK
<1>1. Init => TypeOK
  BY InitType
<1>2. TypeOK /\ [Next]_vars => TypeOK'
  BY NextType
<1> QED BY <1>1, <1>2, PTL DEF Spec

-----------------------------------------------------------------------------
(***************************************************************************)
(* The finalizer spans the life of the group.  Every step but the two that *)
(* set and remove the finalizer of a content keeps it: Keeps says what     *)
(* such a step may do to the stored contents.                              *)
(***************************************************************************)
HasFin(vgc) == vgc # NoObj /\ vgc.fin

Keeps(old, new) ==
    /\ HasFin(old) <=> HasFin(new)
    /\ Protected(new) => Protected(old)
    /\ new # NoObj /\ new.deleting => new.fin
    /\ old # NoObj /\ old.deleting => new # NoObj /\ new.deleting

KeepsAll ==
    \A c \in ContentNames :
        /\ Keeps(vgcs[c], vgcs'[c])
        /\ c \in DynamicContents /\ vgcs'[c] # NoObj => vgcs'[c].policy = DeletionPolicy

\* A write to one content that leaves its finalizer, deletion and policy alone.
LEMMA WriteKeeps ==
    ASSUME TypeOK, FinalizerInv, NEW c \in ContentNames, NEW new \in VGC,
           vgcs[c] # NoObj, vgcs' = [vgcs EXCEPT ![c] = new],
           new.fin = vgcs[c].fin, new.deleting = vgcs[c].deleting,
           c \in DynamicContents => new.policy = vgcs[c].policy
    PROVE  KeepsAll
BY NameFacts DEF TypeOK, FinalizerInv, DeletingHasFinalizer, DynamicPolicy,
                 KeepsAll, Keeps, HasFin, Protected

\* The same for the specification filled in by either worker.
LEMMA SpecKeeps ==
    ASSUME NEW vgc \in VGC, NEW n \in Names
    PROVE  /\ ThinSpec(vgc).fin = vgc.fin /\ ThinSpec(vgc).deleting = vgc.deleting
           /\ StaticSpec(vgc).fin = vgc.fin /\ StaticSpec(vgc).deleting = vgc.deleting
           /\ vgc.policy # "nil" => /\ ThinSpec(vgc).policy = vgc.policy
                                    /\ StaticSpec(vgc).policy = vgc.policy
           /\ LET new == [StaticSpec(vgc) EXCEPT !.ref = n] IN
                /\ new.fin = vgc.fin /\ new.deleting = vgc.deleting
                /\ vgc.policy # "nil" => new.policy = vgc.policy
BY NameFacts DEF ThinSpec, StaticSpec, VGC, Policies

\* A new content without a finalizer takes the place of none.
LEMMA CreateKeeps ==
    ASSUME TypeOK, FinalizerInv, NEW c \in ContentNames, NEW new \in VGC,
           vgcs[c] = NoObj, vgcs' = [vgcs EXCEPT ![c] = new],
           ~new.fin, ~new.deleting,
           c \in DynamicContents => new.policy = DeletionPolicy
    PROVE  KeepsAll
BY NameFacts DEF TypeOK, FinalizerInv, DeletingHasFinalizer, DynamicPolicy,
                 KeepsAll, Keeps, HasFin, Protected

\* A request to delete a content.
LEMMA DeleteKeeps ==
    ASSUME TypeOK, FinalizerInv, NEW c \in ContentNames, vgcs[c] # NoObj,
           vgcs' = [vgcs EXCEPT ![c] = Deleted(vgcs[c])]
    PROVE  KeepsAll
<1>1. vgcs[c] \in VGC
  BY DEF TypeOK
<1>2. CASE vgcs[c].fin
  <2> DEFINE new == [vgcs[c] EXCEPT !.deleting = TRUE]
  <2>1. new \in VGC /\ new.fin /\ new.deleting /\ new.policy = vgcs[c].policy
    BY <1>1, <1>2 DEF VGC
  <2>2. vgcs' = [vgcs EXCEPT ![c] = new]
    BY <1>2 DEF Deleted
  <2> QED
    BY <1>1, <1>2, <2>1, <2>2, NameFacts
    DEF TypeOK, FinalizerInv, DeletingHasFinalizer, DynamicPolicy,
        KeepsAll, Keeps, HasFin, Protected
<1>3. CASE ~vgcs[c].fin
  <2>1. vgcs' = [vgcs EXCEPT ![c] = NoObj]
    BY <1>3 DEF Deleted
  <2> QED
    BY <1>3, <2>1, NameFacts
    DEF TypeOK, FinalizerInv, DeletingHasFinalizer, DynamicPolicy,
        KeepsAll, Keeps, HasFin, Protected
<1> QED BY <1>2, <1>3

\* No write at all.
LEMMA NothingKeeps == TypeOK /\ FinalizerInv /\ vgcs' = vgcs => KeepsAll
BY DEF FinalizerInv, DeletingHasFinalizer, DynamicPolicy, KeepsAll, Keeps, HasFin, Protected

\* What such a step keeps of the invariant, whatever the worker does.
LEMMA KeepsStore ==
    ASSUME TypeOK, FinalizerInv, KeepsAll, vgcCache' = vgcCache, groups' \subseteq groups
    PROVE  /\ DeletingHasFinalizer' /\ CacheSeesProtection' /\ NoLeakedGroup'
           /\ \A c \in DynamicContents :
                 /\ vgcs'[c] # NoObj => vgcs'[c].policy = DeletionPolicy
                 /\ vgcCache'[c] # NoObj => vgcCache'[c].policy = DeletionPolicy
<1>1. DeletingHasFinalizer'
  BY DEF KeepsAll, Keeps, DeletingHasFinalizer
<1>2. CacheSeesProtection'
  BY DEF KeepsAll, Keeps, HasFin, FinalizerInv, CacheSeesProtection
<1>3. NoLeakedGroup'
  BY NameFacts DEF KeepsAll, Keeps, HasFin, FinalizerInv, NoLeakedGroup
<1> QED
  BY <1>1, <1>2, <1>3, NameFacts DEF KeepsAll, FinalizerInv, DynamicPolicy

\* Such a step by anyone but the VolumeGroupContent worker.
LEMMA KeepsInv ==
    ASSUME TypeOK, FinalizerInv, KeepsAll, vgcCache' = vgcCache, groups' = groups,
           vgcPc' = vgcPc, vgcReq' = vgcReq, vgcObj' = vgcObj
    PROVE  FinalizerInv'
<1>1. ContentWorkerInv'
  <2>1. vgcPc # "idle" => vgcReq \in ContentNames
    BY DEF TypeOK
  <2> QED
    BY <2>1 DEF VGCRemoveSteps, KeepsAll, Keeps, HasFin, FinalizerInv, ContentWorkerInv
<1>2. DynamicPolicy'
  BY KeepsStore DEF FinalizerInv, DynamicPolicy
<1> QED BY <1>1, <1>2, KeepsStore DEF FinalizerInv

\* The VolumeGroup worker keeps the invariant: it creates, binds and deletes
\* contents but never touches a finalizer of one.
LEMMA VGControllerInv == TypeOK /\ FinalizerInv /\ VGController => FinalizerInv'
<1> SUFFICES ASSUME TypeOK, FinalizerInv, VGController PROVE FinalizerInv'
  OBVIOUS
<1>1. /\ vgcCache' = vgcCache /\ groups' = groups
      /\ vgcPc' = vgcPc /\ vgcReq' = vgcReq /\ vgcObj' = vgcObj
  BY DEF VGController, VGStep, VGStart, PVCEvent, VGReconcile, VGAddFinalizer,
         VGCreateContent, VGCheckReady, VGSetContent, VGSetStatus, VGConfirmStatus,
         VGBindContent, VGMembers, VGDeleteContent, VGRemoveFinalizer, VGRetry,
         VGRefused, VGCallFails, VGFrame, cacheVars, vgcWorker
<1>2. CASE VGCreateContent
  <2> DEFINE c == MakeVGName(vgObj.uid)
  <2>1. c \in ContentNames /\ NewVGC(vgReq) \in VGC
    BY <1>2, NameFacts, NewVGCType DEF VGCreateContent, TypeOK, VG
  <2>2. CASE vgcs[c] = NoObj
    <3>1. vgcs' = [vgcs EXCEPT ![c] = NewVGC(vgReq)]
      BY <1>2, <2>2 DEF VGCreateContent
    <3>2. /\ ~NewVGC(vgReq).fin /\ ~NewVGC(vgReq).deleting
          /\ NewVGC(vgReq).policy = DeletionPolicy
      BY DEF NewVGC
    <3> QED BY <1>1, <2>1, <2>2, <3>1, <3>2, CreateKeeps, KeepsInv
  <2>3. CASE vgcs[c] # NoObj
    BY <1>1, <1>2, <2>3, NothingKeeps, KeepsInv DEF VGCreateContent
  <2> QED BY <2>2, <2>3
<1>3. CASE VGBindContent
  <2> DEFINE c == vgObj.content
             new == [StaticSpec(vgcCache[c]) EXCEPT !.ref = vgReq]
  <2>1. vgReq \in Names /\ vgObj \in VG
    BY <1>3 DEF VGBindContent, TypeOK
  <2>2. CASE c \in ContentNames /\ vgcCache[c] # NoObj /\ vgcs[c] = vgcCache[c]
    <3>1. vgcs' = [vgcs EXCEPT ![c] = new]
      BY <1>3, <2>2 DEF VGBindContent
    <3>2. vgcs[c] \in VGC
      BY <2>2 DEF TypeOK
    <3>3. /\ new \in VGC /\ new.fin = vgcs[c].fin /\ new.deleting = vgcs[c].deleting
          /\ vgcs[c].policy # "nil" => new.policy = vgcs[c].policy
      BY <2>1, <2>2, <3>2, SpecFacts, SpecKeeps
    <3>4. c \in DynamicContents => vgcs[c].policy # "nil"
      BY <2>2, NameFacts DEF FinalizerInv, DynamicPolicy
    <3> QED BY <1>1, <2>2, <3>1, <3>3, <3>4, WriteKeeps, KeepsInv
  <2>3. CASE c \notin ContentNames \/ ~(vgcCache[c] # NoObj /\ vgcs[c] = vgcCache[c])
    <3>1. vgcs' = vgcs
      BY <1>3, <2>3 DEF VGBindContent, TypeOK
    <3> QED BY <1>1, <3>1, NothingKeeps, KeepsInv
  <2> QED BY <2>2, <2>3
<1>4. CASE VGDeleteContent
  <2> DEFINE c == vgObj.content
  <2>1. vgcs' = vgcs \/ (vgcs[c] # NoObj /\ vgcs' = [vgcs EXCEPT ![c] = Deleted(vgcs[c])])
    BY <1>4 DEF VGDeleteContent
  <2>2. CASE vgcs' = vgcs
    BY <1>1, <2>2, NothingKeeps, KeepsInv
  <2>3. CASE /\ c \in ContentNames /\ vgcs[c] # NoObj
             /\ vgcs' = [vgcs EXCEPT ![c] = Deleted(vgcs[c])]
    BY <1>1, <2>3, DeleteKeeps, KeepsInv
  <2>4. c \notin ContentNames => vgcs' = vgcs
    BY <2>1 DEF TypeOK
  <2> QED BY <2>1, <2>2, <2>3, <2>4
<1>5. CASE vgcs' = vgcs
  BY <1>1, <1>5, NothingKeeps, KeepsInv
<1> QED
  BY <1>2, <1>3, <1>4, <1>5
  DEF VGController, VGStep, VGStart, PVCEvent, VGReconcile, VGAddFinalizer,
      VGCheckReady, VGSetContent, VGSetStatus, VGConfirmStatus, VGMembers,
      VGRemoveFinalizer, VGRetry, VGRefused, VGCallFails, apiVars

\* The user, the watches and a restart keep the invariant.
LEMMA EnvironmentInv ==
    TypeOK /\ FinalizerInv /\ (User \/ Watches \/ Restart) => FinalizerInv'
<1> SUFFICES ASSUME TypeOK, FinalizerInv, User \/ Watches \/ Restart PROVE FinalizerInv'
  OBVIOUS
<1>frame. ASSUME WorkersFrame
          PROVE  /\ groups' = groups /\ vgcPc' = vgcPc /\ vgcReq' = vgcReq
                 /\ vgcObj' = vgcObj
  BY <1>frame DEF WorkersFrame, vgcWorker
<1>1. ASSUME NEW n \in Names, NEW u \in UIDs, NEW content \in SourceContents,
             CreateVG(n, u, content)
      PROVE  FinalizerInv'
  BY <1>1, <1>frame, NothingKeeps, KeepsInv DEF CreateVG, cacheVars
<1>2. ASSUME NEW n \in Names, DeleteVG(n) \/ SyncVG(n) PROVE FinalizerInv'
  BY <1>2, <1>frame, NothingKeeps, KeepsInv DEF DeleteVG, SyncVG, apiVars, cacheVars
<1>3. ASSUME NEW c \in StaticContents, NEW class \in BOOLEAN, NEW policy \in Policies,
             CreateStaticVGC(c, class, policy)
      PROVE  FinalizerInv'
  <2> DEFINE vgc == [class |-> class, ref |-> NoName, handle |-> TRUE, policy |-> policy,
                     ready |-> FALSE, deleting |-> FALSE, fin |-> FALSE]
  <2>1. vgc \in VGC /\ ~vgc.fin /\ ~vgc.deleting /\ c \in ContentNames
        /\ c \notin DynamicContents
    BY <1>3, NameFacts DEF VGC
  <2>2. vgcs[c] = NoObj /\ vgcs' = [vgcs EXCEPT ![c] = vgc] /\ vgcCache' = vgcCache
    BY <1>3 DEF CreateStaticVGC, cacheVars
  <2> QED BY <1>3, <1>frame, <2>1, <2>2, CreateKeeps, KeepsInv DEF CreateStaticVGC
<1>4. ASSUME NEW c \in ContentNames, DeleteVGC(c) PROVE FinalizerInv'
  BY <1>4, <1>frame, DeleteKeeps, KeepsInv DEF DeleteVGC, cacheVars
<1>5. ASSUME NEW c \in ContentNames, SyncVGC(c) PROVE FinalizerInv'
  <2>1. /\ vgcs' = vgcs /\ vgcCache' = [vgcCache EXCEPT ![c] = vgcs[c]]
        /\ groups' = groups /\ vgcPc' = vgcPc /\ vgcReq' = vgcReq /\ vgcObj' = vgcObj
    BY <1>5, <1>frame DEF SyncVGC, apiVars
  <2>2. vgcPc # "idle" => vgcReq \in ContentNames
    BY DEF TypeOK
  <2>3. DeletingHasFinalizer' /\ NoLeakedGroup'
    BY <2>1 DEF FinalizerInv, DeletingHasFinalizer, NoLeakedGroup
  <2>4. CacheSeesProtection'
    BY <2>1 DEF TypeOK, FinalizerInv, DeletingHasFinalizer, CacheSeesProtection, Protected
  <2>5. ContentWorkerInv'
    BY <2>1, <2>2 DEF TypeOK, FinalizerInv, DeletingHasFinalizer, ContentWorkerInv,
                      VGCRemoveSteps, Protected
  <2>6. DynamicPolicy'
    BY <2>1, NameFacts DEF TypeOK, FinalizerInv, DynamicPolicy
  <2> QED BY <2>3, <2>4, <2>5, <2>6 DEF FinalizerInv
<1>6. CASE Restart
  <2>1. /\ vgcs' = vgcs /\ vgcCache' = vgcs /\ groups' = groups /\ vgcPc' = "idle"
    BY <1>6 DEF Restart, VGCIdle, apiVars
  <2>2. DeletingHasFinalizer' /\ NoLeakedGroup'
    BY <2>1 DEF FinalizerInv, DeletingHasFinalizer, NoLeakedGroup
  <2>3. CacheSeesProtection'
    BY <2>1 DEF CacheSeesProtection, Protected
  <2>4. ContentWorkerInv' /\ DynamicPolicy'
    BY <2>1 DEF FinalizerInv, ContentWorkerInv, DynamicPolicy, VGCRemoveSteps
  <2> QED BY <2>2, <2>3, <2>4 DEF FinalizerInv
<1> QED
  BY <1>1, <1>2, <1>3, <1>4, <1>5, <1>6 DEF User, Watches

\* The VolumeGroupContent worker keeps the invariant.
LEMMA VGCControllerInv == TypeOK /\ FinalizerInv /\ VGCController => FinalizerInv'
<1> SUFFICES ASSUME TypeOK, FinalizerInv, VGCController PROVE FinalizerInv'
  OBVIOUS
<1> USE NameFacts
<1>busy. vgcPc # "idle" => vgcReq \in ContentNames /\ vgcObj \in VGC
  BY DEF TypeOK
<1>cache. vgcCache' = vgcCache
  BY DEF VGCController, VGCStep, VGCStart, BindingEvent, VGCReconcile, VGCThinSpec,
         VGCStaticSpec, FreshSpecUpdate, VGCThinStatus, VGCReadyStatus, StatusUpdate,
         VGCAddFinalizer, VGCCreateGroup, VGCSetHandle, VGCCheckOwner, VGCDeletePVCs,
         VGCRemoveContent, VGCRemoveFinalizer, VGCRetry, VGCRefused, VGCCallFails,
         VGCFrame, cacheVars
\* A step that keeps the finalizers and moves the worker to a step from which
\* nothing is expected of the content.
<1>quiet. ASSUME KeepsAll, groups' \subseteq groups,
                 vgcPc' \notin VGCRemoveSteps \cup {"createGroup", "addFinalizer"},
                 vgcPc' # "idle" /\ vgcReq' \in DynamicContents
                    => vgcObj'.policy = DeletionPolicy
          PROVE  FinalizerInv'
  <2>1. ContentWorkerInv'
    BY <1>quiet DEF ContentWorkerInv, VGCRemoveSteps
  <2>2. DynamicPolicy'
    BY <1>quiet, <1>cache, KeepsStore DEF DynamicPolicy
  <2> QED BY <1>quiet, <1>cache, <2>1, <2>2, KeepsStore DEF FinalizerInv
<1>policy. vgcPc # "idle" /\ vgcReq \in DynamicContents => vgcObj.policy = DeletionPolicy
  BY DEF FinalizerInv, DynamicPolicy
<1>1. ASSUME NEW c \in ContentNames, VGCReconcile(c) PROVE FinalizerInv'
  <2>1. vgcs' = vgcs /\ groups' = groups
    BY <1>1 DEF VGCReconcile
  <2>2. CASE vgcCache[c] = NoObj
    BY <1>1, <1>quiet, <2>1, <2>2, NothingKeeps DEF VGCReconcile, VGCIdle, VGCRemoveSteps
  <2>3. CASE vgcCache[c] # NoObj
    <3>1. /\ vgcPc' = ContentStep(vgcCache[c]) /\ vgcReq' = c /\ vgcObj' = vgcCache[c]
          /\ vgcCache[c] \in VGC
      BY <1>1, <2>3 DEF VGCReconcile, TypeOK
    <3>2. /\ vgcPc' = "createGroup" => Protected(vgcCache[c])
          /\ vgcPc' \in VGCRemoveSteps => vgcPc' = "checkOwner" /\ vgcCache[c].deleting
          /\ vgcPc' = "addFinalizer" => ~vgcCache[c].deleting
      BY <2>3, <3>1 DEF ContentStep, GroupStep, VGCRemoveSteps, Protected, VGC
    <3>3. ContentWorkerInv'
      BY <1>cache, <2>1, <2>3, <3>1, <3>2
      DEF FinalizerInv, ContentWorkerInv, CacheSeesProtection, Protected, VGCRemoveSteps
    <3>4. DynamicPolicy'
      BY <1>cache, <2>1, <2>3, <3>1 DEF FinalizerInv, DynamicPolicy
    <3> QED BY <1>cache, <2>1, <3>3, <3>4, NothingKeeps, KeepsStore DEF FinalizerInv
  <2> QED BY <2>2, <2>3
<1>2. ASSUME NEW c \in ContentNames, VGCStart(c) \/ BindingEvent(c) PROVE FinalizerInv'
  BY <1>1, <1>2 DEF VGCStart, BindingEvent
<1>3. ASSUME NEW pc \in {"thinSpec", "staticSpec"}, NEW spec,
             NEW next \in {"thinStatus", "readyStatus"}, FreshSpecUpdate(pc, spec, next),
             \/ spec = ThinSpec(vgcCache[vgcReq])
             \/ spec = StaticSpec(vgcCache[vgcReq])
      PROVE  FinalizerInv'
  <2>1. vgcPc # "idle" /\ vgcReq \in ContentNames /\ groups' = groups
    BY <1>3, <1>busy DEF FreshSpecUpdate
  <2>2. CASE vgcCache[vgcReq] # NoObj /\ vgcs[vgcReq] = vgcCache[vgcReq]
    <3>1. /\ vgcs' = [vgcs EXCEPT ![vgcReq] = spec]
          /\ vgcPc' = next /\ vgcReq' = vgcReq /\ vgcObj' = vgcObj
      BY <1>3, <2>2 DEF FreshSpecUpdate, VGCWrite, VGCGoto
    <3>2. vgcs[vgcReq] \in VGC
      BY <2>1, <2>2 DEF TypeOK
    <3>3. vgcReq \in DynamicContents => vgcs[vgcReq].policy # "nil"
      BY <2>2 DEF FinalizerInv, DynamicPolicy
    <3>4. /\ spec \in VGC /\ spec.fin = vgcs[vgcReq].fin
          /\ spec.deleting = vgcs[vgcReq].deleting
          /\ vgcReq \in DynamicContents => spec.policy = vgcs[vgcReq].policy
      <4>1. ThinSpec(vgcs[vgcReq]) \in VGC /\ StaticSpec(vgcs[vgcReq]) \in VGC
        BY <3>2, SpecFacts
      <4>2. CASE spec = ThinSpec(vgcs[vgcReq])
        BY <3>2, <3>3, <4>1, <4>2 DEF ThinSpec, VGC
      <4>3. CASE spec = StaticSpec(vgcs[vgcReq])
        BY <3>2, <3>3, <4>1, <4>3 DEF StaticSpec, VGC
      <4> QED BY <1>3, <2>2, <4>2, <4>3
    <3>5. KeepsAll
      BY <2>1, <2>2, <3>1, <3>2, <3>4, WriteKeeps
    <3> QED BY <1>quiet, <1>policy, <2>1, <3>1, <3>5 DEF VGCRemoveSteps
  <2>3. CASE ~(vgcCache[vgcReq] # NoObj /\ vgcs[vgcReq] = vgcCache[vgcReq])
    BY <1>3, <1>quiet, <2>1, <2>3, NothingKeeps
    DEF FreshSpecUpdate, VGCRequeue, VGCIdle, VGCRemoveSteps
  <2> QED BY <2>2, <2>3
<1>4. CASE VGCThinSpec \/ VGCStaticSpec
  BY <1>3, <1>4 DEF VGCThinSpec, VGCStaticSpec
<1>5. ASSUME NEW pc \in {"thinStatus", "readyStatus"}, NEW ready \in BOOLEAN,
             StatusUpdate(pc, ready)
      PROVE  FinalizerInv'
  <2> DEFINE new == [vgcObj EXCEPT !.ready = ready]
  <2>1. vgcReq \in ContentNames /\ vgcObj \in VGC /\ vgcs[vgcReq] = vgcObj
    BY <1>5, <1>busy DEF StatusUpdate, VGCCurrent
  <2>2. /\ new \in VGC /\ new.fin = vgcObj.fin /\ new.deleting = vgcObj.deleting
        /\ new.policy = vgcObj.policy
    BY <1>5, <2>1 DEF VGC
  <2>3. /\ vgcs' = [vgcs EXCEPT ![vgcReq] = new] /\ groups' = groups /\ vgcPc' = "idle"
    BY <1>5 DEF StatusUpdate, VGCWrite, VGCDone, VGCIdle
  <2>4. KeepsAll
    BY <2>1, <2>2, <2>3, WriteKeeps
  <2> QED BY <1>quiet, <2>3, <2>4 DEF VGCRemoveSteps
<1>6. CASE VGCThinStatus \/ VGCReadyStatus
  BY <1>5, <1>6 DEF VGCThinStatus, VGCReadyStatus
<1>7. CASE VGCAddFinalizer
  <2> DEFINE new == [vgcObj EXCEPT !.fin = TRUE]
  <2>1. /\ vgcPc = "addFinalizer" /\ vgcReq \in ContentNames /\ vgcObj \in VGC
        /\ vgcs[vgcReq] = vgcObj
    BY <1>7, <1>busy DEF VGCAddFinalizer, VGCCurrent
  <2>2. /\ new \in VGC /\ new # NoObj /\ new.fin /\ new.deleting = vgcObj.deleting
        /\ new.policy = vgcObj.policy
    BY <2>1 DEF VGC
  <2>3. /\ vgcs' = [vgcs EXCEPT ![vgcReq] = new] /\ groups' = groups
        /\ vgcPc' \in {"staticSpec", "createGroup"} /\ vgcReq' = vgcReq /\ vgcObj' = new
    BY <1>7 DEF VGCAddFinalizer, VGCWrite, VGCGoto, GroupStep
  <2>4. DeletingHasFinalizer' /\ NoLeakedGroup'
    BY <2>1, <2>2, <2>3 DEF TypeOK, FinalizerInv, DeletingHasFinalizer, NoLeakedGroup
  <2>5. CacheSeesProtection'
    BY <1>cache, <2>1, <2>2, <2>3
    DEF TypeOK, FinalizerInv, CacheSeesProtection, ContentWorkerInv, Protected
  <2>6. ContentWorkerInv'
    BY <2>1, <2>2, <2>3 DEF TypeOK, ContentWorkerInv, VGCRemoveSteps
  <2>7. DynamicPolicy'
    BY <1>cache, <2>1, <2>2, <2>3 DEF TypeOK, FinalizerInv, DynamicPolicy
  <2> QED BY <2>4, <2>5, <2>6, <2>7 DEF FinalizerInv
<1>8. CASE VGCCreateGroup
  <2>1. /\ vgcPc = "createGroup" /\ groups' = groups \cup {vgcReq} /\ vgcs' = vgcs
        /\ vgcPc' = "setHandle" /\ vgcReq' = vgcReq /\ vgcObj' = vgcObj
    BY <1>8 DEF VGCCreateGroup, VGCGoto
  <2>2. DeletingHasFinalizer' /\ CacheSeesProtection'
    BY <1>cache, <2>1 DEF FinalizerInv, DeletingHasFinalizer, CacheSeesProtection
  <2>3. NoLeakedGroup'
    BY <2>1 DEF FinalizerInv, NoLeakedGroup, ContentWorkerInv
  <2>4. ContentWorkerInv' /\ DynamicPolicy'
    BY <1>cache, <2>1 DEF FinalizerInv, ContentWorkerInv, DynamicPolicy, VGCRemoveSteps
  <2> QED BY <2>2, <2>3, <2>4 DEF FinalizerInv
<1>9. CASE VGCSetHandle
  <2> DEFINE new == [vgcObj EXCEPT !.handle = TRUE]
  <2>1. vgcPc # "idle" /\ vgcReq \in ContentNames /\ vgcObj \in VGC /\ vgcs[vgcReq] = vgcObj
    BY <1>9, <1>busy DEF VGCSetHandle, VGCCurrent
  <2>2. /\ new \in VGC /\ new.fin = vgcObj.fin /\ new.deleting = vgcObj.deleting
        /\ new.policy = vgcObj.policy
    BY <2>1 DEF VGC
  <2>3. /\ vgcs' = [vgcs EXCEPT ![vgcReq] = new] /\ groups' = groups
        /\ vgcPc' = "readyStatus" /\ vgcReq' = vgcReq /\ vgcObj' = new
    BY <1>9 DEF VGCSetHandle, VGCWrite, VGCGoto
  <2>4. KeepsAll
    BY <2>1, <2>2, <2>3, WriteKeeps
  <2> QED BY <1>quiet, <1>policy, <2>1, <2>2, <2>3, <2>4 DEF VGCRemoveSteps
<1>10. CASE VGCCheckOwner \/ VGCDeletePVCs
  <2>1. /\ vgcPc \in VGCRemoveSteps /\ vgcPc # "idle" /\ vgcReq \in ContentNames
        /\ vgcs' = vgcs /\ groups' = groups
    BY <1>10, <1>busy DEF VGCCheckOwner, VGCDeletePVCs, VGCRemoveSteps
  <2>2. \/ vgcPc' = "idle"
        \/ /\ vgcPc' \in {"removeContent", "deletePVCs"} /\ vgcReq' = vgcReq
           /\ vgcObj' = vgcObj \/ (vgcCache[vgcReq] # NoObj /\ vgcObj' = vgcCache[vgcReq])
    BY <1>10 DEF VGCCheckOwner, VGCDeletePVCs, VGCGoto, VGCRequeue, VGCDone, VGCIdle
  <2>3. ContentWorkerInv'
    BY <1>cache, <2>1, <2>2 DEF FinalizerInv, ContentWorkerInv, VGCRemoveSteps
  <2>4. DynamicPolicy'
    BY <1>cache, <2>1, <2>2 DEF FinalizerInv, DynamicPolicy
  <2> QED BY <1>cache, <2>1, <2>3, <2>4, NothingKeeps, KeepsStore DEF FinalizerInv
<1>11. CASE VGCRemoveContent
  <2>1. /\ vgcPc = "removeContent" /\ vgcReq \in ContentNames /\ vgcs' = vgcs
        /\ groups' \subseteq groups
    BY <1>11, <1>busy DEF VGCRemoveContent
  <2>2. CASE vgcPc' = "idle"
    BY <1>quiet, <2>1, <2>2, NothingKeeps DEF VGCRemoveSteps
  <2>3. CASE /\ vgcPc' = "removeFinalizer" /\ vgcReq' = vgcReq /\ vgcObj' = vgcObj
             /\ vgcObj.policy = "Delete" => vgcReq \notin groups'
    <3>1. ContentWorkerInv'
      BY <1>cache, <1>policy, <2>1, <2>3 DEF FinalizerInv, ContentWorkerInv, VGCRemoveSteps
    <3>2. DynamicPolicy'
      BY <1>cache, <2>1, <2>3 DEF FinalizerInv, DynamicPolicy
    <3> QED BY <1>cache, <2>1, <3>1, <3>2, NothingKeeps, KeepsStore DEF FinalizerInv
  <2> QED
    BY <1>11, <2>2, <2>3 DEF VGCRemoveContent, VGCRequeue, VGCIdle, VGCGoto
<1>12. CASE VGCRemoveFinalizer
  <2>1. /\ vgcPc = "removeFinalizer" /\ vgcReq \in ContentNames /\ vgcObj \in VGC
        /\ vgcs[vgcReq] = vgcObj
    BY <1>12, <1>busy DEF VGCRemoveFinalizer, VGCCurrent
  <2>2. /\ vgcs' = [vgcs EXCEPT ![vgcReq] = Released(vgcObj)] /\ groups' = groups
        /\ vgcPc' = "idle"
    BY <1>12 DEF VGCRemoveFinalizer, VGCWrite, VGCDone, VGCIdle
  <2>3. Released(vgcObj) # NoObj =>
          /\ ~Released(vgcObj).fin /\ ~Released(vgcObj).deleting
          /\ Released(vgcObj).policy = vgcObj.policy
    BY <2>1 DEF Released, VGC
  <2>4. DeletingHasFinalizer'
    BY <2>1, <2>2, <2>3 DEF TypeOK, FinalizerInv, DeletingHasFinalizer
  <2>5. CacheSeesProtection'
    BY <1>cache, <2>1, <2>2, <2>3
    DEF TypeOK, FinalizerInv, CacheSeesProtection, ContentWorkerInv, VGCRemoveSteps, Protected
  <2>6. NoLeakedGroup'
    BY <2>1, <2>2 DEF TypeOK, FinalizerInv, NoLeakedGroup, ContentWorkerInv
  <2>7. ContentWorkerInv' /\ DynamicPolicy'
    BY <1>cache, <2>1, <2>2, <2>3
    DEF TypeOK, FinalizerInv, ContentWorkerInv, DynamicPolicy, VGCRemoveSteps
  <2> QED BY <2>4, <2>5, <2>6, <2>7 DEF FinalizerInv
<1>13. CASE VGCRetry
  <2>1. /\ vgcPc # "idle" /\ vgcReq \in ContentNames /\ vgcCache[vgcReq] # NoObj
        /\ vgcs' = vgcs /\ groups' = groups /\ vgcPc' = vgcPc /\ vgcReq' = vgcReq
        /\ vgcObj' = vgcCache[vgcReq]
    BY <1>13, <1>busy DEF VGCRetry, VGCRetrySteps
  <2>2. ContentWorkerInv'
    BY <1>cache, <2>1 DEF FinalizerInv, ContentWorkerInv
  <2>3. DynamicPolicy'
    BY <1>cache, <2>1 DEF FinalizerInv, DynamicPolicy
  <2> QED BY <1>cache, <2>1, <2>2, <2>3, NothingKeeps, KeepsStore DEF FinalizerInv
<1>14. CASE VGCRefused \/ VGCCallFails
  BY <1>14, <1>quiet, NothingKeeps
  DEF VGCRefused, VGCCallFails, VGCRequeue, VGCIdle, VGCRemoveSteps
<1> QED
  BY <1>2, <1>4, <1>6, <1>7, <1>8, <1>9, <1>10, <1>11, <1>12, <1>13, <1>14
  DEF VGCController, VGCStep

\* Every step keeps the invariant.
LEMMA NextInv == TypeOK /\ FinalizerInv /\ [Next]_vars => FinalizerInv'
<1> SUFFICES ASSUME TypeOK, FinalizerInv, [Next]_vars PROVE FinalizerInv'
  OBVIOUS
<1>1. CASE UNCHANGED vars
  BY <1>1, NothingKeeps, KeepsInv DEF vars, apiVars, cacheVars, vgcWorker
<1> QED
  BY <1>1, VGControllerInv, VGCControllerInv, EnvironmentInv DEF Next

LEMMA InitInv == Init => FinalizerInv
<1> SUFFICES ASSUME Init PROVE FinalizerInv
  OBVIOUS
<1>1. DeletingHasFinalizer /\ CacheSeesProtection /\ ContentWorkerInv
  BY DEF Init, DeletingHasFinalizer, CacheSeesProtection, ContentWorkerInv, VGCRemoveSteps
<1>2. DynamicPolicy
  BY NameFacts DEF Init, DynamicPolicy
<1>3. NoLeakedGroup
  BY NameFacts DEF Init, NoLeakedGroup
<1> QED BY <1>1, <1>2, <1>3 DEF FinalizerInv

\* FinalizerInv is an invariant: what the cache and the VolumeGroupContent
\* worker know of a finalizer is true of the store whenever they act on it.
THEOREM FinalizerInvariant == Spec => []FinalizerInv
BY InitInv, NextInv, TypeCorrect, PTL DEF Spec

\* With policy Delete no group the operator made is ever without a content
\* that carries the finalizer: through crashes, failed calls, conflicts,
\* stale reads and deletions by the user, for any number of groups.
THEOREM GroupsNeverLeak == Spec => []NoLeakedGroup
<1>1. FinalizerInv => NoLeakedGroup
  BY DEF FinalizerInv
<1> QED BY <1>1, FinalizerInvariant, PTL
=============================================================================
