------------------------ MODULE DeletionPolicyProofs ------------------------
(***************************************************************************)
(* The deletion policy of a content decides what becomes of it: proofs of  *)
(* RetainedStays and BoundIsReleased, for every value of the constants.    *)
(***************************************************************************)
EXTENDS GroupOwnershipProofs

\* What any step may do to a content: leave it alone, write it, remove it, or
\* create it.  Only the content worker sets and removes the finalizer, and no
\* write changes a policy that is there, takes a handle away or takes a
\* deletion back.
Written(c) ==
    LET old == vgcs[c]
        new == vgcs'[c] IN
      \/ new = old
      \/ /\ old # NoObj /\ new # NoObj
         /\ old.deleting => new.deleting
         /\ old.handle => new.handle
         /\ old.policy # "nil" => new.policy = old.policy
         /\ new.fin => old.fin \/ (vgcPc = "addFinalizer" /\ vgcReq = c)
      \/ /\ old # NoObj /\ new = NoObj
         /\ ~old.fin \/ (vgcPc = "removeFinalizer" /\ vgcReq = c)
      \/ /\ old = NoObj /\ new # NoObj /\ ~new.fin
         /\ c \in StaticContents => new.handle

\* A write of one content by anyone.
LEMMA WriteWritten ==
    ASSUME TypeOK, NEW d \in ContentNames, NEW new \in VGC, vgcs[d] # NoObj,
           vgcs' = [vgcs EXCEPT ![d] = new],
           vgcs[d].deleting => new.deleting, vgcs[d].handle => new.handle,
           vgcs[d].policy # "nil" => new.policy = vgcs[d].policy,
           new.fin => vgcs[d].fin \/ (vgcPc = "addFinalizer" /\ vgcReq = d)
    PROVE  \A c \in ContentNames : Written(c)
BY NameFacts DEF Written, TypeOK

\* A request to delete one.
LEMMA DeleteWritten ==
    ASSUME TypeOK, NEW d \in ContentNames, vgcs[d] # NoObj,
           vgcs' = [vgcs EXCEPT ![d] = Deleted(vgcs[d])]
    PROVE  \A c \in ContentNames : Written(c)
<1>1. vgcs[d] \in VGC
  BY DEF TypeOK
<1>2. CASE vgcs[d].fin
  <2> DEFINE new == [vgcs[d] EXCEPT !.deleting = TRUE]
  <2>1. /\ new \in VGC /\ new.fin /\ new.deleting /\ new.policy = vgcs[d].policy
        /\ new.handle = vgcs[d].handle
    BY <1>1, <1>2 DEF VGC
  <2>2. vgcs' = [vgcs EXCEPT ![d] = new]
    BY <1>2 DEF Deleted
  <2> HIDE DEF new
  <2> QED BY <1>2, <2>1, <2>2, WriteWritten
<1>3. CASE ~vgcs[d].fin
  <2>1. vgcs' = [vgcs EXCEPT ![d] = NoObj]
    BY <1>3 DEF Deleted
  <2> QED BY <1>3, <2>1 DEF Written, TypeOK
<1> QED BY <1>2, <1>3

\* Filling the specification in changes neither deletion, handle nor finalizer,
\* and no policy that is there.
LEMMA SpecWritten ==
    ASSUME NEW vgc \in VGC, NEW n \in Names
    PROVE  \A new \in {ThinSpec(vgc), StaticSpec(vgc), [StaticSpec(vgc) EXCEPT !.ref = n]} :
             /\ new \in VGC /\ new.deleting = vgc.deleting /\ new.handle = vgc.handle
             /\ new.fin = vgc.fin /\ (vgc.policy # "nil" => new.policy = vgc.policy)
<1>1. ThinSpec(vgc) \in VGC /\ StaticSpec(vgc) \in VGC
      /\ [StaticSpec(vgc) EXCEPT !.ref = n] \in VGC
  BY SpecFacts
<1>2. ASSUME NEW new, new = ThinSpec(vgc)
      PROVE  /\ new.deleting = vgc.deleting /\ new.handle = vgc.handle /\ new.fin = vgc.fin
             /\ vgc.policy # "nil" => new.policy = vgc.policy
  BY <1>2 DEF ThinSpec, VGC
<1>3. ASSUME NEW new, new = StaticSpec(vgc)
      PROVE  /\ new.deleting = vgc.deleting /\ new.handle = vgc.handle /\ new.fin = vgc.fin
             /\ vgc.policy # "nil" => new.policy = vgc.policy
  BY <1>3 DEF StaticSpec, VGC
<1>4. ASSUME NEW new, new = [StaticSpec(vgc) EXCEPT !.ref = n]
      PROVE  /\ new.deleting = vgc.deleting /\ new.handle = vgc.handle /\ new.fin = vgc.fin
             /\ vgc.policy # "nil" => new.policy = vgc.policy
  BY <1>4 DEF StaticSpec, VGC
<1> QED BY <1>1, <1>2, <1>3, <1>4

\* The steps of the VolumeGroup worker.
LEMMA VGControllerWritten ==
    TypeOK /\ VGController => \A c \in ContentNames : Written(c)
<1> SUFFICES ASSUME TypeOK, VGController PROVE \A c \in ContentNames : Written(c)
  OBVIOUS
<1>same. vgcs' = vgcs => \A c \in ContentNames : Written(c)
  BY DEF Written
<1>busy. vgPc # "idle" => vgReq \in Names /\ vgObj \in VG
  BY DEF TypeOK
<1>1. CASE VGCreateContent
  <2> DEFINE d == MakeVGName(vgObj.uid)
             new == NewVGC(vgReq)
  <2>1. d \in DynamicContents /\ d \in ContentNames /\ new \in VGC
    BY <1>1, <1>busy, NameFacts, NewVGCType DEF VGCreateContent, VG
  <2>2. ~new.fin /\ ~new.deleting
    BY DEF NewVGC
  <2>3. vgcs' = IF vgcs[d] = NoObj THEN [vgcs EXCEPT ![d] = new] ELSE vgcs
    BY <1>1 DEF VGCreateContent
  <2> HIDE DEF d, new
  <2> QED BY <1>same, <2>1, <2>2, <2>3, NameFacts DEF Written, TypeOK
<1>2. CASE VGBindContent
  <2> DEFINE d == vgObj.content
             new == [StaticSpec(vgcCache[d]) EXCEPT !.ref = vgReq]
  <2>1. CASE vgcCache[d] # NoObj /\ vgcs[d] = vgcCache[d] /\ d \in ContentNames
    <3>1. vgcs' = [vgcs EXCEPT ![d] = new] /\ vgcs[d] \in VGC /\ vgReq \in Names
      BY <1>2, <1>busy, <2>1 DEF VGBindContent, TypeOK
    <3>2. /\ new \in VGC /\ new.deleting = vgcs[d].deleting /\ new.handle = vgcs[d].handle
          /\ new.fin = vgcs[d].fin /\ (vgcs[d].policy # "nil" => new.policy = vgcs[d].policy)
      BY <2>1, <3>1, SpecWritten
    <3> HIDE DEF d, new
    <3> QED BY <2>1, <3>1, <3>2, WriteWritten
  <2>2. CASE ~(vgcCache[d] # NoObj /\ vgcs[d] = vgcCache[d])
    BY <1>2, <1>same, <2>2 DEF VGBindContent
  <2>3. CASE d \notin ContentNames
    <3>1. vgcs' = vgcs \/ vgcs' = [vgcs EXCEPT ![d] = new]
      BY <1>2 DEF VGBindContent
    <3> HIDE DEF d, new
    <3>2. [vgcs EXCEPT ![d] = new] = vgcs
      BY <2>3 DEF TypeOK
    <3> QED BY <1>same, <3>1, <3>2
  <2> QED BY <2>1, <2>2, <2>3
<1>3. CASE VGDeleteContent
  <2> DEFINE d == vgObj.content
  <2>1. vgcs' = vgcs \/ (vgcs' = [vgcs EXCEPT ![d] = Deleted(vgcs[d])] /\ d # NoName /\ vgcs[d] # NoObj)
    BY <1>3 DEF VGDeleteContent
  <2>2. d \in ContentNames \cup {NoName}
    BY <1>3, <1>busy DEF VGDeleteContent, VG
  <2> HIDE DEF d
  <2> QED BY <1>same, <2>1, <2>2, DeleteWritten
<1> QED
  BY <1>same, <1>1, <1>2, <1>3
  DEF VGController, VGStep, VGStart, PVCEvent, VGReconcile, VGAddFinalizer, VGCheckReady,
      VGSetContent, VGSetStatus, VGConfirmStatus, VGMembers, VGRemoveFinalizer, VGRetry,
      VGRefused, VGCallFails, apiVars

\* The steps of the VolumeGroupContent worker.
LEMMA VGCControllerWritten ==
    TypeOK /\ VGCController => \A c \in ContentNames : Written(c)
<1> SUFFICES ASSUME TypeOK, VGCController PROVE \A c \in ContentNames : Written(c)
  OBVIOUS
<1>same. vgcs' = vgcs => \A c \in ContentNames : Written(c)
  BY DEF Written
<1>busy. vgcPc # "idle" => vgcReq \in ContentNames /\ vgcObj \in VGC
  BY DEF TypeOK
<1>write. ASSUME NEW new \in VGC, vgcPc # "idle", VGCCurrent, VGCWrite(new),
                 vgcObj.deleting => new.deleting, vgcObj.handle => new.handle,
                 new.policy = vgcObj.policy, new.fin => vgcObj.fin \/ vgcPc = "addFinalizer"
          PROVE  \A c \in ContentNames : Written(c)
  <2>1. vgcReq \in ContentNames /\ vgcs[vgcReq] = vgcObj /\ vgcObj # NoObj
    BY <1>write, <1>busy, NameFacts DEF VGCCurrent
  <2>2. vgcs' = [vgcs EXCEPT ![vgcReq] = new]
    BY <1>write DEF VGCWrite
  <2> QED BY <1>write, <2>1, <2>2, WriteWritten
<1>1. ASSUME NEW pc \in {"thinSpec", "staticSpec"}, NEW next,
             NEW spec \in {ThinSpec(vgcCache[vgcReq]), StaticSpec(vgcCache[vgcReq])},
             FreshSpecUpdate(pc, spec, next)
      PROVE  \A c \in ContentNames : Written(c)
  <2>1. CASE vgcCache[vgcReq] # NoObj /\ vgcs[vgcReq] = vgcCache[vgcReq]
    <3>1. /\ vgcs' = [vgcs EXCEPT ![vgcReq] = spec] /\ vgcReq \in ContentNames
          /\ vgcs[vgcReq] \in VGC
      BY <1>1, <1>busy, <2>1 DEF FreshSpecUpdate, VGCWrite, TypeOK
    <3>2. /\ spec \in VGC /\ spec.deleting = vgcs[vgcReq].deleting
          /\ spec.handle = vgcs[vgcReq].handle /\ spec.fin = vgcs[vgcReq].fin
          /\ vgcs[vgcReq].policy # "nil" => spec.policy = vgcs[vgcReq].policy
      <4>1. spec \in {ThinSpec(vgcs[vgcReq]), StaticSpec(vgcs[vgcReq])}
        BY <1>1, <2>1
      <4>2. ThinSpec(vgcs[vgcReq]) \in VGC /\ StaticSpec(vgcs[vgcReq]) \in VGC
        BY <3>1, SpecFacts
      <4>3. CASE spec = ThinSpec(vgcs[vgcReq])
        BY <3>1, <4>2, <4>3 DEF ThinSpec, VGC
      <4>4. CASE spec = StaticSpec(vgcs[vgcReq])
        BY <3>1, <4>2, <4>4 DEF StaticSpec, VGC
      <4> QED BY <4>1, <4>3, <4>4
    <3> QED BY <2>1, <3>1, <3>2, WriteWritten
  <2>2. CASE ~(vgcCache[vgcReq] # NoObj /\ vgcs[vgcReq] = vgcCache[vgcReq])
    BY <1>1, <1>same, <2>2 DEF FreshSpecUpdate
  <2> QED BY <2>1, <2>2
<1>2. CASE VGCThinSpec \/ VGCStaticSpec
  BY <1>1, <1>2 DEF VGCThinSpec, VGCStaticSpec
<1>3. ASSUME NEW pc \in {"thinStatus", "readyStatus"}, NEW ready \in BOOLEAN,
             StatusUpdate(pc, ready)
      PROVE  \A c \in ContentNames : Written(c)
  <2> DEFINE new == [vgcObj EXCEPT !.ready = ready]
  <2>1. vgcPc # "idle" /\ VGCCurrent /\ VGCWrite(new)
    BY <1>3 DEF StatusUpdate
  <2>2. /\ new \in VGC /\ new.deleting = vgcObj.deleting /\ new.handle = vgcObj.handle
        /\ new.policy = vgcObj.policy /\ new.fin = vgcObj.fin
    BY <1>3, <1>busy, <2>1 DEF VGC
  <2> HIDE DEF new
  <2> QED BY <1>write, <2>1, <2>2
<1>4. CASE VGCThinStatus \/ VGCReadyStatus
  BY <1>3, <1>4 DEF VGCThinStatus, VGCReadyStatus
<1>5. CASE VGCAddFinalizer
  <2> DEFINE new == [vgcObj EXCEPT !.fin = TRUE]
  <2>1. vgcPc = "addFinalizer" /\ vgcPc # "idle" /\ VGCCurrent /\ VGCWrite(new)
    BY <1>5 DEF VGCAddFinalizer
  <2>2. /\ new \in VGC /\ new.deleting = vgcObj.deleting /\ new.handle = vgcObj.handle
        /\ new.policy = vgcObj.policy
    BY <1>busy, <2>1 DEF VGC
  <2> HIDE DEF new
  <2> QED BY <1>write, <2>1, <2>2
<1>6. CASE VGCSetHandle
  <2> DEFINE new == [vgcObj EXCEPT !.handle = TRUE]
  <2>1. vgcPc # "idle" /\ VGCCurrent /\ VGCWrite(new)
    BY <1>6 DEF VGCSetHandle
  <2>2. /\ new \in VGC /\ new.deleting = vgcObj.deleting /\ new.handle
        /\ new.policy = vgcObj.policy /\ new.fin = vgcObj.fin
    BY <1>busy, <2>1 DEF VGC
  <2> HIDE DEF new
  <2> QED BY <1>write, <2>1, <2>2
<1>7. CASE VGCRemoveFinalizer
  <2>1. /\ vgcPc = "removeFinalizer" /\ vgcPc # "idle" /\ VGCCurrent
        /\ VGCWrite(Released(vgcObj)) /\ vgcObj \in VGC /\ vgcReq \in ContentNames
    BY <1>7, <1>busy DEF VGCRemoveFinalizer
  <2>2. CASE vgcObj.deleting
    <3>1. vgcs' = [vgcs EXCEPT ![vgcReq] = NoObj] /\ vgcs[vgcReq] # NoObj
      BY <2>1, <2>2, NameFacts DEF VGCWrite, VGCCurrent, Released
    <3> QED BY <2>1, <3>1 DEF Written, TypeOK
  <2>3. CASE ~vgcObj.deleting
    <3> DEFINE new == [vgcObj EXCEPT !.fin = FALSE]
    <3>1. /\ new \in VGC /\ new.deleting = vgcObj.deleting /\ new.handle = vgcObj.handle
          /\ new.policy = vgcObj.policy /\ ~new.fin
      BY <2>1 DEF VGC
    <3>2. VGCWrite(new)
      BY <2>1, <2>3 DEF Released
    <3> HIDE DEF new
    <3> QED BY <1>write, <2>1, <3>1, <3>2
  <2> QED BY <2>2, <2>3
<1> QED
  BY <1>same, <1>2, <1>4, <1>5, <1>6, <1>7
  DEF VGCController, VGCStep, VGCStart, BindingEvent, VGCReconcile, VGCCreateGroup,
      VGCCheckOwner, VGCDeletePVCs, VGCRemoveContent, VGCRetry, VGCRefused, VGCCallFails

\* Every step writes contents in one of these ways.
LEMMA NextWritten == TypeOK /\ [Next]_vars => \A c \in ContentNames : Written(c)
<1> SUFFICES ASSUME TypeOK, [Next]_vars PROVE \A c \in ContentNames : Written(c)
  OBVIOUS
<1>same. vgcs' = vgcs => \A c \in ContentNames : Written(c)
  BY DEF Written
<1>1. ASSUME NEW d \in ContentNames, DeleteVGC(d) PROVE \A c \in ContentNames : Written(c)
  BY <1>1, DeleteWritten DEF DeleteVGC
<1>2. ASSUME NEW d \in StaticContents, NEW class \in BOOLEAN, NEW policy \in Policies,
             CreateStaticVGC(d, class, policy)
      PROVE  \A c \in ContentNames : Written(c)
  <2> DEFINE new == [class |-> class, ref |-> NoName, handle |-> TRUE, policy |-> policy,
                     ready |-> FALSE, deleting |-> FALSE, fin |-> FALSE]
  <2>1. vgcs[d] = NoObj /\ vgcs' = [vgcs EXCEPT ![d] = new] /\ d \in ContentNames
    BY <1>2, NameFacts DEF CreateStaticVGC
  <2>2. ~new.fin /\ new.handle
    OBVIOUS
  <2>3. new \in VGC
    BY <1>2 DEF VGC
  <2> HIDE DEF new
  <2> QED BY <2>1, <2>2, <2>3, NameFacts DEF Written, TypeOK
<1>3. CASE User
  <2>1. CASE \E n \in Names : \/ \E u \in UIDs, content \in SourceContents : CreateVG(n, u, content)
                              \/ DeleteVG(n)
    BY <1>same, <2>1 DEF CreateVG, DeleteVG
  <2> QED BY <1>1, <1>2, <1>3, <2>1 DEF User
<1>4. CASE Watches \/ Restart \/ UNCHANGED vars
  BY <1>4, <1>same DEF Watches, SyncVG, SyncVGC, Restart, vars, apiVars
<1> QED BY <1>3, <1>4, VGControllerWritten, VGCControllerWritten DEF Next

-----------------------------------------------------------------------------
(***************************************************************************)
(* RetainedStays.  The group of a static content is deleted on the word of *)
(* a copy; its name may have been given to another content since.          *)
(***************************************************************************)
Marked(vgc, policy) == vgc # NoObj /\ vgc.deleting /\ vgc.fin /\ vgc.policy = policy

\* The group is gone, or the content in the store is to be deleted with it.
Settled(c) == c \notin groups \/ Marked(vgcs[c], "Delete")

\* The content in the store says Retain, if it has the finalizer.
RetainStands(c) == HasFin(vgcs[c]) => vgcs[c].policy = "Retain"

\* The inductive invariant behind RetainedStays: what a copy the worker may act
\* on says about the policy is still so.  Static contents come with a handle,
\* so no group is ever created for one.
RetainInv ==
    /\ \A c \in StaticContents :
          /\ vgcs[c] # NoObj => vgcs[c].handle
          /\ vgcCache[c] # NoObj => vgcCache[c].handle
          /\ Marked(vgcCache[c], "Delete") => Settled(c)
          /\ Marked(vgcCache[c], "Retain") => RetainStands(c)
    /\ vgcReq \in StaticContents =>
          /\ vgcPc \notin {"createGroup", "deletePVCs"} /\ vgcObj.handle
          /\ Marked(vgcObj, "Delete") => Settled(vgcReq)
          /\ vgcPc \in {"checkOwner", "removeContent"} =>
                vgcObj.deleting /\ (Marked(vgcObj, "Retain") => RetainStands(vgcReq))
          /\ vgcPc = "removeContent" => vgcObj.fin
          /\ vgcPc = "removeFinalizer" => vgcReq \notin groups \/ RetainStands(vgcReq)

\* What a step keeps of it in the store.
LEMMA RetainStore ==
    ASSUME TypeOK, FinalizerInv, FinalizerInv', RetainInv,
           NEW c \in StaticContents, Written(c), c \in groups' => c \in groups
    PROVE  /\ vgcs'[c] # NoObj => vgcs'[c].handle
           /\ Settled(c) => Settled(c)'
           /\ RetainStands(c) /\ ~(vgcPc = "addFinalizer" /\ vgcReq = c) => RetainStands(c)'
           /\ Marked(vgcCache[c], "Retain") => RetainStands(c)'
<1>0. c \in ContentNames
  BY NameFacts
<1>1. vgcs'[c] # NoObj => vgcs'[c].handle
  BY DEF Written, RetainInv
<1>2. ASSUME Settled(c) PROVE Settled(c)'
  <2>1. CASE c \notin groups
    BY <2>1 DEF Settled
  <2>2. CASE Marked(vgcs[c], "Delete") /\ vgcs'[c] # NoObj
    <3>1. vgcs'[c].deleting /\ vgcs'[c].policy = "Delete"
      BY <2>2 DEF Written, Marked
    <3>2. vgcs'[c].fin
      BY <1>0, <2>2, <3>1 DEF FinalizerInv, DeletingHasFinalizer
    <3> QED BY <2>2, <3>1, <3>2 DEF Settled, Marked
  <2>3. CASE Marked(vgcs[c], "Delete") /\ vgcs'[c] = NoObj
    <3>1. vgcPc = "removeFinalizer" /\ vgcReq = c
      BY <2>3 DEF Written, Marked
    <3>2. ~RetainStands(c)
      BY <2>3 DEF RetainStands, Marked, HasFin
    <3>3. c \notin groups
      BY <3>1, <3>2 DEF RetainInv
    <3> QED BY <3>3 DEF Settled
  <2> QED BY <1>2, <2>1, <2>2, <2>3 DEF Settled
<1>3. RetainStands(c) /\ ~(vgcPc = "addFinalizer" /\ vgcReq = c) => RetainStands(c)'
  BY DEF RetainStands, HasFin, Written
<1>4. ASSUME Marked(vgcCache[c], "Retain") PROVE RetainStands(c)'
  <2>1. RetainStands(c)
    BY <1>4 DEF RetainInv
  <2>2. CASE vgcPc = "addFinalizer" /\ vgcReq = c
    <3>1. vgcs[c] # NoObj /\ vgcs[c].fin /\ vgcs[c].deleting
      BY <1>4, <2>2 DEF FinalizerInv, ContentWorkerInv, Marked
    <3>2. vgcs[c].policy = "Retain"
      BY <2>1, <3>1 DEF RetainStands, HasFin
    <3> QED BY <3>1, <3>2 DEF Written, RetainStands, HasFin
  <2> QED BY <1>3, <2>1, <2>2
<1> QED BY <1>1, <1>2, <1>3, <1>4

\* Steps that leave the cache alone keep the first part.
LEMMA RetainCopies ==
    ASSUME TypeOK, FinalizerInv, FinalizerInv', RetainInv,
           \A c \in StaticContents : Written(c) /\ (c \in groups' => c \in groups),
           \A c \in StaticContents :
              vgcCache'[c] = vgcCache[c] \/ (vgcCache'[c] = vgcs[c] /\ vgcs' = vgcs /\ groups' = groups)
    PROVE  \A c \in StaticContents :
             /\ vgcs'[c] # NoObj => vgcs'[c].handle
             /\ vgcCache'[c] # NoObj => vgcCache'[c].handle
             /\ Marked(vgcCache'[c], "Delete") => Settled(c)'
             /\ Marked(vgcCache'[c], "Retain") => RetainStands(c)'
<1> TAKE c \in StaticContents
<1>1. /\ vgcs'[c] # NoObj => vgcs'[c].handle
      /\ Settled(c) => Settled(c)'
      /\ Marked(vgcCache[c], "Retain") => RetainStands(c)'
  BY RetainStore
<1>2. CASE vgcCache'[c] = vgcCache[c]
  BY <1>1, <1>2 DEF RetainInv
<1>3. CASE vgcCache'[c] = vgcs[c] /\ vgcs' = vgcs /\ groups' = groups
  <2>1. vgcCache'[c] # NoObj => vgcCache'[c].handle
    BY <1>3 DEF RetainInv
  <2> QED BY <1>1, <1>3, <2>1 DEF Settled, RetainStands, Marked
<1> QED BY <1>2, <1>3

\* Steps of anyone but the VolumeGroupContent worker keep RetainInv.
LEMMA OthersRetain ==
    ASSUME TypeOK, FinalizerInv, FinalizerInv', RetainInv,
           \A c \in StaticContents : Written(c),
           groups' = groups, vgcPc' = vgcPc, vgcReq' = vgcReq, vgcObj' = vgcObj,
           \A c \in StaticContents :
              vgcCache'[c] = vgcCache[c] \/ (vgcCache'[c] = vgcs[c] /\ vgcs' = vgcs)
    PROVE  RetainInv'
<1>1. \A c \in StaticContents :
             /\ vgcs'[c] # NoObj => vgcs'[c].handle
             /\ vgcCache'[c] # NoObj => vgcCache'[c].handle
             /\ Marked(vgcCache'[c], "Delete") => Settled(c)'
             /\ Marked(vgcCache'[c], "Retain") => RetainStands(c)'
  BY RetainCopies
<1>2. vgcReq \in StaticContents =>
        /\ Settled(vgcReq) => Settled(vgcReq)'
        /\ RetainStands(vgcReq) /\ vgcPc # "addFinalizer" => RetainStands(vgcReq)'
  BY RetainStore
<1> QED BY <1>1, <1>2 DEF RetainInv, Marked

\* The VolumeGroupContent worker keeps RetainInv, if DeletePVCsUnderVGC does not
\* fetch the content again between the check and the deletion.
LEMMA VGCControllerRetain ==
    ASSUME DisableDeletePvcs \/ StaticContents = {},
           TypeOK, TypeOK', FinalizerInv, FinalizerInv', RetainInv, VGCController
    PROVE  RetainInv'
<1>busy. vgcPc # "idle" => vgcReq \in ContentNames /\ vgcObj \in VGC
  BY DEF TypeOK
<1>idle. vgcPc' = "idle" => vgcReq' \notin StaticContents
  BY NameFacts DEF TypeOK
<1>written. \A c \in StaticContents : Written(c)
  BY NextWritten, NameFacts DEF Next
<1>cache. vgcCache' = vgcCache
  BY DEF VGCController, VGCStep, VGCStart, BindingEvent, VGCReconcile, VGCThinSpec,
         VGCStaticSpec, FreshSpecUpdate, VGCThinStatus, VGCReadyStatus, StatusUpdate,
         VGCAddFinalizer, VGCCreateGroup, VGCSetHandle, VGCCheckOwner, VGCDeletePVCs,
         VGCRemoveContent, VGCRemoveFinalizer, VGCRetry, VGCRefused, VGCCallFails,
         VGCFrame, cacheVars
<1>groups. \A c \in StaticContents : c \in groups' => c \in groups
  <2>1. CASE VGCCreateGroup
    BY <2>1 DEF VGCCreateGroup, RetainInv
  <2>2. CASE ~VGCCreateGroup
    BY <2>2 DEF VGCController, VGCStep, VGCStart, BindingEvent, VGCReconcile, VGCThinSpec,
         VGCStaticSpec, FreshSpecUpdate, VGCThinStatus, VGCReadyStatus, StatusUpdate,
         VGCAddFinalizer, VGCSetHandle, VGCCheckOwner, VGCDeletePVCs,
         VGCRemoveContent, VGCRemoveFinalizer, VGCRetry, VGCRefused, VGCCallFails
  <2> QED BY <2>1, <2>2
<1>copies. \A c \in StaticContents :
             /\ vgcs'[c] # NoObj => vgcs'[c].handle
             /\ vgcCache'[c] # NoObj => vgcCache'[c].handle
             /\ Marked(vgcCache'[c], "Delete") => Settled(c)'
             /\ Marked(vgcCache'[c], "Retain") => RetainStands(c)'
  BY <1>written, <1>cache, <1>groups, RetainCopies
<1>store. vgcReq \in StaticContents /\ vgcReq' = vgcReq =>
            /\ Settled(vgcReq) => Settled(vgcReq)'
            /\ RetainStands(vgcReq) /\ vgcPc # "addFinalizer" => RetainStands(vgcReq)'
  BY <1>written, <1>groups, RetainStore
\* The second part, where the worker is on its way to anything but removal.
<1>forward. ASSUME vgcPc' \notin VGCRemoveSteps \cup {"createGroup"},
                   vgcReq' \in StaticContents => vgcObj' \in VGC /\ vgcObj'.handle,
                   vgcReq' \in StaticContents /\ Marked(vgcObj', "Delete") => Settled(vgcReq)'
            PROVE  RetainInv'
  BY <1>forward, <1>copies DEF RetainInv, VGCRemoveSteps
<1>1. CASE vgcPc' = "idle"
  BY <1>1, <1>idle, <1>copies DEF RetainInv
<1>2. ASSUME NEW c \in ContentNames, VGCReconcile(c), vgcPc' # "idle" PROVE RetainInv'
  <2>1. /\ vgcPc' = ContentStep(vgcCache[c]) /\ vgcReq' = c /\ vgcObj' = vgcCache[c]
        /\ vgcCache[c] # NoObj /\ vgcCache[c] \in VGC
    BY <1>2 DEF VGCReconcile, VGCIdle, TypeOK
  <2>2. /\ vgcPc' \notin {"deletePVCs", "removeContent", "removeFinalizer"}
        /\ vgcPc' = "checkOwner" => vgcObj'.deleting
        /\ vgcPc' = "createGroup" => ~vgcObj'.handle
    BY <2>1 DEF ContentStep, GroupStep, VGC
  <2> QED BY <1>copies, <1>cache, <2>1, <2>2 DEF RetainInv
\* A step that does not write the copy.
<1>3. CASE /\ VGCThinSpec \/ VGCStaticSpec \/ VGCCreateGroup
           /\ vgcPc' # "idle"
  <2>1. /\ vgcPc' \in {"thinStatus", "readyStatus", "setHandle"} /\ vgcReq' = vgcReq
        /\ vgcObj' = vgcObj /\ vgcPc # "idle"
    BY <1>3 DEF VGCThinSpec, VGCStaticSpec, FreshSpecUpdate, VGCCreateGroup, VGCGoto,
                VGCRequeue, VGCIdle
  <2> QED BY <1>forward, <1>store, <1>busy, <2>1 DEF VGCRemoveSteps, RetainInv, Marked
\* A step that holds on to what it wrote.
<1>4. CASE VGCAddFinalizer \/ VGCSetHandle
  <2>1. /\ vgcReq \in ContentNames /\ vgcReq' = vgcReq /\ vgcPc' # "idle"
        /\ vgcPc' \in {"staticSpec", "createGroup", "readyStatus"}
    BY <1>4, <1>busy DEF VGCAddFinalizer, VGCSetHandle, VGCGoto, GroupStep
  <2>2. vgcs'[vgcReq] = vgcObj'
    BY <1>4, <2>1 DEF VGCAddFinalizer, VGCSetHandle, VGCWrite, TypeOK
  <2>3. vgcObj' \in VGC /\ vgcObj' # NoObj
    BY <2>1, NameFacts DEF TypeOK
  <2>4. vgcPc' = "createGroup" => ~vgcObj'.handle
    BY <1>4 DEF VGCAddFinalizer, VGCSetHandle, VGCGoto, GroupStep
  <2>5. vgcReq \in StaticContents => vgcObj'.handle
    BY <1>copies, <2>2, <2>3
  <2>6. vgcReq \in StaticContents /\ Marked(vgcObj', "Delete") => Settled(vgcReq)'
    BY <2>1, <2>2 DEF Settled
  <2> QED BY <1>copies, <2>1, <2>3, <2>4, <2>5, <2>6 DEF RetainInv, VGCRemoveSteps
<1>5. CASE VGCCheckOwner /\ vgcPc' # "idle"
  <2>1. /\ vgcPc = "checkOwner" /\ vgcReq' = vgcReq /\ vgcObj' = vgcObj /\ vgcObj.fin
        /\ StaticContents # {} => vgcPc' = "removeContent"
    BY <1>5 DEF VGCCheckOwner, VGCRequeue, VGCDone, VGCIdle, VGCGoto
  <2> QED BY <1>copies, <1>store, <2>1 DEF RetainInv, Marked
<1>6. CASE VGCDeletePVCs
  <2>1. vgcReq' = vgcReq /\ vgcReq \notin StaticContents
    BY <1>6 DEF VGCDeletePVCs, VGCGoto, RetainInv
  <2> QED BY <1>copies, <2>1 DEF RetainInv
<1>7. CASE VGCRemoveContent /\ vgcPc' # "idle"
  <2>1. /\ vgcPc = "removeContent" /\ vgcPc' = "removeFinalizer" /\ vgcReq' = vgcReq
        /\ vgcObj' = vgcObj /\ vgcs' = vgcs /\ vgcObj \in VGC /\ vgcObj # NoObj
        /\ vgcObj.policy # "nil" /\ (vgcObj.policy = "Delete" => vgcReq \notin groups')
    BY <1>7, <1>busy, NameFacts DEF VGCRemoveContent, VGCRequeue, VGCIdle, VGCGoto
  <2>2. vgcReq \in StaticContents /\ vgcObj.policy # "Delete" => RetainStands(vgcReq)
    BY <2>1 DEF RetainInv, Marked, VGC, Policies
  <2>3. vgcReq \in StaticContents => vgcReq \notin groups' \/ RetainStands(vgcReq)'
    BY <1>store, <2>1, <2>2
  <2> QED BY <1>copies, <1>store, <2>1, <2>3 DEF RetainInv, Marked
<1>8. CASE VGCRetry
  <2>1. /\ vgcPc \in {"addFinalizer", "removeFinalizer"} /\ vgcPc' = vgcPc /\ vgcReq' = vgcReq
        /\ vgcObj' = vgcCache[vgcReq] /\ vgcCache[vgcReq] # NoObj
    BY <1>8 DEF VGCRetry, VGCRetrySteps
  <2>2. vgcReq \in StaticContents /\ vgcPc = "removeFinalizer"
          => vgcReq \notin groups' \/ RetainStands(vgcReq)'
    BY <1>store, <1>groups, <2>1 DEF RetainInv
  <2> QED BY <1>copies, <1>cache, <2>1, <2>2 DEF RetainInv
<1>9. CASE /\ VGCThinStatus \/ VGCReadyStatus \/ VGCRemoveFinalizer \/ VGCRefused \/ VGCCallFails
  BY <1>1, <1>9 DEF VGCThinStatus, VGCReadyStatus, StatusUpdate, VGCRemoveFinalizer,
       VGCRefused, VGCCallFails, VGCDone, VGCRequeue, VGCIdle
<1> QED
  BY <1>1, <1>2, <1>3, <1>4, <1>5, <1>6, <1>7, <1>8, <1>9
  DEF VGCController, VGCStep, VGCStart, BindingEvent

\* Every step keeps RetainInv.
LEMMA NextRetain ==
    ASSUME DisableDeletePvcs \/ StaticContents = {}
    PROVE  TypeOK /\ FinalizerInv /\ RetainInv /\ [Next]_vars => RetainInv'
<1> SUFFICES ASSUME TypeOK, FinalizerInv, RetainInv, [Next]_vars PROVE RetainInv'
  OBVIOUS
<1>1. TypeOK' /\ FinalizerInv' /\ \A c \in StaticContents : Written(c)
  BY NextType, NextInv, NextWritten, NameFacts
<1>2. CASE VGController \/ User \/ UNCHANGED vars
  <2>1. /\ groups' = groups /\ vgcPc' = vgcPc /\ vgcReq' = vgcReq /\ vgcObj' = vgcObj
        /\ vgcCache' = vgcCache
    BY <1>2 DEF VGController, VGStep, VGStart, PVCEvent, VGReconcile, VGAddFinalizer,
         VGCreateContent, VGCheckReady, VGSetContent, VGSetStatus, VGConfirmStatus,
         VGBindContent, VGMembers, VGDeleteContent, VGRemoveFinalizer, VGRetry,
         VGRefused, VGCallFails, VGFrame, User, CreateVG, DeleteVG, CreateStaticVGC, DeleteVGC,
         WorkersFrame, vars, cacheVars, vgcWorker
  <2> QED BY <1>1, <2>1, OthersRetain
<1>3. CASE Watches
  <2>1. /\ groups' = groups /\ vgcPc' = vgcPc /\ vgcReq' = vgcReq /\ vgcObj' = vgcObj
        /\ vgcs' = vgcs /\ \A c \in ContentNames : vgcCache'[c] \in {vgcCache[c], vgcs[c]}
    BY <1>3 DEF Watches, SyncVG, SyncVGC, WorkersFrame, vgcWorker, apiVars, TypeOK
  <2>2. \A c \in StaticContents :
              vgcCache'[c] = vgcCache[c] \/ (vgcCache'[c] = vgcs[c] /\ vgcs' = vgcs)
    BY <2>1, NameFacts
  <2> QED BY <1>1, <2>1, <2>2, OthersRetain
<1>4. CASE Restart
  <2>1. /\ groups' = groups /\ vgcs' = vgcs /\ vgcCache' = vgcs /\ vgcReq' = NoName
    BY <1>4 DEF Restart, VGCIdle, apiVars
  <2>2. \A c \in StaticContents :
             /\ vgcs'[c] # NoObj => vgcs'[c].handle
             /\ vgcCache'[c] # NoObj => vgcCache'[c].handle
             /\ Marked(vgcCache'[c], "Delete") => Settled(c)'
             /\ Marked(vgcCache'[c], "Retain") => RetainStands(c)'
    BY <1>1, <2>1, RetainCopies
  <2> QED BY <2>1, <2>2, NameFacts DEF RetainInv
<1> QED BY <1>1, <1>2, <1>3, <1>4, VGCControllerRetain DEF Next

\* A group is deleted only under a content that is there and says Delete, if
\* no static content is fetched again in the middle of its removal: the policy
\* the worker looked at is that of the content in the store, although a user
\* may give its name to another.
THEOREM RetainHonoured ==
    ASSUME DisableDeletePvcs \/ StaticContents = {}
    PROVE  Spec => RetainedStays
<1>1. Init => RetainInv
  BY NameFacts DEF Init, RetainInv, Marked
<1>2. TypeOK /\ FinalizerInv /\ RetainInv /\ [Next]_vars =>
        [\A c \in groups \ groups' : vgcs[c] # NoObj /\ vgcs[c].policy = "Delete"]_vars
  <2> SUFFICES ASSUME TypeOK, FinalizerInv, RetainInv, [Next]_vars, NEW c \in groups \ groups'
               PROVE  vgcs[c] # NoObj /\ vgcs[c].policy = "Delete"
    OBVIOUS
  <2>1. VGCRemoveContent
    BY DEF Next, VGController, VGStep, VGStart, PVCEvent, VGReconcile, VGAddFinalizer,
         VGCreateContent, VGCheckReady, VGSetContent, VGSetStatus, VGConfirmStatus,
         VGBindContent, VGMembers, VGDeleteContent, VGRemoveFinalizer, VGRetry,
         VGRefused, VGCallFails, VGFrame, User, CreateVG, DeleteVG, CreateStaticVGC, DeleteVGC,
         WorkersFrame, vars, Watches, SyncVG, SyncVGC, Restart,
         VGCController, VGCStep, VGCStart, BindingEvent, VGCReconcile, VGCThinSpec,
         VGCStaticSpec, FreshSpecUpdate, VGCThinStatus, VGCReadyStatus, StatusUpdate,
         VGCAddFinalizer, VGCCreateGroup, VGCSetHandle, VGCCheckOwner, VGCDeletePVCs,
         VGCRemoveFinalizer, VGCRetry, VGCRefused, VGCCallFails
  <2>2. /\ vgcPc = "removeContent" /\ c = vgcReq /\ c \in ContentNames
        /\ vgcObj \in VGC /\ vgcObj # NoObj /\ vgcObj.policy = "Delete"
    BY <2>1, NameFacts DEF VGCRemoveContent, TypeOK
  <2>3. CASE c \in StaticContents
    BY <2>2, <2>3 DEF RetainInv, Settled, Marked
  <2>4. CASE c \in DynamicContents
    <3>1. DeletionPolicy = "Delete"
      BY <2>2, <2>4 DEF FinalizerInv, DynamicPolicy
    <3> QED BY <2>4, <3>1 DEF FinalizerInv, NoLeakedGroup, DynamicPolicy
  <2> QED BY <2>2, <2>3, <2>4 DEF ContentNames
<1> QED
  BY <1>1, <1>2, NextRetain, TypeCorrect, FinalizerInvariant, PTL DEF Spec, RetainedStays

-----------------------------------------------------------------------------
(***************************************************************************)
(* BoundIsReleased.  A VolumeGroup loses its finalizer, and goes, in a     *)
(* reconcile that decided about the content from cached copies of both.    *)
(***************************************************************************)

\* What any step may do to a VolumeGroup.
GroupWritten(n) ==
    LET old == vgs[n]
        new == vgs'[n] IN
      \/ new = old
      \/ /\ old # NoObj /\ new # NoObj /\ new.uid = old.uid
         /\ old.fin => new.fin \/ (vgPc = "removeFinalizer" /\ vgReq = n /\ ~old.deleting)
         /\ \/ new.content = old.content
            \/ /\ vgPc = "setContent" /\ ~vgStatic /\ vgReq = n /\ vgObj = old
               /\ new.content = MakeVGName(old.uid)
      \/ /\ old # NoObj /\ new = NoObj
         /\ ~old.fin \/ (vgPc = "removeFinalizer" /\ vgReq = n)
      \/ /\ old = NoObj /\ new # NoObj
         /\ nameOf[new.uid] = NoName /\ new.content \in SourceContents

LEMMA NextGroupWritten == TypeOK /\ [Next]_vars => \A n \in Names : GroupWritten(n)
<1> SUFFICES ASSUME TypeOK, [Next]_vars PROVE \A n \in Names : GroupWritten(n)
  OBVIOUS
<1>same. vgs' = vgs => \A n \in Names : GroupWritten(n)
  BY DEF GroupWritten
<1>busy. vgPc # "idle" => vgReq \in Names /\ vgObj \in VG
  BY DEF TypeOK
<1>write. ASSUME NEW new \in VG, vgPc # "idle", VGCurrent, VGWrite(new), new.uid = vgObj.uid,
                 vgObj.fin => new.fin \/ (vgPc = "removeFinalizer" /\ ~vgObj.deleting),
                 \/ new.content = vgObj.content
                 \/ vgPc = "setContent" /\ ~vgStatic /\ new.content = MakeVGName(vgObj.uid)
          PROVE  \A n \in Names : GroupWritten(n)
  <2>1. vgReq \in Names /\ vgs[vgReq] = vgObj /\ vgObj # NoObj /\ new # NoObj
    BY <1>write, <1>busy, NameFacts DEF VGCurrent
  <2>2. vgs' = [vgs EXCEPT ![vgReq] = new]
    BY <1>write DEF VGWrite
  <2> QED BY <1>write, <2>1, <2>2 DEF GroupWritten, TypeOK
<1>1. CASE VGAddFinalizer
  <2> DEFINE new == [vgObj EXCEPT !.fin = TRUE]
  <2>1. vgPc # "idle" /\ VGCurrent /\ VGWrite(new)
    BY <1>1 DEF VGAddFinalizer
  <2>2. new \in VG /\ new.uid = vgObj.uid /\ new.fin /\ new.content = vgObj.content
    BY <1>busy, <2>1 DEF VG
  <2> HIDE DEF new
  <2> QED BY <1>write, <2>1, <2>2
<1>2. CASE VGSetContent
  <2> DEFINE new == [vgObj EXCEPT !.content = IF vgStatic THEN @ ELSE MakeVGName(vgObj.uid)]
  <2>1. vgPc = "setContent" /\ vgPc # "idle" /\ VGCurrent /\ VGWrite(new)
    BY <1>2 DEF VGSetContent
  <2>2. /\ new \in VG /\ new.uid = vgObj.uid /\ new.fin = vgObj.fin
        /\ new.content = IF vgStatic THEN vgObj.content ELSE MakeVGName(vgObj.uid)
    BY <1>busy, <2>1, NameFacts DEF VG
  <2> HIDE DEF new
  <2> QED BY <1>write, <2>1, <2>2
<1>3. CASE VGSetStatus
  <2> DEFINE new == [vgObj EXCEPT !.ready = TRUE]
  <2>1. vgPc # "idle" /\ VGCurrent /\ VGWrite(new)
    BY <1>3 DEF VGSetStatus
  <2>2. new \in VG /\ new.uid = vgObj.uid /\ new.fin = vgObj.fin /\ new.content = vgObj.content
    BY <1>busy, <2>1 DEF VG
  <2> HIDE DEF new
  <2> QED BY <1>write, <2>1, <2>2
<1>4. CASE VGRemoveFinalizer
  <2>1. /\ vgPc = "removeFinalizer" /\ vgPc # "idle" /\ VGCurrent /\ VGWrite(Released(vgObj))
        /\ vgReq \in Names /\ vgObj \in VG
    BY <1>4, <1>busy DEF VGRemoveFinalizer
  <2>2. CASE Released(vgObj) = NoObj
    BY <2>1, <2>2, NameFacts DEF GroupWritten, VGWrite, VGCurrent, TypeOK
  <2>3. CASE Released(vgObj) # NoObj
    <3>1. /\ Released(vgObj) \in VG /\ Released(vgObj).uid = vgObj.uid /\ ~vgObj.deleting
          /\ Released(vgObj).content = vgObj.content
      BY <2>1, <2>3, RemovedGroup, RemovalFacts
    <3> QED BY <1>write, <2>1, <3>1
  <2> QED BY <2>2, <2>3
<1>5. ASSUME NEW n \in Names, NEW u \in UIDs, NEW content \in SourceContents, CreateVG(n, u, content)
      PROVE  \A m \in Names : GroupWritten(m)
  <2> DEFINE new == [uid |-> u, deleting |-> FALSE, fin |-> FALSE,
                     content |-> content, ready |-> FALSE]
  <2>1. vgs[n] = NoObj /\ vgs' = [vgs EXCEPT ![n] = new] /\ nameOf[u] = NoName
    BY <1>5 DEF CreateVG
  <2>2. content \in ContentNames \cup {NoName}
    BY NameFacts
  <2>3. new \in VG
    BY <2>2 DEF VG
  <2>4. new.uid = u /\ new.content = content
    OBVIOUS
  <2> HIDE DEF new
  <2> QED BY <2>1, <2>3, <2>4, NameFacts DEF GroupWritten, TypeOK
<1>6. ASSUME NEW n \in Names, DeleteVG(n) PROVE \A m \in Names : GroupWritten(m)
  <2>1. vgs[n] # NoObj /\ vgs[n] \in VG /\ vgs' = [vgs EXCEPT ![n] = Deleted(vgs[n])]
    BY <1>6 DEF DeleteVG, TypeOK
  <2>2. /\ Deleted(vgs[n]) = NoObj => ~vgs[n].fin
        /\ Deleted(vgs[n]) # NoObj => /\ Deleted(vgs[n]).uid = vgs[n].uid /\ Deleted(vgs[n]).fin
                                      /\ Deleted(vgs[n]).content = vgs[n].content
    BY <2>1, RemovedGroup
  <2> QED BY <2>1, <2>2 DEF GroupWritten, TypeOK
<1>7. CASE VGController
  BY <1>same, <1>1, <1>2, <1>3, <1>4, <1>7
  DEF VGController, VGStep, VGStart, PVCEvent, VGReconcile, VGCreateContent,
      VGCheckReady, VGConfirmStatus, VGBindContent, VGMembers, VGDeleteContent,
      VGRetry, VGRefused, VGCallFails, apiVars
<1>8. CASE User
  BY <1>same, <1>5, <1>6, <1>8 DEF User, CreateStaticVGC, DeleteVGC
<1>9. CASE Watches \/ Restart \/ VGCController \/ UNCHANGED vars
  BY <1>9, <1>same
  DEF Watches, SyncVG, SyncVGC, Restart, vars, apiVars, VGCController, VGCStep, VGCStart,
      BindingEvent, VGCReconcile, VGCThinSpec, VGCStaticSpec, FreshSpecUpdate, VGCThinStatus,
      VGCReadyStatus, StatusUpdate, VGCAddFinalizer, VGCCreateGroup, VGCSetHandle,
      VGCCheckOwner, VGCDeletePVCs, VGCRemoveContent, VGCRemoveFinalizer, VGCRetry,
      VGCRefused, VGCCallFails, VGCFrame
<1> QED BY <1>7, <1>8, <1>9 DEF Next

\* How the VolumeGroup worker gets to the steps that count, and what the caches
\* take over.
LEMMA WorkerMoves ==
    ASSUME TypeOK, [Next]_vars
    PROVE  /\ \A c \in ContentNames : vgcCache'[c] \in {vgcCache[c], vgcs[c]}
           /\ vgPc' = "setContent" /\ ~vgStatic' =>
                /\ vgReq' = vgReq /\ vgObj' = vgObj
                /\ \/ vgPc = "setContent" /\ ~vgStatic
                   \/ /\ vgPc = "checkReady" /\ vgcCache' = vgcCache
                      /\ vgcCache[MakeVGName(vgObj.uid)] # NoObj
           /\ vgPc' = "deleteContent" =>
                \/ vgPc = "deleteContent" /\ vgReq' = vgReq /\ vgObj' = vgObj
                \/ vgObj' = vgCache[vgReq'] /\ vgObj'.deleting
           /\ vgPc' = "removeFinalizer" =>
                /\ vgReq' = vgReq
                /\ vgPc = "removeFinalizer" \/ VGDeleteContent
<1>1. CASE VGController
  <2>1. vgcCache' = vgcCache
    BY <1>1 DEF VGController, VGStep, VGStart, PVCEvent, VGReconcile, VGAddFinalizer,
         VGCreateContent, VGCheckReady, VGSetContent, VGSetStatus, VGConfirmStatus,
         VGBindContent, VGMembers, VGDeleteContent, VGRemoveFinalizer, VGRetry,
         VGRefused, VGCallFails, VGFrame, cacheVars
  <2>2. CASE VGCheckReady
    BY <2>1, <2>2 DEF VGCheckReady, VGGoto, VGRequeue, VGIdle
  <2>3. CASE VGDeleteContent
    BY <2>1, <2>3 DEF VGDeleteContent, VGGoto, VGRequeue, VGIdle
  <2>4. CASE VGRetry
    BY <2>1, <2>4 DEF VGRetry, VGRetrySteps
  <2>5. ASSUME NEW n \in Names, VGReconcile(n)
        PROVE  /\ vgPc' = "setContent" => vgStatic'
               /\ vgPc' # "removeFinalizer"
               /\ vgPc' = "deleteContent" => vgObj' = vgCache[vgReq'] /\ vgObj'.deleting
    <3>1. CASE ReconcileStep(vgCache[n]) = "idle"
      BY <2>5, <3>1 DEF VGReconcile, VGIdle
    <3>2. CASE ReconcileStep(vgCache[n]) # "idle"
      <4>1. /\ vgPc' = ReconcileStep(vgCache[n]) /\ vgReq' = n /\ vgObj' = vgCache[n]
            /\ vgStatic' = (vgCache[n].content # NoName) /\ vgCache[n] \in VG
        BY <2>5, <3>2, StepFacts DEF VGReconcile, TypeOK
      <4> QED BY <4>1, NameFacts DEF ReconcileStep, ProvisionStep, VG
    <3> QED BY <3>1, <3>2
  <2>6. CASE VGAddFinalizer
    BY <2>1, <2>6 DEF VGAddFinalizer, ProvisionStep
  <2>7. CASE \/ VGCreateContent \/ VGSetContent \/ VGSetStatus \/ VGConfirmStatus
             \/ VGBindContent \/ VGMembers \/ VGRemoveFinalizer \/ VGRefused \/ VGCallFails
    BY <2>1, <2>7
    DEF VGCreateContent, VGSetContent, VGSetStatus, VGConfirmStatus, VGBindContent, VGMembers,
        VGRemoveFinalizer, VGRefused, VGCallFails, VGGoto, VGRequeue, VGDone, VGIdle
  <2> QED
    BY <1>1, <2>1, <2>2, <2>3, <2>4, <2>5, <2>6, <2>7
    DEF VGController, VGStep, VGStart, PVCEvent
<1>2. CASE User \/ VGCController \/ UNCHANGED vars
  <2>1. UNCHANGED <<vgPc, vgReq, vgObj, vgStatic, vgcCache>>
    BY <1>2 DEF User, CreateVG, DeleteVG, CreateStaticVGC, DeleteVGC, WorkersFrame, vars, vgWorker,
      cacheVars, VGCController, VGCStep, VGCStart,
      BindingEvent, VGCReconcile, VGCThinSpec, VGCStaticSpec, FreshSpecUpdate, VGCThinStatus,
      VGCReadyStatus, StatusUpdate, VGCAddFinalizer, VGCCreateGroup, VGCSetHandle,
      VGCCheckOwner, VGCDeletePVCs, VGCRemoveContent, VGCRemoveFinalizer, VGCRetry,
      VGCRefused, VGCCallFails, VGCFrame
  <2> QED BY <2>1
<1>3. CASE Watches
  <2>1. UNCHANGED <<vgPc, vgReq, vgObj, vgStatic>>
    BY <1>3 DEF Watches, SyncVG, SyncVGC, WorkersFrame, vgWorker
  <2>2. \A c \in ContentNames : vgcCache'[c] \in {vgcCache[c], vgcs[c]}
    BY <1>3 DEF Watches, SyncVG, SyncVGC, TypeOK
  <2> QED BY <2>1, <2>2
<1>4. CASE Restart
  BY <1>4 DEF Restart, VGIdle
<1> QED BY <1>1, <1>2, <1>3, <1>4 DEF Next

-----------------------------------------------------------------------------
\* The VolumeGroup with this uid is there and has the content made for it.
Bound(u) == Alive(u) /\ vgs[nameOf[u]].content = MakeVGName(u)

\* Nothing more is to be done about the content when its VolumeGroup goes.
LetGo(c) == vgcs[c] = NoObj \/ vgcs[c].deleting \/ vgcs[c].policy = "Retain"

\* A bound VolumeGroup has the finalizer, and the cache has its content: the
\* worker saw the content ready before it wrote the name.
BoundInv ==
    \A u \in UIDs :
        /\ Bound(u) => vgs[nameOf[u]].fin /\ vgcCache[MakeVGName(u)] # NoObj
        /\ vgPc = "setContent" /\ ~vgStatic /\ vgObj.uid = u => vgcCache[MakeVGName(u)] # NoObj

\* What is so from the time a VolumeGroup that is not being deleted is bound:
\* it stays bound until it goes, and a worker that is about to let it go knows
\* its content, or has asked for the content's deletion already.
Held(n, u) ==
    LET c == MakeVGName(u) IN
      /\ nameOf[u] = n
      /\ Alive(u) =>
            /\ vgs[n].content = c
            /\ vgCache[n] # NoObj /\ vgCache[n].deleting => vgCache[n].content = c
            /\ vgReq = n /\ vgPc = "deleteContent" => vgObj.uid = u /\ vgObj.content = c
            /\ vgReq = n /\ vgPc = "removeFinalizer" => LetGo(c)
      /\ ~Alive(u) => LetGo(c)

\* The content of a bound VolumeGroup is in the store, and the cache shows the
\* VolumeGroup itself, not an older one of the same name.
LEMMA BoundFacts ==
    ASSUME NamesUnguessed, TypeOK, OwnerInv, BackedInv, NEW u \in UIDs, Bound(u)
    PROVE  /\ nameOf[u] \in Names /\ IsVG(nameOf[u], u)
           /\ vgcs[MakeVGName(u)] # NoObj
           /\ vgCache[nameOf[u]] # NoObj /\ vgCache[nameOf[u]].uid = u
<1>1. nameOf[u] \in Names /\ IsVG(nameOf[u], u)
  BY DEF Bound, Alive, TypeOK
<1>2. HandleRecorded(u)
  <2>1. MakeVGName(u) \notin SourceContents
    BY NameFacts DEF NamesUnguessed
  <2> QED BY <1>1, <2>1 DEF BackedInv, CopiesInv, GroupCopy, Bound, IsVG
<1>3. vgcs[MakeVGName(u)] # NoObj
  BY <1>2 DEF HandleRecorded, Bound
<1>4. Seen(u)
  BY <1>3 DEF BackedInv, CopiesInv, ContentCopy
<1> QED BY <1>1, <1>3, <1>4 DEF Seen, Bound

\* A VolumeGroup is bound by the worker, after it has seen the content.
LEMMA NextBound ==
    ASSUME NamesUnguessed
    PROVE  TypeOK /\ FinalizerInv /\ OwnerInv /\ BackedInv /\ BoundInv /\ [Next]_vars => BoundInv'
<1> SUFFICES ASSUME TypeOK, FinalizerInv, OwnerInv, BackedInv, BoundInv, [Next]_vars, NEW u \in UIDs
             PROVE  /\ Bound(u)' => vgs'[nameOf'[u]].fin /\ vgcCache'[MakeVGName(u)] # NoObj
                    /\ vgPc' = "setContent" /\ ~vgStatic' /\ vgObj'.uid = u
                         => vgcCache'[MakeVGName(u)] # NoObj
  BY DEF BoundInv
<1> DEFINE c == MakeVGName(u)
<1>1. TypeOK' /\ OwnerInv' /\ GroupsMoveOn /\ \A n \in Names : GroupWritten(n)
  BY NextType, NextOwner, NextMovesOn, NextGroupWritten
<1>2. c \in ContentNames /\ c \notin SourceContents
  BY NameFacts DEF NamesUnguessed
<1>3. vgcCache'[c] \in {vgcCache[c], vgcs[c]}
  BY <1>2, WorkerMoves
<1>set. ASSUME vgPc = "setContent", ~vgStatic, vgObj.uid = u
        PROVE  vgcs[c] # NoObj /\ vgcCache[c] # NoObj /\ vgs[vgReq].fin
  <2>1. HandleRecorded(u) /\ IsVG(vgReq, u) /\ nameOf[u] = vgReq /\ vgs[vgReq].fin
    BY <1>set DEF BackedInv, ReportInv, OwnerInv, GroupWorkerInv, UidsNamed, VGProvisionSteps
  <2>2. Alive(u)
    BY <1>set, <2>1, NameFacts DEF Alive, TypeOK
  <2> QED BY <1>set, <2>1, <2>2 DEF HandleRecorded, BoundInv
<1>4. ASSUME Bound(u)' PROVE vgs'[nameOf'[u]].fin /\ vgcCache'[c] # NoObj
  <2> DEFINE n == nameOf'[u]
  <2>1. n \in Names /\ vgs'[n] # NoObj /\ vgs'[n].uid = u /\ vgs'[n].content = c
    BY <1>1, <1>4 DEF Bound, Alive, IsVG, TypeOK
  <2>2. GroupWritten(n)
    BY <1>1, <2>1
  <2>3. nameOf[u] # NoName /\ vgs[n] # NoObj /\ vgs[n].uid = u
    <3>1. CASE nameOf[u] = NoName
      <4>1. vgs[n] # NoObj => vgs[n].uid # u
        BY <2>1, <3>1, NameFacts DEF OwnerInv, UidsNamed
      <4> QED BY <1>2, <2>1, <2>2, <4>1 DEF GroupWritten
    <3>2. CASE nameOf[u] # NoName
      <4>1. nameOf[u] = n /\ Alive(u)
        BY <1>1, <1>4, <3>2, SeenStays DEF Bound
      <4> QED BY <3>2, <4>1 DEF Alive, IsVG
    <3> QED BY <3>1, <3>2
  <2>4. nameOf[u] = n /\ Alive(u)
    BY <1>1, <2>3 DEF GroupsMoveOn, Alive, IsVG
  <2> HIDE DEF n
  <2>5. CASE vgs[n].content = c
    <3>1. Bound(u)
      BY <2>4, <2>5 DEF Bound
    <3>2. vgs[n].fin /\ vgcCache[c] # NoObj /\ vgcs[c] # NoObj
      BY <2>4, <3>1, BoundFacts DEF BoundInv
    <3>3. vgPc = "removeFinalizer" /\ vgReq = n => vgs[n].deleting
      BY <2>3, <3>2 DEF OwnerInv, GroupWorkerInv, Protected
    <3>4. vgs'[n].fin
      BY <2>1, <2>2, <2>3, <3>2, <3>3 DEF GroupWritten
    <3> QED BY <1>3, <3>2, <3>4 DEF n
  <2>6. CASE vgs[n].content # c
    <3>1. /\ vgPc = "setContent" /\ ~vgStatic /\ vgReq = n /\ vgObj = vgs[n]
          /\ vgs[n].fin => vgs'[n].fin
      BY <2>1, <2>2, <2>3, <2>6 DEF GroupWritten
    <3>2. vgcs[c] # NoObj /\ vgcCache[c] # NoObj /\ vgs[n].fin
      BY <1>set, <2>3, <3>1
    <3> QED BY <1>3, <3>1, <3>2 DEF n
  <2> QED BY <2>5, <2>6
<1>5. ASSUME vgPc' = "setContent", ~vgStatic', vgObj'.uid = u PROVE vgcCache'[c] # NoObj
  BY <1>3, <1>5, <1>set, WorkerMoves
<1> QED BY <1>4, <1>5

\* A content that is let go stays so: no worker creates it again.
LEMMA LetGoStays ==
    ASSUME NamesUnguessed, TypeOK, FinalizerInv, OwnerInv, BackedInv, [Next]_vars,
           NEW u \in UIDs, ~Alive(u) \/ Bound(u), LetGo(MakeVGName(u))
    PROVE  LetGo(MakeVGName(u))'
<1> DEFINE c == MakeVGName(u)
<1>1. Written(c)
  BY NextWritten, NameFacts
<1>2. CASE vgcs[c] = NoObj
  <2>1. ~Alive(u)
    BY <1>2, BoundFacts
  <2>2. Steady(u)
    BY NextSteady
  <2> QED BY <1>2, <2>1, <2>2 DEF Steady, LetGo
<1>3. CASE vgcs[c] # NoObj
  BY <1>1, <1>3 DEF Written, LetGo
<1> QED BY <1>2, <1>3

\* The step that decides about the content of a bound VolumeGroup lets it go.
LEMMA DeleteLetsGo ==
    ASSUME NamesUnguessed, TypeOK, FinalizerInv, OwnerInv, BackedInv, BoundInv,
           NEW u \in UIDs, Bound(u), VGDeleteContent, vgPc' # "idle",
           vgObj.content = MakeVGName(u)
    PROVE  LetGo(MakeVGName(u))'
<1> DEFINE c == MakeVGName(u)
<1>1. /\ c \in ContentNames /\ c \in DynamicContents /\ c # NoName
      /\ vgcCache[c] # NoObj /\ vgcs[c] # NoObj /\ vgcs[c] \in VGC
  BY NameFacts, BoundFacts DEF BoundInv, TypeOK
<1>2. vgcCache[c].policy = DeletionPolicy /\ vgcs[c].policy = DeletionPolicy
  BY <1>1 DEF FinalizerInv, DynamicPolicy
<1>3. vgcs' = IF DeletionPolicy = "Delete" THEN [vgcs EXCEPT ![c] = Deleted(vgcs[c])] ELSE vgcs
  BY <1>1, <1>2 DEF VGDeleteContent, VGRequeue, VGIdle
<1>4. CASE DeletionPolicy = "Delete"
  <2>1. vgcs'[c] = Deleted(vgcs[c])
    BY <1>1, <1>3, <1>4 DEF TypeOK
  <2> QED BY <1>1, <2>1, WrittenContent DEF LetGo
<1>5. CASE DeletionPolicy = "Retain"
  BY <1>2, <1>3, <1>5 DEF LetGo
<1> QED BY <1>4, <1>5, NameFacts

\* Every step keeps Held.
LEMMA NextHeld ==
    ASSUME NamesUnguessed, NEW n \in Names, NEW u \in UIDs
    PROVE  TypeOK /\ FinalizerInv /\ OwnerInv /\ BackedInv /\ BoundInv /\ Held(n, u) /\ [Next]_vars
             => Held(n, u)'
<1> SUFFICES ASSUME TypeOK, FinalizerInv, OwnerInv, BackedInv, BoundInv, Held(n, u), [Next]_vars
             PROVE  Held(n, u)'
  OBVIOUS
<1> DEFINE c == MakeVGName(u)
<1>1. TypeOK' /\ GroupsMoveOn /\ GroupWritten(n)
  BY NextType, NextMovesOn, NextGroupWritten
<1>2. nameOf[u] = n /\ nameOf'[u] = n /\ n # NoName /\ (Alive(u)' => Alive(u))
  BY <1>1, SeenStays, NameFacts DEF Held
<1>3. CASE ~Alive(u)
  BY <1>2, <1>3, LetGoStays DEF Held
<1>4. CASE Alive(u)
  <2>1. Bound(u)
    BY <1>2, <1>4 DEF Held, Bound
  <2>2. /\ vgs[n] # NoObj /\ vgs[n].uid = u /\ vgs[n].content = c /\ vgs[n].fin
        /\ vgCache[n] # NoObj /\ vgCache[n].uid = u
    BY <1>2, <2>1, BoundFacts DEF Held, BoundInv, IsVG, Bound
  <2>3. CASE ~Alive(u)'
    <3>1. vgs'[n] = NoObj
      BY <1>2, <2>2, <2>3, <1>1, NameFacts DEF GroupWritten, Alive, IsVG
    <3>2. vgPc = "removeFinalizer" /\ vgReq = n
      BY <1>1, <2>2, <3>1 DEF GroupWritten
    <3>3. LetGo(c)
      BY <1>4, <3>2 DEF Held
    <3> QED BY <1>2, <2>1, <2>3, <3>3, LetGoStays DEF Held
  <2>4. CASE Alive(u)'
    <3>1. vgs'[n] # NoObj /\ vgs'[n].uid = u
      BY <1>2, <2>4 DEF Alive, IsVG
    <3>2. vgs'[n].content = c
      BY <1>1, <2>2, <3>1 DEF GroupWritten
    <3>3. vgCache'[n] # NoObj /\ vgCache'[n].deleting => vgCache'[n].content = c
      BY <1>1, <1>4, <2>2 DEF GroupsMoveOn, Held
    <3>4. ASSUME vgReq' = n, vgPc' = "deleteContent" PROVE vgObj'.uid = u /\ vgObj'.content = c
      BY <1>4, <2>2, <3>4, WorkerMoves DEF Held
    <3>5. ASSUME vgReq' = n, vgPc' = "removeFinalizer" PROVE LetGo(c)'
      <4>1. CASE vgPc = "removeFinalizer"
        BY <1>4, <2>1, <3>5, <4>1, WorkerMoves, LetGoStays DEF Held
      <4>2. CASE VGDeleteContent
        <5>1. vgPc = "deleteContent" /\ vgReq = n /\ vgPc' # "idle"
          BY <3>5, <4>2, WorkerMoves DEF VGDeleteContent
        <5>2. vgObj.content = c
          BY <1>4, <5>1 DEF Held
        <5> QED BY <2>1, <4>2, <5>1, <5>2, DeleteLetsGo
      <4> QED BY <3>5, <4>1, <4>2, WorkerMoves
    <3> QED BY <1>2, <2>4, <3>2, <3>3, <3>4, <3>5 DEF Held
  <2> QED BY <2>3, <2>4
<1> QED BY <1>3, <1>4

\* A bound VolumeGroup that is not being deleted is held from then on.
LEMMA StartsHeld ==
    ASSUME NEW n \in Names, NEW u \in UIDs, TypeOK, OwnerInv, BoundInv,
           IsVG(n, u), ~vgs[n].deleting, vgs[n].content = MakeVGName(u)
    PROVE  Held(n, u)
<1>1. nameOf[u] = n /\ Alive(u)
  BY NameFacts DEF OwnerInv, UidsNamed, IsVG, Alive
<1>2. Protected(vgs[n])
  BY <1>1 DEF BoundInv, Bound, Protected, IsVG
<1>3. vgCache[n] # NoObj => ~vgCache[n].deleting
  BY <1>2 DEF OwnerInv, GroupProtection
<1>4. ~(vgReq = n /\ vgPc \in {"deleteContent", "removeFinalizer"})
  BY <1>2 DEF OwnerInv, GroupWorkerInv
<1> QED BY <1>1, <1>3, <1>4 DEF Held

\* A VolumeGroup that was bound while it was not being deleted goes only with
\* its content deleted, being deleted, or retained, if users do not guess
\* generated names: neither a stale copy of either object nor another
\* VolumeGroup of the same name makes removeInstance pass the content over.
THEOREM ContentLetGo ==
    ASSUME NamesUnguessed
    PROVE  Spec => BoundIsReleased
<1>1. Init => BoundInv
  BY NameFacts DEF Init, BoundInv, Bound, Alive
<1>2. ASSUME NEW n \in Names, NEW u \in UIDs
      PROVE  Spec => [](IsVG(n, u) /\ ~vgs[n].deleting /\ vgs[n].content = MakeVGName(u)
                        => [](\/ IsVG(n, u) \/ vgcs[MakeVGName(u)] = NoObj
                              \/ vgcs[MakeVGName(u)].deleting \/ vgcs[MakeVGName(u)].policy = "Retain"))
  <2>1. TypeOK /\ OwnerInv /\ BoundInv
        => (IsVG(n, u) /\ ~vgs[n].deleting /\ vgs[n].content = MakeVGName(u) => Held(n, u))
    BY <1>2, StartsHeld
  <2>2. TypeOK /\ FinalizerInv /\ OwnerInv /\ BackedInv /\ BoundInv /\ Held(n, u) /\ [Next]_vars
          => Held(n, u)'
    BY <1>2, NextHeld
  <2>3. Held(n, u) => \/ IsVG(n, u) \/ vgcs[MakeVGName(u)] = NoObj
                      \/ vgcs[MakeVGName(u)].deleting \/ vgcs[MakeVGName(u)].policy = "Retain"
    BY DEF Held, Alive, LetGo
  <2>4. TypeOK /\ FinalizerInv /\ OwnerInv /\ BackedInv /\ BoundInv /\ [Next]_vars => BoundInv'
    BY NextBound
  <2> QED
    BY <1>1, <2>1, <2>2, <2>3, <2>4, TypeCorrect, FinalizerInvariant, OwnersKnown,
       CopiesReliable, PTL DEF Spec
<1> QED BY <1>2 DEF BoundIsReleased
=============================================================================
