----------------------- MODULE GroupRefinementProofs -----------------------
(***************************************************************************)
(* GroupLifecycle implements GroupPromise: proof for every value of the    *)
(* constants, under the deletion policy Delete and without VolumeGroups    *)
(* that name an existing content.                                          *)
(***************************************************************************)
EXTENDS GroupRefinement, GroupOwnershipProofs

\* The abstract state at the content generated for a uid.
LEMMA MappedState ==
    /\ \A u \in UIDs : MakeVGName(u)[2] = u
    /\ \A c \in DynamicContents : c[2] \in UIDs /\ MakeVGName(c[2]) = c
    /\ \A u \in UIDs : owners[MakeVGName(u)] = OwnerOf(u)
    /\ \A c \in DynamicContents : phases[c] = PhaseOf(vgcs[c])
<1>1. \A u \in UIDs : MakeVGName(u)[2] = u
  BY DEF MakeVGName
<1>2. \A c \in DynamicContents : c[2] \in UIDs /\ MakeVGName(c[2]) = c
  BY <1>1 DEF DynamicContents
<1>3. \A u \in UIDs : owners[MakeVGName(u)] = OwnerOf(u)
  BY <1>1, NameFacts DEF owners
<1> QED BY <1>1, <1>2, <1>3 DEF phases

\* A step that changes no owner.
LEMMA OwnersSame ==
    ASSUME \A u \in UIDs : OwnerOf(u)' = OwnerOf(u)
    PROVE  owners' = owners
BY MappedState DEF owners

\* A step that changes one owner.
LEMMA OwnerStep ==
    ASSUME NEW u \in UIDs, NEW to, OwnerOf(u)' = to,
           \A v \in UIDs \ {u} : OwnerOf(v)' = OwnerOf(v)
    PROVE  owners' = [owners EXCEPT ![MakeVGName(u)] = to]
<1>1. \A c \in DynamicContents : c # MakeVGName(u) => c[2] \in UIDs \ {u}
  BY MappedState
<1>2. MakeVGName(u)[2] = u /\ MakeVGName(u) \in DynamicContents
  BY MappedState, NameFacts
<1>3. \A c \in DynamicContents : owners'[c] = IF c = MakeVGName(u) THEN to ELSE owners[c]
  BY <1>1, <1>2 DEF owners
<1> QED BY <1>2, <1>3 DEF owners

\* A write of a VolumeGroup changes at most its own owner.
LEMMA GroupWrite ==
    ASSUME TypeOK, OwnerInv, NEW n \in Names, vgs[n] # NoObj, NEW new \in VG \cup {NoObj},
           new # NoObj => new.uid = vgs[n].uid,
           vgs' = [vgs EXCEPT ![n] = new], nameOf' = nameOf
    PROVE  /\ vgs[n].uid \in UIDs
           /\ OwnerOf(vgs[n].uid) = IF vgs[n].ready THEN "ready" ELSE "pending"
           /\ owners' = [owners EXCEPT ![MakeVGName(vgs[n].uid)] =
                           IF new = NoObj THEN "gone" ELSE IF new.ready THEN "ready" ELSE "pending"]
<1>1. PICK u \in UIDs : u = vgs[n].uid /\ nameOf[u] = n
  BY DEF TypeOK, VG, OwnerInv, UidsNamed
<1>2. OwnerOf(u) = IF vgs[n].ready THEN "ready" ELSE "pending"
  BY <1>1, NameFacts DEF OwnerOf, IsVG
<1>3. OwnerOf(u)' = IF new = NoObj THEN "gone" ELSE IF new.ready THEN "ready" ELSE "pending"
  BY <1>1, NameFacts DEF OwnerOf, IsVG, TypeOK
<1>4. \A v \in UIDs \ {u} : OwnerOf(v)' = OwnerOf(v)
  BY <1>1, NameFacts DEF OwnerOf, IsVG, TypeOK
<1> QED BY <1>1, <1>2, <1>3, <1>4, OwnerStep

\* A write of a VolumeGroup that keeps it, and keeps its readiness.
LEMMA GroupRewrite ==
    ASSUME TypeOK, OwnerInv, NEW n \in Names, vgs[n] # NoObj, NEW new \in VG,
           new.uid = vgs[n].uid, new.ready = vgs[n].ready,
           vgs' = [vgs EXCEPT ![n] = new], nameOf' = nameOf
    PROVE  owners' = owners
<1>1. new # NoObj
  BY NameFacts
<1>2. /\ vgs[n].uid \in UIDs
      /\ owners' = [owners EXCEPT ![MakeVGName(vgs[n].uid)] = OwnerOf(vgs[n].uid)]
  BY <1>1, GroupWrite
<1> QED BY <1>2, MappedState DEF owners

\* A step that leaves the VolumeGroups alone changes no owner.
LEMMA GroupsSame == vgs' = vgs /\ nameOf' = nameOf => owners' = owners
BY OwnersSame DEF OwnerOf, IsVG

\* A step that leaves the contents alone changes no phase and no handle.
LEMMA ContentsSame == vgcs' = vgcs => phases' = phases /\ knownHandles' = knownHandles
BY DEF phases, knownHandles

\* A write of one content changes at most its phase and its handle.
LEMMA ContentWrite ==
    ASSUME TypeOK, NEW c \in ContentNames, NEW new, vgcs' = [vgcs EXCEPT ![c] = new]
    PROVE  /\ c \in DynamicContents => phases' = [phases EXCEPT ![c] = PhaseOf(new)]
           /\ c \notin DynamicContents => phases' = phases
           /\ (new # NoObj /\ new.handle) = (vgcs[c] # NoObj /\ vgcs[c].handle)
                => knownHandles' = knownHandles
           /\ ~(new # NoObj /\ new.handle) => knownHandles' = knownHandles \ {c}
           /\ c \in DynamicContents /\ new # NoObj /\ new.handle
                => knownHandles' = knownHandles \cup {c}
           /\ c \notin DynamicContents => knownHandles' = knownHandles
<1>1. \A d \in DynamicContents : d \in ContentNames /\ vgcs'[d] = IF d = c THEN new ELSE vgcs[d]
  BY NameFacts DEF TypeOK
<1>2. c \in DynamicContents => phases' = [phases EXCEPT ![c] = PhaseOf(new)]
  <2>1. \A d \in DynamicContents : phases'[d] = IF d = c THEN PhaseOf(new) ELSE phases[d]
    BY <1>1 DEF phases, PhaseOf
  <2> QED BY <2>1 DEF phases
<1>3. c \notin DynamicContents => phases' = phases
  BY <1>1 DEF phases, PhaseOf
<1>4. \A d \in DynamicContents :
        d \in knownHandles' <=> IF d = c THEN new # NoObj /\ new.handle ELSE d \in knownHandles
  BY <1>1 DEF knownHandles
<1>5. knownHandles \subseteq DynamicContents /\ knownHandles' \subseteq DynamicContents
      /\ (c \in knownHandles <=> c \in DynamicContents /\ vgcs[c] # NoObj /\ vgcs[c].handle)
  BY DEF knownHandles
<1> QED BY <1>2, <1>3, <1>4, <1>5

\* A write of a content that keeps its finalizer, deletion and handle.
LEMMA ContentRewrite ==
    ASSUME TypeOK, NEW c \in ContentNames, vgcs[c] # NoObj, NEW new \in VGC,
           new.fin = vgcs[c].fin, new.deleting = vgcs[c].deleting, new.handle = vgcs[c].handle,
           vgcs' = [vgcs EXCEPT ![c] = new]
    PROVE  phases' = phases /\ knownHandles' = knownHandles
<1>1. PhaseOf(new) = PhaseOf(vgcs[c]) /\ new # NoObj
  BY NameFacts DEF PhaseOf
<1>2. c \in DynamicContents => phases' = [phases EXCEPT ![c] = PhaseOf(vgcs[c])]
  <2>1. c \in DynamicContents => phases' = [phases EXCEPT ![c] = PhaseOf(new)]
    BY ContentWrite
  <2> QED BY <1>1, <2>1
<1>3. phases' = phases
  <2>1. CASE c \in DynamicContents
    <3>1. phases[c] = PhaseOf(vgcs[c]) /\ phases' = [phases EXCEPT ![c] = PhaseOf(vgcs[c])]
      BY <1>2, <2>1, MappedState
    <3> QED BY <3>1 DEF phases
  <2>2. CASE c \notin DynamicContents
    BY <2>2, ContentWrite
  <2> QED BY <2>1, <2>2
<1> QED BY <1>1, <1>3, ContentWrite

\* A step that leaves every part of the abstract state alone.
LEMMA Stutter ==
    owners' = owners /\ phases' = phases /\ storedGroups' = storedGroups
    /\ knownHandles' = knownHandles => [Promise!Next]_Promise!vars
BY DEF Promise!vars

\* One step of the promise.
LEMMA OneStep ==
    ASSUME NEW r \in DynamicContents,
           \/ Promise!Request(r) \/ Promise!Report(r) \/ Promise!Release(r)
           \/ Promise!Open(r) \/ Promise!Guard(r) \/ Promise!Close(r) \/ Promise!Leave(r)
           \/ Promise!Provision(r) \/ Promise!Record(r) \/ Promise!Reclaim(r)
    PROVE  [Promise!Next]_Promise!vars
BY DEF Promise!Next

\* Asking for the deletion of a content closes its record, or nothing happens:
\* a content without the finalizer has no handle to lose.
LEMMA DeletionCloses ==
    ASSUME TypeOK, BackedInv, NEW c \in ContentNames, vgcs[c] # NoObj,
           vgcs' = [vgcs EXCEPT ![c] = Deleted(vgcs[c])],
           owners' = owners, storedGroups' = storedGroups
    PROVE  [Promise!Next]_Promise!vars
<1> DEFINE new == Deleted(vgcs[c])
<1>1. /\ vgcs[c] \in VGC
      /\ new = NoObj <=> ~vgcs[c].fin
      /\ new # NoObj => new.fin /\ new.deleting /\ new.handle = vgcs[c].handle
  BY WrittenContent DEF TypeOK
<1>2. CASE c \notin DynamicContents
  BY <1>2, ContentWrite, Stutter
<1>3. CASE c \in DynamicContents
  <2>1. phases[c] = PhaseOf(vgcs[c]) /\ phases' = [phases EXCEPT ![c] = PhaseOf(new)]
    BY <1>3, ContentWrite, MappedState
  <2>2. vgcs[c].handle => vgcs[c].fin
    BY <1>3 DEF BackedInv, HandleBacked, DynamicContents
  <2>3. knownHandles' = knownHandles
    <3>1. (new # NoObj /\ new.handle) = (vgcs[c] # NoObj /\ vgcs[c].handle)
      <4>1. vgcs[c].handle \in BOOLEAN
        BY <1>1 DEF VGC
      <4> HIDE DEF new
      <4> QED BY <1>1, <2>2, <4>1
    <3> QED BY <3>1, ContentWrite
  <2>4. CASE PhaseOf(new) = PhaseOf(vgcs[c])
    <3>1. phases' = phases
      BY <2>1, <2>4 DEF phases
    <3> QED BY <2>3, <3>1, Stutter
  <2>5. CASE PhaseOf(new) # PhaseOf(vgcs[c])
    <3>1. /\ phases[c] \in {"open", "guarded"}
          /\ PhaseOf(new) = IF phases[c] = "open" THEN "absent" ELSE "closing"
      <4> HIDE DEF new
      <4> QED BY <1>1, <2>1, <2>5 DEF PhaseOf
    <3>2. Promise!Close(c)
      BY <2>1, <2>3, <3>1 DEF Promise!Close, Promise!SetPhase
    <3> QED BY <1>3, <3>2, OneStep
  <2> QED BY <2>4, <2>5
<1> QED BY <1>2, <1>3

\* A step of the VolumeGroup worker is a step of the promise.
LEMMA VGControllerPromise ==
    ASSUME SourceContents \subseteq {NoName}, TypeOK, OwnerInv, BackedInv, VGController
    PROVE  [Promise!Next]_Promise!vars
<1> USE NameFacts
<1>frame. nameOf' = nameOf /\ groups' = groups
  BY DEF VGController, VGStep, VGStart, PVCEvent, VGReconcile, VGAddFinalizer,
         VGCreateContent, VGCheckReady, VGSetContent, VGSetStatus, VGConfirmStatus,
         VGBindContent, VGMembers, VGDeleteContent, VGRemoveFinalizer, VGRetry,
         VGRefused, VGCallFails, VGFrame
<1>stored. storedGroups' = storedGroups
  BY <1>frame DEF storedGroups
<1>busy. vgPc # "idle" =>
           /\ vgReq \in Names /\ vgObj \in VG /\ vgObj # NoObj /\ vgObj.uid \in UIDs
           /\ nameOf[vgObj.uid] = vgReq
  BY DEF TypeOK, VG, OwnerInv, UidsNamed
<1>quiet. CASE vgs' = vgs /\ vgcs' = vgcs
  BY <1>quiet, <1>frame, <1>stored, GroupsSame, ContentsSame, Stutter
\* A write of the VolumeGroup that changes neither its uid nor its readiness.
<1>write. ASSUME NEW new \in VG, new.uid = vgObj.uid, new.ready = vgObj.ready,
                 vgPc # "idle", VGCurrent, VGWrite(new), vgcs' = vgcs
          PROVE  [Promise!Next]_Promise!vars
  <2>1. owners' = owners
    BY <1>busy, <1>frame, <1>write, GroupRewrite DEF VGCurrent, VGWrite
  <2> QED BY <1>write, <1>stored, <2>1, ContentsSame, Stutter
<1>1. CASE VGAddFinalizer
  <2> DEFINE new == [vgObj EXCEPT !.fin = TRUE]
  <2>1. vgPc # "idle" /\ VGCurrent /\ VGWrite(new) /\ vgcs' = vgcs
    BY <1>1 DEF VGAddFinalizer
  <2>2. new \in VG /\ new.uid = vgObj.uid /\ new.ready = vgObj.ready
    BY <1>busy, <2>1 DEF VG
  <2> HIDE DEF new
  <2> QED BY <1>write, <2>1, <2>2
<1>2. CASE VGSetContent
  <2> DEFINE new == [vgObj EXCEPT !.content = IF vgStatic THEN @ ELSE MakeVGName(vgObj.uid)]
  <2>1. vgPc # "idle" /\ VGCurrent /\ VGWrite(new) /\ vgcs' = vgcs
    BY <1>2 DEF VGSetContent
  <2>2. new \in VG /\ new.uid = vgObj.uid /\ new.ready = vgObj.ready
    BY <1>busy, <2>1 DEF VG
  <2> HIDE DEF new
  <2> QED BY <1>write, <2>1, <2>2
<1>3. CASE VGSetStatus
  <2> DEFINE new == [vgObj EXCEPT !.ready = TRUE]
  <2>1. /\ vgPc = "setStatus" /\ VGCurrent /\ VGWrite(new) /\ vgcs' = vgcs
        /\ vgs[vgReq] = vgObj /\ vgs' = [vgs EXCEPT ![vgReq] = new]
    BY <1>3 DEF VGSetStatus, VGCurrent, VGWrite
  <2>2. new \in VG /\ new.uid = vgObj.uid /\ new.ready /\ new # NoObj
    BY <1>busy, <2>1 DEF VG
  <2> HIDE DEF new
  <2>3. CASE vgObj.ready
    <3>1. vgObj.ready \in BOOLEAN /\ new.ready \in BOOLEAN
      BY <1>busy, <2>1, <2>2 DEF VG
    <3> QED BY <1>write, <2>1, <2>2, <2>3, <3>1
  <2>4. CASE ~vgObj.ready
    <3>1. PICK u \in UIDs : u = vgObj.uid
      BY <1>busy, <2>1
    <3> DEFINE r == MakeVGName(u)
    <3>2. OwnerOf(u) = "pending" /\ owners' = [owners EXCEPT ![r] = "ready"]
      BY <1>busy, <1>frame, <2>1, <2>2, <2>4, <3>1, GroupWrite
    <3>3. vgObj.content = r /\ HandleRecorded(u)
      BY <1>busy, <2>1, <3>1 DEF BackedInv, CopiesInv, GroupCopy, ReportInv
    <3>4. Alive(u)
      BY <1>busy, <2>1, <3>1 DEF Alive, IsVG
    <3>5. vgcs[r] # NoObj /\ vgcs[r].handle /\ vgcs[r].fin /\ r \in groups
      BY <3>3, <3>4 DEF HandleRecorded, BackedInv, HandleBacked
    <3>6. /\ r \in DynamicContents /\ owners[r] = "pending" /\ r \in storedGroups \cap knownHandles
          /\ phases[r] \in {"guarded", "closing"}
      BY <3>2, <3>5, MappedState DEF storedGroups, knownHandles, PhaseOf
    <3>7. Promise!Report(r)
      BY <1>stored, <2>1, <3>2, <3>6, ContentsSame
      DEF Promise!Report, Promise!SetOwner, Promise!Guarded
    <3> QED BY <3>6, <3>7, OneStep
  <2> QED BY <2>3, <2>4
<1>4. CASE VGRemoveFinalizer
  <2> DEFINE new == Released(vgObj)
  <2>1. /\ vgPc = "removeFinalizer" /\ VGCurrent /\ VGWrite(new) /\ vgcs' = vgcs
        /\ vgs[vgReq] = vgObj /\ vgs' = [vgs EXCEPT ![vgReq] = new]
    BY <1>4 DEF VGRemoveFinalizer, VGCurrent, VGWrite
  <2>2. /\ new \in VG \cup {NoObj}
        /\ new # NoObj => new.uid = vgObj.uid /\ new.ready = vgObj.ready
    BY <1>busy, <2>1, RemovalFacts, RemovedGroup
  <2> HIDE DEF new
  <2>3. CASE new # NoObj
    BY <1>write, <2>1, <2>2, <2>3
  <2>4. CASE new = NoObj
    <3>1. PICK u \in UIDs : u = vgObj.uid
      BY <1>busy, <2>1
    <3> DEFINE r == MakeVGName(u)
    <3>2. OwnerOf(u) \in {"pending", "ready"} /\ owners' = [owners EXCEPT ![r] = "gone"]
      BY <1>busy, <1>frame, <2>1, <2>2, <2>4, <3>1, GroupWrite
    <3>3. Promise!Release(r)
      BY <1>stored, <2>1, <3>2, ContentsSame, MappedState
      DEF Promise!Release, Promise!SetOwner, Promise!Alive
    <3> QED BY <3>3, OneStep
  <2> QED BY <2>3, <2>4
<1>5. CASE VGCreateContent
  <2>1. vgPc = "createContent" /\ vgs' = vgs
    BY <1>5 DEF VGCreateContent
  <2>2. PICK u \in UIDs : u = vgObj.uid
    BY <1>busy, <2>1
  <2> DEFINE r == MakeVGName(u)
  <2>3. r \in DynamicContents /\ r \in ContentNames
    OBVIOUS
  <2>4. CASE vgcs[r] = NoObj
    <3>1. vgcs' = [vgcs EXCEPT ![r] = NewVGC(vgReq)]
      BY <1>5, <2>2, <2>4 DEF VGCreateContent
    <3>2. NewVGC(vgReq) # NoObj /\ ~NewVGC(vgReq).handle /\ PhaseOf(NewVGC(vgReq)) = "open"
      BY <1>busy, <2>1, NewVGCType DEF NewVGC, PhaseOf
    <3>3. phases' = [phases EXCEPT ![r] = "open"] /\ knownHandles' = knownHandles \ {r}
      BY <2>3, <3>1, <3>2, ContentWrite
    <3>4. r \notin knownHandles /\ phases[r] = "absent"
      BY <2>3, <2>4, MappedState DEF knownHandles, PhaseOf
    <3>5. owners[r] \in {"pending", "ready"}
      BY <1>busy, <2>1, <2>2, MappedState
      DEF OwnerInv, GroupWorkerInv, VGProvisionSteps, OwnerOf
    <3>6. Promise!Open(r)
      BY <1>frame, <1>stored, <2>1, <3>3, <3>4, <3>5, GroupsSame
      DEF Promise!Open, Promise!SetPhase, Promise!Alive
    <3> QED BY <2>3, <3>6, OneStep
  <2>5. CASE vgcs[r] # NoObj
    BY <1>5, <1>quiet, <2>1, <2>2, <2>5 DEF VGCreateContent
  <2> QED BY <2>4, <2>5
<1>6. CASE VGBindContent
  <2> DEFINE c == vgObj.content
             new == [StaticSpec(vgcCache[c]) EXCEPT !.ref = vgReq]
  <2>1. vgPc # "idle" /\ vgs' = vgs
    BY <1>6 DEF VGBindContent
  <2>2. CASE c \in ContentNames /\ vgcCache[c] # NoObj /\ vgcs[c] = vgcCache[c]
    <3>1. vgcs' = [vgcs EXCEPT ![c] = new] /\ vgcs[c] \in VGC
      BY <1>6, <2>2 DEF VGBindContent, TypeOK
    <3>2. /\ new \in VGC /\ new.fin = vgcs[c].fin /\ new.deleting = vgcs[c].deleting
          /\ new.handle = vgcs[c].handle
      BY <1>busy, <2>1, <2>2, <3>1, SpecFacts, SpecKeeps, WrittenContent
    <3> HIDE DEF new
    <3>3. phases' = phases /\ knownHandles' = knownHandles
      BY <2>2, <3>1, <3>2, ContentRewrite
    <3> QED BY <1>frame, <1>stored, <2>1, <3>3, GroupsSame, Stutter
  <2>3. CASE c \notin ContentNames \/ ~(vgcCache[c] # NoObj /\ vgcs[c] = vgcCache[c])
    <3>1. vgcs' = vgcs
      BY <1>6, <2>3 DEF VGBindContent, TypeOK
    <3> QED BY <1>quiet, <2>1, <3>1
  <2> QED BY <2>2, <2>3
<1>7. CASE VGDeleteContent
  <2> DEFINE c == vgObj.content
  <2>1. /\ vgs' = vgs
        /\ vgcs' = vgcs \/ (vgcs[c] # NoObj /\ vgcs' = [vgcs EXCEPT ![c] = Deleted(vgcs[c])])
    BY <1>7 DEF VGDeleteContent
  <2>2. c \notin ContentNames => vgcs' = vgcs
    BY <2>1 DEF TypeOK
  <2>3. owners' = owners
    BY <1>frame, <2>1, GroupsSame
  <2> QED BY <1>quiet, <1>stored, <2>1, <2>2, <2>3, DeletionCloses
<1> QED
  BY <1>quiet, <1>1, <1>2, <1>3, <1>4, <1>5, <1>6, <1>7
  DEF VGController, VGStep, VGStart, PVCEvent, VGReconcile, VGCheckReady, VGConfirmStatus,
      VGMembers, VGRetry, VGRefused, VGCallFails, apiVars

\* A step of the VolumeGroupContent worker is a step of the promise.
LEMMA VGCControllerPromise ==
    ASSUME DeletionPolicy = "Delete", TypeOK, FinalizerInv, BackedInv, VGCController
    PROVE  [Promise!Next]_Promise!vars
<1> USE NameFacts
<1>frame. vgs' = vgs /\ nameOf' = nameOf
  BY DEF VGCController, VGCStep, VGCStart, BindingEvent, VGCReconcile, VGCThinSpec,
         VGCStaticSpec, FreshSpecUpdate, VGCThinStatus, VGCReadyStatus, StatusUpdate,
         VGCAddFinalizer, VGCCreateGroup, VGCSetHandle, VGCCheckOwner, VGCDeletePVCs,
         VGCRemoveContent, VGCRemoveFinalizer, VGCRetry, VGCRefused, VGCCallFails,
         VGCFrame
<1>owners. owners' = owners
  BY <1>frame, GroupsSame
<1>busy. vgcPc # "idle" => vgcReq \in ContentNames /\ vgcObj \in VGC /\ vgcObj # NoObj
  BY DEF TypeOK
<1>quiet. CASE vgcs' = vgcs /\ groups' = groups
  BY <1>quiet, <1>owners, ContentsSame, Stutter DEF storedGroups
\* A write of the content that keeps its finalizer, deletion and handle.
<1>write. ASSUME NEW new \in VGC, vgcPc # "idle", vgcs[vgcReq] # NoObj, VGCWrite(new),
                 new.fin = vgcs[vgcReq].fin, new.deleting = vgcs[vgcReq].deleting,
                 new.handle = vgcs[vgcReq].handle, groups' = groups
          PROVE  [Promise!Next]_Promise!vars
  <2>1. phases' = phases /\ knownHandles' = knownHandles
    BY <1>busy, <1>write, ContentRewrite DEF VGCWrite
  <2> QED BY <1>owners, <1>write, <2>1, Stutter DEF storedGroups
<1>1. ASSUME NEW pc, NEW spec, NEW next, FreshSpecUpdate(pc, spec, next), pc # "idle",
             spec \in {ThinSpec(vgcCache[vgcReq]), StaticSpec(vgcCache[vgcReq])}
      PROVE  [Promise!Next]_Promise!vars
  <2>1. CASE vgcCache[vgcReq] # NoObj /\ vgcs[vgcReq] = vgcCache[vgcReq]
    <3>1. /\ vgcPc # "idle" /\ vgcs[vgcReq] \in VGC /\ groups' = groups /\ VGCWrite(spec)
      BY <1>1, <1>busy, <2>1 DEF FreshSpecUpdate, TypeOK
    <3>2. /\ spec \in VGC /\ spec.fin = vgcs[vgcReq].fin
          /\ spec.handle = vgcs[vgcReq].handle
      BY <1>1, <2>1, <3>1, SpecFacts, WrittenContent
    <3>3. spec.deleting = vgcs[vgcReq].deleting
      BY <1>1, <2>1, <3>1 DEF ThinSpec, StaticSpec, VGC
    <3> QED BY <1>write, <2>1, <3>1, <3>2, <3>3
  <2>2. CASE ~(vgcCache[vgcReq] # NoObj /\ vgcs[vgcReq] = vgcCache[vgcReq])
    BY <1>1, <1>quiet, <2>2 DEF FreshSpecUpdate
  <2> QED BY <2>1, <2>2
<1>2. CASE VGCThinSpec \/ VGCStaticSpec
  BY <1>1, <1>2 DEF VGCThinSpec, VGCStaticSpec
<1>3. CASE VGCThinStatus \/ VGCReadyStatus
  <2>1. PICK ready \in BOOLEAN, pc \in {"thinStatus", "readyStatus"} : StatusUpdate(pc, ready)
    BY <1>3 DEF VGCThinStatus, VGCReadyStatus
  <2> DEFINE new == [vgcObj EXCEPT !.ready = ready]
  <2>2. vgcPc # "idle" /\ vgcs[vgcReq] = vgcObj /\ groups' = groups /\ VGCWrite(new)
    BY <2>1 DEF StatusUpdate, VGCCurrent
  <2>3. /\ new \in VGC /\ new.fin = vgcObj.fin /\ new.handle = vgcObj.handle
        /\ new.deleting = vgcObj.deleting
    BY <1>busy, <2>2 DEF VGC
  <2> HIDE DEF new
  <2> QED BY <1>busy, <1>write, <2>2, <2>3
<1>4. CASE VGCAddFinalizer
  <2> DEFINE new == [vgcObj EXCEPT !.fin = TRUE]
  <2>1. /\ vgcPc # "idle" /\ vgcs[vgcReq] = vgcObj /\ groups' = groups /\ VGCWrite(new)
        /\ vgcs' = [vgcs EXCEPT ![vgcReq] = new] /\ vgcReq \in ContentNames
        /\ vgcObj \in VGC /\ vgcObj # NoObj
    BY <1>4, <1>busy DEF VGCAddFinalizer, VGCCurrent, VGCWrite
  <2>2. /\ new \in VGC /\ new # NoObj /\ new.fin /\ new.handle = vgcObj.handle
        /\ new.deleting = vgcObj.deleting
    BY <2>1 DEF VGC
  <2>3. vgcObj.fin \in BOOLEAN /\ new.fin \in BOOLEAN
    BY <2>1, <2>2 DEF VGC
  <2> HIDE DEF new
  <2>4. CASE vgcObj.fin
    BY <1>write, <2>1, <2>2, <2>3, <2>4
  <2>5. CASE ~vgcObj.fin /\ vgcReq \notin DynamicContents
    BY <1>owners, <2>1, <2>5, ContentWrite, Stutter DEF storedGroups
  <2>6. CASE ~vgcObj.fin /\ vgcReq \in DynamicContents
    <3>1. ~vgcObj.deleting
      BY <2>1, <2>6 DEF FinalizerInv, DeletingHasFinalizer
    <3>2. PhaseOf(new) = "guarded" /\ PhaseOf(vgcObj) = "open"
      BY <2>1, <2>2, <2>6, <3>1 DEF PhaseOf
    <3>3. phases[vgcReq] = "open" /\ phases' = [phases EXCEPT ![vgcReq] = "guarded"]
      <4>1. /\ phases[vgcReq] = PhaseOf(vgcObj)
            /\ phases' = [phases EXCEPT ![vgcReq] = PhaseOf(new)]
        BY <2>1, <2>6, ContentWrite, MappedState
      <4> QED BY <3>2, <4>1
    <3>4. knownHandles' = knownHandles
      BY <2>1, <2>2, ContentWrite
    <3>5. Promise!Guard(vgcReq)
      BY <1>owners, <2>1, <3>3, <3>4 DEF Promise!Guard, Promise!SetPhase, storedGroups
    <3> QED BY <2>6, <3>5, OneStep
  <2> QED BY <2>4, <2>5, <2>6
<1>5. CASE VGCCreateGroup
  <2>1. vgcPc = "createGroup" /\ vgcs' = vgcs /\ groups' = groups \cup {vgcReq}
    BY <1>5 DEF VGCCreateGroup
  <2>2. CASE vgcReq \in storedGroups \/ vgcReq \notin DynamicContents
    BY <1>owners, <2>1, <2>2, ContentsSame, Stutter DEF storedGroups
  <2>3. CASE vgcReq \notin storedGroups /\ vgcReq \in DynamicContents
    <3>1. phases[vgcReq] \in {"guarded", "closing"}
      BY <2>1, <2>3, MappedState DEF FinalizerInv, ContentWorkerInv, PhaseOf
    <3>2. storedGroups' = storedGroups \cup {vgcReq}
      BY <2>1, <2>3 DEF storedGroups
    <3>3. Promise!Provision(vgcReq)
      BY <1>owners, <2>1, <2>3, <3>1, <3>2, ContentsSame DEF Promise!Provision, Promise!Guarded
    <3> QED BY <2>3, <3>3, OneStep
  <2> QED BY <2>2, <2>3
<1>6. CASE VGCSetHandle
  <2> DEFINE new == [vgcObj EXCEPT !.handle = TRUE]
  <2>1. /\ vgcPc = "setHandle" /\ vgcs[vgcReq] = vgcObj /\ groups' = groups /\ VGCWrite(new)
        /\ vgcs' = [vgcs EXCEPT ![vgcReq] = new] /\ vgcReq \in ContentNames
        /\ vgcObj \in VGC /\ vgcObj # NoObj
    BY <1>6, <1>busy DEF VGCSetHandle, VGCCurrent, VGCWrite
  <2>2. /\ new \in VGC /\ new # NoObj /\ new.handle /\ new.fin = vgcObj.fin
        /\ new.deleting = vgcObj.deleting
    BY <2>1 DEF VGC
  <2>3. vgcObj.handle \in BOOLEAN /\ new.handle \in BOOLEAN
    BY <2>1, <2>2 DEF VGC
  <2> HIDE DEF new
  <2>4. CASE vgcObj.handle
    BY <1>write, <2>1, <2>2, <2>3, <2>4
  <2>5. CASE ~vgcObj.handle /\ vgcReq \notin DynamicContents
    BY <1>owners, <2>1, <2>5, ContentWrite, Stutter DEF storedGroups
  <2>6. CASE ~vgcObj.handle /\ vgcReq \in DynamicContents
    <3>1. vgcObj.fin /\ vgcReq \in groups
      BY <2>1, <2>6 DEF DynamicContents, BackedInv, ReportInv
    <3>2. PhaseOf(new) = PhaseOf(vgcObj) /\ PhaseOf(vgcObj) \in {"guarded", "closing"}
      BY <2>1, <2>2, <3>1 DEF PhaseOf
    <3>3. phases[vgcReq] = PhaseOf(vgcObj) /\ phases' = [phases EXCEPT ![vgcReq] = PhaseOf(new)]
      BY <2>1, <2>6, ContentWrite, MappedState
    <3>4. phases' = phases
      BY <3>2, <3>3 DEF phases
    <3>5. knownHandles' = knownHandles \cup {vgcReq}
      BY <2>1, <2>2, <2>6, ContentWrite
    <3>6. vgcReq \in storedGroups \ knownHandles
      BY <2>1, <2>6, <3>1 DEF storedGroups, knownHandles
    <3>7. Promise!Record(vgcReq)
      BY <1>owners, <2>1, <3>2, <3>3, <3>4, <3>5, <3>6
      DEF Promise!Record, Promise!Guarded, storedGroups
    <3> QED BY <2>6, <3>7, OneStep
  <2> QED BY <2>4, <2>5, <2>6
<1>7. CASE VGCRemoveContent
  <2>1. /\ vgcPc = "removeContent" /\ vgcs' = vgcs
        /\ groups' \in {groups, groups \ {vgcReq}}
    BY <1>7 DEF VGCRemoveContent
  <2>2. CASE vgcReq \notin groups \/ vgcReq \notin DynamicContents \/ groups' = groups
    BY <1>owners, <2>1, <2>2, ContentsSame, Stutter DEF storedGroups
  <2>3. CASE vgcReq \in groups /\ vgcReq \in DynamicContents /\ groups' = groups \ {vgcReq}
    <3>1. PICK u \in UIDs : vgcReq = MakeVGName(u)
      BY <2>3 DEF DynamicContents
    <3>2. vgcObj.policy = "Delete" /\ vgcObj.handle
      BY <1>7, <2>1, <2>3 DEF VGCRemoveContent, FinalizerInv, DynamicPolicy
    <3>3. vgcs[vgcReq] # NoObj /\ vgcs[vgcReq].fin /\ vgcs[vgcReq].deleting
      BY <2>1, <2>3 DEF FinalizerInv, NoLeakedGroup, ContentWorkerInv, VGCRemoveSteps, Protected
    <3>4. nameOf[u] # NoName /\ ~Alive(u) /\ HandleRecorded(u)
      BY <1>busy, <2>1, <3>1, <3>2
      DEF BackedInv, CopiesInv, ContentCopy, Seen, ReportInv, VGCRemoveSteps
    <3>5. owners[vgcReq] = "gone" /\ phases[vgcReq] = "closing"
      BY <2>3, <3>1, <3>3, <3>4, MappedState DEF OwnerOf, Alive, PhaseOf
    <3>6. vgcReq \in storedGroups \cap knownHandles
      BY <2>3, <3>1, <3>3, <3>4 DEF storedGroups, knownHandles, HandleRecorded
    <3>7. storedGroups' = storedGroups \ {vgcReq}
      BY <2>3 DEF storedGroups
    <3>8. Promise!Reclaim(vgcReq)
      BY <1>owners, <2>1, <3>5, <3>6, <3>7, ContentsSame DEF Promise!Reclaim
    <3> QED BY <2>3, <3>8, OneStep
  <2> QED BY <2>1, <2>2, <2>3
<1>8. CASE VGCRemoveFinalizer
  <2> DEFINE new == Released(vgcObj)
  <2>1. /\ vgcPc = "removeFinalizer" /\ vgcs[vgcReq] = vgcObj /\ groups' = groups
        /\ VGCWrite(new) /\ vgcs' = [vgcs EXCEPT ![vgcReq] = new] /\ vgcReq \in ContentNames
        /\ vgcObj \in VGC /\ vgcObj # NoObj
    BY <1>8, <1>busy DEF VGCRemoveFinalizer, VGCCurrent, VGCWrite
  <2>2. /\ new \in VGC \cup {NoObj}
        /\ new = NoObj <=> vgcObj.deleting
        /\ new # NoObj => /\ new.handle = vgcObj.handle /\ ~new.fin /\ ~new.deleting
    <3>1. ~vgcObj.deleting => new \in VGC
      BY <2>1 DEF Released, VGC
    <3> QED BY <2>1, <3>1, RemovalFacts, WrittenContent
  <2>3. vgcObj.deleting = vgcObj.fin
    BY <2>1 DEF FinalizerInv, DeletingHasFinalizer, ContentWorkerInv, VGCRemoveSteps,
                Protected, VGC
  <2> HIDE DEF new
  <2>4. CASE new # NoObj
    <3>1. /\ new \in VGC /\ new.fin = FALSE /\ new.deleting = FALSE
          /\ vgcObj.fin = FALSE /\ vgcObj.deleting = FALSE
      BY <2>1, <2>2, <2>3, <2>4 DEF VGC
    <3> QED BY <1>write, <2>1, <2>2, <2>4, <3>1
  <2>5. CASE new = NoObj /\ vgcReq \notin DynamicContents
    BY <1>owners, <2>1, <2>5, ContentWrite, Stutter DEF storedGroups
  <2>6. CASE new = NoObj /\ vgcReq \in DynamicContents
    <3>1. vgcReq \notin storedGroups
      BY <2>1, <2>6 DEF FinalizerInv, ContentWorkerInv, storedGroups
    <3>2. PhaseOf(new) = "absent" /\ PhaseOf(vgcObj) = "closing"
      BY <2>1, <2>2, <2>3, <2>6 DEF PhaseOf
    <3>3. phases[vgcReq] = "closing" /\ phases' = [phases EXCEPT ![vgcReq] = "absent"]
      BY <2>1, <2>6, <3>2, ContentWrite, MappedState
    <3>4. knownHandles' = knownHandles \ {vgcReq}
      BY <2>1, <2>6, ContentWrite
    <3>5. Promise!Leave(vgcReq)
      BY <1>owners, <2>1, <3>1, <3>3, <3>4 DEF Promise!Leave, Promise!SetPhase, storedGroups
    <3> QED BY <2>6, <3>5, OneStep
  <2> QED BY <2>4, <2>5, <2>6
<1> QED
  BY <1>quiet, <1>2, <1>3, <1>4, <1>5, <1>6, <1>7, <1>8
  DEF VGCController, VGCStep, VGCStart, BindingEvent, VGCReconcile, VGCCheckOwner,
      VGCDeletePVCs, VGCRetry, VGCRefused, VGCCallFails

\* So is what users, watches and a restart do.
LEMMA EnvironmentPromise ==
    ASSUME TypeOK, OwnerInv, BackedInv, UNCHANGED vars \/ User \/ Watches \/ Restart
    PROVE  [Promise!Next]_Promise!vars
<1> USE NameFacts
<1>stored. storedGroups' = storedGroups
  BY DEF vars, User, Watches, Restart, CreateVG, DeleteVG, DeleteVGC, CreateStaticVGC,
         SyncVG, SyncVGC, WorkersFrame, storedGroups
<1>quiet. CASE vgs' = vgs /\ nameOf' = nameOf /\ vgcs' = vgcs
  BY <1>quiet, <1>stored, GroupsSame, ContentsSame, Stutter
<1>1. ASSUME NEW n \in Names, NEW u \in UIDs, NEW content \in SourceContents,
             CreateVG(n, u, content)
      PROVE  [Promise!Next]_Promise!vars
  <2> DEFINE new == [uid |-> u, deleting |-> FALSE, fin |-> FALSE,
                     content |-> content, ready |-> FALSE]
             r == MakeVGName(u)
  <2>1. /\ vgs[n] = NoObj /\ nameOf[u] = NoName /\ nameOf' = [nameOf EXCEPT ![u] = n]
        /\ vgs' = [vgs EXCEPT ![n] = new] /\ vgcs' = vgcs
    BY <1>1 DEF CreateVG
  <2>2. new \in VG /\ new # NoObj /\ new.uid = u /\ ~new.ready
    <3>1. new \in VG /\ new.uid = u /\ ~new.ready
      BY <1>1 DEF VG
    <3> QED BY <3>1
  <2> HIDE DEF new
  <2>3. OwnerOf(u)' = "pending" /\ owners[r] = "none"
    BY <2>1, <2>2, MappedState DEF OwnerOf, IsVG, TypeOK
  <2>4. \A v \in UIDs \ {u} : OwnerOf(v)' = OwnerOf(v)
    BY <2>1, <2>2 DEF OwnerOf, IsVG, TypeOK
  <2>5. owners' = [owners EXCEPT ![r] = "pending"]
    BY <2>3, <2>4, OwnerStep
  <2>6. Promise!Request(r)
    BY <1>stored, <2>1, <2>3, <2>5, ContentsSame DEF Promise!Request, Promise!SetOwner
  <2> QED BY <2>6, OneStep
<1>2. ASSUME NEW n \in Names, DeleteVG(n) PROVE [Promise!Next]_Promise!vars
  <2> DEFINE new == Deleted(vgs[n])
  <2>1. /\ vgs[n] # NoObj /\ vgs[n] \in VG /\ vgs' = [vgs EXCEPT ![n] = new]
        /\ nameOf' = nameOf /\ vgcs' = vgcs
    BY <1>2 DEF DeleteVG, TypeOK
  <2>2. /\ new \in VG \cup {NoObj}
        /\ new # NoObj => new.uid = vgs[n].uid /\ new.ready = vgs[n].ready
    BY <2>1, RemovalFacts, RemovedGroup
  <2> HIDE DEF new
  <2>3. CASE new # NoObj
    <3>1. owners' = owners
      BY <2>1, <2>2, <2>3, GroupRewrite
    <3> QED BY <1>stored, <2>1, <3>1, ContentsSame, Stutter
  <2>4. CASE new = NoObj
    <3>1. PICK u \in UIDs : u = vgs[n].uid
      BY <2>1 DEF VG
    <3> DEFINE r == MakeVGName(u)
    <3>2. OwnerOf(u) \in {"pending", "ready"} /\ owners' = [owners EXCEPT ![r] = "gone"]
      BY <2>1, <2>2, <2>4, <3>1, GroupWrite
    <3>3. Promise!Release(r)
      BY <1>stored, <2>1, <3>2, ContentsSame, MappedState
      DEF Promise!Release, Promise!SetOwner, Promise!Alive
    <3> QED BY <3>3, OneStep
  <2> QED BY <2>3, <2>4
<1>3. ASSUME NEW c \in StaticContents, NEW class, NEW policy,
             CreateStaticVGC(c, class, policy)
      PROVE  [Promise!Next]_Promise!vars
  <2>1. PICK new : vgcs' = [vgcs EXCEPT ![c] = new]
    BY <1>3 DEF CreateStaticVGC
  <2>2. c \in ContentNames /\ c \notin DynamicContents
    OBVIOUS
  <2>3. phases' = phases /\ knownHandles' = knownHandles
    BY <2>1, <2>2, ContentWrite
  <2>4. owners' = owners
    BY <1>3, GroupsSame DEF CreateStaticVGC
  <2> QED BY <1>stored, <2>3, <2>4, Stutter
<1>4. ASSUME NEW c \in ContentNames, DeleteVGC(c) PROVE [Promise!Next]_Promise!vars
  BY <1>4, <1>stored, GroupsSame, DeletionCloses DEF DeleteVGC
<1> QED
  BY <1>quiet, <1>1, <1>2, <1>3, <1>4
  DEF User, Watches, Restart, SyncVG, SyncVGC, vars, apiVars

\* The operator keeps its promise, under the policy Delete and if new
\* VolumeGroups name no content: seen through the API server and the storage
\* system, every run of the two controllers on stale copies is a run of the
\* promise, for any number of names, uids and failures.
THEOREM OperatorKeepsPromise ==
    ASSUME SourceContents \subseteq {NoName}, DeletionPolicy = "Delete"
    PROVE  Spec => PromiseKept
<1>0. NamesUnguessed
  BY NameFacts DEF NamesUnguessed
<1>1. Init => Promise!Init
  <2> SUFFICES ASSUME Init PROVE Promise!Init
    OBVIOUS
  <2>1. owners = [c \in DynamicContents |-> "none"]
    BY MappedState DEF owners, Init, OwnerOf
  <2>2. phases = [c \in DynamicContents |-> "absent"]
    BY NameFacts DEF phases, Init, PhaseOf
  <2>3. storedGroups = {} /\ knownHandles = {}
    BY NameFacts DEF storedGroups, knownHandles, Init
  <2> QED BY <2>1, <2>2, <2>3 DEF Promise!Init
<1>2. TypeOK /\ FinalizerInv /\ OwnerInv /\ BackedInv /\ [Next]_vars
        => [Promise!Next]_Promise!vars
  BY VGControllerPromise, VGCControllerPromise, EnvironmentPromise DEF Next
<1> QED
  BY <1>0, <1>1, <1>2, TypeCorrect, FinalizerInvariant, OwnersKnown, CopiesReliable, PTL
  DEF Spec, PromiseKept, Promise!Spec
=============================================================================
