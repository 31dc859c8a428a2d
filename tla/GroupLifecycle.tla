--------------------------- MODULE GroupLifecycle ---------------------------
(***************************************************************************)
(* Provisioning and deletion of volume groups: the VolumeGroup controller  *)
(* and the VolumeGroupContent controller of the operator, the API server   *)
(* they write to, the informer cache they read from, the user, and the     *)
(* storage driver behind the CSI volume group RPCs.                        *)
(*                                                                         *)
(* Simplifications:                                                        *)
(*  - Reads come from the cache and may be stale by any number of writes;  *)
(*    one Sync step brings a cached object up to date.                     *)
(*  - A write carries the whole object the writer holds.  The API server   *)
(*    compares resource versions; here a write is accepted when the        *)
(*    writer's copy equals the stored object, so the only conflicts left   *)
(*    out are those over fields without meaning here (status.error,        *)
(*    timestamps, the member lists): a failure of the call stands for them.*)
(*  - An error return ends the reconcile and puts the request back on the  *)
(*    queue.  A call that took effect although the caller saw an error is  *)
(*    the call followed by a failure of the next step.                     *)
(*  - The volumes of a group belong to GroupMembership: here the work on   *)
(*    them is a step that leaves the lifecycle alone and may fail.         *)
(***************************************************************************)
EXTENDS Naturals, FiniteSets

CONSTANTS
    Names,            \* names of VolumeGroup objects, in one namespace
    UIDs,             \* uids the API server gives to VolumeGroup objects
    StaticContents,   \* names of contents an administrator creates
    SourceContents,   \* what a new VolumeGroup may name as its content
    UserDeletes,      \* contents a user may delete by hand
    ClassPolicy,      \* volumeGroupDeletionPolicy of the VolumeGroupClass
    DisableDeletePvcs,\* the --disable-delete-pvcs flag
    MaxFailures,      \* bound on failed calls, spurious conflicts and crashes
    NoObj,            \* no object (NotFound)
    NoName            \* a nil name

Policies == {"nil", "Delete", "Retain"}

\* "volumegroup" stands for the prefix; the code joins it and the uid.
MakeVGName(uid) == <<"volumegroup", uid>>

DynamicContents == {MakeVGName(u) : u \in UIDs}
ContentNames == DynamicContents \cup StaticContents

(***************************************************************************)
(* A VolumeGroup: fin is the operator's finalizer, content is              *)
(* spec.source.volumeGroupContentName, ready is status.ready.              *)
(***************************************************************************)
VG == [uid : UIDs, deleting : BOOLEAN, fin : BOOLEAN,
       content : ContentNames \cup {NoName}, ready : BOOLEAN]

(***************************************************************************)
(* A VolumeGroupContent: class tells whether volumeGroupClassName is set,  *)
(* ref is volumeGroupRef.name, handle tells whether                        *)
(* source.volumeGroupHandle is set.                                        *)
(***************************************************************************)
VGC == [class : BOOLEAN, ref : Names \cup {NoName}, handle : BOOLEAN,
        policy : Policies, ready : BOOLEAN, deleting : BOOLEAN, fin : BOOLEAN]

ASSUME ConstantsAssumption ==
    /\ ClassPolicy \in Policies
    /\ DisableDeletePvcs \in BOOLEAN
    /\ MaxFailures \in Nat
    /\ SourceContents \subseteq ContentNames \cup {NoName}
    /\ UserDeletes \subseteq ContentNames
    /\ StaticContents \cap DynamicContents = {}
    /\ NoName \notin Names \cup ContentNames
    /\ NoObj \notin VG \cup VGC

VARIABLES
    vgs, vgcs,              \* objects stored by the API server, by name
    vgCache, vgcCache,      \* what the informer cache returns for them
    groups,                 \* contents whose group exists on the storage system
    nameOf,                 \* the name under which each uid was created
    vgQueue, vgcQueue,      \* work queues of the two controllers
    vgPc, vgReq, vgObj,     \* VolumeGroup worker: step, request, its copy
    vgStatic,               \* ... and whether it is on the static path
    vgcPc, vgcReq, vgcObj,  \* VolumeGroupContent worker
    failures                \* failures so far

apiVars == <<vgs, vgcs>>
cacheVars == <<vgCache, vgcCache>>
vgWorker == <<vgPc, vgReq, vgObj, vgStatic>>
vgcWorker == <<vgcPc, vgcReq, vgcObj>>
vars == <<apiVars, cacheVars, groups, nameOf, vgQueue, vgcQueue,
          vgWorker, vgcWorker, failures>>

VGSteps == {"idle", "addFinalizer", "createContent", "checkReady",
            "setContent", "setStatus", "confirmStatus", "bindContent",
            "members", "deleteContent", "removeFinalizer"}

VGCSteps == {"idle", "thinSpec", "thinStatus", "addFinalizer", "staticSpec",
             "readyStatus", "createGroup", "setHandle", "checkOwner",
             "deletePVCs", "removeContent", "removeFinalizer"}

TypeOK ==
    /\ vgs \in [Names -> VG \cup {NoObj}]
    /\ vgCache \in [Names -> VG \cup {NoObj}]
    /\ vgcs \in [ContentNames -> VGC \cup {NoObj}]
    /\ vgcCache \in [ContentNames -> VGC \cup {NoObj}]
    /\ groups \subseteq ContentNames
    /\ nameOf \in [UIDs -> Names \cup {NoName}]
    /\ vgQueue \subseteq Names
    /\ vgcQueue \subseteq ContentNames
    /\ vgPc \in VGSteps
    /\ IF vgPc = "idle" THEN vgReq = NoName /\ vgObj = NoObj
                        ELSE vgReq \in Names /\ vgObj \in VG
    /\ vgStatic \in BOOLEAN
    /\ vgcPc \in VGCSteps
    /\ IF vgcPc = "idle" THEN vgcReq = NoName /\ vgcObj = NoObj
                         ELSE vgcReq \in ContentNames /\ vgcObj \in VGC
    /\ failures \in 0 .. MaxFailures

Init ==
    /\ vgs = [n \in Names |-> NoObj]
    /\ vgCache = vgs
    /\ vgcs = [c \in ContentNames |-> NoObj]
    /\ vgcCache = vgcs
    /\ groups = StaticContents   \* these groups were made by the administrator
    /\ nameOf = [u \in UIDs |-> NoName]
    /\ vgQueue = {}
    /\ vgcQueue = {}
    /\ vgPc = "idle" /\ vgReq = NoName /\ vgObj = NoObj /\ vgStatic = FALSE
    /\ vgcPc = "idle" /\ vgcReq = NoName /\ vgcObj = NoObj
    /\ failures = 0

-----------------------------------------------------------------------------
(***************************************************************************)
(* What the two workers share.                                             *)
(***************************************************************************)

\* getVolumeGroupDeletionPolicy: the class's policy, or Delete.
DeletionPolicy == IF ClassPolicy = "nil" THEN "Delete" ELSE ClassPolicy

\* updateStaticVGCSpec: what the content does not say comes from the class.
StaticSpec(vgc) ==
    [vgc EXCEPT !.class = TRUE,
                !.policy = IF @ = "nil" THEN DeletionPolicy ELSE @]

\* updateThinVGCSpec: a content without a class is retained by default.
ThinSpec(vgc) == [vgc EXCEPT !.policy = IF @ = "nil" THEN "Retain" ELSE @]

\* GenerateVGC
NewVGC(n) ==
    [class |-> TRUE, ref |-> n, handle |-> FALSE, policy |-> DeletionPolicy,
     ready |-> FALSE, deleting |-> FALSE, fin |-> FALSE]

\* An object without finalizers goes when its deletion is asked for; one that
\* is being deleted goes when its last finalizer is removed.
Deleted(o) == IF o.fin THEN [o EXCEPT !.deleting = TRUE] ELSE NoObj
Released(o) == IF o.deleting THEN NoObj ELSE [o EXCEPT !.fin = FALSE]

VGIdle == vgPc' = "idle" /\ vgReq' = NoName /\ vgObj' = NoObj /\ vgStatic' = FALSE
VGCIdle == vgcPc' = "idle" /\ vgcReq' = NoName /\ vgcObj' = NoObj

VGDone == VGIdle /\ UNCHANGED vgQueue
VGRequeue == VGIdle /\ vgQueue' = vgQueue \cup {vgReq}
VGCDone == VGCIdle /\ UNCHANGED vgcQueue
VGCRequeue == VGCIdle /\ vgcQueue' = vgcQueue \cup {vgcReq}

VGGoto(pc) == vgPc' = pc /\ UNCHANGED <<vgReq, vgStatic, vgQueue>>
VGCGoto(pc) == vgcPc' = pc /\ UNCHANGED <<vgcReq, vgcQueue>>

\* One write of the copy a worker holds.
VGCurrent == vgs[vgReq] = vgObj
VGWrite(new) == vgs' = [vgs EXCEPT ![vgReq] = new]
VGCCurrent == vgcs[vgcReq] = vgcObj
VGCWrite(new) == vgcs' = [vgcs EXCEPT ![vgcReq] = new]

Fails == failures < MaxFailures /\ failures' = failures + 1

\* What a step of each worker leaves alone.
VGFrame == UNCHANGED <<cacheVars, groups, nameOf, vgcQueue, vgcWorker>>
VGCFrame == UNCHANGED <<vgs, cacheVars, nameOf, vgQueue, vgWorker>>

-----------------------------------------------------------------------------
(***************************************************************************)
(* The VolumeGroup controller.                                             *)
(***************************************************************************)

\* Reconcile once the finalizer is there: a group that names its content
\* takes the static path, and a group provisioned before does so too.
ProvisionStep(vg) == IF vg.content = NoName THEN "createContent" ELSE "setContent"

ReconcileStep(vg) ==
    CASE vg = NoObj -> "idle"
      [] vg # NoObj /\ vg.deleting /\ vg.fin -> "deleteContent"
      [] vg # NoObj /\ vg.deleting /\ ~vg.fin -> "idle"
      [] vg # NoObj /\ ~vg.deleting /\ ~vg.fin -> "addFinalizer"
      [] vg # NoObj /\ ~vg.deleting /\ vg.fin -> ProvisionStep(vg)

VGReconcile(n) ==
    /\ vgPc = "idle"
    /\ LET vg == vgCache[n] IN
         IF ReconcileStep(vg) = "idle" THEN VGIdle
         ELSE /\ vgPc' = ReconcileStep(vg) /\ vgReq' = n /\ vgObj' = vg
              /\ vgStatic' = (vg.content # NoName)
    /\ UNCHANGED <<apiVars, failures>> /\ VGFrame

VGStart(n) == n \in vgQueue /\ vgQueue' = vgQueue \ {n} /\ VGReconcile(n)

\* CreateRequests: an event of a claim that matches the group asks for a
\* reconcile.  Enqueuing is not observable before the request is taken, so
\* the two are one step.
PVCEvent(n) ==
    /\ n \notin vgQueue /\ vgCache[n] # NoObj
    /\ UNCHANGED vgQueue /\ VGReconcile(n)

\* AddFinalizerToVG.  The copy may have been fetched again by a retry, and
\* whether it is being deleted is not looked at a second time.
VGAddFinalizer ==
    /\ vgPc = "addFinalizer" /\ VGCurrent
    /\ LET vg == [vgObj EXCEPT !.fin = TRUE] IN
         /\ VGWrite(vg) /\ vgObj' = vg
         /\ vgPc' = ProvisionStep(vg) /\ vgStatic' = (vg.content # NoName)
    /\ UNCHANGED <<vgcs, vgReq, vgQueue, failures>> /\ VGFrame

\* CreateVGC: a content that already exists is left as it is.
VGCreateContent ==
    /\ vgPc = "createContent"
    /\ LET c == MakeVGName(vgObj.uid) IN
         vgcs' = IF vgcs[c] = NoObj THEN [vgcs EXCEPT ![c] = NewVGC(vgReq)] ELSE vgcs
    /\ VGGoto("checkReady")
    /\ UNCHANGED <<vgs, vgObj, failures>> /\ VGFrame

\* Seeded fault: a content in the cache is taken for a ready one.
VGCheckReady_AnyContent ==
    /\ vgPc = "checkReady"
    /\ IF vgcCache[MakeVGName(vgObj.uid)] # NoObj
         THEN VGGoto("setContent") /\ UNCHANGED vgObj
         ELSE VGRequeue
    /\ UNCHANGED <<apiVars, failures>> /\ VGFrame

\* Seeded fault: a content that is not ready ends the reconcile for good.
VGCheckReady_NoRequeue ==
    /\ vgPc = "checkReady"
    /\ LET vgc == vgcCache[MakeVGName(vgObj.uid)] IN
         IF vgc # NoObj /\ vgc.ready
           THEN VGGoto("setContent") /\ UNCHANGED vgObj
           ELSE VGDone
    /\ UNCHANGED <<apiVars, failures>> /\ VGFrame

\* isVGCReady: a content that is not in the cache is not ready; a requeue.
VGCheckReady ==
    /\ vgPc = "checkReady"
    /\ LET vgc == vgcCache[MakeVGName(vgObj.uid)] IN
         IF vgc # NoObj /\ vgc.ready
           THEN VGGoto("setContent") /\ UNCHANGED vgObj
           ELSE VGRequeue
    /\ UNCHANGED <<apiVars, failures>> /\ VGFrame

\* UpdateVGSourceContent; no retry.
VGSetContent ==
    /\ vgPc = "setContent" /\ VGCurrent
    /\ LET vg == [vgObj EXCEPT !.content = IF vgStatic THEN @ ELSE MakeVGName(vgObj.uid)]
       IN VGWrite(vg) /\ vgObj' = vg
    /\ VGGoto("setStatus")
    /\ UNCHANGED <<vgcs, failures>> /\ VGFrame

\* UpdateVGStatus: the write under retry, then the same write once more.
VGSetStatus ==
    /\ vgPc = "setStatus" /\ VGCurrent
    /\ LET vg == [vgObj EXCEPT !.ready = TRUE] IN VGWrite(vg) /\ vgObj' = vg
    /\ VGGoto("confirmStatus")
    /\ UNCHANGED <<vgcs, failures>> /\ VGFrame

VGConfirmStatus ==
    /\ vgPc = "confirmStatus" /\ VGCurrent
    /\ VGGoto(IF vgStatic THEN "bindContent" ELSE "members")
    /\ UNCHANGED <<apiVars, vgObj, failures>> /\ VGFrame

\* Seeded fault: a failed binding is not reported.
VGBindContent_ErrorIgnored ==
    /\ vgPc = "bindContent"
    /\ LET c == vgObj.content
           vgc == vgcCache[c] IN
         IF vgc # NoObj /\ vgcs[c] = vgc
           THEN /\ vgcs' = [vgcs EXCEPT ![c] = [StaticSpec(vgc) EXCEPT !.ref = vgReq]]
                /\ VGGoto("members") /\ UNCHANGED vgObj
           ELSE VGDone /\ UNCHANGED vgcs
    /\ UNCHANGED <<vgs, failures>> /\ VGFrame

\* UpdateStaticVGCFromVG: get the content from the cache and write it back;
\* the write is refused if the cached content is out of date, without retry.
VGBindContent ==
    /\ vgPc = "bindContent"
    /\ LET c == vgObj.content
           vgc == vgcCache[c] IN
         IF vgc # NoObj /\ vgcs[c] = vgc
           THEN /\ vgcs' = [vgcs EXCEPT ![c] = [StaticSpec(vgc) EXCEPT !.ref = vgReq]]
                /\ VGGoto("members") /\ UNCHANGED vgObj
           ELSE VGRequeue /\ UNCHANGED vgcs
    /\ UNCHANGED <<vgs, failures>> /\ VGFrame

\* updatePVCs
VGMembers ==
    /\ vgPc = "members"
    /\ VGDone
    /\ UNCHANGED <<apiVars, failures>> /\ VGFrame

\* Seeded fault: the comparison with the deletion policy is inverted.
VGDeleteContent_PolicyInverted ==
    /\ vgPc = "deleteContent"
    /\ LET c == vgObj.content
           delete == c # NoName /\ vgcCache[c] # NoObj /\ vgcCache[c].policy = "Retain" IN
         vgcs' = IF delete THEN [vgcs EXCEPT ![c] = Deleted(@)] ELSE vgcs
    /\ VGGoto("removeFinalizer")
    /\ UNCHANGED <<vgs, vgObj, failures>> /\ VGFrame

\* Seeded fault: a content that is not found is an error.
VGDeleteContent_NotFoundFails ==
    /\ vgPc = "deleteContent"
    /\ LET c == vgObj.content IN
         IF c = NoName \/ vgcCache[c] = NoObj \/ vgcs[c] = NoObj
           THEN VGRequeue /\ UNCHANGED vgcs
           ELSE /\ vgcs' = IF vgcCache[c].policy = "Delete"
                             THEN [vgcs EXCEPT ![c] = Deleted(@)] ELSE vgcs
                /\ VGGoto("removeFinalizer") /\ UNCHANGED vgObj
    /\ UNCHANGED <<vgs, failures>> /\ VGFrame

\* removeInstance up to the finalizer, removeVGCObject included.  A content
\* with no policy is a nil dereference: the panic ends the reconcile.
VGDeleteContent ==
    /\ vgPc = "deleteContent"
    /\ LET c == vgObj.content
           found == c # NoName /\ vgcCache[c] # NoObj
           delete == found /\ vgcCache[c].policy = "Delete" IN
         IF (found /\ vgcCache[c].policy = "nil") \/ (delete /\ vgcs[c] = NoObj)
           THEN VGRequeue /\ UNCHANGED vgcs
           ELSE /\ vgcs' = IF delete THEN [vgcs EXCEPT ![c] = Deleted(@)] ELSE vgcs
                /\ VGGoto("removeFinalizer") /\ UNCHANGED vgObj
    /\ UNCHANGED <<vgs, failures>> /\ VGFrame

\* RemoveFinalizerFromVG
VGRemoveFinalizer ==
    /\ vgPc = "removeFinalizer" /\ VGCurrent
    /\ VGWrite(Released(vgObj))
    /\ VGDone
    /\ UNCHANGED <<vgcs, failures>> /\ VGFrame

VGWriteSteps == {"addFinalizer", "setContent", "setStatus", "confirmStatus", "removeFinalizer"}
VGRetrySteps == {"addFinalizer", "setStatus", "removeFinalizer"}

\* RetryOnConflict: after a conflict the object is fetched again, from the
\* cache, and the step is repeated on it.
VGRetry ==
    /\ vgPc \in VGRetrySteps /\ vgs[vgReq] # NoObj /\ vgCache[vgReq] # NoObj
    /\ \/ ~VGCurrent /\ UNCHANGED failures
       \/ Fails
    /\ vgObj' = vgCache[vgReq]
    /\ UNCHANGED <<apiVars, vgPc, vgReq, vgStatic, vgQueue>> /\ VGFrame

\* The write is refused for good: no retry, no attempt left, or no object.
VGRefused ==
    /\ vgPc \in VGWriteSteps /\ ~VGCurrent
    /\ VGRequeue
    /\ UNCHANGED <<apiVars, failures>> /\ VGFrame

VGCallFails ==
    /\ vgPc # "idle" /\ Fails
    /\ VGRequeue
    /\ UNCHANGED apiVars /\ VGFrame

VGStep ==
    \/ VGAddFinalizer \/ VGCreateContent \/ VGCheckReady \/ VGSetContent
    \/ VGSetStatus \/ VGConfirmStatus \/ VGBindContent \/ VGMembers
    \/ VGDeleteContent \/ VGRemoveFinalizer \/ VGRetry \/ VGRefused

-----------------------------------------------------------------------------
(***************************************************************************)
(* The VolumeGroupContent controller.                                      *)
(***************************************************************************)

\* Reconcile once the finalizer is there: a content with a handle is taken to
\* be statically provisioned, and so is one whose group was created before.
GroupStep(vgc) == IF vgc.handle THEN "staticSpec" ELSE "createGroup"

\* Seeded fault: the group is created before the finalizer is there.
ContentStep_NoFinalizer(vgc) ==
    CASE ~vgc.class -> "thinSpec"
      [] vgc.class /\ vgc.deleting -> "checkOwner"
      [] vgc.class /\ ~vgc.deleting -> GroupStep(vgc)

ContentStep(vgc) ==
    CASE ~vgc.class -> "thinSpec"
      [] vgc.class /\ vgc.deleting -> "checkOwner"
      [] vgc.class /\ ~vgc.deleting /\ ~vgc.fin -> "addFinalizer"
      [] vgc.class /\ ~vgc.deleting /\ vgc.fin -> GroupStep(vgc)

\* Seeded fault: the early return for a content that is not found is missing.
VGCReconcile_NotFoundGoesOn(c) ==
    /\ vgcPc = "idle"
    /\ vgcPc' = IF vgcCache[c] = NoObj THEN "addFinalizer" ELSE ContentStep(vgcCache[c])
    /\ vgcReq' = c /\ vgcObj' = vgcCache[c]
    /\ UNCHANGED <<vgcs, groups, failures>> /\ VGCFrame

VGCReconcile(c) ==
    /\ vgcPc = "idle"
    /\ IF vgcCache[c] = NoObj THEN VGCIdle
       ELSE vgcPc' = ContentStep(vgcCache[c]) /\ vgcReq' = c /\ vgcObj' = vgcCache[c]
    /\ UNCHANGED <<vgcs, groups, failures>> /\ VGCFrame

VGCStart(c) == c \in vgcQueue /\ vgcQueue' = vgcQueue \ {c} /\ VGCReconcile(c)

\* Binding a content rewrites the uid and version in its reference: a new
\* generation although nothing this module keeps has changed.
BindingEvent(c) ==
    /\ c \notin vgcQueue /\ vgcCache[c] # NoObj /\ vgcCache[c].ref # NoName
    /\ UNCHANGED vgcQueue /\ VGCReconcile(c)

\* UpdateThinVGC and UpdateStaticVGC fetch their own copy from the cache; the
\* caller's copy does not see what they write.
FreshSpecUpdate(pc, spec, next) ==
    /\ vgcPc = pc
    /\ IF vgcCache[vgcReq] # NoObj /\ vgcs[vgcReq] = vgcCache[vgcReq]
         THEN VGCWrite(spec) /\ VGCGoto(next) /\ UNCHANGED vgcObj
         ELSE VGCRequeue /\ UNCHANGED vgcs
    /\ UNCHANGED <<groups, failures>> /\ VGCFrame

VGCThinSpec == FreshSpecUpdate("thinSpec", ThinSpec(vgcCache[vgcReq]), "thinStatus")
VGCStaticSpec == FreshSpecUpdate("staticSpec", StaticSpec(vgcCache[vgcReq]), "readyStatus")

\* UpdateVGCStatus on the copy read at the start; no retry.
StatusUpdate(pc, ready) ==
    /\ vgcPc = pc /\ VGCCurrent
    /\ VGCWrite([vgcObj EXCEPT !.ready = ready])
    /\ VGCDone
    /\ UNCHANGED <<groups, failures>> /\ VGCFrame

VGCThinStatus == StatusUpdate("thinStatus", FALSE)
VGCReadyStatus == StatusUpdate("readyStatus", TRUE)

\* AddFinalizerToVGC
VGCAddFinalizer ==
    /\ vgcPc = "addFinalizer" /\ VGCCurrent
    /\ LET vgc == [vgcObj EXCEPT !.fin = TRUE] IN
         VGCWrite(vgc) /\ vgcObj' = vgc /\ VGCGoto(GroupStep(vgc))
    /\ UNCHANGED <<groups, failures>> /\ VGCFrame

\* createVG: the driver creates the group by name; if it is there already the
\* driver answers with the same group.
VGCCreateGroup ==
    /\ vgcPc = "createGroup"
    /\ groups' = groups \cup {vgcReq}
    /\ VGCGoto("setHandle")
    /\ UNCHANGED <<vgcs, vgcObj, failures>> /\ VGCFrame

\* UpdateVGCByResponse; no retry.
VGCSetHandle ==
    /\ vgcPc = "setHandle" /\ VGCCurrent
    /\ LET vgc == [vgcObj EXCEPT !.handle = TRUE] IN VGCWrite(vgc) /\ vgcObj' = vgc
    /\ VGCGoto("readyStatus")
    /\ UNCHANGED <<groups, failures>> /\ VGCFrame

\* Seeded fault: a VolumeGroup that is being deleted no longer counts.
IsVgExist_NotDeleting(vgc) ==
    vgc.ref # NoName /\ vgCache[vgc.ref] # NoObj /\ ~vgCache[vgc.ref].deleting

\* handleVGCWithDeletionTimestamp up to the removal: IsVgExist looks for a
\* VolumeGroup with the name the content refers to.
IsVgExist(vgc) == vgc.ref # NoName /\ vgCache[vgc.ref] # NoObj

\* Seeded fault: waiting for the VolumeGroup to go is not an error.
VGCCheckOwner_NoRequeue ==
    /\ vgcPc = "checkOwner"
    /\ IF IsVgExist(vgcObj) \/ ~vgcObj.fin THEN VGCDone
       ELSE /\ VGCGoto(IF DisableDeletePvcs THEN "removeContent" ELSE "deletePVCs")
            /\ UNCHANGED vgcObj
    /\ UNCHANGED <<vgcs, groups, failures>> /\ VGCFrame

VGCCheckOwner ==
    /\ vgcPc = "checkOwner"
    /\ IF IsVgExist(vgcObj) THEN VGCRequeue
       ELSE IF ~vgcObj.fin THEN VGCDone
       ELSE /\ VGCGoto(IF DisableDeletePvcs THEN "removeContent" ELSE "deletePVCs")
            /\ UNCHANGED vgcObj
    /\ UNCHANGED <<vgcs, groups, failures>> /\ VGCFrame

\* DeletePVCsUnderVGC: every removal of a PV writes the content's status, and
\* a conflict there fetches the caller's copy again.
VGCDeletePVCs ==
    /\ vgcPc = "deletePVCs"
    /\ \/ VGCGoto("removeContent") /\ UNCHANGED vgcObj
       \/ /\ vgcCache[vgcReq] # NoObj
          /\ VGCGoto("removeContent") /\ vgcObj' = vgcCache[vgcReq]
    /\ UNCHANGED <<vgcs, groups, failures>> /\ VGCFrame

\* Seeded fault: the deletion policy is not looked at.
VGCRemoveContent_AnyPolicy ==
    /\ vgcPc = "removeContent"
    /\ IF ~vgcObj.handle
         THEN VGCRequeue /\ UNCHANGED groups
         ELSE /\ groups' = groups \ {vgcReq}
              /\ VGCGoto("removeFinalizer") /\ UNCHANGED vgcObj
    /\ UNCHANGED <<vgcs, failures>> /\ VGCFrame

\* Seeded fault: a content without a handle is taken to have no group.
VGCRemoveContent_NoHandleNoGroup ==
    /\ vgcPc = "removeContent"
    /\ groups' = IF vgcObj.policy = "Delete" /\ vgcObj.handle THEN groups \ {vgcReq} ELSE groups
    /\ VGCGoto("removeFinalizer")
    /\ UNCHANGED <<vgcs, vgcObj, failures>> /\ VGCFrame

\* removeVGC and deleteVG up to the finalizer.  No policy is a nil
\* dereference; the driver refuses to delete a group without an id, and
\* deleting a group that is gone succeeds.
VGCRemoveContent ==
    /\ vgcPc = "removeContent"
    /\ IF vgcObj.policy = "nil" \/ (vgcObj.policy = "Delete" /\ ~vgcObj.handle)
         THEN VGCRequeue /\ UNCHANGED groups
         ELSE /\ groups' = IF vgcObj.policy = "Delete" THEN groups \ {vgcReq} ELSE groups
              /\ VGCGoto("removeFinalizer") /\ UNCHANGED vgcObj
    /\ UNCHANGED <<vgcs, failures>> /\ VGCFrame

\* RemoveFinalizerFromVGC
VGCRemoveFinalizer ==
    /\ vgcPc = "removeFinalizer" /\ VGCCurrent
    /\ VGCWrite(Released(vgcObj))
    /\ VGCDone
    /\ UNCHANGED <<groups, failures>> /\ VGCFrame

VGCWriteSteps == {"thinStatus", "addFinalizer", "readyStatus", "setHandle", "removeFinalizer"}
VGCRetrySteps == {"addFinalizer", "removeFinalizer"}

VGCRetry ==
    /\ vgcPc \in VGCRetrySteps /\ vgcs[vgcReq] # NoObj /\ vgcCache[vgcReq] # NoObj
    /\ \/ ~VGCCurrent /\ UNCHANGED failures
       \/ Fails
    /\ vgcObj' = vgcCache[vgcReq]
    /\ UNCHANGED <<vgcs, groups, vgcPc, vgcReq, vgcQueue>> /\ VGCFrame

VGCRefused ==
    /\ vgcPc \in VGCWriteSteps /\ ~VGCCurrent
    /\ VGCRequeue
    /\ UNCHANGED <<vgcs, groups, failures>> /\ VGCFrame

VGCCallFails ==
    /\ vgcPc # "idle" /\ Fails
    /\ VGCRequeue
    /\ UNCHANGED <<vgcs, groups>> /\ VGCFrame

VGCStep ==
    \/ VGCThinSpec \/ VGCThinStatus \/ VGCAddFinalizer \/ VGCStaticSpec
    \/ VGCReadyStatus \/ VGCCreateGroup \/ VGCSetHandle \/ VGCCheckOwner
    \/ VGCDeletePVCs \/ VGCRemoveContent \/ VGCRemoveFinalizer
    \/ VGCRetry \/ VGCRefused

-----------------------------------------------------------------------------
(***************************************************************************)
(* The user, the watches and the operator's process.                       *)
(***************************************************************************)
WorkersFrame == UNCHANGED <<groups, vgWorker, vgcWorker>>

CreateVG(n, u, content) ==
    /\ vgs[n] = NoObj /\ nameOf[u] = NoName
    /\ nameOf' = [nameOf EXCEPT ![u] = n]
    /\ vgs' = [vgs EXCEPT ![n] = [uid |-> u, deleting |-> FALSE, fin |-> FALSE,
                                  content |-> content, ready |-> FALSE]]
    /\ UNCHANGED <<vgcs, cacheVars, vgQueue, vgcQueue, failures>> /\ WorkersFrame

DeleteVG(n) ==
    /\ vgs[n] # NoObj /\ ~vgs[n].deleting
    /\ vgs' = [vgs EXCEPT ![n] = Deleted(@)]
    /\ UNCHANGED <<vgcs, cacheVars, nameOf, vgQueue, vgcQueue, failures>> /\ WorkersFrame

\* An administrator describes an existing group, with or without a class.
CreateStaticVGC(c, class, policy) ==
    /\ vgcs[c] = NoObj /\ c \in groups
    /\ vgcs' = [vgcs EXCEPT ![c] = [class |-> class, ref |-> NoName, handle |-> TRUE,
                                    policy |-> policy, ready |-> FALSE,
                                    deleting |-> FALSE, fin |-> FALSE]]
    /\ UNCHANGED <<vgs, cacheVars, nameOf, vgQueue, vgcQueue, failures>> /\ WorkersFrame

DeleteVGC(c) ==
    /\ c \in UserDeletes /\ vgcs[c] # NoObj /\ ~vgcs[c].deleting
    /\ vgcs' = [vgcs EXCEPT ![c] = Deleted(@)]
    /\ UNCHANGED <<vgs, cacheVars, nameOf, vgQueue, vgcQueue, failures>> /\ WorkersFrame

\* The predicates of SetupWithManager: creation, deletion, a new generation
\* (spec or deletion timestamp) or new finalizers; never a status change.
Triggers(old, new) ==
    \/ NoObj \in {old, new}
    \/ [old EXCEPT !.ready = FALSE] # [new EXCEPT !.ready = FALSE]

SyncVG(n) ==
    /\ vgCache[n] # vgs[n]
    /\ vgCache' = [vgCache EXCEPT ![n] = vgs[n]]
    /\ vgQueue' = IF Triggers(vgCache[n], vgs[n]) THEN vgQueue \cup {n} ELSE vgQueue
    /\ UNCHANGED <<apiVars, vgcCache, nameOf, vgcQueue, failures>> /\ WorkersFrame

SyncVGC(c) ==
    /\ vgcCache[c] # vgcs[c]
    /\ vgcCache' = [vgcCache EXCEPT ![c] = vgcs[c]]
    /\ vgcQueue' = IF Triggers(vgcCache[c], vgcs[c]) THEN vgcQueue \cup {c} ELSE vgcQueue
    /\ UNCHANGED <<apiVars, vgCache, nameOf, vgQueue, failures>> /\ WorkersFrame

\* The operator stops and starts again: the caches are listed anew and every
\* object is reconciled.
Restart ==
    /\ Fails
    /\ vgCache' = vgs /\ vgcCache' = vgcs
    /\ vgQueue' = {n \in Names : vgs[n] # NoObj}
    /\ vgcQueue' = {c \in ContentNames : vgcs[c] # NoObj}
    /\ VGIdle /\ VGCIdle
    /\ UNCHANGED <<apiVars, groups, nameOf>>

User ==
    \/ \E n \in Names : \/ \E u \in UIDs, content \in SourceContents : CreateVG(n, u, content)
                        \/ DeleteVG(n)
    \/ \E c \in StaticContents, class \in BOOLEAN, policy \in Policies :
          CreateStaticVGC(c, class, policy)
    \/ \E c \in ContentNames : DeleteVGC(c)

Watches ==
    \/ \E n \in Names : SyncVG(n)
    \/ \E c \in ContentNames : SyncVGC(c)

VGController == (\E n \in Names : VGStart(n) \/ PVCEvent(n)) \/ VGStep \/ VGCallFails
VGCController == (\E c \in ContentNames : VGCStart(c) \/ BindingEvent(c)) \/ VGCStep \/ VGCCallFails

Next == User \/ Watches \/ VGController \/ VGCController \/ Restart

Spec == Init /\ [][Next]_vars

(***************************************************************************)
(* The workers run, watches deliver, and the work queue is first in, first *)
(* out, so a queued request is taken although others keep coming.  Users,  *)
(* claim events, failures and restarts are not fair.                       *)
(***************************************************************************)
Fairness ==
    /\ WF_vars(VGStep) /\ WF_vars(VGCStep)
    /\ \A n \in Names : WF_vars(SyncVG(n)) /\ SF_vars(VGStart(n))
    /\ \A c \in ContentNames : WF_vars(SyncVGC(c)) /\ SF_vars(VGCStart(c))

FairSpec == Spec /\ Fairness

-----------------------------------------------------------------------------
(***************************************************************************)
(* Properties of groups the operator provisions itself.                    *)
(***************************************************************************)

\* A group the user sees as ready has a content that a finalizer protects,
\* with a handle, and a group on the storage system: updateItems reports
\* readiness from a cached content, and nothing may take the content or the
\* group away while the VolumeGroup is there.
ReadyIsBacked ==
    \A n \in Names :
        (vgs[n] # NoObj /\ vgs[n].ready /\ vgs[n].content = MakeVGName(vgs[n].uid))
        => LET c == vgs[n].content IN
             /\ vgcs[c] # NoObj /\ vgcs[c].fin /\ vgcs[c].handle
             /\ c \in groups

\* With deletion policy Delete a group on the storage system always has a
\* content with the finalizer: createVG comes after AddFinalizerToVGC, and
\* removeVGC takes the finalizer off only when the group is gone.  A group
\* without it is out of the operator's reach for ever.
NoLeakedGroup ==
    DeletionPolicy = "Delete" =>
        \A c \in groups \cap DynamicContents : vgcs[c] # NoObj /\ vgcs[c].fin

\* NoLeakedGroup is inductive together with what follows.  A content under its
\* finalizer and not being deleted is under protection.
Protected(vgc) == vgc # NoObj /\ vgc.fin /\ ~vgc.deleting

VGCRemoveSteps == {"checkOwner", "deletePVCs", "removeContent", "removeFinalizer"}

\* Only the finalizer keeps a content that is being deleted in the store.
DeletingHasFinalizer ==
    \A c \in ContentNames : vgcs[c] # NoObj /\ vgcs[c].deleting => vgcs[c].fin

\* Protection seen in the cache still holds in the store, and a deletion seen
\* in the cache rules it out there.
CacheSeesProtection ==
    \A c \in ContentNames : vgcCache[c] # NoObj =>
        /\ Protected(vgcCache[c]) => vgcs[c] # NoObj /\ vgcs[c].fin
        /\ vgcCache[c].deleting => ~Protected(vgcs[c])

\* What the steps of the VolumeGroupContent worker rely on.
ContentWorkerInv ==
    /\ vgcPc = "createGroup" => vgcs[vgcReq] # NoObj /\ vgcs[vgcReq].fin
    /\ vgcPc \in VGCRemoveSteps =>
          ~Protected(vgcs[vgcReq]) /\ ~Protected(vgcCache[vgcReq])
    /\ vgcPc = "addFinalizer" =>
          (vgcCache[vgcReq] # NoObj /\ vgcCache[vgcReq].deleting
             => vgcs[vgcReq] # NoObj /\ vgcs[vgcReq].fin /\ vgcs[vgcReq].deleting)
    /\ vgcPc = "removeFinalizer" /\ DeletionPolicy = "Delete" =>
          vgcReq \notin groups \cap DynamicContents

\* Every copy of a content the operator generated carries the class's policy.
DynamicPolicy ==
    \A c \in DynamicContents :
        /\ vgcs[c] # NoObj => vgcs[c].policy = DeletionPolicy
        /\ vgcCache[c] # NoObj => vgcCache[c].policy = DeletionPolicy
        /\ vgcPc # "idle" /\ vgcReq = c => vgcObj.policy = DeletionPolicy

\* The inductive invariant behind NoLeakedGroup: the finalizer of a content
\* spans the life of its group although both are handled from stale copies.
FinalizerInv ==
    /\ DeletingHasFinalizer
    /\ CacheSeesProtection
    /\ ContentWorkerInv
    /\ DynamicPolicy
    /\ NoLeakedGroup

IsVG(n, u) == vgs[n] # NoObj /\ vgs[n].uid = u

\* The VolumeGroup with this uid is there.
Alive(u) == nameOf[u] # NoName /\ IsVG(nameOf[u], u)

\* It was created, and the cache does not show an older state of its name.
Seen(u) ==
    /\ nameOf[u] # NoName
    /\ Alive(u) => vgCache[nameOf[u]] # NoObj /\ vgCache[nameOf[u]].uid = u

\* A uid stands for one VolumeGroup for ever, in every copy.
UidsNamed ==
    /\ \A n \in Names :
          /\ vgs[n] # NoObj => nameOf[vgs[n].uid] = n
          /\ vgCache[n] # NoObj => nameOf[vgCache[n].uid] = n
    /\ vgPc # "idle" => nameOf[vgObj.uid] = vgReq /\ Seen(vgObj.uid)

\* The finalizer of a VolumeGroup as the cache shows it.
GroupProtection ==
    \A n \in Names :
        /\ vgs[n] # NoObj /\ vgs[n].deleting => vgs[n].fin
        /\ Protected(vgCache[n]) => IsVG(n, vgCache[n].uid) /\ vgs[n].fin
        /\ vgCache[n] # NoObj /\ vgCache[n].deleting => ~Protected(vgs[n])

VGProvisionSteps == {"createContent", "checkReady", "setContent", "setStatus",
                     "confirmStatus", "bindContent", "members"}

\* What the steps of the VolumeGroup worker rely on.
GroupWorkerInv ==
    /\ vgPc \in VGProvisionSteps => IsVG(vgReq, vgObj.uid) /\ vgs[vgReq].fin
    /\ vgPc \in {"deleteContent", "removeFinalizer"} =>
          ~Protected(vgs[vgReq]) /\ ~Protected(vgCache[vgReq])
    /\ vgPc = "addFinalizer" =>
          (vgCache[vgReq] # NoObj /\ vgCache[vgReq].deleting
             => vgs[vgReq] # NoObj /\ vgs[vgReq].fin /\ vgs[vgReq].deleting)

\* While the worker provisions a group the VolumeGroup stays, although it is
\* known only from the cache and its name may be taken by another.
OwnerInv == UidsNamed /\ GroupProtection /\ GroupWorkerInv

\* The handle of the group made for this uid was recorded, and the content
\* that has it goes only after the VolumeGroup.
HandleRecorded(u) ==
    /\ nameOf[u] # NoName
    /\ IF vgcs[MakeVGName(u)] = NoObj THEN ~Alive(u) ELSE vgcs[MakeVGName(u)].handle

\* What any copy of a VolumeGroup, or of the content generated for a uid, tells.
GroupCopy(vg) ==
    vg # NoObj =>
        vg.content \in SourceContents
        \/ (vg.content = MakeVGName(vg.uid) /\ HandleRecorded(vg.uid))

ContentCopy(u, vgc) ==
    vgc # NoObj =>
        /\ Seen(u) /\ vgc.ref = nameOf[u]
        /\ vgc.handle => HandleRecorded(u)
        /\ vgc.ready => vgc.handle

CopiesInv ==
    /\ \A n \in Names : GroupCopy(vgs[n]) /\ GroupCopy(vgCache[n])
    /\ vgPc # "idle" => GroupCopy(vgObj)
    /\ \A u \in UIDs :
          /\ ContentCopy(u, vgcs[MakeVGName(u)]) /\ ContentCopy(u, vgcCache[MakeVGName(u)])
          /\ vgcReq = MakeVGName(u) => ContentCopy(u, vgcObj)

\* The recorded handle is that of a group, under the finalizer.
HandleBacked ==
    \A u \in UIDs :
        LET c == MakeVGName(u) IN
          vgcs[c] # NoObj /\ vgcs[c].handle => vgcs[c].fin /\ (Alive(u) => c \in groups)

\* What the steps of the workers rely on in each other's work.
ReportInv ==
    /\ vgPc \in {"createContent", "checkReady"} => ~vgStatic
    /\ vgPc = "setContent" => IF vgStatic THEN vgObj.content # NoName
                                          ELSE HandleRecorded(vgObj.uid)
    /\ vgPc = "setStatus" => vgs[vgReq].content # NoName
    /\ vgcPc \in {"staticSpec", "readyStatus"} => vgcObj.handle
    /\ \A u \in UIDs : vgcReq = MakeVGName(u) =>
          /\ vgcPc = "setHandle" =>
                vgcs[vgcReq] # NoObj /\ vgcs[vgcReq].fin /\ vgcReq \in groups
          /\ vgcPc \in VGCRemoveSteps \ {"checkOwner"} => ~Alive(u)

\* Users do not name a content that is generated, as a source, before it is.
NamesUnguessed == SourceContents \cap DynamicContents = {}

\* The inductive invariant behind ReadyIsBacked: whoever knows a handle, from
\* whatever copy, may rely on the group as long as the VolumeGroup is there,
\* if NamesUnguessed.
BackedInv == CopiesInv /\ HandleBacked /\ ReportInv

\* The driver deletes a group only when the VolumeGroup it was made for is
\* gone, and no other VolumeGroup names it: IsVgExist decides from a cached
\* VolumeGroup, several steps before the RPC.
DeletesOnlyReleased ==
    [][\A c \in groups \ groups', n \in Names :
         vgs[n] # NoObj => c \notin {vgs[n].content, MakeVGName(vgs[n].uid)}]_vars

\* The group of a content whose policy is Retain stays on the storage system:
\* removeVGC looks at a copy, and the content's name may have been used again.
RetainedStays ==
    [][\A c \in groups \ groups' : vgcs[c] # NoObj /\ vgcs[c].policy = "Delete"]_vars

\* Once a VolumeGroup that is not being deleted has its content, it goes only
\* with the content marked for deletion, gone, or retained: removeInstance
\* looks the content up in the cache, by the name in a copy from the cache.
BoundIsReleased ==
    \A n \in Names, u \in UIDs :
        LET c == MakeVGName(u) IN
          [](IsVG(n, u) /\ ~vgs[n].deleting /\ vgs[n].content = c
             => [](\/ IsVG(n, u) \/ vgcs[c] = NoObj
                   \/ vgcs[c].deleting \/ vgcs[c].policy = "Retain"))

\* A new group becomes ready, unless it or its content is being deleted, or
\* the user keeps deleting contents for ever: nothing but a requeue wakes the
\* VolumeGroup worker when the content is ready.
Provisioned ==
    \/ \A n \in Names, u \in UIDs :
          IsVG(n, u) ~> \/ ~IsVG(n, u)
                        \/ vgs[n].ready \/ vgs[n].deleting
                        \/ vgcs[MakeVGName(u)] # NoObj /\ vgcs[MakeVGName(u)].deleting
    \/ []<><<\E c \in ContentNames : DeleteVGC(c)>>_vars

\* A VolumeGroup that is being deleted goes.
DeletionCompletes ==
    \A n \in Names, u \in UIDs :
        IsVG(n, u) /\ vgs[n].deleting ~> ~IsVG(n, u)

\* A content that is being deleted, with its handle recorded and its
\* VolumeGroup gone, goes with its group, unless a VolumeGroup of the same
\* name is created meanwhile.
ContentReclaimed ==
    \A c \in DynamicContents, n \in Names :
        (/\ vgcs[c] # NoObj /\ vgcs[c].deleting /\ vgcs[c].handle
         /\ vgcs[c].ref = n /\ vgs[n] = NoObj)
        ~> vgcs[c] = NoObj \/ vgs[n] # NoObj

(***************************************************************************)
(* What api/v1/common.go says of the policy Delete: the group "will be     *)
(* deleted from the underlying storage system on release from its volume   *)
(* group".  The code does not keep it.                                     *)
(***************************************************************************)
OwnerGone(u) == nameOf[u] # NoName /\ ~IsVG(nameOf[u], u)

\* The group of a VolumeGroup that is gone does not stay.
ReleasedGroupDeleted ==
    \A u \in UIDs : OwnerGone(u) ~> MakeVGName(u) \notin groups

(***************************************************************************)
(* Properties of groups that name a content an administrator created.      *)
(***************************************************************************)

Leaves(c) == vgcs[c] # NoObj /\ <>(vgcs[c] = NoObj \/ vgcs[c].deleting)

\* A VolumeGroup and the content it names find each other, whichever comes
\* first, and the content becomes ready, unless one of the two is deleted: the
\* thin content, its binding and its promotion to a static one are written by
\* two workers from stale copies.  A content deleted and created again is not
\* bound again: the VolumeGroup controller does not watch contents.
StaticBound ==
    \A n \in Names, u \in UIDs, c \in StaticContents :
        \/ IsVG(n, u) /\ vgs[n].content = c /\ vgcs[c] # NoObj
           ~> \/ ~IsVG(n, u) \/ vgs[n].deleting
              \/ vgcs[c] # NoObj /\ vgcs[c].ref = n /\ vgcs[c].fin /\ vgcs[c].ready
        \/ <>Leaves(c)

\* No group is deleted while its content refers to an existing VolumeGroup:
\* "Cant delete ... because volumeGroup is still exist".
BoundGroupKept ==
    [][\A c \in groups \ groups', n \in Names :
         vgcs[c] # NoObj /\ vgcs[c].ref = n => vgs[n] = NoObj]_vars
=============================================================================
