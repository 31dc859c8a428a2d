--------------------------- MODULE ClaimDeletion ---------------------------
(***************************************************************************)
(* DeletePVCsUnderVGC: before a content goes, the claims of its volumes    *)
(* are deleted, and each volume is taken off status.pvList as its claim is *)
(* done with.  The loop ranges over the list while the body removes from   *)
(* it in place, so the backing array of the slice is part of the state.    *)
(* Users and other controllers work on the same claims.                    *)
(*                                                                         *)
(* GroupRelease puts this loop into the step "deletePVCs" of               *)
(* GroupLifecycle; by itself it is run for a VolumeGroup that is gone.     *)
(*                                                                         *)
(* Simplifications: a volume stands for its claim; a claim is read up to   *)
(* date (a stale read is a change right after it); all finalizers of other *)
(* controllers on a claim count as one.                                    *)
(***************************************************************************)
EXTENDS Naturals, Sequences, FiniteSets

CONSTANTS
    PVs,          \* volumes
    Unnamed,      \* those without a claim reference
    Shared,       \* those whose claim another VolumeGroup lists as well
    InUse,        \* those whose claim users and other controllers work on
    MaxChanges,   \* bound on what users and other controllers do to claims
    MaxFailures   \* bound on failed calls

VARIABLES
    list,         \* stored status.pvList
    cache,        \* what the informer cache returns for it
    claim,        \* state of the claim of each volume
    fin,          \* claims that have the operator's finalizer
    foreign,      \* claims that have a finalizer of another controller
    pc, i,        \* step, and index of the loop
    array, len,   \* backing array of the slice, and the slice's length
    kept,         \* the finalizers to write back hold another controller's
    moved,        \* the claim has changed since it was read
    changes,      \* changes made to claims by others so far
    failures

listVars == <<list, cache>>
claimVars == <<claim, fin, foreign>>
loopVars == <<pc, i, array, len, kept, moved>>
vars == <<listVars, claimVars, loopVars, changes, failures>>

ClaimStates == {"present", "terminating", "gone"}

Lists == Seq(PVs)

LoopSteps == {"next", "deleteClaim", "writeFinalizers", "removeClaim", "removePV"}

TypeOK ==
    /\ list \in Lists /\ cache \in Lists /\ array \in Lists
    /\ claim \in [PVs -> ClaimStates]
    /\ fin \subseteq PVs /\ foreign \subseteq PVs
    /\ pc \in LoopSteps \cup {"idle", "done"}
    /\ i \in Nat
    /\ len \in 0 .. Len(array)
    /\ pc \in LoopSteps \ {"next"} => i \in DOMAIN array
    /\ {kept, moved} \subseteq BOOLEAN
    /\ changes \in 0 .. MaxChanges
    /\ failures \in 0 .. MaxFailures

Members(s) == {s[k] : k \in DOMAIN s}
Distinct(s) == \A j, k \in DOMAIN s : s[j] = s[k] => j = k

\* Lists in which no volume comes twice.
DistinctLists ==
    {s \in UNION {[1 .. n -> PVs] : n \in 0 .. Cardinality(PVs)} : Distinct(s)}

LoopInit ==
    /\ pc = "idle" /\ i = 0 /\ array = <<>> /\ len = 0
    /\ kept = FALSE /\ moved = FALSE
    /\ changes = 0

Init ==
    /\ list \in DistinctLists
    /\ cache = list
    /\ claim \in [PVs -> {"present", "gone"}]
    /\ fin = {pv \in Members(list) : claim[pv] = "present"}
    /\ foreign = {}
    /\ LoopInit
    /\ failures = 0

-----------------------------------------------------------------------------
(***************************************************************************)
(* The loop.                                                               *)
(***************************************************************************)
Forget == kept' = FALSE /\ moved' = FALSE

\* The reconcile ends; the next one starts with the cached content.
Idle == pc' = "idle" /\ i' = 0 /\ array' = <<>> /\ len' = 0 /\ Forget

Goto(step) == pc' = step /\ UNCHANGED <<i, array, len>>

\* The range expression is evaluated once: the slice of the content's copy.
BeginWith(pvList) ==
    /\ pc = "idle"
    /\ pc' = "next" /\ i' = 1 /\ array' = pvList /\ len' = Len(pvList) /\ Forget
    /\ UNCHANGED <<listVars, claimVars, changes, failures>>

\* One turn: a volume whose claim is gone is only taken off the list, or
\* passed over if it does not even name a claim.
Turn ==
    /\ pc = "next" /\ i \in DOMAIN array
    /\ LET pv == array[i] IN
         \/ claim[pv] # "gone" /\ Goto("deleteClaim")
         \/ claim[pv] = "gone" /\ pv \notin Unnamed /\ Goto("removePV")
         \/ claim[pv] = "gone" /\ pv \in Unnamed /\ i' = i + 1 /\ UNCHANGED <<pc, array, len>>
    /\ Forget
    /\ UNCHANGED <<listVars, claimVars, changes, failures>>

\* Seeded fault: the finalizer is left to whoever set it.
ReleaseClaim_Skipped ==
    /\ pc = "deleteClaim" /\ claim[array[i]] # "gone"
    /\ Goto("removeClaim") /\ Forget
    /\ UNCHANGED <<listVars, claimVars, changes, failures>>

\* RemoveFinalizerFromPVC up to the write: the claim keeps the finalizer while
\* some VolumeGroup lists it; the other finalizers are written back as read.
ReleaseClaim ==
    /\ pc = "deleteClaim"
    /\ LET pv == array[i] IN
         /\ claim[pv] # "gone"
         /\ Goto(IF pv \in fin \ Shared THEN "writeFinalizers" ELSE "removeClaim")
         /\ kept' = (pv \in foreign) /\ moved' = FALSE
    /\ UNCHANGED <<listVars, claimVars, changes, failures>>

\* The API server takes no new finalizer for a claim that is being deleted.
Accepted(pv) == claim[pv] = "terminating" /\ kept => pv \in foreign

\* updateFinalizer, the write of the list made from the copy that was read.
WriteFinalizers ==
    /\ pc = "writeFinalizers" /\ ~moved /\ Accepted(array[i])
    /\ fin' = fin \ {array[i]}
    /\ foreign' = IF kept THEN foreign \cup {array[i]} ELSE foreign \ {array[i]}
    /\ Goto("removeClaim") /\ Forget
    /\ UNCHANGED <<listVars, claim, changes, failures>>

\* ... and a conflict: the claim is read again, and the same list written.
RetryFinalizers ==
    /\ pc = "writeFinalizers" /\ moved
    /\ moved' = FALSE
    /\ UNCHANGED <<listVars, claimVars, pc, i, array, len, kept, changes, failures>>

\* removePVCObject
RemoveClaim ==
    /\ pc = "removeClaim" /\ claim[array[i]] # "gone"
    /\ claim' = [claim EXCEPT ![array[i]] = "terminating"]
    /\ Goto("removePV") /\ Forget
    /\ UNCHANGED <<listVars, fin, foreign, changes, failures>>

\* removeByIndexFromPVList: append(pvList[:index], pvList[index+1:]...) moves the
\* rest of the slice one place down in the backing array.
Shifted(index) == [k \in DOMAIN array |-> IF index <= k /\ k < len THEN array[k + 1] ELSE array[k]]

Index(pv) == {k \in 1 .. len : array[k] = pv}

\* RemovePVFromVGC; a refused write is repeated with the same list.
RemovePV ==
    /\ pc = "removePV"
    /\ IF Index(array[i]) = {} THEN UNCHANGED <<array, len>>
       ELSE \E k \in Index(array[i]) : array' = Shifted(k) /\ len' = len - 1
    /\ list' = SubSeq(array', 1, len')
    /\ pc' = "next" /\ i' = i + 1 /\ Forget
    /\ UNCHANGED <<cache, claimVars, changes, failures>>

\* Seeded fault: the loop is bounded by the length the slice has now.
Finish_ShrinkingBound ==
    /\ pc = "next" /\ i > len
    /\ Goto("done") /\ Forget
    /\ UNCHANGED <<listVars, claimVars, changes, failures>>

\* The end of the loop: removeVGC follows.
Finish ==
    /\ pc = "next" /\ i \notin DOMAIN array
    /\ Goto("done") /\ Forget
    /\ UNCHANGED <<listVars, claimVars, changes, failures>>

Body ==
    \/ Turn \/ ReleaseClaim \/ WriteFinalizers \/ RetryFinalizers
    \/ RemoveClaim \/ Finish

\* A claim that goes before it is written or deleted, and a list of finalizers
\* that the API server does not take, are errors that end the reconcile.
ClaimRefused ==
    /\ \/ pc \in {"deleteClaim", "removeClaim"} /\ claim[array[i]] = "gone"
       \/ pc = "writeFinalizers" /\ ~moved /\ ~Accepted(array[i])
    /\ Idle
    /\ UNCHANGED <<listVars, claimVars, changes, failures>>

\* So is a call that fails.
CallFails ==
    /\ pc \in LoopSteps
    /\ failures < MaxFailures /\ failures' = failures + 1
    /\ Idle
    /\ UNCHANGED <<listVars, claimVars, changes>>

-----------------------------------------------------------------------------
(***************************************************************************)
(* Users, other controllers and the API server.                            *)
(***************************************************************************)
Moves(pv) ==
    /\ moved' = (moved \/ (pc = "writeFinalizers" /\ array[i] = pv))
    /\ UNCHANGED <<listVars, pc, i, array, len, kept, failures>>

Change == changes < MaxChanges /\ changes' = changes + 1

UserDeletesClaim(pv) ==
    /\ claim[pv] = "present" /\ pv \in InUse /\ Change
    /\ claim' = [claim EXCEPT ![pv] = "terminating"]
    /\ UNCHANGED <<fin, foreign>> /\ Moves(pv)

OtherAdds(pv) ==
    /\ claim[pv] = "present" /\ pv \notin foreign /\ pv \in InUse /\ Change
    /\ foreign' = foreign \cup {pv}
    /\ UNCHANGED <<claim, fin>> /\ Moves(pv)

OtherRemoves(pv) ==
    /\ pv \in foreign
    /\ foreign' = foreign \ {pv}
    /\ UNCHANGED <<claim, fin, changes>> /\ Moves(pv)

\* A claim that is being deleted goes when nothing holds it.
ClaimGoes(pv) ==
    /\ claim[pv] = "terminating" /\ pv \notin fin \cup foreign
    /\ claim' = [claim EXCEPT ![pv] = "gone"]
    /\ UNCHANGED <<fin, foreign, changes>> /\ Moves(pv)

Claims ==
    \E pv \in PVs : UserDeletesClaim(pv) \/ OtherAdds(pv) \/ OtherRemoves(pv) \/ ClaimGoes(pv)

Sync ==
    /\ cache # list
    /\ cache' = list
    /\ UNCHANGED <<list, claimVars, loopVars, changes, failures>>

Next == BeginWith(cache) \/ Body \/ RemovePV \/ ClaimRefused \/ CallFails \/ Sync \/ Claims

Spec == Init /\ [][Next]_vars

-----------------------------------------------------------------------------
\* When the loop ends no claim of a volume is left, and none is held by the
\* finalizer: "Should delete pvcs when deleting vg".
NoClaimLeft ==
    pc = "done" => \A pv \in fin : claim[pv] = "gone"
=============================================================================
