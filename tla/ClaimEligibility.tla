-------------------------- MODULE ClaimEligibility --------------------------
(***************************************************************************)
(* Which claims belong to a VolumeGroup, and what keeps them from getting  *)
(* there: phase, storage class, volume and labels of claims, selectors,    *)
(* classes and secrets of groups, the events that ask for a reconcile, and *)
(* the process that handles them (OperatorProcess).  Several of the checks *)
(* range over all claims or all groups of the cluster, so that one object  *)
(* can stop the reconcile of others.                                       *)
(*                                                                         *)
(* Simplifications: the groups are provisioned (GroupLifecycle); reads are *)
(* up to date and the writes for one claim are one step (GroupMembership   *)
(* has them one by one, with stale copies); an error return or a panic,    *)
(* which the controller recovers from, leaves the request on the queue.    *)
(***************************************************************************)
EXTENDS OperatorProcess, FiniteSets

CONSTANTS
    Claims, Groups,
    FirstClaims,  \* claims there may be at the start
    FirstSpecs,   \* specs of the groups at the start
    GroupSpecs,   \* spec of a group after an edit
    None          \* no group

(***************************************************************************)
(* A claim's class is "" for none; "grouped" is a class of the operator's  *)
(* driver with the parameter volume_group, "other" one of another driver.  *)
(***************************************************************************)
StorageClasses == {"ours", "grouped", "other"}
Labels == {"a", "b"}

Claim == [label : Labels, class : StorageClasses \cup {""},
          phase : {"Pending", "Bound", "Lost"}, volume : BOOLEAN]

(***************************************************************************)
(* A group's class: "bad" has parameters that ValidatePrefixedParameters   *)
(* refuses, "secret" names a secret with its namespace; all but "other"    *)
(* are of the operator's driver.                                           *)
(***************************************************************************)
VGClasses == {"ours", "bad", "secret", "other"}
Group == [selector : Labels \cup {"nil", "invalid"}, class : VGClasses \cup {""}]

ASSUME EligibilityAssumption ==
    /\ FirstClaims \subseteq [Claims -> Claim]
    /\ FirstSpecs \subseteq [Groups -> Group] /\ GroupSpecs \subseteq Group
    /\ None \notin Groups

VARIABLES
    claims, specs,       \* the claims and the spec of each group
    classes, vgClasses,  \* storage classes and VolumeGroupClasses that exist
    secret,              \* whether the secret exists
    multiple,            \* the --multiple-vgs-to-pvc flag
    list,                \* status.pvcList of each group
    fin,                 \* claims with the operator's finalizer
    queue,               \* groups to reconcile
    req,                 \* the group being reconciled
    toRemove, toAdd      \* ... and the claims left to remove and to add

clusterVars == <<claims, specs, classes, vgClasses, secret, multiple>>
statusVars == <<list, fin>>
worker == <<req, toRemove, toAdd>>
vars == <<clusterVars, statusVars, queue, worker, processVars>>

TypeOK ==
    /\ ProcessTypeOK
    /\ claims \in [Claims -> Claim] /\ specs \in [Groups -> Group]
    /\ classes \subseteq StorageClasses /\ vgClasses \subseteq VGClasses
    /\ {secret, multiple} \subseteq BOOLEAN
    /\ list \in [Groups -> SUBSET Claims] /\ fin \subseteq Claims
    /\ queue \subseteq IF proc = "running" THEN Groups ELSE {}
    /\ req \in IF proc = "running" THEN Groups \cup {None} ELSE {None}
    /\ toRemove \subseteq Claims /\ toAdd \subseteq Claims

Init ==
    /\ ProcessInit
    /\ claims \in FirstClaims /\ specs \in FirstSpecs
    /\ classes = StorageClasses /\ vgClasses = VGClasses
    /\ secret = TRUE /\ multiple \in BOOLEAN
    /\ list = [g \in Groups |-> {}] /\ fin = {} /\ queue = {}
    /\ req = None /\ toRemove = {} /\ toAdd = {}

-----------------------------------------------------------------------------
(***************************************************************************)
(* The claims of a group, as the reconcile computes them.                  *)
(***************************************************************************)

\* GetPVCList: one bound claim without a class, or with a class that does not
\* exist, is an error whatever group is asked for.
GetPVCListFails == \E p \in Claims : claims[p].phase = "Bound" /\ claims[p].class \notin classes

PVCList == {p \in Claims : claims[p].phase = "Bound" /\ claims[p].class # "other"}

\* areLabelsMatchLabelSelector; IsPVCMatchesVG dereferences a nil selector.
Matches(p, g) == specs[g].selector = claims[p].label
MatchFails(g) == specs[g].selector \in {"nil", "invalid"}

\* GetVGList: a group whose class does not exist is left out, one without a
\* class name is an error.
GetVGListFails == \E g \in Groups : specs[g].class = ""
VGList == {g \in Groups : specs[g].class \in vgClasses \ {"other"}}

\* checkIfPVCCanBeAddedToVG
IsPVCCanBeAdded(p) ==
    LET with == {g \in VGList : p \in list[g]}
        new  == {g \in VGList \ with : Matches(p, g)} IN
      /\ with = {} \/ new = {}
      /\ Cardinality(new) <= 1

\* isPVCCanBeAddedToVG: a selector that is not valid is passed over here, one
\* that is nil is dereferenced.
AddCheckFails(p) ==
    /\ ~multiple
    /\ \/ GetVGListFails \/ ~IsPVCCanBeAdded(p)
       \/ \E g \in VGList : p \notin list[g] /\ specs[g].selector = "nil"

\* getMatchingPVCs
MatchingFails(g) ==
    \/ GetPVCListFails
    \/ \E p \in PVCList : MatchFails(g) \/ (Matches(p, g) /\ AddCheckFails(p))

\* ... and IsPVCNeedToBeHandled.
Matching(g) == {p \in PVCList : Matches(p, g) /\ claims[p].class # "grouped"}

\* getPVCListVolumeIds: every claim asked for needs its volume.
VolumesFound(g) == \A p \in Matching(g) : claims[p].volume

\* GetSecretDataFromClass
SecretFound(g) == specs[g].class = "secret" => secret

-----------------------------------------------------------------------------
(***************************************************************************)
(* One reconcile of a group.                                               *)
(***************************************************************************)
Idle == req' = None /\ toRemove' = {} /\ toAdd' = {}
Taken(g) == proc = "running" /\ req = None /\ g \in queue
WorkFrame == UNCHANGED <<clusterVars, processVars>>

\* A group of another driver is left alone for good.
Ignore(g) ==
    /\ Taken(g) /\ specs[g].class \in vgClasses \cap {"other"}
    /\ queue' = queue \ {g}
    /\ UNCHANGED <<statusVars, worker>> /\ WorkFrame

\* updatePVCs as far as getMatchingPVCs
Reconciled(g) ==
    /\ Taken(g) /\ specs[g].class \in vgClasses \cap {"ours", "secret"}
    /\ ~MatchingFails(g)
    /\ WorkFrame

\* IsPVCListEqual holds only of two empty lists, as in GroupMembership.
Same(g) ==
    /\ Reconciled(g) /\ list[g] = {} /\ Matching(g) = {}
    /\ queue' = queue \ {g}
    /\ UNCHANGED <<statusVars, worker>>

Asked(g) == Reconciled(g) /\ list[g] \cup Matching(g) # {} /\ VolumesFound(g)

\* A missing secret is reported in a copy that holds the new list already.
SecretMissing(g) ==
    /\ Asked(g) /\ ~SecretFound(g)
    /\ list' = [list EXCEPT ![g] = Matching(g)]
    /\ UNCHANGED <<fin, queue, worker>>

\* ModifyVolumesInVG: what is to be done is settled here, and not looked at
\* again while UpdatePvcAndPvList does it.
Modify(g) ==
    /\ Asked(g) /\ SecretFound(g)
    /\ req' = g /\ queue' = queue \ {g}
    /\ toRemove' = list[g] \ Matching(g) /\ toAdd' = Matching(g) \ list[g]
    /\ UNCHANGED statusVars

\* The writes for one claim were made, or one of the later ones failed: the
\* reconcile ends, and the next one does not come back to the claim.
Continue == UNCHANGED <<req, queue>>
Fail == Idle /\ queue' = queue \cup {req}

\* RemoveVolumeFromPvcListAndPvList: the list is written first; then a volume
\* that is gone, or a group without a class name, is an error.
RemoveClaim(p) ==
    /\ req # None /\ p \in toRemove
    /\ list' = [list EXCEPT ![req] = @ \ {p}]
    /\ \/ /\ claims[p].volume /\ ~GetVGListFails
          /\ fin' = IF \E h \in VGList : p \in list'[h] THEN fin ELSE fin \ {p}
          /\ toRemove' = toRemove \ {p} /\ UNCHANGED toAdd /\ Continue
       \/ /\ ~claims[p].volume \/ GetVGListFails
          /\ UNCHANGED fin /\ Fail
    /\ WorkFrame

\* AddVolumeToPvcListAndPvList, after the removals.
AddClaim(p) ==
    /\ req # None /\ toRemove = {} /\ p \in toAdd
    /\ list' = [list EXCEPT ![req] = @ \cup {p}]
    /\ \/ /\ claims[p].volume /\ fin' = fin \cup {p}
          /\ toAdd' = toAdd \ {p} /\ UNCHANGED toRemove /\ Continue
       \/ /\ ~claims[p].volume
          /\ UNCHANGED fin /\ Fail
    /\ WorkFrame

Done ==
    /\ req # None /\ toRemove = {} /\ toAdd = {}
    /\ Idle
    /\ UNCHANGED <<statusVars, queue>> /\ WorkFrame

Work(g) ==
    \/ Ignore(g) \/ Same(g) \/ SecretMissing(g) \/ Modify(g)
    \/ req = g /\ (Done \/ \E p \in Claims : RemoveClaim(p) \/ AddClaim(p))

-----------------------------------------------------------------------------
(***************************************************************************)
(* Users and administrators, and the events of what they do.  Classes and  *)
(* secrets are not watched.                                                *)
(***************************************************************************)
\* Requests reach a running operator only; at its start it lists everything.
Enqueue(gs) == queue' = IF proc = "running" THEN queue \cup gs ELSE queue

\* CreateRequests: one selector that is not valid, in any group, and the event
\* asks for nothing; a nil selector is passed over.
CreateRequests(labels) ==
    IF \E g \in Groups : specs[g].selector = "invalid" THEN {}
    ELSE {g \in Groups : specs[g].selector \in labels}

\* Seeded fault: only a change of labels is an event.
ChangeClaim_LabelsOnly(p, new) ==
    /\ claims' = [claims EXCEPT ![p] = new]
    /\ Enqueue(IF new.label # claims[p].label
                 THEN CreateRequests({claims[p].label, new.label}) ELSE {})
    /\ UNCHANGED <<specs, classes, vgClasses, secret, multiple, statusVars, worker, mainVars>>

\* PvcPredicate: a new label or phase is an event, for the old and the new
\* claim; a lost volume is none until the phase follows.
ChangeClaim(p, new) ==
    /\ claims' = [claims EXCEPT ![p] = new]
    /\ Enqueue(IF new.label # claims[p].label \/ new.phase # claims[p].phase
                 THEN CreateRequests({claims[p].label, new.label}) ELSE {})
    /\ UNCHANGED <<specs, classes, vgClasses, secret, multiple, statusVars, worker, mainVars>>

Relabel(p) ==
    /\ Change
    /\ \E l \in Labels \ {claims[p].label} : ChangeClaim(p, [claims[p] EXCEPT !.label = l])

Bind(p) ==
    /\ claims[p].phase = "Pending" /\ Change
    /\ ChangeClaim(p, [claims[p] EXCEPT !.phase = "Bound", !.volume = TRUE])

LoseVolume(p) ==
    /\ claims[p].volume /\ Change
    /\ ChangeClaim(p, [claims[p] EXCEPT !.volume = FALSE])

\* The volume controller of the cluster notices that the volume is gone.
Lose(p) ==
    /\ claims[p].phase = "Bound" /\ ~claims[p].volume /\ UNCHANGED changes
    /\ ChangeClaim(p, [claims[p] EXCEPT !.phase = "Lost"])

\* A new generation of the group.
EditGroup(g) ==
    /\ Change
    /\ \E s \in GroupSpecs \ {specs[g]} : specs' = [specs EXCEPT ![g] = s]
    /\ Enqueue({g})
    /\ UNCHANGED <<claims, classes, vgClasses, secret, multiple, statusVars, worker, mainVars>>

Toggled(S, x) == IF x \in S THEN S \ {x} ELSE S \cup {x}

ToggleObject ==
    /\ Change
    /\ \/ \E c \in StorageClasses : classes' = Toggled(classes, c) /\ UNCHANGED <<vgClasses, secret>>
       \/ \E c \in VGClasses : vgClasses' = Toggled(vgClasses, c) /\ UNCHANGED <<classes, secret>>
       \/ secret' = ~secret /\ UNCHANGED <<classes, vgClasses>>
    /\ UNCHANGED <<claims, specs, multiple, statusVars, queue, worker, mainVars>>

Cluster ==
    \/ \E p \in Claims : Relabel(p) \/ Bind(p) \/ LoseVolume(p) \/ Lose(p)
    \/ \E g \in Groups : EditGroup(g)
    \/ ToggleObject

\* The process: a start lists every group, an exit forgets the queue and the
\* reconcile under way.
Process(step) ==
    /\ step
    /\ queue' = IF proc' # "running" THEN {} ELSE IF proc = "running" THEN queue ELSE Groups
    /\ IF proc' = "running" THEN UNCHANGED worker ELSE Idle
    /\ UNCHANGED <<clusterVars, statusVars>>

Next ==
    \/ \E g \in Groups : Work(g)
    \/ Cluster
    \/ Process(ProcessStep) \/ Process(ExitWithError) \/ Process(Surroundings)

Spec == Init /\ [][Next]_vars

\* The process and the worker run; a request that fails is tried again, and no
\* group keeps the worker for itself.
FairSpec ==
    /\ Spec
    /\ WF_vars(Process(ProcessStep))
    /\ \A g \in Groups : WF_vars(Work(g))

-----------------------------------------------------------------------------
(***************************************************************************)
(* What the lists should be, and when one can expect it.                   *)
(***************************************************************************)
Eligible(g) ==
    {p \in Claims : /\ claims[p].phase = "Bound" /\ claims[p].class = "ours"
                    /\ claims[p].label = specs[g].selector}

\* Every bound claim has a storage class.
ClassesComplete == \A p \in Claims : claims[p].phase = "Bound" => claims[p].class \in classes

Healthy(g) ==
    /\ specs[g].class \in {"ours", "secret"} \cap vgClasses
    /\ specs[g].selector \in Labels
    /\ SecretFound(g) /\ \A p \in Eligible(g) : claims[p].volume

\* With --multiple-vgs-to-pvc=false every group must be well formed, no claim
\* match two of them, a group with claims be able to let them go, and no two
\* have each other's claims.
Separable ==
    \/ multiple
    \/ /\ \A g \in Groups : specs[g].selector # "nil" /\ specs[g].class # ""
       /\ \A g, h \in Groups : g # h /\ specs[h].class # "other" => specs[g].selector # specs[h].selector
       /\ \A g \in VGList : list[g] # {} => Healthy(g)
       /\ ~\E g, h \in Groups : \E p \in list[g], q \in list[h] :
              Matches(p, h) /\ Matches(q, g) /\ g # h

\* In the end a group that is well formed lists exactly its bound claims of the
\* operator's driver, whatever was wrong with it, with other groups and claims
\* or with the driver in between, provided that all is put right again, that the
\* operator runs in the end and that no group ever had an invalid selector: it
\* swallows the events of claims.
ListsFollowCluster ==
    <>[](proc = "running") /\ [](\A g \in Groups : specs[g].selector # "invalid")
    => <>[](ClassesComplete /\ Separable =>
              \A g \in Groups : Healthy(g) => list[g] = Eligible(g))
=============================================================================
