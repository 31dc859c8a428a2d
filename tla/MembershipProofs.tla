-------------------------- MODULE MembershipProofs --------------------------
(***************************************************************************)
(* Proofs about the members of volume groups (GroupMembership), for any    *)
(* number of groups, claims, changes of labels, failures and restarts.     *)
(***************************************************************************)
EXTENDS GroupMembership, TLAPS

\* Between two reconciles nothing is left to do; before the RPC nothing has
\* been worked out yet.
NothingLeft ==
    /\ pc = "idle" => matching = {}
    /\ pc \in {"idle", "modify"} => toRemove = {} /\ toAdd = {}

\* A cache of VolumeGroups that keeps up shows what is stored.
CacheKeepsUp == "vg" \notin lag => listCache = pvcList

\* What the worker is about to add to its group no other group lists.
AddsAlone ==
    ~multiple /\ "vg" \notin lag =>
        \A p \in matching \cup toAdd, h \in Groups : h # req => p \notin pvcList[h]

\* What is left to add has its volume in the group on the storage system, and
\* what is left to remove has not.
DriverFirst ==
    pc # "idle" => toAdd \subseteq driver[req] /\ toRemove \cap driver[req] = {}

\* What Exclusive and ListFollowsDriver rest on.
MembersInv ==
    /\ TypeOK /\ NothingLeft /\ CacheKeepsUp
    /\ AddsAlone /\ Exclusive /\ DriverFirst

-----------------------------------------------------------------------------
(***************************************************************************)
(* What the steps of the worker have in common.                            *)
(***************************************************************************)

\* Whatever ends a reconcile leaves nothing behind.
LEMMA IdleInv ==
    ASSUME MembersInv, Idle, setting' = setting, wanted' = wanted, driver' = driver,
           TypeOK', CacheKeepsUp', Exclusive'
    PROVE  MembersInv'
BY DEF MembersInv, Idle, NothingLeft, AddsAlone, DriverFirst

\* A list of the worker's group that holds what the group has or may add keeps
\* the lists apart, and a cache that keeps up follows it.
LEMMA SetPVCListInv ==
    ASSUME MembersInv, pc # "idle", NEW S \in SUBSET Claims, SetPVCList(S),
           S \subseteq pvcList[req] \cup matching \cup toAdd, setting' = setting
    PROVE  /\ pvcList' \in [Groups -> SUBSET Claims] /\ listCache' \in [Groups -> SUBSET Claims]
           /\ pvList' = pvList /\ pvListCache' = pvListCache
           /\ \A h \in Groups : h # req => pvcList'[h] = pvcList[h]
           /\ pvcList'[req] = S
           /\ CacheKeepsUp' /\ Exclusive'
<1>1. /\ req \in Groups /\ pvcList \in [Groups -> SUBSET Claims]
      /\ listCache \in [Groups -> SUBSET Claims]
      /\ multiple' = multiple /\ lag' = lag
  BY DEF MembersInv, TypeOK, setting
<1>2. /\ pvcList' = [pvcList EXCEPT ![req] = S] /\ pvList' = pvList
      /\ listCache' = IF "vg" \in lag THEN listCache ELSE pvcList'
      /\ pvListCache' = pvListCache
  BY DEF SetPVCList, Caches
<1>3. /\ pvcList' \in [Groups -> SUBSET Claims] /\ listCache' \in [Groups -> SUBSET Claims]
      /\ \A h \in Groups : h # req => pvcList'[h] = pvcList[h]
      /\ pvcList'[req] = S
  BY <1>1, <1>2
<1>4. CacheKeepsUp'
  BY <1>1, <1>2 DEF CacheKeepsUp
<1>5. Exclusive'
  <2> SUFFICES ASSUME ~multiple, "vg" \notin lag, NEW g \in Groups, NEW h \in Groups,
                      g # h, NEW p \in pvcList'[g], p \in pvcList'[h]
               PROVE  FALSE
    BY <1>1 DEF Exclusive
  <2>1. \A x, y \in Groups : x # y => pvcList[x] \cap pvcList[y] = {}
    BY DEF MembersInv, Exclusive
  <2>2. \A q \in S, x \in Groups : x # req => q \notin pvcList[x]
    BY <1>1, <2>1 DEF MembersInv, AddsAlone
  <2> QED BY <1>3, <2>1, <2>2
<1> QED BY <1>2, <1>3, <1>4, <1>5

\* The other lists, of volumes, play no part in it.
LEMMA SetPVListInv ==
    ASSUME MembersInv, pc # "idle", NEW S \in SUBSET Claims, SetPVList(S), setting' = setting
    PROVE  /\ pvList' \in [Groups -> SUBSET Claims] /\ pvListCache' \in [Groups -> SUBSET Claims]
           /\ pvcList' = pvcList /\ listCache' = listCache
           /\ CacheKeepsUp' /\ Exclusive'
<1>1. /\ req \in Groups /\ pvList \in [Groups -> SUBSET Claims]
      /\ pvListCache \in [Groups -> SUBSET Claims]
      /\ multiple' = multiple /\ lag' = lag
  BY DEF MembersInv, TypeOK, setting
<1>2. /\ pvList' \in [Groups -> SUBSET Claims] /\ pvListCache' \in [Groups -> SUBSET Claims]
      /\ pvcList' = pvcList /\ listCache' = listCache
  BY <1>1 DEF SetPVList
<1> QED BY <1>1, <1>2 DEF MembersInv, CacheKeepsUp, Exclusive

\* A claim the check lets through is listed by no other group than its own.
LEMMA CheckedAlone ==
    ASSUME MembersInv, ~multiple, "vg" \notin lag, NEW g \in Groups, NoConflict(g),
           NEW p \in Matching(g), NEW h \in Groups, h # g
    PROVE  p \notin pvcList[h]
<1>1. CanBeAdded(p) /\ listCache = pvcList /\ p \in Claims /\ g \in wanted[p]
  BY DEF NoConflict, Matching, MembersInv, CacheKeepsUp
<1>2. \/ {x \in Groups : p \in pvcList[x]} = {}
      \/ {x \in Groups : p \notin pvcList[x] /\ x \in wanted[p]} = {}
  BY <1>1 DEF CanBeAdded
<1>3. p \in pvcList[g] \/ p \notin pvcList[h]
  BY <1>1, <1>2
<1> QED BY <1>3 DEF MembersInv, Exclusive

-----------------------------------------------------------------------------
(***************************************************************************)
(* The invariant.                                                          *)
(***************************************************************************)
LEMMA InitMembersInv == Init => MembersInv
<1> SUFFICES ASSUME Init PROVE MembersInv
  OBVIOUS
<1>1. TypeOK
  BY MembershipAssumption DEF Init, TypeOK, NoMembers, Steps
<1> QED BY <1>1 DEF Init, MembersInv, NothingLeft, CacheKeepsUp, AddsAlone, Exclusive,
                    DriverFirst, NoMembers

LEMMA NextMembersInv == MembersInv /\ [Next]_vars => MembersInv'
<1> SUFFICES ASSUME MembersInv, [Next]_vars PROVE MembersInv'
  OBVIOUS
<1> USE MembershipAssumption
<1>1. CASE UNCHANGED vars
  BY <1>1 DEF vars, setting, stored, caches, worker, MembersInv, TypeOK, NothingLeft,
              CacheKeepsUp, AddsAlone, Exclusive, DriverFirst
<1>2. ASSUME NEW g \in Groups, Start(g) PROVE MembersInv'
  <2>1. /\ UNCHANGED <<multiple, lag, wanted, pvcList, pvList, listCache, pvListCache, pvcFin,
                       driver, relabels, failures, toRemove, toAdd, cur>>
        /\ queue' = queue \/ queue' = queue \ {g}
        /\ pc = "idle" /\ matching = {} /\ toRemove = {} /\ toAdd = {}
    BY <1>2 DEF Start, WorkFrame, setting, stored, caches, worker, MembersInv, NothingLeft
  <2>2. CASE UNCHANGED <<pc, req, matching>>
    BY <2>1, <2>2 DEF MembersInv, TypeOK, NothingLeft, CacheKeepsUp, AddsAlone, Exclusive,
                      DriverFirst
  <2>3. CASE pc' = "modify" /\ req' = g /\ matching' = Matching(g) /\ NoConflict(g)
    <3>1. TypeOK'
      BY <2>1, <2>3 DEF MembersInv, TypeOK, Matching, Steps
    <3>2. AddsAlone'
      BY <2>1, <2>3, CheckedAlone DEF AddsAlone
    <3> QED BY <2>1, <2>3, <3>1, <3>2 DEF MembersInv, NothingLeft, CacheKeepsUp, Exclusive,
                                          DriverFirst
  <2> QED BY <1>2, <2>2, <2>3 DEF Start, worker
<1>3. CASE Modify
  <2>1. /\ UNCHANGED <<multiple, lag, wanted, pvcList, pvList, listCache, pvListCache, pvcFin,
                       queue, req, cur, relabels, failures>>
        /\ pc = "modify" /\ pc' = "update" /\ matching' = {}
        /\ driver' = [driver EXCEPT ![req] = matching]
        /\ toRemove' = pvcList[req] \ matching /\ toAdd' = matching \ pvcList[req]
    BY <1>3 DEF Modify, WorkFrame, setting, stored, caches
  <2>2. TypeOK'
    BY <2>1 DEF MembersInv, TypeOK, Steps
  <2>3. DriverFirst'
    BY <2>1 DEF DriverFirst, MembersInv, TypeOK
  <2> QED BY <2>1, <2>2, <2>3 DEF MembersInv, NothingLeft, CacheKeepsUp, AddsAlone, Exclusive
<1>4. CASE SecretMissing
  <2>1. /\ SetPVCList(matching) /\ Idle /\ queue' = queue \cup {req} /\ pc = "modify"
        /\ UNCHANGED <<setting, wanted, relabels, pvcFin, driver>>
        /\ failures < MaxFailures /\ failures' = failures + 1
    BY <1>4 DEF SecretMissing, Requeue, WorkFrame
  <2>2. matching \in SUBSET Claims /\ req \in Groups
    BY <2>1 DEF MembersInv, TypeOK
  <2>3. /\ pvcList' \in [Groups -> SUBSET Claims] /\ listCache' \in [Groups -> SUBSET Claims]
        /\ pvList' = pvList /\ pvListCache' = pvListCache /\ CacheKeepsUp' /\ Exclusive'
    BY <2>1, <2>2, SetPVCListInv
  <2>4. failures' \in 0 .. MaxFailures
    BY <2>1 DEF MembersInv, TypeOK
  <2>5. TypeOK'
    BY <2>1, <2>2, <2>3, <2>4 DEF MembersInv, TypeOK, Idle, Steps, setting
  <2> QED BY <2>1, <2>3, <2>5, IdleInv
<1>5. ASSUME NEW p \in Claims, RemoveFromList(p) \/ AddToList(p) PROVE MembersInv'
  <2>1. PICK S \in SUBSET Claims :
          /\ SetPVCList(S) /\ S \subseteq pvcList[req] \cup toAdd
          /\ pc = "update" /\ pc' \in {"removePV", "addPV"} /\ cur' = p
          /\ toRemove' \subseteq toRemove /\ toAdd' \subseteq toAdd
          /\ UNCHANGED <<multiple, lag, wanted, relabels, queue, failures, req, matching,
                         pvcFin, driver>>
    <3>1. pc = "update" /\ pvcList[req] \subseteq Claims
      BY <1>5 DEF RemoveFromList, AddToList, MembersInv, TypeOK
    <3>2. CASE RemoveFromList(p)
      <4> pvcList[req] \ {p} \in SUBSET Claims
        BY <3>1
      <4> WITNESS pvcList[req] \ {p} \in SUBSET Claims
      <4> QED BY <3>2 DEF RemoveFromList, StepFrame, WorkFrame, setting
    <3>3. CASE AddToList(p)
      <4> pvcList[req] \cup {p} \in SUBSET Claims
        BY <3>1
      <4> WITNESS pvcList[req] \cup {p} \in SUBSET Claims
      <4> QED BY <3>3 DEF AddToList, StepFrame, WorkFrame, setting
    <3> QED BY <1>5, <3>2, <3>3
  <2>2. /\ pvcList' \in [Groups -> SUBSET Claims] /\ listCache' \in [Groups -> SUBSET Claims]
        /\ pvList' = pvList /\ pvListCache' = pvListCache /\ CacheKeepsUp' /\ Exclusive'
        /\ \A h \in Groups : h # req => pvcList'[h] = pvcList[h]
    BY <2>1, SetPVCListInv DEF setting
  <2>3. TypeOK'
    BY <2>1, <2>2 DEF MembersInv, TypeOK, Steps
  <2>4. AddsAlone'
    BY <2>1, <2>2 DEF MembersInv, AddsAlone
  <2> QED BY <2>1, <2>2, <2>3, <2>4 DEF MembersInv, NothingLeft, DriverFirst
<1>6. CASE RemovePV \/ AddPV
  <2>1. PICK S \in SUBSET Claims :
          /\ SetPVList(S) /\ pc \in {"removePV", "addPV"} /\ pc' \in {"removeFin", "addFin"}
          /\ UNCHANGED <<multiple, lag, wanted, relabels, queue, failures, req, matching,
                         pvcFin, driver, toRemove, toAdd, cur>>
    <3>1. pc \in {"removePV", "addPV"} /\ pvListCache[req] \subseteq Claims /\ cur \in Claims
      BY <1>6 DEF RemovePV, AddPV, MembersInv, TypeOK
    <3>2. CASE RemovePV
      <4> pvListCache[req] \ {cur} \in SUBSET Claims
        BY <3>1
      <4> WITNESS pvListCache[req] \ {cur} \in SUBSET Claims
      <4> QED BY <3>2 DEF RemovePV, StepFrame, WorkFrame, setting
    <3>3. CASE AddPV
      <4> pvListCache[req] \cup {cur} \in SUBSET Claims
        BY <3>1
      <4> WITNESS pvListCache[req] \cup {cur} \in SUBSET Claims
      <4> QED BY <3>3 DEF AddPV, StepFrame, WorkFrame, setting
    <3> QED BY <1>6, <3>2, <3>3
  <2>2. /\ pvList' \in [Groups -> SUBSET Claims] /\ pvListCache' \in [Groups -> SUBSET Claims]
        /\ pvcList' = pvcList /\ listCache' = listCache /\ CacheKeepsUp' /\ Exclusive'
    BY <2>1, SetPVListInv DEF setting
  <2>3. TypeOK'
    BY <2>1, <2>2 DEF MembersInv, TypeOK, Steps
  <2> QED BY <2>1, <2>2, <2>3 DEF MembersInv, NothingLeft, AddsAlone, DriverFirst
<1>7. CASE RemoveFin \/ AddFin
  <2>1. /\ pc \in {"removeFin", "addFin"} /\ pc' = "update" /\ cur' = None
        /\ pvcFin' \subseteq pvcFin \cup {cur}
        /\ UNCHANGED <<multiple, lag, wanted, relabels, queue, failures, req, matching, pvcList,
                       pvList, listCache, pvListCache, driver, toRemove, toAdd>>
    BY <1>7 DEF RemoveFin, AddFin, StepFrame, WorkFrame, setting, stored, caches
  <2>2. TypeOK'
    BY <2>1 DEF MembersInv, TypeOK, Steps
  <2> QED BY <2>1, <2>2 DEF MembersInv, NothingLeft, CacheKeepsUp, AddsAlone, Exclusive,
                            DriverFirst
<1>8. CASE Done \/ CallFails \/ Restart
  <2>1. /\ Idle /\ UNCHANGED <<setting, wanted, relabels, pvcList, pvList, pvcFin, driver>>
        /\ queue' \subseteq Groups
        /\ failures' \in 0 .. MaxFailures
        /\ \/ listCache' = listCache /\ pvListCache' = pvListCache
           \/ listCache' = pvcList /\ pvListCache' = pvList
    <3>1. CASE Done
      BY <3>1 DEF Done, WorkFrame, stored, caches, MembersInv, TypeOK
    <3>2. CASE CallFails
      BY <3>2 DEF CallFails, Requeue, WorkFrame, stored, caches, MembersInv, TypeOK
    <3>3. CASE Restart
      BY <3>3 DEF Restart, WorkFrame, stored, MembersInv, TypeOK
    <3> QED BY <1>8, <3>1, <3>2, <3>3
  <2>2. TypeOK'
    BY <2>1 DEF MembersInv, TypeOK, Idle, Steps, setting
  <2>3. CacheKeepsUp' /\ Exclusive'
    BY <2>1 DEF MembersInv, CacheKeepsUp, Exclusive, setting
  <2> QED BY <2>1, <2>2, <2>3, IdleInv
<1>9. ASSUME NEW g \in Groups, SyncVG(g) \/ SyncVGC(g) PROVE MembersInv'
  <2>1. /\ UNCHANGED <<multiple, lag, wanted, pvcList, pvList, pvcFin, driver, queue, pc, req,
                       matching, toRemove, toAdd, cur, relabels, failures>>
        /\ \/ listCache' = [listCache EXCEPT ![g] = pvcList[g]] /\ pvListCache' = pvListCache
           \/ listCache' = listCache /\ pvListCache' = [pvListCache EXCEPT ![g] = pvList[g]]
    BY <1>9 DEF SyncVG, SyncVGC, SyncFrame, setting, stored, worker
  <2>2. TypeOK'
    BY <2>1 DEF MembersInv, TypeOK
  <2>3. CacheKeepsUp'
    BY <2>1 DEF MembersInv, TypeOK, CacheKeepsUp
  <2> QED BY <2>1, <2>2, <2>3 DEF MembersInv, NothingLeft, AddsAlone, Exclusive, DriverFirst
<1>10. CASE \/ \E p \in Claims, gs \in SUBSET Groups : Relabel(p, gs)
            \/ \E g \in Groups, ps \in SUBSET Claims : Reselect(g, ps)
  <2>1. /\ UserFrame /\ relabels < MaxRelabels /\ relabels' = relabels + 1
        /\ wanted' \in [Claims -> SUBSET Groups] /\ queue' \subseteq Groups
    BY <1>10 DEF Relabel, Reselect, MembersInv, TypeOK
  <2>2. UNCHANGED <<multiple, lag, pvcList, pvList, listCache, pvListCache, pvcFin, driver, pc,
                    req, matching, toRemove, toAdd, cur, failures>>
    BY <2>1 DEF UserFrame, setting, stored, caches, worker
  <2>3. relabels' \in 0 .. MaxRelabels
    BY <2>1 DEF MembersInv, TypeOK
  <2>4. TypeOK'
    BY <2>1, <2>2, <2>3 DEF MembersInv, TypeOK
  <2> QED BY <2>2, <2>4 DEF MembersInv, NothingLeft, CacheKeepsUp, AddsAlone, Exclusive,
                            DriverFirst
<1> QED BY <1>1, <1>2, <1>3, <1>4, <1>5, <1>6, <1>7, <1>8, <1>9, <1>10 DEF Next, Work

\* The lists, caches and the worker's variables keep their types, in particular
\* the worker has a group and a claim at hand where the code reads them.
THEOREM MembershipTyped == Spec => []TypeOK
<1>1. MembersInv => TypeOK
  BY DEF MembersInv
<1> QED BY <1>1, InitMembersInv, NextMembersInv, PTL DEF Spec

\* With --multiple-vgs-to-pvc=false and a cache of VolumeGroups that keeps up no
\* claim is ever in the PVC list of two groups, although IsPVCCanBeAddedToVG
\* is asked before the RPC and the claims are added one by one after it.
THEOREM NoSharedClaim == Spec => []Exclusive
<1>1. MembersInv => Exclusive
  BY DEF MembersInv
<1> QED BY <1>1, InitMembersInv, NextMembersInv, PTL DEF Spec

-----------------------------------------------------------------------------
(***************************************************************************)
(* What a step may never do.                                               *)
(***************************************************************************)

\* If the secret is there, UpdatePvcAndPvList adds a claim to the PVC list only
\* when the driver has its volume in the group, and takes one off only when
\* the driver has not, whatever fails between the RPC and the writes.
THEOREM DriverBeforeList ==
    ASSUME ~SecretFails
    PROVE  Spec => ListFollowsDriver
<1>1. ASSUME MembersInv, [Next]_vars, NEW g \in Groups
      PROVE  /\ pvcList'[g] \ pvcList[g] \subseteq driver[g]
             /\ (pvcList[g] \ pvcList'[g]) \cap driver[g] = {}
  <2>1. CASE pvcList' = pvcList
    BY <2>1
  <2>2. ASSUME NEW p \in Claims, RemoveFromList(p)
        PROVE  /\ pvcList'[g] \ pvcList[g] \subseteq driver[g]
               /\ (pvcList[g] \ pvcList'[g]) \cap driver[g] = {}
    <3>1. /\ pvcList' = [pvcList EXCEPT ![req] = pvcList[req] \ {p}]
          /\ p \in toRemove /\ pc # "idle"
      BY <2>2 DEF RemoveFromList, SetPVCList
    <3> QED BY <1>1, <3>1 DEF MembersInv, TypeOK, DriverFirst
  <2>3. ASSUME NEW p \in Claims, AddToList(p)
        PROVE  /\ pvcList'[g] \ pvcList[g] \subseteq driver[g]
               /\ (pvcList[g] \ pvcList'[g]) \cap driver[g] = {}
    <3>1. /\ pvcList' = [pvcList EXCEPT ![req] = pvcList[req] \cup {p}]
          /\ p \in toAdd /\ pc # "idle"
      BY <2>3 DEF AddToList, SetPVCList
    <3> QED BY <1>1, <3>1 DEF MembersInv, TypeOK, DriverFirst
  <2>4. \/ pvcList' = pvcList
        \/ \E p \in Claims : RemoveFromList(p) \/ AddToList(p)
    BY <1>1 DEF Next, Work, Start, SyncVG, SyncVGC, SyncFrame, Modify, RemovePV, AddPV, SetPVList,
                RemoveFin, AddFin, Done, SecretMissing, CallFails, Restart, Relabel, Reselect,
                UserFrame, stored, vars
  <2> QED BY <2>1, <2>2, <2>3, <2>4
<1>2. MembersInv /\ [Next]_vars
      => [\A g \in Groups :
            /\ pvcList'[g] \ pvcList[g] \subseteq driver[g]
            /\ (pvcList[g] \ pvcList'[g]) \cap driver[g] = {}]_vars
  BY <1>1
<1> QED BY <1>2, InitMembersInv, NextMembersInv, PTL DEF Spec, ListFollowsDriver

-----------------------------------------------------------------------------
(***************************************************************************)
(* The finalizers of the claims.                                           *)
(***************************************************************************)

\* The claims left to remove are listed, and so is the one being added.
AtHand ==
    /\ pc # "idle" => toRemove \subseteq pvcList[req]
    /\ pc \in {"addPV", "addFin"} => cur \in pvcList[req]

\* What HeldWhileListed rests on: a claim that has just left a list still has
\* the finalizer, because the list had it.
HeldInv ==
    /\ AtHand /\ HeldWhileListed
    /\ "vg" \notin lag /\ failures = 0 /\ pc \in {"removePV", "removeFin"} => cur \in pvcFin

LEMMA NextHeldInv == MembersInv /\ HeldInv /\ [Next]_vars => HeldInv'
<1> SUFFICES ASSUME MembersInv, HeldInv, [Next]_vars PROVE HeldInv'
  OBVIOUS
<1> USE MembershipAssumption DEF HeldInv, AtHand
<1>0. /\ pvcList \in [Groups -> SUBSET Claims] /\ pvcFin \subseteq Claims /\ failures \in Nat
      /\ pc # "idle" => req \in Groups
      /\ IF pc \in {"idle", "modify", "update"} THEN cur = None ELSE cur \in Claims
      /\ None \notin Claims /\ pc \in Steps
      /\ matching \subseteq Claims /\ toRemove \subseteq Claims
      /\ "vg" \notin lag => listCache = pvcList
  BY DEF MembersInv, TypeOK, CacheKeepsUp
<1>1. CASE UNCHANGED <<lag, failures, pvcList, pvcFin, pc, req, toRemove, cur>>
  BY <1>1 DEF HeldWhileListed
<1>2. ASSUME NEW g \in Groups, Start(g) PROVE HeldInv'
  <2>1. /\ UNCHANGED <<lag, failures, pvcList, pvcFin, toRemove, cur>>
        /\ UNCHANGED <<pc, req>> \/ (pc' = "modify" /\ toRemove = {})
    BY <1>2 DEF Start, WorkFrame, setting, stored, worker, MembersInv, NothingLeft
  <2> QED BY <1>1, <2>1 DEF HeldWhileListed
<1>3. CASE Modify
  <2>1. /\ UNCHANGED <<lag, failures, pvcList, pvcFin, req, cur>> /\ pc' = "update"
        /\ toRemove' \subseteq pvcList[req]
    BY <1>3 DEF Modify, WorkFrame, setting, stored
  <2> QED BY <2>1 DEF HeldWhileListed
<1>4. CASE SecretMissing \/ CallFails \/ Restart
  <2>1. pc' = "idle" /\ failures' # 0
    BY <1>0, <1>4 DEF SecretMissing, CallFails, Restart, Requeue, Idle
  <2> QED BY <2>1 DEF HeldWhileListed
<1>5. ASSUME NEW p \in Claims, RemoveFromList(p) PROVE HeldInv'
  <2>1. /\ UNCHANGED <<lag, failures, pvcFin, req>> /\ pc' = "removePV" /\ cur' = p
        /\ pvcList' = [pvcList EXCEPT ![req] = pvcList[req] \ {p}]
        /\ toRemove' = toRemove \ {p} /\ p \in toRemove /\ pc = "update"
    BY <1>5 DEF RemoveFromList, SetPVCList, StepFrame, WorkFrame, setting
  <2>2. /\ \A q \in Claims \ {p}, h \in Groups : q \in pvcList'[h] <=> q \in pvcList[h]
        /\ p \in pvcList[req] /\ toRemove' \subseteq pvcList'[req] /\ cur = None
    BY <1>0, <2>1
  <2>3. HeldWhileListed'
    BY <1>0, <2>1, <2>2 DEF HeldWhileListed
  <2>4. "vg" \notin lag /\ failures = 0 => p \in pvcFin
    BY <1>0, <2>1, <2>2 DEF HeldWhileListed
  <2> QED BY <2>1, <2>2, <2>3, <2>4
<1>6. ASSUME NEW p \in Claims, AddToList(p) PROVE HeldInv'
  <2>1. /\ UNCHANGED <<lag, failures, pvcFin, req, toRemove>> /\ pc' = "addPV" /\ cur' = p
        /\ pvcList' = [pvcList EXCEPT ![req] = pvcList[req] \cup {p}] /\ pc = "update"
    BY <1>6 DEF AddToList, SetPVCList, StepFrame, WorkFrame, setting
  <2>2. /\ \A q \in Claims \ {p}, h \in Groups : q \in pvcList'[h] <=> q \in pvcList[h]
        /\ p \in pvcList'[req] /\ toRemove' \subseteq pvcList'[req] /\ cur = None
    BY <1>0, <2>1
  <2>3. HeldWhileListed'
    BY <1>0, <2>1, <2>2 DEF HeldWhileListed
  <2> QED BY <2>1, <2>2, <2>3
<1>7. CASE RemovePV \/ AddPV
  <2>1. /\ UNCHANGED <<lag, failures, pvcList, pvcFin, req, toRemove, cur>>
        /\ \/ pc = "removePV" /\ pc' = "removeFin"
           \/ pc = "addPV" /\ pc' = "addFin"
    BY <1>7 DEF RemovePV, AddPV, SetPVList, StepFrame, WorkFrame, setting
  <2> QED BY <2>1 DEF HeldWhileListed
<1>8. CASE RemoveFin
  <2>1. /\ UNCHANGED <<lag, failures, pvcList, req, toRemove>> /\ pc' = "update" /\ cur' = None
        /\ pvcFin' = IF IsPVCPartAnyVG(cur) THEN pvcFin ELSE pvcFin \ {cur}
        /\ pc = "removeFin"
    BY <1>8 DEF RemoveFin, StepFrame, WorkFrame, setting, stored
  <2>2. "vg" \notin lag => (IsPVCPartAnyVG(cur) <=> \E g \in Groups : cur \in pvcList[g])
    BY <1>0 DEF IsPVCPartAnyVG
  <2>3. HeldWhileListed'
    BY <1>0, <2>1, <2>2 DEF HeldWhileListed
  <2> QED BY <2>1, <2>3
<1>9. CASE AddFin
  <2>1. /\ UNCHANGED <<lag, failures, pvcList, req, toRemove>> /\ pc' = "update" /\ cur' = None
        /\ pvcFin' = pvcFin \cup {cur} /\ pc = "addFin"
    BY <1>9 DEF AddFin, StepFrame, WorkFrame, setting, stored
  <2>2. HeldWhileListed'
    BY <1>0, <2>1 DEF HeldWhileListed
  <2> QED BY <2>1, <2>2
<1>10. CASE Done
  <2>1. /\ UNCHANGED <<lag, failures, pvcList, pvcFin>> /\ pc = "update" /\ pc' = "idle"
        /\ cur' = None
    BY <1>10 DEF Done, Idle, WorkFrame, setting, stored
  <2> QED BY <1>0, <2>1 DEF HeldWhileListed
<1>11. CASE \/ UNCHANGED vars \/ \E g \in Groups : SyncVG(g) \/ SyncVGC(g)
            \/ \E p \in Claims, gs \in SUBSET Groups : Relabel(p, gs)
            \/ \E g \in Groups, ps \in SUBSET Claims : Reselect(g, ps)
  BY <1>1, <1>11 DEF vars, SyncVG, SyncVGC, SyncFrame, Relabel, Reselect, UserFrame, setting,
                     stored, worker
<1> QED BY <1>2, <1>3, <1>4, <1>5, <1>6, <1>7, <1>8, <1>9, <1>10, <1>11 DEF Next, Work

\* While nothing fails and the cache of VolumeGroups keeps up, exactly the
\* members of the groups have the finalizer, but for the claim at hand: what
\* RemoveFinalizerFromPVC takes from a claim leaving one group is never what
\* another group needs, and nothing is left on a claim that no group lists.
THEOREM MembersHeld == Spec => []HeldWhileListed
<1>1. Init => HeldInv
  BY MembershipAssumption DEF Init, HeldInv, AtHand, HeldWhileListed, NoMembers
<1>2. HeldInv => HeldWhileListed
  BY DEF HeldInv
<1> QED BY <1>1, <1>2, InitMembersInv, NextMembersInv, NextHeldInv, PTL DEF Spec
=============================================================================
