------------------------- MODULE EligibilityProofs -------------------------
(***************************************************************************)
(* Proofs about the operator's process (OperatorProcess) and the claims of *)
(* groups (ClaimEligibility): the manager runs only with its CRDs, for any *)
(* number of kinds, claims, groups and changes.                            *)
(***************************************************************************)
EXTENDS ClaimEligibility, TLAPS

\* The CRDs waited for so far are there: what RunsOnlyWithCrds rests on.
CrdsSeen == \A k \in 1 .. waiting - 1 : Kinds[k] \in crds

ProcessInv == ProcessTypeOK /\ CrdsSeen /\ RunsOnlyWithCrds

LEMMA KindFacts ==
    /\ MaxChanges \in Nat /\ Len(Kinds) \in Nat \ {0} /\ DOMAIN Kinds = 1 .. Len(Kinds)
    /\ \A k \in 1 .. Len(Kinds) : Kinds[k] \in KindSet
<1>1. Kinds \in Seq(STRING) /\ Kinds # <<>> /\ MaxChanges \in Nat
  BY ProcessAssumption
<1>2. Len(Kinds) \in Nat \ {0} /\ DOMAIN Kinds = 1 .. Len(Kinds)
  BY <1>1
<1> QED BY <1>1, <1>2 DEF KindSet

\* The steps of the process keep its invariant.
LEMMA ProcessStepInv ==
    ASSUME ProcessInv, ProcessStep \/ ExitWithError \/ Surroundings
    PROVE  ProcessInv'
<1> USE KindFacts
<1>1. CASE Start \/ Connect \/ Probe \/ ExitWithError \/ ConnectionLost
  <2>1. /\ \/ proc' \in {"exited", "connect", "probe", "hung"} /\ waiting' = 0
           \/ proc' = "waitForCrds" /\ waiting' = 1
        /\ driver' = driver /\ crds' = crds /\ (changes' = changes \/ Change)
    BY <1>1 DEF Start, Connect, Probe, ExitWithError, ConnectionLost, Exit, ProcessInv,
                ProcessTypeOK
  <2>2. changes' \in 0 .. MaxChanges
    BY <2>1 DEF Change, ProcessInv, ProcessTypeOK
  <2>3. ProcessTypeOK'
    BY <2>1, <2>2 DEF ProcessInv, ProcessTypeOK
  <2> QED BY <2>1, <2>3 DEF ProcessInv, CrdsSeen, RunsOnlyWithCrds
<1>2. CASE WaitForCrd
  <2>1. /\ proc = "waitForCrds" /\ waiting \in 1 .. Len(Kinds) /\ Kinds[waiting] \in crds
        /\ crds' = crds /\ driver' = driver /\ changes' = changes
    BY <1>2 DEF WaitForCrd, ProcessInv, ProcessTypeOK
  <2>2. CASE waiting < Len(Kinds)
    <3>1. waiting' = waiting + 1 /\ proc' = proc
      BY <1>2, <2>2 DEF WaitForCrd
    <3>2. ProcessTypeOK'
      BY <2>1, <2>2, <3>1 DEF ProcessInv, ProcessTypeOK
    <3>3. CrdsSeen'
      <4>1. \A k \in 1 .. waiting' - 1 : k = waiting \/ k \in 1 .. waiting - 1
        BY <2>1, <3>1
      <4> QED BY <2>1, <4>1 DEF ProcessInv, CrdsSeen
    <3> QED BY <2>1, <3>1, <3>2, <3>3 DEF ProcessInv, RunsOnlyWithCrds
  <2>3. CASE ~(waiting < Len(Kinds))
    <3>0. waiting' = 0 /\ proc' = "running"
      BY <1>2, <2>3 DEF WaitForCrd
    <3>1. waiting = Len(Kinds)
      <4>1. ASSUME NEW w, NEW n \in Nat, w \in 1 .. n, ~(w < n) PROVE w = n
        BY <4>1
      <4>2. Len(Kinds) \in Nat
        OBVIOUS
      <4> QED BY <2>1, <2>3, <4>1, <4>2
    <3>2. \A k \in 1 .. Len(Kinds) : Kinds[k] \in crds
      BY <2>1, <3>1 DEF ProcessInv, CrdsSeen
    <3>3. crds = KindSet
      BY <3>2 DEF KindSet, ProcessInv, ProcessTypeOK
    <3> QED BY <2>1, <3>0, <3>3 DEF ProcessInv, ProcessTypeOK, CrdsSeen, RunsOnlyWithCrds
  <2> QED BY <2>2, <2>3
<1>3. CASE Surroundings
  <2>1. CASE DriverStops \/ DriverStarts
    BY <2>1 DEF DriverStops, DriverStarts, Change, ProcessInv, ProcessTypeOK, CrdsSeen,
                RunsOnlyWithCrds
  <2>2. ASSUME NEW kind \in KindSet, InstallCrd(kind) PROVE ProcessInv'
    BY <2>2 DEF InstallCrd, ProcessInv, ProcessTypeOK, CrdsSeen, RunsOnlyWithCrds
  <2> QED BY <1>3, <2>1, <2>2 DEF Surroundings
<1> QED BY <1>1, <1>2, <1>3 DEF ProcessStep

\* The steps of the workers and of the cluster leave it alone.
LEMMA NextProcessInv == ProcessInv /\ [Next]_vars => ProcessInv'
<1> SUFFICES ASSUME ProcessInv, [Next]_vars PROVE ProcessInv'
  OBVIOUS
<1>1. ASSUME UNCHANGED mainVars, changes' = changes \/ Change PROVE ProcessInv'
  BY <1>1, KindFacts
  DEF mainVars, Change, ProcessInv, ProcessTypeOK, CrdsSeen, RunsOnlyWithCrds
<1>2. CASE UNCHANGED vars \/ \E g \in Groups : Work(g)
  <2>1. UNCHANGED processVars
    BY <1>2 DEF vars, Work, Ignore, Same, SecretMissing, Modify, RemoveClaim, AddClaim, Done,
                Asked, Reconciled, WorkFrame
  <2> QED BY <1>1, <2>1 DEF processVars
<1>3. CASE Cluster
  BY <1>1, <1>3
  DEF Cluster, Relabel, Bind, LoseVolume, Lose, ChangeClaim, EditGroup, ToggleObject
<1>4. CASE Process(ProcessStep) \/ Process(ExitWithError) \/ Process(Surroundings)
  BY <1>4, ProcessStepInv DEF Process
<1> QED BY <1>2, <1>3, <1>4 DEF Next

\* The manager, and with it every reconcile, runs only when all CRDs are there,
\* however many waitForCrds waits for and however often the process starts.
THEOREM CrdsFirst == Spec => []RunsOnlyWithCrds
<1>1. Init => ProcessInv
  BY KindFacts DEF Init, ProcessInit, ProcessInv, ProcessTypeOK, CrdsSeen, RunsOnlyWithCrds
<1>2. ProcessInv => RunsOnlyWithCrds
  BY DEF ProcessInv
<1> QED BY <1>1, <1>2, NextProcessInv, PTL DEF Spec

-----------------------------------------------------------------------------
\* A step of the worker keeps the types.
LEMMA WorkType ==
    ASSUME TypeOK, ProcessTypeOK', NEW g \in Groups, Work(g)
    PROVE  TypeOK'
<1>1. /\ UNCHANGED <<clusterVars, processVars>> /\ proc = "running"
      /\ Matching(g) \subseteq Claims
  <2>1. Taken(g) \/ req \in Groups
    BY DEF Work, Ignore, Same, SecretMissing, Modify, Asked, Reconciled
  <2>2. proc = "running"
    BY <2>1, EligibilityAssumption DEF Taken, TypeOK
  <2> QED BY <2>2 DEF Work, Ignore, Same, SecretMissing, Modify, RemoveClaim, AddClaim, Done,
                      Asked, Reconciled, WorkFrame, Matching, PVCList
<1> DEFINE Typed == /\ list' \in [Groups -> SUBSET Claims] /\ fin' \subseteq Claims
                    /\ queue' \subseteq Groups /\ req' \in Groups \cup {None}
                    /\ toRemove' \subseteq Claims /\ toAdd' \subseteq Claims
<1>2. Typed
  <2>0. queue \subseteq Groups
    BY <1>1 DEF TypeOK
  <2>1. CASE Ignore(g) \/ Same(g)
    BY <2>0, <2>1, <1>1 DEF Ignore, Same, TypeOK, statusVars, worker
  <2>2. CASE SecretMissing(g)
    BY <1>1, <2>0, <2>2 DEF SecretMissing, TypeOK, worker
  <2>3. CASE Modify(g)
    BY <1>1, <2>0, <2>3 DEF Modify, TypeOK, statusVars
  <2>4. CASE Done
    BY <1>1, <2>0, <2>4 DEF Done, Idle, TypeOK, statusVars
  <2>5. ASSUME NEW p \in Claims, req = g, RemoveClaim(p) \/ AddClaim(p) PROVE Typed
    BY <2>0, <2>5 DEF RemoveClaim, AddClaim, Continue, Fail, Idle, TypeOK
  <2> QED BY <2>1, <2>2, <2>3, <2>4, <2>5 DEF Work
<1> QED BY <1>1, <1>2 DEF TypeOK, clusterVars, processVars, mainVars

\* So does what users and administrators do.
LEMMA ClusterType ==
    ASSUME TypeOK, ProcessTypeOK', Cluster
    PROVE  TypeOK'
<1>queue. ASSUME NEW gs \in SUBSET Groups, Enqueue(gs), UNCHANGED mainVars
          PROVE  queue' \subseteq IF proc' = "running" THEN Groups ELSE {}
  BY <1>queue DEF Enqueue, TypeOK, mainVars
<1>requests. \A labels : CreateRequests(labels) \subseteq Groups
  BY DEF CreateRequests
<1>1. ASSUME NEW p \in Claims, NEW new \in Claim, ChangeClaim(p, new) PROVE TypeOK'
  <2>1. queue' \subseteq IF proc' = "running" THEN Groups ELSE {}
    BY <1>1, <1>queue, <1>requests DEF ChangeClaim
  <2>2. claims' \in [Claims -> Claim]
    BY <1>1 DEF ChangeClaim, TypeOK
  <2> QED BY <1>1, <2>1, <2>2 DEF ChangeClaim, TypeOK, statusVars, worker, mainVars
<1>2. ASSUME NEW p \in Claims, Relabel(p) \/ Bind(p) \/ LoseVolume(p) \/ Lose(p)
      PROVE  TypeOK'
  <2>1. claims[p] \in Claim
    BY DEF TypeOK
  <2>2. /\ \A l \in Labels : [claims[p] EXCEPT !.label = l] \in Claim
        /\ [claims[p] EXCEPT !.phase = "Bound", !.volume = TRUE] \in Claim
        /\ [claims[p] EXCEPT !.volume = FALSE] \in Claim
        /\ [claims[p] EXCEPT !.phase = "Lost"] \in Claim
    BY <2>1 DEF Claim
  <2> QED BY <1>1, <1>2, <2>2 DEF Relabel, Bind, LoseVolume, Lose
<1>3. ASSUME NEW g \in Groups, EditGroup(g) PROVE TypeOK'
  <2>1. queue' \subseteq IF proc' = "running" THEN Groups ELSE {}
    BY <1>3, <1>queue DEF EditGroup
  <2>2. specs' \in [Groups -> Group]
    BY <1>3, EligibilityAssumption DEF EditGroup, TypeOK
  <2> QED BY <1>3, <2>1, <2>2 DEF EditGroup, TypeOK, statusVars, worker, mainVars
<1>4. CASE ToggleObject
  BY <1>4 DEF ToggleObject, Toggled, statusVars, worker, mainVars, TypeOK
<1> QED BY <1>2, <1>3, <1>4 DEF Cluster

\* TypeOK is an invariant: in particular a process that is not running holds no
\* request and reconciles no group.
THEOREM EligibilityTyped == Spec => []TypeOK
<1>1. Init => TypeOK /\ ProcessInv
  BY KindFacts, EligibilityAssumption
  DEF Init, TypeOK, ProcessInit, ProcessInv, ProcessTypeOK, CrdsSeen, RunsOnlyWithCrds
<1>2. TypeOK /\ ProcessInv /\ [Next]_vars => TypeOK' /\ ProcessInv'
  <2> SUFFICES ASSUME TypeOK, ProcessInv, [Next]_vars PROVE TypeOK' /\ ProcessInv'
    OBVIOUS
  <2>1. ProcessInv' /\ ProcessTypeOK'
    BY NextProcessInv DEF ProcessInv
  <2>2. CASE UNCHANGED vars
    BY <2>1, <2>2 DEF TypeOK, vars, clusterVars, statusVars, worker, processVars, mainVars
  <2>3. CASE Process(ProcessStep) \/ Process(ExitWithError) \/ Process(Surroundings)
    BY <2>1, <2>3 DEF Process, TypeOK, Idle, clusterVars, statusVars, worker
  <2> QED BY <2>1, <2>2, <2>3, WorkType, ClusterType DEF Next
<1> QED BY <1>1, <1>2, PTL DEF Spec

=============================================================================
