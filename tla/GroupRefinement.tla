-------------------------- MODULE GroupRefinement --------------------------
(***************************************************************************)
(* GroupLifecycle implements GroupPromise for the contents the operator    *)
(* generates, under the deletion policy Delete.                            *)
(***************************************************************************)
EXTENDS GroupLifecycle

OwnerOf(u) ==
    IF nameOf[u] = NoName THEN "none"
    ELSE IF ~IsVG(nameOf[u], u) THEN "gone"
    ELSE IF vgs[nameOf[u]].ready THEN "ready" ELSE "pending"

PhaseOf(vgc) ==
    IF vgc = NoObj THEN "absent"
    ELSE IF ~vgc.fin THEN "open"
    ELSE IF vgc.deleting THEN "closing" ELSE "guarded"

\* The records are the contents; c[2] is the uid in the name MakeVGName gave.
owners == [c \in DynamicContents |-> OwnerOf(c[2])]
phases == [c \in DynamicContents |-> PhaseOf(vgcs[c])]
storedGroups == groups \cap DynamicContents
knownHandles == {c \in DynamicContents : vgcs[c] # NoObj /\ vgcs[c].handle}

Promise ==
    INSTANCE GroupPromise WITH
        Records <- DynamicContents, owner <- owners, phase <- phases,
        stored <- storedGroups, known <- knownHandles

\* Every step of the two controllers, the API server and the users is a step
\* of the promise or leaves it alone: groups are provisioned, reported and
\* reclaimed as if the operator worked on one consistent copy of everything,
\* although each step is decided on cached objects and may be repeated.
PromiseKept == Promise!Spec
=============================================================================
