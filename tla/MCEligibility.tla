--------------------------- MODULE MCEligibility ---------------------------
EXTENDS ClaimEligibility, TLC
CONSTANTS g1, g2, p1, p2

\* The order in which waitForCrds waits.
CrdsInOrder == <<"VolumeGroup", "VolumeGroupClass", "VolumeGroupContent">>

ClaimOf(class, phase) == [label |-> "a", class |-> class, phase |-> phase, volume |-> phase = "Bound"]
GroupOf(selector, class) == [selector |-> selector, class |-> class]

\* A group and a claim that are well formed, and others that may not be.
OneOddClaim ==
    {(p1 :> ClaimOf("ours", "Bound")) @@ (p2 :> c) :
       c \in {ClaimOf("ours", "Bound"), ClaimOf("grouped", "Bound"), ClaimOf("", "Pending")}}
SomeGroups ==
    {GroupOf(s, "ours") : s \in {"a", "b", "nil", "invalid"}}
    \cup {GroupOf("b", c) : c \in {"", "bad", "secret", "other"}}
OneOddGroup ==
    {(g1 :> GroupOf("a", "ours")) @@ (g2 :> s) :
       s \in {GroupOf("b", "secret"), GroupOf("nil", "ours"), GroupOf("b", "")}}
=============================================================================
