---------------------------- MODULE MCMembership ----------------------------
EXTENDS GroupMembership, TLC
MembershipSymmetry == Permutations(Groups) \cup Permutations(Claims)
=============================================================================
