------------------------------ MODULE MCDynamic ------------------------------
EXTENDS GroupRefinement, TLC
NoSources == {NoName}
UIDSymmetry == Permutations(UIDs)
=============================================================================
