----------------------------- MODULE MCRelease -----------------------------
EXTENDS GroupRelease
CONSTANTS v1, v2, v3
SomeSets == {{v1, v2}, {v3}}
NoSources == {NoName}
FirstContent == MakeVGName(CHOOSE u \in UIDs : TRUE)
=============================================================================
