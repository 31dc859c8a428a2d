------------------------------ MODULE MCStatic ------------------------------
EXTENDS GroupLifecycle
=============================================================================
