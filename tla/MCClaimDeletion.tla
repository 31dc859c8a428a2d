-------------------------- MODULE MCClaimDeletion --------------------------
EXTENDS ClaimDeletion
=============================================================================
