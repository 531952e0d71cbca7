---------------------------- MODULE MCPermitPool -----------------------------
EXTENDS PermitPool
=============================================================================
