---------------------------- MODULE MCProtection ----------------------------
EXTENDS Protection
=============================================================================
