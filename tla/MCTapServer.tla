------------------------------ MODULE MCTapServer ------------------------------
EXTENDS TapServer
=============================================================================
