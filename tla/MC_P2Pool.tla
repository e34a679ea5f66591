------------------------------ MODULE MC_P2Pool ------------------------------
EXTENDS P2Pool
=============================================================================
