------------------------------ MODULE MCSfcPpp ------------------------------
EXTENDS SfcPpp, SfcPeers, TLC
=============================================================================
