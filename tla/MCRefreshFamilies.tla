-------------------------- MODULE MCRefreshFamilies --------------------------
EXTENDS RefreshFamilies, TLC
=============================================================================
