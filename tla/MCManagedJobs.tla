---------------------------- MODULE MCManagedJobs ----------------------------
EXTENDS ManagedJobs, TLC
=============================================================================
