----------------------------- MODULE MCMonitor -----------------------------
(* Monitor with the scheduler and its connection, on small instances.      *)
EXTENDS Monitor, TLC

Symmetry == Permutations(HostId) \cup Permutations(JobId)
=============================================================================
