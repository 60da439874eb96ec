-------------------------- MODULE MCSchedulerModel --------------------------
(* SchedulerModel on two hosts (three for the colours) and two job ids.    *)
EXTENDS SchedulerModel, TLC

Symmetry == Permutations(HostId) \cup Permutations(JobId)
=============================================================================
