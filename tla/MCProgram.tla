----------------------------- MODULE MCProgram -----------------------------
(* Program on one host and one job.                                        *)
EXTENDS Program
=============================================================================
