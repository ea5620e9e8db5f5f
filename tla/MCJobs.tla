------------------------------- MODULE MCJobs -------------------------------
(* The instance of Jobs for TLC is MCJobsRaces.cfg.  It checks liveness, so *)
(* it declares no symmetry.                                                *)
EXTENDS Jobs
=============================================================================
