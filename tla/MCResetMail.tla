------------------------------ MODULE MCResetMail ------------------------------
(* The instance of ResetMail for TLC is MCResetMail.cfg.  Liveness is       *)
(* checked with the invariants, so it declares no symmetry.                *)
EXTENDS ResetMail
=============================================================================
