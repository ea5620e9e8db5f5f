------------------------------ MODULE MCConsole ------------------------------
(* The instance of Console for TLC is MCConsole.cfg.  Liveness is checked   *)
(* with the invariants, so it declares no symmetry.                        *)
EXTENDS Console
=============================================================================
