------------------------------ MODULE MCDesktop ------------------------------
(* The instance of Desktop for TLC is MCDesktop.cfg: the shell alone.       *)
EXTENDS Desktop
=============================================================================
