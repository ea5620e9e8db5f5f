---------------------------- MODULE MCKnowledge ----------------------------
(* The instance of Knowledge for TLC is MCKnowledge.cfg.  Liveness is       *)
(* checked with the invariants, so it declares no symmetry.                *)
EXTENDS Knowledge
=============================================================================
