------------------------------ MODULE MCLegacy ------------------------------
(* Model values and symmetry for checking LegacyPipeline with TLC. *)
EXTENDS LegacyProperties, TLC

Symmetry == Permutations(Workers)
=============================================================================
