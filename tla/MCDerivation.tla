---------------------------- MODULE MCDerivation ----------------------------
(* Model values and symmetry for checking Derivation with TLC. *)
EXTENDS DerivationProperties, TLC

Symmetry == Permutations(Workers)
=============================================================================
