----------------------------- MODULE MCCuration -----------------------------
(* Symmetry for checking Curation with TLC. *)
EXTENDS CurationProperties, TLC

Symmetry == Permutations(Txns) \union Permutations(Groups)
=============================================================================
