---------------------------- MODULE MCAuthority ----------------------------
(* Model values and symmetry for checking Authority with TLC. *)
EXTENDS AuthorityProperties, TLC

Symmetry == Permutations(Keys) \union Permutations(Records) \union Permutations(Slots)
=============================================================================
