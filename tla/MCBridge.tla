------------------------------ MODULE MCBridge ------------------------------
(* Symmetry for checking Bridge with TLC. *)
EXTENDS BridgeProperties, TLC

Symmetry == Permutations(Payloads) \union Permutations(Archives) \union Permutations(Txns)
=============================================================================
