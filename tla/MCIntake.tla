------------------------------- MODULE MCIntake -------------------------------
(* Intake on a small instance. *)
EXTENDS IntakeProperties, TLC

Symmetry == Permutations(Ids) \union Permutations(Txns)
=============================================================================
