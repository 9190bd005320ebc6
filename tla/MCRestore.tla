------------------------------ MODULE MCRestore -----------------------------
(* Model values for checking Restore with TLC: rows that hold one content.    *)
EXTENDS RestoreProperties, TLC

CONSTANT h1

OneContent == [i \in Rows |-> h1]
Symmetry   == Permutations(Files)
=============================================================================
