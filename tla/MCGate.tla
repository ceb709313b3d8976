------------------------------- MODULE MCGate -------------------------------
(* Gate for TLC: goroutines are interchangeable in it.                       *)
EXTENDS Gate, TLC

Symmetry == Permutations(Goroutines)

=============================================================================
