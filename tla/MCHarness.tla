------------------------------ MODULE MCHarness ------------------------------
(* Harness for TLC: questions and answers are interchangeable.               *)
EXTENDS Harness, TLC

Symmetry == Permutations(Questions) \cup Permutations(Answers)
=============================================================================
