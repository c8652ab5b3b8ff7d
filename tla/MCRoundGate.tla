----------------------------- MODULE MCRoundGate -----------------------------
(* RoundGate for TLC: finding ids are interchangeable.                       *)
EXTENDS RoundGate, TLC

Symmetry == Permutations(Findings)
=============================================================================
