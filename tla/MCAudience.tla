----------------------------- MODULE MCAudience -----------------------------
(* A small instance of Audience: a text that does not move between versions. *)
EXTENDS Audience, TLC

CONSTANTS p1, p2, f1

UnmovedDigest == [v \in Versions |-> "d1"]
MachineOnly   == <<"machine">>
OneAnswer     == {<<f1>>}
OneCoarse     == [f \in {f1} |-> "k1"]
Symmetry      == Permutations(Procs)
=============================================================================
