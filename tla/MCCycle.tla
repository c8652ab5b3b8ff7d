------------------------------ MODULE MCCycle ------------------------------
(* Cycle for TLC: one intent on the anchor, which may turn out to be the    *)
(* talk, and a document that may come; a comparison that calls a promise    *)
(* broken, and one whose entries are out of order.                          *)
EXTENDS Cycle, TLC

CONSTANTS d1, d2

Intent == [kind |-> "intent_pre_review", affinity |-> "none", subject |-> TRUE, text |-> TRUE]
Talk   == [Intent EXCEPT !.kind = "free_phase_transcript"]

MCWritings == {Intent, Talk}

Entry(label, cost, refs) == [label |-> label, cost |-> cost, refs |-> refs, settled |-> TRUE]

MCHeld == {[d \in Documents |-> IF d = d1 THEN Intent ELSE Absent]}

MCReports ==
  {<<Entry("contradicted", "never", {d1})>>,
   <<Entry("silent", "next_review", {}), Entry("dropped_in_talk", "never", {d1})>>}
=============================================================================
