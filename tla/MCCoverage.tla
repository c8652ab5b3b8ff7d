----------------------------- MODULE MCCoverage -----------------------------
(* Coverage for TLC: a table of two rows and its correction to one; reports   *)
(* that reach, miss, fail and leave out rows alone and as a group.            *)
EXTENDS Coverage, TLC

MCRowsOf == [t \in Tables |-> IF t = "full" THEN {"a", "b"} ELSE {"a"}]

OfBoth(x, y) == [r \in {"a", "b"} |-> IF r = "a" THEN x ELSE y]
OfA(x)       == [r \in {"a"} |-> x]

MCReports ==
  [d \in Denominators |->
     IF d = "questions"
     THEN {OfBoth("unproved", "cannot_reach"), OfBoth("bare", "bare"), OfA("proved"), OfA("finding")}
     ELSE {OfBoth("unproved", "not-reached"), OfA("proved")}]

Said(who, word, returns) == [who |-> who, word |-> word, returns |-> returns]

MCDecisions ==
  {Said("operator", "accepted_unreviewable", FALSE), Said("operator", "keep_gating", FALSE),
   Said("operator", "accepted_unreviewable", TRUE),
   Said("development", "accepted_unreviewable", FALSE)}

MCMaxPasses == [d \in Denominators |-> IF d = "questions" THEN 2 ELSE 4]
=============================================================================
