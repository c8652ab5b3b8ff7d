------------------------------- MODULE Sanction ------------------------------
(***************************************************************************)
(* What the round gate promises about one review's findings, with every    *)
(* message, pass and gate state left out: a finding is raised once, closed *)
(* once, and closed as fixed or as waived only under a sanction that says  *)
(* so.  A sanction comes from the operator's ruling or from the rule that  *)
(* stands in for it, and a ruling taken back leaves no sanction behind.    *)
(*                                                                         *)
(* When the operator stops the review every open finding closes at once,   *)
(* with the label its standing sanction has earned and no stronger one.    *)
(***************************************************************************)
CONSTANT Findings

VARIABLES
    status,   \* unraised, open, or the outcome that closed the finding
    sanction  \* what may be done about it, and by whose word

ledger == <<status, sanction>>

Open == {f \in Findings : status[f] = "open"}

Earned(f) ==
    CASE sanction[f] \in {"rule_fix", "operator_fix"}     -> "fixed"
      [] sanction[f] \in {"rule_waive", "operator_waive"} -> "waived"
      [] OTHER                                            -> "none"

Init ==
    /\ status = [f \in Findings |-> "unraised"]
    /\ sanction = [f \in Findings |-> "none"]

\* A pass raises findings, none of them known; it finds no other one open.
Raise(S) ==
    /\ Open = {}
    /\ \A f \in S : status[f] = "unraised"
    /\ status' = [f \in Findings |-> IF f \in S THEN "open" ELSE status[f]]
    /\ sanction' = [f \in Findings |-> IF f \in S THEN "none" ELSE sanction[f]]

\* Development answers every open finding; the rule sanctions what it may.
Answer(grant) ==
    /\ sanction' = [f \in Findings |-> IF f \in Open THEN grant[f] ELSE sanction[f]]
    /\ UNCHANGED status

\* The operator rules on an open finding, or takes the ruling back.
Rule(f, ruling) ==
    /\ f \in Open
    /\ sanction' = [sanction EXCEPT ![f] = ruling]
    /\ UNCHANGED status

\* The sanctioned work is recorded.
Close(f) ==
    /\ f \in Open
    /\ Earned(f) # "none"
    /\ status' = [status EXCEPT ![f] = Earned(f)]
    /\ UNCHANGED sanction

\* The operator stops the review, with the sanctioned work done or without.
Final(done) ==
    /\ status' = [f \in Findings |->
         CASE f \notin Open                       -> status[f]
           [] f \in Open /\ done /\ Earned(f) = "fixed"  -> "fixed_unverified"
           [] f \in Open /\ done /\ Earned(f) = "waived" -> "waived"
           [] OTHER                               -> "operator_risk_accepted"]
    /\ UNCHANGED sanction

Next ==
    \/ \E S \in SUBSET Findings : Raise(S)
    \/ \E grant \in [Findings -> {"none", "rule_fix", "rule_waive"}] : Answer(grant)
    \/ \E f \in Findings, ruling \in {"none", "operator_fix", "operator_waive"} :
          Rule(f, ruling)
    \/ \E f \in Findings : Close(f)
    \/ \E done \in BOOLEAN : Final(done)

Spec == Init /\ [][Next]_ledger
=============================================================================
