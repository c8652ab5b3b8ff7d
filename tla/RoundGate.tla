------------------------------ MODULE RoundGate ------------------------------
(***************************************************************************)
(* The round gate of a review (review/round_gate.py): where the decision   *)
(* sequence of one critic round stands, which message kinds the server     *)
(* accepts there, and what the operator's word does to each finding.       *)
(*                                                                         *)
(* The code re-folds the whole message log on every post (`compute`) and   *)
(* asks the result whether the next message is legal (`refusal`).  Here    *)
(* the fold is incremental: the variables are the fields of GateState,     *)
(* Round and Entry after the messages posted so far, and each action is    *)
(* the post of one message -- the legality check, the payload validator    *)
(* and the fold step of that kind together, as append_message runs them    *)
(* under the review's row lock.                                            *)
(*                                                                         *)
(* The critic is the watcher's pass (review/watcher.py): it is planned     *)
(* only where `plan` lets it, re-reads the channel once before it posts,   *)
(* and may die at any point.                                               *)
(***************************************************************************)
EXTENDS Naturals, FiniteSets

CONSTANTS
    Findings,    \* the ids a critic may give its findings
    Others,      \* keys of operator items that are no finding's: a blast-map
                 \* element, a question, a defect outside the review
    MaxVersion,  \* bound: artifact messages posted to the channel
    Modes,       \* the gate modes of this instance, a subset of AllModes
    Classes,     \* what a finding is to the judgment rule, of AllClasses
    Proposals,   \* what development may propose for one, of AllProposals
    Directives   \* what the operator may answer, of AllDirectives

AllModes == {"auto", "all_wait"}
AllClasses == {"forced", "judgment", "plain"}
AllProposals == {"fix", "waive", "waive_boundary", "escalate_fix", "escalate_waive"}
AllDirectives == {"accept", "amend_fix", "amend_waive", "detail", "class_analysis"}

Items == Findings \cup Others

ASSUME BoundsAssumption ==
    /\ MaxVersion \in Nat
    /\ Modes \subseteq AllModes
    /\ Classes \subseteq AllClasses
    /\ Proposals \subseteq AllProposals
    /\ Directives \subseteq AllDirectives

GateStates == {"idle", "pass_running", "proposals_owed", "parked", "unparked",
               "round_closing", "operator_finalizing", "terminal"}
RoundStates == {"none", "proposals_owed", "parked", "unparked", "round_closing"}
Outcomes == {"fixed", "waived", "fixed_unverified", "operator_risk_accepted"}
PassPhases == {"none", "reading", "posting"}

Entry == [class : AllClasses,
          proposed : AllProposals \cup {"none"},
          settled : {"none", "fix", "waive"},
          report : {"none", "detail", "class_analysis"},
          needsRuling : BOOLEAN,
          disposed : BOOLEAN]

NoEntry == [class |-> "plain", proposed |-> "none", settled |-> "none",
            report |-> "none", needsRuling |-> FALSE, disposed |-> FALSE]

VARIABLES
    mode,        \* the gate mode, bound in the initialization window
    gate,        \* GateState.state as folded, before the pass_running escape
    roundState,  \* Round.state of the current round, "none" outside one
    members,     \* the findings the current round is about
    entry,       \* their entries; NoEntry for every other finding
    latest,      \* how many artifact messages the channel carries
    summaries,   \* which of them are post-review intent summaries
    raised,      \* findings raised against an ordinary version
    audit,       \* findings raised against a summary (audit_findings)
    items,       \* keys of the escalations and questions still unanswered
    keyless,     \* an unanswered needs_human or question without an id
    outcome,     \* the disposition that closed each finding, if any
    passPhase,   \* the watcher's pass in flight
    passVersion, \* the artifact it is anchored to
    sanction     \* history: who licensed which work on each finding

gateVars == <<mode, gate, roundState, members, entry, latest, summaries, raised,
              audit, outcome, sanction>>
itemVars == <<items, keyless>>
passVars == <<passPhase, passVersion>>
vars == <<mode, gate, roundState, members, entry, latest, summaries, raised,
          audit, items, keyless, outcome, passPhase, passVersion, sanction>>

------------------------------------------------------------------------------
(* The gate's own rules. *)

\* The legality table: the one place that says where a kind may be posted.
LegalKinds(g) ==
    CASE g = "idle"                -> {"artifact", "disposition"}
      [] g = "pass_running"        -> {}
      [] g = "proposals_owed"      -> {"proposals"}
      [] g = "parked"              -> {"gate_directive", "report", "operator_finalize"}
      [] g = "unparked"            -> {"artifact", "gate_directive", "operator_finalize"}
      [] g = "round_closing"       -> {"operator_finalize", "disposition"}
      [] g = "operator_finalizing" -> {"artifact"}
      [] OTHER                     -> {"artifact", "disposition"}

\* open_operator_items: something still waits on the operator.
OpenItems == items # {} \/ keyless

\* The state compute() reports: a review parked on a human has no pass running.
GateNow == IF gate = "pass_running" /\ OpenItems THEN "idle" ELSE gate

\* Entry.judgment: does this entry wait for the operator's word?
Judgment(e) ==
    \/ mode = "all_wait"
    \/ e.class = "forced"
    \/ /\ e.proposed # "waive_boundary"
       /\ \/ e.class = "judgment"
          \/ e.proposed \in {"waive", "escalate_fix", "escalate_waive"}

\* _sanctioned_outcome: what an accepted proposal settles the entry as.
SanctionedOutcome(e) ==
    CASE e.proposed \in {"fix", "escalate_fix"} -> "fix"
      [] e.proposed \in {"waive", "waive_boundary", "escalate_waive"} -> "waive"
      [] OTHER -> "none"

\* Mutant: a report request does not reopen the entry's ruling.
WaitingByClassOnly(e) == Judgment(e) /\ e.settled = "none"

\* Round.waiting, Round.outstanding_reports and Round.should_park.
Waiting(e) == (Judgment(e) \/ e.needsRuling) /\ e.settled = "none"
ShouldPark(S, es) == \E f \in S : Waiting(es[f]) \/ es[f].report # "none"
Parking(S, es) == IF ShouldPark(S, es) THEN "parked" ELSE "unparked"

\* Mutant: only sanctioned fixes owe a disposition.
OwedDispositionsOfFixes(S, es) == {f \in S : ~es[f].disposed /\ es[f].settled = "fix"}

\* Round.owed_dispositions.
OwedDispositions(S, es) == {f \in S : ~es[f].disposed}

\* _apply_directive: the operator's answer on one entry.
ApplyDirective(e, d) ==
    CASE d = "accept"      -> [e EXCEPT !.settled = SanctionedOutcome(e), !.report = "none"]
      [] d = "amend_fix"   -> [e EXCEPT !.settled = "fix", !.report = "none"]
      [] d = "amend_waive" -> [e EXCEPT !.settled = "waive", !.report = "none"]
      [] OTHER             -> [e EXCEPT !.settled = "none", !.report = d,
                                        !.needsRuling = TRUE]

\* The disposition the ROUND_CLOSING refusal holds a settled entry to.
Expected(e) == CASE e.settled = "fix" -> "fixed" [] e.settled = "waive" -> "waived"
                 [] OTHER -> "none"

\* compute, the artifact branch: the state the gate takes and the round's.
AfterArtifact(s) ==
    CASE gate = "operator_finalizing" -> <<"terminal", "none">>
      [] gate # "operator_finalizing" /\ roundState = "unparked"
           -> <<"round_closing", "round_closing">>
      [] gate # "operator_finalizing" /\ roundState = "none" /\ ~s
           -> <<"pass_running", "none">>
      [] OTHER -> <<gate, roundState>>

\* _close_ledger_on_final: the label the server closes one open finding with.
FinalLabel(f, m) ==
    CASE m = "after_fixes" /\ entry[f].settled = "fix"   -> "fixed_unverified"
      [] m = "after_fixes" /\ entry[f].settled = "waive" -> "waived"
      [] OTHER -> "operator_risk_accepted"

CloseLedger(m) ==
    [f \in Findings |-> IF f \in raised \cup audit /\ outcome[f] = "none"
                        THEN FinalLabel(f, m) ELSE outcome[f]]

NoRound == /\ roundState' = "none"
           /\ members' = {}
           /\ entry' = [f \in Findings |-> NoEntry]

------------------------------------------------------------------------------
Init ==
    /\ mode \in Modes
    /\ gate = "idle"
    /\ roundState = "none"
    /\ members = {}
    /\ entry = [f \in Findings |-> NoEntry]
    /\ latest = 0
    /\ summaries = {}
    /\ raised = {}
    /\ audit = {}
    /\ items = {}
    /\ keyless = FALSE
    /\ outcome = [f \in Findings |-> "none"]
    /\ passPhase = "none"
    /\ passVersion = 0
    /\ sanction = [f \in Findings |-> "none"]

\* Development posts a version (s = FALSE) or the intent summary (s = TRUE).
\* The summary names the version it sums up, so one must exist; a review the
\* operator finalized takes nothing but the summary.  The version that arrives
\* while the operator's after-fixes final is open closes the ledger.
PostArtifact(s) ==
    /\ "artifact" \in LegalKinds(GateNow)
    /\ gate = "terminal" => s
    /\ s => (1 .. latest) \ summaries # {}
    /\ latest < MaxVersion
    /\ latest' = latest + 1
    /\ summaries' = IF s THEN summaries \cup {latest + 1} ELSE summaries
    /\ gate' = AfterArtifact(s)[1]
    /\ IF gate = "operator_finalizing"
         THEN NoRound /\ outcome' = CloseLedger("after_fixes")
         ELSE /\ roundState' = AfterArtifact(s)[2]
              /\ UNCHANGED <<members, entry, outcome>>
    /\ UNCHANGED <<mode, raised, audit, itemVars, passVars, sanction>>

\* Development answers the round's findings, exactly one entry for each; what
\* is not the operator's to judge is settled by its own proposal at once.
Filed(e, p) ==
    LET q == [e EXCEPT !.proposed = p]
    IN IF Judgment(q) THEN q ELSE [q EXCEPT !.settled = SanctionedOutcome(q)]

Proposed(ps) ==
    [f \in Findings |-> IF f \in members THEN Filed(entry[f], ps[f]) ELSE entry[f]]

\* What the rule alone licenses: a plain fix, and a waive under a boundary the
\* operator recorded earlier -- never of a contested finding, and nothing at
\* all once the operator asked to rule on everything.
RuleSanction(c, p) ==
    CASE mode = "auto" /\ c = "plain" /\ p = "fix"             -> "rule_fix"
      [] mode = "auto" /\ c # "forced" /\ p = "waive_boundary" -> "rule_waive"
      [] OTHER                                                  -> "none"

PostProposals(ps) ==
    /\ "proposals" \in LegalKinds(GateNow)
    /\ entry' = Proposed(ps)
    /\ roundState' = Parking(members, entry')
    /\ gate' = roundState'
    /\ sanction' = [f \in Findings |-> IF f \in members
                                       THEN RuleSanction(entry[f].class, ps[f])
                                       ELSE sanction[f]]
    /\ UNCHANGED <<mode, members, latest, summaries, raised, audit, outcome,
                   itemVars, passVars>>

\* The operator rules on one entry, or asks for a report about it.
Ruling(e, d) ==
    CASE d = "amend_fix"   -> "operator_fix"
      [] d = "amend_waive" -> "operator_waive"
      [] d = "accept"      -> IF e.proposed \in {"fix", "escalate_fix"}
                              THEN "operator_fix" ELSE "operator_waive"
      [] OTHER             -> "none"

PostDirective(f, d) ==
    /\ "gate_directive" \in LegalKinds(GateNow)
    /\ f \in members
    /\ entry' = [entry EXCEPT ![f] = ApplyDirective(entry[f], d)]
    /\ roundState' = Parking(members, entry')
    /\ gate' = roundState'
    /\ sanction' = [sanction EXCEPT ![f] = Ruling(entry[f], d)]
    /\ UNCHANGED <<mode, members, latest, summaries, raised, audit, outcome,
                   itemVars, passVars>>

\* Development delivers the report a directive on f asked for.
PostReport(f) ==
    /\ "report" \in LegalKinds(GateNow)
    /\ f \in members
    /\ entry[f].report # "none"
    /\ entry' = [entry EXCEPT ![f].report = "none"]
    /\ roundState' = Parking(members, entry')
    /\ gate' = roundState'
    /\ UNCHANGED <<mode, members, latest, summaries, raised, audit, outcome,
                   itemVars, passVars, sanction>>

\* Mutant: a disposition is not held to the sanction it closes.
DispositionRefusedUnbound(f, o) == gate = "terminal" /\ f \notin audit

\* refusal on a disposition, beyond the table: after the final only the audit's
\* own findings, while a round closes only the settled outcome.
DispositionRefused(f, o) ==
    \/ gate = "terminal" /\ f \notin audit
    \/ /\ GateNow = "round_closing" /\ f \in members
       /\ Expected(entry[f]) # "none" /\ o # Expected(entry[f])

\* Development disposes of a finding.  The first terminal disposition closes
\* it; the round closes with its last owed one.
PostDisposition(f, o) ==
    /\ "disposition" \in LegalKinds(GateNow)
    /\ f \in raised \cup audit
    /\ ~DispositionRefused(f, o)
    /\ outcome' = IF outcome[f] = "none" THEN [outcome EXCEPT ![f] = o] ELSE outcome
    /\ LET es == IF f \in members THEN [entry EXCEPT ![f].disposed = TRUE] ELSE entry
       IN IF roundState = "round_closing" /\ OwedDispositions(members, es) = {}
            THEN NoRound /\ gate' = "pass_running"
            ELSE entry' = es /\ UNCHANGED <<gate, roundState, members>>
    /\ UNCHANGED <<mode, latest, summaries, raised, audit, itemVars, passVars, sanction>>

\* The operator stops the review: at once, or after the settled fixes.
PostFinalize(m) ==
    /\ "operator_finalize" \in LegalKinds(GateNow)
    /\ IF m = "after_fixes" /\ gate \in {"parked", "unparked"}
         THEN /\ gate' = "operator_finalizing"
              /\ UNCHANGED <<roundState, members, entry, outcome>>
         ELSE /\ gate' = "terminal"
              /\ NoRound
              /\ outcome' = CloseLedger(m)
    /\ UNCHANGED <<mode, latest, summaries, raised, audit, itemVars, passVars, sanction>>

\* Anyone escalates, on any key, a finding not raised yet included; the critic
\* or the watcher asks for a human.
Escalate(i) ==
    /\ items' = items \cup {i}
    /\ UNCHANGED <<gateVars, keyless, passVars>>

AskHuman ==
    /\ keyless' = TRUE
    /\ UNCHANGED <<gateVars, items, passVars>>

\* A relayed operator answer under key i; any answer clears the keyless waits.
Answer(i) ==
    /\ items' = items \ {i}
    /\ keyless' = FALSE
    /\ UNCHANGED <<gateVars, passVars>>

------------------------------------------------------------------------------
(* The critic's pass. *)

\* Mutant: the planner looks at the operator's items and not at the gate.
PassAllowedIgnoringGate == ~OpenItems

\* Mutant: the exception for the summary is scoped to the final state alone.
PassAllowedWhenTerminal ==
    /\ GateNow \in {"pass_running", "idle", "terminal"}
    /\ ~OpenItems

\* watcher.plan: a pass is due for the latest version only while the gate is
\* between rounds, or the version is the summary of a finalized review, and
\* nothing waits on the operator.
PassAllowed ==
    /\ \/ GateNow \in {"pass_running", "idle"}
       \/ GateNow = "terminal" /\ latest \in summaries
    /\ ~OpenItems

PlanPass ==
    /\ passPhase = "none"
    /\ latest > 0
    /\ PassAllowed
    /\ passPhase' = "reading"
    /\ passVersion' = latest
    /\ UNCHANGED <<gateVars, itemVars>>

NoPass == passPhase' = "none" /\ passVersion' = 0

\* run_pass re-reads the channel once, after the model answered.
ChannelMovedOn == latest > passVersion \/ OpenItems

RecheckChannel ==
    /\ passPhase = "reading"
    /\ IF ChannelMovedOn THEN NoPass
                         ELSE passPhase' = "posting" /\ UNCHANGED passVersion
    /\ UNCHANGED <<gateVars, itemVars>>

\* Mutant: only development's own outcomes count as closed.
DisposedByFix == {f \in Findings : outcome[f] = "fixed"}

\* _disposed_finding_ids: what the ledger holds closed.
Disposed == {f \in Findings : outcome[f] # "none"}

\* The pass posts its findings, and here it ends: nothing it posts after them
\* moves the gate, except what Escalate and AskHuman say.  Items already closed
\* are dropped from the message, and a message emptied that way is refused.
\* What they reopen is settled already: the server escalates each as a contested
\* fork with the same append.
OpenRound(S, cs) ==
    /\ members' = S
    /\ entry' = [f \in Findings |->
                   IF f \in S
                   THEN [NoEntry EXCEPT !.class =
                           IF f \in items THEN "forced" ELSE cs[f]]
                   ELSE NoEntry]
    /\ roundState' = "proposals_owed"
    /\ gate' = "proposals_owed"
    /\ raised' = raised \cup S
    /\ sanction' = [f \in Findings |-> IF f \in S THEN "none" ELSE sanction[f]]

PostFindings(S, cs, reopened) ==
    /\ passPhase = "posting"
    /\ S \cap Disposed = {}
    /\ reopened \subseteq Disposed
    /\ S = {} => reopened = {}
    /\ items' = items \cup reopened
    /\ NoPass
    /\ \/ /\ passVersion \in summaries
          /\ audit' = audit \cup S
          /\ UNCHANGED <<gate, roundState, members, entry, raised, sanction>>
       \/ /\ passVersion \notin summaries /\ S = {}
          /\ gate' = IF roundState = "none" THEN "idle" ELSE gate
          /\ UNCHANGED <<roundState, members, entry, raised, audit, sanction>>
       \/ /\ passVersion \notin summaries /\ S # {}
          /\ OpenRound(S, cs)
          /\ UNCHANGED audit
    /\ UNCHANGED <<mode, latest, summaries, outcome, keyless>>

\* The watcher dies mid-pass, or the pass ends without findings.
EndPass ==
    /\ passPhase # "none"
    /\ NoPass
    /\ UNCHANGED <<gateVars, itemVars>>

------------------------------------------------------------------------------
Next ==
    \/ \E s \in BOOLEAN : PostArtifact(s)
    \/ \E ps \in [Findings -> Proposals] : PostProposals(ps)
    \/ \E f \in Findings, d \in Directives : PostDirective(f, d)
    \/ \E f \in Findings : PostReport(f)
    \/ \E f \in Findings, o \in {"fixed", "waived"} : PostDisposition(f, o)
    \/ \E m \in {"now", "after_fixes"} : PostFinalize(m)
    \/ \E i \in Items : Escalate(i)
    \/ AskHuman
    \/ \E i \in Items : Answer(i)
    \/ PlanPass
    \/ RecheckChannel
    \/ \E S \in SUBSET Findings, cs \in [Findings -> Classes], R \in SUBSET Findings :
          PostFindings(S, cs, R)
    \/ EndPass

Spec == Init /\ [][Next]_vars

------------------------------------------------------------------------------
Sanctions == {"none", "rule_fix", "rule_waive", "operator_fix", "operator_waive"}
FixSanctions == {"rule_fix", "operator_fix"}
WaiveSanctions == {"rule_waive", "operator_waive"}

TypeOK ==
    /\ mode \in Modes
    /\ gate \in GateStates
    /\ roundState \in RoundStates
    /\ members \subseteq Findings
    /\ entry \in [Findings -> Entry]
    /\ latest \in 0 .. MaxVersion
    /\ summaries \subseteq 1 .. latest
    /\ raised \subseteq Findings
    /\ audit \subseteq Findings
    /\ items \subseteq Items
    /\ keyless \in BOOLEAN
    /\ outcome \in [Findings -> Outcomes \cup {"none"}]
    /\ passPhase \in PassPhases
    /\ passVersion \in 0 .. latest
    /\ sanction \in [Findings -> Sanctions]

\* The barrier of a round (Round.owed_dispositions): no pass over the next
\* version and no end of the review while a finding raised against an ordinary
\* version is open.  Two folds of the log have to agree for it: the gate counts
\* the round's own dispositions, the server counts the ledger's.
LedgerClosedBetweenRounds ==
    gate \in {"idle", "pass_running", "terminal"} =>
        \A f \in raised : outcome[f] # "none"

\* Work is never recorded without its licence: whatever development posts and
\* whichever way the operator stops the review, a finding reads as fixed or as
\* waived only where the operator, or the rule standing in for the operator,
\* said exactly that last (validate_gate_directive, refusal, F-2 and F-3).
OutcomeIsSanctioned ==
    \A f \in raised :
        /\ outcome[f] \in {"fixed", "fixed_unverified"} => sanction[f] \in FixSanctions
        /\ outcome[f] = "waived" => sanction[f] \in WaiveSanctions

\* A disposition the round still waits for can still be posted: the ledger has
\* not closed the finding some other way, and the sanction names an outcome.
OwedCanBePaid ==
    /\ \A f \in members : entry[f].disposed <=> outcome[f] # "none"
    /\ roundState = "round_closing" =>
         \E f \in OwedDispositions(members, entry) : Expected(entry[f]) # "none"

\* One round at a time: the findings of a pass never replace a round that is
\* still open.  The server posts findings in every gate state; only the order
\* in which the watcher plans, re-reads and posts keeps this.
RoundIsNeverReplaced ==
    [][members # {} => members' \in {members, {}}]_vars

\* The operator's final is final: nothing posted later, a late pass over an
\* ordinary version included, re-opens the gate.
FinalIsFinal == [][gate = "terminal" => gate' = "terminal"]_vars

\* summary_artifact_seqs' promise, "a summary artifact is never round traffic":
\* posting one leaves the round where it stands.
\* Refuted, see the README.
SummaryIsNotRoundTraffic ==
    [][summaries' # summaries => UNCHANGED <<roundState, members>>]_vars

------------------------------------------------------------------------------
(* What the gate promises, finding by finding: see Sanction. *)
Ledger == INSTANCE Sanction WITH
    status <- [f \in Findings |-> CASE f \notin raised -> "unraised"
                                     [] f \in raised /\ outcome[f] = "none" -> "open"
                                     [] OTHER -> outcome[f]]
LedgerSpec == Ledger!Spec
=============================================================================
