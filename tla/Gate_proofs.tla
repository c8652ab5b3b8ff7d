----------------------------- MODULE Gate_proofs -----------------------------
(***************************************************************************)
(* Theorems about the two machines of the gate (review/round_gate.py): the *)
(* decision sequence of a round, RoundGate, and what follows a convergence,*)
(* Cycle.  No step of one is a step of the other and no fact about one is  *)
(* used of the other: the machines share the module, not their variables.  *)
(***************************************************************************)
EXTENDS RoundGate, Cycle, SequenceTheorems, WellFoundedInduction, TLAPS

(***************************************************************************)
(* RoundGate, for any set of findings, any number of versions and any      *)
(* choice of modes, classes, proposals and directives.                     *)
(***************************************************************************)

------------------------------------------------------------------------------
(* The inductive invariant. *)

\* The gate reads the round's state off the round, and there is one exactly
\* while it has findings.
GateFollowsRound ==
    /\ gate \in {"idle", "pass_running", "terminal"} => roundState = "none"
    /\ gate \in {"proposals_owed", "parked", "unparked", "round_closing"} =>
         roundState = gate
    /\ gate = "operator_finalizing" => roundState \in {"parked", "unparked"}
    /\ roundState = "none" <=> members = {}
    /\ members \subseteq raised

\* A pass in flight was planned between rounds, or reads a finalized review's
\* summary; nothing legal there starts a round under it.
PassIsBetweenRounds ==
    passPhase # "none" =>
        \/ gate \in {"idle", "pass_running"}
        \/ gate = "terminal" /\ passVersion \in summaries

\* Of the findings raised against ordinary versions only the current round's
\* may be open, and the round knows which.
OnlyMembersAreOpen ==
    /\ \A f \in raised \ members : outcome[f] # "none"
    /\ \A f \in members : entry[f].disposed <=> outcome[f] # "none"

\* What stands in an entry at each stage of its round.
EntryFitsStage ==
    \A f \in members :
        /\ roundState = "proposals_owed" => entry[f].settled = "none" /\ sanction[f] = "none"
        /\ roundState # "proposals_owed" => entry[f].proposed # "none"
        /\ roundState # "proposals_owed" /\ entry[f].settled = "none" => Waiting(entry[f])
        /\ roundState \in {"unparked", "round_closing"} => entry[f].settled # "none"
        /\ roundState # "round_closing" => ~entry[f].disposed

\* The settled outcome of an entry is what its sanction says.
SettledIsSanction ==
    \A f \in members :
        /\ entry[f].settled = "fix" => sanction[f] \in FixSanctions
        /\ entry[f].settled = "waive" => sanction[f] \in WaiveSanctions
        /\ entry[f].settled = "none" => sanction[f] = "none"

SomeoneOwes ==
    roundState = "round_closing" => \E f \in members : ~entry[f].disposed

IInv ==
    /\ TypeOK
    /\ GateFollowsRound
    /\ PassIsBetweenRounds
    /\ OnlyMembersAreOpen
    /\ EntryFitsStage
    /\ SettledIsSanction
    /\ SomeoneOwes
    /\ OutcomeIsSanctioned

------------------------------------------------------------------------------
(* Types. *)

\* An operator's answer leaves an entry an entry.
LEMMA ApplyDirectiveType ==
    ASSUME NEW e \in Entry, NEW d \in AllDirectives
    PROVE  ApplyDirective(e, d) \in Entry
<1>1. SanctionedOutcome(e) \in {"none", "fix", "waive"}
  BY DEF SanctionedOutcome
<1>2. CASE d = "accept"
  BY <1>1, <1>2 DEF ApplyDirective, Entry
<1>3. CASE d \in {"amend_fix", "amend_waive"}
  BY <1>3 DEF ApplyDirective, Entry
<1>4. CASE d \in {"detail", "class_analysis"}
  BY <1>4 DEF ApplyDirective, Entry
<1> QED BY <1>2, <1>3, <1>4 DEF AllDirectives

\* So does development's own answer.
LEMMA ProposedType ==
    ASSUME NEW e \in Entry, NEW p \in AllProposals
    PROVE  Filed(e, p) \in Entry
<1>1. [e EXCEPT !.proposed = p] \in Entry
  BY DEF Entry
<1>2. SanctionedOutcome([e EXCEPT !.proposed = p]) \in {"none", "fix", "waive"}
  BY DEF SanctionedOutcome
<1> QED BY <1>1, <1>2 DEF Filed, Entry

\* A finding outside the round holds the empty entry.
LEMMA NoEntryType == NoEntry \in Entry
  BY DEF NoEntry, Entry, AllClasses

\* The initial state is well typed.
LEMMA TypeInit == Init => TypeOK
<1> SUFFICES ASSUME Init PROVE TypeOK
  OBVIOUS
<1>1. 0 \in 0 .. MaxVersion /\ 0 \in 0 .. latest
  BY BoundsAssumption, SMT DEF Init
<1> QED BY <1>1, NoEntryType
      DEF Init, TypeOK, GateStates, RoundStates, PassPhases, Sanctions

\* Every post and every step of the pass keeps the types.
LEMMA TypeStep == TypeOK /\ [Next]_vars => TypeOK'
<1> SUFFICES ASSUME TypeOK, [Next]_vars PROVE TypeOK'
  OBVIOUS
<1> USE BoundsAssumption DEF TypeOK, gateVars, itemVars, passVars, NoRound, NoPass
<1>1. ASSUME NEW s \in BOOLEAN, PostArtifact(s) PROVE TypeOK'
  <2>1. gate' \in GateStates /\ roundState' \in RoundStates
    BY <1>1, NoEntryType DEF PostArtifact, AfterArtifact, GateStates, RoundStates
  <2>2. outcome' \in [Findings -> Outcomes \cup {"none"}]
    BY <1>1 DEF PostArtifact, CloseLedger, FinalLabel, Outcomes
  <2>3. entry' \in [Findings -> Entry] /\ members' \subseteq Findings
    BY <1>1, NoEntryType DEF PostArtifact
  <2>4. latest' \in 0 .. MaxVersion /\ summaries' \subseteq 1 .. latest'
        /\ passVersion' \in 0 .. latest'
    BY <1>1, SMT DEF PostArtifact
  <2> QED BY <1>1, <2>1, <2>2, <2>3, <2>4 DEF PostArtifact
<1>2. ASSUME NEW ps \in [Findings -> Proposals], PostProposals(ps) PROVE TypeOK'
  <2>1. entry' \in [Findings -> Entry]
    BY <1>2, ProposedType DEF PostProposals, Proposed
  <2>2. sanction' \in [Findings -> Sanctions]
    BY <1>2 DEF PostProposals, RuleSanction, Sanctions
  <2> QED BY <1>2, <2>1, <2>2 DEF PostProposals, Parking, GateStates, RoundStates
<1>3. ASSUME NEW f \in Findings, NEW d \in Directives, PostDirective(f, d) PROVE TypeOK'
  <2>1. entry' \in [Findings -> Entry]
    BY <1>3, ApplyDirectiveType DEF PostDirective
  <2>2. sanction' \in [Findings -> Sanctions]
    BY <1>3 DEF PostDirective, Ruling, Sanctions
  <2> QED BY <1>3, <2>1, <2>2 DEF PostDirective, Parking, GateStates, RoundStates
<1>4. ASSUME NEW f \in Findings, PostReport(f) PROVE TypeOK'
  <2>1. entry' \in [Findings -> Entry]
    BY <1>4 DEF PostReport, Entry
  <2> QED BY <1>4, <2>1 DEF PostReport, Parking, GateStates, RoundStates
<1>5. ASSUME NEW f \in Findings, NEW o \in {"fixed", "waived"}, PostDisposition(f, o)
      PROVE TypeOK'
  <2>1. outcome' \in [Findings -> Outcomes \cup {"none"}]
    BY <1>5 DEF PostDisposition, Outcomes
  <2>2. [entry EXCEPT ![f].disposed = TRUE] \in [Findings -> Entry]
    BY DEF Entry
  <2>3. /\ entry' \in [Findings -> Entry] /\ members' \subseteq Findings
        /\ gate' \in GateStates /\ roundState' \in RoundStates
    BY <1>5, <2>2, NoEntryType DEF PostDisposition, GateStates, RoundStates
  <2> QED BY <1>5, <2>1, <2>3 DEF PostDisposition
<1>6. ASSUME NEW m \in {"now", "after_fixes"}, PostFinalize(m) PROVE TypeOK'
  <2>1. outcome' \in [Findings -> Outcomes \cup {"none"}]
    BY <1>6 DEF PostFinalize, CloseLedger, FinalLabel, Outcomes
  <2>2. /\ entry' \in [Findings -> Entry] /\ members' \subseteq Findings
        /\ gate' \in GateStates /\ roundState' \in RoundStates
    BY <1>6, NoEntryType DEF PostFinalize, GateStates, RoundStates
  <2> QED BY <1>6, <2>1, <2>2 DEF PostFinalize
<1>7. ASSUME NEW i \in Items, Escalate(i) PROVE TypeOK'
  BY <1>7 DEF Escalate
<1>8. ASSUME AskHuman PROVE TypeOK'
  BY <1>8 DEF AskHuman
<1>9. ASSUME NEW i \in Items, Answer(i) PROVE TypeOK'
  BY <1>9 DEF Answer
<1>10. ASSUME PlanPass PROVE TypeOK'
  BY <1>10 DEF PlanPass, PassPhases
<1>11. ASSUME RecheckChannel PROVE TypeOK'
  BY <1>11 DEF RecheckChannel, PassPhases
<1>12. ASSUME NEW S \in SUBSET Findings, NEW cs \in [Findings -> Classes],
              NEW R \in SUBSET Findings, PostFindings(S, cs, R)
       PROVE TypeOK'
  <2>1. \A f \in Findings : IF f \in items THEN TRUE ELSE cs[f] \in AllClasses
    OBVIOUS
  <2>4. items' \subseteq Items
    BY <1>12 DEF PostFindings, Items
  <2>2. CASE OpenRound(S, cs)
    <3>1. entry' \in [Findings -> Entry]
      BY <2>1, <2>2, NoEntryType DEF OpenRound, Entry, AllClasses
    <3>2. sanction' \in [Findings -> Sanctions]
      BY <2>2 DEF OpenRound, Sanctions
    <3> QED BY <1>12, <2>2, <2>4, <3>1, <3>2
          DEF PostFindings, OpenRound, GateStates, RoundStates, PassPhases
  <2>3. CASE ~OpenRound(S, cs)
    BY <1>12, <2>3, <2>4 DEF PostFindings, GateStates, RoundStates, PassPhases
  <2> QED BY <2>2, <2>3
<1>13. ASSUME EndPass PROVE TypeOK'
  BY <1>13 DEF EndPass, PassPhases
<1>14. ASSUME UNCHANGED vars PROVE TypeOK'
  BY <1>14 DEF vars
<1> QED BY <1>1, <1>2, <1>3, <1>4, <1>5, <1>6, <1>7, <1>8, <1>9, <1>10, <1>11,
           <1>12, <1>13, <1>14 DEF Next

\* Every variable keeps its type.
THEOREM TypeCorrect == Spec => []TypeOK
BY TypeInit, TypeStep, PTL DEF Spec

------------------------------------------------------------------------------
(* The invariant. *)

\* Round.should_park decides between the two states, and an unparked round has
\* nothing left to wait for.
LEMMA ParkingSettles ==
    ASSUME NEW S, NEW es
    PROVE  /\ Parking(S, es) \in {"parked", "unparked"}
           /\ Parking(S, es) = "unparked" =>
                \A f \in S : ~Waiting(es[f]) /\ es[f].report = "none"
  BY DEF Parking, ShouldPark

\* An answer that is not a report request settles the entry as it rules.
LEMMA RulingSettles ==
    ASSUME NEW e \in Entry, NEW d \in AllDirectives, e.proposed # "none"
    PROVE  LET a == ApplyDirective(e, d)
           IN /\ a.settled = "fix" => Ruling(e, d) \in FixSanctions
              /\ a.settled = "waive" => Ruling(e, d) \in WaiveSanctions
              /\ a.settled = "none" => Ruling(e, d) = "none" /\ a.needsRuling
              /\ a.proposed = e.proposed /\ a.disposed = e.disposed
<1>1. e.proposed \in AllProposals
  BY DEF Entry
<1>2. CASE d = "accept"
  <2>1. CASE e.proposed \in {"fix", "escalate_fix"}
    BY <1>2, <2>1 DEF ApplyDirective, Ruling, SanctionedOutcome, Entry, FixSanctions
  <2>2. CASE e.proposed \in {"waive", "waive_boundary", "escalate_waive"}
    BY <1>2, <2>2 DEF ApplyDirective, Ruling, SanctionedOutcome, Entry, WaiveSanctions
  <2> QED BY <1>1, <2>1, <2>2 DEF AllProposals
<1>3. CASE d \in {"amend_fix", "amend_waive"}
  BY <1>3 DEF ApplyDirective, Ruling, Entry, FixSanctions, WaiveSanctions
<1>4. CASE d \in {"detail", "class_analysis"}
  BY <1>4 DEF ApplyDirective, Ruling, Entry
<1> QED BY <1>2, <1>3, <1>4 DEF AllDirectives

\* What is settled by its own proposal is what the rule sanctions.
LEMMA RuleSettles ==
    ASSUME NEW e \in Entry, e.settled = "none", NEW p \in AllProposals, mode \in AllModes
    PROVE  /\ Filed(e, p).proposed = p /\ Filed(e, p).disposed = e.disposed
           /\ Filed(e, p).settled = "fix" => RuleSanction(e.class, p) \in FixSanctions
           /\ Filed(e, p).settled = "waive" => RuleSanction(e.class, p) \in WaiveSanctions
           /\ Filed(e, p).settled = "none" =>
                RuleSanction(e.class, p) = "none" /\ Waiting(Filed(e, p))
<1> DEFINE q == [e EXCEPT !.proposed = p]
<1>1. q.proposed = p /\ q.class = e.class /\ q.settled = "none" /\ q.disposed = e.disposed
  BY DEF Entry
<1>2. CASE Judgment(q)
  BY <1>1, <1>2 DEF Filed, Judgment, RuleSanction, Waiting
<1>3. CASE ~Judgment(q)
  <2>1. mode = "auto" /\ e.class # "forced"
    BY <1>1, <1>3 DEF Judgment, AllModes
  <2>2. CASE p = "waive_boundary"
    BY <1>1, <1>3, <2>1, <2>2
       DEF Filed, RuleSanction, SanctionedOutcome, WaiveSanctions, Entry
  <2>3. CASE p # "waive_boundary"
    <3>1. e.class = "plain" /\ p = "fix"
      BY <1>1, <1>3, <2>1, <2>3 DEF Judgment, Entry, AllClasses, AllProposals
    <3> QED BY <1>1, <1>3, <2>1, <3>1
          DEF Filed, RuleSanction, SanctionedOutcome, FixSanctions, Entry
  <2> QED BY <2>2, <2>3
<1> QED BY <1>2, <1>3

\* No finding is known at the start, so the inductive invariant holds.
LEMMA InvInit == Init => IInv
<1> SUFFICES ASSUME Init PROVE IInv
  OBVIOUS
<1>1. TypeOK
  BY TypeInit
<1> QED BY <1>1 DEF Init, IInv, GateFollowsRound, PassIsBetweenRounds, OnlyMembersAreOpen,
                    EntryFitsStage, SettledIsSanction, SomeoneOwes, OutcomeIsSanctioned

\* Posts that touch neither the round nor the ledger leave the round's half of
\* the invariant alone.
RoundInv == /\ OnlyMembersAreOpen
            /\ EntryFitsStage
            /\ SettledIsSanction
            /\ SomeoneOwes
            /\ OutcomeIsSanctioned

\* The round's half of the invariant reads these variables and no others.
LEMMA RoundUntouched ==
    ASSUME RoundInv,
           UNCHANGED <<mode, roundState, members, entry, raised, outcome, sanction>>
    PROVE  RoundInv'
  BY DEF RoundInv, OnlyMembersAreOpen, EntryFitsStage, SettledIsSanction, SomeoneOwes,
         OutcomeIsSanctioned, Waiting, Judgment

\* Closing the ledger leaves no raised finding open, and no label its sanction
\* has not earned.
LEMMA CloseLedgerCloses ==
    ASSUME TypeOK, RoundInv, NEW m
    PROVE  \A f \in raised :
             /\ CloseLedger(m)[f] # "none"
             /\ CloseLedger(m)[f] \in {"fixed", "fixed_unverified"} =>
                   sanction[f] \in FixSanctions
             /\ CloseLedger(m)[f] = "waived" => sanction[f] \in WaiveSanctions
<1> SUFFICES ASSUME NEW f \in raised
             PROVE  /\ CloseLedger(m)[f] # "none"
                    /\ CloseLedger(m)[f] \in {"fixed", "fixed_unverified"} =>
                          sanction[f] \in FixSanctions
                    /\ CloseLedger(m)[f] = "waived" => sanction[f] \in WaiveSanctions
  OBVIOUS
<1>1. f \in Findings
  BY DEF TypeOK
<1>2. CASE outcome[f] # "none"
  BY <1>1, <1>2 DEF CloseLedger, RoundInv, OutcomeIsSanctioned
<1>3. CASE outcome[f] = "none"
  <2>1. f \in members /\ CloseLedger(m)[f] = FinalLabel(f, m)
    BY <1>1, <1>3 DEF CloseLedger, RoundInv, OnlyMembersAreOpen
  <2>2. /\ entry[f].settled = "fix" => sanction[f] \in FixSanctions
        /\ entry[f].settled = "waive" => sanction[f] \in WaiveSanctions
    BY <2>1 DEF RoundInv, SettledIsSanction
  <2> QED BY <2>1, <2>2 DEF FinalLabel
<1> QED BY <1>2, <1>3

\* With no round and a closed ledger there is nothing left to say of a round.
LEMMA NoRoundInv ==
    ASSUME (members = {})', (roundState = "none")', OutcomeIsSanctioned',
           (\A f \in raised : outcome[f] # "none")'
    PROVE  RoundInv'
  BY DEF RoundInv, OnlyMembersAreOpen, EntryFitsStage, SettledIsSanction, SomeoneOwes

\* Every step keeps the invariant.
LEMMA InvStep == IInv /\ [Next]_vars => IInv'
<1> SUFFICES ASSUME IInv, [Next]_vars PROVE IInv'
  OBVIOUS
<1>0. TypeOK' /\ TypeOK /\ RoundInv
  BY TypeStep DEF IInv, RoundInv
<1>a. SUFFICES GateFollowsRound' /\ PassIsBetweenRounds' /\ RoundInv'
  BY <1>0 DEF IInv, RoundInv
<1> USE BoundsAssumption DEF IInv, gateVars, itemVars, passVars
<1> DEFINE Goal == GateFollowsRound' /\ PassIsBetweenRounds' /\ RoundInv'
<1>1. ASSUME NEW s \in BOOLEAN, PostArtifact(s) PROVE Goal
  <2>1. CASE gate = "operator_finalizing"
    <3>1. /\ gate' = "terminal" /\ roundState' = "none" /\ members' = {} /\ passPhase' = "none"
          /\ outcome' = CloseLedger("after_fixes") /\ raised' = raised /\ sanction' = sanction
      BY <1>1, <2>1 DEF PostArtifact, AfterArtifact, NoRound, PassIsBetweenRounds, TypeOK,
                        PassPhases
    <3>2. RoundInv'
      BY <1>0, <3>1, CloseLedgerCloses, NoRoundInv DEF OutcomeIsSanctioned
    <3> QED BY <3>1, <3>2 DEF GateFollowsRound, PassIsBetweenRounds
  <2>2. CASE gate # "operator_finalizing" /\ roundState = "unparked"
    <3>1. /\ gate' = "round_closing" /\ roundState' = "round_closing"
          /\ UNCHANGED <<mode, members, entry, raised, outcome, sanction, passPhase>>
      BY <1>1, <2>2 DEF PostArtifact, AfterArtifact
    <3>2. gate = "unparked" /\ passPhase' = "none"
      BY <2>2, <3>1 DEF GateFollowsRound, PassIsBetweenRounds, TypeOK, GateStates
    <3>3. OnlyMembersAreOpen' /\ SettledIsSanction' /\ OutcomeIsSanctioned'
      BY <1>0, <3>1 DEF RoundInv, OnlyMembersAreOpen, SettledIsSanction, OutcomeIsSanctioned
    <3>4. EntryFitsStage' /\ SomeoneOwes'
      BY <2>2, <3>1 DEF EntryFitsStage, SomeoneOwes, GateFollowsRound
    <3> QED BY <2>2, <3>1, <3>2, <3>3, <3>4
          DEF GateFollowsRound, PassIsBetweenRounds, RoundInv
  <2>3. CASE gate # "operator_finalizing" /\ roundState # "unparked"
    <3>1. UNCHANGED <<mode, roundState, members, entry, raised, outcome, sanction,
                      passPhase, passVersion>>
      BY <1>1, <2>3 DEF PostArtifact, AfterArtifact
    <3>2. RoundInv'
      BY <1>0, <3>1, RoundUntouched
    <3>3. /\ gate' = gate \/ (gate' = "pass_running" /\ roundState = "none")
          /\ summaries \subseteq summaries'
      BY <1>1, <2>3 DEF PostArtifact, AfterArtifact
    <3>4. gate = "terminal" => gate' = gate
      BY <1>1, <2>3 DEF PostArtifact, AfterArtifact
    <3> QED BY <3>1, <3>2, <3>3, <3>4 DEF GateFollowsRound, PassIsBetweenRounds
  <2> QED BY <2>1, <2>2, <2>3
<1>2. ASSUME NEW ps \in [Findings -> Proposals], PostProposals(ps) PROVE Goal
  <2>1. /\ gate = "proposals_owed" /\ roundState = "proposals_owed" /\ members # {}
        /\ roundState' \in {"parked", "unparked"} /\ gate' = roundState'
        /\ UNCHANGED <<mode, members, raised, outcome, passPhase>>
    BY <1>2, ParkingSettles
       DEF PostProposals, LegalKinds, GateNow, GateFollowsRound
  <2>2. GateFollowsRound' /\ PassIsBetweenRounds'
    BY <2>1 DEF GateFollowsRound, PassIsBetweenRounds
  <2>3. ASSUME NEW f \in members
        PROVE  /\ entry'[f].proposed # "none" /\ entry'[f].disposed = entry[f].disposed
               /\ entry'[f].settled = "fix" => sanction'[f] \in FixSanctions
               /\ entry'[f].settled = "waive" => sanction'[f] \in WaiveSanctions
               /\ entry'[f].settled = "none" => sanction'[f] = "none" /\ Waiting(entry'[f])
    <3>1. f \in Findings /\ entry[f] \in Entry /\ mode \in AllModes /\ ps[f] \in AllProposals
      BY <1>0 DEF TypeOK
    <3>2. entry[f].settled = "none"
      BY <2>1 DEF EntryFitsStage
    <3>3. sanction'[f] = RuleSanction(entry[f].class, ps[f])
      BY <1>2, <3>1 DEF PostProposals
    <3>4. entry'[f] = Filed(entry[f], ps[f])
      BY <1>2, <3>1 DEF PostProposals, Proposed
    <3>5. ps[f] # "none"
      BY <3>1 DEF AllProposals
    <3> QED BY <3>1, <3>2, <3>3, <3>4, <3>5, RuleSettles
  <2>4. roundState' = "unparked" => \A f \in members : ~Waiting(entry'[f])
    BY <1>2, ParkingSettles DEF PostProposals
  <2>5. \A f \in members : Waiting(entry[f])' <=> Waiting(entry'[f])
    BY <2>1 DEF Waiting, Judgment
  <2>6. OnlyMembersAreOpen' /\ SettledIsSanction'
    BY <1>0, <2>1, <2>3 DEF OnlyMembersAreOpen, SettledIsSanction
  <2>7. EntryFitsStage'
    BY <2>1, <2>3, <2>4, <2>5 DEF EntryFitsStage
  <2>8. OutcomeIsSanctioned'
    <3> SUFFICES ASSUME NEW f \in raised, outcome[f] # "none"
                 PROVE  sanction'[f] = sanction[f]
      BY <2>1 DEF OutcomeIsSanctioned
    <3>1. f \in Findings /\ f \notin members
      BY <1>0, <2>1 DEF EntryFitsStage, OnlyMembersAreOpen, TypeOK
    <3> QED BY <1>2, <3>1 DEF PostProposals
  <2> QED BY <2>1, <2>2, <2>6, <2>7, <2>8 DEF RoundInv, SomeoneOwes
<1>3. ASSUME NEW f \in Findings, NEW d \in Directives, PostDirective(f, d) PROVE Goal
  <2>1. /\ gate \in {"parked", "unparked"} /\ roundState = gate /\ f \in members
        /\ roundState' \in {"parked", "unparked"} /\ gate' = roundState'
        /\ UNCHANGED <<mode, members, raised, outcome, passPhase>>
        /\ entry' = [entry EXCEPT ![f] = ApplyDirective(entry[f], d)]
        /\ sanction' = [sanction EXCEPT ![f] = Ruling(entry[f], d)]
    BY <1>3, ParkingSettles
       DEF PostDirective, LegalKinds, GateNow, GateFollowsRound
  <2>2. GateFollowsRound' /\ PassIsBetweenRounds'
    BY <2>1 DEF GateFollowsRound, PassIsBetweenRounds
  <2>3. entry[f] \in Entry /\ d \in AllDirectives /\ entry[f].proposed # "none"
    BY <1>0, <2>1 DEF TypeOK, EntryFitsStage
  <2>4. ASSUME NEW g \in members
        PROVE  /\ entry'[g].proposed # "none" /\ entry'[g].disposed = entry[g].disposed
               /\ entry'[g].settled = "fix" => sanction'[g] \in FixSanctions
               /\ entry'[g].settled = "waive" => sanction'[g] \in WaiveSanctions
               /\ entry'[g].settled = "none" => sanction'[g] = "none" /\ Waiting(entry'[g])
    <3>1. g \in Findings
      BY <1>0 DEF TypeOK
    <3>2. CASE g = f
      BY <1>0, <2>1, <2>3, <3>1, <3>2, RulingSettles DEF TypeOK, Waiting
    <3>3. CASE g # f
      <4>1. entry'[g] = entry[g] /\ sanction'[g] = sanction[g]
        BY <1>0, <2>1, <3>1, <3>3 DEF TypeOK
      <4> QED BY <2>1, <4>1 DEF EntryFitsStage, SettledIsSanction
    <3> QED BY <3>2, <3>3
  <2>5. roundState' = "unparked" => \A g \in members : ~Waiting(entry'[g])
    BY <1>3, ParkingSettles DEF PostDirective
  <2>6. \A g \in members : Waiting(entry[g])' <=> Waiting(entry'[g])
    BY <2>1 DEF Waiting, Judgment
  <2>7. OnlyMembersAreOpen' /\ SettledIsSanction'
    BY <1>0, <2>1, <2>4 DEF OnlyMembersAreOpen, SettledIsSanction
  <2>8. EntryFitsStage'
    BY <2>1, <2>4, <2>5, <2>6 DEF EntryFitsStage
  <2>9. OutcomeIsSanctioned'
    <3>1. outcome[f] = "none"
      BY <2>1 DEF EntryFitsStage, OnlyMembersAreOpen
    <3>2. \A g \in raised : g # f => sanction'[g] = sanction[g]
      BY <1>0, <2>1 DEF TypeOK
    <3> QED BY <2>1, <3>1, <3>2 DEF OutcomeIsSanctioned
  <2> QED BY <2>1, <2>2, <2>7, <2>8, <2>9 DEF RoundInv, SomeoneOwes
<1>4. ASSUME NEW f \in Findings, PostReport(f) PROVE Goal
  <2>1. /\ gate = "parked" /\ roundState = gate /\ members # {}
        /\ roundState' \in {"parked", "unparked"} /\ gate' = roundState'
        /\ UNCHANGED <<mode, members, raised, outcome, sanction, passPhase>>
        /\ entry' = [entry EXCEPT ![f].report = "none"]
    BY <1>4, ParkingSettles
       DEF PostReport, LegalKinds, GateNow, GateFollowsRound
  <2>2. GateFollowsRound' /\ PassIsBetweenRounds'
    BY <2>1 DEF GateFollowsRound, PassIsBetweenRounds
  <2>3. \A g \in members :
          /\ entry'[g].proposed = entry[g].proposed /\ entry'[g].disposed = entry[g].disposed
          /\ entry'[g].settled = entry[g].settled
          /\ Waiting(entry'[g]) <=> Waiting(entry[g])
    BY <1>0, <2>1 DEF TypeOK, Entry, Waiting, Judgment
  <2>4. roundState' = "unparked" => \A g \in members : ~Waiting(entry'[g])
    BY <1>4, ParkingSettles DEF PostReport
  <2>5. \A g \in members : Waiting(entry[g])' <=> Waiting(entry'[g])
    BY <2>1 DEF Waiting, Judgment
  <2>6. OnlyMembersAreOpen' /\ SettledIsSanction' /\ OutcomeIsSanctioned'
    BY <1>0, <2>1, <2>3
       DEF OnlyMembersAreOpen, SettledIsSanction, OutcomeIsSanctioned, RoundInv
  <2>7. EntryFitsStage'
    BY <2>1, <2>3, <2>4, <2>5 DEF EntryFitsStage
  <2> QED BY <2>1, <2>2, <2>6, <2>7 DEF RoundInv, SomeoneOwes
<1>5. ASSUME NEW f \in Findings, NEW o \in {"fixed", "waived"}, PostDisposition(f, o)
      PROVE Goal
  <2> DEFINE es == IF f \in members THEN [entry EXCEPT ![f].disposed = TRUE] ELSE entry
  <2>1. /\ outcome' = IF outcome[f] = "none" THEN [outcome EXCEPT ![f] = o] ELSE outcome
        /\ UNCHANGED <<mode, raised, audit, sanction, summaries, passPhase, passVersion>>
    BY <1>5 DEF PostDisposition
  <2>a. gate \in {"idle", "terminal", "round_closing", "pass_running"}
    BY <1>0, <1>5 DEF PostDisposition, LegalKinds, GateNow, TypeOK, GateStates
  <2>2. \A g \in raised : outcome'[g] # "none" \/ outcome[g] = "none"
    BY <1>0, <2>1 DEF TypeOK
  <2>3. OutcomeIsSanctioned'
    <3> SUFFICES ASSUME f \in raised, outcome[f] = "none"
                 PROVE  /\ o = "fixed" => sanction[f] \in FixSanctions
                        /\ o = "waived" => sanction[f] \in WaiveSanctions
      BY <1>0, <2>1 DEF OutcomeIsSanctioned, TypeOK
    <3>1. f \in members /\ gate = "round_closing" /\ roundState = "round_closing"
      BY <1>0, <2>a DEF OnlyMembersAreOpen, GateFollowsRound
    <3>2. entry[f].settled \in {"fix", "waive"}
      BY <1>0, <3>1 DEF EntryFitsStage, TypeOK, Entry
    <3>3. o = Expected(entry[f])
      BY <1>5, <3>1, <3>2 DEF PostDisposition, DispositionRefused, Expected, GateNow
    <3> QED BY <3>1, <3>2, <3>3 DEF Expected, SettledIsSanction
  <2>4. CASE roundState = "round_closing" /\ OwedDispositions(members, es) = {}
    <3>1. /\ roundState' = "none" /\ members' = {} /\ gate' = "pass_running"
          /\ gate = "round_closing"
      BY <1>5, <2>a, <2>4 DEF PostDisposition, NoRound, GateFollowsRound
    <3>2. \A g \in members : g = f \/ entry[g].disposed
      BY <1>0, <2>4 DEF OwedDispositions, TypeOK
    <3>3. \A g \in raised : outcome'[g] # "none"
      BY <1>0, <2>1, <3>2 DEF OnlyMembersAreOpen, TypeOK
    <3>4. RoundInv'
      BY <2>1, <2>3, <3>1, <3>3, NoRoundInv
    <3> QED BY <2>1, <3>1, <3>4 DEF GateFollowsRound, PassIsBetweenRounds
  <2>5. CASE ~(roundState = "round_closing" /\ OwedDispositions(members, es) = {})
    <3>1. entry' = es /\ UNCHANGED <<gate, roundState, members>>
      BY <1>5, <2>5 DEF PostDisposition
    <3>2. GateFollowsRound' /\ PassIsBetweenRounds'
      BY <2>1, <3>1 DEF GateFollowsRound, PassIsBetweenRounds
    <3>3. members # {} => roundState = "round_closing"
      BY <2>a DEF GateFollowsRound
    <3>4. \A g \in members :
            /\ entry'[g].settled = entry[g].settled
            /\ entry'[g].proposed = entry[g].proposed
            /\ entry'[g].disposed <=> (entry[g].disposed \/ g = f)
      BY <1>0, <3>1 DEF TypeOK, Entry
    <3>5. OnlyMembersAreOpen'
      BY <1>0, <2>1, <3>1, <3>4 DEF OnlyMembersAreOpen, TypeOK
    <3>6. EntryFitsStage' /\ SettledIsSanction'
      BY <2>1, <3>1, <3>3, <3>4 DEF EntryFitsStage, SettledIsSanction
    <3>7. SomeoneOwes'
      BY <1>0, <2>5, <3>1 DEF SomeoneOwes, OwedDispositions
    <3> QED BY <2>3, <3>2, <3>5, <3>6, <3>7 DEF RoundInv
  <2> QED BY <2>4, <2>5
<1>6. ASSUME NEW m \in {"now", "after_fixes"}, PostFinalize(m) PROVE Goal
  <2>1. CASE m = "after_fixes" /\ gate \in {"parked", "unparked"}
    <3>1. /\ gate' = "operator_finalizing"
          /\ UNCHANGED <<mode, roundState, members, entry, raised, outcome, sanction, passPhase>>
      BY <1>6, <2>1 DEF PostFinalize
    <3> QED BY <1>0, <2>1, <3>1, RoundUntouched DEF GateFollowsRound, PassIsBetweenRounds
  <2>2. CASE ~(m = "after_fixes" /\ gate \in {"parked", "unparked"})
    <3>1. /\ gate' = "terminal" /\ roundState' = "none" /\ members' = {}
          /\ outcome' = CloseLedger(m)
          /\ UNCHANGED <<raised, sanction, passPhase>>
      BY <1>6, <2>2 DEF PostFinalize, NoRound
    <3>2. passPhase = "none"
      BY <1>6 DEF PostFinalize, LegalKinds, GateNow, PassIsBetweenRounds
    <3>3. RoundInv'
      BY <1>0, <3>1, CloseLedgerCloses, NoRoundInv DEF OutcomeIsSanctioned
    <3> QED BY <3>1, <3>2, <3>3 DEF GateFollowsRound, PassIsBetweenRounds
  <2> QED BY <2>1, <2>2
<1>7. ASSUME NEW i \in Items, Escalate(i) PROVE Goal
  BY <1>0, <1>7, RoundUntouched DEF Escalate, GateFollowsRound, PassIsBetweenRounds
<1>8. ASSUME AskHuman PROVE Goal
  BY <1>0, <1>8, RoundUntouched DEF AskHuman, GateFollowsRound, PassIsBetweenRounds
<1>9. ASSUME NEW i \in Items, Answer(i) PROVE Goal
  BY <1>0, <1>9, RoundUntouched DEF Answer, GateFollowsRound, PassIsBetweenRounds
<1>10. ASSUME PlanPass PROVE Goal
  BY <1>0, <1>10, RoundUntouched
     DEF PlanPass, PassAllowed, GateNow, GateFollowsRound, PassIsBetweenRounds
<1>11. ASSUME RecheckChannel PROVE Goal
  BY <1>0, <1>11, RoundUntouched
     DEF RecheckChannel, NoPass, GateFollowsRound, PassIsBetweenRounds
<1>12. ASSUME NEW S \in SUBSET Findings, NEW cs \in [Findings -> Classes],
              NEW R \in SUBSET Findings, PostFindings(S, cs, R)
       PROVE Goal
  <2>1. /\ passPhase' = "none" /\ UNCHANGED <<mode, outcome>>
        /\ passPhase # "none" /\ \A f \in S : outcome[f] = "none"
    BY <1>12 DEF PostFindings, NoPass, Disposed
  <2>2. CASE passVersion \in summaries
    <3>1. UNCHANGED <<gate, roundState, members, entry, raised, sanction>>
      BY <1>12, <2>2 DEF PostFindings
    <3> QED BY <1>0, <2>1, <3>1, RoundUntouched DEF GateFollowsRound, PassIsBetweenRounds
  <2>3. CASE passVersion \notin summaries /\ S = {}
    <3>1. /\ UNCHANGED <<roundState, members, entry, raised, sanction>>
          /\ gate' = IF roundState = "none" THEN "idle" ELSE gate
      BY <1>12, <2>3 DEF PostFindings
    <3> QED BY <1>0, <2>1, <3>1, RoundUntouched DEF GateFollowsRound, PassIsBetweenRounds
  <2>4. CASE passVersion \notin summaries /\ S # {}
    <3>1. OpenRound(S, cs)
      BY <1>12, <2>4 DEF PostFindings
    <3>2. roundState = "none" /\ members = {}
      BY <2>1, <2>4 DEF PassIsBetweenRounds, GateFollowsRound
    <3>3. \A f \in raised : outcome[f] # "none"
      BY <1>0, <3>2 DEF OnlyMembersAreOpen
    <3>4. \A f \in S : /\ entry'[f].settled = "none" /\ entry'[f].disposed = FALSE
                       /\ sanction'[f] = "none"
      BY <3>1 DEF OpenRound, NoEntry
    <3>5. OnlyMembersAreOpen'
      BY <2>1, <3>1, <3>3, <3>4 DEF OpenRound, OnlyMembersAreOpen
    <3>6. EntryFitsStage' /\ SettledIsSanction' /\ SomeoneOwes'
      BY <3>1, <3>4 DEF OpenRound, EntryFitsStage, SettledIsSanction, SomeoneOwes
    <3>7. OutcomeIsSanctioned'
      <4>1. \A f \in raised' : outcome[f] # "none" => f \in raised /\ sanction'[f] = sanction[f]
        BY <1>0, <2>1, <3>1 DEF OpenRound, TypeOK
      <4> QED BY <2>1, <4>1 DEF OutcomeIsSanctioned
    <3> QED BY <2>1, <2>4, <3>1, <3>5, <3>6, <3>7
          DEF OpenRound, GateFollowsRound, PassIsBetweenRounds, RoundInv
  <2> QED BY <2>2, <2>3, <2>4
<1>13. ASSUME EndPass PROVE Goal
  BY <1>0, <1>13, RoundUntouched DEF EndPass, NoPass, GateFollowsRound, PassIsBetweenRounds
<1>14. ASSUME UNCHANGED vars PROVE Goal
  BY <1>0, <1>14, RoundUntouched DEF vars, GateFollowsRound, PassIsBetweenRounds
<1> QED BY <1>1, <1>2, <1>3, <1>4, <1>5, <1>6, <1>7, <1>8, <1>9, <1>10, <1>11, <1>12,
           <1>13, <1>14 DEF Next

\* The inductive invariant holds of every reachable state.
THEOREM Invariance == Spec => []IInv
BY InvInit, InvStep, PTL DEF Spec

------------------------------------------------------------------------------
(* What it gives. *)

\* No finding of an ordinary version is open outside its round: the barrier of
\* Round.owed_dispositions holds whatever the order of posts.
THEOREM LedgerClosed == Spec => []LedgerClosedBetweenRounds
<1>1. IInv => LedgerClosedBetweenRounds
  BY DEF IInv, GateFollowsRound, OnlyMembersAreOpen, LedgerClosedBetweenRounds
<1> QED BY <1>1, Invariance, PTL

\* Nothing reads as fixed or waived without the word that licensed it.
THEOREM Sanctioned == Spec => []OutcomeIsSanctioned
<1>1. IInv => OutcomeIsSanctioned
  BY DEF IInv
<1> QED BY <1>1, Invariance, PTL

\* A round that closes waits only for dispositions that are still possible.
THEOREM Payable == Spec => []OwedCanBePaid
<1>1. IInv => OwedCanBePaid
  <2> SUFFICES ASSUME IInv PROVE OwedCanBePaid
    OBVIOUS
  <2>1. \A f \in members : entry[f].disposed <=> outcome[f] # "none"
    BY DEF IInv, OnlyMembersAreOpen
  <2>2. ASSUME roundState = "round_closing"
        PROVE  \E f \in OwedDispositions(members, entry) : Expected(entry[f]) # "none"
    <3>1. PICK f \in members : ~entry[f].disposed
      BY <2>2 DEF IInv, SomeoneOwes
    <3>2. entry[f].settled \in {"fix", "waive"}
      BY <2>2, <3>1 DEF IInv, EntryFitsStage, TypeOK, Entry
    <3> QED BY <3>1, <3>2 DEF OwedDispositions, Expected
  <2> QED BY <2>1, <2>2 DEF OwedCanBePaid
<1> QED BY <1>1, Invariance, PTL

\* A pass never raises findings into a round that is still open.
THEOREM OneRoundAtATime == Spec => RoundIsNeverReplaced
<1>1. IInv /\ [Next]_vars => [members # {} => members' \in {members, {}}]_vars
  <2> SUFFICES ASSUME IInv, Next, members # {} PROVE members' \in {members, {}}
    BY DEF vars
  <2>1. ASSUME NEW S \in SUBSET Findings, NEW cs \in [Findings -> Classes],
               NEW R \in SUBSET Findings, PostFindings(S, cs, R)
        PROVE  members' = members
    BY <2>1 DEF IInv, PostFindings, PassIsBetweenRounds, GateFollowsRound
  <2> QED BY <2>1 DEF Next, PostArtifact, PostProposals, PostDirective, PostReport,
                      PostDisposition, PostFinalize, Escalate, AskHuman, Answer,
                      PlanPass, RecheckChannel, EndPass, NoRound, gateVars
<1> QED BY <1>1, Invariance, PTL DEF Spec, RoundIsNeverReplaced

\* No step leaves the terminal state.
THEOREM FinalStands == Spec => FinalIsFinal
<1>1. IInv /\ [Next]_vars => [gate = "terminal" => gate' = "terminal"]_vars
  <2> SUFFICES ASSUME IInv, Next, gate = "terminal" PROVE gate' = "terminal"
    BY DEF vars
  <2>1. ASSUME NEW S \in SUBSET Findings, NEW cs \in [Findings -> Classes],
               NEW R \in SUBSET Findings, PostFindings(S, cs, R)
        PROVE  gate' = gate
    BY <2>1 DEF IInv, PostFindings, PassIsBetweenRounds
  <2>2. roundState = "none"
    BY DEF IInv, GateFollowsRound
  <2>3. ASSUME NEW s \in BOOLEAN, PostArtifact(s) PROVE gate' = gate
    BY <2>2, <2>3 DEF PostArtifact, AfterArtifact
  <2>4. ASSUME NEW f \in Findings, NEW o \in {"fixed", "waived"}, PostDisposition(f, o)
        PROVE  gate' = gate
    BY <2>2, <2>4 DEF PostDisposition
  <2> QED BY <2>1, <2>3, <2>4
        DEF Next, PostProposals, PostDirective, PostReport, PostFinalize, LegalKinds,
            GateNow, Escalate, AskHuman, Answer, PlanPass, RecheckChannel, EndPass, gateVars
<1> QED BY <1>1, Invariance, PTL DEF Spec, FinalIsFinal

------------------------------------------------------------------------------
(* RoundGate implements Sanction. *)

\* What the abstract specification sees of a finding.
Status(f) == CASE f \notin raised -> "unraised"
               [] f \in raised /\ outcome[f] = "none" -> "open"
               [] OTHER -> outcome[f]

\* In any state of RoundGate the abstract open findings are the round's own.
LEMMA OpenAreMembers ==
    ASSUME IInv
    PROVE  Ledger!Open = {f \in members : outcome[f] = "none"}
<1>1. members \subseteq raised /\ raised \subseteq Findings
  BY DEF IInv, TypeOK, GateFollowsRound
<1>2. \A f \in raised : outcome[f] = "none" => f \in members
  BY DEF IInv, OnlyMembersAreOpen
<1>3. \A f \in Findings : outcome[f] # "open"
  BY DEF IInv, TypeOK, Outcomes
<1> QED BY <1>1, <1>2, <1>3 DEF Ledger!Open

\* Closing the ledger is the abstract final, done or not done.
LEMMA FinalRefines ==
    ASSUME IInv, NEW m \in {"now", "after_fixes"},
           outcome' = CloseLedger(m), UNCHANGED <<raised, sanction>>
    PROVE  Ledger!Final(m = "after_fixes")
<1> SUFFICES ASSUME NEW f \in Findings
             PROVE  Status(f)' =
                      CASE f \notin Ledger!Open -> Status(f)
                        [] f \in Ledger!Open /\ m = "after_fixes"
                             /\ Ledger!Earned(f) = "fixed" -> "fixed_unverified"
                        [] f \in Ledger!Open /\ m = "after_fixes"
                             /\ Ledger!Earned(f) = "waived" -> "waived"
                        [] OTHER -> "operator_risk_accepted"
  BY DEF Ledger!Final, Status
<1>1. CASE f \in Ledger!Open
  <2>1. f \in members /\ f \in raised /\ outcome[f] = "none"
    BY <1>1, OpenAreMembers DEF IInv, GateFollowsRound
  <2>2. Status(f)' = FinalLabel(f, m)
    <3>1. outcome'[f] = FinalLabel(f, m)
      BY <2>1 DEF CloseLedger
    <3>2. FinalLabel(f, m) # "none"
      BY DEF FinalLabel
    <3> QED BY <2>1, <3>1, <3>2 DEF Status
  <2>3. entry[f].settled \in {"none", "fix", "waive"} /\ sanction[f] \in Sanctions
    BY <2>1 DEF IInv, TypeOK, Entry
  <2>4. /\ entry[f].settled = "fix" <=> Ledger!Earned(f) = "fixed"
        /\ entry[f].settled = "waive" <=> Ledger!Earned(f) = "waived"
    BY <2>1, <2>3 DEF IInv, SettledIsSanction, Ledger!Earned, FixSanctions, WaiveSanctions,
                      Sanctions
  <2> QED BY <1>1, <2>2, <2>4 DEF FinalLabel
<1>2. CASE f \notin Ledger!Open
  <2>1. Status(f)' = Status(f)
    BY <1>2 DEF CloseLedger, Status, Ledger!Open, IInv, TypeOK
  <2> QED BY <1>2, <2>1
<1> QED BY <1>1, <1>2

\* The round gate keeps, finding by finding, what Sanction promises.
THEOREM Refinement == Spec => LedgerSpec
<1>1. Init => Ledger!Init
  BY DEF Init, Ledger!Init
<1>2. IInv /\ [Next]_vars => [Ledger!Next]_(Ledger!ledger)
  <2> SUFFICES ASSUME IInv, [Next]_vars
               PROVE  Ledger!Next \/ UNCHANGED Ledger!ledger
    OBVIOUS
  <2>0. /\ TypeOK /\ members \subseteq raised /\ raised \subseteq Findings
        /\ sanction \in [Findings -> Sanctions]
    BY DEF IInv, GateFollowsRound, TypeOK
  <2>a. UNCHANGED <<raised, outcome, sanction>> => UNCHANGED Ledger!ledger
    BY DEF Ledger!ledger
  <2>1. ASSUME NEW s \in BOOLEAN, PostArtifact(s)
        PROVE  Ledger!Next \/ UNCHANGED Ledger!ledger
    <3>1. CASE gate = "operator_finalizing"
      <4>1. Ledger!Final("after_fixes" = "after_fixes")
        BY <2>1, <3>1, FinalRefines DEF PostArtifact
      <4> QED BY <4>1 DEF Ledger!Next
    <3>2. CASE gate # "operator_finalizing"
      BY <2>1, <2>a, <3>2 DEF PostArtifact
    <3> QED BY <3>1, <3>2
  <2>2. ASSUME NEW ps \in [Findings -> Proposals], PostProposals(ps)
        PROVE  Ledger!Next
    <3> DEFINE grant == [f \in Findings |-> RuleSanction(entry[f].class, ps[f])]
    <3>1. grant \in [Findings -> {"none", "rule_fix", "rule_waive"}]
      BY DEF RuleSanction
    <3>2. \A f \in members : outcome[f] = "none"
      <4>1. roundState = "proposals_owed"
        BY <2>2 DEF PostProposals, LegalKinds, GateNow, IInv, GateFollowsRound
      <4> QED BY <4>1 DEF IInv, EntryFitsStage, OnlyMembersAreOpen
    <3>3. Ledger!Open = members
      BY <3>2, OpenAreMembers
    <3>4. Ledger!Answer(grant)
      BY <2>2, <3>3 DEF PostProposals, Ledger!Answer
    <3> QED BY <3>1, <3>4 DEF Ledger!Next
  <2>3. ASSUME NEW f \in Findings, NEW d \in Directives, PostDirective(f, d)
        PROVE  Ledger!Next
    <3>1. f \in Ledger!Open
      <4>1. f \in members /\ roundState # "round_closing"
        BY <2>3 DEF PostDirective, LegalKinds, GateNow, IInv, GateFollowsRound
      <4> QED BY <4>1, OpenAreMembers DEF IInv, EntryFitsStage, OnlyMembersAreOpen
    <3>2. Ruling(entry[f], d) \in {"none", "operator_fix", "operator_waive"}
      BY DEF Ruling
    <3>3. Ledger!Rule(f, Ruling(entry[f], d))
      BY <2>3, <3>1 DEF PostDirective, Ledger!Rule
    <3> QED BY <3>2, <3>3 DEF Ledger!Next
  <2>4. ASSUME NEW f \in Findings, PostReport(f) PROVE UNCHANGED Ledger!ledger
    BY <2>4, <2>a DEF PostReport
  <2>5. ASSUME NEW f \in Findings, NEW o \in {"fixed", "waived"}, PostDisposition(f, o)
        PROVE  Ledger!Next \/ UNCHANGED Ledger!ledger
    <3>1. CASE f \in raised /\ outcome[f] = "none"
      <4>1. f \in members /\ f \in Ledger!Open
        BY <3>1, OpenAreMembers DEF IInv, OnlyMembersAreOpen
      <4>2. gate = "round_closing" /\ roundState = "round_closing"
        BY <2>0, <2>5, <4>1 DEF PostDisposition, LegalKinds, GateNow, IInv, GateFollowsRound,
                                TypeOK, GateStates
      <4>3. entry[f].settled \in {"fix", "waive"}
        BY <4>1, <4>2 DEF IInv, EntryFitsStage, TypeOK, Entry
      <4>4. o = Expected(entry[f])
        BY <2>5, <4>1, <4>2, <4>3 DEF PostDisposition, DispositionRefused, Expected, GateNow
      <4>5. Ledger!Earned(f) = o
        BY <4>1, <4>3, <4>4 DEF Expected, IInv, SettledIsSanction, Ledger!Earned,
                                FixSanctions, WaiveSanctions
      <4>6. raised' = raised /\ outcome' = [outcome EXCEPT ![f] = o] /\ sanction' = sanction
        BY <2>5, <3>1 DEF PostDisposition
      <4>7. \A g \in Findings : Status(g)' = IF g = f THEN o ELSE Status(g)
        BY <2>0, <3>1, <4>6 DEF Status, TypeOK
      <4>8. Ledger!Close(f)
        BY <4>1, <4>5, <4>6, <4>7 DEF Ledger!Close, Status
      <4> QED BY <4>8 DEF Ledger!Next
    <3>2. CASE ~(f \in raised /\ outcome[f] = "none")
      <4>1. raised' = raised /\ sanction' = sanction /\ \A g \in raised : outcome'[g] = outcome[g]
        BY <2>0, <2>5, <3>2 DEF PostDisposition, TypeOK
      <4>2. \A g \in Findings : Status(g)' = Status(g)
        BY <4>1 DEF Status
      <4> QED BY <4>1, <4>2 DEF Ledger!ledger, Status
    <3> QED BY <3>1, <3>2
  <2>6. ASSUME NEW m \in {"now", "after_fixes"}, PostFinalize(m)
        PROVE  Ledger!Next \/ UNCHANGED Ledger!ledger
    <3>1. CASE m = "after_fixes" /\ gate \in {"parked", "unparked"}
      BY <2>6, <2>a, <3>1 DEF PostFinalize
    <3>2. CASE ~(m = "after_fixes" /\ gate \in {"parked", "unparked"})
      <4>1. Ledger!Final(m = "after_fixes")
        BY <2>6, <3>2, FinalRefines DEF PostFinalize
      <4> QED BY <4>1 DEF Ledger!Next
    <3> QED BY <3>1, <3>2
  <2>7. ASSUME NEW S \in SUBSET Findings, NEW cs \in [Findings -> Classes],
               NEW R \in SUBSET Findings, PostFindings(S, cs, R)
        PROVE  Ledger!Next \/ UNCHANGED Ledger!ledger
    <3>1. CASE passVersion \in summaries \/ S = {}
      BY <2>7, <2>a, <3>1 DEF PostFindings
    <3>2. CASE ~(passVersion \in summaries \/ S = {})
      <4>1. OpenRound(S, cs) /\ outcome' = outcome /\ \A f \in S : outcome[f] = "none"
        BY <2>7, <3>2 DEF PostFindings, Disposed
      <4>2. members = {}
        BY <2>7, <3>2 DEF PostFindings, IInv, PassIsBetweenRounds, GateFollowsRound
      <4>3. Ledger!Open = {} /\ \A f \in S : f \notin raised
        BY <4>1, <4>2, OpenAreMembers DEF IInv, OnlyMembersAreOpen
      <4>4. \A f \in Findings : Status(f)' = IF f \in S THEN "open" ELSE Status(f)
        BY <4>1 DEF OpenRound, Status
      <4>5. Ledger!Raise(S)
        BY <4>1, <4>3, <4>4 DEF OpenRound, Ledger!Raise, Status
      <4> QED BY <4>5 DEF Ledger!Next
    <3> QED BY <3>1, <3>2
  <2>8. ASSUME \/ \E i \in Items : Escalate(i) \/ Answer(i)
               \/ AskHuman \/ PlanPass \/ RecheckChannel \/ EndPass
               \/ UNCHANGED vars
        PROVE  UNCHANGED Ledger!ledger
    BY <2>8, <2>a DEF Escalate, Answer, AskHuman, PlanPass, RecheckChannel, EndPass,
                      gateVars, vars
  <2> QED BY <2>1, <2>2, <2>3, <2>4, <2>5, <2>6, <2>7, <2>8 DEF Next
<1> QED BY <1>1, <1>2, Invariance, PTL DEF Spec, LedgerSpec, Ledger!Spec

(***************************************************************************)
(* Cycle, for any documents, writings, reports and bounds: nothing is      *)
(* assumed of the constants.                                               *)
(***************************************************************************)

------------------------------------------------------------------------------
(* The inductive invariant. *)

\* The channel is a sequence: Append puts a message behind the others.
LogIsAChannel == log \in Seq({log[k] : k \in DOMAIN log})

\* What a dead watcher left on the way is a record.
LateAreRecords == \A p \in late : p.kind = "reconciliation"

\* Everything follows the first version.
VersionComesFirst ==
  log # <<>> \/ state = "converged" \/ pass.kind # "none" \/ late # {}
    => Kind(log, "version") # {}

\* The operator asks for another attempt over a map that had one.
RequestsFollow ==
  \A q \in Kind(log, "request") : \E j \in Spent(log, log[q].map) : j < q

\* An attempt is the first over its map, or takes up a request no other has.
AttemptsAreAsked ==
  \A k \in Kind(log, "reconciliation") :
    \/ log[k].request = 0 /\ \A j \in Spent(log, log[k].map) : k <= j
    \/ /\ log[k].request \in Requests(log, log[k].map) /\ log[k].request < k
       /\ \A j \in Kind(log, "reconciliation") \ {k} : log[j].request # log[k].request

\* Findings are over summaries, in the order the summaries came in: an audit is over the
\* newest of those the critic has spoken on.
FindingsFollowSummaries ==
  /\ \A k \in Kind(log, "findings") : log[k].for \in Kind(log, "summary")
  /\ \A i, j \in Kind(log, "findings") : i < j => log[i].for <= log[j].for
  /\ pass.kind = "audit" =>
       /\ pass.about \in Kind(log, "summary")
       /\ \A k \in Kind(log, "findings") : log[k].for <= pass.about

\* A reconciliation runs on the newest findings, and there are some.
ReadsNewestFindings ==
  pass.kind = "reconciliation" => Kind(log, "findings") # {} /\ ReadsAgreedSummary

CycleIInv ==
  /\ LogIsAChannel
  /\ LateAreRecords
  /\ VersionComesFirst
  /\ RequestsFollow
  /\ AttemptsAreAsked
  /\ FindingsFollowSummaries
  /\ ReadsNewestFindings

------------------------------------------------------------------------------
(* The oldest and the newest of some messages. *)

\* Naturals are well-founded: a set of them has a least.
LEMMA SmallestOfSome ==
  ASSUME NEW T, T \subseteq Nat, T # {}
  PROVE  \E x \in T : \A y \in T : x <= y
<1> DEFINE R == OpToRel(<, Nat)
<1>1. IsWellFoundedOn(R, Nat)
  BY NatLessThanWellFounded
<1>2. ASSUME NEW x \in Nat, NEW y \in Nat, y < x PROVE <<y, x>> \in R
  BY <1>2 DEF OpToRel
<1> HIDE DEF R
<1>3. PICK x \in T : \A y \in T : ~ (<<y, x>> \in R)
  BY <1>1, WFMin
<1>4. ASSUME NEW y \in T PROVE x <= y
  <2>1. x \in Nat /\ y \in Nat
    OBVIOUS
  <2>2. ~ (y < x)
    BY <1>2, <1>3, <2>1
  <2> QED BY <2>1, <2>2
<1> QED
  BY <1>4

\* Counted from the end, the least of some places of a sequence is the last.
LEMMA GreatestOfSome ==
  ASSUME NEW n \in Nat, NEW T, T \subseteq 1 .. n, T # {}
  PROVE  \E x \in T : \A y \in T : y <= x
<1> DEFINE D == {n - x : x \in T}
<1>1. \A x \in T : x \in Nat /\ n - x \in Nat
  OBVIOUS
<1>2. D \subseteq Nat
  BY <1>1
<1>3. D # {}
  <2>1. PICK x : x \in T
    OBVIOUS
  <2>2. n - x \in D
    BY <2>1
  <2> QED BY <2>2
<1>4. PICK d \in D : \A e \in D : d <= e
  <2> HIDE DEF D
  <2> QED BY <1>2, <1>3, SmallestOfSome
<1>5. PICK x \in T : d = n - x
  BY <1>4
<1>6. ASSUME NEW y \in T PROVE y <= x
  <2>1. n - y \in D
    OBVIOUS
  <2>2. n - x <= n - y
    BY <2>1, <1>4, <1>5
  <2> QED BY <2>2, <1>1
<1> QED
  BY <1>6

\* Newest and Oldest of messages that exist.
LEMMA NewestIsLast ==
  ASSUME NEW n \in Nat, NEW S, S \subseteq 1 .. n, S # {}
  PROVE  Newest(S) \in S /\ \A j \in S : j <= Newest(S)
BY GreatestOfSome DEF Newest

LEMMA OldestIsFirst ==
  ASSUME NEW n \in Nat, NEW S, S \subseteq 1 .. n, S # {}
  PROVE  Oldest(S) \in S /\ \A j \in S : Oldest(S) <= j
<1>1. S \subseteq Nat
  OBVIOUS
<1> QED
  BY <1>1, SmallestOfSome DEF Oldest

------------------------------------------------------------------------------
(* How the channel grows. *)

\* A message is put behind the others, which stay.
LEMMA Appends ==
  ASSUME LogIsAChannel, NEW m, log' = Append(log, m)
  PROVE  /\ LogIsAChannel'
         /\ Len(log) \in Nat /\ Len(log') = Len(log) + 1
         /\ \A k \in 1 .. Len(log) : log'[k] = log[k]
         /\ log'[Len(log')] = m
<1> DEFINE S == {log[k] : k \in DOMAIN log}
<1>1. log \in Seq(S)
  BY DEF LogIsAChannel
<1> HIDE DEF S
<1>2. log \in Seq(S \cup {m})
  BY <1>1, SeqMonotonic
<1>3. /\ log' \in Seq(S \cup {m})
      /\ Len(log) \in Nat /\ Len(log') = Len(log) + 1
      /\ \A k \in 1 .. Len(log) : log'[k] = log[k]
      /\ log'[Len(log')] = m
  BY <1>2
<1>4. LogIsAChannel'
  BY <1>3 DEF LogIsAChannel
<1> QED
  BY <1>3, <1>4

\* What a step may post, and under which condition.
Posting(m) ==
  \/ m.kind \in {"version", "summary", "map"}
  \/ m.kind = "request" /\ Spent(log, m.map) # {}
  \/ /\ m.kind = "findings" /\ m.for = pass.about
     /\ pass.kind = "audit" /\ pass' = Idle
  \/ m.kind = "reconciliation" /\ ReferencesHold(log, m)

LEMMA ChannelGrows ==
  ASSUME LateAreRecords, [CycleNext]_cycleVars
  PROVE  \/ log' = log
         \/ \E m : log' = Append(log, m) /\ Posting(m)
<1>1. ASSUME NEW p \in 1..Cardinality(PairsSoFar) + 1, PostVersion(p)
      PROVE  \E m : log' = Append(log, m) /\ Posting(m)
  BY <1>1 DEF PostVersion, Post, Posting
<1>2. CASE PostSummary
  BY <1>2 DEF PostSummary, Post, Posting
<1>3. ASSUME NEW m \in Kind(log, "map"), PostRequest(m)
      PROVE  \E x : log' = Append(log, x) /\ Posting(x)
  BY <1>3 DEF PostRequest, Post, Posting
<1>4. CASE FinishMap
  BY <1>4 DEF FinishMap, Post, Posting
<1>5. ASSUME NEW empty \in BOOLEAN, FinishAudit(empty)
      PROVE  \E m : log' = Append(log, m) /\ Posting(m)
  BY <1>5 DEF FinishAudit, Post, Posting
<1>6. ASSUME NEW p \in Payloads, FinishReconciliation(p)
      PROVE  \/ log' = log
             \/ \E m : log' = Append(log, m) /\ Posting(m)
  <2>1. p.kind = "reconciliation"
    BY DEF Payloads, Payload
  <2> QED
    BY <1>6, <2>1 DEF FinishReconciliation, Posting, Taken
<1>7. ASSUME NEW p \in late, Arrive(p)
      PROVE  \/ log' = log
             \/ \E m : log' = Append(log, m) /\ Posting(m)
  BY <1>7 DEF Arrive, Post, Posting, Taken, LateAreRecords
<1>8. \/ Converge \/ DeleteAnchor \/ LosePass \/ UNCHANGED cycleVars
      \/ Rest \/ MissAnchor \/ StateUnread
      \/ \E d \in Documents, w \in Writings \cup {Absent} : WriteDocument(d, w)
      \/ \E kind : StartPass(kind)
      \/ \E p \in Payloads : LeaveInFlight(p)
      => log' = log
  BY DEF Converge, DeleteAnchor, LosePass, cycleVars, WriteDocument, StartPass, LeaveInFlight,
         Rest, MissAnchor, StateUnread
<1> QED
  BY <1>1, <1>2, <1>3, <1>4, <1>5, <1>6, <1>7, <1>8 DEF CycleNext, Step, Turn

\* The watcher keeps its pass, has none, or starts one on the channel as it is.
LEMMA PassMoves ==
  ASSUME [CycleNext]_cycleVars
  PROVE  \/ pass' = pass \/ pass' = Idle
         \/ StartPass(Plan(log)) /\ Plan(log) # "wait" /\ log' = log
BY DEF CycleNext, Step, Turn, Rest, MissAnchor, StateUnread, cycleVars, PostVersion, Converge,
       PostSummary, PostRequest, WriteDocument, DeleteAnchor, StartPass, FinishMap, FinishAudit, FinishReconciliation, LosePass, Post,
       LeaveInFlight, Arrive

\* The kinds of messages before and after a post.
LEMMA KindsGrow ==
  ASSUME LogIsAChannel, NEW m, log' = Append(log, m), NEW kind
  PROVE  /\ Kind(log', kind) = Kind(log, kind) \cup
                                 (IF m.kind = kind THEN {Len(log')} ELSE {})
         /\ \A k \in Kind(log, kind) : k < Len(log') /\ k \in Nat /\ log'[k] = log[k]
BY Appends DEF Kind

------------------------------------------------------------------------------
(* Each part is preserved. *)

LEMMA LateStep ==
  ASSUME LateAreRecords, [CycleNext]_cycleVars
  PROVE  LateAreRecords'
<1>1. \/ late' \subseteq late
      \/ \E p \in Payloads : late' = late \cup {p}
  BY DEF CycleNext, Step, Turn, Rest, MissAnchor, StateUnread, cycleVars, PostVersion, Converge,
         PostSummary, PostRequest, WriteDocument, DeleteAnchor, StartPass, FinishMap, FinishAudit, FinishReconciliation, LosePass, Post,
         LeaveInFlight, Arrive
<1>2. \A p \in Payloads : p.kind = "reconciliation"
  BY DEF Payloads, Payload
<1> QED
  BY <1>1, <1>2 DEF LateAreRecords

\* Nothing is converged, runs or is on its way before the first version is posted.
LEMMA VersionStep ==
  ASSUME LogIsAChannel, LateAreRecords, VersionComesFirst, [CycleNext]_cycleVars
  PROVE  VersionComesFirst'
<1>1. Kind(log, "version") # {} => Kind(log', "version") # {}
  BY ChannelGrows, KindsGrow
<1>2. CASE Kind(log, "version") # {}
  BY <1>1, <1>2 DEF VersionComesFirst
<1>3. CASE Kind(log, "version") = {}
  <2>1. log = <<>> /\ state # "converged" /\ pass.kind = "none" /\ late = {}
    BY <1>3 DEF VersionComesFirst
  <2>2. Payloads = {} /\ Kind(log, "map") = {} /\ Plan(log) = "wait"
    BY <2>1, EmptySeq DEF Payloads, Kind, Plan
  <2>3. CASE \E p \in 1..Cardinality(PairsSoFar) + 1 : PostVersion(p)
    <3>1. PICK p : log' = Append(log, [kind |-> "version", pair |-> p])
      BY <2>3 DEF PostVersion, Post
    <3>2. Len(log') \in Kind(log', "version")
      BY <3>1, KindsGrow
    <3> QED
      BY <3>2 DEF VersionComesFirst
  <2>4. ASSUME ~ \E p \in 1..Cardinality(PairsSoFar) + 1 : PostVersion(p)
        PROVE  UNCHANGED <<log, late>> /\ state' = state /\ pass'.kind = "none"
    <3>1. UNCHANGED <<log, late>> /\ state' = state
      BY <2>1, <2>2, <2>4
         DEF CycleNext, Step, Turn, Rest, MissAnchor, StateUnread, cycleVars, Converge,
             PostSummary, PostRequest, WriteDocument, DeleteAnchor, StartPass, FinishMap, FinishAudit, LosePass
    <3>2. pass' = pass \/ pass' = Idle
      BY <2>2, PassMoves
    <3> QED
      BY <2>1, <3>1, <3>2 DEF Idle
  <2> QED
    BY <2>1, <2>3, <2>4 DEF VersionComesFirst
<1> QED
  BY <1>2, <1>3

\* Attempts over a map are not taken back.
LEMMA SpentGrows ==
  ASSUME LogIsAChannel, NEW m, log' = Append(log, m), NEW map
  PROVE  /\ Spent(log', map) = Spent(log, map) \cup
              (IF m.kind = "reconciliation" /\ m.map = map THEN {Len(log')} ELSE {})
         /\ Requests(log', map) = Requests(log, map) \cup
              (IF m.kind = "request" /\ m.map = map THEN {Len(log')} ELSE {})
<1>1. log'[Len(log')] = m
  BY Appends
<1>2. Spent(log', map) = Spent(log, map) \cup
              (IF m.kind = "reconciliation" /\ m.map = map THEN {Len(log')} ELSE {})
  <2>1. /\ Kind(log', "reconciliation") = Kind(log, "reconciliation") \cup
                            (IF m.kind = "reconciliation" THEN {Len(log')} ELSE {})
        /\ \A k \in Kind(log, "reconciliation") : log'[k] = log[k]
    BY KindsGrow
  <2> QED
    BY <1>1, <2>1 DEF Spent
<1>3. Requests(log', map) = Requests(log, map) \cup
              (IF m.kind = "request" /\ m.map = map THEN {Len(log')} ELSE {})
  <2>1. /\ Kind(log', "request") = Kind(log, "request") \cup
                            (IF m.kind = "request" THEN {Len(log')} ELSE {})
        /\ \A k \in Kind(log, "request") : log'[k] = log[k]
    BY KindsGrow
  <2> QED
    BY <1>1, <2>1 DEF Requests
<1> QED
  BY <1>2, <1>3

LEMMA RequestsStep ==
  ASSUME LogIsAChannel, LateAreRecords, RequestsFollow, [CycleNext]_cycleVars
  PROVE  RequestsFollow'
<1>1. CASE log' = log
  BY <1>1 DEF RequestsFollow, Kind, Spent
<1>2. ASSUME NEW m, log' = Append(log, m), Posting(m)
      PROVE  RequestsFollow'
  <2> SUFFICES ASSUME NEW q \in Kind(log', "request")
               PROVE  \E j \in Spent(log', log'[q].map) : j < q
    BY DEF RequestsFollow
  <2>1. CASE q \in Kind(log, "request")
    <3>1. log'[q] = log[q]
      BY <1>2, <2>1, KindsGrow
    <3> QED
      BY <1>2, <2>1, <3>1, SpentGrows DEF RequestsFollow
  <2>2. CASE q \notin Kind(log, "request")
    <3>1. q = Len(log') /\ m.kind = "request" /\ log'[q] = m
      BY <1>2, <2>2, KindsGrow, Appends
    <3>2. PICK j : j \in Spent(log, m.map)
      BY <1>2, <3>1 DEF Posting
    <3>3. j < Len(log')
      BY <1>2, <3>2, KindsGrow DEF Spent
    <3> QED
      BY <1>2, <3>1, <3>2, <3>3, SpentGrows
  <2> QED
    BY <2>1, <2>2
<1> QED
  BY <1>1, <1>2, ChannelGrows

LEMMA AttemptsStep ==
  ASSUME LogIsAChannel, LateAreRecords, AttemptsAreAsked, [CycleNext]_cycleVars
  PROVE  AttemptsAreAsked'
<1>1. CASE log' = log
  BY <1>1 DEF AttemptsAreAsked, Kind, Spent, Requests
<1>2. ASSUME NEW m, log' = Append(log, m), Posting(m)
      PROVE  AttemptsAreAsked'
  <2> DEFINE Before == Kind(log, "reconciliation")
             Last   == Len(log')
  <2>1. /\ Kind(log', "reconciliation") = Before \cup
                      (IF m.kind = "reconciliation" THEN {Last} ELSE {})
        /\ \A k \in Before : k < Last /\ k \in Nat /\ log'[k] = log[k]
        /\ log'[Last] = m
    BY <1>2, KindsGrow, Appends
  <2>2. \A map : Spent(log', map) \subseteq Spent(log, map) \cup {Last}
    BY <1>2, SpentGrows
  <2>3. \A map : Requests(log, map) \subseteq Requests(log', map)
    BY <1>2, SpentGrows
  <2>4. m.kind = "reconciliation" => ReferencesHold(log, m)
    BY <1>2 DEF Posting
  <2>5. \A map, q : q \in Requests(log, map) => q \in Nat /\ q # 0 /\ q < Last
    BY <1>2, KindsGrow DEF Requests, Kind
  <2> SUFFICES ASSUME NEW k \in Kind(log', "reconciliation")
               PROVE  \/ /\ log'[k].request = 0
                         /\ \A j \in Spent(log', log'[k].map) : k <= j
                      \/ /\ log'[k].request \in Requests(log', log'[k].map)
                         /\ log'[k].request < k
                         /\ \A j \in Kind(log', "reconciliation") \ {k} :
                              log'[j].request # log'[k].request
    BY DEF AttemptsAreAsked
  <2> HIDE DEF Before, Last
  <2>6. CASE k \in Before
    <3>1. log'[k] = log[k] /\ k < Last /\ k \in Nat
      BY <2>1, <2>6
    <3>2. CASE log[k].request = 0 /\ \A j \in Spent(log, log[k].map) : k <= j
      <4>1. k <= Last
        BY <3>1, Appends, <1>2 DEF Last
      <4> QED
        BY <2>2, <3>1, <3>2, <4>1
    <3>3. CASE /\ log[k].request \in Requests(log, log[k].map) /\ log[k].request < k
               /\ \A j \in Before \ {k} : log[j].request # log[k].request
      <4>1. m.kind = "reconciliation" => m.request # log[k].request
        <5>1. log[k].request \in Consumed(log)
          BY <2>6 DEF Before, Consumed
        <5> QED
          BY <2>4, <2>5, <3>3, <5>1 DEF ReferencesHold
      <4> QED
        BY <2>1, <2>3, <3>1, <3>3, <4>1
    <3> QED
      BY <2>6, <3>2, <3>3 DEF AttemptsAreAsked, Before
  <2>7. CASE k \notin Before
    <3>1. k = Last /\ m.kind = "reconciliation" /\ log'[k] = m
      BY <2>1, <2>7
    <3>2. CASE m.request = 0
      <4>1. Spent(log, m.map) = {}
        BY <2>4, <3>1, <3>2 DEF ReferencesHold
      <4>2. Last <= Last
        BY <1>2, Appends DEF Last
      <4> QED
        BY <2>2, <3>1, <3>2, <4>1, <4>2
    <3>3. CASE m.request # 0
      <4>1. m.request \in Requests(log, m.map) \ Consumed(log)
        BY <2>4, <3>1, <3>3 DEF ReferencesHold
      <4>2. \A j \in Before : log'[j].request # m.request
        BY <2>1, <4>1 DEF Before, Consumed
      <4> QED
        BY <2>1, <2>3, <2>5, <3>1, <4>1, <4>2
    <3> QED
      BY <3>2, <3>3
  <2> QED
    BY <2>6, <2>7
<1> QED
  BY <1>1, <1>2, ChannelGrows

\* What Plan found when a pass starts.
LEMMA PassIsDue ==
  ASSUME NEW kind, kind = Plan(log), kind # "wait"
  PROVE  /\ state = "converged"
         /\ kind \in {"map", "reconciliation", "audit"}
         /\ kind = "reconciliation" => IntentAuditClean(log)
         /\ kind = "audit" => /\ log[LatestArtifact(log)].kind = "summary"
                              /\ FindingsOver(log, LatestArtifact(log)) = {}
BY DEF Plan

\* The summary an audit is given is the newest, and nothing was said of it yet.
LEMMA AuditStarts ==
  ASSUME LogIsAChannel, VersionComesFirst, FindingsFollowSummaries,
         StartPass("audit"), Plan(log) = "audit"
  PROVE  /\ pass'.about \in Kind(log, "summary")
         /\ \A k \in Kind(log, "findings") : log[k].for <= pass'.about
<1> DEFINE Artifacts == Kind(log, "version") \cup Kind(log, "summary")
<1>1. Len(log) \in Nat /\ Artifacts \subseteq 1 .. Len(log)
  BY DEF LogIsAChannel, Kind
<1>2. state = "converged" /\ log[LatestArtifact(log)].kind = "summary"
  BY PassIsDue
<1>3. Artifacts # {}
  BY <1>2 DEF VersionComesFirst
<1>4. LatestArtifact(log) \in Artifacts /\ \A j \in Artifacts : j <= LatestArtifact(log)
  <2>1. LatestArtifact(log) = Newest(Artifacts)
    BY DEF LatestArtifact
  <2> HIDE DEF Artifacts
  <2> QED
    BY <1>1, <1>3, <2>1, NewestIsLast
<1>5. pass'.about = LatestArtifact(log)
  BY DEF StartPass
<1>6. pass'.about \in Kind(log, "summary")
  BY <1>1, <1>2, <1>4, <1>5 DEF Kind
<1>7. \A k \in Kind(log, "findings") : log[k].for \in Artifacts
  BY DEF FindingsFollowSummaries
<1> QED
  BY <1>4, <1>5, <1>6, <1>7

\* The newest findings are the newest on the newest summary.
LEMMA ReconciliationStarts ==
  ASSUME LogIsAChannel, FindingsFollowSummaries,
         StartPass("reconciliation"), Plan(log) = "reconciliation"
  PROVE  /\ Kind(log, "findings") # {}
         /\ log[Newest(Kind(log, "findings"))].empty
         /\ log[Newest(Kind(log, "findings"))].for = pass'.summary
<1> DEFINE Audits    == Kind(log, "findings")
           Summaries == Kind(log, "summary")
           s         == Newest(Summaries)
           spoke     == FindingsOver(log, s)
<1>1. Len(log) \in Nat /\ Audits \subseteq 1 .. Len(log) /\ Summaries \subseteq 1 .. Len(log)
  BY DEF LogIsAChannel, Kind
<1>2. spoke # {} /\ log[Newest(spoke)].empty
  BY PassIsDue DEF IntentAuditClean
<1>3. pass'.summary = s
  BY DEF StartPass
<1>4. spoke = {k \in Audits : log[k].for = s}
  BY DEF FindingsOver
<1>5. /\ \A k \in Audits : log[k].for \in Summaries
      /\ \A i, j \in Audits : i < j => log[i].for <= log[j].for
  BY DEF FindingsFollowSummaries
<1> HIDE DEF Audits, Summaries, spoke, s
<1>6. Summaries # {} /\ Audits # {}
  BY <1>2, <1>4, <1>5
<1>7. s \in Summaries /\ \A j \in Summaries : j <= s
  BY <1>1, <1>6, NewestIsLast DEF s
<1> DEFINE last == Newest(Audits)
           heard == Newest(spoke)
<1>8. last \in Audits /\ \A j \in Audits : j <= last
  BY <1>1, <1>6, NewestIsLast
<1>9. heard \in spoke /\ \A j \in spoke : j <= heard
  BY <1>1, <1>2, <1>4, NewestIsLast
<1> HIDE DEF last, heard
<1>10. /\ last \in Nat /\ heard \in Nat /\ s \in Nat /\ log[last].for \in Nat
       /\ heard <= last /\ log[heard].for = s /\ log[last].for <= s
  <2>1. heard \in Audits /\ log[heard].for = s
    BY <1>4, <1>9
  <2>2. log[last].for \in Summaries
    BY <1>5, <1>8
  <2>3. /\ \A j \in Audits \cup Summaries : j \in Nat
    BY <1>1
  <2> QED
    BY <1>7, <1>8, <2>1, <2>2, <2>3
<1>11. log[last].for = s
  <2>1. CASE heard = last
    BY <1>10, <2>1
  <2>2. CASE heard < last
    <3>1. s <= log[last].for
      BY <1>4, <1>5, <1>8, <1>9, <1>10, <2>2
    <3> QED
      BY <1>10, <3>1
  <2> QED
    BY <1>10, <2>1, <2>2
<1>12. last = heard
  BY <1>4, <1>8, <1>9, <1>10, <1>11
<1> QED
  BY <1>2, <1>3, <1>6, <1>11, <1>12 DEF Audits, last, heard

LEMMA FindingsStep ==
  ASSUME LogIsAChannel, LateAreRecords, VersionComesFirst, FindingsFollowSummaries,
         [CycleNext]_cycleVars
  PROVE  FindingsFollowSummaries'
<1>1. CASE log' = log
  <2>1. CASE pass' = pass \/ pass' = Idle
    BY <1>1, <2>1 DEF FindingsFollowSummaries, Kind, Idle
  <2>2. CASE StartPass(Plan(log)) /\ Plan(log) # "wait"
    <3>1. pass'.kind = Plan(log)
      BY <2>2 DEF StartPass
    <3>2. CASE Plan(log) = "audit"
      BY <1>1, <2>2, <3>2, AuditStarts DEF FindingsFollowSummaries, Kind
    <3>3. CASE Plan(log) # "audit"
      BY <1>1, <3>1, <3>3 DEF FindingsFollowSummaries, Kind
    <3> QED
      BY <3>2, <3>3
  <2> QED
    BY <2>1, <2>2, PassMoves
<1>2. ASSUME NEW m, log' = Append(log, m), Posting(m), log' # log
      PROVE  FindingsFollowSummaries'
  <2>1. /\ Kind(log, "summary") \subseteq Kind(log', "summary")
        /\ Kind(log', "findings") = Kind(log, "findings") \cup
                            (IF m.kind = "findings" THEN {Len(log')} ELSE {})
        /\ \A k \in Kind(log, "findings") : k < Len(log') /\ k \in Nat /\ log'[k] = log[k]
        /\ log'[Len(log')] = m
    BY <1>2, KindsGrow, Appends
  <2>2. Len(log') \in Nat
    BY <1>2, Appends
  <2>3. pass' = pass \/ pass' = Idle
    BY <1>2, PassMoves
  <2>4. m.kind = "findings" => /\ m.for = pass.about /\ pass.kind = "audit" /\ pass' = Idle
    BY <1>2 DEF Posting
  <2>5. \A k \in Kind(log', "findings") : log'[k].for \in Kind(log', "summary")
    BY <2>1, <2>4 DEF FindingsFollowSummaries
  <2>6. \A i, j \in Kind(log', "findings") : i < j => log'[i].for <= log'[j].for
    BY <2>1, <2>2, <2>4 DEF FindingsFollowSummaries
  <2>7. pass'.kind = "audit" =>
             /\ pass'.about \in Kind(log', "summary")
             /\ \A k \in Kind(log', "findings") : log'[k].for <= pass'.about
    BY <2>1, <2>3, <2>4 DEF FindingsFollowSummaries, Idle
  <2> QED
    BY <2>5, <2>6, <2>7 DEF FindingsFollowSummaries
<1> QED
  BY <1>1, <1>2, ChannelGrows

\* Only an audit posts findings, and the watcher runs one pass at a time.
LEMMA ReadsStep ==
  ASSUME LogIsAChannel, LateAreRecords, FindingsFollowSummaries, ReadsNewestFindings,
         [CycleNext]_cycleVars
  PROVE  ReadsNewestFindings'
<1>1. CASE pass' = Idle
  BY <1>1 DEF ReadsNewestFindings, ReadsAgreedSummary, Idle
<1>2. CASE pass' = pass /\ log' = log
  BY <1>2 DEF ReadsNewestFindings, ReadsAgreedSummary, Kind
<1>3. ASSUME pass' = pass, pass' # Idle,
             NEW m, log' = Append(log, m), Posting(m)
      PROVE  ReadsNewestFindings'
  <2>1. /\ Kind(log', "findings") = Kind(log, "findings")
        /\ \A k \in Kind(log, "findings") : log'[k] = log[k]
    BY <1>3, KindsGrow DEF Posting
  <2>2. Kind(log, "findings") # {} => Newest(Kind(log, "findings")) \in Kind(log, "findings")
    <3>1. Len(log) \in Nat /\ Kind(log, "findings") \subseteq 1 .. Len(log)
      BY DEF LogIsAChannel, Kind
    <3> QED
      BY <3>1, NewestIsLast
  <2> QED
    BY <1>3, <2>1, <2>2 DEF ReadsNewestFindings, ReadsAgreedSummary
<1>4. CASE StartPass(Plan(log)) /\ Plan(log) # "wait" /\ log' = log
  <2>1. pass'.kind = Plan(log)
    BY <1>4 DEF StartPass
  <2>2. CASE Plan(log) = "reconciliation"
    BY <1>4, <2>2, ReconciliationStarts DEF ReadsNewestFindings, ReadsAgreedSummary, Kind
  <2> QED
    BY <2>1, <2>2 DEF ReadsNewestFindings, ReadsAgreedSummary
<1> QED
  BY <1>1, <1>2, <1>3, <1>4, PassMoves, ChannelGrows

------------------------------------------------------------------------------
(* The theorems. *)

LEMMA Starts == CycleInit => CycleIInv
<1> SUFFICES ASSUME CycleInit PROVE CycleIInv
  OBVIOUS
<1>1. log = <<>> /\ late = {} /\ state = "open" /\ pass.kind = "none"
  BY DEF CycleInit, Idle
<1>2. LogIsAChannel
  BY <1>1 DEF LogIsAChannel
<1>3. \A kind : Kind(log, kind) = {}
  BY <1>1 DEF Kind
<1> QED
  BY <1>1, <1>2, <1>3
     DEF CycleIInv, LateAreRecords, VersionComesFirst, RequestsFollow, AttemptsAreAsked,
         FindingsFollowSummaries, ReadsNewestFindings, ReadsAgreedSummary

LEMMA Continues ==
  ASSUME CycleIInv, [CycleNext]_cycleVars
  PROVE  CycleIInv'
<1>1. LogIsAChannel'
  <2>1. CASE log' = log
    BY <2>1 DEF CycleIInv, LogIsAChannel
  <2> QED
    BY <2>1, ChannelGrows, Appends DEF CycleIInv
<1> QED
  BY <1>1, LateStep, VersionStep, RequestsStep, AttemptsStep, FindingsStep, ReadsStep DEF CycleIInv

\* The inductive invariant: the order in which summaries, findings, requests and attempts
\* follow each other in the channel holds in every state.
THEOREM CycleInvariance == CycleSpec => []CycleIInv
<1>1. CycleInit => CycleIInv
  BY Starts
<1>2. CycleIInv /\ [CycleNext]_cycleVars => CycleIInv'
  BY Continues
<1> QED BY <1>1, <1>2, PTL DEF CycleSpec

LEMMA AttemptsAreSingle ==
  ASSUME CycleIInv
  PROVE  OneAttempt
<1> SUFFICES ASSUME NEW m \in Kind(log, "map"), NEW k \in Spent(log, m),
                    k # Oldest(Spent(log, m))
             PROVE  /\ log[k].request \in Requests(log, m)
                    /\ Oldest(Spent(log, m)) < log[k].request /\ log[k].request < k
                    /\ \A j \in Spent(log, m) \ {k} : log[j].request # log[k].request
  BY DEF OneAttempt
<1>1. /\ k \in Kind(log, "reconciliation") /\ log[k].map = m
      /\ Spent(log, m) \subseteq Kind(log, "reconciliation")
  BY DEF Spent
<1>2. Len(log) \in Nat /\ Spent(log, m) \subseteq 1 .. Len(log)
  BY DEF CycleIInv, LogIsAChannel, Spent, Kind
<1>3. Oldest(Spent(log, m)) \in Spent(log, m) /\ \A j \in Spent(log, m) : Oldest(Spent(log, m)) <= j
  BY <1>2, OldestIsFirst
<1>4. ~ \A j \in Spent(log, m) : k <= j
  BY <1>2, <1>3
<1>5. /\ log[k].request \in Requests(log, m) /\ log[k].request < k
      /\ \A j \in Kind(log, "reconciliation") \ {k} : log[j].request # log[k].request
  BY <1>1, <1>4 DEF CycleIInv, AttemptsAreAsked
<1>6. /\ log[k].request \in Kind(log, "request") /\ log[log[k].request].map = m
      /\ log[k].request \in Nat
  BY <1>5 DEF Requests, Kind
<1>7. PICK j : j \in Spent(log, m) /\ j < log[k].request
  BY <1>6 DEF CycleIInv, RequestsFollow
<1>8. Oldest(Spent(log, m)) < log[k].request
  BY <1>2, <1>3, <1>6, <1>7
<1> QED
  BY <1>1, <1>5, <1>8

\* Each map gets one attempt of its own, and every other takes up a request of the
\* operator's that came after it and that no other takes up: whatever dies, and whatever
\* record of a dead watcher arrives late (_validate_map_references).
THEOREM AttemptsAreLicensed == CycleSpec => []OneAttempt
<1>1. CycleIInv => OneAttempt
  BY AttemptsAreSingle
<1> QED BY <1>1, CycleInvariance, PTL

\* A reconciliation runs on a summary the critic found faithful, and it stays the last the
\* critic has spoken on until it ends (intent_audit_clean).
THEOREM SummariesAreAgreed == CycleSpec => []ReadsAgreedSummary
<1>1. CycleIInv => ReadsAgreedSummary
  BY DEF CycleIInv, ReadsNewestFindings, ReadsAgreedSummary
<1> QED BY <1>1, CycleInvariance, PTL
==============================================================================
