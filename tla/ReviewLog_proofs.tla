--------------------------- MODULE ReviewLog_proofs ---------------------------
(***************************************************************************)
(* Proofs about the review on the server: the four invariants of the log,  *)
(* for every set of findings and items, and that a review's every message  *)
(* takes its gate through a step of the round gate.                        *)
(*                                                                         *)
(* Of the round gate's state the log's invariants need only where the      *)
(* round stands: a pass runs between rounds, so a clean pass means that no *)
(* round is open.                                                          *)
(*                                                                         *)
(* And about the audience rounds, which publish on such a review: for      *)
(* every set of processes and every interleaving of their rounds, the gate *)
(* accepts what a round publishes, and no two assessments of one run       *)
(* contradict each other.                                                  *)
(***************************************************************************)
EXTENDS ReviewLog, Audience, FiniteSetTheorems, SequenceTheorems,
        WellFoundedInduction, TLAPS

------------------------------------------------------------------------------
(* The inductive invariant. *)

BetweenRounds == {"idle", "pass_running", "terminal"}

\* What is counted, and the order of the counts: reviewed is found once its
\* status followed, and nothing is found that was not posted.
Counted ==
    /\ latest \in Nat /\ found \in Nat /\ reviewed \in Nat
    /\ owesStatus \in Nat /\ passVersion \in Nat
    /\ reviewed <= found /\ owesStatus <= found /\ found <= latest
    /\ passVersion <= latest

LedgerTyped ==
    /\ raised \subseteq Findings
    /\ audit \subseteq Findings
    /\ outcome \in [Findings -> G!Outcomes \cup {"none"}]

GateFollowsRound ==
    /\ gate \in BetweenRounds <=> roundState = "none"
    /\ gate \in {"proposals_owed", "parked", "unparked", "round_closing"} =>
         roundState = gate
    /\ gate \in G!GateStates

PassIsBetweenRounds == passPhase # "none" => gate \in BetweenRounds /\ owesStatus = 0

\* A round would have made the pass unclean, or its version old.
CleanPassStands ==
    clean => roundState = "none" /\ (passPhase # "none" => passVersion = latest)

\* Over a declaration only an open observation still calls for a pass.
DeclarationStands ==
    declared => /\ clean
                /\ reviewed = latest
                /\ frame # "restated"
                /\ ~NoPassInFlight => obs = "open"

BlockerWasPosted == blockedObs => obs # "none"

\* Where the declaration does not count any more no pass runs over it.
Past == {"artifact_ready", "returned", "converged", "operator_gate",
         "operator_finalizing", "operator_finalized"}

NothingLeftToRun ==
    state \in Past /\ declared => NoPassInFlight /\ ~(blockedObs /\ obs = "open")

ReturnIsRemembered == state \in {"returned", "artifact_ready"} /\ declared => sentBack

ConvergedIsQuiet == state = "converged" /\ passPhase # "none" => passVersion \in summaries

\* The gate waits for the critic over a version nothing was found for yet.
GateWaitsForNewest ==
    gate \in {"pass_running", "round_closing"} /\ latest \notin summaries => found < latest

IInv ==
    /\ Counted
    /\ LedgerTyped
    /\ GateFollowsRound
    /\ PassIsBetweenRounds
    /\ CleanPassStands
    /\ DeclarationStands
    /\ BlockerWasPosted
    /\ NothingLeftToRun
    /\ ReturnIsRemembered
    /\ ConvergedIsQuiet
    /\ GateWaitsForNewest
    /\ ConvergedStands
    /\ OpenItemsPark
    /\ NoMissedCompletion

------------------------------------------------------------------------------
(* The invariant is inductive. *)

USE DEF BetweenRounds, Past, NoPassInFlight, Undisposed, OpenItems, LedgerSettled, ParkedNow,
        SelfComplete, gateVars, factVars, passVars, logVars, G!gateVars, G!itemVars, G!passVars

LEMMA InvInit == Init => IInv
  BY DEF Init, G!Init, G!GateStates, G!Outcomes, IInv, Counted, LedgerTyped,
       GateFollowsRound, PassIsBetweenRounds, CleanPassStands,
           DeclarationStands, BlockerWasPosted, NothingLeftToRun, ReturnIsRemembered,
           ConvergedIsQuiet, GateWaitsForNewest, ConvergedStands, OpenItemsPark,
           NoMissedCompletion

\* A version or the summary closes the round it answers, or opens the critic's
\* turn, and takes with it the clean pass and the declaration.
LEMMA ArtifactKeeps ==
    ASSUME IInv, NEW s \in BOOLEAN, AppendArtifact(s) PROVE IInv'
<1> USE DEF AppendArtifact, G!PostArtifact, G!AfterArtifact, G!NoRound
<1>1. Counted'
  BY DEF IInv, Counted
<1>2. LedgerTyped'
  BY DEF IInv, LedgerTyped, G!CloseLedger, G!FinalLabel, G!Outcomes
<1>3. GateFollowsRound'
  BY DEF IInv, GateFollowsRound, G!GateStates, G!LegalKinds, G!GateNow, G!OpenItems
<1>4. /\ PassIsBetweenRounds' /\ CleanPassStands' /\ DeclarationStands'
      /\ BlockerWasPosted' /\ NothingLeftToRun' /\ ReturnIsRemembered'
  BY DEF IInv, PassIsBetweenRounds, CleanPassStands, DeclarationStands, BlockerWasPosted,
         NothingLeftToRun, ReturnIsRemembered, GateFollowsRound
<1>5. ConvergedIsQuiet' /\ GateWaitsForNewest'
  BY DEF IInv, Counted, ConvergedIsQuiet, GateWaitsForNewest
<1>6. ConvergedStands'
  BY DEF IInv, ConvergedStands, GateFollowsRound
<1>7. OpenItemsPark' /\ NoMissedCompletion'
  BY DEF IInv, OpenItemsPark, NoMissedCompletion
<1> QED BY <1>1, <1>2, <1>3, <1>4, <1>5, <1>6, <1>7 DEF IInv

LEMMA InvStep == IInv /\ [Next]_vars => IInv'
<1> SUFFICES ASSUME IInv, [Next]_vars PROVE IInv'
  OBVIOUS
<1> USE DEF IInv, Counted, LedgerTyped, GateFollowsRound, PassIsBetweenRounds, CleanPassStands,
           DeclarationStands, BlockerWasPosted, NothingLeftToRun, ReturnIsRemembered,
           ConvergedIsQuiet, GateWaitsForNewest, ConvergedStands, OpenItemsPark,
           NoMissedCompletion
<1>1. CASE UNCHANGED vars
  BY <1>1 DEF vars
<1>2. ASSUME NEW s \in BOOLEAN, AppendArtifact(s) PROVE IInv'
  BY <1>2, ArtifactKeeps
<1>3. ASSUME NEW ps \in [Findings -> Proposals], AppendGateStep(G!PostProposals(ps))
      PROVE  IInv'
  BY <1>3 DEF AppendGateStep, G!PostProposals, G!Parking, G!GateStates, G!LegalKinds,
       G!GateNow, G!OpenItems
<1>4. ASSUME NEW f \in Findings, NEW d \in Directives, AppendGateStep(G!PostDirective(f, d))
      PROVE  IInv'
  BY <1>4 DEF AppendGateStep, G!PostDirective, G!Parking, G!GateStates, G!LegalKinds,
       G!GateNow, G!OpenItems
<1>5. ASSUME NEW f \in Findings, AppendGateStep(G!PostReport(f)) PROVE IInv'
  BY <1>5 DEF AppendGateStep, G!PostReport, G!Parking, G!GateStates, G!LegalKinds, G!GateNow,
       G!OpenItems
<1>6. ASSUME NEW i \in G!Items \ {Defect}, AppendGateStep(G!Escalate(i)) PROVE IInv'
  BY <1>6 DEF AppendGateStep, G!Escalate
<1>7. ASSUME AppendGateStep(G!AskHuman) PROVE IInv'
  BY <1>7 DEF AppendGateStep, G!AskHuman
<1>8. ASSUME NEW f \in Findings, NEW o \in {"fixed", "waived"}, AppendDisposition(f, o)
      PROVE  IInv'
  BY <1>8 DEF AppendDisposition, G!PostDisposition, G!NoRound, G!GateStates, G!Outcomes,
              G!LegalKinds, G!GateNow, G!OpenItems
<1>9. ASSUME NEW m \in {"now", "after_fixes"}, AppendFinalize(m) PROVE IInv'
  BY <1>9 DEF AppendFinalize, G!PostFinalize, G!NoRound, G!CloseLedger, G!FinalLabel,
              G!GateStates, G!Outcomes, G!LegalKinds, G!GateNow, G!OpenItems
<1>10. ASSUME AppendDefect PROVE IInv'
  BY <1>10 DEF AppendDefect, G!Escalate
<1>11. ASSUME AppendDefectResult PROVE IInv'
  BY <1>11 DEF AppendDefectResult
<1>12. ASSUME NEW i \in G!Items, NEW returns \in BOOLEAN, AppendDecision(i, returns)
       PROVE  IInv'
  BY <1>12 DEF AppendDecision, G!Answer
<1>13. ASSUME AppendFreeze PROVE IInv'
  BY <1>13 DEF AppendFreeze, G!Answer
<1>14. ASSUME AppendContext PROVE IInv'
  BY <1>14 DEF AppendContext
<1>15. ASSUME AppendObservation PROVE IInv'
  BY <1>15 DEF AppendObservation
<1>16. ASSUME StartPass PROVE IInv'
  BY <1>16 DEF StartPass, Due, G!PlanPass, G!PassAllowed, G!GateNow, G!OpenItems
<1>17. ASSUME RecheckPass PROVE IInv'
  BY <1>17 DEF RecheckPass, G!RecheckChannel, G!EndPass, G!NoPass
<1>18. ASSUME NEW S \in SUBSET Findings, NEW R \in SUBSET Findings,
              NEW cs \in [Findings -> Classes], AppendFindings(S, cs, R)
       PROVE  IInv'
  <2> USE <1>18 DEF AppendFindings, G!PostFindings, G!OpenRound, G!NoPass, G!GateStates
  <2>1. Counted'
    OBVIOUS
  <2>2. LedgerTyped'
    OBVIOUS
  <2>3. GateFollowsRound'
    OBVIOUS
  <2>4. PassIsBetweenRounds'
    OBVIOUS
  <2>5. GateWaitsForNewest'
    OBVIOUS
  <2>6. CleanPassStands'
    OBVIOUS
  <2>7. DeclarationStands'
    OBVIOUS
  <2>8. BlockerWasPosted'
    OBVIOUS
  <2>9. NothingLeftToRun'
    OBVIOUS
  <2>10. ReturnIsRemembered'
    OBVIOUS
  <2>11. ConvergedIsQuiet'
    OBVIOUS
  <2>12. ConvergedStands'
    OBVIOUS
  <2>13. OpenItemsPark'
    OBVIOUS
  <2>14. NoMissedCompletion'
    OBVIOUS
  <2> QED BY <2>1, <2>2, <2>3, <2>4, <2>5, <2>6, <2>7, <2>8, <2>9, <2>10, <2>11, <2>12,
       <2>13, <2>14
<1>19. ASSUME NEW answers \in BOOLEAN, StatusIteration(answers) PROVE IInv'
  <2> USE <1>19 DEF StatusIteration, PassEnds, NowReviewed
  <2>1. Counted'
    OBVIOUS
  <2>2. LedgerTyped'
    OBVIOUS
  <2>3. GateFollowsRound'
    OBVIOUS
  <2>4. PassIsBetweenRounds'
    OBVIOUS
  <2>5. GateWaitsForNewest'
    OBVIOUS
  <2>6. CleanPassStands'
    OBVIOUS
  <2>7. DeclarationStands'
    OBVIOUS
  <2>8. BlockerWasPosted'
    OBVIOUS
  <2>9. NothingLeftToRun'
    OBVIOUS
  <2>10. ReturnIsRemembered'
    OBVIOUS
  <2>11. ConvergedIsQuiet'
    OBVIOUS
  <2>12. ConvergedStands'
    OBVIOUS
  <2>13. OpenItemsPark'
    OBVIOUS
  <2>14. NoMissedCompletion'
    OBVIOUS
  <2> QED BY <2>1, <2>2, <2>3, <2>4, <2>5, <2>6, <2>7, <2>8, <2>9, <2>10, <2>11, <2>12,
       <2>13, <2>14
<1>20. ASSUME NEW answers \in BOOLEAN, StatusHuman(answers) PROVE IInv'
  BY <1>20 DEF StatusHuman, PassEnds, NowReviewed, G!AskHuman
<1>21. ASSUME NEW answers \in BOOLEAN, StatusConverged(answers) PROVE IInv'
  <2> USE <1>21 DEF StatusConverged, PassEnds, NowReviewed
  <2>1. Counted'
    OBVIOUS
  <2>2. LedgerTyped'
    OBVIOUS
  <2>3. GateFollowsRound'
    OBVIOUS
  <2>4. PassIsBetweenRounds'
    OBVIOUS
  <2>5. GateWaitsForNewest'
    OBVIOUS
  <2>6. CleanPassStands'
    OBVIOUS
  <2>7. DeclarationStands'
    OBVIOUS
  <2>8. BlockerWasPosted'
    OBVIOUS
  <2>9. NothingLeftToRun'
    OBVIOUS
  <2>10. ReturnIsRemembered'
    OBVIOUS
  <2>11. ConvergedIsQuiet'
    OBVIOUS
  <2>12. ConvergedStands'
    OBVIOUS
  <2>13. OpenItemsPark'
    OBVIOUS
  <2>14. NoMissedCompletion'
    OBVIOUS
  <2> QED BY <2>1, <2>2, <2>3, <2>4, <2>5, <2>6, <2>7, <2>8, <2>9, <2>10, <2>11, <2>12,
       <2>13, <2>14
<1>22. ASSUME LosePass PROVE IInv'
  BY <1>22 DEF LosePass, G!EndPass, G!NoPass
<1>23. ASSUME NEW t \in States, AdvanceState(t) PROVE IInv'
  BY <1>23 DEF AdvanceState, Lifecycle, States
<1> QED BY <1>1, <1>2, <1>3, <1>4, <1>5, <1>6, <1>7, <1>8, <1>9, <1>10, <1>11, <1>12, <1>13,
           <1>14, <1>15, <1>16, <1>17, <1>18, <1>19, <1>20, <1>21, <1>22, <1>23
        DEF Next

------------------------------------------------------------------------------
\* The inductive invariant holds in every reachable state.
THEOREM Invariance == Spec => []IInv
  BY InvInit, InvStep, PTL DEF Spec

\* A converged review has no round and no open finding of an ordinary version,
\* and a clean, declared pass over it: whichever of the two routes converged it,
\* and whatever is posted afterwards.
THEOREM ConvergedIsSettled == Spec => []ConvergedStands
<1>1. IInv => ConvergedStands
  BY DEF IInv
<1> QED BY <1>1, Invariance, PTL

\* A review with an unanswered operator item shows as parked, through every
\* assignment of the flag, save after the operator's final.
THEOREM ItemsShowAsParked == Spec => []OpenItemsPark
<1>1. IInv => OpenItemsPark
  BY DEF IInv
<1> QED BY <1>1, Invariance, PTL

\* The message that settles the last blocker of a declared convergence converges
\* the review, unless an answer returned the version.
THEOREM CompletionIsNotMissed == Spec => []NoMissedCompletion
<1>1. IInv => NoMissedCompletion
  BY DEF IInv
<1> QED BY <1>1, Invariance, PTL

\* A gate that waits for the critic over an ordinary version has its pass due.
THEOREM PassIsDue == Spec => []GateTurnIsDue
<1>1. IInv => GateTurnIsDue
  BY DEF IInv, Counted, GateWaitsForNewest, GateTurnIsDue, Due
<1> QED BY <1>1, Invariance, PTL

\* The review log drives the round gate by the gate's own steps only: what
\* RoundGate_proofs says of every behaviour of the gate is true of the gate of
\* every review (append_message changes nothing the gate is folded from).
THEOREM GateIsFollowed == Spec => G!Spec
<1>1. Init => G!Init
  BY DEF Init
<1>2. [Next]_vars => [G!Next]_G!vars
  <2> SUFFICES ASSUME [Next]_vars PROVE [G!Next]_G!vars
    OBVIOUS
  <2> USE DEF G!Next, G!vars
  <2>1. CASE UNCHANGED vars
    BY <2>1 DEF vars
  <2>2. CASE \/ \E s \in BOOLEAN : AppendArtifact(s)
             \/ \E f \in Findings, o \in {"fixed", "waived"} : AppendDisposition(f, o)
             \/ \E m \in {"now", "after_fixes"} : AppendFinalize(m)
    BY <2>2 DEF AppendArtifact, AppendDisposition, AppendFinalize
  <2>3. CASE \/ \E ps \in [Findings -> Proposals] : AppendGateStep(G!PostProposals(ps))
             \/ \E f \in Findings, d \in Directives : AppendGateStep(G!PostDirective(f, d))
             \/ \E f \in Findings : AppendGateStep(G!PostReport(f))
             \/ \E i \in G!Items \ {Defect} : AppendGateStep(G!Escalate(i))
             \/ AppendGateStep(G!AskHuman)
    BY <2>3 DEF AppendGateStep
  <2>4. CASE AppendDefect \/ AppendFreeze
             \/ \E i \in G!Items, returns \in BOOLEAN : AppendDecision(i, returns)
    BY <2>4, DefectAssumption DEF AppendDefect, AppendFreeze, AppendDecision, G!Items
  <2>5. CASE \/ AppendDefectResult \/ AppendContext \/ AppendObservation
             \/ \E t \in States : AdvanceState(t)
    BY <2>5 DEF AppendDefectResult, AppendContext, AppendObservation, AdvanceState
  <2>6. CASE StartPass \/ RecheckPass \/ LosePass
    BY <2>6 DEF StartPass, RecheckPass, LosePass
  <2>7. CASE \E S, R \in SUBSET Findings, cs \in [Findings -> Classes] :
                AppendFindings(S, cs, R)
    BY <2>7 DEF AppendFindings
  <2>8. CASE \E answers \in BOOLEAN :
                StatusIteration(answers) \/ StatusHuman(answers) \/ StatusConverged(answers)
    BY <2>8 DEF StatusIteration, StatusHuman, StatusConverged
  <2> QED BY <2>1, <2>2, <2>3, <2>4, <2>5, <2>6, <2>7, <2>8 DEF Next
<1> QED BY <1>1, <1>2, PTL DEF Spec, G!Spec

------------------------------------------------------------------------------
(* The audience rounds: the inductive invariant. *)

IsChannel(L) == \E S : L \in Seq(S)

AssessmentKinds == {"blind"} \cup RoleNames
RecordsIn(L)    == {k \in 1 .. Len(L) : L[k].phase = "run_record"}
AssessmentsIn(L) == {k \in 1 .. Len(L) : L[k].phase \in AssessmentKinds}

\* A published run was launched, and a reading after its canary.
RecordFits(r, n) ==
  /\ r.id \in 1 .. n
  /\ r.version \in Nat \ {0}
  /\ r.kind = "blind" => r.canary \in Nat /\ r.canary < r.id

\* A run is published once, and no two readings share a canary.
PublishedOnce(L) ==
  \A j, k \in RecordsIn(L) :
    /\ L[j].record.id = L[k].record.id => j = k
    /\ L[j].record.kind = "blind" /\ L[k].record.kind = "blind"
       /\ L[j].record.canary = L[k].record.canary => j = k

\* The reading published at j stands on its canary.
Stands(L, j) ==
  LET r == L[j].record
  IN  /\ ~r.tools
      /\ \E i \in RecordsIn(L) :
           LET c == L[i].record
           IN  /\ i < j
               /\ c.kind = "canary" /\ c.id = r.canary
               /\ Complete(c) /\ ~c.tools /\ c.outcome = "happened" /\ c.clean
               /\ c.runner = r.runner
               /\ c.version = r.version
               /\ c.id + 1 = r.id
               /\ c.markers \in 1 .. Len(L) /\ L[c.markers].phase = "canary_markers"
               /\ L[c.markers].at < c.started
               /\ c.answer \in 1 .. Len(L) /\ L[c.answer].phase = "canary"
               /\ L[c.answer].version = c.version

\* The assessment published at k stands on a run, or restates what says so.
Grounded(L, k) ==
  LET m == L[k]
  IN  \E j \in RecordsIn(L) :
        LET r == L[j].record
        IN  /\ j < k
            /\ r.id = m.source /\ r.kind = m.phase /\ r.digest = m.digest
            /\ Complete(r) /\ r.outcome = "happened"
            /\ IF m.from = <<0, 0>>
               THEN r.version = m.version /\ r.iteration = m.iteration
               ELSE /\ m.from = <<r.version, r.iteration>>
                    /\ m.iteration > r.iteration
                    /\ \E i \in AssessmentsIn(L) :
                          i < k /\ L[i].phase = m.phase /\ L[i].source = m.source
            /\ m.phase = "blind" => Stands(L, j)

\* Assessments of one run say one thing.
SayOneThing(L) ==
  \A j, k \in AssessmentsIn(L) :
    L[j].source = L[k].source =>
      L[j].findings = L[k].findings /\ L[j].digest = L[k].digest

ChannelFits(L, n) ==
  /\ IsChannel(L)
  /\ \A k \in RecordsIn(L) : RecordFits(L[k].record, n)
  /\ PublishedOnce(L)
  /\ \A k \in AssessmentsIn(L) : Grounded(L, k)
  /\ SayOneThing(L)

Places == {"idle", "canary", "canary runs", "blind", "blind runs", "blind findings",
           "role", "role runs next", "role runs", "role findings"}
InReading == {"blind", "blind runs"}
InRole    == {"role", "role runs next", "role runs", "role findings"}
ToAssess  == {"blind findings", "role findings"}

IsRecord(r) == r = [x \in DOMAIN NoRecord |-> r[x]]
IsRound(q)  == q = [x \in DOMAIN Idle |-> q[x]]

KindRun(q) ==
  IF q.pc = "canary runs" THEN "canary"
  ELSE IF q.pc \in {"blind runs", "blind findings"} THEN "blind" ELSE Roles[q.role]

\* A launch under way is the journal's last, and is not published.
LaunchFits(q, L, n) ==
  /\ IsRecord(q.run)
  /\ q.run.id = n /\ n \in Nat \ {0}
  /\ q.run.kind = KindRun(q)
  /\ q.run.version = q.version /\ q.run.iteration = q.iteration /\ q.run.runner # 0
  /\ q.pc = "canary runs" => q.run.markers = q.markers
  /\ q.pc = "blind runs" => q.run.canary = q.canary.id
  /\ \A k \in RecordsIn(L) : L[k].record.id < n

\* The canary a reading stands on is published, and no reading has used it.
CanaryFits(q, L) ==
  /\ \E i \in RecordsIn(L) : L[i].record = q.canary
  /\ q.canary.kind = "canary" /\ q.canary.outcome = "happened"
  /\ q.canary.markers = q.markers
  /\ q.canary.answer \in 1 .. Len(L) /\ L[q.canary.answer].phase = "canary"
  /\ L[q.canary.answer].version = q.canary.version
  /\ \A k \in RecordsIn(L) :
        L[k].record.kind = "blind" => L[k].record.canary # q.canary.id

\* What is to be assessed is published, and no assessment names it.
CreditFits(q, L) ==
  /\ \E j \in RecordsIn(L) :
       /\ L[j].record = q.run
       /\ q.run.kind = "blind" => Stands(L, j)
  /\ q.run.kind = KindRun(q)
  /\ Complete(q.run) /\ q.run.outcome = "happened"
  /\ q.run.version = q.version /\ q.run.iteration = q.iteration
  /\ \A k \in AssessmentsIn(L) : L[k].source # q.run.id

RoundFits(p, q, L, n, holder) ==
  /\ IsRound(q)
  /\ q.pc \in Places
  /\ q.pc # "idle" => q.version \in Nat \ {0} /\ q.iteration \in Nat \ {0}
  /\ q.pc \in {"canary", "canary runs"} \cup InReading =>
       q.markers \in 1 .. Len(L) /\ L[q.markers].phase = "canary_markers"
  /\ q.pc \in Launching => holder = p /\ LaunchFits(q, L, n)
  /\ q.pc \in InReading => CanaryFits(q, L)
  /\ q.pc \in InRole => q.role \in 1 .. Len(Roles)
  /\ q.pc \in ToAssess => CreditFits(q, L)

\* Two rounds assess different runs, and read over different canaries.
Apart(a, b) ==
  /\ a.pc \in ToAssess /\ b.pc \in ToAssess => a.run.id # b.run.id
  /\ a.pc \in InReading /\ b.pc \in InReading => a.canary.id # b.canary.id

AudienceIInv ==
  /\ versions \in Nat /\ rounds \in Nat /\ journal \in Nat /\ runner \in Nat \ {0}
  /\ ChannelFits(channel, journal)
  /\ round = [p \in Procs |-> round[p]]
  /\ \A p \in Procs : RoundFits(p, round[p], channel, journal, lock)
  /\ \A p, o \in Procs : p # o => Apart(round[p], round[o])

------------------------------------------------------------------------------
(* The channel grows. *)

LEMMA PhasesDiffer ==
  /\ RoleNames \subseteq {"strategic", "machine"}
  /\ \A k \in AssessmentKinds : k \notin {"canary_markers", "canary", "run_record", "disposition"}
  /\ "blind" \notin RoleNames
<1>1. RoleNames \subseteq {"strategic", "machine"}
  BY AudienceAssumption DEF RoleNames
<1> QED BY <1>1 DEF AssessmentKinds

LEMMA ChannelGrows ==
  ASSUME NEW L, IsChannel(L), NEW m
  PROVE  /\ IsChannel(Append(L, m))
         /\ Len(L) \in Nat /\ Len(Append(L, m)) = Len(L) + 1
         /\ \A k \in 1 .. Len(L) : Append(L, m)[k] = L[k]
         /\ Append(L, m)[Len(L) + 1] = m
<1>1. PICK S : L \in Seq(S)
  BY DEF IsChannel
<1>2. L \in Seq(S \cup {m})
  BY <1>1, SeqMonotonic
<1>3. /\ Append(L, m) \in Seq(S \cup {m})
      /\ Len(L) \in Nat /\ Len(Append(L, m)) = Len(L) + 1
      /\ \A k \in 1 .. Len(L) : Append(L, m)[k] = L[k]
      /\ Append(L, m)[Len(L) + 1] = m
  BY <1>2
<1> QED BY <1>3 DEF IsChannel

\* What is new in a channel is its last message.
LEMMA LastIsNew ==
  ASSUME NEW L, IsChannel(L), NEW m
  PROVE  /\ RecordsIn(L) \subseteq RecordsIn(Append(L, m))
         /\ \A k \in RecordsIn(Append(L, m)) :
              k \in RecordsIn(L) \/ (k = Len(L) + 1 /\ m.phase = "run_record")
         /\ AssessmentsIn(L) \subseteq AssessmentsIn(Append(L, m))
         /\ \A k \in AssessmentsIn(Append(L, m)) :
              k \in AssessmentsIn(L) \/ (k = Len(L) + 1 /\ m.phase \in AssessmentKinds)
         /\ m.phase = "run_record" => Len(L) + 1 \in RecordsIn(Append(L, m))
<1> DEFINE M == Append(L, m)
<1>1. /\ Len(L) \in Nat /\ Len(M) = Len(L) + 1
      /\ \A k \in 1 .. Len(L) : M[k] = L[k]
      /\ M[Len(L) + 1] = m
  BY ChannelGrows
<1> HIDE DEF M
<1>2. \A k \in 1 .. Len(M) : k \in 1 .. Len(L) \/ k = Len(L) + 1
  BY <1>1
<1>3. 1 .. Len(L) \subseteq 1 .. Len(M) /\ Len(L) + 1 \in 1 .. Len(M)
  BY <1>1
<1>4. RecordsIn(L) \subseteq RecordsIn(M) /\ AssessmentsIn(L) \subseteq AssessmentsIn(M)
  BY <1>1, <1>3 DEF RecordsIn, AssessmentsIn
<1>5. \A k \in RecordsIn(M) : k \in RecordsIn(L) \/ (k = Len(L) + 1 /\ m.phase = "run_record")
  BY <1>1, <1>2 DEF RecordsIn
<1>6. \A k \in AssessmentsIn(M) :
         k \in AssessmentsIn(L) \/ (k = Len(L) + 1 /\ m.phase \in AssessmentKinds)
  BY <1>1, <1>2 DEF AssessmentsIn
<1>7. m.phase = "run_record" => Len(L) + 1 \in RecordsIn(M)
  BY <1>1, <1>3 DEF RecordsIn
<1> QED BY <1>4, <1>5, <1>6, <1>7 DEF M

LEMMA StandsStill ==
  ASSUME NEW L, IsChannel(L), NEW m, NEW j \in RecordsIn(L), Stands(L, j)
  PROVE  Stands(Append(L, m), j)
<1> DEFINE M == Append(L, m)
<1>1. /\ Len(L) \in Nat /\ Len(M) = Len(L) + 1
      /\ \A k \in 1 .. Len(L) : M[k] = L[k]
      /\ RecordsIn(L) \subseteq RecordsIn(M) /\ RecordsIn(L) \subseteq 1 .. Len(L)
      /\ 1 .. Len(L) \subseteq 1 .. Len(M)
  BY ChannelGrows, LastIsNew DEF RecordsIn
<1> HIDE DEF M
<1>2. PICK i \in RecordsIn(L) :
         LET c == L[i].record
             r == L[j].record
         IN  /\ i < j
             /\ c.kind = "canary" /\ c.id = r.canary
             /\ Complete(c) /\ ~c.tools /\ c.outcome = "happened" /\ c.clean
             /\ c.runner = r.runner
             /\ c.version = r.version
             /\ c.id + 1 = r.id
             /\ c.markers \in 1 .. Len(L) /\ L[c.markers].phase = "canary_markers"
             /\ L[c.markers].at < c.started
             /\ c.answer \in 1 .. Len(L) /\ L[c.answer].phase = "canary"
             /\ L[c.answer].version = c.version
  BY DEF Stands
<1>3. M[i] = L[i] /\ M[j] = L[j] /\ i \in RecordsIn(M)
  BY <1>1
<1>4. /\ L[i].record.markers \in 1 .. Len(M) /\ M[L[i].record.markers] = L[L[i].record.markers]
      /\ L[i].record.answer \in 1 .. Len(M) /\ M[L[i].record.answer] = L[L[i].record.answer]
  BY <1>1, <1>2
<1>5. ~L[j].record.tools
  BY DEF Stands
<1> DEFINE c == L[i].record
           r == L[j].record
<1>6. /\ c = M[i].record /\ r = M[j].record
      /\ i < j
      /\ c.kind = "canary" /\ c.id = r.canary
      /\ Complete(c) /\ ~c.tools /\ c.outcome = "happened" /\ c.clean
      /\ c.runner = r.runner
      /\ c.version = r.version
      /\ c.id + 1 = r.id
      /\ c.markers \in 1 .. Len(M) /\ M[c.markers].phase = "canary_markers"
      /\ M[c.markers].at < c.started
      /\ c.answer \in 1 .. Len(M) /\ M[c.answer].phase = "canary"
      /\ M[c.answer].version = c.version
      /\ ~r.tools
  BY <1>2, <1>3, <1>4, <1>5
<1> HIDE DEF c, r
<1>7. Stands(M, j)
  BY <1>3, <1>6 DEF Stands
<1> QED BY <1>7 DEF M

LEMMA GroundedStill ==
  ASSUME NEW L, IsChannel(L), NEW m, NEW k \in AssessmentsIn(L), Grounded(L, k)
  PROVE  Grounded(Append(L, m), k)
<1> DEFINE M == Append(L, m)
<1>1. /\ Len(L) \in Nat /\ Len(M) = Len(L) + 1
      /\ \A x \in 1 .. Len(L) : M[x] = L[x]
      /\ RecordsIn(L) \subseteq RecordsIn(M) /\ RecordsIn(L) \subseteq 1 .. Len(L)
      /\ AssessmentsIn(L) \subseteq AssessmentsIn(M) /\ AssessmentsIn(L) \subseteq 1 .. Len(L)
  BY ChannelGrows, LastIsNew DEF RecordsIn, AssessmentsIn
<1>2. \A j \in RecordsIn(L) : Stands(L, j) => Stands(M, j)
  BY StandsStill
<1> HIDE DEF M
<1>3. M[k] = L[k] /\ \A j \in RecordsIn(L) : M[j] = L[j]
  BY <1>1
<1>4. \A i \in AssessmentsIn(L) : M[i] = L[i] /\ i \in AssessmentsIn(M)
  BY <1>1
<1>5. Grounded(M, k)
  BY <1>1, <1>2, <1>3, <1>4 DEF Grounded
<1> QED BY <1>5 DEF M

\* What a message must be for the channel to keep its invariant.
MayPublish(L, r, n) ==
  /\ RecordFits(r, n)
  /\ \A k \in RecordsIn(L) :
       /\ L[k].record.id # r.id
       /\ L[k].record.kind = "blind" /\ r.kind = "blind" => L[k].record.canary # r.canary

LEMMA RecordPublished ==
  ASSUME NEW n, NEW L, ChannelFits(L, n), NEW m,
         m.phase = "run_record" => MayPublish(L, m.record, n),
         m.phase \notin AssessmentKinds
  PROVE  ChannelFits(Append(L, m), n)
<1> DEFINE M == Append(L, m)
<1>0. IsChannel(L)
  BY DEF ChannelFits
<1>1. /\ IsChannel(M)
      /\ Len(L) \in Nat /\ Len(M) = Len(L) + 1
      /\ \A x \in 1 .. Len(L) : M[x] = L[x]
      /\ M[Len(L) + 1] = m
      /\ RecordsIn(L) \subseteq 1 .. Len(L) /\ AssessmentsIn(L) \subseteq 1 .. Len(L)
      /\ \A k \in RecordsIn(M) : k \in RecordsIn(L) \/ (k = Len(L) + 1 /\ m.phase = "run_record")
      /\ \A k \in AssessmentsIn(M) : k \in AssessmentsIn(L)
  BY <1>0, ChannelGrows, LastIsNew DEF RecordsIn, AssessmentsIn
<1>2. \A k \in AssessmentsIn(L) : Grounded(M, k)
  BY <1>0, GroundedStill DEF ChannelFits
<1> HIDE DEF M
<1>3. \A k \in RecordsIn(L) : M[k] = L[k]
  BY <1>1
<1>4. \A k \in AssessmentsIn(L) : M[k] = L[k]
  BY <1>1
<1>5. \A k \in RecordsIn(M) : RecordFits(M[k].record, n)
  BY <1>1, <1>3 DEF ChannelFits, MayPublish
<1>6. PublishedOnce(M)
  BY <1>1, <1>3 DEF ChannelFits, MayPublish, PublishedOnce
<1>7. SayOneThing(M)
  BY <1>1, <1>4 DEF ChannelFits, SayOneThing
<1>8. ChannelFits(M, n)
  BY <1>1, <1>2, <1>5, <1>6, <1>7 DEF ChannelFits
<1> QED BY <1>8 DEF M

LEMMA AssessmentPublished ==
  ASSUME NEW n, NEW L, ChannelFits(L, n), NEW m, m.phase \in AssessmentKinds,
         Grounded(Append(L, m), Len(L) + 1),
         \A k \in AssessmentsIn(L) :
            L[k].source = m.source => L[k].findings = m.findings /\ L[k].digest = m.digest
  PROVE  ChannelFits(Append(L, m), n)
<1> DEFINE M == Append(L, m)
<1>0. IsChannel(L) /\ m.phase # "run_record"
  BY PhasesDiffer DEF ChannelFits
<1>1. /\ IsChannel(M)
      /\ Len(L) \in Nat /\ Len(M) = Len(L) + 1
      /\ \A x \in 1 .. Len(L) : M[x] = L[x]
      /\ M[Len(L) + 1] = m
      /\ RecordsIn(L) \subseteq 1 .. Len(L) /\ AssessmentsIn(L) \subseteq 1 .. Len(L)
      /\ \A k \in RecordsIn(M) : k \in RecordsIn(L)
      /\ \A k \in AssessmentsIn(M) : k \in AssessmentsIn(L) \/ k = Len(L) + 1
  BY <1>0, ChannelGrows, LastIsNew DEF RecordsIn, AssessmentsIn
<1>2. \A k \in AssessmentsIn(M) : Grounded(M, k)
  BY <1>0, <1>1, GroundedStill DEF ChannelFits
<1> HIDE DEF M
<1>3. \A k \in RecordsIn(L) : M[k] = L[k]
  BY <1>1
<1>4. \A k \in AssessmentsIn(L) : M[k] = L[k]
  BY <1>1
<1>5. \A k \in RecordsIn(M) : RecordFits(M[k].record, n)
  BY <1>1, <1>3 DEF ChannelFits
<1>6. PublishedOnce(M)
  BY <1>1, <1>3 DEF ChannelFits, PublishedOnce
<1>7. SayOneThing(M)
  <2>1. \A k \in AssessmentsIn(M) :
           (M[k] = L[k] /\ k \in AssessmentsIn(L)) \/ (M[k] = m /\ k = Len(L) + 1)
    BY <1>1, <1>4
  <2> QED BY <2>1 DEF ChannelFits, SayOneThing
<1>8. ChannelFits(M, n)
  BY <1>1, <1>2, <1>5, <1>6, <1>7 DEF ChannelFits
<1> QED BY <1>8 DEF M

------------------------------------------------------------------------------
(* The rounds. *)

LEMMA RoundForm ==
  ASSUME NEW q
  PROVE  IsRound(q) <=>
           q = [x \in {"pc", "version", "iteration", "seen", "live", "attempt", "annulled",
                       "markers", "canary", "own", "run", "said", "role"} |-> q[x]]
<1>1. DOMAIN Idle = {"pc", "version", "iteration", "seen", "live", "attempt", "annulled",
                     "markers", "canary", "own", "run", "said", "role"}
  BY DEF Idle
<1> QED BY <1>1 DEF IsRound

LEMMA RecordForm ==
  ASSUME NEW r
  PROVE  IsRecord(r) <=>
           r = [x \in {"id", "kind", "iteration", "version", "started", "outcome", "tools",
                       "runner", "clean", "markers", "answer", "canary", "digest",
                       "annulled"} |-> r[x]]
<1> DEFINE no == FALSE
<1>1. NoRecord = [id |-> 0, kind |-> "none", iteration |-> 0, version |-> 0, started |-> 0,
                  outcome |-> "none", tools |-> no, runner |-> 0, clean |-> no,
                  markers |-> 0, answer |-> 0, canary |-> 0, digest |-> "none",
                  annulled |-> 0]
  BY DEF NoRecord
<1> HIDE DEF no
<1>2. DOMAIN NoRecord = {"id", "kind", "iteration", "version", "started", "outcome", "tools",
                         "runner", "clean", "markers", "answer", "canary", "digest",
                         "annulled"}
  BY <1>1
<1> QED BY <1>2 DEF IsRecord

LEMMA IdleIsRound == IsRound(Idle) /\ Idle.pc = "idle"
<1>1. Idle = [x \in DOMAIN Idle |-> Idle[x]]
  BY DEF Idle
<1> QED BY <1>1 DEF IsRound, Idle

LEMMA IdleFits ==
  ASSUME NEW p, NEW q, IsRound(q), q.pc = "idle", NEW L, NEW n, NEW h
  PROVE  RoundFits(p, q, L, n, h)
BY DEF RoundFits, Places, InReading, InRole, ToAssess, Launching

\* A round between its launches has no more than its place.
LEMMA WaitingFits ==
  ASSUME NEW p, NEW q, IsRound(q), NEW L, NEW n, NEW h,
         q.version \in Nat \ {0}, q.iteration \in Nat \ {0},
         \/ /\ q.pc = "canary"
            /\ q.markers \in 1 .. Len(L) /\ L[q.markers].phase = "canary_markers"
         \/ /\ q.pc \in {"role", "role runs next"}
            /\ q.role \in 1 .. Len(Roles)
  PROVE  RoundFits(p, q, L, n, h)
BY DEF RoundFits, Places, InReading, InRole, ToAssess, Launching

LEMMA NextRoleFits ==
  ASSUME NEW p, NEW q, IsRound(q), NEW L, NEW n, NEW h, NEW k \in Nat \ {0},
         q.version \in Nat \ {0}, q.iteration \in Nat \ {0}
  PROVE  RoundFits(p, NextRole(q, k), L, n, h) /\ NextRole(q, k).pc \in {"idle", "role"}
<1>0. Len(Roles) \in Nat
  BY AudienceAssumption
<1>1. CASE k <= Len(Roles)
  <2> DEFINE t == [q EXCEPT !.pc = "role", !.role = k, !.own = {}, !.attempt = 1, !.annulled = 0]
  <2>1. /\ IsRound(t) /\ t.pc = "role" /\ t.role = k
        /\ t.version = q.version /\ t.iteration = q.iteration
    BY RoundForm
  <2>2. k \in 1 .. Len(Roles)
    BY <1>0, <1>1
  <2>3. NextRole(q, k) = t
    BY <1>1 DEF NextRole
  <2> HIDE DEF t
  <2> QED BY <2>1, <2>2, <2>3, WaitingFits
<1>2. CASE ~(k <= Len(Roles))
  BY <1>2, IdleIsRound, IdleFits DEF NextRole
<1> QED BY <1>1, <1>2

\* What another process publishes leaves a round as it is, when it is not what the
\* round is about to publish.
LEMMA CanaryKept ==
  ASSUME NEW q, NEW L, IsChannel(L), CanaryFits(q, L), NEW m,
         m.phase = "run_record" =>
            ~(m.record.kind = "blind" /\ m.record.canary = q.canary.id)
  PROVE  CanaryFits(q, Append(L, m))
<1> DEFINE M == Append(L, m)
<1>1. /\ Len(L) \in Nat /\ Len(M) = Len(L) + 1
      /\ \A k \in 1 .. Len(L) : M[k] = L[k]
      /\ M[Len(L) + 1] = m
      /\ RecordsIn(L) \subseteq RecordsIn(M) /\ RecordsIn(L) \subseteq 1 .. Len(L)
      /\ \A k \in RecordsIn(M) : k \in RecordsIn(L) \/ (k = Len(L) + 1 /\ m.phase = "run_record")
      /\ 1 .. Len(L) \subseteq 1 .. Len(M)
  BY ChannelGrows, LastIsNew DEF RecordsIn
<1> HIDE DEF M
<1>2. \A k \in RecordsIn(L) : M[k] = L[k]
  BY <1>1
<1>3. \E i \in RecordsIn(M) : M[i].record = q.canary
  BY <1>1, <1>2 DEF CanaryFits
<1>4. /\ q.canary.kind = "canary" /\ q.canary.outcome = "happened"
      /\ q.canary.markers = q.markers
  BY DEF CanaryFits
<1>5. /\ q.canary.answer \in 1 .. Len(M) /\ M[q.canary.answer].phase = "canary"
      /\ M[q.canary.answer].version = q.canary.version
  BY <1>1 DEF CanaryFits
<1>6. \A k \in RecordsIn(M) :
         M[k].record.kind = "blind" => M[k].record.canary # q.canary.id
  BY <1>1, <1>2 DEF CanaryFits
<1>7. CanaryFits(q, M)
  BY <1>3, <1>4, <1>5, <1>6 DEF CanaryFits
<1> QED BY <1>7 DEF M

LEMMA CreditKept ==
  ASSUME NEW q, NEW L, IsChannel(L), CreditFits(q, L), NEW m,
         m.phase \in AssessmentKinds => m.source # q.run.id
  PROVE  CreditFits(q, Append(L, m))
<1> DEFINE M == Append(L, m)
<1>1. /\ Len(L) \in Nat /\ Len(M) = Len(L) + 1
      /\ \A k \in 1 .. Len(L) : M[k] = L[k]
      /\ M[Len(L) + 1] = m
      /\ RecordsIn(L) \subseteq RecordsIn(M) /\ RecordsIn(L) \subseteq 1 .. Len(L)
      /\ AssessmentsIn(L) \subseteq 1 .. Len(L)
      /\ \A k \in AssessmentsIn(M) :
            k \in AssessmentsIn(L) \/ (k = Len(L) + 1 /\ m.phase \in AssessmentKinds)
  BY ChannelGrows, LastIsNew DEF RecordsIn, AssessmentsIn
<1>2. \A j \in RecordsIn(L) : Stands(L, j) => Stands(M, j)
  BY StandsStill
<1> HIDE DEF M
<1>3. \A k \in RecordsIn(L) : M[k] = L[k]
  BY <1>1
<1>4. \A k \in AssessmentsIn(L) : M[k] = L[k]
  BY <1>1
<1>5. \E j \in RecordsIn(M) : M[j].record = q.run /\ (q.run.kind = "blind" => Stands(M, j))
  BY <1>1, <1>2, <1>3 DEF CreditFits
<1>6. \A k \in AssessmentsIn(M) : M[k].source # q.run.id
  BY <1>1, <1>4 DEF CreditFits
<1>7. CreditFits(q, M)
  BY <1>5, <1>6 DEF CreditFits
<1> QED BY <1>7 DEF M

LEMMA LaunchKept ==
  ASSUME NEW q, NEW L, IsChannel(L), NEW n, LaunchFits(q, L, n), NEW m, m.phase # "run_record"
  PROVE  LaunchFits(q, Append(L, m), n)
<1> DEFINE M == Append(L, m)
<1>1. /\ \A k \in 1 .. Len(L) : M[k] = L[k]
      /\ RecordsIn(L) \subseteq 1 .. Len(L)
      /\ \A k \in RecordsIn(M) : k \in RecordsIn(L)
  BY ChannelGrows, LastIsNew DEF RecordsIn
<1> HIDE DEF M
<1>2. \A k \in RecordsIn(M) : M[k].record.id < n
  BY <1>1 DEF LaunchFits
<1>3. LaunchFits(q, M, n)
  BY <1>2 DEF LaunchFits
<1> QED BY <1>3 DEF M

LEMMA RoundKept ==
  ASSUME NEW p, NEW q, NEW L, IsChannel(L), NEW n, NEW h, RoundFits(p, q, L, n, h), NEW m, NEW g,
         q.pc \in Launching => g = h /\ m.phase # "run_record",
         q.pc \in InReading /\ m.phase = "run_record" =>
            ~(m.record.kind = "blind" /\ m.record.canary = q.canary.id),
         q.pc \in ToAssess /\ m.phase \in AssessmentKinds => m.source # q.run.id
  PROVE  RoundFits(p, q, Append(L, m), n, g)
<1> DEFINE M == Append(L, m)
<1>1. /\ \A k \in 1 .. Len(L) : M[k] = L[k]
      /\ 1 .. Len(L) \subseteq 1 .. Len(M)
  BY ChannelGrows
<1>2. q.pc \in Launching => g = p /\ LaunchFits(q, M, n)
  BY LaunchKept DEF RoundFits
<1>3. q.pc \in InReading => CanaryFits(q, M)
  BY CanaryKept DEF RoundFits
<1>4. q.pc \in ToAssess => CreditFits(q, M)
  BY CreditKept DEF RoundFits
<1> HIDE DEF M
<1>5. q.pc \in {"canary", "canary runs"} \cup InReading =>
        q.markers \in 1 .. Len(M) /\ M[q.markers].phase = "canary_markers"
  BY <1>1 DEF RoundFits
<1>6. RoundFits(p, q, M, n, g)
  BY <1>2, <1>3, <1>4, <1>5 DEF RoundFits
<1> QED BY <1>6 DEF M

\* Off the journal, a round does not feel its count or its lock.
LEMMA RoundUnlaunched ==
  ASSUME NEW p, NEW q, NEW L, NEW n, NEW h, RoundFits(p, q, L, n, h),
         q.pc \notin Launching, NEW k, NEW g
  PROVE  RoundFits(p, q, L, k, g)
BY DEF RoundFits

LEMMA ApartBothWays ==
  ASSUME NEW a, NEW b, Apart(a, b)
  PROVE  Apart(b, a)
BY DEF Apart

LEMMA ApartFromWaiting ==
  ASSUME NEW a, NEW b, a.pc \notin ToAssess \cup InReading
  PROVE  Apart(a, b)
BY DEF Apart

\* One process moves.
LEMMA OneMoves ==
  ASSUME AudienceIInv, NEW p \in Procs, NEW q,
         round' = [round EXCEPT ![p] = q],
         versions' \in Nat, rounds' \in Nat, runner' \in Nat \ {0}, journal' \in Nat,
         ChannelFits(channel', journal'),
         RoundFits(p, q, channel', journal', lock'),
         \A o \in Procs \ {p} :
            /\ RoundFits(o, round[o], channel', journal', lock')
            /\ Apart(q, round[o])
  PROVE  AudienceIInv'
<1>1. round' = [o \in Procs |-> IF o = p THEN q ELSE round[o]]
  BY DEF AudienceIInv
<1>2. \A o \in Procs : round'[o] = IF o = p THEN q ELSE round[o]
  BY <1>1
<1>3. round' = [o \in Procs |-> round'[o]]
  BY <1>1
<1>4. \A o \in Procs : RoundFits(o, round'[o], channel', journal', lock')
  BY <1>2
<1>5. \A a, b \in Procs : a # b => Apart(round'[a], round'[b])
  <2> SUFFICES ASSUME NEW a \in Procs, NEW b \in Procs, a # b PROVE Apart(round'[a], round'[b])
    OBVIOUS
  <2>1. CASE a = p
    BY <1>2, <2>1
  <2>2. CASE b = p
    <3>1. Apart(q, round[a])
      BY <2>2
    <3> QED BY <1>2, <2>2, <3>1, ApartBothWays
  <2>3. CASE a # p /\ b # p
    BY <1>2, <2>3 DEF AudienceIInv
  <2> QED BY <2>1, <2>2, <2>3
<1> QED BY <1>3, <1>4, <1>5 DEF AudienceIInv

------------------------------------------------------------------------------
(* What a round reads of the channel. *)

\* Naturals are well-founded: a set of them has a least.
LEMMA SmallestOfSome ==
  ASSUME NEW T, T \subseteq Nat, T # {}
  PROVE  \E x \in T : \A y \in T : x <= y
<1> DEFINE R == OpToRel(<, Nat)
<1>1. IsWellFoundedOn(R, Nat)
  BY NatLessThanWellFounded
<1>2. ASSUME NEW x \in Nat, NEW y \in Nat, y < x PROVE <<y, x>> \in R
  BY <1>2 DEF OpToRel
<1> HIDE DEF R
<1>3. PICK x \in T : \A y \in T : ~ (<<y, x>> \in R)
  BY <1>1, WFMin
<1>4. ASSUME NEW y \in T PROVE x <= y
  <2>1. x \in Nat /\ y \in Nat
    OBVIOUS
  <2>2. ~ (y < x)
    BY <1>2, <1>3, <2>1
  <2> QED BY <2>1, <2>2
<1> QED BY <1>4

\* Counted from the end, the least of some places of a sequence is the last.
LEMMA GreatestOfSome ==
  ASSUME NEW n \in Nat, NEW T, T \subseteq 1 .. n, T # {}
  PROVE  \E x \in T : \A y \in T : y <= x
<1> DEFINE D == {n - x : x \in T}
<1>1. \A x \in T : x \in Nat /\ n - x \in Nat
  OBVIOUS
<1>2. D \subseteq Nat
  BY <1>1
<1>3. D # {}
  <2>1. PICK x : x \in T
    OBVIOUS
  <2>2. n - x \in D
    BY <2>1
  <2> QED BY <2>2
<1>4. PICK d \in D : \A e \in D : d <= e
  <2> HIDE DEF D
  <2> QED BY <1>2, <1>3, SmallestOfSome
<1>5. PICK x \in T : d = n - x
  BY <1>4
<1>6. ASSUME NEW y \in T PROVE y <= x
  <2>1. n - y \in D
    OBVIOUS
  <2>2. n - x <= n - y
    BY <2>1, <1>4, <1>5
  <2> QED BY <2>2, <1>1
<1> QED BY <1>6

LEMMA PublishedForm ==
  /\ PhasesUpTo(Len(channel), "run_record") = RecordsIn(channel)
  /\ PublishedRecords(Len(channel)) = {channel[k].record : k \in RecordsIn(channel)}
  /\ FindingPhases = AssessmentsIn(channel)
<1>1. PhasesUpTo(Len(channel), "run_record") = RecordsIn(channel)
  BY DEF PhasesUpTo, RecordsIn
<1>2. FindingPhases = AssessmentsIn(channel)
  BY DEF FindingPhases, AssessmentsIn, AssessmentKinds
<1> QED BY <1>1, <1>2 DEF PublishedRecords

LEMMA LatestIsOne ==
  ASSUME AudienceIInv, NEW S, S \subseteq PublishedRecords(Len(channel)), S # {}
  PROVE  LatestCreditedBlind(S) \in S
<1> DEFINE T == {r.id : r \in S}
<1>1. \A r \in S : r.id \in 1 .. journal
  BY PublishedForm DEF AudienceIInv, ChannelFits, RecordFits
<1>2. journal \in Nat /\ T \subseteq 1 .. journal /\ T # {}
  BY <1>1 DEF AudienceIInv
<1> HIDE DEF T
<1>3. PICK x \in T : \A y \in T : y <= x
  BY <1>2, GreatestOfSome
<1>4. PICK r \in S : r.id = x
  BY <1>3 DEF T
<1>5. \A o \in S : o.id <= r.id
  BY <1>3, <1>4 DEF T
<1> QED BY <1>4, <1>5 DEF LatestCreditedBlind

LEMMA LatestIsLast ==
  ASSUME NEW n \in Nat, NEW S, S \subseteq 1 .. n, S # {}
  PROVE  Latest(S) \in S
<1>1. PICK x \in S : \A y \in S : y <= x
  BY GreatestOfSome
<1> QED BY <1>1 DEF Latest

\* A carry restates what its run already says.
LEMMA CarryFits ==
  ASSUME AudienceIInv, NEW kind \in AssessmentKinds,
         NEW source \in PublishedRecords(Len(channel)), source.kind = kind,
         NEW v, NEW i, i > source.iteration,
         PhasesOf(Len(channel), kind, source) # {}
  PROVE  LET m == FindingsMessage(kind, source, v, i,
                    Restated(Latest(PhasesOf(Len(channel), kind, source))),
                    <<source.version, source.iteration>>)
         IN  /\ ChannelFits(Append(channel, m), journal)
             /\ m.phase \in AssessmentKinds
             /\ \E k \in AssessmentsIn(channel) : channel[k].source = m.source
<1> DEFINE phases == PhasesOf(Len(channel), kind, source)
           k == Latest(phases)
           f == Restated(k)
           from == <<source.version, source.iteration>>
           m == FindingsMessage(kind, source, v, i, f, from)
           M == Append(channel, m)
<1>0. ChannelFits(channel, journal) /\ IsChannel(channel) /\ Len(channel) \in Nat
  BY ChannelGrows DEF AudienceIInv, ChannelFits
<1>1. k \in phases
  <2>1. phases \subseteq 1 .. Len(channel) /\ phases # {}
    BY DEF PhasesOf, PhasesUpTo
  <2> HIDE DEF phases
  <2> QED BY <1>0, <2>1, LatestIsLast
<1>2. /\ k \in AssessmentsIn(channel) /\ channel[k].phase = kind
      /\ channel[k].source = source.id /\ f = channel[k].findings
  BY <1>1 DEF PhasesOf, PhasesUpTo, AssessmentsIn, Restated
<1> HIDE DEF k, phases, f
<1>3. PICK s \in RecordsIn(channel) : channel[s].record = source
  BY PublishedForm
<1>4. PICK j \in RecordsIn(channel) :
         LET r == channel[j].record
         IN  /\ j < k
             /\ r.id = channel[k].source /\ r.kind = channel[k].phase
             /\ r.digest = channel[k].digest
             /\ Complete(r) /\ r.outcome = "happened"
             /\ channel[k].phase = "blind" => Stands(channel, j)
  BY <1>0, <1>2 DEF ChannelFits, Grounded
<1>5. channel[j].record = source
  <2>1. channel[j].record.id = channel[s].record.id
    BY <1>2, <1>3, <1>4
  <2>2. j = s
    BY <1>0, <2>1 DEF ChannelFits, PublishedOnce
  <2> QED BY <1>3, <2>2
<1>6. /\ m.phase = kind /\ m.source = source.id /\ m.digest = source.digest
      /\ m.findings = f /\ m.from = from /\ m.version = v /\ m.iteration = i
  BY DEF FindingsMessage
<1>7. /\ \A x \in 1 .. Len(channel) : M[x] = channel[x]
      /\ M[Len(channel) + 1] = m
      /\ RecordsIn(channel) \subseteq RecordsIn(M) /\ RecordsIn(channel) \subseteq 1 .. Len(channel)
      /\ AssessmentsIn(channel) \subseteq AssessmentsIn(M)
      /\ AssessmentsIn(channel) \subseteq 1 .. Len(channel)
      /\ kind = "blind" => Stands(M, j)
  BY <1>0, <1>2, <1>4, ChannelGrows, LastIsNew, StandsStill DEF RecordsIn, AssessmentsIn
<1>8. from # <<0, 0>>
  <2>1. source.version # 0
    BY <1>0, <1>3 DEF ChannelFits, RecordFits
  <2> QED BY <2>1
<1> HIDE DEF from, m, M
<1>9. M[j] = channel[j] /\ M[k] = channel[k] /\ j < Len(channel) + 1 /\ k < Len(channel) + 1
  BY <1>0, <1>2, <1>7
<1>10. Grounded(M, Len(channel) + 1)
  <2>1. /\ j \in RecordsIn(M) /\ j < Len(channel) + 1
        /\ M[j].record = source /\ M[Len(channel) + 1] = m
    BY <1>5, <1>7, <1>9
  <2>2. /\ source.id = m.source /\ source.kind = m.phase /\ source.digest = m.digest
        /\ Complete(source) /\ source.outcome = "happened"
        /\ m.phase = "blind" => Stands(M, j)
    BY <1>4, <1>5, <1>6, <1>7
  <2>3. /\ m.from # <<0, 0>> /\ m.from = <<source.version, source.iteration>>
        /\ m.iteration > source.iteration
    BY <1>6, <1>8 DEF from
  <2>4. /\ k \in AssessmentsIn(M) /\ k < Len(channel) + 1
        /\ M[k].phase = m.phase /\ M[k].source = m.source
    BY <1>2, <1>6, <1>7, <1>9
  <2> QED BY <2>1, <2>2, <2>3, <2>4 DEF Grounded
<1>11. \A x \in AssessmentsIn(channel) :
          channel[x].source = m.source =>
            channel[x].findings = m.findings /\ channel[x].digest = m.digest
  <2>1. channel[k].findings = m.findings /\ channel[k].digest = m.digest
        /\ channel[k].source = m.source
    BY <1>2, <1>4, <1>5, <1>6
  <2> QED BY <1>0, <1>2, <2>1 DEF ChannelFits, SayOneThing
<1>12. ChannelFits(M, journal)
  BY <1>0, <1>6, <1>10, <1>11, AssessmentPublished DEF M
<1>13. ChannelFits(M, journal) /\ m.phase \in AssessmentKinds
       /\ \E x \in AssessmentsIn(channel) : channel[x].source = m.source
  BY <1>2, <1>6, <1>12
<1> QED BY <1>13 DEF M, m, from, f, k, phases

LEMMA FreshFits ==
  ASSUME AudienceIInv, NEW p \in Procs, round[p].pc \in ToAssess, NEW f
  PROVE  LET q == round[p]
             m == FindingsMessage(KindRun(q), q.run, q.version, q.iteration, f, <<0, 0>>)
         IN  ChannelFits(Append(channel, m), journal) /\ m.phase \in AssessmentKinds
             /\ m.source = q.run.id
<1> DEFINE q == round[p]
           kind == KindRun(q)
           m == FindingsMessage(kind, q.run, q.version, q.iteration, f, <<0, 0>>)
           M == Append(channel, m)
<1>0. ChannelFits(channel, journal) /\ IsChannel(channel) /\ Len(channel) \in Nat
  BY ChannelGrows DEF AudienceIInv, ChannelFits
<1>1. RoundFits(p, q, channel, journal, lock) /\ CreditFits(q, channel)
  BY DEF AudienceIInv, RoundFits
<1>2. kind \in AssessmentKinds
  <2>1. CASE q.pc = "blind findings"
    BY <2>1 DEF KindRun, AssessmentKinds
  <2>2. CASE q.pc = "role findings"
    <3>1. q.role \in 1 .. Len(Roles)
      BY <1>1, <2>2 DEF RoundFits, InRole
    <3> QED BY <2>2, <3>1 DEF KindRun, AssessmentKinds, RoleNames
  <2> QED BY <2>1, <2>2 DEF ToAssess
<1>3. /\ m.phase = kind /\ m.source = q.run.id /\ m.digest = q.run.digest
      /\ m.findings = f /\ m.from = <<0, 0>> /\ m.version = q.version
      /\ m.iteration = q.iteration
  BY DEF FindingsMessage
<1>4. PICK j \in RecordsIn(channel) :
         channel[j].record = q.run /\ (q.run.kind = "blind" => Stands(channel, j))
  BY <1>1 DEF CreditFits
<1>5. /\ \A x \in 1 .. Len(channel) : M[x] = channel[x]
      /\ M[Len(channel) + 1] = m
      /\ RecordsIn(channel) \subseteq RecordsIn(M) /\ RecordsIn(channel) \subseteq 1 .. Len(channel)
      /\ q.run.kind = "blind" => Stands(M, j)
  BY <1>0, <1>4, ChannelGrows, LastIsNew, StandsStill DEF RecordsIn
<1> HIDE DEF m, M, kind
<1>6. M[j] = channel[j] /\ j < Len(channel) + 1 /\ j \in RecordsIn(M)
  BY <1>0, <1>5
<1>7. /\ q.run.kind = kind /\ Complete(q.run) /\ q.run.outcome = "happened"
      /\ q.run.version = q.version /\ q.run.iteration = q.iteration
      /\ \A x \in AssessmentsIn(channel) : channel[x].source # q.run.id
  BY <1>1 DEF CreditFits, kind
<1>8. Grounded(M, Len(channel) + 1)
  BY <1>3, <1>4, <1>5, <1>6, <1>7 DEF Grounded
<1>9. ChannelFits(M, journal)
  BY <1>0, <1>2, <1>3, <1>7, <1>8, AssessmentPublished DEF M
<1> QED BY <1>2, <1>3, <1>9 DEF M, m, kind

------------------------------------------------------------------------------
(* The actions. *)

LEMMA AudienceStarts == AudienceInit => AudienceIInv
<1> SUFFICES ASSUME AudienceInit PROVE AudienceIInv
  OBVIOUS
<1>1. /\ channel = <<>> /\ Len(channel) = 0 /\ RecordsIn(channel) = {} /\ AssessmentsIn(channel) = {}
      /\ journal = 0
  BY DEF AudienceInit, RecordsIn, AssessmentsIn
<1>2. IsChannel(channel)
  <2>1. <<>> \in Seq({})
    OBVIOUS
  <2> QED BY <1>1, <2>1 DEF IsChannel
<1>3. ChannelFits(channel, journal)
  BY <1>1, <1>2 DEF ChannelFits, PublishedOnce, SayOneThing
<1>4. round = [p \in Procs |-> Idle] /\ round = [p \in Procs |-> round[p]]
  BY DEF AudienceInit
<1>5. \A p \in Procs : round[p] = Idle
  BY <1>4
<1>6. \A p \in Procs : RoundFits(p, round[p], channel, journal, lock)
  BY <1>5, IdleIsRound, IdleFits
<1>7. \A p, o \in Procs : p # o => Apart(round[p], round[o])
  BY <1>5, IdleIsRound DEF Apart, ToAssess, InReading
<1> QED BY <1>3, <1>4, <1>6, <1>7 DEF AudienceIInv, AudienceInit

LEMMA RoundsAre ==
  ASSUME AudienceIInv, NEW p \in Procs
  PROVE  /\ IsRound(round[p]) /\ RoundFits(p, round[p], channel, journal, lock)
         /\ round[p].pc # "idle" =>
              round[p].version \in Nat \ {0} /\ round[p].iteration \in Nat \ {0}
         /\ round[p].pc \in Launching =>
              lock = p /\ \A o \in Procs \ {p} : round[o].pc \notin Launching
         /\ round[p].pc \in Launching => lock # NoProc
<1>1. \A o \in Procs : RoundFits(o, round[o], channel, journal, lock)
  BY DEF AudienceIInv
<1>2. \A o \in Procs : round[o].pc \in Launching => lock = o /\ o # NoProc
  BY <1>1, AudienceAssumption DEF RoundFits
<1> QED BY <1>1, <1>2 DEF RoundFits

\* A round leaves, or goes on to a place where it only waits, and the channel and the
\* launches of the others are as they were.
LEMMA QuietMove ==
  ASSUME AudienceIInv, NEW p \in Procs, NEW q,
         round' = [round EXCEPT ![p] = q],
         UNCHANGED <<channel, versions, rounds, runner, journal>>,
         RoundFits(p, q, channel, journal, lock'),
         q.pc \notin ToAssess \cup InReading,
         \A o \in Procs \ {p} : round[o].pc \in Launching => lock' = lock
  PROVE  AudienceIInv'
<1>1. \A o \in Procs \ {p} : RoundFits(o, round[o], channel, journal, lock')
  <2> SUFFICES ASSUME NEW o \in Procs \ {p} PROVE RoundFits(o, round[o], channel, journal, lock')
    OBVIOUS
  <2>1. RoundFits(o, round[o], channel, journal, lock)
    BY DEF AudienceIInv
  <2> QED BY <2>1, RoundUnlaunched
<1>2. \A o \in Procs \ {p} : Apart(q, round[o])
  BY ApartFromWaiting
<1>3. /\ versions' \in Nat /\ rounds' \in Nat /\ journal' \in Nat
      /\ runner' \in Nat \ {0} /\ ChannelFits(channel', journal')
  BY DEF AudienceIInv
<1>4. \A o \in Procs \ {p} : RoundFits(o, round[o], channel', journal', lock')
  BY <1>1
<1>5. RoundFits(p, q, channel', journal', lock')
  OBVIOUS
<1> QED BY <1>2, <1>3, <1>4, <1>5, OneMoves

LEMMA LeaveStep ==
  ASSUME AudienceIInv, NEW p \in Procs, Die(p) \/ FindLocked(p)
  PROVE  AudienceIInv'
<1>1. /\ round' = [round EXCEPT ![p] = Idle]
      /\ UNCHANGED <<channel, versions, rounds, runner, journal, lock>>
  BY DEF Die, FindLocked
<1>2. RoundFits(p, Idle, channel, journal, lock') /\ Idle.pc \notin ToAssess \cup InReading
  BY IdleIsRound, IdleFits DEF ToAssess, InReading
<1> QED BY <1>1, <1>2, QuietMove

\* No round moves, the journal stands, and at most a word is added to the channel.
LEMMA RoundsStay ==
  ASSUME AudienceIInv, UNCHANGED <<round, journal>>, versions' \in Nat, rounds' \in Nat,
         runner' \in Nat \ {0},
         \A o \in Procs : round[o].pc \in Launching => lock' = lock,
         \/ UNCHANGED channel
         \/ \E m : /\ channel' = Append(channel, m)
                   /\ m.phase \notin AssessmentKinds \cup {"run_record"}
  PROVE  AudienceIInv'
<1>0. ChannelFits(channel, journal) /\ IsChannel(channel)
  BY DEF AudienceIInv, ChannelFits
<1>1. ChannelFits(channel', journal)
  BY <1>0, RecordPublished
<1>2. \A o \in Procs : RoundFits(o, round[o], channel', journal, lock')
  <2> SUFFICES ASSUME NEW o \in Procs PROVE RoundFits(o, round[o], channel', journal, lock')
    OBVIOUS
  <2>1. RoundFits(o, round[o], channel, journal, lock)
    BY DEF AudienceIInv
  <2>2. CASE UNCHANGED channel
    <3>1. CASE round[o].pc \in Launching
      BY <2>1, <2>2, <3>1
    <3>2. CASE round[o].pc \notin Launching
      BY <2>1, <2>2, <3>2, RoundUnlaunched
    <3> QED BY <3>1, <3>2
  <2>3. ASSUME NEW m, channel' = Append(channel, m), m.phase \notin AssessmentKinds \cup {"run_record"}
        PROVE  RoundFits(o, round[o], channel', journal, lock')
    <3>1. RoundFits(o, round[o], Append(channel, m), journal, lock')
      BY <1>0, <2>1, <2>3, RoundKept
    <3> QED BY <2>3, <3>1
  <2> QED BY <2>2, <2>3
<1>3. /\ journal' \in Nat /\ ChannelFits(channel', journal')
      /\ round' = [p \in Procs |-> round'[p]]
      /\ \A p \in Procs : RoundFits(p, round'[p], channel', journal', lock')
      /\ \A p, o \in Procs : p # o => Apart(round'[p], round'[o])
  BY <1>1, <1>2 DEF AudienceIInv
<1> QED BY <1>3 DEF AudienceIInv

LEMMA AroundStep ==
  ASSUME AudienceIInv,
         \/ PostVersion \/ UpdateRunner \/ RemoveLock
         \/ \E f \in DOMAIN Coarse : Dispose(f)
  PROVE  AudienceIInv'
<1>0. versions \in Nat /\ rounds \in Nat /\ journal \in Nat /\ runner \in Nat \ {0}
  BY DEF AudienceIInv
<1>1. CASE PostVersion
  <2>1. UNCHANGED <<round, journal, channel, lock, rounds, runner>> /\ versions' = versions + 1
    BY <1>1 DEF PostVersion
  <2> QED BY <1>0, <2>1, RoundsStay
<1>2. CASE UpdateRunner
  <2>1. UNCHANGED <<round, journal, channel, lock, rounds, versions>> /\ runner' = runner + 1
    BY <1>2 DEF UpdateRunner
  <2> QED BY <1>0, <2>1, RoundsStay
<1>3. CASE RemoveLock
  <2>1. UNCHANGED <<round, journal, channel, rounds, runner, versions>> /\ round[lock].pc \notin Launching
    BY <1>3 DEF RemoveLock
  <2>2. \A o \in Procs : round[o].pc \notin Launching
    BY <2>1, RoundsAre
  <2> QED BY <1>0, <2>1, <2>2, RoundsStay
<1>4. ASSUME NEW f \in DOMAIN Coarse, Dispose(f) PROVE AudienceIInv'
  <2> DEFINE m == [phase |-> "disposition", finding |-> f]
  <2>1. UNCHANGED <<round, journal, rounds, runner, versions, lock>> /\ channel' = Append(channel, m)
    BY <1>4 DEF Dispose
  <2>2. m.phase \notin AssessmentKinds \cup {"run_record"}
    BY PhasesDiffer
  <2> HIDE DEF m
  <2> QED BY <1>0, <2>1, <2>2, RoundsStay
<1> QED BY <1>1, <1>2, <1>3, <1>4

\* A round posts an assessment: of its own run, which it has not assessed, or a restatement.
LEMMA AssessMove ==
  ASSUME AudienceIInv, NEW p \in Procs, NEW q, NEW m,
         round' = [round EXCEPT ![p] = q], channel' = Append(channel, m),
         UNCHANGED <<versions, journal, lock>>, rounds' \in Nat,
         runner' \in Nat \ {0},
         ChannelFits(Append(channel, m), journal), m.phase \in AssessmentKinds,
         q.pc \in {"idle", "role"}, RoundFits(p, q, Append(channel, m), journal, lock),
         \/ round[p].pc \in ToAssess /\ m.source = round[p].run.id
         \/ \E k \in AssessmentsIn(channel) : channel[k].source = m.source
  PROVE  AudienceIInv'
<1>0. IsChannel(channel) /\ m.phase # "run_record"
  BY PhasesDiffer DEF AudienceIInv, ChannelFits
<1>1. \A o \in Procs \ {p} : RoundFits(o, round[o], Append(channel, m), journal, lock)
  <2> SUFFICES ASSUME NEW o \in Procs \ {p}
               PROVE  RoundFits(o, round[o], Append(channel, m), journal, lock)
    OBVIOUS
  <2>1. RoundFits(o, round[o], channel, journal, lock) /\ Apart(round[p], round[o])
    BY DEF AudienceIInv
  <2>2. round[o].pc \in ToAssess => m.source # round[o].run.id
    BY <2>1 DEF RoundFits, CreditFits, Apart
  <2> QED BY <1>0, <2>1, <2>2, RoundKept
<1>2. \A o \in Procs \ {p} : Apart(q, round[o])
  <2>1. q.pc \notin ToAssess \cup InReading
    BY DEF ToAssess, InReading
  <2> QED BY <2>1, ApartFromWaiting
<1>3. versions' \in Nat /\ journal' \in Nat
  BY DEF AudienceIInv
<1>4. /\ ChannelFits(channel', journal')
      /\ RoundFits(p, q, channel', journal', lock')
      /\ \A o \in Procs \ {p} : RoundFits(o, round[o], channel', journal', lock')
  BY <1>1
<1> QED BY <1>2, <1>3, <1>4, OneMoves

LEMMA PostFindingsStep ==
  ASSUME AudienceIInv, NEW p \in Procs, PostBlindFindings(p) \/ PostRoleFindings(p)
  PROVE  AudienceIInv'
<1> DEFINE q == round[p]
           blank == [q EXCEPT !.run = NoRecord, !.said = <<>>, !.canary = NoRecord, !.markers = 0]
           bare  == [q EXCEPT !.run = NoRecord, !.said = <<>>]
           k == q.role
           t == IF q.pc = "blind findings" THEN NextRole(blank, 1) ELSE NextRole(bare, k + 1)
           m == FindingsMessage(KindRun(q), q.run, q.version, q.iteration, q.said, <<0, 0>>)
<1>0. /\ IsRound(q) /\ q.pc \in ToAssess /\ rounds \in Nat /\ runner \in Nat \ {0}
      /\ q.version \in Nat \ {0} /\ q.iteration \in Nat \ {0}
  <2>1. q.pc \in ToAssess /\ q.pc # "idle"
    BY DEF PostBlindFindings, PostRoleFindings, ToAssess
  <2> QED BY <2>1, RoundsAre DEF AudienceIInv
<1>1. /\ IsRound(blank) /\ blank.version = q.version /\ blank.iteration = q.iteration
      /\ IsRound(bare) /\ bare.version = q.version /\ bare.iteration = q.iteration
  BY <1>0, RoundForm
<1>2. q.pc = "role findings" => k \in Nat /\ k + 1 \in Nat \ {0}
  <2>1. q.pc = "role findings" => k \in 1 .. Len(Roles)
    BY RoundsAre DEF RoundFits, InRole
  <2>2. Len(Roles) \in Nat
    BY AudienceAssumption
  <2> HIDE DEF k
  <2>3. k \in 1 .. Len(Roles) => k \in Nat /\ k + 1 \in Nat \ {0}
    BY <2>2
  <2> QED BY <2>1, <2>3
<1>3. /\ round' = [round EXCEPT ![p] = t] /\ channel' = Append(channel, m)
      /\ UNCHANGED <<versions, journal, lock, rounds, runner>>
  <2>1. CASE PostBlindFindings(p)
    BY <2>1 DEF PostBlindFindings, Post, KindRun
  <2>2. CASE PostRoleFindings(p)
    BY <2>2 DEF PostRoleFindings, Post, KindRun
  <2> QED BY <2>1, <2>2
<1>4. ChannelFits(Append(channel, m), journal) /\ m.phase \in AssessmentKinds /\ m.source = q.run.id
  BY <1>0, FreshFits
<1> HIDE DEF m
<1>5. t.pc \in {"idle", "role"} /\ RoundFits(p, t, Append(channel, m), journal, lock)
  <2>1. CASE q.pc = "blind findings"
    <3>1. t = NextRole(blank, 1)
      BY <2>1
    <3> HIDE DEF blank, t, q
    <3> QED BY <1>0, <1>1, <3>1, NextRoleFits
  <2>2. CASE q.pc = "role findings"
    <3>1. t = NextRole(bare, k + 1)
      BY <2>2
    <3>2. k + 1 \in Nat \ {0}
      BY <1>2, <2>2
    <3> HIDE DEF bare, t, q, k
    <3> QED BY <1>0, <1>1, <3>1, <3>2, NextRoleFits
  <2> QED BY <1>0, <2>1, <2>2 DEF ToAssess
<1> HIDE DEF t
<1> QED BY <1>0, <1>3, <1>4, <1>5, AssessMove

\* A carry's source is a reading that was published and still stands.
LEMMA RecreditedArePublished ==
  Recredit(Len(channel)) \subseteq OfKind(PublishedRecords(Len(channel)), "blind")
BY DEF Recredit

LEMMA StartStep ==
  ASSUME AudienceIInv, NEW p \in Procs, NEW i \in {rounds, rounds + 1} \ {0}, NEW live,
         StartRound(p, i, live)
  PROVE  AudienceIInv'
<1> DEFINE q == [Idle EXCEPT !.version = versions, !.iteration = i,
                             !.seen = Len(channel), !.live = live]
           credited == Recredit(Len(channel))
           source == LatestCreditedBlind(credited)
<1>0. /\ UNCHANGED <<versions, journal, lock>> /\ rounds' \in Nat /\ runner' \in Nat \ {0}
      /\ versions \in Nat \ {0} /\ i \in Nat \ {0} /\ IsChannel(channel)
      /\ Len(channel) \in Nat
  BY ChannelGrows DEF StartRound, AudienceIInv, ChannelFits
<1>1. IsRound(q) /\ q.version = versions /\ q.iteration = i
  <2>1. IsRound(Idle)
    BY IdleIsRound
  <2> QED BY <2>1, RoundForm
<1>2. IF PlanBlindPass(versions, i, credited, live) = "carry"
      THEN CarryBlind(p, q, source) ELSE Announce(p, q)
  BY DEF StartRound
<1> HIDE DEF q
<1>3. CASE PlanBlindPass(versions, i, credited, live) = "carry"
  <2>1. source # NoRecord /\ CarriedForward(source, "blind", versions, i, ReaderDigest[versions], live)
    BY <1>3 DEF PlanBlindPass
  <2>2. credited # {}
    BY <2>1 DEF LatestCreditedBlind
  <2>3. credited \subseteq PublishedRecords(Len(channel))
        /\ \A r \in credited : r.kind = "blind"
    BY RecreditedArePublished DEF OfKind
  <2> HIDE DEF credited
  <2>4. source \in credited
    BY <2>2, <2>3, LatestIsOne
  <2>5. /\ source \in PublishedRecords(Len(channel)) /\ source.kind = "blind"
        /\ i > source.iteration
    BY <2>1, <2>3, <2>4 DEF CarriedForward
  <2> HIDE DEF source
  <2>6. CASE PhasesOf(Len(channel), "blind", source) # {} /\ channel' # channel
    <3> DEFINE phases == PhasesOf(Len(channel), "blind", source)
               m == FindingsMessage("blind", source, versions, i, Restated(Latest(phases)),
                                    <<source.version, source.iteration>>)
               t == NextRole(q, 1)
    <3>1. channel' = Append(channel, m) /\ round' = [round EXCEPT ![p] = t]
      BY <1>1, <1>2, <1>3, <2>6 DEF CarryBlind, Post
    <3>2. "blind" \in AssessmentKinds
      BY DEF AssessmentKinds
    <3>3. /\ ChannelFits(Append(channel, m), journal) /\ m.phase \in AssessmentKinds
          /\ \E k \in AssessmentsIn(channel) : channel[k].source = m.source
      BY <2>5, <2>6, <3>2, CarryFits
    <3> HIDE DEF m
    <3>4. t.pc \in {"idle", "role"} /\ RoundFits(p, t, Append(channel, m), journal, lock)
      <4>1. q.version \in Nat \ {0} /\ q.iteration \in Nat \ {0} /\ 1 \in Nat \ {0}
        BY <1>0, <1>1
      <4> QED BY <1>1, <4>1, NextRoleFits
    <3> HIDE DEF t
    <3> QED BY <1>0, <3>1, <3>3, <3>4, AssessMove
  <2>7. CASE ~(PhasesOf(Len(channel), "blind", source) # {} /\ channel' # channel)
    <3>1. CASE UNCHANGED channel
      <4>1. \/ round' = [round EXCEPT ![p] = Idle]
            \/ \E m : channel' = Append(channel, m)
        BY <1>2, <1>3 DEF CarryBlind, Post
      <4>2. \A m : channel # Append(channel, m)
        <5> SUFFICES ASSUME NEW m PROVE channel # Append(channel, m)
          OBVIOUS
        <5>1. Len(Append(channel, m)) = Len(channel) + 1
          BY <1>0, ChannelGrows
        <5> QED BY <1>0, <5>1
      <4>3. round' = [round EXCEPT ![p] = Idle]
        BY <3>1, <4>1, <4>2
      <4>4. AudienceIInv'
        <5>1. RoundFits(p, Idle, channel, journal, lock') /\ Idle.pc \notin ToAssess \cup InReading
          BY IdleIsRound, IdleFits DEF ToAssess, InReading
        <5>2. versions' \in Nat /\ journal' \in Nat /\ rounds' \in Nat /\ runner' \in Nat \ {0}
              /\ ChannelFits(channel', journal')
          BY <1>0, <3>1 DEF AudienceIInv
        <5>3. \A o \in Procs \ {p} : RoundFits(o, round[o], channel', journal', lock')
          BY <1>0, <3>1 DEF AudienceIInv
        <5>4. \A o \in Procs \ {p} : Apart(Idle, round[o])
          BY <5>1, ApartFromWaiting
        <5>5. RoundFits(p, Idle, channel', journal', lock')
          BY <1>0, <3>1, <5>1
        <5> QED BY <4>3, <5>2, <5>3, <5>4, <5>5, OneMoves
      <4> QED BY <4>4
    <3>2. CASE PhasesOf(Len(channel), "blind", source) = {}
      <4>1. UNCHANGED channel
        BY <1>2, <1>3, <3>2 DEF CarryBlind
      <4> QED BY <3>1, <4>1
    <3> QED BY <2>7, <3>1, <3>2
  <2> QED BY <2>6, <2>7
<1>4. CASE PlanBlindPass(versions, i, credited, live) # "carry"
  <2> DEFINE m == MarkersMessage(q.version)
             t == [q EXCEPT !.pc = "canary", !.attempt = 1, !.markers = Len(channel) + 1]
             M == Append(channel, m)
  <2>1. channel' = M /\ round' = [round EXCEPT ![p] = t]
    BY <1>2, <1>4 DEF Announce, Post
  <2>2. m.phase = "canary_markers"
    BY DEF MarkersMessage
  <2>3. m.phase \notin AssessmentKinds /\ m.phase # "run_record"
    BY <2>2, PhasesDiffer
  <2>4. /\ IsRound(t) /\ t.pc = "canary" /\ t.version = versions /\ t.iteration = i
        /\ t.markers = Len(channel) + 1
    BY <1>1, RoundForm
  <2>5. ChannelFits(M, journal)
    <3> HIDE DEF m
    <3> QED BY <2>3, RecordPublished DEF AudienceIInv
  <2>6. RoundFits(p, t, M, journal, lock)
    <3>1. Len(channel) + 1 \in 1 .. Len(M) /\ M[Len(channel) + 1] = m
      <4> HIDE DEF m
      <4>1. Len(M) = Len(channel) + 1 /\ M[Len(channel) + 1] = m
        BY <1>0, ChannelGrows
      <4> HIDE DEF M
      <4> QED BY <1>0, <4>1
    <3> HIDE DEF t, M, m
    <3> QED BY <1>0, <2>2, <2>4, <3>1, WaitingFits
  <2>7. \A o \in Procs \ {p} : RoundFits(o, round[o], M, journal, lock)
    <3> SUFFICES ASSUME NEW o \in Procs \ {p} PROVE RoundFits(o, round[o], M, journal, lock)
      OBVIOUS
    <3>1. RoundFits(o, round[o], channel, journal, lock)
      BY DEF AudienceIInv
    <3> HIDE DEF m
    <3> QED BY <1>0, <2>3, <3>1, RoundKept
  <2>8. \A o \in Procs \ {p} : Apart(t, round[o])
    <3>1. t.pc \notin ToAssess \cup InReading
      BY <2>4 DEF ToAssess, InReading
    <3> QED BY <3>1, ApartFromWaiting
  <2> HIDE DEF t, M, m
  <2>9. /\ versions' \in Nat /\ journal' \in Nat /\ ChannelFits(channel', journal')
        /\ RoundFits(p, t, channel', journal', lock')
        /\ \A o \in Procs \ {p} : RoundFits(o, round[o], channel', journal', lock')
    <3>1. journal \in Nat
      BY DEF AudienceIInv
    <3> QED BY <1>0, <2>1, <2>5, <2>6, <2>7, <3>1
  <2> QED BY <1>0, <2>1, <2>8, <2>9, OneMoves
<1> QED BY <1>3, <1>4

------------------------------------------------------------------------------
(* Launches. *)

LEMMA NoRecordIsRecord == IsRecord(NoRecord)
<1> DEFINE no == FALSE
<1>1. NoRecord = [id |-> 0, kind |-> "none", iteration |-> 0, version |-> 0, started |-> 0,
                  outcome |-> "none", tools |-> no, runner |-> 0, clean |-> no,
                  markers |-> 0, answer |-> 0, canary |-> 0, digest |-> "none",
                  annulled |-> 0]
  BY DEF NoRecord
<1> HIDE DEF no
<1>2. NoRecord = [x \in DOMAIN NoRecord |-> NoRecord[x]]
  BY <1>1
<1> QED BY <1>2 DEF IsRecord

Launched(q, was, n, kind, pc, record) ==
  /\ IsRound(q) /\ q.pc = pc
  /\ q.version = was.version /\ q.iteration = was.iteration
  /\ q.markers = was.markers /\ q.canary = was.canary
  /\ q.role = was.role
  /\ IsRecord(q.run) /\ q.run.id = n /\ q.run.kind = kind
  /\ q.run.version = q.version /\ q.run.iteration = q.iteration
  /\ q.run.markers = record.markers /\ q.run.canary = record.canary
  /\ q.run.runner = runner

\* The number of a launch is new, and no other launch is under way.
LEMMA LaunchMove ==
  ASSUME AudienceIInv, NEW p \in Procs, NEW kind, NEW pc, NEW record, IsRecord(record),
         Launch(p, kind, pc, record)
  PROVE  /\ UNCHANGED <<channel, versions, rounds, runner>> /\ journal' = journal + 1 /\ lock' = p
         /\ journal' \in Nat \ {0} /\ ChannelFits(channel, journal')
         /\ \A k \in RecordsIn(channel) : channel[k].record.id < journal'
         /\ \A o \in Procs : RoundFits(o, round[o], channel, journal', lock')
         /\ \E q : /\ round' = [round EXCEPT ![p] = q]
                   /\ Launched(q, round[p], journal', kind, pc, record)
<1> DEFINE was == round[p]
           run == [record EXCEPT !.id = journal + 1, !.kind = kind,
                                 !.version = was.version, !.iteration = was.iteration,
                                 !.started = Now + 1, !.runner = runner]
           q == [was EXCEPT !.pc = pc, !.run = run]
<1>1. /\ UNCHANGED <<channel, versions, rounds, runner>> /\ journal' = journal + 1 /\ lock' = p
      /\ lock = NoProc /\ journal \in Nat
  BY DEF Launch, AudienceIInv
<1>2. ChannelFits(channel, journal') /\ \A k \in RecordsIn(channel) : channel[k].record.id < journal'
  <2>1. \A k \in RecordsIn(channel) : RecordFits(channel[k].record, journal)
    BY DEF AudienceIInv, ChannelFits
  <2>2. \A x \in 1 .. journal : x \in 1 .. journal' /\ x < journal'
    BY <1>1
  <2>3. \A k \in RecordsIn(channel) :
           RecordFits(channel[k].record, journal') /\ channel[k].record.id < journal'
    BY <2>1, <2>2 DEF RecordFits
  <2> QED BY <2>3 DEF AudienceIInv, ChannelFits
<1>3. \A o \in Procs : RoundFits(o, round[o], channel, journal', lock')
  <2> SUFFICES ASSUME NEW o \in Procs PROVE RoundFits(o, round[o], channel, journal', lock')
    OBVIOUS
  <2>1. RoundFits(o, round[o], channel, journal, lock)
    BY DEF AudienceIInv
  <2>2. round[o].pc \notin Launching
    BY <1>1, RoundsAre
  <2> QED BY <2>1, <2>2, RoundUnlaunched
<1>4. /\ IsRecord(run) /\ run.id = journal + 1 /\ run.kind = kind
      /\ run.version = was.version /\ run.iteration = was.iteration
      /\ run.markers = record.markers /\ run.canary = record.canary /\ run.runner = runner
  <2> HIDE DEF was
  <2> QED BY RecordForm
<1>5. IsRound(was)
  BY RoundsAre
<1> HIDE DEF run
<1>6. round' = [round EXCEPT ![p] = q]
  <2>1. round' = [round EXCEPT ![p].pc = pc, ![p].run = run]
    BY DEF Launch, run
  <2> QED BY <2>1 DEF AudienceIInv
<1>7. /\ IsRound(q) /\ q.pc = pc /\ q.run = run
      /\ q.version = was.version /\ q.iteration = was.iteration
      /\ q.markers = was.markers /\ q.canary = was.canary /\ q.role = was.role
  <2> HIDE DEF was
  <2> QED BY <1>5, RoundForm
<1> HIDE DEF q
<1>8. /\ round' = [round EXCEPT ![p] = q]
      /\ Launched(q, round[p], journal', kind, pc, record)
  BY <1>1, <1>4, <1>6, <1>7 DEF Launched
<1>9. journal' \in Nat \ {0}
  BY <1>1
<1> QED BY <1>1, <1>2, <1>3, <1>8, <1>9

LEMMA LaunchCanaryStep ==
  ASSUME AudienceIInv, NEW p \in Procs, LaunchCanary(p)
  PROVE  AudienceIInv'
<1> DEFINE record == [NoRecord EXCEPT !.markers = round[p].markers]
<1>0. round[p].pc = "canary" /\ Launch(p, "canary", "canary runs", record)
  BY DEF LaunchCanary
<1>1. IsRecord(record) /\ record.markers = round[p].markers
  <2>1. IsRecord(NoRecord)
    BY NoRecordIsRecord
  <2> QED BY <2>1, RecordForm
<1> HIDE DEF record
<1>2. /\ UNCHANGED <<channel, versions, rounds, runner>> /\ journal' = journal + 1 /\ lock' = p
      /\ journal' \in Nat \ {0} /\ ChannelFits(channel, journal')
      /\ \A k \in RecordsIn(channel) : channel[k].record.id < journal'
      /\ \A o \in Procs : RoundFits(o, round[o], channel, journal', lock')
      /\ \E q : /\ round' = [round EXCEPT ![p] = q]
                /\ Launched(q, round[p], journal', "canary", "canary runs", record)
  BY <1>0, <1>1, LaunchMove
<1>3. PICK q : /\ round' = [round EXCEPT ![p] = q]
               /\ Launched(q, round[p], journal', "canary", "canary runs", record)
               /\ q.run.markers = q.markers
  <2>1. PICK q : /\ round' = [round EXCEPT ![p] = q]
                 /\ Launched(q, round[p], journal', "canary", "canary runs", record)
    BY <1>2
  <2>2. q.run.markers = q.markers
    BY <1>1, <2>1 DEF Launched
  <2> QED BY <2>1, <2>2
<1> USE DEF Launched
<1>4. /\ round[p].version \in Nat \ {0} /\ round[p].iteration \in Nat \ {0}
      /\ round[p].markers \in 1 .. Len(channel)
      /\ channel[round[p].markers].phase = "canary_markers"
  <2>1. round[p].pc \in {"canary", "canary runs"} \cup InReading /\ round[p].pc # "idle"
    BY <1>0
  <2>2. RoundFits(p, round[p], channel, journal, lock)
    BY RoundsAre
  <2> QED BY <2>1, <2>2 DEF RoundFits
<1>5. LaunchFits(q, channel, journal')
  <2>1. KindRun(q) = "canary"
    BY <1>3 DEF KindRun
  <2>0. q.run.runner # 0
    BY <1>3 DEF Launched, AudienceIInv
  <2> QED BY <1>2, <1>3, <2>0, <2>1 DEF LaunchFits
<1>6. RoundFits(p, q, channel, journal', lock')
  <2>1. q.pc \in Places /\ q.pc \notin InReading \cup InRole \cup ToAssess
    BY <1>3 DEF Places, InReading, InRole, ToAssess
  <2> QED BY <1>2, <1>3, <1>4, <1>5, <2>1 DEF RoundFits
<1>7. \A o \in Procs \ {p} : Apart(q, round[o])
  <2>1. q.pc \notin ToAssess \cup InReading
    BY <1>3 DEF ToAssess, InReading
  <2> QED BY <2>1, ApartFromWaiting
<1>8. /\ versions' \in Nat /\ rounds' \in Nat /\ journal' \in Nat
      /\ runner' \in Nat \ {0} /\ ChannelFits(channel', journal')
      /\ RoundFits(p, q, channel', journal', lock')
      /\ \A o \in Procs \ {p} : RoundFits(o, round[o], channel', journal', lock')
  BY <1>2, <1>6 DEF AudienceIInv
<1> QED BY <1>3, <1>7, <1>8, OneMoves

LEMMA LaunchBlindStep ==
  ASSUME AudienceIInv, NEW p \in Procs, LaunchBlind(p)
  PROVE  AudienceIInv'
<1> DEFINE record == [NoRecord EXCEPT !.canary = round[p].canary.id,
                                      !.digest = ReaderDigest[round[p].version],
                                      !.annulled = round[p].annulled]
<1>0. round[p].pc = "blind" /\ Launch(p, "blind", "blind runs", record)
  BY DEF LaunchBlind
<1>1. IsRecord(record) /\ record.canary = round[p].canary.id
  <2> DEFINE c == round[p].canary.id
             d == ReaderDigest[round[p].version]
             a == round[p].annulled
  <2>1. IsRecord(NoRecord)
    BY NoRecordIsRecord
  <2> HIDE DEF a, c, d
  <2>2. record = [NoRecord EXCEPT !.canary = c, !.digest = d, !.annulled = a]
    BY DEF a, c, d
  <2> HIDE DEF record
  <2>3. IsRecord(record) /\ record.canary = c
    BY <2>1, <2>2, RecordForm
  <2> QED BY <2>3 DEF c
<1> HIDE DEF record
<1>2. /\ UNCHANGED <<channel, versions, rounds, runner>> /\ journal' = journal + 1 /\ lock' = p
      /\ journal' \in Nat \ {0} /\ ChannelFits(channel, journal')
      /\ \A k \in RecordsIn(channel) : channel[k].record.id < journal'
      /\ \A o \in Procs : RoundFits(o, round[o], channel, journal', lock')
      /\ \E q : /\ round' = [round EXCEPT ![p] = q]
                /\ Launched(q, round[p], journal', "blind", "blind runs", record)
  BY <1>0, <1>1, LaunchMove
<1>3. PICK q : /\ round' = [round EXCEPT ![p] = q]
               /\ IsRound(q) /\ q.pc = "blind runs"
               /\ q.version = round[p].version /\ q.iteration = round[p].iteration
               /\ q.markers = round[p].markers /\ q.canary = round[p].canary
               /\ IsRecord(q.run) /\ q.run.id = journal' /\ q.run.kind = "blind"
               /\ q.run.version = q.version /\ q.run.iteration = q.iteration
               /\ q.run.canary = q.canary.id /\ q.run.runner = runner
  BY <1>1, <1>2 DEF Launched
<1>4. /\ round[p].version \in Nat \ {0} /\ round[p].iteration \in Nat \ {0}
      /\ round[p].markers \in 1 .. Len(channel)
      /\ channel[round[p].markers].phase = "canary_markers"
      /\ CanaryFits(round[p], channel)
  <2>1. round[p].pc \in InReading /\ round[p].pc # "idle"
    BY <1>0 DEF InReading
  <2>2. RoundFits(p, round[p], channel, journal, lock)
    BY RoundsAre
  <2> QED BY <2>1, <2>2 DEF RoundFits
<1>5. LaunchFits(q, channel, journal')
  <2>1. KindRun(q) = "blind"
    BY <1>3 DEF KindRun
  <2>0. q.run.runner # 0
    BY <1>3 DEF Launched, AudienceIInv
  <2> QED BY <1>2, <1>3, <2>0, <2>1 DEF LaunchFits
<1>6. CanaryFits(q, channel)
  BY <1>3, <1>4 DEF CanaryFits
<1>7. RoundFits(p, q, channel, journal', lock')
  <2>1. q.pc \in Places /\ q.pc \in InReading /\ q.pc \notin InRole \cup ToAssess
    BY <1>3 DEF Places, InReading, InRole, ToAssess
  <2> QED BY <1>2, <1>3, <1>4, <1>5, <1>6, <2>1 DEF RoundFits
<1>8. \A o \in Procs \ {p} : Apart(q, round[o])
  <2>1. q.pc \notin ToAssess /\ round[p].pc \in InReading
    BY <1>0, <1>3 DEF ToAssess, InReading
  <2>2. \A o \in Procs \ {p} : Apart(round[p], round[o])
    BY DEF AudienceIInv
  <2> QED BY <1>3, <2>1, <2>2 DEF Apart
<1>9. /\ versions' \in Nat /\ rounds' \in Nat /\ journal' \in Nat
      /\ runner' \in Nat \ {0} /\ ChannelFits(channel', journal')
      /\ RoundFits(p, q, channel', journal', lock')
      /\ \A o \in Procs \ {p} : RoundFits(o, round[o], channel', journal', lock')
  BY <1>2, <1>7 DEF AudienceIInv
<1> QED BY <1>3, <1>8, <1>9, OneMoves

LEMMA LaunchRoleStep ==
  ASSUME AudienceIInv, NEW p \in Procs, LaunchRole(p)
  PROVE  AudienceIInv'
<1> DEFINE record == [NoRecord EXCEPT !.digest = RoleDigest[round[p].version],
                                      !.annulled = round[p].annulled]
           kind == Roles[round[p].role]
<1>0. round[p].pc = "role runs next" /\ Launch(p, kind, "role runs", record)
  BY DEF LaunchRole
<1>1. IsRecord(record)
  <2> DEFINE d == RoleDigest[round[p].version]
             a == round[p].annulled
  <2>1. IsRecord(NoRecord)
    BY NoRecordIsRecord
  <2> HIDE DEF a, d
  <2>2. record = [NoRecord EXCEPT !.digest = d, !.annulled = a]
    BY DEF a, d
  <2> HIDE DEF record
  <2> QED BY <2>1, <2>2, RecordForm
<1> HIDE DEF record, kind
<1>2. /\ UNCHANGED <<channel, versions, rounds, runner>> /\ journal' = journal + 1 /\ lock' = p
      /\ journal' \in Nat \ {0} /\ ChannelFits(channel, journal')
      /\ \A k \in RecordsIn(channel) : channel[k].record.id < journal'
      /\ \A o \in Procs : RoundFits(o, round[o], channel, journal', lock')
      /\ \E q : /\ round' = [round EXCEPT ![p] = q]
                /\ Launched(q, round[p], journal', kind, "role runs", record)
  BY <1>0, <1>1, LaunchMove
<1>3. PICK q : /\ round' = [round EXCEPT ![p] = q]
               /\ IsRound(q) /\ q.pc = "role runs"
               /\ q.version = round[p].version /\ q.iteration = round[p].iteration
               /\ q.role = round[p].role
               /\ IsRecord(q.run) /\ q.run.id = journal' /\ q.run.kind = kind
               /\ q.run.version = q.version /\ q.run.iteration = q.iteration
               /\ q.run.runner = runner
  BY <1>2 DEF Launched
<1>4. /\ round[p].version \in Nat \ {0} /\ round[p].iteration \in Nat \ {0}
      /\ round[p].role \in 1 .. Len(Roles)
  <2>1. round[p].pc \in InRole /\ round[p].pc # "idle"
    BY <1>0 DEF InRole
  <2>2. RoundFits(p, round[p], channel, journal, lock)
    BY RoundsAre
  <2> QED BY <2>1, <2>2 DEF RoundFits
<1>5. LaunchFits(q, channel, journal')
  <2>1. KindRun(q) = kind
    BY <1>3 DEF KindRun, kind
  <2>2. q.pc # "canary runs" /\ q.pc # "blind runs"
    BY <1>3
  <2>0. q.run.runner # 0
    BY <1>3 DEF Launched, AudienceIInv
  <2> QED BY <1>2, <1>3, <2>0, <2>1, <2>2 DEF LaunchFits
<1>6. RoundFits(p, q, channel, journal', lock')
  <2>1. /\ q.pc \in Places /\ q.pc \in InRole
        /\ q.pc \notin {"canary", "canary runs"} \cup InReading \cup ToAssess
    BY <1>3 DEF Places, InReading, InRole, ToAssess
  <2> QED BY <1>2, <1>3, <1>4, <1>5, <2>1 DEF RoundFits
<1>7. \A o \in Procs \ {p} : Apart(q, round[o])
  <2>1. q.pc \notin ToAssess \cup InReading
    BY <1>3 DEF ToAssess, InReading
  <2> QED BY <2>1, ApartFromWaiting
<1>8. /\ versions' \in Nat /\ rounds' \in Nat /\ journal' \in Nat
      /\ runner' \in Nat \ {0} /\ ChannelFits(channel', journal')
      /\ RoundFits(p, q, channel', journal', lock')
      /\ \A o \in Procs \ {p} : RoundFits(o, round[o], channel', journal', lock')
  BY <1>2, <1>6 DEF AudienceIInv
<1> QED BY <1>3, <1>7, <1>8, OneMoves

------------------------------------------------------------------------------
(* Returns. *)

\* What a launch gave back is the run that was launched.
SameRun(r, s) ==
  /\ IsRecord(r)
  /\ r.id = s.id /\ r.kind = s.kind /\ r.version = s.version /\ r.iteration = s.iteration
  /\ r.canary = s.canary /\ r.markers = s.markers

LEMMA ReturnsAreRuns ==
  ASSUME NEW s, IsRecord(s)
  PROVE  /\ SameRun(Held(s), s) /\ Held(s).outcome = "happened" /\ Held(s).runner = s.runner
         /\ SameRun(Refused(s), s) /\ Refused(s).outcome = "not_started"
         /\ SameRun(Touched(s), s) /\ Touched(s).outcome = "annulled"
         /\ SameRun(Failed(s), s) /\ Failed(s).outcome = "annulled"
<1> DEFINE yes == TRUE
<1>1. SameRun(Held(s), s) /\ Held(s).outcome = "happened" /\ Held(s).runner = s.runner
  BY RecordForm DEF Held, SameRun
<1>2. SameRun(Refused(s), s) /\ Refused(s).outcome = "not_started"
  BY RecordForm DEF Refused, SameRun
<1>3. SameRun(Failed(s), s) /\ Failed(s).outcome = "annulled"
  BY RecordForm DEF Failed, SameRun
<1>4. SameRun(Touched(s), s) /\ Touched(s).outcome = "annulled"
  <2>1. Touched(s) = [s EXCEPT !.outcome = "annulled", !.tools = yes]
    BY DEF Touched
  <2> HIDE DEF yes
  <2> QED BY <2>1, RecordForm DEF SameRun
<1> QED BY <1>1, <1>2, <1>3, <1>4

LEMMA RunReturnedIsRun ==
  ASSUME NEW s, IsRecord(s), NEW how \in Returns
  PROVE  SameRun(RunReturned(s, how), s)
<1>1. CASE how = "held"
  BY <1>1, ReturnsAreRuns DEF RunReturned
<1>2. CASE how \in {"transient", "deterministic"}
  BY <1>2, ReturnsAreRuns DEF RunReturned
<1>3. CASE how = "touched"
  BY <1>3, ReturnsAreRuns DEF RunReturned
<1>4. CASE how = "failed"
  BY <1>4, ReturnsAreRuns DEF RunReturned
<1> QED BY <1>1, <1>2, <1>3, <1>4 DEF Returns

LEMMA MessageOfRecord ==
  ASSUME NEW r
  PROVE  RecordMessage(r).phase = "run_record" /\ RecordMessage(r).record = r
BY DEF RecordMessage

\* A round publishes what its launch gave back: the channel keeps its invariant, and
\* every other round what it knows.
LEMMA PublishFits ==
  ASSUME AudienceIInv, NEW p \in Procs, round[p].pc \in Launching,
         NEW L, ChannelFits(L, journal),
         \A o \in Procs : RoundFits(o, round[o], L, journal, lock),
         NEW r, SameRun(r, round[p].run)
  PROVE  /\ ChannelFits(Append(L, RecordMessage(r)), journal)
         /\ \A o \in Procs \ {p} :
               RoundFits(o, round[o], Append(L, RecordMessage(r)), journal, lock')
<1> DEFINE q == round[p]
           m == RecordMessage(r)
<1>0. /\ RoundFits(p, q, L, journal, lock) /\ LaunchFits(q, L, journal) /\ IsChannel(L)
      /\ q.pc \in Launching
  BY DEF RoundFits, ChannelFits
<1>1. m.phase = "run_record" /\ m.record = r /\ m.phase \notin AssessmentKinds
  BY MessageOfRecord, PhasesDiffer
<1> HIDE DEF m
<1>2. r.kind = "blind" => q.pc = "blind runs" /\ r.canary = q.canary.id /\ CanaryFits(q, L)
  <2> SUFFICES ASSUME r.kind = "blind"
               PROVE  q.pc = "blind runs" /\ r.canary = q.canary.id /\ CanaryFits(q, L)
    OBVIOUS
  <2>1. KindRun(q) = "blind"
    BY <1>0 DEF LaunchFits, SameRun
  <2>2. q.pc # "canary runs"
    BY <2>1 DEF KindRun
  <2>3. q.pc # "role runs"
    <3> SUFFICES ASSUME q.pc = "role runs" PROVE FALSE
      OBVIOUS
    <3>1. Roles[q.role] = "blind"
      BY <2>1 DEF KindRun
    <3>2. q.role \in 1 .. Len(Roles)
      BY <1>0 DEF RoundFits, InRole
    <3>3. "blind" \in RoleNames
      BY <3>1, <3>2 DEF RoleNames
    <3> QED BY <3>3, PhasesDiffer
  <2>4. q.pc = "blind runs"
    BY <1>0, <2>2, <2>3 DEF Launching
  <2> QED BY <1>0, <2>4 DEF RoundFits, LaunchFits, SameRun, InReading
<1>3. MayPublish(L, r, journal)
  <2>1. r.id = journal /\ journal \in Nat \ {0} /\ r.version \in Nat \ {0}
    BY <1>0 DEF LaunchFits, SameRun, RoundFits, Launching
  <2>2. \A k \in RecordsIn(L) : L[k].record.id < journal /\ L[k].record.id \in 1 .. journal
    BY <1>0 DEF LaunchFits, ChannelFits, RecordFits
  <2>3. r.kind = "blind" => r.canary \in Nat /\ r.canary < r.id
    <3> SUFFICES ASSUME r.kind = "blind" PROVE r.canary \in Nat /\ r.canary < r.id
      OBVIOUS
    <3>1. PICK i \in RecordsIn(L) : L[i].record = q.canary
      BY <1>2 DEF CanaryFits
    <3>2. r.canary = L[i].record.id
      BY <1>2, <3>1
    <3> QED BY <2>1, <2>2, <3>2
  <2>4. \A k \in RecordsIn(L) : L[k].record.id # r.id
    BY <2>1, <2>2
  <2>5. \A k \in RecordsIn(L) :
           L[k].record.kind = "blind" /\ r.kind = "blind" => L[k].record.canary # r.canary
    BY <1>2 DEF CanaryFits
  <2>6. RecordFits(r, journal)
    BY <2>1, <2>3 DEF RecordFits
  <2> QED BY <2>4, <2>5, <2>6 DEF MayPublish
<1>4. ChannelFits(Append(L, m), journal)
  BY <1>1, <1>3, RecordPublished
<1>5. \A o \in Procs \ {p} : RoundFits(o, round[o], Append(L, m), journal, lock')
  <2> SUFFICES ASSUME NEW o \in Procs \ {p}
               PROVE  RoundFits(o, round[o], Append(L, m), journal, lock')
    OBVIOUS
  <2>1. RoundFits(o, round[o], L, journal, lock) /\ round[o].pc \notin Launching
    BY <1>0, RoundsAre
  <2>2. round[o].pc \in InReading => ~(r.kind = "blind" /\ r.canary = round[o].canary.id)
    <3> SUFFICES ASSUME round[o].pc \in InReading, r.kind = "blind"
                 PROVE  r.canary # round[o].canary.id
      OBVIOUS
    <3>1. Apart(q, round[o])
      BY DEF AudienceIInv
    <3>2. q.pc \in InReading
      BY <1>2 DEF InReading
    <3> QED BY <1>2, <3>1, <3>2 DEF Apart
  <2> QED BY <1>0, <1>1, <2>1, <2>2, RoundKept
<1> QED BY <1>4, <1>5 DEF m

\* A launch that leaves no record ends the round.
LEMMA NothingPublished ==
  ASSUME AudienceIInv, NEW p \in Procs, round[p].pc \in Launching,
         round' = [round EXCEPT ![p] = Idle],
         UNCHANGED <<channel, versions, rounds, runner, journal>>
  PROVE  AudienceIInv'
<1>1. RoundFits(p, Idle, channel, journal, lock') /\ Idle.pc \notin ToAssess \cup InReading
  BY IdleIsRound, IdleFits DEF ToAssess, InReading
<1>2. \A o \in Procs \ {p} : round[o].pc \in Launching => lock' = lock
  BY RoundsAre
<1> QED BY <1>1, <1>2, QuietMove

\* A launch published, and the round goes on.
LEMMA PublishMove ==
  ASSUME AudienceIInv, NEW p \in Procs, round[p].pc \in Launching,
         NEW L, ChannelFits(L, journal),
         \A o \in Procs : RoundFits(o, round[o], L, journal, lock),
         NEW r, SameRun(r, round[p].run), NEW t,
         round' = [round EXCEPT ![p] = t], channel' = Append(L, RecordMessage(r)),
         UNCHANGED <<versions, rounds, runner, journal>>,
         RoundFits(p, t, Append(L, RecordMessage(r)), journal, lock'),
         \A o \in Procs \ {p} : Apart(t, round[o])
  PROVE  AudienceIInv'
<1>1. /\ ChannelFits(Append(L, RecordMessage(r)), journal)
      /\ \A o \in Procs \ {p} :
            RoundFits(o, round[o], Append(L, RecordMessage(r)), journal, lock')
  BY PublishFits
<1>2. /\ versions' \in Nat /\ rounds' \in Nat /\ journal' \in Nat
      /\ runner' \in Nat \ {0} /\ ChannelFits(channel', journal')
      /\ RoundFits(p, t, channel', journal', lock')
      /\ \A o \in Procs \ {p} : RoundFits(o, round[o], channel', journal', lock')
  BY <1>1 DEF AudienceIInv
<1> QED BY <1>2, OneMoves

\* What the canary's call gave back, scanned.
CanaryRun(s, how, at) ==
  LET returned == CASE how = "held"    -> [Held(s) EXCEPT !.clean = TRUE]
                    [] how = "dirty"   -> [Held(s) EXCEPT !.outcome = "annulled"]
                    [] how = "touched" -> [Touched(s) EXCEPT !.clean = TRUE]
                    [] how = "failed"  -> [Failed(s) EXCEPT !.clean = TRUE]
  IN  [returned EXCEPT !.answer = at]

LEMMA CanaryRunIsRun ==
  ASSUME NEW s, IsRecord(s), NEW how \in {"held", "dirty", "touched", "failed"}, NEW at
  PROVE  /\ SameRun(CanaryRun(s, how, at), s) /\ CanaryRun(s, how, at).answer = at
         /\ CanaryRun(s, how, at).outcome = "happened" =>
              CanaryRun(s, how, at).runner = s.runner
<1> DEFINE yes == TRUE
           Cleaned(x) == [[x EXCEPT !.clean = yes] EXCEPT !.answer = at]
<1>1. ASSUME NEW x, SameRun(x, s)
      PROVE  /\ SameRun(Cleaned(x), s) /\ Cleaned(x).answer = at
             /\ Cleaned(x).outcome = x.outcome /\ Cleaned(x).runner = x.runner
  <2> HIDE DEF yes
  <2> QED BY <1>1, RecordForm DEF SameRun
<1>2. CASE how = "held"
  <2>1. CanaryRun(s, how, at) = Cleaned(Held(s))
    BY <1>2 DEF CanaryRun
  <2> HIDE DEF Cleaned
  <2> QED BY <1>1, <2>1, ReturnsAreRuns
<1>3. CASE how = "dirty"
  <2> DEFINE x == [[Held(s) EXCEPT !.outcome = "annulled"] EXCEPT !.answer = at]
  <2>1. CanaryRun(s, how, at) = x
    BY <1>3 DEF CanaryRun
  <2>2. SameRun(Held(s), s)
    BY ReturnsAreRuns
  <2>3. SameRun(x, s) /\ x.answer = at /\ x.outcome = "annulled"
    BY <2>2, RecordForm DEF SameRun
  <2> HIDE DEF x
  <2> QED BY <2>1, <2>3
<1>4. CASE how = "touched"
  <2>1. CanaryRun(s, how, at) = Cleaned(Touched(s))
    BY <1>4 DEF CanaryRun
  <2> HIDE DEF Cleaned
  <2> QED BY <1>1, <2>1, ReturnsAreRuns
<1>5. CASE how = "failed"
  <2>1. CanaryRun(s, how, at) = Cleaned(Failed(s))
    BY <1>5 DEF CanaryRun
  <2> HIDE DEF Cleaned
  <2> QED BY <1>1, <2>1, ReturnsAreRuns
<1>6. \/ how = "held" \/ how = "dirty" \/ how = "touched" \/ how = "failed"
  OBVIOUS
<1> QED BY ONLY <1>2, <1>3, <1>4, <1>5, <1>6

LEMMA CanaryReturnsStep ==
  ASSUME AudienceIInv, NEW p \in Procs, NEW how \in {"held", "dirty", "touched", "failed"},
         CanaryReturns(p, how)
  PROVE  AudienceIInv'
<1> DEFINE q == round[p]
           a == AnswerMessage(q.version)
           L == Append(channel, a)
           r == CanaryRun(q.run, how, Len(channel) + 1)
           t == [q EXCEPT !.pc = "blind", !.run = NoRecord, !.canary = r]
           m == RecordMessage(r)
           M == Append(L, m)
<1>1. /\ q.pc = "canary runs" /\ UNCHANGED <<versions, runner, journal, rounds>>
      /\ channel' = IF Complete(r) THEN M ELSE L
      /\ round' = [round EXCEPT ![p] =
                     IF r.outcome = "happened" /\ r.clean THEN t ELSE Idle]
  BY DEF CanaryReturns, CanaryRun, Return
<1>2. /\ q.pc \in Launching /\ RoundFits(p, q, channel, journal, lock) /\ IsRound(q)
      /\ LaunchFits(q, channel, journal) /\ ChannelFits(channel, journal)
      /\ IsChannel(channel) /\ Len(channel) \in Nat /\ journal \in Nat
      /\ q.version \in Nat \ {0} /\ q.iteration \in Nat \ {0}
      /\ q.markers \in 1 .. Len(channel) /\ channel[q.markers].phase = "canary_markers"
  <2>1. q.pc \in Launching /\ q.pc \in {"canary", "canary runs"} \cup InReading /\ q.pc # "idle"
    BY <1>1 DEF Launching
  <2>2. RoundFits(p, q, channel, journal, lock) /\ ChannelFits(channel, journal) /\ journal \in Nat
    BY DEF AudienceIInv
  <2>3. IsChannel(channel) /\ Len(channel) \in Nat
    BY <2>2, ChannelGrows DEF ChannelFits
  <2> QED BY <2>1, <2>2, <2>3 DEF RoundFits
<1>3. a.phase = "canary" /\ a.version = q.version /\ a.phase \notin AssessmentKinds
      /\ a.phase # "run_record"
  <2>1. a.phase = "canary" /\ a.version = q.version
    BY DEF AnswerMessage
  <2> QED BY <2>1, PhasesDiffer
<1> HIDE DEF a
<1>4. ChannelFits(L, journal) /\ IsChannel(L)
      /\ \A o \in Procs : RoundFits(o, round[o], L, journal, lock)
  <2>1. ChannelFits(L, journal) /\ IsChannel(L)
    BY <1>2, <1>3, RecordPublished DEF ChannelFits
  <2>2. ASSUME NEW o \in Procs PROVE RoundFits(o, round[o], L, journal, lock)
    <3>1. RoundFits(o, round[o], channel, journal, lock)
      BY DEF AudienceIInv
    <3> QED BY <1>2, <1>3, <3>1, RoundKept
  <2> QED BY <2>1, <2>2
<1>5. /\ SameRun(r, q.run) /\ r.answer = Len(channel) + 1
      /\ r.outcome = "happened" => r.runner = q.run.runner
  <2> DEFINE s == q.run
             at == Len(channel) + 1
  <2>1. IsRecord(s)
    BY <1>2 DEF LaunchFits
  <2> HIDE DEF s, at
  <2>2. /\ SameRun(CanaryRun(s, how, at), s) /\ CanaryRun(s, how, at).answer = at
        /\ CanaryRun(s, how, at).outcome = "happened" =>
              CanaryRun(s, how, at).runner = s.runner
    BY <2>1, CanaryRunIsRun
  <2> QED BY ONLY <2>2 DEF s, at
<1>6. m.phase = "run_record" /\ m.record = r
  BY MessageOfRecord
<1>7. /\ Len(L) = Len(channel) + 1 /\ Len(M) = Len(L) + 1
      /\ \A k \in 1 .. Len(channel) : L[k] = channel[k]
      /\ \A k \in 1 .. Len(L) : M[k] = L[k]
      /\ L[Len(channel) + 1] = a /\ M[Len(L) + 1] = m
      /\ \A k \in RecordsIn(L) : k \in RecordsIn(channel)
      /\ \A k \in RecordsIn(M) : k \in RecordsIn(L) \/ k = Len(L) + 1
      /\ RecordsIn(channel) \subseteq 1 .. Len(channel)
      /\ Len(L) + 1 \in RecordsIn(M)
  BY <1>2, <1>3, <1>4, <1>6, ChannelGrows, LastIsNew DEF RecordsIn
<1> HIDE DEF r, m
<1>8. /\ r.id = journal /\ r.kind = "canary" /\ r.version = q.version /\ r.markers = q.markers
      /\ \A k \in RecordsIn(channel) : channel[k].record.id < journal
      /\ r.outcome = "happened" => Complete(r)
  <2>1. KindRun(q) = "canary"
    BY <1>1 DEF KindRun
  <2>2. /\ q.run.id = journal /\ q.run.kind = "canary" /\ q.run.version = q.version
        /\ q.run.markers = q.markers /\ q.run.runner # 0
        /\ \A k \in RecordsIn(channel) : channel[k].record.id < journal
    BY <1>1, <1>2, <2>1 DEF LaunchFits
  <2> QED BY <1>5, <2>2 DEF SameRun, Complete
<1>9. CASE r.outcome = "happened" /\ r.clean
  <2>1. channel' = M /\ round' = [round EXCEPT ![p] = t]
    BY <1>1, <1>8, <1>9
  <2>2. /\ IsRound(t) /\ t.pc = "blind" /\ t.canary = r
        /\ t.version = q.version /\ t.iteration = q.iteration /\ t.markers = q.markers
    <3> HIDE DEF q
    <3> QED BY <1>2, RoundForm
  <2> HIDE DEF t, L, M
  <2>3. CanaryFits(t, M)
    <3>1. M[Len(L) + 1].record = t.canary /\ Len(L) + 1 \in RecordsIn(M)
      BY <1>6, <1>7, <2>2
    <3>2. /\ r.answer \in 1 .. Len(M) /\ M[r.answer].phase = "canary"
          /\ M[r.answer].version = r.version
      <4>1. r.answer \in 1 .. Len(L) /\ r.answer \in 1 .. Len(M)
        BY <1>2, <1>5, <1>7
      <4>2. M[r.answer] = a
        BY <1>5, <1>7, <4>1
      <4> QED BY <1>3, <1>8, <4>1, <4>2
    <3>3. ASSUME NEW k \in RecordsIn(M), M[k].record.kind = "blind"
          PROVE  M[k].record.canary # r.id
      <4>1. k \in RecordsIn(channel) \/ (k = Len(L) + 1 /\ M[k].record = r)
        BY <1>6, <1>7
      <4>2. k \in RecordsIn(channel)
        BY <1>8, <3>3, <4>1
      <4>3. M[k] = channel[k]
        <5>1. k \in 1 .. Len(channel) /\ k \in 1 .. Len(L)
          BY <1>2, <1>7, <4>2
        <5> QED BY <1>7, <5>1
      <4>4. channel[k].record.canary < channel[k].record.id /\ channel[k].record.canary \in Nat
            /\ channel[k].record.id \in 1 .. journal
        BY <1>2, <3>3, <4>2, <4>3 DEF ChannelFits, RecordFits
      <4>5. channel[k].record.id < journal
        BY <1>8, <4>2
      <4> QED BY <1>2, <1>8, <4>3, <4>4, <4>5
    <3> QED BY <1>8, <1>9, <2>2, <3>1, <3>2, <3>3 DEF CanaryFits
  <2>4. RoundFits(p, t, M, journal, lock')
    <3>1. /\ t.pc \in Places /\ t.pc \in InReading /\ t.pc \notin InRole \cup ToAssess
          /\ t.pc \notin Launching
      BY <2>2 DEF Places, InReading, InRole, ToAssess, Launching
    <3>2. t.markers \in 1 .. Len(M) /\ M[t.markers].phase = "canary_markers"
      <4>1. t.markers \in 1 .. Len(channel) /\ t.markers \in 1 .. Len(L) /\ t.markers \in 1 .. Len(M)
        BY <1>2, <1>7, <2>2
      <4>2. M[t.markers] = channel[t.markers]
        BY <1>7, <4>1
      <4> QED BY <1>2, <2>2, <4>1, <4>2
    <3> QED BY <1>2, <2>2, <2>3, <3>1, <3>2 DEF RoundFits
  <2>5. \A o \in Procs \ {p} : Apart(t, round[o])
    <3> SUFFICES ASSUME NEW o \in Procs \ {p} PROVE Apart(t, round[o])
      OBVIOUS
    <3>1. round[o].pc \in InReading => round[o].canary.id # r.id
      <4> SUFFICES ASSUME round[o].pc \in InReading PROVE round[o].canary.id # r.id
        OBVIOUS
      <4>1. CanaryFits(round[o], channel)
        BY RoundsAre DEF RoundFits
      <4>2. PICK i \in RecordsIn(channel) : channel[i].record = round[o].canary
        BY <4>1 DEF CanaryFits
      <4>3. channel[i].record.id < journal /\ channel[i].record.id \in 1 .. journal
        BY <1>2, <1>8 DEF ChannelFits, RecordFits
      <4> QED BY <1>2, <1>8, <4>2, <4>3
    <3>2. t.pc \notin ToAssess
      BY <2>2 DEF ToAssess
    <3> QED BY <2>2, <3>1, <3>2 DEF Apart
  <2>6. channel' = Append(L, RecordMessage(r)) /\ M = Append(L, RecordMessage(r))
    BY <2>1 DEF M, m
  <2>7. SameRun(r, round[p].run) /\ round[p].pc \in Launching
    BY <1>2, <1>5
  <2>8. RoundFits(p, t, Append(L, RecordMessage(r)), journal, lock')
    BY <2>4, <2>6
  <2> HIDE DEF q
  <2> QED BY <1>1, <1>4, <2>1, <2>5, <2>6, <2>7, <2>8, PublishMove
<1>10. CASE ~(r.outcome = "happened" /\ r.clean)
  <2>1. round' = [round EXCEPT ![p] = Idle]
    BY <1>1, <1>10
  <2>2. /\ Idle.pc \notin ToAssess \cup InReading
        /\ \A K : RoundFits(p, Idle, K, journal, lock')
    BY IdleIsRound, IdleFits DEF ToAssess, InReading
  <2>3. \A o \in Procs \ {p} : Apart(Idle, round[o])
    BY <2>2, ApartFromWaiting
  <2>4. CASE Complete(r)
    <3>1. channel' = Append(L, RecordMessage(r))
      BY <1>1, <2>4 DEF M, m
    <3> HIDE DEF L, q
    <3>2. SameRun(r, round[p].run) /\ round[p].pc \in Launching
      BY <1>2, <1>5 DEF q
    <3>3. RoundFits(p, Idle, Append(L, RecordMessage(r)), journal, lock')
      BY <2>2
    <3> QED BY <1>1, <1>4, <2>1, <2>3, <3>1, <3>2, <3>3, PublishMove
  <2>5. CASE ~Complete(r)
    <3>1. channel' = L
      BY <1>1, <2>5
    <3>2. \A o \in Procs \ {p} : RoundFits(o, round[o], L, journal, lock')
      <4> SUFFICES ASSUME NEW o \in Procs \ {p} PROVE RoundFits(o, round[o], L, journal, lock')
        OBVIOUS
      <4>1. round[o].pc \notin Launching
        BY <1>2, RoundsAre
      <4>2. RoundFits(o, round[o], L, journal, lock)
        BY <1>4
      <4> QED BY <4>1, <4>2, RoundUnlaunched
    <3> HIDE DEF L
    <3>3. /\ versions' \in Nat /\ rounds' \in Nat /\ journal' \in Nat
          /\ runner' \in Nat \ {0} /\ ChannelFits(channel', journal')
          /\ RoundFits(p, Idle, channel', journal', lock')
          /\ \A o \in Procs \ {p} : RoundFits(o, round[o], channel', journal', lock')
      BY <1>1, <1>4, <2>2, <3>1, <3>2 DEF AudienceIInv
    <3> QED BY <2>1, <2>3, <3>3, OneMoves
  <2> QED BY <2>4, <2>5
<1> QED BY <1>9, <1>10

\* A credited run is published as the last record, and nobody assessed it before.
LEMMA CreditGained ==
  ASSUME AudienceIInv, NEW p \in Procs, round[p].pc \in Launching,
         NEW r, SameRun(r, round[p].run), Complete(r), r.outcome = "happened",
         NEW t, IsRound(t), t.pc \in ToAssess, t.run = r, KindRun(t) = r.kind,
         t.version = round[p].version, t.iteration = round[p].iteration,
         t.pc = "role findings" => t.role \in 1 .. Len(Roles),
         r.kind = "blind" => Stands(Append(channel, RecordMessage(r)), Len(channel) + 1)
  PROVE  /\ RoundFits(p, t, Append(channel, RecordMessage(r)), journal, lock')
         /\ \A o \in Procs \ {p} : Apart(t, round[o])
<1> DEFINE q == round[p]
           m == RecordMessage(r)
           M == Append(channel, m)
<1>1. /\ ChannelFits(channel, journal) /\ IsChannel(channel) /\ Len(channel) \in Nat
      /\ journal \in Nat
      /\ q.version \in Nat \ {0} /\ q.iteration \in Nat \ {0}
      /\ LaunchFits(q, channel, journal)
  <2>1. ChannelFits(channel, journal) /\ journal \in Nat
    BY DEF AudienceIInv
  <2>2. IsChannel(channel) /\ Len(channel) \in Nat
    BY <2>1, ChannelGrows DEF ChannelFits
  <2>3. q.pc # "idle"
    BY DEF Launching
  <2> QED BY <2>1, <2>2, <2>3, RoundsAre DEF RoundFits
<1>2. /\ r.id = journal /\ r.version = t.version /\ r.iteration = t.iteration
      /\ \A k \in RecordsIn(channel) : channel[k].record.id < journal
                                         /\ channel[k].record.id \in Nat
  <2>1. /\ r.id = journal /\ r.version = t.version /\ r.iteration = t.iteration
        /\ \A k \in RecordsIn(channel) : channel[k].record.id < journal
    BY <1>1 DEF LaunchFits, SameRun
  <2>2. \A k \in RecordsIn(channel) : channel[k].record.id \in 1 .. journal
    BY <1>1 DEF ChannelFits, RecordFits
  <2>3. \A k \in RecordsIn(channel) : channel[k].record.id < journal /\ channel[k].record.id \in Nat
    BY ONLY <1>1, <2>1, <2>2
  <2> QED BY ONLY <2>1, <2>3
<1>3. m.phase = "run_record" /\ m.record = r /\ m.phase \notin AssessmentKinds
  BY MessageOfRecord, PhasesDiffer
<1> HIDE DEF m
<1>4. /\ M[Len(channel) + 1] = m /\ Len(channel) + 1 \in RecordsIn(M)
      /\ \A k \in AssessmentsIn(M) : k \in AssessmentsIn(channel)
      /\ \A k \in 1 .. Len(channel) : M[k] = channel[k]
      /\ AssessmentsIn(channel) \subseteq 1 .. Len(channel)
  <2>1. /\ M[Len(channel) + 1] = m
        /\ \A k \in 1 .. Len(channel) : M[k] = channel[k]
    BY ONLY <1>1, ChannelGrows
  <2>2. Len(channel) + 1 \in RecordsIn(M)
    BY <1>1, <1>3, LastIsNew
  <2>3. \A k \in AssessmentsIn(M) :
           k \in AssessmentsIn(channel) \/ (k = Len(channel) + 1 /\ m.phase \in AssessmentKinds)
    BY <1>1, LastIsNew
  <2>4. AssessmentsIn(channel) \subseteq 1 .. Len(channel)
    BY DEF AssessmentsIn
  <2> QED BY ONLY <1>3, <2>1, <2>2, <2>3, <2>4
<1>0. r.kind = "blind" => Stands(M, Len(channel) + 1)
  BY DEF m
<1> HIDE DEF M, q
<1>5. ASSUME NEW k \in AssessmentsIn(M) PROVE M[k].source # t.run.id
  <2>1. M[k] = channel[k] /\ k \in AssessmentsIn(channel)
    BY <1>4
  <2>2. PICK j \in RecordsIn(channel) : channel[j].record.id = channel[k].source
    BY <1>1, <2>1 DEF ChannelFits, Grounded
  <2>3. channel[j].record.id < journal /\ channel[j].record.id \in Nat
    BY <1>2
  <2>4. M[k].source # r.id
    BY ONLY <1>1, <1>2, <2>1, <2>2, <2>3
  <2> QED BY <2>4
<1>6. CreditFits(t, M)
  BY <1>0, <1>2, <1>3, <1>4, <1>5 DEF CreditFits
<1>7. RoundFits(p, t, M, journal, lock')
  <2>1. t.pc \in Places /\ t.pc \notin Launching
        /\ t.pc \notin {"canary", "canary runs"} \cup InReading
        /\ (t.pc \in InRole => t.pc = "role findings")
    BY DEF ToAssess, Places, Launching, InReading, InRole
  <2> QED BY <1>1, <1>6, <2>1 DEF RoundFits, q
<1>8. ASSUME NEW o \in Procs \ {p} PROVE Apart(t, round[o])
  <2>1. t.pc \notin InReading
    BY DEF ToAssess, InReading
  <2>2. ASSUME round[o].pc \in ToAssess PROVE round[o].run.id # t.run.id
    <3>1. CreditFits(round[o], channel)
      BY <2>2, RoundsAre DEF RoundFits
    <3>2. PICK j \in RecordsIn(channel) : channel[j].record = round[o].run
      BY <3>1 DEF CreditFits
    <3>3. channel[j].record.id < journal /\ channel[j].record.id \in Nat
      BY <1>2
    <3>4. round[o].run.id # r.id
      BY ONLY <1>1, <1>2, <3>2, <3>3
    <3> QED BY <3>4
  <2> QED BY <2>1, <2>2 DEF Apart
<1> QED BY <1>7, <1>8 DEF M, m

LEMMA RefusalFits ==
  ASSUME NEW p, NEW q, IsRound(q), NEW r, NEW how, NEW again, NEW stop, NEW L, NEW n, NEW h,
         q.version \in Nat \ {0}, q.iteration \in Nat \ {0},
         \/ /\ again = "canary"
            /\ q.markers \in 1 .. Len(L) /\ L[q.markers].phase = "canary_markers"
         \/ again = "role runs next" /\ q.role \in 1 .. Len(Roles),
         RoundFits(p, stop, L, n, h), stop.pc \in {"idle", "role"}
  PROVE  LET t == AfterRefusal(q, r, how, again, stop)
         IN  RoundFits(p, t, L, n, h) /\ t.pc \in {"idle", "role", "canary", "role runs next"}
<1>1. CASE how = "transient" /\ q.attempt = 1
  <2> DEFINE a == r.id
             own == q.own \cup {r}
             t == [q EXCEPT !.pc = again, !.attempt = 2, !.annulled = a, !.own = own,
                            !.run = NoRecord]
  <2>1. AfterRefusal(q, r, how, again, stop) = t
    BY <1>1 DEF AfterRefusal
  <2> HIDE DEF a, own
  <2>2. /\ IsRound(t) /\ t.pc = again /\ t.version = q.version /\ t.iteration = q.iteration
        /\ t.markers = q.markers /\ t.role = q.role
    BY RoundForm
  <2> HIDE DEF t
  <2> QED BY <2>1, <2>2, WaitingFits
<1>2. CASE ~(how = "transient" /\ q.attempt = 1)
  BY <1>2 DEF AfterRefusal
<1> QED BY <1>1, <1>2

LEMMA BlindReturnsStep ==
  ASSUME AudienceIInv, NEW p \in Procs, NEW how \in Returns, NEW said,
         BlindReturns(p, how, said)
  PROVE  AudienceIInv'
<1> DEFINE q == round[p]
           r == RunReturned(q.run, how)
           universe == PublishedRecords(q.seen) \cup q.own \cup {r}
           credited == CreditBlindReading(r, q.canary, universe, ReaderDigest[q.version],
                                          channel[q.markers].at)
           known == [q EXCEPT !.pc = "blind findings", !.run = r, !.said = said]
           t == IF r.outcome = "not_started"
                THEN AfterRefusal(q, r, how, "canary", Idle)
                ELSE IF credited THEN known ELSE Idle
           M == Append(channel, RecordMessage(r))
<1>1. /\ q.pc = "blind runs" /\ UNCHANGED <<versions, runner, journal, rounds>>
      /\ IF Complete(r)
         THEN channel' = M /\ round' = [round EXCEPT ![p] = t]
         ELSE UNCHANGED channel /\ round' = [round EXCEPT ![p] = Idle]
  BY DEF BlindReturns, Return, Post
<1>2. /\ q.pc \in Launching /\ IsRound(q) /\ LaunchFits(q, channel, journal)
      /\ ChannelFits(channel, journal) /\ IsChannel(channel) /\ Len(channel) \in Nat
      /\ q.version \in Nat \ {0} /\ q.iteration \in Nat \ {0}
      /\ q.markers \in 1 .. Len(channel) /\ channel[q.markers].phase = "canary_markers"
      /\ CanaryFits(q, channel)
  <2>1. q.pc \in Launching /\ q.pc \in InReading /\ q.pc # "idle"
    BY <1>1 DEF Launching, InReading
  <2>2. RoundFits(p, q, channel, journal, lock) /\ ChannelFits(channel, journal)
    BY DEF AudienceIInv
  <2>3. IsChannel(channel) /\ Len(channel) \in Nat
    BY <2>2, ChannelGrows DEF ChannelFits
  <2> QED BY <2>1, <2>2, <2>3 DEF RoundFits
<1>3. SameRun(r, q.run)
  <2>1. IsRecord(q.run)
    BY <1>2 DEF LaunchFits
  <2> QED BY <2>1, RunReturnedIsRun
<1> HIDE DEF r, universe
<1>4. CASE ~Complete(r)
  BY <1>1, <1>2, <1>4, NothingPublished
<1>5. CASE Complete(r)
  <2>1. channel' = M /\ round' = [round EXCEPT ![p] = t]
    BY <1>1, <1>5
  <2>2. q.markers \in 1 .. Len(M) /\ M[q.markers].phase = "canary_markers"
    <3>1. Len(M) = Len(channel) + 1 /\ \A k \in 1 .. Len(channel) : M[k] = channel[k]
      BY <1>2, ChannelGrows
    <3> HIDE DEF M
    <3> QED BY <1>2, <3>1
  <2>3. RoundFits(p, t, M, journal, lock') /\ \A o \in Procs \ {p} : Apart(t, round[o])
    <3>0. /\ RoundFits(p, Idle, M, journal, lock') /\ Idle.pc = "idle"
          /\ \A o \in Procs \ {p} : Apart(Idle, round[o])
      <4>1. RoundFits(p, Idle, M, journal, lock') /\ Idle.pc = "idle"
        BY IdleIsRound, IdleFits
      <4>2. Idle.pc \notin ToAssess \cup InReading
        BY <4>1 DEF ToAssess, InReading
      <4> QED BY <4>1, <4>2, ApartFromWaiting
    <3>1. CASE r.outcome = "not_started"
      <4> DEFINE u == AfterRefusal(q, r, how, "canary", Idle)
      <4>1. t = u
        BY <3>1
      <4> HIDE DEF q, M
      <4>2. RoundFits(p, u, M, journal, lock') /\ u.pc \in {"idle", "role", "canary", "role runs next"}
        BY <1>2, <2>2, <3>0, RefusalFits
      <4> HIDE DEF u, t
      <4>3. t.pc \notin ToAssess \cup InReading
        BY <4>1, <4>2 DEF ToAssess, InReading
      <4> QED BY <4>1, <4>2, <4>3, ApartFromWaiting
    <3>2. CASE r.outcome # "not_started" /\ credited
      <4>1. t = known
        BY <3>2
      <4>2. /\ IsRound(known) /\ known.pc = "blind findings" /\ known.run = r
            /\ known.version = q.version /\ known.iteration = q.iteration
        <5> HIDE DEF q
        <5> QED BY <1>2, RoundForm
      <4> DEFINE c == q.canary
      <4>3. /\ r.kind = "blind" /\ r.outcome = "happened" /\ ~r.tools
            /\ Complete(c) /\ ~c.tools /\ c.clean /\ c.runner = r.runner
            /\ c.id = r.canary /\ c.version = r.version /\ r.id = c.id + 1
            /\ channel[q.markers].at < c.started
        BY <3>2 DEF CreditBlindReading
      <4> HIDE DEF known, t
      <4>4. Stands(M, Len(channel) + 1)
        <5> DEFINE m == RecordMessage(r)
        <5>1. m.phase = "run_record" /\ m.record = r
          BY MessageOfRecord
        <5>2. PICK i \in RecordsIn(channel) : channel[i].record = c
          BY <1>2 DEF CanaryFits
        <5>3. /\ c.kind = "canary" /\ c.outcome = "happened" /\ c.markers = q.markers
              /\ c.answer \in 1 .. Len(channel) /\ channel[c.answer].phase = "canary"
              /\ channel[c.answer].version = c.version
          BY <1>2 DEF CanaryFits
        <5> HIDE DEF m, c
        <5>4. /\ M = Append(channel, m)
              /\ \A k \in 1 .. Len(channel) : Append(channel, m)[k] = channel[k]
              /\ Append(channel, m)[Len(channel) + 1] = m
              /\ Len(Append(channel, m)) = Len(channel) + 1
              /\ RecordsIn(channel) \subseteq RecordsIn(Append(channel, m))
              /\ RecordsIn(channel) \subseteq 1 .. Len(channel)
          BY <1>2, ChannelGrows, LastIsNew DEF m, RecordsIn
        <5> HIDE DEF M, q
        <5>5. /\ M[i].record = c /\ i \in RecordsIn(M) /\ i < Len(channel) + 1
              /\ M[Len(channel) + 1].record = r
              /\ c.markers \in 1 .. Len(M) /\ M[c.markers] = channel[c.markers]
              /\ c.answer \in 1 .. Len(M) /\ M[c.answer] = channel[c.answer]
          BY <1>2, <5>1, <5>2, <5>3, <5>4
        <5>6. /\ M[c.markers].phase = "canary_markers" /\ M[c.markers].at < c.started
              /\ M[c.answer].phase = "canary" /\ M[c.answer].version = c.version
              /\ c.id + 1 = r.id
          BY <1>2, <4>3, <5>3, <5>5 DEF c
        <5>7. /\ Complete(c) /\ ~c.tools /\ c.clean /\ c.runner = r.runner
              /\ c.id = r.canary /\ c.version = r.version /\ ~r.tools
          BY <4>3 DEF c
        <5> QED BY ONLY <5>3, <5>5, <5>6, <5>7 DEF Stands
      <4>5. KindRun(known) = r.kind /\ known.pc \in ToAssess /\ known.pc # "role findings"
        BY <4>2, <4>3 DEF KindRun, ToAssess
      <4> QED BY <1>2, <1>3, <1>5, <4>1, <4>2, <4>3, <4>4, <4>5, CreditGained
    <3>3. CASE r.outcome # "not_started" /\ ~credited
      <4>1. t = Idle
        BY <3>3
      <4> HIDE DEF t
      <4> QED BY <3>0, <4>1
    <3> QED BY <3>1, <3>2, <3>3
  <2> HIDE DEF t
  <2>4. \A o \in Procs : RoundFits(o, round[o], channel, journal, lock)
    BY DEF AudienceIInv
  <2>5. SameRun(r, round[p].run) /\ round[p].pc \in Launching
    BY <1>2, <1>3
  <2> HIDE DEF q
  <2> QED BY <1>1, <1>2, <2>1, <2>3, <2>4, <2>5, PublishMove
<1> QED BY <1>4, <1>5

\* Past a role, the round waits for the next one or ends.
LEMMA PastRoleFits ==
  ASSUME NEW p, NEW q, IsRound(q), NEW L, NEW n, NEW h,
         q.role \in 1 .. Len(Roles),
         q.version \in Nat \ {0}, q.iteration \in Nat \ {0}
  PROVE  /\ RoundFits(p, NextRole(q, q.role + 1), L, n, h)
         /\ NextRole(q, q.role + 1).pc \in {"idle", "role"}
         /\ RoundFits(p, NextRole([q EXCEPT !.run = NoRecord], q.role + 1), L, n, h)
         /\ NextRole([q EXCEPT !.run = NoRecord], q.role + 1).pc \in {"idle", "role"}
<1> DEFINE k == q.role
           bare == [q EXCEPT !.run = NoRecord]
<1>0. Len(Roles) \in Nat
  BY AudienceAssumption
<1>1. k \in 1 .. Len(Roles)
  OBVIOUS
<1>2. IsRound(bare) /\ bare.version = q.version /\ bare.iteration = q.iteration
  BY RoundForm
<1> HIDE DEF k, bare
<1>3. k + 1 \in Nat \ {0}
  BY ONLY <1>0, <1>1
<1>4. RoundFits(p, NextRole(q, k + 1), L, n, h) /\ NextRole(q, k + 1).pc \in {"idle", "role"}
  BY <1>3, NextRoleFits
<1>5. /\ RoundFits(p, NextRole(bare, k + 1), L, n, h)
      /\ NextRole(bare, k + 1).pc \in {"idle", "role"}
  <2>1. bare.version \in Nat \ {0} /\ bare.iteration \in Nat \ {0}
    BY <1>2
  <2> QED BY <1>2, <1>3, <2>1, NextRoleFits
<1> QED BY <1>4, <1>5 DEF k, bare

LEMMA RoleReturnsStep ==
  ASSUME AudienceIInv, NEW p \in Procs, NEW how \in Returns, NEW said,
         RoleReturns(p, how, said)
  PROVE  AudienceIInv'
<1> DEFINE q == round[p]
           kind == Roles[q.role]
           r == RunReturned(q.run, how)
           past == NextRole([q EXCEPT !.run = NoRecord], q.role + 1)
           credited == CreditRoleRun(r, OfKind(PublishedRecords(q.seen), kind)
                                          \cup q.own \cup {r}, RoleDigest[q.version])
           open == UNION {FindingNames(channel[k]) : k \in PhasesUpTo(q.seen, kind)} \ Disposed
           marked == MarkFindings(said, Disposed, open)
           known == [q EXCEPT !.pc = "role findings", !.run = r, !.said = marked]
           t == IF r.outcome = "not_started"
                THEN AfterRefusal(q, r, how, "role runs next", past)
                ELSE IF credited THEN known ELSE past
           M == Append(channel, RecordMessage(r))
<1>1. /\ q.pc = "role runs" /\ UNCHANGED <<versions, runner, journal, rounds>>
      /\ IF Complete(r)
         THEN channel' = M /\ round' = [round EXCEPT ![p] = t]
         ELSE UNCHANGED channel /\ round' = [round EXCEPT ![p] = Idle]
  BY DEF RoleReturns, Return, Post
<1>2. /\ q.pc \in Launching /\ IsRound(q) /\ LaunchFits(q, channel, journal)
      /\ ChannelFits(channel, journal)
      /\ q.version \in Nat \ {0} /\ q.iteration \in Nat \ {0}
      /\ q.role \in 1 .. Len(Roles)
  <2>1. q.pc \in Launching /\ q.pc \in InRole /\ q.pc # "idle"
    BY <1>1 DEF Launching, InRole
  <2>2. RoundFits(p, q, channel, journal, lock) /\ ChannelFits(channel, journal)
    BY DEF AudienceIInv
  <2> QED BY <2>1, <2>2 DEF RoundFits
<1>3. SameRun(r, q.run)
  <2>1. IsRecord(q.run)
    BY <1>2 DEF LaunchFits
  <2> QED BY <2>1, RunReturnedIsRun
<1> HIDE DEF r, marked
<1>4. CASE ~Complete(r)
  BY <1>1, <1>2, <1>4, NothingPublished
<1>5. CASE Complete(r)
  <2>1. channel' = M /\ round' = [round EXCEPT ![p] = t]
    BY <1>1, <1>5
  <2>2. RoundFits(p, past, M, journal, lock') /\ past.pc \in {"idle", "role"}
    <3> HIDE DEF M, q
    <3> QED BY <1>2, PastRoleFits
  <2>3. RoundFits(p, t, M, journal, lock') /\ \A o \in Procs \ {p} : Apart(t, round[o])
    <3>1. CASE r.outcome = "not_started"
      <4> DEFINE u == AfterRefusal(q, r, how, "role runs next", past)
      <4>1. t = u
        BY <3>1
      <4> HIDE DEF q, M, past
      <4>2. RoundFits(p, u, M, journal, lock') /\ u.pc \in {"idle", "role", "canary", "role runs next"}
        BY <1>2, <2>2, RefusalFits
      <4> HIDE DEF u, t
      <4>3. t.pc \notin ToAssess \cup InReading
        BY <4>1, <4>2 DEF ToAssess, InReading
      <4> QED BY <4>1, <4>2, <4>3, ApartFromWaiting
    <3>2. CASE r.outcome # "not_started" /\ credited
      <4>1. t = known
        BY <3>2
      <4>2. /\ IsRound(known) /\ known.pc = "role findings" /\ known.run = r
            /\ known.version = q.version /\ known.iteration = q.iteration
            /\ known.role = q.role
        <5> HIDE DEF q
        <5> QED BY <1>2, RoundForm
      <4>3. r.kind \in RoleNames /\ r.outcome = "happened"
        BY <3>2 DEF CreditRoleRun
      <4>4. r.kind # "blind"
        BY <4>3, PhasesDiffer
      <4> HIDE DEF known, t
      <4>5. KindRun(known) = r.kind /\ known.pc \in ToAssess
        <5>1. r.kind = Roles[q.role]
          BY <1>1, <1>2, <1>3 DEF LaunchFits, SameRun, KindRun
        <5> QED BY <4>2, <5>1 DEF KindRun, ToAssess
      <4>6. known.role \in 1 .. Len(Roles)
        BY <1>2, <4>2
      <4> QED BY <1>2, <1>3, <1>5, <4>1, <4>2, <4>3, <4>4, <4>5, <4>6, CreditGained
    <3>3. CASE r.outcome # "not_started" /\ ~credited
      <4>1. t = past
        BY <3>3
      <4> HIDE DEF t, past
      <4>2. t.pc \notin ToAssess \cup InReading
        BY <2>2, <4>1 DEF ToAssess, InReading
      <4> QED BY <2>2, <4>1, <4>2, ApartFromWaiting
    <3> QED BY <3>1, <3>2, <3>3
  <2> HIDE DEF t
  <2>4. \A o \in Procs : RoundFits(o, round[o], channel, journal, lock)
    BY DEF AudienceIInv
  <2>5. SameRun(r, round[p].run) /\ round[p].pc \in Launching
    BY <1>2, <1>3
  <2> HIDE DEF q
  <2> QED BY <1>1, <1>2, <2>1, <2>3, <2>4, <2>5, PublishMove
<1> QED BY <1>4, <1>5

LEMMA BeginRoleStep ==
  ASSUME AudienceIInv, NEW p \in Procs, BeginRole(p)
  PROVE  AudienceIInv'
<1> DEFINE q == round[p]
           kind == Roles[q.role]
           ready == Transferable(q, kind)
           source == LatestCreditedBlind(ready)
           phases == PhasesOf(Len(channel), kind, source)
           past == NextRole(q, q.role + 1)
           m == FindingsMessage(kind, source, q.version, q.iteration,
                                Restated(Latest(phases)), <<source.version, source.iteration>>)
           begun == [q EXCEPT !.pc = "role runs next", !.seen = Len(channel)]
<1>1. /\ q.pc = "role" /\ UNCHANGED <<versions, runner, journal, lock, rounds>>
      /\ IF ready = {}
         THEN /\ round' = [round EXCEPT ![p].pc = "role runs next", ![p].seen = Len(channel)]
              /\ UNCHANGED channel
         ELSE IF phases = {}
         THEN round' = [round EXCEPT ![p] = past] /\ UNCHANGED channel
         ELSE channel' = Append(channel, m) /\ round' = [round EXCEPT ![p] = past]
  BY DEF BeginRole, Post
<1>2. /\ IsRound(q) /\ q.version \in Nat \ {0} /\ q.iteration \in Nat \ {0}
      /\ q.role \in 1 .. Len(Roles) /\ kind \in AssessmentKinds
      /\ rounds \in Nat /\ runner \in Nat \ {0}
  <2>1. q.pc \in InRole /\ q.pc # "idle"
    BY <1>1 DEF InRole
  <2>2. RoundFits(p, q, channel, journal, lock) /\ rounds \in Nat /\ runner \in Nat \ {0}
    BY DEF AudienceIInv
  <2>3. q.role \in 1 .. Len(Roles)
    BY <2>1, <2>2 DEF RoundFits
  <2>4. kind \in AssessmentKinds
    BY <2>3 DEF AssessmentKinds, RoleNames
  <2> QED BY <2>1, <2>2, <2>3, <2>4 DEF RoundFits
<1>3. \A L : RoundFits(p, past, L, journal, lock) /\ past.pc \in {"idle", "role"}
  <2> HIDE DEF q
  <2> QED BY <1>2, PastRoleFits
<1>4. past.pc \notin ToAssess \cup InReading
  <2> HIDE DEF past
  <2> QED BY <1>3 DEF ToAssess, InReading
<1>5. CASE ready = {}
  <2>1. round' = [round EXCEPT ![p] = begun] /\ UNCHANGED channel
    BY <1>1, <1>5 DEF AudienceIInv
  <2>2. /\ IsRound(begun) /\ begun.pc = "role runs next" /\ begun.role = q.role
        /\ begun.version = q.version /\ begun.iteration = q.iteration
    <3> HIDE DEF q
    <3> QED BY <1>2, RoundForm
  <2> HIDE DEF begun
  <2>3. RoundFits(p, begun, channel, journal, lock')
    <3> HIDE DEF q
    <3> QED BY <1>2, <2>2, WaitingFits
  <2>4. begun.pc \notin ToAssess \cup InReading
    BY <2>2 DEF ToAssess, InReading
  <2> HIDE DEF q
  <2> QED BY <1>1, <2>1, <2>3, <2>4, QuietMove
<1>6. CASE ready # {} /\ phases = {}
  <2>1. round' = [round EXCEPT ![p] = past] /\ UNCHANGED channel
    BY <1>1, <1>6
  <2> HIDE DEF past, ready, phases, source, m
  <2>2. RoundFits(p, past, channel, journal, lock')
    BY <1>1, <1>3
  <2> HIDE DEF q
  <2> QED BY <1>1, <1>4, <2>1, <2>2, QuietMove
<1>7. CASE ready # {} /\ phases # {}
  <2>1. channel' = Append(channel, m) /\ round' = [round EXCEPT ![p] = past]
    BY <1>1, <1>7
  <2>2. /\ ready \subseteq PublishedRecords(Len(channel))
        /\ \A r \in ready : r.kind = kind /\ q.iteration > r.iteration
    BY DEF Transferable, OfKind, CarriedForward
  <2>3. source \in ready
    <3> HIDE DEF ready
    <3> QED BY <1>7, <2>2, LatestIsOne
  <2> HIDE DEF ready
  <2>4. source \in PublishedRecords(Len(channel)) /\ source.kind = kind
        /\ q.iteration > source.iteration
    BY <2>2, <2>3
  <2> HIDE DEF source, kind, past, q
  <2>5. /\ ChannelFits(Append(channel, m), journal) /\ m.phase \in AssessmentKinds
        /\ \E k \in AssessmentsIn(channel) : channel[k].source = m.source
    BY <1>2, <1>7, <2>4, CarryFits
  <2> HIDE DEF m
  <2>6. past.pc \in {"idle", "role"} /\ RoundFits(p, past, Append(channel, m), journal, lock)
    BY <1>3
  <2> QED BY <1>1, <1>2, <2>1, <2>5, <2>6, AssessMove
<1> QED BY <1>5, <1>6, <1>7

------------------------------------------------------------------------------
(* The theorems. *)

LEMMA AudienceStep == AudienceIInv /\ [AudienceNext]_audienceVars => AudienceIInv'
<1> SUFFICES ASSUME AudienceIInv, [AudienceNext]_audienceVars PROVE AudienceIInv'
  OBVIOUS
<1>1. ASSUME NEW p \in Procs, RoundStep(p) PROVE AudienceIInv'
  <2>1. ASSUME NEW i \in {rounds, rounds + 1} \ {0}, NEW live \in 0 .. MaxRunners,
               StartRound(p, i, live)
        PROVE  AudienceIInv'
    BY <2>1, StartStep
  <2>2. CASE LaunchCanary(p)
    BY <2>2, LaunchCanaryStep
  <2>3. CASE LaunchBlind(p)
    BY <2>3, LaunchBlindStep
  <2>4. CASE LaunchRole(p)
    BY <2>4, LaunchRoleStep
  <2>5. CASE FindLocked(p)
    BY <2>5, LeaveStep
  <2>6. ASSUME NEW how \in {"held", "dirty", "touched", "failed"}, CanaryReturns(p, how)
        PROVE  AudienceIInv'
    BY <2>6, CanaryReturnsStep
  <2>7. ASSUME NEW how \in Returns, NEW said, BlindReturns(p, how, said) \/ RoleReturns(p, how, said)
        PROVE  AudienceIInv'
    BY <2>7, BlindReturnsStep, RoleReturnsStep
  <2>8. CASE PostBlindFindings(p) \/ PostRoleFindings(p)
    BY <2>8, PostFindingsStep
  <2>9. CASE BeginRole(p)
    BY <2>9, BeginRoleStep
  <2> QED BY <1>1, <2>1, <2>2, <2>3, <2>4, <2>5, <2>6, <2>7, <2>8, <2>9 DEF RoundStep
<1>2. ASSUME NEW p \in Procs, Die(p) PROVE AudienceIInv'
  BY <1>2, LeaveStep
<1>3. CASE PostVersion \/ UpdateRunner \/ RemoveLock \/ (\E f \in DOMAIN Coarse : Dispose(f))
  BY <1>3, AroundStep
<1>4. CASE UNCHANGED audienceVars
  <2>1. UNCHANGED <<channel, versions, runner, journal, lock, round, rounds>>
    BY <1>4 DEF audienceVars
  <2> QED BY <2>1 DEF AudienceIInv
<1> QED BY <1>1, <1>2, <1>3, <1>4 DEF AudienceNext

\* Whatever rounds run beside each other, die or fail: every published run was launched
\* once and is published once, every assessment stands on a published run, a reading on a
\* canary of its own, and what a round is about to publish nobody else has assessed.
THEOREM AudienceInvariance == AudienceSpec => []AudienceIInv
BY AudienceStarts, AudienceStep, PTL DEF AudienceSpec

\* Any two assessments that name one run say one thing: no round, whatever ran beside it
\* or before it, leaves a contradiction on the channel, which nobody could retract.
THEOREM NothingIsContradicted == AudienceSpec => []NeverContradicts
<1>1. ASSUME AudienceIInv PROVE NeverContradicts
  <2>1. SayOneThing(channel) /\ FindingPhases = AssessmentsIn(channel)
    BY <1>1, PublishedForm DEF AudienceIInv, ChannelFits
  <2> HIDE DEF FindingPhases
  <2> QED BY <2>1 DEF SayOneThing, NeverContradicts
<1> QED BY <1>1, AudienceInvariance, PTL

\* A record is found by its number, and where it was published.
LEMMA SourceFound ==
  ASSUME AudienceIInv, NEW j \in RecordsIn(channel), NEW k,
         channel[k].source = channel[j].record.id
  PROVE  SourceAt(k) = j /\ SourceOf(k) = channel[j].record
<1>1. \A i \in RecordsIn(channel) : channel[i].record.id = channel[k].source => i = j
  BY DEF AudienceIInv, ChannelFits, PublishedOnce
<1>2. SourceAt(k) = j
  BY <1>1, PublishedForm DEF SourceAt
<1> QED BY <1>2 DEF SourceOf

\* The gate reads an assessment as the round that made it did, but for what was published
\* since: all that it can still object to is the link of the retry.
GateAsksLink(k) == RetryLinkHolds(SourceOf(k), PublishedRecords(Len(channel)))

LEMMA GroundedIsAccepted ==
  ASSUME AudienceIInv, NEW k \in AssessmentsIn(channel)
  PROVE  /\ SourceAt(k) \in RecordsIn(channel)
         /\ channel[SourceAt(k)].record.id = channel[k].source
         /\ GateAsksLink(k) => GateAccepts(k)
         /\ GateAccepts(k) => GateAsksLink(k)
<1> DEFINE m == channel[k]
<1>1. ChannelFits(channel, journal) /\ Len(channel) \in Nat
      /\ AssessmentsIn(channel) \subseteq 1 .. Len(channel)
      /\ RecordsIn(channel) \subseteq 1 .. Len(channel)
  BY ChannelGrows DEF AudienceIInv, ChannelFits, AssessmentsIn, RecordsIn
<1>2. PICK j \in RecordsIn(channel) :
         LET r == channel[j].record
         IN  /\ j < k
             /\ r.id = m.source /\ r.kind = m.phase /\ r.digest = m.digest
             /\ Complete(r) /\ r.outcome = "happened"
             /\ IF m.from = <<0, 0>>
                THEN r.version = m.version /\ r.iteration = m.iteration
                ELSE /\ m.from = <<r.version, r.iteration>>
                     /\ m.iteration > r.iteration
                     /\ \E i \in AssessmentsIn(channel) :
                           i < k /\ channel[i].phase = m.phase /\ channel[i].source = m.source
             /\ m.phase = "blind" => Stands(channel, j)
  BY <1>1 DEF ChannelFits, Grounded
<1> DEFINE r == channel[j].record
           link == RetryLinkHolds(r, PublishedRecords(Len(channel)))
<1>3. SourceAt(k) = j /\ SourceOf(k) = r
  BY <1>2, SourceFound
<1>4. BindingHolds(k) <=> (m.phase \in RoleNames => link)
  <2> DEFINE S == PhasesOf(k - 1, m.phase, r)
             earlier == {channel[i].findings : i \in S}
  <2>1. ASSUME m.from # <<0, 0>> PROVE earlier = {m.findings}
    <3>1. ASSUME NEW i \in S PROVE channel[i].findings = m.findings
      <4>1. i \in 1 .. (k - 1) /\ channel[i].phase = m.phase /\ channel[i].source = r.id
        BY <3>1 DEF PhasesOf, PhasesUpTo
      <4>2. i \in AssessmentsIn(channel)
        BY <1>1, <4>1 DEF AssessmentsIn
      <4>3. channel[i].source = m.source
        BY <1>2, <4>1
      <4> QED BY <1>1, <4>2, <4>3 DEF ChannelFits, SayOneThing
    <3>2. PICK i \in AssessmentsIn(channel) :
             i < k /\ channel[i].phase = m.phase /\ channel[i].source = m.source
      BY <1>2, <2>1
    <3>3. i \in S
      <4>1. i \in 1 .. (k - 1)
        BY <1>1, <3>2
      <4> QED BY <1>2, <3>2, <4>1 DEF PhasesOf, PhasesUpTo
    <3> HIDE DEF S
    <3> QED BY <3>1, <3>3
  <2> HIDE DEF earlier
  <2>2. BindingHolds(k) <=>
          /\ r.kind = m.phase
          /\ r.digest = m.digest
          /\ Complete(r) /\ r.outcome = "happened"
          /\ m.phase \in RoleNames => link
          /\ IF m.from = <<0, 0>>
             THEN r.version = m.version /\ r.iteration = m.iteration
             ELSE /\ m.from = <<r.version, r.iteration>>
                  /\ m.iteration > r.iteration
                  /\ earlier = {m.findings}
    BY <1>3 DEF BindingHolds, earlier
  <2> HIDE DEF m, r, link
  <2> QED BY <1>2, <2>1, <2>2 DEF r
<1>5. ASSUME m.phase = "blind" PROVE PairHolds(j) <=> link
  <2>1. /\ r.kind = "blind" /\ Complete(r) /\ r.outcome = "happened" /\ ~r.tools
        /\ Stands(channel, j)
    BY <1>2, <1>5 DEF Stands
  <2>2. PICK i \in RecordsIn(channel) :
          LET c == channel[i].record
          IN  /\ i < j
              /\ c.kind = "canary" /\ c.id = r.canary
              /\ Complete(c) /\ ~c.tools /\ c.outcome = "happened" /\ c.clean
              /\ c.runner = r.runner
              /\ c.version = r.version
              /\ c.id + 1 = r.id
              /\ c.markers \in 1 .. Len(channel) /\ channel[c.markers].phase = "canary_markers"
              /\ channel[c.markers].at < c.started
              /\ c.answer \in 1 .. Len(channel) /\ channel[c.answer].phase = "canary"
              /\ channel[c.answer].version = c.version
    BY <2>1 DEF Stands
  <2> DEFINE c == channel[i].record
  <2>3. i \in PhasesUpTo(j - 1, "run_record")
    <3>1. channel[i].phase = "run_record"
      BY DEF RecordsIn
    <3>2. i \in 1 .. (j - 1)
      BY <1>1, <2>2
    <3> QED BY <3>1, <3>2 DEF PhasesUpTo
  <2>4. ASSUME NEW x \in PhasesUpTo(Len(channel), "run_record"),
               channel[x].record.kind = "blind", channel[x].record.canary = r.canary
        PROVE  channel[x].record.id = r.id
    <3>1. x \in RecordsIn(channel)
      BY PublishedForm
    <3>2. x = j
      BY <1>1, <2>1, <2>4, <3>1 DEF ChannelFits, PublishedOnce
    <3> QED BY <3>2
  <2>6. /\ c.markers \in PhasesUpTo(Len(channel), "canary_markers")
        /\ c.answer \in PhasesUpTo(Len(channel), "canary")
    BY <2>2 DEF PhasesUpTo
  <2>7. /\ c.kind = "canary" /\ c.id = r.canary
        /\ Complete(c) /\ ~c.tools /\ c.outcome = "happened" /\ c.clean
        /\ c.runner = r.runner /\ c.version = r.version /\ c.id + 1 = r.id
        /\ channel[c.markers].at < c.started /\ channel[c.answer].version = c.version
    BY <2>2
  <2>8. /\ Complete(r) /\ ~r.tools /\ r.outcome = "happened"
        /\ \A x \in PhasesUpTo(Len(channel), "run_record") :
              LET s == channel[x].record
              IN  s.kind = "blind" /\ s.canary = r.canary => s.id = r.id
        /\ \E x \in PhasesUpTo(j - 1, "run_record") :
              LET d == channel[x].record
              IN  /\ d.kind = "canary" /\ d.id = r.canary
                  /\ Complete(d) /\ ~d.tools /\ d.outcome = "happened" /\ d.clean
                  /\ d.runner = r.runner
                  /\ d.version = r.version
                  /\ d.id + 1 = r.id
                  /\ d.markers \in PhasesUpTo(Len(channel), "canary_markers")
                  /\ channel[d.markers].at < d.started
                  /\ d.answer \in PhasesUpTo(Len(channel), "canary")
                  /\ channel[d.answer].version = d.version
    <3> HIDE DEF r
    <3> QED BY <2>1, <2>3, <2>4, <2>6, <2>7
  <2> QED BY <2>8 DEF PairHolds
<1>6. m.phase \in {"blind"} \cup RoleNames /\ "blind" \notin RoleNames
  BY PhasesDiffer DEF AssessmentsIn, AssessmentKinds
<1>7. GateAsksLink(k) <=> link
  BY <1>3 DEF GateAsksLink
<1>8. GateAccepts(k) <=> BindingHolds(k) /\ (m.phase = "blind" => PairHolds(j))
  BY <1>3 DEF GateAccepts
<1>9. SourceAt(k) \in RecordsIn(channel) /\ channel[SourceAt(k)].record.id = channel[k].source
  BY <1>2, <1>3
<1> HIDE DEF link, m, r
<1> QED BY <1>4, <1>5, <1>6, <1>7, <1>8, <1>9

------------------------------------------------------------------------------
(* What a round had read when its run was credited, and the gate's link of the retry. *)

RecordsUpTo(L, n) == {L[k].record : k \in {j \in 1 .. n : L[j].phase = "run_record"}}

\* A round has read a part of the channel, published its own annulled runs, and credits
\* a run whose link holds over the two.
ReadsFit(q, L) ==
  /\ q.seen \in 0 .. Len(L)
  /\ q.own \subseteq RecordsUpTo(L, Len(L))
  /\ q.pc \in ToAssess => RetryLinkHolds(q.run, RecordsUpTo(L, q.seen) \cup q.own)

AudienceReads == \A p \in Procs : ReadsFit(round[p], channel)

Extends(L, M) ==
  /\ Len(L) \in Nat /\ Len(M) \in Nat /\ Len(L) <= Len(M)
  /\ \A k \in 1 .. Len(L) : M[k] = L[k]

LEMMA ExtendsItself ==
  ASSUME NEW L, IsChannel(L)
  PROVE  Extends(L, L)
<1>1. Len(L) \in Nat
  BY ChannelGrows
<1> QED BY <1>1 DEF Extends

LEMMA ExtendsByOne ==
  ASSUME NEW L, IsChannel(L), NEW m
  PROVE  Extends(L, Append(L, m)) /\ IsChannel(Append(L, m))
<1> DEFINE M == Append(L, m)
<1>1. /\ IsChannel(M) /\ Len(L) \in Nat /\ Len(M) = Len(L) + 1
      /\ \A k \in 1 .. Len(L) : M[k] = L[k]
  BY ChannelGrows
<1> HIDE DEF M
<1>2. Extends(L, M) /\ IsChannel(M)
  BY <1>1 DEF Extends
<1> QED BY <1>2 DEF M

LEMMA ExtendsOnwards ==
  ASSUME NEW L, NEW M, NEW N, Extends(L, M), Extends(M, N)
  PROVE  Extends(L, N)
<1>1. 1 .. Len(L) \subseteq 1 .. Len(M) /\ Len(L) <= Len(N)
  BY DEF Extends
<1> QED BY <1>1 DEF Extends

LEMMA RecordsKept ==
  ASSUME NEW L, NEW M, Extends(L, M)
  PROVE  /\ \A n \in 0 .. Len(L) : RecordsUpTo(M, n) = RecordsUpTo(L, n)
         /\ RecordsUpTo(L, Len(L)) \subseteq RecordsUpTo(M, Len(M))
<1>1. ASSUME NEW n \in 0 .. Len(L) PROVE RecordsUpTo(M, n) = RecordsUpTo(L, n)
  <2>1. \A k \in 1 .. n : M[k] = L[k]
    BY DEF Extends
  <2> QED BY <2>1 DEF RecordsUpTo
<1>2. \A k \in 1 .. Len(L) : k \in 1 .. Len(M) /\ M[k] = L[k]
  BY DEF Extends
<1> QED BY <1>1, <1>2 DEF RecordsUpTo

\* Everything a part of the channel holds, the channel holds.
LEMMA RecordsGrow ==
  ASSUME NEW L, Len(L) \in Nat, NEW n \in 0 .. Len(L)
  PROVE  RecordsUpTo(L, n) \subseteq RecordsUpTo(L, Len(L))
<1>1. 1 .. n \subseteq 1 .. Len(L)
  OBVIOUS
<1> QED BY <1>1 DEF RecordsUpTo

LEMMA ReadsKept ==
  ASSUME NEW L, NEW M, Extends(L, M), NEW q, ReadsFit(q, L)
  PROVE  ReadsFit(q, M)
<1>1. q.seen \in 0 .. Len(L) /\ q.seen \in 0 .. Len(M)
  BY DEF ReadsFit, Extends
<1>2. RecordsUpTo(M, q.seen) = RecordsUpTo(L, q.seen)
  BY <1>1, RecordsKept
<1>3. q.own \subseteq RecordsUpTo(M, Len(M))
  BY RecordsKept DEF ReadsFit
<1> QED BY <1>1, <1>2, <1>3 DEF ReadsFit

LEMMA IdleReads ==
  ASSUME NEW L, Len(L) \in Nat
  PROVE  ReadsFit(Idle, L)
BY DEF ReadsFit, Idle, ToAssess

LEMMA NextRoleReads ==
  ASSUME NEW q, IsRound(q), NEW L, Len(L) \in Nat, q.seen \in 0 .. Len(L), NEW k
  PROVE  ReadsFit(NextRole(q, k), L)
<1>1. CASE k <= Len(Roles)
  <2> DEFINE t == [q EXCEPT !.pc = "role", !.role = k, !.own = {}, !.attempt = 1, !.annulled = 0]
  <2>1. t.pc = "role" /\ t.seen = q.seen /\ t.own = {}
    BY RoundForm
  <2>2. NextRole(q, k) = t
    BY <1>1 DEF NextRole
  <2> HIDE DEF t
  <2> QED BY <2>1, <2>2 DEF ReadsFit, ToAssess
<1>2. CASE ~(k <= Len(Roles))
  BY <1>2, IdleReads DEF NextRole
<1> QED BY <1>1, <1>2

\* Whether the link holds depends on the twins alone, and a link that is lost was lost to
\* a twin that came later.
LEMMA SameTwins ==
  ASSUME NEW r, NEW U, NEW V,
         \A t : t.id # r.id /\ t.kind = r.kind => (t \in U <=> t \in V)
  PROVE  RetryLinkHolds(r, U) <=> RetryLinkHolds(r, V)
<1>1. Twins(r, U) = Twins(r, V)
  BY DEF Twins
<1> QED BY <1>1 DEF RetryLinkHolds

LEMMA LinkLost ==
  ASSUME NEW r, NEW U, NEW V, U \subseteq V, RetryLinkHolds(r, U), ~RetryLinkHolds(r, V)
  PROVE  Twins(r, V \ U) # {}
<1>1. Twins(r, U) \subseteq Twins(r, V)
  BY DEF Twins
<1>2. r.annulled = 0
  BY <1>1 DEF RetryLinkHolds
<1>3. Twins(r, U) = {} /\ Twins(r, V) # {}
  BY <1>2 DEF RetryLinkHolds
<1>4. PICK t : t \in Twins(r, V)
  BY <1>3
<1>5. t \notin U
  BY <1>3, <1>4 DEF Twins
<1>6. t \in Twins(r, V \ U)
  BY <1>4, <1>5 DEF Twins
<1> QED BY <1>6

------------------------------------------------------------------------------
(* What a step adds to the channel. *)

Published == PublishedRecords(Len(channel))

\* An assessment that is posted restates a run whose link holds over what is published, or
\* is of a run that its round had credited.
Assesses(m) ==
  /\ m.phase \in AssessmentKinds
  /\ \/ \E r \in Published : m.source = r.id /\ RetryLinkHolds(r, Published)
     \/ \E p \in Procs : round[p].pc \in ToAssess /\ m.source = round[p].run.id

Talks(m) == m.phase \notin AssessmentKinds

ChannelMoves ==
  \/ UNCHANGED channel
  \/ \E m : channel' = Append(channel, m) /\ (Talks(m) \/ Assesses(m))
  \/ \E m, n : channel' = Append(Append(channel, m), n) /\ Talks(m) /\ Talks(n)

LEMMA ChannelExtends ==
  ASSUME AudienceIInv, ChannelMoves
  PROVE  Extends(channel, channel')
<1>0. IsChannel(channel)
  BY DEF AudienceIInv, ChannelFits
<1>1. CASE UNCHANGED channel
  BY <1>0, <1>1, ExtendsItself
<1>2. ASSUME NEW m, channel' = Append(channel, m) PROVE Extends(channel, channel')
  BY <1>0, <1>2, ExtendsByOne
<1>3. ASSUME NEW m, NEW n, channel' = Append(Append(channel, m), n)
      PROVE  Extends(channel, channel')
  <2>1. Extends(channel, Append(channel, m)) /\ IsChannel(Append(channel, m))
    BY <1>0, ExtendsByOne
  <2>2. Extends(Append(channel, m), Append(Append(channel, m), n))
    BY <2>1, ExtendsByOne
  <2> QED BY <1>3, <2>1, <2>2, ExtendsOnwards
<1> QED BY <1>1, <1>2, <1>3 DEF ChannelMoves

\* One process moves, and the rounds have read what they had.
LEMMA OneReads ==
  ASSUME AudienceIInv, AudienceReads, ChannelMoves, NEW p \in Procs, NEW t,
         round' = [round EXCEPT ![p] = t], ReadsFit(t, channel')
  PROVE  AudienceReads'
<1>1. Extends(channel, channel')
  BY ChannelExtends
<1>2. \A o \in Procs : round'[o] = IF o = p THEN t ELSE round[o]
  BY DEF AudienceIInv
<1>3. \A o \in Procs : ReadsFit(round[o], channel')
  BY <1>1, ReadsKept DEF AudienceReads
<1>4. \A o \in Procs : ReadsFit(round'[o], channel')
  BY <1>2, <1>3
<1> QED BY <1>4 DEF AudienceReads

\* No process moves.
LEMMA NoneReads ==
  ASSUME AudienceIInv, AudienceReads, ChannelMoves, UNCHANGED round
  PROVE  AudienceReads'
<1>1. Extends(channel, channel')
  BY ChannelExtends
<1>2. \A o \in Procs : ReadsFit(round[o], channel')
  BY <1>1, ReadsKept DEF AudienceReads
<1> QED BY <1>2 DEF AudienceReads

LEMMA ReadsAre ==
  ASSUME AudienceIInv, AudienceReads, NEW p \in Procs
  PROVE  /\ IsRound(round[p]) /\ ReadsFit(round[p], channel)
         /\ IsChannel(channel) /\ Len(channel) \in Nat
<1>1. IsRound(round[p]) /\ ReadsFit(round[p], channel) /\ IsChannel(channel)
  BY RoundsAre DEF AudienceReads, AudienceIInv, ChannelFits
<1>2. Len(channel) \in Nat
  BY <1>1, ChannelGrows
<1> QED BY <1>1, <1>2

\* A round ends, or waits with what it had read.
LEMMA MovesOn ==
  ASSUME AudienceIInv, AudienceReads, ChannelMoves, NEW p \in Procs, NEW t,
         round' = [round EXCEPT ![p] = t],
         \/ t = Idle
         \/ t.seen = round[p].seen /\ t.own = round[p].own /\ t.pc \notin ToAssess
  PROVE  AudienceReads'
<1>1. ReadsFit(round[p], channel) /\ IsChannel(channel)
  BY ReadsAre
<1>2. Extends(channel, channel') /\ Len(channel') \in Nat
  BY ChannelExtends DEF Extends
<1>3. ReadsFit(round[p], channel')
  BY <1>1, <1>2, ReadsKept
<1>4. ReadsFit(t, channel')
  <2>1. CASE t = Idle
    BY <1>2, <2>1, IdleReads
  <2>2. CASE t.seen = round[p].seen /\ t.own = round[p].own /\ t.pc \notin ToAssess
    BY <1>3, <2>2 DEF ReadsFit
  <2> QED BY <2>1, <2>2
<1> QED BY <1>4, OneReads

LEMMA StartReads ==
  ASSUME AudienceIInv, AudienceReads, NEW p \in Procs,
         NEW i \in {rounds, rounds + 1} \ {0}, NEW live, StartRound(p, i, live)
  PROVE  ChannelMoves /\ AudienceReads'
<1> DEFINE v == versions
           n == Len(channel)
           q == [Idle EXCEPT !.version = v, !.iteration = i, !.seen = n, !.live = live]
           credited == Recredit(Len(channel))
           source == LatestCreditedBlind(credited)
<1>0. IsChannel(channel) /\ Len(channel) \in Nat
  BY ReadsAre
<1>1. IsRound(q) /\ q.seen = Len(channel)
  <2>1. IsRound(Idle)
    BY IdleIsRound
  <2> HIDE DEF v, n
  <2>2. IsRound(q) /\ q.seen = n
    BY <2>1, RoundForm
  <2> QED BY <2>2 DEF n
<1>2. IF PlanBlindPass(versions, i, credited, live) = "carry"
      THEN CarryBlind(p, q, source) ELSE Announce(p, q)
  BY DEF StartRound
<1> HIDE DEF q
<1>3. CASE PlanBlindPass(versions, i, credited, live) = "carry"
  <2>1. source # NoRecord
    BY <1>3 DEF PlanBlindPass
  <2>2. credited # {}
    BY <2>1 DEF LatestCreditedBlind
  <2>3. /\ credited \subseteq PublishedRecords(Len(channel))
        /\ \A r \in credited :
              r.kind = "blind"
              /\ RetryLinkHolds(r, OfKind(PublishedRecords(Len(channel)), "blind"))
    BY DEF Recredit, OfKind, CreditBlindReading
  <2> HIDE DEF credited
  <2>4. source \in credited
    BY <2>2, <2>3, LatestIsOne
  <2>5. source \in Published /\ RetryLinkHolds(source, Published)
    <3>1. source.kind = "blind" /\ RetryLinkHolds(source, OfKind(Published, "blind"))
      BY <2>3, <2>4 DEF Published
    <3>2. \A t : t.id # source.id /\ t.kind = source.kind =>
             (t \in OfKind(Published, "blind") <=> t \in Published)
      BY <3>1 DEF OfKind
    <3>3. RetryLinkHolds(source, Published)
      BY ONLY <3>1, <3>2, SameTwins
    <3> QED BY <2>3, <2>4, <3>3 DEF Published
  <2> HIDE DEF source
  <2> DEFINE phases == PhasesOf(Len(channel), "blind", source)
             m == FindingsMessage("blind", source, q.version, q.iteration,
                                  Restated(Latest(phases)),
                                  <<source.version, source.iteration>>)
             t == NextRole(q, 1)
  <2>6. \/ channel' = channel /\ round' = [round EXCEPT ![p] = Idle]
        \/ channel' = Append(channel, m) /\ round' = [round EXCEPT ![p] = t]
    BY <1>2, <1>3 DEF CarryBlind, Post
  <2>7. m.phase = "blind" /\ m.source = source.id
    BY DEF FindingsMessage
  <2> HIDE DEF m
  <2>8. Assesses(m)
    BY <2>5, <2>7 DEF Assesses, AssessmentKinds
  <2>9. ChannelMoves
    BY <2>6, <2>8 DEF ChannelMoves
  <2>10. ReadsFit(t, channel') /\ ReadsFit(Idle, channel')
    <3>1. Len(channel') \in Nat /\ Len(channel) <= Len(channel')
      BY <2>9, ChannelExtends DEF Extends
    <3>2. q.seen \in 0 .. Len(channel')
      BY <1>0, <1>1, <3>1
    <3> QED BY <1>1, <3>1, <3>2, NextRoleReads, IdleReads
  <2> HIDE DEF t
  <2> QED BY <2>6, <2>9, <2>10, OneReads
<1>4. CASE PlanBlindPass(versions, i, credited, live) # "carry"
  <2> DEFINE m == MarkersMessage(q.version)
             at == Len(channel) + 1
             t == [q EXCEPT !.pc = "canary", !.attempt = 1, !.markers = at]
  <2>1. channel' = Append(channel, m) /\ round' = [round EXCEPT ![p] = t]
    BY <1>2, <1>4 DEF Announce, Post
  <2>2. m.phase = "canary_markers"
    BY DEF MarkersMessage
  <2> HIDE DEF m, at
  <2>3. ChannelMoves
    BY <2>1, <2>2, PhasesDiffer DEF ChannelMoves, Talks
  <2>4. t.pc = "canary" /\ t.seen = q.seen /\ t.own = q.own
    BY <1>1, RoundForm
  <2>5. q.own = {}
    BY DEF q, Idle
  <2> HIDE DEF t
  <2>6. ReadsFit(t, channel')
    <3>1. Len(channel') \in Nat /\ Len(channel) <= Len(channel')
      BY <2>3, ChannelExtends DEF Extends
    <3>2. q.seen \in 0 .. Len(channel')
      BY <1>0, <1>1, <3>1
    <3> QED BY <2>4, <2>5, <3>2 DEF ReadsFit, ToAssess
  <2> QED BY <2>1, <2>3, <2>6, OneReads
<1> QED BY <1>3, <1>4

LEMMA LaunchReads ==
  ASSUME AudienceIInv, AudienceReads, NEW p \in Procs,
         LaunchCanary(p) \/ LaunchBlind(p) \/ LaunchRole(p)
  PROVE  ChannelMoves /\ AudienceReads'
<1>1. ASSUME NEW kind, NEW pc \in Launching, NEW record, Launch(p, kind, pc, record)
      PROVE  ChannelMoves /\ AudienceReads'
  <2> DEFINE was == round[p]
             run == [record EXCEPT !.id = journal + 1, !.kind = kind,
                                   !.version = was.version, !.iteration = was.iteration,
                                   !.started = Now + 1, !.runner = runner]
             t == [was EXCEPT !.pc = pc, !.run = run]
  <2>1. UNCHANGED channel /\ round' = [round EXCEPT ![p].pc = pc, ![p].run = run]
    BY <1>1 DEF Launch
  <2>2. IsRound(was)
    BY RoundsAre
  <2> HIDE DEF run
  <2>3. round' = [round EXCEPT ![p] = t]
    BY <2>1 DEF AudienceIInv
  <2>4. t.pc = pc /\ t.seen = was.seen /\ t.own = was.own
    <3> HIDE DEF was
    <3> QED BY <2>2, RoundForm
  <2> HIDE DEF t
  <2>5. t.pc \notin ToAssess
    BY <2>4 DEF ToAssess, Launching
  <2>6. ChannelMoves
    BY <2>1 DEF ChannelMoves
  <2> QED BY <2>3, <2>4, <2>5, <2>6, MovesOn
<1>2. CASE LaunchCanary(p)
  BY <1>1, <1>2 DEF LaunchCanary, Launching
<1>3. CASE LaunchBlind(p)
  BY <1>1, <1>3 DEF LaunchBlind, Launching
<1>4. CASE LaunchRole(p)
  BY <1>1, <1>4 DEF LaunchRole, Launching
<1> QED BY <1>2, <1>3, <1>4

LEMMA CanaryReads ==
  ASSUME AudienceIInv, AudienceReads, NEW p \in Procs, NEW how, CanaryReturns(p, how)
  PROVE  ChannelMoves /\ AudienceReads'
<1> DEFINE q == round[p]
           no == NoRecord
<1>0. IsRound(q)
  BY ReadsAre
<1>1. PICK r :
        LET answered == Append(channel, AnswerMessage(q.version))
        IN  /\ channel' = IF Complete(r) THEN Append(answered, RecordMessage(r)) ELSE answered
            /\ round' = [round EXCEPT ![p] =
                           IF r.outcome = "happened" /\ r.clean
                           THEN [q EXCEPT !.pc = "blind", !.run = NoRecord, !.canary = r]
                           ELSE Idle]
  <2> DEFINE given == CASE how = "held"    -> [Held(q.run) EXCEPT !.clean = TRUE]
                        [] how = "dirty"   -> [Held(q.run) EXCEPT !.outcome = "annulled"]
                        [] how = "touched" -> [Touched(q.run) EXCEPT !.clean = TRUE]
                        [] how = "failed"  -> [Failed(q.run) EXCEPT !.clean = TRUE]
             r == [given EXCEPT !.answer = Len(channel) + 1]
  <2>1. LET answered == Append(channel, AnswerMessage(q.version))
        IN  /\ channel' = IF Complete(r) THEN Append(answered, RecordMessage(r)) ELSE answered
            /\ round' = [round EXCEPT ![p] =
                           IF r.outcome = "happened" /\ r.clean
                           THEN [q EXCEPT !.pc = "blind", !.run = NoRecord, !.canary = r]
                           ELSE Idle]
    BY DEF CanaryReturns
  <2> HIDE DEF r
  <2> QED BY <2>1
<1> DEFINE m == AnswerMessage(q.version)
           n == RecordMessage(r)
           on == [q EXCEPT !.pc = "blind", !.run = no, !.canary = r]
           t == IF r.outcome = "happened" /\ r.clean THEN on ELSE Idle
<1>2. m.phase = "canary" /\ n.phase = "run_record"
  BY DEF AnswerMessage, RecordMessage
<1>3. /\ channel' = Append(channel, m) \/ channel' = Append(Append(channel, m), n)
      /\ round' = [round EXCEPT ![p] = t]
  BY <1>1
<1> HIDE DEF m, n
<1>4. Talks(m) /\ Talks(n)
  BY <1>2, PhasesDiffer DEF Talks
<1>5. ChannelMoves
  BY <1>3, <1>4 DEF ChannelMoves
<1> HIDE DEF no
<1>6. on.pc = "blind" /\ on.seen = q.seen /\ on.own = q.own
  <2> HIDE DEF q
  <2> QED BY <1>0, RoundForm
<1> HIDE DEF on
<1>7. t = Idle \/ (t.seen = round[p].seen /\ t.own = round[p].own /\ t.pc \notin ToAssess)
  BY <1>6 DEF ToAssess
<1> HIDE DEF t
<1> QED BY <1>3, <1>5, <1>7, MovesOn

\* A launch that is published: a round that assesses what it gave back has its link, over
\* what the round had read and its own.
LEMMA ReturnReads ==
  ASSUME AudienceIInv, AudienceReads, NEW p \in Procs, NEW r, NEW t,
         round' = [round EXCEPT ![p] = t], channel' = Append(channel, RecordMessage(r)),
         \/ t = Idle
         \/ IsRound(round[p]) /\ \E k : t = NextRole([round[p] EXCEPT !.run = NoRecord], k)
         \/ /\ t.seen = round[p].seen /\ t.pc \notin ToAssess
            /\ t.own = round[p].own \cup {r}
         \/ /\ t.seen = round[p].seen /\ t.own = round[p].own /\ t.run = r
            /\ RetryLinkHolds(r, PublishedRecords(round[p].seen) \cup round[p].own)
  PROVE  ChannelMoves /\ AudienceReads'
<1> DEFINE m == RecordMessage(r)
           q == round[p]
           none == NoRecord
           bare == [q EXCEPT !.run = none]
           M == Append(channel, m)
<1>1. m.phase = "run_record" /\ m.record = r
  BY MessageOfRecord
<1>2. IsRound(q) /\ ReadsFit(q, channel) /\ IsChannel(channel) /\ Len(channel) \in Nat
  BY ReadsAre
<1>3. channel' = M
  OBVIOUS
<1> HIDE DEF m
<1>4. ChannelMoves
  BY <1>1, <1>3, PhasesDiffer DEF ChannelMoves, Talks
<1>5. /\ Extends(channel, M) /\ Len(M) \in Nat /\ Len(channel) <= Len(M)
      /\ Len(M) = Len(channel) + 1 /\ M[Len(channel) + 1] = m
  BY <1>2, ExtendsByOne, ChannelGrows DEF Extends
<1> HIDE DEF M, none
<1>6. ReadsFit(q, M)
  BY <1>2, <1>5, ReadsKept
<1>7. r \in RecordsUpTo(M, Len(M))
  <2>1. Len(channel) + 1 \in 1 .. Len(M)
    BY <1>2, <1>5
  <2> QED BY <1>1, <1>5, <2>1 DEF RecordsUpTo
<1>8. ReadsFit(t, M)
  <2>1. CASE t = Idle
    BY <1>5, <2>1, IdleReads
  <2>2. ASSUME NEW k, t = NextRole(bare, k) PROVE ReadsFit(t, M)
    <3>1. IsRound(bare) /\ bare.seen = q.seen
      <4> HIDE DEF q
      <4> QED BY <1>2, RoundForm
    <3>2. bare.seen \in 0 .. Len(M)
      BY <1>6, <3>1 DEF ReadsFit
    <3> HIDE DEF bare
    <3> QED BY <1>5, <2>2, <3>1, <3>2, NextRoleReads
  <2>3. CASE t.seen = q.seen /\ t.pc \notin ToAssess /\ t.own = q.own \cup {r}
    BY <1>6, <1>7, <2>3 DEF ReadsFit
  <2>4. CASE /\ t.seen = q.seen /\ t.own = q.own /\ t.run = r
             /\ RetryLinkHolds(r, PublishedRecords(q.seen) \cup q.own)
    <3>1. PublishedRecords(q.seen) = RecordsUpTo(channel, q.seen)
      BY DEF PublishedRecords, PhasesUpTo, RecordsUpTo
    <3>2. RecordsUpTo(channel, q.seen) = RecordsUpTo(M, q.seen)
      <4>1. q.seen \in 0 .. Len(channel)
        BY <1>2 DEF ReadsFit
      <4> QED BY <1>5, <4>1, RecordsKept
    <3>3. RetryLinkHolds(t.run, RecordsUpTo(M, t.seen) \cup t.own)
      BY <2>4, <3>1, <3>2
    <3> QED BY <1>6, <2>4, <3>3 DEF ReadsFit
  <2>5. \/ t = Idle
        \/ \E k : t = NextRole(bare, k)
        \/ t.seen = q.seen /\ t.pc \notin ToAssess /\ t.own = q.own \cup {r}
        \/ /\ t.seen = q.seen /\ t.own = q.own /\ t.run = r
           /\ RetryLinkHolds(r, PublishedRecords(q.seen) \cup q.own)
    BY DEF bare, none
  <2> QED BY <2>1, <2>2, <2>3, <2>4, <2>5
<1> QED BY <1>3, <1>4, <1>8, OneReads

\* A refused answer is the round's own from then on.
LEMMA RefusalReads ==
  ASSUME NEW q, IsRound(q), NEW r, NEW how, NEW again, again \notin ToAssess,
         NEW stop
  PROVE  LET t == AfterRefusal(q, r, how, again, stop)
         IN  \/ t = stop
             \/ t.seen = q.seen /\ t.pc \notin ToAssess /\ t.own = q.own \cup {r}
<1>1. CASE how = "transient" /\ q.attempt = 1
  <2> DEFINE a == r.id
             own == q.own \cup {r}
             t == [q EXCEPT !.pc = again, !.attempt = 2, !.annulled = a, !.own = own,
                            !.run = NoRecord]
  <2>1. AfterRefusal(q, r, how, again, stop) = t
    BY <1>1 DEF AfterRefusal
  <2> HIDE DEF a, own
  <2>2. t.seen = q.seen /\ t.pc = again /\ t.own = own
    BY RoundForm
  <2> HIDE DEF t
  <2> QED BY <2>1, <2>2 DEF own
<1>2. CASE ~(how = "transient" /\ q.attempt = 1)
  BY <1>2 DEF AfterRefusal
<1> QED BY <1>1, <1>2

\* Beside itself and what is of another kind, a run has the twins it has.
LEMMA LinkAmongItsKind ==
  ASSUME NEW r, NEW U, NEW V
  PROVE  /\ RetryLinkHolds(r, U \cup V \cup {r}) => RetryLinkHolds(r, U \cup V)
         /\ RetryLinkHolds(r, OfKind(U, r.kind) \cup V \cup {r}) => RetryLinkHolds(r, U \cup V)
<1>1. \A t : t.id # r.id /\ t.kind = r.kind => (t \in U \cup V \cup {r} <=> t \in U \cup V)
  OBVIOUS
<1>2. \A t : t.id # r.id /\ t.kind = r.kind =>
         (t \in OfKind(U, r.kind) \cup V \cup {r} <=> t \in U \cup V)
  BY DEF OfKind
<1>3. RetryLinkHolds(r, U \cup V \cup {r}) => RetryLinkHolds(r, U \cup V)
  BY ONLY <1>1, SameTwins
<1>4. RetryLinkHolds(r, OfKind(U, r.kind) \cup V \cup {r}) => RetryLinkHolds(r, U \cup V)
  BY ONLY <1>2, SameTwins
<1> QED BY <1>3, <1>4

LEMMA BlindReads ==
  ASSUME AudienceIInv, AudienceReads, NEW p \in Procs, NEW how, NEW said,
         BlindReturns(p, how, said)
  PROVE  ChannelMoves /\ AudienceReads'
<1> DEFINE q == round[p]
           r == RunReturned(q.run, how)
           universe == PublishedRecords(q.seen) \cup q.own \cup {r}
           credited == CreditBlindReading(r, q.canary, universe, ReaderDigest[q.version],
                                          channel[q.markers].at)
           known == [q EXCEPT !.pc = "blind findings", !.run = r, !.said = said]
           refused == AfterRefusal(q, r, how, "canary", Idle)
           t == IF r.outcome = "not_started" THEN refused
                ELSE IF credited THEN known ELSE Idle
<1>1. IF Complete(r)
      THEN channel' = Append(channel, RecordMessage(r)) /\ round' = [round EXCEPT ![p] = t]
      ELSE UNCHANGED channel /\ round' = [round EXCEPT ![p] = Idle]
  BY DEF BlindReturns, Post
<1>2. IsRound(q)
  BY ReadsAre
<1> HIDE DEF r
<1>3. CASE ~Complete(r)
  <2>1. ChannelMoves
    BY <1>1, <1>3 DEF ChannelMoves
  <2> QED BY <1>1, <1>3, <2>1, MovesOn
<1>4. CASE Complete(r)
  <2>1. channel' = Append(channel, RecordMessage(r)) /\ round' = [round EXCEPT ![p] = t]
    BY <1>1, <1>4
  <2>2. \/ refused = Idle
        \/ refused.seen = q.seen /\ refused.pc \notin ToAssess /\ refused.own = q.own \cup {r}
    <3> HIDE DEF q
    <3>1. "canary" \notin ToAssess
      BY DEF ToAssess
    <3> QED BY <1>2, <3>1, RefusalReads
  <2>3. known.seen = q.seen /\ known.own = q.own /\ known.run = r
    <3> HIDE DEF q
    <3> QED BY <1>2, RoundForm
  <2>4. credited => RetryLinkHolds(r, PublishedRecords(q.seen) \cup q.own)
    BY LinkAmongItsKind DEF CreditBlindReading
  <2>5. t = refused \/ (t = known /\ credited) \/ t = Idle
    OBVIOUS
  <2> HIDE DEF t, refused, known, credited
  <2>6. \/ t = Idle
        \/ t.seen = q.seen /\ t.pc \notin ToAssess /\ t.own = q.own \cup {r}
        \/ /\ t.seen = q.seen /\ t.own = q.own /\ t.run = r
           /\ RetryLinkHolds(r, PublishedRecords(q.seen) \cup q.own)
    BY <2>2, <2>3, <2>4, <2>5
  <2> QED BY <2>1, <2>6, ReturnReads
<1> QED BY <1>3, <1>4

LEMMA RoleReads ==
  ASSUME AudienceIInv, AudienceReads, NEW p \in Procs, NEW how \in Returns, NEW said,
         RoleReturns(p, how, said)
  PROVE  ChannelMoves /\ AudienceReads'
<1> DEFINE q == round[p]
           kind == Roles[q.role]
           r == RunReturned(q.run, how)
           past == NextRole([q EXCEPT !.run = NoRecord], q.role + 1)
           credited == CreditRoleRun(r, OfKind(PublishedRecords(q.seen), kind)
                                          \cup q.own \cup {r}, RoleDigest[q.version])
           open == UNION {FindingNames(channel[k]) : k \in PhasesUpTo(q.seen, kind)} \ Disposed
           marked == MarkFindings(said, Disposed, open)
           known == [q EXCEPT !.pc = "role findings", !.run = r, !.said = marked]
           refused == AfterRefusal(q, r, how, "role runs next", past)
           t == IF r.outcome = "not_started" THEN refused
                ELSE IF credited THEN known ELSE past
<1>1. /\ q.pc = "role runs"
      /\ IF Complete(r)
         THEN channel' = Append(channel, RecordMessage(r)) /\ round' = [round EXCEPT ![p] = t]
         ELSE UNCHANGED channel /\ round' = [round EXCEPT ![p] = Idle]
  BY DEF RoleReturns, Post
<1>2. IsRound(q) /\ r.kind = kind
  <2>1. q.pc \in Launching
    BY <1>1 DEF Launching
  <2>2. LaunchFits(q, channel, journal)
    BY <2>1, RoundsAre DEF RoundFits
  <2>3. KindRun(q) = kind
    BY <1>1 DEF KindRun
  <2>4. IsRecord(q.run) /\ q.run.kind = kind
    BY <2>2, <2>3 DEF LaunchFits
  <2>5. SameRun(r, q.run)
    BY <2>4, RunReturnedIsRun
  <2> QED BY <2>4, <2>5, ReadsAre DEF SameRun
<1> HIDE DEF r, marked
<1>3. CASE ~Complete(r)
  <2>1. ChannelMoves
    BY <1>1, <1>3 DEF ChannelMoves
  <2> QED BY <1>1, <1>3, <2>1, MovesOn
<1>4. CASE Complete(r)
  <2>1. channel' = Append(channel, RecordMessage(r)) /\ round' = [round EXCEPT ![p] = t]
    BY <1>1, <1>4
  <2>2. \/ refused = past
        \/ refused.seen = q.seen /\ refused.pc \notin ToAssess /\ refused.own = q.own \cup {r}
    <3> DEFINE again == "role runs next"
               u == AfterRefusal(q, r, how, again, past)
    <3>1. again \notin ToAssess
      BY DEF ToAssess
    <3> HIDE DEF q, past, again
    <3>2. \/ u = past
          \/ u.seen = q.seen /\ u.pc \notin ToAssess /\ u.own = q.own \cup {r}
      BY <1>2, <3>1, RefusalReads
    <3> QED BY <3>2 DEF again
  <2>3. known.seen = q.seen /\ known.own = q.own /\ known.run = r
    <3> HIDE DEF q
    <3> QED BY <1>2, RoundForm
  <2>4. credited => RetryLinkHolds(r, PublishedRecords(q.seen) \cup q.own)
    <3> HIDE DEF kind
    <3> QED BY <1>2, LinkAmongItsKind DEF CreditRoleRun
  <2>5. t = refused \/ (t = known /\ credited) \/ t = past
    OBVIOUS
  <2>6. \E k : past = NextRole([round[p] EXCEPT !.run = NoRecord], k)
    OBVIOUS
  <2> HIDE DEF t, refused, known, credited, past
  <2>7. \/ IsRound(q) /\ \E k : t = NextRole([round[p] EXCEPT !.run = NoRecord], k)
        \/ t.seen = q.seen /\ t.pc \notin ToAssess /\ t.own = q.own \cup {r}
        \/ /\ t.seen = q.seen /\ t.own = q.own /\ t.run = r
           /\ RetryLinkHolds(r, PublishedRecords(q.seen) \cup q.own)
    BY <1>2, <2>2, <2>3, <2>4, <2>5, <2>6
  <2> QED BY <2>1, <2>7, ReturnReads
<1> QED BY <1>3, <1>4

LEMMA PostReads ==
  ASSUME AudienceIInv, AudienceReads, NEW p \in Procs,
         PostBlindFindings(p) \/ PostRoleFindings(p)
  PROVE  ChannelMoves /\ AudienceReads'
<1> DEFINE q == round[p]
           none == NoRecord
           said == <<>>
           blank == [q EXCEPT !.run = none, !.said = said, !.canary = none, !.markers = 0]
           bare  == [q EXCEPT !.run = none, !.said = said]
           k == q.role
           t == IF q.pc = "blind findings" THEN NextRole(blank, 1) ELSE NextRole(bare, k + 1)
           m == FindingsMessage(KindRun(q), q.run, q.version, q.iteration, q.said, <<0, 0>>)
<1>1. /\ q.pc \in ToAssess
      /\ round' = [round EXCEPT ![p] = t] /\ channel' = Append(channel, m)
  <2>1. CASE PostBlindFindings(p)
    BY <2>1 DEF PostBlindFindings, Post, KindRun, ToAssess
  <2>2. CASE PostRoleFindings(p)
    BY <2>2 DEF PostRoleFindings, Post, KindRun, ToAssess
  <2> QED BY <2>1, <2>2
<1>2. IsRound(q) /\ ReadsFit(q, channel) /\ Len(channel) \in Nat
  BY ReadsAre
<1>3. m.phase \in AssessmentKinds /\ m.source = q.run.id
  BY <1>1, FreshFits
<1> HIDE DEF m
<1>4. ChannelMoves
  BY <1>1, <1>3 DEF ChannelMoves, Assesses
<1> HIDE DEF none, said
<1>5. IsRound(blank) /\ blank.seen = q.seen /\ IsRound(bare) /\ bare.seen = q.seen
  <2> HIDE DEF q
  <2> QED BY <1>2, RoundForm
<1>6. Len(channel') \in Nat /\ q.seen \in 0 .. Len(channel')
  <2>1. Extends(channel, channel')
    BY <1>4, ChannelExtends
  <2> QED BY <1>2, <2>1 DEF ReadsFit, Extends
<1> HIDE DEF blank, bare, k
<1>7. ReadsFit(t, channel')
  BY <1>5, <1>6, NextRoleReads
<1> HIDE DEF t
<1> QED BY <1>1, <1>4, <1>7, OneReads

LEMMA BeginReads ==
  ASSUME AudienceIInv, AudienceReads, NEW p \in Procs, BeginRole(p)
  PROVE  ChannelMoves /\ AudienceReads'
<1> DEFINE q == round[p]
           kind == Roles[q.role]
           ready == Transferable(q, kind)
           source == LatestCreditedBlind(ready)
           phases == PhasesOf(Len(channel), kind, source)
           past == NextRole(q, q.role + 1)
           m == FindingsMessage(kind, source, q.version, q.iteration,
                                Restated(Latest(phases)), <<source.version, source.iteration>>)
           n == Len(channel)
           begun == [q EXCEPT !.pc = "role runs next", !.seen = n]
<1>1. /\ q.pc = "role"
      /\ \/ round' = [round EXCEPT ![p] = begun] /\ UNCHANGED channel
         \/ round' = [round EXCEPT ![p] = past] /\ UNCHANGED channel
         \/ ready # {} /\ channel' = Append(channel, m) /\ round' = [round EXCEPT ![p] = past]
  BY DEF BeginRole, Post, AudienceIInv
<1>2. IsRound(q) /\ ReadsFit(q, channel) /\ Len(channel) \in Nat
  BY ReadsAre
<1>3. kind \in AssessmentKinds
  <2>1. q.pc \in InRole
    BY <1>1 DEF InRole
  <2>2. q.role \in 1 .. Len(Roles)
    BY <2>1, RoundsAre DEF RoundFits
  <2> QED BY <2>2 DEF AssessmentKinds, RoleNames
<1>4. ASSUME ready # {} PROVE Assesses(m)
  <2>1. /\ ready \subseteq PublishedRecords(Len(channel))
        /\ \A r \in ready :
              r.kind = kind
              /\ RetryLinkHolds(r, OfKind(PublishedRecords(Len(channel)), kind))
    BY DEF Transferable, OfKind, CreditRoleRun
  <2>2. source \in ready
    <3> HIDE DEF ready
    <3> QED BY <1>4, <2>1, LatestIsOne
  <2> HIDE DEF ready, kind
  <2>3. /\ source \in Published /\ source.kind = kind
        /\ RetryLinkHolds(source, OfKind(Published, kind))
    BY <2>1, <2>2 DEF Published
  <2> HIDE DEF source
  <2>4. \A t : t.id # source.id /\ t.kind = source.kind =>
           (t \in OfKind(Published, kind) <=> t \in Published)
    BY <2>3 DEF OfKind
  <2>5. RetryLinkHolds(source, Published)
    BY ONLY <2>3, <2>4, SameTwins
  <2>6. m.phase = kind /\ m.source = source.id
    BY DEF FindingsMessage
  <2> HIDE DEF m
  <2> QED BY <1>3, <2>3, <2>5, <2>6 DEF Assesses
<1> HIDE DEF m, ready
<1>5. ChannelMoves
  BY <1>1, <1>4 DEF ChannelMoves
<1>6. Len(channel') \in Nat /\ q.seen \in 0 .. Len(channel') /\ n \in 0 .. Len(channel')
  <2>1. Extends(channel, channel')
    BY <1>5, ChannelExtends
  <2> QED BY <1>2, <2>1 DEF ReadsFit, Extends
<1>7. ReadsFit(past, channel')
  BY <1>2, <1>6, NextRoleReads
<1>8. ASSUME UNCHANGED channel PROVE ReadsFit(begun, channel')
  <2>1. begun.pc = "role runs next" /\ begun.seen = n /\ begun.own = q.own
    <3> HIDE DEF q, n
    <3> QED BY <1>2, RoundForm
  <2> HIDE DEF begun, n
  <2> QED BY <1>2, <1>6, <1>8, <2>1 DEF ReadsFit, ToAssess
<1> HIDE DEF past, begun
<1> QED BY <1>1, <1>5, <1>7, <1>8, OneReads

LEMMA ReadsStep ==
  ASSUME AudienceIInv, AudienceReads, [AudienceNext]_audienceVars
  PROVE  ChannelMoves /\ AudienceReads'
<1>1. ASSUME NEW p \in Procs, RoundStep(p) PROVE ChannelMoves /\ AudienceReads'
  <2>1. ASSUME NEW i \in {rounds, rounds + 1} \ {0}, NEW live \in 0 .. MaxRunners,
               StartRound(p, i, live)
        PROVE  ChannelMoves /\ AudienceReads'
    BY <2>1, StartReads
  <2>2. CASE LaunchCanary(p) \/ LaunchBlind(p) \/ LaunchRole(p)
    BY <2>2, LaunchReads
  <2>3. CASE FindLocked(p)
    <3>1. ChannelMoves /\ round' = [round EXCEPT ![p] = Idle]
      BY <2>3 DEF FindLocked, ChannelMoves
    <3> QED BY <3>1, MovesOn
  <2>4. ASSUME NEW how \in {"held", "dirty", "touched", "failed"}, CanaryReturns(p, how)
        PROVE  ChannelMoves /\ AudienceReads'
    BY <2>4, CanaryReads
  <2>5. ASSUME NEW how \in Returns, NEW said, BlindReturns(p, how, said) \/ RoleReturns(p, how, said)
        PROVE  ChannelMoves /\ AudienceReads'
    BY <2>5, BlindReads, RoleReads
  <2>6. CASE PostBlindFindings(p) \/ PostRoleFindings(p)
    BY <2>6, PostReads
  <2>7. CASE BeginRole(p)
    BY <2>7, BeginReads
  <2> QED BY <1>1, <2>1, <2>2, <2>3, <2>4, <2>5, <2>6, <2>7 DEF RoundStep
<1>2. ASSUME NEW p \in Procs, Die(p) PROVE ChannelMoves /\ AudienceReads'
  <2>1. ChannelMoves /\ round' = [round EXCEPT ![p] = Idle]
    BY <1>2 DEF Die, ChannelMoves
  <2> QED BY <2>1, MovesOn
<1>3. ASSUME UNCHANGED <<channel, round>> PROVE ChannelMoves /\ AudienceReads'
  <2>1. ChannelMoves
    BY <1>3 DEF ChannelMoves
  <2> QED BY <1>3, <2>1, NoneReads
<1>4. CASE PostVersion \/ UpdateRunner \/ RemoveLock \/ UNCHANGED audienceVars
  <2>1. UNCHANGED <<channel, round>>
    BY <1>4 DEF PostVersion, UpdateRunner, RemoveLock, audienceVars
  <2> QED BY <1>3, <2>1
<1>5. ASSUME NEW f \in DOMAIN Coarse, Dispose(f) PROVE ChannelMoves /\ AudienceReads'
  <2> DEFINE m == [phase |-> "disposition", finding |-> f]
  <2>1. UNCHANGED round /\ channel' = Append(channel, m)
    BY <1>5 DEF Dispose
  <2>2. Talks(m)
    BY PhasesDiffer DEF Talks
  <2> HIDE DEF m
  <2>3. ChannelMoves
    BY <2>1, <2>2 DEF ChannelMoves
  <2> QED BY <2>1, <2>3, NoneReads
<1> QED BY <1>1, <1>2, <1>4, <1>5 DEF AudienceNext

LEMMA ReadsStart == AudienceInit => AudienceReads
<1> SUFFICES ASSUME AudienceInit, NEW p \in Procs PROVE ReadsFit(round[p], channel)
  BY DEF AudienceReads
<1>1. round[p] = Idle /\ Len(channel) \in Nat
  BY DEF AudienceInit
<1> QED BY <1>1, IdleReads

\* A new assessment is the channel's last message, and no record came with it.
LEMMA NewAssessment ==
  ASSUME AudienceIInv, ChannelMoves, NEW k \in AssessmentsIn(channel'), k \notin AssessmentsIn(channel)
  PROVE  Assesses(channel'[k]) /\ Published' = Published
<1>0. IsChannel(channel)
  BY DEF AudienceIInv, ChannelFits
<1>1. ASSUME NEW m, channel' = Append(channel, m) PROVE k = Len(channel) + 1 /\ m.phase \in AssessmentKinds
  BY <1>0, <1>1, LastIsNew
<1>2. PICK m : channel' = Append(channel, m) /\ Assesses(m)
  <2>1. ASSUME NEW m, NEW n, channel' = Append(Append(channel, m), n), Talks(m), Talks(n)
        PROVE  FALSE
    <3> DEFINE M == Append(channel, m)
    <3>1. IsChannel(M)
      BY <1>0, ExtendsByOne
    <3>2. \A x \in AssessmentsIn(M) : x \in AssessmentsIn(channel)
      BY <1>0, <2>1, LastIsNew DEF Talks
    <3> HIDE DEF M
    <3>3. \A x \in AssessmentsIn(Append(M, n)) : x \in AssessmentsIn(M)
      BY <2>1, <3>1, LastIsNew DEF Talks
    <3>4. channel' = Append(M, n)
      BY <2>1 DEF M
    <3> QED BY <3>2, <3>3, <3>4
  <2>2. ASSUME NEW m, channel' = Append(channel, m), Talks(m) PROVE FALSE
    BY <1>1, <2>2 DEF Talks
  <2> QED BY <2>1, <2>2 DEF ChannelMoves
<1>3. /\ Len(channel) \in Nat /\ Len(channel') = Len(channel) + 1
      /\ channel'[Len(channel) + 1] = m
      /\ \A x \in 1 .. Len(channel) : channel'[x] = channel[x]
  BY <1>0, <1>2, ChannelGrows
<1>4. channel'[k] = m
  BY <1>1, <1>2, <1>3
<1>5. RecordsUpTo(channel', Len(channel')) = RecordsUpTo(channel, Len(channel))
  <2>1. m.phase # "run_record"
    BY <1>2, PhasesDiffer DEF Assesses
  <2>2. \A x : x \in 1 .. Len(channel') <=> x \in 1 .. Len(channel) \/ x = Len(channel) + 1
    BY <1>3
  <2>3. {x \in 1 .. Len(channel') : channel'[x].phase = "run_record"}
          = {x \in 1 .. Len(channel) : channel[x].phase = "run_record"}
    BY <1>3, <2>1, <2>2
  <2> QED BY <1>3, <2>3 DEF RecordsUpTo
<1>6. Published' = Published
  BY <1>5 DEF Published, PublishedRecords, PhasesUpTo, RecordsUpTo
<1> QED BY <1>2, <1>4, <1>6

AssessmentsJudged ==
  \A k \in AssessmentsIn(channel) :
    /\ SourceAt(k) \in RecordsIn(channel)
    /\ channel[SourceAt(k)].record.id = channel[k].source
    /\ GateAsksLink(k) => GateAccepts(k)
    /\ GateAccepts(k) => GateAsksLink(k)

LEMMA AcceptedByLink == AudienceIInv => AssessmentsJudged
BY GroundedIsAccepted DEF AssessmentsJudged

LEMMA AcceptedByLinkNext == AudienceIInv' => AssessmentsJudged'
BY AcceptedByLink, PTL

\* Accepted after a step: the assessment's record is where it was, and all that is asked of
\* it is its link over what is published by then.
LEMMA AcceptedNext ==
  ASSUME AudienceIInv', NEW k \in AssessmentsIn(channel'), NEW j \in RecordsIn(channel'),
         channel'[k].source = channel'[j].record.id,
         RetryLinkHolds(channel'[j].record, Published')
  PROVE  GateAccepts(k)'
<1>1. AssessmentsJudged'
  BY AcceptedByLinkNext
<1>2. /\ SourceAt(k)' \in RecordsIn(channel')
      /\ channel'[SourceAt(k)'].record.id = channel'[k].source
      /\ GateAsksLink(k)' => GateAccepts(k)'
  BY <1>1 DEF AssessmentsJudged
<1>3. PublishedOnce(channel')
  BY DEF AudienceIInv, ChannelFits
<1>4. SourceAt(k)' = j
  BY <1>2, <1>3 DEF PublishedOnce
<1>5. GateAsksLink(k)'
  BY <1>4 DEF GateAsksLink, SourceOf, Published
<1> QED BY <1>2, <1>5

LEMMA RecordsStay ==
  ASSUME AudienceIInv, ChannelMoves, NEW j \in RecordsIn(channel)
  PROVE  j \in RecordsIn(channel') /\ channel'[j] = channel[j]
<1>1. Extends(channel, channel')
  BY ChannelExtends
<1>2. j \in 1 .. Len(channel) /\ j \in 1 .. Len(channel')
  BY <1>1 DEF Extends, RecordsIn
<1>3. channel'[j] = channel[j]
  BY <1>1, <1>2 DEF Extends
<1> QED BY <1>2, <1>3 DEF RecordsIn

LEMMA PublishedGrows ==
  ASSUME AudienceIInv, ChannelMoves
  PROVE  Published \subseteq Published'
<1>1. Extends(channel, channel')
  BY ChannelExtends
<1>2. Published = RecordsUpTo(channel, Len(channel))
      /\ Published' = RecordsUpTo(channel', Len(channel'))
  BY DEF Published, PublishedRecords, PhasesUpTo, RecordsUpTo
<1> QED BY <1>1, <1>2, RecordsKept

\* An assessment that stands loses the gate's acceptance to a new twin only.
LEMMA OldIsAccepted ==
  ASSUME AudienceIInv, AudienceIInv', ChannelMoves,
         NEW k \in AssessmentsIn(channel), k \in AssessmentsIn(channel')
  PROVE  \/ GateAccepts(k)'
         \/ GateAccepts(k) => Twins(SourceOf(k), Published' \ Published) # {}
<1> SUFFICES ASSUME ~GateAccepts(k)', GateAccepts(k)
             PROVE  Twins(SourceOf(k), Published' \ Published) # {}
  OBVIOUS
<1>1. /\ SourceAt(k) \in RecordsIn(channel)
      /\ channel[SourceAt(k)].record.id = channel[k].source
      /\ RetryLinkHolds(SourceOf(k), Published)
  BY GroundedIsAccepted DEF GateAsksLink, Published
<1> DEFINE j == SourceAt(k)
<1>2. j \in RecordsIn(channel') /\ channel'[j] = channel[j]
  BY <1>1, RecordsStay
<1>3. channel'[k] = channel[k]
  <2>1. k \in 1 .. Len(channel) /\ Extends(channel, channel')
    BY ChannelExtends DEF AssessmentsIn
  <2> QED BY <2>1 DEF Extends
<1>4. ~RetryLinkHolds(channel'[j].record, Published')
  <2>1. channel'[k].source = channel'[j].record.id
    BY <1>1, <1>2, <1>3
  <2> HIDE DEF j
  <2> QED BY <1>2, <2>1, AcceptedNext
<1>5. ~RetryLinkHolds(SourceOf(k), Published')
  BY <1>2, <1>4 DEF SourceOf
<1> QED BY <1>1, <1>5, PublishedGrows, LinkLost

\* An assessment is accepted when it is posted, or its round had not read a twin.
LEMMA NewIsAccepted ==
  ASSUME AudienceIInv, AudienceIInv', AudienceReads, ChannelMoves,
         NEW k \in AssessmentsIn(channel'), k \notin AssessmentsIn(channel)
  PROVE  \/ GateAccepts(k)'
         \/ \E p \in Procs :
               /\ round[p].pc \in {"blind findings", "role findings"}
               /\ round[p].run.id = channel'[k].source
               /\ Twins(round[p].run, Published \ Known(round[p])) # {}
<1>1. Assesses(channel'[k]) /\ Published' = Published
  BY NewAssessment
<1>2. ASSUME NEW j \in RecordsIn(channel), channel'[k].source = channel[j].record.id,
             RetryLinkHolds(channel[j].record, Published)
      PROVE  GateAccepts(k)'
  <2>1. j \in RecordsIn(channel') /\ channel'[j] = channel[j]
    BY RecordsStay
  <2>2. channel'[k].source = channel'[j].record.id /\ RetryLinkHolds(channel'[j].record, Published')
    BY <1>1, <1>2, <2>1
  <2> QED BY <2>1, <2>2, AcceptedNext
<1>3. CASE \E r \in Published : channel'[k].source = r.id /\ RetryLinkHolds(r, Published)
  <2>1. PICK r \in Published : channel'[k].source = r.id /\ RetryLinkHolds(r, Published)
    BY <1>3
  <2>2. PICK j \in RecordsIn(channel) : channel[j].record = r
    BY PublishedForm DEF Published
  <2> QED BY <1>2, <2>1, <2>2
<1>4. ASSUME NEW p \in Procs, round[p].pc \in ToAssess, channel'[k].source = round[p].run.id
      PROVE  \/ GateAccepts(k)'
             \/ Twins(round[p].run, Published \ Known(round[p])) # {}
  <2>1. CreditFits(round[p], channel)
    BY <1>4, RoundsAre DEF RoundFits
  <2>2. PICK j \in RecordsIn(channel) : channel[j].record = round[p].run
    BY <2>1 DEF CreditFits
  <2>3. /\ ReadsFit(round[p], channel) /\ Len(channel) \in Nat
        /\ Published = RecordsUpTo(channel, Len(channel))
        /\ Known(round[p]) = RecordsUpTo(channel, round[p].seen) \cup round[p].own
    BY ReadsAre DEF Published, Known, PublishedRecords, PhasesUpTo, RecordsUpTo
  <2>4. RetryLinkHolds(round[p].run, Known(round[p]))
    BY <1>4, <2>3 DEF ReadsFit
  <2>5. Known(round[p]) \subseteq Published
    <3>1. round[p].seen \in 0 .. Len(channel) /\ round[p].own \subseteq Published
      BY <2>3 DEF ReadsFit
    <3>2. RecordsUpTo(channel, round[p].seen) \subseteq Published
      BY <2>3, <3>1, RecordsGrow
    <3> QED BY <2>3, <3>1, <3>2
  <2>6. CASE RetryLinkHolds(round[p].run, Published)
    BY <1>2, <1>4, <2>2, <2>6
  <2>7. CASE ~RetryLinkHolds(round[p].run, Published)
    BY <2>4, <2>5, <2>7, LinkLost
  <2> QED BY <2>6, <2>7
<1> QED BY <1>1, <1>3, <1>4 DEF Assesses, ToAssess

LEMMA ReadsNext == AudienceIInv /\ AudienceReads /\ [AudienceNext]_audienceVars => AudienceReads'
BY ReadsStep

\* Every assessment a round posts the gate accepts, and nothing takes the acceptance back,
\* but for one thing in either case: an annulled run of the same inputs that the assessed
\* run does not name, published after its round had read the channel (records.py 429-443,
\* gate.py 194 and 548).  For every number of processes, rounds, versions and roles.
THEOREM TheGateAgrees == AudienceSpec => GateAgrees
<1> DEFINE Agrees ==
      \A k \in FindingPhases' :
        \/ GateAccepts(k)'
        \/ /\ k \in FindingPhases
           /\ GateAccepts(k) =>
                Twins(SourceOf(k), PublishedRecords(Len(channel))'
                                     \ PublishedRecords(Len(channel))) # {}
        \/ /\ k \notin FindingPhases
           /\ \E p \in Procs :
                /\ round[p].pc \in {"blind findings", "role findings"}
                /\ round[p].run.id = channel'[k].source
                /\ Twins(round[p].run,
                         PublishedRecords(Len(channel)) \ Known(round[p])) # {}
<1>1. ASSUME AudienceIInv, AudienceIInv', AudienceReads, [AudienceNext]_audienceVars
      PROVE  [Agrees]_channel
  <2>1. ChannelMoves
    BY <1>1, ReadsStep
  <2>2. FindingPhases = AssessmentsIn(channel) /\ FindingPhases' = AssessmentsIn(channel')
    BY DEF FindingPhases, AssessmentsIn, AssessmentKinds
  <2>3. SUFFICES ASSUME NEW k \in FindingPhases'
                 PROVE  \/ GateAccepts(k)'
                        \/ /\ k \in FindingPhases
                           /\ GateAccepts(k) => Twins(SourceOf(k), Published' \ Published) # {}
                        \/ /\ k \notin FindingPhases
                           /\ \E p \in Procs :
                                /\ round[p].pc \in {"blind findings", "role findings"}
                                /\ round[p].run.id = channel'[k].source
                                /\ Twins(round[p].run, Published \ Known(round[p])) # {}
    BY DEF Published
  <2>4. CASE k \in AssessmentsIn(channel)
    BY <1>1, <2>1, <2>2, <2>4, OldIsAccepted
  <2>5. CASE k \notin AssessmentsIn(channel)
    BY <1>1, <2>1, <2>2, <2>5, NewIsAccepted
  <2> QED BY <2>2, <2>4, <2>5
<1>2. AudienceInit => AudienceIInv /\ AudienceReads
  BY AudienceStarts, ReadsStart
<1>3. AudienceIInv /\ AudienceReads /\ [AudienceNext]_audienceVars
        => AudienceIInv' /\ AudienceReads'
  BY AudienceStep, ReadsNext
<1>4. AudienceSpec => [][Agrees]_channel
  <2> HIDE DEF Agrees
  <2> QED BY <1>1, <1>2, <1>3, PTL DEF AudienceSpec
<1> QED BY <1>4 DEF GateAgrees


\* A launch under way is the journal's last, and no other is: the lock file is its own,
\* whatever died before it and whoever removed a lock that was left behind.
OneLaunch ==
  \A p, o \in Procs :
    round[p].pc \in Launching =>
      /\ lock = p /\ round[p].run.id = journal
      /\ round[o].pc \in Launching => o = p

\* No two launches of the model are under way, and the one that is has the last number.
THEOREM LaunchesAreAlone == AudienceSpec => []OneLaunch
<1>1. ASSUME AudienceIInv PROVE OneLaunch
  <2> SUFFICES ASSUME NEW p \in Procs, NEW o \in Procs, round[p].pc \in Launching
               PROVE  /\ lock = p /\ round[p].run.id = journal
                      /\ round[o].pc \in Launching => o = p
    BY DEF OneLaunch
  <2>1. round[p].run.id = journal
    BY <1>1, RoundsAre DEF RoundFits, LaunchFits
  <2> QED BY <1>1, <2>1, RoundsAre
<1> QED BY <1>1, AudienceInvariance, PTL
=============================================================================
