------------------------------ MODULE ReviewLog ------------------------------
(***************************************************************************)
(* One review on the server: the message log, the lifecycle state, the     *)
(* parking flag and the facts convergence is decided from                  *)
(* (review/repository.py: append_message, advance_state).                  *)
(*                                                                         *)
(* Every message is appended under the review's row lock, so an append is  *)
(* one action: the round gate's step (module RoundGate) together with what *)
(* the server does to the review record afterwards, in the code's order.   *)
(* Closing a review revokes its tokens; a request whose token was checked  *)
(* just before that is left out (the check is not under the row lock).     *)
(*                                                                         *)
(* The log itself is kept as the facts later reads compute from it: which  *)
(* version was reviewed, whether a clean pass and a declaration stand for  *)
(* the newest one, what of the ledger is still owed.                       *)
(***************************************************************************)
EXTENDS Naturals, FiniteSets

CONSTANTS Findings, Others, MaxVersion, Modes, Classes, Proposals, Directives,
          Defect  \* the key of the one external defect this instance raises

ASSUME DefectAssumption == Defect \in Others

VARIABLES
    \* the round gate and the pass in flight
    mode, gate, roundState, members, entry, latest, summaries, raised, audit,
    items, keyless, outcome, passPhase, passVersion, sanction,
    \* the review record
    state,      \* Review.state
    parked,     \* Review.parked
    \* facts of the log
    clean,      \* a clean pass stands for the newest version
    declared,   \* so does the critic's declaration of convergence
    found,      \* the newest version any pass posted findings for
    reviewed,   \* last_reviewed_seq: the newest one a conclusive status followed
    graft,      \* the external defect's graph record: none, owed or posted
    obs,        \* development's observation: none, open or answered
    blockedObs, \* the newest blocked declaration, for this version, names it
    frame,      \* the threat context since the last pass end
    \* the pass in flight
    owesStatus, \* the version its findings are for while its status is owed
    fresh,      \* it judges under the newest threat context
    saw,        \* its projection holds the observation
    sentBack    \* history: the newest version was returned after its clean pass

G == INSTANCE RoundGate

gateVars == <<mode, gate, roundState, members, entry, latest, summaries, raised, audit,
              items, keyless, outcome, passPhase, passVersion, sanction>>
factVars == <<clean, declared, found, reviewed, graft, obs, blockedObs, frame>>
passVars == <<owesStatus, fresh, saw>>
logVars == <<factVars, passVars, sentBack>>
vars == <<gateVars, state, parked, logVars>>

States == {"created", "artifact_ready", "critic_reviewing", "dev_disposing", "converged",
           "operator_gate", "returned", "operator_finalized", "operator_finalizing",
           "frozen", "finalized", "abandoned"}

\* _LIFECYCLE_TRANSITIONS
Lifecycle(s) ==
    CASE s = "artifact_ready"     -> {"critic_reviewing", "abandoned"}
      [] s = "converged"          -> {"operator_gate", "abandoned"}
      [] s = "operator_gate"      -> {"finalized", "returned", "abandoned"}
      [] s = "returned"           -> {"artifact_ready", "abandoned"}
      [] s = "operator_finalized" -> {"operator_gate", "abandoned"}
      [] s \in {"finalized", "abandoned"} -> {}
      [] OTHER                    -> {"abandoned"}

Closed == state \in {"finalized", "abandoned"}

\* Closing revokes the tokens: nothing more is posted.
Posted == ~Closed

------------------------------------------------------------------------------
(* What is decided from the log after a message is on it. *)

Undisposed == {f \in raised \cup audit : outcome[f] = "none"}
OpenItems == items # {} \/ keyless

\* _convergence_state, without its clean pass and declaration.
LedgerSettled == Undisposed = {} /\ ~OpenItems /\ graft # "owed" /\ obs # "open"

\* Mutant: the flag follows the gate and forgets the operator items.
ParkedByGate == gate = "parked"

\* The flag a gated append leaves: an open gate or an open item.
ParkedNow == gate = "parked" \/ OpenItems

\* Mutant: a clean pass alone completes convergence.
SelfCompleteUndeclared(st, p) ==
    LET done == st \in {"critic_reviewing", "dev_disposing"} /\ clean' /\ LedgerSettled'
    IN /\ state' = IF done THEN "converged" ELSE st
       /\ parked' = (p /\ ~done)

\* Mutant: completion is looked for only while the critic has the review.
SelfCompleteReviewing(st, p) ==
    LET done == st = "critic_reviewing" /\ clean' /\ declared' /\ LedgerSettled'
    IN /\ state' = IF done THEN "converged" ELSE st
       /\ parked' = (p /\ ~done)

\* Self-completion: a declaration that was blocked converges with the message
\* that settles the ledger.  st and p are what the append left before it.
SelfComplete(st, p) ==
    LET done == /\ st \in {"critic_reviewing", "dev_disposing"}
                /\ clean' /\ declared' /\ LedgerSettled'
    IN /\ state' = IF done THEN "converged" ELSE st
       /\ parked' = (p /\ ~done)

------------------------------------------------------------------------------
Init ==
    /\ G!Init
    /\ state = "created"
    /\ parked = FALSE
    /\ clean = FALSE /\ declared = FALSE
    /\ found = 0 /\ reviewed = 0
    /\ graft = "none"
    /\ obs = "none" /\ blockedObs = FALSE
    /\ frame = "none"
    /\ owesStatus = 0 /\ fresh = FALSE /\ saw = FALSE
    /\ sentBack = FALSE

\* Development posts a version or the intent summary.  It supersedes the clean
\* pass, the declaration and the blocker of the version before it.
AppendArtifact(s) ==
    /\ Posted
    /\ G!PostArtifact(s)
    /\ clean' = FALSE /\ declared' = FALSE /\ blockedObs' = FALSE
    /\ IF gate = "operator_finalizing"
         THEN state' = "operator_finalized" /\ parked' = FALSE
         ELSE /\ state' = IF \/ state \in {"created", "dev_disposing", "returned", "frozen"}
                             \/ state = "converged" /\ ~s
                          THEN "artifact_ready" ELSE state
              /\ parked' = ParkedNow'
    /\ sentBack' = FALSE
    /\ UNCHANGED <<found, reviewed, graft, obs, frame, passVars>>

\* Posts that move the gate and nothing of the record but its parking flag.
AppendGateStep(step) ==
    /\ Posted
    /\ step
    /\ parked' = ParkedNow'
    /\ UNCHANGED <<state, logVars>>

AppendDisposition(f, o) ==
    /\ Posted
    /\ G!PostDisposition(f, o)
    /\ UNCHANGED logVars
    /\ SelfComplete(state, ParkedNow')

\* The operator's final.  Until the owed version arrives the flag stays as it was.
AppendFinalize(m) ==
    /\ Posted
    /\ G!PostFinalize(m)
    /\ IF gate' = "operator_finalizing"
         THEN state' = "operator_finalizing" /\ UNCHANGED parked
         ELSE state' = "operator_finalized" /\ parked' = FALSE
    /\ UNCHANGED logVars

\* A defect outside the review: an operator item, and a graph record owed.
AppendDefect ==
    /\ Posted
    /\ graft = "none"
    /\ G!Escalate(Defect)
    /\ graft' = "owed"
    /\ parked' = ParkedNow'
    /\ UNCHANGED <<state, clean, declared, found, reviewed, obs, blockedObs, frame, passVars,
                   sentBack>>

AppendDefectResult ==
    /\ Posted
    /\ graft = "owed"
    /\ graft' = "posted"
    /\ UNCHANGED <<gateVars, clean, declared, found, reviewed, obs, blockedObs, frame,
                   passVars, sentBack>>
    /\ SelfComplete(state, ParkedNow)

\* A relayed operator decision.  A defect takes an answer only while it is open.
\* One that returns the work suppresses self-completion and hands development
\* the turn.
AppendDecision(i, returns) ==
    /\ Posted
    /\ i = Defect => Defect \in items
    /\ G!Answer(i)
    /\ sentBack' = (sentBack \/ (returns /\ clean))
    /\ UNCHANGED <<factVars, passVars>>
    /\ IF returns
         THEN /\ state' = IF state = "critic_reviewing" THEN "dev_disposing" ELSE state
              /\ parked' = OpenItems'
         ELSE SelfComplete(state, OpenItems')

\* The answer that freezes the review until the base is repaired.
AppendFreeze ==
    /\ Posted
    /\ Defect \in items
    /\ G!Answer(Defect)
    /\ state' = "frozen"
    /\ parked' = OpenItems'
    /\ UNCHANGED logVars

\* The operator's threat context restated: no pass, clean pass or declaration
\* made under the old one counts any more.
AppendContext ==
    /\ Posted
    /\ state \notin {"converged", "operator_gate", "operator_finalized", "finalized",
                     "abandoned"}
    /\ clean' = FALSE /\ declared' = FALSE
    /\ frame' = IF frame = "none" THEN "none" ELSE "restated"
    /\ fresh' = FALSE
    /\ parked' = ParkedNow
    /\ UNCHANGED <<gateVars, state, found, reviewed, graft, obs, blockedObs,
                   owesStatus, saw, sentBack>>

AppendObservation ==
    /\ Posted
    /\ obs = "none"
    /\ obs' = "open"
    /\ parked' = ParkedNow
    /\ UNCHANGED <<gateVars, state, clean, declared, found, reviewed, graft, blockedObs,
                   frame, passVars, sentBack>>

------------------------------------------------------------------------------
(* The critic's pass. *)

\* watcher.plan: the newest version is unreviewed, or a blocked declaration
\* waits for an answer to the observation, or the frame moved since the last pass.
Due == latest > reviewed \/ (blockedObs /\ obs = "open") \/ frame = "restated"

\* The pass picks the review up where it lies ready, and runs anyway where not.
StartPass ==
    /\ ~Closed
    /\ owesStatus = 0
    /\ Due
    /\ G!PlanPass
    /\ state' = IF state = "artifact_ready" THEN "critic_reviewing" ELSE state
    /\ fresh' = TRUE
    /\ saw' = (obs = "open")
    /\ UNCHANGED <<parked, factVars, owesStatus, sentBack>>

RecheckPass ==
    /\ IF fresh THEN G!RecheckChannel ELSE passPhase = "reading" /\ G!EndPass
    /\ UNCHANGED <<state, parked, logVars>>

AppendFindings(S, cs, reopened) ==
    /\ Posted
    /\ fresh
    /\ G!PostFindings(S, cs, reopened)
    /\ owesStatus' = passVersion
    /\ found' = IF passVersion > found THEN passVersion ELSE found
    /\ clean' = IF passVersion = latest THEN S = {} ELSE clean
    /\ declared' = (declared /\ (passVersion = latest => S = {}))
    /\ sentBack' = (sentBack /\ passVersion # latest)
    /\ parked' = ParkedNow'
    /\ UNCHANGED <<state, reviewed, graft, obs, blockedObs, frame, fresh, saw>>

\* Mutant: whatever is newest when the status lands counts as reviewed.
NowReviewedNewest(conclusive) == IF conclusive THEN latest ELSE reviewed

\* last_reviewed_seq: findings count once a conclusive status follows them.
NowReviewed(conclusive) == IF conclusive /\ found > reviewed THEN found ELSE reviewed

\* What every status that ends a pass does to the log's facts.
PassEnds(answers, conclusive) ==
    /\ Posted
    /\ owesStatus # 0 /\ owesStatus' = 0
    /\ fresh
    /\ answers => obs = "open"
    /\ saw /\ obs = "open" /\ owesStatus \notin summaries => answers
    /\ obs' = IF answers THEN "answered" ELSE obs
    /\ reviewed' = NowReviewed(conclusive)
    /\ frame' = "current"
    /\ UNCHANGED <<found, graft, fresh, saw, sentBack>>

StatusIteration(answers) ==
    /\ UNCHANGED gateVars
    /\ PassEnds(answers, TRUE)
    /\ UNCHANGED <<clean, declared, blockedObs>>
    /\ SelfComplete(IF state = "critic_reviewing" THEN "dev_disposing" ELSE state, ParkedNow)

StatusHuman(answers) ==
    /\ PassEnds(answers, FALSE)
    /\ G!AskHuman
    /\ parked' = TRUE
    /\ UNCHANGED <<state, clean, declared, blockedObs>>

\* The declaration.  Malformed -- from the wrong state, over an old version or
\* without a clean pass -- it is refused; over an open ledger it is recorded
\* and the review routed to whoever owes the rest.
StatusConverged(answers) ==
    /\ state = "critic_reviewing" /\ owesStatus = latest /\ clean
    /\ UNCHANGED <<gateVars, clean>>
    /\ PassEnds(answers, TRUE)
    /\ declared' = TRUE
    /\ state' = CASE LedgerSettled'                                       -> "converged"
                  [] ~LedgerSettled' /\ (Undisposed # {} \/ graft = "owed")    -> "dev_disposing"
                  [] OTHER                                                -> state
    /\ blockedObs' = IF LedgerSettled' THEN blockedObs ELSE obs' = "open"
    /\ parked' = ParkedNow

\* The watcher dies, or its next post is refused for good.
LosePass ==
    \/ /\ G!EndPass
       /\ UNCHANGED <<state, parked, logVars>>
    \/ /\ owesStatus # 0 /\ owesStatus' = 0
       /\ UNCHANGED <<gateVars, state, parked, factVars, fresh, saw, sentBack>>

------------------------------------------------------------------------------
\* The operator or the critic moves the review along its lifecycle.
AdvanceState(t) ==
    /\ t \in Lifecycle(state)
    /\ state' = t
    /\ sentBack' = (sentBack \/ (t = "returned" /\ clean))
    /\ UNCHANGED <<gateVars, parked, factVars, passVars>>

Next ==
    \/ \E s \in BOOLEAN : AppendArtifact(s)
    \/ \E ps \in [Findings -> Proposals] : AppendGateStep(G!PostProposals(ps))
    \/ \E f \in Findings, d \in Directives : AppendGateStep(G!PostDirective(f, d))
    \/ \E f \in Findings : AppendGateStep(G!PostReport(f))
    \/ \E i \in G!Items \ {Defect} : AppendGateStep(G!Escalate(i))
    \/ AppendGateStep(G!AskHuman)
    \/ \E f \in Findings, o \in {"fixed", "waived"} : AppendDisposition(f, o)
    \/ \E m \in {"now", "after_fixes"} : AppendFinalize(m)
    \/ AppendDefect
    \/ AppendDefectResult
    \/ \E i \in G!Items, returns \in BOOLEAN : AppendDecision(i, returns)
    \/ AppendFreeze
    \/ AppendContext
    \/ AppendObservation
    \/ StartPass
    \/ RecheckPass
    \/ \E S, R \in SUBSET Findings, cs \in [Findings -> Classes] : AppendFindings(S, cs, R)
    \/ \E answers \in BOOLEAN :
          StatusIteration(answers) \/ StatusHuman(answers) \/ StatusConverged(answers)
    \/ LosePass
    \/ \E t \in States : AdvanceState(t)

Spec == Init /\ [][Next]_vars

------------------------------------------------------------------------------
TypeOK ==
    /\ G!TypeOK
    /\ state \in States
    /\ {parked, clean, declared, blockedObs, fresh, saw, sentBack} \subseteq BOOLEAN
    /\ graft \in {"none", "owed", "posted"}
    /\ found \in 0 .. latest /\ reviewed \in 0 .. found /\ owesStatus \in 0 .. latest
    /\ obs \in {"none", "open", "answered"}
    /\ frame \in {"none", "current", "restated"}

\* A converged review holds no round and no open finding of an ordinary
\* version, and a pass under the newest threat context was clean over it: by
\* whichever of the two ways it got there, the declaration or the server's own
\* completion, and whatever is posted while it stays (_convergence_state).
ConvergedStands ==
    state = "converged" =>
        /\ roundState = "none"
        /\ \A f \in raised : outcome[f] # "none"
        /\ latest \notin summaries => clean /\ declared

\* Nobody waits on the operator in silence: whatever message comes last, and
\* through every route it sets the flag by, a review with an unanswered
\* escalation or question shows as parked (append_message's parked assignments
\* against open_operator_items, its two folds of the same log).
OpenItemsPark == OpenItems /\ gate # "terminal" => parked

\* The server completes a blocked convergence when its blockers clear, with no
\* version posted again: the message that settles the last one converges the
\* review, unless an answer sent the version back.
NoMissedCompletion ==
    /\ state \in {"critic_reviewing", "dev_disposing"}
    /\ declared /\ clean /\ LedgerSettled
    => sentBack

\* _signals_return: an answer that returns the version makes its clean pass
\* stale, and the server must not complete convergence over it.
\* Refuted, see the README.
SentBackNeedsVersion == [][state # "converged" /\ state' = "converged" => ~sentBack]_vars

OrdinaryLegal == "artifact" \in G!LegalKinds(G!GateNow) /\ gate # "terminal"

\* The lifecycle table's "returned change re-enters the loop": once no pass is
\* in flight, a returned review takes the changed version.
\* Refuted, see the README.
ReturnedCanChange == state = "returned" /\ gate # "pass_running" => OrdinaryLegal

NoPassInFlight == passPhase = "none" /\ owesStatus = 0

\* A gate that waits for the critic gets its pass: with nothing in flight and
\* nobody else to wait for, one is due over the version it waits for.
GateTurnIsDue ==
    /\ gate = "pass_running" /\ ~OpenItems /\ ~Closed /\ NoPassInFlight
    /\ latest \notin summaries
    => Due

\* "The watcher schedules a same-version answering pass": a convergence held up
\* by an unanswered observation alone has that pass due.
\* Refuted, see the README.
ObservationIsScheduled ==
    /\ state \in {"critic_reviewing", "dev_disposing"}
    /\ declared /\ clean /\ ~sentBack /\ NoPassInFlight
    /\ Undisposed = {} /\ ~OpenItems /\ graft # "owed" /\ obs = "open"
    => Due
=============================================================================
