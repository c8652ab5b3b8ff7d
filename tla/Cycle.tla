------------------------------- MODULE Cycle -------------------------------
(***************************************************************************)
(* What follows a convergence: the semantic map of what was built, the     *)
(* faithfulness audit of development's summary, and the reconciliation of  *)
(* the map with the documents of the development cycle, which gets one     *)
(* attempt unless the operator asks for another (review/watcher.py,        *)
(* review/round_gate.py, review/repository.py, review/cycle.py).           *)
(*                                                                         *)
(* The channel is the only record, as in Coverage: a message's place in    *)
(* `log` is its sequence number.  The documents hang off the cycle's       *)
(* anchor in the graph, are read when the pass starts, and are held        *)
(* against its report when that is posted.  How a review converges is      *)
(* ReviewLog's and Coverage's; here it does.  The operator's ruling on a   *)
(* map is a record nothing else reads and is left out.                     *)
(***************************************************************************)
EXTENDS Naturals, Sequences, FiniteSets

CONSTANTS
  Documents,    \* nodes that may hang off the anchor
  Writings,     \* what a document may carry: [kind, affinity, subject, text]
  Absent,       \* the document is not on the anchor
  Held,         \* what the documents may carry when the review begins
  Reports,      \* the entries a comparison may return, in order
  MaxPosts,     \* bound: versions and summaries after the first
  MaxWords,     \* bound: the operator's requests
  MaxEdits,     \* bound: documents written or taken off, the anchor deleted
  MaxFaults     \* bound: state reads and passes lost, answers refused, posts in flight

VARIABLES
  log, state,   \* the channel and Review.state
  docs, anchor, \* the anchor's documents, and whether it stands
  pass,         \* the watcher's pass
  turn,         \* the watcher's loop: a turn is "due", "taken", or was "lost"
  late,         \* posts of a dead watcher that may still arrive
  posts, words, edits, faults

cycleVars == <<log, state, docs, anchor, pass, turn, late, posts, words, edits, faults>>

ASSUME CycleAssumption ==
  /\ Absent \notin Writings
  /\ Held \subseteq [Documents -> Writings \cup {Absent}]
  /\ {MaxPosts, MaxWords, MaxEdits, MaxFaults} \subseteq Nat

Idle == [kind |-> "none", about |-> 0, request |-> 0, summary |-> 0, shown |-> {}]

----------------------------------------------------------------------------
(* The cycle's documents                                                   *)

OfTheCycle == {"spec", "free_phase_transcript", "intent_pre_review"}
Kinds      == OfTheCycle \cup {"intent_post_review"}

\* _document_view, and resolve_cycle_documents' check of the review a document names: an
\* intent of a review names one of this cycle's, the others name none.
Readable(w) ==
  /\ w.kind \in Kinds /\ w.text
  /\ w.kind = "intent_pre_review" => w.subject
  /\ w.affinity = IF w.kind \in OfTheCycle THEN "none" ELSE "own"

\* resolve_cycle_documents: everything contained in the anchor, readable or not.
OnAnchor(held) == {d \in Documents : held[d] # Absent}

----------------------------------------------------------------------------
(* Reading the channel L                                                   *)

Kind(L, kind) == {k \in 1..Len(L) : L[k].kind = kind}
Newest(S)     == IF S = {} THEN 0 ELSE CHOOSE k \in S : \A j \in S : j <= k
Oldest(S)     == IF S = {} THEN 0 ELSE CHOOSE k \in S : \A j \in S : k <= j

LatestArtifact(L) == Newest(Kind(L, "version") \cup Kind(L, "summary"))

\* map_target: the pair of the newest version; a summary is no version.
MapTarget(L) == L[Newest(Kind(L, "version"))].pair

\* map_seq_for
MapSeqFor(L) == Oldest({k \in Kind(L, "map") : L[k].pair = MapTarget(L)})

FindingsOver(L, s) == {k \in Kind(L, "findings") : L[k].for = s}

\* Mutant: some summary was once found faithful.
AuditOnceClean(L) == \E k \in Kind(L, "findings") : L[k].empty

\* intent_audit_clean: the last pass over the newest summary speaks for it.
IntentAuditClean(L) ==
  LET spoke == FindingsOver(L, Newest(Kind(L, "summary")))
  IN  spoke # {} /\ L[Newest(spoke)].empty

\* reconciliation_standing
Requests(L, m) == {k \in Kind(L, "request") : L[k].map = m}
Spent(L, m)    == {k \in Kind(L, "reconciliation") : L[k].map = m}

\* Mutant: an attempt that failed does not use its request up.
ConsumedIfProduced(L) ==
  {L[k].request : k \in {j \in Kind(L, "reconciliation") : L[j].outcome = "produced"}}

Consumed(L) == {L[k].request : k \in Kind(L, "reconciliation")}

Claimable(L, m) == IF Spent(L, m) = {} THEN 0 ELSE Oldest(Requests(L, m) \ Consumed(L))

\* reconciliation_licensed
Licensed(L, m) == Spent(L, m) = {} \/ Claimable(L, m) # 0

\* plan, once converged: the map first, then its trailer, then the audit that is due.
Plan(L) ==
  LET m == MapSeqFor(L)
  IN  IF state # "converged" THEN "wait"
      ELSE IF m = 0 THEN "map"
      ELSE IF IntentAuditClean(L) /\ Licensed(L, m) THEN "reconciliation"
      ELSE IF L[LatestArtifact(L)].kind = "summary" /\ FindingsOver(L, LatestArtifact(L)) = {}
      THEN "audit"
      ELSE "wait"

----------------------------------------------------------------------------
(* What the server takes                                                   *)

TalkBorne == {"decided_in_talk_only", "dropped_in_talk"}
Cost(c)   == CASE c = "never" -> 0 [] c = "next_review" -> 1 [] c = "self_announcing" -> 2

\* _validate_reconciliation_payload: an entry cites documents unless nothing speaks of it,
\* says what settled a talk, and the list runs from the costliest to miss.
ShapeHolds(p) ==
  p.outcome = "produced" =>
    /\ p.inventory # {}
    /\ \A i \in DOMAIN p.entries :
         /\ p.entries[i].label # "silent" => p.entries[i].refs # {}
         /\ p.entries[i].label \in TalkBorne => p.entries[i].settled
    /\ \A i, j \in DOMAIN p.entries : i < j => Cost(p.entries[i].cost) <= Cost(p.entries[j].cost)

\* Mutant: once an attempt is spent no request helps.
SpentFirst(L, p) == Spent(L, p.map) = {} /\ p.request = 0

\* _validate_map_references, for a reconciliation.
ReferencesHold(L, p) ==
  IF p.request # 0 THEN p.request \in Requests(L, p.map) \ Consumed(L)
  ELSE Spent(L, p.map) = {}

\* _validate_reconciliation_against_cycle: citations and inventory are held against the
\* anchor's documents as they are now, and a broken promise needs more than the talk.
MatchesCycle(p, held) ==
  p.outcome = "produced" =>
    /\ anchor
    /\ p.inventory = OnAnchor(held)
    /\ \A i \in DOMAIN p.entries :
         /\ p.entries[i].refs \subseteq OnAnchor(held)
         /\ p.entries[i].label \in {"contradicted", "promised_absent"} =>
              \E d \in p.entries[i].refs : held[d].kind # "free_phase_transcript"

Taken(p) == ShapeHolds(p) /\ ReferencesHold(log, p) /\ MatchesCycle(p, docs)

----------------------------------------------------------------------------
CycleInit ==
  /\ log = <<>> /\ state = "open"
  /\ docs \in Held /\ anchor = TRUE
  /\ pass = Idle /\ turn = "due" /\ late = {}
  /\ posts = 0 /\ words = 0 /\ edits = 0 /\ faults = 0

\* poll_until_message: the watcher plans when a message has come that it has not planned
\* on, or when it starts.
Post(m)  == log' = Append(log, m) /\ turn' = "due"
Spend    == posts < MaxPosts /\ posts' = posts + 1
Fault(n) == faults + n <= MaxFaults /\ faults' = faults + n

\* A pair of base and commit is named by when it first came.
PairsSoFar == {log[k].pair : k \in Kind(log, "version")}

\* Development posts a version, of a new pair or an old one: a converged review opens again.
PostVersion(p) ==
  /\ IF log = <<>> THEN UNCHANGED posts ELSE Spend
  /\ state = "converged" \/ log = <<>>
  /\ Post([kind |-> "version", pair |-> p])
  /\ state' = "open"
  /\ UNCHANGED <<docs, anchor, pass, late, words, edits, faults>>

\* The review of the version ends; the watcher that reviews runs nothing else meanwhile.
Converge ==
  /\ state = "open" /\ log # <<>> /\ pass = Idle
  /\ state' = "converged" /\ turn' = "due"
  /\ UNCHANGED <<log, docs, anchor, pass, late, posts, words, edits, faults>>

\* Development's account of the newest version, posted anew until it is found faithful.
PostSummary ==
  /\ state = "converged"
  /\ IF Kind(log, "summary") = {} THEN UNCHANGED posts ELSE Spend
  /\ Post([kind |-> "summary", of |-> Newest(Kind(log, "version"))])
  /\ UNCHANGED <<state, docs, anchor, pass, late, words, edits, faults>>

\* The operator's own words, relayed: one more attempt over a map that had one.
PostRequest(m) ==
  /\ words < MaxWords /\ words' = words + 1
  /\ Spent(log, m) # {}
  /\ Post([kind |-> "request", map |-> m])
  /\ UNCHANGED <<state, docs, anchor, pass, late, posts, edits, faults>>

\* A document is written to the anchor, rewritten, or taken off.
WriteDocument(d, w) ==
  /\ anchor /\ docs[d] # w
  /\ edits < MaxEdits /\ edits' = edits + 1
  /\ docs' = [docs EXCEPT ![d] = w]
  /\ UNCHANGED <<log, state, anchor, pass, turn, late, posts, words, faults>>

DeleteAnchor ==
  /\ anchor /\ anchor' = FALSE
  /\ edits < MaxEdits /\ edits' = edits + 1
  /\ UNCHANGED <<log, state, docs, pass, turn, late, posts, words, faults>>

----------------------------------------------------------------------------
(* The watcher                                                             *)

\* A turn of watch's loop finds nothing to do.
Rest ==
  /\ Plan(log) = "wait"
  /\ turn' = "taken"
  /\ UNCHANGED <<log, state, docs, anchor, pass, late, posts, words, edits, faults>>

\* An anchor that is gone is a fault of the environment: nothing starts, nothing is spent.
\* The retries that are put on the channel find the same; then the loop is quiet.
MissAnchor ==
  /\ Plan(log) = "reconciliation" /\ ~anchor
  /\ turn' = "lost"
  /\ UNCHANGED <<log, state, docs, anchor, pass, late, posts, words, edits, faults>>

\* The pass starts over what the channel says now; the documents are fetched fresh.
StartPass(kind) ==
  /\ kind # "wait"
  /\ kind = "reconciliation" => anchor
  /\ turn' = "taken"
  /\ pass' = [kind    |-> kind,
              about   |-> CASE kind = "map" -> MapTarget(log)
                            [] kind = "audit" -> LatestArtifact(log)
                            [] kind = "reconciliation" -> MapSeqFor(log),
              request |-> IF kind = "reconciliation" THEN Claimable(log, MapSeqFor(log)) ELSE 0,
              summary |-> Newest(Kind(log, "summary")),
              shown   |-> OnAnchor(docs)]
  /\ UNCHANGED <<log, state, docs, anchor, late, posts, words, edits, faults>>

\* A turn: the channel first, then Review.state.
Turn ==
  /\ turn = "due" /\ pass = Idle
  /\ Rest \/ MissAnchor \/ StartPass(Plan(log))

\* fetch_review_state fails: the plan says wait, and only another message is a turn.
StateUnread ==
  /\ turn = "due" /\ pass = Idle /\ Fault(1)
  /\ turn' = "lost"
  /\ UNCHANGED <<log, state, docs, anchor, pass, late, posts, words, edits>>

\* run_map_pass
FinishMap ==
  /\ pass.kind = "map"
  /\ Post([kind |-> "map", pair |-> pass.about])
  /\ pass' = Idle
  /\ UNCHANGED <<state, docs, anchor, late, posts, words, edits, faults>>

\* The audit posts its findings over the summary it was given.
FinishAudit(empty) ==
  /\ pass.kind = "audit"
  /\ Post([kind |-> "findings", for |-> pass.about, empty |-> empty])
  /\ pass' = Idle
  /\ UNCHANGED <<state, docs, anchor, late, posts, words, edits, faults>>

\* run_reconciliation_pass: what the model returns becomes a record of the documents it
\* was shown; whatever cannot be used becomes a failure with its reason.  Both name the
\* map and the request the plan claimed.
Payload(outcome, entries, inventory) ==
  [kind |-> "reconciliation", map |-> pass.about, request |-> pass.request,
   outcome |-> outcome, entries |-> entries, inventory |-> inventory]

Payloads ==
  IF pass.kind # "reconciliation" THEN {} ELSE
  {Payload("failed", <<>>, {})} \cup
  {Payload("produced", entries, pass.shown) : entries \in Reports}

\* The record is posted at the end.  A post that is refused leaves the pass due: by what
\* it says, or because a record of a dead watcher came first.  The refusal is noticed.
FinishReconciliation(p) ==
  /\ log' = IF Taken(p) THEN Append(log, p) ELSE log
  /\ turn' = "due"
  /\ Fault(IF ReferencesHold(log, p) /\ ~Taken(p) THEN 1 ELSE 0)
  /\ pass' = Idle
  /\ UNCHANGED <<state, docs, anchor, late, posts, words, edits>>

\* The watcher dies and starts again, or the environment fails the pass; nothing is
\* recorded.  contain_environmental_fault notices the first failures of a stretch, which
\* is a message for the loop to turn on, and then falls silent.
LosePass ==
  /\ pass # Idle /\ Fault(1)
  /\ turn' \in {"due", IF turn = "due" THEN "due" ELSE "lost"}
  /\ pass' = Idle
  /\ UNCHANGED <<log, state, docs, anchor, late, posts, words, edits>>

\* The watcher dies with its record on the way, and starts again.
LeaveInFlight(p) ==
  /\ Fault(1) /\ turn' = "due"
  /\ late' = late \cup {p}
  /\ pass' = Idle
  /\ UNCHANGED <<log, state, docs, anchor, posts, words, edits>>

Arrive(p) ==
  /\ IF Taken(p) THEN Post(p) ELSE UNCHANGED <<log, turn>>
  /\ late' = late \ {p}
  /\ UNCHANGED <<state, docs, anchor, pass, posts, words, edits, faults>>

----------------------------------------------------------------------------
Step ==
  \/ Turn
  \/ FinishMap
  \/ \E empty \in BOOLEAN : FinishAudit(empty)
  \/ \E p \in Payloads : FinishReconciliation(p)

CycleNext ==
  \/ \E p \in 1..Cardinality(PairsSoFar) + 1 : PostVersion(p)
  \/ Converge
  \/ PostSummary
  \/ \E m \in Kind(log, "map") : PostRequest(m)
  \/ \E d \in Documents, w \in Writings \cup {Absent} : WriteDocument(d, w)
  \/ DeleteAnchor
  \/ Step
  \/ StateUnread
  \/ LosePass
  \/ \E p \in Payloads : LeaveInFlight(p)
  \/ \E p \in late : Arrive(p)

CycleSpec == CycleInit /\ [][CycleNext]_cycleVars /\ WF_cycleVars(Step)

----------------------------------------------------------------------------
\* "Attempts: let there be one": over each map, every attempt after the first names a
\* request of the operator's that came after an attempt, and no two name the same, with
\* a record of a dead watcher arriving among those of the next one
\* (_validate_map_references and _post_convergence_plan over reconciliation_standing).
OneAttempt ==
  \A m \in Kind(log, "map") : \A k \in Spent(log, m) :
    IF k = Oldest(Spent(log, m)) THEN TRUE
    ELSE LET q == log[k].request
         IN  /\ q \in Requests(log, m) /\ Oldest(Spent(log, m)) < q /\ q < k
             /\ \A j \in Spent(log, m) \ {k} : log[j].request # q

\* While a reconciliation runs, the summary that stood when it was planned is one the
\* critic found faithful, whatever development has posted since: the one attempt is not
\* spent on a summary under dispute (intent_audit_clean).
ReadsAgreedSummary ==
  pass.kind = "reconciliation" =>
    LET last == Newest(Kind(log, "findings"))
    IN  /\ log[last].empty
        /\ log[last].for = pass.summary

\* The one attempt over a map waits for the summary of what was built to be found
\* faithful: it is the version the map was written for that the summary describes.
\* Refuted, see the README.
AttemptReadsItsSummary ==
  pass.kind = "reconciliation" =>
    log[log[pass.summary].of].pair = log[pass.about].pair

\* What is due is done: again and again nothing waits for the watcher, unless the last
\* turn of its loop was lost: to a failed read of the state, to a pass that failed without
\* a word on the channel, to an anchor that is gone.  The plan and the server must agree
\* on what is due, or the same attempt is made and refused for ever, and every end of a
\* pass must leave a message to turn on (watch, poll_until_message, plan,
\* reconciliation_standing).
WorkIsDone == []<>(Plan(log) = "wait" \/ turn = "lost")

\* "A read failure returns None, which reads as 'not converged': the map is DUE, not lost,
\* and the next cycle asks again" (fetch_review_state).  Refuted, see the README.
NextCycleAsksAgain == []<>(Plan(log) = "wait" \/ ~anchor)
=============================================================================
