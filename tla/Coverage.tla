------------------------------ MODULE Coverage ------------------------------
(***************************************************************************)
(* The coverage ledger of one review: the table of questions development   *)
(* posts for a version, the verdicts the critic's passes return on its     *)
(* rows, the rows given to the operator, and the convergence they hold up  *)
(* (review/repository.py), with the watcher that plans the passes from the *)
(* same log and checks their evidence (review/watcher.py).                 *)
(*                                                                         *)
(* The log is kept: every rule here is a reading of it.  A message's       *)
(* sequence number is its place, and names the version, pass or item it    *)
(* begins.  Two denominators exist: the questions of a code review, whose  *)
(* verdicts accumulate within a version, and the places of a spec review   *)
(* or of an older code one, where the last report counts.                  *)
(*                                                                         *)
(* What a table holds is module Manifest's.  The round gate appears as the *)
(* turn it takes (GateWaits); the critic's own escalations, observations,  *)
(* threat contexts and external defects are left to ReviewLog.             *)
(***************************************************************************)
EXTENDS Naturals, Sequences, FiniteSets

CONSTANTS
  Tables,       \* coverage tables development may post
  RowsOf,       \* table -> its rows
  Stakes,       \* the high-stakes rows
  Outside,      \* the rows marked outside the declared scope
  NoTable,
  Denominators, \* which kinds of review are examined: "questions", "places"
  InPlay,       \* what its configuration says of coverage: "yes", "no", "silent"
  Reports,      \* denominator -> the reports a pass may return: row -> answer
  Decisions,    \* what is said of an item: who, the word, whether it returns the version
  MaxPasses,    \* bound: passes started, by denominator
  MaxNotices,   \* bound: decisions, scope exemptions and allowances posted
  MaxFaults     \* bound: later versions, replaced tables, passes lost or without a verdict

Rows == UNION {RowsOf[t] : t \in Tables}

ASSUME CoverageAssumption ==
  /\ NoTable \notin Tables
  /\ DOMAIN RowsOf = Tables /\ \A t \in Tables : IsFiniteSet(RowsOf[t])
  /\ Stakes \subseteq Rows /\ Outside \subseteq Rows
  /\ Denominators \subseteq {"questions", "places"}
  /\ InPlay \subseteq {"yes", "no", "silent"}
  /\ MaxPasses \in [Denominators -> Nat]
  /\ {MaxNotices, MaxFaults} \subseteq Nat

VARIABLES
  log,          \* the review's messages
  state,        \* Review.state
  denominator,  \* what the review's tables ask
  inPlay,       \* the frozen coverage declaration
  pass,         \* the watcher's pass: what it reviews and how far it is
  started,      \* passes started
  faults

vars == <<log, state, denominator, inPlay, pass, started, faults>>

Questions == denominator = "questions"

NoPass == [stage |-> "none", for |-> 0, table |-> NoTable]

----------------------------------------------------------------------------
(* Reading a log L                                                         *)

Kind(L, kind) == {k \in 1..Len(L) : L[k].kind = kind}
Newest(S)     == IF S = {} THEN 0 ELSE CHOOSE k \in S : \A j \in S : j <= k
Oldest(S)     == CHOOSE k \in S : \A j \in S : k <= j

\* _latest_artifact_seq
Latest(L) == Newest(Kind(L, "version"))

TablesFor(L, v) == {k \in Kind(L, "table") : L[k].for = v}

\* _manifest_for_artifact: the newest one posted for the version is in force.
TableInForce(L, v) ==
  IF TablesFor(L, v) = {} THEN NoTable ELSE L[Newest(TablesFor(L, v))].table

\* coverage_in_play, _manifest_owed, _missing_manifest
TableOwed(L) ==
  /\ Latest(L) # 0
  /\ inPlay = "yes" \/ (inPlay = "silent" /\ Kind(L, "table") # {})
  /\ TableInForce(L, Latest(L)) = NoTable

FindingsFor(L, v) == {k \in Kind(L, "findings") : L[k].for = v}
Nonempty(L, S)    == {k \in S : ~L[k].empty}

\* has_clean_pass
CleanPass(L) ==
  LET all == FindingsFor(L, Latest(L))
  IN  Latest(L) # 0 /\ \E k \in all : L[k].empty /\ k > Newest(Nonempty(L, all))

Undisposed(L) ==
  Newest(Nonempty(L, Kind(L, "findings"))) > Newest(Kind(L, "disposed"))

Statuses(L) == {k \in Kind(L, "status") : L[k].who = "critic"}

\* has_converged_declaration
Declared(L) ==
  \E k \in Kind(L, "status") :
     /\ L[k].value = "converged" /\ L[k].for = Latest(L)
     /\ k > Newest(Nonempty(L, FindingsFor(L, Latest(L))))

----------------------------------------------------------------------------
(* Rows given to the operator                                              *)

\* The key of an item about one row, about a group of them, and no key at all.
RowKey(r)   == [row |-> r, seq |-> 0]
GroupKey(k) == [row |-> "group", seq |-> k]
NoKey       == [seq |-> 0]

ForksOf(L, key) == {k \in Kind(L, "fork") : L[k].key = key}

\* open_operator_item_keys: an answer settles its key, and every wait without one.
OpenKeys(L) ==
  {key \in {L[k].key : k \in Kind(L, "fork")} :
     Newest(ForksOf(L, key)) > Newest({j \in Kind(L, "answer") : L[j].key = key})}

AsksHuman(L) == {k \in Statuses(L) : L[k].value = "needs_human"}

OpenItems(L) ==
  OpenKeys(L) # {} \/ Newest(AsksHuman(L)) > Newest(Kind(L, "answer"))

\* _coverage_row_messages: the rows an item or an answer is about.
RowsNamed(L, k) ==
  IF L[k].kind = "fork" THEN L[k].rows
  ELSE IF L[k].key = NoKey THEN {}
  ELSE L[Newest({j \in ForksOf(L, L[k].key) : j < k})].rows

Naming(L, kind, r) == {k \in Kind(L, kind) : r \in RowsNamed(L, k)}

\* An answer that gives nothing up: development's, one that returns the version, or
\* the operator's word to keep the rows.
Lapses(m) == m.who # "operator" \/ m.returns \/ m.word = "keep_gating"

\* Mutant: what was once given up stays given up.
EscalatedForGood(L) == {r \in Rows : Naming(L, "fork", r) # {}}

\* _escalated_coverage_rows
EscalatedRows(L) ==
  {r \in Rows :
     /\ Naming(L, "fork", r) # {}
     /\ \A j \in Naming(L, "answer", r) : Lapses(L[j]) => j < Newest(Naming(L, "fork", r))}

\* _coverage_gating_resets
ResetAt(L, r) ==
  Newest({j \in Naming(L, "answer", r) : L[j].who = "operator" /\ L[j].word = "keep_gating"})

\* _scope_exempt_rows: the place tables mark rows, under one declared scope.
ScopeExempt(L, t) ==
  IF Kind(L, "exempted") = {} \/ Questions \/ t = NoTable THEN {}
  ELSE (RowsOf[t] \cap Outside) \ Stakes

----------------------------------------------------------------------------
(* Passes                                                                  *)

ReportsFor(L, v, t) ==
  {k \in Kind(L, "report") : L[k].for = v /\ L[k].table = t}

\* _critic_passes over one version: what its unfinished pass has on the log.
Since(L, v) == Newest({k \in Statuses(L) : L[k].for = v})
Here(L, v)  == {k \in FindingsFor(L, v) : k > Since(L, v)}

\* reviewed, evidence_boundary and answering of _CriticPass
Answering(L, v) ==
  {k \in ReportsFor(L, v, TableInForce(L, v)) : k > Since(L, v) /\ k > Newest(Here(L, v))}

\* _critic_passes over the channel: the reports of the pass a status ended.
EndBefore(L, e)  == Newest({k \in Statuses(L) : k < e})
ReportsIn(L, e)  == {k \in Kind(L, "report") : EndBefore(L, e) < k /\ k < e}

Reached(verdict) == verdict \in {"reviewed-clean", "finding"}

\* The rows a report leaves unreached, of the table it answers.
Unreached(L, k) == {r \in RowsOf[L[k].table] : r \in DOMAIN L[k].rows => ~Reached(L[k].rows[r])}

\* Mutant: one report after the operator's word is enough to ask again.
PersistentSinceLast(L) ==
  LET ended == Statuses(L)
      last  == Newest(ended)
      prior == EndBefore(L, last)
      t     == TableInForce(L, Latest(L))
      two   == {Newest(ReportsIn(L, e)) : e \in {last, prior}}
  IN  IF Cardinality(ended) < 2 \/ 0 \in two \/ t = NoTable THEN {}
      ELSE IF \E k \in two : L[k].mute THEN {}
      ELSE {r \in RowsOf[t] \ (EscalatedRows(L) \cup ScopeExempt(L, t)) :
              (\A k \in two : r \in Unreached(L, k)) /\ ResetAt(L, r) < Newest(two)}

\* _persistently_unreached: by the last report of each of the last two passes, whatever
\* version they were of.
Persistent(L) ==
  LET ended == Statuses(L)
      last  == Newest(ended)
      prior == EndBefore(L, last)
      t     == TableInForce(L, Latest(L))
      two   == {Newest(ReportsIn(L, e)) : e \in {last, prior}}
  IN  IF Cardinality(ended) < 2 \/ 0 \in two \/ t = NoTable THEN {}
      ELSE IF \E k \in two : L[k].mute THEN {}
      ELSE {r \in RowsOf[t] \ (EscalatedRows(L) \cup ScopeExempt(L, t)) :
              (\A k \in two : r \in Unreached(L, k)) /\ ResetAt(L, r) < Oldest(two)}

----------------------------------------------------------------------------
(* Convergence                                                             *)

\* The verdict that counts for a row: the last one given, or what the last report says.
Verdict(L, r) ==
  LET v       == Latest(L)
      reports == ReportsFor(L, v, TableInForce(L, v))
      naming  == {k \in reports : r \in DOMAIN L[k].rows}
      k       == Newest(IF Questions THEN naming ELSE reports)
  IN  IF k \in naming THEN L[k].rows[r] ELSE "none"

\* _coverage_blockers
Blockers(L) ==
  LET t == TableInForce(L, Latest(L))
  IN  IF t = NoTable THEN {}
      ELSE {r \in RowsOf[t] \ (EscalatedRows(L) \cup ScopeExempt(L, t)) :
              ~Reached(Verdict(L, r))}

\* _unreached_allowance, and its retirement by a table of questions: only the operator
\* raises it.
Allowance(L) ==
  LET upTo[k \in 0..Len(L)] ==
        IF k = 0 THEN 0
        ELSE IF L[k].kind = "allowance" /\ (L[k].n <= upTo[k - 1] \/ L[k].who = "operator")
        THEN L[k].n ELSE upTo[k - 1]
  IN  IF Questions /\ TableInForce(L, Latest(L)) # NoTable THEN 0 ELSE upTo[Len(L)]

CoverageBlocked(L) == Cardinality(Blockers(L)) > Allowance(L)

\* convergeable
Convergeable(L) ==
  /\ CleanPass(L) /\ ~Undisposed(L) /\ ~OpenItems(L)
  /\ ~CoverageBlocked(L) /\ ~TableOwed(L)

\* append_message's self-completion, after the message that may have settled the ledger.
SelfComplete(L, st) ==
  IF st \in {"critic_reviewing", "dev_disposing"} /\ Convergeable(L) /\ Declared(L)
  THEN /\ state' = "converged"
       /\ log' = Append(L, [kind |-> "status", who |-> "system", for |-> Latest(L),
                            value |-> "converged"])
  ELSE state' = st /\ log' = L

\* append_message at the end of a pass: a typed failure goes to the operator at once,
\* a row of a place table once it blocks and two passes missed it.  One item per group.
Fork(L, rows) ==
  IF rows = {} THEN L
  ELSE Append(L, [kind |-> "fork", rows |-> rows,
                  key |-> IF Cardinality(rows) = 1 THEN RowKey(CHOOSE r \in rows : TRUE)
                                                   ELSE GroupKey(Len(L) + 1)])

Failing(L, verdict) ==
  LET t == TableInForce(L, Latest(L))
  IN  {r \in Rows \ (EscalatedRows(L) \cup ScopeExempt(L, t)) : Verdict(L, r) = verdict}

Escalate(L) ==
  IF Questions /\ TableInForce(L, Latest(L)) # NoTable
  THEN LET cannot == Failing(L, "cannot_reach")
           failed == Failing(L, "instrument_failure")
       IN  Fork(Fork(L, cannot), failed)
  ELSE Fork(L, IF CoverageBlocked(L) THEN Persistent(L) ELSE {})

----------------------------------------------------------------------------
(* The watcher's plan                                                      *)

\* last_reviewed_seq
LastReviewed(L) ==
  Newest({L[k].for : k \in {f \in Kind(L, "findings") :
            \E e \in Statuses(L) : e > f /\ L[e].value # "needs_human"}})

\* Mutant: a report counts before its pass has ended.
AnsweredAtOnce(L, v, reports) == Newest(reports)

\* answered_at: a report counts once the pass that posted it ended.
AnsweredAt(L, v, reports) == Newest({k \in reports : \E e \in Statuses(L) : e > k})

\* coverage_repass_due: the newest blocker that names rows waits for a report.
RepassDue(L) ==
  LET notices == {k \in Kind(L, "blocked") : L[k].unreached # {}}
      v       == Latest(L)
  IN  /\ notices # {}
      /\ L[Newest(notices)].for = v
      /\ Newest(notices) > AnsweredAt(L, v, {k \in Kind(L, "report") : L[k].for = v})

\* unanswered_manifest
UnansweredTable(L) ==
  LET v == Latest(L)
      t == TableInForce(L, v)
  IN  v # 0 /\ t # NoTable /\ AnsweredAt(L, v, ReportsFor(L, v, t)) = 0

\* The round gate has the turn while the version's findings are being settled.
GateWaits(L) == Undisposed(L)

\* plan
PassDue(L) ==
  /\ Latest(L) # 0
  /\ ~GateWaits(L)
  /\ Latest(L) > LastReviewed(L) \/ RepassDue(L) \/ UnansweredTable(L)
  /\ ~OpenItems(L)
  /\ ~TableOwed(L)

----------------------------------------------------------------------------
Init ==
  /\ log = <<>> /\ state = "created"
  /\ denominator \in Denominators /\ inPlay \in InPlay
  /\ pass = NoPass /\ started = 0 /\ faults = 0

Fault(yes) == faults' = faults + (IF yes THEN 1 ELSE 0) /\ faults' <= MaxFaults

PostAs(m, st) == log' = Append(log, m) /\ state' = st

\* Development posts a version: the round gate takes one when no pass is owed.
PostVersion ==
  /\ Fault(Latest(log) # 0)
  /\ pass = NoPass
  /\ Latest(log) = 0 \/ FindingsFor(log, Latest(log)) # {}
  /\ PostAs([kind |-> "version"],
            IF state \in {"created", "dev_disposing", "converged"}
            THEN "artifact_ready" ELSE state)
  /\ UNCHANGED <<denominator, inPlay, pass, started>>

\* A table for the version, at any time: one that differs from the one in force says
\* what it replaces, and why.
PostTable(t) ==
  /\ Latest(log) # 0
  /\ TableInForce(log, Latest(log)) # t
  /\ Fault(TableInForce(log, Latest(log)) # NoTable)
  /\ PostAs([kind |-> "table", for |-> Latest(log), table |-> t], state)
  /\ UNCHANGED <<denominator, inPlay, pass, started>>

\* Every open finding gets its terminal outcome.
PostDispositions ==
  /\ Undisposed(log) /\ pass = NoPass
  /\ SelfComplete(Append(log, [kind |-> "disposed"]), state)
  /\ UNCHANGED <<denominator, inPlay, pass, started, faults>>

Noticed == Cardinality(Kind(log, "answer") \cup Kind(log, "exempted") \cup Kind(log, "allowance"))

\* A decision relayed by either side, to an item that was raised and perhaps answered
\* before, or to no item in particular.
PostDecision(key, who, word, returns) ==
  /\ Noticed < MaxNotices
  /\ ForksOf(log, key) # {} \/ (key = NoKey /\ OpenItems(log))
  /\ LET L == Append(log, [kind |-> "answer", key |-> key, who |-> who, word |-> word,
                           returns |-> returns])
     IN  IF returns
         THEN /\ log' = L
              /\ state' = IF state = "critic_reviewing" THEN "dev_disposing" ELSE state
         ELSE SelfComplete(L, state)
  /\ UNCHANGED <<denominator, inPlay, pass, started, faults>>

\* The operator grants the declared scope's exemption.
PostExemption ==
  /\ Noticed < MaxNotices
  /\ Kind(log, "exempted") = {}
  /\ Kind(log, "table") # {}
  /\ SelfComplete(Append(log, [kind |-> "exempted"]), state)
  /\ UNCHANGED <<denominator, inPlay, pass, started, faults>>

\* How many places may stay unreached; one that repeats the number says nothing new.
PostAllowance(n, who) ==
  /\ Noticed < MaxNotices
  /\ ~Questions /\ n # Allowance(log)
  /\ PostAs([kind |-> "allowance", n |-> n, who |-> who], state)
  /\ UNCHANGED <<denominator, inPlay, pass, started, faults>>

----------------------------------------------------------------------------
(* The critic's pass                                                       *)

StartPass ==
  /\ pass = NoPass /\ started < MaxPasses[denominator]
  /\ PassDue(log)
  /\ started' = started + 1
  /\ pass' = [stage |-> "reading", for |-> Latest(log), table |-> TableInForce(log, Latest(log))]
  /\ state' = IF state = "artifact_ready" THEN "critic_reviewing" ELSE state
  /\ UNCHANGED <<log, denominator, inPlay, faults>>

\* result_messages, in its order: findings, then the report a table in force asks for.
PostFindings(empty) ==
  /\ pass.stage = "reading"
  /\ ~TableOwed(log)
  /\ PostAs([kind |-> "findings", for |-> pass.for, empty |-> empty], state)
  /\ pass' = [pass EXCEPT !.stage = IF pass.table = NoTable THEN "reported" ELSE "found"]
  /\ UNCHANGED <<denominator, inPlay, started, faults>>

\* What the critic says of a row: "bare" cites no evidence, "unproved" evidence that does
\* not hold up to the watcher's re-read (verify_report_evidence).
Verified(answer) ==
  IF answer = "unproved" THEN IF Questions THEN "instrument_failure" ELSE "not-reached"
  ELSE answer

\* What the server makes of it, under the words of the denominator and the evidence the
\* row owes (_validate_coverage_report_against_manifest).
Screened(L, v, r, answer) ==
  CASE answer = "proved" -> "reviewed-clean"
    [] answer = "bare"   -> IF r \in Stakes THEN "refused" ELSE "reviewed-clean"
    [] answer = "finding" -> IF Nonempty(L, Here(L, v)) # {} THEN "finding" ELSE "refused"
    [] answer = "not-reached" -> IF Questions THEN "refused" ELSE answer
    [] answer \in {"cannot_reach", "instrument_failure"} -> IF Questions THEN answer ELSE "refused"

\* A report over some rows of the table the pass was given; it is refused whole when the
\* table was replaced, when the version is not the newest, or when no row survives.
PostReport(answers) ==
  LET verdicts == [r \in DOMAIN answers |-> Screened(log, pass.for, r, Verified(answers[r]))]
      kept     == {r \in DOMAIN answers : verdicts[r] # "refused"}
  IN  /\ pass.stage = "found"
      /\ DOMAIN answers \subseteq RowsOf[pass.table]
      /\ pass.for = Latest(log) /\ pass.table = TableInForce(log, pass.for)
      /\ DOMAIN answers # {} => kept # {}
      /\ PostAs([kind |-> "report", for |-> pass.for, table |-> pass.table, mute |-> FALSE,
                 rows |-> [r \in kept |-> verdicts[r]]], state)
      /\ pass' = [pass EXCEPT !.stage = "reported"]
      /\ UNCHANGED <<denominator, inPlay, started, faults>>

\* The pass declares it could produce no verdicts.
PostUnanswerable ==
  /\ pass.stage = "found"
  /\ pass.for = Latest(log) /\ pass.table = TableInForce(log, pass.for)
  /\ PostAs([kind |-> "report", for |-> pass.for, table |-> pass.table, mute |-> TRUE,
             rows |-> [r \in {} |-> "none"]], state)
  /\ pass' = [pass EXCEPT !.stage = "reported"]
  /\ UNCHANGED <<denominator, inPlay, started, faults>>

\* A pass that reviewed ends only over a report of the table then in force.
MayEnd(L, v, value) ==
  Here(L, v) # {} =>
    IF TableInForce(L, v) = NoTable THEN ~TableOwed(L)
    ELSE /\ Answering(L, v) # {}
         /\ value = "converged" => \E k \in Answering(L, v) : ~L[k].mute

EndPass(value) ==
  LET L == Append(log, [kind |-> "status", who |-> "critic", for |-> pass.for, value |-> value])
  IN  /\ \/ pass.stage = "reported"
         \/ pass.stage = "reading" /\ value = "needs_human"
      /\ MayEnd(log, pass.for, value)
      /\ value = "converged" => /\ state = "critic_reviewing"
                                /\ pass.for = Latest(log) /\ CleanPass(log)
      /\ CASE value = "needs_iteration" ->
                SelfComplete(Escalate(L), IF state = "critic_reviewing" THEN "dev_disposing"
                                                                       ELSE state)
           [] value = "needs_human" -> log' = Escalate(L) /\ state' = state
           [] value = "converged" /\ Convergeable(log) ->
                log' = Escalate(L) /\ state' = "converged"
           [] value = "converged" /\ ~Convergeable(log) ->
                /\ log' = Escalate(Append(L,
                     [kind |-> "blocked", for |-> pass.for,
                      unreached |-> IF CoverageBlocked(log) THEN Blockers(log) ELSE {}]))
                /\ state' = IF Undisposed(log) \/ TableOwed(log) THEN "dev_disposing" ELSE state
      /\ pass' = NoPass
      /\ Fault(value = "needs_human")
      /\ UNCHANGED <<denominator, inPlay, started>>

\* The watcher dies, or a post of the pass is refused: what it posted stays.
LosePass ==
  /\ pass # NoPass
  /\ pass' = NoPass
  /\ Fault(TRUE)
  /\ UNCHANGED <<log, state, denominator, inPlay, started>>

----------------------------------------------------------------------------
Keys == {RowKey(r) : r \in Rows} \cup {GroupKey(k) : k \in 1..Len(log)} \cup {NoKey}

Next ==
  \/ PostVersion
  \/ \E t \in Tables : PostTable(t)
  \/ PostDispositions
  \/ \E key \in Keys, d \in Decisions : PostDecision(key, d.who, d.word, d.returns)
  \/ PostExemption
  \/ \E n \in {0, 1}, who \in {"operator", "development"} : PostAllowance(n, who)
  \/ StartPass
  \/ \E empty \in BOOLEAN : PostFindings(empty)
  \/ \E answers \in Reports[denominator] : PostReport(answers)
  \/ PostUnanswerable
  \/ \E value \in {"needs_iteration", "needs_human", "converged"} : EndPass(value)
  \/ LosePass

Spec == Init /\ [][Next]_vars

----------------------------------------------------------------------------
\* The last thing said of a row: the operator's acceptance of an item about it, with no
\* later item or answer that takes it back.
Released(L, r) ==
  LET said == Naming(L, "answer", r)
  IN  /\ said # {}
      /\ ~Lapses(L[Newest(said)])
      /\ Newest(said) > Newest(Naming(L, "fork", r))

\* A row is answered: the newest report that speaks of it, or the newest of all where
\* reports do not add up, reaches it.
AnsweredRow(L, r) ==
  \E k \in ReportsFor(L, Latest(L), TableInForce(L, Latest(L))) :
     /\ r \in DOMAIN L[k].rows /\ Reached(L[k].rows[r])
     /\ \A j \in ReportsFor(L, Latest(L), TableInForce(L, Latest(L))) :
           j > k => IF Questions THEN r \notin DOMAIN L[j].rows
                                 ELSE r \in DOMAIN L[j].rows /\ Reached(L[j].rows[r])

\* Whichever way a review converges, and however long after the declaration, every row
\* of the table in force is answered, released by the operator's last word, exempt by
\* the operator's grant and not high-stakes, or within the allowance; and with coverage
\* in play there is a table (_convergence_state, append_message's two ways to converge).
ConvergedIsMeasured ==
  [][state # "converged" /\ state' = "converged" =>
       LET t    == TableInForce(log', Latest(log'))
           open == {r \in RowsOf[t] : ~AnsweredRow(log', r) /\ ~Released(log', r)
                                      /\ ~(r \in Outside \ Stakes /\ Kind(log', "exempted") # {}
                                           /\ ~Questions)}
       IN  IF t = NoTable THEN inPlay # "yes"
           ELSE Cardinality(open) <= IF Questions THEN 0 ELSE Allowance(log')]_vars

\* "The same group will not re-escalate on the next pass": in a place review the
\* operator's word to keep a row gating buys it two more passes before it is asked about
\* again (_coverage_gating_resets, repository.py 4129-4132).
KeepGatingHolds ==
  ~Questions =>
    \A k \in Kind(log, "fork") : \A r \in RowsNamed(log, k) :
      \A j \in Naming(log, "answer", r) :
        /\ j < k /\ log[j].who = "operator" /\ log[j].word = "keep_gating"
        => Cardinality({e \in Statuses(log) : j < e /\ e < k}) >= 2

\* "The signal is spent once a fresh report answers it": a declaration held up by rows
\* alone, with nothing else to wait for, has its next pass due, whatever was lost,
\* answered or replaced since (coverage_repass_due against _coverage_blockers).
BlockedIsScheduled ==
  /\ state \in {"critic_reviewing", "dev_disposing"}
  /\ pass = NoPass
  /\ Declared(log) /\ CleanPass(log) /\ ~Undisposed(log) /\ ~OpenItems(log) /\ ~TableOwed(log)
  /\ CoverageBlocked(log)
  /\ log[Newest(Statuses(log))].value = "converged"
  => PassDue(log)
=============================================================================
