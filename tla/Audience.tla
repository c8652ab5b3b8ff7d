------------------------------ MODULE Audience ------------------------------
(***************************************************************************)
(* The audience round (audience/run.py, driver.py): one command, one round *)
(* over one version of the text.  A round reads the channel once, plans    *)
(* the blind pass, and then publishes as it goes: the marker list, the     *)
(* canary's answer and record, the reading's record, its findings, and the *)
(* record and findings of each enabled role.  What counts as credited is   *)
(* recomputed from the channel by every round (records.py, planner.py) and *)
(* once more, independently, by the gate of the service (gate.py).         *)
(*                                                                         *)
(* Rounds run in processes of their own.  Only a launch of the model is    *)
(* under a lock (journal.py), so two rounds interleave between launches;   *)
(* a process may die anywhere, and one that dies inside a launch leaves    *)
(* its lock behind.                                                        *)
(*                                                                         *)
(* A run's id is its launch number: both are unique, and every record of   *)
(* this module was launched.  Time is a logical clock.  The reports, their *)
(* rendering, the mechanical report and the transcripts are left out.      *)
(***************************************************************************)
EXTENDS Naturals, Sequences, FiniteSets

CONSTANTS
  Procs,          \* processes that run rounds
  MaxVersions,    \* versions of the artifact
  ReaderDigest,   \* version -> fingerprint of what the blind reader sees
  RoleDigest,     \* version -> fingerprint of a role's inputs
  Roles,          \* the enabled roles, in the order they are run
  Answers,        \* the valid answers of a run: sequences of findings
  Coarse,         \* finding -> its category and scope
  NoProc,
  MaxRounds,      \* bound: rounds started
  MaxFaults,      \* bound: bad answers, failed calls, deaths of a process,
                  \* rounds begun beside another, updates of the runner
  MaxRunners,     \* bound: versions of the command line runner
  MaxDisposed     \* bound: dispositions posted

Versions  == 1..MaxVersions
RoleNames == {Roles[i] : i \in 1..Len(Roles)}

ASSUME AudienceAssumption ==
  /\ NoProc \notin Procs
  /\ {MaxVersions, MaxRounds, MaxFaults, MaxRunners, MaxDisposed} \subseteq Nat
  /\ DOMAIN ReaderDigest = Versions /\ DOMAIN RoleDigest = Versions
  /\ Roles \in Seq({"strategic", "machine"})

VARIABLES
  channel,    \* the review's messages, in order
  versions,   \* how many versions development has posted
  runner,     \* the version of the installed runner
  journal,    \* how many launches the journal counts
  lock,       \* whose launch holds the journal's lock file
  round,      \* process -> the round it is in
  rounds, faults

audienceVars == <<channel, versions, runner, journal, lock, round, rounds, faults>>

----------------------------------------------------------------------------
(* Records, messages and rounds                                            *)

\* RunRecord: 0 stands for a field the record does not carry.
NoRecord ==
  [id |-> 0, kind |-> "none", iteration |-> 0, version |-> 0, started |-> 0,
   outcome |-> "none", tools |-> FALSE, runner |-> 0, clean |-> FALSE,
   markers |-> 0, answer |-> 0, canary |-> 0, digest |-> "none",
   annulled |-> 0]

\* RunRecord.missing_fields: a call that gave no transcript has no header, and
\* a record without the runner's version is complete only if nothing started.
Complete(r) == r.outcome = "not_started" \/ r.runner # 0

\* AudienceRound and RoundOutcome: what a round knows while it runs.
Idle ==
  [pc |-> "idle", version |-> 0, iteration |-> 0, seen |-> 0, live |-> 0,
   attempt |-> 0, annulled |-> 0, markers |-> 0, canary |-> NoRecord,
   own |-> {}, run |-> NoRecord, said |-> <<>>, role |-> 0]

Now == Len(channel) + journal

\* read_phases: the positions of a kind of phase among the first n messages.
PhasesUpTo(n, phase) == {k \in 1..n : channel[k].phase = phase}

\* published_records
PublishedRecords(n) == {channel[k].record : k \in PhasesUpTo(n, "run_record")}

OfKind(records, kind) == {r \in records : r.kind = kind}

Latest(S) == CHOOSE k \in S : \A j \in S : j <= k

\* canary_markers_message; created_at is the channel's own stamp
MarkersMessage(v) == [phase |-> "canary_markers", version |-> v, at |-> Now + 1]

\* canary_answer_message
AnswerMessage(v) == [phase |-> "canary", version |-> v]

\* run_record_message
RecordMessage(r) == [phase |-> "run_record", version |-> r.version, record |-> r]

\* blind_findings_message, strategic_findings_message, machine_findings_message:
\* from is the version and the iteration a carry names, <<0, 0>> a fresh phase.
FindingsMessage(phase, r, v, i, findings, from) ==
  [phase |-> phase, version |-> v, iteration |-> i, source |-> r.id,
   digest |-> r.digest, findings |-> findings, from |-> from]

\* The published phases that name a record.
PhasesOf(n, phase, r) == {k \in PhasesUpTo(n, phase) : channel[k].source = r.id}

\* Post a message and move the round on.
Post(p, m, next) ==
  /\ channel' = Append(channel, m)
  /\ round' = [round EXCEPT ![p] = next]

----------------------------------------------------------------------------
(* What a run is credited for (records.py)                                 *)

\* retry_link_reasons: a link must name an annulled run of the same inputs,
\* and beside such a run a reading without the link is not a first attempt.
Twins(r, universe) ==
  {t \in universe : t.id # r.id /\ t.kind = r.kind /\ t.outcome = "not_started"
                      /\ t.version = r.version /\ t.digest = r.digest}

RetryLinkHolds(r, universe) ==
  IF r.annulled # 0 THEN \E t \in Twins(r, universe) : t.id = r.annulled
                    ELSE Twins(r, universe) = {}

\* Mutant: the canary only has to come before the reading.
CreditAnyEarlierCanary(blind, canary, universe, digest, markersAt) ==
  /\ blind.kind = "blind" /\ canary.kind = "canary"
  /\ Complete(blind) /\ Complete(canary)
  /\ blind.runner = canary.runner
  /\ blind.outcome = "happened"
  /\ canary.clean
  /\ blind.canary = canary.id
  /\ RetryLinkHolds(blind, universe)
  /\ blind.version = canary.version
  /\ blind.id > canary.id
  /\ markersAt < canary.started
  /\ blind.digest = digest

\* credit_blind_reading
CreditBlindReading(blind, canary, universe, digest, markersAt) ==
  /\ blind.kind = "blind" /\ canary.kind = "canary"
  /\ Complete(blind) /\ Complete(canary)
  /\ ~blind.tools /\ ~canary.tools
  /\ blind.runner = canary.runner
  /\ blind.outcome = "happened"
  /\ canary.clean
  /\ blind.canary = canary.id
  /\ blind \in universe
  /\ \A other \in universe : other.id # blind.id => other.canary # canary.id
  /\ RetryLinkHolds(blind, universe)
  /\ blind.version = canary.version
  /\ blind.id = canary.id + 1
  /\ markersAt < canary.started
  /\ blind.digest = digest

\* recredit: the readings that still stand, for the round that has read n messages
Recredit(n) ==
  LET records == PublishedRecords(n)
      blinds  == OfKind(records, "blind")
  IN  {b \in blinds : \E c \in records :
         /\ c.id = b.canary
         /\ CreditBlindReading(b, c, blinds, b.digest, c.started)}

\* runner_transfer_reasons: live is 0 when the probe failed
RunnerTransfers(r, live) == live # 0 /\ r.runner = live

\* carried_forward, carried_role_forward
CarriedForward(r, kind, version, iteration, digest, live) ==
  /\ r.kind = kind
  /\ r.outcome = "happened"
  /\ r.digest = digest
  /\ RunnerTransfers(r, live)
  /\ version > r.version
  /\ iteration > r.iteration

\* credit_role_run
CreditRoleRun(r, universe, digest) ==
  /\ r.kind \in RoleNames
  /\ Complete(r)
  /\ r.outcome = "happened"
  /\ r.digest = digest
  /\ r \in universe
  /\ RetryLinkHolds(r, universe)

\* mark_findings: each item is a repeat, a candidate or new
MarkFindings(items, disposed, priorOpen) ==
  LET Earlier(i) == {items[j] : j \in 1..(i - 1)}
      Near(f, S) == \E g \in S : Coarse[g] = Coarse[f]
      Mark(i) ==
        IF items[i] \in disposed THEN "repeat of a settled one"
        ELSE IF items[i] \in priorOpen THEN "repeat of an open one"
        ELSE IF Near(items[i], Earlier(i) \cup priorOpen) THEN "candidate"
        ELSE "new"
  IN  [i \in 1..Len(items) |-> [finding |-> items[i], mark |-> Mark(i)]]

----------------------------------------------------------------------------
(* The plan of the blind pass (planner.py)                                 *)

\* latest_credited_blind
LatestCreditedBlind(credited) ==
  IF credited = {} THEN NoRecord
  ELSE CHOOSE r \in credited : \A o \in credited : o.id <= r.id

\* plan_blind_pass
PlanBlindPass(v, i, credited, live) ==
  LET previous == LatestCreditedBlind(credited)
      digest   == ReaderDigest[v]
  IN  IF \/ previous = NoRecord
         \/ previous.digest # digest
         \/ ~RunnerTransfers(previous, live)
      THEN "run"
      ELSE IF CarriedForward(previous, "blind", v, i, digest, live)
      THEN "carry" ELSE "blocked"

----------------------------------------------------------------------------
(* A round                                                                 *)

\* After the blind pass stands: the first role, or the end of the round.
NextRole(q, k) ==
  IF k <= Len(Roles) THEN [q EXCEPT !.pc = "role", !.role = k,
                                    !.own = {}, !.attempt = 1, !.annulled = 0]
                     ELSE Idle

\* What a findings phase names.
FindingNames(m) == IF m.phase = "blind" THEN {m.findings[j] : j \in DOMAIN m.findings}
                   ELSE {m.findings[j].finding : j \in DOMAIN m.findings}

\* _dispositions
Disposed == {channel[k].finding : k \in PhasesUpTo(Len(channel), "disposition")}

\* Mutant: a carry marks a role's findings anew.
RestatedMarkedAnew(k) ==
  LET items == channel[k].findings
  IN  IF channel[k].phase = "blind" THEN items
      ELSE MarkFindings([j \in DOMAIN items |-> items[j].finding], Disposed, {})

\* What a carry publishes of its source phase: the same list.
Restated(k) == channel[k].findings

\* _carry: the newest source phase is restated for this version, or the round is
\* refused: there is no source phase, or the source phases contradict each other.
CarryBlind(p, q, source) ==
  LET phases == PhasesOf(Len(channel), "blind", source)
      found  == {channel[k].findings : k \in phases}
  IN  IF phases = {} \/ Cardinality(found) > 1
      THEN /\ round' = [round EXCEPT ![p] = Idle]
           /\ UNCHANGED channel
      ELSE Post(p, FindingsMessage("blind", source, q.version, q.iteration,
                                   Restated(Latest(phases)),
                                   <<source.version, source.iteration>>),
                NextRole(q, 1))

\* _launch, to the canary: the marker list is on the channel before the launch.
Announce(p, q) ==
  Post(p, MarkersMessage(q.version),
       [q EXCEPT !.pc = "canary", !.attempt = 1, !.markers = Len(channel) + 1])

\* main and run: the channel is read, the readings are credited anew, the runner is
\* probed, the pass planned.  A plan that is not a carry launches, a blocked one too.
\* What is posted between the read and the first post of this round could as well come
\* after it: the round does not look again.
StartRound(p, i, live) ==
  /\ round[p].pc = "idle"
  /\ versions > 0
  /\ rounds < MaxRounds
  /\ rounds' = rounds + 1
  /\ live \in {runner, 0}
  /\ faults' = faults + (IF live = 0 THEN 1 ELSE 0)
                      + (IF \E o \in Procs : round[o].pc # "idle" THEN 1 ELSE 0)
  /\ faults' <= MaxFaults
  /\ LET credited == Recredit(Len(channel))
         q == [Idle EXCEPT !.version = versions, !.iteration = i,
                           !.seen = Len(channel), !.live = live]
     IN  IF PlanBlindPass(versions, i, credited, live) = "carry"
         THEN CarryBlind(p, q, LatestCreditedBlind(credited))
         ELSE Announce(p, q)
  /\ UNCHANGED <<versions, runner, journal, lock>>

\* LaunchJournal.launch, entered: the lock file is created, the number is written.
\* run's record starts here.
Launch(p, kind, pc, record) ==
  /\ lock = NoProc
  /\ lock' = p
  /\ journal' = journal + 1
  /\ round' = [round EXCEPT ![p].pc = pc,
        ![p].run = [record EXCEPT !.id = journal + 1, !.kind = kind,
                                  !.version = round[p].version,
                                  !.iteration = round[p].iteration,
                                  !.started = Now + 1, !.runner = runner]]
  /\ UNCHANGED <<channel, versions, runner, rounds, faults>>

LaunchCanary(p) ==
  /\ round[p].pc = "canary"
  /\ Launch(p, "canary", "canary runs", [NoRecord EXCEPT !.markers = round[p].markers])

\* _run_blind
LaunchBlind(p) ==
  /\ round[p].pc = "blind"
  /\ Launch(p, "blind", "blind runs",
            [NoRecord EXCEPT !.canary = round[p].canary.id,
                             !.digest = ReaderDigest[round[p].version],
                             !.annulled = round[p].annulled])

LaunchRole(p) ==
  /\ round[p].pc = "role runs next"
  /\ Launch(p, Roles[round[p].role], "role runs",
            [NoRecord EXCEPT !.digest = RoleDigest[round[p].version],
                             !.annulled = round[p].annulled])

\* JournalLocked: another launch holds the lock, and the round ends with it.
FindLocked(p) ==
  /\ round[p].pc \in {"canary", "blind", "role runs next"}
  /\ lock # NoProc
  /\ round' = [round EXCEPT ![p] = Idle]
  /\ UNCHANGED <<channel, versions, runner, journal, lock, rounds, faults>>

\* The steps in which a launch is under way.
Launching == {"canary runs", "blind runs", "role runs"}

\* BlindLauncher.run: the call gave no transcript, or one with executed tools.
Failed(r)  == [r EXCEPT !.outcome = "annulled", !.runner = 0]
Touched(r) == [r EXCEPT !.outcome = "annulled", !.tools = TRUE]
Held(r)    == [r EXCEPT !.outcome = "happened"]
Refused(r) == [r EXCEPT !.outcome = "not_started"]

\* The launch is over: the lock goes, and every return but the good one is a fault.
Return(p, good) ==
  /\ lock' = NoProc
  /\ faults' = faults + (IF good THEN 0 ELSE 1)
  /\ faults' <= MaxFaults
  /\ UNCHANGED <<versions, runner, journal, rounds>>

\* _run_canary: whatever the call gave is scanned for the markers and published as the
\* answer, and a hit annuls the run.  The record follows its answer, which nobody reads
\* without it; an incomplete record is refused by the channel's schema, and the round
\* with it, and any canary but a clean one stops the round.
CanaryReturns(p, how) ==
  LET q == round[p]
      returned == CASE how = "held"    -> [Held(q.run) EXCEPT !.clean = TRUE]
                    [] how = "dirty"   -> [Held(q.run) EXCEPT !.outcome = "annulled"]
                    [] how = "touched" -> [Touched(q.run) EXCEPT !.clean = TRUE]
                    [] how = "failed"  -> [Failed(q.run) EXCEPT !.clean = TRUE]
      r == [returned EXCEPT !.answer = Len(channel) + 1]
      answered == Append(channel, AnswerMessage(q.version))
  IN  /\ q.pc = "canary runs"
      /\ Return(p, how = "held")
      /\ channel' = IF Complete(r) THEN Append(answered, RecordMessage(r)) ELSE answered
      /\ round' = [round EXCEPT ![p] =
                     IF r.outcome = "happened" /\ r.clean
                     THEN [q EXCEPT !.pc = "blind", !.run = NoRecord, !.canary = r]
                     ELSE Idle]

\* A refused answer annuls the run, the transient one is repeated once and linked;
\* the second one, and one the same prompt would reproduce, go to the operator.
AfterRefusal(q, r, how, again, stop) ==
  IF how = "transient" /\ q.attempt = 1
  THEN [q EXCEPT !.pc = again, !.attempt = 2, !.annulled = r.id,
                 !.own = @ \cup {r}, !.run = NoRecord]
  ELSE stop

RunReturned(r, how) ==
  CASE how = "held"                             -> Held(r)
    [] how \in {"transient", "deterministic"}   -> Refused(r)
    [] how = "touched"                          -> Touched(r)
    [] how = "failed"                           -> Failed(r)

\* _launch from the reading on: validate, publish the record, credit the pair.
BlindReturns(p, how, said) ==
  LET q == round[p]
      r == RunReturned(q.run, how)
      credited == CreditBlindReading(r, q.canary,
                    PublishedRecords(q.seen) \cup q.own \cup {r},
                    ReaderDigest[q.version], channel[q.markers].at)
      next == IF r.outcome = "not_started"
              THEN AfterRefusal(q, r, how, "canary", Idle)
              ELSE IF credited
              THEN [q EXCEPT !.pc = "blind findings", !.run = r, !.said = said]
              ELSE Idle
  IN  /\ q.pc = "blind runs"
      /\ Return(p, how = "held")
      /\ IF Complete(r) THEN Post(p, RecordMessage(r), next)
         ELSE /\ round' = [round EXCEPT ![p] = Idle]
              /\ UNCHANGED channel

\* The findings of a credited reading; the roles follow.
PostBlindFindings(p) ==
  LET q == round[p]
  IN  /\ q.pc = "blind findings"
      /\ Post(p, FindingsMessage("blind", q.run, q.version, q.iteration, q.said, <<0, 0>>),
              NextRole([q EXCEPT !.run = NoRecord, !.said = <<>>, !.canary = NoRecord,
                                 !.markers = 0], 1))
      /\ UNCHANGED <<versions, runner, journal, lock, rounds, faults>>

\* _role_pass, the transfer: the newest credited run of unmoved inputs is restated
\* from its last published phase; without such a phase the pass ends.
Transferable(q, kind) ==
  LET same   == OfKind(PublishedRecords(Len(channel)), kind)
      digest == RoleDigest[q.version]
  IN  {r \in same : /\ CreditRoleRun(r, same, digest)
                    /\ CarriedForward(r, kind, q.version, q.iteration, digest, q.live)}

BeginRole(p) ==
  LET q      == round[p]
      kind   == Roles[q.role]
      ready  == Transferable(q, kind)
      source == LatestCreditedBlind(ready)
      phases == PhasesOf(Len(channel), kind, source)
      past   == NextRole(q, q.role + 1)
  IN  /\ q.pc = "role"
      /\ IF ready = {}
         THEN /\ round' = [round EXCEPT ![p].pc = "role runs next",
                                        ![p].seen = Len(channel)]
              /\ UNCHANGED channel
         ELSE IF phases = {}
         THEN /\ round' = [round EXCEPT ![p] = past]
              /\ UNCHANGED channel
         ELSE Post(p, FindingsMessage(kind, source, q.version, q.iteration,
                                      Restated(Latest(phases)),
                                      <<source.version, source.iteration>>), past)
      /\ UNCHANGED <<versions, runner, journal, lock, rounds, faults>>

\* _role_pass, the fresh run: the record is published, the run credited over what the
\* pass read and its own records, and its findings are marked against the settled and
\* the open ones.
RoleReturns(p, how, said) ==
  LET q    == round[p]
      kind == Roles[q.role]
      r    == RunReturned(q.run, how)
      past == NextRole([q EXCEPT !.run = NoRecord], q.role + 1)
      credited == CreditRoleRun(r, OfKind(PublishedRecords(q.seen), kind)
                                     \cup q.own \cup {r}, RoleDigest[q.version])
      open == UNION {FindingNames(channel[k]) : k \in PhasesUpTo(q.seen, kind)}
                \ Disposed
      next == IF r.outcome = "not_started"
              THEN AfterRefusal(q, r, how, "role runs next", past)
              ELSE IF credited
              THEN [q EXCEPT !.pc = "role findings", !.run = r,
                             !.said = MarkFindings(said, Disposed, open)]
              ELSE past
  IN  /\ q.pc = "role runs"
      /\ Return(p, how = "held")
      /\ IF Complete(r) THEN Post(p, RecordMessage(r), next)
         ELSE /\ round' = [round EXCEPT ![p] = Idle]
              /\ UNCHANGED channel

PostRoleFindings(p) ==
  LET q == round[p]
  IN  /\ q.pc = "role findings"
      /\ Post(p, FindingsMessage(Roles[q.role], q.run, q.version, q.iteration, q.said,
                                 <<0, 0>>),
              NextRole([q EXCEPT !.run = NoRecord, !.said = <<>>], q.role + 1))
      /\ UNCHANGED <<versions, runner, journal, lock, rounds, faults>>

----------------------------------------------------------------------------
(* Around the rounds                                                       *)

\* Development posts the next version of the artifact.
PostVersion ==
  /\ versions < MaxVersions
  /\ versions' = versions + 1
  /\ UNCHANGED <<channel, runner, journal, lock, round, rounds, faults>>

\* A finding of a published phase is settled (fixed or waived).
Dispose(f) ==
  /\ Cardinality(Disposed) < MaxDisposed
  /\ f \notin Disposed
  /\ \E k \in 1..Len(channel) : /\ channel[k].phase \in {"blind"} \cup RoleNames
                                /\ f \in FindingNames(channel[k])
  /\ channel' = Append(channel, [phase |-> "disposition", finding |-> f])
  /\ UNCHANGED <<versions, runner, journal, lock, round, rounds, faults>>

\* The command line tool is updated in place.
UpdateRunner ==
  /\ runner < MaxRunners
  /\ runner' = runner + 1
  /\ faults < MaxFaults
  /\ faults' = faults + 1
  /\ UNCHANGED <<channel, versions, journal, lock, round, rounds>>

\* A process dies.  Only an exception reaches the code that removes the lock file.
Die(p) ==
  /\ round[p].pc # "idle"
  /\ faults < MaxFaults
  /\ faults' = faults + 1
  /\ round' = [round EXCEPT ![p] = Idle]
  /\ UNCHANGED <<channel, versions, runner, journal, lock, rounds>>

\* The lock is never taken over: the operator removes it once its launch is dead.
RemoveLock ==
  /\ lock # NoProc
  /\ round[lock].pc \notin Launching
  /\ lock' = NoProc
  /\ UNCHANGED <<channel, versions, runner, journal, round, rounds, faults>>

AudienceInit ==
  /\ channel = <<>>
  /\ versions = 0
  /\ runner = 1
  /\ journal = 0
  /\ lock = NoProc
  /\ round = [p \in Procs |-> Idle]
  /\ rounds = 0
  /\ faults = 0

Returns == {"held", "transient", "deterministic", "touched", "failed"}

RoundStep(p) ==
  \/ \E i \in {rounds, rounds + 1} \ {0}, live \in 0..MaxRunners : StartRound(p, i, live)
  \/ LaunchCanary(p) \/ LaunchBlind(p) \/ LaunchRole(p) \/ FindLocked(p)
  \/ \E how \in {"held", "dirty", "touched", "failed"} : CanaryReturns(p, how)
  \/ \E how \in Returns : \E said \in IF how = "held" THEN Answers ELSE {<<>>} :
       BlindReturns(p, how, said) \/ RoleReturns(p, how, said)
  \/ PostBlindFindings(p)
  \/ BeginRole(p)
  \/ PostRoleFindings(p)

AudienceNext ==
  \/ \E p \in Procs : RoundStep(p) \/ Die(p)
  \/ PostVersion \/ UpdateRunner \/ RemoveLock
  \/ \E f \in DOMAIN Coarse : Dispose(f)

AudienceSpec == AudienceInit /\ [][AudienceNext]_audienceVars

----------------------------------------------------------------------------
(* The gate's own reading of the channel (gate.py)                         *)

FindingPhases == {k \in 1..Len(channel) : channel[k].phase \in {"blind"} \cup RoleNames}

SourceAt(k) == CHOOSE j \in PhasesUpTo(Len(channel), "run_record") :
                  channel[j].record.id = channel[k].source

SourceOf(k) == channel[SourceAt(k)].record

\* _pair_refusals for the reading published at j: the pair, and the retry's link over
\* everything published.
PairHolds(j) ==
  LET blind     == channel[j].record
      published == PhasesUpTo(Len(channel), "run_record")
  IN  /\ Complete(blind) /\ ~blind.tools /\ blind.outcome = "happened"
      /\ \A i \in published :
           LET r == channel[i].record
           IN  r.kind = "blind" /\ r.canary = blind.canary => r.id = blind.id
      /\ RetryLinkHolds(blind, PublishedRecords(Len(channel)))
      /\ \E i \in PhasesUpTo(j - 1, "run_record") :
           LET c == channel[i].record
           IN  /\ c.kind = "canary" /\ c.id = blind.canary
               /\ Complete(c) /\ ~c.tools /\ c.outcome = "happened" /\ c.clean
               /\ c.runner = blind.runner
               /\ c.version = blind.version
               /\ c.id + 1 = blind.id
               /\ c.markers \in PhasesUpTo(Len(channel), "canary_markers")
               /\ channel[c.markers].at < c.started
               /\ c.answer \in PhasesUpTo(Len(channel), "canary")
               /\ channel[c.answer].version = c.version

\* convergence_refusals and _role_phase_refusals on one findings phase: it stands on a
\* published run of its own version and round, or restates an earlier phase of the run
\* it names, and says which.
BindingHolds(k) ==
  LET m == channel[k]
      r == SourceOf(k)
      earlier == {channel[j].findings : j \in PhasesOf(k - 1, m.phase, r)}
  IN  /\ r.kind = m.phase
      /\ r.digest = m.digest
      /\ Complete(r) /\ r.outcome = "happened"
      /\ m.phase \in RoleNames => RetryLinkHolds(r, PublishedRecords(Len(channel)))
      /\ IF m.from = <<0, 0>>
         THEN r.version = m.version /\ r.iteration = m.iteration
         ELSE /\ m.from = <<r.version, r.iteration>>
              /\ m.iteration > r.iteration
              /\ earlier = {m.findings}

GateAccepts(k) == BindingHolds(k) /\ (channel[k].phase = "blind" => PairHolds(SourceAt(k)))

----------------------------------------------------------------------------
(* Properties                                                              *)

\* The channel holds the messages of the round, a round is in one of its steps, the
\* bounds hold, and no two launches are under way: the lock is the launching round's.
AudienceTypeOK ==
  /\ \A k \in 1..Len(channel) :
       channel[k].phase \in {"canary_markers", "canary", "run_record", "blind",
                             "disposition"} \cup RoleNames
  /\ versions \in 0..MaxVersions /\ runner \in 1..MaxRunners
  /\ journal \in Nat /\ lock \in Procs \cup {NoProc}
  /\ \A p \in Procs :
       round[p].pc \in {"idle", "canary", "canary runs", "blind", "blind runs", "blind findings", "role",
                        "role runs next", "role runs", "role findings"}
  /\ \A p \in Procs : round[p].pc \in Launching => lock = p
  /\ rounds \in 0..MaxRounds /\ faults \in 0..MaxFaults

\* What a round knew of the records when its run was credited.
Known(q) == PublishedRecords(q.seen) \cup q.own

\* What a round publishes as an assessment, the gate accepts, and goes on accepting
\* whatever rounds run beside it or after it: the reading stands on a clean canary of its
\* own launched right before it by the same runner, over markers published before that
\* canary, and a carry restates the phase it names (records.py credits, gate.py judges
\* anew).  One thing only comes between the two: an annulled run of the same inputs that
\* the run does not name, published by another round when this one had read the channel.
GateAgrees ==
  [][\A k \in FindingPhases' :
       \/ GateAccepts(k)'
       \/ /\ k \in FindingPhases
          /\ GateAccepts(k) =>
               Twins(SourceOf(k), PublishedRecords(Len(channel))'
                                    \ PublishedRecords(Len(channel))) # {}
       \/ /\ k \notin FindingPhases
          /\ \E p \in Procs :
               /\ round[p].pc \in {"blind findings", "role findings"}
               /\ round[p].run.id = channel'[k].source
               /\ Twins(round[p].run,
                        PublishedRecords(Len(channel)) \ Known(round[p])) # {}]_channel

\* Two phases that name one run never contradict each other: a contradiction is not
\* retractable, so it would hold the review's convergence for good
\* (_phase_integrity_refusals).
NeverContradicts ==
  \A j, k \in FindingPhases :
    channel[j].source = channel[k].source =>
      /\ channel[j].findings = channel[k].findings
      /\ channel[j].digest = channel[k].digest

\* driver.py 17: "The blind pass runs only if the reader fingerprint MOVED. Otherwise
\* the previous result is carried": no round sets out to read again what a published
\* assessment of the same inputs and runner already says.
\* Refuted, see the README.
UnmovedIsCarried ==
  [][\A p \in Procs :
       (round[p].pc = "idle" /\ round'[p].pc = "canary") =>
         \A k \in PhasesUpTo(Len(channel), "blind") :
           ~CarriedForward(SourceOf(k), "blind", round'[p].version, round'[p].iteration,
                           ReaderDigest[round'[p].version], round'[p].live)]_audienceVars
=============================================================================
