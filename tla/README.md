# Semantics toolchain: TLA+ models, checks and proofs

The repository holds a knowledge-graph service with a scheduler and user
profiles, and a review orchestrator in which a development agent, a critic agent
and a human operator work on one artifact through a message channel. This
directory models its core logic in TLA+, checks it with TLC, and proves with TLAPS,
for every value of the constants, what the checks show on small instances: every
safety property of every run has its theorem. Paths below are relative to
`src/assistant_memory/` unless they say otherwise. The map in `PROJECT.json` ties
534 definitions to the lines they stand for, 31% of the implementation.

## The system

| part | state | operations | interacts through |
|---|---|---|---|
| round gate `review/round_gate.py` | none of its own: a fold of the log (mode, position, round, entries) | `compute`, `refusal`, payload validators, `summary_artifact_seqs` | called by the server on every post, by the watcher on every plan |
| review log `review/repository.py`, `routes.py`, `models/review.py` | review row (state, parked), append-only messages, tokens | `append_message`, `advance_state`, `create_review` | HTTP posts of three roles, each under the review's row lock |
| coverage `review/coverage.py`, `repository.py` | tables and reports on the log | `build_manifest`, the server's verdict on it, escalation of rows two passes could not reach | development's tool, the critic's reports, the convergence test |
| watcher `review/watcher.py`, `launcher.py`, `poll.py` | cursor, replay, fault stretch, pending pings; nothing on disk | `plan`, `run_pass`, `contain_environmental_fault`, `watch` | long poll and posts; may die and restart anywhere |
| map and reconciliation `review/cycle.py`, `watcher.py` | documents on the cycle's anchor, records on the log | map pass, audit of the summary, one comparison per request | graph reads, the channel |
| graph store `repository/graph.py`, `access.py` | nodes with append-only versions, edges | `create_node`, `update_node` (compare and set), deletes | one database session per request |
| scheduler `scheduler/*` | jobs are graph nodes: trigger, next run, claim | `tick`, `claim_job`, `execute`, `gather`, `finish_job` | one transaction per tick; users edit the same nodes |
| profile `profile/service.py` | entries with a standing: member, candidate, parked, rejected; a registry of domains | write, confirm, promote, dispose, merge | staged dispositions approved later |
| install `install/*` | settings, generations, completion records, running residents | `compute_state`, `reconcile_release`, `observe_regression`, `supervise_residents` | every request passes the gate; the supervisor asks it too |
| audience `audience/*` | run records, launch journal and its lock, channel phases | `AudienceRound.run`, the gate's reading | posts phases, launches readers |
| review harness `src/review_harness/*` | files of a run: requests, answers, passes, meta, marks | `one_round`, `_serve_gate_requests`, `restore` | processes that hand each other files |
| auth `auth/*` | users, invites, credentials, codes in memory | redeem, exchange, resolve | HTTP |
| MCP, web, search, ingest, ops, migrations | nothing a protocol step depends on | handlers, pages, queries, scripts | call the parts above |

### What is hard, and what makes each part correct

* **Round gate.** Three roles post into one sequence, the decision state is
  recomputed from the whole log, and the critic's pass is concurrent with all of
  it. Correct: a round ends only when its ledger is closed; nothing is recorded as
  fixed or waived unless the operator (or the rule standing in for the operator)
  said so last; no debt is unpayable; a final is final.
* **Review log.** Several derived facts (what was reviewed, whether a clean pass
  stands, what is owed) decide the lifecycle state and one shared flag, by many
  routes. Correct: convergence is never declared over open work or a stale verdict,
  it is never missed either, and nobody waits in silence.
* **Coverage.** Verdicts accumulate in one kind of review and replace each other in
  the other; the operator's word, a new table and a new version each change what
  still counts. Correct: convergence is measured on every row, a row kept gating is
  not asked about too soon, a declaration held up has its next pass.
* **Watcher.** Plans from a replay, works for minutes, posts several messages, may
  crash in between. Correct: what is due is run until it is conclusive, not twice
  over the same round, and the operator hears of a gate once and surely.
* **Map and reconciliation.** One attempt each, planned on one reading and posted on
  another. Correct: not spent twice, nor over a disputed summary.
* **Scheduler and graph store.** Two transactions over one row; a declaration judged
  at authoring and run months later. Correct: an occurrence runs once, a due job is
  served, what was let in can run, its record is true, its writes stay in the fence.
* **Install, profile, audience, harness.** Crashes between writes, residents that
  survive their cancellation, approvals formed against older state, rounds beside
  each other. Correct: every prefix of the writes is recovered as what it is, an old
  proof does not count again, an approval does what it showed.

The list `hazards` in `PROJECT.json` has each of these at its line.

## Modules

| module | models | kind |
|---|---|---|
| `RoundGate` | the gate's legality table, fold, judgment, directives, reports, dispositions, finals; the watcher's plan and its one recheck | state machine, invariants |
| `Sanction` | what the gate promises, finding by finding | abstract specification |
| `ReviewLog` | `append_message`, `advance_state`: what the server does after the gate's verdict; instantiates `RoundGate` | composition |
| `Manifest` | the coverage table: the tool, an edit by hand, the server's verdict | input and output |
| `Coverage` | passes over that table and what they hold up | state machine over a log |
| `Cycle` | what follows a convergence: map, audit, reconciliation | state machine, liveness |
| `Watcher` | the critic's process: poll, plan, pass, posts, faults, pings | process with crashes, liveness |
| `Harness` | a cycle's run as files | process with crashes |
| `Audience` | audience rounds beside each other, and the service's gate | processes with crashes |
| `Profile` | standings, domains, staged requests | state machine |
| `Residents` | the supervisor of background work | extended by `Install` |
| `Install` | the install gate, its proofs and the process that starts under it | state machine, liveness |
| `Scheduler` | runners over shared jobs: transactions, locks, deadlocks | state machine, liveness |
| `JobRun` | one job from its authoring to what its occurrences leave | state machine |
| `Gate_proofs` | `RoundGate`, `Cycle` | theorems |
| `ReviewLog_proofs` | `ReviewLog`, `Audience` | theorems |
| `Coverage_proofs` | `Coverage`, `Manifest` | theorems |
| `Jobs_proofs` | `Scheduler`, `JobRun` | theorems |
| `X_proofs` | for X each of `Watcher`, `Harness`, `Install`, `Profile` | theorems |
| `MC*` | what TLC needs beside the specifications | |

How they fit: `ReviewLog` runs `RoundGate`'s actions inside its own. `Coverage` and
`Cycle` read a log of their own and take the gate as the turn it takes; what a table
holds is `Manifest`'s. `Watcher` keeps the loop and takes what is due from the last
message that moved the gate. `Install` is built on `Residents`. `Scheduler` has many
jobs and treats a run's inside as a choice; `JobRun` has one job and its inside. Where
two machines share a proof module the second one's names are prefixed (`CycleSpec`,
`AudienceSpec`, `ManifestSpec`, `SchedulerSpec`), since no name may stand for two things.

### RoundGate

The code folds the whole log on every post and asks the result whether the next
message is legal. The model keeps the result of the fold in variables and applies
one step of it per post, so an action is a post: the legality check (`refusal`),
the validator and the fold's branch of that kind together. `gate`, `roundState`,
`members` and `entry` are `GateState.state`, `Round.state`, `Round.entries` and
`Entry`; `GateNow` is the reported state with the one escape from `pass_running`.
`raised`, `audit` and `outcome` are the ledger the server reads from findings and
dispositions (`_disposed_finding_ids`), which the gate does not read: that the two
agree is a property, not an assumption. `items` and `keyless` are the operator's
unanswered items. `passPhase` and `passVersion` are the watcher's pass between
`plan`, the recheck, and its findings. `sanction` is a history variable, the only
one that no code holds: it remembers who licensed what, and is assigned from the
operator's words and the rule, never from the entry's own settlement.

Finding ids, item keys and versions are model values and small numbers. A finding
is one of three classes: forced to the operator (contested, or contesting a
declared temporary state), of a judgment type, or plain. `waive_boundary` is a
waive whose boundary the server resolved; `escalate_fix` and `escalate_waive` are
the two recommendations. Texts and payload shapes are left out, so every validator
is taken to have passed its shape checks; its references (one entry per finding, a
directive on a member, a report that was asked for) are guards. Findings that
reopen closed ones (`reopened`) raise operator items with the same post, as the
server's oscillation detector does.

### ReviewLog

One action per kind of message, on top of the gate's action, in the order of
`append_message`. `state` and `parked` are the review row. The rest are facts the
code recomputes from the log: `clean` and `declared` for the newest version,
`found` and `reviewed` (`last_reviewed_seq`), the external defect's graph record,
one observation with the answer it owes, the threat context since the last pass
end. `SelfComplete` is the server's own completion of a blocked declaration,
`ParkedNow` the flag a gated append leaves. `owesStatus`, `fresh` and `saw` belong
to the pass in flight: its findings are posted and its status is owed, it judged
under the newest context, its projection held the observation. `sentBack` is
history: an answer or the operator's gate returned this version.

Simplifications: one external defect and one observation per review; no coverage
table (`Coverage` has it); a decision answers one key; the review's tokens die with
its close and a request already past the token check is not followed.

### Manifest

Development calls the tool (`RunTool`: `build_manifest`), may edit one thing in the
message it prints (`EditMessage`), and the server judges the message by its content
(`Accepts`: `_validate_coverage_manifest_payload` and `append_message`). A change is
a set of changed lines, a text a list of lines, a digest the thing it digests; git
and the parsing of sources are `Resolves` and the sets of paths. Left out: claims and
wording, the tool's version and the pair of refs. `ToolIsAccepted` excludes one case:
in code mode with no high-stakes file the tool prints a table the server refuses.

### Coverage

The log is kept and every rule is a reading of it: a message's place is its sequence
number. `PostTable`, `PostDecision`, `PostExemption`, `PostAllowance`,
`PostDispositions` are the server's branches; `StartPass`, `PostFindings`,
`PostReport`, `PostUnanswerable`, `EndPass` and `LosePass` the watcher's pass with
its screening of evidence. `Denominators` are the two kinds of review: questions,
whose verdicts accumulate within a version, and places, where the last report counts.

### Cycle

The channel is the only record; `docs` and `anchor` are the cycle's documents in the
graph, read when the reconciliation starts and held against its report when it is
posted. `StartPass(Plan(log))` plans as the watcher does; `FinishMap`, `FinishAudit` and
`FinishReconciliation` post; `LeaveInFlight` and `Arrive` are a post that outlives its
watcher. `turn` is the loop of `watch`: `Turn` plans only when a message has come that
was not planned on or the watcher has started (`Post` makes a turn due), and a turn is
lost where the code leaves nothing to wake the poll: `StateUnread` is
`fetch_review_state` returning None, `LosePass` a pass that may fail in the quiet part
of a fault stretch, `MissAnchor` an anchor that is gone. The watcher has its prompts.
The operator's ruling on a map is a record nothing else reads.

### Watcher

`pc` is the place of the process in `watch` and `run_pass`; `read` is its replay, and a
start reads the channel from its first message, since nothing is kept on disk. `stretch`
is `FaultStretch`, `pending` the round whose fallback timer runs. `Die` and `PassFails`
may take any step's place; a post may be lost. A pass that fails asks the channel
whether it had concluded (`Concluded`), and that read may fail too: then the operator's
gate goes up whatever the channel says, and `unread` counts it. The gate is reduced to
the last message that moved it, the critic to what a pass ends in. `sent`, `noise` and
`unread` are history: pushes, fault notices since a pass last completed, failed checks.

### Harness

Each variable of `catalogue` is a file or a set of files of the run, each action at
most one write, so `Crash` falls between any two of them; `Start` is `restore` and
what it resumes. `held` is what the process has read and not yet written. A value of
`artifact` is a text, as the code's hash is: an edit may bring any text, one that was
there before too. `texts` and `putBack` are history: the texts since the snapshot, and
whether one of them came back. A role it
runs dies with it: a role that survives an unconfirmed death is left out.

### Audience

`channel` has the records and phases a round publishes, `journal` and `lock` the launch
count and its lock file. `round` holds what a round knows: it reads the channel once
when it begins (`seen`) and publishes as it goes, one action per launch and per post.
Credits are recomputed by `CreditBlindReading` for the rounds, and once more,
independently, by the gate's operators: `PairHolds`, `BindingHolds` and, over everything
published, the link of a retry (`RetryLinkHolds`), together `GateAccepts`. Left out: the
claim map, the operator's takeaway, waivers, phase retraction, the mechanical report,
the visual pass.

### Profile

`nodes` are graph nodes (version and status), `entries` the markers that say which
bind, `registry` the domains. A request is one transaction; `Stage`, `Approve` and
`Reject` keep it as a proposal with what was shown (`Payload`). `Merged` is the
merge's walk over the entries in any order. One account; what a preference says is
its node and version; node sensitivity, which nothing sets, is left out.

### Install and Residents

`held`, `spaces`, `members`, `home` and `docs` are the facts `compute_state` reads,
`generation`, `records` and `events` what it leaves. A request computes, observes a
loss and retires the generation in three steps (`Compute`, `Observe`, `Retire`), so
requests and the supervisor interleave; `Prove` writes the record of a `conventions`
call at its end. `Start` has the two halves of reconciliation with the record of a
target between them, and the failure of the whole pass, after which the server serves
all the same (`ReconcileFails`). In `Residents`, `life` has every task of the process and
`running` the supervisor's map, so that a task let out of the map is still seen.
`compute_state` is one read here, though it is one query per fact.

### Scheduler

A job is a row of the graph store with what the scheduler reads: `enabled`, `next`,
`claimed` and, fixed, its trigger and predicate. A tick is one database transaction:
`StartTick` is the query for due jobs, `Process` is `_process` with `execute` for one
of them (claim, act, finish), `Commit` makes all of it visible, `FailTick` and
`BreakDeadlock` lose all of it. What happens to one job inside its tick is atomic,
since nobody else sees it; what is not atomic is kept: `copy` is the session's copy
of a row, `written` the rows it has locked, `todo` what it loaded and has not
reached. The store's version check compares a copy with itself for these callers, so
versions are not in the model; `behind` says which copies are older than the row, and
`overwrote` and `delivered` are the history the properties are about. An occurrence
is a job and the time it was due. `broken` is data that `advance` refuses, `overflow`
data on which it raises something it does not announce.

### JobRun

One job from `create_scheduled_job` on: `runtime` are the server's settings and
`request` what a client asks. Authoring judges it at once or stages it; an occurrence
(`occ`) claims, gathers step by step (`GatherStep`, `SurveyRead`), asks the reasoner,
holds the plan against the fence, acts and commits (`Act`, `Commit`) or rolls back.
Users edit, hide and delete nodes, write and withdraw approvals (`ack`), and read,
pause and patch the job through a copy of their own. `records` and `effects` are what
committed occurrences left; `excuse` says what has changed since authoring looked.

## Runs

| run | instance | shows |
|---|---|---|
| `round_gate` | 2 findings, 3 artifacts, both modes, 3 classes, 2 proposals, 3 directives | `LedgerClosedBetweenRounds`, `OutcomeIsSanctioned`, `OwedCanBePaid`, `RoundIsNeverReplaced`, `FinalIsFinal`; `LedgerSpec`: every step is a step of `Sanction` or a stutter |
| `review_log` | 1 finding, 1 external defect, 2 artifacts, a report directive | `ConvergedStands`, `OpenItemsPark`, `NoMissedCompletion`, `GateTurnIsDue` |
| `coverage` | a table of 2 rows and its correction to 1, 2 passes over questions or 4 over places, 1 notice, 1 disturbance | `KeepGatingHolds`, `BlockedIsScheduled`, `ConvergedIsMeasured` |
| `manifest` | 2 changed lines, 1 or 2 blocks; texts of up to 2 headings | `ToolIsAccepted`, `IdentityBindsTable` |
| `cycle` | 2 versions or summaries, 2 documents, 1 request, 1 edit, 1 fault (a failed read of the state among them) | `OneAttempt`, `ReadsAgreedSummary`, `WorkIsDone` |
| `watcher` | 3 messages of the others, 1 fault, 1 broken environment, a budget of 2 | `QuietStretch`, `GatePingedOnce`, `ConcludedStands`, `GateIsSurfaced` |
| `harness` | 2 rounds, 2 questions, 2 texts of the artifact and 2 edits, 2 versions of the profile, any number of crashes | `StateIsRestorable`, `FactsStand`, `StopIsJudged` |
| `audience` | 2 rounds of 2 processes, 2 versions, 1 finding, 1 role, 1 fault | `GateAgrees`, `NeverContradicts` |
| `profile` | 3 domains, 1 project, 3 nodes, 5 requests, 1 staged | `StandingsAgree`, `TombstoneStands`, `DisplacesWhatWasShown` |
| `install` | 2 starts, 1 request beside the supervisor, 2 residents, 1 change, 2 proofs, 1 fault | `ProofStands`, `NoDuplicateResident`, `ResidentsFollowGate` |
| `scheduler` | 2 jobs, 2 runners, 4 triggers, 3 predicates, a failing tick | `OccurrenceOnce`, `ClaimsEnd`, `DueIsServed` |
| `job_run` | 2 nodes, 1 approval, 12 requests, 6 patches, 5 plans, 2 occurrences, 2 edits, 1 fault | `ExecutableAsAccepted`, `RecordIsTrue`, `WritesStayInFence`, `ApprovalHolds` |

`StateIsRestorable`, `StandingsAgree` and `ProofStands` are conjunctions of the
module's type invariant and the named invariants beside it; `FactsStand` of two
action properties.

### Bounds

* **round_gate, review_log.** Two findings let one entry of a round wait, be ruled on
  or be disposed of while the other is not; three artifacts are two rounds and a
  summary, or a round, its version and the operator's final version. The proposals
  that escalate and a report on a whole class are left to the theorems, which hold for
  every subset. Finding ids are interchangeable, so `round_gate` uses symmetry. In
  `review_log` the gate is already checked and one finding is enough for it to be in
  every state; two artifacts make the first one's facts stale. `MaxVersion` is the only
  bound on their counters.
* **coverage.** Two passes are what the escalation of a row asks for, and a third
  status can only come from a place review, which has four. One disturbance (later
  version, corrected table, lost pass) separates the facts of two versions or tables.
* **manifest.** One input, one table and one edit are a behaviour; two changed lines
  and two blocks let a block overlap, leave out and repeat.
* **cycle.** A second version, a second summary and a second map pass are what makes a
  first attempt stale; a post in flight, a lost pass and a failed read of the state need
  one fault.
* **watcher.** Three messages are a version, proposals and a word on them; a fault of
  the process and a fault of the environment meet in every order. The budget of two
  separates a retry from the drop to the slow probe. One failed pass is also one failed
  check, over a version that has its status or not; `MaxFaults` bounds both.
* **harness.** The second round is the first one that can find a first round's files;
  crashes are not bounded. Two edits are one and its taking back (`MaxEdits`). Questions
  and answers are interchangeable (symmetry).
* **audience.** A credit is earned in one round and used in another; two processes
  interleave. `UnmovedDigest` makes a carried reading possible at all.
* **profile.** Three nodes fill a slot, contest it and merge into it; five requests are
  two rules, a merge, a staged confirmation and its approval.
* **install.** Two starts separate a recorded target from its reconciliation; two
  proofs separate two generations. A resident's second task would be the duplicate.
* **scheduler.** Two jobs and two runners are what it takes for a deadlock and for a
  commit that makes half of another tick's copies stale. One job is plain, so that
  whatever is wrong with the other meets a job that must be served all the same.
  `MaxTime` 1 lets an interval come due a second time and a left claim grow older than
  `Lease`. Deadlocks are not bounded. `OccurrenceOnce` speaks of behaviours in which no
  write has been lost (see refuted claims); `DueIsServed` includes them.
* **job_run.** Requests and patches differ from a plain declaration in one thing each,
  and a setting or a graph is varied only for the requests it matters to (`MCInit`);
  nobody edits what nothing will read (`SomebodyReads`). Two occurrences separate what
  one read from what the next reads.

The deadlock check is off where the system really stops: a closed review takes no
message, a table is judged once, a scheduler whose jobs are all off has nothing to do,
and where the bounded outside world has had its say (`coverage`, `cycle`, `watcher`,
`audience`, `profile`, `install`, `job_run`). It is on in `round_gate` and `harness`.

### Fairness

Safety needs none. `Scheduler`: weak fairness of a runner's steps, because the loop
wakes at the latest after the rescan interval and goes through its jobs, and strong
fairness of each write, because the database queues those who wait for a row: after a
deadlock is broken the survivor gets the row before the victim's next tick. Without the
second, two runners can deadlock for ever. `Watcher`: the process takes its steps, is
started again, and its fallback timer fires; an environment that broke may stay broken.
`Install`: a start goes through its steps and the supervisor's loop turns. `Cycle`: a
turn that is due is taken and a pass that has begun ends, since the watcher is restarted
like any service. Nothing makes a turn due again but a message or a start, so
`WorkIsDone` ends in one of two ways: nothing is due, or the last turn was lost. A
request or a later version makes the next turn due. There is no fairness of the clock,
of users, of the operator, of faults or of repairs. `GateTurnIsDue`,
`NoMissedCompletion` and `BlockedIsScheduled` state progress as safety: where only the
critic or the server can move, the plan finds a pass due, or the completion has already
been made.

## Refuted claims

Statements of the repository's own comments that the models refute. Each is a
definition of its module, and no run lists it; to see the behaviour put it in place of
the run's properties in the cfg, with the constants changed as said.

1. `RoundGate.SummaryIsNotRoundTraffic` (`round_gate.py` 882-883: "a summary artifact
   is never round traffic"). `compute` tests for a summary only when no round is open
   (924-927): one posted in an unparked round becomes the round's version and the round
   closes over it; the next pass is planned over a summary.
2. `ReviewLog.SentBackNeedsVersion` (`repository.py` 5227-5228: an answer that returns
   the version "makes any prior clean pass stale - the server must NOT self-complete
   convergence over it"). `append_message` asks `_signals_return` of the message it
   appends only (1812); the next settling message converges the review on the stale
   clean pass.
3. `ReviewLog.ObservationIsScheduled` (`repository.py` 5136-5140: an observation-only
   blocker has "a SAME-VERSION answering pass"). `observation_repass_due`
   (`watcher.py` 505-524) looks at the observations the newest blocker notice names; one
   posted after that notice is in none, holds the review up, and no pass is due.
4. `ReviewLog.ReturnedCanChange` (`repository.py` 67: "returned change re-enters the
   loop"). The gate's terminal state is permanent and takes no ordinary version
   (`round_gate.py` 1125-1130): a review the operator finalized and then returned can
   only be abandoned.
5. `Watcher.DuePassResumes` (`watcher.py` 4444-4446: "The pass is still DUE and resumes
   by itself when the environment recovers"). After a slow probe the loop waits in
   `poll_until_message` (4917) for somebody else's message, and a quiet stretch's
   repeats post none of its own: the environment is repaired and the due pass never
   runs. `MaxMoves = 1`, `MaxFaults = 0`, under PROPERTIES.
6. `Scheduler.WritesCompareAndSet` (`repository/graph.py` 102: "CAS on
   `expected_version`"; `scheduler/repository.py` 57-58: "Returns the updated node, or
   None if another worker won the race"). `update_node` compares with the session's own
   copy and updates without a version condition; a second runner overwrites the first
   one's finished occurrence and delivers it again, and a user's pause is overwritten
   the same way.
7. `Scheduler.ClaimsEnd` with "overflow" in `Triggers` (`runner.py` 239-241: malformed
   trigger data "must fail here - finished with a durable record and DISABLED").
   Authoring accepts any whole number of seconds; `advance` raises `OverflowError`,
   which 246 does not catch, and the claim is committed with no record, again at every
   lease.
8. `Harness.RestartContinues` (`src/review_harness/cycle.py` 482-485: "restart the round
   - the analysis continues from it, the critic is not replayed"). The round refused
   for an empty outcomes file leaves the file, and `restore` refuses it
   (`runcat.py` 603-611) until somebody deletes it.
9. `Profile.ConfirmedAgainstItsRule` (`proposals.py` 304-307: "the effective rule
   changed since this confirmation was prepared"). A second inference in the slot
   rewrites the candidate and its base (`profile/service.py` 706-717, 782), so the
   guard compares the new base with the new rule and an approval of the old confirmation
   makes the new text binding.
10. `Profile.MembersAreCanonical` (`profile/service.py`, `normalize_domain`: "alias ->
    its canonical key"). A chain of aliases is followed one hop by the tool and one by
    the service; a chain of four leaves a rule under a key that stands for another.
    `Domains` and `Seeded` of four keys, `Default` the last, `Projects = {}`,
    `MaxNodes = 2`, `MaxQueue = 0`.
11. `Install.RepairNeedsNewProof` (`models/install.py` 28: a repair "still leaves stage 5
    unclosed until a new loop-close"). A `conventions` call admitted before the loss
    writes its record at its end, of the generation the loss has just opened
    (`mcp/server.py` 659). No residents, two requests, `MaxBoots = 1`, `MaxMoves = 2`,
    `MaxFaults = 0`.
12. `Audience.UnmovedIsCarried` (`audience/driver.py` 17-18: "The blind pass runs only
    if the reader fingerprint MOVED. Otherwise the previous result is carried").
    `recredit` passes the canary's own start as the time of the marker list
    (`run.py` 170) and `credit_blind_reading` asks that time to be strictly before it
    (`records.py` 588-592): nothing is ever credited and every round reads anew.
13. `Cycle.AttemptReadsItsSummary` (`round_gate.py` about 1793: the comparison waits for
    an audited summary). `intent_audit_clean` (1780) asks only about the newest summary:
    after a second version converges the map's one attempt is spent against the first
    version's summary.
14. `Profile.DisplacesOnlyShown` (`profile/service.py` 905-907: "a newer
    member/candidate must never be displaced by an approval formed against older
    state"). The snapshot is compared only while the entry is still parked
    (1092): a plain confirmation staged while the entry is parked, and approved once
    the entry is a candidate again, displaces whatever has come into the slot since.
    `Domains` of two keys, `Seeded` of one, `Projects = {}`, `Staged = {"confirm"}`,
    `MaxNodes = 2`, `MaxSteps = 8`, `MaxQueue = 1`. `DisplacesWhatWasShown` is what
    holds: the promise for an entry found parked.
15. `Cycle.NextCycleAsksAgain` (`watcher.py` 4649-4652: a read failure of the state
    "reads as 'not converged': the map is DUE, not lost, and the next cycle asks
    again"). The plan then says wait, and the next cycle comes when
    `poll_until_message` (4917) returns somebody's message: after the last message of
    a review none comes and the map is never written. Under PROPERTIES.
16. `Harness.StopIsOverReadText` (`src/review_harness/cycle.py` 497-498: "Unchanged -
    there were no edits": the artifact is compared "with the snapshot the critic saw").
    The snapshot is taken before the critic is called (383) and compared by hash (511).
    An edit he reads and that is taken back leaves the hashes equal, and the cycle stops
    over a text he has not read. Under PROPERTIES. `StopIsJudged` is what holds.
17. `Watcher.NoSecondGate` (`watcher.py` 3768: "a later fault must not stack a second
    gate on top of it"). The check reads the channel anew (3775) and a read that fails
    counts as not concluded (4302-4303), although the replay may hold the status: a
    version that has it is put on the operator's desk. `ConcludedStands` is what holds:
    no gate lands there but by such a read, one by each.

## Observations

Read off the code while modelling; no property is about them.

* *Review log.* An answer recomputes `parked` from the items alone while a gate is open
  (`repository.py` 1759-1760, against 1535-1538), which leaves the `pending_human` of a
  snapshot wrong. A returning answer in `pass_running` hands development the turn where
  no version is legal until the pass posts. `returned` may jump to `artifact_ready` with
  no new version. The token is checked before the row lock (`routes.py` 285), so a
  message let in just before the close lands on a closed review.
* *Coverage.* In code mode `keep_gating` does not stop the same question at the next
  status, although `repository.py` 4130-4133 says otherwise. `accepted_unreviewable`
  after an earlier `keep_gating` on the same key has no effect. A code row's id is its
  block and axis, so an exemption carries to another version's block of that name. A
  table replaced after convergence makes a pass due. A pass that answers some axes and
  ends in `needs_iteration` with no findings has no later pass.
* *Manifest.* `high_stakes_declared` is not verified in spec mode;
  `out_of_declared_scope` is not in the manifest's id.
* *Watcher.* A same-version re-pass that fails is taken for concluded
  (3762-3783) and no `needs_human` follows. A failed map pass is retried at once and
  without bound, because its own notice wakes the poll (5065-5076); a refused
  reconciliation post raises out of its pass (4018) to the same effect, contrary to
  5069. A pass refused for its meaning with clean findings is planned again although the
  notice says no retry is owed.
* *Cycle.* A missing map prompt (5009-5027) starves the summary's audit; a deleted
  anchor leaves the reconciliation due for ever (a lost turn of `WorkIsDone`); the server
  never checks an inventory's `read` flags.
* *Harness.* An answer's record in `gates.md` lost in a crash is never made up for
  (`cycle.py` 131-138). A second batch of questions is refused once but served after a
  restart (412, against 421). A restart after a round's completion and before its
  comparison runs an extra pass. Nothing keeps two processes off one catalogue.
* *Audience.* A BLOCKED plan launches all the same (`driver.py` 400-403), which
  `recredit` makes unreachable. A failed call makes `run_record_message` raise, so its
  record is never published. A round that began before another's reading can publish a
  reading beside an unnamed twin, and a run annulled later on the same inputs takes back
  an assessment the gate had accepted, for good: the gate asks every published reading
  for the name of its twin (`records.py` 425-443), and what is published does not
  change. Both are the exceptions in `GateAgrees`. A crash between a role's record and
  its findings makes later versions of the same digest refuse (912-920).
* *Profile.* A disposition staged on a candidate carries no snapshot, so an entry parked
  later escapes the slot check; a staged retire carries no version.
* *Install.* A stale reading can retire a fresh proof with nothing lost (`state.py`
  701-704 says so). A target recorded between reconciliation's read and its write is
  lost (642-672). A one-shot that ends within the grace of its stop is not counted as
  finished and runs again (`residents.py` 163-175). Undoing a deleted conventions
  Document after a restart has seeded another leaves two.
* *Scheduler and JobRun.* A pause or resume staged by a limited client can never be
  applied: its proposal carries no `expected_version`, and applying it raises
  `MissingVersionToken`, which blames an update. `_v_int` accepts what the tools then
  raise on (`tools.py` 352), so an accepted declaration may fail at every occurrence;
  only a dry run shows it. Between two reads of a pair the committed versions may move,
  so one entry of a survey may show a version newer than the approval honoured on the
  other. A node gone between two reads fails the whole gather. `update_node` lets a
  client patch a job's declaration past authoring's checks. An error of the database in
  a gather's read poisons the tick.
* *Auth.* Two redemptions of an invite at the same time both admit a user
  (`auth/service.py` 137); a code leaves memory before its credential is committed
  (`oauth_provider.py` 116).

## Proofs

Every machine has its theorems. A theorem states the property of the run for every
value of the constants: any findings, jobs, runners, residents, spaces, rounds,
processes, documents, tables, requests, and any bound.

Every one goes the same way. The property is not inductive as it stands; `IInv`
(prefixed like the rest; `ManifestInv`) is the strengthening that is: TLC finds it to
hold on the run's instance (put it under INVARIANTS of a module that extends both `MCX`
and the module of the proofs), and the lemmas show `Init => IInv` and `IInv /\
[Next]_vars => IInv'`, one step per action and one per conjunct the action can disturb.
`Invariance` is `Spec => []IInv`; each property follows from `IInv`, an action property
from `IInv` and one step. Nothing is assumed but the module's own named assumption on
its constants, and one hypothesis of one theorem (`EveryClaimEnds`, below).

| of | in | theorems | state |
|---|---|---|---|
| `RoundGate` | `Gate_proofs` | `TypeCorrect`, `LedgerClosed`, `Sanctioned`, `Payable`, `OneRoundAtATime`, `FinalStands`, `Refinement` | `TypeOK`, the three invariants and two action properties of its run, `LedgerSpec` |
| `Cycle` | `Gate_proofs` | `AttemptsAreLicensed`, `SummariesAreAgreed` | `OneAttempt`, `ReadsAgreedSummary` |
| `ReviewLog` | `ReviewLog_proofs` | `ConvergedIsSettled`, `ItemsShowAsParked`, `CompletionIsNotMissed`, `PassIsDue`; `GateIsFollowed` | the four invariants of its run; `RoundGate`'s `Spec` |
| `Audience` | `ReviewLog_proofs` | `TheGateAgrees`, `NothingIsContradicted`, `LaunchesAreAlone` | `GateAgrees`, `NeverContradicts`; one launch at a time |
| `Coverage` | `Coverage_proofs` | `KeptRowsWait`, `HeldUpIsScheduled`, `ConvergenceIsMeasured` | `KeepGatingHolds`, `BlockedIsScheduled`, `ConvergedIsMeasured` |
| `Manifest` | `Coverage_proofs` | `TheIdIsTheTable`, `TheToolIsTaken` | `IdentityBindsTable`, `ToolIsAccepted` |
| `Watcher` | `Watcher_proofs` | `StretchesAreQuiet`, `PushesAreFew`, `StatusesStand` | `QuietStretch`, `GatePingedOnce`, `ConcludedStands` |
| `Harness` | `Harness_proofs` | `StateStaysRestorable`, `AnswersAreKept`, `PassesAreKept`, `FactsAreKept`, `StopsAreJudged` | `StateIsRestorable`, `FactsStand` and its two parts, `StopIsJudged` |
| `Install` | `Install_proofs` | `ProofsStand`, `NoDuplicates` | `ProofStands`, `NoDuplicateResident` |
| `Profile` | `Profile_proofs` | `StandingsHold`, `TombstonesStand`, `ApprovalsAreFair` | `StandingsAgree`, `TombstoneStands`, `DisplacesWhatWasShown` |
| `Scheduler` | `Jobs_proofs` | `TypeCorrect`, `OccurrencesOnce`, `ClaimsEndJobByJob`, `EveryClaimEnds` | `TypeOK`, `OccurrenceOnce`, `ClaimsEnd` |
| `JobRun` | `Jobs_proofs` | `AcceptedJobsRun`, `RecordsAreTrue`, `WritesAreFenced`, `ApprovalsAreHeld` | the four invariants of its run |

### RoundGate

From `BoundsAssumption`: versions are counted to some natural number, and modes,
classes, proposals and directives are any subsets of the code's. `IInv` adds what the
code never says in one place:

* `GateFollowsRound`: which gate states go with which round states, and that a final
  leaves no round;
* `PassIsBetweenRounds`: a pass about to post ordinary findings does so with no
  round open, because the plan's guard and the versions it can be anchored to leave
  no way to open one meanwhile. This is what makes `RoundIsNeverReplaced` true in
  spite of the server's taking findings anywhere;
* `OnlyMembersAreOpen`: a raised finding is closed or a member of the current round,
  and the round's own disposed marks are the ledger's;
* `EntryFitsStage`, `SettledIsSanction`: an entry's settlement is what its sanction
  says, in each stage of the round;
* `SomeoneOwes`: a closing round has a debt left.

`ParkingSettles`, `RulingSettles`, `RuleSettles` and `CloseLedgerCloses` are the facts
several actions share. `Refinement` maps the posts to `Raise`, `Answer`, `Rule`,
`Close` and `Final` of `Sanction`.

### ReviewLog

The four invariants are inductive together with the order of the counts (`Counted`),
the gate's part that says where a round stands, and six facts about facts of the log:

* `CleanPassStands`: a clean pass leaves no round open, and the pass in flight after it
  is over the version that was clean;
* `DeclarationStands`: over a declared version only an open observation calls for a
  pass, so the declaration's own pass is over when the completion looks at it;
* `NothingLeftToRun`, `ReturnIsRemembered`: in the states past a declaration there is
  nothing in flight and no open blocker, and a declared version is development's again
  only if it was sent back. This is why `NoMissedCompletion` may leave the versions
  sent back out;
* `ConvergedIsQuiet`, `GateWaitsForNewest`: after convergence only summaries are read,
  and the critic's turn is over a version nothing was found for.

`GateIsFollowed` shows that every step of the log takes the gate's variables through
a step of `RoundGate` or a stutter. What is proved of the gate is so true of every
review, of whatever the server does after the gate's verdict; the run checks the gate
by itself and the log's own invariants, and need not check the two together.

### Cycle

Nothing is assumed. `OneAttempt` relates two places in the channel, so `IInv` is about
its order: an attempt is the first over its map or takes up a request posted before it
(`AttemptsAreAsked`), a request is only made over a map that had an attempt
(`RequestsFollow`), so a first attempt and a requested one are never confused; a record
on its way when its watcher died is a record (`LateAreRecords`) and is refused like any
other when it is late. `ReadsAgreedSummary` speaks of the latest summary the critic has
spoken on, hence `FindingsFollowSummaries`: findings come in the order of the summaries
they are over, and `ReadsNewestFindings`: the comparison holds the newest of them.

### Watcher

From `WatcherAssumption`. `QuietStretch` needs the notices counted by the attempts
(`NoiseIsCounted`). The other two rest on who may speak while the process works, which
no line of the watcher states:

* `PassHasItsTurn`: during a review the gate does not move, so findings are posted on
  the state they were planned on;
* `RulingsEndRounds`: nothing but a ruling separates a round's proposals from the next
  version, findings or proposals. With it an unanswered timer's round is the newest;
* `GateIsHeld`: while the process pings, the proposals it pings about stay the newest,
  since the next ones answer findings and only this process posts those;
* `TimerIsOwed`, `FallbackIsRead`: a timer's round has had no fallback, and a restarted
  process reads a fallback before it takes the timer over;
* `PushesAreCounted`: a push of the newest proposals is told in the channel, is about
  to be, or has a fault of its own that answers for it, by each channel;
* `GatesAreCounted`: a gate on a version that had its status or its gate has a failed
  check of its own.

### Harness

From `HarnessAssumption` and `NoAnswerIsNoAnswer`. Nothing but the files survives a
crash, so `IInv` has two halves: what the files say of each other whatever the process
does (`FilesStand`: rounds are complete but the last, a pass comes after its meta file,
a completed round has no request left), and what the place of the process adds
(`PlaceFitsRound`, `HeldFitsPlace`, `EntryComesFirst`). A crash keeps the first and
empties the second, and `Start` restores the second from the first. The snapshot is one of
the texts since it was taken, and where the artifact is that text again the critic read it
or it was put back (`Judged`, `TextsFit`). `StateIsRestorable`
follows from the files and the records kept of them (`HistoryOfFiles`), the action
properties from both halves.

### Install and Residents

From `InstallAssumption`. `RecordsTell` counts generations by events and gives every
generation but the last its record; `ObserversTyped` keeps a proof under way from naming
an event that has not happened. `NoDuplicateResident` follows from `OneTaskPerName`: a
task alive under a name is the one in the supervisor's map. It holds for any residents,
those that survive their cancellation among them.

### Scheduler

From `SchedulerAssumption`. `CopyIsCurrent`: a copy a tick has not reached is the row,
unless another tick's commit made it old; `WriteMovesOn`: what a tick wrote lies later
than what it found, and what it ran is what the row still says until it commits;
`DeliveredIsPast`: what was delivered lies before the next time. The last two hold
while no committed write has been overwritten, the exception that
`OccurrenceOnce` names (refuted claim 6). `ClaimsEndJobByJob` has no hypothesis: a
committed row holds no claim unless its own trigger is `overflow`. `EveryClaimEnds`
is `ClaimsEnd` itself for servers without such a trigger, since with one it is
false (refuted claim 7); the run's triggers are such an instance.

### JobRun

From `JobRunAssumption`, which types the graphs, notes, tool calls and plans. `IInv`
has eleven parts, proved one after the other because each rests on those before it:

* `Shaped`, `RowsStand`, `AuthoringStands`: every copy of the declaration is the request
  unless something on record excuses the difference, and what is staged or kept passed
  authoring;
* `RunsStand`, `RecordIsTrue`: an occurrence has a number of its own, and its effects
  and record wait for its commit;
* `GatherStands`, `RecordsExcused`: what the gather has not looked at is in sight, unless
  something was hidden since, so a failed stage has an excuse;
* `GraphStands`, `NotesStand`, `GatherKnows`, `ApprovalHolds`: versions only grow, so
  the version a gather caches lies between the one it began with and today's; and a
  gather has been granted every approval in force. The approval a survey honours is then
  of a version that was current during the gather, although approvals come and go
  meanwhile.

### Profile

From `ProfileAssumption`. `RegistryOK`: a key is an alias exactly if it stands for
another, and that one is in the registry. `StoreOK` is the property a merge cannot keep
by halves: every entry has the status its standing calls for (`Fit`), no two entries
take one slot (`Clash`), and a node without a marker is superseded or was deleted in
sight. `QueueOK` says what a waiting payload holds of what it showed. A request is a walk
of small steps over the store (`Promote`, `Supersede`, the merge's next entry), so the
lemmas are about what one of them leaves: each keeps `StoreOK`, and none displaces
what the step before it did not name. A merge visits the entries in any order. That its
walk ends in a store of the kind it began with is an induction over the walk
(`WalkExists`, `WalkKeeps`), written as a least entry at which it would fail, since the
prover cannot be given an induction rule.

### Coverage

From `CoverageAssumption`, whose only claim beyond types is that a table is finite. The
log is the state, so `IInv` says what any log of a review is like:

* `WellFormed`: a row raised alone carries its own key and a group the key of its place
  (`ForksAreNamed`), so that an answer names what it answers (`AnswersFollow`); reports
  fit their tables (`MessagesFit`); a blocker notice stands behind its declaration
  (`BlockersFollow`);
* `Dated`: a status is for the version newest when it was posted, and the server's own
  ends the review;
* `PassStaysDue`, `FindsLast`: nothing the pass was due despite comes up while it runs;
* `HeldUp`: a declaration that did not end the review names the rows that held it up;
* `Gated`: the operator's word to keep a row stands over the next two statuses.

`KeepGatingHolds` follows from `Gated`; `BlockedIsScheduled` from `HeldUp` with
`FindsLast`; `ConvergedIsMeasured` is an action property of the two ways a review
converges. The lemmas say what a reading of a log keeps when the log grows, by the kinds
of messages it grows by (`Extends`): most readings look at two or three kinds.

### Manifest

Its assumption types the inputs. `ManifestInv` keeps the message an edit of the tool's.
`TheIdIsTheTable`: two tables of one id have the same base rows, in which each block's
flag is (`FrozenNamesOnce`: a slicing the tool accepts names a block once), and the same
slicing and declared list; an edit that keeps the id therefore changes nothing the
server or the critic asks by. `TheToolIsTaken`: rows of different forms have different
ids (`FormsApart`), there is one hunt for blind edges (`OneHunt`), and the id is that of
the content (`MessageIsNamed`), in both modes.

### Audience

From `AudienceAssumption`: roles are a sequence over the code's two. `AudienceIInv` has
what is on the channel, what each round holds, and what keeps two rounds apart.

* `ChannelFits`: a run is published once and no two readings share a canary
  (`PublishedOnce`); an assessment stands on a run published before it or restates what
  says so (`Grounded`), a reading on its canary (`Stands`); `SayOneThing`;
* `RoundFits`: a launch under way holds the lock and the journal's last number, so its
  record is new (`LaunchFits`); the canary a round reads over is published and unused
  (`CanaryFits`); what it is about to assess is published and nobody has assessed it
  (`CreditFits`);
* `Apart`: two rounds assess different runs and read over different canaries. A round
  gets both only from launches of its own, and the channel it read may be long out of
  date: neither the credit nor the carry needs what was published since.

Two facts beside it are `TheGateAgrees`: what a round read of the records is what was
published when it began (`AudienceReads`), and a step adds at most one message, which is
an assessment only where a round posts its findings (`ChannelMoves`). A new assessment's
run is linked over what its round knew, so only an unknown twin refuses it; an old one
is accepted by its link alone (`AcceptedByLink`), so only a new twin takes it back.

A carry looks at the newest phase of its source only, and is right to: by `SayOneThing`
all of them say the same. The gate's own reading agrees with the rounds' because both
find a record by its number (`RecordsAreFound`).

### Helpers

What the proofs need of the operators is stated once as lemmas: what `Processed`,
`Finish`, `Act`, `StopAll` and the file writes leave; how the readings of a log (`Last`,
`Told`, `GateMovedBy`, `Kind`) change with a message appended. `Cycle` and `Watcher`
read "the latest" and "the first" of a set of places; that a nonempty set of natural
numbers has a least element comes from the library's theorem that `<` is well-founded,
and a greatest one from it where the set is bounded.

### What is only model-checked

* Liveness: `WorkIsDone`, `GateIsSurfaced`, `ResidentsFollowGate`, `DueIsServed`. The
  prover reasons neither about fairness nor about `ENABLED`.
* `AudienceTypeOK`, which no run lists: `AudienceIInv` carries what the proofs need of it.
* The other direction of the audience's two readings, that the gate accepts nothing the
  rounds would not publish.

## Plan

Modelled, checked and proved: every module above; every invariant and every action
property of a run has a theorem. What is left is breadth: the audience's claim map and
waivers, the second release of an install, the scheduler's delivery worker, the auth
service's two steps.

## Not modelled, and why

Text: rendering, prompts, checklists, report schemas, layout, wording, and the
validators of payload shape. Queries: search, ranking, metrics over a finished log.
Thin handlers: most MCP tools, web pages. Scripts: migrations, backups. They are pure
functions or pure input and output: no interleaving, no crash between two writes and no
order of calls matters to them. Auth is a read and a write each.

Inside the modelled parts: the watcher's stall alarms, refused configurations and
subprocess handling; the harness's subprocess tree and watchdogs; the audience's claim
map, waivers, phase retraction and mechanical report; the installer's adoption of a
configured space and a second release, space or configuration in one run; the
scheduler's delivery worker, NOTIFY and its limit of 100 jobs a tick; a reasoner's
budget truncation; shares and edges as proposals. `PROJECT.json` says so per component.
