------------------------------ MODULE Scheduler ------------------------------
(***************************************************************************)
(* The scheduler over the graph store (scheduler/runner.py, repository.py, *)
(* job.py; repository/graph.py): runners that claim, run and advance the   *)
(* jobs that are due.  What one occurrence does, and the users who change  *)
(* the same job, is module JobRun's.                                       *)
(*                                                                         *)
(* A job is a graph node.  A runner's tick is one database transaction: it *)
(* loads every due job when it starts, works them off one by one, and      *)
(* commits all of it -- rows, versions, deliveries -- at the end.  A write *)
(* takes the row's lock until its transaction ends; a read sees committed  *)
(* rows and is kept in the session, which does not read a node twice.      *)
(*                                                                         *)
(* update_node's compare-and-set compares the caller's version with that   *)
(* kept copy.  The callers here pass the version of the copy itself, so    *)
(* the check passes, and the UPDATE names no version.  What the row's      *)
(* version would have told is kept in `behind`.                            *)
(***************************************************************************)
EXTENDS Naturals, FiniteSets

CONSTANTS
    Jobs, Runners,
    Triggers,    \* the triggers jobs of this instance have, of AllTriggers
    Gates,       \* and their predicates, of AllGates
    Lease,       \* how long a claim keeps a job from being due
    MaxTime,     \* bound: the clock
    MaxFailures  \* bound: ticks that end in a database failure or a crash

\* broken cannot be advanced and says so; overflow raises what nobody catches.
AllTriggers == {"one_shot", "interval", "broken", "overflow", "unsupported"}
AllGates == {"none", "predicate", "malformed"}

ASSUME SchedulerAssumption ==
    /\ {Lease, MaxTime, MaxFailures} \subseteq Nat
    /\ Lease > 0
    /\ Triggers \subseteq AllTriggers /\ Gates \subseteq AllGates

Times == 0 .. MaxTime + 1
Never == MaxTime + 2   \* a null timestamp: later than any bound of a query

Row == [enabled : BOOLEAN, next : Times \cup {Never}, claimed : Times \cup {Never}]

VARIABLES
    trigger, gated, \* what each job's trigger and predicate are
    row,       \* the committed rows
    now,
    started,   \* when a runner's tick started, Never between ticks
    todo,      \* jobs a runner's session has loaded and not worked off
    written,   \* jobs its open transaction has written, their locks held
    copies,      \* its copies of the rows it loaded
    ran,       \* occurrences delivered in its open transaction
    behind,    \* copies whose row somebody else has replaced since
    delivered, \* history: how often each occurrence was delivered, up to 2
    overwrote, \* history: somebody's committed write was lost
    failures

fixedVars == <<trigger, gated>>
sessionVars == <<todo, written, copies, behind>>
schedulerVars == <<fixedVars, row, now, started, sessionVars, ran, delivered, overwrote,
                   failures>>

------------------------------------------------------------------------------
NoRow == [enabled |-> FALSE, next |-> Never, claimed |-> Never]

Loaded(s) == todo[s] \cup written[s]

\* due_jobs: enabled, its time has come, not under a claim that is still young.
DueJobs ==
    {j \in Jobs : /\ row[j].enabled
                  /\ row[j].next <= now
                  /\ row[j].claimed = Never \/ row[j].claimed + Lease <= now}

\* The session loads rows, in one statement.
Load(s, S) ==
    /\ todo' = [todo EXCEPT ![s] = S]
    /\ copies' = [copies EXCEPT ![s] = [j \in Jobs |-> IF j \in S THEN row[j] ELSE NoRow]]

\* The transaction ends and its session with it.
Forget(s) ==
    /\ todo' = [todo EXCEPT ![s] = {}]
    /\ written' = [written EXCEPT ![s] = {}]
    /\ copies' = [copies EXCEPT ![s] = [j \in Jobs |-> NoRow]]

\* An UPDATE waits for the row's lock.
CanWrite(s, j) == \A t \in Runners \ {s} : j \notin written[t]

\* The copies other sessions hold of S are behind now; s holds none any more.
Outdate(s, S) ==
    behind' = [t \in Runners |-> IF t = s THEN {} ELSE behind[t] \cup (S \cap Loaded(t))]

\* Mutant: the next run is reckoned to the instant just served.
AdvanceInPlace(j, t) ==
    CASE trigger[j] = "interval" -> [next |-> t, disable |-> FALSE]
      [] OTHER                   -> [next |-> Never, disable |-> TRUE]

\* ScheduledJob.advance, where it returns.
Advance(j, t) ==
    CASE trigger[j] = "interval" -> [next |-> t + 1, disable |-> FALSE]
      [] OTHER                   -> [next |-> Never, disable |-> TRUE]

\* Mutant: the occurrence is recorded and the claim is kept.
FinishedKeepingClaim(r, next, disable) ==
    [enabled |-> r.enabled /\ ~disable, next |-> next, claimed |-> r.claimed]

\* finish_job.
Finished(r, next, disable) ==
    [enabled |-> r.enabled /\ ~disable, next |-> next, claimed |-> Never]

\* What a predicate raises on at every occurrence; no one-shot may have one.
JobPredicateFails(j) ==
    \/ gated[j] = "malformed"
    \/ gated[j] # "none" /\ trigger[j] = "one_shot"

\* Mutant: a job whose predicate raises is left as it is.
ProcessedLeavingMalformed(j, r, t) ==
    LET claimed == [r EXCEPT !.claimed = t] IN
    CASE JobPredicateFails(j)                                -> r
      [] ~JobPredicateFails(j) /\ trigger[j] = "broken"      -> Finished(claimed, Never, TRUE)
      [] ~JobPredicateFails(j) /\ trigger[j] = "overflow"    -> claimed
      [] OTHER -> Finished(claimed, Advance(j, t).next, Advance(j, t).disable)

\* The row _process leaves: claimed, then finished -- with the next run, or
\* disabled where predicate or trigger can never work.  An exception nobody
\* expected leaves the claim.
Processed(j, r, t) ==
    LET claimed == [r EXCEPT !.claimed = t] IN
    CASE JobPredicateFails(j)                                -> Finished(claimed, Never, TRUE)
      [] ~JobPredicateFails(j) /\ trigger[j] = "broken"      -> Finished(claimed, Never, TRUE)
      [] ~JobPredicateFails(j) /\ trigger[j] = "overflow"    -> claimed
      [] OTHER -> Finished(claimed, Advance(j, t).next, Advance(j, t).disable)

\* May the occurrence act?  Only past a predicate and a trigger that work, and
\* where the predicate, if there is one, holds.
MayAct(j) == ~JobPredicateFails(j) /\ trigger[j] \in {"one_shot", "interval"}

------------------------------------------------------------------------------
\* Authoring refuses a trigger it cannot schedule; what is persisted otherwise
\* is some job, due at the start or later.
SchedulerInit ==
    /\ trigger \in [Jobs -> Triggers]
    /\ gated \in [Jobs -> Gates]
    /\ now = 0
    /\ row \in [Jobs -> [enabled : {TRUE}, next : {0, 1}, claimed : {Never}]]
    /\ started = [r \in Runners |-> Never]
    /\ todo = [s \in Runners |-> {}]
    /\ written = [s \in Runners |-> {}]
    /\ copies = [s \in Runners |-> [j \in Jobs |-> NoRow]]
    /\ ran = [r \in Runners |-> {}]
    /\ behind = [s \in Runners |-> {}]
    /\ delivered = [o \in Jobs \X Times |-> 0]
    /\ overwrote = FALSE
    /\ failures = 0

Clock ==
    /\ now < MaxTime
    /\ now' = now + 1
    /\ UNCHANGED <<fixedVars, row, started, sessionVars, ran, delivered, overwrote,
                   failures>>

\* tick: one query for everything that is due.  A tick that finds nothing
\* changes nothing.
BeginTick(r) ==
    /\ started[r] = Never
    /\ DueJobs # {}
    /\ started' = [started EXCEPT ![r] = now]
    /\ Load(r, DueJobs)
    /\ UNCHANGED <<fixedVars, row, now, written, behind, ran, delivered, overwrote,
                   failures>>

\* _process and execute on one loaded job: claim, act, finish, all in the
\* tick's transaction.  A gather, reasoner, plan, fence or action that fails is
\* rolled back to its savepoint and finished like a run.
Process(r, j, acts) ==
    /\ j \in todo[r]
    /\ trigger[j] # "unsupported"
    /\ CanWrite(r, j)
    /\ acts => MayAct(j)
    /\ todo' = [todo EXCEPT ![r] = @ \ {j}]
    /\ written' = [written EXCEPT ![r] = @ \cup {j}]
    /\ copies' = [copies EXCEPT ![r][j] = Processed(j, @, started[r])]
    /\ ran' = IF acts THEN [ran EXCEPT ![r] = @ \cup {<<j, copies[r][j].next>>}] ELSE ran
    /\ overwrote' = (overwrote \/ j \in behind[r])
    /\ UNCHANGED <<fixedVars, row, now, started, behind, delivered, failures>>

Skip(r, j) ==
    /\ j \in todo[r]
    /\ trigger[j] = "unsupported"
    /\ todo' = [todo EXCEPT ![r] = @ \ {j}]
    /\ copies' = [copies EXCEPT ![r][j] = NoRow]
    /\ behind' = [behind EXCEPT ![r] = @ \ {j}]
    /\ UNCHANGED <<fixedVars, row, now, started, written, ran, delivered, overwrote,
                   failures>>

\* The tick ends: everything it wrote becomes visible at once.
CommitTick(r) ==
    /\ started[r] # Never
    /\ todo[r] = {}
    /\ row' = [j \in Jobs |-> IF j \in written[r] THEN copies[r][j] ELSE row[j]]
    /\ delivered' = [o \in Jobs \X Times |->
                       IF o \in ran[r] /\ delivered[o] < 2 THEN delivered[o] + 1
                                                           ELSE delivered[o]]
    /\ Forget(r)
    /\ Outdate(r, written[r])
    /\ started' = [started EXCEPT ![r] = Never]
    /\ ran' = [ran EXCEPT ![r] = {}]
    /\ UNCHANGED <<fixedVars, now, overwrote, failures>>

\* The tick raises: its session is left, and the loop sleeps and starts over.
Rollback(r) ==
    /\ started[r] # Never
    /\ Forget(r)
    /\ behind' = [behind EXCEPT ![r] = {}]
    /\ started' = [started EXCEPT ![r] = Never]
    /\ ran' = [ran EXCEPT ![r] = {}]
    /\ UNCHANGED <<fixedVars, row, now, delivered, overwrote>>

\* The process dies, or a statement outside the savepoint fails: the session
\* takes no further statement and nothing of the tick is kept.
FailTick(r) ==
    /\ failures < MaxFailures
    /\ failures' = failures + 1
    /\ Rollback(r)

\* Two ticks wait for each other's rows: the database fails one of them.
MayWaitFor(r, s) == todo[r] \cap written[s] # {}

BreakDeadlock(r) ==
    /\ \E s \in Runners \ {r} : MayWaitFor(r, s) /\ MayWaitFor(s, r)
    /\ Rollback(r)
    /\ UNCHANGED failures

SchedulerNext ==
    \/ Clock
    \/ \E r \in Runners :
          \/ BeginTick(r)
          \/ \E j \in Jobs : Skip(r, j) \/ \E acts \in BOOLEAN : Process(r, j, acts)
          \/ CommitTick(r)
          \/ FailTick(r)
          \/ BreakDeadlock(r)

\* The runner's loop: it wakes at the latest after the rescan interval, takes
\* the loaded jobs in turn and commits.
TickStep(r) ==
    \/ BeginTick(r)
    \/ \E j \in Jobs : Skip(r, j) \/ \E acts \in BOOLEAN : Process(r, j, acts)
    \/ CommitTick(r)
    \/ BreakDeadlock(r)

\* The database queues those who wait for a row: a write that waits gets its turn.
Fairness ==
    /\ \A r \in Runners : WF_schedulerVars(TickStep(r))
    /\ \A r \in Runners, j \in Jobs : SF_schedulerVars(\E acts \in BOOLEAN : Process(r, j, acts))

SchedulerSpec == SchedulerInit /\ [][SchedulerNext]_schedulerVars /\ Fairness

------------------------------------------------------------------------------
TypeOK ==
    /\ row \in [Jobs -> Row]
    /\ now \in 0 .. MaxTime
    /\ started \in [Runners -> Times \cup {Never}]
    /\ \A s \in Runners : /\ todo[s] \subseteq Jobs /\ written[s] \subseteq Jobs
                           /\ copies[s] \in [Jobs -> Row]
                           /\ behind[s] \subseteq Loaded(s)
    /\ \A s, t \in Runners : s # t => written[s] \cap written[t] = {}
    /\ \A r \in Runners : started[r] = Never => Loaded(r) = {}

\* An occurrence acts once, whatever tick is rolled back after it and whoever
\* claims the job next: claim, action and finish are one transaction, and nothing
\* but a write that replaces one its writer has not seen can deliver it twice.
OccurrenceOnce == ~overwrote => \A o \in Jobs \X Times : delivered[o] < 2

\* _process: whatever is wrong with a job's data, its occurrence is "finished
\* with a durable record".  No committed row holds a claim, so no job is claimed
\* again at every lease without a record.  It fails where advance raises what is
\* not caught (trigger "overflow").
ClaimsEnd == \A j \in Jobs : row[j].claimed = Never

IsDue(j) == row[j].enabled /\ row[j].next <= now /\ trigger[j] # "unsupported"

\* The runner's loop: a job that is due is served or switched off in the end.
\* Failing ticks, deadlocks of runners, lost writes and bad data put it off only.
DueIsServed == \A j \in Jobs : IsDue(j) ~> ~IsDue(j)

\* update_node's docstring, "CAS on expected_version": no write replaces a
\* version its writer has not seen.
\* Refuted, see the README.
WritesCompareAndSet == ~overwrote
=============================================================================
