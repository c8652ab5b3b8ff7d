------------------------------- MODULE JobRun -------------------------------
(***************************************************************************)
(* One scheduled job from its authoring to what its occurrences leave      *)
(* (mcp/tools.py: create_scheduled_job; scheduler/runner.py, gather.py,    *)
(* plan.py, act.py).  Scheduler models how runners share jobs; here one    *)
(* runner works one job, and users change the job and the graph it reads.  *)
(*                                                                         *)
(* An occurrence is one transaction that waits twice: it reads the graph   *)
(* step by step, then waits for the reasoner.  A read sees what is         *)
(* committed by then: the session keeps the job it works on, not the nodes *)
(* it has rendered.  What the survey reads about one node is one step.     *)
(*                                                                         *)
(* The tool get stands for all that name a node, search for those that     *)
(* name none.  A value that may be absent is a sequence of at most one.    *)
(***************************************************************************)
EXTENDS Naturals, Sequences, FiniteSets

CONSTANTS
  Nodes,
  Acks,          \* notes that carry, or claim to carry, an approval of the operator
  Approvals,     \* what they may say: [kind, judged, pins, refs, current]
  Graphs,        \* the graphs a job may find: node -> NodeRow
  Registered,    \* the node types of the registry
  Requests,      \* what clients ask to schedule
  Patches,       \* what an update may turn a job's declaration into
  Plans,         \* what the reasoner may return
  Runtimes,      \* the server's settings, of {"ready", "no_bot", "off"}
  MaxRuns,       \* bound: occurrences claimed
  MaxEdits,      \* bound: requests of users
  MaxFaults      \* bound: crashes, and actions the database fails


VARIABLES
  runtime, request,
  graph,     \* node -> its committed row
  ack,       \* ack -> its record, or none
  staged,    \* a proposal to create the job waits for the operator
  job,       \* the committed row of the job, or none
  copy,      \* session -> the copy of that row it has loaded, or none
  occ,       \* the occurrence at work
  records,   \* history: occurrence -> the record committed with it, or none
  effects,   \* history: what committed occurrences wrote
  proved,    \* history: a dry run of the request got through its gather
  excuse,    \* history: what has changed since authoring looked
  runs, edits, faults

asked  == <<runtime, request>>
counts == <<runs, edits, faults>>
vars   == <<asked, graph, ack, staged, job, copy, occ, records, effects, proved, excuse, counts>>

Given(o) == o # <<>>
Value(o) == o[1]

\* origin is the space a node was created in; shown, whether the job's space refers to it.
NodeRow == [origin : {"target", "other"}, shown : BOOLEAN, live : BOOLEAN,
            type : Registered, version : Nat]

\* One tool call of a declaration.
Call == [tool : {"recent", "get", "search", "unknown"},
         node : {<<>>} \cup {<<n>> : n \in Nodes},
         args : {"ok", "late", "bad"}]

ASSUME JobRunAssumption ==
  /\ {MaxRuns, MaxEdits, MaxFaults} \subseteq Nat
  /\ Graphs \subseteq [Nodes -> NodeRow]
  /\ \A a \in Approvals : /\ DOMAIN a = {"kind", "judged", "pins", "refs", "current"}
                         /\ IsFiniteSet(a.pins) /\ a.refs \subseteq Nodes
  /\ \A d \in Requests : d.tools \in Seq(Call)
  /\ \A p \in Plans : p.writes \in Seq({p.writes[k] : k \in DOMAIN p.writes})

------------------------------------------------------------------------------
(* Declarations and what authoring makes of them                            *)

\* Access.get_node, scoped to the job's space.
Visible(n) == graph[n].live /\ graph[n].shown

\* NODE_REF_ARGS, leaf_node_ids
NodesOf(d) == {n \in Nodes : \/ d.predicate.node = <<n>>
                             \/ \E k \in DOMAIN d.tools : d.tools[k].node = <<n>>}

\* validate_gather_steps: "late" arguments pass it, and the tool raises on them.
StepsRefused(d) ==
  \E k \in DOMAIN d.tools : d.tools[k].tool = "unknown" \/ d.tools[k].args = "bad"

\* predicate.validate and the runner's limit on one-shot jobs.
PredicateFails(d) ==
  \/ d.predicate.op = "malformed"
  \/ d.predicate.op # "none" /\ d.kind = "one_shot"

\* _check_job_executability
NotExecutable(d, dry) ==
  \/ d.agency = "autonomous"
  \/ StepsRefused(d)
  \/ ~d.writes.sound
  \/ PredicateFails(d)
  \/ d.delivery = "malformed"
  \/ d.delivery = "bot" /\ runtime = "no_bot"
  \/ ~dry /\ runtime = "off"

\* Mutant: references are looked up in everything the caller may see.
AuthoringRefusesBroadly(d, dry) ==
  \/ NotExecutable(d, dry)
  \/ ~(d.writes.types \subseteq Registered)
  \/ \E n \in NodesOf(d) : ~graph[n].live
  \/ d.kind = "malformed"
  \/ d.budget = "malformed"

\* create_scheduled_job, up to its dry run and its gate; trigger and budget are looked
\* at when the properties are built.
AuthoringRefuses(d, dry) ==
  \/ NotExecutable(d, dry)
  \/ ~(d.writes.types \subseteq Registered)
  \/ \E n \in NodesOf(d) : ~Visible(n)
  \/ d.kind = "malformed"
  \/ d.budget = "malformed"

NewRow(d) == [decl |-> d, enabled |-> TRUE, next |-> "now"]

------------------------------------------------------------------------------
(* Approvals and the survey of recent changes                               *)

\* A version's id names its node.
Version(n) == <<n, graph[n].version>>

\* _ack_targets: the edges that lead to nodes in sight.
Targets(a) == {n \in a.refs : Visible(n)}

\* _is_valid_ack, _ack_pins; `judged`: a note, judged by the operator, with its scribe.
ValidAck(a) ==
  /\ a.judged
  /\ IF a.kind = "oversized_ok"
     THEN Cardinality(a.pins) = 1 /\ Cardinality(Targets(a)) = 1
     ELSE Cardinality(a.pins) = 2 /\ Targets(a) = {p[1] : p \in a.pins}

\* _incoming_acks
AcksOf(n) == {Value(ack[x]) : x \in {y \in Acks : /\ Given(ack[y])
                                                  /\ Value(ack[y]).current
                                                  /\ n \in Targets(Value(ack[y]))}}

\* Those that hold for n as it is now.
Matching(n, kind) == {a \in AcksOf(n) : ValidAck(a) /\ a.kind = kind /\ Version(n) \in a.pins}

Peers(n) == {p[1] : p \in UNION {a.pins : a \in Matching(n, "not_duplicates")}} \ {n}

\* _current_version: what this gather knows of a version, it does not read again.
CacheAfter(cache, n) ==
  [m \in Nodes |->
     CASE m = n                                              -> <<graph[n].version>>
       [] m \in Peers(n) /\ ~Given(cache[m]) /\ Visible(m)   -> <<graph[m].version>>
       [] OTHER                                              -> cache[m]]

\* _ack_flags, second half: the peers whose pin is the version this gather knows.
NotDuplicateOf(n, cache) ==
  {m \in Peers(n) : \E a \in Matching(n, "not_duplicates") :
                       Given(cache[m]) /\ <<m, Value(cache[m])>> \in a.pins}

\* What the survey tells the reasoner of one node.
Entry(n, cache) ==
  [node |-> n, version |-> graph[n].version,
   oversized |-> Matching(n, "oversized_ok") # {},
   apart |-> NotDuplicateOf(n, CacheAfter(cache, n))]

------------------------------------------------------------------------------
(* Plans and the fence                                                      *)

Delivery(op) == [op |-> op, type |-> "Delivery", node |-> <<>>]

\* canonical_actions
Actions(plan) ==
  (IF plan.deliver THEN <<Delivery("deliver")>> ELSE <<>>)
  \o plan.writes
  \o (IF plan.elicit THEN <<Delivery("elicit")>> ELSE <<>>)

\* Mutant: an update is judged by the type the plan gives for it.
OutsideFenceAsClaimed(w, types) ==
  \/ w.op \in {"create", "update"} /\ w.type \notin types
  \/ w.op = "update" /\ LET at == graph[Value(w.node)]
                        IN  ~at.live \/ at.origin # "target"

\* execute_actions, _fence_update_target: an update is judged by the node it names.
OutsideFence(w, types) ==
  \/ w.op = "create" /\ w.type \notin types
  \/ w.op = "update" /\ LET at == graph[Value(w.node)]
                        IN  ~at.live \/ at.origin # "target" \/ at.type \notin types

\* What one action writes: a node of the job's space, or the node it names.
Effect(run, k, w, types) ==
  LET at == IF w.op = "update" THEN graph[Value(w.node)]
                               ELSE [type |-> w.type, origin |-> "target"]
  IN  [run |-> run, action |-> k, op |-> w.op, node |-> w.node,
       type |-> at.type, origin |-> at.origin, fence |-> types]

\* Mutant: the actions run in the tick's own transaction.
LeftByKept(done, failed) == done

\* A failing action takes those before it along: they run in a savepoint.
LeftBy(done, failed) == IF failed THEN {} ELSE done

------------------------------------------------------------------------------
(* The occurrence                                                           *)

\* Mutant: the versions a gather has looked up serve the next one.
CacheAtStartKept == occ.cache

CacheAtStart == [n \in Nodes |-> <<>>]

NoGather == [step |-> 1, todo |-> {}, survey |-> {}, began |-> <<>>, granted |-> {}]
Idle(cache) == [stage |-> "idle", run |-> 0, gather |-> NoGather, cache |-> cache,
                row |-> <<>>, record |-> <<>>, wrote |-> {}]

\* What the occurrence works from is the copy its tick has loaded.
Decl == Value(copy["runner"]).decl

\* The approvals in force as the operator gave them.
InForce == {Value(ack[x]).pins : x \in {y \in Acks : /\ Given(ack[y])
                                                     /\ Value(ack[y]).judged
                                                     /\ Value(ack[y]).current}}

Failed(stage) == <<[stage |-> stage, actions |-> {}]>>

\* finish_job, with what advance says: an interval runs again, the rest is switched off.
FinishedRow(row, disable) ==
  IF disable THEN [row EXCEPT !.enabled = FALSE, !.next = "never"]
             ELSE [row EXCEPT !.next = "later"]

\* Row, record and writes wait for the commit.
Finish(run, record, wrote, disable) ==
  occ' = [Idle(occ.cache) EXCEPT !.stage = "finished", !.run = run, !.record = record,
                    !.wrote = wrote, !.row = <<FinishedRow(Value(copy["runner"]), disable)>>]

FinishExecuted(run, record, wrote) == Finish(run, record, wrote, Decl.kind = "one_shot")

PredicateHolds(d) ==
  CASE d.predicate.op = "exists" -> Visible(Value(d.predicate.node))
    [] d.predicate.op = "absent" -> ~Visible(Value(d.predicate.node))
    [] OTHER                     -> TRUE

------------------------------------------------------------------------------
Init ==
  /\ runtime \in Runtimes /\ request \in Requests /\ graph \in Graphs
  /\ ack = [a \in Acks |-> <<>>]
  /\ staged = FALSE /\ job = <<>>
  /\ copy = [s \in {"runner", "user"} |-> <<>>]
  /\ occ = Idle([n \in Nodes |-> <<>>])
  /\ records = [k \in 1 .. MaxRuns |-> <<>>]
  /\ effects = {} /\ proved = FALSE /\ excuse = {}
  /\ runs = 0 /\ edits = 0 /\ faults = 0

\* create_scheduled_job with dry_run: the gather as the job would run it, and the
\* reasoner; nothing is stored.
DryRun ==
  /\ ~Given(job) /\ ~staged /\ ~proved
  /\ ~AuthoringRefuses(request, TRUE)
  /\ \A k \in DOMAIN request.tools : request.tools[k].args = "ok"
  /\ proved' = TRUE
  /\ UNCHANGED <<asked, graph, ack, staged, job, copy, occ, records, effects, excuse, counts>>

\* create_scheduled_job: the policy lets it through, or stages it.
Create(stages) ==
  /\ ~Given(job) /\ ~staged
  /\ ~AuthoringRefuses(request, FALSE)
  /\ staged' = stages
  /\ job' = IF stages THEN <<>> ELSE <<NewRow(request)>>
  /\ UNCHANGED <<asked, graph, ack, copy, occ, records, effects, proved, excuse, counts>>

\* apply_proposal: the node is created as staged, with no second look.
Apply ==
  /\ staged
  /\ staged' = FALSE
  /\ job' = <<NewRow(request)>>
  /\ UNCHANGED <<asked, graph, ack, copy, occ, records, effects, proved, excuse, counts>>

\* Time passes; requests are short against it.
Elapse ==
  /\ Given(job) /\ Value(job).next = "later"
  /\ occ.stage = "idle" /\ ~Given(copy["user"])
  /\ job' = <<[Value(job) EXCEPT !.next = "now"]>>
  /\ UNCHANGED <<asked, graph, ack, staged, copy, occ, records, effects, proved, excuse, counts>>

\* tick: the job is due, and loaded.
StartTick ==
  /\ occ.stage = "idle" /\ runs < MaxRuns
  /\ Given(job) /\ Value(job).enabled /\ Value(job).next = "now"
  /\ copy' = [copy EXCEPT !["runner"] = job]
  /\ occ' = [occ EXCEPT !.stage = "loaded"]
  /\ UNCHANGED <<asked, graph, ack, staged, job, records, effects, proved, excuse, counts>>

\* _process and execute up to their first wait.
Claim ==
  /\ occ.stage = "loaded"
  /\ runs' = runs + 1
  /\ \/ /\ PredicateFails(Decl)
        /\ Finish(runs', Failed("predicate"), {}, TRUE)
     \/ /\ ~PredicateFails(Decl) /\ Decl.kind = "malformed"
        /\ Finish(runs', Failed("advance"), {}, TRUE)
     \/ /\ ~PredicateFails(Decl) /\ Decl.kind # "malformed"
        /\ \/ /\ ~PredicateHolds(Decl)
              /\ FinishExecuted(runs', <<>>, {})
           \/ /\ PredicateHolds(Decl) /\ Decl.agency = "autonomous"
              /\ FinishExecuted(runs', Failed("agency"), {})
           \/ /\ PredicateHolds(Decl) /\ Decl.agency # "autonomous"
              /\ Decl.tools # <<>>
              /\ StepsRefused(Decl) \/ Decl.budget = "malformed"
              /\ FinishExecuted(runs', Failed("gather"), {})
           \/ /\ PredicateHolds(Decl) /\ Decl.agency # "autonomous"
              /\ Decl.tools # <<>> => ~StepsRefused(Decl) /\ Decl.budget # "malformed"
              /\ occ' = [occ EXCEPT !.run = runs', !.cache = CacheAtStart,
                                    !.stage = IF Decl.tools = <<>> THEN "reasoning" ELSE "gathering",
                                    !.gather.began = [n \in Nodes |-> graph[n].version],
                                    !.gather.granted = InForce]
  /\ UNCHANGED <<asked, graph, ack, staged, job, copy, records, effects, proved, excuse,
                 edits, faults>>

inGather == <<asked, graph, ack, staged, job, copy, records, effects, proved, excuse, counts>>

\* run_steps: the next tool.  recent_nodes_context lists what has changed first.
GatherStep ==
  LET step == Decl.tools[occ.gather.step]
      Sees == step.args = "ok" /\ (Given(step.node) => Visible(Value(step.node)))
  IN  /\ occ.stage = "gathering" /\ occ.gather.todo = {}
      /\ occ.gather.step <= Len(Decl.tools)
      /\ \/ ~Sees /\ FinishExecuted(occ.run, Failed("gather"), {})
         \/ /\ Sees
            /\ occ' = [occ EXCEPT !.gather.step = @ + 1,
                          !.gather.todo = IF step.tool = "recent" THEN {n \in Nodes : Visible(n)}
                                                                  ELSE {}]
      /\ UNCHANGED inGather

\* recent_nodes_context: one changed node and the approvals about it.  One that has
\* gone since the list was made fails the gather.
SurveyRead(n) ==
  /\ occ.stage = "gathering" /\ n \in occ.gather.todo
  /\ \/ ~Visible(n) /\ FinishExecuted(occ.run, Failed("gather"), {})
     \/ /\ Visible(n)
        /\ occ' = [occ EXCEPT !.gather.todo = @ \ {n}, !.cache = CacheAfter(@, n),
                              !.gather.survey = @ \cup {Entry(n, occ.cache)}]
  /\ UNCHANGED inGather

AskReasoner ==
  /\ occ.stage = "gathering" /\ occ.gather.todo = {}
  /\ occ.gather.step > Len(Decl.tools)
  /\ occ' = [occ EXCEPT !.stage = "reasoning"]
  /\ UNCHANGED inGather

\* The reasoner fails, or returns what validate_final_plan refuses.
BadAnswer(stage) ==
  /\ occ.stage = "reasoning"
  /\ FinishExecuted(occ.run, Failed(stage), {})
  /\ UNCHANGED inGather

\* execute_actions: all is looked at before the first action runs.
RefusedAt(acts) ==
  CASE acts = <<>>                                                      -> "none"
    [] acts # <<>> /\ Decl.delivery = "malformed"                       -> "delivery"
    [] /\ acts # <<>> /\ Decl.delivery # "malformed"
       /\ \/ ~Decl.writes.sound
          \/ \E k \in DOMAIN acts : OutsideFence(acts[k], Decl.writes.types) -> "fence"
    [] OTHER                                                            -> "none"

\* execute, after the answer; the database may fail any action.
Act(plan, failing) ==
  LET acts == Actions(plan)
      refused == RefusedAt(acts)
      Written(S) == {Effect(occ.run, k, acts[k], Decl.writes.types) : k \in S}
  IN  /\ occ.stage = "reasoning"
      /\ \/ /\ refused # "none" /\ failing = 0
            /\ FinishExecuted(occ.run, Failed(refused), {})
            /\ UNCHANGED faults
         \/ /\ refused = "none" /\ failing = 0
            /\ FinishExecuted(occ.run,
                 <<[stage |-> "done", actions |-> {<<k, acts[k].op>> : k \in DOMAIN acts}]>>,
                 LeftBy(Written(DOMAIN acts), FALSE))
            /\ UNCHANGED faults
         \/ /\ refused = "none" /\ failing \in DOMAIN acts /\ faults < MaxFaults
            /\ FinishExecuted(occ.run, Failed("act"), LeftBy(Written(1 .. failing - 1), TRUE))
            /\ faults' = faults + 1
      /\ UNCHANGED <<asked, graph, ack, staged, job, copy, records, effects, proved, excuse,
                     runs, edits>>

\* The tick's transaction ends.
Commit ==
  /\ occ.stage = "finished"
  /\ job' = occ.row
  /\ records' = [records EXCEPT ![occ.run] = occ.record]
  /\ effects' = effects \cup occ.wrote
  /\ graph' = [n \in Nodes |->
        [graph[n] EXCEPT !.version = @ + Cardinality({e \in occ.wrote : e.node = <<n>>})]]
  /\ copy' = [copy EXCEPT !["runner"] = <<>>]
  /\ occ' = Idle(occ.cache)
  /\ UNCHANGED <<asked, ack, staged, proved, excuse, counts>>

\* The process dies, or a statement outside the savepoint fails.
Crash ==
  /\ occ.stage # "idle" /\ faults < MaxFaults
  /\ faults' = faults + 1
  /\ copy' = [copy EXCEPT !["runner"] = <<>>]
  /\ occ' = Idle(occ.cache)
  /\ UNCHANGED <<asked, graph, ack, staged, job, records, effects, proved, excuse, runs, edits>>

------------------------------------------------------------------------------
(* Users                                                                    *)

Edit == edits < MaxEdits /\ edits' = edits + 1

\* A row the occurrence has written is locked until it commits.
Writable(n) == graph[n].live /\ ~\E e \in occ.wrote : e.node = <<n>>

EditNode(n) ==
  /\ Edit /\ Writable(n)
  /\ graph' = [graph EXCEPT ![n].version = @ + 1]
  /\ UNCHANGED <<asked, ack, staged, job, copy, occ, records, effects, proved, excuse, runs, faults>>

\* A node is unshared from the job's space, or deleted.
Hide(n, deleted) ==
  /\ Edit /\ Writable(n) /\ Visible(n)
  /\ graph' = [graph EXCEPT ![n].shown = FALSE, ![n].live = ~deleted]
  /\ excuse' = IF (staged \/ Given(job)) /\ (n \in NodesOf(request) \/ occ.stage = "gathering")
               THEN excuse \cup {"hidden"} ELSE excuse
  /\ UNCHANGED <<asked, ack, staged, job, copy, occ, records, effects, proved, runs, faults>>

\* The operator, or somebody in his name, records an approval of versions he has seen: a
\* note and its references, in one step.
WriteAck(x, claim) ==
  /\ Edit
  /\ \A p \in claim.pins : p[2] <= graph[p[1]].version
  /\ ack' = [ack EXCEPT ![x] = <<claim>>]
  /\ occ' = IF claim.judged /\ occ.stage = "gathering"
            THEN [occ EXCEPT !.gather.granted = @ \cup {claim.pins}] ELSE occ
  /\ UNCHANGED <<asked, graph, staged, job, copy, records, effects, proved, excuse, runs, faults>>

WithdrawAck(x) ==
  /\ Edit /\ Given(ack[x])
  /\ ack' = [ack EXCEPT ![x] = <<[Value(@) EXCEPT !.current = FALSE]>>]
  /\ UNCHANGED <<asked, graph, staged, job, copy, occ, records, effects, proved, excuse, runs,
                 faults>>

\* A request loads the job, and later writes its copy back with one thing changed; once
\* the occurrence has claimed the row, it waits for the commit.
ReadJob ==
  /\ Edit /\ Given(job) /\ ~Given(copy["user"])
  /\ copy' = [copy EXCEPT !["user"] = job]
  /\ UNCHANGED <<asked, graph, ack, staged, job, occ, records, effects, proved, excuse, runs, faults>>

WriteJob(row, why) ==
  /\ Given(copy["user"]) /\ occ.stage \in {"idle", "loaded"}
  /\ job' = <<row>>
  /\ copy' = [copy EXCEPT !["user"] = <<>>]
  /\ excuse' = excuse \cup why
  /\ UNCHANGED <<asked, graph, ack, staged, occ, records, effects, proved, counts>>

\* set_scheduled_job_enabled, where it is applied at once; staged, it carries no version
\* and cannot be applied.
SetEnabled == Given(copy["user"]) /\ \E on \in BOOLEAN :
                 WriteJob([Value(copy["user"]) EXCEPT !.enabled = on], {})

\* update_node takes any properties for a job.
PatchJob == Given(copy["user"]) /\ \E d \in Patches :
               WriteJob([Value(copy["user"]) EXCEPT !.decl = d], {"patched"})

User ==
  \/ \E n \in Nodes : EditNode(n) \/ \E deleted \in BOOLEAN : Hide(n, deleted)
  \/ \E x \in Acks : WithdrawAck(x) \/ \E claim \in Approvals : WriteAck(x, claim)
  \/ ReadJob \/ SetEnabled \/ PatchJob

Next ==
  \/ DryRun \/ (\E stages \in BOOLEAN : Create(stages)) \/ Apply \/ Elapse
  \/ StartTick \/ Claim \/ GatherStep \/ (\E n \in Nodes : SurveyRead(n)) \/ AskReasoner
  \/ \E stage \in {"reason", "plan"} : BadAnswer(stage)
  \/ \E plan \in Plans : \E failing \in 0 .. Len(Actions(plan)) : Act(plan, failing)
  \/ Commit \/ Crash
  \/ User

Spec == Init /\ [][Next]_vars

------------------------------------------------------------------------------
\* tools.py, _check_job_executability: "catching it here beats burning occurrences".
\* A job that was let in fails at none of its own stages -- the scheduler can run it,
\* finds its nodes and can deliver -- as long as nothing it names has gone and nobody
\* has patched it.  What authoring cannot see is an argument the tool alone refuses;
\* there a dry run would have told.
ExecutableAsAccepted ==
  \A k \in 1 .. MaxRuns :
     Given(records[k])
     /\ Value(records[k]).stage \in {"agency", "predicate", "advance", "gather", "delivery"}
     => \/ excuse # {}
        \/ /\ Value(records[k]).stage = "gather" /\ ~proved
           /\ \E i \in DOMAIN request.tools : request.tools[i].args = "late"

\* runner.py: an occurrence's record and its writes are one.  What a committed record
\* lists as executed is what the occurrence left in the graph, and an occurrence that
\* failed, at whatever action, or left no record, has left nothing.
RecordIsTrue ==
  \A k \in 1 .. MaxRuns :
     {<<e.action, e.op>> : e \in {f \in effects : f.run = k}}
       = IF Given(records[k]) THEN Value(records[k]).actions ELSE {}

\* act.py: whatever a plan claims of itself, what it has written to the graph is of a
\* type the fence of the declaration allows, and in the job's own space.
WritesStayInFence ==
  \A e \in effects : e.op \in {"create", "update"} => e.type \in e.fence /\ e.origin = "target"

\* gather.py, _ack_flags: an approval vouches for the versions its operator saw.  A
\* node read as "approved" was approved at the version the reasoner is shown, and a
\* pair held apart at that version and one of the other node that was current at some
\* time of this gather.
ApprovalHolds ==
  \A e \in occ.gather.survey :
     /\ e.oversized => {<<e.node, e.version>>} \in occ.gather.granted
     /\ \A m \in e.apart : \E pins \in occ.gather.granted :
           /\ <<e.node, e.version>> \in pins
           /\ \E p \in pins : p[1] = m /\ p[2] >= occ.gather.began[m]
=============================================================================
