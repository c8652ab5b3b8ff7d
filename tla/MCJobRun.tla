------------------------------ MODULE MCJobRun ------------------------------
(* JobRun for TLC: declarations that differ from a plain one in one thing,   *)
(* and the plans that tell the fence's rules apart.                          *)
EXTENDS JobRun

CONSTANTS n1, n2

Step(tool, node, args) == [tool |-> tool, node |-> node, args |-> args]
Survey == Step("recent", <<>>, "ok")

Plain == [agency |-> "reasoned", tools |-> <<Survey>>,
          predicate |-> [op |-> "none", node |-> <<>>], kind |-> "interval",
          writes |-> [sound |-> TRUE, types |-> {"Note"}],
          delivery |-> "none", budget |-> "fits"]

Asks(op, n) == [op |-> op, node |-> n]

MCRequests ==
  {Plain} \cup
  {[Plain EXCEPT !.tools = t] :
      t \in {<<>>, <<Step("get", <<n2>>, "ok")>>, <<Survey, Step("get", <<n1>>, "ok")>>,
             <<Step("search", <<>>, "late")>>, <<Step("search", <<>>, "bad")>>}} \cup
  {[Plain EXCEPT !.tools = <<>>, !.predicate = p] :
      p \in {Asks("exists", <<n1>>), Asks("absent", <<n2>>), Asks("malformed", <<>>)}} \cup
  {[Plain EXCEPT !.tools = <<>>, !.kind = "one_shot", !.delivery = "bot"],
   [Plain EXCEPT !.tools = <<>>, !.kind = "one_shot", !.predicate = Asks("exists", <<n1>>)],
   [Plain EXCEPT !.agency = "autonomous"]}

MCPatches ==
  {[Plain EXCEPT !.agency = "autonomous"],
   [Plain EXCEPT !.predicate = Asks("malformed", <<>>)],
   [Plain EXCEPT !.kind = "malformed"],
   [Plain EXCEPT !.budget = "malformed"],
   [Plain EXCEPT !.tools = <<>>, !.delivery = "malformed"],
   [Plain EXCEPT !.tools = <<>>, !.writes = [sound |-> FALSE, types |-> {}]]}

Write(op, type, node) == [op |-> op, type |-> type, node |-> node]
Plan(deliver, writes, elicit) == [deliver |-> deliver, writes |-> writes, elicit |-> elicit]

MCPlans ==
  {Plan(FALSE, <<>>, FALSE),
   Plan(TRUE, <<Write("update", "Note", <<n1>>)>>, FALSE),
   Plan(FALSE, <<Write("create", "Note", <<>>)>>, TRUE),
   Plan(FALSE, <<Write("create", "Task", <<>>)>>, FALSE),
   Plan(FALSE, <<Write("update", "Note", <<n2>>)>>, FALSE)}

Approval(kind, pins) == [kind |-> kind, judged |-> TRUE, pins |-> pins,
                         refs |-> {p[1] : p \in pins}, current |-> TRUE]

\* Of one node and of the pair, at each version; one that nobody judged, and one of the
\* pair that names one node only.
MCApprovals ==
  {Approval("oversized_ok", {<<n1, v>>}) : v \in {0, 1}} \cup
  {Approval("not_duplicates", {<<n1, v>>, <<n2, w>>}) : v, w \in {0, 1}} \cup
  {[Approval("oversized_ok", {<<n1, 0>>}) EXCEPT !.judged = FALSE],
   [Approval("not_duplicates", {<<n1, 0>>, <<n2, 0>>}) EXCEPT !.refs = {n1}]}

OfTarget == [origin |-> "target", shown |-> TRUE, live |-> TRUE, type |-> "Note", version |-> 0]

\* The second node is foreign and in sight or not, or of the job's space and another type.
MCGraphs ==
  {[n \in Nodes |-> IF n = n1 THEN OfTarget ELSE other] :
      other \in {[OfTarget EXCEPT !.origin = "other"],
                 [OfTarget EXCEPT !.origin = "other", !.shown = FALSE],
                 [OfTarget EXCEPT !.type = "Task"]}}

\* A setting or a graph is varied for the requests it matters to.
MCInit ==
  /\ Init
  /\ runtime = "ready" \/ request.delivery = "bot"
  /\ \/ graph = [n \in Nodes |-> IF n = n1 THEN OfTarget ELSE [OfTarget EXCEPT !.origin = "other"]]
     \/ \E k \in DOMAIN request.tools : request.tools[k].node = <<n2>>
     \/ request = [Plain EXCEPT !.tools = <<>>]

MCSpec == MCInit /\ [][Next]_vars

\* Nobody writes what nothing will read: an approval no survey asks for, or anything
\* after the last occurrence.
SomebodyReads ==
  edits' # edits =>
     /\ runs < MaxRuns \/ occ.stage # "idle"
     /\ ack' # ack => Survey \in {request.tools[k] : k \in DOMAIN request.tools}
=============================================================================
