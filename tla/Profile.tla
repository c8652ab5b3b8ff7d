------------------------------ MODULE Profile ------------------------------
(***************************************************************************)
(* The operator's profile (profile/service.py, the profile tools of        *)
(* mcp/tools.py, proposals.py): preferences as versioned graph nodes with a *)
(* marker that says which of them bind, a registry of domains that can be   *)
(* merged, and requests that are staged and applied later, by an approval.  *)
(*                                                                         *)
(* One account.  A request is one transaction; a refused request changes    *)
(* nothing, so a refusal is a guard.  What a preference says is named by     *)
(* its node and version.                                                    *)
(***************************************************************************)
EXTENDS Naturals, Sequences, FiniteSets, SequencesExt

CONSTANTS
    Domains,   \* domain keys
    Seeded,    \* INITIAL_DOMAINS: accepted from the bootstrap on
    Default,   \* the seeded domain that ships with a rule
    Projects,  \* project spaces
    Staged,    \* bound: the operations that are staged
    MaxNodes,  \* bound: preference nodes
    MaxSteps,  \* bound: requests, approvals and rejections
    MaxQueue   \* bound: staged proposals that wait

ASSUME ProfileAssumption ==
    /\ Seeded \subseteq Domains /\ Default \in Seeded
    /\ {MaxNodes, MaxSteps, MaxQueue} \subseteq Nat
    /\ "global" \notin Projects /\ Staged \subseteq {"write", "retire", "confirm", "domain"}

VARIABLES
    registry, \* ProfileDomain: its state and, of an alias, what it stands for
    nodes,    \* the preference nodes: current version and Core status
    entries,  \* ProfileEntry by node: the nodes that are profile preferences
    queue,    \* proposals that wait for the operator
    gone,     \* history: nodes that left the profile by a detach
    steps

store == <<nodes, entries>>
vars == <<registry, nodes, entries, queue, gone, steps>>

Scopes == {"global"} \cup Projects
Standings == {"member", "candidate", "parked", "rejected"}
NoBase == [node |-> 0, version |-> 0]

TypeOK ==
    /\ \A d \in Domains :
          /\ registry[d].state \in {"absent", "accepted", "pending", "rejected", "alias"}
          /\ (registry[d].state = "alias") = (registry[d].canonical # d)
    /\ \A n \in DOMAIN nodes :
          /\ nodes[n].version \in Nat \ {0}
          /\ nodes[n].status \in {"current", "provisional", "superseded", "rejected"}
    /\ DOMAIN entries \subseteq DOMAIN nodes
    /\ \A n \in DOMAIN entries :
          /\ entries[n].standing \in Standings /\ entries[n].scope \in Scopes
          /\ registry[entries[n].domain].state # "absent"
          /\ entries[n].base.node \in DOMAIN nodes \cup {0}
          /\ entries[n].standing \in {"member", "rejected"} => entries[n].base = NoBase
    /\ Cardinality(queue) <= MaxQueue /\ gone \subseteq DOMAIN nodes

\* seed_registry: the vocabulary, and the one rule it ships with.
Init ==
    /\ registry = [d \in Domains |->
                      [state |-> IF d \in Seeded THEN "accepted" ELSE "absent", canonical |-> d]]
    /\ nodes = <<[version |-> 1, status |-> "current"]>>
    /\ entries = [n \in {1} |-> [standing |-> "member", scope |-> "global", domain |-> Default,
                                 base |-> NoBase, validated |-> 1]]
    /\ queue = {} /\ gone = {} /\ steps = 0

-----------------------------------------------------------------------------
(* Resolution.  ns, es and reg are nodes, entries and the registry at some  *)
(* point of a transaction.                                                  *)

\* The key a request's domain stands for.
Canonical(d) == registry[d].canonical
Writable(d, new) ==
    CASE registry[d].state = "absent"   -> new
      [] registry[d].state = "rejected" -> FALSE
      [] OTHER -> TRUE

\* The entry of a slot, 0 for none.
Slot(es, scope, d, standing) ==
    LET found == {n \in DOMAIN es : /\ es[n].scope = scope /\ es[n].domain = d
                                    /\ es[n].standing = standing}
    IN  IF found = {} THEN 0 ELSE CHOOSE n \in found : TRUE

\* What compiles for a scope: binding, in an accepted domain, as validated.
MemberEntries(ns, es, reg, scope) ==
    {n \in DOMAIN es : /\ es[n].standing = "member" /\ es[n].scope \in {"global", scope}
                       /\ reg[es[n].domain].state = "accepted"
                       /\ es[n].validated = ns[n].version}

\* The rule in force in a domain: the project's before the global one.
Effective(ns, es, reg, scope, d) ==
    LET rules == {n \in MemberEntries(ns, es, reg, scope) : es[n].domain = d}
        own == {n \in rules : es[n].scope = scope}
    IN  IF rules = {} THEN 0
        ELSE IF own # {} THEN CHOOSE n \in own : TRUE ELSE CHOOSE n \in rules : TRUE

Named(es, n) == IF n = 0 THEN NoBase ELSE [node |-> n, version |-> es[n].validated]
ResolvedBase(ns, es, reg, scope, d) == Named(es, Effective(ns, es, reg, scope, d))

\* update_node: the version it appends, on the version the profile validated.
Updated(ns, n, status) ==
    [ns EXCEPT ![n] = [version |-> @.version + 1, status |-> status]]
Fresh(ns, es, n) == IF n = 0 THEN TRUE ELSE ns[n].version = es[n].validated

Without(es, n) == [m \in DOMAIN es \ {n} |-> es[m]]
Supersede(ns, n) == IF n = 0 THEN ns ELSE Updated(ns, n, "superseded")

-----------------------------------------------------------------------------
(* The requests.                                                            *)

\* write_preference: a statement binds and supersedes the pending inference,
\* an inference becomes a candidate and records the rule it was made against.
WritePreference(d, scope, inferred, new) ==
    LET key == Canonical(d)
        standing == IF inferred THEN "candidate" ELSE "member"
        status == IF inferred THEN "provisional" ELSE "current"
        old == Slot(entries, scope, key, standing)
        n == IF old # 0 THEN old ELSE Len(nodes) + 1
        ns == IF old # 0 THEN Updated(nodes, n, status)
              ELSE Append(nodes, [version |-> 1, status |-> status])
        reg == IF registry[d].state = "absent"
               THEN [registry EXCEPT ![d].state = "pending"] ELSE registry
        entry == [standing |-> standing, scope |-> scope, domain |-> key,
                  base |-> NoBase, validated |-> ns[n].version]
        es == [m \in DOMAIN entries \cup {n} |-> IF m = n THEN entry ELSE entries[m]]
        candidate == Slot(entries, scope, key, "candidate")
    IN  /\ Writable(d, new) /\ n <= MaxNodes
        /\ Fresh(nodes, entries, old)
        /\ registry' = reg
        /\ IF inferred
           THEN /\ nodes' = ns
                /\ entries' = [es EXCEPT ![n].base = ResolvedBase(ns, es, reg, scope, key)]
           ELSE /\ Fresh(nodes, entries, candidate)
                /\ nodes' = Supersede(ns, candidate)
                /\ entries' = Without(es, candidate)
        /\ UNCHANGED gone

RetirePreference(d, scope) ==
    LET member == Slot(entries, scope, Canonical(d), "member")
    IN  /\ Writable(d, FALSE) /\ member # 0 /\ Fresh(nodes, entries, member)
        /\ nodes' = Supersede(nodes, member)
        /\ entries' = Without(entries, member)
        /\ UNCHANGED <<registry, gone>>

\* current_slots, observed_slots: what stands where an entry would go.
Slots(n) ==
    LET of(standing) == Slot(entries, entries[n].scope, entries[n].domain, standing)
    IN  [member |-> Named(entries, of("member")), candidate |-> Named(entries, of("candidate"))]

\* _promote: n binds, what it displaces is superseded.
Promote(n) ==
    LET displaced == Slot(entries, entries[n].scope, entries[n].domain, "member")
        ns == Updated(Supersede(nodes, displaced), n, "current")
    IN  /\ Fresh(nodes, entries, displaced) /\ Fresh(nodes, entries, n)
        /\ nodes' = ns
        /\ entries' = [Without(entries, displaced) EXCEPT
               ![n] = [@ EXCEPT !.standing = "member", !.base = NoBase,
                                !.validated = ns[n].version]]
        /\ UNCHANGED gone

ConfirmCandidateAnyStanding(n) ==
    /\ entries[n].base =
           ResolvedBase(nodes, entries, registry, entries[n].scope, entries[n].domain)
    /\ Promote(n)

ConfirmCandidate(n) ==
    /\ entries[n].standing = "candidate"
    /\ entries[n].base =
           ResolvedBase(nodes, entries, registry, entries[n].scope, entries[n].domain)
    /\ Promote(n)

RejectCandidate(n) ==
    /\ entries[n].standing = "candidate" /\ Fresh(nodes, entries, n)
    /\ nodes' = Updated(nodes, n, "rejected")
    /\ entries' = [entries EXCEPT ![n] = [@ EXCEPT !.standing = "rejected", !.base = NoBase,
                                                   !.validated = nodes'[n].version]]
    /\ UNCHANGED gone

\* _dispose_parked's second disposition: back among the candidates.
Candidate(n) ==
    LET displaced == Slot(entries, entries[n].scope, entries[n].domain, "candidate")
    IN  /\ nodes[n].status = "provisional" /\ Fresh(nodes, entries, displaced)
        /\ nodes' = Supersede(nodes, displaced)
        /\ entries' = [Without(entries, displaced) EXCEPT ![n].standing = "candidate"]
        /\ UNCHANGED gone

Retire(n) ==
    /\ Fresh(nodes, entries, n)
    /\ nodes' = Supersede(nodes, n) /\ entries' = Without(entries, n)
    /\ UNCHANGED gone

Detach(n) ==
    /\ entries' = Without(entries, n) /\ gone' = gone \cup {n}
    /\ UNCHANGED nodes

\* _check_slot_snapshot, for a disposition that was prepared on a parked entry.
\* A snapshot is a set of one, or empty where none was taken.
SlotsUnmovedAlways(n, snapshot) == TRUE

SlotsUnmoved(n, snapshot) == snapshot \subseteq {Slots(n)}

DisposeParked(n, disposition, snapshot) ==
    /\ entries[n].standing = "parked" /\ SlotsUnmoved(n, snapshot)
    /\ CASE disposition = "promote_current"   -> Promote(n)
         [] disposition = "promote_candidate" -> Candidate(n)
         [] disposition = "retire"            -> Retire(n)
         [] disposition = "detach"            -> Detach(n)
         [] OTHER -> FALSE

\* A member is confirmed and a tombstone rejected already: nothing changes.
ConfirmPreference(n, disposition, snapshot) ==
    /\ n \in DOMAIN entries
    /\ \/ disposition = "none" /\ ConfirmCandidate(n)
       \/ disposition = "reject" /\ RejectCandidate(n)
       \/ DisposeParked(n, disposition, snapshot)
    /\ UNCHANGED registry

MergedUnparked(reg, target, acc, n) ==
    LET ns == Updated(acc.ns, n, acc.ns[n].status)
    IN  [ns |-> ns,
         es |-> [acc.es EXCEPT ![n] = [@ EXCEPT !.domain = target,
                                                !.validated = ns[n].version]]]

\* One entry of a merged domain: it moves as it stands, or is parked because
\* its slot is taken or its base is not what it was.
Merged(reg, target, acc, n) ==
    LET e == acc.es[n]
        slotFree == Slot(acc.es, e.scope, target, e.standing) = 0
        clean == CASE e.standing = "member" -> slotFree
                   [] e.standing = "candidate" ->
                        slotFree /\ e.base = ResolvedBase(acc.ns, acc.es, reg, e.scope, target)
                   [] OTHER -> TRUE
        ns == Updated(acc.ns, n, acc.ns[n].status)
    IN  [ns |-> ns,
         es |-> [acc.es EXCEPT ![n] =
                    [e EXCEPT !.domain = target, !.validated = ns[n].version,
                              !.standing = IF clean THEN e.standing ELSE "parked"]]]

\* The walk over the merged entries, one after the other.
MergedStore(reg, target, order) ==
    LET after[k \in 0 .. Len(order)] ==
            IF k = 0 THEN [ns |-> nodes, es |-> entries]
            ELSE Merged(reg, target, after[k - 1], order[k])
    IN  after[Len(order)]

\* The query returns the entries in any order.
Alias(d, target) ==
    LET reg == [registry EXCEPT ![d] = [state |-> "alias", canonical |-> target]]
        merged == {n \in DOMAIN entries : entries[n].domain = d}
    IN  /\ registry[d].state \in {"pending", "accepted"}
        /\ registry[target].state = "accepted" /\ target # d
        /\ \A n \in merged : Fresh(nodes, entries, n)
        /\ registry' = reg
        /\ \E order \in SetToSeqs(merged) :
              LET end == MergedStore(reg, target, order)
              IN  nodes' = end.ns /\ entries' = end.es
        /\ UNCHANGED gone

ResolveDomain(d, action, target) ==
    \/ action = "alias" /\ Alias(d, target)
    \/ /\ action \in {"accept", "reject"} /\ registry[d].state = "pending"
       /\ registry' = [registry EXCEPT
              ![d].state = IF action = "accept" THEN "accepted" ELSE "rejected"]
       /\ UNCHANGED <<store, gone>>

-----------------------------------------------------------------------------
(* Requests, applied at once or staged for an approval.                     *)

Dispositions == {"none", "reject", "promote_current", "promote_candidate", "retire", "detach"}
Requests ==
    [op : {"write"}, domain : Domains, scope : Scopes, inferred : BOOLEAN, new : BOOLEAN]
    \cup [op : {"retire"}, domain : Domains, scope : Scopes]
    \cup [op : {"confirm"}, node : DOMAIN entries, disposition : Dispositions]
    \cup [op : {"domain"}, domain : Domains, action : {"accept", "reject", "alias"},
          canonical : Domains]

\* What the tool checks before it asks the policy, and the payload it hands on:
\* the domain normalized, the slots of a parked entry observed.
Acceptable(r) ==
    CASE r.op = "write"  -> Writable(r.domain, r.new)
      [] r.op = "retire" -> Writable(r.domain, FALSE)
      [] OTHER -> TRUE
\* History: the slots and the rule in force when a confirmation was prepared.
Shown(n) ==
    [slots |-> Slots(n),
     rule |-> ResolvedBase(nodes, entries, registry, entries[n].scope, entries[n].domain)]
Payload(r) ==
    CASE r.op \in {"write", "retire"} -> [r EXCEPT !.domain = Canonical(@)]
      [] r.op = "confirm" ->
            [op |-> r.op, node |-> r.node, disposition |-> r.disposition,
             snapshot |-> IF entries[r.node].standing = "parked" THEN {Slots(r.node)} ELSE {},
             shown |-> Shown(r.node)]
      [] OTHER -> r

\* apply_proposal, and the direct path: the same calls.
Apply(r) ==
    \/ r.op = "write" /\ WritePreference(r.domain, r.scope, r.inferred, r.new)
    \/ r.op = "retire" /\ RetirePreference(r.domain, r.scope)
    \/ r.op = "confirm" /\ ConfirmPreference(r.node, r.disposition, r.snapshot)
    \/ r.op = "domain" /\ ResolveDomain(r.domain, r.action, r.canonical)

Step == steps < MaxSteps /\ steps' = steps + 1

\* A trusted client.
Request ==
    /\ Step
    /\ \E r \in Requests : Acceptable(r) /\ Apply(Payload(r))
    /\ UNCHANGED queue

\* A client of limited trust; a twin of a pending proposal is reused.
Stage ==
    /\ Step
    /\ \E r \in Requests :
          /\ r.op \in Staged
          /\ Acceptable(r) /\ queue' = queue \cup {Payload(r)}
          /\ Cardinality(queue') <= MaxQueue
    /\ UNCHANGED <<registry, store, gone>>

\* The operator approves; a proposal that cannot be applied stays pending.
Approve ==
    /\ Step
    /\ \E r \in queue : Apply(r) /\ queue' = queue \ {r}

Reject ==
    /\ Step
    /\ \E r \in queue : queue' = queue \ {r}
    /\ UNCHANGED <<registry, store, gone>>

Next == Request \/ Stage \/ Approve \/ Reject

Spec == Init /\ [][Next]_vars

-----------------------------------------------------------------------------
(* Properties.                                                              *)

\* No sequence of requests, and no merge, leaves two rules or two candidates in
\* one slot: the unique indexes of profile_entries never have to refuse.
SlotsUnique ==
    \A m, n \in DOMAIN entries :
        /\ entries[m].standing = entries[n].standing
        /\ entries[m].standing \in {"member", "candidate"}
        /\ entries[m].scope = entries[n].scope /\ entries[m].domain = entries[n].domain
        => m = n

\* The two axes agree: what binds is current and validated as it stands, a
\* superseded node has no marker, and a current or provisional one lost its
\* marker only by a detach.
AxesAgree ==
    \A n \in DOMAIN nodes :
        IF n \in DOMAIN entries
        THEN /\ entries[n].validated = nodes[n].version
             /\ nodes[n].status \in
                   CASE entries[n].standing = "member"    -> {"current"}
                     [] entries[n].standing = "candidate" -> {"provisional"}
                     [] entries[n].standing = "rejected"  -> {"rejected"}
                     [] OTHER -> {"current", "provisional"}
        ELSE nodes[n].status = "superseded" \/ n \in gone

\* The two together, for every entry at every moment: what the operator's profile
\* publishes is one validated rule per slot.
StandingsAgree == TypeOK /\ SlotsUnique /\ AxesAgree

\* A rejected candidate stays rejected: no later or staged request revives it.
TombstoneStands ==
    [][\A n \in DOMAIN entries : entries[n].standing = "rejected"
           => n \in DOMAIN entries' /\ entries'[n].standing = "rejected"
              /\ nodes'[n].status = "rejected"]_vars

\* A disposition approved while its entry is parked displaces only what stood in
\* its slots when the disposition was prepared.
DisplacesWhatWasShown ==
    [][\A r \in queue \ queue' :
           /\ r.op = "confirm" /\ r.snapshot # {}
           /\ r.node \in DOMAIN entries /\ entries[r.node].standing = "parked"
           =>
               \A n \in DOMAIN entries \ (DOMAIN entries' \cup {r.node}) :
                   Named(entries, n) \in {r.shown.slots.member, r.shown.slots.candidate}]_vars

\* "a newer member/candidate must never be displaced by an approval formed against
\* older state" (profile/service.py, _check_slot_snapshot): whatever was prepared on a
\* parked entry displaces only what it showed.
\* Refuted, see the README.
DisplacesOnlyShown ==
    [][\A r \in queue \ queue' :
           r.op = "confirm" /\ r.snapshot # {} =>
               \A n \in DOMAIN entries \ (DOMAIN entries' \cup {r.node}) :
                   Named(entries, n) \in {r.shown.slots.member, r.shown.slots.candidate}]_vars

\* "the effective rule changed since this confirmation was prepared - ask me to
\* prepare it again" (proposals.py): a confirmation applies to the rule it was
\* prepared against or not at all.
\* Refuted, see the README.
ConfirmedAgainstItsRule ==
    [][\A r \in queue \ queue' :
           r.op = "confirm" /\ r.disposition = "none" /\ entries' # entries =>
               r.shown.rule = Shown(r.node).rule]_vars

\* "alias -> its canonical key" (profile/service.py, normalize_domain): no rule
\* is written where the registry says that another key is meant.
\* Refuted, see the README.
MembersAreCanonical ==
    \A n \in DOMAIN entries :
        entries[n].standing = "member" => registry[entries[n].domain].state # "alias"
=============================================================================
