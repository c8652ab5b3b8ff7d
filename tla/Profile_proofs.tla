--------------------------- MODULE Profile_proofs ---------------------------
(***************************************************************************)
(* Theorems about the operator's profile, for any domains and projects and *)
(* any bounds.                                                             *)
(***************************************************************************)
EXTENDS Profile, FiniteSetTheorems, WellFoundedInduction, TLAPS

------------------------------------------------------------------------------
(* The inductive invariant. *)

States == {"absent", "accepted", "pending", "rejected", "alias"}
NodeRows == [version : Nat \ {0}, status : {"current", "provisional", "superseded", "rejected"}]
Bases == [node : Nat, version : Nat]
EntryRows == [standing : Standings, scope : Scopes, domain : Domains, base : Bases,
              validated : Nat]

\* An alias stands for a key that is in the registry.
RegistryOK(reg) ==
    /\ reg \in [Domains -> [state : States, canonical : Domains]]
    /\ \A d \in Domains :
          /\ (reg[d].state = "alias") = (reg[d].canonical # d)
          /\ reg[d].state = "alias" => reg[reg[d].canonical].state # "absent"

\* What an entry's standing says of its node.
Fit(row, e) ==
    /\ e.validated = row.version
    /\ row.status \in CASE e.standing = "member"    -> {"current"}
                        [] e.standing = "candidate" -> {"provisional"}
                        [] e.standing = "rejected"  -> {"rejected"}
                        [] OTHER -> {"current", "provisional"}
    /\ e.standing \in {"member", "rejected"} => e.base = NoBase

\* Two entries that the unique indexes do not let stand together.
Clash(e, f) ==
    /\ e.standing = f.standing /\ e.standing \in {"member", "candidate"}
    /\ e.scope = f.scope /\ e.domain = f.domain

\* Every entry fits its node, alone in its slot, and no node lost its marker unseen.
StoreOK(ns, es, reg, lost) ==
    /\ ns \in Seq(NodeRows) /\ lost \subseteq DOMAIN ns
    /\ DOMAIN es \subseteq DOMAIN ns /\ es \in [DOMAIN es -> EntryRows]
    /\ \A n \in DOMAIN es : /\ Fit(ns[n], es[n]) /\ reg[es[n].domain].state # "absent"
                            /\ es[n].base.node \in DOMAIN ns \cup {0}
    /\ \A m, n \in DOMAIN es : Clash(es[m], es[n]) => m = n
    /\ \A n \in DOMAIN ns \ DOMAIN es : ns[n].status = "superseded" \/ n \in lost

\* A payload that waits; what it pins is what it showed.
Payloads(r) ==
    /\ r.op \in {"write", "retire", "domain"} => r.domain \in Domains
    /\ r.op \in {"write", "retire"} => r.scope \in Scopes
    /\ r.op = "write" => r.inferred \in BOOLEAN
    /\ r.op = "domain" => r.canonical \in Domains
    /\ r.op = "confirm" => r.snapshot \subseteq {r.shown.slots}

QueueOK ==
    /\ IsFiniteSet(queue) /\ Cardinality(queue) <= MaxQueue
    /\ \A r \in queue : Payloads(r)

IInv == RegistryOK(registry) /\ StoreOK(nodes, entries, registry, gone) /\ QueueOK

------------------------------------------------------------------------------
(* The entry of a slot and the rule in force. *)

\* n is an entry of the slot, and 0 only where there is none.
IsSlot(n, es, scope, d, standing) ==
    LET stands(m) == es[m].scope = scope /\ es[m].domain = d /\ es[m].standing = standing
    IN  \/ n \in DOMAIN es /\ n # 0 /\ stands(n)
        \/ n = 0 /\ \A m \in DOMAIN es : ~ stands(m)

LEMMA SlotIs ==
  ASSUME NEW es, DOMAIN es \subseteq Nat \ {0}, NEW scope, NEW d, NEW standing
  PROVE  IsSlot(Slot(es, scope, d, standing), es, scope, d, standing)
<1> DEFINE found == {n \in DOMAIN es : /\ es[n].scope = scope /\ es[n].domain = d
                                       /\ es[n].standing = standing}
           entry == Slot(es, scope, d, standing)
<1>1. entry = IF found = {} THEN 0 ELSE CHOOSE m \in found : TRUE
  BY DEF Slot
<1>2. CASE found = {}
  BY <1>1, <1>2 DEF IsSlot
<1>3. CASE found # {}
  <2>1. entry \in found
    BY <1>1, <1>3
  <2> HIDE DEF entry
  <2>2. IsSlot(entry, es, scope, d, standing)
    BY <2>1 DEF IsSlot
  <2> QED BY <2>2 DEF entry
<1> QED BY <1>2, <1>3

\* What a payload names of an entry is a base.
LEMMA NamedType ==
  ASSUME NEW es, es \in [DOMAIN es -> EntryRows], DOMAIN es \subseteq Nat \ {0},
         NEW n \in DOMAIN es \cup {0}
  PROVE  Named(es, n) \in Bases /\ Named(es, n).node = n
<1>1. CASE n = 0
  BY <1>1 DEF Named, NoBase, Bases
<1>2. CASE n # 0
  <2>1. n \in DOMAIN es /\ n \in Nat
    BY <1>2
  <2>2. es[n].validated \in Nat
    BY <2>1 DEF EntryRows
  <2> QED BY <1>2, <2>1, <2>2 DEF Named, Bases
<1> QED BY <1>1, <1>2

\* The rule in force is an entry, or there is none.
LEMMA ResolvedBaseType ==
  ASSUME NEW ns, NEW es, NEW reg, NEW scope, NEW d,
         es \in [DOMAIN es -> EntryRows], DOMAIN es \subseteq Nat \ {0}
  PROVE  /\ ResolvedBase(ns, es, reg, scope, d) \in Bases
         /\ ResolvedBase(ns, es, reg, scope, d).node \in DOMAIN es \cup {0}
<1> DEFINE rules == {n \in MemberEntries(ns, es, reg, scope) : es[n].domain = d}
           own == {n \in rules : es[n].scope = scope}
           e == Effective(ns, es, reg, scope, d)
<1>1. e = IF rules = {} THEN 0
          ELSE IF own # {} THEN CHOOSE n \in own : TRUE ELSE CHOOSE n \in rules : TRUE
  BY DEF Effective
<1>2. rules \subseteq DOMAIN es /\ own \subseteq rules
  BY DEF MemberEntries
<1> HIDE DEF rules, own
<1>3. e \in DOMAIN es \cup {0}
  BY <1>1, <1>2
<1> HIDE DEF e
<1>4. ResolvedBase(ns, es, reg, scope, d) = Named(es, e)
  BY DEF ResolvedBase, e
<1> QED BY <1>3, <1>4, NamedType

------------------------------------------------------------------------------
(* A store with one entry less, and with one entry put. *)

\* The entries of a store are at places of its sequence.
LEMMA Places ==
  ASSUME NEW ns, NEW es, NEW reg, NEW lost, StoreOK(ns, es, reg, lost)
  PROVE  /\ DOMAIN ns = 1 .. Len(ns) /\ Len(ns) \in Nat
         /\ DOMAIN es \subseteq Nat \ {0} /\ es \in [DOMAIN es -> EntryRows]
         /\ \A n \in DOMAIN ns : ns[n] \in NodeRows
         /\ \A n \in DOMAIN es : n \in DOMAIN ns /\ es[n] \in EntryRows
<1>1. ns \in Seq(NodeRows) /\ DOMAIN es \subseteq DOMAIN ns /\ es \in [DOMAIN es -> EntryRows]
  BY DEF StoreOK
<1>2. DOMAIN ns = 1 .. Len(ns) /\ Len(ns) \in Nat /\ \A n \in DOMAIN ns : ns[n] \in NodeRows
  BY <1>1
<1> QED BY <1>1, <1>2

\* A version more, whatever its status.
LEMMA UpdatedIs ==
  ASSUME NEW ns \in Seq(NodeRows), NEW n \in DOMAIN ns,
         NEW status \in {"current", "provisional", "superseded", "rejected"}
  PROVE  /\ Updated(ns, n, status) \in Seq(NodeRows)
         /\ DOMAIN Updated(ns, n, status) = DOMAIN ns
         /\ Updated(ns, n, status)[n] = [version |-> ns[n].version + 1, status |-> status]
         /\ \A m \in DOMAIN ns \ {n} : Updated(ns, n, status)[m] = ns[m]
<1>1. [version |-> ns[n].version + 1, status |-> status] \in NodeRows
  <2>1. ns[n] \in NodeRows
    OBVIOUS
  <2>2. ns[n].version \in Nat
    BY <2>1 DEF NodeRows
  <2> QED BY <2>2 DEF NodeRows
<1>2. Updated(ns, n, status) = [ns EXCEPT ![n] = [version |-> ns[n].version + 1, status |-> status]]
  BY DEF Updated
<1> QED BY <1>1, <1>2

\* A member, a candidate or a parked entry that is displaced or retired.
LEMMA DropKeeps ==
  ASSUME NEW ns, NEW es, NEW reg, NEW lost, StoreOK(ns, es, reg, lost),
         NEW n \in DOMAIN es \cup {0}
  PROVE  /\ StoreOK(Supersede(ns, n), Without(es, n), reg, lost)
         /\ DOMAIN Supersede(ns, n) = DOMAIN ns
         /\ \A m \in DOMAIN ns \ {n} : Supersede(ns, n)[m] = ns[m]
         /\ DOMAIN Without(es, n) = DOMAIN es \ {n}
         /\ \A m \in DOMAIN es \ {n} : Without(es, n)[m] = es[m]
<1> DEFINE ns2 == Supersede(ns, n)  es2 == Without(es, n)
<1>1. /\ DOMAIN ns = 1 .. Len(ns) /\ Len(ns) \in Nat /\ ns \in Seq(NodeRows)
      /\ DOMAIN es \subseteq Nat \ {0} /\ DOMAIN es \subseteq DOMAIN ns
      /\ es \in [DOMAIN es -> EntryRows]
  BY Places DEF StoreOK
<1>2. /\ ns2 \in Seq(NodeRows) /\ DOMAIN ns2 = DOMAIN ns
      /\ \A m \in DOMAIN ns \ {n} : ns2[m] = ns[m]
      /\ n # 0 => ns2[n].status = "superseded"
  <2>1. CASE n = 0
    BY <2>1, <1>1 DEF Supersede
  <2>2. CASE n # 0
    <3>1. n \in DOMAIN ns /\ ns2 = Updated(ns, n, "superseded")
      BY <2>2, <1>1 DEF Supersede
    <3> HIDE DEF ns2
    <3>2. Updated(ns, n, "superseded")[n] = [version |-> ns[n].version + 1, status |-> "superseded"]
      BY <3>1, <1>1, UpdatedIs
    <3>3. ns2[n].status = "superseded"
      BY <3>1, <3>2
    <3>4. Updated(ns, n, "superseded") \in Seq(NodeRows)
      BY ONLY <3>1, <1>1, UpdatedIs
    <3>5. /\ DOMAIN Updated(ns, n, "superseded") = DOMAIN ns
          /\ \A m \in DOMAIN ns \ {n} : Updated(ns, n, "superseded")[m] = ns[m]
      BY ONLY DEF Updated
    <3> QED BY ONLY <3>1, <3>3, <3>4, <3>5
  <2> QED BY <2>1, <2>2
<1>3. /\ DOMAIN es2 = DOMAIN es \ {n} /\ \A m \in DOMAIN es \ {n} : es2[m] = es[m]
      /\ es2 \in [DOMAIN es2 -> EntryRows]
  BY <1>1 DEF Without
<1> HIDE DEF ns2, es2
<1>4. \A m \in DOMAIN es2 : /\ Fit(ns2[m], es2[m]) /\ reg[es2[m].domain].state # "absent"
                            /\ es2[m].base.node \in DOMAIN ns2 \cup {0}
  <2>1. \A m \in DOMAIN es2 : m \in DOMAIN es /\ ns2[m] = ns[m] /\ es2[m] = es[m]
    BY <1>1, <1>2, <1>3
  <2> QED BY <2>1, <1>2 DEF StoreOK
<1>5. \A m, k \in DOMAIN es2 : Clash(es2[m], es2[k]) => m = k
  BY <1>3 DEF StoreOK
<1>6. \A m \in DOMAIN ns2 \ DOMAIN es2 : ns2[m].status = "superseded" \/ m \in lost
  <2> SUFFICES ASSUME NEW m \in DOMAIN ns2 \ DOMAIN es2
               PROVE  ns2[m].status = "superseded" \/ m \in lost
    OBVIOUS
  <2>1. CASE m = n
    BY <2>1, <1>1, <1>2
  <2>2. CASE m # n
    <3>1. m \in DOMAIN ns \ DOMAIN es /\ ns2[m] = ns[m]
      BY <2>2, <1>2, <1>3
    <3> QED BY <3>1 DEF StoreOK
  <2> QED BY <2>1, <2>2
<1>7. lost \subseteq DOMAIN ns2 /\ DOMAIN es2 \subseteq DOMAIN ns2
  BY <1>1, <1>2, <1>3 DEF StoreOK
<1>8. StoreOK(ns2, es2, reg, lost)
  BY <1>2, <1>3, <1>4, <1>5, <1>6, <1>7 DEF StoreOK
<1> QED BY <1>2, <1>3, <1>8 DEF ns2, es2

\* An entry put at its node, where nothing stands in its slot.
Put(ns, es, ns2, es2, n) ==
    /\ ns2 \in Seq(NodeRows) /\ n \in DOMAIN ns2 /\ DOMAIN ns2 = DOMAIN ns \cup {n}
    /\ \A m \in DOMAIN ns \ {n} : ns2[m] = ns[m]
    /\ es2 \in [DOMAIN es2 -> EntryRows] /\ DOMAIN es2 = DOMAIN es \cup {n}
    /\ \A m \in DOMAIN es \ {n} : es2[m] = es[m]
    /\ Fit(ns2[n], es2[n]) /\ es2[n].base.node \in DOMAIN ns2 \cup {0}
    /\ \A m \in DOMAIN es \ {n} : ~ Clash(es[m], es2[n])

LEMMA PutIsKept ==
  ASSUME NEW ns, NEW es, NEW reg, NEW lost, StoreOK(ns, es, reg, lost),
         NEW ns2, NEW es2, NEW n, Put(ns, es, ns2, es2, n), reg[es2[n].domain].state # "absent"
  PROVE  StoreOK(ns2, es2, reg, lost)
<1> DEFINE e == es2[n]
<1>1. /\ DOMAIN es \subseteq DOMAIN ns /\ es \in [DOMAIN es -> EntryRows] /\ lost \subseteq DOMAIN ns
  BY DEF StoreOK
<1>2. /\ ns2 \in Seq(NodeRows) /\ DOMAIN ns2 = DOMAIN ns \cup {n} /\ n \in DOMAIN ns2
      /\ \A m \in DOMAIN ns \ {n} : ns2[m] = ns[m]
      /\ DOMAIN es2 = DOMAIN es \cup {n} /\ es2[n] = e
      /\ \A m \in DOMAIN es \ {n} : es2[m] = es[m]
      /\ es2 \in [DOMAIN es2 -> EntryRows]
      /\ Fit(ns2[n], e) /\ reg[e.domain].state # "absent" /\ e.base.node \in DOMAIN ns2 \cup {0}
      /\ \A m \in DOMAIN es \ {n} : ~ Clash(es[m], e)
  BY DEF Put
<1> HIDE DEF e
<1>3. \A m \in DOMAIN es2 : /\ Fit(ns2[m], es2[m]) /\ reg[es2[m].domain].state # "absent"
                            /\ es2[m].base.node \in DOMAIN ns2 \cup {0}
  <2>1. \A m \in DOMAIN es2 \ {n} : m \in DOMAIN es /\ ns2[m] = ns[m] /\ es2[m] = es[m]
    BY <1>1, <1>2
  <2> QED BY <2>1, <1>2 DEF StoreOK
<1>4. \A m, k \in DOMAIN es2 : Clash(es2[m], es2[k]) => m = k
  <2> SUFFICES ASSUME NEW m \in DOMAIN es2, NEW k \in DOMAIN es2, Clash(es2[m], es2[k]), m # k
               PROVE  FALSE
    OBVIOUS
  <2>1. CASE m # n /\ k # n
    BY <2>1, <1>2 DEF StoreOK
  <2>2. CASE k = n
    BY <2>2, <1>2
  <2>3. CASE m = n
    <3>1. Clash(e, es[k]) /\ k \in DOMAIN es \ {n}
      BY <2>3, <1>2
    <3>2. Clash(es[k], e)
      BY <3>1 DEF Clash
    <3> QED BY <1>2, <3>1, <3>2
  <2> QED BY <2>1, <2>2, <2>3
<1>5. \A m \in DOMAIN ns2 \ DOMAIN es2 : ns2[m].status = "superseded" \/ m \in lost
  BY <1>2 DEF StoreOK
<1> QED BY <1>1, <1>2, <1>3, <1>4, <1>5 DEF StoreOK

LEMMA PutKeeps ==
  ASSUME NEW ns, NEW es, NEW reg, NEW lost, StoreOK(ns, es, reg, lost),
         NEW ns2 \in Seq(NodeRows), NEW n \in DOMAIN ns2, NEW e \in EntryRows, NEW es2,
         DOMAIN ns2 = DOMAIN ns \cup {n}, \A m \in DOMAIN ns \ {n} : ns2[m] = ns[m],
         es2 = [m \in DOMAIN es \cup {n} |-> IF m = n THEN e ELSE es[m]],
         Fit(ns2[n], e), reg[e.domain].state # "absent", e.base.node \in DOMAIN ns2 \cup {0},
         \A m \in DOMAIN es \ {n} : ~ Clash(es[m], e)
  PROVE  StoreOK(ns2, es2, reg, lost)
<1>1. es \in [DOMAIN es -> EntryRows]
  BY DEF StoreOK
<1>2. /\ DOMAIN es2 = DOMAIN es \cup {n} /\ es2[n] = e
      /\ \A m \in DOMAIN es \ {n} : es2[m] = es[m]
      /\ es2 \in [DOMAIN es2 -> EntryRows]
  BY <1>1
<1>3. Put(ns, es, ns2, es2, n)
  BY <1>2 DEF Put
<1> QED BY <1>2, <1>3, PutIsKept

\* A registry that forgets no key.
LEMMA RegistryGrows ==
  ASSUME NEW ns, NEW es, NEW reg, NEW lost, StoreOK(ns, es, reg, lost), NEW reg2,
         \A d \in Domains : reg[d].state # "absent" => reg2[d].state # "absent"
  PROVE  StoreOK(ns, es, reg2, lost)
<1>1. \A n \in DOMAIN es : es[n].domain \in Domains
  BY Places DEF EntryRows
<1> QED BY <1>1 DEF StoreOK

------------------------------------------------------------------------------
(* One lemma per request: the store and the registry stay well-formed, and  *)
(* no rejected candidate comes back.                                        *)

Inv == RegistryOK(registry) /\ StoreOK(nodes, entries, registry, gone)

Stones ==
    \A n \in DOMAIN entries :
        entries[n].standing = "rejected" =>
            n \in DOMAIN entries' /\ entries'[n].standing = "rejected"

\* What a request promises.
Keeps == Inv' /\ Stones

\* Nothing but the entry of a slot stands in it.
LEMMA SlotAlone ==
  ASSUME NEW ns, NEW es, NEW reg, NEW lost, StoreOK(ns, es, reg, lost),
         NEW e \in EntryRows, e.standing \in {"member", "candidate"},
         NEW n, IsSlot(n, es, e.scope, e.domain, e.standing)
  PROVE  \A m \in DOMAIN es \ {n} : ~ Clash(es[m], e)
<1>1. ASSUME NEW m \in DOMAIN es, m # n, Clash(es[m], e) PROVE FALSE
  <2>1. es[m].scope = e.scope /\ es[m].domain = e.domain /\ es[m].standing = e.standing
    BY <1>1 DEF Clash
  <2>2. n \in DOMAIN es /\ Clash(es[m], es[n])
    BY <1>1, <2>1 DEF IsSlot, Clash
  <2> QED BY <1>1, <2>2 DEF StoreOK
<1> QED BY <1>1

\* The key a domain stands for is one of the registry, unless it is the domain itself.
LEMMA CanonicalIsThere ==
  ASSUME RegistryOK(registry), NEW d \in Domains
  PROVE  /\ Canonical(d) \in Domains
         /\ registry[d].state # "absent" => registry[Canonical(d)].state # "absent"
         /\ registry[d].state = "absent" => Canonical(d) = d
<1>1. registry[d] \in [state : States, canonical : Domains]
  BY DEF RegistryOK
<1>2. registry[d].canonical \in Domains
  BY <1>1
<1> QED BY <1>2 DEF RegistryOK, Canonical

\* A statement binds over what stood in its slots, an inference waits beside it.
LEMMA WriteKeeps ==
  ASSUME Inv, NEW d \in Domains, NEW scope \in Scopes, NEW inferred \in BOOLEAN, NEW new,
         WritePreference(d, scope, inferred, new)
  PROVE  Keeps
<1> DEFINE key == Canonical(d)
           standing == IF inferred THEN "candidate" ELSE "member"
           status == IF inferred THEN "provisional" ELSE "current"
           old == Slot(entries, scope, key, standing)
           n == IF old # 0 THEN old ELSE Len(nodes) + 1
           ns == IF old # 0 THEN Updated(nodes, n, status)
                 ELSE Append(nodes, [version |-> 1, status |-> status])
           reg == IF registry[d].state = "absent"
                  THEN [registry EXCEPT ![d].state = "pending"] ELSE registry
           entry == [standing |-> standing, scope |-> scope, domain |-> key,
                     base |-> NoBase, validated |-> ns[n].version]
           es == [m \in DOMAIN entries \cup {n} |-> IF m = n THEN entry ELSE entries[m]]
           candidate == Slot(entries, scope, key, "candidate")
           based == ResolvedBase(ns, es, reg, scope, key)
<1>1. /\ registry' = reg /\ gone' = gone
      /\ inferred => nodes' = ns /\ entries' = [es EXCEPT ![n].base = based]
      /\ ~ inferred => nodes' = Supersede(ns, candidate) /\ entries' = Without(es, candidate)
  BY DEF WritePreference
<1>2. key \in Domains /\ registry[d] \in [state : States, canonical : Domains]
  BY CanonicalIsThere DEF Inv, RegistryOK
<1>3. RegistryOK(reg) /\ reg[key].state # "absent"
      /\ \A k \in Domains : registry[k].state # "absent" => reg[k].state # "absent"
  <2>1. CASE registry[d].state = "absent"
    <3>1. reg = [registry EXCEPT ![d].state = "pending"] /\ key = d
      BY <2>1, CanonicalIsThere DEF Inv
    <3>2. /\ reg \in [Domains -> [state : States, canonical : Domains]]
          /\ reg[d].state = "pending" /\ reg[d].canonical = registry[d].canonical
          /\ \A k \in Domains \ {d} : reg[k] = registry[k]
      BY <3>1 DEF Inv, RegistryOK, States
    <3> HIDE DEF reg
    <3> QED BY <2>1, <3>1, <3>2 DEF Inv, RegistryOK, Canonical
  <2>2. CASE registry[d].state # "absent"
    BY <2>2, CanonicalIsThere DEF Inv
  <2> QED BY <2>1, <2>2
<1>4. /\ DOMAIN nodes = 1 .. Len(nodes) /\ Len(nodes) \in Nat /\ nodes \in Seq(NodeRows)
      /\ DOMAIN entries \subseteq Nat \ {0} /\ DOMAIN entries \subseteq DOMAIN nodes
      /\ entries \in [DOMAIN entries -> EntryRows]
  BY Places DEF Inv, StoreOK
<1>5. IsSlot(old, entries, scope, key, standing) /\ IsSlot(candidate, entries, scope, key, "candidate")
  BY <1>4, SlotIs
<1>6. /\ ns \in Seq(NodeRows) /\ n \in DOMAIN ns /\ DOMAIN ns = DOMAIN nodes \cup {n}
      /\ \A m \in DOMAIN nodes \ {n} : ns[m] = nodes[m]
      /\ ns[n].status = status
  <2>1. CASE old # 0
    <3>1. n = old /\ n \in DOMAIN nodes /\ ns = Updated(nodes, n, status)
      BY <2>1, <1>4, <1>5 DEF IsSlot
    <3>2. status \in {"current", "provisional", "superseded", "rejected"}
      OBVIOUS
    <3> HIDE DEF n, ns, status
    <3>3. nodes \in Seq(NodeRows) /\ n \in DOMAIN nodes
      BY <3>1, <1>4
    <3>4. LET up == Updated(nodes, n, status) IN
          /\ up \in Seq(NodeRows) /\ DOMAIN up = DOMAIN nodes
          /\ up[n] = [version |-> nodes[n].version + 1, status |-> status]
          /\ \A m \in DOMAIN nodes \ {n} : up[m] = nodes[m]
      BY <3>2, <3>3, UpdatedIs
    <3>5. ns[n].status = status
      BY <3>1, <3>4
    <3> QED BY <3>1, <3>4, <3>5
  <2>2. CASE old = 0
    <3>1. n = Len(nodes) + 1 /\ ns = Append(nodes, [version |-> 1, status |-> status])
      BY <2>2
    <3>2. [version |-> 1, status |-> status] \in NodeRows
      BY DEF NodeRows
    <3> HIDE DEF n, ns, status
    <3>3. ns \in Seq(NodeRows) /\ DOMAIN ns = 1 .. Len(nodes) + 1
          /\ ns[n] = [version |-> 1, status |-> status]
          /\ \A m \in DOMAIN nodes : ns[m] = nodes[m]
      BY <3>1, <3>2, <1>4
    <3>4. ns[n].status = status
      BY <3>3
    <3> QED BY <3>1, <3>3, <3>4, <1>4
  <2> QED BY <2>1, <2>2
<1>7. /\ ns[n] \in NodeRows /\ ns[n].version \in Nat
      /\ NoBase \in Bases /\ NoBase.node = 0
      /\ standing \in Standings /\ standing \in {"member", "candidate"}
  <2>1. ns[n] \in NodeRows
    <3> HIDE DEF ns, n
    <3> QED BY <1>6
  <2> HIDE DEF ns, n
  <2> QED BY <2>1 DEF NodeRows, Bases, NoBase, Standings
<1>8. /\ entry \in EntryRows /\ Fit(ns[n], entry) /\ reg[entry.domain].state # "absent"
      /\ entry.base = NoBase
  <2> HIDE DEF ns, n, reg, key
  <2>1. entry \in EntryRows
    BY <1>2, <1>7 DEF EntryRows
  <2>2. Fit(ns[n], entry)
    BY <1>6 DEF Fit
  <2> QED BY <2>1, <2>2, <1>3
<1>9. StoreOK(nodes, entries, reg, gone)
  <2> HIDE DEF reg
  <2> QED BY <1>3, RegistryGrows DEF Inv
<1>10. ASSUME NEW e \in EntryRows, e.standing = standing, e.scope = scope, e.domain = key
       PROVE  \A m \in DOMAIN entries \ {n} : ~ Clash(entries[m], e)
  <2>1. IsSlot(old, entries, e.scope, e.domain, e.standing)
    BY <1>5, <1>10
  <2>2. old = 0 \/ old = n
    OBVIOUS
  <2> HIDE DEF old, n, standing
  <2>3. \A m \in DOMAIN entries \ {old} : ~ Clash(entries[m], e)
    BY <1>7, <1>9, <1>10, <2>1, SlotAlone
  <2> QED BY <2>2, <2>3, <1>4
<1>11. \A m \in DOMAIN entries : entries[m].standing = "rejected" => m # n /\ m # candidate
  <2>1. ASSUME NEW m \in DOMAIN entries, entries[m].standing = "rejected" PROVE m # n /\ m # candidate
    <3>1. n \in DOMAIN entries => n = old /\ old # 0
      BY <1>4
    <3> HIDE DEF n, old, candidate
    <3> QED BY <3>1, <2>1, <1>4, <1>5, <1>7 DEF IsSlot
  <2> QED BY <2>1
<1>12. CASE inferred
  <2> DEFINE e == [entry EXCEPT !.base = based]
             put == [m \in DOMAIN entries \cup {n} |-> IF m = n THEN e ELSE entries[m]]
  <2>1. based \in Bases /\ based.node \in DOMAIN ns \cup {0}
    <3>1. es \in [DOMAIN es -> EntryRows] /\ DOMAIN es = DOMAIN entries \cup {n}
      <4> HIDE DEF entry, n
      <4> QED BY <1>4, <1>8
    <3>2. DOMAIN es \subseteq Nat \ {0} /\ DOMAIN es \subseteq DOMAIN ns
      <4> HIDE DEF es, ns
      <4>1. (n = old /\ old # 0) \/ n = Len(nodes) + 1
        OBVIOUS
      <4> HIDE DEF n, old
      <4>2. n \in Nat \ {0}
        BY <4>1, <1>4, <1>5 DEF IsSlot
      <4> QED BY <3>1, <1>4, <1>6, <4>2
    <3> HIDE DEF es, ns
    <3> QED BY <3>1, <3>2, ResolvedBaseType
  <2>2. entries' = put
    <3>1. entries' = [es EXCEPT ![n].base = based]
      BY <1>1, <1>12
    <3>2. es[n] = entry /\ DOMAIN es = DOMAIN entries \cup {n}
          /\ \A m \in DOMAIN entries \ {n} : es[m] = entries[m]
      BY <1>4
    <3> HIDE DEF based, entry, n
    <3> QED BY <3>1, <3>2
  <2>3. /\ e.standing = standing /\ e.scope = scope /\ e.domain = key /\ e.base = based
        /\ e.validated = ns[n].version
    <3> HIDE DEF based, standing, key, ns, n
    <3> QED OBVIOUS
  <2>4. e \in EntryRows /\ Fit(ns[n], e)
    <3>1. e \in EntryRows
      <4> HIDE DEF based, standing, key, ns, n
      <4> QED BY <2>1, <1>7, <1>2 DEF EntryRows
    <3>2. e.standing = "candidate" /\ ns[n].status = "provisional"
      <4>1. standing = "candidate" /\ status = "provisional"
        BY <1>12
      <4> HIDE DEF e, standing, status, ns, n
      <4> QED BY <2>3, <1>6, <4>1
    <3> HIDE DEF e, ns, n
    <3> QED BY <2>3, <3>1, <3>2 DEF Fit
  <2> HIDE DEF e, ns, n, reg, key, standing, based
  <2>5. StoreOK(ns, put, reg, gone)
    <3>1. \A m \in DOMAIN entries \ {n} : ~ Clash(entries[m], e)
      BY <1>10, <2>3, <2>4
    <3>2. reg[e.domain].state # "absent" /\ e.base.node \in DOMAIN ns \cup {0}
      BY <1>3, <2>1, <2>3
    <3> QED BY <1>6, <1>9, <2>4, <3>1, <3>2, PutKeeps
  <2>6. Inv'
    BY <1>1, <1>3, <1>12, <2>2, <2>5 DEF Inv
  <2>7. Stones
    BY <1>11, <2>2 DEF Stones
  <2> QED BY <2>6, <2>7 DEF Keeps
<1>13. CASE ~ inferred
  <2>1. candidate \in DOMAIN entries \cup {0} /\ candidate # n
    <3>1. (n = old /\ old # 0) \/ n \notin DOMAIN entries \cup {0}
      BY <1>4
    <3>2. standing = "member"
      BY <1>13
    <3> HIDE DEF n, old, candidate, standing
    <3> QED BY <3>1, <3>2, <1>5 DEF IsSlot
  <2> HIDE DEF ns, n, reg, key, standing, entry, candidate
  <2>2. StoreOK(ns, es, reg, gone)
    <3>1. \A m \in DOMAIN entries \ {n} : ~ Clash(entries[m], entry)
      BY <1>8, <1>10 DEF entry
    <3>2. entry.base.node \in DOMAIN ns \cup {0}
      BY <1>7, <1>8
    <3> QED BY <1>6, <1>8, <1>9, <3>1, <3>2, PutKeeps
  <2>3. DOMAIN es = DOMAIN entries \cup {n} /\ \A m \in DOMAIN entries \ {n} : es[m] = entries[m]
    OBVIOUS
  <2> HIDE DEF es
  <2>4. /\ StoreOK(nodes', entries', reg, gone) /\ DOMAIN entries' = DOMAIN es \ {candidate}
        /\ \A m \in DOMAIN es \ {candidate} : entries'[m] = es[m]
    <3>1. nodes' = Supersede(ns, candidate) /\ entries' = Without(es, candidate)
      BY <1>1, <1>13
    <3>2. candidate \in DOMAIN es \cup {0}
      BY <2>1, <2>3
    <3>3. /\ StoreOK(Supersede(ns, candidate), Without(es, candidate), reg, gone)
          /\ DOMAIN Without(es, candidate) = DOMAIN es \ {candidate}
          /\ \A m \in DOMAIN es \ {candidate} : Without(es, candidate)[m] = es[m]
      <4>1. StoreOK(Supersede(ns, candidate), Without(es, candidate), reg, gone)
        BY ONLY <2>2, <3>2, DropKeeps
      <4>2. DOMAIN Without(es, candidate) = DOMAIN es \ {candidate}
        BY ONLY DEF Without
      <4>3. \A m \in DOMAIN es \ {candidate} : Without(es, candidate)[m] = es[m]
        BY ONLY DEF Without
      <4> QED BY ONLY <4>1, <4>2, <4>3
    <3> QED BY ONLY <3>1, <3>3
  <2>5. Inv'
    BY <1>1, <1>3, <2>4 DEF Inv
  <2>6. Stones
    BY <1>11, <2>3, <2>4 DEF Stones
  <2> QED BY <2>5, <2>6 DEF Keeps
<1> QED BY <1>12, <1>13

\* An entry that leaves its store superseded, unless it is a tombstone.
LEMMA DropIsKept ==
  ASSUME Inv, NEW n \in DOMAIN entries \cup {0}, n # 0 => entries[n].standing # "rejected",
         nodes' = Supersede(nodes, n), entries' = Without(entries, n),
         UNCHANGED <<registry, gone>>
  PROVE  Keeps
<1>1. /\ StoreOK(nodes', entries', registry, gone) /\ DOMAIN entries' = DOMAIN entries \ {n}
      /\ \A m \in DOMAIN entries \ {n} : entries'[m] = entries[m]
  <2>1. StoreOK(nodes, entries, registry, gone)
    BY DEF Inv
  <2>2. StoreOK(Supersede(nodes, n), Without(entries, n), registry, gone)
    BY <2>1, DropKeeps
  <2> QED BY <2>2 DEF Without
<1>2. n \in DOMAIN entries => n # 0
  BY Places DEF Inv
<1> QED BY <1>1, <1>2 DEF Keeps, Inv, Stones

LEMMA RetirePreferenceKeeps ==
  ASSUME Inv, NEW d \in Domains, NEW scope \in Scopes, RetirePreference(d, scope)
  PROVE  Keeps
<1> DEFINE member == Slot(entries, scope, Canonical(d), "member")
<1>1. IsSlot(member, entries, scope, Canonical(d), "member")
  BY Places, SlotIs DEF Inv
<1>2. /\ nodes' = Supersede(nodes, member) /\ entries' = Without(entries, member)
      /\ UNCHANGED <<registry, gone>>
  BY DEF RetirePreference
<1> HIDE DEF member
<1>3. /\ member \in DOMAIN entries \cup {0}
      /\ member # 0 => entries[member].standing # "rejected"
  BY <1>1 DEF IsSlot
<1> QED BY <1>2, <1>3, DropIsKept

\* n comes to a slot as e, and out, which stood in it, leaves the store.
Displacing(ns, es, ns2, es2, out, n, e) ==
    /\ IsSlot(out, es, e.scope, e.domain, e.standing)
    /\ e \in EntryRows /\ e.standing \in {"member", "candidate"}
    /\ n \in DOMAIN es /\ es[n].standing \notin {e.standing, "rejected"}
    /\ e.domain = es[n].domain /\ e.base.node \in DOMAIN ns \cup {0}
    /\ ns2 \in Seq(NodeRows) /\ DOMAIN ns2 = DOMAIN ns /\ Fit(ns2[n], e)
    /\ \A m \in DOMAIN ns \ {n} : ns2[m] = Supersede(ns, out)[m]
    /\ DOMAIN es2 = DOMAIN es \ {out} /\ es2[n] = e
    /\ es2 \in [DOMAIN es2 -> EntryRows]
    /\ \A m \in DOMAIN es \ {out, n} : es2[m] = es[m]

LEMMA DisplaceKeeps ==
  ASSUME NEW ns, NEW es, NEW reg, NEW lost, StoreOK(ns, es, reg, lost),
         NEW ns2, NEW es2, NEW out, NEW n, NEW e, Displacing(ns, es, ns2, es2, out, n, e)
  PROVE  StoreOK(ns2, es2, reg, lost)
<1> DEFINE left == Without(es, out)  over == Supersede(ns, out)
<1>0. /\ IsSlot(out, es, e.scope, e.domain, e.standing)
      /\ e \in EntryRows /\ e.standing \in {"member", "candidate"}
      /\ n \in DOMAIN es /\ es[n].standing \notin {e.standing, "rejected"}
      /\ e.domain = es[n].domain /\ e.base.node \in DOMAIN ns \cup {0}
      /\ ns2 \in Seq(NodeRows) /\ DOMAIN ns2 = DOMAIN ns /\ Fit(ns2[n], e)
      /\ \A m \in DOMAIN ns \ {n} : ns2[m] = Supersede(ns, out)[m]
  BY DEF Displacing
<1>1. /\ DOMAIN es \subseteq Nat \ {0} /\ es[n] \in EntryRows /\ n \in DOMAIN ns
      /\ es \in [DOMAIN es -> EntryRows] /\ reg[es[n].domain].state # "absent"
  BY <1>0, Places DEF StoreOK
<1>3. out \in DOMAIN es \cup {0} /\ out # n
  BY <1>0, <1>1 DEF IsSlot
<1>4. StoreOK(over, left, reg, lost) /\ DOMAIN over = DOMAIN ns
  BY <1>3, DropKeeps
<1>5. DOMAIN left = DOMAIN es \ {out} /\ \A m \in DOMAIN es \ {out} : left[m] = es[m]
  BY DEF Without
<1>6. /\ DOMAIN es2 = DOMAIN es \ {out} /\ es2[n] = e
      /\ es2 \in [DOMAIN es2 -> EntryRows]
      /\ \A m \in DOMAIN es \ {out, n} : es2[m] = es[m]
  BY DEF Displacing
<1>7. \A m \in DOMAIN left \ {n} : ~ Clash(left[m], e)
  <2>1. \A m \in DOMAIN es \ {out} : ~ Clash(es[m], e)
    BY <1>0, SlotAlone
  <2> HIDE DEF left
  <2> QED BY <2>1, <1>5
<1> HIDE DEF left, over
<1>8. DOMAIN ns2 = DOMAIN over \cup {n} /\ n \in DOMAIN ns2 /\ DOMAIN es2 = DOMAIN left \cup {n}
  <2>1. n \in DOMAIN ns2 /\ DOMAIN ns2 = DOMAIN over
    BY <1>0, <1>1, <1>4
  <2>2. n \in DOMAIN left /\ DOMAIN es2 = DOMAIN left
    BY <1>0, <1>3, <1>5, <1>6
  <2> QED BY <2>1, <2>2
<1>9. /\ \A m \in DOMAIN over \ {n} : ns2[m] = over[m]
      /\ \A m \in DOMAIN left \ {n} : es2[m] = left[m]
  BY <1>0, <1>4, <1>5, <1>6 DEF over
<1>10. Put(over, left, ns2, es2, n)
  BY <1>0, <1>6, <1>7, <1>8, <1>9 DEF Put
<1>11. StoreOK(ns2, es2, reg, lost)
  BY <1>0, <1>1, <1>4, <1>6, <1>10, PutIsKept
<1> QED BY <1>11

\* What left the profile beside n is what stood in one of its slots.
Displaced(n) ==
    \A m \in DOMAIN entries \ (DOMAIN entries' \cup {n}) :
        Named(entries, m) \in {Slots(n).member, Slots(n).candidate}

LEMMA PromoteKeeps ==
  ASSUME Inv, NEW n \in DOMAIN entries, entries[n].standing \in {"candidate", "parked"},
         Promote(n), UNCHANGED registry
  PROVE  Keeps /\ Displaced(n)
<1> DEFINE displaced == Slot(entries, entries[n].scope, entries[n].domain, "member")
           over == Supersede(nodes, displaced)
           ns == Updated(over, n, "current")
           e == [entries[n] EXCEPT !.standing = "member", !.base = NoBase,
                                   !.validated = ns[n].version]
<1>1. /\ DOMAIN entries \subseteq Nat \ {0} /\ entries[n] \in EntryRows /\ n \in DOMAIN nodes
      /\ entries \in [DOMAIN entries -> EntryRows]
  BY Places DEF Inv
<1>2. IsSlot(displaced, entries, entries[n].scope, entries[n].domain, "member")
  BY <1>1, SlotIs
<1>3. displaced \in DOMAIN entries \cup {0} /\ displaced # n
  <2> HIDE DEF displaced
  <2> QED BY <1>1, <1>2 DEF IsSlot
<1>4. nodes' = ns /\ UNCHANGED gone
  BY DEF Promote
<1>5. entries' = [Without(entries, displaced) EXCEPT ![n] = e]
  <2>1. entries' = [Without(entries, displaced) EXCEPT
            ![n] = [@ EXCEPT !.standing = "member", !.base = NoBase, !.validated = ns[n].version]]
    BY DEF Promote
  <2>2. Without(entries, displaced)[n] = entries[n]
    BY <1>3 DEF Without
  <2> HIDE DEF ns, displaced
  <2> QED BY <2>1, <2>2
<1>6. /\ over \in Seq(NodeRows) /\ DOMAIN over = DOMAIN nodes
  <2> HIDE DEF displaced
  <2>1. StoreOK(nodes, entries, registry, gone)
    BY DEF Inv
  <2>2. StoreOK(over, Without(entries, displaced), registry, gone) /\ DOMAIN over = DOMAIN nodes
    BY <1>3, <2>1, DropKeeps
  <2> QED BY <2>2 DEF StoreOK
<1>7. /\ ns \in Seq(NodeRows) /\ DOMAIN ns = DOMAIN nodes
      /\ \A m \in DOMAIN nodes \ {n} : ns[m] = over[m]
      /\ ns[n].status = "current" /\ ns[n].version \in Nat
  <2>1. over \in Seq(NodeRows) /\ n \in DOMAIN over
    BY <1>1, <1>6
  <2>2. LET up == Updated(over, n, "current") IN
        /\ up \in Seq(NodeRows) /\ DOMAIN up = DOMAIN over
        /\ up[n] = [version |-> over[n].version + 1, status |-> "current"]
        /\ \A m \in DOMAIN over \ {n} : up[m] = over[m]
    <3> HIDE DEF over
    <3> QED BY <2>1, UpdatedIs
  <2> HIDE DEF over
  <2>3. ns[n] \in NodeRows
    BY <2>1, <2>2
  <2>4. ns[n].version \in Nat
    <3> HIDE DEF ns
    <3> QED BY <2>3 DEF NodeRows
  <2> QED BY <1>6, <2>2, <2>4
<1> HIDE DEF ns, over
<1>8. /\ e \in EntryRows /\ e.standing = "member" /\ e.scope = entries[n].scope
      /\ e.domain = entries[n].domain /\ e.base = NoBase /\ e.validated = ns[n].version
  BY <1>1, <1>7 DEF EntryRows, Standings, NoBase, Bases
<1>9. Fit(ns[n], e) /\ e.base.node \in DOMAIN nodes \cup {0}
  <2> HIDE DEF e
  <2> QED BY <1>7, <1>8 DEF Fit, NoBase
<1> HIDE DEF e, displaced
<1>10. /\ StoreOK(ns, entries', registry, gone) /\ DOMAIN entries' = DOMAIN entries \ {displaced}
       /\ \A m \in DOMAIN entries : entries[m].standing = "rejected" =>
             m \in DOMAIN entries' /\ entries'[m] = entries[m]
  <2>1. StoreOK(nodes, entries, registry, gone)
    BY DEF Inv
  <2>2. /\ DOMAIN entries' = DOMAIN entries \ {displaced} /\ entries'[n] = e
        /\ entries' \in [DOMAIN entries' -> EntryRows]
        /\ \A m \in DOMAIN entries \ {displaced, n} : entries'[m] = entries[m]
    <3>1. /\ DOMAIN Without(entries, displaced) = DOMAIN entries \ {displaced}
          /\ \A m \in DOMAIN entries \ {displaced} : Without(entries, displaced)[m] = entries[m]
          /\ Without(entries, displaced) \in [DOMAIN entries \ {displaced} -> EntryRows]
      BY <1>1 DEF Without
    <3> QED BY <1>1, <1>3, <1>5, <1>8, <3>1
  <2>3. IsSlot(displaced, entries, e.scope, e.domain, e.standing)
    BY <1>2, <1>8
  <2>4. \A m \in DOMAIN nodes \ {n} : ns[m] = Supersede(nodes, displaced)[m]
    BY <1>7 DEF over
  <2>5. e.standing \in {"member", "candidate"} /\ entries[n].standing \notin {e.standing, "rejected"}
    BY <1>8
  <2>6. Displacing(nodes, entries, ns, entries', displaced, n, e)
    BY <1>7, <1>8, <1>9, <2>2, <2>3, <2>4, <2>5 DEF Displacing
  <2>7. StoreOK(ns, entries', registry, gone)
    BY <2>1, <2>6, DisplaceKeeps
  <2>8. DOMAIN entries' = DOMAIN entries \ {displaced}
    BY <2>2
  <2>9. \A m \in DOMAIN entries : entries[m].standing = "rejected" =>
             m \in DOMAIN entries' /\ entries'[m] = entries[m]
    BY <1>1, <1>2, <2>2 DEF IsSlot
  <2> QED BY <2>7, <2>8, <2>9
<1>11. Keeps
  BY <1>4, <1>10 DEF Keeps, Inv, Stones
<1>12. Displaced(n)
  BY <1>10 DEF Displaced, Slots, displaced
<1> QED BY <1>11, <1>12

LEMMA CandidateKeeps ==
  ASSUME Inv, NEW n \in DOMAIN entries, entries[n].standing = "parked",
         Candidate(n), UNCHANGED registry
  PROVE  Keeps /\ Displaced(n)
<1> DEFINE displaced == Slot(entries, entries[n].scope, entries[n].domain, "candidate")
           over == Supersede(nodes, displaced)
           e == [entries[n] EXCEPT !.standing = "candidate"]
<1>1. /\ DOMAIN entries \subseteq Nat \ {0} /\ entries[n] \in EntryRows /\ n \in DOMAIN nodes
      /\ entries \in [DOMAIN entries -> EntryRows]
      /\ Fit(nodes[n], entries[n]) /\ entries[n].base.node \in DOMAIN nodes \cup {0}
  BY Places DEF Inv, StoreOK
<1>2. IsSlot(displaced, entries, entries[n].scope, entries[n].domain, "candidate")
  BY <1>1, SlotIs
<1>3. displaced \in DOMAIN entries \cup {0} /\ displaced # n
  <2> HIDE DEF displaced
  <2> QED BY <1>1, <1>2 DEF IsSlot
<1>4. nodes' = over /\ UNCHANGED gone /\ nodes[n].status = "provisional"
  BY DEF Candidate
<1>5. entries' = [Without(entries, displaced) EXCEPT ![n] = e]
  <2>1. entries' = [Without(entries, displaced) EXCEPT ![n].standing = "candidate"]
    BY DEF Candidate
  <2>2. Without(entries, displaced)[n] = entries[n]
    BY <1>3 DEF Without
  <2> HIDE DEF displaced
  <2> QED BY <2>1, <2>2
<1>6. /\ over \in Seq(NodeRows) /\ DOMAIN over = DOMAIN nodes /\ over[n] = nodes[n]
  <2> HIDE DEF displaced
  <2>1. StoreOK(nodes, entries, registry, gone)
    BY DEF Inv
  <2>2. /\ StoreOK(over, Without(entries, displaced), registry, gone) /\ DOMAIN over = DOMAIN nodes
        /\ \A m \in DOMAIN nodes \ {displaced} : over[m] = nodes[m]
    BY <1>3, <2>1, DropKeeps
  <2> QED BY <1>1, <1>3, <2>2 DEF StoreOK
<1> HIDE DEF over
<1>7. /\ e \in EntryRows /\ e.standing = "candidate" /\ e.scope = entries[n].scope
      /\ e.domain = entries[n].domain /\ e.base = entries[n].base
      /\ e.validated = entries[n].validated
  BY <1>1 DEF EntryRows, Standings
<1>8. Fit(over[n], e) /\ e.base.node \in DOMAIN nodes \cup {0}
  <2> HIDE DEF e
  <2> QED BY <1>1, <1>4, <1>6, <1>7 DEF Fit
<1> HIDE DEF e, displaced
<1>9. /\ StoreOK(over, entries', registry, gone) /\ DOMAIN entries' = DOMAIN entries \ {displaced}
      /\ \A m \in DOMAIN entries : entries[m].standing = "rejected" =>
            m \in DOMAIN entries' /\ entries'[m] = entries[m]
  <2>1. StoreOK(nodes, entries, registry, gone)
    BY DEF Inv
  <2>2. /\ DOMAIN entries' = DOMAIN entries \ {displaced} /\ entries'[n] = e
        /\ entries' \in [DOMAIN entries' -> EntryRows]
        /\ \A m \in DOMAIN entries \ {displaced, n} : entries'[m] = entries[m]
    <3>1. /\ DOMAIN Without(entries, displaced) = DOMAIN entries \ {displaced}
          /\ \A m \in DOMAIN entries \ {displaced} : Without(entries, displaced)[m] = entries[m]
          /\ Without(entries, displaced) \in [DOMAIN entries \ {displaced} -> EntryRows]
      BY <1>1 DEF Without
    <3> QED BY <1>1, <1>3, <1>5, <1>7, <3>1
  <2>3. IsSlot(displaced, entries, e.scope, e.domain, e.standing)
    BY <1>2, <1>7
  <2>4. \A m \in DOMAIN nodes \ {n} : over[m] = Supersede(nodes, displaced)[m]
    BY DEF over
  <2>5. e.standing \in {"member", "candidate"} /\ entries[n].standing \notin {e.standing, "rejected"}
    BY <1>7
  <2>6. Displacing(nodes, entries, over, entries', displaced, n, e)
    BY <1>6, <1>7, <1>8, <2>2, <2>3, <2>4, <2>5 DEF Displacing
  <2>7. StoreOK(over, entries', registry, gone)
    BY <2>1, <2>6, DisplaceKeeps
  <2>8. DOMAIN entries' = DOMAIN entries \ {displaced}
    BY <2>2
  <2>9. \A m \in DOMAIN entries : entries[m].standing = "rejected" =>
             m \in DOMAIN entries' /\ entries'[m] = entries[m]
    BY <1>1, <1>2, <2>2 DEF IsSlot
  <2> QED BY <2>7, <2>8, <2>9
<1>10. Keeps
  BY <1>4, <1>9 DEF Keeps, Inv, Stones
<1>11. Displaced(n)
  BY <1>9 DEF Displaced, Slots, displaced
<1> QED BY <1>10, <1>11

LEMMA RetireKeeps ==
  ASSUME Inv, NEW n \in DOMAIN entries, entries[n].standing = "parked",
         Retire(n), UNCHANGED registry
  PROVE  Keeps /\ Displaced(n)
<1>1. nodes' = Supersede(nodes, n) /\ entries' = Without(entries, n) /\ UNCHANGED <<registry, gone>>
  BY DEF Retire
<1>2. Keeps
  BY <1>1, DropIsKept
<1>3. DOMAIN entries' = DOMAIN entries \ {n}
  BY <1>1 DEF Without
<1> QED BY <1>2, <1>3 DEF Displaced

\* A detached node keeps its status, and history remembers it.
LEMMA DetachKeeps ==
  ASSUME Inv, NEW n \in DOMAIN entries, entries[n].standing = "parked",
         Detach(n), UNCHANGED registry
  PROVE  Keeps /\ Displaced(n)
<1>1. nodes' = nodes /\ entries' = Without(entries, n) /\ gone' = gone \cup {n}
  BY DEF Detach
<1>2. /\ DOMAIN entries' = DOMAIN entries \ {n}
      /\ \A m \in DOMAIN entries \ {n} : entries'[m] = entries[m]
      /\ entries \in [DOMAIN entries -> EntryRows] /\ n \in DOMAIN nodes
  BY <1>1, Places DEF Without, Inv
<1>3. entries' \in [DOMAIN entries' -> EntryRows]
  BY <1>1, <1>2 DEF Without
<1>4. \A m \in DOMAIN nodes \ DOMAIN entries' : nodes[m].status = "superseded" \/ m \in gone'
  BY <1>1, <1>2 DEF Inv, StoreOK
<1>5. StoreOK(nodes', entries', registry, gone')
  BY <1>1, <1>2, <1>3, <1>4 DEF Inv, StoreOK
<1> QED BY <1>2, <1>5 DEF Keeps, Inv, Stones, Displaced

LEMMA RejectCandidateKeeps ==
  ASSUME Inv, NEW n \in DOMAIN entries, RejectCandidate(n), UNCHANGED registry
  PROVE  Keeps
<1> DEFINE ns == Updated(nodes, n, "rejected")
           e == [entries[n] EXCEPT !.standing = "rejected", !.base = NoBase,
                                   !.validated = ns[n].version]
<1>1. /\ entries[n].standing = "candidate" /\ nodes' = ns /\ UNCHANGED <<registry, gone>>
      /\ entries' = [entries EXCEPT ![n] = e]
  BY DEF RejectCandidate
<1>2. /\ nodes \in Seq(NodeRows) /\ n \in DOMAIN nodes /\ entries[n] \in EntryRows
      /\ entries \in [DOMAIN entries -> EntryRows]
      /\ registry[entries[n].domain].state # "absent"
  BY Places DEF Inv, StoreOK
<1>3. LET up == Updated(nodes, n, "rejected") IN
      /\ up \in Seq(NodeRows) /\ DOMAIN up = DOMAIN nodes
      /\ up[n] = [version |-> nodes[n].version + 1, status |-> "rejected"]
      /\ \A m \in DOMAIN nodes \ {n} : up[m] = nodes[m]
  BY <1>2, UpdatedIs
<1>4. ns[n] \in NodeRows /\ ns[n].status = "rejected"
  BY <1>2, <1>3
<1> HIDE DEF ns
<1>5. ns[n].version \in Nat
  BY <1>4 DEF NodeRows
<1>6. /\ e \in EntryRows /\ e.standing = "rejected" /\ e.domain = entries[n].domain
      /\ e.base = NoBase /\ e.validated = ns[n].version
  BY <1>2, <1>5 DEF EntryRows, Standings, NoBase, Bases
<1> HIDE DEF e
<1>7. Fit(ns[n], e) /\ e.base.node \in DOMAIN ns \cup {0} /\ \A m \in DOMAIN entries \ {n} : ~ Clash(entries[m], e)
  BY <1>4, <1>6 DEF Fit, NoBase, Clash
<1>8. entries' = [m \in DOMAIN entries \cup {n} |-> IF m = n THEN e ELSE entries[m]]
  BY <1>1, <1>2
<1>9. /\ ns \in Seq(NodeRows) /\ n \in DOMAIN ns /\ DOMAIN ns = DOMAIN nodes \cup {n}
      /\ \A m \in DOMAIN nodes \ {n} : ns[m] = nodes[m]
  BY <1>2, <1>3 DEF ns
<1>10. StoreOK(ns, entries', registry, gone)
  BY <1>2, <1>6, <1>7, <1>8, <1>9, PutKeeps DEF Inv
<1>11. Stones
  BY <1>6, <1>8 DEF Stones
<1> QED BY <1>1, <1>10, <1>11 DEF Keeps, Inv

\* A confirmation of any kind; on a parked entry it displaces what stands in its slots.
LEMMA ConfirmKeeps ==
  ASSUME Inv, NEW n, NEW disposition, NEW snapshot, ConfirmPreference(n, disposition, snapshot)
  PROVE  /\ Keeps
         /\ entries[n].standing = "parked" => Displaced(n) /\ snapshot \subseteq {Slots(n)}
<1>1. n \in DOMAIN entries /\ UNCHANGED registry
  BY DEF ConfirmPreference
<1>2. CASE ConfirmCandidate(n)
  BY <1>1, <1>2, PromoteKeeps DEF ConfirmCandidate
<1>3. CASE RejectCandidate(n)
  BY <1>1, <1>3, RejectCandidateKeeps DEF RejectCandidate
<1>4. CASE DisposeParked(n, disposition, snapshot)
  <2>1. /\ entries[n].standing = "parked" /\ snapshot \subseteq {Slots(n)}
        /\ Promote(n) \/ Candidate(n) \/ Retire(n) \/ Detach(n)
    BY <1>4 DEF DisposeParked, SlotsUnmoved
  <2> QED BY <1>1, <2>1, PromoteKeeps, CandidateKeeps, RetireKeeps, DetachKeeps
<1> QED BY <1>2, <1>3, <1>4 DEF ConfirmPreference

------------------------------------------------------------------------------
(* The merge walk. *)

\* Naturals are well-founded: a set of them has a least.
LEMMA SmallestOfSome ==
  ASSUME NEW T, T \subseteq Nat, T # {}
  PROVE  \E x \in T : \A y \in T : x <= y
<1> DEFINE R == OpToRel(<, Nat)
<1>1. IsWellFoundedOn(R, Nat)
  BY NatLessThanWellFounded
<1>2. ASSUME NEW x \in Nat, NEW y \in Nat, y < x PROVE <<y, x>> \in R
  BY <1>2 DEF OpToRel
<1> HIDE DEF R
<1>3. PICK x \in T : \A y \in T : ~ (<<y, x>> \in R)
  BY <1>1, WFMin
<1>4. ASSUME NEW y \in T PROVE x <= y
  <2>1. x \in Nat /\ y \in Nat
    OBVIOUS
  <2>2. ~ (y < x)
    BY <1>2, <1>3, <2>1
  <2> QED BY <2>1, <2>2
<1> QED
  BY <1>4

\* The store at some point of the walk.
Walked(reg, acc) ==
    /\ StoreOK(acc.ns, acc.es, reg, gone) /\ DOMAIN acc.es = DOMAIN entries
    /\ \A n \in DOMAIN entries :
          entries[n].standing = "rejected" => acc.es[n].standing = "rejected"

\* An entry moves to a free slot or is parked.
LEMMA MergedKeeps ==
  ASSUME NEW reg, NEW target \in Domains, reg[target].state # "absent",
         NEW acc, Walked(reg, acc), NEW n \in DOMAIN entries
  PROVE  Walked(reg, Merged(reg, target, acc, n))
<1> DEFINE e0 == acc.es[n]
           slotFree == Slot(acc.es, e0.scope, target, e0.standing) = 0
           clean == CASE e0.standing = "member" -> slotFree
                      [] e0.standing = "candidate" ->
                           slotFree /\ e0.base = ResolvedBase(acc.ns, acc.es, reg, e0.scope, target)
                      [] OTHER -> TRUE
           status == acc.ns[n].status
           ns == Updated(acc.ns, n, status)
           e == [e0 EXCEPT !.domain = target, !.validated = ns[n].version,
                           !.standing = IF clean THEN e0.standing ELSE "parked"]
           es == [acc.es EXCEPT ![n] = e]
<1>1. Merged(reg, target, acc, n) = [ns |-> ns, es |-> es]
  BY DEF Merged
<1>2. /\ StoreOK(acc.ns, acc.es, reg, gone) /\ DOMAIN acc.es = DOMAIN entries
      /\ acc.ns \in Seq(NodeRows) /\ acc.es \in [DOMAIN acc.es -> EntryRows]
      /\ DOMAIN acc.es \subseteq Nat \ {0} /\ DOMAIN acc.es \subseteq DOMAIN acc.ns
      /\ Fit(acc.ns[n], e0) /\ e0.base.node \in DOMAIN acc.ns \cup {0}
  BY Places DEF Walked, StoreOK
<1>3. e0 \in EntryRows /\ n \in DOMAIN acc.ns /\ acc.ns[n] \in NodeRows
  BY <1>2
<1>4. status \in {"current", "provisional", "superseded", "rejected"}
  BY <1>3 DEF NodeRows
<1> HIDE DEF status
<1>5. LET up == Updated(acc.ns, n, status) IN
      /\ up \in Seq(NodeRows) /\ DOMAIN up = DOMAIN acc.ns
      /\ up[n] = [version |-> acc.ns[n].version + 1, status |-> status]
      /\ \A m \in DOMAIN acc.ns \ {n} : up[m] = acc.ns[m]
  <2> DEFINE was == acc.ns
  <2>1. was \in Seq(NodeRows) /\ n \in DOMAIN was
    BY <1>2, <1>3
  <2> HIDE DEF was
  <2>2. LET up == Updated(was, n, status) IN
        /\ up \in Seq(NodeRows) /\ DOMAIN up = DOMAIN was
        /\ up[n] = [version |-> was[n].version + 1, status |-> status]
        /\ \A m \in DOMAIN was \ {n} : up[m] = was[m]
    BY <1>4, <2>1, UpdatedIs
  <2> QED BY <2>2 DEF was
<1>6. ns[n] \in NodeRows /\ ns[n].status = status
  BY <1>3, <1>5
<1>7. /\ ns \in Seq(NodeRows) /\ DOMAIN ns = DOMAIN acc.ns
      /\ \A m \in DOMAIN acc.ns \ {n} : ns[m] = acc.ns[m]
  BY <1>5
<1> HIDE DEF ns
<1>8. ns[n].version \in Nat
  BY <1>6 DEF NodeRows
<1>9. IsSlot(Slot(acc.es, e0.scope, target, e0.standing), acc.es, e0.scope, target, e0.standing)
  BY <1>2, SlotIs
<1>10. /\ e0.standing = "member" /\ clean => slotFree
       /\ e0.standing = "candidate" /\ clean => slotFree
       /\ e0.standing \notin {"member", "candidate"} => clean
  OBVIOUS
<1>11. /\ e.standing = IF clean THEN e0.standing ELSE "parked"
       /\ e.scope = e0.scope /\ e.domain = target /\ e.base = e0.base
       /\ e.validated = ns[n].version /\ e \in EntryRows
  <2> HIDE DEF clean
  <2> QED BY <1>3, <1>8 DEF EntryRows, Standings
<1> HIDE DEF clean, e
<1>12. Fit(ns[n], e)
  <2>1. CASE clean
    BY <2>1, <1>2, <1>6, <1>11 DEF Fit, status
  <2>2. CASE ~ clean
    <3>1. e0.standing \in {"member", "candidate"} /\ e.standing = "parked"
      BY <2>2, <1>10, <1>11
    <3>2. status \in {"current", "provisional"}
      BY <3>1, <1>2 DEF Fit, status
    <3> QED BY <3>1, <3>2, <1>6, <1>11 DEF Fit
  <2> QED BY <2>1, <2>2
<1>13. \A m \in DOMAIN acc.es \ {n} : ~ Clash(acc.es[m], e)
  <2>1. ASSUME NEW m \in DOMAIN acc.es, Clash(acc.es[m], e) PROVE FALSE
    <3>1. /\ acc.es[m].standing = e.standing /\ e.standing \in {"member", "candidate"}
          /\ acc.es[m].scope = e0.scope /\ acc.es[m].domain = target
      BY <2>1, <1>11 DEF Clash
    <3>2. clean /\ e.standing = e0.standing
      BY <3>1, <1>11
    <3>3. Slot(acc.es, e0.scope, target, e0.standing) = 0
      BY <3>1, <3>2, <1>10
    <3> QED BY <3>1, <3>2, <3>3, <1>9 DEF IsSlot
  <2> QED BY <2>1
<1>14. /\ DOMAIN es = DOMAIN acc.es /\ es[n] = e /\ es \in [DOMAIN es -> EntryRows]
       /\ \A m \in DOMAIN acc.es \ {n} : es[m] = acc.es[m]
  BY <1>2, <1>11
<1> HIDE DEF es
<1>15. Put(acc.ns, acc.es, ns, es, n)
  <2>1. DOMAIN ns = DOMAIN acc.ns \cup {n} /\ DOMAIN es = DOMAIN acc.es \cup {n}
    BY <1>2, <1>3, <1>7, <1>14
  <2> QED BY <1>2, <1>3, <1>7, <1>11, <1>12, <1>13, <1>14, <2>1 DEF Put
<1>16. StoreOK(ns, es, reg, gone)
  BY <1>2, <1>11, <1>14, <1>15, PutIsKept
<1>17. ASSUME NEW m \in DOMAIN entries, entries[m].standing = "rejected"
       PROVE  es[m].standing = "rejected"
  <2>1. acc.es[m].standing = "rejected"
    BY <1>17 DEF Walked
  <2>2. m = n => e.standing = "rejected"
    BY <2>1, <1>10, <1>11
  <2> QED BY <2>1, <2>2, <1>2, <1>14
<1> QED BY <1>1, <1>2, <1>14, <1>16, <1>17 DEF Walked

\* The walk over the first N entries of an order.
IsWalk(f, reg, target, order, N) ==
    f = [k \in 0 .. N |-> IF k = 0 THEN [ns |-> nodes, es |-> entries]
                          ELSE Merged(reg, target, f[k - 1], order[k])]

\* A walk of some steps exists.
LEMMA WalkExists ==
  ASSUME NEW reg, NEW target, NEW order, NEW N \in Nat
  PROVE  \E f : IsWalk(f, reg, target, order, N)
<1> DEFINE start == [ns |-> nodes, es |-> entries]
           Walk(f, j) == f = [k \in 0 .. j |-> IF k = 0 THEN start
                                               ELSE Merged(reg, target, f[k - 1], order[k])]
           T == {j \in Nat : ~ \E f : Walk(f, j)}
<1>1. SUFFICES ASSUME T # {} PROVE FALSE
  BY DEF IsWalk
<1>2. PICK j \in T : \A i \in T : j <= i
  <2>1. T \subseteq Nat
    OBVIOUS
  <2> HIDE DEF T
  <2> QED BY <1>1, <2>1, SmallestOfSome
<1>3. j # 0
  <2>1. Walk([k \in 0 .. 0 |-> start], 0)
    <3> HIDE DEF start
    <3> QED OBVIOUS
  <2>2. \E f : Walk(f, 0)
    BY <2>1
  <2> HIDE DEF Walk
  <2> QED BY <1>2, <2>2
<1>4. j - 1 \in Nat /\ j - 1 \notin T
  BY <1>2, <1>3
<1>5. PICK f : Walk(f, j - 1)
  <2> HIDE DEF Walk
  <2> QED BY <1>4
<1> DEFINE g == [k \in 0 .. j |-> IF k = j THEN Merged(reg, target, f[j - 1], order[j]) ELSE f[k]]
<1>6. /\ f[0] = start
      /\ \A k \in 1 .. j - 1 : f[k] = Merged(reg, target, f[k - 1], order[k])
  <2> HIDE DEF start
  <2> QED BY <1>4, <1>5
<1>7. /\ g[0] = start
      /\ \A k \in 1 .. j : g[k] = Merged(reg, target, g[k - 1], order[k])
  <2> HIDE DEF start
  <2>1. g[0] = start
    BY <1>3, <1>4, <1>6
  <2>2. ASSUME NEW k \in 1 .. j - 1 PROVE g[k] = Merged(reg, target, g[k - 1], order[k])
    <3>1. g[k] = f[k] /\ g[k - 1] = f[k - 1]
      BY <1>4
    <3> QED BY <1>6, <3>1
  <2>3. g[j] = Merged(reg, target, g[j - 1], order[j])
    <3>1. g[j] = Merged(reg, target, f[j - 1], order[j]) /\ g[j - 1] = f[j - 1]
      BY <1>4
    <3> QED BY <3>1
  <2>4. \A k \in 1 .. j : k \in 1 .. j - 1 \/ k = j
    BY <1>4
  <2> HIDE DEF g
  <2> QED BY <2>1, <2>2, <2>3, <2>4
<1>8. g = [k \in 0 .. j |-> g[k]]
  OBVIOUS
<1>9. \A k \in 0 .. j : g[k] = IF k = 0 THEN start ELSE Merged(reg, target, g[k - 1], order[k])
  <2> HIDE DEF g, start
  <2> QED BY <1>7
<1>10. Walk(g, j)
  <2> HIDE DEF g, start
  <2> QED BY <1>8, <1>9
<1> HIDE DEF Walk
<1> QED BY <1>2, <1>10

\* Every point of the walk over entries of the store is well-formed.
LEMMA WalkKeeps ==
  ASSUME NEW reg, NEW target \in Domains, reg[target].state # "absent",
         StoreOK(nodes, entries, reg, gone),
         NEW N \in Nat, NEW order, \A k \in 1 .. N : order[k] \in DOMAIN entries,
         NEW f, IsWalk(f, reg, target, order, N)
  PROVE  Walked(reg, f[N])
<1> DEFINE T == {j \in 0 .. N : ~ Walked(reg, f[j])}
<1>1. SUFFICES ASSUME T # {} PROVE FALSE
  BY DEF T
<1>2. PICK j \in T : \A i \in T : j <= i
  <2>1. T \subseteq Nat
    OBVIOUS
  <2> HIDE DEF T
  <2> QED BY <1>1, <2>1, SmallestOfSome
<1>3. /\ f[0] = [ns |-> nodes, es |-> entries]
      /\ \A k \in 1 .. N : f[k] = Merged(reg, target, f[k - 1], order[k])
  BY DEF IsWalk
<1>4. Walked(reg, f[0])
  BY <1>3 DEF Walked
<1>5. j \in 1 .. N /\ Walked(reg, f[j - 1])
  <2>1. j # 0
    BY <1>2, <1>4
  <2> QED BY <1>2, <2>1
<1>6. f[j] = Merged(reg, target, f[j - 1], order[j]) /\ order[j] \in DOMAIN entries
  BY <1>3, <1>5
<1>7. Walked(reg, f[j])
  BY <1>5, <1>6, MergedKeeps
<1> QED BY <1>2, <1>7

LEMMA MergedStoreKeeps ==
  ASSUME NEW reg, NEW target \in Domains, reg[target].state # "absent",
         StoreOK(nodes, entries, reg, gone),
         NEW order, Len(order) \in Nat, \A k \in 1 .. Len(order) : order[k] \in DOMAIN entries
  PROVE  Walked(reg, MergedStore(reg, target, order))
<1> DEFINE N == Len(order)
           after[k \in 0 .. N] == IF k = 0 THEN [ns |-> nodes, es |-> entries]
                                  ELSE Merged(reg, target, after[k - 1], order[k])
<1>1. \E f : f = [k \in 0 .. N |-> IF k = 0 THEN [ns |-> nodes, es |-> entries]
                                   ELSE Merged(reg, target, f[k - 1], order[k])]
  <2>1. N \in Nat
    OBVIOUS
  <2> HIDE DEF N
  <2>2. PICK f : IsWalk(f, reg, target, order, N)
    BY <2>1, WalkExists
  <2>3. f = [k \in 0 .. N |-> IF k = 0 THEN [ns |-> nodes, es |-> entries]
                              ELSE Merged(reg, target, f[k - 1], order[k])]
    BY <2>2 DEF IsWalk
  <2> QED BY <2>3
<1>2. IsWalk(after, reg, target, order, N)
  BY <1>1 DEF IsWalk
<1>3. MergedStore(reg, target, order) = after[N]
  BY DEF MergedStore
<1> HIDE DEF after, N
<1>4. Walked(reg, after[N])
  BY <1>2, WalkKeeps DEF N
<1> QED BY <1>3, <1>4

------------------------------------------------------------------------------
(* The registry's requests, and all of them. *)

\* An order of the merged entries is a sequence of them.
LEMMA OrderIs ==
  ASSUME NEW S, IsFiniteSet(S), NEW order \in SetToSeqs(S)
  PROVE  Len(order) \in Nat /\ \A k \in 1 .. Len(order) : order[k] \in S
<1>1. Cardinality(S) \in Nat
  BY FS_CardinalityType
<1>2. order \in [1 .. Cardinality(S) -> S]
  BY DEF SetToSeqs
<1>3. Len(order) = Cardinality(S)
  BY <1>1, <1>2
<1> QED BY <1>1, <1>2, <1>3

LEMMA AliasKeeps ==
  ASSUME Inv, NEW d \in Domains, NEW target \in Domains, Alias(d, target)
  PROVE  Keeps
<1> DEFINE reg == [registry EXCEPT ![d] = [state |-> "alias", canonical |-> target]]
           merged == {n \in DOMAIN entries : entries[n].domain = d}
<1>1. /\ registry[d].state \in {"pending", "accepted"}
      /\ registry[target].state = "accepted" /\ target # d
      /\ registry' = reg /\ gone' = gone
  BY DEF Alias
<1>2. PICK order \in SetToSeqs(merged) :
         LET end == MergedStore(reg, target, order) IN nodes' = end.ns /\ entries' = end.es
  BY DEF Alias
<1>3. /\ reg \in [Domains -> [state : States, canonical : Domains]]
      /\ reg[d] = [state |-> "alias", canonical |-> target]
      /\ \A k \in Domains \ {d} : reg[k] = registry[k]
  BY DEF Inv, RegistryOK, States
<1> HIDE DEF reg
<1>4. reg[d].state = "alias" /\ reg[d].canonical = target
  BY <1>3
<1>5. /\ \A k \in Domains : registry[k].state # "absent" => reg[k].state # "absent"
      /\ reg[target].state # "absent"
  BY <1>1, <1>3, <1>4
<1>6. RegistryOK(reg)
  <2>1. ASSUME NEW k \in Domains
        PROVE  /\ (reg[k].state = "alias") = (reg[k].canonical # k)
               /\ reg[k].state = "alias" => reg[reg[k].canonical].state # "absent"
    <3>1. CASE k = d
      BY <3>1, <1>1, <1>4, <1>5
    <3>2. CASE k # d
      <4>1. reg[k] = registry[k] /\ registry[k] \in [state : States, canonical : Domains]
        BY <3>2, <1>3 DEF Inv, RegistryOK
      <4>2. registry[k].canonical \in Domains
        BY <4>1
      <4> QED BY <4>1, <4>2, <1>5 DEF Inv, RegistryOK
    <3> QED BY <3>1, <3>2
  <2> QED BY <2>1, <1>3 DEF RegistryOK
<1>7. StoreOK(nodes, entries, reg, gone)
  <2>1. StoreOK(nodes, entries, registry, gone)
    BY DEF Inv
  <2> QED BY <2>1, <1>5, RegistryGrows
<1>8. IsFiniteSet(merged)
  <2>1. merged \subseteq 1 .. Len(nodes) /\ Len(nodes) \in Nat
    BY Places DEF Inv
  <2> HIDE DEF merged
  <2>2. IsFiniteSet(1 .. Len(nodes))
    BY <2>1, FS_Interval
  <2> QED BY <2>1, <2>2, FS_Subset
<1>9. Len(order) \in Nat /\ \A k \in 1 .. Len(order) : order[k] \in DOMAIN entries
  <2>1. merged \subseteq DOMAIN entries
    OBVIOUS
  <2> HIDE DEF merged
  <2> QED BY <2>1, <1>8, OrderIs
<1>10. Walked(reg, MergedStore(reg, target, order))
  BY <1>5, <1>7, <1>9, MergedStoreKeeps
<1>11. Inv'
  BY <1>1, <1>2, <1>6, <1>10 DEF Walked, Inv
<1>12. Stones
  BY <1>2, <1>10 DEF Walked, Stones
<1> QED BY <1>11, <1>12 DEF Keeps

LEMMA ResolveDomainKeeps ==
  ASSUME Inv, NEW d \in Domains, NEW target \in Domains, NEW action,
         ResolveDomain(d, action, target)
  PROVE  Keeps
<1>1. CASE Alias(d, target)
  BY <1>1, AliasKeeps
<1>2. CASE /\ registry[d].state = "pending" /\ UNCHANGED <<store, gone>>
           /\ registry' = [registry EXCEPT
                  ![d].state = IF action = "accept" THEN "accepted" ELSE "rejected"]
  <2>1. /\ registry' \in [Domains -> [state : States, canonical : Domains]]
        /\ registry'[d].state \in {"accepted", "rejected"}
        /\ registry'[d].canonical = registry[d].canonical
        /\ \A k \in Domains \ {d} : registry'[k] = registry[k]
    BY <1>2 DEF Inv, RegistryOK, States
  <2>2. \A k \in Domains : registry[k].state # "absent" => registry'[k].state # "absent"
    BY <2>1
  <2>3. RegistryOK(registry')
    <3>1. ASSUME NEW k \in Domains
          PROVE  /\ (registry'[k].state = "alias") = (registry'[k].canonical # k)
                 /\ registry'[k].state = "alias" => registry'[registry'[k].canonical].state # "absent"
      <4>1. registry[k] \in [state : States, canonical : Domains]
        BY DEF Inv, RegistryOK
      <4>2. registry[k].canonical \in Domains
        BY <4>1
      <4> QED BY <4>2, <1>2, <2>1, <2>2 DEF Inv, RegistryOK
    <3> QED BY <3>1, <2>1 DEF RegistryOK
  <2>4. StoreOK(nodes, entries, registry', gone)
    <3>1. StoreOK(nodes, entries, registry, gone)
      BY DEF Inv
    <3> QED BY <3>1, <2>2, RegistryGrows
  <2> QED BY <1>2, <2>3, <2>4 DEF Keeps, Inv, Stones, store
<1> QED BY <1>1, <1>2 DEF ResolveDomain

\* The payload of a request, waiting or applied at once.
LEMMA PayloadIsOne ==
  ASSUME Inv, NEW r \in Requests
  PROVE  Payloads(Payload(r))
<1>1. CASE r \in [op : {"write"}, domain : Domains, scope : Scopes, inferred : BOOLEAN, new : BOOLEAN]
  <2>1. /\ r.op = "write" /\ r.domain \in Domains /\ r.scope \in Scopes /\ r.inferred \in BOOLEAN
        /\ Payload(r) = [r EXCEPT !.domain = Canonical(r.domain)]
    BY <1>1 DEF Payload
  <2>2. Canonical(r.domain) \in Domains
    BY <2>1, CanonicalIsThere DEF Inv
  <2>3. /\ Payload(r).op = "write" /\ Payload(r).domain \in Domains
        /\ Payload(r).scope \in Scopes /\ Payload(r).inferred \in BOOLEAN
    BY <1>1, <2>1, <2>2
  <2> QED BY <2>3 DEF Payloads
<1>2. CASE r \in [op : {"retire"}, domain : Domains, scope : Scopes]
  <2>1. /\ r.op = "retire" /\ r.domain \in Domains /\ r.scope \in Scopes
        /\ Payload(r) = [r EXCEPT !.domain = Canonical(r.domain)]
    BY <1>2 DEF Payload
  <2>2. Canonical(r.domain) \in Domains
    BY <2>1, CanonicalIsThere DEF Inv
  <2>3. Payload(r).op = "retire" /\ Payload(r).domain \in Domains /\ Payload(r).scope \in Scopes
    BY <1>2, <2>1, <2>2
  <2> QED BY <2>3 DEF Payloads
<1>3. CASE r \in [op : {"confirm"}, node : DOMAIN entries, disposition : Dispositions]
  <2> DEFINE pinned == IF entries[r.node].standing = "parked" THEN {Slots(r.node)} ELSE {}
  <2>1. r.op = "confirm"
        /\ Payload(r) = [op |-> r.op, node |-> r.node, disposition |-> r.disposition,
                         snapshot |-> pinned, shown |-> Shown(r.node)]
    BY <1>3 DEF Payload
  <2>2. pinned \subseteq {Slots(r.node)} /\ Shown(r.node).slots = Slots(r.node)
    BY DEF Shown
  <2> HIDE DEF pinned
  <2>3. /\ Payload(r).op = "confirm" /\ Payload(r).snapshot = pinned
        /\ Payload(r).shown = Shown(r.node)
    BY <2>1
  <2> QED BY <2>2, <2>3 DEF Payloads
<1>4. CASE r \in [op : {"domain"}, domain : Domains, action : {"accept", "reject", "alias"},
                  canonical : Domains]
  <2>1. Payload(r) = r /\ r.op = "domain" /\ r.domain \in Domains /\ r.canonical \in Domains
    BY <1>4 DEF Payload
  <2> QED BY <2>1 DEF Payloads
<1> QED BY <1>1, <1>2, <1>3, <1>4 DEF Requests

\* A payload that is applied, at once or by an approval.
LEMMA ApplyKeeps ==
  ASSUME Inv, NEW r, Payloads(r), Apply(r)
  PROVE  Keeps
<1>1. CASE r.op = "write" /\ WritePreference(r.domain, r.scope, r.inferred, r.new)
  BY <1>1, WriteKeeps DEF Payloads
<1>2. CASE r.op = "retire" /\ RetirePreference(r.domain, r.scope)
  BY <1>2, RetirePreferenceKeeps DEF Payloads
<1>3. CASE r.op = "confirm" /\ ConfirmPreference(r.node, r.disposition, r.snapshot)
  BY <1>3, ConfirmKeeps
<1>4. CASE r.op = "domain" /\ ResolveDomain(r.domain, r.action, r.canonical)
  BY <1>4, ResolveDomainKeeps DEF Payloads
<1> QED BY <1>1, <1>2, <1>3, <1>4 DEF Apply

------------------------------------------------------------------------------
(* The theorems. *)

LEMMA InitIsOK ==
  ASSUME Init
  PROVE  IInv
<1>1. Default \in Domains /\ Seeded \subseteq Domains /\ MaxQueue \in Nat
  BY ProfileAssumption
<1>2. RegistryOK(registry)
  <2>1. registry \in [Domains -> [state : States, canonical : Domains]]
    BY <1>1 DEF Init, States
  <2>2. \A d \in Domains : registry[d].state # "alias" /\ registry[d].canonical = d
    BY DEF Init
  <2> QED BY <2>1, <2>2 DEF RegistryOK
<1>3. StoreOK(nodes, entries, registry, gone)
  <2> DEFINE row == [version |-> 1, status |-> "current"]
             e == [standing |-> "member", scope |-> "global", domain |-> Default,
                   base |-> NoBase, validated |-> 1]
  <2>1. nodes = <<row>> /\ entries = [n \in {1} |-> e] /\ gone = {}
    BY DEF Init
  <2>2. row \in NodeRows /\ e \in EntryRows /\ Fit(row, e) /\ e.base.node = 0
        /\ e.domain = Default /\ e.standing = "member"
    BY <1>1 DEF NodeRows, EntryRows, Bases, Standings, Scopes, NoBase, Fit
  <2>3. registry[Default].state # "absent"
    BY <1>1, ProfileAssumption DEF Init
  <2> HIDE DEF row, e
  <2>4. /\ nodes \in Seq(NodeRows) /\ DOMAIN nodes = {1} /\ nodes[1] = row
        /\ DOMAIN entries = {1} /\ entries[1] = e /\ entries \in [DOMAIN entries -> EntryRows]
    BY <2>1, <2>2
  <2> QED BY <2>1, <2>2, <2>3, <2>4 DEF StoreOK
<1>4. QueueOK
  BY <1>1, FS_EmptySet DEF Init, QueueOK
<1> QED BY <1>2, <1>3, <1>4 DEF IInv

\* A step: what it keeps, and what a request that leaves the queue displaces.
Fair == \A r \in queue \ queue' :
    r.op = "confirm" /\ entries[r.node].standing = "parked" /\ r.snapshot # {} =>
        \A n \in DOMAIN entries \ (DOMAIN entries' \cup {r.node}) :
            Named(entries, n) \in {r.shown.slots.member, r.shown.slots.candidate}

LEMMA StepIsOK ==
  ASSUME IInv, [Next]_vars
  PROVE  IInv' /\ Stones /\ Fair
<1>0. Inv /\ QueueOK
  BY DEF IInv, Inv
<1>1. CASE Request
  <2>1. PICK r \in Requests : Apply(Payload(r))
    BY <1>1 DEF Request
  <2>2. Keeps
    BY <2>1, <1>0, PayloadIsOne, ApplyKeeps
  <2>3. queue' = queue
    BY <1>1 DEF Request
  <2> QED BY <1>0, <2>2, <2>3 DEF Keeps, Inv, IInv, QueueOK, Fair
<1>2. CASE Stage
  <2>1. PICK r \in Requests : queue' = queue \cup {Payload(r)} /\ Cardinality(queue') <= MaxQueue
    BY <1>2 DEF Stage
  <2>2. Payloads(Payload(r))
    BY <1>0, PayloadIsOne
  <2>3. IsFiniteSet(queue')
    BY <2>1, <1>0, FS_AddElement DEF QueueOK
  <2>4. QueueOK'
    BY <1>0, <2>1, <2>2, <2>3 DEF QueueOK
  <2>5. UNCHANGED <<registry, store, gone>>
    BY <1>2 DEF Stage
  <2> QED BY <1>0, <2>1, <2>4, <2>5 DEF Inv, IInv, Stones, Fair, store
<1>3. ASSUME NEW r \in queue, queue' = queue \ {r} PROVE QueueOK'
  <2>1. /\ IsFiniteSet(queue') /\ Cardinality(queue') = Cardinality(queue) - 1
        /\ Cardinality(queue) \in Nat
    BY <1>3, <1>0, FS_RemoveElement, FS_CardinalityType DEF QueueOK
  <2>2. MaxQueue \in Nat
    BY ProfileAssumption
  <2> QED BY <1>0, <1>3, <2>1, <2>2 DEF QueueOK
<1>4. CASE Approve
  <2>1. PICK r \in queue : Apply(r) /\ queue' = queue \ {r}
    BY <1>4 DEF Approve
  <2>2. Payloads(r)
    BY <1>0 DEF QueueOK
  <2>3. Keeps
    BY <2>1, <2>2, <1>0, ApplyKeeps
  <2>4. Fair
    <3>1. SUFFICES ASSUME r.op = "confirm", entries[r.node].standing = "parked", r.snapshot # {},
                          NEW n \in DOMAIN entries \ (DOMAIN entries' \cup {r.node})
                   PROVE  Named(entries, n) \in {r.shown.slots.member, r.shown.slots.candidate}
      BY <2>1 DEF Fair
    <3>2. ConfirmPreference(r.node, r.disposition, r.snapshot)
      BY <2>1, <3>1 DEF Apply
    <3>3. Displaced(r.node) /\ r.snapshot \subseteq {Slots(r.node)}
      BY <1>0, <3>1, <3>2, ConfirmKeeps
    <3>4. r.shown.slots = Slots(r.node)
      BY <2>2, <3>1, <3>3 DEF Payloads
    <3> QED BY <3>1, <3>3, <3>4 DEF Displaced
  <2> QED BY <1>3, <2>1, <2>3, <2>4 DEF Keeps, Inv, IInv
<1>5. CASE Reject
  <2>1. PICK r \in queue : queue' = queue \ {r}
    BY <1>5 DEF Reject
  <2>2. UNCHANGED <<registry, store, gone>>
    BY <1>5 DEF Reject
  <2> QED BY <1>0, <1>3, <2>1, <2>2 DEF Inv, IInv, Stones, Fair, store
<1>6. CASE UNCHANGED vars
  BY <1>6, <1>0 DEF vars, store, Inv, IInv, QueueOK, Stones, Fair
<1> QED BY <1>1, <1>2, <1>4, <1>5, <1>6 DEF Next

\* The invariant holds in every reachable state.
THEOREM Invariance == Spec => []IInv
<1>1. IInv /\ [Next]_vars => IInv'
  BY StepIsOK
<1> QED BY <1>1, InitIsOK, PTL DEF Spec

\* The operator's profile is what it should be at every moment: one rule and one
\* candidate per slot, each with the status its standing calls for and validated as it
\* stands, whatever is written, confirmed, retired, merged or approved, in any order.
THEOREM StandingsHold == Spec => []StandingsAgree
<1>1. IInv => StandingsAgree
  <2> SUFFICES ASSUME IInv PROVE StandingsAgree
    OBVIOUS
  <2>1. RegistryOK(registry) /\ StoreOK(nodes, entries, registry, gone) /\ QueueOK
    BY DEF IInv
  <2>2. /\ \A n \in DOMAIN nodes : nodes[n] \in NodeRows
        /\ \A n \in DOMAIN entries : entries[n] \in EntryRows
    BY <2>1, Places
  <2>3. TypeOK
    <3>1. \A d \in Domains : registry[d] \in [state : States, canonical : Domains]
      BY <2>1 DEF RegistryOK
    <3>2. \A d \in Domains :
            /\ registry[d].state \in {"absent", "accepted", "pending", "rejected", "alias"}
            /\ (registry[d].state = "alias") = (registry[d].canonical # d)
      BY <2>1, <3>1 DEF RegistryOK, States
    <3>3. \A n \in DOMAIN nodes :
            /\ nodes[n].version \in Nat \ {0}
            /\ nodes[n].status \in {"current", "provisional", "superseded", "rejected"}
      BY <2>2 DEF NodeRows
    <3>4. \A n \in DOMAIN entries : entries[n].standing \in Standings /\ entries[n].scope \in Scopes
      BY <2>2 DEF EntryRows
    <3> QED BY <2>1, <3>2, <3>3, <3>4 DEF TypeOK, StoreOK, QueueOK, Fit
  <2>4. SlotsUnique
    BY <2>1 DEF SlotsUnique, StoreOK, Clash
  <2>5. AxesAgree
    BY <2>1 DEF AxesAgree, StoreOK, Fit
  <2> QED BY <2>3, <2>4, <2>5 DEF StandingsAgree
<1> QED BY <1>1, Invariance, PTL

\* A rejected candidate stays rejected, whatever is asked or approved afterwards.
THEOREM TombstonesStand == Spec => TombstoneStands
<1>1. IInv /\ IInv' /\ [Next]_vars =>
        [\A n \in DOMAIN entries : entries[n].standing = "rejected"
            => n \in DOMAIN entries' /\ entries'[n].standing = "rejected"
               /\ nodes'[n].status = "rejected"]_vars
  <2> SUFFICES ASSUME IInv, IInv', [Next]_vars, NEW n \in DOMAIN entries,
                      entries[n].standing = "rejected"
               PROVE  n \in DOMAIN entries' /\ entries'[n].standing = "rejected"
                      /\ nodes'[n].status = "rejected"
    OBVIOUS
  <2>1. n \in DOMAIN entries' /\ entries'[n].standing = "rejected"
    BY StepIsOK DEF Stones
  <2>2. Fit(nodes'[n], entries'[n])
    BY <2>1 DEF IInv, StoreOK
  <2> QED BY <2>1, <2>2 DEF Fit
<1> QED BY <1>1, Invariance, PTL DEF Spec, TombstoneStands

\* An approval that finds its entry parked displaces nothing but what stood in its slots
\* when it was prepared, however long it waited.
THEOREM ApprovalsAreFair == Spec => DisplacesWhatWasShown
<1>1. IInv /\ [Next]_vars =>
        [\A r \in queue \ queue' :
           /\ r.op = "confirm" /\ r.snapshot # {}
           /\ r.node \in DOMAIN entries /\ entries[r.node].standing = "parked"
           =>
               \A n \in DOMAIN entries \ (DOMAIN entries' \cup {r.node}) :
                   Named(entries, n) \in {r.shown.slots.member, r.shown.slots.candidate}]_vars
  BY StepIsOK DEF Fair
<1> QED BY <1>1, Invariance, PTL DEF Spec, DisplacesWhatWasShown
=============================================================================
