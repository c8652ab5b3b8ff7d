--------------------------- MODULE Coverage_proofs ---------------------------
(***************************************************************************)
(* Theorems about the coverage ledger, Coverage, for any tables, reports,  *)
(* decisions and bounds, and about the table a pass is measured on,        *)
(* Manifest, for any changes, texts, slicings and declared lists.  The     *)
(* names of Manifest's machine are prefixed.                               *)
(***************************************************************************)
EXTENDS Coverage, Manifest, FiniteSetTheorems, SequenceTheorems, WellFoundedInduction, TLAPS

------------------------------------------------------------------------------
(* The inductive invariant. *)

IsLog(L) == \E S : L \in Seq(S)

\* A row raised alone is the item's key; a group is named by its item's place.
ForksAreNamed(L) ==
  \A k \in Kind(L, "fork") :
     \/ \E r \in L[k].rows : L[k].key = RowKey(r) /\ L[k].rows = {r}
     \/ L[k].key = GroupKey(k)

\* A keyed answer is to an item raised before it.
AnswersFollow(L) ==
  \A k \in Kind(L, "answer") :
     L[k].key = NoKey \/ \E j \in ForksOf(L, L[k].key) : j < k

\* Reports speak of rows of their table, and tables and allowances are what was posted.
MessagesFit(L) ==
  /\ \A k \in Kind(L, "report") : DOMAIN L[k].rows \subseteq RowsOf[L[k].table]
  /\ \A k \in Kind(L, "allowance") : L[k].n \in Nat
  /\ \A k \in Kind(L, "table") : L[k].table \in Tables

\* A blocker notice stands behind the declaration it holds up.
BlockersFollow(L) ==
  \A n \in Kind(L, "blocked") : n - 1 \in Statuses(L) /\ L[n].for = L[n - 1].for

WellFormed(L) ==
  IsLog(L) /\ ForksAreNamed(L) /\ AnswersFollow(L) /\ MessagesFit(L) /\ BlockersFollow(L)

\* A status is for the version that was the newest when it was posted; the server's own
\* ends the review.
Dated(L, st) ==
  \A k \in Kind(L, "status") :
     /\ L[k].for \in Nat /\ L[k].for <= Latest(L)
     /\ L[k].for = Latest(L) <=> k > Latest(L)
     /\ L[k].who = "system" /\ L[k].for = Latest(L) => st = "converged"
     /\ L[k].who \in {"critic", "system"}

\* A pass is over the newest version, and nothing it was due despite has come up since.
PassIsTyped ==
  /\ pass \in [stage : {"none", "reading", "found", "reported"}, for : Nat,
               table : Tables \cup {NoTable}]
  /\ pass.stage = "none" => pass = NoPass

PassStaysDue ==
  pass # NoPass =>
    pass.for = Latest(log) /\ Latest(log) # 0 /\ ~OpenItems(log) /\ ~TableOwed(log)

\* What awaits its dispositions while a pass runs is what the pass found.
FindsLast(L, p) ==
  p # NoPass /\ Undisposed(L) =>
     LET f == Newest(Kind(L, "findings"))
     IN  p.stage # "reading" /\ ~L[f].empty /\ L[f].for = p.for

\* A declaration that did not end the review was held up by rows, and says by which.
HeldUp(L, st) ==
  LET e == Newest(Statuses(L))
  IN  e # 0 /\ L[e].value = "converged" /\ L[e].for = Latest(L) /\ st # "converged"
      => e + 1 \in Kind(L, "blocked") /\ L[e + 1].unreached # {}

\* KeepGatingHolds, of a log.
Gated(L) ==
  \A k \in Kind(L, "fork") : \A r \in RowsNamed(L, k) : \A j \in Naming(L, "answer", r) :
     j < k /\ L[j].who = "operator" /\ L[j].word = "keep_gating"
     => Cardinality({e \in Statuses(L) : j < e /\ e < k}) >= 2

IInv ==
  /\ WellFormed(log)
  /\ Dated(log, state)
  /\ PassIsTyped
  /\ PassStaysDue
  /\ FindsLast(log, pass)
  /\ HeldUp(log, state)
  /\ ~Questions => Gated(log)

------------------------------------------------------------------------------
(* The newest of some messages. *)

\* Naturals are well-founded: a set of them has a least.
LEMMA SmallestOfSome ==
  ASSUME NEW T, T \subseteq Nat, T # {}
  PROVE  \E x \in T : \A y \in T : x <= y
<1> DEFINE R == OpToRel(<, Nat)
<1>1. IsWellFoundedOn(R, Nat)
  BY NatLessThanWellFounded
<1>2. ASSUME NEW x \in Nat, NEW y \in Nat, y < x PROVE <<y, x>> \in R
  BY <1>2 DEF OpToRel
<1> HIDE DEF R
<1>3. PICK x \in T : \A y \in T : ~ (<<y, x>> \in R)
  BY <1>1, WFMin
<1>4. ASSUME NEW y \in T PROVE x <= y
  <2>1. x \in Nat /\ y \in Nat
    OBVIOUS
  <2>2. ~ (y < x)
    BY <1>2, <1>3, <2>1
  <2> QED BY <2>1, <2>2
<1> QED BY <1>4

\* Counted from the end, the least of some places of a sequence is the last.
LEMMA GreatestOfSome ==
  ASSUME NEW n \in Nat, NEW T, T \subseteq 1 .. n, T # {}
  PROVE  \E x \in T : \A y \in T : y <= x
<1> DEFINE D == {n - x : x \in T}
<1>1. \A x \in T : x \in Nat /\ n - x \in Nat
  OBVIOUS
<1>2. D \subseteq Nat
  BY <1>1
<1>3. D # {}
  <2>1. PICK x : x \in T
    OBVIOUS
  <2>2. n - x \in D
    BY <2>1
  <2> QED BY <2>2
<1>4. PICK d \in D : \A e \in D : d <= e
  <2> HIDE DEF D
  <2> QED BY <1>2, <1>3, SmallestOfSome
<1>5. PICK x \in T : d = n - x
  BY <1>4
<1>6. ASSUME NEW y \in T PROVE y <= x
  <2>1. n - y \in D
    OBVIOUS
  <2>2. n - x <= n - y
    BY <2>1, <1>4, <1>5
  <2> QED BY <2>2, <1>1
<1> QED BY <1>6

LEMMA NewestOfNone == Newest({}) = 0
BY DEF Newest

LEMMA NewestIsLast ==
  ASSUME NEW n \in Nat, NEW S, S \subseteq 1 .. n
  PROVE  /\ Newest(S) \in 0 .. n
         /\ \A j \in S : j <= Newest(S)
         /\ Newest(S) # 0 => Newest(S) \in S
         /\ S # {} => Newest(S) \in S
<1>1. CASE S = {}
  BY <1>1, NewestOfNone
<1>2. CASE S # {}
  <2>1. Newest(S) \in S
    BY <1>2, GreatestOfSome DEF Newest
  <2>2. \A j \in S : j <= Newest(S)
    BY <1>2, GreatestOfSome DEF Newest
  <2>3. Newest(S) \in 0 .. n
    <3>1. \A x \in S : x \in 0 .. n
      OBVIOUS
    <3> QED BY <2>1, <3>1
  <2> QED BY ONLY <1>2, <2>1, <2>2, <2>3
<1> QED BY <1>1, <1>2

------------------------------------------------------------------------------
(* How the log grows. *)

\* M is L with messages of some kinds behind it.
Extends(L, M, kinds) ==
  /\ IsLog(L) /\ IsLog(M)
  /\ Len(L) \in Nat /\ Len(M) \in Nat /\ Len(L) <= Len(M)
  /\ \A k \in 1 .. Len(L) : M[k] = L[k]
  /\ \A k \in Len(L) + 1 .. Len(M) : M[k].kind \in kinds

LEMMA Appended ==
  ASSUME NEW L, IsLog(L), NEW m
  PROVE  /\ Extends(L, Append(L, m), {m.kind})
         /\ Len(L) \in Nat /\ Len(Append(L, m)) = Len(L) + 1
         /\ Append(L, m)[Len(L) + 1] = m
<1>1. PICK S : L \in Seq(S)
  BY DEF IsLog
<1>2. L \in Seq(S \cup {m})
  BY <1>1, SeqMonotonic
<1>3. /\ Append(L, m) \in Seq(S \cup {m})
      /\ Len(L) \in Nat /\ Len(Append(L, m)) = Len(L) + 1
      /\ \A k \in 1 .. Len(L) : Append(L, m)[k] = L[k]
      /\ Append(L, m)[Len(L) + 1] = m
  BY <1>2
<1>4. IsLog(Append(L, m))
  BY <1>3 DEF IsLog
<1> QED BY <1>3, <1>4 DEF Extends

LEMMA Extended ==
  ASSUME NEW L, NEW M, NEW N, NEW A, NEW B, Extends(L, M, A), Extends(M, N, B)
  PROVE  Extends(L, N, A \cup B)
BY DEF Extends

LEMMA Same ==
  ASSUME NEW L, IsLog(L), NEW A
  PROVE  Extends(L, L, A)
BY DEF Extends, IsLog

LEMMA KindGrows ==
  ASSUME NEW L, NEW M, NEW A, Extends(L, M, A), NEW kind
  PROVE  /\ Kind(L, kind) \subseteq 1 .. Len(L) /\ Kind(M, kind) \subseteq 1 .. Len(M)
         /\ Kind(L, kind) \subseteq Kind(M, kind)
         /\ \A k \in Kind(M, kind) : k <= Len(L) => k \in Kind(L, kind)
         /\ \A k \in Kind(L, kind) : M[k] = L[k]
         /\ kind \notin A => Kind(M, kind) = Kind(L, kind)
BY DEF Extends, Kind

------------------------------------------------------------------------------
(* What a reading of the log keeps when the log grows. *)

LEMMA LatestStays ==
  ASSUME NEW L, NEW M, NEW A, Extends(L, M, A), "version" \notin A
  PROVE  Latest(M) = Latest(L) /\ Latest(L) \in 0 .. Len(L)
<1>1. Kind(M, "version") = Kind(L, "version") /\ Kind(L, "version") \subseteq 1 .. Len(L)
  BY KindGrows
<1>2. Len(L) \in Nat
  BY DEF Extends
<1> QED BY <1>1, <1>2, NewestIsLast DEF Latest

LEMMA InForceStays ==
  ASSUME NEW L, NEW M, NEW A, Extends(L, M, A), "table" \notin A, NEW v
  PROVE  TableInForce(M, v) = TableInForce(L, v)
<1>1. /\ Kind(M, "table") = Kind(L, "table") /\ Kind(L, "table") \subseteq 1 .. Len(L)
      /\ \A k \in Kind(L, "table") : M[k] = L[k]
  BY KindGrows
<1>2. TablesFor(M, v) = TablesFor(L, v)
  BY <1>1 DEF TablesFor
<1>3. TablesFor(L, v) # {} => Newest(TablesFor(L, v)) \in TablesFor(L, v)
  <2>1. TablesFor(L, v) \subseteq 1 .. Len(L) /\ Len(L) \in Nat
    BY <1>1 DEF TablesFor, Extends
  <2> QED BY <2>1, NewestIsLast
<1>4. TablesFor(L, v) # {} => M[Newest(TablesFor(L, v))] = L[Newest(TablesFor(L, v))]
  BY <1>1, <1>3 DEF TablesFor
<1> QED BY <1>2, <1>4 DEF TableInForce

\* The table in force is one that was posted.
LEMMA InForceIsPosted ==
  ASSUME NEW L, IsLog(L), MessagesFit(L), NEW v
  PROVE  TableInForce(L, v) \in Tables \cup {NoTable}
<1>1. TablesFor(L, v) \subseteq Kind(L, "table") /\ TablesFor(L, v) \subseteq 1 .. Len(L)
  BY DEF TablesFor, Kind
<1>2. Len(L) \in Nat
  BY DEF IsLog
<1>3. TablesFor(L, v) # {} => Newest(TablesFor(L, v)) \in Kind(L, "table")
  BY <1>1, <1>2, NewestIsLast
<1> QED BY <1>3 DEF TableInForce, MessagesFit

LEMMA ReportsStay ==
  ASSUME NEW L, NEW M, NEW A, Extends(L, M, A), "report" \notin A, NEW v, NEW t
  PROVE  /\ ReportsFor(M, v, t) = ReportsFor(L, v, t)
         /\ ReportsFor(L, v, t) \subseteq 1 .. Len(L)
         /\ \A k \in ReportsFor(L, v, t) : M[k] = L[k]
<1>1. /\ Kind(M, "report") = Kind(L, "report") /\ Kind(L, "report") \subseteq 1 .. Len(L)
      /\ \A k \in Kind(L, "report") : M[k] = L[k]
  BY KindGrows
<1> QED BY <1>1 DEF ReportsFor

\* A keyed answer finds the item it answers.
LEMMA AnswerFinds ==
  ASSUME NEW L, IsLog(L), AnswersFollow(L), NEW k \in Kind(L, "answer"), L[k].key # NoKey
  PROVE  LET before == {j \in ForksOf(L, L[k].key) : j < k}
         IN  Newest(before) \in before /\ before \subseteq 1 .. Len(L)
             /\ \A j \in before : j <= Newest(before)
<1> DEFINE before == {j \in ForksOf(L, L[k].key) : j < k}
<1>1. before \subseteq 1 .. Len(L) /\ Len(L) \in Nat
  BY DEF ForksOf, Kind, IsLog
<1>2. before # {}
  BY DEF AnswersFollow
<1> HIDE DEF before
<1>3. Newest(before) \in before /\ \A j \in before : j <= Newest(before)
  BY <1>1, <1>2, NewestIsLast
<1> QED BY <1>1, <1>3 DEF before

LEMMA NamedStays ==
  ASSUME NEW L, NEW M, NEW A, Extends(L, M, A), AnswersFollow(L),
         NEW kind \in {"fork", "answer"}, NEW k \in Kind(L, kind)
  PROVE  RowsNamed(M, k) = RowsNamed(L, k)
<1>1. M[k] = L[k] /\ L[k].kind = kind /\ k \in 1 .. Len(L)
  <2>1. k \in 1 .. Len(L) /\ L[k].kind = kind
    BY DEF Kind
  <2> QED BY <2>1 DEF Extends
<1>2. CASE kind = "fork" \/ L[k].key = NoKey
  BY <1>1, <1>2 DEF RowsNamed
<1>3. CASE kind = "answer" /\ L[k].key # NoKey
  <2> DEFINE key == L[k].key
             before == {j \in ForksOf(L, key) : j < k}
  <2>1. \A j \in 1 .. Len(L) : M[j] = L[j]
    BY DEF Extends
  <2>2. Len(L) \in Nat /\ Len(M) \in Nat /\ Len(L) <= Len(M)
    BY DEF Extends
  <2>3. {j \in ForksOf(M, key) : j < k} = before
    <3>1. Kind(M, "fork") \subseteq 1 .. Len(M) /\ Kind(L, "fork") \subseteq Kind(M, "fork")
          /\ Kind(L, "fork") \subseteq 1 .. Len(L)
          /\ \A j \in Kind(M, "fork") : j <= Len(L) => j \in Kind(L, "fork")
      BY KindGrows
    <3> QED BY <1>1, <2>1, <2>2, <3>1 DEF ForksOf
  <2>4. Newest(before) \in before /\ before \subseteq 1 .. Len(L)
    BY <1>3, AnswerFinds DEF Extends
  <2>5. M[Newest(before)] = L[Newest(before)]
    <3> HIDE DEF before
    <3> QED BY <2>1, <2>4
  <2> QED BY <1>1, <1>3, <2>3, <2>5 DEF RowsNamed
<1> QED BY <1>2, <1>3

LEMMA NamingStays ==
  ASSUME NEW L, NEW M, NEW A, Extends(L, M, A), AnswersFollow(L),
         NEW kind \in {"fork", "answer"}, NEW r
  PROVE  /\ Naming(L, kind, r) \subseteq Naming(M, kind, r)
         /\ \A k \in Naming(M, kind, r) : k <= Len(L) => k \in Naming(L, kind, r)
         /\ Naming(M, kind, r) \subseteq 1 .. Len(M) /\ Naming(L, kind, r) \subseteq 1 .. Len(L)
         /\ \A k \in Naming(L, kind, r) : M[k] = L[k]
         /\ kind \notin A => Naming(M, kind, r) = Naming(L, kind, r)
<1>1. /\ Kind(L, kind) \subseteq 1 .. Len(L) /\ Kind(M, kind) \subseteq 1 .. Len(M)
      /\ Kind(L, kind) \subseteq Kind(M, kind)
      /\ \A k \in Kind(M, kind) : k <= Len(L) => k \in Kind(L, kind)
      /\ \A k \in Kind(L, kind) : M[k] = L[k]
      /\ kind \notin A => Kind(M, kind) = Kind(L, kind)
  BY KindGrows
<1>2. \A k \in Kind(L, kind) : RowsNamed(M, k) = RowsNamed(L, k)
  BY NamedStays
<1> QED BY <1>1, <1>2 DEF Naming

LEMMA EscalatedStay ==
  ASSUME NEW L, NEW M, NEW A, Extends(L, M, A), AnswersFollow(L),
         "fork" \notin A, "answer" \notin A
  PROVE  EscalatedRows(M) = EscalatedRows(L)
<1>1. \A r : /\ Naming(M, "fork", r) = Naming(L, "fork", r)
             /\ Naming(M, "answer", r) = Naming(L, "answer", r)
             /\ \A k \in Naming(L, "answer", r) : M[k] = L[k]
  BY NamingStays
<1>2. \A r : /\ \A j \in Naming(M, "answer", r) : Lapses(M[j]) => j < Newest(Naming(M, "fork", r))
         <=> \A j \in Naming(L, "answer", r) : Lapses(L[j]) => j < Newest(Naming(L, "fork", r))
  BY <1>1
<1> QED BY <1>1, <1>2 DEF EscalatedRows

LEMMA ExemptStay ==
  ASSUME NEW L, NEW M, NEW A, Extends(L, M, A), "exempted" \notin A, NEW t
  PROVE  ScopeExempt(M, t) = ScopeExempt(L, t)
<1>1. Kind(M, "exempted") = Kind(L, "exempted")
  BY KindGrows
<1> QED BY <1>1 DEF ScopeExempt

LEMMA VerdictStays ==
  ASSUME NEW L, NEW M, NEW A, Extends(L, M, A),
         "version" \notin A, "table" \notin A, "report" \notin A, NEW r
  PROVE  Verdict(M, r) = Verdict(L, r)
<1> DEFINE v       == Latest(L)
           reports == ReportsFor(L, v, TableInForce(L, v))
           naming  == {k \in reports : r \in DOMAIN L[k].rows}
           k       == Newest(IF Questions THEN naming ELSE reports)
<1>1. /\ Latest(M) = v /\ TableInForce(M, v) = TableInForce(L, v)
      /\ ReportsFor(M, v, TableInForce(L, v)) = reports
      /\ \A j \in reports : M[j] = L[j]
  BY LatestStays, InForceStays, ReportsStay
<1>2. {j \in reports : r \in DOMAIN M[j].rows} = naming
  <2> HIDE DEF reports
  <2> QED BY <1>1
<1>3. k \in naming => M[k] = L[k]
  <2> HIDE DEF reports, k
  <2> QED BY <1>1
<1>4. Verdict(L, r) = IF k \in naming THEN L[k].rows[r] ELSE "none"
  BY DEF Verdict
<1>5. Verdict(M, r) = IF k \in naming THEN M[k].rows[r] ELSE "none"
  <2>1. Verdict(M, r) =
           LET vM       == Latest(M)
               reportsM == ReportsFor(M, vM, TableInForce(M, vM))
               namingM  == {j \in reportsM : r \in DOMAIN M[j].rows}
               kM       == Newest(IF Questions THEN namingM ELSE reportsM)
           IN  IF kM \in namingM THEN M[kM].rows[r] ELSE "none"
    BY DEF Verdict
  <2>2. ReportsFor(M, Latest(M), TableInForce(M, Latest(M))) = reports
    BY <1>1
  <2> HIDE DEF reports
  <2>3. {j \in ReportsFor(M, Latest(M), TableInForce(M, Latest(M))) :
                 r \in DOMAIN M[j].rows} = naming
    BY <2>2, <1>2
  <2> HIDE DEF naming
  <2> QED BY <2>1, <2>2, <2>3
<1> QED BY <1>3, <1>4, <1>5

LEMMA BlockersStay ==
  ASSUME NEW L, NEW M, NEW A, Extends(L, M, A), AnswersFollow(L),
         A \cap {"version", "table", "report", "fork", "answer", "exempted"} = {}
  PROVE  Blockers(M) = Blockers(L)
<1>0. /\ "version" \notin A /\ "table" \notin A /\ "report" \notin A
      /\ "fork" \notin A /\ "answer" \notin A /\ "exempted" \notin A
  OBVIOUS
<1>1. /\ Latest(M) = Latest(L)
      /\ TableInForce(M, Latest(M)) = TableInForce(L, Latest(L))
      /\ EscalatedRows(M) = EscalatedRows(L)
      /\ ScopeExempt(M, TableInForce(L, Latest(L))) = ScopeExempt(L, TableInForce(L, Latest(L)))
  BY <1>0, LatestStays, InForceStays, EscalatedStay, ExemptStay
<1>2. \A r : Verdict(M, r) = Verdict(L, r)
  BY <1>0, VerdictStays
<1> QED BY <1>1, <1>2 DEF Blockers

\* Blockers are rows of a table, and so finitely many.
LEMMA BlockersAreRows ==
  ASSUME NEW L, IsLog(L), MessagesFit(L)
  PROVE  IsFiniteSet(Blockers(L)) /\ Cardinality(Blockers(L)) \in Nat
<1> DEFINE t == TableInForce(L, Latest(L))
<1>1. CASE t = NoTable
  <2>1. Blockers(L) = {}
    BY <1>1 DEF Blockers
  <2> QED BY <2>1, FS_EmptySet
<1>2. CASE t # NoTable
  <2>1. t \in Tables
    BY <1>2, InForceIsPosted
  <2>2. Blockers(L) \subseteq RowsOf[t]
    BY <1>2 DEF Blockers
  <2>3. IsFiniteSet(RowsOf[t])
    BY <2>1, CoverageAssumption
  <2> QED BY <2>2, <2>3, FS_Subset, FS_CardinalityType
<1> QED BY <1>1, <1>2
------------------------------------------------------------------------------
(* The allowance, raised message by message. *)

Raised(L, k, before) ==
  IF L[k].kind = "allowance" /\ (L[k].n <= before \/ L[k].who = "operator")
  THEN L[k].n ELSE before

Count(f, L, N) ==
  f = [k \in 0 .. N |-> IF k = 0 THEN 0
                        ELSE IF L[k].kind = "allowance" /\ (L[k].n <= f[k - 1] \/ L[k].who = "operator")
                        THEN L[k].n ELSE f[k - 1]]

\* A count is one step after another.
LEMMA CountIsStepwise ==
  ASSUME NEW L, NEW N \in Nat, NEW f, Count(f, L, N)
  PROVE  f[0] = 0 /\ \A k \in 1 .. N : f[k] = Raised(L, k, f[k - 1])
BY DEF Count, Raised

LEMMA CountExists ==
  ASSUME NEW L, NEW N \in Nat
  PROVE  \E f : Count(f, L, N)
<1> DEFINE T == {j \in Nat : ~ \E f : Count(f, L, j)}
<1>1. SUFFICES ASSUME T # {} PROVE FALSE
  OBVIOUS
<1>2. PICK j \in T : \A i \in T : j <= i
  <2>1. T \subseteq Nat
    OBVIOUS
  <2> HIDE DEF T
  <2> QED BY <1>1, <2>1, SmallestOfSome
<1>3. j # 0
  <2>1. Count([k \in 0 .. 0 |-> 0], L, 0)
    BY DEF Count
  <2>2. \E f : Count(f, L, 0)
    BY <2>1
  <2> QED BY <1>2, <2>2
<1>4. j - 1 \in Nat /\ j - 1 \notin T
  BY <1>2, <1>3
<1>5. PICK f : Count(f, L, j - 1)
  BY <1>4
<1>6. f[0] = 0 /\ \A k \in 1 .. j - 1 : f[k] = Raised(L, k, f[k - 1])
  BY <1>4, <1>5, CountIsStepwise
<1> DEFINE g == [k \in 0 .. j |-> IF k = j THEN Raised(L, j, f[j - 1]) ELSE f[k]]
<1>7. g[0] = 0 /\ \A k \in 1 .. j : g[k] = Raised(L, k, g[k - 1])
  <2>1. g[0] = 0
    BY <1>3, <1>4, <1>6
  <2>2. ASSUME NEW k \in 1 .. j - 1 PROVE g[k] = Raised(L, k, g[k - 1])
    <3>1. g[k] = f[k] /\ g[k - 1] = f[k - 1]
      BY <1>4
    <3> QED BY <1>6, <3>1
  <2>3. g[j] = Raised(L, j, g[j - 1])
    <3>1. g[j] = Raised(L, j, f[j - 1]) /\ g[j - 1] = f[j - 1]
      BY <1>4
    <3> QED BY <3>1
  <2>4. \A k \in 1 .. j : k \in 1 .. j - 1 \/ k = j
    BY <1>4
  <2> HIDE DEF g
  <2> QED BY <2>1, <2>2, <2>3, <2>4
<1>8. g = [k \in 0 .. j |-> IF k = 0 THEN 0 ELSE Raised(L, k, g[k - 1])]
  <2>1. g = [k \in 0 .. j |-> g[k]]
    OBVIOUS
  <2> HIDE DEF g
  <2>2. \A k \in 0 .. j : k = 0 \/ k \in 1 .. j
    BY <1>4
  <2> QED BY <1>7, <2>1, <2>2
<1>9. Count(g, L, j)
  <2> HIDE DEF g
  <2> QED BY <1>8 DEF Count, Raised
<1> QED BY <1>2, <1>9

\* What the count comes to.
Total(L) == CHOOSE f : Count(f, L, Len(L))

LEMMA AllowanceIsCounted ==
  ASSUME NEW L, IsLog(L)
  PROVE  /\ Count(Total(L), L, Len(L))
         /\ Allowance(L) = IF Questions /\ TableInForce(L, Latest(L)) # NoTable THEN 0
                           ELSE Total(L)[Len(L)]
<1>1. Len(L) \in Nat
  BY DEF IsLog
<1>2. Count(Total(L), L, Len(L))
  BY <1>1, CountExists DEF Total
<1>3. Allowance(L) = IF Questions /\ TableInForce(L, Latest(L)) # NoTable THEN 0
                     ELSE Total(L)[Len(L)]
  BY DEF Allowance, Total, Count
<1> QED BY <1>2, <1>3

LEMMA AllowanceCounts ==
  ASSUME NEW L, IsLog(L), MessagesFit(L)
  PROVE  Allowance(L) \in Nat
<1> DEFINE f == Total(L)
           T == {j \in 0 .. Len(L) : f[j] \notin Nat}
<1>1. Len(L) \in Nat
  BY DEF IsLog
<1>2. f[0] = 0 /\ \A k \in 1 .. Len(L) : f[k] = Raised(L, k, f[k - 1])
  BY <1>1, AllowanceIsCounted, CountIsStepwise
<1> HIDE DEF f
<1>3. T = {}
  <2> SUFFICES ASSUME T # {} PROVE FALSE
    OBVIOUS
  <2>1. PICK j \in T : \A i \in T : j <= i
    <3>1. T \subseteq Nat
      BY <1>1
    <3> HIDE DEF T
    <3> QED BY <3>1, SmallestOfSome
  <2>2. j \in 1 .. Len(L) /\ j - 1 \in 0 .. Len(L) /\ j - 1 \notin T
    BY <1>1, <1>2, <2>1
  <2>3. f[j - 1] \in Nat
    BY <2>2
  <2>4. L[j].kind = "allowance" => L[j].n \in Nat
    BY <2>2 DEF MessagesFit, Kind
  <2> QED BY <1>2, <2>1, <2>2, <2>3, <2>4 DEF Raised
<1>4. f[Len(L)] \in Nat
  BY <1>1, <1>3
<1> QED BY <1>4, AllowanceIsCounted DEF f

LEMMA AllowanceStays ==
  ASSUME NEW L, NEW M, NEW A, Extends(L, M, A),
         "version" \notin A, "table" \notin A, "allowance" \notin A
  PROVE  Allowance(M) = Allowance(L)
<1> DEFINE f == Total(L)
           g == Total(M)
           T == {j \in 0 .. Len(L) : f[j] # g[j]}
           U == {j \in Len(L) .. Len(M) : f[Len(L)] # g[j]}
<1>1. /\ IsLog(L) /\ IsLog(M) /\ Len(L) \in Nat /\ Len(M) \in Nat /\ Len(L) <= Len(M)
      /\ \A k \in 1 .. Len(L) : M[k] = L[k]
      /\ \A k \in Len(L) + 1 .. Len(M) : M[k].kind # "allowance"
  BY DEF Extends
<1>2. f[0] = 0 /\ \A k \in 1 .. Len(L) : f[k] = Raised(L, k, f[k - 1])
  BY <1>1, AllowanceIsCounted, CountIsStepwise
<1>3. g[0] = 0 /\ \A k \in 1 .. Len(M) : g[k] = Raised(M, k, g[k - 1])
  <2>1. Count(g, M, Len(M))
    BY <1>1, AllowanceIsCounted
  <2>2. Len(M) \in Nat
    BY <1>1
  <2> HIDE DEF g
  <2> QED BY ONLY <2>1, <2>2, CountIsStepwise
<1> HIDE DEF f, g
<1>4. T = {}
  <2> SUFFICES ASSUME T # {} PROVE FALSE
    OBVIOUS
  <2>1. PICK j \in T : \A i \in T : j <= i
    <3>1. T \subseteq Nat
      BY <1>1
    <3> HIDE DEF T
    <3> QED BY <3>1, SmallestOfSome
  <2>2. j \in 1 .. Len(L) /\ j \in 1 .. Len(M) /\ j - 1 \in 0 .. Len(L) /\ j - 1 \notin T
    BY <1>1, <1>2, <1>3, <2>1
  <2>3. f[j - 1] = g[j - 1] /\ M[j] = L[j]
    BY <1>1, <2>2
  <2> QED BY <1>2, <1>3, <2>1, <2>2, <2>3 DEF Raised
<1>5. U = {}
  <2> SUFFICES ASSUME U # {} PROVE FALSE
    OBVIOUS
  <2>1. PICK j \in U : \A i \in U : j <= i
    <3>1. U \subseteq Nat
      BY <1>1
    <3> HIDE DEF U
    <3> QED BY <3>1, SmallestOfSome
  <2>2. f[Len(L)] = g[Len(L)]
    BY <1>1, <1>4
  <2>3. /\ j \in Len(L) + 1 .. Len(M) /\ j \in 1 .. Len(M)
        /\ j - 1 \in Len(L) .. Len(M) /\ j - 1 \notin U
    BY <1>1, <2>1, <2>2
  <2>4. f[Len(L)] = g[j - 1] /\ M[j].kind # "allowance"
    BY <1>1, <2>3
  <2> QED BY <1>3, <2>1, <2>3, <2>4 DEF Raised
<1>6. f[Len(L)] = g[Len(M)]
  BY <1>1, <1>5
<1>7. Latest(M) = Latest(L) /\ TableInForce(M, Latest(M)) = TableInForce(L, Latest(L))
  BY LatestStays, InForceStays
<1> QED BY <1>1, <1>6, <1>7, AllowanceIsCounted DEF f, g
------------------------------------------------------------------------------
(* The log stays well formed. *)

\* What a message must be to follow L.
Fitting(L, m) ==
  /\ m.kind = "fork" => \/ \E r \in m.rows : m.key = RowKey(r) /\ m.rows = {r}
                        \/ m.key = GroupKey(Len(L) + 1)
  /\ m.kind = "answer" => m.key = NoKey \/ ForksOf(L, m.key) # {}
  /\ m.kind = "report" => DOMAIN m.rows \subseteq RowsOf[m.table]
  /\ m.kind = "allowance" => m.n \in Nat
  /\ m.kind = "table" => m.table \in Tables
  /\ m.kind = "blocked" => Len(L) \in Statuses(L) /\ m.for = L[Len(L)].for

\* What a longer log says of a place of the shorter one, and of a new place.
LEMMA AppendedKind ==
  ASSUME NEW L, IsLog(L), NEW m, NEW kind, NEW k \in Kind(Append(L, m), kind)
  PROVE  \/ k \in Kind(L, kind) /\ k \in 1 .. Len(L) /\ Append(L, m)[k] = L[k]
         \/ k = Len(L) + 1 /\ Append(L, m)[k] = m /\ m.kind = kind
<1>1. /\ Extends(L, Append(L, m), {m.kind})
      /\ Len(L) \in Nat /\ Len(Append(L, m)) = Len(L) + 1
      /\ Append(L, m)[Len(L) + 1] = m
  BY Appended
<1> HIDE DEF Extends
<1>2. k \in 1 .. Len(L) + 1 /\ Append(L, m)[k].kind = kind
  BY <1>1 DEF Kind
<1>3. CASE k = Len(L) + 1
  BY <1>1, <1>2, <1>3
<1>4. CASE k \in 1 .. Len(L)
  <2>1. Append(L, m)[k] = L[k]
    BY <1>1, <1>4 DEF Extends
  <2> QED BY <1>2, <1>4, <2>1 DEF Kind
<1> QED BY <1>1, <1>2, <1>3, <1>4

LEMMA AppendFits ==
  ASSUME NEW L, WellFormed(L), NEW m, Fitting(L, m)
  PROVE  WellFormed(Append(L, m)) /\ Extends(L, Append(L, m), {m.kind})
<1> DEFINE M == Append(L, m)
<1>0. IsLog(L)
  BY DEF WellFormed
<1>1. /\ Extends(L, M, {m.kind}) /\ IsLog(M)
      /\ Len(L) \in Nat /\ Len(M) = Len(L) + 1 /\ M[Len(L) + 1] = m
  BY <1>0, Appended DEF Extends
<1>2. \A kind : \A k \in Kind(M, kind) :
         \/ k \in Kind(L, kind) /\ k \in 1 .. Len(L) /\ M[k] = L[k]
         \/ k = Len(L) + 1 /\ M[k] = m /\ m.kind = kind
  BY <1>0, AppendedKind
<1>3. \A kind : Kind(L, kind) \subseteq Kind(M, kind) /\ Kind(L, kind) \subseteq 1 .. Len(L)
                /\ \A k \in Kind(L, kind) : M[k] = L[k]
  BY <1>1, KindGrows
<1> HIDE DEF M
<1>4. ForksAreNamed(M)
  <2> SUFFICES ASSUME NEW k \in Kind(M, "fork")
               PROVE  \/ \E r \in M[k].rows : M[k].key = RowKey(r) /\ M[k].rows = {r}
                      \/ M[k].key = GroupKey(k)
    BY DEF ForksAreNamed
  <2>1. CASE k \in Kind(L, "fork") /\ M[k] = L[k]
    BY <2>1 DEF WellFormed, ForksAreNamed
  <2>2. CASE k = Len(L) + 1 /\ M[k] = m /\ m.kind = "fork"
    BY <2>2 DEF Fitting
  <2> QED BY <1>2, <2>1, <2>2
<1>5. AnswersFollow(M)
  <2>0. \A key : ForksOf(L, key) \subseteq ForksOf(M, key) /\ ForksOf(L, key) \subseteq 1 .. Len(L)
    BY <1>3 DEF ForksOf
  <2> SUFFICES ASSUME NEW k \in Kind(M, "answer")
               PROVE  M[k].key = NoKey \/ \E j \in ForksOf(M, M[k].key) : j < k
    BY DEF AnswersFollow
  <2>1. CASE k \in Kind(L, "answer") /\ M[k] = L[k]
    <3>1. L[k].key = NoKey \/ \E j \in ForksOf(L, L[k].key) : j < k
      BY <2>1 DEF WellFormed, AnswersFollow
    <3>2. ForksOf(L, L[k].key) \subseteq ForksOf(M, L[k].key)
      BY <2>0
    <3>3. M[k].key = L[k].key
      BY <2>1
    <3> QED BY <3>1, <3>2, <3>3
  <2>2. CASE k = Len(L) + 1 /\ M[k] = m /\ m.kind = "answer"
    <3>1. ASSUME m.key # NoKey PROVE \E j \in ForksOf(M, m.key) : j < k
      <4>1. PICK j : j \in ForksOf(L, m.key)
        BY <2>2, <3>1 DEF Fitting
      <4>2. j \in ForksOf(M, m.key) /\ j \in 1 .. Len(L)
        BY <2>0, <4>1
      <4> QED BY <1>1, <2>2, <4>2
    <3> QED BY <2>2, <3>1
  <2>3. \/ k \in Kind(L, "answer") /\ M[k] = L[k]
        \/ k = Len(L) + 1 /\ M[k] = m /\ m.kind = "answer"
    BY <1>2
  <2> QED BY <2>1, <2>2, <2>3
<1>6. MessagesFit(M)
  <2>1. \A k \in Kind(M, "report") : DOMAIN M[k].rows \subseteq RowsOf[M[k].table]
    BY <1>2 DEF WellFormed, MessagesFit, Fitting
  <2>2. \A k \in Kind(M, "allowance") : M[k].n \in Nat
    BY <1>2 DEF WellFormed, MessagesFit, Fitting
  <2>3. \A k \in Kind(M, "table") : M[k].table \in Tables
    BY <1>2 DEF WellFormed, MessagesFit, Fitting
  <2> QED BY <2>1, <2>2, <2>3 DEF MessagesFit
<1>7. BlockersFollow(M)
  <2>0. \A k \in Statuses(L) : k \in Statuses(M) /\ M[k] = L[k]
    BY <1>3 DEF Statuses
  <2> SUFFICES ASSUME NEW k \in Kind(M, "blocked")
               PROVE  k - 1 \in Statuses(M) /\ M[k].for = M[k - 1].for
    BY DEF BlockersFollow
  <2>1. CASE k \in Kind(L, "blocked") /\ M[k] = L[k]
    <3>1. k - 1 \in Statuses(L) /\ L[k].for = L[k - 1].for
      BY <2>1 DEF WellFormed, BlockersFollow
    <3> QED BY <2>0, <2>1, <3>1
  <2>2. CASE k = Len(L) + 1 /\ M[k] = m /\ m.kind = "blocked"
    <3>1. Len(L) \in Statuses(L) /\ m.for = L[Len(L)].for /\ k - 1 = Len(L)
      BY <1>1, <2>2 DEF Fitting
    <3> QED BY <2>0, <2>2, <3>1
  <2> QED BY <1>2, <2>1, <2>2
<1> QED BY <1>1, <1>4, <1>5, <1>6, <1>7 DEF WellFormed, M

\* An item raised: over one row under the row's key, over several under its own place.
LEMMA ForkFits ==
  ASSUME NEW L, WellFormed(L), NEW rows, IsFiniteSet(rows)
  PROVE  WellFormed(Fork(L, rows)) /\ Extends(L, Fork(L, rows), {"fork"})
<1> DEFINE m == [kind |-> "fork", rows |-> rows,
                 key |-> IF Cardinality(rows) = 1 THEN RowKey(CHOOSE r \in rows : TRUE)
                                                  ELSE GroupKey(Len(L) + 1)]
<1>1. CASE rows = {}
  <2>1. Fork(L, rows) = L
    BY <1>1 DEF Fork
  <2> QED BY <2>1, Same DEF WellFormed
<1>2. CASE rows # {}
  <2>1. Fork(L, rows) = Append(L, m)
    BY <1>2 DEF Fork
  <2>2. Fitting(L, m)
    <3>1. CASE Cardinality(rows) = 1
      <4>1. PICK x : rows = {x}
        BY <3>1, FS_Singleton
      <4>2. (CHOOSE r \in rows : TRUE) = x
        BY <4>1
      <4>3. m.kind = "fork" /\ m.rows = {x} /\ m.key = RowKey(x)
        BY <3>1, <4>1, <4>2
      <4> QED BY <4>3 DEF Fitting
    <3>2. CASE Cardinality(rows) # 1
      <4>1. m.kind = "fork" /\ m.key = GroupKey(Len(L) + 1)
        BY <3>2
      <4> QED BY <4>1 DEF Fitting
    <3> QED BY <3>1, <3>2
  <2>3. m.kind = "fork"
    OBVIOUS
  <2> HIDE DEF m
  <2>4. WellFormed(Append(L, m)) /\ Extends(L, Append(L, m), {"fork"})
    BY <2>2, <2>3, AppendFits
  <2> QED BY <2>1, <2>4
<1> QED BY <1>1, <1>2

\* A verdict on a row comes from a report on the row's table.
LEMMA VerdictIsOfTable ==
  ASSUME NEW L, IsLog(L), MessagesFit(L), NEW r, Verdict(L, r) # "none"
  PROVE  r \in RowsOf[TableInForce(L, Latest(L))]
<1> DEFINE v       == Latest(L)
           reports == ReportsFor(L, v, TableInForce(L, v))
           naming  == {k \in reports : r \in DOMAIN L[k].rows}
           k       == Newest(IF Questions THEN naming ELSE reports)
<1>1. Verdict(L, r) = IF k \in naming THEN L[k].rows[r] ELSE "none"
  BY DEF Verdict
<1>2. k \in naming
  BY <1>1
<1>3. k \in Kind(L, "report") /\ L[k].table = TableInForce(L, v) /\ r \in DOMAIN L[k].rows
  BY <1>2 DEF ReportsFor
<1> QED BY <1>3 DEF MessagesFit

LEMMA FailingIsFinite ==
  ASSUME NEW L, IsLog(L), MessagesFit(L), TableInForce(L, Latest(L)) # NoTable,
         NEW verdict, verdict # "none"
  PROVE  IsFiniteSet(Failing(L, verdict))
<1>1. TableInForce(L, Latest(L)) \in Tables
  BY InForceIsPosted
<1>2. IsFiniteSet(RowsOf[TableInForce(L, Latest(L))])
  BY <1>1, CoverageAssumption
<1>3. Failing(L, verdict) \subseteq RowsOf[TableInForce(L, Latest(L))]
  BY VerdictIsOfTable DEF Failing
<1> QED BY <1>2, <1>3, FS_Subset

LEMMA PersistentIsFinite ==
  ASSUME NEW L, IsLog(L), MessagesFit(L)
  PROVE  IsFiniteSet(Persistent(L))
<1> DEFINE t == TableInForce(L, Latest(L))
<1>1. CASE Persistent(L) = {}
  BY <1>1, FS_EmptySet
<1>2. CASE Persistent(L) # {}
  <2>1. t # NoTable /\ Persistent(L) \subseteq RowsOf[t]
    BY <1>2 DEF Persistent
  <2>2. t \in Tables
    BY <2>1, InForceIsPosted
  <2>3. IsFiniteSet(RowsOf[t])
    BY <2>2, CoverageAssumption
  <2> QED BY <2>1, <2>3, FS_Subset
<1> QED BY <1>1, <1>2
LEMMA EscalateFits ==
  ASSUME NEW L, WellFormed(L)
  PROVE  WellFormed(Escalate(L)) /\ Extends(L, Escalate(L), {"fork"})
<1>0. IsLog(L) /\ MessagesFit(L)
  BY DEF WellFormed
<1>1. CASE Questions /\ TableInForce(L, Latest(L)) # NoTable
  <2> DEFINE cannot == Failing(L, "cannot_reach")
             failed == Failing(L, "instrument_failure")
             once == Fork(L, cannot)
  <2>1. Escalate(L) = Fork(once, failed)
    BY <1>1 DEF Escalate
  <2>2. IsFiniteSet(cannot) /\ IsFiniteSet(failed)
    BY <1>0, <1>1, FailingIsFinite
  <2> HIDE DEF cannot, failed
  <2>3. WellFormed(once) /\ Extends(L, once, {"fork"})
    BY <2>2, ForkFits
  <2> HIDE DEF once
  <2>4. WellFormed(Fork(once, failed)) /\ Extends(once, Fork(once, failed), {"fork"})
    BY <2>2, <2>3, ForkFits
  <2>5. Extends(L, Fork(once, failed), {"fork"} \cup {"fork"})
    BY <2>3, <2>4, Extended
  <2>6. {"fork"} \cup {"fork"} = {"fork"}
    OBVIOUS
  <2> QED BY <2>1, <2>4, <2>5, <2>6
<1>2. CASE ~(Questions /\ TableInForce(L, Latest(L)) # NoTable)
  <2> DEFINE rows == IF CoverageBlocked(L) THEN Persistent(L) ELSE {}
  <2>1. Escalate(L) = Fork(L, rows)
    BY <1>2 DEF Escalate
  <2>2. IsFiniteSet(rows)
    BY <1>0, PersistentIsFinite, FS_EmptySet
  <2> HIDE DEF rows
  <2> QED BY <2>1, <2>2, ForkFits
<1> QED BY <1>1, <1>2

\* The message that settles the ledger is followed by the server's status, or by nothing.
Ends(L) == [kind |-> "status", who |-> "system", for |-> Latest(L), value |-> "converged"]

LEMMA SelfCompleteFits ==
  ASSUME NEW L, WellFormed(L), NEW st, SelfComplete(L, st)
  PROVE  /\ WellFormed(log') /\ Extends(L, log', {"status"})
         /\ \/ log' = L /\ state' = st
            \/ /\ Convergeable(L) /\ Declared(L)
               /\ log' = Append(L, Ends(L)) /\ state' = "converged"
<1>1. CASE log' = L /\ state' = st
  BY <1>1, Same DEF WellFormed
<1>2. CASE ~(log' = L /\ state' = st)
  <2>1. /\ Convergeable(L) /\ Declared(L)
        /\ log' = Append(L, Ends(L)) /\ state' = "converged"
    BY <1>2 DEF SelfComplete, Ends
  <2>2. Ends(L).kind = "status"
    BY DEF Ends
  <2>3. Fitting(L, Ends(L))
    BY <2>2 DEF Fitting
  <2>4. WellFormed(Append(L, Ends(L))) /\ Extends(L, Append(L, Ends(L)), {"status"})
    BY <2>2, <2>3, AppendFits
  <2> QED BY <2>1, <2>4
<1> QED BY <1>1, <1>2
------------------------------------------------------------------------------
(* A converged review is measured. *)

\* Items under one key are about the same rows, and none is without a key.
LEMMA KeysNameRows ==
  ASSUME NEW L, ForksAreNamed(L), NEW j \in Kind(L, "fork"), NEW k \in Kind(L, "fork"),
         L[j].key = L[k].key
  PROVE  L[j].rows = L[k].rows /\ L[k].key # NoKey
<1>1. \A r, x : RowKey(r) # NoKey /\ GroupKey(x) # NoKey
  <2> SUFFICES ASSUME NEW r, NEW x PROVE RowKey(r) # NoKey /\ GroupKey(x) # NoKey
    OBVIOUS
  <2>1. "row" \in DOMAIN RowKey(r) /\ "row" \in DOMAIN GroupKey(x) /\ "row" \notin DOMAIN NoKey
    BY DEF RowKey, GroupKey, NoKey
  <2> QED BY <2>1
<1>2. \A r, s : RowKey(r) = RowKey(s) => r = s
  BY DEF RowKey
<1>3. \A r : \A x \in 1 .. Len(L) : RowKey(r) # GroupKey(x)
  BY DEF RowKey, GroupKey
<1>4. \A x, y : GroupKey(x) = GroupKey(y) => x = y
  BY DEF GroupKey
<1>5. j \in 1 .. Len(L) /\ k \in 1 .. Len(L)
  BY DEF Kind
<1>6. \/ \E r \in L[k].rows : L[k].key = RowKey(r) /\ L[k].rows = {r}
      \/ L[k].key = GroupKey(k)
  BY DEF ForksAreNamed
<1>7. \/ \E r \in L[j].rows : L[j].key = RowKey(r) /\ L[j].rows = {r}
      \/ L[j].key = GroupKey(j)
  BY DEF ForksAreNamed
<1> QED BY <1>1, <1>2, <1>3, <1>4, <1>5, <1>6, <1>7

\* With no item open, what is given to the operator was given up by the operator.
LEMMA EscalatedIsReleased ==
  ASSUME NEW L, WellFormed(L), ~OpenItems(L), NEW r \in EscalatedRows(L)
  PROVE  Released(L, r)
<1> DEFINE raised == Naming(L, "fork", r)
           said   == Naming(L, "answer", r)
           k      == Newest(raised)
           key    == L[k].key
           forks  == ForksOf(L, key)
           heard  == {j \in Kind(L, "answer") : L[j].key = key}
           a      == Newest(heard)
<1>0. /\ IsLog(L) /\ AnswersFollow(L) /\ ForksAreNamed(L) /\ Len(L) \in Nat
      /\ \A kind : Kind(L, kind) \subseteq 1 .. Len(L)
  BY DEF WellFormed, IsLog, Kind
<1>1. raised \subseteq 1 .. Len(L) /\ said \subseteq 1 .. Len(L)
      /\ forks \subseteq 1 .. Len(L) /\ heard \subseteq 1 .. Len(L)
  BY <1>0 DEF Naming, ForksOf
<1>2. raised # {} /\ \A j \in said : Lapses(L[j]) => j < k
  BY DEF EscalatedRows
<1>3. k \in raised
  BY <1>0, <1>1, <1>2, NewestIsLast
<1>4. k \in Kind(L, "fork") /\ r \in L[k].rows /\ k \in 1 .. Len(L)
  BY <1>0, <1>1, <1>3 DEF Naming, RowsNamed, Kind
<1>5. k \in forks /\ ~(Newest(forks) > a)
  <2>1. k \in forks
    BY <1>4 DEF ForksOf
  <2>2. key \in {L[j].key : j \in Kind(L, "fork")}
    BY <1>4
  <2>3. OpenKeys(L) = {}
    BY DEF OpenItems
  <2> QED BY <2>1, <2>2, <2>3 DEF OpenKeys
<1>6. Newest(forks) \in 0 .. Len(L) /\ k <= Newest(forks)
  <2> HIDE DEF forks, k
  <2> QED BY <1>0, <1>1, <1>5, NewestIsLast
<1>7. a \in 0 .. Len(L) /\ (a # 0 => a \in heard)
  <2> HIDE DEF heard
  <2> QED BY <1>0, <1>1, NewestIsLast
<1>8. k <= a /\ a \in heard
  <2> HIDE DEF k, a, forks, heard
  <2> QED BY <1>0, <1>4, <1>5, <1>6, <1>7
<1>9. k < a /\ a \in Kind(L, "answer") /\ L[a].key = key
  <2>1. L[k].kind = "fork" /\ L[a].kind = "answer"
    BY <1>4, <1>8 DEF Kind
  <2>2. k # a
    <3> HIDE DEF k, a
    <3> QED BY <2>1
  <2>3. a \in Kind(L, "answer") /\ L[a].key = key
    BY <1>8
  <2> HIDE DEF k, a, heard, forks, key
  <2> QED BY <1>4, <1>7, <1>8, <2>2, <2>3
<1>10. a \in said
  <2> DEFINE before == {j \in ForksOf(L, L[a].key) : j < a}
             b == Newest(before)
  <2>1. key # NoKey
    <3> HIDE DEF k, a, heard, forks
    <3> QED BY <1>0, <1>4, KeysNameRows
  <2>2. b \in before
    <3> HIDE DEF k, heard, forks, key, a
    <3> QED BY <1>0, <1>9, <2>1, AnswerFinds
  <2>3. b \in Kind(L, "fork") /\ L[b].key = key
    <3> HIDE DEF k, a, heard, forks, key, b
    <3> QED BY <1>9, <2>2 DEF ForksOf
  <2>4. L[b].rows = L[k].rows
    <3> HIDE DEF k, a, heard, forks, b
    <3> QED BY <1>0, <1>4, <2>3, KeysNameRows
  <2>5. L[a].kind = "answer"
    BY <1>9 DEF Kind
  <2>6. RowsNamed(L, a) = L[b].rows
    <3> HIDE DEF k, heard, forks, key, a
    <3> QED BY <1>9, <2>1, <2>5 DEF RowsNamed
  <2>7. r \in RowsNamed(L, a)
    BY <1>4, <2>4, <2>6
  <2> HIDE DEF k, heard, forks, key, a
  <2> QED BY <1>9, <2>7 DEF Naming
<1> HIDE DEF k, a, said, raised, heard, forks, key
<1>11. said # {} /\ Newest(said) \in said /\ a <= Newest(said) /\ Newest(said) \in 0 .. Len(L)
  BY <1>0, <1>1, <1>10, NewestIsLast
<1>12. Newest(said) > k
  BY <1>4, <1>7, <1>9, <1>11
<1>13. ~Lapses(L[Newest(said)])
  BY <1>2, <1>4, <1>11, <1>12
<1> QED BY <1>11, <1>12, <1>13 DEF Released, said, raised, k

\* What a blocker is not: a row whose verdict reaches it is answered.
LEMMA ReachedIsAnswered ==
  ASSUME NEW L, IsLog(L), NEW r, Reached(Verdict(L, r))
  PROVE  AnsweredRow(L, r)
<1> DEFINE reports == ReportsFor(L, Latest(L), TableInForce(L, Latest(L)))
           naming  == {k \in reports : r \in DOMAIN L[k].rows}
           k       == Newest(IF Questions THEN naming ELSE reports)
<1>1. Verdict(L, r) = IF k \in naming THEN L[k].rows[r] ELSE "none"
  BY DEF Verdict
<1>2. k \in naming /\ Reached(L[k].rows[r])
  BY <1>1 DEF Reached
<1>3. reports \subseteq 1 .. Len(L) /\ naming \subseteq 1 .. Len(L) /\ Len(L) \in Nat
  BY DEF ReportsFor, Kind, IsLog
<1>4. k \in reports /\ r \in DOMAIN L[k].rows
  BY <1>2
<1>5. ASSUME NEW j \in reports, j > k
      PROVE  IF Questions THEN r \notin DOMAIN L[j].rows
             ELSE r \in DOMAIN L[j].rows /\ Reached(L[j].rows[r])
  <2>1. CASE Questions
    <3>1. k = Newest(naming)
      BY <2>1
    <3>2. \A i \in naming : i <= k
      <4> HIDE DEF k, naming
      <4> QED BY <1>3, <3>1, NewestIsLast
    <3>3. j \notin naming
      <4> HIDE DEF k, naming
      <4> QED BY <1>3, <1>4, <1>5, <3>2
    <3> QED BY <2>1, <3>3
  <2>2. CASE ~Questions
    <3>1. k = Newest(reports)
      BY <2>2
    <3>2. \A i \in reports : i <= k
      <4> HIDE DEF k, reports
      <4> QED BY <1>3, <3>1, NewestIsLast
    <3> HIDE DEF k, reports
    <3> QED BY <1>3, <1>4, <1>5, <3>2
  <2> QED BY <2>1, <2>2
<1> HIDE DEF k
<1> QED BY <1>2, <1>4, <1>5 DEF AnsweredRow

LEMMA ReleasedStays ==
  ASSUME NEW L, NEW M, NEW A, Extends(L, M, A), AnswersFollow(L),
         "fork" \notin A, "answer" \notin A, NEW r
  PROVE  Released(M, r) = Released(L, r)
<1>1. /\ Naming(M, "fork", r) = Naming(L, "fork", r)
      /\ Naming(M, "answer", r) = Naming(L, "answer", r)
      /\ Naming(L, "answer", r) \subseteq 1 .. Len(L)
      /\ \A k \in Naming(L, "answer", r) : M[k] = L[k]
  BY NamingStays
<1>2. Len(L) \in Nat
  BY DEF Extends
<1>3. Naming(L, "answer", r) # {} => Newest(Naming(L, "answer", r)) \in Naming(L, "answer", r)
  BY <1>1, <1>2, NewestIsLast
<1> QED BY <1>1, <1>3 DEF Released

LEMMA AnsweredStays ==
  ASSUME NEW L, NEW M, NEW A, Extends(L, M, A),
         "version" \notin A, "table" \notin A, "report" \notin A, NEW r
  PROVE  AnsweredRow(M, r) = AnsweredRow(L, r)
<1> DEFINE reports == ReportsFor(L, Latest(L), TableInForce(L, Latest(L)))
<1>1. /\ ReportsFor(M, Latest(M), TableInForce(M, Latest(M))) = reports
      /\ \A j \in reports : M[j] = L[j]
  BY LatestStays, InForceStays, ReportsStay
<1> HIDE DEF reports
<1> QED BY <1>1 DEF AnsweredRow, reports

\* The rows a review leaves open, and the measure its convergence keeps.
Open(L) ==
  {r \in RowsOf[TableInForce(L, Latest(L))] :
     /\ ~AnsweredRow(L, r) /\ ~Released(L, r)
     /\ ~(r \in Outside \ Stakes /\ Kind(L, "exempted") # {} /\ ~Questions)}

Measured(L) ==
  IF TableInForce(L, Latest(L)) = NoTable THEN inPlay # "yes"
  ELSE Cardinality(Open(L)) <= IF Questions THEN 0 ELSE Allowance(L)

LEMMA ConvergeableIsMeasured ==
  ASSUME NEW L, WellFormed(L), Convergeable(L), NEW M, Extends(L, M, {"status"})
  PROVE  Measured(M)
<1> DEFINE t == TableInForce(L, Latest(L))
<1>0. IsLog(L) /\ MessagesFit(L) /\ AnswersFollow(L)
  BY DEF WellFormed
<1>1. Latest(M) = Latest(L) /\ TableInForce(M, Latest(M)) = t
  BY LatestStays, InForceStays
<1>2. CASE t = NoTable
  <2>1. inPlay # "yes"
    BY <1>2 DEF Convergeable, TableOwed, CleanPass
  <2> QED BY <1>1, <1>2, <2>1 DEF Measured
<1>3. CASE t # NoTable
  <2>1. Open(M) \subseteq Blockers(L)
    <3> SUFFICES ASSUME NEW r \in Open(M) PROVE r \in Blockers(L)
      OBVIOUS
    <3>1. r \in RowsOf[t]
      BY <1>1 DEF Open
    <3>2. r \notin ScopeExempt(L, t)
      <4>1. Kind(M, "exempted") = Kind(L, "exempted")
        BY KindGrows
      <4> QED BY <4>1 DEF Open, ScopeExempt
    <3>3. r \notin EscalatedRows(L)
      <4>1. Released(M, r) = Released(L, r)
        BY <1>0, ReleasedStays
      <4>2. ~Released(L, r)
        BY <4>1 DEF Open
      <4>3. ~OpenItems(L)
        BY DEF Convergeable
      <4> QED BY <4>2, <4>3, EscalatedIsReleased
    <3>4. ~Reached(Verdict(L, r))
      <4>1. AnsweredRow(M, r) = AnsweredRow(L, r)
        BY AnsweredStays
      <4>2. ~AnsweredRow(L, r)
        BY <4>1 DEF Open
      <4> QED BY <1>0, <4>2, ReachedIsAnswered
    <3> QED BY <1>3, <3>1, <3>2, <3>3, <3>4 DEF Blockers
  <2>2. /\ IsFiniteSet(Blockers(L)) /\ Cardinality(Blockers(L)) \in Nat
        /\ Allowance(L) \in Nat
    BY <1>0, BlockersAreRows, AllowanceCounts
  <2>3. IsFiniteSet(Open(M)) /\ Cardinality(Open(M)) <= Cardinality(Blockers(L))
    BY <2>1, <2>2, FS_Subset
  <2>4. Cardinality(Open(M)) \in Nat
    BY <2>3, FS_CardinalityType
  <2>5. Cardinality(Blockers(L)) <= Allowance(L)
    BY <2>2 DEF Convergeable, CoverageBlocked
  <2>6. Questions => Allowance(L) = 0
    BY <1>3 DEF Allowance
  <2>7. Allowance(M) = Allowance(L)
    BY AllowanceStays
  <2> QED BY <1>1, <1>3, <2>2, <2>3, <2>4, <2>5, <2>6, <2>7 DEF Measured
<1> QED BY <1>2, <1>3

\* A convergeable review has nothing to give to the operator.
LEMMA NothingEscalates ==
  ASSUME NEW L, WellFormed(L), Convergeable(L), NEW M, Extends(L, M, {"status"})
  PROVE  Escalate(M) = M
<1> DEFINE t == TableInForce(L, Latest(L))
<1>0. IsLog(L) /\ MessagesFit(L) /\ AnswersFollow(L) /\ IsLog(M)
  BY DEF WellFormed, Extends
<1>1. /\ Latest(M) = Latest(L) /\ TableInForce(M, Latest(M)) = t
      /\ EscalatedRows(M) = EscalatedRows(L) /\ ScopeExempt(M, t) = ScopeExempt(L, t)
  BY <1>0, LatestStays, InForceStays, EscalatedStay, ExemptStay
<1>2. \A r : Verdict(M, r) = Verdict(L, r)
  BY VerdictStays
<1>3. Blockers(M) = Blockers(L) /\ Allowance(M) = Allowance(L)
  <2>1. {"status"} \cap {"version", "table", "report", "fork", "answer", "exempted"} = {}
    OBVIOUS
  <2> QED BY <1>0, <2>1, BlockersStay, AllowanceStays
<1>4. ~CoverageBlocked(L)
  BY DEF Convergeable
<1>5. CASE Questions /\ t # NoTable
  <2>1. Blockers(L) = {}
    <3>1. IsFiniteSet(Blockers(L)) /\ Cardinality(Blockers(L)) \in Nat
      BY <1>0, BlockersAreRows
    <3>2. Allowance(L) = 0
      BY <1>5 DEF Allowance
    <3>3. Cardinality(Blockers(L)) = 0
      BY <1>4, <3>1, <3>2 DEF CoverageBlocked
    <3> QED BY <3>1, <3>3, FS_EmptySet
  <2>2. \A verdict \in {"cannot_reach", "instrument_failure"} : Failing(M, verdict) = {}
    <3> SUFFICES ASSUME NEW verdict \in {"cannot_reach", "instrument_failure"},
                        NEW r \in Failing(M, verdict)
                 PROVE  FALSE
      OBVIOUS
    <3>1. Verdict(L, r) = verdict /\ r \notin EscalatedRows(L) \cup ScopeExempt(L, t)
      BY <1>1, <1>2 DEF Failing
    <3>2. r \in RowsOf[t]
      <4>1. Verdict(L, r) # "none"
        BY <3>1
      <4> QED BY <1>0, <4>1, VerdictIsOfTable
    <3>3. ~Reached(Verdict(L, r))
      BY <3>1 DEF Reached
    <3>4. r \in Blockers(L)
      BY <1>5, <3>1, <3>2, <3>3 DEF Blockers
    <3> QED BY <2>1, <3>4
  <2>3. Fork(M, {}) = M
    BY DEF Fork
  <2>4. Failing(M, "cannot_reach") = {} /\ Failing(M, "instrument_failure") = {}
    BY <2>2
  <2>5. Escalate(M) = Fork(Fork(M, Failing(M, "cannot_reach")), Failing(M, "instrument_failure"))
    BY <1>1, <1>5 DEF Escalate
  <2> QED BY <2>3, <2>4, <2>5
<1>6. CASE ~(Questions /\ t # NoTable)
  <2>1. ~CoverageBlocked(M)
    BY <1>3, <1>4 DEF CoverageBlocked
  <2> QED BY <1>1, <1>6, <2>1 DEF Escalate, Fork
<1> QED BY <1>5, <1>6

------------------------------------------------------------------------------
(* The end of a pass, in its order: the critic's status, the notice that holds *)
(* a declaration up, what goes to the operator, the server's own status.       *)

Closing(value) == [kind |-> "status", who |-> "critic", for |-> pass.for, value |-> value]
Closed(value)  == Append(log, Closing(value))

Notice ==
  [kind |-> "blocked", for |-> pass.for,
   unreached |-> IF CoverageBlocked(log) THEN Blockers(log) ELSE {}]

Held(value) ==
  IF value = "converged" /\ ~Convergeable(log) THEN Append(Closed(value), Notice)
  ELSE Closed(value)

LEMMA ClosedFits ==
  ASSUME WellFormed(log), NEW value
  PROVE  /\ WellFormed(Closed(value)) /\ Extends(log, Closed(value), {"status"})
         /\ Len(log) \in Nat /\ Len(Closed(value)) = Len(log) + 1
         /\ Closed(value)[Len(log) + 1] = Closing(value)
         /\ Len(log) + 1 \in Statuses(Closed(value))
<1> DEFINE m == Closing(value)
<1>1. m.kind = "status" /\ m.who = "critic"
  BY DEF Closing
<1>2. Fitting(log, m)
  BY <1>1 DEF Fitting
<1> HIDE DEF m
<1>3. WellFormed(Append(log, m)) /\ Extends(log, Append(log, m), {"status"})
  BY <1>1, <1>2, AppendFits
<1>4. /\ Len(log) \in Nat /\ Len(Append(log, m)) = Len(log) + 1
      /\ Append(log, m)[Len(log) + 1] = m
  BY Appended DEF WellFormed
<1>5. Len(log) + 1 \in Statuses(Append(log, m))
  BY <1>1, <1>4 DEF Statuses, Kind
<1> QED BY <1>3, <1>4, <1>5 DEF Closed, m

LEMMA HeldFits ==
  ASSUME WellFormed(log), NEW value
  PROVE  /\ WellFormed(Held(value)) /\ Extends(log, Held(value), {"status", "blocked"})
         /\ Extends(Closed(value), Held(value), {"blocked"})
         /\ value = "converged" /\ ~Convergeable(log) =>
              /\ Len(Held(value)) = Len(log) + 2
              /\ Held(value)[Len(log) + 2] = Notice
<1> DEFINE C == Closed(value)
<1>1. /\ WellFormed(C) /\ Extends(log, C, {"status"})
      /\ Len(log) \in Nat /\ Len(C) = Len(log) + 1
      /\ C[Len(log) + 1] = Closing(value) /\ Len(log) + 1 \in Statuses(C)
  BY ClosedFits
<1> HIDE DEF C
<1>2. CASE ~(value = "converged" /\ ~Convergeable(log))
  <2>1. Held(value) = C
    BY <1>2 DEF Held, C
  <2>2. Extends(C, C, {"blocked"})
    BY <1>1, Same DEF WellFormed
  <2>3. Extends(log, C, {"status"} \cup {"blocked"})
    BY <1>1, <2>2, Extended
  <2>4. {"status"} \cup {"blocked"} = {"status", "blocked"}
    OBVIOUS
  <2> QED BY <1>1, <1>2, <2>1, <2>2, <2>3, <2>4 DEF C
<1>3. CASE value = "converged" /\ ~Convergeable(log)
  <2>1. Held(value) = Append(C, Notice)
    BY <1>3 DEF Held, C
  <2>2. Notice.kind = "blocked" /\ Notice.for = pass.for /\ Closing(value).for = pass.for
    BY DEF Notice, Closing
  <2>3. Fitting(C, Notice)
    BY <1>1, <2>2 DEF Fitting
  <2>4. WellFormed(Append(C, Notice)) /\ Extends(C, Append(C, Notice), {"blocked"})
    BY <1>1, <2>2, <2>3, AppendFits
  <2>5. /\ Len(Append(C, Notice)) = Len(log) + 2
        /\ Append(C, Notice)[Len(log) + 2] = Notice
    <3>1. /\ Len(Append(C, Notice)) = Len(C) + 1
          /\ Append(C, Notice)[Len(C) + 1] = Notice
      BY <1>1, Appended DEF WellFormed
    <3>2. Len(C) + 1 = Len(log) + 2
      BY <1>1
    <3> QED BY <3>1, <3>2
  <2>6. Extends(log, Append(C, Notice), {"status"} \cup {"blocked"})
    BY <1>1, <2>4, Extended
  <2>7. {"status"} \cup {"blocked"} = {"status", "blocked"}
    OBVIOUS
  <2> QED BY <2>1, <2>4, <2>5, <2>6, <2>7 DEF C
<1> QED BY <1>2, <1>3

\* What the log is after the pass, and how the review may have converged.
LEMMA EndPassGoes ==
  ASSUME WellFormed(log), NEW value \in {"needs_iteration", "needs_human", "converged"},
         EndPass(value)
  PROVE  LET raised == Escalate(Held(value))
         IN  /\ WellFormed(raised) /\ Extends(Held(value), raised, {"fork"})
             /\ WellFormed(log') /\ Extends(raised, log', {"status"})
             /\ Extends(log, log', {"status", "blocked", "fork"})
             /\ \/ log' = raised
                \/ /\ Convergeable(raised) /\ Declared(raised) /\ value = "needs_iteration"
                   /\ log' = Append(raised, Ends(raised)) /\ state' = "converged"
             /\ log' = raised /\ state # "converged" /\ state' = "converged" =>
                  value = "converged" /\ Convergeable(log)
<1> DEFINE raised == Escalate(Held(value))
<1>1. WellFormed(Held(value)) /\ Extends(log, Held(value), {"status", "blocked"})
  BY HeldFits
<1>2. WellFormed(raised) /\ Extends(Held(value), raised, {"fork"})
  BY <1>1, EscalateFits
<1>3. ASSUME value = "needs_iteration"
      PROVE  /\ WellFormed(log') /\ Extends(raised, log', {"status"})
             /\ \/ log' = raised
                \/ /\ Convergeable(raised) /\ Declared(raised) /\ value = "needs_iteration"
                   /\ log' = Append(raised, Ends(raised)) /\ state' = "converged"
             /\ log' = raised /\ state # "converged" /\ state' = "converged" =>
                  value = "converged" /\ Convergeable(log)
  <2>1. raised = Escalate(Closed(value))
    BY <1>3 DEF Held
  <2> DEFINE st == IF state = "critic_reviewing" THEN "dev_disposing" ELSE state
  <2>2. SelfComplete(raised, st)
    BY <1>3, <2>1 DEF EndPass, Closed, Closing
  <2> HIDE DEF raised
  <2>3. /\ WellFormed(log') /\ Extends(raised, log', {"status"})
        /\ \/ log' = raised /\ state' = st
           \/ /\ Convergeable(raised) /\ Declared(raised)
              /\ log' = Append(raised, Ends(raised)) /\ state' = "converged"
    BY <1>2, <2>2, SelfCompleteFits
  <2>4. st = "converged" => state = "converged"
    OBVIOUS
  <2>5. Append(raised, Ends(raised)) # raised
    <3>1. Len(raised) \in Nat /\ Len(Append(raised, Ends(raised))) = Len(raised) + 1
      BY <1>2, Appended DEF WellFormed
    <3> QED BY <3>1
  <2> HIDE DEF st
  <2>6. /\ \/ log' = raised
           \/ /\ Convergeable(raised) /\ Declared(raised) /\ value = "needs_iteration"
              /\ log' = Append(raised, Ends(raised)) /\ state' = "converged"
        /\ log' = raised /\ state # "converged" /\ state' = "converged" => FALSE
    BY <1>3, <2>3, <2>4, <2>5
  <2> QED BY <2>3, <2>6
<1>4. ASSUME value # "needs_iteration"
      PROVE  /\ WellFormed(log') /\ Extends(raised, log', {"status"})
             /\ \/ log' = raised
                \/ /\ Convergeable(raised) /\ Declared(raised) /\ value = "needs_iteration"
                   /\ log' = Append(raised, Ends(raised)) /\ state' = "converged"
             /\ log' = raised /\ state # "converged" /\ state' = "converged" =>
                  value = "converged" /\ Convergeable(log)
  <2>1. log' = raised
    BY <1>4 DEF EndPass, Held, Closed, Closing, Notice
  <2>2. state # "converged" /\ state' = "converged" => value = "converged" /\ Convergeable(log)
    BY <1>4 DEF EndPass
  <2>3. Extends(raised, raised, {"status"})
    <3> HIDE DEF raised
    <3> QED BY <1>2, Same DEF WellFormed
  <2> HIDE DEF raised
  <2> QED BY <1>2, <2>1, <2>2, <2>3
<1>5. Extends(raised, log', {"status"})
  <2> HIDE DEF raised
  <2> QED BY <1>3, <1>4
<1>6. Extends(log, log', {"status", "blocked", "fork"})
  <2> HIDE DEF raised
  <2>1. Extends(log, raised, {"status", "blocked"} \cup {"fork"})
    BY <1>1, <1>2, Extended
  <2>2. Extends(log, log', ({"status", "blocked"} \cup {"fork"}) \cup {"status"})
    BY <1>5, <2>1, Extended
  <2>3. ({"status", "blocked"} \cup {"fork"}) \cup {"status"} = {"status", "blocked", "fork"}
    OBVIOUS
  <2> QED BY <2>2, <2>3
<1>7. value = "needs_iteration" \/ value # "needs_iteration"
  OBVIOUS
<1> HIDE DEF raised
<1>8. /\ WellFormed(raised) /\ Extends(Held(value), raised, {"fork"})
      /\ WellFormed(log') /\ Extends(raised, log', {"status"})
      /\ Extends(log, log', {"status", "blocked", "fork"})
      /\ \/ log' = raised
         \/ /\ Convergeable(raised) /\ Declared(raised) /\ value = "needs_iteration"
            /\ log' = Append(raised, Ends(raised)) /\ state' = "converged"
      /\ log' = raised /\ state # "converged" /\ state' = "converged" =>
           value = "converged" /\ Convergeable(log)
  BY ONLY <1>2, <1>3, <1>4, <1>6, <1>7
<1> QED BY ONLY <1>8 DEF raised

------------------------------------------------------------------------------
(* The operator's word to keep a row buys two passes. *)

\* What is behind an item stays what it was.
LEMMA BehindStays ==
  ASSUME NEW L, NEW M, NEW A, Extends(L, M, A), AnswersFollow(L), Gated(L),
         NEW k \in Kind(L, "fork"), NEW r \in RowsNamed(M, k), NEW j \in Naming(M, "answer", r),
         j < k, M[j].who = "operator", M[j].word = "keep_gating"
  PROVE  Cardinality({e \in Statuses(M) : j < e /\ e < k}) >= 2
<1>1. k \in 1 .. Len(L) /\ Len(L) \in Nat /\ Len(M) \in Nat
  BY DEF Kind, Extends
<1>2. r \in RowsNamed(L, k)
  BY NamedStays
<1>3. j \in 1 .. Len(L) /\ j \in Naming(L, "answer", r) /\ M[j] = L[j]
  <2>1. /\ \A i \in Naming(M, "answer", r) : i <= Len(L) => i \in Naming(L, "answer", r)
        /\ Naming(M, "answer", r) \subseteq 1 .. Len(M)
        /\ \A i \in Naming(L, "answer", r) : M[i] = L[i]
    BY NamingStays
  <2>2. j \in 1 .. Len(M)
    BY <2>1
  <2>3. j \in 1 .. Len(L)
    BY <1>1, <2>2
  <2> QED BY <2>1, <2>3
<1>4. \A e \in 1 .. Len(L) : e \in Statuses(M) <=> e \in Statuses(L)
  BY <1>1 DEF Statuses, Kind, Extends
<1>5. {e \in Statuses(M) : j < e /\ e < k} = {e \in Statuses(L) : j < e /\ e < k}
  <2>1. \A e \in Statuses(M) : e \in 1 .. Len(M)
    BY DEF Statuses, Kind
  <2>2. \A e \in Statuses(L) : e \in 1 .. Len(L)
    BY DEF Statuses, Kind
  <2>3. \A e \in Statuses(M) : e < k => e \in 1 .. Len(L)
    BY <1>1, <2>1
  <2> QED BY <1>4, <2>2, <2>3
<1> QED BY <1>2, <1>3, <1>5 DEF Gated

LEMMA GatedStays ==
  ASSUME NEW L, NEW M, NEW A, Extends(L, M, A), AnswersFollow(L), Gated(L), "fork" \notin A
  PROVE  Gated(M)
<1>1. Kind(M, "fork") = Kind(L, "fork")
  BY KindGrows
<1> QED BY <1>1, BehindStays DEF Gated

\* A row two passes missed was missed by two since the operator spoke of it.
LEMMA PersistentIsGated ==
  ASSUME NEW L, IsLog(L), NEW r \in Persistent(L), NEW j \in Naming(L, "answer", r),
         L[j].who = "operator", L[j].word = "keep_gating"
  PROVE  \E prior, last \in Statuses(L) : j < prior /\ prior < last
<1> DEFINE ended == Statuses(L)
           last  == Newest(ended)
           prior == EndBefore(L, last)
           first == Newest(ReportsIn(L, prior))
           two   == {Newest(ReportsIn(L, e)) : e \in {last, prior}}
           kept  == {i \in Naming(L, "answer", r) :
                       L[i].who = "operator" /\ L[i].word = "keep_gating"}
<1>0. Len(L) \in Nat
  BY DEF IsLog
<1>1. 0 \notin two /\ ResetAt(L, r) < Oldest(two)
  BY DEF Persistent
<1>2. ended \subseteq 1 .. Len(L) /\ kept \subseteq 1 .. Len(L)
      /\ \A e : ReportsIn(L, e) \subseteq 1 .. Len(L)
      /\ {k \in ended : k < last} \subseteq 1 .. Len(L)
  BY DEF Statuses, Kind, Naming, ReportsIn
<1>3. \A e : Newest(ReportsIn(L, e)) \in 0 .. Len(L)
             /\ (Newest(ReportsIn(L, e)) # 0 => Newest(ReportsIn(L, e)) \in ReportsIn(L, e))
  BY <1>0, <1>2, NewestIsLast
<1>4. first \in two /\ two \subseteq Nat
  <2>1. first \in two
    OBVIOUS
  <2>2. \A x \in two : x \in 0 .. Len(L)
    BY <1>3
  <2>3. \A x \in 0 .. Len(L) : x \in Nat
    BY <1>0
  <2> QED BY <2>1, <2>2, <2>3
<1>5. Oldest(two) \in Nat /\ Oldest(two) <= first
  <2> HIDE DEF two, first
  <2>1. \E x \in two : \A y \in two : x <= y
    BY <1>4, SmallestOfSome
  <2>2. Oldest(two) \in two /\ \A y \in two : Oldest(two) <= y
    BY <2>1 DEF Oldest
  <2> QED BY <1>4, <2>2
<1>6. first \in ReportsIn(L, prior) /\ first \in Nat
  <2>1. first # 0
    BY <1>1, <1>4
  <2> QED BY <1>3, <1>4, <2>1
<1>7. first < prior
  BY <1>6 DEF ReportsIn
<1>8. prior \in ended /\ prior < last
  <2> DEFINE before == {k \in ended : k < last}
  <2>1. prior = Newest(before)
    BY DEF EndBefore
  <2>2. prior \in 0 .. Len(L) /\ (prior # 0 => prior \in before)
    <3> HIDE DEF before, prior
    <3> QED BY <1>0, <1>2, <2>1, NewestIsLast DEF before
  <2>3. prior # 0
    <3> HIDE DEF prior, first, before
    <3> QED BY <1>6, <1>7, <2>2
  <2> QED BY <2>2, <2>3
<1>9. last \in ended /\ last \in 1 .. Len(L)
  <2>1. ended # {}
    BY <1>8
  <2> HIDE DEF ended
  <2>2. last \in ended
    BY <1>0, <1>2, <2>1, NewestIsLast
  <2> QED BY <1>2, <2>2
<1>10. j <= ResetAt(L, r) /\ ResetAt(L, r) \in 0 .. Len(L) /\ j \in 1 .. Len(L)
  <2>1. j \in kept /\ ResetAt(L, r) = Newest(kept)
    BY DEF ResetAt
  <2> HIDE DEF kept
  <2> QED BY <1>0, <1>2, <2>1, NewestIsLast
<1>11. prior \in 1 .. Len(L)
  BY <1>2, <1>8
<1>12. j < prior
  <2> HIDE DEF prior, first, two, last, ended, kept
  <2> QED BY <1>0, <1>1, <1>5, <1>6, <1>7, <1>10, <1>11
<1> HIDE DEF prior, last, first, two, kept
<1> QED BY <1>8, <1>9, <1>12

LEMMA GatedFork ==
  ASSUME NEW L, WellFormed(L), Gated(L), NEW rows, rows \subseteq Persistent(L)
  PROVE  Gated(Fork(L, rows))
<1>0. IsLog(L) /\ MessagesFit(L) /\ AnswersFollow(L) /\ Len(L) \in Nat
  BY DEF WellFormed, IsLog
<1>1. CASE rows = {}
  BY <1>1 DEF Fork
<1>2. CASE rows # {}
  <2> DEFINE M == Fork(L, rows)
             n == Len(L) + 1
  <2>1. IsFiniteSet(rows)
    BY <1>0, PersistentIsFinite, FS_Subset
  <2>2. WellFormed(M) /\ Extends(L, M, {"fork"})
    BY <2>1, ForkFits
  <2>3. /\ Len(M) = n /\ M[n].kind = "fork" /\ M[n].rows = rows
        /\ \A k \in Kind(M, "fork") : k \in Kind(L, "fork") \/ k = n
    <3> DEFINE m == [kind |-> "fork", rows |-> rows,
                     key |-> IF Cardinality(rows) = 1 THEN RowKey(CHOOSE r \in rows : TRUE)
                                                      ELSE GroupKey(Len(L) + 1)]
    <3>1. M = Append(L, m)
      BY <1>2 DEF Fork
    <3>2. m.kind = "fork" /\ m.rows = rows
      OBVIOUS
    <3> HIDE DEF m
    <3>3. Len(Append(L, m)) = n /\ Append(L, m)[n] = m
      BY <1>0, Appended
    <3>4. \A k \in Kind(Append(L, m), "fork") : k \in Kind(L, "fork") \/ k = n
      BY <1>0, AppendedKind
    <3> HIDE DEF M, n
    <3> QED BY <3>1, <3>2, <3>3, <3>4
  <2> HIDE DEF M
  <2> SUFFICES ASSUME NEW k \in Kind(M, "fork"), NEW r \in RowsNamed(M, k),
                      NEW j \in Naming(M, "answer", r),
                      j < k, M[j].who = "operator", M[j].word = "keep_gating"
               PROVE  Cardinality({e \in Statuses(M) : j < e /\ e < k}) >= 2
    BY DEF Gated, M
  <2>4. CASE k \in Kind(L, "fork")
    BY <1>0, <2>2, <2>4, BehindStays
  <2>5. CASE k = n
    <3> DEFINE between == {e \in Statuses(M) : j < e /\ e < k}
    <3>1. r \in Persistent(L)
      BY <2>3, <2>5 DEF RowsNamed
    <3>2. j \in Naming(L, "answer", r) /\ M[j] = L[j]
      <4>1. /\ Naming(M, "answer", r) = Naming(L, "answer", r)
            /\ \A i \in Naming(L, "answer", r) : M[i] = L[i]
        BY <1>0, <2>2, NamingStays
      <4> QED BY <4>1
    <3>3. PICK prior, last \in Statuses(L) : j < prior /\ prior < last
      BY <1>0, <3>1, <3>2, PersistentIsGated
    <3>4. /\ prior \in 1 .. Len(L) /\ last \in 1 .. Len(L)
          /\ prior \in Statuses(M) /\ last \in Statuses(M)
      <4>1. Kind(L, "status") \subseteq Kind(M, "status") /\ Kind(L, "status") \subseteq 1 .. Len(L)
            /\ \A e \in Kind(L, "status") : M[e] = L[e]
        BY <2>2, KindGrows
      <4> QED BY <4>1 DEF Statuses
    <3>5. j \in 1 .. Len(L)
      BY <3>2 DEF Naming, Kind
    <3>6. {prior, last} \subseteq between
      BY <1>0, <2>5, <3>3, <3>4, <3>5
    <3>7. IsFiniteSet(between)
      <4>1. between \subseteq 1 .. Len(M)
        BY DEF Statuses, Kind
      <4>2. Len(M) \in Nat
        BY <2>2 DEF Extends
      <4>3. IsFiniteSet(1 .. Len(M))
        BY <4>2, FS_Interval
      <4> QED BY <4>1, <4>3, FS_Subset
    <3>8. Cardinality({prior, last}) = 2
      <4>1. prior # last
        BY <3>3, <3>4
      <4>2. IsFiniteSet({last}) /\ Cardinality({last}) = 1
        BY FS_Singleton
      <4>3. Cardinality({last} \cup {prior}) = 2
        <5>1. prior \notin {last}
          BY <4>1
        <5>2. Cardinality({last} \cup {prior}) = Cardinality({last}) + 1
          BY <4>2, <5>1, FS_AddElement
        <5> QED BY <4>2, <5>2
      <4>4. {prior, last} = {last} \cup {prior}
        OBVIOUS
      <4> QED BY <4>3, <4>4
    <3>9. Cardinality(between) \in Nat /\ Cardinality({prior, last}) <= Cardinality(between)
      <4> HIDE DEF between
      <4> QED BY <3>6, <3>7, FS_Subset, FS_CardinalityType
    <3> QED BY <3>8, <3>9
  <2> QED BY <2>3, <2>4, <2>5
<1> QED BY <1>1, <1>2

------------------------------------------------------------------------------
(* What a step keeps of the invariant. *)

LEMMA NewestWithin ==
  ASSUME NEW L, IsLog(L), NEW S, S \subseteq 1 .. Len(L)
  PROVE  /\ Newest(S) \in 0 .. Len(L)
         /\ \A j \in S : j <= Newest(S)
         /\ Newest(S) # 0 => Newest(S) \in S
         /\ S # {} => Newest(S) \in S
<1>1. Len(L) \in Nat
  BY DEF IsLog
<1> QED BY <1>1, NewestIsLast

LEMMA AppendedIsNewest ==
  ASSUME NEW L, IsLog(L), NEW m, NEW S, S \subseteq 1 .. Len(L) + 1, Len(L) + 1 \in S
  PROVE  Newest(S) = Len(L) + 1
<1>1. Len(L) \in Nat /\ Len(L) + 1 \in Nat
  BY DEF IsLog
<1>2. Newest(S) \in 0 .. Len(L) + 1 /\ Len(L) + 1 <= Newest(S)
  BY <1>1, NewestIsLast
<1> QED BY <1>1, <1>2

\* The statuses a step adds, that are dated.
NewDated(L, M, st) ==
  \A k \in Kind(M, "status") : k > Len(L) =>
     /\ M[k].for = Latest(L) /\ M[k].who \in {"critic", "system"}
     /\ M[k].who = "system" => st = "converged"

LEMMA DatedStays ==
  ASSUME NEW L, NEW M, NEW A, Extends(L, M, A), "version" \notin A,
         NEW st, NEW st2, Dated(L, st), st = "converged" => st2 = "converged",
         NewDated(L, M, st2)
  PROVE  Dated(M, st2)
<1>1. Latest(M) = Latest(L) /\ Latest(L) \in 0 .. Len(L) /\ Len(L) \in Nat /\ Len(M) \in Nat
  BY LatestStays DEF Extends
<1>2. /\ Kind(M, "status") \subseteq 1 .. Len(M)
      /\ \A k \in Kind(M, "status") : k <= Len(L) => k \in Kind(L, "status")
      /\ \A k \in Kind(L, "status") : M[k] = L[k]
  BY KindGrows
<1> SUFFICES ASSUME NEW k \in Kind(M, "status")
             PROVE  /\ M[k].for \in Nat /\ M[k].for <= Latest(L)
                    /\ M[k].for = Latest(L) <=> k > Latest(L)
                    /\ M[k].who = "system" /\ M[k].for = Latest(L) => st2 = "converged"
                    /\ M[k].who \in {"critic", "system"}
  BY <1>1 DEF Dated
<1>3. k \in 1 .. Len(M)
  BY <1>2
<1>4. CASE k <= Len(L)
  <2>1. k \in Kind(L, "status") /\ M[k] = L[k]
    BY <1>2, <1>4
  <2> QED BY <2>1 DEF Dated
<1>5. CASE k > Len(L)
  BY <1>1, <1>3, <1>5 DEF NewDated
<1> QED BY <1>1, <1>3, <1>4, <1>5

\* An item stays closed when nothing more is raised, and nobody asks.
LEMMA ItemsStayClosed ==
  ASSUME NEW L, NEW M, NEW A, Extends(L, M, A), "fork" \notin A, ~OpenItems(L),
         \A k \in Kind(M, "status") : k > Len(L) => M[k].who # "critic"
  PROVE  ~OpenItems(M)
<1>0. IsLog(L) /\ IsLog(M) /\ Len(L) \in Nat /\ Len(M) \in Nat /\ Len(L) <= Len(M)
  BY DEF Extends
<1>1. /\ Kind(M, "fork") = Kind(L, "fork") /\ Kind(L, "fork") \subseteq 1 .. Len(L)
      /\ \A k \in Kind(L, "fork") : M[k] = L[k]
  BY KindGrows
<1>2. /\ Kind(L, "answer") \subseteq Kind(M, "answer") /\ Kind(L, "answer") \subseteq 1 .. Len(L)
      /\ Kind(M, "answer") \subseteq 1 .. Len(M)
      /\ \A k \in Kind(L, "answer") : M[k] = L[k]
  BY KindGrows
<1>3. /\ Kind(L, "status") \subseteq Kind(M, "status") /\ Kind(L, "status") \subseteq 1 .. Len(L)
      /\ Kind(M, "status") \subseteq 1 .. Len(M)
      /\ \A k \in Kind(M, "status") : k <= Len(L) => k \in Kind(L, "status")
      /\ \A k \in Kind(L, "status") : M[k] = L[k]
  BY KindGrows
<1>4. AsksHuman(M) = AsksHuman(L)
  <2>1. \A k \in Kind(M, "status") : k \in 1 .. Len(M)
    BY <1>3
  <2>2. \A k \in Statuses(M) : k \in Statuses(L)
    BY <1>0, <1>3, <2>1 DEF Statuses
  <2>3. \A k \in Statuses(L) : k \in Statuses(M) /\ M[k] = L[k]
    BY <1>3 DEF Statuses
  <2> QED BY <2>2, <2>3 DEF AsksHuman
\* More answers: the newest is no older.
<1>5. ASSUME NEW S, NEW T, S \subseteq T, S \subseteq 1 .. Len(L), T \subseteq 1 .. Len(M)
      PROVE  Newest(S) <= Newest(T) /\ Newest(S) \in Nat /\ Newest(T) \in Nat
  <2>1. Newest(S) \in 0 .. Len(L) /\ (Newest(S) # 0 => Newest(S) \in S)
    BY <1>0, <1>5, NewestIsLast
  <2>2. Newest(T) \in 0 .. Len(M) /\ \A j \in T : j <= Newest(T)
    BY <1>0, <1>5, NewestIsLast
  <2>3. Newest(S) # 0 => Newest(S) \in T
    BY <1>5, <2>1
  <2> QED BY <1>0, <2>1, <2>2, <2>3
<1>6. OpenKeys(M) = {}
  <2> SUFFICES ASSUME NEW key \in OpenKeys(M) PROVE FALSE
    OBVIOUS
  <2> DEFINE S == {j \in Kind(L, "answer") : L[j].key = key}
             T == {j \in Kind(M, "answer") : M[j].key = key}
  <2>1. ForksOf(M, key) = ForksOf(L, key)
    BY <1>1 DEF ForksOf
  <2>2. key \in {L[k].key : k \in Kind(L, "fork")}
    BY <1>1 DEF OpenKeys
  <2>3. ~(Newest(ForksOf(L, key)) > Newest(S))
    BY <2>2 DEF OpenItems, OpenKeys
  <2>4. Newest(ForksOf(L, key)) > Newest(T)
    BY <2>1 DEF OpenKeys
  <2>5. S \subseteq T /\ S \subseteq 1 .. Len(L) /\ T \subseteq 1 .. Len(M)
    BY <1>2
  <2>6. ForksOf(L, key) \subseteq 1 .. Len(L)
    BY <1>1 DEF ForksOf
  <2> HIDE DEF S, T
  <2>7. Newest(S) <= Newest(T) /\ Newest(S) \in Nat /\ Newest(T) \in Nat
    BY <1>5, <2>5
  <2>8. Newest(ForksOf(L, key)) \in 0 .. Len(L)
    BY <1>0, <2>6, NewestIsLast
  <2> QED BY <1>0, <2>3, <2>4, <2>7, <2>8
<1>7. ~(Newest(AsksHuman(M)) > Newest(Kind(M, "answer")))
  <2>1. ~(Newest(AsksHuman(L)) > Newest(Kind(L, "answer")))
    BY DEF OpenItems
  <2>2. /\ Newest(Kind(L, "answer")) <= Newest(Kind(M, "answer"))
        /\ Newest(Kind(L, "answer")) \in Nat /\ Newest(Kind(M, "answer")) \in Nat
    BY <1>2, <1>5
  <2>3. AsksHuman(L) \subseteq 1 .. Len(L)
    BY <1>3 DEF AsksHuman, Statuses
  <2>4. Newest(AsksHuman(L)) \in 0 .. Len(L)
    BY <1>0, <2>3, NewestIsLast
  <2> QED BY <1>0, <1>4, <2>1, <2>2, <2>4
<1> QED BY <1>6, <1>7 DEF OpenItems

LEMMA OwedStays ==
  ASSUME NEW L, NEW M, NEW A, Extends(L, M, A), "version" \notin A, "table" \notin A
  PROVE  TableOwed(M) = TableOwed(L)
<1>1. /\ Latest(M) = Latest(L) /\ TableInForce(M, Latest(L)) = TableInForce(L, Latest(L))
      /\ Kind(M, "table") = Kind(L, "table")
  BY LatestStays, InForceStays, KindGrows
<1> QED BY <1>1 DEF TableOwed

LEMMA FindsLastStays ==
  ASSUME NEW L, NEW M, NEW A, Extends(L, M, A), "findings" \notin A, "disposed" \notin A,
         NEW p, FindsLast(L, p)
  PROVE  FindsLast(M, p) /\ (Undisposed(M) <=> Undisposed(L))
<1>0. IsLog(L) /\ Len(L) \in Nat
  BY DEF Extends
<1>1. /\ Kind(M, "findings") = Kind(L, "findings") /\ Kind(L, "findings") \subseteq 1 .. Len(L)
      /\ \A k \in Kind(L, "findings") : M[k] = L[k]
      /\ Kind(M, "disposed") = Kind(L, "disposed") /\ Kind(L, "disposed") \subseteq 1 .. Len(L)
  BY KindGrows
<1>2. Nonempty(M, Kind(M, "findings")) = Nonempty(L, Kind(L, "findings"))
  BY <1>1 DEF Nonempty
<1>3. Undisposed(M) <=> Undisposed(L)
  BY <1>1, <1>2 DEF Undisposed
<1>4. Undisposed(L) => Newest(Kind(L, "findings")) \in Kind(L, "findings")
  <2> SUFFICES ASSUME Undisposed(L) PROVE Kind(L, "findings") # {}
    BY <1>0, <1>1, NewestWithin
  <2>1. Newest(Kind(L, "disposed")) \in 0 .. Len(L)
    BY <1>0, <1>1, NewestWithin
  <2>2. Kind(L, "findings") = {} => Newest(Nonempty(L, Kind(L, "findings"))) = 0
    <3>1. Nonempty(L, {}) = {}
      BY DEF Nonempty
    <3> QED BY <3>1, NewestOfNone
  <2>3. Newest(Nonempty(L, Kind(L, "findings"))) > Newest(Kind(L, "disposed"))
    BY DEF Undisposed
  <2> QED BY <1>0, <2>1, <2>2, <2>3
<1> QED BY <1>1, <1>3, <1>4 DEF FindsLast

LEMMA HeldUpStays ==
  ASSUME NEW L, NEW M, NEW A, Extends(L, M, A), "version" \notin A,
         \A k \in Kind(M, "status") : k > Len(L) => M[k].who # "critic",
         NEW st, NEW st2, HeldUp(L, st), st = "converged" => st2 = "converged"
  PROVE  HeldUp(M, st2)
<1>0. IsLog(L) /\ Len(L) \in Nat /\ Len(M) \in Nat
  BY DEF Extends
<1>1. /\ Kind(L, "status") \subseteq Kind(M, "status") /\ Kind(L, "status") \subseteq 1 .. Len(L)
      /\ Kind(M, "status") \subseteq 1 .. Len(M)
      /\ \A k \in Kind(M, "status") : k <= Len(L) => k \in Kind(L, "status")
      /\ \A k \in Kind(L, "status") : M[k] = L[k]
  BY KindGrows
<1>2. Statuses(M) = Statuses(L)
  <2>1. \A k \in Kind(M, "status") : k \in 1 .. Len(M)
    BY <1>1
  <2> QED BY <1>0, <1>1, <2>1 DEF Statuses
<1>3. Latest(M) = Latest(L)
  BY LatestStays
<1>4. /\ Kind(L, "blocked") \subseteq Kind(M, "blocked")
      /\ \A k \in Kind(L, "blocked") : M[k] = L[k]
  BY KindGrows
<1>5. Newest(Statuses(L)) # 0 => M[Newest(Statuses(L))] = L[Newest(Statuses(L))]
  <2>1. Statuses(L) \subseteq Kind(L, "status") /\ Statuses(L) \subseteq 1 .. Len(L)
    BY <1>1 DEF Statuses
  <2>2. Newest(Statuses(L)) # 0 => Newest(Statuses(L)) \in Statuses(L)
    BY <1>0, <2>1, NewestWithin
  <2> QED BY <1>1, <2>1, <2>2
<1> QED BY <1>2, <1>3, <1>4, <1>5 DEF HeldUp

\* A step that raises nothing and finds nothing keeps the invariant, as long as the server
\* alone ends the review.
Ended(L, M, st) ==
  \A k \in Kind(M, "status") : k > Len(L) =>
     M[k].who = "system" /\ M[k].for = Latest(L) /\ st = "converged"

QuietKinds == {"answer", "exempted", "allowance", "report", "status"}

\* The pass goes on, is lost, or reports.
PassMoves ==
  \/ pass' = pass
  \/ pass' = NoPass
  \/ pass # NoPass /\ pass' = [pass EXCEPT !.stage = "reported"]

LEMMA QuietStep ==
  ASSUME IInv, Extends(log, log', QuietKinds), WellFormed(log'), Ended(log, log', state'),
         state = "converged" => state' = "converged", PassMoves,
         UNCHANGED <<denominator, inPlay>>
  PROVE  IInv'
<1>0. /\ "version" \notin QuietKinds /\ "table" \notin QuietKinds /\ "fork" \notin QuietKinds
      /\ "findings" \notin QuietKinds /\ "disposed" \notin QuietKinds
  BY DEF QuietKinds
<1>1. Dated(log', state')
  <2>1. NewDated(log, log', state')
    BY DEF Ended, NewDated
  <2> QED BY <1>0, <2>1, DatedStays DEF IInv
<1>2. \A k \in Kind(log', "status") : k > Len(log) => log'[k].who # "critic"
  BY DEF Ended
<1>3. HeldUp(log', state')
  BY <1>0, <1>2, HeldUpStays DEF IInv
<1>4. FindsLast(log', pass)
  BY <1>0, FindsLastStays DEF IInv
<1>5. PassIsTyped' /\ (pass' # NoPass => pass # NoPass /\ pass'.for = pass.for)
      /\ (pass' # NoPass => pass' = pass \/ pass'.stage = "reported")
  BY DEF IInv, PassIsTyped, PassMoves, NoPass
<1>6. FindsLast(log', pass')
  BY <1>4, <1>5 DEF FindsLast
<1>7. PassStaysDue'
  <2> SUFFICES ASSUME pass' # NoPass
               PROVE  /\ pass'.for = Latest(log') /\ Latest(log') # 0
                      /\ ~OpenItems(log') /\ ~TableOwed(log)'
    BY DEF PassStaysDue, NoPass
  <2>1. pass.for = Latest(log) /\ Latest(log) # 0 /\ ~OpenItems(log) /\ ~TableOwed(log)
    BY <1>5 DEF IInv, PassStaysDue
  <2>2. Latest(log') = Latest(log)
    BY <1>0, LatestStays
  <2>3. ~OpenItems(log')
    BY <1>0, <1>2, <2>1, ItemsStayClosed
  <2>4. TableOwed(log') = TableOwed(log)
    BY <1>0, OwedStays
  <2>5. TableOwed(log)' = TableOwed(log')
    BY DEF TableOwed
  <2> QED BY <1>5, <2>1, <2>2, <2>3, <2>4, <2>5
<1>8. ~Questions => Gated(log')
  BY <1>0, GatedStays DEF IInv, WellFormed
<1>9. Questions' = Questions
  BY DEF Questions
<1> QED BY <1>1, <1>3, <1>5, <1>6, <1>7, <1>8, <1>9 DEF IInv

\* A message, and what may end the review behind it.
LEMMA CompletedStep ==
  ASSUME WellFormed(log), NEW m, Fitting(log, m), m.kind # "status", m.kind # "version",
         NEW st, SelfComplete(Append(log, m), st)
  PROVE  /\ WellFormed(log') /\ Extends(log, log', {m.kind, "status"})
         /\ Ended(log, log', state') /\ (state' = st \/ state' = "converged")
<1> DEFINE L == Append(log, m)
<1>1. /\ WellFormed(L) /\ Extends(log, L, {m.kind})
  BY AppendFits
<1>2. Len(log) \in Nat /\ Len(L) = Len(log) + 1 /\ L[Len(log) + 1] = m /\ IsLog(L)
  BY <1>1, Appended DEF WellFormed
<1> HIDE DEF L
<1>3. /\ WellFormed(log') /\ Extends(L, log', {"status"})
      /\ \/ log' = L /\ state' = st
         \/ /\ Convergeable(L) /\ Declared(L)
            /\ log' = Append(L, Ends(L)) /\ state' = "converged"
  BY <1>1, SelfCompleteFits DEF L
<1>4. Extends(log, log', {m.kind, "status"})
  <2>1. Extends(log, log', {m.kind} \cup {"status"})
    BY <1>1, <1>3, Extended
  <2>2. {m.kind} \cup {"status"} = {m.kind, "status"}
    OBVIOUS
  <2> QED BY <2>1, <2>2
<1>5. Latest(L) = Latest(log)
  BY <1>1, LatestStays
<1>6. \A k \in Kind(L, "status") : k <= Len(log)
  BY <1>2 DEF Kind
<1>7. Ended(log, log', state')
  <2>1. CASE log' = L
    BY <1>2, <1>6, <2>1 DEF Ended, Kind
  <2>2. CASE log' = Append(L, Ends(L)) /\ state' = "converged"
    <3> SUFFICES ASSUME NEW k \in Kind(log', "status"), k > Len(log)
                 PROVE  log'[k].who = "system" /\ log'[k].for = Latest(log)
      BY <2>2 DEF Ended
    <3>1. \/ k \in Kind(L, "status")
          \/ k = Len(L) + 1 /\ Append(L, Ends(L))[k] = Ends(L)
      BY <1>2, <2>2, AppendedKind
    <3>2. k \notin Kind(L, "status")
      <4>1. k \in Nat
        BY <1>3 DEF Kind, Extends
      <4> QED BY <1>2, <1>6, <4>1
    <3> QED BY <1>5, <2>2, <3>1, <3>2 DEF Ends
  <2> QED BY <1>3, <2>1, <2>2
<1> QED BY <1>3, <1>4, <1>7

LEMMA PostedAlone ==
  ASSUME WellFormed(log), NEW m, Fitting(log, m), m.kind # "status", log' = Append(log, m),
         NEW st
  PROVE  /\ WellFormed(log') /\ Extends(log, log', {m.kind}) /\ Ended(log, log', st)
         /\ Len(log) \in Nat /\ Len(log') = Len(log) + 1 /\ log'[Len(log) + 1] = m
<1>1. WellFormed(Append(log, m)) /\ Extends(log, Append(log, m), {m.kind})
  BY AppendFits
<1>2. /\ Len(log) \in Nat /\ Len(Append(log, m)) = Len(log) + 1
      /\ Append(log, m)[Len(log) + 1] = m
  BY Appended DEF WellFormed
<1>3. \A k \in Kind(Append(log, m), "status") : k <= Len(log)
  BY <1>2 DEF Kind
<1>4. \A k \in Kind(Append(log, m), "status") : k \in Nat
  BY <1>2 DEF Kind
<1>5. Ended(log, Append(log, m), st)
  BY <1>2, <1>3, <1>4 DEF Ended
<1> QED BY <1>1, <1>2, <1>5

LEMMA ExtendsMore ==
  ASSUME NEW L, NEW M, NEW A, NEW B, Extends(L, M, A), A \subseteq B
  PROVE  Extends(L, M, B)
BY DEF Extends

------------------------------------------------------------------------------
(* The invariant, step by step. *)

LEMMA CoverageInit ==
  ASSUME Init
  PROVE  IInv
<1>1. log = <<>> /\ pass = NoPass
  BY DEF Init
<1>2. Len(log) = 0 /\ log \in Seq({})
  BY <1>1
<1>3. \A kind : Kind(log, kind) = {}
  BY <1>2 DEF Kind
<1>4. Statuses(log) = {}
  BY <1>3 DEF Statuses
<1>5. WellFormed(log)
  BY <1>2, <1>3
     DEF WellFormed, IsLog, ForksAreNamed, AnswersFollow, MessagesFit, BlockersFollow
<1>6. Dated(log, state)
  BY <1>3 DEF Dated
<1>7. PassIsTyped /\ PassStaysDue /\ FindsLast(log, pass)
  BY <1>1 DEF PassIsTyped, PassStaysDue, FindsLast, NoPass
<1>8. HeldUp(log, state)
  BY <1>4, NewestOfNone DEF HeldUp
<1>9. Gated(log)
  BY <1>3 DEF Gated
<1> QED BY <1>5, <1>6, <1>7, <1>8, <1>9 DEF IInv

LEMMA PostVersionStep ==
  ASSUME IInv, PostVersion
  PROVE  IInv'
<1> DEFINE m == [kind |-> "version"]
<1>1. log' = Append(log, m) /\ pass = NoPass /\ pass' = NoPass /\ denominator' = denominator
  BY DEF PostVersion, PostAs
<1>2. m.kind = "version" /\ Fitting(log, m)
  BY DEF Fitting
<1> HIDE DEF m
<1>3. /\ WellFormed(log') /\ Extends(log, log', {"version"})
      /\ Len(log) \in Nat /\ Len(log') = Len(log) + 1 /\ log'[Len(log) + 1] = m
  BY <1>1, <1>2, PostedAlone DEF IInv
<1>4. Latest(log') = Len(log) + 1
  <2>1. Kind(log', "version") \subseteq 1 .. Len(log) + 1
        /\ Len(log) + 1 \in Kind(log', "version")
    BY <1>2, <1>3 DEF Kind
  <2> QED BY <2>1, AppendedIsNewest DEF Latest, IInv, WellFormed
<1>5. /\ Kind(log', "status") = Kind(log, "status") /\ Kind(log, "status") \subseteq 1 .. Len(log)
      /\ \A k \in Kind(log, "status") : log'[k] = log[k]
  BY <1>3, KindGrows
<1>6. \A k \in Kind(log, "status") :
         /\ log[k].for \in Nat /\ log[k].for < Len(log) + 1 /\ k < Len(log) + 1
         /\ log[k].who \in {"critic", "system"}
  <2>1. Latest(log) \in 0 .. Len(log)
    <3>1. Kind(log, "version") \subseteq 1 .. Len(log)
      BY DEF Kind
    <3> QED BY <1>3, <3>1, NewestIsLast DEF Latest
  <2>2. \A k \in Kind(log, "status") :
           /\ log[k].for \in Nat /\ log[k].for <= Latest(log)
           /\ log[k].who \in {"critic", "system"}
    BY DEF IInv, Dated
  <2>3. \A k \in Kind(log, "status") : k \in 1 .. Len(log)
    BY <1>5
  <2> QED BY <1>3, <2>1, <2>2, <2>3
<1>7. Dated(log', state')
  <2> SUFFICES ASSUME NEW k \in Kind(log, "status")
               PROVE  /\ log[k].for \in Nat /\ log[k].for <= Len(log) + 1
                      /\ log[k].for = Len(log) + 1 <=> k > Len(log) + 1
                      /\ log[k].who = "system" /\ log[k].for = Len(log) + 1
                         => state' = "converged"
                      /\ log[k].who \in {"critic", "system"}
    BY <1>4, <1>5 DEF Dated
  <2>1. k \in 1 .. Len(log)
    BY <1>5
  <2> QED BY <1>3, <1>6, <2>1
<1>8. HeldUp(log', state')
  <2>1. Statuses(log') = Statuses(log)
    BY <1>5 DEF Statuses
  <2> DEFINE e == Newest(Statuses(log))
  <2>2. e # 0 => e \in Kind(log, "status")
    <3>1. Statuses(log) \subseteq Kind(log, "status") /\ Statuses(log) \subseteq 1 .. Len(log)
      BY <1>5 DEF Statuses
    <3>2. e # 0 => e \in Statuses(log)
      BY <1>3, <3>1, NewestIsLast
    <3> QED BY <3>1, <3>2
  <2>3. e # 0 => log'[e].for # Latest(log')
    <3> HIDE DEF e
    <3> QED BY <1>3, <1>4, <1>5, <1>6, <2>2
  <2> QED BY <2>1, <2>3 DEF HeldUp
<1>9. PassIsTyped' /\ PassStaysDue' /\ FindsLast(log', pass')
  BY <1>1 DEF PassIsTyped, PassStaysDue, FindsLast, NoPass
<1>10. (~Questions => Gated(log)) => ((~Questions)' => Gated(log'))
  <2>1. "fork" \notin {"version"} /\ AnswersFollow(log)
    BY DEF IInv, WellFormed
  <2>2. Gated(log) => Gated(log')
    BY <1>3, <2>1, GatedStays
  <2> QED BY <1>1, <2>2 DEF Questions
<1> QED BY <1>3, <1>7, <1>8, <1>9, <1>10 DEF IInv

LEMMA PostTableStep ==
  ASSUME IInv, NEW t \in Tables, PostTable(t)
  PROVE  IInv'
<1> DEFINE m == [kind |-> "table", for |-> Latest(log), table |-> t]
<1>1. /\ log' = Append(log, m) /\ state' = state /\ Latest(log) # 0
      /\ pass' = pass /\ denominator' = denominator /\ inPlay' = inPlay
  BY DEF PostTable, PostAs
<1>2. m.kind = "table" /\ m.for = Latest(log) /\ m.table = t /\ Fitting(log, m)
  BY DEF Fitting
<1> HIDE DEF m
<1>3. /\ WellFormed(log') /\ Extends(log, log', {"table"}) /\ Ended(log, log', state)
      /\ Len(log) \in Nat /\ Len(log') = Len(log) + 1 /\ log'[Len(log) + 1] = m
  BY <1>1, <1>2, PostedAlone DEF IInv
<1>4. \A k \in Kind(log', "status") : k > Len(log) => log'[k].who # "critic"
  BY <1>3 DEF Ended
<1>5. Dated(log', state')
  <2>1. NewDated(log, log', state)
    BY <1>3 DEF Ended, NewDated
  <2> QED BY <1>1, <1>3, <2>1, DatedStays DEF IInv
<1>6. HeldUp(log', state')
  BY <1>1, <1>3, <1>4, HeldUpStays DEF IInv
<1>7. FindsLast(log', pass')
  BY <1>1, <1>3, FindsLastStays DEF IInv
<1>8. Latest(log') = Latest(log)
  BY <1>3, LatestStays
<1>9. TableInForce(log', Latest(log)) = t
  <2> DEFINE S == TablesFor(log', Latest(log))
  <2>1. S \subseteq 1 .. Len(log) + 1 /\ Len(log) + 1 \in S
    BY <1>2, <1>3 DEF TablesFor, Kind
  <2>2. Newest(S) = Len(log) + 1
    <3> HIDE DEF S
    <3> QED BY <2>1, AppendedIsNewest DEF IInv, WellFormed
  <2> QED BY <1>2, <1>3, <2>1, <2>2 DEF TableInForce
<1>10. PassIsTyped' /\ PassStaysDue'
  <2>1. PassIsTyped'
    BY <1>1 DEF IInv, PassIsTyped, NoPass
  <2>2. ASSUME pass # NoPass PROVE ~OpenItems(log')
    <3>1. ~OpenItems(log)
      BY <2>2 DEF IInv, PassStaysDue
    <3> QED BY <1>3, <1>4, <3>1, ItemsStayClosed
  <2>3. ~TableOwed(log)'
    BY <1>8, <1>9, CoverageAssumption DEF TableOwed
  <2> QED BY <1>1, <1>8, <2>1, <2>2, <2>3 DEF IInv, PassStaysDue, NoPass
<1>11. (~Questions => Gated(log)) => ((~Questions)' => Gated(log'))
  <2>1. "fork" \notin {"table"} /\ AnswersFollow(log)
    BY DEF IInv, WellFormed
  <2>2. Gated(log) => Gated(log')
    BY <1>3, <2>1, GatedStays
  <2> QED BY <1>1, <2>2 DEF Questions
<1> QED BY <1>3, <1>5, <1>6, <1>7, <1>10, <1>11 DEF IInv

LEMMA PostDispositionsStep ==
  ASSUME IInv, PostDispositions
  PROVE  IInv'
<1> DEFINE m == [kind |-> "disposed"]
<1>1. /\ SelfComplete(Append(log, m), state) /\ pass = NoPass
      /\ pass' = NoPass /\ denominator' = denominator
  BY DEF PostDispositions
<1>2. m.kind = "disposed" /\ Fitting(log, m)
  BY DEF Fitting
<1> HIDE DEF m
<1>3. /\ WellFormed(log') /\ Extends(log, log', {"disposed", "status"})
      /\ Ended(log, log', state') /\ (state' = state \/ state' = "converged")
  BY <1>1, <1>2, CompletedStep DEF IInv
<1>4. Dated(log', state')
  <2>1. NewDated(log, log', state')
    BY <1>3 DEF Ended, NewDated
  <2> QED BY <1>3, <2>1, DatedStays DEF IInv
<1>5. HeldUp(log', state')
  <2>1. \A k \in Kind(log', "status") : k > Len(log) => log'[k].who # "critic"
    BY <1>3 DEF Ended
  <2> QED BY <1>3, <2>1, HeldUpStays DEF IInv
<1>6. PassIsTyped' /\ PassStaysDue' /\ FindsLast(log', pass')
  BY <1>1 DEF PassIsTyped, PassStaysDue, FindsLast, NoPass
<1>7. (~Questions => Gated(log)) => ((~Questions)' => Gated(log'))
  <2>1. "fork" \notin {"disposed", "status"} /\ AnswersFollow(log)
    BY DEF IInv, WellFormed
  <2>2. Gated(log) => Gated(log')
    BY <1>3, <2>1, GatedStays
  <2> QED BY <1>1, <2>2 DEF Questions
<1> QED BY <1>3, <1>4, <1>5, <1>6, <1>7 DEF IInv

LEMMA PostDecisionStep ==
  ASSUME IInv, NEW key, NEW who, NEW word, NEW returns, PostDecision(key, who, word, returns)
  PROVE  IInv'
<1> DEFINE m == [kind |-> "answer", key |-> key, who |-> who, word |-> word,
                 returns |-> returns]
<1>1. /\ IF returns THEN /\ log' = Append(log, m)
                         /\ state' = IF state = "critic_reviewing" THEN "dev_disposing" ELSE state
                    ELSE SelfComplete(Append(log, m), state)
      /\ UNCHANGED <<denominator, inPlay, pass>>
      /\ ForksOf(log, key) # {} \/ key = NoKey
  BY DEF PostDecision
<1>2. m.kind = "answer" /\ Fitting(log, m)
  BY <1>1 DEF Fitting
<1> HIDE DEF m
<1>3. CASE returns
  <2>1. /\ WellFormed(log') /\ Extends(log, log', {"answer"}) /\ Ended(log, log', state')
    BY <1>1, <1>2, <1>3, PostedAlone DEF IInv
  <2>2. Extends(log, log', QuietKinds)
    BY <2>1, ExtendsMore DEF QuietKinds
  <2>3. state = "converged" => state' = "converged"
    BY <1>1, <1>3
  <2> QED BY <1>1, <2>1, <2>2, <2>3, QuietStep DEF PassMoves
<1>4. CASE ~returns
  <2>1. /\ WellFormed(log') /\ Extends(log, log', {"answer", "status"})
        /\ Ended(log, log', state') /\ (state' = state \/ state' = "converged")
    BY <1>1, <1>2, <1>4, CompletedStep DEF IInv
  <2>2. Extends(log, log', QuietKinds)
    BY <2>1, ExtendsMore DEF QuietKinds
  <2> QED BY <1>1, <2>1, <2>2, QuietStep DEF PassMoves
<1> QED BY <1>3, <1>4

LEMMA PostExemptionStep ==
  ASSUME IInv, PostExemption
  PROVE  IInv'
<1> DEFINE m == [kind |-> "exempted"]
<1>1. SelfComplete(Append(log, m), state) /\ UNCHANGED <<denominator, inPlay, pass>>
  BY DEF PostExemption
<1>2. m.kind = "exempted" /\ Fitting(log, m)
  BY DEF Fitting
<1> HIDE DEF m
<1>3. /\ WellFormed(log') /\ Extends(log, log', {"exempted", "status"})
      /\ Ended(log, log', state') /\ (state' = state \/ state' = "converged")
  BY <1>1, <1>2, CompletedStep DEF IInv
<1>4. Extends(log, log', QuietKinds)
  BY <1>3, ExtendsMore DEF QuietKinds
<1> QED BY <1>1, <1>3, <1>4, QuietStep DEF PassMoves

LEMMA PostAllowanceStep ==
  ASSUME IInv, NEW n \in {0, 1}, NEW who, PostAllowance(n, who)
  PROVE  IInv'
<1> DEFINE m == [kind |-> "allowance", n |-> n, who |-> who]
<1>1. log' = Append(log, m) /\ state' = state /\ UNCHANGED <<denominator, inPlay, pass>>
  BY DEF PostAllowance, PostAs
<1>2. m.kind = "allowance" /\ Fitting(log, m)
  BY DEF Fitting
<1> HIDE DEF m
<1>3. WellFormed(log') /\ Extends(log, log', {"allowance"}) /\ Ended(log, log', state')
  BY <1>1, <1>2, PostedAlone DEF IInv
<1>4. Extends(log, log', QuietKinds)
  BY <1>3, ExtendsMore DEF QuietKinds
<1> QED BY <1>1, <1>3, <1>4, QuietStep DEF PassMoves

LEMMA StartPassStep ==
  ASSUME IInv, StartPass
  PROVE  IInv'
<1>1. /\ UNCHANGED <<log, denominator, inPlay>> /\ PassDue(log)
      /\ pass' = [stage |-> "reading", for |-> Latest(log),
                  table |-> TableInForce(log, Latest(log))]
      /\ (state = "converged" <=> state' = "converged")
  BY DEF StartPass
<1>2. Latest(log) \in Nat
  <2>1. Kind(log, "version") \subseteq 1 .. Len(log)
    BY DEF Kind
  <2>2. Latest(log) \in 0 .. Len(log) /\ Len(log) \in Nat
    BY <2>1, NewestWithin DEF Latest, IInv, WellFormed, IsLog
  <2> QED BY <2>2
<1>3. TableInForce(log, Latest(log)) \in Tables \cup {NoTable}
  BY InForceIsPosted DEF IInv, WellFormed
<1>4. PassIsTyped'
  BY <1>1, <1>2, <1>3 DEF PassIsTyped
<1>5. PassStaysDue'
  <2>1. Latest(log) # 0 /\ ~OpenItems(log) /\ ~TableOwed(log)
    BY <1>1 DEF PassDue
  <2>2. TableOwed(log)' = TableOwed(log)
    BY <1>1 DEF TableOwed
  <2> QED BY <1>1, <2>1, <2>2 DEF PassStaysDue
<1>6. FindsLast(log', pass')
  BY <1>1 DEF FindsLast, PassDue, GateWaits
<1>7. Dated(log', state') /\ HeldUp(log', state')
  BY <1>1 DEF IInv, Dated, HeldUp
<1>8. WellFormed(log') /\ ((~Questions)' => Gated(log'))
  BY <1>1 DEF IInv, Questions
<1> QED BY <1>4, <1>5, <1>6, <1>7, <1>8 DEF IInv

LEMMA PostFindingsStep ==
  ASSUME IInv, NEW empty \in BOOLEAN, PostFindings(empty)
  PROVE  IInv'
<1> DEFINE m == [kind |-> "findings", for |-> pass.for, empty |-> empty]
<1>1. /\ log' = Append(log, m) /\ state' = state /\ UNCHANGED <<denominator, inPlay>>
      /\ pass.stage = "reading"
      /\ pass' = [pass EXCEPT !.stage = IF pass.table = NoTable THEN "reported" ELSE "found"]
  BY DEF PostFindings, PostAs
<1>2. m.kind = "findings" /\ m.for = pass.for /\ m.empty = empty /\ Fitting(log, m)
  BY DEF Fitting
<1> HIDE DEF m
<1>3. /\ WellFormed(log') /\ Extends(log, log', {"findings"}) /\ Ended(log, log', state')
      /\ Len(log) \in Nat /\ Len(log') = Len(log) + 1 /\ log'[Len(log) + 1] = m
  BY <1>1, <1>2, PostedAlone DEF IInv
<1>4. \A k \in Kind(log', "status") : k > Len(log) => log'[k].who # "critic"
  BY <1>3 DEF Ended
<1>5. Dated(log', state') /\ HeldUp(log', state')
  <2>1. NewDated(log, log', state')
    BY <1>3 DEF Ended, NewDated
  <2>2. Dated(log', state')
    BY <1>1, <1>3, <2>1, DatedStays DEF IInv
  <2>3. HeldUp(log', state')
    BY <1>1, <1>3, <1>4, HeldUpStays DEF IInv
  <2> QED BY <2>2, <2>3
<1>6. /\ pass # NoPass /\ PassIsTyped' /\ pass' # NoPass
      /\ pass'.for = pass.for /\ pass'.stage # "reading"
  BY <1>1 DEF IInv, PassIsTyped, NoPass
<1>7. PassStaysDue'
  <2>1. pass.for = Latest(log) /\ Latest(log) # 0 /\ ~OpenItems(log) /\ ~TableOwed(log)
    BY <1>6 DEF IInv, PassStaysDue
  <2>2. Latest(log') = Latest(log)
    BY <1>3, LatestStays
  <2>3. ~OpenItems(log')
    BY <1>3, <1>4, <2>1, ItemsStayClosed
  <2>4. TableOwed(log') = TableOwed(log)
    BY <1>3, OwedStays
  <2>5. TableOwed(log)' = TableOwed(log')
    BY <1>1 DEF TableOwed
  <2> QED BY <1>6, <2>1, <2>2, <2>3, <2>4, <2>5 DEF PassStaysDue
<1>8. ~Undisposed(log)
  BY <1>1, <1>6 DEF IInv, FindsLast
<1>9. Newest(Kind(log', "findings")) = Len(log) + 1
  <2>1. Kind(log', "findings") \subseteq 1 .. Len(log) + 1
        /\ Len(log) + 1 \in Kind(log', "findings")
    BY <1>2, <1>3 DEF Kind
  <2> QED BY <2>1, AppendedIsNewest DEF IInv, WellFormed
<1>10. empty => ~Undisposed(log')
  <2> SUFFICES ASSUME empty PROVE ~Undisposed(log')
    OBVIOUS
  <2>1. \A k \in Kind(log', "findings") :
           (k \in Kind(log, "findings") /\ log'[k] = log[k]) \/ log'[k] = m
    BY <1>1, <1>2, AppendedKind DEF IInv, WellFormed
  <2>2. \A k \in Kind(log, "findings") : k \in Kind(log', "findings") /\ log'[k] = log[k]
    BY <1>3, KindGrows
  <2>3. Nonempty(log', Kind(log', "findings")) = Nonempty(log, Kind(log, "findings"))
    BY <1>2, <2>1, <2>2 DEF Nonempty
  <2>4. Kind(log', "disposed") = Kind(log, "disposed")
    BY <1>3, KindGrows
  <2> QED BY <1>8, <2>3, <2>4 DEF Undisposed
<1>11. FindsLast(log', pass')
  BY <1>2, <1>3, <1>6, <1>9, <1>10 DEF FindsLast
<1>12. (~Questions => Gated(log)) => ((~Questions)' => Gated(log'))
  <2>1. "fork" \notin {"findings"} /\ AnswersFollow(log)
    BY DEF IInv, WellFormed
  <2>2. Gated(log) => Gated(log')
    BY <1>3, <2>1, GatedStays
  <2> QED BY <1>1, <2>2 DEF Questions
<1> QED BY <1>3, <1>5, <1>6, <1>7, <1>11, <1>12 DEF IInv

LEMMA PostReportStep ==
  ASSUME IInv, NEW answers, PostReport(answers)
  PROVE  IInv'
<1> DEFINE verdicts == [r \in DOMAIN answers |->
                          Screened(log, pass.for, r, Verified(answers[r]))]
           kept == {r \in DOMAIN answers : verdicts[r] # "refused"}
           m == [kind |-> "report", for |-> pass.for, table |-> pass.table, mute |-> FALSE,
                 rows |-> [r \in kept |-> verdicts[r]]]
<1>1. /\ log' = Append(log, m) /\ state' = state /\ UNCHANGED <<denominator, inPlay>>
      /\ pass.stage = "found" /\ pass' = [pass EXCEPT !.stage = "reported"]
      /\ DOMAIN answers \subseteq RowsOf[pass.table]
  BY DEF PostReport, PostAs
<1>2. m.kind = "report" /\ m.table = pass.table /\ DOMAIN m.rows = kept
  OBVIOUS
<1>3. kept \subseteq RowsOf[pass.table]
  BY <1>1
<1> HIDE DEF m, kept
<1>4. Fitting(log, m)
  BY <1>2, <1>3 DEF Fitting
<1>5. WellFormed(log') /\ Extends(log, log', {"report"}) /\ Ended(log, log', state')
  BY <1>1, <1>2, <1>4, PostedAlone DEF IInv
<1>6. Extends(log, log', QuietKinds)
  BY <1>5, ExtendsMore DEF QuietKinds
<1>7. PassMoves
  BY <1>1 DEF PassMoves, NoPass
<1> QED BY <1>1, <1>5, <1>6, <1>7, QuietStep

LEMMA PostUnanswerableStep ==
  ASSUME IInv, PostUnanswerable
  PROVE  IInv'
<1> DEFINE m == [kind |-> "report", for |-> pass.for, table |-> pass.table, mute |-> TRUE,
                 rows |-> [r \in {} |-> "none"]]
<1>1. /\ log' = Append(log, m) /\ state' = state /\ UNCHANGED <<denominator, inPlay>>
      /\ pass.stage = "found" /\ pass' = [pass EXCEPT !.stage = "reported"]
  BY DEF PostUnanswerable, PostAs
<1>2. m.kind = "report" /\ DOMAIN m.rows = {}
  OBVIOUS
<1> HIDE DEF m
<1>3. Fitting(log, m)
  BY <1>2 DEF Fitting
<1>4. WellFormed(log') /\ Extends(log, log', {"report"}) /\ Ended(log, log', state')
  BY <1>1, <1>2, <1>3, PostedAlone DEF IInv
<1>5. Extends(log, log', QuietKinds)
  BY <1>4, ExtendsMore DEF QuietKinds
<1>6. PassMoves
  BY <1>1 DEF PassMoves, NoPass
<1> QED BY <1>1, <1>4, <1>5, <1>6, QuietStep

LEMMA LosePassStep ==
  ASSUME IInv, LosePass
  PROVE  IInv'
<1>1. UNCHANGED <<log, state, denominator, inPlay>> /\ pass' = NoPass
  BY DEF LosePass
<1>2. Dated(log', state') /\ HeldUp(log', state') /\ WellFormed(log')
      /\ ((~Questions)' => Gated(log'))
  BY <1>1 DEF IInv, Questions
<1>3. PassIsTyped' /\ PassStaysDue' /\ FindsLast(log', pass')
  BY <1>1 DEF PassIsTyped, PassStaysDue, FindsLast, NoPass
<1> QED BY <1>2, <1>3 DEF IInv

\* The statuses the end of a pass leaves: its own, and perhaps the server's.
LEMMA EndPassStatuses ==
  ASSUME WellFormed(log), NEW value \in {"needs_iteration", "needs_human", "converged"},
         EndPass(value)
  PROVE  /\ \A k \in Kind(log', "status") : k > Len(log) =>
               \/ k = Len(log) + 1
               \/ log'[k].who = "system" /\ log'[k].for = Latest(log) /\ state' = "converged"
         /\ Len(log) + 1 \in Statuses(log') /\ log'[Len(log) + 1] = Closing(value)
<1> DEFINE C == Closed(value)
           H == Held(value)
           R == Escalate(H)
<1>1. /\ WellFormed(C) /\ Extends(log, C, {"status"})
      /\ Len(log) \in Nat /\ Len(C) = Len(log) + 1
      /\ C[Len(log) + 1] = Closing(value) /\ Len(log) + 1 \in Statuses(C)
  BY ClosedFits
<1>2. WellFormed(H) /\ Extends(C, H, {"blocked"}) /\ Extends(log, H, {"status", "blocked"})
  BY HeldFits
<1>3. /\ WellFormed(R) /\ Extends(H, R, {"fork"}) /\ Extends(R, log', {"status"})
      /\ \/ log' = R
         \/ log' = Append(R, Ends(R)) /\ state' = "converged"
  BY EndPassGoes
<1> HIDE DEF C, H, R
<1>4. Extends(C, R, {"blocked"} \cup {"fork"})
  BY <1>2, <1>3, Extended
<1>5. Extends(log, R, {"status"} \cup ({"blocked"} \cup {"fork"}))
  BY <1>1, <1>4, Extended
<1>6. Extends(C, log', ({"blocked"} \cup {"fork"}) \cup {"status"})
  BY <1>3, <1>4, Extended
<1>7. Kind(R, "status") = Kind(C, "status") /\ Latest(R) = Latest(log)
  <2>1. "status" \notin {"blocked"} \cup {"fork"}
        /\ "version" \notin {"status"} \cup ({"blocked"} \cup {"fork"})
    OBVIOUS
  <2> QED BY <1>4, <1>5, <2>1, KindGrows, LatestStays
<1>8. \A k \in Kind(R, "status") : k > Len(log) => k = Len(log) + 1
  <2>1. \A k \in Kind(C, "status") : k \in 1 .. Len(log) + 1
    BY <1>1 DEF Kind
  <2> QED BY <1>1, <1>7, <2>1
<1>9. ASSUME NEW k \in Kind(log', "status"), k > Len(log)
      PROVE  \/ k = Len(log) + 1
             \/ log'[k].who = "system" /\ log'[k].for = Latest(log) /\ state' = "converged"
  <2>1. CASE log' = R
    BY <1>8, <1>9, <2>1
  <2>2. CASE log' = Append(R, Ends(R)) /\ state' = "converged"
    <3>1. \/ k \in Kind(R, "status")
          \/ log'[k] = Ends(R)
      BY <1>3, <1>9, <2>2, AppendedKind DEF WellFormed
    <3>2. CASE k \in Kind(R, "status")
      BY <1>8, <1>9, <3>2
    <3>3. CASE log'[k] = Ends(R)
      <4>1. Ends(R).who = "system" /\ Ends(R).for = Latest(R)
        BY DEF Ends
      <4> QED BY <1>7, <2>2, <3>3, <4>1
    <3> QED BY <3>1, <3>2, <3>3
  <2> QED BY <1>3, <2>1, <2>2
<1>10. Len(log) + 1 \in Statuses(log') /\ log'[Len(log) + 1] = Closing(value)
  <2>1. /\ Kind(C, "status") \subseteq Kind(log', "status")
        /\ \A k \in Kind(C, "status") : log'[k] = C[k]
    BY <1>6, KindGrows
  <2> QED BY <1>1, <2>1 DEF Statuses
<1> QED BY <1>9, <1>10

\* A declaration rows alone can hold up.
LEMMA HeldUpByRows ==
  ASSUME IInv, EndPass("converged"), ~Convergeable(log)
  PROVE  Notice.unreached # {}
<1>0. /\ IsLog(log) /\ MessagesFit(log) /\ Len(log) \in Nat
      /\ \A kind : Kind(log, kind) \subseteq 1 .. Len(log)
  BY DEF IInv, WellFormed, IsLog, Kind
<1>1. pass.stage = "reported" /\ pass.for = Latest(log) /\ CleanPass(log)
  BY DEF EndPass
<1>2. pass # NoPass
  BY <1>1 DEF NoPass
<1>3. ~OpenItems(log) /\ ~TableOwed(log)
  BY <1>2 DEF IInv, PassStaysDue
<1>4. ~Undisposed(log)
  <2> SUFFICES ASSUME Undisposed(log) PROVE FALSE
    OBVIOUS
  <2> DEFINE f   == Newest(Kind(log, "findings"))
             all == FindingsFor(log, Latest(log))
  <2>1. ~log[f].empty /\ log[f].for = Latest(log)
    BY <1>1, <1>2 DEF IInv, FindsLast
  <2>2. PICK k \in all : log[k].empty /\ k > Newest(Nonempty(log, all))
    BY <1>1 DEF CleanPass
  <2>3. k \in Kind(log, "findings")
    BY <2>2 DEF FindingsFor
  <2>4. f \in Kind(log, "findings") /\ k <= f /\ f \in 0 .. Len(log)
    BY <1>0, <2>3, NewestWithin
  <2>5. f \in Nonempty(log, all)
    <3>1. f \in all
      BY <2>1, <2>4 DEF FindingsFor
    <3> QED BY <2>1, <3>1 DEF Nonempty
  <2>6. Nonempty(log, all) \subseteq 1 .. Len(log)
    BY <1>0 DEF Nonempty, FindingsFor
  <2>7. f <= Newest(Nonempty(log, all)) /\ Newest(Nonempty(log, all)) \in 0 .. Len(log)
    <3> HIDE DEF f, all
    <3> QED BY <1>0, <2>5, <2>6, NewestWithin
  <2>8. k \in 1 .. Len(log)
    BY <1>0, <2>3
  <2> HIDE DEF f, all
  <2> QED BY <1>0, <2>2, <2>4, <2>7, <2>8
<1>5. CoverageBlocked(log)
  BY <1>1, <1>3, <1>4 DEF Convergeable
<1>6. Blockers(log) # {}
  <2>1. Allowance(log) \in Nat
    BY <1>0, AllowanceCounts
  <2>2. Cardinality({}) = 0
    BY FS_EmptySet
  <2> QED BY <1>5, <2>1, <2>2 DEF CoverageBlocked
<1> QED BY <1>5, <1>6 DEF Notice

LEMMA EndPassStep ==
  ASSUME IInv, NEW value \in {"needs_iteration", "needs_human", "converged"}, EndPass(value)
  PROVE  IInv'
<1> DEFINE H == Held(value)
           R == Escalate(H)
           n == Len(log) + 1
<1>0. WellFormed(log) /\ AnswersFollow(log) /\ IsLog(log) /\ Len(log) \in Nat
  BY DEF IInv, WellFormed, IsLog
<1>1. /\ WellFormed(H) /\ Extends(log, H, {"status", "blocked"})
      /\ value = "converged" /\ ~Convergeable(log) =>
           Len(H) = Len(log) + 2 /\ H[Len(log) + 2] = Notice
  BY <1>0, HeldFits
<1>2. /\ WellFormed(R) /\ Extends(H, R, {"fork"}) /\ WellFormed(log')
      /\ Extends(R, log', {"status"}) /\ Extends(log, log', {"status", "blocked", "fork"})
  BY <1>0, EndPassGoes
<1>3. /\ \A k \in Kind(log', "status") : k > Len(log) =>
            \/ k = n
            \/ log'[k].who = "system" /\ log'[k].for = Latest(log) /\ state' = "converged"
      /\ n \in Statuses(log') /\ log'[n] = Closing(value)
  BY <1>0, EndPassStatuses
<1>4. /\ pass' = NoPass /\ UNCHANGED <<denominator, inPlay>>
      /\ pass # NoPass /\ pass.for = Latest(log)
  <2>1. pass.stage \in {"reported", "reading"} /\ pass' = NoPass
        /\ UNCHANGED <<denominator, inPlay>>
    BY DEF EndPass
  <2>2. pass # NoPass
    BY <2>1 DEF NoPass
  <2> QED BY <2>1, <2>2 DEF IInv, PassStaysDue
<1>5. state = "converged" => state' = "converged"
  BY DEF EndPass, SelfComplete
<1> HIDE DEF H, R
<1>6. Dated(log', state')
  <2>1. Closing(value).for = pass.for /\ Closing(value).who = "critic"
    BY DEF Closing
  <2>2. NewDated(log, log', state')
    BY <1>3, <1>4, <2>1 DEF NewDated
  <2> QED BY <1>2, <1>5, <2>2, DatedStays DEF IInv
<1>7. HeldUp(log', state')
  <2>1. /\ Kind(log', "status") \subseteq 1 .. Len(log') /\ Len(log') \in Nat
        /\ \A k \in Kind(log', "blocked") : k \in 1 .. Len(log')
    BY <1>2, KindGrows DEF Extends, Kind
  <2>2. \A k \in Statuses(log') : k <= n
    <3> SUFFICES ASSUME NEW k \in Statuses(log'), k > Len(log) PROVE k = n
      BY <1>0, <2>1 DEF Statuses
    <3> QED BY <1>3 DEF Statuses
  <2>3. Newest(Statuses(log')) = n
    <3>1. Statuses(log') \subseteq 1 .. Len(log') /\ Statuses(log') # {}
      BY <1>3, <2>1 DEF Statuses
    <3>2. /\ Newest(Statuses(log')) \in Statuses(log')
          /\ n <= Newest(Statuses(log')) /\ Newest(Statuses(log')) \in 0 .. Len(log')
      BY <1>3, <2>1, <3>1, NewestIsLast
    <3> QED BY <1>0, <2>2, <3>2
  <2>4. ASSUME value = "converged", state' # "converged"
        PROVE  n + 1 \in Kind(log', "blocked") /\ log'[n + 1].unreached # {}
    <3>1. ~Convergeable(log)
      BY <2>4 DEF EndPass
    <3>2. Len(H) = Len(log) + 2 /\ H[Len(log) + 2] = Notice /\ n + 1 = Len(log) + 2
      BY <1>0, <1>1, <2>4, <3>1
    <3>3. Extends(H, log', {"fork"} \cup {"status"})
      BY <1>2, Extended
    <3>4. log'[Len(log) + 2] = Notice /\ Len(log) + 2 \in 1 .. Len(log')
      BY <1>0, <3>2, <3>3 DEF Extends
    <3>5. Notice.kind = "blocked"
      BY DEF Notice
    <3>6. Notice.unreached # {}
      BY <2>4, <3>1, HeldUpByRows
    <3> QED BY <3>2, <3>4, <3>5, <3>6 DEF Kind
  <2>5. log'[n].value = value
    BY <1>3 DEF Closing
  <2> HIDE DEF n
  <2> QED BY <2>3, <2>4, <2>5 DEF HeldUp
<1>8. PassIsTyped' /\ PassStaysDue' /\ FindsLast(log', pass')
  BY <1>4 DEF PassIsTyped, PassStaysDue, FindsLast, NoPass
<1>9. ASSUME ~Questions PROVE Gated(log')
  <2>1. Gated(H)
    BY <1>0, <1>1, <1>9, GatedStays DEF IInv
  <2>2. R = Fork(H, IF CoverageBlocked(H) THEN Persistent(H) ELSE {})
    BY <1>9 DEF Escalate, R
  <2>3. Gated(R)
    BY <1>1, <2>1, <2>2, GatedFork
  <2>4. AnswersFollow(R) /\ "fork" \notin {"status"}
    BY <1>2 DEF WellFormed
  <2> QED BY <1>2, <2>3, <2>4, GatedStays
<1>10. Questions' = Questions
  BY <1>4 DEF Questions
<1> QED BY <1>2, <1>6, <1>7, <1>8, <1>9, <1>10 DEF IInv

LEMMA CoverageStep ==
  ASSUME IInv, [Next]_vars
  PROVE  IInv'
<1>1. CASE PostVersion
  BY <1>1, PostVersionStep
<1>2. CASE \E t \in Tables : PostTable(t)
  BY <1>2, PostTableStep
<1>3. CASE PostDispositions
  BY <1>3, PostDispositionsStep
<1>4. CASE \E key \in Keys, d \in Decisions : PostDecision(key, d.who, d.word, d.returns)
  BY <1>4, PostDecisionStep
<1>5. CASE PostExemption
  BY <1>5, PostExemptionStep
<1>6. CASE \E n \in {0, 1}, who \in {"operator", "development"} : PostAllowance(n, who)
  BY <1>6, PostAllowanceStep
<1>7. CASE StartPass
  BY <1>7, StartPassStep
<1>8. CASE \E empty \in BOOLEAN : PostFindings(empty)
  BY <1>8, PostFindingsStep
<1>9. CASE \E answers \in Reports[denominator] : PostReport(answers)
  BY <1>9, PostReportStep
<1>10. CASE PostUnanswerable
  BY <1>10, PostUnanswerableStep
<1>11. CASE \E value \in {"needs_iteration", "needs_human", "converged"} : EndPass(value)
  BY <1>11, EndPassStep
<1>12. CASE LosePass
  BY <1>12, LosePassStep
<1>13. CASE UNCHANGED vars
  <2>1. UNCHANGED <<log, state, denominator, inPlay, pass>>
    BY <1>13 DEF vars
  <2>2. WellFormed(log') /\ Dated(log', state') /\ FindsLast(log', pass') /\ HeldUp(log', state')
        /\ ((~Questions)' => Gated(log'))
    BY <2>1 DEF IInv, Questions
  <2>3. PassIsTyped' /\ PassStaysDue'
    <3>1. TableOwed(log)' = TableOwed(log)
      BY <2>1 DEF TableOwed
    <3> QED BY <2>1, <3>1 DEF IInv, PassIsTyped, PassStaysDue, NoPass
  <2> QED BY <2>2, <2>3 DEF IInv
<1> QED
  BY <1>1, <1>2, <1>3, <1>4, <1>5, <1>6, <1>7, <1>8, <1>9, <1>10, <1>11, <1>12, <1>13 DEF Next

\* The log stays well formed, statuses stay dated, a running pass stays due, what awaits
\* its dispositions is what the pass found, a declaration held up says by which rows, and
\* the operator's word to keep a row buys it two passes.
THEOREM Invariance == Spec => []IInv
<1>1. Init => IInv
  BY CoverageInit
<1>2. IInv /\ [Next]_vars => IInv'
  BY CoverageStep
<1> QED BY <1>1, <1>2, PTL DEF Spec

------------------------------------------------------------------------------
(* The properties. *)

LEMMA GatedRowsWait ==
  ASSUME IInv
  PROVE  KeepGatingHolds
BY DEF IInv, Gated, KeepGatingHolds

\* "The same group will not re-escalate on the next pass": a row of a place table the
\* operator kept gating is put to the operator again only after two more passes ended,
\* for any tables, reports and decisions.
THEOREM KeptRowsWait == Spec => []KeepGatingHolds
BY Invariance, GatedRowsWait, PTL

\* A declaration the rows hold up waits for a report it names its rows to.
LEMMA HeldUpIsDue ==
  ASSUME IInv
  PROVE  BlockedIsScheduled
<1> SUFFICES ASSUME state \in {"critic_reviewing", "dev_disposing"}, Declared(log),
                    CleanPass(log), ~Undisposed(log), ~OpenItems(log), ~TableOwed(log),
                    log[Newest(Statuses(log))].value = "converged"
             PROVE  PassDue(log)
  BY DEF BlockedIsScheduled
<1> DEFINE v       == Latest(log)
           e       == Newest(Statuses(log))
           notices == {k \in Kind(log, "blocked") : log[k].unreached # {}}
           reports == {k \in Kind(log, "report") : log[k].for = v}
           heard   == {k \in reports : \E s \in Statuses(log) : s > k}
           a       == AnsweredAt(log, v, reports)
<1>0. /\ WellFormed(log) /\ IsLog(log) /\ Len(log) \in Nat
      /\ \A kind : Kind(log, kind) \subseteq 1 .. Len(log)
  BY DEF IInv, WellFormed, IsLog, Kind
<1>1. v # 0 /\ v \in 0 .. Len(log)
  <2>1. v # 0
    BY DEF CleanPass
  <2> QED BY <1>0, <2>1, NewestWithin DEF Latest
<1>2. Statuses(log) \subseteq Kind(log, "status") /\ Statuses(log) \subseteq 1 .. Len(log)
  BY <1>0 DEF Statuses
<1>3. PICK k \in Kind(log, "status") : log[k].value = "converged" /\ log[k].for = v
  BY DEF Declared
<1>4. k \in Statuses(log) /\ k > v
  <2>1. /\ log[k].for = Latest(log) <=> k > Latest(log)
        /\ log[k].who = "system" /\ log[k].for = Latest(log) => state = "converged"
        /\ log[k].who \in {"critic", "system"}
    BY DEF IInv, Dated
  <2>2. state # "converged"
    OBVIOUS
  <2> QED BY <1>3, <2>1, <2>2 DEF Statuses
<1>5. e \in Statuses(log) /\ k <= e /\ e \in 1 .. Len(log) /\ \A s \in Statuses(log) : s <= e
  <2>1. e \in Statuses(log) /\ \A s \in Statuses(log) : s <= e
    BY <1>0, <1>2, <1>4, NewestWithin
  <2> HIDE DEF e
  <2> QED BY <1>2, <1>4, <2>1
<1> HIDE DEF e, v
<1>6. log[e].for = v
  <2>1. e > v
    BY <1>0, <1>1, <1>2, <1>4, <1>5
  <2> QED BY <1>2, <1>5, <2>1 DEF IInv, Dated, v
<1>7. e + 1 \in notices
  <2>1. e # 0 /\ log[e].value = "converged" /\ log[e].for = Latest(log) /\ state # "converged"
    BY <1>0, <1>5, <1>6 DEF v, e
  <2> QED BY <2>1 DEF IInv, HeldUp, e
<1>8. Newest(notices) = e + 1
  <2>1. notices \subseteq 1 .. Len(log)
    BY <1>0
  <2> DEFINE n == Newest(notices)
  <2>2. n \in notices /\ e + 1 <= n /\ n \in 0 .. Len(log)
    <3> HIDE DEF notices
    <3> QED BY <1>0, <1>7, <2>1, NewestWithin
  <2>3. n - 1 \in Statuses(log)
    <3> HIDE DEF n
    <3> QED BY <1>0, <2>2 DEF WellFormed, BlockersFollow
  <2> HIDE DEF notices, n
  <2>4. n - 1 <= e
    BY <1>5, <2>3
  <2> QED BY <1>0, <1>5, <2>2, <2>4 DEF n
<1>9. log[e + 1].for = v
  <2>1. log[e + 1].for = log[(e + 1) - 1].for
    BY <1>0, <1>7 DEF WellFormed, BlockersFollow
  <2>2. (e + 1) - 1 = e
    BY <1>5
  <2> QED BY <1>6, <2>1, <2>2
<1>10. a < e + 1
  <2>1. a = Newest(heard)
    BY DEF AnsweredAt
  <2>2. heard \subseteq 1 .. Len(log)
    BY <1>0
  <2>3. \A h \in heard : h < e /\ h \in 1 .. Len(log)
    <3> SUFFICES ASSUME NEW h \in heard PROVE h < e /\ h \in 1 .. Len(log)
      OBVIOUS
    <3>1. PICK s \in Statuses(log) : s > h
      OBVIOUS
    <3>2. h \in 1 .. Len(log) /\ s \in 1 .. Len(log) /\ s <= e
      BY <1>2, <1>5, <2>2
    <3> HIDE DEF heard
    <3> QED BY <1>5, <3>1, <3>2
  <2> HIDE DEF heard, a, reports
  <2>4. Newest(heard) \in 0 .. Len(log) /\ (Newest(heard) # 0 => Newest(heard) \in heard)
    BY <1>0, <2>2, NewestWithin
  <2> QED BY <1>0, <1>5, <2>1, <2>3, <2>4
<1>11. RepassDue(log)
  <2>1. notices # {}
    BY <1>7
  <2>2. log[Newest(notices)].for = v
    BY <1>8, <1>9
  <2>3. Newest(notices) > a
    <3>1. a \in Nat
      <4>1. a = Newest(heard) /\ heard \subseteq 1 .. Len(log)
        BY <1>0 DEF AnsweredAt
      <4> HIDE DEF a, heard
      <4>2. a \in 0 .. Len(log)
        BY <1>0, <4>1, NewestWithin
      <4> QED BY <1>0, <4>2
    <3> HIDE DEF a, notices
    <3> QED BY <1>5, <1>8, <1>10, <3>1
  <2> QED BY <2>1, <2>2, <2>3 DEF RepassDue, v
<1> QED BY <1>1, <1>11 DEF PassDue, GateWaits, v

\* "The signal is spent once a fresh report answers it": whatever was lost, answered or
\* replaced since, a declaration that only its rows hold up has its next pass due
\* (coverage_repass_due against _coverage_blockers).
THEOREM HeldUpIsScheduled == Spec => []BlockedIsScheduled
BY Invariance, HeldUpIsDue, PTL

\* A step that converges the review leaves its rows measured.
LEMMA ConvergesMeasured ==
  ASSUME IInv, [Next]_vars, state # "converged", state' = "converged"
  PROVE  Measured(log')
<1>0. WellFormed(log)
  BY DEF IInv
\* The server's own status, behind a message that leaves the ledger settled.
<1>1. ASSUME NEW L, WellFormed(L), NEW st, SelfComplete(L, st), st # "converged"
      PROVE  Measured(log')
  <2>1. Convergeable(L) /\ Extends(L, log', {"status"})
    <3>1. /\ Extends(L, log', {"status"})
          /\ (log' = L /\ state' = st) \/ Convergeable(L)
      BY <1>1, SelfCompleteFits
    <3> QED BY <1>1, <3>1
  <2> QED BY <1>1, <2>1, ConvergeableIsMeasured
<1>2. CASE PostDispositions
  <2> DEFINE m == [kind |-> "disposed"]
  <2>1. SelfComplete(Append(log, m), state)
    BY <1>2 DEF PostDispositions
  <2>2. Fitting(log, m)
    BY DEF Fitting
  <2> HIDE DEF m
  <2>3. WellFormed(Append(log, m))
    BY <1>0, <2>2, AppendFits
  <2> QED BY <1>1, <2>1, <2>3
<1>3. CASE PostExemption
  <2> DEFINE m == [kind |-> "exempted"]
  <2>1. SelfComplete(Append(log, m), state)
    BY <1>3 DEF PostExemption
  <2>2. Fitting(log, m)
    BY DEF Fitting
  <2> HIDE DEF m
  <2>3. WellFormed(Append(log, m))
    BY <1>0, <2>2, AppendFits
  <2> QED BY <1>1, <2>1, <2>3
<1>4. CASE \E key \in Keys, d \in Decisions : PostDecision(key, d.who, d.word, d.returns)
  <2>1. PICK key \in Keys, d \in Decisions : PostDecision(key, d.who, d.word, d.returns)
    BY <1>4
  <2> DEFINE m == [kind |-> "answer", key |-> key, who |-> d.who, word |-> d.word,
                   returns |-> d.returns]
  <2>2. /\ IF d.returns
           THEN state' = IF state = "critic_reviewing" THEN "dev_disposing" ELSE state
           ELSE SelfComplete(Append(log, m), state)
        /\ ForksOf(log, key) # {} \/ key = NoKey
    BY <2>1 DEF PostDecision
  <2>3. SelfComplete(Append(log, m), state)
    BY <2>2
  <2>4. Fitting(log, m)
    BY <2>2 DEF Fitting
  <2> HIDE DEF m
  <2>5. WellFormed(Append(log, m))
    BY <1>0, <2>4, AppendFits
  <2> QED BY <1>1, <2>3, <2>5
<1>5. CASE \E value \in {"needs_iteration", "needs_human", "converged"} : EndPass(value)
  <2>1. PICK value \in {"needs_iteration", "needs_human", "converged"} : EndPass(value)
    BY <1>5
  <2> DEFINE raised == Escalate(Held(value))
  <2>2. /\ WellFormed(raised) /\ Extends(raised, log', {"status"})
        /\ \/ log' = raised
           \/ /\ Convergeable(raised) /\ Declared(raised) /\ value = "needs_iteration"
              /\ log' = Append(raised, Ends(raised)) /\ state' = "converged"
        /\ log' = raised /\ state # "converged" /\ state' = "converged" =>
             value = "converged" /\ Convergeable(log)
    BY <1>0, <2>1, EndPassGoes
  <2>3. CASE Convergeable(raised)
    <3> HIDE DEF raised
    <3> QED BY <2>2, <2>3, ConvergeableIsMeasured
  <2>4. CASE ~Convergeable(raised)
    <3>1. log' = raised /\ Convergeable(log)
      BY <2>2, <2>4
    <3>2. Held(value) = Closed(value)
      BY <3>1 DEF Held
    <3>3. Extends(log, Closed(value), {"status"})
      BY <1>0, ClosedFits
    <3>4. Escalate(Closed(value)) = Closed(value)
      BY <1>0, <3>1, <3>3, NothingEscalates
    <3>5. log' = Closed(value)
      BY <3>1, <3>2, <3>4
    <3> QED BY <1>0, <3>1, <3>3, <3>5, ConvergeableIsMeasured
  <2> QED BY <2>3, <2>4
<1>6. state' = state \/ state' # "converged"
      \/ PostDispositions \/ PostExemption
      \/ (\E key \in Keys, d \in Decisions : PostDecision(key, d.who, d.word, d.returns))
      \/ (\E value \in {"needs_iteration", "needs_human", "converged"} : EndPass(value))
  BY DEF Next, vars, PostVersion, PostTable, PostAllowance, PostFindings, PostReport,
         PostUnanswerable, StartPass, LosePass, PostAs
<1> QED BY <1>2, <1>3, <1>4, <1>5, <1>6

\* Whichever way a review converges, and however long after its declaration, every row of
\* the table in force is answered, released by the operator's last word, exempt by the
\* operator's grant, or within the allowance; with coverage in play there is a table.
THEOREM ConvergenceIsMeasured == Spec => ConvergedIsMeasured
<1>1. IInv /\ [Next]_vars =>
        (state # "converged" /\ state' = "converged" =>
           LET t    == TableInForce(log', Latest(log'))
               open == {r \in RowsOf[t] :
                          ~AnsweredRow(log', r) /\ ~Released(log', r)
                          /\ ~(r \in Outside \ Stakes /\ Kind(log', "exempted") # {}
                               /\ ~Questions)}
           IN  IF t = NoTable THEN inPlay # "yes"
               ELSE Cardinality(open) <= IF Questions THEN 0 ELSE Allowance(log'))
  <2> SUFFICES ASSUME IInv, [Next]_vars, state # "converged", state' = "converged"
               PROVE  LET t    == TableInForce(log', Latest(log'))
                          open == {r \in RowsOf[t] :
                                     ~AnsweredRow(log', r) /\ ~Released(log', r)
                                     /\ ~(r \in Outside \ Stakes /\ Kind(log', "exempted") # {}
                                          /\ ~Questions)}
                      IN  IF t = NoTable THEN inPlay # "yes"
                          ELSE Cardinality(open) <= IF Questions THEN 0 ELSE Allowance(log')
    OBVIOUS
  <2>1. Measured(log')
    BY ConvergesMeasured
  <2> QED BY <2>1 DEF Measured, Open
<1> QED BY <1>1, Invariance, PTL DEF Spec, ConvergedIsMeasured

------------------------------------------------------------------------------
(* The coverage table: what the tool makes of its input. *)

\* What the tool made, and what development made of it.
ManifestInv ==
  /\ input \in CodeInputs \cup SpecInputs
  /\ Given(made) => ~ToolRefuses(input) /\ made = <<Message(Draft(input))>>
  /\ Given(posted) =>
       /\ Given(made)
       /\ \/ posted = made
          \/ \E n \in Edits(Value(made).m) : \E id : posted = <<[m |-> n, id |-> id]>>

LEMMA ManifestInvHolds == ManifestSpec => []ManifestInv
<1>1. ManifestInit => ManifestInv
  BY DEF ManifestInit, ManifestInv, Given
<1>2. ManifestInv /\ [ManifestNext]_manifestVars => ManifestInv'
  <2> SUFFICES ASSUME ManifestInv, [ManifestNext]_manifestVars PROVE ManifestInv'
    OBVIOUS
  <2>1. CASE RunTool
    <3>1. /\ made' = BuildManifest(input) /\ posted' = made' /\ input' = input
      BY <2>1 DEF RunTool
    <3>2. Given(made') => ~ToolRefuses(input) /\ made' = <<Message(Draft(input))>>
      BY <3>1 DEF BuildManifest, Given
    <3>3. ToolRefuses(input)' = ToolRefuses(input) /\ Draft(input)' = Draft(input)
      BY <3>1
    <3> QED BY <3>1, <3>2, <3>3 DEF ManifestInv, Given
  <2>2. CASE EditMessage
    <3>1. /\ Given(made) /\ input' = input /\ made' = made
      BY <2>2 DEF EditMessage
    <3>2. PICK n \in Edits(Value(made).m), id \in {Value(made).id, <<"reissued">>} :
            posted' = <<IF id = <<"reissued">> THEN Message(n) ELSE [m |-> n, id |-> id]>>
      BY <2>2 DEF EditMessage
    <3>3. \E x : posted' = <<[m |-> n, id |-> x]>>
      BY <3>2 DEF Message
    <3> QED BY <3>1, <3>3 DEF ManifestInv, Given, Value
  <2>3. CASE UNCHANGED manifestVars
    BY <2>3 DEF manifestVars, ManifestInv, Given, Value
  <2> QED BY <2>1, <2>2, <2>3 DEF ManifestNext
<1> QED BY <1>1, <1>2, PTL DEF ManifestSpec

\* A block as a table carries it, and a table's slicing.
IsBlock(b) == b = [block |-> b.block, refs |-> b.refs, stakes |-> b.stakes]

Sliced(m) ==
  Given(m.blocks) => m.blocks = <<Value(m.blocks)>> /\ \A b \in Value(m.blocks) : IsBlock(b)

IsTable(m) ==
  m = [mode |-> m.mode, granularity |-> m.granularity, rows |-> m.rows, blocks |-> m.blocks,
       declared |-> m.declared, inputs |-> m.inputs]

LEMMA FrozenIsSliced ==
  ASSUME NEW blocks, NEW stakes
  PROVE  /\ \A b \in Frozen(blocks, stakes) : IsBlock(b)
         /\ \A b \in Frozen(blocks, stakes) : \E c \in blocks : b.block = c.block /\ b.refs = c.refs
         /\ \A c \in blocks : \E b \in Frozen(blocks, stakes) : b.block = c.block /\ b.refs = c.refs
<1> DEFINE Of(c) == [block |-> c.block, refs |-> c.refs,
                     stakes |-> \E h \in stakes : c \in Overlapped(blocks, h)]
<1>1. Frozen(blocks, stakes) = {Of(c) : c \in blocks}
  BY DEF Frozen
<1>2. \A c : IsBlock(Of(c)) /\ Of(c).block = c.block /\ Of(c).refs = c.refs
  BY DEF IsBlock
<1> HIDE DEF Of
<1> QED BY <1>1, <1>2

LEMMA DraftIsSliced ==
  ASSUME NEW i
  PROVE  /\ IsTable(Draft(i)) /\ Sliced(Draft(i))
         /\ Draft(i).mode = i.mode /\ Draft(i).granularity = i.granularity
         /\ i.mode # "spec" => Draft(i).rows = CodeRows(i)
         /\ i.mode = "spec" => Draft(i).rows = SpecRows(i)
         /\ i.mode = "code" => Draft(i).blocks = <<Frozen(Value(i.blocks), CodeStakes(i))>>
         /\ i.mode # "code" => Draft(i).blocks = <<>>
<1>1. /\ IsTable(Draft(i)) 
      /\ Draft(i).mode = i.mode /\ Draft(i).granularity = i.granularity
      /\ i.mode # "spec" => Draft(i).rows = CodeRows(i)
      /\ i.mode = "spec" => Draft(i).rows = SpecRows(i)
      /\ i.mode = "code" => Draft(i).blocks = <<Frozen(Value(i.blocks), CodeStakes(i))>>
      /\ i.mode # "code" => Draft(i).blocks = <<>>
  BY DEF Draft, IsTable
<1>2. Sliced(Draft(i))
  <2>1. CASE i.mode = "code"
    <3>1. Draft(i).blocks = <<Frozen(Value(i.blocks), CodeStakes(i))>>
      BY <1>1, <2>1
    <3>2. Value(Draft(i).blocks) = Frozen(Value(i.blocks), CodeStakes(i))
      BY <3>1 DEF Value
    <3> QED BY <3>1, <3>2, FrozenIsSliced DEF Sliced
  <2>2. CASE i.mode # "code"
    BY <1>1, <2>2 DEF Sliced, Given
  <2> QED BY <2>1, <2>2
<1> QED BY <1>1, <1>2

\* An edit leaves a table with a slicing, or with none.
LEMMA EditsAreSliced ==
  ASSUME NEW m, IsTable(m), Sliced(m), m.mode = "spec" \/ Given(m.blocks), NEW n \in Edits(m)
  PROVE  Sliced(n)
<1> DEFINE blocks == Value(m.blocks)
           Without(b) == blocks \ {b}
           Recut(b) == (blocks \ {b}) \cup {[b EXCEPT !.refs = Lines]}
           Flagged(b) == (blocks \ {b}) \cup {[b EXCEPT !.stakes = ~@]}
<1>1. \/ n.blocks = m.blocks
      \/ n.blocks = <<>>
      \/ n.blocks = <<{}>>
      \/ m.mode # "spec" /\ \E b \in blocks : \/ n.blocks = <<Without(b)>>
                                              \/ n.blocks = <<Recut(b)>>
                                              \/ n.blocks = <<Flagged(b)>>
  BY DEF Edits, IsTable
<1>2. \A b : IsBlock(b) => IsBlock([b EXCEPT !.refs = Lines]) /\ IsBlock([b EXCEPT !.stakes = ~@])
  BY DEF IsBlock
<1>3. CASE n.blocks \in {m.blocks, <<>>, <<{}>>}
  BY <1>3 DEF Sliced, Given, Value
<1>4. ASSUME m.mode # "spec", NEW b \in blocks,
             n.blocks \in {<<Without(b)>>, <<Recut(b)>>, <<Flagged(b)>>}
      PROVE  Sliced(n)
  <2>1. \A c \in blocks : IsBlock(c)
    BY <1>4 DEF Sliced
  <2>2. \A X \in {Without(b), Recut(b), Flagged(b)} : \A c \in X : IsBlock(c)
    BY <1>2, <2>1
  <2>3. PICK X \in {Without(b), Recut(b), Flagged(b)} : n.blocks = <<X>>
    BY <1>4
  <2>4. Value(n.blocks) = X
    BY <2>3 DEF Value
  <2> QED BY <2>2, <2>3, <2>4 DEF Sliced
<1> QED BY <1>1, <1>3, <1>4

\* A row, with the flag it is given.
LEMMA RowStressed ==
  ASSUME NEW kind, NEW locator, NEW yes
  PROVE  Stressed(Row(kind, locator), yes) =
           [id |-> RowIdFor(kind, locator), kind |-> kind, locator |-> locator,
            stakes |-> yes, outside |-> FALSE]
<1> DEFINE id == RowIdFor(kind, locator)
           no == FALSE
<1>1. Row(kind, locator) = [id |-> id, kind |-> kind, locator |-> locator,
                            stakes |-> no, outside |-> no]
  BY DEF Row
<1> HIDE DEF id, no
<1>2. [Row(kind, locator) EXCEPT !.stakes = yes]
      = [id |-> id, kind |-> kind, locator |-> locator, stakes |-> yes, outside |-> no]
  BY <1>1
<1> QED BY <1>2 DEF Stressed, id, no

\* The rows of a slicing carry their blocks' names and flags.
LEMMA BlockRowsCarry ==
  ASSUME NEW frozen
  PROVE  /\ \A r \in BlockRows(frozen) : \E b \in frozen, axis \in Axes :
               /\ r = [id |-> <<b.block, axis>>, kind |-> "block",
                       locator |-> <<b.block, axis>>, stakes |-> b.stakes, outside |-> FALSE]
         /\ \A b \in frozen, axis \in Axes : \E r \in BlockRows(frozen) :
               /\ r = [id |-> <<b.block, axis>>, kind |-> "block",
                       locator |-> <<b.block, axis>>, stakes |-> b.stakes, outside |-> FALSE]
<1> DEFINE Of(b, axis) == Stressed(Row("block", <<b.block, axis>>), b.stakes)
<1>1. BlockRows(frozen) = {Of(b, axis) : b \in frozen, axis \in Axes}
  BY DEF BlockRows
<1>2. \A b, axis : Of(b, axis) =
         [id |-> <<b.block, axis>>, kind |-> "block",
          locator |-> <<b.block, axis>>, stakes |-> b.stakes, outside |-> FALSE]
  BY RowStressed DEF RowIdFor
<1> HIDE DEF Of
<1> QED BY <1>1, <1>2

\* A slicing the tool accepts names each block once.
LEMMA FrozenNamesOnce ==
  ASSUME NEW blocks, NEW stakes, ~SlicingRefused(blocks, stakes),
         NEW b \in Frozen(blocks, stakes), NEW c \in Frozen(blocks, stakes), b.block = c.block
  PROVE  b = c
<1> DEFINE Of(x) == [block |-> x.block, refs |-> x.refs,
                     stakes |-> \E h \in stakes : x \in Overlapped(blocks, h)]
<1>1. PICK x \in blocks, y \in blocks : b = Of(x) /\ c = Of(y)
  BY DEF Frozen
<1>2. x.block = b.block /\ y.block = c.block
  BY <1>1
<1>3. x = y
  BY <1>2 DEF SlicingRefused
<1> HIDE DEF Of
<1> QED BY <1>1, <1>3

\* An id binds what it is made of.
LEMMA IdsBind ==
  ASSUME NEW m, NEW n, ManifestId(m) = ManifestId(n)
  PROVE  /\ m.mode = n.mode /\ m.granularity = n.granularity /\ m.inputs = n.inputs
         /\ {<<r.id, r.kind, r.locator, r.stakes>> : r \in m.rows} =
            {<<r.id, r.kind, r.locator, r.stakes>> : r \in n.rows}
<1> DEFINE A == {<<r.id, r.kind, r.locator, r.stakes>> : r \in m.rows}
           B == {<<r.id, r.kind, r.locator, r.stakes>> : r \in n.rows}
<1>1. <<m.mode, m.granularity, m.inputs, A>> = <<n.mode, n.granularity, n.inputs, B>>
  BY DEF ManifestId
<1> HIDE DEF A, B
<1>2. m.mode = n.mode /\ m.granularity = n.granularity /\ m.inputs = n.inputs /\ A = B
  BY <1>1
<1> QED BY <1>2 DEF A, B

\* A block of an accepted table is a block of the table its id is from.
LEMMA BlocksBind ==
  ASSUME NEW i, ~ToolRefuses(i), i.mode = "code",
         NEW n, Sliced(n), SlicingHolds(n), InputsHold(n),
         ManifestId(n) = ManifestId(Draft(i))
  PROVE  n.blocks = Draft(i).blocks
<1> DEFINE m == Draft(i)
           frozen == Frozen(Value(i.blocks), CodeStakes(i))
           now == Value(n.blocks)
<1>1. /\ m.mode = "code" /\ m.blocks = <<frozen>> /\ Value(m.blocks) = frozen
      /\ m.rows = CodeRows(i) /\ Sliced(m)
  BY DraftIsSliced DEF Value
<1>2. n.mode = "code" /\ n.inputs = m.inputs
      /\ {<<r.id, r.kind, r.locator, r.stakes>> : r \in n.rows} =
         {<<r.id, r.kind, r.locator, r.stakes>> : r \in m.rows}
  BY <1>1, IdsBind
<1>3. SlicingDigest(now) = SlicingDigest(frozen)
  <2>1. m.inputs.blocks = <<SlicingDigest(frozen)>>
    BY <1>1 DEF Draft, Given, Value
  <2>2. SlicingDigest(now) = Value(m.inputs.blocks)
    BY <1>2 DEF InputsHold
  <2> QED BY <2>1, <2>2 DEF Value
<1>4. ~SlicingRefused(Value(i.blocks), CodeStakes(i))
  BY DEF ToolRefuses
<1> HIDE DEF m, frozen, now
<1>5. /\ n.blocks = <<now>>
      /\ \A b \in now : IsBlock(b)
      /\ \A b, c \in now : b.block = c.block => b = c
      /\ {r.id : r \in AxisRows(n)} = {<<b.block, axis>> : b \in now, axis \in Axes}
      /\ \A b \in now, r \in AxisRows(n) : r.id[1] = b.block => r.stakes = b.stakes
  BY <1>2 DEF Sliced, SlicingHolds, now
<1>6. \A b \in frozen : IsBlock(b)
  BY <1>1 DEF Sliced, Given
<1>7. \A b, c \in frozen : b.block = c.block => b = c
  BY <1>4, FrozenNamesOnce DEF frozen
\* A flag is the flag of the block's rows, which the id binds.
<1>8. ASSUME NEW b \in now, NEW c \in frozen, b.block = c.block, b.refs = c.refs
      PROVE  b = c
  <2>1. PICK r \in AxisRows(n) : r.id = <<b.block, "change">>
    <3>1. "change" \in Axes
      BY DEF Axes
    <3>2. <<b.block, "change">> \in {<<x.block, axis>> : x \in now, axis \in Axes}
      BY <3>1
    <3> DEFINE ids == {r.id : r \in AxisRows(n)}
               named == {<<x.block, axis>> : x \in now, axis \in Axes}
    <3>3. ids = named
      BY <1>5
    <3> HIDE DEF ids, named
    <3>4. <<b.block, "change">> \in ids
      BY <3>2, <3>3 DEF named
    <3> QED BY <3>4 DEF ids
  <2>2. r \in n.rows /\ r.kind = "block" /\ r.stakes = b.stakes
    <3>1. r.id[1] = b.block
      BY <2>1
    <3> QED BY <1>5, <2>1, <3>1 DEF AxisRows
  <2>3. PICK s \in m.rows : s.id = r.id /\ s.kind = "block" /\ s.stakes = r.stakes
    <3>1. <<r.id, r.kind, r.locator, r.stakes>> \in
             {<<x.id, x.kind, x.locator, x.stakes>> : x \in m.rows}
      BY <1>2, <2>2
    <3>2. PICK s \in m.rows : <<r.id, r.kind, r.locator, r.stakes>> =
                              <<s.id, s.kind, s.locator, s.stakes>>
      BY <3>1
    <3>3. s.id = r.id /\ s.kind = r.kind /\ s.stakes = r.stakes
      BY <3>2
    <3> QED BY <2>2, <3>3
  <2>4. s \in BlockRows(frozen)
    <3>1. BlindEdge.kind = "blind_edge" /\ Row("divergence", <<"declared-scope-focus">>).kind = "divergence"
      BY DEF BlindEdge, Row
    <3>2. s \in BlockRows(frozen) \/ s = BlindEdge
          \/ s = Row("divergence", <<"declared-scope-focus">>)
      BY <1>1 DEF CodeRows, frozen
    <3> QED BY <2>3, <3>1, <3>2
  <2>5. PICK d \in frozen, axis \in Axes : s.id = <<d.block, axis>> /\ s.stakes = d.stakes
    <3>1. PICK d \in frozen, axis \in Axes :
             s = [id |-> <<d.block, axis>>, kind |-> "block",
                  locator |-> <<d.block, axis>>, stakes |-> d.stakes, outside |-> FALSE]
      BY <2>4, BlockRowsCarry
    <3>2. s.id = <<d.block, axis>> /\ s.stakes = d.stakes
      BY <3>1
    <3> QED BY <3>2
  <2>6. d = c
    <3>1. <<d.block, axis>> = <<b.block, "change">>
      BY <2>1, <2>3, <2>5
    <3>2. d.block = b.block
      BY <3>1
    <3> QED BY <1>7, <1>8, <3>2
  <2>7. b.stakes = c.stakes
    BY <2>2, <2>3, <2>5, <2>6
  <2>8. /\ b = [block |-> b.block, refs |-> b.refs, stakes |-> b.stakes]
        /\ c = [block |-> c.block, refs |-> c.refs, stakes |-> c.stakes]
    BY <1>5, <1>6 DEF IsBlock
  <2> QED BY <1>8, <2>7, <2>8
<1>9. \A b \in now : \E c \in frozen : b.block = c.block /\ b.refs = c.refs
  <2> SUFFICES ASSUME NEW b \in now
               PROVE  \E c \in frozen : b.block = c.block /\ b.refs = c.refs
    OBVIOUS
  <2>1. [block |-> b.block, refs |-> b.refs] \in SlicingDigest(frozen)
    BY <1>3 DEF SlicingDigest
  <2>2. PICK c \in frozen :
           [block |-> b.block, refs |-> b.refs] = [block |-> c.block, refs |-> c.refs]
    BY <2>1 DEF SlicingDigest
  <2> QED BY <2>2
<1>10. \A c \in frozen : \E b \in now : b.block = c.block /\ b.refs = c.refs
  <2> SUFFICES ASSUME NEW c \in frozen
               PROVE  \E b \in now : b.block = c.block /\ b.refs = c.refs
    OBVIOUS
  <2>1. [block |-> c.block, refs |-> c.refs] \in SlicingDigest(now)
    BY <1>3 DEF SlicingDigest
  <2>2. PICK b \in now :
           [block |-> b.block, refs |-> b.refs] = [block |-> c.block, refs |-> c.refs]
    BY <2>1 DEF SlicingDigest
  <2> QED BY <2>2
<1>11. now = frozen
  BY <1>8, <1>9, <1>10
<1> QED BY <1>1, <1>5, <1>11 DEF m

LEMMA TheIdBinds ==
  ASSUME ManifestInv
  PROVE  IdentityBindsTable
<1> SUFFICES ASSUME Given(posted), Value(posted).id = Value(made).id,
                    Accepts(Value(posted), input.mode, "file")
             PROVE  LET now == Value(posted).m
                        was == Value(made).m
                        Asked(m) == {<<r.id, r.kind, r.locator, r.stakes>> : r \in m.rows}
                    IN  /\ Asked(now) = Asked(was)
                        /\ now.mode = "code" => now.blocks = was.blocks /\ now.declared = was.declared
  BY DEF IdentityBindsTable
<1> DEFINE now == Value(posted).m
           was == Draft(input)
<1>1. ~ToolRefuses(input) /\ made = <<Message(was)>>
  BY DEF ManifestInv
<1>2. Value(made).m = was /\ Value(made).id = ManifestId(was)
  <2>1. Value(made) = Message(was)
    BY <1>1 DEF Value
  <2> HIDE DEF was
  <2> QED BY <2>1 DEF Message
<1>3. /\ IsTable(was) /\ Sliced(was) /\ was.mode = input.mode
      /\ was.mode = "spec" \/ Given(was.blocks)
  <2>1. input.mode \in {"code", "spec"}
    BY DEF ManifestInv, CodeInputs, SpecInputs
  <2> HIDE DEF was
  <2>2. /\ IsTable(was) /\ Sliced(was) /\ was.mode = input.mode
        /\ input.mode = "code" => was.blocks = <<Frozen(Value(input.blocks), CodeStakes(input))>>
    BY DraftIsSliced DEF was
  <2> QED BY <2>1, <2>2 DEF Given
<1>4. Sliced(now)
  <2>1. CASE posted = made
    BY <1>2, <1>3, <2>1
  <2>2. CASE \E n \in Edits(Value(made).m) : \E id : posted = <<[m |-> n, id |-> id]>>
    <3>1. PICK n \in Edits(was) : \E id : posted = <<[m |-> n, id |-> id]>>
      BY <1>2, <2>2
    <3>2. now = n
      BY <3>1 DEF Value
    <3> HIDE DEF was, now
    <3> QED BY <1>3, <3>1, <3>2, EditsAreSliced
  <2> QED BY <2>1, <2>2 DEF ManifestInv
<1>5. SlicingHolds(now) /\ InputsHold(now) /\ ManifestId(now) = ManifestId(was)
  <2>1. SlicingHolds(now) /\ InputsHold(now) /\ Value(posted).id = ManifestId(now)
    BY DEF Accepts, IdsHold
  <2> QED BY <1>2, <2>1
<1> HIDE DEF now, was
<1>6. /\ now.mode = was.mode /\ now.inputs = was.inputs
      /\ {<<r.id, r.kind, r.locator, r.stakes>> : r \in now.rows} =
         {<<r.id, r.kind, r.locator, r.stakes>> : r \in was.rows}
  BY <1>5, IdsBind
<1>7. ASSUME now.mode = "code" PROVE now.blocks = was.blocks /\ now.declared = was.declared
  <2>1. input.mode = "code"
    BY <1>3, <1>6, <1>7
  <2>2. now.blocks = was.blocks
    BY <1>1, <1>4, <1>5, <2>1, BlocksBind DEF was
  <2>3. <<now.declared>> = was.inputs.stakes
    BY <1>5, <1>6, <1>7 DEF InputsHold
  <2>4. was.inputs.stakes = input.stakes
    BY <2>1 DEF was, Draft
  <2>5. was.declared = IF Given(input.stakes) THEN Value(input.stakes) ELSE {}
    BY <2>1 DEF was, Draft
  <2>6. input.stakes = <<now.declared>>
    BY <2>3, <2>4
  <2>7. Given(input.stakes) /\ Value(input.stakes) = now.declared
    BY <2>6 DEF Given, Value
  <2> QED BY <2>2, <2>5, <2>7
<1> QED BY <1>2, <1>6, <1>7 DEF now

\* The id is what every later check compares, so it binds the table: of any edit, a
\* message that keeps the tool's id and is accepted asks what the tool's table asks, with
\* the same flags, over the same cut and the same declared list.
THEOREM TheIdIsTheTable == ManifestSpec => []IdentityBindsTable
BY ManifestInvHolds, TheIdBinds, PTL

\* What a row may be: an element, a word on the scope, or the hunt for blind edges.
RowForm(r) ==
  /\ r = Row(r.kind, r.locator)
  /\ \/ r.kind = "element" /\ \E e : r.locator = <<e>> /\ r.id = <<"element", e>>
     \/ /\ r.kind = "divergence"
        /\ \/ \E w : r.locator = <<w>> /\ r.id = <<"divergence", w>>
           \/ \E w, p : r.locator = <<w, p>> /\ r.id = <<"divergence", w, p>>
     \/ r.kind = "blind_edge" /\ r.locator = BlindEdgeId /\ r.id = BlindEdgeId

LEMMA ShortIds ==
  ASSUME NEW kind, kind \notin {"blind_edge", "block"}, NEW x, NEW y
  PROVE  RowIdFor(kind, <<x>>) = <<kind, x>> /\ RowIdFor(kind, <<x, y>>) = <<kind, x, y>>
<1> DEFINE T == {kind, x, y}
<1>0. /\ <<kind>> \in Seq(T) /\ <<x>> \in Seq(T) /\ <<x, y>> \in Seq(T)
      /\ <<kind, x>> \in Seq(T) /\ <<kind, x, y>> \in Seq(T)
      /\ Len(<<kind>>) = 1 /\ Len(<<x>>) = 1 /\ Len(<<x, y>>) = 2
      /\ Len(<<kind, x>>) = 2 /\ Len(<<kind, x, y>>) = 3
  OBVIOUS
<1>1. <<kind>> \o <<x>> = <<kind, x>>
  <2>1. /\ <<kind>> \o <<x>> \in Seq(T) /\ Len(<<kind>> \o <<x>>) = 2
        /\ \A i \in 1 .. 2 : (<<kind>> \o <<x>>)[i] =
               IF i <= 1 THEN <<kind>>[i] ELSE <<x>>[i - 1]
    BY <1>0, ConcatProperties
  <2>2. \A i \in 1 .. 2 : (<<kind>> \o <<x>>)[i] = <<kind, x>>[i]
    BY <2>1
  <2> HIDE DEF T
  <2> QED BY ONLY <1>0, <2>1, <2>2, SeqEqual
<1>2. <<kind>> \o <<x, y>> = <<kind, x, y>>
  <2>1. /\ <<kind>> \o <<x, y>> \in Seq(T) /\ Len(<<kind>> \o <<x, y>>) = 3
        /\ \A i \in 1 .. 3 : (<<kind>> \o <<x, y>>)[i] =
               IF i <= 1 THEN <<kind>>[i] ELSE <<x, y>>[i - 1]
    BY <1>0, ConcatProperties
  <2>2. \A i \in 1 .. 3 : (<<kind>> \o <<x, y>>)[i] = <<kind, x, y>>[i]
    BY <2>1
  <2> HIDE DEF T
  <2> QED BY ONLY <1>0, <2>1, <2>2, SeqEqual
<1> QED BY <1>1, <1>2 DEF RowIdFor

LEMMA RowIsItself ==
  ASSUME NEW kind, NEW locator
  PROVE  /\ Row(kind, locator).kind = kind /\ Row(kind, locator).locator = locator
         /\ Row(kind, locator).id = RowIdFor(kind, locator)
BY DEF Row

LEMMA ElementForm ==
  ASSUME NEW e
  PROVE  RowForm(Row("element", <<e>>))
<1> DEFINE r == Row("element", <<e>>)
<1>1. r.kind = "element" /\ r.locator = <<e>> /\ r.id = RowIdFor("element", <<e>>)
  BY RowIsItself
<1>2. RowIdFor("element", <<e>>) = <<"element", e>>
  BY ShortIds
<1>3. r = Row(r.kind, r.locator)
  BY <1>1
<1> HIDE DEF r
<1> QED BY <1>1, <1>2, <1>3 DEF RowForm, r

LEMMA DivergenceForm ==
  ASSUME NEW w, NEW p
  PROVE  RowForm(Row("divergence", <<w>>)) /\ RowForm(Row("divergence", <<w, p>>))
<1>1. ASSUME NEW l \in {<<w>>, <<w, p>>} PROVE RowForm(Row("divergence", l))
  <2> DEFINE r == Row("divergence", l)
  <2>1. r.kind = "divergence" /\ r.locator = l /\ r.id = RowIdFor("divergence", l)
    BY RowIsItself
  <2>2. RowIdFor("divergence", <<w>>) = <<"divergence", w>>
        /\ RowIdFor("divergence", <<w, p>>) = <<"divergence", w, p>>
    BY ShortIds
  <2>3. r = Row(r.kind, r.locator)
    BY <2>1
  <2> HIDE DEF r
  <2>4. \/ \E x : r.locator = <<x>> /\ r.id = <<"divergence", x>>
        \/ \E x, q : r.locator = <<x, q>> /\ r.id = <<"divergence", x, q>>
    BY <2>1, <2>2
  <2> QED BY <2>1, <2>3, <2>4 DEF RowForm, r
<1> QED BY <1>1

LEMMA BlindForm == RowForm(BlindEdge) /\ BlindEdge.kind = "blind_edge"
<1>1. /\ BlindEdge.kind = "blind_edge" /\ BlindEdge.locator = BlindEdgeId
      /\ BlindEdge.id = RowIdFor("blind_edge", BlindEdgeId)
  BY RowIsItself DEF BlindEdge
<1>2. RowIdFor("blind_edge", BlindEdgeId) = BlindEdgeId
  BY DEF RowIdFor
<1>3. BlindEdge = Row(BlindEdge.kind, BlindEdge.locator)
  BY <1>1 DEF BlindEdge
<1> QED BY <1>1, <1>2, <1>3 DEF RowForm

\* A row's id tells the row.
LEMMA FormsApart ==
  ASSUME NEW r, NEW s, RowForm(r), RowForm(s), r.id = s.id
  PROVE  r = s
<1>1. ASSUME NEW e, NEW w, NEW p
      PROVE  /\ <<"element", e>> # <<"divergence", w>>
             /\ <<"element", e>> # <<"divergence", w, p>> /\ <<"element", e>> # BlindEdgeId
             /\ <<"divergence", w>> # BlindEdgeId /\ <<"divergence", w, p>> # BlindEdgeId
             /\ <<"divergence", e>> # <<"divergence", w, p>>
  BY DEF BlindEdgeId
<1>2. r.kind = s.kind /\ r.locator = s.locator
  <2>1. CASE r.kind = "element"
    <3>1. PICK e : r.locator = <<e>> /\ r.id = <<"element", e>>
      BY <2>1 DEF RowForm
    <3>2. s.kind = "element"
      BY <1>1, <3>1 DEF RowForm
    <3>3. PICK f : s.locator = <<f>> /\ s.id = <<"element", f>>
      BY <3>2 DEF RowForm
    <3>4. e = f
      <4>1. <<"element", e>> = <<"element", f>>
        BY <3>1, <3>3
      <4> QED BY ONLY <4>1
    <3> QED BY <2>1, <3>1, <3>2, <3>3, <3>4
  <2>2. CASE r.kind = "blind_edge"
    <3>1. r.locator = BlindEdgeId /\ r.id = BlindEdgeId
      BY <2>2 DEF RowForm
    <3>2. s.kind = "blind_edge" /\ s.locator = BlindEdgeId
      BY <1>1, <3>1 DEF RowForm
    <3> QED BY <2>2, <3>1, <3>2
  <2>3. CASE r.kind = "divergence" /\ \E w : r.locator = <<w>> /\ r.id = <<"divergence", w>>
    <3>1. PICK w : r.locator = <<w>> /\ r.id = <<"divergence", w>>
      BY <2>3
    <3>2. s.kind = "divergence" /\ \E x : s.locator = <<x>> /\ s.id = <<"divergence", x>>
      BY <1>1, <3>1 DEF RowForm
    <3>3. PICK x : s.locator = <<x>> /\ s.id = <<"divergence", x>>
      BY <3>2
    <3>4. w = x
      <4>1. <<"divergence", w>> = <<"divergence", x>>
        BY <3>1, <3>3
      <4> QED BY ONLY <4>1
    <3> QED BY <2>3, <3>1, <3>2, <3>3, <3>4
  <2>4. CASE r.kind = "divergence" /\ \E w, p : r.locator = <<w, p>> /\ r.id = <<"divergence", w, p>>
    <3>1. PICK w, p : r.locator = <<w, p>> /\ r.id = <<"divergence", w, p>>
      BY <2>4
    <3>2. s.kind = "divergence" /\ \E x, q : s.locator = <<x, q>> /\ s.id = <<"divergence", x, q>>
      BY <1>1, <3>1 DEF RowForm
    <3>3. PICK x, q : s.locator = <<x, q>> /\ s.id = <<"divergence", x, q>>
      BY <3>2
    <3>4. w = x /\ p = q
      <4>1. <<"divergence", w, p>> = <<"divergence", x, q>>
        BY <3>1, <3>3
      <4> QED BY ONLY <4>1
    <3> QED BY <2>4, <3>1, <3>2, <3>3, <3>4
  <2> QED BY <2>1, <2>2, <2>3, <2>4 DEF RowForm
<1> QED BY <1>2 DEF RowForm

\* What the server asks of rows and ids, of a table with one hunt.
LEMMA OneHunt ==
  ASSUME NEW m, NEW hunt \in m.rows, hunt.kind = "blind_edge", hunt.id = BlindEdgeId,
         \A r \in m.rows : r.kind = "blind_edge" => r = hunt,
         \A r, s \in m.rows : r.id = s.id => r = s
  PROVE  RowsHold(m)
<1>1. {r \in m.rows : r.kind = "blind_edge"} = {hunt}
  OBVIOUS
<1>2. Cardinality({hunt}) = 1
  BY FS_Singleton
<1>3. Cardinality({r \in m.rows : r.kind = "blind_edge"}) = 1
  BY <1>1, <1>2
<1> QED BY <1>3 DEF RowsHold

LEMMA MessageIsNamed ==
  ASSUME NEW m
  PROVE  Message(m).m = m /\ Message(m).id = ManifestId(m)
BY DEF Message

\* A text's rows are of the forms.
SpecBase(i) ==
  {Row("element", <<e>>) : e \in SpecElements(i.text)}
  \cup (IF i.genre = "audience" THEN {} ELSE DivergenceRows(KnownPaths(i), i.scope))
  \cup {BlindEdge}

LEMMA SpecBaseForms ==
  ASSUME NEW i, NEW x \in SpecBase(i)
  PROVE  RowForm(x)
<1>1. CASE x = BlindEdge
  BY <1>1, BlindForm
<1>2. CASE x \in {Row("element", <<e>>) : e \in SpecElements(i.text)}
  <2>1. PICK e : x = Row("element", <<e>>)
    BY <1>2
  <2> QED BY <2>1, ElementForm
<1>3. CASE x \in DivergenceRows(KnownPaths(i), i.scope)
  <2>1. \/ x = Row("divergence", <<"unchecked">>)
        \/ \E p : x = Row("divergence", <<"undeclared", p>>)
        \/ \E p : x = Row("divergence", <<"unengaged", p>>)
    BY <1>3 DEF DivergenceRows
  <2>2. \A w, p : RowForm(Row("divergence", <<w>>)) /\ RowForm(Row("divergence", <<w, p>>))
    BY DivergenceForm
  <2> QED BY <2>1, <2>2
<1> QED BY <1>1, <1>2, <1>3 DEF SpecBase

LEMMA SpecIsAccepted ==
  ASSUME NEW i, i.mode = "spec"
  PROVE  Accepts(Message(Draft(i)), i.mode, i.granularity)
<1> DEFINE m == Draft(i)
           F(x) == \E e \in SpecStakes(i) : x.locator = <<e>>
<1>1. m.rows = SpecRows(i) /\ m.mode = "spec" /\ m.granularity = i.granularity /\ m.blocks = <<>>
  BY DraftIsSliced
<1>2. SpecRows(i) = {Stressed(x, F(x)) : x \in SpecBase(i)}
  BY DEF SpecRows, SpecBase
<1> HIDE DEF F
<1>3. ASSUME NEW x \in SpecBase(i)
      PROVE  /\ Stressed(x, F(x)).id = x.id /\ Stressed(x, F(x)).kind = x.kind
             /\ Stressed(x, F(x)).locator = x.locator
  <2>1. RowForm(x)
    BY SpecBaseForms
  <2>2. x = Row(x.kind, x.locator)
    BY <2>1 DEF RowForm
  <2> DEFINE k == x.kind
             l == x.locator
  <2>3. x.id = RowIdFor(k, l)
    BY <2>2, RowIsItself
  <2>4. Stressed(Row(k, l), F(x)) =
          [id |-> RowIdFor(k, l), kind |-> k, locator |-> l, stakes |-> F(x), outside |-> FALSE]
    BY RowStressed
  <2>5. Stressed(x, F(x)) =
          [id |-> RowIdFor(k, l), kind |-> k, locator |-> l, stakes |-> F(x), outside |-> FALSE]
    BY <2>2, <2>4
  <2> HIDE DEF k, l
  <2>6. /\ Stressed(x, F(x)).id = RowIdFor(k, l) /\ Stressed(x, F(x)).kind = k
        /\ Stressed(x, F(x)).locator = l
    BY <2>5
  <2> QED BY <2>3, <2>6 DEF k, l
<1> HIDE DEF m
<1>4. \A r \in m.rows : \E x \in SpecBase(i) :
         RowForm(x) /\ r = Stressed(x, F(x)) /\ r.id = x.id /\ r.kind = x.kind /\ r.locator = x.locator
  BY <1>1, <1>2, <1>3, SpecBaseForms
<1>5. \A r, s \in m.rows : r.id = s.id => r = s
  <2> SUFFICES ASSUME NEW r \in m.rows, NEW s \in m.rows, r.id = s.id PROVE r = s
    OBVIOUS
  <2>1. PICK x : RowForm(x) /\ r = Stressed(x, F(x)) /\ r.id = x.id
    BY <1>4
  <2>2. PICK y : RowForm(y) /\ s = Stressed(y, F(y)) /\ s.id = y.id
    BY <1>4
  <2>3. x = y
    BY <2>1, <2>2, FormsApart
  <2> QED BY <2>1, <2>2, <2>3
<1>6. RowsHold(m)
  <2> DEFINE hunt == Stressed(BlindEdge, F(BlindEdge))
  <2>1. BlindEdge \in SpecBase(i) /\ BlindEdge.id = BlindEdgeId /\ BlindEdge.kind = "blind_edge"
    BY BlindForm DEF SpecBase, RowForm
  <2>2. hunt \in m.rows /\ hunt.id = BlindEdgeId /\ hunt.kind = "blind_edge"
    BY <1>1, <1>2, <1>3, <2>1
  <2>3. \A r \in m.rows : r.kind = "blind_edge" => r.id = BlindEdgeId
    BY <1>4 DEF RowForm
  <2> HIDE DEF hunt
  <2>4. \A r \in m.rows : r.kind = "blind_edge" => r = hunt
    BY <1>5, <2>2, <2>3
  <2> QED BY <1>5, <2>2, <2>4, OneHunt
<1>7. SlicingHolds(m)
  BY <1>1 DEF SlicingHolds, Given
<1>8. InputsHold(m)
  <2>1. m.inputs.text = <<i.text>> /\ m.inputs.stakes = <<SpecStakes(i)>>
    BY DEF m, Draft
  <2> QED BY <1>1, <2>1 DEF InputsHold, Given
<1>9. IdsHold(Message(m))
  <2>1. \A r \in m.rows : r.id = RowIdFor(r.kind, r.locator)
    <3> SUFFICES ASSUME NEW r \in m.rows PROVE r.id = RowIdFor(r.kind, r.locator)
      OBVIOUS
    <3>1. PICK x : RowForm(x) /\ r.id = x.id /\ r.kind = x.kind /\ r.locator = x.locator
      BY <1>4
    <3>2. x.id = RowIdFor(x.kind, x.locator)
      <4>1. x = Row(x.kind, x.locator)
        BY <3>1 DEF RowForm
      <4> QED BY <4>1, RowIsItself
    <3> QED BY <3>1, <3>2
  <2> QED BY <2>1, MessageIsNamed DEF IdsHold
<1>10. FitsVersion(m, i.mode, i.granularity)
  BY <1>1 DEF FitsVersion
<1> QED BY <1>6, <1>7, <1>8, <1>9, <1>10, MessageIsNamed DEF Accepts, m

LEMMA CodeIsAccepted ==
  ASSUME NEW i, i.mode = "code", ~ToolRefuses(i), NEW declared, i.stakes = <<declared>>
  PROVE  Accepts(Message(Draft(i)), i.mode, i.granularity)
<1> DEFINE m == Draft(i)
           blocks == Value(i.blocks)
           frozen == Frozen(blocks, CodeStakes(i))
           focus == Row("divergence", <<"declared-scope-focus">>)
<1>1. /\ m.rows = CodeRows(i) /\ m.mode = "code" /\ m.granularity = i.granularity
      /\ m.blocks = <<frozen>>
  BY DraftIsSliced
<1>2. ~SlicingRefused(blocks, CodeStakes(i))
  BY DEF ToolRefuses
<1>3. m.rows \subseteq BlockRows(frozen) \cup {focus, BlindEdge} /\ BlindEdge \in m.rows
      /\ BlockRows(frozen) \subseteq m.rows
  BY <1>1 DEF CodeRows
<1>4. \A b, c \in frozen : b.block = c.block => b = c
  BY <1>2, FrozenNamesOnce
<1>5. RowForm(focus) /\ focus.kind = "divergence" /\ focus.id = <<"divergence", "declared-scope-focus">>
      /\ focus.locator = <<"declared-scope-focus">>
  <2>1. focus.id = <<"divergence", "declared-scope-focus">>
    <3>1. focus.id = RowIdFor("divergence", <<"declared-scope-focus">>)
      BY RowIsItself
    <3>2. RowIdFor("divergence", <<"declared-scope-focus">>) =
             <<"divergence", "declared-scope-focus">>
      BY ShortIds
    <3> QED BY <3>1, <3>2
  <2> QED BY <2>1, RowIsItself, DivergenceForm
<1>6. RowForm(BlindEdge) /\ BlindEdge.kind = "blind_edge" /\ BlindEdge.id = BlindEdgeId
  BY BlindForm DEF RowForm
<1>7. frozen # {} /\ \A b \in frozen : b.refs # {}
  <2>1. blocks # {} /\ \A c \in blocks : c.refs # {}
    BY <1>2 DEF SlicingRefused
  <2>2. /\ \A b \in frozen : \E c \in blocks : b.block = c.block /\ b.refs = c.refs
        /\ \A c \in blocks : \E b \in frozen : b.block = c.block /\ b.refs = c.refs
    BY FrozenIsSliced
  <2> HIDE DEF frozen, blocks
  <2> QED BY <2>1, <2>2
<1>8. m.inputs.stakes = i.stakes /\ m.declared = declared
      /\ m.inputs.blocks = <<SlicingDigest(frozen)>>
  BY <1>1 DEF Draft, Given, Value
<1> HIDE DEF m, frozen, blocks, focus
<1>9. \A r \in BlockRows(frozen) : \E b \in frozen, axis \in Axes :
         /\ r.id = <<b.block, axis>> /\ r.kind = "block" /\ r.locator = r.id /\ r.stakes = b.stakes
         /\ r = [id |-> <<b.block, axis>>, kind |-> "block",
                 locator |-> <<b.block, axis>>, stakes |-> b.stakes, outside |-> FALSE]
  <2> SUFFICES ASSUME NEW r \in BlockRows(frozen)
               PROVE  \E b \in frozen, axis \in Axes :
         /\ r.id = <<b.block, axis>> /\ r.kind = "block" /\ r.locator = r.id /\ r.stakes = b.stakes
         /\ r = [id |-> <<b.block, axis>>, kind |-> "block",
                 locator |-> <<b.block, axis>>, stakes |-> b.stakes, outside |-> FALSE]
    OBVIOUS
  <2>1. PICK b \in frozen, axis \in Axes :
           r = [id |-> <<b.block, axis>>, kind |-> "block",
                locator |-> <<b.block, axis>>, stakes |-> b.stakes, outside |-> FALSE]
    BY BlockRowsCarry
  <2>2. r.id = <<b.block, axis>> /\ r.kind = "block" /\ r.locator = r.id /\ r.stakes = b.stakes
    BY <2>1
  <2> QED BY <2>1, <2>2
<1>10. \A r \in BlockRows(frozen) : r.id # focus.id /\ r.id # BlindEdge.id
  <2> SUFFICES ASSUME NEW r \in BlockRows(frozen) PROVE r.id # focus.id /\ r.id # BlindEdge.id
    OBVIOUS
  <2>1. PICK b \in frozen, axis \in Axes : r.id = <<b.block, axis>>
    BY <1>9
  <2>2. axis # "declared-scope-focus"
    BY DEF Axes
  <2>3. <<b.block, axis>> # <<"divergence", "declared-scope-focus">>
    BY <2>2
  <2>4. <<b.block, axis>> # BlindEdgeId
    BY DEF BlindEdgeId
  <2> QED BY <1>5, <1>6, <2>1, <2>3, <2>4
<1>11. \A r, s \in BlockRows(frozen) : r.id = s.id => r = s
  <2> SUFFICES ASSUME NEW r \in BlockRows(frozen), NEW s \in BlockRows(frozen), r.id = s.id
               PROVE  r = s
    OBVIOUS
  <2>1. PICK b \in frozen, axis \in Axes :
           /\ r.id = <<b.block, axis>>
           /\ r = [id |-> <<b.block, axis>>, kind |-> "block",
                   locator |-> <<b.block, axis>>, stakes |-> b.stakes, outside |-> FALSE]
    BY <1>9
  <2>2. PICK c \in frozen, side \in Axes :
           /\ s.id = <<c.block, side>>
           /\ s = [id |-> <<c.block, side>>, kind |-> "block",
                   locator |-> <<c.block, side>>, stakes |-> c.stakes, outside |-> FALSE]
    BY <1>9
  <2>3. b.block = c.block /\ axis = side
    <3>1. <<b.block, axis>> = <<c.block, side>>
      BY <2>1, <2>2
    <3> QED BY ONLY <3>1
  <2>4. b = c
    BY <1>4, <2>3
  <2> QED BY <2>1, <2>2, <2>3, <2>4
<1>12. \A r, s \in m.rows : r.id = s.id => r = s
  <2>1. focus.id # BlindEdge.id
    BY <1>5, <1>6 DEF BlindEdgeId
  <2> QED BY <1>3, <1>10, <1>11, <2>1
<1>13. RowsHold(m)
  <2>1. \A r \in m.rows : r.kind = "blind_edge" => r = BlindEdge
    BY <1>3, <1>5, <1>9
  <2> QED BY <1>3, <1>6, <1>12, <2>1, OneHunt
<1>14. AxisRows(m) = BlockRows(frozen)
  BY <1>3, <1>5, <1>6, <1>9 DEF AxisRows
<1>15. SlicingHolds(m)
  <2>1. Given(m.blocks) /\ Value(m.blocks) = frozen
    BY <1>1 DEF Given, Value
  <2>2. {r.id : r \in BlockRows(frozen)} = {<<b.block, axis>> : b \in frozen, axis \in Axes}
    <3>1. \A b \in frozen, axis \in Axes : \E r \in BlockRows(frozen) : r.id = <<b.block, axis>>
      <4> SUFFICES ASSUME NEW b \in frozen, NEW axis \in Axes
                   PROVE  \E r \in BlockRows(frozen) : r.id = <<b.block, axis>>
        OBVIOUS
      <4>1. PICK r \in BlockRows(frozen) :
               r = [id |-> <<b.block, axis>>, kind |-> "block",
                    locator |-> <<b.block, axis>>, stakes |-> b.stakes, outside |-> FALSE]
        BY BlockRowsCarry
      <4>2. r.id = <<b.block, axis>>
        BY <4>1
      <4> QED BY <4>2
    <3>2. \A r \in BlockRows(frozen) : \E b \in frozen, axis \in Axes : r.id = <<b.block, axis>>
      BY <1>9
    <3> DEFINE ids == {r.id : r \in BlockRows(frozen)}
               named == {<<b.block, axis>> : b \in frozen, axis \in Axes}
    <3>3. ASSUME NEW z \in ids PROVE z \in named
      <4>1. PICK r \in BlockRows(frozen) : z = r.id
        OBVIOUS
      <4>2. PICK b \in frozen, axis \in Axes : r.id = <<b.block, axis>>
        BY <3>2
      <4>3. <<b.block, axis>> \in named
        OBVIOUS
      <4> QED BY <4>1, <4>2, <4>3
    <3>4. ASSUME NEW z \in named PROVE z \in ids
      <4>1. PICK b \in frozen, axis \in Axes : z = <<b.block, axis>>
        OBVIOUS
      <4>2. PICK r \in BlockRows(frozen) : r.id = <<b.block, axis>>
        BY <3>1
      <4> QED BY <4>1, <4>2
    <3> HIDE DEF ids, named
    <3>5. ids = named
      BY <3>3, <3>4
    <3> QED BY <3>5 DEF ids, named
  <2>3. ASSUME NEW b \in frozen, NEW r \in BlockRows(frozen), r.id[1] = b.block
        PROVE  r.stakes = b.stakes
    <3>1. PICK c \in frozen, axis \in Axes : r.id = <<c.block, axis>> /\ r.stakes = c.stakes
      BY <1>9
    <3>2. c.block = b.block
      BY <2>3, <3>1
    <3>3. c = b
      BY <1>4, <3>2
    <3> QED BY <3>1, <3>3
  <2> QED BY <1>1, <1>4, <1>7, <1>14, <2>1, <2>2, <2>3 DEF SlicingHolds
<1>16. InputsHold(m)
  <2>1. Given(m.inputs.blocks) /\ Value(m.inputs.blocks) = SlicingDigest(frozen)
        /\ Value(m.blocks) = frozen
    BY <1>1, <1>8 DEF Given, Value
  <2>2. Given(m.inputs.stakes) /\ <<m.declared>> = m.inputs.stakes
    BY <1>8 DEF Given
  <2> QED BY <1>1, <2>1, <2>2 DEF InputsHold
<1>17. IdsHold(Message(m))
  <2>1. \A r \in BlockRows(frozen) : r.id = RowIdFor(r.kind, r.locator)
    BY <1>9 DEF RowIdFor
  <2>2. focus.id = RowIdFor(focus.kind, focus.locator)
    BY <1>5, ShortIds
  <2>3. \A r \in m.rows : r.kind # "blind_edge" => r.id = RowIdFor(r.kind, r.locator)
    BY <1>3, <1>6, <2>1, <2>2
  <2> QED BY <2>3, MessageIsNamed DEF IdsHold
<1>18. FitsVersion(m, i.mode, i.granularity)
  BY <1>1 DEF FitsVersion
<1> QED BY <1>13, <1>15, <1>16, <1>17, <1>18, MessageIsNamed DEF Accepts, m

LEMMA TheToolFits ==
  ASSUME ManifestInv
  PROVE  ToolIsAccepted
<1> SUFFICES ASSUME Given(posted), posted = made, input.mode = "spec" \/ Given(input.stakes)
             PROVE  Accepts(Value(posted), input.mode, input.granularity)
  BY DEF ToolIsAccepted
<1>1. ~ToolRefuses(input) /\ Value(posted) = Message(Draft(input))
  BY DEF ManifestInv, Value
<1>2. CASE input.mode = "spec"
  BY <1>1, <1>2, SpecIsAccepted
<1>3. CASE input.mode # "spec"
  <2>1. input \in CodeInputs
    BY <1>3 DEF ManifestInv, SpecInputs
  <2>2. input.mode = "code" /\ input.stakes \in Optional(SUBSET Locators)
    BY <2>1 DEF CodeInputs
  <2>3. PICK declared : input.stakes = <<declared>>
    BY <1>3, <2>2 DEF Optional, Given
  <2> QED BY <1>1, <2>2, <2>3, CodeIsAccepted
<1> QED BY <1>2, <1>3

\* Development and the server do not share a line of this: whatever change, text, cut and
\* declared list the tool was given, what it prints with a declared high-stakes list the
\* server's validator takes, at the grain it was made for.
THEOREM TheToolIsTaken == ManifestSpec => []ToolIsAccepted
BY ManifestInvHolds, TheToolFits, PTL
=============================================================================
