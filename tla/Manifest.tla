------------------------------ MODULE Manifest ------------------------------
(***************************************************************************)
(* The coverage table of one version: development builds it with the tool  *)
(* (review/coverage.py: build_manifest), may edit the message the tool     *)
(* prints, and posts it; the server, which has no repository to build it   *)
(* from, judges the message by its content alone (review/repository.py:    *)
(* _validate_coverage_manifest_payload and append_message).                *)
(*                                                                         *)
(* The change is a set of changed lines, the text a list of lines, a       *)
(* digest the thing it digests.  Reading git, parsing the sources and the  *)
(* wording of locators are the constants Resolves and the sets of paths.   *)
(* A value that may be absent is a sequence of at most one element.        *)
(***************************************************************************)
EXTENDS Naturals, Sequences, FiniteSets

CONSTANTS
  Lines,        \* the lines the change touches
  Unchanged,    \* a line it does not touch
  BlockIds,     \* names development gives to the blocks of its slicing
  Locators,     \* declared high-stakes locators in code mode
  Resolves,     \* locator -> the changed lines of the file or symbol it names
  Elements,     \* element ids of the text's headings
  Marked,       \* those whose heading is tagged for the operator or names recovery
  Paths,        \* files: changed, or named by the text
  Cap           \* bound: rows the tool is told to allow

ASSUME ManifestAssumption ==
  /\ Unchanged \notin Lines
  /\ Resolves \in [Locators -> SUBSET Lines]
  /\ Marked \subseteq Elements
  /\ Cap \in Nat

VARIABLES
  input,    \* what the tool was called with
  made,     \* its table, or none when it refused
  posted    \* the message as development posts it

manifestVars == <<input, made, posted>>

Optional(S) == {<<>>} \cup {<<x>> : x \in S}
Given(o)    == o # <<>>
Value(o)    == o[1]

----------------------------------------------------------------------------
(* Rows                                                                    *)

Axes == {"change", "seam"}
BlindEdgeId == <<"hunt-by-name">>

\* row_id_for: only a block's row is named by its locator.
RowIdFor(kind, locator) ==
  CASE kind = "blind_edge" -> BlindEdgeId
    [] kind = "block"      -> locator
    [] OTHER               -> <<kind>> \o locator

\* _row
Row(kind, locator) ==
  [id |-> RowIdFor(kind, locator), kind |-> kind, locator |-> locator,
   stakes |-> FALSE, outside |-> FALSE]

BlindEdge == Row("blind_edge", BlindEdgeId)

Stressed(row, yes) == [row EXCEPT !.stakes = yes]

----------------------------------------------------------------------------
(* The text and its rows                                                   *)

\* spec_elements: a line is the id its heading carries, a heading without one
\* ("untitled"), or prose.
TextRefused(text) ==
  \/ \E k \in DOMAIN text : text[k] = "untitled"
  \/ \E j, k \in DOMAIN text : j # k /\ text[j] = text[k] /\ text[j] \in Elements

SpecElements(text) == {text[k] : k \in DOMAIN text} \cap Elements

\* derive_high_stakes
DeriveHighStakes(text) == SpecElements(text) \cap Marked

\* _divergence_rows: the files the change or the text reaches, and the declared ones.
DivergenceRows(known, declared) ==
  IF ~Given(declared) THEN {Row("divergence", <<"unchecked">>)}
  ELSE {Row("divergence", <<"undeclared", p>>) : p \in known \ Value(declared)}
       \cup {Row("divergence", <<"unengaged", p>>) : p \in Value(declared) \ known}

\* _changed_paths, _mentioned_paths, _mentioned_symbols
KnownPaths(i) ==
  i.changed \cup i.named \cup (IF i.granularity = "symbol" THEN i.symbols ELSE {})

\* The declared list is joined with the derived one: the mechanical floor.
SpecStakes(i) ==
  DeriveHighStakes(i.text) \cup (IF Given(i.stakes) THEN Value(i.stakes) ELSE {})

SpecRows(i) ==
  LET elements == {Row("element", <<e>>) : e \in SpecElements(i.text)}
      others   == IF i.genre = "audience" THEN {} ELSE DivergenceRows(KnownPaths(i), i.scope)
  IN  {Stressed(r, \E e \in SpecStakes(i) : r.locator = <<e>>) :
          r \in elements \cup others \cup {BlindEdge}}

----------------------------------------------------------------------------
(* The slicing and its rows (_code_block_rows)                             *)

Covered(blocks) == UNION {b.refs : b \in blocks}

\* The blocks a declared locator falls on.
Overlapped(blocks, locator) == {b \in blocks : b.refs \cap Resolves[locator] # {}}

SlicingRefused(blocks, stakes) ==
  \/ blocks = {}
  \/ \E b, c \in blocks : b # c /\ b.block = c.block
  \/ \E b \in blocks : b.refs = {}
  \/ \E b \in blocks : ~(b.refs \subseteq Lines)
  \/ ~(Lines \subseteq Covered(blocks))
  \/ \E h \in stakes : Overlapped(blocks, h) = {}

CodeStakes(i) == IF Given(i.stakes) THEN Value(i.stakes) ELSE {}

\* The slicing as the table carries it: each block with its computed flag.
Frozen(blocks, stakes) ==
  {[block |-> b.block, refs |-> b.refs,
    stakes |-> \E h \in stakes : b \in Overlapped(blocks, h)] : b \in blocks}

\* Mutant: the flag goes to the change axis only.
BlockRowsChangeOnly(frozen) ==
  {Stressed(Row("block", <<b.block, axis>>), b.stakes /\ axis = "change") :
      b \in frozen, axis \in Axes}

BlockRows(frozen) ==
  {Stressed(Row("block", <<b.block, axis>>), b.stakes) : b \in frozen, axis \in Axes}

CodeRows(i) ==
  BlockRows(Frozen(Value(i.blocks), CodeStakes(i)))
  \cup (IF Given(i.scope) THEN {Row("divergence", <<"declared-scope-focus">>)} ELSE {})
  \cup {BlindEdge}

\* slicing_digest: the computed flags are not part of the cut.
SlicingDigest(blocks) == {[block |-> b.block, refs |-> b.refs] : b \in blocks}

----------------------------------------------------------------------------
(* The tool (build_manifest)                                               *)

\* Mutant: the id forgets the high-stakes flags.
IdWithoutFlags(m) ==
  <<m.mode, m.granularity, m.inputs, {<<r.id, r.kind, r.locator>> : r \in m.rows}>>

\* _manifest_id: the tool's version and the ref pair are the same throughout.
ManifestId(m) ==
  <<m.mode, m.granularity, m.inputs,
    {<<r.id, r.kind, r.locator, r.stakes>> : r \in m.rows}>>

\* The refusals that come before the table is built, and the one after it.
ToolRefuses(i) ==
  \/ i.mode = "spec" /\ i.text = <<>>
  \/ i.mode = "code" /\ i.granularity # "symbol"
  \/ i.mode = "spec" /\ Given(i.blocks)
  \/ i.genre = "audience" /\ i.mode # "spec"
  \/ i.mode = "spec" /\ TextRefused(i.text)
  \/ i.mode = "code" /\ (~Given(i.blocks) \/ SlicingRefused(Value(i.blocks), CodeStakes(i)))
  \/ i.mode = "spec" /\ \E e \in SpecStakes(i) : \A r \in SpecRows(i) : r.locator # <<e>>

Draft(i) ==
  LET rows   == IF i.mode = "spec" THEN SpecRows(i) ELSE CodeRows(i)
      stakes == IF i.mode = "spec" THEN <<SpecStakes(i)>> ELSE i.stakes
      blocks == IF i.mode = "code" THEN <<Frozen(Value(i.blocks), CodeStakes(i))>> ELSE <<>>
  IN  [mode |-> i.mode, granularity |-> i.granularity, rows |-> rows, blocks |-> blocks,
       declared |-> IF Given(stakes) THEN Value(stakes) ELSE {},
       inputs |-> [text   |-> IF i.mode = "spec" THEN <<i.text>> ELSE <<>>,
                   scope  |-> i.scope,
                   stakes |-> stakes,
                   blocks |-> IF Given(blocks) THEN <<SlicingDigest(Value(blocks))>> ELSE <<>>]]

\* manifest_message
Message(m) == [m |-> m, id |-> ManifestId(m)]

BuildManifest(i) ==
  IF ToolRefuses(i) THEN <<>>
  ELSE IF Given(i.cap) /\ Cardinality(Draft(i).rows) > Value(i.cap) THEN <<>>
  ELSE <<Message(Draft(i))>>

----------------------------------------------------------------------------
(* The server (_validate_coverage_manifest_payload, append_message)        *)

RowsHold(m) ==
  /\ m.rows # {}
  /\ \A r, s \in m.rows : r.id = s.id => r = s
  /\ Cardinality({r \in m.rows : r.kind = "blind_edge"}) = 1
  /\ \A r \in m.rows : r.kind = "blind_edge" => r.id = BlindEdgeId

AxisRows(m) == {r \in m.rows : r.kind = "block"}

SlicingHolds(m) ==
  IF m.mode = "code"
  THEN /\ Given(m.blocks) /\ Value(m.blocks) # {}
       /\ \A b \in Value(m.blocks) : b.refs # {}
       /\ \A b, c \in Value(m.blocks) : b.block = c.block => b = c
       /\ {r.id : r \in AxisRows(m)} = {<<b.block, axis>> : b \in Value(m.blocks), axis \in Axes}
       /\ \A b \in Value(m.blocks), r \in AxisRows(m) :
             r.id[1] = b.block => r.stakes = b.stakes
  ELSE ~Given(m.blocks)

InputsHold(m) ==
  /\ m.mode = "code" => /\ Given(m.inputs.blocks)
                        /\ SlicingDigest(Value(m.blocks)) = Value(m.inputs.blocks)
                        /\ <<m.declared>> = m.inputs.stakes
  /\ m.mode = "spec" => Given(m.inputs.text)
  /\ Given(m.inputs.stakes)

IdsHold(message) ==
  /\ \A r \in message.m.rows : r.kind # "blind_edge" => r.id = RowIdFor(r.kind, r.locator)
  /\ message.id = ManifestId(message.m)

\* The message against the version it is posted for; a finer grain than the review's
\* tier asks for is always good.
FitsVersion(m, mode, required) ==
  /\ m.mode = mode
  /\ required = "symbol" => m.granularity = "symbol"

Accepts(message, mode, required) ==
  /\ RowsHold(message.m)
  /\ SlicingHolds(message.m)
  /\ InputsHold(message.m)
  /\ IdsHold(message)
  /\ FitsVersion(message.m, mode, required)

----------------------------------------------------------------------------
(* What development may call the tool with, and change before it posts     *)

Cuts == {c \in SUBSET [block : BlockIds, refs : SUBSET (Lines \cup {Unchanged})] :
            Cardinality(c) <= Cardinality(BlockIds)}

Texts == {<<>>, <<"prose">>, <<"untitled">>} \cup {<<e>> : e \in Elements}
         \cup {<<d, e>> : d, e \in Elements}

CodeInputs ==
  [mode : {"code"}, granularity : {"symbol", "file"}, genre : {"none", "audience"},
   text : {<<>>}, changed : {{}}, named : {{}}, symbols : {{}},
   scope : Optional({{}}), stakes : Optional(SUBSET Locators),
   blocks : Optional(Cuts), cap : Optional({Cap})]

SpecInputs ==
  [mode : {"spec"}, granularity : {"symbol", "file"}, genre : {"none", "audience"},
   text : Texts, changed : SUBSET Paths, named : SUBSET Paths,
   symbols : SUBSET Paths, scope : Optional(SUBSET Paths),
   stakes : Optional(SUBSET Elements), blocks : Optional({{}}), cap : Optional({Cap})]

Flip(r) == Stressed(r, ~r.stakes)

\* A table edited by hand: a row or a block dropped, renamed, flagged or unflagged,
\* marked outside the declared scope; the cut or the declared list changed.
Edits(m) ==
       {[m EXCEPT !.rows = @ \ {r}] : r \in m.rows}
  \cup {[m EXCEPT !.rows = (@ \ {r}) \cup {Flip(r)}] : r \in m.rows}
  \cup {[m EXCEPT !.rows = @ \cup {Flip(r)}] : r \in m.rows}
  \cup {[m EXCEPT !.rows = (@ \ {r}) \cup {[r EXCEPT !.outside = TRUE]}] : r \in m.rows}
  \cup {[m EXCEPT !.rows = (@ \ {r}) \cup {[r EXCEPT !.id = BlindEdgeId]}] : r \in m.rows}
  \cup {[m EXCEPT !.inputs.stakes = <<>>], [m EXCEPT !.inputs.text = <<>>],
        [m EXCEPT !.inputs.blocks = <<>>], [m EXCEPT !.blocks = <<>>]}
  \cup (IF m.mode = "spec" THEN {[m EXCEPT !.blocks = <<{}>>]} ELSE
              {[m EXCEPT !.declared = {}]}
         \cup {[m EXCEPT !.blocks = <<Value(@) \ {b}>>] : b \in Value(m.blocks)}
         \cup {[m EXCEPT !.blocks = <<(Value(@) \ {b}) \cup {[b EXCEPT !.refs = Lines]}>>] :
                  b \in Value(m.blocks)}
         \cup {[m EXCEPT !.blocks = <<(Value(@) \ {b}) \cup {[b EXCEPT !.stakes = ~@]}>>] :
                  b \in Value(m.blocks)}
         \cup {LET c == [b EXCEPT !.stakes = ~@]
               IN  [m EXCEPT !.blocks = <<(Value(@) \ {b}) \cup {c}>>,
                             !.rows = {IF r.kind = "block" /\ r.id[1] = b.block
                                       THEN Flip(r) ELSE r : r \in @}] :
                  b \in Value(m.blocks)})

----------------------------------------------------------------------------
ManifestInit == input \in CodeInputs \cup SpecInputs /\ made = <<>> /\ posted = <<>>

\* main
RunTool ==
  /\ ~Given(made)
  /\ made' = BuildManifest(input)
  /\ posted' = made'
  /\ UNCHANGED input

\* Development edits the message, and may give it the id of what it has become.
EditMessage ==
  /\ Given(made) /\ posted = made
  /\ \E m \in Edits(Value(made).m), id \in {Value(made).id, <<"reissued">>} :
        posted' = <<IF id = <<"reissued">> THEN Message(m) ELSE [m |-> m, id |-> id]>>
  /\ UNCHANGED <<input, made>>

ManifestNext == RunTool \/ EditMessage

ManifestSpec == ManifestInit /\ [][ManifestNext]_manifestVars

----------------------------------------------------------------------------
\* Development and the server do not share a line of this: what the tool prints, with
\* a declared high-stakes list, the validator takes, for a version of the same mode and
\* at the grain its tier asks for (coverage.py 767-973, repository.py 2617-2927).
ToolIsAccepted ==
  /\ Given(posted) /\ posted = made
  /\ input.mode = "spec" \/ Given(input.stakes)
  => Accepts(Value(posted), input.mode, input.granularity)

\* The id is what every later check compares, so it must bind the table: an edited
\* message that keeps the tool's id is refused, or asks every question the tool's table
\* asks, with the same flags, over the same cut and the same declared list.
IdentityBindsTable ==
  /\ Given(posted)
  /\ Value(posted).id = Value(made).id
  /\ Accepts(Value(posted), input.mode, "file")
  => LET now == Value(posted).m
         was == Value(made).m
         Asked(m) == {<<r.id, r.kind, r.locator, r.stakes>> : r \in m.rows}
     IN  /\ Asked(now) = Asked(was)
         /\ now.mode = "code" => now.blocks = was.blocks /\ now.declared = was.declared
=============================================================================
