------------------------------ MODULE Harness ------------------------------
(***************************************************************************)
(* The review harness (src/review_harness: cycle.py, runcat.py, gates.py,  *)
(* critic.py, subproc.py): one process that runs the critic and then the   *)
(* development session of each round, with the run catalogue on disk as    *)
(* its only memory.                                                        *)
(*                                                                         *)
(* Every write of the catalogue replaces one file atomically, so the       *)
(* process can die between any two actions of this module and is started   *)
(* again by the operator.  A role it runs is killed with it: a role that   *)
(* survives because its death was not confirmed is left out.               *)
(***************************************************************************)
EXTENDS Naturals, FiniteSets

CONSTANTS
    Questions, Answers,
    MaxRound,    \* bound: rounds of the run
    MaxArtifact, \* bound: texts the artifact may have
    MaxEdits,    \* bound: edits of the artifact
    MaxProfile   \* bound: versions of the operator's profile

ASSUME HarnessAssumption ==
    /\ {MaxRound, MaxArtifact, MaxProfile} \subseteq Nat \ {0} /\ MaxEdits \in Nat
    /\ Questions # {} /\ Answers # {}

Rounds == 1 .. MaxRound
Artifacts == 1 .. MaxArtifact
Profiles == 1 .. MaxProfile

NoFile == [exists |-> FALSE]
NoAnswer == "no_answer"
ASSUME NoAnswerIsNoAnswer == NoAnswer \notin Answers

RoundMeta == [exists : {TRUE}, snapshot : Artifacts, profile : Profiles,
              resumed : 0 .. MaxProfile, completed : BOOLEAN]
RequestFile == [exists : {TRUE}, questions : SUBSET Questions]

VARIABLES
    \* run.json, gates.md and the files of each round
    confirmed, entryRecords, journal, pass, meta, outcomes, requests, answers,
    \* the world: the artifact's text, by its hash, and the cached profile's version
    artifact, profile,
    \* history: the texts since the last critic was called, whether one came back
    texts, putBack, edits,
    \* the process: its place, its round, what it holds, its session count
    pc, round, held, sessions

catalogue == <<confirmed, entryRecords, journal, pass, meta, outcomes, requests, answers>>
rounds == <<pass, meta, outcomes, requests, answers>>
world == <<artifact, profile>>
locals == <<round, held, sessions>>
history == <<texts, putBack, edits>>
vars == <<catalogue, world, history, pc, locals>>

Places == {"off", "stopped", "ask_entry", "mark_entry", "journal_entry", "ready",
           "critic", "meta", "pass", "serve", "write_answer", "journal_answer",
           "develop", "outcomes", "complete", "compare"}
Nothing == [read |-> 0, snapshot |-> 0, profile |-> 0,
            question |-> NoAnswer, answer |-> NoAnswer]

TypeOK ==
    /\ confirmed \in BOOLEAN /\ entryRecords \in 0 .. 1
    /\ journal \subseteq Rounds \X Questions
    /\ pass \in [Rounds -> 0 .. MaxArtifact]
    /\ meta \in [Rounds -> RoundMeta \cup {NoFile}]
    /\ outcomes \in [Rounds -> {"absent", "empty", "full"}]
    /\ requests \in [Rounds -> RequestFile \cup {NoFile}]
    /\ answers \in [Rounds -> [Questions -> Answers \cup {NoAnswer}]]
    /\ artifact \in Artifacts /\ profile \in Profiles
    /\ texts \subseteq Artifacts /\ putBack \in BOOLEAN /\ edits \in 0 .. MaxEdits
    /\ pc \in Places /\ round \in 0 .. MaxRound /\ sessions \in 0 .. 1
    /\ held \in [read : 0 .. MaxArtifact, snapshot : 0 .. MaxArtifact,
                 profile : 0 .. MaxProfile,
                 question : Questions \cup {NoAnswer}, answer : Answers \cup {NoAnswer}]

Init ==
    /\ confirmed = FALSE /\ entryRecords = 0 /\ journal = {}
    /\ pass = [r \in Rounds |-> 0]
    /\ meta = [r \in Rounds |-> NoFile]
    /\ outcomes = [r \in Rounds |-> "absent"]
    /\ requests = [r \in Rounds |-> NoFile]
    /\ answers = [r \in Rounds |-> [q \in Questions |-> NoAnswer]]
    /\ artifact = 1 /\ profile = 1 /\ texts = {1} /\ putBack = FALSE /\ edits = 0
    /\ pc = "off" /\ round = 0 /\ held = Nothing /\ sessions = 0

-----------------------------------------------------------------------------
(* What restore reads off the catalogue, and what it refuses.               *)

WithPass == {r \in Rounds : pass[r] # 0}
WithOutcomes == {r \in Rounds : outcomes[r] # "absent"}
WithAnswers == {r \in Rounds : \E q \in Questions : answers[r][q] # NoAnswer}
Completed == {r \in WithOutcomes : meta[r].exists /\ meta[r].completed}
IsPrefix(S) == S = 1 .. Cardinality(S)

Unanswered(r) == {q \in requests[r].questions : answers[r][q] = NoAnswer}
Hanging(r) ==
    requests[r].exists /\ (r \notin WithAnswers \/ Unanswered(r) # {})

OutcomesDamaged ==
    \/ \E r \in WithOutcomes : outcomes[r] = "empty"
    \/ ~(WithOutcomes \subseteq WithPass)
    \/ ~IsPrefix(WithPass)
    \/ ~IsPrefix(WithOutcomes)

MetaLost == \E r \in WithPass : ~meta[r].exists

HistoryDamaged ==
    \/ MetaLost
    \/ \E r \in WithPass \ WithOutcomes : meta[r].completed
    \/ ~IsPrefix(Completed)
    \/ Cardinality(WithPass) > Cardinality(Completed) + 1

GatesDamaged ==
    \/ \E r \in Completed : Hanging(r)
    \/ \E r \in Rounds \ WithPass : requests[r].exists \/ r \in WithAnswers

Restorable == ~OutcomesDamaged /\ ~HistoryDamaged /\ ~GatesDamaged

AwaitingNoFile == WithPass \ WithOutcomes

AwaitingOutcomes == WithPass \ Completed
CurrentRound == Cardinality(WithPass) + 1

-----------------------------------------------------------------------------
(* The entry gate.                                                          *)

\* A process is started; restore refuses a damaged catalogue.
Start ==
    /\ pc \in {"off", "stopped"} /\ Restorable
    /\ pc' = IF confirmed THEN "journal_entry" ELSE "ask_entry"
    /\ round' = 0 /\ held' = Nothing /\ sessions' = 0
    /\ UNCHANGED <<catalogue, world, history>>

\* An unrecognised word is asked again and changes nothing here.
EntryAnswered ==
    /\ pc = "ask_entry"
    /\ pc' \in {"mark_entry", "off"}
    /\ UNCHANGED <<catalogue, world, history, locals>>

MarkEntryConfirmed ==
    /\ pc = "mark_entry" /\ pc' = "journal_entry"
    /\ confirmed' = TRUE
    /\ UNCHANGED <<entryRecords, journal, rounds, world, history, locals>>

\* The record after the flag, and its repair by the next process.
JournalEntry ==
    /\ pc = "journal_entry" /\ pc' = "ready"
    /\ entryRecords' = IF entryRecords = 0 THEN 1 ELSE entryRecords
    /\ UNCHANGED <<confirmed, journal, rounds, world, history, locals>>

-----------------------------------------------------------------------------
(* The critic's pass.                                                       *)

\* The pass of the round that awaits its outcomes is not replayed.
Resumed(r) ==
    [meta[r] EXCEPT !.resumed = IF meta[r].profile = profile THEN @ ELSE profile]

Resume ==
    /\ pc = "ready" /\ pc' = "serve"
    /\ \E r \in AwaitingOutcomes :
        /\ \A s \in AwaitingOutcomes : r <= s
        /\ round' = r
        /\ meta' = [meta EXCEPT ![r] = Resumed(r)]
    /\ UNCHANGED <<confirmed, entryRecords, journal, pass, outcomes, requests, answers,
                   world, history, held, sessions>>

\* one_round: the profile's version, then the hashes of what is judged.
TakeSnapshot ==
    /\ pc = "ready" /\ pc' = "critic"
    /\ AwaitingOutcomes = {} /\ CurrentRound \in Rounds
    /\ round' = CurrentRound
    /\ held' = [held EXCEPT !.snapshot = artifact, !.profile = profile]
    /\ texts' = {artifact} /\ putBack' = FALSE
    /\ UNCHANGED <<catalogue, world, edits, sessions>>

\* The critic reads the artifact some time after the snapshot.
RunCritic ==
    /\ pc = "critic" /\ pc' = "meta"
    /\ held' = [held EXCEPT !.read = artifact]
    /\ UNCHANGED <<catalogue, world, history, round, sessions>>

NewMetaLate ==
    [exists |-> TRUE, snapshot |-> artifact, profile |-> held.profile,
     resumed |-> 0, completed |-> FALSE]

\* write_pass: the round's metadata, then the text of the pass.
NewMeta ==
    [exists |-> TRUE, snapshot |-> held.snapshot, profile |-> held.profile,
     resumed |-> 0, completed |-> FALSE]

WriteMeta ==
    /\ pc = "meta"
    /\ IF pass[round] # 0
       THEN pc' = "off" /\ UNCHANGED meta
       ELSE pc' = "pass" /\ meta' = [meta EXCEPT ![round] = NewMeta]
    /\ UNCHANGED <<confirmed, entryRecords, journal, pass, outcomes, requests, answers,
                   world, history, locals>>

WritePass ==
    /\ pc = "pass" /\ pc' = "serve"
    /\ pass' = [pass EXCEPT ![round] = held.read]
    /\ UNCHANGED <<confirmed, entryRecords, journal, meta, outcomes, requests, answers,
                   world, history, locals>>

-----------------------------------------------------------------------------
(* The questions of development.                                            *)

ToAskAgain == IF requests[round].exists THEN requests[round].questions ELSE {}

\* The questions a batch still has to ask, by the answers file.
ToAsk == IF requests[round].exists THEN Unanswered(round) ELSE {}

Ask ==
    /\ pc = "serve" /\ pc' = "write_answer"
    /\ \E q \in ToAsk, a \in Answers :
          held' = [held EXCEPT !.question = q, !.answer = a]
    /\ UNCHANGED <<catalogue, world, history, round, sessions>>

WriteAnswer ==
    /\ pc = "write_answer" /\ pc' = "journal_answer"
    /\ answers' = [answers EXCEPT ![round][held.question] = held.answer]
    /\ UNCHANGED <<confirmed, entryRecords, journal, pass, meta, outcomes, requests,
                   world, history, locals>>

JournalAnswer ==
    /\ pc = "journal_answer" /\ pc' = "serve"
    /\ journal' = journal \cup {<<round, held.question>>}
    /\ UNCHANGED <<confirmed, entryRecords, rounds, world, history, locals>>

\* The file of questions goes when the whole batch is answered; development
\* gets control.
EndServing ==
    /\ pc = "serve" /\ pc' = "develop"
    /\ ToAsk = {}
    /\ requests' = [requests EXCEPT ![round] = NoFile]
    /\ UNCHANGED <<confirmed, entryRecords, journal, pass, meta, outcomes, answers,
                   world, history, locals>>

-----------------------------------------------------------------------------
(* A development session (external: what the cycle allows for) and its end.  *)

DevelopmentAsks ==
    /\ pc = "develop"
    /\ \E Q \in SUBSET Questions :
          requests' = [requests EXCEPT ![round] = [exists |-> TRUE, questions |-> Q]]
    /\ UNCHANGED <<confirmed, entryRecords, journal, pass, meta, outcomes, answers,
                   world, history, pc, locals>>

DevelopmentConcludes ==
    /\ pc = "develop"
    /\ \E o \in {"empty", "full"} : outcomes' = [outcomes EXCEPT ![round] = o]
    /\ UNCHANGED <<confirmed, entryRecords, journal, pass, meta, requests, answers,
                   world, history, pc, locals>>

\* One batch of questions in a round: a second one is refused.
BatchRefused == round \in WithAnswers \/ sessions = 1

EndDevelopment ==
    /\ pc = "develop"
    /\ IF ~requests[round].exists
       THEN pc' = "outcomes" /\ UNCHANGED sessions
       ELSE IF BatchRefused
       THEN pc' = "off" /\ UNCHANGED sessions
       ELSE pc' = "serve" /\ sessions' = 1
    /\ UNCHANGED <<catalogue, world, history, round, held>>

CollectOutcomes ==
    /\ pc = "outcomes"
    /\ pc' = IF outcomes[round] = "full" THEN "complete" ELSE "off"
    /\ UNCHANGED <<catalogue, world, history, locals>>

MarkRoundCompleted ==
    /\ pc = "complete" /\ pc' = "compare"
    /\ meta' = [meta EXCEPT ![round].completed = TRUE]
    /\ UNCHANGED <<confirmed, entryRecords, journal, pass, outcomes, requests, answers,
                   world, history, locals>>

\* run_cycle: an edit since the snapshot is a new round, none is the end.
CompareVersions ==
    /\ pc = "compare" /\ Restorable
    /\ pc' = IF meta[round].snapshot = artifact THEN "stopped" ELSE "journal_entry"
    /\ round' = 0 /\ held' = Nothing /\ sessions' = 0
    /\ UNCHANGED <<catalogue, world, history>>

-----------------------------------------------------------------------------
(* What happens around the process.                                         *)

\* A role that fails, falls silent or loses its stream is killed with its tree
\* and ends the process: what it has not written is lost.
RoleFails ==
    /\ pc \in {"critic", "develop"} /\ pc' = "off"
    /\ round' = 0 /\ held' = Nothing /\ sessions' = 0
    /\ UNCHANGED <<catalogue, world, history>>

\* It is killed, or a disk error or a refusal ends it.
Crash ==
    /\ pc \notin {"off", "stopped", "critic", "develop"} /\ pc' = "off"
    /\ round' = 0 /\ held' = Nothing /\ sessions' = 0
    /\ UNCHANGED <<catalogue, world, history>>

\* Development, or anybody, edits the artifact, also back to a text it had; the
\* profile is compiled anew.
EditArtifact ==
    /\ edits < MaxEdits /\ edits' = edits + 1
    /\ artifact' \in Artifacts \ {artifact}
    /\ texts' = texts \cup {artifact'}
    /\ putBack' = (putBack \/ artifact' \in texts)
    /\ UNCHANGED <<catalogue, profile, pc, locals>>

RefreshProfile ==
    /\ profile < MaxProfile /\ profile' = profile + 1
    /\ UNCHANGED <<catalogue, artifact, history, pc, locals>>

\* "Delete the file and replay the analysis": the advice of restore's refusal.
DeleteEmptyOutcomes ==
    /\ pc = "off"
    /\ \E r \in Rounds : outcomes[r] = "empty" /\ outcomes' = [outcomes EXCEPT ![r] = "absent"]
    /\ UNCHANGED <<confirmed, entryRecords, journal, pass, meta, requests, answers,
                   world, history, pc, locals>>

EntryNext == Start \/ EntryAnswered \/ MarkEntryConfirmed \/ JournalEntry
PassNext == Resume \/ TakeSnapshot \/ RunCritic \/ WriteMeta \/ WritePass
GateNext == Ask \/ WriteAnswer \/ JournalAnswer \/ EndServing
RoundNext == EndDevelopment \/ CollectOutcomes \/ MarkRoundCompleted \/ CompareVersions
Development == DevelopmentAsks \/ DevelopmentConcludes
Outside == RoleFails \/ Crash \/ EditArtifact \/ RefreshProfile \/ DeleteEmptyOutcomes

Next == EntryNext \/ PassNext \/ GateNext \/ RoundNext \/ Development \/ Outside

Spec == Init /\ [][Next]_vars

-----------------------------------------------------------------------------
(* Properties.                                                              *)

\* Whatever write the process dies after, restore finds a history it takes:
\* passes and completed rounds without a hole, at most one round incomplete,
\* no question left to a completed round or to a round without a pass.
\* (What development leaves in its own file, empty outcomes, is apart.)
HistoryStands ==
    ~HistoryDamaged /\ ~GatesDamaged /\ IsPrefix(WithPass) /\ IsPrefix(WithOutcomes)

\* The critic has run only on a description the operator confirmed, with the
\* confirmation in the journal exactly once however often the process died;
\* and the journal tells of no answer the state does not hold.
EvidenceFollowsState ==
    /\ entryRecords = 1 => confirmed
    /\ WithPass # {} => entryRecords = 1
    /\ \A record \in journal : answers[record[1]][record[2]] # NoAnswer

\* What a restart finds on disk is a history it takes, and the evidence in it says
\* neither more nor less than the state.
StateIsRestorable == TypeOK /\ HistoryStands /\ EvidenceFollowsState

\* An answer on disk is the operator's last word on its question: nothing
\* asks it again, and neither a crash nor a later session changes it.
AnswersStand ==
    [][\A r \in Rounds, q \in Questions :
          answers[r][q] # NoAnswer => answers'[r][q] = answers[r][q]]_vars

\* A pass is received once: no restart replays the critic for its round, and
\* what was judged, and for which profile, stays what it was.
PassIsFact ==
    [][\A r \in WithPass :
          /\ pass'[r] = pass[r]
          /\ meta'[r].snapshot = meta[r].snapshot
          /\ meta'[r].profile = meta[r].profile]_vars

\* What the operator and the critic gave is taken once and kept.
FactsStand == AnswersStand /\ PassIsFact

\* The cycle stops only over an artifact the critic has read: an edit made while he was
\* reading, or since, is never passed over, unless the texts were put back (run_cycle
\* compares hashes, and the snapshot was taken before the critic was called).
StopIsJudged ==
    [][pc = "compare" /\ pc' = "stopped" => pass[round] = artifact \/ putBack]_vars

\* "Unchanged -- there were no edits (a clean pass, or a disagreement with no edits): the
\* cycle stops" (run_cycle): what it stops over is what the critic saw.
\* Refuted, see the README.
StopIsOverReadText ==
    [][pc = "compare" /\ pc' = "stopped" => pass[round] = artifact]_vars

\* "The critic pass is intact; restart the round -- the analysis continues
\* from it" (cycle.py): after a round refused for its outcomes the next process
\* takes the catalogue.
\* Refuted, see the README.
RestartContinues == [][pc = "outcomes" /\ pc' = "off" => Restorable']_vars
=============================================================================
