--------------------------- MODULE Harness_proofs ---------------------------
(***************************************************************************)
(* Theorems about Harness, for any questions and answers, any number of    *)
(* rounds, and any number of edits and profile versions.                   *)
(***************************************************************************)
EXTENDS Harness, FiniteSetTheorems, TLAPS

------------------------------------------------------------------------------
(* The inductive invariant. *)

\* Only the last round with a pass may be incomplete.
EarlierAreCompleted ==
    \A r \in WithPass, s \in Rounds : s < r => s \in Completed

\* What the files of a round say of each other.
FilesFitRound ==
    \A r \in Rounds :
        /\ r \in WithPass => meta[r].exists
        /\ r \in WithPass \ Completed => ~meta[r].completed
        /\ r \in Completed => outcomes[r] = "full" /\ ~requests[r].exists
        /\ r \notin WithPass => /\ r \notin WithOutcomes /\ r \notin WithAnswers
                                /\ ~requests[r].exists

FilesStand == IsPrefix(WithPass) /\ EarlierAreCompleted /\ FilesFitRound

InPass == {"critic", "meta", "pass"}
InRound == {"serve", "write_answer", "journal_answer", "develop", "outcomes", "complete"}

\* Where the process is in the round its files show.
PlaceFitsRound ==
    /\ pc \in InPass => /\ round = CurrentRound /\ round \in Rounds
                        /\ AwaitingOutcomes = {}
    /\ pc \in InRound => round \in AwaitingOutcomes
    /\ pc \in {"outcomes", "complete"} => ~requests[round].exists
    /\ pc = "complete" => outcomes[round] = "full"
    /\ pc = "compare" => round \in Completed

\* What it holds of the artifact and of the operator's answer.
HeldFitsPlace ==
    /\ pc \in {"critic", "meta"} => held.snapshot \in Artifacts /\ held.profile \in Profiles
    /\ pc \in {"meta", "pass"} => held.read \in Artifacts
    /\ pc = "pass" => meta[round].exists /\ ~meta[round].completed
    /\ pc = "write_answer" => /\ held.question \in Questions /\ held.answer \in Answers
                              /\ answers[round][held.question] = NoAnswer
    /\ pc = "journal_answer" => /\ held.question \in Questions
                                /\ answers[round][held.question] # NoAnswer

\* A snapshot is one of the texts since the critic was last called, and when the
\* artifact is that text again the critic has read it, or a text was put back.
Judged(snapshot, read) ==
    snapshot \in texts /\ (snapshot = artifact => read = artifact \/ putBack)

TextsFit ==
    /\ pc = "critic" => held.snapshot \in texts
    /\ pc = "meta" => Judged(held.snapshot, held.read)
    /\ pc = "pass" => Judged(meta[round].snapshot, held.read)
    /\ pc = "compare" => Judged(meta[round].snapshot, pass[round])
    /\ \A r \in AwaitingOutcomes : Judged(meta[r].snapshot, pass[r])

\* Nothing runs before the operator has confirmed and the journal says so.
EntryComesFirst ==
    /\ pc \notin {"off", "stopped", "ask_entry", "mark_entry"} => confirmed
    /\ pc \notin {"off", "stopped", "ask_entry", "mark_entry", "journal_entry"} =>
         entryRecords = 1
    /\ EvidenceFollowsState

IInv ==
    TypeOK /\ FilesStand /\ PlaceFitsRound /\ HeldFitsPlace /\ TextsFit /\ EntryComesFirst

------------------------------------------------------------------------------
(* Prefixes. *)

\* An initial segment of the rounds is a prefix, and its length is its last round.
LEMMA SegmentIsPrefix ==
    ASSUME NEW S, NEW k \in Nat, S = 1 .. k PROVE IsPrefix(S) /\ Cardinality(S) = k
  BY FS_Interval DEF IsPrefix

\* And a prefix is such a segment.
LEMMA PrefixIsSegment ==
    ASSUME NEW S \in SUBSET Rounds, IsPrefix(S) PROVE Cardinality(S) \in Nat /\ S = 1 .. Cardinality(S)
<1>1. IsFiniteSet(Rounds)
  BY FS_Interval, HarnessAssumption DEF Rounds
<1>2. IsFiniteSet(S)
  BY <1>1, FS_Subset
<1> QED BY <1>2, FS_CardinalityType DEF IsPrefix

\* The sets of rounds are sets of rounds, and change only with their files.
LEMMA RoundSets ==
    /\ WithPass \subseteq Rounds /\ WithOutcomes \subseteq Rounds
    /\ Completed \subseteq WithOutcomes
    /\ UNCHANGED pass => UNCHANGED WithPass
    /\ UNCHANGED outcomes => UNCHANGED WithOutcomes
    /\ UNCHANGED answers => UNCHANGED WithAnswers
    /\ UNCHANGED <<meta, outcomes>> => UNCHANGED Completed
  BY DEF WithPass, WithOutcomes, WithAnswers, Completed

------------------------------------------------------------------------------
(* Types. *)

\* TypeOK in three parts: the files and the world, the history, and the process.
FilesTyped ==
    /\ confirmed \in BOOLEAN /\ entryRecords \in 0 .. 1
    /\ journal \subseteq Rounds \X Questions
    /\ pass \in [Rounds -> 0 .. MaxArtifact]
    /\ meta \in [Rounds -> RoundMeta \cup {NoFile}]
    /\ outcomes \in [Rounds -> {"absent", "empty", "full"}]
    /\ requests \in [Rounds -> RequestFile \cup {NoFile}]
    /\ answers \in [Rounds -> [Questions -> Answers \cup {NoAnswer}]]
    /\ artifact \in Artifacts /\ profile \in Profiles

HistoryTyped == texts \subseteq Artifacts /\ putBack \in BOOLEAN /\ edits \in 0 .. MaxEdits

Held == [read : 0 .. MaxArtifact, snapshot : 0 .. MaxArtifact, profile : 0 .. MaxProfile,
         question : Questions \cup {NoAnswer}, answer : Answers \cup {NoAnswer}]

ProcessTyped ==
    pc \in Places /\ round \in 0 .. MaxRound /\ sessions \in 0 .. 1 /\ held \in Held

LEMMA TypeParts == TypeOK <=> FilesTyped /\ HistoryTyped /\ ProcessTyped
  BY DEF TypeOK, FilesTyped, HistoryTyped, ProcessTyped, Held

LEMMA NothingType == Nothing \in Held
  BY HarnessAssumption DEF Nothing, Held

\* The initial state is well typed.
LEMMA TypeInit == Init => TypeOK
<1> SUFFICES ASSUME Init PROVE FilesTyped /\ HistoryTyped /\ ProcessTyped
  BY TypeParts
<1>1. 0 \in 0 .. MaxArtifact /\ 0 \in 0 .. MaxRound /\ 1 \in Artifacts /\ 1 \in Profiles
  BY HarnessAssumption DEF Artifacts, Profiles
<1>2. FilesTyped
  <2>1. confirmed \in BOOLEAN
    BY Zenon DEF Init
  <2>2. /\ pass \in [Rounds -> 0 .. MaxArtifact] /\ entryRecords \in 0 .. 1
        /\ journal \subseteq Rounds \X Questions /\ artifact \in Artifacts /\ profile \in Profiles
    BY <1>1 DEF Init
  <2>3. /\ meta \in [Rounds -> RoundMeta \cup {NoFile}]
        /\ requests \in [Rounds -> RequestFile \cup {NoFile}]
        /\ outcomes \in [Rounds -> {"absent", "empty", "full"}]
        /\ answers \in [Rounds -> [Questions -> Answers \cup {NoAnswer}]]
    BY DEF Init
  <2> QED BY <2>1, <2>2, <2>3 DEF FilesTyped
<1>3. ProcessTyped
  BY <1>1, NothingType DEF Init, ProcessTyped, Places
<1>4. HistoryTyped
  <2>1. putBack \in BOOLEAN
    BY Zenon DEF Init
  <2>2. texts \subseteq Artifacts /\ edits \in 0 .. MaxEdits
    BY <1>1, HarnessAssumption DEF Init
  <2> QED BY <2>1, <2>2 DEF HistoryTyped
<1> QED BY <1>2, <1>3, <1>4

\* Every step keeps what the files hold well typed.
LEMMA FilesTypeStep == IInv /\ [Next]_vars => FilesTyped'
<1> SUFFICES ASSUME IInv, FilesTyped, ProcessTyped, [Next]_vars PROVE FilesTyped'
  BY TypeParts DEF IInv
<1>1. ASSUME UNCHANGED <<rounds, artifact, profile>>, confirmed' \in BOOLEAN,
             entryRecords' \in 0 .. 1, journal' \subseteq Rounds \X Questions
      PROVE  FilesTyped'
  BY <1>1 DEF FilesTyped, rounds
<1>2. CASE UNCHANGED catalogue /\ artifact' \in Artifacts /\ profile' \in Profiles
  BY <1>2 DEF FilesTyped, catalogue
<1>3. CASE EntryNext
  <2>1. UNCHANGED confirmed \/ confirmed' = TRUE
    BY <1>3 DEF EntryNext, Start, EntryAnswered, MarkEntryConfirmed, JournalEntry, catalogue
  <2>2. confirmed' \in BOOLEAN
    BY <2>1, Zenon DEF FilesTyped
  <2>3. entryRecords' \in 0 .. 1 /\ journal' = journal
    BY <1>3 DEF EntryNext, Start, EntryAnswered, MarkEntryConfirmed, JournalEntry, catalogue,
                FilesTyped
  <2>4. UNCHANGED <<rounds, artifact, profile>>
    BY <1>3 DEF EntryNext, Start, EntryAnswered, MarkEntryConfirmed, JournalEntry, catalogue,
                rounds, world
  <2> QED BY <1>1, <2>2, <2>3, <2>4 DEF FilesTyped
<1>4. CASE Resume
  <2>1. ASSUME NEW r \in AwaitingOutcomes PROVE Resumed(r) \in RoundMeta \cup {NoFile}
    <3>1. r \in Rounds
      BY RoundSets DEF AwaitingOutcomes
    <3>2. CASE meta[r] \in RoundMeta
      <4>1. profile \in 0 .. MaxProfile
        BY HarnessAssumption DEF FilesTyped, Profiles
      <4> QED BY <3>2, <4>1 DEF Resumed, RoundMeta
    <3>3. CASE meta[r] = NoFile
      BY <3>3 DEF Resumed, NoFile
    <3> QED BY <3>1, <3>2, <3>3 DEF FilesTyped
  <2>2. meta' \in [Rounds -> RoundMeta \cup {NoFile}]
    BY <1>4, <2>1 DEF Resume, FilesTyped
  <2> QED BY <1>4, <2>2 DEF Resume, FilesTyped, world
<1>5. CASE TakeSnapshot \/ RunCritic \/ Ask \/ EndDevelopment \/ CollectOutcomes
           \/ CompareVersions \/ RoleFails \/ Crash
  BY <1>2, <1>5
     DEF TakeSnapshot, RunCritic, Ask, EndDevelopment, CollectOutcomes, CompareVersions,
         RoleFails, Crash, catalogue, world, FilesTyped
<1>6. CASE WriteMeta
  <2>1. held.snapshot \in Artifacts /\ held.profile \in Profiles
    BY <1>6 DEF WriteMeta, IInv, HeldFitsPlace
  <2>2. NewMeta \in RoundMeta
    BY <2>1, HarnessAssumption DEF NewMeta, RoundMeta, FilesTyped
  <2>3. meta' \in [Rounds -> RoundMeta \cup {NoFile}]
    BY <1>6, <2>2 DEF WriteMeta, FilesTyped
  <2> QED BY <1>6, <2>3 DEF WriteMeta, FilesTyped, world
<1>7. CASE WritePass
  <2>1. pass' \in [Rounds -> 0 .. MaxArtifact]
    BY <1>7 DEF WritePass, FilesTyped, ProcessTyped, Held
  <2> QED BY <1>7, <2>1 DEF WritePass, FilesTyped, world
<1>8. CASE WriteAnswer
  <2>1. answers' \in [Rounds -> [Questions -> Answers \cup {NoAnswer}]]
    BY <1>8 DEF WriteAnswer, FilesTyped, ProcessTyped, Held
  <2> QED BY <1>8, <2>1 DEF WriteAnswer, FilesTyped, world
<1>9. CASE JournalAnswer
  <2>1. round \in Rounds /\ held.question \in Questions
    BY <1>9, RoundSets
       DEF JournalAnswer, IInv, PlaceFitsRound, HeldFitsPlace, InRound, AwaitingOutcomes
  <2> QED BY <1>1, <1>9, <2>1 DEF JournalAnswer, FilesTyped, world
<1>10. CASE EndServing \/ DevelopmentAsks
  <2>1. requests' \in [Rounds -> RequestFile \cup {NoFile}]
    <3>1. \A Q \in SUBSET Questions : [exists |-> TRUE, questions |-> Q] \in RequestFile
      BY DEF RequestFile
    <3>2. \A R \in RequestFile \cup {NoFile} :
             [requests EXCEPT ![round] = R] \in [Rounds -> RequestFile \cup {NoFile}]
      BY DEF FilesTyped
    <3> HIDE DEF RequestFile
    <3> QED BY <1>10, <3>1, <3>2 DEF EndServing, DevelopmentAsks
  <2> QED BY <1>10, <2>1 DEF EndServing, DevelopmentAsks, FilesTyped, world
<1>11. CASE DevelopmentConcludes \/ DeleteEmptyOutcomes
  <2>1. outcomes' \in [Rounds -> {"absent", "empty", "full"}]
    BY <1>11 DEF DevelopmentConcludes, DeleteEmptyOutcomes, FilesTyped
  <2> QED BY <1>11, <2>1 DEF DevelopmentConcludes, DeleteEmptyOutcomes, FilesTyped, world
<1>12. CASE MarkRoundCompleted
  <2>1. ASSUME NEW m \in RoundMeta \cup {NoFile}
        PROVE  [m EXCEPT !.completed = TRUE] \in RoundMeta \cup {NoFile}
    BY DEF RoundMeta, NoFile
  <2>2. meta' \in [Rounds -> RoundMeta \cup {NoFile}]
    BY <1>12, <2>1 DEF MarkRoundCompleted, FilesTyped
  <2> QED BY <1>12, <2>2 DEF MarkRoundCompleted, FilesTyped, world
<1>13. CASE EditArtifact \/ RefreshProfile
  BY <1>2, <1>13, HarnessAssumption
     DEF EditArtifact, RefreshProfile, FilesTyped, Artifacts, Profiles
<1>14. CASE UNCHANGED vars
  BY <1>2, <1>14 DEF vars, world, FilesTyped
<1> QED BY <1>3, <1>4, <1>5, <1>6, <1>7, <1>8, <1>9, <1>10, <1>11, <1>12, <1>13, <1>14
        DEF Next, PassNext, GateNext, RoundNext, Development, Outside

\* So is the history.
LEMMA HistoryTypeStep == IInv /\ [Next]_vars => HistoryTyped'
<1> SUFFICES ASSUME FilesTyped, HistoryTyped, [Next]_vars PROVE HistoryTyped'
  BY TypeParts DEF IInv
<1>1. CASE EditArtifact
  <2>1. putBack' \in BOOLEAN
    BY <1>1, Zenon DEF EditArtifact
  <2>2. texts' \subseteq Artifacts /\ edits' \in 0 .. MaxEdits
    BY <1>1, HarnessAssumption DEF EditArtifact, HistoryTyped
  <2> QED BY <2>1, <2>2 DEF HistoryTyped
<1>2. CASE TakeSnapshot
  <2>1. putBack' \in BOOLEAN
    BY <1>2, Zenon DEF TakeSnapshot
  <2>2. texts' \subseteq Artifacts /\ UNCHANGED edits
    BY <1>2 DEF TakeSnapshot, FilesTyped
  <2> QED BY <2>1, <2>2 DEF HistoryTyped
<1>3. CASE UNCHANGED history
  BY <1>3 DEF HistoryTyped, history
<1>4. EditArtifact \/ TakeSnapshot \/ UNCHANGED history
  BY DEF Next, EntryNext, Start, EntryAnswered, MarkEntryConfirmed, JournalEntry,
         PassNext, Resume, RunCritic, WriteMeta, WritePass,
         GateNext, Ask, WriteAnswer, JournalAnswer, EndServing,
         RoundNext, EndDevelopment, CollectOutcomes, MarkRoundCompleted, CompareVersions,
         Development, DevelopmentAsks, DevelopmentConcludes,
         Outside, RoleFails, Crash, RefreshProfile, DeleteEmptyOutcomes, vars
<1> QED BY <1>1, <1>2, <1>3, <1>4

\* And the process keeps its own.
LEMMA ProcessTypeStep == IInv /\ [Next]_vars => ProcessTyped'
<1> SUFFICES ASSUME IInv, FilesTyped, ProcessTyped, [Next]_vars PROVE ProcessTyped'
  BY TypeParts DEF IInv
<1>1. 0 \in 0 .. MaxRound /\ Rounds \subseteq 0 .. MaxRound /\ artifact \in 0 .. MaxArtifact
  BY HarnessAssumption DEF Rounds, FilesTyped, Artifacts
<1>2. CASE UNCHANGED locals /\ pc' \in Places
  BY <1>2 DEF locals, ProcessTyped
<1>3. CASE round' = 0 /\ held' = Nothing /\ sessions' = 0 /\ pc' \in Places
  BY <1>1, <1>3, NothingType DEF ProcessTyped
<1>4. CASE EntryNext
  BY <1>2, <1>3, <1>4
     DEF EntryNext, Start, EntryAnswered, MarkEntryConfirmed, JournalEntry, Places
<1>5. CASE Resume
  BY <1>1, <1>5, RoundSets DEF Resume, AwaitingOutcomes, ProcessTyped, Places
<1>6. CASE TakeSnapshot \/ RunCritic
  <2>1. profile \in 0 .. MaxProfile
    BY HarnessAssumption DEF FilesTyped, Profiles
  <2>2. /\ [held EXCEPT !.snapshot = artifact, !.profile = profile] \in Held
        /\ [held EXCEPT !.read = artifact] \in Held
    BY <1>1, <2>1 DEF ProcessTyped, Held
  <2> QED BY <1>1, <1>6, <2>2 DEF TakeSnapshot, RunCritic, ProcessTyped, Places
<1>7. CASE Ask
  <2>1. ASSUME NEW q \in ToAsk, NEW a \in Answers
        PROVE  [held EXCEPT !.question = q, !.answer = a] \in Held
    <3>1. q \in Questions
      <4>1. round \in Rounds
        BY <1>7, RoundSets DEF Ask, IInv, PlaceFitsRound, InRound, AwaitingOutcomes
      <4>2. requests[round].exists /\ q \in requests[round].questions
        BY DEF ToAsk, Unanswered
      <4>3. requests[round] \in RequestFile
        BY <4>1, <4>2 DEF FilesTyped, NoFile
      <4> QED BY <4>2, <4>3 DEF RequestFile
    <3> QED BY <3>1 DEF ProcessTyped, Held
  <2> QED BY <1>7, <2>1 DEF Ask, ProcessTyped, Places
<1>8. CASE WriteMeta \/ WritePass \/ WriteAnswer \/ JournalAnswer \/ EndServing
           \/ CollectOutcomes \/ MarkRoundCompleted
  BY <1>2, <1>8 DEF WriteMeta, WritePass, WriteAnswer, JournalAnswer, EndServing,
                    CollectOutcomes, MarkRoundCompleted, Places
<1>9. CASE EndDevelopment
  BY <1>9 DEF EndDevelopment, ProcessTyped, Places
<1>10. CASE CompareVersions \/ RoleFails \/ Crash
  BY <1>3, <1>10 DEF CompareVersions, RoleFails, Crash, Places
<1>11. CASE Development \/ EditArtifact \/ RefreshProfile \/ DeleteEmptyOutcomes
            \/ UNCHANGED vars
  BY <1>2, <1>11 DEF Development, DevelopmentAsks, DevelopmentConcludes, EditArtifact,
                     RefreshProfile, DeleteEmptyOutcomes, vars, ProcessTyped
<1> QED BY <1>4, <1>5, <1>6, <1>7, <1>8, <1>9, <1>10, <1>11
        DEF Next, PassNext, GateNext, RoundNext, Outside

------------------------------------------------------------------------------
(* The files. *)

\* A pass in the making is the next one: every round before it is completed.
LEMMA NextRound ==
    ASSUME IInv, pc \in InPass
    PROVE  /\ round \in Rounds \ WithPass /\ round \notin Completed
           /\ \A s \in Rounds : s < round => s \in Completed
           /\ IsPrefix(WithPass \cup {round})
<1>1. round = Cardinality(WithPass) + 1 /\ round \in Rounds /\ WithPass \subseteq Completed
  BY DEF IInv, PlaceFitsRound, CurrentRound, AwaitingOutcomes
<1>2. Cardinality(WithPass) \in Nat /\ WithPass = 1 .. Cardinality(WithPass)
  BY PrefixIsSegment, RoundSets DEF IInv, FilesStand
<1>3. round \notin WithPass /\ WithPass \cup {round} = 1 .. round
  BY <1>1, <1>2
<1>4. IsPrefix(WithPass \cup {round})
  <2>1. round \in Nat
    BY <1>1 DEF Rounds
  <2>2. IsPrefix(1 .. round)
    BY <2>1, SegmentIsPrefix
  <2> QED BY <1>3, <2>2
<1>5. \A s \in Rounds : s < round => s \in WithPass
  BY <1>1, <1>2 DEF Rounds
<1>6. round \notin Completed
  BY <1>1, <1>3, RoundSets DEF IInv, FilesStand, FilesFitRound
<1> QED BY <1>1, <1>3, <1>4, <1>5, <1>6

\* A round has a pass before it has anything else.
LEMMA PassComesFirst == IInv => Completed \subseteq WithPass /\ WithOutcomes \subseteq WithPass
  BY RoundSets DEF IInv, FilesStand, FilesFitRound

\* What leaves the files of the rounds alone leaves them standing.
LEMMA FilesKept ==
    ASSUME FilesStand, UNCHANGED rounds PROVE FilesStand'
<1>1. UNCHANGED <<pass, meta, outcomes, requests, answers, WithPass, WithOutcomes, WithAnswers,
                  Completed>>
  BY RoundSets DEF rounds
<1> QED BY <1>1 DEF FilesStand, IsPrefix, EarlierAreCompleted, FilesFitRound

\* What an action needs to show when it leaves the passes alone.
LEMMA FilesStep ==
    ASSUME IInv, UNCHANGED pass, Completed \subseteq Completed', FilesFitRound'
    PROVE  FilesStand'
  BY RoundSets DEF IInv, FilesStand, EarlierAreCompleted, IsPrefix

\* Every write of the catalogue leaves the files of the rounds standing.
LEMMA FilesStandStep == IInv /\ [Next]_vars => FilesStand'
<1> SUFFICES ASSUME IInv, FilesTyped, ProcessTyped, [Next]_vars PROVE FilesStand'
  BY TypeParts DEF IInv
<1> USE DEF FilesFitRound
<1>1. FilesFitRound /\ WithPass \subseteq Rounds
  BY RoundSets DEF IInv, FilesStand
<1>2. CASE UNCHANGED rounds
  BY <1>2, FilesKept DEF IInv
<1>3. CASE EntryNext \/ TakeSnapshot \/ RunCritic \/ Ask \/ JournalAnswer \/ EndDevelopment
           \/ CollectOutcomes \/ CompareVersions \/ RoleFails \/ Crash \/ EditArtifact
           \/ RefreshProfile \/ UNCHANGED vars
  BY <1>2, <1>3
     DEF EntryNext, Start, EntryAnswered, MarkEntryConfirmed, JournalEntry, TakeSnapshot,
         RunCritic, Ask, JournalAnswer, EndDevelopment, CollectOutcomes, CompareVersions,
         RoleFails, Crash, EditArtifact, RefreshProfile, vars, catalogue, rounds
<1>5. CASE Resume
  <2>1. PICK r \in AwaitingOutcomes : meta' = [meta EXCEPT ![r] = Resumed(r)]
    BY <1>5 DEF Resume
  <2>2. \A s \in Rounds : /\ meta'[s].exists = meta[s].exists
                          /\ meta'[s].completed = meta[s].completed
    BY <1>1, <2>1 DEF Resumed, AwaitingOutcomes, FilesTyped, RoundMeta, NoFile
  <2>3. UNCHANGED <<WithPass, WithOutcomes, WithAnswers, Completed>>
    BY <1>5, <2>2, RoundSets DEF Resume, Completed
  <2> QED BY <1>1, <1>5, <2>2, <2>3, FilesStep DEF Resume
<1>6. CASE WriteMeta
  <2>1. round \in Rounds \ WithPass /\ round \notin WithOutcomes
    BY <1>6, NextRound, PassComesFirst DEF WriteMeta, InPass
  <2>2. \A s \in Rounds \ {round} : meta'[s] = meta[s]
    BY <1>6, <2>1 DEF WriteMeta, FilesTyped
  <2>3. UNCHANGED <<WithPass, WithOutcomes, WithAnswers, Completed>>
    BY <1>6, <2>1, <2>2, RoundSets DEF WriteMeta, Completed
  <2> QED BY <1>1, <1>6, <2>1, <2>2, <2>3, FilesStep DEF WriteMeta
<1>7. CASE WritePass
  <2>1. /\ round \in Rounds \ WithPass /\ round \notin Completed
        /\ \A s \in Rounds : s < round => s \in Completed
        /\ IsPrefix(WithPass \cup {round})
    BY <1>7, NextRound DEF WritePass, InPass
  <2>2. meta[round].exists /\ ~meta[round].completed /\ held.read \in Artifacts
    BY <1>7 DEF WritePass, IInv, HeldFitsPlace
  <2>4. held.read # 0
    BY <2>2 DEF Artifacts
  <2>5. /\ pass' = [pass EXCEPT ![round] = held.read]
        /\ UNCHANGED <<WithOutcomes, WithAnswers, Completed, meta, outcomes, requests>>
    BY <1>7, RoundSets DEF WritePass
  <2>6. pass'[round] = held.read /\ \A s \in Rounds \ {round} : pass'[s] = pass[s]
    BY <2>1, <2>5 DEF FilesTyped
  <2>7. WithPass' = WithPass \cup {round}
    BY <2>1, <2>4, <2>6 DEF WithPass
  <2>8. IsPrefix(WithPass)' /\ EarlierAreCompleted'
    BY <2>1, <2>5, <2>7, RoundSets DEF IInv, FilesStand, EarlierAreCompleted, IsPrefix
  <2>9. FilesFitRound'
    BY <1>1, <2>1, <2>2, <2>4, <2>5, <2>6, <2>7
  <2> QED BY <2>8, <2>9 DEF FilesStand
<1>8. CASE pc \in InRound /\ (WriteAnswer \/ EndServing \/ DevelopmentAsks)
  <2>1. round \in WithPass /\ round \notin Completed
    BY <1>8 DEF IInv, PlaceFitsRound, AwaitingOutcomes
  <2>2. /\ UNCHANGED <<WithPass, WithOutcomes, Completed, pass, meta, outcomes>>
        /\ \A s \in Rounds \ {round} : requests'[s] = requests[s] /\ answers'[s] = answers[s]
    BY <1>8, RoundSets DEF WriteAnswer, EndServing, DevelopmentAsks, FilesTyped
  <2>3. \A s \in Rounds \ {round} : s \notin WithAnswers => s \notin WithAnswers'
    BY <2>2 DEF WithAnswers
  <2> QED BY <1>1, <2>1, <2>2, <2>3, FilesStep
<1>9. CASE DevelopmentConcludes
  <2>1. round \in WithPass /\ round \notin Completed /\ ~meta[round].completed
    BY <1>1, <1>9 DEF DevelopmentConcludes, IInv, PlaceFitsRound, AwaitingOutcomes, InRound
  <2>2. /\ UNCHANGED <<WithPass, WithAnswers, pass, meta, requests>>
        /\ \A s \in Rounds \ {round} : outcomes'[s] = outcomes[s]
    BY <1>9, RoundSets DEF DevelopmentConcludes, FilesTyped
  <2>3. /\ Completed' = Completed
        /\ \A s \in Rounds \ {round} : s \notin WithOutcomes => s \notin WithOutcomes'
    BY <2>1, <2>2, RoundSets DEF Completed, WithOutcomes
  <2>4. FilesFitRound'
    BY <1>1, <2>1, <2>2, <2>3, RoundSets
  <2> QED BY <2>2, <2>3, <2>4, FilesStep
<1>10. CASE MarkRoundCompleted
  <2>1. /\ round \in WithPass /\ outcomes[round] = "full" /\ ~requests[round].exists
        /\ meta[round].exists
    BY <1>1, <1>10 DEF MarkRoundCompleted, IInv, PlaceFitsRound, AwaitingOutcomes, InRound
  <2>2. meta[round] \in RoundMeta
    BY <1>1, <2>1 DEF FilesTyped, NoFile
  <2>3. /\ UNCHANGED <<WithPass, WithAnswers, WithOutcomes, pass, outcomes, requests>>
        /\ \A s \in Rounds \ {round} : meta'[s] = meta[s]
        /\ meta'[round] = [meta[round] EXCEPT !.completed = TRUE]
    BY <1>1, <1>10, <2>1, RoundSets DEF MarkRoundCompleted, FilesTyped
  <2>4. meta'[round].exists /\ meta'[round].completed
    BY <2>1, <2>2, <2>3 DEF RoundMeta
  <2>5. Completed' = Completed \cup {round}
    BY <1>1, <2>1, <2>3, <2>4, RoundSets DEF Completed, WithOutcomes
  <2>6. FilesFitRound'
    BY <1>1, <2>1, <2>3, <2>4, <2>5
  <2> QED BY <2>3, <2>5, <2>6, FilesStep
<1>11. CASE DeleteEmptyOutcomes
  <2>1. PICK r \in Rounds : outcomes[r] = "empty"
                            /\ outcomes' = [outcomes EXCEPT ![r] = "absent"]
    BY <1>11 DEF DeleteEmptyOutcomes
  <2>2. r \notin Completed /\ \A s \in Rounds \ {r} : outcomes'[s] = outcomes[s]
    BY <1>1, <2>1 DEF FilesTyped
  <2>3. UNCHANGED <<WithPass, WithAnswers, pass, meta, requests>>
    BY <1>11, RoundSets DEF DeleteEmptyOutcomes
  <2>4. Completed' = Completed /\ WithOutcomes' \subseteq WithOutcomes
    BY <2>1, <2>2, <2>3, RoundSets DEF Completed, WithOutcomes, FilesTyped
  <2>5. FilesFitRound'
    BY <1>1, <2>2, <2>3, <2>4
  <2> QED BY <2>3, <2>4, <2>5, FilesStep
<1> QED BY <1>3, <1>5, <1>6, <1>7, <1>8, <1>9, <1>10, <1>11
        DEF Next, PassNext, GateNext, RoundNext, Development, Outside, InRound, WriteAnswer,
            EndServing, DevelopmentAsks

------------------------------------------------------------------------------
(* The process and what it tells. *)

\* The process knows its round, by the files, wherever it is.
LEMMA PlaceStep == IInv /\ [Next]_vars => PlaceFitsRound'
<1> SUFFICES ASSUME IInv, FilesTyped, ProcessTyped, FilesFitRound, [Next]_vars
             PROVE  PlaceFitsRound'
  BY TypeParts DEF IInv, FilesStand
<1> USE DEF InPass, InRound, PlaceFitsRound
<1>1. PlaceFitsRound
  BY DEF IInv
<1>2. CASE pc' \notin InPass \cup InRound \cup {"compare"}
  BY <1>2
<1>3. CASE UNCHANGED <<pc, round, rounds>>
  BY <1>1, <1>3, RoundSets DEF rounds, CurrentRound, AwaitingOutcomes
<1>4. CASE EntryNext \/ RoleFails \/ Crash
  BY <1>2, <1>4 DEF EntryNext, Start, EntryAnswered, MarkEntryConfirmed, JournalEntry,
                    RoleFails, Crash
<1>5. CASE CompareVersions
  BY <1>2, <1>5 DEF CompareVersions
<1>6. CASE Resume
  <2>1. PICK r \in AwaitingOutcomes : round' = r /\ meta' = [meta EXCEPT ![r] = Resumed(r)]
    BY <1>6 DEF Resume
  <2>2. \A s \in Rounds : /\ meta'[s].exists = meta[s].exists
                          /\ meta'[s].completed = meta[s].completed
    BY <2>1, RoundSets DEF Resumed, AwaitingOutcomes, FilesTyped, RoundMeta, NoFile
  <2>3. AwaitingOutcomes' = AwaitingOutcomes
    BY <1>6, <2>2, RoundSets DEF Resume, Completed, AwaitingOutcomes
  <2> QED BY <1>6, <2>1, <2>3 DEF Resume
<1>7. CASE TakeSnapshot
  BY <1>7, RoundSets DEF TakeSnapshot, catalogue, CurrentRound, AwaitingOutcomes
<1>8. CASE RunCritic \/ Ask \/ JournalAnswer
  <2>1. UNCHANGED <<WithPass, Completed, round>>
    BY <1>8, RoundSets DEF RunCritic, Ask, JournalAnswer, catalogue, rounds, locals
  <2>2. CASE RunCritic
    BY <1>1, <2>1, <2>2 DEF RunCritic, CurrentRound, AwaitingOutcomes
  <2>3. CASE Ask \/ JournalAnswer
    BY <1>1, <2>1, <2>3 DEF Ask, JournalAnswer, AwaitingOutcomes
  <2> QED BY <1>8, <2>2, <2>3
<1>9. CASE WriteMeta
  <2>1. CASE pc' = "off"
    BY <1>2, <2>1
  <2>2. CASE pc' = "pass" /\ meta' = [meta EXCEPT ![round] = NewMeta]
    <3>1. round \notin WithOutcomes
      BY <1>9, NextRound, PassComesFirst DEF WriteMeta
    <3>2. UNCHANGED <<WithPass, Completed, round>>
      BY <1>9, <2>2, <3>1, RoundSets DEF WriteMeta, Completed, FilesTyped, locals
    <3> QED BY <1>1, <1>9, <2>2, <3>2 DEF WriteMeta, CurrentRound, AwaitingOutcomes
  <2> QED BY <1>9, <2>1, <2>2 DEF WriteMeta
<1>10. CASE WritePass
  <2>1. /\ round \in Rounds \ WithPass /\ round \notin Completed
        /\ held.read \in Artifacts
    BY <1>10, NextRound DEF WritePass, IInv, HeldFitsPlace
  <2>3. held.read # 0
    BY <2>1 DEF Artifacts
  <2>4. round \in WithPass'
    BY <1>10, <2>1, <2>3 DEF WritePass, WithPass, FilesTyped
  <2>5. pc' = "serve" /\ round' = round /\ Completed' = Completed
    BY <1>10, RoundSets DEF WritePass, locals
  <2> QED BY <2>1, <2>4, <2>5 DEF AwaitingOutcomes
<1>11. CASE WriteAnswer
  BY <1>1, <1>11, RoundSets DEF WriteAnswer, AwaitingOutcomes, locals
<1>12. CASE EndServing \/ DevelopmentAsks
  BY <1>1, <1>12, RoundSets DEF EndServing, DevelopmentAsks, AwaitingOutcomes, locals
<1>13. CASE EndDevelopment
  BY <1>1, <1>13, RoundSets DEF EndDevelopment, AwaitingOutcomes, catalogue
<1>14. CASE CollectOutcomes
  BY <1>1, <1>14, RoundSets DEF CollectOutcomes, AwaitingOutcomes, catalogue, locals
<1>15. CASE DevelopmentConcludes
  <2>1. round \in WithPass /\ ~meta[round].completed
    BY <1>1, <1>15, RoundSets DEF DevelopmentConcludes, AwaitingOutcomes, FilesFitRound
  <2>2. UNCHANGED <<WithPass, Completed, round, pc>>
    BY <1>15, <2>1, RoundSets
       DEF DevelopmentConcludes, Completed, WithOutcomes, FilesTyped, locals
  <2> QED BY <1>1, <1>15, <2>2 DEF DevelopmentConcludes, AwaitingOutcomes
<1>16. CASE MarkRoundCompleted
  <2>1. round \in WithPass /\ outcomes[round] = "full" /\ meta[round].exists
    BY <1>1, <1>16, RoundSets DEF MarkRoundCompleted, AwaitingOutcomes, FilesFitRound
  <2>2. meta[round] \in RoundMeta
    BY <2>1, RoundSets DEF FilesTyped, NoFile
  <2>3. meta'[round].exists /\ meta'[round].completed
    BY <1>16, <2>1, <2>2, RoundSets DEF MarkRoundCompleted, FilesTyped, RoundMeta
  <2>4. round \in Completed'
    BY <1>16, <2>1, <2>3, RoundSets DEF MarkRoundCompleted, Completed, WithOutcomes
  <2> QED BY <1>16, <2>4 DEF MarkRoundCompleted, locals
<1>17. CASE EditArtifact \/ RefreshProfile \/ UNCHANGED vars
  BY <1>3, <1>17 DEF EditArtifact, RefreshProfile, vars, catalogue, rounds, locals
<1>18. CASE DeleteEmptyOutcomes
  BY <1>2, <1>18 DEF DeleteEmptyOutcomes
<1> QED BY <1>4, <1>5, <1>6, <1>7, <1>8, <1>9, <1>10, <1>11, <1>12, <1>13, <1>14, <1>15,
           <1>16, <1>17, <1>18
        DEF Next, PassNext, GateNext, RoundNext, Development, Outside

\* What the process holds is what its place says.
LEMMA HeldStep == IInv /\ [Next]_vars => HeldFitsPlace'
<1> SUFFICES ASSUME IInv, FilesTyped, ProcessTyped, FilesFitRound, HeldFitsPlace, [Next]_vars
             PROVE  HeldFitsPlace'
  BY TypeParts DEF IInv, FilesStand
<1> USE DEF HeldFitsPlace
<1>1. CASE pc' \notin {"critic", "meta", "pass", "write_answer", "journal_answer"}
  BY <1>1
<1>2. CASE EntryNext \/ Resume \/ WritePass \/ JournalAnswer \/ EndServing \/ RoundNext
           \/ Development \/ RoleFails \/ Crash \/ DeleteEmptyOutcomes
  BY <1>1, <1>2
     DEF EntryNext, Start, EntryAnswered, MarkEntryConfirmed, JournalEntry, Resume, WritePass,
         JournalAnswer, EndServing, RoundNext, EndDevelopment, CollectOutcomes,
         MarkRoundCompleted, CompareVersions, Development, DevelopmentAsks,
         DevelopmentConcludes, RoleFails, Crash, DeleteEmptyOutcomes
<1>3. CASE TakeSnapshot
  BY <1>3 DEF TakeSnapshot, FilesTyped, ProcessTyped, Held
<1>4. CASE RunCritic
  <2>1. /\ held'.snapshot = held.snapshot /\ held'.profile = held.profile
        /\ held'.read = artifact
    BY <1>4 DEF RunCritic, ProcessTyped, Held
  <2> QED BY <1>4, <2>1 DEF RunCritic, FilesTyped
<1>5. CASE WriteMeta
  <2>1. CASE pc' = "pass" /\ meta' = [meta EXCEPT ![round] = NewMeta]
    <3>1. round \in Rounds
      BY <1>5 DEF WriteMeta, IInv, PlaceFitsRound, InPass
    <3>2. meta'[round] = NewMeta
      BY <2>1, <3>1 DEF FilesTyped
    <3>3. held' = held /\ round' = round
      BY <1>5 DEF WriteMeta, locals
    <3> QED BY <1>5, <2>1, <3>2, <3>3 DEF WriteMeta, NewMeta
  <2> QED BY <1>1, <1>5, <2>1 DEF WriteMeta
<1>6. CASE Ask
  <2>1. PICK q \in ToAsk, a \in Answers :
          held' = [held EXCEPT !.question = q, !.answer = a]
    BY <1>6 DEF Ask
  <2>2. round \in Rounds
    BY <1>6, RoundSets DEF Ask, IInv, PlaceFitsRound, InRound, AwaitingOutcomes
  <2>3. requests[round].exists /\ q \in requests[round].questions /\ answers[round][q] = NoAnswer
    BY DEF ToAsk, Unanswered
  <2>4. requests[round] \in RequestFile
    BY <2>2, <2>3 DEF FilesTyped, NoFile
  <2>5. q \in Questions
    BY <2>3, <2>4 DEF RequestFile
  <2>6. held'.question = q /\ held'.answer = a
    BY <2>1 DEF ProcessTyped, Held
  <2> QED BY <1>6, <2>3, <2>5, <2>6 DEF Ask, catalogue
<1>7. CASE WriteAnswer
  <2>1. round \in Rounds
    BY <1>7, RoundSets DEF WriteAnswer, IInv, PlaceFitsRound, InRound, AwaitingOutcomes
  <2>2. answers'[round][held.question] = held.answer
    BY <1>7, <2>1 DEF WriteAnswer, FilesTyped
  <2> QED BY <1>7, <2>2, NoAnswerIsNoAnswer DEF WriteAnswer, locals
<1>8. CASE EditArtifact \/ RefreshProfile \/ UNCHANGED vars
  BY <1>8 DEF EditArtifact, RefreshProfile, vars, catalogue, locals
<1> QED BY <1>2, <1>3, <1>4, <1>5, <1>6, <1>7, <1>8
        DEF Next, PassNext, GateNext, Outside

\* The snapshots stay among the texts, and what the critic read goes with them.
LEMMA TextsStep == IInv /\ [Next]_vars => TextsFit'
<1> SUFFICES ASSUME IInv, FilesTyped, ProcessTyped, FilesFitRound, TextsFit, [Next]_vars
             PROVE  TextsFit'
  BY TypeParts DEF IInv, FilesStand
<1> USE DEF TextsFit
\* The texts stay, and the pairs are old ones.
<1>1. ASSUME UNCHANGED <<artifact, texts, putBack>>,
             pc' \notin {"critic", "meta", "pass", "compare"},
             \A r \in AwaitingOutcomes' : /\ r \in AwaitingOutcomes /\ pass'[r] = pass[r]
                                          /\ meta'[r].snapshot = meta[r].snapshot
      PROVE  TextsFit'
  BY <1>1 DEF Judged
<1>2. ASSUME UNCHANGED <<artifact, texts, putBack, pass, meta, outcomes>>,
             \/ pc' \notin {"critic", "meta", "pass", "compare"}
             \/ UNCHANGED <<pc, round, held>>
      PROVE  TextsFit'
  <2>1. UNCHANGED AwaitingOutcomes
    BY <1>2, RoundSets DEF AwaitingOutcomes
  <2> QED BY <1>2, <2>1 DEF Judged
<1>3. CASE EntryNext \/ Ask \/ WriteAnswer \/ JournalAnswer \/ EndServing \/ EndDevelopment
           \/ CollectOutcomes \/ CompareVersions \/ DevelopmentAsks \/ RoleFails \/ Crash
           \/ RefreshProfile \/ UNCHANGED vars
  BY <1>2, <1>3
     DEF EntryNext, Start, EntryAnswered, MarkEntryConfirmed, JournalEntry, Ask, WriteAnswer,
         JournalAnswer, EndServing, EndDevelopment, CollectOutcomes, CompareVersions,
         DevelopmentAsks, RoleFails, Crash, RefreshProfile, vars, catalogue, rounds, world,
         history, locals
<1>4. CASE Resume
  <2>1. PICK r \in AwaitingOutcomes : meta' = [meta EXCEPT ![r] = Resumed(r)]
    BY <1>4 DEF Resume
  <2>2. \A s \in Rounds : /\ meta'[s].exists = meta[s].exists
                          /\ meta'[s].completed = meta[s].completed
    BY <2>1, RoundSets DEF Resumed, AwaitingOutcomes, FilesTyped, RoundMeta, NoFile
  <2>3. AwaitingOutcomes' = AwaitingOutcomes
    BY <1>4, <2>2, RoundSets DEF Resume, Completed, AwaitingOutcomes
  <2>4. \A s \in AwaitingOutcomes : meta'[s].snapshot = meta[s].snapshot
    <3>1. r \in Rounds /\ meta[r] \in RoundMeta
      BY RoundSets DEF AwaitingOutcomes, FilesTyped, FilesFitRound, NoFile
    <3>2. Resumed(r).snapshot = meta[r].snapshot
      BY <3>1 DEF Resumed, RoundMeta
    <3> QED BY <2>1, <3>1, <3>2, RoundSets DEF AwaitingOutcomes, FilesTyped
  <2> QED BY <1>1, <1>4, <2>3, <2>4 DEF Resume, world, history
<1>5. CASE TakeSnapshot
  <2>1. AwaitingOutcomes' = {}
    BY <1>5, RoundSets DEF TakeSnapshot, catalogue, AwaitingOutcomes
  <2>2. held'.snapshot = artifact /\ texts' = {artifact} /\ pc' = "critic"
    BY <1>5 DEF TakeSnapshot, ProcessTyped, Held
  <2> QED BY <2>1, <2>2
<1>6. CASE RunCritic
  <2>1. held'.snapshot = held.snapshot /\ held'.read = artifact
    BY <1>6 DEF RunCritic, ProcessTyped, Held
  <2>2. UNCHANGED <<artifact, texts, pass, meta, AwaitingOutcomes>> /\ pc' = "meta"
    BY <1>6, RoundSets DEF RunCritic, catalogue, world, history, AwaitingOutcomes
  <2>3. AwaitingOutcomes = {} /\ held.snapshot \in texts
    BY <1>6 DEF RunCritic, IInv, PlaceFitsRound, InPass
  <2> QED BY <2>1, <2>2, <2>3 DEF Judged
<1>7. CASE WriteMeta
  <2>1. round \in Rounds \ WithPass
    BY <1>7, NextRound DEF WriteMeta, InPass
  <2>2. pass[round] = 0
    BY <2>1 DEF WithPass
  <2>3. /\ pc' = "pass" /\ UNCHANGED <<pass, outcomes, artifact, texts, putBack, round, held>>
        /\ meta' = [meta EXCEPT ![round] = NewMeta]
    BY <1>7, <2>2 DEF WriteMeta, world, history, locals
  <2>4. meta'[round].snapshot = held.snapshot
    BY <2>1, <2>3 DEF NewMeta, FilesTyped
  <2>5. Judged(held.snapshot, held.read) /\ AwaitingOutcomes = {}
    BY <1>7 DEF WriteMeta, IInv, PlaceFitsRound, InPass
  <2>6. AwaitingOutcomes' = {}
    <3>1. round \notin WithOutcomes
      BY <2>1, PassComesFirst
    <3>2. UNCHANGED <<WithPass, WithOutcomes>>
      BY <2>3, RoundSets
    <3>3. \A s \in Rounds \ {round} : meta'[s] = meta[s]
      BY <2>1, <2>3 DEF FilesTyped
    <3>4. UNCHANGED Completed
      BY <3>1, <3>2, <3>3, RoundSets DEF Completed
    <3> QED BY <2>5, <3>2, <3>4 DEF AwaitingOutcomes
  <2> QED BY <2>3, <2>4, <2>5, <2>6 DEF Judged
<1>8. CASE WritePass
  <2>1. round \in Rounds \ WithPass
    BY <1>8, NextRound DEF WritePass, InPass
  <2>2. Judged(meta[round].snapshot, held.read) /\ AwaitingOutcomes = {}
    BY <1>8 DEF WritePass, IInv, PlaceFitsRound, InPass
  <2>3. /\ pass' = [pass EXCEPT ![round] = held.read] /\ pc' = "serve"
        /\ UNCHANGED <<meta, outcomes, artifact, texts, putBack, Completed>>
    BY <1>8, RoundSets DEF WritePass, world, history
  <2>4. pass'[round] = held.read /\ \A s \in Rounds \ {round} : pass'[s] = pass[s]
    BY <2>1, <2>3 DEF FilesTyped
  <2>5. AwaitingOutcomes' \subseteq {round}
    BY <2>2, <2>3, <2>4 DEF AwaitingOutcomes, WithPass
  <2> QED BY <2>2, <2>3, <2>4, <2>5 DEF Judged
<1>9. CASE DevelopmentConcludes
  <2>1. round \in WithPass /\ ~meta[round].completed
    BY <1>9, RoundSets
       DEF DevelopmentConcludes, IInv, PlaceFitsRound, InRound, AwaitingOutcomes, FilesFitRound
  <2>2. UNCHANGED <<WithPass, Completed, pc, round, held, pass, meta, artifact, texts, putBack>>
    BY <1>9, <2>1, RoundSets
       DEF DevelopmentConcludes, Completed, WithOutcomes, FilesTyped, world, history, locals
  <2> QED BY <2>2 DEF Judged, AwaitingOutcomes
<1>10. CASE MarkRoundCompleted
  <2>1. round \in AwaitingOutcomes /\ round \in Rounds /\ outcomes[round] = "full"
    BY <1>10, RoundSets DEF MarkRoundCompleted, IInv, PlaceFitsRound, InRound, AwaitingOutcomes
  <2>2. meta[round] \in RoundMeta
    BY <2>1 DEF AwaitingOutcomes, FilesTyped, FilesFitRound, NoFile
  <2>3. /\ UNCHANGED <<round, pass, outcomes, artifact, texts, putBack>> /\ pc' = "compare"
        /\ meta' = [meta EXCEPT ![round].completed = TRUE]
    BY <1>10 DEF MarkRoundCompleted, world, history, locals
  <2>4. \A s \in Rounds : meta'[s].snapshot = meta[s].snapshot /\ (s # round => meta'[s] = meta[s])
    BY <2>1, <2>2, <2>3 DEF RoundMeta, FilesTyped
  <2>5. AwaitingOutcomes' \subseteq AwaitingOutcomes
    <3>1. UNCHANGED <<WithPass, WithOutcomes>>
      BY <2>3, RoundSets
    <3>2. Completed \subseteq Completed' \cup {round}
      BY <2>4, <3>1, RoundSets DEF Completed
    <3>3. Completed \subseteq Completed'
      BY <2>1, <3>2 DEF AwaitingOutcomes
    <3> QED BY <3>1, <3>3 DEF AwaitingOutcomes
  <2>6. Judged(meta[round].snapshot, pass[round])
    BY <2>1
  <2> QED BY <2>1, <2>3, <2>4, <2>5, <2>6, RoundSets DEF Judged, AwaitingOutcomes
<1>11. CASE EditArtifact
  <2>1. artifact' # artifact /\ texts' = texts \cup {artifact'}
    BY <1>11 DEF EditArtifact
  <2>2. putBack \/ artifact' \in texts => putBack'
    BY <1>11, Zenon DEF EditArtifact
  <2>3. \A s, t : Judged(s, t) => s \in texts' /\ (s = artifact' => t = artifact' \/ putBack')
    BY <2>1, <2>2 DEF Judged
  <2>4. UNCHANGED <<pc, round, held, pass, meta, AwaitingOutcomes>>
    BY <1>11, RoundSets DEF EditArtifact, catalogue, locals, AwaitingOutcomes
  <2> QED BY <2>1, <2>3, <2>4 DEF Judged
<1>12. CASE DeleteEmptyOutcomes
  <2>1. PICK r \in Rounds : outcomes[r] = "empty"
                            /\ outcomes' = [outcomes EXCEPT ![r] = "absent"]
    BY <1>12 DEF DeleteEmptyOutcomes
  <2>2. r \notin Completed /\ \A s \in Rounds \ {r} : outcomes'[s] = outcomes[s]
    BY <2>1 DEF FilesTyped, FilesFitRound
  <2>3. UNCHANGED <<WithPass, pc, round, held, pass, meta, artifact, texts, putBack>>
    BY <1>12, RoundSets DEF DeleteEmptyOutcomes, world, history, locals
  <2>4. Completed' = Completed
    BY <2>1, <2>2, <2>3, RoundSets DEF Completed, WithOutcomes, FilesTyped
  <2> QED BY <2>3, <2>4 DEF Judged, AwaitingOutcomes
<1> QED BY <1>3, <1>4, <1>5, <1>6, <1>7, <1>8, <1>9, <1>10, <1>11, <1>12
        DEF Next, PassNext, GateNext, RoundNext, Development, Outside
\* Confirmation, its record and the answers come before what rests on them.
LEMMA EntryStep == IInv /\ [Next]_vars => EntryComesFirst'
<1> SUFFICES ASSUME IInv, FilesTyped, ProcessTyped, EntryComesFirst, [Next]_vars
             PROVE  EntryComesFirst'
  BY TypeParts DEF IInv
<1> USE DEF EntryComesFirst
<1>1. \A record \in journal : record[1] \in Rounds /\ record[2] \in Questions
  BY DEF FilesTyped
<1>2. CASE EntryNext
  BY <1>2, RoundSets
     DEF EntryNext, Start, EntryAnswered, MarkEntryConfirmed, JournalEntry, catalogue, rounds,
         EvidenceFollowsState, FilesTyped
<1>3. CASE /\ UNCHANGED <<confirmed, entryRecords>>
           /\ \/ pc \notin {"off", "stopped", "ask_entry", "mark_entry", "journal_entry"}
              \/ pc' \in {pc, "off"}
           /\ \/ pass' = pass
              \/ entryRecords = 1
           /\ \A record \in journal' : answers'[record[1]][record[2]] # NoAnswer
  BY <1>3, RoundSets DEF EvidenceFollowsState
<1>4. CASE UNCHANGED <<journal, answers>> /\ (PassNext \/ GateNext \/ RoundNext)
  <2>1. \A record \in journal' : answers'[record[1]][record[2]] # NoAnswer
    BY <1>4 DEF EvidenceFollowsState
  <2>2. /\ UNCHANGED <<confirmed, entryRecords>>
        /\ pc \notin {"off", "stopped", "ask_entry", "mark_entry", "journal_entry"}
    BY <1>4 DEF PassNext, Resume, TakeSnapshot, RunCritic, WriteMeta, WritePass, GateNext, Ask,
                WriteAnswer, JournalAnswer, EndServing, RoundNext, EndDevelopment,
                CollectOutcomes, MarkRoundCompleted, CompareVersions, catalogue
  <2>3. entryRecords = 1
    BY <2>2
  <2> QED BY <1>3, <2>1, <2>2, <2>3
<1>5. CASE PassNext \/ EndServing \/ Ask \/ RoundNext
  BY <1>4, <1>5
     DEF PassNext, Resume, TakeSnapshot, RunCritic, WriteMeta, WritePass, GateNext, Ask,
         EndServing, RoundNext, EndDevelopment, CollectOutcomes, MarkRoundCompleted,
         CompareVersions, catalogue
<1>6. CASE WriteAnswer
  <2>1. /\ round \in Rounds /\ held.question \in Questions
        /\ held.answer \in Answers
    BY <1>6, RoundSets
       DEF WriteAnswer, IInv, PlaceFitsRound, HeldFitsPlace, InRound, AwaitingOutcomes
  <2>2. \A r \in Rounds, q \in Questions : answers[r][q] # NoAnswer => answers'[r][q] # NoAnswer
    BY <1>6, <2>1, NoAnswerIsNoAnswer DEF WriteAnswer, FilesTyped
  <2>3. \A record \in journal' : answers'[record[1]][record[2]] # NoAnswer
    BY <1>1, <1>6, <2>2 DEF WriteAnswer, EvidenceFollowsState
  <2>4. UNCHANGED <<confirmed, entryRecords, pass>> /\ pc = "write_answer"
    BY <1>6 DEF WriteAnswer
  <2> QED BY <1>3, <2>3, <2>4
<1>7. CASE JournalAnswer
  <2>1. answers[round][held.question] # NoAnswer /\ journal' = journal \cup {<<round, held.question>>}
    BY <1>7 DEF JournalAnswer, IInv, HeldFitsPlace
  <2>2. \A record \in journal' : answers'[record[1]][record[2]] # NoAnswer
    BY <1>7, <2>1 DEF JournalAnswer, EvidenceFollowsState, rounds
  <2>3. UNCHANGED <<confirmed, entryRecords, pass>> /\ pc = "journal_answer"
    BY <1>7 DEF JournalAnswer, rounds
  <2> QED BY <1>3, <2>2, <2>3
<1>8. CASE Development \/ Outside \/ UNCHANGED vars
  <2>1. UNCHANGED <<confirmed, entryRecords, journal, pass, answers>> /\ pc' \in {pc, "off"}
    BY <1>8 DEF Development, DevelopmentAsks, DevelopmentConcludes, Outside, RoleFails, Crash,
                EditArtifact, RefreshProfile, DeleteEmptyOutcomes, vars, catalogue
  <2>2. \A record \in journal' : answers'[record[1]][record[2]] # NoAnswer
    BY <2>1 DEF EvidenceFollowsState
  <2> QED BY <1>3, <2>1, <2>2
<1> QED BY <1>2, <1>5, <1>6, <1>7, <1>8 DEF Next, GateNext

------------------------------------------------------------------------------
(* The theorems. *)

\* The initial state satisfies the invariant.
LEMMA InvInit == Init => IInv
<1> SUFFICES ASSUME Init PROVE IInv
  OBVIOUS
<1>1. TypeOK
  BY TypeInit
<1>2. WithPass = {} /\ WithOutcomes = {} /\ WithAnswers = {} /\ Completed = {}
  BY DEF Init, WithPass, WithOutcomes, WithAnswers, Completed
<1>3. IsPrefix({})
  <2>1. {} = 1 .. 0
    OBVIOUS
  <2> QED BY <2>1, SegmentIsPrefix
<1>4. FilesStand
  BY <1>2, <1>3 DEF FilesStand, EarlierAreCompleted, FilesFitRound, Init, NoFile
<1>5. PlaceFitsRound /\ HeldFitsPlace /\ TextsFit /\ EntryComesFirst
  BY <1>2 DEF Init, PlaceFitsRound, InPass, InRound, HeldFitsPlace, TextsFit, AwaitingOutcomes,
              EntryComesFirst, EvidenceFollowsState
<1> QED BY <1>1, <1>4, <1>5 DEF IInv

\* The invariant holds in every reachable state.
THEOREM Invariance == Spec => []IInv
<1>1. Init => IInv
  BY InvInit
<1>2. IInv /\ [Next]_vars => IInv'
  <2>1. FilesTyped' /\ HistoryTyped' /\ ProcessTyped' => TypeOK'
    BY DEF TypeOK, FilesTyped, HistoryTyped, ProcessTyped, Held
  <2> QED BY <2>1, FilesTypeStep, HistoryTypeStep, ProcessTypeStep, FilesStandStep, PlaceStep,
             HeldStep, TextsStep, EntryStep DEF IInv
<1> QED BY <1>1, <1>2, PTL DEF Spec

\* The rounds whose outcomes are in are a prefix too, and so are the completed.
LEMMA HistoryOfFiles == IInv => HistoryStands
<1> SUFFICES ASSUME IInv PROVE HistoryStands
  OBVIOUS
<1> DEFINE k == Cardinality(WithPass)
<1>1. k \in Nat /\ WithPass = 1 .. k
  BY PrefixIsSegment, RoundSets DEF IInv, FilesStand
<1>2. Completed \subseteq WithOutcomes /\ WithOutcomes \subseteq WithPass
  BY RoundSets, PassComesFirst
<1>3. k # 0 => 1 .. k - 1 \subseteq Completed
  <2> SUFFICES ASSUME k # 0, NEW s \in 1 .. k - 1 PROVE s \in Completed
    OBVIOUS
  <2>1. k \in WithPass /\ s \in WithPass /\ s < k
    BY <1>1
  <2> QED BY <2>1, RoundSets DEF IInv, FilesStand, EarlierAreCompleted
<1> HIDE DEF k
<1>4. ASSUME NEW S, Completed \subseteq S, S \subseteq WithPass
      PROVE  IsPrefix(S) /\ k <= Cardinality(S) + 1
  <2>1. CASE k = 0
    <3>1. S = 1 .. 0
      BY <1>1, <1>4, <2>1
    <3> QED BY <2>1, <3>1, SegmentIsPrefix
  <2>2. CASE k # 0 /\ k \in S
    <3>1. S = 1 .. k
      <4>1. \A x \in 1 .. k : x = k \/ x \in 1 .. k - 1
        BY <1>1
      <4> QED BY <1>1, <1>3, <1>4, <2>2, <4>1
    <3>2. IsPrefix(S) /\ Cardinality(S) = k
      BY <1>1, <3>1, SegmentIsPrefix
    <3> QED BY <1>1, <3>2
  <2>3. CASE k # 0 /\ k \notin S
    <3>1. S = 1 .. k - 1 /\ k - 1 \in Nat
      <4>1. \A x \in 1 .. k : x = k \/ x \in 1 .. k - 1
        BY <1>1
      <4>2. k - 1 \in Nat /\ 1 .. k - 1 \subseteq 1 .. k
        BY <1>1, <2>3
      <4> QED BY <1>1, <1>3, <1>4, <2>3, <4>1, <4>2
    <3>2. IsPrefix(S) /\ Cardinality(S) = k - 1
      BY <3>1, SegmentIsPrefix
    <3> QED BY <1>1, <3>2
  <2> QED BY <2>1, <2>2, <2>3
<1>5. IsPrefix(WithOutcomes) /\ IsPrefix(Completed) /\ k <= Cardinality(Completed) + 1
  BY <1>2, <1>4
<1>6. ~HistoryDamaged
  <2>1. Cardinality(Completed) \in Nat
    BY <1>2, <1>5, PrefixIsSegment, RoundSets
  <2>2. ~(k > Cardinality(Completed) + 1)
    BY <1>1, <1>5, <2>1
  <2>3. \A r \in WithPass : meta[r].exists
    BY RoundSets DEF IInv, FilesStand, FilesFitRound
  <2>4. \A r \in WithPass \ WithOutcomes : ~meta[r].completed
    BY <1>2, RoundSets DEF IInv, FilesStand, FilesFitRound
  <2> QED BY <1>5, <2>2, <2>3, <2>4 DEF HistoryDamaged, MetaLost, k
<1>7. ~GatesDamaged
  BY <1>2, RoundSets DEF IInv, FilesStand, FilesFitRound, GatesDamaged, Hanging
<1> QED BY <1>5, <1>6, <1>7 DEF HistoryStands, IInv, FilesStand

\* Whatever action the process dies after, restore finds a history it takes, and
\* its evidence says what the state says.
THEOREM StateStaysRestorable == Spec => []StateIsRestorable
<1>1. IInv => StateIsRestorable
  BY HistoryOfFiles DEF StateIsRestorable, IInv, EntryComesFirst
<1> QED BY <1>1, Invariance, PTL

\* No answer of the operator is asked again or changed.
THEOREM AnswersAreKept == Spec => AnswersStand
<1> DEFINE Kept == \A r \in Rounds, q \in Questions :
                      answers[r][q] # NoAnswer => answers'[r][q] = answers[r][q]
<1>1. IInv /\ [Next]_vars => [Kept]_vars
  <2> SUFFICES ASSUME IInv, [Next]_vars PROVE Kept
    OBVIOUS
  <2>1. CASE WriteAnswer
    <3>1. answers[round][held.question] = NoAnswer
      BY <2>1 DEF WriteAnswer, IInv, HeldFitsPlace
    <3>2. answers' = [answers EXCEPT ![round][held.question] = held.answer]
      BY <2>1 DEF WriteAnswer
    <3> QED BY <3>1, <3>2 DEF IInv, TypeOK
  <2>2. CASE UNCHANGED answers
    BY <2>2
  <2>3. WriteAnswer \/ UNCHANGED answers
    BY DEF Next, EntryNext, Start, EntryAnswered, MarkEntryConfirmed, JournalEntry,
           PassNext, Resume, TakeSnapshot, RunCritic, WriteMeta, WritePass,
           GateNext, Ask, JournalAnswer, EndServing,
           RoundNext, EndDevelopment, CollectOutcomes, MarkRoundCompleted, CompareVersions,
           Development, DevelopmentAsks, DevelopmentConcludes,
           Outside, RoleFails, Crash, EditArtifact, RefreshProfile, DeleteEmptyOutcomes,
           vars, catalogue, rounds
  <2> QED BY <2>1, <2>2, <2>3
<1> QED BY <1>1, Invariance, PTL DEF Spec, AnswersStand

\* No pass is received twice, and what was judged, and for whom, stays.
THEOREM PassesAreKept == Spec => PassIsFact
<1> DEFINE Kept == \A r \in WithPass : /\ pass'[r] = pass[r]
                                       /\ meta'[r].snapshot = meta[r].snapshot
                                       /\ meta'[r].profile = meta[r].profile
<1>1. IInv /\ [Next]_vars => [Kept]_vars
  <2> SUFFICES ASSUME IInv, FilesTyped, FilesFitRound, [Next]_vars PROVE Kept
    BY TypeParts DEF IInv, FilesStand
  <2>1. CASE UNCHANGED <<pass, meta>>
    BY <2>1
  <2>2. CASE WriteMeta \/ WritePass
    <3>1. round \notin WithPass
      BY <2>2, NextRound DEF WriteMeta, WritePass, InPass
    <3> QED BY <2>2, <3>1, RoundSets DEF WriteMeta, WritePass, FilesTyped
  <2>3. CASE Resume
    <3>1. PICK r \in AwaitingOutcomes : meta' = [meta EXCEPT ![r] = Resumed(r)]
      BY <2>3 DEF Resume
    <3>2. r \in Rounds /\ meta[r] \in RoundMeta
      BY RoundSets DEF AwaitingOutcomes, FilesTyped, FilesFitRound, NoFile
    <3>3. \A s \in Rounds : s # r => meta'[s] = meta[s]
      BY <3>1 DEF FilesTyped
    <3>4. meta'[r].snapshot = meta[r].snapshot /\ meta'[r].profile = meta[r].profile
      BY <3>1, <3>2 DEF Resumed, FilesTyped, RoundMeta
    <3> QED BY <2>3, <3>3, <3>4, RoundSets DEF Resume
  <2>4. CASE MarkRoundCompleted
    <3>1. round \in Rounds /\ meta[round] \in RoundMeta
      BY <2>4, RoundSets DEF MarkRoundCompleted, IInv, PlaceFitsRound, InRound,
                             AwaitingOutcomes, FilesTyped, FilesFitRound, NoFile
    <3>2. \A s \in Rounds : s # round => meta'[s] = meta[s]
      BY <2>4 DEF MarkRoundCompleted, FilesTyped
    <3>3. /\ meta'[round].snapshot = meta[round].snapshot
          /\ meta'[round].profile = meta[round].profile
      BY <2>4, <3>1 DEF MarkRoundCompleted, FilesTyped, RoundMeta
    <3> QED BY <2>4, <3>2, <3>3, RoundSets DEF MarkRoundCompleted
  <2>5. WriteMeta \/ WritePass \/ Resume \/ MarkRoundCompleted \/ UNCHANGED <<pass, meta>>
    BY DEF Next, EntryNext, Start, EntryAnswered, MarkEntryConfirmed, JournalEntry,
           PassNext, TakeSnapshot, RunCritic,
           GateNext, Ask, WriteAnswer, JournalAnswer, EndServing,
           RoundNext, EndDevelopment, CollectOutcomes, CompareVersions,
           Development, DevelopmentAsks, DevelopmentConcludes,
           Outside, RoleFails, Crash, EditArtifact, RefreshProfile, DeleteEmptyOutcomes,
           vars, catalogue, rounds
  <2> QED BY <2>1, <2>2, <2>3, <2>4, <2>5
<1> QED BY <1>1, Invariance, PTL DEF Spec, PassIsFact

\* What the operator and the critic gave is taken once and kept.
THEOREM FactsAreKept == Spec => FactsStand
  BY AnswersAreKept, PassesAreKept DEF FactsStand

\* The cycle stops only over an artifact the critic has read as it is now, unless a
\* text came back: the snapshot was taken before he was called, so only a text put
\* back can make it the artifact again after an edit he read.
THEOREM StopsAreJudged == Spec => StopIsJudged
<1> DEFINE Stop == pc = "compare" /\ pc' = "stopped" => pass[round] = artifact \/ putBack
<1>1. IInv /\ [Next]_vars => [Stop]_vars
  <2> SUFFICES ASSUME IInv, [Next]_vars, pc = "compare", pc' = "stopped"
               PROVE  pass[round] = artifact \/ putBack
    OBVIOUS
  <2>1. CompareVersions
    BY DEF Next, EntryNext, Start, EntryAnswered, MarkEntryConfirmed, JournalEntry,
           PassNext, Resume, TakeSnapshot, RunCritic, WriteMeta, WritePass,
           GateNext, Ask, WriteAnswer, JournalAnswer, EndServing,
           RoundNext, EndDevelopment, CollectOutcomes, MarkRoundCompleted,
           Development, DevelopmentAsks, DevelopmentConcludes,
           Outside, RoleFails, Crash, EditArtifact, RefreshProfile, DeleteEmptyOutcomes, vars
  <2>2. meta[round].snapshot = artifact
    BY <2>1 DEF CompareVersions
  <2>3. Judged(meta[round].snapshot, pass[round])
    BY DEF IInv, TextsFit
  <2> QED BY <2>2, <2>3 DEF Judged
<1> QED BY <1>1, Invariance, PTL DEF Spec, StopIsJudged
=============================================================================
