--------------------------- MODULE Install_proofs ---------------------------
(***************************************************************************)
(* Theorems about Install and the residents it supervises, for any         *)
(* requests, spaces, configurations, releases and residents.               *)
(***************************************************************************)
EXTENDS Install, FiniteSetTheorems, TLAPS

------------------------------------------------------------------------------
(* The inductive invariant. *)

\* The conjuncts of TypeOK that say what the process and the facts may be.
FactsTyped ==
    /\ up \in {"down", "reconcile", "promote", "seed", "up"}
    /\ config \in Configs \cup {Missing}
    /\ {executing, readPending, active, pending} \subseteq Releases \cup {Missing}
    /\ held \subseteq Outside /\ members \subseteq spaces /\ spaces \subseteq Spaces
    /\ home \in spaces \cup {Missing}
    /\ docs \in [Docs -> Doc \cup {NoDoc}]

\* Who observes, where he is and which event he has seen.
ObserversTyped ==
    /\ pc \in [Observers -> {"idle", "computed", "retiring", "decided", "proving"}]
    /\ broken \in [Observers -> BOOLEAN] /\ verdict \in [Observers -> BOOLEAN]
    /\ seen \in [Observers -> Nat]
    /\ \A q \in Observers : pc[q] = "proving" => seen[q] <= events

\* A record names the generation it was written in, and so the events before it;
\* every generation but the last has one.
RecordsTell ==
    /\ generation = events + 1 /\ events \in Nat /\ lossSeen \in BOOLEAN
    /\ IsFiniteSet(records)
    /\ records \subseteq Record
    /\ \A r \in records : r.after = r.generation - 1 /\ r.generation <= generation
    /\ EventRetiresProof
    /\ Cardinality(records) <= MaxProofs

\* The task that is alive under a name is the one the supervisor has.
OneTaskPerName ==
    /\ ResidentsTypeOK
    /\ \A n \in Names, t \in Tasks : life[n][t] \in Alive => running[n] = t

IInv == FactsTyped /\ ObserversTyped /\ RecordsTell /\ OneTaskPerName

------------------------------------------------------------------------------
(* The completion records. *)

\* There are as many records as retired generations, or more.
LEMMA EventsAreBounded == RecordsTell => events <= Cardinality(records)
<1> SUFFICES ASSUME RecordsTell PROVE events <= Cardinality(records)
  OBVIOUS
<1> DEFINE proof == [g \in 1 .. events |-> CHOOSE r \in records : r.generation = g]
<1>1. \A g \in 1 .. events : proof[g] \in records /\ proof[g].generation = g
  BY DEF RecordsTell, EventRetiresProof, Proven
<1>2. proof \in Injection(1 .. events, records)
  BY <1>1 DEF Injection, IsInjective
<1>3. Cardinality(1 .. events) <= Cardinality(records)
  BY <1>2, FS_Injection DEF RecordsTell
<1>4. Cardinality(1 .. events) = events
  BY FS_Interval DEF RecordsTell
<1> QED BY <1>3, <1>4

\* A record written now is one.
LEMMA RecordsProve ==
    ASSUME NEW q \in Requests, FactsTyped, ObserversTyped, RecordsTell, Prove(q)
    PROVE  RecordsTell'
<1> USE InstallAssumption
<1>1. CASE UNCHANGED records
  BY <1>1 DEF RecordsTell, EventRetiresProof, Proven, Prove
<1> DEFINE new == [generation |-> generation, config |-> config, release |-> executing,
                   after |-> events, admitted |-> seen[q]]
<1>2. CASE /\ config # Missing /\ executing # Missing
           /\ Cardinality(records) < MaxProofs /\ records' = records \cup {new}
  <2> HIDE DEF new
  <2>1. Cardinality(records) \in Nat
    BY FS_CardinalityType DEF RecordsTell
  <2>2. IsFiniteSet(records') /\ Cardinality(records') <= Cardinality(records) + 1
    <3>1. IsFiniteSet(records)
      BY DEF RecordsTell
    <3>2. /\ IsFiniteSet(records \cup {new})
          /\ Cardinality(records \cup {new}) =
               IF new \in records THEN Cardinality(records) ELSE Cardinality(records) + 1
      BY <3>1, FS_AddElement
    <3> QED BY <1>2, <2>1, <3>2
  <2>3. events < MaxProofs
    BY <1>2, <2>1, EventsAreBounded DEF RecordsTell
  <2>4. seen[q] \in 0 .. events
    BY DEF ObserversTyped, Prove, Observers, RecordsTell
  <2>5. /\ new \in Record /\ new.after = new.generation - 1
        /\ new.generation <= generation
    BY <1>2, <2>3, <2>4 DEF Record, RecordsTell, FactsTyped, new
  <2>6. EventRetiresProof'
    BY <1>2 DEF EventRetiresProof, Proven, RecordsTell, Prove
  <2>7. UNCHANGED <<generation, events, lossSeen>>
    BY DEF Prove
  <2>8. records' \subseteq Record /\ \A r \in records' : r.after = r.generation - 1
                                                         /\ r.generation <= generation
    BY <1>2, <2>5 DEF RecordsTell
  <2>9. Cardinality(records') <= MaxProofs
    BY <1>2, <2>1, <2>2, FS_CardinalityType
  <2> QED BY <2>2, <2>6, <2>7, <2>8, <2>9 DEF RecordsTell
<1> QED BY <1>1, <1>2 DEF Prove

\* A generation that is retired had a proof.
LEMMA RecordsAdvance ==
    ASSUME NEW g, RecordsTell, Advance(g), UNCHANGED records PROVE RecordsTell' /\ events <= events'
<1>1. CASE UNCHANGED <<generation, events, lossSeen>>
  BY <1>1 DEF RecordsTell, EventRetiresProof, Proven
<1>2. CASE /\ g = generation /\ Proven(g)
           /\ generation' = generation + 1 /\ events' = events + 1 /\ lossSeen' = ~ServingOpen
  <2>1. EventRetiresProof'
    BY <1>2 DEF EventRetiresProof, Proven, RecordsTell
  <2>2. \A r \in records : r.generation \in Nat
    BY InstallAssumption DEF RecordsTell, Record
  <2> QED BY <1>2, <2>1, <2>2 DEF RecordsTell
<1> QED BY <1>1, <1>2 DEF Advance

------------------------------------------------------------------------------
(* The residents. *)

\* A supervisor's turn that starts what is missing leaves one task per name.
LEMMA TurnStarts ==
    ASSUME OneTaskPerName, StartMissing, finished' = FinishedNow PROVE OneTaskPerName'
<1> USE ResidentAssumption DEF OneTaskPerName, ResidentsTypeOK, Tasks, Alive, Ended
<1> DEFINE missing == Names \ (Kept \cup FinishedNow)
<1>1. \A n \in missing : FreeTask(n) \in Tasks /\ \A t \in Tasks : life[n][t] \notin Alive
  <2> SUFFICES ASSUME NEW n \in missing
               PROVE  FreeTask(n) \in Tasks /\ \A t \in Tasks : life[n][t] \notin Alive
    OBVIOUS
  <2>1. \A t \in Tasks : life[n][t] \notin Alive
    BY DEF Kept, Life
  <2>2. FreeTask(n) \in Tasks
    BY <2>1 DEF FreeTask
  <2> QED BY <2>1, <2>2
<1>2. \A n \in Names : Life(n) \notin Alive => \A t \in Tasks : life[n][t] \notin Alive
  BY DEF Life
<1>3. finished' \subseteq OneShots
  BY DEF FinishedNow
<1> DEFINE left(n) == IF n \in Reaped THEN Without(n) ELSE life[n]
<1>4. \A n \in Names : left(n) \in [Tasks -> Alive \cup Ended \cup {"none"}]
                       /\ \A t \in Tasks : left(n)[t] \in Alive => life[n][t] = left(n)[t]
  BY DEF Without
<1>5. \A n \in missing : /\ running'[n] = FreeTask(n)
                         /\ life'[n] = [left(n) EXCEPT ![FreeTask(n)] = "work"]
  BY DEF StartMissing, Started
<1>6. \A n \in Names \ missing : /\ running'[n] = IF n \in Reaped THEN 0 ELSE running[n]
                                 /\ life'[n] = left(n)
  BY DEF StartMissing, Started
<1>7. /\ running' = [n \in Names |-> running'[n]]
      /\ life' = [n \in Names |-> life'[n]]
  BY DEF StartMissing, Started
<1> HIDE DEF missing, left
<1>8. ASSUME NEW n \in missing, n \in Names
      PROVE  /\ life'[n] \in [Tasks -> Alive \cup Ended \cup {"none"}]
             /\ running'[n] \in Tasks \cup {0}
             /\ running'[n] # 0 => life'[n][running'[n]] # "none"
             /\ \A t \in Tasks : life'[n][t] \in Alive => running'[n] = t
  <2>1. /\ FreeTask(n) \in Tasks /\ \A t \in Tasks : life[n][t] \notin Alive
        /\ left(n) \in [Tasks -> Alive \cup Ended \cup {"none"}]
        /\ \A t \in Tasks : left(n)[t] \in Alive => life[n][t] = left(n)[t]
        /\ running'[n] = FreeTask(n) /\ life'[n] = [left(n) EXCEPT ![FreeTask(n)] = "work"]
    BY ONLY <1>1, <1>4, <1>5, <1>8
  <2> QED BY ONLY <2>1 DEF Tasks, Alive, Ended
<1>9. ASSUME NEW n \in Names \ missing
      PROVE  /\ life'[n] \in [Tasks -> Alive \cup Ended \cup {"none"}]
             /\ running'[n] \in Tasks \cup {0}
             /\ running'[n] # 0 => life'[n][running'[n]] # "none"
             /\ \A t \in Tasks : life'[n][t] \in Alive => running'[n] = t
  <2>1. CASE n \in Reaped
    <3>1. Life(n) \notin Alive
      BY <2>1 DEF Reaped
    <3> QED BY <1>2, <1>4, <1>6, <2>1, <3>1
  <2>2. CASE n \notin Reaped
    BY <1>4, <1>6, <2>2 DEF left
  <2> QED BY <2>1, <2>2
<1> QED BY <1>3, <1>7, <1>8, <1>9

\* So does one that stops them, survivors and all.
LEMMA TurnStops ==
    ASSUME NEW survivors, OneTaskPerName, StopAll(survivors), finished' = FinishedNow
    PROVE  OneTaskPerName'
<1> USE ResidentAssumption DEF OneTaskPerName, ResidentsTypeOK, Tasks, Alive, Ended
<1>1. finished' \subseteq OneShots
  BY DEF FinishedNow
<1>2. /\ running' = [n \in Names |-> running'[n]]
      /\ life' = [n \in Names |-> life'[n]]
  BY DEF StopAll
<1>3. ASSUME NEW n \in Names
      PROVE  /\ life'[n] \in [Tasks -> Alive \cup Ended \cup {"none"}]
             /\ running'[n] \in Tasks \cup {0}
             /\ running'[n] # 0 => life'[n][running'[n]] # "none"
             /\ \A t \in Tasks : life'[n][t] \in Alive => running'[n] = t
  <2>1. CASE n \in survivors
    <3>1. running[n] \in Tasks
      BY <2>1 DEF StopAll, Kept, Life
    <3> QED BY <2>1, <3>1 DEF StopAll
  <2>2. CASE n \notin survivors /\ running[n] # 0
    BY <2>2 DEF StopAll, Without
  <2>3. CASE n \notin survivors /\ running[n] = 0
    BY <2>3 DEF StopAll
  <2> QED BY <2>1, <2>2, <2>3
<1> QED BY <1>1, <1>2, <1>3

\* A task that ends leaves the others as they are.
LEMMA TaskEndsStep ==
    ASSUME NEW n \in Names, NEW t \in Tasks, NEW how \in Ended,
           OneTaskPerName, TaskEnds(n, t, how)
    PROVE  OneTaskPerName'
  BY DEF OneTaskPerName, ResidentsTypeOK, TaskEnds, Alive, Ended

\* A process that starts has no task.
LEMMA ShutdownStep == Shutdown => OneTaskPerName'
  BY ResidentAssumption
     DEF Shutdown, NoTask, OneTaskPerName, ResidentsTypeOK, Alive, Ended, Names, Tasks

------------------------------------------------------------------------------
(* The invariant holds at the start and is kept. *)

\* What a step leaves alone keeps its part of the invariant.
LEMMA UnchangedKeeps ==
    /\ FactsTyped /\ UNCHANGED <<processVars, factVars, active, pending>> => FactsTyped'
    /\ RecordsTell /\ UNCHANGED <<generation, records, events, lossSeen>> => RecordsTell'
    /\ ObserversTyped /\ UNCHANGED <<observerVars, events>> => ObserversTyped'
    /\ OneTaskPerName /\ UNCHANGED residentVars => OneTaskPerName'
<1>1. FactsTyped /\ UNCHANGED <<processVars, factVars, active, pending>> => FactsTyped'
  BY DEF FactsTyped, processVars, factVars
<1>2. RecordsTell /\ UNCHANGED <<generation, records, events, lossSeen>> => RecordsTell'
  BY DEF RecordsTell, EventRetiresProof, Proven
<1>3. ObserversTyped /\ UNCHANGED <<observerVars, events>> => ObserversTyped'
  BY DEF ObserversTyped, observerVars
<1>4. OneTaskPerName /\ UNCHANGED residentVars => OneTaskPerName'
  BY DEF OneTaskPerName, ResidentsTypeOK, residentVars
<1> QED BY <1>1, <1>2, <1>3, <1>4

\* The initial state satisfies the invariant.
LEMMA InvInit == Init => IInv
<1> SUFFICES ASSUME Init PROVE IInv
  OBVIOUS
<1> USE InstallAssumption DEF Init
<1>1. FactsTyped
  BY DEF FactsTyped, Outside
<1>2. ObserversTyped
  BY DEF ObserversTyped
<1>3. RecordsTell
  <2>1. generation = 1 /\ events = 0 /\ lossSeen \in BOOLEAN /\ records = {}
    BY Zenon
  <2> HIDE DEF Init
  <2>2. IsFiniteSet(records) /\ Cardinality(records) = 0
    BY <2>1, FS_EmptySet
  <2>3. EventRetiresProof
    BY <2>1 DEF EventRetiresProof
  <2>4. generation = events + 1 /\ events \in Nat /\ 0 <= MaxProofs
    BY <2>1
  <2> QED BY <2>1, <2>2, <2>3, <2>4 DEF RecordsTell
<1>4. OneTaskPerName
  BY ResidentAssumption
     DEF ResidentsInit, NoTask, OneTaskPerName, ResidentsTypeOK, Alive, Ended, Names, Tasks
<1> HIDE DEF Init
<1> QED BY <1>1, <1>2, <1>3, <1>4 DEF IInv

\* The start of the process and what its operator does around it.
LEMMA InvStart ==
    ASSUME IInv,
           \/ \E c \in Configs \cup {Missing}, r \in Releases \cup {Missing} : Boot(c, r)
           \/ \E r \in Releases : RecordTarget(r)
           \/ Start \/ Move
    PROVE  IInv'
<1> USE DEF IInv
<1>1. ASSUME NEW c \in Configs \cup {Missing}, NEW r \in Releases \cup {Missing}, Boot(c, r)
      PROVE  IInv'
  <2>1. FactsTyped'
    BY <1>1 DEF Boot, FactsTyped, factVars, storeVars
  <2>2. ObserversTyped'
    BY <1>1 DEF Boot, ObserversTyped
  <2> QED BY <1>1, <2>1, <2>2, ShutdownStep, UnchangedKeeps DEF Boot, storeVars
<1>2. ASSUME NEW r \in Releases, RecordTarget(r) PROVE IInv'
  <2>1. FactsTyped'
    BY <1>2 DEF RecordTarget, FactsTyped, processVars, factVars
  <2> QED BY <1>2, <2>1, UnchangedKeeps DEF RecordTarget
<1>3. CASE ReadTarget
  <2>1. FactsTyped'
    BY <1>3 DEF ReadTarget, FactsTyped, factVars, storeVars
  <2> QED BY <1>3, <2>1, UnchangedKeeps DEF ReadTarget, storeVars
<1>4. CASE Reconcile
  <2>1. FactsTyped'
    BY <1>4 DEF Reconcile, FactsTyped, factVars
  <2>2. RecordsTell' /\ events <= events'
    <3>1. CASE UNCHANGED <<generation, events, lossSeen>>
      BY <1>4, <3>1, UnchangedKeeps DEF Reconcile, RecordsTell
    <3>2. CASE Advance(generation)
      BY <1>4, <3>2, RecordsAdvance DEF Reconcile
    <3> QED BY <1>4, <3>1, <3>2 DEF Reconcile
  <2>3. ObserversTyped'
    BY <1>4, <2>2 DEF Reconcile, ObserversTyped, observerVars, RecordsTell
  <2> QED BY <1>4, <2>1, <2>2, <2>3, UnchangedKeeps DEF Reconcile
<1>5. CASE Bootstrap
  <2>1. FactsTyped'
    <3>1. CASE UNCHANGED <<spaces, members, home, docs>>
      BY <1>5, <3>1 DEF Bootstrap, FactsTyped, factVars, storeVars, Outside
    <3>2. ASSUME NEW s \in NewHomes, home' = s, spaces' = spaces \cup {s},
                 members' = members \cup {s},
                 \/ UNCHANGED docs
                 \/ \E d \in Docs :
                       docs' = [docs EXCEPT ![d] = [space |-> s, status |-> "current"]]
          PROVE  FactsTyped'
      <4>1. s \in Spaces
        BY DEF NewHomes, FactsTyped, RoutingHome
      <4>2. [space |-> s, status |-> "current"] \in Doc
        BY <4>1 DEF Doc
      <4>3. docs' \in [Docs -> Doc \cup {NoDoc}]
        BY <3>2, <4>2 DEF FactsTyped
      <4>4. held' \subseteq Outside
        BY <1>5 DEF Bootstrap, FactsTyped, factVars, Outside
      <4> QED BY <1>5, <3>2, <4>1, <4>3, <4>4 DEF Bootstrap, FactsTyped, storeVars
    <3> QED BY <1>5, <3>1, <3>2 DEF Bootstrap, factVars
  <2> QED BY <1>5, <2>1, UnchangedKeeps DEF Bootstrap, storeVars
<1>6. CASE Move
  <2>1. FactsTyped'
    <3>1. held' \subseteq Outside /\ members' \subseteq spaces' /\ UNCHANGED <<spaces, home>>
      BY <1>6 DEF Move, FactsTyped, Outside
    <3>2. docs' \in [Docs -> Doc \cup {NoDoc}]
      <4>1. ASSUME NEW d \in Docs, NEW st \in {"current", "retired", "deleted"},
                   docs[d] # NoDoc, docs' = [docs EXCEPT ![d].status = st]
            PROVE  docs' \in [Docs -> Doc \cup {NoDoc}]
        <5>1. docs[d] \in Doc
          BY <4>1 DEF FactsTyped
        <5>2. [docs[d] EXCEPT !.status = st] \in Doc
          BY <5>1 DEF Doc
        <5> QED BY <4>1, <5>2 DEF FactsTyped
      <4> QED BY <1>6, <4>1 DEF Move, FactsTyped
    <3> QED BY <1>6, <3>1, <3>2 DEF Move, FactsTyped, processVars, storeVars
  <2> QED BY <1>6, <2>1, UnchangedKeeps DEF Move, storeVars
<1>7. CASE ReconcileFails
  <2>1. FactsTyped'
    BY <1>7 DEF ReconcileFails, FactsTyped, factVars, storeVars
  <2> QED BY <1>7, <2>1, UnchangedKeeps DEF ReconcileFails, storeVars
<1> QED BY <1>1, <1>2, <1>3, <1>4, <1>5, <1>6, <1>7 DEF Start

\* What an observer of the gate does: a request, or the supervisor up to its turn.
LEMMA InvObserver ==
    ASSUME NEW o \in Observers, IInv, Compute(o) \/ Observe(o) \/ Retire(o) PROVE IInv'
<1> USE DEF IInv
<1>1. CASE Compute(o)
  <2>1. ServingOpen \in BOOLEAN
    BY DEF ServingOpen, SeedHolds, RoutingHome, Projected
  <2>2. ObserversTyped'
    BY <1>1, <2>1 DEF Compute, ObserversTyped, storeVars
  <2> QED BY <1>1, <2>2, UnchangedKeeps DEF Compute, storeVars
<1>2. CASE Observe(o)
  <2>1. ObserversTyped'
    BY <1>2 DEF Observe, ObserversTyped, RecordsTell, storeVars
  <2> QED BY <1>2, <2>1, UnchangedKeeps DEF Observe, storeVars
<1>3. CASE Retire(o)
  <2>1. RecordsTell' /\ events <= events'
    BY <1>3, RecordsAdvance DEF Retire
  <2>2. ServingOpen \in BOOLEAN
    BY DEF ServingOpen, SeedHolds, RoutingHome, Projected
  <2>3. ObserversTyped'
    <3>1. verdict' \in [Observers -> BOOLEAN]
      BY <1>3, <2>2 DEF Retire, ObserversTyped
    <3>2. /\ pc' \in [Observers -> {"idle", "computed", "retiring", "decided", "proving"}]
          /\ \A q \in Observers : pc'[q] = "proving" => pc[q] = "proving"
      BY <1>3 DEF Retire, ObserversTyped
    <3>3. \A q \in Observers : pc'[q] = "proving" => seen[q] <= events'
      BY <2>1, <3>2 DEF ObserversTyped, RecordsTell
    <3> QED BY <1>3, <3>1, <3>2, <3>3 DEF Retire, ObserversTyped
  <2> QED BY <1>3, <2>1, <2>3, UnchangedKeeps DEF Retire
<1> QED BY <1>1, <1>2, <1>3

\* What a request does once its observation is made.
LEMMA InvRequest ==
    ASSUME NEW q \in Requests, IInv,
           Prove(q) \/ Answer(q) \/ Probe(q) \/ Login(q) \/ CreateSpace(q) \/ SetHome(q)
    PROVE  IInv'
<1> USE DEF IInv
<1>1. q \in Observers
  BY DEF Observers
<1>2. CASE Prove(q)
  <2>1. ObserversTyped'
    BY <1>1, <1>2 DEF Prove, ObserversTyped
  <2> QED BY <1>2, <2>1, RecordsProve, UnchangedKeeps DEF Prove
<1>3. ASSUME NEW next \in {"idle", "proving"}, NEW mark \in 0 .. events,
             Served(q, next, mark), FactsTyped'
      PROVE  IInv'
  <2>1. ObserversTyped'
    BY <1>1, <1>3 DEF Served, ObserversTyped, RecordsTell, storeVars
  <2> QED BY <1>3, <2>1, UnchangedKeeps DEF Served, storeVars
<1>4. 0 \in 0 .. events /\ events \in 0 .. events
  BY DEF RecordsTell
<1>5. CASE Answer(q)
  <2>1. FactsTyped'
    BY <1>5, UnchangedKeeps DEF Answer, Served, storeVars
  <2> QED BY <1>3, <1>4, <1>5, <2>1 DEF Answer
<1>6. CASE Probe(q)
  <2>1. FactsTyped'
    BY <1>6, UnchangedKeeps DEF Probe, Served, storeVars
  <2> QED BY <1>3, <1>4, <1>6, <2>1 DEF Probe
<1>7. CASE Login(q)
  <2>1. FactsTyped'
    BY <1>7 DEF Login, Served, FactsTyped, processVars, storeVars, Outside
  <2> QED BY <1>3, <1>4, <1>7, <2>1 DEF Login
<1>8. CASE CreateSpace(q)
  <2>1. FactsTyped'
    BY <1>8 DEF CreateSpace, Served, FactsTyped, processVars, storeVars
  <2> QED BY <1>3, <1>4, <1>8, <2>1 DEF CreateSpace
<1>9. CASE SetHome(q)
  <2>1. FactsTyped'
    BY <1>9 DEF SetHome, HomeAllowed, RoutingHome, Served, FactsTyped, processVars, storeVars
  <2> QED BY <1>3, <1>4, <1>9, <2>1 DEF SetHome
<1> QED BY <1>2, <1>5, <1>6, <1>7, <1>8, <1>9

\* What the supervisor and its residents do.
LEMMA InvSupervisor ==
    ASSUME IInv,
           \/ \E survivors \in SUBSET Names : Turn(survivors)
           \/ CheckFails
           \/ \E n \in Names, t \in Tasks, how \in Ended : ResidentEnds(n, t, how)
    PROVE  IInv'
<1> USE DEF IInv
<1>1. Supervisor \in Observers
  BY DEF Observers
<1>2. ASSUME NEW survivors \in SUBSET Names, Turn(survivors) PROVE IInv'
  <2>1. OneTaskPerName'
    BY <1>2, TurnStarts, TurnStops DEF Turn, Supervise
  <2>2. ObserversTyped'
    BY <1>1, <1>2 DEF Turn, ObserversTyped, RecordsTell, storeVars
  <2> QED BY <1>2, <2>1, <2>2, UnchangedKeeps DEF Turn, storeVars
<1>3. CASE CheckFails
  <2>1. ObserversTyped'
    BY <1>1, <1>3 DEF CheckFails, ObserversTyped, storeVars
  <2> QED BY <1>3, <2>1, UnchangedKeeps DEF CheckFails, storeVars
<1>4. ASSUME NEW n \in Names, NEW t \in Tasks, NEW how \in Ended, ResidentEnds(n, t, how)
      PROVE  IInv'
  <2>1. OneTaskPerName'
    BY <1>4, TaskEndsStep DEF ResidentEnds
  <2> QED BY <1>4, <2>1, UnchangedKeeps DEF ResidentEnds, storeVars
<1> QED BY <1>2, <1>3, <1>4

\* Every step keeps the invariant.
LEMMA InvStep == IInv /\ [Next]_vars => IInv'
<1> SUFFICES ASSUME IInv, [Next]_vars PROVE IInv'
  OBVIOUS
<1>1. CASE UNCHANGED vars
  BY <1>1, UnchangedKeeps DEF IInv, vars, storeVars
<1>2. ASSUME NEW q \in Requests,
             Compute(q) \/ Observe(q) \/ Retire(q) \/ Prove(q)
               \/ Answer(q) \/ Probe(q) \/ Login(q) \/ CreateSpace(q) \/ SetHome(q)
      PROVE  IInv'
  <2>1. q \in Observers
    BY DEF Observers
  <2> QED BY <1>2, <2>1, InvObserver, InvRequest
<1>3. CASE SupervisorStep
  <2>1. Supervisor \in Observers
    BY DEF Observers
  <2> QED BY <1>3, <2>1, InvObserver, InvSupervisor DEF SupervisorStep
<1> QED BY <1>1, <1>2, <1>3, InvStart, InvSupervisor DEF Next

------------------------------------------------------------------------------
(* The theorems. *)

\* The invariant holds in every reachable state.
THEOREM Invariance == Spec => []IInv
<1>1. Init => IInv
  BY InvInit
<1>2. IInv /\ [Next]_vars => IInv'
  BY InvStep
<1> QED BY <1>1, <1>2, PTL DEF Spec

\* However many see a loss and whenever the process starts again: an instance
\* counts as installed only by a record of the live configuration and release
\* written since the last regression, and a generation is retired only with a
\* proof to retire.
THEOREM ProofsStand == Spec => []ProofStands
<1>1. IInv => ProofStands
  <2> SUFFICES ASSUME IInv PROVE ProofStands
    OBVIOUS
  <2>1. TypeOK
    BY DEF IInv, FactsTyped, ObserversTyped, RecordsTell, OneTaskPerName, TypeOK
  <2>2. ProofIsCurrent
    BY DEF IInv, RecordsTell, ProofIsCurrent, Installed, Validated
  <2> QED BY <2>1, <2>2 DEF IInv, RecordsTell, ProofStands
<1> QED BY <1>1, Invariance, PTL

\* No resident ever runs twice at a time, however its tasks end or survive.
THEOREM NoDuplicates == Spec => []NoDuplicateResident
<1>1. IInv => NoDuplicateResident
  <2> SUFFICES ASSUME IInv, NEW n \in Names
               PROVE  Cardinality({t \in Tasks : life[n][t] \in Alive}) <= 1
    BY DEF NoDuplicateResident
  <2>1. {t \in Tasks : life[n][t] \in Alive} \in SUBSET {running[n]}
    BY DEF IInv, OneTaskPerName
  <2>2. IsFiniteSet({running[n]}) /\ Cardinality({running[n]}) = 1
    BY FS_Singleton
  <2> QED BY <2>1, <2>2, FS_Subset
<1> QED BY <1>1, Invariance, PTL
=============================================================================
