------------------------------- MODULE Install -------------------------------
(***************************************************************************)
(* The install gate (install/state.py, gate.py, apply.py; bootstrap.py,    *)
(* main.py, mcp/server.py and web/routes.py where they use it): whether    *)
(* the instance is installed is computed from facts, at every request.     *)
(*                                                                         *)
(* Stages 1-4 admit requests.  Stage 5 asks for a completion record of the *)
(* current generation, configuration and release, which a `conventions`    *)
(* call writes.  Whoever sees a fact lost retires the generation, so that  *)
(* the fact's return does not bring the old proof back.                    *)
(*                                                                         *)
(* compute_state is one read here, though it is one query per fact.        *)
(***************************************************************************)
EXTENDS Residents

CONSTANTS
    Spaces, Configs, Releases, Requests,
    MaxBoots,  \* bound: starts of the process
    MaxMoves,  \* bound: changes nobody in this module makes
    MaxProofs, \* bound: completion records
    MaxFaults  \* bound: checkpoints and starts that the database failed

Supervisor == "supervisor"
Missing == "missing"   \* no space, configuration or release

ASSUME InstallAssumption ==
    /\ {MaxBoots, MaxMoves, MaxProofs, MaxFaults} \subseteq Nat
    /\ Supervisor \notin Requests
    /\ Missing \notin Spaces \cup Configs \cup Releases

Observers == Requests \cup {Supervisor}
Outside == {"schema", "owner", "personal"}
Docs == 1 .. MaxBoots  \* the conventions Documents ever created

VARIABLES
    \* the process: stage of its start, configuration, release built into it
    up, config, executing, readPending,
    \* facts: those of Outside that hold; the spaces that exist and those the
    \* owner is a member of; the recorded home; the conventions Documents
    held, spaces, members, home, docs,
    \* install_settings, completion records and regression events; history: the
    \* last event was recorded while the structure was broken
    active, pending, generation, records, events, lossSeen,
    \* requests and the supervisor: their place, what they saw and were told
    pc, broken, seen, verdict,
    boots, moves, faults

processVars == <<up, config, executing, readPending>>
factVars == <<held, spaces, members, home, docs>>
storeVars == <<active, pending, generation, records, events, lossSeen>>
observerVars == <<pc, broken, seen, verdict>>
boundVars == <<boots, moves, faults>>
vars == <<processVars, factVars, storeVars, observerVars, boundVars, residentVars>>

Doc == [space : Spaces, status : {"current", "retired", "deleted"}]
NoDoc == [status |-> "none"]
Record == [generation : 1 .. MaxProofs + 1, config : Configs, release : Releases,
           after : 0 .. MaxProofs, admitted : 0 .. MaxProofs]

Init ==
    /\ up = "down" /\ config = Missing /\ executing = Missing /\ readPending = Missing
    /\ held = {"schema"} /\ spaces = {} /\ members = {} /\ home = Missing
    /\ docs = [d \in Docs |-> NoDoc]
    /\ active = Missing /\ pending = Missing
    /\ generation = 1 /\ records = {} /\ events = 0 /\ lossSeen = FALSE
    /\ pc = [o \in Observers |-> "idle"]
    /\ broken = [o \in Observers |-> FALSE]
    /\ seen = [o \in Observers |-> 0]
    /\ verdict = [o \in Observers |-> FALSE]
    /\ boots = 0 /\ moves = 0 /\ faults = 0
    /\ ResidentsInit

------------------------------------------------------------------------------
(* The stages.                                                              *)

\* routing_home_problem: the space exists and the owner is its member.
RoutingHome(s) == s \in spaces /\ s \in members

\* qualifying_projection_space.
Projected(s) == s \in members /\ \E d \in Docs : docs[d] = [space |-> s, status |-> "current"]

SeedHolds == "personal" \in held /\ RoutingHome(home) /\ Projected(home)

ServingOpen == {"schema", "owner"} \subseteq held /\ config # Missing /\ SeedHolds

Proven(g) == \E r \in records : r.generation = g
ProvenHere(g) == \E r \in records : r.generation = g /\ r.config = config

\* _stage_validated.
Validated ==
    /\ config # Missing /\ executing # Missing
    /\ pending \in {Missing, executing} /\ active = executing
    /\ \E r \in records : /\ r.generation = generation
                          /\ r.config = config /\ r.release = executing

Installed == ServingOpen /\ Validated

\* observe_regression: is there a proof to retire, for an observer that found
\* the structure broken or the configuration unproven?
Regressed(brk) ==
    /\ Proven(generation)
    /\ brk \/ (config # Missing /\ ~ProvenHere(generation))

\* Mutant: the row is locked and advanced, and not read again.
AdvanceBlindly(g) ==
    /\ generation' = generation + 1
    /\ events' = events + 1
    /\ lossSeen' = ~ServingOpen

\* Under the row's lock: still the generation that was seen, and still proven?
Advance(g) ==
    /\ IF g = generation /\ Proven(g)
       THEN /\ generation' = generation + 1 /\ events' = events + 1
            /\ lossSeen' = ~ServingOpen
       ELSE UNCHANGED <<generation, events, lossSeen>>

------------------------------------------------------------------------------
(* Start of the process, and the release of it.                             *)

\* The container starts, after a stop or a crash: what ran before is gone.
Boot(c, r) ==
    /\ boots < MaxBoots /\ boots' = boots + 1
    /\ up' = "reconcile" /\ config' = c /\ executing' = r /\ readPending' = Missing
    /\ pc' = [o \in Observers |-> "idle"]
    /\ verdict' = [o \in Observers |-> FALSE]
    /\ broken' = [o \in Observers |-> FALSE]
    /\ seen' = [o \in Observers |-> 0]
    /\ Shutdown
    /\ UNCHANGED <<factVars, storeVars, moves, faults>>

\* apply._record, from a container of its own.
RecordTarget(r) ==
    /\ moves < MaxMoves /\ moves' = moves + 1
    /\ pending' = r
    /\ UNCHANGED <<processVars, factVars, active, generation, records, events, lossSeen,
                   observerVars, boots, faults, residentVars>>

\* reconcile_release reads the target; a first start takes the code it runs.
ReadTarget ==
    /\ up = "reconcile"
    /\ up' = "promote"
    /\ readPending' = IF pending = Missing /\ active = Missing THEN executing ELSE pending
    /\ UNCHANGED <<config, executing, factVars, storeVars, observerVars, boundVars,
                   residentVars>>

\* The target it has read becomes the active release if that is what runs.
Promoted == readPending # Missing /\ readPending = executing

\* The comparison, and the start's own observation, in one transaction.
Reconcile ==
    /\ up = "promote"
    /\ up' = "seed" /\ readPending' = Missing
    /\ active' = IF Promoted THEN readPending ELSE active
    /\ pending' = IF Promoted THEN Missing ELSE pending
    /\ IF Regressed(~ServingOpen) THEN Advance(generation)
       ELSE UNCHANGED <<generation, events, lossSeen>>
    /\ UNCHANGED <<config, executing, factVars, records, observerVars, boundVars,
                   residentVars>>

\* The pass is best effort: without its tables, or when the database fails it, all of it
\* is rolled back and the start goes on.
ReconcileFails ==
    /\ up \in {"reconcile", "promote"}
    /\ up' = "seed" /\ readPending' = Missing
    /\ \/ "schema" \notin held /\ UNCHANGED faults
       \/ faults < MaxFaults /\ faults' = faults + 1
    /\ UNCHANGED <<config, executing, factVars, storeVars, observerVars, boots, moves,
                   residentVars>>

\* resolve_conventions_home: the recorded home where it passes, none where
\* projections exist that nobody recorded, else a new space.
LiveDocs == {d \in Docs : docs[d].status \in {"current", "retired"}}
NewHomes ==
    IF home # Missing THEN (IF RoutingHome(home) THEN {home} ELSE {})
    ELSE IF LiveDocs # {} THEN {} ELSE Spaces \ spaces

NextDoc(d) == docs[d] = NoDoc /\ \A e \in Docs : e < d => docs[e] # NoDoc

\* bootstrap: the personal space and its membership, the home, and the
\* projection where there is none in any space.  It fails without its tables.
Bootstrap ==
    /\ up = "seed"
    /\ up' = "up"
    /\ IF "schema" \notin held THEN UNCHANGED factVars
       ELSE /\ held' = held \cup {"personal"}
            /\ IF NewHomes = {} THEN UNCHANGED <<spaces, members, home, docs>>
               ELSE \E s \in NewHomes :
                      /\ home' = s
                      /\ spaces' = spaces \cup {s}
                      /\ members' = members \cup {s}
                      /\ IF LiveDocs # {} THEN UNCHANGED docs
                         ELSE \E d \in Docs :
                                /\ NextDoc(d)
                                /\ docs' = [docs EXCEPT ![d] =
                                              [space |-> s, status |-> "current"]]
    /\ UNCHANGED <<config, executing, readPending, storeVars, observerVars, boundVars,
                   residentVars>>

------------------------------------------------------------------------------
(* Requests.                                                                *)

\* What others do to the facts: the operator at the database or in the feed, a
\* writer who retires the Document, an admin who removes a member.
Move ==
    /\ moves < MaxMoves /\ moves' = moves + 1
    /\ \/ /\ \/ \E f \in held : held' = held \ {f}
             \/ \E f \in {"schema", "personal"} \ held : held' = held \cup {f}
          /\ UNCHANGED <<spaces, members, home, docs>>
       \/ \E s \in members :
             members' = members \ {s} /\ UNCHANGED <<held, spaces, home, docs>>
       \/ \E d \in Docs, st \in {"current", "retired", "deleted"} :
             /\ docs[d] # NoDoc /\ docs[d].status # st
             /\ docs' = [docs EXCEPT ![d].status = st]
             /\ UNCHANGED <<held, spaces, members, home>>
    /\ UNCHANGED <<processVars, storeVars, observerVars, boots, faults, residentVars>>

\* A request or the supervisor's turn begins: compute_state.
Compute(o) ==
    /\ up = "up" /\ pc[o] = "idle"
    /\ broken' = [broken EXCEPT ![o] = ~ServingOpen]
    /\ verdict' = [verdict EXCEPT ![o] = ServingOpen]
    /\ pc' = [pc EXCEPT ![o] = "computed"]
    /\ UNCHANGED <<processVars, factVars, storeVars, seen, boundVars, residentVars>>

\* observe_regression reads the generation and its records.
Observe(o) ==
    /\ pc[o] = "computed"
    /\ pc' = [pc EXCEPT ![o] = IF Regressed(broken[o]) THEN "retiring" ELSE "decided"]
    /\ seen' = [seen EXCEPT ![o] = generation]
    /\ UNCHANGED <<processVars, factVars, storeVars, broken, verdict, boundVars,
                   residentVars>>

\* It locks the row; who has advanced it commits and computes the state anew.
Retire(o) ==
    /\ pc[o] = "retiring"
    /\ Advance(seen[o])
    /\ UNCHANGED <<active, pending, records>>
    /\ verdict' = [verdict EXCEPT ![o] = IF generation' # generation THEN ServingOpen ELSE @]
    /\ pc' = [pc EXCEPT ![o] = "decided"]
    /\ UNCHANGED <<processVars, factVars, broken, seen, boundVars, residentVars>>

\* The handlers.  Login and the pages of spaces are the install surface: they go
\* on whatever the verdict, after the observation.  set_conventions_home takes a space of the owner's, and the one that holds
\* the projection if there is one.
HomeAllowed(s) ==
    RoutingHome(s) /\ ((\E t \in Spaces : Projected(t)) => Projected(s))

Served(q, next, mark) ==
    /\ pc[q] = "decided"
    /\ pc' = [pc EXCEPT ![q] = next]
    /\ seen' = [seen EXCEPT ![q] = mark]
    /\ broken' = [broken EXCEPT ![q] = FALSE]
    /\ verdict' = [verdict EXCEPT ![q] = FALSE]
    /\ UNCHANGED <<processVars, storeVars, boundVars, residentVars>>

\* Refused at the gate, or served by a handler that changes nothing here:
\* the status pages, any other tool, a unit of a resident's work.
Answer(q) == Served(q, "idle", 0) /\ UNCHANGED factVars

\* A `conventions` call of the owner's credential is admitted.
Probe(q) == verdict[q] /\ Served(q, "proving", events) /\ UNCHANGED factVars

\* auth_callback: the owner is bound again.
Login(q) ==
    /\ Served(q, "idle", 0)
    /\ held' = held \cup {"owner"}
    /\ UNCHANGED <<spaces, members, home, docs>>

CreateSpace(q) ==
    /\ Served(q, "idle", 0)
    /\ \E s \in Spaces \ spaces : spaces' = spaces \cup {s} /\ members' = members \cup {s}
    /\ UNCHANGED <<held, home, docs>>

SetHome(q) ==
    /\ Served(q, "idle", 0)
    /\ \E s \in Spaces : HomeAllowed(s) /\ home' = s
    /\ UNCHANGED <<held, spaces, members, docs>>

\* call_tool after a `conventions` call of the owner's: the server writes the
\* record itself, of what holds now; not without an identity of its own.
Prove(q) ==
    /\ pc[q] = "proving"
    /\ pc' = [pc EXCEPT ![q] = "idle"]
    /\ seen' = [seen EXCEPT ![q] = 0]
    /\ IF executing = Missing \/ config = Missing THEN UNCHANGED records
       ELSE /\ Cardinality(records) < MaxProofs
            /\ records' = records \cup
                 {[generation |-> generation, config |-> config, release |-> executing,
                   after |-> events, admitted |-> seen[q]]}
    /\ UNCHANGED <<processVars, factVars, active, pending, generation, events, lossSeen,
                   broken, verdict, boundVars, residentVars>>

\* The supervisor's turn ends: residents start or stop.
Turn(survivors) ==
    /\ pc[Supervisor] = "decided"
    /\ Supervise(verdict[Supervisor], survivors)
    /\ pc' = [pc EXCEPT ![Supervisor] = "idle"]
    /\ seen' = [seen EXCEPT ![Supervisor] = 0]
    /\ broken' = [broken EXCEPT ![Supervisor] = FALSE]
    /\ verdict' = [verdict EXCEPT ![Supervisor] = FALSE]
    /\ UNCHANGED <<processVars, factVars, storeVars, boundVars>>

\* InstallCheckpoint.holds could not answer: that counts as closed.
CheckFails ==
    /\ pc[Supervisor] \in {"computed", "retiring"}
    /\ faults < MaxFaults /\ faults' = faults + 1
    /\ pc' = [pc EXCEPT ![Supervisor] = "decided"]
    /\ verdict' = [verdict EXCEPT ![Supervisor] = FALSE]
    /\ UNCHANGED <<processVars, factVars, storeVars, broken, seen, boots, moves,
                   residentVars>>

ResidentEnds(n, t, how) ==
    /\ TaskEnds(n, t, how)
    /\ UNCHANGED <<processVars, factVars, storeVars, observerVars, boundVars>>

------------------------------------------------------------------------------
SupervisorStep ==
    \/ Compute(Supervisor) \/ Observe(Supervisor) \/ Retire(Supervisor)
    \/ \E survivors \in SUBSET Names : Turn(survivors)

Start == ReadTarget \/ Reconcile \/ ReconcileFails \/ Bootstrap

Next ==
    \/ \E c \in Configs \cup {Missing}, r \in Releases \cup {Missing} : Boot(c, r)
    \/ \E r \in Releases : RecordTarget(r)
    \/ Start
    \/ Move
    \/ \E q \in Requests : Compute(q) \/ Observe(q) \/ Retire(q) \/ Prove(q)
                         \/ Answer(q) \/ Probe(q) \/ Login(q) \/ CreateSpace(q) \/ SetHome(q)
    \/ SupervisorStep
    \/ CheckFails
    \/ \E n \in Names, t \in Tasks, how \in Ended : ResidentEnds(n, t, how)

\* The process starts through and its supervisor loops; a task that has been
\* told ends only if it wants to.
Spec == Init /\ [][Next]_vars /\ WF_vars(Start) /\ WF_vars(SupervisorStep)

------------------------------------------------------------------------------
TypeOK ==
    /\ up \in {"down", "reconcile", "promote", "seed", "up"}
    /\ config \in Configs \cup {Missing}
    /\ {executing, readPending, active, pending} \subseteq Releases \cup {Missing}
    /\ held \subseteq Outside /\ members \subseteq spaces /\ spaces \subseteq Spaces
    /\ home \in spaces \cup {Missing}
    /\ docs \in [Docs -> Doc \cup {NoDoc}]
    /\ generation = events + 1 /\ lossSeen \in BOOLEAN /\ records \subseteq Record
    /\ pc \in [Observers -> {"idle", "computed", "retiring", "decided", "proving"}]
    /\ ResidentsTypeOK

\* models/install.py: records are history, never re-armed.  An instance counts as
\* installed only by a record written since the last regression anybody saw,
\* under the configuration and by the release that are live.
ProofIsCurrent ==
    Installed => \E r \in records : /\ r.after = events
                                    /\ r.config = config /\ r.release = executing

\* observe_regression's lock: a generation is retired once, and only one that had
\* a proof to retire, however many see the same loss.
EventRetiresProof == \A g \in 1 .. generation - 1 : Proven(g)

\* A proof counts while it is current, and is retired when it is not.
ProofStands == TypeOK /\ ProofIsCurrent /\ EventRetiresProof

Working(n) == \E t \in Tasks : life[n][t] = "work"
Living(n) == \E t \in Tasks : life[n][t] \in Alive

\* residents.py: "not started / stopped" is literal.  While the gate stays closed
\* no resident is left that has not been told to stop; while it stays open each
\* long-running one comes back whenever it has ended.
ResidentsFollowGate ==
    /\ <>[](up = "up" /\ ~ServingOpen) => <>[](\A n \in Names : ~Working(n))
    /\ <>[](up = "up" /\ ServingOpen) => \A n \in LongRunning : []<>Living(n)

\* models/install.py: "an exact-value repair still leaves stage 5 unclosed until a
\* new loop-close writes a record for the new generation", a loop-close being a
\* call that was admitted.
\* Refuted, see the README.
RepairNeedsNewProof ==
    Installed /\ lossSeen => \E r \in records : r.admitted = events
=============================================================================
