------------------------------ MODULE Residents ------------------------------
(***************************************************************************)
(* The supervisor of the background work (install/residents.py, main.py):  *)
(* it starts every resident while the install gate holds, stops them when  *)
(* it does not, and asks again every few seconds.                          *)
(*                                                                         *)
(* A resident is stopped by its event, then by cancellation; a task that   *)
(* survives both stays supervised.  The supervisor's map holds the task it *)
(* started last under a name; `life` has every task of the process, in the *)
(* map or not.                                                             *)
(***************************************************************************)
EXTENDS Naturals, FiniteSets

CONSTANTS OneShots, LongRunning

ASSUME ResidentAssumption == OneShots \cap LongRunning = {}

Names == OneShots \cup LongRunning
Tasks == 1 .. 2        \* a name's first task, and one that would be a duplicate

VARIABLES
    life,     \* life[n][t]: no task, working, told to stop, ended cleanly or not
    running,  \* running[n]: the task the supervisor has under that name, or 0
    finished  \* one-shots whose clean end has been seen

residentVars == <<life, running, finished>>

Alive == {"work", "told"}
Ended == {"clean", "failed"}
NoTask == [n \in Names |-> [t \in Tasks |-> "none"]]

ResidentsTypeOK ==
    /\ life \in [Names -> [Tasks -> Alive \cup Ended \cup {"none"}]]
    /\ running \in [Names -> Tasks \cup {0}]
    /\ finished \subseteq OneShots
    /\ \A n \in Names : running[n] # 0 => life[n][running[n]] # "none"

\* The process starts: no task of an earlier one is left.
ResidentsInit ==
    /\ life = NoTask
    /\ running = [n \in Names |-> 0]
    /\ finished = {}

Shutdown ==
    /\ life' = NoTask
    /\ running' = [n \in Names |-> 0]
    /\ finished' = {}

------------------------------------------------------------------------------
Life(n) == IF running[n] = 0 THEN "none" ELSE life[n][running[n]]

\* _reap: what has ended leaves the map; a one-shot that ended cleanly is done.
Reaped == {n \in Names : Life(n) \in Ended}
FinishedNow == finished \cup {n \in OneShots : Life(n) = "clean"}
Kept == {n \in Names : Life(n) \in Alive}

Without(n) == [life[n] EXCEPT ![running[n]] = "none"]
FreeTask(n) == CHOOSE t \in Tasks : life[n][t] \notin Alive

Started(missing) ==
    /\ running' = [n \in Names |-> IF n \in missing THEN FreeTask(n)
                                   ELSE IF n \in Reaped THEN 0 ELSE running[n]]
    /\ life' = [n \in Names |->
                  LET left == IF n \in Reaped THEN Without(n) ELSE life[n]
                  IN  IF n \in missing THEN [left EXCEPT ![FreeTask(n)] = "work"] ELSE left]

\* Mutant: an empty map is what restarts.
StartMissingWhenEmpty ==
    Started(IF Kept = {} THEN Names \ FinishedNow ELSE {})

\* _start_missing.
StartMissing == Started(Names \ (Kept \cup FinishedNow))

\* Mutant: a task that survives its cancellation is let out of the map.
StopAllAbandoning(survivors) ==
    /\ survivors \subseteq Kept
    /\ running' = [n \in Names |-> 0]
    /\ life' = [n \in Names |->
                  IF n \in survivors THEN [life[n] EXCEPT ![running[n]] = "told"]
                  ELSE IF running[n] # 0 THEN Without(n) ELSE life[n]]

\* _stop_all of a gate that closed: every task is told, one deadline, then
\* cancelled; who is done leaves the map, whatever the way it ended.
StopAll(survivors) ==
    /\ survivors \subseteq Kept
    /\ running' = [n \in Names |-> IF n \in survivors THEN running[n] ELSE 0]
    /\ life' = [n \in Names |->
                  IF n \in survivors THEN [life[n] EXCEPT ![running[n]] = "told"]
                  ELSE IF running[n] # 0 THEN Without(n) ELSE life[n]]

\* One turn of the supervisor's loop, with the checkpoint's answer.
Supervise(holds, survivors) ==
    /\ finished' = FinishedNow
    /\ IF holds THEN survivors = {} /\ StartMissing ELSE StopAll(survivors)

\* A task ends: a one-shot that is through, a resident that fails or returns
\* though nobody told it, a survivor that unwinds at last.  How a long-running
\* one ends is all the same to the supervisor.
TaskEnds(n, t, how) ==
    /\ life[n][t] \in Alive
    /\ how \in (IF n \in OneShots THEN Ended ELSE {"failed"})
    /\ life' = [life EXCEPT ![n][t] = how]
    /\ UNCHANGED <<running, finished>>

------------------------------------------------------------------------------
\* A resident never runs twice at a time: while a task that survived its
\* cancellation lives, no other is started in its place.
NoDuplicateResident ==
    \A n \in Names : Cardinality({t \in Tasks : life[n][t] \in Alive}) <= 1
=============================================================================
