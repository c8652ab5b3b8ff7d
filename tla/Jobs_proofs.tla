----------------------------- MODULE Jobs_proofs -----------------------------
(***************************************************************************)
(* Theorems about the jobs of the graph: how they fall due and are claimed,*)
(* Scheduler, and what one of them does when it runs, JobRun.  No fact about*)
(* one is used of the other: the machines share the module, not their      *)
(* variables.                                                              *)
(***************************************************************************)
EXTENDS Scheduler, JobRun, FiniteSetTheorems, TLAPS

(***************************************************************************)
(* Scheduler, for any jobs, any number of runners, any lease and any number*)
(* of failing ticks.                                                       *)
(***************************************************************************)

------------------------------------------------------------------------------
(* The inductive invariant. *)

\* The types of what TypeOK leaves out.
SessionsTyped ==
    /\ trigger \in [Jobs -> Triggers] /\ gated \in [Jobs -> Gates]
    /\ todo \in [Runners -> SUBSET Jobs] /\ written \in [Runners -> SUBSET Jobs]
    /\ copies \in [Runners -> [Jobs -> Row]] /\ behind \in [Runners -> SUBSET Jobs]
    /\ ran \in [Runners -> SUBSET (Jobs \X Times)]
    /\ delivered \in [Jobs \X Times -> 0 .. 2]
    /\ overwrote \in BOOLEAN /\ failures \in 0 .. MaxFailures

\* A tick has loaded what was due when it started, and works a job off once.
TickLoadsDue ==
    \A s \in Runners :
        /\ started[s] # Never => started[s] <= now
        /\ todo[s] \cap written[s] = {}
        /\ \A j \in todo[s] : copies[s][j].next <= started[s]

\* A copy is the row, as long as nobody has replaced the row since.
CopyIsCurrent ==
    \A s \in Runners : \A j \in todo[s] \ behind[s] : copies[s][j] = row[j]

\* What a tick has written is later than what it found, and than what it ran;
\* what it ran is what the row still says, unless a write was lost.
WriteMovesOn ==
    \A s \in Runners, j \in Jobs :
        /\ j \in written[s] /\ ~overwrote => row[j].next <= copies[s][j].next
        /\ \A t \in Times : <<j, t>> \in ran[s] =>
              /\ j \in written[s] /\ t < copies[s][j].next
              /\ ~overwrote => row[j].next = t

\* What was delivered lies before the job's next time.
DeliveredIsPast ==
    ~overwrote => \A j \in Jobs, t \in Times :
                     delivered[<<j, t>>] # 0 => delivered[<<j, t>>] = 1 /\ t < row[j].next

SchedulerIInv ==
    /\ TypeOK /\ SessionsTyped
    /\ TickLoadsDue
    /\ CopyIsCurrent
    /\ WriteMovesOn
    /\ DeliveredIsPast

\* For ClaimsEnd, job by job: neither the row nor a copy some session could commit
\* holds a claim, unless the job's advance raises what nobody catches.
NoClaimHeld ==
    \A j \in Jobs : trigger[j] # "overflow" =>
        /\ row[j].claimed = Never
        /\ \A s \in Runners : copies[s][j].claimed = Never

------------------------------------------------------------------------------
(* What _process does with a row. *)

\* _process leaves a row, whose next time is not before the one it found, and
\* after the tick's where the occurrence may have acted; the claim is left only
\* where advance raises what nobody catches.
LEMMA ProcessedRow ==
    ASSUME NEW j \in Jobs, NEW r \in Row, NEW t \in 0 .. MaxTime
    PROVE  /\ Processed(j, r, t) \in Row
           /\ r.next <= t => r.next <= Processed(j, r, t).next
           /\ MayAct(j) => t < Processed(j, r, t).next
           /\ trigger[j] # "overflow" => Processed(j, r, t).claimed = Never
<1> DEFINE claimed == [r EXCEPT !.claimed = t]
<1> USE SchedulerAssumption DEF Row, Times, Never
<1>1. claimed \in Row /\ claimed.next = r.next
  OBVIOUS
<1>2. \A d \in BOOLEAN, n \in Times \cup {Never} :
        /\ Finished(claimed, n, d) \in Row
        /\ Finished(claimed, n, d).next = n
        /\ Finished(claimed, n, d).claimed = Never
  BY <1>1 DEF Finished
<1>3. /\ Advance(j, t).next \in Times \cup {Never} /\ Advance(j, t).disable \in BOOLEAN
      /\ t < Advance(j, t).next
  BY DEF Advance
<1> HIDE DEF claimed
<1>4. CASE JobPredicateFails(j) \/ trigger[j] = "broken"
  <2>1. Processed(j, r, t) = Finished(claimed, Never, TRUE)
    BY <1>4 DEF Processed, claimed
  <2>2. ~MayAct(j)
    BY <1>4 DEF MayAct
  <2>3. /\ Processed(j, r, t) \in Row /\ Processed(j, r, t).next = Never
        /\ Processed(j, r, t).claimed = Never
    BY <1>1, <2>1 DEF Finished
  <2> QED BY <2>2, <2>3
<1>5. CASE ~JobPredicateFails(j) /\ trigger[j] = "overflow"
  <2>1. Processed(j, r, t) = claimed
    BY <1>5 DEF Processed, claimed
  <2> QED BY <1>1, <1>5, <2>1 DEF MayAct
<1>6. CASE ~JobPredicateFails(j) /\ trigger[j] \notin {"broken", "overflow"}
  <2>1. Processed(j, r, t) = Finished(claimed, Advance(j, t).next, Advance(j, t).disable)
    BY <1>6 DEF Processed, claimed
  <2> QED BY <1>2, <1>3, <2>1
<1> QED BY <1>4, <1>5, <1>6

------------------------------------------------------------------------------
(* The invariant holds at the start and is kept. *)

\* The initial state satisfies the invariant.
LEMMA SchedulerInvInit == SchedulerInit => SchedulerIInv
<1> SUFFICES ASSUME SchedulerInit PROVE SchedulerIInv
  OBVIOUS
<1> USE SchedulerAssumption DEF SchedulerInit, Times, Never, NoRow
<1>1. {0, 1} \subseteq Times /\ 0 \in 0 .. MaxTime /\ 0 \in 0 .. MaxFailures
  OBVIOUS
<1>2. NoRow \in Row /\ \A j \in Jobs : row[j] \in Row
  <2>1. NoRow \in Row
    BY DEF Row
  <2>2. ASSUME NEW j \in Jobs PROVE row[j] \in Row
    <3>1. row[j] \in [enabled : {TRUE}, next : {0, 1}, claimed : {Never}]
      OBVIOUS
    <3> QED BY <1>1, <3>1 DEF Row
  <2> QED BY <2>1, <2>2
<1>3. /\ row \in [Jobs -> Row] /\ copies \in [Runners -> [Jobs -> Row]]
      /\ started \in [Runners -> Times \cup {Never}]
  BY <1>2
<1>4. TypeOK
  BY <1>1, <1>3 DEF TypeOK, Loaded
<1>5. SessionsTyped
  <2>1. delivered \in [Jobs \X Times -> 0 .. 2]
    OBVIOUS
  <2>2. ran \in [Runners -> SUBSET (Jobs \X Times)]
    OBVIOUS
  <2> QED BY <1>1, <1>3, <2>1, <2>2 DEF SessionsTyped
<1>6. TickLoadsDue /\ CopyIsCurrent /\ WriteMovesOn /\ DeliveredIsPast
  BY DEF TickLoadsDue, CopyIsCurrent, WriteMovesOn, DeliveredIsPast
<1> QED BY <1>4, <1>5, <1>6 DEF SchedulerIInv

\* The clock moves nothing but itself.
LEMMA InvClock == SchedulerIInv /\ Clock => SchedulerIInv'
<1> SUFFICES ASSUME SchedulerIInv, Clock PROVE SchedulerIInv'
  OBVIOUS
<1> USE SchedulerAssumption DEF SchedulerIInv, Clock, fixedVars, sessionVars, Times, Never
<1>1. TypeOK'
  BY DEF TypeOK, Loaded
<1>2. SessionsTyped'
  BY DEF SessionsTyped
<1>3. TickLoadsDue'
  BY DEF TickLoadsDue, TypeOK
<1>4. CopyIsCurrent' /\ WriteMovesOn' /\ DeliveredIsPast'
  BY DEF CopyIsCurrent, WriteMovesOn, DeliveredIsPast
<1> QED BY <1>1, <1>2, <1>3, <1>4

\* A tick loads what is due now, as it is now.
LEMMA InvStart == ASSUME NEW r \in Runners, SchedulerIInv, BeginTick(r) PROVE SchedulerIInv'
<1> USE SchedulerAssumption DEF SchedulerIInv, BeginTick, Load, fixedVars, Times, Never
<1>1. DueJobs \subseteq Jobs /\ \A j \in DueJobs : row[j].next <= now
  BY DEF DueJobs
<1>2. todo[r] = {} /\ written[r] = {} /\ behind[r] = {} 
  BY DEF TypeOK, Loaded, SessionsTyped
<1>3. \A j \in Jobs : NoRow \in Row /\ copies'[r][j] \in Row
                      /\ (j \in DueJobs => copies'[r][j] = row[j])
  BY DEF SessionsTyped, TypeOK, NoRow, Row
<1>4. SessionsTyped'
  BY <1>1, <1>3 DEF SessionsTyped, TypeOK
<1>5. TypeOK'
  BY <1>1, <1>2, <1>4 DEF TypeOK, SessionsTyped, Loaded
<1>6. TickLoadsDue'
  BY <1>1, <1>2, <1>3 DEF TickLoadsDue, SessionsTyped, TypeOK
<1>7. CopyIsCurrent'
  BY <1>1, <1>3 DEF CopyIsCurrent, SessionsTyped
<1>8. WriteMovesOn' /\ DeliveredIsPast'
  BY <1>1, <1>2, <1>3 DEF WriteMovesOn, DeliveredIsPast, SessionsTyped
<1> QED BY <1>4, <1>5, <1>6, <1>7, <1>8

\* A job worked off: its copy moves on, under the lock of its row.
LEMMA InvProcess ==
    ASSUME NEW r \in Runners, NEW j \in Jobs, NEW acts \in BOOLEAN,
           SchedulerIInv, Process(r, j, acts)
    PROVE  SchedulerIInv'
<1> USE SchedulerAssumption DEF SchedulerIInv
<1>1. /\ started[r] \in 0 .. MaxTime /\ copies[r][j] \in Row
      /\ j \in todo[r] /\ j \notin written[r] /\ copies[r][j].next \in Times
      /\ copies[r][j].next <= started[r]
  <2>1. started[r] # Never /\ started[r] <= now
    BY DEF Process, TypeOK, SessionsTyped, TickLoadsDue, Loaded
  <2>2. started[r] \in 0 .. MaxTime
    BY <2>1 DEF TypeOK, Times, Never
  <2>3. j \in todo[r] /\ j \notin written[r] /\ copies[r][j] \in Row
    BY DEF Process, TickLoadsDue, SessionsTyped
  <2>4. copies[r][j].next <= started[r] /\ copies[r][j].next \in Times
    BY <2>2, <2>3 DEF TickLoadsDue, Row, Times, Never
  <2> QED BY <2>2, <2>3, <2>4
<1> DEFINE new == Processed(j, copies[r][j], started[r])
<1>2. /\ new \in Row /\ copies[r][j].next <= new.next
      /\ acts => started[r] < new.next
  BY <1>1, ProcessedRow DEF Process
<1> HIDE DEF new
<1>3. /\ copies' = [copies EXCEPT ![r][j] = new] /\ copies'[r][j] = new
      /\ \A s \in Runners, k \in Jobs : s # r \/ k # j => copies'[s][k] = copies[s][k]
  BY DEF Process, SessionsTyped, new
<1>4. SessionsTyped'
  <2>1. ran' \in [Runners -> SUBSET (Jobs \X Times)]
    BY <1>1 DEF Process, SessionsTyped
  <2> QED BY <1>2, <1>3, <2>1 DEF Process, SessionsTyped, fixedVars
<1>5. TypeOK'
  <2>1. \A s, t \in Runners : s # t => written'[s] \cap written'[t] = {}
    BY DEF Process, CanWrite, TypeOK, SessionsTyped
  <2>2. \A s \in Runners : Loaded(s)' = Loaded(s)
    BY DEF Process, Loaded, SessionsTyped
  <2> QED BY <1>4, <2>1, <2>2 DEF TypeOK, Process, SessionsTyped
<1>6. TickLoadsDue'
  BY <1>3 DEF TickLoadsDue, Process, SessionsTyped
<1>7. CopyIsCurrent'
  BY <1>3 DEF CopyIsCurrent, Process, SessionsTyped
<1>8. WriteMovesOn'
  <2>1. ~overwrote' => ~overwrote /\ row[j] = copies[r][j]
    BY <1>1 DEF Process, CopyIsCurrent
  <2>2. ASSUME NEW s \in Runners, NEW k \in Jobs, NEW t \in Times, <<k, t>> \in ran'[s]
        PROVE  <<k, t>> \in ran[s] \/ (s = r /\ k = j /\ t = copies[r][j].next /\ acts)
    BY <2>2 DEF Process, SessionsTyped
  <2>3. ASSUME NEW s \in Runners, NEW k \in Jobs, <<s, k>> # <<r, j>>
        PROVE  /\ k \in written'[s] /\ ~overwrote' => row'[k].next <= copies'[s][k].next
               /\ \A t \in Times : <<k, t>> \in ran'[s] =>
                     /\ k \in written'[s] /\ t < copies'[s][k].next
                     /\ ~overwrote' => row'[k].next = t
    BY <1>3, <2>1, <2>2, <2>3 DEF WriteMovesOn, Process, SessionsTyped
  <2>4. ~overwrote' => row'[j].next <= copies'[r][j].next
    BY <1>2, <1>3, <2>1 DEF Process
  <2>5. ASSUME NEW t \in Times, <<j, t>> \in ran'[r]
        PROVE  /\ j \in written'[r] /\ t < copies'[r][j].next
               /\ ~overwrote' => row'[j].next = t
    <3>1. <<j, t>> \notin ran[r]
      BY <1>1 DEF WriteMovesOn
    <3>2. t = copies[r][j].next /\ acts
      BY <2>2, <2>5, <3>1
    <3>3. t < new.next
      BY <1>1, <1>2, <3>2 DEF Row, Times, Never
    <3> QED BY <1>3, <2>1, <3>2, <3>3 DEF Process, SessionsTyped
  <2> QED BY <2>3, <2>4, <2>5 DEF WriteMovesOn
<1>9. DeliveredIsPast'
  BY DEF DeliveredIsPast, Process
<1> QED BY <1>4, <1>5, <1>6, <1>7, <1>8, <1>9

\* A job of a kind this runner leaves alone is let go.
LEMMA InvSkip ==
    ASSUME NEW r \in Runners, NEW j \in Jobs, SchedulerIInv, Skip(r, j) PROVE SchedulerIInv'
<1> USE SchedulerAssumption DEF SchedulerIInv
<1>1. NoRow \in Row
  BY DEF NoRow, Row
<1>2. \A s \in Runners, k \in Jobs : s # r \/ k # j => copies'[s][k] = copies[s][k]
  BY DEF Skip, SessionsTyped
<1>3. SessionsTyped'
  BY <1>1 DEF Skip, SessionsTyped, fixedVars
<1>4. TypeOK'
  BY <1>3 DEF TypeOK, Skip, SessionsTyped, Loaded
<1>5. TickLoadsDue' /\ CopyIsCurrent'
  BY <1>2 DEF TickLoadsDue, CopyIsCurrent, Skip, SessionsTyped
<1>6. WriteMovesOn'
  <2>1. j \notin written[r]
    BY DEF TickLoadsDue, Skip
  <2> QED BY <1>2, <2>1 DEF WriteMovesOn, Skip, SessionsTyped
<1>7. DeliveredIsPast'
  BY DEF DeliveredIsPast, Skip
<1> QED BY <1>3, <1>4, <1>5, <1>6, <1>7

\* The tick's writes and deliveries become visible; the copies others hold of
\* the rows it replaced are behind.
LEMMA InvCommit == ASSUME NEW r \in Runners, SchedulerIInv, CommitTick(r) PROVE SchedulerIInv'
<1> USE SchedulerAssumption DEF SchedulerIInv
<1> USE DEF CommitTick, Forget, Outdate
<1>1. NoRow \in Row
  BY DEF NoRow, Row
<1>2. \A j \in Jobs : /\ row'[j] = IF j \in written[r] THEN copies[r][j] ELSE row[j]
                      /\ \A s \in Runners \ {r} : copies'[s][j] = copies[s][j]
  BY DEF SessionsTyped
<1>3. SessionsTyped'
  <2>1. delivered' \in [Jobs \X Times -> 0 .. 2]
    BY DEF SessionsTyped
  <2>2. behind' \in [Runners -> SUBSET Jobs]
    BY DEF SessionsTyped, Loaded
  <2> QED BY <1>1, <2>1, <2>2 DEF SessionsTyped, fixedVars
<1>4. TypeOK'
  <2>1. row' \in [Jobs -> Row]
    BY DEF SessionsTyped, TypeOK
  <2>2. \A s \in Runners : behind'[s] \subseteq Loaded(s)'
    BY DEF SessionsTyped, TypeOK, Loaded
  <2> QED BY <1>3, <2>1, <2>2 DEF TypeOK, SessionsTyped, Loaded
<1>5. TickLoadsDue'
  BY <1>2 DEF TickLoadsDue, SessionsTyped, TypeOK
<1>6. CopyIsCurrent'
  BY <1>2 DEF CopyIsCurrent, SessionsTyped, Loaded
<1>7. WriteMovesOn'
  <2>1. ASSUME NEW s \in Runners, s # r, NEW j \in written[s] PROVE row'[j] = row[j]
    BY <1>2, <2>1 DEF TypeOK, SessionsTyped
  <2>2. written'[r] = {} /\ ran'[r] = {}
    BY DEF SessionsTyped
  <2>3. \A s \in Runners \ {r} : written'[s] = written[s] /\ ran'[s] = ran[s]
    BY DEF SessionsTyped
  <2> SUFFICES ASSUME NEW s \in Runners \ {r}, NEW j \in written[s], j \in Jobs
               PROVE  /\ ~overwrote' => row'[j].next <= copies'[s][j].next
                      /\ \A t \in Times : <<j, t>> \in ran[s] =>
                            t < copies'[s][j].next /\ (~overwrote' => row'[j].next = t)
    BY <2>2, <2>3 DEF WriteMovesOn, SessionsTyped
  <2>4. overwrote' = overwrote /\ copies'[s][j] = copies[s][j] /\ row'[j] = row[j]
    BY <1>2, <2>1
  <2> HIDE DEF CommitTick
  <2> QED BY <2>4 DEF WriteMovesOn
<1>8. DeliveredIsPast'
  <2> SUFFICES ASSUME ~overwrote', NEW j \in Jobs, NEW t \in Times, delivered'[<<j, t>>] # 0
               PROVE  delivered'[<<j, t>>] = 1 /\ t < row'[j].next
    BY DEF DeliveredIsPast
  <2>1. row[j] \in Row /\ copies[r][j] \in Row
    BY DEF TypeOK, SessionsTyped
  <2>2. CASE <<j, t>> \in ran[r]
    <3>1. j \in written[r] /\ t < copies[r][j].next /\ row[j].next = t
      BY <2>2 DEF WriteMovesOn
    <3>2. delivered[<<j, t>>] = 0
      BY <2>1, <3>1 DEF DeliveredIsPast, Row, Times, Never
    <3> QED BY <1>2, <2>2, <3>1, <3>2
  <2>3. CASE <<j, t>> \notin ran[r]
    <3>1. delivered'[<<j, t>>] = delivered[<<j, t>>]
      BY <2>3
    <3>2. delivered[<<j, t>>] = 1 /\ t < row[j].next
      BY <3>1 DEF DeliveredIsPast
    <3>3. j \in written[r] => row[j].next <= copies[r][j].next
      BY DEF WriteMovesOn
    <3> QED BY <1>2, <2>1, <3>1, <3>2, <3>3 DEF Row, Times, Never
  <2> QED BY <2>2, <2>3
<1> QED BY <1>3, <1>4, <1>5, <1>6, <1>7, <1>8

\* Nothing of a tick that is rolled back is left.
LEMMA InvRollback ==
    ASSUME NEW r \in Runners, SchedulerIInv, Rollback(r), failures' \in 0 .. MaxFailures
    PROVE  SchedulerIInv'
<1> USE SchedulerAssumption DEF SchedulerIInv, Rollback, Forget
<1>1. NoRow \in Row
  BY DEF NoRow, Row
<1>2. SessionsTyped'
  BY <1>1 DEF SessionsTyped, fixedVars
<1>3. TypeOK'
  BY <1>2 DEF TypeOK, SessionsTyped, Loaded
<1>4. TickLoadsDue' /\ CopyIsCurrent'
  BY DEF TickLoadsDue, CopyIsCurrent, SessionsTyped, TypeOK
<1>5. WriteMovesOn' /\ DeliveredIsPast'
  BY DEF WriteMovesOn, DeliveredIsPast, SessionsTyped
<1> QED BY <1>2, <1>3, <1>4, <1>5

\* Every step keeps the invariant.
LEMMA SchedulerInvStep == SchedulerIInv /\ [SchedulerNext]_schedulerVars => SchedulerIInv'
<1> SUFFICES ASSUME SchedulerIInv, [SchedulerNext]_schedulerVars PROVE SchedulerIInv'
  OBVIOUS
<1>1. CASE Clock
  BY <1>1, InvClock
<1>2. ASSUME NEW r \in Runners, BeginTick(r) PROVE SchedulerIInv'
  BY <1>2, InvStart
<1>3. ASSUME NEW r \in Runners, NEW j \in Jobs, Skip(r, j) PROVE SchedulerIInv'
  BY <1>3, InvSkip
<1>4. ASSUME NEW r \in Runners, NEW j \in Jobs, NEW acts \in BOOLEAN, Process(r, j, acts)
      PROVE  SchedulerIInv'
  BY <1>4, InvProcess
<1>5. ASSUME NEW r \in Runners, CommitTick(r) PROVE SchedulerIInv'
  BY <1>5, InvCommit
<1>6. ASSUME NEW r \in Runners, FailTick(r) PROVE SchedulerIInv'
  <2>1. Rollback(r) /\ failures' \in 0 .. MaxFailures
    BY <1>6, SchedulerAssumption DEF FailTick, SchedulerIInv, SessionsTyped
  <2> QED BY <2>1, InvRollback
<1>7. ASSUME NEW r \in Runners, BreakDeadlock(r) PROVE SchedulerIInv'
  <2>1. Rollback(r) /\ failures' \in 0 .. MaxFailures
    BY <1>7 DEF BreakDeadlock, SchedulerIInv, SessionsTyped
  <2> QED BY <2>1, InvRollback
<1>8. CASE UNCHANGED schedulerVars
  BY <1>8 DEF schedulerVars, fixedVars, sessionVars, SchedulerIInv, TypeOK, SessionsTyped, TickLoadsDue,
              CopyIsCurrent, WriteMovesOn, DeliveredIsPast, Loaded
<1> QED BY <1>1, <1>2, <1>3, <1>4, <1>5, <1>6, <1>7, <1>8 DEF SchedulerNext

------------------------------------------------------------------------------
(* The theorems. *)

\* The invariant holds in every reachable state.
THEOREM SchedulerInvariance == SchedulerSpec => []SchedulerIInv
<1>1. SchedulerInit => SchedulerIInv
  BY SchedulerInvInit
<1>2. SchedulerIInv /\ [SchedulerNext]_schedulerVars => SchedulerIInv'
  BY SchedulerInvStep
<1> QED BY <1>1, <1>2, PTL DEF SchedulerSpec

\* Rows, sessions and locks keep their types; no two open transactions have
\* written the same row; between ticks a runner's session is empty.
THEOREM TypeCorrect == SchedulerSpec => []TypeOK
<1>1. SchedulerIInv => TypeOK
  BY DEF SchedulerIInv
<1> QED BY <1>1, SchedulerInvariance, PTL

\* An occurrence is delivered at most once, in any interleaving of ticks that
\* commit, fail or deadlock, unless a committed write was lost.
THEOREM OccurrencesOnce == SchedulerSpec => []OccurrenceOnce
<1>1. SchedulerIInv => OccurrenceOnce
  BY SchedulerAssumption DEF SchedulerIInv, SessionsTyped, DeliveredIsPast, OccurrenceOnce
<1> QED BY <1>1, SchedulerInvariance, PTL

\* A tick that commits leaves no claim on such a job and a session holds none.
LEMMA NoClaimStep == SchedulerIInv /\ NoClaimHeld /\ [SchedulerNext]_schedulerVars => NoClaimHeld'
<1> SUFFICES ASSUME SchedulerIInv, NoClaimHeld, [SchedulerNext]_schedulerVars PROVE NoClaimHeld'
  OBVIOUS
<1> USE DEF NoClaimHeld, fixedVars
<1>1. NoRow.claimed = Never
  BY DEF NoRow
<1>2. CASE Clock \/ UNCHANGED schedulerVars
  BY <1>2 DEF Clock, schedulerVars, fixedVars, sessionVars
<1>3. ASSUME NEW r \in Runners, BeginTick(r) PROVE NoClaimHeld'
  BY <1>1, <1>3 DEF BeginTick, Load, SchedulerIInv, SessionsTyped
<1>4. ASSUME NEW r \in Runners, NEW j \in Jobs, Skip(r, j) PROVE NoClaimHeld'
  BY <1>1, <1>4 DEF Skip, SchedulerIInv, SessionsTyped
<1>5. ASSUME NEW r \in Runners, NEW j \in Jobs, NEW acts \in BOOLEAN, Process(r, j, acts)
      PROVE  NoClaimHeld'
  <2>1. started[r] \in 0 .. MaxTime /\ copies[r][j] \in Row
    BY <1>5, SchedulerAssumption
       DEF Process, SchedulerIInv, TypeOK, SessionsTyped, TickLoadsDue, Loaded, Times, Never
  <2>2. trigger[j] # "overflow" => Processed(j, copies[r][j], started[r]).claimed = Never
    BY <2>1, ProcessedRow
  <2> QED BY <1>5, <2>2 DEF Process, SchedulerIInv, SessionsTyped
<1>6. ASSUME NEW r \in Runners, CommitTick(r) PROVE NoClaimHeld'
  BY <1>1, <1>6 DEF CommitTick, Forget, SchedulerIInv, SessionsTyped
<1>7. ASSUME NEW r \in Runners, Rollback(r) PROVE NoClaimHeld'
  BY <1>1, <1>7 DEF Rollback, Forget, SchedulerIInv, SessionsTyped
<1> QED BY <1>2, <1>3, <1>4, <1>5, <1>6, <1>7 DEF SchedulerNext, FailTick, BreakDeadlock

\* Whatever is wrong with a job's data, its row holds no claim after the tick that
\* claimed it; the one trigger left out is the one whose advance raises what
\* _process does not catch, where the claim does stay.
THEOREM ClaimsEndJobByJob == SchedulerSpec => [](\A j \in Jobs : trigger[j] # "overflow" =>
                                                           row[j].claimed = Never)
<1>1. SchedulerInit => NoClaimHeld
  <2> SUFFICES ASSUME SchedulerInit PROVE NoClaimHeld
    OBVIOUS
  <2>1. \A s \in Runners, j \in Jobs : copies[s][j] = NoRow
    BY DEF SchedulerInit
  <2>2. ASSUME NEW j \in Jobs PROVE row[j].claimed = Never
    <3>1. row[j] \in [enabled : {TRUE}, next : {0, 1}, claimed : {Never}]
      BY DEF SchedulerInit
    <3> QED BY <3>1
  <2> QED BY <2>1, <2>2 DEF NoClaimHeld, NoRow
<1>2. SchedulerIInv /\ NoClaimHeld /\ [SchedulerNext]_schedulerVars => NoClaimHeld'
  BY NoClaimStep
<1>3. NoClaimHeld => \A j \in Jobs : trigger[j] # "overflow" => row[j].claimed = Never
  BY DEF NoClaimHeld
<1> QED BY <1>1, <1>2, <1>3, SchedulerInvariance, PTL DEF SchedulerSpec

\* In an instance without such a trigger no committed row ever holds a claim.
THEOREM EveryClaimEnds == ASSUME "overflow" \notin Triggers PROVE SchedulerSpec => []ClaimsEnd
<1>1. SchedulerIInv /\ (\A j \in Jobs : trigger[j] # "overflow" => row[j].claimed = Never)
        => ClaimsEnd
  BY DEF SchedulerIInv, SessionsTyped, ClaimsEnd
<1> QED BY <1>1, SchedulerInvariance, ClaimsEndJobByJob, PTL

(***************************************************************************)
(* JobRun, for any graphs, requests, plans and approvals, and any number of*)
(* occurrences, of edits and of faults.                                    *)
(*                                                                         *)
(* The inductive invariant is the conjunction of eleven parts, stated each *)
(* where it is proved; they meet in IInv at the end.                       *)
(***************************************************************************)

AtWork == {"gathering", "reasoning", "finished"}
Stages == {"idle", "loaded"} \cup AtWork

\* The occurrence and its gather are records; the runner and a user hold a copy each.
Shaped ==
  /\ occ = [stage |-> occ.stage, run |-> occ.run, gather |-> occ.gather, cache |-> occ.cache,
            row |-> occ.row, record |-> occ.record, wrote |-> occ.wrote]
  /\ occ.gather = [step |-> occ.gather.step, todo |-> occ.gather.todo,
                   survey |-> occ.gather.survey, began |-> occ.gather.began,
                   granted |-> occ.gather.granted]
  /\ occ.stage \in Stages
  /\ DOMAIN copy = {"runner", "user"}

------------------------------------------------------------------------------
(* What each step leaves of the occurrence. *)

LEMMA FinishGives ==
  ASSUME NEW run, NEW record, NEW wrote, NEW disable, Finish(run, record, wrote, disable)
  PROVE  /\ occ'.stage = "finished" /\ occ'.run = run /\ occ'.gather = NoGather
         /\ occ'.row = <<FinishedRow(Value(copy["runner"]), disable)>>
         /\ occ'.record = record /\ occ'.wrote = wrote
         /\ DOMAIN copy' = {"runner", "user"} => Shaped'
  BY DEF Finish, Idle, NoGather, Shaped, Stages, AtWork

\* What stays of it while its gather goes on.
SameRun == /\ occ'.run = occ.run /\ occ'.row = occ.row
           /\ occ'.record = occ.record /\ occ'.wrote = occ.wrote

LEMMA GatherStepGives ==
  ASSUME Shaped, GatherStep, ~FinishExecuted(occ.run, Failed("gather"), {})
  PROVE  /\ SameRun /\ Shaped'
         /\ occ'.stage = "gathering" /\ occ'.cache = occ.cache
         /\ occ'.gather.step = occ.gather.step + 1
         /\ occ'.gather.todo \in {{}, {n \in Nodes : Visible(n)}}
         /\ occ'.gather.survey = occ.gather.survey
         /\ occ'.gather.began = occ.gather.began /\ occ'.gather.granted = occ.gather.granted
<1> DEFINE Stepped(left) == [occ EXCEPT !.gather.step = @ + 1, !.gather.todo = left]
<1>1. UNCHANGED copy /\ occ.stage = "gathering"
  BY DEF GatherStep, inGather
<1>2. ASSUME NEW left \in {{}, {n \in Nodes : Visible(n)}}, occ' = Stepped(left)
      PROVE  /\ SameRun /\ Shaped'
             /\ occ'.stage = "gathering" /\ occ'.cache = occ.cache
             /\ occ'.gather.step = occ.gather.step + 1
             /\ occ'.gather.todo = left
             /\ occ'.gather.survey = occ.gather.survey
             /\ occ'.gather.began = occ.gather.began /\ occ'.gather.granted = occ.gather.granted
  BY <1>1, <1>2 DEF Shaped, SameRun
<1>3. \E left \in {{}, {n \in Nodes : Visible(n)}} : occ' = Stepped(left)
  BY DEF GatherStep
<1> QED BY <1>2, <1>3

LEMMA SurveyReadGives ==
  ASSUME Shaped, NEW n \in Nodes, SurveyRead(n), ~FinishExecuted(occ.run, Failed("gather"), {})
  PROVE  /\ SameRun /\ Shaped'
         /\ occ'.stage = "gathering" /\ occ'.cache = CacheAfter(occ.cache, n)
         /\ occ'.gather.step = occ.gather.step
         /\ occ'.gather.todo = occ.gather.todo \ {n}
         /\ occ'.gather.survey = occ.gather.survey \cup {Entry(n, occ.cache)}
         /\ occ'.gather.began = occ.gather.began /\ occ'.gather.granted = occ.gather.granted
<1> DEFINE e == Entry(n, occ.cache)
           c == CacheAfter(occ.cache, n)
<1>1. UNCHANGED copy /\ occ.stage = "gathering"
  BY DEF SurveyRead, inGather
<1>2. occ' = [occ EXCEPT !.gather.todo = @ \ {n}, !.cache = c,
                         !.gather.survey = @ \cup {e}]
  <2>1. [occ EXCEPT !.gather.todo = @ \ {n}, !.cache = CacheAfter(@, n),
                    !.gather.survey = @ \cup {Entry(n, occ.cache)}]
        = [occ EXCEPT !.gather.todo = @ \ {n}, !.cache = c,
                      !.gather.survey = @ \cup {e}]
     BY Zenon
  <2> QED BY <2>1 DEF SurveyRead
<1> HIDE DEF e, c
<1>3. /\ SameRun /\ Shaped'
      /\ occ'.stage = "gathering" /\ occ'.cache = c
      /\ occ'.gather.step = occ.gather.step
      /\ occ'.gather.todo = occ.gather.todo \ {n}
      /\ occ'.gather.survey = occ.gather.survey \cup {e}
      /\ occ'.gather.began = occ.gather.began /\ occ'.gather.granted = occ.gather.granted
  BY <1>1, <1>2 DEF Shaped, SameRun
<1> QED BY <1>3 DEF e, c

LEMMA WriteAckGives ==
  ASSUME Shaped, NEW x \in Acks, NEW claim \in Approvals, WriteAck(x, claim)
  PROVE  /\ SameRun /\ Shaped'
         /\ occ'.stage = occ.stage /\ occ'.cache = occ.cache
         /\ occ'.gather.step = occ.gather.step /\ occ'.gather.todo = occ.gather.todo
         /\ occ'.gather.survey = occ.gather.survey
         /\ occ'.gather.began = occ.gather.began
         /\ occ'.gather.granted = IF claim.judged /\ occ.stage = "gathering"
                                  THEN occ.gather.granted \cup {claim.pins}
                                  ELSE occ.gather.granted
  BY DEF WriteAck, SameRun, Shaped

\* Past its first checks the occurrence works.
Begins ==
  /\ occ'.run = runs' /\ occ'.cache = CacheAtStart
  /\ occ'.stage = IF Decl.tools = <<>> THEN "reasoning" ELSE "gathering"
  /\ occ'.gather.began = [n \in Nodes |-> graph[n].version] /\ occ'.gather.granted = InForce
  /\ occ'.gather.step = occ.gather.step /\ occ'.gather.todo = occ.gather.todo
  /\ occ'.gather.survey = occ.gather.survey
  /\ occ'.row = occ.row /\ occ'.record = occ.record /\ occ'.wrote = occ.wrote
  /\ Shaped'

LEMMA ClaimGives ==
  ASSUME Shaped, Claim
  PROVE  \/ Begins /\ ~PredicateFails(Decl) /\ Decl.agency # "autonomous"
         \/ /\ PredicateFails(Decl)
            /\ Finish(runs', Failed("predicate"), {}, TRUE)
         \/ /\ ~PredicateFails(Decl) /\ Decl.kind = "malformed"
            /\ Finish(runs', Failed("advance"), {}, TRUE)
         \/ FinishExecuted(runs', <<>>, {})
         \/ Decl.agency = "autonomous" /\ FinishExecuted(runs', Failed("agency"), {})
         \/ /\ StepsRefused(Decl) \/ Decl.budget = "malformed"
            /\ FinishExecuted(runs', Failed("gather"), {})
<1> DEFINE claimed == [occ EXCEPT !.run = runs', !.cache = CacheAtStart,
                                  !.stage = IF Decl.tools = <<>> THEN "reasoning" ELSE "gathering",
                                  !.gather.began = [n \in Nodes |-> graph[n].version],
                                  !.gather.granted = InForce]
<1>1. ASSUME occ' = claimed PROVE Begins
  <2> DEFINE c == CacheAtStart
             st == IF Decl.tools = <<>> THEN "reasoning" ELSE "gathering"
             vs == [n \in Nodes |-> graph[n].version]
             f == InForce
  <2>1. st \in Stages
    BY DEF Stages, AtWork
  <2>2. UNCHANGED copy
    BY DEF Claim
  <2>3. occ' = [occ EXCEPT !.run = runs', !.cache = c, !.stage = st,
                           !.gather.began = vs, !.gather.granted = f]
    BY <1>1, Zenon
  <2> HIDE DEF c, st, vs, f
  <2>4. /\ occ'.run = runs' /\ occ'.cache = c /\ occ'.stage = st
        /\ occ'.gather.began = vs /\ occ'.gather.granted = f
        /\ occ'.gather.step = occ.gather.step /\ occ'.gather.todo = occ.gather.todo
        /\ occ'.gather.survey = occ.gather.survey
        /\ occ'.row = occ.row /\ occ'.record = occ.record /\ occ'.wrote = occ.wrote
        /\ Shaped'
    BY <2>1, <2>2, <2>3 DEF Shaped
  <2> QED BY <2>4 DEF Begins, c, st, vs, f
<1> HIDE DEF claimed
<1> QED BY <1>1 DEF Claim, claimed

LEMMA StartTickGives ==
  ASSUME Shaped, StartTick
  PROVE  /\ SameRun /\ Shaped'
         /\ occ'.stage = "loaded" /\ occ'.cache = occ.cache /\ occ'.gather = occ.gather
         /\ copy'["runner"] = job /\ copy'["user"] = copy["user"]
  BY DEF StartTick, SameRun, Shaped, Stages

LEMMA AskReasonerGives ==
  ASSUME Shaped, AskReasoner
  PROVE  /\ SameRun /\ Shaped'
         /\ occ'.stage = "reasoning" /\ occ'.cache = occ.cache /\ occ'.gather = occ.gather
  BY DEF AskReasoner, inGather, SameRun, Shaped, Stages, AtWork

\* The tick ends, with a commit or without.
LEMMA TickEnds ==
  ASSUME Shaped, Commit \/ Crash
  PROVE  /\ Shaped'
         /\ occ'.stage = "idle" /\ occ'.gather = NoGather /\ occ'.row = <<>>
         /\ occ'.record = <<>> /\ occ'.wrote = {}
         /\ copy'["runner"] = <<>> /\ copy'["user"] = copy["user"]
<1>1. occ' = Idle(occ.cache) /\ copy' = [copy EXCEPT !["runner"] = <<>>]
  BY DEF Commit, Crash
<1>2. /\ occ'.stage = "idle" /\ occ'.gather = NoGather /\ occ'.row = <<>>
      /\ occ'.record = <<>> /\ occ'.wrote = {}
  BY <1>1 DEF Idle
<1> QED BY <1>1, <1>2 DEF Shaped, Stages, Idle, NoGather

\* A step of a user other than a judged approval, and one of authoring, leaves it alone.
LEMMA OccUntouched ==
  ASSUME Shaped,
         \/ DryRun \/ (\E stages \in BOOLEAN : Create(stages)) \/ Apply \/ Elapse
         \/ \E n \in Nodes : EditNode(n) \/ \E deleted \in BOOLEAN : Hide(n, deleted)
         \/ \E x \in Acks : WithdrawAck(x)
         \/ ReadJob \/ SetEnabled \/ PatchJob
  PROVE  occ' = occ /\ Shaped' /\ copy'["runner"] = copy["runner"]
  BY DEF DryRun, Create, Apply, Elapse, EditNode, Hide, WithdrawAck, ReadJob, SetEnabled,
         PatchJob, WriteJob, Shaped

------------------------------------------------------------------------------
\* A row is a record, and until someone patches it holds what was asked for.
IsRow(r) == r = [decl |-> r.decl, enabled |-> r.enabled, next |-> r.next]
HoldsRequest(o) ==
  Given(o) => /\ o = <<Value(o)>> /\ IsRow(Value(o))
              /\ excuse = {} => Value(o).decl = request

RowsStand ==
  /\ HoldsRequest(job) /\ HoldsRequest(copy["runner"]) /\ HoldsRequest(copy["user"])
  /\ HoldsRequest(occ.row)
  /\ Given(copy["runner"]) \/ Given(copy["user"]) => Given(job)
  /\ occ.stage # "idle" => Given(copy["runner"])
  /\ occ.stage = "finished" => Given(occ.row)

LEMMA RowsInit == Init => RowsStand
  BY DEF Init, RowsStand, HoldsRequest, Given, Idle

LEMMA RowsStep == Shaped /\ RowsStand /\ [Next]_vars => RowsStand'
<1> SUFFICES ASSUME Shaped, RowsStand, [Next]_vars PROVE RowsStand'
  OBVIOUS
<1> USE DEF Given, Value
<1>1. ASSUME NEW r, IsRow(r), NEW v
      PROVE  /\ IsRow([r EXCEPT !.next = v]) /\ [r EXCEPT !.next = v].decl = r.decl
             /\ IsRow([r EXCEPT !.enabled = v]) /\ [r EXCEPT !.enabled = v].decl = r.decl
             /\ IsRow([r EXCEPT !.decl = v])
  BY <1>1 DEF IsRow
<1>2. ASSUME NEW r, NEW disable, IsRow(r)
      PROVE  IsRow(FinishedRow(r, disable)) /\ FinishedRow(r, disable).decl = r.decl
  BY <1>2 DEF IsRow, FinishedRow
<1>3. ASSUME NEW run, NEW record, NEW wrote, NEW disable, Finish(run, record, wrote, disable),
             UNCHANGED <<asked, job, copy, excuse>>, occ.stage # "idle"
      PROVE  RowsStand'
  <2>1. occ'.row = <<FinishedRow(Value(copy["runner"]), disable)>> /\ occ'.stage = "finished"
    BY <1>3, FinishGives
  <2>2. HoldsRequest(<<FinishedRow(Value(copy["runner"]), disable)>>)
    BY <1>2, <1>3 DEF RowsStand, HoldsRequest
  <2> QED BY <1>3, <2>1, <2>2 DEF RowsStand, HoldsRequest, asked
<1>4. ASSUME SameRun, UNCHANGED <<asked, job, copy, excuse>>, occ.stage # "idle",
             occ'.stage # "finished"
      PROVE  RowsStand'
  BY <1>4 DEF SameRun, RowsStand, HoldsRequest, asked
<1>5. CASE UNCHANGED vars \/ DryRun \/ (\E n \in Nodes : EditNode(n))
           \/ \E x \in Acks : WithdrawAck(x)
  BY <1>5 DEF vars, DryRun, EditNode, WithdrawAck, RowsStand, HoldsRequest, asked
<1>6. ASSUME NEW stages \in BOOLEAN, Create(stages) PROVE RowsStand'
  BY <1>6 DEF Create, NewRow, IsRow, RowsStand, HoldsRequest, asked
<1>7. CASE Apply
  BY <1>7 DEF Apply, NewRow, IsRow, RowsStand, HoldsRequest, asked
<1>8. CASE Elapse
  BY <1>1, <1>8 DEF Elapse, RowsStand, HoldsRequest, asked
<1>9. CASE StartTick
  BY <1>9, StartTickGives DEF StartTick, SameRun, RowsStand, HoldsRequest, asked
<1>10. CASE Claim
  <2>1. occ.stage = "loaded" /\ UNCHANGED <<asked, job, copy, excuse>>
    BY <1>10 DEF Claim
  <2>2. CASE Begins
    BY <1>4, <2>1, <2>2 DEF Begins, SameRun, RowsStand, HoldsRequest, asked
  <2> QED BY <1>3, <1>10, <2>1, <2>2, ClaimGives DEF FinishExecuted
<1>11. CASE GatherStep \/ \E n \in Nodes : SurveyRead(n)
  <2>1. occ.stage = "gathering" /\ UNCHANGED <<asked, job, copy, excuse>>
    BY <1>11 DEF GatherStep, SurveyRead, inGather
  <2>2. CASE FinishExecuted(occ.run, Failed("gather"), {})
    BY <1>3, <2>1, <2>2 DEF FinishExecuted
  <2> QED BY <1>4, <1>11, <2>1, <2>2, GatherStepGives, SurveyReadGives
<1>12. CASE AskReasoner
  BY <1>4, <1>12, AskReasonerGives DEF AskReasoner, inGather
<1>13. CASE (\E stage \in {"reason", "plan"} : BadAnswer(stage))
            \/ \E plan \in Plans : \E failing \in 0 .. Len(Actions(plan)) : Act(plan, failing)
  <2>1. occ.stage = "reasoning" /\ UNCHANGED <<asked, job, copy, excuse>>
    BY <1>13 DEF BadAnswer, Act, inGather
  <2>2. \E run, record, wrote, disable : Finish(run, record, wrote, disable)
    BY <1>13 DEF BadAnswer, Act, FinishExecuted
  <2> QED BY <1>3, <2>1, <2>2
<1>14. CASE Commit \/ Crash
  <2>1. UNCHANGED <<asked, excuse>> /\ job' \in {job, occ.row} /\ (Commit => job' = occ.row)
    BY <1>14 DEF Commit, Crash
  <2>2. Commit => occ.stage = "finished"
    BY DEF Commit
  <2>3. Crash => job' = job
    BY DEF Crash
  <2> QED BY <1>14, <2>1, <2>2, <2>3, TickEnds DEF RowsStand, HoldsRequest, asked
<1>15. ASSUME NEW n \in Nodes, NEW deleted \in BOOLEAN, Hide(n, deleted) PROVE RowsStand'
  BY <1>15 DEF Hide, RowsStand, HoldsRequest, asked
<1>16. ASSUME NEW x \in Acks, NEW claim \in Approvals, WriteAck(x, claim) PROVE RowsStand'
  <2>1. UNCHANGED <<asked, job, copy, excuse>>
    BY <1>16 DEF WriteAck
  <2> QED BY <1>16, <2>1, WriteAckGives DEF SameRun, RowsStand, HoldsRequest, asked
<1>17. CASE ReadJob
  BY <1>17, OccUntouched DEF ReadJob, Shaped, RowsStand, HoldsRequest, asked
<1>18. ASSUME NEW r, NEW why, WriteJob(r, why), IsRow(r),
              why = {} => r.decl = Value(copy["user"]).decl
       PROVE  RowsStand'
  BY <1>18 DEF WriteJob, Shaped, RowsStand, HoldsRequest, asked
<1>19. CASE SetEnabled \/ PatchJob
  <2>1. Given(copy["user"]) => IsRow(Value(copy["user"]))
    BY DEF RowsStand, HoldsRequest
  <2> QED BY <1>1, <1>18, <1>19, <2>1 DEF SetEnabled, PatchJob
<1> QED BY <1>5, <1>6, <1>7, <1>8, <1>9, <1>10, <1>11, <1>12, <1>13, <1>14, <1>15, <1>16,
           <1>17, <1>19 DEF Next, User

------------------------------------------------------------------------------
\* What authoring let in stays what it looked at; only a change on record undoes it.
Accepted == /\ ~NotExecutable(request, FALSE)
            /\ request.kind # "malformed" /\ request.budget # "malformed"

AuthoringStands ==
  /\ request \in Requests
  /\ staged \/ Given(job) => /\ Accepted
                             /\ excuse = {} => \A n \in NodesOf(request) : Visible(n)
  /\ proved => \A k \in DOMAIN request.tools : request.tools[k].args = "ok"

LEMMA AuthoringInit == Init => AuthoringStands
  BY DEF Init, AuthoringStands, Given

\* The occurrence's own writes change versions only.
LEMMA VisibleAfterWork ==
  ASSUME graph \in [Nodes -> NodeRow], Commit \/ (\E n \in Nodes : EditNode(n)), NEW n \in Nodes
  PROVE  Visible(n)' <=> Visible(n)
<1>1. ASSUME NEW r \in NodeRow, NEW v
      PROVE  [r EXCEPT !.version = v].live = r.live /\ [r EXCEPT !.version = v].shown = r.shown
  BY DEF NodeRow
<1>2. CASE Commit
  <2>1. \E v : graph'[n] = [graph[n] EXCEPT !.version = v]
    BY <1>2 DEF Commit
  <2> QED BY <1>1, <2>1 DEF Visible
<1>3. CASE \E m \in Nodes : EditNode(m)
  <2>1. graph'[n] = graph[n] \/ \E v : graph'[n] = [graph[n] EXCEPT !.version = v]
    BY <1>3 DEF EditNode
  <2>2. CASE graph'[n] = graph[n]
    BY <2>2 DEF Visible
  <2>3. ASSUME NEW v, graph'[n] = [graph[n] EXCEPT !.version = v]
        PROVE  Visible(n)' <=> Visible(n)
    BY <1>1, <2>3 DEF Visible
  <2> QED BY <2>1, <2>2, <2>3
<1> QED BY <1>2, <1>3

LEMMA AuthoringStep ==
  graph \in [Nodes -> NodeRow] /\ AuthoringStands /\ Shaped /\ RowsStand /\ [Next]_vars => AuthoringStands'
<1> SUFFICES ASSUME graph \in [Nodes -> NodeRow], AuthoringStands, Shaped, RowsStand, [Next]_vars
             PROVE  AuthoringStands'
  OBVIOUS
<1> USE DEF Given
<1>1. request' = request /\ runtime' = runtime
  BY DEF Next, vars, asked, inGather, DryRun, Create, Apply, Elapse, StartTick, Claim,
       GatherStep,
         SurveyRead, AskReasoner, BadAnswer, Act, Commit, Crash, User, EditNode, Hide,
              WithdrawAck,
         WriteAck, ReadJob, SetEnabled, PatchJob, WriteJob
<1>2. /\ NodesOf(request)' = NodesOf(request) /\ Accepted' = Accepted
  BY <1>1 DEF NodesOf, Accepted, NotExecutable, StepsRefused, PredicateFails
<1>3. NodesOf(request) \subseteq Nodes
  BY DEF NodesOf
<1>4. ASSUME UNCHANGED <<graph, staged, proved>>, job' = <<>> <=> job = <<>>,
             excuse' = {} => excuse = {}
      PROVE  AuthoringStands'
  BY <1>1, <1>2, <1>4 DEF AuthoringStands, Visible
<1>5. CASE DryRun
  BY <1>1, <1>2, <1>5 DEF DryRun, AuthoringStands, Visible
<1>6. ASSUME NEW stages \in BOOLEAN, Create(stages) PROVE AuthoringStands'
  BY <1>1, <1>2, <1>6 DEF Create, AuthoringRefuses, Accepted, AuthoringStands, Visible
<1>7. CASE Apply
  BY <1>1, <1>2, <1>7 DEF Apply, AuthoringStands, Visible
<1>8. CASE Commit \/ \E n \in Nodes : EditNode(n)
  <2>1. UNCHANGED <<staged, proved, excuse>> /\ (job' = <<>> => job = <<>>)
    BY <1>8 DEF Commit, EditNode, RowsStand
  <2>2. job = <<>> => job' = <<>>
    BY <1>8 DEF Commit, EditNode, RowsStand
  <2> QED BY <1>1, <1>2, <1>3, <1>8, <2>1, <2>2, VisibleAfterWork DEF AuthoringStands
<1>9. ASSUME NEW n \in Nodes, NEW deleted \in BOOLEAN, Hide(n, deleted) PROVE AuthoringStands'
  <2>1. \A m \in Nodes : m # n => Visible(m)' = Visible(m)
    BY <1>9 DEF Hide, Visible
  <2>2. UNCHANGED <<staged, job, proved>>
    BY <1>9 DEF Hide
  <2>3. (staged \/ job # <<>>) /\ excuse' = {} => excuse = {} /\ n \notin NodesOf(request)
    BY <1>9 DEF Hide
  <2>4. ASSUME staged' \/ job' # <<>>, excuse' = {}, NEW m \in NodesOf(request)
        PROVE  Visible(m)'
    BY <1>3, <2>1, <2>2, <2>3, <2>4 DEF AuthoringStands
  <2> QED BY <1>1, <1>2, <2>2, <2>3, <2>4 DEF AuthoringStands
<1>10. CASE UNCHANGED vars \/ Elapse \/ StartTick \/ Claim \/ GatherStep
            \/ (\E n \in Nodes : SurveyRead(n)) \/ AskReasoner
            \/ (\E stage \in {"reason", "plan"} : BadAnswer(stage))
            \/ (\E plan \in Plans : \E failing \in 0 .. Len(Actions(plan)) : Act(plan, failing))
            \/ Crash
  <2>1. UNCHANGED <<graph, staged, proved, excuse>>
    BY <1>10 DEF vars, Elapse, StartTick, Claim, GatherStep, SurveyRead, AskReasoner,
           BadAnswer, Act, Crash, inGather
  <2>2. job' = job \/ Elapse
    BY <1>10 DEF vars, StartTick, Claim, GatherStep, SurveyRead, AskReasoner,
           BadAnswer, Act, Crash, inGather
  <2>3. Elapse => job # <<>> /\ job' # <<>>
    BY DEF Elapse
  <2> QED BY <1>4, <2>1, <2>2, <2>3
<1>11. CASE (\E x \in Acks : WithdrawAck(x) \/ \E claim \in Approvals : WriteAck(x, claim))
            \/ ReadJob \/ SetEnabled \/ PatchJob
  <2>1. UNCHANGED <<graph, staged, proved>> /\ (excuse' = {} => excuse = {})
    BY <1>11 DEF WithdrawAck, WriteAck, ReadJob, SetEnabled, PatchJob, WriteJob
  <2>2. job' = job \/ (job' # <<>> /\ copy["user"] # <<>>)
    <3>1. ASSUME NEW r, NEW why, WriteJob(r, why) PROVE job' # <<>> /\ copy["user"] # <<>>
      BY <3>1 DEF WriteJob
    <3> QED BY <1>11, <3>1 DEF WithdrawAck, WriteAck, ReadJob, SetEnabled, PatchJob
  <2> QED BY <1>4, <2>1, <2>2 DEF RowsStand
<1> QED BY <1>5, <1>6, <1>7, <1>8, <1>9, <1>10, <1>11 DEF Next, User

------------------------------------------------------------------------------
(* What an occurrence leaves. *)

Left(S) == {<<e.action, e.op>> : e \in S}
Listed(record) == IF Given(record) THEN Value(record).actions ELSE {}

\* Of one occurrence, and in the fence it was judged by.
Fits(e, run) ==
  /\ e.run = run
  /\ e.op \in {"create", "update"} => e.type \in e.fence /\ e.origin = "target"

LEMMA ActionsAreFinite ==
  ASSUME NEW plan \in Plans PROVE IsFiniteSet(DOMAIN Actions(plan))
<1> DEFINE S == {plan.writes[k] : k \in DOMAIN plan.writes}
           T == S \cup {Delivery("deliver"), Delivery("elicit")}
<1>1. plan.writes \in Seq(S)
  BY JobRunAssumption
<1>2. plan.writes \in Seq(T)
  BY <1>1
<1>3. \A x \in T : <<x>> \in Seq(T)
  OBVIOUS
<1>4. Delivery("deliver") \in T /\ Delivery("elicit") \in T /\ <<>> \in Seq(T)
  OBVIOUS
<1> HIDE DEF S, T
<1>5. Actions(plan) \in Seq(T)
  BY <1>2, <1>3, <1>4 DEF Actions
<1>6. DOMAIN Actions(plan) = 1 .. Len(Actions(plan)) /\ Len(Actions(plan)) \in Nat
  BY <1>5
<1> QED BY <1>6, FS_Interval

\* The reasoner's answer, carried out, refused or failed.
LEMMA ActGives ==
  ASSUME NEW plan \in Plans, NEW failing, Act(plan, failing)
  PROVE  \E record, wrote :
           /\ FinishExecuted(occ.run, record, wrote)
           /\ \A e \in wrote : Fits(e, occ.run)
           /\ IsFiniteSet(wrote)
           /\ Left(wrote) = Listed(record)
           /\ \/ Value(record).stage \in {"fence", "done", "act"}
              \/ Value(record).stage = "delivery" /\ Decl.delivery = "malformed"
<1> DEFINE acts == Actions(plan)
           refused == RefusedAt(acts)
           Written(S) == {Effect(occ.run, k, acts[k], Decl.writes.types) : k \in S}
<1>1. Left({}) = {} /\ IsFiniteSet({})
  BY FS_EmptySet DEF Left
<1>2. ASSUME NEW stage PROVE Listed(Failed(stage)) = {} /\ Value(Failed(stage)).stage = stage
  BY DEF Listed, Failed, Given, Value
<1>3. refused \in {"none", "fence"} \/ (refused = "delivery" /\ Decl.delivery = "malformed")
  BY DEF RefusedAt
<1>4. CASE refused # "none" /\ FinishExecuted(occ.run, Failed(refused), {})
  BY <1>1, <1>2, <1>3, <1>4
<1>5. CASE refused = "none" /\ FinishExecuted(occ.run, Failed("act"), LeftBy(Written(1 .. failing - 1), TRUE))
  BY <1>1, <1>2, <1>5 DEF LeftBy
<1>6. CASE /\ refused = "none"
           /\ FinishExecuted(occ.run,
                 <<[stage |-> "done", actions |-> {<<k, acts[k].op>> : k \in DOMAIN acts}]>>,
                 LeftBy(Written(DOMAIN acts), FALSE))
  <2> DEFINE record == <<[stage |-> "done", actions |-> {<<k, acts[k].op>> : k \in DOMAIN acts}]>>
             wrote == Written(DOMAIN acts)
             effect == [k \in DOMAIN acts |-> Effect(occ.run, k, acts[k], Decl.writes.types)]
  <2>1. IsFiniteSet(wrote)
    <3>1. effect \in Surjection(DOMAIN acts, wrote)
      BY DEF Surjection
    <3> QED BY <3>1, ActionsAreFinite, FS_Surjection
  <2>2. ASSUME NEW k \in DOMAIN acts PROVE Fits(Effect(occ.run, k, acts[k], Decl.writes.types), occ.run)
    BY <1>6 DEF Fits, Effect, RefusedAt, OutsideFence
  <2>3. Left(wrote) = Listed(record)
    <3>1. Listed(record) = {<<k, acts[k].op>> : k \in DOMAIN acts}
      BY DEF Listed, Given, Value
    <3>2. \A k \in DOMAIN acts : effect[k].action = k /\ effect[k].op = acts[k].op
      BY DEF Effect
    <3>3. wrote = {effect[k] : k \in DOMAIN acts}
      OBVIOUS
    <3> HIDE DEF effect, record, wrote, acts
    <3>4. Left(wrote) = {<<effect[k].action, effect[k].op>> : k \in DOMAIN acts}
      BY <3>3 DEF Left
    <3> QED BY <3>1, <3>2, <3>4
  <2>4. Value(record).stage = "done"
    BY DEF Value
  <2>5. FinishExecuted(occ.run, record, wrote)
    BY <1>6 DEF LeftBy
  <2> HIDE DEF record
  <2>6. \A e \in wrote : Fits(e, occ.run)
    BY <2>2
  <2> HIDE DEF wrote
  <2> QED BY <2>1, <2>3, <2>4, <2>5, <2>6
<1> HIDE DEF acts, refused
<1> QED BY <1>4, <1>5, <1>6 DEF Act, acts, refused

------------------------------------------------------------------------------
\* Every occurrence has a number of its own; what it leaves waits for its commit.
RunsStand ==
  /\ runs \in Nat /\ runs <= MaxRuns
  /\ DOMAIN records = 1 .. MaxRuns
  /\ occ.stage = "loaded" => runs < MaxRuns
  /\ occ.stage \in AtWork => occ.run = runs /\ runs > 0 /\ records[runs] = <<>>
                             /\ \A e \in effects : e.run # runs
  /\ \A e \in effects : Fits(e, e.run) /\ e.run \in 1 .. runs
  /\ \A k \in 1 .. MaxRuns : k > runs => records[k] = <<>>
  /\ occ.stage # "finished" => occ.wrote = {} /\ occ.record = <<>>
  /\ \A e \in occ.wrote : Fits(e, occ.run)
  /\ Left(occ.wrote) = Listed(occ.record)
  /\ IsFiniteSet(occ.wrote)

LEMMA RunsInit == Init => RunsStand
<1>1. Left({}) = {} /\ IsFiniteSet({})
  BY FS_EmptySet DEF Left
<1> QED BY <1>1, JobRunAssumption DEF Init, RunsStand, Idle, AtWork, Listed, Given

LEMMA RunsStep == Shaped /\ RunsStand /\ [Next]_vars => RunsStand'
<1> SUFFICES ASSUME Shaped, RunsStand, [Next]_vars PROVE RunsStand'
  OBVIOUS
<1>0. MaxRuns \in Nat /\ Left({}) = {} /\ IsFiniteSet({}) /\ Listed(<<>>) = {}
      /\ (\A stage : Listed(Failed(stage)) = {})
  BY JobRunAssumption, FS_EmptySet DEF Left, Listed, Given, Value, Failed
<1>1. ASSUME occ' = occ, UNCHANGED <<runs, records, effects>> PROVE RunsStand'
  BY <1>1 DEF RunsStand
<1>2. ASSUME SameRun, UNCHANGED <<runs, records, effects>>,
             occ'.stage = occ.stage \/ (occ.stage = "gathering" /\ occ'.stage = "reasoning")
      PROVE  RunsStand'
  BY <1>2 DEF SameRun, RunsStand, AtWork
<1>3. ASSUME NEW record, NEW wrote, NEW disable, Finish(occ.run, record, wrote, disable),
             UNCHANGED <<runs, records, effects>>, occ.stage \in {"gathering", "reasoning"},
             \A e \in wrote : Fits(e, occ.run), IsFiniteSet(wrote), Left(wrote) = Listed(record)
      PROVE  RunsStand'
  <2>1. occ'.run = occ.run /\ occ'.record = record /\ occ'.wrote = wrote /\ occ'.stage = "finished"
    BY <1>3, FinishGives
  <2> QED BY <1>3, <2>1 DEF RunsStand, AtWork
<1>4. CASE UNCHANGED vars \/ DryRun \/ (\E stages \in BOOLEAN : Create(stages)) \/ Apply \/ Elapse
           \/ (\E n \in Nodes : EditNode(n) \/ \E deleted \in BOOLEAN : Hide(n, deleted))
           \/ (\E x \in Acks : WithdrawAck(x))
           \/ ReadJob \/ SetEnabled \/ PatchJob
  BY <1>1, <1>4 DEF vars, counts, DryRun, Create, Apply, Elapse, EditNode, Hide, WithdrawAck,
       Edit,
     ReadJob, SetEnabled, PatchJob, WriteJob
<1>5. CASE StartTick
  BY <1>5, StartTickGives DEF StartTick, counts, SameRun, RunsStand, AtWork
<1>6. CASE Claim
  <2>1. runs' = runs + 1 /\ occ.stage = "loaded" /\ UNCHANGED <<records, effects>>
    BY <1>6 DEF Claim
  <2>2. /\ runs' \in 1 .. MaxRuns /\ records'[runs'] = <<>>
        /\ \A e \in effects' : Fits(e, e.run) /\ e.run \in 1 .. runs' /\ e.run # runs'
        /\ \A k \in 1 .. MaxRuns : k > runs' => records'[k] = <<>>
        /\ DOMAIN records' = 1 .. MaxRuns
    BY <1>0, <2>1 DEF RunsStand
  <2>3. ASSUME occ'.run = runs', occ'.wrote = {}, Listed(occ'.record) = {},
               occ'.stage \in AtWork, occ'.stage # "finished" => occ'.record = <<>>
        PROVE  RunsStand'
    BY <1>0, <2>2, <2>3 DEF RunsStand, AtWork
  <2>4. ASSUME NEW record, NEW disable, Finish(runs', record, {}, disable), Listed(record) = {}
        PROVE  RunsStand'
    BY <2>3, <2>4, FinishGives DEF AtWork
  <2>5. CASE Begins
    BY <1>0, <2>1, <2>3, <2>5 DEF Begins, RunsStand, AtWork
  <2> QED BY <1>0, <1>6, <2>4, <2>5, ClaimGives DEF FinishExecuted
<1>7. CASE GatherStep \/ \E n \in Nodes : SurveyRead(n)
  <2>1. occ.stage = "gathering" /\ UNCHANGED <<runs, records, effects>>
    BY <1>7 DEF GatherStep, SurveyRead, inGather, counts
  <2>2. CASE FinishExecuted(occ.run, Failed("gather"), {})
    BY <1>0, <1>3, <2>1, <2>2 DEF FinishExecuted
  <2> QED BY <1>2, <1>7, <2>1, <2>2, GatherStepGives, SurveyReadGives
<1>8. CASE AskReasoner
  BY <1>2, <1>8, AskReasonerGives DEF AskReasoner, inGather, counts
<1>9. ASSUME NEW stage \in {"reason", "plan"}, BadAnswer(stage) PROVE RunsStand'
  BY <1>0, <1>3, <1>9 DEF BadAnswer, FinishExecuted, inGather, counts
<1>10. ASSUME NEW plan \in Plans, NEW failing \in 0 .. Len(Actions(plan)), Act(plan, failing)
       PROVE  RunsStand'
  <2>1. occ.stage = "reasoning" /\ UNCHANGED <<runs, records, effects>>
    BY <1>10 DEF Act
  <2> QED BY <1>3, <1>10, <2>1, ActGives DEF FinishExecuted
<1>11. CASE Commit
  <2>1. /\ occ.stage = "finished" /\ UNCHANGED runs
        /\ records' = [records EXCEPT ![occ.run] = occ.record]
        /\ effects' = effects \cup occ.wrote
    BY <1>11 DEF Commit, counts
  <2>2. occ'.stage = "idle" /\ occ'.record = <<>> /\ occ'.wrote = {}
    BY <1>11, TickEnds
  <2>3. \A e \in occ.wrote : Fits(e, e.run) /\ e.run = runs
    BY <2>1 DEF RunsStand, AtWork, Fits
  <2>4. /\ runs \in Nat /\ runs > 0 /\ runs <= MaxRuns /\ occ.run = runs
        /\ DOMAIN records' = 1 .. MaxRuns
        /\ \A k \in 1 .. MaxRuns : k > runs => records'[k] = <<>>
    BY <1>0, <2>1 DEF RunsStand, AtWork
  <2>5. \A e \in effects' : Fits(e, e.run) /\ e.run \in 1 .. runs
    BY <2>1, <2>3, <2>4 DEF RunsStand
  <2> QED BY <1>0, <2>1, <2>2, <2>4, <2>5 DEF RunsStand, AtWork
<1>12. CASE Crash
  <2>1. UNCHANGED <<runs, records, effects>>
    BY <1>12 DEF Crash
  <2> QED BY <1>0, <1>12, <2>1, TickEnds DEF RunsStand, AtWork
<1>13. ASSUME NEW x \in Acks, NEW claim \in Approvals, WriteAck(x, claim) PROVE RunsStand'
  <2>1. UNCHANGED <<runs, records, effects>>
    BY <1>13 DEF WriteAck
  <2> QED BY <1>2, <1>13, <2>1, WriteAckGives
<1> QED BY <1>4, <1>5, <1>6, <1>7, <1>8, <1>9, <1>10, <1>11, <1>12, <1>13 DEF Next, User

\* An occurrence without a record has left nothing, and one with a record what it lists.
LEMMA TrueStep == Shaped /\ RunsStand /\ RecordIsTrue /\ [Next]_vars => RecordIsTrue'
<1> SUFFICES ASSUME Shaped, RunsStand, RecordIsTrue, [Next]_vars PROVE RecordIsTrue'
  OBVIOUS
<1>1. CASE UNCHANGED <<records, effects>>
  BY <1>1 DEF RecordIsTrue
<1>2. CASE Commit
  <2>1. /\ occ.stage = "finished" /\ occ.run = runs
        /\ records' = [records EXCEPT ![occ.run] = occ.record]
        /\ effects' = effects \cup occ.wrote
    BY <1>2 DEF Commit, RunsStand, AtWork
  <2>2. \A e \in occ.wrote : e.run = runs
    BY <2>1 DEF RunsStand, Fits
  <2>3. \A e \in effects : e.run # runs
    BY <2>1 DEF RunsStand, AtWork
  <2>4. ASSUME NEW k \in 1 .. MaxRuns, k # runs
        PROVE  {f \in effects' : f.run = k} = {f \in effects : f.run = k} /\ records'[k] = records[k]
    BY <2>1, <2>2, <2>4 DEF RunsStand
  <2>5. {f \in effects' : f.run = runs} = occ.wrote /\ records'[runs] = occ.record
    BY <2>1, <2>2, <2>3, JobRunAssumption DEF RunsStand, AtWork
  <2>6. {<<e.action, e.op>> : e \in occ.wrote} = IF Given(occ.record) THEN Value(occ.record).actions ELSE {}
    BY DEF RunsStand, Left, Listed
  <2> QED BY <2>4, <2>5, <2>6 DEF RecordIsTrue
<1>3. Commit \/ UNCHANGED <<records, effects>>
  BY DEF Next, vars, inGather, DryRun, Create, Apply, Elapse, StartTick, Claim, GatherStep,
         SurveyRead, AskReasoner, BadAnswer, Act, Crash, User, EditNode, Hide, WithdrawAck,
         WriteAck, ReadJob, SetEnabled, PatchJob, WriteJob
<1> QED BY <1>1, <1>2, <1>3

------------------------------------------------------------------------------
(* Why an occurrence fails at a stage of its own. *)

Excused(record) ==
  Given(record) /\ Value(record).stage \in {"agency", "predicate", "advance", "gather", "delivery"}
  => \/ excuse # {}
     \/ /\ Value(record).stage = "gather" /\ ~proved
        /\ \E i \in DOMAIN request.tools : request.tools[i].args = "late"

\* What the gather still has to look at is in sight, unless something was hidden.
GatherStands ==
  /\ occ.gather.step \in Nat \ {0} /\ occ.gather.todo \subseteq Nodes
  /\ occ.stage \in {"idle", "loaded", "finished"} => occ.gather = NoGather
  /\ occ.stage = "gathering" /\ excuse = {} => \A n \in occ.gather.todo : Visible(n)

LEMMA GatherInit == Init => GatherStands
  BY DEF Init, GatherStands, Idle, NoGather

LEMMA GatherStandsStep ==
  graph \in [Nodes -> NodeRow] /\ Shaped /\ RowsStand /\ GatherStands /\ [Next]_vars => GatherStands'
<1> SUFFICES ASSUME graph \in [Nodes -> NodeRow], Shaped, RowsStand, GatherStands, [Next]_vars
             PROVE  GatherStands'
  OBVIOUS
<1>1. ASSUME NEW run, NEW record, NEW wrote, NEW disable, Finish(run, record, wrote, disable)
      PROVE  GatherStands'
  <2>1. occ'.stage = "finished" /\ occ'.gather = NoGather
    BY <1>1, FinishGives
  <2> QED BY <2>1 DEF GatherStands, NoGather
<1>2. ASSUME occ'.stage = occ.stage, occ'.gather.step = occ.gather.step,
             occ'.gather.todo = occ.gather.todo, occ.stage # "gathering" => occ'.gather = occ.gather,
             excuse' = excuse, \A n \in Nodes : Visible(n) => Visible(n)'
      PROVE  GatherStands'
  BY <1>2 DEF GatherStands
<1>3. CASE UNCHANGED vars \/ DryRun \/ (\E stages \in BOOLEAN : Create(stages)) \/ Apply \/ Elapse
           \/ (\E x \in Acks : WithdrawAck(x)) \/ ReadJob
  <2>1. UNCHANGED <<occ, excuse, graph>>
    BY <1>3 DEF vars, DryRun, Create, Apply, Elapse, WithdrawAck, ReadJob
  <2> QED BY <1>2, <2>1 DEF Visible
<1>4. CASE StartTick
  <2>1. occ.stage = "idle"
    BY <1>4 DEF StartTick
  <2> QED BY <1>4, <2>1, StartTickGives DEF GatherStands
<1>5. CASE Claim
  <2>1. occ.stage = "loaded"
    BY <1>5 DEF Claim
  <2>2. CASE Begins
    BY <2>1, <2>2 DEF Begins, GatherStands, NoGather
  <2> QED BY <1>1, <1>5, <2>2, ClaimGives DEF FinishExecuted
<1>6. CASE GatherStep
  <2>1. UNCHANGED <<excuse, graph>>
    BY <1>6 DEF GatherStep, inGather
  <2>2. CASE ~FinishExecuted(occ.run, Failed("gather"), {})
    BY <1>6, <2>1, <2>2, GatherStepGives DEF GatherStands, Visible
  <2> QED BY <1>1, <2>2 DEF FinishExecuted
<1>7. ASSUME NEW n \in Nodes, SurveyRead(n) PROVE GatherStands'
  <2>1. UNCHANGED <<excuse, graph>> /\ occ.stage = "gathering"
    BY <1>7 DEF SurveyRead, inGather
  <2>2. CASE ~FinishExecuted(occ.run, Failed("gather"), {})
    BY <1>7, <2>1, <2>2, SurveyReadGives DEF GatherStands, Visible
  <2> QED BY <1>1, <2>2 DEF FinishExecuted
<1>8. CASE AskReasoner
  BY <1>8, AskReasonerGives DEF GatherStands
<1>9. CASE (\E stage \in {"reason", "plan"} : BadAnswer(stage))
           \/ \E plan \in Plans : \E failing \in 0 .. Len(Actions(plan)) : Act(plan, failing)
  BY <1>1, <1>9 DEF BadAnswer, Act, FinishExecuted
<1>10. CASE Commit \/ Crash
  BY <1>10, TickEnds DEF GatherStands, NoGather
<1>11. ASSUME NEW n \in Nodes, EditNode(n) PROVE GatherStands'
  <2>1. UNCHANGED <<occ, excuse>>
    BY <1>11 DEF EditNode
  <2> QED BY <1>2, <1>11, <2>1, VisibleAfterWork
<1>12. ASSUME NEW n \in Nodes, NEW deleted \in BOOLEAN, Hide(n, deleted) PROVE GatherStands'
  <2>1. UNCHANGED occ /\ (occ.stage = "gathering" => excuse' # {})
    BY <1>12 DEF Hide, RowsStand
  <2> QED BY <2>1 DEF GatherStands
<1>13. ASSUME NEW x \in Acks, NEW claim \in Approvals, WriteAck(x, claim) PROVE GatherStands'
  <2>1. UNCHANGED <<excuse, graph>>
    BY <1>13 DEF WriteAck
  <2>2. occ.stage # "gathering" => occ' = occ
    BY <1>13 DEF WriteAck
  <2> QED BY <1>2, <1>13, <2>1, <2>2, WriteAckGives DEF Visible
<1>14. ASSUME NEW r, NEW why, WriteJob(r, why) PROVE GatherStands'
  BY <1>14 DEF WriteJob, GatherStands
<1>15. CASE SetEnabled \/ PatchJob
  BY <1>14, <1>15 DEF SetEnabled, PatchJob
<1> QED BY <1>3, <1>4, <1>5, <1>6, <1>7, <1>8, <1>9, <1>10, <1>11, <1>12, <1>13, <1>15
        DEF Next, User

RecordsExcused == Excused(occ.record) /\ \A k \in 1 .. MaxRuns : Excused(records[k])

LEMMA ExcusedStep ==
  /\ Shaped /\ RowsStand /\ AuthoringStands /\ RunsStand /\ GatherStands /\ RecordsExcused
  /\ [Next]_vars
  => RecordsExcused'
<1> SUFFICES ASSUME Shaped, RowsStand, AuthoringStands, RunsStand, GatherStands, RecordsExcused,
                    [Next]_vars
             PROVE  RecordsExcused'
  OBVIOUS
<1>1. /\ request' = request /\ (excuse' = {} => excuse = {})
      /\ proved' = proved \/ \A k \in DOMAIN request.tools : request.tools[k].args = "ok"
  BY DEF Next, vars, asked, inGather, DryRun, Create, Apply, Elapse, StartTick, Claim,
       GatherStep,
         SurveyRead, AskReasoner, BadAnswer, Act, Commit, Crash, User, EditNode, Hide,
              WithdrawAck,
         WriteAck, ReadJob, SetEnabled, PatchJob, WriteJob
<1>2. ASSUME occ'.record = occ.record, records' = records PROVE RecordsExcused'
  BY <1>1, <1>2 DEF RecordsExcused, Excused
\* Unless something has changed, the job at work is the one authoring let in.
<1>3. occ.stage # "idle" /\ excuse = {} =>
         /\ Decl = request /\ Accepted /\ \A n \in NodesOf(request) : Visible(n)
  BY DEF RowsStand, HoldsRequest, AuthoringStands, Decl, Given
<1>4. ASSUME NEW run, NEW record, NEW wrote, NEW disable, Finish(run, record, wrote, disable),
             records' = records, UNCHANGED <<excuse, proved>>,
             \/ record = <<>> \/ excuse # {}
             \/ Value(record).stage \in {"fence", "done", "act", "reason", "plan"}
             \/ /\ Value(record).stage = "gather" /\ ~proved
                /\ \E i \in DOMAIN request.tools : request.tools[i].args = "late"
      PROVE  RecordsExcused'
  <2>1. occ'.record = record
    BY <1>4, FinishGives
  <2>2. \A k \in 1 .. MaxRuns : Excused(records[k])'
    BY <1>1, <1>4 DEF RecordsExcused, Excused
  <2>3. Excused(occ.record)'
    BY <1>1, <1>4, <2>1 DEF Excused, Given
  <2> QED BY <2>2, <2>3 DEF RecordsExcused
<1>5. ASSUME NEW stage PROVE Value(Failed(stage)).stage = stage
  BY DEF Value, Failed
<1>6. Accepted => /\ request.agency # "autonomous" /\ ~StepsRefused(request)
                  /\ ~PredicateFails(request) /\ request.delivery # "malformed"
                  /\ request.kind # "malformed" /\ request.budget # "malformed"
  BY DEF Accepted, NotExecutable
<1>7. CASE UNCHANGED vars \/ DryRun \/ (\E stages \in BOOLEAN : Create(stages)) \/ Apply \/ Elapse
           \/ (\E n \in Nodes : EditNode(n) \/ \E deleted \in BOOLEAN : Hide(n, deleted))
           \/ (\E x \in Acks : WithdrawAck(x))
           \/ ReadJob \/ SetEnabled \/ PatchJob
  BY <1>2, <1>7 DEF vars, DryRun, Create, Apply, Elapse, EditNode, Hide, WithdrawAck,
     ReadJob, SetEnabled, PatchJob, WriteJob
<1>8. ASSUME NEW x \in Acks, NEW claim \in Approvals, WriteAck(x, claim) PROVE RecordsExcused'
  <2>1. UNCHANGED records
    BY <1>8 DEF WriteAck
  <2> QED BY <1>2, <1>8, <2>1, WriteAckGives DEF SameRun
<1>9. CASE StartTick \/ AskReasoner
  <2>1. UNCHANGED records
    BY <1>9 DEF StartTick, AskReasoner, inGather
  <2> QED BY <1>2, <1>9, <2>1, StartTickGives, AskReasonerGives DEF SameRun
<1>10. CASE Claim
  <2>1. occ.stage = "loaded" /\ UNCHANGED <<records, excuse, proved>>
    BY <1>10 DEF Claim
  <2>2. CASE Begins
    BY <1>2, <2>1, <2>2 DEF Begins
  <2>3. ASSUME NEW record, NEW disable, Finish(runs', record, {}, disable),
               record = <<>> \/ excuse # {}
        PROVE  RecordsExcused'
    BY <1>4, <2>1, <2>3
  <2>4. /\ PredicateFails(Decl) => excuse # {} /\ Decl.kind = Decl.kind
        /\ Decl.kind = "malformed" => excuse # {}
        /\ Decl.agency = "autonomous" => excuse # {}
        /\ StepsRefused(Decl) \/ Decl.budget = "malformed" => excuse # {}
    BY <1>3, <1>6, <2>1
  <2> QED BY <1>10, <2>2, <2>3, <2>4, ClaimGives DEF FinishExecuted
<1>11. CASE GatherStep
  <2>1. occ.stage = "gathering" /\ UNCHANGED <<records, excuse, proved>>
    BY <1>11 DEF GatherStep, inGather
  <2>2. CASE ~FinishExecuted(occ.run, Failed("gather"), {})
    BY <1>2, <1>11, <2>1, <2>2, GatherStepGives DEF SameRun
  <2>3. CASE FinishExecuted(occ.run, Failed("gather"), {}) /\ excuse # {}
    BY <1>4, <2>1, <2>3 DEF FinishExecuted
  <2>4. CASE FinishExecuted(occ.run, Failed("gather"), {}) /\ excuse = {}
    <3> DEFINE k == occ.gather.step
               step == request.tools[k]
    <3>1. Decl = request /\ Accepted /\ \A n \in NodesOf(request) : Visible(n)
      BY <1>3, <2>1, <2>4
    <3>2. occ.stage # "finished" /\ occ'.stage = "finished"
      BY <2>1, <2>4, FinishGives DEF FinishExecuted
    <3>3. /\ k \in DOMAIN request.tools /\ step \in Call
      <4>1. request.tools \in Seq(Call)
        BY JobRunAssumption DEF AuthoringStands
      <4>2. k \in Nat \ {0} /\ k <= Len(request.tools)
        BY <1>11, <3>1 DEF GatherStep, GatherStands
      <4> QED BY <4>1, <4>2
    <3>4. ~(step.args = "ok" /\ (Given(step.node) => Visible(Value(step.node))))
      <4>1. ASSUME NEW left PROVE [occ EXCEPT !.gather.step = @ + 1, !.gather.todo = left].stage = occ.stage
        BY DEF Shaped
      <4>2. ASSUME step.args = "ok" /\ (Given(step.node) => Visible(Value(step.node)))
            PROVE  FALSE
        <5>1. \E left : occ' = [occ EXCEPT !.gather.step = @ + 1, !.gather.todo = left]
          BY <1>11, <3>1, <4>2 DEF GatherStep
        <5> QED BY <3>2, <4>1, <5>1
      <4> QED BY <4>2
    <3>5. step.args \in {"ok", "late"}
      BY <1>6, <3>1, <3>3 DEF StepsRefused, Call
    <3>6. Given(step.node) => Value(step.node) \in NodesOf(request)
      BY <3>3 DEF Call, Given, Value, NodesOf
    <3>7. step.args = "late"
      BY <3>1, <3>4, <3>5, <3>6
    <3>8. ~proved
      BY <3>3, <3>7 DEF AuthoringStands
    <3> QED BY <1>4, <1>5, <2>1, <2>4, <3>3, <3>7, <3>8 DEF FinishExecuted
  <2> QED BY <2>2, <2>3, <2>4
<1>12. ASSUME NEW n \in Nodes, SurveyRead(n) PROVE RecordsExcused'
  <2>1. occ.stage = "gathering" /\ n \in occ.gather.todo /\ UNCHANGED <<records, excuse, proved>>
    BY <1>12 DEF SurveyRead, inGather
  <2>2. CASE ~FinishExecuted(occ.run, Failed("gather"), {})
    BY <1>2, <1>12, <2>1, <2>2, SurveyReadGives DEF SameRun
  <2>3. CASE FinishExecuted(occ.run, Failed("gather"), {})
    <3>1. ~Visible(n)
      <4>1. occ'.stage = "finished"
        BY <2>3, FinishGives DEF FinishExecuted
      <4>2. ASSUME NEW t, NEW c, NEW e
            PROVE  [occ EXCEPT !.gather.todo = t, !.cache = c, !.gather.survey = e].stage = occ.stage
        BY DEF Shaped
      <4>3. ASSUME Visible(n) PROVE FALSE
        <5> DEFINE t == occ.gather.todo \ {n}
                   c == CacheAfter(occ.cache, n)
                   e == occ.gather.survey \cup {Entry(n, occ.cache)}
        <5>1. occ' = [occ EXCEPT !.gather.todo = t, !.cache = c, !.gather.survey = e]
          BY <1>12, <4>3, Zenon DEF SurveyRead
        <5> HIDE DEF t, c, e
        <5> QED BY <2>1, <4>1, <4>2, <5>1
      <4> QED BY <4>3
    <3>2. excuse # {}
      BY <2>1, <3>1 DEF GatherStands
    <3> QED BY <1>4, <2>1, <2>3, <3>2 DEF FinishExecuted
  <2> QED BY <2>2, <2>3
<1>13. ASSUME NEW stage \in {"reason", "plan"}, BadAnswer(stage) PROVE RecordsExcused'
  BY <1>4, <1>5, <1>13 DEF BadAnswer, FinishExecuted, inGather
<1>14. ASSUME NEW plan \in Plans, NEW failing \in 0 .. Len(Actions(plan)), Act(plan, failing)
       PROVE  RecordsExcused'
  <2>1. occ.stage = "reasoning" /\ UNCHANGED <<records, excuse, proved>>
    BY <1>14 DEF Act
  <2>2. Decl.delivery = "malformed" => excuse # {}
    BY <1>3, <1>6, <2>1
  <2> QED BY <1>4, <1>14, <2>1, <2>2, ActGives DEF FinishExecuted
<1>15. CASE Commit
  <2>1. /\ occ.stage = "finished" /\ records' = [records EXCEPT ![occ.run] = occ.record]
        /\ occ'.record = <<>> /\ UNCHANGED <<excuse, proved>>
    BY <1>15, TickEnds DEF Commit
  <2>2. Excused(<<>>)'
    BY DEF Excused, Given
  <2>3. \A k \in 1 .. MaxRuns : records'[k] \in {records[k], occ.record}
    BY <2>1 DEF RunsStand
  <2> QED BY <1>1, <2>1, <2>3 DEF RecordsExcused, Excused, Given
<1>16. CASE Crash
  <2>1. UNCHANGED <<records, excuse, proved>> /\ occ'.record = <<>>
    BY <1>16, TickEnds DEF Crash
  <2> QED BY <1>1, <2>1 DEF RecordsExcused, Excused, Given
<1> QED BY <1>7, <1>8, <1>9, <1>10, <1>11, <1>12, <1>13, <1>14, <1>15, <1>16 DEF Next, User

------------------------------------------------------------------------------
(* What the survey knows. *)

GraphStands == graph \in [Nodes -> NodeRow]

NoteFields == {"kind", "judged", "pins", "refs", "current"}
IsNote(a) == DOMAIN a = NoteFields /\ IsFiniteSet(a.pins) /\ a.refs \subseteq Nodes
NotesStand == DOMAIN ack = Acks /\ \A x \in Acks : Given(ack[x]) => IsNote(Value(ack[x]))

LEMMA GraphStep == GraphStands /\ RunsStand /\ [Next]_vars => GraphStands'
<1> SUFFICES ASSUME GraphStands, RunsStand, [Next]_vars PROVE GraphStands'
  OBVIOUS
<1>1. ASSUME NEW r \in NodeRow, NEW v \in Nat PROVE [r EXCEPT !.version = v] \in NodeRow
  BY DEF NodeRow
<1>2. CASE UNCHANGED graph
  BY <1>2 DEF GraphStands
<1>3. CASE Commit
  <2> DEFINE by(n) == Cardinality({e \in occ.wrote : e.node = <<n>>})
  <2>1. \A n \in Nodes : by(n) \in Nat
    BY FS_Subset, FS_CardinalityType DEF RunsStand
  <2>2. \A n \in Nodes : graph[n] \in NodeRow /\ graph[n].version + by(n) \in Nat
    <3> HIDE DEF by
    <3>1. \A n \in Nodes : graph[n] \in NodeRow /\ graph[n].version \in Nat
      BY DEF GraphStands, NodeRow
    <3> QED BY <2>1, <3>1
  <2>3. graph' = [n \in Nodes |-> [graph[n] EXCEPT !.version = graph[n].version + by(n)]]
    BY <1>3, Zenon DEF Commit
  <2> HIDE DEF by
  <2> QED BY <1>1, <2>2, <2>3 DEF GraphStands
<1>4. ASSUME NEW n \in Nodes, EditNode(n) PROVE GraphStands'
  <2>1. graph[n] \in NodeRow /\ graph[n].version + 1 \in Nat
    BY DEF GraphStands, NodeRow
  <2> QED BY <1>1, <1>4, <2>1 DEF EditNode, GraphStands
<1>5. ASSUME NEW n \in Nodes, NEW deleted \in BOOLEAN, Hide(n, deleted) PROVE GraphStands'
  <2>1. graph[n] \in NodeRow
    BY DEF GraphStands
  <2>2. [[graph[n] EXCEPT !.shown = FALSE] EXCEPT !.live = ~deleted] \in NodeRow
    BY <2>1 DEF NodeRow
  <2>3. graph'[n] = [[graph[n] EXCEPT !.shown = FALSE] EXCEPT !.live = ~deleted]
    BY <1>5 DEF Hide, GraphStands
  <2>4. \A m \in Nodes : m # n => graph'[m] = graph[m]
    BY <1>5 DEF Hide, GraphStands
  <2>5. DOMAIN graph' = Nodes /\ graph' = [m \in Nodes |-> graph'[m]]
    BY <1>5 DEF Hide, GraphStands
  <2> QED BY <2>2, <2>3, <2>4, <2>5 DEF GraphStands
<1>6. \/ UNCHANGED graph \/ Commit
      \/ \E n \in Nodes : EditNode(n) \/ \E deleted \in BOOLEAN : Hide(n, deleted)
  BY DEF Next, vars, inGather, DryRun, Create, Apply, Elapse, StartTick, Claim, GatherStep,
         SurveyRead, AskReasoner, BadAnswer, Act, Crash, User, WithdrawAck,
         WriteAck, ReadJob, SetEnabled, PatchJob, WriteJob
<1> QED BY <1>2, <1>3, <1>4, <1>5, <1>6

LEMMA NotesStep == NotesStand /\ [Next]_vars => NotesStand'
<1> SUFFICES ASSUME NotesStand, [Next]_vars PROVE NotesStand'
  OBVIOUS
<1>1. CASE UNCHANGED ack
  BY <1>1 DEF NotesStand
<1>2. ASSUME NEW x \in Acks, NEW claim \in Approvals, WriteAck(x, claim) PROVE NotesStand'
  <2>1. IsNote(claim)
    BY JobRunAssumption DEF IsNote, NoteFields
  <2> QED BY <1>2, <2>1 DEF WriteAck, NotesStand, Given, Value
<1>3. ASSUME NEW x \in Acks, WithdrawAck(x) PROVE NotesStand'
  <2>1. ASSUME NEW a, IsNote(a) PROVE IsNote([a EXCEPT !.current = FALSE])
    BY <2>1 DEF IsNote, NoteFields
  <2> QED BY <1>3, <2>1 DEF WithdrawAck, NotesStand, Given, Value
<1>4. UNCHANGED ack \/ \E x \in Acks : WithdrawAck(x) \/ \E claim \in Approvals : WriteAck(x, claim)
  BY DEF Next, vars, inGather, DryRun, Create, Apply, Elapse, StartTick, Claim, GatherStep,
         SurveyRead, AskReasoner, BadAnswer, Act, Commit, Crash, User, EditNode, Hide, ReadJob,
         SetEnabled, PatchJob, WriteJob
<1> QED BY <1>1, <1>2, <1>3, <1>4

\* While it gathers, the occurrence has been granted every approval in force, and no
\* version it knows is older than its gather.
GatherKnows ==
  occ.stage = "gathering" =>
    /\ InForce \subseteq occ.gather.granted
    /\ \A n \in Nodes :
         /\ occ.gather.began[n] \in Nat /\ occ.gather.began[n] <= graph[n].version
         /\ Given(occ.cache[n]) => /\ Value(occ.cache[n]) \in Nat
                                   /\ occ.gather.began[n] <= Value(occ.cache[n])

\* What the survey says of a node is covered by what the occurrence was granted.
Vouched(e, gather) ==
  /\ e.oversized => {<<e.node, e.version>>} \in gather.granted
  /\ \A m \in e.apart : \E pins \in gather.granted :
        /\ <<e.node, e.version>> \in pins
        /\ \E p \in pins : p[1] = m /\ p[2] >= gather.began[m]

LEMMA CacheStays ==
  ASSUME GraphStands, GatherKnows, occ.stage = "gathering", NEW n \in Nodes, NEW m \in Nodes,
         Given(CacheAfter(occ.cache, n)[m])
  PROVE  /\ Value(CacheAfter(occ.cache, n)[m]) \in Nat
         /\ occ.gather.began[m] <= Value(CacheAfter(occ.cache, n)[m])
<1>1. graph[m].version \in Nat /\ occ.gather.began[m] <= graph[m].version
  BY DEF GraphStands, GatherKnows, NodeRow
<1>2. CacheAfter(occ.cache, n)[m] \in {<<graph[m].version>>, occ.cache[m]}
  BY DEF CacheAfter
<1> QED BY <1>1, <1>2 DEF GatherKnows, Given, Value

LEMMA EntryIsVouched ==
  ASSUME GraphStands, NotesStand, GatherKnows, occ.stage = "gathering", NEW n \in Nodes
  PROVE  Vouched(Entry(n, occ.cache), occ.gather)
<1> DEFINE e == Entry(n, occ.cache)
           cache == CacheAfter(occ.cache, n)
<1>1. /\ e.node = n /\ <<e.node, e.version>> = Version(n)
      /\ e.oversized <=> Matching(n, "oversized_ok") # {}
      /\ e.apart = NotDuplicateOf(n, cache)
  BY DEF Entry, Version
<1>2. ASSUME NEW kind, NEW a \in Matching(n, kind)
      PROVE  /\ a.pins \in occ.gather.granted /\ Version(n) \in a.pins
             /\ IsNote(a) /\ ValidAck(a) /\ a.kind = kind
  <2>1. PICK x \in Acks : a = Value(ack[x]) /\ Given(ack[x]) /\ Value(ack[x]).current
    BY DEF Matching, AcksOf
  <2>2. a.judged
    BY DEF Matching, ValidAck
  <2>3. a.pins \in InForce
    BY <2>1, <2>2 DEF InForce
  <2> QED BY <2>1, <2>3 DEF Matching, NotesStand, GatherKnows
<1>3. e.oversized => {<<e.node, e.version>>} \in occ.gather.granted
  <2> SUFFICES ASSUME NEW a \in Matching(n, "oversized_ok") PROVE {Version(n)} \in occ.gather.granted
    BY <1>1
  <2>1. IsFiniteSet(a.pins) /\ Cardinality(a.pins) = 1 /\ Version(n) \in a.pins
    BY <1>2 DEF IsNote, ValidAck
  <2>2. a.pins = {Version(n)}
    BY <2>1, FS_Singleton
  <2>3. a.pins \in occ.gather.granted
    BY <1>2
  <2> QED BY <2>2, <2>3
<1>4. ASSUME NEW m \in NotDuplicateOf(n, cache)
      PROVE  \E pins \in occ.gather.granted :
                /\ Version(n) \in pins
                /\ \E p \in pins : p[1] = m /\ p[2] >= occ.gather.began[m]
  <2>1. PICK a \in Matching(n, "not_duplicates") :
                Given(cache[m]) /\ <<m, Value(cache[m])>> \in a.pins
    BY DEF NotDuplicateOf
  <2>2. m \in Nodes
    <3>1. PICK b \in Matching(n, "not_duplicates") : \E p \in b.pins : p[1] = m
      BY DEF NotDuplicateOf, Peers
    <3>2. Targets(b) = {p[1] : p \in b.pins} /\ b.refs \subseteq Nodes
      BY <1>2 DEF ValidAck, IsNote
    <3> QED BY <3>1, <3>2 DEF Targets
  <2>3. Value(cache[m]) \in Nat /\ occ.gather.began[m] <= Value(cache[m])
    BY <2>1, <2>2, CacheStays
  <2>4. occ.gather.began[m] \in Nat
    BY <2>2 DEF GatherKnows
  <2>5. Value(cache[m]) >= occ.gather.began[m]
    BY <2>3, <2>4
  <2> HIDE DEF cache
  <2>6. <<m, Value(cache[m])>>[1] = m /\ <<m, Value(cache[m])>>[2] = Value(cache[m])
    OBVIOUS
  <2> QED BY <1>2, <2>1, <2>5, <2>6
<1> HIDE DEF e, cache
<1>5. Vouched(e, occ.gather)
  BY <1>1, <1>3, <1>4 DEF Vouched
<1> QED BY <1>5 DEF e

LEMMA KnowsStep ==
  Shaped /\ GraphStands /\ RunsStand /\ NotesStand /\ GatherKnows /\ [Next]_vars => GatherKnows'
<1> SUFFICES ASSUME Shaped, GraphStands, RunsStand, NotesStand, GatherKnows, [Next]_vars
             PROVE  GatherKnows'
  OBVIOUS
<1>1. CASE occ'.stage # "gathering"
  BY <1>1 DEF GatherKnows
<1>2. ASSUME UNCHANGED <<occ, ack>>, \A n \in Nodes : graph'[n].version \in Nat
                                                       /\ graph[n].version <= graph'[n].version
      PROVE  GatherKnows'
  <2>1. \A n \in Nodes : graph[n].version \in Nat
    BY DEF GraphStands, NodeRow
  <2> QED BY <1>2, <2>1 DEF GatherKnows, InForce
<1>3. CASE UNCHANGED <<occ, ack, graph>>
  BY <1>3 DEF GatherKnows, InForce
<1>4. CASE Claim
  <2>1. UNCHANGED <<ack, graph>>
    BY <1>4 DEF Claim
  <2>2. CASE Begins
    BY <2>1, <2>2 DEF Begins, CacheAtStart, GatherKnows, InForce, GraphStands, NodeRow, Given
  <2>3. ASSUME NEW run, NEW record, NEW wrote, NEW disable, Finish(run, record, wrote, disable)
        PROVE  GatherKnows'
    BY <1>1, <2>3, FinishGives
  <2> QED BY <1>4, <2>2, <2>3, ClaimGives DEF FinishExecuted
<1>5. ASSUME NEW n \in Nodes, SurveyRead(n), occ'.stage = "gathering" PROVE GatherKnows'
  <2>1. UNCHANGED <<ack, graph>> /\ occ.stage = "gathering"
    BY <1>5 DEF SurveyRead, inGather
  <2>2. ~FinishExecuted(occ.run, Failed("gather"), {})
    BY <1>5, FinishGives DEF FinishExecuted
  <2>3. /\ occ'.cache = CacheAfter(occ.cache, n)
        /\ occ'.gather.began = occ.gather.began /\ occ'.gather.granted = occ.gather.granted
    BY <1>5, <2>2, SurveyReadGives
  <2>4. \A m \in Nodes : Given(occ'.cache[m]) => /\ Value(occ'.cache[m]) \in Nat
                                                 /\ occ.gather.began[m] <= Value(occ'.cache[m])
    BY <2>1, <2>3, CacheStays
  <2> QED BY <2>1, <2>3, <2>4 DEF GatherKnows, InForce
<1>6. CASE GatherStep /\ occ'.stage = "gathering"
  <2>1. UNCHANGED <<ack, graph>> /\ occ.stage = "gathering"
    BY <1>6 DEF GatherStep, inGather
  <2>2. ~FinishExecuted(occ.run, Failed("gather"), {})
    BY <1>6, FinishGives DEF FinishExecuted
  <2> QED BY <1>6, <2>1, <2>2, GatherStepGives DEF GatherKnows, InForce
<1>7. ASSUME NEW x \in Acks, NEW claim \in Approvals, WriteAck(x, claim), occ'.stage = "gathering"
      PROVE  GatherKnows'
  <2>1. /\ UNCHANGED graph /\ ack' = [ack EXCEPT ![x] = <<claim>>]
        /\ occ.stage = "gathering" /\ occ'.cache = occ.cache
        /\ occ'.gather.began = occ.gather.began
        /\ occ'.gather.granted = IF claim.judged THEN occ.gather.granted \cup {claim.pins}
                                 ELSE occ.gather.granted
    BY <1>7, WriteAckGives DEF WriteAck
  <2>2. InForce' \subseteq InForce \cup (IF claim.judged THEN {claim.pins} ELSE {})
    BY <2>1 DEF InForce, NotesStand, Given, Value
  <2>3. InForce' \subseteq occ'.gather.granted
    BY <2>1, <2>2 DEF GatherKnows
  <2> QED BY <2>1, <2>3 DEF GatherKnows
<1>8. ASSUME NEW x \in Acks, WithdrawAck(x) PROVE GatherKnows'
  <2>1. /\ UNCHANGED <<occ, graph>>
        /\ ack' = [ack EXCEPT ![x] = <<[Value(ack[x]) EXCEPT !.current = FALSE]>>]
        /\ Given(ack[x])
    BY <1>8 DEF WithdrawAck
  <2>2. ASSUME NEW a, IsNote(a) PROVE ~[a EXCEPT !.current = FALSE].current
    BY <2>2 DEF IsNote, NoteFields
  <2>3. InForce' \subseteq InForce
    BY <2>1, <2>2 DEF InForce, NotesStand, Given, Value
  <2> QED BY <2>1, <2>3 DEF GatherKnows
<1>9. ASSUME NEW n \in Nodes, EditNode(n) PROVE GatherKnows'
  <2>1. \A m \in Nodes : graph[m] \in NodeRow
    BY DEF GraphStands
  <2>2. \A m \in Nodes : graph'[m].version \in Nat /\ graph[m].version <= graph'[m].version
    <3>1. UNCHANGED <<occ, ack>> /\ graph' = [graph EXCEPT ![n].version = @ + 1]
      BY <1>9 DEF EditNode
    <3> QED BY <2>1, <3>1 DEF NodeRow, GraphStands
  <2> QED BY <1>2, <1>9, <2>2 DEF EditNode
<1>10. ASSUME NEW n \in Nodes, NEW deleted \in BOOLEAN, Hide(n, deleted) PROVE GatherKnows'
  <2>1. \A m \in Nodes : graph[m] \in NodeRow
    BY DEF GraphStands
  <2>2. \A m \in Nodes : graph'[m].version \in Nat /\ graph[m].version <= graph'[m].version
    <3>1. graph' = [graph EXCEPT ![n].shown = FALSE, ![n].live = ~deleted]
      BY <1>10 DEF Hide
    <3> QED BY <2>1, <3>1 DEF NodeRow, GraphStands
  <2> QED BY <1>2, <1>10, <2>2 DEF Hide
<1>11. CASE StartTick \/ AskReasoner \/ Commit \/ Crash
            \/ (\E stage \in {"reason", "plan"} : BadAnswer(stage))
            \/ \E plan \in Plans : \E failing \in 0 .. Len(Actions(plan)) : Act(plan, failing)
  <2>1. ASSUME NEW run, NEW record, NEW wrote, NEW disable, Finish(run, record, wrote, disable)
        PROVE  GatherKnows'
    BY <1>1, <2>1, FinishGives
  <2>2. CASE StartTick \/ AskReasoner \/ Commit \/ Crash
    BY <1>1, <2>2, StartTickGives, AskReasonerGives, TickEnds
  <2>3. CASE \E stage \in {"reason", "plan"} : BadAnswer(stage)
    BY <2>1, <2>3 DEF BadAnswer, FinishExecuted
  <2>4. ASSUME NEW plan \in Plans, NEW failing \in 0 .. Len(Actions(plan)), Act(plan, failing)
        PROVE  GatherKnows'
    BY <2>1, <2>4, ActGives DEF FinishExecuted
  <2> QED BY <1>11, <2>2, <2>3, <2>4
<1>12. CASE UNCHANGED vars \/ DryRun \/ (\E stages \in BOOLEAN : Create(stages)) \/ Apply \/ Elapse
            \/ ReadJob \/ SetEnabled \/ PatchJob
  BY <1>3, <1>12 DEF vars, DryRun, Create, Apply, Elapse, ReadJob, SetEnabled, PatchJob,
       WriteJob
<1> QED BY <1>1, <1>4, <1>5, <1>6, <1>7, <1>8, <1>9, <1>10, <1>11, <1>12 DEF Next, User

LEMMA ApprovalStep ==
  /\ Shaped /\ GraphStands /\ RunsStand /\ NotesStand /\ GatherKnows /\ GatherStands
  /\ ApprovalHolds /\ [Next]_vars
  => ApprovalHolds'
<1> SUFFICES ASSUME Shaped, GraphStands, RunsStand, NotesStand, GatherKnows, GatherStands,
                    ApprovalHolds, [Next]_vars
             PROVE  ApprovalHolds'
  OBVIOUS
<1>1. /\ (\A e \in occ.gather.survey : Vouched(e, occ.gather)) <=> ApprovalHolds
      /\ ApprovalHolds' <=> \A e \in occ'.gather.survey : Vouched(e, occ'.gather)
  BY DEF ApprovalHolds, Vouched
<1>2. CASE occ'.gather.survey = {}
  BY <1>1, <1>2
<1>3. CASE occ'.gather = occ.gather
  BY <1>1, <1>3
<1>4. ASSUME NEW run, NEW record, NEW wrote, NEW disable, Finish(run, record, wrote, disable)
      PROVE  ApprovalHolds'
  BY <1>2, <1>4, FinishGives DEF NoGather
<1>5. ASSUME occ'.gather.survey = occ.gather.survey, occ'.gather.began = occ.gather.began,
             occ.gather.granted \subseteq occ'.gather.granted
      PROVE  ApprovalHolds'
  <2>1. ASSUME NEW e \in occ.gather.survey PROVE Vouched(e, occ'.gather)
    BY <1>1, <1>5 DEF Vouched
  <2> QED BY <1>1, <1>5, <2>1
<1>6. CASE Claim
  <2>1. occ.gather.survey = {}
    BY <1>6 DEF Claim, GatherStands, NoGather
  <2> QED BY <1>2, <1>4, <1>6, <2>1, ClaimGives DEF Begins, FinishExecuted
<1>7. ASSUME NEW n \in Nodes, SurveyRead(n) PROVE ApprovalHolds'
  <2>1. occ.stage = "gathering"
    BY <1>7 DEF SurveyRead
  <2>2. CASE ~FinishExecuted(occ.run, Failed("gather"), {})
    <3>1. /\ occ'.gather.survey = occ.gather.survey \cup {Entry(n, occ.cache)}
          /\ occ'.gather.began = occ.gather.began /\ occ'.gather.granted = occ.gather.granted
      BY <1>7, <2>2, SurveyReadGives
    <3>2. \A e : Vouched(e, occ.gather) => Vouched(e, occ'.gather)
      BY <3>1 DEF Vouched
    <3> QED BY <1>1, <2>1, <3>1, <3>2, EntryIsVouched
  <2> QED BY <1>4, <2>2 DEF FinishExecuted
<1>8. CASE GatherStep
  <2>1. CASE ~FinishExecuted(occ.run, Failed("gather"), {})
    BY <1>5, <1>8, <2>1, GatherStepGives
  <2> QED BY <1>4, <2>1 DEF FinishExecuted
<1>9. ASSUME NEW x \in Acks, NEW claim \in Approvals, WriteAck(x, claim) PROVE ApprovalHolds'
  BY <1>5, <1>9, WriteAckGives
<1>10. CASE StartTick \/ AskReasoner \/ Commit \/ Crash
  BY <1>2, <1>3, <1>10, StartTickGives, AskReasonerGives, TickEnds DEF NoGather
<1>11. ASSUME NEW stage \in {"reason", "plan"}, BadAnswer(stage) PROVE ApprovalHolds'
  BY <1>4, <1>11 DEF BadAnswer, FinishExecuted
<1>12. ASSUME NEW plan \in Plans, NEW failing \in 0 .. Len(Actions(plan)), Act(plan, failing)
       PROVE  ApprovalHolds'
  BY <1>4, <1>12, ActGives DEF FinishExecuted
<1>13. CASE UNCHANGED vars \/ DryRun \/ (\E stages \in BOOLEAN : Create(stages)) \/ Apply \/ Elapse
            \/ (\E n \in Nodes : EditNode(n) \/ \E deleted \in BOOLEAN : Hide(n, deleted))
            \/ (\E x \in Acks : WithdrawAck(x))
            \/ ReadJob \/ SetEnabled \/ PatchJob
  BY <1>3, <1>13, OccUntouched DEF vars
<1> QED BY <1>6, <1>7, <1>8, <1>9, <1>10, <1>11, <1>12, <1>13 DEF Next, User

------------------------------------------------------------------------------
IInv == /\ Shaped /\ RowsStand /\ AuthoringStands
        /\ RunsStand /\ RecordIsTrue
        /\ GatherStands /\ RecordsExcused
        /\ GraphStands /\ NotesStand /\ GatherKnows /\ ApprovalHolds

LEMMA InvInit == Init => IInv
<1> SUFFICES ASSUME Init PROVE IInv
  OBVIOUS
<1>1. /\ occ = Idle([n \in Nodes |-> <<>>]) /\ copy = [s \in {"runner", "user"} |-> <<>>]
      /\ ack = [a \in Acks |-> <<>>] /\ records = [k \in 1 .. MaxRuns |-> <<>>]
      /\ effects = {} /\ graph \in Graphs
  BY DEF Init
<1>2. Shaped
  BY <1>1 DEF Shaped, Idle, NoGather, Stages
<1>3. RecordsExcused /\ RecordIsTrue
  BY <1>1 DEF RecordsExcused, Excused, RecordIsTrue, Idle, Given
<1>4. GraphStands /\ NotesStand /\ GatherKnows /\ ApprovalHolds
  BY <1>1, JobRunAssumption
     DEF GraphStands, NotesStand, GatherKnows, ApprovalHolds, Idle, NoGather, Given
<1> QED BY <1>2, <1>3, <1>4, RowsInit, AuthoringInit, RunsInit, GatherInit DEF IInv

\* What the steps need beside their own part of the invariant.
LEMMA ShapedStep == Shaped /\ [Next]_vars => Shaped'
<1> SUFFICES ASSUME Shaped, [Next]_vars PROVE Shaped'
  OBVIOUS
<1>1. ASSUME NEW run, NEW record, NEW wrote, NEW disable, Finish(run, record, wrote, disable),
             copy' = copy
      PROVE  Shaped'
  BY <1>1, FinishGives DEF Shaped
<1>2. CASE UNCHANGED vars
  BY <1>2 DEF vars, Shaped
<1>3. CASE Claim \/ GatherStep \/ \E n \in Nodes : SurveyRead(n)
  <2>1. copy' = copy
    BY <1>3 DEF Claim, GatherStep, SurveyRead, inGather
  <2> QED BY <1>1, <1>3, <2>1, ClaimGives, GatherStepGives, SurveyReadGives
          DEF FinishExecuted, Begins
<1>4. ASSUME NEW stage \in {"reason", "plan"}, BadAnswer(stage) PROVE Shaped'
  BY <1>1, <1>4 DEF BadAnswer, FinishExecuted, inGather
<1>5. ASSUME NEW plan \in Plans, NEW failing \in 0 .. Len(Actions(plan)), Act(plan, failing)
      PROVE  Shaped'
  <2>1. copy' = copy
    BY <1>5 DEF Act
  <2> QED BY <1>1, <1>5, <2>1, ActGives DEF FinishExecuted
<1> QED BY <1>2, <1>3, <1>4, <1>5, StartTickGives, AskReasonerGives, TickEnds, WriteAckGives,
           OccUntouched
        DEF Next, User

LEMMA InvStep == IInv /\ [Next]_vars => IInv'
<1> SUFFICES ASSUME IInv, [Next]_vars PROVE IInv'
  OBVIOUS
<1>1. /\ Shaped /\ RowsStand /\ AuthoringStands /\ RunsStand /\ RecordIsTrue /\ GatherStands
      /\ RecordsExcused /\ GraphStands /\ NotesStand /\ GatherKnows /\ ApprovalHolds
  BY DEF IInv
<1>2. Shaped' /\ RowsStand' /\ RunsStand' /\ RecordIsTrue' /\ GraphStands' /\ NotesStand'
  BY <1>1, ShapedStep, RowsStep, RunsStep, TrueStep, GraphStep, NotesStep
<1>3. AuthoringStands' /\ GatherStands' /\ RecordsExcused' /\ GatherKnows' /\ ApprovalHolds'
  BY <1>1, AuthoringStep, GatherStandsStep, ExcusedStep, KnowsStep, ApprovalStep DEF GraphStands
<1> QED BY <1>2, <1>3 DEF IInv

\* The inductive invariant holds in every reachable state.
THEOREM Invariance == Spec => []IInv
  BY InvInit, InvStep, PTL DEF Spec

\* A job that authoring let in fails at none of its own stages, unless something it
\* names has gone or it was patched; an argument the tool alone refuses is the one
\* exception, and a dry run rules it out (_check_job_executability).
THEOREM AcceptedJobsRun == Spec => []ExecutableAsAccepted
<1>1. IInv => ExecutableAsAccepted
  BY DEF IInv, RecordsExcused, Excused, ExecutableAsAccepted
<1> QED BY <1>1, Invariance, PTL

\* A committed record lists exactly what its occurrence left in the graph, whatever
\* crashes, fails half-way or is never committed.
THEOREM RecordsAreTrue == Spec => []RecordIsTrue
<1>1. IInv => RecordIsTrue
  BY DEF IInv
<1> QED BY <1>1, Invariance, PTL

\* Whatever a plan claims, nothing is written outside the fence of the declaration
\* it ran under, or outside the job's own space (execute_actions).
THEOREM WritesAreFenced == Spec => []WritesStayInFence
<1>1. IInv => WritesStayInFence
  BY DEF IInv, RunsStand, Fits, WritesStayInFence
<1> QED BY <1>1, Invariance, PTL

\* What the survey reads as approved was approved at the versions it shows or knows,
\* however approvals, withdrawals and edits fall between its reads (_ack_flags).
THEOREM ApprovalsAreHeld == Spec => []ApprovalHolds
<1>1. IInv => ApprovalHolds
  BY DEF IInv
<1> QED BY <1>1, Invariance, PTL
==============================================================================
