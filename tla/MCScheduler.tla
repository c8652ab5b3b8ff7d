----------------------------- MODULE MCScheduler -----------------------------
(* Scheduler for TLC: two jobs, one of them plain, so that whatever is wrong *)
(* with the other one meets a job that must be served all the same.          *)
EXTENDS Scheduler

CONSTANT Plain   \* jobs of no predicate that run at an interval

MCInit ==
    /\ SchedulerInit
    /\ \A j \in Plain : trigger[j] = "interval" /\ gated[j] = "none" /\ row[j].next = 0

MCSpec == MCInit /\ [][SchedulerNext]_schedulerVars /\ Fairness
=============================================================================
