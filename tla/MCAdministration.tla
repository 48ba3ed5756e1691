-------------------------- MODULE MCAdministration --------------------------
(***************************************************************************)
(* What administrators do with background work, one part at a time: they   *)
(* set its schedules, and their pages follow the runs that they start.  A  *)
(* behaviour is about one of the two; the other keeps an initial state.    *)
(***************************************************************************)
EXTENDS MCSchedulerSettings

CONSTANTS MaxJobs, MaxFailures, MaxVisits

VARIABLES
    subject,
    watcher, jobs, timer, apply, losses, failures, react, classic, wait, calls

Watch == INSTANCE JobWatch WITH restarts <- losses

watchParts == <<watcher, jobs, timer, apply, losses, failures, react, classic, wait, calls>>

AdminInit ==
    /\ subject \in {"schedules", "watch"}
    /\ Init
    /\ subject # "schedules" => table
    /\ Watch!WatchInit
    /\ subject # "watch" => watcher = "wait"

AdminNext ==
    \/ /\ subject = "schedules" /\ Next
       /\ UNCHANGED <<subject, watchParts>>
    \/ /\ subject = "watch" /\ Watch!WatchNext
       /\ UNCHANGED <<subject, vars>>

AdminSpec ==
    /\ AdminInit /\ [][AdminNext]_<<subject, vars, watchParts>>
    /\ WF_vars(subject = "schedules" /\ WarmupStep) /\ Watch!WatchFairness

----------------------------------------------------------------------------
\* The schedulers are started, whatever fails before.
WarmupStartsSchedulers == subject = "schedules" => WarmupEnds
\* Nobody follows for ever what has ended.
EndedRunsAreShown == Watch!EndedRunsAreShown
=============================================================================
