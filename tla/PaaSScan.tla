------------------------------ MODULE PaaSScan ------------------------------
(***************************************************************************)
(* Scans of the availability of PaaS services: the remote worker, the      *)
(* PowerShell runtimes that take over when it fails, the snapshot saved in *)
(* a transaction, and the snapshot that the page reads.  Nothing keeps     *)
(* scans of one service apart.                                             *)
(*                                                                         *)
(* The worker and the PowerShell module are external: they answer with the *)
(* rows of a scan and its time, with something unreadable, or not at all.  *)
(***************************************************************************)
EXTENDS Naturals, Sequences, FiniteSets

CONSTANTS
    Scans,          \* the refreshes of a run
    Services,       \* the services scanned, "All" among them
    Shells,         \* the PowerShell runtimes in the order they are tried
    TooOld,         \* those before version 7
    RowsPerScan     \* how many rows a scan has at most

VARIABLES
    hosting,        \* whether a worker is configured, and whether the local runtimes
                    \* may take over from it (~shouldDisableLocalFallback)
    ticks,          \* the time of the last scan that ran
    scan,           \* [Scans -> the state of the refresh]
    snapshots,      \* the runs of dbo.PaaSAvailabilitySnapshot
    errorLog        \* the scans with a row in dbo.DashboardErrorLog

paasVars == <<hosting, ticks, scan, snapshots, errorLog>>

IdleScan == [at |-> "idle", service |-> "All", shell |-> 1, captured |-> 0,
             rows |-> 0, saved |-> 0, runId |-> FALSE, warning |-> FALSE]

PaaSInit ==
    /\ hosting \in [worker : BOOLEAN, fallback : BOOLEAN]
    /\ ticks = 0
    /\ scan = [s \in Scans |-> IdleScan]
    /\ snapshots = {}
    /\ errorLog = {}

Set(s, changes) == scan' = [scan EXCEPT ![s] = changes]

Start(s) ==
    /\ scan[s].at = "idle"
    /\ \E service \in Services :
          Set(s, [IdleScan EXCEPT !.service = service,
                                  !.at = IF hosting.worker THEN "remote" ELSE "local"])
    /\ UNCHANGED <<hosting, ticks, snapshots, errorLog>>

(* The rows of a scan, taken now; they are saved next.                     *)
Scanned(s) ==
    /\ ticks' = ticks + 1
    /\ \E n \in 0..RowsPerScan :
          Set(s, [scan[s] EXCEPT !.at = IF n = 0 THEN "finishing" ELSE "saving",
                                 !.captured = ticks + 1, !.rows = n])
    /\ UNCHANGED <<hosting, snapshots, errorLog>>

RemoteAnswers(s) == scan[s].at = "remote" /\ Scanned(s)

(* A timeout, an error or unreadable output of the worker: the local       *)
(* runtimes take over, or the error is thrown as it is.                    *)
RemoteFails(s) ==
    /\ scan[s].at = "remote"
    /\ Set(s, [scan[s] EXCEPT !.at = IF hosting.fallback THEN "local" ELSE "threw"])
    /\ UNCHANGED <<hosting, ticks, snapshots, errorLog>>

LocalAnswers(s) ==
    /\ scan[s].at = "local"
    /\ scan[s].shell \in DOMAIN Shells
    /\ Shells[scan[s].shell] \notin TooOld
    /\ Scanned(s)

(* Too old, not there, a timeout, or invalid JSON: the next runtime.       *)
LocalFails(s) ==
    /\ scan[s].at = "local"
    /\ scan[s].shell \in DOMAIN Shells
    /\ Set(s, [scan[s] EXCEPT !.shell = @ + 1])
    /\ UNCHANGED <<hosting, ticks, snapshots, errorLog>>

(* No runtime is left: the failure is logged, if the log can be written.   *)
AllFailed(s) ==
    /\ scan[s].at = "local"
    /\ scan[s].shell \notin DOMAIN Shells
    /\ Set(s, [scan[s] EXCEPT !.at = "failed"])
    /\ \E logged \in BOOLEAN :
          errorLog' = IF logged THEN errorLog \cup {s} ELSE errorLog
    /\ UNCHANGED <<hosting, ticks, snapshots>>

(* savePaaSAvailabilitySnapshots: one INSERT for each row in a transaction.*)
SaveRow(s) ==
    /\ scan[s].at = "saving"
    /\ scan[s].saved < scan[s].rows
    /\ Set(s, [scan[s] EXCEPT !.saved = @ + 1])
    /\ UNCHANGED <<hosting, ticks, snapshots, errorLog>>

Run(s) == [run |-> s, service |-> scan[s].service, captured |-> scan[s].captured,
           rows |-> scan[s].saved]

SaveCommits(s) ==
    /\ scan[s].at = "saving"
    /\ scan[s].saved = scan[s].rows
    /\ snapshots' = snapshots \cup {Run(s)}
    /\ Set(s, [scan[s] EXCEPT !.at = "finishing", !.runId = TRUE])
    /\ UNCHANGED <<hosting, ticks, errorLog>>

(* A rolled back transaction answers with the run identifier all the same. *)
RolledBackWithRun(s) ==
    /\ scan[s].at = "saving"
    /\ Set(s, [scan[s] EXCEPT !.at = "finishing", !.runId = TRUE])
    /\ UNCHANGED <<hosting, ticks, snapshots, errorLog>>

(* An INSERT or the COMMIT fails: rolled back, and the error swallowed; or *)
(* there is no pool or no table, and nothing is tried.                     *)
SaveRolledBack(s) ==
    /\ scan[s].at = "saving"
    /\ Set(s, [scan[s] EXCEPT !.at = "finishing"])
    /\ UNCHANGED <<hosting, ticks, snapshots, errorLog>>

(* No transaction begins, or the ROLLBACK fails too: an exception, and a   *)
(* warning.                                                                *)
SaveThrows(s) ==
    /\ scan[s].at = "saving"
    /\ Set(s, [scan[s] EXCEPT !.at = "finishing", !.warning = TRUE])
    /\ \E logged \in BOOLEAN :
          errorLog' = IF logged THEN errorLog \cup {s} ELSE errorLog
    /\ UNCHANGED <<hosting, ticks, snapshots>>

(* The answer: ok, with the rows, the run and the warning.                 *)
Finish(s) ==
    /\ scan[s].at = "finishing"
    /\ Set(s, [scan[s] EXCEPT !.at = "ok"])
    /\ UNCHANGED <<hosting, ticks, snapshots, errorLog>>

PaaSStep(s) ==
    \/ RemoteAnswers(s) \/ RemoteFails(s)
    \/ LocalAnswers(s) \/ LocalFails(s) \/ AllFailed(s)
    \/ SaveRow(s) \/ SaveCommits(s) \/ SaveRolledBack(s) \/ SaveThrows(s)
    \/ Finish(s)

PaaSNext == \E s \in Scans : Start(s) \/ PaaSStep(s)

PaaSSpec == PaaSInit /\ [][PaaSNext]_paasVars

----------------------------------------------------------------------------
(* getLatestPaaSAvailabilitySnapshots: the newest capture requested for    *)
(* the service, and all rows of its run.                                   *)
StoredRuns(service) == {x \in snapshots : x.service = service}
NewestRun(service) ==
    {x \in StoredRuns(service) : \A y \in StoredRuns(service) : y.captured <= x.captured}

(* What an answer says is what the table has: a run identifier stands for  *)
(* a run stored with every row, and an answer without one left nothing;    *)
(* and what the page then reads is one scan, whole, and not older than any *)
(* that answered with a run, whichever of two scans was stored last.       *)
AnswersMatchTheStore ==
    /\ \A s \in Scans : scan[s].at = "ok" =>
          IF scan[s].runId
          THEN /\ \E x \in snapshots : x.run = s /\ x.rows = scan[s].rows
               /\ \A x \in NewestRun(scan[s].service) : x.captured >= scan[s].captured
          ELSE ~\E x \in snapshots : x.run = s
    /\ \A service \in Services : Cardinality(NewestRun(service)) <= 1
=============================================================================
