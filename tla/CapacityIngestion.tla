-------------------------- MODULE CapacityIngestion --------------------------
(***************************************************************************)
(* The ingestion subsystem of one dashboard process.                       *)
(*                                                                         *)
(* runCapacityIngestion (azureIngestionService.js) is entered from three   *)
(* places: background jobs queued by POST /api/admin/ingest/capacity, the  *)
(* timers armed by applyIngestionScheduler, and requests to                *)
(* POST /internal/ingest/capacity.  They share the in-memory ingestStatus, *)
(* the in-memory job map and the SQL tables.                               *)
(*                                                                         *)
(* A step is what Node runs between two awaits: everything a callback does *)
(* synchronously, and the continuations that follow in the same turn of    *)
(* the event loop, happen at once; any other callback may run in between.  *)
(***************************************************************************)
EXTENDS Integers

CONSTANTS
    Jobs,           \* job ids (randomUUID): each is handed out at most once
    Ticks,          \* timer callbacks of the scheduler, each fires at most once
    Requests,       \* requests to the internal route
    MaxRestarts,    \* how often the process may be restarted
    RejectionFatal  \* an unhandled promise rejection ends the process

Callers == Jobs \cup Ticks \cup Requests

ASSUME CallersDisjoint ==
    /\ Jobs \cap Ticks = {}
    /\ Jobs \cap Requests = {}
    /\ Ticks \cap Requests = {}

ASSUME ParametersOK ==
    /\ MaxRestarts \in Nat
    /\ RejectionFatal \in BOOLEAN

VARIABLES
    jobs,       \* ingestionJobs: job id -> its status and whether its TTL passed
    status,     \* ingestStatus: what the status routes report
    run,        \* caller -> where its callback is and the locals of its run
    clock,      \* number of runs started: the time stamps of the model
    snapshots,  \* captures whose rows are in dbo.CapacitySnapshot
    scores,     \* captures whose rows are in dbo.CapacityScoreSnapshot
    scoresFrom, \* the clock when that table came to exist, NoTable before
    models,     \* captures whose rows are in the AI model catalog
    opLog,      \* rows of dbo.DashboardOperationLog: <<job, outcome>>
    restarts    \* bounds Restart

db == <<snapshots, scores, scoresFrom, models, opLog>>
vars == <<jobs, status, run, clock, snapshots, scores, scoresFrom, models, opLog, restarts>>

NoTable == -1

(***************************************************************************)
(* Jobs.                                                                   *)
(***************************************************************************)
JobStatuses == {"absent", "queued", "running", "completed", "failed"}
ActiveStatuses == {"queued", "running"}
TerminalStatuses == {"completed", "failed"}

NoJob == [status |-> "absent", expired |-> FALSE]

IsActive(j) == jobs[j].status \in ActiveStatuses

\* Mutant: the TTL ignores whether the job has completed.
CleanedByAge ==
    [j \in Jobs |-> IF jobs[j].expired \/ jobs[j].status = "running"
                    THEN NoJob ELSE jobs[j]]

\* cleanupIngestionJobs: every handler of the job routes starts with it.
Cleaned == [j \in Jobs |-> IF jobs[j].expired THEN NoJob ELSE jobs[j]]

JobIs(j, s) == jobs' = [jobs EXCEPT ![j] = [status |-> s, expired |-> FALSE]]

(***************************************************************************)
(* Runs.  The stages of a caller, in the order of the awaits it passes.    *)
(***************************************************************************)
RunStages == {"fetch", "snapshots", "scores", "catalog", "finish"}
LogStages == {"logSuccess", "logFailed"}
Stages == RunStages \cup LogStages \cup {"unused", "queued", "done"}

InRun(c) == run[c].stage \in RunStages

GoTo(c, s) == run' = [run EXCEPT ![c].stage = s]

\* A callback that has no run, or none any more: its locals are gone.
At(s) == [stage |-> s, at |-> 0, rows |-> FALSE]

Errors == {"none", "failed", "alreadyRunning"}

IdleStatus ==
    [inProgress |-> FALSE, lastRun |-> 0, lastError |-> "none", lastSuccess |-> 0]

Init ==
    /\ jobs = [j \in Jobs |-> NoJob]
    /\ status = IdleStatus
    /\ run = [c \in Callers |-> At("unused")]
    /\ clock = 0
    /\ snapshots = {} /\ scores = {} /\ models = {} /\ opLog = {}
    /\ scoresFrom \in {NoTable, 0}
    /\ restarts = 0

\* Mutant: the guard of runCapacityIngestion is missing.
RunIsAlwaysFree == TRUE

RunIsFree == ~status.inProgress

\* The head of runCapacityIngestion, past its guard.
BeginRun(c) ==
    /\ RunIsFree
    /\ clock' = clock + 1
    /\ status' = [status EXCEPT !.inProgress = TRUE, !.lastRun = clock + 1,
                                !.lastError = "none"]
    /\ run' = [run EXCEPT ![c] = [stage |-> "fetch", at |-> clock + 1,
                                  rows |-> FALSE]]

\* Mutant: the job callback has no catch block.
AfterFailureUncaught(c) ==
    UNCHANGED jobs /\ run' = [run EXCEPT ![c] = At("done")]

\* What the caller does once its run has thrown, or was refused, in the same turn.
AfterFailure(c) ==
    IF c \in Jobs
    THEN JobIs(c, "failed") /\ run' = [run EXCEPT ![c] = At("logFailed")]
    ELSE UNCHANGED jobs /\ run' = [run EXCEPT ![c] = At("done")]

AfterSuccess(c) ==
    IF c \in Jobs THEN JobIs(c, "completed") /\ GoTo(c, "logSuccess")
                  ELSE UNCHANGED jobs /\ GoTo(c, "done")

(***************************************************************************)
(* Arrivals.                                                               *)
(***************************************************************************)

NoActiveJob == \A k \in Jobs : ~IsActive(k)

\* POST /api/admin/ingest/capacity when it neither finds an active job nor a
\* run in progress: queueCapacityIngestionJob and its setImmediate.
QueueJob(j) ==
    /\ run[j].stage = "unused"
    /\ NoActiveJob
    /\ ~status.inProgress
    /\ jobs' = [Cleaned EXCEPT ![j] = [status |-> "queued", expired |-> FALSE]]
    /\ GoTo(j, "queued")
    /\ UNCHANGED <<status, clock, db, restarts>>

\* Every other call of the job routes (a POST that is answered with the active
\* job or with 409, the status route, GET jobs/:jobId) only cleans the map up.
CleanupJobs ==
    /\ Cleaned # jobs
    /\ jobs' = Cleaned
    /\ UNCHANGED <<status, run, clock, db, restarts>>

\* Six hours pass since the job's completedAtUtc.
PassTTL(j) ==
    /\ jobs[j].status \in TerminalStatuses
    /\ ~jobs[j].expired
    /\ jobs' = [jobs EXCEPT ![j].expired = TRUE]
    /\ UNCHANGED <<status, run, clock, db, restarts>>

\* The setImmediate callback of a queued job.
JobStart(j) ==
    /\ run[j].stage = "queued"
    /\ BeginRun(j)
    /\ JobIs(j, "running")
    /\ UNCHANGED <<db, restarts>>

\* The same callback when another caller entered runCapacityIngestion first.
JobRefused(j) ==
    /\ run[j].stage = "queued"
    /\ status.inProgress
    /\ AfterFailure(j)
    /\ UNCHANGED <<status, clock, db, restarts>>

TickStart(t) ==
    /\ run[t].stage = "unused"
    /\ BeginRun(t)
    /\ UNCHANGED <<jobs, db, restarts>>

\* The .catch of the timer callbacks stores the refusal in the shared status.
TickRefused(t) ==
    /\ run[t].stage = "unused"
    /\ status.inProgress
    /\ status' = [status EXCEPT !.lastError = "alreadyRunning"]
    /\ GoTo(t, "done")
    /\ UNCHANGED <<jobs, clock, db, restarts>>

RequestStart(r) ==
    /\ run[r].stage = "unused"
    /\ BeginRun(r)
    /\ UNCHANGED <<jobs, db, restarts>>

RequestRefused(r) ==
    /\ run[r].stage = "unused"
    /\ status.inProgress
    /\ GoTo(r, "done")
    /\ UNCHANGED <<jobs, status, clock, db, restarts>>

(***************************************************************************)
(* The body of runCapacityIngestion.                                       *)
(***************************************************************************)

\* Token, subscriptions, settings and every region have answered.  A region that
\* failed contributes no rows; all of them may have failed, or have nothing.
Fetch(c) ==
    /\ run[c].stage = "fetch"
    /\ \E rows \in BOOLEAN :
          run' = [run EXCEPT ![c].stage = "snapshots", ![c].rows = rows]
    /\ UNCHANGED <<jobs, status, clock, db, restarts>>

\* insertCapacitySnapshots: one transaction, or nothing for no rows.
InsertSnapshots(c) ==
    /\ run[c].stage = "snapshots"
    /\ snapshots' = IF run[c].rows THEN snapshots \cup {run[c].at} ELSE snapshots
    /\ GoTo(c, "scores")
    /\ UNCHANGED <<jobs, status, clock, scores, scoresFrom, models, opLog, restarts>>

\* Mutant: a failing transaction is swallowed.
InsertScoresSwallowed(c) ==
    /\ run[c].stage = "scores"
    /\ scores' \in {scores, scores \cup {run[c].at}}
    /\ GoTo(c, "catalog")
    /\ UNCHANGED <<jobs, status, clock, snapshots, scoresFrom, models, opLog, restarts>>

\* insertCapacityScoreSnapshots: a transaction of its own, or nothing for no rows and
\* nothing where the table does not exist: the run goes on as if it had stored them.
InsertScores(c) ==
    /\ run[c].stage = "scores"
    /\ scores' = IF run[c].rows /\ scoresFrom # NoTable THEN scores \cup {run[c].at}
                 ELSE scores
    /\ GoTo(c, "catalog")
    /\ UNCHANGED <<jobs, status, clock, snapshots, scoresFrom, models, opLog, restarts>>

\* The AI model catalog is refreshed only when it is enabled, due and not empty.
RefreshModels(c) ==
    /\ run[c].stage = "catalog"
    /\ models' \in {models, models \cup {run[c].at}}
    /\ GoTo(c, "finish")
    /\ UNCHANGED <<jobs, status, clock, snapshots, scores, scoresFrom, opLog, restarts>>

\* The last part of the try block, finally, and the caller's continuation.
FinishRun(c) ==
    /\ run[c].stage = "finish"
    /\ status' = [status EXCEPT !.inProgress = FALSE,
                                !.lastSuccess = run[c].at]
    /\ AfterSuccess(c)
    /\ UNCHANGED <<clock, db, restarts>>

\* Mutants: no finally block; the error is not stored.
FlagLeftUp == [status EXCEPT !.lastError = "failed"]
ErrorLost == [status EXCEPT !.inProgress = FALSE]

StatusAfterFailure ==
    [status EXCEPT !.inProgress = FALSE, !.lastError = "failed"]

\* Any await before that rejects: catch, finally, and the caller's catch.
AbortRun(c) ==
    /\ run[c].stage \in RunStages \ {"finish"}
    /\ status' = StatusAfterFailure
    /\ AfterFailure(c)
    /\ UNCHANGED <<clock, db, restarts>>

(***************************************************************************)
(* logDashboardOperation, as the job callback awaits it.  It throws when    *)
(* the pool or the table check fails; a failing INSERT is swallowed.       *)
(***************************************************************************)
\* Mutant: the INSERT is outside the inner try block and may throw when only its
\* answer is lost.
WriteLogRowUnguarded(j) ==
    /\ run[j].stage \in LogStages
    /\ opLog' = opLog \cup
         {<<j, IF run[j].stage = "logSuccess" THEN "success" ELSE "failed">>}
    /\ \/ GoTo(j, "done") /\ UNCHANGED jobs
       \/ run[j].stage = "logSuccess" /\ AfterFailure(j)
    /\ UNCHANGED <<status, clock, snapshots, scores, scoresFrom, models, restarts>>

WriteLogRow(j) ==
    /\ run[j].stage \in LogStages
    /\ opLog' = opLog \cup
         {<<j, IF run[j].stage = "logSuccess" THEN "success" ELSE "failed">>}
    /\ GoTo(j, "done")
    /\ UNCHANGED <<jobs, status, clock, snapshots, scores, scoresFrom, models, restarts>>

SkipLogRow(j) ==
    /\ run[j].stage \in LogStages
    /\ GoTo(j, "done")
    /\ UNCHANGED <<jobs, status, clock, db, restarts>>

\* The success entry is written inside the try block: its failure is caught by
\* the handler that marks the job failed.
SuccessLogThrows(j) ==
    /\ run[j].stage = "logSuccess"
    /\ AfterFailure(j)
    /\ UNCHANGED <<status, clock, db, restarts>>

\* The process ends and is started again: memory is lost, the database is not.
LoseMemory ==
    /\ jobs' = [j \in Jobs |-> NoJob]
    /\ status' = IdleStatus
    /\ run' = [c \in Callers |->
                 IF run[c].stage \in {"unused", "done"} THEN run[c] ELSE At("done")]
    /\ UNCHANGED <<clock, db>>

\* Nobody catches the failure of the entry written by the catch block.
FailureLogThrows(j) ==
    /\ run[j].stage = "logFailed"
    /\ IF RejectionFatal THEN LoseMemory
       ELSE GoTo(j, "done") /\ UNCHANGED <<jobs, status, clock, db>>
    /\ UNCHANGED restarts

\* A bootstrap or a migration of the database creates the table of the scores.
ScoreTableCreated ==
    /\ scoresFrom = NoTable
    /\ scoresFrom' = clock
    /\ UNCHANGED <<jobs, status, run, clock, snapshots, scores, models, opLog, restarts>>

Restart ==
    /\ restarts < MaxRestarts
    /\ restarts' = restarts + 1
    /\ LoseMemory

(***************************************************************************)
(* Specification.                                                          *)
(***************************************************************************)

RunStep(c) ==
    \/ Fetch(c)
    \/ InsertSnapshots(c)
    \/ InsertScores(c)
    \/ RefreshModels(c)
    \/ FinishRun(c)
    \/ AbortRun(c)

LogStep(j) ==
    \/ WriteLogRow(j)
    \/ SkipLogRow(j)
    \/ SuccessLogThrows(j)
    \/ FailureLogThrows(j)

JobCallback(j) == JobStart(j) \/ JobRefused(j) \/ LogStep(j)

Next ==
    \/ \E j \in Jobs : QueueJob(j) \/ PassTTL(j) \/ JobCallback(j)
    \/ \E t \in Ticks : TickStart(t) \/ TickRefused(t)
    \/ \E r \in Requests : RequestStart(r) \/ RequestRefused(r)
    \/ \E c \in Callers : RunStep(c)
    \/ CleanupJobs
    \/ ScoreTableCreated
    \/ Restart

\* The stages in which a run waits for Azure.  armGetPage gives up a silent socket
\* after 30 seconds, but a response that ends before its body is complete emits
\* neither "end" nor an error of the request: such an await never ends.
WaitsForAzure(c) == run[c].stage \in {"fetch", "catalog"}

\* The rest of a run waits for the database only.
DatabaseStep(c) ==
    \/ InsertSnapshots(c) \/ InsertScores(c) \/ FinishRun(c)
    \/ ~WaitsForAzure(c) /\ AbortRun(c)

\* Node runs every pending callback, and SQL requests have the driver's timeout.
\* Azure need not answer, and nobody has to queue a job, call a route or restart
\* the process.
Fairness ==
    /\ \A j \in Jobs : WF_vars(JobCallback(j))
    /\ \A c \in Callers : WF_vars(DatabaseStep(c))

Spec == Init /\ [][Next]_vars
FairSpec == Spec /\ Fairness

(***************************************************************************)
(* Properties.                                                             *)
(***************************************************************************)

JobRecord == [status : JobStatuses, expired : BOOLEAN]
StatusRecord == [inProgress : BOOLEAN, lastRun : Nat, lastError : Errors,
                 lastSuccess : Nat]
RunRecord == [stage : Stages, at : Nat, rows : BOOLEAN]

\* Every variable has its type; time stamps and captures are run numbers.
TypeOK ==
    /\ clock \in Nat
    /\ jobs \in [Jobs -> JobRecord]
    /\ status \in StatusRecord
    /\ run \in [Callers -> RunRecord]
    /\ snapshots \subseteq Nat
    /\ scores \subseteq Nat
    /\ scoresFrom \in Nat \cup {NoTable}
    /\ models \subseteq Nat
    /\ opLog \subseteq Jobs \X {"success", "failed"}
    /\ restarts \in Nat

\* runCapacityIngestion is never executed by two callers at a time, whatever
\* mixture of jobs, timers and internal requests enters it.
MutualExclusion == \A c, d \in Callers : InRun(c) /\ InRun(d) => c = d

\* The inProgress flag is up exactly while some caller is inside the run: it is
\* never left up after a failure, which would refuse every later run.
InProgressExact == status.inProgress <=> \E c \in Callers : InRun(c)

\* An active job always has a callback that is going to settle it: a job left
\* active by a dead callback would be returned to every POST for ever, since
\* the TTL of cleanupIngestionJobs only counts from completedAtUtc.
NoStrandedJob ==
    \A j \in Jobs :
        /\ jobs[j].status = "queued" <=> run[j].stage = "queued"
        /\ jobs[j].status = "running" <=> InRun(j)

\* Scores are only ever stored for a capture whose snapshots are stored.
ScoresFollowSnapshots == scores \subseteq snapshots

\* Runs begun after the table of the scores was created have somewhere to store them.
ScoresExpected(c) == scoresFrom # NoTable /\ run[c].at > scoresFrom

Durable(c) ==
    run[c].rows => /\ run[c].at \in snapshots
                   /\ ScoresExpected(c) => run[c].at \in scores

\* Whatever reports a success - ingestStatus.lastSuccessUtc, a completed job, a
\* success entry of the operation log - the rows of that run are in dbo.CapacitySnapshot,
\* and its scores too if their table was there when it began.
ReportedSuccessIsDurable ==
    \A c \in Callers :
        \/ run[c].at # 0 /\ run[c].at = status.lastSuccess
        \/ c \in Jobs /\ jobs[c].status = "completed"
        \/ <<c, "success">> \in opLog
        => Durable(c)

\* The operation log has at most one entry for a job and agrees with the status
\* that the job ends with, although a failing success entry turns a completed
\* job into a failed one.
LogAgreesWithJob ==
    \A entry \in opLog :
        LET j == entry[1]
            final == IF entry[2] = "success" THEN "completed" ELSE "failed"
        IN  /\ jobs[j].status \in {final, "absent"}
            /\ \A other \in opLog : other[1] = j => other = entry

\* lastRunStatus of GET /api/admin/config.
LastRunStatus ==
    IF status.lastRun = 0 THEN "never"
    ELSE IF status.lastError # "none" THEN "error" ELSE "success"

\* A run that failed is never reported as a success once it has ended.
FailureIsReported ==
    ~status.inProgress /\ LastRunStatus = "success"
        => status.lastSuccess = status.lastRun

\* The dashboard reads the rows with the latest capturedAtUtc: captures become
\* visible in the order of their time stamps, a slow run never appends an older
\* capture behind a newer one.
CapturesInOrder ==
    [][\A new \in snapshots' \ snapshots, old \in snapshots : old < new]_snapshots

Rank(s) == CASE s = "absent" -> 0 [] s = "queued" -> 1 [] s = "running" -> 2
             [] s = "completed" -> 3 [] s = "failed" -> 4

\* A job only moves forward, a failed job stays failed, and a job disappears only
\* when it was settled, unless the process has lost its memory.
JobsMoveForward ==
    [][\A j \in Jobs :
          \/ Rank(jobs'[j].status) >= Rank(jobs[j].status)
          \/ jobs[j].status \in TerminalStatuses /\ jobs'[j].status = "absent"
          \/ status' = IdleStatus]_vars

\* The subsystem implements the abstract publisher: the capture in progress is
\* the last one begun, for as long as the flag is up.
Publisher == INSTANCE SnapshotPublisher WITH
    current <- IF status.inProgress THEN clock ELSE 0,
    begun <- clock

PublishesInTurn == Publisher!Spec

\* A queued job is settled, or lost with the process: the one thing that can keep it
\* active for ever is a call to Azure, made by its own run, that never returns.
JobsSettle ==
    \A j \in Jobs : [](IsActive(j) => <>(~IsActive(j) \/ []WaitsForAzure(j)))

\* A run ends, and with it the refusal of the other callers, or waits for Azure for
\* ever: nothing else leaves the flag up.
RunsEnd ==
    \A c \in Callers :
        [](InRun(c) => <>(~status.inProgress \/ []WaitsForAzure(c)))

=============================================================================
