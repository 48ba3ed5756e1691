------------------------------ MODULE JobWatch ------------------------------
(***************************************************************************)
(* Three clients that follow a background run of the server by polling:    *)
(* the admin page of the React app, the admin page of the classic app, and *)
(* waitForQuotaApplyJob.  The server keeps its jobs in memory only: after  *)
(* a restart it answers 404.  Answers may arrive in any order, and a poll  *)
(* of the React page waits for two of them.                                *)
(***************************************************************************)
EXTENDS Naturals

CONSTANTS
    MaxJobs,        \* ingestion jobs that are started
    MaxRestarts,    \* restarts of the server
    MaxFailures,    \* requests that fail
    MaxVisits       \* how often the React admin page is opened

VARIABLES
    watcher,        \* the client a behaviour is about: "react", "classic" or "wait"
    jobs,           \* the ingestion jobs of the server: [id -> status]
    timer,          \* a run of the scheduler is in progress
    apply,          \* the quota apply job
    restarts, failures,
    react,          \* adminState and the view: [open, visits, job, status, inProgress]
    classic,        \* [polling, busy, tracked] : the interval, the button, currentIngestJobId
    wait,           \* waitForQuotaApplyJob: "no", "waiting", "completed", "threw"
    calls           \* [slot -> a request with what the server has answered so far]

watchVars == <<watcher, jobs, timer, apply, restarts, failures, react, classic, wait, calls>>

Slots == {"call1", "call2"}
Ids == 1..MaxJobs
Active == {"queued", "running"}
Finished == {"completed", "failed"}

Free == [kind |-> "free"]
NoAnswer == [active |-> 0, status |-> "unread", inProgress |-> FALSE]

\* The status that the classic page reads once, when it has loaded or has triggered a
\* run; it starts no polling.
FirstSync == [kind |-> "firstSync", job |-> 0, jobStatus |-> "none", answer |-> NoAnswer]

ActiveJob == IF \E i \in Ids : jobs[i] \in Active
             THEN CHOOSE i \in Ids : jobs[i] \in Active ELSE 0
InProgress == timer \/ \E i \in Ids : jobs[i] = "running"
StatusOf(i) == IF i = 0 THEN "none" ELSE jobs[i]

WatchInit ==
    /\ watcher \in {"react", "classic", "wait"}
    /\ jobs = [i \in Ids |-> "none"] /\ timer = FALSE /\ apply = "none"
    /\ restarts = 0 /\ failures = 0
    /\ react = [open |-> FALSE, visits |-> 0, job |-> 0, status |-> "none",
                inProgress |-> FALSE]
    /\ classic = [polling |-> FALSE, busy |-> FALSE, tracked |-> 0]
    /\ wait = "no"
    /\ calls = [s \in Slots |-> IF s = "call1" /\ watcher = "classic" THEN FirstSync
                            ELSE Free]

server == <<jobs, timer, apply, restarts>>
clients == <<watcher, react, classic, wait>>

----------------------------------------------------------------------------
(* The server.                                                             *)
Advance(i) ==
    /\ \/ jobs[i] = "queued" /\ ~InProgress /\ jobs' = [jobs EXCEPT ![i] = "running"]
       \/ jobs[i] = "queued" /\ InProgress /\ jobs' = [jobs EXCEPT ![i] = "failed"]
       \/ jobs[i] = "running" /\ \E s \in Finished : jobs' = [jobs EXCEPT ![i] = s]
    /\ UNCHANGED <<timer, apply, restarts, failures, clients, calls>>

AdvanceApply ==
    /\ \/ apply = "queued" /\ apply' = "running"
       \/ apply = "running" /\ apply' \in Finished
    /\ UNCHANGED <<jobs, timer, restarts, failures, clients, calls>>

TimerStarts ==
    /\ ~InProgress
    /\ timer' = TRUE
    /\ UNCHANGED <<jobs, apply, restarts, failures, clients, calls>>

TimerEnds ==
    /\ timer
    /\ timer' = FALSE
    /\ UNCHANGED <<jobs, apply, restarts, failures, clients, calls>>

Restart ==
    /\ restarts < MaxRestarts
    /\ restarts' = restarts + 1
    /\ jobs' = [i \in Ids |-> IF jobs[i] = "none" THEN "none" ELSE "lost"]
    /\ apply' = IF apply = "none" THEN "none" ELSE "lost"
    /\ timer' = FALSE
    /\ UNCHANGED <<failures, clients, calls>>

IsNext(i) == jobs[i] = "none" /\ \A k \in 1..(i - 1) : jobs[k] # "none"

\* POST /api/admin/ingest/capacity: the active job, a conflict, or a new job.
Post(s, kind) ==
    /\ IF ActiveJob # 0 \/ InProgress THEN UNCHANGED jobs
       ELSE \E i \in Ids : IsNext(i) /\ jobs' = [jobs EXCEPT ![i] = "queued"]
    /\ calls' = [calls EXCEPT ![s] =
         [kind |-> kind, job |-> 0, jobStatus |-> "none",
          answer |-> [active |-> ActiveJob', status |-> StatusOf(ActiveJob)',
                      inProgress |-> InProgress]]]

\* The other clients of the server start runs, too.
OtherTriggers ==
    /\ ActiveJob = 0 /\ ~InProgress
    /\ \E i \in Ids : /\ IsNext(i)
                      /\ jobs' = [jobs EXCEPT ![i] = "queued"]
    /\ UNCHANGED <<timer, apply, restarts, failures, clients, calls>>

\* GET status and GET jobs/:jobId are read one at a time.
ReadStatus(s) ==
    /\ calls[s].kind \in {"load", "poll", "sync", "firstSync"}
    /\ calls[s].answer = NoAnswer
    /\ calls' = [calls EXCEPT ![s].answer =
                   [active |-> ActiveJob, status |-> StatusOf(ActiveJob),
                    inProgress |-> InProgress]]
    /\ UNCHANGED <<server, failures, clients>>

ReadJob(s) ==
    /\ calls[s].kind = "poll" /\ calls[s].jobStatus = "unread"
    /\ calls' = [calls EXCEPT ![s].jobStatus = jobs[calls[s].job]]
    /\ UNCHANGED <<server, failures, clients>>

Ask(s, kind, i) ==
    /\ calls[s] = Free
    /\ calls' = [calls EXCEPT ![s] = [kind |-> kind, job |-> i, answer |-> NoAnswer,
                                      jobStatus |-> IF i = 0 THEN "none" ELSE "unread"]]

Answered(s, kind) ==
    /\ calls[s].kind = kind
    /\ calls[s].answer # NoAnswer /\ calls[s].jobStatus # "unread"
Release(s) == calls' = [calls EXCEPT ![s] = Free]

----------------------------------------------------------------------------
(* The React page.                                                         *)
\* The interval runs while the job it knows is active, or a run is in progress.
JobRunning == react.job # 0 /\ react.status \in Active
ReactPolls == react.open /\ (JobRunning \/ react.inProgress)

\* Leaving the page cancels a load, never a poll.
Open(s) ==
    /\ ~react.open /\ react.visits < MaxVisits
    /\ react' = [react EXCEPT !.open = TRUE, !.visits = @ + 1]
    /\ Ask(s, "load", 0)
    /\ UNCHANGED <<server, failures, watcher, classic, wait>>

Leave ==
    /\ react.open
    /\ react' = [react EXCEPT !.open = FALSE]
    /\ calls' = [s \in Slots |-> IF calls[s].kind = "load" THEN Free ELSE calls[s]]
    /\ UNCHANGED <<server, failures, watcher, classic, wait>>

ReactTrigger(s) ==
    /\ react.open /\ calls[s] = Free
    /\ Post(s, "post")
    /\ UNCHANGED <<timer, apply, restarts, failures, clients>>

Poll(s) ==
    /\ ReactPolls
    /\ Ask(s, "poll", IF JobRunning THEN react.job ELSE 0)
    /\ UNCHANGED <<server, failures, clients>>

Adopt(job, status, inProgress) ==
    react' = [react EXCEPT !.job = job, !.status = status, !.inProgress = inProgress]

\* As if a poll without a job kept the job that the page knows.
ReactHearsOnlyRuns(s) ==
    /\ \/ Answered(s, "load") \/ Answered(s, "poll") \/ Answered(s, "post")
    /\ IF calls[s].answer.active = 0 THEN UNCHANGED react
       ELSE Adopt(calls[s].answer.active, calls[s].answer.status, calls[s].answer.inProgress)
    /\ Release(s)
    /\ UNCHANGED <<server, failures, watcher, classic, wait>>

\* A load, a poll without a job and the answer to a POST take the active job; a poll
\* with a job takes that job, and a 404 changes nothing.
ReactHears(s) ==
    /\ \/ /\ Answered(s, "load") \/ (Answered(s, "poll") /\ calls[s].job = 0)
          /\ Adopt(calls[s].answer.active, calls[s].answer.status, calls[s].answer.inProgress)
       \/ /\ Answered(s, "poll") /\ calls[s].job # 0
          /\ IF calls[s].jobStatus = "lost" THEN UNCHANGED react
             ELSE Adopt(calls[s].job, calls[s].jobStatus, calls[s].answer.inProgress)
       \/ /\ Answered(s, "post")
          /\ IF calls[s].answer.active = 0 THEN UNCHANGED react
             ELSE Adopt(calls[s].answer.active, calls[s].answer.status,
                        calls[s].answer.inProgress)
    /\ Release(s)
    /\ UNCHANGED <<server, failures, watcher, classic, wait>>

----------------------------------------------------------------------------
(* The classic page.                                                       *)
ClassicTrigger(s) ==
    /\ ~classic.busy /\ calls[s] = Free
    /\ classic' = [classic EXCEPT !.busy = TRUE]
    /\ Post(s, "trigger")
    /\ UNCHANGED <<timer, apply, restarts, failures, watcher, react, wait>>

\* Also after a conflict: the polling starts, with a first status at once.
TriggerAnswered(s) ==
    /\ Answered(s, "trigger")
    /\ classic' = [polling |-> TRUE, busy |-> TRUE,
                   tracked |-> IF calls[s].answer.active # 0 THEN calls[s].answer.active
                               ELSE classic.tracked]
    /\ calls' = [calls EXCEPT ![s] = FirstSync]
    /\ UNCHANGED <<server, failures, watcher, react, wait>>

Sync(s) ==
    /\ classic.polling
    /\ Ask(s, "sync", 0)
    /\ UNCHANGED <<server, failures, clients>>

\* syncIngestStatus: still running, or the end of the polling.
ClassicHears(s) ==
    /\ Answered(s, "sync") \/ Answered(s, "firstSync")
    /\ LET a == calls[s].answer
           tracked == IF a.active # 0 THEN a.active ELSE classic.tracked
       IN  classic' = IF a.status \in Active \/ a.inProgress
                      THEN [classic EXCEPT !.busy = TRUE, !.tracked = tracked]
                      ELSE [polling |-> FALSE, busy |-> FALSE, tracked |-> 0]
    /\ Release(s)
    /\ UNCHANGED <<server, failures, watcher, react, wait>>

----------------------------------------------------------------------------
(* The wait for a quota apply job.                                         *)
ApplyTrigger ==
    /\ wait = "no"
    /\ wait' = "waiting"
    /\ apply' = "queued"
    /\ UNCHANGED <<jobs, timer, restarts, failures, watcher, react, classic, calls>>

\* The answer to one poll; a 404 is an error like any other.
WaitHears ==
    /\ wait = "waiting"
    /\ wait' = CASE apply \in Active -> "waiting"
                 [] apply = "completed" -> "completed"
                 [] OTHER -> "threw"
    /\ UNCHANGED <<server, failures, watcher, react, classic, calls>>

\* Ten minutes have passed, or a request failed: the job may still be running.
WaitThrows ==
    /\ wait = "waiting"
    /\ wait' = "threw"
    /\ UNCHANGED <<server, failures, watcher, react, classic, calls>>

----------------------------------------------------------------------------
\* An error keeps what the React page knows and ends the polling of the classic page,
\* except for the status that is read once.
Fail(s) ==
    /\ failures < MaxFailures
    /\ calls[s].kind # "free"
    /\ failures' = failures + 1
    /\ classic' = CASE calls[s].kind = "sync" -> [classic EXCEPT !.polling = FALSE, !.busy = FALSE]
                    [] calls[s].kind = "trigger" -> [classic EXCEPT !.busy = FALSE]
                    [] OTHER -> classic
    /\ Release(s)
    /\ UNCHANGED <<server, watcher, react, wait>>

ReactSteps(s) == ReadStatus(s) \/ ReadJob(s) \/ ReactHears(s) \/ Poll(s)
ClassicSteps(s) ==
    ReadStatus(s) \/ TriggerAnswered(s) \/ ClassicHears(s) \/ Sync(s)

WatchNext ==
    \/ \E i \in Ids : Advance(i)
    \/ TimerStarts \/ TimerEnds \/ Restart \/ OtherTriggers
    \/ \E s \in Slots : Fail(s)
    \/ /\ watcher = "react"
       /\ Leave \/ \E s \in Slots : Open(s) \/ ReactTrigger(s) \/ ReactSteps(s)
    \/ /\ watcher = "classic"
       /\ \E s \in Slots : ClassicTrigger(s) \/ ClassicSteps(s)
    \/ /\ watcher = "wait"
       /\ ApplyTrigger \/ AdvanceApply \/ WaitHears \/ WaitThrows

\* Runs end, and the timers and requests of the pages go on.
WatchFairness ==
    /\ WF_watchVars(TimerEnds) /\ WF_watchVars(AdvanceApply) /\ WF_watchVars(WaitHears)
    /\ \A i \in Ids : WF_watchVars(Advance(i))
    /\ \A s \in Slots :
          WF_watchVars(IF watcher = "react" THEN ReactSteps(s)
                       ELSE watcher = "classic" /\ ClassicSteps(s))

----------------------------------------------------------------------------
ServerIdle == ActiveJob = 0 /\ ~timer

\* The client still follows a run: a React page that polls, unless its job was lost in a
\* restart; a classic page that polls; a wait for a quota apply job.
Following ==
    CASE watcher = "react"   -> react.open /\ ReactPolls /\ StatusOf(react.job) # "lost"
      [] watcher = "classic" -> classic.polling
      [] watcher = "wait"    -> wait = "waiting"

\* Nobody follows for ever what has ended: while the server is idle, an open admin page
\* stops polling, in whatever order the answers come; and the wait for a quota apply job
\* ends.
EndedRunsAreShown ==
    Following ~> (~Following \/ (watcher # "wait" /\ ~ServerIdle))
=============================================================================
