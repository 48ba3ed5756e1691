----------------------- MODULE CapacityIngestionProofs -----------------------
(***************************************************************************)
(* Proofs about CapacityIngestion, for any sets of jobs, timer callbacks   *)
(* and requests, finite or not, and any number of restarts.                *)
(***************************************************************************)
EXTENDS CapacityIngestion, TLAPS

(***************************************************************************)
(* Type correctness, from the types of what the helpers assign.            *)
(***************************************************************************)

\* The records that the callbacks store have the types of the variables.
LEMMA Records ==
    /\ NoJob \in JobRecord
    /\ \A s \in JobStatuses : [status |-> s, expired |-> FALSE] \in JobRecord
    /\ IdleStatus \in StatusRecord
    /\ \A s \in Stages : At(s) \in RunRecord
  BY DEF NoJob, JobRecord, JobStatuses, IdleStatus, StatusRecord, Errors, At,
         RunRecord

\* Moving a callback to another stage keeps the type of run.
LEMMA GoToType ==
    ASSUME TypeOK, NEW c \in Callers, NEW s \in Stages, GoTo(c, s)
    PROVE  run' \in [Callers -> RunRecord]
  BY DEF TypeOK, GoTo, RunRecord

\* Setting a job's status keeps the type of jobs.
LEMMA JobIsType ==
    ASSUME TypeOK, NEW j \in Jobs, NEW s \in JobStatuses, JobIs(j, s)
    PROVE  jobs' \in [Jobs -> JobRecord]
  BY Records DEF TypeOK, JobIs

\* The clean-up of the job map keeps its type.
LEMMA CleanedType == TypeOK => Cleaned \in [Jobs -> JobRecord]
  BY Records DEF TypeOK, Cleaned

\* Entering the run keeps the types of what it sets.
LEMMA BeginRunType ==
    ASSUME TypeOK, NEW c \in Callers, BeginRun(c)
    PROVE  /\ clock' \in Nat
           /\ status' \in StatusRecord
           /\ run' \in [Callers -> RunRecord]
  <1>1. clock' \in Nat /\ clock + 1 \in Nat
    BY DEF TypeOK, BeginRun
  <1>2. status' \in StatusRecord
    BY <1>1 DEF TypeOK, BeginRun, StatusRecord, Errors
  <1>3. [stage |-> "fetch", at |-> clock + 1, rows |-> FALSE] \in RunRecord
    BY <1>1 DEF RunRecord, Stages, RunStages
  <1>4. run' \in [Callers -> RunRecord]
    BY <1>3 DEF TypeOK, BeginRun
  <1>5. QED
    BY <1>1, <1>2, <1>4

\* What the caller does at the end of its run keeps the types.
LEMMA AfterRunType ==
    ASSUME TypeOK, NEW c \in Callers, AfterFailure(c) \/ AfterSuccess(c)
    PROVE  jobs' \in [Jobs -> JobRecord] /\ run' \in [Callers -> RunRecord]
  <1>1. {"completed", "failed"} \subseteq JobStatuses
        /\ {"done", "logSuccess", "logFailed"} \subseteq Stages
    BY DEF JobStatuses, Stages, LogStages
  <1>2. CASE AfterFailure(c)
    <2>1. run' \in [Callers -> RunRecord]
      BY <1>1, <1>2, Records DEF AfterFailure, TypeOK
    <2>2. jobs' \in [Jobs -> JobRecord]
      BY <1>1, <1>2, JobIsType DEF AfterFailure, TypeOK
    <2>3. QED
      BY <2>1, <2>2
  <1>3. CASE AfterSuccess(c)
    <2>1. run' \in [Callers -> RunRecord]
      BY <1>1, <1>3, GoToType DEF AfterSuccess
    <2>2. jobs' \in [Jobs -> JobRecord]
      BY <1>1, <1>3, JobIsType DEF AfterSuccess, TypeOK
    <2>3. QED
      BY <2>1, <2>2
  <1>4. QED
    BY <1>2, <1>3

\* A restart leaves every variable with its type.
LEMMA LoseMemoryType ==
    ASSUME TypeOK, LoseMemory, restarts' \in Nat
    PROVE  TypeOK'
  <1>1. jobs' \in [Jobs -> JobRecord] /\ status' \in StatusRecord
    BY Records DEF LoseMemory
  <1>2. run' \in [Callers -> RunRecord]
    BY Records DEF LoseMemory, TypeOK, Stages
  <1>3. QED
    BY <1>1, <1>2 DEF TypeOK, LoseMemory, db

\* Every step keeps the type invariant.
THEOREM TypeCorrect == Spec => []TypeOK
  <1>1. Init => TypeOK
    BY Records DEF Init, TypeOK, Stages
  <1>2. TypeOK /\ [Next]_vars => TypeOK'
    <2> SUFFICES ASSUME TypeOK, [Next]_vars
                 PROVE  TypeOK'
      OBVIOUS
    <2>0. /\ Stages = {"fetch", "snapshots", "scores", "catalog", "finish",
                       "logSuccess", "logFailed", "unused", "queued", "done"}
          /\ {"queued", "running"} \subseteq JobStatuses
          /\ Jobs \subseteq Callers /\ Ticks \subseteq Callers
          /\ Requests \subseteq Callers
      BY DEF Stages, RunStages, LogStages, JobStatuses, Callers
    <2>1. ASSUME NEW j \in Jobs, QueueJob(j) PROVE TypeOK'
      <3>1. jobs' \in [Jobs -> JobRecord]
        BY <2>0, <2>1, CleanedType, Records DEF QueueJob
      <3>2. QED
        BY <2>0, <2>1, <3>1, GoToType DEF QueueJob, TypeOK, db
    <2>2. ASSUME NEW j \in Jobs, PassTTL(j) PROVE TypeOK'
      <3>1. jobs' \in [Jobs -> JobRecord]
        BY <2>2 DEF PassTTL, TypeOK, JobRecord
      <3>2. QED
        BY <2>2, <3>1 DEF PassTTL, TypeOK, db
    <2>3. ASSUME NEW j \in Jobs, JobStart(j) PROVE TypeOK'
      BY <2>0, <2>3, BeginRunType, JobIsType DEF JobStart, TypeOK, db
    <2>4. ASSUME NEW j \in Jobs, JobRefused(j) PROVE TypeOK'
      BY <2>0, <2>4, AfterRunType DEF JobRefused, TypeOK, db
    <2>5. ASSUME NEW t \in Ticks, TickStart(t) PROVE TypeOK'
      BY <2>0, <2>5, BeginRunType DEF TickStart, TypeOK, db
    <2>6. ASSUME NEW t \in Ticks, TickRefused(t) PROVE TypeOK'
      <3>1. status' \in StatusRecord
        BY <2>6 DEF TickRefused, TypeOK, StatusRecord, Errors
      <3>2. QED
        BY <2>0, <2>6, <3>1, GoToType DEF TickRefused, TypeOK, db
    <2>7. ASSUME NEW r \in Requests, RequestStart(r) PROVE TypeOK'
      BY <2>0, <2>7, BeginRunType DEF RequestStart, TypeOK, db
    <2>8. ASSUME NEW r \in Requests, RequestRefused(r) PROVE TypeOK'
      BY <2>0, <2>8, GoToType DEF RequestRefused, TypeOK, db
    <2>9. CASE CleanupJobs
      BY <2>9, CleanedType DEF CleanupJobs, TypeOK, db
    <2>10. CASE Restart
      BY <2>10, LoseMemoryType DEF Restart, TypeOK
    <2>11. ASSUME NEW c \in Callers, RunStep(c) PROVE TypeOK'
      <3>1. CASE Fetch(c)
        <4>1. PICK rows \in BOOLEAN :
                run' = [run EXCEPT ![c].stage = "snapshots", ![c].rows = rows]
          BY <3>1 DEF Fetch
        <4>2. run[c] \in RunRecord
          BY DEF TypeOK
        <4>3. [run[c] EXCEPT !.stage = "snapshots", !.rows = rows] \in RunRecord
          BY <2>0, <4>2 DEF RunRecord
        <4>4. run' \in [Callers -> RunRecord]
          BY <4>1, <4>3 DEF TypeOK
        <4>5. QED
          BY <3>1, <4>4 DEF Fetch, TypeOK, db
      <3>2. CASE InsertSnapshots(c)
        BY <2>0, <3>2, GoToType DEF InsertSnapshots, TypeOK, RunRecord
      <3>3. CASE InsertScores(c)
        BY <2>0, <3>3, GoToType DEF InsertScores, TypeOK, RunRecord
      <3>4. CASE RefreshModels(c)
        BY <2>0, <3>4, GoToType DEF RefreshModels, TypeOK, RunRecord
      <3>5. CASE FinishRun(c)
        <4>1. status' \in StatusRecord
          BY <3>5 DEF FinishRun, TypeOK, StatusRecord, RunRecord
        <4>2. QED
          BY <3>5, <4>1, AfterRunType DEF FinishRun, TypeOK, db
      <3>6. CASE AbortRun(c)
        <4>1. status' \in StatusRecord
          BY <3>6 DEF AbortRun, StatusAfterFailure, TypeOK, StatusRecord, Errors
        <4>2. QED
          BY <3>6, <4>1, AfterRunType DEF AbortRun, TypeOK, db
      <3>7. QED
        BY <2>11, <3>1, <3>2, <3>3, <3>4, <3>5, <3>6 DEF RunStep
    <2>12. ASSUME NEW j \in Jobs, LogStep(j) PROVE TypeOK'
      <3>1. CASE WriteLogRow(j)
        BY <2>0, <3>1, GoToType DEF WriteLogRow, TypeOK
      <3>2. CASE SkipLogRow(j)
        BY <2>0, <3>2, GoToType DEF SkipLogRow, TypeOK, db
      <3>3. CASE SuccessLogThrows(j)
        BY <2>0, <3>3, AfterRunType DEF SuccessLogThrows, TypeOK, db
      <3>4. CASE FailureLogThrows(j)
        <4>1. CASE RejectionFatal
          BY <3>4, <4>1, LoseMemoryType DEF FailureLogThrows, TypeOK
        <4>2. CASE ~RejectionFatal
          BY <2>0, <3>4, <4>2, GoToType DEF FailureLogThrows, TypeOK, db
        <4>3. QED
          BY <4>1, <4>2
      <3>5. QED
        BY <2>12, <3>1, <3>2, <3>3, <3>4 DEF LogStep
    <2>13. CASE UNCHANGED vars
      BY <2>13 DEF vars, TypeOK
    <2>14. CASE ScoreTableCreated
      BY <2>14 DEF ScoreTableCreated, TypeOK
    <2>15. QED
      BY <2>1, <2>2, <2>3, <2>4, <2>5, <2>6, <2>7, <2>8, <2>9, <2>10, <2>11,
         <2>12, <2>13, <2>14 DEF Next, JobCallback
  <1>3. QED
    BY <1>1, <1>2, PTL DEF Spec

(***************************************************************************)
(* Safety.  Mutual exclusion is not inductive alone: that a new run finds   *)
(* nobody inside needs the flag to be exact, that its capture is new needs  *)
(* all captures to be past, and that scores follow snapshots needs what a   *)
(* run has published to be known at each of its stages.                     *)
(***************************************************************************)

CapturesPast == \A n \in snapshots \cup scores : n <= clock

RunProgress ==
    \A c \in Callers : InRun(c) =>
        /\ clock > 0
        /\ run[c].at = clock
        /\ run[c].stage \in {"fetch", "snapshots"} => clock \notin snapshots
        /\ run[c].stage \in {"fetch", "snapshots", "scores"} => clock \notin scores
        /\ run[c].stage = "scores" /\ run[c].rows => clock \in snapshots

IInv ==
    /\ TypeOK
    /\ MutualExclusion
    /\ InProgressExact
    /\ CapturesPast
    /\ RunProgress
    /\ ScoresFollowSnapshots

\* A step that leaves the runs, the flag and the captures alone keeps IInv.
LEMMA QuietStep ==
    ASSUME IInv, TypeOK', UNCHANGED <<clock, snapshots, scores>>,
           status'.inProgress = status.inProgress,
           \A d \in Callers : InRun(d)' => run'[d] = run[d],
           \A d \in Callers : InRun(d) => run'[d] = run[d]
    PROVE  IInv'
  <1>1. \A d \in Callers : InRun(d)' <=> InRun(d)
    BY DEF InRun
  <1>2. MutualExclusion' /\ InProgressExact'
    BY <1>1 DEF IInv, MutualExclusion, InProgressExact
  <1>3. RunProgress'
    BY <1>1 DEF IInv, RunProgress
  <1>4. QED
    BY <1>2, <1>3 DEF IInv, CapturesPast, ScoresFollowSnapshots

\* Entering the run keeps IInv: nobody was inside, and the capture is new.
LEMMA BeginStep ==
    ASSUME IInv, TypeOK', NEW c \in Callers, BeginRun(c),
           UNCHANGED <<snapshots, scores>>
    PROVE  IInv'
  <1>1. clock \in Nat /\ clock' = clock + 1
    BY DEF IInv, TypeOK, BeginRun
  <1>2. /\ run'[c] = [stage |-> "fetch", at |-> clock + 1, rows |-> FALSE]
        /\ \A d \in Callers : d # c => run'[d] = run[d]
    BY DEF IInv, TypeOK, BeginRun
  <1>3. \A d \in Callers : ~InRun(d)
    BY DEF IInv, InProgressExact, BeginRun, RunIsFree
  <1>4. \A d \in Callers : InRun(d)' <=> d = c
    BY <1>2, <1>3 DEF InRun, RunStages
  <1>5. status'.inProgress = TRUE
    BY DEF IInv, TypeOK, StatusRecord, BeginRun
  <1>6. MutualExclusion' /\ InProgressExact'
    BY <1>4, <1>5 DEF MutualExclusion, InProgressExact
  <1>7. snapshots \subseteq Nat /\ scores \subseteq Nat
    BY DEF IInv, TypeOK
  <1>8. CapturesPast'
    BY <1>1, <1>7 DEF IInv, CapturesPast
  <1>9. clock' \notin snapshots \cup scores
    BY <1>1, <1>7 DEF IInv, CapturesPast
  <1>10. RunProgress'
    BY <1>1, <1>2, <1>4, <1>9 DEF RunProgress
  <1>11. QED
    BY <1>6, <1>8, <1>10 DEF IInv, ScoresFollowSnapshots

\* The end of a run keeps IInv: its caller was the only one inside.
LEMMA EndStep ==
    ASSUME IInv, TypeOK', NEW c \in Callers, InRun(c), ~InRun(c)',
           \A d \in Callers : d # c => run'[d] = run[d],
           status'.inProgress = FALSE,
           UNCHANGED <<clock, snapshots, scores>>
    PROVE  IInv'
  <1>1. \A d \in Callers : ~InRun(d)'
    BY DEF IInv, MutualExclusion, InRun
  <1>2. MutualExclusion' /\ InProgressExact' /\ RunProgress'
    BY <1>1 DEF MutualExclusion, InProgressExact, RunProgress
  <1>3. QED
    BY <1>2 DEF IInv, CapturesPast, ScoresFollowSnapshots

\* A restart keeps IInv, whatever it interrupts.
LEMMA LoseMemoryStep ==
    ASSUME IInv, TypeOK', LoseMemory
    PROVE  IInv'
  <1>1. \A d \in Callers : ~InRun(d)'
    BY DEF LoseMemory, InRun, RunStages, At
  <1>2. status'.inProgress = FALSE
    BY DEF LoseMemory, IdleStatus
  <1>3. MutualExclusion' /\ InProgressExact' /\ RunProgress'
    BY <1>1, <1>2 DEF MutualExclusion, InProgressExact, RunProgress
  <1>4. QED
    BY <1>3 DEF IInv, CapturesPast, ScoresFollowSnapshots, LoseMemory, db

\* A stage of a run that stays inside keeps everything but what it publishes.
LEMMA AdvanceStep ==
    ASSUME IInv, NEW c \in Callers, InRun(c), InRun(c)',
           \A d \in Callers : d # c => run'[d] = run[d],
           UNCHANGED status
    PROVE  /\ MutualExclusion' /\ InProgressExact'
           /\ \A d \in Callers : InRun(d)' => d = c
  <1>1. \A d \in Callers : InRun(d)' <=> d = c
    BY DEF IInv, MutualExclusion, InRun
  <1>2. QED
    BY <1>1 DEF IInv, MutualExclusion, InProgressExact

\* The callbacks that stay outside the run are quiet.
LEMMA OutsideStep ==
    ASSUME IInv, TypeOK', NEW c \in Callers, ~InRun(c), ~InRun(c)',
           \A d \in Callers : d # c => run'[d] = run[d],
           status'.inProgress = status.inProgress,
           UNCHANGED <<clock, snapshots, scores>>
    PROVE  IInv'
  <1>1. /\ \A d \in Callers : InRun(d)' => run'[d] = run[d]
        /\ \A d \in Callers : InRun(d) => run'[d] = run[d]
    OBVIOUS
  <1>2. QED
    BY <1>1, QuietStep

\* Where a callback goes, and that the others stay where they are.
LEMMA Moves ==
    ASSUME TypeOK, NEW c \in Callers
    PROVE  /\ \A s : GoTo(c, s) => /\ run'[c].stage = s
                                   /\ run'[c].at = run[c].at
                                   /\ run'[c].rows = run[c].rows
                                   /\ \A d \in Callers : d # c => run'[d] = run[d]
           /\ AfterFailure(c) \/ AfterSuccess(c) =>
                 /\ ~InRun(c)'
                 /\ \A d \in Callers : d # c => run'[d] = run[d]
  <1>1. \A s : GoTo(c, s) => /\ run'[c].stage = s
                             /\ run'[c].at = run[c].at
                             /\ run'[c].rows = run[c].rows
                             /\ \A d \in Callers : d # c => run'[d] = run[d]
    BY DEF TypeOK, RunRecord, GoTo
  <1>2. AfterFailure(c) => /\ ~InRun(c)'
                           /\ \A d \in Callers : d # c => run'[d] = run[d]
    BY DEF TypeOK, AfterFailure, InRun, RunStages, At
  <1>3. AfterSuccess(c) => /\ ~InRun(c)'
                           /\ \A d \in Callers : d # c => run'[d] = run[d]
    BY <1>1 DEF AfterSuccess, InRun, RunStages
  <1>4. QED
    BY <1>1, <1>2, <1>3

\* The stages of a run keep IInv.
LEMMA RunStepKeeps ==
    ASSUME IInv, TypeOK', NEW c \in Callers, RunStep(c)
    PROVE  IInv'
  <1>0. /\ TypeOK /\ run[c] \in RunRecord /\ clock \in Nat
        /\ RunStages = {"fetch", "snapshots", "scores", "catalog", "finish"}
    BY DEF IInv, TypeOK, RunStages
  <1>1. CASE Fetch(c)
    <2>1. /\ run[c].stage = "fetch" /\ run'[c].stage = "snapshots"
          /\ run'[c].at = run[c].at
          /\ \A d \in Callers : d # c => run'[d] = run[d]
      BY <1>0, <1>1 DEF Fetch, TypeOK, RunRecord
    <2>2. UNCHANGED <<status, clock, snapshots, scores>>
      BY <1>1 DEF Fetch, db
    <2>3. InRun(c) /\ InRun(c)'
      BY <1>0, <2>1 DEF InRun
    <2>4. /\ MutualExclusion' /\ InProgressExact'
          /\ \A d \in Callers : InRun(d)' => d = c
      BY <2>1, <2>2, <2>3, AdvanceStep
    <2>5. RunProgress'
      BY <2>1, <2>2, <2>3, <2>4 DEF IInv, RunProgress
    <2>6. QED
      BY <2>2, <2>4, <2>5 DEF IInv, CapturesPast, ScoresFollowSnapshots
  <1>2. CASE InsertSnapshots(c)
    <2>1. /\ run[c].stage = "snapshots" /\ run'[c].stage = "scores"
          /\ run'[c].at = run[c].at /\ run'[c].rows = run[c].rows
          /\ \A d \in Callers : d # c => run'[d] = run[d]
      BY <1>0, <1>2, Moves DEF InsertSnapshots
    <2>2. /\ UNCHANGED <<status, clock, scores>>
          /\ snapshots' = IF run[c].rows THEN snapshots \cup {run[c].at}
                          ELSE snapshots
      BY <1>2 DEF InsertSnapshots
    <2>3. InRun(c) /\ InRun(c)'
      BY <1>0, <2>1 DEF InRun
    <2>4. /\ MutualExclusion' /\ InProgressExact'
          /\ \A d \in Callers : InRun(d)' => d = c
      BY <2>1, <2>2, <2>3, AdvanceStep
    <2>5. run[c].at = clock
      BY <2>3 DEF IInv, RunProgress
    <2>6. RunProgress'
      BY <2>1, <2>2, <2>3, <2>4, <2>5 DEF IInv, RunProgress
    <2>7. CapturesPast' /\ ScoresFollowSnapshots'
      BY <1>0, <2>2, <2>5 DEF IInv, CapturesPast, ScoresFollowSnapshots
    <2>8. QED
      BY <2>4, <2>6, <2>7 DEF IInv
  <1>3. CASE InsertScores(c)
    <2>1. /\ run[c].stage = "scores" /\ run'[c].stage = "catalog"
          /\ run'[c].at = run[c].at
          /\ \A d \in Callers : d # c => run'[d] = run[d]
      BY <1>0, <1>3, Moves DEF InsertScores
    <2>2. /\ UNCHANGED <<status, clock, snapshots>>
          /\ scores' = IF run[c].rows /\ scoresFrom # NoTable
                       THEN scores \cup {run[c].at} ELSE scores
      BY <1>3 DEF InsertScores
    <2>3. InRun(c) /\ InRun(c)'
      BY <1>0, <2>1 DEF InRun
    <2>4. /\ MutualExclusion' /\ InProgressExact'
          /\ \A d \in Callers : InRun(d)' => d = c
      BY <2>1, <2>2, <2>3, AdvanceStep
    <2>5. run[c].at = clock /\ (run[c].rows => clock \in snapshots)
      BY <2>1, <2>3 DEF IInv, RunProgress
    <2>6. RunProgress'
      BY <2>1, <2>2, <2>3, <2>4 DEF IInv, RunProgress
    <2>7. CapturesPast' /\ ScoresFollowSnapshots'
      BY <1>0, <2>2, <2>5 DEF IInv, CapturesPast, ScoresFollowSnapshots
    <2>8. QED
      BY <2>4, <2>6, <2>7 DEF IInv
  <1>4. CASE RefreshModels(c)
    <2>1. /\ run[c].stage = "catalog" /\ run'[c].stage = "finish"
          /\ run'[c].at = run[c].at
          /\ \A d \in Callers : d # c => run'[d] = run[d]
      BY <1>0, <1>4, Moves DEF RefreshModels
    <2>2. UNCHANGED <<status, clock, snapshots, scores>>
      BY <1>4 DEF RefreshModels
    <2>3. InRun(c) /\ InRun(c)'
      BY <1>0, <2>1 DEF InRun
    <2>4. /\ MutualExclusion' /\ InProgressExact'
          /\ \A d \in Callers : InRun(d)' => d = c
      BY <2>1, <2>2, <2>3, AdvanceStep
    <2>5. RunProgress'
      BY <2>1, <2>2, <2>3, <2>4 DEF IInv, RunProgress
    <2>6. QED
      BY <2>2, <2>4, <2>5 DEF IInv, CapturesPast, ScoresFollowSnapshots
  <1>5. CASE FinishRun(c)
    <2>1. InRun(c) /\ status'.inProgress = FALSE
          /\ UNCHANGED <<clock, snapshots, scores>>
      BY <1>0, <1>5 DEF FinishRun, InRun, TypeOK, StatusRecord, db
    <2>2. QED
      BY <1>0, <1>5, <2>1, Moves, EndStep DEF FinishRun
  <1>6. CASE AbortRun(c)
    <2>1. InRun(c) /\ status'.inProgress = FALSE
          /\ UNCHANGED <<clock, snapshots, scores>>
      BY <1>0, <1>6 DEF AbortRun, StatusAfterFailure, InRun, TypeOK,
                        StatusRecord, db
    <2>2. QED
      BY <1>0, <1>6, <2>1, Moves, EndStep DEF AbortRun
  <1>7. QED
    BY <1>1, <1>2, <1>3, <1>4, <1>5, <1>6 DEF RunStep

\* So do the entries of the operation log.
LEMMA LogStepKeeps ==
    ASSUME IInv, TypeOK', NEW j \in Jobs, LogStep(j)
    PROVE  IInv'
  <1>0. /\ TypeOK /\ j \in Callers
        /\ LogStages = {"logSuccess", "logFailed"}
        /\ RunStages = {"fetch", "snapshots", "scores", "catalog", "finish"}
    BY DEF IInv, Callers, LogStages, RunStages
  <1>1. CASE WriteLogRow(j)
    <2>1. ~InRun(j) /\ ~InRun(j)'
          /\ UNCHANGED <<status, clock, snapshots, scores>>
      BY <1>0, <1>1, Moves DEF WriteLogRow, InRun
    <2>2. QED
      BY <1>0, <1>1, <2>1, Moves, OutsideStep DEF WriteLogRow
  <1>2. CASE SkipLogRow(j)
    <2>1. ~InRun(j) /\ ~InRun(j)'
          /\ UNCHANGED <<status, clock, snapshots, scores>>
      BY <1>0, <1>2, Moves DEF SkipLogRow, InRun, db
    <2>2. QED
      BY <1>0, <1>2, <2>1, Moves, OutsideStep DEF SkipLogRow
  <1>3. CASE SuccessLogThrows(j)
    <2>1. ~InRun(j) /\ UNCHANGED <<status, clock, snapshots, scores>>
      BY <1>0, <1>3 DEF SuccessLogThrows, InRun, db
    <2>2. QED
      BY <1>0, <1>3, <2>1, Moves, OutsideStep DEF SuccessLogThrows
  <1>4. CASE FailureLogThrows(j)
    <2>1. CASE RejectionFatal
      BY <1>4, <2>1, LoseMemoryStep DEF FailureLogThrows
    <2>2. CASE ~RejectionFatal
      <3>1. ~InRun(j) /\ ~InRun(j)'
            /\ UNCHANGED <<status, clock, snapshots, scores>>
        BY <1>0, <1>4, <2>2, Moves DEF FailureLogThrows, InRun, db
      <3>2. QED
        BY <1>0, <1>4, <2>2, <3>1, Moves, OutsideStep DEF FailureLogThrows
    <2>3. QED
      BY <2>1, <2>2
  <1>5. QED
    BY <1>1, <1>2, <1>3, <1>4 DEF LogStep

\* IInv holds initially, and every step keeps it.
THEOREM Inductive == Spec => []IInv
  <1>1. Init => IInv
    <2> SUFFICES ASSUME Init PROVE IInv
      OBVIOUS
    <2>1. TypeOK
      BY Records DEF Init, TypeOK, Stages
    <2>2. \A c \in Callers : ~InRun(c)
      BY DEF Init, InRun, RunStages, At
    <2>3. QED
      BY <2>1, <2>2 DEF Init, IInv, MutualExclusion, InProgressExact, IdleStatus,
                        CapturesPast, RunProgress, ScoresFollowSnapshots
  <1>2. IInv /\ TypeOK' /\ [Next]_vars => IInv'
    <2> SUFFICES ASSUME IInv, TypeOK', [Next]_vars
                 PROVE  IInv'
      OBVIOUS
    <2>0. /\ TypeOK
          /\ Jobs \subseteq Callers /\ Ticks \subseteq Callers
          /\ Requests \subseteq Callers
          /\ RunStages = {"fetch", "snapshots", "scores", "catalog", "finish"}
      BY DEF IInv, Callers, RunStages
    <2>1. ASSUME NEW j \in Jobs, QueueJob(j) PROVE IInv'
      <3>1. ~InRun(j) /\ ~InRun(j)' /\ UNCHANGED <<status, clock, snapshots, scores>>
        BY <2>0, <2>1, Moves DEF QueueJob, InRun, db
      <3>2. QED
        BY <2>0, <2>1, <3>1, Moves, OutsideStep DEF QueueJob
    <2>2. ASSUME NEW j \in Jobs, PassTTL(j) PROVE IInv'
      BY <2>2, QuietStep DEF PassTTL, db
    <2>3. ASSUME NEW j \in Jobs, JobStart(j) PROVE IInv'
      BY <2>0, <2>3, BeginStep DEF JobStart, db
    <2>4. ASSUME NEW j \in Jobs, JobRefused(j) PROVE IInv'
      <3>1. ~InRun(j) /\ UNCHANGED <<status, clock, snapshots, scores>>
        BY <2>0, <2>4 DEF JobRefused, InRun, db
      <3>2. QED
        BY <2>0, <2>4, <3>1, Moves, OutsideStep DEF JobRefused
    <2>5. ASSUME NEW t \in Ticks, TickStart(t) PROVE IInv'
      BY <2>0, <2>5, BeginStep DEF TickStart, db
    <2>6. ASSUME NEW t \in Ticks, TickRefused(t) PROVE IInv'
      <3>1. ~InRun(t) /\ ~InRun(t)' /\ UNCHANGED <<clock, snapshots, scores>>
        BY <2>0, <2>6, Moves DEF TickRefused, InRun, db
      <3>2. status'.inProgress = status.inProgress
        BY <2>0, <2>6 DEF TickRefused, TypeOK, StatusRecord
      <3>3. QED
        BY <2>0, <2>6, <3>1, <3>2, Moves, OutsideStep DEF TickRefused
    <2>7. ASSUME NEW r \in Requests, RequestStart(r) PROVE IInv'
      BY <2>0, <2>7, BeginStep DEF RequestStart, db
    <2>8. ASSUME NEW r \in Requests, RequestRefused(r) PROVE IInv'
      <3>1. ~InRun(r) /\ ~InRun(r)' /\ UNCHANGED <<status, clock, snapshots, scores>>
        BY <2>0, <2>8, Moves DEF RequestRefused, InRun, db
      <3>2. QED
        BY <2>0, <2>8, <3>1, Moves, OutsideStep DEF RequestRefused
    <2>9. CASE CleanupJobs
      BY <2>9, QuietStep DEF CleanupJobs, db
    <2>10. CASE Restart
      BY <2>10, LoseMemoryStep DEF Restart
    <2>11. ASSUME NEW c \in Callers, RunStep(c) PROVE IInv'
      BY <2>11, RunStepKeeps
    <2>12. ASSUME NEW j \in Jobs, LogStep(j) PROVE IInv'
      BY <2>12, LogStepKeeps
    <2>13. CASE UNCHANGED vars
      BY <2>13, QuietStep DEF vars, db
    <2>14. CASE ScoreTableCreated
      <3>1. UNCHANGED <<status, run, clock, snapshots, scores>> /\ TypeOK'
        BY <2>14, <2>0 DEF ScoreTableCreated, TypeOK
      <3>2. QED
        BY <3>1, QuietStep
    <2>15. QED
      BY <2>1, <2>2, <2>3, <2>4, <2>5, <2>6, <2>7, <2>8, <2>9, <2>10, <2>11,
         <2>12, <2>13, <2>14 DEF Next, JobCallback
  <1>3. QED
    BY <1>1, <1>2, TypeCorrect, PTL DEF Spec

\* Two callers are never inside the run together.
THEOREM RunsExclude == Spec => []MutualExclusion
  BY Inductive, PTL DEF IInv

\* The flag is up exactly while somebody is inside, however the run ends.
THEOREM FlagIsExact == Spec => []InProgressExact
  BY Inductive, PTL DEF IInv

\* Scores are stored only for captures whose snapshots are.
THEOREM ScoresHaveSnapshots == Spec => []ScoresFollowSnapshots
  BY Inductive, PTL DEF IInv

(***************************************************************************)
(* The job map follows the callbacks of the jobs.                          *)
(***************************************************************************)

\* Only a settled job expires: the cleanup that any call of the job routes makes
\* cannot take a job away from its callback.
Follows(j) ==
    /\ jobs[j].status = "queued" <=> run[j].stage = "queued"
    /\ jobs[j].status = "running" <=> InRun(j)
    /\ jobs[j].expired => jobs[j].status \in TerminalStatuses

JobsFollow == \A j \in Jobs : Follows(j)

\* A step of one callback leaves the jobs of the others alone.
LEMMA OneJobStep ==
    ASSUME JobsFollow, NEW c \in Callers,
           \A d \in Jobs : d # c => jobs'[d] = jobs[d] /\ run'[d] = run[d],
           c \in Jobs => Follows(c)'
    PROVE  JobsFollow'
  BY DEF JobsFollow, Follows, InRun

\* What JobIs does to the map.
LEMMA JobIsSteps ==
    ASSUME TypeOK, NEW j \in Jobs, NEW s, JobIs(j, s)
    PROVE  /\ jobs'[j] = [status |-> s, expired |-> FALSE]
           /\ \A d \in Jobs : d # j => jobs'[d] = jobs[d]
  BY DEF TypeOK, JobIs

\* The end of a run, or its refusal, settles the job of the callback.
LEMMA Settles ==
    ASSUME TypeOK, JobsFollow, NEW c \in Callers,
           AfterFailure(c) \/ AfterSuccess(c)
    PROVE  JobsFollow'
  <1>1. \A d \in Callers : d # c => run'[d] = run[d]
    BY Moves
  <1>2. CASE c \in Jobs
    <2>1. /\ run'[c].stage \in {"logFailed", "logSuccess"}
          /\ \/ JobIs(c, "failed")
             \/ JobIs(c, "completed")
      BY <1>2, Moves DEF AfterFailure, AfterSuccess, At, TypeOK
    <2>2. /\ jobs'[c].status \in TerminalStatuses /\ ~jobs'[c].expired
          /\ \A d \in Jobs : d # c => jobs'[d] = jobs[d]
      <3>1. PICK s \in TerminalStatuses : JobIs(c, s)
        BY <2>1 DEF TerminalStatuses
      <3>2. /\ jobs'[c] = [status |-> s, expired |-> FALSE]
            /\ \A d \in Jobs : d # c => jobs'[d] = jobs[d]
        BY <1>2, <3>1, JobIsSteps
      <3>3. QED
        BY <3>2
    <2>3. Follows(c)'
      BY <2>1, <2>2 DEF Follows, InRun, RunStages, TerminalStatuses
    <2>4. QED
      BY <1>1, <2>2, <2>3, OneJobStep DEF Callers
  <1>3. CASE c \notin Jobs
    BY <1>1, <1>3, OneJobStep DEF AfterFailure, AfterSuccess, Callers
  <1>4. QED
    BY <1>2, <1>3

\* A step that leaves the jobs alone and moves a callback from inside the run to
\* inside the run, or from outside to outside, the queue apart.
LEMMA MovesOn ==
    ASSUME JobsFollow, NEW c \in Callers, UNCHANGED jobs,
           \A d \in Callers : d # c => run'[d] = run[d],
           c \in Jobs => /\ run[c].stage # "queued" /\ run'[c].stage # "queued"
                         /\ InRun(c)' <=> InRun(c)
    PROVE  JobsFollow'
  BY OneJobStep DEF JobsFollow, Follows, Callers

\* The cleanup at the head of the job routes.
LEMMA CleanedFollows ==
    ASSUME TypeOK, JobsFollow, NEW j \in Jobs
    PROVE  /\ Cleaned[j].status = "queued" <=> run[j].stage = "queued"
           /\ Cleaned[j].status = "running" <=> InRun(j)
           /\ ~Cleaned[j].expired
  BY DEF Cleaned, NoJob, JobsFollow, Follows, TypeOK, JobRecord, TerminalStatuses

\* Nothing is queued or running after the process was started again.
LEMMA LoseMemoryFollows ==
    ASSUME TypeOK, LoseMemory
    PROVE  JobsFollow'
  <1>1. SUFFICES ASSUME NEW j \in Jobs PROVE Follows(j)'
    BY DEF JobsFollow
  <1>2. j \in Callers /\ run'[j].stage \in {"unused", "done"}
    BY DEF LoseMemory, Callers, At
  <1>3. jobs'[j] = NoJob
    BY DEF LoseMemory
  <1>4. QED
    BY <1>2, <1>3 DEF Follows, InRun, RunStages, NoJob

\* Every step keeps the map and the callbacks together.
LEMMA FollowStep ==
    ASSUME TypeOK, JobsFollow, [Next]_vars
    PROVE  JobsFollow'
  <1>0. /\ Jobs \subseteq Callers /\ Ticks \subseteq Callers
        /\ Requests \subseteq Callers
        /\ \A c \in Ticks \cup Requests : c \notin Jobs
        /\ RunStages = {"fetch", "snapshots", "scores", "catalog", "finish"}
        /\ LogStages = {"logSuccess", "logFailed"}
    BY CallersDisjoint DEF Callers, RunStages, LogStages
  <1>1. ASSUME NEW j \in Jobs, QueueJob(j) PROVE JobsFollow'
    <2>1. run'[j].stage = "queued" /\ \A d \in Callers : d # j => run'[d] = run[d]
      BY <1>0, <1>1, Moves DEF QueueJob
    <2>2. /\ jobs'[j] = [status |-> "queued", expired |-> FALSE]
          /\ \A d \in Jobs : d # j => jobs'[d] = Cleaned[d]
      BY <1>1 DEF QueueJob, Cleaned
    <2>3. Follows(j)'
      BY <1>0, <2>1, <2>2 DEF Follows, InRun
    <2>4. \A d \in Jobs : d # j => Follows(d)'
      BY <1>0, <2>1, <2>2, CleanedFollows DEF Follows, InRun
    <2>5. QED
      BY <2>3, <2>4 DEF JobsFollow
  <1>2. ASSUME NEW j \in Jobs, PassTTL(j) PROVE JobsFollow'
    <2>1. /\ jobs'[j].status = jobs[j].status
          /\ \A d \in Jobs : d # j => jobs'[d] = jobs[d]
      BY <1>2 DEF PassTTL, TypeOK, JobRecord
    <2>2. Follows(j)'
      BY <1>2, <2>1 DEF PassTTL, JobsFollow, Follows, InRun
    <2>3. QED
      BY <1>0, <1>2, <2>1, <2>2, OneJobStep DEF PassTTL
  <1>3. ASSUME NEW j \in Jobs, JobStart(j) PROVE JobsFollow'
    <2>1. /\ run'[j].stage = "fetch"
          /\ \A d \in Callers : d # j => run'[d] = run[d]
      BY <1>0, <1>3 DEF JobStart, BeginRun, TypeOK
    <2>2. /\ jobs'[j] = [status |-> "running", expired |-> FALSE]
          /\ \A d \in Jobs : d # j => jobs'[d] = jobs[d]
      BY <1>3, JobIsSteps DEF JobStart
    <2>3. Follows(j)'
      BY <1>0, <2>1, <2>2 DEF Follows, InRun
    <2>4. QED
      BY <1>0, <2>1, <2>2, <2>3, OneJobStep
  <1>4. ASSUME NEW j \in Jobs, JobRefused(j) PROVE JobsFollow'
    BY <1>0, <1>4, Settles DEF JobRefused
  <1>5. ASSUME NEW c \in Ticks \cup Requests,
               TickStart(c) \/ TickRefused(c) \/ RequestStart(c) \/ RequestRefused(c)
        PROVE  JobsFollow'
    <2>1. UNCHANGED jobs /\ \A d \in Callers : d # c => run'[d] = run[d]
      BY <1>0, <1>5, Moves DEF TickStart, TickRefused, RequestStart,
                               RequestRefused, BeginRun, TypeOK
    <2>2. QED
      BY <1>0, <2>1, MovesOn
  <1>6. ASSUME NEW c \in Callers, RunStep(c) PROVE JobsFollow'
    <2>1. CASE Fetch(c)
      <3>1. /\ UNCHANGED jobs
            /\ run[c].stage = "fetch" /\ run'[c].stage = "snapshots"
            /\ \A d \in Callers : d # c => run'[d] = run[d]
        BY <2>1 DEF Fetch, TypeOK, RunRecord
      <3>2. QED
        BY <1>0, <3>1, MovesOn DEF InRun
    <2>2. CASE InsertSnapshots(c) \/ InsertScores(c) \/ RefreshModels(c)
      <3>1. /\ UNCHANGED jobs /\ InRun(c) /\ InRun(c)'
            /\ run[c].stage # "queued" /\ run'[c].stage # "queued"
            /\ \A d \in Callers : d # c => run'[d] = run[d]
        BY <1>0, <2>2, Moves DEF InsertSnapshots, InsertScores, RefreshModels, InRun
      <3>2. QED
        BY <3>1, MovesOn
    <2>3. CASE FinishRun(c) \/ AbortRun(c)
      BY <2>3, Settles DEF FinishRun, AbortRun
    <2>4. QED
      BY <1>6, <2>1, <2>2, <2>3 DEF RunStep
  <1>7. ASSUME NEW j \in Jobs, LogStep(j) PROVE JobsFollow'
    <2>1. CASE SuccessLogThrows(j)
      BY <1>0, <2>1, Settles DEF SuccessLogThrows
    <2>2. CASE FailureLogThrows(j) /\ RejectionFatal
      BY <2>2, LoseMemoryFollows DEF FailureLogThrows
    <2>3. CASE \/ WriteLogRow(j) \/ SkipLogRow(j)
               \/ FailureLogThrows(j) /\ ~RejectionFatal
      <3>1. UNCHANGED jobs /\ run[j].stage \in LogStages /\ GoTo(j, "done")
        BY <1>0, <2>3 DEF WriteLogRow, SkipLogRow, FailureLogThrows
      <3>2. /\ run'[j].stage = "done"
            /\ \A d \in Callers : d # j => run'[d] = run[d]
        BY <1>0, <3>1, Moves
      <3>3. QED
        BY <1>0, <3>1, <3>2, MovesOn DEF InRun
    <2>4. QED
      BY <1>7, <2>1, <2>2, <2>3 DEF LogStep
  <1>8. CASE CleanupJobs
    BY <1>8, CleanedFollows DEF CleanupJobs, JobsFollow, Follows, InRun
  <1>9. CASE Restart
    BY <1>9, LoseMemoryFollows DEF Restart
  <1>10. CASE UNCHANGED vars
    BY <1>10 DEF vars, JobsFollow, Follows, InRun
  <1>11. CASE ScoreTableCreated
    BY <1>11 DEF ScoreTableCreated, JobsFollow, Follows, InRun
  <1>12. QED
    BY <1>1, <1>2, <1>3, <1>4, <1>5, <1>6, <1>7, <1>8, <1>9, <1>10, <1>11
       DEF Next, JobCallback

\* An active job always has the callback that is going to settle it.
THEOREM JobsAreFollowed == Spec => []NoStrandedJob
  <1>1. Init => JobsFollow
    <2> SUFFICES ASSUME Init, NEW j \in Jobs PROVE Follows(j)
      BY DEF JobsFollow
    <2>1. j \in Callers /\ jobs[j] = NoJob /\ run[j].stage = "unused"
      BY DEF Init, Callers, At
    <2>2. QED
      BY <2>1 DEF Follows, InRun, RunStages, NoJob
  <1>2. TypeOK /\ JobsFollow /\ [Next]_vars => JobsFollow'
    BY FollowStep
  <1>3. JobsFollow => NoStrandedJob
    BY DEF JobsFollow, Follows, NoStrandedJob
  <1>4. QED
    BY <1>1, <1>2, <1>3, TypeCorrect, PTL DEF Spec

(***************************************************************************)
(* What the readers of the tables see.                                     *)
(***************************************************************************)

\* Only two steps touch the captures, and each adds the run's own, if anything.
LEMMA CapturesGrow ==
    ASSUME IInv, Next
    PROVE  \/ UNCHANGED <<snapshots, scores>>
           \/ /\ status.inProgress /\ clock > 0 /\ UNCHANGED <<status, clock>>
              /\ \/ /\ snapshots' = snapshots \cup {clock}
                    /\ clock \notin snapshots \cup scores
                    /\ UNCHANGED scores
                 \/ /\ scores' = scores \cup {clock}
                    /\ clock \in snapshots \ scores
                    /\ UNCHANGED snapshots
  <1>0. RunStages = {"fetch", "snapshots", "scores", "catalog", "finish"}
    BY DEF RunStages
  <1>1. ASSUME NEW c \in Callers, InsertSnapshots(c), run[c].rows
        PROVE  /\ status.inProgress /\ clock > 0 /\ UNCHANGED <<status, clock>>
               /\ snapshots' = snapshots \cup {clock}
               /\ clock \notin snapshots \cup scores
               /\ UNCHANGED scores
    <2>1. InRun(c)
      BY <1>0, <1>1 DEF InsertSnapshots, InRun
    <2>2. status.inProgress
      BY <2>1 DEF IInv, InProgressExact
    <2>3. run[c].at = clock /\ clock > 0 /\ clock \notin snapshots \cup scores
      BY <1>1, <2>1 DEF IInv, RunProgress, InsertSnapshots
    <2>4. QED
      BY <1>1, <2>2, <2>3 DEF InsertSnapshots
  <1>2. ASSUME NEW c \in Callers, InsertScores(c), run[c].rows, scoresFrom # NoTable
        PROVE  /\ status.inProgress /\ clock > 0 /\ UNCHANGED <<status, clock>>
               /\ scores' = scores \cup {clock}
               /\ clock \in snapshots \ scores
               /\ UNCHANGED snapshots
    <2>1. InRun(c)
      BY <1>0, <1>2 DEF InsertScores, InRun
    <2>2. status.inProgress
      BY <2>1 DEF IInv, InProgressExact
    <2>3. run[c].at = clock /\ clock > 0 /\ clock \in snapshots \ scores
      BY <1>2, <2>1 DEF IInv, RunProgress, InsertScores
    <2>4. QED
      BY <1>2, <2>2, <2>3 DEF InsertScores
  <1>3. ASSUME NEW c \in Callers, RunStep(c)
        PROVE  \/ UNCHANGED <<snapshots, scores>>
               \/ InsertSnapshots(c) /\ run[c].rows
               \/ InsertScores(c) /\ run[c].rows /\ scoresFrom # NoTable
    BY <1>3 DEF RunStep, Fetch, InsertSnapshots, InsertScores, RefreshModels,
                FinishRun, AbortRun, db
  <1>4. ASSUME NEW j \in Jobs, LogStep(j)
        PROVE  UNCHANGED <<snapshots, scores>>
    BY <1>4 DEF LogStep, WriteLogRow, SkipLogRow, SuccessLogThrows,
                FailureLogThrows, LoseMemory, db
  <1>5. ASSUME NEW j \in Jobs, QueueJob(j) \/ PassTTL(j) \/ JobStart(j) \/ JobRefused(j)
        PROVE  UNCHANGED <<snapshots, scores>>
    BY <1>5 DEF QueueJob, PassTTL, JobStart, JobRefused, db
  <1>6. ASSUME NEW t \in Ticks, TickStart(t) \/ TickRefused(t)
        PROVE  UNCHANGED <<snapshots, scores>>
    BY <1>6 DEF TickStart, TickRefused, db
  <1>7. ASSUME NEW r \in Requests, RequestStart(r) \/ RequestRefused(r)
        PROVE  UNCHANGED <<snapshots, scores>>
    BY <1>7 DEF RequestStart, RequestRefused, db
  <1>8. CleanupJobs \/ ScoreTableCreated \/ Restart => UNCHANGED <<snapshots, scores>>
    BY DEF CleanupJobs, ScoreTableCreated, Restart, LoseMemory, db
  <1>9. CASE \E c \in Callers : RunStep(c)
    BY <1>1, <1>2, <1>3, <1>9
  <1>10. QED
    BY <1>4, <1>5, <1>6, <1>7, <1>8, <1>9 DEF Next, JobCallback

\* Captures appear in the order of their time stamps.
THEOREM CapturesAreOrdered == Spec => CapturesInOrder
  <1>1. IInv /\ [Next]_vars =>
          [\A new \in snapshots' \ snapshots, old \in snapshots : old < new]_snapshots
    <2> SUFFICES ASSUME IInv, [Next]_vars, snapshots' # snapshots,
                        NEW new \in snapshots' \ snapshots, NEW old \in snapshots
                 PROVE  old < new
      OBVIOUS
    <2>1. Next
      BY DEF vars
    <2>2. new = clock /\ clock \notin snapshots
      BY <2>1, CapturesGrow
    <2>3. old <= clock /\ old # clock /\ old \in Nat /\ clock \in Nat
      BY <2>2 DEF IInv, CapturesPast, TypeOK
    <2>4. QED
      BY <2>2, <2>3
  <1>2. QED
    BY <1>1, Inductive, PTL DEF Spec, CapturesInOrder

(***************************************************************************)
(* The refinement.                                                         *)
(***************************************************************************)

\* Every step either keeps the flag, or begins a capture, or ends one.
LEMMA FlagSteps ==
    ASSUME IInv, Next
    PROVE  \/ status'.inProgress = status.inProgress /\ clock' = clock
           \/ /\ ~status.inProgress /\ status'.inProgress
              /\ clock' = clock + 1 /\ UNCHANGED <<snapshots, scores>>
           \/ /\ status.inProgress /\ clock > 0 /\ ~status'.inProgress
              /\ UNCHANGED <<clock, snapshots, scores>>
  <1> DEFINE Keeps  == status'.inProgress = status.inProgress /\ clock' = clock
             Begins == /\ ~status.inProgress /\ status'.inProgress
                       /\ clock' = clock + 1 /\ UNCHANGED <<snapshots, scores>>
             Ends   == /\ status.inProgress /\ clock > 0 /\ ~status'.inProgress
                       /\ UNCHANGED <<clock, snapshots, scores>>
  <1>0. TypeOK /\ status.inProgress \in BOOLEAN
    BY DEF IInv, TypeOK, StatusRecord
  <1>1. status.inProgress => clock > 0
    BY DEF IInv, InProgressExact, RunProgress
  <1>2. ASSUME NEW c \in Callers, BeginRun(c), UNCHANGED <<snapshots, scores>>
        PROVE  Begins
    <2>1. ~status.inProgress /\ clock' = clock + 1
      BY <1>2 DEF BeginRun, RunIsFree
    <2>2. status'.inProgress
      BY <1>0, <1>2 DEF BeginRun, TypeOK, StatusRecord
    <2>3. QED
      BY <1>2, <2>1, <2>2
  <1>3. LoseMemory => Keeps \/ Ends
    <2>1. LoseMemory => ~status'.inProgress /\ status'.inProgress = FALSE
                        /\ UNCHANGED <<clock, snapshots, scores>>
      BY DEF LoseMemory, IdleStatus, db
    <2>2. QED
      BY <1>0, <1>1, <2>1
  <1>4. ASSUME NEW j \in Jobs, QueueJob(j) \/ PassTTL(j) \/ JobRefused(j)
        PROVE  Keeps
    BY <1>4 DEF QueueJob, PassTTL, JobRefused
  <1>5. ASSUME NEW j \in Jobs, JobStart(j)
        PROVE  Begins
    BY <1>2, <1>5 DEF JobStart, Callers, db
  <1>6. ASSUME NEW t \in Ticks, TickStart(t) \/ TickRefused(t)
        PROVE  Keeps \/ Begins
    <2>1. TickStart(t) => Begins
      BY <1>2 DEF TickStart, Callers, db
    <2>2. TickRefused(t) => Keeps
      BY <1>0 DEF TickRefused, TypeOK, StatusRecord
    <2>3. QED
      BY <1>6, <2>1, <2>2
  <1>7. ASSUME NEW r \in Requests, RequestStart(r) \/ RequestRefused(r)
        PROVE  Keeps \/ Begins
    <2>1. RequestStart(r) => Begins
      BY <1>2 DEF RequestStart, Callers, db
    <2>2. RequestRefused(r) => Keeps
      BY DEF RequestRefused
    <2>3. QED
      BY <1>7, <2>1, <2>2
  <1>8. ASSUME NEW c \in Callers, RunStep(c)
        PROVE  Keeps \/ Ends
    <2>1. FinishRun(c) => status.inProgress /\ ~status'.inProgress
                          /\ UNCHANGED <<clock, snapshots, scores>>
      <3>1. FinishRun(c) => InRun(c) /\ ~status'.inProgress
                            /\ UNCHANGED <<clock, snapshots, scores>>
        BY <1>0 DEF FinishRun, InRun, RunStages, TypeOK, StatusRecord, db
      <3>2. QED
        BY <3>1 DEF IInv, InProgressExact
    <2>2. AbortRun(c) => status.inProgress /\ ~status'.inProgress
                         /\ UNCHANGED <<clock, snapshots, scores>>
      <3>1. AbortRun(c) => InRun(c) /\ ~status'.inProgress
                           /\ UNCHANGED <<clock, snapshots, scores>>
        BY <1>0 DEF AbortRun, StatusAfterFailure, InRun, RunStages, TypeOK,
                    StatusRecord, db
      <3>2. QED
        BY <3>1 DEF IInv, InProgressExact
    <2>3. FinishRun(c) \/ AbortRun(c) => Ends
      BY <1>1, <2>1, <2>2
    <2>4. Fetch(c) \/ InsertSnapshots(c) \/ InsertScores(c) \/ RefreshModels(c)
            => Keeps
      BY DEF Fetch, InsertSnapshots, InsertScores, RefreshModels
    <2>5. QED
      BY <1>8, <2>3, <2>4 DEF RunStep
  <1>9. ASSUME NEW j \in Jobs, LogStep(j)
        PROVE  Keeps \/ Ends
    BY <1>3, <1>9 DEF LogStep, WriteLogRow, SkipLogRow, SuccessLogThrows,
                      FailureLogThrows
  <1>10. CleanupJobs \/ ScoreTableCreated => Keeps
    BY DEF CleanupJobs, ScoreTableCreated
  <1>11. Restart => Keeps \/ Ends
    BY <1>3 DEF Restart
  <1>12. Keeps \/ Begins \/ Ends
    BY <1>4, <1>5, <1>6, <1>7, <1>8, <1>9, <1>10, <1>11 DEF Next, JobCallback
  <1>13. QED
    BY <1>12

\* The subsystem implements SnapshotPublisher: captures are taken one at a time,
\* each publishes its snapshots and then its scores at most once, and nothing is
\* published for a capture that is over.
THEOREM ImplementsPublisher == Spec => PublishesInTurn
  <1>1. Init => Publisher!Init
    BY DEF Init, Publisher!Init, IdleStatus
  <1>2. IInv /\ [Next]_vars => [Publisher!Next]_(Publisher!pubVars)
    <2> SUFFICES ASSUME IInv, [Next]_vars
                 PROVE  Publisher!Next \/ UNCHANGED Publisher!pubVars
      OBVIOUS
    <2>1. CASE UNCHANGED vars
      BY <2>1 DEF vars, Publisher!pubVars
    <2>2. CASE Next
      <3>0. clock \in Nat
        BY DEF IInv, TypeOK
      <3>1. CASE /\ ~status.inProgress /\ status'.inProgress
                 /\ clock' = clock + 1 /\ UNCHANGED <<snapshots, scores>>
        BY <3>0, <3>1 DEF Publisher!Next, Publisher!Begin
      <3>2. CASE /\ status.inProgress /\ clock > 0 /\ ~status'.inProgress
                 /\ UNCHANGED <<clock, snapshots, scores>>
        BY <3>0, <3>2 DEF Publisher!Next, Publisher!End
      <3>3. CASE status'.inProgress = status.inProgress /\ clock' = clock
        <4>1. CASE UNCHANGED <<snapshots, scores>>
          BY <3>3, <4>1 DEF Publisher!pubVars
        <4>2. CASE /\ status.inProgress /\ clock > 0
                   /\ snapshots' = snapshots \cup {clock}
                   /\ clock \notin snapshots \cup scores
                   /\ UNCHANGED scores
          BY <3>0, <3>3, <4>2 DEF Publisher!Next, Publisher!PublishSnapshots
        <4>3. CASE /\ status.inProgress /\ clock > 0
                   /\ scores' = scores \cup {clock}
                   /\ clock \in snapshots \ scores
                   /\ UNCHANGED snapshots
          BY <3>0, <3>3, <4>3 DEF Publisher!Next, Publisher!PublishScores
        <4>4. QED
          BY <2>2, <4>1, <4>2, <4>3, CapturesGrow
      <3>4. QED
        BY <2>2, <3>1, <3>2, <3>3, FlagSteps
    <2>3. QED
      BY <2>1, <2>2
  <1>3. QED
    BY <1>1, <1>2, Inductive, PTL DEF Spec, PublishesInTurn, Publisher!Spec

(***************************************************************************)
(* What an ingestion reports is so: proofs about ingestStatus, the job map *)
(* and the operation log, for any jobs, timer callbacks, requests and      *)
(* restarts.                                                               *)
(***************************************************************************)

(***************************************************************************)
(* Successes.  A caller that is past its scores has both tables behind it, *)
(* and what it knows of its run stays with it until memory is lost.  That  *)
(* its capture is past matters when the table of the scores is created.    *)
(***************************************************************************)
Behind(c) ==
    /\ run[c].stage \notin {"fetch", "snapshots", "scores"} => Durable(c)
    /\ run[c].stage = "scores" /\ run[c].rows => run[c].at \in snapshots
    /\ run[c].at <= clock

DurableInv == \A c \in Callers : Behind(c)

\* A step of one callback, while the tables only grow.
LEMMA OneCallback ==
    ASSUME DurableInv, NEW c \in Callers,
           \A d \in Callers : d # c => run'[d] = run[d],
           snapshots \subseteq snapshots', scores \subseteq scores',
           UNCHANGED <<clock, scoresFrom>>,
           Behind(c)'
    PROVE  DurableInv'
  BY DEF DurableInv, Behind, Durable, ScoresExpected

\* A callback that leaves without its run leaves without rows.
LEMMA FailsEmpty ==
    ASSUME TypeOK, NEW c \in Callers, AfterFailure(c)
    PROVE  /\ run'[c].stage \in {"done", "logFailed"} /\ run'[c].rows = FALSE
           /\ run'[c].at = 0
           /\ c \in Jobs => run'[c].stage = "logFailed"
           /\ \A d \in Callers : d # c => run'[d] = run[d]
  BY DEF TypeOK, AfterFailure, At

\* So a refusal or a failure takes nothing back.
LEMMA FailsHarmless ==
    ASSUME TypeOK, DurableInv, NEW c \in Callers, AfterFailure(c),
           UNCHANGED <<clock, snapshots, scores, scoresFrom>>
    PROVE  DurableInv'
  <1>1. /\ run'[c].stage \in {"done", "logFailed"} /\ run'[c].rows = FALSE
        /\ run'[c].at = 0
        /\ \A d \in Callers : d # c => run'[d] = run[d]
    BY FailsEmpty
  <1>2. clock' \in Nat
    BY DEF TypeOK
  <1>3. Behind(c)'
    BY <1>1, <1>2 DEF Behind, Durable
  <1>4. QED
    BY <1>1, <1>3, OneCallback

\* No callback keeps a run through the loss of memory.
LEMMA LosesRuns ==
    ASSUME TypeOK, DurableInv, LoseMemory
    PROVE  DurableInv'
  <1> SUFFICES ASSUME NEW c \in Callers PROVE Behind(c)'
    BY DEF DurableInv
  <1>1. /\ run'[c] = IF run[c].stage \in {"unused", "done"} THEN run[c] ELSE At("done")
        /\ UNCHANGED <<clock, snapshots, scores, scoresFrom>>
    BY DEF LoseMemory, db
  <1>2. CASE run[c].stage \in {"unused", "done"}
    BY <1>1, <1>2 DEF DurableInv, Behind, Durable, ScoresExpected
  <1>3. CASE run[c].stage \notin {"unused", "done"}
    BY <1>1, <1>3 DEF TypeOK, Behind, Durable, ScoresExpected, At
  <1>4. QED
    BY <1>2, <1>3

\* The steps of a run.
LEMMA RunIsBehind ==
    ASSUME TypeOK, DurableInv, NEW c \in Callers, RunStep(c)
    PROVE  DurableInv'
  <1>1. CASE Fetch(c)
    <2>1. /\ run'[c].stage = "snapshots" /\ run'[c].at = run[c].at
          /\ \A d \in Callers : d # c => run'[d] = run[d]
          /\ UNCHANGED <<clock, snapshots, scores, scoresFrom>>
      BY <1>1 DEF Fetch, TypeOK, RunRecord, db
    <2>2. QED
      BY <2>1, OneCallback DEF DurableInv, Behind
  <1>2. CASE InsertSnapshots(c)
    <2>1. /\ run'[c].stage = "scores"
          /\ run'[c].at = run[c].at /\ run'[c].rows = run[c].rows
          /\ \A d \in Callers : d # c => run'[d] = run[d]
          /\ snapshots' = IF run[c].rows THEN snapshots \cup {run[c].at} ELSE snapshots
          /\ UNCHANGED <<clock, scores, scoresFrom>>
      BY <1>2, Moves DEF InsertSnapshots
    <2>2. QED
      BY <2>1, OneCallback DEF DurableInv, Behind
  <1>3. CASE InsertScores(c)
    <2>1. /\ run[c].stage = "scores" /\ run'[c].stage = "catalog"
          /\ run'[c].at = run[c].at /\ run'[c].rows = run[c].rows
          /\ \A d \in Callers : d # c => run'[d] = run[d]
          /\ scores' = IF run[c].rows /\ scoresFrom # NoTable
                       THEN scores \cup {run[c].at} ELSE scores
          /\ UNCHANGED <<clock, snapshots, scoresFrom>>
      BY <1>3, Moves DEF InsertScores
    <2>2. Behind(c)
      BY DEF DurableInv
    <2>3. Behind(c)'
      BY <2>1, <2>2 DEF Behind, Durable, ScoresExpected
    <2>4. QED
      BY <2>1, <2>3, OneCallback
  <1>4. CASE RefreshModels(c) \/ FinishRun(c)
    <2>1. /\ run[c].stage \in {"catalog", "finish"}
          /\ run'[c].stage \in {"finish", "logSuccess", "done"}
          /\ run'[c].at = run[c].at /\ run'[c].rows = run[c].rows
          /\ \A d \in Callers : d # c => run'[d] = run[d]
          /\ UNCHANGED <<clock, snapshots, scores, scoresFrom>>
      BY <1>4, Moves DEF RefreshModels, FinishRun, AfterSuccess, db
    <2>2. QED
      BY <2>1, OneCallback DEF DurableInv, Behind, Durable, ScoresExpected
  <1>5. CASE AbortRun(c)
    <2>1. UNCHANGED <<clock, snapshots, scores, scoresFrom>> /\ AfterFailure(c)
      BY <1>5 DEF AbortRun, db
    <2>2. QED
      BY <2>1, FailsHarmless
  <1>6. QED
    BY <1>1, <1>2, <1>3, <1>4, <1>5 DEF RunStep

\* Every step keeps what finished callers have behind them.
LEMMA DurableStep ==
    ASSUME TypeOK, DurableInv, [Next]_vars
    PROVE  DurableInv'
  <1>0. Jobs \subseteq Callers /\ Ticks \subseteq Callers /\ Requests \subseteq Callers
    BY DEF Callers
  <1>1. ASSUME NEW c \in Callers, NEW s \in {"queued", "done"}, GoTo(c, s),
               run[c].stage \in {"unused", "logSuccess", "logFailed"},
               UNCHANGED <<clock, snapshots, scores, scoresFrom>>
        PROVE  DurableInv'
    BY <1>1, Moves, OneCallback DEF DurableInv, Behind, Durable, ScoresExpected
  <1>2. ASSUME NEW c \in Callers, BeginRun(c), UNCHANGED <<snapshots, scores, scoresFrom>>
        PROVE  DurableInv'
    <2>1. /\ run'[c].stage = "fetch" /\ run'[c].at = clock'
          /\ \A d \in Callers : d # c => run'[d] = run[d]
          /\ clock \in Nat /\ clock' = clock + 1
      BY <1>2 DEF BeginRun, TypeOK
    <2>2. SUFFICES ASSUME NEW d \in Callers PROVE Behind(d)'
      BY DEF DurableInv
    <2>3. CASE d = c
      BY <2>1, <2>3 DEF Behind
    <2>4. CASE d # c
      <3>1. run'[d] = run[d] /\ run[d].at \in Nat /\ Behind(d)
        BY <2>1, <2>4 DEF TypeOK, RunRecord, DurableInv
      <3>2. QED
        BY <1>2, <2>1, <3>1 DEF Behind, Durable, ScoresExpected
    <2>5. QED
      BY <2>3, <2>4
  <1>3. ASSUME NEW c \in Callers, AfterFailure(c), UNCHANGED <<clock, snapshots, scores, scoresFrom>>
        PROVE  DurableInv'
    BY <1>3, FailsHarmless
  <1>4. ASSUME UNCHANGED <<run, clock, snapshots, scores, scoresFrom>>
        PROVE  DurableInv'
    BY <1>4 DEF DurableInv, Behind, Durable, ScoresExpected
  <1>5. ASSUME NEW j \in Jobs, QueueJob(j) \/ PassTTL(j) \/ JobStart(j) \/ JobRefused(j)
        PROVE  DurableInv'
    <2>1. QueueJob(j) => DurableInv'
      BY <1>0, <1>1 DEF QueueJob, db
    <2>2. PassTTL(j) => DurableInv'
      BY <1>4 DEF PassTTL, db
    <2>3. JobStart(j) => DurableInv'
      BY <1>0, <1>2 DEF JobStart, db
    <2>4. JobRefused(j) => DurableInv'
      BY <1>0, <1>3 DEF JobRefused, db
    <2>5. QED
      BY <1>5, <2>1, <2>2, <2>3, <2>4
  <1>6. ASSUME NEW j \in Jobs, LogStep(j)
        PROVE  DurableInv'
    <2>1. WriteLogRow(j) => DurableInv'
      BY <1>0, <1>1 DEF WriteLogRow, LogStages
    <2>2. SkipLogRow(j) => DurableInv'
      BY <1>0, <1>1 DEF SkipLogRow, LogStages, db
    <2>3. SuccessLogThrows(j) => DurableInv'
      BY <1>0, <1>3 DEF SuccessLogThrows, db
    <2>4. FailureLogThrows(j) => DurableInv'
      BY <1>0, <1>1, LosesRuns DEF FailureLogThrows, db
    <2>5. QED
      BY <1>6, <2>1, <2>2, <2>3, <2>4 DEF LogStep
  <1>7. ASSUME NEW t \in Ticks, TickStart(t) \/ TickRefused(t)
        PROVE  DurableInv'
    BY <1>0, <1>1, <1>2, <1>7 DEF TickStart, TickRefused, db
  <1>8. ASSUME NEW r \in Requests, RequestStart(r) \/ RequestRefused(r)
        PROVE  DurableInv'
    BY <1>0, <1>1, <1>2, <1>8 DEF RequestStart, RequestRefused, db
  <1>9. CASE CleanupJobs \/ UNCHANGED vars
    BY <1>4, <1>9 DEF CleanupJobs, vars, db
  <1>10. CASE Restart
    BY <1>10, LosesRuns DEF Restart
  <1>11. CASE ScoreTableCreated
    <2>1. /\ scoresFrom' = clock /\ UNCHANGED <<run, clock, snapshots, scores>>
          /\ \A c \in Callers : run[c].at \in Nat /\ clock \in Nat
      BY <1>11 DEF ScoreTableCreated, TypeOK, RunRecord
    <2>2. SUFFICES ASSUME NEW c \in Callers PROVE Behind(c)'
      BY DEF DurableInv
    <2>3. Behind(c) /\ ~ (run[c].at > clock)
      BY <2>1 DEF DurableInv, Behind
    <2>4. QED
      BY <2>1, <2>3 DEF Behind, Durable, ScoresExpected
  <1>12. QED
    BY <1>5, <1>6, <1>7, <1>8, <1>9, <1>10, <1>11, RunIsBehind DEF Next, JobCallback

(***************************************************************************)
(* The shared status.  While a run is in progress, the last success is an  *)
(* earlier one, and the run that is reported is the one in progress.       *)
(***************************************************************************)
StatusInv ==
    /\ status.lastSuccess <= clock
    /\ status.inProgress => status.lastSuccess < clock /\ status.lastRun = clock
    /\ FailureIsReported

\* Every step keeps the status true.
LEMMA StatusStep ==
    ASSUME IInv, StatusInv, [Next]_vars
    PROVE  StatusInv'
  <1>0. /\ Jobs \subseteq Callers /\ Ticks \subseteq Callers /\ Requests \subseteq Callers
        /\ clock \in Nat /\ status \in StatusRecord
    BY DEF Callers, IInv, TypeOK
  <1>1. ASSUME UNCHANGED <<status, clock>>
        PROVE  StatusInv'
    BY <1>1 DEF StatusInv, FailureIsReported, LastRunStatus
  <1>2. ASSUME NEW c \in Callers, BeginRun(c)
        PROVE  StatusInv'
    BY <1>0, <1>2 DEF BeginRun, StatusInv, FailureIsReported, StatusRecord
  <1>3. LoseMemory => StatusInv'
    BY <1>0 DEF LoseMemory, IdleStatus, StatusInv, FailureIsReported, LastRunStatus
  <1>4. ASSUME NEW c \in Callers, RunStep(c)
        PROVE  StatusInv'
    <2>1. CASE FinishRun(c)
      <3>1. InRun(c)
        BY <2>1 DEF FinishRun, InRun, RunStages
      <3>2. run[c].at = clock /\ status.inProgress
        BY <3>1 DEF IInv, RunProgress, InProgressExact
      <3>3. /\ status'.lastSuccess = clock /\ status'.lastRun = clock /\ clock' = clock
            /\ status'.inProgress = FALSE
        BY <1>0, <2>1, <3>2 DEF FinishRun, StatusRecord, StatusInv
      <3>4. QED
        BY <1>0, <3>3 DEF StatusInv, FailureIsReported
    <2>2. CASE AbortRun(c)
      <3>1. /\ status'.lastError = "failed" /\ status'.inProgress = FALSE
            /\ status'.lastSuccess = status.lastSuccess /\ clock' = clock
        BY <1>0, <2>2 DEF AbortRun, StatusAfterFailure, StatusRecord
      <3>2. QED
        BY <3>1 DEF StatusInv, FailureIsReported, LastRunStatus
    <2>3. CASE Fetch(c) \/ InsertSnapshots(c) \/ InsertScores(c) \/ RefreshModels(c)
      BY <1>1, <2>3 DEF Fetch, InsertSnapshots, InsertScores, RefreshModels
    <2>4. QED
      BY <1>4, <2>1, <2>2, <2>3 DEF RunStep
  <1>5. ASSUME NEW j \in Jobs, QueueJob(j) \/ PassTTL(j) \/ JobCallback(j)
        PROVE  StatusInv'
    <2>1. QueueJob(j) \/ PassTTL(j) \/ JobRefused(j) => StatusInv'
      BY <1>1 DEF QueueJob, PassTTL, JobRefused
    <2>2. JobStart(j) => StatusInv'
      BY <1>0, <1>2 DEF JobStart
    <2>3. LogStep(j) => StatusInv'
      BY <1>1, <1>3 DEF LogStep, WriteLogRow, SkipLogRow, SuccessLogThrows, FailureLogThrows
    <2>4. QED
      BY <1>5, <2>1, <2>2, <2>3 DEF JobCallback
  <1>6. ASSUME NEW t \in Ticks, TickStart(t) \/ TickRefused(t)
        PROVE  StatusInv'
    <2>1. TickStart(t) => StatusInv'
      BY <1>0, <1>2 DEF TickStart
    <2>2. ASSUME TickRefused(t)
          PROVE  StatusInv'
      <3>1. /\ status.inProgress /\ status'.inProgress = status.inProgress
            /\ status'.lastSuccess = status.lastSuccess
            /\ status'.lastRun = status.lastRun /\ clock' = clock
        BY <1>0, <2>2 DEF TickRefused, StatusRecord
      <3>2. QED
        BY <3>1 DEF StatusInv, FailureIsReported
    <2>3. QED
      BY <1>6, <2>1, <2>2
  <1>7. ASSUME NEW r \in Requests, RequestStart(r) \/ RequestRefused(r)
        PROVE  StatusInv'
    BY <1>0, <1>1, <1>2, <1>7 DEF RequestStart, RequestRefused
  <1>8. CASE CleanupJobs \/ ScoreTableCreated \/ UNCHANGED vars
    BY <1>1, <1>8 DEF CleanupJobs, ScoreTableCreated, vars
  <1>9. CASE Restart
    BY <1>3, <1>9 DEF Restart
  <1>10. QED
    BY <1>4, <1>5, <1>6, <1>7, <1>8, <1>9 DEF Next

(***************************************************************************)
(* The operation log.  An entry is the last thing that a callback writes,  *)
(* and until then the job, if the cleanup has left it, has the status that *)
(* the entry is going to say.                                              *)
(***************************************************************************)
Outcome(s) == IF s = "success" THEN "completed" ELSE "failed"

\* What the log, the job and its callback say of each other.
LogTells(j) ==
    /\ \A outcome \in {"success", "failed"} : <<j, outcome>> \in opLog =>
          /\ run[j].stage = "done"
          /\ jobs[j].status \in {Outcome(outcome), "absent"}
          /\ \A other \in {"success", "failed"} : <<j, other>> \in opLog => other = outcome
    /\ run[j].stage = "logSuccess" => jobs[j].status \in {"completed", "absent"}
    /\ run[j].stage = "logFailed" => jobs[j].status \in {"failed", "absent"}
    /\ run[j].stage = "unused" => jobs[j].status = "absent"

LogInv == \A j \in Jobs : LogTells(j)

\* A step that leaves a job's callback and its entries alone, and its status or none.
LEMMA OtherJob ==
    ASSUME NEW j \in Jobs, LogTells(j), run'[j].stage = run[j].stage,
           jobs'[j].status \in {jobs[j].status, "absent"},
           \A outcome \in {"success", "failed"} :
              <<j, outcome>> \in opLog' <=> <<j, outcome>> \in opLog
    PROVE  LogTells(j)'
  BY DEF LogTells, Outcome

\* A step of the callback of one job, or of no job.
LEMMA OneEntry ==
    ASSUME LogInv, NEW c \in Callers, UNCHANGED opLog,
           \A d \in Jobs : d # c => run'[d] = run[d] /\ jobs'[d] = jobs[d],
           c \in Jobs => LogTells(c)'
    PROVE  LogInv'
  <1> SUFFICES ASSUME NEW d \in Jobs PROVE LogTells(d)'
    BY DEF LogInv
  <1>1. CASE d = c
    BY <1>1
  <1>2. CASE d # c
    BY <1>2, OtherJob DEF LogInv
  <1>3. QED
    BY <1>1, <1>2

\* The cleanup takes statuses away, and nothing else.
LEMMA CleanedStatus ==
    ASSUME TypeOK, NEW j \in Jobs
    PROVE  Cleaned[j].status \in {jobs[j].status, "absent"}
  BY DEF Cleaned, NoJob

\* A failure, wherever it comes from, is going to be logged as one.
LEMMA FailureIsLogged ==
    ASSUME TypeOK, LogInv, NEW c \in Callers, run[c].stage # "done",
           AfterFailure(c), UNCHANGED opLog
    PROVE  LogInv'
  <1>1. \A d \in Callers : d # c => run'[d] = run[d]
    BY FailsEmpty
  <1>2. CASE c \in Jobs
    <2>1. /\ run'[c].stage = "logFailed" /\ JobIs(c, "failed")
      BY <1>2, FailsEmpty DEF AfterFailure
    <2>2. /\ jobs'[c].status = "failed"
          /\ \A d \in Jobs : d # c => jobs'[d] = jobs[d]
      BY <1>2, <2>1 DEF JobIs, TypeOK
    <2>3. \A outcome \in {"success", "failed"} : <<c, outcome>> \notin opLog'
      BY <1>2 DEF LogInv, LogTells
    <2>4. LogTells(c)'
      BY <2>1, <2>2, <2>3 DEF LogTells
    <2>5. QED
      BY <1>1, <2>2, <2>4, OneEntry DEF Callers
  <1>3. CASE c \notin Jobs
    BY <1>1, <1>3, OneEntry DEF AfterFailure, Callers
  <1>4. QED
    BY <1>2, <1>3

\* Memory is lost, the log is not.
LEMMA LogSurvives ==
    ASSUME LogInv, LoseMemory
    PROVE  LogInv'
  <1> SUFFICES ASSUME NEW j \in Jobs PROVE LogTells(j)'
    BY DEF LogInv
  <1>1. /\ j \in Callers /\ jobs'[j].status = "absent" /\ opLog' = opLog
        /\ run'[j] = IF run[j].stage \in {"unused", "done"} THEN run[j] ELSE At("done")
    BY DEF LoseMemory, Callers, NoJob, db
  <1>2. LogTells(j)
    BY DEF LogInv
  <1>3. CASE run[j].stage \in {"unused", "done"}
    BY <1>1, <1>2, <1>3 DEF LogTells
  <1>4. CASE run[j].stage \notin {"unused", "done"}
    BY <1>1, <1>2, <1>4 DEF LogTells, At
  <1>5. QED
    BY <1>3, <1>4

\* The entries themselves.
LEMMA LogStepTells ==
    ASSUME TypeOK, LogInv, NEW j \in Jobs, LogStep(j)
    PROVE  LogInv'
  <1>0. j \in Callers /\ LogTells(j)
    BY DEF Callers, LogInv
  <1>1. CASE WriteLogRow(j)
    <2> DEFINE said == IF run[j].stage = "logSuccess" THEN "success" ELSE "failed"
    <2>1. /\ run[j].stage \in {"logSuccess", "logFailed"} /\ run'[j].stage = "done"
          /\ \A d \in Callers : d # j => run'[d] = run[d]
          /\ opLog' = opLog \cup {<<j, said>>} /\ jobs' = jobs
      BY <1>0, <1>1, Moves DEF WriteLogRow, LogStages
    <2>2. \A outcome \in {"success", "failed"} : <<j, outcome>> \notin opLog
      BY <1>0, <2>1 DEF LogTells
    <2>3. jobs[j].status \in {Outcome(said), "absent"}
      BY <1>0, <2>1 DEF LogTells, Outcome
    <2>4. LogTells(j)'
      BY <2>1, <2>2, <2>3 DEF LogTells
    <2>5. ASSUME NEW d \in Jobs, d # j PROVE LogTells(d)'
      <3>1. \A outcome \in {"success", "failed"} :
               <<d, outcome>> \in opLog' <=> <<d, outcome>> \in opLog
        BY <2>1, <2>5
      <3>2. run'[d] = run[d] /\ LogTells(d)
        BY <2>1, <2>5 DEF Callers, LogInv
      <3>3. QED
        BY <2>1, <3>1, <3>2, OtherJob
    <2>6. QED
      BY <2>4, <2>5 DEF LogInv
  <1>2. CASE SkipLogRow(j) \/ (FailureLogThrows(j) /\ ~RejectionFatal)
    <2>1. /\ run[j].stage \in {"logSuccess", "logFailed"} /\ GoTo(j, "done")
          /\ UNCHANGED <<jobs, opLog>>
      BY <1>2 DEF SkipLogRow, FailureLogThrows, LogStages, db
    <2>2. /\ run'[j].stage = "done"
          /\ \A d \in Callers : d # j => run'[d] = run[d]
      BY <1>0, <2>1, Moves
    <2>3. LogTells(j)'
      BY <1>0, <2>1, <2>2 DEF LogTells
    <2>4. QED
      BY <1>0, <2>1, <2>2, <2>3, OneEntry DEF Callers
  <1>3. CASE SuccessLogThrows(j)
    BY <1>0, <1>3, FailureIsLogged DEF SuccessLogThrows, db
  <1>4. CASE FailureLogThrows(j) /\ RejectionFatal
    BY <1>4, LogSurvives DEF FailureLogThrows
  <1>5. QED
    BY <1>1, <1>2, <1>3, <1>4 DEF LogStep

\* A run ends with the status that its entry is going to say.
LEMMA RunTells ==
    ASSUME TypeOK, LogInv, NEW c \in Callers, RunStep(c)
    PROVE  LogInv'
  <1>1. CASE Fetch(c) \/ InsertSnapshots(c) \/ InsertScores(c) \/ RefreshModels(c)
    <2>1. /\ run[c].stage \in RunStages
          /\ run'[c].stage \in {"snapshots", "scores", "catalog", "finish"}
          /\ \A d \in Callers : d # c => run'[d] = run[d]
          /\ UNCHANGED <<jobs, opLog>>
      <3>1. CASE Fetch(c)
        BY <3>1 DEF Fetch, TypeOK, RunRecord, RunStages, db
      <3>2. CASE InsertSnapshots(c) \/ InsertScores(c) \/ RefreshModels(c)
        BY <3>2, Moves DEF InsertSnapshots, InsertScores, RefreshModels, RunStages
      <3>3. QED
        BY <1>1, <3>1, <3>2
    <2>2. c \in Jobs => LogTells(c)'
      BY <2>1 DEF LogInv, LogTells, RunStages
    <2>3. QED
      BY <2>1, <2>2, OneEntry DEF Callers
  <1>2. CASE FinishRun(c)
    <2>1. /\ run[c].stage = "finish" /\ AfterSuccess(c) /\ UNCHANGED opLog
          /\ \A d \in Callers : d # c => run'[d] = run[d]
      BY <1>2, Moves DEF FinishRun, db
    <2>2. CASE c \in Jobs
      <3>1. /\ run'[c].stage = "logSuccess" /\ JobIs(c, "completed")
        BY <2>1, <2>2, Moves DEF AfterSuccess
      <3>2. /\ jobs'[c].status = "completed"
            /\ \A d \in Jobs : d # c => jobs'[d] = jobs[d]
        BY <2>2, <3>1 DEF JobIs, TypeOK
      <3>3. \A outcome \in {"success", "failed"} : <<c, outcome>> \notin opLog'
        BY <2>1, <2>2 DEF LogInv, LogTells
      <3>4. LogTells(c)'
        BY <3>1, <3>2, <3>3 DEF LogTells
      <3>5. QED
        BY <2>1, <3>2, <3>4, OneEntry DEF Callers
    <2>3. CASE c \notin Jobs
      BY <2>1, <2>3, OneEntry DEF AfterSuccess, Callers
    <2>4. QED
      BY <2>2, <2>3
  <1>3. CASE AbortRun(c)
    <2>1. run[c].stage # "done" /\ AfterFailure(c) /\ UNCHANGED opLog
      BY <1>3 DEF AbortRun, RunStages, db
    <2>2. QED
      BY <2>1, FailureIsLogged
  <1>4. QED
    BY <1>1, <1>2, <1>3 DEF RunStep

\* Every step keeps the log, the jobs and their callbacks together.
LEMMA LogInvStep ==
    ASSUME TypeOK, LogInv, [Next]_vars
    PROVE  LogInv'
  <1>0. /\ Jobs \subseteq Callers /\ Ticks \subseteq Callers /\ Requests \subseteq Callers
        /\ \A c \in Ticks \cup Requests : c \notin Jobs
    BY CallersDisjoint DEF Callers
  <1>1. ASSUME NEW j \in Jobs, QueueJob(j) PROVE LogInv'
    <2>1. /\ run[j].stage = "unused" /\ run'[j].stage = "queued" /\ UNCHANGED opLog
          /\ \A d \in Callers : d # j => run'[d] = run[d]
          /\ \A d \in Jobs : d # j => jobs'[d] = Cleaned[d]
      BY <1>0, <1>1, Moves DEF QueueJob, Cleaned, db
    <2>2. LogTells(j)'
      BY <2>1 DEF LogInv, LogTells
    <2>3. ASSUME NEW d \in Jobs, d # j PROVE LogTells(d)'
      BY <1>0, <2>1, <2>3, OtherJob, CleanedStatus DEF LogInv
    <2>4. QED
      BY <2>2, <2>3 DEF LogInv
  <1>2. ASSUME UNCHANGED <<run, opLog>>,
               \A d \in Jobs : jobs'[d].status \in {jobs[d].status, "absent"}
        PROVE  LogInv'
    BY <1>2, OtherJob DEF LogInv
  <1>3. ASSUME NEW j \in Jobs, PassTTL(j) PROVE LogInv'
    <2>1. \A d \in Jobs : jobs'[d].status = jobs[d].status
      BY <1>3 DEF PassTTL, TypeOK, JobRecord
    <2>2. QED
      BY <1>2, <1>3, <2>1 DEF PassTTL, db
  <1>4. ASSUME NEW j \in Jobs, JobStart(j) PROVE LogInv'
    <2>1. /\ run[j].stage = "queued" /\ run'[j].stage = "fetch" /\ UNCHANGED opLog
          /\ \A d \in Callers : d # j => run'[d] = run[d]
      BY <1>0, <1>4 DEF JobStart, BeginRun, TypeOK, db
    <2>2. \A d \in Jobs : d # j => jobs'[d] = jobs[d]
      BY <1>4, JobIsSteps DEF JobStart
    <2>3. LogTells(j)'
      BY <2>1 DEF LogInv, LogTells
    <2>4. QED
      BY <1>0, <2>1, <2>2, <2>3, OneEntry
  <1>5. ASSUME NEW j \in Jobs, JobRefused(j) PROVE LogInv'
    BY <1>0, <1>5, FailureIsLogged DEF JobRefused, db
  <1>6. ASSUME NEW c \in Ticks \cup Requests,
               TickStart(c) \/ TickRefused(c) \/ RequestStart(c) \/ RequestRefused(c)
        PROVE  LogInv'
    <2>1. /\ UNCHANGED <<jobs, opLog>>
          /\ \A d \in Callers : d # c => run'[d] = run[d]
      BY <1>0, <1>6, Moves DEF TickStart, TickRefused, RequestStart, RequestRefused,
                               BeginRun, TypeOK, db
    <2>2. QED
      BY <1>0, <2>1, OneEntry
  <1>7. CASE CleanupJobs
    BY <1>2, <1>7, CleanedStatus DEF CleanupJobs, db
  <1>8. CASE Restart
    BY <1>8, LogSurvives DEF Restart
  <1>9. CASE ScoreTableCreated \/ UNCHANGED vars
    BY <1>2, <1>9 DEF ScoreTableCreated, vars
  <1>10. QED
    BY <1>1, <1>3, <1>4, <1>5, <1>6, <1>7, <1>8, <1>9, LogStepTells, RunTells
       DEF Next, JobCallback

(***************************************************************************)
(* The three together.                                                     *)
(***************************************************************************)
ReportInv == IInv /\ JobsFollow /\ DurableInv /\ StatusInv /\ LogInv

\* They hold initially, and every step keeps them.
LEMMA ReportsHold == Spec => []ReportInv
  <1>1. Init => JobsFollow /\ DurableInv /\ StatusInv /\ LogInv
    <2> SUFFICES ASSUME Init PROVE JobsFollow /\ DurableInv /\ StatusInv /\ LogInv
      OBVIOUS
    <2>1. \A j \in Jobs : j \in Callers /\ jobs[j] = NoJob
      BY DEF Init, Callers
    <2>2. \A c \in Callers : /\ run[c].stage = "unused" /\ run[c].rows = FALSE
                             /\ run[c].at = 0 /\ clock = 0
      BY DEF Init, At
    <2>3. JobsFollow
      <3> SUFFICES ASSUME NEW j \in Jobs PROVE Follows(j)
        BY DEF JobsFollow
      <3>1. /\ jobs[j].status = "absent" /\ jobs[j].expired = FALSE
            /\ run[j].stage = "unused"
        BY <2>1, <2>2 DEF NoJob
      <3>2. QED
        BY <3>1 DEF Follows, InRun, RunStages
    <2>4. DurableInv
      BY <2>2 DEF DurableInv, Behind, Durable
    <2>5. StatusInv
      BY DEF Init, IdleStatus, StatusInv, FailureIsReported, LastRunStatus
    <2>6. LogInv
      BY <2>1, <2>2 DEF Init, LogInv, LogTells, NoJob
    <2>7. QED
      BY <2>3, <2>4, <2>5, <2>6
  <1>2. IInv /\ JobsFollow /\ DurableInv /\ StatusInv /\ LogInv /\ [Next]_vars
          => JobsFollow' /\ DurableInv' /\ StatusInv' /\ LogInv'
    BY FollowStep, DurableStep, StatusStep, LogInvStep DEF IInv
  <1>3. QED
    BY <1>1, <1>2, Inductive, PTL DEF Spec, ReportInv

\* Whatever reports a success (lastSuccessUtc, a completed job, an entry of the operation
\* log), the rows of that run are stored, and its scores too if their table was there when it
\* began (insertCapacityScoreSnapshots stores nothing, and says so to nobody, without it).
THEOREM SuccessesAreDurable == Spec => []ReportedSuccessIsDurable
  <1>1. ReportInv => ReportedSuccessIsDurable
    <2> SUFFICES ASSUME ReportInv, NEW c \in Callers,
                        \/ run[c].at # 0 /\ run[c].at = status.lastSuccess
                        \/ c \in Jobs /\ jobs[c].status = "completed"
                        \/ <<c, "success">> \in opLog
                 PROVE  Durable(c)
      BY DEF ReportedSuccessIsDurable
    <2>1. ~InRun(c)
      <3>1. CASE run[c].at = status.lastSuccess
        <4>1. InRun(c) => run[c].at = clock /\ status.inProgress
          BY DEF ReportInv, IInv, RunProgress, InProgressExact
        <4>2. clock \in Nat
          BY DEF ReportInv, IInv, TypeOK
        <4>3. QED
          BY <3>1, <4>1, <4>2 DEF ReportInv, StatusInv
      <3>2. CASE c \in Jobs /\ jobs[c].status = "completed"
        BY <3>2 DEF ReportInv, JobsFollow, Follows
      <3>3. CASE <<c, "success">> \in opLog
        <4>1. c \in Jobs
          BY <3>3 DEF ReportInv, IInv, TypeOK
        <4>2. QED
          BY <3>3, <4>1 DEF ReportInv, LogInv, LogTells, InRun, RunStages
      <3>4. QED
        BY <3>1, <3>2, <3>3
    <2>2. Behind(c)
      BY DEF ReportInv, DurableInv
    <2>3. QED
      BY <2>1, <2>2 DEF Behind, InRun, RunStages
  <1>2. QED
    BY <1>1, ReportsHold, PTL

\* A failed run is not reported as a success once it has ended (GET /api/admin/config).
THEOREM FailuresAreReported == Spec => []FailureIsReported
  <1>1. ReportInv => FailureIsReported
    BY DEF ReportInv, StatusInv
  <1>2. QED
    BY <1>1, ReportsHold, PTL

\* A job has at most one entry in the operation log, and it agrees with the job's status.
THEOREM LogAgrees == Spec => []LogAgreesWithJob
  <1>1. ReportInv => LogAgreesWithJob
    <2> SUFFICES ASSUME ReportInv, NEW entry \in opLog
                 PROVE  /\ jobs[entry[1]].status \in {Outcome(entry[2]), "absent"}
                        /\ \A other \in opLog : other[1] = entry[1] => other = entry
      BY DEF LogAgreesWithJob, Outcome
    <2>1. \A e \in opLog : /\ e = <<e[1], e[2]>> /\ e[1] \in Jobs
                           /\ e[2] \in {"success", "failed"}
      BY DEF ReportInv, IInv, TypeOK
    <2>2. LogTells(entry[1])
      BY <2>1 DEF ReportInv, LogInv
    <2>3. jobs[entry[1]].status \in {Outcome(entry[2]), "absent"}
      BY <2>1, <2>2 DEF LogTells
    <2>4. ASSUME NEW other \in opLog, other[1] = entry[1]
          PROVE  other = entry
      <3>1. <<entry[1], other[2]>> \in opLog /\ <<entry[1], entry[2]>> \in opLog
        BY <2>1, <2>4
      <3>2. other[2] = entry[2]
        BY <2>1, <2>2, <3>1 DEF LogTells
      <3>3. QED
        BY <2>1, <2>4, <3>2
    <2>5. QED
      BY <2>3, <2>4
  <1>2. QED
    BY <1>1, ReportsHold, PTL

\* A job only moves forward, and disappears only when it was settled or memory was lost.
THEOREM JobsGoForward == Spec => JobsMoveForward
  <1> DEFINE Forward(j) ==
               \/ Rank(jobs'[j].status) >= Rank(jobs[j].status)
               \/ jobs[j].status \in TerminalStatuses /\ jobs'[j].status = "absent"
               \/ status' = IdleStatus
  <1>1. ReportInv /\ [Next]_vars => [\A j \in Jobs : Forward(j)]_vars
    <2> SUFFICES ASSUME ReportInv, Next, NEW d \in Jobs
                 PROVE  Forward(d)
      OBVIOUS
    <2>0. /\ TypeOK /\ Follows(d) /\ LogTells(d) /\ d \in Callers
          /\ jobs[d].status \in JobStatuses
      BY DEF ReportInv, IInv, JobsFollow, LogInv, Callers, TypeOK, JobRecord
    <2>1. \A s \in JobStatuses : Rank(s) \in 0..4
      BY DEF JobStatuses, Rank
    <2>2. jobs'[d].status = jobs[d].status => Forward(d)
      BY <2>0, <2>1
    <2>3. jobs'[d] = Cleaned[d] => Forward(d)
      BY <2>0, <2>2 DEF Cleaned, NoJob, Follows
    <2>4. ASSUME NEW c \in Callers, AfterFailure(c)
          PROVE  Forward(d)
      <3>1. CASE c = d
        <4>1. jobs'[d].status = "failed"
          BY <2>0, <2>4, <3>1 DEF AfterFailure, JobIs, TypeOK
        <4>2. QED
          BY <2>0, <2>1, <4>1 DEF Rank, JobStatuses
      <3>2. CASE c # d
        <4>1. jobs'[d] = jobs[d]
          BY <2>0, <2>4, <3>2, JobIsSteps DEF AfterFailure
        <4>2. QED
          BY <2>2, <4>1
      <3>3. QED
        BY <3>1, <3>2
    <2>5. LoseMemory => Forward(d)
      BY DEF LoseMemory
    <2>6. ASSUME NEW j \in Jobs, QueueJob(j) PROVE Forward(d)
      <3>1. CASE j = d
        <4>1. jobs[d].status = "absent" /\ jobs'[d].status = "queued"
          BY <2>0, <2>6, <3>1 DEF QueueJob, LogTells, Cleaned
        <4>2. QED
          BY <4>1 DEF Rank
      <3>2. CASE j # d
        <4>1. jobs'[d] = Cleaned[d]
          BY <2>6, <3>2 DEF QueueJob, Cleaned
        <4>2. QED
          BY <2>3, <4>1
      <3>3. QED
        BY <3>1, <3>2
    <2>7. ASSUME NEW j \in Jobs, PassTTL(j) PROVE Forward(d)
      BY <2>0, <2>2, <2>7 DEF PassTTL, TypeOK, JobRecord
    <2>8. ASSUME NEW j \in Jobs, JobStart(j) PROVE Forward(d)
      <3>1. CASE j = d
        <4>1. jobs[d].status = "queued" /\ jobs'[d].status = "running"
          BY <2>0, <2>8, <3>1 DEF JobStart, Follows, JobIs, TypeOK
        <4>2. QED
          BY <4>1 DEF Rank
      <3>2. CASE j # d
        <4>1. jobs'[d] = jobs[d]
          BY <2>0, <2>8, <3>2, JobIsSteps DEF JobStart
        <4>2. QED
          BY <2>2, <4>1
      <3>3. QED
        BY <3>1, <3>2
    <2>9. ASSUME NEW j \in Jobs, JobRefused(j) \/ LogStep(j) PROVE Forward(d)
      <3>1. j \in Callers
        BY DEF Callers
      <3>2. QED
        BY <2>2, <2>4, <2>5, <2>9, <3>1 DEF JobRefused, LogStep, WriteLogRow, SkipLogRow,
                                            SuccessLogThrows, FailureLogThrows
    <2>10. ASSUME NEW t \in Ticks, TickStart(t) \/ TickRefused(t) PROVE Forward(d)
      BY <2>2, <2>10 DEF TickStart, TickRefused
    <2>11. ASSUME NEW r \in Requests, RequestStart(r) \/ RequestRefused(r) PROVE Forward(d)
      BY <2>2, <2>11 DEF RequestStart, RequestRefused
    <2>12. ASSUME NEW c \in Callers, FinishRun(c) PROVE Forward(d)
      <3>1. CASE c = d
        <4>1. jobs[d].status = "running" /\ jobs'[d].status = "completed"
          BY <2>0, <2>12, <3>1 DEF FinishRun, AfterSuccess, Follows, InRun, RunStages,
                                   JobIs, TypeOK
        <4>2. QED
          BY <4>1 DEF Rank
      <3>2. CASE c # d
        <4>1. jobs'[d] = jobs[d]
          BY <2>0, <2>12, <3>2, JobIsSteps DEF FinishRun, AfterSuccess
        <4>2. QED
          BY <2>2, <4>1
      <3>3. QED
        BY <3>1, <3>2
    <2>13. ASSUME NEW c \in Callers, RunStep(c) PROVE Forward(d)
      BY <2>2, <2>4, <2>12, <2>13 DEF RunStep, Fetch, InsertSnapshots, InsertScores,
                                      RefreshModels, AbortRun
    <2>14. CleanupJobs \/ ScoreTableCreated => Forward(d)
      BY <2>2, <2>3 DEF CleanupJobs, ScoreTableCreated
    <2>15. QED
      BY <2>5, <2>6, <2>7, <2>8, <2>9, <2>10, <2>11, <2>13, <2>14
         DEF Next, JobCallback, Restart
  <1>2. QED
    BY <1>1, ReportsHold, PTL DEF Spec, JobsMoveForward

=============================================================================
