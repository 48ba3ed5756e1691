# Verification of the Capacity Planning Dashboard

This directory holds TLA+ specifications of the dashboard's backend and of the parts of its front ends
that keep state, the TLC configurations that check them on small instances, and proofs, checked by
TLAPS, of the theorems that hold for every value of the constants. Every definition is written from
the code; `PROJECT.json` gives for each one the file, the lines and the function it stands for, and
lists the runs, the theorems and the hazards that the properties are aimed at.

Paths are relative to the root of the repository, whose backend is in `src/` (`src/server.js`,
`src/services/*.js`, `src/store/sql.js`, ...). In `PROJECT.json` the same files carry a leading
`src/`, the directory that the repository is in.

- [1. The system](#1-the-system)
- [2. The modules](#2-the-modules)
- [3. The runs](#3-the-runs)
- [4. Fairness](#4-fairness)
- [5. The proofs](#5-the-proofs)
- [6. What the code and its documentation disagree about](#6-what-the-code-and-its-documentation-disagree-about)
- [7. What is not modelled, and the plan](#7-what-is-not-modelled-and-the-plan)
- [8. Running the checks](#8-running-the-checks)

## 1. The system

One Node process (Express) serves two browser front ends and an API. It reads quotas, SKUs and
prices from Azure Resource Manager (ARM) and stores them in Azure SQL as *captures*: rows with one
`capturedAtUtc`. Reports are computed from the rows of the latest capture. The process also plans
moves of quota between subscriptions and applies them with a PowerShell script, looks up live
placement scores with another, and scans PaaS availability with a third; where a remote worker (an
Azure Function) is configured, it is tried first for the latter two.

The process is one event loop: code between two awaits is never interrupted, and everything else
is interleaved at the awaits. State is in three places: the memory of the process (flags, job
maps, timers, caches), lost with it; the database, which several requests write with little use of
transactions; and Azure, which the process changes only through the quota apply script.

### Components

| Component | Source | State | Operations |
|---|---|---|---|
| Capacity ingestion and jobs | `services/azureIngestionService.js`, `server.js` 473–597, 2969–3013, 3151–3164 | `ingestStatus`, the map `ingestionJobs` with a TTL of six hours, `dbo.CapacitySnapshot`, `dbo.CapacityScoreSnapshot`, `dbo.DashboardOperationLog` | queue a job, run an ingestion (from a job, a timer or the internal route), report status |
| Scheduler settings and startup warmup | `server.js` 110, 1209–1305, 3015–3095, 3495–3553, `store/sql.js` 897–965, both `apply...Scheduler` | the keys `schedule.*` of `dbo.DashboardSetting`, `schedulerConfig` and the interval handle of each scheduler | load at startup, save five keys, reschedule |
| Quota candidates, plan, simulation | `services/quotaCandidateService.js`, `services/quotaPlanService.js` | `dbo.QuotaCandidateSnapshot` (captured runs) | capture a run, build a default, targeted or pool plan, project its impact |
| Quota apply | `services/quotaApplyService.js`, `server.js` 630–692, `tools/Get-AzVMAvailability/.../QuotaGroupApply.ps1`, `Invoke-WithRetry.ps1` | the map `quotaApplyJobs`, a CSV file for each second, limits in Azure | rebuild the plan, write the file, run the script in one PowerShell after another, send batches and single rows |
| Live placement | `services/livePlacementService.js`, `store/sql.js` | `dbo.LivePlacementSnapshot`, the scheduler's `livePlacementRefreshInProgress`, a portable PowerShell on the disk | refresh for a user or by the scheduler, save, merge the newest scores into the grid, provision PowerShell |
| Capacity reads | `services/capacityService.js`, `sql/schema.sql` | a catalog of SKU families cached for five minutes, `dbo.VmSkuCatalog` | latest batch, view `dbo.CapacityLatest`, pages, catalog and its seed |
| Capacity reports | `services/capacityService.js`, matrices in `react/main.js` and `app.js` | none | scores, family summary, region health, subscriptions, trend, readiness matrices |
| AI quota and model catalog | `services/aiIngestionService.js` | AI rows of a capture, `dbo.AIModelAvailability` | fetch quotas, refresh the catalog when it is due or asked for |
| PaaS availability | `services/paasAvailabilityService.js` | `dbo.PaaSAvailabilitySnapshot` | scan, persist, read the latest scan |
| Recommendations | `services/livePlacementService.js` 992–1580, 2127–2290 | none | rank alternatives to a SKU; choose who is asked |
| Quota discovery | `services/quotaDiscoveryService.js` | none | management groups, quota groups, the report of shareable quota |
| SQL access | `store/sql.js` | one pool with a health check | queries, bulk inserts, upserts |
| Database bootstrap | `server.js` 1594–1940, `sql/`, `store/sql.js` 1360–1399 | schema, migration history, principals, casing of family names | bootstrap, named migrations, check of the tables |
| Authentication and sessions | `middleware/auth.js`, `server.js` 1372–1490 | session store (SQL, then memory after an error), pending sign-in states in a cookie | sign in, sign out, check roles |
| React page | `react/main.js` | selections, panels, facets, request counters; the poll of an ingestion; the quota workbench | choose, load, refresh scores, follow a job, plan, simulate, apply |
| Classic page | `app.js` | what is on the screen; an interval that polls | load, trigger an ingestion, follow it |
| Previews, exports, DTOs, presets, telemetry | `services/sqlPreviewService.js`, `server.js` 742–1205, `models/dtos.js`, ... | none | formatting |
| Worker and tools | `functions/CapacityWorker/`, `tools/` | none | answer one request, send one plan |

### How they interact

- `POST /api/admin/ingest/capacity` queues a job whose callback calls `runCapacityIngestion`; the
  timers that `applyIngestionScheduler` arms and `POST /internal/ingest/capacity` call it directly.
  All three share the flag `ingestStatus.inProgress`, and the jobs are cleaned up by whichever job
  route is called next.
- The warmup loads the settings and starts both schedulers while requests are already served; a
  `PUT` of the schedule changes the table and then the schedulers.
- An ingestion appends captures; quota candidates, reports and the region list of a live placement
  refresh read the latest one; capturing candidates freezes them as a run, from which a plan is
  rebuilt when it is applied, however much later.
- The apply script sends absolute limits that the plan computed, so two applies, or one apply and
  its own retries, meet in Azure only.
- The pages poll job routes, and reload a panel for each selection; the server keeps its jobs in
  memory only, so that a restart turns a poll into a 404.
- Every request takes the one SQL pool, and whoever finds it broken closes it for all.
- A live placement refresh answers its caller before its rows are stored, so that what the grid
  shows depends on the order in which transactions commit.

### What is hard, and what makes it correct

| Component | Hard behaviour | Correct when |
|---|---|---|
| Ingestion | three kinds of callers; failures at every await; errors inside error handlers; a restart between two transactions | runs exclude each other, the flag is exact, every job is settled, a reported success is durable in every table that was there, captures appear in order |
| Settings | two saves interleave key by key; a save during the warmup; failures between keys; normalisation of missing values | a schedule in force is one that somebody asked for, each scheduler has one timer, a restart adopts the table |
| Plan | thresholds and rounding; one donor counted down over many recipients | donors keep their buffer, the order of service is respected, plan and simulation agree |
| Apply | lost answers and retries, old runs, two requests, files that share a name | limits keep a captured buffer, reports are true, every request ends |
| Live placement | saves that nobody waits for, split calls, warnings without a region, rows that lack a score or a flag | the grid never goes back, stored scores are fresh, an older flag is one that was stored before, the scheduler recovers |
| Reads, reports | partial captures, changing names of the same quota, several definitions of "constrained"; pages of different captures; an old catalog in the cache | a quota is counted once, pages meet, a catalog lacks nothing old, reports agree, good news about a SKU never lowers its score |
| AI catalog | an unguarded refresh of an administrator beside that of a run | what is shown never goes back |
| PaaS scans | worker, runtimes and table may each fail; scans overlap | the answer and the table say the same |
| Recommendations | a ranking cut before it is completed; a fallback after a fallback | an answer says how it was found and holds a sensible SKU |
| Quota discovery | a list shared by workers; errors that are passed over | an empty report means that there is no deficit |
| SQL pool | several requests find the pool broken | no pool is leaked |
| Bootstrap | statements without a transaction, overlapping calls, death in between | the history is true, "ok" means provisioned |
| Sign-in | a cookie rewritten by concurrent requests; stores that change | a sign-in is refused only for a reason |
| React page | answers out of order that change what is offered, effects that take selections back for it | a panel shows what is selected; the page comes to rest |
| Following jobs | a lost job, answers out of order | nobody follows for ever what has ended |

The full list, with the line at which each hazard bites and the properties that watch it, is under
`hazards` in `PROJECT.json`.

## 2. The modules

Every state machine follows one convention: a step is what Node does between two awaits. A
callback's place among its awaits is a `stage` in a record of the callback, its locals are the
other fields, and what other callbacks may do at that await is simply what their actions may do in
between. Failures are actions of their own (`...Fails`, `Abort...`), so that TLC tries each at
every await. Time stamps are run numbers; texts, rows and payloads are reduced to what the
properties distinguish.

Definitions whose comment begins with "Mutant:" or "As if" are not used by any specification. Each is a
variant of the definition after it, with a plausible fault (a missing guard, a lost reset, a
swallowed error). `PROJECT.json` pairs every property of a passing run with one of them:
substituted for the original, it makes TLC find that property violated. They document what each
property is able to detect.

| Module | Models | Uses |
|---|---|---|
| `SnapshotPublisher` | abstract: what ingestion promises to the readers of the tables | |
| `CapacityIngestion` | runs, jobs, status, operation log | instantiates `SnapshotPublisher` |
| `SchedulerSettings` | settings, warmup, schedulers | |
| `QuotaPlan` | candidates, plans, simulation, as operators | |
| `QuotaPlanning` | the requests for a plan, over a captured run | extends `QuotaPlan` |
| `QuotaApply` | applying plans, with limits and usage in Azure | extends `QuotaPlan` |
| `LivePlacement` | refreshes, lookups, saves, the grid | |
| `PowerShellRuntime` | the portable PowerShell and the modules that lookups share | |
| `CapacityReads` | what captures contain and which rows are read | |
| `CapacityPages`, `SkuCatalog` | paging through captures; the catalog of SKU families | |
| `CapacityReports`, `Matrices` | scores, summaries, health, trend; the readiness matrices | `Matrices` extends `CapacityReports` |
| `ReportTables` | the reports over every table of captured rows | extends `Matrices` |
| `ModelCatalog` | the catalog of AI models by itself | |
| `DatabaseBootstrap` | schema, migrations, history, grants | |
| `SqlPool` | the pool and the driver's pool behind it | |
| `SignIn` | sign-in in several tabs, session stores | |
| `PaaSScan` | PaaS scans and their snapshots | |
| `Recommendations` | ranking, and the chain of runners | |
| `QuotaDiscovery` | the report of shareable quota | |
| `ReactPage`, `QuotaWorkbench` | selections and panels; the five steps of a quota move | |
| `JobWatch` | three clients that follow a background run | |
| `CapacityIngestionProofs`, `SchedulerSettingsProofs`, `LivePlacementProofs`, `DatabaseBootstrapProofs` | theorems (section 5) | extend the module of the name |
| `QuotaProofs` | theorems about the planner and about applies | extends `QuotaApply`, `QuotaPlanning` |
| `PlatformProofs`, `DashboardProofs` | theorems about the smaller modules of the server, and of the dashboards | extend those |
| `DataLemmas` | lemmas about numbers, finite sets, orders, recursive functions, sums and concatenations | |
| `MC...` | constants, symmetry and compositions for the runs (section 3) | |

### CapacityIngestion

| Variable | In the code |
|---|---|
| `jobs` | `ingestionJobs`: status and whether the TTL since `completedAtUtc` has passed |
| `status` | `ingestStatus`: `inProgress`, `lastRunUtc`, `lastError`, `lastSuccessUtc` |
| `run` | each callback: its stage, the `capturedAtUtc` of its run, whether it fetched any rows |
| `clock` | the number of runs begun; time stamps are its values |
| `snapshots`, `scores`, `models` | the captures with rows in each table |
| `scoresFrom` | the clock when `dbo.CapacityScoreSnapshot` came to exist, `NoTable` before |
| `opLog` | the entries of `dbo.DashboardOperationLog` for jobs |

`QueueJob` is the `POST` that finds neither an active job nor a run, with the cleanup that precedes
it; every other call of the job routes is `CleanupJobs`. `JobStart`/`TickStart`/`RequestStart` are
the head of `runCapacityIngestion` entered by each caller, `...Refused` its "already running" error
with what each caller makes of it. `Fetch`, `InsertSnapshots`, `InsertScores`, `RefreshModels`,
`FinishRun` are the awaits of a run in their order; `InsertScores` stores nothing, and the run goes on,
while the table of the scores is missing (`store/sql.js:332`), until `ScoreTableCreated` lets a
migration create it. `AbortRun` is the rejection of any of them,
with the catch and finally blocks and the caller's own catch block. A job then writes its log entry
(`WriteLogRow`, `SkipLogRow` when the insert is swallowed, `SuccessLogThrows` and
`FailureLogThrows` when the pool or the check of the table throws outside the inner `try`).
Whether an unhandled rejection ends the process depends on how Node is started and on the telemetry
library, so it is a constant, `RejectionFatal`. Several ticks of one interval are several `Ticks`,
each of which fires at most once.

### SchedulerSettings

`stored` is the table's rows, `put` the requests with the next key each has to store, `boot` the
stage of `runStartupWarmup`, `runtime` and `armed` the `schedulerConfig` and the live interval timers
of the two schedulers, `startups` how many startup runs were set off. `StoreKey` stores one key,
`PutFails` may come between any two, `ApplySaved` reschedules; `SetUpSessions`, `SetUpSchema`,
`LoadSettings`, `LoadFails`, `StartSchedulers` are the warmup. `Cleared` clears only the timer
set last, as `clearInterval(schedulerHandle)` does, and `armed` is a sequence so that a leaked timer
would be seen. `last` and `alone` are history: the request begun last, and whether any other
request or the startup went on beside it.

`NormalizeInterval` is written from `normalizeIntervalMinutes` with its conversion: `Number(null)` is
0 and finite, only what becomes `NaN` takes the fallback.

### QuotaPlan and QuotaApply

`QuotaPlan` is the planner without its wording: `SafetyBuffer`, `Movable`, `RecipientNeed`,
`ServedBefore` and the three plans, and the projection of `simulateQuotaMovePlan`. `Recipients` is the
order that sorting leaves, `Served` one turn of the loop over the recipients, which counts the donor's
quota down, and `PlanScope` the loop. Rounding is exact for limits that are natural numbers.
`ComputeAvailabilityState` is the state that an ingestion gives a SKU, from which the planner takes its
ranks. `MovePlan` is `buildQuotaMovePlan`: a request (`ask`) names a donor and may name a recipient, an
amount and a scope, and gets a targeted plan, one that gives quota back to the group's pool, the
default plan, or nothing. `QuotaPlanning` is one request for a plan over a captured run: `Build`
chooses among the plans.

`QuotaApply` adds Azure (`limit`, `usage`), the last ingestion (`seen`), the captured runs, the
requests (`apply`, each with what it asked for), and the plan files by the second that names them.
`BuildPlan` rebuilds the plan of the kind that was asked for, whose rows may name the pool instead of
a recipient, and writes the file; `ScriptStarts` imports whatever is in the file by then; `ScriptDies`
gives way to the next runtime, which starts over; the actions under *Invoke-QuotaGroupMoveApply* send
the batches of each region, then single rows when a batch is refused; a batch is the set of the
numbers of its rows, and `FirstOf` the row whose turn it is. `Unanswered` is a request that Azure has
carried out and whose answer was lost, as often as that happens. A batch that names one limit twice
may leave either value: the order within a body is Azure's.

### LivePlacement

`azure` counts how often each region's score and flag have changed, so each is its own version;
`begun` records what Azure would have answered when a lookup began; `refresh` holds the stage and
locals of each refresh; `table` the stored captures in the order of their transactions; `horizon` the
age limit of the read. A row has a score and a flag, which stands for `isAvailable` and
`isRestricted`; an answer may lack either (`Answers`). `kept` has the flags that the grid showed when
the refresh read it, which are stored again where the answer has none (`Enriched`, `RowsToSave`).
`BatchRows`, `BatchSplit` and `SingleUnavailable` are the answers to a chunk of regions, `Region...`
those to the single regions of a split chunk; `Split` is the end of the loop, where the error of the
first call is thrown after all if nobody answered. `SaveCommits` and `SaveFails` are the transaction
that nobody waits for. `Newest` and `Shown` are the read of the grid.

### CapacityReads, CapacityPages and SkuCatalog

`CapacityReads` appends captures of any subset of the subscriptions and regions while quotas and
SKU restrictions change, names each row after the representative SKU of its family as
`pickRepresentativeSku` does, and reads the latest batch as `buildLatestSnapshotBatchCte` does.

`CapacityPages` is a reader who asks for one page after another while a capture may come in
between. The order of a query is that of region, family and SKU; subscriptions share it, and each
query breaks ties anew, so a page is read in one of `Orders(capture)`. `SkuCatalog` has the cache
(`cache`, with the time at which its read began), the requests (`reader`) at each of their awaits, the
background seed, and the rows that ingestions add; `stored` is history.

### CapacityReports and Matrices

One operator for each report; each has its own loop and its own idea of what is constrained, as in
the code. `Matrices` adds the matrix of the server, the ways the React and the classic page reduce the
same rows, and the two directions of the PaaS report. `ReportTables` gives them tables to report on:
`captured` is a capture of at most one row for each subscription, region and family (`RowKeys`), named after
the SKU that represents the family or `<family>-aggregate` (`RowAt`); it is empty before the first
ingestion, and `RowChanges` is what Azure answers for one row to the next (`RowValues`), so that every
capture with any of these rows is reached, and rows move between the groups of a family.

### The rest of the server

`ModelCatalog`: an ingestion decides (`Decide`) from the newest row, an administrator's refresh does
not ask; `FetchModels` finds a subset of the regions. `DatabaseBootstrap`: a request is a record with
the file and the batch it is at; `Fail` may come at any step, `Replay` is a migration asked for by name,
`PublishDacpac` the deployment of the SQL project; `executed` and `serial` are history. `SqlPool`: a
request is at one of the awaits of `getSqlPool`; `global` and `open` belong to the driver, which the
code uses through `sql.connect` and `close`. `SignIn`: a request carries the cookie as it was
when it was sent; `excuse` records the reasons for which a sign-in may fail. `PaaSScan`: the worker,
then each PowerShell, then the transaction, any of which may fail, for scans that overlap.
`Recommendations`: the ranking is an operator over a listing of ARM; the state machine chooses direct
lookup, worker or local script. `QuotaDiscovery`: `todo`, `busy` and `found` are the list that
`Width` workers share. `PowerShellRuntime`: `provision` and `saving` are the two promises that later
lookups wait for; the disk outlives a restart.

### The front ends

`ReactPage` distinguishes a rendering from the pass of effects that follows it (`seen` holds what the
last pass saw: view, filters, page and the three lists of options): `Effects` takes selections back,
resets pages and starts loads, and runs after a choice, an answer or a failure, whichever changes one of
these; `Answer` takes an answer if its number is the panel's counter (`Current`), as the code does with
`useRef`, and the facets that come with the rows of the grid change what is offered. `Choose` is any
control of the sidebar or the pager, `RefreshLivePlacement` the button that replaces scores. Its call
is no load: the answer is taken whatever is selected by then, and `after` remembers the load of the
scores that came before it.
`JobWatch` is about one client in each behaviour: the React admin page (a poll is two requests), the
classic one (an interval), or `waitForQuotaApplyJob`. `QuotaWorkbench` is the form with what was built
and simulated for it; `plan` and `impact` are the parameters that the rows on the screen answer.

## 3. The runs

A run named in the table passes unless it says *violated*. State counts are distinct states.

| Run | States | Instance | Shows |
|---|---|---|---|
| `ingestion_safety` | 2,957,527 | two jobs (interchangeable), a timer callback, one restart, rejections fatal, the table of the scores there from the beginning, later or never | jobs are settled and only move forward, successes are durable and failures reported, the log agrees, captures are published in turn (refinement of `SnapshotPublisher`) |
| `background` | 174,339 | *ingestion*: one job, one timer callback, one internal request, one restart, rejections not fatal; *apply*: one request for a plan of any kind, two scopes in two regions, two runtimes, with and without `maxChanges`, growing usage | jobs are settled and runs end, unless their own call to Azure never returns; what an apply did not submit is reported; it ends |
| `administration` | 580,805 | *schedules*: two requests, two bodies, an environment with schedules of its own, table there or not, one restart; *watch*: one job, one restart, one failed request, one visit, each client | timers, whole schedules, undisturbed saves; the schedulers are started whatever fails; nobody follows for ever what has ended |
| `scheduler_settings_fallback` | *violated* | as the first part | a missing key switches the schedule off instead of leaving it to the environment |
| `quota_apply_two` | 3,487,683 | two requests of one second or of two, each for the default, a targeted or a pool plan, one scope, two runs, usage that grows | limits keep a captured buffer; what is reported as submitted was changed |
| `quota_apply_file` | *violated* | two requests of one second, two donors | a script imports the rows of the other request |
| `live_placement` | 935,222 | two scheduled refreshes and one of a user, calls of two regions, two lookups, a changing score and flag that may each be missing, ageing, one restart | the grid never goes back, scores are fresh, the scheduler recovers |
| `live_placement_chunks` | *violated* | the same | a warning of one call marks the regions of others |
| `platform` | 1,939,460 | one part at a time, see below | bootstrap, pool, sign-in, catalogs, pages, reads, PowerShell, discovery |
| `dashboards` | 439,202 | one part at a time, see below | planner, reports, recommendations, scans, React page |
| `quota_workbench` | *violated* | one group, two candidates, two amounts | a move is applied that nobody simulated |
| `recommendations_fallback` | *violated* | every configuration of runners | the local script is run although its use is disabled |

`MCBackground`, `MCAdministration`, `MCPlatform` and `MCDashboards` check several parts of the system in one run. The
variable `subject` chooses, in the initial state, the part that a behaviour is about; the others keep
an initial value. The parts do not share variables, so nothing is lost by this: it is the sum of
their state spaces, not the product. Where parts of the code do interact, they are composed in one
module (`QuotaApply` with `QuotaPlan`; jobs, timers and status in `CapacityIngestion`; the clients
with the jobs of the server in `JobWatch`; seed, cache and ingestion in `SkuCatalog`).

| Run, subject | Instance | Property |
|---|---|---|
| `platform`, database | two requests of any kind, three migrations of which the first and the last write the view, a DACPAC, a death at every step | `HistoryIsTrue`, `OkMeansProvisioned` |
| pool | three requests, one retry, three pools, two outages | `OnlyTheGlobalPoolIsOpen` |
| signIn | three tabs, two pending states, two switches of the store | `PendingSignInsAreHonoured` |
| skus | two readers, one SKU, a time to live of one of four ticks | `AnswersMissOnlyTheNew` |
| pages | up to four rows of two keys in two subscriptions, page sizes below, at and above the limits, one new capture | `PagesMeet` |
| models | two regions, an interval of two of four minutes | `CatalogNeverGoesBack` |
| reads | one subscription in two regions, a family with two SKUs, two captures | `QuotaCountedOnce` |
| shells | three lookups, one restart, every set of installed commands | `WaitersGetAWholeRuntime` |
| discovery | two subscriptions in two locations, two workers, every answer of Azure | `EmptyReportMeansNoDeficit` |
| `dashboards`, plan | every run of one scope with three subscriptions of eleven shapes, every request | `DonorsKeepBuffer`, `ServedInOrder`, `PlanAgreesWithSimulation` |
| reports | every capture of up to four rows of two families, each named after one of two SKUs or the aggregate, every change of one row | `ReasonsAreTrue`, `ReportsAgree`, `BetterNeverScoresLower` |
| lookup | one SKU to replace, every listing of four others in two regions, every configuration | `AnswersSayWhatTheyAre` |
| scans | two scans of two services, two runtimes of which one is too old, up to two rows | `AnswersMatchTheStore` |
| page | a preset, two regions, two families, three SKUs, two pages, two choices of the user or failures | `PanelsShowWhatIsSelected`, `PageComesToRest` |

### Why the bounds are enough

- *Ingestion.* In `background` the table of the scores is there from the beginning, as nothing that ends
  depends on it. Mutual exclusion and the flag need two callers and each kind of end. The second job
  is there because `QueueJob` is possible only when no job is active: it is queued after the first
  has settled, expired or been lost. One restart at any await covers the loss of memory between
  any two writes. Internal requests differ from ticks only in that a refusal is not stored in the
  shared status, so they appear in the liveness run, and the theorems cover any number of each.
- *Settings.* Two requests interleave key by key; a third could only repeat what one of them does.
  One body has plain values, the other a negative number, one beyond a week, something that is no
  number and a null. The theorems have no bound.
- *Plan.* Two recipients besides the donor are what the order of service and the countdown need.
  The shapes lie on both sides of each threshold, for a limit whose buffer is the constant 5 and
  for one whose buffer is a tenth rounded up. More scopes only concatenate plans.
- *Apply.* The family `f` has two recipients, so its plan has two rows for the same limit, the case in
  which a batch is ambiguous. Two runs make one of them old; within one second two files collide, in
  two they do not; usage that grows once between the runs
  makes an old row differ from a new one. The targeted request asks for more than the recipient needs
  and the donor can move, the pool request for less than the donor can move. `background` has the
  regions, the runtimes and the cut-off, `quota_apply_two` the interleaving; there are no
  bounds on recipients and amounts in the theorems.
- *Live placement.* Three regions in calls of two give one call that can be split and one that cannot,
  and two lookups suffice for a save to overtake another, and for the second to keep a flag of the first.
  Score and flag of one region change once, and either may be missing from its answers.
- *Reads, pages, reports.* Two SKUs let the representative change, and a second capture is read
  with the first still there. Two keys with two rows each give ties within a page and across its
  edge. Four rows give one family in two subscriptions, so that rows can cancel, or be in two groups of
  their region, the same family in another region, and another family beside it. The theorems have no
  bound.
- *Database.* Two requests and a death at any step leave every prefix of every file and of the
  history; three migrations are what "none before it is missing" needs, and the first and the last write
  the view, as in `sql/migrations`. The theorems have no bound.
- *Pool, PowerShell.* Three requests: one resets, one waits, one comes later. Both are proved for any
  number.
- *Sign-in.* Three tabs exceed a list of two states.
- *Page.* One choice makes a load overtake another; two, or a choice and a failure that empties the
  facets, make an effect take back a selection whose load is under way. `MaxLoads` is never what stops
  a panel: with the choices above it needs fewer.
- *Clients.* One job and one restart give a lost job; a lost request is there to be retried.

Deadlock is not checked where the system really may come to rest: requests and callbacks are used
up, and nothing has to happen afterwards.

## 4. Fairness

Fairness is assumed only of what the process does by itself and what has a time limit:

- the event loop runs every callback that is due (`JobCallback`, `WarmupStep`, `TickEnds`, ...);
- a database request ends: the driver gives up after 600 seconds (`store/sql.js:28`), a connection
  after its own timeout, and either way the await is over;
- in the browser, React runs the effects of a rendering, a `fetch` is answered or fails, and an interval
  or a timeout that is armed fires (`PageStep`, `WatchFairness`); for the clients also that a run of
  the server ends, since what they do is the question, not what the server does.

Two kinds of awaits have no limit, and no fairness is assumed of them:

- *ARM.* `armGetPage` destroys a request whose socket is silent for 30 seconds. A response that is cut
  off before its body is complete emits neither `end` nor an error of the request, so the promise is
  never settled (`services/azureIngestionService.js:313`).
- *PowerShell.* The processes for quota apply and live placement are started without a timeout; a remote
  worker is aborted after `CAPACITY_WORKER_TIMEOUT_MS`, but the local script is tried next.

The liveness properties of the server therefore have the form *it ends, or it is for ever in such an
await*: `JobsSettle` and `RunsEnd` except `WaitsForAzure`, `AppliesEnd` except the stages `ready` and
`script`, `SchedulerRecovers` except a lookup. They say that nothing else keeps a job active, the
ingestion flag up, a request open or the scheduler blocked: not a failure, a refusal, an error in
an error handler or a restart. `WarmupStartsSchedulers` needs no exception.

`PageComesToRest` says that the effects which take selections back, reset pages and start loads come to
rest once the user stops, so that no two of them undo each other for ever. `EndedRunsAreShown` says
that a client stops following a run that has ended. It excludes one case, which the code has: the poll of
the React admin page asks for the status and the job in one `Promise.all`, so that after a restart the
404 of the lost job fails every poll, and polling goes on until the page is left.

Nobody has to call a route, fire a timer, change Azure, use the page or restart the process: those
actions have no fairness, and no property depends on them.

## 5. The proofs

The theorems are about any sets of callers, jobs, requests, users, subscriptions and migrations, and
any number of restarts, outages and workers. The assumptions are those that the modules state of their
constants: the kinds of callers are disjoint (`CallersDisjoint`), bounds are natural numbers
(`ParametersOK`), request bodies consist of numbers, booleans and the two special values, and the
environment holds normalised settings (`InputsOK`; `server.js` normalises them as it reads them), no
two migrations have one name, no script is empty and `schema.sql` begins with `dbo.CapacitySnapshot`
(`ScriptsOK`), and some batch writes the newest view after which none writes an older one (`ViewOK`).
At least one sign-in may be pending (`MaxPendingOK`). The SKU catalog's `Ttl` is positive and within
the bound on time (`CatalogBounds`), and usage and limits are natural numbers (`QuotasAreNumbers`), as
are those of captured candidates (`ShapesOK`), no subscription is listed twice
(`SubscriptionsDiffer`), and the rows of a report are finitely many, with SKUs of one family each and
whole numbers (`ReportTablesOK`). TLC evaluates each of them in a run.

### CapacityIngestionProofs

| Theorem | States |
|---|---|
| `TypeCorrect` | `Spec => []TypeOK` |
| `Inductive` | `Spec => []IInv` |
| `RunsExclude`, `FlagIsExact`, `ScoresHaveSnapshots` | the conjuncts `MutualExclusion`, `InProgressExact`, `ScoresFollowSnapshots` of `IInv` |
| `JobsAreFollowed` | `Spec => []NoStrandedJob` |
| `CapturesAreOrdered` | `Spec => CapturesInOrder`, an action property |
| `ImplementsPublisher` | `Spec => PublishesInTurn`: the refinement of `SnapshotPublisher` |

`MutualExclusion` alone is not inductive: that nobody enters a run in progress rests on the flag, so
`InProgressExact` is needed; and that the flag goes down only when the last caller leaves rests
on exclusion. `ScoresFollowSnapshots` needs to know what a run has already written when it comes to
its scores, `RunProgress`: the caller inside works on the capture `clock`, has published nothing
before `snapshots` and its snapshots, if it has any, after it. That a new run's capture is not among
those published needs `CapturesPast`: they are all at most `clock`. The conjunction of these is
`IInv`. Each action has one of four effects on it, each a lemma: quiet steps, the begin of a run, its
end, and an advance within it; losing the memory is a fifth.

`CapturesInOrder` follows since only the caller inside adds a capture, its own, and that is `clock`,
to which all others are at most equal and, by `RunProgress`, not equal. The refinement maps `current`
to `clock` while the flag is up, else to 0: `BeginRun` is `Begin`, the inserts are `Publish...` or
stutter when there are no rows, the ends and a restart are `End` or stutter.

`NoStrandedJob` rests on `JobsFollow`, an invariant of its own: the status of each job agrees with the
stage of its callback, and only settled jobs expire. The last part is what makes the cleanup safe
and is not visible in the property. Each step moves one callback and at most its own job, save
the cleanup and the loss of memory.

The reports of ingestion are in the same module:

| Theorem | States |
|---|---|
| `SuccessesAreDurable` | `[]ReportedSuccessIsDurable` |
| `FailuresAreReported` | `[]FailureIsReported` |
| `LogAgrees` | `[]LogAgreesWithJob` |
| `JobsGoForward` | `JobsMoveForward`, an action property |

They stand on `IInv` and `JobsFollow` and add three invariants. `Durable` is about a caller's own
capture: its snapshots are stored, and its scores if it began after their table was created
(`ScoresExpected`). `DurableInv` says what each stage has behind it; tables only grow, hence nobody
else can take that back, and a table created during a run puts nothing in that run's debt. `StatusInv`
adds that, while a run is in progress, the last success is earlier and the reported run is that run:
without it a refused timer, which writes only its error, could not be told from a run that failed.
`LogInv` ties the entries of a job to its callback: an entry exists only once the callback is done,
which is why there is at most one, and a callback about to log an outcome has a job with that outcome
or none.

### SchedulerSettingsProofs

| Theorem | States |
|---|---|
| `TypeCorrect` | whatever is asked for, intervals stay within a week |
| `OneTimerEach` | `[]TimersMatchConfig` |
| `StartupOnce` | `[]StartupRunsOnce` |
| `WholeSchedules` | `[]SchedulesAreWhole` |
| `UndisturbedSaves` | `[]UndisturbedSaveTakesEffect` |
| `RestartsAdopt` | `[]RestartAdoptsStored` |

The lemmas about the normalisers say what they return for any value; in particular, what was
normalised before it was stored is unchanged when it is parsed again (`StoredIsParsed`). `Timers`
joins the type with `TimersMatchConfig`, because the type of `armed` follows from there being one timer
at most. `SchedulesAreWhole` is not inductive, since settings are loaded while the schedule of an early
request is in force: `Whole` adds that the loaded one is in force only in a started process.
`Undisturbed(p)` says how far an undisturbed request has come: the first `next - 1` keys of the table
are its own (`StoredUpTo`), all of them when it is completed, and nobody else is active. `Adopted` says
that until the first request begins nobody stores anything, so that what was loaded is what is stored.

### PlatformProofs

| Theorem | States |
|---|---|
| `PoolsAreNotLeaked` | `[]OnlyTheGlobalPoolIsOpen`, of `SqlPool` |
| `WaitersAreServed` | `[]WaitersGetAWholeRuntime`, of `PowerShellRuntime` |
| `AnswersAreCurrent` | `[]AnswersMissOnlyTheNew`, of `SkuCatalog` |
| `CatalogIsMonotone` | `CatalogNeverGoesBack`, an action property of `ModelCatalog` |
| `SignInsAreHonoured` | `[]PendingSignInsAreHonoured`, of `SignIn` |
| `PagesNeverSkip` | `[]PagesMeet`, of `CapacityPages` |

The first follows from `PoolInv`, which adds `CachedIsGlobal`: `resetSqlPool` closes whatever is
cached *by then*, not the pool that failed the check, and that is harmless to the count of pools only
because the cached pool is always the driver's own. The second follows from `ShellInv`, which adds
`ProvisionMatchesDisk`: the directory is cleared and filled only while it is not whole, so that what
one lookup was given, no later provisioning takes away.

`CatalogInv` follows a payload of the SKU catalog from the query to the answer. What was read holds
all that was stored before the time `from` at which the request began, not at which it ended
(`ReaderKnows`); the cache keeps that time with the payload (`CacheKnows`), and a hit gives it out for
less than `Ttl`. Had the cache been stamped when it was filled, as the mutant does, the sum of both
delays would count. `ModelInv` says that what is stored or found is dated in the past; the newest rows
of a region then have a date (`ModelHasNewest`, from the bound on dates), and inserts only raise it.

`SignInInv` has two parts. `ListsInOrder`: every list of pending states, in the cookie or carried by a
request, is in the order of the logins, so what `parseOAuthStateList` drops has at least `MaxPending` newer
ones in the list (`LoginListKeeps`); this is the only place where the length of the list matters.
`Honoured`: a tab without an excuse that is at the provider has its state in the cookie *and in what every
request under way carries*, since each of them will replace the cookie; and one whose request is under
way is alone with it.

`PagesFollow`: the pages of the latest capture are slices of orders of it, one order for each, and all
but the last were followed by a next one; a new capture empties the claim, as its version is above
theirs. A reader at the end of one capture has then read as many pages as the count says
(`PagesReadThrough`), and the lengths add up to the total because each is the difference of what two
successive pages reach (`SumTelescopes`). A row alone with its key stands, in every order, behind as
many rows as have a smaller key (`AloneHasOnePlace`), so the differing orders of the pages do not move
it, and one page holds that place (`SameQuotient`).

### DashboardProofs

| Theorem | States |
|---|---|
| `EmptyReportsAreTrue` | `[]EmptyReportMeansNoDeficit`, of `QuotaDiscovery` |
| `QuotaIsCountedOnce` | `[]QuotaCountedOnce`, of `CapacityReads` |
| `AnswersAreStored` | `[]AnswersMatchTheStore`, of `PaaSScan` |
| `PanelsShowTheSelection` | `[]PanelsShowWhatIsSelected`, of `ReactPage` |
| `AnswersAreHonest` | `[]AnswersSayWhatTheyAre`, of `Recommendations` |
| `ReasonsTrue` | `[]ReasonsAreTrue`, of `ReportTables` |
| `GoodNewsNeverHurts` | `BetterNeverScoresLower`, an action property of `ReportTables` |
| `ReportsNeverDisagree` | `[]ReportsAgree`, of `ReportTables` |

`DiscoveryInv`: a place with a deficit that was asked for and is not in the report is still ahead, on
the list or with a worker (`CandidatesFollowed`, `PlacesFollowed`), and so is a subscription whose
regions are not on the list yet (`RegionsFollowed`). At the end nothing is ahead. `ReadsInv` says that a
family of a place has one row in each capture, whichever SKU represents it by then; since the rows
that are read are those of the newest capture of their place, not of their SKU, there is one. `PaaSInv`
says that scans with rows have times of their own and that each stored run is the whole of a scan
that knows its identifier; that the newest run is unique and not older than any answer rests on both.

`PageInv` compares each panel with what the last pass of the effects saw (`seen`), not with the
selections, which change in between: the load that counts asks for what was seen, and where there is none
the panel shows it, or nothing, or live scores (`Follows`). A pass that does not load a panel has seen no
change of what the panel depends on (`EffectsKeep`), though it may have seen other options and taken
selections back, which the next pass will see; unless the grid is off the screen, in which case coming
back to it is a change of the view. `LiveFollows` says of live scores that, while no load of the scores
has begun since they were asked for, the filters they answer are those that the last pass saw.

`LookupInv` keeps who was asked and with what until an answer comes (`RequestStands`), so that an answer
without a warning is the first runner's (`DegradedIsSaid`). What the direct runner finds rests on
`PrecedesTotally`: the comparison of listings ends with their place in the answer of ARM, which no two
share (`ListingsOK`), so every place of the ranking is taken by one listing (`RanksExist`); and a listing
is appended only if no listing of its kind, hence none of its SKU, is there (`AppendedServes`).

*The reports*, for any set of rows, regions, families and SKUs. The invariant is the type,
`CaptureInv`: every row is one an ingestion could have written, under the name of its SKU or of the
aggregate. `ScoreMeans` says of the score what the reasons and the other reports need of it: it is
High exactly if all rows are `OK`, and Low if nothing is free. That good news about a row that keeps
its SKU does not lower the score of that SKU is seen row by row (`OkStaysOk`, from
`ThresholdFollowsLimit`: the threshold of a state rises no faster than the limit) and then carried
through the counts and the sums. Reports that add up the same rows along different columns agree
because a sum may be taken class by class (`SumByClass`), and rows of pairs may be counted by the
first or the second member (`PairsCountedTwice`, for the transposed PaaS report). The pages differ
from the server in which cells they draw; `EmptyCellsAreBlocked` shows that a cell without rows is
`BLOCKED` in each and changes no verdict on a family (`PagesCoincide`, `ClassicFamilyIsTheServers`).

### QuotaProofs

| Theorem | States |
|---|---|
| `PlanKeepsBuffer` | `PlanSpec => []DonorsKeepBuffer` |
| `PlanServesInOrder` | `PlanSpec => []ServedInOrder` |
| `PlanAndSimulationAgree` | `PlanSpec => []PlanAgreesWithSimulation` |
| `ApplyTypesOK` | `Spec => []TypeOK`, of `QuotaApply` |
| `CapturedBufferIsKept` | `Spec => []DonorsKeepCapturedBuffer` |
| `NothingIsUnreported` | `Spec => []NothingUnreported` |
| `SubmittedIsChanged` | `Spec => []SubmittedMeansChanged` |

*The planner*, for any subscriptions and candidates. `PlanInv` says that the plan on the screen was built
for the run on the screen; the rest is about one plan. `PlanScopeSteps` turns the loop into facts about
each turn, for which `DataLemmas` shows that the recursive function exists, and the lemmas on the loop are
inductions over its turns: what is left of the donor's quota and what the rows take add up to
`Movable` (`RowsKeepBuffer`), and the recipients before the current one have all they need unless nothing
is left (`NextInTurn`, `PlanScopeInTurn`). That the recipients can be sorted, and are each served once,
is `RecipientsSorted`: `ServedBefore` is a strict total order on them (`ServedBeforeOrders`), because the
last comparison is by position. `NeedIsShortfall` is what makes plan and simulation agree: although
`getRecipientNeed` has a second case, for subscriptions without quota, the need is always the shortfall of
the buffer, which is at least 5.

*Applies*, for any requests with any donor, recipient, amount and scope, any regions, subscriptions
and bounds on failures, lost answers and restarts. `DonorsKeepCapturedBuffer` relates Azure to
captured runs and says nothing of what is between them, so it is not inductive. `ApplyInv` follows a
row from the plan to Azure: a plan does not change once it is built, and each of its rows keeps the
floor of the run it was built from (`RequestType` with `KeptRows`; `PlanKept` is where the planner's
arithmetic enters, for the default plan by way of its turns in `DefaultPlanKept`, for the single row
of a targeted or a pool plan in `SparedRowKept`: whatever amount is asked for, no more is moved than
is `Movable`); every row in a file or read by a script is of *some* plan (`FilesInv`; not of the
request's own, see finding 2 of section 6); and each limit is the first one or one that a planned row
proposed (`LimitsInv`). Rows carry absolute limits, which is why repeating, reordering and losing
requests cannot break this. For what is reported, `Accounted` splits the rows of a script into those
ahead (`Pending`) and the others: as long as nothing failed, the counters are those of the others, and
as many rows as it counts as submitted name a limit that is some plan's. `InStage` adds that a script
knows its file and that a request which completed has nothing ahead. TLC checked `ApplyInv` on the
instances of `quota_apply_two` and `quota_apply_file` before it was proved. Each action of Next has a
lemma (`...Step`); those that send share `SendsKeeps` and `SentIsAccounted`.

`DataLemmas` has what these proofs needed of data: sums over finite sets (`SumLaws`, `SumAdd`,
`SumUnion`, `SumByClass`), double counting (`PairsCountedTwice`), smallest members, sorting by a total
order (`OrderExists`), existence of recursive functions (`RecursionExists`), and the type of a
concatenation (`FlattenedType`).

### DatabaseBootstrapProofs

| Theorem | States |
|---|---|
| `AnswersAreTrue` | `[]OkMeansProvisioned` |
| `HistoryTellsTheTruth` | `[]HistoryIsTrue` |

What a request has read may be stale by the time it acts on it. `BaseInv` says that it stays true all
the same: tables, history, executed migrations and roles only grow (`Monotone`), so a request that has
seen a set of migrations is at the first one outside it (`IsNext`), and whatever it records fills no
gap before it. `Capacity \in tables` once there is a history is what keeps a later bootstrap from
starting with `schema.sql` again. The last part of `HistoryIsTrue`, the newest view, holds only as long as
requests come one after the other, and `SerialInv` says why: the one request under way has seen the
whole history, and either the batch that writes the view is still ahead of it or no batch after it
brings back an older one (`Passed`, from `ViewOK`).

### LivePlacementProofs

| Theorem | States |
|---|---|
| `ScoresAreFresh` | `[]StoredScoresAreFresh` |
| `GridIsMonotone` | `GridNeverGoesBack`, an action property |
| `SchedulerIsAlone` | `[]SchedulerRefreshesAlone`, of no run |

Freshness is not inductive, as it speaks of stored rows only. `FreshInv` adds what a refresh holds
before it stores: `ScoresGrow` (what Azure has now is at least what it had when any lookup began) and
`CallOK` (a refresh that asks has a time stamp, the values of its answers are at least what Azure had
then, and each flag it keeps was stored by a capture before that time: `ShownWasStored`). The
grid is the newest row by time stamp, a `CHOOSE`: `ThereIsANewest` shows that there is one, from the
well-founded order of the numbers that the time stamps lack to the bound, and `NewestGrows` compares
two grids, of which the second has more rows or a later horizon. `AloneInv` adds that the flag is a
Boolean. The proofs need that scopes are sequences of regions, part of `ParametersOK`.

### What only TLC checks

Liveness under fairness, as the prover handles neither `ENABLED` nor the rules that need it:
`JobsSettle`, `RunsEnd`, `AppliesEnd`, `WarmupStartsSchedulers`, `SchedulerRecovers`,
`PageComesToRest`, `EndedRunsAreShown`. Every other property of a passing run is proved. Where a proof
is by induction over data, `DataLemmas` states it over sets (a set that holds the first case and the
next of each member holds all), since the library's induction theorems take operators, which the
provers do not instantiate.

Type invariants and the conjuncts of inductive invariants (`MutualExclusion`, `InProgressExact`,
`ScoresFollowSnapshots`, `CapturesInOrder`, `StartupRunsOnce`, `RestartAdoptsStored`,
`SchedulerRefreshesAlone`) are proved and belong to no run.

## 6. What the code and its documentation disagree about

Five disagreements are shown by a run that expects a violation and are listed under `findings`:

1. `README.md:1011` calls `INGEST_INTERVAL_MINUTES` the "fallback default when SQL schedule settings
   are not present"; a missing key is `Number(null)`, an interval of 0 (`server.js:111`).
2. Two applies that build their plans within one second write the same file
   (`services/quotaApplyService.js:279`); a script then applies rows of the other request, where
   `api-contract.md:55` speaks of *the selected move plan*.
3. A warning of a call for one region is applied to all regions of the refresh
   (`services/livePlacementService.js:2467`); the comment at line 2429 says "to the whole chunk".
4. The answer to a simulation is shown whatever the form has become meanwhile
   (`react/main.js:4748`), and *Apply Move* sends the form, where line 2894 says "simulate impact on
   donors and recipients before applying anything".
5. After an answer without output, the last attempt of a recommendation runs the local script even
   with `CAPACITY_WORKER_DISABLE_LOCAL_FALLBACK` (`services/livePlacementService.js:2243`);
   `README.md:1027` says that it "disables App Service fallback".

Others were met while reading and have no run:

- A cut-off ARM response keeps `ingestStatus.inProgress` up until the process is restarted
  (see Fairness); `docs/ENVIRONMENT_VARIABLES.md:62` speaks of retries of network timeouts.
- `docs/ENVIRONMENT_VARIABLES.md:45` gives 30000 as the default of `SQL_REQUEST_TIMEOUT_MS`, the code
  600000 (`store/sql.js:28`).
- A row of the plan proposes the donor's limit minus its own transfer only
  (`services/quotaPlanService.js:62`). Two recipients served from one limit leave it reduced by one of
  the two amounts, while the simulation shows both (`README.md:1303`).
- The scheduled live refresh throws a 400 each time while the default family is `all`
  (`services/livePlacementService.js:2310`, `README.md:182`).
- The log entry of that refresh counts rows with older scores as refreshed (line 2590), and the text
  "Live placement lookup failed" is read as unavailability, so an outage is stored as such
  (lines 1768–1776).
- A timer's refusal is written into the status of the run in progress
  (`services/azureIngestionService.js:787`), so a run that succeeds may be reported as an error.
  `FailureIsReported` claims only the converse.
- The SQL preview names `CapacityLatest` where the code reads the latest batch
  (`services/sqlPreviewService.js:132`, `services/capacityService.js:609`), and counts only
  `CONSTRAINED` rows where the code counts `RESTRICTED` ones too (`services/sqlPreviewService.js:176`).
- The second case of `getRecipientNeed` (`services/quotaPlanService.js:12`), for constrained subscriptions
  without quota, is never the result: such a subscription lacks its whole buffer (`NeedIsShortfall`).
- `failureCount` of an apply keeps counting a refused batch whose rows were all submitted singly.
- The React admin page polls for ever for a job that a restart has lost (see Fairness).
- The legend of the React matrix says "Green: At least one SKU in this family is fully available"; a row
  whose cells are all `PARTIAL` is `CAUTION`. The PaaS report, transposed, calls such a row `OK`.
- "Fully Blocked Families" of the classic page (`app.js:1600`) counts the families of which no cell is
  blocked (and none `OK` or `LIMITED`): the condition is negated once too often.
- `rolling7Day` and `rolling14Day` peaks of the trend are taken over 7 or 14 buckets, whatever the
  length of a bucket.
- A report of shareable quota that has rows has not looked at places without a candidate, though
  `scannedSubscriptionCount` counts all subscriptions. The property claims only the empty report.
- A lookup that finds `pwsh.exe` before the extraction is complete, or after it was interrupted, takes
  a part of PowerShell for the whole (`services/livePlacementService.js:684`). The property claims
  only what those who waited are given.
- Overlapping bootstraps, or a migration replayed by name, may leave an older `dbo.CapacityLatest` behind a
  complete history. `HistoryIsTrue` claims the newest only for requests that come one after the other.
- Two logins of one browser that overlap lose one of the pending states, since each rewrites the
  cookie as it was sent (`middleware/auth.js:441`), and an error of the session store loses every session
  in it (`server.js:1482`). `PendingSignInsAreHonoured` names both among the reasons for which a sign-in
  may be refused, and so does not watch them.
- The comment at `server.js:1368` says of the session table "ensured before any app traffic is
  served"; the warmup that ensures it is begun when the server listens, and goes on without it (line
  3495). `SchedulerSettings` has that order.
- While `dbo.CapacityScoreSnapshot` does not exist, `insertCapacityScoreSnapshots` returns 0 without an error
  (`store/sql.js:332`): the run reports its success with no scores stored. `ReportedSuccessIsDurable` claims
  the scores only if the table was there when the run began.
- A live placement row whose answer has no `isAvailable` or `isRestricted` keeps those that the grid had and
  is stored with them under the new time stamp (`services/livePlacementService.js:2511`).
  `StoredScoresAreFresh` claims of such a flag only that a capture before had it.
- The representative SKU names the row (`services/azureIngestionService.js:591`): when a restriction is
  lifted, a row moves from `<family>-aggregate`, or from another SKU, into the group of the SKU that is now
  available, and may lower that group's score. `BetterNeverScoresLower` is about rows that keep their SKU.
- A live refresh of the scores in the React page is not sequenced: an answer that comes after the selection
  has changed and its scores have been loaded replaces them (`react/main.js:4520`).
  `PanelsShowWhatIsSelected` admits this case and no other.
- In the donor mode of the workbench an amount of 0 is sent as the text "0" to the plan, which refuses it
  (`react/main.js:4738`), and as the number 0 to the simulation and to *Apply Move*, which get the default
  plan of the scope (lines 4748 and 4758).
- The pool that `getSqlPool` gives out may be closed by another request's reset, or be `undefined` when that
  request has cleared the variable across an await (`store/sql.js:105`). `OnlyTheGlobalPoolIsOpen` is about
  leaks only; the next request makes a new pool.

## 7. What is not modelled, and the plan

Left out for good: SQL previews, exports, DTOs, presets and telemetry (formatting and field
renaming), panels that load once and show what came, templates and deployment scripts, the
normalisation of family names and the index script (single statements run by hand), role checks
(comparisons of lists), and the interactive report of `Get-AzVMAvailability` (stateless queries). In the
modelled parts the wording of messages, the columns of rows, prices, and the paging of ARM are left out.
The states of AI quota rows follow a rule of their own and are not in the reports. An amount with the
region and the family `all` is refused, as in the code; sent without them, as only a caller of the API can,
it is ignored, and the request is that for a default plan. In `Recommendations` a SKU's name stands for
its profile, as it does in Azure. In `PaaSScan` a `COMMIT` whose answer is lost counts as rolled back. The
classic page loads its grid without a request counter (`app.js:3617`), so that an older answer may replace
a newer one until the next load; it promises nothing else and has no model.
One process is assumed: a second one would have flags and maps of its own, and would share the
database and, for `PowerShellRuntime`, the directory.

Not modelled yet, and worth it:

1. The bucketing of the trend by day with its rolling peaks, and the score history
   (`services/capacityService.js`), as operators beside `CapacityReports`.
2. The diagnostics of a live placement answer and the choice of the SKUs of a family.
3. The form of the recommender in the React page, with the structure of `QuotaWorkbench`.
4. A bridge from `CapacityIngestion` to `CapacityPages` and `SkuCatalog`, whose captures and ingested
   rows are environment actions now.

Theorems worth proving next: for the bridge, that `CapacityIngestion` implements what `CapacityPages` and
`SkuCatalog` assume of captures; for `JobWatch`, that a client shows nothing of a job that the server did
not say of it; for `DatabaseBootstrap`, that a bootstrap alone, at any point of the history, leads to the
newest view.

## 8. Running the checks

In this directory:

    tlc -workers 2 -config CapacityIngestionSafety.cfg MCCapacityIngestion.tla
    tlapm CapacityIngestionProofs.tla

The module and the configuration of each run are under `runs` in `PROJECT.json`. Each run takes less
than five minutes on two workers.
