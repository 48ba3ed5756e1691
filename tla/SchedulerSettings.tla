------------------------- MODULE SchedulerSettings -------------------------
(***************************************************************************)
(* The schedules of one dashboard process and the settings behind them:    *)
(* PUT /api/admin/ingest/schedule (server.js), the keys "schedule.*" of    *)
(* dbo.DashboardSetting (sql.js), the startup warmup that loads them, and  *)
(* the two schedulers (azureIngestionService.js, livePlacementService.js). *)
(*                                                                         *)
(* A PUT stores five keys with one statement each and no transaction, then *)
(* reschedules.  Requests are served while the warmup is still running.    *)
(***************************************************************************)
EXTENDS Integers, Sequences

CONSTANTS
    Puts,           \* requests to PUT /api/admin/ingest/schedule
    Inputs,         \* the bodies they may have: see Input below
    EnvSettings,    \* the settings in the environment of the process
    Null,           \* no value: a JSON null, or no row in the table
    NotANumber,     \* a value that Number() turns into NaN, undefined among them
    MaxRestarts     \* bounds Restart

Schedulers == {"ingest", "livePlacement"}
MaxInterval == 7 * 24 * 60

Intervals == {"ingest", "livePlacement", "aiModelCatalog"}

ASSUME InputsOK ==
    /\ MaxRestarts \in Nat
    /\ Null # NotANumber /\ Null \notin Puts
    /\ {Null, NotANumber} \cap Int = {}
    /\ EnvSettings \in [interval : [Intervals -> 0..MaxInterval],
                        startup : [Schedulers -> BOOLEAN]]
    /\ \A input \in Inputs :
          /\ \A i \in Intervals : \/ input.interval[i] = Null
                                  \/ input.interval[i] = NotANumber
                                  \/ input.interval[i] \in Int
          /\ \A s \in Schedulers : input.startup[s] = Null \/ input.startup[s] \in BOOLEAN

VARIABLES
    table,      \* dbo.DashboardSetting exists
    stored,     \* its rows: [interval, startup], Null where there is none
    put,        \* request -> its body, how far it is, the next key to store
    boot,       \* where runStartupWarmup is
    loaded,     \* the settings it has loaded
    runtime,    \* scheduler -> [interval, startup], schedulerConfig of each
    armed,      \* scheduler -> the periods of its live interval timers
    startups,   \* scheduler -> runs its startup timeout was set for
    restarts,   \* bounds Restart
    last, alone \* the PUT begun last, and whether nothing went on beside it

process == <<put, boot, loaded, runtime, armed, startups, last, alone>>
vars == <<table, stored, process, restarts>>

(***************************************************************************)
(* Normalisation.                                                          *)
(***************************************************************************)

Clamped(n) == IF n < 0 THEN 0 ELSE IF n > MaxInterval THEN MaxInterval ELSE n

\* normalizeIntervalMinutes.  Number(null) is 0, which is finite: only what is no
\* number takes the fallback.
NormalizeInterval(value, fallback) ==
    IF value = Null THEN 0
    ELSE IF value = NotANumber THEN Clamped(fallback)
    ELSE Clamped(value)

NormalizeBoolean(value, fallback) == IF value = Null THEN fallback ELSE value

\* saveSchedulerSettings and applyRuntimeSchedulerSettings normalise alike.
Normalized(input) ==
    [interval |-> [i \in Intervals |->
        NormalizeInterval(input.interval[i], IF i = "aiModelCatalog" THEN 1440 ELSE 0)],
     startup |-> [s \in Schedulers |-> NormalizeBoolean(input.startup[s], FALSE)]]

\* parseSchedulerSettingsFromDb.
Parsed(rows) ==
    [interval |-> [i \in Intervals |->
        NormalizeInterval(rows.interval[i], EnvSettings.interval[i])],
     startup |-> [s \in Schedulers |->
        NormalizeBoolean(rows.startup[s], EnvSettings.startup[s])]]

\* The configurations of the schedulers under given settings.
ConfigOf(settings) ==
    [s \in Schedulers |-> [interval |-> settings.interval[s],
                           startup  |-> settings.startup[s]]]

(***************************************************************************)
(* The keys, in the order in which they are stored.                        *)
(***************************************************************************)

KeyOrder == <<<<"interval", "ingest">>, <<"startup", "ingest">>,
              <<"interval", "livePlacement">>, <<"startup", "livePlacement">>,
              <<"interval", "aiModelCatalog">>>>

\* MERGE of the row of one key.
Merged(rows, key, settings) ==
    IF key[1] = "interval"
    THEN [rows EXCEPT !.interval[key[2]] = settings.interval[key[2]]]
    ELSE [rows EXCEPT !.startup[key[2]] = settings.startup[key[2]]]

NoRows == [interval |-> [i \in Intervals |-> Null],
           startup  |-> [s \in Schedulers |-> Null]]

(***************************************************************************)
(* Initial state.                                                          *)
(***************************************************************************)

NoConfig == [s \in Schedulers |-> [interval |-> 0, startup |-> FALSE]]

NoPut == [stage |-> "unused", wants |-> EnvSettings, next |-> 1]

Init ==
    /\ table \in BOOLEAN
    /\ stored = NoRows
    /\ put = [p \in Puts |-> NoPut]
    /\ boot = "sessions"
    /\ loaded = EnvSettings
    /\ runtime = NoConfig
    /\ armed = [s \in Schedulers |-> <<>>]
    /\ startups = [s \in Schedulers |-> 0]
    /\ restarts = 0
    /\ last = Null /\ alone = FALSE

(***************************************************************************)
(* The schedulers.                                                         *)
(***************************************************************************)

\* Mutant: the timer in force is not cleared.
StillTicking(s) == armed[s]

\* clearInterval(schedulerHandle), for the timer set last.
Cleared(s) ==
    IF armed[s] = <<>> THEN <<>> ELSE SubSeq(armed[s], 1, Len(armed[s]) - 1)

\* applyIngestionScheduler and applyLivePlacementScheduler.
Schedule(config, runStartup) ==
    /\ runtime' = config
    /\ armed' = [s \in Schedulers |->
                   IF config[s].interval > 0 THEN Append(Cleared(s), config[s].interval)
                   ELSE Cleared(s)]
    /\ startups' = [s \in Schedulers |->
                      IF runStartup /\ config[s].startup THEN startups[s] + 1
                      ELSE startups[s]]

(***************************************************************************)
(* PUT /api/admin/ingest/schedule.                                         *)
(***************************************************************************)

Active(p) == put[p].stage \in {"checking", "saving"}

Begin(p) ==
    /\ put[p].stage = "unused"
    /\ \E input \in Inputs :
          put' = [put EXCEPT ![p] = [stage |-> "checking", wants |-> Normalized(input),
                                     next |-> 1]]
    /\ last' = p
    /\ alone' = (boot = "started" /\ \A q \in Puts : ~Active(q))
    /\ UNCHANGED <<table, stored, boot, loaded, runtime, armed, startups, restarts>>

\* The settings cannot be stored: the answer is 409.
Refuse(p) ==
    /\ put[p].stage = "checking"
    /\ ~table
    /\ put' = [put EXCEPT ![p].stage = "refused"]
    /\ UNCHANGED <<table, stored, boot, loaded, runtime, armed, startups, restarts,
                   last, alone>>

StartSaving(p) ==
    /\ put[p].stage = "checking"
    /\ table
    /\ put' = [put EXCEPT ![p].stage = "saving"]
    /\ UNCHANGED <<table, stored, boot, loaded, runtime, armed, startups, restarts,
                   last, alone>>

\* Mutant: the request does not wait for the last key.
StoreKeyEarly(p) ==
    /\ put[p].stage = "saving"
    /\ put[p].next <= Len(KeyOrder)
    /\ stored' = Merged(stored, KeyOrder[put[p].next], put[p].wants)
    /\ put' = [put EXCEPT ![p].next = IF @ = 4 THEN 6 ELSE @ + 1]
    /\ UNCHANGED <<table, boot, loaded, runtime, armed, startups, restarts, last, alone>>

\* upsertDashboardSettings, one key.
StoreKey(p) ==
    /\ put[p].stage = "saving"
    /\ put[p].next <= Len(KeyOrder)
    /\ stored' = Merged(stored, KeyOrder[put[p].next], put[p].wants)
    /\ put' = [put EXCEPT ![p].next = @ + 1]
    /\ UNCHANGED <<table, boot, loaded, runtime, armed, startups, restarts, last, alone>>

\* No pool, a statement that fails, or one whose answer is lost: what is stored
\* stays stored, the schedule stays as it was.
PutFails(p) ==
    /\ Active(p)
    /\ put' = [put EXCEPT ![p].stage = "failed"]
    /\ UNCHANGED <<table, stored, boot, loaded, runtime, armed, startups, restarts,
                   last, alone>>

\* Mutant: what is now in the table is put in force.
ApplySavedFromTable(p) ==
    /\ put[p].stage = "saving"
    /\ put[p].next > Len(KeyOrder)
    /\ put' = [put EXCEPT ![p].stage = "completed"]
    /\ Schedule(ConfigOf(Parsed(stored)), FALSE)
    /\ UNCHANGED <<table, stored, boot, loaded, restarts, last, alone>>

\* All keys are stored: applyRuntimeSchedulerSettings.
ApplySaved(p) ==
    /\ put[p].stage = "saving"
    /\ put[p].next > Len(KeyOrder)
    /\ put' = [put EXCEPT ![p].stage = "completed"]
    /\ Schedule(ConfigOf(put[p].wants), FALSE)
    /\ UNCHANGED <<table, stored, boot, loaded, restarts, last, alone>>

(***************************************************************************)
(* runStartupWarmup.                                                       *)
(***************************************************************************)

\* The session store's schema, set up or not.
SetUpSessions ==
    /\ boot = "sessions"
    /\ boot' = "schema"
    /\ UNCHANGED <<table, stored, put, loaded, runtime, armed, startups, restarts,
                   last, alone>>

\* Mutant: a schema that cannot be set up ends the warmup.
SetUpSchemaOrStop ==
    /\ boot = "schema"
    /\ boot' = IF table THEN "load" ELSE "stopped"
    /\ UNCHANGED <<table, stored, put, loaded, runtime, armed, startups, restarts,
                   last, alone>>

\* ensurePhase3Schema, whether it fails or not.
SetUpSchema ==
    /\ boot = "schema"
    /\ boot' = "load"
    /\ UNCHANGED <<table, stored, put, loaded, runtime, armed, startups, restarts,
                   last, alone>>

\* getEffectiveSchedulerSettings reads the table; there is nothing to read where
\* there is no table.
LoadSettings ==
    /\ boot = "load"
    /\ boot' = "loaded"
    /\ loaded' = Parsed(stored)
    /\ UNCHANGED <<table, stored, put, runtime, armed, startups, restarts, last, alone>>

\* The query fails.
LoadFails ==
    /\ boot = "load"
    /\ boot' = "defaulted"
    /\ loaded' = EnvSettings
    /\ UNCHANGED <<table, stored, put, runtime, armed, startups, restarts, last, alone>>

StartSchedulers ==
    /\ boot \in {"loaded", "defaulted"}
    /\ boot' = "started"
    /\ Schedule(ConfigOf(loaded), TRUE)
    /\ alone' = (alone /\ \A p \in Puts : ~Active(p))
    /\ UNCHANGED <<table, stored, put, loaded, restarts, last>>

(***************************************************************************)
(* The surroundings.                                                       *)
(***************************************************************************)

\* A database bootstrap or migration creates the table.
Provision ==
    /\ ~table
    /\ table' = TRUE
    /\ UNCHANGED <<stored, process, restarts>>

\* The process ends, with its timers and requests, and is started again.
Restart ==
    /\ restarts < MaxRestarts
    /\ restarts' = restarts + 1
    /\ put' = [p \in Puts |-> IF Active(p) THEN [put[p] EXCEPT !.stage = "lost"]
                              ELSE put[p]]
    /\ boot' = "sessions" /\ loaded' = EnvSettings
    /\ runtime' = NoConfig
    /\ armed' = [s \in Schedulers |-> <<>>]
    /\ startups' = [s \in Schedulers |-> 0]
    /\ last' = Null /\ alone' = FALSE
    /\ UNCHANGED <<table, stored>>

PutStep(p) == Refuse(p) \/ StartSaving(p) \/ StoreKey(p) \/ PutFails(p) \/ ApplySaved(p)

WarmupStep ==
    SetUpSessions \/ SetUpSchema \/ LoadSettings \/ LoadFails \/ StartSchedulers

Next ==
    \/ \E p \in Puts : Begin(p) \/ PutStep(p)
    \/ WarmupStep \/ Provision \/ Restart

Spec == Init /\ [][Next]_vars

\* Every await of the warmup ends: mssql has timeouts.
Fairness == WF_vars(WarmupStep)
FairSpec == Spec /\ Fairness

(***************************************************************************)
(* Properties.                                                             *)
(***************************************************************************)

Settings == [interval : [Intervals -> 0..MaxInterval], startup : [Schedulers -> BOOLEAN]]

Configs == [Schedulers -> [interval : 0..MaxInterval, startup : BOOLEAN]]

Rows == [interval : [Intervals -> (0..MaxInterval) \cup {Null}],
         startup  : [Schedulers -> BOOLEAN \cup {Null}]]

PutRecord == [stage : {"unused", "checking", "saving", "completed", "refused", "failed",
                       "lost"},
              wants : Settings, next : 1..(Len(KeyOrder) + 1)]

\* Every variable has its type: whatever a request asks for, intervals stay
\* within a week.
TypeOK ==
    /\ table \in BOOLEAN
    /\ stored \in Rows
    /\ put \in [Puts -> PutRecord]
    /\ boot \in {"sessions", "schema", "load", "loaded", "defaulted", "started"}
    /\ loaded \in Settings
    /\ runtime \in Configs
    /\ armed \in [Schedulers -> Seq(1..MaxInterval)]
    /\ startups \in [Schedulers -> Nat]
    /\ restarts \in 0..MaxRestarts

\* However often the schedules are changed, each scheduler has exactly the timer
\* of the configuration it reports, and none when it reports 0.
TimersMatchConfig ==
    \A s \in Schedulers :
        armed[s] = IF runtime[s].interval > 0 THEN <<runtime[s].interval>> ELSE <<>>

\* A process runs at startup what the loaded settings ask for, once; changing the
\* schedules never starts a run.
StartupRunsOnce ==
    \A s \in Schedulers :
        startups[s] = IF boot = "started" /\ loaded.startup[s] THEN 1 ELSE 0

\* A schedule in force is one that somebody asked for as a whole: the one loaded at
\* startup or that of one completed request, never a mixture of two requests.
SchedulesAreWhole ==
    \/ runtime = NoConfig
    \/ runtime = ConfigOf(loaded)
    \/ \E p \in Puts : put[p].stage = "completed" /\ runtime = ConfigOf(put[p].wants)

\* After a request that succeeded with no other request and no startup beside it,
\* the schedules in force and the table hold all that it asked for.
UndisturbedSaveTakesEffect ==
    \A p \in Puts :
        p = last /\ alone /\ put[p].stage = "completed" =>
            /\ runtime = ConfigOf(put[p].wants)
            /\ stored = put[p].wants

\* A process that has loaded its settings keeps the intervals that are in the
\* table, whatever is in its environment, until a request changes them.
RestartAdoptsStored ==
    boot = "started" /\ last = Null =>
        \/ loaded = EnvSettings
        \/ \A s \in Schedulers :
              stored.interval[s] # Null => runtime[s].interval = stored.interval[s]

\* README.md on INGEST_INTERVAL_MINUTES: "fallback default when SQL schedule settings
\* are not present".  (Violated: a missing key is Number(null), an interval of 0.)
EnvironmentIsFallback ==
    boot = "started" /\ last = Null /\ stored = NoRows =>
        runtime["ingest"].interval = EnvSettings.interval["ingest"]

\* The schedulers are started, whatever fails before.
WarmupEnds == boot = "sessions" ~> boot = "started"

=============================================================================
