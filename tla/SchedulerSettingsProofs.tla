----------------------- MODULE SchedulerSettingsProofs -----------------------
(***************************************************************************)
(* Proofs about SchedulerSettings, for any requests, bodies and environment*)
(* and any number of restarts.                                             *)
(***************************************************************************)
EXTENDS SchedulerSettings, TLAPS

(***************************************************************************)
(* What the normalisers return.                                            *)
(***************************************************************************)

\* The intervals are numbers, and neither of the two other values.
LEMMA WeekIsInt ==
    /\ MaxInterval \in Nat /\ 0..MaxInterval \subseteq Int
    /\ Null \notin 0..MaxInterval /\ NotANumber \notin 0..MaxInterval
  <1>1. MaxInterval \in Nat /\ 0..MaxInterval \subseteq Int
    BY DEF MaxInterval
  <1>2. QED
    BY <1>1, InputsOK

\* The rows of the table are two functions.
LEMMA RowFields ==
    ASSUME NEW rows \in Rows
    PROVE  /\ rows = [interval |-> rows.interval, startup |-> rows.startup]
           /\ rows.interval \in [Intervals -> (0..MaxInterval) \cup {Null}]
           /\ rows.startup \in [Schedulers -> BOOLEAN \cup {Null}]
  BY DEF Rows

\* An interval of whatever origin ends up within a week.
LEMMA ClampedType == \A n \in Int : Clamped(n) \in 0..MaxInterval
  BY DEF Clamped, MaxInterval

\* Normalising an interval gives one of a week at most, whatever it is given.
LEMMA NormalizeIntervalType ==
    ASSUME NEW value, NEW fallback \in Int,
           value = Null \/ value = NotANumber \/ value \in Int
    PROVE  NormalizeInterval(value, fallback) \in 0..MaxInterval
  <1>1. CASE value = Null
    BY <1>1 DEF NormalizeInterval, MaxInterval
  <1>2. CASE value # Null /\ value = NotANumber
    BY <1>2, ClampedType DEF NormalizeInterval
  <1>3. CASE value # Null /\ value # NotANumber
    BY <1>3, ClampedType DEF NormalizeInterval
  <1>4. QED
    BY <1>1, <1>2, <1>3

\* What is asked for is normalised to settings.
LEMMA NormalizedType == \A input \in Inputs : Normalized(input) \in Settings
  <1> SUFFICES ASSUME NEW input \in Inputs
               PROVE  Normalized(input) \in Settings
    OBVIOUS
  <1>1. ASSUME NEW i \in Intervals
        PROVE  NormalizeInterval(input.interval[i], IF i = "aiModelCatalog" THEN 1440 ELSE 0)
                 \in 0..MaxInterval
    <2>1. \/ input.interval[i] = Null \/ input.interval[i] = NotANumber
          \/ input.interval[i] \in Int
      BY InputsOK
    <2>2. (IF i = "aiModelCatalog" THEN 1440 ELSE 0) \in Int
      OBVIOUS
    <2>3. QED
      BY <2>1, <2>2, NormalizeIntervalType
  <1>2. ASSUME NEW s \in Schedulers
        PROVE  NormalizeBoolean(input.startup[s], FALSE) \in BOOLEAN
    BY InputsOK DEF NormalizeBoolean
  <1>3. QED
    BY <1>1, <1>2 DEF Normalized, Settings

\* What is read from the table is normalised to settings.
LEMMA ParsedType == \A rows \in Rows : Parsed(rows) \in Settings
  <1> SUFFICES ASSUME NEW rows \in Rows
               PROVE  Parsed(rows) \in Settings
    OBVIOUS
  <1>1. ASSUME NEW i \in Intervals
        PROVE  NormalizeInterval(rows.interval[i], EnvSettings.interval[i]) \in 0..MaxInterval
    <2>1. rows.interval[i] = Null \/ rows.interval[i] \in Int
      BY RowFields, WeekIsInt
    <2>2. EnvSettings.interval[i] \in Int
      <3>1. EnvSettings.interval \in [Intervals -> 0..MaxInterval]
        BY InputsOK
      <3>2. QED
        BY <3>1, WeekIsInt
    <2>3. QED
      BY <2>1, <2>2, NormalizeIntervalType
  <1>2. ASSUME NEW s \in Schedulers
        PROVE  NormalizeBoolean(rows.startup[s], EnvSettings.startup[s]) \in BOOLEAN
    BY InputsOK DEF NormalizeBoolean, Rows
  <1>3. QED
    BY <1>1, <1>2 DEF Parsed, Settings

\* An interval that is stored is read as it is.
LEMMA StoredIsParsed ==
    ASSUME NEW rows \in Rows, NEW i \in Intervals, rows.interval[i] # Null
    PROVE  Parsed(rows).interval[i] = rows.interval[i]
  <1>1. rows.interval[i] \in 0..MaxInterval /\ rows.interval[i] # NotANumber
    BY RowFields, WeekIsInt
  <1>2. NormalizeInterval(rows.interval[i], EnvSettings.interval[i]) = rows.interval[i]
    <2>1. rows.interval[i] \in Int /\ rows.interval[i] >= 0
          /\ rows.interval[i] <= MaxInterval
      BY <1>1, WeekIsInt
    <2>2. Clamped(rows.interval[i]) = rows.interval[i]
      BY <2>1 DEF Clamped, MaxInterval
    <2>3. QED
      BY <1>1, <2>2 DEF NormalizeInterval
  <1>3. QED
    BY <1>2 DEF Parsed

\* The settings of the environment are settings.
LEMMA EnvType == EnvSettings \in Settings
  BY InputsOK DEF Settings

\* Settings give each scheduler a configuration.
LEMMA ConfigType == \A settings \in Settings : ConfigOf(settings) \in Configs
  BY DEF ConfigOf, Settings, Configs, Schedulers, Intervals

\* The five keys, one by one.
LEMMA Keys ==
    /\ Len(KeyOrder) = 5
    /\ KeyOrder[1] = <<"interval", "ingest">>
    /\ KeyOrder[2] = <<"startup", "ingest">>
    /\ KeyOrder[3] = <<"interval", "livePlacement">>
    /\ KeyOrder[4] = <<"startup", "livePlacement">>
    /\ KeyOrder[5] = <<"interval", "aiModelCatalog">>
  BY DEF KeyOrder

\* The row of one key is merged into the others.
LEMMA MergedType ==
    ASSUME NEW rows \in Rows, NEW settings \in Settings, NEW k \in 1..5
    PROVE  Merged(rows, KeyOrder[k], settings) \in Rows
  <1>1. CASE k = 1
    BY <1>1, Keys DEF Merged, Rows, Settings, Intervals, Schedulers
  <1>2. CASE k = 2
    BY <1>2, Keys DEF Merged, Rows, Settings, Intervals, Schedulers
  <1>3. CASE k = 3
    BY <1>3, Keys DEF Merged, Rows, Settings, Intervals, Schedulers
  <1>4. CASE k = 4
    BY <1>4, Keys DEF Merged, Rows, Settings, Intervals, Schedulers
  <1>5. CASE k = 5
    BY <1>5, Keys DEF Merged, Rows, Settings, Intervals, Schedulers
  <1>6. QED
    BY <1>1, <1>2, <1>3, <1>4, <1>5

(***************************************************************************)
(* Type correctness.                                                       *)
(***************************************************************************)

\* Moving a request to another stage, or to the next key, keeps the type of put.
LEMMA PutType ==
    ASSUME TypeOK, NEW p \in Puts, NEW c \in PutRecord, put' = [put EXCEPT ![p] = c]
    PROVE  put' \in [Puts -> PutRecord]
  BY DEF TypeOK

\* Moving a request to another stage keeps its type.
LEMMA StageType ==
    ASSUME NEW c \in PutRecord,
           NEW s \in {"unused", "checking", "saving", "completed", "refused", "failed",
                      "lost"}
    PROVE  [c EXCEPT !.stage = s] \in PutRecord
  BY DEF PutRecord

\* What the timers of a scheduler may be: none, or one.
LEMMA SingletonSeq ==
    ASSUME NEW S, NEW x \in S
    PROVE  <<x>> \in Seq(S) /\ Append(<<>>, x) = <<x>> /\ <<>> \in Seq(S)
  <1>1. <<>> \in Seq(S) /\ <<x>> \in Seq(S)
    OBVIOUS
  <1>2. Append(<<>>, x) = <<x>>
    BY <1>1, SMT
  <1>3. QED
    BY <1>1, <1>2

\* The schedulers have one timer each, that of the configuration they report.
LEMMA ScheduleType ==
    ASSUME TypeOK, TimersMatchConfig, NEW config \in Configs, NEW runStartup \in BOOLEAN,
           Schedule(config, runStartup)
    PROVE  /\ runtime' = config
           /\ armed' \in [Schedulers -> Seq(1..MaxInterval)]
           /\ startups' \in [Schedulers -> Nat]
           /\ TimersMatchConfig'
  <1>1. runtime' = config
    BY DEF Schedule
  <1>2. startups' \in [Schedulers -> Nat]
    BY DEF Schedule, TypeOK
  <1>3. \A s \in Schedulers : Cleared(s) = <<>>
    <2> SUFFICES ASSUME NEW s \in Schedulers PROVE Cleared(s) = <<>>
      OBVIOUS
    <2>1. CASE armed[s] = <<>>
      BY <2>1 DEF Cleared
    <2>2. CASE armed[s] # <<>>
      <3>1. armed[s] = <<runtime[s].interval>>
        BY <2>2 DEF TimersMatchConfig
      <3>2. Len(armed[s]) = 1 /\ SubSeq(armed[s], 1, 0) = <<>>
        BY <3>1
      <3>3. QED
        BY <2>2, <3>2 DEF Cleared
    <2>3. QED
      BY <2>1, <2>2
  <1>4. \A s \in Schedulers : config[s].interval \in 0..MaxInterval
    BY DEF Configs
  <1>5. ASSUME NEW s \in Schedulers
        PROVE  armed'[s] = IF config[s].interval > 0 THEN <<config[s].interval>> ELSE <<>>
    <2>1. armed'[s] = IF config[s].interval > 0 THEN Append(Cleared(s), config[s].interval)
                      ELSE Cleared(s)
      BY DEF Schedule
    <2>2. Append(<<>>, config[s].interval) = <<config[s].interval>>
      BY <1>4, SingletonSeq
    <2>3. QED
      BY <1>3, <2>1, <2>2, Zenon
  <1>6. ASSUME NEW s \in Schedulers
        PROVE  armed'[s] \in Seq(1..MaxInterval)
    <2>1. CASE config[s].interval > 0
      <3>1. config[s].interval \in 1..MaxInterval
        BY <1>4, <2>1, WeekIsInt
      <3>2. <<config[s].interval>> \in Seq(1..MaxInterval)
        BY <3>1, SingletonSeq
      <3>3. QED
        BY <1>5, <2>1, <3>2, Zenon
    <2>2. CASE ~(config[s].interval > 0)
      <3>1. armed'[s] = <<>>
        BY <1>5, <2>2, Zenon
      <3>2. QED
        BY <3>1
    <2>3. QED
      BY <2>1, <2>2
  <1>7. armed' \in [Schedulers -> Seq(1..MaxInterval)]
    BY <1>6 DEF Schedule
  <1>8. TimersMatchConfig'
    BY <1>1, <1>5 DEF TimersMatchConfig
  <1>9. QED
    BY <1>1, <1>2, <1>7, <1>8

Timers == TypeOK /\ TimersMatchConfig

\* The invariant holds in the initial states ...
LEMMA InitTimers == Init => Timers
  <1> SUFFICES ASSUME Init PROVE Timers
    OBVIOUS
  <1>1. NoRows \in Rows
    BY DEF NoRows, Rows
  <1>2. NoPut \in PutRecord
    BY EnvType, Keys DEF NoPut, PutRecord
  <1>3. NoConfig \in Configs
    BY WeekIsInt DEF NoConfig, Configs
  <1>4. TypeOK
    BY <1>1, <1>2, <1>3, EnvType, InputsOK DEF Init, TypeOK
  <1>5. TimersMatchConfig
    BY DEF Init, TimersMatchConfig, NoConfig
  <1>6. QED
    BY <1>4, <1>5 DEF Timers

\* Every step keeps the types and leaves each scheduler with its one timer.
LEMMA NextTimers == Timers /\ [Next]_vars => Timers'
  <1> SUFFICES ASSUME TypeOK, TimersMatchConfig, [Next]_vars
               PROVE  TypeOK' /\ TimersMatchConfig'
    BY DEF Timers
  <1>1. ASSUME NEW p \in Puts, Begin(p) PROVE TypeOK' /\ TimersMatchConfig'
    <2>1. PICK input \in Inputs :
            put' = [put EXCEPT ![p] = [stage |-> "checking", wants |-> Normalized(input),
                                       next |-> 1]]
      BY <1>1 DEF Begin
    <2>2. [stage |-> "checking", wants |-> Normalized(input), next |-> 1] \in PutRecord
      BY NormalizedType, Keys DEF PutRecord
    <2>3. put' \in [Puts -> PutRecord]
      BY <2>1, <2>2, PutType
    <2>4. QED
      BY <1>1, <2>3 DEF Begin, TypeOK, TimersMatchConfig
  <1>2. ASSUME NEW p \in Puts, Refuse(p) \/ StartSaving(p) \/ PutFails(p)
        PROVE  TypeOK' /\ TimersMatchConfig'
    <2>1. put[p] \in PutRecord
      BY DEF TypeOK
    <2>2. PICK s \in {"refused", "saving", "failed"} : put' = [put EXCEPT ![p].stage = s]
      BY <1>2 DEF Refuse, StartSaving, PutFails
    <2>3. put' = [put EXCEPT ![p] = [put[p] EXCEPT !.stage = s]]
      BY <2>2
    <2>4. put' \in [Puts -> PutRecord]
      BY <2>1, <2>3, PutType, StageType
    <2>5. QED
      BY <1>2, <2>4 DEF Refuse, StartSaving, PutFails, TypeOK, TimersMatchConfig
  <1>3. ASSUME NEW p \in Puts, StoreKey(p) PROVE TypeOK' /\ TimersMatchConfig'
    <2>1. put[p] \in PutRecord
      BY DEF TypeOK
    <2>2. put[p].next \in 1..5 /\ put[p].wants \in Settings
      BY <1>3, <2>1, Keys DEF StoreKey, PutRecord
    <2>3. stored' \in Rows
      BY <1>3, <2>2, MergedType DEF StoreKey, TypeOK
    <2>4. [put[p] EXCEPT !.next = @ + 1] \in PutRecord
      BY <2>1, <2>2, Keys DEF PutRecord
    <2>5. put' = [put EXCEPT ![p] = [put[p] EXCEPT !.next = @ + 1]]
      BY <1>3 DEF StoreKey
    <2>6. put' \in [Puts -> PutRecord]
      BY <2>4, <2>5, PutType
    <2>7. QED
      BY <1>3, <2>3, <2>6 DEF StoreKey, TypeOK, TimersMatchConfig
  <1>4. ASSUME NEW p \in Puts, ApplySaved(p) PROVE TypeOK' /\ TimersMatchConfig'
    <2>1. put[p] \in PutRecord
      BY DEF TypeOK
    <2>2. put' = [put EXCEPT ![p] = [put[p] EXCEPT !.stage = "completed"]]
      BY <1>4 DEF ApplySaved
    <2>3. put' \in [Puts -> PutRecord]
      BY <2>1, <2>2, PutType, StageType
    <2>4. ConfigOf(put[p].wants) \in Configs
      BY <2>1, ConfigType DEF PutRecord
    <2>5. Schedule(ConfigOf(put[p].wants), FALSE)
      BY <1>4 DEF ApplySaved
    <2>6. /\ runtime' \in Configs /\ armed' \in [Schedulers -> Seq(1..MaxInterval)]
          /\ startups' \in [Schedulers -> Nat] /\ TimersMatchConfig'
      BY <2>4, <2>5, ScheduleType
    <2>7. QED
      BY <1>4, <2>3, <2>6 DEF ApplySaved, TypeOK
  <1>5. CASE SetUpSessions \/ SetUpSchema
    BY <1>5 DEF SetUpSessions, SetUpSchema, TypeOK, TimersMatchConfig
  <1>6. CASE LoadSettings \/ LoadFails
    <2>1. loaded' \in Settings
      BY <1>6, ParsedType, EnvType DEF LoadSettings, LoadFails, TypeOK
    <2>2. QED
      BY <1>6, <2>1 DEF LoadSettings, LoadFails, TypeOK, TimersMatchConfig
  <1>7. CASE StartSchedulers
    <2>1. ConfigOf(loaded) \in Configs
      BY ConfigType DEF TypeOK
    <2>2. Schedule(ConfigOf(loaded), TRUE)
      BY <1>7 DEF StartSchedulers
    <2>3. /\ runtime' \in Configs /\ armed' \in [Schedulers -> Seq(1..MaxInterval)]
          /\ startups' \in [Schedulers -> Nat] /\ TimersMatchConfig'
      BY <2>1, <2>2, ScheduleType
    <2>4. QED
      BY <1>7, <2>3 DEF StartSchedulers, TypeOK
  <1>8. CASE Provision
    BY <1>8 DEF Provision, process, TypeOK, TimersMatchConfig
  <1>9. CASE Restart
    <2>1. \A p \in Puts : put[p] \in PutRecord
      BY DEF TypeOK
    <2>2. \A p \in Puts : [put[p] EXCEPT !.stage = "lost"] \in PutRecord
      BY <2>1, StageType
    <2>3. put' \in [Puts -> PutRecord]
      BY <1>9, <2>1, <2>2 DEF Restart
    <2>4. NoConfig \in Configs
      BY WeekIsInt DEF NoConfig, Configs
    <2>5. restarts' \in 0..MaxRestarts
      BY <1>9, InputsOK DEF Restart, TypeOK
    <2>6. TypeOK'
      BY <1>9, <2>3, <2>4, <2>5, EnvType DEF Restart, TypeOK
    <2>7. TimersMatchConfig'
      BY <1>9 DEF Restart, TimersMatchConfig, NoConfig
    <2>8. QED
      BY <2>6, <2>7
  <1>10. CASE UNCHANGED vars
    BY <1>10 DEF vars, process, TypeOK, TimersMatchConfig
  <1>11. QED
    BY <1>1, <1>2, <1>3, <1>4, <1>5, <1>6, <1>7, <1>8, <1>9, <1>10
       DEF Next, PutStep, WarmupStep

\* Whatever requests ask for, and however they fail, every variable keeps its type:
\* intervals stay within a week.
THEOREM TypeCorrect == Spec => []TypeOK
  <1>1. Timers => TypeOK
    BY DEF Timers
  <1>2. QED
    BY InitTimers, NextTimers, <1>1, PTL DEF Spec

\* Each scheduler has exactly the timer of the configuration it reports, however
\* often the schedules are changed.
THEOREM OneTimerEach == Spec => []TimersMatchConfig
  <1>1. Timers => TimersMatchConfig
    BY DEF Timers
  <1>2. QED
    BY InitTimers, NextTimers, <1>1, PTL DEF Spec

(***************************************************************************)
(* Startup runs.                                                           *)
(***************************************************************************)

\* A process runs at startup what the loaded settings ask for, once, and nothing
\* because of a request.
THEOREM StartupOnce == Spec => []StartupRunsOnce
  <1>1. Init => StartupRunsOnce
    BY DEF Init, StartupRunsOnce
  <1>2. Timers /\ StartupRunsOnce /\ [Next]_vars => StartupRunsOnce'
    <2> SUFFICES ASSUME TypeOK, StartupRunsOnce, [Next]_vars
                 PROVE  StartupRunsOnce'
      BY DEF Timers
    <2>1. ASSUME NEW p \in Puts,
                 Begin(p) \/ Refuse(p) \/ StartSaving(p) \/ StoreKey(p) \/ PutFails(p)
          PROVE  StartupRunsOnce'
      BY <2>1 DEF Begin, Refuse, StartSaving, StoreKey, PutFails, StartupRunsOnce
    <2>2. ASSUME NEW p \in Puts, ApplySaved(p) PROVE StartupRunsOnce'
      BY <2>2 DEF ApplySaved, Schedule, StartupRunsOnce
    <2>3. CASE SetUpSessions \/ SetUpSchema \/ LoadSettings \/ LoadFails
      BY <2>3 DEF SetUpSessions, SetUpSchema, LoadSettings, LoadFails, StartupRunsOnce
    <2>4. CASE StartSchedulers
      BY <2>4 DEF StartSchedulers, Schedule, ConfigOf, StartupRunsOnce
    <2>5. CASE Provision \/ UNCHANGED vars
      BY <2>5 DEF Provision, vars, process, StartupRunsOnce
    <2>6. CASE Restart
      BY <2>6 DEF Restart, StartupRunsOnce
    <2>7. QED
      BY <2>1, <2>2, <2>3, <2>4, <2>5, <2>6 DEF Next, PutStep, WarmupStep
  <1>3. QED
    BY InitTimers, NextTimers, <1>1, <1>2, PTL DEF Spec

(***************************************************************************)
(* Whole schedules.                                                        *)
(***************************************************************************)

\* SchedulesAreWhole is not inductive: settings are loaded while a schedule that a
\* request has set is in force, so that only a started process has the loaded one.
Whole ==
    \/ runtime = NoConfig
    \/ boot = "started" /\ runtime = ConfigOf(loaded)
    \/ \E p \in Puts : put[p].stage = "completed" /\ runtime = ConfigOf(put[p].wants)

\* A schedule in force is the one loaded at startup or that of one request, never a
\* mixture, however the keys of several requests are stored.
THEOREM WholeSchedules == Spec => []SchedulesAreWhole
  <1>1. Init => Whole
    BY DEF Init, Whole
  <1>2. Timers /\ Whole /\ [Next]_vars => Whole'
    <2> SUFFICES ASSUME TypeOK, Whole, [Next]_vars
                 PROVE  Whole'
      BY DEF Timers
    <2>0. \A p \in Puts : put[p] \in PutRecord
      BY DEF TypeOK
    <2>1. ASSUME NEW p \in Puts, put[p].stage # "completed", NEW c,
                 put' = [put EXCEPT ![p] = c], UNCHANGED <<boot, loaded, runtime>>
          PROVE  Whole'
      BY <2>1 DEF Whole, TypeOK
    <2>2. ASSUME NEW p \in Puts, Begin(p) PROVE Whole'
      <3>1. PICK c : put' = [put EXCEPT ![p] = c]
        BY <2>2 DEF Begin
      <3>2. QED
        BY <2>1, <2>2, <3>1 DEF Begin
    <2>3. ASSUME NEW p \in Puts, Refuse(p) \/ StartSaving(p) \/ PutFails(p)
          PROVE  Whole'
      <3>1. PICK s : put' = [put EXCEPT ![p] = [put[p] EXCEPT !.stage = s]]
        BY <2>3 DEF Refuse, StartSaving, PutFails
      <3>2. QED
        BY <2>1, <2>3, <3>1 DEF Refuse, StartSaving, PutFails, Active
    <2>4. ASSUME NEW p \in Puts, StoreKey(p) PROVE Whole'
      <3>1. put' = [put EXCEPT ![p] = [put[p] EXCEPT !.next = @ + 1]]
        BY <2>4 DEF StoreKey
      <3>2. QED
        BY <2>1, <2>4, <3>1 DEF StoreKey
    <2>5. ASSUME NEW p \in Puts, ApplySaved(p) PROVE Whole'
      <3>1. put'[p].stage = "completed" /\ put'[p].wants = put[p].wants
        BY <2>0, <2>5 DEF ApplySaved, PutRecord, TypeOK
      <3>2. runtime' = ConfigOf(put'[p].wants)
        BY <2>5, <3>1 DEF ApplySaved, Schedule
      <3>3. QED
        BY <3>1, <3>2 DEF Whole
    <2>6. CASE SetUpSessions \/ SetUpSchema \/ LoadSettings \/ LoadFails
      BY <2>6 DEF SetUpSessions, SetUpSchema, LoadSettings, LoadFails, Whole
    <2>7. CASE StartSchedulers
      BY <2>7 DEF StartSchedulers, Schedule, Whole
    <2>8. CASE Provision \/ UNCHANGED vars
      BY <2>8 DEF Provision, vars, process, Whole
    <2>9. CASE Restart
      BY <2>9 DEF Restart, Whole
    <2>10. QED
      BY <2>2, <2>3, <2>4, <2>5, <2>6, <2>7, <2>8, <2>9 DEF Next, PutStep, WarmupStep
  <1>3. Whole => SchedulesAreWhole
    BY DEF Whole, SchedulesAreWhole
  <1>4. QED
    BY InitTimers, NextTimers, <1>1, <1>2, <1>3, PTL DEF Spec

(***************************************************************************)
(* Undisturbed requests.                                                   *)
(***************************************************************************)

\* The first n - 1 keys hold the values of the settings.
StoredUpTo(rows, settings, n) ==
    /\ n > 1 => rows.interval["ingest"] = settings.interval["ingest"]
    /\ n > 2 => rows.startup["ingest"] = settings.startup["ingest"]
    /\ n > 3 => rows.interval["livePlacement"] = settings.interval["livePlacement"]
    /\ n > 4 => rows.startup["livePlacement"] = settings.startup["livePlacement"]
    /\ n > 5 => rows.interval["aiModelCatalog"] = settings.interval["aiModelCatalog"]

\* Storing one more key of a request extends what is stored of it by that key.
LEMMA OneMore ==
    ASSUME NEW rows \in Rows, NEW settings \in Settings, NEW n \in 1..5,
           StoredUpTo(rows, settings, n)
    PROVE  StoredUpTo(Merged(rows, KeyOrder[n], settings), settings, n + 1)
  <1>1. CASE n = 1
    BY <1>1, Keys DEF Merged, StoredUpTo, Rows, Settings, Intervals, Schedulers
  <1>2. CASE n = 2
    BY <1>2, Keys DEF Merged, StoredUpTo, Rows, Settings, Intervals, Schedulers
  <1>3. CASE n = 3
    BY <1>3, Keys DEF Merged, StoredUpTo, Rows, Settings, Intervals, Schedulers
  <1>4. CASE n = 4
    BY <1>4, Keys DEF Merged, StoredUpTo, Rows, Settings, Intervals, Schedulers
  <1>5. CASE n = 5
    BY <1>5, Keys DEF Merged, StoredUpTo, Rows, Settings, Intervals, Schedulers
  <1>6. QED
    BY <1>1, <1>2, <1>3, <1>4, <1>5

\* Once all five keys of a request are stored, the table holds what it asked for.
LEMMA AllStored ==
    ASSUME NEW rows \in Rows, NEW settings \in Settings, StoredUpTo(rows, settings, 6)
    PROVE  rows = settings
  <1>1. \A i \in Intervals : rows.interval[i] = settings.interval[i]
    BY DEF StoredUpTo, Intervals
  <1>2. \A s \in Schedulers : rows.startup[s] = settings.startup[s]
    BY DEF StoredUpTo, Schedulers
  <1>3. /\ settings = [interval |-> settings.interval, startup |-> settings.startup]
        /\ settings.interval \in [Intervals -> 0..MaxInterval]
        /\ settings.startup \in [Schedulers -> BOOLEAN]
    BY DEF Settings
  <1>4. rows.interval = settings.interval /\ rows.startup = settings.startup
    BY <1>1, <1>2, <1>3, RowFields
  <1>5. QED
    BY <1>3, <1>4, RowFields

\* A request that is alone finds the table as it leaves it: nobody else is active,
\* the keys before its next one are its own, and the schedule it puts in force stays.
Undisturbed(p) ==
    /\ boot = "started"
    /\ \A q \in Puts : Active(q) => q = p
    /\ StoredUpTo(stored, put[p].wants, put[p].next)
    /\ put[p].stage = "completed" =>
          put[p].next = 6 /\ runtime = ConfigOf(put[p].wants)

LastUndisturbed == \A p \in Puts : p = last /\ alone => Undisturbed(p)

\* After a request with nothing beside it, the schedules in force and the table hold
\* all that it asked for.
THEOREM UndisturbedSaves == Spec => []UndisturbedSaveTakesEffect
  <1>1. Init => LastUndisturbed
    BY DEF Init, LastUndisturbed
  <1>2. Timers /\ LastUndisturbed /\ [Next]_vars => LastUndisturbed'
    <2> SUFFICES ASSUME TypeOK, LastUndisturbed, [Next]_vars,
                        NEW p \in Puts, p = last', alone'
                 PROVE  Undisturbed(p)'
      BY DEF Timers, LastUndisturbed
    <2>0. \A q \in Puts : put[q] \in PutRecord
      BY DEF TypeOK
    <2>1. ASSUME NEW q \in Puts, Begin(q) PROVE Undisturbed(p)'
      <3>1. q = p /\ boot' = "started" /\ \A r \in Puts : ~Active(r)
        BY <2>1 DEF Begin
      <3>2. put'[p].stage = "checking" /\ put'[p].next = 1
        BY <2>1, <3>1 DEF Begin, TypeOK
      <3>3. \A r \in Puts : Active(r)' => r = p
        BY <2>1, <3>1 DEF Begin, Active, TypeOK
      <3>4. QED
        BY <3>1, <3>2, <3>3 DEF Undisturbed, StoredUpTo
    <2>2. ASSUME NEW q \in Puts, NEW s \in {"refused", "saving", "failed"}, Active(q),
                 put' = [put EXCEPT ![q].stage = s],
                 UNCHANGED <<stored, boot, runtime, last, alone>>
          PROVE  Undisturbed(p)'
      <3>1. Undisturbed(p)
        BY <2>2 DEF LastUndisturbed
      <3>2. q = p
        BY <2>2, <3>1 DEF Undisturbed
      <3>3. /\ put'[p].stage = s /\ put'[p].wants = put[p].wants
            /\ put'[p].next = put[p].next
        BY <2>0, <2>2, <3>2 DEF TypeOK, PutRecord
      <3>4. \A r \in Puts : Active(r)' => r = p
        BY <2>2, <3>1, <3>2 DEF Active, Undisturbed, TypeOK
      <3>5. QED
        BY <2>2, <3>1, <3>3, <3>4 DEF Undisturbed
    <2>3. ASSUME NEW q \in Puts, Refuse(q) \/ StartSaving(q) \/ PutFails(q)
          PROVE  Undisturbed(p)'
      <3>1. Active(q)
        BY <2>3 DEF Refuse, StartSaving, PutFails, Active
      <3>2. QED
        BY <2>2, <2>3, <3>1 DEF Refuse, StartSaving, PutFails
    <2>4. ASSUME NEW q \in Puts, StoreKey(q) PROVE Undisturbed(p)'
      <3>1. Undisturbed(p) /\ q = p
        BY <2>4 DEF LastUndisturbed, Undisturbed, StoreKey, Active
      <3>2. /\ put[p].next \in 1..5 /\ put[p].wants \in Settings
            /\ put'[p].wants = put[p].wants /\ put'[p].next = put[p].next + 1
            /\ put'[p].stage = "saving"
        BY <2>0, <2>4, <3>1, Keys DEF TypeOK, PutRecord, StoreKey
      <3>3. stored' = Merged(stored, KeyOrder[put[p].next], put[p].wants)
        BY <2>4, <3>1 DEF StoreKey
      <3>4. StoredUpTo(stored', put'[p].wants, put'[p].next)
        <4>1. StoredUpTo(stored, put[p].wants, put[p].next) /\ stored \in Rows
          BY <3>1 DEF Undisturbed, TypeOK
        <4>2. StoredUpTo(stored', put[p].wants, put[p].next + 1)
          BY <3>2, <3>3, <4>1, OneMore
        <4>3. QED
          BY <3>2, <4>2
      <3>5. \A r \in Puts : Active(r)' => r = p
        BY <2>4, <3>1 DEF StoreKey, Active, Undisturbed, TypeOK
      <3>6. boot' = "started"
        BY <2>4, <3>1 DEF StoreKey, Undisturbed
      <3>7. QED
        BY <3>2, <3>4, <3>5, <3>6 DEF Undisturbed
    <2>5. ASSUME NEW q \in Puts, ApplySaved(q) PROVE Undisturbed(p)'
      <3>1. Undisturbed(p) /\ q = p
        BY <2>5 DEF LastUndisturbed, Undisturbed, ApplySaved, Active
      <3>2. /\ put[p].next = 6
            /\ put'[p].wants = put[p].wants /\ put'[p].next = put[p].next
        BY <2>0, <2>5, <3>1, Keys DEF TypeOK, PutRecord, ApplySaved
      <3>3. runtime' = ConfigOf(put'[p].wants)
        BY <2>5, <3>1, <3>2 DEF ApplySaved, Schedule
      <3>4. \A r \in Puts : Active(r)' => r = p
        BY <2>5, <3>1 DEF ApplySaved, Active, Undisturbed, TypeOK
      <3>5. stored' = stored /\ boot' = boot
        BY <2>5 DEF ApplySaved
      <3>6. QED
        BY <3>1, <3>2, <3>3, <3>4, <3>5 DEF Undisturbed
    <2>6. CASE WarmupStep
      <3>1. alone /\ p = last
        BY <2>6 DEF WarmupStep, SetUpSessions, SetUpSchema, LoadSettings, LoadFails,
                    StartSchedulers
      <3>2. boot = "started"
        BY <3>1 DEF LastUndisturbed, Undisturbed
      <3>3. QED
        BY <2>6, <3>2 DEF WarmupStep, SetUpSessions, SetUpSchema, LoadSettings,
                          LoadFails, StartSchedulers
    <2>7. CASE Provision \/ UNCHANGED vars
      BY <2>7 DEF Provision, vars, process, LastUndisturbed, Undisturbed, Active
    <2>8. CASE Restart
      BY <2>8 DEF Restart
    <2>9. QED
      BY <2>1, <2>3, <2>4, <2>5, <2>6, <2>7, <2>8 DEF Next, PutStep
  <1>3. Timers /\ LastUndisturbed => UndisturbedSaveTakesEffect
    <2> SUFFICES ASSUME TypeOK, LastUndisturbed,
                        NEW p \in Puts, p = last, alone, put[p].stage = "completed"
                 PROVE  runtime = ConfigOf(put[p].wants) /\ stored = put[p].wants
      BY DEF Timers, UndisturbedSaveTakesEffect
    <2>1. /\ runtime = ConfigOf(put[p].wants)
          /\ StoredUpTo(stored, put[p].wants, 6)
      BY DEF LastUndisturbed, Undisturbed
    <2>2. stored \in Rows /\ put[p].wants \in Settings
      BY DEF TypeOK, PutRecord
    <2>3. QED
      BY <2>1, <2>2, AllStored
  <1>4. QED
    BY InitTimers, NextTimers, <1>1, <1>2, <1>3, PTL DEF Spec

(***************************************************************************)
(* Restarts.                                                               *)
(***************************************************************************)

\* Until the first request of a process begins, nobody stores anything, and what
\* was loaded is what is stored.
Adopted ==
    last = Null =>
        /\ \A p \in Puts : ~Active(p)
        /\ boot \in {"loaded", "defaulted", "started"} =>
              \/ loaded = EnvSettings
              \/ \A s \in Schedulers :
                    stored.interval[s] # Null => loaded.interval[s] = stored.interval[s]
        /\ boot = "started" => runtime = ConfigOf(loaded)

\* A process that could load its settings keeps the intervals of the table.
THEOREM RestartsAdopt == Spec => []RestartAdoptsStored
  <1>1. Init => Adopted
    BY DEF Init, Adopted, Active, NoPut
  <1>2. Timers /\ Adopted /\ [Next]_vars => Adopted'
    <2> SUFFICES ASSUME TypeOK, Adopted, [Next]_vars, last' = Null
                 PROVE  Adopted'
      BY DEF Timers, Adopted
    <2>1. ASSUME NEW p \in Puts, Begin(p) PROVE FALSE
      BY <2>1, InputsOK DEF Begin
    <2>2. ASSUME NEW p \in Puts, PutStep(p) PROVE FALSE
      <3>1. Active(p) /\ last = Null
        BY <2>2 DEF PutStep, Refuse, StartSaving, StoreKey, PutFails, ApplySaved, Active
      <3>2. QED
        BY <3>1 DEF Adopted
    <2>3. CASE SetUpSessions \/ SetUpSchema
      BY <2>3 DEF SetUpSessions, SetUpSchema, Adopted, Active
    <2>4. CASE LoadSettings
      <3>1. \A s \in Schedulers :
              stored.interval[s] # Null => loaded'.interval[s] = stored.interval[s]
        BY <2>4, StoredIsParsed DEF LoadSettings, TypeOK, Schedulers, Intervals
      <3>2. QED
        BY <2>4, <3>1 DEF LoadSettings, Adopted, Active
    <2>5. CASE LoadFails
      BY <2>5 DEF LoadFails, Adopted, Active
    <2>6. CASE StartSchedulers
      BY <2>6 DEF StartSchedulers, Schedule, Adopted, Active
    <2>7. CASE Provision \/ UNCHANGED vars
      BY <2>7 DEF Provision, vars, process, Adopted, Active
    <2>8. CASE Restart
      <3>1. \A p \in Puts : ~Active(p)'
        <4> SUFFICES ASSUME NEW p \in Puts PROVE ~Active(p)'
          OBVIOUS
        <4>1. put[p] \in PutRecord
          BY DEF TypeOK
        <4>2. put'[p] = IF Active(p) THEN [put[p] EXCEPT !.stage = "lost"] ELSE put[p]
          BY <2>8 DEF Restart
        <4>3. QED
          BY <4>1, <4>2 DEF Active, PutRecord
      <3>2. boot' = "sessions"
        BY <2>8 DEF Restart
      <3>3. QED
        BY <3>1, <3>2 DEF Adopted
    <2>9. QED
      BY <2>1, <2>2, <2>3, <2>4, <2>5, <2>6, <2>7, <2>8 DEF Next, WarmupStep
  <1>3. Adopted => RestartAdoptsStored
    BY DEF Adopted, RestartAdoptsStored, ConfigOf
  <1>4. QED
    BY InitTimers, NextTimers, <1>1, <1>2, <1>3, PTL DEF Spec

=============================================================================
