---------------------------- MODULE ModelCatalog ----------------------------
(***************************************************************************)
(* The catalog of AI models.  An ingestion refreshes it at its end, when   *)
(* it is enabled and the newest row is older than the interval; an         *)
(* administrator refreshes it at once (refreshModelCatalog), unguarded.    *)
(* A refresh asks region by region, and a region that does not answer      *)
(* counts as one without models.  Rows are only added; what is shown is    *)
(* the newest row of each model of a region.                               *)
(*                                                                         *)
(* One ingestion runs at a time (see CapacityIngestion).                   *)
(***************************************************************************)
EXTENDS Naturals, FiniteSets

CONSTANTS
    Regions,
    Models,         \* <<provider, model name, version>>
    Interval,       \* modelCatalogIntervalMinutes
    MaxMinutes      \* bound on time

Workers == {"ingest", "admin"}

VARIABLES
    minute,         \* the time
    rows,           \* dbo.AIModelAvailability: [at, region, model]
    work            \* [Workers -> the state of its refresh]

modelVars == <<minute, rows, work>>

IdleWork == [at |-> "idle", since |-> 0, found |-> {}]

ModelInit ==
    /\ minute = 1
    /\ rows = {}
    /\ work = [w \in Workers |-> IdleWork]

(* The capture time is that of the beginning of the run.                   *)
BeginRefresh(w) ==
    /\ work[w].at = "idle"
    /\ work' = [work EXCEPT ![w] =
                  [at |-> IF w = "ingest" THEN "capturing" ELSE "fetching",
                   since |-> minute, found |-> {}]]
    /\ UNCHANGED <<minute, rows>>

LastRefresh == IF rows = {} THEN 0
               ELSE CHOOSE t \in {r.at : r \in rows} : \A r \in rows : r.at <= t

(* shouldRefreshModelCatalog, after the snapshots are stored; an interval  *)
(* of zero switches the scheduled refresh off.                             *)
IsDue == Interval > 0 /\ (rows = {} \/ minute - LastRefresh >= Interval)

Decide ==
    /\ work["ingest"].at = "capturing"
    /\ work' = [work EXCEPT !["ingest"] =
                  IF IsDue THEN [@ EXCEPT !.at = "fetching"]
                  ELSE IdleWork]
    /\ UNCHANGED <<minute, rows>>

(* getLastModelCatalogRefresh swallows its error: null, hence due.         *)
DecideBlindly ==
    /\ work["ingest"].at = "capturing"
    /\ Interval > 0
    /\ work' = [work EXCEPT !["ingest"].at = "fetching"]
    /\ UNCHANGED <<minute, rows>>

(* The models are switched off, or the ingestion fails before.             *)
NotEnabled ==
    /\ work["ingest"].at = "capturing"
    /\ work' = [work EXCEPT !["ingest"] = IdleWork]
    /\ UNCHANGED <<minute, rows>>

(* mapWithConcurrency over the regions: Azure answers with the models it   *)
(* offers then.  A region for which every API version fails is a warning   *)
(* in the log and an empty list, as if it offered none.                    *)
FetchModels(w) ==
    /\ work[w].at = "fetching"
    /\ \E answer \in SUBSET (Regions \X Models) :
          work' = [work EXCEPT ![w].at = "inserting",
                     ![w].found = {[at |-> work[w].since, region |-> x[1], model |-> x[2]]
                                     : x \in answer}]
    /\ UNCHANGED <<minute, rows>>

(* insertAIModelAvailability: one bulk insert, nothing for no rows.        *)
Insert(w) ==
    /\ work[w].at = "inserting"
    /\ rows' = rows \cup work[w].found
    /\ work' = [work EXCEPT ![w] = IdleWork]
    /\ UNCHANGED minute

(* The insert fails, which fails an ingestion whose rows are stored.       *)
InsertFails(w) ==
    /\ work[w].at = "inserting"
    /\ work' = [work EXCEPT ![w] = IdleWork]
    /\ UNCHANGED <<minute, rows>>

MinutePasses ==
    /\ minute < MaxMinutes
    /\ minute' = minute + 1
    /\ UNCHANGED <<rows, work>>

ModelNext ==
    \/ \E w \in Workers : BeginRefresh(w) \/ FetchModels(w) \/ Insert(w) \/ InsertFails(w)
    \/ Decide \/ DecideBlindly \/ NotEnabled
    \/ MinutePasses

ModelSpec == ModelInit /\ [][ModelNext]_modelVars

----------------------------------------------------------------------------
(* The rows of the newest capture, as /api/ai/quota reads its table.       *)
NewestCapture == {r \in rows : \A s \in rows : s.at <= r.at}

(* dbo.AIModelAvailabilityLatest, which the AI routes read.                *)
Latest == {r \in rows : \A s \in rows :
             s.region = r.region /\ s.model = r.model => s.at <= r.at}

(* No refresh takes away what is shown of a region, or puts an older row   *)
(* in its place: not one in which the region did not answer, nor one that  *)
(* began before another and ends after it.                                 *)
CatalogNeverGoesBack ==
    [][\A x \in Latest : \E y \in Latest' :
          y.region = x.region /\ y.model = x.model /\ y.at >= x.at]_modelVars
=============================================================================
