----------------------------- MODULE SkuCatalog -----------------------------
(***************************************************************************)
(* The catalog of SKU families: getSkuFamilyCatalog with its cache in the  *)
(* process, the seed of dbo.VmSkuCatalog in the background, and the rows   *)
(* that ingestions add.  Rows of both tables are never taken away.         *)
(*                                                                         *)
(* A read is several awaits: it starts (the time it stores in the cache),  *)
(* looks whether the catalog is empty, queries, and fills the cache.       *)
(***************************************************************************)
EXTENDS Naturals, FiniteSets

CONSTANTS
    SkuNames,       \* SKUs (with their family)
    SeedSkus,       \* what ARM lists for the region of the seed
    Readers,        \* requests for the catalog
    Ttl,            \* SKU_FAMILY_CATALOG_TTL_MS
    MaxTime         \* bound on time

ASSUME CatalogBounds ==
    /\ Ttl \in Nat \ {0} /\ MaxTime \in Nat /\ Ttl < MaxTime
    /\ SeedSkus \subseteq SkuNames

VARIABLES
    time,           \* Date.now()
    catalog,        \* the SKUs of dbo.VmSkuCatalog
    captured,       \* the SKUs of dbo.CapacitySnapshot
    stored,         \* history variable: when each SKU was stored first
    cache,          \* skuFamilyCatalogCache
    reader,         \* [Readers -> the state of the request]
    seed            \* the background seeds: "none", "asked" or "listed"

catalogVars == <<time, catalog, captured, stored, cache, reader, seed>>

NoPayload == [at |-> 0, full |-> FALSE, part |-> FALSE, skus |-> {}]
IdleReader == [at |-> "idle", from |-> 0, part |-> FALSE, skus |-> {}]
Never == MaxTime + 1

CatalogInit ==
    /\ time = Ttl + 1
    /\ catalog = {}
    /\ captured = {}
    /\ stored = [s \in SkuNames |-> Never]
    /\ cache = NoPayload
    /\ reader = [r \in Readers |-> IdleReader]
    /\ seed = "none"

FirstStored(new) ==
    [s \in SkuNames |-> IF s \in new /\ stored[s] = Never THEN time ELSE stored[s]]

(* An ingestion: upsertVmSkuCatalogRows for a region, its errors           *)
(* swallowed, and later the snapshot rows of the capture.                  *)
IngestRegion(new) ==
    /\ catalog' = catalog \cup new
    /\ stored' = FirstStored(new)
    /\ UNCHANGED <<time, captured, cache, reader, seed>>

IngestSnapshot(s) ==
    /\ captured' = captured \cup {s}
    /\ stored' = FirstStored({s})
    /\ UNCHANGED <<time, catalog, cache, reader, seed>>

Fresh == cache.full /\ time - cache.at < Ttl

(* The cached payload is served.                                           *)
Hit(r) ==
    /\ reader[r].at = "idle"
    /\ Fresh
    /\ reader' = [reader EXCEPT ![r] =
                    [at |-> "served", from |-> time, part |-> cache.part,
                     skus |-> cache.skus]]
    /\ UNCHANGED <<time, catalog, captured, stored, cache, seed>>

(* The cache is empty or too old, or the caller forces a refresh.          *)
Miss(r) ==
    /\ reader[r].at = "idle"
    /\ reader' = [reader EXCEPT ![r].at = "asking", ![r].from = time]
    /\ UNCHANGED <<time, catalog, captured, stored, cache, seed>>

(* No pool: the families of the mock rows.  The catalog cannot be looked   *)
(* up: the snapshots alone.  Both are cached like any other answer.        *)
Degraded(r) ==
    /\ reader[r].at = "asking"
    /\ \E skus \in {{}, captured} :
          reader' = [reader EXCEPT ![r].at = "filling", ![r].part = TRUE,
                                   ![r].skus = skus]
    /\ UNCHANGED <<time, catalog, captured, stored, cache, seed>>

(* An empty catalog starts a seed that nobody waits for.                   *)
LookForSeed(r) ==
    /\ reader[r].at = "asking"
    /\ reader' = [reader EXCEPT ![r].at = "querying"]
    /\ seed' = IF catalog = {} /\ seed = "none" THEN "asked" ELSE seed
    /\ UNCHANGED <<time, catalog, captured, stored, cache>>

(* The UNION of the two tables.                                            *)
Query(r) ==
    /\ reader[r].at = "querying"
    /\ reader' = [reader EXCEPT ![r].at = "filling", ![r].skus = captured \cup catalog]
    /\ UNCHANGED <<time, catalog, captured, stored, cache, seed>>

(* The payload cached under the time at which it is ready.                 *)
FilledAtTheEnd(r) == time

FilledFrom(r) == reader[r].from

(* The payload is cached under the time at which this request started.     *)
Fill(r) ==
    /\ reader[r].at = "filling"
    /\ cache' = [at |-> FilledFrom(r), full |-> TRUE, part |-> reader[r].part,
                 skus |-> reader[r].skus]
    /\ reader' = [reader EXCEPT ![r].at = "served"]
    /\ UNCHANGED <<time, catalog, captured, stored, seed>>

ReadFails(r) ==
    /\ reader[r].at \in {"asking", "querying"}
    /\ reader' = [reader EXCEPT ![r] = IdleReader]
    /\ UNCHANGED <<time, catalog, captured, stored, cache, seed>>

CatalogAnswered(r) ==
    /\ reader[r].at = "served"
    /\ reader' = [reader EXCEPT ![r] = IdleReader]
    /\ UNCHANGED <<time, catalog, captured, stored, cache, seed>>

(* seedVmSkuCatalogIfEmpty, also called by the startup warmup: it looks    *)
(* again whether the table is empty, asks ARM, and upserts.                *)
SeedLooks ==
    /\ seed \in {"none", "asked"}
    /\ seed' = IF catalog = {} THEN "listed" ELSE "none"
    /\ UNCHANGED <<time, catalog, captured, stored, cache, reader>>

SeedStores ==
    /\ seed = "listed"
    /\ seed' = "none"
    /\ catalog' = catalog \cup SeedSkus
    /\ stored' = FirstStored(SeedSkus)
    /\ UNCHANGED <<time, captured, cache, reader>>

SeedFails ==
    /\ seed = "listed"
    /\ seed' = "none"
    /\ UNCHANGED <<time, catalog, captured, stored, cache, reader>>

TimePasses ==
    /\ time < MaxTime
    /\ time' = time + 1
    /\ reader' = [r \in Readers |->
                    IF reader[r].at = "served" THEN IdleReader ELSE reader[r]]
    /\ UNCHANGED <<catalog, captured, stored, cache, seed>>

CatalogNext ==
    \/ \E new \in SUBSET SkuNames : IngestRegion(new)
    \/ \E s \in SkuNames : IngestSnapshot(s)
    \/ \E r \in Readers :
          \/ Hit(r) \/ Miss(r) \/ Degraded(r) \/ LookForSeed(r)
          \/ Query(r) \/ Fill(r) \/ ReadFails(r) \/ CatalogAnswered(r)
    \/ SeedLooks \/ SeedStores \/ SeedFails \/ TimePasses

CatalogSpec == CatalogInit /\ [][CatalogNext]_catalogVars

----------------------------------------------------------------------------
(* An answer holds every SKU that was stored more than the time to live    *)
(* before the request, however long the queries take and in whatever order *)
(* the requests fill the cache: a late one fills it with an older list,    *)
(* under an older time.  (A degraded answer holds less, and stays cached   *)
(* as long.)                                                               *)
AnswersMissOnlyTheNew ==
    \A r \in Readers : reader[r].at = "served" /\ ~reader[r].part =>
        \A s \in SkuNames : stored[s] + Ttl <= reader[r].from => s \in reader[r].skus
=============================================================================
