--------------------------- MODULE PlatformProofs ---------------------------
(***************************************************************************)
(* Proofs about the platform that the routes stand on, one component after *)
(* the other.                                                              *)
(***************************************************************************)
EXTENDS SqlPool, PowerShellRuntime, SkuCatalog, ModelCatalog, SignIn,
        CapacityPages, DataLemmas

(***************************************************************************)
(* SqlPool: any requests, retries, pools and outages.                      *)
(***************************************************************************)

(* Inductive: closing the cached pool leaves none open because what is     *)
(* cached is the driver's pool, the only one that is open.                 *)
PoolInv ==
    /\ created \in Nat
    /\ None \notin open
    /\ CachedIsGlobal
    /\ OnlyTheGlobalPoolIsOpen

\* A connection that is asked for gives the driver's pool, and caches it.
LEMMA ConnectsKeeps ==
    ASSUME PoolInv, NEW r \in Requests, Connects(r)
    PROVE  PoolInv'
  <1>1. CASE global # None
    BY <1>1 DEF PoolInv, Connects, CachedIsGlobal, OnlyTheGlobalPoolIsOpen
  <1>2. CASE global = None
    <2>1. open = {}
      BY <1>2 DEF PoolInv, OnlyTheGlobalPoolIsOpen
    <2>2. /\ created' = created + 1 /\ global' = created'
          /\ cachedPool' = created' /\ open' = open \cup {created'}
      BY <1>2 DEF Connects
    <2>3. created' \in Nat /\ created' # None
      BY <2>2 DEF PoolInv, None
    <2>4. QED
      BY <2>1, <2>2, <2>3 DEF PoolInv, CachedIsGlobal, OnlyTheGlobalPoolIsOpen
  <1>3. QED
    BY <1>1, <1>2

\* A failed check closes what is cached by now, whichever pool was checked.
LEMMA CheckFailsKeeps ==
    ASSUME PoolInv, NEW r \in Requests, CheckFails(r)
    PROVE  PoolInv'
  <1>1. CASE cachedPool = None
    BY <1>1 DEF PoolInv, CheckFails, CachedIsGlobal, OnlyTheGlobalPoolIsOpen
  <1>2. CASE cachedPool # None
    <2>1. cachedPool = global
      BY <1>2 DEF PoolInv, CachedIsGlobal
    <2>2. open' = {}
      BY <2>1 DEF PoolInv, CheckFails, OnlyTheGlobalPoolIsOpen
    <2>3. QED
      BY <2>2 DEF PoolInv, CheckFails, CachedIsGlobal, OnlyTheGlobalPoolIsOpen
  <1>3. QED
    BY <1>1, <1>2

\* Every step preserves the invariant.
LEMMA PoolStep ==
    ASSUME PoolInv, [PoolNext]_poolVars
    PROVE  PoolInv'
  <1> USE DEF PoolInv, CachedIsGlobal, OnlyTheGlobalPoolIsOpen
  <1>1. ASSUME NEW r \in Requests, GetSqlPool(r) \/ Done(r)
        PROVE  PoolInv'
    BY <1>1 DEF GetSqlPool, Done
  <1>2. ASSUME NEW r \in Requests, CheckWorks(r) \/ Closed(r) \/ ProbeWorks(r)
        PROVE  PoolInv'
    BY <1>2 DEF CheckWorks, Closed, ProbeWorks
  <1>3. ASSUME NEW r \in Requests, ConnectFails(r)
        PROVE  PoolInv'
    BY <1>3 DEF ConnectFails
  <1>4. ASSUME NEW r \in Requests, CheckFails(r)
        PROVE  PoolInv'
    BY <1>4, CheckFailsKeeps
  <1>5. ASSUME NEW r \in Requests, Connects(r)
        PROVE  PoolInv'
    BY <1>5, ConnectsKeeps
  <1>6. CASE Outage \/ Recovery
    BY <1>6 DEF Outage, Recovery
  <1>7. CASE UNCHANGED poolVars
    BY <1>7 DEF poolVars
  <1>8. QED
    BY <1>1, <1>2, <1>3, <1>4, <1>5, <1>6, <1>7 DEF PoolNext, Await

\* However many requests find the pool broken at once, no pool stays open that the next
\* one would not be given (getSqlPool, resetSqlPool).
THEOREM PoolsAreNotLeaked == PoolSpec => []OnlyTheGlobalPoolIsOpen
  <1>1. PoolInit => PoolInv
    BY DEF PoolInit, PoolInv, CachedIsGlobal, OnlyTheGlobalPoolIsOpen, None
  <1>2. PoolInv => OnlyTheGlobalPoolIsOpen
    BY DEF PoolInv
  <1>3. QED
    BY <1>1, <1>2, PoolStep, PTL DEF PoolSpec

(***************************************************************************)
(* PowerShellRuntime: any lookups and restarts.                            *)
(***************************************************************************)

Stages == {"clearing", "downloading", "extracting"}

UserStates == [at : {"idle", "waiting", "modules", "saving", "run"},
               waited : BOOLEAN, commands : Seq({"portable", "pwsh", "powershell.exe"})]

ShellTypeOK ==
    /\ disk \in {"none", "partial", "whole"}
    /\ provision \in {"none", "kept"} \cup Stages
    /\ saving \in {"none", "saving", "kept"}
    /\ user \in [Users -> UserStates]
    /\ \A u \in Users : user[u].at \in {"saving", "run"} => user[u].commands # <<>>

(* The provisioning touches the directory only while it is not whole, so   *)
(* that what a waiter was given stays.                                     *)
ProvisionMatchesDisk ==
    /\ provision \in {"clearing", "downloading"} => disk = "none"
    /\ provision = "extracting" => disk # "whole"
    /\ provision = "kept" => disk = "whole"

ShellInv == ShellTypeOK /\ ProvisionMatchesDisk /\ WaitersGetAWholeRuntime

\* The commands of a lookup.
LEMMA CommandsType ==
    /\ <<>> \in Seq({"portable", "pwsh", "powershell.exe"})
    /\ Others \in Seq({"portable", "pwsh", "powershell.exe"})
    /\ <<"portable">> \o Others \in Seq({"portable", "pwsh", "powershell.exe"})
  BY DEF Others

\* Those who wait are the ones that are released, with what they are given.
LEMMA ReleasedStates ==
    ASSUME user \in [Users -> UserStates], NEW waited \in BOOLEAN,
           NEW commands \in Seq({"portable", "pwsh", "powershell.exe"}),
           Released(waited, commands)
    PROVE  /\ user' \in [Users -> UserStates]
           /\ \A u \in Users :
                 \/ user[u].at = "waiting" /\ user'[u].at = "modules" /\ user'[u].waited = waited
                 \/ user[u].at # "waiting" /\ user'[u] = user[u]
  BY DEF Released, With, UserStates

\* The start: nothing is provisioned, and nobody asks.
LEMMA ShellInitInv == ShellInit => ShellInv
  BY CommandsType DEF ShellInit, ShellInv, ShellTypeOK, ProvisionMatchesDisk,
     WaitersGetAWholeRuntime, IdleUser, UserStates

\* The steps of one lookup.
LEMMA UserKeeps ==
    ASSUME ShellInv, NEW u \in Users,
           \/ Finds(u) \/ Misses(u) \/ CanResolve(u) \/ CannotResolve(u)
           \/ NotThere(u) \/ Runs(u) \/ NoneLeft(u)
    PROVE  ShellInv'
  <1> USE DEF ShellInv, ShellTypeOK, ProvisionMatchesDisk, WaitersGetAWholeRuntime, UserStates
  <1>1. CASE Finds(u)
    BY <1>1, CommandsType DEF Finds, With
  <1>2. CASE Misses(u)
    <2>1. provision # "kept" /\ provision' \in Stages
      BY <1>2 DEF Misses, Stages
    <2>2. ShellTypeOK' /\ ProvisionMatchesDisk'
      BY <1>2, <2>1 DEF Misses, Stages
    <2>3. WaitersGetAWholeRuntime'
      BY <1>2, <2>1 DEF Misses, Stages
    <2>4. QED
      BY <2>2, <2>3
  <1>3. CASE CanResolve(u)
    BY <1>3 DEF CanResolve, HasCommand
  <1>4. CASE CannotResolve(u)
    BY <1>4 DEF CannotResolve, HasCommand
  <1>5. CASE NotThere(u)
    <2>1. /\ user' = [user EXCEPT ![u].at = "modules", ![u].commands = Tail(@)]
          /\ user[u].at = "run"
          /\ UNCHANGED <<disk, provision, saving>>
      BY <1>5 DEF NotThere
    <2>2. Tail(user[u].commands) \in Seq({"portable", "pwsh", "powershell.exe"})
      BY <2>1
    <2>3. /\ user' \in [Users -> UserStates]
          /\ user'[u].waited = user[u].waited /\ user'[u].at = "modules"
          /\ \A v \in Users \ {u} : user'[v] = user[v]
      BY <2>1, <2>2
    <2>4. ShellTypeOK' /\ ProvisionMatchesDisk'
      BY <2>1, <2>3
    <2>5. WaitersGetAWholeRuntime'
      BY <2>1, <2>3
    <2>6. QED
      BY <2>4, <2>5
  <1>6. CASE Runs(u) \/ NoneLeft(u)
    <2>1. user' = [user EXCEPT ![u] = IdleUser] /\ UNCHANGED <<disk, provision, saving>>
      BY <1>6 DEF Runs, NoneLeft
    <2>2. IdleUser \in UserStates /\ IdleUser.at = "idle"
      BY CommandsType DEF IdleUser
    <2>3. /\ user' \in [Users -> UserStates]
          /\ \A v \in Users : user'[v] = user[v] \/ user'[v].at = "idle"
      BY <2>1, <2>2
    <2>4. ShellTypeOK' /\ ProvisionMatchesDisk'
      BY <2>1, <2>3
    <2>5. WaitersGetAWholeRuntime'
      BY <2>1, <2>3
    <2>6. QED
      BY <2>4, <2>5
  <1>7. QED
    BY <1>1, <1>2, <1>3, <1>4, <1>5, <1>6

\* The steps of the provisioning.
LEMMA ProvisionKeeps ==
    ASSUME ShellInv, Clear \/ Download \/ PwshAppears \/ Extracted \/ ProvisionFails
    PROVE  ShellInv'
  <1> USE DEF ShellInv, ShellTypeOK, ProvisionMatchesDisk, WaitersGetAWholeRuntime, Stages
  <1>1. CASE Clear
    BY <1>1 DEF Clear
  <1>2. CASE Download
    BY <1>2 DEF Download
  <1>3. CASE PwshAppears
    BY <1>3 DEF PwshAppears
  <1>4. CASE Extracted
    <2>1. disk' = "whole" /\ provision' = "kept" /\ saving' = saving
      BY <1>4 DEF Extracted
    <2>2. /\ user' \in [Users -> UserStates]
          /\ \A u \in Users :
                \/ user'[u].at = "modules"
                \/ user[u].at # "waiting" /\ user'[u] = user[u]
      BY <1>4, CommandsType, ReleasedStates DEF Extracted
    <2>3. QED
      BY <2>1, <2>2
  <1>5. CASE ProvisionFails
    <2>1. disk' = disk /\ provision' = "none" /\ saving' = saving
      BY <1>5 DEF ProvisionFails
    <2>2. /\ user' \in [Users -> UserStates]
          /\ \A u \in Users :
                \/ user'[u].at = "modules" /\ user'[u].waited = FALSE
                \/ user[u].at # "waiting" /\ user'[u] = user[u]
      BY <1>5, CommandsType, ReleasedStates DEF ProvisionFails
    <2>3. QED
      BY <2>1, <2>2
  <1>6. QED
    BY <1>1, <1>2, <1>3, <1>4, <1>5

\* The end of a download of the modules, and a restart.
LEMMA OthersKeep ==
    ASSUME ShellInv, (\E ok \in BOOLEAN : SaveEnds(ok)) \/ RestartProcess
    PROVE  ShellInv'
  <1> USE DEF ShellInv, ShellTypeOK, ProvisionMatchesDisk, WaitersGetAWholeRuntime, UserStates
  <1>1. ASSUME NEW ok \in BOOLEAN, SaveEnds(ok)
        PROVE  ShellInv'
    <2>1. disk' = disk /\ provision' = provision /\ saving' \in {"none", "kept"}
      BY <1>1 DEF SaveEnds
    <2>2. /\ user' \in [Users -> UserStates]
          /\ \A u \in Users :
                \/ /\ user[u].at = "saving" /\ user'[u].at = "run"
                   /\ user'[u].waited = user[u].waited
                   /\ user'[u].commands = user[u].commands
                \/ user[u].at # "saving" /\ user'[u] = user[u]
      BY <1>1 DEF SaveEnds
    <2>3. QED
      BY <2>1, <2>2
  <1>2. CASE RestartProcess
    BY <1>2, CommandsType DEF RestartProcess, IdleUser
  <1>3. QED
    BY <1>1, <1>2

\* A lookup that waited for the portable PowerShell runs a whole one that stays, and
\* nobody waits for what no one is doing (getPowerShellCommands, ensurePortablePowerShell,
\* ensureAzPlacementModules).
THEOREM WaitersAreServed == ShellSpec => []WaitersGetAWholeRuntime
  <1>1. ShellInv /\ [ShellNext]_shellVars => ShellInv'
    <2> SUFFICES ASSUME ShellInv, [ShellNext]_shellVars
                 PROVE  ShellInv'
      OBVIOUS
    <2>1. CASE UNCHANGED shellVars
      BY <2>1 DEF shellVars, ShellInv, ShellTypeOK, ProvisionMatchesDisk,
         WaitersGetAWholeRuntime
    <2>2. QED
      BY <2>1, UserKeeps, ProvisionKeeps, OthersKeep DEF ShellNext
  <1>2. ShellInv => WaitersGetAWholeRuntime
    BY DEF ShellInv
  <1>3. QED
    BY <1>1, <1>2, ShellInitInv, PTL DEF ShellSpec

(***************************************************************************)
(* SkuCatalog: any SKUs, readers, time to live and bound on time.          *)
(***************************************************************************)

CatalogReaders == [at : {"idle", "asking", "querying", "filling", "served"},
                   from : Nat, part : BOOLEAN, skus : SUBSET SkuNames]

CatalogTypeOK ==
    /\ time \in Nat /\ time <= MaxTime
    /\ catalog \subseteq SkuNames /\ captured \subseteq SkuNames
    /\ stored \in [SkuNames -> Nat]
    /\ cache \in [at : Nat, full : BOOLEAN, part : BOOLEAN, skus : SUBSET SkuNames]
    /\ reader \in [Readers -> CatalogReaders]

\* A list has every SKU that was stored before a time.
HasAllBefore(skus, t) == \A s \in SkuNames : stored[s] < t => s \in skus

\* What an answer promises of a time: with the time to live.
HasAllExpired(skus, t) == \A s \in SkuNames : stored[s] + Ttl <= t => s \in skus

CacheKnows == cache.full /\ ~cache.part =>
                 cache.at <= time /\ HasAllBefore(cache.skus, cache.at)

ReaderKnows(r) ==
    /\ reader[r].at # "idle" => reader[r].from <= time
    /\ reader[r].at = "filling" /\ ~reader[r].part
         => HasAllBefore(reader[r].skus, reader[r].from)
    /\ reader[r].at = "served" /\ ~reader[r].part
         => HasAllExpired(reader[r].skus, reader[r].from)

(* Inductive: what is stored from now on has the time of now, and the      *)
(* times of requests, answers and the cache are not later.                 *)
CatalogInv ==
    /\ CatalogTypeOK
    /\ \A s \in SkuNames : stored[s] # Never => s \in catalog \cup captured
    /\ CacheKnows
    /\ \A r \in Readers : ReaderKnows(r)

\* A SKU that is stored for the first time gets the time of now.
LEMMA StoresNow ==
    ASSUME CatalogInv, NEW new \in SUBSET SkuNames, stored' = FirstStored(new)
    PROVE  /\ stored' \in [SkuNames -> Nat]
           /\ \A s \in SkuNames : stored'[s] = stored[s] \/ (s \in new /\ stored'[s] = time)
  BY DEF CatalogInv, CatalogTypeOK, FirstStored

\* Storing leaves what the cache and the readers know.
LEMMA StoringKeeps ==
    ASSUME CatalogInv, NEW new \in SUBSET SkuNames, stored' = FirstStored(new),
           catalog' \subseteq SkuNames, captured' \subseteq SkuNames,
           catalog \cup captured \cup new \subseteq catalog' \cup captured',
           UNCHANGED <<time, cache, reader>>
    PROVE  CatalogInv'
  <1>1. /\ stored' \in [SkuNames -> Nat] /\ time \in Nat /\ Ttl \in Nat
        /\ \A s \in SkuNames : stored'[s] = stored[s] \/ (s \in new /\ stored'[s] = time)
    BY StoresNow, CatalogBounds DEF CatalogInv, CatalogTypeOK
  <1>2. CatalogTypeOK'
    BY <1>1 DEF CatalogInv, CatalogTypeOK, CatalogReaders
  <1>3. \A s \in SkuNames : stored'[s] # Never => s \in catalog' \cup captured'
    BY <1>1 DEF CatalogInv
  <1>4. ASSUME NEW skus, NEW t \in Nat, t <= time
        PROVE  /\ HasAllBefore(skus, t) => HasAllBefore(skus, t)'
               /\ HasAllExpired(skus, t) => HasAllExpired(skus, t)'
    BY <1>1, <1>4, CatalogBounds DEF HasAllBefore, HasAllExpired
  <1>5. CacheKnows'
    <2>1. cache.at \in Nat /\ cache' = cache /\ time' = time
      BY DEF CatalogInv, CatalogTypeOK
    <2>2. QED
      BY <1>4, <2>1 DEF CatalogInv, CacheKnows
  <1>6. ASSUME NEW r \in Readers PROVE ReaderKnows(r)'
    <2>1. reader[r].from \in Nat /\ reader' = reader /\ time' = time /\ ReaderKnows(r)
      BY DEF CatalogInv, CatalogTypeOK, CatalogReaders
    <2>2. QED
      BY <1>4, <2>1 DEF ReaderKnows
  <1>7. QED
    BY <1>2, <1>3, <1>5, <1>6 DEF CatalogInv, Never

\* A step of one reader that leaves the tables and the times.
LEMMA ReaderMoves ==
    ASSUME CatalogInv, NEW r \in Readers, NEW new \in CatalogReaders,
           reader' = [reader EXCEPT ![r] = new],
           new.at # "idle" => new.from <= time,
           new.at = "filling" /\ ~new.part => HasAllBefore(new.skus, new.from),
           new.at = "served" /\ ~new.part => HasAllExpired(new.skus, new.from),
           UNCHANGED <<time, catalog, captured, stored>>,
           cache' = cache \/ (/\ cache'.at \in Nat /\ cache'.at <= time
                              /\ cache' \in [at : Nat, full : BOOLEAN, part : BOOLEAN,
                                             skus : SUBSET SkuNames]
                              /\ (~cache'.part => HasAllBefore(cache'.skus, cache'.at)))
    PROVE  CatalogInv'
  <1>1. CatalogTypeOK'
    BY DEF CatalogInv, CatalogTypeOK
  <1>2. CacheKnows'
    BY DEF CatalogInv, CacheKnows, HasAllBefore
  <1>3. ASSUME NEW q \in Readers PROVE ReaderKnows(q)'
    <2>1. CASE q = r
      <3>1. reader'[q] = new
        BY <2>1 DEF CatalogInv, CatalogTypeOK
      <3>2. QED
        BY <3>1 DEF ReaderKnows, HasAllBefore, HasAllExpired
    <2>2. CASE q # r
      <3>1. reader'[q] = reader[q] /\ ReaderKnows(q)
        BY <2>2 DEF CatalogInv, CatalogTypeOK
      <3>2. QED
        BY <3>1 DEF ReaderKnows, HasAllBefore, HasAllExpired
    <2>3. QED
      BY <2>1, <2>2
  <1>4. QED
    BY <1>1, <1>2, <1>3 DEF CatalogInv, Never

LEMMA ReaderStepKeeps ==
    ASSUME CatalogInv, NEW r \in Readers,
           \/ Hit(r) \/ Miss(r) \/ Degraded(r) \/ LookForSeed(r)
           \/ Query(r) \/ Fill(r) \/ ReadFails(r) \/ CatalogAnswered(r)
    PROVE  CatalogInv'
  <1>1. /\ reader \in [Readers -> CatalogReaders] /\ reader[r] \in CatalogReaders
        /\ time \in Nat /\ Ttl \in Nat \ {0} /\ stored \in [SkuNames -> Nat]
        /\ captured \subseteq SkuNames /\ catalog \subseteq SkuNames
        /\ cache \in [at : Nat, full : BOOLEAN, part : BOOLEAN, skus : SUBSET SkuNames]
        /\ ReaderKnows(r) /\ CacheKnows
    BY CatalogBounds DEF CatalogInv, CatalogTypeOK
  <1>2. IdleReader \in CatalogReaders /\ IdleReader.at = "idle"
    BY DEF IdleReader, CatalogReaders
  <1>3. CASE Hit(r)
    <2> DEFINE new == [at |-> "served", from |-> time, part |-> cache.part,
                       skus |-> cache.skus]
    <2>1. new \in CatalogReaders
      BY <1>1 DEF CatalogReaders
    <2>2. ~cache.part => HasAllExpired(cache.skus, time)
      BY <1>1, <1>3 DEF Hit, Fresh, CacheKnows, HasAllBefore, HasAllExpired
    <2>3. /\ new.at = "served" /\ new.from = time /\ new.part = cache.part
          /\ new.skus = cache.skus /\ new.from <= time
      BY <1>1
    <2>4. /\ reader' = [reader EXCEPT ![r] = new]
          /\ UNCHANGED <<time, catalog, captured, stored, cache>>
      BY <1>3 DEF Hit
    <2> HIDE DEF new
    <2>5. QED
      BY <2>1, <2>2, <2>3, <2>4, ReaderMoves
  <1>4. CASE Miss(r)
    <2> DEFINE new == [reader[r] EXCEPT !.at = "asking", !.from = time]
    <2>1. new \in CatalogReaders /\ new.at = "asking" /\ new.from <= time
      <3>1. new \in CatalogReaders /\ new.at = "asking" /\ new.from = time
        BY <1>1 DEF CatalogReaders
      <3>2. QED
        BY <1>1, <3>1
    <2>2. reader' = [reader EXCEPT ![r] = new]
      BY <1>1, <1>4 DEF Miss, CatalogReaders
    <2>3. UNCHANGED <<time, catalog, captured, stored, cache>>
      BY <1>4 DEF Miss
    <2> HIDE DEF new
    <2>4. QED
      BY <2>1, <2>2, <2>3, ReaderMoves
  <1>5. CASE Degraded(r)
    <2>1. PICK skus \in {{}, captured} :
            reader' = [reader EXCEPT ![r].at = "filling", ![r].part = TRUE,
                                     ![r].skus = skus]
      BY <1>5 DEF Degraded
    <2> DEFINE new == [reader[r] EXCEPT !.at = "filling", !.part = TRUE, !.skus = skus]
    <2>2. /\ new \in CatalogReaders /\ new.at = "filling" /\ new.part
          /\ new.from = reader[r].from
      BY <1>1 DEF CatalogReaders
    <2>3. reader' = [reader EXCEPT ![r] = new]
      BY <1>1, <2>1 DEF CatalogReaders
    <2>4. reader[r].from <= time
      BY <1>1, <1>5 DEF Degraded, ReaderKnows
    <2> HIDE DEF new
    <2>5. QED
      BY <1>5, <2>2, <2>3, <2>4, <1>1, ReaderMoves DEF Degraded
  <1>6. CASE LookForSeed(r)
    <2> DEFINE new == [reader[r] EXCEPT !.at = "querying"]
    <2>1. new \in CatalogReaders /\ new.at = "querying" /\ new.from = reader[r].from
      BY <1>1 DEF CatalogReaders
    <2>2. reader' = [reader EXCEPT ![r] = new]
      BY <1>1, <1>6 DEF LookForSeed, CatalogReaders
    <2>3. reader[r].from <= time
      BY <1>1, <1>6 DEF LookForSeed, ReaderKnows
    <2> HIDE DEF new
    <2>4. QED
      BY <1>6, <2>1, <2>2, <2>3, <1>1, ReaderMoves DEF LookForSeed
  <1>7. CASE Query(r)
    <2> DEFINE new == [reader[r] EXCEPT !.at = "filling", !.skus = captured \cup catalog]
    <2>1. /\ new \in CatalogReaders /\ new.at = "filling" /\ new.from = reader[r].from
          /\ new.skus = captured \cup catalog
      BY <1>1 DEF CatalogReaders
    <2>2. reader' = [reader EXCEPT ![r] = new]
      BY <1>1, <1>7 DEF Query, CatalogReaders
    <2>3. reader[r].from <= time /\ reader[r].from \in Nat
      BY <1>1, <1>7 DEF Query, ReaderKnows, CatalogReaders
    <2>4. HasAllBefore(captured \cup catalog, reader[r].from)
      BY <1>1, <2>3, CatalogBounds DEF HasAllBefore, CatalogInv, CatalogTypeOK, Never
    <2>5. UNCHANGED <<time, catalog, captured, stored, cache>>
      BY <1>7 DEF Query
    <2> HIDE DEF new
    <2>6. QED
      BY <2>1, <2>2, <2>3, <2>4, <2>5, ReaderMoves
  <1>8. CASE Fill(r)
    <2> DEFINE new == [reader[r] EXCEPT !.at = "served"]
    <2>1. /\ new \in CatalogReaders /\ new.at = "served" /\ new.from = reader[r].from
          /\ new.skus = reader[r].skus /\ new.part = reader[r].part
      BY <1>1 DEF CatalogReaders
    <2>2. reader' = [reader EXCEPT ![r] = new]
      BY <1>1, <1>8 DEF Fill, CatalogReaders
    <2>3. /\ reader[r].from <= time /\ reader[r].from \in Nat
          /\ ~reader[r].part => HasAllBefore(reader[r].skus, reader[r].from)
      BY <1>1, <1>8 DEF Fill, ReaderKnows, CatalogReaders
    <2>4. ~reader[r].part => HasAllExpired(reader[r].skus, reader[r].from)
      BY <1>1, <2>3 DEF HasAllBefore, HasAllExpired
    <2>5. /\ cache'.at = reader[r].from /\ cache'.part = reader[r].part
          /\ cache'.skus = reader[r].skus
          /\ cache' \in [at : Nat, full : BOOLEAN, part : BOOLEAN, skus : SUBSET SkuNames]
      BY <1>1, <1>8 DEF Fill, FilledFrom, CatalogReaders
    <2> HIDE DEF new
    <2>6. QED
      BY <1>8, <2>1, <2>2, <2>3, <2>4, <2>5, <1>1, ReaderMoves DEF Fill
  <1>9. CASE ReadFails(r)
    BY <1>2, <1>9, ReaderMoves DEF ReadFails
  <1>10. CASE CatalogAnswered(r)
    BY <1>2, <1>10, ReaderMoves DEF CatalogAnswered
  <1>11. QED
    BY <1>3, <1>4, <1>5, <1>6, <1>7, <1>8, <1>9, <1>10

\* Time goes on: the answers given are gone.
LEMMA TimePassesKeeps ==
    ASSUME CatalogInv, TimePasses
    PROVE  CatalogInv'
  <1>1. /\ time \in Nat /\ MaxTime \in Nat /\ time < MaxTime /\ time' = time + 1
        /\ reader' = [r \in Readers |->
                        IF reader[r].at = "served" THEN IdleReader ELSE reader[r]]
        /\ UNCHANGED <<catalog, captured, stored, cache, seed>>
    BY CatalogBounds DEF CatalogInv, CatalogTypeOK, TimePasses
  <1>2. CatalogTypeOK'
    BY <1>1 DEF CatalogInv, CatalogTypeOK, CatalogReaders, IdleReader
  <1>3. CacheKnows'
    <2>1. cache.at \in Nat
      BY DEF CatalogInv, CatalogTypeOK
    <2>2. QED
      BY <1>1, <2>1 DEF CatalogInv, CacheKnows, HasAllBefore
  <1>4. ASSUME NEW r \in Readers PROVE ReaderKnows(r)'
    <2>1. reader[r].from \in Nat /\ ReaderKnows(r)
      BY DEF CatalogInv, CatalogTypeOK, CatalogReaders
    <2>2. reader'[r] = IF reader[r].at = "served" THEN IdleReader ELSE reader[r]
      BY <1>1
    <2>3. QED
      BY <1>1, <2>1, <2>2 DEF ReaderKnows, HasAllBefore, HasAllExpired, IdleReader
  <1>5. QED
    BY <1>1, <1>2, <1>3, <1>4 DEF CatalogInv, Never

\* However long the queries take, and in whatever order requests fill the cache, an
\* answer of the SKU catalog holds every SKU that is older than the time to live.
THEOREM AnswersAreCurrent == CatalogSpec => []AnswersMissOnlyTheNew
  <1>1. CatalogInit => CatalogInv
    <2> SUFFICES ASSUME CatalogInit PROVE CatalogInv
      OBVIOUS
    <2>1. CatalogTypeOK
      BY CatalogBounds DEF CatalogInit, CatalogTypeOK, Never, NoPayload, IdleReader,
                           CatalogReaders
    <2>2. QED
      BY <2>1 DEF CatalogInit, CatalogInv, Never, NoPayload, IdleReader, CacheKnows,
                  ReaderKnows
  <1>2. CatalogInv /\ [CatalogNext]_catalogVars => CatalogInv'
    <2> SUFFICES ASSUME CatalogInv, [CatalogNext]_catalogVars
                 PROVE  CatalogInv'
      OBVIOUS
    <2>0. catalog \subseteq SkuNames /\ captured \subseteq SkuNames
      BY DEF CatalogInv, CatalogTypeOK
    <2>1. ASSUME NEW new \in SUBSET SkuNames, IngestRegion(new) PROVE CatalogInv'
      BY <2>0, <2>1, StoringKeeps DEF IngestRegion
    <2>2. ASSUME NEW s \in SkuNames, IngestSnapshot(s) PROVE CatalogInv'
      BY <2>0, <2>2, StoringKeeps DEF IngestSnapshot
    <2>3. CASE SeedStores
      BY <2>0, <2>3, StoringKeeps, CatalogBounds DEF SeedStores
    <2>4. CASE SeedLooks \/ SeedFails \/ UNCHANGED catalogVars
      <3>1. UNCHANGED <<time, catalog, captured, stored, cache, reader>>
        BY <2>4 DEF SeedLooks, SeedFails, catalogVars
      <3>2. QED
        BY <3>1 DEF CatalogInv, CatalogTypeOK, CacheKnows, ReaderKnows, HasAllBefore,
                    HasAllExpired, Never
    <2>5. CASE TimePasses
      BY <2>5, TimePassesKeeps
    <2>6. QED
      BY <2>1, <2>2, <2>3, <2>4, <2>5, ReaderStepKeeps DEF CatalogNext
  <1>3. CatalogInv => AnswersMissOnlyTheNew
    BY DEF CatalogInv, ReaderKnows, HasAllExpired, AnswersMissOnlyTheNew
  <1>4. QED
    BY <1>1, <1>2, <1>3, PTL DEF CatalogSpec

(***************************************************************************)
(* ModelCatalog: any regions, models, interval and bound on time.          *)
(***************************************************************************)

RefreshStates == [at : {"idle", "capturing", "fetching", "inserting"}, since : Nat,
                  found : SUBSET [at : Nat, region : Regions, model : Models]]

\* What is stored, and what a refresh has found, is dated in the past.
ModelInv ==
    /\ minute \in Nat
    /\ work \in [Workers -> RefreshStates]
    /\ \A w \in Workers : work[w].since \in 0..minute
    /\ \A w \in Workers : \A r \in work[w].found : r.at \in 0..minute
    /\ \A r \in rows : r.at \in 0..minute

\* A step of one refresh that stores nothing.
LEMMA RefreshMoves ==
    ASSUME ModelInv, NEW w \in Workers, NEW new \in RefreshStates,
           new.since \in 0..minute, \A r \in new.found : r.at \in 0..minute,
           work' = [work EXCEPT ![w] = new], UNCHANGED minute,
           \A r \in rows' : r \in rows \/ r \in work[w].found
    PROVE  ModelInv'
  <1>1. minute' \in Nat /\ work' \in [Workers -> RefreshStates]
    BY DEF ModelInv
  <1>2. ASSUME NEW v \in Workers
        PROVE  work'[v].since \in 0..minute' /\ \A r \in work'[v].found : r.at \in 0..minute'
    <2>1. work'[v] = IF v = w THEN new ELSE work[v]
      BY DEF ModelInv
    <2>2. QED
      BY <2>1 DEF ModelInv
  <1>3. \A r \in rows' : r.at \in 0..minute'
    BY DEF ModelInv
  <1>4. QED
    BY <1>1, <1>2, <1>3 DEF ModelInv

LEMMA ModelStep ==
    ASSUME ModelInv, [ModelNext]_modelVars
    PROVE  ModelInv' /\ rows \subseteq rows'
  <1>1. /\ minute \in Nat /\ work \in [Workers -> RefreshStates]
        /\ \A w \in Workers : work[w] \in RefreshStates /\ work[w].since \in 0..minute
                              /\ \A r \in work[w].found : r.at \in 0..minute
    BY DEF ModelInv
  <1>2. IdleWork \in RefreshStates /\ IdleWork.since \in 0..minute /\ IdleWork.found = {}
    BY <1>1 DEF IdleWork, RefreshStates
  <1>3. ASSUME NEW w \in Workers, BeginRefresh(w)
        PROVE  ModelInv' /\ rows \subseteq rows'
    <2> DEFINE new == [at |-> IF w = "ingest" THEN "capturing" ELSE "fetching",
                       since |-> minute, found |-> {}]
    <2>1. new \in RefreshStates /\ new.since \in 0..minute /\ new.found = {}
      BY <1>1 DEF RefreshStates
    <2>2. /\ work' = [work EXCEPT ![w] = new]
          /\ UNCHANGED <<minute, rows>>
      BY <1>3 DEF BeginRefresh
    <2> HIDE DEF new
    <2>3. QED
      BY <2>1, <2>2, RefreshMoves
  <1>4. ASSUME NEW w \in Workers, FetchModels(w)
        PROVE  ModelInv' /\ rows \subseteq rows'
    <2>1. PICK answer \in SUBSET (Regions \X Models) :
            work' = [work EXCEPT ![w].at = "inserting",
                       ![w].found = {[at |-> work[w].since, region |-> x[1], model |-> x[2]]
                                       : x \in answer}]
      BY <1>4 DEF FetchModels
    <2> DEFINE found == {[at |-> work[w].since, region |-> x[1], model |-> x[2]] : x \in answer}
    <2>2. work[w].since \in Nat
      BY <1>1
    <2>3. found \in SUBSET [at : Nat, region : Regions, model : Models]
      BY <2>2
    <2>4. \A r \in found : r.at \in 0..minute
      BY <1>1
    <2> HIDE DEF found
    <2> DEFINE new == [work[w] EXCEPT !.at = "inserting", !.found = found]
    <2>5. /\ new \in RefreshStates /\ new.since \in 0..minute
          /\ \A r \in new.found : r.at \in 0..minute
      BY <1>1, <2>3, <2>4 DEF RefreshStates
    <2>6. work' = [work EXCEPT ![w] = new]
      BY <1>1, <2>1 DEF RefreshStates, found
    <2>7. UNCHANGED <<minute, rows>>
      BY <1>4 DEF FetchModels
    <2> HIDE DEF new
    <2>8. QED
      BY <2>5, <2>6, <2>7, RefreshMoves
  <1>5. ASSUME NEW w \in Workers, Insert(w) \/ InsertFails(w)
        PROVE  ModelInv' /\ rows \subseteq rows'
    BY <1>2, <1>5, RefreshMoves DEF Insert, InsertFails
  <1>6. CASE Decide \/ DecideBlindly \/ NotEnabled
    <2> DEFINE new == [work["ingest"] EXCEPT !.at = "fetching"]
    <2>1. "ingest" \in Workers
      BY DEF Workers
    <2>2. /\ new \in RefreshStates /\ new.since \in 0..minute
          /\ \A r \in new.found : r.at \in 0..minute
      BY <1>1, <2>1 DEF RefreshStates
    <2>3. /\ \/ work' = [work EXCEPT !["ingest"] = new]
             \/ work' = [work EXCEPT !["ingest"] = IdleWork]
          /\ UNCHANGED <<minute, rows>>
      BY <1>1, <1>6, <2>1 DEF Decide, DecideBlindly, NotEnabled, RefreshStates
    <2> HIDE DEF new
    <2>4. CASE work' = [work EXCEPT !["ingest"] = new]
      BY <2>1, <2>2, <2>3, <2>4, RefreshMoves
    <2>5. CASE work' = [work EXCEPT !["ingest"] = IdleWork]
      BY <1>2, <2>1, <2>3, <2>5, RefreshMoves
    <2>6. QED
      BY <2>3, <2>4, <2>5
  <1>7. CASE MinutePasses
    BY <1>7 DEF MinutePasses, ModelInv
  <1>8. CASE UNCHANGED modelVars
    BY <1>8 DEF modelVars, ModelInv
  <1>9. QED
    BY <1>3, <1>4, <1>5, <1>6, <1>7, <1>8 DEF ModelNext

NewestOf(given) == {r \in given : \A s \in given :
                       s.region = r.region /\ s.model = r.model => s.at <= r.at}

\* A model of a region that has a row has a newest one.
LEMMA ModelHasNewest ==
    ASSUME NEW latest \in Nat, NEW given, \A r \in given : r.at \in 0..latest,
           NEW x \in given
    PROVE  \E y \in NewestOf(given) :
              y.region = x.region /\ y.model = x.model /\ y.at >= x.at
  <1> DEFINE same == {r \in given : r.region = x.region /\ r.model = x.model}
             times == {r.at : r \in same}
  <1>1. times \in SUBSET (0..latest) /\ times # {} /\ x \in same
    OBVIOUS
  <1>2. /\ \A t \in times : \E r \in same : t = r.at
        /\ \A r \in same : r.at \in times /\ r.at \in 0..latest
    OBVIOUS
  <1> HIDE DEF times
  <1>3. PICK t \in times : \A u \in times : u <= t
    BY <1>1, BoundedHaveGreatest
  <1>4. PICK y \in same : t = y.at
    BY <1>2
  <1>5. y \in NewestOf(given)
    BY <1>2, <1>3, <1>4 DEF NewestOf
  <1>6. y.at >= x.at
    BY <1>1, <1>2, <1>3, <1>4
  <1>7. QED
    BY <1>5, <1>6

\* Whatever refreshes run at once, answer or fail, what is shown of a model of a
\* region stays or is replaced by something newer.
THEOREM CatalogIsMonotone == ModelSpec => CatalogNeverGoesBack
  <1>1. ModelInit => ModelInv
    BY DEF ModelInit, ModelInv, IdleWork, RefreshStates
  <1>2. ModelInv /\ [ModelNext]_modelVars => ModelInv'
    BY ModelStep
  <1>3. ModelInv /\ ModelInv' /\ [ModelNext]_modelVars
          => \A x \in Latest : \E y \in Latest' :
                y.region = x.region /\ y.model = x.model /\ y.at >= x.at
    <2> SUFFICES ASSUME ModelInv, ModelInv', [ModelNext]_modelVars, NEW x \in Latest
                 PROVE  \E y \in Latest' :
                          y.region = x.region /\ y.model = x.model /\ y.at >= x.at
      OBVIOUS
    <2>1. x \in rows'
      BY ModelStep DEF Latest
    <2>2. minute' \in Nat /\ \A r \in rows' : r.at \in 0..minute'
      BY DEF ModelInv
    <2>3. PICK y \in NewestOf(rows') :
             y.region = x.region /\ y.model = x.model /\ y.at >= x.at
      BY <2>1, <2>2, ModelHasNewest
    <2>4. Latest' = NewestOf(rows')
      BY DEF Latest, NewestOf
    <2>5. QED
      BY <2>3, <2>4
  <1>4. QED
    BY <1>1, <1>2, <1>3, PTL DEF ModelSpec, CatalogNeverGoesBack

(***************************************************************************)
(* SignIn: any tabs, bound on pending states and switches of the store.    *)
(***************************************************************************)

\* The pairs of tabs of which the second logged in later.
Succession(logins) ==
    {p \in Tabs \X Tabs : \E i, j \in DOMAIN logins :
        i < j /\ logins[i] = p[1] /\ logins[j] = p[2]}

\* A list of pending states is in the order of the logins.
Ordered(states, logins) ==
    \A i, j \in 1..Len(states) : i < j => <<states[i], states[j]>> \in Succession(logins)

PendingList(states, logins) ==
    /\ states \in Seq(ToSet(logins))
    /\ Len(states) <= MaxPending
    /\ Ordered(states, logins)

Newer(t, logins) == {u \in Tabs : <<t, u>> \in Succession(logins)}
Outdated(t, logins) == Cardinality(Newer(t, logins)) >= MaxPending

LoginsOnce(logins) ==
    /\ logins \in Seq(Tabs)
    /\ \A i, j \in 1..Len(logins) : logins[i] = logins[j] => i = j

\* A list from which the first i members were taken, without t.
TakesAllBut(kept, states, t, logins, i) ==
    /\ kept \in Seq(ToSet(logins))
    /\ Len(kept) <= i
    /\ Ordered(kept, logins)
    /\ \A k \in 1..Len(kept) : \E j \in 1..i : kept[k] = states[j]
    /\ \A j \in 1..i : states[j] # t => \E k \in 1..Len(kept) : kept[k] = states[j]

LEMMA TakesNext ==
    ASSUME NEW logins, NEW states \in Seq(ToSet(logins)), Ordered(states, logins),
           NEW t, NEW i \in 1..Len(states), NEW kept,
           TakesAllBut(kept, states, t, logins, i - 1),
           NEW next, next = IF states[i] = t THEN kept ELSE Append(kept, states[i])
    PROVE  TakesAllBut(next, states, t, logins, i)
  <1>1. kept \in Seq(ToSet(logins)) /\ Len(kept) \in Nat /\ Len(kept) <= i - 1
        /\ i \in Nat /\ i - 1 \in Nat
    BY DEF TakesAllBut
  <1>2. CASE states[i] = t
    <2>1. next = kept
      BY <1>2
    <2>2. QED
      BY <1>1, <1>2, <2>1 DEF TakesAllBut
  <1>3. CASE states[i] # t
    <2>1. /\ next = Append(kept, states[i]) /\ states[i] \in ToSet(logins)
          /\ next \in Seq(ToSet(logins))
          /\ Len(next) = Len(kept) + 1 /\ next[Len(next)] = states[i]
          /\ \A k \in 1..Len(kept) : next[k] = kept[k]
      BY <1>1, <1>3
    <2>2. Ordered(next, logins)
      <3>1. SUFFICES ASSUME NEW j \in 1..Len(next), NEW k \in 1..Len(next), j < k
                     PROVE  <<next[j], next[k]>> \in Succession(logins)
        BY DEF Ordered
      <3>2. j \in 1..Len(kept) /\ next[j] = kept[j]
        BY <1>1, <2>1, <3>1
      <3>3. CASE k \in 1..Len(kept)
        BY <2>1, <3>1, <3>2, <3>3 DEF TakesAllBut, Ordered
      <3>4. CASE k = Len(next)
        <4>1. PICK m \in 1..(i - 1) : kept[j] = states[m]
          BY <3>2 DEF TakesAllBut
        <4>2. <<states[m], states[i]>> \in Succession(logins)
          BY <1>1, <4>1 DEF Ordered
        <4>3. QED
          BY <2>1, <3>2, <3>4, <4>1, <4>2
      <3>5. k \in 1..Len(kept) \/ k = Len(next)
        <4>1. Len(kept) \in Nat /\ Len(next) = Len(kept) + 1
          BY <1>1, <2>1
        <4>2. k \in 1..(Len(kept) + 1)
          BY <3>1, <4>1
        <4>3. k \in 1..Len(kept) \/ k = Len(kept) + 1
          <5> DEFINE len == Len(kept)
          <5>1. len \in Nat /\ k \in 1..(len + 1)
            BY <4>1, <4>2
          <5> HIDE DEF len
          <5>2. k \in 1..len \/ k = len + 1
            BY <5>1
          <5>3. QED
            BY <5>2 DEF len
        <4>4. QED
          BY <4>1, <4>3, Zenon
      <3>6. QED
        BY <3>3, <3>4, <3>5
    <2>3. \A k \in 1..Len(next) : \E j \in 1..i : next[k] = states[j]
      <3>1. SUFFICES ASSUME NEW k \in 1..Len(next) PROVE \E j \in 1..i : next[k] = states[j]
        OBVIOUS
      <3>2. CASE k \in 1..Len(kept)
        <4>1. PICK j \in 1..(i - 1) : kept[k] = states[j]
          BY <3>2 DEF TakesAllBut
        <4>2. QED
          BY <1>1, <2>1, <3>2, <4>1
      <3>3. CASE k = Len(next)
        BY <1>1, <2>1, <3>3
      <3>4. QED
        BY <1>1, <2>1, <3>2, <3>3
    <2>4. \A j \in 1..i : states[j] # t => \E k \in 1..Len(next) : next[k] = states[j]
      <3>1. SUFFICES ASSUME NEW j \in 1..i, states[j] # t
                     PROVE  \E k \in 1..Len(next) : next[k] = states[j]
        OBVIOUS
      <3>2. CASE j \in 1..(i - 1)
        <4>1. PICK k \in 1..Len(kept) : kept[k] = states[j]
          BY <3>1, <3>2 DEF TakesAllBut
        <4>2. QED
          BY <1>1, <2>1, <4>1
      <3>3. CASE j = i
        BY <1>1, <2>1, <3>3
      <3>4. QED
        BY <1>1, <3>2, <3>3
    <2>5. QED
      BY <1>1, <2>1, <2>2, <2>3, <2>4 DEF TakesAllBut
  <1>4. QED
    BY <1>2, <1>3

LEMMA WithoutTakes ==
    ASSUME NEW logins, NEW states \in Seq(ToSet(logins)), Ordered(states, logins), NEW t
    PROVE  TakesAllBut(Without(states, t), states, t, logins, Len(states))
  <1> DEFINE n == Len(states)
             T == Seq(ToSet(logins))
             IsKept(h) == h = [i \in 0..n |->
                            IF i = 0 THEN <<>>
                            ELSE IF states[i] = t THEN h[i - 1] ELSE Append(h[i - 1], states[i])]
             Step == [i \in 1..n |-> [k \in T |->
                        IF states[i] = t THEN k ELSE Append(k, states[i])]]
  <1>1. n \in Nat /\ \A i \in 1..n : states[i] \in ToSet(logins)
    OBVIOUS
  <1>2. Step \in [1..n -> [T -> T]]
    <2>1. \A i \in 1..n, k \in T : (IF states[i] = t THEN k ELSE Append(k, states[i])) \in T
      BY <1>1
    <2>2. QED
      BY <2>1
  <1>3. \A i \in 1..n, k \in T : Step[i][k] = IF states[i] = t THEN k ELSE Append(k, states[i])
    OBVIOUS
  <1>4. <<>> \in T
    OBVIOUS
  <1> HIDE DEF n, T, Step
  <1>5. PICK rec : IsRecursive(rec, T, <<>>, n, Step)
    BY <1>1, <1>2, <1>4, RecursionExists, Zenon
  <1>6. /\ rec \in [0..n -> T] /\ rec[0] = <<>>
        /\ \A i \in 1..n : rec[i] = IF states[i] = t THEN rec[i - 1]
                                    ELSE Append(rec[i - 1], states[i])
    <2>1. rec \in [0..n -> T] /\ rec[0] = <<>> /\ \A i \in 1..n : rec[i] = Step[i][rec[i - 1]]
      BY <1>5 DEF IsRecursive
    <2>2. \A i \in 1..n : i - 1 \in 0..n
      BY <1>1
    <2>3. \A i \in 1..n : rec[i - 1] \in T
      BY <2>1, <2>2
    <2>4. QED
      BY <1>3, <2>1, <2>3
  <1>7. IsKept(rec)
    <2>1. ASSUME NEW i \in 0..n
          PROVE  rec[i] = IF i = 0 THEN <<>>
                          ELSE IF states[i] = t THEN rec[i - 1] ELSE Append(rec[i - 1], states[i])
      <3>1. CASE i = 0
        BY <1>6, <3>1
      <3>2. CASE i # 0
        <4>1. i \in 1..n
          BY <1>1, <3>2
        <4>2. QED
          BY <1>6, <3>2, <4>1
      <3>3. QED
        BY <3>1, <3>2
    <2>2. DOMAIN rec = 0..n /\ rec = [i \in 0..n |-> rec[i]]
      BY <1>6
    <2>3. QED
      BY <2>1, <2>2
  <1> DEFINE kept == CHOOSE h : IsKept(h)
  <1>8. IsKept(kept)
    <2> HIDE DEF IsKept
    <2>1. QED
      BY <1>7
  <1>9. Without(states, t) = kept[n]
    BY DEF Without, n
  <1> HIDE DEF kept
  <1>10. /\ DOMAIN kept = 0..n /\ kept[0] = <<>>
         /\ \A i \in 1..n : kept[i] = IF states[i] = t THEN kept[i - 1]
                                      ELSE Append(kept[i - 1], states[i])
    <2>1. \A i \in 1..n : i \in 0..n /\ i # 0
      BY <1>1
    <2>2. 0 \in 0..n
      BY <1>1
    <2>3. QED
      BY <1>8, <2>1, <2>2
  <1> HIDE DEF IsKept
  <1> DEFINE good == {i \in 0..n : TakesAllBut(kept[i], states, t, logins, i)}
  <1>11. 0 \in good
    <2>1. /\ <<>> \in Seq(ToSet(logins)) /\ Len(<<>>) = 0 /\ 0 <= 0
          /\ \A i \in 1..0 : FALSE
      OBVIOUS
    <2>2. Ordered(<<>>, logins)
      BY <2>1 DEF Ordered
    <2>3. TakesAllBut(<<>>, states, t, logins, 0)
      BY <2>1, <2>2 DEF TakesAllBut
    <2>4. 0 \in 0..n
      BY <1>1
    <2>5. QED
      BY <1>10, <2>3, <2>4
  <1>12. ASSUME NEW i \in 0..n, i \in good, i < n PROVE i + 1 \in good
    <2>1. i + 1 \in 1..n /\ i + 1 \in 0..n /\ (i + 1) - 1 = i
      BY <1>1, <1>12
    <2>2. kept[i + 1] = IF states[i + 1] = t THEN kept[i] ELSE Append(kept[i], states[i + 1])
      BY <1>10, <2>1
    <2>3. TakesAllBut(kept[i], states, t, logins, (i + 1) - 1)
      BY <1>12, <2>1
    <2>4. TakesAllBut(kept[i + 1], states, t, logins, i + 1)
      BY <2>1, <2>2, <2>3, TakesNext DEF n
    <2>5. QED
      BY <2>1, <2>4
  <1>13. \A i \in 0..n : i \in good
    <2> HIDE DEF good
    <2>1. QED
      BY <1>1, <1>11, <1>12, IntervalFollows
  <1>14. n \in good
    BY <1>1, <1>13
  <1>15. QED
    BY <1>9, <1>14 DEF n

LEMMA WithoutKeeps ==
    ASSUME NEW logins, NEW states, PendingList(states, logins), NEW t
    PROVE  /\ PendingList(Without(states, t), logins)
           /\ \A u \in ToSet(states) : u # t => u \in ToSet(Without(states, t))
  <1> DEFINE rest == Without(states, t)
  <1>1. states \in Seq(ToSet(logins)) /\ Len(states) \in Nat /\ Len(states) <= MaxPending
        /\ Ordered(states, logins)
    BY DEF PendingList
  <1>2. TakesAllBut(rest, states, t, logins, Len(states))
    BY <1>1, WithoutTakes
  <1> HIDE DEF rest
  <1>3. PendingList(rest, logins)
    BY <1>1, <1>2, MaxPendingOK DEF TakesAllBut, PendingList
  <1>4. ASSUME NEW u \in ToSet(states), u # t PROVE u \in ToSet(rest)
    <2>1. PICK j \in 1..Len(states) : states[j] = u
      BY <1>1, <1>4 DEF ToSet
    <2>2. PICK k \in 1..Len(rest) : rest[k] = u
      BY <1>2, <1>4, <2>1 DEF TakesAllBut
    <2>3. DOMAIN rest = 1..Len(rest)
      BY <1>2 DEF TakesAllBut
    <2>4. QED
      BY <2>2, <2>3 DEF ToSet
  <1>5. QED
    BY <1>3, <1>4 DEF rest

LEMMA ParsedIsSame ==
    ASSUME NEW logins, NEW states, PendingList(states, logins)
    PROVE  parseOAuthStateList(states) = states
  BY DEF PendingList, parseOAuthStateList

LEMMA NobodySucceedsItself ==
    ASSUME NEW logins, LoginsOnce(logins), NEW u
    PROVE  <<u, u>> \notin Succession(logins)
  <1>1. SUFFICES ASSUME NEW i \in DOMAIN logins, NEW j \in DOMAIN logins,
                        i < j, logins[i] = u, logins[j] = u
                 PROVE  FALSE
    BY DEF Succession
  <1>2. QED
    BY <1>1 DEF LoginsOnce

LEMMA NewerIsFinite ==
    ASSUME NEW logins, LoginsOnce(logins), NEW u
    PROVE  IsFiniteSet(Newer(u, logins)) /\ Cardinality(Newer(u, logins)) \in Nat
  <1>1. logins \in Seq(Tabs) /\ DOMAIN logins = 1..Len(logins) /\ Len(logins) \in Nat
    BY DEF LoginsOnce
  <1>2. IsFiniteSet(DOMAIN logins)
    BY <1>1, FS_Interval
  <1>3. IsFiniteSet({logins[i] : i \in DOMAIN logins})
    <2>1. logins \in Surjection(DOMAIN logins, {logins[i] : i \in DOMAIN logins})
      BY <1>1 DEF Surjection
    <2>2. QED
      BY <1>2, <2>1, FS_Surjection
  <1>4. Newer(u, logins) \subseteq {logins[i] : i \in DOMAIN logins}
    BY DEF Newer, Succession
  <1>5. QED
    BY <1>3, <1>4, FS_Subset, FS_CardinalityType

\* The answer of a login: who is dropped from the list is outdated.
LEMMA LoginListKeeps ==
    ASSUME NEW logins, LoginsOnce(logins), NEW states, PendingList(states, logins),
           NEW t \in ToSet(logins),
           \A u \in ToSet(states) : <<u, t>> \in Succession(logins)
    PROVE  LET next == parseOAuthStateList(Append(states, t))
           IN  /\ PendingList(next, logins)
               /\ t \in ToSet(next)
               /\ \A u \in ToSet(states) : u \in ToSet(next) \/ Outdated(u, logins)
  <1> DEFINE whole == Append(states, t)
             next == parseOAuthStateList(whole)
             n == Len(states)
  <1>1. /\ states \in Seq(ToSet(logins)) /\ n \in Nat /\ n <= MaxPending /\ MaxPending \in Nat
        /\ MaxPending > 0 /\ Ordered(states, logins)
    BY MaxPendingOK DEF PendingList
  <1>2. /\ whole \in Seq(ToSet(logins)) /\ Len(whole) = n + 1 /\ whole[n + 1] = t
        /\ \A i \in 1..n : whole[i] = states[i] /\ states[i] \in ToSet(states)
        /\ ToSet(states) = {states[i] : i \in 1..n}
    BY <1>1 DEF ToSet
  <1>3. Ordered(whole, logins)
    <2>1. SUFFICES ASSUME NEW i \in 1..(n + 1), NEW j \in 1..(n + 1), i < j
                   PROVE  <<whole[i], whole[j]>> \in Succession(logins)
      BY <1>2 DEF Ordered
    <2>2. i \in 1..n /\ (j \in 1..n \/ j = n + 1)
      BY <1>1, <2>1
    <2>3. CASE j \in 1..n
      BY <1>1, <1>2, <2>1, <2>2, <2>3 DEF Ordered
    <2>4. CASE j = n + 1
      BY <1>2, <2>2, <2>4
    <2>5. QED
      BY <2>2, <2>3, <2>4
  <1> HIDE DEF whole, n
  <1>4. CASE n < MaxPending
    <2>1. next = whole
      BY <1>1, <1>2, <1>4 DEF parseOAuthStateList
    <2>2. PendingList(next, logins)
      BY <1>1, <1>2, <1>3, <1>4, <2>1 DEF PendingList
    <2>3. ToSet(next) = {whole[i] : i \in 1..(n + 1)}
      BY <1>1, <1>2, <2>1 DEF ToSet
    <2>4. t \in ToSet(next) /\ ToSet(states) \subseteq ToSet(next)
      BY <1>1, <1>2, <2>3
    <2>5. QED
      BY <2>2, <2>4 DEF whole
  <1>5. CASE n = MaxPending
    <2>1. /\ next = SubSeq(whole, 2, n + 1)
          /\ next \in Seq(ToSet(logins)) /\ Len(next) = n
          /\ \A i \in 1..n : next[i] = whole[i + 1]
      <3>1. next = SubSeq(whole, 2, n + 1)
        <4>1. Len(whole) = n + 1 /\ ~(Len(whole) <= MaxPending) /\ Len(whole) - MaxPending + 1 = 2
          BY <1>1, <1>2, <1>5
        <4>2. QED
          BY <4>1, Zenon DEF parseOAuthStateList
      <3>2. 2 \in 1..(n + 1) /\ n + 1 \in 1..(n + 1)
        BY <1>1, <1>5
      <3> HIDE DEF next
      <3>3. QED
        BY <1>1, <1>2, <3>1, <3>2
    <2> HIDE DEF next
    <2>2. PendingList(next, logins)
      <3>1. \A i \in 1..n : i + 1 \in 1..Len(whole)
        BY <1>1, <1>2
      <3>2. Ordered(next, logins)
        BY <1>1, <1>2, <1>3, <2>1, <3>1 DEF Ordered
      <3>3. QED
        BY <1>1, <1>5, <2>1, <3>2 DEF PendingList
    <2>3. ToSet(next) = {whole[i + 1] : i \in 1..n}
      <3>1. DOMAIN next = 1..n
        BY <2>1
      <3>2. ToSet(next) = {next[i] : i \in 1..n}
        BY <3>1 DEF ToSet
      <3>3. QED
        BY <2>1, <3>2
    <2>4. t \in ToSet(next)
      BY <1>1, <1>2, <1>5, <2>3
    <2>5. ASSUME NEW u \in ToSet(states), u \notin ToSet(next) PROVE Outdated(u, logins)
      <3>1. PICK j \in 1..n : whole[j] = u
        BY <1>2, <2>5
      <3>2. j = 1
        <4>1. j # 1 => j - 1 \in 1..n /\ (j - 1) + 1 = j
          BY <1>1, <3>1
        <4>2. QED
          BY <2>3, <2>5, <3>1, <4>1
      <3> DEFINE f == [i \in 1..n |-> whole[i + 1]]
      <3>3. f \in [1..n -> Newer(u, logins)]
        <4>1. ASSUME NEW i \in 1..n PROVE whole[i + 1] \in Newer(u, logins)
          <5>1. i + 1 \in 1..Len(whole) /\ 1 \in 1..Len(whole) /\ 1 < i + 1
            BY <1>1, <1>2
          <5>2. <<u, whole[i + 1]>> \in Succession(logins)
            BY <1>3, <3>1, <3>2, <5>1 DEF Ordered
          <5>3. whole[i + 1] \in Tabs
            BY <5>2 DEF Succession
          <5>4. QED
            BY <5>2, <5>3 DEF Newer
        <4>2. QED
          BY <4>1
      <3>4. ASSUME NEW i \in 1..n, NEW k \in 1..n, f[i] = f[k] PROVE i = k
        <4>1. i + 1 \in 1..Len(whole) /\ k + 1 \in 1..Len(whole) /\ i \in Nat /\ k \in Nat
          BY <1>1, <1>2
        <4>2. whole[i + 1] = whole[k + 1]
          BY <3>4
        <4>3. ~(i + 1 < k + 1) /\ ~(k + 1 < i + 1)
          BY <1>3, <4>1, <4>2, NobodySucceedsItself DEF Ordered
        <4>4. QED
          BY <4>1, <4>3
      <3> HIDE DEF f
      <3>5. f \in Injection(1..n, Newer(u, logins))
        BY <3>3, <3>4 DEF Injection, IsInjective
      <3>6. IsFiniteSet(1..n) /\ Cardinality(1..n) = n
        BY <1>1, FS_Interval
      <3>7. Cardinality(1..n) <= Cardinality(Newer(u, logins))
        BY <3>5, NewerIsFinite, FS_Injection
      <3>8. QED
        BY <1>5, <3>6, <3>7 DEF Outdated
    <2>6. QED
      BY <2>2, <2>4, <2>5 DEF next, whole
  <1>6. QED
    BY <1>1, <1>4, <1>5

LEMMA LoginsGrow ==
    ASSUME NEW logins, LoginsOnce(logins), NEW t \in Tabs \ ToSet(logins)
    PROVE  LET more == Append(logins, t)
           IN  /\ LoginsOnce(more)
               /\ ToSet(more) = ToSet(logins) \cup {t}
               /\ Succession(logins) \subseteq Succession(more)
               /\ \A u \in ToSet(logins) : <<u, t>> \in Succession(more)
               /\ \A u : Outdated(u, logins) => Outdated(u, more)
  <1> DEFINE more == Append(logins, t)
             n == Len(logins)
  <1>1. /\ logins \in Seq(Tabs) /\ n \in Nat /\ DOMAIN logins = 1..n
        /\ more \in Seq(Tabs) /\ Len(more) = n + 1 /\ DOMAIN more = 1..(n + 1)
        /\ more[n + 1] = t
        /\ \A i \in 1..n : more[i] = logins[i] /\ i \in 1..(n + 1) /\ logins[i] # t
    BY DEF LoginsOnce, ToSet
  <1> HIDE DEF more, n
  <1>2. LoginsOnce(more)
    <2>1. ASSUME NEW i \in 1..(n + 1), NEW j \in 1..(n + 1), more[i] = more[j] PROVE i = j
      <3>1. (i \in 1..n \/ i = n + 1) /\ (j \in 1..n \/ j = n + 1)
        BY <1>1
      <3>2. QED
        BY <1>1, <2>1, <3>1 DEF LoginsOnce, n
    <2>2. QED
      BY <1>1, <2>1 DEF LoginsOnce
  <1>3. ToSet(more) = ToSet(logins) \cup {t}
    <2>1. ToSet(more) = {more[i] : i \in 1..(n + 1)} /\ ToSet(logins) = {logins[i] : i \in 1..n}
      BY <1>1 DEF ToSet
    <2>2. \A i \in 1..(n + 1) : i \in 1..n \/ i = n + 1
      BY <1>1
    <2>3. n + 1 \in 1..(n + 1)
      BY <1>1
    <2>4. QED
      BY <1>1, <2>1, <2>2, <2>3
  <1>4. Succession(logins) \subseteq Succession(more)
    BY <1>1 DEF Succession
  <1>5. ASSUME NEW u \in ToSet(logins) PROVE <<u, t>> \in Succession(more)
    <2>1. PICK i \in 1..n : logins[i] = u
      BY <1>1 DEF ToSet
    <2>2. i < n + 1 /\ n + 1 \in 1..(n + 1) /\ u \in Tabs
      BY <1>1, <2>1
    <2>3. QED
      BY <1>1, <2>1, <2>2 DEF Succession
  <1>6. ASSUME NEW u, Outdated(u, logins) PROVE Outdated(u, more)
    <2>1. Newer(u, logins) \subseteq Newer(u, more)
      BY <1>4 DEF Newer
    <2>2. Cardinality(Newer(u, logins)) <= Cardinality(Newer(u, more))
      BY <1>2, <2>1, NewerIsFinite, FS_Subset
    <2>3. Cardinality(Newer(u, logins)) \in Nat /\ Cardinality(Newer(u, more)) \in Nat
      BY <1>2, NewerIsFinite
    <2>4. QED
      BY <1>6, <2>2, <2>3, MaxPendingOK DEF Outdated
  <1>7. QED
    BY <1>2, <1>3, <1>4, <1>5, <1>6 DEF more

LEMMA ListsGrow ==
    ASSUME NEW logins, LoginsOnce(logins), NEW t \in Tabs \ ToSet(logins),
           NEW states, PendingList(states, logins)
    PROVE  PendingList(states, Append(logins, t))
  BY LoginsGrow DEF PendingList, Ordered

Phases == {"closed", "login", "provider", "callback", "refused", "error", "done", "in", "gate"}

\* What a sign-in without an excuse can count on.
Honoured(t) ==
    /\ tab[t] = "login" => InFlight = {t}
    /\ tab[t] = "provider" /\ ~Outdated(t, started)
         => t \in ToSet(cookie) /\ \A u \in InFlight : t \in ToSet(carried[u])
    /\ tab[t] = "callback" =>
          /\ InFlight = {t} /\ bound[t] = store
          /\ t \in ToSet(carried[t]) \/ Outdated(t, started)
    /\ tab[t] = "done" => SignedIn
    /\ tab[t] = "refused" => Outdated(t, started)
    /\ tab[t] # "gate"

\* The lists of states are in the order of the logins, and not longer than they may be.
ListsInOrder ==
    /\ PendingList(cookie, started)
    /\ \A t \in Tabs :
          /\ PendingList(carried[t], started)
          /\ tab[t] = "login" => \A u \in ToSet(carried[t]) : <<u, t>> \in Succession(started)

SignInInv ==
    /\ tab \in [Tabs -> Phases] /\ DOMAIN carried = Tabs /\ DOMAIN bound = Tabs
    /\ LoginsOnce(started)
    /\ \A t \in Tabs : tab[t] = "closed" <=> t \notin ToSet(started)
    /\ ListsInOrder
    /\ \A t \in Tabs : t \in excuse \/ Honoured(t)

LEMMA EmptyList == \A logins : PendingList(<<>>, logins)
  <1>1. SUFFICES ASSUME NEW logins PROVE PendingList(<<>>, logins)
    OBVIOUS
  <1>2. <<>> \in Seq(ToSet(logins)) /\ Len(<<>>) = 0 /\ \A i \in 1..0 : FALSE
    OBVIOUS
  <1>3. QED
    BY <1>2, MaxPendingOK DEF PendingList, Ordered

LEMMA SignInStarts == SignInInit => SignInInv
  <1> SUFFICES ASSUME SignInInit PROVE SignInInv
    OBVIOUS
  <1>1. /\ cookie = <<>> /\ tab = [t \in Tabs |-> "closed"] /\ carried = [t \in Tabs |-> <<>>]
        /\ DOMAIN bound = Tabs /\ started = <<>>
    BY DEF SignInInit
  <1>2. LoginsOnce(started) /\ ToSet(started) = {}
    BY <1>1 DEF LoginsOnce, ToSet
  <1>3. ListsInOrder
    BY <1>1, EmptyList DEF ListsInOrder
  <1>4. tab \in [Tabs -> Phases]
    BY <1>1 DEF Phases
  <1>5. \A t \in Tabs : Honoured(t)
    BY <1>1 DEF Honoured
  <1>6. QED
    BY <1>1, <1>2, <1>3, <1>4, <1>5 DEF SignInInv

\* A request that is sent excuses itself and those under way, unless it is alone.
Sent(t, phase) ==
    /\ tab[t] \notin {"login", "callback"}
    /\ tab' = [tab EXCEPT ![t] = phase]
    /\ carried' = [carried EXCEPT ![t] = cookie]
    /\ excuse' = excuse \cup (IF InFlight = {} THEN {} ELSE InFlight \cup {t})
    /\ UNCHANGED <<cookie, store, accounts>>

LEMMA SentKeeps ==
    ASSUME SignInInv, NEW t \in Tabs, NEW phase \in {"login", "callback"}, Sent(t, phase),
           DOMAIN bound' = Tabs, \A u \in Tabs \ {t} : bound'[u] = bound[u],
           phase = "callback" => bound'[t] = store,
           \A u : Outdated(u, started) => Outdated(u, started'),
           phase = "callback" => tab[t] = "provider"
    PROVE  \A u \in Tabs : u \in excuse' \/ Honoured(u)'
  <1>1. /\ tab \in [Tabs -> Phases] /\ DOMAIN carried = Tabs
        /\ tab'[t] = phase /\ carried'[t] = cookie
        /\ \A u \in Tabs \ {t} : tab'[u] = tab[u] /\ carried'[u] = carried[u]
    BY DEF SignInInv, Sent
  <1>2. InFlight' = InFlight \cup {t} /\ t \notin InFlight
    BY <1>1 DEF InFlight, Sent
  <1>3. excuse \subseteq excuse' /\ (InFlight # {} => InFlight \cup {t} \subseteq excuse')
    BY DEF Sent
  <1>4. ASSUME NEW u \in Tabs, u \notin excuse' PROVE Honoured(u)'
    <2>1. Honoured(u)
      BY <1>3, <1>4 DEF SignInInv
    <2>2. CASE u = t
      <3>1. InFlight' = {t} /\ tab'[u] = phase
        BY <1>1, <1>2, <1>3, <1>4, <2>2
      <3>2. CASE phase = "login"
        BY <3>1, <3>2, <2>2 DEF Honoured
      <3>3. CASE phase = "callback"
        <4>1. t \in ToSet(carried'[t]) \/ Outdated(t, started')
          BY <1>1, <2>1, <2>2, <3>3 DEF Honoured
        <4>2. bound'[t] = store'
          BY <3>3 DEF Sent
        <4>3. QED
          BY <2>2, <3>1, <3>3, <4>1, <4>2 DEF Honoured
      <3>4. QED
        BY <3>2, <3>3
    <2>3. CASE u # t
      <3>1. tab'[u] = tab[u] /\ carried'[u] = carried[u] /\ bound'[u] = bound[u]
        BY <1>1, <2>3
      <3>2. u \notin InFlight
        BY <1>3, <1>4
      <3>3. tab[u] \notin {"login", "callback"}
        BY <3>2 DEF InFlight
      <3>4. tab[u] = "provider" /\ ~Outdated(u, started') =>
               /\ u \in ToSet(cookie') /\ \A v \in InFlight' : u \in ToSet(carried'[v])
        <4>1. SUFFICES ASSUME tab[u] = "provider", ~Outdated(u, started)
                       PROVE  /\ u \in ToSet(cookie')
                              /\ \A v \in InFlight' : u \in ToSet(carried'[v])
          OBVIOUS
        <4>2. u \in ToSet(cookie) /\ \A v \in InFlight : u \in ToSet(carried[v])
          BY <2>1, <4>1 DEF Honoured
        <4>3. \A v \in InFlight : v \in Tabs \ {t}
          BY <1>2 DEF InFlight
        <4>4. cookie' = cookie
          BY DEF Sent
        <4>5. QED
          BY <1>1, <1>2, <4>2, <4>3, <4>4
      <3>5. SignedIn' = SignedIn
        BY DEF Sent, SignedIn
      <3>6. QED
        BY <2>1, <3>1, <3>3, <3>4, <3>5 DEF Honoured
    <2>4. QED
      BY <2>2, <2>3
  <1>5. QED
    BY <1>4

LEMMA SendLoginKeeps == ASSUME SignInInv, NEW t \in Tabs, SendLogin(t) PROVE SignInInv'
  <1>1. LoginsOnce(started) /\ t \in Tabs \ ToSet(started) /\ started' = Append(started, t)
    BY DEF SignInInv, SendLogin
  <1>2. /\ LoginsOnce(started') /\ ToSet(started') = ToSet(started) \cup {t}
        /\ Succession(started) \subseteq Succession(started')
        /\ \A u \in ToSet(started) : <<u, t>> \in Succession(started')
        /\ \A u : Outdated(u, started) => Outdated(u, started')
    BY <1>1, LoginsGrow
  <1>3. \A states : PendingList(states, started) => PendingList(states, started')
    BY <1>1, ListsGrow
  <1>4. /\ tab \in [Tabs -> Phases] /\ DOMAIN carried = Tabs /\ DOMAIN bound = Tabs
        /\ tab' = [tab EXCEPT ![t] = "login"] /\ carried' = [carried EXCEPT ![t] = cookie]
        /\ bound' = bound /\ cookie' = cookie
    BY DEF SignInInv, SendLogin
  <1>5. tab' \in [Tabs -> Phases] /\ DOMAIN carried' = Tabs /\ DOMAIN bound' = Tabs
    BY <1>4 DEF Phases
  <1>6. \A u \in Tabs : tab'[u] = "closed" <=> u \notin ToSet(started')
    BY <1>2, <1>4 DEF SignInInv
  <1>7. ListsInOrder'
    <2>1. PendingList(cookie', started')
      BY <1>3, <1>4 DEF SignInInv, ListsInOrder
    <2>2. ASSUME NEW u \in Tabs
          PROVE  /\ PendingList(carried'[u], started')
                 /\ tab'[u] = "login"
                      => \A v \in ToSet(carried'[u]) : <<v, u>> \in Succession(started')
      <3>1. CASE u = t
        <4>1. carried'[u] = cookie
          BY <1>4, <3>1
        <4>2. ToSet(cookie) \subseteq ToSet(started)
          <5>1. cookie \in Seq(ToSet(started))
            BY DEF SignInInv, ListsInOrder, PendingList
          <5>2. QED
            BY <5>1 DEF ToSet
        <4>3. QED
          BY <1>2, <1>4, <2>1, <3>1, <4>1, <4>2
      <3>2. CASE u # t
        <4>1. carried'[u] = carried[u] /\ tab'[u] = tab[u]
          BY <1>4, <3>2
        <4>2. QED
          BY <1>2, <1>3, <4>1 DEF SignInInv, ListsInOrder
      <3>3. QED
        BY <3>1, <3>2
    <2>3. QED
      BY <2>1, <2>2 DEF ListsInOrder
  <1>8. \A u \in Tabs : u \in excuse' \/ Honoured(u)'
    <2>1. Sent(t, "login")
      BY DEF SendLogin, Sent
    <2>2. QED
      BY <1>2, <1>4, <2>1, SentKeeps
  <1>9. QED
    BY <1>2, <1>5, <1>6, <1>7, <1>8 DEF SignInInv

LEMMA SendCallbackKeeps == ASSUME SignInInv, NEW t \in Tabs, SendCallback(t) PROVE SignInInv'
  <1>1. /\ tab \in [Tabs -> Phases] /\ DOMAIN carried = Tabs /\ DOMAIN bound = Tabs
        /\ tab' = [tab EXCEPT ![t] = "callback"] /\ carried' = [carried EXCEPT ![t] = cookie]
        /\ bound' = [bound EXCEPT ![t] = store] /\ cookie' = cookie /\ started' = started
        /\ tab[t] = "provider"
    BY DEF SignInInv, SendCallback
  <1>2. tab' \in [Tabs -> Phases] /\ DOMAIN carried' = Tabs /\ DOMAIN bound' = Tabs
    BY <1>1 DEF Phases
  <1>3. /\ LoginsOnce(started') /\ \A u \in Tabs : tab'[u] = "closed" <=> u \notin ToSet(started')
    BY <1>1 DEF SignInInv
  <1>4. ListsInOrder'
    BY <1>1 DEF SignInInv, ListsInOrder
  <1>5. \A u \in Tabs : u \in excuse' \/ Honoured(u)'
    <2>1. Sent(t, "callback")
      BY DEF SendCallback, Sent
    <2>2. bound'[t] = store /\ \A u \in Tabs \ {t} : bound'[u] = bound[u]
      BY <1>1
    <2>3. \A u : Outdated(u, started) => Outdated(u, started')
      BY <1>1
    <2>4. QED
      BY <1>1, <1>2, <2>1, <2>2, <2>3, SentKeeps
  <1>6. QED
    BY <1>2, <1>3, <1>4, <1>5 DEF SignInInv

\* A request is answered: the new list has what it carried, as far as it matters.
Ended(t, phase) ==
    /\ t \in InFlight
    /\ tab' = [tab EXCEPT ![t] = phase]
    /\ carried' = [carried EXCEPT ![t] = <<>>]
    /\ UNCHANGED <<store, started, excuse>>
    /\ accounts \subseteq accounts'
    /\ DOMAIN bound' = Tabs /\ \A u \in Tabs \ {t} : bound'[u] = bound[u]
    /\ cookie' = cookie \/ /\ PendingList(cookie', started)
                           /\ \A u \in ToSet(carried[t]) :
                                 u = t \/ u \in ToSet(cookie') \/ Outdated(u, started)

LEMMA EndedKeeps ==
    ASSUME SignInInv, NEW t \in Tabs,
           NEW phase \in {"provider", "refused", "error", "done"}, Ended(t, phase),
           t \in excuse \/ Honoured(t)'
    PROVE  SignInInv'
  <1>1. /\ tab \in [Tabs -> Phases] /\ DOMAIN carried = Tabs
        /\ tab'[t] = phase /\ carried'[t] = <<>>
        /\ \A u \in Tabs \ {t} : tab'[u] = tab[u] /\ carried'[u] = carried[u]
    BY DEF SignInInv, Ended
  <1>2. tab' \in [Tabs -> Phases] /\ DOMAIN carried' = Tabs /\ DOMAIN bound' = Tabs
    BY <1>1 DEF Ended, Phases
  <1>3. LoginsOnce(started') /\ \A u \in Tabs : tab'[u] = "closed" <=> u \notin ToSet(started')
    BY <1>1 DEF Ended, SignInInv, InFlight
  <1>4. ListsInOrder'
    <2>1. PendingList(cookie', started')
      BY DEF SignInInv, ListsInOrder, Ended
    <2>2. ASSUME NEW u \in Tabs
          PROVE  /\ PendingList(carried'[u], started')
                 /\ tab'[u] = "login"
                      => \A v \in ToSet(carried'[u]) : <<v, u>> \in Succession(started')
      <3>1. CASE u = t
        BY <1>1, <3>1, EmptyList
      <3>2. CASE u # t
        BY <1>1, <3>2 DEF SignInInv, ListsInOrder, Ended
      <3>3. QED
        BY <3>1, <3>2
    <2>3. QED
      BY <2>1, <2>2 DEF ListsInOrder
  <1>5. InFlight' = InFlight \ {t} /\ t \in InFlight
    BY <1>1 DEF InFlight, Ended
  <1>6. ASSUME NEW u \in Tabs \ {t}, u \notin excuse PROVE Honoured(u)'
    <2>1. Honoured(u) /\ tab'[u] = tab[u] /\ carried'[u] = carried[u] /\ bound'[u] = bound[u]
      BY <1>1, <1>6 DEF SignInInv, Ended
    <2>2. tab[u] \notin {"login", "callback"}
      BY <1>5, <1>6, <2>1 DEF Honoured
    <2>3. tab[u] = "provider" /\ ~Outdated(u, started') =>
             u \in ToSet(cookie') /\ \A v \in InFlight' : u \in ToSet(carried'[v])
      <3>1. SUFFICES ASSUME tab[u] = "provider", ~Outdated(u, started)
                     PROVE  u \in ToSet(cookie') /\ \A v \in InFlight' : u \in ToSet(carried'[v])
        BY DEF Ended
      <3>2. u \in ToSet(cookie) /\ \A v \in InFlight : u \in ToSet(carried[v])
        BY <2>1, <3>1 DEF Honoured
      <3>3. u \in ToSet(cookie')
        BY <1>5, <1>6, <3>1, <3>2 DEF Ended
      <3>4. \A v \in InFlight' : v \in Tabs \ {t} /\ v \in InFlight
        BY <1>5 DEF InFlight
      <3>5. QED
        BY <1>1, <3>2, <3>3, <3>4
    <2>4. SignedIn => SignedIn'
      BY DEF SignedIn, Ended
    <2>5. Outdated(u, started)' = Outdated(u, started)
      BY DEF Ended, Outdated, Newer, Succession
    <2>6. QED
      BY <2>1, <2>2, <2>3, <2>4, <2>5 DEF Honoured, Ended
  <1>7. \A u \in Tabs : u \in excuse' \/ Honoured(u)'
    BY <1>6 DEF Ended
  <1>8. QED
    BY <1>2, <1>3, <1>4, <1>7 DEF SignInInv

LEMMA LoginAnsweredKeeps == ASSUME SignInInv, NEW t \in Tabs, LoginAnswered(t) PROVE SignInInv'
  <1>1. tab[t] = "login" /\ t \in InFlight /\ t \in ToSet(started) /\ LoginsOnce(started)
        /\ PendingList(carried[t], started)
        /\ \A u \in ToSet(carried[t]) : <<u, t>> \in Succession(started)
    BY DEF LoginAnswered, InFlight, SignInInv, ListsInOrder
  <1>2. cookie' = parseOAuthStateList(Append(carried[t], t))
    BY <1>1, ParsedIsSame DEF LoginAnswered
  <1>3. /\ PendingList(cookie', started) /\ t \in ToSet(cookie')
        /\ \A u \in ToSet(carried[t]) : u \in ToSet(cookie') \/ Outdated(u, started)
    BY <1>1, <1>2, LoginListKeeps
  <1>4. Ended(t, "provider")
    BY <1>1, <1>3 DEF Ended, LoginAnswered, SignInInv
  <1>5. ASSUME t \notin excuse PROVE Honoured(t)'
    <2>1. InFlight = {t}
      BY <1>1, <1>5 DEF SignInInv, Honoured
    <2>2. tab'[t] = "provider" /\ \A u \in Tabs \ {t} : tab'[u] = tab[u]
      BY DEF LoginAnswered, SignInInv
    <2>3. InFlight' = {}
      BY <2>1, <2>2 DEF InFlight
    <2>4. QED
      BY <1>3, <2>2, <2>3 DEF Honoured
  <1>6. QED
    BY <1>4, <1>5, EndedKeeps

LEMMA CallbackRefusedKeeps ==
    ASSUME SignInInv, NEW t \in Tabs, CallbackRefused(t) PROVE SignInInv'
  <1>1. tab[t] = "callback" /\ t \in InFlight /\ PendingList(carried[t], started)
    BY DEF CallbackRefused, InFlight, SignInInv, ListsInOrder
  <1>2. t \notin ToSet(carried[t])
    BY <1>1, ParsedIsSame DEF CallbackRefused, Accepts
  <1>3. Ended(t, "refused")
    BY <1>1 DEF Ended, CallbackRefused, Answered, SignInInv
  <1>4. ASSUME t \notin excuse PROVE Honoured(t)'
    <2>1. Outdated(t, started)
      BY <1>1, <1>2, <1>4 DEF SignInInv, Honoured
    <2>2. tab'[t] = "refused" /\ started' = started
      BY DEF CallbackRefused, Answered, SignInInv
    <2>3. QED
      BY <2>1, <2>2 DEF Honoured
  <1>5. QED
    BY <1>3, <1>4, EndedKeeps

LEMMA UsedStateKeeps ==
    ASSUME SignInInv, NEW t \in Tabs, tab[t] = "callback",
           cookie' = Without(parseOAuthStateList(carried[t]), t)
    PROVE  /\ PendingList(cookie', started)
           /\ \A u \in ToSet(carried[t]) : u = t \/ u \in ToSet(cookie')
  <1>1. PendingList(carried[t], started)
    BY DEF SignInInv, ListsInOrder
  <1>2. cookie' = Without(carried[t], t)
    BY <1>1, ParsedIsSame
  <1>3. QED
    BY <1>1, <1>2, WithoutKeeps

LEMMA SignInEndsKeeps ==
    ASSUME SignInInv, NEW t \in Tabs, SignInCompletes(t) \/ SignInFails(t)
    PROVE  SignInInv'
  <1>1. tab[t] = "callback" /\ t \in InFlight
    BY DEF SignInCompletes, SignInFails, InFlight
  <1>2. /\ PendingList(cookie', started)
        /\ \A u \in ToSet(carried[t]) : u = t \/ u \in ToSet(cookie')
    BY <1>1, UsedStateKeeps DEF SignInCompletes, SignInFails
  <1>3. CASE SignInCompletes(t)
    <2>1. Ended(t, "done")
      BY <1>1, <1>2, <1>3 DEF Ended, SignInCompletes, Answered, SignInInv
    <2>2. ASSUME t \notin excuse PROVE Honoured(t)'
      <3>1. bound[t] = store /\ store' = store /\ accounts' = accounts \cup {bound[t]}
        BY <1>1, <1>3, <2>2 DEF SignInInv, Honoured, SignInCompletes
      <3>2. tab'[t] = "done"
        BY <1>3 DEF SignInCompletes, Answered, SignInInv
      <3>3. QED
        BY <3>1, <3>2 DEF Honoured, SignedIn
    <2>3. QED
      BY <2>1, <2>2, EndedKeeps
  <1>4. CASE SignInFails(t)
    <2>1. Ended(t, "error")
      BY <1>1, <1>2, <1>4 DEF Ended, SignInFails, Answered, SignInInv
    <2>2. tab'[t] = "error"
      BY <1>4 DEF SignInFails, Answered, SignInInv
    <2>3. Honoured(t)'
      BY <2>2 DEF Honoured
    <2>4. QED
      BY <2>1, <2>3, EndedKeeps
  <1>5. QED
    BY <1>3, <1>4

\* A tab stays where it is, or goes on without a request.
Moves(u) ==
    \/ tab'[u] = tab[u]
    \/ tab[u] \in {"provider", "done"} /\ tab'[u] \in {"error", "in", "gate"}

\* Steps without a request: some tabs move on, or have an excuse.
LEMMA OtherSignInSteps ==
    ASSUME SignInInv,
           \/ \E t \in Tabs : ProviderFails(t) \/ Redirected(t)
           \/ Logout \/ Warmup \/ StoreFails \/ CookieExpires \/ UNCHANGED signInVars
    PROVE  SignInInv'
  <1>1. /\ DOMAIN carried' = Tabs /\ DOMAIN bound' = Tabs
        /\ carried' = carried /\ bound' = bound /\ started' = started
        /\ cookie' = cookie \/ cookie' = <<>>
        /\ excuse \subseteq excuse'
    BY DEF SignInInv, ProviderFails, Redirected, Logout, Warmup, StoreFails, CookieExpires,
           SwitchTo, signInVars
  <1>2. /\ tab' \in [Tabs -> Phases]
        /\ \A u \in Tabs : Moves(u)
    <2>1. tab \in [Tabs -> Phases]
      BY DEF SignInInv
    <2>2. ASSUME NEW t \in Tabs, NEW phase \in {"error", "in", "gate"},
                 tab[t] \in {"provider", "done"}, tab' = [tab EXCEPT ![t] = phase]
          PROVE  /\ tab' \in [Tabs -> Phases]
                 /\ \A u \in Tabs : Moves(u)
      BY <2>1, <2>2 DEF Phases, Moves
    <2>3. CASE \E t \in Tabs : ProviderFails(t) \/ Redirected(t)
      BY <2>2, <2>3 DEF ProviderFails, Redirected
    <2>4. CASE tab' = tab
      BY <2>1, <2>4 DEF Moves
    <2>5. QED
      BY <2>3, <2>4 DEF Logout, Warmup, StoreFails, CookieExpires, SwitchTo, signInVars
  <1>3. ListsInOrder'
    BY <1>1, <1>2, EmptyList DEF SignInInv, ListsInOrder, Moves
  <1>4. InFlight' = InFlight
    BY <1>2 DEF InFlight, Moves
  <1>5. \A u : Outdated(u, started)' = Outdated(u, started)
    BY <1>1 DEF Outdated, Newer, Succession
  <1>6. ASSUME NEW u \in Tabs, u \notin excuse' PROVE Honoured(u)'
    <2>1. Honoured(u) /\ u \notin excuse
      BY <1>1, <1>6 DEF SignInInv
    <2>2. CASE \E t \in Tabs : ProviderFails(t)
      BY <1>1, <1>4, <1>5, <2>1, <2>2 DEF Honoured, ProviderFails, SignInInv, SignedIn
    <2>3. CASE \E t \in Tabs : Redirected(t)
      BY <1>1, <1>4, <1>5, <2>1, <2>3 DEF Honoured, Redirected, SignInInv, SignedIn
    <2>4. CASE Logout
      BY <1>1, <1>4, <1>5, <1>6, <2>1, <2>4 DEF Honoured, Logout
    <2>5. CASE Warmup \/ StoreFails
      BY <1>1, <1>4, <1>5, <1>6, <2>1, <2>5 DEF Honoured, Warmup, StoreFails, SwitchTo
    <2>6. CASE CookieExpires
      BY <1>1, <1>4, <1>5, <1>6, <2>1, <2>6 DEF Honoured, CookieExpires, Open, SignedIn
    <2>7. CASE UNCHANGED signInVars
      BY <1>4, <1>5, <2>1, <2>7 DEF Honoured, signInVars, SignedIn
    <2>8. QED
      BY <2>2, <2>3, <2>4, <2>5, <2>6, <2>7
  <1>7. QED
    BY <1>1, <1>2, <1>3, <1>6 DEF SignInInv, Moves

LEMMA SignInStepKeeps == SignInInv /\ [SignInNext]_signInVars => SignInInv'
  BY SendLoginKeeps, LoginAnsweredKeeps, SendCallbackKeeps, CallbackRefusedKeeps,
     SignInEndsKeeps, OtherSignInSteps DEF SignInNext

THEOREM SignInsAreHonoured == SignInSpec => []PendingSignInsAreHonoured
  <1>1. SignInInv => PendingSignInsAreHonoured
    <2>1. SUFFICES ASSUME SignInInv, NEW t \in Tabs, tab[t] \in {"refused", "gate"},
                          t \notin excuse
                   PROVE  Cardinality(Later(t)) >= MaxPending
      BY DEF PendingSignInsAreHonoured
    <2>2. Outdated(t, started) /\ LoginsOnce(started)
      BY <2>1 DEF SignInInv, Honoured
    <2>3. Later(t) = Newer(t, started)
      BY <2>2 DEF Later, Newer, Succession, LoginsOnce, ToSet
    <2>4. QED
      BY <2>2, <2>3 DEF Outdated
  <1>2. QED
    BY <1>1, SignInStarts, SignInStepKeeps, PTL DEF SignInSpec

(***************************************************************************)
(* CapacityPages: any keys, subscriptions and page sizes.                  *)
(***************************************************************************)
LEMMA QuotientRounds ==
    ASSUME NEW a \in Nat, NEW n \in Nat \ {0}
    PROVE  a \div n \in Nat /\ (a \div n) * n <= a /\ a < (a \div n) * n + n
  OBVIOUS

LEMMA ProductsGrow ==
    ASSUME NEW a \in Nat, NEW b \in Nat, NEW n \in Nat, a <= b
    PROVE  a * n \in Nat /\ b * n \in Nat /\ a * n <= b * n
  OBVIOUS

LEMMA NextProduct ==
    ASSUME NEW a \in Nat, NEW n \in Nat
    PROVE  (a + 1) * n = a * n + n
  OBVIOUS

\* The pages before the last are full, and the last one has a row.
LEMMA LastPageHasRows ==
    ASSUME NEW total \in Nat \ {0}, NEW n \in Nat \ {0}
    PROVE  /\ PageCount(total, n) \in Nat \ {0}
           /\ (PageCount(total, n) - 1) * n < total
           /\ total <= PageCount(total, n) * n
  <1> DEFINE q == PageCount(total, n)
  <1>1. total + n - 1 \in Nat
    OBVIOUS
  <1>2. q \in Nat /\ q * n <= total + n - 1 /\ total + n - 1 < q * n + n
    BY <1>1, QuotientRounds DEF PageCount
  <1> HIDE DEF q
  <1>3. q # 0
    <2>1. ASSUME q = 0 PROVE FALSE
      <3>1. q * n = 0
        BY <2>1
      <3>2. QED
        BY <1>2, <3>1
    <2>2. QED
      BY <2>1
  <1>4. q - 1 \in Nat /\ (q - 1) + 1 = q
    BY <1>2, <1>3
  <1>5. q * n = (q - 1) * n + n /\ (q - 1) * n \in Nat /\ q * n \in Nat
    BY <1>2, <1>4, NextProduct, ProductsGrow
  <1>6. (q - 1) * n < total /\ total <= q * n
    BY <1>2, <1>5
  <1>7. QED
    BY <1>2, <1>3, <1>6 DEF q

LEMMA CapturesAreFinite ==
    ASSUME NEW content \in Captures
    PROVE  IsFiniteSet(content) /\ Cardinality(content) \in Nat \ {0} /\ \A r \in content : r.key \in Nat
  <1>1. IsFiniteSet(Keys \X Subscriptions)
    BY PageSizesOK, FS_Product
  <1> DEFINE pair == [r \in Rows |-> <<r.key, r.subscription>>]
  <1>2. pair \in [Rows -> Keys \X Subscriptions]
    BY DEF Rows
  <1>3. \A q, r \in Rows : pair[q] = pair[r] => q = r
    BY DEF Rows
  <1>4. DOMAIN pair = Rows
    OBVIOUS
  <1> HIDE DEF pair
  <1>5. pair \in Injection(Rows, Keys \X Subscriptions)
    BY <1>2, <1>3, <1>4 DEF Injection, IsInjective
  <1>6. IsFiniteSet(Rows)
    BY <1>1, <1>5, FS_Injection
  <1>7. content \in SUBSET Rows /\ content # {}
    BY DEF Captures
  <1>8. IsFiniteSet(content) /\ Cardinality(content) \in Nat /\ Cardinality(content) # 0
    BY <1>6, <1>7, FS_Subset, FS_CardinalityType, FS_EmptySet
  <1>9. \A r \in content : r.key \in Nat
    BY <1>7, PageSizesOK DEF Rows
  <1>10. QED
    BY <1>8, <1>9

LEMMA PageSizeIsPositive ==
    ASSUME size \in PageSizes
    PROVE  PageSize(size) \in Nat \ {0}
  BY PageSizesOK DEF PageSize

\* The end of the rows that the pages up to number i stand for.
Reach(i, total, n) == IF i * n < total THEN i * n ELSE total

\* A slice of an order of a capture.
LEMMA SliceOfOrder ==
    ASSUME NEW content \in Captures, NEW s \in Orders(content), NEW from \in Nat, NEW to \in Nat,
           from <= to, from < Cardinality(content)
    PROVE  LET end == IF to < Cardinality(content) THEN to ELSE Cardinality(content)
           IN  /\ Slice(s, from, to) \in Seq(content)
               /\ DOMAIN Slice(s, from, to) = 1..(end - from)
               /\ Len(Slice(s, from, to)) = end - from
               /\ \A j \in 1..(end - from) : Slice(s, from, to)[j] = s[from + j]
  <1> DEFINE total == Cardinality(content)
             end == IF to < total THEN to ELSE total
  <1>1. total \in Nat \ {0}
    BY CapturesAreFinite
  <1>2. s \in [1..total -> content]
    BY DEF Orders, SetToSeqs
  <1> HIDE DEF total
  <1>3. s \in Seq(content) /\ Len(s) = total
    BY <1>1, <1>2
  <1>4. end \in Nat /\ end <= total /\ from <= end
    BY <1>1 DEF total
  <1>5. Slice(s, from, to) = SubSeq(s, from + 1, end)
    BY <1>3 DEF Slice
  <1> HIDE DEF end
  <1>6. /\ SubSeq(s, from + 1, end) \in Seq(content)
        /\ Len(SubSeq(s, from + 1, end)) = end - from
        /\ \A j \in 1..(end - from) : SubSeq(s, from + 1, end)[j] = s[from + j]
    BY <1>1, <1>3, <1>4
  <1>7. QED
    BY <1>5, <1>6 DEF end, total

LEMMA OrdersHoldAll ==
    ASSUME NEW content \in Captures, NEW s \in Orders(content)
    PROVE  /\ s \in Injection(1..Cardinality(content), content)
           /\ \A r \in content : \E k \in 1..Cardinality(content) : s[k] = r
           /\ Len(s) = Cardinality(content)
           /\ \A i, j \in 1..Cardinality(content) : i < j => s[i].key <= s[j].key
  <1> DEFINE total == Cardinality(content)
  <1>1. IsFiniteSet(content) /\ total \in Nat
    BY CapturesAreFinite
  <1>2. /\ s \in [1..total -> content]
        /\ \A i, j \in 1..total : i # j => s[i] # s[j]
        /\ \A i, j \in 1..Len(s) : i < j => s[i].key <= s[j].key
    BY DEF Orders, SetToSeqs
  <1>3. Cardinality(1..total) = total
    BY <1>1, FS_Interval
  <1> HIDE DEF total
  <1>4. Len(s) = total
    BY <1>1, <1>2
  <1>5. s \in Injection(1..total, content)
    BY <1>2 DEF Injection, IsInjective
  <1>6. s \in Surjection(1..total, content)
    BY <1>1, <1>3, <1>5, FS_Injection DEF total
  <1>7. QED
    BY <1>2, <1>4, <1>5, <1>6 DEF total, Surjection

\* A row whose key no other row shares has the same place in every order.
LEMMA AloneHasOnePlace ==
    ASSUME NEW content \in Captures, NEW s \in Orders(content), NEW r \in content, Alone(r, content),
           NEW k \in 1..Cardinality(content), s[k] = r
    PROVE  k = Cardinality({q \in content : q.key < r.key}) + 1
  <1> DEFINE total == Cardinality(content)
  <1>1. total \in Nat /\ \A q \in content : q.key \in Nat
    BY CapturesAreFinite
  <1> HIDE DEF total
  <1>2. /\ s \in Injection(1..total, content)
        /\ \A q \in content : \E j \in 1..total : s[j] = q
        /\ \A i, j \in 1..total : i < j => s[i].key <= s[j].key
    BY OrdersHoldAll DEF total
  <1>3. s \in [1..total -> content] /\ \A i, j \in 1..total : s[i] = s[j] => i = j
    BY <1>2 DEF Injection, IsInjective
  <1>4. k \in 1..total
    BY DEF total
  <1>5. ASSUME NEW j \in 1..(k - 1) PROVE s[j] \in content /\ s[j].key < r.key
    <2>1. j \in 1..total /\ j < k /\ s[j] \in content
      BY <1>1, <1>3, <1>4
    <2>2. s[j] # r
      BY <1>3, <1>4, <2>1
    <2>3. s[j].key # r.key
      BY <2>1, <2>2 DEF Alone
    <2>4. s[j].key <= r.key
      BY <1>2, <1>4, <2>1
    <2>5. QED
      BY <1>1, <2>1, <2>3, <2>4
  <1>6. ASSUME NEW q \in content, q.key < r.key PROVE q \in {s[j] : j \in 1..(k - 1)}
    <2>1. PICK j \in 1..total : s[j] = q
      BY <1>2
    <2>2. ~(k < j)
      BY <1>1, <1>2, <1>4, <1>6, <2>1
    <2>3. j # k
      BY <1>1, <1>6, <2>1
    <2>4. j \in 1..(k - 1)
      BY <1>1, <1>4, <2>2, <2>3
    <2>5. QED
      BY <2>1, <2>4
  <1>7. {q \in content : q.key < r.key} = {s[j] : j \in 1..(k - 1)}
    BY <1>5, <1>6
  <1>8. Cardinality({s[j] : j \in 1..(k - 1)}) = k - 1
    BY <1>1, <1>2, <1>4, PlacesBefore
  <1>9. Cardinality({q \in content : q.key < r.key}) = k - 1
    BY <1>7, <1>8, Zenon
  <1>10. QED
    BY <1>1, <1>4, <1>9

LEMMA SameQuotient ==
    ASSUME NEW a \in Nat, NEW b \in Nat, NEW n \in Nat, NEW x \in Nat,
           a * n <= x, x < a * n + n, b * n <= x, x < b * n + n
    PROVE  a = b
  <1>1. \A c, d \in Nat : c < d /\ d * n <= x => c * n + n <= x
    <2>1. ASSUME NEW c \in Nat, NEW d \in Nat, c < d, d * n <= x PROVE c * n + n <= x
      <3>1. c + 1 \in Nat /\ c + 1 <= d
        BY <2>1
      <3>2. (c + 1) * n <= d * n /\ (c + 1) * n = c * n + n /\ c * n \in Nat /\ d * n \in Nat
        BY <3>1, ProductsGrow, NextProduct
      <3>3. QED
        BY <2>1, <3>2
    <2>2. QED
      BY <2>1
  <1>2. a * n \in Nat /\ b * n \in Nat
    BY ProductsGrow
  <1>3. ~(a < b) /\ ~(b < a)
    BY <1>1, <1>2
  <1>4. QED
    BY <1>3

----------------------------------------------------------------------------
PageRecords ==
    [rows : Seq(Rows), total : Nat, number : Nat, version : Nat, hasNext : BOOLEAN]

PagesTyped ==
    capture \in Captures /\ version \in Nat /\ size \in PageSizes /\ pages \in Seq(PageRecords)

\* What the reader was given of the latest capture are pages of orders of it.
IsPage(i) ==
    \E s \in Orders(capture) :
        /\ pages[i].rows = Slice(s, (i - 1) * PageSize(size), i * PageSize(size))
        /\ pages[i].hasNext = (i < PageCount(Cardinality(capture), PageSize(size)))

PagesFollow ==
    \A i \in 1..Len(pages) :
        /\ pages[i].version <= version
        /\ i < Len(pages) => pages[i].hasNext
        /\ pages[i].version = version => IsPage(i)

LEMMA PagesStart == PagesInit => PagesTyped /\ PagesFollow
  BY DEF PagesInit, PagesTyped, PagesFollow

LEMMA SliceType ==
    ASSUME NEW content \in Captures, NEW s \in Orders(content), NEW from \in Nat, NEW to \in Nat, from <= to
    PROVE  Slice(s, from, to) \in Seq(Rows)
  <1> DEFINE total == Cardinality(content)
  <1>1. total \in Nat /\ Len(s) = total
    BY CapturesAreFinite, OrdersHoldAll
  <1>2. CASE from < total
    <2>1. Slice(s, from, to) \in Seq(content)
      BY <1>2, SliceOfOrder
    <2>2. content \in SUBSET Rows
      BY DEF Captures
    <2>3. QED
      BY <2>1, <2>2
  <1>3. CASE from >= total
    <2>1. Slice(s, from, to) = SubSeq(s, from + 1, total)
      BY <1>1, <1>3 DEF Slice
    <2>2. 1..(total - (from + 1) + 1) = {}
      BY <1>1, <1>3
    <2>3. SubSeq(s, from + 1, total) = <<>>
      BY <1>1, <1>3, <2>2
    <2>4. <<>> \in Seq(Rows)
      OBVIOUS
    <2>5. QED
      BY <2>1, <2>3, <2>4, Zenon
  <1>4. QED
    BY <1>1, <1>2, <1>3

LEMMA PagesGoOn == PagesTyped /\ PagesFollow /\ [PagesNext]_pagesVars => (PagesTyped /\ PagesFollow)'
  <1> SUFFICES ASSUME PagesTyped, PagesFollow, [PagesNext]_pagesVars
               PROVE  (PagesTyped /\ PagesFollow)'
    OBVIOUS
  <1>0. PICK n, k : n = PageSize(size) /\ k = Len(pages)
    OBVIOUS
  <1>1. CASE ReadPage
    <2>1. PICK s \in Orders(capture) : pages' = Append(pages, Page(s, k + 1, n))
      BY <1>0, <1>1 DEF ReadPage
    <2>2. UNCHANGED <<capture, version, size>> /\ More
      BY <1>1 DEF ReadPage
    <2>0. PICK page : page = Page(s, k + 1, n)
      OBVIOUS
    <2>3. k \in Nat /\ n \in Nat \ {0}
      BY <1>0, PageSizeIsPositive DEF PagesTyped
    <2>4. k * n \in Nat /\ (k + 1) * n \in Nat /\ k * n <= (k + 1) * n /\ (k + 1) - 1 = k
      BY <2>3, NextProduct, ProductsGrow
    <2>5. Slice(s, k * n, (k + 1) * n) \in Seq(Rows)
      BY <2>4, SliceType DEF PagesTyped
    <2>6. Len(s) = Cardinality(capture) /\ Cardinality(capture) \in Nat
      BY OrdersHoldAll, CapturesAreFinite DEF PagesTyped
    <2>7. page = [rows |-> Slice(s, k * n, (k + 1) * n), total |-> Cardinality(capture),
                  number |-> k + 1, version |-> version,
                  hasNext |-> k + 1 < PageCount(Cardinality(capture), n)]
      BY <2>0, <2>4, <2>6 DEF Page
    <2>8. page \in PageRecords
      <3>1. version \in Nat /\ k + 1 \in Nat /\ Cardinality(capture) \in Nat
        BY <2>3, <2>6 DEF PagesTyped
      <3>2. (k + 1 < PageCount(Cardinality(capture), n)) \in BOOLEAN
        OBVIOUS
      <3>3. QED
        BY <2>5, <2>7, <3>1, <3>2, Zenon DEF PageRecords
    <2>9. pages \in Seq(PageRecords) /\ Len(pages) = k /\ pages' = Append(pages, page)
      BY <1>0, <2>0, <2>1 DEF PagesTyped
    <2>10. /\ pages' \in Seq(PageRecords) /\ Len(pages') = k + 1
           /\ pages'[k + 1] = page
           /\ \A i \in 1..k : pages'[i] = pages[i]
      BY <2>3, <2>8, <2>9
    <2>11. PagesTyped'
      BY <2>2, <2>10 DEF PagesTyped
    <2>12. k # 0 => pages[k].hasNext
      <3>1. SUFFICES ASSUME k # 0 PROVE pages[k].hasNext
        OBVIOUS
      <3>2. pages # <<>> /\ Last(pages) = pages[k]
        BY <2>3, <2>9, <3>1 DEF Last
      <3>3. QED
        BY <2>2, <3>2 DEF More
    <2>13. ASSUME NEW i \in 1..k
           PROVE  /\ pages'[i].version <= version'
                  /\ pages'[i].hasNext
                  /\ pages'[i].version = version' => IsPage(i)'
      <3>1. pages'[i] = pages[i] /\ i \in 1..Len(pages)
        BY <2>9, <2>10
      <3>2. pages[i].hasNext
        BY <2>3, <2>9, <2>12, <3>1 DEF PagesFollow
      <3>3. pages[i].version = version => IsPage(i)
        BY <3>1 DEF PagesFollow
      <3>4. IsPage(i) => IsPage(i)'
        BY <2>2, <3>1 DEF IsPage
      <3>5. QED
        BY <2>2, <3>1, <3>2, <3>3, <3>4 DEF PagesFollow
    <2>14. pages'[k + 1].version = version' /\ version' <= version' /\ IsPage(k + 1)'
      <3>1. version' = version /\ version \in Nat
        BY <2>2 DEF PagesTyped
      <3>2. /\ s \in Orders(capture) /\ n = PageSize(size)
            /\ pages'[k + 1].rows = Slice(s, ((k + 1) - 1) * n, (k + 1) * n)
            /\ pages'[k + 1].hasNext = (k + 1 < PageCount(Cardinality(capture), n))
            /\ pages'[k + 1].version = version
        BY <1>0, <2>4, <2>7, <2>10
      <3>3. QED
        BY <2>2, <3>1, <3>2 DEF IsPage, PagesTyped
    <2>15. PagesFollow'
      <3>1. ASSUME NEW i \in 1..(k + 1)
            PROVE  /\ pages'[i].version <= version'
                   /\ i < k + 1 => pages'[i].hasNext
                   /\ pages'[i].version = version' => IsPage(i)'
        <4>1. CASE i \in 1..k
          BY <2>13, <4>1
        <4>2. CASE i = k + 1
          BY <2>3, <2>14, <4>2
        <4>3. QED
          BY <2>3, <4>1, <4>2
      <3>2. QED
        BY <2>10, <3>1 DEF PagesFollow
    <2>16. QED
      BY <2>11, <2>15
  <1>2. CASE StartOver
    <2>1. pages' = <<>> /\ UNCHANGED <<capture, version, size>>
      BY <1>2 DEF StartOver
    <2>2. QED
      BY <2>1 DEF PagesTyped, PagesFollow
  <1>3. CASE NewCapture
    <2>1. version' = version + 1 /\ capture' \in Captures /\ UNCHANGED <<size, pages>>
      BY <1>3 DEF NewCapture
    <2>2. PagesTyped'
      BY <2>1 DEF PagesTyped
    <2>3. ASSUME NEW i \in 1..Len(pages) PROVE pages[i].version \in Nat
      <3>1. pages[i] \in PageRecords
        BY DEF PagesTyped
      <3>2. QED
        BY <3>1 DEF PageRecords
    <2>4. \A i \in 1..Len(pages) :
             pages'[i].version <= version' /\ pages'[i].version # version' /\ pages'[i].hasNext = pages[i].hasNext
      BY <2>1, <2>3 DEF PagesFollow, PagesTyped
    <2>5. PagesFollow'
      BY <2>1, <2>4 DEF PagesFollow
    <2>6. QED
      BY <2>2, <2>5
  <1>4. CASE UNCHANGED pagesVars
    BY <1>4 DEF pagesVars, PagesTyped, PagesFollow, IsPage
  <1>5. QED
    BY <1>1, <1>2, <1>3, <1>4 DEF PagesNext

\* A reader who has come to the end of one capture: what is the same for all its pages.
\* The sequence orders holds the order that each page was cut from.
ReadThrough(orders, n, total) ==
    /\ n \in Nat \ {0} /\ total \in Nat \ {0} /\ n = PageSize(size) /\ total = Cardinality(capture)
    /\ Len(pages) \in Nat \ {0}
    /\ DOMAIN pages = 1..Len(pages)
    /\ Len(pages) = PageCount(total, n)
    /\ (Len(pages) - 1) * n < total /\ total <= Len(pages) * n
    /\ \A i \in 1..Len(pages) :
          /\ orders[i] \in Orders(capture)
          /\ pages[i].rows = Slice(orders[i], (i - 1) * n, i * n)

LEMMA PagesReadThrough ==
    ASSUME PagesTyped, PagesFollow, Finished, SameCapture, pages[1].version = version
    PROVE  \E orders : ReadThrough(orders, PageSize(size), Cardinality(capture))
  <1> DEFINE n == PageSize(size)
             total == Cardinality(capture)
             L == Len(pages)
             orders == [i \in 1..L |-> CHOOSE s \in Orders(capture) :
                                          pages[i].rows = Slice(s, (i - 1) * n, i * n)]
  <1>1. n \in Nat \ {0} /\ total \in Nat \ {0}
    BY PageSizeIsPositive, CapturesAreFinite DEF PagesTyped
  <1>2. L \in Nat \ {0} /\ DOMAIN pages = 1..L
    BY DEF PagesTyped, Finished
  <1>3. \A i \in 1..L : IsPage(i)
    BY <1>2 DEF SameCapture, PagesFollow
  <1>4. /\ PageCount(total, n) \in Nat \ {0}
        /\ (PageCount(total, n) - 1) * n < total
        /\ total <= PageCount(total, n) * n
    BY <1>1, LastPageHasRows
  <1> HIDE DEF n, total, orders
  <1>5. \A i \in 1..L : pages[i].hasNext <=> i < PageCount(total, n)
    BY <1>3 DEF IsPage, n, total
  <1>6. ~pages[L].hasNext
    <2>1. pages # <<>> /\ Last(pages) = pages[L]
      BY DEF Finished, Last
    <2>2. QED
      BY <2>1 DEF Finished, More
  <1>7. L # 1 => pages[L - 1].hasNext
    <2>1. L # 1 => L - 1 \in 1..L /\ L - 1 < L
      BY <1>2
    <2>2. QED
      BY <2>1 DEF PagesFollow
  <1>8. L = PageCount(total, n)
    <2>1. L >= PageCount(total, n)
      BY <1>2, <1>4, <1>5, <1>6
    <2>2. CASE L = 1
      BY <1>4, <2>1, <2>2
    <2>3. CASE L # 1
      <3>1. L - 1 \in 1..L
        BY <1>2, <2>3
      <3>2. L - 1 < PageCount(total, n)
        BY <1>5, <1>7, <2>3, <3>1
      <3>3. QED
        BY <1>2, <1>4, <2>1, <3>2
    <2>4. QED
      BY <2>2, <2>3
  <1>9. ASSUME NEW i \in 1..L
        PROVE  orders[i] \in Orders(capture) /\ pages[i].rows = Slice(orders[i], (i - 1) * n, i * n)
    <2>1. \E s \in Orders(capture) : pages[i].rows = Slice(s, (i - 1) * n, i * n)
      BY <1>3 DEF IsPage, n
    <2>2. orders[i] = CHOOSE s \in Orders(capture) : pages[i].rows = Slice(s, (i - 1) * n, i * n)
      BY DEF orders
    <2>3. QED
      BY <2>1, <2>2
  <1>10. (L - 1) * n < total /\ total <= L * n
    BY <1>4, <1>8
  <1> HIDE DEF L
  <1>11. ReadThrough(orders, n, total)
    BY <1>1, <1>2, <1>8, <1>9, <1>10 DEF ReadThrough, L, n, total
  <1>12. QED
    BY <1>11 DEF n, total

\* The rows of a page.
LEMMA PageRows ==
    ASSUME PagesTyped, NEW orders, NEW n, NEW total, ReadThrough(orders, n, total),
           NEW i \in 1..Len(pages)
    PROVE  /\ (i - 1) * n \in Nat /\ i * n \in Nat /\ i * n = (i - 1) * n + n
           /\ (i - 1) * n < total
           /\ pages[i].rows \in Seq(capture)
           /\ DOMAIN pages[i].rows = 1..(Reach(i, total, n) - (i - 1) * n)
           /\ Len(pages[i].rows) = Reach(i, total, n) - (i - 1) * n
           /\ \A j \in 1..(Reach(i, total, n) - (i - 1) * n) :
                 pages[i].rows[j] = orders[i][(i - 1) * n + j]
  <1>1. /\ n \in Nat \ {0} /\ total \in Nat \ {0} /\ Len(pages) \in Nat \ {0}
        /\ (Len(pages) - 1) * n < total
        /\ orders[i] \in Orders(capture) /\ total = Cardinality(capture)
        /\ pages[i].rows = Slice(orders[i], (i - 1) * n, i * n)
    BY DEF ReadThrough
  <1>2. i \in Nat /\ i - 1 \in Nat /\ Len(pages) - 1 \in Nat /\ i - 1 <= Len(pages) - 1 /\ (i - 1) + 1 = i
    BY <1>1
  <1>3. (i - 1) * n \in Nat /\ i * n \in Nat /\ i * n = (i - 1) * n + n
    BY <1>1, <1>2, ProductsGrow, NextProduct
  <1>4. (i - 1) * n <= (Len(pages) - 1) * n /\ (Len(pages) - 1) * n \in Nat
    BY <1>1, <1>2, ProductsGrow
  <1>5. (i - 1) * n < total /\ (i - 1) * n <= i * n
    BY <1>1, <1>3, <1>4
  <1>6. PICK from, to : from = (i - 1) * n /\ to = i * n
    OBVIOUS
  <1>7. capture \in Captures /\ from \in Nat /\ to \in Nat /\ from <= to /\ from < Cardinality(capture)
    BY <1>1, <1>3, <1>5, <1>6 DEF PagesTyped
  <1>8. PICK s \in Orders(capture) : s = orders[i]
    BY <1>1
  <1>9. /\ Slice(s, from, to) \in Seq(capture)
        /\ DOMAIN Slice(s, from, to) = 1..(Reach(i, total, n) - from)
        /\ Len(Slice(s, from, to)) = Reach(i, total, n) - from
        /\ \A j \in 1..(Reach(i, total, n) - from) : Slice(s, from, to)[j] = s[from + j]
    <2>1. Reach(i, total, n) = IF to < Cardinality(capture) THEN to ELSE Cardinality(capture)
      BY <1>1, <1>6 DEF Reach
    <2>2. QED
      <3>1. s \in Orders(capture)
        OBVIOUS
      <3>2. /\ Slice(s, from, to) \in Seq(capture)
            /\ DOMAIN Slice(s, from, to)
                 = 1..((IF to < Cardinality(capture) THEN to ELSE Cardinality(capture)) - from)
            /\ Len(Slice(s, from, to))
                 = (IF to < Cardinality(capture) THEN to ELSE Cardinality(capture)) - from
            /\ \A j \in 1..((IF to < Cardinality(capture) THEN to ELSE Cardinality(capture)) - from) :
                  Slice(s, from, to)[j] = s[from + j]
        BY <1>7, <3>1, SliceOfOrder, Zenon
      <3>3. QED
        BY <2>1, <3>2, Zenon
  <1>10. QED
    BY <1>1, <1>3, <1>5, <1>6, <1>8, <1>9

LEMMA AsManyRowsAsThereAre ==
    ASSUME PagesTyped, NEW orders, NEW n, NEW total, ReadThrough(orders, n, total)
    PROVE  SumFunction([i \in DOMAIN pages |-> Len(pages[i].rows)]) = total
  <1> DEFINE L == Len(pages)
             f == [i \in 1..L |-> Len(pages[i].rows)]
             g == [i \in 0..L |-> Reach(i, total, n)]
  <1>1. /\ n \in Nat \ {0} /\ total \in Nat \ {0} /\ L \in Nat \ {0} /\ DOMAIN pages = 1..L
        /\ total <= L * n
    BY DEF ReadThrough
  <1>2. \A i \in 1..L : /\ (i - 1) * n \in Nat /\ i * n \in Nat /\ (i - 1) * n < total
                        /\ Len(pages[i].rows) = Reach(i, total, n) - (i - 1) * n
    BY PageRows
  <1> HIDE DEF L
  <1>3. 0 * n = 0 /\ Reach(0, total, n) = 0
    BY <1>1 DEF Reach
  <1>4. ASSUME NEW i \in 0..L PROVE Reach(i, total, n) \in Int
    <2>1. CASE i = 0
      BY <1>3, <2>1
    <2>2. CASE i \in 1..L
      BY <1>1, <1>2, <2>2 DEF Reach
    <2>3. QED
      BY <1>1, <2>1, <2>2
  <1>5. ASSUME NEW i \in 1..L PROVE Reach(i - 1, total, n) = (i - 1) * n
    BY <1>2 DEF Reach
  <1>6. \A i \in 1..L : i - 1 \in 0..L /\ i \in 0..L
    BY <1>1
  <1>7. g \in [0..L -> Int] /\ g[0] = 0
    BY <1>1, <1>3, <1>4
  <1>8. ASSUME NEW i \in 1..L PROVE f[i] = g[i] - g[i - 1] /\ f[i] \in Int
    <2>1. f[i] = Reach(i, total, n) - (i - 1) * n /\ g[i] = Reach(i, total, n)
      BY <1>2, <1>6
    <2>2. g[i - 1] = (i - 1) * n /\ g[i] \in Int /\ g[i - 1] \in Int
      BY <1>5, <1>6, <1>7
    <2>3. QED
      BY <2>1, <2>2
  <1>9. f \in [1..L -> Int]
    BY <1>8
  <1>10. Reach(L, total, n) = total
    BY <1>1, <1>2 DEF Reach
  <1>11. g[L] = total
    BY <1>1, <1>10
  <1>12. [i \in DOMAIN pages |-> Len(pages[i].rows)] = f
    BY <1>1
  <1> HIDE DEF f, g
  <1>13. SumFunction(f) = g[L]
    BY <1>1, <1>7, <1>8, <1>9, SumTelescopes
  <1>14. QED
    BY <1>11, <1>12, <1>13

LEMMA EachAloneOnce ==
    ASSUME PagesTyped, NEW orders, NEW n, NEW total, ReadThrough(orders, n, total),
           NEW r \in capture, Alone(r, capture)
    PROVE  Times(r) = 1
  <1> DEFINE L == Len(pages)
             k == Cardinality({q \in capture : q.key < r.key}) + 1
             i0 == ((k - 1) \div n) + 1
             j0 == k - (i0 - 1) * n
             places == {p \in Given : pages[p[1]].rows[p[2]] = r}
  <1>1. /\ n \in Nat \ {0} /\ total \in Nat \ {0} /\ L \in Nat \ {0} /\ DOMAIN pages = 1..L
        /\ total = Cardinality(capture) /\ total <= L * n /\ capture \in Captures
        /\ \A i \in 1..L : orders[i] \in Orders(capture)
    BY DEF ReadThrough, PagesTyped
  <1>2. ASSUME NEW i \in 1..L
        PROVE
           /\ (i - 1) * n \in Nat /\ i * n \in Nat /\ i * n = (i - 1) * n + n
           /\ DOMAIN pages[i].rows = 1..(Reach(i, total, n) - (i - 1) * n)
           /\ \A j \in 1..(Reach(i, total, n) - (i - 1) * n) :
                 pages[i].rows[j] = orders[i][(i - 1) * n + j]
    BY PageRows
  <1> HIDE DEF L, k
  <1>3. ASSUME NEW i \in 1..L, NEW m \in 1..total
        PROVE  orders[i][m] = r <=> m = k
    <2>1. PICK s \in Orders(capture) : s = orders[i]
      BY <1>1
    <2>2. \A h \in 1..total : s[h] = r => h = k
      BY <1>1, AloneHasOnePlace DEF k
    <2>3. \E h \in 1..total : s[h] = r
      BY <1>1, OrdersHoldAll
    <2>4. QED
      BY <2>1, <2>2, <2>3
  <1>4. k \in 1..total
    <2>1. 1 \in 1..L
      BY <1>1
    <2>2. PICK s \in Orders(capture) : s = orders[1]
      BY <1>1, <2>1
    <2>3. \E h \in 1..total : s[h] = r
      BY <1>1, OrdersHoldAll
    <2>4. QED
      BY <1>3, <2>1, <2>2, <2>3
  <1>5. /\ i0 \in Nat /\ i0 - 1 \in Nat /\ (i0 - 1) * n \in Nat
        /\ (i0 - 1) * n <= k - 1 /\ k - 1 < (i0 - 1) * n + n
    <2>1. k - 1 \in Nat
      BY <1>1, <1>4
    <2>2. PICK q : q = (k - 1) \div n
      OBVIOUS
    <2>3. q \in Nat /\ q * n <= k - 1 /\ k - 1 < q * n + n
      BY <1>1, <2>1, <2>2, QuotientRounds
    <2>4. i0 \in Nat /\ i0 - 1 = q
      BY <2>2, <2>3
    <2>5. q * n \in Nat
      BY <1>1, <2>3, ProductsGrow
    <2>6. QED
      BY <2>3, <2>4, <2>5
  <1> HIDE DEF i0
  <1>6. i0 \in 1..L
    <2>1. i0 - 1 >= L => L * n <= (i0 - 1) * n
      BY <1>1, <1>5, ProductsGrow
    <2>2. ~(i0 - 1 >= L)
      BY <1>1, <1>4, <1>5, <2>1
    <2>3. QED
      BY <1>1, <1>5, <2>2
  <1>7. j0 \in 1..(Reach(i0, total, n) - (i0 - 1) * n) /\ (i0 - 1) * n + j0 = k
    <2>1. i0 * n = (i0 - 1) * n + n /\ i0 * n \in Nat
      BY <1>2, <1>6
    <2>2. j0 \in Nat /\ j0 >= 1
      BY <1>1, <1>4, <1>5
    <2>3. k <= Reach(i0, total, n) /\ Reach(i0, total, n) \in Nat
      BY <1>1, <1>4, <1>5, <2>1 DEF Reach
    <2>4. QED
      BY <1>1, <1>4, <1>5, <2>2, <2>3
  <1> HIDE DEF j0
  <1>8. <<i0, j0>> \in places
    <2>1. j0 \in DOMAIN pages[i0].rows /\ pages[i0].rows[j0] = r
      BY <1>2, <1>3, <1>4, <1>6, <1>7
    <2>2. <<i0, j0>> \in Given
      BY <1>1, <1>6, <2>1 DEF Given
    <2>3. QED
      BY <2>1, <2>2
  <1>9. ASSUME NEW p \in places PROVE p = <<i0, j0>>
    <2>0. PICK i \in 1..L : \E j \in DOMAIN pages[i].rows : p = <<i, j>>
      BY <1>1 DEF Given
    <2>1. PICK j \in DOMAIN pages[i].rows : p = <<i, j>>
      BY <2>0
    <2>2. pages[i].rows[j] = r
      BY <2>1
    <2>3. j \in 1..(Reach(i, total, n) - (i - 1) * n) /\ orders[i][(i - 1) * n + j] = r
      BY <1>2, <2>1, <2>2
    <2>4. (i - 1) * n \in Nat /\ i * n \in Nat /\ i * n = (i - 1) * n + n
      BY <1>2, <2>1
    <2>5. Reach(i, total, n) <= total /\ Reach(i, total, n) <= i * n /\ Reach(i, total, n) \in Nat
      BY <1>1, <2>4 DEF Reach
    <2>6. (i - 1) * n + j \in 1..total
      BY <1>1, <2>3, <2>4, <2>5
    <2>7. (i - 1) * n + j = k
      BY <1>3, <2>3, <2>6
    <2>8. (i - 1) * n <= k - 1 /\ k - 1 < (i - 1) * n + n /\ k - 1 \in Nat
      <3> DEFINE before == (i - 1) * n
                 reach == Reach(i, total, n)
      <3>1. before \in Nat /\ j \in 1..(reach - before) /\ reach \in Nat /\ reach <= before + n
            /\ before + j = k
        BY <2>3, <2>4, <2>5, <2>7
      <3>2. n \in Nat
        BY <1>1
      <3> HIDE DEF before, reach
      <3>3. before <= k - 1 /\ k - 1 < before + n /\ k - 1 \in Nat
        BY <3>1, <3>2
      <3>4. QED
        BY <3>3 DEF before
    <2>9. i - 1 \in Nat
      BY <1>1, <2>1
    <2>10. i - 1 = i0 - 1
      BY <1>1, <1>5, <2>8, <2>9, SameQuotient
    <2>11. i = i0
      BY <1>1, <1>6, <2>1, <2>10
    <2>12. j = j0
      BY <1>4, <1>7, <2>3, <2>4, <2>7, <2>11 DEF j0
    <2>13. QED
      BY <2>1, <2>11, <2>12
  <1>10. places = {<<i0, j0>>}
    BY <1>8, <1>9
  <1> HIDE DEF places
  <1>11. Cardinality(places) = 1
    BY <1>10, FS_Singleton
  <1>12. QED
    BY <1>11 DEF Times, places

LEMMA ScorePagesHaveRows ==
    ASSUME PagesTyped, NEW s \in Orders(capture), NEW number \in Nat \ {0}
    PROVE  ScorePage(s, number, PageSize(size)).rows # <<>>
  <1> DEFINE n == PageSize(size)
             total == Cardinality(capture)
             count == PageCount(total, n)
             page == IF number > count THEN count ELSE number
  <1>1. n \in Nat \ {0} /\ total \in Nat \ {0} /\ Len(s) = total /\ capture \in Captures
    BY PageSizeIsPositive, CapturesAreFinite, OrdersHoldAll DEF PagesTyped
  <1> HIDE DEF n, total
  <1>2. count \in Nat \ {0} /\ (count - 1) * n < total
    BY <1>1, LastPageHasRows
  <1> HIDE DEF count
  <1>3. (IF count > 1 THEN count ELSE 1) = count
    BY <1>2
  <1>4. ScorePage(s, number, n).rows = Slice(s, (page - 1) * n, page * n)
    BY <1>1, <1>3 DEF ScorePage, count
  <1>5. page - 1 \in Nat /\ page - 1 <= count - 1 /\ count - 1 \in Nat /\ (page - 1) + 1 = page /\ page \in Nat
    BY <1>2
  <1> HIDE DEF page
  <1>6. /\ (page - 1) * n \in Nat /\ page * n = (page - 1) * n + n
        /\ (page - 1) * n <= (count - 1) * n /\ (count - 1) * n \in Nat
    BY <1>1, <1>5, ProductsGrow, NextProduct
  <1>7. PICK from, to : from = (page - 1) * n /\ to = page * n
    OBVIOUS
  <1>8. from \in Nat /\ to \in Nat /\ from <= to /\ from < to /\ from < total
    BY <1>1, <1>2, <1>6, <1>7
  <1>9. Len(Slice(s, from, to)) = (IF to < total THEN to ELSE total) - from
    BY <1>1, <1>8, SliceOfOrder DEF total
  <1>10. Len(Slice(s, from, to)) > 0
    BY <1>1, <1>8, <1>9
  <1>11. Slice(s, from, to) # <<>>
    BY <1>10
  <1>12. QED
    BY <1>4, <1>7, <1>11 DEF n

\* Pages that follow each other to the end of one capture hold as many rows as the total
\* says and each row that is alone with its key once (getCapacityRowsPaginated), and a
\* page of scores has rows (getCapacityScoreSummaryPaginated).
THEOREM PagesNeverSkip == PagesSpec => []PagesMeet
  <1>1. PagesTyped /\ PagesFollow => PagesMeet
    <2> SUFFICES ASSUME PagesTyped, PagesFollow, Finished, SameCapture, pages[1].version = version
                 PROVE  /\ SumFunction([i \in DOMAIN pages |-> Len(pages[i].rows)]) = Cardinality(capture)
                        /\ \A r \in capture : Alone(r, capture) => Times(r) = 1
                        /\ RowsRead \subseteq capture
                        /\ \A s \in Orders(capture), number \in 1..Cardinality(Rows) + 1 :
                              ScorePage(s, number, PageSize(size)).rows # <<>>
      BY DEF PagesMeet
    <2>1. PICK orders : ReadThrough(orders, PageSize(size), Cardinality(capture))
      BY PagesReadThrough
    <2>2. SumFunction([i \in DOMAIN pages |-> Len(pages[i].rows)]) = Cardinality(capture)
      BY <2>1, AsManyRowsAsThereAre
    <2>3. \A r \in capture : Alone(r, capture) => Times(r) = 1
      BY <2>1, EachAloneOnce
    <2>4. RowsRead \subseteq capture
      <3>1. ASSUME NEW i \in DOMAIN pages PROVE ToSet(pages[i].rows) \subseteq capture
        <4>1. i \in 1..Len(pages)
          BY <2>1 DEF ReadThrough
        <4>2. pages[i].rows \in Seq(capture)
          BY <2>1, <4>1, PageRows
        <4>3. QED
          BY <4>2 DEF ToSet
      <3>2. QED
        BY <3>1 DEF RowsRead
    <2>5. \A s \in Orders(capture), number \in 1..Cardinality(Rows) + 1 :
             ScorePage(s, number, PageSize(size)).rows # <<>>
      <3>1. \A number \in 1..Cardinality(Rows) + 1 : number \in Nat \ {0}
        OBVIOUS
      <3>2. QED
        BY <3>1, ScorePagesHaveRows
    <2>6. QED
      BY <2>2, <2>3, <2>4, <2>5
  <1>2. QED
    BY <1>1, PagesStart, PagesGoOn, PTL DEF PagesSpec
=============================================================================
