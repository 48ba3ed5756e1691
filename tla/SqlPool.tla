------------------------------ MODULE SqlPool ------------------------------
(***************************************************************************)
(* getSqlPool and resetSqlPool: every request of the process asks for the  *)
(* one cached connection pool, which is health-checked before each use.    *)
(* The requests interleave at each await, and cachedPool is read again     *)
(* after them.                                                             *)
(*                                                                         *)
(* The driver's pool (the mssql package) is external: sql.connect hands    *)
(* out one global pool, opened anew once it was closed, and close() makes  *)
(* it forget that pool.                                                    *)
(***************************************************************************)
EXTENDS Naturals, FiniteSets

CONSTANTS
    Requests,       \* the requests that need the database
    RetryLimit,     \* SQL_POOL_RETRY_LIMIT
    MaxPools,       \* bound: pools opened in a run
    MaxOutages      \* bound: connections that break

Pools == 1..MaxPools
None == 0

VARIABLES
    cachedPool,     \* the cached pool, or None
    global,         \* the driver's global pool, or None
    open,           \* the pools with open connections
    healthy,        \* the pools whose connections work
    created,        \* how many pools there were
    outages,        \* how many pools broke
    ask             \* [Requests -> the state of the request's getSqlPool]

poolVars == <<cachedPool, global, open, healthy, created, outages, ask>>

IdleAsk == [at |-> "idle", pool |-> None, retry |-> 0]

PoolInit ==
    /\ cachedPool = None
    /\ global = None
    /\ open = {}
    /\ healthy = {}
    /\ created = 0
    /\ outages = 0
    /\ ask = [r \in Requests |-> IdleAsk]

Goto(r, at, pool) == ask' = [ask EXCEPT ![r].at = at, ![r].pool = pool]

(* Entry: the cached pool is health-checked, or a connection is asked for. *)
GetSqlPool(r) ==
    /\ ask[r].at \in {"idle", "again"}
    /\ IF cachedPool # None THEN Goto(r, "checking", cachedPool)
                            ELSE Goto(r, "connecting", None)
    /\ UNCHANGED <<cachedPool, global, open, healthy, created, outages>>

(* SELECT 1 works: what is returned is cachedPool as it is now.            *)
CheckWorks(r) ==
    /\ ask[r].at = "checking"
    /\ ask[r].pool \in healthy
    /\ Goto(r, "returned", cachedPool)
    /\ UNCHANGED <<cachedPool, global, open, healthy, created, outages>>

(* SELECT 1 fails: resetSqlPool forgets whatever is cached now and closes  *)
(* it; with nothing cached there is nothing to close.                      *)
CheckFails(r) ==
    /\ ask[r].at = "checking"
    /\ ask[r].pool \notin healthy
    /\ IF cachedPool = None
       THEN Goto(r, "connecting", None)
       ELSE Goto(r, "closing", cachedPool)
    /\ cachedPool' = None
    /\ global' = IF cachedPool = None THEN global ELSE None
    /\ open' = open \ {cachedPool}
    /\ healthy' = healthy \ {cachedPool}
    /\ UNCHANGED <<created, outages>>

(* close() has waited for the connections to drain.                        *)
Closed(r) ==
    /\ ask[r].at = "closing"
    /\ Goto(r, "connecting", None)
    /\ UNCHANGED <<cachedPool, global, open, healthy, created, outages>>

(* createSqlPoolWithAccessToken's way of connecting, for every request.    *)
ConnectsAnew(r) ==
    /\ ask[r].at = "connecting"
    /\ created < MaxPools
    /\ created' = created + 1
    /\ global' = created + 1
    /\ cachedPool' = created + 1
    /\ open' = open \cup {created + 1}
    /\ healthy' = healthy \cup {created + 1}
    /\ Goto(r, "probing", created + 1)
    /\ UNCHANGED outages

(* sql.connect: the global pool, or a new one that becomes the global one. *)
Connects(r) ==
    /\ ask[r].at = "connecting"
    /\ IF global # None
       THEN /\ cachedPool' = global
            /\ open' = open \cup {global}
            /\ Goto(r, "probing", global)
            /\ UNCHANGED <<global, healthy, created>>
       ELSE /\ created < MaxPools
            /\ created' = created + 1
            /\ global' = created + 1
            /\ cachedPool' = created + 1
            /\ open' = open \cup {created + 1}
            /\ healthy' = healthy \cup {created + 1}
            /\ Goto(r, "probing", created + 1)
    /\ UNCHANGED outages

ProbeWorks(r) ==
    /\ ask[r].at = "probing"
    /\ ask[r].pool \in healthy
    /\ Goto(r, "returned", cachedPool)
    /\ UNCHANGED <<cachedPool, global, open, healthy, created, outages>>

(* The connection or its first query fails: once more, then an error.      *)
ConnectFails(r) ==
    /\ \/ ask[r].at = "probing" /\ ask[r].pool \notin healthy
       \/ ask[r].at = "connecting"
    /\ cachedPool' = None
    /\ ask' = [ask EXCEPT ![r] =
                 IF @.retry < RetryLimit
                 THEN [at |-> "again", pool |-> None, retry |-> @.retry + 1]
                 ELSE [@ EXCEPT !.at = "threw"]]
    /\ UNCHANGED <<global, open, healthy, created, outages>>

(* The request has used the pool, or reported the error.                   *)
Done(r) ==
    /\ ask[r].at \in {"returned", "threw"}
    /\ ask' = [ask EXCEPT ![r] = IdleAsk]
    /\ UNCHANGED <<cachedPool, global, open, healthy, created, outages>>

(* The server drops the connections of a pool, or they work again.         *)
Outage ==
    /\ outages < MaxOutages
    /\ \E p \in open \cap healthy : healthy' = healthy \ {p}
    /\ outages' = outages + 1
    /\ UNCHANGED <<cachedPool, global, open, created, ask>>

Recovery ==
    /\ \E p \in open \ healthy : healthy' = healthy \cup {p}
    /\ UNCHANGED <<cachedPool, global, open, created, outages, ask>>

Await(r) ==
    \/ CheckWorks(r) \/ CheckFails(r) \/ Closed(r)
    \/ Connects(r) \/ ProbeWorks(r) \/ ConnectFails(r)

PoolNext ==
    \/ \E r \in Requests : GetSqlPool(r) \/ Await(r) \/ Done(r)
    \/ Outage
    \/ Recovery

PoolSpec == PoolInit /\ [][PoolNext]_poolVars

----------------------------------------------------------------------------
(* However many requests find the pool broken at once, and however late    *)
(* one of them closes what another has just opened, no pool is left open   *)
(* that the next request would not be given: connections are not leaked.   *)
OnlyTheGlobalPoolIsOpen == open \subseteq {global}

(* What is cached is the driver's pool.                                    *)
CachedIsGlobal == cachedPool \in {None, global}
=============================================================================
