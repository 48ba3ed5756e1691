------------------------- MODULE DatabaseBootstrap -------------------------
(***************************************************************************)
(* Provisioning of the database: POST /internal/db/bootstrap, its variant  *)
(* under an administrator's token, /internal/db/migrate, the DACPAC of the *)
(* deployment pipeline, and the check of ensurePhase3SchemaForPool.        *)
(*                                                                         *)
(* A script file is a sequence of batches, each its own statement: no      *)
(* transaction spans two batches, nor a migration and its history row, so  *)
(* a request can die, and another request can run, between any two steps.  *)
(***************************************************************************)
EXTENDS Naturals, Sequences, FiniteSets

CONSTANTS
    Callers,        \* the requests that provision the database
    Migrations,     \* the migration files, in the order of their names
    Script,         \* [files -> sequences of batches]; "schema.sql" is a file
    Required,       \* requiredTables of ensurePhase3SchemaForPool
    DacpacTables,   \* the tables the DACPAC deploys
    Roles           \* the roles /internal/db/bootstrap-admin grants

Schema == "schema.sql"
History == "SchemaMigrationHistory"
Capacity == "CapacitySnapshot"
Files == {Migrations[i] : i \in DOMAIN Migrations}

(* No two migrations have one name, no script is empty, and the first      *)
(* batch of schema.sql creates dbo.CapacitySnapshot.                       *)
ASSUME ScriptsOK ==
    /\ Migrations \in Seq(Files) /\ Schema \notin Files
    /\ \A i, j \in DOMAIN Migrations : Migrations[i] = Migrations[j] => i = j
    /\ \A f \in Files \cup {Schema} : Len(Script[f]) \in Nat \ {0}
    /\ Capacity \in Script[Schema][1].make

(* Batch k of the n-th migration writes the view, and none after it brings *)
(* back an older one.                                                      *)
Newest(n, k) ==
    /\ k \in 1..Len(Script[Migrations[n]])
    /\ Script[Migrations[n]][k].view = "new"
    /\ \A i \in DOMAIN Migrations : \A j \in 1..Len(Script[Migrations[i]]) :
          i > n \/ (i = n /\ j > k) => Script[Migrations[i]][j].view \in {"same", "new"}

ASSUME ViewOK ==
    \E n \in DOMAIN Migrations : \E k \in 1..Len(Script[Migrations[n]]) : Newest(n, k)

VARIABLES
    tables,     \* the tables that exist
    view,       \* the definition of dbo.CapacityLatest: "none", "old" or "new"
    history,    \* the names in dbo.SchemaMigrationHistory
    granted,    \* the roles the application's identity has
    executed,   \* history variable: the migrations that ran to their end
    serial,     \* history variable: no two requests overlapped, none replayed
    call        \* [Callers -> the state of the request]

bootstrapVars == <<tables, view, history, granted, executed, serial, call>>

(* A batch creates tables and may replace the view; a fresh one is a plain *)
(* CREATE TABLE, which fails when the table exists.                        *)
Batch(make, fresh, shape) == [make |-> make, fresh |-> fresh, view |-> shape]

IdleCall == [at |-> "idle", kind |-> "app", file |-> Schema, batch |-> 1,
             found |-> FALSE, seen |-> {}, ensured |-> FALSE]

Idle(c) == call[c].at \in {"idle", "ok", "failed"}

Init ==
    /\ \/ tables = {} /\ view = "none"
       \/ tables = {Capacity} /\ view = "old"
    /\ history = {}
    /\ granted = {}
    /\ executed = {}
    /\ serial = TRUE
    /\ call = [c \in Callers |-> IdleCall]

Pending(seen) == {i \in DOMAIN Migrations : Migrations[i] \notin seen}

(* Files taken in the order the directory lists them, not by name.         *)
LastPending(seen) ==
    CHOOSE i \in Pending(seen) : \A j \in Pending(seen) : i >= j

FirstPending(seen) ==
    CHOOSE i \in Pending(seen) : \A j \in Pending(seen) : i <= j

(* The loop over migrationFiles: the next file not in appliedMigrations,   *)
(* or the phase-3 check when none is left.                                 *)
NextFile(r, seen) ==
    IF Pending(seen) = {}
    THEN [r EXCEPT !.at = "check", !.seen = seen]
    ELSE [r EXCEPT !.at = "script", !.seen = seen, !.batch = 1,
                   !.file = Migrations[FirstPending(seen)]]

(* A request begins by looking for dbo.CapacitySnapshot: when it is there, *)
(* schema.sql is not run.                                                  *)
Begin(c, kind) ==
    /\ Idle(c)
    /\ call' = [call EXCEPT ![c] =
                  IF Capacity \in tables
                  THEN [IdleCall EXCEPT !.kind = kind, !.found = TRUE, !.at = "history"]
                  ELSE [IdleCall EXCEPT !.kind = kind, !.at = "script"]]
    /\ serial' = (serial /\ \A d \in Callers : Idle(d))
    /\ UNCHANGED <<tables, view, history, granted, executed>>

(* runNamedDatabaseMigration: one file, by its name, whatever the history. *)
Replay(c, f) ==
    /\ Idle(c)
    /\ call' = [call EXCEPT ![c] =
                  [IdleCall EXCEPT !.kind = "named", !.at = "script", !.file = f]]
    /\ serial' = FALSE
    /\ UNCHANGED <<tables, view, history, granted, executed>>

CanRun(b) == ~(b.fresh /\ b.make \cap tables # {})

AfterScript(r) ==
    CASE r.file = Schema    -> [r EXCEPT !.at = "createHistory"]
      [] r.kind = "named"   -> [r EXCEPT !.at = "check"]
      [] OTHER              -> [r EXCEPT !.at = "record"]

(* executeSqlScriptFile runs the batches one by one.                       *)
RunBatch(c) ==
    LET r == call[c]
        b == Script[r.file][r.batch]
        last == r.batch = Len(Script[r.file])
    IN /\ r.at = "script"
       /\ CanRun(b)
       /\ tables' = tables \cup b.make
       /\ view' = IF b.view = "same" THEN view ELSE b.view
       /\ executed' = IF last /\ r.file # Schema THEN executed \cup {r.file}
                      ELSE executed
       /\ call' = [call EXCEPT ![c] =
                     IF last THEN AfterScript(r) ELSE [r EXCEPT !.batch = @ + 1]]
       /\ UNCHANGED <<history, granted, serial>>

(* ensureSchemaMigrationHistoryTable, only after schema.sql.               *)
CreateHistory(c) ==
    /\ call[c].at = "createHistory"
    /\ tables' = tables \cup {History}
    /\ call' = [call EXCEPT ![c].at = "history"]
    /\ UNCHANGED <<view, history, granted, executed, serial>>

(* getAppliedSchemaMigrations.  Without the table, a database that was     *)
(* there before is taken for an older one and gets no migration.           *)
ReadHistory(c) ==
    LET r == call[c]
    IN /\ r.at = "history"
       /\ call' = [call EXCEPT ![c] =
                     IF History \in tables THEN NextFile(r, history)
                     ELSE [r EXCEPT !.at = "check"]]
       /\ UNCHANGED <<tables, view, history, granted, executed, serial>>

(* The SELECT on the history is denied: null, as if there were no table.   *)
ReadDenied(c) ==
    LET r == call[c]
    IN /\ r.at = "history"
       /\ History \in tables
       /\ call' = [call EXCEPT ![c] =
                     IF r.found THEN [r EXCEPT !.at = "check"] ELSE NextFile(r, {})]
       /\ UNCHANGED <<tables, view, history, granted, executed, serial>>

(* recordAppliedSchemaMigration, a statement after the migration's own.    *)
Record(c) ==
    LET r == call[c]
    IN /\ r.at = "record"
       /\ history' = history \cup {r.file}
       /\ call' = [call EXCEPT ![c] = NextFile(r, r.seen \cup {r.file})]
       /\ UNCHANGED <<tables, view, granted, executed, serial>>

AfterCheck(r) == IF r.kind = "admin" THEN "grant" ELSE "ok"

(* The check trusts the migrations instead of looking at the tables.       *)
TrustsMigrations(c) ==
    /\ call[c].at = "check"
    /\ call' = [call EXCEPT ![c].at = AfterCheck(call[c]), ![c].ensured = TRUE]
    /\ UNCHANGED <<tables, view, history, granted, executed, serial>>

(* ensurePhase3SchemaForPool creates nothing: it reports what is missing.  *)
Check(c) ==
    /\ call[c].at = "check"
    /\ Required \subseteq tables
    /\ call' = [call EXCEPT ![c].at = AfterCheck(call[c]), ![c].ensured = TRUE]
    /\ UNCHANGED <<tables, view, history, granted, executed, serial>>

(* A permission is missing: forgiven when the application's own identity   *)
(* bootstraps a database that was there before; phase3Ensured is false.    *)
CheckDenied(c) ==
    /\ call[c].at = "check"
    /\ call[c].kind = "app" /\ call[c].found
    /\ call' = [call EXCEPT ![c].at = "ok"]
    /\ UNCHANGED <<tables, view, history, granted, executed, serial>>

(* ensureDatabasePrincipalAccess, one ALTER ROLE for each role.            *)
Grant(c) ==
    /\ call[c].at = "grant"
    /\ \E role \in Roles \ granted : granted' = granted \cup {role}
    /\ UNCHANGED <<tables, view, history, executed, serial, call>>

Granted(c) ==
    /\ call[c].at = "grant"
    /\ Roles \subseteq granted
    /\ call' = [call EXCEPT ![c].at = "ok"]
    /\ UNCHANGED <<tables, view, history, granted, executed, serial>>

(* A statement throws (a table that is there already, a missing one in the *)
(* check, a permission, a lost connection), or the process dies.           *)
Fail(c) ==
    /\ ~Idle(c)
    /\ call' = [call EXCEPT ![c].at = "failed"]
    /\ UNCHANGED <<tables, view, history, granted, executed, serial>>

(* The pipeline publishes the DACPAC: tables and the view, no history.     *)
PublishDacpac ==
    /\ tables' = tables \cup DacpacTables
    /\ view' = "new"
    /\ UNCHANGED <<history, granted, executed, serial, call>>

Step(c) ==
    \/ \E kind \in {"app", "admin"} : Begin(c, kind)
    \/ \E f \in Files : Replay(c, f)
    \/ RunBatch(c)
    \/ CreateHistory(c)
    \/ ReadHistory(c)
    \/ ReadDenied(c)
    \/ Record(c)
    \/ Check(c)
    \/ CheckDenied(c)
    \/ Grant(c)
    \/ Granted(c)
    \/ Fail(c)

Next == (\E c \in Callers : Step(c)) \/ PublishDacpac

BootstrapSpec == Init /\ [][Next]_bootstrapVars

----------------------------------------------------------------------------
(* What the history says is so: each recorded migration ran to its end, no *)
(* earlier file is missing, and requests only skip what is recorded.  A    *)
(* crash between the two statements, or another bootstrap in the middle,   *)
(* repeats a migration and never loses one.  Two migrations write the view *)
(* of the latest capacity, the older one without the columns of the newer: *)
(* as long as bootstraps do not overlap and no migration is replayed by    *)
(* name, a complete history leaves the newer view in place.                *)
HistoryIsTrue ==
    /\ history \subseteq executed
    /\ \A i, j \in DOMAIN Migrations :
          i <= j /\ Migrations[j] \in history => Migrations[i] \in history
    /\ serial /\ Files \subseteq history => view = "new"

(* A bootstrap or a migration that answers ok, with phase3Ensured, leaves  *)
(* every table the dashboard needs, and the roles granted: the phase-3     *)
(* check is what catches a database whose schema.sql died half-way and     *)
(* which every later bootstrap takes for an older one, so that its         *)
(* migrations are skipped.                                                 *)
OkMeansProvisioned ==
    \A c \in Callers : call[c].at = "ok" =>
        /\ call[c].ensured => Required \subseteq tables
        /\ call[c].kind = "admin" => Roles \subseteq granted
=============================================================================
