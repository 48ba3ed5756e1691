---------------------------- MODULE ReportTables ----------------------------
(***************************************************************************)
(* The reports and the matrices over every capture that ingestion could    *)
(* have stored.  A step lets the usage, the limit or the SKU that stands   *)
(* for the family of one row change, as between two captures, or adds a    *)
(* row; a report reads one capture and keeps nothing.                      *)
(***************************************************************************)
EXTENDS Matrices

CONSTANTS
    RowKeys,     \* [region, sub, family], the rows a capture may have
    RowValues    \* [sku, current, limit], what Azure may answer for a row

\* Captures are finite.
ReportTablesOK ==
    /\ IsFiniteSet(RowKeys)
    /\ \A v \in RowValues : v.current \in Int /\ v.limit \in Int
ASSUME ReportTablesAssumption == ReportTablesOK

VARIABLE captured   \* key -> row, for the keys that have one

\* What pickRepresentativeSku finds when the family has no SKU in the region; the row is
\* then named `${familyName}-aggregate`.
Aggregate == "aggregate"

\* A SKU, and an aggregate too, is of one family.
RowAt(k, v) == [region |-> k.region, sub |-> k.sub, family |-> k.family,
                sku |-> [family |-> k.family, name |-> v.sku],
                hasSku |-> v.sku # Aggregate, current |-> v.current, limit |-> v.limit]

\* Nothing is captured before the first ingestion.
ReportsInit == captured = [k \in {} |-> k]

\* What Azure answers for one row to the next ingestion.  A region whose requests failed
\* has no rows in a capture.
RowChanges ==
    \E k \in RowKeys, v \in RowValues :
        captured' = [l \in DOMAIN captured \cup {k} |->
                        IF l = k THEN RowAt(k, v) ELSE captured[l]]

ReportsSpec == ReportsInit /\ [][RowChanges]_captured

Capture == {captured[k] : k \in DOMAIN captured}
FamiliesShown == {r.family : r \in Capture}
RegionsShown == MatrixRegions(Capture)

(***************************************************************************)
(* Scores.                                                                 *)
(***************************************************************************)

ScoreOf(r) == Score(Capture, r.region, r.sku)

\* The sentences of getCapacityScoreReason are true of the rows they are about:
\* High: "All in-scope snapshot rows are OK with positive available quota."
\* Medium: "at least one constrained row exists, but some capacity or quota remains"
\* or "at least one row is limited or quota headroom is narrow".
\* Low: "No positive quota headroom remains and constrained rows dominate".
ReasonsAreTrue ==
    \A x \in Capture :
        LET mine == RowsOf(Capture, x.region, x.sku)
            blocked == {r \in mine : IsBlocked(r)}
        IN  CASE ScoreOf(x) = "High" -> \A r \in mine : Availability(r) = "OK" /\ Free(r) > 0
              [] ScoreOf(x) = "Medium" ->
                   IF blocked # {} THEN \E r \in mine : Free(r) > 0
                   ELSE With(mine, "LIMITED") # {}
              [] ScoreOf(x) = "Low" ->
                   /\ \A r \in mine : Free(r) <= 0
                   /\ 2 * Cardinality(blocked) > Cardinality(mine)

\* More quota or less usage for a row that keeps its SKU never lowers the score of that
\* SKU: no combination of subscriptions makes good news look bad.  (A SKU that becomes
\* available is another matter: it takes the row of its family along, out of the group of
\* the aggregate and into its own.)
Improves(old, new) ==
    /\ new # old
    /\ new.sku = old.sku
    /\ new.limit >= old.limit
    /\ new.current <= old.current

BetterNeverScoresLower ==
    [][\A k \in DOMAIN captured : Improves(captured[k], captured'[k]) =>
          Rank(ScoreOf(captured[k])') >= Rank(ScoreOf(captured[k]))]_captured

(***************************************************************************)
(* The tables of the server.                                               *)
(***************************************************************************)

\* A family is OK exactly when the score of each of its SKUs is High everywhere, and
\* none of its SKUs that the summary counts as OK has a Low score everywhere; every row
\* is deployable or constrained in the health of its region; and the headroom of the
\* regions, of the subscriptions and of the trend is the same.
FamiliesFollowScores ==
    \A f \in FamiliesShown :
        LET mine == {r \in Capture : r.family = f}
        IN  /\ FamilyStatus(Capture, f) = "OK" <=> \A r \in mine : ScoreOf(r) = "High"
            /\ OkSkus(Capture, f)
                 <= Cardinality({r.sku : r \in {x \in mine : ScoreOf(x) # "Low"}})

RegionsAddUp ==
    \A g \in RegionsShown :
        LET health == RegionHealth(Capture, g)
        IN  health.deployable + health.constrained = health.total

HeadroomAgrees ==
    LET all == TrendEntry(Capture).available
    IN  /\ SumFunction([g \in RegionsShown |-> RegionHealth(Capture, g).headroom]) = all
        /\ SumFunction([s \in {r.sub : r \in Capture} |->
                          SubscriptionEntry(Capture, s).available]) = all

ServerReportsAgree == FamiliesFollowScores /\ RegionsAddUp /\ HeadroomAgrees

(***************************************************************************)
(* The matrices of capacity.                                               *)
(***************************************************************************)

\* A cell is ready, limited or blocked in the matrices of both pages or in neither, and
\* the classic page and the server count the same families as available.
CellsAgree(f, g) ==
    LET there == Cell(Capture, f, g)
        here == ClassicCell(Capture, f, g)
    IN  /\ here = "OK" <=> there \in Ready
        /\ here = "LIMITED" <=> there = "LIMITED"
        /\ here \in {"CONSTRAINED", "RESTRICTED"} <=> there = "CONSTRAINED"

\* The React page narrows the matrix of the server without changing it.
PagesAgree(f) ==
    LET server == ServerRow(Capture, f)
    IN  /\ ClassicRow(Capture, f, RegionsShown) = "OK" <=> server.ready > 0
        /\ ReactRow(Capture, f, RegionsShown) = server
        /\ server.ready = Cardinality({g \in RegionsShown : ReactRow(Capture, f, {g}).ready = 1})
        /\ server.status = "OK" => ClassicFamily(Capture, f).ok > 0

\* The classic page derives the family summary and the region health of the server anew.
ClassicDerivesTheSame ==
    /\ \A f \in FamiliesShown :
          /\ ClassicFamily(Capture, f).status = FamilyStatus(Capture, f)
          /\ ClassicFamily(Capture, f).ok = OkSkus(Capture, f)
    /\ \A g \in RegionsShown : ClassicHealth(Capture, g) = RegionHealth(Capture, g)

MatricesAgree ==
    /\ \A f \in FamiliesShown : PagesAgree(f) /\ \A g \in RegionsShown : CellsAgree(f, g)
    /\ ClassicDerivesTheSame

(***************************************************************************)
(* The matrices of PaaS.                                                   *)
(***************************************************************************)

\* The rows of a PaaS scan: the statuses of the rows, with their subscriptions or their
\* families in the place of services.
PaaSRows(key) ==
    {[region |-> r.region, service |-> r[key],
      status |-> IF Availability(r) = "RESTRICTED" THEN "BLOCKED" ELSE Availability(r)] :
     r \in Capture}

\* The matrix and its transposition count the same cells as ready, what is OK in a region
\* is a service that is OK, and everything is blocked in both or in neither.
TransposedAgrees(rows) ==
    LET ofRegions == [g \in MatrixRegions(rows) |-> RegionRow(rows, g)]
        ofServices == [s \in PaaSServices(rows) |-> ServiceRow(rows, s)]
    IN  /\ SumFunction([g \in MatrixRegions(rows) |-> ofRegions[g].ready])
             = SumFunction([s \in PaaSServices(rows) |-> ofServices[s].ready])
        /\ (\E g \in MatrixRegions(rows) : ofRegions[g].status = "OK")
             => \E s \in PaaSServices(rows) : ofServices[s].status = "OK"
        /\ (\A g \in MatrixRegions(rows) : ofRegions[g].status = "BLOCKED")
             <=> (\A s \in PaaSServices(rows) : ofServices[s].status = "BLOCKED")

\* Whatever the scope.
PaaSMatrixAgrees ==
    \A key \in {"sub", "family"}, selected \in RegionsShown \cup {"all"},
       preset \in SUBSET RegionsShown :
        TransposedAgrees(PaaSInScope(PaaSRows(key), selected, preset))

\* What is short in one report is short in all: those of the server, the matrices of the
\* server, of the React page and of the classic page, and both PaaS matrices.
ReportsAgree == ServerReportsAgree /\ MatricesAgree /\ PaaSMatrixAgrees
=============================================================================
