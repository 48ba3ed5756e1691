------------------------------ MODULE Matrices ------------------------------
(***************************************************************************)
(* The readiness matrices.  The server, the React page and the classic     *)
(* page each reduce capacity rows to a status of a family in a region;     *)
(* the PaaS report reduces scan rows to a status of a service in a region, *)
(* by region and, transposed, by service.  Each has its own loop and its   *)
(* own order of the statuses.                                              *)
(*                                                                         *)
(* A PaaS row is [region, service, status], its status that of             *)
(* normalizePaaSMatrixStatus.                                              *)
(***************************************************************************)
EXTENDS CapacityReports

Ready == {"OK", "PARTIAL"}
Caution == {"PARTIAL", "LIMITED", "CONSTRAINED"}

\* resolveCellStatus, of the statuses that the rows of a cell have.
CellStatus(statuses) ==
    CASE "OK" \in statuses /\ statuses # {"OK"} -> "PARTIAL"
      [] statuses = {"OK"} -> "OK"
      [] "OK" \notin statuses /\ "LIMITED" \in statuses -> "LIMITED"
      [] statuses \cap {"OK", "LIMITED"} = {} /\ "CONSTRAINED" \in statuses -> "CONSTRAINED"
      [] OTHER -> "BLOCKED"

\* resolveRowStatus.
RowStatus(cells) ==
    IF "OK" \in cells THEN "OK"
    ELSE IF cells \cap Caution # {} THEN "CAUTION" ELSE "BLOCKED"

(***************************************************************************)
(* Capacity: buildCapacityAnalyticsMatrix and the matrix of the React page *)
(***************************************************************************)

\* A restricted SKU counts as constrained.
Counted(r) == IF Availability(r) = "RESTRICTED" THEN "CONSTRAINED" ELSE Availability(r)

CellRows(rows, family, region) == {r \in rows : r.family = family /\ r.region = region}

Cell(rows, family, region) ==
    CellStatus({Counted(r) : r \in CellRows(rows, family, region)})

\* The regions of the server's matrix; the React page shows the selected one, or those
\* of the preset that the matrix has, where a missing cell is BLOCKED.
MatrixRegions(rows) == {r.region : r \in rows}

MatrixRow(rows, family, regions) ==
    LET cells == [g \in regions |-> Cell(rows, family, g)]
    IN  [status |-> RowStatus({cells[g] : g \in regions}),
         ready |-> Cardinality({g \in regions : cells[g] \in Ready})]

ServerRow(rows, family) ==
    MatrixRow(rows, family, {r.region : r \in {x \in rows : x.family = family}})

ReactRow(rows, family, scope) ==
    MatrixRow(rows, family, scope \cap MatrixRegions(rows))

(***************************************************************************)
(* Capacity: renderRegionMatrix of the classic page keeps the best status. *)
(***************************************************************************)

Best(statuses) ==
    CASE "OK" \in statuses -> "OK"
      [] "OK" \notin statuses /\ "LIMITED" \in statuses -> "LIMITED"
      [] statuses \cap {"OK", "LIMITED"} = {} /\ "CONSTRAINED" \in statuses -> "CONSTRAINED"
      [] statuses = {"RESTRICTED"} -> "RESTRICTED"
      [] OTHER -> "NONE"

ClassicCell(rows, family, region) ==
    Best({Availability(r) : r \in CellRows(rows, family, region)})

\* rowRollup, and the best status of renderRegionMatrixSummary.
ClassicRow(rows, family, scope) == Best({ClassicCell(rows, family, g) : g \in scope})

\* deriveFamilySummaryFromRows.
ClassicFamily(rows, family) ==
    LET mine == {r \in rows : r.family = family}
        states == {Availability(r) : r \in mine}
    IN  [status |-> IF states \cap {"CONSTRAINED", "RESTRICTED"} # {} THEN "CONSTRAINED"
                    ELSE IF "LIMITED" \in states THEN "LIMITED" ELSE "OK",
         ok |-> Cardinality({x \in {r.sku : r \in mine} :
                               \E r \in mine : r.sku = x /\ Availability(r) = "OK"})]

\* renderRegionHealth, as its shares of the rows are derived.
ClassicHealth(rows, region) ==
    LET mine == {r \in rows : r.region = region}
        blocked == With(mine, "CONSTRAINED") \cup With(mine, "RESTRICTED")
    IN  [total |-> Cardinality(mine),
         deployable |-> Cardinality(Deployable(mine)),
         constrained |-> Cardinality(blocked),
         headroom |-> Headroom(mine)]

(***************************************************************************)
(* PaaS: buildPaaSRegionMatrix, and the same transposed.                   *)
(***************************************************************************)

PaaSCell(rows, region, service) ==
    LET statuses == {r.status : r \in {x \in rows : x.region = region /\ x.service = service}}
    IN  IF statuses = {} THEN "EMPTY" ELSE CellStatus(statuses)

PaaSServices(rows) == {r.service : r \in rows}

RegionRow(rows, region) ==
    LET cells == [s \in PaaSServices(rows) |-> PaaSCell(rows, region, s)]
    IN  [status |-> RowStatus({cells[s] : s \in DOMAIN cells} \ {"EMPTY"}),
         ready |-> Cardinality({s \in DOMAIN cells : cells[s] \in Ready})]

\* Transposed, a service that is partly available somewhere is OK.
ServiceRow(rows, service) ==
    LET cells == [g \in {r.region : r \in rows} |-> PaaSCell(rows, g, service)]
        found == {cells[g] : g \in DOMAIN cells}
    IN  [status |-> IF found \cap Ready # {} THEN "OK"
                    ELSE IF found \cap {"LIMITED", "CONSTRAINED"} # {} THEN "CAUTION"
                    ELSE "BLOCKED",
         ready |-> Cardinality({g \in DOMAIN cells : cells[g] \in Ready})]

\* filterPaaSRowsByScope: the selected region, or those of the preset, if it has any.
PaaSInScope(rows, selected, preset) ==
    {r \in rows : IF selected # "all" THEN r.region = selected
                  ELSE preset = {} \/ r.region \in preset}
=============================================================================
