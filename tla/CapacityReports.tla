--------------------------- MODULE CapacityReports ---------------------------
(***************************************************************************)
(* The reports that capacityService.js derives from capacity rows: the     *)
(* capacity scores, the family summary, the health of the regions, the     *)
(* subscription summary and the trend.  Each has its own loop over the     *)
(* rows and its own idea of what is constrained.                           *)
(*                                                                         *)
(* A row is [region, sub, family, sku, hasSku, current, limit], one row of *)
(* a capture; its availability is what computeAvailabilityState made of it.*)
(***************************************************************************)
EXTENDS Integers, FiniteSets, Functions, Folds

Higher(a, b) == IF a > b THEN a ELSE b

(***************************************************************************)
(* Rows.                                                                   *)
(***************************************************************************)

Free(r) == r.limit - r.current

\* Math.max(5, Math.round(quotaLimit * 0.1)).
LimitedThreshold(r) == Higher(5, (r.limit + 5) \div 10)

\* computeAvailabilityState.
Availability(r) ==
    CASE ~r.hasSku                      -> "RESTRICTED"
      [] r.hasSku /\ Free(r) <= 0       -> "CONSTRAINED"
      [] r.hasSku /\ Free(r) > 0
                  /\ Free(r) <= LimitedThreshold(r) -> "LIMITED"
      [] OTHER                          -> "OK"

\* isBlockedAvailability.
IsBlocked(r) == Availability(r) \in {"CONSTRAINED", "RESTRICTED"}

With(rows, state) == {r \in rows : Availability(r) = state}

\* What the rows leave free together; negative where they are over their limits.
Headroom(rows) == SumFunction([r \in rows |-> Free(r)])

(***************************************************************************)
(* deriveCapacityScoreRows.                                                *)
(***************************************************************************)

FreeOrNone(r) == Higher(0, Free(r))

\* Mutant: rows over their limit count against the others.
SummaryNetOfOverrun(rows) ==
    [ok |-> Cardinality(With(rows, "OK")),
     limited |-> Cardinality(With(rows, "LIMITED")),
     constrained |-> Cardinality(rows \ (With(rows, "OK") \cup With(rows, "LIMITED"))),
     available |-> Headroom(rows)]

\* The rows of one SKU in one region.
Summary(rows) ==
    [ok |-> Cardinality(With(rows, "OK")),
     limited |-> Cardinality(With(rows, "LIMITED")),
     constrained |-> Cardinality(rows \ (With(rows, "OK") \cup With(rows, "LIMITED"))),
     available |-> SumFunction([r \in rows |-> FreeOrNone(r)])]

\* Mutant: constrained rows do not keep a score from being high.
LabelIgnoringConstrained(s) ==
    IF s.constrained > 0 /\ s.ok = 0 /\ s.available <= 0 THEN "Low"
    ELSE IF s.limited = 0 /\ s.available > 0 THEN "High"
    ELSE IF s.ok > 0 \/ s.available > 0 \/ s.limited > 0 THEN "Medium"
    ELSE "Low"

\* getCapacityScoreLabel.
Label(s) ==
    IF s.constrained > 0 /\ s.ok = 0 /\ s.available <= 0 THEN "Low"
    ELSE IF s.constrained = 0 /\ s.limited = 0 /\ s.available > 0 THEN "High"
    ELSE IF s.ok > 0 \/ s.available > 0 \/ s.limited > 0 THEN "Medium"
    ELSE "Low"

Rank(label) == CASE label = "High" -> 2 [] label = "Medium" -> 1 [] label = "Low" -> 0

RowsOf(rows, region, sku) == {r \in rows : r.region = region /\ r.sku = sku}

Score(rows, region, sku) == Label(Summary(RowsOf(rows, region, sku)))

(***************************************************************************)
(* getFamilySummary and getSubscriptionSummary.                            *)
(***************************************************************************)

FamilyStatus(rows, family) ==
    LET mine == {r \in rows : r.family = family}
    IN  IF \E r \in mine : IsBlocked(r) THEN "CONSTRAINED"
        ELSE IF With(mine, "LIMITED") # {} THEN "LIMITED"
        ELSE "OK"

\* The number of SKUs of the family with some row that is OK.
OkSkus(rows, family) == Cardinality({r.sku : r \in {x \in With(rows, "OK") :
                                                      x.family = family}})

SubscriptionEntry(rows, sub) ==
    LET mine == {r \in rows : r.sub = sub}
    IN  [rows |-> Cardinality(mine),
         constrained |-> Cardinality({r \in mine : IsBlocked(r)}),
         available |-> Headroom(mine)]

(***************************************************************************)
(* deriveCapacityAnalyticsRegionHealth.                                    *)
(***************************************************************************)

Deployable(rows) == With(rows, "OK") \cup With(rows, "LIMITED")

\* Mutant: a family without a SKU in the region is not counted as constrained.
RegionHealthConstrainedOnly(rows, region) ==
    LET mine == {r \in rows : r.region = region}
    IN  [total |-> Cardinality(mine),
         deployable |-> Cardinality(Deployable(mine)),
         constrained |-> Cardinality(With(mine, "CONSTRAINED")),
         headroom |-> Headroom(mine)]

RegionHealth(rows, region) ==
    LET mine == {r \in rows : r.region = region}
    IN  [total |-> Cardinality(mine),
         deployable |-> Cardinality(Deployable(mine)),
         constrained |-> Cardinality({r \in mine : IsBlocked(r)}),
         headroom |-> Headroom(mine)]

(***************************************************************************)
(* deriveCapacityTrendRows.                                                *)
(***************************************************************************)

\* Math.round of the used percentage of a row; 0 where there is no limit.
Utilization(r) ==
    IF r.limit > 0 THEN (200 * r.current + r.limit) \div (2 * r.limit) ELSE 0

\* One bucket: the captures of a day are added up, the peak is the highest of them.
TrendEntry(rows) ==
    [total |-> Cardinality(rows),
     constrained |-> Cardinality({r \in rows : IsBlocked(r)}),
     available |-> Headroom(rows),
     peak |-> MapThenFoldSet(Higher, 0, Utilization, LAMBDA s : CHOOSE x \in s : TRUE, rows)]

=============================================================================
