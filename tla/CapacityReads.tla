---------------------------- MODULE CapacityReads ----------------------------
(***************************************************************************)
(* What the reports see of dbo.CapacitySnapshot.                           *)
(*                                                                         *)
(* An ingestion appends the rows of one capture: one row for each quota    *)
(* family of the subscriptions and regions it was asked for and could      *)
(* reach, under the name of the family's representative SKU, which changes *)
(* with the restrictions in the region.  The reports read the rows of the  *)
(* latest capture and not those of dbo.CapacityLatest, the latest row of   *)
(* each SKU.                                                               *)
(*                                                                         *)
(* CapacityIngestion says when a capture is appended, and that it is       *)
(* appended as a whole; here an ingestion is one step.                     *)
(***************************************************************************)
EXTENDS Integers, Sequences

CONSTANTS
    Places,         \* <<subscription, region>>
    Families,       \* quota families
    SkuOrder,       \* family -> the SKUs that Azure lists for it, in that order; a
                    \* family without SKUs has the one name of its aggregate row
    Quotas,         \* values of [current, limit]
    MaxBatches      \* bounds Ingest

ASSUME QuotasAreNumbers == Quotas \subseteq [current : Nat, limit : Nat]

Skus == UNION {{SkuOrder[f][i] : i \in DOMAIN SkuOrder[f]} : f \in Families}

VARIABLES
    quota,          \* Azure: <<subscription, region>> -> family -> [current, limit]
    restricted,     \* Azure: <<region, SKU>> that carry a restriction
    table,          \* the rows of dbo.CapacitySnapshot
    clock           \* the capture time of the last run

readVars == <<quota, restricted, table, clock>>

ReadsInit ==
    /\ quota \in [Places -> [Families -> Quotas]]
    /\ restricted = {}
    /\ table = {}
    /\ clock = 0

(***************************************************************************)
(* Ingestion.                                                              *)
(***************************************************************************)

\* pickRepresentativeSku: the first SKU without restrictions, or else the first.
RepresentativeSku(region, f) ==
    LET free == {i \in DOMAIN SkuOrder[f] : <<region, SkuOrder[f][i]>> \notin restricted}
        first == CHOOSE i \in free : \A k \in free : i <= k
    IN  SkuOrder[f][IF free = {} THEN 1 ELSE first]

RowOf(place, f, at) ==
    [at |-> at, place |-> place, family |-> f, sku |-> RepresentativeSku(place[2], f),
     limit |-> quota[place][f].limit, current |-> quota[place][f].current]

\* The rows of a run that was asked for some places and could not reach others: a
\* region that fails for a subscription has no rows.
Captured(asked, failed, at) ==
    {RowOf(place, f, at) : place \in asked \ failed, f \in Families}

Ingest ==
    /\ clock < MaxBatches
    /\ clock' = clock + 1
    /\ \E asked \in SUBSET Places : \E failed \in SUBSET asked :
          table' = table \cup Captured(asked, failed, clock + 1)
    /\ UNCHANGED <<quota, restricted>>

(***************************************************************************)
(* Azure.                                                                  *)
(***************************************************************************)

QuotaChanges ==
    /\ \E place \in Places, f \in Families, q \in Quotas :
          quota' = [quota EXCEPT ![place][f] = q]
    /\ UNCHANGED <<restricted, table, clock>>

RestrictionChanges ==
    /\ \E region \in {place[2] : place \in Places}, sku \in Skus :
          restricted' = IF <<region, sku>> \in restricted
                        THEN restricted \ {<<region, sku>>}
                        ELSE restricted \cup {<<region, sku>>}
    /\ UNCHANGED <<quota, table, clock>>

(***************************************************************************)
(* Reads.                                                                  *)
(***************************************************************************)

SameSku(r, s) == r.place = s.place /\ r.sku = s.sku

\* dbo.CapacityLatest: the latest row of each SKU of a subscription in a region.
CapacityLatest == {r \in table : \A s \in table : SameSku(r, s) => s.at <= r.at}

\* Mutant: the reports read the view.
BatchOfView == CapacityLatest

\* buildLatestSnapshotBatchCte and the queries that join it.
LatestBatch == {r \in table : \A s \in table : s.at <= r.at}

\* getQuotaCandidates adds up the rows of a family.
CandidateLimit(place, f) ==
    LET mine == {r \in LatestBatch : r.place = place /\ r.family = f}
        total[rows \in SUBSET mine] ==
          IF rows = {} THEN 0
          ELSE LET r == CHOOSE r \in rows : TRUE IN r.limit + total[rows \ {r}]
    IN  total[mine]

ReadsNext == Ingest \/ QuotaChanges \/ RestrictionChanges

ReadsSpec == ReadsInit /\ [][ReadsNext]_readVars

(***************************************************************************)
(* Properties.                                                             *)
(***************************************************************************)

\* The quota planner counts the quota of a family once, as it was at the capture,
\* however often the representative SKU of the family has changed since others.
QuotaCountedOnce ==
    \A r \in LatestBatch : CandidateLimit(r.place, r.family) = r.limit

=============================================================================
