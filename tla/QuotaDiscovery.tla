--------------------------- MODULE QuotaDiscovery ---------------------------
(***************************************************************************)
(* The report of shareable quota (quotaDiscoveryService.js): where a       *)
(* subscription of a quota group lacks quota that the group could give it. *)
(*                                                                         *)
(* The first scan asks for the places (a subscription in a region) of the  *)
(* candidates in the latest capture; only when it finds nothing does a     *)
(* second one ask for all the regions of all the subscriptions.  Both run  *)
(* on a few workers that share the list, as does the lookup of regions in  *)
(* between.  A location that Azure does not know is passed over; any other *)
(* error fails the report.                                                 *)
(*                                                                         *)
(* A place answers with all pages of its allocations; they are abstracted  *)
(* to whether one of them has a negative shareable quota.                  *)
(***************************************************************************)
EXTENDS Naturals, FiniteSets

CONSTANTS
    Members,        \* subscriptions the quota group may have
    Locations,
    Width           \* SHAREABLE_REPORT_REGION_CONCURRENCY

Spots == Members \X Locations

VARIABLES
    azure,          \* [Spots -> {"deficit", "enough", "unknown"}]
    group,          \* the subscriptions of the quota group
    report          \* [at, todo, busy, asked, places, lost, found]

discoveryVars == <<azure, group, report>>

DiscoveryInit ==
    /\ azure \in [Spots -> {"deficit", "enough", "unknown"}]
    /\ group \in SUBSET Members
    /\ report = [at |-> "idle", todo |-> {}, busy |-> {},
                 asked |-> {},      \* the places of the candidates
                 places |-> {},     \* the places of the second scan
                 lost |-> {},       \* subscriptions whose regions Azure did not know
                 found |-> {}]

Becomes(changes) == report' = changes /\ UNCHANGED <<azure, group>>

(* The quota group, its subscriptions and the candidates are read; a       *)
(* failure to read the candidates counts as there being none.  They are    *)
(* those of the latest capture and of another listing of the group, and    *)
(* need not be in the group any more.                                      *)
Ask ==
    /\ report.at = "idle"
    /\ \E places \in SUBSET Spots :
          Becomes([report EXCEPT !.at = "candidates", !.asked = places, !.todo = places])

(* The quota group or its subscriptions are not read, or none is named.    *)
Refused ==
    /\ report.at = "idle"
    /\ Becomes([report EXCEPT !.at = "failed"])

(* mapWithConcurrency: a worker takes the next item of the list.           *)
Take ==
    /\ report.at \in {"candidates", "locations", "everywhere"}
    /\ Cardinality(report.busy) < Width
    /\ report.todo # {}
    /\ LET item == CHOOSE x \in report.todo : TRUE
       IN  Becomes([report EXCEPT !.todo = @ \ {item}, !.busy = @ \cup {item}])

Scanning == report.at \in {"candidates", "everywhere"}

(* listQuotaGroupAllocationEntries: the entries with a deficit are kept.   *)
PlaceAnswers ==
    /\ Scanning
    /\ \E p \in report.busy :
          /\ azure[p] # "unknown"
          /\ Becomes([report EXCEPT !.busy = @ \ {p},
                        !.found = IF azure[p] = "deficit" THEN @ \cup {p} ELSE @])

(* isIgnorableShareableQuotaLocationError.                                 *)
PlaceUnknown ==
    /\ Scanning
    /\ \E p \in report.busy :
          /\ azure[p] = "unknown"
          /\ Becomes([report EXCEPT !.busy = @ \ {p}])

(* listSubscriptionLocations: the physical regions, among them every one   *)
(* in which there is a quota.                                              *)
RegionsListed ==
    /\ report.at = "locations"
    /\ \E s \in report.busy, listed \in SUBSET Locations :
          /\ \A l \in Locations \ listed : azure[<<s, l>>] = "unknown"
          /\ Becomes([report EXCEPT !.busy = @ \ {s},
                                    !.places = @ \cup ({s} \X listed)])

RegionsUnknown ==
    /\ report.at = "locations"
    /\ \E s \in report.busy :
          Becomes([report EXCEPT !.busy = @ \ {s}, !.lost = @ \cup {s}])

(* Another error rejects Promise.all: the workers that are still busy go   *)
(* on, and nobody uses what they find.                                     *)
Throws ==
    /\ report.busy # {}
    /\ report.at \in {"candidates", "locations", "everywhere"}
    /\ Becomes([report EXCEPT !.at = "failed", !.todo = {}, !.busy = {}])

\* Mutant: the second scan is for groups without candidates only.
NothingAsked == report.asked = {}

NothingFound == report.found = {}

AllDone == report.todo = {} /\ report.busy = {}

LookEverywhere ==
    /\ report.at = "candidates" /\ AllDone
    /\ NothingFound /\ group # {}
    /\ Becomes([report EXCEPT !.at = "locations", !.todo = group])

RegionsKnown ==
    /\ report.at = "locations" /\ AllDone
    /\ Becomes([report EXCEPT !.at = "everywhere", !.todo = report.places])

ReportAnswered ==
    /\ Scanning /\ AllDone
    /\ report.at = "candidates" => ~NothingFound \/ group = {}
    /\ Becomes([report EXCEPT !.at = "answered"])

DiscoveryNext ==
    \/ Ask \/ Refused \/ Take
    \/ PlaceAnswers \/ PlaceUnknown
    \/ RegionsListed \/ RegionsUnknown
    \/ LookEverywhere \/ RegionsKnown \/ ReportAnswered \/ Throws

DiscoverySpec == DiscoveryInit /\ [][DiscoveryNext]_discoveryVars

----------------------------------------------------------------------------
\* A report that is answered has every deficit of the places it asked for, whatever the
\* order in which the workers were served; and one without rows means that no
\* subscription of the group lacks quota anywhere, as far as Azure lists its regions.
\* (A report with rows is no such promise: deficits in places without a candidate are
\* not looked for.)
EmptyReportMeansNoDeficit ==
    report.at = "answered" =>
        /\ \A p \in report.asked : azure[p] = "deficit" => p \in report.found
        /\ \A p \in report.found : azure[p] = "deficit"
        /\ report.found = {} =>
              \A s \in group \ report.lost, l \in Locations : azure[<<s, l>>] # "deficit"
=============================================================================
