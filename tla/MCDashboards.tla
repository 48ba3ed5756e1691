---------------------------- MODULE MCDashboards ----------------------------
(***************************************************************************)
(* What the pages work with, one part at a time: the planner, the reports, *)
(* the lookup of recommendations, the PaaS scans and the React page.       *)
(* subject chooses the part that a behaviour is about; the variables of    *)
(* the others keep an initial value.                                       *)
(***************************************************************************)
EXTENDS MCRecommendations, MCCapacityReports, PaaSScan, ReactPage, QuotaPlanning

VARIABLE subject

dashboardVars == <<subject, planVars, captured, lookupVars, paasVars, pageVars>>

Subjects == {"plan", "reports", "lookup", "scans", "page"}

\* The parts a behaviour is not about start in one of their initial states.
DashboardInit ==
    /\ subject \in Subjects
    /\ PlanInit
    /\ subject # "plan" => run = [f \in {"f"} |-> [s \in Subs |->
                                     [current |-> 0, limit |-> 20, state |-> "OK"]]]
    /\ ReportsInit
    /\ LookupInit
    /\ subject # "lookup" => ~config.direct /\ ~config.worker /\ ~config.noFallback /\ ~spot
    /\ PaaSInit
    /\ subject # "scans" => ~hosting.worker /\ ~hosting.fallback
    /\ PageInit

DashboardNext ==
    \/ /\ subject = "plan" /\ PlanNext
       /\ UNCHANGED <<subject, captured, lookupVars, paasVars, pageVars>>
    \/ /\ subject = "reports" /\ RowChanges
       /\ UNCHANGED <<subject, planVars, lookupVars, paasVars, pageVars>>
    \/ /\ subject = "lookup" /\ LookupNext
       /\ UNCHANGED <<subject, planVars, captured, paasVars, pageVars>>
    \/ /\ subject = "scans" /\ PaaSNext
       /\ UNCHANGED <<subject, planVars, captured, lookupVars, pageVars>>
    \/ /\ subject = "page" /\ PageNext
       /\ UNCHANGED <<subject, planVars, captured, lookupVars, paasVars>>

\* Effects run, and answers arrive.
DashboardSpec ==
    /\ DashboardInit /\ [][DashboardNext]_dashboardVars
    /\ WF_pageVars(subject = "page" /\ PageStep)

----------------------------------------------------------------------------
MCSubOrder == <<"a", "b", "c">>

\* Free and used subscriptions with small limits, where the buffer is 5, and one
\* where it is 10% rounded up; some above their limit, one without a limit.
MCCandidates ==
    {[current |-> u, limit |-> l, state |-> "OK"] :
        u \in {0, 8, 18}, l \in {20, 75}} \cup
    {[current |-> 18, limit |-> 20, state |-> "CONSTRAINED"],
     [current |-> 20, limit |-> 20, state |-> "LIMITED"],
     [current |-> 23, limit |-> 20, state |-> "CONSTRAINED"],
     [current |-> 0, limit |-> 0, state |-> "CONSTRAINED"],
     [current |-> 17, limit |-> 20, state |-> "LIMITED"]}

MCShells == <<"pwsh", "powershell">>
MCWorld ==
    {[region |-> "east", family |-> "f", sku |-> "s1"],
     [region |-> "west", family |-> "f", sku |-> "s2"],
     [region |-> "north", family |-> "g", sku |-> "s3"]}
MCPresetRegions == [all |-> {}, major |-> {"east", "west"}]

----------------------------------------------------------------------------
\* When the user stops, the page comes to rest.
PageComesToRest == subject = "page" => PageSettles
=============================================================================
