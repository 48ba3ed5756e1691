----------------------------- MODULE ReactPage -----------------------------
(***************************************************************************)
(* The React page (App in main.js): the selections of the sidebar, the     *)
(* effects that load the panels for them, and the effects that take a      *)
(* selection back when what was loaded no longer offers it.                *)
(*                                                                         *)
(* A pass of the effects sees the state of one rendering, and runs after   *)
(* each one that changes what they depend on: the selections, or what is   *)
(* offered, which answers and failures change too.  Answers may come       *)
(* between a rendering and its effects, the user's next choice may not.    *)
(* What a panel shows is the query that its rows answer.  The selections   *)
(* of a preset, a region, a family and a SKU stand for all of them, and    *)
(* rows for what the server has.                                           *)
(***************************************************************************)
EXTENDS Naturals, FiniteSets

CONSTANTS
    World,          \* the rows of the server: [region, family, sku]
    PresetRegions,  \* [preset -> its regions], {} for the preset "all"
    MaxPage,        \* how far the user pages
    MaxEvents,      \* how often the user chooses something or a request fails
    MaxLoads        \* how often one panel may load

VARIABLES
    view,           \* activeView
    filters,        \* filters
    page,           \* pagination.pageNumber of the grid and of the scores
    shown,          \* [panel -> the query whose rows it shows, or None or Cleared;
                    \* live scores with their filters and the load they were asked after]
    ref,            \* the request counters (useRef)
    calls,          \* requests without an answer
    families,       \* allFamilyFacetOptions
    familyCall,     \* the request of the family catalog that is not cancelled
    busy,           \* capacityScores.busy
    seen,           \* what the effects depend on, at their last pass (their dependencies)
    events          \* choices of the user and failures

pageVars == <<view, filters, page, shown, ref, calls, families, familyCall,
              busy, seen, events>>

Panels == {"grid", "analytics", "scores"}
Views == {"capacity-grid", "capacity-score"}
None == [state |-> "none"]
Cleared == [state |-> "cleared"]

Matches(row, f) ==
    /\ PresetRegions[f.preset] = {} \/ row.region \in PresetRegions[f.preset]
    /\ f.region \in {"all", row.region}
    /\ f.family \in {"all", row.family}
    /\ f.sku \in {"all", row.sku}
Matching(f) == {row \in World : Matches(row, f)}

\* The facets that came with the rows of the grid.
FacetRows == IF shown["grid"].state = "rows" THEN Matching(shown["grid"].filters) ELSE {}
GridFacets(column) == {row[column] : row \in FacetRows}

\* What the sidebar offers: the regions of the preset or of the facets; the families
\* of the catalog or, while there is none, of the facets.
RegionOptions ==
    IF PresetRegions[filters.preset] # {} THEN PresetRegions[filters.preset]
    ELSE GridFacets("region")
FamilyOptions == IF families # {} THEN families ELSE GridFacets("family")

SkuOptions == GridFacets("sku")

Deps == [view |-> view, filters |-> filters, page |-> page,
         options |-> <<RegionOptions, FamilyOptions, SkuOptions>>]

PageInit ==
    /\ view = "capacity-grid"
    /\ filters = [preset |-> "major", region |-> "all", family |-> "all", sku |-> "all"]
    /\ page = [grid |-> 1, scores |-> 1]
    /\ shown = [p \in Panels |-> None]
    /\ ref = [p \in Panels |-> 0]
    /\ calls = {}
    /\ families = {} /\ familyCall = "none"
    /\ busy = FALSE
    /\ seen = [view |-> "none", filters |-> None, page |-> None, options |-> None]
    /\ events = 0

Rendered == Deps = seen

----------------------------------------------------------------------------
(* The effects.                                                            *)
IsGridView(v) == v \in {"capacity-grid", "recommender"}

FixedUp ==
    LET noFamily == filters.family \notin FamilyOptions \cup {"all"}
        noSku == filters.sku \notin SkuOptions \cup {"all"}
        noRegion == filters.region \notin RegionOptions \cup {"all"}
    IN  [filters EXCEPT !.family = IF noFamily THEN "all" ELSE @,
                        !.sku = IF noFamily \/ noSku THEN "all" ELSE @,
                        !.region = IF noRegion THEN "all" ELSE @]

\* Panels whose load depends on something that has changed.
Reloaded ==
    {p \in Panels :
        \/ filters # seen.filters
        \/ p = "grid" /\ (view # seen.view \/ page.grid # seen.page.grid)
        \/ p = "scores" /\ page.scores # seen.page.scores}
    \ (IF IsGridView(view) THEN {} ELSE {"grid"})

PageOf(p) == IF p = "analytics" THEN 1 ELSE page[p]

\* When only the options have changed nothing is loaded, but a selection that is no
\* longer offered is taken back, and the next pass loads.  Only the grid starts again at
\* its first page.
Effects ==
    /\ ~Rendered
    /\ \A p \in Reloaded : ref[p] < MaxLoads
    /\ seen' = Deps
    /\ filters' = FixedUp
    /\ page' = [page EXCEPT !.grid = IF filters # seen.filters THEN 1 ELSE @]
    /\ ref' = [p \in Panels |-> IF p \in Reloaded THEN ref[p] + 1 ELSE ref[p]]
    /\ calls' = calls \cup
         {[panel |-> p, id |-> ref[p] + 1, filters |-> filters, page |-> PageOf(p)] :
            p \in Reloaded}
    /\ busy' = (busy \/ "scores" \in Reloaded)
    /\ familyCall' = IF seen.filters = None \/ filters.preset # seen.filters.preset
                     THEN filters.preset ELSE familyCall
    /\ UNCHANGED <<view, shown, families, events>>

----------------------------------------------------------------------------
(* The answers.                                                            *)
\* As if every answer were taken.
TakesAny(c) == TRUE

Current(c) == c.id = ref[c.panel]

\* As if a panel that has left the screen never took the answer to its load.
LoadOnScreen(c) == c \in calls /\ c.id # 0 /\ (c.panel = "grid" => IsGridView(view))

Load(c) == c \in calls /\ c.id # 0

Answer(c) ==
    /\ Load(c)
    /\ calls' = calls \ {c}
    /\ IF Current(c)
       THEN /\ shown' = [shown EXCEPT ![c.panel] =
                            [state |-> "rows", filters |-> c.filters, page |-> c.page]]
            /\ page' = [p \in DOMAIN page |-> IF p = c.panel THEN c.page ELSE page[p]]
            /\ busy' = (busy /\ c.panel # "scores")
       ELSE UNCHANGED <<shown, page, busy>>
    /\ UNCHANGED <<view, filters, ref, families, familyCall, seen, events>>

\* The grid is emptied and starts again; the other panels are emptied.
Fail(c) ==
    /\ Load(c)
    /\ events < MaxEvents
    /\ events' = events + 1
    /\ calls' = calls \ {c}
    /\ IF Current(c)
       THEN /\ shown' = [shown EXCEPT ![c.panel] = Cleared]
            /\ page' = [page EXCEPT !.grid = IF c.panel = "grid" THEN 1 ELSE @]
            /\ busy' = (busy /\ c.panel # "scores")
       ELSE UNCHANGED <<shown, page, busy>>
    /\ UNCHANGED <<view, filters, ref, families, familyCall, seen>>

FamiliesAnswer ==
    /\ familyCall # "none"
    /\ familyCall' = "none"
    /\ \/ families' = {row.family : row \in Matching([filters EXCEPT
                          !.preset = familyCall, !.region = "all",
                          !.family = "all", !.sku = "all"])} /\ UNCHANGED events
       \/ events < MaxEvents /\ events' = events + 1 /\ families' = {}
    /\ UNCHANGED <<view, filters, page, shown, ref, calls, busy, seen>>

----------------------------------------------------------------------------
(* A refresh of the live placement is no load: nothing supersedes it, and  *)
(* its answer is taken whatever has been selected and loaded meanwhile.    *)
LiveCall == [panel |-> "scores", id |-> 0, filters |-> filters, page |-> 1,
             after |-> ref["scores"]]

LiveRows(c) == [state |-> "live", filters |-> c.filters, after |-> c.after]

RefreshLivePlacement ==
    /\ Rendered /\ events < MaxEvents
    /\ view = "capacity-score" /\ ~busy /\ filters.family # "all"
    /\ events' = events + 1
    /\ busy' = TRUE
    /\ calls' = calls \cup {LiveCall}
    /\ UNCHANGED <<view, filters, page, shown, ref, families, familyCall, seen>>

LiveAnswer(c) ==
    /\ c \in calls /\ c.id = 0
    /\ calls' = calls \ {c}
    /\ busy' = FALSE
    /\ \/ shown' = [shown EXCEPT !["scores"] = LiveRows(c)]
          /\ page' = [page EXCEPT !.scores = 1]
       \/ UNCHANGED <<shown, page>>
    /\ UNCHANGED <<view, filters, ref, families, familyCall, seen, events>>

----------------------------------------------------------------------------
(* The user, who chooses among what is offered.                            *)
Chosen(name, value) ==
    CASE name = "preset" -> [preset |-> value, region |-> "all",
                             family |-> "all", sku |-> "all"]
      [] name = "region" -> [filters EXCEPT !.region = value, !.family = "all", !.sku = "all"]
      [] name = "family" -> [filters EXCEPT !.family = value, !.sku = "all"]
      [] name = "sku"    -> [filters EXCEPT !.sku = value]

Offered ==
    [preset |-> DOMAIN PresetRegions,
     region |-> RegionOptions \cup {"all"},
     family |-> FamilyOptions \cup {"all"},
     sku    |-> SkuOptions \cup {"all"}]

Choose ==
    /\ Rendered /\ events < MaxEvents
    /\ events' = events + 1
    /\ \/ /\ \E name \in DOMAIN Offered : \E value \in Offered[name] \ {filters[name]} :
                filters' = Chosen(name, value)
          /\ UNCHANGED <<view, page>>
       \/ /\ view' \in Views \ {view}
          /\ UNCHANGED <<filters, page>>
       \/ /\ \E p \in DOMAIN page : \E n \in (1..MaxPage) \ {page[p]} :
                page' = [page EXCEPT ![p] = n]
          /\ UNCHANGED <<view, filters>>
    /\ UNCHANGED <<shown, ref, calls, families, familyCall, busy, seen>>

PageStep ==
    \/ Effects
    \/ FamiliesAnswer
    \/ \E c \in calls : Answer(c) \/ LiveAnswer(c)

PageNext ==
    \/ PageStep
    \/ \E c \in calls : Fail(c)
    \/ RefreshLivePlacement
    \/ Choose

PageSpec == PageInit /\ [][PageNext]_pageVars

----------------------------------------------------------------------------
Selected(p) == [state |-> "rows", filters |-> filters, page |-> PageOf(p)]
InFlight(p) == \E c \in calls : c.panel = p /\ Current(c)
OnScreen(p) == p # "grid" \/ IsGridView(view)

\* A panel at rest shows the rows of what is selected, or none after an error: answers
\* may come in any order, failures and answers may take selections back while others are
\* loading, and views may change meanwhile.  Scores of a live refresh stay until the next
\* load, and are those of the selection unless a load began after the refresh was asked for
\* (such a late refresh replaces the newer scores, whatever is selected by then).
PanelsShowWhatIsSelected ==
    \A p \in Panels :
        Rendered /\ OnScreen(p) /\ ~InFlight(p)
            => \/ shown[p] \in {Selected(p), Cleared}
               \/ /\ shown[p].state = "live"
                  /\ shown[p].after = ref[p] => shown[p].filters = filters

\* When the user stops, answers change what is offered, effects take selections back for
\* it and reset pages, and loads follow whose answers change what is offered again: all of
\* this comes to an end.
PageSettles == <>[](Rendered /\ \A p \in Panels : ~InFlight(p))
=============================================================================
