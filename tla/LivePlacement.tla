---------------------------- MODULE LivePlacement ----------------------------
(***************************************************************************)
(* Live placement scores (livePlacementService.js): refreshes ask Azure    *)
(* for the scores of SKUs in regions and store the answers in              *)
(* dbo.LivePlacementSnapshot, from which the capacity score grid is filled.*)
(*                                                                         *)
(* Refreshes asked for by users (POST /api/capacity/scores/live) and those *)
(* of the scheduler overlap; only the latter exclude each other.  A refresh*)
(* asks for a chunk of regions at a time and, when such a call fails, for  *)
(* each region on its own; it answers its caller without waiting for the   *)
(* rows to be stored.                                                      *)
(*                                                                         *)
(* The SKUs here are those of one call, at one desired count.  A row has a *)
(* score and a flag, which stands for isAvailable and for isRestricted:    *)
(* the code treats the two alike.                                          *)
(***************************************************************************)
EXTENDS Integers, SequencesExt

CONSTANTS
    Users,          \* refreshes asked for by users
    Ticks,          \* callbacks of the scheduler's timer, numbered as they come
    Scopes,         \* refresh -> what its filters may leave: sequences of regions
    RegionsPerCall, \* DEFAULT_MAX_REGIONS_PER_CALL
    Changing,       \* regions whose scores change: bounds AzureChanges
    Partial,        \* regions whose rows may lack a value: bounds Answers
    MaxChanges,     \* bounds AzureChanges
    MaxLookups,     \* bounds RowsRead
    MaxAge,         \* bounds Age
    MaxRestarts     \* bounds Restart

Refreshes == Users \cup Ticks
AllScopes == UNION {Scopes[r] : r \in Refreshes}
Regions == UNION {ToSet(scope) : scope \in AllScopes}

ASSUME ParametersOK ==
    /\ Users \cap Ticks = {} /\ Ticks \subseteq Nat
    /\ RegionsPerCall \in Nat \ {0}
    /\ MaxChanges \in Nat /\ MaxAge \in Nat
    /\ MaxLookups \in Nat /\ MaxRestarts \in Nat
    /\ AllScopes \subseteq Seq(Regions)
    /\ \A scope \in AllScopes : IsInjective(scope)

VARIABLES
    azure,      \* region -> how often its score and flag have changed: their values
    begun,      \* what Azure would have answered when each lookup began, by time stamp
    refresh,    \* refresh -> where it is, and its locals
    table,      \* the captures in dbo.LivePlacementSnapshot, as they were stored
    horizon,    \* captures with time stamps up to here are older than 168 hours
    inProgress, \* livePlacementRefreshInProgress
    restarts

vars == <<azure, begun, refresh, table, horizon, inProgress, restarts>>

NotAvailable == -1

Least(a, b) == IF a < b THEN a ELSE b

Stages == {"unused", "reading", "batch", "regions", "answered", "failed", "done"}

NoFlags == [g \in Regions |-> NotAvailable]

\* kept: the flags that the grid had when its rows were read.
Unused == [stage |-> "unused", at |-> 0, scope |-> <<>>, kept |-> NoFlags, chunk |-> 1,
           left |-> <<>>, refused |-> FALSE, told |-> FALSE, live |-> <<>>,
           unavailable |-> {}, save |-> "none"]

\* A row without an answer: its score is 'N/A' and its flags are null.
NoAnswer == [score |-> NotAvailable, flag |-> NotAvailable]

Init ==
    /\ azure = [g \in Regions |-> 0]
    /\ begun = <<>>
    /\ refresh = [r \in Refreshes |-> Unused]
    /\ table = <<>>
    /\ horizon = 0
    /\ inProgress = FALSE
    /\ restarts = 0

Put(r, c) == refresh' = [refresh EXCEPT ![r] = c]

(***************************************************************************)
(* The grid.                                                               *)
(***************************************************************************)

Holding(g) == {i \in DOMAIN table : g \in DOMAIN table[i].rows /\ table[i].at > horizon}

\* Mutant: the row stored last is taken, whatever its time stamp.
NewestByInsertion(g) ==
    IF Holding(g) = {} THEN 0
    ELSE table[CHOOSE i \in Holding(g) : \A k \in Holding(g) : k <= i].at

\* getLatestLivePlacementSnapshots: the newest row of a region, if there is one.
Latest(g) ==
    CHOOSE i \in Holding(g) : \A k \in Holding(g) : table[k].at <= table[i].at

\* Its time stamp, 0 for none, and what getCapacityScoreSummary merges into a row of the
\* grid.
Newest(g) == IF Holding(g) = {} THEN 0 ELSE table[Latest(g)].at

Shown(g) == IF Holding(g) = {} THEN NoAnswer ELSE table[Latest(g)].rows[g]

(***************************************************************************)
(* Chunks and answers.                                                     *)
(***************************************************************************)

Chunks(c) == (Len(c.scope) + RegionsPerCall - 1) \div RegionsPerCall

Chunk(c) ==
    SubSeq(c.scope, (c.chunk - 1) * RegionsPerCall + 1,
           Least(c.chunk * RegionsPerCall, Len(c.scope)))

\* normalizePlacementScoreRows: the score or the flag of a row may be missing.
Answers(regions) ==
    {[g \in regions |-> [score |-> IF g \in scored THEN azure[g] ELSE NotAvailable,
                         flag |-> IF g \in flagged THEN azure[g] ELSE NotAvailable]] :
        scored, flagged \in {regions \ lacking : lacking \in SUBSET Partial}}

WithLive(c, rows) ==
    [c EXCEPT !.live = [g \in DOMAIN rows \cup DOMAIN c.live |->
                          IF g \in DOMAIN rows THEN rows[g] ELSE c.live[g]]]

WithUnavailable(c, regions) == [c EXCEPT !.unavailable = @ \cup regions]

\* A row without a flag of its own keeps the one that the grid had.
Enriched(c, g) ==
    IF c.live[g].flag # NotAvailable THEN c.live[g]
    ELSE [c.live[g] EXCEPT !.flag = c.kept[g]]

\* Mutant: the whole grid is stored again under the new time stamp.
RestampedRows(c) ==
    [g \in ToSet(c.scope) |-> IF g \in DOMAIN c.live THEN Enriched(c, g)
                              ELSE IF g \in c.unavailable THEN NoAnswer ELSE Shown(g)]

\* snapshotsToSave.  A warning about a region that has answered is dropped.
RowsToSave(c) ==
    [g \in DOMAIN c.live \cup c.unavailable |->
        IF g \in DOMAIN c.live THEN Enriched(c, g) ELSE NoAnswer]

\* What follows an answered chunk in the same turn: the next call, or the answer to
\* the caller and the start of the transaction that stores the rows.
Continue(c) ==
    IF c.chunk < Chunks(c)
    THEN [c EXCEPT !.chunk = @ + 1, !.stage = "batch", !.left = <<>>,
                   !.refused = FALSE, !.told = FALSE]
    ELSE [c EXCEPT !.stage = "answered", !.left = <<>>, !.refused = FALSE,
                   !.told = FALSE,
                   !.save = IF DOMAIN RowsToSave(c) = {} THEN "none" ELSE "pending"]

(***************************************************************************)
(* Arrivals.                                                               *)
(***************************************************************************)

UserBegins(u) ==
    /\ refresh[u].stage = "unused"
    /\ Put(u, [Unused EXCEPT !.stage = "reading"])
    /\ UNCHANGED <<azure, begun, table, horizon, inProgress, restarts>>

SchedulerIsFree == ~inProgress

Comes(t) ==
    /\ refresh[t].stage = "unused"
    /\ \A s \in Ticks : s < t => refresh[s].stage # "unused"

TickBegins(t) ==
    /\ Comes(t)
    /\ SchedulerIsFree
    /\ inProgress' = TRUE
    /\ Put(t, [Unused EXCEPT !.stage = "reading"])
    /\ UNCHANGED <<azure, begun, table, horizon, restarts>>

TickSkipped(t) ==
    /\ Comes(t)
    /\ inProgress
    /\ Put(t, [Unused EXCEPT !.stage = "done"])
    /\ UNCHANGED <<azure, begun, table, horizon, inProgress, restarts>>

\* The capacity rows have arrived, with what the grid shows of earlier refreshes unless
\* that could not be read; the time stamp is taken before the first call.
RowsRead(r) ==
    /\ refresh[r].stage = "reading"
    /\ Len(begun) < MaxLookups
    /\ \E scope \in Scopes[r], merged \in BOOLEAN :
          Put(r, [refresh[r] EXCEPT
                    !.stage = "batch", !.scope = scope, !.at = Len(begun) + 1,
                    !.kept = [g \in Regions |-> IF merged /\ g \in ToSet(scope)
                                               THEN Shown(g).flag ELSE NotAvailable]])
    /\ begun' = Append(begun, azure)
    /\ UNCHANGED <<azure, table, horizon, inProgress, restarts>>

\* There are no rows, and nothing to ask for.
NothingToAsk(r) ==
    /\ refresh[r].stage = "reading"
    /\ Put(r, [refresh[r] EXCEPT !.stage = "answered"])
    /\ UNCHANGED <<azure, begun, table, horizon, inProgress, restarts>>

\* Several subscriptions, no family or too many calls are asked for, or the rows
\* cannot be read.
RefreshFails(r) ==
    /\ refresh[r].stage = "reading"
    /\ Put(r, [refresh[r] EXCEPT !.stage = "failed"])
    /\ UNCHANGED <<azure, begun, table, horizon, inProgress, restarts>>

(***************************************************************************)
(* Lookups.  A call answers with rows of some of its regions, with no rows,*)
(* with a warning that is read as unavailability, or with an error that is *)
(* ("refused") or is not ("failed") read so.                               *)
(***************************************************************************)

InBatch(r) == refresh[r].stage = "batch"
InRegions(r) == refresh[r].stage = "regions"
Locals == <<azure, begun, table, horizon, inProgress, restarts>>

\* Rows for some regions, perhaps for none; or a call for one region that fails.
BatchRows(r) ==
    /\ InBatch(r)
    /\ \E got \in SUBSET ToSet(Chunk(refresh[r])) : \E rows \in Answers(got) :
          Put(r, Continue(WithLive(refresh[r], rows)))
    /\ UNCHANGED Locals

\* A call for several regions is answered by a warning or an error, and is split.
\* Only an error that is read as unavailability matters later.
BatchSplit(r) ==
    /\ InBatch(r)
    /\ Len(Chunk(refresh[r])) > 1
    /\ \E refused \in BOOLEAN :
          Put(r, [refresh[r] EXCEPT !.stage = "regions", !.refused = refused,
                                    !.left = Chunk(refresh[r])])
    /\ UNCHANGED Locals

\* A call for one region is found unavailable.  The warning does not say for which
\* region: getLivePlacementScoreRows takes it to be about all of them.
SingleUnavailable(r) ==
    /\ InBatch(r)
    /\ Len(Chunk(refresh[r])) = 1
    /\ Put(r, Continue(WithUnavailable(refresh[r], ToSet(refresh[r].scope))))
    /\ UNCHANGED Locals

\* After the last region of a split call.  If no region answered and none was
\* warned about, the error of the first call is thrown after all: then it is about
\* the chunk.
Split(c) ==
    IF Len(c.left) > 1 THEN [c EXCEPT !.left = Tail(@)]
    ELSE Continue(IF c.refused /\ ~c.told
                  THEN WithUnavailable(c, ToSet(Chunk(c))) ELSE c)

RegionRows(r) ==
    /\ InRegions(r)
    /\ \E rows \in Answers({Head(refresh[r].left)}) :
          Put(r, Split([WithLive(refresh[r], rows) EXCEPT !.told = TRUE]))
    /\ UNCHANGED Locals

RegionUnavailable(r) ==
    /\ InRegions(r)
    /\ LET c == WithUnavailable(refresh[r], {Head(refresh[r].left)})
       IN  Put(r, Split([c EXCEPT !.told = TRUE]))
    /\ UNCHANGED Locals

RegionFails(r) ==
    /\ InRegions(r)
    /\ Put(r, Split([refresh[r] EXCEPT !.told = TRUE]))
    /\ UNCHANGED Locals

\* No rows and no warning: a "soft miss".
RegionMissed(r) ==
    /\ InRegions(r)
    /\ Put(r, Split(refresh[r]))
    /\ UNCHANGED Locals

(***************************************************************************)
(* The ends.                                                               *)
(***************************************************************************)

\* saveLivePlacementSnapshots, in one transaction that nobody waits for.
SaveCommits(r) ==
    /\ refresh[r].save = "pending"
    /\ table' = Append(table, [at |-> refresh[r].at, rows |-> RowsToSave(refresh[r])])
    /\ Put(r, [refresh[r] EXCEPT !.save = "stored", !.kept = NoFlags, !.live = <<>>,
                                 !.unavailable = {}])
    /\ UNCHANGED <<azure, begun, horizon, inProgress, restarts>>

SaveFails(r) ==
    /\ refresh[r].save = "pending"
    /\ Put(r, [refresh[r] EXCEPT !.save = "lost", !.kept = NoFlags, !.live = <<>>,
                                 !.unavailable = {}])
    /\ UNCHANGED Locals

\* Mutant: the flag is lowered in the try block, not in finally.
TickEndsIfAnswered(t) ==
    /\ refresh[t].stage \in {"answered", "failed"}
    /\ inProgress' = (refresh[t].stage = "failed")
    /\ Put(t, [refresh[t] EXCEPT !.stage = "done"])
    /\ UNCHANGED <<azure, begun, table, horizon, restarts>>

\* The outcome is logged, whether that succeeds, is skipped or throws, and finally
\* the flag is lowered.
TickEnds(t) ==
    /\ refresh[t].stage \in {"answered", "failed"}
    /\ inProgress' = FALSE
    /\ Put(t, [refresh[t] EXCEPT !.stage = "done"])
    /\ UNCHANGED <<azure, begun, table, horizon, restarts>>

(***************************************************************************)
(* The surroundings.                                                       *)
(***************************************************************************)

AzureChanges(g) ==
    /\ azure[g] < MaxChanges
    /\ azure' = [azure EXCEPT ![g] = @ + 1]
    /\ UNCHANGED <<begun, refresh, table, horizon, inProgress, restarts>>

\* The oldest captures that are still shown leave the window of 168 hours.
Age ==
    /\ horizon < Least(Len(begun), MaxAge)
    /\ horizon' = horizon + 1
    /\ UNCHANGED <<azure, begun, refresh, table, inProgress, restarts>>

Restart ==
    /\ restarts < MaxRestarts
    /\ restarts' = restarts + 1
    /\ inProgress' = FALSE
    /\ refresh' = [r \in Refreshes |->
          IF refresh[r].stage = "unused" THEN Unused ELSE [Unused EXCEPT !.stage = "done"]]
    /\ UNCHANGED <<azure, begun, table, horizon>>

(***************************************************************************)
(* Specification.                                                          *)
(***************************************************************************)

RefreshStep(r) ==
    \/ RowsRead(r) \/ NothingToAsk(r) \/ RefreshFails(r)
    \/ BatchRows(r) \/ BatchSplit(r) \/ SingleUnavailable(r)
    \/ RegionRows(r) \/ RegionUnavailable(r) \/ RegionFails(r) \/ RegionMissed(r)

SaveStep(r) == SaveCommits(r) \/ SaveFails(r)

Next ==
    \/ \E u \in Users : UserBegins(u)
    \/ \E t \in Ticks : TickBegins(t) \/ TickSkipped(t) \/ TickEnds(t)
    \/ \E r \in Refreshes : RefreshStep(r) \/ SaveStep(r)
    \/ \E g \in Changing : AzureChanges(g)
    \/ Age \/ Restart

Spec == Init /\ [][Next]_vars

\* What waits for the database goes on: its requests have a timeout.  A lookup need
\* not end: where the worker fails or there is none, a PowerShell process is started,
\* which has no timeout.
ServerStep(t) == RowsRead(t) \/ NothingToAsk(t) \/ RefreshFails(t) \/ TickEnds(t)

Fairness == \A t \in Ticks : WF_vars(ServerStep(t))

FairSpec == Spec /\ Fairness

(***************************************************************************)
(* Properties.                                                             *)
(***************************************************************************)

Scores == 0..MaxChanges
ValuesOr(scores) == scores \cup {NotAvailable}
Row(scores) == [score : ValuesOr(scores), flag : ValuesOr(scores)]
Rows(values) == UNION {[D -> values] : D \in SUBSET Regions}

RefreshOK(c) ==
    /\ c.stage \in Stages /\ c.refused \in BOOLEAN /\ c.told \in BOOLEAN
    /\ c.at \in 0..Len(begun)
    /\ c.scope \in AllScopes \cup {<<>>}
    /\ c.chunk \in Nat /\ (c.stage \in {"batch", "regions"} => c.chunk \in 1..Chunks(c))
    /\ c.stage = "regions" <=> c.left # <<>>
    /\ c.kept \in [Regions -> ValuesOr(Scores)]
    /\ c.live \in Rows(Row(Scores)) /\ c.unavailable \subseteq ToSet(c.scope)
    /\ c.save \in {"none", "pending", "stored", "lost"}

\* Every variable has its type.
TypeOK ==
    /\ azure \in [Regions -> Scores]
    /\ begun \in Seq([Regions -> Scores])
    /\ \A r \in Refreshes : RefreshOK(refresh[r])
    /\ \A i \in DOMAIN table :
          /\ table[i].at \in DOMAIN begun
          /\ table[i].rows \in Rows(Row(Scores))
    /\ horizon \in 0..Len(begun)
    /\ inProgress \in BOOLEAN
    /\ restarts \in 0..MaxRestarts

Working(t) == refresh[t].stage \notin {"unused", "done"}

\* The scheduler's refreshes exclude each other, and the flag that sees to it is up
\* exactly while one of them is working, however it ends.
SchedulerRefreshesAlone ==
    /\ \A s, t \in Ticks : Working(s) /\ Working(t) => s = t
    /\ inProgress <=> \E t \in Ticks : Working(t)

\* Azure gave it after the lookup of that time had begun.
Fresh(value, at, g) == value = NotAvailable \/ value >= begun[at][g]

\* A capture from before that time has this flag.
StoredBefore(flag, at, g) ==
    \E k \in DOMAIN table : /\ table[k].at < at /\ g \in DOMAIN table[k].rows
                            /\ table[k].rows[g].flag = flag

\* A stored score is not older than its time stamp, it is never an earlier score that was
\* carried along; a flag that is older was carried along from a capture before it
\* (livePlacementService.js:2511).
StoredScoresAreFresh ==
    \A i \in DOMAIN table : \A g \in DOMAIN table[i].rows :
        LET row == table[i].rows[g]
        IN  /\ Fresh(row.score, table[i].at, g)
            /\ Fresh(row.flag, table[i].at, g) \/ StoredBefore(row.flag, table[i].at, g)

\* Whatever is stored late, the grid never goes back from a check to one that had
\* begun before it, until both are too old to be shown.
GridNeverGoesBack ==
    [][\A g \in Regions : \/ Newest(g)' >= Newest(g)
                          \/ Newest(g)' = 0 /\ horizon' # horizon]_vars

\* livePlacementService.js:2429: "warnings without per-region metadata apply to the
\* whole chunk."  A call has consequences for the regions of its chunk.  (Violated:
\* the warning of a chunk of one region is applied to every region of the refresh.)
WarningsStayInTheirChunk ==
    [][\A r \in Refreshes :
          refresh[r].stage \in {"batch", "regions"} =>
              refresh'[r].unavailable \ refresh[r].unavailable
                  \subseteq ToSet(Chunk(refresh[r]))]_vars

\* The scheduler does not stay blocked by a refresh of its own, unless a lookup never
\* returns: how a refresh ends makes no difference.
SchedulerRecovers ==
    [](inProgress => <>(~inProgress \/ [](\E t \in Ticks : InBatch(t) \/ InRegions(t))))

=============================================================================
