--------------------------- MODULE Recommendations ---------------------------
(***************************************************************************)
(* Recommendations of SKUs that can stand in for one that is short         *)
(* (livePlacementService.js): the chain of runners that are asked for      *)
(* them, and the choice that the direct runner makes from what ARM lists.  *)
(*                                                                         *)
(* The worker and the PowerShell module are external: they answer, with or *)
(* without a warning of their own, or fail, in particular because a runner *)
(* printed no JSON.                                                        *)
(***************************************************************************)
EXTENDS Integers, FiniteSets, Sequences, SequencesExt

CONSTANTS
    Offers,     \* the listings of ARM a lookup may find: sets of [sku, region, status, zones]
    Target,     \* the SKU to replace
    TopN, MinScore

\* Capabilities are numbers.
Measured(sku) == sku.cpu \in Nat /\ sku.memory \in Nat /\ sku.iops \in Nat /\ sku.disks \in Nat

\* A listing is finite, and each of its entries has a place of its own.
ASSUME ListingsOK ==
    /\ TopN \in Nat /\ MinScore \in Int /\ Measured(Target)
    /\ \A offers \in Offers :
          /\ IsFiniteSet(offers)
          /\ \A o \in offers : Measured(o.sku) /\ o.order \in Nat /\ o.zones \in Nat
          /\ \A o, p \in offers : o.order = p.order => o = p

VARIABLES
    config,     \* [direct, worker, noFallback] : the environment
    spot,       \* showSpot of the request
    lookup      \* [at, spot, ran, warned, noOutput, listed, found]

lookupVars == <<config, spot, lookup>>

----------------------------------------------------------------------------
(* Profiles, compatibility and similarity.  A SKU is its profile: [name,   *)
(* family, version, cpu, memory, nics, iops, disks, arch, features], 0     *)
(* where a capability is not listed.                                       *)

Larger(a, b) == IF a >= b THEN a ELSE b
Smaller(a, b) == IF a <= b THEN a ELSE b

\* testSkuCompatibility: features are accelerated networking, premium storage, NVMe,
\* ephemeral OS disks and ultra disks.
Compatible(target, sku) ==
    /\ sku.family = "B" => target.family = "B"
    /\ sku.cpu > 0 /\ target.cpu > 0 =>
          sku.cpu >= target.cpu /\ sku.cpu <= 2 * target.cpu
    /\ sku.memory > 0 /\ target.memory > 0 => sku.memory >= target.memory
    /\ target.nics > 1 => sku.nics >= target.nics
    /\ target.features \subseteq sku.features

\* Math.round of (1 - |a - b| / max(a, b)) * weight.
Near(a, b, weight) ==
    (2 * weight * Smaller(a, b) + Larger(a, b)) \div (2 * Larger(a, b))
Both(a, b) == a > 0 /\ b > 0

VersionBonus(version) ==
    CASE version >= 7 -> 4 [] version = 6 -> 3 [] version = 5 -> 2 [] OTHER -> 1
OtherFamilyBonus(version) ==
    CASE version >= 7 -> 10 [] version = 6 -> 9 [] version = 5 -> 7
      [] version = 4 -> 5 [] version = 3 -> 3 [] version = 2 -> 1 [] OTHER -> 0

\* getSkuSimilarityScore; a family is [letter, rest] here.
Similarity(t, s) ==
    LET sameFamily == t.family = s.family
        version == IF ~sameFamily THEN OtherFamilyBonus(s.version)
                   ELSE IF s.version > t.version THEN 8 + VersionBonus(s.version)
                   ELSE IF s.version = t.version THEN 5 ELSE 1
        likeness == IF sameFamily THEN 18 ELSE IF t.letter = s.letter THEN 9 ELSE 0
        cpu == IF Both(t.cpu, s.cpu) THEN Near(t.cpu, s.cpu, 20) ELSE 0
        memory == IF Both(t.memory, s.memory) THEN Near(t.memory, s.memory, 20) ELSE 0
        arch == IF t.arch = s.arch THEN 10 ELSE 0
        premium == IF "premium" \in t.features => "premium" \in s.features THEN 5 ELSE 0
        iops == IF t.iops = 0 THEN 8 ELSE IF s.iops > 0 THEN Near(t.iops, s.iops, 8) ELSE 0
        disks == IF t.disks = 0 THEN 7 ELSE IF s.disks > 0 THEN Near(t.disks, s.disks, 7) ELSE 0
    IN  Smaller(100, cpu + memory + likeness + version + arch + premium + iops + disks)

\* getRestrictionDetails: the zones of the region that are neither limited nor restricted,
\* and the status they give.
RestrictionStatus(zones, limited, restricted) ==
    LET ok == zones \ (limited \cup restricted) IN
    IF restricted # {} THEN IF ok = {} THEN "RESTRICTED" ELSE "PARTIAL"
    ELSE IF limited # {} THEN IF ok = {} THEN "LIMITED" ELSE "CAPACITY-CONSTRAINED"
    ELSE "OK"

----------------------------------------------------------------------------
(* runRecommendationLookupDirect.                                          *)
Weight(status) == CASE status = "OK" -> 0 [] status = "LIMITED" -> 1 [] OTHER -> 2

Candidates(offers) ==
    {o \in offers : o.sku.name # Target.name /\ Compatible(Target, o.sku)}

Eligible(offers) ==
    {o \in Candidates(offers) :
        /\ o.sku.cpu >= Target.cpu /\ o.sku.memory >= Target.memory
        /\ Similarity(Target, o.sku) >= MinScore}

BelowMinSpec(offers) ==
    {o.sku : o \in {c \in Candidates(offers) :
        /\ c.status = "OK"
        /\ c.sku.cpu < Target.cpu \/ c.sku.memory < Target.memory}}

\* Score, then status, then zones; a tie keeps the order of the listing, here of names
\* and regions.
Precedes(a, b) ==
    LET sa == Similarity(Target, a.sku)
        sb == Similarity(Target, b.sku)
    IN  \/ sa > sb
        \/ sa = sb /\ Weight(a.status) < Weight(b.status)
        \/ sa = sb /\ Weight(a.status) = Weight(b.status) /\ a.zones > b.zones
        \/ /\ sa = sb /\ Weight(a.status) = Weight(b.status) /\ a.zones = b.zones
           /\ a.order < b.order

\* Each SKU once, where it comes first.
OncePerSku(offers) ==
    {o \in offers : \A p \in offers : p # o /\ p.sku = o.sku => Precedes(o, p)}

Ranked(offers) ==
    LET once == OncePerSku(offers)
    IN  [i \in 1..Cardinality(once) |->
            CHOOSE o \in once : Cardinality({p \in once : Precedes(p, o)}) = i - 1]

\* A further SKU, of a kind that the ranking lacks: the one with the highest score, in
\* the first region that was scanned.
Appended(ranking, kind) ==
    LET best == {o \in kind : \A p \in kind :
                    \/ Similarity(Target, o.sku) > Similarity(Target, p.sku)
                    \/ Similarity(Target, o.sku) = Similarity(Target, p.sku)
                       /\ o.order <= p.order}
    IN  IF kind = {} \/ \E i \in DOMAIN ranking : ranking[i] \in kind THEN ranking
        ELSE Append(ranking, CHOOSE o \in best : TRUE)

SameCpu(offers) == {o \in offers : o.sku.cpu = Target.cpu}
EnoughIops(offers) == {o \in offers : Target.iops > 0 /\ o.sku.iops >= Target.iops}

\* As if the cut to topN came last.
CutLast(offers) ==
    LET eligible == Eligible(offers)
        all == Appended(Appended(Ranked(eligible), SameCpu(eligible)), EnoughIops(eligible))
    IN  SubSeq(all, 1, Smaller(TopN, Len(all)))

Recommend(offers) ==
    LET eligible == Eligible(offers)
        ranked == Ranked(eligible)
        top == SubSeq(ranked, 1, Smaller(TopN, Len(ranked)))
    IN  Appended(Appended(top, SameCpu(eligible)), EnoughIops(eligible))

\* The target is found in some region, or the lookup throws.
TargetFound(offers) == \E o \in offers : o.sku = Target

----------------------------------------------------------------------------
(* getCapacityRecommendations.                                             *)
Runner == IF config.worker THEN "worker" ELSE "local"

LookupInit ==
    /\ config \in [direct : BOOLEAN, worker : BOOLEAN, noFallback : BOOLEAN]
    /\ spot \in BOOLEAN
    /\ lookup = [at |-> IF config.direct THEN "direct" ELSE "first", spot |-> spot,
                 ran |-> {}, warned |-> FALSE, noOutput |-> FALSE,
                 listed |-> {}, found |-> <<>>]

Goes(at, changes) == lookup' = [changes EXCEPT !.at = at]

DirectAnswers ==
    /\ lookup.at = "direct"
    /\ \E offers \in Offers :
          /\ TargetFound(offers)
          /\ Goes("answered", [lookup EXCEPT !.listed = offers, !.ran = {"direct"},
                                             !.found = Recommend(offers)])
    /\ UNCHANGED <<config, spot>>

DirectFails ==
    /\ lookup.at = "direct"
    /\ Goes("afterDirect", lookup)
    /\ UNCHANGED <<config, spot>>

\* A runner answers; what the request has become is said in a warning, unless one of
\* the runner's own says it.
Answers(runner, degraded) ==
    /\ \E own \in BOOLEAN :
          Goes("answered", [lookup EXCEPT !.ran = @ \cup {runner},
                                          !.warned = own \/ degraded])
    /\ UNCHANGED <<config, spot>>

AnswersWithoutSpot(runner) ==
    /\ Goes("answered", [lookup EXCEPT !.ran = @ \cup {runner}, !.spot = FALSE,
                                       !.warned = TRUE])
    /\ UNCHANGED <<config, spot>>

RunnerFails(runner, next, noOutput) ==
    /\ Goes(next, [lookup EXCEPT !.ran = @ \cup {runner}, !.noOutput = noOutput])
    /\ UNCHANGED <<config, spot>>

AfterDirect ==
    /\ lookup.at = "afterDirect"
    /\ Answers(Runner, TRUE) \/ RunnerFails(Runner, "threw", FALSE)

FirstAttempt ==
    /\ lookup.at = "first"
    /\ \/ Answers(Runner, FALSE)
       \/ \E noOutput \in BOOLEAN :
             RunnerFails(Runner, IF spot THEN "retry" ELSE "last", noOutput)

\* The same runner again without spot prices.
RetryWithoutSpot ==
    /\ lookup.at = "retry"
    /\ \/ AnswersWithoutSpot(Runner)
       \/ RunnerFails(Runner, "last", lookup.noOutput)

\* The local runner takes over from the worker; if it may not, or there is no worker, it
\* runs once more without spot prices when the first failure was an empty output.
LastAttempt ==
    /\ lookup.at = "last"
    /\ IF config.worker /\ ~config.noFallback
       THEN Answers("local", TRUE) \/ RunnerFails("local", "threw", FALSE)
       ELSE IF spot /\ lookup.noOutput
       THEN AnswersWithoutSpot("local") \/ RunnerFails("local", "threw", TRUE)
       ELSE Goes("threw", lookup) /\ UNCHANGED <<config, spot>>

LookupNext ==
    \/ DirectAnswers \/ DirectFails \/ AfterDirect
    \/ FirstAttempt \/ RetryWithoutSpot \/ LastAttempt

LookupSpec == LookupInit /\ [][LookupNext]_lookupVars

----------------------------------------------------------------------------
\* An answer is what was asked for, or says that it is not: from the first runner and
\* with spot prices, or with a warning; and what the direct runner recommends has each
\* SKU once, a like-for-like SKU and one with enough IOPS whenever ARM lists one that
\* is eligible, however many better scores there are.
AnswersSayWhatTheyAre ==
    lookup.at = "answered" =>
        /\ \/ lookup.warned
           \/ /\ lookup.spot = spot
              /\ lookup.ran = {IF config.direct THEN "direct" ELSE Runner}
        /\ \A i, j \in DOMAIN lookup.found :
              lookup.found[i].sku = lookup.found[j].sku => i = j
        /\ SameCpu(Eligible(lookup.listed)) # {}
              => \E i \in DOMAIN lookup.found :
                    lookup.found[i] \in SameCpu(Eligible(lookup.listed))
        /\ EnoughIops(Eligible(lookup.listed)) # {}
              => \E i \in DOMAIN lookup.found :
                    lookup.found[i] \in EnoughIops(Eligible(lookup.listed))

\* "true disables App Service fallback when the worker is configured but unavailable".
WorkerIsNotReplaced ==
    config.worker /\ config.noFallback => "local" \notin lookup.ran
=============================================================================
