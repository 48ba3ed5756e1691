----------------------------- MODULE QuotaApply -----------------------------
(***************************************************************************)
(* Applying quota moves: quotaApplyService.js, the jobs of                 *)
(* POST /api/quota/apply, and the script Apply-QuotaGroupMove.ps1 that     *)
(* sends the changes to Azure.                                             *)
(*                                                                         *)
(* A request rebuilds its plan from a captured run, which may be old;      *)
(* writes it to a file that is named after the second; and runs the script *)
(* on that file, in one PowerShell after another until one of them answers.*)
(* The script sends absolute limits, a batch for each region and, when the *)
(* batch is refused, each row on its own.  Answers may be lost: a change   *)
(* that Azure has made is then retried or reported as failed.              *)
(***************************************************************************)
EXTENDS QuotaPlan

CONSTANTS
    Requests,       \* requests to apply, queued as jobs or answered directly
    ScopeOrder,     \* the scopes of the quota group, in the order of the query
    RegionOf,       \* the region of a scope
    Asks,           \* what a request may ask for: [donor, recipient, amount, scope]
    Limit0, Usage0, \* what Azure has to begin with: scope -> subscription -> Nat
    MaxChangesAsked,\* the values of maxChanges in requests, 0 for none
    Runtimes,       \* PowerShell commands that getPowerShellCommands finds
    MaxRuns, MaxSeconds, MaxGrowth, \* bounds of Capture, NextSecond and Grow
    Growing         \* subscriptions that start using more: bounds Grow

Scopes == ToSet(ScopeOrder)
RegionsOf(rows) == {RegionOf[rows[i].scope] : i \in DOMAIN rows}

ASSUME BoundsOK ==
    /\ Runtimes \in Nat \ {0}
    /\ MaxRuns \in Nat /\ MaxSeconds \in Nat /\ MaxGrowth \in Nat
    /\ MaxChangesAsked \subseteq Nat
    /\ Asks \subseteq [donor : Subs, recipient : Subs \cup {Nobody}, amount : Nat,
                       scope : Scopes \cup {Everywhere}]
    /\ Growing \subseteq Subs
    /\ ScopeOrder \in Seq(Scopes)
    /\ Limit0 \in [Scopes -> [Subs -> Nat]] /\ Usage0 \in [Scopes -> [Subs -> Nat]]

VARIABLES
    limit,      \* the quota limits in Azure
    usage,      \* the cores in use
    seen,       \* the limits and usage that the last ingestion stored
    runs,       \* dbo.QuotaCandidateSnapshot: the captured runs, oldest first
    apply,      \* request -> what it was asked and how far it is
    files,      \* the plan files: second -> rows
    second,     \* the clock that names them
    growth      \* bounds Grow

vars == <<limit, usage, seen, runs, apply, files, second, growth>>

Stages == {"unused", "queued", "ready", "script", "completed", "failed", "lost"}
Ended == {"completed", "failed", "lost"}

NoAsk == "nothing asked"

Unused == [stage |-> "unused", ask |-> NoAsk, run |-> 0, max |-> 0,
           plan |-> <<>>, file |-> 0, runtimes |-> 0, rows |-> <<>>,
           regions |-> {}, singles |-> {}, submitted |-> 0, cores |-> 0,
           failures |-> 0]

Azure(l, u) ==
    [f \in Scopes |-> [s \in Subs |-> [current |-> u[f][s], limit |-> l[f][s]]]]

Init ==
    /\ limit = Limit0 /\ usage = Usage0
    /\ seen = Azure(Limit0, Usage0)
    /\ runs = <<>>
    /\ apply = [a \in Requests |-> Unused]
    /\ files = <<>> /\ second = 1
    /\ growth = 0

Put(a, r) == apply' = [apply EXCEPT ![a] = r]
In(a, stage) == apply[a].stage = stage

(***************************************************************************)
(* The surroundings.                                                       *)
(***************************************************************************)

Grow(f, s) ==
    /\ growth < MaxGrowth
    /\ usage[f][s] < limit[f][s]
    /\ usage' = [usage EXCEPT ![f][s] = @ + 1]
    /\ growth' = growth + 1
    /\ UNCHANGED <<limit, seen, runs, apply, files, second>>

\* A capacity ingestion stores what Azure says now.
Ingest ==
    /\ seen # Azure(limit, usage)
    /\ seen' = Azure(limit, usage)
    /\ UNCHANGED <<limit, usage, runs, apply, files, second, growth>>

\* captureQuotaCandidateSnapshots: one run of candidates, in one transaction.
Capture ==
    /\ Len(runs) < MaxRuns
    /\ runs' = Append(runs,
         [f \in Scopes |-> [s \in Subs |->
            LET c == seen[f][s]
            IN  Candidate(<<[current |-> c.current, limit |-> c.limit,
                             state |-> ComputeAvailabilityState(TRUE, c)]>>)]])
    /\ UNCHANGED <<limit, usage, seen, apply, files, second, growth>>

NextSecond ==
    /\ second < MaxSeconds
    /\ second' = second + 1
    /\ UNCHANGED <<limit, usage, seen, runs, apply, files, growth>>

(***************************************************************************)
(* applyQuotaMovePlan.                                                     *)
(***************************************************************************)

\* POST /api/quota/apply, for the latest run or for the one the user selected: what the
\* pages send names a donor and may name a recipient, an amount and a scope.
Request(a) ==
    /\ In(a, "unused")
    /\ \E ask \in Asks, k \in 0..Len(runs), m \in MaxChangesAsked :
          Put(a, [Unused EXCEPT !.stage = "queued", !.ask = ask, !.run = k, !.max = m])
    /\ UNCHANGED <<limit, usage, seen, runs, files, second, growth>>

\* getQuotaCandidateSnapshots takes the selected run, or else the latest.
RunOf(a) == IF apply[a].run = 0 THEN Len(runs) ELSE apply[a].run

\* The plan is rebuilt, of the kind that the request asks for; its ready rows go to the
\* file of this second.
BuildPlan(a) ==
    /\ In(a, "queued")
    /\ RunOf(a) # 0
    /\ \E rows \in {MovePlan(runs[RunOf(a)], ScopeOrder, apply[a].ask)} :
          /\ rows # <<>>
          /\ files' = [x \in DOMAIN files \cup {second} |->
                         IF x = second THEN rows ELSE files[x]]
          /\ Put(a, [apply[a] EXCEPT !.stage = "ready", !.plan = rows,
                                     !.run = RunOf(a), !.file = second, !.runtimes = Runtimes,
                                     !.max = IF @ = 0 THEN Len(rows) ELSE @])
    /\ UNCHANGED <<limit, usage, seen, runs, second, growth>>

\* No run was captured, no row is planned, or the database does not answer.
PlanFails(a) ==
    /\ In(a, "queued")
    /\ Put(a, [apply[a] EXCEPT !.stage = "failed"])
    /\ UNCHANGED <<limit, usage, seen, runs, files, second, growth>>

\* Mutant: the same runtime is tried again and again.
ScriptStartsAgain(a) ==
    /\ In(a, "ready")
    /\ apply[a].runtimes > 0
    /\ LET all == files[apply[a].file]
           rows == SubSeq(all, 1, Least(Len(all), apply[a].max))
       IN  Put(a, [apply[a] EXCEPT !.stage = "script", !.rows = rows,
                      !.regions = RegionsOf(rows), !.singles = {},
                      !.submitted = 0, !.cores = 0, !.failures = 0])
    /\ UNCHANGED <<limit, usage, seen, runs, files, second, growth>>

\* runQuotaApplyScript starts the next runtime; the script imports the file.
ScriptStarts(a) ==
    /\ In(a, "ready")
    /\ apply[a].runtimes > 0
    /\ LET all == files[apply[a].file]
           rows == SubSeq(all, 1, Least(Len(all), apply[a].max))
       IN  Put(a, [apply[a] EXCEPT !.stage = "script", !.rows = rows,
                      !.regions = RegionsOf(rows), !.singles = {},
                      !.submitted = 0, !.cores = 0, !.failures = 0,
                      !.runtimes = @ - 1])
    /\ UNCHANGED <<limit, usage, seen, runs, files, second, growth>>

\* What a script has read and counted is gone with it.
Unscripted(r, stage) ==
    [r EXCEPT !.stage = stage, !.rows = <<>>, !.regions = {}, !.singles = {},
              !.submitted = 0, !.cores = 0, !.failures = 0]

\* The process cannot be started, exits with an error or prints no JSON; whatever
\* it has sent is done.  The next runtime starts over.
ScriptDies(a) ==
    /\ In(a, "script")
    /\ Put(a, Unscripted(apply[a], "ready"))
    /\ UNCHANGED <<limit, usage, seen, runs, files, second, growth>>

\* All runtimes have failed, or there is no token to give them.
ApplyFails(a) ==
    /\ In(a, "ready")
    /\ apply[a].runtimes \in {0, Runtimes}
    /\ Put(a, [apply[a] EXCEPT !.stage = "failed"])
    /\ UNCHANGED <<limit, usage, seen, runs, files, second, growth>>

\* Mutant: what the batches refused is not counted when the rows are retried.
ReportWithoutFailures(a) ==
    /\ In(a, "script")
    /\ apply[a].regions = {} /\ apply[a].singles = {}
    /\ Put(a, [apply[a] EXCEPT !.stage = "completed", !.failures = 0])
    /\ UNCHANGED <<limit, usage, seen, runs, files, second, growth>>

\* The script has printed its results and the request has taken them over.
Report(a) ==
    /\ In(a, "script")
    /\ apply[a].regions = {} /\ apply[a].singles = {}
    /\ Put(a, [apply[a] EXCEPT !.stage = "completed"])
    /\ UNCHANGED <<limit, usage, seen, runs, files, second, growth>>

\* A job's success entry in the operation log throws: the job ends as failed.
LogFails(a) ==
    /\ In(a, "completed")
    /\ Put(a, [apply[a] EXCEPT !.stage = "failed"])
    /\ UNCHANGED <<limit, usage, seen, runs, files, second, growth>>

\* The process ends, and its scripts with it.
Restart ==
    /\ \E a \in Requests : apply[a].stage \notin Ended \cup {"unused"}
    /\ apply' = [a \in Requests |->
                   IF apply[a].stage \in Ended \cup {"unused"} THEN apply[a]
                   ELSE Unscripted(apply[a], "lost")]
    /\ UNCHANGED <<limit, usage, seen, runs, files, second, growth>>

(***************************************************************************)
(* Invoke-QuotaGroupMoveApply.                                             *)
(***************************************************************************)

\* The rows of a batch, by their numbers: one donor, so a batch has the rows of one
\* region.
Batch(a, region) ==
    {i \in DOMAIN apply[a].rows : RegionOf[apply[a].rows[i].scope] = region}

\* After a refused batch its rows follow in their order.
FirstOf(numbers) == CHOOSE i \in numbers : \A j \in numbers : i <= j

\* Mutant: the limits in the body are relative to the limit in force.
PatchedRelative(rows, numbers) ==
    {[f \in Scopes |-> [s \in Subs |->
        LET mine == {i \in numbers : rows[i].scope = f /\ rows[i].donor = s}
        IN  limit[f][s] - SumFunction([i \in mine |-> rows[i].amount])]]}

\* What a PATCH of these rows may leave: of the rows that name one limit, any may
\* have its way.
Patched(rows, numbers) ==
    LET named == {<<rows[i].scope, rows[i].donor>> : i \in numbers}
        winners == {win \in [named -> numbers] :
                      \A n \in named : <<rows[win[n]].scope, rows[win[n]].donor>> = n}
    IN  {[f \in Scopes |-> [s \in Subs |->
            IF <<f, s>> \in named THEN rows[win[<<f, s>>]].proposed ELSE limit[f][s]]] :
           win \in winners}

CoresOf(rows, numbers) == SumFunction([i \in numbers |-> rows[i].amount])

\* The rows are with Azure, but the answer does not arrive: Invoke-WithRetry sends
\* them again, or gives up.
Unanswered(a) ==
    /\ In(a, "script")
    /\ \/ /\ apply[a].singles = {}
          /\ \E g \in apply[a].regions : limit' \in Patched(apply[a].rows, Batch(a, g))
       \/ /\ apply[a].singles # {}
          /\ limit' \in Patched(apply[a].rows, {FirstOf(apply[a].singles)})
    /\ UNCHANGED <<usage, seen, runs, apply, files, second, growth>>

BatchSubmitted(a, g) ==
    /\ In(a, "script")
    /\ apply[a].singles = {}
    /\ g \in apply[a].regions
    /\ limit' \in Patched(apply[a].rows, Batch(a, g))
    /\ Put(a, [apply[a] EXCEPT !.regions = @ \ {g},
                               !.submitted = @ + Cardinality(Batch(a, g)),
                               !.cores = @ + CoresOf(apply[a].rows, Batch(a, g))])
    /\ UNCHANGED <<usage, seen, runs, files, second, growth>>

\* Mutant: a refused batch counts as submitted.
BatchFailedCounted(a, g) ==
    /\ In(a, "script")
    /\ apply[a].singles = {}
    /\ g \in apply[a].regions
    /\ Put(a, [apply[a] EXCEPT !.regions = @ \ {g},
                               !.submitted = @ + Cardinality(Batch(a, g))])
    /\ UNCHANGED <<limit, usage, seen, runs, files, second, growth>>

\* The batch is reported as failed and its rows are tried one by one.
BatchFailed(a, g) ==
    /\ In(a, "script")
    /\ apply[a].singles = {}
    /\ g \in apply[a].regions
    /\ Put(a, [apply[a] EXCEPT !.regions = @ \ {g}, !.singles = Batch(a, g),
                               !.failures = @ + 1])
    /\ UNCHANGED <<limit, usage, seen, runs, files, second, growth>>

SingleSubmitted(a) ==
    /\ In(a, "script")
    /\ apply[a].singles # {}
    /\ limit' \in Patched(apply[a].rows, {FirstOf(apply[a].singles)})
    /\ Put(a, [apply[a] EXCEPT !.singles = @ \ {FirstOf(@)}, !.submitted = @ + 1,
                               !.cores = @ + CoresOf(apply[a].rows, {FirstOf(apply[a].singles)})])
    /\ UNCHANGED <<usage, seen, runs, files, second, growth>>

SingleFailed(a) ==
    /\ In(a, "script")
    /\ apply[a].singles # {}
    /\ Put(a, [apply[a] EXCEPT !.singles = @ \ {FirstOf(@)}, !.failures = @ + 1])
    /\ UNCHANGED <<limit, usage, seen, runs, files, second, growth>>

(***************************************************************************)
(* Specification.                                                          *)
(***************************************************************************)

ApplyStep(a) ==
    \/ BuildPlan(a) \/ PlanFails(a)
    \/ ScriptStarts(a) \/ ScriptDies(a) \/ ApplyFails(a) \/ Report(a)
    \/ \E g \in apply[a].regions : BatchSubmitted(a, g) \/ BatchFailed(a, g)
    \/ SingleSubmitted(a) \/ SingleFailed(a)

Next ==
    \/ \E a \in Requests : Request(a) \/ ApplyStep(a) \/ Unanswered(a) \/ LogFails(a)
    \/ \E f \in Scopes, s \in Growing : Grow(f, s)
    \/ Ingest \/ Capture \/ NextSecond \/ Restart

\* What the server does itself goes on: its database requests have a timeout.  The
\* PowerShell processes it starts have none, and need not end: neither the script nor
\* the ones that look for its modules and install them beforehand.
ServerStep(a) ==
    \/ PlanFails(a) \/ BuildPlan(a)
    \/ apply[a].runtimes = 0 /\ ApplyFails(a)

Fairness == \A a \in Requests : WF_vars(ServerStep(a))

Spec == Init /\ [][Next]_vars
FairSpec == Spec /\ Fairness

(***************************************************************************)
(* Properties.                                                             *)
(***************************************************************************)

RowType == [scope : Scopes, donor : Subs, recipient : Subs \cup {Pool}, amount : Nat,
            proposed : Nat]

\* Every variable has its type.
TypeOK ==
    /\ limit \in [Scopes -> [Subs -> Nat]] /\ usage \in [Scopes -> [Subs -> Nat]]
    /\ \A a \in Requests :
          /\ apply[a].stage \in Stages
          /\ In(a, "unused") \/ apply[a].ask \in Asks
          /\ apply[a].run \in 0..Len(runs)
          /\ ToSet(apply[a].rows) \subseteq RowType
          /\ apply[a].singles \subseteq DOMAIN apply[a].rows
          /\ {apply[a].submitted, apply[a].cores, apply[a].failures} \subseteq Nat
    /\ \A x \in DOMAIN files : x \in 1..second /\ ToSet(files[x]) \subseteq RowType

\* However requests are repeated, interleaved, retried, cut short or taken from
\* an old run, whatever recipients and amounts they name, the limit they leave a
\* donor keeps the donor's safety buffer as some captured run knew it: no change
\* is ever made twice.
DonorsKeepCapturedBuffer ==
    \A f \in Scopes, s \in Subs :
        limit[f][s] # Limit0[f][s] =>
            \E k \in DOMAIN runs :
                LET c == runs[k][f][s]
                IN  limit[f][s] >= c.current + SafetyBuffer(c.limit)

\* A request that ends without a failure has submitted every row that its script
\* read, up to maxChanges; what it did not submit, it reports.
NothingUnreported ==
    \A a \in Requests :
        In(a, "completed") /\ apply[a].failures = 0 =>
            /\ apply[a].submitted = Len(apply[a].rows)
            /\ apply[a].cores = CoresOf(apply[a].rows, DOMAIN apply[a].rows)

\* The limit of a family that a request reports as submitted has been changed, and
\* is one that some request's plan proposed.
SubmittedMeansChanged ==
    \A a \in Requests :
        In(a, "completed") /\ apply[a].submitted = Len(apply[a].rows) =>
            \A i \in DOMAIN apply[a].rows :
                LET r == apply[a].rows[i]
                IN  limit[r.scope][r.donor] \in
                      {row.proposed : row \in UNION {ToSet(apply[b].rows) \cup
                                                     ToSet(apply[b].plan) : b \in Requests}}

\* api-contract.md: POST /api/quota/apply "rebuilds the selected move plan on the
\* server, generates an apply-ready quota-group CSV, and invokes the dedicated"
\* script: the rows that the script is given are rows of the request's own plan.
\* (Violated: two requests of one second share a file.)
AppliesItsOwnPlan ==
    \A a \in Requests :
        In(a, "script") => ToSet(apply[a].rows) \subseteq ToSet(apply[a].plan)

\* Every request ends, whatever its scripts do, unless one process runs for ever.
AppliesEnd ==
    \A a \in Requests :
        [](In(a, "queued") => <>(\/ apply[a].stage \in Ended
                                 \/ []In(a, "ready") \/ []In(a, "script")))

=============================================================================
