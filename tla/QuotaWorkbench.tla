--------------------------- MODULE QuotaWorkbench ---------------------------
(***************************************************************************)
(* The quota workbench of the React page: five steps from a management     *)
(* group to an applied move.  Every edit of the form clears the plan and   *)
(* the simulation; the answer to a request is taken whatever the form has  *)
(* become since it was sent, and only one request of a kind is under way.  *)
(***************************************************************************)
EXTENDS Integers, FiniteSets

CONSTANTS
    ManagementGroups, Groups, Runs,
    Rows,           \* the quota candidates: [sub, movable, need, sku]
    Amounts,        \* the numbers typed into "Cores To Move"
    None            \* nothing selected, loaded, under way or shown

\* Every candidate row has quota to give or needs some, and no two give the same.

VARIABLES
    form,       \* [management, group, run, candidate, donor, sku, amount]
    lists,      \* [groups, runs, report] : the scope each list was loaded for
    candidates, \* the candidate rows have been generated
    plan,       \* the parameters that planRows answer, or None
    impact,     \* the same of impactRows
    groupLoads, \* the management groups whose quota groups are being loaded
    calls,      \* [kind -> the parameters of the request under way, or None]
    applied     \* the last POST /api/quota/apply: [sent, simulated], or None

workVars == <<form, lists, candidates, plan, impact, groupLoads, calls,
              applied>>

Kinds == {"discover", "report", "generate", "capture", "refresh", "runs",
          "plan", "simulate", "apply"}

EmptyForm == [management |-> None, group |-> "all", run |-> None, candidate |-> None,
              donor |-> None, sku |-> "any", amount |-> 0]

WorkInit ==
    /\ form = EmptyForm
    /\ lists = [groups |-> None, runs |-> None, report |-> None]
    /\ candidates = FALSE
    /\ plan = None /\ impact = None /\ applied = None
    /\ groupLoads = {}
    /\ calls = [k \in Kinds |-> None]

Scope == [management |-> form.management, group |-> form.group]

----------------------------------------------------------------------------
(* The form.                                                               *)
Mode(row) == IF row.movable > 0 THEN "donor" ELSE "recipient"

\* The other rows that can donate, the one with the most quota first.
DonorRows(candidate, generated) ==
    {r \in Rows : /\ generated /\ r.movable > 0
                  /\ candidate # None /\ Mode(candidate) = "recipient"
                       => r.sub # candidate.sub}

\* The effect after every change: the donor of a donor row, a donor that is still
\* offered, or the first one offered.
WithDonor(f, generated) ==
    LET offered == DonorRows(f.candidate, generated) IN
    IF f.candidate # None /\ Mode(f.candidate) = "donor"
    THEN [f EXCEPT !.donor = f.candidate.sub]
    ELSE IF offered = {} THEN [f EXCEPT !.donor = None]
    ELSE IF \E r \in offered : r.sub = f.donor THEN f
    ELSE [f EXCEPT !.donor =
            (CHOOSE r \in offered : \A s \in offered : s.movable <= r.movable).sub]

\* What buildPlan, simulatePlan and applyPlan send.
Parameters ==
    [management |-> form.management, group |-> form.group, run |-> form.run,
     donor |-> form.donor, sku |-> form.sku, amount |-> form.amount,
     recipient |-> IF Mode(form.candidate) = "recipient" THEN form.candidate.sub ELSE None]

Edit(f) ==
    /\ form' = WithDonor(f, candidates)
    /\ plan' = None /\ impact' = None
    /\ UNCHANGED <<candidates, applied>>

SelectManagementGroup(m) ==
    /\ Edit([EmptyForm EXCEPT !.management = m])
    /\ lists' = [lists EXCEPT !.report = None]
    /\ groupLoads' = groupLoads \cup {m}     \* the effect that loads its groups
    /\ UNCHANGED calls

SelectGroup(g) ==
    /\ lists.groups # None
    /\ Edit([EmptyForm EXCEPT !.management = form.management, !.group = g])
    /\ lists' = [lists EXCEPT !.report = None]
    /\ UNCHANGED <<groupLoads, calls>>

SelectCandidate(row) ==
    /\ candidates
    /\ Edit([form EXCEPT !.candidate = row, !.sku = "any",
                         !.donor = IF Mode(row) = "donor" THEN row.sub ELSE None,
                         !.amount = IF Mode(row) = "donor" THEN row.movable ELSE row.need])
    /\ UNCHANGED <<lists, groupLoads, calls>>

SelectSku ==
    /\ form.candidate # None
    /\ \E sku \in {"any", form.candidate.sku} :
          Edit([form EXCEPT !.sku = sku, !.donor = None])
    /\ UNCHANGED <<lists, groupLoads, calls>>

TypeAmount(n) ==
    /\ form.candidate # None
    /\ Edit([form EXCEPT !.amount = n])
    /\ UNCHANGED <<lists, groupLoads, calls>>

SelectRun(r) ==
    /\ lists.runs # None
    /\ Edit([form EXCEPT !.run = r, !.donor = None])
    /\ UNCHANGED <<lists, groupLoads, calls>>

SelectDonor(row) ==
    /\ form.candidate # None => Mode(form.candidate) = "recipient"
    /\ row \in DonorRows(form.candidate, candidates)
    /\ Edit([form EXCEPT !.donor = row.sub])
    /\ UNCHANGED <<lists, groupLoads, calls>>

Choose ==
    \/ \E m \in ManagementGroups : SelectManagementGroup(m)
    \/ \E g \in Groups \cup {"all"} : SelectGroup(g)
    \/ \E row \in Rows : SelectCandidate(row) \/ SelectDonor(row)
    \/ SelectSku
    \/ \E n \in Amounts : TypeAmount(n)
    \/ \E r \in Runs : SelectRun(r)

----------------------------------------------------------------------------
(* The requests: guards of the actions and of their buttons.               *)
HasGroup == form.group # "all"
PlannerReady ==
    /\ form.candidate # None /\ form.run # None /\ form.donor # None
    /\ HasGroup /\ form.amount > 0

Send(kind, parameters) ==
    /\ calls[kind] = None
    /\ calls' = [calls EXCEPT ![kind] = parameters]
    /\ UNCHANGED <<form, lists, candidates, plan, groupLoads>>

Ask ==
    \/ /\ UNCHANGED <<impact, applied>>
       /\ \/ form.management # None /\ Send("discover", form.management)
          \/ form.management # None /\ Send("refresh", Scope)
          \/ HasGroup /\ \E k \in {"report", "generate", "capture", "runs"} : Send(k, Scope)
          \/ PlannerReady /\ plan # None /\ Send("simulate", Parameters)
    \/ /\ PlannerReady /\ Send("plan", Parameters)
       /\ impact' = None
       /\ UNCHANGED applied
    \/ /\ plan # None /\ impact # None /\ calls["apply"] = None
       /\ form.candidate # None /\ form.run # None /\ HasGroup
       /\ Send("apply", Parameters)
       /\ applied' = [sent |-> Parameters, simulated |-> impact]
       /\ UNCHANGED impact

----------------------------------------------------------------------------
(* The answers.                                                            *)
Done(kind) ==
    /\ calls[kind] # None
    /\ calls' = [calls EXCEPT ![kind] = None]
    /\ UNCHANGED groupLoads

\* Loading the groups of a management group starts the form again.
GroupsLoaded(m) ==
    /\ Edit([form EXCEPT !.group = "all", !.run = None, !.donor = None])
    /\ lists' = [lists EXCEPT !.groups = m]
    /\ groupLoads' = groupLoads \ {m}
    /\ UNCHANGED calls

GroupsNotLoaded(m) ==
    /\ form' = [form EXCEPT !.group = "all"]
    /\ lists' = [lists EXCEPT !.groups = None]
    /\ groupLoads' = groupLoads \ {m}
    /\ UNCHANGED <<candidates, plan, impact, calls, applied>>

ListsLoaded ==
    /\ \/ Done("discover") /\ lists' = [lists EXCEPT !.groups = calls["discover"]]
       \/ Done("report") /\ lists' = [lists EXCEPT !.report = calls["report"]]
       \/ Done("capture") /\ lists' = [lists EXCEPT !.runs = calls["capture"]]
       \/ /\ Done("refresh")
          /\ LET asked == calls["refresh"]
                 perGroup == IF asked.group = "all" THEN None ELSE asked
             IN  lists' = [groups |-> asked.management, runs |-> perGroup, report |-> perGroup]
    /\ UNCHANGED <<form, candidates, plan, impact, applied>>

\* New candidates drop the selected one, and keep the plan.
Generated ==
    /\ Done("generate")
    /\ candidates' = TRUE
    /\ form' = WithDonor([form EXCEPT !.donor = None, !.candidate = None, !.amount = 0], TRUE)
    /\ UNCHANGED <<lists, plan, impact, applied>>

\* The newest run, unless one is selected; the donor starts again, and the plan is kept.
RunsLoaded ==
    /\ Done("runs")
    /\ lists' = [lists EXCEPT !.runs = calls["runs"]]
    /\ \E newest \in Runs :
          form' = WithDonor([form EXCEPT !.run = IF @ = None THEN newest ELSE @,
                                         !.donor = None], candidates)
    /\ UNCHANGED <<candidates, plan, impact, applied>>

PlanBuilt ==
    /\ Done("plan")
    /\ plan' = calls["plan"]
    /\ UNCHANGED <<form, lists, candidates, impact, applied>>

Simulated ==
    /\ Done("simulate")
    /\ plan' = calls["simulate"] /\ impact' = calls["simulate"]
    /\ UNCHANGED <<form, lists, candidates, applied>>

AppliedAnswer ==
    /\ Done("apply")
    /\ plan' = calls["apply"]
    /\ UNCHANGED <<form, lists, candidates, impact, applied>>

\* An error clears the report, and nothing else.
Failed(kind) ==
    /\ Done(kind)
    /\ lists' = IF kind = "report" THEN [lists EXCEPT !.report = None] ELSE lists
    /\ UNCHANGED <<form, candidates, plan, impact, applied>>

WorkNext ==
    \/ Choose \/ Ask
    \/ \E m \in groupLoads : GroupsLoaded(m) \/ GroupsNotLoaded(m)
    \/ ListsLoaded \/ Generated \/ RunsLoaded
    \/ PlanBuilt \/ Simulated \/ AppliedAnswer
    \/ \E kind \in Kinds : Failed(kind)

WorkSpec == WorkInit /\ [][WorkNext]_workVars

----------------------------------------------------------------------------
\* "Build the move plan first, then simulate impact on donors and recipients before
\* applying anything": a move that is applied has the parameters of the simulation on
\* the screen.
AppliesWhatWasSimulated == applied # None => applied.sent = applied.simulated
=============================================================================
