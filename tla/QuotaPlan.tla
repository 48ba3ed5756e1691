----------------------------- MODULE QuotaPlan -----------------------------
(***************************************************************************)
(* The quota planner: quotaCandidateService.js turns capacity rows into    *)
(* candidates, quotaPlanService.js turns a captured run of candidates into *)
(* a move plan and projects its impact.  Everything here is a function of  *)
(* its arguments; the module QuotaApply uses it step by step.              *)
(*                                                                         *)
(* A scope is a quota family of one region.  The candidates of a scope are *)
(* a function from subscriptions to [current, limit, state]: grouping by   *)
(* subscription leaves one candidate of a subscription in a scope.         *)
(***************************************************************************)
EXTENDS Integers, SequencesExt

CONSTANT SubOrder   \* the subscriptions, in the order of their names

Subs == ToSet(SubOrder)

ASSUME SubscriptionsDiffer == SubOrder \in Seq(Subs) /\ IsInjective(SubOrder)

Position(s) == CHOOSE i \in DOMAIN SubOrder : SubOrder[i] = s

Least(a, b) == IF a < b THEN a ELSE b
Greatest(a, b) == IF a > b THEN a ELSE b

(***************************************************************************)
(* Candidates.                                                             *)
(***************************************************************************)

\* Math.max(5, Math.round(limit * 0.1)).
SafetyBuffer(limit) == Greatest(5, (limit + 5) \div 10)

Available(c) == c.limit - c.current

\* suggestedMovable.
Movable(c) == Greatest(0, Available(c) - SafetyBuffer(c.limit))

AvailabilityStates == {"RESTRICTED", "CONSTRAINED", "LIMITED", "OK"}

\* What a capacity ingestion calls a SKU in a region: RESTRICTED without one.
ComputeAvailabilityState(hasSku, c) ==
    CASE ~hasSku -> "RESTRICTED"
      [] hasSku /\ Available(c) <= 0 -> "CONSTRAINED"
      [] hasSku /\ Available(c) \in 1..SafetyBuffer(c.limit) -> "LIMITED"
      [] OTHER -> "OK"

\* A subscription's capacity rows of a scope are added up, and its state is the
\* worst of theirs.
Candidate(rows) ==
    [current |-> SumFunction([i \in DOMAIN rows |-> rows[i].current]),
     limit   |-> SumFunction([i \in DOMAIN rows |-> rows[i].limit]),
     state   |-> LET states == {rows[i].state : i \in DOMAIN rows}
                 IN  CASE "CONSTRAINED" \in states -> "CONSTRAINED"
                       [] "CONSTRAINED" \notin states /\ "LIMITED" \in states
                            -> "LIMITED"
                       [] OTHER -> rows[1].state]

(***************************************************************************)
(* Recipients.                                                             *)
(***************************************************************************)

\* Mutant: a subscription above its limit is taken to be at its limit.
NeedClamped(c) == Greatest(0, SafetyBuffer(c.limit) - Greatest(0, Available(c)))

\* getRecipientNeed.
RecipientNeed(c) ==
    LET shortfall == Greatest(0, SafetyBuffer(c.limit) - Available(c))
    IN  IF shortfall > 0 THEN shortfall
        ELSE IF c.state \in {"CONSTRAINED", "LIMITED"} /\ Available(c) <= 0
             THEN Greatest(1, Least(5, SafetyBuffer(c.limit)))
             ELSE 0

AvailabilityRank(state) ==
    CASE state = "CONSTRAINED" -> 0 [] state = "LIMITED" -> 1 [] OTHER -> 2

\* Mutant: the comparison of the needs is the wrong way round.
ServedBySmallest(scope, r, s) ==
    LET need(x) == RecipientNeed(scope[x])
        rank(x) == AvailabilityRank(scope[x].state)
    IN  \/ rank(r) < rank(s)
        \/ rank(r) = rank(s) /\ need(r) < need(s)
        \/ rank(r) = rank(s) /\ need(r) = need(s) /\ Position(r) < Position(s)

\* The recipients are served by state, then by need, then in the order of the query.
ServedBefore(scope, r, s) ==
    LET rank(x) == AvailabilityRank(scope[x].state)
        need(x) == RecipientNeed(scope[x])
    IN  \/ rank(r) < rank(s)
        \/ rank(r) = rank(s) /\ need(r) > need(s)
        \/ rank(r) = rank(s) /\ need(r) = need(s) /\ Position(r) < Position(s)

\* The subscriptions that need something, in that order.
Recipients(scope) ==
    LET needy == {s \in Subs : RecipientNeed(scope[s]) > 0}
    IN  CHOOSE order \in [1..Cardinality(needy) -> needy] :
           \A i, j \in DOMAIN order :
              i < j => ServedBefore(scope, order[i], order[j])

(***************************************************************************)
(* Plans.                                                                  *)
(***************************************************************************)

\* buildApplyMetadata: the row's own transfer off the limit of the run.
ProposedLimit(c, amount) == Greatest(0, c.limit - amount)

PlanRow(name, scope, donor, recipient, amount) ==
    [scope |-> name, donor |-> donor, recipient |-> recipient, amount |-> amount,
     proposed |-> ProposedLimit(scope[donor], amount)]

\* Mutant: the donor's remaining quota is not counted down.
ServedUncounted(name, scope, donor, recipient, done) ==
    LET amount == Least(done.left, RecipientNeed(scope[recipient]))
    IN  IF recipient = donor \/ amount <= 0 THEN done
        ELSE [left |-> done.left,
              rows |-> Append(done.rows, PlanRow(name, scope, donor, recipient, amount))]

\* One recipient is served, with what the donor has left; a subscription is no donor
\* to itself.
Served(name, scope, donor, recipient, done) ==
    LET amount == Least(done.left, RecipientNeed(scope[recipient]))
    IN  IF recipient = donor \/ amount <= 0 THEN done
        ELSE [left |-> done.left - amount,
              rows |-> Append(done.rows, PlanRow(name, scope, donor, recipient, amount))]

\* The rows of one scope, recipient by recipient.
PlanScope(name, scope, donor) ==
    LET order == Recipients(scope)
        done[i \in 0..Len(order)] ==
          IF i = 0 THEN [left |-> Movable(scope[donor]), rows |-> <<>>]
          ELSE Served(name, scope, donor, order[i], done[i - 1])
    IN  done[Len(order)].rows

\* The default plan: every scope of the run, for a given donor.
DefaultPlan(run, scopeOrder, donor) ==
    FlattenSeq([i \in DOMAIN scopeOrder |->
                  PlanScope(scopeOrder[i], run[scopeOrder[i]], donor)])

\* A plan for one recipient.  An amount of 0 stands for none requested; a request
\* that must be refused has no rows.
ScopedPlan(name, scope, donor, recipient, requested) ==
    LET need == RecipientNeed(scope[recipient])
        asked == IF requested = 0 THEN need ELSE requested
        amount == Least(Movable(scope[donor]), asked)
    IN  IF donor = recipient \/ Movable(scope[donor]) <= 0 \/ need <= 0
        THEN <<>>
        ELSE <<PlanRow(name, scope, donor, recipient, amount)>>

Pool == "group pool"

\* A plan that gives quota back to the group.
DonorScopedPlan(name, scope, donor, requested) ==
    IF Movable(scope[donor]) <= 0 \/ requested <= 0
    THEN <<>>
    ELSE <<PlanRow(name, scope, donor, Pool, Least(Movable(scope[donor]), requested))>>

Nobody == "no recipient"
Everywhere == "all"     \* region and family

\* buildQuotaMovePlan.  The request names a recipient, or an amount to give back to the
\* group, each for one scope; or neither, for one scope or for all.  A recipient or an
\* amount for all scopes is refused.
MovePlan(run, scopeOrder, ask) ==
    IF ask.scope = Everywhere /\ (ask.recipient # Nobody \/ ask.amount # 0) THEN <<>>
    ELSE IF ask.recipient # Nobody
    THEN ScopedPlan(ask.scope, run[ask.scope], ask.donor, ask.recipient, ask.amount)
    ELSE IF ask.amount # 0
    THEN DonorScopedPlan(ask.scope, run[ask.scope], ask.donor, ask.amount)
    ELSE DefaultPlan(run, IF ask.scope = Everywhere THEN scopeOrder ELSE <<ask.scope>>,
                     ask.donor)

(***************************************************************************)
(* Simulation.                                                             *)
(***************************************************************************)

\* The delta of simulateQuotaMovePlan for a subscription in a scope.
Delta(plan, name, s) ==
    SumFunction([i \in DOMAIN plan |->
              IF plan[i].scope # name THEN 0
              ELSE IF plan[i].donor = s THEN -plan[i].amount
              ELSE IF plan[i].recipient = s THEN plan[i].amount ELSE 0])

ProjectedAvailable(run, plan, name, s) ==
    Available(run[name][s]) + Delta(plan, name, s)

ProjectedState(run, plan, name, s) ==
    LET c == run[name][s]
        after == ProjectedAvailable(run, plan, name, s)
        delta == Delta(plan, name, s)
    IN  CASE delta > 0 -> IF after >= SafetyBuffer(c.limit) THEN "Covered"
                          ELSE "ResidualGap"
          [] delta < 0 -> IF after < SafetyBuffer(c.limit) THEN "BufferBreach"
                          ELSE "WithinBuffer"
          [] OTHER     -> "Neutral"

\* The subscriptions that unresolvedRecipientCount counts in a scope.
Unresolved(run, plan, name) ==
    {s \in Subs : /\ RecipientNeed(run[name][s]) > 0
                  /\ Delta(plan, name, s) < RecipientNeed(run[name][s])}

=============================================================================
