--------------------------- MODULE QuotaPlanning ---------------------------
(***************************************************************************)
(* The requests for a move plan: the planner over a captured run of one    *)
(* scope, with every kind of request.  The runs and the amounts that a     *)
(* user may ask for are constants.                                         *)
(***************************************************************************)
EXTENDS QuotaPlan

CONSTANTS
    Shapes,         \* the candidates that a run may have
    AmountsToMove,  \* what may be asked for one recipient, 0 for nothing said
    AmountsToPool   \* what may be asked for the group

ASSUME ShapesOK ==
    /\ Shapes \subseteq [current : Nat, limit : Nat, state : AvailabilityStates]
    /\ AmountsToMove \subseteq Nat /\ AmountsToPool \subseteq Nat

VARIABLES
    run,        \* the captured run: scope -> subscription -> candidate
    request,    \* the request, or none yet
    plan        \* its rows

planVars == <<run, request, plan>>

NoRequest == [kind |-> "none"]

PlanRequests ==
    [kind : {"default"}, donor : Subs] \cup
    [kind : {"targeted"}, donor : Subs, recipient : Subs, amount : AmountsToMove] \cup
    [kind : {"pool"}, donor : Subs, amount : AmountsToPool]

PlanInit ==
    /\ run \in [{"f"} -> [Subs -> Shapes]]
    /\ request = NoRequest
    /\ plan = <<>>

Build(r) ==
    CASE r.kind = "default"  -> DefaultPlan(run, <<"f">>, r.donor)
      [] r.kind = "targeted" -> ScopedPlan("f", run["f"], r.donor, r.recipient, r.amount)
      [] r.kind = "pool"     -> DonorScopedPlan("f", run["f"], r.donor, r.amount)

PlanNext ==
    /\ request = NoRequest
    /\ \E r \in PlanRequests : request' = r /\ plan' = Build(r)
    /\ UNCHANGED run

PlanSpec == PlanInit /\ [][PlanNext]_planVars

----------------------------------------------------------------------------
Need(s) == RecipientNeed(run["f"][s])
Received(s) == Greatest(0, Delta(plan, "f", s))
StateRank(s) == AvailabilityRank(run["f"][s].state)

\* No plan takes a donor below its safety buffer, however many recipients it
\* serves and whatever amount was requested: the atRiskDonorCount of
\* simulateQuotaMovePlan stays 0.
DonorsKeepBuffer ==
    \A s \in Subs : ProjectedState(run, plan, "f", s) # "BufferBreach"

\* Nobody is served while a subscription in a worse state, or in the same state
\* with a greater need, still lacks something.
ServedInOrder ==
    request.kind = "default" =>
        \A r, s \in Subs \ {request.donor} :
            /\ Received(s) > 0
            /\ \/ StateRank(r) < StateRank(s)
               \/ StateRank(r) = StateRank(s) /\ Need(r) > Need(s)
            => Received(r) = Need(r)

\* The plan and its simulation agree on who is covered: a recipient whose need
\* the plan calls resolved is covered in the projection, and no other.
PlanAgreesWithSimulation ==
    \A s \in Subs :
        Received(s) > 0 =>
            (s \notin Unresolved(run, plan, "f")
               <=> ProjectedState(run, plan, "f", s) = "Covered")

=============================================================================
