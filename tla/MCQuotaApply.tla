---------------------------- MODULE MCQuotaApply ----------------------------
(***************************************************************************)
(* A donor and two recipients.  Both need the family f, and r1 needs g: a  *)
(* plan of f has two rows for the same limit of the donor.  The families   *)
(* are in different regions, so that a plan of both is sent in two batches.*)
(***************************************************************************)
EXTENDS QuotaApply

CONSTANTS a, b

MCSubOrder == <<"donor", "r1", "r2">>
MCOneScope == <<"f">>
MCTwoScopes == <<"f", "g">>
MCRegionOf == [f |-> "east", g |-> "west"]

MCLimit0 ==
    LET all == [f |-> [donor |-> 20, r1 |-> 20, r2 |-> 10],
                g |-> [donor |-> 12, r1 |-> 20, r2 |-> 10]]
    IN  [x \in Scopes |-> all[x]]

MCUsage0 ==
    LET all == [f |-> [donor |-> 8, r1 |-> 18, r2 |-> 7],
                g |-> [donor |-> 4, r1 |-> 20, r2 |-> 0]]
    IN  [x \in Scopes |-> all[x]]

Default(d) == [donor |-> d, recipient |-> Nobody, amount |-> 0, scope |-> Everywhere]
\* More than r2 needs and the donor can move; and some of it, given back to the group.
ForR2 == [donor |-> "donor", recipient |-> "r2", amount |-> 99, scope |-> "f"]
ForThePool == [donor |-> "donor", recipient |-> Nobody, amount |-> 3, scope |-> "f"]

MCDefaultAsks == {Default("donor")}
MCTwoDonors == {Default("donor"), Default("r2")}
MCAllKinds == {Default("donor"), ForR2, ForThePool}

MCOneRequest == {a}
MCTwoRequests == {a, b}
RequestSymmetry == Permutations({a, b})

=============================================================================
