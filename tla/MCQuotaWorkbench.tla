-------------------------- MODULE MCQuotaWorkbench --------------------------
(***************************************************************************)
(* One quota group with a captured run, two subscriptions that can donate  *)
(* and one that needs quota.                                               *)
(***************************************************************************)
EXTENDS QuotaWorkbench

MCRows == {[sub |-> "a", movable |-> 4, need |-> 0, sku |-> "v1"],
           [sub |-> "b", movable |-> 2, need |-> 0, sku |-> "v1"],
           [sub |-> "c", movable |-> 0, need |-> 3, sku |-> "v1"]}
=============================================================================
