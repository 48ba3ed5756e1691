------------------------- MODULE MCCapacityReports -------------------------
(***************************************************************************)
(* Captures of two families: one in two subscriptions of a region and in a *)
(* second region, and another beside it there.  Two SKUs may stand for a   *)
(* family, or none: the rows of a capture move between their groups.       *)
(***************************************************************************)
EXTENDS ReportTables

MCRowKeys ==
    {[region |-> "east", sub |-> "s1", family |-> "f"],
     [region |-> "east", sub |-> "s2", family |-> "f"],
     [region |-> "west", sub |-> "s1", family |-> "f"],
     [region |-> "west", sub |-> "s2", family |-> "g"]}

\* Under, at and over the limit; around the threshold of 5 and that of 10%; no quota.
MCRowValues ==
    [sku : {"v1"}, current : {0, 5}, limit : {10}] \cup
    [sku : {"v1"}, current : {0, 67, 90}, limit : {75}] \cup
    [sku : {"v2"}, current : {0}, limit : {0, 10}] \cup
    [sku : {Aggregate}, current : {0}, limit : {75}]
=============================================================================
