-------------------------- MODULE MCRecommendations --------------------------
(***************************************************************************)
(* One SKU to replace, and three that ARM may list in two regions: a newer *)
(* one of the same family with more cores, one like it of another family,  *)
(* and one with enough IOPS that has the lowest score; and a small one     *)
(* without a listed number of cores.                                       *)
(***************************************************************************)
EXTENDS Recommendations

MCTarget ==
    [name |-> "D4s_v5", family |-> "D", letter |-> "D", version |-> 5, cpu |-> 4,
     memory |-> 16, nics |-> 2, iops |-> 6400, disks |-> 8, arch |-> "x64",
     features |-> {"accel", "premium"}]

MCSkus ==
    {[MCTarget EXCEPT !.name = "D8s_v6", !.version = 6, !.cpu = 8, !.memory = 16, !.iops = 6000],
     [MCTarget EXCEPT !.name = "E4s_v3", !.family = "E", !.letter = "E", !.version = 3,
                      !.memory = 32, !.iops = 3200],
     [MCTarget EXCEPT !.name = "F8s_v2", !.family = "F", !.letter = "F", !.version = 2,
                      !.cpu = 8, !.memory = 64, !.iops = 12800],
     [MCTarget EXCEPT !.name = "DC2", !.family = "DC", !.cpu = 0]}

MCRegions == <<"east", "west">>
MCNames == <<"D8s_v6", "E4s_v3", "F8s_v2", "DC2">>

MCListing(i, n, status, zones) ==
    [sku |-> CHOOSE s \in MCSkus : s.name = MCNames[n], region |-> MCRegions[i],
     order |-> 4 * i + n, status |-> status, zones |-> zones]

\* Every SKU is listed in no region, in one or in both, where it is available in three
\* zones or restricted in all.
MCStatuses == {"none", RestrictionStatus({1, 2, 3}, {}, {}),
               RestrictionStatus({1, 2, 3}, {}, {1, 2, 3})}

MCOffers ==
    {{[sku |-> MCTarget, region |-> "east", order |-> 0, status |-> "RESTRICTED", zones |-> 0]}
       \cup {MCListing(p[1], p[2], listed[p], IF listed[p] = "OK" THEN 3 ELSE 0) :
                p \in {q \in DOMAIN listed : listed[q] # "none"}} :
     listed \in [(1..2) \X (1..3) \cup {<<1, 4>>} -> MCStatuses]}
=============================================================================
