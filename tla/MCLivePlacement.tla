-------------------------- MODULE MCLivePlacement --------------------------
(***************************************************************************)
(* The scheduler asks for three regions in calls of two: a call for two    *)
(* regions and then one for the third; later the capture has one of them.  *)
(* The scheduler meets itself, and a user who asks for one region.         *)
(***************************************************************************)
EXTENDS LivePlacement

CONSTANT u1

MCUsers == {u1}
MCTicks == {1, 2}
MCScopes == (u1 :> {<<"west">>})
            @@ (1 :> {<<"east", "west", "north">>}) @@ (2 :> {<<"west">>})

=============================================================================
