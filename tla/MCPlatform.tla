----------------------------- MODULE MCPlatform -----------------------------
(***************************************************************************)
(* The parts of the server that are small enough to be checked in one run, *)
(* one at a time: subject chooses the part that a behaviour is about, and  *)
(* the variables of the other parts keep an initial value.                 *)
(***************************************************************************)
EXTENDS DatabaseBootstrap, SqlPool, PowerShellRuntime, SignIn, SkuCatalog,
        ModelCatalog, CapacityReads, CapacityPages, QuotaDiscovery

VARIABLE subject

platformVars ==
    <<subject, bootstrapVars, poolVars, signInVars, catalogVars,
      pagesVars, modelVars, readVars, shellVars, discoveryVars>>

Subjects == {"database", "pool", "signIn", "skus", "pages", "models", "reads",
             "shells", "discovery"}

PlatformInit ==
    /\ subject \in Subjects
    /\ Init /\ (subject # "database" => tables = {})
    /\ PoolInit
    /\ SignInInit
    /\ CatalogInit
    /\ PagesInit
    /\ subject # "pages" => capture = Rows /\ size = CHOOSE n \in PageSizes : TRUE
    /\ ModelInit
    /\ ReadsInit
    /\ subject # "reads" => \A p, q \in Places : quota[p] = quota[q]
    /\ subject # "reads" => \A f \in Families, p \in Places :
          quota[p][f] = CHOOSE q \in Quotas : TRUE
    /\ ShellInit
    /\ subject # "shells" => azModules /\ installed = {}
    /\ DiscoveryInit
    /\ subject # "discovery" => group = {} /\ \A p \in DOMAIN azure : azure[p] = "enough"

PlatformNext ==
    \/ /\ subject = "database" /\ Next
       /\ UNCHANGED <<subject, poolVars, signInVars, catalogVars,
                      pagesVars, modelVars, readVars, shellVars, discoveryVars>>
    \/ /\ subject = "pool" /\ PoolNext
       /\ UNCHANGED <<subject, bootstrapVars, signInVars, catalogVars,
                      pagesVars, modelVars, readVars, shellVars, discoveryVars>>
    \/ /\ subject = "signIn" /\ SignInNext
       /\ UNCHANGED <<subject, bootstrapVars, poolVars, catalogVars,
                      pagesVars, modelVars, readVars, shellVars, discoveryVars>>
    \/ /\ subject = "skus" /\ CatalogNext
       /\ UNCHANGED <<subject, bootstrapVars, poolVars, signInVars,
                      pagesVars, modelVars, readVars, shellVars, discoveryVars>>
    \/ /\ subject = "pages" /\ PagesNext
       /\ UNCHANGED <<subject, bootstrapVars, poolVars, signInVars,
                      catalogVars, modelVars, readVars, shellVars, discoveryVars>>
    \/ /\ subject = "models" /\ ModelNext
       /\ UNCHANGED <<subject, bootstrapVars, poolVars, signInVars,
                      catalogVars, pagesVars, readVars, shellVars, discoveryVars>>
    \/ /\ subject = "reads" /\ ReadsNext
       /\ UNCHANGED <<subject, bootstrapVars, poolVars, signInVars,
                      catalogVars, pagesVars, modelVars, shellVars, discoveryVars>>
    \/ /\ subject = "shells" /\ ShellNext
       /\ UNCHANGED <<subject, bootstrapVars, poolVars, signInVars,
                      catalogVars, pagesVars, modelVars, readVars, discoveryVars>>
    \/ /\ subject = "discovery" /\ DiscoveryNext
       /\ UNCHANGED <<subject, bootstrapVars, poolVars, signInVars, catalogVars,
                      pagesVars, modelVars, readVars, shellVars>>

Spec == PlatformInit /\ [][PlatformNext]_platformVars

----------------------------------------------------------------------------
\* Three migrations; the first and the last write the view, the last one also a table
\* that schema.sql has.
MCMigrations == <<"0410-subscriptionkey", "0414-subscriptions", "0427-paas">>
MCScript == [f \in Files \cup {Schema} |->
    CASE f = Schema -> <<Batch({Capacity}, TRUE, "same"),
                         Batch({"DashboardSetting"}, TRUE, "new")>>
      [] f = "0410-subscriptionkey" -> <<Batch({}, FALSE, "old"), Batch({}, FALSE, "same")>>
      [] f = "0414-subscriptions" -> <<Batch({"Subscriptions"}, FALSE, "same")>>
      [] f = "0427-paas" -> <<Batch({"DashboardSetting"}, FALSE, "same"),
                              Batch({}, FALSE, "new")>>]
MCPlaces == {<<"sub", "east">>, <<"sub", "west">>}
MCSkuOrder == [f |-> <<"small", "large">>]
MCQuotas == {[current |-> 0, limit |-> 10], [current |-> 8, limit |-> 20]}
=============================================================================
