------------------------ MODULE MCSchedulerSettings ------------------------
(***************************************************************************)
(* Two requests that ask for different things, one of them for things that *)
(* have to be normalised, and an environment with schedules of its own.    *)
(***************************************************************************)
EXTENDS SchedulerSettings

CONSTANTS p, q

MCPuts == {p, q}

MCInputs ==
    {[interval |-> [ingest |-> 30, livePlacement |-> 60, aiModelCatalog |-> Null],
      startup |-> [ingest |-> TRUE, livePlacement |-> FALSE]],
     [interval |-> [ingest |-> -5, livePlacement |-> 20000, aiModelCatalog |-> NotANumber],
      startup |-> [ingest |-> Null, livePlacement |-> TRUE]]}

MCEnvSettings ==
    [interval |-> [ingest |-> 15, livePlacement |-> 0, aiModelCatalog |-> 1440],
     startup |-> [ingest |-> FALSE, livePlacement |-> TRUE]]

=============================================================================
