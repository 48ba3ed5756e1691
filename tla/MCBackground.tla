---------------------------- MODULE MCBackground ----------------------------
(***************************************************************************)
(* What the server answers with 202 and does afterwards, one part at a     *)
(* time: the ingestion with its jobs, its timers and its internal route,   *)
(* and a quota apply of two scopes.  A behaviour is about one of them; the *)
(* other keeps its initial state.  The score table is there from the       *)
(* beginning: no step waits for it.                                        *)
(***************************************************************************)
EXTENDS MCQuotaApply

CONSTANTS Jobs, Ticks, Internal, MaxRestarts, RejectionFatal

VARIABLES subject, jobs, status, run, clock, snapshots, scores, scoresFrom, models, opLog,
          restarts

Ingestion == INSTANCE CapacityIngestion WITH Requests <- Internal

ingestionParts ==
    <<jobs, status, run, clock, snapshots, scores, scoresFrom, models, opLog, restarts>>

BackgroundInit ==
    /\ subject \in {"ingestion", "apply"}
    /\ Ingestion!Init /\ scoresFrom = 0
    /\ Init

BackgroundNext ==
    \/ /\ subject = "ingestion" /\ Ingestion!Next
       /\ UNCHANGED <<subject, vars>>
    \/ /\ subject = "apply" /\ Next
       /\ UNCHANGED <<subject, ingestionParts>>

BackgroundSpec ==
    /\ BackgroundInit /\ [][BackgroundNext]_<<subject, vars, ingestionParts>>
    /\ Ingestion!Fairness /\ Fairness

----------------------------------------------------------------------------
\* A job comes to an end, or waits for Azure for ever.
JobsSettle == Ingestion!JobsSettle
\* A run comes to an end and lets the other callers in, or waits for Azure for ever.
RunsEnd == Ingestion!RunsEnd
=============================================================================
