------------------------ MODULE MCCapacityIngestion ------------------------
(***************************************************************************)
(* Two jobs, so that one can be queued after the other has settled, and a  *)
(* timer callback that meets them.  The jobs are interchangeable.          *)
(***************************************************************************)
EXTENDS CapacityIngestion, TLC

CONSTANTS j1, j2, t1

MCJobs == {j1, j2}
MCTicks == {t1}
MCRequests == {}

JobSymmetry == Permutations(MCJobs)

=============================================================================
