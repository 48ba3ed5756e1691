------------------------- MODULE SnapshotPublisher -------------------------
(***************************************************************************)
(* What the ingestion subsystem promises to the readers of the database,   *)
(* whoever starts the runs and however they fail: captures are taken one   *)
(* at a time, each publishes its snapshots and then its scores, at most    *)
(* once, and a capture that is over publishes nothing any more.            *)
(*                                                                         *)
(* Readers take the rows with the latest capturedAtUtc, so this is what    *)
(* makes "the latest" mean "the most recent".                              *)
(***************************************************************************)
EXTENDS Integers

VARIABLES
    current,    \* the capture being taken, 0 for none
    begun,      \* the last capture that was begun
    snapshots,  \* captures with snapshots
    scores      \* captures with scores

pubVars == <<current, begun, snapshots, scores>>

Init ==
    /\ current = 0 /\ begun = 0
    /\ snapshots = {} /\ scores = {}

Begin ==
    /\ current = 0
    /\ begun' = begun + 1
    /\ current' = begun + 1
    /\ UNCHANGED <<snapshots, scores>>

PublishSnapshots ==
    /\ current # 0 /\ current \notin snapshots \cup scores
    /\ snapshots' = snapshots \cup {current}
    /\ UNCHANGED <<current, begun, scores>>

PublishScores ==
    /\ current # 0 /\ current \in snapshots \ scores
    /\ scores' = scores \cup {current}
    /\ UNCHANGED <<current, begun, snapshots>>

End ==
    /\ current # 0
    /\ current' = 0
    /\ UNCHANGED <<begun, snapshots, scores>>

Next == Begin \/ PublishSnapshots \/ PublishScores \/ End

Spec == Init /\ [][Next]_pubVars

=============================================================================
