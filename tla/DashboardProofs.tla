--------------------------- MODULE DashboardProofs ---------------------------
(***************************************************************************)
(* Proofs about what the dashboards are answered, one component after the  *)
(* other.                                                                  *)
(***************************************************************************)
EXTENDS QuotaDiscovery, PaaSScan, CapacityReads, ReactPage, Recommendations,
        ReportTables, DataLemmas

(***************************************************************************)
(* QuotaDiscovery: any subscriptions, locations and number of workers.     *)
(***************************************************************************)

Ahead == report.todo \cup report.busy

\* The record has its fields, whatever is in them.
ReportShape ==
    report = [at |-> report.at, todo |-> report.todo, busy |-> report.busy,
              asked |-> report.asked, places |-> report.places,
              lost |-> report.lost, found |-> report.found]

Missed(p) == azure[p] = "deficit" /\ p \notin report.found

\* The first scan: what is not ahead has not been missed; afterwards nothing is.
CandidatesFollowed ==
    /\ report.at = "candidates" => \A p \in report.asked : Missed(p) => p \in Ahead
    /\ report.at \in {"locations", "everywhere", "answered"}
         => \A p \in report.asked : ~Missed(p)

\* A subscription that is not ahead has its places listed, or Azure did not know them.
Listed(s) == \A l \in Locations : azure[<<s, l>>] = "unknown" \/ <<s, l>> \in report.places

RegionsFollowed ==
    /\ report.at = "locations" => \A s \in group \ report.lost : s \in Ahead \/ Listed(s)
    /\ report.at = "everywhere" => \A s \in group \ report.lost : Listed(s)

\* The second scan.
PlacesFollowed ==
    report.at = "everywhere" => \A p \in report.places : Missed(p) => p \in Ahead

DiscoveryInv ==
    /\ ReportShape
    /\ CandidatesFollowed
    /\ RegionsFollowed
    /\ PlacesFollowed
    /\ \A p \in report.found : azure[p] = "deficit"
    /\ EmptyReportMeansNoDeficit

\* A worker takes an item, and a place or a subscription answers.
LEMMA WorkersKeep ==
    ASSUME DiscoveryInv,
           Take \/ PlaceAnswers \/ PlaceUnknown \/ RegionsListed \/ RegionsUnknown
    PROVE  DiscoveryInv'
  <1> USE DEF DiscoveryInv, ReportShape, CandidatesFollowed, RegionsFollowed,
              PlacesFollowed, EmptyReportMeansNoDeficit, Missed, Listed, Ahead, Becomes
  <1>1. CASE Take
    <2>1. PICK item \in report.todo :
             /\ report' = [report EXCEPT !.todo = @ \ {item}, !.busy = @ \cup {item}]
             /\ UNCHANGED <<azure, group>>
      BY <1>1 DEF Take
    <2>2. Ahead' = Ahead
      BY <2>1
    <2>3. /\ report'.at = report.at /\ report'.asked = report.asked
          /\ report'.places = report.places /\ report'.lost = report.lost
          /\ report'.found = report.found /\ ReportShape'
      BY <2>1
    <2>4. report.at # "answered"
      BY <1>1 DEF Take
    <2>5. QED
      BY <2>1, <2>2, <2>3, <2>4
  <1>2. CASE PlaceAnswers
    <2>1. PICK p \in report.busy :
             /\ report' = [report EXCEPT !.busy = @ \ {p},
                             !.found = IF azure[p] = "deficit" THEN @ \cup {p} ELSE @]
             /\ UNCHANGED <<azure, group>>
      BY <1>2 DEF PlaceAnswers
    <2>2. report.at \in {"candidates", "everywhere"}
      BY <1>2 DEF PlaceAnswers, Scanning
    <2>3. QED
      BY <2>1, <2>2
  <1>3. CASE PlaceUnknown
    BY <1>3 DEF PlaceUnknown, Scanning
  <1>4. CASE RegionsListed
    <2>1. PICK s \in report.busy, listed \in SUBSET Locations :
             /\ \A l \in Locations \ listed : azure[<<s, l>>] = "unknown"
             /\ report' = [report EXCEPT !.busy = @ \ {s},
                                         !.places = @ \cup ({s} \X listed)]
             /\ UNCHANGED <<azure, group>>
      BY <1>4 DEF RegionsListed
    <2>2. /\ report.at = "locations"
          /\ report'.at = report.at /\ report'.asked = report.asked
          /\ report'.lost = report.lost /\ report'.found = report.found
          /\ report'.places = report.places \cup ({s} \X listed)
          /\ Ahead \ {s} \subseteq Ahead'
          /\ ReportShape'
      BY <1>4, <2>1 DEF RegionsListed
    <2>3. Listed(s)'
      BY <2>1, <2>2
    <2>4. \A t : Listed(t) => Listed(t)'
      BY <2>1, <2>2
    <2>5. RegionsFollowed'
      BY <2>1, <2>2, <2>3, <2>4
    <2>6. QED
      BY <2>1, <2>2, <2>5
  <1>5. CASE RegionsUnknown
    BY <1>5 DEF RegionsUnknown
  <1>6. QED
    BY <1>1, <1>2, <1>3, <1>4, <1>5

\* The report goes on from one scan to the next, is answered, or fails.
LEMMA StagesKeep ==
    ASSUME DiscoveryInv,
           Ask \/ Refused \/ LookEverywhere \/ RegionsKnown \/ ReportAnswered \/ Throws
    PROVE  DiscoveryInv'
  <1> USE DEF DiscoveryInv, ReportShape, CandidatesFollowed, RegionsFollowed,
              PlacesFollowed, EmptyReportMeansNoDeficit, Missed, Listed, Ahead, Becomes
  <1>1. CASE Ask
    BY <1>1 DEF Ask
  <1>2. CASE Refused \/ Throws
    BY <1>2 DEF Refused, Throws
  <1>3. CASE LookEverywhere
    BY <1>3 DEF LookEverywhere, AllDone
  <1>4. CASE RegionsKnown
    BY <1>4 DEF RegionsKnown, AllDone
  <1>5. CASE ReportAnswered
    <2>1. /\ report' = [report EXCEPT !.at = "answered"] /\ UNCHANGED <<azure, group>>
          /\ Ahead = {} /\ report.at \in {"candidates", "everywhere"}
          /\ report.at = "candidates" => report.found # {} \/ group = {}
      BY <1>5 DEF ReportAnswered, AllDone, Scanning, NothingFound
    <2>2. \A p \in report.asked : ~Missed(p)
      BY <2>1
    <2>3. report.found = {} =>
             \A s \in group \ report.lost, l \in Locations : azure[<<s, l>>] # "deficit"
      BY <2>1
    <2>4. QED
      BY <2>1, <2>2, <2>3
  <1>6. QED
    BY <1>1, <1>2, <1>3, <1>4, <1>5

\* An answered report has every deficit that it asked for, and an empty one means that
\* there is none (listQuotaGroupShareableQuota, collectShareableQuotaRowsFromRegionGroups).
THEOREM EmptyReportsAreTrue == DiscoverySpec => []EmptyReportMeansNoDeficit
  <1>1. DiscoveryInit => DiscoveryInv
    BY DEF DiscoveryInit, DiscoveryInv, ReportShape, CandidatesFollowed, RegionsFollowed,
           PlacesFollowed, EmptyReportMeansNoDeficit
  <1>2. DiscoveryInv /\ [DiscoveryNext]_discoveryVars => DiscoveryInv'
    <2>1. CASE UNCHANGED discoveryVars
      BY <2>1 DEF discoveryVars, DiscoveryInv, ReportShape, CandidatesFollowed,
         RegionsFollowed, PlacesFollowed, EmptyReportMeansNoDeficit, Missed, Listed, Ahead
    <2>2. QED
      BY <2>1, WorkersKeep, StagesKeep DEF DiscoveryNext
  <1>3. DiscoveryInv => EmptyReportMeansNoDeficit
    BY DEF DiscoveryInv
  <1>4. QED
    BY <1>1, <1>2, <1>3, PTL DEF DiscoverySpec

(***************************************************************************)
(* CapacityReads: any places, families, SKUs and quotas.                   *)
(***************************************************************************)

\* A family of a place has one row in each capture.
ReadsInv ==
    /\ clock \in Nat
    /\ quota \in [Places -> [Families -> Quotas]]
    /\ \A r \in table : r.at \in 1..clock /\ r.limit \in Nat
    /\ \A r, s \in table :
          r.at = s.at /\ r.place = s.place /\ r.family = s.family => r = s

LEMMA ReadsStep == ReadsInv /\ [ReadsNext]_readVars => ReadsInv'
  <1> SUFFICES ASSUME ReadsInv, [ReadsNext]_readVars
               PROVE  ReadsInv'
    OBVIOUS
  <1>1. CASE Ingest
    <2>1. PICK asked \in SUBSET Places, failed \in SUBSET Places :
            table' = table \cup Captured(asked, failed, clock + 1)
      BY <1>1 DEF Ingest
    <2>2. clock' = clock + 1 /\ quota' = quota /\ clock \in Nat
      BY <1>1 DEF Ingest, ReadsInv
    <2>3. ASSUME NEW r \in Captured(asked, failed, clock + 1)
          PROVE  r.at = clock + 1 /\ r.limit \in Nat
      <3>1. PICK place \in asked, f \in Families : r = RowOf(place, f, clock + 1)
        BY <2>3 DEF Captured
      <3>2. quota[place][f] \in Quotas
        BY DEF ReadsInv
      <3>3. QED
        BY <3>1, <3>2, QuotasAreNumbers DEF RowOf
    <2>4. ASSUME NEW r \in Captured(asked, failed, clock + 1),
                 NEW s \in Captured(asked, failed, clock + 1),
                 r.place = s.place, r.family = s.family
          PROVE  r = s
      <3>1. PICK p \in asked, f \in Families : r = RowOf(p, f, clock + 1)
        BY DEF Captured
      <3>2. PICK q \in asked, g \in Families : s = RowOf(q, g, clock + 1)
        BY DEF Captured
      <3>3. p = q /\ f = g
        BY <2>4, <3>1, <3>2 DEF RowOf
      <3>4. QED
        BY <3>1, <3>2, <3>3
    <2>5. \A r \in table' : r.at \in 1..clock' /\ r.limit \in Nat
      BY <2>1, <2>2, <2>3 DEF ReadsInv
    <2>6. ASSUME NEW r \in table', NEW s \in table',
                 r.at = s.at, r.place = s.place, r.family = s.family
          PROVE  r = s
      <3>1. CASE r.at = clock + 1
        <4>1. \A x \in table : x.at # clock + 1
          BY <2>2 DEF ReadsInv
        <4>2. r \notin table /\ s \notin table
          BY <2>6, <3>1, <4>1
        <4>3. QED
          BY <2>1, <2>4, <2>6, <4>2
      <3>2. CASE r.at # clock + 1
        <4>1. r \in table /\ s \in table
          BY <2>1, <2>3, <2>6, <3>2
        <4>2. QED
          BY <2>6, <4>1 DEF ReadsInv
      <3>3. QED
        BY <3>1, <3>2
    <2>7. QED
      BY <2>2, <2>5, <2>6 DEF ReadsInv
  <1>2. CASE QuotaChanges
    <2>1. quota' \in [Places -> [Families -> Quotas]]
      BY <1>2 DEF QuotaChanges, ReadsInv
    <2>2. QED
      BY <1>2, <2>1 DEF QuotaChanges, ReadsInv
  <1>3. CASE RestrictionChanges \/ UNCHANGED readVars
    BY <1>3 DEF RestrictionChanges, readVars, ReadsInv
  <1>4. QED
    BY <1>1, <1>2, <1>3 DEF ReadsNext

\* The candidate of a family that has one row has the limit of that row.
LEMMA OneRow ==
    ASSUME NEW place, NEW f, NEW r, r.limit \in Nat,
           {s \in LatestBatch : s.place = place /\ s.family = f} = {r}
    PROVE  CandidateLimit(place, f) = r.limit
  <1> DEFINE Total(t) ==
        [rows \in SUBSET {r} |->
           IF rows = {} THEN 0
           ELSE LET x == CHOOSE x \in rows : TRUE IN x.limit + t[rows \ {x}]]
      witness == [rows \in SUBSET {r} |-> IF rows = {} THEN 0 ELSE r.limit]
  <1>1. /\ {} \in SUBSET {r} /\ {r} \in SUBSET {r} /\ {r} # {}
        /\ \A rows \in SUBSET {r} : rows # {} => rows = {r}
        /\ (CHOOSE x \in {r} : TRUE) = r
        /\ {r} \ {r} = {}
    OBVIOUS
  <1>2. witness = Total(witness)
    <2>1. ASSUME NEW rows \in SUBSET {r} PROVE witness[rows] = Total(witness)[rows]
      <3>1. CASE rows = {}
        BY <3>1
      <3>2. CASE rows = {r}
        <4>1. Total(witness)[{r}] = r.limit + witness[{}]
          BY <1>1
        <4>2. QED
          BY <1>1, <3>2, <4>1
      <3>3. QED
        BY <1>1, <3>1, <3>2
    <2>2. QED
      BY <2>1
  <1>3. ASSUME NEW t, t = Total(t) PROVE t[{r}] = r.limit
    <2>1. t[{}] = 0
      BY <1>1, <1>3
    <2>2. t[{r}] = r.limit + t[{}]
      BY <1>1, <1>3
    <2>3. QED
      BY <2>1, <2>2
  <1>4. CandidateLimit(place, f) = (CHOOSE t : t = Total(t))[{r}]
    BY DEF CandidateLimit
  <1>5. QED
    <2> HIDE DEF Total, witness
    <2> DEFINE chosen == CHOOSE t : t = Total(t)
    <2>1. chosen = Total(chosen)
      BY <1>2
    <2>2. QED
      BY <1>3, <1>4, <2>1

\* However often the representative SKU of a family changes, whatever places a capture
\* is asked for and whatever fails, the planner counts the quota of a family once.
THEOREM QuotaIsCountedOnce == ReadsSpec => []QuotaCountedOnce
  <1>1. ReadsInit => ReadsInv
    BY DEF ReadsInit, ReadsInv
  <1>2. ReadsInv => QuotaCountedOnce
    <2> SUFFICES ASSUME ReadsInv, NEW r \in LatestBatch
                 PROVE  CandidateLimit(r.place, r.family) = r.limit
      BY DEF QuotaCountedOnce
    <2>1. r \in table /\ r.limit \in Nat
      BY DEF LatestBatch, ReadsInv
    <2>2. ASSUME NEW s \in LatestBatch, s.place = r.place, s.family = r.family
          PROVE  s = r
      <3>1. s \in table /\ s.at <= r.at /\ r.at <= s.at
        BY <2>1 DEF LatestBatch
      <3>2. s.at \in Nat /\ r.at \in Nat
        BY <2>1, <3>1 DEF ReadsInv
      <3>3. s.at = r.at
        BY <3>1, <3>2
      <3>4. QED
        BY <2>1, <2>2, <3>1, <3>3 DEF ReadsInv
    <2>3. {s \in LatestBatch : s.place = r.place /\ s.family = r.family} = {r}
      BY <2>2
    <2>4. QED
      BY <2>1, <2>3, OneRow
  <1>3. QED
    BY <1>1, <1>2, ReadsStep, PTL DEF ReadsSpec

(***************************************************************************)
(* PaaSScan: any scans, services and runtimes, and any number of rows.     *)
(***************************************************************************)

ScanStates == [at : {"idle", "remote", "local", "threw", "failed", "saving", "finishing", "ok"},
               service : Services \cup {"All"}, shell : Nat, captured : Nat,
               rows : Nat, saved : Nat, runId : BOOLEAN, warning : BOOLEAN]

HasRows(s) == scan[s].at \in {"saving", "finishing", "ok"}

\* A scan has a time of its own once it has rows, and an identifier once they are stored.
ScanInv(s) ==
    /\ scan[s].captured <= ticks
    /\ HasRows(s) => scan[s].captured >= 1
    /\ ~HasRows(s) => scan[s].captured = 0
    /\ scan[s].runId => scan[s].at \in {"finishing", "ok"} /\ \E x \in snapshots : x.run = s

\* A stored run is the whole of a scan that answers with its identifier.
RunInv(x) ==
    /\ x = [run |-> x.run, service |-> x.service, captured |-> x.captured, rows |-> x.rows]
    /\ x.run \in Scans
    /\ scan[x.run].runId
    /\ x.service = scan[x.run].service /\ x.captured = scan[x.run].captured
    /\ x.rows = scan[x.run].rows

PaaSInv ==
    /\ ticks \in Nat
    /\ scan \in [Scans -> ScanStates]
    /\ \A s \in Scans : ScanInv(s)
    /\ \A s, t \in Scans : HasRows(s) /\ scan[s].captured = scan[t].captured => s = t
    /\ \A x \in snapshots : RunInv(x)

\* A step of one scan that takes no new time and stores nothing.
LEMMA ScanMoves ==
    ASSUME PaaSInv, NEW s \in Scans, NEW new \in ScanStates,
           scan' = [scan EXCEPT ![s] = new], UNCHANGED <<ticks, snapshots>>,
           new.captured = scan[s].captured, new.runId = scan[s].runId,
           new.runId => /\ new.service = scan[s].service /\ new.rows = scan[s].rows
                        /\ new.at \in {"finishing", "ok"},
           new.at \in {"saving", "finishing", "ok"} <=> HasRows(s)
    PROVE  PaaSInv'
  <1>1. scan' \in [Scans -> ScanStates] /\ ticks' \in Nat
    BY DEF PaaSInv
  <1>2. /\ \A t \in Scans : scan'[t] = IF t = s THEN new ELSE scan[t]
        /\ \A t \in Scans : HasRows(t)' <=> HasRows(t)
        /\ \A t \in Scans : scan'[t].captured = scan[t].captured
        /\ \A t \in Scans : scan'[t].runId = scan[t].runId
    BY DEF PaaSInv, HasRows
  <1>3. ASSUME NEW t \in Scans PROVE ScanInv(t)'
    BY <1>2 DEF PaaSInv, ScanInv
  <1>4. \A t, u \in Scans : HasRows(t)' /\ scan'[t].captured = scan'[u].captured => t = u
    BY <1>2 DEF PaaSInv
  <1>5. ASSUME NEW x \in snapshots' PROVE RunInv(x)'
    <2>1. RunInv(x)
      BY DEF PaaSInv
    <2>2. QED
      BY <1>2, <2>1 DEF RunInv
  <1>6. QED
    BY <1>1, <1>3, <1>4, <1>5 DEF PaaSInv

\* Rows arrive, with the time of now.
LEMMA ScannedKeeps ==
    ASSUME PaaSInv, NEW s \in Scans, scan[s].at \in {"remote", "local"}, Scanned(s)
    PROVE  PaaSInv'
  <1>1. PICK n \in 0..RowsPerScan :
          scan' = [scan EXCEPT ![s] =
                     [scan[s] EXCEPT !.at = IF n = 0 THEN "finishing" ELSE "saving",
                                     !.captured = ticks + 1, !.rows = n]]
    BY DEF Scanned, Set
  <1> DEFINE new == [scan[s] EXCEPT !.at = IF n = 0 THEN "finishing" ELSE "saving",
                                    !.captured = ticks + 1, !.rows = n]
  <1>2. /\ ticks \in Nat /\ ticks' = ticks + 1 /\ snapshots' = snapshots
        /\ scan \in [Scans -> ScanStates] /\ scan[s] \in ScanStates
    BY DEF Scanned, PaaSInv
  <1>3. n \in Nat /\ ticks + 1 \in Nat
    BY <1>2
  <1>4. /\ new \in ScanStates /\ new.at \in {"saving", "finishing"}
        /\ new.captured = ticks + 1 /\ new.runId = scan[s].runId
    BY <1>2, <1>3 DEF ScanStates
  <1>5. scan' = [scan EXCEPT ![s] = new]
    BY <1>1
  <1> HIDE DEF new
  <1>6. /\ scan' \in [Scans -> ScanStates]
        /\ \A t \in Scans : scan'[t] = IF t = s THEN new ELSE scan[t]
    BY <1>2, <1>4, <1>5
  <1>7. /\ ~scan[s].runId
        /\ \A t \in Scans : scan[t].captured \in Nat /\ scan[t].captured <= ticks
    BY DEF PaaSInv, ScanInv, ScanStates
  <1>8. ASSUME NEW t \in Scans PROVE ScanInv(t)'
    <2>1. CASE t = s
      BY <1>2, <1>4, <1>6, <1>7, <2>1 DEF ScanInv, HasRows
    <2>2. CASE t # s
      <3>1. ScanInv(t) /\ scan'[t] = scan[t]
        BY <1>6, <2>2 DEF PaaSInv
      <3>2. QED
        BY <1>2, <1>7, <3>1 DEF ScanInv, HasRows
    <2>3. QED
      BY <2>1, <2>2
  <1>9. ASSUME NEW t \in Scans, NEW u \in Scans, HasRows(t)',
               scan'[t].captured = scan'[u].captured
        PROVE  t = u
    <2>1. ticks + 1 # scan[t].captured /\ ticks + 1 # scan[u].captured
      BY <1>2, <1>7
    <2>2. CASE t = s \/ u = s
      BY <1>4, <1>6, <1>9, <2>1, <2>2
    <2>3. CASE t # s /\ u # s
      BY <1>6, <1>9, <2>3 DEF PaaSInv, HasRows
    <2>4. QED
      BY <2>2, <2>3
  <1>10. ASSUME NEW x \in snapshots' PROVE RunInv(x)'
    <2>1. RunInv(x)
      BY <1>2 DEF PaaSInv
    <2>2. x.run # s
      BY <1>7, <2>1 DEF RunInv
    <2>3. QED
      BY <1>6, <2>1, <2>2 DEF RunInv
  <1>11. QED
    BY <1>2, <1>3, <1>6, <1>8, <1>9, <1>10 DEF PaaSInv

\* The run of a scan is stored with all of its rows.
LEMMA SaveCommitsKeeps ==
    ASSUME PaaSInv, NEW s \in Scans, SaveCommits(s)
    PROVE  PaaSInv'
  <1> DEFINE new == [scan[s] EXCEPT !.at = "finishing", !.runId = TRUE]
  <1>1. scan \in [Scans -> ScanStates] /\ scan[s] \in ScanStates /\ scan[s].at = "saving"
    BY DEF PaaSInv, SaveCommits
  <1>2. /\ new \in ScanStates /\ new.at = "finishing" /\ new.runId
        /\ new.captured = scan[s].captured /\ new.rows = scan[s].rows
        /\ new.service = scan[s].service
    BY <1>1 DEF ScanStates
  <1>3. scan' = [scan EXCEPT ![s] = new]
    BY DEF SaveCommits, Set
  <1> HIDE DEF new
  <1>4. /\ scan' \in [Scans -> ScanStates]
        /\ \A t \in Scans : scan'[t] = IF t = s THEN new ELSE scan[t]
        /\ \A t \in Scans : HasRows(t)' <=> HasRows(t)
        /\ \A t \in Scans : scan'[t].captured = scan[t].captured
    BY <1>1, <1>2, <1>3 DEF HasRows
  <1>5. ticks' = ticks /\ snapshots' = snapshots \cup {Run(s)} /\ Run(s).run = s
    BY DEF SaveCommits, Run
  <1>6. ASSUME NEW t \in Scans PROVE ScanInv(t)'
    <2>1. ScanInv(t)
      BY DEF PaaSInv
    <2>2. CASE t = s
      BY <1>2, <1>4, <1>5, <2>1, <2>2 DEF ScanInv
    <2>3. CASE t # s
      BY <1>4, <1>5, <2>1, <2>3 DEF ScanInv
    <2>4. QED
      BY <2>2, <2>3
  <1>7. \A t, u \in Scans : HasRows(t)' /\ scan'[t].captured = scan'[u].captured => t = u
    BY <1>4 DEF PaaSInv
  <1>8. ASSUME NEW x \in snapshots' PROVE RunInv(x)'
    <2>1. CASE x \in snapshots
      <3>1. RunInv(x)
        BY <2>1 DEF PaaSInv
      <3>2. x.run # s
        BY <1>1, <3>1 DEF PaaSInv, ScanInv, RunInv
      <3>3. QED
        BY <1>4, <3>1, <3>2 DEF RunInv
    <2>2. CASE x = Run(s)
      <3>1. scan[s].saved = scan[s].rows
        BY DEF SaveCommits
      <3>2. QED
        BY <1>2, <1>4, <2>2, <3>1 DEF Run, RunInv
    <2>3. QED
      BY <1>5, <2>1, <2>2
  <1>9. QED
    BY <1>4, <1>5, <1>6, <1>7, <1>8 DEF PaaSInv

LEMMA PaaSStepKeeps == PaaSInv /\ [PaaSNext]_paasVars => PaaSInv'
  <1> SUFFICES ASSUME PaaSInv, [PaaSNext]_paasVars
               PROVE  PaaSInv'
    OBVIOUS
  <1>1. CASE UNCHANGED paasVars
    BY <1>1 DEF paasVars, PaaSInv, ScanInv, RunInv, HasRows
  <1>2. ASSUME NEW s \in Scans, Start(s) \/ PaaSStep(s) PROVE PaaSInv'
    <2>1. scan \in [Scans -> ScanStates] /\ scan[s] \in ScanStates /\ ScanInv(s)
      BY DEF PaaSInv
    <2>2. CASE Start(s)
      <3>1. PICK service \in Services :
              scan' = [scan EXCEPT ![s] =
                         [IdleScan EXCEPT !.service = service,
                            !.at = IF hosting.worker THEN "remote" ELSE "local"]]
        BY <2>2 DEF Start, Set
      <3> DEFINE new == [IdleScan EXCEPT !.service = service,
                            !.at = IF hosting.worker THEN "remote" ELSE "local"]
      <3>2. /\ new \in ScanStates /\ new.at \in {"remote", "local"} /\ new.captured = 0
            /\ new.runId = FALSE
        BY DEF IdleScan, ScanStates
      <3>3. scan[s].captured = 0 /\ scan[s].runId = FALSE /\ ~HasRows(s)
        BY <2>1, <2>2 DEF Start, ScanInv, HasRows, ScanStates
      <3>4. UNCHANGED <<ticks, snapshots>>
        BY <2>2 DEF Start
      <3> HIDE DEF new
      <3>5. scan' = [scan EXCEPT ![s] = new]
        BY <3>1 DEF new
      <3>6. QED
        BY <3>2, <3>3, <3>4, <3>5, ScanMoves
    <2>3. CASE RemoteAnswers(s) \/ LocalAnswers(s)
      BY <2>3, ScannedKeeps DEF RemoteAnswers, LocalAnswers
    <2>4. CASE RemoteFails(s)
      <3> DEFINE new == [scan[s] EXCEPT !.at = IF hosting.fallback THEN "local" ELSE "threw"]
      <3>1. /\ new \in ScanStates /\ new.at \in {"local", "threw"}
            /\ new.captured = scan[s].captured /\ new.runId = scan[s].runId
        BY <2>1 DEF ScanStates
      <3>2. scan' = [scan EXCEPT ![s] = new] /\ UNCHANGED <<ticks, snapshots>>
        BY <2>4 DEF RemoteFails, Set
      <3>3. ~HasRows(s) /\ ~scan[s].runId
        BY <2>1, <2>4 DEF RemoteFails, HasRows, ScanInv
      <3> HIDE DEF new
      <3>4. QED
        BY <3>1, <3>2, <3>3, ScanMoves
    <2>5. CASE LocalFails(s)
      <3> DEFINE new == [scan[s] EXCEPT !.shell = @ + 1]
      <3>1. /\ new \in ScanStates /\ new.at = "local"
            /\ new.captured = scan[s].captured /\ new.runId = scan[s].runId
        BY <2>1, <2>5 DEF LocalFails, ScanStates
      <3>2. scan' = [scan EXCEPT ![s] = new] /\ UNCHANGED <<ticks, snapshots>>
        BY <2>5 DEF LocalFails, Set
      <3>3. ~HasRows(s) /\ ~scan[s].runId
        BY <2>1, <2>5 DEF LocalFails, HasRows, ScanInv
      <3> HIDE DEF new
      <3>4. QED
        BY <3>1, <3>2, <3>3, ScanMoves
    <2>6. CASE AllFailed(s)
      <3> DEFINE new == [scan[s] EXCEPT !.at = "failed"]
      <3>1. /\ new \in ScanStates /\ new.at = "failed"
            /\ new.captured = scan[s].captured /\ new.runId = scan[s].runId
        BY <2>1 DEF ScanStates
      <3>2. scan' = [scan EXCEPT ![s] = new] /\ UNCHANGED <<ticks, snapshots>>
        BY <2>6 DEF AllFailed, Set
      <3>3. ~HasRows(s) /\ ~scan[s].runId
        BY <2>1, <2>6 DEF AllFailed, HasRows, ScanInv
      <3> HIDE DEF new
      <3>4. QED
        BY <3>1, <3>2, <3>3, ScanMoves
    <2>7. CASE SaveRow(s)
      <3> DEFINE new == [scan[s] EXCEPT !.saved = @ + 1]
      <3>1. /\ new \in ScanStates /\ new.at = "saving"
            /\ new.captured = scan[s].captured /\ new.runId = scan[s].runId
        BY <2>1, <2>7 DEF SaveRow, ScanStates
      <3>2. scan' = [scan EXCEPT ![s] = new] /\ UNCHANGED <<ticks, snapshots>>
        BY <2>7 DEF SaveRow, Set
      <3>3. HasRows(s) /\ ~scan[s].runId
        BY <2>1, <2>7 DEF SaveRow, HasRows, ScanInv
      <3> HIDE DEF new
      <3>4. QED
        BY <3>1, <3>2, <3>3, ScanMoves
    <2>8. CASE SaveCommits(s)
      BY <2>8, SaveCommitsKeeps
    <2>9. CASE SaveRolledBack(s) \/ SaveThrows(s)
      <3>1. PICK warned \in BOOLEAN :
              scan' = [scan EXCEPT ![s] =
                         [scan[s] EXCEPT !.at = "finishing", !.warning = warned]]
        <4>1. scan[s].warning \in BOOLEAN
          BY <2>1 DEF ScanStates
        <4>2. [scan[s] EXCEPT !.at = "finishing"]
                = [scan[s] EXCEPT !.at = "finishing", !.warning = scan[s].warning]
          BY <2>1 DEF ScanStates
        <4>3. QED
          BY <2>9, <4>1, <4>2 DEF SaveRolledBack, SaveThrows, Set
      <3> DEFINE new == [scan[s] EXCEPT !.at = "finishing", !.warning = warned]
      <3>2. /\ new \in ScanStates /\ new.at = "finishing"
            /\ new.captured = scan[s].captured /\ new.runId = scan[s].runId
        BY <2>1 DEF ScanStates
      <3>3. UNCHANGED <<ticks, snapshots>>
        BY <2>9 DEF SaveRolledBack, SaveThrows
      <3>4. HasRows(s) /\ ~scan[s].runId
        BY <2>1, <2>9 DEF SaveRolledBack, SaveThrows, HasRows, ScanInv
      <3> HIDE DEF new
      <3>5. scan' = [scan EXCEPT ![s] = new]
        BY <3>1 DEF new
      <3>6. QED
        BY <3>2, <3>3, <3>4, <3>5, ScanMoves
    <2>10. CASE Finish(s)
      <3> DEFINE new == [scan[s] EXCEPT !.at = "ok"]
      <3>1. /\ new \in ScanStates /\ new.at = "ok"
            /\ new.captured = scan[s].captured /\ new.runId = scan[s].runId
            /\ new.service = scan[s].service /\ new.rows = scan[s].rows
        BY <2>1 DEF ScanStates
      <3>2. scan' = [scan EXCEPT ![s] = new] /\ UNCHANGED <<ticks, snapshots>>
        BY <2>10 DEF Finish, Set
      <3>3. HasRows(s)
        BY <2>10 DEF Finish, HasRows
      <3> HIDE DEF new
      <3>4. QED
        BY <3>1, <3>2, <3>3, ScanMoves
    <2>11. QED
      BY <1>2, <2>2, <2>3, <2>4, <2>5, <2>6, <2>7, <2>8, <2>9, <2>10 DEF PaaSStep
  <1>3. QED
    BY <1>1, <1>2 DEF PaaSNext

\* A set whose members are one has at most one.
LEMMA AtMostOne ==
    ASSUME NEW S, \A x, y \in S : x = y
    PROVE  Cardinality(S) <= 1
  <1>1. CASE S = {}
    BY <1>1, FS_EmptySet
  <1>2. CASE S # {}
    <2>1. PICK x \in S : S = {x}
      BY <1>2
    <2>2. QED
      BY <2>1, FS_Singleton
  <1>3. QED
    BY <1>1, <1>2

\* Whatever scans overlap, in whatever order they are stored, rolled back or lost, an
\* answer with a run identifier has its rows in the table, one without has none there,
\* and the page reads one whole scan that is not older.
THEOREM AnswersAreStored == PaaSSpec => []AnswersMatchTheStore
  <1>1. PaaSInit => PaaSInv
    BY DEF PaaSInit, PaaSInv, IdleScan, ScanStates, ScanInv, HasRows
  <1>2. PaaSInv => AnswersMatchTheStore
    <2> SUFFICES ASSUME PaaSInv PROVE AnswersMatchTheStore
      OBVIOUS
    <2>1. /\ \A x \in snapshots : RunInv(x)
          /\ \A s \in Scans : scan[s].captured \in Nat /\ ScanInv(s)
      BY DEF PaaSInv, ScanStates
    <2>2. ASSUME NEW s \in Scans, scan[s].at = "ok", scan[s].runId
          PROVE  /\ \E x \in snapshots : x.run = s /\ x.rows = scan[s].rows
                 /\ \A x \in NewestRun(scan[s].service) : x.captured >= scan[s].captured
      <3>1. PICK x \in snapshots : x.run = s
        BY <2>1, <2>2 DEF ScanInv
      <3>2. x.rows = scan[s].rows /\ x.captured = scan[s].captured /\ x.service = scan[s].service
        BY <2>1, <3>1 DEF RunInv
      <3>3. ASSUME NEW y \in NewestRun(scan[s].service) PROVE y.captured >= scan[s].captured
        <4>1. y \in snapshots /\ x.captured <= y.captured
          BY <3>1, <3>2 DEF NewestRun, StoredRuns
        <4>2. y.captured \in Nat
          BY <2>1, <4>1 DEF RunInv
        <4>3. QED
          BY <2>1, <3>2, <4>1, <4>2
      <3>4. QED
        BY <3>1, <3>2, <3>3
    <2>3. ASSUME NEW s \in Scans, ~scan[s].runId PROVE ~\E x \in snapshots : x.run = s
      BY <2>1, <2>3 DEF RunInv
    <2>4. ASSUME NEW service \in Services PROVE Cardinality(NewestRun(service)) <= 1
      <3>1. ASSUME NEW x \in NewestRun(service), NEW y \in NewestRun(service) PROVE x = y
        <4>1. /\ x \in snapshots /\ y \in snapshots /\ RunInv(x) /\ RunInv(y)
              /\ x.captured <= y.captured /\ y.captured <= x.captured
          BY <2>1 DEF NewestRun, StoredRuns
        <4>2. x.captured \in Nat /\ y.captured \in Nat
          BY <2>1, <4>1 DEF RunInv
        <4>3. x.captured = y.captured
          BY <4>1, <4>2
        <4>4. HasRows(x.run)
          BY <2>1, <4>1 DEF RunInv, ScanInv, HasRows
        <4>5. x.run = y.run
          BY <4>1, <4>3, <4>4 DEF RunInv, PaaSInv
        <4>6. QED
          BY <4>1, <4>5 DEF RunInv
      <3>2. QED
        BY <3>1, AtMostOne
    <2>5. QED
      BY <2>2, <2>3, <2>4 DEF AnswersMatchTheStore
  <1>3. QED
    BY <1>1, <1>2, PaaSStepKeeps, PTL DEF PaaSSpec

(***************************************************************************)
(* ReactPage: any rows, presets and bounds.                                *)
(***************************************************************************)

\* The page that the last pass of the effects saw of a panel, and whether it loaded
\* panels of this kind at all.
SeenPage(p) == IF p = "analytics" THEN 1 ELSE seen.page[p]
Watched(p) == p # "grid" \/ IsGridView(seen.view)

LoadOf(c, p) == c.panel = p /\ c.id # 0 /\ c.id = ref[p]

\* The load that counts asks for what the last pass saw, and until it is answered
\* nothing is claimed of the panel.
Follows(p) ==
    /\ \A c \in calls : LoadOf(c, p) => c.filters = seen.filters /\ c.page = SeenPage(p)
    /\ \/ \E c \in calls : LoadOf(c, p)
       \/ shown[p] \in {[state |-> "rows", filters |-> seen.filters, page |-> SeenPage(p)],
                        Cleared}
       \/ p = "scores" /\ shown[p].state = "live"

\* A live refresh, or what it answered, is of the selection unless a load began since.
FollowsLoad(x) ==
    /\ x.after \in Nat /\ x.after <= ref["scores"]
    /\ x.after = ref["scores"] => x.filters = seen.filters

LiveFollows ==
    /\ \A c \in calls : c.id = 0 => FollowsLoad(c)
    /\ shown["scores"].state = "live" => FollowsLoad(shown["scores"])

PageShapes ==
    /\ DOMAIN filters = {"preset", "region", "family", "sku"}
    /\ DOMAIN shown = Panels
    /\ DOMAIN page = {"grid", "scores"}
    /\ ref \in [Panels -> Nat]
    /\ \A c \in calls : /\ c.panel \in Panels /\ c.id \in Nat
                        /\ c.id = 0 => c.panel = "scores"
                        /\ c.id <= ref[c.panel]

\* Inductive.
PageInv ==
    /\ PageShapes
    /\ LiveFollows
    /\ seen.filters # None => \A p \in Panels : Watched(p) => Follows(p)

LEMMA PageStarts == PageInit => PageInv
  <1> SUFFICES ASSUME PageInit PROVE PageInv
    OBVIOUS
  <1>1. PageShapes
    BY DEF PageInit, PageShapes, Panels
  <1>2. seen.filters = None
    BY DEF PageInit
  <1>3. LiveFollows
    BY DEF PageInit, LiveFollows, Panels, None
  <1>4. QED
    BY <1>1, <1>2, <1>3 DEF PageInv

LEMMA FiltersAreChosen == ASSUME PageShapes PROVE filters # None
  <1>1. DOMAIN None = {"state"}
    BY DEF None
  <1>2. "preset" \in DOMAIN filters
    BY DEF PageShapes
  <1>3. QED
    BY <1>1, <1>2

LEMMA FixedUpShape ==
    ASSUME DOMAIN filters = {"preset", "region", "family", "sku"}
    PROVE  DOMAIN FixedUp = {"preset", "region", "family", "sku"}
  BY DEF FixedUp

\* A pass of the effects: what is not loaded again has not changed.
LEMMA EffectsKeep == ASSUME PageInv, Effects PROVE PageInv'
  <1>1. PageShapes'
    <2>1. DOMAIN filters' = {"preset", "region", "family", "sku"}
      BY FixedUpShape DEF Effects, PageInv, PageShapes
    <2>2. DOMAIN shown' = Panels /\ DOMAIN page' = {"grid", "scores"}
      BY DEF Effects, PageInv, PageShapes
    <2>3. ref' \in [Panels -> Nat] /\ \A p \in Panels : ref[p] <= ref'[p] /\ ref[p] \in Nat
      BY DEF Effects, PageInv, PageShapes
    <2>4. ASSUME NEW c \in calls'
          PROVE  /\ c.panel \in Panels /\ c.id \in Nat
                 /\ c.id = 0 => c.panel = "scores"
                 /\ c.id <= ref'[c.panel]
      <3>1. CASE c \in calls
        <4>1. /\ c.panel \in Panels /\ c.id \in Nat /\ c.id <= ref[c.panel]
              /\ c.id = 0 => c.panel = "scores"
          BY <3>1 DEF PageInv, PageShapes
        <4>2. ref'[c.panel] \in Nat
          BY <4>1, <2>3
        <4>3. QED
          BY <2>3, <4>1, <4>2
      <3>2. CASE c \notin calls
        <4>1. PICK p \in Reloaded :
                 c = [panel |-> p, id |-> ref[p] + 1, filters |-> filters, page |-> PageOf(p)]
          BY <3>2 DEF Effects
        <4>2. p \in Panels /\ ref'[p] = ref[p] + 1
          BY DEF Effects, Reloaded
        <4>3. c.panel = p /\ c.id = ref[p] + 1 /\ c.filters = filters /\ c.page = PageOf(p)
          BY <4>1
        <4>4. QED
          BY <2>3, <4>1, <4>2, <4>3
      <3>3. QED
        BY <3>1, <3>2
    <2>5. QED
      BY <2>1, <2>2, <2>3, <2>4 DEF PageShapes
  <1>2. ASSUME NEW p \in Panels, Watched(p)' PROVE Follows(p)'
    <2>1. /\ seen'.view = view /\ seen'.filters = filters /\ seen'.page = page
          /\ shown' = shown
      BY DEF Effects, Deps
    <2>2. SeenPage(p)' = PageOf(p)
      BY <2>1 DEF SeenPage, PageOf
    <2>3. \A c \in calls : c.panel \in Panels /\ c.id \in Nat /\ c.id <= ref[c.panel]
      BY DEF PageInv, PageShapes
    <2>4. ref[p] \in Nat
      BY DEF PageInv, PageShapes
    <2>5. CASE p \in Reloaded
      <3>1. /\ ref'[p] = ref[p] + 1
            /\ \E c \in calls' : c = [panel |-> p, id |-> ref[p] + 1, filters |-> filters,
                                     page |-> PageOf(p)]
        BY <2>5 DEF Effects
      <3>8. PICK new \in calls' : new = [panel |-> p, id |-> ref[p] + 1, filters |-> filters,
                                       page |-> PageOf(p)]
        BY <3>1
      <3>2. ASSUME NEW c \in calls', LoadOf(c, p)' PROVE c = new
        <4>1. c.panel = p /\ c.id = ref[p] + 1
          BY <3>1, <3>2 DEF LoadOf
        <4>2. c \notin calls
          BY <2>3, <2>4, <4>1
        <4>3. PICK q \in Reloaded :
                 c = [panel |-> q, id |-> ref[q] + 1, filters |-> filters, page |-> PageOf(q)]
          BY <4>2 DEF Effects
        <4>4. q = p
          BY <4>1, <4>3
        <4>5. QED
          BY <3>8, <4>3, <4>4
      <3>3. new.panel = p /\ new.id = ref[p] + 1 /\ new.filters = filters /\ new.page = PageOf(p)
        BY <3>8
      <3>4. LoadOf(new, p)'
        BY <3>1, <3>3, <2>4 DEF LoadOf
      <3>5. seen'.filters = filters
        BY <2>1
      <3>6. \A c \in calls' : LoadOf(c, p)' => c.filters = seen'.filters /\ c.page = SeenPage(p)'
        BY <3>2, <3>3, <3>5, <2>2
      <3>7. QED
        BY <3>4, <3>6 DEF Follows
    <2>6. CASE p \notin Reloaded
      <3>1. IsGridView(view) \/ p # "grid"
        BY <1>2, <2>1 DEF Watched
      <3>2. filters = seen.filters
        BY <2>6, <3>1 DEF Reloaded
      <3>3. p = "grid" => view = seen.view /\ page.grid = seen.page.grid
        BY <2>6, <3>1 DEF Reloaded
      <3>4. p = "scores" => page.scores = seen.page.scores
        BY <2>6, <3>1 DEF Reloaded
      <3>5. PageOf(p) = SeenPage(p) /\ Watched(p)
        BY <3>1, <3>3, <3>4 DEF PageOf, SeenPage, Watched, Panels
      <3>6. filters # None
        BY FiltersAreChosen DEF PageInv
      <3>7. Follows(p)
        BY <3>2, <3>5, <3>6 DEF PageInv
      <3>8. ref'[p] = ref[p] /\ seen'.filters = seen.filters /\ SeenPage(p)' = SeenPage(p)
        BY <2>6, <2>1, <2>2, <3>2, <3>5 DEF Effects
      <3>9. \A c \in calls : c \in calls'
        BY DEF Effects
      <3>10. \A c \in calls' : LoadOf(c, p)' => c \in calls
        <4>1. SUFFICES ASSUME NEW c \in calls', LoadOf(c, p)', c \notin calls PROVE FALSE
          OBVIOUS
        <4>2. PICK q \in Reloaded :
                 c = [panel |-> q, id |-> ref[q] + 1, filters |-> filters, page |-> PageOf(q)]
          BY <4>1 DEF Effects
        <4>3. c.panel = q
          BY <4>2
        <4>4. QED
          BY <2>6, <4>1, <4>3 DEF LoadOf
      <3>11. \A c : LoadOf(c, p)' <=> LoadOf(c, p)
        BY <3>8 DEF LoadOf
      <3>12. QED
        BY <2>1, <3>7, <3>8, <3>9, <3>10, <3>11 DEF Follows
    <2>7. QED
      BY <2>5, <2>6
  <1>3. LiveFollows'
    <2>1. /\ ref["scores"] \in Nat /\ shown' = shown /\ seen'.filters = filters
          /\ "scores" \in Panels
      BY DEF Effects, Deps, PageInv, PageShapes, Panels
    <2>2. \/ "scores" \in Reloaded /\ ref'["scores"] = ref["scores"] + 1
          \/ filters = seen.filters /\ ref'["scores"] = ref["scores"]
      BY <2>1 DEF Effects, Reloaded
    <2>3. ASSUME NEW x, FollowsLoad(x) PROVE FollowsLoad(x)'
      <3>1. /\ x.after \in Nat /\ x.after <= ref["scores"]
            /\ x.after = ref["scores"] => x.filters = seen.filters
        BY <2>3 DEF FollowsLoad
      <3>2. /\ x.after \in Nat /\ x.after <= ref'["scores"]
            /\ x.after = ref'["scores"] => x.filters = seen'.filters
        BY <2>1, <2>2, <3>1
      <3>3. QED
        BY <3>2 DEF FollowsLoad
    <2>4. ASSUME NEW c \in calls', c.id = 0 PROVE c \in calls
      <3>1. SUFFICES ASSUME c \notin calls PROVE FALSE
        OBVIOUS
      <3>2. PICK p \in Reloaded :
               c = [panel |-> p, id |-> ref[p] + 1, filters |-> filters, page |-> PageOf(p)]
        BY <3>1 DEF Effects
      <3>3. c.id = ref[p] + 1 /\ ref[p] \in Nat
        BY <3>2 DEF PageInv, PageShapes, Reloaded
      <3>4. QED
        BY <2>4, <3>3
    <2>5. QED
      BY <2>1, <2>3, <2>4 DEF LiveFollows, PageInv
  <1>4. QED
    BY <1>1, <1>2, <1>3 DEF PageInv

\* What a request does when it ends: it is gone, and if it counted its panel shows
\* what it asked for, nothing or the live scores.
Ends(c, p, taken, what) ==
    /\ c \in calls
    /\ calls' = calls \ {c}
    /\ ref' = ref /\ seen' = seen /\ filters' = filters
    /\ DOMAIN page' = DOMAIN page
    /\ c.panel = p
    /\ shown' = IF taken THEN [shown EXCEPT ![p] = what] ELSE shown
    /\ LoadOf(c, p) => taken
    /\ \/ what = Cleared
       \/ c.id = 0 /\ p = "scores" /\ what = LiveRows(c)
       \/ taken => LoadOf(c, p)
                   /\ what = [state |-> "rows", filters |-> c.filters, page |-> c.page]

LEMMA EndsKeeps ==
    ASSUME PageInv, NEW c, NEW p \in Panels, NEW taken \in BOOLEAN, NEW what,
           Ends(c, p, taken, what)
    PROVE  PageInv'
  <1>1. PageShapes'
    BY DEF Ends, PageInv, PageShapes
  <1>2. ASSUME NEW q \in Panels, seen.filters # None, Watched(q) PROVE Follows(q)'
    <2>1. Follows(q)
      BY <1>2 DEF PageInv
    <2>2. /\ \A d : LoadOf(d, q)' <=> LoadOf(d, q)
          /\ SeenPage(q)' = SeenPage(q)
      BY DEF Ends, LoadOf, SeenPage
    <2>3. \A d \in calls' : LoadOf(d, q)' => d.filters = seen'.filters /\ d.page = SeenPage(q)'
      BY <2>1, <2>2 DEF Ends, Follows
    <2>4. CASE q = p /\ taken
      <3>1. shown'[q] = what
        BY <2>4 DEF Ends, PageInv, PageShapes
      <3>2. \/ what \in {[state |-> "rows", filters |-> seen.filters, page |-> SeenPage(q)],
                         Cleared}
            \/ q = "scores" /\ what.state = "live"
        BY <2>1, <2>4 DEF Ends, Follows, LiveRows
      <3>3. QED
        BY <2>2, <2>3, <3>1, <3>2 DEF Follows, Ends
    <2>5. CASE ~(q = p /\ taken)
      <3>1. shown'[q] = shown[q]
        BY <2>5 DEF Ends, PageInv, PageShapes
      <3>2. ~LoadOf(c, q)
        BY <2>5 DEF Ends, LoadOf
      <3>3. (\E d \in calls : LoadOf(d, q)) => \E d \in calls' : LoadOf(d, q)'
        BY <2>2, <3>2 DEF Ends
      <3>4. QED
        BY <2>1, <2>2, <2>3, <3>1, <3>3 DEF Follows, Ends
    <2>6. QED
      BY <2>4, <2>5
  <1>3. LiveFollows'
    <2>1. \A x : FollowsLoad(x)' <=> FollowsLoad(x)
      BY DEF Ends, FollowsLoad
    <2>2. shown'["scores"].state = "live" => FollowsLoad(shown'["scores"])
      <3>1. SUFFICES ASSUME shown'["scores"].state = "live" PROVE FollowsLoad(shown'["scores"])
        OBVIOUS
      <3>2. CASE shown'["scores"] = shown["scores"]
        BY <3>1, <3>2 DEF PageInv, LiveFollows
      <3>3. CASE shown'["scores"] # shown["scores"]
        <4>1. what = shown'["scores"] /\ taken /\ "scores" \in Panels
          BY <3>3 DEF Ends, PageInv, PageShapes, Panels
        <4>2. what = LiveRows(c) /\ c.id = 0 /\ c \in calls
          BY <3>1, <4>1 DEF Ends, Cleared
        <4>3. FollowsLoad(c)
          BY <4>2 DEF PageInv, LiveFollows
        <4>4. what.after = c.after /\ what.filters = c.filters
          BY <4>2 DEF LiveRows
        <4>5. QED
          BY <4>1, <4>3, <4>4 DEF FollowsLoad
      <3>4. QED
        BY <3>2, <3>3
    <2>3. \A d \in calls' : d.id = 0 => FollowsLoad(d)
      BY DEF Ends, PageInv, LiveFollows
    <2>4. QED
      BY <2>1, <2>2, <2>3 DEF LiveFollows
  <1>4. QED
    <2>1. seen' = seen /\ \A q : Watched(q)' <=> Watched(q)
      BY DEF Ends, Watched
    <2>2. QED
      BY <1>1, <1>2, <1>3, <2>1 DEF PageInv

\* Steps that load and show nothing, apart from a refresh, which is no load.
LEMMA QuietKeeps ==
    ASSUME PageInv, UNCHANGED <<shown, ref, seen>>,
           DOMAIN filters' = DOMAIN filters, DOMAIN page' = DOMAIN page,
           NEW new, new \subseteq {LiveCall}, new # {} => filters = seen.filters,
           calls' = calls \cup new
    PROVE  PageInv'
  <1>1. /\ LiveCall.panel = "scores" /\ LiveCall.id = 0
        /\ LiveCall.after = ref["scores"] /\ LiveCall.filters = filters
    BY DEF LiveCall
  <1> HIDE DEF LiveCall
  <1>2. PageShapes'
    BY <1>1 DEF PageInv, PageShapes, Panels
  <1>3. /\ \A d, q : LoadOf(d, q)' <=> LoadOf(d, q)
        /\ \A q : SeenPage(q)' = SeenPage(q) /\ (Watched(q)' <=> Watched(q))
    BY DEF LoadOf, SeenPage, Watched
  <1>4. \A q : ~LoadOf(LiveCall, q)
    BY <1>1 DEF LoadOf
  <1>5. ASSUME NEW q \in Panels, Follows(q) PROVE Follows(q)'
    BY <1>3, <1>4, <1>5 DEF Follows
  <1>6. LiveFollows'
    <2>1. \A x : FollowsLoad(x)' <=> FollowsLoad(x)
      BY DEF FollowsLoad
    <2>2. ref["scores"] \in Nat
      BY DEF PageInv, PageShapes, Panels
    <2>3. \A c \in new : FollowsLoad(c)
      BY <1>1, <2>2 DEF FollowsLoad
    <2>4. QED
      BY <2>1, <2>3 DEF LiveFollows, PageInv
  <1>7. QED
    BY <1>2, <1>3, <1>5, <1>6 DEF PageInv

LEMMA SilentKeeps ==
    ASSUME PageInv, UNCHANGED <<shown, ref, seen, calls>>,
           DOMAIN filters' = DOMAIN filters, DOMAIN page' = DOMAIN page
    PROVE  PageInv'
  <1> DEFINE new == {}
  <1>1. new \subseteq {LiveCall} /\ (new # {} => filters = seen.filters)
        /\ calls' = calls \cup new
    OBVIOUS
  <1>2. QED
    <2> HIDE DEF new
    <2>1. QED
      BY <1>1, QuietKeeps

LEMMA ChosenShape ==
    ASSUME DOMAIN filters = {"preset", "region", "family", "sku"},
           NEW name \in {"preset", "region", "family", "sku"}, NEW value
    PROVE  DOMAIN Chosen(name, value) = {"preset", "region", "family", "sku"}
  <1>1. CASE name = "preset"
    BY <1>1 DEF Chosen
  <1>2. CASE name = "region"
    BY <1>2 DEF Chosen
  <1>3. CASE name = "family"
    BY <1>3 DEF Chosen
  <1>4. CASE name = "sku"
    BY <1>4 DEF Chosen
  <1>5. QED
    BY <1>1, <1>2, <1>3, <1>4

LEMMA ChoicesKeep == ASSUME PageInv, Choose PROVE PageInv'
  <1>1. DOMAIN Offered = {"preset", "region", "family", "sku"}
    BY DEF Offered
  <1>2. DOMAIN filters = {"preset", "region", "family", "sku"}
    BY DEF PageInv, PageShapes
  <1>3. DOMAIN filters' = DOMAIN filters
    <2>1. CASE \E name \in DOMAIN Offered : \E value \in Offered[name] \ {filters[name]} :
                  filters' = Chosen(name, value)
      BY <1>1, <1>2, <2>1, ChosenShape
    <2>2. CASE filters' = filters
      BY <2>2
    <2>3. QED
      BY <2>1, <2>2 DEF Choose
  <1>4. DOMAIN page' = DOMAIN page
    BY DEF Choose
  <1>5. UNCHANGED <<shown, ref, seen, calls>>
    BY DEF Choose
  <1>6. QED
    BY <1>3, <1>4, <1>5, SilentKeeps

LEMMA PageStepKeeps == PageInv /\ [PageNext]_pageVars => PageInv'
  <1>1. SUFFICES ASSUME PageInv, [PageNext]_pageVars PROVE PageInv'
    OBVIOUS
  <1>2. CASE Effects
    BY <1>1, <1>2, EffectsKeep
  <1>3. ASSUME NEW c \in calls, Answer(c) PROVE PageInv'
    <2>1. c.panel \in Panels /\ Current(c) \in BOOLEAN /\ DOMAIN page' = DOMAIN page
      BY <1>1, <1>3 DEF PageInv, PageShapes, Answer, Current
    <2>2. Ends(c, c.panel, Current(c), [state |-> "rows", filters |-> c.filters, page |-> c.page])
      BY <1>3, <2>1 DEF Answer, Load, Ends, LoadOf, Current
    <2>3. QED
      BY <1>1, <2>1, <2>2, EndsKeeps
  <1>4. ASSUME NEW c \in calls, Fail(c) PROVE PageInv'
    <2>1. c.panel \in Panels /\ Current(c) \in BOOLEAN /\ DOMAIN page' = DOMAIN page
      BY <1>1, <1>4 DEF PageInv, PageShapes, Fail, Current
    <2>2. Ends(c, c.panel, Current(c), Cleared)
      BY <1>4, <2>1 DEF Fail, Load, Ends, LoadOf, Current
    <2>3. QED
      BY <1>1, <2>1, <2>2, EndsKeeps
  <1>5. ASSUME NEW c \in calls, LiveAnswer(c) PROVE PageInv'
    <2>1. "scores" \in Panels /\ DOMAIN page' = DOMAIN page
      BY <1>1, <1>5 DEF PageInv, PageShapes, LiveAnswer, Panels
    <2>2. c.panel = "scores"
      BY <1>1, <1>5 DEF PageInv, PageShapes, LiveAnswer
    <2>3. CASE shown' = shown
      <3>1. Ends(c, "scores", FALSE, LiveRows(c))
        BY <1>5, <2>1, <2>2, <2>3 DEF LiveAnswer, Ends, LoadOf
      <3>2. QED
        BY <1>1, <2>1, <3>1, EndsKeeps
    <2>4. CASE shown' = [shown EXCEPT !["scores"] = LiveRows(c)]
      <3>1. Ends(c, "scores", TRUE, LiveRows(c))
        BY <1>5, <2>1, <2>2, <2>4 DEF LiveAnswer, Ends, LoadOf
      <3>2. QED
        BY <1>1, <2>1, <3>1, EndsKeeps
    <2>5. QED
      BY <1>5, <2>3, <2>4 DEF LiveAnswer
  <1>6. CASE FamiliesAnswer
    <2>1. /\ UNCHANGED <<shown, ref, seen, calls>>
          /\ DOMAIN filters' = DOMAIN filters /\ DOMAIN page' = DOMAIN page
      BY <1>6 DEF FamiliesAnswer
    <2>2. QED
      BY <1>1, <2>1, SilentKeeps
  <1>7. CASE RefreshLivePlacement
    <2>1. LiveCall.panel = "scores" /\ LiveCall.id = 0
      BY DEF LiveCall
    <2>2. filters = seen.filters
      BY <1>7 DEF RefreshLivePlacement, Rendered, Deps
    <2>3. /\ UNCHANGED <<shown, ref, seen>> /\ filters' = filters /\ page' = page
          /\ calls' = calls \cup {LiveCall}
      BY <1>7 DEF RefreshLivePlacement
    <2>4. QED
      BY <1>1, <2>2, <2>3, QuietKeeps
  <1>8. CASE Choose
    BY <1>1, <1>8, ChoicesKeep
  <1>9. CASE UNCHANGED pageVars
    <2>1. /\ UNCHANGED <<shown, ref, seen, calls>>
          /\ DOMAIN filters' = DOMAIN filters /\ DOMAIN page' = DOMAIN page
      BY <1>9 DEF pageVars
    <2>2. QED
      BY <1>1, <2>1, SilentKeeps
  <1>10. QED
    BY <1>1, <1>2, <1>3, <1>4, <1>5, <1>6, <1>7, <1>8, <1>9 DEF PageNext, PageStep

THEOREM PanelsShowTheSelection == PageSpec => []PanelsShowWhatIsSelected
  <1>1. PageInv => PanelsShowWhatIsSelected
    <2>1. SUFFICES ASSUME PageInv, NEW p \in Panels, Rendered, OnScreen(p), ~InFlight(p)
                   PROVE  \/ shown[p] \in {Selected(p), Cleared}
                          \/ /\ shown[p].state = "live"
                             /\ shown[p].after = ref[p] => shown[p].filters = filters
      BY DEF PanelsShowWhatIsSelected
    <2>2. seen.view = view /\ seen.filters = filters /\ seen.page = page
      BY <2>1 DEF Rendered, Deps
    <2>3. filters # None
      BY <2>1, FiltersAreChosen DEF PageInv
    <2>4. Watched(p)
      BY <2>1, <2>2 DEF Watched, OnScreen
    <2>5. Follows(p)
      BY <2>1, <2>2, <2>3, <2>4 DEF PageInv
    <2>6. ~\E c \in calls : LoadOf(c, p)
      BY <2>1 DEF InFlight, Current, LoadOf
    <2>7. SeenPage(p) = PageOf(p)
      BY <2>2 DEF SeenPage, PageOf
    <2>8. \/ shown[p] \in {Selected(p), Cleared}
          \/ p = "scores" /\ shown[p].state = "live"
      BY <2>2, <2>5, <2>6, <2>7 DEF Follows, Selected
    <2>9. p = "scores" /\ shown[p].state = "live" /\ shown[p].after = ref[p]
             => shown[p].filters = filters
      BY <2>1, <2>2 DEF PageInv, LiveFollows, FollowsLoad
    <2>10. QED
      BY <2>8, <2>9
  <1>2. QED
    BY <1>1, PageStarts, PageStepKeeps, PTL DEF PageSpec

(***************************************************************************)
(* Recommendations: any listings, target, length and lowest score.         *)
(***************************************************************************)
\* Who precedes whom.
Preceding(S) == {q \in S \X S : Precedes(q[1], q[2])}

LEMMA SimilarityIsInt ==
    ASSUME NEW s, Measured(s)
    PROVE  Similarity(Target, s) \in Int
  <1>1. ASSUME NEW a \in Nat, NEW b \in Nat, NEW w \in Nat, Both(a, b)
        PROVE  Near(a, b, w) \in Int
    <2>1. Larger(a, b) \in Nat \ {0} /\ Smaller(a, b) \in Nat
      BY <1>1 DEF Both, Larger, Smaller
    <2>2. 2 * w * Smaller(a, b) + Larger(a, b) \in Nat /\ 2 * Larger(a, b) \in Nat \ {0}
      BY <2>1
    <2>3. QED
      BY <2>2 DEF Near
  <1>2. VersionBonus(s.version) \in Int /\ OtherFamilyBonus(s.version) \in Int
    BY DEF VersionBonus, OtherFamilyBonus
  <1>3. Measured(Target) /\ Measured(s)
    BY ListingsOK
  <1> DEFINE cpu == IF Both(Target.cpu, s.cpu) THEN Near(Target.cpu, s.cpu, 20) ELSE 0
             memory == IF Both(Target.memory, s.memory)
                       THEN Near(Target.memory, s.memory, 20) ELSE 0
             iops == IF Target.iops = 0 THEN 8
                     ELSE IF s.iops > 0 THEN Near(Target.iops, s.iops, 8) ELSE 0
             disks == IF Target.disks = 0 THEN 7
                      ELSE IF s.disks > 0 THEN Near(Target.disks, s.disks, 7) ELSE 0
  <1>4. cpu \in Int /\ memory \in Int
    BY <1>1, <1>3 DEF Measured
  <1>5. iops \in Int /\ disks \in Int
    BY <1>1, <1>3 DEF Measured, Both
  <1> HIDE DEF cpu, memory, iops, disks
  <1> DEFINE version == IF Target.family # s.family THEN OtherFamilyBonus(s.version)
                        ELSE IF s.version > Target.version THEN 8 + VersionBonus(s.version)
                        ELSE IF s.version = Target.version THEN 5 ELSE 1
             likeness == IF Target.family = s.family THEN 18
                         ELSE IF Target.letter = s.letter THEN 9 ELSE 0
             arch == IF Target.arch = s.arch THEN 10 ELSE 0
             premium == IF "premium" \in Target.features => "premium" \in s.features THEN 5 ELSE 0
  <1>6. version \in Int
    BY <1>2
  <1>7. likeness \in Int /\ arch \in Int /\ premium \in Int
    OBVIOUS
  <1> HIDE DEF version, likeness, arch, premium
  <1>8. Smaller(100, cpu + memory + likeness + version + arch + premium + iops + disks) \in Int
    BY <1>4, <1>5, <1>6, <1>7 DEF Smaller
  <1>9. QED
    BY <1>8, Zenon DEF Similarity, cpu, memory, iops, disks, version, likeness, arch, premium

\* Listings are compared by four numbers, the last of which no two of a lookup share.
LEMMA PrecedesTotally ==
    ASSUME NEW offers \in Offers, NEW S \in SUBSET offers
    PROVE  /\ IsFiniteSet(S)
           /\ TotallyOrders(Preceding(S), S)
           /\ \A x, y \in S : <<x, y>> \in Preceding(S) => <<y, x>> \notin Preceding(S)
  <1> DEFINE sim(o) == Similarity(Target, o.sku)
             w(o) == Weight(o.status)
  <1>1. \A o \in S : sim(o) \in Int
    BY ListingsOK, SimilarityIsInt
  <1>2. \A o \in S : w(o) \in Int
    BY DEF Weight
  <1>3. \A o \in S : o.order \in Nat /\ o.zones \in Nat
    BY ListingsOK
  <1>4. \A o, p \in S : o.order = p.order => o = p
    BY ListingsOK
  <1>5. \A o, p \in S : Precedes(o, p) <=>
            \/ sim(o) > sim(p)
            \/ sim(o) = sim(p) /\ w(o) < w(p)
            \/ sim(o) = sim(p) /\ w(o) = w(p) /\ o.zones > p.zones
            \/ sim(o) = sim(p) /\ w(o) = w(p) /\ o.zones = p.zones /\ o.order < p.order
    BY Zenon DEF Precedes
  <1> HIDE DEF sim, w
  <1>6. \A o, p \in S : o # p => Precedes(o, p) \/ Precedes(p, o)
    BY <1>1, <1>2, <1>3, <1>4, <1>5
  <1>7. \A o, p, q \in S : Precedes(o, p) /\ Precedes(p, q) => Precedes(o, q)
    BY <1>1, <1>2, <1>3, <1>5
  <1>8. \A o, p \in S : Precedes(o, p) => ~Precedes(p, o)
    BY <1>1, <1>2, <1>3, <1>5
  <1>9. \A o, p \in S : <<o, p>> \in Preceding(S) <=> Precedes(o, p)
    BY DEF Preceding
  <1>10. IsFiniteSet(S)
    BY ListingsOK, FS_Subset
  <1>11. TotallyOrders(Preceding(S), S)
    BY <1>6, <1>7, <1>9 DEF TotallyOrders
  <1>12. QED
    BY <1>8, <1>9, <1>10, <1>11

\* A sequence of listings that names no SKU twice.
OfDistinctSkus(s) == \A i, j \in DOMAIN s : s[i].sku = s[j].sku => i = j

LEMMA RankedIsDistinct ==
    ASSUME NEW offers \in Offers, NEW S \in SUBSET offers
    PROVE  Ranked(S) \in Seq(S) /\ OfDistinctSkus(Ranked(S))
  <1> DEFINE once == OncePerSku(S)
             n == Cardinality(once)
             rank(o) == Cardinality({p \in once : Precedes(p, o)})
  <1>1. once \in SUBSET offers /\ once \in SUBSET S
    BY DEF OncePerSku
  <1>2. \A o, p \in once : o.sku = p.sku => o = p
    <2>1. ASSUME NEW o \in once, NEW p \in once, o.sku = p.sku, o # p PROVE FALSE
      <3>1. Precedes(o, p) /\ Precedes(p, o)
        BY <2>1 DEF OncePerSku
      <3>2. QED
        BY <1>1, <3>1, PrecedesTotally DEF Preceding
    <2>2. QED
      BY <2>1
  <1> HIDE DEF once
  <1>3. IsFiniteSet(once) /\ n \in Nat
    BY <1>1, PrecedesTotally, FS_CardinalityType
  <1>4. \A i \in 1..n : \E o \in once : rank(o) = i - 1
    <2>1. \A i \in 1..n : \E o \in once : Cardinality({p \in once : <<p, o>> \in Preceding(once)}) = i - 1
      BY <1>1, PrecedesTotally, RanksExist
    <2>2. \A o \in once : {p \in once : <<p, o>> \in Preceding(once)} = {p \in once : Precedes(p, o)}
      BY DEF Preceding
    <2>3. QED
      BY <2>1, <2>2
  <1> DEFINE r == [i \in 1..n |-> CHOOSE o \in once : rank(o) = i - 1]
  <1>5. Ranked(S) = r
    BY Zenon DEF Ranked, once
  <1> HIDE DEF n, rank
  <1>6. \A i \in 1..n : r[i] \in once /\ rank(r[i]) = i - 1
    BY <1>4
  <1>7. r \in [1..n -> once]
    BY <1>6
  <1> HIDE DEF r
  <1>8. r \in Seq(S) /\ DOMAIN r = 1..n
    BY <1>1, <1>3, <1>7
  <1>9. ASSUME NEW i \in 1..n, NEW j \in 1..n, r[i].sku = r[j].sku PROVE i = j
    <2>1. r[i] = r[j]
      BY <1>2, <1>6, <1>9
    <2>2. i - 1 = j - 1
      BY <1>6, <2>1
    <2>3. QED
      BY <2>2
  <1>10. QED
    BY <1>5, <1>8, <1>9 DEF OfDistinctSkus

LEMMA AppendedServes ==
    ASSUME NEW offers \in Offers, NEW S \in SUBSET offers, NEW kind \in SUBSET S,
           \A o \in kind, p \in S : o.sku = p.sku => p \in kind,
           NEW ranking \in Seq(S), OfDistinctSkus(ranking)
    PROVE  /\ Appended(ranking, kind) \in Seq(S)
           /\ OfDistinctSkus(Appended(ranking, kind))
           /\ kind # {} => \E i \in DOMAIN Appended(ranking, kind) : Appended(ranking, kind)[i] \in kind
           /\ \A i \in DOMAIN ranking : /\ i \in DOMAIN Appended(ranking, kind)
                                       /\ Appended(ranking, kind)[i] = ranking[i]
  <1> DEFINE sim(o) == Similarity(Target, o.sku)
             best == {o \in kind : \A p \in kind :
                        \/ sim(o) > sim(p)
                        \/ sim(o) = sim(p) /\ o.order <= p.order}
             Worse == {q \in kind \X kind :
                        \/ sim(q[2]) > sim(q[1])
                        \/ sim(q[2]) = sim(q[1]) /\ q[2].order <= q[1].order}
  <1>1. CASE kind = {} \/ \E i \in DOMAIN ranking : ranking[i] \in kind
    <2>1. Appended(ranking, kind) = ranking
      BY <1>1 DEF Appended
    <2>2. QED
      BY <1>1, <2>1
  <1>2. CASE kind # {} /\ \A i \in DOMAIN ranking : ranking[i] \notin kind
    <2>1. \A o \in kind : sim(o) \in Int /\ o.order \in Nat
      BY ListingsOK, SimilarityIsInt
    <2>2. IsFiniteSet(kind)
      BY PrecedesTotally
    <2>3. Appended(ranking, kind) = Append(ranking, CHOOSE o \in best : TRUE)
      BY <1>2, Zenon DEF Appended
    <2> HIDE DEF sim
    <2>4. TotallyOrders(Worse, kind)
      <3>1. \A x, y \in kind : <<x, y>> \in Worse \/ <<y, x>> \in Worse
        BY <2>1
      <3>2. \A x, y, z \in kind : <<x, y>> \in Worse /\ <<y, z>> \in Worse => <<x, z>> \in Worse
        BY <2>1
      <3>3. QED
        BY <3>1, <3>2 DEF TotallyOrders
    <2>5. PICK x \in kind : \A y \in kind : y # x => <<y, x>> \in Worse
      BY <1>2, <2>2, <2>4, LastExists
    <2>6. x \in best
      <3>1. ASSUME NEW p \in kind
            PROVE  sim(x) > sim(p) \/ (sim(x) = sim(p) /\ x.order <= p.order)
        <4>1. CASE p = x
          BY <2>1, <4>1
        <4>2. CASE p # x
          BY <2>5, <4>2
        <4>3. QED
          BY <4>1, <4>2
      <3>2. QED
        BY <3>1
    <2>7. PICK c : c = (CHOOSE o \in best : TRUE)
      OBVIOUS
    <2>8. c \in best
      BY <2>6, <2>7, Zenon
    <2>9. c \in kind /\ c \in S
      BY <2>8
    <2>10. Appended(ranking, kind) = Append(ranking, c)
      BY <2>3, <2>7
    <2> DEFINE n == Len(ranking)
    <2>11. n \in Nat /\ DOMAIN ranking = 1..n /\ \A i \in 1..n : ranking[i] \in S
      OBVIOUS
    <2>12. /\ Append(ranking, c) \in Seq(S)
           /\ DOMAIN Append(ranking, c) = 1..(n + 1)
           /\ Append(ranking, c)[n + 1] = c
           /\ \A i \in 1..n : Append(ranking, c)[i] = ranking[i]
      BY <2>9
    <2> HIDE DEF n, best, Worse
    <2>13. \A i \in 1..n : ranking[i].sku # c.sku
      BY <1>2, <2>9, <2>11
    <2>14. ASSUME NEW i \in 1..(n + 1), NEW j \in 1..(n + 1),
                  Append(ranking, c)[i].sku = Append(ranking, c)[j].sku
           PROVE  i = j
      <3>1. CASE i \in 1..n /\ j \in 1..n
        BY <2>11, <2>12, <2>14, <3>1 DEF OfDistinctSkus
      <3>2. CASE i \in 1..n /\ j = n + 1
        BY <2>12, <2>13, <2>14, <3>2
      <3>3. CASE i = n + 1 /\ j \in 1..n
        BY <2>12, <2>13, <2>14, <3>3
      <3>4. CASE i = n + 1 /\ j = n + 1
        BY <3>4
      <3>5. QED
        BY <2>11, <3>1, <3>2, <3>3, <3>4
    <2>15. n + 1 \in 1..(n + 1) /\ \A i \in 1..n : i \in 1..(n + 1)
      BY <2>11
    <2>16. QED
      BY <2>9, <2>10, <2>11, <2>12, <2>14, <2>15 DEF OfDistinctSkus
  <1>3. QED
    BY <1>1, <1>2

\* What the direct runner recommends.
LEMMA RecommendationsServe ==
    ASSUME NEW offers \in Offers
    PROVE  /\ OfDistinctSkus(Recommend(offers))
           /\ SameCpu(Eligible(offers)) # {}
                 => \E i \in DOMAIN Recommend(offers) :
                       Recommend(offers)[i] \in SameCpu(Eligible(offers))
           /\ EnoughIops(Eligible(offers)) # {}
                 => \E i \in DOMAIN Recommend(offers) :
                       Recommend(offers)[i] \in EnoughIops(Eligible(offers))
  <1> DEFINE S == Eligible(offers)
             ranked == Ranked(S)
             top == SubSeq(ranked, 1, Smaller(TopN, Len(ranked)))
             two == Appended(top, SameCpu(S))
             all == Appended(two, EnoughIops(S))
  <1>1. S \in SUBSET offers
    BY DEF Eligible, Candidates
  <1>2. /\ SameCpu(S) \in SUBSET S /\ EnoughIops(S) \in SUBSET S
        /\ \A o \in SameCpu(S), p \in S : o.sku = p.sku => p \in SameCpu(S)
        /\ \A o \in EnoughIops(S), p \in S : o.sku = p.sku => p \in EnoughIops(S)
    BY DEF SameCpu, EnoughIops
  <1>3. Recommend(offers) = all
    BY Zenon DEF Recommend
  <1> HIDE DEF S
  <1>4. ranked \in Seq(S) /\ OfDistinctSkus(ranked)
    BY <1>1, RankedIsDistinct
  <1>5. top \in Seq(S) /\ OfDistinctSkus(top)
    <2> DEFINE n == Smaller(TopN, Len(ranked))
    <2>1. n \in 0..Len(ranked)
      BY <1>4, ListingsOK DEF Smaller
    <2> HIDE DEF n, ranked
    <2>2. SubSeq(ranked, 1, n) \in Seq(S) /\ DOMAIN SubSeq(ranked, 1, n) = 1..n
      BY <1>4, <2>1
    <2>3. \A i \in 1..n : SubSeq(ranked, 1, n)[i] = ranked[i] /\ i \in DOMAIN ranked
      BY <1>4, <2>1
    <2>4. QED
      BY <1>4, <2>2, <2>3 DEF OfDistinctSkus, n
  <1> HIDE DEF top
  <1>6. two \in Seq(S) /\ OfDistinctSkus(two)
    BY <1>1, <1>2, <1>5, AppendedServes
  <1>7. SameCpu(S) # {} => \E i \in DOMAIN two : two[i] \in SameCpu(S)
    BY <1>1, <1>2, <1>5, AppendedServes
  <1> HIDE DEF two
  <1>8. /\ OfDistinctSkus(all)
        /\ EnoughIops(S) # {} => \E i \in DOMAIN all : all[i] \in EnoughIops(S)
        /\ \A i \in DOMAIN two : i \in DOMAIN all /\ all[i] = two[i]
    BY <1>1, <1>2, <1>6, AppendedServes
  <1> HIDE DEF all
  <1>9. SameCpu(S) # {} => \E i \in DOMAIN all : all[i] \in SameCpu(S)
    BY <1>7, <1>8
  <1>10. QED
    BY <1>3, <1>8, <1>9 DEF S

----------------------------------------------------------------------------
\* What was listed and found stays empty until the direct runner answers.
FoundIsRecommended ==
    \/ lookup.listed = {} /\ lookup.found = <<>>
    \/ lookup.listed \in Offers /\ lookup.found = Recommend(lookup.listed)

\* Where the chain of runners starts, the request is still what it was.
RequestStands ==
    /\ lookup.at = "direct" => config.direct
    /\ lookup.at = "first" => ~config.direct /\ lookup.spot = spot
    /\ lookup.at \in {"direct", "first", "afterDirect"} => lookup.ran = {}
    /\ lookup.at = "direct" => lookup.spot = spot

DegradedIsSaid ==
    lookup.at = "answered" =>
        \/ lookup.warned
        \/ /\ lookup.spot = spot
           /\ lookup.ran = {IF config.direct THEN "direct" ELSE Runner}

LookupShape ==
    lookup = [at |-> lookup.at, spot |-> lookup.spot, ran |-> lookup.ran,
              warned |-> lookup.warned, noOutput |-> lookup.noOutput,
              listed |-> lookup.listed, found |-> lookup.found]

LookupInv == LookupShape /\ FoundIsRecommended /\ RequestStands /\ DegradedIsSaid

LEMMA LookupStarts == LookupInit => LookupInv
  <1> SUFFICES ASSUME LookupInit PROVE LookupInv
    OBVIOUS
  <1>1. LookupShape /\ FoundIsRecommended
    BY DEF LookupInit, LookupShape, FoundIsRecommended
  <1>2. RequestStands
    BY DEF LookupInit, RequestStands
  <1>3. DegradedIsSaid
    BY DEF LookupInit, DegradedIsSaid
  <1>4. QED
    BY <1>1, <1>2, <1>3 DEF LookupInv

LEMMA LookupGoesOn == LookupInv /\ [LookupNext]_lookupVars => LookupInv'
  <1> SUFFICES ASSUME LookupInv, [LookupNext]_lookupVars PROVE LookupInv'
    OBVIOUS
  <1> USE DEF LookupInv
  <1>1. CASE DirectAnswers
    <2>1. PICK offers \in Offers :
             lookup' = [lookup EXCEPT !.listed = offers, !.ran = {"direct"},
                                      !.found = Recommend(offers), !.at = "answered"]
      BY <1>1 DEF DirectAnswers, Goes
    <2>2. lookup.at = "direct" /\ UNCHANGED <<config, spot>>
      BY <1>1 DEF DirectAnswers
    <2>3. /\ lookup' = [at |-> "answered", spot |-> lookup.spot, ran |-> {"direct"},
                        warned |-> lookup.warned, noOutput |-> lookup.noOutput,
                        listed |-> offers, found |-> Recommend(offers)]
      BY <2>1 DEF LookupShape
    <2>4. LookupShape' /\ FoundIsRecommended'
      BY <2>3 DEF LookupShape, FoundIsRecommended
    <2>5. RequestStands' /\ DegradedIsSaid'
      BY <2>2, <2>3 DEF RequestStands, DegradedIsSaid
    <2>6. QED
      BY <2>4, <2>5
  <1>2. CASE DirectFails
    <2>1. lookup' = [lookup EXCEPT !.at = "afterDirect"] /\ lookup.at = "direct"
          /\ UNCHANGED <<config, spot>>
      BY <1>2 DEF DirectFails, Goes
    <2>2. QED
      BY <2>1 DEF LookupShape, FoundIsRecommended, RequestStands, DegradedIsSaid
  <1>3. ASSUME NEW runner, Answers(runner, TRUE) PROVE LookupInv'
    <2>1. lookup' = [lookup EXCEPT !.ran = @ \cup {runner}, !.warned = TRUE, !.at = "answered"]
          /\ UNCHANGED <<config, spot>>
      BY <1>3 DEF Answers, Goes
    <2>2. QED
      BY <2>1 DEF LookupShape, FoundIsRecommended, RequestStands, DegradedIsSaid
  <1>4. ASSUME NEW runner, AnswersWithoutSpot(runner) PROVE LookupInv'
    <2>1. lookup' = [lookup EXCEPT !.ran = @ \cup {runner}, !.spot = FALSE, !.warned = TRUE,
                                   !.at = "answered"]
          /\ UNCHANGED <<config, spot>>
      BY <1>4 DEF AnswersWithoutSpot, Goes
    <2>2. QED
      BY <2>1 DEF LookupShape, FoundIsRecommended, RequestStands, DegradedIsSaid
  <1>5. ASSUME NEW runner, NEW next \in {"retry", "last", "threw"}, NEW noOutput,
               RunnerFails(runner, next, noOutput)
        PROVE  LookupInv'
    <2>1. lookup' = [lookup EXCEPT !.ran = @ \cup {runner}, !.noOutput = noOutput, !.at = next]
          /\ UNCHANGED <<config, spot>>
      BY <1>5 DEF RunnerFails, Goes
    <2>2. QED
      BY <2>1 DEF LookupShape, FoundIsRecommended, RequestStands, DegradedIsSaid
  <1>6. CASE AfterDirect
    BY <1>3, <1>5, <1>6 DEF AfterDirect
  <1>7. CASE FirstAttempt
    <2>1. CASE Answers(Runner, FALSE)
      <3>1. PICK own \in BOOLEAN :
               lookup' = [lookup EXCEPT !.ran = @ \cup {Runner}, !.warned = own, !.at = "answered"]
        BY <2>1 DEF Answers, Goes
      <3>2. lookup.at = "first" /\ UNCHANGED <<config, spot>>
        BY <1>7, <2>1 DEF FirstAttempt, Answers
      <3>3. lookup'.ran = {Runner} /\ Runner' = Runner /\ lookup'.spot = spot' /\ ~config'.direct
        BY <3>1, <3>2 DEF LookupShape, RequestStands, Runner
      <3>4. LookupShape' /\ FoundIsRecommended' /\ RequestStands'
        BY <3>1, <3>2 DEF LookupShape, FoundIsRecommended, RequestStands
      <3>5. DegradedIsSaid'
        BY <3>3 DEF DegradedIsSaid
      <3>6. QED
        BY <3>4, <3>5
    <2>2. CASE \E noOutput \in BOOLEAN :
                  RunnerFails(Runner, IF spot THEN "retry" ELSE "last", noOutput)
      BY <1>5, <2>2
    <2>3. QED
      BY <1>7, <2>1, <2>2 DEF FirstAttempt
  <1>8. CASE RetryWithoutSpot
    BY <1>4, <1>5, <1>8 DEF RetryWithoutSpot
  <1>9. CASE LastAttempt
    <2>1. CASE Goes("threw", lookup) /\ UNCHANGED <<config, spot>>
      <3>1. lookup' = [lookup EXCEPT !.at = "threw"]
        BY <2>1 DEF Goes
      <3>2. QED
        BY <2>1, <3>1 DEF LookupShape, FoundIsRecommended, RequestStands, DegradedIsSaid
    <2>2. QED
      BY <1>3, <1>4, <1>5, <1>9, <2>1 DEF LastAttempt
  <1>10. CASE UNCHANGED lookupVars
    BY <1>10 DEF lookupVars, LookupShape, FoundIsRecommended, RequestStands, DegradedIsSaid, Runner
  <1>11. QED
    BY <1>1, <1>2, <1>6, <1>7, <1>8, <1>9, <1>10 DEF LookupNext

\* An answer is what was asked for, or says that it is not; and what the direct runner
\* recommends has each SKU once and a listing of each kind that there is
\* (getCapacityRecommendations, runRecommendationLookupDirect).
THEOREM AnswersAreHonest == LookupSpec => []AnswersSayWhatTheyAre
  <1>1. LookupInv => AnswersSayWhatTheyAre
    <2> SUFFICES ASSUME LookupInv PROVE AnswersSayWhatTheyAre
      OBVIOUS
    <2>1. /\ OfDistinctSkus(lookup.found)
          /\ SameCpu(Eligible(lookup.listed)) # {}
                => \E i \in DOMAIN lookup.found : lookup.found[i] \in SameCpu(Eligible(lookup.listed))
          /\ EnoughIops(Eligible(lookup.listed)) # {}
                => \E i \in DOMAIN lookup.found : lookup.found[i] \in EnoughIops(Eligible(lookup.listed))
      <3>1. CASE lookup.listed = {} /\ lookup.found = <<>>
        BY <3>1 DEF OfDistinctSkus, SameCpu, EnoughIops, Eligible, Candidates
      <3>2. CASE lookup.listed \in Offers /\ lookup.found = Recommend(lookup.listed)
        BY <3>2, RecommendationsServe
      <3>3. QED
        BY <3>1, <3>2 DEF LookupInv, FoundIsRecommended
    <2>2. QED
      BY <2>1 DEF LookupInv, DegradedIsSaid, AnswersSayWhatTheyAre, OfDistinctSkus
  <1>2. QED
    BY <1>1, LookupStarts, LookupGoesOn, PTL DEF LookupSpec

(***************************************************************************)
(* CapacityReports and Matrices: any rows.                                 *)
(***************************************************************************)

\* Rows whose fields have the types that ingestion stores.
AreRows(rows) ==
    /\ IsFiniteSet(rows)
    /\ \A r \in rows : r.hasSku \in BOOLEAN /\ r.current \in Int /\ r.limit \in Int

LEMMA AvailabilityMeans ==
    ASSUME NEW r, r.hasSku \in BOOLEAN, r.current \in Int, r.limit \in Int
    PROVE  /\ Free(r) \in Int
           /\ Availability(r) \in {"OK", "LIMITED", "CONSTRAINED", "RESTRICTED"}
           /\ Availability(r) \in {"OK", "LIMITED"} => Free(r) > 0
           /\ IsBlocked(r) <=> Availability(r) \notin {"OK", "LIMITED"}
  <1>1. Free(r) \in Int
    BY DEF Free
  <1>2. CASE ~r.hasSku
    <2>1. Availability(r) = "RESTRICTED"
      BY <1>2 DEF Availability
    <2>2. QED
      BY <1>1, <2>1 DEF IsBlocked
  <1>3. CASE r.hasSku /\ Free(r) <= 0
    <2>1. Availability(r) = "CONSTRAINED"
      <3>1. ~ (Free(r) > 0)
        BY <1>1, <1>3
      <3>2. QED
        BY <1>3, <3>1 DEF Availability
    <2>2. QED
      BY <1>1, <2>1 DEF IsBlocked
  <1>4. CASE r.hasSku /\ Free(r) > 0
    <2>1. Availability(r) = "LIMITED" \/ Availability(r) = "OK"
      <3>1. ~ (Free(r) <= 0)
        BY <1>1, <1>4
      <3>2. QED
        BY <1>4, <3>1 DEF Availability
    <2>2. QED
      BY <1>1, <1>4, <2>1 DEF IsBlocked
  <1>5. QED
    BY <1>1, <1>2, <1>3, <1>4

LEMMA RowsKnown ==
    ASSUME NEW rows, AreRows(rows)
    PROVE  \A r \in rows :
              /\ Free(r) \in Int
              /\ Availability(r) \in {"OK", "LIMITED", "CONSTRAINED", "RESTRICTED"}
              /\ Availability(r) \in {"OK", "LIMITED"} => Free(r) > 0
              /\ IsBlocked(r) <=> Availability(r) \notin {"OK", "LIMITED"}
  BY AvailabilityMeans DEF AreRows

\* Rows with something free have something available together.
LEMMA AvailableMeans ==
    ASSUME NEW rows, AreRows(rows)
    PROVE  /\ SumFunction([r \in rows |-> FreeOrNone(r)]) \in Nat
           /\ SumFunction([r \in rows |-> FreeOrNone(r)]) > 0 <=> \E r \in rows : Free(r) > 0
  <1> DEFINE f == [r \in rows |-> FreeOrNone(r)]
  <1>1. \A r \in rows : FreeOrNone(r) \in Nat /\ (FreeOrNone(r) > 0 <=> Free(r) > 0)
    <2>1. \A r \in rows : Free(r) \in Int
      BY RowsKnown
    <2>2. QED
      BY <2>1 DEF FreeOrNone, Higher
  <1>2. f \in [rows -> Nat] /\ \A r \in rows : f[r] = FreeOrNone(r)
    BY <1>1
  <1>3. IsFiniteSet(rows)
    BY DEF AreRows
  <1> HIDE DEF f
  <1>4. SumFunction(f) \in Nat /\ (SumFunction(f) > 0 <=> \E r \in rows : f[r] > 0)
    BY <1>2, <1>3, SumNat, SumPositive
  <1>5. SumFunction(f) \in Nat /\ (SumFunction(f) > 0 <=> \E r \in rows : Free(r) > 0)
    BY <1>1, <1>2, <1>4
  <1>6. QED
    BY <1>5 DEF f

\* A score is High when every row is OK, Low when no row has anything free.
LEMMA ScoreMeans ==
    ASSUME NEW rows, AreRows(rows), rows # {}
    PROVE  LET score == Label(Summary(rows))
           IN  /\ score \in {"High", "Medium", "Low"}
               /\ score = "High" <=> \A r \in rows : Availability(r) = "OK"
               /\ score = "Low" <=> \A r \in rows : Free(r) <= 0
  <1> DEFINE s == Summary(rows)
             ok == With(rows, "OK")
             limited == With(rows, "LIMITED")
             rest == rows \ (ok \cup limited)
  <1>1. ok \subseteq rows /\ limited \subseteq rows /\ rest \subseteq rows
    BY DEF With
  <1>2. \A T \in SUBSET rows : Cardinality(T) \in Nat /\ (Cardinality(T) = 0 <=> T = {})
    BY FS_Subset, FS_CardinalityType, FS_EmptySet DEF AreRows
  <1>3. /\ s.ok \in Nat /\ (s.ok = 0 <=> ok = {})
        /\ s.limited \in Nat /\ (s.limited = 0 <=> limited = {})
        /\ s.constrained \in Nat /\ (s.constrained = 0 <=> rest = {})
    <2>1. s.ok = Cardinality(ok) /\ s.limited = Cardinality(limited)
          /\ s.constrained = Cardinality(rest)
      BY DEF Summary
    <2> HIDE DEF s, ok, limited, rest
    <2>2. QED
      BY <1>1, <1>2, <2>1
  <1>4. s.available \in Nat /\ (s.available > 0 <=> \E r \in rows : Free(r) > 0)
    BY AvailableMeans DEF Summary
  <1>5. /\ ok = {} <=> \A r \in rows : Availability(r) # "OK"
        /\ limited = {} <=> \A r \in rows : Availability(r) # "LIMITED"
        /\ rest = {} <=> \A r \in rows : Availability(r) \in {"OK", "LIMITED"}
    BY DEF With
  <1>6. \A r \in rows : /\ Free(r) \in Int
                        /\ Availability(r) \in {"OK", "LIMITED"} => Free(r) > 0
    BY RowsKnown
  <1> HIDE DEF s, ok, limited, rest
  <1>7. \A r \in rows : Free(r) > 0 <=> ~ (Free(r) <= 0)
    BY <1>6
  <1>8. CASE \A r \in rows : Free(r) <= 0
    <2>1. ok = {} /\ limited = {} /\ rest # {} /\ ~ (s.available > 0)
      BY <1>4, <1>5, <1>6, <1>7, <1>8
    <2>2. s.constrained > 0 /\ s.ok = 0 /\ s.available <= 0
      BY <1>3, <1>4, <2>1
    <2>3. Label(s) = "Low"
      BY <2>2 DEF Label
    <2>4. ~ \A r \in rows : Availability(r) = "OK"
      BY <1>5, <2>1
    <2>5. QED
      BY <1>8, <2>3, <2>4 DEF s
  <1>9. CASE \E r \in rows : Free(r) > 0
    <2>1. s.available > 0 /\ ~ (s.available <= 0)
      BY <1>4, <1>9
    <2>2. ~ \A r \in rows : Free(r) <= 0
      BY <1>7, <1>9
    <2>3. Label(s) = IF s.constrained = 0 /\ s.limited = 0 THEN "High" ELSE "Medium"
      BY <2>1 DEF Label
    <2>4. s.constrained = 0 /\ s.limited = 0 <=> \A r \in rows : Availability(r) = "OK"
      BY <1>3, <1>5
    <2>5. QED
      BY <2>2, <2>3, <2>4 DEF s
  <1>10. QED
    BY <1>7, <1>8, <1>9

(***************************************************************************)
(* Good news: a limit rises by no less than the threshold of what is       *)
(* limited.                                                                *)
(***************************************************************************)
LEMMA ThresholdFollowsLimit ==
    ASSUME NEW a \in Int, NEW b \in Int, a <= b
    PROVE  /\ (b + 5) \div 10 - (a + 5) \div 10 <= b - a
           /\ (a + 5) \div 10 \in Int /\ (b + 5) \div 10 \in Int
  OBVIOUS

LEMMA OkStaysOk ==
    ASSUME NEW old, NEW new,
           old.hasSku \in BOOLEAN, old.current \in Int, old.limit \in Int,
           new.hasSku \in BOOLEAN, new.current \in Int, new.limit \in Int,
           new.hasSku = old.hasSku, Improves(old, new)
    PROVE  /\ Free(new) >= Free(old)
           /\ Availability(old) = "OK" => Availability(new) = "OK"
  <1>1. new.limit >= old.limit /\ new.current <= old.current
    BY DEF Improves
  <1>2. /\ Free(old) \in Int /\ Free(new) \in Int
        /\ Free(new) - Free(old) >= new.limit - old.limit
        /\ Free(new) >= Free(old)
    BY <1>1 DEF Free
  <1> DEFINE part(r) == (r.limit + 5) \div 10
  <1>3. part(old) \in Int /\ part(new) \in Int /\ part(new) - part(old) <= new.limit - old.limit
    BY <1>1, ThresholdFollowsLimit
  <1>4. /\ LimitedThreshold(old) = IF 5 > part(old) THEN 5 ELSE part(old)
        /\ LimitedThreshold(new) = IF 5 > part(new) THEN 5 ELSE part(new)
    BY DEF LimitedThreshold, Higher
  <1> HIDE DEF part
  <1>5. LimitedThreshold(old) \in Int /\ LimitedThreshold(new) \in Int
        /\ LimitedThreshold(new) - LimitedThreshold(old) <= new.limit - old.limit
    BY <1>1, <1>3, <1>4
  <1>6. ASSUME Availability(old) = "OK" PROVE Availability(new) = "OK"
    <2>1. old.hasSku /\ Free(old) > 0 /\ Free(old) > LimitedThreshold(old)
      <3>1. ~ (~old.hasSku) /\ ~ (old.hasSku /\ Free(old) <= 0)
            /\ ~ (old.hasSku /\ Free(old) > 0 /\ Free(old) <= LimitedThreshold(old))
        BY <1>6 DEF Availability
      <3>2. QED
        BY <1>2, <1>5, <3>1
    <2>2. new.hasSku /\ Free(new) > 0 /\ Free(new) > LimitedThreshold(new)
      BY <1>1, <1>2, <1>5, <2>1
    <2>3. ~ (Free(new) <= 0) /\ ~ (Free(new) <= LimitedThreshold(new))
      BY <1>2, <1>5, <2>2
    <2>4. QED
      BY <2>2, <2>3 DEF Availability
  <1>7. QED
    BY <1>2, <1>6

(***************************************************************************)
(* ReportTables: any finite captures, whatever Azure answers.              *)
(***************************************************************************)

\* Every row of a capture is one that ingestion could have written.
IsCapture(c) ==
    \E keys \in SUBSET RowKeys : \E values \in [keys -> RowValues] :
        c = [k \in keys |-> RowAt(k, values[k])]

RowsIn(c) == {c[k] : k \in DOMAIN c}

CaptureInv == IsCapture(captured)

LEMMA CaptureStarts == ReportsInit => CaptureInv
  <1> SUFFICES ASSUME ReportsInit PROVE CaptureInv
    OBVIOUS
  <1> DEFINE values == [k \in {} |-> k]
  <1>1. values \in [{} -> RowValues]
    OBVIOUS
  <1> HIDE DEF values
  <1>2. captured = [k \in {} |-> RowAt(k, values[k])]
    BY DEF ReportsInit
  <1>3. QED
    BY <1>1, <1>2 DEF CaptureInv, IsCapture

LEMMA CaptureChanges == CaptureInv /\ [RowChanges]_captured => CaptureInv'
  <1>1. ASSUME CaptureInv, UNCHANGED captured PROVE CaptureInv'
    BY <1>1 DEF CaptureInv
  <1>2. ASSUME CaptureInv, NEW k \in RowKeys, NEW v \in RowValues,
               captured' = [l \in DOMAIN captured \cup {k} |->
                               IF l = k THEN RowAt(k, v) ELSE captured[l]]
        PROVE  CaptureInv'
    <2>1. PICK keys \in SUBSET RowKeys : \E values \in [keys -> RowValues] :
             captured = [l \in keys |-> RowAt(l, values[l])]
      BY <1>2 DEF CaptureInv, IsCapture
    <2>2. PICK values \in [keys -> RowValues] :
             captured = [l \in keys |-> RowAt(l, values[l])]
      BY <2>1
    <2> DEFINE more == keys \cup {k}
               next == [l \in more |-> IF l = k THEN v ELSE values[l]]
    <2>3. next \in [more -> RowValues]
          /\ \A l \in more : next[l] = IF l = k THEN v ELSE values[l]
      OBVIOUS
    <2> HIDE DEF next
    <2>4. DOMAIN captured = keys /\ \A l \in keys : captured[l] = RowAt(l, values[l])
      BY <2>2
    <2>5. captured' = [l \in more |-> RowAt(l, next[l])]
      BY <1>2, <2>3, <2>4
    <2>6. more \in SUBSET RowKeys
      BY <1>2
    <2>7. QED
      BY <2>3, <2>5, <2>6 DEF CaptureInv, IsCapture
  <1>3. QED
    BY <1>1, <1>2 DEF RowChanges

\* What the reports read.
LEMMA CaptureKnown ==
    ASSUME NEW c, IsCapture(c)
    PROVE  /\ \A k \in DOMAIN c : /\ c[k].hasSku \in BOOLEAN
                                  /\ c[k].current \in Int /\ c[k].limit \in Int
                                  /\ c[k].region = k.region
                                  /\ c[k].hasSku = (c[k].sku.name # Aggregate)
           /\ AreRows(RowsIn(c))
           /\ \A r, q \in RowsIn(c) : r.sku = q.sku => r.family = q.family
  <1>0. PICK keys \in SUBSET RowKeys : \E values \in [keys -> RowValues] :
           c = [k \in keys |-> RowAt(k, values[k])]
    BY DEF IsCapture
  <1>1. PICK values \in [keys -> RowValues] : c = [k \in keys |-> RowAt(k, values[k])]
    BY <1>0
  <1>2. DOMAIN c = keys /\ \A k \in keys : c[k] = RowAt(k, values[k]) /\ values[k] \in RowValues
    BY <1>1
  <1>3. \A k \in keys : /\ c[k].hasSku \in BOOLEAN
                        /\ c[k].current \in Int /\ c[k].limit \in Int
                        /\ c[k].region = k.region /\ c[k].sku.family = c[k].family
                        /\ c[k].hasSku = (c[k].sku.name # Aggregate)
    <2>1. ASSUME NEW k \in keys, NEW v \in RowValues
          PROVE  LET r == RowAt(k, v)
                 IN  /\ r.hasSku = (r.sku.name # Aggregate)
                     /\ r.current = v.current /\ r.limit = v.limit
                     /\ r.region = k.region /\ r.sku.family = r.family
      BY DEF RowAt
    <2>2. \A v \in RowValues : v.current \in Int /\ v.limit \in Int
      BY ReportTablesAssumption DEF ReportTablesOK
    <2>3. SUFFICES ASSUME NEW k \in keys
                   PROVE  /\ c[k].hasSku \in BOOLEAN
                          /\ c[k].current \in Int /\ c[k].limit \in Int
                          /\ c[k].region = k.region /\ c[k].sku.family = c[k].family
                          /\ c[k].hasSku = (c[k].sku.name # Aggregate)
      OBVIOUS
    <2>4. c[k] = RowAt(k, values[k]) /\ values[k] \in RowValues
      BY <1>2
    <2> DEFINE r == RowAt(k, values[k])
    <2>5. /\ r.hasSku = (r.sku.name # Aggregate)
          /\ r.current = values[k].current /\ r.limit = values[k].limit
          /\ r.region = k.region /\ r.sku.family = r.family
      BY <2>1, <2>4
    <2> HIDE DEF r
    <2>6. c[k] = r
      BY <2>4 DEF r
    <2>7. QED
      BY <2>2, <2>4, <2>5, <2>6
  <1> DEFINE rows == {c[k] : k \in keys}
  <1>4. RowsIn(c) = rows
    BY <1>2 DEF RowsIn
  <1>5. IsFiniteSet(rows)
    <2>1. IsFiniteSet(keys)
      BY ReportTablesAssumption, FS_Subset DEF ReportTablesOK
    <2>2. QED
      BY <2>1, ImageIsFinite
  <1>6. \A r \in rows : r.hasSku \in BOOLEAN /\ r.current \in Int /\ r.limit \in Int
    BY <1>3
  <1>7. \A r, q \in rows : r.sku = q.sku => r.family = q.family
    BY <1>3
  <1> HIDE DEF rows
  <1>8. QED
    BY <1>2, <1>3, <1>4, <1>5, <1>6, <1>7 DEF AreRows

LEMMA CapturesTyped == ReportsSpec => []CaptureInv
  BY CaptureStarts, CaptureChanges, PTL DEF ReportsSpec

(***************************************************************************)
(* Scores.                                                                 *)
(***************************************************************************)

\* The rows of one score.
LEMMA ScoredRows ==
    ASSUME NEW rows, AreRows(rows), NEW x \in rows
    PROVE  LET mine == RowsOf(rows, x.region, x.sku)
           IN  AreRows(mine) /\ x \in mine
  BY FS_Subset DEF RowsOf, AreRows

LEMMA ScoreIs ==
    ASSUME NEW rows, AreRows(rows), NEW x \in rows
    PROVE  LET mine == RowsOf(rows, x.region, x.sku)
               score == Score(rows, x.region, x.sku)
           IN  /\ score \in {"High", "Medium", "Low"}
               /\ score = "High" <=> \A r \in mine : Availability(r) = "OK"
               /\ score = "Low" <=> \A r \in mine : Free(r) <= 0
  <1> DEFINE mine == RowsOf(rows, x.region, x.sku)
  <1>1. AreRows(mine) /\ mine # {}
    BY ScoredRows
  <1>2. Score(rows, x.region, x.sku) = Label(Summary(mine))
    BY DEF Score
  <1> HIDE DEF mine
  <1>3. QED
    BY <1>1, <1>2, ScoreMeans DEF mine

LEMMA ReasonsHold == CaptureInv => ReasonsAreTrue
  <1> SUFFICES ASSUME CaptureInv PROVE ReasonsAreTrue
    OBVIOUS
  <1>0. AreRows(Capture)
    BY CaptureKnown DEF CaptureInv, RowsIn, Capture
  <1>1. SUFFICES ASSUME NEW x \in Capture
                 PROVE  LET mine == RowsOf(Capture, x.region, x.sku)
                            blocked == {r \in mine : IsBlocked(r)}
                        IN  /\ ScoreOf(x) \in {"High", "Medium", "Low"}
                            /\ ScoreOf(x) = "High" =>
                                  \A r \in mine : Availability(r) = "OK" /\ Free(r) > 0
                            /\ ScoreOf(x) = "Medium" =>
                                  IF blocked # {} THEN \E r \in mine : Free(r) > 0
                                  ELSE With(mine, "LIMITED") # {}
                            /\ ScoreOf(x) = "Low" =>
                                  /\ \A r \in mine : Free(r) <= 0
                                  /\ 2 * Cardinality(blocked) > Cardinality(mine)
    BY DEF ReasonsAreTrue
  <1> DEFINE mine == RowsOf(Capture, x.region, x.sku)
             blocked == {r \in mine : IsBlocked(r)}
  <1>2. /\ ScoreOf(x) \in {"High", "Medium", "Low"}
        /\ ScoreOf(x) = "High" <=> \A r \in mine : Availability(r) = "OK"
        /\ ScoreOf(x) = "Low" <=> \A r \in mine : Free(r) <= 0
    BY <1>0, ScoreIs DEF ScoreOf
  <1>3. AreRows(mine) /\ x \in mine
    BY <1>0, ScoredRows
  <1> HIDE DEF mine
  <1>4. \A r \in mine : /\ Free(r) \in Int
                        /\ Availability(r) \in {"OK", "LIMITED", "CONSTRAINED", "RESTRICTED"}
                        /\ Availability(r) \in {"OK", "LIMITED"} => Free(r) > 0
                        /\ IsBlocked(r) <=> Availability(r) \notin {"OK", "LIMITED"}
    BY <1>3, RowsKnown
  <1>5. ScoreOf(x) = "High" => \A r \in mine : Availability(r) = "OK" /\ Free(r) > 0
    BY <1>2, <1>4
  <1>6. ASSUME ScoreOf(x) = "Medium"
        PROVE  IF blocked # {} THEN \E r \in mine : Free(r) > 0 ELSE With(mine, "LIMITED") # {}
    <2>1. \E r \in mine : Free(r) > 0
      BY <1>2, <1>4, <1>6
    <2>2. PICK r \in mine : Availability(r) # "OK"
      BY <1>2, <1>6
    <2>3. blocked = {} => Availability(r) = "LIMITED"
      BY <1>4, <2>2
    <2>4. QED
      BY <2>1, <2>3 DEF With
  <1>7. ASSUME ScoreOf(x) = "Low"
        PROVE  (\A r \in mine : Free(r) <= 0) /\ 2 * Cardinality(blocked) > Cardinality(mine)
    <2>1. \A r \in mine : Free(r) <= 0 /\ ~ (Free(r) > 0)
      BY <1>2, <1>4, <1>7
    <2>2. blocked = mine
      BY <1>4, <2>1
    <2>3. Cardinality(mine) \in Nat /\ Cardinality(mine) # 0
      BY <1>3, FS_CardinalityType, FS_EmptySet DEF AreRows
    <2>4. Cardinality(blocked) = Cardinality(mine)
      BY <2>2, Zenon
    <2> HIDE DEF blocked
    <2>5. QED
      BY <2>1, <2>3, <2>4
  <1>8. QED
    BY <1>2, <1>5, <1>6, <1>7 DEF mine

\* The reason beside a score is true of the rows that the score sums up
\* (getCapacityScoreReason), whatever the captures hold.
THEOREM ReasonsTrue == ReportsSpec => []ReasonsAreTrue
  BY CapturesTyped, ReasonsHold, PTL

LEMMA BetterCapture ==
    ASSUME NEW c, IsCapture(c), NEW d, IsCapture(d), DOMAIN d = DOMAIN c,
           NEW k \in DOMAIN c, \A l \in DOMAIN c : l # k => d[l] = c[l],
           Improves(c[k], d[k])
    PROVE  Rank(Score(RowsIn(d), d[k].region, d[k].sku))
             >= Rank(Score(RowsIn(c), c[k].region, c[k].sku))
  <1> DEFINE before == RowsOf(RowsIn(c), k.region, c[k].sku)
             after == RowsOf(RowsIn(d), k.region, c[k].sku)
             old == Score(RowsIn(c), k.region, c[k].sku)
             new == Score(RowsIn(d), k.region, c[k].sku)
  <1>1. /\ AreRows(RowsIn(c)) /\ c[k] \in RowsIn(c)
        /\ c[k].hasSku \in BOOLEAN /\ c[k].current \in Int /\ c[k].limit \in Int
        /\ c[k].region = k.region /\ c[k].hasSku = (c[k].sku.name # Aggregate)
    BY CaptureKnown DEF RowsIn
  <1>2. /\ AreRows(RowsIn(d)) /\ d[k] \in RowsIn(d)
        /\ d[k].hasSku \in BOOLEAN /\ d[k].current \in Int /\ d[k].limit \in Int
        /\ d[k].region = k.region /\ d[k].sku = c[k].sku
        /\ d[k].hasSku = c[k].hasSku
    <2>1. /\ AreRows(RowsIn(d)) /\ d[k] \in RowsIn(d)
          /\ d[k].hasSku \in BOOLEAN /\ d[k].current \in Int /\ d[k].limit \in Int
          /\ d[k].region = k.region /\ d[k].hasSku = (d[k].sku.name # Aggregate)
      BY CaptureKnown DEF RowsIn
    <2>2. d[k].sku = c[k].sku
      BY DEF Improves
    <2>3. QED
      BY <1>1, <2>1, <2>2
  <1>3. /\ old \in {"High", "Medium", "Low"}
        /\ old = "High" <=> \A r \in before : Availability(r) = "OK"
        /\ old = "Low" <=> \A r \in before : Free(r) <= 0
    <2>1. LET mine == RowsOf(RowsIn(c), c[k].region, c[k].sku)
              score == Score(RowsIn(c), c[k].region, c[k].sku)
          IN  /\ score \in {"High", "Medium", "Low"}
              /\ score = "High" <=> \A r \in mine : Availability(r) = "OK"
              /\ score = "Low" <=> \A r \in mine : Free(r) <= 0
      BY <1>1, ScoreIs
    <2>2. QED
      BY <1>1, <2>1
  <1>4. /\ new \in {"High", "Medium", "Low"}
        /\ new = "High" <=> \A r \in after : Availability(r) = "OK"
        /\ new = "Low" <=> \A r \in after : Free(r) <= 0
    <2>1. LET mine == RowsOf(RowsIn(d), d[k].region, d[k].sku)
              score == Score(RowsIn(d), d[k].region, d[k].sku)
          IN  /\ score \in {"High", "Medium", "Low"}
              /\ score = "High" <=> \A r \in mine : Availability(r) = "OK"
              /\ score = "Low" <=> \A r \in mine : Free(r) <= 0
      BY <1>2, ScoreIs
    <2>2. QED
      BY <1>2, <2>1
  <1>5. Free(d[k]) >= Free(c[k]) /\ (Availability(c[k]) = "OK" => Availability(d[k]) = "OK")
    <2>1. /\ c[k].hasSku \in BOOLEAN /\ c[k].current \in Int /\ c[k].limit \in Int
          /\ d[k].hasSku \in BOOLEAN /\ d[k].current \in Int /\ d[k].limit \in Int
          /\ d[k].hasSku = c[k].hasSku
      BY <1>1, <1>2
    <2>2. QED
      BY <2>1, OkStaysOk
  <1>6. c[k] \in before /\ d[k] \in after
    BY <1>1, <1>2 DEF RowsOf
  <1>7. /\ \A r \in after : r = d[k] \/ r \in before
        /\ \A r \in before : r = c[k] \/ r \in after
    BY DEF RowsOf, RowsIn
  <1>8. \A r \in before \cup after : Free(r) \in Int
    BY <1>1, <1>2, RowsKnown DEF RowsOf
  <1> HIDE DEF before, after, old, new
  <1>9. old = "High" => new = "High"
    BY <1>3, <1>4, <1>5, <1>6, <1>7
  <1>10. new = "Low" => old = "Low"
    <2>1. SUFFICES ASSUME new = "Low", NEW r \in before PROVE Free(r) <= 0
      BY <1>3
    <2>2. Free(d[k]) <= 0 /\ Free(d[k]) \in Int /\ Free(c[k]) \in Int
      BY <1>4, <1>6, <1>8, <2>1
    <2>3. CASE r = c[k]
      BY <1>5, <2>2, <2>3
    <2>4. CASE r \in after
      BY <1>4, <2>1, <2>4
    <2>5. QED
      BY <1>7, <2>3, <2>4
  <1>11. Rank(new) >= Rank(old)
    <2>1. Rank("High") = 2 /\ Rank("Medium") = 1 /\ Rank("Low") = 0
      BY DEF Rank
    <2>2. CASE old = "High"
      BY <1>9, <2>1, <2>2
    <2>3. CASE old = "Medium"
      <3>1. new = "High" \/ new = "Medium"
        BY <1>4, <1>10, <2>3
      <3>2. QED
        BY <2>1, <2>3, <3>1
    <2>4. CASE old = "Low"
      BY <1>4, <2>1, <2>4
    <2>5. QED
      BY <1>3, <2>2, <2>3, <2>4
  <1>12. QED
    BY <1>1, <1>2, <1>11 DEF new, old

LEMMA ChangesImprove ==
    CaptureInv /\ CaptureInv' /\ [RowChanges]_captured =>
      [\A k \in DOMAIN captured : Improves(captured[k], captured'[k]) =>
          Rank(ScoreOf(captured[k])') >= Rank(ScoreOf(captured[k]))]_captured
  <1> SUFFICES ASSUME CaptureInv, CaptureInv', RowChanges,
                      NEW k \in DOMAIN captured, Improves(captured[k], captured'[k])
               PROVE  Rank(ScoreOf(captured[k])') >= Rank(ScoreOf(captured[k]))
    OBVIOUS
  <1>1. PICK j \in RowKeys, v \in RowValues :
           captured' = [l \in DOMAIN captured \cup {j} |->
                           IF l = j THEN RowAt(j, v) ELSE captured[l]]
    BY DEF RowChanges
  <1>2. captured'[k] # captured[k]
    BY DEF Improves
  <1>3. j = k /\ DOMAIN captured' = DOMAIN captured
    BY <1>1, <1>2
  <1>4. \A l \in DOMAIN captured : l # k => captured'[l] = captured[l]
    BY <1>1, <1>3
  <1>5. IsCapture(captured) /\ IsCapture(captured')
    BY DEF CaptureInv, IsCapture
  <1>6. Rank(Score(RowsIn(captured'), captured'[k].region, captured'[k].sku))
          >= Rank(Score(RowsIn(captured), captured[k].region, captured[k].sku))
    BY <1>3, <1>4, <1>5, BetterCapture
  <1>7. ScoreOf(captured[k]) = Score(RowsIn(captured), captured[k].region, captured[k].sku)
    BY DEF ScoreOf, Capture, RowsIn
  <1>8. ScoreOf(captured[k])'
          = Score(RowsIn(captured'), captured'[k].region, captured'[k].sku)
    BY DEF ScoreOf, Capture, RowsIn
  <1>9. QED
    BY <1>6, <1>7, <1>8

\* More quota or less usage for a row that keeps its SKU never lowers the score that
\* deriveCapacityScoreRows gives the SKU, whatever the other rows of the capture are.
THEOREM GoodNewsNeverHurts == ReportsSpec => BetterNeverScoresLower
  <1>1. CaptureInv /\ CaptureInv' /\ [RowChanges]_captured =>
          [\A k \in DOMAIN captured : Improves(captured[k], captured'[k]) =>
              Rank(ScoreOf(captured[k])') >= Rank(ScoreOf(captured[k]))]_captured
    BY ChangesImprove
  <1>2. QED
    BY <1>1, CapturesTyped, PTL DEF ReportsSpec, BetterNeverScoresLower

(***************************************************************************)
(* The tables of the server.                                               *)
(***************************************************************************)

\* What the rows have in their fields is finite.
LEMMA FieldsAreFinite ==
    ASSUME NEW rows, IsFiniteSet(rows)
    PROVE  /\ IsFiniteSet({r.region : r \in rows}) /\ IsFiniteSet({r.sub : r \in rows})
           /\ IsFiniteSet({r.sku : r \in rows}) /\ IsFiniteSet({r.service : r \in rows})
  <1>1. IsFiniteSet({r.region : r \in rows})
    <2> DEFINE f == [r \in rows |-> r.region]
    <2>1. {f[r] : r \in rows} = {r.region : r \in rows}
      OBVIOUS
    <2> HIDE DEF f
    <2>2. QED
      BY <2>1, ImageIsFinite, Zenon
  <1>2. IsFiniteSet({r.sub : r \in rows})
    <2> DEFINE f == [r \in rows |-> r.sub]
    <2>1. {f[r] : r \in rows} = {r.sub : r \in rows}
      OBVIOUS
    <2> HIDE DEF f
    <2>2. QED
      BY <2>1, ImageIsFinite, Zenon
  <1>3. IsFiniteSet({r.sku : r \in rows})
    <2> DEFINE f == [r \in rows |-> r.sku]
    <2>1. {f[r] : r \in rows} = {r.sku : r \in rows}
      OBVIOUS
    <2> HIDE DEF f
    <2>2. QED
      BY <2>1, ImageIsFinite, Zenon
  <1>4. IsFiniteSet({r.service : r \in rows})
    <2> DEFINE f == [r \in rows |-> r.service]
    <2>1. {f[r] : r \in rows} = {r.service : r \in rows}
      OBVIOUS
    <2> HIDE DEF f
    <2>2. QED
      BY <2>1, ImageIsFinite, Zenon
  <1>5. QED
    BY <1>1, <1>2, <1>3, <1>4

LEMMA FamilyMeans ==
    ASSUME NEW rows, AreRows(rows), NEW f
    PROVE  FamilyStatus(rows, f) = "OK"
             <=> \A r \in rows : r.family = f => Availability(r) = "OK"
  <1> DEFINE mine == {r \in rows : r.family = f}
  <1>1. \A r \in mine : /\ Availability(r) \in {"OK", "LIMITED", "CONSTRAINED", "RESTRICTED"}
                        /\ IsBlocked(r) <=> Availability(r) \notin {"OK", "LIMITED"}
    BY RowsKnown
  <1>2. FamilyStatus(rows, f) = IF \E r \in mine : IsBlocked(r) THEN "CONSTRAINED"
                                ELSE IF With(mine, "LIMITED") # {} THEN "LIMITED" ELSE "OK"
    BY DEF FamilyStatus
  <1>3. With(mine, "LIMITED") # {} <=> \E r \in mine : Availability(r) = "LIMITED"
    BY DEF With
  <1>4. FamilyStatus(rows, f) = "OK" <=> \A r \in mine : Availability(r) = "OK"
    <2> HIDE DEF mine
    <2>1. QED
      BY <1>1, <1>2, <1>3
  <1>5. QED
    BY <1>4

LEMMA FamilyFollowsScores ==
    ASSUME NEW rows, AreRows(rows), \A r, q \in rows : r.sku = q.sku => r.family = q.family,
           NEW f
    PROVE  LET mine == {r \in rows : r.family = f}
           IN  /\ FamilyStatus(rows, f) = "OK"
                    <=> \A r \in mine : Score(rows, r.region, r.sku) = "High"
               /\ OkSkus(rows, f)
                    <= Cardinality({r.sku : r \in {x \in mine :
                                                     Score(rows, x.region, x.sku) # "Low"}})
  <1> DEFINE mine == {r \in rows : r.family = f}
             ok == {r.sku : r \in {x \in With(rows, "OK") : x.family = f}}
             open == {x \in mine : Score(rows, x.region, x.sku) # "Low"}
             notLow == {r.sku : r \in open}
  <1>1. \A r \in mine : /\ r \in RowsOf(rows, r.region, r.sku)
                        /\ \A q \in RowsOf(rows, r.region, r.sku) : q \in mine
    BY DEF RowsOf
  <1>2. \A r \in mine :
           /\ Score(rows, r.region, r.sku) = "High"
                <=> \A q \in RowsOf(rows, r.region, r.sku) : Availability(q) = "OK"
           /\ Score(rows, r.region, r.sku) = "Low"
                <=> \A q \in RowsOf(rows, r.region, r.sku) : Free(q) <= 0
    BY ScoreIs
  <1>3. \A r \in rows : Free(r) \in Int /\ (Availability(r) = "OK" => Free(r) > 0)
    BY RowsKnown
  <1>4. FamilyStatus(rows, f) = "OK" <=> \A r \in mine : Availability(r) = "OK"
    BY FamilyMeans
  <1>5. FamilyStatus(rows, f) = "OK" <=> \A r \in mine : Score(rows, r.region, r.sku) = "High"
    <2> HIDE DEF mine
    <2>1. QED
      BY <1>1, <1>2, <1>4
  <1>6. ok \subseteq notLow
    <2>1. SUFFICES ASSUME NEW r \in rows, Availability(r) = "OK", r.family = f PROVE r \in open
      BY DEF With
    <2>2. r \in mine /\ r \in RowsOf(rows, r.region, r.sku) /\ ~ (Free(r) <= 0)
      BY <1>1, <1>3, <2>1
    <2>3. QED
      BY <1>2, <2>2
  <1>7. IsFiniteSet(notLow)
    <2>1. IsFiniteSet(open)
      BY FS_Subset DEF AreRows
    <2> HIDE DEF open
    <2>2. QED
      BY <2>1, FieldsAreFinite
  <1>8. OkSkus(rows, f) = Cardinality(ok)
    BY DEF OkSkus
  <1>9. Cardinality(ok) <= Cardinality(notLow)
    <2> HIDE DEF ok, notLow
    <2>1. QED
      BY <1>6, <1>7, FS_Subset
  <1>10. QED
    BY <1>5, <1>8, <1>9

\* Every row of a region is deployable or constrained, and none is both.
LEMMA RegionAddsUp ==
    ASSUME NEW rows, AreRows(rows), NEW g
    PROVE  RegionHealth(rows, g).deployable + RegionHealth(rows, g).constrained
             = RegionHealth(rows, g).total
  <1> DEFINE mine == {r \in rows : r.region = g}
             blocked == {r \in mine : IsBlocked(r)}
  <1>1. RegionHealth(rows, g).deployable = Cardinality(Deployable(mine))
        /\ RegionHealth(rows, g).constrained = Cardinality(blocked)
        /\ RegionHealth(rows, g).total = Cardinality(mine)
    BY DEF RegionHealth
  <1>2. \A r \in mine : IsBlocked(r) <=> Availability(r) \notin {"OK", "LIMITED"}
    BY RowsKnown
  <1>3. Deployable(mine) \cap blocked = {} /\ Deployable(mine) \cup blocked = mine
        /\ Deployable(mine) \subseteq mine
    BY <1>2 DEF Deployable, With
  <1>4. IsFiniteSet(mine)
    BY FS_Subset DEF AreRows
  <1>5. IsFiniteSet(Deployable(mine)) /\ IsFiniteSet(blocked)
    BY <1>3, <1>4, FS_Subset
  <1> HIDE DEF mine, blocked
  <1>6. Cardinality(Deployable(mine) \cup blocked)
          = Cardinality(Deployable(mine)) + Cardinality(blocked)
    BY <1>3, <1>5, DisjointNumber
  <1>7. QED
    BY <1>1, <1>3, <1>6

\* The headroom of the classes of rows adds up to that of the rows.
LEMMA HeadroomByClass ==
    ASSUME NEW rows, AreRows(rows), NEW C, IsFiniteSet(C), NEW class \in [rows -> C]
    PROVE  SumFunction([c \in C |-> Headroom({r \in rows : class[r] = c})]) = Headroom(rows)
  <1> DEFINE f == [r \in rows |-> Free(r)]
  <1>1. f \in [rows -> Int] /\ IsFiniteSet(rows) /\ Headroom(rows) = SumFunction(f)
    BY RowsKnown DEF AreRows, Headroom
  <1>2. ASSUME NEW T \in SUBSET rows PROVE Headroom(T) = SumFunction(Restrict(f, T))
    <2>1. Restrict(f, T) = [r \in T |-> Free(r)]
      BY DEF Restrict
    <2>2. QED
      BY <2>1, Zenon DEF Headroom
  <1> HIDE DEF f
  <1>3. SumFunction([c \in C |-> SumFunction(Restrict(f, {r \in rows : class[r] = c}))])
          = SumFunction(f)
    BY <1>1, SumByClass
  <1>4. [c \in C |-> SumFunction(Restrict(f, {r \in rows : class[r] = c}))]
          = [c \in C |-> Headroom({r \in rows : class[r] = c})]
    BY <1>2
  <1>5. QED
    BY <1>1, <1>3, <1>4, Zenon

LEMMA HeadroomsAgree ==
    ASSUME NEW rows, AreRows(rows)
    PROVE  /\ SumFunction([g \in MatrixRegions(rows) |-> RegionHealth(rows, g).headroom])
                = TrendEntry(rows).available
           /\ SumFunction([s \in {r.sub : r \in rows} |-> SubscriptionEntry(rows, s).available])
                = TrendEntry(rows).available
  <1>1. TrendEntry(rows).available = Headroom(rows)
    BY DEF TrendEntry
  <1>2. IsFiniteSet(rows)
    BY DEF AreRows
  <1>3. SumFunction([g \in MatrixRegions(rows) |-> RegionHealth(rows, g).headroom])
          = Headroom(rows)
    <2> DEFINE C == {r.region : r \in rows}
               class == [r \in rows |-> r.region]
    <2>1. IsFiniteSet(C)
      BY <1>2, FieldsAreFinite
    <2>2. class \in [rows -> C] /\ \A r \in rows : class[r] = r.region
      OBVIOUS
    <2>3. MatrixRegions(rows) = C
      BY DEF MatrixRegions
    <2> HIDE DEF C, class
    <2>4. SumFunction([g \in C |-> Headroom({r \in rows : class[r] = g})]) = Headroom(rows)
      BY <2>1, <2>2, HeadroomByClass
    <2>5. ASSUME NEW g \in C
          PROVE  RegionHealth(rows, g).headroom = Headroom({r \in rows : class[r] = g})
      <3>1. {r \in rows : class[r] = g} = {r \in rows : r.region = g}
        BY <2>2
      <3>2. RegionHealth(rows, g).headroom = Headroom({r \in rows : r.region = g})
        BY DEF RegionHealth
      <3>3. QED
        BY <3>1, <3>2, Zenon
    <2>6. [g \in C |-> RegionHealth(rows, g).headroom]
            = [g \in C |-> Headroom({r \in rows : class[r] = g})]
      BY <2>5
    <2>7. QED
      BY <2>3, <2>4, <2>6, Zenon
  <1>4. SumFunction([s \in {r.sub : r \in rows} |-> SubscriptionEntry(rows, s).available])
          = Headroom(rows)
    <2> DEFINE C == {r.sub : r \in rows}
               class == [r \in rows |-> r.sub]
    <2>1. IsFiniteSet(C)
      BY <1>2, FieldsAreFinite
    <2>2. class \in [rows -> C] /\ \A r \in rows : class[r] = r.sub
      OBVIOUS
    <2> HIDE DEF C, class
    <2>4. SumFunction([s \in C |-> Headroom({r \in rows : class[r] = s})]) = Headroom(rows)
      BY <2>1, <2>2, HeadroomByClass
    <2>5. ASSUME NEW s \in C
          PROVE  SubscriptionEntry(rows, s).available = Headroom({r \in rows : class[r] = s})
      <3>1. {r \in rows : class[r] = s} = {r \in rows : r.sub = s}
        BY <2>2
      <3>2. SubscriptionEntry(rows, s).available = Headroom({r \in rows : r.sub = s})
        BY DEF SubscriptionEntry
      <3>3. QED
        BY <3>1, <3>2, Zenon
    <2>6. [s \in C |-> SubscriptionEntry(rows, s).available]
            = [s \in C |-> Headroom({r \in rows : class[r] = s})]
      BY <2>5
    <2>7. SumFunction([s \in C |-> SubscriptionEntry(rows, s).available]) = Headroom(rows)
      BY <2>4, <2>6, Zenon
    <2>8. QED
      BY <2>7 DEF C
  <1>5. QED
    BY <1>1, <1>3, <1>4

LEMMA ServerTablesAgree == CaptureInv => ServerReportsAgree
  <1> SUFFICES ASSUME CaptureInv PROVE ServerReportsAgree
    OBVIOUS
  <1>1. AreRows(Capture) /\ \A r, q \in Capture : r.sku = q.sku => r.family = q.family
    BY CaptureKnown DEF CaptureInv, RowsIn, Capture
  <1>2. FamiliesFollowScores
    BY <1>1, FamilyFollowsScores DEF FamiliesFollowScores, ScoreOf
  <1>3. RegionsAddUp
    BY <1>1, RegionAddsUp DEF RegionsAddUp
  <1>4. HeadroomAgrees
    BY <1>1, HeadroomsAgree DEF HeadroomAgrees, RegionsShown
  <1>5. QED
    BY <1>2, <1>3, <1>4 DEF ServerReportsAgree

(***************************************************************************)
(* The matrices of capacity.                                               *)
(***************************************************************************)

\* A cell of each page, by the rows that are in it.
LEMMA CellMeans ==
    ASSUME NEW rows, AreRows(rows), NEW f, NEW g
    PROVE  LET mine == CellRows(rows, f, g)
               has(state) == \E r \in mine : Availability(r) = state
               short == \E r \in mine : Availability(r) \in {"CONSTRAINED", "RESTRICTED"}
               there == Cell(rows, f, g)
               here == ClassicCell(rows, f, g)
           IN  /\ there \in Ready <=> has("OK")
               /\ here = "OK" <=> has("OK")
               /\ there = "LIMITED" <=> ~has("OK") /\ has("LIMITED")
               /\ here = "LIMITED" <=> ~has("OK") /\ has("LIMITED")
               /\ there = "CONSTRAINED" <=> ~has("OK") /\ ~has("LIMITED") /\ short
               /\ here \in {"CONSTRAINED", "RESTRICTED"}
                    <=> ~has("OK") /\ ~has("LIMITED") /\ short
               /\ there \in {"OK", "PARTIAL", "LIMITED", "CONSTRAINED", "BLOCKED"}
               /\ there = "BLOCKED" <=> mine = {}
  <1> DEFINE mine == CellRows(rows, f, g)
             has(state) == \E r \in mine : Availability(r) = state
             short == \E r \in mine : Availability(r) \in {"CONSTRAINED", "RESTRICTED"}
             counted == {Counted(r) : r \in mine}
             states == {Availability(r) : r \in mine}
  <1>1. \A r \in mine : Availability(r) \in {"OK", "LIMITED", "CONSTRAINED", "RESTRICTED"}
    BY RowsKnown DEF CellRows
  <1>2. Cell(rows, f, g) = CellStatus(counted) /\ ClassicCell(rows, f, g) = Best(states)
    BY DEF Cell, ClassicCell
  <1> HIDE DEF mine
  <1>3. /\ counted \subseteq {"OK", "LIMITED", "CONSTRAINED"}
        /\ "OK" \in counted <=> has("OK")
        /\ "LIMITED" \in counted <=> has("LIMITED")
        /\ "CONSTRAINED" \in counted <=> short
        /\ counted = {} <=> mine = {}
    BY <1>1 DEF Counted
  <1>4. /\ states \subseteq {"OK", "LIMITED", "CONSTRAINED", "RESTRICTED"}
        /\ "OK" \in states <=> has("OK")
        /\ "LIMITED" \in states <=> has("LIMITED")
        /\ "CONSTRAINED" \in states \/ "RESTRICTED" \in states <=> short
        /\ states = {} <=> mine = {}
    BY <1>1
  <1>5. mine = {} <=> ~has("OK") /\ ~has("LIMITED") /\ ~short
    BY <1>1
  <1> HIDE DEF counted, states, has, short
  <1>6. /\ CellStatus(counted) \in Ready <=> has("OK")
        /\ CellStatus(counted) = "LIMITED" <=> ~has("OK") /\ has("LIMITED")
        /\ CellStatus(counted) = "CONSTRAINED" <=> ~has("OK") /\ ~has("LIMITED") /\ short
        /\ CellStatus(counted) \in {"OK", "PARTIAL", "LIMITED", "CONSTRAINED", "BLOCKED"}
        /\ CellStatus(counted) = "BLOCKED" <=> mine = {}
    <2>1. CASE has("OK")
      <3>1. counted # {"OK"} \/ counted = {"OK"}
        OBVIOUS
      <3>2. CellStatus(counted) = "PARTIAL" \/ CellStatus(counted) = "OK"
        BY <1>3, <2>1, <3>1 DEF CellStatus
      <3>3. QED
        BY <1>5, <2>1, <3>2 DEF Ready
    <2>2. CASE ~has("OK") /\ has("LIMITED")
      <3>1. CellStatus(counted) = "LIMITED"
        BY <1>3, <2>2 DEF CellStatus
      <3>2. QED
        BY <1>5, <2>2, <3>1 DEF Ready
    <2>3. CASE ~has("OK") /\ ~has("LIMITED") /\ short
      <3>1. CellStatus(counted) = "CONSTRAINED"
        BY <1>3, <2>3 DEF CellStatus
      <3>2. QED
        BY <1>5, <2>3, <3>1 DEF Ready
    <2>4. CASE ~has("OK") /\ ~has("LIMITED") /\ ~short
      <3>1. counted = {}
        BY <1>3, <1>5, <2>4
      <3>2. CellStatus(counted) = "BLOCKED"
        BY <3>1 DEF CellStatus
      <3>3. QED
        BY <1>5, <2>4, <3>2 DEF Ready
    <2>5. QED
      BY <2>1, <2>2, <2>3, <2>4
  <1>7. /\ Best(states) = "OK" <=> has("OK")
        /\ Best(states) = "LIMITED" <=> ~has("OK") /\ has("LIMITED")
        /\ Best(states) \in {"CONSTRAINED", "RESTRICTED"} <=> ~has("OK") /\ ~has("LIMITED") /\ short
    <2>1. CASE has("OK")
      <3>1. Best(states) = "OK"
        BY <1>4, <2>1 DEF Best
      <3>2. QED
        BY <2>1, <3>1
    <2>2. CASE ~has("OK") /\ has("LIMITED")
      <3>1. Best(states) = "LIMITED"
        BY <1>4, <2>2 DEF Best
      <3>2. QED
        BY <2>2, <3>1
    <2>3. CASE ~has("OK") /\ ~has("LIMITED") /\ short
      <3>1. "CONSTRAINED" \in states \/ states = {"RESTRICTED"}
        BY <1>4, <2>3
      <3>2. Best(states) = "CONSTRAINED" \/ Best(states) = "RESTRICTED"
        BY <1>4, <2>3, <3>1 DEF Best
      <3>3. QED
        BY <2>3, <3>2
    <2>4. CASE ~has("OK") /\ ~has("LIMITED") /\ ~short
      <3>1. states = {}
        BY <1>4, <1>5, <2>4
      <3>2. Best(states) = "NONE"
        BY <3>1 DEF Best
      <3>3. QED
        BY <2>4, <3>2
    <2>5. QED
      BY <2>1, <2>2, <2>3, <2>4
  <1>8. QED
    BY <1>2, <1>6, <1>7 DEF mine, has, short

LEMMA CellsCoincide ==
    ASSUME NEW rows, AreRows(rows), NEW f, NEW g
    PROVE  LET there == Cell(rows, f, g)
               here == ClassicCell(rows, f, g)
           IN  /\ here = "OK" <=> there \in Ready
               /\ here = "LIMITED" <=> there = "LIMITED"
               /\ here \in {"CONSTRAINED", "RESTRICTED"} <=> there = "CONSTRAINED"
               /\ there \in {"OK", "PARTIAL", "LIMITED", "CONSTRAINED", "BLOCKED"}
               /\ there # "BLOCKED" => \E r \in rows : r.family = f /\ r.region = g
               /\ there \in Ready =>
                     \E r \in rows : r.family = f /\ r.region = g /\ Availability(r) = "OK"
  BY CellMeans DEF CellRows

\* The row of a family over some regions.
LEMMA RowMeans ==
    ASSUME NEW rows, NEW f, NEW regions
    PROVE  LET cells == {Cell(rows, f, g) : g \in regions}
           IN  MatrixRow(rows, f, regions)
                 = [status |-> RowStatus(cells),
                    ready |-> Cardinality({g \in regions : Cell(rows, f, g) \in Ready})]
  <1> DEFINE cells == [g \in regions |-> Cell(rows, f, g)]
  <1>1. {cells[g] : g \in regions} = {Cell(rows, f, g) : g \in regions}
        /\ {g \in regions : cells[g] \in Ready} = {g \in regions : Cell(rows, f, g) \in Ready}
    OBVIOUS
  <1>2. MatrixRow(rows, f, regions)
          = [status |-> RowStatus({cells[g] : g \in regions}),
             ready |-> Cardinality({g \in regions : cells[g] \in Ready})]
    BY DEF MatrixRow
  <1> HIDE DEF cells
  <1>3. QED
    BY <1>1, <1>2, Zenon

\* Cells where a family has no row change nothing.
LEMMA EmptyCellsAreBlocked ==
    ASSUME NEW rows, AreRows(rows), NEW f, NEW wide, NEW regions \in SUBSET wide,
           \A g \in wide : Cell(rows, f, g) # "BLOCKED" => g \in regions
    PROVE  MatrixRow(rows, f, wide) = MatrixRow(rows, f, regions)
  <1> DEFINE few == {Cell(rows, f, g) : g \in regions}
             all == {Cell(rows, f, g) : g \in wide}
  <1>1. few \subseteq all /\ all \subseteq few \cup {"BLOCKED"}
    OBVIOUS
  <1>2. RowStatus(all) = RowStatus(few)
    <2> HIDE DEF few, all
    <2>1. ("OK" \in all <=> "OK" \in few) /\ all \cap Caution = few \cap Caution
      BY <1>1 DEF Caution
    <2>2. QED
      BY <2>1 DEF RowStatus
  <1>3. {g \in wide : Cell(rows, f, g) \in Ready} = {g \in regions : Cell(rows, f, g) \in Ready}
    BY DEF Ready
  <1> HIDE DEF few, all
  <1>4. MatrixRow(rows, f, wide)
          = [status |-> RowStatus(all),
             ready |-> Cardinality({g \in wide : Cell(rows, f, g) \in Ready})]
    BY RowMeans DEF all
  <1>5. MatrixRow(rows, f, regions)
          = [status |-> RowStatus(few),
             ready |-> Cardinality({g \in regions : Cell(rows, f, g) \in Ready})]
    BY RowMeans DEF few
  <1>6. QED
    BY <1>2, <1>3, <1>4, <1>5, Zenon

LEMMA PagesCoincide ==
    ASSUME NEW rows, AreRows(rows), NEW f
    PROVE  LET server == ServerRow(rows, f)
               everywhere == MatrixRegions(rows)
           IN  /\ ClassicRow(rows, f, everywhere) = "OK" <=> server.ready > 0
               /\ ReactRow(rows, f, everywhere) = server
               /\ server.ready = Cardinality({g \in everywhere : ReactRow(rows, f, {g}).ready = 1})
               /\ server.status = "OK" => ClassicFamily(rows, f).ok > 0
  <1> DEFINE everywhere == MatrixRegions(rows)
             own == {r.region : r \in {x \in rows : x.family = f}}
             cell(g) == Cell(rows, f, g)
             good == {g \in everywhere : cell(g) \in Ready}
             server == ServerRow(rows, f)
  <1>1. IsFiniteSet(rows)
    BY DEF AreRows
  <1>2. own \in SUBSET everywhere /\ IsFiniteSet(everywhere)
    BY <1>1, FieldsAreFinite DEF MatrixRegions
  <1>3. \A g : /\ ClassicCell(rows, f, g) = "OK" <=> cell(g) \in Ready
               /\ cell(g) # "BLOCKED" => g \in own
               /\ cell(g) \in Ready =>
                     \E r \in rows : r.family = f /\ r.region = g /\ Availability(r) = "OK"
    BY CellsCoincide
  <1>4. /\ server = MatrixRow(rows, f, own)
        /\ \A regions : ReactRow(rows, f, regions) = MatrixRow(rows, f, regions \cap everywhere)
    BY DEF ServerRow, ReactRow
  <1>5. MatrixRow(rows, f, everywhere) = server
    <2>1. \A g \in everywhere : Cell(rows, f, g) # "BLOCKED" => g \in own
      BY <1>3
    <2> HIDE DEF own, everywhere
    <2>2. QED
      BY <1>2, <1>4, <2>1, EmptyCellsAreBlocked
  <1>6. server.ready = Cardinality(good) /\ server.status = RowStatus({cell(g) : g \in everywhere})
    <2>1. MatrixRow(rows, f, everywhere)
            = [status |-> RowStatus({cell(g) : g \in everywhere}), ready |-> Cardinality(good)]
      BY RowMeans
    <2> HIDE DEF everywhere, cell, good, server
    <2>2. QED
      BY <1>5, <2>1
  <1>7. IsFiniteSet(good)
    BY <1>2, FS_Subset
  <1>8. ReactRow(rows, f, everywhere) = server
    <2>1. everywhere \cap everywhere = everywhere
      OBVIOUS
    <2> HIDE DEF everywhere, server
    <2>2. QED
      BY <1>4, <1>5, <2>1, Zenon
  <1>9. server.ready = Cardinality({g \in everywhere : ReactRow(rows, f, {g}).ready = 1})
    <2>1. ASSUME NEW g \in everywhere PROVE ReactRow(rows, f, {g}).ready = 1 <=> cell(g) \in Ready
      <3> DEFINE one == {h \in {g} : cell(h) \in Ready}
      <3>1. {g} \cap everywhere = {g}
        BY <2>1
      <3>2. ReactRow(rows, f, {g}) = MatrixRow(rows, f, {g})
        BY <1>4, <3>1, Zenon
      <3>3. ReactRow(rows, f, {g}).ready = Cardinality(one)
        <4>1. MatrixRow(rows, f, {g})
                = [status |-> RowStatus({cell(h) : h \in {g}}), ready |-> Cardinality(one)]
          BY RowMeans
        <4> HIDE DEF cell, one
        <4>2. QED
          BY <3>2, <4>1
      <3>4. one = IF cell(g) \in Ready THEN {g} ELSE {}
        OBVIOUS
      <3>5. Cardinality({g}) = 1 /\ Cardinality({}) = 0
        BY FS_Singleton, FS_EmptySet
      <3> HIDE DEF one, cell
      <3>6. QED
        BY <3>3, <3>4, <3>5
    <2>2. {g \in everywhere : ReactRow(rows, f, {g}).ready = 1} = good
      BY <2>1
    <2> HIDE DEF good, server, everywhere
    <2>3. QED
      BY <1>6, <2>2, Zenon
  <1>10. ClassicRow(rows, f, everywhere) = "OK" <=> server.ready > 0
    <2> DEFINE cells == {ClassicCell(rows, f, g) : g \in everywhere}
    <2>1. ClassicRow(rows, f, everywhere) = Best(cells)
      BY DEF ClassicRow
    <2>2. "OK" \in cells <=> good # {}
      BY <1>3
    <2>3. Cardinality(good) > 0 <=> good # {}
      <3>1. Cardinality(good) \in Nat /\ (Cardinality(good) = 0 <=> good = {})
        BY <1>7, FS_CardinalityType, FS_EmptySet
      <3> HIDE DEF good
      <3>2. QED
        BY <3>1
    <2>4. Best(cells) = "OK" <=> "OK" \in cells
      <3> HIDE DEF cells
      <3>1. CASE "OK" \in cells
        BY <3>1 DEF Best
      <3>2. CASE "OK" \notin cells /\ "LIMITED" \in cells
        BY <3>2 DEF Best
      <3>3. CASE "OK" \notin cells /\ "LIMITED" \notin cells /\ "CONSTRAINED" \in cells
        <4>1. Best(cells) = "CONSTRAINED"
          BY <3>3 DEF Best
        <4>2. QED
          BY <3>3, <4>1
      <3>4. CASE "OK" \notin cells /\ "LIMITED" \notin cells /\ "CONSTRAINED" \notin cells
        <4>1. Best(cells) = "RESTRICTED" \/ Best(cells) = "NONE"
          BY <3>4 DEF Best
        <4>2. QED
          BY <3>4, <4>1
      <3>5. QED
        BY <3>1, <3>2, <3>3, <3>4
    <2> HIDE DEF cells, good, server, everywhere
    <2>5. QED
      BY <1>6, <2>1, <2>2, <2>3, <2>4
  <1>11. ASSUME server.status = "OK" PROVE ClassicFamily(rows, f).ok > 0
    <2> DEFINE mine == {r \in rows : r.family = f}
               okSkus == {x \in {r.sku : r \in mine} :
                            \E r \in mine : r.sku = x /\ Availability(r) = "OK"}
    <2>1. "OK" \in {cell(g) : g \in everywhere}
      <3> DEFINE cells == {cell(g) : g \in everywhere}
      <3>1. RowStatus(cells) = "OK"
        BY <1>6, <1>11
      <3> HIDE DEF cells
      <3>2. "OK" \in cells
        BY <3>1 DEF RowStatus
      <3>3. QED
        BY <3>2 DEF cells
    <2>2. PICK g \in everywhere : cell(g) = "OK"
      BY <2>1
    <2>3. PICK r \in rows : r.family = f /\ Availability(r) = "OK"
      BY <1>3, <2>2 DEF Ready
    <2>4. r.sku \in okSkus
      BY <2>3
    <2>5. ClassicFamily(rows, f).ok = Cardinality(okSkus)
      BY DEF ClassicFamily
    <2>6. IsFiniteSet(okSkus)
      <3>1. IsFiniteSet(mine)
        BY <1>1, FS_Subset
      <3> HIDE DEF mine
      <3>2. IsFiniteSet({q.sku : q \in mine})
        BY <3>1, FieldsAreFinite
      <3>3. QED
        BY <3>2, FS_Subset
    <2> HIDE DEF okSkus
    <2>7. Cardinality(okSkus) \in Nat /\ Cardinality(okSkus) # 0
      BY <2>4, <2>6, FS_CardinalityType, FS_EmptySet
    <2>8. QED
      BY <2>5, <2>7
  <1>12. QED
    BY <1>8, <1>9, <1>10, <1>11

\* What the classic page derives anew is what the server derives.
LEMMA ClassicFamilyIsTheServers ==
    ASSUME NEW rows, AreRows(rows), NEW f
    PROVE  /\ ClassicFamily(rows, f).status = FamilyStatus(rows, f)
           /\ ClassicFamily(rows, f).ok = OkSkus(rows, f)
  <1> DEFINE mine == {r \in rows : r.family = f}
             states == {Availability(r) : r \in mine}
  <1>1. ClassicFamily(rows, f).status
          = IF states \cap {"CONSTRAINED", "RESTRICTED"} # {} THEN "CONSTRAINED"
            ELSE IF "LIMITED" \in states THEN "LIMITED" ELSE "OK"
    BY DEF ClassicFamily
  <1>2. FamilyStatus(rows, f)
          = IF \E r \in mine : IsBlocked(r) THEN "CONSTRAINED"
            ELSE IF With(mine, "LIMITED") # {} THEN "LIMITED" ELSE "OK"
    BY DEF FamilyStatus
  <1>3. states \cap {"CONSTRAINED", "RESTRICTED"} # {} <=> \E r \in mine : IsBlocked(r)
    BY DEF IsBlocked
  <1>4. "LIMITED" \in states <=> With(mine, "LIMITED") # {}
    BY DEF With
  <1>5. ClassicFamily(rows, f).ok
          = Cardinality({x \in {r.sku : r \in mine} :
                           \E r \in mine : r.sku = x /\ Availability(r) = "OK"})
    BY DEF ClassicFamily
  <1>6. OkSkus(rows, f)
          = Cardinality({r.sku : r \in {x \in With(rows, "OK") : x.family = f}})
    BY DEF OkSkus
  <1>7. {x \in {r.sku : r \in mine} : \E r \in mine : r.sku = x /\ Availability(r) = "OK"}
          = {r.sku : r \in {x \in With(rows, "OK") : x.family = f}}
    BY DEF With
  <1>8. ClassicFamily(rows, f).ok = OkSkus(rows, f)
    BY <1>5, <1>6, <1>7, Zenon
  <1> HIDE DEF mine, states
  <1>9. QED
    BY <1>1, <1>2, <1>3, <1>4, <1>8

LEMMA ClassicHealthIsTheServers ==
    ASSUME NEW rows, NEW g
    PROVE  ClassicHealth(rows, g) = RegionHealth(rows, g)
  <1> DEFINE mine == {r \in rows : r.region = g}
  <1>1. With(mine, "CONSTRAINED") \cup With(mine, "RESTRICTED") = {r \in mine : IsBlocked(r)}
    BY DEF With, IsBlocked
  <1>2. ClassicHealth(rows, g)
          = [total |-> Cardinality(mine), deployable |-> Cardinality(Deployable(mine)),
             constrained |-> Cardinality(With(mine, "CONSTRAINED") \cup With(mine, "RESTRICTED")),
             headroom |-> Headroom(mine)]
    BY DEF ClassicHealth
  <1>3. RegionHealth(rows, g)
          = [total |-> Cardinality(mine), deployable |-> Cardinality(Deployable(mine)),
             constrained |-> Cardinality({r \in mine : IsBlocked(r)}),
             headroom |-> Headroom(mine)]
    BY DEF RegionHealth
  <1> HIDE DEF mine
  <1>4. QED
    BY <1>1, <1>2, <1>3, Zenon

LEMMA MatricesCoincide == CaptureInv => MatricesAgree
  <1> SUFFICES ASSUME CaptureInv PROVE MatricesAgree
    OBVIOUS
  <1>1. AreRows(Capture)
    BY CaptureKnown DEF CaptureInv, RowsIn, Capture
  <1>2. \A f \in FamiliesShown, g \in RegionsShown : CellsAgree(f, g)
    BY <1>1, CellsCoincide DEF CellsAgree
  <1>3. \A f \in FamiliesShown : PagesAgree(f)
    BY <1>1, PagesCoincide DEF PagesAgree, RegionsShown
  <1>4. ClassicDerivesTheSame
    BY <1>1, ClassicFamilyIsTheServers, ClassicHealthIsTheServers DEF ClassicDerivesTheSame
  <1>5. QED
    BY <1>2, <1>3, <1>4 DEF MatricesAgree

(***************************************************************************)
(* The matrices of PaaS: any rows of a scan.                               *)
(***************************************************************************)
LEMMA TranspositionAgrees ==
    ASSUME NEW rows, IsFiniteSet(rows)
    PROVE  TransposedAgrees(rows)
  <1> DEFINE G == MatrixRegions(rows)
             S == PaaSServices(rows)
             cell(g, s) == PaaSCell(rows, g, s)
             P == {p \in G \X S : cell(p[1], p[2]) \in Ready}
  <1>1. IsFiniteSet(G) /\ IsFiniteSet(S)
    BY FieldsAreFinite DEF MatrixRegions, PaaSServices
  <1>2. ASSUME NEW g \in G
        PROVE  RegionRow(rows, g)
                 = [status |-> RowStatus({cell(g, s) : s \in S} \ {"EMPTY"}),
                    ready |-> Cardinality({s \in S : <<g, s>> \in P})]
    <2> DEFINE cells == [s \in S |-> PaaSCell(rows, g, s)]
    <2>1. /\ DOMAIN cells = S
          /\ {cells[s] : s \in DOMAIN cells} = {cell(g, s) : s \in S}
          /\ {s \in DOMAIN cells : cells[s] \in Ready} = {s \in S : <<g, s>> \in P}
      BY <1>2
    <2>2. RegionRow(rows, g)
            = [status |-> RowStatus({cells[s] : s \in DOMAIN cells} \ {"EMPTY"}),
               ready |-> Cardinality({s \in DOMAIN cells : cells[s] \in Ready})]
      BY DEF RegionRow
    <2> HIDE DEF cells
    <2>3. QED
      BY <2>1, <2>2, Zenon
  <1>3. ASSUME NEW s \in S
        PROVE  LET found == {cell(g, s) : g \in G}
               IN  ServiceRow(rows, s)
                     = [status |-> IF found \cap Ready # {} THEN "OK"
                                   ELSE IF found \cap {"LIMITED", "CONSTRAINED"} # {} THEN "CAUTION"
                                   ELSE "BLOCKED",
                        ready |-> Cardinality({g \in G : <<g, s>> \in P})]
    <2> DEFINE cells == [g \in {r.region : r \in rows} |-> PaaSCell(rows, g, s)]
               found == {cells[g] : g \in DOMAIN cells}
    <2>1. /\ DOMAIN cells = G
          /\ found = {cell(g, s) : g \in G}
          /\ {g \in DOMAIN cells : cells[g] \in Ready} = {g \in G : <<g, s>> \in P}
      BY <1>3 DEF MatrixRegions
    <2>2. ServiceRow(rows, s)
            = [status |-> IF found \cap Ready # {} THEN "OK"
                          ELSE IF found \cap {"LIMITED", "CONSTRAINED"} # {} THEN "CAUTION"
                          ELSE "BLOCKED",
               ready |-> Cardinality({g \in DOMAIN cells : cells[g] \in Ready})]
      BY DEF ServiceRow
    <2> HIDE DEF cells, found
    <2>3. QED
      BY <2>1, <2>2, Zenon
  <1>4. P \in SUBSET (G \X S)
    OBVIOUS
  <1> HIDE DEF G, S, cell, P
  <1> DEFINE ofRegions == [g \in G |-> RegionRow(rows, g)]
             ofServices == [s \in S |-> ServiceRow(rows, s)]
  <1>5. ASSUME NEW g \in G
        PROVE  /\ ofRegions[g].ready = Cardinality({s \in S : <<g, s>> \in P})
               /\ ofRegions[g].status = RowStatus({cell(g, s) : s \in S} \ {"EMPTY"})
    <2>1. ofRegions[g] = RegionRow(rows, g)
      OBVIOUS
    <2> HIDE DEF ofRegions
    <2>2. QED
      BY <1>2, <2>1
  <1>6. ASSUME NEW s \in S
        PROVE  LET found == {cell(g, s) : g \in G}
               IN  /\ ofServices[s].ready = Cardinality({g \in G : <<g, s>> \in P})
                   /\ ofServices[s].status
                        = IF found \cap Ready # {} THEN "OK"
                          ELSE IF found \cap {"LIMITED", "CONSTRAINED"} # {} THEN "CAUTION"
                          ELSE "BLOCKED"
    <2>1. ofServices[s] = ServiceRow(rows, s)
      OBVIOUS
    <2> HIDE DEF ofServices
    <2>2. QED
      BY <1>3, <2>1
  <1>7. SumFunction([g \in G |-> ofRegions[g].ready]) = SumFunction([s \in S |-> ofServices[s].ready])
    <2>1. [g \in G |-> ofRegions[g].ready] = ByFirst(G, S, P)
      BY <1>5 DEF ByFirst
    <2>2. [s \in S |-> ofServices[s].ready] = BySecond(G, S, P)
      BY <1>6 DEF BySecond
    <2>3. SumFunction(ByFirst(G, S, P)) = SumFunction(BySecond(G, S, P))
      BY <1>1, <1>4, PairsCountedTwice
    <2>4. QED
      BY <2>1, <2>2, <2>3, Zenon
  <1>8. \A g \in G : /\ ofRegions[g].status = "OK" <=> \E s \in S : cell(g, s) = "OK"
                     /\ ofRegions[g].status = "BLOCKED"
                          <=> \A s \in S : cell(g, s) \notin {"OK", "PARTIAL", "LIMITED", "CONSTRAINED"}
    <2>1. ASSUME NEW g \in G
          PROVE  /\ ofRegions[g].status = "OK" <=> \E s \in S : cell(g, s) = "OK"
                 /\ ofRegions[g].status = "BLOCKED"
                      <=> \A s \in S : cell(g, s) \notin {"OK", "PARTIAL", "LIMITED", "CONSTRAINED"}
      <3> DEFINE cells == {cell(g, s) : s \in S} \ {"EMPTY"}
      <3>1. ofRegions[g].status = RowStatus(cells)
        BY <1>5
      <3>2. "OK" \in cells <=> \E s \in S : cell(g, s) = "OK"
        OBVIOUS
      <3>3. cells \cap Caution # {} <=> \E s \in S : cell(g, s) \in {"PARTIAL", "LIMITED", "CONSTRAINED"}
        BY DEF Caution
      <3>4. RowStatus(cells) = IF "OK" \in cells THEN "OK"
                               ELSE IF cells \cap Caution # {} THEN "CAUTION" ELSE "BLOCKED"
        BY DEF RowStatus
      <3> HIDE DEF cells, ofRegions
      <3>5. QED
        BY <3>1, <3>2, <3>3, <3>4
    <2>2. QED
      BY <2>1
  <1>9. \A s \in S : /\ ofServices[s].status = "OK" <=> \E g \in G : cell(g, s) \in {"OK", "PARTIAL"}
                     /\ ofServices[s].status = "BLOCKED"
                          <=> \A g \in G : cell(g, s) \notin {"OK", "PARTIAL", "LIMITED", "CONSTRAINED"}
    <2>1. ASSUME NEW s \in S
          PROVE  /\ ofServices[s].status = "OK" <=> \E g \in G : cell(g, s) \in {"OK", "PARTIAL"}
                 /\ ofServices[s].status = "BLOCKED"
                      <=> \A g \in G : cell(g, s) \notin {"OK", "PARTIAL", "LIMITED", "CONSTRAINED"}
      <3> DEFINE found == {cell(g, s) : g \in G}
      <3>1. ofServices[s].status
              = IF found \cap Ready # {} THEN "OK"
                ELSE IF found \cap {"LIMITED", "CONSTRAINED"} # {} THEN "CAUTION" ELSE "BLOCKED"
        BY <1>6
      <3>2. found \cap Ready # {} <=> \E g \in G : cell(g, s) \in {"OK", "PARTIAL"}
        BY DEF Ready
      <3>3. found \cap {"LIMITED", "CONSTRAINED"} # {}
              <=> \E g \in G : cell(g, s) \in {"LIMITED", "CONSTRAINED"}
        OBVIOUS
      <3> HIDE DEF found, ofServices
      <3>4. QED
        BY <3>1, <3>2, <3>3
    <2>2. QED
      BY <2>1
  <1> HIDE DEF ofRegions, ofServices
  <1>10. (\E g \in G : ofRegions[g].status = "OK") => \E s \in S : ofServices[s].status = "OK"
    BY <1>8, <1>9
  <1>11. (\A g \in G : ofRegions[g].status = "BLOCKED")
           <=> (\A s \in S : ofServices[s].status = "BLOCKED")
    BY <1>8, <1>9
  <1>12. QED
    BY <1>7, <1>10, <1>11 DEF TransposedAgrees, ofRegions, ofServices, G, S

LEMMA PaaSMatricesCoincide == CaptureInv => PaaSMatrixAgrees
  <1> SUFFICES ASSUME CaptureInv, NEW key \in {"sub", "family"},
                      NEW selected \in RegionsShown \cup {"all"}, NEW preset \in SUBSET RegionsShown
               PROVE  TransposedAgrees(PaaSInScope(PaaSRows(key), selected, preset))
    BY DEF PaaSMatrixAgrees
  <1>1. IsFiniteSet(Capture)
    BY CaptureKnown DEF CaptureInv, RowsIn, Capture, AreRows
  <1>2. IsFiniteSet(PaaSRows(key))
    <2> DEFINE f == [r \in Capture |->
                       [region |-> r.region, service |-> r[key],
                        status |-> IF Availability(r) = "RESTRICTED" THEN "BLOCKED"
                                   ELSE Availability(r)]]
    <2>1. {f[r] : r \in Capture} = PaaSRows(key)
      BY DEF PaaSRows
    <2> HIDE DEF f
    <2>2. IsFiniteSet({f[r] : r \in Capture})
      BY <1>1, ImageIsFinite
    <2>3. QED
      BY <2>1, <2>2, Zenon
  <1>3. IsFiniteSet(PaaSInScope(PaaSRows(key), selected, preset))
    BY <1>2, FS_Subset DEF PaaSInScope
  <1>4. QED
    BY <1>3, TranspositionAgrees

\* What is short in one report is short in all: the summaries of the server, the three
\* matrices of capacity and both matrices of PaaS, for any finite capture.
THEOREM ReportsNeverDisagree == ReportsSpec => []ReportsAgree
  <1>1. CaptureInv => ReportsAgree
    BY ServerTablesAgree, MatricesCoincide, PaaSMatricesCoincide DEF ReportsAgree
  <1>2. QED
    BY <1>1, CapturesTyped, PTL

=============================================================================
