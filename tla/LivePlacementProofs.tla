------------------------ MODULE LivePlacementProofs ------------------------
(***************************************************************************)
(* Proofs about LivePlacement, for any refreshes, regions and answers: the *)
(* scores that are stored are fresh, the grid never goes back, and the     *)
(* scheduler's refreshes exclude each other.                               *)
(***************************************************************************)
EXTENDS LivePlacement, SequenceTheorems, WellFoundedInduction, TLAPS

(***************************************************************************)
(* The invariant: scores only grow, and what a lookup has been answered is *)
(* at least what Azure had when the lookup began.                          *)
(***************************************************************************)
CallStates ==
    [stage : Stages, at : Nat, scope : Seq(Regions), kept : [Regions -> ValuesOr(Nat)],
     chunk : Nat \ {0}, left : Seq(Regions), refused : BOOLEAN, told : BOOLEAN,
     live : Rows(Row(Nat)), unavailable : SUBSET Regions, save : {"none", "pending", "stored", "lost"}]

Asks(c) == c.stage \in {"batch", "regions"}

Given(value, asked, at, g) == value = NotAvailable \/ value >= asked[at][g]

HadFlag(stored, flag, at, g) ==
    \E k \in DOMAIN stored : /\ stored[k].at < at /\ g \in DOMAIN stored[k].rows
                             /\ stored[k].rows[g].flag = flag

CallOK(c, asked, stored) ==
    /\ c.stage = "regions" => c.left # <<>>
    /\ c.at \in 0..Len(asked)
    /\ c.stage = "reading" => c.at = 0
    /\ c.at = 0 => ~Asks(c) /\ c.save # "pending" /\ DOMAIN c.live = {}
    /\ \A g \in DOMAIN c.live : /\ Given(c.live[g].score, asked, c.at, g)
                                /\ Given(c.live[g].flag, asked, c.at, g)
    /\ \A g \in Regions : c.kept[g] = NotAvailable \/ HadFlag(stored, c.kept[g], c.at, g)

ScoresGrow ==
    /\ azure \in [Regions -> Nat]
    /\ begun \in Seq([Regions -> Nat])
    /\ \A k \in 1..Len(begun) : \A g \in Regions : begun[k][g] <= azure[g]

StoredFresh(stored, asked) ==
    \A i \in DOMAIN stored : \A g \in DOMAIN stored[i].rows :
        LET row == stored[i].rows[g]
        IN  /\ Given(row.score, asked, stored[i].at, g)
            /\ \/ Given(row.flag, asked, stored[i].at, g)
               \/ HadFlag(stored, row.flag, stored[i].at, g)

Stored == [at : Nat \ {0}, rows : Rows(Row(Nat))]

TableOK ==
    /\ table \in Seq(Stored)
    /\ \A i \in 1..Len(table) : table[i].at \in 1..Len(begun)
    /\ horizon \in Nat
    /\ StoredFresh(table, begun)

FreshInv ==
    /\ refresh \in [Refreshes -> CallStates]
    /\ \A r \in Refreshes : CallOK(refresh[r], begun, table)
    /\ ScoresGrow
    /\ TableOK

(***************************************************************************)
(* Rows and chunks.                                                        *)
(***************************************************************************)

\* Rows are functions from some of the regions.
LEMMA RowsAre ==
    ASSUME NEW V, NEW f
    PROVE  f \in Rows(V) <=> DOMAIN f \subseteq Regions /\ f \in [DOMAIN f -> V]
  BY DEF Rows

\* No rows.
LEMMA NoRows ==
    ASSUME NEW V
    PROVE  <<>> \in Rows(V) /\ DOMAIN <<>> = {}
  <1>1. DOMAIN <<>> = {} /\ <<>> \in [{} -> V]
    OBVIOUS
  <1>2. QED
    BY <1>1, RowsAre

\* A call starts with nothing.
LEMMA UnusedState ==
    /\ Unused \in CallStates
    /\ \A asked, stored : Len(asked) \in Nat => CallOK(Unused, asked, stored)
  <1>1. <<>> \in Seq(Regions)
    OBVIOUS
  <1>2. Unused \in CallStates
    BY <1>1, NoRows DEF Unused, CallStates, Stages, NoFlags, ValuesOr
  <1>3. QED
    BY <1>2, NoRows DEF Unused, CallOK, Asks, NoFlags

\* The regions of a chunk are regions.
LEMMA ChunkOfRegions ==
    ASSUME NEW c \in CallStates
    PROVE  Chunk(c) \in Seq(Regions) /\ ToSet(Chunk(c)) \subseteq Regions
  <1> DEFINE from == (c.chunk - 1) * RegionsPerCall + 1
             to == Least(c.chunk * RegionsPerCall, Len(c.scope))
  <1>1. /\ c.scope \in Seq(Regions) /\ c.chunk \in Nat \ {0} /\ Len(c.scope) \in Nat
        /\ RegionsPerCall \in Nat \ {0}
    BY ParametersOK DEF CallStates
  <1>2. (c.chunk - 1) * RegionsPerCall \in Nat /\ c.chunk * RegionsPerCall \in Nat
    BY <1>1
  <1>3. from \in Int /\ to \in Int /\ 1 <= from /\ to <= Len(c.scope)
    BY <1>1, <1>2 DEF Least
  <1> HIDE DEF from, to
  <1>4. \A i \in from..to : c.scope[i] \in Regions
    BY <1>1, <1>3
  <1>5. SubSeq(c.scope, from, to) \in Seq(Regions)
    BY <1>3, <1>4, SubSeqProperties
  <1>6. Chunk(c) \in Seq(Regions)
    BY <1>5 DEF Chunk, from, to
  <1>7. QED
    BY <1>6 DEF ToSet

\* The regions of a scope are regions.
LEMMA ScopeOfRegions ==
    ASSUME NEW s \in Seq(Regions)
    PROVE  ToSet(s) \subseteq Regions
  BY DEF ToSet

(***************************************************************************)
(* What a call becomes.                                                    *)
(***************************************************************************)

\* A row of an answer is as Azure has it, where it has anything.
LEMMA AnswersAre ==
    ASSUME FreshInv, NEW got \in SUBSET Regions, NEW rows \in Answers(got)
    PROVE  /\ DOMAIN rows = got /\ rows \in [got -> Row(Nat)]
           /\ \A g \in got : /\ rows[g].score \in {azure[g], NotAvailable}
                             /\ rows[g].flag \in {azure[g], NotAvailable}
  <1>1. PICK scored, flagged :
          rows = [g \in got |-> [score |-> IF g \in scored THEN azure[g] ELSE NotAvailable,
                                 flag |-> IF g \in flagged THEN azure[g] ELSE NotAvailable]]
    BY DEF Answers
  <1>2. \A g \in got : azure[g] \in Nat
    BY DEF FreshInv, ScoresGrow
  <1>3. QED
    BY <1>1, <1>2 DEF Row, ValuesOr

\* Answers are added.
LEMMA LiveAdded ==
    ASSUME FreshInv, NEW c \in CallStates, CallOK(c, begun, table), Asks(c),
           NEW got \in SUBSET Regions, NEW rows \in Answers(got)
    PROVE  /\ WithLive(c, rows) \in CallStates
           /\ CallOK(WithLive(c, rows), begun, table)
           /\ WithLive(c, rows).stage = c.stage /\ WithLive(c, rows).left = c.left
  <1> DEFINE new == [g \in DOMAIN rows \cup DOMAIN c.live |->
                      IF g \in DOMAIN rows THEN rows[g] ELSE c.live[g]]
  <1>1. /\ DOMAIN c.live \subseteq Regions /\ c.live \in [DOMAIN c.live -> Row(Nat)]
    BY RowsAre DEF CallStates
  <1>2. /\ DOMAIN rows = got /\ rows \in [got -> Row(Nat)]
        /\ \A g \in got : /\ rows[g].score \in {azure[g], NotAvailable}
                          /\ rows[g].flag \in {azure[g], NotAvailable}
    BY AnswersAre
  <1>3. /\ DOMAIN new = got \cup DOMAIN c.live
        /\ \A g \in DOMAIN new : new[g] = IF g \in got THEN rows[g] ELSE c.live[g]
        /\ new \in [DOMAIN new -> Row(Nat)]
    BY <1>1, <1>2
  <1>4. new \in Rows(Row(Nat))
    BY <1>1, <1>3, RowsAre
  <1>5. c.at \in 1..Len(begun)
    BY DEF CallOK, CallStates
  <1> HIDE DEF new
  <1>6. ASSUME NEW g \in DOMAIN new
        PROVE  Given(new[g].score, begun, c.at, g) /\ Given(new[g].flag, begun, c.at, g)
    <2>1. CASE g \in got
      <3>1. begun[c.at][g] <= azure[g] /\ azure[g] \in Nat /\ begun[c.at][g] \in Nat
        BY <1>5, <2>1 DEF FreshInv, ScoresGrow
      <3>2. QED
        BY <1>2, <1>3, <2>1, <3>1 DEF Given
    <2>2. CASE g \notin got
      BY <1>3, <2>2 DEF CallOK
    <2>3. QED
      BY <2>1, <2>2
  <1>7. WithLive(c, rows) = [c EXCEPT !.live = new]
    BY DEF WithLive, new
  <1> DEFINE d == [c EXCEPT !.live = new]
  <1>8. /\ d \in CallStates /\ d.live = new /\ d.stage = c.stage /\ d.at = c.at
        /\ d.left = c.left /\ d.kept = c.kept /\ d.save = c.save
    BY <1>4 DEF CallStates
  <1> HIDE DEF d
  <1>9. CallOK(d, begun, table)
    BY <1>5, <1>6, <1>8 DEF CallOK, Asks
  <1>10. QED
    BY <1>7, <1>8, <1>9 DEF d

\* Regions are found unavailable.
LEMMA UnavailableAdded ==
    ASSUME NEW c \in CallStates, CallOK(c, begun, table), NEW regions \in SUBSET Regions
    PROVE  /\ WithUnavailable(c, regions) \in CallStates
           /\ CallOK(WithUnavailable(c, regions), begun, table)
           /\ WithUnavailable(c, regions).stage = c.stage
           /\ WithUnavailable(c, regions).left = c.left
  BY DEF WithUnavailable, CallStates, CallOK, Asks

\* The next chunk, or the end.
LEMMA Continued ==
    ASSUME NEW c \in CallStates, CallOK(c, begun, table), Asks(c)
    PROVE  /\ Continue(c) \in CallStates
           /\ CallOK(Continue(c), begun, table)
           /\ Continue(c).stage \in {"batch", "answered"}
  <1>1. <<>> \in Seq(Regions) /\ c.at # 0
    BY DEF CallOK
  <1>2. CASE c.chunk < Chunks(c)
    <2> DEFINE next == c.chunk + 1
               d == [c EXCEPT !.chunk = next, !.stage = "batch", !.left = <<>>,
                              !.refused = FALSE, !.told = FALSE]
    <2>0. next \in Nat \ {0}
      BY DEF CallStates
    <2>1. Continue(c) = d
      BY <1>2 DEF Continue
    <2> HIDE DEF next
    <2>2. d \in CallStates
      BY <1>1, <2>0 DEF CallStates, Stages
    <2>3. d.stage = "batch" /\ d.at = c.at /\ d.live = c.live
          /\ d.kept = c.kept
      BY DEF CallStates
    <2> HIDE DEF d
    <2>4. CallOK(d, begun, table)
      BY <1>1, <2>3 DEF CallOK
    <2>5. QED
      BY <2>1, <2>2, <2>3, <2>4
  <1>3. CASE ~(c.chunk < Chunks(c))
    <2> DEFINE save == IF DOMAIN RowsToSave(c) = {} THEN "none" ELSE "pending"
               d == [c EXCEPT !.stage = "answered", !.left = <<>>, !.refused = FALSE,
                              !.told = FALSE, !.save = save]
    <2>0. save \in {"none", "pending"}
      OBVIOUS
    <2> HIDE DEF save
    <2>1. Continue(c) = d
      BY <1>3 DEF Continue, save
    <2>2. d \in CallStates
      BY <1>1, <2>0 DEF CallStates, Stages
    <2>3. d.stage = "answered" /\ d.at = c.at /\ d.live = c.live
          /\ d.kept = c.kept
      BY DEF CallStates
    <2> HIDE DEF d
    <2>4. CallOK(d, begun, table)
      BY <1>1, <2>3 DEF CallOK
    <2>5. QED
      BY <2>1, <2>2, <2>3, <2>4
  <1>4. QED
    BY <1>2, <1>3

\* The next region of a split call, or what follows it.
LEMMA Splits ==
    ASSUME NEW c \in CallStates, CallOK(c, begun, table), c.stage = "regions"
    PROVE  /\ Split(c) \in CallStates
           /\ CallOK(Split(c), begun, table)
           /\ Split(c).stage \in {"batch", "regions", "answered"}
  <1>1. CASE Len(c.left) > 1
    <2>1. c.left \in Seq(Regions) /\ c.left # <<>>
      BY DEF CallStates, CallOK
    <2>2. Tail(c.left) \in Seq(Regions) /\ Tail(c.left) # <<>>
      <3> DEFINE rest == Tail(c.left)
      <3>1. /\ rest \in Seq(Regions) /\ Len(rest) = Len(c.left) - 1
            /\ Len(c.left) \in Nat
        BY <2>1, HeadTailProperties
      <3> HIDE DEF rest
      <3>2. Len(rest) > 0
        BY <1>1, <3>1
      <3>3. rest \in Seq(Regions) /\ rest # <<>>
        BY <3>1, <3>2, EmptySeq
      <3>4. QED
        BY <3>3 DEF rest
    <2>3. Split(c) = [c EXCEPT !.left = Tail(c.left)]
      BY <1>1 DEF Split
    <2>4. QED
      BY <2>2, <2>3 DEF CallStates, CallOK, Asks
  <1>2. CASE ~(Len(c.left) > 1)
    <2> DEFINE d == IF c.refused /\ ~c.told THEN WithUnavailable(c, ToSet(Chunk(c))) ELSE c
    <2>1. d \in CallStates /\ CallOK(d, begun, table) /\ Asks(d)
      BY ChunkOfRegions, UnavailableAdded DEF Asks
    <2> HIDE DEF d
    <2>2. Split(c) = Continue(d)
      BY <1>2 DEF Split, d
    <2>3. QED
      BY <2>1, <2>2, Continued
  <1>3. QED
    BY <1>1, <1>2

(***************************************************************************)
(* The steps.                                                              *)
(***************************************************************************)

\* A step of one refresh that leaves the rest alone.
LEMMA OneRefresh ==
    ASSUME FreshInv, NEW r \in Refreshes, NEW c \in CallStates, CallOK(c, begun, table),
           Put(r, c), UNCHANGED <<azure, begun, table, horizon>>
    PROVE  FreshInv'
  <1>1. refresh' = [refresh EXCEPT ![r] = c]
    BY DEF Put
  <1>2. refresh' \in [Refreshes -> CallStates]
    BY <1>1 DEF FreshInv
  <1>3. \A s \in Refreshes : CallOK(refresh'[s], begun', table')
    BY <1>1 DEF FreshInv
  <1>4. ScoresGrow'
    BY DEF FreshInv, ScoresGrow
  <1>5. TableOK'
    BY DEF FreshInv, TableOK
  <1>6. QED
    BY <1>2, <1>3, <1>4, <1>5 DEF FreshInv

\* The steps of a lookup.
LEMMA LookupKeeps ==
    ASSUME FreshInv, NEW r \in Refreshes,
           \/ BatchRows(r) \/ BatchSplit(r) \/ SingleUnavailable(r)
           \/ RegionRows(r) \/ RegionUnavailable(r) \/ RegionFails(r) \/ RegionMissed(r)
    PROVE  /\ FreshInv'
           /\ Working(r) /\ Working(r)'
           /\ \A s \in Refreshes : s # r => refresh'[s] = refresh[s]
           /\ UNCHANGED inProgress
  <1> DEFINE c == refresh[r]
  <1>1. c \in CallStates /\ CallOK(c, begun, table) /\ refresh \in [Refreshes -> CallStates]
    BY DEF FreshInv
  <1>2. ToSet(Chunk(c)) \subseteq Regions /\ Chunk(c) \in Seq(Regions)
        /\ ToSet(c.scope) \subseteq Regions
    BY <1>1, ChunkOfRegions, ScopeOfRegions DEF CallStates
  <1>3. UNCHANGED <<azure, begun, table, horizon, inProgress>> /\ Asks(c)
    BY DEF BatchRows, BatchSplit, SingleUnavailable, RegionRows, RegionUnavailable,
           RegionFails, RegionMissed, Locals, InBatch, InRegions, Asks
  <1> HIDE DEF c
  <1>4. \E d \in CallStates : /\ Put(r, d) /\ CallOK(d, begun, table)
                              /\ d.stage \in {"batch", "regions", "answered"}
    <2>1. CASE BatchRows(r)
      <3>0. PICK got \in SUBSET ToSet(Chunk(c)) :
               \E rows \in Answers(got) : Put(r, Continue(WithLive(c, rows)))
        BY <2>1 DEF BatchRows, c
      <3>1. PICK rows \in Answers(got) : Put(r, Continue(WithLive(c, rows)))
        BY <3>0
      <3>2. got \in SUBSET Regions
        BY <1>2
      <3>3. /\ WithLive(c, rows) \in CallStates /\ CallOK(WithLive(c, rows), begun, table)
            /\ Asks(WithLive(c, rows))
        BY <1>1, <1>3, <3>2, LiveAdded DEF Asks
      <3>4. QED
        BY <3>1, <3>3, Continued
    <2>2. CASE BatchSplit(r)
      <3>1. PICK refused \in BOOLEAN :
               Put(r, [c EXCEPT !.stage = "regions", !.refused = refused, !.left = Chunk(c)])
        BY <2>2 DEF BatchSplit, c
      <3> DEFINE d == [c EXCEPT !.stage = "regions", !.refused = refused, !.left = Chunk(c)]
      <3>2. Chunk(c) # <<>>
        <4>1. Len(Chunk(c)) > 1 /\ Len(<<>>) = 0
          BY <2>2, EmptySeq DEF BatchSplit, c
        <4>2. QED
          BY <4>1
      <3>3. /\ d \in CallStates
            /\ d.stage = "regions" /\ d.left # <<>> /\ d.at = c.at /\ d.live = c.live
          /\ d.kept = c.kept
        BY <1>1, <1>2, <3>2 DEF CallStates, Stages
      <3>4. CallOK(d, begun, table)
        BY <1>1, <1>3, <3>3 DEF CallOK
      <3>5. QED
        BY <3>1, <3>3, <3>4
    <2>3. CASE SingleUnavailable(r)
      <3>1. /\ WithUnavailable(c, ToSet(c.scope)) \in CallStates
            /\ CallOK(WithUnavailable(c, ToSet(c.scope)), begun, table)
            /\ Asks(WithUnavailable(c, ToSet(c.scope)))
        BY <1>1, <1>2, <1>3, UnavailableAdded DEF Asks
      <3>2. Put(r, Continue(WithUnavailable(c, ToSet(c.scope))))
        BY <2>3 DEF SingleUnavailable, c
      <3>3. QED
        BY <3>1, <3>2, Continued
    <2>4. ASSUME NEW d \in CallStates, CallOK(d, begun, table), d.stage = "regions",
                 Put(r, Split([d EXCEPT !.told = TRUE]))
          PROVE  \E e \in CallStates : /\ Put(r, e) /\ CallOK(e, begun, table)
                                       /\ e.stage \in {"batch", "regions", "answered"}
      <3> DEFINE e == [d EXCEPT !.told = TRUE]
      <3>1. /\ e \in CallStates /\ e.stage = "regions"
            /\ e.left = d.left /\ e.at = d.at /\ e.live = d.live /\ e.save = d.save
            /\ e.kept = d.kept
        BY <2>4 DEF CallStates
      <3>2. CallOK(e, begun, table)
        BY <2>4, <3>1 DEF CallOK, Asks
      <3>3. QED
        BY <2>4, <3>1, <3>2, Splits
    <2>5. CASE RegionRows(r) \/ RegionUnavailable(r)
      <3>1. c.stage = "regions" /\ {Head(c.left)} \in SUBSET Regions
        BY <1>1, <2>5, HeadTailProperties DEF RegionRows, RegionUnavailable, InRegions, c,
                                              CallOK, CallStates
      <3>2. CASE RegionRows(r)
        BY <1>1, <1>3, <3>1, <3>2, <2>4, LiveAdded DEF RegionRows, c
      <3>3. CASE RegionUnavailable(r)
        BY <1>1, <3>1, <3>3, <2>4, UnavailableAdded DEF RegionUnavailable, c
      <3>4. QED
        BY <2>5, <3>2, <3>3
    <2>6. CASE RegionFails(r)
      BY <1>1, <2>4, <2>6 DEF RegionFails, InRegions, c
    <2>7. CASE RegionMissed(r)
      BY <1>1, <2>7, Splits DEF RegionMissed, InRegions, c
    <2>8. QED
      BY <2>1, <2>2, <2>3, <2>5, <2>6, <2>7
  <1>5. PICK d \in CallStates : /\ Put(r, d) /\ CallOK(d, begun, table)
                               /\ d.stage \in {"batch", "regions", "answered"}
    BY <1>4
  <1>6. FreshInv'
    BY <1>3, <1>5, OneRefresh
  <1>7. refresh' = [refresh EXCEPT ![r] = d]
    BY <1>5 DEF Put
  <1>8. QED
    BY <1>1, <1>3, <1>5, <1>6, <1>7 DEF Working, Asks, c

\* The beginning, before there is anything to ask for.
LEMMA BeginKeeps ==
    ASSUME FreshInv, NEW r \in Refreshes, NEW stage \in {"reading", "done"},
           Put(r, [Unused EXCEPT !.stage = stage]),
           UNCHANGED <<azure, begun, table, horizon>>
    PROVE  FreshInv'
  <1> DEFINE c == [Unused EXCEPT !.stage = stage]
  <1>1. Len(begun) \in Nat
    BY DEF FreshInv, ScoresGrow
  <1>2. c \in CallStates
    BY UnusedState DEF CallStates, Stages
  <1>3. CallOK(c, begun, table)
    BY <1>1, NoRows DEF CallOK, Unused, Asks, NoFlags
  <1>4. QED
    BY <1>2, <1>3, OneRefresh

\* A stage is left, with nothing else changed.
LEMMA StageKeeps ==
    ASSUME FreshInv, NEW r \in Refreshes, NEW stage \in {"answered", "failed", "done"},
           Put(r, [refresh[r] EXCEPT !.stage = stage]),
           UNCHANGED <<azure, begun, table, horizon>>
    PROVE  FreshInv'
  <1> DEFINE c == [refresh[r] EXCEPT !.stage = stage]
  <1>1. refresh[r] \in CallStates /\ CallOK(refresh[r], begun, table)
    BY DEF FreshInv
  <1>2. c \in CallStates
    BY <1>1 DEF CallStates, Stages
  <1>3. CallOK(c, begun, table)
    BY <1>1 DEF CallOK, CallStates, Asks
  <1>4. QED
    BY <1>2, <1>3, OneRefresh

\* A range is widened.
LEMMA WiderRange ==
    ASSUME NEW m \in Nat, NEW n \in Nat, m <= n, NEW a \in 1..m
    PROVE  a \in 0..n
  OBVIOUS

\* Of rows whose time stamps are bounded, one is the newest.
LEMMA ThereIsANewest ==
    ASSUME NEW stored, NEW held, held # {}, NEW bound \in Nat,
           \A i \in held : stored[i].at \in 0..bound
    PROVE  \E i \in held : \A k \in held : stored[k].at <= stored[i].at
  <1> DEFINE ages == {bound - stored[i].at : i \in held}
  <1>1. ages \subseteq Nat /\ ages # {}
    <2>1. \A i \in held : bound - stored[i].at \in Nat
      <3> TAKE i \in held
      <3>1. stored[i].at \in 0..bound
        OBVIOUS
      <3>2. QED
        BY <3>1
    <2>2. QED
      BY <2>1
  <1>2. \A n \in ages : \E i \in held : n = bound - stored[i].at
    OBVIOUS
  <1>3. \A i \in held : bound - stored[i].at \in ages
    OBVIOUS
  <1> HIDE DEF ages
  <1>4. PICK m \in ages : \A n \in ages : ~ (<<n, m>> \in OpToRel(<, Nat))
    BY <1>1, NatLessThanWellFounded, WFMin
  <1>5. \A n \in ages : m <= n
    <2> SUFFICES ASSUME NEW n \in ages PROVE m <= n
      OBVIOUS
    <2>1. n \in Nat /\ m \in Nat
      BY <1>1
    <2>2. ~ (n < m)
      BY <2>1, <1>4 DEF OpToRel
    <2>3. QED
      BY <2>1, <2>2
  <1>6. PICK i \in held : m = bound - stored[i].at
    BY <1>2
  <1>7. ASSUME NEW k \in held
        PROVE  stored[k].at <= stored[i].at
    <2>1. bound - stored[i].at <= bound - stored[k].at
      BY <1>3, <1>5, <1>6
    <2>2. stored[i].at \in 0..bound /\ stored[k].at \in 0..bound
      OBVIOUS
    <2>3. QED
      BY <2>1, <2>2
  <1>8. QED
    BY <1>7

\* What the grid shows of a region is a row of an earlier capture.
LEMMA ShownWasStored ==
    ASSUME FreshInv, NEW g
    PROVE  /\ Shown(g).flag \in ValuesOr(Nat)
           /\ \/ Shown(g).flag = NotAvailable
              \/ HadFlag(table, Shown(g).flag, Len(begun) + 1, g)
  <1>0. /\ table \in Seq(Stored) /\ Len(begun) \in Nat /\ DOMAIN table = 1..Len(table)
        /\ \A i \in 1..Len(table) : table[i].at \in 1..Len(begun)
    BY DEF FreshInv, TableOK, ScoresGrow
  <1>1. CASE Holding(g) = {}
    BY <1>1 DEF Shown, NoAnswer, ValuesOr
  <1>2. CASE Holding(g) # {}
    <2> DEFINE held == Holding(g)
    <2>1. \A i \in held : /\ i \in 1..Len(table) /\ g \in DOMAIN table[i].rows
                          /\ table[i].at \in 0..Len(begun)
      BY <1>0 DEF Holding
    <2> HIDE DEF held
    <2>2. \E i \in held : \A k \in held : table[k].at <= table[i].at
      BY <1>0, <1>2, <2>1, ThereIsANewest DEF held
    <2>3. Latest(g) \in held
      BY <2>2 DEF Latest, held
    <2> DEFINE i == Latest(g)
    <2>4. i \in 1..Len(table) /\ g \in DOMAIN table[i].rows /\ table[i].at \in 1..Len(begun)
      BY <1>0, <2>1, <2>3
    <2> HIDE DEF i
    <2>5. table[i].rows \in Rows(Row(Nat))
      <3>1. table[i] \in Stored
        BY <1>0, <2>4
      <3>2. QED
        BY <3>1 DEF Stored
    <2>6. table[i].rows[g] \in Row(Nat)
      BY <2>4, <2>5, RowsAre
    <2>7. Shown(g) = table[i].rows[g]
      BY <1>2 DEF Shown, i
    <2>8. table[i].at < Len(begun) + 1
      BY <1>0, <2>4
    <2>9. QED
      BY <1>0, <2>4, <2>6, <2>7, <2>8 DEF Row, HadFlag
  <1>3. QED
    BY <1>1, <1>2

\* A lookup begins: it takes what Azure would answer now as its beginning.
LEMMA ReadKeeps ==
    ASSUME FreshInv, NEW r \in Refreshes, RowsRead(r)
    PROVE  FreshInv'
  <1>1. PICK scope \in Scopes[r], merged \in BOOLEAN :
           Put(r, [refresh[r] EXCEPT
                     !.stage = "batch", !.scope = scope, !.at = Len(begun) + 1,
                     !.kept = [g \in Regions |-> IF merged /\ g \in ToSet(scope)
                                                THEN Shown(g).flag ELSE NotAvailable]])
    BY DEF RowsRead
  <1> DEFINE now == Len(begun) + 1
             kept == [g \in Regions |-> IF merged /\ g \in ToSet(scope)
                                        THEN Shown(g).flag ELSE NotAvailable]
             c == [refresh[r] EXCEPT !.stage = "batch", !.scope = scope, !.at = now,
                                     !.kept = kept]
  <1>2. scope \in Seq(Regions)
    BY ParametersOK DEF AllScopes
  <1>3. /\ begun \in Seq([Regions -> Nat]) /\ azure \in [Regions -> Nat]
        /\ begun' = Append(begun, azure) /\ Len(begun) \in Nat
        /\ UNCHANGED <<azure, table, horizon>>
    BY DEF RowsRead, FreshInv, ScoresGrow
  <1>4. /\ begun' \in Seq([Regions -> Nat]) /\ Len(begun') = Len(begun) + 1
        /\ begun'[Len(begun) + 1] = azure
        /\ \A k \in 1..Len(begun) : begun'[k] = begun[k]
    BY <1>3
  <1>5. ScoresGrow'
    BY <1>3, <1>4 DEF FreshInv, ScoresGrow
  <1>6. TableOK'
    <2>1. \A i \in 1..Len(table) : table[i].at \in 1..Len(begun')
      BY <1>3, <1>4 DEF FreshInv, TableOK
    <2>2. StoredFresh(table', begun')
      <3>1. StoredFresh(table, begun) /\ DOMAIN table = 1..Len(table)
            /\ \A k \in 1..Len(table) : begun'[table[k].at] = begun[table[k].at]
        BY <1>3, <1>4 DEF FreshInv, TableOK
      <3>2. QED
        BY <1>3, <3>1 DEF StoredFresh, Given
    <2>3. QED
      BY <1>3, <2>1, <2>2 DEF FreshInv, TableOK
  <1>7. ASSUME NEW s \in Refreshes, s # r
        PROVE  CallOK(refresh[s], begun', table')
    <2>1. CallOK(refresh[s], begun, table) /\ refresh[s] \in CallStates
      BY DEF FreshInv
    <2>2. refresh[s].at \in 0..Len(begun')
      BY <1>3, <1>4, <2>1 DEF CallOK
    <2>3. ASSUME NEW g \in DOMAIN refresh[s].live
          PROVE  /\ Given(refresh[s].live[g].score, begun', refresh[s].at, g)
                 /\ Given(refresh[s].live[g].flag, begun', refresh[s].at, g)
      <3>1. refresh[s].at \in 1..Len(begun)
        BY <1>3, <2>1 DEF CallOK
      <3>2. QED
        BY <1>4, <2>1, <3>1 DEF CallOK, Given
    <2>4. QED
      BY <1>3, <2>1, <2>2, <2>3 DEF CallOK
  <1>8. c \in CallStates /\ CallOK(c, begun', table')
    <2>1. /\ refresh[r] \in CallStates /\ CallOK(refresh[r], begun, table)
          /\ refresh[r].stage = "reading"
      BY DEF FreshInv, RowsRead
    <2>2. now \in Nat /\ now # 0 /\ now \in 0..Len(begun')
      BY <1>3, <1>4
    <2>3. \A g \in Regions :
             /\ kept[g] \in ValuesOr(Nat)
             /\ kept[g] = NotAvailable \/ HadFlag(table, kept[g], now, g)
      <3> SUFFICES ASSUME NEW g \in Regions
                   PROVE  /\ kept[g] \in ValuesOr(Nat)
                          /\ kept[g] = NotAvailable \/ HadFlag(table, kept[g], now, g)
        OBVIOUS
      <3>1. kept[g] = NotAvailable \/ kept[g] = Shown(g).flag
        OBVIOUS
      <3>2. /\ Shown(g).flag \in ValuesOr(Nat)
            /\ Shown(g).flag = NotAvailable \/ HadFlag(table, Shown(g).flag, now, g)
        BY ShownWasStored
      <3>3. QED
        BY <3>1, <3>2 DEF ValuesOr
    <2>4. kept \in [Regions -> ValuesOr(Nat)]
      BY <2>3
    <2> HIDE DEF now, kept
    <2>5. /\ c \in CallStates /\ c.stage = "batch" /\ c.at = now /\ c.kept = kept
          /\ c.live = refresh[r].live
      BY <1>2, <2>1, <2>2, <2>4 DEF CallStates, Stages
    <2> HIDE DEF c
    <2>6. DOMAIN c.live = {}
      BY <2>1, <2>5 DEF CallOK
    <2>7. QED
      BY <1>3, <2>2, <2>3, <2>5, <2>6 DEF CallOK
  <1>9. QED
    BY <1>1, <1>5, <1>6, <1>7, <1>8 DEF FreshInv, Put

\* A refresh whose transaction is over keeps no rows.
LEMMA Closed ==
    ASSUME NEW c \in CallStates, CallOK(c, begun, table), NEW save \in {"stored", "lost"},
           Len(begun) \in Nat
    PROVE  LET d == [c EXCEPT !.save = save, !.kept = NoFlags, !.live = <<>>,
                              !.unavailable = {}]
           IN  /\ d \in CallStates /\ d.stage = c.stage
               /\ \A stored : CallOK(d, begun, stored)
  <1> DEFINE d == [c EXCEPT !.save = save, !.kept = NoFlags, !.live = <<>>, !.unavailable = {}]
  <1>1. NoFlags \in [Regions -> ValuesOr(Nat)] /\ \A g \in Regions : NoFlags[g] = NotAvailable
    BY DEF NoFlags, ValuesOr
  <1>2. /\ d \in CallStates /\ d.stage = c.stage /\ d.left = c.left /\ d.at = c.at
        /\ DOMAIN d.live = {} /\ d.save # "pending" /\ d.kept = NoFlags
    BY <1>1, NoRows DEF CallStates
  <1> HIDE DEF d
  <1>3. ASSUME NEW stored PROVE CallOK(d, begun, stored)
    BY <1>1, <1>2 DEF CallOK, Asks
  <1>4. QED
    BY <1>2, <1>3 DEF d

\* What a refresh stores is fresh, or a flag that was stored before.
LEMMA SavedAre ==
    ASSUME NEW c \in CallStates, CallOK(c, begun, table)
    PROVE  /\ RowsToSave(c) \in Rows(Row(Nat))
           /\ \A g \in DOMAIN RowsToSave(c) :
                 LET row == RowsToSave(c)[g]
                 IN  /\ Given(row.score, begun, c.at, g)
                     /\ Given(row.flag, begun, c.at, g) \/ HadFlag(table, row.flag, c.at, g)
  <1> DEFINE saved == RowsToSave(c)
  <1>1. /\ DOMAIN c.live \subseteq Regions /\ c.live \in [DOMAIN c.live -> Row(Nat)]
        /\ c.unavailable \subseteq Regions /\ c.kept \in [Regions -> ValuesOr(Nat)]
    BY RowsAre DEF CallStates
  <1>2. /\ DOMAIN saved = DOMAIN c.live \cup c.unavailable
        /\ \A g \in DOMAIN saved :
              saved[g] = IF g \in DOMAIN c.live THEN Enriched(c, g) ELSE NoAnswer
        /\ saved = [g \in DOMAIN saved |-> saved[g]]
    BY DEF RowsToSave
  <1> HIDE DEF saved
  <1>3. NoAnswer \in Row(Nat) /\ NoAnswer.score = NotAvailable /\ NoAnswer.flag = NotAvailable
    BY DEF NoAnswer, Row, ValuesOr
  <1>4. ASSUME NEW g \in DOMAIN c.live
        PROVE  /\ Enriched(c, g) \in Row(Nat)
               /\ Enriched(c, g).score = c.live[g].score
               /\ Enriched(c, g).flag \in {c.live[g].flag, c.kept[g]}
    <2>1. c.live[g] \in Row(Nat) /\ c.kept[g] \in ValuesOr(Nat)
      BY <1>1
    <2>2. QED
      BY <2>1 DEF Enriched, Row
  <1>5. saved \in Rows(Row(Nat))
    <2>1. saved \in [DOMAIN saved -> Row(Nat)] /\ DOMAIN saved \subseteq Regions
      BY <1>1, <1>2, <1>3, <1>4
    <2>2. QED
      BY <2>1, RowsAre
  <1>6. ASSUME NEW g \in DOMAIN saved
        PROVE  /\ Given(saved[g].score, begun, c.at, g)
               /\ \/ Given(saved[g].flag, begun, c.at, g)
                  \/ HadFlag(table, saved[g].flag, c.at, g)
    <2>1. CASE g \in DOMAIN c.live
      <3>1. /\ saved[g] = Enriched(c, g) /\ g \in Regions
            /\ Given(c.live[g].score, begun, c.at, g)
            /\ Given(c.live[g].flag, begun, c.at, g)
            /\ c.kept[g] = NotAvailable \/ HadFlag(table, c.kept[g], c.at, g)
        BY <1>1, <1>2, <2>1 DEF CallOK
      <3>2. c.kept[g] = NotAvailable => Given(c.kept[g], begun, c.at, g)
        BY DEF Given
      <3>3. QED
        BY <1>4, <2>1, <3>1, <3>2
    <2>2. CASE g \notin DOMAIN c.live
      BY <1>2, <1>3, <2>2 DEF Given
    <2>3. QED
      BY <2>1, <2>2
  <1>7. QED
    BY <1>5, <1>6 DEF saved

\* The transaction of a refresh stores what it was told, under the time it began.
LEMMA SaveKeeps ==
    ASSUME FreshInv, NEW r \in Refreshes, SaveCommits(r)
    PROVE  FreshInv'
  <1> DEFINE c == refresh[r]
             saved == RowsToSave(c)
             row == [at |-> c.at, rows |-> saved]
             d == [c EXCEPT !.save = "stored", !.kept = NoFlags, !.live = <<>>,
                            !.unavailable = {}]
  <1>1. /\ c \in CallStates /\ CallOK(c, begun, table) /\ c.save = "pending"
        /\ begun \in Seq([Regions -> Nat]) /\ Len(begun) \in Nat
        /\ table \in Seq(Stored) /\ table' = Append(table, row)
        /\ refresh' = [refresh EXCEPT ![r] = d]
        /\ UNCHANGED <<azure, begun, horizon>>
    BY DEF FreshInv, ScoresGrow, TableOK, SaveCommits, Put
  <1>2. c.at \in 1..Len(begun)
    BY <1>1 DEF CallOK, CallStates
  <1>3. d \in CallStates /\ CallOK(d, begun, table')
    BY <1>1, Closed
  <1> HIDE DEF c, saved, d
  <1>4. /\ saved \in Rows(Row(Nat))
        /\ \A g \in DOMAIN saved :
              /\ Given(saved[g].score, begun, c.at, g)
              /\ \/ Given(saved[g].flag, begun, c.at, g)
                 \/ HadFlag(table, saved[g].flag, c.at, g)
    BY <1>1, SavedAre DEF saved
  <1>5. row \in Stored /\ row.at = c.at /\ row.rows = saved
    BY <1>2, <1>4 DEF Stored
  <1> HIDE DEF row
  <1>6. /\ table' \in Seq(Stored) /\ Len(table') = Len(table) + 1 /\ Len(table) \in Nat
        /\ table'[Len(table) + 1] = row
        /\ \A i \in 1..Len(table) : table'[i] = table[i]
        /\ DOMAIN table' = 1..Len(table') /\ DOMAIN table = 1..Len(table)
    BY <1>1, <1>5
  <1>7. ASSUME NEW flag, NEW at, NEW g, HadFlag(table, flag, at, g)
        PROVE  HadFlag(table', flag, at, g)
    BY <1>6, <1>7 DEF HadFlag
  <1>8. TableOK'
    <2>1. \A i \in 1..Len(table') : table'[i].at \in 1..Len(begun')
      <3> SUFFICES ASSUME NEW i \in 1..Len(table') PROVE table'[i].at \in 1..Len(begun')
        OBVIOUS
      <3>1. CASE i \in 1..Len(table)
        BY <1>1, <1>6, <3>1 DEF FreshInv, TableOK
      <3>2. CASE i = Len(table) + 1
        BY <1>1, <1>2, <1>5, <1>6, <3>2
      <3>3. QED
        BY <1>6, <3>1, <3>2
    <2>2. StoredFresh(table', begun')
      <3> SUFFICES ASSUME NEW i \in DOMAIN table', NEW g \in DOMAIN table'[i].rows
                   PROVE  /\ Given(table'[i].rows[g].score, begun, table'[i].at, g)
                          /\ \/ Given(table'[i].rows[g].flag, begun, table'[i].at, g)
                             \/ HadFlag(table', table'[i].rows[g].flag, table'[i].at, g)
        BY <1>1 DEF StoredFresh
      <3>1. CASE i \in 1..Len(table)
        <4>1. table'[i] = table[i] /\ i \in DOMAIN table /\ g \in DOMAIN table[i].rows
          BY <1>6, <3>1
        <4>2. /\ Given(table[i].rows[g].score, begun, table[i].at, g)
              /\ \/ Given(table[i].rows[g].flag, begun, table[i].at, g)
                 \/ HadFlag(table, table[i].rows[g].flag, table[i].at, g)
          BY <4>1 DEF FreshInv, TableOK, StoredFresh
        <4>3. QED
          BY <1>7, <4>1, <4>2
      <3>2. CASE i = Len(table) + 1
        BY <1>4, <1>5, <1>6, <1>7, <3>2
      <3>3. QED
        BY <1>6, <3>1, <3>2
    <2>3. QED
      BY <1>1, <1>6, <2>1, <2>2 DEF FreshInv, TableOK
  <1>9. ASSUME NEW s \in Refreshes, s # r
        PROVE  CallOK(refresh[s], begun, table')
    <2>1. CallOK(refresh[s], begun, table)
      BY DEF FreshInv
    <2>2. QED
      BY <1>7, <2>1 DEF CallOK
  <1>10. ScoresGrow'
    BY <1>1 DEF FreshInv, ScoresGrow
  <1>11. QED
    BY <1>1, <1>3, <1>8, <1>9, <1>10 DEF FreshInv

\* A save that fails takes its rows with it.
LEMMA LossKeeps ==
    ASSUME FreshInv, NEW r \in Refreshes, SaveFails(r)
    PROVE  FreshInv'
  <1> DEFINE c == refresh[r]
             d == [c EXCEPT !.save = "lost", !.kept = NoFlags, !.live = <<>>,
                            !.unavailable = {}]
  <1>1. c \in CallStates /\ CallOK(c, begun, table) /\ Len(begun) \in Nat
    BY DEF FreshInv, ScoresGrow
  <1>2. Put(r, d) /\ UNCHANGED <<azure, begun, table, horizon>>
    BY DEF SaveFails, Locals
  <1>3. d \in CallStates /\ CallOK(d, begun, table)
    BY <1>1, Closed
  <1> HIDE DEF c, d
  <1>4. QED
    BY <1>2, <1>3, OneRefresh

\* Azure's scores change, time passes, the process is restarted.
LEMMA SurroundingsKeep ==
    ASSUME FreshInv, (\E g \in Changing : AzureChanges(g)) \/ Age \/ Restart
    PROVE  FreshInv'
  <1>1. ASSUME NEW g \in Changing, AzureChanges(g)
        PROVE  FreshInv'
    <2>1. /\ azure \in [Regions -> Nat] /\ begun \in Seq([Regions -> Nat])
          /\ azure' = [azure EXCEPT ![g] = @ + 1] /\ UNCHANGED <<begun, refresh, table, horizon>>
      BY <1>1 DEF AzureChanges, FreshInv, ScoresGrow
    <2>2. azure' \in [Regions -> Nat] /\ \A h \in Regions : azure'[h] >= azure[h]
      <3>1. /\ \A h \in Regions : azure[h] \in Nat
            /\ \A h \in Regions : azure'[h] = IF h = g THEN azure[g] + 1 ELSE azure[h]
            /\ DOMAIN azure' = Regions /\ azure' = [h \in Regions |-> azure'[h]]
        BY <2>1
      <3>2. QED
        BY <3>1
    <2>3. ScoresGrow'
      <3> SUFFICES ASSUME NEW k \in 1..Len(begun), NEW h \in Regions
                   PROVE  begun[k][h] <= azure'[h]
        BY <2>1, <2>2 DEF ScoresGrow
      <3>1. begun[k][h] \in Nat /\ azure[h] \in Nat /\ azure'[h] \in Nat
        BY <2>1, <2>2
      <3>2. begun[k][h] <= azure[h] /\ azure'[h] >= azure[h]
        BY <2>2 DEF FreshInv, ScoresGrow
      <3>3. QED
        BY <3>1, <3>2
    <2>4. TableOK'
      BY <2>1 DEF FreshInv, TableOK
    <2>5. QED
      BY <2>1, <2>3, <2>4 DEF FreshInv
  <1>2. CASE Age
    <2>1. horizon' \in Nat /\ UNCHANGED <<azure, begun, refresh, table>>
      BY <1>2 DEF Age, FreshInv, TableOK
    <2>2. ScoresGrow' /\ TableOK'
      BY <2>1 DEF FreshInv, ScoresGrow, TableOK
    <2>3. QED
      BY <2>1, <2>2 DEF FreshInv
  <1>3. CASE Restart
    <2>1. UNCHANGED <<azure, begun, table, horizon>>
      BY <1>3 DEF Restart
    <2>2. ScoresGrow' /\ TableOK'
      BY <2>1 DEF FreshInv, ScoresGrow, TableOK
    <2>3. \A r \in Refreshes : refresh'[r] \in {Unused, [Unused EXCEPT !.stage = "done"]}
      BY <1>3 DEF Restart
    <2>4. /\ Unused \in CallStates /\ [Unused EXCEPT !.stage = "done"] \in CallStates
          /\ CallOK(Unused, begun, table) /\ CallOK([Unused EXCEPT !.stage = "done"], begun, table)
      <3>1. Len(begun) \in Nat
        BY DEF FreshInv, ScoresGrow
      <3>2. Unused \in CallStates /\ CallOK(Unused, begun, table)
        BY <3>1, UnusedState
      <3>3. [Unused EXCEPT !.stage = "done"] \in CallStates
        BY <3>2 DEF CallStates, Stages
      <3>4. CallOK([Unused EXCEPT !.stage = "done"], begun, table)
        BY <3>1, NoRows DEF CallOK, Unused, Asks, NoFlags
      <3>5. QED
        BY <3>2, <3>3, <3>4
    <2>5. refresh' \in [Refreshes -> CallStates]
      BY <1>3, <2>4 DEF Restart
    <2>6. QED
      BY <2>1, <2>2, <2>3, <2>4, <2>5 DEF FreshInv
  <1>4. QED
    BY <1>1, <1>2, <1>3

\* It holds initially.
LEMMA InitFresh == Init => FreshInv
  <1> SUFFICES ASSUME Init PROVE FreshInv
    OBVIOUS
  <1>1. /\ refresh = [r \in Refreshes |-> Unused] /\ begun = <<>> /\ table = <<>> /\ horizon = 0
        /\ azure = [g \in Regions |-> 0] /\ Len(<<>>) = 0
    BY EmptySeq DEF Init
  <1>2. \A r \in Refreshes : refresh[r] \in CallStates /\ CallOK(refresh[r], begun, table)
    BY <1>1, UnusedState
  <1>3. ScoresGrow
    BY <1>1 DEF ScoresGrow
  <1>4. TableOK
    BY <1>1 DEF TableOK, StoredFresh
  <1>5. QED
    BY <1>1, <1>2, <1>3, <1>4 DEF FreshInv

\* Every step keeps it.
LEMMA NextFresh == FreshInv /\ [Next]_vars => FreshInv'
  <1> SUFFICES ASSUME FreshInv, [Next]_vars PROVE FreshInv'
    OBVIOUS
  <1>1. ASSUME NEW u \in Users, UserBegins(u) PROVE FreshInv'
    BY <1>1, BeginKeeps DEF UserBegins, Refreshes
  <1>2. ASSUME NEW t \in Ticks, TickBegins(t) \/ TickSkipped(t) PROVE FreshInv'
    BY <1>2, BeginKeeps DEF TickBegins, TickSkipped, Refreshes
  <1>3. ASSUME NEW t \in Ticks, TickEnds(t) PROVE FreshInv'
    BY <1>3, StageKeeps DEF TickEnds, Refreshes
  <1>4. ASSUME NEW r \in Refreshes, RefreshStep(r) PROVE FreshInv'
    <2>1. CASE RowsRead(r)
      BY <2>1, ReadKeeps
    <2>2. CASE NothingToAsk(r) \/ RefreshFails(r)
      BY <2>2, StageKeeps DEF NothingToAsk, RefreshFails
    <2>3. QED
      BY <1>4, <2>1, <2>2, LookupKeeps DEF RefreshStep
  <1>5. ASSUME NEW r \in Refreshes, SaveStep(r) PROVE FreshInv'
    BY <1>5, SaveKeeps, LossKeeps DEF SaveStep
  <1>6. CASE UNCHANGED vars
    <2>1. UNCHANGED <<azure, begun, refresh, table, horizon>>
      BY <1>6 DEF vars
    <2>2. ScoresGrow' /\ TableOK'
      BY <2>1 DEF FreshInv, ScoresGrow, TableOK
    <2>3. QED
      BY <2>1, <2>2 DEF FreshInv
  <1>7. QED
    BY <1>1, <1>2, <1>3, <1>4, <1>5, <1>6, SurroundingsKeep DEF Next

LEMMA FreshAlways == Spec => []FreshInv
  <1>1. QED
    BY InitFresh, NextFresh, PTL DEF Spec

\* What is stored is never older than its time stamp (saveLivePlacementSnapshots, and
\* the grid that was read before the lookups).
THEOREM ScoresAreFresh == Spec => []StoredScoresAreFresh
  <1>1. FreshInv => StoredScoresAreFresh
    BY DEF FreshInv, TableOK, StoredFresh, Given, HadFlag, StoredScoresAreFresh, Fresh,
           StoredBefore
  <1>2. QED
    BY <1>1, FreshAlways, PTL

(***************************************************************************)
(* The scheduler.                                                          *)
(***************************************************************************)
AloneInv == FreshInv /\ inProgress \in BOOLEAN /\ SchedulerRefreshesAlone

\* A step that leaves the flag, and whether each refresh is working.
LEMMA SameWorking ==
    ASSUME AloneInv, UNCHANGED inProgress, \A t \in Ticks : Working(t)' <=> Working(t)
    PROVE  inProgress' \in BOOLEAN /\ SchedulerRefreshesAlone'
  BY Zenon DEF AloneInv, SchedulerRefreshesAlone

\* A step of one refresh, with what becomes of its stage.
LEMMA OneMoves ==
    ASSUME AloneInv, NEW r \in Refreshes, NEW c, Put(r, c)
    PROVE  refresh'[r] = c /\ \A t \in Refreshes : t # r => refresh'[t] = refresh[t]
  BY DEF AloneInv, FreshInv, Put

\* The flag is raised for one, lowered by the one that works, and else left.
LEMMA NextAlone == AloneInv /\ [Next]_vars => inProgress' \in BOOLEAN /\ SchedulerRefreshesAlone'
  <1> SUFFICES ASSUME AloneInv, [Next]_vars
               PROVE  inProgress' \in BOOLEAN /\ SchedulerRefreshesAlone'
    OBVIOUS
  <1>0. /\ FreshInv /\ Ticks \subseteq Refreshes /\ Users \subseteq Refreshes
        /\ \A u \in Users : u \notin Ticks
        /\ \A r \in Refreshes : refresh[r] \in CallStates
        /\ Unused \in CallStates
    BY ParametersOK, UnusedState DEF AloneInv, FreshInv, Refreshes
  <1>1. ASSUME NEW u \in Users, UserBegins(u)
        PROVE  inProgress' \in BOOLEAN /\ SchedulerRefreshesAlone'
    <2>1. \A t \in Ticks : refresh'[t] = refresh[t]
      BY <1>0, <1>1, OneMoves DEF UserBegins
    <2>2. QED
      BY <1>1, <2>1, SameWorking DEF UserBegins, Working
  <1>2. ASSUME NEW t \in Ticks, TickBegins(t)
        PROVE  inProgress' \in BOOLEAN /\ SchedulerRefreshesAlone'
    <2>1. inProgress = FALSE /\ inProgress' = TRUE
      BY <1>2 DEF TickBegins, SchedulerIsFree, AloneInv
    <2>2. \A s \in Ticks : ~Working(s)
      BY <2>1 DEF AloneInv, SchedulerRefreshesAlone
    <2>3. /\ refresh'[t].stage = "reading"
          /\ \A s \in Ticks : s # t => refresh'[s] = refresh[s]
      BY <1>0, <1>2, OneMoves DEF TickBegins, CallStates
    <2>4. Working(t)' /\ \A s \in Ticks : s # t => ~Working(s)'
      BY <2>2, <2>3 DEF Working
    <2>5. QED
      BY <2>1, <2>4 DEF SchedulerRefreshesAlone
  <1>3. ASSUME NEW t \in Ticks, TickSkipped(t)
        PROVE  inProgress' \in BOOLEAN /\ SchedulerRefreshesAlone'
    <2>1. /\ refresh[t].stage = "unused" /\ refresh'[t].stage = "done"
          /\ \A s \in Ticks : s # t => refresh'[s] = refresh[s]
      BY <1>0, <1>3, OneMoves DEF TickSkipped, Comes, CallStates
    <2>2. QED
      BY <1>3, <2>1, SameWorking DEF TickSkipped, Working
  <1>4. ASSUME NEW t \in Ticks, TickEnds(t)
        PROVE  inProgress' \in BOOLEAN /\ SchedulerRefreshesAlone'
    <2>1. /\ refresh[t].stage \in {"answered", "failed"} /\ refresh'[t].stage = "done"
          /\ \A s \in Ticks : s # t => refresh'[s] = refresh[s]
          /\ inProgress' = FALSE
      BY <1>0, <1>4, OneMoves DEF TickEnds, CallStates
    <2>2. Working(t) /\ ~Working(t)'
      BY <2>1 DEF Working
    <2>3. \A s \in Ticks : s # t => ~Working(s)
      BY <2>2 DEF AloneInv, SchedulerRefreshesAlone
    <2>4. \A s \in Ticks : ~Working(s)'
      BY <2>1, <2>2, <2>3 DEF Working
    <2>5. QED
      BY <2>1, <2>4 DEF SchedulerRefreshesAlone
  <1>5. ASSUME NEW r \in Refreshes, RefreshStep(r)
        PROVE  inProgress' \in BOOLEAN /\ SchedulerRefreshesAlone'
    <2>1. CASE RowsRead(r) \/ NothingToAsk(r) \/ RefreshFails(r)
      <3>1. PICK c : Put(r, c) /\ c.stage \in {"batch", "answered", "failed"}
        <4>1. CASE RowsRead(r)
          <5>1. \E scope, kept :
                   Put(r, [refresh[r] EXCEPT !.stage = "batch", !.scope = scope,
                                             !.at = Len(begun) + 1, !.kept = kept])
            BY <4>1 DEF RowsRead
          <5>2. \A scope, kept :
                   [refresh[r] EXCEPT !.stage = "batch", !.scope = scope,
                                      !.at = Len(begun) + 1, !.kept = kept].stage = "batch"
            BY <1>0 DEF CallStates
          <5>3. QED
            BY <5>1, <5>2
        <4>2. CASE NothingToAsk(r) \/ RefreshFails(r)
          <5>1. PICK stage \in {"answered", "failed"} :
                   Put(r, [refresh[r] EXCEPT !.stage = stage])
            BY <4>2 DEF NothingToAsk, RefreshFails
          <5>2. [refresh[r] EXCEPT !.stage = stage].stage = stage
            BY <1>0 DEF CallStates
          <5>3. QED
            BY <5>1, <5>2
        <4>3. QED
          BY <2>1, <4>1, <4>2
      <3>2. /\ refresh[r].stage = "reading" /\ inProgress' = inProgress
            /\ refresh'[r].stage \in {"batch", "answered", "failed"}
            /\ \A t \in Ticks : t # r => refresh'[t] = refresh[t]
        BY <1>0, <2>1, <3>1, OneMoves DEF RowsRead, NothingToAsk, RefreshFails
      <3>3. QED
        BY <3>2, SameWorking DEF Working
    <2>2. CASE ~(RowsRead(r) \/ NothingToAsk(r) \/ RefreshFails(r))
      <3>1. /\ Working(r) /\ Working(r)' /\ UNCHANGED inProgress
            /\ \A t \in Refreshes : t # r => refresh'[t] = refresh[t]
        BY <1>0, <1>5, <2>2, LookupKeeps DEF RefreshStep
      <3>2. \A t \in Ticks : Working(t)' <=> Working(t)
        BY <1>0, <3>1 DEF Working
      <3>3. QED
        BY <3>1, <3>2, SameWorking
    <2>3. QED
      BY <2>1, <2>2
  <1>6. ASSUME NEW r \in Refreshes, SaveStep(r)
        PROVE  inProgress' \in BOOLEAN /\ SchedulerRefreshesAlone'
    <2>1. PICK c : Put(r, c) /\ c.stage = refresh[r].stage
      <3>1. PICK save \in {"stored", "lost"} :
               Put(r, [refresh[r] EXCEPT !.save = save, !.kept = NoFlags, !.live = <<>>,
                                         !.unavailable = {}])
        BY <1>6 DEF SaveStep, SaveCommits, SaveFails
      <3>2. [refresh[r] EXCEPT !.save = save, !.kept = NoFlags, !.live = <<>>,
                               !.unavailable = {}].stage = refresh[r].stage
        BY <1>0 DEF CallStates
      <3>3. QED
        BY <3>1, <3>2
    <2>2. /\ inProgress' = inProgress
          /\ \A t \in Ticks : refresh'[t].stage = refresh[t].stage
      BY <1>0, <1>6, <2>1, OneMoves DEF SaveStep, SaveCommits, SaveFails, Locals
    <2>3. QED
      BY <2>2, SameWorking DEF Working
  <1>7. CASE Restart
    <2>1. /\ inProgress' = FALSE
          /\ \A t \in Ticks : refresh'[t].stage \in {"unused", "done"}
      BY <1>0, <1>7 DEF Restart, CallStates, Unused
    <2>2. QED
      BY <2>1 DEF SchedulerRefreshesAlone, Working
  <1>8. CASE (\E g \in Changing : AzureChanges(g)) \/ Age \/ UNCHANGED vars
    <2>1. UNCHANGED <<refresh, inProgress>>
      BY <1>8 DEF AzureChanges, Age, vars
    <2>2. QED
      BY <2>1, SameWorking DEF Working
  <1>9. QED
    BY <1>1, <1>2, <1>3, <1>4, <1>5, <1>6, <1>7, <1>8 DEF Next

\* However a scheduled refresh ends, the flag is up exactly while one is working, and
\* there are never two (refreshLivePlacementInBackground).
THEOREM SchedulerIsAlone == Spec => []SchedulerRefreshesAlone
  <1>1. Init => AloneInv
    <2> SUFFICES ASSUME Init PROVE AloneInv
      OBVIOUS
    <2>1. inProgress = FALSE /\ \A t \in Ticks : refresh[t].stage = "unused"
      BY DEF Init, Unused, Refreshes
    <2>2. SchedulerRefreshesAlone
      BY <2>1 DEF SchedulerRefreshesAlone, Working
    <2>3. QED
      BY <2>1, <2>2, InitFresh DEF AloneInv
  <1>2. AloneInv /\ [Next]_vars => AloneInv'
    BY NextAlone, NextFresh DEF AloneInv
  <1>3. AloneInv => SchedulerRefreshesAlone
    BY DEF AloneInv
  <1>4. QED
    BY <1>1, <1>2, <1>3, PTL DEF Spec

(***************************************************************************)
(* The grid.  The newest of the rows that hold a region is one of them, as *)
(* there are finitely many; another row or a later horizon only replaces   *)
(* it by one that is not older.                                            *)
(***************************************************************************)
HoldingIn(stored, old, g) ==
    {i \in DOMAIN stored : g \in DOMAIN stored[i].rows /\ stored[i].at > old}

NewestIn(stored, old, g) ==
    IF HoldingIn(stored, old, g) = {} THEN 0
    ELSE stored[CHOOSE i \in HoldingIn(stored, old, g) :
                  \A k \in HoldingIn(stored, old, g) : stored[k].at <= stored[i].at].at

\* What the grid shows is the newest.
LEMMA NewestIs ==
    ASSUME NEW stored, NEW old, NEW g, NEW bound \in Nat,
           \A i \in HoldingIn(stored, old, g) : stored[i].at \in 0..bound
    PROVE  \/ HoldingIn(stored, old, g) = {} /\ NewestIn(stored, old, g) = 0
           \/ \E i \in HoldingIn(stored, old, g) :
                 /\ NewestIn(stored, old, g) = stored[i].at
                 /\ \A k \in HoldingIn(stored, old, g) : stored[k].at <= stored[i].at
  <1> DEFINE held == HoldingIn(stored, old, g)
  <1>1. CASE held = {}
    BY <1>1 DEF NewestIn
  <1>2. CASE held # {}
    <2> DEFINE i == CHOOSE i \in held : \A k \in held : stored[k].at <= stored[i].at
    <2> HIDE DEF held
    <2>1. \E j \in held : \A k \in held : stored[k].at <= stored[j].at
      BY <1>2, ThereIsANewest DEF held
    <2>2. i \in held /\ \A k \in held : stored[k].at <= stored[i].at
      BY <2>1
    <2>3. NewestIn(stored, old, g) = stored[i].at
      BY <1>2 DEF NewestIn, held
    <2>4. QED
      BY <2>2, <2>3 DEF held
  <1>3. QED
    BY <1>1, <1>2

\* A grid of more rows, or of a later horizon, is not older.
LEMMA NewestGrows ==
    ASSUME NEW stored, NEW more, NEW old, NEW later, NEW g, NEW bound \in Nat,
           old \in Nat, later \in Nat,
           \A i \in HoldingIn(stored, old, g) : stored[i].at \in 0..bound,
           \A i \in HoldingIn(more, later, g) : more[i].at \in 0..bound,
           \A i \in HoldingIn(stored, old, g) :
              stored[i].at > later => i \in HoldingIn(more, later, g) /\ more[i].at = stored[i].at,
           old = later \/ (more = stored /\ old <= later)
    PROVE  \/ NewestIn(more, later, g) >= NewestIn(stored, old, g)
           \/ NewestIn(more, later, g) = 0 /\ old # later
  <1>1. /\ \A i \in HoldingIn(stored, old, g) : stored[i].at > old /\ stored[i].at \in Nat
        /\ \A i \in HoldingIn(more, later, g) : more[i].at > later /\ more[i].at \in Nat
    BY DEF HoldingIn
  <1>2. CASE HoldingIn(stored, old, g) = {}
    <2>1. NewestIn(stored, old, g) = 0
      BY <1>2 DEF NewestIn
    <2>2. NewestIn(more, later, g) \in Nat
      BY <1>1, NewestIs
    <2>3. QED
      BY <2>1, <2>2
  <1>3. CASE HoldingIn(stored, old, g) # {}
    <2>1. PICK i \in HoldingIn(stored, old, g) :
             /\ NewestIn(stored, old, g) = stored[i].at
             /\ \A k \in HoldingIn(stored, old, g) : stored[k].at <= stored[i].at
      BY <1>3, NewestIs
    <2>2. CASE stored[i].at > later
      <3>1. i \in HoldingIn(more, later, g) /\ more[i].at = stored[i].at
        BY <2>2
      <3>2. PICK j \in HoldingIn(more, later, g) :
               /\ NewestIn(more, later, g) = more[j].at
               /\ \A k \in HoldingIn(more, later, g) : more[k].at <= more[j].at
        BY <3>1, NewestIs
      <3>3. more[i].at <= more[j].at
        BY <3>1, <3>2
      <3>4. more[j].at \in Nat /\ stored[i].at \in Nat
        BY <1>1
      <3>5. QED
        BY <2>1, <3>1, <3>2, <3>3, <3>4
    <2>3. CASE ~(stored[i].at > later)
      <3>1. old # later /\ more = stored
        BY <1>1, <2>3
      <3>2. HoldingIn(more, later, g) = {}
        <4> SUFFICES ASSUME NEW k \in HoldingIn(more, later, g) PROVE FALSE
          OBVIOUS
        <4>1. k \in HoldingIn(stored, old, g) /\ stored[k].at > later /\ stored[k].at \in Nat
          <5>1. stored[k].at > later /\ stored[k].at \in Nat
            BY <1>1, <3>1
          <5>2. stored[k].at > old
            BY <5>1, <3>1
          <5>3. QED
            BY <5>1, <5>2, <3>1 DEF HoldingIn
        <4>2. stored[k].at <= stored[i].at /\ stored[i].at \in Nat
          BY <1>1, <2>1, <4>1
        <4>3. QED
          BY <2>3, <4>1, <4>2
      <3>3. QED
        BY <3>1, <3>2 DEF NewestIn
    <2>4. QED
      BY <2>2, <2>3
  <1>4. QED
    BY <1>2, <1>3

\* The grid never goes back (getLatestLivePlacementSnapshots), in whatever order the
\* rows of overlapping refreshes are stored.
THEOREM GridIsMonotone == Spec => GridNeverGoesBack
  <1>1. FreshInv /\ FreshInv' /\ [Next]_vars
          => \A g \in Regions :
                \/ Newest(g)' >= Newest(g)
                \/ Newest(g)' = 0 /\ horizon' # horizon
    <2> SUFFICES ASSUME FreshInv, FreshInv', [Next]_vars, NEW g \in Regions
                 PROVE  \/ Newest(g)' >= Newest(g)
                        \/ Newest(g)' = 0 /\ horizon' # horizon
      OBVIOUS
    <2> DEFINE bound == Len(begun')
    <2>1. /\ table \in Seq(Stored) /\ Len(table) \in Nat /\ DOMAIN table = 1..Len(table)
          /\ DOMAIN table' = 1..Len(table')
          /\ horizon \in Nat /\ horizon' \in Nat
          /\ Len(begun) \in Nat /\ bound \in Nat
          /\ \A i \in 1..Len(table) : table[i].at \in 1..Len(begun)
          /\ \A i \in 1..Len(table') : table'[i].at \in 1..bound
      BY DEF FreshInv, TableOK, ScoresGrow
    <2>2. /\ Len(begun) <= bound
          /\ \/ UNCHANGED <<table, horizon>>
             \/ table' = table /\ horizon' = horizon + 1
             \/ horizon' = horizon /\ \E row : table' = Append(table, row)
      <3>1. begun \in Seq([Regions -> Nat]) /\ azure \in [Regions -> Nat]
        BY DEF FreshInv, ScoresGrow
      <3>2. Len(begun) <= bound
        <4>1. begun' = begun \/ begun' = Append(begun, azure)
          BY DEF Next, vars, UserBegins, TickBegins, TickSkipped, TickEnds, RefreshStep, SaveStep,
                 RowsRead, NothingToAsk, RefreshFails, BatchRows, BatchSplit, SingleUnavailable,
                 RegionRows, RegionUnavailable, RegionFails, RegionMissed, Locals, SaveCommits,
                 SaveFails, AzureChanges, Age, Restart
        <4>2. QED
          BY <2>1, <3>1, <4>1
      <3>3. \/ UNCHANGED <<table, horizon>>
            \/ table' = table /\ horizon' = horizon + 1
            \/ horizon' = horizon /\ \E row : table' = Append(table, row)
        BY DEF Next, vars, UserBegins, TickBegins, TickSkipped, TickEnds, RefreshStep, SaveStep,
               RowsRead, NothingToAsk, RefreshFails, BatchRows, BatchSplit, SingleUnavailable,
               RegionRows, RegionUnavailable, RegionFails, RegionMissed, Locals, SaveCommits,
               SaveFails, AzureChanges, Age, Restart
      <3>4. QED
        BY <3>2, <3>3
    <2> HIDE DEF bound
    <2>3. /\ Newest(g) = NewestIn(table, horizon, g)
          /\ Newest(g)' = NewestIn(table', horizon', g)
      <3>1. Newest(g) = NewestIn(table, horizon, g)
        BY DEF Newest, Latest, NewestIn, Holding, HoldingIn
      <3>2. Newest(g)' = NewestIn(table', horizon', g)
        BY DEF Newest, Latest, NewestIn, Holding, HoldingIn
      <3>3. QED
        BY <3>1, <3>2
    <2>4. /\ \A i \in HoldingIn(table, horizon, g) : table[i].at \in 0..bound
          /\ \A i \in HoldingIn(table', horizon', g) : table'[i].at \in 0..bound
      <3>1. ASSUME NEW i \in HoldingIn(table, horizon, g)
            PROVE  table[i].at \in 0..bound
        <4>1. table[i].at \in 1..Len(begun)
          BY <2>1 DEF HoldingIn
        <4>2. Len(begun) \in Nat /\ bound \in Nat /\ Len(begun) <= bound
          BY <2>1, <2>2
        <4>3. QED
          BY <4>1, <4>2, WiderRange
      <3>2. ASSUME NEW i \in HoldingIn(table', horizon', g)
            PROVE  table'[i].at \in 0..bound
        <4>1. table'[i].at \in 1..bound
          BY <2>1 DEF HoldingIn
        <4>2. bound \in Nat /\ bound <= bound
          BY <2>1
        <4>3. QED
          BY <4>1, <4>2, WiderRange
      <3>3. QED
        BY <3>1, <3>2
    <2>5. \A i \in HoldingIn(table, horizon, g) :
             table[i].at > horizon' =>
                i \in HoldingIn(table', horizon', g) /\ table'[i].at = table[i].at
      <3> SUFFICES ASSUME NEW i \in HoldingIn(table, horizon, g), table[i].at > horizon'
                   PROVE  i \in HoldingIn(table', horizon', g) /\ table'[i].at = table[i].at
        OBVIOUS
      <3>1. i \in 1..Len(table) /\ g \in DOMAIN table[i].rows
        BY <2>1 DEF HoldingIn
      <3>2. i \in 1..Len(table') /\ table'[i] = table[i]
        <4>1. CASE table' = table
          BY <3>1, <4>1
        <4>2. CASE \E row : table' = Append(table, row)
          <5>1. PICK row : table' = Append(table, row)
            BY <4>2
          <5>2. table \in Seq(Stored \cup {row})
            BY <2>1
          <5>3. Len(table') = Len(table) + 1 /\ table'[i] = table[i]
            BY <3>1, <5>1, <5>2, AppendProperties
          <5>4. i \in 1..Len(table')
            BY <2>1, <3>1, <5>3
          <5>5. QED
            BY <5>3, <5>4
        <4>3. QED
          BY <2>2, <4>1, <4>2
      <3>3. i \in DOMAIN table' /\ table'[i].at > horizon'
        BY <2>1, <3>2
      <3>4. QED
        BY <3>1, <3>2, <3>3 DEF HoldingIn
    <2>6. horizon = horizon' \/ (table' = table /\ horizon <= horizon')
      <3>1. horizon' = horizon \/ (table' = table /\ horizon' = horizon + 1)
        BY <2>2
      <3>2. horizon \in Nat /\ horizon' \in Nat
        BY <2>1
      <3>3. QED
        BY <3>1, <3>2
    <2>7. \/ NewestIn(table', horizon', g) >= NewestIn(table, horizon, g)
          \/ NewestIn(table', horizon', g) = 0 /\ horizon # horizon'
      <3>1. horizon \in Nat /\ horizon' \in Nat /\ bound \in Nat
        BY <2>1
      <3>2. QED
        BY <3>1, <2>4, <2>5, <2>6, NewestGrows
    <2>8. QED
      BY <2>3, <2>7
  <1>2. QED
    BY <1>1, FreshAlways, PTL DEF Spec, GridNeverGoesBack
=============================================================================
