---------------------------- MODULE QuotaProofs ----------------------------
(***************************************************************************)
(* Proofs about the quota planner, for any candidates and requests, and    *)
(* about the application of its plans, for any number of requests.         *)
(***************************************************************************)
EXTENDS QuotaApply, QuotaPlanning, DataLemmas

(***************************************************************************)
(* Candidates and their order.                                             *)
(***************************************************************************)

CandidateType == [current : Nat, limit : Nat, state : AvailabilityStates]

LEMMA BufferType ==
    ASSUME NEW limits \in Nat
    PROVE  SafetyBuffer(limits) \in Nat /\ SafetyBuffer(limits) >= 5
  <1>1. (limits + 5) \div 10 \in Int
    OBVIOUS
  <1>2. QED
    BY <1>1 DEF SafetyBuffer, Greatest

\* What may be moved leaves the safety buffer.
LEMMA MovableLeavesBuffer ==
    ASSUME NEW c \in CandidateType
    PROVE  /\ Movable(c) \in Nat
           /\ Available(c) \in Int
           /\ Movable(c) > 0 => Available(c) - Movable(c) = SafetyBuffer(c.limit)
           /\ Movable(c) <= c.limit
  <1>1. SafetyBuffer(c.limit) \in Nat /\ c.limit \in Nat /\ c.current \in Nat
    BY BufferType DEF CandidateType
  <1>2. QED
    BY <1>1 DEF Movable, Available, Greatest

\* A recipient needs what it lacks of its buffer, whatever its state: one without
\* quota lacks all of it.
LEMMA NeedIsShortfall ==
    ASSUME NEW c \in CandidateType
    PROVE  RecipientNeed(c) = Greatest(0, SafetyBuffer(c.limit) - Available(c))
           /\ RecipientNeed(c) \in Nat
  <1>1. SafetyBuffer(c.limit) \in Nat /\ SafetyBuffer(c.limit) >= 5 /\ Available(c) \in Int
    BY BufferType, MovableLeavesBuffer DEF CandidateType
  <1>2. QED
    BY <1>1 DEF RecipientNeed, Greatest, Least

LEMMA SubsFinite == IsFiniteSet(Subs) /\ \A s \in Subs : Position(s) \in Nat /\ SubOrder[Position(s)] = s
  <1>1. SubOrder \in Seq(Subs)
    BY SubscriptionsDiffer
  <1>2. DOMAIN SubOrder = 1..Len(SubOrder) /\ Len(SubOrder) \in Nat
    BY <1>1
  <1>3. IsFiniteSet(DOMAIN SubOrder)
    BY <1>2, FS_Interval
  <1>4. IsFiniteSet({SubOrder[i] : i \in DOMAIN SubOrder})
    <2>1. SubOrder \in Surjection(DOMAIN SubOrder, {SubOrder[i] : i \in DOMAIN SubOrder})
      BY <1>1 DEF Surjection
    <2>2. QED
      BY <1>3, <2>1, FS_Surjection
  <1>5. ASSUME NEW s \in Subs PROVE Position(s) \in DOMAIN SubOrder /\ SubOrder[Position(s)] = s
    <2>1. \E i \in DOMAIN SubOrder : SubOrder[i] = s
      BY DEF Subs, ToSet
    <2>2. QED
      BY <2>1 DEF Position
  <1>6. QED
    BY <1>2, <1>4, <1>5 DEF Subs, ToSet

Needy(scope) == {s \in Subs : RecipientNeed(scope[s]) > 0}

Before(scope) == {p \in Subs \X Subs : ServedBefore(scope, p[1], p[2])}

LEMMA ServedBeforeOrders ==
    ASSUME NEW scope \in [Subs -> CandidateType]
    PROVE  TotallyOrders(Before(scope), Needy(scope))
           /\ \A s \in Subs : <<s, s>> \notin Before(scope)
  <1> DEFINE rank == [s \in Subs |-> AvailabilityRank(scope[s].state)]
             need == [s \in Subs |-> RecipientNeed(scope[s])]
             position == [s \in Subs |-> Position(s)]
  <1>1. \A s \in Subs : rank[s] \in Nat /\ need[s] \in Nat /\ position[s] \in Nat
    BY SubsFinite, NeedIsShortfall DEF AvailabilityRank
  <1>2. \A r, s \in Subs : r # s => position[r] # position[s]
    BY SubsFinite
  <1>3. \A r, s \in Subs : <<r, s>> \in Before(scope) <=>
           \/ rank[r] < rank[s]
           \/ rank[r] = rank[s] /\ need[r] > need[s]
           \/ rank[r] = rank[s] /\ need[r] = need[s] /\ position[r] < position[s]
    BY DEF Before, ServedBefore
  <1> HIDE DEF rank, need, position
  <1>4. \A r, s \in Subs : r # s => <<r, s>> \in Before(scope) \/ <<s, r>> \in Before(scope)
    BY <1>1, <1>2, <1>3
  <1>5. \A r, s, t \in Subs : <<r, s>> \in Before(scope) /\ <<s, t>> \in Before(scope)
                                => <<r, t>> \in Before(scope)
    BY <1>1, <1>3
  <1>6. \A s \in Subs : <<s, s>> \notin Before(scope)
    BY <1>1, <1>3
  <1>7. QED
    BY <1>4, <1>5, <1>6 DEF TotallyOrders, Needy

\* The recipients are the needy, each once, in the order in which they are served.
LEMMA RecipientsSorted ==
    ASSUME NEW scope \in [Subs -> CandidateType]
    PROVE  Sorts(Recipients(scope), Needy(scope), Before(scope))
  <1>1. IsFiniteSet(Needy(scope))
    BY SubsFinite, FS_Subset DEF Needy
  <1>2. PICK order : Sorts(order, Needy(scope), Before(scope))
    BY <1>1, ServedBeforeOrders, OrderExists
  <1> DEFINE n == Cardinality(Needy(scope))
             IsOrder(o) == /\ o \in [1..n -> Needy(scope)]
                           /\ \A i, j \in DOMAIN o : i < j => ServedBefore(scope, o[i], o[j])
  <1>3. ASSUME NEW o PROVE IsOrder(o) <=> Sorts(o, Needy(scope), Before(scope))
    <2>1. SUFFICES ASSUME o \in [1..n -> Needy(scope)]
                   PROVE  IsOrder(o) <=> Sorts(o, Needy(scope), Before(scope))
      BY DEF Sorts
    <2>2. DOMAIN o = 1..n /\ \A i \in 1..n : o[i] \in Subs
      BY <2>1 DEF Needy
    <2>3. \A i, j \in 1..n : ServedBefore(scope, o[i], o[j]) <=> <<o[i], o[j]>> \in Before(scope)
      BY <2>2 DEF Before
    <2>4. QED
      BY <2>1, <2>2, <2>3 DEF Sorts
  <1>4. Recipients(scope) = CHOOSE o : IsOrder(o)
    BY DEF Recipients, Needy
  <1>5. IsOrder(Recipients(scope))
    <2>1. \E o : IsOrder(o)
      BY <1>2, <1>3
    <2> HIDE DEF IsOrder
    <2>2. QED
      BY <1>4, <2>1
  <1>6. QED
    BY <1>3, <1>5

(***************************************************************************)
(* The change that a plan makes.                                           *)
(***************************************************************************)

\* What one row changes for a subscription in a scope.
Gain(r, name, s) ==
    IF r.scope # name THEN 0
    ELSE IF r.donor = s THEN -r.amount
    ELSE IF r.recipient = s THEN r.amount ELSE 0

LEMMA DeltaOfNone == \A name, s : Delta(<<>>, name, s) = 0
  <1>1. ASSUME NEW name, NEW s PROVE Delta(<<>>, name, s) = 0
    <2> DEFINE f == [i \in DOMAIN <<>> |-> Gain(<<>>[i], name, s)]
    <2>1. f \in [{} -> Int] /\ IsFiniteSet({})
      BY FS_EmptySet
    <2>2. Delta(<<>>, name, s) = SumFunction(f)
      BY DEF Delta, Gain
    <2> HIDE DEF f
    <2>3. QED
      BY <2>1, <2>2, SumLaws
  <1>2. QED
    BY <1>1

LEMMA DeltaOfAppend ==
    ASSUME NEW Rows, \A r \in Rows : r.amount \in Int,
           NEW rows \in Seq(Rows), NEW r \in Rows, NEW name, NEW s
    PROVE  /\ Delta(rows, name, s) \in Int
           /\ Delta(Append(rows, r), name, s) = Delta(rows, name, s) + Gain(r, name, s)
  <1> DEFINE all == Append(rows, r)
             n == Len(rows)
             f == [i \in 1..(n + 1) |-> Gain(all[i], name, s)]
             g == [i \in 1..n |-> Gain(rows[i], name, s)]
  <1>1. n \in Nat /\ all \in Seq(Rows) /\ Len(all) = n + 1 /\ all[n + 1] = r
        /\ DOMAIN rows = 1..n /\ DOMAIN all = 1..(n + 1) /\ \A i \in 1..n : all[i] = rows[i]
    OBVIOUS
  <1>2. /\ Delta(all, name, s) = SumFunction(f)
        /\ Delta(rows, name, s) = SumFunction(g)
    <2> HIDE DEF all, n
    <2>1. QED
      BY <1>1 DEF Delta, Gain
  <1>3. \A x \in Rows : Gain(x, name, s) \in Int
    BY DEF Gain
  <1> HIDE DEF all, n
  <1>4. (\A i \in 1..(n + 1) : all[i] \in Rows) /\ (\A i \in 1..n : rows[i] \in Rows)
    BY <1>1
  <1>5. f \in [1..(n + 1) -> Int] /\ g \in [1..n -> Int] /\ f[n + 1] = Gain(r, name, s)
    BY <1>1, <1>3, <1>4
  <1>6. Restrict(f, (1..(n + 1)) \ {n + 1}) = g
    <2>1. (1..(n + 1)) \ {n + 1} = 1..n /\ \A i \in 1..n : f[i] = g[i]
      BY <1>1
    <2>2. QED
      BY <2>1 DEF Restrict
  <1>7. IsFiniteSet(1..(n + 1)) /\ IsFiniteSet(1..n) /\ n + 1 \in 1..(n + 1)
    <2>1. 1 \in Int /\ n \in Int /\ n + 1 \in Int /\ n + 1 \in 1..(n + 1)
      BY <1>1
    <2>2. QED
      BY <2>1, FS_Interval, Zenon
  <1> HIDE DEF f, g
  <1>8. SumFunction(g) \in Int
    BY <1>5, <1>7, SumLaws
  <1>9. SumFunction(f) = Gain(r, name, s) + SumFunction(g)
    <2>1. SumFunction(f) = f[n + 1] + SumFunction(Restrict(f, (1..(n + 1)) \ {n + 1}))
      BY <1>5, <1>7, SumLaws
    <2>2. QED
      BY <1>5, <1>6, <2>1, Zenon
  <1>10. Gain(r, name, s) \in Int
    BY <1>3
  <1>11. QED
    BY <1>2, <1>8, <1>9, <1>10 DEF all

(***************************************************************************)
(* The rows of a scope.                                                    *)
(***************************************************************************)

\* The rows that a plan may have for a donor in a scope.
RowsFrom(name, scope, donor) ==
    {r \in [scope : {name}, donor : {donor}, recipient : Subs,
            amount : Nat \ {0}, proposed : Nat] :
        /\ r.amount <= Movable(scope[donor])
        /\ r.proposed = ProposedLimit(scope[donor], r.amount)}

\* A recipient has its need, as far as the donor has quota left.
LEMMA RowIsFrom ==
    ASSUME NEW name, NEW scope \in [Subs -> CandidateType], NEW donor \in Subs,
           NEW recipient \in Subs, NEW amount \in Nat \ {0},
           amount <= Movable(scope[donor])
    PROVE  /\ PlanRow(name, scope, donor, recipient, amount) \in RowsFrom(name, scope, donor)
           /\ ProposedLimit(scope[donor], amount)
                >= scope[donor].current + SafetyBuffer(scope[donor].limit)
  <1>1. scope[donor] \in CandidateType
    OBVIOUS
  <1>2. scope[donor].limit \in Nat /\ scope[donor].current \in Nat
    BY <1>1 DEF CandidateType
  <1>3. SafetyBuffer(scope[donor].limit) \in Nat
    BY <1>2, BufferType
  <1>4. Movable(scope[donor]) \in Nat /\ Movable(scope[donor]) <= scope[donor].limit
        /\ Available(scope[donor]) - Movable(scope[donor]) = SafetyBuffer(scope[donor].limit)
    BY <1>1, MovableLeavesBuffer
  <1>5. ProposedLimit(scope[donor], amount) = scope[donor].limit - amount
    BY <1>2, <1>4 DEF ProposedLimit, Greatest
  <1>6. ProposedLimit(scope[donor], amount) \in Nat
    BY <1>2, <1>4, <1>5
  <1>7. PlanRow(name, scope, donor, recipient, amount) \in RowsFrom(name, scope, donor)
    BY <1>6 DEF PlanRow, RowsFrom
  <1>8. QED
    BY <1>2, <1>3, <1>4, <1>5, <1>7 DEF Available

\* A plan row leaves the donor its buffer, as the run knew it.
LEMMA RowsKeepBuffer ==
    ASSUME NEW name, NEW scope \in [Subs -> CandidateType], NEW donor \in Subs,
           NEW r \in RowsFrom(name, scope, donor)
    PROVE  r.proposed >= scope[donor].current + SafetyBuffer(scope[donor].limit)
  <1>1. r.amount \in Nat \ {0} /\ r.amount <= Movable(scope[donor])
        /\ r.proposed = ProposedLimit(scope[donor], r.amount)
    BY DEF RowsFrom
  <1>2. QED
    BY <1>1, RowIsFrom

\* What is left of a donor's movable quota, and the rows so far.
Progress(name, scope, donor) ==
    [left : 0..Movable(scope[donor]), rows : Seq(RowsFrom(name, scope, donor))]

\* A recipient is served, or nothing happens.
ServedOrNot(name, scope, donor, recipient, d) ==
    LET amount == Least(d.left, RecipientNeed(scope[recipient]))
        after == Served(name, scope, donor, recipient, d)
    IN  /\ after \in Progress(name, scope, donor)
        /\ amount \in Nat
        /\ recipient = donor \/ amount = 0 => after = d
        /\ recipient # donor /\ amount > 0 =>
              after = [left |-> d.left - amount,
                       rows |-> Append(d.rows, PlanRow(name, scope, donor, recipient, amount))]

LEMMA ServedType ==
    ASSUME NEW name, NEW scope \in [Subs -> CandidateType], NEW donor \in Subs,
           NEW recipient \in Subs, NEW d \in Progress(name, scope, donor)
    PROVE  ServedOrNot(name, scope, donor, recipient, d)
  <1> DEFINE amount == Least(d.left, RecipientNeed(scope[recipient]))
             r == PlanRow(name, scope, donor, recipient, amount)
  <1>1. Movable(scope[donor]) \in Nat /\ d.left \in 0..Movable(scope[donor])
        /\ d.rows \in Seq(RowsFrom(name, scope, donor))
    BY MovableLeavesBuffer DEF Progress
  <1>2. amount \in Nat /\ amount <= d.left
    BY <1>1, NeedIsShortfall DEF Least
  <1>3. CASE recipient = donor \/ amount <= 0
    BY <1>2, <1>3 DEF Served, ServedOrNot
  <1>4. CASE recipient # donor /\ amount > 0
    <2>1. amount \in Nat \ {0} /\ amount <= Movable(scope[donor])
      BY <1>1, <1>2, <1>4
    <2>2. r \in RowsFrom(name, scope, donor)
      BY <2>1, RowIsFrom
    <2>3. Served(name, scope, donor, recipient, d)
            = [left |-> d.left - amount, rows |-> Append(d.rows, r)]
      BY <1>2, <1>4 DEF Served
    <2>4. d.left - amount \in 0..Movable(scope[donor])
      BY <1>1, <1>2
    <2> HIDE DEF r, amount
    <2>5. Append(d.rows, r) \in Seq(RowsFrom(name, scope, donor))
      BY <1>1, <2>2
    <2>6. [left |-> d.left - amount, rows |-> Append(d.rows, r)] \in Progress(name, scope, donor)
      BY <2>4, <2>5 DEF Progress
    <2>7. QED
      BY <1>2, <1>4, <2>3, <2>6 DEF r, amount, ServedOrNot
  <1>5. QED
    BY <1>2, <1>3, <1>4

\* The progress of PlanScope, recipient by recipient.
Planning(done, name, scope, donor) ==
    LET order == Recipients(scope)
        n == Cardinality(Needy(scope))
    IN  /\ done \in [0..n -> Progress(name, scope, donor)]
        /\ done[0] = [left |-> Movable(scope[donor]), rows |-> <<>>]
        /\ \A i \in 1..n : done[i] = Served(name, scope, donor, order[i], done[i - 1])
        /\ PlanScope(name, scope, donor) = done[n].rows

LEMMA PlanScopeSteps ==
    ASSUME NEW name, NEW scope \in [Subs -> CandidateType], NEW donor \in Subs
    PROVE  /\ Cardinality(Needy(scope)) \in Nat
           /\ \E done : Planning(done, name, scope, donor)
  <1> DEFINE order == Recipients(scope)
             n == Cardinality(Needy(scope))
             T == Progress(name, scope, donor)
             first == [left |-> Movable(scope[donor]), rows |-> <<>>]
             IsDone(done) == done = [i \in 0..Len(order) |->
                               IF i = 0 THEN first
                               ELSE Served(name, scope, donor, order[i], done[i - 1])]
             Serve == [i \in 1..n |-> [d \in T |-> Served(name, scope, donor, order[i], d)]]
  <1>1. n \in Nat
    BY SubsFinite, FS_Subset, FS_CardinalityType DEF Needy
  <1>2. order \in [1..n -> Needy(scope)] /\ \A i \in 1..n : order[i] \in Subs
    BY RecipientsSorted DEF Sorts, Needy
  <1>3. Len(order) = n
    <2> HIDE DEF order, n
    <2>1. order \in Seq(Needy(scope)) /\ DOMAIN order = 1..n
      BY <1>1, <1>2
    <2>2. QED
      BY <1>1, <2>1
  <1>4. first \in T
    BY MovableLeavesBuffer DEF Progress
  <1>5. Serve \in [1..n -> [T -> T]]
    <2>1. \A i \in 1..n, d \in T : Served(name, scope, donor, order[i], d) \in T
      BY <1>2, ServedType DEF ServedOrNot
    <2>2. QED
      BY <2>1
  <1>6. \A i \in 1..n, d \in T : Serve[i][d] = Served(name, scope, donor, order[i], d)
    OBVIOUS
  <1> HIDE DEF order, n, T, first, Serve
  <1>7. PICK rec : IsRecursive(rec, T, first, n, Serve)
    BY <1>1, <1>4, <1>5, RecursionExists, Zenon
  <1>8. /\ rec \in [0..n -> T] /\ rec[0] = first
        /\ \A i \in 1..n : rec[i - 1] \in T /\ rec[i] = Served(name, scope, donor, order[i], rec[i - 1])
    <2>1. rec \in [0..n -> T] /\ rec[0] = first /\ \A i \in 1..n : rec[i] = Serve[i][rec[i - 1]]
      BY <1>7 DEF IsRecursive
    <2>2. \A i \in 1..n : i - 1 \in 0..n
      BY <1>1
    <2>3. QED
      BY <1>6, <2>1, <2>2
  <1>9. IsDone(rec)
    <2>1. ASSUME NEW i \in 0..n
          PROVE  rec[i] = IF i = 0 THEN first ELSE Served(name, scope, donor, order[i], rec[i - 1])
      BY <1>1, <1>8
    <2>2. DOMAIN rec = 0..n /\ rec = [i \in 0..n |-> rec[i]]
      BY <1>8
    <2>3. QED
      BY <1>3, <2>1, <2>2
  <1> DEFINE done == CHOOSE d : IsDone(d)
  <1>10. IsDone(done)
    <2> HIDE DEF IsDone
    <2>1. QED
      BY <1>9
  <1>11. PlanScope(name, scope, donor) = done[n].rows
    BY <1>3 DEF PlanScope, order, first
  <1> HIDE DEF done
  <1>12. /\ DOMAIN done = 0..n /\ done[0] = first
         /\ \A i \in 1..n : done[i] = Served(name, scope, donor, order[i], done[i - 1])
    <2>1. \A i \in 1..n : i \in 0..n /\ i # 0
      BY <1>1
    <2>2. 0 \in 0..n
      BY <1>1
    <2>3. QED
      BY <1>3, <1>10, <2>1, <2>2
  <1> DEFINE typed == {i \in 0..n : done[i] \in T}
  <1>13. 0 \in typed
    BY <1>1, <1>4, <1>12
  <1>14. ASSUME NEW i \in 0..n, i \in typed, i < n PROVE i + 1 \in typed
    <2>1. i + 1 \in 1..n /\ i + 1 \in 0..n /\ (i + 1) - 1 = i
      BY <1>1, <1>14
    <2>2. done[i + 1] = Served(name, scope, donor, order[i + 1], done[i])
      BY <1>12, <2>1
    <2>3. done[i] \in T /\ order[i + 1] \in Subs
      BY <1>2, <1>14, <2>1
    <2>4. done[i + 1] \in T
      <3> DEFINE d == done[i]
                 s == order[i + 1]
      <3>1. d \in Progress(name, scope, donor) /\ s \in Subs
        BY <2>3 DEF T
      <3> HIDE DEF d, s
      <3>2. Served(name, scope, donor, s, d) \in Progress(name, scope, donor)
        BY <3>1, ServedType DEF ServedOrNot
      <3>3. QED
        BY <2>2, <3>2 DEF d, s, T
    <2>5. QED
      BY <2>1, <2>4
  <1>15. \A i \in 0..n : i \in typed
    <2> HIDE DEF typed
    <2>1. QED
      BY <1>1, <1>13, <1>14, IntervalFollows
  <1>16. done \in [0..n -> T]
    BY <1>12, <1>15, <1>10, <1>3
  <1>17. Planning(done, name, scope, donor)
    BY <1>11, <1>12, <1>16 DEF Planning, order, n, T, first
  <1>18. QED
    BY <1>1, <1>17 DEF n

LEMMA PlanScopeType ==
    ASSUME NEW name, NEW scope \in [Subs -> CandidateType], NEW donor \in Subs
    PROVE  PlanScope(name, scope, donor) \in Seq(RowsFrom(name, scope, donor))
  <1>1. PICK done : Planning(done, name, scope, donor)
    BY PlanScopeSteps
  <1>2. Cardinality(Needy(scope)) \in 0..Cardinality(Needy(scope))
    BY PlanScopeSteps
  <1>3. QED
    BY <1>1, <1>2 DEF Planning, Progress

(***************************************************************************)
(* Who is served.                                                          *)
(***************************************************************************)

\* What serving a recipient changes.
LEMMA ServedChanges ==
    ASSUME NEW name, NEW scope \in [Subs -> CandidateType], NEW donor \in Subs,
           NEW recipient \in Subs, NEW d \in Progress(name, scope, donor)
    PROVE  LET amount == IF recipient = donor THEN 0
                         ELSE Least(d.left, RecipientNeed(scope[recipient]))
               after == Served(name, scope, donor, recipient, d)
           IN  /\ after.left = d.left - amount
               /\ \A s \in Subs :
                     /\ Delta(d.rows, name, s) \in Int
                     /\ Delta(after.rows, name, s) = Delta(d.rows, name, s)
                          + (IF s = donor THEN -amount ELSE IF s = recipient THEN amount ELSE 0)
  <1> DEFINE a == Least(d.left, RecipientNeed(scope[recipient]))
             r == PlanRow(name, scope, donor, recipient, a)
             after == Served(name, scope, donor, recipient, d)
  <1>1. /\ \/ (recipient = donor \/ a = 0) /\ after = d
           \/ recipient # donor /\ a > 0
              /\ after = [left |-> d.left - a, rows |-> Append(d.rows, r)]
        /\ a \in Nat
    <2>1. ServedOrNot(name, scope, donor, recipient, d)
      BY ServedType
    <2>2. a \in Nat /\ (recipient = donor \/ a = 0 => after = d)
      BY <2>1 DEF ServedOrNot
    <2>3. recipient # donor /\ a > 0 => after = [left |-> d.left - a, rows |-> Append(d.rows, r)]
      BY <2>1 DEF ServedOrNot
    <2> HIDE DEF a, after, r
    <2>4. a = 0 \/ a > 0
      BY <2>2
    <2>5. QED
      BY <2>2, <2>3, <2>4
  <1>2. d.rows \in Seq(RowsFrom(name, scope, donor)) /\ d.left \in Nat
    BY MovableLeavesBuffer DEF Progress
  <1>3. \A x \in RowsFrom(name, scope, donor) : x.amount \in Int
    BY DEF RowsFrom
  <1>4. \A s \in Subs : Delta(d.rows, name, s) \in Int
    <2>1. scope[donor] \in CandidateType
      OBVIOUS
    <2>2. ASSUME NEW s \in Subs PROVE Delta(d.rows, name, s) \in Int
      <3> DEFINE rows == d.rows
      <3>1. PICK Rows : Rows = {x \in [amount : Int] : TRUE} \cup RowsFrom(name, scope, donor)
        OBVIOUS
      <3>2. (\A x \in Rows : x.amount \in Int) /\ [amount |-> 0] \in Rows
        BY <1>3, <3>1
      <3>3. rows \in Seq(Rows)
        BY <1>2, <3>1
      <3> HIDE DEF rows
      <3>4. Delta(rows, name, s) \in Int
        BY <3>2, <3>3, DeltaOfAppend
      <3>5. QED
        BY <3>4 DEF rows
    <2>3. QED
      BY <2>2
  <1> HIDE DEF a, r, after
  <1>5. CASE (recipient = donor \/ a = 0) /\ after = d
    <2>1. after.left = d.left - (IF recipient = donor THEN 0 ELSE a)
      BY <1>2, <1>5
    <2>2. ASSUME NEW s \in Subs
          PROVE  Delta(after.rows, name, s) = Delta(d.rows, name, s)
                   + (IF s = donor THEN -(IF recipient = donor THEN 0 ELSE a)
                      ELSE IF s = recipient THEN IF recipient = donor THEN 0 ELSE a ELSE 0)
      BY <1>4, <1>5
    <2>3. QED
      BY <1>4, <2>1, <2>2 DEF after, a
  <1>6. CASE recipient # donor /\ a > 0 /\ after = [left |-> d.left - a, rows |-> Append(d.rows, r)]
    <2>1. r \in RowsFrom(name, scope, donor) /\ r.scope = name /\ r.donor = donor
          /\ r.recipient = recipient /\ r.amount = a
      <3>1. a \in Nat \ {0} /\ a <= Movable(scope[donor])
        BY <1>1, <1>2, <1>6, MovableLeavesBuffer, NeedIsShortfall DEF a, Least, Progress
      <3>2. QED
        BY <3>1, RowIsFrom DEF r, PlanRow
    <2>2. \A s \in Subs : Delta(Append(d.rows, r), name, s) = Delta(d.rows, name, s) + Gain(r, name, s)
      BY <1>2, <1>3, <2>1, DeltaOfAppend
    <2>3. \A s \in Subs : Gain(r, name, s) = IF s = donor THEN -a ELSE IF s = recipient THEN a ELSE 0
      BY <2>1 DEF Gain
    <2>4. after.rows = Append(d.rows, r) /\ after.left = d.left - a
      BY <1>6
    <2>5. QED
      BY <1>4, <1>6, <2>2, <2>3, <2>4 DEF after, a
  <1>7. QED
    BY <1>1, <1>5, <1>6

\* Subscriptions are served in their order, up to the i-th: "change" is what each of
\* them has had, the donor's with a minus sign.
InTurn(i, change, left, total, need, order, before, donor) ==
    /\ change[donor] = left - total
    /\ \A s \in Subs \ {donor} : change[s] \in 0..need[s]
    /\ \A s \in Subs \ {donor} : change[s] > 0 => \E j \in 1..i : order[j] = s
    /\ left > 0 => \A j \in 1..i : order[j] # donor => change[order[j]] = need[order[j]]
    /\ \A r, s \in Subs \ {donor} : change[s] > 0 /\ <<r, s>> \in before => change[r] = need[r]

\* The order names every needy subscription once, the ones to be served first before
\* the others.
Covers(order, n, need, before) ==
    /\ order \in [1..n -> Subs]
    /\ \A i, j \in 1..n : order[i] = order[j] => i = j
    /\ \A s \in Subs : need[s] > 0 => \E j \in 1..n : order[j] = s
    /\ \A i, j \in 1..n : <<order[i], order[j]>> \in before => i < j

\* The i-th recipient takes what it needs of what is left, or all that is left: its
\* number rises by the amount, the donor's falls by it, and no other changes.
ServesNext(n, i, donor, change, after, left, total, need, order, before, amount) ==
    /\ n \in Nat /\ i \in 1..n /\ donor \in Subs /\ left \in Nat /\ total \in Nat
    /\ change \in [Subs -> Int] /\ after \in [Subs -> Int] /\ need \in [Subs -> Nat]
    /\ Covers(order, n, need, before)
    /\ InTurn(i - 1, change, left, total, need, order, before, donor)
    /\ amount = IF order[i] = donor THEN 0
                ELSE IF left < need[order[i]] THEN left ELSE need[order[i]]
    /\ \A s \in Subs : after[s] = change[s] + (IF s = donor THEN -amount
                                                ELSE IF s = order[i] THEN amount ELSE 0)

LEMMA NextInTurn ==
    ASSUME NEW n, NEW i, NEW donor, NEW change, NEW after, NEW left, NEW total, NEW need,
           NEW order, NEW before, NEW amount,
           ServesNext(n, i, donor, change, after, left, total, need, order, before, amount)
    PROVE  InTurn(i, after, left - amount, total, need, order, before, donor)
  <1> DEFINE next == order[i]
  <1>1. /\ n \in Nat /\ i \in 1..n /\ donor \in Subs /\ left \in Nat /\ total \in Nat
        /\ change \in [Subs -> Int] /\ after \in [Subs -> Int] /\ need \in [Subs -> Nat]
        /\ amount = IF next = donor THEN 0 ELSE IF left < need[next] THEN left ELSE need[next]
        /\ \A s \in Subs : after[s] = change[s] + (IF s = donor THEN -amount
                                                    ELSE IF s = next THEN amount ELSE 0)
    BY DEF ServesNext
  <1>2. /\ \A j \in 1..n : order[j] \in Subs
        /\ \A j \in 1..n : order[j] = next => j = i
        /\ \A s \in Subs : need[s] > 0 => \E j \in 1..n : order[j] = s
        /\ \A j \in 1..n : <<order[j], next>> \in before => j < i
    BY <1>1 DEF ServesNext, Covers
  <1>3. /\ change[donor] = left - total
        /\ \A s \in Subs \ {donor} : change[s] \in 0..need[s]
        /\ \A s \in Subs \ {donor} : change[s] > 0 => \E j \in 1..(i - 1) : order[j] = s
        /\ left > 0 => \A j \in 1..(i - 1) : order[j] # donor => change[order[j]] = need[order[j]]
        /\ \A r, s \in Subs \ {donor} : change[s] > 0 /\ <<r, s>> \in before => change[r] = need[r]
    BY DEF ServesNext, InTurn
  <1>4. next \in Subs /\ need[next] \in Nat
    BY <1>1, <1>2
  <1>5. \A j \in 1..(i - 1) : j \in 1..n /\ j \in 1..i /\ j # i
    BY <1>1
  <1>6. \A j \in 1..(i - 1) : j \in 1..n /\ j \in 1..i /\ order[j] \in Subs /\ order[j] # next
    BY <1>2, <1>5, Zenon
  <1> HIDE DEF next
  <1>7. amount \in Nat /\ amount <= left /\ (next # donor => amount <= need[next])
        /\ (next # donor /\ left - amount > 0 => amount = need[next])
    BY <1>1, <1>4
  <1>8. after[donor] = (left - amount) - total
    <2>1. after[donor] = change[donor] - amount
      BY <1>1, <1>7
    <2>2. QED
      BY <1>1, <1>3, <1>7, <2>1
  <1>9. ASSUME NEW s \in Subs \ {donor}, s # next PROVE after[s] = change[s]
    <2>1. after[s] = change[s] + 0 /\ change[s] \in Int
      BY <1>1, <1>9
    <2>2. QED
      BY <2>1
  <1>10. ASSUME next # donor PROVE after[next] = amount
    <2>1. ~ (change[next] > 0)
      BY <1>3, <1>4, <1>6, <1>10
    <2>2. change[next] \in 0..need[next]
      BY <1>3, <1>4, <1>10
    <2>3. change[next] = 0
      BY <1>4, <2>1, <2>2
    <2>4. after[next] = change[next] + amount
      BY <1>1, <1>4, <1>10
    <2>5. QED
      BY <1>7, <2>3, <2>4
  <1>11. ASSUME NEW s \in Subs \ {donor} PROVE after[s] \in 0..need[s]
    <2>1. CASE s = next
      <3>1. after[s] = amount /\ amount \in Nat /\ amount <= need[s] /\ need[s] \in Nat
        BY <1>4, <1>7, <1>10, <2>1
      <3>2. QED
        BY <3>1
    <2>2. CASE s # next
      BY <1>3, <1>9, <2>2
    <2>3. QED
      BY <2>1, <2>2
  <1>12. ASSUME NEW s \in Subs \ {donor}, after[s] > 0 PROVE \E j \in 1..i : order[j] = s
    <2>1. CASE s = next
      <3>1. i \in 1..i
        BY <1>1
      <3>2. QED
        BY <2>1, <3>1 DEF next
    <2>2. CASE s # next
      <3>1. PICK j \in 1..(i - 1) : order[j] = s
        BY <1>3, <1>9, <1>12, <2>2
      <3>2. QED
        BY <1>6, <3>1
    <2>3. QED
      BY <2>1, <2>2
  <1>13. ASSUME left - amount > 0, NEW j \in 1..i, order[j] # donor
         PROVE  after[order[j]] = need[order[j]]
    <2>1. CASE j = i
      <3>1. order[j] = next
        BY <2>1 DEF next
      <3>2. QED
        BY <1>7, <1>10, <1>13, <3>1
    <2>2. CASE j # i
      <3>1. j \in 1..(i - 1)
        BY <1>1, <2>2
      <3>2. left > 0
        BY <1>1, <1>7, <1>13
      <3>3. change[order[j]] = need[order[j]]
        BY <1>3, <1>13, <3>1, <3>2
      <3>4. order[j] \in Subs \ {donor} /\ order[j] # next
        BY <1>6, <1>13, <3>1
      <3>5. QED
        BY <1>9, <3>3, <3>4
    <2>3. QED
      BY <2>1, <2>2
  <1>14. ASSUME NEW r \in Subs \ {donor}, NEW s \in Subs \ {donor}, after[s] > 0, <<r, s>> \in before
         PROVE  after[r] = need[r]
    <2>1. CASE need[r] = 0
      <3>1. after[r] \in 0..0
        BY <1>11, <2>1
      <3>2. QED
        BY <2>1, <3>1
    <2>2. CASE need[r] # 0 /\ s = next
      <3>1. need[r] > 0
        BY <1>1, <2>2
      <3>2. PICK j \in 1..n : order[j] = r
        BY <1>2, <3>1
      <3>3. j < i
        BY <1>2, <1>14, <2>2, <3>2
      <3>4. j \in 1..(i - 1)
        BY <1>1, <3>3
      <3>5. left > 0
        <4>1. after[s] = amount
          BY <1>10, <2>2
        <4>2. QED
          BY <1>1, <1>7, <1>14, <4>1
      <3>6. order[j] # donor /\ order[j] # next
        BY <1>6, <3>2, <3>4
      <3>7. change[order[j]] = need[order[j]]
        BY <1>3, <3>4, <3>5, <3>6
      <3>8. QED
        BY <1>9, <3>2, <3>6, <3>7
    <2>3. CASE need[r] # 0 /\ s # next
      <3>1. change[s] > 0
        BY <1>9, <1>14, <2>3
      <3>2. change[r] = need[r]
        BY <1>3, <1>14, <3>1
      <3>3. need[r] > 0
        BY <1>1, <2>3
      <3>4. PICK k \in 1..(i - 1) : order[k] = r
        BY <1>3, <3>2, <3>3
      <3>5. r # next
        BY <1>6, <3>4
      <3>6. QED
        BY <1>9, <3>2, <3>5
    <2>4. QED
      BY <2>1, <2>2, <2>3
  <1>15. QED
    BY <1>8, <1>11, <1>12, <1>13, <1>14 DEF InTurn

\* What a plan changes for the subscriptions in its scope.
Changes(rows, name) == [s \in Subs |-> Delta(rows, name, s)]
Needs(scope) == [s \in Subs |-> RecipientNeed(scope[s])]

LEMMA RecipientsCover ==
    ASSUME NEW scope \in [Subs -> CandidateType]
    PROVE  Covers(Recipients(scope), Cardinality(Needy(scope)), Needs(scope), Before(scope))
           /\ Needs(scope) \in [Subs -> Nat]
  <1> DEFINE order == Recipients(scope)
             needy == Needy(scope)
             n == Cardinality(needy)
             before == Before(scope)
  <1>0. IsFiniteSet(needy) /\ n \in Nat /\ needy \in SUBSET Subs
    BY SubsFinite, FS_Subset, FS_CardinalityType DEF Needy
  <1>1. /\ order \in [1..n -> needy]
        /\ \A i, j \in 1..n : i < j => <<order[i], order[j]>> \in before
    BY RecipientsSorted DEF Sorts
  <1>2. /\ \A s \in Subs : <<s, s>> \notin before
        /\ \A x, y, z \in needy : <<x, y>> \in before /\ <<y, z>> \in before => <<x, z>> \in before
    BY ServedBeforeOrders DEF TotallyOrders
  <1>3. \A s \in Subs : Needs(scope)[s] \in Nat /\ (Needs(scope)[s] > 0 <=> s \in needy)
    BY NeedIsShortfall DEF Needs, Needy
  <1> HIDE DEF order, needy, n, before
  <1>4. \A i \in 1..n : order[i] \in needy /\ order[i] \in Subs
    BY <1>0, <1>1
  <1>5. ASSUME NEW i \in 1..n, NEW j \in 1..n, order[i] = order[j] PROVE i = j
    <2>1. ~ (i < j) /\ ~ (j < i)
      BY <1>1, <1>2, <1>4, <1>5
    <2>2. QED
      BY <1>0, <2>1
  <1>6. ASSUME NEW i \in 1..n, NEW j \in 1..n, <<order[i], order[j]>> \in before PROVE i < j
    <2>1. i # j
      BY <1>2, <1>4, <1>6
    <2>2. ~ (j < i)
      <3>1. SUFFICES ASSUME j < i PROVE FALSE
        OBVIOUS
      <3>2. <<order[j], order[i]>> \in before
        BY <1>1, <3>1
      <3>3. <<order[i], order[i]>> \in before
        BY <1>2, <1>4, <1>6, <3>2
      <3>4. QED
        BY <1>2, <1>4, <3>3
    <2>3. QED
      BY <1>0, <2>1, <2>2
  <1>7. order \in Injection(1..n, needy)
    BY <1>1, <1>5 DEF Injection, IsInjective
  <1>8. Cardinality(1..n) = n
    <2>1. 1 \in Int /\ n \in Int
      BY <1>0
    <2>2. Cardinality(1..n) = IF 1 > n THEN 0 ELSE n - 1 + 1
      BY <2>1, FS_Interval
    <2>3. QED
      BY <1>0, <2>2
  <1>9. order \in Surjection(1..n, needy)
    BY <1>0, <1>7, <1>8, FS_Injection DEF n
  <1>10. \A s \in needy : \E j \in 1..n : order[j] = s
    BY <1>9 DEF Surjection
  <1>11. order \in [1..n -> Subs]
    BY <1>1, <1>4
  <1>12. Covers(order, n, Needs(scope), before)
    BY <1>3, <1>5, <1>6, <1>10, <1>11 DEF Covers
  <1>13. Needs(scope) \in [Subs -> Nat]
    BY <1>3 DEF Needs
  <1>14. QED
    BY <1>12, <1>13 DEF order, n, needy, before

\* The rows of a scope serve its recipients in turn, and take no more from the donor
\* than may be moved.
LEMMA PlanScopeInTurn ==
    ASSUME NEW name, NEW scope \in [Subs -> CandidateType], NEW donor \in Subs
    PROVE  \E left \in 0..Movable(scope[donor]) :
              InTurn(Cardinality(Needy(scope)), Changes(PlanScope(name, scope, donor), name),
                     left, Movable(scope[donor]), Needs(scope), Recipients(scope),
                     Before(scope), donor)
  <1> DEFINE order == Recipients(scope)
             n == Cardinality(Needy(scope))
             before == Before(scope)
             need == Needs(scope)
             total == Movable(scope[donor])
             T == Progress(name, scope, donor)
             Turn(i, d) == InTurn(i, Changes(d.rows, name), d.left, total, need, order, before, donor)
  <1>1. PICK done : Planning(done, name, scope, donor)
    BY PlanScopeSteps
  <1>2. /\ done \in [0..n -> T]
        /\ done[0] = [left |-> total, rows |-> <<>>]
        /\ \A i \in 1..n : done[i] = Served(name, scope, donor, order[i], done[i - 1])
        /\ PlanScope(name, scope, donor) = done[n].rows
    BY <1>1 DEF Planning
  <1>3. n \in Nat /\ total \in Nat /\ need \in [Subs -> Nat] /\ Covers(order, n, need, before)
    BY PlanScopeSteps, MovableLeavesBuffer, RecipientsCover
  <1>4. \A i \in 1..n : order[i] \in Subs
    BY <1>3 DEF Covers
  <1>5. \A s \in Subs : need[s] = RecipientNeed(scope[s])
    BY DEF Needs
  <1> HIDE DEF order, n, before, need, total
  <1> DEFINE known == {i \in 0..n : Turn(i, done[i])}
  <1>6. 0 \in known
    <2>1. Changes(done[0].rows, name) = [s \in Subs |-> 0]
      BY <1>2, DeltaOfNone DEF Changes
    <2>2. done[0].left = total
      BY <1>2
    <2>3. Turn(0, done[0])
      BY <1>3, <2>1, <2>2 DEF InTurn
    <2>4. QED
      BY <1>3, <2>3
  <1>7. ASSUME NEW i \in 0..n, i \in known, i < n PROVE i + 1 \in known
    <2>1. i + 1 \in 1..n /\ i + 1 \in 0..n /\ (i + 1) - 1 = i
      BY <1>3, <1>7
    <2> DEFINE d == done[i]
               e == done[i + 1]
               s == order[i + 1]
               amount == IF s = donor THEN 0 ELSE Least(d.left, RecipientNeed(scope[s]))
    <2>2. d \in T /\ e \in T /\ s \in Subs /\ e = Served(name, scope, donor, s, d)
      BY <1>2, <1>4, <2>1
    <2>3. Turn((i + 1) - 1, d)
      BY <1>7, <2>1
    <2> HIDE DEF d, e, s, Turn
    <2>4. /\ e.left = d.left - amount
          /\ \A x \in Subs :
                /\ Delta(d.rows, name, x) \in Int
                /\ Delta(e.rows, name, x) = Delta(d.rows, name, x)
                     + (IF x = donor THEN -amount ELSE IF x = s THEN amount ELSE 0)
      BY <2>2, ServedChanges
    <2>5. d.left \in Nat /\ amount = (IF s = donor THEN 0
                                      ELSE IF d.left < need[s] THEN d.left ELSE need[s])
          /\ amount \in Int
      BY <1>3, <1>5, <2>2 DEF Progress, Least, total
    <2> HIDE DEF amount
    <2>6. Changes(d.rows, name) \in [Subs -> Int] /\ Changes(e.rows, name) \in [Subs -> Int]
      BY <2>4, <2>5 DEF Changes
    <2>7. \A x \in Subs : Changes(e.rows, name)[x] = Changes(d.rows, name)[x]
             + (IF x = donor THEN -amount ELSE IF x = order[i + 1] THEN amount ELSE 0)
      BY <2>4 DEF Changes, s
    <2>8. InTurn(i + 1, Changes(e.rows, name), d.left - amount, total, need, order, before, donor)
      <3> DEFINE change == Changes(d.rows, name)
                 after == Changes(e.rows, name)
                 left == d.left
                 j == i + 1
      <3>1. ServesNext(n, j, donor, change, after, left, total, need, order, before, amount)
        <4>1. j \in 1..n /\ donor \in Subs /\ n \in Nat /\ total \in Nat /\ need \in [Subs -> Nat]
              /\ Covers(order, n, need, before)
          BY <1>3, <2>1
        <4>2. left \in Nat /\ change \in [Subs -> Int] /\ after \in [Subs -> Int]
          BY <2>5, <2>6
        <4>3. InTurn(j - 1, change, left, total, need, order, before, donor)
          BY <2>1, <2>3 DEF Turn
        <4>4. amount = (IF order[j] = donor THEN 0
                        ELSE IF left < need[order[j]] THEN left ELSE need[order[j]])
          BY <2>5 DEF s
        <4>5. \A x \in Subs : after[x] = change[x]
                + (IF x = donor THEN -amount ELSE IF x = order[j] THEN amount ELSE 0)
          BY <2>7
        <4> HIDE DEF j, change, after, left
        <4>6. QED
          BY <4>1, <4>2, <4>3, <4>4, <4>5 DEF ServesNext
      <3> HIDE DEF change, after, left, j
      <3>2. InTurn(j, after, left - amount, total, need, order, before, donor)
        BY <3>1, NextInTurn
      <3>3. QED
        BY <3>2 DEF change, after, left, j
    <2>9. QED
      BY <2>1, <2>4, <2>8 DEF Turn, e
  <1>8. \A i \in 0..n : i \in known
    <2> HIDE DEF known
    <2>1. QED
      BY <1>3, <1>6, <1>7, IntervalFollows
  <1>9. n \in 0..n
    BY <1>3
  <1>10. Turn(n, done[n]) /\ done[n].left \in 0..total
    BY <1>2, <1>8, <1>9 DEF Progress, total
  <1>11. QED
    BY <1>2, <1>10 DEF n, order, before, need, total

(***************************************************************************)
(* QuotaPlanning: plans for any subscriptions, candidates and amounts.     *)
(***************************************************************************)

LEMMA FlattenOne == \A x : FlattenSeq(<<x>>) = x
  <1>1. ASSUME NEW x PROVE FlattenSeq(<<x>>) = x
    <2> DEFINE seqs == <<x>>
               IsFlat(h) == h = [i \in 1..Len(seqs) |->
                                   IF i = 1 THEN seqs[i] ELSE h[i - 1] \o seqs[i]]
               h0 == [i \in 1..1 |-> x]
    <2>1. Len(seqs) = 1 /\ seqs[1] = x /\ \A i \in 1..1 : i = 1
      OBVIOUS
    <2>2. IsFlat(h0)
      BY <2>1
    <2> DEFINE flat == CHOOSE h : IsFlat(h)
    <2>3. IsFlat(flat)
      <3>1. \E h : IsFlat(h)
        BY <2>2
      <3> HIDE DEF IsFlat
      <3>2. QED
        BY <3>1
    <2>4. FlattenSeq(seqs) = flat[Len(seqs)]
      BY <2>1 DEF FlattenSeq
    <2> HIDE DEF flat
    <2>5. flat[1] = x
      <3>1. 1 \in 1..Len(seqs)
        BY <2>1
      <3>2. QED
        BY <2>1, <2>3, <3>1
    <2>6. QED
      BY <2>1, <2>4, <2>5
  <1>2. QED
    BY <1>1

\* A plan is built for the candidates of its run.
PlanInv ==
    /\ run \in [{"f"} -> [Subs -> CandidateType]]
    /\ \/ request = NoRequest /\ plan = <<>>
       \/ request \in PlanRequests /\ plan = Build(request)

LEMMA PlanInvInductive == PlanSpec => []PlanInv
  <1>1. PlanInit => PlanInv
    BY ShapesOK DEF PlanInit, PlanInv, CandidateType
  <1>2. PlanInv /\ [PlanNext]_planVars => PlanInv'
    <2>1. SUFFICES ASSUME PlanInv, [PlanNext]_planVars PROVE PlanInv'
      OBVIOUS
    <2>2. CASE UNCHANGED planVars
      BY <2>1, <2>2 DEF PlanInv, planVars, Build
    <2>3. CASE PlanNext
      <3>1. PICK r \in PlanRequests : request' = r /\ plan' = Build(r) /\ run' = run
        BY <2>3 DEF PlanNext
      <3>2. Build(request)' = Build(r)
        BY <3>1 DEF Build
      <3>3. QED
        BY <2>1, <3>1, <3>2 DEF PlanInv
    <2>4. QED
      BY <2>1, <2>2, <2>3
  <1>3. QED
    BY <1>1, <1>2, PTL DEF PlanSpec

\* The donor of a plan loses no more than may be moved, and nobody else anything.
TakesOnlyMovable(rows, scope) ==
    \A s \in Subs :
       /\ Delta(rows, "f", s) \in Int
       /\ Delta(rows, "f", s) < 0 => -Delta(rows, "f", s) <= Movable(scope[s])

LEMMA OneRowTakes ==
    ASSUME NEW scope \in [Subs -> CandidateType], NEW donor \in Subs,
           NEW recipient \in Subs \cup {Pool}, NEW amount \in Nat \ {0},
           amount <= Movable(scope[donor])
    PROVE  TakesOnlyMovable(<<PlanRow("f", scope, donor, recipient, amount)>>, scope)
  <1> DEFINE r == PlanRow("f", scope, donor, recipient, amount)
             Rows == {r}
             none == <<>>
  <1>1. r \in Rows /\ r.scope = "f" /\ r.donor = donor /\ r.recipient = recipient /\ r.amount = amount
    BY DEF PlanRow
  <1>2. \A x \in Rows : x.amount \in Int
    BY <1>1
  <1>3. none \in Seq(Rows) /\ Append(none, r) = <<r>>
    OBVIOUS
  <1>4. ASSUME NEW s \in Subs
        PROVE  Delta(<<r>>, "f", s) = IF donor = s THEN -amount ELSE IF recipient = s THEN amount ELSE 0
    <2>1. Gain(r, "f", s) = IF donor = s THEN -amount ELSE IF recipient = s THEN amount ELSE 0
      BY <1>1 DEF Gain
    <2> HIDE DEF r, Rows, none
    <2>2. Delta(Append(none, r), "f", s) = Delta(none, "f", s) + Gain(r, "f", s)
      <3>1. none \in Seq(Rows) /\ r \in Rows
        BY <1>1, <1>3
      <3>2. QED
        BY <1>2, <3>1, DeltaOfAppend, ZenonT(30)
    <2>3. Delta(none, "f", s) = 0
      BY DeltaOfNone DEF none
    <2>4. Gain(r, "f", s) \in Int
      BY <2>1
    <2>5. QED
      BY <1>3, <2>1, <2>2, <2>3, <2>4
  <1> HIDE DEF r
  <1>5. TakesOnlyMovable(<<r>>, scope)
    BY <1>4 DEF TakesOnlyMovable
  <1>6. QED
    BY <1>5 DEF r

LEMMA NoneTakes == ASSUME NEW scope PROVE TakesOnlyMovable(<<>>, scope)
  BY DeltaOfNone DEF TakesOnlyMovable

\* The default plan of the one scope.
LEMMA DefaultOfOne ==
    ASSUME NEW donor
    PROVE  DefaultPlan(run, <<"f">>, donor) = PlanScope("f", run["f"], donor)
  <1> DEFINE x == PlanScope("f", run["f"], donor)
  <1>1. [i \in DOMAIN <<"f">> |-> PlanScope(<<"f">>[i], run[<<"f">>[i]], donor)] = <<x>>
    OBVIOUS
  <1>2. QED
    BY <1>1, FlattenOne DEF DefaultPlan

LEMMA PlanTakes == PlanInv => TakesOnlyMovable(plan, run["f"])
  <1> SUFFICES ASSUME PlanInv PROVE TakesOnlyMovable(plan, run["f"])
    OBVIOUS
  <1> DEFINE scope == run["f"]
  <1>1. scope \in [Subs -> CandidateType]
    BY DEF PlanInv
  <1>2. CASE request = NoRequest /\ plan = <<>>
    BY <1>2, NoneTakes
  <1>3. CASE request \in PlanRequests /\ plan = Build(request)
    <2>1. CASE request.kind = "default"
      <3>1. request.donor \in Subs
        BY <1>3, <2>1 DEF PlanRequests
      <3>2. plan = PlanScope("f", scope, request.donor)
        BY <1>3, <2>1, DefaultOfOne DEF Build
      <3>3. PICK left \in 0..Movable(scope[request.donor]) :
              InTurn(Cardinality(Needy(scope)), Changes(plan, "f"), left,
                     Movable(scope[request.donor]), Needs(scope), Recipients(scope),
                     Before(scope), request.donor)
        <4> HIDE DEF scope
        <4>1. QED
          BY <1>1, <3>1, <3>2, PlanScopeInTurn
      <3>4. /\ Changes(plan, "f")[request.donor] = left - Movable(scope[request.donor])
            /\ \A s \in Subs \ {request.donor} : Changes(plan, "f")[s] \in 0..Needs(scope)[s]
        BY <3>3 DEF InTurn
      <3>5. \A s \in Subs : Changes(plan, "f")[s] = Delta(plan, "f", s)
        BY DEF Changes
      <3>6. Movable(scope[request.donor]) \in Nat
        BY <1>1, <3>1, MovableLeavesBuffer
      <3> HIDE DEF scope
      <3>7. TakesOnlyMovable(plan, scope)
        BY <3>1, <3>3, <3>4, <3>5, <3>6 DEF TakesOnlyMovable
      <3>8. QED
        BY <3>7 DEF scope
    <2>2. CASE request.kind = "targeted"
      <3> DEFINE donor == request.donor
                 recipient == request.recipient
                 need == RecipientNeed(scope[recipient])
                 asked == IF request.amount = 0 THEN need ELSE request.amount
                 amount == Least(Movable(scope[donor]), asked)
      <3>1. donor \in Subs /\ recipient \in Subs /\ request.amount \in Nat
        BY <1>3, <2>2, ShapesOK DEF PlanRequests
      <3>2. plan = ScopedPlan("f", scope, donor, recipient, request.amount)
        BY <1>3, <2>2 DEF Build
      <3>3. Movable(scope[donor]) \in Nat /\ need \in Nat
        BY <1>1, <3>1, MovableLeavesBuffer, NeedIsShortfall
      <3>4. CASE donor = recipient \/ Movable(scope[donor]) <= 0 \/ need <= 0
        <4>1. plan = <<>>
          BY <3>2, <3>4 DEF ScopedPlan
        <4>2. QED
          BY <4>1, NoneTakes
      <3>5. CASE ~ (donor = recipient \/ Movable(scope[donor]) <= 0 \/ need <= 0)
        <4>1. plan = <<PlanRow("f", scope, donor, recipient, amount)>>
          BY <3>2, <3>5 DEF ScopedPlan
        <4>2. amount \in Nat \ {0} /\ amount <= Movable(scope[donor])
          BY <3>1, <3>3, <3>5 DEF Least
        <4> HIDE DEF donor, recipient, amount, scope
        <4>3. TakesOnlyMovable(plan, scope)
          BY <1>1, <3>1, <4>1, <4>2, OneRowTakes
        <4>4. QED
          BY <4>3 DEF scope
      <3>6. QED
        BY <3>4, <3>5
    <2>3. CASE request.kind = "pool"
      <3> DEFINE donor == request.donor
                 amount == Least(Movable(scope[donor]), request.amount)
      <3>1. donor \in Subs /\ request.amount \in Nat
        BY <1>3, <2>3, ShapesOK DEF PlanRequests
      <3>2. plan = DonorScopedPlan("f", scope, donor, request.amount)
        BY <1>3, <2>3 DEF Build
      <3>3. Movable(scope[donor]) \in Nat
        BY <1>1, <3>1, MovableLeavesBuffer
      <3>4. CASE Movable(scope[donor]) <= 0 \/ request.amount <= 0
        <4>1. plan = <<>>
          BY <3>2, <3>4 DEF DonorScopedPlan
        <4>2. QED
          BY <4>1, NoneTakes
      <3>5. CASE ~ (Movable(scope[donor]) <= 0 \/ request.amount <= 0)
        <4>1. plan = <<PlanRow("f", scope, donor, Pool, amount)>>
          BY <3>2, <3>5 DEF DonorScopedPlan
        <4>2. amount \in Nat \ {0} /\ amount <= Movable(scope[donor])
          BY <3>1, <3>3, <3>5 DEF Least
        <4> HIDE DEF donor, amount, scope
        <4>3. TakesOnlyMovable(plan, scope)
          BY <1>1, <3>1, <4>1, <4>2, OneRowTakes
        <4>4. QED
          BY <4>3 DEF scope
      <3>6. QED
        BY <3>4, <3>5
    <2>4. request.kind \in {"default", "targeted", "pool"}
      BY <1>3 DEF PlanRequests
    <2>5. QED
      BY <2>1, <2>2, <2>3, <2>4
  <1>4. QED
    BY <1>2, <1>3 DEF PlanInv

LEMMA NoBreach ==
    PlanInv => DonorsKeepBuffer
  <1> SUFFICES ASSUME PlanInv, NEW s \in Subs PROVE ProjectedState(run, plan, "f", s) # "BufferBreach"
    BY DEF DonorsKeepBuffer
  <1> DEFINE c == run["f"][s]
             delta == Delta(plan, "f", s)
  <1>1. c \in CandidateType
    BY DEF PlanInv
  <1>2. delta \in Int /\ (delta < 0 => -delta <= Movable(c))
    BY PlanTakes DEF TakesOnlyMovable
  <1>3. SafetyBuffer(c.limit) \in Nat
    BY <1>1, BufferType DEF CandidateType
  <1>4. /\ Movable(c) \in Nat
        /\ Available(c) \in Int
        /\ Movable(c) > 0 => Available(c) - Movable(c) = SafetyBuffer(c.limit)
    BY <1>1, MovableLeavesBuffer
  <1>5. delta < 0 => Available(c) + delta >= SafetyBuffer(c.limit)
    BY <1>2, <1>3, <1>4
  <1>6. CASE delta > 0
    BY <1>2, <1>6 DEF ProjectedState
  <1>7. CASE delta < 0
    BY <1>2, <1>3, <1>4, <1>5, <1>7 DEF ProjectedState, ProjectedAvailable
  <1>8. CASE delta = 0
    BY <1>2, <1>8 DEF ProjectedState
  <1>9. QED
    BY <1>2, <1>6, <1>7, <1>8

\* However many recipients a plan serves and whatever amount was asked, no donor is
\* projected below its safety buffer: any subscriptions, candidates and amounts.
THEOREM PlanKeepsBuffer == PlanSpec => []DonorsKeepBuffer
  BY PlanInvInductive, NoBreach, PTL

\* A plan serves the worst state first, and then the greatest need.
THEOREM PlanServesInOrder == PlanSpec => []ServedInOrder
  <1>1. PlanInv => ServedInOrder
    <2> SUFFICES ASSUME PlanInv, request.kind = "default",
                        NEW r \in Subs \ {request.donor}, NEW s \in Subs \ {request.donor},
                        Received(s) > 0,
                        \/ StateRank(r) < StateRank(s)
                        \/ StateRank(r) = StateRank(s) /\ Need(r) > Need(s)
                 PROVE  Received(r) = Need(r)
      BY DEF ServedInOrder
    <2> DEFINE scope == run["f"]
    <2>1. scope \in [Subs -> CandidateType]
      BY DEF PlanInv
    <2>2. request \in PlanRequests /\ plan = Build(request)
      BY DEF PlanInv, NoRequest
    <2>3. request.donor \in Subs
      BY <2>2 DEF PlanRequests
    <2>4. plan = PlanScope("f", scope, request.donor)
      BY <2>2, DefaultOfOne DEF Build
    <2>5. <<r, s>> \in Before(scope)
      BY DEF Before, ServedBefore, StateRank, Need
    <2> HIDE DEF scope
    <2>6. PICK left \in 0..Movable(scope[request.donor]) :
            InTurn(Cardinality(Needy(scope)), Changes(plan, "f"), left,
                   Movable(scope[request.donor]), Needs(scope), Recipients(scope),
                   Before(scope), request.donor)
      BY <2>1, <2>3, <2>4, PlanScopeInTurn
    <2>7. Changes(plan, "f")[s] > 0
      <3>1. Received(s) = Greatest(0, Delta(plan, "f", s)) /\ Delta(plan, "f", s) \in Int
        BY PlanTakes DEF Received, TakesOnlyMovable
      <3>2. QED
        BY <3>1 DEF Changes, Greatest
    <2>8. Changes(plan, "f")[r] = Needs(scope)[r]
      BY <2>5, <2>6, <2>7 DEF InTurn
    <2>9. Delta(plan, "f", r) = Need(r) /\ Need(r) \in Nat
      <3>1. scope[r] \in CandidateType
        BY <2>1
      <3>2. RecipientNeed(scope[r]) \in Nat
        BY <3>1, NeedIsShortfall
      <3>3. QED
        BY <2>8, <3>2 DEF Changes, Needs, Need, scope
    <2>10. QED
      BY <2>9 DEF Received, Greatest
  <1>2. QED
    BY <1>1, PlanInvInductive, PTL

\* A recipient is covered in the simulation of a plan exactly when the plan leaves
\* nothing of its need.
THEOREM PlanAndSimulationAgree == PlanSpec => []PlanAgreesWithSimulation
  <1>1. PlanInv => PlanAgreesWithSimulation
    <2> SUFFICES ASSUME PlanInv, NEW s \in Subs, Received(s) > 0
                 PROVE  s \notin Unresolved(run, plan, "f")
                          <=> ProjectedState(run, plan, "f", s) = "Covered"
      BY DEF PlanAgreesWithSimulation
    <2> DEFINE c == run["f"][s]
               delta == Delta(plan, "f", s)
    <2>1. c \in CandidateType
      BY DEF PlanInv
    <2>2. delta \in Int
      BY PlanTakes DEF TakesOnlyMovable
    <2>3. delta > 0
      BY <2>2 DEF Received, Greatest
    <2>4. SafetyBuffer(c.limit) \in Nat /\ Available(c) \in Int
      BY <2>1, BufferType, MovableLeavesBuffer DEF CandidateType
    <2>5. RecipientNeed(c) = Greatest(0, SafetyBuffer(c.limit) - Available(c))
      BY <2>1, NeedIsShortfall
    <2>6. s \notin Unresolved(run, plan, "f") <=> ~ (RecipientNeed(c) > 0 /\ delta < RecipientNeed(c))
      BY DEF Unresolved
    <2>7. ProjectedState(run, plan, "f", s) = IF Available(c) + delta >= SafetyBuffer(c.limit)
                                              THEN "Covered" ELSE "ResidualGap"
      BY <2>2, <2>3 DEF ProjectedState, ProjectedAvailable
    <2> HIDE DEF c, delta
    <2>8. QED
      BY <2>2, <2>3, <2>4, <2>5, <2>6, <2>7 DEF Greatest
  <1>2. QED
    BY <1>1, PlanInvInductive, PTL

(***************************************************************************)
(* QuotaApply: any requests, scopes, subscriptions, quotas and bounds.     *)
(*                                                                         *)
(* ApplyInv is inductive.  Plans do not change once they are built, and    *)
(* every row that a file holds or a script has read is of some plan, also  *)
(* when it is another request's; so a limit in Azure is the first one or   *)
(* one that some plan proposed, however often rows are sent.               *)
(***************************************************************************)

RunType == [Scopes -> [Subs -> CandidateType]]

\* What a captured run leaves a donor at least.
CapturedFloor(rs, k, f, s) == rs[k][f][s].current + SafetyBuffer(rs[k][f][s].limit)

\* The rows that keep to some captured run.
KeptRows(rs) ==
    {r \in RowType : \E k \in DOMAIN rs : r.proposed >= CapturedFloor(rs, k, r.scope, r.donor)}

\* The rows of all plans.
Planned(requests) == UNION {ToSet(requests[b].plan) : b \in Requests}

\* A limit is one that a planned row proposed.
Touched(limits, rows, f, s) ==
    \E row \in rows : row.scope = f /\ row.donor = s /\ limits[f][s] = row.proposed

\* The rows that a script has still to send, and the others.
Pending(r) == {i \in DOMAIN r.rows : RegionOf[r.rows[i].scope] \in r.regions} \cup r.singles
Settled(r) == DOMAIN r.rows \ Pending(r)

RequestType(rs, rows) ==
    [stage : Stages, ask : Asks \cup {NoAsk}, run : 0..Len(rs), max : Nat,
     plan : Seq(KeptRows(rs)), file : Nat, runtimes : Nat, rows : Seq(rows),
     regions : SUBSET {RegionOf[f] : f \in Scopes}, singles : SUBSET Nat,
     submitted : Nat, cores : Nat, failures : Nat]

\* What a script has counted is what it has sent, as long as nothing failed; what it
\* reports as submitted has changed.
Accounted(r, limits, rows) ==
    /\ r.singles \subseteq DOMAIN r.rows
    /\ \A i \in r.singles : RegionOf[r.rows[i].scope] \notin r.regions
    /\ r.failures = 0 =>
          /\ r.singles = {}
          /\ r.submitted = Cardinality(Settled(r))
          /\ r.cores = CoresOf(r.rows, Settled(r))
    /\ \E sent \in SUBSET Settled(r) :
          /\ Cardinality(sent) = r.submitted
          /\ \A i \in sent : Touched(limits, rows, r.rows[i].scope, r.rows[i].donor)

\* A request knows its file, and has planned once at most.
InStage(r, known) ==
    /\ r.stage # "unused" => r.ask \in Asks
    /\ r.stage \in {"unused", "queued"} => r.plan = <<>>
    /\ r.stage \in {"ready", "script"} => r.file \in known
    /\ r.stage = "completed" => r.regions = {} /\ r.singles = {}

RequestInv(r, limits, rows, rs, known) ==
    /\ r \in RequestType(rs, rows)
    /\ InStage(r, known)
    /\ Accounted(r, limits, rows)

LimitsInv(limits, rows) ==
    /\ limits \in [Scopes -> [Subs -> Nat]]
    /\ \A f \in Scopes, s \in Subs :
          limits[f][s] = Limit0[f][s] \/ Touched(limits, rows, f, s)

FilesInv(named, rows, now) ==
    /\ now \in Nat \ {0}
    /\ DOMAIN named \subseteq 1..now
    /\ \A x \in DOMAIN named : named[x] \in Seq(rows)

ApplyInv ==
    /\ usage \in [Scopes -> [Subs -> Nat]]
    /\ seen \in [Scopes -> [Subs -> [current : Nat, limit : Nat]]]
    /\ runs \in Seq(RunType)
    /\ LimitsInv(limit, Planned(apply))
    /\ FilesInv(files, Planned(apply), second)
    /\ DOMAIN apply = Requests
    /\ \A a \in Requests : RequestInv(apply[a], limit, Planned(apply), runs, DOMAIN files)

LEMMA CandidateOfOne ==
    ASSUME NEW row \in [current : Nat, limit : Nat, state : AvailabilityStates]
    PROVE  Candidate(<<row>>) \in CandidateType
  <1> DEFINE rows == <<row>>
             current == [i \in DOMAIN rows |-> rows[i].current]
             limits == [i \in DOMAIN rows |-> rows[i].limit]
             states == {rows[i].state : i \in DOMAIN rows}
  <1>1. DOMAIN rows = 1..1 /\ \A i \in DOMAIN rows : rows[i] = row
    OBVIOUS
  <1>2. current \in [1..1 -> Nat] /\ limits \in [1..1 -> Nat]
    BY <1>1
  <1>3. IsFiniteSet(1..1)
    <2>1. 1 \in Int
      OBVIOUS
    <2>2. QED
      BY <2>1, FS_Interval
  <1> HIDE DEF current, limits
  <1>4. SumFunction(current) \in Nat /\ SumFunction(limits) \in Nat
    BY <1>2, <1>3, SumNat
  <1> DEFINE state == CASE "CONSTRAINED" \in states -> "CONSTRAINED"
                        [] "CONSTRAINED" \notin states /\ "LIMITED" \in states -> "LIMITED"
                        [] OTHER -> rows[1].state
  <1>5. state \in AvailabilityStates
    <2>1. rows[1].state \in AvailabilityStates
      BY <1>1
    <2> HIDE DEF states, rows
    <2>2. CASE "CONSTRAINED" \in states
      <3>1. state = "CONSTRAINED"
        BY <2>2
      <3> HIDE DEF state
      <3>2. QED
        BY <3>1 DEF AvailabilityStates
    <2>3. CASE "CONSTRAINED" \notin states /\ "LIMITED" \in states
      <3>1. state = "LIMITED"
        BY <2>3
      <3> HIDE DEF state
      <3>2. QED
        BY <3>1 DEF AvailabilityStates
    <2>4. CASE "CONSTRAINED" \notin states /\ "LIMITED" \notin states
      BY <2>1, <2>4
    <2>5. QED
      BY <2>2, <2>3, <2>4
  <1>6. Candidate(rows) = [current |-> SumFunction(current), limit |-> SumFunction(limits), state |-> state]
    BY DEF Candidate, current, limits
  <1> HIDE DEF state
  <1>7. QED
    BY <1>4, <1>5, <1>6 DEF CandidateType

\* Every row of a default plan keeps the floor of the run it was built from.
LEMMA DefaultPlanKept ==
    ASSUME NEW rs \in Seq(RunType), NEW k \in DOMAIN rs, NEW donor \in Subs,
           NEW order \in Seq(Scopes)
    PROVE  DefaultPlan(rs[k], order, donor) \in Seq(KeptRows(rs))
  <1> DEFINE K == KeptRows(rs)
             plans == [i \in DOMAIN order |-> PlanScope(order[i], rs[k][order[i]], donor)]
  <1>1. rs[k] \in RunType
    OBVIOUS
  <1>2. ASSUME NEW f \in Scopes PROVE PlanScope(f, rs[k][f], donor) \in Seq(K)
    <2> DEFINE scope == rs[k][f]
    <2>1. scope \in [Subs -> CandidateType]
      BY <1>1 DEF RunType
    <2>2. ASSUME NEW r \in RowsFrom(f, scope, donor) PROVE r \in K
      <3>1. r.proposed >= scope[donor].current + SafetyBuffer(scope[donor].limit)
        <4> HIDE DEF scope
        <4>1. QED
          BY <2>1, RowsKeepBuffer
      <3>2. r \in RowType /\ r.scope = f /\ r.donor = donor
        BY DEF RowsFrom, RowType
      <3>3. r.proposed >= CapturedFloor(rs, k, r.scope, r.donor)
        BY <3>1, <3>2 DEF CapturedFloor
      <3>4. QED
        BY <3>2, <3>3 DEF KeptRows
    <2> HIDE DEF scope
    <2>3. PlanScope(f, scope, donor) \in Seq(RowsFrom(f, scope, donor))
      BY <2>1, PlanScopeType
    <2> HIDE DEF K
    <2>4. PlanScope(f, scope, donor) \in Seq(K)
      BY <2>2, <2>3
    <2>5. QED
      BY <2>4 DEF scope
  <1>3. plans \in Seq(Seq(K))
    <2> HIDE DEF K
    <2>1. DOMAIN order = 1..Len(order) /\ Len(order) \in Nat
          /\ \A i \in DOMAIN order : order[i] \in Scopes
      OBVIOUS
    <2>2. \A i \in 1..Len(order) : PlanScope(order[i], rs[k][order[i]], donor) \in Seq(K)
      BY <1>2, <2>1
    <2>3. plans \in [1..Len(order) -> Seq(K)]
      BY <2>1, <2>2
    <2>4. QED
      BY <2>1, <2>3
  <1>4. DefaultPlan(rs[k], order, donor) = FlattenSeq(plans)
    BY DEF DefaultPlan
  <1> HIDE DEF plans, K
  <1>5. FlattenSeq(plans) \in Seq(K)
    BY <1>3, FlattenedType
  <1>6. QED
    BY <1>4, <1>5 DEF K

\* A row that takes no more than the donor can spare does.
LEMMA SparedRowKept ==
    ASSUME NEW rs \in Seq(RunType), NEW k \in DOMAIN rs, NEW f \in Scopes, NEW donor \in Subs,
           NEW recipient \in Subs \cup {Pool}, NEW amount \in Nat,
           amount <= Movable(rs[k][f][donor]), amount > 0
    PROVE  <<PlanRow(f, rs[k][f], donor, recipient, amount)>> \in Seq(KeptRows(rs))
  <1> DEFINE c == rs[k][f][donor]
             r == PlanRow(f, rs[k][f], donor, recipient, amount)
  <1>1. c \in CandidateType
    BY DEF RunType
  <1>2. r.proposed = ProposedLimit(c, amount) /\ r.scope = f /\ r.donor = donor
        /\ r = [scope |-> f, donor |-> donor, recipient |-> recipient, amount |-> amount,
                proposed |-> ProposedLimit(c, amount)]
    BY DEF PlanRow
  <1> HIDE DEF c, r
  <1>3. /\ ProposedLimit(c, amount) \in Nat
        /\ ProposedLimit(c, amount) >= c.current + SafetyBuffer(c.limit)
    <2>1. c.current \in Nat /\ c.limit \in Nat /\ SafetyBuffer(c.limit) \in Nat
      BY <1>1, BufferType DEF CandidateType
    <2>2. Movable(c) = IF c.limit - c.current - SafetyBuffer(c.limit) < 0 THEN 0
                       ELSE c.limit - c.current - SafetyBuffer(c.limit)
      BY <2>1 DEF Movable, Available, Greatest
    <2>3. amount <= Movable(c)
      BY DEF c
    <2>4. amount <= c.limit - c.current - SafetyBuffer(c.limit)
      BY <2>1, <2>2, <2>3
    <2>5. QED
      BY <2>1, <2>4 DEF ProposedLimit, Greatest
  <1>4. r \in RowType
    BY <1>2, <1>3 DEF RowType
  <1>5. r.proposed >= CapturedFloor(rs, k, r.scope, r.donor)
    BY <1>2, <1>3 DEF CapturedFloor, c
  <1>6. r \in KeptRows(rs)
    BY <1>4, <1>5 DEF KeptRows
  <1>7. QED
    BY <1>6 DEF r

\* Every row of a plan of any kind keeps the floor of the run it was built from.
LEMMA PlanKept ==
    ASSUME NEW rs \in Seq(RunType), NEW k \in DOMAIN rs, NEW ask \in Asks
    PROVE  MovePlan(rs[k], ScopeOrder, ask) \in Seq(KeptRows(rs))
  <1> DEFINE K == KeptRows(rs)
             donor == ask.donor
             name == ask.scope
             scope == rs[k][name]
  <1>1. /\ donor \in Subs /\ ask.recipient \in Subs \cup {Nobody} /\ ask.amount \in Nat
        /\ name \in Scopes \cup {Everywhere} /\ ScopeOrder \in Seq(Scopes)
    BY BoundsOK
  <1>2. <<>> \in Seq(K)
    OBVIOUS
  <1>3. ASSUME name \in Scopes, NEW recipient \in Subs \cup {Pool}, NEW asked \in Nat,
               Movable(scope[donor]) > 0, asked > 0
        PROVE  <<PlanRow(name, scope, donor, recipient, Least(Movable(scope[donor]), asked))>>
                 \in Seq(K)
    <2> DEFINE amount == Least(Movable(scope[donor]), asked)
    <2>1. scope[donor] \in CandidateType
      BY <1>1, <1>3 DEF RunType
    <2>2. Movable(scope[donor]) \in Nat
      BY <2>1, MovableLeavesBuffer
    <2>3. amount \in Nat /\ amount <= Movable(scope[donor]) /\ amount > 0
      <3> HIDE DEF scope, donor
      <3>1. QED
        BY <1>3, <2>2 DEF Least
    <2> HIDE DEF amount
    <2>4. <<PlanRow(name, scope, donor, recipient, amount)>> \in Seq(K)
      BY <1>1, <1>3, <2>3, SparedRowKept
    <2>5. QED
      BY <2>4 DEF amount
  <1>4. CASE ask.recipient # Nobody /\ name # Everywhere
    <2>1. MovePlan(rs[k], ScopeOrder, ask)
            = ScopedPlan(name, scope, donor, ask.recipient, ask.amount)
      BY <1>4 DEF MovePlan
    <2> DEFINE need == RecipientNeed(scope[ask.recipient])
               asked == IF ask.amount = 0 THEN need ELSE ask.amount
    <2>2. name \in Scopes /\ ask.recipient \in Subs
      BY <1>1, <1>4
    <2>3. need \in Nat
      <3>1. scope[ask.recipient] \in CandidateType
        BY <2>2 DEF RunType
      <3>2. QED
        BY <3>1, NeedIsShortfall
    <2>4. CASE donor = ask.recipient \/ Movable(scope[donor]) <= 0 \/ need <= 0
      BY <1>2, <2>1, <2>4 DEF ScopedPlan
    <2>5. CASE ~(donor = ask.recipient \/ Movable(scope[donor]) <= 0 \/ need <= 0)
      <3>1. MovePlan(rs[k], ScopeOrder, ask)
              = <<PlanRow(name, scope, donor, ask.recipient,
                          Least(Movable(scope[donor]), asked))>>
        BY <2>1, <2>5 DEF ScopedPlan
      <3>2. Movable(scope[donor]) \in Nat
        <4>1. scope[donor] \in CandidateType
          BY <1>1, <2>2 DEF RunType
        <4>2. QED
          BY <4>1, MovableLeavesBuffer
      <3>3. Movable(scope[donor]) > 0 /\ asked \in Nat /\ asked > 0
        <4> HIDE DEF scope, need
        <4>1. QED
          BY <1>1, <2>3, <2>5, <3>2
      <3> HIDE DEF asked
      <3>4. QED
        BY <1>3, <2>2, <3>1, <3>3
    <2>6. QED
      BY <2>4, <2>5
  <1>5. CASE ask.recipient = Nobody /\ name # Everywhere /\ ask.amount # 0
    <2>1. MovePlan(rs[k], ScopeOrder, ask) = DonorScopedPlan(name, scope, donor, ask.amount)
      BY <1>5 DEF MovePlan
    <2>2. name \in Scopes /\ ask.amount > 0
      BY <1>1, <1>5
    <2>3. CASE Movable(scope[donor]) <= 0 \/ ask.amount <= 0
      BY <1>2, <2>1, <2>3 DEF DonorScopedPlan
    <2>4. CASE ~(Movable(scope[donor]) <= 0 \/ ask.amount <= 0)
      <3>1. MovePlan(rs[k], ScopeOrder, ask)
              = <<PlanRow(name, scope, donor, Pool, Least(Movable(scope[donor]), ask.amount))>>
        BY <2>1, <2>4 DEF DonorScopedPlan
      <3>2. Movable(scope[donor]) \in Nat
        <4>1. scope[donor] \in CandidateType
          BY <1>1, <2>2 DEF RunType
        <4>2. QED
          BY <4>1, MovableLeavesBuffer
      <3>3. Movable(scope[donor]) > 0
        <4> HIDE DEF scope
        <4>1. QED
          BY <2>4, <3>2
      <3>4. QED
        BY <1>1, <1>3, <2>2, <3>1, <3>3
    <2>5. QED
      BY <2>3, <2>4
  <1>6. CASE ask.recipient = Nobody /\ ask.amount = 0
    <2> DEFINE order == IF name = Everywhere THEN ScopeOrder ELSE <<name>>
    <2>1. MovePlan(rs[k], ScopeOrder, ask) = DefaultPlan(rs[k], order, donor)
      BY <1>6 DEF MovePlan
    <2>2. order \in Seq(Scopes)
      BY <1>1
    <2> HIDE DEF order
    <2>3. QED
      BY <1>1, <2>1, <2>2, DefaultPlanKept
  <1>7. CASE name = Everywhere /\ (ask.recipient # Nobody \/ ask.amount # 0)
    <2>1. MovePlan(rs[k], ScopeOrder, ask) = <<>>
      BY <1>7 DEF MovePlan
    <2>2. QED
      BY <1>2, <2>1
  <1>8. QED
    BY <1>4, <1>5, <1>6, <1>7

\* A later run takes no row's floor away.
LEMMA KeptGrow ==
    ASSUME NEW rs \in Seq(RunType), NEW x \in RunType
    PROVE  KeptRows(rs) \subseteq KeptRows(Append(rs, x))
  <1> SUFFICES ASSUME NEW r \in KeptRows(rs) PROVE r \in KeptRows(Append(rs, x))
    OBVIOUS
  <1>1. PICK k \in DOMAIN rs : r.proposed >= CapturedFloor(rs, k, r.scope, r.donor)
    BY DEF KeptRows
  <1>2. k \in DOMAIN Append(rs, x) /\ Append(rs, x)[k] = rs[k]
    OBVIOUS
  <1>3. CapturedFloor(Append(rs, x), k, r.scope, r.donor) = CapturedFloor(rs, k, r.scope, r.donor)
    BY <1>2 DEF CapturedFloor
  <1>4. r \in RowType
    BY DEF KeptRows
  <1>5. QED
    BY <1>1, <1>2, <1>3, <1>4 DEF KeptRows

(***************************************************************************)
(* What Azure is sent.                                                     *)
(***************************************************************************)

\* Azure has what some of the rows with these numbers proposed.
Sends(before, after, rows, numbers) ==
    /\ after \in [Scopes -> [Subs -> Nat]]
    /\ \A f \in Scopes, s \in Subs :
          \/ after[f][s] = before[f][s]
          \/ \E i \in numbers : rows[i].scope = f /\ rows[i].donor = s /\ after[f][s] = rows[i].proposed
    /\ \A i \in numbers : \E j \in numbers :
          /\ rows[j].scope = rows[i].scope /\ rows[j].donor = rows[i].donor
          /\ after[rows[i].scope][rows[i].donor] = rows[j].proposed

LEMMA PatchedSends ==
    ASSUME NEW rows \in Seq(RowType), NEW numbers \in SUBSET DOMAIN rows,
           limit \in [Scopes -> [Subs -> Nat]], NEW after \in Patched(rows, numbers)
    PROVE  Sends(limit, after, rows, numbers)
  <1> DEFINE named == {<<rows[i].scope, rows[i].donor>> : i \in numbers}
  <1>1. PICK win \in [named -> numbers] :
          /\ \A n \in named : <<rows[win[n]].scope, rows[win[n]].donor>> = n
          /\ after = [f \in Scopes |-> [s \in Subs |->
                        IF <<f, s>> \in named THEN rows[win[<<f, s>>]].proposed ELSE limit[f][s]]]
    BY DEF Patched
  <1>2. \A i \in numbers : rows[i].scope \in Scopes /\ rows[i].donor \in Subs /\ rows[i].proposed \in Nat
    <2>1. \A i \in numbers : rows[i] \in RowType
      OBVIOUS
    <2>2. \A r \in RowType : r.scope \in Scopes /\ r.donor \in Subs /\ r.proposed \in Nat
      BY DEF RowType
    <2>3. QED
      BY <2>1, <2>2
  <1>3. \A i \in numbers : <<rows[i].scope, rows[i].donor>> \in named
    OBVIOUS
  <1> HIDE DEF named
  <1>4. \A f \in Scopes, s \in Subs :
           <<f, s>> \in named =>
              /\ win[<<f, s>>] \in numbers
              /\ rows[win[<<f, s>>]].scope = f /\ rows[win[<<f, s>>]].donor = s
              /\ after[f][s] = rows[win[<<f, s>>]].proposed
    BY <1>1
  <1>5. \A f \in Scopes, s \in Subs : <<f, s>> \notin named => after[f][s] = limit[f][s]
    BY <1>1
  <1>6. after \in [Scopes -> [Subs -> Nat]]
    <2>1. \A f \in Scopes, s \in Subs :
             (IF <<f, s>> \in named THEN rows[win[<<f, s>>]].proposed ELSE limit[f][s]) \in Nat
      <3>1. ASSUME NEW f \in Scopes, NEW s \in Subs
            PROVE  (IF <<f, s>> \in named THEN rows[win[<<f, s>>]].proposed ELSE limit[f][s]) \in Nat
        <4>1. CASE <<f, s>> \in named
          <5> DEFINE j == win[<<f, s>>]
          <5>1. j \in numbers
            BY <1>4, <4>1
          <5> HIDE DEF j
          <5>2. rows[j].proposed \in Nat
            BY <1>2, <5>1
          <5>3. QED
            BY <4>1, <5>2 DEF j
        <4>2. CASE <<f, s>> \notin named
          BY <4>2
        <4>3. QED
          BY <4>1, <4>2
      <3>2. QED
        BY <3>1
    <2>2. QED
      BY <1>1, <2>1
  <1>7. ASSUME NEW f \in Scopes, NEW s \in Subs
        PROVE  \/ after[f][s] = limit[f][s]
               \/ \E i \in numbers : rows[i].scope = f /\ rows[i].donor = s /\ after[f][s] = rows[i].proposed
    <2>1. CASE <<f, s>> \in named
      <3> DEFINE k == win[<<f, s>>]
      <3>1. k \in numbers /\ rows[k].scope = f /\ rows[k].donor = s /\ after[f][s] = rows[k].proposed
        BY <1>4, <2>1, Zenon
      <3> HIDE DEF k
      <3>2. QED
        BY <3>1, Zenon
    <2>2. CASE <<f, s>> \notin named
      BY <1>5, <2>2
    <2>3. QED
      BY <2>1, <2>2
  <1>8. ASSUME NEW i \in numbers
        PROVE  \E j \in numbers :
                  /\ rows[j].scope = rows[i].scope /\ rows[j].donor = rows[i].donor
                  /\ after[rows[i].scope][rows[i].donor] = rows[j].proposed
    <2> DEFINE f == rows[i].scope
               s == rows[i].donor
    <2>1. f \in Scopes /\ s \in Subs /\ <<f, s>> \in named
      BY <1>2, <1>3
    <2> HIDE DEF f, s
    <2>2. \E j \in numbers : rows[j].scope = f /\ rows[j].donor = s /\ after[f][s] = rows[j].proposed
      <3> DEFINE k == win[<<f, s>>]
      <3>1. k \in numbers /\ rows[k].scope = f /\ rows[k].donor = s /\ after[f][s] = rows[k].proposed
        BY <1>4, <2>1, Zenon
      <3> HIDE DEF k
      <3>2. QED
        BY <3>1, Zenon
    <2>3. QED
      BY <2>2 DEF f, s
  <1>9. QED
    BY <1>6, <1>7, <1>8 DEF Sends

LEMMA SendsKeeps ==
    ASSUME NEW limits, NEW planned \in SUBSET RowType, LimitsInv(limits, planned),
           NEW rows \in Seq(planned), NEW numbers \in SUBSET DOMAIN rows,
           NEW after, Sends(limits, after, rows, numbers)
    PROVE  /\ LimitsInv(after, planned)
           /\ \A f \in Scopes, s \in Subs : Touched(limits, planned, f, s) => Touched(after, planned, f, s)
           /\ \A i \in numbers : Touched(after, planned, rows[i].scope, rows[i].donor)
  <1>1. \A i \in numbers : rows[i] \in planned /\ rows[i].scope \in Scopes /\ rows[i].donor \in Subs
    BY DEF RowType
  <1>2. ASSUME NEW f \in Scopes, NEW s \in Subs
        PROVE  after[f][s] = limits[f][s] \/ Touched(after, planned, f, s)
    BY <1>1 DEF Sends, Touched
  <1>3. ASSUME NEW f \in Scopes, NEW s \in Subs, Touched(limits, planned, f, s)
        PROVE  Touched(after, planned, f, s)
    BY <1>2, <1>3 DEF Touched
  <1>4. ASSUME NEW i \in numbers PROVE Touched(after, planned, rows[i].scope, rows[i].donor)
    BY <1>1 DEF Sends, Touched
  <1>5. LimitsInv(after, planned)
    BY <1>2, <1>3 DEF LimitsInv, Sends
  <1>6. QED
    BY <1>3, <1>4, <1>5

(***************************************************************************)
(* What a script accounts for.                                             *)
(***************************************************************************)

LEMMA CoresLaws ==
    ASSUME NEW rows \in Seq(RowType), NEW A \in SUBSET DOMAIN rows, NEW B \in SUBSET DOMAIN rows,
           A \cap B = {}
    PROVE  /\ CoresOf(rows, A) \in Nat
           /\ CoresOf(rows, A \cup B) = CoresOf(rows, A) + CoresOf(rows, B)
           /\ CoresOf(rows, {}) = 0
           /\ IsFiniteSet(A)
           /\ Cardinality(A) \in Nat
           /\ Cardinality(A \cup B) = Cardinality(A) + Cardinality(B)
  <1> DEFINE S == DOMAIN rows
             f == [i \in S |-> rows[i].amount]
  <1>1. S = 1..Len(rows) /\ Len(rows) \in Nat
    OBVIOUS
  <1>2. IsFiniteSet(S)
    BY <1>1, FS_Interval
  <1>3. f \in [S -> Nat] /\ f \in [S -> Int]
    <2>1. \A i \in S : rows[i] \in RowType
      OBVIOUS
    <2>2. \A r \in RowType : r.amount \in Nat
      BY DEF RowType
    <2>3. QED
      BY <2>1, <2>2
  <1>4. \A T \in SUBSET S : CoresOf(rows, T) = SumFunction(Restrict(f, T))
    <2>1. ASSUME NEW T \in SUBSET S PROVE CoresOf(rows, T) = SumFunction(Restrict(f, T))
      <3>1. Restrict(f, T) = [i \in T |-> rows[i].amount]
        BY DEF Restrict
      <3>2. QED
        BY <3>1 DEF CoresOf
    <2>2. QED
      BY <2>1
  <1>5. IsFiniteSet(A) /\ IsFiniteSet(B) /\ Cardinality(A) \in Nat /\ Cardinality(B) \in Nat
    BY <1>2, FS_Subset, FS_CardinalityType
  <1>6. Cardinality(A \cup B) = Cardinality(A) + Cardinality(B)
    <2>1. Cardinality(A \cap B) = 0
      BY FS_EmptySet
    <2>2. Cardinality(A \cup B) = Cardinality(A) + Cardinality(B) - Cardinality(A \cap B)
      BY <1>5, FS_Union
    <2>3. QED
      BY <1>5, <2>1, <2>2
  <1> HIDE DEF f
  <1>7. SumFunction(Restrict(f, A \cup B)) = SumFunction(Restrict(f, A)) + SumFunction(Restrict(f, B))
    BY <1>2, <1>3, SumUnion
  <1>8. SumFunction(Restrict(f, A)) \in Nat
    <2>1. Restrict(f, A) \in [A -> Nat]
      BY <1>3 DEF Restrict
    <2>2. QED
      BY <1>5, <2>1, SumNat
  <1>9. CoresOf(rows, {}) = 0
    <2>1. Restrict(f, {}) \in [{} -> Int] /\ IsFiniteSet({})
      BY FS_EmptySet DEF Restrict
    <2>2. SumFunction(Restrict(f, {})) = 0
      BY <2>1, SumLaws
    <2>3. QED
      BY <1>4, <2>2
  <1>10. A \cup B \in SUBSET S
    OBVIOUS
  <1>11. QED
    BY <1>4, <1>5, <1>6, <1>7, <1>8, <1>9, <1>10

\* The rows of one region.
BatchOf(r, g) == {i \in DOMAIN r.rows : RegionOf[r.rows[i].scope] = g}

\* r goes on as s: the rows with these numbers are settled, too.
Settles(r, s, numbers) ==
    /\ s.rows = r.rows
    /\ Settled(s) = Settled(r) \cup numbers
    /\ Settled(r) \cap numbers = {}
    /\ s.singles \subseteq DOMAIN s.rows
    /\ \A i \in s.singles : RegionOf[s.rows[i].scope] \notin s.regions

LEMMA BatchSettles ==
    ASSUME NEW r, NEW s, r.singles = {}, NEW g \in r.regions,
           s.rows = r.rows, s.regions = r.regions \ {g}, s.singles = {}
    PROVE  Settles(r, s, BatchOf(r, g)) /\ BatchOf(r, g) \in SUBSET DOMAIN r.rows
  BY DEF Settles, Settled, Pending, BatchOf

LEMMA RefusedSettlesNone ==
    ASSUME NEW r, NEW s, r.singles = {}, NEW g \in r.regions,
           s.rows = r.rows, s.regions = r.regions \ {g}, s.singles = BatchOf(r, g)
    PROVE  Settles(r, s, {})
  BY DEF Settles, Settled, Pending, BatchOf

LEMMA SingleSettles ==
    ASSUME NEW r, NEW s, NEW limits, NEW rows, Accounted(r, limits, rows), NEW i \in r.singles,
           s.rows = r.rows, s.regions = r.regions, s.singles = r.singles \ {i}
    PROVE  Settles(r, s, {i}) /\ {i} \in SUBSET DOMAIN r.rows
  BY DEF Settles, Settled, Pending, Accounted

\* Rows that are sent and counted are accounted for.
LEMMA SentIsAccounted ==
    ASSUME NEW r, NEW s, NEW numbers \in SUBSET DOMAIN r.rows, Settles(r, s, numbers),
           r.rows \in Seq(RowType), NEW limits, NEW after, NEW planned, Accounted(r, limits, planned),
           \A f \in Scopes, d \in Subs : Touched(limits, planned, f, d) => Touched(after, planned, f, d),
           \A i \in numbers : Touched(after, planned, r.rows[i].scope, r.rows[i].donor),
           s.submitted = r.submitted + Cardinality(numbers),
           s.cores = r.cores + CoresOf(r.rows, numbers),
           s.failures = r.failures,
           r.failures = 0 => s.singles = {}
    PROVE  Accounted(s, after, planned)
  <1>1. Settled(r) \in SUBSET DOMAIN r.rows /\ Settled(s) = Settled(r) \cup numbers
        /\ Settled(r) \cap numbers = {} /\ s.rows = r.rows
    BY DEF Settles, Settled
  <1>2. PICK sent \in SUBSET Settled(r) :
          /\ Cardinality(sent) = r.submitted
          /\ \A i \in sent : Touched(limits, planned, r.rows[i].scope, r.rows[i].donor)
    BY DEF Accounted
  <1>3. \A i \in DOMAIN r.rows : r.rows[i].scope \in Scopes /\ r.rows[i].donor \in Subs
    <2>1. \A i \in DOMAIN r.rows : r.rows[i] \in RowType
      OBVIOUS
    <2>2. QED
      BY <2>1 DEF RowType
  <1>4. Cardinality(sent \cup numbers) = s.submitted
    <2>1. sent \in SUBSET DOMAIN r.rows /\ sent \cap numbers = {}
      BY <1>1, <1>2
    <2>2. Cardinality(sent \cup numbers) = Cardinality(sent) + Cardinality(numbers)
      BY <2>1, CoresLaws
    <2>3. QED
      BY <1>2, <2>2
  <1>5. ASSUME NEW i \in sent \cup numbers
        PROVE  Touched(after, planned, s.rows[i].scope, s.rows[i].donor)
    <2>1. i \in DOMAIN r.rows
      BY <1>1, <1>2
    <2>2. QED
      BY <1>1, <1>2, <1>3, <2>1
  <1>6. ASSUME s.failures = 0
        PROVE  s.submitted = Cardinality(Settled(s)) /\ s.cores = CoresOf(s.rows, Settled(s))
    <2>1. r.submitted = Cardinality(Settled(r)) /\ r.cores = CoresOf(r.rows, Settled(r))
      BY <1>6 DEF Accounted
    <2>2. Cardinality(Settled(s)) = Cardinality(Settled(r)) + Cardinality(numbers)
          /\ CoresOf(r.rows, Settled(s)) = CoresOf(r.rows, Settled(r)) + CoresOf(r.rows, numbers)
      <3> DEFINE before == Settled(r)
                 rows == r.rows
      <3>1. before \in SUBSET DOMAIN rows /\ before \cap numbers = {} /\ Settled(s) = before \cup numbers
            /\ rows \in Seq(RowType) /\ numbers \in SUBSET DOMAIN rows
        BY <1>1
      <3> HIDE DEF before, rows
      <3>2. Cardinality(before \cup numbers) = Cardinality(before) + Cardinality(numbers)
            /\ CoresOf(rows, before \cup numbers) = CoresOf(rows, before) + CoresOf(rows, numbers)
        BY <3>1, CoresLaws
      <3>3. QED
        BY <3>1, <3>2 DEF before, rows
    <2>3. QED
      BY <1>1, <2>1, <2>2
  <1>7. sent \cup numbers \in SUBSET Settled(s)
    BY <1>1, <1>2
  <1>8. QED
    BY <1>4, <1>5, <1>6, <1>7 DEF Accounted, Settles

\* A refused row is settled, and counted as a failure.
LEMMA FailedIsAccounted ==
    ASSUME NEW r, NEW s, NEW numbers, Settles(r, s, numbers),
           NEW limits, NEW planned, Accounted(r, limits, planned),
           s.submitted = r.submitted, s.failures # 0
    PROVE  Accounted(s, limits, planned)
  <1>1. PICK sent \in SUBSET Settled(r) :
          /\ Cardinality(sent) = r.submitted
          /\ \A i \in sent : Touched(limits, planned, r.rows[i].scope, r.rows[i].donor)
    BY DEF Accounted
  <1>2. sent \in SUBSET Settled(s) /\ s.rows = r.rows
    BY DEF Settles
  <1>3. QED
    BY <1>1, <1>2 DEF Accounted, Settles

\* A script that has just started has everything to send.
LEMMA StartedIsAccounted ==
    ASSUME NEW r, NEW limits, NEW planned, r.rows \in Seq(RowType),
           r.regions = RegionsOf(r.rows), r.singles = {}, r.submitted = 0, r.cores = 0
    PROVE  Accounted(r, limits, planned)
  <1>1. Settled(r) = {}
    BY DEF Settled, Pending, RegionsOf
  <1>2. Cardinality({}) = 0 /\ CoresOf(r.rows, {}) = 0
    BY CoresLaws, FS_EmptySet
  <1>3. \E sent \in SUBSET Settled(r) :
           /\ Cardinality(sent) = r.submitted
           /\ \A i \in sent : Touched(limits, planned, r.rows[i].scope, r.rows[i].donor)
    BY <1>1, <1>2
  <1>4. QED
    BY <1>1, <1>2, <1>3 DEF Accounted

(***************************************************************************)
(* The invariant is inductive.                                             *)
(***************************************************************************)

\* A request that does nothing keeps its invariant when others plan, capture or send.
LEMMA RequestKeeps ==
    ASSUME NEW rs, NEW rs2, NEW planned \in SUBSET KeptRows(rs), NEW planned2,
           NEW limits, NEW limits2, NEW known, NEW known2,
           NEW r, RequestInv(r, limits, planned, rs, known),
           Len(rs) \in Nat, Len(rs2) \in Nat, Len(rs) <= Len(rs2),
           KeptRows(rs) \subseteq KeptRows(rs2), planned \subseteq planned2, known \subseteq known2,
           \A f \in Scopes, d \in Subs : Touched(limits, planned, f, d) => Touched(limits2, planned2, f, d)
    PROVE  RequestInv(r, limits2, planned2, rs2, known2)
  <1>1. r \in RequestType(rs, planned) /\ InStage(r, known) /\ Accounted(r, limits, planned)
    BY DEF RequestInv
  <1>2. r \in RequestType(rs2, planned2)
    <2>1. r.plan \in Seq(KeptRows(rs2)) /\ r.rows \in Seq(planned2) /\ r.run \in 0..Len(rs2)
      <3>1. r.plan \in Seq(KeptRows(rs)) /\ r.rows \in Seq(planned) /\ r.run \in 0..Len(rs)
        BY <1>1 DEF RequestType
      <3>2. QED
        BY <3>1
    <2>2. QED
      BY <1>1, <2>1 DEF RequestType
  <1>3. InStage(r, known2)
    BY <1>1 DEF InStage
  <1>4. r.rows \in Seq(RowType)
    <2>1. r.rows \in Seq(planned) /\ planned \in SUBSET RowType
      BY <1>1 DEF RequestType, KeptRows
    <2>2. QED
      BY <2>1
  <1>5. \A i \in DOMAIN r.rows : r.rows[i].scope \in Scopes /\ r.rows[i].donor \in Subs
    <2>1. \A i \in DOMAIN r.rows : r.rows[i] \in RowType
      BY <1>4
    <2>2. QED
      BY <2>1 DEF RowType
  <1>6. Accounted(r, limits2, planned2)
    <2>1. PICK sent \in SUBSET Settled(r) :
            /\ Cardinality(sent) = r.submitted
            /\ \A i \in sent : Touched(limits, planned, r.rows[i].scope, r.rows[i].donor)
      BY <1>1 DEF Accounted
    <2>2. sent \in SUBSET DOMAIN r.rows
      BY <2>1 DEF Settled
    <2>3. \A i \in sent : Touched(limits2, planned2, r.rows[i].scope, r.rows[i].donor)
      BY <1>5, <2>1, <2>2
    <2>4. QED
      BY <1>1, <2>1, <2>3 DEF Accounted
  <1>7. QED
    BY <1>2, <1>3, <1>6 DEF RequestInv

LEMMA PlannedKept ==
    ASSUME ApplyInv
    PROVE  Planned(apply) \in SUBSET KeptRows(runs) /\ Planned(apply) \in SUBSET RowType
  <1>1. \A a \in Requests : apply[a].plan \in Seq(KeptRows(runs))
    BY DEF ApplyInv, RequestInv, RequestType
  <1>2. \A a \in Requests : ToSet(apply[a].plan) \subseteq KeptRows(runs)
    BY <1>1 DEF ToSet
  <1>3. Planned(apply) \in SUBSET KeptRows(runs)
    BY <1>2 DEF Planned
  <1>4. QED
    BY <1>3 DEF KeptRows

\* A request goes on, with its plan: it may have sent something.
LEMMA RequestMoves ==
    ASSUME ApplyInv, NEW a \in Requests, NEW r, r.plan = apply[a].plan,
           RequestInv(r, limit', Planned(apply), runs, DOMAIN files),
           LimitsInv(limit', Planned(apply)),
           \A f \in Scopes, d \in Subs :
              Touched(limit, Planned(apply), f, d) => Touched(limit', Planned(apply), f, d),
           Put(a, r), UNCHANGED <<usage, seen, runs, files, second>>
    PROVE  ApplyInv'
  <1> DEFINE planned == Planned(apply)
  <1>1. /\ DOMAIN apply' = Requests
        /\ apply'[a] = r
        /\ \A b \in Requests : b # a => apply'[b] = apply[b]
    BY DEF ApplyInv, Put
  <1>2. Planned(apply)' = planned
    <2>1. \A b \in Requests : apply'[b].plan = apply[b].plan
      BY <1>1
    <2>2. QED
      BY <2>1 DEF Planned
  <1>3. planned \in SUBSET KeptRows(runs) /\ runs \in Seq(RunType)
    BY PlannedKept DEF ApplyInv
  <1>4. ASSUME NEW b \in Requests
        PROVE  RequestInv(apply'[b], limit', planned, runs, DOMAIN files)
    <2>1. CASE b = a
      BY <1>1, <2>1
    <2>2. CASE b # a
      <3>1. RequestInv(apply[b], limit, planned, runs, DOMAIN files)
        BY DEF ApplyInv
      <3>2. Len(runs) \in Nat /\ Len(runs) <= Len(runs)
        BY <1>3
      <3> HIDE DEF planned
      <3>3. RequestInv(apply[b], limit', planned, runs, DOMAIN files)
        <4>1. \A f \in Scopes, d \in Subs : Touched(limit, planned, f, d) => Touched(limit', planned, f, d)
          BY DEF planned
        <4>2. QED
          BY <1>3, <3>1, <3>2, <4>1, RequestKeeps
      <3>4. QED
        BY <1>1, <2>2, <3>3
    <2>3. QED
      BY <2>1, <2>2
  <1>5. QED
    BY <1>1, <1>2, <1>4 DEF ApplyInv

\* A request goes on and nothing is sent.
LEMMA RequestMovesAlone ==
    ASSUME ApplyInv, NEW a \in Requests, NEW r, r.plan = apply[a].plan,
           RequestInv(r, limit, Planned(apply), runs, DOMAIN files),
           Put(a, r), UNCHANGED <<limit, usage, seen, runs, files, second>>
    PROVE  ApplyInv'
  <1>1. LimitsInv(limit, Planned(apply)) /\ limit' = limit
    BY DEF ApplyInv
  <1>2. QED
    BY <1>1, RequestMoves

LEMMA CardinalityOfDomain ==
    ASSUME NEW T, NEW rows \in Seq(T)
    PROVE  IsFiniteSet(DOMAIN rows) /\ Cardinality(DOMAIN rows) = Len(rows)
  <1>1. DOMAIN rows = 1..Len(rows) /\ Len(rows) \in Nat /\ 1 \in Int
    OBVIOUS
  <1>2. IsFiniteSet(1..Len(rows)) /\ Cardinality(1..Len(rows)) = IF 1 > Len(rows) THEN 0 ELSE Len(rows) - 1 + 1
    BY <1>1, FS_Interval
  <1>3. QED
    BY <1>1, <1>2

LEMMA UnusedAccounted ==
    ASSUME NEW limits, NEW planned, NEW rs, Len(rs) \in Nat
    PROVE  Unused \in RequestType(rs, planned) /\ Accounted(Unused, limits, planned)
  <1>1. Unused \in RequestType(rs, planned)
    BY DEF Unused, RequestType, Stages
  <1>2. /\ Unused.rows \in Seq(RowType) /\ Unused.regions = RegionsOf(Unused.rows)
        /\ Unused.singles = {} /\ Unused.submitted = 0 /\ Unused.cores = 0
    BY DEF Unused, RegionsOf
  <1>3. Accounted(Unused, limits, planned)
    BY <1>2, StartedIsAccounted
  <1>4. QED
    BY <1>1, <1>3

\* Only the request's own words change: what it accounts for stays.
LEMMA SameAccounted ==
    ASSUME NEW r, NEW s, NEW limits, NEW planned, Accounted(r, limits, planned),
           s.rows = r.rows, s.regions = r.regions, s.singles = r.singles,
           s.submitted = r.submitted, s.cores = r.cores, s.failures = r.failures
    PROVE  Accounted(s, limits, planned)
  <1>1. Settled(s) = Settled(r)
    BY DEF Settled, Pending
  <1>2. QED
    BY <1>1 DEF Accounted

\* What the invariant says of one request.
LEMMA RequestKnown ==
    ASSUME ApplyInv, NEW a \in Requests
    PROVE  /\ apply[a] \in RequestType(runs, Planned(apply))
           /\ InStage(apply[a], DOMAIN files)
           /\ Accounted(apply[a], limit, Planned(apply))
           /\ apply[a].rows \in Seq(RowType)
           /\ runs \in Seq(RunType) /\ Len(runs) \in Nat
           /\ apply[a].failures \in Nat
  <1>1. /\ apply[a] \in RequestType(runs, Planned(apply))
        /\ InStage(apply[a], DOMAIN files)
        /\ Accounted(apply[a], limit, Planned(apply))
        /\ runs \in Seq(RunType)
    BY DEF ApplyInv, RequestInv
  <1>2. apply[a].rows \in Seq(Planned(apply)) /\ apply[a].failures \in Nat
    BY <1>1 DEF RequestType
  <1>3. apply[a].rows \in Seq(RowType)
    BY <1>2, PlannedKept
  <1>4. QED
    BY <1>1, <1>2, <1>3

LEMMA RequestStep ==
    ASSUME ApplyInv, NEW a \in Requests, Request(a) PROVE ApplyInv'
  <1>1. PICK ask \in Asks, k \in 0..Len(runs), m \in MaxChangesAsked :
          Put(a, [Unused EXCEPT !.stage = "queued", !.ask = ask, !.run = k, !.max = m])
    BY DEF Request
  <1> DEFINE r == [Unused EXCEPT !.stage = "queued", !.ask = ask, !.run = k, !.max = m]
  <1>2. Unused \in RequestType(runs, Planned(apply)) /\ Accounted(Unused, limit, Planned(apply))
    BY RequestKnown, UnusedAccounted
  <1>3. ask \in Asks /\ m \in Nat
    BY BoundsOK
  <1>4. r \in RequestType(runs, Planned(apply))
    BY <1>2, <1>3 DEF RequestType, Stages
  <1>5. /\ r.rows = Unused.rows /\ r.regions = Unused.regions /\ r.singles = Unused.singles
        /\ r.submitted = Unused.submitted /\ r.cores = Unused.cores /\ r.failures = Unused.failures
        /\ r.plan = <<>> /\ r.stage = "queued" /\ r.ask = ask
    BY DEF Unused
  <1>6. Put(a, r)
    BY <1>1
  <1> HIDE DEF r
  <1>7. Accounted(r, limit, Planned(apply))
    BY <1>2, <1>5, SameAccounted
  <1>8. InStage(r, DOMAIN files)
    BY <1>3, <1>5 DEF InStage
  <1>9. apply[a].plan = <<>>
    BY RequestKnown DEF InStage, Request, In
  <1>10. QED
    BY <1>4, <1>5, <1>6, <1>7, <1>8, <1>9, RequestMovesAlone DEF RequestInv, Request

\* The request only enters another stage.
LEMMA StageStep ==
    ASSUME ApplyInv, NEW a \in Requests, NEW stage \in {"completed", "failed"},
           stage = "completed" => apply[a].regions = {} /\ apply[a].singles = {},
           apply[a].stage # "unused"
    PROVE  RequestInv([apply[a] EXCEPT !.stage = stage], limit, Planned(apply), runs, DOMAIN files)
           /\ [apply[a] EXCEPT !.stage = stage].plan = apply[a].plan
  <1> DEFINE r == [apply[a] EXCEPT !.stage = stage]
  <1>1. apply[a] \in RequestType(runs, Planned(apply)) /\ InStage(apply[a], DOMAIN files)
        /\ Accounted(apply[a], limit, Planned(apply))
    BY RequestKnown
  <1>2. r \in RequestType(runs, Planned(apply))
    BY <1>1 DEF RequestType, Stages
  <1>3. /\ r.rows = apply[a].rows /\ r.regions = apply[a].regions /\ r.singles = apply[a].singles
        /\ r.submitted = apply[a].submitted /\ r.cores = apply[a].cores
        /\ r.failures = apply[a].failures /\ r.plan = apply[a].plan /\ r.stage = stage
        /\ r.ask = apply[a].ask /\ r.file = apply[a].file
    BY <1>1 DEF RequestType
  <1> HIDE DEF r
  <1>4. Accounted(r, limit, Planned(apply))
    BY <1>1, <1>3, SameAccounted
  <1>5. InStage(r, DOMAIN files)
    BY <1>1, <1>3 DEF InStage
  <1>6. QED
    BY <1>2, <1>3, <1>4, <1>5 DEF RequestInv, r

LEMMA StageSteps ==
    ASSUME ApplyInv, NEW a \in Requests,
           PlanFails(a) \/ ApplyFails(a) \/ Report(a) \/ LogFails(a)
    PROVE  ApplyInv'
  <1>1. \E stage \in {"completed", "failed"} :
          /\ stage = "completed" => apply[a].regions = {} /\ apply[a].singles = {}
          /\ apply[a].stage # "unused"
          /\ Put(a, [apply[a] EXCEPT !.stage = stage])
    <2>1. CASE PlanFails(a)
      BY <2>1 DEF PlanFails, In
    <2>2. CASE ApplyFails(a)
      BY <2>2 DEF ApplyFails, In
    <2>3. CASE Report(a)
      BY <2>3 DEF Report, In
    <2>4. CASE LogFails(a)
      BY <2>4 DEF LogFails, In
    <2>5. QED
      BY <2>1, <2>2, <2>3, <2>4
  <1>2. UNCHANGED <<limit, usage, seen, runs, files, second>>
    BY DEF PlanFails, ApplyFails, Report, LogFails
  <1>3. PICK stage \in {"completed", "failed"} :
          /\ stage = "completed" => apply[a].regions = {} /\ apply[a].singles = {}
          /\ apply[a].stage # "unused"
          /\ Put(a, [apply[a] EXCEPT !.stage = stage])
    BY <1>1
  <1>4. RequestInv([apply[a] EXCEPT !.stage = stage], limit, Planned(apply), runs, DOMAIN files)
        /\ [apply[a] EXCEPT !.stage = stage].plan = apply[a].plan
    BY <1>3, StageStep
  <1>5. Put(a, [apply[a] EXCEPT !.stage = stage])
    BY <1>3
  <1> DEFINE r == [apply[a] EXCEPT !.stage = stage]
  <1>6. r.plan = apply[a].plan /\ Put(a, r) /\ RequestInv(r, limit, Planned(apply), runs, DOMAIN files)
    BY <1>4, <1>5
  <1> HIDE DEF r
  <1>7. QED
    BY <1>2, <1>6, RequestMovesAlone

\* The script ends without a report, or with the process.
LEMMA UnscriptedStep ==
    ASSUME ApplyInv, NEW a \in Requests, NEW stage \in {"ready", "lost"},
           stage = "ready" => apply[a].stage = "script",
           apply[a].stage # "unused"
    PROVE  /\ RequestInv(Unscripted(apply[a], stage), limit, Planned(apply), runs, DOMAIN files)
           /\ Unscripted(apply[a], stage).plan = apply[a].plan
  <1> DEFINE r == Unscripted(apply[a], stage)
  <1>1. apply[a] \in RequestType(runs, Planned(apply)) /\ InStage(apply[a], DOMAIN files)
    BY RequestKnown
  <1>2. Accounted(Unused, limit, Planned(apply)) /\ Unused \in RequestType(runs, Planned(apply))
    BY RequestKnown, UnusedAccounted
  <1>3. r \in RequestType(runs, Planned(apply))
    <2>1. /\ <<>> \in Seq(Planned(apply)) /\ 0 \in Nat
          /\ {} \in SUBSET {RegionOf[f] : f \in Scopes} /\ {} \in SUBSET Nat
          /\ stage \in Stages
      BY DEF Stages
    <2>2. QED
      BY <1>1, <2>1 DEF RequestType, Unscripted
  <1>4. /\ r.rows = Unused.rows /\ r.regions = Unused.regions /\ r.singles = Unused.singles
        /\ r.submitted = Unused.submitted /\ r.cores = Unused.cores
        /\ r.failures = Unused.failures /\ r.plan = apply[a].plan /\ r.stage = stage
        /\ r.ask = apply[a].ask /\ r.file = apply[a].file
    BY <1>1 DEF RequestType, Unscripted, Unused
  <1> HIDE DEF r
  <1>5. Accounted(r, limit, Planned(apply))
    BY <1>2, <1>4, SameAccounted
  <1>6. InStage(r, DOMAIN files)
    BY <1>1, <1>4 DEF InStage
  <1>7. QED
    BY <1>3, <1>4, <1>5, <1>6 DEF RequestInv, r

LEMMA ScriptDiesStep ==
    ASSUME ApplyInv, NEW a \in Requests, ScriptDies(a) PROVE ApplyInv'
  <1> DEFINE r == Unscripted(apply[a], "ready")
  <1>1. /\ apply[a].stage = "script" /\ Put(a, r)
        /\ UNCHANGED <<limit, usage, seen, runs, files, second>>
    BY DEF ScriptDies, In
  <1>2. r.plan = apply[a].plan /\ RequestInv(r, limit, Planned(apply), runs, DOMAIN files)
    BY <1>1, UnscriptedStep
  <1> HIDE DEF r
  <1>3. QED
    BY <1>1, <1>2, RequestMovesAlone

LEMMA RestartStep ==
    ASSUME ApplyInv, Restart PROVE ApplyInv'
  <1>1. /\ apply' = [a \in Requests |->
                       IF apply[a].stage \in Ended \cup {"unused"} THEN apply[a]
                       ELSE Unscripted(apply[a], "lost")]
        /\ UNCHANGED <<limit, usage, seen, runs, files, second>>
    BY DEF Restart
  <1>2. ASSUME NEW a \in Requests
        PROVE  RequestInv(apply'[a], limit, Planned(apply), runs, DOMAIN files)
               /\ apply'[a].plan = apply[a].plan
    <2>1. CASE apply[a].stage \in Ended \cup {"unused"}
      BY <1>1, <2>1 DEF ApplyInv
    <2>2. CASE apply[a].stage \notin Ended \cup {"unused"}
      <3>1. /\ RequestInv(Unscripted(apply[a], "lost"), limit, Planned(apply), runs, DOMAIN files)
            /\ Unscripted(apply[a], "lost").plan = apply[a].plan
        BY <2>2, UnscriptedStep
      <3>2. QED
        BY <1>1, <2>2, <3>1
    <2>3. QED
      BY <2>1, <2>2
  <1>3. Planned(apply)' = Planned(apply)
    BY <1>2 DEF Planned
  <1>4. DOMAIN apply' = Requests
    BY <1>1
  <1>5. QED
    BY <1>1, <1>2, <1>3, <1>4 DEF ApplyInv

LEMMA ScriptStartsStep ==
    ASSUME ApplyInv, NEW a \in Requests, ScriptStarts(a) PROVE ApplyInv'
  <1> DEFINE all == files[apply[a].file]
             rows == SubSeq(all, 1, Least(Len(all), apply[a].max))
             r == [apply[a] EXCEPT !.stage = "script", !.rows = rows,
                      !.regions = RegionsOf(rows), !.singles = {},
                      !.submitted = 0, !.cores = 0, !.failures = 0,
                      !.runtimes = @ - 1]
  <1>1. Put(a, r) /\ UNCHANGED <<limit, usage, seen, runs, files, second>>
        /\ apply[a].stage = "ready" /\ apply[a].runtimes > 0
    BY DEF ScriptStarts, In
  <1>2. apply[a] \in RequestType(runs, Planned(apply)) /\ InStage(apply[a], DOMAIN files)
    BY RequestKnown
  <1>3. all \in Seq(Planned(apply))
    <2>1. apply[a].file \in DOMAIN files
      BY <1>1, <1>2 DEF InStage
    <2>2. QED
      BY <2>1 DEF ApplyInv, FilesInv
  <1>4. rows \in Seq(Planned(apply))
    <2>1. apply[a].max \in Nat
      BY <1>2 DEF RequestType
    <2> HIDE DEF all
    <2>2. Len(all) \in Nat /\ Least(Len(all), apply[a].max) \in 0..Len(all)
      BY <1>3, <2>1 DEF Least
    <2>3. QED
      BY <1>3, <2>2
  <1> HIDE DEF rows, all
  <1>5. rows \in Seq(RowType)
    BY <1>4, PlannedKept
  <1>6. RegionsOf(rows) \in SUBSET {RegionOf[f] : f \in Scopes}
    <2>1. \A i \in DOMAIN rows : rows[i] \in RowType
      BY <1>5
    <2>2. \A i \in DOMAIN rows : rows[i].scope \in Scopes
      BY <2>1 DEF RowType
    <2>3. QED
      BY <2>2 DEF RegionsOf
  <1>7. r \in RequestType(runs, Planned(apply))
    <2>1. apply[a].runtimes - 1 \in Nat
      BY <1>1, <1>2 DEF RequestType
    <2>2. QED
      BY <1>2, <1>4, <1>6, <2>1 DEF RequestType, Stages
  <1>8. /\ r.rows = rows /\ r.regions = RegionsOf(rows) /\ r.singles = {} /\ r.submitted = 0
        /\ r.cores = 0 /\ r.plan = apply[a].plan /\ r.stage = "script" /\ r.ask = apply[a].ask
        /\ r.file = apply[a].file
    BY <1>2 DEF RequestType
  <1> HIDE DEF r
  <1>9. Accounted(r, limit, Planned(apply))
    BY <1>5, <1>8, StartedIsAccounted
  <1>10. InStage(r, DOMAIN files)
    BY <1>1, <1>2, <1>8 DEF InStage
  <1>11. RequestInv(r, limit, Planned(apply), runs, DOMAIN files)
    BY <1>7, <1>9, <1>10 DEF RequestInv
  <1>12. QED
    BY <1>1, <1>8, <1>11, RequestMovesAlone

\* A script sends rows with these numbers, or none of them.
LEMMA SendingKeeps ==
    ASSUME ApplyInv, NEW a \in Requests, NEW numbers \in SUBSET DOMAIN apply[a].rows,
           limit' \in Patched(apply[a].rows, numbers)
    PROVE  /\ LimitsInv(limit', Planned(apply))
           /\ \A f \in Scopes, d \in Subs :
                 Touched(limit, Planned(apply), f, d) => Touched(limit', Planned(apply), f, d)
           /\ \A i \in numbers : Touched(limit', Planned(apply), apply[a].rows[i].scope, apply[a].rows[i].donor)
  <1> DEFINE rows == apply[a].rows
             planned == Planned(apply)
  <1>1. rows \in Seq(RowType) /\ rows \in Seq(planned) /\ planned \in SUBSET RowType
    BY RequestKnown, PlannedKept DEF RequestType
  <1>2. LimitsInv(limit, planned) /\ limit \in [Scopes -> [Subs -> Nat]]
    BY DEF ApplyInv, LimitsInv
  <1> HIDE DEF rows, planned
  <1>3. numbers \in SUBSET DOMAIN rows /\ limit' \in Patched(rows, numbers)
    BY DEF rows
  <1>4. Sends(limit, limit', rows, numbers)
    BY <1>1, <1>2, <1>3, PatchedSends
  <1>5. /\ LimitsInv(limit', planned)
        /\ \A f \in Scopes, s \in Subs : Touched(limit, planned, f, s) => Touched(limit', planned, f, s)
        /\ \A i \in numbers : Touched(limit', planned, rows[i].scope, rows[i].donor)
    BY <1>1, <1>2, <1>3, <1>4, SendsKeeps
  <1>6. QED
    BY <1>5 DEF rows, planned

\* The first of the rows that are left.
LEMMA FirstOfSingles ==
    ASSUME ApplyInv, NEW a \in Requests, apply[a].singles # {}
    PROVE  FirstOf(apply[a].singles) \in apply[a].singles
           /\ {FirstOf(apply[a].singles)} \in SUBSET DOMAIN apply[a].rows
  <1>1. apply[a].singles \in SUBSET Nat /\ apply[a].singles \subseteq DOMAIN apply[a].rows
    BY RequestKnown DEF RequestType, Accounted
  <1>2. \E m \in apply[a].singles : \A n \in apply[a].singles : m <= n
    BY <1>1, NaturalsHaveSmallest
  <1>3. FirstOf(apply[a].singles) \in apply[a].singles
    BY <1>2 DEF FirstOf
  <1>4. QED
    BY <1>1, <1>3

LEMMA BatchSubmittedStep ==
    ASSUME ApplyInv, NEW a \in Requests, NEW g \in apply[a].regions, BatchSubmitted(a, g)
    PROVE  ApplyInv'
  <1> DEFINE b == BatchOf(apply[a], g)
             r == [apply[a] EXCEPT !.regions = @ \ {g}, !.submitted = @ + Cardinality(b),
                                   !.cores = @ + CoresOf(apply[a].rows, b)]
             planned == Planned(apply)
  <1>1. Batch(a, g) = b
    BY DEF Batch, BatchOf
  <1>2. Put(a, r) /\ UNCHANGED <<usage, seen, runs, files, second>>
        /\ apply[a].stage = "script" /\ apply[a].singles = {}
        /\ limit' \in Patched(apply[a].rows, b)
    BY <1>1 DEF BatchSubmitted, In
  <1>3. apply[a] \in RequestType(runs, planned) /\ InStage(apply[a], DOMAIN files)
        /\ Accounted(apply[a], limit, planned) /\ apply[a].rows \in Seq(RowType)
    BY RequestKnown
  <1>4. b \in SUBSET DOMAIN apply[a].rows
    BY DEF BatchOf
  <1> HIDE DEF b
  <1>5. Cardinality(b) \in Nat /\ CoresOf(apply[a].rows, b) \in Nat
    <2>1. b \cap {} = {} /\ {} \in SUBSET DOMAIN apply[a].rows
      OBVIOUS
    <2>2. QED
      BY <1>3, <1>4, <2>1, CoresLaws
  <1>6. r \in RequestType(runs, planned)
    <2>1. apply[a].regions \ {g} \in SUBSET {RegionOf[f] : f \in Scopes} /\ apply[a].submitted + Cardinality(b) \in Nat
          /\ apply[a].cores + CoresOf(apply[a].rows, b) \in Nat
      <3>1. apply[a].regions \in SUBSET {RegionOf[f] : f \in Scopes}
            /\ apply[a].submitted \in Nat /\ apply[a].cores \in Nat
        BY <1>3 DEF RequestType
      <3>2. QED
        BY <1>5, <3>1
    <2>2. ASSUME NEW q \in SUBSET {RegionOf[f] : f \in Scopes}, NEW n \in Nat, NEW c \in Nat
          PROVE  [apply[a] EXCEPT !.regions = q, !.submitted = n, !.cores = c] \in RequestType(runs, planned)
      BY <1>3 DEF RequestType
    <2> HIDE DEF planned
    <2>3. QED
      BY <2>1, <2>2
  <1>7. /\ r.rows = apply[a].rows /\ r.regions = apply[a].regions \ {g} /\ r.singles = {}
        /\ r.submitted = apply[a].submitted + Cardinality(b)
        /\ r.cores = apply[a].cores + CoresOf(apply[a].rows, b)
        /\ r.failures = apply[a].failures /\ r.plan = apply[a].plan /\ r.stage = "script"
        /\ r.ask = apply[a].ask /\ r.file = apply[a].file
    BY <1>2, <1>3 DEF RequestType
  <1> HIDE DEF r, planned
  <1>8. Settles(apply[a], r, b)
    BY <1>2, <1>7, BatchSettles DEF b
  <1>9. /\ LimitsInv(limit', planned)
        /\ \A f \in Scopes, d \in Subs : Touched(limit, planned, f, d) => Touched(limit', planned, f, d)
        /\ \A i \in b : Touched(limit', planned, apply[a].rows[i].scope, apply[a].rows[i].donor)
    BY <1>2, <1>4, SendingKeeps DEF planned
  <1>10. Accounted(r, limit', planned)
    BY <1>3, <1>4, <1>7, <1>8, <1>9, SentIsAccounted
  <1>11. InStage(r, DOMAIN files)
    BY <1>2, <1>3, <1>7 DEF InStage
  <1>12. RequestInv(r, limit', planned, runs, DOMAIN files)
    BY <1>6, <1>10, <1>11 DEF RequestInv
  <1>13. QED
    BY <1>2, <1>7, <1>9, <1>12, RequestMoves DEF planned

LEMMA SingleSubmittedStep ==
    ASSUME ApplyInv, NEW a \in Requests, SingleSubmitted(a) PROVE ApplyInv'
  <1> DEFINE i == FirstOf(apply[a].singles)
             b == {i}
             r == [apply[a] EXCEPT !.singles = @ \ b, !.submitted = @ + 1,
                                   !.cores = @ + CoresOf(apply[a].rows, b)]
             planned == Planned(apply)
  <1>1. Put(a, r) /\ UNCHANGED <<usage, seen, runs, files, second>>
        /\ apply[a].stage = "script" /\ apply[a].singles # {}
        /\ limit' \in Patched(apply[a].rows, b)
    BY DEF SingleSubmitted, In
  <1>2. apply[a] \in RequestType(runs, planned) /\ InStage(apply[a], DOMAIN files)
        /\ Accounted(apply[a], limit, planned) /\ apply[a].rows \in Seq(RowType)
    BY RequestKnown
  <1>3. i \in apply[a].singles /\ b \in SUBSET DOMAIN apply[a].rows
    BY <1>1, FirstOfSingles
  <1>4. Cardinality(b) = 1
    BY FS_Singleton
  <1> HIDE DEF i
  <1>5. CoresOf(apply[a].rows, b) \in Nat
    <2>1. b \cap {} = {} /\ {} \in SUBSET DOMAIN apply[a].rows
      OBVIOUS
    <2> HIDE DEF b
    <2>2. QED
      BY <1>2, <1>3, <2>1, CoresLaws
  <1>6. r \in RequestType(runs, planned)
    <2>1. apply[a].singles \ b \in SUBSET Nat /\ apply[a].submitted + 1 \in Nat
          /\ apply[a].cores + CoresOf(apply[a].rows, b) \in Nat
      <3>1. apply[a].singles \in SUBSET Nat /\ apply[a].submitted \in Nat /\ apply[a].cores \in Nat
        BY <1>2 DEF RequestType
      <3>2. QED
        BY <1>5, <3>1
    <2>2. ASSUME NEW q \in SUBSET Nat, NEW n \in Nat, NEW c \in Nat
          PROVE  [apply[a] EXCEPT !.singles = q, !.submitted = n, !.cores = c] \in RequestType(runs, planned)
      BY <1>2 DEF RequestType
    <2> HIDE DEF planned
    <2>3. QED
      BY <2>1, <2>2
  <1>7. /\ r.rows = apply[a].rows /\ r.regions = apply[a].regions
        /\ r.singles = apply[a].singles \ {i}
        /\ r.submitted = apply[a].submitted + 1
        /\ r.cores = apply[a].cores + CoresOf(apply[a].rows, b)
        /\ r.failures = apply[a].failures /\ r.plan = apply[a].plan /\ r.stage = "script"
        /\ r.ask = apply[a].ask /\ r.file = apply[a].file
    BY <1>1, <1>2 DEF RequestType
  <1> HIDE DEF r, planned
  <1>8. Settles(apply[a], r, b)
    BY <1>2, <1>3, <1>7, SingleSettles
  <1>9. /\ LimitsInv(limit', planned)
        /\ \A f \in Scopes, d \in Subs : Touched(limit, planned, f, d) => Touched(limit', planned, f, d)
        /\ \A j \in b : Touched(limit', planned, apply[a].rows[j].scope, apply[a].rows[j].donor)
    <2> HIDE DEF b
    <2>1. QED
      BY <1>1, <1>3, SendingKeeps DEF planned
  <1>10. apply[a].failures = 0 => r.singles = {}
    BY <1>1, <1>2 DEF Accounted
  <1>11. Accounted(r, limit', planned)
    <2> HIDE DEF b
    <2>1. QED
      BY <1>2, <1>3, <1>4, <1>7, <1>8, <1>9, <1>10, SentIsAccounted
  <1>12. InStage(r, DOMAIN files)
    BY <1>1, <1>2, <1>7 DEF InStage
  <1>13. RequestInv(r, limit', planned, runs, DOMAIN files)
    BY <1>6, <1>11, <1>12 DEF RequestInv
  <1>14. QED
    BY <1>1, <1>7, <1>9, <1>13, RequestMoves DEF planned

LEMMA BatchFailedStep ==
    ASSUME ApplyInv, NEW a \in Requests, NEW g \in apply[a].regions, BatchFailed(a, g)
    PROVE  ApplyInv'
  <1> DEFINE b == BatchOf(apply[a], g)
             r == [apply[a] EXCEPT !.regions = @ \ {g}, !.singles = b, !.failures = @ + 1]
             planned == Planned(apply)
  <1>1. Batch(a, g) = b
    BY DEF Batch, BatchOf
  <1>2. Put(a, r) /\ UNCHANGED <<limit, usage, seen, runs, files, second>>
        /\ apply[a].stage = "script" /\ apply[a].singles = {}
    BY <1>1 DEF BatchFailed, In
  <1>3. apply[a] \in RequestType(runs, planned) /\ InStage(apply[a], DOMAIN files)
        /\ Accounted(apply[a], limit, planned) /\ apply[a].rows \in Seq(RowType)
        /\ apply[a].failures \in Nat
    BY RequestKnown
  <1>4. b \in SUBSET Nat
    <2>1. DOMAIN apply[a].rows \in SUBSET Nat
      BY <1>3
    <2>2. QED
      BY <2>1 DEF BatchOf
  <1> HIDE DEF b
  <1>5. r \in RequestType(runs, planned)
    <2>1. apply[a].regions \ {g} \in SUBSET {RegionOf[f] : f \in Scopes} /\ apply[a].failures + 1 \in Nat /\ b \in SUBSET Nat
      BY <1>3, <1>4 DEF RequestType
    <2>2. ASSUME NEW q \in SUBSET {RegionOf[f] : f \in Scopes}, NEW m \in SUBSET Nat, NEW n \in Nat
          PROVE  [apply[a] EXCEPT !.regions = q, !.singles = m, !.failures = n] \in RequestType(runs, planned)
      BY <1>3 DEF RequestType
    <2> HIDE DEF planned
    <2>3. QED
      BY <2>1, <2>2
  <1>6. /\ r.rows = apply[a].rows /\ r.regions = apply[a].regions \ {g} /\ r.singles = b
        /\ r.submitted = apply[a].submitted /\ r.failures = apply[a].failures + 1
        /\ r.plan = apply[a].plan /\ r.stage = "script"
        /\ r.ask = apply[a].ask /\ r.file = apply[a].file
    BY <1>2, <1>3 DEF RequestType
  <1> HIDE DEF r, planned
  <1>7. Settles(apply[a], r, {})
    BY <1>2, <1>6, RefusedSettlesNone DEF b
  <1>8. r.failures # 0
    BY <1>3, <1>6
  <1>9. Accounted(r, limit, planned)
    BY <1>3, <1>6, <1>7, <1>8, FailedIsAccounted
  <1>10. InStage(r, DOMAIN files)
    BY <1>2, <1>3, <1>6 DEF InStage
  <1>11. RequestInv(r, limit, planned, runs, DOMAIN files)
    BY <1>5, <1>9, <1>10 DEF RequestInv
  <1>12. QED
    BY <1>2, <1>6, <1>11, RequestMovesAlone DEF planned

LEMMA SingleFailedStep ==
    ASSUME ApplyInv, NEW a \in Requests, SingleFailed(a) PROVE ApplyInv'
  <1> DEFINE i == FirstOf(apply[a].singles)
             r == [apply[a] EXCEPT !.singles = @ \ {i}, !.failures = @ + 1]
             planned == Planned(apply)
  <1>1. Put(a, r) /\ UNCHANGED <<limit, usage, seen, runs, files, second>>
        /\ apply[a].stage = "script" /\ apply[a].singles # {}
    BY DEF SingleFailed, In
  <1>2. apply[a] \in RequestType(runs, planned) /\ InStage(apply[a], DOMAIN files)
        /\ Accounted(apply[a], limit, planned) /\ apply[a].failures \in Nat
    BY RequestKnown
  <1>3. i \in apply[a].singles
    BY <1>1, FirstOfSingles
  <1> HIDE DEF i
  <1>4. r \in RequestType(runs, planned)
    <2>1. apply[a].singles \ {i} \in SUBSET Nat /\ apply[a].failures + 1 \in Nat
      BY <1>2 DEF RequestType
    <2>2. ASSUME NEW q \in SUBSET Nat, NEW n \in Nat
          PROVE  [apply[a] EXCEPT !.singles = q, !.failures = n] \in RequestType(runs, planned)
      BY <1>2 DEF RequestType
    <2> HIDE DEF planned
    <2>3. QED
      BY <2>1, <2>2
  <1>5. /\ r.rows = apply[a].rows /\ r.regions = apply[a].regions
        /\ r.singles = apply[a].singles \ {i}
        /\ r.submitted = apply[a].submitted /\ r.failures = apply[a].failures + 1
        /\ r.plan = apply[a].plan /\ r.stage = "script"
        /\ r.ask = apply[a].ask /\ r.file = apply[a].file
    BY <1>1, <1>2 DEF RequestType
  <1> HIDE DEF r, planned
  <1>6. Settles(apply[a], r, {i})
    BY <1>2, <1>3, <1>5, SingleSettles
  <1>7. r.failures # 0
    BY <1>2, <1>5
  <1>8. Accounted(r, limit, planned)
    BY <1>2, <1>5, <1>6, <1>7, FailedIsAccounted
  <1>9. InStage(r, DOMAIN files)
    BY <1>1, <1>2, <1>5 DEF InStage
  <1>10. RequestInv(r, limit, planned, runs, DOMAIN files)
    BY <1>4, <1>8, <1>9 DEF RequestInv
  <1>11. QED
    BY <1>1, <1>5, <1>10, RequestMovesAlone DEF planned

LEMMA UnansweredStep ==
    ASSUME ApplyInv, NEW a \in Requests, Unanswered(a) PROVE ApplyInv'
  <1> DEFINE planned == Planned(apply)
  <1>1. UNCHANGED <<usage, seen, runs, apply, files, second>>
    BY DEF Unanswered
  <1>2. PICK numbers \in SUBSET DOMAIN apply[a].rows : limit' \in Patched(apply[a].rows, numbers)
    <2>1. CASE \E g \in apply[a].regions : limit' \in Patched(apply[a].rows, Batch(a, g))
      BY <2>1 DEF Batch
    <2>2. CASE /\ apply[a].singles # {}
               /\ limit' \in Patched(apply[a].rows, {FirstOf(apply[a].singles)})
      BY <2>2, FirstOfSingles
    <2>3. QED
      BY <2>1, <2>2 DEF Unanswered
  <1>3. /\ LimitsInv(limit', planned)
        /\ \A f \in Scopes, d \in Subs : Touched(limit, planned, f, d) => Touched(limit', planned, f, d)
    BY <1>2, SendingKeeps
  <1>4. planned \in SUBSET KeptRows(runs) /\ runs \in Seq(RunType) /\ Len(runs) \in Nat
        /\ Len(runs) <= Len(runs)
    <2>1. runs \in Seq(RunType)
      BY DEF ApplyInv
    <2>2. QED
      BY <2>1, PlannedKept
  <1>5. Planned(apply)' = planned
    BY <1>1 DEF Planned
  <1>6. ASSUME NEW b \in Requests
        PROVE  RequestInv(apply[b], limit', planned, runs, DOMAIN files)
    <2>1. RequestInv(apply[b], limit, planned, runs, DOMAIN files)
      BY DEF ApplyInv
    <2> HIDE DEF planned
    <2>2. QED
      BY <1>3, <1>4, <2>1, RequestKeeps
  <1>7. QED
    BY <1>1, <1>3, <1>5, <1>6 DEF ApplyInv

\* The plan is built from the run, and goes to the file of this second.
LEMMA BuildPlanStep ==
    ASSUME ApplyInv, NEW a \in Requests, BuildPlan(a) PROVE ApplyInv'
  <1> DEFINE k == RunOf(a)
             rows == MovePlan(runs[k], ScopeOrder, apply[a].ask)
             r == [apply[a] EXCEPT !.stage = "ready", !.plan = rows,
                                   !.run = k, !.file = second, !.runtimes = Runtimes,
                                   !.max = IF @ = 0 THEN Len(rows) ELSE @]
             planned == Planned(apply)
  <1>1. /\ Put(a, r) /\ UNCHANGED <<limit, usage, seen, runs, second>>
        /\ files' = [x \in DOMAIN files \cup {second} |-> IF x = second THEN rows ELSE files[x]]
        /\ apply[a].stage = "queued" /\ k # 0
    BY DEF BuildPlan, In
  <1>2. apply[a] \in RequestType(runs, planned) /\ InStage(apply[a], DOMAIN files)
        /\ Accounted(apply[a], limit, planned) /\ runs \in Seq(RunType) /\ Len(runs) \in Nat
    BY RequestKnown
  <1>3. k \in DOMAIN runs
    <2>1. apply[a].run \in 0..Len(runs)
      BY <1>2 DEF RequestType
    <2>2. QED
      BY <1>1, <1>2, <2>1 DEF RunOf
  <1>4. apply[a].ask \in Asks /\ apply[a].plan = <<>>
    BY <1>1, <1>2 DEF InStage
  <1> HIDE DEF k
  <1>5. rows \in Seq(KeptRows(runs))
    BY <1>2, <1>3, <1>4, PlanKept
  <1> HIDE DEF rows
  <1> DEFINE planned2 == planned \cup ToSet(rows)
  <1>6. rows \in Seq(planned2)
    BY <1>5 DEF ToSet
  <1>7. /\ DOMAIN apply' = Requests /\ apply'[a] = r
        /\ \A b \in Requests : b # a => apply'[b] = apply[b]
    BY <1>1 DEF ApplyInv, Put
  <1>8. /\ r.rows = apply[a].rows /\ r.regions = apply[a].regions /\ r.singles = apply[a].singles
        /\ r.submitted = apply[a].submitted /\ r.cores = apply[a].cores
        /\ r.failures = apply[a].failures /\ r.plan = rows /\ r.stage = "ready"
        /\ r.ask = apply[a].ask /\ r.file = second
    BY <1>2 DEF RequestType
  <1>9. Planned(apply)' = planned2
    <2>1. ToSet(apply[a].plan) = {}
      BY <1>4 DEF ToSet
    <2>2. \A b \in Requests : b # a => ToSet(apply'[b].plan) = ToSet(apply[b].plan)
      BY <1>7
    <2>3. ToSet(apply'[a].plan) = ToSet(rows)
      BY <1>7, <1>8
    <2>4. \A x : x \in Planned(apply)' <=> x \in planned2
      <3>1. Planned(apply)' = UNION {ToSet(apply'[b].plan) : b \in Requests}
        BY DEF Planned
      <3>2. planned = UNION {ToSet(apply[b].plan) : b \in Requests}
        BY DEF Planned
      <3> HIDE DEF planned
      <3>3. QED
        BY <2>1, <2>2, <2>3, <3>1, <3>2
    <2>5. QED
      BY <2>4
  <1>10. planned \in SUBSET KeptRows(runs) /\ planned \subseteq planned2
    BY PlannedKept
  <1>11. \A f \in Scopes, d \in Subs : Touched(limit, planned, f, d) => Touched(limit, planned2, f, d)
    BY <1>10 DEF Touched
  <1>12. second \in Nat \ {0} /\ DOMAIN files \subseteq DOMAIN files' /\ second \in DOMAIN files'
    BY <1>1 DEF ApplyInv, FilesInv
  <1>13. LimitsInv(limit, planned2)
    BY <1>11 DEF ApplyInv, LimitsInv
  <1>14. FilesInv(files', planned2, second)
    <2>1. DOMAIN files' = DOMAIN files \cup {second}
      BY <1>1
    <2>2. DOMAIN files \subseteq 1..second /\ second \in 1..second
      BY <1>12 DEF ApplyInv, FilesInv
    <2>3. ASSUME NEW x \in DOMAIN files' PROVE files'[x] \in Seq(planned2)
      <3>1. CASE x = second
        BY <1>1, <1>6, <2>1, <3>1
      <3>2. CASE x # second
        <4>1. files'[x] = files[x] /\ files[x] \in Seq(planned)
          BY <1>1, <2>1, <3>2 DEF ApplyInv, FilesInv
        <4> HIDE DEF planned, planned2
        <4>2. QED
          BY <1>10, <4>1
      <3>3. QED
        BY <3>1, <3>2
    <2>4. QED
      BY <1>12, <2>1, <2>2, <2>3 DEF FilesInv
  <1>15. ASSUME NEW b \in Requests
         PROVE  RequestInv(apply[b], limit, planned2, runs, DOMAIN files')
    <2>1. RequestInv(apply[b], limit, planned, runs, DOMAIN files)
      BY DEF ApplyInv
    <2>2. Len(runs) <= Len(runs)
      BY <1>2
    <2> HIDE DEF planned, planned2
    <2>3. QED
      BY <1>2, <1>10, <1>11, <1>12, <2>1, <2>2, RequestKeeps
  <1>16. RequestInv(r, limit, planned2, runs, DOMAIN files')
    <2>1. apply[a] \in RequestType(runs, planned2) /\ Accounted(apply[a], limit, planned2)
      BY <1>15 DEF RequestInv
    <2>2. r \in RequestType(runs, planned2)
      <3>1. second \in Nat /\ Runtimes \in Nat
            /\ (IF apply[a].max = 0 THEN Len(rows) ELSE apply[a].max) \in Nat
        BY <1>5, <1>12, <2>1, BoundsOK DEF RequestType
      <3> k \in 0..Len(runs)
        BY <1>2, <1>3
      <3> HIDE DEF planned2, planned
      <3>2. ASSUME NEW m \in Nat
            PROVE  [apply[a] EXCEPT !.stage = "ready", !.plan = rows, !.run = k, !.file = second,
                                    !.runtimes = Runtimes, !.max = m] \in RequestType(runs, planned2)
        BY <1>5, <2>1, <3>1 DEF RequestType, Stages
      <3>3. QED
        BY <3>1, <3>2
    <2> HIDE DEF r
    <2>3. Accounted(r, limit, planned2)
      BY <1>8, <2>1, SameAccounted
    <2>4. InStage(r, DOMAIN files')
      BY <1>4, <1>8, <1>12 DEF InStage
    <2>5. QED
      BY <2>2, <2>3, <2>4 DEF RequestInv
  <1> HIDE DEF r, planned2, planned
  <1>17. \A b \in Requests : RequestInv(apply'[b], limit, planned2, runs, DOMAIN files')
    BY <1>7, <1>15, <1>16
  <1>18. QED
    BY <1>1, <1>7, <1>9, <1>13, <1>14, <1>17 DEF ApplyInv

LEMMA CaptureStep ==
    ASSUME ApplyInv, Capture PROVE ApplyInv'
  <1> DEFINE captured(f, s) == Candidate(<<[current |-> seen[f][s].current, limit |-> seen[f][s].limit,
                                            state |-> ComputeAvailabilityState(TRUE, seen[f][s])]>>)
             x == [f \in Scopes |-> [s \in Subs |-> captured(f, s)]]
             planned == Planned(apply)
             rs2 == Append(runs, x)
  <1>1. runs' = rs2 /\ UNCHANGED <<limit, usage, seen, apply, files, second>>
    BY DEF Capture
  <1>2. runs \in Seq(RunType) /\ seen \in [Scopes -> [Subs -> [current : Nat, limit : Nat]]]
    BY DEF ApplyInv
  <1>3. ASSUME NEW f \in Scopes, NEW s \in Subs PROVE captured(f, s) \in CandidateType
    <2>1. seen[f][s].current \in Nat /\ seen[f][s].limit \in Nat
      BY <1>2
    <2>2. ComputeAvailabilityState(TRUE, seen[f][s]) \in AvailabilityStates
      <3>1. Available(seen[f][s]) \in Int
        BY <2>1 DEF Available
      <3>2. QED
        BY <3>1 DEF ComputeAvailabilityState, AvailabilityStates
    <2> DEFINE row == [current |-> seen[f][s].current, limit |-> seen[f][s].limit,
                       state |-> ComputeAvailabilityState(TRUE, seen[f][s])]
    <2>3. row \in [current : Nat, limit : Nat, state : AvailabilityStates]
      BY <2>1, <2>2
    <2> HIDE DEF row
    <2>4. Candidate(<<row>>) \in CandidateType
      BY <2>3, CandidateOfOne
    <2>5. QED
      BY <2>4 DEF row
  <1> HIDE DEF captured
  <1>4. x \in RunType
    BY <1>3 DEF RunType
  <1> HIDE DEF x
  <1>5. rs2 \in Seq(RunType) /\ Len(runs) \in Nat /\ Len(rs2) \in Nat /\ Len(runs) <= Len(rs2)
    BY <1>2, <1>4
  <1>6. KeptRows(runs) \subseteq KeptRows(rs2)
    BY <1>2, <1>4, KeptGrow
  <1>7. planned \in SUBSET KeptRows(runs)
    BY PlannedKept
  <1>8. ASSUME NEW b \in Requests
        PROVE  RequestInv(apply[b], limit, planned, rs2, DOMAIN files)
    <2>1. RequestInv(apply[b], limit, planned, runs, DOMAIN files)
      BY DEF ApplyInv
    <2> HIDE DEF planned, rs2
    <2>2. QED
      BY <1>5, <1>6, <1>7, <2>1, RequestKeeps
  <1>9. Planned(apply)' = planned
    BY <1>1 DEF Planned
  <1> HIDE DEF rs2
  <1>10. QED
    BY <1>1, <1>5, <1>8, <1>9 DEF ApplyInv

LEMMA AzureType ==
    ASSUME NEW l \in [Scopes -> [Subs -> Nat]], NEW u \in [Scopes -> [Subs -> Nat]]
    PROVE  Azure(l, u) \in [Scopes -> [Subs -> [current : Nat, limit : Nat]]]
  BY DEF Azure

\* The surroundings.
LEMMA OtherSteps ==
    ASSUME ApplyInv,
           \/ \E f \in Scopes, s \in Growing : Grow(f, s)
           \/ Ingest \/ NextSecond \/ UNCHANGED vars
    PROVE  ApplyInv'
  <1>1. UNCHANGED <<limit, runs, apply, files>>
    BY DEF Grow, Ingest, NextSecond, vars
  <1>2. usage' \in [Scopes -> [Subs -> Nat]]
    <2>1. CASE \E f \in Scopes, s \in Growing : Grow(f, s)
      <3>1. PICK f \in Scopes, s \in Growing : usage' = [usage EXCEPT ![f][s] = @ + 1]
        BY <2>1 DEF Grow
      <3>2. s \in Subs
        BY BoundsOK
      <3>3. usage \in [Scopes -> [Subs -> Nat]]
        BY DEF ApplyInv
      <3>4. usage[f][s] \in Nat /\ usage[f] \in [Subs -> Nat]
        BY <3>2, <3>3
      <3>5. [usage[f] EXCEPT ![s] = usage[f][s] + 1] \in [Subs -> Nat]
        <4>1. usage[f][s] + 1 \in Nat
          BY <3>4
        <4>2. \A g \in [Subs -> Nat], n \in Nat : [g EXCEPT ![s] = n] \in [Subs -> Nat]
          OBVIOUS
        <4>3. QED
          BY <3>4, <4>1, <4>2
      <3>6. usage' = [usage EXCEPT ![f] = [usage[f] EXCEPT ![s] = usage[f][s] + 1]]
        BY <3>1
      <3>7. QED
        BY <3>3, <3>5, <3>6
    <2>2. CASE UNCHANGED usage
      BY <2>2 DEF ApplyInv
    <2>3. QED
      BY <2>1, <2>2 DEF Ingest, NextSecond, vars
  <1>3. seen' \in [Scopes -> [Subs -> [current : Nat, limit : Nat]]]
    <2>1. CASE Ingest
      BY <2>1, AzureType DEF Ingest, ApplyInv, LimitsInv
    <2>2. CASE UNCHANGED seen
      BY <2>2 DEF ApplyInv
    <2>3. QED
      BY <2>1, <2>2 DEF Grow, NextSecond, vars
  <1>4. FilesInv(files, Planned(apply), second')
    <2>1. FilesInv(files, Planned(apply), second)
      BY DEF ApplyInv
    <2>2. second' = second \/ second' = second + 1
      BY DEF Grow, Ingest, NextSecond, vars
    <2>3. QED
      BY <2>1, <2>2 DEF FilesInv
  <1>5. Planned(apply)' = Planned(apply)
    BY <1>1 DEF Planned
  <1>6. QED
    BY <1>1, <1>2, <1>3, <1>4, <1>5 DEF ApplyInv

LEMMA ApplyInvInductive == Spec => []ApplyInv
  <1>1. Init => ApplyInv
    <2> SUFFICES ASSUME Init PROVE ApplyInv
      OBVIOUS
    <2>1. limit \in [Scopes -> [Subs -> Nat]] /\ usage \in [Scopes -> [Subs -> Nat]]
          /\ seen \in [Scopes -> [Subs -> [current : Nat, limit : Nat]]]
      BY BoundsOK, AzureType DEF Init
    <2>2. LimitsInv(limit, Planned(apply))
      BY <2>1 DEF Init, LimitsInv
    <2>3. FilesInv(files, Planned(apply), second) /\ runs \in Seq(RunType) /\ Len(runs) \in Nat
      BY DEF Init, FilesInv
    <2>4. DOMAIN apply = Requests /\ \A a \in Requests : apply[a] = Unused
      BY DEF Init
    <2>5. RequestInv(Unused, limit, Planned(apply), runs, DOMAIN files)
      <3>1. InStage(Unused, DOMAIN files)
        BY DEF InStage, Unused
      <3>2. QED
        BY <2>3, <3>1, UnusedAccounted DEF RequestInv
    <2>6. QED
      BY <2>1, <2>2, <2>3, <2>4, <2>5 DEF ApplyInv
  <1>2. ApplyInv /\ [Next]_vars => ApplyInv'
    <2> SUFFICES ASSUME ApplyInv, [Next]_vars PROVE ApplyInv'
      OBVIOUS
    <2>1. ASSUME NEW a \in Requests, Request(a) \/ ApplyStep(a) \/ Unanswered(a) \/ LogFails(a)
          PROVE  ApplyInv'
      <3>1. CASE Request(a)
        BY <3>1, RequestStep
      <3>2. CASE BuildPlan(a)
        BY <3>2, BuildPlanStep
      <3>3. CASE PlanFails(a) \/ ApplyFails(a) \/ Report(a) \/ LogFails(a)
        BY <3>3, StageSteps
      <3>4. CASE ScriptStarts(a)
        BY <3>4, ScriptStartsStep
      <3>5. ASSUME NEW g \in apply[a].regions, BatchSubmitted(a, g) \/ BatchFailed(a, g)
            PROVE  ApplyInv'
        BY <3>5, BatchSubmittedStep, BatchFailedStep
      <3>6. CASE SingleSubmitted(a)
        BY <3>6, SingleSubmittedStep
      <3>7. CASE SingleFailed(a)
        BY <3>7, SingleFailedStep
      <3>8. CASE Unanswered(a)
        BY <3>8, UnansweredStep
      <3>9. CASE ScriptDies(a)
        BY <3>9, ScriptDiesStep
      <3>10. QED
        BY <2>1, <3>1, <3>2, <3>3, <3>4, <3>5, <3>6, <3>7, <3>8, <3>9 DEF ApplyStep
    <2>2. CASE Restart
      BY <2>2, RestartStep
    <2>3. CASE Capture
      BY <2>3, CaptureStep
    <2>4. CASE \/ \E f \in Scopes, s \in Growing : Grow(f, s)
               \/ Ingest \/ NextSecond \/ UNCHANGED vars
      BY <2>4, OtherSteps
    <2>5. QED
      BY <2>1, <2>2, <2>3, <2>4 DEF Next
  <1>3. QED
    BY <1>1, <1>2, PTL DEF Spec

\* The variables have their types, whatever is asked of Azure and when.
THEOREM ApplyTypesOK == Spec => []TypeOK
  <1>1. ApplyInv => TypeOK
    <2> SUFFICES ASSUME ApplyInv PROVE TypeOK
      OBVIOUS
    <2>1. limit \in [Scopes -> [Subs -> Nat]] /\ usage \in [Scopes -> [Subs -> Nat]]
      BY DEF ApplyInv, LimitsInv
    <2>2. ASSUME NEW a \in Requests
          PROVE  /\ apply[a].stage \in Stages
                 /\ In(a, "unused") \/ apply[a].ask \in Asks
                 /\ apply[a].run \in 0..Len(runs)
                 /\ ToSet(apply[a].rows) \subseteq RowType
                 /\ apply[a].singles \subseteq DOMAIN apply[a].rows
                 /\ {apply[a].submitted, apply[a].cores, apply[a].failures} \subseteq Nat
      <3>1. apply[a] \in RequestType(runs, Planned(apply)) /\ InStage(apply[a], DOMAIN files)
            /\ Accounted(apply[a], limit, Planned(apply)) /\ apply[a].rows \in Seq(RowType)
        BY RequestKnown
      <3>2. ToSet(apply[a].rows) \subseteq RowType
        BY <3>1 DEF ToSet
      <3>3. apply[a].stage \in Stages /\ apply[a].run \in 0..Len(runs)
            /\ apply[a].submitted \in Nat /\ apply[a].cores \in Nat /\ apply[a].failures \in Nat
        BY <3>1 DEF RequestType
      <3>4. QED
        BY <3>1, <3>2, <3>3 DEF InStage, Accounted, In
    <2>3. ASSUME NEW x \in DOMAIN files PROVE x \in 1..second /\ ToSet(files[x]) \subseteq RowType
      <3>1. x \in 1..second /\ files[x] \in Seq(Planned(apply))
        BY DEF ApplyInv, FilesInv
      <3>2. files[x] \in Seq(RowType)
        BY <3>1, PlannedKept
      <3>3. QED
        BY <3>1, <3>2 DEF ToSet
    <2>4. QED
      BY <2>1, <2>2, <2>3 DEF TypeOK
  <1>2. QED
    BY <1>1, ApplyInvInductive, PTL

\* Whatever is repeated, retried, cut short, interleaved or taken from an old run: a
\* changed limit keeps the donor's buffer as some captured run knew it.  It is the
\* limit of a planned row, and a row proposes an absolute limit.
THEOREM CapturedBufferIsKept == Spec => []DonorsKeepCapturedBuffer
  <1>1. ApplyInv => DonorsKeepCapturedBuffer
    <2> SUFFICES ASSUME ApplyInv, NEW f \in Scopes, NEW s \in Subs, limit[f][s] # Limit0[f][s]
                 PROVE  \E k \in DOMAIN runs : limit[f][s] >= CapturedFloor(runs, k, f, s)
      BY DEF DonorsKeepCapturedBuffer, CapturedFloor
    <2>1. Touched(limit, Planned(apply), f, s)
      BY DEF ApplyInv, LimitsInv
    <2>2. PICK row \in Planned(apply) : row.scope = f /\ row.donor = s /\ limit[f][s] = row.proposed
      BY <2>1 DEF Touched
    <2>3. row \in KeptRows(runs)
      BY PlannedKept
    <2>4. QED
      BY <2>2, <2>3 DEF KeptRows
  <1>2. QED
    BY <1>1, ApplyInvInductive, PTL

\* A request that ends without a failure has submitted every row its script read.
THEOREM NothingIsUnreported == Spec => []NothingUnreported
  <1>1. ApplyInv => NothingUnreported
    <2> SUFFICES ASSUME ApplyInv, NEW a \in Requests, apply[a].stage = "completed", apply[a].failures = 0
                 PROVE  /\ apply[a].submitted = Len(apply[a].rows)
                        /\ apply[a].cores = CoresOf(apply[a].rows, DOMAIN apply[a].rows)
      BY DEF NothingUnreported, In
    <2>1. InStage(apply[a], DOMAIN files) /\ Accounted(apply[a], limit, Planned(apply))
          /\ apply[a].rows \in Seq(RowType)
      BY RequestKnown
    <2>2. apply[a].regions = {} /\ apply[a].singles = {}
      BY <2>1 DEF InStage
    <2>3. Settled(apply[a]) = DOMAIN apply[a].rows
      BY <2>2 DEF Settled, Pending
    <2>4. Cardinality(DOMAIN apply[a].rows) = Len(apply[a].rows)
      BY <2>1, CardinalityOfDomain
    <2>5. QED
      BY <2>1, <2>3, <2>4 DEF Accounted
  <1>2. QED
    BY <1>1, ApplyInvInductive, PTL

\* The limits of the rows that a request reports as submitted have been changed.
THEOREM SubmittedIsChanged == Spec => []SubmittedMeansChanged
  <1>1. ApplyInv => SubmittedMeansChanged
    <2> DEFINE all == UNION {ToSet(apply[b].rows) \cup ToSet(apply[b].plan) : b \in Requests}
    <2> SUFFICES ASSUME ApplyInv, NEW a \in Requests, apply[a].stage = "completed",
                        apply[a].submitted = Len(apply[a].rows), NEW i \in DOMAIN apply[a].rows
                 PROVE  limit[apply[a].rows[i].scope][apply[a].rows[i].donor]
                          \in {row.proposed : row \in all}
      BY DEF SubmittedMeansChanged, In
    <2>1. Accounted(apply[a], limit, Planned(apply)) /\ apply[a].rows \in Seq(RowType)
      BY RequestKnown
    <2>2. PICK sent \in SUBSET Settled(apply[a]) :
            /\ Cardinality(sent) = apply[a].submitted
            /\ \A j \in sent : Touched(limit, Planned(apply), apply[a].rows[j].scope, apply[a].rows[j].donor)
      BY <2>1 DEF Accounted
    <2>3. Cardinality(DOMAIN apply[a].rows) = Len(apply[a].rows) /\ IsFiniteSet(DOMAIN apply[a].rows)
      BY <2>1, CardinalityOfDomain
    <2>4. sent \in SUBSET DOMAIN apply[a].rows
      BY <2>2 DEF Settled
    <2>5. sent = DOMAIN apply[a].rows
      BY <2>2, <2>3, <2>4, FS_Subset
    <2>6. Touched(limit, Planned(apply), apply[a].rows[i].scope, apply[a].rows[i].donor)
      BY <2>2, <2>5
    <2>7. PICK row \in Planned(apply) :
            limit[apply[a].rows[i].scope][apply[a].rows[i].donor] = row.proposed
      BY <2>6 DEF Touched
    <2>8. row \in all
      BY DEF Planned
    <2>9. QED
      BY <2>7, <2>8
  <1>2. QED
    BY <1>1, ApplyInvInductive, PTL
=============================================================================
