---------------------- MODULE DatabaseBootstrapProofs ----------------------
(***************************************************************************)
(* Proofs about DatabaseBootstrap, for any callers, migrations, scripts    *)
(* and roles that satisfy ScriptsOK and ViewOK.                            *)
(***************************************************************************)
EXTENDS DatabaseBootstrap, WellFoundedInduction, TLAPS

CallStates ==
    [at : {"idle", "script", "createHistory", "history", "record", "check", "grant",
           "ok", "failed"},
     kind : {"app", "admin", "named"}, file : Files \cup {Schema}, batch : Nat,
     found : BOOLEAN, seen : SUBSET Files, ensured : BOOLEAN]

(***************************************************************************)
(* What a request knows stays true, whatever the others do: tables, the    *)
(* history, the executed migrations and the roles only grow.  So the       *)
(* predicates below take them as parameters.                               *)
(***************************************************************************)

\* The request runs a migration of the loop, not one that was asked for by name.
InLoop(r) == r.at \in {"script", "record"} /\ r.file \in Files /\ r.kind # "named"

\* It is the first that the request has not seen.
IsNext(r) ==
    \E i \in DOMAIN Migrations :
        /\ r.file = Migrations[i] /\ r.file \notin r.seen
        /\ \A j \in DOMAIN Migrations : j < i => Migrations[j] \in r.seen

ScriptOK(r, have) ==
    /\ r.at = "script" => r.batch \in 1..Len(Script[r.file])
    /\ r.at = "script" /\ r.file = Schema
         => /\ r.kind # "named" /\ ~r.found
            /\ r.batch > 1 => Capacity \in have
    /\ r.at \in {"createHistory", "history"} \/ InLoop(r) => Capacity \in have
    /\ r.at \in {"createHistory", "history"} => r.kind # "named"

LoopOK(r, recorded, ran) ==
    /\ r.seen \subseteq recorded
    /\ r.at = "record" => InLoop(r) /\ r.file \in ran
    /\ InLoop(r) => IsNext(r)

AnswerOK(r, have, roles) ==
    /\ r.ensured => Required \subseteq have
    /\ r.at = "ok" /\ r.kind = "admin" => Roles \subseteq roles

CallOK(r, have, recorded, ran, roles) ==
    ScriptOK(r, have) /\ LoopOK(r, recorded, ran) /\ AnswerOK(r, have, roles)

HistoryOK ==
    /\ history \subseteq Files /\ history \subseteq executed
    /\ history # {} => Capacity \in tables
    /\ \A i, j \in DOMAIN Migrations :
          i <= j /\ Migrations[j] \in history => Migrations[i] \in history

BaseInv ==
    /\ call \in [Callers -> CallStates]
    /\ \A c \in Callers : CallOK(call[c], tables, history, executed, granted)
    /\ HistoryOK

\* What is known stays known.
LEMMA Monotone ==
    ASSUME NEW r, NEW t1, NEW t2, NEW h1, NEW h2, NEW x1, NEW x2, NEW g1, NEW g2,
           t1 \subseteq t2, h1 \subseteq h2, x1 \subseteq x2, g1 \subseteq g2,
           CallOK(r, t1, h1, x1, g1)
    PROVE  CallOK(r, t2, h2, x2, g2)
  <1>1. ScriptOK(r, t2)
    BY DEF CallOK, ScriptOK
  <1>2. LoopOK(r, h2, x2)
    BY DEF CallOK, LoopOK
  <1>3. AnswerOK(r, t2, g2)
    BY DEF CallOK, AnswerOK
  <1>4. QED
    BY <1>1, <1>2, <1>3 DEF CallOK

\* A step of one request: its new state is all that has to be looked at.
LEMMA OneCall ==
    ASSUME BaseInv, NEW c \in Callers, NEW r \in CallStates,
           call' = [call EXCEPT ![c] = r],
           tables \subseteq tables', history \subseteq history',
           executed \subseteq executed', granted \subseteq granted',
           CallOK(r, tables', history', executed', granted'),
           HistoryOK'
    PROVE  BaseInv'
  <1>1. call' \in [Callers -> CallStates]
    BY DEF BaseInv
  <1>2. ASSUME NEW d \in Callers
        PROVE  CallOK(call'[d], tables', history', executed', granted')
    <2>1. CASE d = c
      BY <2>1 DEF BaseInv
    <2>2. CASE d # c
      <3>1. call'[d] = call[d]
        BY <2>2 DEF BaseInv
      <3>2. CallOK(call[d], tables, history, executed, granted)
        BY DEF BaseInv
      <3>3. QED
        BY <3>1, <3>2, Monotone
    <2>3. QED
      BY <2>1, <2>2
  <1>3. QED
    BY <1>1, <1>2 DEF BaseInv

\* The history is untouched.
LEMMA SameHistory ==
    ASSUME HistoryOK, history' = history, tables \subseteq tables', executed \subseteq executed'
    PROVE  HistoryOK'
  BY DEF HistoryOK

\* There is a first pending migration.
LEMMA FirstIsFirst ==
    ASSUME NEW seen, Pending(seen) # {}
    PROVE  /\ FirstPending(seen) \in Pending(seen)
           /\ \A j \in Pending(seen) : FirstPending(seen) <= j
  <1>1. Pending(seen) \in SUBSET Nat
    BY ScriptsOK DEF Pending
  <1>2. \E i \in Pending(seen) : \A j \in Pending(seen) : ~ (<<j, i>> \in OpToRel(<, Nat))
    BY <1>1, NatLessThanWellFounded, WFMin
  <1>3. \E i \in Pending(seen) : \A j \in Pending(seen) : i <= j
    <2>1. PICK i \in Pending(seen) :
             \A j \in Pending(seen) : ~ (<<j, i>> \in OpToRel(<, Nat))
      BY <1>2
    <2>2. ASSUME NEW j \in Pending(seen)
          PROVE  i <= j
      <3>1. i \in Nat /\ j \in Nat
        BY <1>1
      <3>2. <<j, i>> \notin OpToRel(<, Nat)
        BY <2>1
      <3>3. ~ (j < i)
        BY <3>1, <3>2 DEF OpToRel
      <3>4. QED
        BY <3>1, <3>3
    <2>3. QED
      BY <2>2
  <1>4. QED
    BY <1>3 DEF FirstPending

\* The next file is the first that was not seen; otherwise the check is next.
LEMMA NextFileOK ==
    ASSUME NEW r \in CallStates, NEW seen \in SUBSET Files, NEW have, NEW recorded, NEW ran,
           NEW roles, r.kind # "named", Capacity \in have, seen \subseteq recorded,
           AnswerOK(r, have, roles), r.at \in {"history", "record"}
    PROVE  /\ NextFile(r, seen) \in CallStates
           /\ NextFile(r, seen).at \in {"script", "check"}
           /\ NextFile(r, seen).kind = r.kind
           /\ NextFile(r, seen).seen = seen
           /\ NextFile(r, seen).at = "script" =>
                NextFile(r, seen).file \in Files /\ NextFile(r, seen).batch = 1
           /\ CallOK(NextFile(r, seen), have, recorded, ran, roles)
  <1>1. CASE Pending(seen) = {}
    <2> DEFINE s == [r EXCEPT !.at = "check", !.seen = seen]
    <2>1. NextFile(r, seen) = s
      BY <1>1 DEF NextFile
    <2>2. s \in CallStates /\ s.at = "check" /\ s.kind = r.kind /\ s.seen = seen
          /\ s.ensured = r.ensured
      BY DEF CallStates
    <2> HIDE DEF s
    <2>3. CallOK(s, have, recorded, ran, roles)
      BY <2>2 DEF CallOK, ScriptOK, LoopOK, AnswerOK, InLoop
    <2>4. QED
      BY <2>1, <2>2, <2>3
  <1>2. CASE Pending(seen) # {}
    <2> DEFINE i == FirstPending(seen)
               s == [r EXCEPT !.at = "script", !.seen = seen, !.batch = 1,
                              !.file = Migrations[i]]
    <2>1. NextFile(r, seen) = s
      BY <1>2 DEF NextFile
    <2>2. i \in DOMAIN Migrations /\ Migrations[i] \notin seen /\ Migrations[i] \in Files
      BY <1>2, FirstIsFirst DEF Pending, Files
    <2>3. \A j \in DOMAIN Migrations : j < i => Migrations[j] \in seen
      BY <1>2, <2>2, FirstIsFirst, ScriptsOK DEF Pending
    <2> HIDE DEF i
    <2>4. s \in CallStates /\ s.at = "script" /\ s.kind = r.kind /\ s.seen = seen
          /\ s.file = Migrations[i] /\ s.batch = 1 /\ s.ensured = r.ensured
      BY <2>2 DEF CallStates
    <2> HIDE DEF s
    <2>5. ScriptOK(s, have)
      BY <2>2, <2>4, ScriptsOK DEF ScriptOK
    <2>6. LoopOK(s, recorded, ran)
      BY <2>2, <2>3, <2>4 DEF LoopOK, InLoop, IsNext
    <2>7. AnswerOK(s, have, roles)
      BY <2>4 DEF AnswerOK
    <2>8. QED
      BY <2>1, <2>2, <2>4, <2>5, <2>6, <2>7 DEF CallOK
  <1>3. QED
    BY <1>1, <1>2

(***************************************************************************)
(* Every step preserves the basic invariant.                               *)
(***************************************************************************)

\* A request begins, in the loop or with a file that was asked for by name.
LEMMA BeginKeeps ==
    ASSUME BaseInv, NEW c \in Callers,
           (\E kind \in {"app", "admin"} : Begin(c, kind)) \/ (\E f \in Files : Replay(c, f))
    PROVE  BaseInv'
  <1>1. ASSUME NEW kind \in {"app", "admin"}, Begin(c, kind)
        PROVE  BaseInv'
    <2> DEFINE r == [IdleCall EXCEPT !.kind = kind, !.found = TRUE, !.at = "history"]
               s == [IdleCall EXCEPT !.kind = kind, !.at = "script"]
    <2>1. /\ call' = [call EXCEPT ![c] = IF Capacity \in tables THEN r ELSE s]
          /\ UNCHANGED <<tables, view, history, granted, executed>>
      BY <1>1 DEF Begin
    <2>2. /\ r \in CallStates /\ r.kind = kind /\ r.at = "history"
          /\ r.file = Schema /\ r.seen = {} /\ r.ensured = FALSE
      BY DEF IdleCall, CallStates
    <2>3. /\ s \in CallStates /\ s.kind = kind /\ s.at = "script" /\ s.found = FALSE
          /\ s.file = Schema /\ s.batch = 1 /\ s.seen = {} /\ s.ensured = FALSE
      BY DEF IdleCall, CallStates
    <2> HIDE DEF r, s
    <2>4. CASE Capacity \in tables
      <3>1. CallOK(r, tables, history, executed, granted)
        BY <2>2, <2>4 DEF CallOK, ScriptOK, LoopOK, AnswerOK, InLoop
      <3>2. HistoryOK'
        BY <2>1, SameHistory DEF BaseInv
      <3>3. QED
        BY <2>1, <2>2, <2>4, <3>1, <3>2, OneCall
    <2>5. CASE Capacity \notin tables
      <3>1. CallOK(s, tables, history, executed, granted)
        BY <2>3, ScriptsOK DEF CallOK, ScriptOK, LoopOK, AnswerOK, InLoop
      <3>2. HistoryOK'
        BY <2>1, SameHistory DEF BaseInv
      <3>3. QED
        BY <2>1, <2>3, <2>5, <3>1, <3>2, OneCall
    <2>6. QED
      BY <2>4, <2>5
  <1>2. ASSUME NEW f \in Files, Replay(c, f)
        PROVE  BaseInv'
    <2> DEFINE r == [IdleCall EXCEPT !.kind = "named", !.at = "script", !.file = f]
    <2>1. call' = [call EXCEPT ![c] = r]
          /\ UNCHANGED <<tables, view, history, granted, executed>>
      BY <1>2 DEF Replay
    <2>2. /\ r \in CallStates /\ r.kind = "named" /\ r.at = "script"
          /\ r.file = f /\ r.batch = 1 /\ r.seen = {} /\ r.ensured = FALSE
      BY DEF IdleCall, CallStates
    <2> HIDE DEF r
    <2>3. CallOK(r, tables, history, executed, granted)
      BY <2>2, ScriptsOK DEF CallOK, ScriptOK, LoopOK, AnswerOK, InLoop
    <2>4. HistoryOK'
      BY <2>1, SameHistory DEF BaseInv
    <2>5. QED
      BY <2>1, <2>2, <2>3, <2>4, OneCall
  <1>3. QED
    BY <1>1, <1>2

\* After its last batch a script is followed by the table of the history, by the check
\* or by its record.
LEMMA AfterScriptFields ==
    ASSUME NEW r \in CallStates, r.file = Schema => r.kind # "named"
    PROVE  LET q == AfterScript(r)
           IN  /\ q \in CallStates /\ q.file = r.file /\ q.kind = r.kind
               /\ q.found = r.found /\ q.seen = r.seen /\ q.ensured = r.ensured
               /\ q.at = IF r.file = Schema THEN "createHistory"
                         ELSE IF r.kind = "named" THEN "check" ELSE "record"
  <1>1. CASE r.file = Schema
    BY <1>1 DEF CallStates, AfterScript
  <1>2. CASE r.file # Schema /\ r.kind = "named"
    BY <1>2 DEF CallStates, AfterScript
  <1>3. CASE r.file # Schema /\ r.kind # "named"
    BY <1>3 DEF CallStates, AfterScript
  <1>4. QED
    BY <1>1, <1>2, <1>3

\* A batch of a script.
LEMMA RunBatchKeeps ==
    ASSUME BaseInv, NEW c \in Callers, RunBatch(c)
    PROVE  BaseInv'
  <1> DEFINE r == call[c]
             last == r.batch = Len(Script[r.file])
             s == IF last THEN AfterScript(r) ELSE [r EXCEPT !.batch = @ + 1]
  <1>1. /\ r.at = "script"
        /\ tables' = tables \cup Script[r.file][r.batch].make
        /\ executed' = IF last /\ r.file # Schema THEN executed \cup {r.file} ELSE executed
        /\ call' = [call EXCEPT ![c] = s]
        /\ UNCHANGED <<history, granted>>
    BY DEF RunBatch
  <1>2. /\ r \in CallStates /\ CallOK(r, tables, history, executed, granted)
        /\ HistoryOK
    BY DEF BaseInv
  <1>3. r.batch \in 1..Len(Script[r.file]) /\ Len(Script[r.file]) \in Nat
    BY <1>1, <1>2, ScriptsOK DEF CallOK, ScriptOK, CallStates
  <1>4. r.file = Schema => Capacity \in tables'
    <2>1. CASE r.batch = 1
      BY <1>1, <2>1, ScriptsOK
    <2>2. CASE r.batch > 1
      BY <1>1, <1>2, <2>2 DEF CallOK, ScriptOK
    <2>3. QED
      BY <1>3, <2>1, <2>2
  <1>5. CallOK(r, tables', history', executed', granted')
    BY <1>1, <1>2, Monotone
  <1>6. HistoryOK'
    BY <1>1, <1>2, SameHistory
  <1>7. s \in CallStates /\ CallOK(s, tables', history', executed', granted')
    <2>1. CASE ~last
      <3> DEFINE q == [r EXCEPT !.batch = @ + 1]
      <3>1. /\ q \in CallStates /\ q.at = "script" /\ q.file = r.file /\ q.kind = r.kind
            /\ q.batch = r.batch + 1 /\ q.found = r.found /\ q.seen = r.seen
            /\ q.ensured = r.ensured
        BY <1>1, <1>2 DEF CallStates
      <3> HIDE DEF q
      <3>2. ScriptOK(q, tables')
        <4>1. ScriptOK(r, tables')
          BY <1>5 DEF CallOK
        <4>2. q.batch \in 1..Len(Script[q.file])
          BY <1>3, <2>1, <3>1
        <4>3. QED
          BY <1>1, <1>4, <3>1, <4>1, <4>2 DEF ScriptOK, InLoop
      <3>3. LoopOK(q, history', executed')
        BY <1>1, <1>5, <3>1 DEF CallOK, LoopOK, InLoop, IsNext
      <3>4. AnswerOK(q, tables', granted')
        BY <1>5, <3>1 DEF CallOK, AnswerOK
      <3>5. s = q
        BY <2>1 DEF q
      <3>6. QED
        BY <3>1, <3>2, <3>3, <3>4, <3>5 DEF CallOK
    <2>2. CASE last
      <3> DEFINE q == AfterScript(r)
      <3>1. r.file = Schema => r.kind # "named"
        BY <1>1, <1>5 DEF CallOK, ScriptOK
      <3>2. /\ q \in CallStates /\ q.file = r.file /\ q.kind = r.kind
            /\ q.found = r.found /\ q.seen = r.seen /\ q.ensured = r.ensured
            /\ q.at = IF r.file = Schema THEN "createHistory"
                      ELSE IF r.kind = "named" THEN "check" ELSE "record"
        BY <1>2, <3>1, AfterScriptFields
      <3> HIDE DEF q
      <3>3. r.file # Schema => r.file \in Files /\ r.file \in executed'
        BY <1>1, <1>2, <2>2 DEF CallStates
      <3>4. ScriptOK(q, tables')
        BY <1>1, <1>4, <1>5, <3>1, <3>2, <3>3 DEF CallOK, ScriptOK, InLoop
      <3>5. LoopOK(q, history', executed')
        BY <1>1, <1>5, <3>2, <3>3, ScriptsOK DEF CallOK, LoopOK, InLoop, IsNext
      <3>6. AnswerOK(q, tables', granted')
        BY <1>5, <3>2 DEF CallOK, AnswerOK
      <3>7. s = q
        BY <2>2 DEF q
      <3>8. QED
        BY <3>2, <3>4, <3>5, <3>6, <3>7 DEF CallOK
    <2>3. QED
      BY <2>1, <2>2
  <1>8. QED
    BY <1>1, <1>6, <1>7, OneCall

\* The history is read, or its table created, or reading it denied.
LEMMA HistoryKeeps ==
    ASSUME BaseInv, NEW c \in Callers, CreateHistory(c) \/ ReadHistory(c) \/ ReadDenied(c)
    PROVE  BaseInv'
  <1> DEFINE r == call[c]
             stay == [r EXCEPT !.at = "check"]
  <1>1. /\ r \in CallStates /\ CallOK(r, tables, history, executed, granted)
        /\ HistoryOK
    BY DEF BaseInv
  <1>2. CASE CreateHistory(c)
    <2> DEFINE s == [r EXCEPT !.at = "history"]
    <2>1. /\ r.at = "createHistory" /\ tables' = tables \cup {History}
          /\ call' = [call EXCEPT ![c] = s]
          /\ UNCHANGED <<history, granted, executed>>
      BY <1>2 DEF CreateHistory
    <2>2. CallOK(r, tables', history', executed', granted') /\ HistoryOK'
      BY <1>1, <2>1, Monotone, SameHistory
    <2>3. s \in CallStates /\ s.at = "history" /\ s.kind = r.kind
          /\ s.seen = r.seen /\ s.ensured = r.ensured
      BY <1>1 DEF CallStates
    <2> HIDE DEF s
    <2>4. CallOK(s, tables', history', executed', granted')
      BY <2>1, <2>2, <2>3 DEF CallOK, ScriptOK, LoopOK, AnswerOK, InLoop
    <2>5. QED
      BY <2>1, <2>2, <2>3, <2>4, OneCall
  <1>3. CASE ReadHistory(c) \/ ReadDenied(c)
    <2>1. /\ r.at = "history"
          /\ \E s \in {stay, NextFile(r, history), NextFile(r, {})} :
                call' = [call EXCEPT ![c] = s]
          /\ UNCHANGED <<tables, history, granted, executed>>
      BY <1>3 DEF ReadHistory, ReadDenied
    <2>2. HistoryOK'
      BY <1>1, <2>1, SameHistory
    <2>3. stay \in CallStates /\ CallOK(stay, tables, history, executed, granted)
      <3>1. /\ stay \in CallStates /\ stay.at = "check" /\ stay.seen = r.seen
            /\ stay.ensured = r.ensured
        BY <1>1 DEF CallStates
      <3> HIDE DEF stay
      <3>2. QED
        BY <1>1, <3>1 DEF CallOK, ScriptOK, LoopOK, AnswerOK, InLoop
    <2>4. ASSUME NEW seen \in SUBSET Files, seen \subseteq history, r.kind # "named"
          PROVE  /\ NextFile(r, seen) \in CallStates
                 /\ CallOK(NextFile(r, seen), tables, history, executed, granted)
      BY <1>1, <2>1, <2>4, NextFileOK DEF CallOK, ScriptOK
    <2>5. r.kind # "named"
      BY <1>1, <2>1 DEF CallOK, ScriptOK
    <2>6. QED
      BY <1>1, <2>1, <2>2, <2>3, <2>4, <2>5, OneCall DEF HistoryOK
  <1>4. QED
    BY <1>2, <1>3

\* A migration is recorded, and the next one found: the first that was not recorded.
LEMMA RecordKeeps ==
    ASSUME BaseInv, NEW c \in Callers, Record(c)
    PROVE  BaseInv'
  <1> DEFINE r == call[c]
             now == r.seen \cup {r.file}
  <1>1. /\ r.at = "record" /\ history' = history \cup {r.file}
        /\ call' = [call EXCEPT ![c] = NextFile(r, now)]
        /\ UNCHANGED <<tables, granted, executed>>
    BY DEF Record
  <1>2. /\ r \in CallStates /\ CallOK(r, tables, history, executed, granted)
        /\ HistoryOK
    BY DEF BaseInv
  <1>3. /\ r.file \in Files /\ r.kind # "named" /\ r.file \in executed
        /\ Capacity \in tables /\ r.seen \subseteq history /\ IsNext(r)
        /\ AnswerOK(r, tables, granted)
    BY <1>1, <1>2 DEF CallOK, ScriptOK, LoopOK, InLoop
  <1>4. now \in SUBSET Files /\ now \subseteq history'
    BY <1>1, <1>2, <1>3 DEF CallStates
  <1>5. /\ NextFile(r, now) \in CallStates
        /\ CallOK(NextFile(r, now), tables', history', executed', granted')
    <2> HIDE DEF now
    <2>1. QED
      BY <1>1, <1>2, <1>3, <1>4, NextFileOK
  <1>6. HistoryOK'
    <2>1. /\ history' \subseteq Files /\ history' \subseteq executed'
          /\ Capacity \in tables'
      BY <1>1, <1>2, <1>3 DEF HistoryOK
    <2>2. ASSUME NEW i \in DOMAIN Migrations, NEW j \in DOMAIN Migrations,
                 i <= j, Migrations[j] \in history'
          PROVE  Migrations[i] \in history'
      <3>1. CASE Migrations[j] \in history
        BY <1>1, <1>2, <2>2, <3>1 DEF HistoryOK
      <3>2. CASE Migrations[j] = r.file
        <4>1. PICK k \in DOMAIN Migrations :
                 /\ r.file = Migrations[k]
                 /\ \A m \in DOMAIN Migrations : m < k => Migrations[m] \in r.seen
          BY <1>3 DEF IsNext
        <4>2. j = k
          BY <3>2, <4>1, ScriptsOK
        <4>3. i = k \/ i < k
          BY <2>2, <4>2, ScriptsOK
        <4>4. QED
          BY <1>1, <1>3, <4>1, <4>3
      <3>3. QED
        BY <1>1, <2>2, <3>1, <3>2
    <2>3. QED
      BY <2>1, <2>2 DEF HistoryOK
  <1>7. QED
    BY <1>1, <1>4, <1>5, <1>6, OneCall

\* The check, and what follows it.
LEMMA CheckKeeps ==
    ASSUME BaseInv, NEW c \in Callers,
           Check(c) \/ CheckDenied(c) \/ Granted(c) \/ Fail(c)
    PROVE  BaseInv'
  <1> DEFINE r == call[c]
  <1>1. /\ r \in CallStates /\ CallOK(r, tables, history, executed, granted)
        /\ HistoryOK
    BY DEF BaseInv
  <1>2. UNCHANGED <<tables, history, granted, executed>>
    BY DEF Check, CheckDenied, Granted, Fail
  <1>3. HistoryOK'
    BY <1>1, <1>2, SameHistory
  <1>4. ASSUME NEW to \in {"grant", "ok", "failed"}, NEW e \in BOOLEAN,
               call' = [call EXCEPT ![c] = [r EXCEPT !.at = to, !.ensured = e]],
               e => Required \subseteq tables,
               to = "ok" /\ r.kind = "admin" => Roles \subseteq granted
        PROVE  BaseInv'
    <2> DEFINE s == [r EXCEPT !.at = to, !.ensured = e]
    <2>1. /\ s \in CallStates /\ s.at = to /\ s.ensured = e
          /\ s.kind = r.kind /\ s.seen = r.seen
      BY <1>1, <1>4 DEF CallStates
    <2> HIDE DEF s
    <2>2. CallOK(s, tables, history, executed, granted)
      BY <1>1, <1>4, <2>1 DEF CallOK, ScriptOK, LoopOK, AnswerOK, InLoop
    <2>3. call' = [call EXCEPT ![c] = s]
      BY <1>4 DEF s
    <2>4. QED
      BY <1>2, <1>3, <2>1, <2>2, <2>3, OneCall
  <1>5. r.ensured \in BOOLEAN /\ (r.ensured => Required \subseteq tables)
    BY <1>1 DEF CallStates, CallOK, AnswerOK
  <1>6. r = [r EXCEPT !.ensured = r.ensured]
    BY <1>1 DEF CallStates
  <1>7. CASE Check(c)
    <2>1. call' = [call EXCEPT ![c] = [r EXCEPT !.at = AfterCheck(r), !.ensured = TRUE]]
          /\ Required \subseteq tables
      BY <1>1, <1>7 DEF Check, CallStates, BaseInv
    <2>2. AfterCheck(r) \in {"grant", "ok"} /\ (AfterCheck(r) = "ok" => r.kind # "admin")
      BY DEF AfterCheck
    <2>3. QED
      BY <1>4, <2>1, <2>2
  <1>8. CASE CheckDenied(c) \/ Granted(c) \/ Fail(c)
    <2>1. PICK to \in {"ok", "failed"} :
             /\ call' = [call EXCEPT ![c].at = to]
             /\ to = "ok" /\ r.kind = "admin" => Roles \subseteq granted
      BY <1>8 DEF CheckDenied, Granted, Fail
    <2>2. call' = [call EXCEPT ![c] = [r EXCEPT !.at = to, !.ensured = r.ensured]]
      BY <1>1, <2>1 DEF CallStates, BaseInv
    <2>3. QED
      BY <1>4, <1>5, <2>1, <2>2
  <1>9. QED
    BY <1>7, <1>8

\* The steps that touch no request.
LEMMA SurroundingsKeep ==
    ASSUME BaseInv,
           (\E c \in Callers : Grant(c)) \/ PublishDacpac \/ UNCHANGED bootstrapVars
    PROVE  BaseInv'
  <1>1. /\ call' = call /\ history' = history /\ executed' = executed
        /\ tables \subseteq tables' /\ granted \subseteq granted'
    BY DEF Grant, PublishDacpac, bootstrapVars
  <1>2. HistoryOK'
    BY <1>1, SameHistory DEF BaseInv
  <1>3. ASSUME NEW c \in Callers
        PROVE  CallOK(call'[c], tables', history', executed', granted')
    <2>1. CallOK(call[c], tables, history, executed, granted)
      BY DEF BaseInv
    <2>2. QED
      BY <1>1, <2>1, Monotone
  <1>4. QED
    BY <1>1, <1>2, <1>3 DEF BaseInv

\* The start: an empty database or an old one, and nobody asks.
LEMMA InitBase == Init => BaseInv
  <1> SUFFICES ASSUME Init PROVE BaseInv
    OBVIOUS
  <1>1. IdleCall \in CallStates /\ IdleCall.at = "idle" /\ IdleCall.seen = {}
        /\ IdleCall.ensured = FALSE
    BY DEF IdleCall, CallStates
  <1>2. CallOK(IdleCall, tables, history, executed, granted)
    BY <1>1 DEF CallOK, ScriptOK, LoopOK, AnswerOK, InLoop
  <1>3. HistoryOK
    BY DEF Init, HistoryOK
  <1>4. QED
    BY <1>1, <1>2, <1>3 DEF Init, BaseInv

\* Every step preserves the basic invariant.
LEMMA NextBase ==
    ASSUME BaseInv, [Next]_bootstrapVars
    PROVE  BaseInv'
  <1>1. ASSUME NEW c \in Callers, Step(c)
        PROVE  BaseInv'
    BY <1>1, BeginKeeps, RunBatchKeeps, HistoryKeeps, RecordKeeps, CheckKeeps,
       SurroundingsKeep DEF Step
  <1>2. QED
    BY <1>1, SurroundingsKeep DEF Next

\* A bootstrap or a migration that answers ok leaves every table that the dashboard needs,
\* and the roles of an administrator's one (ensurePhase3SchemaForPool,
\* ensureDatabasePrincipalAccess), whatever other requests do and wherever they die.
THEOREM AnswersAreTrue == BootstrapSpec => []OkMeansProvisioned
  <1>1. BaseInv => OkMeansProvisioned
    BY DEF BaseInv, CallOK, AnswerOK, OkMeansProvisioned
  <1>2. QED
    BY <1>1, InitBase, NextBase, PTL DEF BootstrapSpec

(***************************************************************************)
(* The view.  While requests do not overlap and none is replayed, the one  *)
(* that is under way knows more: it has seen the whole history, which is   *)
(* empty as long as it runs schema.sql.                                    *)
(***************************************************************************)
Apart == \A c, d \in Callers : c # d => Idle(c) \/ Idle(d)

\* The migrations that write the newest view have done so once they are recorded.
ViewFollows(recorded, shape) ==
    \A n \in DOMAIN Migrations : \A k \in Nat :
        Newest(n, k) /\ Migrations[n] \in recorded => shape = "new"

Under(r) == r.at \notin {"idle", "ok", "failed"}

\* Not yet a loop over the migrations, nor a database that was there before.
Fresh(r) ==
    \/ r.at = "script" /\ r.file = Schema
    \/ r.at = "createHistory"
    \/ r.at = "history" /\ ~r.found

\* The batch that writes the newest view is behind a request.
Passed(r, n, k) ==
    r.file = Migrations[n] /\ (r.at = "record" \/ r.batch > k)

AloneOK(r, recorded, shape) ==
    Under(r) =>
        /\ r.kind # "named"
        /\ Fresh(r) => recorded = {}
        /\ InLoop(r) =>
             /\ r.seen = recorded
             /\ \A n \in DOMAIN Migrations : \A k \in Nat :
                   Newest(n, k) /\ Passed(r, n, k) => shape = "new"

SerialInv ==
    serial =>
        /\ Apart
        /\ \A c \in Callers : AloneOK(call[c], history, view)
        /\ ViewFollows(history, view)

\* A step of the one request that is under way.
LEMMA OneAlone ==
    ASSUME BaseInv, SerialInv, NEW c \in Callers, ~Idle(c), NEW r \in CallStates,
           call' = [call EXCEPT ![c] = r], serial' = serial,
           serial => AloneOK(r, history', view') /\ ViewFollows(history', view')
    PROVE  SerialInv'
  <1> SUFFICES ASSUME serial'
               PROVE  /\ Apart'
                      /\ \A d \in Callers : AloneOK(call'[d], history', view')
                      /\ ViewFollows(history', view')
    BY DEF SerialInv
  <1>1. \A d \in Callers : d # c => Idle(d) /\ call'[d] = call[d]
    BY DEF BaseInv, SerialInv, Apart
  <1>2. call'[c] = r
    BY DEF BaseInv
  <1>3. \A d \in Callers : d # c => Idle(d)' /\ ~Under(call'[d])
    BY <1>1 DEF Idle, Under
  <1>4. QED
    BY <1>2, <1>3 DEF Apart, AloneOK

\* A request begins when no other is under way, or the requests are no longer serial.
LEMMA BeginSerial ==
    ASSUME BaseInv, SerialInv, NEW c \in Callers, NEW kind \in {"app", "admin"},
           Begin(c, kind)
    PROVE  SerialInv'
  <1> DEFINE r == [IdleCall EXCEPT !.kind = kind, !.found = TRUE, !.at = "history"]
             s == [IdleCall EXCEPT !.kind = kind, !.at = "script"]
             q == IF Capacity \in tables THEN r ELSE s
  <1> SUFFICES ASSUME serial'
               PROVE  /\ Apart'
                      /\ \A d \in Callers : AloneOK(call'[d], history', view')
                      /\ ViewFollows(history', view')
    BY DEF SerialInv
  <1>1. /\ call' = [call EXCEPT ![c] = q]
        /\ serial /\ \A d \in Callers : Idle(d)
        /\ UNCHANGED <<view, history>>
    BY DEF Begin
  <1>2. /\ r.at = "history" /\ r.found /\ r.kind = kind
        /\ s.at = "script" /\ s.file = Schema /\ s.kind = kind
    BY DEF IdleCall
  <1>3. AloneOK(q, history, view)
    <2> HIDE DEF r, s
    <2>1. CASE Capacity \in tables
      BY <1>2, <2>1 DEF AloneOK, Fresh, InLoop
    <2>2. CASE Capacity \notin tables
      <3>1. history = {}
        BY <2>2 DEF BaseInv, HistoryOK
      <3>2. Schema \notin Files
        BY ScriptsOK
      <3>3. QED
        BY <1>2, <2>2, <3>1, <3>2 DEF AloneOK, Fresh, InLoop
    <2>3. QED
      BY <2>1, <2>2
  <1> HIDE DEF q
  <1>4. \A d \in Callers : d # c => call'[d] = call[d]
    BY <1>1 DEF BaseInv
  <1>5. call'[c] = q
    BY <1>1 DEF BaseInv
  <1>6. \A d \in Callers : d # c => Idle(d)' /\ ~Under(call'[d])
    BY <1>1, <1>4 DEF Idle, Under
  <1>7. QED
    BY <1>1, <1>3, <1>5, <1>6 DEF Apart, AloneOK, SerialInv

\* A batch of the request that is under way.
LEMMA RunBatchSerial ==
    ASSUME BaseInv, SerialInv, NEW c \in Callers, RunBatch(c)
    PROVE  SerialInv'
  <1> DEFINE r == call[c]
             last == r.batch = Len(Script[r.file])
             s == IF last THEN AfterScript(r) ELSE [r EXCEPT !.batch = @ + 1]
             shape == Script[r.file][r.batch].view
  <1>1. /\ r.at = "script"
        /\ view' = IF shape = "same" THEN view ELSE shape
        /\ call' = [call EXCEPT ![c] = s]
        /\ UNCHANGED <<history, serial>>
    BY DEF RunBatch
  <1>2. /\ r \in CallStates /\ CallOK(r, tables, history, executed, granted)
        /\ HistoryOK
    BY DEF BaseInv
  <1>3. r.batch \in 1..Len(Script[r.file]) /\ Len(Script[r.file]) \in Nat
    BY <1>1, <1>2, ScriptsOK DEF CallOK, ScriptOK, CallStates
  <1>4. /\ r.file = Schema => r.kind # "named"
        /\ s \in CallStates /\ s.file = r.file /\ s.kind = r.kind /\ s.seen = r.seen
        /\ s.found = r.found
        /\ last => s.at = IF r.file = Schema THEN "createHistory"
                          ELSE IF r.kind = "named" THEN "check" ELSE "record"
        /\ ~last => s.at = "script" /\ s.batch = r.batch + 1
    <2>1. r.file = Schema => r.kind # "named"
      BY <1>1, <1>2 DEF CallOK, ScriptOK
    <2>2. CASE last
      BY <1>2, <2>1, <2>2, AfterScriptFields
    <2>3. CASE ~last
      BY <1>1, <1>2, <2>1, <2>3 DEF CallStates
    <2>4. QED
      BY <2>1, <2>2, <2>3
  <1> HIDE DEF s
  <1>5. ASSUME serial, r.file = Schema
        PROVE  AloneOK(s, history', view') /\ ViewFollows(history', view')
    <2>1. r.kind # "named" /\ history = {}
      BY <1>1, <1>5 DEF SerialInv, AloneOK, Under, Fresh
    <2>2. ~InLoop(s)
      BY <1>4, <1>5, ScriptsOK DEF InLoop
    <2>3. QED
      BY <1>1, <1>4, <2>1, <2>2 DEF AloneOK, ViewFollows
  <1>6. ASSUME serial, r.file # Schema
        PROVE  AloneOK(s, history', view') /\ ViewFollows(history', view')
    <2>1. /\ r.kind # "named" /\ InLoop(r) /\ r.seen = history
          /\ \A n \in DOMAIN Migrations : \A k \in Nat :
                Newest(n, k) /\ Passed(r, n, k) => view = "new"
          /\ ViewFollows(history, view)
      BY <1>1, <1>2, <1>6 DEF SerialInv, AloneOK, Under, InLoop, CallStates
    <2>2. PICK m \in DOMAIN Migrations :
             /\ r.file = Migrations[m] /\ r.file \notin r.seen
             /\ \A j \in DOMAIN Migrations : j < m => Migrations[j] \in r.seen
      BY <1>2, <2>1 DEF CallOK, LoopOK, IsNext
    <2>3. m \in Nat /\ DOMAIN Migrations \subseteq Nat
      BY ScriptsOK
    <2>4. ASSUME NEW n \in DOMAIN Migrations, NEW k \in Nat, Newest(n, k),
                 Migrations[n] \in history
          PROVE  view' = "new"
      <3>1. view = "new"
        BY <2>1, <2>4 DEF ViewFollows
      <3>2. m > n
        <4>1. ~(m <= n)
          BY <1>2, <2>1, <2>2, <2>4 DEF HistoryOK
        <4>2. QED
          BY <2>3, <4>1
      <3>3. shape \in {"same", "new"}
        BY <1>3, <2>2, <2>4, <3>2 DEF Newest
      <3>4. QED
        BY <1>1, <3>1, <3>3
    <2>5. ASSUME NEW n \in DOMAIN Migrations, NEW k \in Nat, Newest(n, k),
                 InLoop(s), Passed(s, n, k)
          PROVE  view' = "new"
      <3>1. n = m
        BY <1>4, <2>2, <2>5, ScriptsOK DEF Passed
      <3>2. k \in 1..Len(Script[r.file])
        BY <2>2, <2>5, <3>1 DEF Newest
      <3>3. r.batch >= k
        BY <1>3, <1>4, <2>5, <3>2 DEF Passed
      <3>4. CASE r.batch = k
        BY <1>1, <2>2, <2>5, <3>1, <3>4 DEF Newest
      <3>5. CASE r.batch > k
        <4>1. view = "new"
          BY <2>1, <2>2, <2>5, <3>1, <3>5 DEF Passed
        <4>2. shape \in {"same", "new"}
          BY <1>3, <2>2, <2>5, <3>1, <3>5 DEF Newest
        <4>3. QED
          BY <1>1, <4>1, <4>2
      <3>6. QED
        BY <1>3, <3>2, <3>3, <3>4, <3>5
    <2>6. ViewFollows(history', view')
      BY <1>1, <2>4 DEF ViewFollows
    <2>7. ~Fresh(s)
      BY <1>4, <1>6, <2>1 DEF Fresh
    <2>8. QED
      BY <1>1, <1>4, <2>1, <2>5, <2>6, <2>7 DEF AloneOK
  <1>7. ~Idle(c)
    BY <1>1 DEF Idle
  <1>8. QED
    BY <1>1, <1>4, <1>5, <1>6, <1>7, OneAlone

\* The next migration is at its first batch, which no other batch precedes.
LEMMA NextFileAlone ==
    ASSUME NEW r \in CallStates, NEW shape, NEW seen \in SUBSET Files,
           r.kind # "named", r.at \in {"history", "record"}
    PROVE  AloneOK(NextFile(r, seen), seen, shape)
  <1> DEFINE s == NextFile(r, seen)
  <1>1. /\ s.kind = r.kind /\ s.seen = seen
        /\ s.at \in {"script", "check"}
        /\ s.at = "script" => s.file \in Files /\ s.batch = 1
    <2>1. CASE Pending(seen) = {}
      BY <2>1 DEF NextFile, CallStates
    <2>2. CASE Pending(seen) # {}
      <3>1. Migrations[FirstPending(seen)] \in Files
        BY <2>2, FirstIsFirst DEF Pending, Files
      <3>2. QED
        BY <2>2, <3>1 DEF NextFile, CallStates
    <2>3. QED
      BY <2>1, <2>2
  <1> HIDE DEF s
  <1>2. \A n \in DOMAIN Migrations : \A k \in Nat :
           Newest(n, k) /\ s.at = "script" => ~Passed(s, n, k)
    BY <1>1 DEF Newest, Passed
  <1>3. ~Fresh(s)
    BY <1>1, ScriptsOK DEF Fresh
  <1>4. AloneOK(s, seen, shape)
    BY <1>1, <1>2, <1>3 DEF AloneOK, InLoop
  <1>5. QED
    BY <1>4 DEF s

\* The history is read, or its table created, or reading it denied.
LEMMA HistorySerial ==
    ASSUME BaseInv, SerialInv, NEW c \in Callers,
           CreateHistory(c) \/ ReadHistory(c) \/ ReadDenied(c)
    PROVE  SerialInv'
  <1> DEFINE r == call[c]
             stay == [r EXCEPT !.at = "check"]
             read == [r EXCEPT !.at = "history"]
  <1>1. /\ r \in CallStates /\ HistoryOK
        /\ r.at \in {"createHistory", "history"} /\ ~Idle(c)
        /\ UNCHANGED <<view, history, serial>>
    BY DEF BaseInv, CreateHistory, ReadHistory, ReadDenied, Idle
  <1>2. r.kind # "named"
    BY <1>1 DEF BaseInv, CallOK, ScriptOK
  <1>3. /\ stay \in CallStates /\ stay.at = "check" /\ stay.kind = r.kind
        /\ read \in CallStates /\ read.at = "history" /\ read.kind = r.kind
        /\ read.found = r.found
    BY <1>1 DEF CallStates
  <1>4. ASSUME NEW s \in CallStates, call' = [call EXCEPT ![c] = s],
               serial => AloneOK(s, history, view)
        PROVE  SerialInv'
    BY <1>1, <1>4, OneAlone DEF SerialInv
  <1>5. AloneOK(stay, history, view)
    BY <1>2, <1>3 DEF AloneOK, Fresh, InLoop
  <1>6. CASE CreateHistory(c)
    <2>1. r.at = "createHistory" /\ call' = [call EXCEPT ![c] = read]
      BY <1>6 DEF CreateHistory
    <2>2. serial => AloneOK(read, history, view)
      BY <1>2, <1>3, <2>1 DEF SerialInv, AloneOK, Under, Fresh, InLoop
    <2>3. QED
      BY <1>3, <1>4, <2>1, <2>2
  <1>7. ASSUME r.at = "history", NEW seen \in SUBSET Files, seen \subseteq history,
               call' = [call EXCEPT ![c] = NextFile(r, seen)],
               serial => seen = history
        PROVE  SerialInv'
    <2>1. Capacity \in tables /\ AnswerOK(r, tables, granted)
      BY <1>7 DEF BaseInv, CallOK, ScriptOK
    <2>2. NextFile(r, seen) \in CallStates
      BY <1>1, <1>2, <1>7, <2>1, NextFileOK
    <2>3. AloneOK(NextFile(r, seen), seen, view)
      BY <1>1, <1>2, <1>7, NextFileAlone
    <2>4. QED
      BY <1>4, <1>7, <2>2, <2>3
  <1>8. CASE ReadHistory(c)
    BY <1>1, <1>3, <1>4, <1>5, <1>7, <1>8 DEF ReadHistory, HistoryOK
  <1>9. CASE ReadDenied(c)
    <2>1. r.at = "history" /\ (serial /\ ~r.found => history = {})
      BY <1>9 DEF ReadDenied, SerialInv, AloneOK, Under, Fresh
    <2>2. CASE r.found
      BY <1>3, <1>4, <1>5, <1>9, <2>2 DEF ReadDenied
    <2>3. CASE ~r.found
      <3>1. call' = [call EXCEPT ![c] = NextFile(r, {})]
        BY <1>9, <2>3 DEF ReadDenied
      <3>2. {} \in SUBSET Files /\ {} \subseteq history
        OBVIOUS
      <3>3. serial => {} = history
        BY <2>1, <2>3
      <3> HIDE DEF r
      <3>4. QED
        BY <1>7, <2>1, <3>1, <3>2, <3>3
    <2>4. QED
      BY <2>2, <2>3
  <1>10. QED
    BY <1>6, <1>8, <1>9

\* A migration is recorded.
LEMMA RecordSerial ==
    ASSUME BaseInv, SerialInv, NEW c \in Callers, Record(c)
    PROVE  SerialInv'
  <1> DEFINE r == call[c]
             now == r.seen \cup {r.file}
  <1>1. /\ r.at = "record" /\ history' = history \cup {r.file}
        /\ call' = [call EXCEPT ![c] = NextFile(r, now)]
        /\ UNCHANGED <<tables, view, granted, serial>>
    BY DEF Record
  <1>2. /\ r \in CallStates /\ InLoop(r) /\ r.kind # "named" /\ ~Idle(c)
        /\ Capacity \in tables /\ r.seen \subseteq history
        /\ AnswerOK(r, tables, granted)
    BY <1>1 DEF BaseInv, CallOK, ScriptOK, LoopOK, InLoop, Idle
  <1>3. now \in SUBSET Files /\ now \subseteq history'
    BY <1>1, <1>2 DEF CallStates, InLoop
  <1>4. NextFile(r, now) \in CallStates
    <2> HIDE DEF now
    <2>1. QED
      BY <1>1, <1>2, <1>3, NextFileOK
  <1>5. AloneOK(NextFile(r, now), now, view')
    <2> HIDE DEF now
    <2>1. QED
      BY <1>1, <1>2, <1>3, NextFileAlone
  <1>6. ASSUME serial
        PROVE  now = history' /\ ViewFollows(history', view')
    <2>1. /\ r.seen = history /\ ViewFollows(history, view)
          /\ \A n \in DOMAIN Migrations : \A k \in Nat :
                Newest(n, k) /\ Passed(r, n, k) => view = "new"
      BY <1>1, <1>2, <1>6 DEF SerialInv, AloneOK, Under
    <2>2. QED
      BY <1>1, <2>1 DEF ViewFollows, Passed
  <1>7. QED
    BY <1>1, <1>2, <1>4, <1>5, <1>6, OneAlone

\* The check, and what follows it.
LEMMA CheckSerial ==
    ASSUME BaseInv, SerialInv, NEW c \in Callers,
           Check(c) \/ CheckDenied(c) \/ Granted(c) \/ Fail(c)
    PROVE  SerialInv'
  <1> DEFINE r == call[c]
  <1>1. /\ r \in CallStates /\ ~Idle(c)
        /\ UNCHANGED <<view, history, serial>>
    BY DEF BaseInv, Check, CheckDenied, Granted, Fail, Idle
  <1>2. PICK to \in {"grant", "ok", "failed"}, e \in BOOLEAN :
           call' = [call EXCEPT ![c] = [r EXCEPT !.at = to, !.ensured = e]]
    <2>1. r = [r EXCEPT !.ensured = r.ensured] /\ r.ensured \in BOOLEAN
      BY <1>1 DEF CallStates
    <2>2. CASE Check(c)
      <3>1. call' = [call EXCEPT ![c] = [r EXCEPT !.at = AfterCheck(r), !.ensured = TRUE]]
        BY <2>2 DEF Check, BaseInv, CallStates
      <3>2. AfterCheck(r) \in {"grant", "ok", "failed"} /\ TRUE \in BOOLEAN
        BY DEF AfterCheck
      <3>3. QED
        BY <3>1, <3>2
    <2>3. CASE CheckDenied(c) \/ Granted(c) \/ Fail(c)
      <3>1. PICK t \in {"ok", "failed"} : call' = [call EXCEPT ![c].at = t]
        BY <2>3 DEF CheckDenied, Granted, Fail
      <3>2. call' = [call EXCEPT ![c] = [r EXCEPT !.at = t, !.ensured = r.ensured]]
        BY <2>1, <3>1 DEF CallStates, BaseInv
      <3>3. QED
        BY <2>1, <3>2
    <2>4. QED
      BY <2>2, <2>3
  <1> DEFINE s == [r EXCEPT !.at = to, !.ensured = e]
  <1>3. s \in CallStates /\ s.at = to /\ s.kind = r.kind
    BY <1>1 DEF CallStates
  <1> HIDE DEF s
  <1>4. serial => AloneOK(s, history', view') /\ ViewFollows(history', view')
    BY <1>1, <1>3 DEF SerialInv, AloneOK, Under, Fresh, InLoop, Idle
  <1>5. call' = [call EXCEPT ![c] = s]
    BY <1>2 DEF s
  <1>6. QED
    BY <1>1, <1>3, <1>4, <1>5, OneAlone

\* The steps that touch no request: the DACPAC brings the newest view.
LEMMA SurroundingsSerial ==
    ASSUME SerialInv,
           (\E c \in Callers : Grant(c)) \/ PublishDacpac \/ UNCHANGED bootstrapVars
    PROVE  SerialInv'
  <1>1. /\ UNCHANGED <<call, history, serial>>
        /\ view' = view \/ view' = "new"
    BY DEF Grant, PublishDacpac, bootstrapVars
  <1>2. Apart => Apart'
    BY <1>1 DEF Apart, Idle
  <1>3. \A c \in Callers : AloneOK(call[c], history, view) => AloneOK(call'[c], history', view')
    BY <1>1 DEF AloneOK
  <1>4. ViewFollows(history, view) => ViewFollows(history', view')
    BY <1>1 DEF ViewFollows
  <1>5. QED
    BY <1>1, <1>2, <1>3, <1>4 DEF SerialInv

\* Every step preserves what serial requests know of the view.
LEMMA NextSerial ==
    ASSUME BaseInv, SerialInv, [Next]_bootstrapVars
    PROVE  SerialInv'
  <1>1. ASSUME NEW c \in Callers, Step(c)
        PROVE  SerialInv'
    <2>1. ASSUME NEW f \in Files, Replay(c, f)
          PROVE  SerialInv'
      BY <2>1 DEF Replay, SerialInv
    <2>2. QED
      BY <1>1, <2>1, BeginSerial, RunBatchSerial, HistorySerial, RecordSerial,
         CheckSerial, SurroundingsSerial DEF Step
  <1>2. QED
    BY <1>1, SurroundingsSerial DEF Next

\* What the history says is so (recordAppliedSchemaMigration, NextFile): whatever overlaps,
\* dies or is replayed, recorded migrations have run and none is missing in between; and a
\* complete history of serial requests leaves the newest dbo.CapacityLatest.
THEOREM HistoryTellsTheTruth == BootstrapSpec => []HistoryIsTrue
  <1>1. Init => SerialInv
    <2> SUFFICES ASSUME Init PROVE SerialInv
      OBVIOUS
    <2>1. \A c \in Callers : Idle(c) /\ ~Under(call[c])
      BY DEF Init, Idle, Under, IdleCall
    <2>2. ViewFollows(history, view)
      BY DEF Init, ViewFollows
    <2>3. QED
      BY <2>1, <2>2 DEF SerialInv, Apart, AloneOK
  <1>2. BaseInv /\ SerialInv => HistoryIsTrue
    <2> SUFFICES ASSUME BaseInv, SerialInv PROVE HistoryIsTrue
      OBVIOUS
    <2>1. serial /\ Files \subseteq history => view = "new"
      <3>1. PICK n \in DOMAIN Migrations : \E k \in 1..Len(Script[Migrations[n]]) : Newest(n, k)
        BY ViewOK
      <3>2. PICK k \in Nat : Newest(n, k)
        BY <3>1
      <3>3. Migrations[n] \in Files
        BY DEF Files
      <3>4. QED
        BY <3>2, <3>3 DEF SerialInv, ViewFollows
    <2>2. QED
      BY <2>1 DEF BaseInv, HistoryOK, HistoryIsTrue
  <1>3. QED
    BY <1>1, <1>2, InitBase, NextBase, NextSerial, PTL DEF BootstrapSpec
=============================================================================
