--------------------------- MODULE MainWindowProofs ----------------------------
(***************************************************************************)
(* Proofs about the launcher's window (MainWindow), for any addresses,     *)
(* names, tables, numbers of tests and clicks.                             *)
(***************************************************************************)
EXTENDS MainWindow, FiniteSetTheorems, SequenceTheorems, TLAPS

LEMMA Constants ==
  /\ Blank \notin Addresses /\ Default \in Programs /\ Typed \subseteq Programs
  /\ InitialStores \subseteq Settings /\ MaxTests \in Nat /\ MaxClicks \in Nat
BY WindowAssumption

-------------------------------------------------------------------------------
(* Lists. *)

\* What is left of a list without one of its elements.
LEMMA RemoveAtType ==
  ASSUME NEW S, NEW s \in Seq(S), NEW i \in 1 .. Len(s)
  PROVE  RemoveAt(s, i) \in Seq(S) /\ Len(RemoveAt(s, i)) = Len(s) - 1
<1> DEFINE front == SubSeq(s, 1, i - 1)
           back == SubSeq(s, i + 1, Len(s))
<1>1. Len(s) \in Nat /\ \A j \in 1 .. Len(s) : s[j] \in S
  BY LenProperties, ElementOfSeq
<1>2. front \in Seq(S) /\ Len(front) = i - 1
  BY <1>1, SubSeqProperties
<1>3. back \in Seq(S) /\ Len(back) = Len(s) - i
  BY <1>1, SubSeqProperties
<1>4. RemoveAt(s, i) = front \o back
  BY DEF RemoveAt
<1> HIDE DEF front, back
<1>5. front \o back \in Seq(S) /\ Len(front \o back) = Len(front) + Len(back)
  BY <1>2, <1>3, ConcatProperties
<1> QED
  BY <1>1, <1>2, <1>3, <1>4, <1>5

-------------------------------------------------------------------------------
(* The order of the keys rule_1, rule_2, ... *)

\* Before its own place stand fewer keys than there are.
LEMMA PlaceInTable ==
  ASSUME NEW K \in SUBSET Nat, IsFiniteSet(K), NEW i \in K
  PROVE  /\ IsFiniteSet({j \in K : KeyBefore(j, i)})
         /\ Cardinality(K) \in Nat /\ KeyPlace(i, K) \in 1 .. Cardinality(K)
<1> DEFINE S == {j \in K : KeyBefore(j, i)}
           others == K \ {i}
<1>1. Cardinality(K) \in Nat
  BY FS_CardinalityType
<1>2. IsFiniteSet(others) /\ Cardinality(others) = Cardinality(K) - 1
  BY FS_RemoveElement
<1>3. ~KeyBefore(i, i)
  BY DEF KeyBefore, Padded
<1>4. S \in SUBSET others
  BY <1>3
<1> HIDE DEF S, others
<1>5. IsFiniteSet(S) /\ Cardinality(S) <= Cardinality(K) - 1
  BY <1>2, <1>4, FS_Subset
<1>6. Cardinality(S) \in Nat
  BY <1>5, FS_CardinalityType
<1> QED
  BY <1>1, <1>5, <1>6 DEF KeyPlace, S

LEMMA KeysAreOrdered ==
  ASSUME NEW i \in Nat, NEW j \in Nat, NEW k \in Nat, KeyBefore(k, i), KeyBefore(i, j)
  PROVE  KeyBefore(k, j)
<1> DEFINE a == Padded(i)
           b == Padded(j)
           c == Padded(k)
<1>1. a \in Nat /\ b \in Nat /\ c \in Nat
  BY DEF Padded
<1>2. (c < a \/ (c = a /\ k < i)) /\ (a < b \/ (a = b /\ i < j))
  BY DEF KeyBefore
<1> HIDE DEF a, b, c
<1>3. c < b \/ (c = b /\ k < j)
  BY <1>1, <1>2
<1> QED
  BY <1>3 DEF KeyBefore, a, b, c

\* Of two keys the one that is before the other has the smaller place.
LEMMA PlacesFollowKeys ==
  ASSUME NEW K \in SUBSET Nat, IsFiniteSet(K), NEW i \in K, NEW j \in K, KeyBefore(i, j)
  PROVE  KeyPlace(i, K) < KeyPlace(j, K)
<1> DEFINE S == {k \in K : KeyBefore(k, i)}
           T == {k \in K : KeyBefore(k, j)}
<1>1. S \in SUBSET T
  BY KeysAreOrdered
<1>2. i \in T /\ i \notin S
  BY DEF KeyBefore, Padded
<1>3. IsFiniteSet(S) /\ IsFiniteSet(T)
  BY PlaceInTable
<1> HIDE DEF S, T
<1>4. Cardinality(S) \in Nat /\ Cardinality(T) \in Nat
  BY <1>3, FS_CardinalityType
<1>5. Cardinality(S) <= Cardinality(T) /\ (Cardinality(S) = Cardinality(T) => S = T)
  BY <1>1, <1>3, FS_Subset
<1>6. Cardinality(S) < Cardinality(T)
  BY <1>2, <1>4, <1>5
<1> QED
  BY <1>4, <1>6 DEF KeyPlace, S, T

\* So no two keys have the same place.
LEMMA PlacesDiffer ==
  ASSUME NEW K \in SUBSET Nat, IsFiniteSet(K), NEW i \in K, NEW j \in K, i # j
  PROVE  KeyPlace(i, K) # KeyPlace(j, K)
<1>1. KeyBefore(i, j) \/ KeyBefore(j, i)
  BY DEF KeyBefore, Padded
<1>2. KeyPlace(i, K) < KeyPlace(j, K) \/ KeyPlace(j, K) < KeyPlace(i, K)
  BY <1>1, PlacesFollowKeys
<1>3. KeyPlace(i, K) \in 1 .. Cardinality(K) /\ KeyPlace(j, K) \in 1 .. Cardinality(K)
      /\ Cardinality(K) \in Nat
  BY PlaceInTable
<1> QED BY <1>2, <1>3

\* And every place is that of a key.
LEMMA EveryPlaceIsTaken ==
  ASSUME NEW K \in SUBSET Nat, IsFiniteSet(K), NEW p \in 1 .. Cardinality(K)
  PROVE  \E i \in K : KeyPlace(i, K) = p
<1> DEFINE n == Cardinality(K)
           f == [i \in K |-> KeyPlace(i, K)]
<1>1. f \in [K -> 1 .. n]
  BY PlaceInTable
<1>2. ASSUME NEW i \in K, NEW j \in K, i # j
      PROVE  f[i] # f[j]
  BY <1>2, PlacesDiffer
<1>3. n \in Nat
  BY FS_CardinalityType
<1> HIDE DEF f, n
<1>4. f \in Injection(K, 1 .. n)
  BY <1>1, <1>2 DEF Injection, IsInjective
<1>5. IsFiniteSet(1 .. n) /\ Cardinality(1 .. n) = n
  BY <1>3, FS_Interval
<1>6. f \in Surjection(K, 1 .. n)
  BY <1>4, <1>5, FS_Injection DEF n
<1>7. \E i \in K : f[i] = p
  BY <1>6 DEF Surjection, n
<1> QED
  BY <1>7 DEF f

\* Below ten the keys are in the order of their numbers.
LEMMA ShortTableInOrder ==
  ASSUME NEW n \in Nat, n <= 9, NEW K \in SUBSET (1 .. n), NEW i \in K
  PROVE  KeyPlace(i, K) = Cardinality({j \in K : j <= i})
<1> DEFINE S == {j \in K : KeyBefore(j, i)}
           T == {j \in K : j <= i}
<1>1. IsFiniteSet(1 .. n)
  BY FS_Interval
<1>2. S \in SUBSET (1 .. n)
  OBVIOUS
<1>3. IsFiniteSet(S) /\ Cardinality(S) \in Nat
  BY <1>1, <1>2, FS_Subset, FS_CardinalityType
<1>4. \A j \in K : KeyBefore(j, i) <=> j < i
  BY DEF KeyBefore, Padded
<1>5. T = S \cup {i} /\ i \notin S
  <2>1. i \in Int /\ \A j \in K : j \in Int
    OBVIOUS
  <2>2. S = {j \in K : j < i}
    BY <1>4
  <2>3. i \notin S /\ \A j \in K : j <= i <=> j < i \/ j = i
    BY <2>1, <2>2
  <2>4. \A j : j \in T <=> j \in S \/ j = i
    BY <2>2, <2>3
  <2> QED BY <2>3, <2>4
<1>6. KeyPlace(i, K) = Cardinality(S) + 1
  BY DEF KeyPlace
<1> HIDE DEF S, T
<1>7. Cardinality(T) = Cardinality(S) + 1
  BY <1>3, <1>5, FS_AddElement
<1> QED
  BY <1>6, <1>7 DEF T

-------------------------------------------------------------------------------
(* The settings on disk. *)

\* The numbers of the rows that have a name.
LEMMA NamedKeys ==
  ASSUME NEW r \in Seq(Row)
  PROVE  /\ Named(r) \in SUBSET (1 .. Len(r)) /\ Named(r) \in SUBSET Nat
         /\ IsFiniteSet(Named(r)) /\ Cardinality(Named(r)) \in Nat
<1>1. Len(r) \in Nat /\ DOMAIN r = 1 .. Len(r)
  BY LenProperties
<1>2. Named(r) \in SUBSET (1 .. Len(r))
  BY <1>1 DEF Named
<1>3. IsFiniteSet(1 .. Len(r))
  BY <1>1, FS_Interval
<1>4. IsFiniteSet(Named(r))
  BY <1>2, <1>3, FS_Subset
<1>5. Cardinality(Named(r)) \in Nat
  BY <1>4, FS_CardinalityType
<1> QED
  BY <1>1, <1>2, <1>4, <1>5

\* Loading gives a table, from the rows that have a name or else from the old list; below
\* ten each such row has the place it had among them.
LEMMA Loaded ==
  ASSUME stored \in Settings
  PROVE  /\ LoadedRows \in Seq(Row)
         /\ stored.rows = <<>> /\ stored.names = <<>> => LoadedRows = <<>>
         /\ stored.rows # <<>> =>
              /\ Len(LoadedRows) = Cardinality(Named(stored.rows))
              /\ Len(stored.rows) <= 9 =>
                   \A i \in Named(stored.rows) :
                     LoadedRows[Cardinality({j \in Named(stored.rows) : j <= i})] = stored.rows[i]
<1> DEFINE r == stored.rows
           names == stored.names
           keys == Named(r)
           at(p) == CHOOSE i \in keys : KeyPlace(i, keys) = p
<1>1. /\ r \in Seq(Row) /\ Len(r) \in Nat /\ DOMAIN r = 1 .. Len(r)
      /\ \A i \in 1 .. Len(r) : r[i] \in Row
      /\ names \in Seq(Names) /\ Len(names) \in Nat /\ DOMAIN names = 1 .. Len(names)
      /\ \A i \in 1 .. Len(names) : names[i] \in Names
  BY ElementOfSeq, LenProperties DEF Settings
<1>2. CASE r = <<>>
  <2>1. LoadedRows = [i \in 1 .. Len(names) |-> NewRow(names[i])]
    BY <1>1, <1>2 DEF LoadedRows
  <2>2. \A i \in 1 .. Len(names) : NewRow(names[i]) \in Row
    BY <1>1 DEF NewRow, Row
  <2> HIDE DEF names
  <2>3. LoadedRows \in Seq(Row)
    BY <1>1, <2>1, <2>2, IsASeq
  <2>4. ASSUME names = <<>> PROVE LoadedRows = <<>>
    <3>1. Len(names) = 0
      BY <2>4, EmptySeq
    <3>2. DOMAIN LoadedRows = {}
      BY <2>1, <3>1
    <3>3. Len(LoadedRows) = 0
      BY <2>3, <3>2, LenProperties
    <3> QED BY <2>3, <3>3, EmptySeq
  <2> QED BY <1>2, <2>3, <2>4 DEF names
<1>3. CASE r # <<>>
  <2>1. LoadedRows = [p \in 1 .. Cardinality(keys) |-> r[at(p)]]
    BY <1>3 DEF LoadedRows
  <2> HIDE DEF r
  <2>2. /\ keys \in SUBSET (1 .. Len(r)) /\ keys \in SUBSET Nat
        /\ IsFiniteSet(keys) /\ Cardinality(keys) \in Nat
    BY <1>1, NamedKeys
  <2> HIDE DEF keys
  <2>0. PICK n \in Nat : n = Cardinality(keys)
    BY <2>2
  <2>3. ASSUME NEW p \in 1 .. Cardinality(keys)
        PROVE  at(p) \in keys /\ KeyPlace(at(p), keys) = p
    <3>1. \E i \in keys : KeyPlace(i, keys) = p
      BY <2>2, EveryPlaceIsTaken
    <3> QED BY <3>1
  <2>4. LoadedRows = [p \in 1 .. n |-> r[at(p)]] /\ \A p \in 1 .. n : r[at(p)] \in Row
    BY <1>1, <2>0, <2>1, <2>2, <2>3
  <2>5. LoadedRows \in Seq(Row)
    <3> HIDE DEF at
    <3> QED BY <2>4, IsASeq
  <2>6. Len(LoadedRows) = Cardinality(keys)
    BY <2>1, <2>2, <2>5, LenProperties
  <2>7. ASSUME Len(r) <= 9, NEW i \in keys
        PROVE  LoadedRows[Cardinality({j \in keys : j <= i})] = r[i]
    <3>1. keys \in SUBSET (1 .. Len(r)) /\ Len(r) \in Nat /\ Len(r) <= 9
      BY <1>1, <2>2, <2>7
    <3>2. KeyPlace(i, keys) \in 1 .. Cardinality(keys)
      BY <2>2, PlaceInTable
    <3>3. PICK p \in 1 .. Cardinality(keys) : p = KeyPlace(i, keys)
      BY <3>2
    <3>4. at(p) \in keys /\ KeyPlace(at(p), keys) = p
      BY <2>3
    <3>5. at(p) = i
      BY <2>2, <3>3, <3>4, PlacesDiffer
    <3>6. LoadedRows[p] = r[i]
      BY <2>1, <3>5
    <3>7. p = Cardinality({j \in keys : j <= i})
      BY <3>1, <3>3, ShortTableInOrder
    <3> QED BY <3>6, <3>7
  <2> QED BY <1>3, <2>5, <2>6, <2>7 DEF r, keys
<1> QED
  BY <1>2, <1>3 DEF r

\* What is saved has the table, and an old list that is empty when the table is.
LEMMA Saved ==
  ASSUME TypeOK, NEW s \in Server, NEW h \in Seq(Server), NEW r \in Seq(Row)
  PROVE  /\ Snapshot(s, h, r) \in Settings /\ Snapshot(s, h, r).rows = r
         /\ Snapshot(s, h, r).server = s /\ Snapshot(s, h, r).history = h
         /\ r = <<>> => Snapshot(s, h, r).names = <<>>
<1> DEFINE names == [i \in DOMAIN r |-> r[i].program]
<1>1. /\ Len(r) \in Nat /\ DOMAIN r = 1 .. Len(r) /\ \A i \in 1 .. Len(r) : r[i] \in Row
  BY ElementOfSeq, LenProperties
<1>2. \A i \in 1 .. Len(r) : r[i].program \in Names
  BY <1>1 DEF Row
<1>3. names = [i \in 1 .. Len(r) |-> r[i].program]
  BY <1>1
<1> HIDE DEF names
<1>4. names \in Seq(Names)
  BY <1>1, <1>2, <1>3, IsASeq
<1>5. ASSUME r = <<>> PROVE names = <<>>
  <2>1. Len(r) = 0
    BY <1>5, EmptySeq
  <2>2. DOMAIN names = {}
    BY <1>3, <2>1
  <2>3. Len(names) = 0
    BY <1>4, <2>2, LenProperties
  <2> QED BY <1>4, <2>3, EmptySeq
<1>6. stored.auto \in BOOLEAN
  BY DEF TypeOK, Settings
<1>7. Snapshot(s, h, r) =
        [server |-> s, history |-> h, rows |-> r, names |-> names, auto |-> stored.auto]
  BY DEF Snapshot, names
<1> QED
  BY <1>4, <1>5, <1>6, <1>7 DEF Settings

\* The rows of a save that was cut short are rows.
LEMMA RowsWrittenType ==
  ASSUME NEW r \in Seq(Row)
  PROVE  RowsWritten(r) \subseteq Seq(Row)
<1>1. /\ Len(r) \in Nat /\ DOMAIN r = 1 .. Len(r) /\ \A i \in 1 .. Len(r) : r[i] \in Row
  BY ElementOfSeq, LenProperties
<1>2. <<>> \in Seq(Row)
  BY EmptySeq
<1>3. ASSUME NEW k \in DOMAIN r, NEW row \in Row
      PROVE  Append(SubSeq(r, 1, k - 1), row) \in Seq(Row)
  <2>1. SubSeq(r, 1, k - 1) \in Seq(Row)
    BY <1>1, SubSeqProperties
  <2> QED BY <2>1, AppendProperties
<1>4. ASSUME NEW row \in Row
      PROVE  /\ [row EXCEPT !.custom = FALSE] \in Row
             /\ [row EXCEPT !.custom = FALSE, !.action = "PROXY"] \in Row
  BY DEF Row
<1>5. ASSUME NEW k \in Cuts \cap DOMAIN r
      PROVE  {Append(SubSeq(r, 1, k - 1), row) :
                row \in {r[k], [r[k] EXCEPT !.custom = FALSE],
                        [r[k] EXCEPT !.custom = FALSE, !.action = "PROXY"]}} \subseteq Seq(Row)
  BY <1>1, <1>3, <1>4
<1> QED
  BY <1>2, <1>5 DEF RowsWritten

\* What a crash inside a save leaves can be loaded.
LEMMA WrittenType ==
  ASSUME TypeOK, NEW new \in Settings
  PROVE  Written(new) \subseteq Settings
<1>1. stored \in Settings
  BY DEF TypeOK
<1>2. /\ new.history \in Seq(Server) /\ new.rows \in Seq(Row) /\ new.server \in Server
      /\ stored.names \in Seq(Names) /\ stored.server \in Server /\ <<>> \in Seq(Server)
  BY <1>1, EmptySeq DEF Settings
<1>3. ASSUME NEW h \in Seq(Server) PROVE [stored EXCEPT !.history = h] \in Settings
  BY <1>1 DEF Settings
<1>4. ASSUME NEW r \in Seq(Row)
      PROVE  [new EXCEPT !.rows = r, !.names = stored.names, !.server = stored.server] \in Settings
  BY <1>2 DEF Settings
<1>5. ASSUME NEW x \in Server PROVE [new EXCEPT !.server = x] \in Settings
  BY DEF Settings
<1>6. [stored.server EXCEPT !.addr = new.server.addr] \in Server
  BY <1>2 DEF Server
<1>7. RowsWritten(new.rows) \subseteq Seq(Row)
  BY <1>2, RowsWrittenType
<1> QED
  BY <1>2, <1>3, <1>4, <1>5, <1>6, <1>7 DEF Written

-------------------------------------------------------------------------------
(* What several actions have in common. *)

EngineParts ==
  RunningServerIsShown /\ ButtonsFollowEngine /\ TestedUnlessRaced /\ ConnectedWasTested

TestParts == EventsInOrder /\ TestsShown

\* The tests stay right under whatever the user does to the fields, as Show sees to raced.
LEMMA TestsUntouched ==
  ASSUME WindowInv, UNCHANGED tests,
         \/ raced' = TRUE
         \/ raced' = raced /\ (shown'.addr = shown.addr \/ ~Outstanding)
  PROVE  TestParts'
<1>1. thread' = thread /\ queue' = queue
  BY DEF tests
<1>2. EventsInOrder'
  BY <1>1 DEF WindowInv, EventsInOrder
<1>3. TestsShown'
  <2>1. \A t \in Threads : thread[t].state # "none" => thread[t].addr \in Addresses
    BY DEF WindowInv, TestsShown
  <2>2. CASE raced' = TRUE
    BY <1>1, <2>1, <2>2 DEF TestsShown
  <2>3. CASE raced' = raced /\ shown'.addr = shown.addr
    BY <1>1, <2>3 DEF WindowInv, TestsShown
  <2>4. CASE ~Outstanding
    <3>1. DOMAIN queue = 1 .. Len(queue)
      BY LenProperties DEF WindowInv, TypeOK
    <3> QED BY <1>1, <2>1, <2>4, <3>1 DEF TestsShown, Outstanding
  <2> QED BY <2>2, <2>3, <2>4
<1> QED
  BY <1>2, <1>3 DEF TestParts

\* A new test gets a thread of which nothing is left in the queue.
LEMMA NewTestKeeps ==
  ASSUME WindowInv, NewTest, Usable(shown), UNCHANGED <<shown, raced>>
  PROVE  /\ TestParts' /\ queue' = queue
         /\ thread' \in [Threads -> Thread] /\ current' \in Threads /\ testOn' = FALSE
         /\ \A i \in 1 .. Len(queue) : thread'[queue[i].of].state # "none"
<1>1. PICK t \in Threads :
        /\ thread[t] = Idle
        /\ thread' = [thread EXCEPT ![t] = [state |-> "running", addr |-> shown.addr]]
        /\ current' = t /\ testOn' = FALSE /\ UNCHANGED queue
  BY DEF NewTest
<1>2. /\ thread \in [Threads -> Thread] /\ queue \in Seq(Event)
      /\ \A i \in 1 .. Len(queue) : thread[queue[i].of].state # "none"
  BY DEF WindowInv, TypeOK
<1>3. ASSUME NEW i \in 1 .. Len(queue)
      PROVE  queue[i].of \in Threads /\ queue[i].of # t
  <2>1. queue[i] \in Event
    BY <1>2, ElementOfSeq
  <2>2. thread[t].state = "none"
    BY <1>1 DEF Idle
  <2> QED BY <1>2, <2>1, <2>2 DEF Event
<1>4. shown.addr \in Addresses
  BY DEF Usable
<1>5. /\ thread'[t] = [state |-> "running", addr |-> shown.addr]
      /\ \A u \in Threads : u # t => thread'[u] = thread[u]
  BY <1>1, <1>2
<1>6. thread' \in [Threads -> Thread]
  BY <1>1, <1>2, <1>4 DEF Thread, Texts
<1>7. \A i \in 1 .. Len(queue) : thread'[queue[i].of] = thread[queue[i].of]
  BY <1>3, <1>5
<1>8. EventsInOrder'
  BY <1>1, <1>7 DEF WindowInv, EventsInOrder
<1>9. TestsShown'
  BY <1>1, <1>4, <1>5, <1>7 DEF WindowInv, TestsShown
<1> QED
  BY <1>1, <1>2, <1>6, <1>7, <1>8, <1>9 DEF TestParts

\* onTestServerClicked starts at most one test; it takes nothing back but a former success.
LEMMA TestServerKeeps ==
  ASSUME WindowInv, TestServer, UNCHANGED <<shown, raced>>
  PROVE  /\ TestParts' /\ queue' = queue
         /\ thread' \in [Threads -> Thread] /\ current' \in 0 .. MaxTests
         /\ testOn' \in BOOLEAN /\ connected' \in BOOLEAN /\ startOn' \in BOOLEAN
         /\ \A i \in 1 .. Len(queue) : thread'[queue[i].of].state # "none"
         /\ connected' = connected \/ connected' = FALSE
         /\ startOn' = startOn \/ startOn' = FALSE
<1>1. /\ thread \in [Threads -> Thread] /\ current \in 0 .. MaxTests /\ testOn \in BOOLEAN
      /\ connected \in BOOLEAN /\ startOn \in BOOLEAN
      /\ \A i \in 1 .. Len(queue) : thread[queue[i].of].state # "none"
  BY DEF WindowInv, TypeOK
<1>2. CASE NewTest /\ Usable(shown) /\ UNCHANGED <<connected, startOn>>
  <2>1. Threads \subseteq 0 .. MaxTests
    BY Constants DEF Threads
  <2> QED BY <1>1, <1>2, <2>1, NewTestKeeps
<1>3. CASE UNCHANGED tests /\ testOn' = testOn /\ connected' \in {connected, FALSE}
           /\ startOn' \in {startOn, FALSE}
  BY <1>1, <1>3, TestsUntouched DEF tests
<1> QED
  BY <1>2, <1>3 DEF TestServer, tests

\* StartEngine leaves the buttons and the engine in step.
LEMMA StartEngineKeeps ==
  ASSUME WindowInv, StartEngine, Usable(shown), connected = TRUE,
         UNCHANGED <<shown, connected, passed, raced>>
  PROVE  /\ EngineParts' /\ engine' \in Server
         /\ startOn' \in BOOLEAN /\ stopOn' \in BOOLEAN
<1>1. shown # Off /\ shown \in Server
  <2>1. Off.addr = Blank /\ shown.addr # Blank
    BY WindowAssumption DEF Usable, Off
  <2> QED BY <2>1 DEF WindowInv, TypeOK
<1>2. shown.addr \in passed \/ raced
  BY DEF WindowInv, ConnectedWasTested
<1>3. /\ engine \in Server /\ startOn \in BOOLEAN /\ stopOn \in BOOLEAN
      /\ stopOn = (engine # Off) /\ (startOn = TRUE => engine = Off)
  BY DEF WindowInv, TypeOK, ButtonsFollowEngine
<1>4. RunningServerIsShown'
  BY DEF StartEngine, WindowInv, RunningServerIsShown
<1>5. ButtonsFollowEngine'
  BY <1>1, <1>3 DEF StartEngine, ButtonsFollowEngine
<1>6. TestedUnlessRaced' /\ ConnectedWasTested'
  BY <1>2 DEF StartEngine, WindowInv, TestedUnlessRaced, ConnectedWasTested
<1>7. engine' \in Server /\ startOn' \in BOOLEAN /\ stopOn' \in BOOLEAN
  BY <1>1, <1>3 DEF StartEngine
<1> QED
  BY <1>4, <1>5, <1>6, <1>7 DEF EngineParts

-------------------------------------------------------------------------------
(* The invariant holds at first, and each action keeps it. *)

LEMMA WindowInit == Init => WindowInv
<1> SUFFICES ASSUME Init PROVE WindowInv
  OBVIOUS
<1>1. Off \in Server /\ Idle \in Thread /\ Len(<<>>) = 0 /\ <<>> \in Seq(Event)
      /\ <<>> \in Seq(Server) /\ <<>> \in Seq(Row)
  BY EmptySeq DEF Off, Server, Idle, Thread, Texts
<1>2. TypeOK
  <2>1. stored \in Settings /\ clicks \in 0 .. MaxClicks /\ current \in 0 .. MaxTests
    BY Constants DEF Init
  <2>2. /\ shown \in Server /\ history \in Seq(Server) /\ index \in 0 .. Len(history)
        /\ rows \in Seq(Row) /\ engine \in Server
    BY <1>1 DEF Init
  <2>3. /\ thread \in [Threads -> Thread] /\ queue \in Seq(Event) /\ passed \subseteq Addresses
        /\ \A i \in 1 .. Len(queue) : thread[queue[i].of].state # "none"
    BY <1>1 DEF Init
  <2> QED BY <2>1, <2>2, <2>3 DEF Init, TypeOK
<1>3. RunningServerIsShown /\ ButtonsFollowEngine /\ TestedUnlessRaced /\ ConnectedWasTested
  BY DEF Init, RunningServerIsShown, ButtonsFollowEngine, TestedUnlessRaced, ConnectedWasTested
<1>4. ClosedIsQuiet /\ SavedTable
  BY DEF Init, ClosedIsQuiet, SavedTable
<1>5. EventsInOrder
  BY <1>1 DEF Init, EventsInOrder
<1>6. TestsShown
  <2>1. \A t \in Threads : thread[t].state = "none"
    BY DEF Init, Idle
  <2> QED BY <1>1, <2>1 DEF Init, TestsShown
<1> QED
  BY <1>2, <1>3, <1>4, <1>5, <1>6 DEF WindowInv

\* A program that has just been opened or closed has no test under way.
LEMMA QuietTests ==
  ASSUME thread' = [t \in Threads |-> Idle], queue' = <<>>
  PROVE  /\ TestParts' /\ thread' \in [Threads -> Thread] /\ queue' \in Seq(Event)
         /\ \A i \in 1 .. Len(queue') : thread'[queue'[i].of].state # "none"
<1>1. Idle \in Thread /\ Len(<<>>) = 0 /\ <<>> \in Seq(Event)
  BY EmptySeq DEF Idle, Thread, Texts
<1>2. \A t \in Threads : thread'[t].state = "none"
  BY DEF Idle
<1>3. EventsInOrder'
  BY <1>1 DEF EventsInOrder
<1>4. TestsShown'
  BY <1>1, <1>2 DEF TestsShown
<1> QED
  BY <1>1, <1>3, <1>4 DEF TestParts

LEMMA LaunchKeeps ==
  ASSUME WindowInv, Launch
  PROVE  WindowInv'
<1>1. /\ engine = Off /\ connected = FALSE /\ startOn = FALSE /\ stopOn = FALSE
      /\ thread = [t \in Threads |-> Idle] /\ current = 0 /\ queue = <<>>
  BY DEF Launch, WindowInv, ClosedIsQuiet, TypeOK
<1>2. TypeOK
  BY DEF WindowInv
<1>3. rows' \in Seq(Row)
  <2>1. NewRow(Default) \in Row
    BY Constants DEF NewRow, Row, Names
  <2> QED BY <1>2, <2>1, Loaded DEF Launch, TypeOK
<1>4. TestParts' /\ thread' \in [Threads -> Thread] /\ queue' \in Seq(Event)
      /\ \A i \in 1 .. Len(queue') : thread'[queue'[i].of].state # "none"
  BY <1>1, QuietTests DEF Launch, tests
<1>5. TypeOK'
  <2>1. /\ shown' \in Server /\ history' \in Seq(Server) /\ index' = 0 /\ auto' \in BOOLEAN
        /\ Len(history') \in Nat
    BY <1>2, LenProperties DEF Launch, TypeOK, Settings
  <2>2. unsaved' \in BOOLEAN /\ open' \in BOOLEAN
    BY DEF Launch
  <2> QED BY <1>2, <1>3, <1>4, <2>1, <2>2 DEF Launch, TypeOK, buttons, tests
<1>6. EngineParts'
  BY <1>1 DEF Launch, buttons, EngineParts, RunningServerIsShown, ButtonsFollowEngine,
     TestedUnlessRaced, ConnectedWasTested
<1>7. ClosedIsQuiet'
  BY DEF Launch, ClosedIsQuiet
<1>8. SavedTable'
  <2> SUFFICES ASSUME ~unsaved' PROVE stored'.rows = rows' /\ (rows' = <<>> => stored'.names = <<>>)
    BY DEF SavedTable
  <2>1. rows' = stored.rows /\ stored' = stored
    BY DEF Launch
  <2>2. rows' # <<>>
    <3>1. <<NewRow(Default)>> # <<>>
      OBVIOUS
    <3> QED BY <3>1 DEF Launch
  <2> QED BY <2>1, <2>2
<1> QED
  BY <1>4, <1>5, <1>6, <1>7, <1>8 DEF WindowInv, EngineParts, TestParts

\* However the program ends, nothing of it is left but the settings.
LEMMA CloseKeeps ==
  ASSUME WindowInv, Click, Close, rows' \in Seq(Row), stored' \in Settings,
         unsaved' \in BOOLEAN, SavedTable'
  PROVE  WindowInv'
<1>1. TypeOK
  BY DEF WindowInv
<1>2. TestParts' /\ thread' \in [Threads -> Thread] /\ queue' \in Seq(Event)
      /\ \A i \in 1 .. Len(queue') : thread'[queue'[i].of].state # "none"
  BY QuietTests DEF Close
<1>3. clicks' \in 0 .. MaxClicks
  BY <1>1, Constants DEF Click, TypeOK
<1>4. TypeOK'
  <2>1. Off \in Server /\ 0 \in 0 .. MaxTests
    BY Constants DEF Off, Server, Texts
  <2> QED BY <1>1, <1>2, <1>3, <2>1 DEF Close, TypeOK
<1>5. EngineParts'
  BY DEF Close, EngineParts, RunningServerIsShown, ButtonsFollowEngine,
     TestedUnlessRaced, ConnectedWasTested
<1>6. ClosedIsQuiet'
  BY DEF Close, ClosedIsQuiet
<1> QED
  BY <1>2, <1>4, <1>5, <1>6 DEF WindowInv, EngineParts, TestParts

LEMMA QuitKeeps ==
  ASSUME WindowInv, Quit
  PROVE  WindowInv'
<1>1. /\ TypeOK /\ Click /\ Close /\ rows' = rows
      /\ shown \in Server /\ history \in Seq(Server) /\ rows \in Seq(Row)
  BY DEF Quit, WindowInv, TypeOK
<1>2. PICK new \in Settings : /\ new = Snapshot(shown, history, rows)
                              /\ new.rows = rows /\ (rows = <<>> => new.names = <<>>)
  BY <1>1, Saved
<1>3. CASE stored' = new /\ unsaved' = FALSE
  BY <1>1, <1>2, <1>3, CloseKeeps DEF SavedTable
<1>4. CASE stored' \in Written(new) /\ unsaved' = TRUE
  <2>1. stored' \in Settings
    BY <1>1, <1>4, WrittenType
  <2> QED BY <1>1, <1>4, <2>1, CloseKeeps DEF SavedTable
<1> QED
  BY <1>2, <1>3, <1>4 DEF Quit

LEMMA CrashKeeps ==
  ASSUME WindowInv, Crash
  PROVE  WindowInv'
<1>1. /\ Click /\ Close /\ UNCHANGED <<rows, stored, unsaved>>
  BY DEF Crash
<1>2. rows' \in Seq(Row) /\ stored' \in Settings /\ unsaved' \in BOOLEAN /\ SavedTable'
  BY <1>1 DEF WindowInv, TypeOK, SavedTable
<1> QED
  BY <1>1, <1>2, CloseKeeps

LEMMA TestServerClickedKeeps ==
  ASSUME WindowInv, TestServerClicked
  PROVE  WindowInv'
<1>1. /\ TypeOK /\ Click /\ TestServer
      /\ UNCHANGED <<open, shown, history, index, rows, stopOn, engine, auto, stored,
                     passed, raced, unsaved>>
  BY DEF TestServerClicked, form, memory, WindowInv
<1>2. /\ TestParts' /\ queue' = queue
      /\ thread' \in [Threads -> Thread] /\ current' \in 0 .. MaxTests
      /\ testOn' \in BOOLEAN /\ connected' \in BOOLEAN /\ startOn' \in BOOLEAN
      /\ \A i \in 1 .. Len(queue) : thread'[queue[i].of].state # "none"
      /\ connected' = connected \/ connected' = FALSE
      /\ startOn' = startOn \/ startOn' = FALSE
  BY <1>1, TestServerKeeps
<1>3. TypeOK'
  BY <1>1, <1>2, Constants DEF Click, TypeOK
<1>4. EngineParts'
  BY <1>1, <1>2 DEF WindowInv, EngineParts, RunningServerIsShown, ButtonsFollowEngine,
     TestedUnlessRaced, ConnectedWasTested
<1>5. ClosedIsQuiet' /\ SavedTable'
  BY <1>1 DEF Click, WindowInv, ClosedIsQuiet, SavedTable
<1> QED
  BY <1>2, <1>3, <1>4, <1>5 DEF WindowInv, EngineParts, TestParts

\* What posting an event to the queue, or hearing one, does to it.
LEMMA Posted ==
  ASSUME queue \in Seq(Event), NEW e \in Event
  PROVE  /\ Append(queue, e) \in Seq(Event) /\ Len(Append(queue, e)) = Len(queue) + 1
         /\ Len(queue) \in Nat
         /\ \A i \in 1 .. Len(queue) : Append(queue, e)[i] = queue[i]
         /\ Append(queue, e)[Len(queue) + 1] = e
BY AppendProperties, LenProperties

LEMMA Heard ==
  ASSUME queue \in Seq(Event), queue # <<>>
  PROVE  /\ Head(queue) = queue[1] /\ 1 \in 1 .. Len(queue) /\ queue[1] \in Event
         /\ Tail(queue) \in Seq(Event) /\ Len(queue) \in Nat /\ Len(Tail(queue)) = Len(queue) - 1
         /\ \A i \in 1 .. Len(Tail(queue)) :
              i + 1 \in 1 .. Len(queue) /\ Tail(queue)[i] = queue[i + 1]
<1>1. Len(queue) \in Nat /\ Len(queue) # 0
  BY LenProperties, EmptySeq
<1>2. /\ Head(queue) = queue[1] /\ Tail(queue) \in Seq(Event)
      /\ Len(Tail(queue)) = Len(queue) - 1
      /\ \A i \in 1 .. Len(Tail(queue)) : Tail(queue)[i] = queue[i + 1]
  BY HeadTailProperties
<1>3. queue[1] \in Event
  BY <1>1, ElementOfSeq
<1> QED
  BY <1>1, <1>2, <1>3

\* A thread that posts its answer has posted nothing before, and one that ends nothing
\* but its answer.
LEMMA ThreadPosts ==
  ASSUME WindowInv, NEW t \in Threads, NEW e \in Event, e.of = t,
         \/ thread[t].state = "running" /\ e.event = "completed"
            /\ thread' = [thread EXCEPT ![t].state = "posted"]
         \/ thread[t].state = "posted" /\ e.event = "destroy"
            /\ thread' = [thread EXCEPT ![t].state = "done"],
         queue' = Append(queue, e),
         UNCHANGED <<open, form, buttons, engine, current, auto, stored, memory, clicks>>
  PROVE  WindowInv'
<1>1. /\ UNCHANGED <<open, shown, history, index, rows, connected, startOn, stopOn, testOn, engine>>
      /\ UNCHANGED <<current, auto, stored, passed, raced, unsaved, clicks>>
  BY DEF form, buttons, memory
<1>2. /\ TypeOK /\ thread \in [Threads -> Thread] /\ queue \in Seq(Event)
      /\ \A i \in 1 .. Len(queue) : thread[queue[i].of].state # "none"
  BY DEF WindowInv, TypeOK
<1>3. /\ queue' \in Seq(Event) /\ Len(queue') = Len(queue) + 1 /\ Len(queue) \in Nat
      /\ \A i \in 1 .. Len(queue) : queue'[i] = queue[i]
      /\ queue'[Len(queue) + 1] = e
  BY <1>2, Posted
<1>4. \A i \in 1 .. Len(queue) : queue[i] \in Event
  BY <1>2, ElementOfSeq
<1>5. /\ thread' \in [Threads -> Thread]
      /\ \A u \in Threads : u # t => thread'[u] = thread[u]
      /\ thread'[t].addr = thread[t].addr
      /\ thread'[t].state = IF e.event = "completed" THEN "posted" ELSE "done"
  <2>1. PICK x \in {"posted", "done"} :
          /\ x = IF e.event = "completed" THEN "posted" ELSE "done"
          /\ thread' = [thread EXCEPT ![t] = [thread[t] EXCEPT !.state = x]]
    OBVIOUS
  <2>2. [thread[t] EXCEPT !.state = x] \in Thread
    BY <1>2 DEF Thread
  <2>3. [thread[t] EXCEPT !.state = x].addr = thread[t].addr
        /\ [thread[t] EXCEPT !.state = x].state = x
    BY <1>2 DEF Thread
  <2> QED BY <1>2, <2>1, <2>2, <2>3
<1>6. \A i \in 1 .. Len(queue') :
        \/ i \in 1 .. Len(queue) /\ queue'[i] = queue[i]
        \/ i = Len(queue) + 1 /\ queue'[i] = e
  BY <1>3
<1>7. \A i \in 1 .. Len(queue) : queue[i].of = t =>
        e.event = "destroy" /\ queue[i].event = "completed"
  <2>1. \A i \in 1 .. Len(queue) : queue[i].event \in {"completed", "destroy"}
    BY <1>4 DEF Event
  <2> QED BY <2>1 DEF WindowInv, EventsInOrder
<1>8. TypeOK'
  <2>1. ASSUME NEW i \in 1 .. Len(queue') PROVE thread'[queue'[i].of].state # "none"
    <3>1. CASE queue'[i].of = t
      BY <1>5, <3>1
    <3>2. CASE queue'[i].of # t
      <4>1. i \in 1 .. Len(queue) /\ queue'[i] = queue[i]
        BY <1>6, <3>2
      <4>2. queue[i].of \in Threads
        BY <1>4, <4>1 DEF Event
      <4> QED BY <1>2, <1>5, <3>2, <4>1, <4>2
    <3> QED BY <3>1, <3>2
  <2> QED BY <1>1, <1>2, <1>3, <1>5, <2>1 DEF TypeOK
<1>9. EventsInOrder'
  <2>1. ASSUME NEW i \in 1 .. Len(queue')
        PROVE  /\ queue'[i].event = "completed" => thread'[queue'[i].of].state \in {"posted", "done"}
               /\ queue'[i].event = "destroy" => thread'[queue'[i].of].state = "done"
    <3>1. CASE i = Len(queue) + 1 /\ queue'[i] = e
      BY <1>5, <3>1 DEF Event
    <3>2. CASE i \in 1 .. Len(queue) /\ queue'[i] = queue[i] /\ queue[i].of = t
      BY <1>5, <1>7, <3>2
    <3>3. CASE i \in 1 .. Len(queue) /\ queue'[i] = queue[i] /\ queue[i].of # t
      BY <1>4, <1>5, <3>3 DEF Event, WindowInv, EventsInOrder
    <3> QED BY <1>6, <3>1, <3>2, <3>3
  <2>2. ASSUME NEW i \in 1 .. Len(queue'), NEW j \in 1 .. Len(queue'), i < j,
               queue'[i].of = queue'[j].of
        PROVE  queue'[i].event = "completed" /\ queue'[j].event = "destroy"
    <3>1. i \in 1 .. Len(queue) /\ queue'[i] = queue[i]
      BY <1>3, <1>6, <2>2
    <3>2. CASE j = Len(queue) + 1 /\ queue'[j] = e
      BY <1>7, <2>2, <3>1, <3>2
    <3>3. CASE j \in 1 .. Len(queue) /\ queue'[j] = queue[j]
      BY <2>2, <3>1, <3>3 DEF WindowInv, EventsInOrder
    <3> QED BY <1>6, <3>2, <3>3
  <2> QED BY <2>1, <2>2 DEF EventsInOrder
<1>10. TestsShown'
  <2>1. thread[t].state # "none" /\ (e.event = "completed" => thread[t].state = "running")
    OBVIOUS
  <2>2. \A u \in Threads : thread'[u].state # "none" => thread'[u].addr \in Addresses
    BY <1>5, <2>1 DEF WindowInv, TestsShown
  <2>3. \A u \in Threads : thread'[u].state = "running" => thread'[u].addr = shown'.addr \/ raced'
    BY <1>1, <1>5 DEF WindowInv, TestsShown
  <2>4. ASSUME NEW i \in 1 .. Len(queue'), queue'[i].event = "completed"
        PROVE  thread'[queue'[i].of].addr = shown'.addr \/ raced'
    <3>1. thread'[queue'[i].of].addr = thread[queue'[i].of].addr
      BY <1>4, <1>5, <1>6 DEF Event
    <3> QED BY <1>1, <1>6, <2>1, <2>4, <3>1 DEF WindowInv, TestsShown
  <2> QED BY <2>2, <2>3, <2>4 DEF TestsShown
<1>11. EngineParts' /\ SavedTable'
  BY <1>1 DEF WindowInv, EngineParts, RunningServerIsShown, ButtonsFollowEngine,
     TestedUnlessRaced, ConnectedWasTested, SavedTable
<1>12. ClosedIsQuiet'
  <2>1. open
    <3>1. thread[t].state # Idle.state
      BY DEF Idle
    <3> QED BY <3>1 DEF WindowInv, ClosedIsQuiet
  <2> QED BY <1>1, <2>1 DEF ClosedIsQuiet
<1> QED
  BY <1>8, <1>9, <1>10, <1>11, <1>12 DEF WindowInv, EngineParts

LEMMA ThreadKeeps ==
  ASSUME WindowInv, NEW t \in Threads, ThreadAnswers(t) \/ ThreadFinishes(t)
  PROVE  WindowInv'
<1>1. CASE ThreadAnswers(t)
  <2>1. PICK ok \in BOOLEAN : queue' = Append(queue, [event |-> "completed", of |-> t, ok |-> ok])
    BY <1>1 DEF ThreadAnswers
  <2> DEFINE e == [event |-> "completed", of |-> t, ok |-> ok]
  <2>2. e \in Event /\ e.of = t /\ e.event = "completed"
    BY DEF Event
  <2> HIDE DEF e
  <2> QED BY <1>1, <2>1, <2>2, ThreadPosts DEF ThreadAnswers, e
<1>2. CASE ThreadFinishes(t)
  <2> DEFINE e == [event |-> "destroy", of |-> t, ok |-> FALSE]
  <2>1. e \in Event /\ e.of = t /\ e.event = "destroy"
    BY DEF Event
  <2>2. queue' = Append(queue, e)
    BY <1>2 DEF ThreadFinishes
  <2> HIDE DEF e
  <2> QED BY <1>2, <2>1, <2>2, ThreadPosts DEF ThreadFinishes
<1> QED
  BY <1>1, <1>2

\* onTestCompleted: the answer heard is of the address shown, or raced says otherwise.
LEMMA TestCompletedKeeps ==
  ASSUME WindowInv, TestCompleted
  PROVE  WindowInv'
<1>1. /\ TypeOK /\ queue \in Seq(Event) /\ queue # <<>> /\ queue' = Tail(queue)
      /\ \A i \in 1 .. Len(queue) : thread[queue[i].of].state # "none"
      /\ UNCHANGED <<open, shown, history, index, rows, stopOn, engine, thread, current,
                     auto, stored, raced, unsaved, clicks>>
      /\ testOn' = TRUE
  BY DEF TestCompleted, form, WindowInv, TypeOK
<1>2. /\ Head(queue) = queue[1] /\ 1 \in 1 .. Len(queue) /\ queue[1] \in Event
      /\ queue' \in Seq(Event) /\ Len(queue') = Len(queue) - 1
      /\ \A i \in 1 .. Len(queue') : i + 1 \in 1 .. Len(queue) /\ queue'[i] = queue[i + 1]
  BY <1>1, Heard
<1>3. PICK ok \in BOOLEAN :
        /\ ok = Head(queue).ok /\ connected' = ok
        /\ startOn' = IF engine = Off THEN ok ELSE startOn
        /\ passed' = IF ok THEN passed \cup {thread[queue[1].of].addr} ELSE passed
  BY <1>2 DEF TestCompleted, Event
<1>4. /\ thread[queue[1].of].addr \in Addresses
      /\ thread[queue[1].of].addr = shown.addr \/ raced
  <2>1. queue[1].event = "completed" /\ queue[1].of \in Threads
    BY <1>2 DEF TestCompleted, Event
  <2> QED BY <1>1, <1>2, <2>1 DEF WindowInv, TestsShown
<1>5. TypeOK'
  <2>1. passed' \subseteq Addresses /\ connected' \in BOOLEAN /\ startOn' \in BOOLEAN
    BY <1>1, <1>3, <1>4 DEF TypeOK
  <2> QED BY <1>1, <1>2, <2>1 DEF TypeOK
<1>6. EventsInOrder'
  <2>1. \A i \in 1 .. Len(queue') :
          /\ queue'[i].event = "completed" => thread'[queue'[i].of].state \in {"posted", "done"}
          /\ queue'[i].event = "destroy" => thread'[queue'[i].of].state = "done"
    BY <1>1, <1>2 DEF WindowInv, EventsInOrder
  <2>2. ASSUME NEW i \in 1 .. Len(queue'), NEW j \in 1 .. Len(queue'), i < j,
               queue'[i].of = queue'[j].of
        PROVE  queue'[i].event = "completed" /\ queue'[j].event = "destroy"
    <3>1. i + 1 \in 1 .. Len(queue) /\ j + 1 \in 1 .. Len(queue) /\ i + 1 < j + 1
      BY <1>2, <2>2
    <3> QED BY <1>2, <2>2, <3>1 DEF WindowInv, EventsInOrder
  <2> QED BY <2>1, <2>2 DEF EventsInOrder
<1>7. TestsShown'
  BY <1>1, <1>2 DEF WindowInv, TestsShown
<1>8. EngineParts'
  <2>1. RunningServerIsShown'
    BY <1>1 DEF WindowInv, RunningServerIsShown
  <2>2. ButtonsFollowEngine'
    BY <1>1, <1>3 DEF WindowInv, ButtonsFollowEngine
  <2>3. passed \subseteq passed'
    BY <1>3
  <2>4. TestedUnlessRaced'
    BY <1>1, <2>3 DEF WindowInv, TestedUnlessRaced
  <2>5. ConnectedWasTested'
    BY <1>1, <1>3, <1>4 DEF ConnectedWasTested
  <2> QED BY <2>1, <2>2, <2>4, <2>5 DEF EngineParts
<1>9. ClosedIsQuiet' /\ SavedTable'
  BY <1>1 DEF WindowInv, ClosedIsQuiet, SavedTable
<1> QED
  BY <1>5, <1>6, <1>7, <1>8, <1>9 DEF WindowInv, EngineParts

\* The lambda on destroyed: nothing of the thread is left behind its last event.
LEMMA ThreadDestroyedKeeps ==
  ASSUME WindowInv, ThreadDestroyed
  PROVE  WindowInv'
<1> DEFINE t == queue[1].of
<1>1. /\ TypeOK /\ queue \in Seq(Event) /\ queue # <<>> /\ queue' = Tail(queue)
      /\ \A i \in 1 .. Len(queue) : thread[queue[i].of].state # "none"
      /\ thread \in [Threads -> Thread] /\ current' = 0
      /\ UNCHANGED <<open, shown, history, index, rows, connected, startOn, stopOn, testOn, engine>>
      /\ UNCHANGED <<auto, stored, passed, raced, unsaved, clicks>>
  BY DEF ThreadDestroyed, form, buttons, memory, WindowInv, TypeOK
<1>2. /\ Head(queue) = queue[1] /\ 1 \in 1 .. Len(queue) /\ queue[1] \in Event
      /\ queue' \in Seq(Event) /\ Len(queue') = Len(queue) - 1 /\ Len(queue) \in Nat
      /\ \A i \in 1 .. Len(queue') : i + 1 \in 1 .. Len(queue) /\ queue'[i] = queue[i + 1]
  BY <1>1, Heard
<1>3. t \in Threads /\ queue[1].event = "destroy"
  BY <1>2 DEF ThreadDestroyed, Event
<1>4. thread' = [thread EXCEPT ![t] = Idle] /\ Idle \in Thread /\ Idle.state = "none"
  BY <1>2 DEF ThreadDestroyed, Idle, Thread, Texts
<1>5. \A i \in 1 .. Len(queue') : queue'[i].of \in Threads /\ queue'[i].of # t
  <2>1. \A i \in 1 .. Len(queue') : queue'[i] \in Event
    BY <1>2, ElementOfSeq
  <2>2. ASSUME NEW i \in 1 .. Len(queue'), queue'[i].of = t PROVE FALSE
    <3>1. i + 1 \in 1 .. Len(queue) /\ 1 < i + 1 /\ queue[i + 1].of = t
      BY <1>2, <2>2
    <3>2. queue[1].event = "completed"
      BY <1>2, <3>1 DEF WindowInv, EventsInOrder
    <3> QED BY <1>3, <3>2
  <2> QED BY <2>1, <2>2 DEF Event
<1> HIDE DEF t
<1>6. /\ thread' \in [Threads -> Thread] /\ thread'[t].state = "none"
      /\ \A u \in Threads : u # t => thread'[u] = thread[u]
  BY <1>1, <1>3, <1>4
<1>7. \A i \in 1 .. Len(queue') : thread'[queue'[i].of] = thread[queue'[i].of]
  BY <1>5, <1>6
<1>8. TypeOK'
  <2>1. \A i \in 1 .. Len(queue') : thread'[queue'[i].of].state # "none"
    BY <1>1, <1>2, <1>7
  <2>2. current' \in 0 .. MaxTests
    BY <1>1, Constants
  <2> QED BY <1>1, <1>2, <1>6, <2>1, <2>2 DEF TypeOK
<1>9. EventsInOrder'
  <2>1. \A i \in 1 .. Len(queue') :
          /\ queue'[i].event = "completed" => thread'[queue'[i].of].state \in {"posted", "done"}
          /\ queue'[i].event = "destroy" => thread'[queue'[i].of].state = "done"
    BY <1>2, <1>7 DEF WindowInv, EventsInOrder
  <2>2. ASSUME NEW i \in 1 .. Len(queue'), NEW j \in 1 .. Len(queue'), i < j,
               queue'[i].of = queue'[j].of
        PROVE  queue'[i].event = "completed" /\ queue'[j].event = "destroy"
    <3>1. i + 1 \in 1 .. Len(queue) /\ j + 1 \in 1 .. Len(queue) /\ i + 1 < j + 1
      BY <1>2, <2>2
    <3> QED BY <1>2, <2>2, <3>1 DEF WindowInv, EventsInOrder
  <2> QED BY <2>1, <2>2 DEF EventsInOrder
<1>10. TestsShown'
  <2>1. \A u \in Threads :
          /\ thread'[u].state # "none" => thread'[u].addr \in Addresses
          /\ thread'[u].state = "running" => thread'[u].addr = shown'.addr \/ raced'
    BY <1>1, <1>6 DEF WindowInv, TestsShown
  <2>2. \A i \in 1 .. Len(queue') : queue'[i].event = "completed" =>
          thread'[queue'[i].of].addr = shown'.addr \/ raced'
    BY <1>1, <1>2, <1>7 DEF WindowInv, TestsShown
  <2> QED BY <2>1, <2>2 DEF TestsShown
<1>11. EngineParts' /\ SavedTable'
  BY <1>1 DEF WindowInv, EngineParts, RunningServerIsShown, ButtonsFollowEngine,
     TestedUnlessRaced, ConnectedWasTested, SavedTable
<1>12. ClosedIsQuiet'
  BY <1>1 DEF WindowInv, ClosedIsQuiet
<1> QED
  BY <1>8, <1>9, <1>10, <1>11, <1>12 DEF WindowInv, EngineParts

\* What is left to show of an action that only concerns the tests, the buttons and the engine.
LEMMA MonitoringKeeps ==
  ASSUME WindowInv, open,
         UNCHANGED <<open, shown, history, index, rows, stored, passed, raced, unsaved, queue>>,
         clicks' \in 0 .. MaxClicks, auto' \in BOOLEAN,
         TestParts', thread' \in [Threads -> Thread], current' \in 0 .. MaxTests,
         \A i \in 1 .. Len(queue) : thread'[queue[i].of].state # "none",
         testOn' \in BOOLEAN, connected' \in BOOLEAN, startOn' \in BOOLEAN, stopOn' \in BOOLEAN,
         EngineParts', engine' \in Server
  PROVE  WindowInv'
<1>1. TypeOK'
  BY DEF WindowInv, TypeOK
<1>2. ClosedIsQuiet' /\ SavedTable'
  BY DEF WindowInv, ClosedIsQuiet, SavedTable
<1> QED
  BY <1>1, <1>2 DEF WindowInv, EngineParts, TestParts

\* A test that is begun, or refused, leaves the engine alone.
LEMMA TestLeavesEngine ==
  ASSUME WindowInv, UNCHANGED <<shown, engine, stopOn, passed, raced>>,
         connected' = connected \/ connected' = FALSE,
         startOn' = startOn \/ startOn' = FALSE
  PROVE  EngineParts'
BY DEF WindowInv, EngineParts, RunningServerIsShown, ButtonsFollowEngine,
   TestedUnlessRaced, ConnectedWasTested

LEMMA StartMonitorClickedKeeps ==
  ASSUME WindowInv, StartMonitorClicked
  PROVE  WindowInv'
<1>1. /\ TypeOK /\ Click /\ Usable(shown) /\ StartMonitor
      /\ UNCHANGED <<open, shown, history, index, rows, auto, stored, passed, raced, unsaved>>
  BY DEF StartMonitorClicked, form, memory, WindowInv
<1>2. open /\ clicks' \in 0 .. MaxClicks
  BY <1>1, Constants DEF Click, TypeOK
<1>3. CASE ~connected /\ TestServer /\ UNCHANGED <<engine, stopOn>>
  <2>1. /\ TestParts' /\ queue' = queue
        /\ thread' \in [Threads -> Thread] /\ current' \in 0 .. MaxTests
        /\ testOn' \in BOOLEAN /\ connected' \in BOOLEAN /\ startOn' \in BOOLEAN
        /\ \A i \in 1 .. Len(queue) : thread'[queue[i].of].state # "none"
        /\ connected' = connected \/ connected' = FALSE
        /\ startOn' = startOn \/ startOn' = FALSE
    BY <1>1, <1>3, TestServerKeeps
  <2>2. EngineParts'
    BY <1>1, <1>3, <2>1, TestLeavesEngine
  <2>3. engine' \in Server /\ stopOn' \in BOOLEAN /\ auto' \in BOOLEAN
    BY <1>1, <1>3 DEF TypeOK
  <2> QED BY <1>1, <1>2, <2>1, <2>2, <2>3, MonitoringKeeps
<1>4. CASE connected /\ StartEngine /\ UNCHANGED <<connected, testOn, tests>>
  <2>1. connected = TRUE
    BY <1>1, <1>4 DEF TypeOK
  <2>2. /\ EngineParts' /\ engine' \in Server
        /\ startOn' \in BOOLEAN /\ stopOn' \in BOOLEAN
    BY <1>1, <1>4, <2>1, StartEngineKeeps
  <2>3. TestParts'
    BY <1>1, <1>4, TestsUntouched
  <2>4. /\ queue' = queue /\ thread' = thread /\ current' = current
        /\ testOn' \in BOOLEAN /\ connected' \in BOOLEAN /\ auto' \in BOOLEAN
    BY <1>1, <1>4 DEF tests, TypeOK
  <2>5. /\ thread' \in [Threads -> Thread] /\ current' \in 0 .. MaxTests
        /\ \A i \in 1 .. Len(queue) : thread'[queue[i].of].state # "none"
    BY <1>1, <2>4 DEF TypeOK
  <2> QED BY <1>1, <1>2, <2>2, <2>3, <2>4, <2>5, MonitoringKeeps
<1> QED
  BY <1>1, <1>3, <1>4 DEF StartMonitor

LEMMA StopMonitorClickedKeeps ==
  ASSUME WindowInv, StopMonitorClicked
  PROVE  WindowInv'
<1>1. /\ TypeOK /\ Click
      /\ UNCHANGED <<open, shown, history, index, rows, auto, stored, passed, raced, unsaved>>
      /\ UNCHANGED <<connected, testOn, thread, current, queue>>
      /\ engine' = Off /\ startOn' = TRUE /\ stopOn' = FALSE
  BY DEF StopMonitorClicked, form, tests, memory, WindowInv
<1>2. open /\ clicks' \in 0 .. MaxClicks
  BY <1>1, Constants DEF Click, TypeOK
<1>3. EngineParts'
  BY <1>1 DEF WindowInv, EngineParts, RunningServerIsShown, ButtonsFollowEngine,
     TestedUnlessRaced, ConnectedWasTested
<1>4. TestParts'
  BY <1>1, TestsUntouched DEF tests
<1>5. engine' \in Server
  BY <1>1 DEF Off, Server, Texts
<1>6. /\ thread' \in [Threads -> Thread] /\ current' \in 0 .. MaxTests
      /\ \A i \in 1 .. Len(queue) : thread'[queue[i].of].state # "none"
      /\ testOn' \in BOOLEAN /\ connected' \in BOOLEAN /\ auto' \in BOOLEAN
  BY <1>1 DEF TypeOK
<1> QED
  BY <1>1, <1>2, <1>3, <1>4, <1>5, <1>6, MonitoringKeeps

\* The timer's slot starts the engine and a test in one step.
LEMMA AutoStartKeeps ==
  ASSUME WindowInv, AutoStart
  PROVE  WindowInv'
<1>1. /\ TypeOK /\ open /\ auto' \in BOOLEAN /\ clicks' \in 0 .. MaxClicks
      /\ UNCHANGED <<open, shown, history, index, rows, stored, passed, raced, unsaved>>
  BY DEF AutoStart, form, memory, WindowInv, TypeOK
<1>2. CASE /\ connected /\ Usable(shown) /\ StartEngine /\ UNCHANGED connected
           /\ IF Testing THEN UNCHANGED <<testOn, tests>> ELSE NewTest
  <2>1. connected = TRUE /\ connected' \in BOOLEAN
    BY <1>1, <1>2 DEF TypeOK
  <2>2. /\ EngineParts' /\ engine' \in Server
        /\ startOn' \in BOOLEAN /\ stopOn' \in BOOLEAN
    BY <1>1, <1>2, <2>1, StartEngineKeeps
  <2>3. CASE UNCHANGED <<testOn, tests>>
    <3>1. TestParts'
      BY <1>1, <2>3, TestsUntouched
    <3>2. queue' = queue /\ thread' = thread /\ current' = current /\ testOn' \in BOOLEAN
      BY <1>1, <2>3 DEF tests, TypeOK
    <3>3. /\ thread' \in [Threads -> Thread] /\ current' \in 0 .. MaxTests
          /\ \A i \in 1 .. Len(queue) : thread'[queue[i].of].state # "none"
      BY <1>1, <3>2 DEF TypeOK
    <3> QED BY <1>1, <2>1, <2>2, <3>1, <3>2, <3>3, MonitoringKeeps
  <2>4. CASE NewTest
    <3>1. /\ TestParts' /\ queue' = queue
          /\ thread' \in [Threads -> Thread] /\ current' \in Threads /\ testOn' = FALSE
          /\ \A i \in 1 .. Len(queue) : thread'[queue[i].of].state # "none"
      BY <1>1, <1>2, <2>4, NewTestKeeps
    <3>2. current' \in 0 .. MaxTests
      BY <3>1, Constants DEF Threads
    <3> QED BY <1>1, <2>1, <2>2, <3>1, <3>2, MonitoringKeeps
  <2> QED BY <1>2, <2>3, <2>4
<1>3. CASE TestServer /\ UNCHANGED <<engine, stopOn>>
  <2>1. /\ TestParts' /\ queue' = queue
        /\ thread' \in [Threads -> Thread] /\ current' \in 0 .. MaxTests
        /\ testOn' \in BOOLEAN /\ connected' \in BOOLEAN /\ startOn' \in BOOLEAN
        /\ \A i \in 1 .. Len(queue) : thread'[queue[i].of].state # "none"
        /\ connected' = connected \/ connected' = FALSE
        /\ startOn' = startOn \/ startOn' = FALSE
    BY <1>1, <1>3, TestServerKeeps
  <2>2. EngineParts'
    BY <1>1, <1>3, <2>1, TestLeavesEngine
  <2>3. engine' \in Server /\ stopOn' \in BOOLEAN
    BY <1>1, <1>3 DEF TypeOK
  <2> QED BY <1>1, <2>1, <2>2, <2>3, MonitoringKeeps
<1> QED
  BY <1>2, <1>3 DEF AutoStart

\* Whatever the user does to the fields and the saved servers, either the address shown stays
\* or the engine is stopped and the old test counts no longer.
LEMMA FieldsKeep ==
  ASSUME WindowInv, Click, UNCHANGED <<open, rows, testOn, tests, auto, stored, passed, unsaved>>,
         shown' \in Server, history' \in Seq(Server), index' \in 0 .. Len(history'),
         \/ raced' = TRUE
         \/ raced' = raced /\ (shown'.addr = shown.addr \/ ~Outstanding),
         \/ Disconnect
         \/ /\ shown'.addr = shown.addr
            /\ UNCHANGED <<raced, connected, startOn, stopOn, engine>>
  PROVE  WindowInv'
<1>1. /\ TypeOK /\ open /\ clicks' \in 0 .. MaxClicks
      /\ UNCHANGED <<thread, current, queue>>
  BY Constants DEF Click, tests, WindowInv, TypeOK
<1>2. TestParts'
  BY TestsUntouched
<1>3. EngineParts' /\ engine' \in Server /\ connected' \in BOOLEAN
      /\ startOn' \in BOOLEAN /\ stopOn' \in BOOLEAN
  <2>1. CASE Disconnect
    <3>1. engine' = Off /\ connected' = FALSE /\ startOn' = FALSE /\ stopOn' = FALSE
      BY <2>1 DEF Disconnect, WindowInv, ButtonsFollowEngine
    <3>2. Off \in Server
      BY DEF Off, Server, Texts
    <3> QED BY <3>1, <3>2 DEF EngineParts, RunningServerIsShown, ButtonsFollowEngine,
            TestedUnlessRaced, ConnectedWasTested
  <2>2. CASE /\ shown'.addr = shown.addr
             /\ UNCHANGED <<raced, connected, startOn, stopOn, engine>>
    BY <2>2 DEF WindowInv, TypeOK, EngineParts, RunningServerIsShown, ButtonsFollowEngine,
       TestedUnlessRaced, ConnectedWasTested
  <2> QED BY <2>1, <2>2
<1>4. raced' \in BOOLEAN
  BY <1>1 DEF TypeOK
<1>5. TypeOK'
  BY <1>1, <1>3, <1>4 DEF TypeOK
<1>6. ClosedIsQuiet' /\ SavedTable'
  BY <1>1 DEF WindowInv, ClosedIsQuiet, SavedTable
<1> QED
  BY <1>2, <1>3, <1>5, <1>6 DEF WindowInv, EngineParts, TestParts

\* Show remembers in raced that the address changed under a test.
LEMMA Shown ==
  ASSUME raced \in BOOLEAN, NEW s \in Server, Show(s)
  PROVE  /\ shown' \in Server
         /\ \/ raced' = TRUE
            \/ raced' = raced /\ (shown'.addr = shown.addr \/ ~Outstanding)
BY DEF Show

LEMMA ProxySettingsChangedKeeps ==
  ASSUME WindowInv, NEW a \in Texts, ProxySettingsChanged(a)
  PROVE  WindowInv'
<1> DEFINE s == [shown EXCEPT !.addr = a]
<1>1. s \in Server /\ raced \in BOOLEAN /\ index \in 0 .. Len(history) /\ history \in Seq(Server)
  BY DEF WindowInv, TypeOK, Server
<1>2. Show(s) /\ Disconnect /\ Click
      /\ UNCHANGED <<open, history, index, rows, testOn, tests, auto, stored, passed, unsaved>>
  BY DEF ProxySettingsChanged
<1> HIDE DEF s
<1>3. /\ shown' \in Server
      /\ \/ raced' = TRUE
         \/ raced' = raced /\ (shown'.addr = shown.addr \/ ~Outstanding)
  BY <1>1, <1>2, Shown
<1> QED
  BY <1>1, <1>2, <1>3, FieldsKeep

LEMMA AuthChangedKeeps ==
  ASSUME WindowInv, NEW x \in {"off", "unnamed", "named"}, AuthChanged(x)
  PROVE  WindowInv'
<1>1. /\ shown' \in Server /\ shown'.addr = shown.addr
      /\ index \in 0 .. Len(history) /\ history \in Seq(Server)
  BY DEF WindowInv, TypeOK, Server, AuthChanged
<1>2. /\ Click /\ UNCHANGED <<open, history, index, rows, testOn, tests, auto, stored, passed, unsaved>>
      /\ UNCHANGED <<raced, connected, startOn, stopOn, engine>>
  BY DEF AuthChanged, buttons, memory
<1> QED
  BY <1>1, <1>2, FieldsKeep

LEMMA ServerComboChangedKeeps ==
  ASSUME WindowInv, NEW i \in 0 .. Len(history), ServerComboChanged(i)
  PROVE  WindowInv'
<1>1. raced \in BOOLEAN /\ history \in Seq(Server) /\ shown \in Server /\ Len(history) \in Nat
  BY LenProperties DEF WindowInv, TypeOK
<1>2. /\ Click /\ index' = i
      /\ UNCHANGED <<open, history, rows, testOn, tests, auto, stored, passed, unsaved>>
  BY DEF ServerComboChanged
<1>3. index' \in 0 .. Len(history') /\ history' \in Seq(Server)
  BY <1>1, <1>2
<1>4. CASE i > 0 /\ Show(history[i]) /\ Disconnect
  <2>1. history[i] \in Server
    BY <1>1, <1>4, ElementOfSeq
  <2>2. /\ shown' \in Server
        /\ \/ raced' = TRUE
           \/ raced' = raced /\ (shown'.addr = shown.addr \/ ~Outstanding)
    BY <1>1, <1>4, <2>1, Shown
  <2> QED BY <1>2, <1>3, <1>4, <2>2, FieldsKeep
<1>5. CASE UNCHANGED <<shown, raced, connected, startOn, stopOn, engine>>
  BY <1>1, <1>2, <1>3, <1>5, FieldsKeep
<1> QED
  BY <1>4, <1>5 DEF ServerComboChanged

LEMMA SaveServerClickedKeeps ==
  ASSUME WindowInv, SaveServerClicked
  PROVE  WindowInv'
<1>1. /\ shown \in Server /\ history \in Seq(Server) /\ index \in 0 .. Len(history)
      /\ Len(history) \in Nat
  BY LenProperties DEF WindowInv, TypeOK
<1>2. /\ Click /\ shown' = shown /\ raced' = raced
      /\ UNCHANGED <<open, rows, tests, auto, stored, passed, unsaved>>
  BY DEF SaveServerClicked, memory
<1>3. CASE \E i \in SavedAs : history' = [history EXCEPT ![i] = shown]
             /\ UNCHANGED <<index, buttons, engine>>
  <2>1. history' \in Seq(Server) /\ Len(history') = Len(history)
    BY <1>1, <1>3, ExceptSeq DEF SavedAs
  <2> QED BY <1>1, <1>2, <1>3, <2>1, FieldsKeep DEF buttons
<1>4. CASE /\ history' = Append(history, shown) /\ index' = Len(history) + 1
           /\ Disconnect /\ UNCHANGED testOn
  <2>1. history' \in Seq(Server) /\ Len(history') = Len(history) + 1
    BY <1>1, <1>4, AppendProperties
  <2> QED BY <1>1, <1>2, <1>4, <2>1, FieldsKeep
<1> QED
  BY <1>3, <1>4 DEF SaveServerClicked

LEMMA DeleteServerClickedKeeps ==
  ASSUME WindowInv, DeleteServerClicked
  PROVE  WindowInv'
<1>1. /\ raced \in BOOLEAN /\ shown \in Server /\ history \in Seq(Server)
      /\ index \in 1 .. Len(history) /\ Len(history) \in Nat
  BY LenProperties DEF WindowInv, TypeOK, DeleteServerClicked
<1>2. history' \in Seq(Server) /\ index' \in 0 .. Len(history')
  BY <1>1, RemoveAtType DEF DeleteServerClicked
<1>3. /\ Click /\ UNCHANGED <<open, rows, testOn, tests, auto, stored, passed, unsaved>>
  BY DEF DeleteServerClicked
<1>4. CASE index > 1 /\ Show(history[index - 1]) /\ Disconnect
  <2>1. history[index - 1] \in Server
    BY <1>1, <1>4, ElementOfSeq
  <2>2. /\ shown' \in Server
        /\ \/ raced' = TRUE
           \/ raced' = raced /\ (shown'.addr = shown.addr \/ ~Outstanding)
    BY <1>1, <1>4, <2>1, Shown
  <2> QED BY <1>2, <1>3, <1>4, <2>2, FieldsKeep
<1>5. CASE UNCHANGED <<shown, raced, connected, startOn, stopOn, engine>>
  BY <1>1, <1>2, <1>3, <1>5, FieldsKeep
<1> QED
  BY <1>4, <1>5 DEF DeleteServerClicked

-------------------------------------------------------------------------------
(* The table. *)

\* Whatever becomes of the table, the rest is not concerned.
LEMMA TableKeeps ==
  ASSUME WindowInv, Click, rows' \in Seq(Row),
         UNCHANGED <<open, shown, history, index, buttons, engine, tests, auto, passed, raced>>,
         stored' \in Settings, unsaved' \in BOOLEAN, SavedTable'
  PROVE  WindowInv'
<1>1. /\ TypeOK /\ open /\ clicks' \in 0 .. MaxClicks
      /\ UNCHANGED <<thread, current, queue, connected, startOn, stopOn, testOn>>
  BY Constants DEF Click, buttons, tests, WindowInv, TypeOK
<1>2. TestParts'
  BY TestsUntouched
<1>3. EngineParts'
  BY <1>1 DEF WindowInv, EngineParts, RunningServerIsShown, ButtonsFollowEngine,
     TestedUnlessRaced, ConnectedWasTested
<1>4. TypeOK'
  BY <1>1 DEF TypeOK
<1>5. ClosedIsQuiet'
  BY <1>1 DEF ClosedIsQuiet
<1> QED
  BY <1>2, <1>3, <1>4, <1>5 DEF WindowInv, EngineParts, TestParts

\* A save goes through, or the program ends in it.
LEMMA SaveKeeps ==
  ASSUME WindowInv, Click, NEW r \in Seq(Row), SaveSettings(r)
  PROVE  WindowInv'
<1>1. TypeOK /\ shown \in Server /\ history \in Seq(Server) /\ rows' = r
  BY DEF WindowInv, TypeOK, SaveSettings
<1>2. PICK new \in Settings : /\ new = Snapshot(shown, history, r)
                              /\ new.rows = r /\ (r = <<>> => new.names = <<>>)
  BY <1>1, Saved
<1>3. CASE /\ stored' = new /\ unsaved' = FALSE
           /\ UNCHANGED <<open, shown, history, index, buttons, engine, tests, auto, passed, raced>>
  BY <1>1, <1>2, <1>3, TableKeeps DEF SavedTable
<1>4. CASE stored' \in Written(new) /\ unsaved' = TRUE /\ Close
  <2>1. stored' \in Settings
    BY <1>1, <1>4, WrittenType
  <2> QED BY <1>1, <1>4, <2>1, CloseKeeps DEF SavedTable
<1> QED
  BY <1>2, <1>3, <1>4 DEF SaveSettings

LEMMA TableActionsKeep ==
  ASSUME WindowInv, Table
  PROVE  WindowInv'
<1>1. /\ rows \in Seq(Row) /\ Len(rows) \in Nat /\ DOMAIN rows = 1 .. Len(rows)
      /\ \A i \in 1 .. Len(rows) : rows[i] \in Row
      /\ Typed \subseteq Programs
  BY ElementOfSeq, LenProperties, Constants DEF WindowInv, TypeOK
<1>2. ASSUME NEW p \in Typed, AddExeClicked(p) PROVE WindowInv'
  <2>1. NewRow(p) \in Row
    BY <1>1 DEF NewRow, Row, Names
  <2>2. Append(rows, NewRow(p)) \in Seq(Row)
    BY <1>1, <2>1, AppendProperties
  <2> QED BY <1>2, <2>2, SaveKeeps DEF AddExeClicked
<1>3. ASSUME NEW i \in DOMAIN rows, RemoveExeClicked(i) PROVE WindowInv'
  <2>1. RemoveAt(rows, i) \in Seq(Row)
    BY <1>1, RemoveAtType
  <2> QED BY <1>3, <2>1, SaveKeeps DEF RemoveExeClicked
<1>4. ASSUME NEW i \in DOMAIN rows, NEW x \in Row PROVE [rows EXCEPT ![i] = x] \in Seq(Row)
  BY <1>1, ExceptSeq
<1>5. ASSUME NEW i \in DOMAIN rows, SetRuleProxyClicked(i) PROVE WindowInv'
  <2>1. [rows EXCEPT ![i].custom = TRUE] = [rows EXCEPT ![i] = [rows[i] EXCEPT !.custom = TRUE]]
    OBVIOUS
  <2>2. [rows[i] EXCEPT !.custom = TRUE] \in Row
    BY <1>1 DEF Row
  <2>3. [rows EXCEPT ![i].custom = TRUE] \in Seq(Row)
    BY <1>4, <2>1, <2>2
  <2> QED BY <1>5, <2>3, SaveKeeps DEF SetRuleProxyClicked
<1>6. ASSUME NEW i \in DOMAIN rows, GlobalProxyChosen(i) PROVE WindowInv'
  <2>1. [rows EXCEPT ![i].custom = FALSE] = [rows EXCEPT ![i] = [rows[i] EXCEPT !.custom = FALSE]]
    OBVIOUS
  <2>2. [rows[i] EXCEPT !.custom = FALSE] \in Row
    BY <1>1 DEF Row
  <2>3. [rows EXCEPT ![i].custom = FALSE] \in Seq(Row)
    BY <1>4, <2>1, <2>2
  <2> QED BY <1>6, <2>3, SaveKeeps DEF GlobalProxyChosen
<1>7. ASSUME NEW i \in DOMAIN rows, NEW a \in {"PROXY", "DIRECT", "BLOCK"}, ActionChanged(i, a)
      PROVE  WindowInv'
  <2>1. [rows EXCEPT ![i].action = a] = [rows EXCEPT ![i] = [rows[i] EXCEPT !.action = a]]
    OBVIOUS
  <2>2. [rows[i] EXCEPT !.action = a] \in Row
    BY <1>1 DEF Row
  <2>3. [rows EXCEPT ![i].action = a] \in Seq(Row)
    BY <1>4, <2>1, <2>2
  <2> QED BY <1>7, <2>3, SaveKeeps DEF ActionChanged
<1>8. ASSUME NEW i \in DOMAIN rows, NEW p \in Typed \cup {Blank}, ProgramEdited(i, p)
      PROVE  WindowInv'
  <2>1. [rows EXCEPT ![i].program = p] = [rows EXCEPT ![i] = [rows[i] EXCEPT !.program = p]]
    OBVIOUS
  <2>2. [rows[i] EXCEPT !.program = p] \in Row
    BY <1>1 DEF Row, Names
  <2>3. [rows EXCEPT ![i].program = p] \in Seq(Row)
    BY <1>4, <2>1, <2>2
  <2>4. stored' \in Settings
    BY <1>8 DEF ProgramEdited, WindowInv, TypeOK
  <2> QED BY <1>8, <2>3, <2>4, TableKeeps DEF ProgramEdited, SavedTable
<1> QED
  BY <1>2, <1>3, <1>5, <1>6, <1>7, <1>8 DEF Table

-------------------------------------------------------------------------------
(* The theorems. *)

LEMMA WindowStep == WindowInv /\ [Next]_vars => WindowInv'
<1> SUFFICES ASSUME WindowInv, [Next]_vars PROVE WindowInv'
  OBVIOUS
<1>1. CASE Launch
  BY <1>1, LaunchKeeps
<1>2. CASE Quit \/ Crash
  BY <1>2, QuitKeeps, CrashKeeps
<1>3. CASE Monitoring
  BY <1>3, TestServerClickedKeeps, StartMonitorClickedKeeps, StopMonitorClickedKeeps,
     AutoStartKeeps DEF Monitoring
<1>4. CASE Fields
  BY <1>4, ProxySettingsChangedKeeps, AuthChangedKeeps, ServerComboChangedKeeps,
     SaveServerClickedKeeps, DeleteServerClickedKeeps DEF Fields
<1>5. CASE Table
  BY <1>5, TableActionsKeep
<1>6. CASE TestCompleted
  BY <1>6, TestCompletedKeeps
<1>7. CASE ThreadDestroyed
  BY <1>7, ThreadDestroyedKeeps
<1>8. ASSUME NEW t \in Threads, ThreadAnswers(t) \/ ThreadFinishes(t)
      PROVE  WindowInv'
  BY <1>8, ThreadKeeps
<1>9. CASE UNCHANGED vars
  <2>1. /\ UNCHANGED <<open, shown, history, index, rows, connected, startOn, stopOn, testOn>>
        /\ UNCHANGED <<engine, thread, current, queue, auto, stored, passed, raced, unsaved, clicks>>
    BY <1>9 DEF vars, form, buttons, tests, memory
  <2>2. TypeOK'
    BY <2>1 DEF WindowInv, TypeOK
  <2>3. EngineParts' /\ ClosedIsQuiet' /\ SavedTable'
    BY <2>1 DEF WindowInv, EngineParts, RunningServerIsShown, ButtonsFollowEngine,
       TestedUnlessRaced, ConnectedWasTested, ClosedIsQuiet, SavedTable
  <2>4. TestParts'
    BY <2>1, TestsUntouched DEF tests
  <2> QED BY <2>2, <2>3, <2>4 DEF WindowInv, EngineParts, TestParts
<1> QED
  BY <1>1, <1>2, <1>3, <1>4, <1>5, <1>6, <1>7, <1>8, <1>9 DEF Next

\* The whole invariant: what the buttons, the engine, the tests under way and the settings
\* on disk have to do with each other, after any clicks, answers, crashes and restarts.
THEOREM WindowInvariance == Spec => []WindowInv
BY WindowInit, WindowStep, PTL DEF Spec

\* The window's variables stay within their types; every posted event is of a test thread
\* that is still there.
THEOREM WindowTypeCorrect == Spec => []TypeOK
<1>1. WindowInv => TypeOK
  BY DEF WindowInv
<1> QED BY <1>1, WindowInvariance, PTL

\* Changing the server stops the engine, in each of the slots that change it: it never runs
\* with another address than the one shown (MainWindow.cpp:344-357, 924-933).
THEOREM EngineRunsWithShownServer == Spec => []RunningServerIsShown
<1>1. WindowInv => RunningServerIsShown
  BY DEF WindowInv
<1> QED BY <1>1, WindowInvariance, PTL

\* Start and Stop follow the engine through every order of clicks, answers and failures to start.
THEOREM ButtonsRight == Spec => []ButtonsFollowEngine
<1>1. WindowInv => ButtonsFollowEngine
  BY DEF WindowInv
<1> QED BY <1>1, WindowInvariance, PTL

\* The engine only runs with an address that a test of this session has reached, unless the
\* address was changed under a test, the one hole of onTestCompleted (MainWindow.cpp:886-922).
THEOREM StartedAfterTest == Spec => []TestedUnlessRaced
<1>1. WindowInv => TestedUnlessRaced
  BY DEF WindowInv
<1> QED BY <1>1, WindowInvariance, PTL

\* Below ten rows the program opens with the rows the user left, each in its place and after
\* a crash too, or with the default row if none of them has a name; unless a cell was edited
\* and not saved since, or the crash came inside a save (saveSettings in every slot of the
\* table, loadSettings in the constructor).
THEOREM TableComesBack == Spec => RestartKeepsTable
<1>1. ASSUME WindowInv, Launch, ~unsaved, Len(rows) <= 9
      PROVE  IF Named(rows) = {} THEN rows' = <<NewRow(Default)>>
             ELSE /\ Len(rows') = Cardinality(Named(rows))
                  /\ \A i \in Named(rows) :
                       rows'[Cardinality({j \in Named(rows) : j <= i})] = rows[i]
  <2>1. /\ stored.rows = rows /\ stored \in Settings /\ rows \in Seq(Row)
        /\ rows = <<>> => stored.names = <<>>
    BY <1>1 DEF WindowInv, SavedTable, TypeOK
  <2>2. LoadedRows \in Seq(Row)
    BY <2>1, Loaded
  <2>3. IsFiniteSet(Named(rows))
    BY <2>1, NamedKeys
  <2>4. CASE Named(rows) = {}
    <3>1. LoadedRows = <<>>
      <4>1. CASE rows = <<>>
        BY <2>1, <4>1, Loaded
      <4>2. CASE rows # <<>>
        <5>1. Len(LoadedRows) = 0
          BY <2>1, <2>4, <4>2, Loaded, FS_EmptySet
        <5> QED BY <2>2, <5>1, EmptySeq
      <4> QED BY <4>1, <4>2
    <3> QED BY <1>1, <2>4, <3>1 DEF Launch
  <2>5. CASE Named(rows) # {}
    <3>1. rows # <<>>
      <4>1. DOMAIN rows # {}
        BY <2>5 DEF Named
      <4> QED BY <4>1
    <3>2. /\ Len(LoadedRows) = Cardinality(Named(rows))
          /\ \A i \in Named(rows) :
               LoadedRows[Cardinality({j \in Named(rows) : j <= i})] = rows[i]
      BY <1>1, <2>1, <3>1, Loaded
    <3>3. Cardinality(Named(rows)) # 0
      BY <2>3, <2>5, FS_EmptySet
    <3>4. LoadedRows # <<>>
      BY <3>2, <3>3, EmptySeq
    <3>5. rows' = LoadedRows
      BY <1>1, <3>4 DEF Launch
    <3> QED BY <2>5, <3>2, <3>5
  <2> QED BY <2>4, <2>5
<1>2. WindowInv /\ [Next]_vars =>
        [Launch /\ ~unsaved /\ Len(rows) <= 9 =>
           IF Named(rows) = {} THEN rows' = <<NewRow(Default)>>
           ELSE /\ Len(rows') = Cardinality(Named(rows))
                /\ \A i \in Named(rows) :
                     rows'[Cardinality({j \in Named(rows) : j <= i})] = rows[i]]_vars
  BY <1>1
<1> QED
  BY <1>2, WindowInvariance, PTL DEF Spec, RestartKeepsTable
===============================================================================
