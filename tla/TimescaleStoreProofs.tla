------------------------- MODULE TimescaleStoreProofs -------------------------
(***************************************************************************)
(* The connections of the TimescaleDB store, and that it is the store that *)
(* HistoryLog promises, for any pool, any number of streams and any number *)
(* of requests.                                                            *)
(***************************************************************************)
EXTENDS TimescaleStore, SequenceTheorems, FiniteSetTheorems, FunctionTheorems, TLAPS

\* The transactions and the statements that have a connection.
InTx == {w \in Writers : wpc[w] = "insert"}
InRows == {r \in Readers : rpc[r] = "rows"}

LEMMA Counted == IsFiniteSet(InTx) /\ IsFiniteSet(InRows)
BY TimescaleStoreAssumption, FS_Subset DEF InTx, InRows

LEMMA CountType == Cardinality(InTx) \in Nat /\ Cardinality(InRows) \in Nat
BY Counted, FS_CardinalityType

\* What a call of Write does to the number of transactions.
LEMMA TxCount ==
  ASSUME NEW w \in Writers, wpc \in [Writers -> {"idle", "begin", "insert"}],
         NEW s, wpc' = [wpc EXCEPT ![w] = s]
  PROVE  /\ s = "insert" /\ wpc[w] # "insert" => Cardinality(InTx') = Cardinality(InTx) + 1
         /\ s # "insert" /\ wpc[w] = "insert" => Cardinality(InTx') = Cardinality(InTx) - 1
         /\ s # "insert" /\ wpc[w] # "insert" => InTx' = InTx
<1>1. s = "insert" /\ wpc[w] # "insert" => InTx' = InTx \cup {w} /\ w \notin InTx
  BY DEF InTx
<1>2. s # "insert" /\ wpc[w] = "insert" => InTx' = InTx \ {w} /\ w \in InTx
  BY DEF InTx
<1>3. s # "insert" /\ wpc[w] # "insert" => InTx' = InTx
  BY DEF InTx
<1>. QED
  BY <1>1, <1>2, <1>3, Counted, FS_AddElement, FS_RemoveElement

LEMMA RowsCount ==
  ASSUME NEW r \in Readers, rpc \in [Readers -> {"idle", "query", "rows"}],
         NEW s, rpc' = [rpc EXCEPT ![r] = s]
  PROVE  /\ s = "rows" /\ rpc[r] # "rows" => Cardinality(InRows') = Cardinality(InRows) + 1
         /\ s # "rows" /\ rpc[r] = "rows" => Cardinality(InRows') = Cardinality(InRows) - 1
         /\ s # "rows" /\ rpc[r] # "rows" => InRows' = InRows
<1>1. s = "rows" /\ rpc[r] # "rows" => InRows' = InRows \cup {r} /\ r \notin InRows
  BY DEF InRows
<1>2. s # "rows" /\ rpc[r] = "rows" => InRows' = InRows \ {r} /\ r \in InRows
  BY DEF InRows
<1>3. s # "rows" /\ rpc[r] # "rows" => InRows' = InRows
  BY DEF InRows
<1>. QED
  BY <1>1, <1>2, <1>3, Counted, FS_AddElement, FS_RemoveElement

\* An answer is a list of rows of the table.
LEMMA AnswerType ==
  ASSUME TypeOK, NEW q \in Query, NEW s \in InTimeOrder(Selected(q))
  PROVE  s \in Seq(Point)
<1>. DEFINE rows == Selected(q)
            n == Cardinality(rows)
<1>1. rows \in SUBSET (1 .. Len(table)) /\ Len(table) \in Nat
  BY DEF Selected, TypeOK
<1>. HIDE DEF rows
<1>2. IsFiniteSet(1 .. Len(table))
  BY <1>1, FS_Interval
<1>3. n \in Nat
  BY <1>1, <1>2, FS_Subset, FS_CardinalityType
<1>4. PICK f \in [1 .. n -> rows] : s = [i \in 1 .. n |-> table[f[i]]]
  BY DEF InTimeOrder, rows
<1>5. ASSUME NEW i \in 1 .. n PROVE table[f[i]] \in Point
  <2>1. f[i] \in 1 .. Len(table)
    BY <1>1, <1>4
  <2>2. table \in Seq(Point)
    BY DEF TypeOK
  <2>. QED
    BY <2>1, <2>2
<1>. HIDE DEF n
<1>6. s \in [1 .. n -> Point]
  BY <1>4, <1>5
<1>. QED
  BY <1>3, <1>6

-----------------------------------------------------------------------------
PoolInv == TypeOK /\ ConnectionsReturned

LEMMA PoolInit == Init => PoolInv
<1>. SUFFICES ASSUME Init PROVE PoolInv
  OBVIOUS
<1>1. TypeOK
  BY TimescaleStoreAssumption DEF Init, TypeOK
<1>2. InTx = {} /\ InRows = {}
  BY DEF Init, InTx, InRows
<1>3. ConnectionsReturned
  <2>1. inUse = 0 /\ Cardinality(InTx) = 0 /\ Cardinality(InRows) = 0
    BY <1>2, FS_EmptySet DEF Init
  <2>. QED
    BY <2>1 DEF ConnectionsReturned, InTx, InRows
<1>. QED
  BY <1>1, <1>3 DEF PoolInv

\* The pool's count after a step that takes or gives back a connection, or none.
LEMMA WriteCount ==
  ASSUME PoolInv, NEW w \in Writers, NEW s, wpc' = [wpc EXCEPT ![w] = s], rpc' = rpc,
         \/ s = "insert" /\ wpc[w] # "insert" /\ inUse' = inUse + 1 /\ inUse < PoolSize
         \/ s # "insert" /\ wpc[w] = "insert" /\ inUse' = inUse - 1
         \/ s # "insert" /\ wpc[w] # "insert" /\ inUse' = inUse
  PROVE  inUse' \in 0 .. PoolSize /\ ConnectionsReturned'
<1>1. wpc \in [Writers -> {"idle", "begin", "insert"}] /\ inUse \in 0 .. PoolSize
  BY DEF PoolInv, TypeOK
<1>2. inUse = Cardinality(InTx) + Cardinality(InRows)
  BY DEF PoolInv, ConnectionsReturned, InTx, InRows
<1>3. InRows' = InRows
  BY DEF InRows
<1>4. inUse' = Cardinality(InTx') + Cardinality(InRows')
  <2>1. /\ s = "insert" /\ wpc[w] # "insert" => Cardinality(InTx') = Cardinality(InTx) + 1
        /\ s # "insert" /\ wpc[w] = "insert" => Cardinality(InTx') = Cardinality(InTx) - 1
        /\ s # "insert" /\ wpc[w] # "insert" => InTx' = InTx
    BY <1>1, TxCount
  <2>2. Cardinality(InRows') = Cardinality(InRows)
    BY <1>3
  <2>. QED
    BY <1>1, <1>2, <2>1, <2>2, CountType
<1>5. inUse' \in 0 .. PoolSize
  <2>1. CASE wpc[w] = "insert"
    <3>1. w \in InTx
      BY <2>1 DEF InTx
    <3>2. Cardinality(InTx) # 0
      BY <3>1, Counted, FS_EmptySet
    <3>. QED
      BY <1>1, <1>2, <2>1, <3>2, CountType, TimescaleStoreAssumption
  <2>2. CASE wpc[w] # "insert"
    BY <1>1, <2>2, TimescaleStoreAssumption
  <2>. QED
    BY <2>1, <2>2
<1>. QED
  BY <1>4, <1>5 DEF ConnectionsReturned, InTx, InRows

LEMMA ReadCount ==
  ASSUME PoolInv, NEW r \in Readers, NEW s, rpc' = [rpc EXCEPT ![r] = s], wpc' = wpc,
         \/ s = "rows" /\ rpc[r] # "rows" /\ inUse' = inUse + 1 /\ inUse < PoolSize
         \/ s # "rows" /\ rpc[r] = "rows" /\ inUse' = inUse - 1
         \/ s # "rows" /\ rpc[r] # "rows" /\ inUse' = inUse
  PROVE  inUse' \in 0 .. PoolSize /\ ConnectionsReturned'
<1>1. rpc \in [Readers -> {"idle", "query", "rows"}] /\ inUse \in 0 .. PoolSize
  BY DEF PoolInv, TypeOK
<1>2. inUse = Cardinality(InTx) + Cardinality(InRows)
  BY DEF PoolInv, ConnectionsReturned, InTx, InRows
<1>3. InTx' = InTx
  BY DEF InTx
<1>4. inUse' = Cardinality(InTx') + Cardinality(InRows')
  <2>1. /\ s = "rows" /\ rpc[r] # "rows" => Cardinality(InRows') = Cardinality(InRows) + 1
        /\ s # "rows" /\ rpc[r] = "rows" => Cardinality(InRows') = Cardinality(InRows) - 1
        /\ s # "rows" /\ rpc[r] # "rows" => InRows' = InRows
    BY <1>1, RowsCount
  <2>2. Cardinality(InTx') = Cardinality(InTx)
    BY <1>3
  <2>. QED
    BY <1>1, <1>2, <2>1, <2>2, CountType
<1>5. inUse' \in 0 .. PoolSize
  <2>1. CASE rpc[r] = "rows"
    <3>1. r \in InRows
      BY <2>1 DEF InRows
    <3>2. Cardinality(InRows) # 0
      BY <3>1, Counted, FS_EmptySet
    <3>. QED
      BY <1>1, <1>2, <2>1, <3>2, CountType, TimescaleStoreAssumption
  <2>2. CASE rpc[r] # "rows"
    BY <1>1, <2>2, TimescaleStoreAssumption
  <2>. QED
    BY <2>1, <2>2
<1>. QED
  BY <1>4, <1>5 DEF ConnectionsReturned, InTx, InRows

LEMMA WritePool ==
  ASSUME PoolInv, NEW w \in Writers, WriteStep(w)
  PROVE  PoolInv'
<1>. USE DEF PoolInv
<1>1. CASE Begin(w)
  <2>1. inUse' \in 0 .. PoolSize /\ ConnectionsReturned'
    BY <1>1, WriteCount DEF Begin, Available, readVars
  <2>. QED
    BY <1>1, <2>1 DEF Begin, TypeOK, readVars
<1>2. CASE BeginFails(w)
  <2>1. inUse' \in 0 .. PoolSize /\ ConnectionsReturned'
    BY <1>2, WriteCount DEF BeginFails, Returned, readVars
  <2>. QED
    BY <1>2, <2>1 DEF BeginFails, Returned, TypeOK, readVars
<1>3. CASE Insert(w)
  <2>1. ConnectionsReturned'
    BY <1>3 DEF Insert, ConnectionsReturned, readVars
  <2>2. batch[w] \in Seq(Gpus) /\ batch[w] # <<>> /\ stamp[w] \in Nat /\ tx[w] \in Seq(Point)
    BY <1>3 DEF Insert, TypeOK
  <2>3. Head(batch[w]) \in Gpus /\ Tail(batch[w]) \in Seq(Gpus)
    BY <2>2
  <2>4. Append(tx[w], [gpu |-> Head(batch[w]), time |-> stamp[w]]) \in Seq(Point)
    BY <2>2, <2>3 DEF Point
  <2>. QED
    BY <1>3, <2>1, <2>3, <2>4 DEF Insert, TypeOK, readVars
<1>4. CASE Rollback(w)
  <2>1. inUse' \in 0 .. PoolSize /\ ConnectionsReturned'
    BY <1>4, WriteCount DEF Rollback, Returned, readVars
  <2>. QED
    BY <1>4, <2>1 DEF Rollback, Returned, TypeOK, readVars
<1>5. CASE Commit(w)
  <2>1. inUse' \in 0 .. PoolSize /\ ConnectionsReturned'
    BY <1>5, WriteCount DEF Commit, Returned, readVars
  <2>2. table' \in Seq(Point)
    BY <1>5 DEF Commit, TypeOK
  <2>. QED
    BY <1>5, <2>1, <2>2 DEF Commit, Returned, TypeOK, readVars
<1>. QED
  BY <1>1, <1>2, <1>3, <1>4, <1>5 DEF WriteStep

LEMMA ReadPool ==
  ASSUME PoolInv, NEW r \in Readers, ReadStep(r)
  PROVE  PoolInv'
<1>. USE DEF PoolInv
<1>1. CASE Select(r)
  <2>1. inUse' \in 0 .. PoolSize /\ ConnectionsReturned'
    BY <1>1, ReadCount DEF Select, Available, writeVars
  <2>2. PICK q \in req[r] : \E s \in InTimeOrder(Selected(q)) :
                              answer' = [answer EXCEPT ![r] = s]
    BY <1>1 DEF Select
  <2>3. q \in Query
    BY DEF TypeOK
  <2>4. answer' \in [Readers -> Seq(Point)]
    BY <2>2, <2>3, AnswerType DEF TypeOK
  <2>. QED
    BY <1>1, <2>1, <2>4 DEF Select, TypeOK, writeVars
<1>2. CASE SelectFails(r)
  <2>1. inUse' \in 0 .. PoolSize /\ ConnectionsReturned'
    BY <1>2, ReadCount DEF SelectFails, writeVars
  <2>. QED
    BY <1>2, <2>1 DEF SelectFails, TypeOK, writeVars
<1>3. CASE CloseRows(r)
  <2>1. inUse' \in 0 .. PoolSize /\ ConnectionsReturned'
    BY <1>3, ReadCount DEF CloseRows, writeVars
  <2>. QED
    BY <1>3, <2>1 DEF CloseRows, TypeOK, writeVars
<1>. QED
  BY <1>1, <1>2, <1>3 DEF ReadStep

LEMMA NextPool == PoolInv /\ [Next]_vars => PoolInv'
<1>. SUFFICES ASSUME PoolInv, [Next]_vars PROVE PoolInv'
  OBVIOUS
<1>. USE DEF PoolInv
<1>1. CASE Open \/ Close
  BY <1>1 DEF Open, Close, TypeOK, ConnectionsReturned, writeVars, readVars
<1>2. CASE Exit \/ Crash
  <2>1. Stopped
    BY <1>2 DEF Exit, Crash
  <2>2. InTx' = {} /\ InRows' = {} /\ inUse' = 0
    BY <2>1 DEF Stopped, InTx, InRows
  <2>3. inUse' = Cardinality(InTx') + Cardinality(InRows')
    BY <2>2, FS_EmptySet
  <2>4. ConnectionsReturned'
    BY <2>3 DEF ConnectionsReturned, InTx, InRows
  <2>5. TypeOK'
    BY <2>1, TimescaleStoreAssumption DEF Stopped, TypeOK
  <2>. QED
    BY <2>4, <2>5
<1>3. ASSUME NEW w \in Writers, WriteStep(w) PROVE PoolInv'
  BY <1>3, WritePool
<1>4. ASSUME NEW w \in Writers, NEW b \in Batches, NEW t \in Times, Call(w, b, t)
      PROVE  PoolInv'
  <2>1. inUse' \in 0 .. PoolSize /\ ConnectionsReturned'
    BY <1>4, WriteCount DEF Call, readVars, TypeOK
  <2>2. b \in Seq(Gpus) /\ t \in Nat /\ batches' \in 0 .. MaxBatches
    BY <1>4, TimescaleStoreAssumption DEF Call, TypeOK
  <2>. QED
    BY <1>4, <2>1, <2>2 DEF Call, TypeOK, readVars
<1>5. ASSUME NEW r \in Readers, ReadStep(r) PROVE PoolInv'
  BY <1>5, ReadPool
<1>6. ASSUME NEW r \in Readers, NEW q \in Query, Ask(r, q) PROVE PoolInv'
  <2>1. inUse' \in 0 .. PoolSize /\ ConnectionsReturned'
    BY <1>6, ReadCount DEF Ask, writeVars, TypeOK
  <2>. QED
    BY <1>6, <2>1 DEF Ask, TypeOK, writeVars
<1>7. CASE UNCHANGED vars
  BY <1>7 DEF vars, writeVars, readVars, TypeOK, ConnectionsReturned
<1>. QED
  BY <1>1, <1>2, <1>3, <1>4, <1>5, <1>6, <1>7 DEF Next

LEMMA PoolCorrect == Spec => []PoolInv
BY PoolInit, NextPool, PTL DEF Spec

\* The table, the transactions and the answers keep to their types, and no more
\* connections are in use than the pool has.
THEOREM TypeCorrect == Spec => []TypeOK
<1>1. PoolInv => TypeOK
  BY DEF PoolInv
<1>. QED
  BY <1>1, PoolCorrect, PTL

\* Every path out of Write and QueryRange gives its connection back, whatever
\* fails, and whenever the server stops.
THEOREM ConnectionsCorrect == Spec => []ConnectionsReturned
<1>1. PoolInv => ConnectionsReturned
  BY DEF PoolInv
<1>. QED
  BY <1>1, PoolCorrect, PTL

-----------------------------------------------------------------------------
(* The refinement of HistoryLog.                                           *)

\* Stream w is inserting batch b: its transaction has a first part of b, and w
\* has the rest of it to insert.
PartOf(b, w) ==
  LET n == Len(tx[w]) IN
  /\ n \in 0 .. Len(b)
  /\ Len(batch[w]) = Len(b) - n
  /\ \A i \in 1 .. n : tx[w][i] = [gpu |-> b[i], time |-> stamp[w]]
  /\ \A i \in 1 .. Len(b) - n : batch[w][i] = b[n + i]

WholeBatches ==
  \A w \in Writers :
    /\ wpc[w] # "idle" => stamp[w] \in Times
    /\ wpc[w] # "insert" => tx[w] = <<>>
    /\ wpc[w] = "begin" => batch[w] \in Batches
    /\ wpc[w] = "insert" => \E b \in Batches : PartOf(b, w)

LEMMA SamePart ==
  ASSUME NEW b, NEW w, batch'[w] = batch[w], stamp'[w] = stamp[w], tx'[w] = tx[w]
  PROVE  PartOf(b, w)' <=> PartOf(b, w)
BY DEF PartOf

\* One more row of the batch is in the transaction.
LEMMA InsertPart ==
  ASSUME TypeOK, NEW w \in Writers, Insert(w), NEW b \in Batches, PartOf(b, w)
  PROVE  PartOf(b, w)'
<1>. USE DEF TypeOK
<1>. DEFINE n == Len(tx[w])
            rest == batch[w]
            p == [gpu |-> Head(rest), time |-> stamp[w]]
<1>1. /\ b \in Seq(Gpus) /\ rest \in Seq(Gpus) /\ rest # <<>>
      /\ tx[w] \in Seq(Point) /\ p \in Point
  <2>1. b \in Seq(Gpus) /\ rest \in Seq(Gpus) /\ rest # <<>> /\ tx[w] \in Seq(Point)
    BY TimescaleStoreAssumption DEF Insert
  <2>2. Head(rest) \in Gpus /\ stamp[w] \in Nat
    BY <2>1
  <2>. QED
    BY <2>1, <2>2 DEF Point
<1>2. tx'[w] = Append(tx[w], p) /\ batch'[w] = Tail(rest) /\ stamp' = stamp
  BY DEF Insert
<1>3. /\ n \in 0 .. Len(b) /\ Len(rest) = Len(b) - n
      /\ \A i \in 1 .. n : tx[w][i] = [gpu |-> b[i], time |-> stamp[w]]
      /\ \A i \in 1 .. Len(b) - n : rest[i] = b[n + i]
  BY DEF PartOf
<1>4. Len(tx'[w]) = n + 1 /\ tx'[w][n + 1] = p /\ \A i \in 1 .. n : tx'[w][i] = tx[w][i]
  BY <1>1, <1>2
<1>5. Len(batch'[w]) = Len(rest) - 1 /\ \A i \in 1 .. Len(rest) - 1 : batch'[w][i] = rest[i + 1]
  BY <1>1, <1>2
<1>6. Len(rest) >= 1 /\ Head(rest) = rest[1] /\ Len(b) \in Nat /\ n \in Nat
  BY <1>1
<1>. HIDE DEF rest
<1>7. n + 1 \in 0 .. Len(b) /\ Len(batch'[w]) = Len(b) - (n + 1)
  BY <1>3, <1>5, <1>6
<1>8. ASSUME NEW i \in 1 .. n + 1 PROVE tx'[w][i] = [gpu |-> b[i], time |-> stamp[w]]
  <2>1. CASE i = n + 1
    <3>1. rest[1] = b[n + 1]
      BY <1>3, <1>6
    <3>. QED
      BY <1>4, <1>6, <2>1, <3>1
  <2>2. CASE i \in 1 .. n
    BY <1>3, <1>4, <2>2
  <2>. QED
    BY <1>6, <2>1, <2>2
<1>9. ASSUME NEW i \in 1 .. Len(b) - (n + 1) PROVE batch'[w][i] = b[n + 1 + i]
  <2>1. i \in 1 .. Len(rest) - 1 /\ i + 1 \in 1 .. Len(b) - n /\ n + (i + 1) = n + 1 + i
    BY <1>3, <1>6
  <2>. QED
    BY <1>3, <1>5, <2>1
<1>. HIDE DEF n
<1>. QED
  BY <1>2, <1>4, <1>7, <1>8, <1>9 DEF PartOf

LEMMA WholeBatchesStep == TypeOK /\ WholeBatches /\ [Next]_vars => WholeBatches'
<1>. SUFFICES ASSUME TypeOK, WholeBatches, [Next]_vars PROVE WholeBatches'
  OBVIOUS
<1>1. ASSUME UNCHANGED <<wpc, batch, stamp, tx>> PROVE WholeBatches'
  BY <1>1, SamePart DEF WholeBatches
<1>2. CASE Open \/ Close \/ UNCHANGED vars
  BY <1>1, <1>2 DEF Open, Close, vars, writeVars
<1>3. CASE Exit \/ Crash
  BY <1>3 DEF Exit, Crash, Stopped, WholeBatches
<1>4. ASSUME NEW r \in Readers, ReadStep(r) \/ \E q \in Query : Ask(r, q) PROVE WholeBatches'
  BY <1>1, <1>4 DEF ReadStep, Select, SelectFails, CloseRows, Ask, writeVars
<1>5. ASSUME NEW w \in Writers, NEW b \in Batches, NEW t \in Times, Call(w, b, t)
      PROVE  WholeBatches'
  <2>1. \A v \in Writers \ {w} : UNCHANGED <<wpc[v], batch[v], stamp[v], tx[v]>>
    BY <1>5 DEF Call
  <2>2. wpc'[w] = "begin" /\ batch'[w] = b /\ stamp'[w] = t /\ tx'[w] = <<>>
    BY <1>5 DEF Call, TypeOK, WholeBatches
  <2>. QED
    BY <2>1, <2>2, SamePart DEF WholeBatches
<1>6. ASSUME NEW w \in Writers, WriteStep(w) PROVE WholeBatches'
  <2>1. \A v \in Writers \ {w} : UNCHANGED <<wpc[v], batch[v], stamp[v], tx[v]>>
    BY <1>6 DEF WriteStep, Begin, BeginFails, Insert, Rollback, Commit, Returned, TypeOK
  <2>2. CASE Begin(w)
    <3>1. /\ batch[w] \in Batches /\ tx[w] = <<>> /\ stamp[w] \in Times
          /\ UNCHANGED <<batch, stamp, tx>>
      BY <2>2 DEF Begin, WholeBatches
    <3>2. ASSUME NEW b, b = batch[w] PROVE PartOf(b, w)'
      <4>1. Len(b) \in Nat /\ tx'[w] = <<>> /\ batch'[w] = b
        BY <3>1, <3>2 DEF TypeOK
      <4>. QED
        BY <4>1 DEF PartOf
    <3>3. wpc'[w] = "insert"
      BY <2>2 DEF Begin, TypeOK
    <3>. QED
      BY <2>1, <3>1, <3>2, <3>3, SamePart DEF WholeBatches
  <2>3. CASE BeginFails(w) \/ Rollback(w) \/ Commit(w)
    <3>1. wpc'[w] = "idle" /\ tx'[w] = <<>>
      BY <2>3 DEF BeginFails, Rollback, Commit, Returned, TypeOK
    <3>. QED
      BY <2>1, <3>1, SamePart DEF WholeBatches
  <2>4. CASE Insert(w)
    <3>1. PICK b \in Batches : PartOf(b, w)
      BY <2>4 DEF Insert, WholeBatches
    <3>2. PartOf(b, w)'
      BY <2>4, <3>1, InsertPart
    <3>3. wpc'[w] = "insert" /\ wpc[w] = "insert" /\ UNCHANGED stamp
      BY <2>4 DEF Insert
    <3>. QED
      BY <2>1, <3>2, <3>3, SamePart DEF WholeBatches
  <2>. QED
    BY <1>6, <2>2, <2>3, <2>4 DEF WriteStep
<1>. QED
  BY <1>2, <1>3, <1>4, <1>5, <1>6 DEF Next

LEMMA LogCorrect == Spec => [](TypeOK /\ WholeBatches)
<1>1. Init => WholeBatches
  BY DEF Init, WholeBatches
<1>. QED
  BY <1>1, WholeBatchesStep, TypeCorrect, PTL DEF Spec

\* The requests whose statement has not started, as HistoryLog sees them.
Asked == [r \in Readers |-> IF rpc[r] = "query" THEN req[r] ELSE {}]

\* What a stream that commits has in its transaction is one whole batch.
LEMMA CommitRecords ==
  ASSUME TypeOK, WholeBatches, NEW w \in Writers, Commit(w)
  PROVE  \E b \in Batches, t \in Times : History!Record(b, t)
<1>. USE DEF TypeOK
<1>1. PICK b \in Batches : PartOf(b, w)
  BY DEF Commit, WholeBatches
<1>2. stamp[w] \in Times
  BY DEF Commit, WholeBatches
<1>. DEFINE c == [i \in DOMAIN b |-> [gpu |-> b[i], time |-> stamp[w]]]
<1>3. b \in Seq(Gpus) /\ tx[w] \in Seq(Point)
  BY TimescaleStoreAssumption
<1>4. DOMAIN b = 1 .. Len(b) /\ Len(b) \in Nat
  BY <1>3
<1>5. Len(tx[w]) = Len(b)
  <2>1. Len(batch[w]) = 0
    BY DEF Commit
  <2>. QED
    BY <1>1, <1>3, <1>4, <2>1 DEF PartOf
<1>6. \A i \in 1 .. Len(b) : tx[w][i] = c[i]
  BY <1>1, <1>4, <1>5 DEF PartOf
<1>7. tx[w] = [i \in 1 .. Len(tx[w]) |-> tx[w][i]]
  BY <1>3
<1>8. tx[w] = c
  BY <1>4, <1>5, <1>6, <1>7
<1>9. table' = table \o c
  BY <1>8 DEF Commit
<1>10. UNCHANGED <<Asked, answer>>
  BY DEF Commit, Returned, readVars, Asked
<1>. QED
  BY <1>2, <1>9, <1>10 DEF History!Record, Asked, c

\* The operators that HistoryLog takes from the library are those used here.
LEMMA SameCardinality == \A S : History!Cardinality(S) = Cardinality(S)
BY DEF History!Cardinality, Cardinality

LEMMA SameBijection == \A S, T : History!Bijection(S, T) = Bijection(S, T)
BY DEF History!Bijection, Bijection, History!Injection, Injection, History!Surjection,
       Surjection, History!IsInjective, IsInjective

\* The rows that a statement selects are those that the log remembers.
LEMMA SelectedMatching ==
  ASSUME TypeOK, NEW q \in Query
  PROVE  /\ Selected(q) = History!Matching(q)
         /\ IsFiniteSet(Selected(q)) /\ Cardinality(Selected(q)) \in Nat
<1>. DEFINE R == History!Recorded(Key(q.gpu))
<1>1. table \in Seq(Point)
  BY DEF TypeOK
<1>2. IsFiniteSet(DOMAIN table)
  <2>1. DOMAIN table = 1 .. Len(table) /\ Len(table) \in Nat
    BY <1>1
  <2>. QED
    BY <2>1, FS_Interval
<1>3. \A i \in DOMAIN table : table[i].gpu \in Gpus
  <2>1. \A i \in DOMAIN table : table[i] \in Point
    BY <1>1
  <2>. QED
    BY <2>1 DEF Point
<1>4. R = {i \in DOMAIN table : Key(table[i].gpu) = Key(q.gpu)}
  BY <1>3 DEF History!Recorded
<1>5. \A i \in R : Cardinality({j \in R : i < j}) \in Nat
  <2>1. \A i \in R : {j \in R : i < j} \in SUBSET (DOMAIN table)
    BY <1>4
  <2>. QED
    BY <1>2, <2>1, FS_Subset, FS_CardinalityType
<1>6. History!Remembered(Key(q.gpu)) = R
  BY <1>5, SameCardinality DEF History!Remembered
<1>7. [g \in Gpus |-> Key(g)][q.gpu] = Key(q.gpu)
  BY DEF Query
<1>. HIDE DEF R
<1>8. Selected(q) = History!Matching(q)
  BY <1>4, <1>6, <1>7 DEF Selected, History!Matching
<1>9. Selected(q) \in SUBSET (DOMAIN table)
  BY DEF Selected
<1>. QED
  BY <1>2, <1>8, <1>9, FS_Subset, FS_CardinalityType

\* Rows in the order of their times are rows in some order, each of them once.
LEMMA OrderArranges ==
  ASSUME TypeOK, NEW q \in Query, NEW s \in InTimeOrder(Selected(q))
  PROVE  s \in History!Arrangements(History!Matching(q))
<1>. DEFINE rows == Selected(q)
            n == Cardinality(rows)
<1>1. IsFiniteSet(rows) /\ n \in Nat /\ rows = History!Matching(q)
  BY SelectedMatching
<1>2. PICK f \in [1 .. n -> rows] :
        /\ \A i, j \in 1 .. n : i < j => f[i] # f[j]
        /\ s = [i \in 1 .. n |-> table[f[i]]]
  BY DEF InTimeOrder
<1>. HIDE DEF rows
<1>3. f \in Injection(1 .. n, rows)
  <2>1. ASSUME NEW i \in 1 .. n, NEW j \in 1 .. n, f[i] = f[j] PROVE i = j
    <3>1. ~(i < j) /\ ~(j < i)
      BY <1>2, <2>1
    <3>2. i \in Int /\ j \in Int
      BY <1>1
    <3>. QED
      BY <3>1, <3>2
  <2>. QED
    BY <1>2, <2>1, Fun_IsInj
<1>4. f \in Surjection(1 .. n, rows)
  <2>1. IsFiniteSet(1 .. n) /\ Cardinality(1 .. n) = n
    BY <1>1, FS_Interval
  <2>. QED
    BY <1>1, <1>3, <2>1, FS_Injection
<1>5. f \in Bijection(1 .. n, rows)
  BY <1>3, <1>4 DEF Bijection
<1>. QED
  BY <1>1, <1>2, <1>5, SameCardinality, SameBijection DEF History!Arrangements

LEMMA SelectRefines ==
  ASSUME TypeOK, NEW r \in Readers, Select(r)
  PROVE  History!Answer(r)
<1>. USE DEF TypeOK
<1>1. PICK q \in req[r] : \E s \in InTimeOrder(Selected(q)) :
                            answer' = [answer EXCEPT ![r] = s]
  BY DEF Select
<1>2. PICK s \in InTimeOrder(Selected(q)) : answer' = [answer EXCEPT ![r] = s]
  BY <1>1
<1>3. q \in Query
  OBVIOUS
<1>4. s \in History!Arrangements(History!Matching(q))
  BY <1>3, OrderArranges
<1>5. q \in Asked[r] /\ Asked' = [Asked EXCEPT ![r] = {}] /\ table' = table
  BY DEF Select, Asked
<1>. QED
  BY <1>2, <1>4, <1>5 DEF History!Answer, Asked

LEMMA AskRefines ==
  ASSUME TypeOK, NEW r \in Readers, NEW q \in Query, Ask(r, q)
  PROVE  History!Ask(r, q)
<1>. USE DEF TypeOK
<1>1. Asked[r] = {} /\ Asked' = [Asked EXCEPT ![r] = {q}]
  BY DEF Ask, Asked
<1>2. table' = table /\ answer' = [answer EXCEPT ![r] = <<>>]
  BY DEF Ask
<1>. QED
  BY <1>1, <1>2 DEF History!Ask, Asked

\* Requests end without an answer: one, or all of them with the server.
LEMMA FailRefines ==
  ASSUME TypeOK, Exit \/ Crash \/ \E r \in Readers : SelectFails(r)
  PROVE  \E R \in SUBSET Readers : History!Fail(R)
<1>1. CASE Exit \/ Crash
  <2>1. Asked' = [r \in Readers |-> {}] /\ UNCHANGED <<table, answer>>
    BY <1>1 DEF Exit, Crash, Stopped, Asked
  <2>2. History!Fail(Readers)
    BY <2>1 DEF History!Fail, Asked
  <2>. QED
    BY <2>2
<1>2. ASSUME NEW r \in Readers, SelectFails(r)
      PROVE  \E R \in SUBSET Readers : History!Fail(R)
  <2>1. Asked' = [x \in Readers |-> IF x \in {r} THEN {} ELSE Asked[x]]
    BY <1>2 DEF SelectFails, Asked, TypeOK
  <2>2. UNCHANGED <<table, answer>>
    BY <1>2 DEF SelectFails
  <2>3. History!Fail({r})
    BY <2>1, <2>2 DEF History!Fail, Asked
  <2>. QED
    BY <2>3
<1>. QED
  BY <1>1, <1>2

\* Each step of the store is a step of the log of whole batches, or none.
LEMMA StepRefines ==
  TypeOK /\ WholeBatches /\ [Next]_vars => [History!Next]_(History!vars)
<1>. SUFFICES ASSUME TypeOK, WholeBatches, [Next]_vars
              PROVE  History!Next \/ UNCHANGED History!vars
  OBVIOUS
<1>1. ASSUME UNCHANGED <<table, rpc, req, answer>> PROVE UNCHANGED History!vars
  BY <1>1 DEF History!vars
<1>2. CASE Open \/ Close \/ UNCHANGED vars
  BY <1>1, <1>2 DEF Open, Close, vars, readVars
<1>3. CASE Exit \/ Crash \/ \E r \in Readers : SelectFails(r)
  BY <1>3, FailRefines DEF History!Next
<1>4. ASSUME NEW w \in Writers, Begin(w) \/ BeginFails(w) \/ Insert(w) \/ Rollback(w)
      PROVE  UNCHANGED History!vars
  BY <1>1, <1>4 DEF Begin, BeginFails, Insert, Rollback, Returned, readVars
<1>5. ASSUME NEW w \in Writers, NEW b \in Batches, NEW t \in Times, Call(w, b, t)
      PROVE  UNCHANGED History!vars
  BY <1>1, <1>5 DEF Call, readVars
<1>6. ASSUME NEW w \in Writers, Commit(w) PROVE History!Next
  BY <1>6, CommitRecords DEF History!Next
<1>7. ASSUME NEW r \in Readers, NEW q \in Query, Ask(r, q) PROVE History!Next
  BY <1>7, AskRefines DEF History!Next, History!Query, Query
<1>8. ASSUME NEW r \in Readers, Select(r) PROVE History!Next
  BY <1>8, SelectRefines DEF History!Next
<1>9. ASSUME NEW r \in Readers, CloseRows(r) PROVE UNCHANGED History!vars
  <2>1. Asked' = Asked
    BY <1>9 DEF CloseRows, Asked, TypeOK
  <2>2. UNCHANGED <<table, answer>>
    BY <1>9 DEF CloseRows
  <2>. QED
    BY <2>1, <2>2 DEF History!vars, Asked
<1>. QED
  BY <1>2, <1>3, <1>4, <1>5, <1>6, <1>7, <1>8, <1>9 DEF Next, WriteStep, ReadStep

\* The store is the log of whole batches that HistoryLog promises, whatever
\* fails and whenever the server stops: a batch is committed whole or not at
\* all, and an answer has the rows of one state of the table.
THEOREM RefinesHistoryLog == Spec => ImplementsHistoryLog
<1>1. Init => History!Init
  BY DEF Init, History!Init
<1>. QED
  BY <1>1, StepRefines, LogCorrect, PTL DEF Spec, ImplementsHistoryLog, History!Spec
=============================================================================
