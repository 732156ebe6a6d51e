--------------------------- MODULE TimescaleStore ---------------------------
(***************************************************************************)
(* The history store on TimescaleDB, used when storage is enabled.         *)
(*                                                                         *)
(* Every call takes a connection of the pool and gives it back.  A batch   *)
(* is inserted row by row in one transaction, a request is one statement,  *)
(* answered from what is committed when it starts.  Either may fail at any *)
(* point, because the database does or because the ten or fifteen seconds  *)
(* of its context are over; the stream that called Write only logs that.   *)
(* The server may stop, crash and start again: the table remains.          *)
(*                                                                         *)
(* A point is the GPU it was read from and its time, as in MemoryStore.    *)
(* ApplyRetention has no caller.                                           *)
(***************************************************************************)
EXTENDS Naturals, Sequences, FiniteSets

CONSTANTS
  Gpus,       \* the GPUs of all nodes
  NodeOf,     \* the node a GPU is in
  IndexOf,    \* its index there
  Batches,    \* the lists of GPUs that one snapshot may report
  Times,      \* the times of points and bounds
  Writers,    \* the streams that write
  Readers,    \* the history requests that may be served at one time
  PoolSize,   \* connections of the pool
  MaxBatches  \* bound: how many batches are written

ASSUME TimescaleStoreAssumption ==
  /\ Batches \subseteq Seq(Gpus)
  /\ Times \subseteq Nat
  /\ IsFiniteSet(Writers) /\ IsFiniteSet(Readers)
  /\ PoolSize \in Nat \ {0}
  /\ MaxBatches \in Nat

VARIABLES
  server,  \* whether the server runs; the table outlives it
  table,   \* the committed rows, in the order they were committed
  inUse,   \* how many connections are taken from the pool
  wpc,     \* wpc[w]: where Write is for stream w
  batch,   \* batch[w]: the points Write has not yet inserted
  stamp,   \* stamp[w]: the time of w's batch
  tx,      \* tx[w]: the rows inserted in w's transaction
  batches, \* history: how many batches were written
  rpc,     \* rpc[r]: where QueryRange is for request r
  req,     \* req[r]: the query of r, {} if none
  answer   \* answer[r]: the rows the database selected for r

writeVars == <<wpc, batch, stamp, tx, batches>>
readVars == <<rpc, req, answer>>
vars == <<server, table, inUse, writeVars, readVars>>

Key(g) == <<NodeOf[g], IndexOf[g]>>

Point == [gpu : Gpus, time : Nat]
Query == [gpu : Gpus, from : Times, to : Times]

TypeOK ==
  /\ server \in {"down", "up", "closing"}
  /\ table \in Seq(Point)
  /\ inUse \in 0 .. PoolSize
  /\ wpc \in [Writers -> {"idle", "begin", "insert"}]
  /\ batch \in [Writers -> Seq(Gpus)]
  /\ stamp \in [Writers -> Nat]
  /\ tx \in [Writers -> Seq(Point)]
  /\ batches \in 0 .. MaxBatches
  /\ rpc \in [Readers -> {"idle", "query", "rows"}]
  /\ req \in [Readers -> SUBSET Query]
  /\ answer \in [Readers -> Seq(Point)]

Init ==
  /\ server = "down"
  /\ table = <<>>
  /\ inUse = 0
  /\ wpc = [w \in Writers |-> "idle"]
  /\ batch = [w \in Writers |-> <<>>]
  /\ stamp = [w \in Writers |-> 0]
  /\ tx = [w \in Writers |-> <<>>]
  /\ batches = 0
  /\ rpc = [r \in Readers |-> "idle"]
  /\ req = [r \in Readers |-> {}]
  /\ answer = [r \in Readers |-> <<>>]

-----------------------------------------------------------------------------
(* The server starts and stops.                                            *)

\* NewTimescaleStore: ping, then migrate, which keeps a table that exists.  If
\* either fails the server exits and is still down.
Open ==
  /\ server = "down"
  /\ server' = "up"
  /\ UNCHANGED <<table, inUse, writeVars, readVars>>

\* main returns and its deferred Close closes the pool: no connection is
\* given out any more, and Close waits for those in use.
Close ==
  /\ server = "up"
  /\ server' = "closing"
  /\ UNCHANGED <<table, inUse, writeVars, readVars>>

\* The process ends and its goroutines with it.
Stopped ==
  /\ server' = "down"
  /\ inUse' = 0
  /\ wpc' = [w \in Writers |-> "idle"]
  /\ batch' = [w \in Writers |-> <<>>]
  /\ stamp' = [w \in Writers |-> 0]
  /\ tx' = [w \in Writers |-> <<>>]
  /\ rpc' = [r \in Readers |-> "idle"]
  /\ req' = [r \in Readers |-> {}]
  /\ UNCHANGED <<table, batches, answer>>

Exit ==
  /\ server = "closing"
  /\ inUse = 0
  /\ Stopped

\* The database rolls back what was not committed.
Crash ==
  /\ server # "down"
  /\ Stopped

-----------------------------------------------------------------------------
(* Write.                                                                  *)

\* A stream calls Write; with no points it would return at once.
Call(w, b, t) ==
  /\ server # "down"
  /\ wpc[w] = "idle"
  /\ b # <<>>
  /\ batches < MaxBatches
  /\ batches' = batches + 1
  /\ batch' = [batch EXCEPT ![w] = b]
  /\ stamp' = [stamp EXCEPT ![w] = t]
  /\ wpc' = [wpc EXCEPT ![w] = "begin"]
  /\ UNCHANGED <<server, table, inUse, tx, readVars>>

\* A connection can be taken from the pool.
Available == server = "up" /\ inUse < PoolSize

\* Faulty Begin: the connection is not one of the pool's.
BeginAtOnce(w) ==
  /\ wpc[w] = "begin"
  /\ server = "up"
  /\ inUse' = inUse + 1
  /\ wpc' = [wpc EXCEPT ![w] = "insert"]
  /\ UNCHANGED <<server, table, batch, stamp, tx, batches, readVars>>

\* pool.Begin
Begin(w) ==
  /\ wpc[w] = "begin"
  /\ Available
  /\ inUse' = inUse + 1
  /\ wpc' = [wpc EXCEPT ![w] = "insert"]
  /\ UNCHANGED <<server, table, batch, stamp, tx, batches, readVars>>

\* Write has returned.
Returned(w) ==
  /\ wpc' = [wpc EXCEPT ![w] = "idle"]
  /\ batch' = [batch EXCEPT ![w] = <<>>]
  /\ stamp' = [stamp EXCEPT ![w] = 0]
  /\ tx' = [tx EXCEPT ![w] = <<>>]
  /\ UNCHANGED <<server, batches, readVars>>

\* Faulty BeginFails: it waits for a connection without a time-out.
BeginWaits(w) == FALSE

\* No connection in time, none from a closed pool, or the database fails.
BeginFails(w) ==
  /\ wpc[w] = "begin"
  /\ Returned(w)
  /\ UNCHANGED <<table, inUse>>

\* Faulty Insert: each row is committed by itself.
InsertAlone(w) ==
  /\ wpc[w] = "insert"
  /\ batch[w] # <<>>
  /\ table' = Append(table, [gpu |-> Head(batch[w]), time |-> stamp[w]])
  /\ batch' = [batch EXCEPT ![w] = Tail(@)]
  /\ UNCHANGED <<server, inUse, wpc, stamp, tx, batches, readVars>>

\* tx.Exec, one row.
Insert(w) ==
  /\ wpc[w] = "insert"
  /\ batch[w] # <<>>
  /\ tx' = [tx EXCEPT ![w] = Append(@, [gpu |-> Head(batch[w]), time |-> stamp[w]])]
  /\ batch' = [batch EXCEPT ![w] = Tail(@)]
  /\ UNCHANGED <<server, table, inUse, wpc, stamp, batches, readVars>>

\* Faulty Rollback: an error path that does not end the transaction.
ReturnInTx(w) ==
  /\ wpc[w] = "insert"
  /\ Returned(w)
  /\ UNCHANGED <<table, inUse>>

\* An insert or the commit fails: the deferred Rollback ends the transaction
\* and gives the connection back, broken or not.
Rollback(w) ==
  /\ wpc[w] = "insert"
  /\ inUse' = inUse - 1
  /\ Returned(w)
  /\ UNCHANGED table

\* tx.Commit.  If only its answer is lost Write returns an error all the same.
Commit(w) ==
  /\ wpc[w] = "insert"
  /\ batch[w] = <<>>
  /\ table' = table \o tx[w]
  /\ inUse' = inUse - 1
  /\ Returned(w)

-----------------------------------------------------------------------------
(* QueryRange.                                                             *)

Ask(r, q) ==
  /\ server # "down"
  /\ rpc[r] = "idle"
  /\ req' = [req EXCEPT ![r] = {q}]
  /\ answer' = [answer EXCEPT ![r] = <<>>]
  /\ rpc' = [rpc EXCEPT ![r] = "query"]
  /\ UNCHANGED <<server, table, inUse, writeVars>>

\* WHERE node_name, gpu_index, time BETWEEN ...: the numbers of the rows.
Selected(q) ==
  {i \in DOMAIN table : /\ Key(table[i].gpu) = Key(q.gpu)
                        /\ q.from <= table[i].time /\ table[i].time <= q.to}

\* ... ORDER BY time: rows of the same time come in any order.
InTimeOrder(rows) ==
  LET n == Cardinality(rows)
      orders == {f \in [1 .. n -> rows] :
                   \A i, j \in 1 .. n :
                     i < j => f[i] # f[j] /\ table[f[i]].time <= table[f[j]].time}
  IN  {[i \in 1 .. n |-> table[f[i]]] : f \in orders}

\* pool.Query: the statement starts, and sees what is committed now.
Select(r) ==
  /\ rpc[r] = "query"
  /\ Available
  /\ inUse' = inUse + 1
  /\ \E q \in req[r] : \E s \in InTimeOrder(Selected(q)) :
       answer' = [answer EXCEPT ![r] = s]
  /\ rpc' = [rpc EXCEPT ![r] = "rows"]
  /\ UNCHANGED <<server, table, writeVars, req>>

SelectFails(r) ==
  /\ rpc[r] = "query"
  /\ rpc' = [rpc EXCEPT ![r] = "idle"]
  /\ req' = [req EXCEPT ![r] = {}]
  /\ UNCHANGED <<server, table, inUse, writeVars, answer>>

\* Faulty CloseRows: the rows are left open.
LeaveRows(r) ==
  /\ rpc[r] = "rows"
  /\ rpc' = [rpc EXCEPT ![r] = "idle"]
  /\ req' = [req EXCEPT ![r] = {}]
  /\ UNCHANGED <<server, table, inUse, writeVars, answer>>

\* All rows are read, or reading one fails: the deferred rows.Close gives the
\* connection back.
CloseRows(r) ==
  /\ rpc[r] = "rows"
  /\ inUse' = inUse - 1
  /\ rpc' = [rpc EXCEPT ![r] = "idle"]
  /\ req' = [req EXCEPT ![r] = {}]
  /\ UNCHANGED <<server, table, writeVars, answer>>

-----------------------------------------------------------------------------
WriteStep(w) == Begin(w) \/ BeginFails(w) \/ Insert(w) \/ Rollback(w) \/ Commit(w)
ReadStep(r) == Select(r) \/ SelectFails(r) \/ CloseRows(r)

Next ==
  \/ Open \/ Close \/ Exit \/ Crash
  \/ \E w \in Writers : WriteStep(w) \/ \E b \in Batches, t \in Times : Call(w, b, t)
  \/ \E r \in Readers : ReadStep(r) \/ \E q \in Query : Ask(r, q)

Spec == Init /\ [][Next]_vars

\* A call that does not get on fails when its context's time is over.  Nothing
\* is assumed of the pool's queue or of the database, which may hang.
Fairness ==
  /\ WF_vars(Exit)
  /\ \A w \in Writers : WF_vars(BeginFails(w) \/ Rollback(w))
  /\ \A r \in Readers : WF_vars(SelectFails(r) \/ CloseRows(r))

FairSpec == Spec /\ Fairness

-----------------------------------------------------------------------------
(* Properties.                                                             *)

\* A connection is out of the pool only for a transaction or a statement that
\* is going on: no error path of Write or QueryRange keeps one.
ConnectionsReturned ==
  inUse = Cardinality({w \in Writers : wpc[w] = "insert"})
          + Cardinality({r \in Readers : rpc[r] = "rows"})

\* The store is the log of whole batches that the interface promises, through
\* failures, crashes and restarts: a batch is recorded whole, once, or not at
\* all, and an answer has the rows of one state of the log.
History ==
  INSTANCE HistoryLog WITH
    KeyOf <- [g \in Gpus |-> Key(g)],
    Kept <- Nat,
    MayFail <- TRUE,
    log <- table,
    asked <- [r \in Readers |-> IF rpc[r] = "query" THEN req[r] ELSE {}]

ImplementsHistoryLog == History!Spec

\* A stream gets on with its broadcast, even if the database hangs or requests
\* take all connections of the pool.
WritesReturn == \A w \in Writers : wpc[w] # "idle" ~> wpc[w] = "idle"

\* Close returns: the server does not hang when it is stopped.
CloseEnds == server = "closing" ~> server = "down"
=============================================================================
