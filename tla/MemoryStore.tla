---------------------------- MODULE MemoryStore ----------------------------
(***************************************************************************)
(* The in-memory history store: one ring of the newest points for each     *)
(* (node, gpuIndex) pair, under one sync.RWMutex.  The streams of the      *)
(* aggregator write the GPUs of a snapshot as one batch, point by point    *)
(* with the lock held; history requests scan one ring with the lock held   *)
(* for reading.                                                            *)
(*                                                                         *)
(* A point is the GPU it was read from and its time; the values read are   *)
(* left out.  An empty ring stands for a missing entry of the map rings:   *)
(* Write and QueryRange do not tell them apart.  A node's agent stamps its *)
(* batches with its own clock, so nothing orders the times.  A history     *)
(* request names the node and the index of the GPU whose card was clicked; *)
(* its bounds are arbitrary (handleHistory fills in the last hour).        *)
(***************************************************************************)
EXTENDS Naturals, Sequences, FiniteSets

CONSTANTS
  Gpus,        \* the GPUs of all nodes
  NodeOf,      \* the node a GPU is in
  IndexOf,     \* its index there, as its vendor's collector counts
  Batches,     \* the lists of GPUs that one snapshot may report
  Times,       \* the times of points and bounds
  Writers,     \* the streams that write
  Readers,     \* the history requests that may be served at one time
  NoWriter,    \* mu has no announced writer
  RingSize,    \* capacity of a ring (720 in the code)
  MaxBatches   \* bound: how many batches are written

ASSUME MemoryStoreAssumption ==
  /\ Batches \subseteq Seq(Gpus)
  /\ Times \subseteq Nat
  /\ NoWriter \notin Writers
  /\ RingSize \in Nat \ {0}
  /\ MaxBatches \in Nat

VARIABLES
  rings,      \* rings[k]: the points kept for key k, oldest first
  writer,     \* the stream waiting in, or holding, mu.Lock
  readers,    \* the requests holding mu.RLock
  wpc,        \* wpc[w]: where Write is for stream w
  batch,      \* batch[w]: the points Write has not yet appended
  stamp,      \* stamp[w]: the time of w's batch
  rpc,        \* rpc[r]: where QueryRange is for request r
  req,        \* req[r]: the query of r, {} if none
  answer,     \* answer[r]: the points QueryRange has collected for r
  log,        \* history: every point ever appended
  committed,  \* history: log as it was when mu was last unlocked by a writer
  batches     \* history: how many batches were written

writeVars == <<wpc, batch, stamp, batches>>
readVars == <<rpc, req, answer>>
vars == <<rings, writer, readers, writeVars, readVars, log, committed>>

\* Faulty Key: the index is left out.
NodeKey(g) == <<NodeOf[g], 0>>

\* ringKey
Key(g) == <<NodeOf[g], IndexOf[g]>>
Keys == {Key(g) : g \in Gpus}

Point == [gpu : Gpus, time : Nat]
Query == [gpu : Gpus, from : Times, to : Times]

TypeOK ==
  /\ rings \in [Keys -> Seq(Point)]
  /\ \A k \in Keys : Len(rings[k]) <= RingSize
  /\ writer \in Writers \cup {NoWriter}
  /\ readers \in SUBSET Readers
  /\ wpc \in [Writers -> {"idle", "announce", "lock", "append"}]
  /\ batch \in [Writers -> Seq(Gpus)]
  /\ stamp \in [Writers -> Nat]
  /\ rpc \in [Readers -> {"idle", "rlock", "scan", "runlock"}]
  /\ req \in [Readers -> SUBSET Query]
  /\ \A r \in Readers : \A p, q \in req[r] : p = q
  /\ answer \in [Readers -> Seq(Point)]
  /\ log \in Seq(Point)
  /\ committed \in Seq(Point)
  /\ batches \in 0 .. MaxBatches

Init ==
  /\ rings = [k \in Keys |-> <<>>]
  /\ writer = NoWriter
  /\ readers = {}
  /\ wpc = [w \in Writers |-> "idle"]
  /\ batch = [w \in Writers |-> <<>>]
  /\ stamp = [w \in Writers |-> 0]
  /\ rpc = [r \in Readers |-> "idle"]
  /\ req = [r \in Readers |-> {}]
  /\ answer = [r \in Readers |-> <<>>]
  /\ log = <<>>
  /\ committed = <<>>
  /\ batches = 0

-----------------------------------------------------------------------------
(* Write.                                                                  *)

\* A stream handles a snapshot taken at time t and calls Write.
Call(w, b, t) ==
  /\ wpc[w] = "idle"
  /\ batches < MaxBatches
  /\ batches' = batches + 1
  /\ batch' = [batch EXCEPT ![w] = b]
  /\ stamp' = [stamp EXCEPT ![w] = t]
  /\ wpc' = [wpc EXCEPT ![w] = "announce"]
  /\ UNCHANGED <<rings, writer, readers, readVars, log, committed>>

\* mu.Lock: announced, no new reader gets in ...
AnnounceLock(w) ==
  /\ wpc[w] = "announce"
  /\ writer = NoWriter
  /\ writer' = w
  /\ wpc' = [wpc EXCEPT ![w] = "lock"]
  /\ UNCHANGED <<rings, readers, batch, stamp, batches, readVars, log, committed>>

\* ... and it returns when those that were in have left.
Lock(w) ==
  /\ wpc[w] = "lock"
  /\ readers = {}
  /\ wpc' = [wpc EXCEPT ![w] = "append"]
  /\ UNCHANGED <<rings, writer, readers, batch, stamp, batches, readVars, log,
                 committed>>

\* Faulty Newest: one too many is kept.
NewestAndOne(s, n) ==
  IF Len(s) <= n + 1 THEN s ELSE SubSeq(s, Len(s) - n, Len(s))

\* The last n elements of s: ring[len(ring)-n:].
Newest(s, n) == IF Len(s) <= n THEN s ELSE SubSeq(s, Len(s) - n + 1, Len(s))

\* Faulty AppendPoint: a full ring takes no more points.
AppendIfRoom(w) ==
  /\ wpc[w] = "append"
  /\ batch[w] # <<>>
  /\ LET k == Key(Head(batch[w]))
         p == [gpu |-> Head(batch[w]), time |-> stamp[w]]
     IN  /\ rings' = [rings EXCEPT ![k] = IF Len(@) < RingSize THEN Append(@, p) ELSE @]
         /\ log' = Append(log, p)
  /\ batch' = [batch EXCEPT ![w] = Tail(@)]
  /\ UNCHANGED <<writer, readers, wpc, stamp, batches, readVars, committed>>

\* One pass of the loop: append, then cut the ring to its size.
AppendPoint(w) ==
  /\ wpc[w] = "append"
  /\ batch[w] # <<>>
  /\ LET k == Key(Head(batch[w]))
         p == [gpu |-> Head(batch[w]), time |-> stamp[w]]
     IN  /\ rings' = [rings EXCEPT ![k] = Newest(Append(@, p), RingSize)]
         /\ log' = Append(log, p)
  /\ batch' = [batch EXCEPT ![w] = Tail(@)]
  /\ UNCHANGED <<writer, readers, wpc, stamp, batches, readVars, committed>>

\* The deferred mu.Unlock; Write returns nil.
Unlock(w) ==
  /\ wpc[w] = "append"
  /\ batch[w] = <<>>
  /\ writer' = NoWriter
  /\ committed' = log
  /\ wpc' = [wpc EXCEPT ![w] = "idle"]
  /\ UNCHANGED <<rings, readers, batch, stamp, batches, readVars, log>>

-----------------------------------------------------------------------------
(* QueryRange.                                                             *)

\* handleHistory has parsed a request, and calls QueryRange.
Ask(r, q) ==
  /\ rpc[r] = "idle"
  /\ req' = [req EXCEPT ![r] = {q}]
  /\ answer' = [answer EXCEPT ![r] = <<>>]
  /\ rpc' = [rpc EXCEPT ![r] = "rlock"]
  /\ UNCHANGED <<rings, writer, readers, writeVars, log, committed>>

\* Faulty RLock: the ring is scanned without the lock.
RLockAtOnce(r) ==
  /\ rpc[r] = "rlock"
  /\ rpc' = [rpc EXCEPT ![r] = "scan"]
  /\ UNCHANGED <<rings, writer, readers, writeVars, req, answer, log, committed>>

RLock(r) ==
  /\ rpc[r] = "rlock"
  /\ writer = NoWriter
  /\ readers' = readers \cup {r}
  /\ rpc' = [rpc EXCEPT ![r] = "scan"]
  /\ UNCHANGED <<rings, writer, writeVars, req, answer, log, committed>>

\* The n-th smallest of a set of places.
Nth(places, n) == CHOOSE i \in places : Cardinality({j \in places : j < i}) = n - 1

\* The elements of s at the given places, in their order.
At(s, places) == [n \in 1 .. Cardinality(places) |-> s[Nth(places, n)]]

\* Faulty Within: the first bound is excluded.
WithinOpen(s, q) == At(s, {i \in DOMAIN s : s[i].time > q.from /\ ~(s[i].time > q.to)})

\* The points that are neither before from nor after to.
Within(s, q) == At(s, {i \in DOMAIN s : ~(s[i].time < q.from) /\ ~(s[i].time > q.to)})

\* The scan of one ring, found by the node and the index asked for.
Scan(r) ==
  /\ rpc[r] = "scan"
  /\ \E q \in req[r] :
       answer' = [answer EXCEPT ![r] = Within(rings[Key(q.gpu)], q)]
  /\ rpc' = [rpc EXCEPT ![r] = "runlock"]
  /\ UNCHANGED <<rings, writer, readers, writeVars, req, log, committed>>

\* Faulty RUnlock: the lock is not released.
ReturnLocked(r) ==
  /\ rpc[r] = "runlock"
  /\ req' = [req EXCEPT ![r] = {}]
  /\ rpc' = [rpc EXCEPT ![r] = "idle"]
  /\ UNCHANGED <<rings, writer, readers, writeVars, answer, log, committed>>

\* The deferred mu.RUnlock; the points are returned and written as JSON.
RUnlock(r) ==
  /\ rpc[r] = "runlock"
  /\ readers' = readers \ {r}
  /\ req' = [req EXCEPT ![r] = {}]
  /\ rpc' = [rpc EXCEPT ![r] = "idle"]
  /\ UNCHANGED <<rings, writer, writeVars, answer, log, committed>>

-----------------------------------------------------------------------------
WriteStep(w) == AnnounceLock(w) \/ Lock(w) \/ AppendPoint(w) \/ Unlock(w)
ReadStep(r) == RLock(r) \/ Scan(r) \/ RUnlock(r)

Next ==
  \/ \E w \in Writers : WriteStep(w) \/ \E b \in Batches, t \in Times : Call(w, b, t)
  \/ \E r \in Readers : ReadStep(r) \/ \E q \in Query : Ask(r, q)

Spec == Init /\ [][Next]_vars

\* Goroutines are scheduled, and neither side of an RWMutex starves the other:
\* a waiting writer keeps new readers out, the readers that waited go first
\* when it unlocks, and writers queue up on a sync.Mutex that hands over.
Fairness ==
  /\ \A w \in Writers : WF_vars(WriteStep(w)) /\ SF_vars(AnnounceLock(w))
  /\ \A r \in Readers : WF_vars(ReadStep(r)) /\ SF_vars(RLock(r))

FairSpec == Spec /\ Fairness

-----------------------------------------------------------------------------
(* Properties.                                                             *)

\* The points of s under key k.
Under(k, s) == At(s, {i \in DOMAIN s : Key(s[i].gpu) = k})

\* A ring holds exactly the newest RingSize points that were ever written
\* under its key, in the order they were written: nothing is lost before it
\* has to be, and nothing old survives.
RingsHoldNewest == \A k \in Keys : rings[k] = Newest(Under(k, log), RingSize)

\* mu keeps its promise as Write and QueryRange use it: one writer at a time
\* is at work, none while a request is scanning, and between two writers no
\* half-written batch is in the rings.
MuProtocol ==
  /\ \A w \in Writers : wpc[w] \in {"lock", "append"} <=> writer = w
  /\ \A w \in Writers : wpc[w] = "append" => readers = {}
  /\ readers = {r \in Readers : rpc[r] \in {"scan", "runlock"}}
  /\ (\A w \in Writers : wpc[w] # "append") => committed = log

\* An answer has points of no other GPU than the one asked for.
AnswersAreOfTheGpu ==
  \A r \in Readers : rpc[r] = "runlock" =>
    \A q \in req[r] : \A i \in DOMAIN answer[r] : answer[r][i].gpu = q.gpu

\* The store is a log of whole batches, and a query is answered from one state
\* of it: a batch that is being appended is either not seen at all or whole.
History ==
  INSTANCE HistoryLog WITH
    KeyOf <- [g \in Gpus |-> Key(g)],
    Kept <- 0 .. RingSize - 1,
    MayFail <- FALSE,
    log <- committed,
    asked <- [r \in Readers |-> IF rpc[r] \in {"rlock", "scan"} THEN req[r] ELSE {}]

ImplementsHistoryLog == History!Spec

\* The same, step by step: what a request is given is what the newest points
\* of its key in the log of whole batches have within its bounds.
AnswersFromCommitted ==
  [][\A r \in Readers : rpc[r] = "scan" /\ rpc'[r] = "runlock" =>
       \A q \in req[r] :
         answer'[r] = Within(Newest(Under(Key(q.gpu), committed), RingSize), q)]_vars

\* Every Write returns, however many requests come in: a stream waits for it
\* before it broadcasts.
WritesReturn == \A w \in Writers : wpc[w] # "idle" ~> wpc[w] = "idle"
=============================================================================
