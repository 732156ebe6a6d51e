----------------------------- MODULE HistoryLog -----------------------------
(***************************************************************************)
(* What the history store promises (interface store.Store): one log, to    *)
(* which whole batches are added at once, and queries that are answered    *)
(* from one state of it, with the points of the GPU asked for whose time   *)
(* lies between the two bounds, the bounds included, in an order that the  *)
(* store chooses.  A store may keep only the newest points of each GPU and *)
(* answer from those; it may be one whose requests can fail.               *)
(***************************************************************************)
EXTENDS Naturals, Sequences, FiniteSets, Functions

CONSTANTS
  Gpus,     \* the GPUs of all nodes
  KeyOf,    \* the key under which a GPU's points are kept
  Batches,  \* the lists of GPUs that one snapshot may report
  Times,    \* the times of points and bounds
  Readers,  \* the requests that may be served at one time
  Kept,     \* a point is kept while the number of newer ones of its key is in Kept
  MayFail   \* a request may end without an answer

VARIABLES
  log,      \* everything recorded, oldest first
  asked,    \* asked[r]: the query r waits on, {} if none
  answer    \* answer[r]: the points r was given

vars == <<log, asked, answer>>

Query == [gpu : Gpus, from : Times, to : Times]

Init ==
  /\ log = <<>>
  /\ asked = [r \in Readers |-> {}]
  /\ answer = [r \in Readers |-> <<>>]

\* A whole batch of points, taken at time t, is added in its order.
Record(batch, t) ==
  /\ log' = log \o [i \in DOMAIN batch |-> [gpu |-> batch[i], time |-> t]]
  /\ UNCHANGED <<asked, answer>>

Ask(r, q) ==
  /\ asked[r] = {}
  /\ asked' = [asked EXCEPT ![r] = {q}]
  /\ answer' = [answer EXCEPT ![r] = <<>>]
  /\ UNCHANGED log

\* The places in the log of the points kept under key k ...
Recorded(k) == {i \in DOMAIN log : KeyOf[log[i].gpu] = k}
Remembered(k) == {i \in Recorded(k) : Cardinality({j \in Recorded(k) : i < j}) \in Kept}

\* ... and of those that q asks for.
Matching(q) ==
  {i \in Remembered(KeyOf[q.gpu]) : q.from <= log[i].time /\ log[i].time <= q.to}

\* The points at the given places, in every order.
Arrangements(places) ==
  LET n == Cardinality(places)
  IN  {[i \in 1 .. n |-> log[f[i]]] : f \in Bijection(1 .. n, places)}

Answer(r) ==
  \E q \in asked[r] :
    /\ \E s \in Arrangements(Matching(q)) : answer' = [answer EXCEPT ![r] = s]
    /\ asked' = [asked EXCEPT ![r] = {}]
    /\ UNCHANGED log

\* The requests of R fail; it may be all of them at once.
Fail(R) ==
  /\ MayFail
  /\ asked' = [r \in Readers |-> IF r \in R THEN {} ELSE asked[r]]
  /\ UNCHANGED <<log, answer>>

Next ==
  \/ \E batch \in Batches, t \in Times : Record(batch, t)
  \/ \E r \in Readers : Answer(r) \/ \E q \in Query : Ask(r, q)
  \/ \E R \in SUBSET Readers : Fail(R)

Spec == Init /\ [][Next]_vars
=============================================================================
