----------------------------- MODULE Aggregator -----------------------------
(***************************************************************************)
(* The in-memory half of the server: package aggregator.                   *)
(*                                                                         *)
(* Each agent is read by one goroutine (a stream).  For every snapshot it  *)
(* receives, the stream replaces its node's entry of the shared map        *)
(* nodeState, writes the store, takes a copy of the whole map and offers   *)
(* that copy to every subscriber's buffered channel, without ever waiting  *)
(* for one.  Subscribers come and go under subMu, a sync.RWMutex that the  *)
(* broadcast holds for reading.                                            *)
(*                                                                         *)
(* The metrics of a node are abstracted to a version: two snapshots of a   *)
(* node differ iff their versions do.  Version 0 means that the map has no *)
(* entry for the node.  Critical sections of mu, which protect one map     *)
(* access each, are single steps; subMu is explicit because a broadcast    *)
(* holds it over many.                                                     *)
(*                                                                         *)
(* The store is written between UpdateState and TakeSnapshot; here it is   *)
(* only a delay, since its error is logged and otherwise ignored.          *)
(***************************************************************************)
EXTENDS Naturals, Sequences

CONSTANTS
  Nodes,       \* names of the nodes that run an agent
  Streams,     \* the goroutines that read the agents
  NodeOf,      \* the node whose snapshots a stream receives
  Clients,     \* the subscribers
  NoClient,    \* subMu has no announced writer
  ChanCap,     \* capacity of a subscriber's channel (8 in the code)
  MaxVersion   \* bound: how often the metrics of a node change

ASSUME AggregatorAssumption ==
  /\ NodeOf \in [Streams -> Nodes]
  /\ NoClient \notin Clients
  /\ ChanCap \in Nat \ {0}
  /\ MaxVersion \in Nat \ {0}

VARIABLES
  metrics,    \* metrics[n]: what node n's agent reads from its GPUs now
  nodeState,  \* the aggregator's map
  spc,        \* spc[s]: where stream s is in its loop
  recvd,      \* recvd[s]: version in the last snapshot stream s received
  bsnap,      \* bsnap[s]: the copy of nodeState that s broadcasts
  todo,       \* todo[s]: subscribers s has not yet offered its copy to
  subs,       \* the registered subscriber channels
  writer,     \* the subscriber waiting in, or holding, subMu.Lock
  queue,      \* queue[c]: contents of c's channel
  closed,     \* subscribers whose channel is closed
  offered,    \* history: nodes whose present entry c has been offered
  dropped     \* history: subscribers whose last offer found a full channel

streamVars == <<metrics, nodeState, spc, recvd, bsnap, todo>>
subVars == <<subs, writer, queue, closed, offered, dropped>>
aggVars == <<streamVars, subVars>>

-----------------------------------------------------------------------------
Version == 0 .. MaxVersion
Snapshot == [Nodes -> Version]
StreamPC == {"recv", "update", "broadcast", "rlock", "sending"}

AggTypeOK ==
  /\ metrics \in [Nodes -> 1 .. MaxVersion]
  /\ nodeState \in Snapshot
  /\ spc \in [Streams -> StreamPC]
  /\ recvd \in [Streams -> Version]
  /\ bsnap \in [Streams -> Snapshot]
  /\ todo \in [Streams -> SUBSET Clients]
  /\ subs \in SUBSET Clients
  /\ writer \in Clients \cup {NoClient}
  /\ queue \in [Clients -> Seq(Snapshot)]
  /\ closed \in SUBSET Clients
  /\ offered \in [Clients -> SUBSET Nodes]
  /\ dropped \in SUBSET Clients

EmptySnapshot == [n \in Nodes |-> 0]

AggInit ==
  /\ metrics = [n \in Nodes |-> 1]
  /\ nodeState = EmptySnapshot
  /\ spc = [s \in Streams |-> "recv"]
  /\ recvd = [s \in Streams |-> 0]
  /\ bsnap = [s \in Streams |-> EmptySnapshot]
  /\ todo = [s \in Streams |-> {}]
  /\ subs = {}
  /\ writer = NoClient
  /\ queue = [c \in Clients |-> <<>>]
  /\ closed = {}
  /\ offered = [c \in Clients |-> {}]
  /\ dropped = {}

-----------------------------------------------------------------------------
(* The agents.                                                             *)

\* The GPUs of node n change: its agent's next snapshots carry a new version.
GpuChange(n) ==
  /\ metrics[n] < MaxVersion
  /\ metrics' = [metrics EXCEPT ![n] = @ + 1]
  /\ UNCHANGED <<nodeState, spc, recvd, bsnap, todo, subVars>>

\* stream: Recv returns snapshot v.  The wire is FIFO, so v is no older than
\* the last snapshot of this stream, but it may have waited while the metrics
\* moved on.  Reconnecting after an error is a pause in "recv".
Recv(s, v) ==
  /\ spc[s] = "recv"
  /\ v \in 1 .. metrics[NodeOf[s]]
  /\ recvd[s] <= v
  /\ recvd' = [recvd EXCEPT ![s] = v]
  /\ spc' = [spc EXCEPT ![s] = "update"]
  /\ UNCHANGED <<metrics, nodeState, bsnap, todo, subVars>>

-----------------------------------------------------------------------------
(* handleSnapshot and broadcast.                                           *)

\* Faulty UpdateState: handleSnapshot returns when the store cannot be written.
UpdateStateOnly(s) ==
  /\ spc[s] = "update"
  /\ nodeState' = [nodeState EXCEPT ![NodeOf[s]] = recvd[s]]
  /\ spc' = [spc EXCEPT ![s] = "recv"]
  /\ UNCHANGED <<metrics, recvd, bsnap, todo, subVars>>

\* handleSnapshot: the node's entry is replaced, under mu.
UpdateState(s) ==
  /\ spc[s] = "update"
  /\ nodeState' = [nodeState EXCEPT ![NodeOf[s]] = recvd[s]]
  /\ offered' = IF recvd[s] = nodeState[NodeOf[s]] THEN offered
                ELSE [c \in Clients |-> offered[c] \ {NodeOf[s]}]
  /\ spc' = [spc EXCEPT ![s] = "broadcast"]
  /\ UNCHANGED <<metrics, recvd, bsnap, todo, subs, writer, queue, closed, dropped>>

\* Faulty TakeSnapshot: only the node's own entry is broadcast.
TakeOwnEntry(s) ==
  /\ spc[s] = "broadcast"
  /\ bsnap' = [bsnap EXCEPT ![s] =
                 [EmptySnapshot EXCEPT ![NodeOf[s]] = nodeState[NodeOf[s]]]]
  /\ spc' = [spc EXCEPT ![s] = "rlock"]
  /\ UNCHANGED <<metrics, nodeState, recvd, todo, subVars>>

\* broadcast calls CurrentSnapshot before it takes subMu.
TakeSnapshot(s) ==
  /\ spc[s] = "broadcast"
  /\ bsnap' = [bsnap EXCEPT ![s] = nodeState]
  /\ spc' = [spc EXCEPT ![s] = "rlock"]
  /\ UNCHANGED <<metrics, nodeState, recvd, todo, subVars>>

\* subMu.RLock: an announced writer keeps new readers out.  The range over
\* subs visits every registered channel, in any order.
RLockSubs(s) ==
  /\ spc[s] = "rlock"
  /\ writer = NoClient
  /\ todo' = [todo EXCEPT ![s] = subs]
  /\ spc' = [spc EXCEPT ![s] = "sending"]
  /\ UNCHANGED <<metrics, nodeState, recvd, bsnap, subVars>>

\* The nodes of snapshot snap that are as nodeState has them; for offered, not a
\* part of the code.
CurrentIn(snap) == {n \in Nodes : snap[n] = nodeState[n]}

Visit(s, c) ==
  /\ spc[s] = "sending"
  /\ c \in todo[s]
  /\ todo' = [todo EXCEPT ![s] = @ \ {c}]
  /\ offered' = [offered EXCEPT ![c] = @ \cup CurrentIn(bsnap[s])]
  /\ UNCHANGED <<metrics, nodeState, spc, recvd, bsnap, subs, writer, closed>>

\* Faulty Enqueue: the channel is not bounded.
EnqueueAlways(s, c) ==
  /\ queue' = [queue EXCEPT ![c] = Append(@, bsnap[s])]
  /\ dropped' = dropped \ {c}
  /\ Visit(s, c)

\* select, case sub <- snap: there is room in the channel.
Enqueue(s, c) ==
  /\ Len(queue[c]) < ChanCap
  /\ queue' = [queue EXCEPT ![c] = Append(@, bsnap[s])]
  /\ dropped' = dropped \ {c}
  /\ Visit(s, c)

\* Faulty Drop: the select has no default case, so that a full channel blocks.
BlockWhenFull(s, c) == FALSE

\* select, default: the channel is full and this snapshot is dropped.
Drop(s, c) ==
  /\ Len(queue[c]) >= ChanCap
  /\ dropped' = dropped \cup {c}
  /\ UNCHANGED queue
  /\ Visit(s, c)

\* subMu.RUnlock; the copy goes out of scope and the stream back to Recv.
RUnlockSubs(s) ==
  /\ spc[s] = "sending"
  /\ todo[s] = {}
  /\ spc' = [spc EXCEPT ![s] = "recv"]
  /\ bsnap' = [bsnap EXCEPT ![s] = EmptySnapshot]
  /\ UNCHANGED <<metrics, nodeState, recvd, todo, subVars>>

-----------------------------------------------------------------------------
(* What a subscriber calls.                                                *)

\* subMu.Lock announces itself first: from here on no new reader gets in.
AnnounceLock(c) ==
  /\ writer = NoClient
  /\ writer' = c
  /\ UNCHANGED <<streamVars, subs, queue, closed, offered, dropped>>

\* Faulty LockHeld: subs is changed under a lock that readers do not respect.
LockHeldAlone(c) == writer = c

\* Lock returns once the readers that were in have left.
LockHeld(c) ==
  /\ writer = c
  /\ \A s \in Streams : spc[s] # "sending"

\* Subscribe: a fresh channel is registered and the lock released.
Subscribe(c) ==
  /\ LockHeld(c)
  /\ subs' = subs \cup {c}
  /\ queue' = [queue EXCEPT ![c] = <<>>]
  /\ closed' = closed \ {c}
  /\ offered' = [offered EXCEPT ![c] = {}]
  /\ dropped' = dropped \ {c}
  /\ writer' = NoClient
  /\ UNCHANGED streamVars

\* Unsubscribe, first half: the channel is removed and the lock released.
Unregister(c) ==
  /\ LockHeld(c)
  /\ subs' = subs \ {c}
  /\ writer' = NoClient
  /\ UNCHANGED <<streamVars, queue, closed, offered, dropped>>

\* Unsubscribe, second half, after the lock: close(ch).  What it still holds
\* is never read.
CloseChannel(c) ==
  /\ closed' = closed \cup {c}
  /\ queue' = [queue EXCEPT ![c] = <<>>]
  /\ UNCHANGED <<streamVars, subs, writer, offered, dropped>>

\* A receive from the channel.
Receive(c) ==
  /\ queue[c] # <<>>
  /\ queue' = [queue EXCEPT ![c] = Tail(@)]
  /\ UNCHANGED <<streamVars, subs, writer, closed, offered, dropped>>

-----------------------------------------------------------------------------
\* One pass of handleSnapshot after Recv.
HandleSnapshot(s) ==
  \/ UpdateState(s)
  \/ TakeSnapshot(s)
  \/ RLockSubs(s)
  \/ \E c \in Clients : Enqueue(s, c) \/ Drop(s, c)
  \/ RUnlockSubs(s)

StreamStep(s) ==
  \/ \E v \in Version : Recv(s, v)
  \/ HandleSnapshot(s)
=============================================================================
