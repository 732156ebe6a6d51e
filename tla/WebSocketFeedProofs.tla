------------------------- MODULE WebSocketFeedProofs -------------------------
(***************************************************************************)
(* What holds of the live feed for any number of agents, streams and       *)
(* browsers and any channel capacity.                                      *)
(***************************************************************************)
EXTENDS WebSocketFeed, SequenceTheorems, TLAPS

-----------------------------------------------------------------------------
(* Type correctness.                                                       *)

\* What UNCHANGED aggVars leaves of TypeOK.
AggPart == AggTypeOK /\ \A c \in Clients : Len(queue[c]) <= ChanCap
FeedPart ==
  /\ hpc \in [Clients -> HandlerPC]
  /\ conn \in [Clients -> ConnState]
  /\ out \in [Clients -> Snapshot]
  /\ view \in [Clients -> Snapshot]

\* The map without entries is a snapshot.
LEMMA EmptySnapshotType == EmptySnapshot \in Snapshot
BY AggregatorAssumption DEF EmptySnapshot, Snapshot, Version

\* Appending to a channel with room, or receiving from one that is not empty,
\* leaves a channel within its capacity.
LEMMA ChannelBounds ==
  ASSUME NEW q \in Seq(Snapshot), Len(q) <= ChanCap, NEW x \in Snapshot
  PROVE  /\ Len(q) < ChanCap => /\ Append(q, x) \in Seq(Snapshot)
                                /\ Len(Append(q, x)) <= ChanCap
         /\ q # <<>> => /\ Head(q) \in Snapshot
                        /\ Tail(q) \in Seq(Snapshot)
                        /\ Len(Tail(q)) <= ChanCap
BY AggregatorAssumption

\* A step of a stream keeps the aggregator's part of the types.
LEMMA StreamTypes ==
  ASSUME AggPart, NEW s \in Streams, StreamStep(s)
  PROVE  AggPart'
<1> USE AggregatorAssumption DEF AggPart, AggTypeOK, StreamPC
<1>1. ASSUME NEW v \in Version, Recv(s, v) PROVE AggPart'
  BY <1>1 DEF Recv, subVars
<1>2. CASE UpdateState(s)
  <2>1. nodeState' \in Snapshot
    BY <1>2 DEF UpdateState, Snapshot
  <2>2. offered' \in [Clients -> SUBSET Nodes]
    BY <1>2 DEF UpdateState
  <2> QED
    BY <1>2, <2>1, <2>2 DEF UpdateState
<1>3. CASE TakeSnapshot(s)
  BY <1>3 DEF TakeSnapshot, subVars
<1>4. CASE RLockSubs(s)
  BY <1>4 DEF RLockSubs, subVars
<1>5. ASSUME NEW c \in Clients, Enqueue(s, c) PROVE AggPart'
  <2>1. /\ Append(queue[c], bsnap[s]) \in Seq(Snapshot)
        /\ Len(Append(queue[c], bsnap[s])) <= ChanCap
    BY <1>5, ChannelBounds DEF Enqueue
  <2>2. queue' \in [Clients -> Seq(Snapshot)]
        /\ \A d \in Clients : Len(queue'[d]) <= ChanCap
    BY <1>5, <2>1 DEF Enqueue
  <2>3. offered' \in [Clients -> SUBSET Nodes]
    BY <1>5 DEF Enqueue, Visit, CurrentIn
  <2> QED
    BY <1>5, <2>2, <2>3 DEF Enqueue, Visit
<1>6. ASSUME NEW c \in Clients, Drop(s, c) PROVE AggPart'
  <2>1. offered' \in [Clients -> SUBSET Nodes]
    BY <1>6 DEF Drop, Visit, CurrentIn
  <2> QED
    BY <1>6, <2>1 DEF Drop, Visit
<1>7. CASE RUnlockSubs(s)
  BY <1>7, EmptySnapshotType DEF RUnlockSubs, subVars
<1> QED
  BY <1>1, <1>2, <1>3, <1>4, <1>5, <1>6, <1>7 DEF StreamStep, HandleSnapshot

\* A step of a handler keeps all types.
LEMMA HandlerTypes ==
  ASSUME TypeOK, NEW c \in Clients, HandlerAnnounce(c) \/ Handler(c)
  PROVE  TypeOK'
<1> USE AggregatorAssumption, EmptySnapshotType
    DEF TypeOK, AggTypeOK, HandlerPC, ConnState
<1>1. CASE HandlerAnnounce(c)
  BY <1>1 DEF HandlerAnnounce, AnnounceLock, feedVars, streamVars
<1>2. CASE HandlerSubscribe(c)
  <2>1. queue' \in [Clients -> Seq(Snapshot)]
        /\ \A d \in Clients : Len(queue'[d]) <= ChanCap
    BY <1>2 DEF HandlerSubscribe, Subscribe
  <2> QED
    BY <1>2, <2>1 DEF HandlerSubscribe, Subscribe, LockHeld, streamVars
<1>3. CASE TakeInitial(c)
  BY <1>3 DEF TakeInitial, CurrentIn, streamVars
<1>4. CASE WriteOk(c)
  BY <1>4 DEF WriteOk, aggVars, streamVars, subVars
<1>5. CASE WriteLost(c)
  BY <1>5 DEF WriteLost, aggVars, streamVars, subVars
<1>6. CASE WriteError(c)
  BY <1>6 DEF WriteError, aggVars, streamVars, subVars
<1>7. CASE Forward(c)
  <2>1. /\ Head(queue[c]) \in Snapshot
        /\ Tail(queue[c]) \in Seq(Snapshot)
        /\ Len(Tail(queue[c])) <= ChanCap
    BY <1>7, ChannelBounds DEF Forward, Receive
  <2>2. queue' \in [Clients -> Seq(Snapshot)]
        /\ \A d \in Clients : Len(queue'[d]) <= ChanCap
    BY <1>7, <2>1 DEF Forward, Receive
  <2> QED
    BY <1>7, <2>1, <2>2 DEF Forward, Receive, streamVars
<1>8. CASE PeerDone(c)
  BY <1>8 DEF PeerDone, aggVars, streamVars, subVars
<1>9. CASE HandlerUnregister(c)
  BY <1>9 DEF HandlerUnregister, Unregister, LockHeld, streamVars
<1>10. CASE HandlerClose(c)
  <2>1. queue' \in [Clients -> Seq(Snapshot)]
        /\ \A d \in Clients : Len(queue'[d]) <= ChanCap
    BY <1>10 DEF HandlerClose, CloseChannel
  <2> QED
    BY <1>10, <2>1 DEF HandlerClose, CloseChannel, streamVars
<1> QED
  BY <1>1, <1>2, <1>3, <1>4, <1>5, <1>6, <1>7, <1>8, <1>9, <1>10 DEF Handler

LEMMA BrowserTypes ==
  ASSUME TypeOK, NEW c \in Clients, Browser(c)
  PROVE  TypeOK'
<1>1. UNCHANGED <<aggVars, out, view>>
  BY DEF Browser, Connect, Stall, Resume, Disconnect
<1>2. hpc' \in [Clients -> HandlerPC] /\ conn' \in [Clients -> ConnState]
  BY DEF TypeOK, HandlerPC, ConnState, Browser, Connect, Stall, Resume, Disconnect
<1> QED
  BY <1>1, <1>2 DEF TypeOK, AggTypeOK, aggVars, streamVars, subVars

\* Every variable keeps its type; in particular no channel ever holds more
\* snapshots than Subscribe's make gave it room for.
THEOREM TypeCorrect == Spec => []TypeOK
<1>1. Init => TypeOK
  <2> SUFFICES ASSUME Init PROVE TypeOK
    OBVIOUS
  <2>1. queue \in [Clients -> Seq(Snapshot)]
        /\ \A c \in Clients : Len(queue[c]) <= ChanCap
    BY AggregatorAssumption DEF Init, AggInit
  <2> QED
    BY <2>1, EmptySnapshotType, AggregatorAssumption
    DEF Init, AggInit, TypeOK, AggTypeOK, HandlerPC, ConnState, StreamPC, Version
<1>2. TypeOK /\ [Next]_vars => TypeOK'
  <2> SUFFICES ASSUME TypeOK, [Next]_vars PROVE TypeOK'
    OBVIOUS
  <2>1. ASSUME NEW n \in Nodes, GpuChange(n) /\ UNCHANGED feedVars PROVE TypeOK'
    BY <2>1, AggregatorAssumption
    DEF TypeOK, AggTypeOK, GpuChange, feedVars, subVars
  <2>2. ASSUME NEW s \in Streams, StreamStep(s) /\ UNCHANGED feedVars PROVE TypeOK'
    <3>1. AggPart'
      BY <2>2, StreamTypes DEF AggPart, TypeOK
    <3>2. FeedPart'
      BY <2>2 DEF FeedPart, TypeOK, feedVars
    <3> QED
      BY <3>1, <3>2 DEF TypeOK, AggPart, FeedPart
  <2>3. ASSUME NEW c \in Clients, Browser(c) \/ HandlerAnnounce(c) \/ Handler(c)
        PROVE  TypeOK'
    BY <2>3, BrowserTypes, HandlerTypes
  <2>4. CASE UNCHANGED vars
    BY <2>4 DEF TypeOK, AggTypeOK, vars, aggVars, streamVars, subVars, feedVars
  <2> QED
    BY <2>1, <2>2, <2>3, <2>4 DEF Next
<1> QED
  BY <1>1, <1>2, PTL DEF Spec
-----------------------------------------------------------------------------
(* Subscriptions.  SubMuProtocol and NoLeakedSubscription are inductive    *)
(* together; that no broadcast sends on a closed channel follows.          *)

SubscriptionInv == TypeOK /\ NoLeakedSubscription /\ SubMuProtocol

LEMMA SubscriptionInit == Init => NoLeakedSubscription /\ SubMuProtocol
BY AggregatorAssumption
DEF Init, AggInit, NoLeakedSubscription, SubMuProtocol, Registered

\* A stream changes todo, and only with the lock held for reading.
LEMMA StreamSubscription ==
  ASSUME SubscriptionInv, NEW s \in Streams, StreamStep(s), UNCHANGED feedVars
  PROVE  NoLeakedSubscription' /\ SubMuProtocol'
<1> USE DEF SubscriptionInv, TypeOK, AggTypeOK, NoLeakedSubscription,
            SubMuProtocol, feedVars
<1> DEFINE TodoDiscipline ==
             /\ \A r \in Streams : todo'[r] \subseteq subs
             /\ \A r \in Streams : todo'[r] # {} => spc'[r] = "sending"
             /\ UNCHANGED <<subs, writer, closed>>
<1>1. TodoDiscipline
  <2>1. ASSUME NEW v \in Version, Recv(s, v) PROVE TodoDiscipline
    BY <2>1 DEF Recv, subVars
  <2>2. CASE UpdateState(s)
    BY <2>2 DEF UpdateState
  <2>3. CASE TakeSnapshot(s)
    BY <2>3 DEF TakeSnapshot, subVars
  <2>4. CASE RLockSubs(s)
    BY <2>4 DEF RLockSubs, subVars
  <2>5. ASSUME NEW c \in Clients, Enqueue(s, c) \/ Drop(s, c) PROVE TodoDiscipline
    <3>1. Visit(s, c)
      BY <2>5 DEF Enqueue, Drop
    <3> QED
      BY <3>1 DEF Visit
  <2>6. CASE RUnlockSubs(s)
    BY <2>6 DEF RUnlockSubs, subVars
  <2> QED
    BY <2>1, <2>2, <2>3, <2>4, <2>5, <2>6 DEF StreamStep, HandleSnapshot
<1> QED
  BY <1>1

\* A handler changes subs and closed, and subs only while no stream iterates.
LEMMA HandlerSubscription ==
  ASSUME SubscriptionInv, NEW c \in Clients,
         Browser(c) \/ HandlerAnnounce(c) \/ Handler(c)
  PROVE  NoLeakedSubscription' /\ SubMuProtocol'
<1> USE AggregatorAssumption
    DEF SubscriptionInv, TypeOK, AggTypeOK, NoLeakedSubscription, SubMuProtocol,
        Registered, aggVars, streamVars, subVars
<1> DEFINE Quiet ==
             /\ UNCHANGED <<todo, spc, subs, writer, closed>>
             /\ \A d \in Clients :
                  \/ hpc'[d] = hpc[d]
                  \/ hpc[d] = "none" /\ hpc'[d] = "subscribe"
                  \/ hpc[d] \in Registered \ {"unsubscribe"} /\ hpc'[d] \in Registered
<1>1. Quiet => NoLeakedSubscription' /\ SubMuProtocol'
  <2> SUFFICES ASSUME Quiet PROVE NoLeakedSubscription' /\ SubMuProtocol'
    OBVIOUS
  <2>1. \A d \in Clients : hpc'[d] \in Registered <=> hpc[d] \in Registered
    OBVIOUS
  <2>2. SubMuProtocol'
    OBVIOUS
  <2> QED
    BY <2>1, <2>2
<1>2. CASE Browser(c)
  <2>1. Quiet
    BY <1>2 DEF Browser, Connect, Stall, Resume, Disconnect
  <2> QED
    BY <1>1, <2>1
<1>3. CASE HandlerAnnounce(c)
  BY <1>3 DEF HandlerAnnounce, AnnounceLock, feedVars
<1>4. CASE HandlerSubscribe(c)
  <2>1. \A s \in Streams : todo[s] = {}
    BY <1>4 DEF HandlerSubscribe, Subscribe, LockHeld
  <2> QED
    BY <1>4, <2>1 DEF HandlerSubscribe, Subscribe
<1>5. CASE \/ TakeInitial(c) \/ WriteOk(c) \/ WriteLost(c) \/ WriteError(c)
           \/ Forward(c) \/ PeerDone(c)
  <2>1. Quiet
    BY <1>5 DEF TakeInitial, WriteOk, WriteLost, WriteError, Forward, Receive,
                PeerDone
  <2> QED
    BY <1>1, <2>1
<1>6. CASE HandlerUnregister(c)
  <2>1. \A s \in Streams : todo[s] = {}
    BY <1>6 DEF HandlerUnregister, Unregister, LockHeld
  <2> QED
    BY <1>6, <2>1 DEF HandlerUnregister, Unregister
<1>7. CASE HandlerClose(c)
  BY <1>7 DEF HandlerClose, CloseChannel
<1> QED
  BY <1>2, <1>3, <1>4, <1>5, <1>6, <1>7 DEF Handler

\* No exit path of handleWebSocket leaks a subscription, and subMu is used as
\* SubMuProtocol says.
THEOREM SubscriptionsCorrect == Spec => [](NoLeakedSubscription /\ SubMuProtocol)
<1>1. Init => NoLeakedSubscription /\ SubMuProtocol
  BY SubscriptionInit
<1>2. SubscriptionInv /\ [Next]_vars => (NoLeakedSubscription /\ SubMuProtocol)'
  <2> SUFFICES ASSUME SubscriptionInv, [Next]_vars
               PROVE  NoLeakedSubscription' /\ SubMuProtocol'
    OBVIOUS
  <2>1. ASSUME NEW n \in Nodes, GpuChange(n) /\ UNCHANGED feedVars
        PROVE  NoLeakedSubscription' /\ SubMuProtocol'
    BY <2>1 DEF SubscriptionInv, NoLeakedSubscription, SubMuProtocol, GpuChange,
                feedVars, subVars
  <2>2. CASE UNCHANGED vars
    BY <2>2 DEF SubscriptionInv, NoLeakedSubscription, SubMuProtocol, vars,
                aggVars, streamVars, subVars, feedVars
  <2> QED
    BY <2>1, <2>2, StreamSubscription, HandlerSubscription DEF Next
<1> QED
  BY <1>1, <1>2, TypeCorrect, PTL DEF Spec, SubscriptionInv

\* A broadcast never sends on a channel that Unsubscribe has closed, so that
\* no timing of leaving clients makes the server panic.
THEOREM NeverSendsOnClosedChannel == Spec => []NoSendOnClosedChannel
<1>1. NoLeakedSubscription /\ SubMuProtocol => NoSendOnClosedChannel
  BY DEF NoLeakedSubscription, SubMuProtocol, NoSendOnClosedChannel, Registered
<1> QED
  BY <1>1, SubscriptionsCorrect, PTL

-----------------------------------------------------------------------------
(* No update is skipped.  NoUpdateSkipped is inductive once it is known    *)
(* that a handler in Registered has its channel in subs.                   *)

FeedInv == SubscriptionInv /\ NoUpdateSkipped

\* A step of a stream: a present entry that was offered or about to be still
\* is, and one that just changed is going to be broadcast by this stream.
LEMMA StreamSkipsNothing ==
  ASSUME FeedInv, NEW s \in Streams, StreamStep(s), UNCHANGED feedVars
  PROVE  NoUpdateSkipped'
<1> SUFFICES ASSUME NEW c \in Clients, hpc[c] \in Registered \ {"initial"},
                    NEW n \in Nodes
             PROVE  n \in offered'[c] \/ \E r \in Streams : WillOffer(r, n, c)'
  BY DEF NoUpdateSkipped, feedVars
<1> DEFINE Covered == n \in offered[c] \/ \E r \in Streams : WillOffer(r, n, c)
<1>0. Covered /\ c \in subs
  BY DEF FeedInv, SubscriptionInv, NoLeakedSubscription, NoUpdateSkipped
<1> USE AggregatorAssumption
    DEF FeedInv, SubscriptionInv, TypeOK, AggTypeOK, WillOffer, Covered
<1>1. ASSUME NEW v \in Version, Recv(s, v) PROVE Covered'
  BY <1>0, <1>1 DEF Recv, subVars
<1>2. CASE UpdateState(s)
  <2>1. CASE n = NodeOf[s]
    BY <1>0, <1>2, <2>1 DEF UpdateState
  <2>2. CASE n # NodeOf[s]
    BY <1>0, <1>2, <2>2 DEF UpdateState, Snapshot
  <2> QED
    BY <2>1, <2>2
<1>3. CASE TakeSnapshot(s)
  BY <1>0, <1>3 DEF TakeSnapshot, subVars
<1>4. CASE RLockSubs(s)
  BY <1>0, <1>4 DEF RLockSubs, subVars
<1>5. ASSUME NEW d \in Clients, Enqueue(s, d) \/ Drop(s, d) PROVE Covered'
  <2>1. Visit(s, d)
    BY <1>5 DEF Enqueue, Drop
  <2>2. \A r \in Streams \ {s} : WillOffer(r, n, c) => WillOffer(r, n, c)'
    BY <2>1 DEF Visit
  <2>3. n \in offered[c] => n \in offered'[c]
    BY <2>1 DEF Visit
  <2>4. WillOffer(s, n, c) => n \in offered'[c] \/ WillOffer(s, n, c)'
    BY <2>1 DEF Visit, CurrentIn
  <2> QED
    BY <1>0, <2>2, <2>3, <2>4
<1>6. CASE RUnlockSubs(s)
  BY <1>0, <1>6 DEF RUnlockSubs, subVars
<1> QED
  BY <1>1, <1>2, <1>3, <1>4, <1>5, <1>6 DEF StreamStep, HandleSnapshot

\* A step of a handler or a browser: only a handler's own subscription is
\* touched, and it counts from its initial snapshot on.
LEMMA HandlerSkipsNothing ==
  ASSUME FeedInv, NEW d \in Clients,
         Browser(d) \/ HandlerAnnounce(d) \/ Handler(d)
  PROVE  NoUpdateSkipped'
<1> USE DEF FeedInv, SubscriptionInv, TypeOK, AggTypeOK, Registered, aggVars,
            streamVars, subVars
<1> DEFINE Covers(c) == \/ /\ hpc[c] \in Registered \ {"initial"}
                          /\ offered'[c] = offered[c]
                       \/ offered'[c] = Nodes
           Frame == /\ UNCHANGED streamVars
                    /\ \A c \in Clients :
                         hpc'[c] \in Registered \ {"initial"} => Covers(c)
<1>1. Frame
  <2>1. CASE Browser(d)
    BY <2>1 DEF Browser, Connect, Stall, Resume, Disconnect
  <2>2. CASE HandlerAnnounce(d)
    BY <2>2 DEF HandlerAnnounce, AnnounceLock, feedVars
  <2>3. CASE HandlerSubscribe(d)
    BY <2>3 DEF HandlerSubscribe, Subscribe
  <2>4. CASE TakeInitial(d)
    <3>1. CurrentIn(nodeState) = Nodes
      BY DEF CurrentIn
    <3> QED
      BY <2>4, <3>1 DEF TakeInitial
  <2>5. CASE WriteOk(d) \/ WriteLost(d) \/ WriteError(d)
    BY <2>5 DEF WriteOk, WriteLost, WriteError
  <2>6. CASE Forward(d) \/ PeerDone(d)
    BY <2>6 DEF Forward, Receive, PeerDone
  <2>7. CASE HandlerUnregister(d)
    BY <2>7 DEF HandlerUnregister, Unregister
  <2>8. CASE HandlerClose(d)
    BY <2>8 DEF HandlerClose, CloseChannel
  <2> QED
    BY <2>1, <2>2, <2>3, <2>4, <2>5, <2>6, <2>7, <2>8 DEF Handler
<1>2. \A c \in Clients : \A n \in Nodes : \A s \in Streams :
        WillOffer(s, n, c) => WillOffer(s, n, c)'
  BY <1>1 DEF WillOffer
<1> QED
  BY <1>1, <1>2 DEF NoUpdateSkipped

\* Between the snapshot that a handler takes itself and the broadcasts it
\* forwards no update of any node is missed: it has been offered to the
\* client, or a broadcast under way is going to.
THEOREM NothingSkipped == Spec => []NoUpdateSkipped
<1>1. Init => NoUpdateSkipped
  BY DEF Init, NoUpdateSkipped, Registered
<1>2. FeedInv /\ [Next]_vars => NoUpdateSkipped'
  <2> SUFFICES ASSUME FeedInv, [Next]_vars PROVE NoUpdateSkipped'
    OBVIOUS
  <2>1. ASSUME NEW n \in Nodes, GpuChange(n) /\ UNCHANGED feedVars
        PROVE  NoUpdateSkipped'
    BY <2>1 DEF FeedInv, NoUpdateSkipped, WillOffer, GpuChange, feedVars, subVars
  <2>2. CASE UNCHANGED vars
    BY <2>2 DEF FeedInv, NoUpdateSkipped, WillOffer, vars, aggVars, streamVars,
                subVars, feedVars
  <2> QED
    BY <2>1, <2>2, StreamSkipsNothing, HandlerSkipsNothing DEF Next
<1> QED
  BY <1>1, <1>2, TypeCorrect, SubscriptionsCorrect, PTL
  DEF Spec, FeedInv, SubscriptionInv

-----------------------------------------------------------------------------
(* A client that has been sent everything is current, if one stream serves *)
(* it.  (With several the broadcasts overtake each other, and it may not   *)
(* be until the next one.)                                                 *)

\* A broadcast of s is still to come to client c.
Coming(s, c) == \/ spc[s] \in {"broadcast", "rlock"}
                \/ spc[s] = "sending" /\ c \in todo[s]

\* The last snapshot on its way to c, or shown by it, is the present one: in the
\* channel, being written, or written.
LastIsCurrent(c) ==
  IF queue[c] # <<>> THEN queue[c][Len(queue[c])] = nodeState
  ELSE /\ hpc[c] \in {"writeInitial", "write"} => out[c] = nodeState
       /\ hpc[c] = "select" => view[c] = nodeState

Reached(c) == /\ hpc[c] \in {"initial", "writeInitial", "select", "write"}
              /\ conn[c] \in {"up", "stalled"} /\ c \notin dropped

TipInv(s) ==
  /\ spc[s] \in {"rlock", "sending"} => bsnap[s] = nodeState
  /\ \A c \in Clients : Reached(c) /\ ~Coming(s, c) => LastIsCurrent(c)

LEMMA StreamTip ==
  ASSUME SubscriptionInv, NEW s \in Streams, TipInv(s), StreamStep(s), UNCHANGED feedVars
  PROVE  TipInv(s)'
<1> USE DEF SubscriptionInv, TypeOK, AggTypeOK, feedVars, TipInv, Reached, Coming
<1>1. ASSUME NEW v \in Version, Recv(s, v) PROVE TipInv(s)'
  BY <1>1 DEF Recv, subVars, LastIsCurrent
<1>2. CASE UpdateState(s)
  <2>1. spc'[s] = "broadcast"
    BY <1>2 DEF UpdateState
  <2>2. \A c \in Clients : Coming(s, c)'
    BY <2>1
  <2>3. spc'[s] \notin {"rlock", "sending"}
    BY <2>1
  <2>. HIDE DEF SubscriptionInv, TypeOK, AggTypeOK, Reached, Coming
  <2>. QED
    BY <2>2, <2>3
<1>3. CASE RLockSubs(s)
  BY <1>3 DEF RLockSubs, subVars, NoLeakedSubscription, Registered
<1>4. ASSUME NEW d \in Clients, Enqueue(s, d) \/ Drop(s, d) PROVE TipInv(s)'
  <2>1. Visit(s, d)
    BY <1>4 DEF Enqueue, Drop
  <2>2. bsnap[s] = nodeState /\ spc'[s] = "sending" /\ UNCHANGED <<nodeState, bsnap>>
    BY <2>1 DEF Visit
  <2>3. ASSUME NEW c \in Clients, Reached(c)', ~Coming(s, c)', c # d
        PROVE  LastIsCurrent(c)'
    <3>1. Reached(c) /\ ~Coming(s, c)
      BY <1>4, <2>1, <2>3 DEF Visit, Enqueue, Drop
    <3>2. LastIsCurrent(c) /\ queue'[c] = queue[c]
      BY <1>4, <2>3, <3>1 DEF Enqueue, Drop
    <3>. QED
      BY <2>2, <3>2 DEF LastIsCurrent
  <2>4. ASSUME Reached(d)' PROVE LastIsCurrent(d)'
    <3>1. Enqueue(s, d)
      BY <1>4, <2>4 DEF Drop
    <3>2. queue'[d] = Append(queue[d], nodeState) /\ queue[d] \in Seq(Snapshot)
      BY <2>2, <3>1 DEF Enqueue
    <3>3. queue'[d] # <<>> /\ queue'[d][Len(queue'[d])] = nodeState
      <4>1. nodeState \in Snapshot
        OBVIOUS
      <4>. HIDE DEF SubscriptionInv, TypeOK, AggTypeOK
      <4>2. LET q == Append(queue[d], nodeState)
            IN  q # <<>> /\ Len(q) = Len(queue[d]) + 1 /\ q[Len(queue[d]) + 1] = nodeState
        BY <3>2, <4>1, AppendProperties
      <4>. QED
        BY <3>2, <4>2
    <3>. QED
      BY <2>2, <3>3 DEF LastIsCurrent
  <2>. QED
    BY <2>2, <2>3, <2>4
<1>5. CASE RUnlockSubs(s)
  BY <1>5 DEF RUnlockSubs, subVars, LastIsCurrent
<1>6. CASE TakeSnapshot(s)
  <2>1. spc'[s] = "rlock" /\ bsnap'[s] = nodeState'
    BY <1>6 DEF TakeSnapshot, subVars
  <2>2. \A c \in Clients : Coming(s, c)'
    BY <2>1
  <2>. HIDE DEF SubscriptionInv, TypeOK, AggTypeOK, Reached, Coming
  <2>. QED
    BY <2>1, <2>2
<1> QED
  BY <1>1, <1>2, <1>3, <1>4, <1>5, <1>6 DEF StreamStep, HandleSnapshot

\* A sequence that nothing follows the head of has one element.
LEMMA LastOne ==
  ASSUME NEW S, NEW q \in Seq(S), q # <<>>, Tail(q) = <<>>
  PROVE  Len(q) = 1
<1>1. Len(q) \in Nat /\ Len(Tail(q)) = Len(q) - 1
  BY HeadTailProperties, LenProperties
<1>2. Len(<<>>) = 0
  OBVIOUS
<1>3. Len(Tail(q)) = 0
  BY <1>2
<1> QED
  BY <1>1, <1>3

LEMMA HandlerTip ==
  ASSUME SubscriptionInv, NEW s \in Streams, TipInv(s), NEW d \in Clients,
         Browser(d) \/ HandlerAnnounce(d) \/ Handler(d)
  PROVE  TipInv(s)'
<1> USE DEF SubscriptionInv, TypeOK, AggTypeOK
<1>1. UNCHANGED streamVars
  BY DEF Browser, Connect, Stall, Resume, Disconnect, HandlerAnnounce, AnnounceLock,
         Handler, HandlerSubscribe, Subscribe, TakeInitial, WriteOk, WriteLost, WriteError,
         Forward, Receive, PeerDone, HandlerUnregister, Unregister, HandlerClose,
         CloseChannel, aggVars
<1>2. ASSUME NEW c \in Clients, c # d PROVE Reached(c)' => Reached(c) /\ (LastIsCurrent(c) => LastIsCurrent(c)')
  <2>1. /\ hpc'[c] = hpc[c] /\ conn'[c] = conn[c] /\ out'[c] = out[c] /\ view'[c] = view[c]
        /\ queue'[c] = queue[c] /\ (c \in dropped' <=> c \in dropped)
    BY <1>2 DEF Browser, Connect, Stall, Resume, Disconnect, HandlerAnnounce, AnnounceLock,
         Handler, HandlerSubscribe, Subscribe, TakeInitial, WriteOk, WriteLost, WriteError,
         Forward, Receive, PeerDone, HandlerUnregister, Unregister, HandlerClose,
         CloseChannel, aggVars, subVars, feedVars
  <2>. QED
    BY <1>1, <2>1 DEF Reached, LastIsCurrent, streamVars
<1>3. ASSUME Reached(d)', Reached(d) => Coming(s, d) \/ LastIsCurrent(d)
      PROVE  Coming(s, d) \/ LastIsCurrent(d)'
  <2>. USE DEF Reached, LastIsCurrent
  <2>1. CASE Browser(d)
    BY <1>3, <2>1 DEF Browser, Connect, Stall, Resume, Disconnect, aggVars, streamVars, subVars
  <2>2. CASE HandlerAnnounce(d)
    BY <1>3, <2>2 DEF HandlerAnnounce, AnnounceLock, feedVars, streamVars
  <2>3. CASE HandlerSubscribe(d)
    BY <1>3, <2>3 DEF HandlerSubscribe, Subscribe, streamVars
  <2>4. CASE TakeInitial(d)
    BY <1>3, <2>4 DEF TakeInitial, streamVars
  <2>5. CASE WriteOk(d)
    BY <1>3, <2>5 DEF WriteOk, aggVars, streamVars, subVars
  <2>6. CASE Forward(d)
    <3>1. queue[d] \in Seq(Snapshot) /\ queue[d] # <<>>
      BY <2>6 DEF Forward, Receive
    <3>2. queue'[d] = Tail(queue[d]) /\ out'[d] = Head(queue[d]) /\ hpc'[d] = "write"
      BY <2>6 DEF Forward, Receive
    <3>3. UNCHANGED <<nodeState, dropped, conn>> /\ hpc[d] = "select"
      BY <2>6 DEF Forward, Receive, streamVars
    <3>4. Coming(s, d) \/ queue[d][Len(queue[d])] = nodeState
      BY <1>3, <3>1, <3>3
    <3>5. Tail(queue[d]) = <<>> => Head(queue[d]) = queue[d][Len(queue[d])]
      <4>. HIDE DEF SubscriptionInv, TypeOK, AggTypeOK
      <4>1. Tail(queue[d]) = <<>> => Len(queue[d]) = 1
        BY <3>1, LastOne
      <4>. QED
        BY <3>1, <4>1
    <3>6. Tail(queue[d]) # <<>> => Tail(queue[d])[Len(Tail(queue[d]))] = queue[d][Len(queue[d])]
      <4>1. Tail(queue[d]) \in Seq(Snapshot) /\ Len(Tail(queue[d])) = Len(queue[d]) - 1
        BY <3>1, HeadTailProperties
      <4>2. Tail(queue[d]) # <<>> => Len(Tail(queue[d])) \in 1 .. Len(Tail(queue[d]))
        BY <4>1, EmptySeq
      <4>. QED
        BY <3>1, <4>1, <4>2, HeadTailProperties, LenProperties
    <3>. QED
      BY <3>2, <3>3, <3>4, <3>5, <3>6
  <2>7. CASE WriteLost(d) \/ WriteError(d) \/ PeerDone(d) \/ HandlerUnregister(d) \/ HandlerClose(d)
    BY <1>3, <2>7 DEF WriteLost, WriteError, PeerDone, HandlerUnregister, HandlerClose
  <2>. QED
    BY <2>1, <2>2, <2>3, <2>4, <2>5, <2>6, <2>7 DEF Handler
<1>4. \A c : Coming(s, c)' <=> Coming(s, c)
  BY <1>1 DEF Coming, streamVars
<1> QED
  BY <1>1, <1>2, <1>3, <1>4 DEF TipInv, streamVars

\* With one agent, a client whose channel is drained, and for which nothing was
\* dropped last, shows what the aggregator has.
THEOREM DrainedCorrect ==
  ASSUME NEW s \in Streams, Streams = {s}
  PROVE  Spec => []DrainedClientIsCurrent
<1>1. Init => TipInv(s)
  BY DEF Init, AggInit, TipInv, Reached
<1>2. SubscriptionInv /\ TipInv(s) /\ [Next]_vars => TipInv(s)'
  <2> SUFFICES ASSUME SubscriptionInv, TipInv(s), [Next]_vars PROVE TipInv(s)'
    OBVIOUS
  <2>1. ASSUME NEW n \in Nodes, GpuChange(n) /\ UNCHANGED feedVars PROVE TipInv(s)'
    BY <2>1 DEF GpuChange, feedVars, subVars, TipInv, Reached, Coming, LastIsCurrent
  <2>2. CASE UNCHANGED vars
    BY <2>2 DEF vars, aggVars, streamVars, subVars, feedVars, TipInv, Reached, Coming,
                LastIsCurrent
  <2> QED
    BY <2>1, <2>2, StreamTip, HandlerTip DEF Next
<1>3. TipInv(s) => DrainedClientIsCurrent
  BY DEF TipInv, DrainedClientIsCurrent, Reached, Coming, LastIsCurrent
<1> QED
  BY <1>1, <1>2, <1>3, TypeCorrect, SubscriptionsCorrect, PTL DEF Spec, SubscriptionInv
=============================================================================
