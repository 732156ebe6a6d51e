---------------------------- MODULE WebSocketFeed ----------------------------
(***************************************************************************)
(* The live feed: one handleWebSocket goroutine per connected browser,     *)
(* composed with the aggregator it subscribes to.                          *)
(*                                                                         *)
(* A handler registers a channel, writes one full snapshot that it takes   *)
(* itself, then forwards what broadcasts put into the channel until the    *)
(* read pump reports that the peer is gone or a write fails.  There is no  *)
(* write deadline: a write to a peer that stopped reading just blocks.     *)
(***************************************************************************)
EXTENDS Aggregator

VARIABLES
  hpc,    \* hpc[c]: where the handler of client c is
  conn,   \* conn[c]: the client's end of the connection
  out,    \* out[c]: the snapshot the handler is writing
  view    \* view[c]: the last snapshot written to the connection

feedVars == <<hpc, conn, out, view>>
vars == <<aggVars, feedVars>>

HandlerPC == {"none", "subscribe", "initial", "writeInitial", "select",
              "write", "unsubscribe", "close"}
ConnState == {"down", "up", "stalled", "gone"}

\* The handler's channel is in subs exactly while it is in one of these.
Registered == {"initial", "writeInitial", "select", "write", "unsubscribe"}

TypeOK ==
  /\ AggTypeOK
  /\ \A c \in Clients : Len(queue[c]) <= ChanCap
  /\ hpc \in [Clients -> HandlerPC]
  /\ conn \in [Clients -> ConnState]
  /\ out \in [Clients -> Snapshot]
  /\ view \in [Clients -> Snapshot]

Init ==
  /\ AggInit
  /\ hpc = [c \in Clients |-> "none"]
  /\ conn = [c \in Clients |-> "down"]
  /\ out = [c \in Clients |-> EmptySnapshot]
  /\ view = [c \in Clients |-> EmptySnapshot]

-----------------------------------------------------------------------------
(* The browsers.                                                           *)

\* A browser connects and the upgrade succeeds.
Connect(c) ==
  /\ hpc[c] = "none"
  /\ conn' = [conn EXCEPT ![c] = "up"]
  /\ hpc' = [hpc EXCEPT ![c] = "subscribe"]
  /\ UNCHANGED <<aggVars, out, view>>

\* It stops reading, so that the connection's buffers fill up.
Stall(c) ==
  /\ conn[c] = "up"
  /\ conn' = [conn EXCEPT ![c] = "stalled"]
  /\ UNCHANGED <<aggVars, hpc, out, view>>

Resume(c) ==
  /\ conn[c] = "stalled"
  /\ conn' = [conn EXCEPT ![c] = "up"]
  /\ UNCHANGED <<aggVars, hpc, out, view>>

\* It closes the connection, or the network does.
Disconnect(c) ==
  /\ conn[c] \in {"up", "stalled"}
  /\ conn' = [conn EXCEPT ![c] = "gone"]
  /\ UNCHANGED <<aggVars, hpc, out, view>>

-----------------------------------------------------------------------------
(* handleWebSocket.                                                        *)

\* The calls of subMu.Lock in Subscribe and in Unsubscribe.
HandlerAnnounce(c) ==
  /\ hpc[c] \in {"subscribe", "unsubscribe"}
  /\ AnnounceLock(c)
  /\ UNCHANGED feedVars

\* Faulty HandlerSubscribe: no snapshot is sent on connect.
HandlerSubscribeOnly(c) ==
  /\ hpc[c] = "subscribe"
  /\ Subscribe(c)
  /\ hpc' = [hpc EXCEPT ![c] = "select"]
  /\ UNCHANGED <<conn, out, view>>

HandlerSubscribe(c) ==
  /\ hpc[c] = "subscribe"
  /\ Subscribe(c)
  /\ hpc' = [hpc EXCEPT ![c] = "initial"]
  /\ UNCHANGED <<conn, out, view>>

\* s.agg.CurrentSnapshot(): the full state, copied after the channel was
\* registered.
TakeInitial(c) ==
  /\ hpc[c] = "initial"
  /\ out' = [out EXCEPT ![c] = nodeState]
  /\ offered' = [offered EXCEPT ![c] = CurrentIn(nodeState)]
  /\ hpc' = [hpc EXCEPT ![c] = "writeInitial"]
  /\ UNCHANGED <<streamVars, subs, writer, queue, closed, dropped, conn, view>>

\* sendJSON returns nil: the peer is reading.
WriteOk(c) ==
  /\ hpc[c] \in {"writeInitial", "write"}
  /\ conn[c] = "up"
  /\ view' = [view EXCEPT ![c] = out[c]]
  /\ out' = [out EXCEPT ![c] = EmptySnapshot]
  /\ hpc' = [hpc EXCEPT ![c] = "select"]
  /\ UNCHANGED <<aggVars, conn>>

\* sendJSON returns nil though the peer has gone: only buffered.
WriteLost(c) ==
  /\ hpc[c] \in {"writeInitial", "write"}
  /\ conn[c] = "gone"
  /\ out' = [out EXCEPT ![c] = EmptySnapshot]
  /\ hpc' = [hpc EXCEPT ![c] = "select"]
  /\ UNCHANGED <<aggVars, conn, view>>

\* Faulty WriteError: the handler returns without Unsubscribe.
WriteErrorReturns(c) ==
  /\ hpc[c] \in {"writeInitial", "write"}
  /\ conn[c] = "gone"
  /\ out' = [out EXCEPT ![c] = EmptySnapshot]
  /\ hpc' = [hpc EXCEPT ![c] = "none"]
  /\ UNCHANGED <<aggVars, conn, view>>

\* sendJSON fails: the handler returns, and Unsubscribe is deferred.  A snapshot
\* that json.Marshal refuses, with a metric that is no number, is left out.
WriteError(c) ==
  /\ hpc[c] \in {"writeInitial", "write"}
  /\ conn[c] = "gone"
  /\ out' = [out EXCEPT ![c] = EmptySnapshot]
  /\ hpc' = [hpc EXCEPT ![c] = "unsubscribe"]
  /\ UNCHANGED <<aggVars, conn, view>>

\* select, case <-sub.
Forward(c) ==
  /\ hpc[c] = "select"
  /\ Receive(c)
  /\ out' = [out EXCEPT ![c] = Head(queue[c])]
  /\ hpc' = [hpc EXCEPT ![c] = "write"]
  /\ UNCHANGED <<conn, view>>

\* Faulty PeerDone: there is no read pump.
PeerNeverDone(c) == FALSE

\* select, case <-done: the read pump's ReadMessage failed and it closed done.
\* Either case may be taken when both are ready.
PeerDone(c) ==
  /\ hpc[c] = "select"
  /\ conn[c] = "gone"
  /\ hpc' = [hpc EXCEPT ![c] = "unsubscribe"]
  /\ UNCHANGED <<aggVars, conn, out, view>>

HandlerUnregister(c) ==
  /\ hpc[c] = "unsubscribe"
  /\ Unregister(c)
  /\ hpc' = [hpc EXCEPT ![c] = "close"]
  /\ UNCHANGED <<conn, out, view>>

\* close(ch), then the deferred conn.Close; the goroutine ends.
HandlerClose(c) ==
  /\ hpc[c] = "close"
  /\ CloseChannel(c)
  /\ hpc' = [hpc EXCEPT ![c] = "none"]
  /\ conn' = [conn EXCEPT ![c] = "down"]
  /\ view' = [view EXCEPT ![c] = EmptySnapshot]
  /\ UNCHANGED out

-----------------------------------------------------------------------------
Handler(c) ==
  \/ HandlerSubscribe(c)
  \/ TakeInitial(c)
  \/ WriteOk(c)
  \/ WriteLost(c)
  \/ WriteError(c)
  \/ Forward(c)
  \/ PeerDone(c)
  \/ HandlerUnregister(c)
  \/ HandlerClose(c)

Browser(c) == Connect(c) \/ Stall(c) \/ Resume(c) \/ Disconnect(c)

Next ==
  \/ \E n \in Nodes : GpuChange(n) /\ UNCHANGED feedVars
  \/ \E s \in Streams : StreamStep(s) /\ UNCHANGED feedVars
  \/ \E c \in Clients : Browser(c) \/ HandlerAnnounce(c) \/ Handler(c)

Spec == Init /\ [][Next]_vars

(***************************************************************************)
(* Fairness.  Goroutines are scheduled: a stream finishes the snapshot it  *)
(* is handling and a handler goes on, except that a write is never forced  *)
(* while the peer does not read.  The agents' tickers keep snapshots       *)
(* coming, so a stream that is again and again ready to receive at last    *)
(* receives one with the present metrics (strong fairness).  Nobody who    *)
(* waits for subMu is starved: RWMutex.Unlock lets in the readers that     *)
(* waited before the next writer, and the sync.Mutex that orders writers   *)
(* hands over to a waiter after 1 ms (strong fairness).  When the peer is gone *)
(* the read pump notices, so the handler cannot take the other case of its *)
(* select for ever (strong fairness).  Nothing is assumed of browsers or   *)
(* of the metrics.                                                         *)
(***************************************************************************)
Fairness ==
  /\ \A s \in Streams :
       /\ SF_vars(Recv(s, metrics[NodeOf[s]]) /\ UNCHANGED feedVars)
       /\ SF_vars(RLockSubs(s) /\ UNCHANGED feedVars)
       /\ WF_vars(HandleSnapshot(s) /\ UNCHANGED feedVars)
  /\ \A c \in Clients :
       /\ WF_vars(Handler(c))
       /\ SF_vars(HandlerAnnounce(c))
       /\ SF_vars(PeerDone(c))

FairSpec == Spec /\ Fairness

-----------------------------------------------------------------------------
(* Safety.                                                                 *)

\* A broadcast never sends on a closed channel, which would panic and take
\* the server down: a channel is closed only after it left subs, and subs
\* cannot change while any broadcast is iterating over it.
NoSendOnClosedChannel == \A s \in Streams : todo[s] \cap closed = {}

\* A channel is registered exactly as long as a handler is there to drain
\* and unregister it: no exit path of handleWebSocket leaks a subscription.
NoLeakedSubscription == subs = {c \in Clients : hpc[c] \in Registered}

\* How subMu is used: a stream has channels left to visit only while it holds
\* the lock for reading, and then they are all still registered; the handler
\* that waits for the lock is in Subscribe or Unsubscribe; and a channel stays
\* closed only after its handler has unregistered it.
SubMuProtocol ==
  /\ \A s \in Streams : /\ todo[s] \subseteq subs
                        /\ todo[s] # {} => spc[s] = "sending"
  /\ writer # NoClient => hpc[writer] \in {"subscribe", "unsubscribe"}
  /\ \A c \in closed : hpc[c] \in {"none", "subscribe"}

\* Stream s is still going to offer the present entry of node n to client c.
WillOffer(s, n, c) ==
  \/ spc[s] = "broadcast"
  \/ spc[s] = "rlock" /\ bsnap[s][n] = nodeState[n]
  \/ spc[s] = "sending" /\ c \in todo[s] /\ bsnap[s][n] = nodeState[n]

\* No client misses an update between its first snapshot and the broadcasts:
\* once a handler has taken its initial snapshot, the present state of every
\* node has been offered to it, or some broadcast is on its way to do so.
NoUpdateSkipped ==
  \A c \in Clients : hpc[c] \in Registered \ {"initial"} =>
    \A n \in Nodes : n \in offered[c] \/ \E s \in Streams : WillOffer(s, n, c)

\* When no stream is at work and the client has been sent all that its
\* channel held, none of it dropped last, it shows the aggregator's state.
DrainedClientIsCurrent ==
  \A c \in Clients :
    (/\ \A s \in Streams : spc[s] = "recv"
     /\ hpc[c] = "select" /\ conn[c] = "up"
     /\ queue[c] = <<>> /\ c \notin dropped)
    => view[c] = nodeState

-----------------------------------------------------------------------------
(* Liveness.                                                               *)

\* No subscriber, slow, stalled or vanished, holds up an agent's stream:
\* every received snapshot is handled to the end.
StreamsNeverBlock ==
  \A s \in Streams : spc[s] # "recv" ~> spc[s] = "recv"

\* A client that left is unregistered, even if it was stalled in a write.
GoneClientIsUnregistered ==
  \A c \in Clients : conn[c] = "gone" ~> c \notin subs

\* A client that stays connected and keeps reading ends up showing what the
\* GPUs of all nodes last reported, whatever was dropped or overtaken before.
ConnectedClientConverges ==
  \A c \in Clients : <>[](conn[c] = "up") => <>[](view[c] = metrics)
=============================================================================
