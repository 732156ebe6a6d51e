-------------------------- MODULE AgentConnections --------------------------
(***************************************************************************)
(* How the server finds its agents and stays connected to them:            *)
(* watchAgentPods, discoverAndConnect, connectIfChanged and the goroutine  *)
(* that ConnectAgent starts for each connection.                           *)
(*                                                                         *)
(* Every ten seconds, one goroutine lists the agent pods and compares each *)
(* pod's address with the connection it has for the pod's node.  When the  *)
(* address is new, it cancels the old connection's context and starts a    *)
(* goroutine with a context of its own, without waiting for the old one.   *)
(* A connection goroutine loops until its context is cancelled: open a     *)
(* stream, handle snapshots until the stream fails, wait five seconds.     *)
(*                                                                         *)
(* handleSnapshot is reduced to what matters here, which pod the node's    *)
(* entry of nodeState comes from; module Aggregator has the rest.  An      *)
(* address is a pod's; the pod names its node in every snapshot it sends.  *)
(***************************************************************************)
EXTENDS Naturals

CONSTANTS
  Nodes,      \* the nodes that may run an agent pod
  Addrs,      \* the addresses an agent pod may get
  AddrNode,   \* the node whose pods get an address
  LocalHost,  \* 127.0.0.1: no agent listens there
  NodeIPLists,  \* what NODE_IPS may list, {} if it is not set
  NoPod,      \* the node runs no agent pod
  Gos,        \* bound: connection goroutines that exist at one time
  GoKey,      \* the key of conns that a goroutine is started for
  NoGo        \* conns has no entry

ASSUME AgentConnectionsAssumption ==
  /\ AddrNode \in [Addrs -> Nodes]
  /\ LocalHost \notin Nodes \cup Addrs
  /\ \A ips \in NodeIPLists : ips \subseteq Addrs
  /\ NoPod \notin Addrs \cup {LocalHost}
  /\ NoGo \notin Gos
  /\ GoKey \in [Gos -> Nodes \cup (UNION NodeIPLists) \cup {LocalHost}]

VARIABLES
  nodeIPs,    \* the server's NODE_IPS; it never changes
  podIP,      \* podIP[n]: the address of node n's running agent pod
  stopped,    \* the server's context is done
  watching,   \* where watchAgentPods is
  found,      \* the agents that discoverAndConnect has still to look at
  conns,      \* conns[k]: the goroutine of the present connection for key k
  cancelled,  \* goroutines whose own context was cancelled
  gpc,        \* gpc[i]: where goroutine i is
  addr,       \* addr[i]: the addr argument of ConnectAgent
  shown       \* shown[n]: the pod that nodeState's entry for node n is from

watchVars == <<watching, found, conns, cancelled, addr>>
vars == <<nodeIPs, podIP, stopped, watchVars, gpc, shown>>

-----------------------------------------------------------------------------
\* conns is keyed by node name, by address under NODE_IPS, or by localhost.
Keys == Nodes \cup (UNION NodeIPLists) \cup {LocalHost}
Agent == [key : Keys, addr : Addrs \cup {LocalHost}]

TypeOK ==
  /\ nodeIPs \in NodeIPLists
  /\ podIP \in [Nodes -> Addrs \cup {NoPod}]
  /\ stopped \in BOOLEAN
  /\ watching \in {"start", "wait", "connect", "done"}
  /\ found \in SUBSET Agent
  /\ conns \in [Keys -> Gos \cup {NoGo}]
  /\ cancelled \in SUBSET Gos
  /\ gpc \in [Gos -> {"exited", "dial", "recv", "handle", "backoff"}]
  /\ addr \in [Gos -> Addrs \cup {LocalHost}]
  /\ \A i \in Gos : gpc[i] \in {"recv", "handle"} => addr[i] \in Addrs
  /\ shown \in [Nodes -> Addrs \cup {NoPod}]

Init ==
  /\ nodeIPs \in NodeIPLists
  /\ podIP = [n \in Nodes |-> NoPod]
  /\ stopped = FALSE
  /\ watching = "start"
  /\ found = {}
  /\ conns = [k \in Keys |-> NoGo]
  /\ cancelled = {}
  /\ gpc = [i \in Gos |-> "exited"]
  /\ addr = [i \in Gos |-> LocalHost]
  /\ shown = [n \in Nodes |-> NoPod]

-----------------------------------------------------------------------------
(* The cluster, and the signal that stops the server.                      *)

PodStarts(n, a) ==
  /\ podIP[n] = NoPod
  /\ AddrNode[a] = n
  /\ podIP' = [podIP EXCEPT ![n] = a]
  /\ UNCHANGED <<nodeIPs, stopped, watchVars, gpc, shown>>

PodStops(n) ==
  /\ podIP[n] # NoPod
  /\ podIP' = [podIP EXCEPT ![n] = NoPod]
  /\ UNCHANGED <<nodeIPs, stopped, watchVars, gpc, shown>>

Serving(a) == \E n \in Nodes : podIP[n] = a

Shutdown ==
  /\ ~stopped
  /\ stopped' = TRUE
  /\ UNCHANGED <<nodeIPs, podIP, watchVars, gpc, shown>>

-----------------------------------------------------------------------------
(* watchAgentPods and discoverAndConnect.                                  *)

\* Either case of the select may be taken when the ticker has fired, too.
WatchStops ==
  /\ watching = "wait"
  /\ stopped
  /\ watching' = "done"
  /\ UNCHANGED <<nodeIPs, podIP, stopped, found, conns, cancelled, gpc, addr,
                 shown>>

\* Once at the start, then at every tick.
Discovered(agents) ==
  /\ watching \in {"start", "wait"}
  /\ watching' = "connect"
  /\ found' = agents
  /\ UNCHANGED <<nodeIPs, podIP, stopped, conns, cancelled, gpc, addr, shown>>

Fallback == {[key |-> LocalHost, addr |-> LocalHost]}

\* The explicit list of NODE_IPS.
UseNodeIPs ==
  /\ nodeIPs # {}
  /\ Discovered({[key |-> a, addr |-> a] : a \in nodeIPs})

\* ListAgentPodIPs: all running agent pods, as they are now; localhost if
\* there is none.
ListPods ==
  LET pods == {n \in Nodes : podIP[n] # NoPod}
  IN  /\ nodeIPs = {}
      /\ ~stopped
      /\ Discovered(IF pods = {} THEN Fallback
                    ELSE {[key |-> n, addr |-> podIP[n]] : n \in pods})

\* It fails, or there is no client: localhost, too.
ListFails ==
  /\ nodeIPs = {}
  /\ Discovered(Fallback)

\* Faulty KeepConnection: the address is not compared.
KeepAnyConnection(a) ==
  /\ watching = "connect"
  /\ a \in found
  /\ conns[a.key] # NoGo
  /\ found' = found \ {a}
  /\ UNCHANGED <<nodeIPs, podIP, stopped, watching, conns, cancelled, gpc, addr,
                 shown>>

\* connectIfChanged, same address: already connected, nothing to do.
KeepConnection(a) ==
  /\ watching = "connect"
  /\ a \in found
  /\ conns[a.key] # NoGo
  /\ addr[conns[a.key]] = a.addr
  /\ found' = found \ {a}
  /\ UNCHANGED <<nodeIPs, podIP, stopped, watching, conns, cancelled, gpc, addr,
                 shown>>

\* Names for a new goroutine: a name is used again when its goroutine is gone.
Free(k) == {i \in Gos : GoKey[i] = k /\ gpc[i] = "exited" /\ conns[k] # i}
NewGo(k) == IF Free(k) = {} THEN {} ELSE {CHOOSE i \in Free(k) : TRUE}

\* Faulty StartConnection: the old goroutine is not cancelled.
StartWithoutCancel(a, i) ==
  /\ watching = "connect"
  /\ a \in found
  /\ conns[a.key] # NoGo => addr[conns[a.key]] # a.addr
  /\ i \in Free(a.key)
  /\ cancelled' = cancelled \ {i}
  /\ conns' = [conns EXCEPT ![a.key] = i]
  /\ gpc' = [gpc EXCEPT ![i] = "dial"]
  /\ addr' = [addr EXCEPT ![i] = a.addr]
  /\ found' = found \ {a}
  /\ UNCHANGED <<nodeIPs, podIP, stopped, watching, shown>>

\* connectIfChanged, no connection or another address: the old goroutine is
\* cancelled and a new one, i, started.
StartConnection(a, i) ==
  /\ watching = "connect"
  /\ a \in found
  /\ conns[a.key] # NoGo => addr[conns[a.key]] # a.addr
  /\ i \in Free(a.key)
  /\ cancelled' = (cancelled \cup ({conns[a.key]} \ {NoGo})) \ {i}
  /\ conns' = [conns EXCEPT ![a.key] = i]
  /\ gpc' = [gpc EXCEPT ![i] = "dial"]
  /\ addr' = [addr EXCEPT ![i] = a.addr]
  /\ found' = found \ {a}
  /\ UNCHANGED <<nodeIPs, podIP, stopped, watching, shown>>

DiscoverDone ==
  /\ watching = "connect"
  /\ found = {}
  /\ watching' = "wait"
  /\ UNCHANGED <<nodeIPs, podIP, stopped, found, conns, cancelled, gpc, addr,
                 shown>>

Watch ==
  \/ WatchStops
  \/ UseNodeIPs
  \/ ListPods
  \/ ListFails
  \/ \E a \in found : KeepConnection(a) \/ \E i \in NewGo(a.key) : StartConnection(a, i)
  \/ DiscoverDone

-----------------------------------------------------------------------------
(* ConnectAgent and stream.                                                *)

\* ctx.Err() # nil: nodeCtx is derived from the server's context.
Done(i) == i \in cancelled \/ stopped

Goto(i, from, to) ==
  /\ gpc[i] = from
  /\ gpc' = [gpc EXCEPT ![i] = to]
  /\ UNCHANGED <<nodeIPs, podIP, stopped, watchVars>>

\* Faulty StreamOpens: a stream counts as open before there is a connection.
StreamOpensLazily(i) ==
  /\ Goto(i, "dial", "recv")
  /\ ~Done(i)
  /\ UNCHANGED shown

\* StreamMetrics succeeds if there is an agent at the address.  With a context
\* that is done the goroutine does not get here, or StreamMetrics fails.
StreamOpens(i) ==
  /\ Goto(i, "dial", "recv")
  /\ Serving(addr[i])
  /\ ~Done(i)
  /\ UNCHANGED shown

\* Faulty AfterError: the goroutine ends at the first error, or never looks at
\* its context.
GiveUp(i) == "exited"
RetryAlways(i) == "backoff"

\* stream returns an error: the goroutine ends if the context is done, and
\* waits otherwise.
AfterError(i) == IF Done(i) THEN "exited" ELSE "backoff"

StreamFails(i) ==
  /\ Goto(i, "dial", AfterError(i))
  /\ UNCHANGED shown

\* Recv returns a snapshot.  One that has already arrived may still be
\* returned when the context is done or the pod is gone.
RecvSnapshot(i) ==
  /\ Goto(i, "recv", "handle")
  /\ UNCHANGED shown

\* handleSnapshot replaces the node's entry, whatever the context says.
HandleSnapshot(i) ==
  /\ Goto(i, "handle", "recv")
  /\ shown' = [shown EXCEPT ![AddrNode[addr[i]]] = addr[i]]

\* Recv fails: the context is done, the pod is gone or the connection broke.
RecvFails(i) ==
  /\ Goto(i, "recv", AfterError(i))
  /\ UNCHANGED shown

\* Recv returns io.EOF, and stream nil: the loop goes on without a delay.
RecvEOF(i) ==
  /\ Goto(i, "recv", "dial")
  /\ UNCHANGED shown

\* time.After(5s).
BackoffEnds(i) ==
  /\ Goto(i, "backoff", "dial")
  /\ UNCHANGED shown

BackoffCancelled(i) ==
  /\ Goto(i, "backoff", "exited")
  /\ Done(i)
  /\ UNCHANGED shown

Connection(i) ==
  \/ StreamOpens(i) \/ StreamFails(i)
  \/ RecvSnapshot(i) \/ HandleSnapshot(i) \/ RecvFails(i) \/ RecvEOF(i)
  \/ BackoffEnds(i) \/ BackoffCancelled(i)

-----------------------------------------------------------------------------
Cluster ==
  \/ \E n \in Nodes : PodStops(n) \/ \E a \in Addrs : PodStarts(n, a)
  \/ Shutdown

Next ==
  \/ Cluster
  \/ Watch
  \/ \E i \in Gos : Connection(i)

Spec == Init /\ [][Next]_vars

(***************************************************************************)
(* Fairness.  Goroutines are scheduled and timers fire: the watch and each *)
(* connection go on, except that Recv may wait for ever.  The Kubernetes   *)
(* API does not fail for ever, and neither do the attempts to open a       *)
(* stream to an agent that is serving and to receive from it, which are    *)
(* repeated every five seconds.  Once the context is done, gRPC fails Recv *)
(* when the snapshots that had arrived are used up.                        *)
(***************************************************************************)
Remote == {i \in Gos : GoKey[i] # LocalHost}
Busy(i) == gpc[i] \notin {"recv", "exited"} /\ Connection(i)

Fairness ==
  /\ WF_vars(Watch)
  /\ SF_vars(ListPods)
  /\ \A i \in Gos : WF_vars(Busy(i))
  /\ \A i \in Remote :
       /\ SF_vars(StreamOpens(i))
       /\ SF_vars(Serving(addr[i]) /\ RecvSnapshot(i))
       /\ SF_vars(Done(i) /\ RecvFails(i))

FairSpec == Spec /\ Fairness

-----------------------------------------------------------------------------
(* Properties.                                                             *)

\* A key of conns has a goroutine that is at work for it and was not
\* cancelled.  Nothing else would reconnect the node: discovery leaves it
\* alone as long as its address stays the same.
ConnectionsAreLive ==
  \A k \in Keys : conns[k] # NoGo =>
    /\ GoKey[conns[k]] = k
    /\ conns[k] \notin cancelled
    /\ gpc[conns[k]] = "exited" => stopped

\* A goroutine that conns does not know any more has been cancelled: none
\* goes on for ever beside the one that replaced it.
NoOrphanConnection ==
  \A i \in Gos : gpc[i] # "exited" /\ i \notin cancelled => conns[GoKey[i]] = i

\* A goroutine whose connection was replaced ends, and so do all of them when
\* the server is stopped.
DoneEnds == \A i \in Gos : Done(i) ~> gpc[i] = "exited"

\* When a node's agent stays at an address that the server may learn, its data
\* end up being what the server shows, however often the pod moved, whatever
\* failed before, and whatever goroutines of its former addresses still do.
FollowsThePod ==
  \A n \in Nodes : \A a \in Addrs :
    <>[](podIP[n] = a /\ (nodeIPs = {} \/ a \in nodeIPs) /\ ~stopped)
      => <>[](shown[n] = a)
=============================================================================
