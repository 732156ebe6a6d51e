----------------------- MODULE AgentConnectionsProofs -----------------------
(***************************************************************************)
(* What holds of the connections for any nodes, addresses and goroutines.  *)
(***************************************************************************)
EXTENDS AgentConnections, TLAPS

ConnInv == TypeOK /\ ConnectionsAreLive /\ NoOrphanConnection

LEMMA ConnInit == Init => ConnInv
BY AgentConnectionsAssumption
DEF Init, ConnInv, TypeOK, Keys, ConnectionsAreLive, NoOrphanConnection

\* A step of the watch changes conns in connectIfChanged only, where the
\* goroutine that conns forgets is cancelled.
LEMMA WatchConn ==
  ASSUME ConnInv, Watch
  PROVE  ConnInv'
<1> USE AgentConnectionsAssumption
    DEF ConnInv, TypeOK, ConnectionsAreLive, NoOrphanConnection
<1>1. CASE WatchStops \/ DiscoverDone
  BY <1>1 DEF WatchStops, DiscoverDone
<1>2. ASSUME NEW agents \in SUBSET Agent, Discovered(agents) PROVE ConnInv'
  BY <1>2 DEF Discovered
<1>3. Fallback \in SUBSET Agent
  BY DEF Fallback, Agent, Keys
<1>4. CASE UseNodeIPs
  <2>1. {[key |-> a, addr |-> a] : a \in nodeIPs} \in SUBSET Agent
    BY DEF Agent, Keys
  <2> QED
    BY <1>2, <1>4, <2>1 DEF UseNodeIPs
<1>5. CASE ListPods \/ ListFails
  <2> DEFINE pods == {n \in Nodes : podIP[n] # NoPod}
  <2>1. {[key |-> n, addr |-> podIP[n]] : n \in pods} \in SUBSET Agent
    BY DEF Agent, Keys
  <2> QED
    BY <1>2, <1>3, <1>5, <2>1 DEF ListPods, ListFails
<1>6. ASSUME NEW a \in found, KeepConnection(a) PROVE ConnInv'
  BY <1>6 DEF KeepConnection
<1>7. ASSUME NEW a \in found, NEW i \in Gos, StartConnection(a, i) PROVE ConnInv'
  <2>1. a.key \in Keys /\ a.addr \in Addrs \cup {LocalHost}
    BY DEF Agent
  <2>2. TypeOK'
    BY <1>7, <2>1 DEF StartConnection
  <2>3. GoKey[i] = a.key /\ conns[a.key] # i /\ gpc[i] = "exited"
    BY <1>7 DEF StartConnection, Free
  <2>4. /\ conns' = [conns EXCEPT ![a.key] = i]
        /\ gpc' = [gpc EXCEPT ![i] = "dial"]
        /\ cancelled' = (cancelled \cup ({conns[a.key]} \ {NoGo})) \ {i}
        /\ UNCHANGED stopped
    BY <1>7 DEF StartConnection
  <2>5. ConnectionsAreLive'
    <3> SUFFICES ASSUME NEW k \in Keys, conns'[k] # NoGo
                 PROVE  /\ GoKey[conns'[k]] = k
                        /\ conns'[k] \notin cancelled'
                        /\ gpc'[conns'[k]] = "exited" => stopped'
      OBVIOUS
    <3>1. CASE k = a.key
      BY <2>1, <2>3, <2>4, <3>1
    <3>2. CASE k # a.key
      <4>1. conns'[k] = conns[k] /\ GoKey[conns[k]] = k
        BY <2>1, <2>4, <3>2
      <4>2. conns[k] # i
        BY <2>3, <3>2, <4>1
      <4>3. conns[k] # conns[a.key]
        BY <2>1, <3>2, <4>1
      <4> QED
        BY <2>4, <4>1, <4>2, <4>3
    <3> QED
      BY <3>1, <3>2
  <2>6. NoOrphanConnection'
    <3> SUFFICES ASSUME NEW j \in Gos, gpc'[j] # "exited", j \notin cancelled'
                 PROVE  conns'[GoKey[j]] = j
      OBVIOUS
    <3>1. CASE j = i
      BY <2>1, <2>3, <2>4, <3>1
    <3>2. CASE j # i
      <4>1. conns[GoKey[j]] = j /\ j # conns[a.key]
        BY <2>4, <3>2
      <4> QED
        BY <2>4, <4>1
    <3> QED
      BY <3>1, <3>2
  <2> QED
    BY <2>2, <2>5, <2>6
<1> QED
  <2>1. ASSUME NEW a \in found, NEW i \in NewGo(a.key), StartConnection(a, i)
        PROVE  i \in Gos
    BY <2>1 DEF StartConnection, Free
  <2> QED
    BY <1>1, <1>4, <1>5, <1>6, <1>7, <2>1 DEF Watch

\* A step of a connection: the goroutine ends only if its context is done.
LEMMA ConnectionConn ==
  ASSUME ConnInv, NEW i \in Gos, Connection(i)
  PROVE  ConnInv'
<1> USE AgentConnectionsAssumption DEF ConnInv, TypeOK
<1>1. shown' \in [Nodes -> Addrs \cup {NoPod}]
  <2>1. CASE HandleSnapshot(i)
    BY <2>1 DEF HandleSnapshot, Goto
  <2> QED
    BY <2>1 DEF Connection, StreamOpens, StreamFails, RecvSnapshot, RecvFails,
                RecvEOF, BackoffEnds, BackoffCancelled
<1>2. PICK to \in {"exited", "dial", "recv", "handle", "backoff"} :
        /\ gpc[i] # "exited"
        /\ gpc' = [gpc EXCEPT ![i] = to]
        /\ to = "exited" => Done(i)
  BY DEF Connection, StreamOpens, StreamFails, RecvSnapshot, HandleSnapshot,
         RecvFails, RecvEOF, BackoffEnds, BackoffCancelled, AfterError, Goto
<1>3. UNCHANGED <<nodeIPs, podIP, stopped, watchVars>>
  BY DEF Connection, StreamOpens, StreamFails, RecvSnapshot, HandleSnapshot,
         RecvFails, RecvEOF, BackoffEnds, BackoffCancelled, Goto
<1>4. TypeOK'
  <2>1. \A j \in Gos : gpc'[j] \in {"recv", "handle"} => addr[j] \in Addrs
    <3>1. CASE StreamOpens(i)
      BY <1>2, <3>1 DEF StreamOpens, Serving
    <3>2. CASE ~StreamOpens(i)
      <4>1. gpc'[i] \in {"recv", "handle"} => gpc[i] \in {"recv", "handle"}
        BY <3>2 DEF Connection, StreamFails, RecvSnapshot, HandleSnapshot,
           RecvFails, RecvEOF, BackoffEnds, BackoffCancelled, AfterError, Goto
      <4> QED
        BY <1>2, <4>1
    <3> QED
      BY <3>1, <3>2
  <2> QED
    BY <1>1, <1>2, <1>3, <2>1 DEF watchVars
<1>5. ConnectionsAreLive'
  BY <1>2, <1>3 DEF watchVars, ConnectionsAreLive, Done
<1>6. NoOrphanConnection'
  BY <1>2, <1>3 DEF watchVars, NoOrphanConnection
<1> QED
  BY <1>4, <1>5, <1>6

LEMMA ClusterConn ==
  ASSUME ConnInv, Cluster
  PROVE  ConnInv'
<1>1. TypeOK'
  BY DEF ConnInv, TypeOK, Cluster, PodStarts, PodStops, Shutdown, watchVars
<1>2. UNCHANGED <<conns, cancelled, gpc>> /\ (stopped => stopped')
  BY DEF Cluster, PodStarts, PodStops, Shutdown, watchVars
<1> QED
  BY <1>1, <1>2 DEF ConnInv, ConnectionsAreLive, NoOrphanConnection

\* Discovery and the connections always agree: the goroutine that conns has
\* for a key is at work until the server is stopped, and any other is
\* cancelled.
THEOREM ConnectionsCorrect == Spec => [](TypeOK /\ ConnectionsAreLive /\ NoOrphanConnection)
<1>1. ConnInv /\ [Next]_vars => ConnInv'
  <2> SUFFICES ASSUME ConnInv, [Next]_vars PROVE ConnInv'
    OBVIOUS
  <2>1. CASE UNCHANGED vars
    BY <2>1 DEF ConnInv, TypeOK, ConnectionsAreLive, NoOrphanConnection, vars,
                watchVars
  <2> QED
    BY <2>1, ClusterConn, WatchConn, ConnectionConn DEF Next
<1> QED
  BY <1>1, ConnInit, PTL DEF Spec, ConnInv

\* The variables of discovery and the connections have their types, and each key
\* has a goroutine of its own key or none.
THEOREM TypeCorrect == Spec => []TypeOK
BY ConnectionsCorrect, PTL

\* A goroutine that conns names for a key was not cancelled and has not returned,
\* so that discovery never leaves a node to a connection that is dead.
THEOREM LiveConnections == Spec => []ConnectionsAreLive
BY ConnectionsCorrect, PTL

\* A goroutine that conns no longer names was cancelled or has returned: none
\* streams on with nobody to stop it.
THEOREM NoOrphans == Spec => []NoOrphanConnection
BY ConnectionsCorrect, PTL
=============================================================================
