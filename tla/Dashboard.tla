------------------------------ MODULE Dashboard ------------------------------
(***************************************************************************)
(* The dashboard page: its WebSocket and the reconnection, the grid of     *)
(* cards with its filters, and the history panel.                          *)
(*                                                                         *)
(* JavaScript runs one event handler at a time, so each handler is one     *)
(* action; what lies between them (the socket's events, the timer, the     *)
(* answers of fetch) comes in any order.  A snapshot says which nodes      *)
(* there are and has an object for each GPU; the pod stands for all that a *)
(* card shows.  The feed sends any snapshots; their order is the matter of *)
(* WebSocketFeed.  A snapshot lists its GPUs in the order of their numbers.*)
(***************************************************************************)
EXTENDS Naturals, FiniteSetsExt

CONSTANTS
  Sockets,      \* names for the page's WebSockets
  Nodes, Gpus, Pods, Vendors, Uuids, Indices,
  GpuNode, GpuVendor,
  Objects,      \* what a snapshot may say of a GPU
  Idle,         \* a GPU's pod, if there is none
  All,          \* a filter's value that lets everything pass
  Ranges,       \* the time ranges of the history panel
  NoGpu,        \* the panel is closed
  MaxRequests   \* bound: requests that are under way at one time

\* What the history panel uses of a GPU's object.
HistoryGPUs == [gpu : Gpus, index : Indices]

ASSUME DashboardAssumption ==
  /\ Gpus \subseteq Nat
  /\ GpuNode \in [Gpus -> Nodes]
  /\ GpuVendor \in [Gpus -> Vendors]
  /\ Objects \subseteq [gpu : Gpus, uuid : Uuids, index : Indices, pod : Pods \cup {Idle}]
  /\ Idle \notin Pods
  /\ All \notin Nodes \cup Vendors \cup Pods
  /\ NoGpu \notin HistoryGPUs
  /\ MaxRequests \in Nat

VARIABLES
  reachable,   \* the server can be reached
  sockets,     \* the state of each WebSocket
  ws,          \* the one that the variable ws holds
  timers,      \* how many calls of connectWS are to come
  nodes,       \* state.nodes: the nodes
  gpus,        \* and the objects of their GPUs
  filter,      \* the values of the three filters
  left,        \* history: the selected node was not in the last snapshot
  grid,        \* grid[n]: the cards in the section of node n, if it has one
  twins,       \* history: sections in which two GPUs have had one UUID
  panel,       \* state.historyNode and historyGPU
  range,
  pending,     \* how many requests for a target are under way
  charts,      \* what the charts show, {} if there are none
  spoiled      \* history: a request that is under way, or whose answer came
               \* last, need not be the panel's, or one beside it has failed

link == <<reachable, sockets, ws, timers>>
page == <<nodes, gpus, filter, left, grid, twins>>
requests == <<pending, spoiled>>
history == <<panel, range, charts, requests>>
vars == <<link, page, history>>

\* A card: the UUID it is found by, the GPU that its click listener was made
\* for, what it shows, and whether updateGPUCard has set onclick, too.
Cards == [uuid : Uuids, made : HistoryGPUs, shown : Objects, updated : BOOLEAN]
Targets == Nodes \X Indices \X Ranges
Filters == [vendor : Vendors \cup {All}, node : Nodes \cup {All}, pod : Pods \cup {All}]
NoFilter == [vendor |-> All, node |-> All, pod |-> All]

\* The objects of a snapshot with the nodes N, one for each GPU that it lists.
Contents(N) ==
  {T \in SUBSET {o \in Objects : GpuNode[o.gpu] \in N} :
     \A o, q \in T : o.gpu = q.gpu => o = q}

TypeOK ==
  /\ reachable \in BOOLEAN
  /\ sockets \in [Sockets -> {"none", "connecting", "open", "closing"}]
  /\ ws \in Sockets
  /\ timers \in Nat
  /\ nodes \subseteq Nodes
  /\ gpus \subseteq Objects
  /\ \A o, q \in gpus : o.gpu = q.gpu => o = q
  /\ filter \in Filters
  /\ filter.node \in nodes \cup {All}
  /\ left \in BOOLEAN
  /\ grid \in [Nodes -> SUBSET Cards]
  /\ twins \subseteq Nodes
  /\ panel \in HistoryGPUs \cup {NoGpu}
  /\ range \in Ranges
  /\ pending \in [Targets -> Nat]
  /\ charts \subseteq Targets
  /\ spoiled \in BOOLEAN

Init ==
  /\ reachable \in BOOLEAN
  /\ ws \in Sockets
  /\ sockets = [s \in Sockets |-> IF s = ws THEN "connecting" ELSE "none"]
  /\ timers = 0
  /\ nodes = {} /\ gpus = {}
  /\ filter = NoFilter /\ left = FALSE
  /\ grid = [n \in Nodes |-> {}] /\ twins = {}
  /\ panel = NoGpu
  /\ range \in Ranges
  /\ pending = [t \in Targets |-> 0]
  /\ charts = {}
  /\ spoiled = FALSE

-----------------------------------------------------------------------------
(* The WebSocket.                                                          *)

ServerStarts ==
  /\ ~reachable
  /\ reachable' = TRUE
  /\ UNCHANGED <<sockets, ws, timers, page, history>>

\* Its connections are closed with it.
ServerStops ==
  /\ reachable
  /\ reachable' = FALSE
  /\ sockets' = [s \in Sockets |-> IF sockets[s] = "open" THEN "closing" ELSE sockets[s]]
  /\ UNCHANGED <<ws, timers, page, history>>

\* connectWS, called by the timer.
ConnectWS(s) ==
  /\ timers > 0
  /\ sockets[s] = "none"
  /\ timers' = timers - 1
  /\ sockets' = [sockets EXCEPT ![s] = "connecting"]
  /\ ws' = s
  /\ UNCHANGED <<reachable, page, history>>

\* The last timer is cleared; it is still to come if any is.
OnOpen(s) ==
  /\ sockets[s] = "connecting"
  /\ reachable
  /\ sockets' = [sockets EXCEPT ![s] = "open"]
  /\ timers' = IF timers > 0 THEN timers - 1 ELSE 0
  /\ UNCHANGED <<reachable, ws, page, history>>

\* Faulty OnError: it sets the timer as well.
OnErrorReconnects(s) ==
  /\ sockets[s] = "connecting"
  /\ ~reachable
  /\ sockets' = [sockets EXCEPT ![s] = "closing", ![ws] = "closing"]
  /\ timers' = timers + 1
  /\ UNCHANGED <<reachable, ws, page, history>>

\* The connection is not made.  ws.close() is called on whatever ws holds.
OnError(s) ==
  /\ sockets[s] = "connecting"
  /\ ~reachable
  /\ sockets' = [sockets EXCEPT ![s] = "closing", ![ws] = "closing"]
  /\ UNCHANGED <<reachable, ws, timers, page, history>>

\* Faulty OnClose: if no timer is set while the server is away.
OnCloseGivesUp(s) ==
  /\ sockets[s] = "closing"
  /\ sockets' = [sockets EXCEPT ![s] = "none"]
  /\ timers' = IF reachable THEN timers + 1 ELSE timers
  /\ UNCHANGED <<reachable, ws, page, history>>

\* The close event comes last, and sets the timer.
OnClose(s) ==
  /\ sockets[s] = "closing"
  /\ sockets' = [sockets EXCEPT ![s] = "none"]
  /\ timers' = timers + 1
  /\ UNCHANGED <<reachable, ws, page, history>>

-----------------------------------------------------------------------------
(* The grid.                                                               *)

\* The filters, but for the node's.
Passes(o, f) == f.vendor \in {All, GpuVendor[o.gpu]} /\ f.pod \in {All, o.pod}

\* renderGrid's GPUs of node n.
Matching(n, f, T) == {o \in T : GpuNode[o.gpu] = n /\ Passes(o, f)}

Selected(n, f, N) == n \in N /\ f.node \in {All, n}

HistoryGPU(o) == [gpu |-> o.gpu, index |-> o.index]

CreateGPUCard(o) ==
  [uuid |-> o.uuid, made |-> HistoryGPU(o), shown |-> o, updated |-> FALSE]

UpdateGPUCard(c, o) == [c EXCEPT !.shown = o, !.updated = TRUE]

\* The cards that the map existing has: of those with one UUID the last in the
\* row, where they are in the order of the GPUs they were made for.
Existing(row) ==
  {c \in row : \A d \in row : d.uuid = c.uuid => d.made.gpu <= c.made.gpu}

\* Of the GPUs with one UUID the last, whose update of a card is not overwritten.
Last(T) == {o \in T : \A q \in T : q.uuid = o.uuid => q.gpu <= o.gpu}

\* Faulty Updated: a card whose UUID was not seen stays.
UpdatedOrKept(c, T) ==
  IF c.uuid \notin {o.uuid : o \in T} THEN {c}
  ELSE {UpdateGPUCard(c, o) : o \in {q \in Last(T) : q.uuid = c.uuid}}

\* What becomes of a card of existing: without a GPU of its UUID it is removed.
Updated(c, T) == {UpdateGPUCard(c, o) : o \in {q \in Last(T) : q.uuid = c.uuid}}

\* A GPU without a card in existing gets one of its own.
Created(row, T) ==
  {CreateGPUCard(o) : o \in {q \in T : \A c \in Existing(row) : c.uuid # q.uuid}}

\* Cards of the row that existing does not have stay as they are.
RenderGPURow(row, T) ==
  (row \ Existing(row)) \cup (UNION {Updated(c, T) : c \in Existing(row)}) \cup Created(row, T)

\* The section of node n after renderGrid: removed if the node is not selected,
\* but not looked at if none of its GPUs passes.
Rendered(n, f, N, T) ==
  IF ~Selected(n, f, N) THEN {}
  ELSE IF Matching(n, f, T) = {} THEN grid[n]
  ELSE RenderGPURow(grid[n], Matching(n, f, T))

ShareUuid(T) == \E o, q \in T : o # q /\ o.uuid = q.uuid

RenderGrid(f, N, T) ==
  /\ grid' = [n \in Nodes |-> Rendered(n, f, N, T)]
  /\ twins' = {n \in Nodes : /\ Selected(n, f, N)
                             /\ n \in twins \/ ShareUuid(Matching(n, f, T))}

\* Faulty UpdateNodeFilter: the selection is kept.
KeepNodeFilter(N) == UNCHANGED filter

\* The options are made anew; without its option the selection is All Nodes.
UpdateNodeFilter(N) ==
  filter' = IF filter.node \in N THEN filter ELSE [filter EXCEPT !.node = All]

\* onmessage, handleSnapshot: the grid is rendered before the node filter is
\* updated.
HandleSnapshot(s) ==
  /\ sockets[s] = "open"
  /\ nodes' \in SUBSET Nodes
  /\ gpus' \in Contents(nodes')
  /\ RenderGrid(filter, nodes', gpus')
  /\ UpdateNodeFilter(nodes')
  /\ left' = (filter' # filter)
  /\ UNCHANGED <<link, history>>

\* What the filters can be changed to, one at a time.  Choosing what is selected
\* already is no change, and renders nothing.
Changes ==
  ({[filter EXCEPT !.vendor = v] : v \in Vendors \cup {All}}
    \cup {[filter EXCEPT !.node = n] : n \in nodes \cup {All}}
    \cup {[filter EXCEPT !.pod = p] : p \in Pods \cup {All}}) \ {filter}

SetFilter(f) ==
  /\ f \in Changes
  /\ filter' = f
  /\ left' = FALSE
  /\ RenderGrid(f, nodes, gpus)
  /\ UNCHANGED <<link, nodes, gpus, history>>

-----------------------------------------------------------------------------
(* The history panel.                                                      *)

UnderWay(t) == pending[t] > 0

\* The query of loadHistory: node, index and range.
Target(h, r) == <<GpuNode[h.gpu], h.index, r>>

\* What the panel's charts should show.
Wanted == IF panel = NoGpu THEN {} ELSE {Target(panel, range)}

Total == MapThenSumSet(LAMBDA t : pending[t], Targets)

\* loadHistory, up to fetch, for target t.  With nothing under way its answer is
\* the next to come.
LoadHistory(t) ==
  /\ Total < MaxRequests
  /\ pending' = [pending EXCEPT ![t] = @ + 1]
  /\ spoiled' = /\ \E u \in Targets : UnderWay(u)
                /\ spoiled \/ {t} # Wanted

\* loadHistory for t and at once for u.
LoadTwice(t, u) ==
  /\ Total + 1 < MaxRequests
  /\ pending' = [[pending EXCEPT ![t] = @ + 1] EXCEPT ![u] = @ + 1]
  /\ spoiled' = \/ t # u
                \/ /\ \E v \in Targets : UnderWay(v)
                   /\ spoiled \/ {u} # Wanted

\* A click on a card that has not been updated: openHistory by the listener that
\* createGPUCard has added, with the object the card was made from.
OpenHistory(c) ==
  /\ ~c.updated
  /\ panel' = c.made
  /\ LoadHistory(Target(c.made, range))
  /\ UNCHANGED <<link, page, range, charts>>

\* Faulty OpenHistoryTwice: a panel that is open is not loaded again.
ShowTitle(c) ==
  /\ c.updated
  /\ panel' = HistoryGPU(c.shown)
  /\ IF panel = NoGpu THEN LoadTwice(Target(c.made, range), Target(HistoryGPU(c.shown), range))
     ELSE UNCHANGED requests
  /\ UNCHANGED <<link, page, range, charts>>

\* On one that has: the same, and then openHistory by the handler that
\* updateGPUCard has set, with the object of the last update.
OpenHistoryTwice(c) ==
  /\ c.updated
  /\ panel' = HistoryGPU(c.shown)
  /\ LoadTwice(Target(c.made, range), Target(HistoryGPU(c.shown), range))
  /\ UNCHANGED <<link, page, range, charts>>

CloseHistory ==
  /\ panel # NoGpu
  /\ panel' = NoGpu
  /\ charts' = {}
  /\ spoiled' = \E t \in Targets : UnderWay(t)
  /\ UNCHANGED <<link, page, range, pending>>

\* A range button.
SetRange(r) ==
  /\ range' = r
  /\ IF panel = NoGpu THEN UNCHANGED requests ELSE LoadHistory(Target(panel, r))
  /\ UNCHANGED <<link, page, panel, charts>>

\* applyTheme, with the panel open.
ApplyTheme ==
  /\ panel # NoGpu
  /\ LoadHistory(Target(panel, range))
  /\ UNCHANGED <<link, page, panel, range, charts>>

\* The answer arrives: renderCharts replaces the charts, if any.
Answered(t) ==
  /\ UnderWay(t)
  /\ pending' = [pending EXCEPT ![t] = @ - 1]
  /\ charts' = {t}
  /\ UNCHANGED <<link, page, panel, range, spoiled>>

\* The charts stay as they are.
FetchFails(t) ==
  /\ UnderWay(t)
  /\ pending' = [pending EXCEPT ![t] = @ - 1]
  /\ spoiled' = TRUE
  /\ UNCHANGED <<link, page, panel, range, charts>>

-----------------------------------------------------------------------------
Server == ServerStarts \/ ServerStops

Socket(s) == ConnectWS(s) \/ OnOpen(s) \/ OnError(s) \/ OnClose(s)

User ==
  \/ \E f \in Filters : SetFilter(f)
  \/ \E n \in Nodes : \E c \in grid[n] : OpenHistory(c) \/ OpenHistoryTwice(c)
  \/ CloseHistory
  \/ \E r \in Ranges : SetRange(r)
  \/ ApplyTheme

Next ==
  \/ Server
  \/ \E s \in Sockets : Socket(s) \/ HandleSnapshot(s)
  \/ User
  \/ \E t \in Targets : Answered(t) \/ FetchFails(t)

Spec == Init /\ [][Next]_vars

(***************************************************************************)
(* Fairness.  The socket's events and the timer come.  Nothing is assumed  *)
(* of the server, the user and the answers.                                *)
(***************************************************************************)
Fairness == \A s \in Sockets : WF_vars(Socket(s))

FairSpec == Spec /\ Fairness

-----------------------------------------------------------------------------
(* Properties.                                                             *)

Live(s) == sockets[s] # "none"

\* The page has one WebSocket or is about to make one, and never both or two,
\* in whichever order errors, closes and timers come.
OneLink ==
  \/ timers = 0 /\ \E s \in Sockets : Live(s) /\ \A r \in Sockets : Live(r) => r = s
  \/ timers = 1 /\ \A s \in Sockets : ~Live(s)

\* When the server can be reached from some time on, the page ends up with an
\* open WebSocket.
Reconnects == <>[]reachable => <>[](\E s \in Sockets : sockets[s] = "open")

\* A row has one card for each of these GPUs, and no other.
Shows(row, wanted) ==
  /\ {c.shown : c \in row} = wanted
  /\ \A c, d \in row : c.shown = d.shown => c = d

\* The grid, whose cards are found by UUID and changed one by one, shows the last
\* snapshot as the filters say: a node that is selected has a card for each of its
\* GPUs that pass and no others, each with the GPU's present data.  There are
\* three exceptions.  If the selected node has just left, the grid is empty until
\* the next rendering.  The section of a node none of whose GPUs passes may show
\* anything.  In a section in which two GPUs have had one UUID, only the last of
\* them is sure to be shown as it is, and cards of others may remain.
GridShowsMatches ==
  \A n \in Nodes :
    LET wanted == Matching(n, filter, gpus)
    IN  /\ left \/ ~Selected(n, filter, nodes) => grid[n] = {}
        /\ ~left /\ Selected(n, filter, nodes) /\ wanted # {} =>
             /\ Last(wanted) \subseteq {c.shown : c \in grid[n]}
             /\ n \notin twins => Shows(grid[n], wanted)

Quiet == \A t \in Targets : ~UnderWay(t)

\* When its requests have been answered, none has failed, and no request for
\* another GPU, index or range was under way beside one of the panel's, the charts
\* are those of the panel: two handlers of a card, a change of the range or of the
\* theme and a panel that is closed and opened leave no other's charts.
ChartsAreThePanels == panel # NoGpu /\ Quiet /\ ~spoiled => charts = Wanted
=============================================================================
