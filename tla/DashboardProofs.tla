--------------------------- MODULE DashboardProofs ---------------------------
(***************************************************************************)
(* The invariants of the dashboard page, for any nodes, GPUs and requests. *)
(***************************************************************************)
EXTENDS Dashboard, TLAPS

-----------------------------------------------------------------------------
(* Types.                                                                  *)

\* One object for each GPU.
OnePerGpu(T) == \A o, q \in T : o.gpu = q.gpu => o = q

LEMMA ObjectParts ==
  ASSUME NEW o \in Objects
  PROVE  /\ o.gpu \in Gpus /\ o.gpu \in Nat
         /\ o.uuid \in Uuids
         /\ HistoryGPU(o) \in HistoryGPUs
BY DashboardAssumption DEF HistoryGPU, HistoryGPUs

LEMMA CardParts ==
  ASSUME NEW c \in Cards
  PROVE  /\ c.uuid \in Uuids
         /\ c.made \in HistoryGPUs
         /\ c.made.gpu \in Nat
         /\ c.shown \in Objects
BY DashboardAssumption DEF Cards, HistoryGPUs

LEMMA CreatedCard ==
  ASSUME NEW o \in Objects
  PROVE  /\ CreateGPUCard(o) \in Cards
         /\ CreateGPUCard(o).uuid = o.uuid
         /\ CreateGPUCard(o).shown = o
BY ObjectParts DEF CreateGPUCard, Cards

LEMMA UpdatedCard ==
  ASSUME NEW c \in Cards, NEW o \in Objects
  PROVE  /\ UpdateGPUCard(c, o) \in Cards
         /\ UpdateGPUCard(c, o).uuid = c.uuid
         /\ UpdateGPUCard(c, o).shown = o
BY DEF UpdateGPUCard, Cards

LEMMA RowType ==
  ASSUME NEW row \in SUBSET Cards, NEW T \in SUBSET Objects
  PROVE  RenderGPURow(row, T) \subseteq Cards
<1>1. Created(row, T) \subseteq Cards
  BY CreatedCard DEF Created
<1>2. ASSUME NEW c \in Existing(row) PROVE Updated(c, T) \subseteq Cards
  <2>1. c \in Cards
    BY DEF Existing
  <2>. QED
    BY <2>1, UpdatedCard DEF Updated, Last
<1>. QED
  BY <1>1, <1>2 DEF RenderGPURow

LEMMA RenderGridType ==
  ASSUME TypeOK, NEW f, NEW N \in SUBSET Nodes, NEW T \in SUBSET Objects, RenderGrid(f, N, T)
  PROVE  /\ grid' \in [Nodes -> SUBSET Cards]
         /\ twins' \subseteq Nodes
<1>1. ASSUME NEW n \in Nodes PROVE Rendered(n, f, N, T) \subseteq Cards
  <2>1. grid[n] \in SUBSET Cards
    BY DEF TypeOK
  <2>2. RenderGPURow(grid[n], Matching(n, f, T)) \subseteq Cards
    BY <2>1, RowType DEF Matching
  <2>. QED
    BY <2>1, <2>2 DEF Rendered
<1>. QED
  BY <1>1 DEF RenderGrid

LEMMA ContentsType ==
  ASSUME NEW N, NEW T \in Contents(N)
  PROVE  T \in SUBSET Objects /\ OnePerGpu(T)
BY DEF Contents, OnePerGpu

LEMMA TargetType ==
  ASSUME NEW h \in HistoryGPUs, NEW r \in Ranges
  PROVE  Target(h, r) \in Targets
BY DashboardAssumption DEF Target, Targets, HistoryGPUs

\* The node's filter can be changed to one of its options only.
LEMMA ChangeOfNode ==
  ASSUME TypeOK, NEW f, SetFilter(f)
  PROVE  f.node \in nodes \cup {All}
<1>1. f \in Changes
  BY DEF SetFilter
<1>2. CASE \E v \in Vendors \cup {All} : f = [filter EXCEPT !.vendor = v]
  BY <1>2 DEF TypeOK, Filters
<1>3. CASE \E n \in nodes \cup {All} : f = [filter EXCEPT !.node = n]
  BY <1>3 DEF TypeOK, Filters
<1>4. CASE \E p \in Pods \cup {All} : f = [filter EXCEPT !.pod = p]
  BY <1>4 DEF TypeOK, Filters
<1>. QED
  BY <1>1, <1>2, <1>3, <1>4 DEF Changes

LEMMA InitTypeOK == Init => TypeOK
<1>. SUFFICES ASSUME Init PROVE TypeOK
  OBVIOUS
<1>1. filter \in Filters /\ filter.node = All
  BY DEF Init, NoFilter, Filters
<1>2. sockets \in [Sockets -> {"none", "connecting", "open", "closing"}]
  BY DEF Init
<1>3. grid \in [Nodes -> SUBSET Cards]
  BY DEF Init
<1>4. pending \in [Targets -> Nat]
  BY DEF Init
<1>. QED
  BY <1>1, <1>2, <1>3, <1>4 DEF Init, TypeOK

LEMMA LoadType ==
  ASSUME TypeOK, NEW t \in Targets, LoadHistory(t)
  PROVE  /\ pending' \in [Targets -> Nat]
         /\ spoiled' \in BOOLEAN
BY DEF TypeOK, LoadHistory

LEMMA LoadTwiceType ==
  ASSUME TypeOK, NEW t \in Targets, NEW u \in Targets, LoadTwice(t, u)
  PROVE  /\ pending' \in [Targets -> Nat]
         /\ spoiled' \in BOOLEAN
<1>1. [pending EXCEPT ![t] = @ + 1] \in [Targets -> Nat]
  BY DEF TypeOK
<1>. QED
  BY <1>1 DEF TypeOK, LoadTwice

LEMMA NextTypeOK == TypeOK /\ [Next]_vars => TypeOK'
<1>. SUFFICES ASSUME TypeOK, [Next]_vars PROVE TypeOK'
  OBVIOUS
<1>1. CASE Server
  BY <1>1 DEF TypeOK, Server, ServerStarts, ServerStops, page, history, requests
<1>2. ASSUME NEW s \in Sockets, Socket(s) PROVE TypeOK'
  <2>1. CASE ConnectWS(s)
    BY <2>1 DEF TypeOK, ConnectWS, page, history, requests
  <2>2. CASE OnOpen(s)
    BY <2>2 DEF TypeOK, OnOpen, page, history, requests
  <2>3. CASE OnError(s)
    BY <2>3 DEF TypeOK, OnError, page, history, requests
  <2>4. CASE OnClose(s)
    BY <2>4 DEF TypeOK, OnClose, page, history, requests
  <2>. QED
    BY <1>2, <2>1, <2>2, <2>3, <2>4 DEF Socket
<1>3. ASSUME NEW s \in Sockets, HandleSnapshot(s) PROVE TypeOK'
  <2>1. nodes' \in SUBSET Nodes /\ gpus' \in Contents(nodes')
    BY <1>3 DEF HandleSnapshot
  <2>2. gpus' \in SUBSET Objects /\ OnePerGpu(gpus')
    BY <2>1, ContentsType
  <2>3. grid' \in [Nodes -> SUBSET Cards] /\ twins' \subseteq Nodes
    BY <1>3, <2>1, <2>2, RenderGridType DEF HandleSnapshot
  <2>4. filter' \in Filters /\ filter'.node \in nodes' \cup {All} /\ left' \in BOOLEAN
    BY <1>3 DEF TypeOK, HandleSnapshot, UpdateNodeFilter, Filters
  <2>. QED
    BY <1>3, <2>1, <2>2, <2>3, <2>4
       DEF TypeOK, OnePerGpu, HandleSnapshot, link, history, requests
<1>4. ASSUME NEW f \in Filters, SetFilter(f) PROVE TypeOK'
  <2>1. grid' \in [Nodes -> SUBSET Cards] /\ twins' \subseteq Nodes
    BY <1>4, RenderGridType DEF TypeOK, SetFilter
  <2>2. f.node \in nodes \cup {All}
    BY <1>4, ChangeOfNode
  <2>. QED
    BY <1>4, <2>1, <2>2 DEF TypeOK, SetFilter, link, history, requests
<1>5. ASSUME NEW c \in Cards, OpenHistory(c) PROVE TypeOK'
  <2>1. c.made \in HistoryGPUs /\ Target(c.made, range) \in Targets
    BY CardParts, TargetType DEF TypeOK
  <2>. QED
    BY <1>5, <2>1, LoadType DEF TypeOK, OpenHistory, link, page
<1>6. ASSUME NEW c \in Cards, OpenHistoryTwice(c) PROVE TypeOK'
  <2>1. c.made \in HistoryGPUs /\ HistoryGPU(c.shown) \in HistoryGPUs
    BY CardParts, ObjectParts
  <2>2. Target(c.made, range) \in Targets /\ Target(HistoryGPU(c.shown), range) \in Targets
    BY <2>1, TargetType DEF TypeOK
  <2>. QED
    BY <1>6, <2>1, <2>2, LoadTwiceType DEF TypeOK, OpenHistoryTwice, link, page
<1>7. CASE CloseHistory
  BY <1>7 DEF TypeOK, CloseHistory, link, page
<1>8. ASSUME NEW r \in Ranges, SetRange(r) PROVE TypeOK'
  <2>1. CASE panel = NoGpu
    BY <1>8, <2>1 DEF TypeOK, SetRange, link, page, requests
  <2>2. CASE panel # NoGpu
    BY <1>8, <2>2, TargetType, LoadType DEF TypeOK, SetRange, link, page
  <2>. QED
    BY <2>1, <2>2
<1>9. CASE ApplyTheme
  BY <1>9, TargetType, LoadType DEF TypeOK, ApplyTheme, link, page
<1>10. ASSUME NEW t \in Targets, Answered(t) PROVE TypeOK'
  BY <1>10 DEF TypeOK, Answered, UnderWay, link, page
<1>11. ASSUME NEW t \in Targets, FetchFails(t) PROVE TypeOK'
  BY <1>11 DEF TypeOK, FetchFails, UnderWay, link, page
<1>12. CASE UNCHANGED vars
  BY <1>12 DEF TypeOK, vars, link, page, history, requests
<1>13. \A n \in Nodes : grid[n] \subseteq Cards
  BY DEF TypeOK
<1>. QED
  BY <1>1, <1>2, <1>3, <1>4, <1>5, <1>6, <1>7, <1>8, <1>9, <1>10, <1>11, <1>12, <1>13
     DEF Next, User

\* The page's state is of its types: the selected node is always one of the
\* options, and no request is answered twice.
THEOREM TypeCorrect == Spec => []TypeOK
<1>. QED
  BY InitTypeOK, NextTypeOK, PTL DEF Spec

-----------------------------------------------------------------------------
(* The WebSocket.                                                          *)

\* The variable ws holds the socket that lives, which onerror closes.
LinkInv == OneLink /\ \A s \in Sockets : Live(s) => ws = s

LEMMA InitLinkInv == Init => LinkInv
BY DEF Init, LinkInv, OneLink, Live

LEMMA NextLinkInv == TypeOK /\ LinkInv /\ [Next]_vars => LinkInv'
<1>. SUFFICES ASSUME TypeOK, LinkInv, [Next]_vars PROVE LinkInv'
  OBVIOUS
<1>. USE DEF TypeOK, LinkInv, OneLink, Live
<1>1. CASE Server
  BY <1>1 DEF Server, ServerStarts, ServerStops
<1>2. ASSUME NEW s \in Sockets, Socket(s) PROVE LinkInv'
  <2>1. CASE ConnectWS(s)
    BY <2>1 DEF ConnectWS
  <2>2. CASE OnOpen(s)
    BY <2>2 DEF OnOpen
  <2>3. CASE OnError(s)
    <3>1. ws = s /\ timers = 0 /\ \A r \in Sockets : r # s => ~Live(r)
      BY <2>3 DEF OnError
    <3>2. sockets' = [sockets EXCEPT ![s] = "closing"] /\ UNCHANGED <<ws, timers>>
      BY <2>3, <3>1 DEF OnError
    <3>. QED
      BY <3>1, <3>2
  <2>4. CASE OnClose(s)
    BY <2>4 DEF OnClose
  <2>. QED
    BY <1>2, <2>1, <2>2, <2>3, <2>4 DEF Socket
<1>3. CASE UNCHANGED link
  BY <1>3 DEF link
<1>4. ASSUME NEW s \in Sockets, HandleSnapshot(s) PROVE UNCHANGED link
  BY <1>4 DEF HandleSnapshot
<1>5. CASE User
  BY <1>3, <1>5 DEF User, SetFilter, OpenHistory, OpenHistoryTwice, CloseHistory, SetRange, ApplyTheme
<1>6. ASSUME NEW t \in Targets, Answered(t) \/ FetchFails(t) PROVE UNCHANGED link
  BY <1>6 DEF Answered, FetchFails
<1>7. CASE UNCHANGED vars
  BY <1>3, <1>7 DEF vars
<1>. QED
  BY <1>1, <1>2, <1>3, <1>4, <1>5, <1>6, <1>7 DEF Next

\* The page never has two WebSockets, nor one beside a timer, nor neither.
THEOREM LinkCorrect == Spec => []OneLink
<1>1. LinkInv => OneLink
  BY DEF LinkInv
<1>. QED
  BY <1>1, TypeCorrect, InitLinkInv, NextLinkInv, PTL DEF Spec

-----------------------------------------------------------------------------
(* The grid.                                                               *)

DistinctCards(row) == \A c, d \in row : c.uuid = d.uuid => c = d

\* Of the GPUs with one UUID the last is shown, on a card that was there or is new.
LEMMA LastIsShown ==
  ASSUME NEW row \in SUBSET Cards, NEW T \in SUBSET Objects, NEW o \in Last(T)
  PROVE  \E c \in RenderGPURow(row, T) : c.shown = o
<1>1. o \in T /\ o \in Objects
  BY DEF Last
<1>2. CASE \E c \in Existing(row) : c.uuid = o.uuid
  <2>1. PICK c \in Existing(row) : c.uuid = o.uuid
    BY <1>2
  <2>2. c \in Cards
    BY DEF Existing
  <2>3. UpdateGPUCard(c, o) \in Updated(c, T)
    BY <2>1 DEF Updated
  <2>4. UpdateGPUCard(c, o) \in RenderGPURow(row, T)
    BY <2>3 DEF RenderGPURow
  <2>. QED
    BY <1>1, <2>2, <2>4, UpdatedCard
<1>3. CASE \A c \in Existing(row) : c.uuid # o.uuid
  <2>1. CreateGPUCard(o) \in RenderGPURow(row, T)
    BY <1>1, <1>3 DEF RenderGPURow, Created
  <2>. QED
    BY <1>1, <2>1, CreatedCard
<1>. QED
  BY <1>2, <1>3

\* Where cards and GPUs have UUIDs of their own, a row is rendered as the GPUs
\* say, whatever cards it had.
LEMMA RowShowsGpus ==
  ASSUME NEW row \in SUBSET Cards, DistinctCards(row),
         NEW T \in SUBSET Objects, ~ShareUuid(T)
  PROVE  /\ {c.shown : c \in RenderGPURow(row, T)} = T
         /\ DistinctCards(RenderGPURow(row, T))
         /\ \A c, d \in RenderGPURow(row, T) : c.shown = d.shown => c = d
<1>. DEFINE R == RenderGPURow(row, T)
<1>1. Existing(row) = row
  BY CardParts DEF Existing, DistinctCards
<1>2. Last(T) = T
  BY ObjectParts DEF Last, ShareUuid
<1>3. ASSUME NEW c \in R
      PROVE  \/ \E d \in row, o \in T : o.uuid = d.uuid /\ c = UpdateGPUCard(d, o)
             \/ \E o \in T : (\A d \in row : d.uuid # o.uuid) /\ c = CreateGPUCard(o)
  BY <1>1, <1>2, <1>3 DEF RenderGPURow, Updated, Created
<1>4. ASSUME NEW c \in R
      PROVE  c.shown \in T /\ c.shown.uuid = c.uuid
  <2>1. CASE \E d \in row, o \in T : o.uuid = d.uuid /\ c = UpdateGPUCard(d, o)
    BY <2>1, UpdatedCard
  <2>2. CASE \E o \in T : c = CreateGPUCard(o)
    BY <2>2, CreatedCard
  <2>. QED
    BY <1>3, <2>1, <2>2
<1>5. ASSUME NEW c \in R, NEW d \in R, c.uuid = d.uuid
      PROVE  c = d
  <2>1. c.shown = d.shown
    BY <1>4, <1>5 DEF ShareUuid
  <2>2. CASE \E b \in row : b.uuid = c.uuid
    <3>1. PICK b \in row : b.uuid = c.uuid
      BY <2>2
    <3>2. ASSUME NEW e \in R, e.uuid = b.uuid
          PROVE  e = UpdateGPUCard(b, e.shown)
      <4>1. ASSUME NEW o \in T, \A a \in row : a.uuid # o.uuid, e = CreateGPUCard(o)
            PROVE  FALSE
        BY <3>2, <4>1, CreatedCard
      <4>2. PICK a \in row, o \in T : o.uuid = a.uuid /\ e = UpdateGPUCard(a, o)
        BY <1>3, <4>1
      <4>3. a.uuid = e.uuid /\ e.shown = o
        BY <4>2, UpdatedCard
      <4>. QED
        BY <3>2, <4>2, <4>3 DEF DistinctCards
    <3>3. c = UpdateGPUCard(b, c.shown)
      BY <3>1, <3>2
    <3>4. d = UpdateGPUCard(b, d.shown)
      BY <1>5, <3>1, <3>2
    <3>. QED
      BY <2>1, <3>3, <3>4
  <2>3. CASE \A b \in row : b.uuid # c.uuid
    <3>1. ASSUME NEW e \in R, e.uuid = c.uuid
          PROVE  e = CreateGPUCard(e.shown)
      <4>1. ASSUME NEW a \in row, NEW o \in T, e = UpdateGPUCard(a, o)
            PROVE  FALSE
        BY <2>3, <3>1, <4>1, UpdatedCard
      <4>2. PICK o \in T : e = CreateGPUCard(o)
        BY <1>3, <4>1
      <4>. QED
        BY <4>2, CreatedCard
    <3>2. c = CreateGPUCard(c.shown)
      BY <3>1
    <3>3. d = CreateGPUCard(d.shown)
      BY <1>5, <3>1
    <3>. QED
      BY <2>1, <3>2, <3>3
  <2>. QED
    BY <2>2, <2>3
<1>6. ASSUME NEW o \in T PROVE \E c \in R : c.shown = o
  BY LastIsShown, <1>2
<1>7. {c.shown : c \in R} = T
  BY <1>4, <1>6
<1>8. \A c, d \in R : c.shown = d.shown => c = d
  BY <1>4, <1>5
<1>. QED
  BY <1>5, <1>7, <1>8 DEF DistinctCards

\* Cards can only share a UUID where GPUs have.
GridInv ==
  /\ GridShowsMatches
  /\ \A n \in Nodes : n \notin twins => DistinctCards(grid[n])

\* renderGrid leaves a section as the filters that it was called with say, if its
\* cards were distinct where GPUs have not shared a UUID.
LEMMA RenderedShows ==
  ASSUME TypeOK, GridInv, NEW f, NEW N \in SUBSET Nodes, NEW T \in SUBSET Objects,
         RenderGrid(f, N, T), NEW n \in Nodes
  PROVE  /\ ~Selected(n, f, N) => grid'[n] = {}
         /\ Selected(n, f, N) /\ Matching(n, f, T) # {} =>
              /\ Last(Matching(n, f, T)) \subseteq {c.shown : c \in grid'[n]}
              /\ n \notin twins' => Shows(grid'[n], Matching(n, f, T))
         /\ n \notin twins' => DistinctCards(grid'[n])
<1>. DEFINE W == Matching(n, f, T)
<1>1. grid'[n] = Rendered(n, f, N, T)
  BY DEF RenderGrid
<1>2. grid[n] \in SUBSET Cards /\ W \in SUBSET Objects
  BY DEF TypeOK, Matching
<1>3. CASE ~Selected(n, f, N)
  BY <1>1, <1>3 DEF Rendered, DistinctCards
<1>4. CASE Selected(n, f, N) /\ W = {}
  <2>1. grid'[n] = grid[n]
    BY <1>1, <1>4 DEF Rendered
  <2>2. n \notin twins' => n \notin twins
    BY <1>4 DEF RenderGrid
  <2>. QED
    BY <1>4, <2>1, <2>2 DEF GridInv
<1>5. CASE Selected(n, f, N) /\ W # {}
  <2>1. grid'[n] = RenderGPURow(grid[n], W)
    BY <1>1, <1>5 DEF Rendered
  <2>2. Last(W) \subseteq {c.shown : c \in grid'[n]}
    BY <1>2, <2>1, LastIsShown
  <2>3. ASSUME n \notin twins'
        PROVE  Shows(grid'[n], W) /\ DistinctCards(grid'[n])
    <3>1. n \notin twins /\ ~ShareUuid(W)
      BY <1>5, <2>3 DEF RenderGrid
    <3>2. DistinctCards(grid[n])
      BY <3>1 DEF GridInv
    <3>. QED
      BY <1>2, <2>1, <3>1, <3>2, RowShowsGpus DEF Shows
  <2>. QED
    BY <1>5, <2>2, <2>3
<1>. QED
  BY <1>3, <1>4, <1>5

LEMMA InitGrid == Init => GridInv
BY DEF Init, GridInv, GridShowsMatches, Selected, DistinctCards

\* So the grid is as the filters say, when they are those it was rendered with.
LEMMA GridRendered ==
  ASSUME TypeOK, GridInv, RenderGrid(filter', nodes', gpus'), ~left',
         nodes' \in SUBSET Nodes, gpus' \in SUBSET Objects
  PROVE  GridInv'
<1>1. ASSUME NEW n \in Nodes
      PROVE  /\ ~Selected(n, filter', nodes') => grid'[n] = {}
             /\ Selected(n, filter', nodes') /\ Matching(n, filter', gpus') # {} =>
                  /\ Last(Matching(n, filter', gpus')) \subseteq {c.shown : c \in grid'[n]}
                  /\ n \notin twins' => Shows(grid'[n], Matching(n, filter', gpus'))
             /\ n \notin twins' => DistinctCards(grid'[n])
  BY RenderedShows
<1>2. GridShowsMatches'
  BY <1>1 DEF GridShowsMatches
<1>. QED
  BY <1>1, <1>2 DEF GridInv

\* A snapshot renders the grid by the old filter; if it cannot stay, nothing is
\* shown.
LEMMA SnapshotGrid ==
  ASSUME TypeOK, GridInv, NEW s \in Sockets, HandleSnapshot(s)
  PROVE  GridInv'
<1>1. nodes' \in SUBSET Nodes /\ gpus' \in SUBSET Objects
  BY ContentsType DEF HandleSnapshot
<1>2. RenderGrid(filter, nodes', gpus')
  BY DEF HandleSnapshot
<1>3. CASE filter' = filter
  <2>1. ~left'
    BY <1>3 DEF HandleSnapshot
  <2>. QED
    BY <1>1, <1>2, <1>3, <2>1, GridRendered
<1>4. CASE filter' # filter
  <2>1. left' /\ filter.node \notin nodes'
    BY <1>4 DEF HandleSnapshot, UpdateNodeFilter
  <2>2. filter.node # All
    BY <1>4, <2>1 DEF HandleSnapshot, UpdateNodeFilter, TypeOK, Filters
  <2>3. \A n \in Nodes : ~Selected(n, filter, nodes')
    BY <2>1, <2>2 DEF Selected
  <2>. QED
    BY <1>1, <1>2, <2>1, <2>3, RenderedShows DEF GridInv, GridShowsMatches
<1>. QED
  BY <1>3, <1>4

LEMMA NextGrid == TypeOK /\ GridInv /\ [Next]_vars => GridInv'
<1>. SUFFICES ASSUME TypeOK, GridInv, [Next]_vars PROVE GridInv'
  OBVIOUS
<1>1. ASSUME NEW s \in Sockets, HandleSnapshot(s) PROVE GridInv'
  BY <1>1, SnapshotGrid
<1>2. ASSUME NEW f \in Filters, SetFilter(f) PROVE GridInv'
  <2>1. RenderGrid(filter', nodes', gpus') /\ nodes' = nodes /\ gpus' = gpus /\ ~left'
    BY <1>2 DEF SetFilter
  <2>2. nodes' \in SUBSET Nodes /\ gpus' \in SUBSET Objects
    BY <2>1 DEF TypeOK
  <2>. QED
    BY <2>1, <2>2, GridRendered
<1>3. CASE UNCHANGED page
  BY <1>3 DEF page, GridInv, GridShowsMatches
<1>4. CASE Server \/ \E s \in Sockets : Socket(s)
  BY <1>3, <1>4 DEF Server, ServerStarts, ServerStops, Socket, ConnectWS, OnOpen,
                    OnError, OnClose
<1>5. CASE \/ \E n \in Nodes : \E c \in grid[n] : OpenHistory(c) \/ OpenHistoryTwice(c)
           \/ CloseHistory
           \/ \E r \in Ranges : SetRange(r)
           \/ ApplyTheme
           \/ \E t \in Targets : Answered(t) \/ FetchFails(t)
           \/ UNCHANGED vars
  BY <1>3, <1>5 DEF OpenHistory, OpenHistoryTwice, CloseHistory, SetRange, ApplyTheme,
                    Answered, FetchFails, vars
<1>. QED
  BY <1>1, <1>2, <1>4, <1>5 DEF Next, User

\* The cards, which are found by UUID, updated, created and removed one by one,
\* are those of the last snapshot's GPUs that pass the filters, each once and as
\* it is now, except in three cases: nothing is shown after the selected node has
\* left; the section of a node without a GPU that passes is not looked at; and
\* where GPUs have had one UUID only the last of them is sure to be shown.
THEOREM GridCorrect == Spec => []GridShowsMatches
<1>1. GridInv => GridShowsMatches
  BY DEF GridInv
<1>. QED
  BY <1>1, TypeCorrect, InitGrid, NextGrid, PTL DEF Spec

-----------------------------------------------------------------------------
(* The history panel.                                                      *)

\* As long as nothing was spoiled, what is under way is for the panel.
PanelInv ==
  /\ ChartsAreThePanels
  /\ ~spoiled => \A t \in Targets : UnderWay(t) => {t} = Wanted

LEMMA InitPanel == Init => PanelInv
BY DEF Init, PanelInv, ChartsAreThePanels, UnderWay

\* The panel's GPU is shown by its requests.
LEMMA WantedOf ==
  ASSUME NEW h \in HistoryGPUs, panel' = h
  PROVE  Wanted' = {Target(h, range')}
BY DashboardAssumption DEF Wanted, Target

\* A request for the panel leaves it so.
LEMMA LoadPanel ==
  ASSUME TypeOK, PanelInv, NEW t \in Targets, LoadHistory(t), Wanted' = {t}
  PROVE  PanelInv'
<1>1. /\ pending \in [Targets -> Nat]
      /\ pending' = [pending EXCEPT ![t] = @ + 1]
  BY DEF TypeOK, LoadHistory
<1>2. UnderWay(t)'
  BY <1>1 DEF UnderWay
<1>3. ASSUME ~spoiled', NEW u \in Targets, UnderWay(u)', u # t PROVE FALSE
  <2>1. UnderWay(u)
    BY <1>1, <1>3 DEF UnderWay
  <2>2. ~spoiled /\ {t} = Wanted
    BY <1>3, <2>1 DEF LoadHistory
  <2>. QED
    BY <1>3, <2>1, <2>2 DEF PanelInv
<1>. QED
  BY <1>2, <1>3 DEF PanelInv, ChartsAreThePanels, Quiet

\* So do two, the last of which is for the panel.
LEMMA LoadTwicePanel ==
  ASSUME TypeOK, PanelInv, NEW t \in Targets, NEW u \in Targets, LoadTwice(t, u),
         Wanted' = {u}
  PROVE  PanelInv'
<1>1. /\ pending \in [Targets -> Nat]
      /\ pending' = [[pending EXCEPT ![t] = @ + 1] EXCEPT ![u] = @ + 1]
  BY DEF TypeOK, LoadTwice
<1>2. [pending EXCEPT ![t] = @ + 1] \in [Targets -> Nat]
  BY <1>1
<1>3. UnderWay(u)'
  BY <1>1, <1>2 DEF UnderWay
<1>4. ASSUME ~spoiled', NEW v \in Targets, UnderWay(v)', v # u PROVE FALSE
  <2>1. t = u
    BY <1>4 DEF LoadTwice
  <2>2. UnderWay(v)
    BY <1>1, <1>2, <1>4, <2>1 DEF UnderWay
  <2>3. ~spoiled /\ {u} = Wanted
    BY <1>4, <2>2 DEF LoadTwice
  <2>. QED
    BY <1>4, <2>2, <2>3 DEF PanelInv
<1>. QED
  BY <1>3, <1>4 DEF PanelInv, ChartsAreThePanels, Quiet

LEMMA NextPanel == TypeOK /\ PanelInv /\ [Next]_vars => PanelInv'
<1>. SUFFICES ASSUME TypeOK, PanelInv, [Next]_vars PROVE PanelInv'
  OBVIOUS
<1>1. CASE UNCHANGED history
  BY <1>1 DEF PanelInv, ChartsAreThePanels, Quiet, UnderWay, Wanted, Target, history,
              requests
<1>2. CASE Server \/ \E s \in Sockets : Socket(s) \/ HandleSnapshot(s)
  BY <1>1, <1>2 DEF Server, ServerStarts, ServerStops, Socket, ConnectWS, OnOpen,
                    OnError, OnClose, HandleSnapshot
<1>3. CASE \E f \in Filters : SetFilter(f)
  BY <1>1, <1>3 DEF SetFilter
<1>4. ASSUME NEW c \in Cards, OpenHistory(c) PROVE PanelInv'
  <2>1. c.made \in HistoryGPUs /\ Target(c.made, range) \in Targets
    BY CardParts, TargetType DEF TypeOK
  <2>2. Wanted' = {Target(c.made, range)}
    BY <1>4, <2>1, WantedOf DEF OpenHistory
  <2>. QED
    BY <1>4, <2>1, <2>2, LoadPanel DEF OpenHistory
<1>5. ASSUME NEW c \in Cards, OpenHistoryTwice(c) PROVE PanelInv'
  <2>1. c.made \in HistoryGPUs /\ HistoryGPU(c.shown) \in HistoryGPUs
    BY CardParts, ObjectParts
  <2>2. Target(c.made, range) \in Targets /\ Target(HistoryGPU(c.shown), range) \in Targets
    BY <2>1, TargetType DEF TypeOK
  <2>3. Wanted' = {Target(HistoryGPU(c.shown), range)}
    BY <1>5, <2>1, WantedOf DEF OpenHistoryTwice
  <2>. QED
    BY <1>5, <2>2, <2>3, LoadTwicePanel DEF OpenHistoryTwice
<1>6. CASE CloseHistory
  BY <1>6 DEF CloseHistory, PanelInv, ChartsAreThePanels, UnderWay
<1>7. ASSUME NEW r \in Ranges, SetRange(r) PROVE PanelInv'
  <2>1. CASE panel = NoGpu
    BY <1>7, <2>1 DEF SetRange, PanelInv, ChartsAreThePanels, UnderWay, Wanted, requests
  <2>2. CASE panel # NoGpu
    <3>1. panel \in HistoryGPUs /\ Target(panel, r) \in Targets
      BY <2>2, TargetType DEF TypeOK
    <3>2. Wanted' = {Target(panel, r)}
      BY <1>7, <3>1, WantedOf DEF SetRange
    <3>. QED
      BY <1>7, <2>2, <3>1, <3>2, LoadPanel DEF SetRange
  <2>. QED
    BY <2>1, <2>2
<1>8. CASE ApplyTheme
  <2>1. panel \in HistoryGPUs /\ Target(panel, range) \in Targets
    BY <1>8, TargetType DEF ApplyTheme, TypeOK
  <2>2. Wanted' = {Target(panel, range)}
    BY <1>8, <2>1, WantedOf DEF ApplyTheme
  <2>. QED
    BY <1>8, <2>1, <2>2, LoadPanel DEF ApplyTheme
<1>9. ASSUME NEW t \in Targets, Answered(t) PROVE PanelInv'
  <2>1. /\ UnderWay(t)
        /\ charts' = {t}
        /\ spoiled' = spoiled
    BY <1>9 DEF Answered
  <2>2. \A u \in Targets : UnderWay(u)' => UnderWay(u)
    BY <1>9 DEF Answered, UnderWay, TypeOK
  <2>3. Wanted' = Wanted
    BY <1>9 DEF Answered, Wanted, Target
  <2>. QED
    BY <2>1, <2>2, <2>3 DEF PanelInv, ChartsAreThePanels
<1>10. ASSUME NEW t \in Targets, FetchFails(t) PROVE PanelInv'
  <2>1. spoiled'
    BY <1>10 DEF FetchFails
  <2>. QED
    BY <2>1 DEF PanelInv, ChartsAreThePanels
<1>11. CASE UNCHANGED vars
  BY <1>1, <1>11 DEF vars
<1>12. \A n \in Nodes : grid[n] \subseteq Cards
  BY DEF TypeOK
<1>. QED
  BY <1>2, <1>3, <1>4, <1>5, <1>6, <1>7, <1>8, <1>9, <1>10, <1>11, <1>12 DEF Next, User

\* Requests that nothing has spoiled leave the panel's own charts.
THEOREM PanelCorrect == Spec => []ChartsAreThePanels
<1>1. PanelInv => ChartsAreThePanels
  BY DEF PanelInv
<1>. QED
  BY <1>1, TypeCorrect, InitPanel, NextPanel, PTL DEF Spec
=============================================================================
