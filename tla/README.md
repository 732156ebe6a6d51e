# kgpudash in TLA+

kgpudash shows the GPUs of a Kubernetes cluster.  An agent on each node reads
its GPUs and streams snapshots to one server; the server merges them, works out
which pods use the GPUs, keeps a history, and feeds browsers over WebSocket.
This directory holds specifications of both programs, the TLC models that check
them on small instances, and proofs that TLAPS checks for all instances.

## 1. The system

| Component | Source | State | Operations | Interacts with |
|---|---|---|---|---|
| Aggregator | `internal/server/aggregator/aggregator.go` | `nodeState` under `mu`; `subs` under `subMu`; one buffered channel per subscriber | `handleSnapshot`, `broadcast`, `CurrentSnapshot`, `Subscribe`, `Unsubscribe`, `QueryHistory` | called by the streams and the web server; calls mapper and store |
| Agent connections | same file, `ConnectAgent`, `stream` | one goroutine and context per connection | dial, receive, back off, retry | gRPC to the agents; `handleSnapshot` |
| Agent discovery | `cmd/server/main.go`, `ListAgentPodIPs` in `internal/server/k8s/mapper.go` | `conns`: node name → address and cancel function | discover every 10 s, connect, replace | Kubernetes API; agent connections |
| Live feed | `internal/server/web/server.go`, `handleWebSocket` | one handler and one read pump per browser | subscribe, initial snapshot, forward, leave | aggregator, browser |
| History requests | same file, `handleHistory` | none | parse, query, answer | store, through the aggregator |
| In-memory store | `internal/server/store/memory.go` | `rings`: (node, index) → newest points, under `mu` | `Write`, `QueryRange` | streams write, requests read |
| TimescaleDB store | `internal/server/store/timescale.go` | a table, a connection pool | open and migrate, `Write`, `QueryRange`, `Close` | the same callers; the database |
| Pod mapper | `internal/server/k8s/mapper.go`, `handleSnapshot` | `byNode` under `mu`; possibly no client | `Start`, `refresh`, `PodsOnNode`, the assignment of pods to GPUs | Kubernetes API; streams |
| Server main | `cmd/server/main.go` | contexts, goroutines | start, shut down | all of the above |
| Agent | `cmd/agent/main.go`, `internal/agent/grpcserver/server.go` | a ticker per stream | `StreamMetrics`, `collect`, stop | collectors, server |
| Collectors | `internal/agent/collector/*.go` | NVML's initialisation; the cards found at the start; Intel energy counters | `AutoDetect`, `Detect`, `Collect`, `Close` | sysfs, NVML, vendor tools; called by `collect` |
| Dashboard page | `internal/server/web/static/*` | nodes, filters, the grid's cards, history panel, charts, WebSocket and timer | show a snapshot, filter, load a history, reconnect | live feed, history requests |
| The rest | protobuf code, `cmd/wstest`, `deploy/`, CI, `Makefile` | – | – | – |

What is hard about it, and what has to be right:

* **Broadcasts.**  Every stream broadcasts a copy of the whole state to every
  browser without waiting for any.  Copies are taken outside the lock that
  orders the sends, full channels drop, channels are closed outside the lock,
  and the first snapshot comes from the handler and not from a broadcast.
  Still no update may fall in between, no send may hit a closed channel, no
  subscription may leak, no browser may hold up a stream, and a browser has to
  end up with the present state.
* **Connections.**  Discovery, cancellation and the retry loops run in
  different goroutines.  A node must never be left without a live goroutine,
  because nothing would reconnect it, and replaced goroutines must end.
* **History.**  Writers and readers share the rings.  A ring must hold exactly
  the newest points, a reader must see whole snapshots only, and a writer must
  not be starved, since its broadcast waits for it.  With the database, a
  batch is several statements, each of which can fail, time out or be cut off
  by a crash, over a pool of connections that both sides use up.
* **Agent.**  Several servers, or one that reconnects, stream from one agent at
  a time.  Its collectors are shared and have no lock; the power of some Intel
  cards is a difference to what an earlier call has remembered.  The graceful
  stop waits for streams that only the servers end.
* **Collectors.**  Each vendor has two ways to read its GPUs, chosen once.  Any
  call, device or row can fail, drivers come and go, and what fails must take
  no other GPU with it.  The history knows a GPU by its index and the page by
  its UUID; the two come from different counts.
* **Page.**  Errors and closes of several WebSockets and their timers come in
  any order, and there must be one connection in the end.  Cards are changed
  one by one and not drawn anew.  Requests overlap and fail, while the panel
  goes on to another GPU.
* **Pod mapping.**  The map is replaced while streams use it, listings fail,
  and there may be no cluster at all.

`PROJECT.json` lists these hazards one by one, at their lines, with the
properties that cover them, and those that no property covers yet.

## 2. The modules

| Module | Models | Composes |
|---|---|---|
| `Aggregator` | streams, `nodeState`, broadcasts, the subscribers' lock and channels | |
| `WebSocketFeed` | handlers and browsers, fairness, all properties of the feed | extends `Aggregator` |
| `HistoryLog` | what `store.Store` promises: a log of whole batches | |
| `MemoryStore` | the rings, `Write` and `QueryRange` under the lock | implements `HistoryLog` |
| `TimescaleStore` | transactions, pool, failures, restarts | implements `HistoryLog` |
| `AgentConnections` | discovery, `connectIfChanged`, `ConnectAgent`, `stream` | |
| `PodMapper` | polling, the map, the assignment in `handleSnapshot` | |
| `AgentStream` | the agent: streams, the energy counter they share, graceful stop | |
| `Collectors` | the agent: detection, the GPUs of a snapshot, NVML, Intel's files | |
| `Dashboard` | the page: WebSocket, grid, history panel | |
| `MCFeed`, `MCStore`, `MCTimescale`, `MCAgents`, `MCMapper`, `MCAgentStream`, `MCCollectors`, `MCDashboard` | the instances TLC checks | |
| `WebSocketFeedProofs`, `MemoryStoreProofs`, `AgentConnectionsProofs`, `AgentStreamProofs`, `PodMapperProofs`, `TimescaleStoreProofs`, `CollectorsProofs`, `DashboardProofs` | the theorems | |

### Live feed (`Aggregator`, `WebSocketFeed`)

`spc[s]` is the position of a stream in `stream`/`handleSnapshot`/`broadcast`;
`Recv`, `UpdateState`, `TakeSnapshot`, `RLockSubs`, `Enqueue`/`Drop` and
`RUnlockSubs` are its steps in the order of the code.  `hpc[c]` is the position
of a handler in `handleWebSocket`.  The metrics of a node are a version number,
so that a snapshot is a function from nodes to versions.  `mu` guards single
map accesses and is left implicit; `subMu` is explicit (`writer`, and the
streams in `"sending"`), with the rule of `sync.RWMutex` that an announced
writer keeps new readers out.  `offered` and `dropped` are history variables.
A local variable that goes out of scope is reset, which only saves states.
The subscriber's channel is named after its browser; a channel is closed before
its name is used again, which is sound because the handler that owned it is the
only one that knows it.  Connections are up, stalled (the peer does not read, so
that a write blocks) or gone; a write to a peer that has gone may still succeed.

### History (`HistoryLog`, `MemoryStore`, `TimescaleStore`)

`HistoryLog` has three variables: one log of all points, the query a request
waits on, and its answer.  A point is remembered while the number of newer
points of its key is in `Kept`: `0 .. RingSize - 1` for the rings, `Nat` for the
table.  An answer is any arrangement of the remembered points that match.
`MemoryStore` has a step per critical operation of
`Write` (announce, lock, append a point, unlock) and `QueryRange` (lock, scan,
unlock).  Its `log` and `committed` are history variables: the points ever
appended, and the same at the last unlock.  The refinement maps the abstract
log to `committed`.  `TimescaleStore` has a step per call on the database;
`inUse` counts the connections out of the pool, `table` outlives a crash, and
the abstract log is the table.  A failed
commit whose answer only was lost is the same step as a commit, since `Write`'s
result is just logged.  `Close` is called by `main` as soon as the HTTP server
stops listening, while requests and streams are still at work: it waits for the
connections to come back, and `Exit` may then cut off a goroutine anywhere.
What a query selects is the set of its rows and the orders that `ORDER BY time`
allows, and a ring of the model in memory is likewise read by the places of its
points, so that the modules can be proved about.  Its requests can fail, which `MayFail` allows in the
abstract specification.  The interface fixes no order of an answer and the two
stores differ in it, so `HistoryLog` allows any.

### Connections (`AgentConnections`)

`watching` and `found` are the position of the watching goroutine and the rest
of the list that `discoverAndConnect` goes through; `conns` maps a key to its
goroutine, and `addr` holds the address that both the entry and the goroutine
have.  `gpc[i]` is the position of a goroutine in `ConnectAgent`/`stream`.
Goroutines come from a finite pool for each key; a name is used again when its
goroutine has ended and `conns` has forgotten it.  If all names are taken,
`StartConnection` waits for one: the only place where the bound restricts the
code.  The snapshot handling is reduced to whose data `nodeState` shows.
`nodeIPs` is what `NODE_IPS` lists, chosen once.  An address belongs to one
node.

### Pod mapping (`PodMapper`)

A claim is one GPU limit of one container.  `refresh` is `ListPods` and `Swap`,
or `ListFails`; `NilClient` is the call through a nil interface.  `Enrich` reads
the map and assigns pods round-robin as `handleSnapshot` does, to those of the
node's GPUs that the agent could read; `Update` replaces the node's entry.  As in
the code, `byNode` has a list only for nodes with claims (a set, each claim with
its place in the API's answer), and `PodsOnNode` reads a missing key as an empty
list.  A limit that is not positive is not counted.  A node's snapshots may be
handled before any pod is listed.  `mapped`, `taken` and `shown` are
history variables that follow a listing from the API to the map, to a snapshot
and to what is shown.

### Agent (`AgentStream`)

`spc[s]` is the position of stream `s` in `StreamMetrics` and, from `"energy"`
to `"storeTs"`, in `readHwmonPower`.  There each access to one of the two maps
is a step, since the maps have no lock; `prev`, `from` and `at` are the local
variables.  The file of a card's counter can be found by more than one of the
patterns and is then visited again in the same call (`pass`).  `ticked` is the
ticker's channel, which holds one tick and loses others.  A snapshot is the
power of one card: the difference of the readings, with the two times it was
divided by.  `energy` and `alone` are history variables: what the card has used
by each time, and whether readings have overlapped since the process started.
`MapFault` is Go's runtime, which ends a process that it catches accessing a
map concurrently; if it does not catch it, the accesses take place in some
order.  `Exit` may come before `CloseCollectors`: `Serve` returns when
`GracefulStop` has, and main does not wait for the goroutine that closes them.

### Collectors (`Collectors`)

`pc` and `turn` are the position of the agent: in the three collectors' `Detect`
(`"init"`, `"count"` and `"smi"` are the steps of NVIDIA's), and then in
`collect`, which asks one collector after the other; a collector's `Collect` is
one step.  A GPU is a number, in the order of the PCI addresses, which NVML and
the tools count along; `drm` gives an AMD or Intel GPU the number of its card.
`Reload` changes at any time which GPUs have a driver and which numbers they
have.  An entry of a snapshot has its index and UUID as the code makes them,
`gpu` is the GPU it is really of, and `reading` the utilization and video memory
of an Intel card: which files can be read is any choice.  The other metrics are
left out.  The UUID of a card that sysfs gives is `amd-cardN` or
`intel-cardN`: the comments say it is made from the PCI address, but the path
`card0/device/..` is shortened to `card0` before the link is read
(`UuidIsThePciAddress`).  A row of nvidia-smi or xpu-smi may be short, and is left
out, or have a field that cannot be read: `SMIRow` and `XPUSMIRow` give it the
index 0 and whatever text is there as UUID, as the code does.  `lost`, `earlier`
and `moved` are history variables.

### Page (`Dashboard`)

JavaScript runs handlers one at a time, so a handler is one action.  `sockets`
has the browser's view of each WebSocket, `timers` counts the calls of
`connectWS` that are to come.  A snapshot is a choice of nodes and of an object
for each of their GPUs: its UUID, its index, and its pod, which stands for all
that a card shows.

A section of the grid is a set of cards, and a card has the UUID it is found by,
the object its click listener was made with, and what it shows.  `RenderGPURow` is
the code's diff: `Existing` is the map from UUIDs to cards (of cards with one UUID
it has the last), `Updated` is what becomes of a card in it, `Created` adds a card
for each GPU without one, and cards that the map does not have stay.  `Rendered`
removes the section of a node that is not selected and does not look at that of a
node none of whose GPUs passes.  `HandleSnapshot` renders by the old node filter
and updates the filter then, as the code does.  `twins` and `left` are history
variables: the sections in which GPUs have had one UUID, and whether the last
snapshot was without the selected node.

`pending` counts the requests under way, by node, index and range; their answers
come in any order.  `OpenHistory` is a click on a card that was never updated,
with the object it was made from.  `OpenHistoryTwice` is one on a card that was:
the listener of `createGPUCard` asks for the index of that time, and then the
handler of `updateGPUCard` for the present one.  `spoiled` is a history variable:
requests for different targets have been under way together, or one has failed.

### Faulty variants

Some actions are preceded by a variant marked "Faulty": the mistake that a
change to the code might make there (a forgotten unlock, a missing time-out, a
return without the deferred call).  No specification uses them.  Put in the
place of the action, each makes TLC report one property as violated, which
shows that the property depends on the code it speaks of.  `PROJECT.json` pairs
them ("mutants").

## 3. What TLC checks

All states of each instance are explored.

| Run | Instance | Checked |
|---|---|---|
| `feed_one_agent` | 1 agent, 2 browsers, channel of 1, 2 versions | `TypeOK`, `NoSendOnClosedChannel`, `NoLeakedSubscription`, `DrainedClientIsCurrent` |
| `feed_two_agents` | 2 agents, 1 browser, channel of 1, 1 version | `NoUpdateSkipped`; `StreamsNeverBlock`, `GoneClientIsUnregistered`, `ConnectedClientConverges` |
| `store_history` | 2 GPUs, 2 streams, 1 request, ring of 2, 3 batches | `TypeOK`, `RingsHoldNewest`, `AnswersAreOfTheGpu`; `ImplementsHistoryLog`, `AnswersFromCommitted`, `WritesReturn` |
| `store_index_collision` | 2 GPUs of 2 vendors | `AnswersAreOfTheGpu` **fails** |
| `timescale_history` | 2 GPUs, 2 streams, 1 request, pool of 2, 3 batches | `TypeOK`, `ConnectionsReturned`; `ImplementsHistoryLog`, `WritesReturn`, `CloseEnds` |
| `agents_one_node` | 1 node, 2 addresses, 2 + 1 goroutines, `NODE_IPS` lists one address or is not set | `TypeOK`, `ConnectionsAreLive`, `NoOrphanConnection`; `DoneEnds`, `FollowsThePod` |
| `mapper_polling` | 2 nodes, 2 GPUs, 4 limits of pods, one of them of no GPUs, one on a node without GPUs | `TypeOK`, `MadeFromOneListing`; `AssignmentConverges` |
| `agent_streams` | 2 streams, 2 patterns, a counter that wraps at 8, 4 intervals | `TypeOK`, `PowerIsDeltaAlone`; `StreamEnds`, `StopEnds` |
| `agent_shared_meter` | the same | `PowerIsDelta` **fails** |
| `collectors_one_node` | 2 NVIDIA, 2 AMD and 1 Intel GPU, 2 card numbers, 2 clock rates, 1 reload | `TypeOK`, `SnapshotIsComplete`, `IndexIsTheUuid`, `NVMLBalanced` |
| `collectors_uuid` | 2 AMD GPUs, 1 reload | `UuidIsThePciAddress` **fails** |
| `dashboard_page` | 1 socket, 1 node, 2 GPUs of 2 vendors, one of which has a UUID of its own or the other's, 2 ranges, 2 requests | `TypeOK`, `OneLink`, `GridShowsMatches`, `ChartsAreThePanels`; `Reconnects` |

The bounds, and why they suffice:

* `ChanCap = 1` (8 in the code): a channel fills with the first snapshot that
  is not drained, so that drops happen in every mix with the other steps.  A
  larger channel only takes longer to fill.
* Two streams for everything in which broadcasts overlap, two browsers for what
  concerns several subscribers of one lock.  `DrainedClientIsCurrent` is
  checked with one stream, whose broadcasts are in order: with two, the one that
  copied the state first may send last, and a browser shows an older state
  until the next snapshot of any agent.  (`ConnectedClientConverges`, with two
  streams, says that it heals.)  A version of 2 gives a change between any two
  steps; with two agents the change from no entry to an entry plays this part.
* `RingSize = 2` and three batches of up to two points: a ring is empty,
  filling, full and evicting.  Two times and two bounds give ranges that
  include, exclude, or are empty.
* `PoolSize = 2` for three callers: the pool runs out.  Crashes and restarts
  are not bounded.
* Two addresses and two goroutines for a node: a new connection, a replaced
  one that lingers, and the reuse of an address.  Pods may move without end.
  The node is named after one of its addresses, so that the keys of `NODE_IPS`
  and of the pod listing need no goroutines of their own.
* The mapper's instance has fewer pods than GPUs and as many, pods on a node that
  no agent reports, and a limit that is not counted.  Either of the node's GPUs
  may be missing from a snapshot.  That pods go to GPUs of their own vendor is
  proved for any cluster; the instance has one vendor of GPUs.
* Four intervals for two streams: an overlapping pair of readings, one before
  and one after it; the counter starts at 6 of 8, so that it wraps on the way.
  The sanity limit `MaxWatts` lets every reading pass that is not mixed up: what
  happens to one it rejects is in `PowerCorrect`, for any limit.  Stops, crashes
  and restarts are not bounded.
* Two GPUs of a vendor make the difference between a position and an index, two
  card numbers for three cards let a card take the number of another, and the
  one reload may come at any step of a process, before it or after it.  With two
  clock rates a clock is below, at or above its maximum.
* One name for WebSockets is enough for `OneLink`: a second one can be opened only
  by a timer, and a timer beside the first already violates it; `LinkCorrect` is
  for any number.  Two GPUs of two vendors, on a node that comes and goes, give
  sections that appear, change, are skipped and go, with cards that are made,
  updated and removed; if the second GPU has the first one's UUID, its card is
  found by that, is made twice or stays, and the two handlers of a card ask for
  different indices.  Two requests can be answered in either order, and are as
  many as one click can send.  The pod filter, which is like the vendor's, is not
  used in the instance.

The runs that fail are disagreements between code and documentation, listed as
"findings" in `PROJECT.json`:

1. GPUs of two vendors on one node have the same ring, because both vendors'
   collectors count from 0; a request gets the points of both.
2. Two streams of one agent, as while a server reconnects, read an Intel card's
   energy counter at one time: one finds the reading of the other with an
   earlier time, and reports a wrong power.  The comment says the power is the
   difference of energy over the difference of time.  (`PowerIsDeltaAlone`
   shows that it is, as long as the readings do not overlap.)
3. The UUID that the collectors take from sysfs is the name of the DRM card and
   not, as the comments say, the PCI address: when a driver was reloaded, a GPU
   may have the UUID of another.

What else the models show of the code, as actions and as exceptions that the
properties name:

* Without a Kubernetes configuration the "no-op" mapper calls a method of its nil
  client in the first refresh, and the server ends (`NilClient`), though the
  comment at `mapper.go:79-81` says that the server runs without a cluster.
* `rocm-smi`'s cards get their indices in the order of a Go map (`CollectROCm`):
  the history of an index is of one GPU in one snapshot and of another in the
  next.  A row of nvidia-smi or xpu-smi whose index cannot be read counts as the
  GPU 0.  `IndexIsTheUuid` therefore speaks of what NVML and sysfs list.
* The size of a PCI region is shown as the total memory of an Intel card with a
  use that may come from another source (`TypeOK` of `Collectors`).
* There are three cases in which the grid need not show what the filters say
  (`GridShowsMatches`).  When the selected node leaves, the page renders the grid
  by the old selection and then resets the filter: it says "All Nodes", and the
  grid is empty until the next rendering.  A selected node none of whose GPUs
  passes the filters, or whose last GPU is gone, is skipped and keeps its cards.
  Where two GPUs of a node have had one UUID, as GPUs whose UUID cannot be read
  do, only the last of them is sure to be shown, and cards of GPUs that are gone
  may stay.
* Answers of history requests are drawn as they come (`ChartsAreThePanels`): after
  clicks on two cards, the panel may be left with the charts of the first under
  the title of the second.  One click is enough if the GPU's index has changed
  since its card was made, because the card's first listener asks for the old
  index.  A request that fails leaves the charts of another GPU, and one that is
  answered after the panel was closed draws charts into it.
* A replaced connection may still be handling a snapshot while the new one
  streams; it ends (`DoneEnds`) and does not win for good (`FollowsThePod`).
* A GPU whose driver is loaded after the agent has started is found at its next
  start only, unless its vendor is read through a tool, which lists the GPUs
  anew each time (`SnapshotIsComplete` speaks of the GPUs that a collector has
  found).

### Fairness

Each specification says in a comment what it assumes.  In short: goroutines are
scheduled (weak fairness of their steps); timers fire; agents go on sending
snapshots, as their tickers do; `sync.RWMutex` starves neither side (strong
fairness of taking the lock: its `Unlock` lets waiting readers in before the
next writer, and the mutex that orders the writers hands over after a
millisecond); the Kubernetes API and the attempts to reach an agent that is
serving do not fail for ever (strong fairness).  A write to a browser that does
not read is never assumed to return.  `TimescaleStore` assumes nothing of the
pool's queue or of the database but that a context's time runs out.  In
`AgentStream`, `Send` to a server that reads nothing may block until that
server leaves, and a graceful stop may wait for a server that never does: the
agent of a server that stays connected is stopped only by being killed.
`Dashboard` assumes that the browser delivers a socket's events and fires the
timer, and nothing of the server, whose failure to be reached may end or not.
Nothing is assumed of browsers, pods, crashes, shutdown or requests.

`CHECK_DEADLOCK FALSE` appears in the run of the mapper, in which the panic of
`NilClient` ends the process; nothing is enabled after it.

## 4. What is proved

The theorems hold for every value of the constants that satisfies the module's
named `ASSUME`: any sets of nodes, streams, clients, GPUs, requests and
goroutines, any capacity and ring size.  (Where a proof counts them, GPUs, card
numbers, claims, and the callers of the database are finite sets.)

| Theorem | Module | States |
|---|---|---|
| `TypeCorrect` | `WebSocketFeedProofs` | `TypeOK` of the feed, with the bound of the channels |
| `SubscriptionsCorrect` | same | `NoLeakedSubscription` and the lock's protocol `SubMuProtocol` |
| `NeverSendsOnClosedChannel` | same | `NoSendOnClosedChannel` |
| `NothingSkipped` | same | `NoUpdateSkipped` |
| `DrainedCorrect` | same | `DrainedClientIsCurrent`, if there is one stream |
| `TypeCorrect` | `MemoryStoreProofs` | `TypeOK` of the store |
| `RingsCorrect` | same | `RingsHoldNewest` |
| `MuCorrect` | same | `MuProtocol` |
| `QueriesSeeWholeBatches` | same | `AnswersFromCommitted` |
| `AnswersCorrect` | same | `AnswersAreOfTheGpu`, if no two GPUs have one ring key |
| `RefinesHistoryLog` | same | `ImplementsHistoryLog`: the store implements `HistoryLog` |
| `TypeCorrect` | `AgentConnectionsProofs` | `TypeOK` of the connections |
| `LiveConnections`, `NoOrphans` | same | `ConnectionsAreLive`; `NoOrphanConnection` |
| `TypeCorrect`, `ConnectionsCorrect` | `TimescaleStoreProofs` | `TypeOK`; `ConnectionsReturned` |
| `RefinesHistoryLog` | same | `ImplementsHistoryLog`: the store implements `HistoryLog` |
| `TypeCorrect`, `AssignmentCorrect` | `PodMapperProofs` | `TypeOK`; `MadeFromOneListing` |
| `TypeCorrect` | `AgentStreamProofs` | `TypeOK` of the agent |
| `PowerCorrect` | same | `PowerIsDeltaAlone` |
| `ClosesAfterUse` | same | `ClosedUnused`: collectors are closed when no stream is open |
| `TypeCorrect`, `SnapshotCorrect` | `CollectorsProofs` | `TypeOK`; `SnapshotIsComplete` |
| `IndexCorrect`, `NVMLCorrect` | same | `IndexIsTheUuid`; `NVMLBalanced` |
| `TypeCorrect`, `LinkCorrect` | `DashboardProofs` | `TypeOK`; `OneLink` |
| `GridCorrect`, `PanelCorrect` | same | `GridShowsMatches`; `ChartsAreThePanels` |

The arguments:

* **Feed.**  `TypeOK` is inductive.  `NoSendOnClosedChannel` is not: that a
  stream's remaining channels are open needs that they are still registered
  (`SubMuProtocol`: `subs` changes only while nobody is sending), and that a
  registered channel belongs to a handler that has not closed it
  (`NoLeakedSubscription`, and that closed channels belong to handlers that
  have left or have yet to subscribe).  The two together are inductive.
  `NoUpdateSkipped` is inductive on top of them: `UpdateState` makes the stream
  itself the one that will offer, `TakeSnapshot` freezes the present entry,
  `RLockSubs` includes every registered client, and a client that is not yet
  registered then still has to take its own copy.
* **In-memory store.**  `StoreInv` is `TypeOK`, `RingsHoldNewest`, `MuProtocol`,
  `WholeBatches` and `AnswersUnderKey`.  The ring after an append is the newest
  points of the log after the append, by lemmas that say how the places of a
  key's points are counted in a log that grows by one.  That an answer comes
  from whole batches follows in one step: a request scans while it is in
  `readers`, so no writer is appending, so `committed` is `log`, and the ring is
  the newest of that.  `AnswersUnderKey` says that an answer has points of the
  key asked for; that they are of the GPU asked for needs that no two GPUs share
  a key, which `AnswersCorrect` assumes and the code does not ensure
  (`store_index_collision`).
* **Its refinement.**  `WholeBatches` says that what the writer in the critical
  section has appended since the last commit is a first part of one batch of
  `Batches`, and that it still holds the rest.  `Unlock` then adds exactly that
  batch: it is `Record`.  `Scan` is `Answer`: going through a ring in its order
  is a bijection onto the matching places of the log, since the place `i` in a
  ring of `n` points is the place in the log with `n - i` newer ones of its key
  (`BelowCount`, `NthOfRank`, `AboveCount`).  `Ask` is `Ask`; every other step
  stutters.
* **Connections.**  `ConnectionsAreLive` and `NoOrphanConnection` carry each
  other: starting a goroutine cancels the one in `conns` and nothing else, a
  name that is reused is not in `conns`, and a goroutine ends only when its
  context is done.

* **Agent.**  `AgentInv` adds to `TypeOK` that the energy never decreases and
  stays within one turn of the counter (`EnergyInv`); that, while readings have
  not overlapped, at most one stream measures, the maps agree with each other
  whenever none does, and what the measuring stream holds in `prev` and `from`
  is a reading with its time (`MeterInv`); and that collectors are closed only
  in a process that has stopped (`CloseInv`).  A result that passes the checks
  then cannot come from before a turn: the counter would have gone back.

* **One stream's client.**  `DrainedCorrect` rests on `TipInv`: unless a
  broadcast is still to come to a client, the last snapshot on its way (in the
  channel, being written, or shown) is the aggregator's state.  A full channel
  leaves the client in `dropped`, which the property excepts.
* **Database store.**  `ConnectionsReturned` equates a counter with the size of
  two sets, the transactions and the open rows.  Each step moves one member or
  none, and the lemmas say what that does to a finite set's size.  For the
  refinement, `WholeBatches` says that a transaction holds a first part of its
  batch and its writer the rest, so that `Commit` is `Record`.  `Select` is
  `Answer`: an order of the rows is an injection of as many numbers into as many
  rows, hence a bijection.  A query that fails, `Exit` and `Crash` are `Fail`;
  every other step stutters, those that roll back a transaction among them.
* **Pod mapping.**  `MapInv` follows one listing: the mapper's list is that of
  `mapped`, a snapshot's pods are those of `taken`, and what is shown is that of
  `shown`.  That every pod is shown if the indices reach is a fact about
  `PodFor` alone: the places in a list are exactly the numbers below its length
  (`EveryPlaceIsTaken`), so that each place is the remainder of some index.  It is
  stated for the GPUs that are shown, since some may not have been read.
* **Collectors.**  `NVMLInv` ties NVML's count to the position of the code.
  `CompleteInv` says of each collector that was asked what `SnapshotIsComplete`
  says of the whole snapshot.  `IndexInv` remembers of every entry where its
  index and its UUID come from (`Known`): a rank among the devices of NVML or
  the cards found at the start, neither of which changes in a process; ranks of
  different numbers differ.  Nothing like it holds of the vendors' tools, which
  the theorem therefore leaves out.
* **Page.**  `LinkInv` adds to `OneLink` that a WebSocket that is alive is the
  one that the page holds, so that `ws.close()` closes it and no other.
  `GridInv` adds to `GridShowsMatches` that, outside `twins`, no two cards of a
  section have one UUID: then the map of cards has them all, and the diff of a row
  is right (`RowShowsGpus`: each of its cards has the UUID of the GPU it shows, so
  that two cards for one GPU would be one).  Where UUIDs are shared, `LastIsShown`
  is what remains.  `PanelInv` adds that, unless `spoiled`, all requests under way
  are for the panel.

Only checked by TLC, not proved: the properties that need fairness
(`StreamsNeverBlock`, `GoneClientIsUnregistered`, `ConnectedClientConverges`,
`WritesReturn` of both stores, `CloseEnds`, `DoneEnds`, `FollowsThePod`,
`AssignmentConverges`, `StreamEnds`, `StopEnds`, `Reconnects`), because liveness
and `ENABLED` are out of reach of the provers used here.
`DrainedClientIsCurrent` is false of several streams, and is checked and proved
of one.  Every other property of a run that passes is a theorem, both
refinements among them.

## 5. What is not modelled

* Metrics and their units (but for the power, the utilization and the video
  memory of an Intel card), JSON, HTTP parameters, logging, layout: data that no
  property speaks of.  `handleHistory`'s parsing and error answers and the
  routes for static files and health change no state.
* Protobuf code is generated; deployment files, CI and the WebSocket test client
  hold no state.  The documentation speaks of `STORAGE_RETENTION` and
  `AGENT_COLLECT_INTERVAL`; the code reads neither, and `ApplyRetention` has no
  caller.
* Removal of nodes: the code has none.  `nodeState` and `conns` only grow.
* A peer that vanishes without closing its connection: nothing in the code
  notices it, and fairness assumes that it does not happen.
* An agent on localhost, addresses that move between nodes, and two agent pods
  on one node at one time.
* In the agent: hours without a server in which a counter goes round unnoticed,
  the microseconds between `time.Now` and reading the file, and several cards
  with a counter.  Sysfs files are read in one step.
* The ten seconds that the HTTP server is given to shut down: `main` does not
  wait for them, so that what matters of the shutdown is what the store does
  under requests that are cut off, which is in `TimescaleStore`.
* In the feed: a snapshot that `json.Marshal` refuses, with a metric that is no
  number, which ends the handler like a failed write.
* On the page: the empty state and the number of GPUs.  The GPUs of a snapshot are
  in the order of their numbers in every snapshot.

## 6. Order of work, and what is left

The feed, as the heart of the server, came first; then the history with its
abstract specification, the connections, pod mapping and the database store, the
agent's streams, its collectors, and the page.  The safety properties of all of
them are proved, and so are the refinements of both stores.  Left are:

1. `AgentConnections` with addresses that move between nodes and with an agent
   on localhost, and a run in which a peer vanishes.
2. An abstract feed (a client's view is some past state of each node) that
   `WebSocketFeed` implements.
3. The composition of `Collectors` with the store: what a history shows when
   indices move between GPUs at a restart of the agent.
