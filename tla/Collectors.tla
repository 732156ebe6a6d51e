----------------------------- MODULE Collectors -----------------------------
(***************************************************************************)
(* The agent's collectors: AutoDetect, which asks each vendor's collector  *)
(* once, when the process starts, how it can read its GPUs; the snapshots  *)
(* that the agent's server collects from them; and Close at the end.       *)
(*                                                                         *)
(* What NVML, sysfs and the vendors' tools say of the same GPU differs in  *)
(* the index and the UUID, by which the history and the dashboard tell     *)
(* GPUs apart.  Drivers may be reloaded at any time; the DRM subsystem     *)
(* then numbers its cards anew.                                            *)
(*                                                                         *)
(* A collector's Collect is one step.  The metrics are left out, but for   *)
(* the two of an Intel card that are put together from several files.      *)
(***************************************************************************)
EXTENDS Naturals, FiniteSets

CONSTANTS
  Gpus,        \* numbers, in the order of the PCI addresses
  VendorOf,
  CardNumbers, \* what DRM may call a card, in the order of Glob
  NoCard,      \* the card is not there
  Freqs,       \* an Intel card's clock rates
  MaxReloads   \* bound: how often drivers are reloaded

Vendors == {"nvidia", "amd", "intel"}
SysfsVendors == {"amd", "intel"}

ASSUME CollectorsAssumption ==
  /\ Gpus \subseteq Nat /\ IsFiniteSet(Gpus)
  /\ VendorOf \in [Gpus -> Vendors]
  /\ CardNumbers \subseteq Nat /\ IsFiniteSet(CardNumbers)
  /\ NoCard \notin CardNumbers
  /\ Freqs \subseteq Nat
  /\ MaxReloads \in Nat

VARIABLES
  nvidia,    \* the NVIDIA GPUs that have a driver
  drm,       \* drm[g]: the number of the AMD or Intel GPU g's card
  reloads,   \* how often drivers have been reloaded
  moved,     \* history: one has been since the process started
  pc,        \* where the agent is
  turn,      \* the collector it is at
  active,    \* the collectors that AutoDetect has returned so far
  useNVML, nvmlInit,
  nvmlRefs,  \* NVML's own count of Init less Shutdown
  nvmlGpus,  \* the devices NVML has found at Init
  cards,     \* cards[v]: the card numbers in the collector's list
  useTool,   \* useTool[v]: useROCm and useXPUSMI
  gpus,      \* the snapshot's GPUs
  lost,      \* history: GPUs that could not be read for this snapshot
  earlier    \* history: a GPU of an earlier snapshot of this process that NVML or
             \* sysfs listed, or none

world == <<nvidia, drm, reloads, moved>>
nvml == <<useNVML, nvmlInit, nvmlRefs, nvmlGpus>>
sysfs == <<cards, useTool>>
snapshot == <<gpus, lost, earlier>>
vars == <<world, pc, turn, active, nvml, sysfs, snapshot>>

GpusOf(v) == {g \in Gpus : VendorOf[g] = v}
DrmGpus == GpusOf("amd") \cup GpusOf("intel")

\* What a driver reload may leave: no two cards have one number.
Numberings ==
  {d \in [DrmGpus -> CardNumbers \cup {NoCard}] :
     \A g, h \in DrmGpus : d[g] = d[h] => g = h \/ d[g] = NoCard}

\* The GPUs of vendor v that have a driver.
Present(v) ==
  IF v = "nvidia" THEN nvidia ELSE {g \in GpusOf(v) : drm[g] # NoCard}

\* The GPU that is card n, if any.
Card(n) == {g \in DrmGpus : drm[g] = n}

\* The position of n in the list of S, counted from 0.
Rank(n, S) == Cardinality({m \in S : m < n})

Uuids == {"gpu", "card", "xpu", "text"} \X Nat
NoUuid == <<"", 0>>  \* it could not be read

(***************************************************************************)
(* Readings of an Intel card: utilization and video memory.                *)
(***************************************************************************)

\* Faulty Percent: not clamped.
Ratio(cur, max) == (cur * 100) \div max

\* A boosted clock may exceed the maximum in the file.
Percent(cur, max) == IF cur > max THEN 100 ELSE (cur * 100) \div max

\* The first pair of files that both can be read, with a maximum above 0.
Utilizations ==
  {0} \cup {Percent(cur, max) : cur \in Freqs, max \in Freqs \ {0}}

VramFiles == {"lmemUsed", "lmemTotal", "clients", "clientTotal", "debugfs", "bar"}

\* Where used and total come from if the files f can be read.
Vram(f) ==
  LET lmem == IF "lmemUsed" \in f THEN "lmem" ELSE "none"
      sum == IF "clients" \in f THEN "clients" ELSE lmem
  IN  CASE "lmemTotal" \in f -> [used |-> lmem, total |-> "lmem"]
        [] "lmemTotal" \notin f /\ {"clients", "clientTotal"} \subseteq f ->
             [used |-> "clients", total |-> "clients"]
        [] OTHER ->
             [used |-> IF "debugfs" \in f THEN "debugfs" ELSE sum,
              total |-> IF "bar" \in f THEN "bar" ELSE "none"]

\* A total of local memory or of the clients comes with a use of the same
\* source; only the size of a PCI region comes with anybody's.
Vrams ==
  [used : {"none", "lmem"}, total : {"lmem"}]
    \cup [used : {"clients"}, total : {"clients"}]
    \cup [used : {"none", "lmem", "clients", "debugfs"}, total : {"none", "bar"}]

Reading == [util : 0 .. 100, vram : Vrams]
\* The vendor's library, tool or driver gives all metrics.
Given == [util |-> 0, vram |-> [used |-> "none", total |-> "none"]]

Readings(v) ==
  IF v = "intel"
  THEN [util : Utilizations, vram : {Vram(f) : f \in SUBSET VramFiles}]
  ELSE {Given}

Gpu == [vendor : Vendors, index : Nat, uuid : Uuids \cup {NoUuid},
        gpu : SUBSET Gpus]

-----------------------------------------------------------------------------
TypeOK ==
  /\ nvidia \subseteq GpusOf("nvidia")
  /\ drm \in Numberings
  /\ reloads \in 0 .. MaxReloads
  /\ moved \in BOOLEAN
  /\ pc \in {"init", "count", "smi", "sysfs", "tool",
             "idle", "collect", "send", "closed"}
  /\ turn \in Vendors
  /\ active \subseteq Vendors
  /\ useNVML \in BOOLEAN /\ nvmlInit \in BOOLEAN
  /\ nvmlRefs \in Nat
  /\ nvmlGpus \subseteq Gpus
  /\ cards \in [SysfsVendors -> SUBSET CardNumbers]
  /\ useTool \in [SysfsVendors -> BOOLEAN]
  /\ gpus \subseteq [of : Gpu, reading : Reading]
  /\ lost \subseteq Gpus
  /\ earlier \subseteq Gpu

Init ==
  /\ nvidia \in SUBSET GpusOf("nvidia")
  /\ drm \in Numberings
  /\ reloads = 0
  /\ pc = "init"
  /\ turn = "nvidia"
  /\ moved = FALSE
  /\ active = {}
  /\ useNVML = FALSE /\ nvmlInit = FALSE
  /\ nvmlRefs = 0
  /\ nvmlGpus = {}
  /\ cards = [v \in SysfsVendors |-> {}]
  /\ useTool = [v \in SysfsVendors |-> FALSE]
  /\ gpus = {} /\ lost = {} /\ earlier = {}

\* Drivers are loaded, unloaded or reloaded.  An NVIDIA GPU keeps its driver
\* while NVML has its device open.  What moves while a snapshot is collected
\* may be missing in it.
Reload ==
  /\ reloads < MaxReloads
  /\ reloads' = reloads + 1
  /\ drm' \in Numberings
  /\ nvidia' \in SUBSET GpusOf("nvidia")
  /\ nvmlRefs > 0 => nvmlGpus \subseteq nvidia'
  /\ moved' = TRUE
  /\ lost' = IF pc \in {"collect", "send"}
             THEN lost \cup {g \in DrmGpus : drm'[g] # drm[g]} \cup (nvidia' \ nvidia)
             ELSE lost
  /\ UNCHANGED <<pc, turn, active, nvml, sysfs, gpus, earlier>>

-----------------------------------------------------------------------------
(* AutoDetect.                                                             *)

\* The next candidate, after one that returned found.
Detected(v, found) ==
  /\ active' = IF found THEN active \cup {v} ELSE active
  /\ turn' = CASE v = "nvidia" -> "amd" [] v = "amd" -> "intel" [] v = "intel" -> "nvidia"
  /\ pc' = IF v = "intel" THEN "idle" ELSE "sysfs"

NvmlInits ==
  /\ pc = "init"
  /\ nvmlRefs' = nvmlRefs + 1
  /\ nvmlGpus' = Present("nvidia")
  /\ pc' = "count"
  /\ UNCHANGED <<world, turn, active, useNVML, nvmlInit, sysfs, snapshot>>

\* The library is not installed, or there is no driver.
NvmlFails ==
  /\ pc = "init"
  /\ pc' = "smi"
  /\ UNCHANGED <<world, turn, active, nvml, sysfs, snapshot>>

NvmlCounts ==
  /\ pc = "count"
  /\ nvmlGpus # {}
  /\ useNVML' = TRUE
  /\ nvmlInit' = TRUE
  /\ Detected("nvidia", TRUE)
  /\ UNCHANGED <<world, nvmlRefs, nvmlGpus, sysfs, snapshot>>

\* Faulty NvmlCountFails: without the Shutdown.
NvmlLeaks ==
  /\ pc = "count"
  /\ pc' = "smi"
  /\ UNCHANGED <<world, turn, active, nvml, sysfs, snapshot>>

\* DeviceGetCount fails, or says 0.
NvmlCountFails ==
  /\ pc = "count"
  /\ nvmlRefs' = nvmlRefs - 1
  /\ nvmlGpus' = {}
  /\ pc' = "smi"
  /\ UNCHANGED <<world, turn, active, useNVML, nvmlInit, sysfs, snapshot>>

\* nvidia-smi -L may print something on a node without a GPU, too.
DetectSMI ==
  /\ pc = "smi"
  /\ \E found \in BOOLEAN : Detected("nvidia", found)
  /\ UNCHANGED <<world, nvml, sysfs, snapshot>>

\* The cards of vendor v whose vendor file can be read.
Discoverable(v) == SUBSET {drm[g] : g \in Present(v)}

DiscoverSysfs(v) ==
  /\ pc = "sysfs"
  /\ turn = v
  /\ \E found \in Discoverable(v) :
       \/ /\ found # {}
          /\ cards' = [cards EXCEPT ![v] = found]
          /\ Detected(v, TRUE)
       \/ /\ found = {}
          /\ pc' = "tool"
          /\ UNCHANGED <<turn, active, cards>>
  /\ UNCHANGED <<world, nvml, useTool, snapshot>>

\* rocm-smi and xpu-smi.
DetectTool(v) ==
  /\ pc = "tool"
  /\ turn = v
  /\ \E found \in BOOLEAN :
       /\ useTool' = [useTool EXCEPT ![v] = found]
       /\ Detected(v, found)
  /\ UNCHANGED <<world, nvml, cards, snapshot>>

Detect ==
  \/ NvmlInits \/ NvmlFails \/ NvmlCounts \/ NvmlCountFails \/ DetectSMI
  \/ \E v \in SysfsVendors : DiscoverSysfs(v) \/ DetectTool(v)

-----------------------------------------------------------------------------
(* AgentServer.collect and the collectors' Collect.                        *)

Tick ==
  /\ pc = "idle"
  /\ gpus' = {} /\ lost' = {}
  /\ pc' = "collect"
  /\ turn' = "nvidia"
  /\ UNCHANGED <<world, active, nvml, sysfs, earlier>>

At(v) == pc = "collect" /\ turn = v

\* The collector's GPUs are appended, those in missed are not among them.
Collected(v, list, missed) ==
  /\ gpus' = gpus \cup list
  /\ lost' = lost \cup missed
  /\ pc' = IF v = "intel" THEN "send" ELSE "collect"
  /\ turn' = CASE v = "nvidia" -> "amd" [] v = "amd" -> "intel" [] v = "intel" -> "nvidia"
  /\ UNCHANGED <<world, active, nvml, sysfs, earlier>>

\* AutoDetect has not returned it.
Inactive(v) ==
  /\ At(v)
  /\ v \notin active
  /\ Collected(v, {}, {})

\* A listed GPU that gives all its metrics.
Listed(v, index, uuid, g) ==
  [of |-> [vendor |-> v, index |-> index, uuid |-> uuid, gpu |-> {g}],
   reading |-> Given]

\* The GPUs of v that its collector would list if nothing failed.
Due(v) ==
  IF v = "nvidia" /\ useNVML THEN nvmlGpus
  ELSE IF v \in SysfsVendors /\ ~useTool[v] THEN {g \in Present(v) : drm[g] \in cards[v]}
  ELSE Present(v)

\* Faulty CollectFails: the other collectors' GPUs are given up, too.
CollectEnds(v) ==
  /\ At(v)
  /\ v \in active
  /\ v \in SysfsVendors => useTool[v]
  /\ lost' = lost \cup Due(v)
  /\ pc' = "send"
  /\ turn' = "nvidia"
  /\ UNCHANGED <<world, active, nvml, sysfs, gpus, earlier>>

\* The library or the tool fails.  sysfs does not.
CollectFails(v) ==
  /\ At(v)
  /\ v \in active
  /\ v \in SysfsVendors => useTool[v]
  /\ Collected(v, {}, Due(v))

\* Faulty CollectNVML: the index is the position in the answer.
CollectDensely ==
  /\ At("nvidia") /\ useNVML
  /\ \E bad, mute \in SUBSET nvmlGpus :
       Collected("nvidia",
         {Listed("nvidia", Rank(g, nvmlGpus \ bad),
                 IF g \in mute THEN NoUuid ELSE <<"gpu", g>>, g) : g \in nvmlGpus \ bad},
         bad)

\* Devices without a handle are left out, a UUID that cannot be read is "".
CollectNVML ==
  /\ At("nvidia") /\ useNVML
  /\ \E bad, mute \in SUBSET nvmlGpus :
       Collected("nvidia",
         {Listed("nvidia", Rank(g, nvmlGpus),
                 IF g \in mute THEN NoUuid ELSE <<"gpu", g>>, g) : g \in nvmlGpus \ bad},
         bad)

\* An index that is no number is 0, and the UUID is what the tool prints, which
\* may be an error's text.
SMIRow(g, due, odd, mute) ==
  Listed("nvidia", IF g \in odd THEN 0 ELSE Rank(g, due),
         IF g \in mute THEN <<"text", 0>> ELSE <<"gpu", g>>, g)

\* Rows that do not have their eight fields are left out.
CollectSMI ==
  /\ At("nvidia") /\ "nvidia" \in active /\ ~useNVML
  /\ LET due == Present("nvidia")
     IN  \E short, odd, mute \in SUBSET due :
           Collected("nvidia", {SMIRow(g, due, odd, mute) : g \in due \ short}, short)

\* One entry for each card found at the start, whether or not it is still
\* there.  The UUID is the base name of the link /sys/class/drm/cardN.
CollectSysfs(v) ==
  /\ At(v) /\ v \in active /\ ~useTool[v]
  /\ \E reading \in [cards[v] -> Readings(v)] :
       Collected(v,
         {[of |-> [vendor |-> v, index |-> Rank(n, cards[v]),
                   uuid |-> IF Card(n) = {} THEN NoUuid ELSE <<"card", n>>,
                   gpu |-> Card(n)],
           reading |-> reading[n]] : n \in cards[v]},
         {})

\* The order in which Go visits the map of rocm-smi's cards.
Orders(S) ==
  {o \in [S -> 0 .. Cardinality(S) - 1] : \A g, h \in S : o[g] = o[h] => g = h}

CollectROCm ==
  /\ At("amd") /\ useTool["amd"]
  /\ \E index \in Orders(Present("amd")) :
       Collected("amd",
         {Listed("amd", index[g], <<"card", Rank(g, Present("amd"))>>, g) :
            g \in Present("amd")},
         {})

\* An id that is missing or no number is 0; index and UUID are made from it.
XPUSMIRow(g, due, odd) ==
  LET id == IF g \in odd THEN 0 ELSE Rank(g, due)
  IN  Listed("intel", id, <<"xpu", id>>, g)

\* Rows that are shorter than the header are left out.
CollectXPUSMI ==
  /\ At("intel") /\ useTool["intel"]
  /\ LET due == Present("intel")
     IN  \E short, odd \in SUBSET due :
           Collected("intel", {XPUSMIRow(g, due, odd) : g \in due \ short}, short)

Collect ==
  \/ \E v \in Vendors : Inactive(v) \/ CollectFails(v)
  \/ CollectNVML \/ CollectSMI
  \/ \E v \in SysfsVendors : CollectSysfs(v)
  \/ CollectROCm \/ CollectXPUSMI

\* It is listed by NVML or sysfs and not by a tool.
ByDriver(e) == IF e.vendor = "nvidia" THEN useNVML ELSE ~useTool[e.vendor]

\* stream.Send, which may fail.
Send ==
  /\ pc = "send"
  /\ \/ UNCHANGED earlier
     \/ earlier = {} /\ \E e \in gpus : ByDriver(e.of) /\ earlier' = {e.of}
  /\ gpus' = {} /\ lost' = {}
  /\ pc' = "idle"
  /\ UNCHANGED <<world, turn, active, nvml, sysfs>>

\* main's goroutine closes the collectors when no stream is left.
Close ==
  /\ pc = "idle"
  /\ nvmlRefs' = IF nvmlInit THEN nvmlRefs - 1 ELSE nvmlRefs
  /\ nvmlInit' = FALSE
  /\ pc' = "closed"
  /\ UNCHANGED <<world, turn, active, useNVML, nvmlGpus, sysfs, snapshot>>

\* The process ends, or is killed, and the container is restarted.
Restart ==
  /\ pc # "init"
  /\ pc' = "init"
  /\ turn' = "nvidia"
  /\ moved' = FALSE
  /\ active' = {}
  /\ useNVML' = FALSE /\ nvmlInit' = FALSE
  /\ nvmlRefs' = 0
  /\ nvmlGpus' = {}
  /\ cards' = [v \in SysfsVendors |-> {}]
  /\ useTool' = [v \in SysfsVendors |-> FALSE]
  /\ gpus' = {} /\ lost' = {} /\ earlier' = {}
  /\ UNCHANGED <<nvidia, drm, reloads>>

Next == Reload \/ Detect \/ Tick \/ Collect \/ Send \/ Close \/ Restart

Spec == Init /\ [][Next]_vars

-----------------------------------------------------------------------------
(* Properties.                                                             *)

\* A collector or a GPU that fails takes nothing else with it: a GPU that its
\* collector has found and that could be read is in the snapshot.
SnapshotIsComplete ==
  pc = "send" =>
    \A v \in active : \A g \in Due(v) \ lost :
      \E e \in gpus : e.of.vendor = v /\ g \in e.of.gpu

\* Entries that may be compared: the present snapshot's and an earlier one's.
Seen == earlier \cup {e.of : e \in gpus}

\* For GPUs that NVML or sysfs lists, the index, by which the history tells a
\* vendor's GPUs apart, and the UUID, by which the dashboard does, mean the same
\* thing as long as the process lives, whatever fails, and the same GPU as long as
\* no driver is reloaded.  What the vendors' tools print is not like that: a row
\* whose index is no number counts as 0, and rocm-smi's cards come in any order.
IndexIsTheUuid ==
  \A e, f \in Seen :
    e.vendor = f.vendor /\ ByDriver(e)
      => /\ NoUuid \notin {e.uuid, f.uuid} => (e.index = f.index <=> e.uuid = f.uuid)
         /\ ~moved => (e.index = f.index <=> e.gpu = f.gpu)

\* What the comments say of the UUID that sysfs gives, "UUID from PCI address":
\* two entries of a vendor have the same one if and only if they are the same GPU,
\* which has its PCI address whatever number DRM gives its card.
UuidIsThePciAddress ==
  \A e, f \in Seen :
    (/\ e.vendor = f.vendor /\ e.vendor \in SysfsVendors /\ ByDriver(e)
     /\ NoUuid \notin {e.uuid, f.uuid})
      => (e.uuid = f.uuid <=> e.gpu = f.gpu)

\* NVML is shut down as often as it is initialised, by the time the collectors
\* are closed, and never before it is used.
NVMLBalanced ==
  /\ pc = "closed" => nvmlRefs = 0
  /\ useNVML /\ pc \in {"idle", "collect", "send"} => nvmlRefs > 0
  /\ nvmlRefs <= 1
=============================================================================
