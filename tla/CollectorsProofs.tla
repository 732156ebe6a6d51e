--------------------------- MODULE CollectorsProofs ---------------------------
(***************************************************************************)
(* The invariants of the collectors, for any GPUs and any driver reloads.  *)
(***************************************************************************)
EXTENDS Collectors, FiniteSetTheorems, TLAPS

-----------------------------------------------------------------------------
(* Positions in a list.                                                    *)

LEMMA FiniteLists ==
  /\ \A S \in SUBSET Gpus : IsFiniteSet(S) /\ S \subseteq Nat
  /\ \A S \in SUBSET CardNumbers : IsFiniteSet(S) /\ S \subseteq Nat
BY CollectorsAssumption, FS_Subset

LEMMA RankType ==
  ASSUME NEW S \in SUBSET Nat, IsFiniteSet(S), NEW n \in Nat
  PROVE  Rank(n, S) \in Nat
<1>1. {m \in S : m < n} \in SUBSET S
  OBVIOUS
<1>2. IsFiniteSet({m \in S : m < n})
  BY <1>1, FS_Subset
<1>. QED
  BY <1>2, FS_CardinalityType DEF Rank

LEMMA RankIncreases ==
  ASSUME NEW S \in SUBSET Nat, IsFiniteSet(S), NEW m \in S, NEW n \in S, m < n
  PROVE  Rank(m, S) < Rank(n, S)
<1>. DEFINE M == {k \in S : k < m}
            N == {k \in S : k < n}
<1>0. \A k \in S : k \in Nat
  OBVIOUS
<1>1. M \in SUBSET N /\ m \in N /\ m \notin M /\ N \in SUBSET S
  <2>1. ASSUME NEW k \in M PROVE k \in N
    <3>1. k \in Nat /\ m \in Nat /\ n \in Nat /\ k \in S /\ k < m
      BY <1>0
    <3>2. k < n
      BY <3>1
    <3>. QED
      BY <3>1, <3>2
  <2>2. m \in N /\ m \notin M
    BY <1>0
  <2>. QED
    BY <2>1, <2>2
<1>2. IsFiniteSet(N) /\ IsFiniteSet(M)
  BY <1>1, FS_Subset
<1>3. Cardinality(M) <= Cardinality(N) /\ Cardinality(M) # Cardinality(N)
  BY <1>1, <1>2, FS_Subset
<1>4. Cardinality(M) \in Nat /\ Cardinality(N) \in Nat
  BY <1>2, FS_CardinalityType
<1>5. Cardinality(M) < Cardinality(N)
  BY <1>3, <1>4
<1>. QED
  BY <1>5 DEF Rank

\* No two members of a list have the same position.
LEMMA RankInjective ==
  ASSUME NEW S \in SUBSET Nat, IsFiniteSet(S), NEW m \in S, NEW n \in S,
         Rank(m, S) = Rank(n, S)
  PROVE  m = n
<1>1. Rank(m, S) \in Nat
  BY RankType
<1>2. CASE m < n
  BY <1>1, <1>2, RankIncreases
<1>3. CASE n < m
  BY <1>1, <1>3, RankIncreases
<1>. QED
  BY <1>2, <1>3

-----------------------------------------------------------------------------
(* The readings of an Intel card.                                          *)

\* The utilization is a percentage, whatever the two files say.
LEMMA PercentType ==
  ASSUME NEW cur \in Nat, NEW max \in Nat \ {0}
  PROVE  Percent(cur, max) \in 0 .. 100
<1>1. CASE cur > max
  BY <1>1 DEF Percent
<1>2. CASE cur <= max
  <2>. DEFINE q == (cur * 100) \div max
  <2>1. q \in Nat /\ max * q <= cur * 100
    BY Z3
  <2>2. q <= 100
    <3>1. SUFFICES ASSUME q >= 101 PROVE FALSE
      BY <2>1
    <3>2. max * q >= max * 101
      BY <2>1, <3>1, Z3
    <3>3. max * 101 > cur * 100
      BY <1>2
    <3>. QED
      BY <2>1, <3>2, <3>3
  <2>. QED
    BY <1>2, <2>1, <2>2 DEF Percent
<1>. QED
  BY <1>1, <1>2

\* A total that is read from the card's memory or its clients goes with a use
\* of the same source.
LEMMA VramType == ASSUME NEW f \in SUBSET VramFiles PROVE Vram(f) \in Vrams
BY DEF Vram, Vrams

LEMMA ReadingsType ==
  ASSUME NEW v \in Vendors
  PROVE  Readings(v) \subseteq Reading
<1>1. Utilizations \subseteq 0 .. 100
  BY PercentType, CollectorsAssumption DEF Utilizations
<1>2. {Vram(f) : f \in SUBSET VramFiles} \subseteq Vrams
  BY VramType
<1>3. Given \in Reading
  BY DEF Given, Reading, Vrams
<1>. QED
  BY <1>1, <1>2, <1>3 DEF Readings, Reading

-----------------------------------------------------------------------------
(* Types, and NVML's count.                                                *)

\* NVML is initialised while its devices are counted, and from then on if it
\* is used; nothing has been collected before AutoDetect has returned.
NVMLInv ==
  /\ nvmlRefs = IF pc = "count" \/ nvmlInit THEN 1 ELSE 0
  /\ pc \in {"init", "count", "smi"} => ~nvmlInit /\ ~useNVML
  /\ useNVML /\ pc # "closed" => nvmlInit
  /\ pc = "closed" => ~nvmlInit

LEMMA InitTypeOK == Init => TypeOK /\ NVMLInv
<1>. SUFFICES ASSUME Init PROVE TypeOK /\ NVMLInv
  OBVIOUS
<1>1. cards \in [SysfsVendors -> SUBSET CardNumbers]
  BY DEF Init
<1>2. useTool \in [SysfsVendors -> BOOLEAN]
  BY DEF Init
<1>3. gpus \subseteq [of : Gpu, reading : Reading] /\ lost \subseteq Gpus /\ earlier \subseteq Gpu
  BY DEF Init
<1>4. nvidia \subseteq GpusOf("nvidia") /\ drm \in Numberings
  BY DEF Init
<1>5. reloads \in 0 .. MaxReloads /\ nvmlRefs \in Nat /\ nvmlGpus \subseteq Gpus
  BY CollectorsAssumption DEF Init
<1>6. TypeOK
  <2>1. /\ pc = "init" /\ turn = "nvidia" /\ moved = FALSE /\ active = {}
        /\ useNVML = FALSE /\ nvmlInit = FALSE
    BY DEF Init
  <2>. QED
    BY <1>1, <1>2, <1>3, <1>4, <1>5, <2>1 DEF TypeOK, Vendors
<1>7. NVMLInv
  BY DEF Init, NVMLInv
<1>. QED
  BY <1>6, <1>7

LEMMA PresentType ==
  ASSUME TypeOK, NEW v \in Vendors
  PROVE  Present(v) \in SUBSET Gpus
BY DEF TypeOK, Present, GpusOf

\* The vendor's list of entries is what Collected is given.
LEMMA CollectedType ==
  ASSUME TypeOK, NEW v \in Vendors, NEW list, NEW missed,
         list \subseteq [of : Gpu, reading : Reading], missed \subseteq Gpus,
         Collected(v, list, missed)
  PROVE  TypeOK'
BY DEF TypeOK, Collected, world, nvml, sysfs, Vendors, Numberings, DrmGpus, GpusOf

LEMMA ListedType ==
  ASSUME NEW v \in Vendors, NEW g \in Gpus, NEW index \in Nat,
         NEW uuid \in Uuids \cup {NoUuid}
  PROVE  Listed(v, index, uuid, g) \in [of : Gpu, reading : Reading]
<1>1. Given \in Reading
  BY DEF Given, Reading, Vrams
<1>. QED
  BY <1>1 DEF Listed, Gpu

LEMMA DetectTypeOK ==
  ASSUME TypeOK, NVMLInv, Detect
  PROVE  TypeOK' /\ NVMLInv'
<1>. USE DEF NVMLInv
<1>1. CASE NvmlInits
  <2>1. nvmlRefs' = 1 /\ nvmlGpus' \subseteq Gpus
    BY <1>1, PresentType DEF NvmlInits, Vendors
  <2>. QED
    BY <1>1, <2>1
       DEF NvmlInits, TypeOK, world, sysfs, snapshot, Numberings, DrmGpus, GpusOf
<1>2. CASE NvmlFails
  BY <1>2 DEF NvmlFails, TypeOK, world, nvml, sysfs, snapshot, Numberings, DrmGpus, GpusOf
<1>3. CASE NvmlCounts
  BY <1>3 DEF NvmlCounts, Detected, TypeOK, Vendors, world, sysfs, snapshot,
              Numberings, DrmGpus, GpusOf
<1>4. CASE NvmlCountFails
  <2>1. nvmlRefs' = 0 /\ ~nvmlInit
    BY <1>4 DEF NvmlCountFails
  <2>. QED
    BY <1>4, <2>1
       DEF NvmlCountFails, TypeOK, world, sysfs, snapshot, Numberings, DrmGpus, GpusOf
<1>5. CASE DetectSMI
  BY <1>5 DEF DetectSMI, Detected, TypeOK, Vendors, world, nvml, sysfs, snapshot,
              Numberings, DrmGpus, GpusOf
<1>6. ASSUME NEW v \in SysfsVendors, DiscoverSysfs(v) PROVE TypeOK' /\ NVMLInv'
  <2>1. PICK found \in Discoverable(v) :
          \/ /\ found # {}
             /\ cards' = [cards EXCEPT ![v] = found]
             /\ Detected(v, TRUE)
          \/ /\ found = {}
             /\ pc' = "tool"
             /\ UNCHANGED <<turn, active, cards>>
    BY <1>6 DEF DiscoverSysfs
  <2>2. found \subseteq CardNumbers
    BY DEF Discoverable, Present, TypeOK, Numberings, DrmGpus, GpusOf, SysfsVendors
  <2>3. cards' \in [SysfsVendors -> SUBSET CardNumbers]
    BY <2>1, <2>2 DEF TypeOK
  <2>4. v \in Vendors
    BY DEF SysfsVendors, Vendors
  <2>. QED
    BY <1>6, <2>1, <2>3, <2>4
       DEF DiscoverSysfs, Detected, TypeOK, Vendors, world, nvml, snapshot,
           Numberings, DrmGpus, GpusOf
<1>7. ASSUME NEW v \in SysfsVendors, DetectTool(v) PROVE TypeOK' /\ NVMLInv'
  <2>1. PICK found \in BOOLEAN : useTool' = [useTool EXCEPT ![v] = found] /\ Detected(v, found)
    BY <1>7 DEF DetectTool
  <2>2. v \in Vendors
    BY DEF SysfsVendors, Vendors
  <2>3. useTool' \in [SysfsVendors -> BOOLEAN]
    BY <2>1 DEF TypeOK
  <2>. QED
    BY <1>7, <2>1, <2>2, <2>3
       DEF DetectTool, Detected, TypeOK, Vendors, world, nvml, snapshot,
           Numberings, DrmGpus, GpusOf
<1>. QED
  BY <1>1, <1>2, <1>3, <1>4, <1>5, <1>6, <1>7 DEF Detect

LEMMA UuidType == \A n \in Nat : {<<"gpu", n>>, <<"card", n>>, <<"xpu", n>>, <<"text", n>>} \subseteq Uuids
BY DEF Uuids

LEMMA CollectTypeOK ==
  ASSUME TypeOK, NVMLInv, Collect
  PROVE  TypeOK' /\ NVMLInv'
<1>0. \A S \in SUBSET Gpus, g \in Gpus : Rank(g, S) \in Nat
  BY RankType, FiniteLists, CollectorsAssumption
<1>1. ASSUME NEW v \in Vendors, Inactive(v) PROVE TypeOK' /\ NVMLInv'
  <2>1. TypeOK'
    BY <1>1, CollectedType DEF Inactive
  <2>. QED
    BY <1>1, <2>1 DEF Inactive, Collected, At, NVMLInv, nvml
<1>2. ASSUME NEW v \in Vendors, CollectFails(v) PROVE TypeOK' /\ NVMLInv'
  <2>1. Due(v) \subseteq Gpus
    BY PresentType DEF Due, TypeOK
  <2>2. TypeOK'
    BY <1>2, <2>1, CollectedType DEF CollectFails
  <2>. QED
    BY <1>2, <2>2 DEF CollectFails, Collected, At, NVMLInv, nvml
<1>3. CASE CollectNVML
  <2>1. PICK bad \in SUBSET nvmlGpus, mute \in SUBSET nvmlGpus :
          Collected("nvidia",
            {Listed("nvidia", Rank(g, nvmlGpus),
                    IF g \in mute THEN NoUuid ELSE <<"gpu", g>>, g) : g \in nvmlGpus \ bad},
            bad)
    BY <1>3 DEF CollectNVML
  <2>2. nvmlGpus \subseteq Gpus /\ "nvidia" \in Vendors
    BY DEF TypeOK, Vendors
  <2>3. ASSUME NEW g \in nvmlGpus
        PROVE  Listed("nvidia", Rank(g, nvmlGpus),
                      IF g \in mute THEN NoUuid ELSE <<"gpu", g>>, g)
                 \in [of : Gpu, reading : Reading]
    <3>1. g \in Nat /\ Rank(g, nvmlGpus) \in Nat
      BY <1>0, <2>2, CollectorsAssumption
    <3>2. (IF g \in mute THEN NoUuid ELSE <<"gpu", g>>) \in Uuids \cup {NoUuid}
      BY <3>1, UuidType
    <3>. QED
      BY <2>2, <3>1, <3>2, ListedType
  <2>4. TypeOK'
    BY <2>1, <2>2, <2>3, CollectedType
  <2>. QED
    BY <1>3, <2>1, <2>4 DEF CollectNVML, Collected, At, NVMLInv, nvml
<1>4. CASE CollectSMI
  <2>. DEFINE P == Present("nvidia")
  <2>1. P \subseteq Gpus /\ "nvidia" \in Vendors
    BY PresentType DEF Vendors
  <2>2. PICK short \in SUBSET P, odd \in SUBSET P, mute \in SUBSET P :
          Collected("nvidia", {SMIRow(g, P, odd, mute) : g \in P \ short}, short)
    BY <1>4 DEF CollectSMI
  <2>3. ASSUME NEW g \in P
        PROVE  SMIRow(g, P, odd, mute) \in [of : Gpu, reading : Reading]
    <3>1. g \in Gpus /\ g \in Nat /\ Rank(g, P) \in Nat
      BY <1>0, <2>1, CollectorsAssumption
    <3>2. (IF g \in odd THEN 0 ELSE Rank(g, P)) \in Nat
      BY <3>1
    <3>3. (IF g \in mute THEN <<"text", 0>> ELSE <<"gpu", g>>) \in Uuids \cup {NoUuid}
      BY <3>1, UuidType
    <3>. QED
      BY <2>1, <3>1, <3>2, <3>3, ListedType DEF SMIRow
  <2>. HIDE DEF P
  <2>4. TypeOK'
    BY <2>1, <2>2, <2>3, CollectedType
  <2>. QED
    BY <1>4, <2>2, <2>4 DEF CollectSMI, Collected, At, NVMLInv, nvml
<1>5. ASSUME NEW v \in SysfsVendors, CollectSysfs(v) PROVE TypeOK' /\ NVMLInv'
  <2>1. PICK reading \in [cards[v] -> Readings(v)] :
          Collected(v,
            {[of |-> [vendor |-> v, index |-> Rank(n, cards[v]),
                      uuid |-> IF Card(n) = {} THEN NoUuid ELSE <<"card", n>>,
                      gpu |-> Card(n)],
              reading |-> reading[n]] : n \in cards[v]},
            {})
    BY <1>5 DEF CollectSysfs
  <2>2. v \in Vendors /\ cards[v] \in SUBSET CardNumbers
    BY DEF TypeOK, SysfsVendors, Vendors
  <2>3. ASSUME NEW n \in cards[v]
        PROVE  [of |-> [vendor |-> v, index |-> Rank(n, cards[v]),
                        uuid |-> IF Card(n) = {} THEN NoUuid ELSE <<"card", n>>,
                        gpu |-> Card(n)],
                reading |-> reading[n]] \in [of : Gpu, reading : Reading]
    <3>1. n \in Nat /\ Rank(n, cards[v]) \in Nat
      BY <2>2, RankType, FiniteLists
    <3>2. Card(n) \subseteq Gpus
      BY DEF Card, DrmGpus, GpusOf
    <3>3. reading[n] \in Reading
      BY <2>2, ReadingsType
    <3>4. (IF Card(n) = {} THEN NoUuid ELSE <<"card", n>>) \in Uuids \cup {NoUuid}
      BY <3>1, UuidType
    <3>. QED
      BY <2>2, <3>1, <3>2, <3>3, <3>4 DEF Gpu
  <2>4. TypeOK'
    BY <2>1, <2>2, <2>3, CollectedType
  <2>. QED
    BY <1>5, <2>1, <2>4 DEF CollectSysfs, Collected, At, NVMLInv, nvml
<1>6. CASE CollectROCm
  <2>. DEFINE P == Present("amd")
  <2>1. P \subseteq Gpus /\ "amd" \in Vendors
    BY PresentType DEF Vendors
  <2>2. PICK index \in Orders(P) :
          Collected("amd", {Listed("amd", index[g], <<"card", Rank(g, P)>>, g) : g \in P}, {})
    BY <1>6 DEF CollectROCm
  <2>3. ASSUME NEW g \in P
        PROVE  Listed("amd", index[g], <<"card", Rank(g, P)>>, g) \in [of : Gpu, reading : Reading]
    <3>1. Rank(g, P) \in Nat /\ g \in Gpus
      BY <1>0, <2>1
    <3>2. index[g] \in Nat
      <4>1. Cardinality(P) \in Nat
        BY <2>1, FiniteLists, FS_CardinalityType
      <4>. QED
        BY <2>2, <4>1 DEF Orders
    <3>. QED
      BY <2>1, <3>1, <3>2, ListedType, UuidType
  <2>4. {Listed("amd", index[g], <<"card", Rank(g, P)>>, g) : g \in P}
          \subseteq [of : Gpu, reading : Reading]
    BY <2>3
  <2>. HIDE DEF P
  <2>5. TypeOK'
    BY <2>1, <2>2, <2>4, CollectedType
  <2>. QED
    BY <1>6, <2>2, <2>5 DEF CollectROCm, Collected, At, NVMLInv, nvml
<1>7. CASE CollectXPUSMI
  <2>. DEFINE P == Present("intel")
  <2>1. P \subseteq Gpus /\ "intel" \in Vendors
    BY PresentType DEF Vendors
  <2>2. PICK short \in SUBSET P, odd \in SUBSET P :
          Collected("intel", {XPUSMIRow(g, P, odd) : g \in P \ short}, short)
    BY <1>7 DEF CollectXPUSMI
  <2>3. ASSUME NEW g \in P
        PROVE  XPUSMIRow(g, P, odd) \in [of : Gpu, reading : Reading]
    <3>1. (IF g \in odd THEN 0 ELSE Rank(g, P)) \in Nat /\ g \in Gpus
      BY <1>0, <2>1
    <3>. QED
      BY <2>1, <3>1, ListedType, UuidType DEF XPUSMIRow
  <2>4. {XPUSMIRow(g, P, odd) : g \in P \ short} \subseteq [of : Gpu, reading : Reading]
    BY <2>3
  <2>. HIDE DEF P
  <2>5. TypeOK'
    BY <2>1, <2>2, <2>4, CollectedType
  <2>. QED
    BY <1>7, <2>2, <2>5 DEF CollectXPUSMI, Collected, At, NVMLInv, nvml
<1>. QED
  BY <1>1, <1>2, <1>3, <1>4, <1>5, <1>6, <1>7 DEF Collect

LEMMA NextTypeOK == TypeOK /\ NVMLInv /\ [Next]_vars => TypeOK' /\ NVMLInv'
<1>. SUFFICES ASSUME TypeOK, NVMLInv, [Next]_vars PROVE TypeOK' /\ NVMLInv'
  OBVIOUS
<1>. USE DEF NVMLInv
<1>1. CASE Reload
  <2>1. lost' \subseteq Gpus
    BY <1>1 DEF Reload, TypeOK, DrmGpus, GpusOf
  <2>2. reloads' \in 0 .. MaxReloads
    BY <1>1, CollectorsAssumption DEF Reload, TypeOK
  <2>. QED
    BY <1>1, <2>1, <2>2 DEF Reload, TypeOK, nvml, sysfs, Numberings, DrmGpus, GpusOf
<1>2. CASE Detect
  BY <1>2, DetectTypeOK
<1>3. CASE Tick
  BY <1>3 DEF Tick, TypeOK, Vendors, world, nvml, sysfs, Numberings, DrmGpus, GpusOf
<1>4. CASE Collect
  BY <1>4, CollectTypeOK
<1>5. CASE Send
  <2>1. earlier' \subseteq Gpu
    BY <1>5 DEF Send, TypeOK
  <2>2. gpus' = {} /\ lost' = {}
    BY <1>5 DEF Send
  <2>. QED
    BY <1>5, <2>1, <2>2 DEF Send, TypeOK, world, nvml, sysfs, Numberings, DrmGpus, GpusOf
<1>6. CASE Close
  <2>1. nvmlRefs' = 0
    BY <1>6 DEF Close
  <2>2. UNCHANGED <<nvidia, drm, reloads, moved, turn, active, useNVML, nvmlGpus,
                    cards, useTool, gpus, lost, earlier>>
    BY <1>6 DEF Close, world, sysfs, snapshot
  <2>3. pc' = "closed" /\ nvmlInit' = FALSE
    BY <1>6 DEF Close
  <2>4. TypeOK'
    BY <2>1, <2>2, <2>3 DEF TypeOK, Numberings, DrmGpus, GpusOf
  <2>. QED
    BY <2>1, <2>3, <2>4
<1>7. CASE Restart
  <2>1. cards' \in [SysfsVendors -> SUBSET CardNumbers] /\ useTool' \in [SysfsVendors -> BOOLEAN]
    BY <1>7 DEF Restart
  <2>. QED
    BY <1>7, <2>1 DEF Restart, TypeOK, Vendors, Numberings, DrmGpus, GpusOf
<1>8. CASE UNCHANGED vars
  BY <1>8 DEF vars, TypeOK, world, nvml, sysfs, snapshot, Numberings, DrmGpus, GpusOf
<1>. QED
  BY <1>1, <1>2, <1>3, <1>4, <1>5, <1>6, <1>7, <1>8 DEF Next

\* Whatever the node's GPUs, drivers and tools do, the collectors keep to their
\* types: utilizations are percentages, a total of an Intel card's local memory or
\* of its clients comes with a use of the same source, and NVML is not shut down
\* more often than initialised.  With the size of a PCI region as the total the
\* use may be of any source.
THEOREM TypeCorrect == Spec => []TypeOK
<1>1. Spec => [](TypeOK /\ NVMLInv)
  BY InitTypeOK, NextTypeOK, PTL DEF Spec
<1>. QED
  BY <1>1, PTL

\* NVML is initialised while its devices are used, and not once the collectors
\* are closed.
THEOREM NVMLCorrect == Spec => []NVMLBalanced
<1>1. TypeOK /\ NVMLInv => NVMLBalanced
  BY DEF TypeOK, NVMLInv, NVMLBalanced
<1>2. Spec => [](TypeOK /\ NVMLInv)
  BY InitTypeOK, NextTypeOK, PTL DEF Spec
<1>. QED
  BY <1>1, <1>2, PTL

-----------------------------------------------------------------------------
(* Snapshots.                                                              *)

\* The collector of v has been asked for this snapshot.
Asked(v) ==
  \/ pc = "send"
  \/ pc = "collect" /\ turn = "amd" /\ v = "nvidia"
  \/ pc = "collect" /\ turn = "intel" /\ v # "intel"

Listing(v, list) == \A g \in Due(v) \ lost : \E e \in list : e.of.vendor = v /\ g \in e.of.gpu

\* What SnapshotIsComplete says of the whole snapshot, said of each collector
\* that has been asked.
CompleteInv == \A v \in active : Asked(v) => Listing(v, gpus)

\* A collector that lists the GPUs it has not missed keeps the invariant.
LEMMA CollectedIsComplete ==
  ASSUME TypeOK, CompleteInv, NEW v \in Vendors, At(v), NEW list, NEW missed,
         Collected(v, list, missed),
         v \in active => \A g \in Due(v) \ missed :
                           \E e \in list : e.of.vendor = v /\ g \in e.of.gpu
  PROVE  CompleteInv'
<1>. SUFFICES ASSUME NEW w \in active', Asked(w)' PROVE Listing(w, gpus)'
  BY DEF CompleteInv
<1>1. w \in active /\ w \in Vendors
  BY DEF Collected, TypeOK
<1>2. Due(w)' = Due(w) /\ lost \subseteq lost' /\ missed \subseteq lost'
  BY DEF Collected, Due, Present, GpusOf, world, nvml, sysfs
<1>3. gpus \subseteq gpus' /\ list \subseteq gpus'
  BY DEF Collected
<1>4. CASE w = v
  BY <1>1, <1>2, <1>3, <1>4 DEF Listing
<1>5. CASE w # v
  <2>1. Asked(w)
    BY <1>1, <1>5 DEF Asked, At, Collected, Vendors
  <2>2. Listing(w, gpus)
    BY <1>1, <2>1 DEF CompleteInv
  <2>. QED
    BY <1>2, <1>3, <2>2 DEF Listing
<1>. QED
  BY <1>4, <1>5

LEMMA ListedOf ==
  ASSUME NEW v, NEW index, NEW uuid, NEW g
  PROVE  Listed(v, index, uuid, g).of.vendor = v /\ g \in Listed(v, index, uuid, g).of.gpu
BY DEF Listed

LEMMA SMIRowOf ==
  ASSUME NEW g, NEW due, NEW odd, NEW mute
  PROVE  LET e == SMIRow(g, due, odd, mute) IN e.of.vendor = "nvidia" /\ g \in e.of.gpu
BY ListedOf DEF SMIRow

LEMMA XPUSMIRowOf ==
  ASSUME NEW g, NEW due, NEW odd
  PROVE  LET e == XPUSMIRow(g, due, odd) IN e.of.vendor = "intel" /\ g \in e.of.gpu
BY ListedOf DEF XPUSMIRow

LEMMA CollectIsComplete ==
  ASSUME TypeOK, CompleteInv, Collect
  PROVE  CompleteInv'
<1>1. ASSUME NEW v \in Vendors, Inactive(v) PROVE CompleteInv'
  BY <1>1, CollectedIsComplete DEF Inactive
<1>2. ASSUME NEW v \in Vendors, CollectFails(v) PROVE CompleteInv'
  BY <1>2, CollectedIsComplete DEF CollectFails
<1>3. CASE CollectNVML
  <2>1. PICK bad \in SUBSET nvmlGpus, mute \in SUBSET nvmlGpus :
          Collected("nvidia",
            {Listed("nvidia", Rank(g, nvmlGpus),
                    IF g \in mute THEN NoUuid ELSE <<"gpu", g>>, g) : g \in nvmlGpus \ bad},
            bad)
    BY <1>3 DEF CollectNVML
  <2>2. Due("nvidia") = nvmlGpus /\ At("nvidia") /\ "nvidia" \in Vendors
    BY <1>3 DEF Due, CollectNVML, Vendors
  <2>. QED
    BY <2>1, <2>2, ListedOf, CollectedIsComplete
<1>4. CASE CollectSMI
  <2>. DEFINE P == Present("nvidia")
  <2>1. PICK short \in SUBSET P, odd \in SUBSET P, mute \in SUBSET P :
          Collected("nvidia", {SMIRow(g, P, odd, mute) : g \in P \ short}, short)
    BY <1>4 DEF CollectSMI
  <2>2. Due("nvidia") = P /\ At("nvidia") /\ "nvidia" \in Vendors
    BY <1>4 DEF Due, CollectSMI, Vendors, SysfsVendors
  <2>. HIDE DEF P
  <2>. QED
    BY <2>1, <2>2, SMIRowOf, CollectedIsComplete
<1>5. ASSUME NEW v \in SysfsVendors, CollectSysfs(v) PROVE CompleteInv'
  <2>1. PICK reading \in [cards[v] -> Readings(v)] :
          Collected(v,
            {[of |-> [vendor |-> v, index |-> Rank(n, cards[v]),
                      uuid |-> IF Card(n) = {} THEN NoUuid ELSE <<"card", n>>,
                      gpu |-> Card(n)],
              reading |-> reading[n]] : n \in cards[v]},
            {})
    BY <1>5 DEF CollectSysfs
  <2>. DEFINE list == {[of |-> [vendor |-> v, index |-> Rank(n, cards[v]),
                        uuid |-> IF Card(n) = {} THEN NoUuid ELSE <<"card", n>>,
                        gpu |-> Card(n)],
                reading |-> reading[n]] : n \in cards[v]}
  <2>2. v \in Vendors /\ v # "nvidia" /\ At(v) /\ ~useTool[v]
    BY <1>5 DEF SysfsVendors, Vendors, CollectSysfs
  <2>3. ASSUME NEW g \in Due(v)
        PROVE  \E e \in list : e.of.vendor = v /\ g \in e.of.gpu
    <3>1. g \in Present(v) /\ drm[g] \in cards[v]
      BY <2>2 DEF Due
    <3>2. g \in Card(drm[g])
      BY <2>2, <3>1 DEF Card, Present, GpusOf, DrmGpus, SysfsVendors
    <3>. DEFINE entry(n) == [of |-> [vendor |-> v, index |-> Rank(n, cards[v]),
                             uuid |-> IF Card(n) = {} THEN NoUuid ELSE <<"card", n>>,
                             gpu |-> Card(n)],
                     reading |-> reading[n]]
    <3>3. entry(drm[g]).of.vendor = v /\ entry(drm[g]).of.gpu = Card(drm[g])
      OBVIOUS
    <3>4. entry(drm[g]) \in list
      BY <3>1
    <3>. QED
      BY <3>2, <3>3, <3>4
  <2>. QED
    BY <2>1, <2>2, <2>3, CollectedIsComplete
<1>6. CASE CollectROCm
  <2>1. PICK index \in Orders(Present("amd")) :
          Collected("amd",
            {Listed("amd", index[g], <<"card", Rank(g, Present("amd"))>>, g) :
               g \in Present("amd")}, {})
    BY <1>6 DEF CollectROCm
  <2>2. Due("amd") = Present("amd") /\ At("amd") /\ "amd" \in Vendors
    BY <1>6 DEF Due, CollectROCm, Vendors
  <2>. QED
    BY <2>1, <2>2, ListedOf, CollectedIsComplete
<1>7. CASE CollectXPUSMI
  <2>. DEFINE P == Present("intel")
  <2>1. PICK short \in SUBSET P, odd \in SUBSET P :
          Collected("intel", {XPUSMIRow(g, P, odd) : g \in P \ short}, short)
    BY <1>7 DEF CollectXPUSMI
  <2>2. Due("intel") = P /\ At("intel") /\ "intel" \in Vendors
    BY <1>7 DEF Due, CollectXPUSMI, Vendors
  <2>. HIDE DEF P
  <2>. QED
    BY <2>1, <2>2, XPUSMIRowOf, CollectedIsComplete
<1>. QED
  BY <1>1, <1>2, <1>3, <1>4, <1>5, <1>6, <1>7 DEF Collect

LEMMA NextIsComplete == TypeOK /\ CompleteInv /\ [Next]_vars => CompleteInv'
<1>. SUFFICES ASSUME TypeOK, CompleteInv, [Next]_vars PROVE CompleteInv'
  OBVIOUS
<1>1. CASE Reload
  <2>. SUFFICES ASSUME NEW v \in active', Asked(v)', NEW g \in Due(v)' \ lost'
                PROVE  \E e \in gpus' : e.of.vendor = v /\ g \in e.of.gpu
    BY DEF CompleteInv, Listing
  <2>1. v \in active /\ Asked(v) /\ v \in Vendors /\ gpus' = gpus /\ pc \in {"collect", "send"}
    BY <1>1 DEF Reload, Asked, TypeOK
  <2>2. /\ g \notin lost
        /\ g \in DrmGpus => drm'[g] = drm[g]
        /\ g \in nvidia' => g \in nvidia
    BY <1>1, <2>1 DEF Reload
  <2>3. /\ useNVML' = useNVML /\ nvmlGpus' = nvmlGpus
        /\ cards' = cards /\ useTool' = useTool
    BY <1>1 DEF Reload, nvml, sysfs
  <2>4. Present(v)' \cap {g} \subseteq Present(v)
    BY <2>1, <2>2 DEF Present, GpusOf, DrmGpus, Vendors
  <2>5. g \in Due(v)
    <3>1. CASE v = "nvidia"
      BY <2>3, <2>4, <3>1 DEF Due, SysfsVendors
    <3>2. CASE v \in SysfsVendors
      <4>1. g \in Present(v)' => g \in DrmGpus /\ g \in Present(v)
        BY <2>4, <3>2 DEF Present, GpusOf, DrmGpus, SysfsVendors
      <4>. QED
        BY <2>2, <2>3, <3>2, <4>1 DEF Due, SysfsVendors
    <3>. QED
      BY <2>1, <3>1, <3>2 DEF Vendors, SysfsVendors
  <2>. QED
    BY <2>1, <2>2, <2>5 DEF CompleteInv, Listing
<1>2. CASE Detect
  BY <1>2 DEF Detect, NvmlInits, NvmlFails, NvmlCounts, NvmlCountFails, DetectSMI,
              DiscoverSysfs, DetectTool, Detected, CompleteInv, Asked
<1>3. CASE Tick
  BY <1>3 DEF Tick, CompleteInv, Asked
<1>4. CASE Collect
  BY <1>4, CollectIsComplete
<1>5. CASE Send \/ Close \/ Restart
  BY <1>5 DEF Send, Close, Restart, CompleteInv, Asked
<1>6. CASE UNCHANGED vars
  BY <1>6 DEF vars, world, nvml, sysfs, snapshot, CompleteInv, Asked, Listing, Due,
              Present, GpusOf
<1>. QED
  BY <1>1, <1>2, <1>3, <1>4, <1>5, <1>6 DEF Next

\* Whatever fails, every GPU that its collector has found and that could be read
\* is in the snapshot that is sent.
THEOREM SnapshotCorrect == Spec => []SnapshotIsComplete
<1>1. Init => CompleteInv
  BY DEF Init, CompleteInv
<1>2. CompleteInv => SnapshotIsComplete
  BY DEF CompleteInv, Asked, Listing, SnapshotIsComplete
<1>. QED
  BY <1>1, <1>2, NextIsComplete, TypeCorrect, PTL DEF Spec

-----------------------------------------------------------------------------
(* Indices and UUIDs.                                                      *)

\* What NVML and sysfs say of a GPU.
Known(e) ==
  /\ e.vendor = "nvidia" /\ useNVML =>
       \E g \in nvmlGpus : /\ e.index = Rank(g, nvmlGpus)
                           /\ e.uuid \in {NoUuid, <<"gpu", g>>} /\ e.gpu = {g}
  /\ e.vendor \in SysfsVendors /\ ~useTool[e.vendor] =>
       \E n \in cards[e.vendor] : /\ e.index = Rank(n, cards[e.vendor])
                                  /\ e.uuid \in {NoUuid, <<"card", n>>}
                                  /\ ~moved => e.gpu = Card(n)

\* Before AutoDetect has returned nothing has been seen; and if no driver has
\* been reloaded, the cards that were found are still there.
IndexInv ==
  /\ \A e \in Seen : Known(e)
  /\ pc \in {"init", "count", "smi", "sysfs", "tool"} => gpus = {} /\ earlier = {}
  /\ ~moved => \A v \in SysfsVendors : \A n \in cards[v] : Card(n) # {}

LEMMA CollectedIsKnown ==
  ASSUME TypeOK, IndexInv, NEW v \in Vendors, At(v), NEW list, NEW missed,
         Collected(v, list, missed), \A e \in list : Known(e.of)
  PROVE  IndexInv'
<1>1. Seen' = Seen \cup {e.of : e \in list}
  BY DEF Seen, Collected
<1>2. \A e : Known(e)' <=> Known(e)
  BY DEF Known, Collected, world, nvml, sysfs, Present, Card, DrmGpus, GpusOf
<1>3. \A n : Card(n)' = Card(n)
  BY DEF Card, DrmGpus, GpusOf, Collected, world
<1>4. \A e \in Seen' : Known(e)'
  BY <1>1, <1>2 DEF IndexInv
<1>5. pc' \in {"collect", "send"}
  BY DEF Collected
<1>6. ~moved' => \A w \in SysfsVendors : \A n \in cards'[w] : Card(n)' # {}
  BY <1>3 DEF IndexInv, Collected, world, sysfs
<1>. QED
  BY <1>4, <1>5, <1>6 DEF IndexInv

LEMMA CollectIsKnown ==
  ASSUME TypeOK, IndexInv, Collect
  PROVE  IndexInv'
<1>1. ASSUME NEW v \in Vendors, Inactive(v) PROVE IndexInv'
  BY <1>1, CollectedIsKnown DEF Inactive
<1>2. ASSUME NEW v \in Vendors, CollectFails(v) PROVE IndexInv'
  BY <1>2, CollectedIsKnown DEF CollectFails
<1>3. CASE CollectNVML
  <2>1. PICK bad \in SUBSET nvmlGpus, mute \in SUBSET nvmlGpus :
          Collected("nvidia",
            {Listed("nvidia", Rank(g, nvmlGpus),
                    IF g \in mute THEN NoUuid ELSE <<"gpu", g>>, g) : g \in nvmlGpus \ bad},
            bad)
    BY <1>3 DEF CollectNVML
  <2>2. \A g \in nvmlGpus :
          Known(Listed("nvidia", Rank(g, nvmlGpus),
                       IF g \in mute THEN NoUuid ELSE <<"gpu", g>>, g).of)
    BY <1>3 DEF CollectNVML, Known, Listed, SysfsVendors
  <2>3. At("nvidia") /\ "nvidia" \in Vendors
    BY <1>3 DEF CollectNVML, Vendors
  <2>4. \A e \in {Listed("nvidia", Rank(g, nvmlGpus),
                       IF g \in mute THEN NoUuid ELSE <<"gpu", g>>, g) : g \in nvmlGpus \ bad} :
          Known(e.of)
    BY <2>2
  <2>. QED
    BY <2>1, <2>3, <2>4, CollectedIsKnown
<1>4. CASE CollectSMI
  <2>. DEFINE P == Present("nvidia")
  <2>1. PICK short \in SUBSET P, odd \in SUBSET P, mute \in SUBSET P :
          Collected("nvidia", {SMIRow(g, P, odd, mute) : g \in P \ short}, short)
    BY <1>4 DEF CollectSMI
  <2>2. At("nvidia") /\ "nvidia" \in Vendors
    BY <1>4 DEF CollectSMI, Vendors
  <2>3. \A g : Known(SMIRow(g, P, odd, mute).of)
    BY <1>4, SMIRowOf DEF CollectSMI, Known, SysfsVendors
  <2>. HIDE DEF P
  <2>. QED
    BY <2>1, <2>2, <2>3, CollectedIsKnown
<1>5. ASSUME NEW v \in SysfsVendors, CollectSysfs(v) PROVE IndexInv'
  <2>. DEFINE entry(n) == [vendor |-> v, index |-> Rank(n, cards[v]),
                           uuid |-> IF Card(n) = {} THEN NoUuid ELSE <<"card", n>>,
                           gpu |-> Card(n)]
  <2>1. PICK reading \in [cards[v] -> Readings(v)] :
          Collected(v, {[of |-> entry(n), reading |-> reading[n]] : n \in cards[v]}, {})
    BY <1>5 DEF CollectSysfs
  <2>2. v \in Vendors /\ v # "nvidia" /\ At(v) /\ ~useTool[v]
    BY <1>5 DEF SysfsVendors, Vendors, CollectSysfs
  <2>3. \A n \in cards[v] : Known(entry(n))
    BY <2>2 DEF Known
  <2>. HIDE DEF entry
  <2>. QED
    BY <2>1, <2>2, <2>3, CollectedIsKnown
<1>6. CASE CollectROCm
  <2>1. PICK index \in Orders(Present("amd")) :
          Collected("amd",
            {Listed("amd", index[g], <<"card", Rank(g, Present("amd"))>>, g) :
               g \in Present("amd")}, {})
    BY <1>6 DEF CollectROCm
  <2>2. \A g : Known(Listed("amd", index[g], <<"card", Rank(g, Present("amd"))>>, g).of)
    BY <1>6 DEF CollectROCm, Known, Listed
  <2>3. At("amd") /\ "amd" \in Vendors
    BY <1>6 DEF CollectROCm, Vendors
  <2>4. \A e \in {Listed("amd", index[g], <<"card", Rank(g, Present("amd"))>>, g) :
                  g \in Present("amd")} :
          Known(e.of)
    BY <2>2
  <2>. QED
    BY <2>1, <2>3, <2>4, CollectedIsKnown
<1>7. CASE CollectXPUSMI
  <2>. DEFINE P == Present("intel")
  <2>1. PICK short \in SUBSET P, odd \in SUBSET P :
          Collected("intel", {XPUSMIRow(g, P, odd) : g \in P \ short}, short)
    BY <1>7 DEF CollectXPUSMI
  <2>2. At("intel") /\ "intel" \in Vendors
    BY <1>7 DEF CollectXPUSMI, Vendors
  <2>3. \A g : Known(XPUSMIRow(g, P, odd).of)
    BY <1>7, XPUSMIRowOf DEF CollectXPUSMI, Known
  <2>. HIDE DEF P
  <2>. QED
    BY <2>1, <2>2, <2>3, CollectedIsKnown
<1>. QED
  BY <1>1, <1>2, <1>3, <1>4, <1>5, <1>6, <1>7 DEF Collect

LEMMA DetectIsKnown ==
  ASSUME TypeOK, IndexInv, Detect
  PROVE  IndexInv'
<1>1. pc \in {"init", "count", "smi", "sysfs", "tool"}
  BY DEF Detect, NvmlInits, NvmlFails, NvmlCounts, NvmlCountFails, DetectSMI,
         DiscoverSysfs, DetectTool
<1>2. UNCHANGED snapshot /\ UNCHANGED world
  BY DEF Detect, NvmlInits, NvmlFails, NvmlCounts, NvmlCountFails, DetectSMI,
         DiscoverSysfs, DetectTool
<1>3. Seen' = {} /\ gpus' = {} /\ earlier' = {}
  BY <1>1, <1>2 DEF Seen, snapshot, IndexInv
<1>4. ASSUME ~moved', NEW v \in SysfsVendors, NEW n \in cards'[v] PROVE Card(n)' # {}
  <2>1. Card(n)' = Card(n)
    BY <1>2 DEF Card, DrmGpus, GpusOf, world
  <2>2. CASE cards' = cards
    BY <1>2, <1>4, <2>1, <2>2 DEF IndexInv, world
  <2>3. ASSUME NEW w \in SysfsVendors, NEW found \in Discoverable(w),
               cards' = [cards EXCEPT ![w] = found]
        PROVE  Card(n) # {}
    <3>1. CASE v # w
      BY <1>2, <1>4, <2>3, <3>1 DEF IndexInv, world, TypeOK
    <3>2. CASE v = w
      <4>1. n \in {drm[g] : g \in Present(w)}
        BY <1>4, <2>3, <3>2 DEF TypeOK, Discoverable
      <4>. QED
        BY <4>1 DEF Card, Present, DrmGpus, GpusOf, SysfsVendors
    <3>. QED
      BY <3>1, <3>2
  <2>. QED
    BY <2>1, <2>2, <2>3
       DEF Detect, NvmlInits, NvmlFails, NvmlCounts, NvmlCountFails, DetectSMI,
           DiscoverSysfs, DetectTool, sysfs
<1>. QED
  BY <1>3, <1>4 DEF IndexInv

LEMMA NextIsKnown == TypeOK /\ IndexInv /\ [Next]_vars => IndexInv'
<1>. SUFFICES ASSUME TypeOK, IndexInv, [Next]_vars PROVE IndexInv'
  OBVIOUS
<1>1. CASE Reload
  <2>1. Seen' = Seen /\ moved' /\ UNCHANGED <<pc, gpus, earlier, nvml, sysfs>>
    BY <1>1 DEF Reload, Seen
  <2>2. \A e : Known(e) => Known(e)'
    BY <2>1 DEF Known, nvml, sysfs
  <2>. QED
    BY <2>1, <2>2 DEF IndexInv
<1>2. CASE Detect
  BY <1>2, DetectIsKnown
<1>3. ASSUME Seen' \subseteq Seen, pc' \in {"idle", "collect", "closed"},
             UNCHANGED <<world, cards, useTool, useNVML, nvmlGpus>>
      PROVE  IndexInv'
  <2>1. \A e : Known(e)' <=> Known(e)
    BY <1>3 DEF Known, world, Present, Card, DrmGpus, GpusOf
  <2>2. \A n : Card(n)' = Card(n)
    BY <1>3 DEF world, Card, DrmGpus, GpusOf
  <2>. QED
    BY <1>3, <2>1, <2>2 DEF IndexInv, world
<1>4. CASE Tick
  BY <1>3, <1>4 DEF Tick, Seen, nvml, sysfs
<1>5. CASE Collect
  BY <1>5, CollectIsKnown
<1>6. CASE Send
  BY <1>3, <1>6 DEF Send, Seen, nvml, sysfs
<1>7. CASE Close
  BY <1>3, <1>7 DEF Close, Seen, sysfs, snapshot
<1>8. CASE Restart
  BY <1>8 DEF Restart, IndexInv, Seen
<1>9. CASE UNCHANGED vars
  BY <1>9 DEF vars, world, nvml, sysfs, snapshot, IndexInv, Seen, Known, Present, Card,
              DrmGpus, GpusOf
<1>. QED
  BY <1>1, <1>2, <1>4, <1>5, <1>6, <1>7, <1>8, <1>9 DEF Next

\* Members of one list have different positions.
LEMMA Positions ==
  ASSUME NEW S, S \subseteq Gpus \/ S \subseteq CardNumbers, NEW m \in S, NEW n \in S
  PROVE  Rank(m, S) = Rank(n, S) <=> m = n
BY FiniteLists, RankInjective

LEMMA KnownIsTheUuid == TypeOK /\ IndexInv => IndexIsTheUuid
<1>. SUFFICES ASSUME TypeOK, IndexInv, NEW e \in Seen, NEW f \in Seen,
                     e.vendor = f.vendor,
                     IF e.vendor = "nvidia" THEN useNVML ELSE ~useTool[e.vendor]
              PROVE  /\ NoUuid \notin {e.uuid, f.uuid} =>
                          (e.index = f.index <=> e.uuid = f.uuid)
                     /\ ~moved => (e.index = f.index <=> e.gpu = f.gpu)
  BY DEF IndexIsTheUuid, ByDriver
<1>1. Known(e) /\ Known(f)
  BY DEF IndexInv
<1>2. e.vendor \in Vendors
  BY DEF Seen, TypeOK, Gpu
<1>3. CASE e.vendor = "nvidia" /\ useNVML
  <2>1. PICK g \in nvmlGpus : /\ e.index = Rank(g, nvmlGpus)
                              /\ e.uuid \in {NoUuid, <<"gpu", g>>} /\ e.gpu = {g}
    BY <1>1, <1>3 DEF Known
  <2>2. PICK h \in nvmlGpus : /\ f.index = Rank(h, nvmlGpus)
                              /\ f.uuid \in {NoUuid, <<"gpu", h>>} /\ f.gpu = {h}
    BY <1>1, <1>3 DEF Known
  <2>3. e.index = f.index <=> g = h
    BY <2>1, <2>2, Positions DEF TypeOK
  <2>. QED
    BY <2>1, <2>2, <2>3
<1>4. CASE e.vendor \in SysfsVendors /\ ~useTool[e.vendor]
  <2>. DEFINE S == cards[e.vendor]
  <2>1. S \subseteq CardNumbers
    BY <1>4 DEF TypeOK
  <2>2. PICK m \in S : /\ e.index = Rank(m, S) /\ e.uuid \in {NoUuid, <<"card", m>>}
                       /\ ~moved => e.gpu = Card(m)
    BY <1>1, <1>4 DEF Known
  <2>3. PICK n \in S : /\ f.index = Rank(n, S) /\ f.uuid \in {NoUuid, <<"card", n>>}
                       /\ ~moved => f.gpu = Card(n)
    BY <1>1, <1>4 DEF Known
  <2>4. e.index = f.index <=> m = n
    BY <2>1, <2>2, <2>3, Positions
  <2>5. ~moved => (Card(m) = Card(n) <=> m = n)
    <3>1. ~moved => Card(m) # {}
      BY <1>4 DEF IndexInv
    <3>. QED
      BY <3>1 DEF Card
  <2>. QED
    BY <2>2, <2>3, <2>4, <2>5
<1>. QED
  BY <1>2, <1>3, <1>4 DEF Vendors, SysfsVendors

\* The index that the history stores and the UUID that the dashboard uses tell
\* the same GPUs apart, for any number of GPUs and cards, whatever fails, of the
\* GPUs that are listed by NVML or sysfs.
THEOREM IndexCorrect == Spec => []IndexIsTheUuid
<1>1. Init => IndexInv
  BY DEF Init, IndexInv, Seen
<1>. QED
  BY <1>1, KnownIsTheUuid, NextIsKnown, TypeCorrect, PTL DEF Spec
=============================================================================
