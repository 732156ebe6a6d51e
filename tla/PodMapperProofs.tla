--------------------------- MODULE PodMapperProofs ---------------------------
(***************************************************************************)
(* The pod mapper for any cluster: the round-robin always finds a pod, and *)
(* what a node shows comes from one listing.                               *)
(***************************************************************************)
EXTENDS PodMapper, FiniteSetTheorems, TLAPS

-----------------------------------------------------------------------------
(* Positions in a list.                                                    *)

LEMMA PlaceInList ==
  ASSUME NEW S \in SUBSET Claims, NEW c \in S
  PROVE  /\ Cardinality(S) \in Nat
         /\ Place(c, S) \in 0 .. Cardinality(S) - 1
<1>. DEFINE B == {d \in S : ListOrder[d] < ListOrder[c]}
<1>1. IsFiniteSet(S)
  BY PodMapperAssumption, FS_Subset
<1>2. ListOrder[c] \in Nat
  BY PodMapperAssumption
<1>3. B \in SUBSET (S \ {c})
  BY <1>2
<1>4. IsFiniteSet(S \ {c}) /\ Cardinality(S \ {c}) = Cardinality(S) - 1
  BY <1>1, FS_RemoveElement
<1>5. IsFiniteSet(B) /\ Cardinality(B) <= Cardinality(S \ {c})
  BY <1>3, <1>4, FS_Subset
<1>6. Cardinality(B) \in Nat /\ Cardinality(S) \in Nat
  BY <1>1, <1>5, FS_CardinalityType
<1>. QED
  BY <1>4, <1>5, <1>6 DEF Place

LEMMA PlaceIncreases ==
  ASSUME NEW S \in SUBSET Claims, NEW c \in S, NEW d \in S, ListOrder[c] < ListOrder[d]
  PROVE  Place(c, S) # Place(d, S)
<1>. DEFINE B(x) == {e \in S : ListOrder[e] < ListOrder[x]}
<1>1. \A e \in S : ListOrder[e] \in Nat
  BY PodMapperAssumption
<1>2. B(c) \in SUBSET B(d) /\ B(d) \in SUBSET S
  BY <1>1
<1>3. c \in B(d) /\ c \notin B(c)
  BY <1>1
<1>4. IsFiniteSet(B(d))
  BY <1>2, PodMapperAssumption, FS_Subset
<1>5. Cardinality(B(c)) # Cardinality(B(d))
  BY <1>2, <1>3, <1>4, FS_Subset
<1>. QED
  BY <1>5 DEF Place

\* Every position of a list is that of one of its claims.
LEMMA EveryPlaceIsTaken ==
  ASSUME NEW S \in SUBSET Claims, NEW k \in 0 .. Cardinality(S) - 1
  PROVE  \E c \in S : Place(c, S) = k
<1>. DEFINE T == 0 .. Cardinality(S) - 1
            place == [c \in S |-> Place(c, S)]
<1>1. IsFiniteSet(S)
  BY PodMapperAssumption, FS_Subset
<1>2. Cardinality(S) \in Nat
  BY <1>1, FS_CardinalityType
<1>3. IsFiniteSet(T) /\ Cardinality(T) = Cardinality(S)
  BY <1>2, FS_Interval
<1>4. place \in [S -> T]
  BY PlaceInList
<1>5. ASSUME NEW c \in S, NEW d \in S, place[c] = place[d] PROVE c = d
  <2>1. Place(c, S) = Place(d, S)
    BY <1>5
  <2>2. ListOrder[c] \in Nat /\ ListOrder[d] \in Nat
    BY PodMapperAssumption
  <2>3. ListOrder[c] = ListOrder[d]
    BY <2>1, <2>2, PlaceIncreases
  <2>. QED
    BY <2>3, PodMapperAssumption
<1>6. place \in Injection(S, T)
  BY <1>4, <1>5 DEF Injection, IsInjective
<1>7. place \in Surjection(S, T)
  BY <1>1, <1>3, <1>6, FS_Injection
<1>. QED
  BY <1>7 DEF Surjection

\* The round-robin gives a GPU one of the claims of its vendor, if there is any.
LEMMA PodForType ==
  ASSUME NEW g \in Gpus, NEW claims \in SUBSET Claims
  PROVE  LET own == OfVendor(claims, GpuVendor[g])
         IN  PodFor(g, claims) \in IF own = {} THEN {NoClaim} ELSE own
<1>. DEFINE own == OfVendor(claims, GpuVendor[g])
<1>1. own \in SUBSET Claims
  BY DEF OfVendor
<1>2. CASE own = {}
  BY <1>2 DEF PodFor
<1>3. CASE own # {}
  <2>1. Cardinality(own) \in Nat /\ Cardinality(own) # 0
    BY <1>1, <1>3, PodMapperAssumption, FS_Subset, FS_CardinalityType, FS_EmptySet
  <2>2. GpuIndex[g] % Cardinality(own) \in 0 .. Cardinality(own) - 1
    BY <2>1, PodMapperAssumption
  <2>3. \E c \in own : Place(c, own) = GpuIndex[g] % Cardinality(own)
    BY <1>1, <2>2, EveryPlaceIsTaken
  <2>. QED
    BY <1>3, <2>3 DEF PodFor
<1>. QED
  BY <1>2, <1>3

\* The claim at position k goes to the GPU of its vendor with index k.
LEMMA EveryClaimIsServed ==
  ASSUME NEW claims \in SUBSET Claims, NEW g \in Gpus,
         NEW c \in OfVendor(claims, GpuVendor[g]),
         GpuIndex[g] = Place(c, OfVendor(claims, GpuVendor[g]))
  PROVE  PodFor(g, claims) = c
<1>. DEFINE own == OfVendor(claims, GpuVendor[g])
<1>1. own \in SUBSET Claims
  BY DEF OfVendor
<1>2. Cardinality(own) \in Nat /\ GpuIndex[g] \in 0 .. Cardinality(own) - 1
  BY <1>1, PlaceInList
<1>3. GpuIndex[g] % Cardinality(own) = GpuIndex[g]
  BY <1>2
<1>4. ASSUME NEW d \in own, Place(d, own) = Place(c, own) PROVE d = c
  <2>1. ListOrder[c] \in Nat /\ ListOrder[d] \in Nat
    BY <1>1, PodMapperAssumption
  <2>2. ListOrder[c] = ListOrder[d]
    BY <1>1, <1>4, <2>1, PlaceIncreases
  <2>. QED
    BY <1>1, <2>2, PodMapperAssumption
<1>5. c = CHOOSE d \in own : Place(d, own) = GpuIndex[g] % Cardinality(own)
  BY <1>3, <1>4
<1>. QED
  BY <1>5 DEF PodFor

-----------------------------------------------------------------------------
(* The invariants.                                                         *)

LEMMA PodForIn ==
  ASSUME NEW g \in Gpus, NEW claims \in SUBSET Claims
  PROVE  PodFor(g, claims) \in Claims \cup {NoClaim}
BY PodForType DEF OfVendor

\* A list of the map that refresh makes has a claim, and its claims are on its node.
LEMMA ByNodeType ==
  ASSUME NEW claims \in SUBSET Claims
  PROVE  LET made == ByNode(claims)
         IN  /\ DOMAIN made \subseteq Nodes
             /\ made \in [DOMAIN made -> SUBSET Claims]
             /\ \A n \in DOMAIN made :
                  /\ made[n] # {}
                  /\ \A c \in made[n] : c \in claims /\ ClaimNode[c] = n
BY PodMapperAssumption DEF ByNode, OnNode

\* A stream reads the list of the node's claims, whether the map has one or not.
LEMMA PodsOfListing ==
  ASSUME NEW claims \in SUBSET Claims, byNode = ByNode(claims), NEW n \in Nodes
  PROVE  PodsOnNode(n) = OnNode(claims, n)
BY DEF PodsOnNode, ByNode, OnNode

LEMMA PodsType ==
  ASSUME TypeOK, NEW n \in Nodes
  PROVE  PodsOnNode(n) \in SUBSET Claims
BY DEF TypeOK, PodsOnNode

LEMMA InitTypeOK == Init => TypeOK
BY DEF Init, TypeOK, Assignment, NothingShown

LEMMA NextTypeOK == TypeOK /\ [Next]_vars => TypeOK'
<1>. SUFFICES ASSUME TypeOK, [Next]_vars PROVE TypeOK'
  OBVIOUS
<1>. USE DEF TypeOK, cluster, map, streams
<1>1. ASSUME NEW c \in Claims, PodStarts(c) \/ PodStops(c) PROVE TypeOK'
  BY <1>1 DEF PodStarts, PodStops
<1>2. CASE Mapper
  <2>1. CASE Swap
    <3>1. Counted(listed) \in SUBSET Claims /\ \A c \in Counted(listed) : ClaimCount[c] > 0
      BY DEF Counted
    <3>2. byNode' = ByNode(Counted(listed))
      BY <2>1 DEF Swap
    <3>3. /\ DOMAIN byNode' \subseteq Nodes
          /\ byNode' \in [DOMAIN byNode' -> SUBSET Claims]
          /\ \A n \in DOMAIN byNode' :
               /\ byNode'[n] # {}
               /\ \A c \in byNode'[n] : ClaimNode[c] = n /\ ClaimCount[c] > 0
      BY <3>1, <3>2, ByNodeType
    <3>. QED
      BY <2>1, <3>1, <3>3 DEF Swap
  <2>. QED
    BY <1>2, <2>1 DEF Mapper, ListPods, ListFails, NilClient, Tick, Stop
<1>3. ASSUME NEW n \in Agents, Enrich(n) PROVE TypeOK'
  <2>. DEFINE made(S) == [g \in Gpus |-> IF g \in S THEN PodFor(g, PodsOnNode(n)) ELSE NotShown]
  <2>1. PICK S \in SUBSET GpusOf(n) : enriched' = [enriched EXCEPT ![n] = made(S)]
    BY <1>3 DEF Enrich
  <2>2. made(S) \in Assignment
    BY PodsType, PodForIn, PodMapperAssumption DEF Assignment
  <2>3. taken' \in [Agents -> SUBSET Claims]
    BY <1>3 DEF Enrich, OnNode
  <2>. HIDE DEF made
  <2>. QED
    BY <1>3, <2>1, <2>2, <2>3 DEF Enrich
<1>4. ASSUME NEW n \in Agents, Update(n) PROVE TypeOK'
  <2>1. NothingShown \in Assignment
    BY DEF NothingShown, Assignment
  <2>2. podOf' \in Assignment
    BY <1>4 DEF Update, Assignment
  <2>. QED
    BY <1>4, <2>1, <2>2 DEF Update
<1>5. CASE UNCHANGED vars
  BY <1>5 DEF vars
<1>. QED
  BY <1>1, <1>2, <1>3, <1>4, <1>5 DEF Next, Stream

\* The map, the assignments and what is shown keep to their types: whatever the
\* cluster runs, the round-robin finds a pod of the list for every GPU.
THEOREM TypeCorrect == Spec => []TypeOK
BY InitTypeOK, NextTypeOK, PTL DEF Spec

\* The mapper's lists are of one listing; an assignment that is on its way, and
\* the one that is shown, are made from the lists they were taken from.
MapInv ==
  /\ byNode = ByNode(mapped)
  /\ \A n \in Agents : spc[n] = "update" =>
       \A g \in GpusOf(n) : enriched[n][g] \in {NotShown, PodFor(g, taken[n])}
  /\ \A g \in Gpus : podOf[g] \in {NotShown, PodFor(g, shown[GpuNode[g]])}

LEMMA MapInit == Init => MapInv
<1>1. << >> = ByNode({})
  BY DEF ByNode
<1>. QED
  BY <1>1, PodMapperAssumption DEF Init, MapInv, NothingShown

LEMMA NextMap == TypeOK /\ MapInv /\ [Next]_vars => MapInv'
<1>. SUFFICES ASSUME TypeOK, MapInv, [Next]_vars PROVE MapInv'
  OBVIOUS
<1>1. ASSUME UNCHANGED <<map, streams>> PROVE MapInv'
  BY <1>1 DEF MapInv, map, streams
<1>2. ASSUME NEW c \in Claims, PodStarts(c) \/ PodStops(c) PROVE MapInv'
  BY <1>1, <1>2 DEF PodStarts, PodStops
<1>3. CASE Swap
  BY <1>3 DEF Swap, MapInv, streams
<1>4. CASE Mapper /\ ~Swap
  BY <1>1, <1>4 DEF Mapper, ListPods, ListFails, NilClient, Tick, Stop
<1>5. ASSUME NEW n \in Agents, Enrich(n) PROVE MapInv'
  <2>1. UNCHANGED <<map, podOf, shown>>
    BY <1>5 DEF Enrich
  <2>2. taken'[n] = PodsOnNode(n)
    BY <1>5, PodsOfListing, PodMapperAssumption DEF Enrich, TypeOK, MapInv
  <2>3. \A g \in GpusOf(n) : enriched'[n][g] \in {NotShown, PodFor(g, taken'[n])}
    BY <1>5, <2>2 DEF Enrich, TypeOK, GpusOf
  <2>4. \A m \in Agents \ {n} : enriched'[m] = enriched[m] /\ spc'[m] = spc[m] /\ taken'[m] = taken[m]
    BY <1>5 DEF Enrich, TypeOK
  <2>. QED
    BY <2>1, <2>3, <2>4 DEF MapInv, map
<1>6. ASSUME NEW n \in Agents, Update(n) PROVE MapInv'
  <2>1. UNCHANGED map /\ spc'[n] = "recv"
    BY <1>6 DEF Update, TypeOK
  <2>2. \A m \in Agents : shown'[m] = IF m = n THEN taken[n] ELSE shown[m]
    BY <1>6 DEF Update, TypeOK
  <2>3. \A g \in Gpus : podOf'[g] \in {NotShown, PodFor(g, shown'[GpuNode[g]])}
    BY <1>6, <2>2, PodMapperAssumption DEF Update, MapInv, GpusOf
  <2>4. \A m \in Agents \ {n} : enriched'[m] = enriched[m] /\ spc'[m] = spc[m] /\ taken'[m] = taken[m]
    BY <1>6 DEF Update, TypeOK
  <2>. QED
    BY <2>1, <2>3, <2>4 DEF MapInv, map
<1>7. CASE UNCHANGED vars
  BY <1>1, <1>7 DEF vars
<1>. QED
  BY <1>2, <1>3, <1>4, <1>5, <1>6, <1>7 DEF Next, Stream

\* However the polls and the snapshots interleave, a node's GPUs are shown with
\* pods of one listing, and with all of them if the node has enough GPUs.
THEOREM AssignmentCorrect == Spec => []MadeFromOneListing
<1>1. TypeOK /\ MapInv => MadeFromOneListing
  <2>. SUFFICES ASSUME TypeOK, MapInv, NEW g \in Gpus, podOf[g] # NotShown
                PROVE  LET own == OfVendor(shown[GpuNode[g]], GpuVendor[g])
                           alike == {h \in GpusOf(GpuNode[g]) :
                                       GpuVendor[h] = GpuVendor[g] /\ podOf[h] # NotShown}
                       IN  /\ podOf[g] \in IF own = {} THEN {NoClaim} ELSE own
                           /\ 0 .. Cardinality(own) - 1 \subseteq {GpuIndex[h] : h \in alike}
                                => own \subseteq {podOf[h] : h \in alike}
    BY DEF MadeFromOneListing
  <2>. DEFINE own == OfVendor(shown[GpuNode[g]], GpuVendor[g])
              alike == {h \in GpusOf(GpuNode[g]) :
                          GpuVendor[h] = GpuVendor[g] /\ podOf[h] # NotShown}
  <2>1. shown[GpuNode[g]] \in SUBSET Claims
    BY PodMapperAssumption DEF TypeOK
  <2>2. podOf[g] \in IF own = {} THEN {NoClaim} ELSE own
    BY <2>1, PodForType DEF MapInv
  <2>3. ASSUME 0 .. Cardinality(own) - 1 \subseteq {GpuIndex[h] : h \in alike}, NEW c \in own
        PROVE  c \in {podOf[h] : h \in alike}
    <3>1. own \in SUBSET Claims
      BY <2>1 DEF OfVendor
    <3>2. Place(c, own) \in 0 .. Cardinality(own) - 1
      BY <3>1, PlaceInList
    <3>3. PICK h \in alike : GpuIndex[h] = Place(c, own)
      BY <2>3, <3>2
    <3>4. h \in Gpus /\ GpuNode[h] = GpuNode[g] /\ GpuVendor[h] = GpuVendor[g]
      BY DEF GpusOf
    <3>5. PodFor(h, shown[GpuNode[g]]) = c
      BY <2>1, <3>3, <3>4, EveryClaimIsServed
    <3>6. podOf[h] = c
      BY <3>3, <3>4, <3>5 DEF MapInv
    <3>. QED
      BY <3>6
  <2>. QED
    BY <2>2, <2>3
<1>. QED
  BY <1>1, MapInit, NextMap, TypeCorrect, PTL DEF Spec
=============================================================================
