----------------------------- MODULE PodMapper -----------------------------
(***************************************************************************)
(* Which pod uses a GPU: the mapper that polls the Kubernetes API, and the *)
(* part of handleSnapshot that assigns pods to the GPUs of a snapshot.     *)
(*                                                                         *)
(* Every fifteen seconds the mapper lists the running pods and replaces    *)
(* its map from nodes to the pods with GPU limits.  A claim is one such    *)
(* limit: a container of a pod, on a node, with a number of GPUs of one    *)
(* vendor.  The map is read by the streams, one for each node here, which  *)
(* share nothing else with the mapper than its RWMutex; reading the map    *)
(* and replacing it are single steps, since a list in it never changes.    *)
(* A list is the set of its claims, in the order of the API's answer; a    *)
(* node without counted claims has none.  A snapshot has those of a node's *)
(* GPUs that the agent could read.                                         *)
(***************************************************************************)
EXTENDS Naturals, FiniteSets

CONSTANTS
  Nodes,        \* the cluster's nodes
  Agents,       \* those that send snapshots
  Gpus,         \* the GPUs of all nodes
  GpuNode,      \* the node a GPU is in
  GpuIndex,     \* its index there
  GpuVendor,
  Claims,       \* the GPU limits of the containers that may run
  ClaimNode,    \* the node that the claim's pod is scheduled on
  ClaimVendor,
  ClaimCount,   \* the number of GPUs of the limit, 0 if it is not positive
  ListOrder,    \* where the API has a claim in its answer
  NoClaim,      \* the GPU is assigned to no pod
  NotShown      \* the GPU is not in the snapshot

ASSUME PodMapperAssumption ==
  /\ Agents \subseteq Nodes
  /\ GpuNode \in [Gpus -> Agents] /\ ClaimNode \in [Claims -> Nodes]
  /\ GpuIndex \in [Gpus -> Nat]
  /\ IsFiniteSet(Claims)
  /\ ListOrder \in [Claims -> Nat]
  /\ \A c, d \in Claims : ListOrder[c] = ListOrder[d] => c = d
  /\ ClaimCount \in [Claims -> Nat]
  /\ NoClaim \notin Claims /\ NotShown \notin Claims \cup {NoClaim}

VARIABLES
  client,    \* NewMapperOrNoop found a Kubernetes configuration
  running,   \* the claims of the pods that are running
  mpc,       \* where the mapper's goroutine is
  listed,    \* the claims in the answer of the API
  byNode,    \* byNode[n]: the mapper's list for node n, if it has one
  mapped,    \* history: the claims that byNode was made from
  spc,       \* spc[n]: where handleSnapshot is for node n
  enriched,  \* enriched[n]: the assignment that n's stream has just made
  podOf,     \* podOf[g]: the pod that nodeState shows for GPU g
  taken,     \* history: n's claims of the listing that enriched[n] is of
  shown      \* history: those of the listing that is shown of n

cluster == <<client, running>>
map == <<byNode, mapped>>
streams == <<spc, enriched, podOf, taken, shown>>
vars == <<cluster, mpc, listed, map, streams>>

Assignment == [Gpus -> Claims \cup {NoClaim, NotShown}]

TypeOK ==
  /\ client \in BOOLEAN
  /\ running \in SUBSET Claims
  /\ mpc \in {"refresh", "swap", "wait", "done", "panic"}
  /\ listed \in SUBSET Claims
  /\ DOMAIN byNode \subseteq Nodes
  /\ byNode \in [DOMAIN byNode -> SUBSET Claims]
  /\ \A n \in DOMAIN byNode :
       /\ byNode[n] # {}
       /\ \A c \in byNode[n] : ClaimNode[c] = n /\ ClaimCount[c] > 0
  /\ spc \in [Agents -> {"recv", "update"}]
  /\ enriched \in [Agents -> Assignment]
  /\ podOf \in Assignment
  /\ mapped \in SUBSET Claims
  /\ taken \in [Agents -> SUBSET Claims] /\ shown \in [Agents -> SUBSET Claims]

NothingShown == [g \in Gpus |-> NotShown]

Init ==
  /\ client \in BOOLEAN
  /\ running = {}
  /\ mpc = "refresh"
  /\ listed = {}
  /\ byNode = << >>
  /\ spc = [n \in Agents |-> "recv"]
  /\ enriched = [n \in Agents |-> NothingShown]
  /\ podOf = NothingShown
  /\ mapped = {}
  /\ taken = [n \in Agents |-> {}] /\ shown = [n \in Agents |-> {}]

\* A panic in any goroutine ends the process.
Up == mpc # "panic"

-----------------------------------------------------------------------------
(* The cluster.                                                            *)

PodStarts(c) ==
  /\ Up
  /\ running' = running \cup {c}
  /\ UNCHANGED <<client, mpc, listed, map, streams>>

PodStops(c) ==
  /\ Up
  /\ running' = running \ {c}
  /\ UNCHANGED <<client, mpc, listed, map, streams>>

-----------------------------------------------------------------------------
(* Mapper.Start and refresh.                                               *)

ListPods ==
  /\ mpc = "refresh"
  /\ client
  /\ listed' = running
  /\ mpc' = "swap"
  /\ UNCHANGED <<cluster, map, streams>>

\* The API returns an error: the map stays as it is.
ListFails ==
  /\ mpc = "refresh"
  /\ client
  /\ mpc' = "wait"
  /\ UNCHANGED <<cluster, listed, map, streams>>

\* The mapper without a client calls a method of a nil interface.
NilClient ==
  /\ mpc = "refresh"
  /\ ~client
  /\ mpc' = "panic"
  /\ UNCHANGED <<cluster, listed, map, streams>>

\* Faulty Counted: a limit of no GPUs is listed like any other.
CountAll(claims) == claims

\* The claims of a listing that ask for GPUs.
Counted(claims) == {c \in claims : ClaimCount[c] > 0}

\* The claims of a listing that are on node n.
OnNode(claims, n) == {c \in claims : ClaimNode[c] = n}

\* The map that refresh makes: append gives a node its list with its first claim.
ByNode(claims) == [n \in {ClaimNode[c] : c \in claims} |-> OnNode(claims, n)]

\* A missing key of the map reads as an empty list.
PodsOnNode(n) == IF n \in DOMAIN byNode THEN byNode[n] ELSE {}

\* Faulty Swap: the new lists are added to the old ones.
SwapAdds ==
  /\ mpc = "swap"
  /\ byNode' = ByNode(Counted(listed) \cup UNION {byNode[n] : n \in DOMAIN byNode})
  /\ mapped' = Counted(listed)
  /\ listed' = {}
  /\ mpc' = "wait"
  /\ UNCHANGED <<cluster, streams>>

Swap ==
  /\ mpc = "swap"
  /\ byNode' = ByNode(Counted(listed))
  /\ mapped' = Counted(listed)
  /\ listed' = {}
  /\ mpc' = "wait"
  /\ UNCHANGED <<cluster, streams>>

Tick ==
  /\ mpc = "wait"
  /\ mpc' = "refresh"
  /\ UNCHANGED <<cluster, listed, map, streams>>

\* The server's context is done.
Stop ==
  /\ mpc = "wait"
  /\ mpc' = "done"
  /\ UNCHANGED <<cluster, listed, map, streams>>

-----------------------------------------------------------------------------
(* handleSnapshot.                                                         *)

OfVendor(claims, vendor) == {c \in claims : ClaimVendor[c] = vendor}

\* The position of c in the list of claims, counted from 0.
Place(c, claims) == Cardinality({d \in claims : ListOrder[d] < ListOrder[c]})

\* Round-robin over the node's claims of the GPU's vendor, by its index.
PodFor(g, claims) ==
  LET own == OfVendor(claims, GpuVendor[g])
  IN  IF own = {} THEN NoClaim
      ELSE CHOOSE c \in own : Place(c, own) = GpuIndex[g] % Cardinality(own)

GpusOf(n) == {g \in Gpus : GpuNode[g] = n}

\* Faulty Enrich: a GPU without pods keeps the one that was shown.
EnrichKeeps(n) ==
  /\ Up
  /\ spc[n] = "recv"
  /\ \E S \in SUBSET GpusOf(n) :
       enriched' = [enriched EXCEPT ![n] =
                     [g \in Gpus |-> IF g \notin S THEN NotShown
                                     ELSE IF PodFor(g, PodsOnNode(n)) = NoClaim
                                            /\ podOf[g] # NotShown THEN podOf[g]
                                     ELSE PodFor(g, PodsOnNode(n))]]
  /\ taken' = [taken EXCEPT ![n] = OnNode(mapped, n)]
  /\ spc' = [spc EXCEPT ![n] = "update"]
  /\ UNCHANGED <<cluster, mpc, listed, map, podOf, shown>>

\* A snapshot of node n has come, with the GPUs S: PodsOnNode is read, they are
\* assigned.
Enrich(n) ==
  /\ Up
  /\ spc[n] = "recv"
  /\ \E S \in SUBSET GpusOf(n) :
       enriched' = [enriched EXCEPT ![n] =
                     [g \in Gpus |-> IF g \in S THEN PodFor(g, PodsOnNode(n)) ELSE NotShown]]
  /\ taken' = [taken EXCEPT ![n] = OnNode(mapped, n)]
  /\ spc' = [spc EXCEPT ![n] = "update"]
  /\ UNCHANGED <<cluster, mpc, listed, map, podOf, shown>>

\* nodeState[n] is replaced.
Update(n) ==
  /\ Up
  /\ spc[n] = "update"
  /\ podOf' = [g \in Gpus |-> IF GpuNode[g] = n THEN enriched[n][g] ELSE podOf[g]]
  /\ shown' = [shown EXCEPT ![n] = taken[n]]
  /\ enriched' = [enriched EXCEPT ![n] = NothingShown]
  /\ taken' = [taken EXCEPT ![n] = {}]
  /\ spc' = [spc EXCEPT ![n] = "recv"]
  /\ UNCHANGED <<cluster, mpc, listed, map>>

-----------------------------------------------------------------------------
Mapper == ListPods \/ ListFails \/ NilClient \/ Swap \/ Tick \/ Stop
Stream(n) == Enrich(n) \/ Update(n)

Next ==
  \/ \E c \in Claims : PodStarts(c) \/ PodStops(c)
  \/ Mapper
  \/ \E n \in Agents : Stream(n)

Spec == Init /\ [][Next]_vars

\* The ticker fires, the API does not fail for ever, and the agents go on
\* sending snapshots.
Fairness ==
  /\ WF_vars(Mapper)
  /\ SF_vars(ListPods)
  /\ \A n \in Agents : WF_vars(Stream(n))

FairSpec == Spec /\ Fairness

-----------------------------------------------------------------------------
(* Properties.                                                             *)

\* However polls and snapshots interleave, the GPUs of a node that are shown are
\* shown with the pods of one listing: with one of its vendor and node if there
\* is any, and with every one of them if a GPU of each index
\* below their number is shown.
MadeFromOneListing ==
  \A g \in Gpus :
    LET own == OfVendor(shown[GpuNode[g]], GpuVendor[g])
        alike == {h \in GpusOf(GpuNode[g]) : GpuVendor[h] = GpuVendor[g] /\ podOf[h] # NotShown}
    IN  g \in alike =>
          /\ podOf[g] \in IF own = {} THEN {NoClaim} ELSE own
          /\ 0 .. Cardinality(own) - 1 \subseteq {GpuIndex[h] : h \in alike}
               => own \subseteq {podOf[h] : h \in alike}

\* What the cluster's pods assign to the GPUs.
Assigned(claims) == [g \in Gpus |-> PodFor(g, OnNode(Counted(claims), GpuNode[g]))]

\* When pods stop coming and going, every GPU that is shown ends up with the pod
\* that the present claims assign to it, and no pod that is gone remains.
AssignmentConverges ==
  <>[][FALSE]_running /\ <>[](mpc \notin {"done", "panic"})
    => <>[](\A g \in Gpus : podOf[g] \in {NotShown, Assigned(running)[g]})
=============================================================================
