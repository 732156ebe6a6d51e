------------------------- MODULE MemoryStoreProofs -------------------------
(***************************************************************************)
(* What holds of the in-memory store for any GPUs, streams, requests and   *)
(* ring size, and that it is the store that HistoryLog promises.           *)
(***************************************************************************)
EXTENDS MemoryStore, SequenceTheorems, FiniteSetTheorems, FunctionTheorems, TLAPS

-----------------------------------------------------------------------------
(* Places of a sequence, and the elements at them.                         *)

\* The places before i.
Below(I, i) == {j \in I : j < i}

LEMMA BelowCount ==
  ASSUME NEW I \in SUBSET Int, IsFiniteSet(I), NEW i \in I
  PROVE  /\ Cardinality(I) \in Nat
         /\ IsFiniteSet(Below(I, i))
         /\ Cardinality(Below(I, i)) \in 0 .. Cardinality(I) - 1
<1>2. Below(I, i) \in SUBSET (I \ {i})
  BY DEF Below
<1>3. IsFiniteSet(I \ {i}) /\ Cardinality(I \ {i}) = Cardinality(I) - 1
  BY FS_RemoveElement
<1>4. IsFiniteSet(Below(I, i)) /\ Cardinality(Below(I, i)) <= Cardinality(I \ {i})
  BY <1>2, <1>3, FS_Subset
<1>. QED
  BY <1>3, <1>4, FS_CardinalityType

\* Of two places the later one has more below it.
LEMMA BelowGrows ==
  ASSUME NEW I \in SUBSET Int, IsFiniteSet(I), NEW i \in I, NEW j \in I, i < j
  PROVE  Cardinality(Below(I, i)) < Cardinality(Below(I, j))
<1>1. Below(I, i) \in SUBSET Below(I, j) /\ i \in Below(I, j) /\ i \notin Below(I, i)
  <2>1. \A k \in I : k \in Int
    OBVIOUS
  <2>2. ~(i < i) /\ \A k \in I : k < i => k < j
    BY <2>1
  <2>. QED
    BY <2>2 DEF Below
<1>2. IsFiniteSet(Below(I, j)) /\ Cardinality(Below(I, j)) \in Nat
      /\ Cardinality(Below(I, i)) \in Nat
  BY BelowCount
<1>3. Cardinality(Below(I, i)) <= Cardinality(Below(I, j))
      /\ Cardinality(Below(I, i)) # Cardinality(Below(I, j))
  BY <1>1, <1>2, FS_Subset
<1>. QED
  BY <1>2, <1>3

\* Every place is the n-th for the number n it should be ...
LEMMA NthOfRank ==
  ASSUME NEW I \in SUBSET Int, IsFiniteSet(I), NEW i \in I
  PROVE  /\ Cardinality(Below(I, i)) + 1 \in 1 .. Cardinality(I)
         /\ Nth(I, Cardinality(Below(I, i)) + 1) = i
<1>. DEFINE n == Cardinality(Below(I, i)) + 1
<1>1. n \in 1 .. Cardinality(I)
  BY BelowCount
<1>2. ASSUME NEW j \in I, Cardinality(Below(I, j)) = n - 1 PROVE j = i
  <2>1. Cardinality(Below(I, j)) = Cardinality(Below(I, i))
    BY <1>2, BelowCount
  <2>2. i \in Int /\ j \in Int
    OBVIOUS
  <2>3. ~(i < j) /\ ~(j < i)
    BY <2>1, BelowGrows, BelowCount
  <2>. QED
    BY <2>2, <2>3
<1>3. i \in I /\ Cardinality(Below(I, i)) = n - 1
  BY BelowCount
<1>. HIDE DEF n
<1>4. Nth(I, n) = i
  BY <1>2, <1>3 DEF Nth, Below
<1>. QED
  BY <1>1, <1>4 DEF n

\* ... and there is an n-th place for every n up to their number.
LEMMA NthExists ==
  ASSUME NEW I \in SUBSET Int, IsFiniteSet(I), NEW n \in 1 .. Cardinality(I)
  PROVE  Nth(I, n) \in I /\ Cardinality(Below(I, Nth(I, n))) = n - 1
<1>. DEFINE T == 1 .. Cardinality(I)
            rank == [i \in I |-> Cardinality(Below(I, i)) + 1]
<1>2. Cardinality(I) \in Nat
  BY FS_CardinalityType
<1>3. IsFiniteSet(T) /\ Cardinality(T) = Cardinality(I)
  BY <1>2, FS_Interval
<1>4. rank \in [I -> T]
  BY NthOfRank
<1>5. ASSUME NEW i \in I, NEW j \in I, rank[i] = rank[j] PROVE i = j
  <2>1. Cardinality(Below(I, i)) + 1 = Cardinality(Below(I, j)) + 1
    BY <1>5
  <2>. QED
    BY <2>1, NthOfRank
<1>. HIDE DEF rank, T
<1>6. rank \in Injection(I, T)
  BY <1>4, <1>5, Fun_IsInj
<1>7. rank \in Surjection(I, T)
  BY <1>3, <1>6, FS_Injection
<1>8. PICK i \in I : rank[i] = n
  BY <1>7 DEF Surjection, T
<1>9. n = Cardinality(Below(I, i)) + 1 /\ Cardinality(Below(I, i)) \in Nat
  BY <1>8, BelowCount DEF rank
<1>10. Nth(I, n) = i
  BY <1>9, NthOfRank
<1>. QED
  BY <1>9, <1>10

\* A place after all others is the last one, and leaves them where they are.
LEMMA NthOfMore ==
  ASSUME NEW I \in SUBSET Int, IsFiniteSet(I), NEW x \in Int, \A i \in I : i < x
  PROVE  LET J == I \cup {x} IN
         /\ J \in SUBSET Int /\ IsFiniteSet(J)
         /\ Cardinality(J) = Cardinality(I) + 1
         /\ Nth(J, Cardinality(I) + 1) = x
         /\ \A n \in 1 .. Cardinality(I) : Nth(J, n) = Nth(I, n)
<1>. DEFINE J == I \cup {x}
<1>1. x \notin I
  OBVIOUS
<1>2. J \in SUBSET Int /\ x \in J /\ IsFiniteSet(J) /\ Cardinality(J) = Cardinality(I) + 1
  BY <1>1, FS_AddElement
<1>3. Below(J, x) = I
  <2>1. \A i \in J : i < x <=> i \in I
    BY <1>1
  <2>. QED
    BY <2>1 DEF Below
<1>4. \A i \in I : Below(J, i) = Below(I, i) /\ i \in J
  <2>1. \A i \in I : i \in Int /\ ~(x < i)
    OBVIOUS
  <2>. QED
    BY <2>1 DEF Below
<1>. HIDE DEF J
<1>5. Nth(J, Cardinality(I) + 1) = x
  BY <1>2, <1>3, NthOfRank
<1>6. ASSUME NEW n \in 1 .. Cardinality(I) PROVE Nth(J, n) = Nth(I, n)
  <2>. DEFINE i == Nth(I, n)
  <2>1. i \in I /\ Cardinality(Below(I, i)) = n - 1
    BY NthExists
  <2>2. Nth(J, Cardinality(Below(J, i)) + 1) = i
    BY <1>2, <1>4, <2>1, NthOfRank
  <2>3. Cardinality(Below(J, i)) + 1 = n
    <3>1. n \in Int
      BY FS_CardinalityType
    <3>. HIDE DEF i
    <3>. QED
      BY <1>4, <2>1, <3>1
  <2>. QED
    BY <2>2, <2>3
<1>. QED
  BY <1>2, <1>5, <1>6 DEF J

\* What At gives.
LEMMA AtType ==
  ASSUME NEW S, NEW s \in Seq(S), NEW I \in SUBSET (DOMAIN s)
  PROVE  /\ I \in SUBSET Int /\ IsFiniteSet(I) /\ Cardinality(I) \in Nat
         /\ At(s, I) \in Seq(S)
         /\ Len(At(s, I)) = Cardinality(I)
         /\ \A n \in 1 .. Cardinality(I) : Nth(I, n) \in I /\ At(s, I)[n] = s[Nth(I, n)]
<1>1. Len(s) \in Nat /\ DOMAIN s = 1 .. Len(s)
  OBVIOUS
<1>2. IsFiniteSet(1 .. Len(s))
  BY <1>1, FS_Interval
<1>3. I \in SUBSET Int /\ IsFiniteSet(I)
  BY <1>1, <1>2, FS_Subset
<1>4. Cardinality(I) \in Nat
  BY <1>3, FS_CardinalityType
<1>5. \A n \in 1 .. Cardinality(I) : Nth(I, n) \in I
  BY <1>3, NthExists
<1>6. \A i \in I : s[i] \in S
  OBVIOUS
<1>7. At(s, I) \in [1 .. Cardinality(I) -> S]
  BY <1>5, <1>6 DEF At
<1>. QED
  BY <1>3, <1>4, <1>5, <1>7 DEF At

\* How many come after a place.
LEMMA AboveCount ==
  ASSUME NEW I \in SUBSET Int, IsFiniteSet(I), NEW i \in I
  PROVE  Cardinality({j \in I : i < j}) = Cardinality(I) - Cardinality(Below(I, i)) - 1
<1>. DEFINE A == {j \in I : i < j}
            B == Below(I, i) \cup {i}
<1>1. i \notin Below(I, i) /\ Below(I, i) \in SUBSET I
  BY DEF Below
<1>2. IsFiniteSet(Below(I, i)) /\ Cardinality(Below(I, i)) \in Nat /\ Cardinality(I) \in Nat
  BY BelowCount
<1>3. IsFiniteSet(B) /\ Cardinality(B) = Cardinality(Below(I, i)) + 1
  BY <1>1, <1>2, FS_AddElement
<1>4. A \in SUBSET I /\ A \cap B = {} /\ A \cup B = I
  <2>1. \A j \in I : (i < j <=> ~(j < i) /\ j # i) /\ ~(j < i /\ j = i)
    OBVIOUS
  <2>. QED
    BY <2>1 DEF Below
<1>. HIDE DEF A, B
<1>5. IsFiniteSet(A)
  BY <1>4, FS_Subset
<1>6. Cardinality(A) \in Nat /\ Cardinality(A \cap B) = 0
  BY <1>4, <1>5, FS_CardinalityType, FS_EmptySet
<1>7. Cardinality(I) = Cardinality(A) + Cardinality(B) - Cardinality(A \cap B)
  BY <1>3, <1>4, <1>5, FS_Union
<1>. QED
  BY <1>2, <1>3, <1>6, <1>7 DEF A

\* The newest n elements are the last ones.
LEMMA NewestLast ==
  ASSUME NEW S, NEW s \in Seq(S), NEW n \in Nat, Len(s) > n
  PROVE  /\ Newest(s, n) \in Seq(S)
         /\ Len(Newest(s, n)) = n
         /\ \A i \in 1 .. n : Newest(s, n)[i] = s[(Len(s) - n) + i]
<1>. DEFINE d == Len(s) - n
            t == SubSeq(s, d + 1, Len(s))
<1>1. d \in Nat /\ Len(s) \in Nat /\ d + 1 <= Len(s) + 1 /\ Len(s) - d = n
  OBVIOUS
<1>2. Newest(s, n) = t
  BY DEF Newest
<1>. HIDE DEF d
<1>3. t \in Seq(S) /\ Len(t) = Len(s) - d /\ \A i \in 1 .. Len(s) - d : t[i] = s[d + i]
  BY <1>1
<1>. HIDE DEF t
<1>. QED
  BY <1>1, <1>2, <1>3 DEF d

\* They are at most n.
LEMMA NewestType ==
  ASSUME NEW S, NEW s \in Seq(S), NEW n \in Nat
  PROVE  Newest(s, n) \in Seq(S) /\ Len(Newest(s, n)) <= n
<1>1. CASE Len(s) <= n
  BY <1>1 DEF Newest
<1>2. CASE Len(s) > n
  <2>1. Newest(s, n) \in Seq(S) /\ Len(Newest(s, n)) = n
    BY <1>2, NewestLast, Zenon
  <2>. QED
    BY <2>1
<1>. QED
  BY <1>1, <1>2

\* Cutting after each append keeps what cutting the whole history would: the
\* points that were dropped before are never needed again.
LEMMA NewestOfAppend ==
  ASSUME NEW S, NEW s \in Seq(S), NEW x \in S, NEW n \in Nat \ {0}
  PROVE  Newest(Append(Newest(s, n), x), n) = Newest(Append(s, x), n)
<1>1. CASE Len(s) <= n
  BY <1>1 DEF Newest
<1>2. CASE Len(s) > n
  <2>. DEFINE t == Newest(s, n)
              u == Append(t, x)
              v == Append(s, x)
              d == Len(s) - n
  <2>1. d \in Nat /\ Len(s) \in Nat /\ n \in Nat /\ n > 0
    BY <1>2
  <2>2. t \in Seq(S) /\ Len(t) = n /\ \A i \in 1 .. n : t[i] = s[d + i]
    BY <1>2, <2>1, NewestLast, Zenon
  <2>. HIDE DEF t
  <2>3. u \in Seq(S) /\ Len(u) = n + 1 /\ u[n + 1] = x /\ \A i \in 1 .. n : u[i] = t[i]
    BY <2>2
  <2>4. v \in Seq(S) /\ Len(v) = Len(s) + 1 /\ v[Len(s) + 1] = x
        /\ \A i \in 1 .. Len(s) : v[i] = s[i]
    OBVIOUS
  <2>. HIDE DEF u, v
  <2>5. Newest(u, n) \in Seq(S) /\ Len(Newest(u, n)) = n
        /\ \A i \in 1 .. n : Newest(u, n)[i] = u[1 + i]
    <3>1. Len(u) - n = 1
      BY <2>1, <2>3
    <3>2. u \in Seq(S) /\ n \in Nat /\ Len(u) > n
      BY <2>1, <2>3
    <3>3. /\ Newest(u, n) \in Seq(S)
          /\ Len(Newest(u, n)) = n
          /\ \A i \in 1 .. n : Newest(u, n)[i] = u[(Len(u) - n) + i]
      BY <3>2, NewestLast, Zenon
    <3>. QED
      BY <3>1, <3>3, Zenon
  <2>6. Newest(v, n) \in Seq(S) /\ Len(Newest(v, n)) = n
        /\ \A i \in 1 .. n : Newest(v, n)[i] = v[d + 1 + i]
    <3>1. Len(v) - n = d + 1
      BY <1>2, <2>1, <2>4
    <3>2. v \in Seq(S) /\ n \in Nat /\ Len(v) > n
      BY <1>2, <2>1, <2>4
    <3>3. /\ Newest(v, n) \in Seq(S)
          /\ Len(Newest(v, n)) = n
          /\ \A i \in 1 .. n : Newest(v, n)[i] = v[(Len(v) - n) + i]
      BY <3>2, NewestLast, Zenon
    <3>. QED
      BY <3>1, <3>3, Zenon
  <2>7. ASSUME NEW i \in 1 .. n PROVE u[1 + i] = v[d + 1 + i]
    <3>1. CASE i = n
      BY <2>1, <2>3, <2>4, <3>1
    <3>2. CASE i # n
      <4>1. 1 + i \in 1 .. n /\ d + 1 + i \in 1 .. Len(s) /\ d + (1 + i) = d + 1 + i
        BY <2>1, <3>2
      <4>. QED
        BY <2>2, <2>3, <2>4, <4>1
    <3>. QED
      BY <3>1, <3>2
  <2>8. Newest(u, n) = Newest(v, n)
    BY <2>5, <2>6, <2>7, SeqEqual
  <2>. QED
    BY <2>8 DEF u, v, t
<1>. QED
  BY <1>1, <1>2

\* The points under a key after one more point.
LEMMA UnderAppend ==
  ASSUME NEW s \in Seq(Point), NEW p \in Point, NEW k
  PROVE  /\ Under(k, s) \in Seq(Point)
         /\ Under(k, Append(s, p)) =
              IF Key(p.gpu) = k THEN Append(Under(k, s), p) ELSE Under(k, s)
<1>. DEFINE I == {i \in DOMAIN s : Key(s[i].gpu) = k}
            t == Append(s, p)
            J == {i \in DOMAIN t : Key(t[i].gpu) = k}
            x == Len(s) + 1
<1>1. I \in SUBSET (DOMAIN s) /\ J \in SUBSET (DOMAIN t)
  OBVIOUS
<1>2. /\ t \in Seq(Point) /\ Len(t) = x /\ DOMAIN t = 1 .. x /\ DOMAIN s = 1 .. Len(s)
      /\ Len(s) \in Nat /\ t[x] = p /\ \A i \in 1 .. Len(s) : t[i] = s[i]
  OBVIOUS
<1>3. J = IF Key(p.gpu) = k THEN I \cup {x} ELSE I
  <2>. HIDE DEF t
  <2>1. 1 .. x = (1 .. Len(s)) \cup {x} /\ x \notin 1 .. Len(s)
    BY <1>2
  <2>. HIDE DEF x
  <2>. QED
    BY <1>2, <2>1
<1>. HIDE DEF t
<1>4. /\ Under(k, s) = At(s, I) /\ Under(k, t) = At(t, J)
  BY DEF Under
<1>. HIDE DEF I, J
<1>5. /\ I \in SUBSET Int /\ IsFiniteSet(I) /\ Cardinality(I) \in Nat
      /\ At(s, I) \in Seq(Point) /\ Len(At(s, I)) = Cardinality(I)
      /\ \A n \in 1 .. Cardinality(I) : Nth(I, n) \in I /\ At(s, I)[n] = s[Nth(I, n)]
  BY <1>1, AtType
<1>6. /\ At(t, J) \in Seq(Point) /\ Len(At(t, J)) = Cardinality(J)
      /\ \A n \in 1 .. Cardinality(J) : At(t, J)[n] = t[Nth(J, n)]
  BY <1>1, <1>2, AtType
<1>7. \A n \in 1 .. Cardinality(I) : t[Nth(I, n)] = s[Nth(I, n)]
  BY <1>1, <1>2, <1>5
<1>8. CASE Key(p.gpu) = k
  <2>1. x \in Int /\ \A i \in I : i < x
    BY <1>1, <1>2
  <2>2. J = I \cup {x}
    BY <1>3, <1>8
  <2>. HIDE DEF x
  <2>3. /\ Cardinality(J) = Cardinality(I) + 1 /\ Nth(J, Cardinality(I) + 1) = x
        /\ \A n \in 1 .. Cardinality(I) : Nth(J, n) = Nth(I, n)
    BY <1>5, <2>1, <2>2, NthOfMore
  <2>. DEFINE a == At(t, J)
              b == Append(At(s, I), p)
  <2>4. b \in Seq(Point) /\ Len(b) = Cardinality(I) + 1
        /\ b[Cardinality(I) + 1] = p
        /\ \A n \in 1 .. Cardinality(I) : b[n] = At(s, I)[n]
    BY <1>5
  <2>5. a \in Seq(Point) /\ Len(a) = Cardinality(I) + 1
        /\ a[Cardinality(I) + 1] = p
        /\ \A n \in 1 .. Cardinality(I) : a[n] = s[Nth(I, n)]
    BY <1>2, <1>5, <1>6, <1>7, <2>3
  <2>. HIDE DEF a, b
  <2>6. \A n \in 1 .. Len(a) : a[n] = b[n]
    BY <1>5, <2>4, <2>5
  <2>7. a = b
    BY <2>4, <2>5, <2>6, SeqEqual
  <2>. QED
    BY <1>4, <1>5, <1>8, <2>7 DEF a, b, t
<1>9. CASE Key(p.gpu) # k
  <2>. DEFINE a == At(t, J)
              b == At(s, I)
  <2>1. J = I
    BY <1>3, <1>9
  <2>2. a \in Seq(Point) /\ b \in Seq(Point) /\ Len(a) = Len(b)
        /\ \A n \in 1 .. Len(a) : a[n] = b[n]
    BY <1>5, <1>6, <1>7, <2>1
  <2>. HIDE DEF a, b
  <2>3. a = b
    BY <2>2, SeqEqual
  <2>. QED
    BY <1>4, <1>5, <1>9, <2>3 DEF a, b, t
<1>. QED
  BY <1>8, <1>9

-----------------------------------------------------------------------------
(* The invariant.                                                          *)

\* Stream w is writing batch b: what is in the log since the last commit is a
\* first part of b, and w has the rest of it to append.
PartOf(b, w) ==
  LET n == Len(log) - Len(committed) IN
  /\ n \in 0 .. Len(b)
  /\ Len(batch[w]) = Len(b) - n
  /\ \A i \in DOMAIN committed : log[i] = committed[i]
  /\ \A i \in 1 .. n : log[Len(committed) + i] = [gpu |-> b[i], time |-> stamp[w]]
  /\ \A i \in 1 .. Len(b) - n : batch[w][i] = b[n + i]

WholeBatches ==
  \A w \in Writers :
    /\ wpc[w] # "idle" => stamp[w] \in Times
    /\ wpc[w] \in {"announce", "lock"} => batch[w] \in Batches
    /\ wpc[w] = "append" => \E b \in Batches : PartOf(b, w)

\* An answer has points of the key asked for only.
AnswersUnderKey ==
  \A r \in Readers : rpc[r] = "runlock" =>
    \A q \in req[r] : \A i \in DOMAIN answer[r] : Key(answer[r][i].gpu) = Key(q.gpu)

StoreInv == TypeOK /\ RingsHoldNewest /\ MuProtocol /\ WholeBatches /\ AnswersUnderKey

LEMMA NothingUnder == ASSUME NEW k PROVE Under(k, <<>>) = <<>>
<1>1. {i \in DOMAIN <<>> : Key(<<>>[i].gpu) = k} = {}
  OBVIOUS
<1>2. Under(k, <<>>) = At(<<>>, {})
  BY <1>1 DEF Under
<1>. QED
  BY <1>2, FS_EmptySet DEF At

LEMMA StoreInit == Init => StoreInv
<1>. SUFFICES ASSUME Init PROVE StoreInv
  OBVIOUS
<1>. USE MemoryStoreAssumption DEF Init
<1>1. TypeOK
  BY DEF TypeOK
<1>2. RingsHoldNewest
  BY NothingUnder DEF RingsHoldNewest, Newest
<1>3. MuProtocol
  BY DEF MuProtocol
<1>4. WholeBatches /\ AnswersUnderKey
  BY DEF WholeBatches, AnswersUnderKey
<1>. QED
  BY <1>1, <1>2, <1>3, <1>4 DEF StoreInv

\* What one pass of Write's loop does to the ring and to the log.
LEMMA AppendPointRing ==
  ASSUME StoreInv, NEW w \in Writers, AppendPoint(w)
  PROVE  /\ rings' \in [Keys -> Seq(Point)]
         /\ \A k \in Keys : Len(rings'[k]) <= RingSize
         /\ log' \in Seq(Point)
         /\ RingsHoldNewest'
<1>. USE MemoryStoreAssumption DEF StoreInv, TypeOK
<1>. DEFINE g == Head(batch[w])
            K == Key(g)
            p == [gpu |-> g, time |-> stamp[w]]
<1>1. g \in Gpus /\ K \in Keys /\ p \in Point /\ p.gpu = g
  BY DEF AppendPoint, Keys, Point
<1>2. /\ rings' = [rings EXCEPT ![K] = Newest(Append(rings[K], p), RingSize)]
      /\ log' = Append(log, p)
  BY DEF AppendPoint
<1>. HIDE DEF g, p
<1>3. \A k \in Keys :
        /\ Under(k, log) \in Seq(Point)
        /\ Under(k, log') = IF K = k THEN Append(Under(k, log), p) ELSE Under(k, log)
  BY <1>1, <1>2, UnderAppend
<1>. HIDE DEF K
<1>4. rings[K] = Newest(Under(K, log), RingSize)
  BY <1>1 DEF RingsHoldNewest
<1>5. Newest(Append(rings[K], p), RingSize) = Newest(Under(K, log'), RingSize)
  <2>. DEFINE u == Under(K, log)
  <2>1. u \in Seq(Point) /\ Under(K, log') = Append(u, p)
    BY <1>1, <1>3
  <2>. HIDE DEF u
  <2>2. Newest(Append(Newest(u, RingSize), p), RingSize) = Newest(Append(u, p), RingSize)
    BY <1>1, <2>1, NewestOfAppend
  <2>. QED
    BY <1>4, <2>1, <2>2 DEF u
<1>6. RingsHoldNewest'
  BY <1>1, <1>2, <1>3, <1>5 DEF RingsHoldNewest
<1>7. Append(rings[K], p) \in Seq(Point)
  BY <1>1
<1>8. /\ Newest(Append(rings[K], p), RingSize) \in Seq(Point)
      /\ Len(Newest(Append(rings[K], p), RingSize)) <= RingSize
  BY <1>7, NewestType
<1>. QED
  BY <1>1, <1>2, <1>6, <1>8

\* ... and to the part of the batch that is in the log.
LEMMA AppendPointPart ==
  ASSUME StoreInv, NEW w \in Writers, AppendPoint(w), NEW b \in Batches, PartOf(b, w)
  PROVE  PartOf(b, w)'
<1>. USE DEF StoreInv, TypeOK
<1>. DEFINE n == Len(log) - Len(committed)
            rest == batch[w]
            p == [gpu |-> Head(rest), time |-> stamp[w]]
<1>1. /\ log \in Seq(Point) /\ committed \in Seq(Point) /\ b \in Seq(Gpus)
      /\ rest \in Seq(Gpus) /\ rest # <<>> /\ stamp[w] \in Nat
  BY MemoryStoreAssumption DEF AppendPoint
<1>2. log' = Append(log, p) /\ batch'[w] = Tail(rest) /\ committed' = committed /\ stamp' = stamp
  BY DEF AppendPoint
<1>3. /\ n \in Nat /\ n <= Len(b) /\ Len(rest) = Len(b) - n
      /\ \A i \in DOMAIN committed : log[i] = committed[i]
      /\ \A i \in 1 .. n : log[Len(committed) + i] = [gpu |-> b[i], time |-> stamp[w]]
      /\ \A i \in 1 .. Len(b) - n : rest[i] = b[n + i]
  BY <1>1 DEF PartOf
<1>4. /\ Len(log') = Len(log) + 1 /\ log'[Len(log) + 1] = p
      /\ \A i \in 1 .. Len(log) : log'[i] = log[i]
  BY <1>1, <1>2 DEF Point
<1>5. Len(batch'[w]) = Len(rest) - 1 /\ \A i \in 1 .. Len(rest) - 1 : batch'[w][i] = rest[i + 1]
  BY <1>1, <1>2
<1>6. Len(rest) >= 1 /\ Head(rest) = rest[1] /\ Len(committed) \in Nat /\ Len(log) \in Nat
      /\ Len(b) \in Nat /\ DOMAIN committed = 1 .. Len(committed)
  BY <1>1
<1>. HIDE DEF rest
<1>7. n + 1 \in 0 .. Len(b) /\ Len(batch'[w]) = Len(b) - (n + 1)
  BY <1>3, <1>5, <1>6
<1>8. \A i \in DOMAIN committed : log'[i] = committed[i]
  <2>1. \A i \in DOMAIN committed : i \in 1 .. Len(log)
    BY <1>3, <1>6
  <2>. QED
    BY <1>3, <1>4, <2>1
<1>9. ASSUME NEW i \in 1 .. n + 1
      PROVE  log'[Len(committed) + i] = [gpu |-> b[i], time |-> stamp[w]]
  <2>1. CASE i = n + 1
    <3>1. rest[1] = b[n + 1]
      BY <1>3, <1>6
    <3>2. Len(committed) + i = Len(log) + 1
      BY <1>6, <2>1
    <3>. QED
      BY <1>4, <1>6, <2>1, <3>1, <3>2
  <2>2. CASE i \in 1 .. n
    <3>1. Len(committed) + i \in 1 .. Len(log)
      BY <1>6, <2>2
    <3>. QED
      BY <1>3, <1>4, <2>2, <3>1
  <2>. QED
    BY <1>3, <2>1, <2>2
<1>10. ASSUME NEW i \in 1 .. Len(b) - (n + 1) PROVE batch'[w][i] = b[n + 1 + i]
  <2>1. i \in 1 .. Len(rest) - 1 /\ i + 1 \in 1 .. Len(b) - n /\ n + (i + 1) = n + 1 + i
    BY <1>3, <1>6
  <2>. QED
    BY <1>3, <1>5, <2>1
<1>11. Len(log') - Len(committed') = n + 1
  BY <1>2, <1>4, <1>6
<1>. HIDE DEF n
<1>. QED
  BY <1>2, <1>7, <1>8, <1>9, <1>10, <1>11 DEF PartOf

LEMMA SamePart ==
  ASSUME NEW b, NEW w, UNCHANGED <<log, committed>>, batch'[w] = batch[w], stamp'[w] = stamp[w]
  PROVE  PartOf(b, w)' <=> PartOf(b, w)
BY DEF PartOf

\* A step of Write.
LEMMA WriteStoreInv ==
  ASSUME StoreInv, NEW w \in Writers,
         WriteStep(w) \/ \E b \in Batches, t \in Times : Call(w, b, t)
  PROVE  StoreInv'
<1>. USE MemoryStoreAssumption DEF StoreInv, TypeOK, readVars, writeVars
<1>1. ASSUME NEW b \in Batches, NEW t \in Times, Call(w, b, t) PROVE StoreInv'
  <2>1. TypeOK'
    BY <1>1 DEF Call
  <2>2. MuProtocol'
    BY <1>1 DEF Call, MuProtocol
  <2>3. WholeBatches'
    <3>1. wpc[w] = "idle" /\ wpc'[w] = "announce" /\ batch'[w] = b /\ stamp'[w] = t
      BY <1>1 DEF Call
    <3>2. \A v \in Writers \ {w} : UNCHANGED <<wpc[v], batch[v], stamp[v]>>
      BY <1>1 DEF Call
    <3>3. UNCHANGED <<log, committed>>
      BY <1>1 DEF Call
    <3>. QED
      BY <3>1, <3>2, <3>3, SamePart DEF WholeBatches
  <2>4. RingsHoldNewest' /\ AnswersUnderKey'
    BY <1>1 DEF Call, RingsHoldNewest, AnswersUnderKey
  <2>. QED
    BY <2>1, <2>2, <2>3, <2>4
<1>2. CASE AnnounceLock(w)
  <2>1. TypeOK'
    BY <1>2 DEF AnnounceLock
  <2>2. \A v \in Writers : wpc'[v] \in {"lock", "append"} <=> writer' = v
    BY <1>2 DEF AnnounceLock, MuProtocol
  <2>3. \A v \in Writers : wpc'[v] = "append" <=> wpc[v] = "append"
    BY <1>2 DEF AnnounceLock
  <2>4. UNCHANGED <<readers, rpc, req, answer, committed, log, rings, batch, stamp>>
    BY <1>2 DEF AnnounceLock
  <2>5. WholeBatches'
    <3>1. \A v \in Writers : /\ wpc'[v] # "idle" => wpc[v] # "idle"
                             /\ wpc'[v] \in {"announce", "lock"} => wpc[v] \in {"announce", "lock"}
      BY <1>2 DEF AnnounceLock
    <3>. QED
      BY <2>3, <2>4, <3>1, SamePart DEF WholeBatches
  <2>. QED
    BY <2>1, <2>2, <2>3, <2>4, <2>5 DEF RingsHoldNewest, MuProtocol, AnswersUnderKey
<1>3. CASE Lock(w)
  <2>1. TypeOK' /\ MuProtocol' /\ RingsHoldNewest' /\ AnswersUnderKey'
    BY <1>3 DEF Lock, RingsHoldNewest, MuProtocol, AnswersUnderKey
  <2>2. log = committed
    BY <1>3 DEF Lock, MuProtocol
  <2>3. batch[w] \in Batches /\ Len(batch[w]) \in Nat
    BY <1>3 DEF Lock, WholeBatches
  <2>4. PartOf(batch[w], w)
    BY <2>2, <2>3 DEF PartOf
  <2>5. WholeBatches'
    <3>1. \A v \in Writers : /\ v # w => wpc'[v] = wpc[v]
                             /\ v = w => wpc[v] = "lock" /\ wpc'[v] = "append"
      BY <1>3 DEF Lock
    <3>2. UNCHANGED <<log, committed, batch, stamp>>
      BY <1>3 DEF Lock
    <3>. QED
      BY <2>3, <2>4, <3>1, <3>2, SamePart DEF WholeBatches
  <2>. QED
    BY <2>1, <2>5
<1>4. CASE AppendPoint(w)
  <2>1. batch' \in [Writers -> Seq(Gpus)]
    BY <1>4 DEF AppendPoint
  <2>2. MuProtocol' /\ AnswersUnderKey'
    BY <1>4 DEF AppendPoint, MuProtocol, AnswersUnderKey
  <2>3. WholeBatches'
    <3>1. PICK b \in Batches : PartOf(b, w)
      BY <1>4 DEF AppendPoint, WholeBatches
    <3>2. PartOf(b, w)'
      BY <1>4, <3>1, AppendPointPart
    <3>3. \A v \in Writers \ {w} : wpc[v] \notin {"lock", "append"}
      BY <1>4 DEF AppendPoint, MuProtocol
    <3>4. UNCHANGED <<wpc, stamp>> /\ \A v \in Writers \ {w} : batch'[v] = batch[v]
      BY <1>4 DEF AppendPoint
    <3>5. wpc[w] = "append"
      BY <1>4 DEF AppendPoint
    <3>. QED
      BY <3>2, <3>3, <3>4, <3>5 DEF WholeBatches
  <2>. QED
    BY <1>4, <2>1, <2>2, <2>3, AppendPointRing DEF AppendPoint
<1>5. CASE Unlock(w)
  <2>1. TypeOK' /\ MuProtocol' /\ RingsHoldNewest' /\ AnswersUnderKey'
    BY <1>5 DEF Unlock, RingsHoldNewest, MuProtocol, AnswersUnderKey
  <2>2. \A v \in Writers : v # w => wpc'[v] = wpc[v] /\ wpc[v] # "append"
    BY <1>5 DEF Unlock, MuProtocol
  <2>3. wpc'[w] = "idle" /\ UNCHANGED <<batch, stamp>>
    BY <1>5 DEF Unlock
  <2>4. WholeBatches'
    BY <2>2, <2>3 DEF WholeBatches
  <2>. QED
    BY <2>1, <2>4
<1>. QED
  BY <1>1, <1>2, <1>3, <1>4, <1>5 DEF WriteStep

\* What a scan collects comes from the ring it scans.
LEMMA ScanAnswer ==
  ASSUME StoreInv, NEW q \in Query
  PROVE  /\ Within(rings[Key(q.gpu)], q) \in Seq(Point)
         /\ \A i \in DOMAIN Within(rings[Key(q.gpu)], q) :
              Key(Within(rings[Key(q.gpu)], q)[i].gpu) = Key(q.gpu)
<1>. DEFINE k == Key(q.gpu)
            u == Under(k, log)
            v == rings[k]
            R == {i \in DOMAIN log : Key(log[i].gpu) = k}
            W == {i \in DOMAIN v : ~(v[i].time < q.from) /\ ~(v[i].time > q.to)}
<1>1. k \in Keys /\ log \in Seq(Point) /\ v \in Seq(Point)
  BY DEF StoreInv, TypeOK, Keys, Query
<1>2. u \in Seq(Point) /\ Len(u) \in Nat /\ \A i \in 1 .. Len(u) : Key(u[i].gpu) = k
  <2>1. R \in SUBSET (DOMAIN log) /\ \A i \in R : Key(log[i].gpu) = k
    OBVIOUS
  <2>2. u = At(log, R)
    BY DEF Under
  <2>. HIDE DEF R, k
  <2>. QED
    BY <1>1, <2>1, <2>2, AtType
<1>3. v = Newest(u, RingSize)
  BY <1>1 DEF StoreInv, RingsHoldNewest
<1>. HIDE DEF u
<1>4. \A i \in DOMAIN v : Key(v[i].gpu) = k
  <2>. DEFINE d == IF Len(u) <= RingSize THEN 0 ELSE Len(u) - RingSize
  <2>1. /\ d \in Nat /\ Len(v) = Len(u) - d
        /\ \A i \in 1 .. Len(u) - d : v[i] = u[d + i]
    <3>1. RingSize \in Nat
      BY MemoryStoreAssumption
    <3>. HIDE DEF v
    <3>2. CASE Len(u) <= RingSize
      BY <1>2, <1>3, <3>2 DEF Newest
    <3>3. CASE Len(u) > RingSize
      <4>1. Len(v) = RingSize /\ \A i \in 1 .. RingSize : v[i] = u[(Len(u) - RingSize) + i]
        BY <1>2, <1>3, <3>1, <3>3, NewestLast, Zenon
      <4>. QED
        BY <1>2, <3>1, <3>3, <4>1
    <3>. QED
      BY <1>2, <3>1, <3>2, <3>3
  <2>2. DOMAIN v = 1 .. Len(v)
    BY <1>1
  <2>. HIDE DEF d, v, k
  <2>3. \A i \in 1 .. Len(u) - d : d + i \in 1 .. Len(u)
    BY <1>2, <2>1
  <2>. QED
    BY <1>2, <2>1, <2>2, <2>3
<1>5. Within(v, q) = At(v, W) /\ W \in SUBSET (DOMAIN v)
  BY DEF Within
<1>. HIDE DEF v, W, k
<1>6. /\ At(v, W) \in Seq(Point)
      /\ \A n \in DOMAIN At(v, W) : Nth(W, n) \in W /\ At(v, W)[n] = v[Nth(W, n)]
  BY <1>1, <1>5, AtType
<1>. QED
  BY <1>4, <1>5, <1>6 DEF v, k

\* A step of QueryRange.
LEMMA ReadStoreInv ==
  ASSUME StoreInv, NEW r \in Readers,
         ReadStep(r) \/ \E q \in Query : Ask(r, q)
  PROVE  StoreInv'
<1>. USE DEF StoreInv, readVars, writeVars
<1>1. rings' = rings /\ log' = log /\ committed' = committed /\ UNCHANGED writeVars
  BY DEF ReadStep, Ask, RLock, Scan, RUnlock
<1>2. RingsHoldNewest' /\ WholeBatches'
  BY <1>1, SamePart DEF RingsHoldNewest, WholeBatches
<1>3. ASSUME NEW q \in Query, Ask(r, q) PROVE TypeOK' /\ MuProtocol' /\ AnswersUnderKey'
  <2>1. TypeOK' /\ MuProtocol'
    BY <1>3 DEF Ask, TypeOK, MuProtocol
  <2>2. AnswersUnderKey'
    BY <1>3 DEF Ask, TypeOK, AnswersUnderKey
  <2>. QED
    BY <2>1, <2>2
<1>4. CASE RLock(r)
  <2>1. TypeOK' /\ MuProtocol'
    BY <1>4, MemoryStoreAssumption DEF RLock, TypeOK, MuProtocol
  <2>2. AnswersUnderKey'
    BY <1>4 DEF RLock, TypeOK, AnswersUnderKey
  <2>. QED
    BY <1>2, <2>1, <2>2
<1>5. CASE Scan(r)
  <2>1. PICK q \in req[r] : answer' = [answer EXCEPT ![r] = Within(rings[Key(q.gpu)], q)]
    BY <1>5 DEF Scan
  <2>2. q \in Query /\ \A p \in req[r] : p = q
    BY DEF TypeOK
  <2>. DEFINE a == Within(rings[Key(q.gpu)], q)
  <2>3. a \in Seq(Point) /\ \A i \in DOMAIN a : Key(a[i].gpu) = Key(q.gpu)
    BY <2>2, ScanAnswer
  <2>. HIDE DEF a
  <2>4. answer' = [answer EXCEPT ![r] = a]
    BY <2>1 DEF a
  <2>5. TypeOK' /\ MuProtocol'
    BY <1>5, <2>3, <2>4 DEF Scan, TypeOK, MuProtocol
  <2>6. AnswersUnderKey'
    BY <1>5, <2>2, <2>3, <2>4 DEF Scan, TypeOK, AnswersUnderKey
  <2>. QED
    BY <1>2, <2>5, <2>6
<1>6. CASE RUnlock(r)
  <2>1. TypeOK' /\ MuProtocol'
    BY <1>6 DEF RUnlock, TypeOK, MuProtocol
  <2>2. AnswersUnderKey'
    BY <1>6 DEF RUnlock, TypeOK, AnswersUnderKey
  <2>. QED
    BY <1>2, <2>1, <2>2
<1>. QED
  BY <1>2, <1>3, <1>4, <1>5, <1>6 DEF ReadStep

\* Types, the contents of the rings, the discipline of mu, what is in the log of
\* a batch that is being written, and what an answer is about, together.
THEOREM StoreCorrect == Spec => []StoreInv
<1>1. StoreInv /\ [Next]_vars => StoreInv'
  <2>. SUFFICES ASSUME StoreInv, [Next]_vars PROVE StoreInv'
    OBVIOUS
  <2>1. CASE UNCHANGED vars
    <3>1. WholeBatches'
      BY <2>1, SamePart DEF StoreInv, WholeBatches, vars, writeVars
    <3>. QED
      BY <2>1, <3>1 DEF StoreInv, TypeOK, RingsHoldNewest, MuProtocol, AnswersUnderKey, vars,
                        writeVars, readVars
  <2>. QED
    BY <2>1, WriteStoreInv, ReadStoreInv DEF Next
<1>. QED
  BY <1>1, StoreInit, PTL DEF Spec

\* Every variable of the store has its type, and no ring outgrows its size.
THEOREM TypeCorrect == Spec => []TypeOK
BY StoreCorrect, PTL DEF StoreInv

\* A ring is the newest RingSize points of all that was ever written under its
\* key, whatever the ring size and however writes and queries interleave.
THEOREM RingsCorrect == Spec => []RingsHoldNewest
BY StoreCorrect, PTL DEF StoreInv

\* mu is used as MuProtocol says.
THEOREM MuCorrect == Spec => []MuProtocol
BY StoreCorrect, PTL DEF StoreInv

\* Where no two GPUs share a ring key, an answer has points of no other GPU than
\* the one asked for.  Without that it has points of its key only
\* (AnswersUnderKey), which the store_index_collision run shows is not enough.
THEOREM AnswersCorrect ==
  ASSUME \A g, h \in Gpus : Key(g) = Key(h) => g = h
  PROVE  Spec => []AnswersAreOfTheGpu
<1>1. StoreInv => AnswersAreOfTheGpu
  <2>. SUFFICES ASSUME StoreInv, NEW r \in Readers, rpc[r] = "runlock", NEW q \in req[r],
                       NEW i \in DOMAIN answer[r]
                PROVE  answer[r][i].gpu = q.gpu
    BY DEF AnswersAreOfTheGpu
  <2>1. Key(answer[r][i].gpu) = Key(q.gpu)
    BY DEF StoreInv, AnswersUnderKey
  <2>2. answer[r] \in Seq(Point) /\ q.gpu \in Gpus
    BY DEF StoreInv, TypeOK, Query
  <2>3. answer[r][i] \in Point
    BY <2>2
  <2>4. answer[r][i].gpu \in Gpus
    BY <2>3 DEF Point
  <2>. QED
    BY <2>1, <2>2, <2>4
<1>. QED
  BY <1>1, StoreCorrect, PTL

\* An answer is what whole batches have of the key and within the bounds.
LEMMA ScanFromCommitted ==
  ASSUME StoreInv, NEW r \in Readers, Scan(r), NEW q \in req[r]
  PROVE  /\ q \in Query /\ req[r] = {q} /\ committed \in Seq(Point)
         /\ answer' = [answer EXCEPT ![r] =
                         Within(Newest(Under(Key(q.gpu), committed), RingSize), q)]
<1>. USE DEF StoreInv, TypeOK
<1>1. q \in Query /\ req[r] = {q}
  OBVIOUS
<1>2. Key(q.gpu) \in Keys
  BY <1>1 DEF Keys, Query
<1>3. committed = log
  BY DEF Scan, MuProtocol
<1>4. rings[Key(q.gpu)] = Newest(Under(Key(q.gpu), committed), RingSize)
  BY <1>2, <1>3 DEF RingsHoldNewest
<1>. QED
  BY <1>1, <1>4 DEF Scan

\* A query is answered from whole batches only: from the newest points of its
\* key in the log as the last writer to unlock left it.
THEOREM QueriesSeeWholeBatches == Spec => AnswersFromCommitted
<1>. DEFINE Scanned ==
              \A r \in Readers : rpc[r] = "scan" /\ rpc'[r] = "runlock" =>
                \A q \in req[r] :
                  answer'[r] = Within(Newest(Under(Key(q.gpu), committed), RingSize), q)
<1>1. StoreInv /\ [Next]_vars => [Scanned]_vars
  <2>. SUFFICES ASSUME StoreInv, Next, NEW r \in Readers,
                       rpc[r] = "scan", rpc'[r] = "runlock", NEW q \in req[r]
                PROVE  answer'[r] = Within(Newest(Under(Key(q.gpu), committed), RingSize), q)
    OBVIOUS
  <2>1. rpc \in [Readers -> {"idle", "rlock", "scan", "runlock"}] /\ answer \in [Readers -> Seq(Point)]
    BY DEF StoreInv, TypeOK
  <2>2. rpc' = rpc \/ \E x \in Readers : ReadStep(x) \/ \E p \in Query : Ask(x, p)
    BY DEF Next, WriteStep, Call, AnnounceLock, Lock, AppendPoint, Unlock, readVars
  <2>3. PICK x \in Readers : ReadStep(x) \/ \E p \in Query : Ask(x, p)
    BY <2>2
  <2>4. Scan(r)
    BY <2>1, <2>3 DEF ReadStep, Ask, RLock, Scan, RUnlock
  <2>. QED
    BY <2>1, <2>4, ScanFromCommitted
<1>. QED
  BY <1>1, StoreCorrect, PTL DEF Spec, AnswersFromCommitted

-----------------------------------------------------------------------------
(* The refinement of HistoryLog.                                           *)

\* The queries that wait for an answer, as HistoryLog sees them.
Asked == [r \in Readers |-> IF rpc[r] \in {"rlock", "scan"} THEN req[r] ELSE {}]

\* A writer that unlocks has added one whole batch to what was committed.
LEMMA UnlockRecords ==
  ASSUME StoreInv, NEW w \in Writers, Unlock(w)
  PROVE  \E b \in Batches, t \in Times : History!Record(b, t)
<1>. USE DEF StoreInv, TypeOK
<1>1. PICK b \in Batches : PartOf(b, w)
  BY DEF Unlock, WholeBatches
<1>2. stamp[w] \in Times /\ Times \subseteq Nat
  BY MemoryStoreAssumption DEF Unlock, WholeBatches
<1>. DEFINE c == [i \in DOMAIN b |-> [gpu |-> b[i], time |-> stamp[w]]]
            whole == committed \o c
<1>3. b \in Seq(Gpus) /\ log \in Seq(Point) /\ committed \in Seq(Point)
  BY MemoryStoreAssumption
<1>4. DOMAIN b = 1 .. Len(b) /\ Len(b) \in Nat /\ \A i \in 1 .. Len(b) : b[i] \in Gpus
  BY <1>3
<1>5. c \in Seq(Point) /\ Len(c) = Len(b)
      /\ \A i \in 1 .. Len(b) : c[i] = [gpu |-> b[i], time |-> stamp[w]]
  <2>1. c \in [1 .. Len(b) -> Point]
    BY <1>2, <1>4 DEF Point
  <2>. QED
    BY <1>4, <2>1
<1>. HIDE DEF c
<1>6. /\ whole \in Seq(Point)
      /\ Len(whole) = Len(committed) + Len(b)
      /\ \A i \in 1 .. Len(committed) + Len(b) :
           whole[i] = IF i <= Len(committed) THEN committed[i] ELSE c[i - Len(committed)]
  <2>1. /\ whole \in Seq(Point)
        /\ Len(whole) = Len(committed) + Len(c)
        /\ \A i \in 1 .. Len(committed) + Len(c) :
             whole[i] = IF i <= Len(committed) THEN committed[i] ELSE c[i - Len(committed)]
    <3>1. committed \in Seq(Point) /\ c \in Seq(Point)
      BY <1>3, <1>5
    <3>. QED
      BY ONLY <3>1, ConcatProperties, Zenon
  <2>. QED
    BY <1>5, <2>1
<1>7. Len(batch[w]) = 0
  BY DEF Unlock
<1>8. /\ Len(log) = Len(committed) + Len(b)
      /\ \A i \in 1 .. Len(committed) : log[i] = committed[i]
      /\ \A i \in 1 .. Len(b) : log[Len(committed) + i] = c[i]
  <2>. DEFINE n == Len(log) - Len(committed)
  <2>1. /\ n \in Nat /\ Len(batch[w]) = Len(b) - n
        /\ \A i \in DOMAIN committed : log[i] = committed[i]
        /\ \A i \in 1 .. n : log[Len(committed) + i] = [gpu |-> b[i], time |-> stamp[w]]
    BY <1>1 DEF PartOf
  <2>2. Len(log) \in Nat /\ Len(committed) \in Nat /\ DOMAIN committed = 1 .. Len(committed)
    BY <1>3
  <2>3. n = Len(b)
    BY <1>4, <1>7, <2>1
  <2>4. Len(log) = Len(committed) + Len(b)
    BY <1>4, <2>2, <2>3
  <2>. HIDE DEF n
  <2>. QED
    BY <1>5, <2>1, <2>2, <2>3, <2>4, Zenon
<1>. HIDE DEF whole
<1>9. ASSUME NEW i \in 1 .. Len(log) PROVE log[i] = whole[i]
  <2>1. Len(committed) \in Nat /\ Len(b) \in Nat /\ i \in Int /\ i >= 1
        /\ i <= Len(committed) + Len(b)
    BY <1>3, <1>4, <1>8
  <2>2. CASE i <= Len(committed)
    BY <1>6, <1>8, <2>1, <2>2
  <2>3. CASE i > Len(committed)
    <3>. DEFINE j == i - Len(committed)
    <3>1. j \in 1 .. Len(b) /\ Len(committed) + j = i /\ ~(i <= Len(committed))
      BY <2>1, <2>3
    <3>2. whole[i] = c[j]
      BY <1>6, <2>1, <3>1
    <3>. HIDE DEF j
    <3>3. log[Len(committed) + j] = c[j]
      BY <1>8, <3>1, Zenon
    <3>. QED
      BY <3>1, <3>2, <3>3, Zenon
  <2>. QED
    BY <2>1, <2>2, <2>3
<1>10. log = whole
  BY <1>3, <1>6, <1>8, <1>9, SeqEqual
<1>11. committed' = committed \o c
  BY <1>10 DEF Unlock, whole
<1>12. UNCHANGED <<Asked, answer>>
  BY DEF Unlock, readVars, Asked
<1>. QED
  BY <1>2, <1>11, <1>12 DEF History!Record, Asked, c

LEMMA WriteRefines ==
  ASSUME StoreInv, NEW w \in Writers,
         WriteStep(w) \/ \E b \in Batches, t \in Times : Call(w, b, t)
  PROVE  \/ UNCHANGED History!vars
         \/ \E b \in Batches, t \in Times : History!Record(b, t)
<1>1. CASE Unlock(w)
  BY <1>1, UnlockRecords
<1>2. CASE ~Unlock(w)
  <2>1. UNCHANGED <<committed, rpc, req, answer>>
    BY <1>2 DEF WriteStep, Call, AnnounceLock, Lock, AppendPoint, readVars
  <2>. QED
    BY <2>1 DEF History!vars
<1>. QED
  BY <1>1, <1>2

\* The operators that HistoryLog takes from the library are those used here.
LEMMA SameCardinality == \A S : History!Cardinality(S) = Cardinality(S)
BY DEF History!Cardinality, Cardinality

LEMMA SameBijection == \A S, T : History!Bijection(S, T) = Bijection(S, T)
BY DEF History!Bijection, Bijection, History!Injection, Injection, History!Surjection,
       Surjection, History!IsInjective, IsInjective

\* What a scan finds is what the log of whole batches remembers and q asks for.
LEMMA ScanArranges ==
  ASSUME committed \in Seq(Point), NEW q \in Query
  PROVE  Within(Newest(Under(Key(q.gpu), committed), RingSize), q)
           \in History!Arrangements(History!Matching(q))
<1>. DEFINE k == Key(q.gpu)
            R == {i \in DOMAIN committed : Key(committed[i].gpu) = k}
            u == At(committed, R)
            m == Cardinality(R)
            d == IF Len(u) <= RingSize THEN 0 ELSE Len(u) - RingSize
            v == Newest(u, RingSize)
            InTime(p) == ~(p.time < q.from) /\ ~(p.time > q.to)
            W == {a \in DOMAIN v : InTime(v[a])}
            n == Cardinality(W)
            M == History!Matching(q)
            f == [a \in 1 .. n |-> Nth(R, d + Nth(W, a))]
<1>1. RingSize \in Nat /\ RingSize > 0 /\ Times \subseteq Nat
  BY MemoryStoreAssumption
<1>2. q.gpu \in Gpus /\ q.from \in Nat /\ q.to \in Nat
  BY <1>1 DEF Query
<1>3. \A i \in DOMAIN committed : committed[i].gpu \in Gpus /\ committed[i].time \in Nat
  <2>1. \A i \in DOMAIN committed : committed[i] \in Point
    OBVIOUS
  <2>. QED
    BY <2>1 DEF Point
<1>4. R \in SUBSET (DOMAIN committed)
  OBVIOUS
<1>5. M = {i \in R : /\ Cardinality({j \in R : i < j}) \in 0 .. RingSize - 1
                     /\ InTime(committed[i])}
  <2>1. History!Recorded(k) = R
    BY <1>3 DEF History!Recorded
  <2>2. [g \in Gpus |-> Key(g)][q.gpu] = k
    BY <1>2
  <2>3. History!Remembered(k) = {i \in R : Cardinality({j \in R : i < j}) \in 0 .. RingSize - 1}
    BY <2>1, SameCardinality DEF History!Remembered
  <2>4. \A i \in DOMAIN committed :
          q.from <= committed[i].time /\ committed[i].time <= q.to <=> InTime(committed[i])
    BY <1>2, <1>3
  <2>. HIDE DEF R, k, InTime
  <2>. QED
    BY <1>4, <2>2, <2>3, <2>4 DEF History!Matching
<1>6. Within(Newest(Under(k, committed), RingSize), q) = At(v, W)
  BY DEF Within, Under
<1>. HIDE DEF R, InTime
<1>7. /\ R \in SUBSET Int /\ IsFiniteSet(R) /\ m \in Nat
      /\ u \in Seq(Point) /\ Len(u) = m
      /\ \A a \in 1 .. m : Nth(R, a) \in R /\ u[a] = committed[Nth(R, a)]
  BY <1>4, AtType
<1>. HIDE DEF u
<1>8. /\ v \in Seq(Point) /\ d \in Nat /\ Len(v) = m - d
      /\ \A a \in 1 .. m - d : v[a] = u[d + a]
  <2>1. v \in Seq(Point)
    BY <1>1, <1>7, NewestType, Zenon
  <2>2. CASE Len(u) <= RingSize
    BY <1>7, <2>2 DEF Newest
  <2>3. CASE Len(u) > RingSize
    <3>1. d = m - RingSize /\ d \in Nat /\ m - d = RingSize
      BY <1>1, <1>7, <2>3
    <3>2. Len(v) = RingSize /\ \A a \in 1 .. RingSize : v[a] = u[(Len(u) - RingSize) + a]
      BY <1>1, <1>7, <2>3, NewestLast, Zenon
    <3>. HIDE DEF v, d
    <3>. QED
      BY <1>7, <2>1, <3>1, <3>2
  <2>. QED
    BY <1>1, <1>7, <2>2, <2>3
<1>9. d = IF m <= RingSize THEN 0 ELSE m - RingSize
  BY <1>7
<1>. HIDE DEF v, d
<1>10. /\ W \in SUBSET Int /\ IsFiniteSet(W) /\ n \in Nat
       /\ At(v, W) = [a \in 1 .. n |-> v[Nth(W, a)]]
       /\ \A a \in 1 .. n : Nth(W, a) \in W
  <2>1. W \in SUBSET (DOMAIN v)
    OBVIOUS
  <2>. HIDE DEF W
  <2>. QED
    BY <1>8, <2>1, AtType DEF At
<1>11. \A a \in W : a \in 1 .. m - d /\ InTime(v[a])
  BY <1>8
<1>12. \A a \in 1 .. m - d : InTime(v[a]) => a \in W
  BY <1>8
<1>. HIDE DEF W, m, n, M
<1>13. \A i \in R : Cardinality(Below(R, i)) + 1 \in 1 .. m
                    /\ Nth(R, Cardinality(Below(R, i)) + 1) = i
  BY <1>7, NthOfRank DEF m
<1>14. \A a \in 1 .. m : Cardinality(Below(R, Nth(R, a))) = a - 1
  BY <1>7, NthExists DEF m
<1>15. \A i \in R : i \in M <=> Cardinality(Below(R, i)) >= d /\ InTime(committed[i])
  <2>1. \A i \in R : Cardinality({j \in R : i < j}) = m - Cardinality(Below(R, i)) - 1
    BY <1>7, AboveCount DEF m
  <2>2. \A i \in R : Cardinality(Below(R, i)) \in 0 .. m - 1
    BY <1>7, BelowCount DEF m
  <2>3. \A i \in R : m - Cardinality(Below(R, i)) - 1 \in 0 .. RingSize - 1
                    <=> Cardinality(Below(R, i)) >= d
    BY <1>1, <1>7, <1>9, <2>2
  <2>. QED
    BY <1>5, <2>1, <2>3
<1>16. f \in [1 .. n -> M]
  <2>. SUFFICES ASSUME NEW a \in 1 .. n PROVE Nth(R, d + Nth(W, a)) \in M
    OBVIOUS
  <2>. DEFINE b == Nth(W, a)
              i == Nth(R, d + b)
  <2>1. b \in 1 .. m - d /\ InTime(v[b])
    BY <1>10, <1>11
  <2>. HIDE DEF b
  <2>2. d + b \in 1 .. m /\ d + b - 1 >= d
    BY <1>7, <1>8, <2>1
  <2>3. i \in R /\ Cardinality(Below(R, i)) = d + b - 1 /\ v[b] = committed[i]
    BY <1>7, <1>8, <1>14, <2>1, <2>2
  <2>. HIDE DEF i
  <2>4. i \in M
    BY <1>15, <2>1, <2>2, <2>3
  <2>. QED
    BY <2>4 DEF i, b
<1>17. ASSUME NEW a \in 1 .. n, NEW b \in 1 .. n, f[a] = f[b] PROVE a = b
  <2>. DEFINE c == Nth(W, a)
              e == Nth(W, b)
  <2>1. c \in 1 .. m - d /\ e \in 1 .. m - d
    BY <1>10, <1>11
  <2>2. Cardinality(Below(W, c)) = a - 1 /\ Cardinality(Below(W, e)) = b - 1
    BY <1>10, NthExists DEF n
  <2>3. Nth(R, d + c) = Nth(R, d + e)
    BY <1>17
  <2>. HIDE DEF c, e
  <2>4. d + c \in 1 .. m /\ d + e \in 1 .. m
    BY <1>7, <1>8, <2>1
  <2>5. /\ Cardinality(Below(R, Nth(R, d + c))) = d + c - 1
        /\ Cardinality(Below(R, Nth(R, d + e))) = d + e - 1
    <3>. DEFINE x == d + c
                y == d + e
    <3>1. x \in 1 .. m /\ y \in 1 .. m
      BY <2>4
    <3>. HIDE DEF x, y
    <3>2. Cardinality(Below(R, Nth(R, x))) = x - 1 /\ Cardinality(Below(R, Nth(R, y))) = y - 1
      BY <1>14, <3>1
    <3>. QED
      BY <1>7, <1>8, <2>1, <3>2 DEF x, y
  <2>6. c = e
    BY <1>8, <2>1, <2>3, <2>5
  <2>. QED
    BY <1>10, <2>2, <2>6
<1>18. ASSUME NEW i \in M PROVE \E a \in 1 .. n : f[a] = i
  <2>. DEFINE e == Cardinality(Below(R, i)) + 1
              b == e - d
              a == Cardinality(Below(W, b)) + 1
  <2>1. i \in R
    BY <1>5
  <2>2. e \in 1 .. m /\ Nth(R, e) = i /\ e - 1 >= d /\ InTime(committed[i])
    BY <1>13, <1>15, <2>1, BelowCount, <1>7
  <2>. HIDE DEF e
  <2>3. b \in 1 .. m - d /\ d + b = e
    BY <1>7, <1>8, <2>2
  <2>. HIDE DEF b
  <2>4. v[b] = committed[i]
    BY <1>7, <1>8, <2>2, <2>3
  <2>5. b \in W
    BY <1>12, <2>2, <2>3, <2>4
  <2>6. a \in 1 .. n /\ Nth(W, a) = b
    BY <1>10, <2>5, NthOfRank DEF n
  <2>. HIDE DEF a
  <2>7. f[a] = i
    BY <2>2, <2>3, <2>6
  <2>. QED
    BY <2>6, <2>7
<1>19. \A a \in 1 .. n : v[Nth(W, a)] = committed[f[a]]
  <2>. SUFFICES ASSUME NEW a \in 1 .. n
                PROVE  v[Nth(W, a)] = committed[Nth(R, d + Nth(W, a))]
    OBVIOUS
  <2>. DEFINE b == Nth(W, a)
  <2>1. b \in 1 .. m - d
    BY <1>10, <1>11
  <2>. HIDE DEF b
  <2>2. d + b \in 1 .. m
    BY <1>7, <1>8, <2>1
  <2>3. v[b] = committed[Nth(R, d + b)]
    BY <1>7, <1>8, <2>1, <2>2
  <2>. QED
    BY <2>3 DEF b
<1>. HIDE DEF f
<1>20. f \in Bijection(1 .. n, M)
  <2>1. f \in Injection(1 .. n, M)
    BY <1>16, <1>17, Fun_IsInj
  <2>2. f \in Surjection(1 .. n, M)
    BY <1>16, <1>18, Fun_IsSurj
  <2>. QED
    BY <2>1, <2>2 DEF Bijection
<1>21. Cardinality(M) = n
  <2>1. IsFiniteSet(1 .. n) /\ Cardinality(1 .. n) = n
    BY <1>10, FS_Interval
  <2>2. ExistsBijection(1 .. n, M)
    BY <1>20 DEF ExistsBijection
  <2>. QED
    BY <2>1, <2>2, FS_Bijection
<1>22. At(v, W) = [a \in 1 .. n |-> committed[f[a]]]
  BY <1>10, <1>19
<1>23. At(v, W) \in History!Arrangements(M)
  BY <1>20, <1>21, <1>22, SameCardinality, SameBijection DEF History!Arrangements
<1>. QED
  BY <1>6, <1>23 DEF M

LEMMA AskRefines ==
  ASSUME StoreInv, NEW r \in Readers, NEW q \in Query, Ask(r, q)
  PROVE  History!Ask(r, q)
<1>. USE DEF StoreInv, TypeOK
<1>1. Asked \in [Readers -> SUBSET Query] /\ Asked[r] = {}
  BY DEF Ask, Asked
<1>2. Asked' = [Asked EXCEPT ![r] = {q}]
  BY DEF Ask, Asked
<1>3. committed' = committed /\ answer' = [answer EXCEPT ![r] = <<>>]
  BY DEF Ask
<1>. QED
  BY <1>1, <1>2, <1>3 DEF History!Ask, Asked

LEMMA ScanRefines ==
  ASSUME StoreInv, NEW r \in Readers, Scan(r)
  PROVE  History!Answer(r)
<1>. USE DEF StoreInv, TypeOK
<1>1. PICK q \in req[r] : TRUE
  BY DEF Scan
<1>. DEFINE a == Within(Newest(Under(Key(q.gpu), committed), RingSize), q)
<1>2. /\ q \in Query /\ req[r] = {q} /\ committed \in Seq(Point)
      /\ answer' = [answer EXCEPT ![r] = a]
  BY ScanFromCommitted
<1>3. a \in History!Arrangements(History!Matching(q))
  BY <1>2, ScanArranges
<1>. HIDE DEF a
<1>4. Asked[r] = {q}
  BY <1>2 DEF Scan, Asked
<1>5. Asked' = [Asked EXCEPT ![r] = {}]
  BY DEF Scan, Asked
<1>6. committed' = committed
  BY DEF Scan
<1>. QED
  BY <1>2, <1>3, <1>4, <1>5, <1>6 DEF History!Answer, Asked

\* Each step of the store is a step of the log of whole batches, or none.
LEMMA StepRefines == StoreInv /\ [Next]_vars => [History!Next]_(History!vars)
<1>. SUFFICES ASSUME StoreInv, [Next]_vars
              PROVE  History!Next \/ UNCHANGED History!vars
  OBVIOUS
<1>1. CASE UNCHANGED vars
  BY <1>1 DEF vars, readVars, History!vars
<1>2. ASSUME NEW w \in Writers,
             WriteStep(w) \/ \E b \in Batches, t \in Times : Call(w, b, t)
      PROVE  History!Next \/ UNCHANGED History!vars
  BY <1>2, WriteRefines DEF History!Next
<1>3. ASSUME NEW r \in Readers, NEW q \in Query, Ask(r, q) PROVE History!Next
  BY <1>3, AskRefines DEF History!Next, History!Query, Query
<1>4. ASSUME NEW r \in Readers, Scan(r) PROVE History!Next
  BY <1>4, ScanRefines DEF History!Next
<1>5. ASSUME NEW r \in Readers, RLock(r) \/ RUnlock(r) PROVE UNCHANGED History!vars
  <2>1. Asked' = Asked
    BY <1>5 DEF RLock, RUnlock, Asked, StoreInv, TypeOK
  <2>2. UNCHANGED <<committed, answer>>
    BY <1>5 DEF RLock, RUnlock
  <2>. QED
    BY <2>1, <2>2 DEF History!vars, Asked
<1>. QED
  BY <1>1, <1>2, <1>3, <1>4, <1>5 DEF Next, ReadStep

\* A request is answered as it is from a store of whole batches.
THEOREM RefinesHistoryLog == Spec => ImplementsHistoryLog
<1>1. Init => History!Init
  BY DEF Init, History!Init
<1>2. StoreInv /\ [Next]_vars => [History!Next]_(History!vars)
  BY StepRefines
<1>. QED
  BY <1>1, <1>2, StoreCorrect, PTL DEF Spec, ImplementsHistoryLog, History!Spec
=============================================================================
