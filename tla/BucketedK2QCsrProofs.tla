------------------------- MODULE BucketedK2QCsrProofs -------------------------
(***************************************************************************)
(* The four kernels invert q2k_block_index, for every launch: any number   *)
(* of q and kv blocks, group size, threads, row width, counts and entries. *)
(* An edge is an entry that a thread reads and keeps; numbers of edges are *)
(* what the counts, prefix sums and cursors are shown to be, and the       *)
(* scattered slots are shown to be one per edge of a slice.                *)
(***************************************************************************)
EXTENDS BucketedK2QCsr, FiniteSetTheorems, WellFoundedInduction, TLAPS

-----------------------------------------------------------------------------
(* Arithmetic.                                                             *)

LEMMA Divmod ==
    ASSUME NEW k \in Nat, NEW d \in Nat \ {0}
    PROVE  k \div d \in Nat /\ k % d \in 0 .. d - 1 /\ k = d * (k \div d) + (k % d)
  BY Z3

\* Quotient and remainder determine the number and are determined by it.
LEMMA DivmodInjective ==
    ASSUME NEW k \in Nat, NEW m \in Nat, NEW d \in Nat \ {0}, k \div d = m \div d, k % d = m % d
    PROVE  k = m
<1>1. k = d * (k \div d) + (k % d) /\ m = d * (m \div d) + (m % d)
  BY Divmod
<1> QED BY <1>1

LEMMA PairInjective ==
    ASSUME NEW d \in Nat \ {0}, NEW q \in Nat, NEW p \in Nat, NEW s \in 0 .. d - 1, NEW r \in 0 .. d - 1,
           d * q + s = d * p + r
    PROVE  q = p /\ s = r
<1>1. CASE q < p
  <2>1. d * (q + 1) <= d * p
    BY <1>1, Z3
  <2>2. d * (q + 1) = d * q + d
    BY Z3
  <2>3. d * q \in Int /\ d * p \in Int
    BY Z3
  <2> QED BY <2>1, <2>2, <2>3, Z3
<1>2. CASE p < q
  <2>1. d * (p + 1) <= d * q
    BY <1>2, Z3
  <2>2. d * (p + 1) = d * p + d
    BY Z3
  <2>3. d * q \in Int /\ d * p \in Int
    BY Z3
  <2> QED BY <2>1, <2>2, <2>3, Z3
<1>3. CASE q = p
  <2>1. d * q \in Int /\ d * q = d * p
    BY <1>3, Z3
  <2> QED BY <1>3, <2>1, Z3
<1> QED BY <1>1, <1>2, <1>3

LEMMA DivmodUnique ==
    ASSUME NEW d \in Nat \ {0}, NEW q \in Nat, NEW s \in 0 .. d - 1
    PROVE  (d * q + s) \div d = q /\ (d * q + s) % d = s
<1> DEFINE k == d * q + s
<1>1. k \in Nat
  BY Z3
<1>2. k \div d \in Nat /\ k % d \in 0 .. d - 1 /\ k = d * (k \div d) + (k % d)
  BY <1>1, Divmod
<1> DEFINE p == k \div d
           r == k % d
<1>3. p \in Nat /\ r \in 0 .. d - 1 /\ d * q + s = d * p + r
  BY <1>2
<1> HIDE DEF p, r
<1>4. q = p /\ s = r
  BY <1>3, PairInjective
<1> QED BY <1>4 DEF p, r

LEMMA PairToNumber ==
    ASSUME NEW x \in Nat, NEW y \in Nat, NEW a \in 0 .. x - 1, NEW b \in 0 .. y - 1
    PROVE  y * a + b \in 0 .. x * y - 1
<1>1. y * a <= y * (x - 1)
  BY Z3
<1>2. y * (x - 1) = x * y - y
  BY Z3
<1>3. y * a \in Nat /\ x * y \in Nat
  BY Z3
<1> QED BY <1>1, <1>2, <1>3, Z3

LEMMA NumberToPair ==
    ASSUME NEW x \in Nat, NEW y \in Nat \ {0}, NEW k \in 0 .. x * y - 1
    PROVE  k \div y \in 0 .. x - 1 /\ k % y \in 0 .. y - 1 /\ k \in Nat
<1>1. k \in Nat /\ x * y \in Nat /\ k < x * y
  BY Z3
<1> DEFINE q == k \div y
           r == k % y
<1>2. q \in Nat /\ r \in 0 .. y - 1 /\ k = y * q + r
  BY <1>1, Divmod
<1> HIDE DEF q, r
<1>3. ASSUME q >= x PROVE FALSE
  <2>1. y * q >= y * x
    BY <1>2, <1>3, Z3
  <2>2. y * x = x * y /\ y * q \in Nat
    BY <1>2, Z3
  <2> QED BY <1>1, <1>2, <2>1, <2>2, Z3
<1>4. q \in 0 .. x - 1
  BY <1>2, <1>3, Z3
<1> QED BY <1>1, <1>2, <1>4 DEF q, r

\* Rounding up: a number below w has its quotient below the number of whole and
\* partial groups of d in w.
LEMMA RoundingUp ==
    ASSUME NEW w \in Nat, NEW d \in Nat \ {0}, NEW s \in 0 .. w - 1
    PROVE  s \div d \in 0 .. (w + d - 1) \div d - 1
<1> DEFINE n == (w + d - 1) \div d
           q == s \div d
           r == (w + d - 1) % d
<1>1. w + d - 1 \in Nat /\ s \in Nat
  BY Z3
<1>2. n \in Nat /\ r \in 0 .. d - 1 /\ w + d - 1 = d * n + r
  BY <1>1, Divmod
<1>3. q \in Nat /\ d * q <= s
  <2>1. q \in Nat /\ s % d \in 0 .. d - 1 /\ s = d * q + (s % d)
    BY <1>1, Divmod
  <2> DEFINE e == s % d
  <2>2. e \in 0 .. d - 1 /\ s = d * q + e
    BY <2>1
  <2> HIDE DEF e, q
  <2> QED BY <2>1, <2>2, Z3
<1> HIDE DEF n, q, r
<1>4. d * n >= w
  <2>1. d * n \in Int
    BY <1>2, Z3
  <2> QED BY <1>2, <2>1, Z3
<1>5. ASSUME q >= n PROVE FALSE
  <2>1. d * q >= d * n
    BY <1>2, <1>3, <1>5, Z3
  <2>2. d * q \in Int /\ d * n \in Int
    BY <1>2, <1>3, Z3
  <2> QED BY <1>3, <1>4, <2>1, <2>2, Z3
<1> QED BY <1>2, <1>3, <1>5, Z3 DEF n, q

\* A non-empty set of naturals has a least element.
LEMMA LeastElement ==
    ASSUME NEW T, T \subseteq Nat, T # {}
    PROVE  \E x \in T : \A y \in T : x <= y
  <1> DEFINE R == OpToRel(<, Nat)
  <1>1. IsWellFoundedOn(R, Nat)
    BY NatLessThanWellFounded
  <1>2. \A x, y \in Nat : x < y => <<x, y>> \in R
    BY Z3 DEF OpToRel
  <1> HIDE DEF R
  <1>3. PICK x \in T : \A y \in T : <<y, x>> \notin R
    BY <1>1, WFMin
  <1>4. \A y \in T : ~(y < x)
    BY <1>2, <1>3
  <1> QED BY <1>4, Z3

\* A sum is known from its recursion: f[k-1] is what G gains from k-1 to k.
LEMMA SumIs ==
    ASSUME NEW n \in Nat, NEW f, NEW G \in [0..n -> Int], G[0] = 0,
           \A i \in 1..n : G[i] = G[i-1] + f[i-1]
    PROVE  SumBelow(f, n) = G[n]
<1> DEFINE Step(s) == [i \in 0..n |-> IF i = 0 THEN 0 ELSE s[i-1] + f[i-1]]
           sum == CHOOSE s : s = Step(s)
<1>1. G = Step(G)
  <2>1. \A i \in 0..n : G[i] = IF i = 0 THEN 0 ELSE G[i-1] + f[i-1]
    <3> SUFFICES ASSUME NEW i \in 0..n, i # 0 PROVE G[i] = G[i-1] + f[i-1]
      OBVIOUS
    <3>1. i \in 1..n
      OBVIOUS
    <3> QED BY <3>1
  <2> QED BY <2>1
<1>2. sum = Step(sum)
  <2> HIDE DEF Step
  <2> QED BY <1>1
<1> HIDE DEF sum
<1>3. sum[0] = 0 /\ \A i \in 1..n : sum[i] = sum[i-1] + f[i-1]
  <2>1. \A i \in 0..n : sum[i] = IF i = 0 THEN 0 ELSE sum[i-1] + f[i-1]
    BY <1>2
  <2>2. \A i \in 1..n : i \in 0..n /\ i # 0
    OBVIOUS
  <2> QED BY <2>1, <2>2
<1>4. \A i \in 0..n : sum[i] = G[i]
  <2> SUFFICES ASSUME NEW k \in 0..n, sum[k] # G[k] PROVE FALSE
    OBVIOUS
  <2> DEFINE Off == {i \in 0..n : sum[i] # G[i]}
  <2>1. PICK m \in Off : \A i \in Off : m <= i
    <3>1. Off \subseteq Nat /\ k \in Off
      OBVIOUS
    <3> HIDE DEF Off
    <3> QED BY <3>1, LeastElement
  <2>2. m \in 1..n
    BY <1>3
  <2>3. m - 1 \in 0..n /\ m - 1 \notin Off
    BY <2>1, <2>2
  <2>4. sum[m-1] = G[m-1]
    BY <2>3
  <2> QED BY <1>3, <2>2, <2>4
<1>5. SumBelow(f, n) = sum[n]
  BY DEF SumBelow, sum
<1> QED BY <1>4, <1>5

-----------------------------------------------------------------------------
(* Edges and how many there are.                                           *)

Edge == EdgeThreadsOf
Edges(g, k)   == {t \in Edge : Group(t) = g /\ KvBlock(t) = k}
InGroup(g, k) == {t \in Edge : Group(t) = g /\ KvBlock(t) < k}
Before(g, k)  == {t \in Edge : Group(t) < g \/ (Group(t) = g /\ KvBlock(t) < k)}
BeforeGroup(g) == {t \in Edge : Group(t) < g}

\* Where the slice of (g, k) begins: after the edges of the slices before it.
Start(g, k)  == Cardinality(Before(g, k))

LEMMA Sizes ==
    ASSUME input \in Inputs
    PROVE  /\ NumQ \in Nat \ {0} /\ NumKv \in Nat \ {0} /\ BucketSize \in Nat \ {0}
           /\ EdgeThreads \in Nat \ {0} /\ MaxKv \in Nat /\ input.sparse \in 0..MaxKv
           /\ input.q2k \in [0..NumQ-1 -> [0..MaxKv-1 -> Int]]
           /\ EdgeWidth \in Nat /\ EdgeWidth <= MaxKv /\ NumEdgeTiles \in Nat
           /\ NumQ * EdgeWidth \in Nat /\ MaxEdges \in Nat \ {0} /\ NumQ * EdgeWidth <= MaxEdges
           /\ Groups = 0 .. (NumQ + BucketSize - 1) \div BucketSize - 1 /\ 0 \in Groups
<1>1. /\ NumQ \in Nat \ {0} /\ NumKv \in Nat \ {0} /\ BucketSize \in Nat \ {0}
      /\ EdgeThreads \in Nat \ {0} /\ MaxKv \in Nat
  BY SizesAssumption
<1>2. input.q2k \in [0..NumQ-1 -> [0..MaxKv-1 -> Int]] /\ input.sparse \in 0..MaxKv
  BY InputsAssumption
<1>3. EdgeWidth \in Nat /\ EdgeWidth <= MaxKv
  BY <1>1, <1>2 DEF EdgeWidth
<1>4. NumEdgeTiles \in Nat
  <2>1. EdgeWidth + EdgeThreads - 1 \in Nat
    BY <1>1, <1>3
  <2> QED BY <1>1, <2>1, Divmod DEF NumEdgeTiles
<1>5. NumQ * EdgeWidth \in Nat
  <2> DEFINE w == EdgeWidth
  <2> HIDE DEF w
  <2>1. w \in Nat => NumQ * w \in Nat
    BY <1>1, Z3
  <2> QED BY <1>3, <2>1 DEF w
<1>6. MaxEdges \in Nat \ {0} /\ NumQ * EdgeWidth <= MaxEdges
  BY <1>5 DEF MaxEdges
<1>7. 0 \in Groups
  <2>1. 0 \div BucketSize \in Groups
    BY <1>1, RoundingUp DEF Groups
  <2>2. 0 \div BucketSize = 0
    BY <1>1, Z3
  <2> QED BY <2>1, <2>2
<1> QED BY <1>1, <1>2, <1>3, <1>4, <1>5, <1>6, <1>7 DEF Groups

\* A thread and the entry it reads.
LEMMA ThreadOfEntry ==
    ASSUME input \in Inputs, NEW t \in Threads
    PROVE  /\ t = <<t[1], t[2]>> /\ NumEdgeTiles \in Nat \ {0}
           /\ t[1] \div NumEdgeTiles \in 0 .. NumQ - 1 /\ t[1] % NumEdgeTiles \in 0 .. NumEdgeTiles - 1
           /\ t[1] \in Nat /\ t[2] \in 0 .. EdgeThreads - 1
           /\ QBlock(t) = t[1] \div NumEdgeTiles
           /\ Slot(t) = EdgeThreads * (t[1] % NumEdgeTiles) + t[2] /\ Slot(t) \in Nat
<1> DEFINE n == NumEdgeTiles
           a == t[1]
           b == t[2]
           q == a \div n
           r == a % n
<1>1. /\ a \in 0 .. NumQ * n - 1 /\ b \in 0 .. EdgeThreads - 1 /\ t = <<a, b>>
      /\ n \in Nat /\ NumQ \in Nat /\ EdgeThreads \in Nat \ {0}
  BY Sizes DEF Threads
<1>2. QBlock(t) = q /\ Slot(t) = (a - q * n) * EdgeThreads + b
  BY DEF QBlock, Slot
<1> HIDE DEF n, a, b
<1>3. n # 0
  <2> SUFFICES ASSUME n = 0 PROVE FALSE
    OBVIOUS
  <2>1. NumQ * n = 0
    BY <1>1, Z3
  <2> QED BY <1>1, <2>1
<1>4. q \in 0 .. NumQ - 1 /\ r \in 0 .. n - 1 /\ a \in Nat
  BY <1>1, <1>3, NumberToPair
<1>5. a = n * q + r
  BY <1>1, <1>3, <1>4, Divmod
<1> HIDE DEF q, r
<1>6. a - q * n = r
  <2>1. n * q = q * n /\ n * q \in Int
    BY <1>1, <1>4, Z3
  <2> QED BY <1>4, <1>1, <1>5, <2>1
<1>7. r * EdgeThreads = EdgeThreads * r /\ EdgeThreads * r \in Nat
  BY <1>1, <1>4, Z3
<1>8. Slot(t) = EdgeThreads * r + b
  BY <1>2, <1>6, <1>7
<1>9. EdgeThreads * r + b \in Nat
  BY <1>1, <1>7
<1> QED BY <1>1, <1>2, <1>3, <1>4, <1>8, <1>9 DEF n, a, b, q, r

\* An edge is an entry of a row, between the limits the threads check.
LEMMA EdgeFacts ==
    ASSUME input \in Inputs, NEW t \in Edge
    PROVE  /\ t \in Threads /\ QBlock(t) \in 0 .. NumQ - 1 /\ Slot(t) \in 0 .. EdgeWidth - 1
           /\ Group(t) \in Groups /\ Group(t) \in Nat /\ KvBlock(t) \in Kvs /\ KvBlock(t) \in Nat
<1>1. t \in Threads /\ HasEdge(t)
  BY DEF Edge, EdgeThreadsOf
<1>2. QBlock(t) \in 0 .. NumQ - 1 /\ Slot(t) \in Nat
  BY <1>1, ThreadOfEntry
<1>3. Slot(t) \in 0 .. EdgeWidth - 1 /\ KvBlock(t) \in Kvs
  BY <1>1, <1>2, Sizes DEF HasEdge
<1>4. Group(t) \in Groups
  BY <1>2, Sizes, RoundingUp DEF Group
<1>5. Group(t) \in Nat /\ KvBlock(t) \in Nat
  <2>1. (NumQ + BucketSize - 1) \div BucketSize \in Int
    BY Sizes, Z3
  <2> QED BY <1>3, <1>4, <2>1, Sizes DEF Groups, Kvs
<1> QED BY <1>1, <1>2, <1>3, <1>4, <1>5

\* No two threads read the same entry, and every entry has its thread.
LEMMA OneThreadAnEntry ==
    ASSUME input \in Inputs, NEW t \in Threads, NEW u \in Threads, QBlock(t) = QBlock(u), Slot(t) = Slot(u)
    PROVE  t = u
<1> DEFINE n == NumEdgeTiles
           a == t[1] % n
           b == u[1] % n
<1>1. /\ t = <<t[1], t[2]>> /\ n \in Nat \ {0} /\ t[1] \in Nat /\ a \in 0 .. n - 1
      /\ t[2] \in 0 .. EdgeThreads - 1 /\ QBlock(t) = t[1] \div n /\ Slot(t) = EdgeThreads * a + t[2]
  BY ThreadOfEntry
<1>2. /\ u = <<u[1], u[2]>> /\ u[1] \in Nat /\ b \in 0 .. n - 1
      /\ u[2] \in 0 .. EdgeThreads - 1 /\ QBlock(u) = u[1] \div n /\ Slot(u) = EdgeThreads * b + u[2]
  BY ThreadOfEntry
<1>3. EdgeThreads \in Nat \ {0} /\ a \in Nat /\ b \in Nat
  BY <1>1, <1>2, Sizes
<1>4. a = b /\ t[2] = u[2]
  <2> DEFINE c == t[2]
             d == u[2]
  <2>1. c \in 0 .. EdgeThreads - 1 /\ d \in 0 .. EdgeThreads - 1 /\ EdgeThreads * a + c = EdgeThreads * b + d
    BY <1>1, <1>2
  <2> HIDE DEF a, b, c, d
  <2>2. a = b /\ c = d
    BY <1>3, <2>1, PairInjective
  <2> QED BY <2>2 DEF c, d
<1>5. t[1] = u[1]
  <2> DEFINE x == t[1]
             y == u[1]
  <2>1. x \in Nat /\ y \in Nat /\ x \div n = y \div n /\ x % n = y % n /\ n \in Nat \ {0}
    BY <1>1, <1>2, <1>4
  <2> HIDE DEF x, y, n
  <2>2. x = y
    BY <2>1, DivmodInjective
  <2> QED BY <2>2 DEF x, y
<1> QED BY <1>1, <1>2, <1>4, <1>5

LEMMA EveryEntryHasAThread ==
    ASSUME input \in Inputs, NEW q \in 0 .. NumQ - 1, NEW s \in 0 .. EdgeWidth - 1
    PROVE  \E t \in Threads : QBlock(t) = q /\ Slot(t) = s
<1> DEFINE n == NumEdgeTiles
           i == s \div EdgeThreads
           r == s % EdgeThreads
           t == <<n * q + i, r>>
<1>1. EdgeWidth \in Nat /\ EdgeThreads \in Nat \ {0} /\ NumQ \in Nat /\ s \in Nat /\ q \in Nat /\ n \in Nat
  BY Sizes
<1>2. i \in 0 .. n - 1
  BY <1>1, RoundingUp DEF NumEdgeTiles
<1>3. r \in 0 .. EdgeThreads - 1 /\ s = EdgeThreads * i + r
  BY <1>1, Divmod
<1> HIDE DEF n, i, r
<1>4. n * q + i \in 0 .. NumQ * n - 1
  BY <1>1, <1>2, PairToNumber
<1>5. t \in Threads
  BY <1>3, <1>4 DEF Threads, n
<1>6. (n * q + i) \div n = q /\ (n * q + i) % n = i
  BY <1>1, <1>2, DivmodUnique
<1>7. t[1] = n * q + i /\ t[2] = r
  OBVIOUS
<1> HIDE DEF t
<1>8. QBlock(t) = q /\ Slot(t) = s
  BY <1>3, <1>5, <1>6, <1>7, ThreadOfEntry DEF n
<1> QED BY <1>5, <1>8

\* There are no more edges than the buffer has slots.
LEMMA EdgesFit ==
    ASSUME input \in Inputs
    PROVE  IsFiniteSet(Edge) /\ Cardinality(Edge) \in Nat /\ Cardinality(Edge) <= MaxEdges
<1> DEFINE at(t) == EdgeWidth * QBlock(t) + Slot(t)
           f == [t \in Edge |-> at(t)]
           T == 0 .. NumQ * EdgeWidth - 1
<1>1. NumQ \in Nat /\ EdgeWidth \in Nat /\ NumQ * EdgeWidth \in Nat
  BY Sizes
<1>2. ASSUME NEW t \in Edge PROVE at(t) \in T
  BY <1>1, EdgeFacts, PairToNumber
<1>3. ASSUME NEW t \in Edge, NEW u \in Edge, at(t) = at(u) PROVE t = u
  <2> DEFINE p == QBlock(t)
             q == QBlock(u)
             r == Slot(t)
             s == Slot(u)
             w == EdgeWidth
  <2>1. p \in 0 .. NumQ - 1 /\ q \in 0 .. NumQ - 1 /\ r \in 0 .. w - 1 /\ s \in 0 .. w - 1
        /\ t \in Threads /\ u \in Threads
    BY EdgeFacts
  <2>2. w * p + r = w * q + s
    BY <1>3
  <2>3. w \in Nat \ {0} /\ p \in Nat /\ q \in Nat
    BY <1>1, <2>1
  <2> HIDE DEF p, q, r, s, w
  <2>4. p = q /\ r = s
    BY <2>1, <2>2, <2>3, PairInjective
  <2> QED BY <2>1, <2>4, OneThreadAnEntry DEF p, q, r, s
<1> HIDE DEF at, T
<1>4. f \in [Edge -> T] /\ \A t, u \in Edge : f[t] = f[u] => t = u
  BY <1>2, <1>3
<1> HIDE DEF f
<1>5. f \in Injection(Edge, T)
  BY <1>4, Zenon DEF Injection, IsInjective
<1>6. IsFiniteSet(T) /\ Cardinality(T) <= NumQ * EdgeWidth /\ Cardinality(T) \in Nat
  <2> DEFINE m == NumQ * EdgeWidth
  <2> HIDE DEF m
  <2>1. m \in Nat
    BY <1>1 DEF m
  <2>2. IsFiniteSet(0 .. m - 1) /\ Cardinality(0 .. m - 1) <= m /\ Cardinality(0 .. m - 1) \in Nat
    BY <2>1, FS_Interval
  <2> QED BY <2>2 DEF T, m
<1>7. IsFiniteSet(Edge) /\ Cardinality(Edge) <= Cardinality(T)
  BY <1>5, <1>6, FS_Injection
<1>8. Cardinality(Edge) \in Nat
  BY <1>7, FS_CardinalityType
<1> QED BY <1>1, <1>6, <1>7, <1>8, Sizes

\* Sets of edges are counted; a part of one has no more than the whole.
LEMMA Counting ==
    ASSUME input \in Inputs, NEW S \in SUBSET Edge, NEW T \in SUBSET Edge
    PROVE  /\ IsFiniteSet(S) /\ Cardinality(S) \in Nat /\ Cardinality(S) <= MaxEdges
           /\ S \subseteq T => Cardinality(S) <= Cardinality(T)
           /\ S \cap T = {} => Cardinality(S \cup T) = Cardinality(S) + Cardinality(T)
<1>1. IsFiniteSet(S) /\ IsFiniteSet(T) /\ Cardinality(S) <= Cardinality(Edge)
  BY EdgesFit, FS_Subset
<1>2. Cardinality(S) \in Nat /\ Cardinality(T) \in Nat
  BY <1>1, FS_CardinalityType
<1>3. S \subseteq T => Cardinality(S) <= Cardinality(T)
  BY <1>1, FS_Subset
<1>4. S \cap T = {} => Cardinality(S \cup T) = Cardinality(S) + Cardinality(T)
  <2> SUFFICES ASSUME S \cap T = {} PROVE Cardinality(S \cup T) = Cardinality(S) + Cardinality(T)
    OBVIOUS
  <2>1. Cardinality(S \cup T) = Cardinality(S) + Cardinality(T) - Cardinality(S \cap T)
    BY <1>1, FS_Union
  <2>2. Cardinality(S \cap T) = 0
    BY FS_EmptySet
  <2> QED BY <1>2, <2>1, <2>2
<1>5. Cardinality(S) <= MaxEdges
  <2>1. Cardinality(Edge) <= MaxEdges /\ Cardinality(Edge) \in Nat /\ MaxEdges \in Nat
    BY EdgesFit, Sizes
  <2> QED BY <1>1, <1>2, <2>1
<1> QED BY <1>1, <1>2, <1>3, <1>4, <1>5

-----------------------------------------------------------------------------
(* The slices: one per group and kv block, one after the other.            *)

\* The launch stays the same, and with it its edges.
LEMMA InputIsFixed ==
    ASSUME input' = input
    PROVE  /\ Edge' = Edge /\ MaxEdges' = MaxEdges /\ EdgeThreadsOf' = Edge /\ Threads' = Threads
           /\ \A t : QBlock(t)' = QBlock(t) /\ Group(t)' = Group(t) /\ KvBlock(t)' = KvBlock(t)
           /\ \A g, k : /\ Edges(g, k)' = Edges(g, k) /\ InGroup(g, k)' = InGroup(g, k)
                        /\ Start(g, k)' = Start(g, k)
<1>1. EdgeWidth' = EdgeWidth
  BY DEF EdgeWidth
<1>2. NumEdgeTiles' = NumEdgeTiles /\ MaxEdges' = MaxEdges
  BY <1>1 DEF NumEdgeTiles, MaxEdges
<1>3. Threads' = Threads
  BY <1>2 DEF Threads
<1>4. ASSUME NEW t PROVE QBlock(t)' = QBlock(t) /\ Slot(t)' = Slot(t)
  BY <1>2 DEF QBlock, Slot
<1>5. ASSUME NEW t PROVE Group(t)' = Group(t) /\ KvBlock(t)' = KvBlock(t)
  BY <1>4 DEF Group, KvBlock
<1>6. ASSUME NEW t PROVE HasEdge(t)' = HasEdge(t)
  BY <1>1, <1>4, <1>5 DEF HasEdge
<1>7. Edge' = Edge /\ EdgeThreadsOf' = Edge
  BY <1>3, <1>6 DEF Edge, EdgeThreadsOf
<1>8. ASSUME NEW g, NEW k PROVE Edges(g, k)' = Edges(g, k) /\ InGroup(g, k)' = InGroup(g, k)
  BY <1>5, <1>7 DEF Edges, InGroup
<1>9. ASSUME NEW g, NEW k PROVE Start(g, k)' = Start(g, k)
  BY <1>5, <1>7 DEF Start, Before
<1> QED BY <1>2, <1>3, <1>4, <1>5, <1>7, <1>8, <1>9

LEMMA Parts ==
    ASSUME NEW g, NEW k
    PROVE  /\ Edges(g, k) \in SUBSET Edge /\ InGroup(g, k) \in SUBSET Edge
           /\ Before(g, k) \in SUBSET Edge /\ BeforeGroup(g) \in SUBSET Edge
  BY DEF Edges, InGroup, Before, BeforeGroup

\* The edges of a group below kv block k + 1 are those below k and those at k.
LEMMA GroupGrows ==
    ASSUME input \in Inputs, NEW g \in Groups, NEW k \in Kvs
    PROVE  Cardinality(InGroup(g, k + 1)) = Cardinality(InGroup(g, k)) + Cardinality(Edges(g, k))
<1>1. k \in Nat
  BY DEF Kvs
<1>2. \A t \in Edge : KvBlock(t) < k + 1 <=> KvBlock(t) < k \/ KvBlock(t) = k
  BY <1>1, EdgeFacts
<1>3. InGroup(g, k + 1) = InGroup(g, k) \cup Edges(g, k)
  BY <1>2 DEF InGroup, Edges
<1>4. InGroup(g, k) \cap Edges(g, k) = {}
  BY <1>1, EdgeFacts DEF InGroup, Edges
<1> QED BY <1>3, <1>4, Parts, Counting

\* What a thread of the second kernel adds up.
LEMMA RunningSumCounts ==
    ASSUME input \in Inputs, NEW g \in Groups, NEW k \in 0..NumKv,
           \A l \in Kvs : counts[g][l] = Cardinality(Edges(g, l))
    PROVE  RunningSum(g, k) = Cardinality(InGroup(g, k))
<1> DEFINE G == [l \in 0..k |-> Cardinality(InGroup(g, l))]
<1>1. G \in [0..k -> Int]
  BY Parts, Counting
<1>2. G[0] = 0
  <2>1. InGroup(g, 0) = {}
    BY EdgeFacts DEF InGroup
  <2>2. Cardinality(InGroup(g, 0)) = 0
    BY <2>1, FS_EmptySet
  <2> QED BY <2>2
<1>3. ASSUME NEW i \in 1..k PROVE G[i] = G[i-1] + counts[g][i-1]
  <2>1. i - 1 \in Kvs /\ i - 1 \in 0..k /\ i \in 0..k /\ (i - 1) + 1 = i
    BY Sizes DEF Kvs
  <2>2. Cardinality(InGroup(g, (i - 1) + 1)) = Cardinality(InGroup(g, i - 1)) + Cardinality(Edges(g, i - 1))
    BY <2>1, GroupGrows
  <2>3. Cardinality(InGroup(g, i)) = Cardinality(InGroup(g, i - 1)) + Cardinality(Edges(g, i - 1))
    BY <2>1, <2>2
  <2> QED BY <2>1, <2>3
<1>4. G[k] = Cardinality(InGroup(g, k))
  BY Sizes
<1> DEFINE f == counts[g]
<1>5. SumBelow(f, k) = G[k]
  <2> HIDE DEF G
  <2>1. \A i \in 1..k : G[i] = G[i-1] + f[i-1]
    BY <1>3
  <2>2. k \in Nat
    BY Sizes
  <2> HIDE DEF f
  <2> QED BY <1>1, <1>2, <2>1, <2>2, SumIs
<1> QED BY <1>4, <1>5 DEF RunningSum

\* What a thread of the third kernel adds up.
LEMMA GroupBaseCounts ==
    ASSUME input \in Inputs, NEW g \in Groups,
           \A h \in Groups : groupTotals[h] = Cardinality(InGroup(h, NumKv))
    PROVE  GroupBase(g) = Cardinality(BeforeGroup(g))
<1> DEFINE n == (NumQ + BucketSize - 1) \div BucketSize
           G == [h \in 0..g |-> Cardinality(BeforeGroup(h))]
<1>1. Groups = 0 .. n - 1 /\ n \in Int
  BY Sizes, Z3
<1> HIDE DEF n
<1>2. g \in Nat /\ \A i \in 1..g : i - 1 \in Groups /\ i - 1 \in 0..g /\ i \in 0..g
  BY <1>1
<1>3. G \in [0..g -> Int]
  <2>1. \A h : BeforeGroup(h) \in SUBSET Edge
    BY DEF BeforeGroup
  <2>2. \A h : Cardinality(BeforeGroup(h)) \in Int
    BY <2>1, Counting
  <2> QED BY <2>2
<1>4. G[0] = 0
  <2>1. BeforeGroup(0) = {}
    BY EdgeFacts DEF BeforeGroup
  <2>2. Cardinality(BeforeGroup(0)) = 0
    BY <2>1, FS_EmptySet
  <2> QED BY <1>2, <2>2
<1>5. ASSUME NEW i \in 1..g PROVE G[i] = G[i-1] + groupTotals[i-1]
  <2>1. \A t \in Edge : KvBlock(t) < NumKv /\ (Group(t) < i <=> Group(t) < i - 1 \/ Group(t) = i - 1)
    <3>1. i \in Int /\ NumKv \in Int
      BY Sizes
    <3> SUFFICES ASSUME NEW t \in Edge
                 PROVE  KvBlock(t) < NumKv /\ (Group(t) < i <=> Group(t) < i - 1 \/ Group(t) = i - 1)
      OBVIOUS
    <3>2. Group(t) \in Int /\ KvBlock(t) \in 0..NumKv-1
      BY EdgeFacts DEF Kvs
    <3> QED BY <3>1, <3>2
  <2>2. BeforeGroup(i) = BeforeGroup(i - 1) \cup InGroup(i - 1, NumKv)
    BY <2>1 DEF BeforeGroup, InGroup
  <2>3. BeforeGroup(i - 1) \cap InGroup(i - 1, NumKv) = {}
    BY EdgeFacts DEF BeforeGroup, InGroup
  <2>4. Cardinality(BeforeGroup(i)) = Cardinality(BeforeGroup(i - 1)) + Cardinality(InGroup(i - 1, NumKv))
    BY <2>2, <2>3, Parts, Counting
  <2> QED BY <1>2, <2>4
<1>6. G[g] = Cardinality(BeforeGroup(g))
  BY <1>2
<1> HIDE DEF G
<1>7. SumBelow(groupTotals, g) = G[g]
  BY <1>2, <1>3, <1>4, <1>5, SumIs
<1> QED BY <1>6, <1>7 DEF GroupBase

\* Where the slices begin and end.
LEMMA Slices ==
    ASSUME input \in Inputs
    PROVE  /\ Start(0, 0) = 0
           /\ \A g \in Groups : \A k \in 0..NumKv :
                /\ Start(g, k) \in 0..MaxEdges
                /\ Cardinality(BeforeGroup(g)) + Cardinality(InGroup(g, k)) = Start(g, k)
           /\ \A g \in Groups \ {0} : Start(g, 0) = Start(g - 1, NumKv)
           /\ \A g \in Groups : \A k \in Kvs :
                /\ Start(g, k + 1) = Start(g, k) + Cardinality(Edges(g, k))
                /\ Cardinality(Edges(g, k)) \in Nat
<1>1. Start(0, 0) = 0
  <2>1. Before(0, 0) = {}
    BY EdgeFacts DEF Before
  <2> QED BY <2>1, FS_EmptySet DEF Start
<1>2. ASSUME NEW g \in Groups, NEW k \in 0..NumKv
      PROVE  /\ Start(g, k) \in 0..MaxEdges
             /\ Cardinality(BeforeGroup(g)) + Cardinality(InGroup(g, k)) = Start(g, k)
  <2>1. Start(g, k) \in Nat /\ Start(g, k) <= MaxEdges
    BY Parts, Counting DEF Start
  <2>2. BeforeGroup(g) \cup InGroup(g, k) = Before(g, k)
    BY DEF Before, BeforeGroup, InGroup
  <2>3. BeforeGroup(g) \cap InGroup(g, k) = {}
    BY EdgeFacts DEF BeforeGroup, InGroup
  <2>4. Cardinality(BeforeGroup(g)) + Cardinality(InGroup(g, k)) = Start(g, k)
    BY <2>2, <2>3, Parts, Counting DEF Start
  <2> QED BY <2>1, <2>4, Sizes
<1>3. ASSUME NEW g \in Groups \ {0} PROVE Start(g, 0) = Start(g - 1, NumKv)
  <2>1. g \in Int
    BY Sizes
  <2>2. \A t \in Edge : /\ (Group(t) < g \/ (Group(t) = g /\ KvBlock(t) < 0)) <=> Group(t) < g
                        /\ (Group(t) < g - 1 \/ (Group(t) = g - 1 /\ KvBlock(t) < NumKv)) <=> Group(t) < g
    <3>1. NumKv \in Int
      BY Sizes
    <3> TAKE t \in Edge
    <3>2. Group(t) \in Int /\ KvBlock(t) \in 0..NumKv-1
      BY EdgeFacts DEF Kvs
    <3> QED BY <2>1, <3>1, <3>2
  <2>3. Before(g, 0) = Before(g - 1, NumKv)
    BY <2>2 DEF Before
  <2> QED BY <2>3 DEF Start
<1>4. ASSUME NEW g \in Groups, NEW k \in Kvs
      PROVE  /\ Start(g, k + 1) = Start(g, k) + Cardinality(Edges(g, k))
             /\ Cardinality(Edges(g, k)) \in Nat
  <2>1. k \in 0..NumKv /\ k + 1 \in 0..NumKv
    <3>1. NumKv \in Nat
      BY Sizes
    <3> QED BY <3>1 DEF Kvs
  <2>2. /\ Cardinality(BeforeGroup(g)) \in Nat /\ Cardinality(InGroup(g, k)) \in Nat
        /\ Cardinality(Edges(g, k)) \in Nat
    BY Parts, Counting
  <2>3. Cardinality(InGroup(g, k + 1)) = Cardinality(InGroup(g, k)) + Cardinality(Edges(g, k))
    BY GroupGrows
  <2>4. /\ Cardinality(BeforeGroup(g)) + Cardinality(InGroup(g, k)) = Start(g, k)
        /\ Cardinality(BeforeGroup(g)) + Cardinality(InGroup(g, k + 1)) = Start(g, k + 1)
    BY <1>2, <2>1
  <2> QED BY <2>2, <2>3, <2>4
<1> QED BY <1>1, <1>2, <1>3, <1>4

\* Two slices have no slot in common.
LEMMA SlicesApart ==
    ASSUME input \in Inputs, NEW g \in Groups, NEW k \in Kvs, NEW h \in Groups, NEW l \in Kvs,
           g # h \/ k # l
    PROVE  \/ Start(g, k + 1) <= Start(h, l)
           \/ Start(h, l + 1) <= Start(g, k)
<1>1. g \in Int /\ h \in Int /\ k \in Int /\ l \in Int
  BY Sizes DEF Kvs
<1>2. ASSUME NEW i \in Int, NEW m \in Int, NEW j \in Int, NEW n \in Int, i < j \/ (i = j /\ m < n)
      PROVE  Start(i, m + 1) <= Start(j, n)
  <2>1. \A t \in Edge : (Group(t) < i \/ (Group(t) = i /\ KvBlock(t) < m + 1))
                           => (Group(t) < j \/ (Group(t) = j /\ KvBlock(t) < n))
    BY <1>2, EdgeFacts
  <2>2. Before(i, m + 1) \subseteq Before(j, n)
    BY <2>1 DEF Before
  <2> QED BY <2>2, Parts, Counting DEF Start
<1>3. (g < h \/ (g = h /\ k < l)) \/ (h < g \/ (h = g /\ l < k))
  BY <1>1
<1> QED BY <1>1, <1>2, <1>3

\* One more of the edges of S has acted.
LEMMA OneMore ==
    ASSUME input \in Inputs, NEW S \in SUBSET Edge, NEW P, NEW t \in P
    PROVE  /\ t \in S => Cardinality(S \ (P \ {t})) = Cardinality(S \ P) + 1
           /\ t \notin S => S \ (P \ {t}) = S \ P
<1>1. IsFiniteSet(S \ P) /\ t \notin S \ P
  BY Counting
<1>2. t \in S => S \ (P \ {t}) = (S \ P) \cup {t}
  OBVIOUS
<1>3. S \ (P \ {t}) = S \ P \/ t \in S
  OBVIOUS
<1> DEFINE A == S \ P
           B == S \ (P \ {t})
<1> HIDE DEF A, B
<1>4. Cardinality(A \cup {t}) = Cardinality(A) + 1
  BY <1>1, FS_AddElement DEF A
<1>5. t \in S => Cardinality(B) = Cardinality(A) + 1
  BY <1>2, <1>4 DEF A, B
<1> QED BY <1>3, <1>5 DEF A, B

-----------------------------------------------------------------------------
(* The inductive invariant: what each kernel leaves for the next one.      *)

Kernels == {"count", "local", "finalize", "scatter", "done"}

Typed ==
    /\ input \in Inputs /\ kernel \in Kernels
    /\ kernel \in {"count", "scatter"} => pending \subseteq Edge
    /\ kernel \in {"local", "finalize"} => pending \subseteq GroupThreads
    /\ kernel = "done" => pending = {} /\ position = <<>>
    /\ indices \in [0..MaxEdges-1 -> 0..NumQ-1 \cup {Garbage}]

\* The counters hold the numbers of edges counted so far.
Counted ==
    /\ counts \in [Groups -> [Kvs -> Nat]]
    /\ \A g \in Groups : \A k \in Kvs :
         counts[g][k] = Cardinality(IF kernel = "count" THEN Edges(g, k) \ pending ELSE Edges(g, k))

\* The second kernel has added up group g ..
SummedUp(g) ==
    /\ \A k \in 0..NumKv : localOffsets[g][k] = Cardinality(InGroup(g, k))
    /\ groupTotals[g] = Cardinality(InGroup(g, NumKv))
IsSummed(g) ==
    kernel \in {"finalize", "scatter", "done"} \/ (kernel = "local" /\ <<g>> \notin pending)
Summed ==
    /\ localOffsets \in [Groups -> [0..NumKv -> Nat \cup {Garbage}]]
    /\ groupTotals \in [Groups -> Nat \cup {Garbage}]
    /\ \A g \in Groups : IsSummed(g) => SummedUp(g)

\* .. and the third has placed its slices.
IsPlaced(g) ==
    kernel \in {"scatter", "done"} \/ (kernel = "finalize" /\ <<g>> \notin pending)
Based ==
    /\ offsets \in [Groups -> [0..NumKv -> 0..MaxEdges \cup {Garbage}]]
    /\ cursors \in [Groups -> [Kvs -> 0..MaxEdges \cup {Garbage}]]
    /\ \A g \in Groups : IsPlaced(g) => \A k \in 0..NumKv : offsets[g][k] = Start(g, k)
    /\ \A g \in Groups : IsPlaced(g) /\ kernel = "finalize" => \A k \in Kvs : cursors[g][k] = Start(g, k)

Taken   == Edge \ pending             \* the scatter threads that have a slot
Written == Taken \ DOMAIN position    \* .. and have written it

\* Each thread that has a slot has one of its own, among those its cursor has
\* handed out; what is in the buffer was written by the thread the slot belongs to.
Scatters(slot) ==
    /\ \A t \in Taken : Start(Group(t), KvBlock(t)) <= slot[t] /\ slot[t] < cursors[Group(t)][KvBlock(t)]
    /\ \A t, u \in Taken : slot[t] = slot[u] => t = u
    /\ \A t \in DOMAIN position : position[t] = slot[t]
    /\ \A t \in Written : indices[slot[t]] = QBlock(t)
    /\ \A i \in 0..MaxEdges-1 : indices[i] # Garbage => \E t \in Written : slot[t] = i
Cursors == \A g \in Groups : \A k \in Kvs :
              cursors[g][k] = Start(g, k) + Cardinality(Edges(g, k) \ pending)
Scattered ==
    IF kernel \in {"scatter", "done"}
    THEN /\ DOMAIN position \subseteq Taken
         /\ Cursors
         /\ \E slot \in [Taken -> 0..MaxEdges-1] : Scatters(slot)
    ELSE position = <<>> /\ indices = [i \in 0..MaxEdges-1 |-> Garbage]

IInv == Typed /\ Counted /\ Summed /\ Based /\ Scattered

LEMMA InitInv == Init => IInv
<1> SUFFICES ASSUME Init PROVE IInv
  OBVIOUS
<1>1. input \in Inputs /\ kernel = "count" /\ pending = Edge /\ position = <<>>
  BY DEF Init, Edge
<1>2. indices = [i \in 0..MaxEdges-1 |-> Garbage]
  BY DEF Init
<1>3. Typed
  BY <1>1, <1>2 DEF Typed, Kernels
<1>4. Counted
  <2>1. counts = [g \in Groups |-> [k \in Kvs |-> 0]]
    BY DEF Init
  <2>2. \A g, k : Edges(g, k) \ pending = {}
    BY <1>1, Parts
  <2>3. \A g, k : Cardinality(Edges(g, k) \ pending) = 0
    BY <2>2, FS_EmptySet
  <2> QED BY <1>1, <2>1, <2>3 DEF Counted
<1>5. Summed
  <2>1. localOffsets = [g \in Groups |-> [k \in 0..NumKv |-> Garbage]] /\ groupTotals = [g \in Groups |-> Garbage]
    BY DEF Init
  <2> QED BY <1>1, <2>1 DEF Summed, IsSummed
<1>6. Based
  <2>1. /\ offsets = [g \in Groups |-> [k \in 0..NumKv |-> Garbage]]
        /\ cursors = [g \in Groups |-> [k \in Kvs |-> Garbage]]
    BY DEF Init
  <2> QED BY <1>1, <2>1 DEF Based, IsPlaced
<1>7. Scattered
  BY <1>1, <1>2 DEF Scattered
<1> QED BY <1>3, <1>4, <1>5, <1>6, <1>7 DEF IInv

\* While the first kernel counts, nothing else changes.
LEMMA CountStep ==
    ASSUME IInv, NEW t, CountEdge(t)
    PROVE  IInv'
<1>1. /\ kernel = "count" /\ kernel' = "count" /\ t \in pending /\ pending' = pending \ {t}
      /\ input' = input /\ localOffsets' = localOffsets /\ groupTotals' = groupTotals
      /\ offsets' = offsets /\ cursors' = cursors /\ indices' = indices /\ position' = position
  BY DEF CountEdge
<1>2. MaxEdges' = MaxEdges /\ Edge' = Edge /\ \A g, k : Edges(g, k)' = Edges(g, k)
  BY <1>1, InputIsFixed
<1>3. input \in Inputs /\ t \in Edge /\ pending \subseteq Edge
  BY <1>1 DEF IInv, Typed
<1>4. Typed'
  BY <1>1, <1>2 DEF IInv, Typed
<1>5. Counted'
  <2> DEFINE g == Group(t)
             k == KvBlock(t)
  <2>1. counts \in [Groups -> [Kvs -> Nat]] /\ g \in Groups /\ k \in Kvs
    BY <1>3, EdgeFacts DEF IInv, Counted
  <2>2. counts' = [counts EXCEPT ![g][k] = counts[g][k] + 1]
    BY DEF CountEdge
  <2>3. t \in Edges(g, k) /\ \A h, l : t \in Edges(h, l) => h = g /\ l = k
    BY <1>3 DEF Edges
  <2> HIDE DEF g, k
  <2>4. /\ counts' \in [Groups -> [Kvs -> Nat]] /\ counts'[g][k] = counts[g][k] + 1
        /\ \A h \in Groups : \A l \in Kvs : h # g \/ l # k => counts'[h][l] = counts[h][l]
    BY <2>1, <2>2
  <2>5. ASSUME NEW h \in Groups, NEW l \in Kvs
        PROVE  counts'[h][l] = Cardinality(Edges(h, l) \ (pending \ {t}))
    <3>1. counts[h][l] = Cardinality(Edges(h, l) \ pending) /\ Edges(h, l) \in SUBSET Edge
      BY <1>1, Parts DEF IInv, Counted
    <3>2. CASE h = g /\ l = k
      <4>1. Cardinality(Edges(g, k) \ (pending \ {t})) = Cardinality(Edges(g, k) \ pending) + 1
        BY <1>1, <1>3, <2>3, <3>1, <3>2, OneMore
      <4> QED BY <2>4, <3>1, <3>2, <4>1
    <3>3. CASE ~(h = g /\ l = k)
      <4>1. Edges(h, l) \ (pending \ {t}) = Edges(h, l) \ pending
        BY <1>1, <1>3, <2>3, <3>1, <3>3, OneMore
      <4> QED BY <2>4, <3>1, <3>3, <4>1
    <3> QED BY <3>2, <3>3
  <2> QED BY <1>1, <1>2, <2>4, <2>5 DEF Counted
<1>6. Summed'
  BY <1>1 DEF IInv, Summed, IsSummed
<1>7. Based'
  BY <1>1, <1>2 DEF IInv, Based, IsPlaced
<1>8. Scattered'
  BY <1>1, <1>2 DEF IInv, Scattered
<1> QED BY <1>4, <1>5, <1>6, <1>7, <1>8 DEF IInv

\* A thread of the second kernel writes what it adds up, in its group's place.
LEMMA LocalStep ==
    ASSUME IInv, NEW g \in Groups, LocalOffsets(g)
    PROVE  IInv'
<1>1. /\ kernel = "local" /\ kernel' = "local" /\ pending' = pending \ {<<g>>}
      /\ input' = input /\ counts' = counts /\ offsets' = offsets /\ cursors' = cursors
      /\ indices' = indices /\ position' = position
  BY DEF LocalOffsets
<1>2. /\ MaxEdges' = MaxEdges /\ Edge' = Edge
      /\ \A h, k : Edges(h, k)' = Edges(h, k) /\ InGroup(h, k)' = InGroup(h, k)
  BY <1>1, InputIsFixed
<1>3. input \in Inputs /\ pending \subseteq GroupThreads
  BY <1>1 DEF IInv, Typed
<1>4. Typed'
  BY <1>1, <1>2, <1>3 DEF IInv, Typed
<1>5. Counted'
  BY <1>1, <1>2 DEF IInv, Counted
<1>6. Summed'
  <2>1. /\ localOffsets \in [Groups -> [0..NumKv -> Nat \cup {Garbage}]]
        /\ groupTotals \in [Groups -> Nat \cup {Garbage}]
    BY DEF IInv, Summed
  <2>2. \A l \in Kvs : counts[g][l] = Cardinality(Edges(g, l))
    BY <1>1 DEF IInv, Counted
  <2>3. ASSUME NEW k \in 0..NumKv
        PROVE  RunningSum(g, k) = Cardinality(InGroup(g, k)) /\ Cardinality(InGroup(g, k)) \in Nat
    BY <1>3, <2>2, RunningSumCounts, Parts, Counting
  <2>4. /\ localOffsets' = [localOffsets EXCEPT ![g] = [k \in 0..NumKv |-> RunningSum(g, k)]]
        /\ groupTotals' = [groupTotals EXCEPT ![g] = RunningSum(g, NumKv)]
    BY DEF LocalOffsets
  <2>5. NumKv \in 0..NumKv
    BY <1>3, Sizes
  <2>6. /\ localOffsets' \in [Groups -> [0..NumKv -> Nat \cup {Garbage}]]
        /\ groupTotals' \in [Groups -> Nat \cup {Garbage}]
    BY <2>1, <2>3, <2>4, <2>5
  <2>7. ASSUME NEW h \in Groups, IsSummed(h)' PROVE SummedUp(h)'
    <3>1. CASE h = g
      <4>1. \A k \in 0..NumKv : localOffsets'[g][k] = Cardinality(InGroup(g, k))
        BY <2>1, <2>3, <2>4
      <4>2. groupTotals'[g] = Cardinality(InGroup(g, NumKv))
        BY <2>1, <2>3, <2>4, <2>5
      <4> QED BY <1>2, <3>1, <4>1, <4>2 DEF SummedUp
    <3>2. CASE h # g
      <4>1. <<h>> # <<g>>
        BY <3>2
      <4>2. <<h>> \notin pending
        BY <1>1, <2>7, <4>1 DEF IsSummed
      <4>3. SummedUp(h)
        BY <1>1, <4>2 DEF IInv, Summed, IsSummed
      <4>4. localOffsets'[h] = localOffsets[h] /\ groupTotals'[h] = groupTotals[h]
        BY <2>1, <2>4, <3>2
      <4> QED BY <1>2, <4>3, <4>4 DEF SummedUp
    <3> QED BY <3>1, <3>2
  <2> QED BY <2>6, <2>7 DEF Summed
<1>7. Based'
  BY <1>1, <1>2 DEF IInv, Based, IsPlaced
<1>8. Scattered'
  BY <1>1, <1>2 DEF IInv, Scattered
<1> QED BY <1>4, <1>5, <1>6, <1>7, <1>8 DEF IInv

\* A thread of the third kernel places the slices of its group.
LEMMA FinalizeStep ==
    ASSUME IInv, NEW g \in Groups, FinalizeOffsets(g)
    PROVE  IInv'
<1>1. /\ kernel = "finalize" /\ kernel' = "finalize" /\ pending' = pending \ {<<g>>}
      /\ input' = input /\ counts' = counts /\ localOffsets' = localOffsets
      /\ groupTotals' = groupTotals /\ indices' = indices /\ position' = position
  BY DEF FinalizeOffsets
<1>2. /\ MaxEdges' = MaxEdges /\ Edge' = Edge
      /\ \A h, k : /\ Edges(h, k)' = Edges(h, k) /\ InGroup(h, k)' = InGroup(h, k)
                   /\ Start(h, k)' = Start(h, k)
  BY <1>1, InputIsFixed
<1>3. input \in Inputs /\ pending \subseteq GroupThreads
  BY <1>1 DEF IInv, Typed
<1>4. Typed'
  BY <1>1, <1>2, <1>3 DEF IInv, Typed
<1>5. Counted'
  BY <1>1, <1>2 DEF IInv, Counted
<1>6. \A h \in Groups : SummedUp(h)
  BY <1>1 DEF IInv, Summed, IsSummed
<1>7. Summed'
  BY <1>1, <1>2, <1>6 DEF IInv, Summed, SummedUp
<1>8. Based'
  <2>1. /\ offsets \in [Groups -> [0..NumKv -> 0..MaxEdges \cup {Garbage}]]
        /\ cursors \in [Groups -> [Kvs -> 0..MaxEdges \cup {Garbage}]]
    BY DEF IInv, Based
  <2>2. GroupBase(g) = Cardinality(BeforeGroup(g))
    BY <1>3, <1>6, GroupBaseCounts DEF SummedUp
  <2>3. ASSUME NEW k \in 0..NumKv
        PROVE  GroupBase(g) + localOffsets[g][k] = Start(g, k) /\ Start(g, k) \in 0..MaxEdges
    BY <1>3, <1>6, <2>2, Slices DEF SummedUp
  <2>4. /\ offsets' = [offsets EXCEPT ![g] = [k \in 0..NumKv |-> GroupBase(g) + localOffsets[g][k]]]
        /\ cursors' = [cursors EXCEPT ![g] = [k \in Kvs |-> offsets'[g][k]]]
    BY DEF FinalizeOffsets
  <2>5. /\ offsets' = [offsets EXCEPT ![g] = [k \in 0..NumKv |-> Start(g, k)]]
    BY <2>3, <2>4
  <2>6. \A k \in Kvs : k \in 0..NumKv
    BY <1>3, Sizes DEF Kvs
  <2>7. /\ offsets' \in [Groups -> [0..NumKv -> 0..MaxEdges \cup {Garbage}]]
        /\ offsets'[g] = [k \in 0..NumKv |-> Start(g, k)]
    BY <2>1, <2>3, <2>5
  <2>8. cursors' = [cursors EXCEPT ![g] = [k \in Kvs |-> Start(g, k)]]
    BY <2>4, <2>6, <2>7
  <2>9. cursors' \in [Groups -> [Kvs -> 0..MaxEdges \cup {Garbage}]]
    BY <2>1, <2>3, <2>6, <2>8
  <2>10. ASSUME NEW h \in Groups, IsPlaced(h)'
         PROVE  (\A k \in 0..NumKv : offsets'[h][k] = Start(h, k)) /\ (\A k \in Kvs : cursors'[h][k] = Start(h, k))
    <3>1. CASE h = g
      BY <2>1, <2>7, <2>8, <3>1
    <3>2. CASE h # g
      <4>1. <<h>> # <<g>>
        BY <3>2
      <4>2. IsPlaced(h)
        BY <1>1, <2>10, <4>1 DEF IsPlaced
      <4>3. offsets'[h] = offsets[h] /\ cursors'[h] = cursors[h]
        BY <2>1, <2>5, <2>8, <3>2
      <4> QED BY <1>1, <4>2, <4>3 DEF IInv, Based
    <3> QED BY <3>1, <3>2
  <2> QED BY <1>2, <2>7, <2>9, <2>10 DEF Based
<1>9. Scattered'
  BY <1>1, <1>2 DEF IInv, Scattered
<1> QED BY <1>4, <1>5, <1>7, <1>8, <1>9 DEF IInv

\* A cursor stays inside its slice, and short of its end while an edge waits.
LEMMA CursorInSlice ==
    ASSUME input \in Inputs, Cursors, NEW g \in Groups, NEW k \in Kvs
    PROVE  /\ Start(g, k) \in Nat /\ cursors[g][k] \in Nat /\ Start(g, k + 1) \in 0..MaxEdges /\ MaxEdges \in Nat
           /\ Start(g, k) <= cursors[g][k] /\ cursors[g][k] <= Start(g, k + 1)
           /\ \A t \in pending : t \in Edges(g, k) => cursors[g][k] < Start(g, k + 1)
<1>1. k \in 0..NumKv /\ k + 1 \in 0..NumKv
  BY Sizes DEF Kvs
<1>2. Start(g, k) \in Nat /\ Start(g, k + 1) \in 0..MaxEdges /\ MaxEdges \in Nat
  BY <1>1, Slices, Sizes
<1>3. Start(g, k + 1) = Start(g, k) + Cardinality(Edges(g, k)) /\ Cardinality(Edges(g, k)) \in Nat
  BY Slices
<1> DEFINE A == Edges(g, k)
           B == Edges(g, k) \ pending
<1>4. A \in SUBSET Edge /\ B \in SUBSET Edge /\ B \subseteq A
  BY Parts
<1>5. Cardinality(B) \in Nat /\ Cardinality(B) <= Cardinality(A)
  <2> HIDE DEF A, B
  <2> QED BY <1>4, Counting
<1>6. cursors[g][k] = Start(g, k) + Cardinality(B)
  BY DEF Cursors
<1>7. ASSUME NEW t \in pending, t \in A PROVE Cardinality(B) < Cardinality(A)
  <2> DEFINE C == A \ (pending \ {t})
  <2>1. Cardinality(C) = Cardinality(B) + 1
    BY <1>4, <1>7, OneMore
  <2>2. C \in SUBSET Edge /\ C \subseteq A
    BY <1>4
  <2> HIDE DEF A, B, C
  <2>3. Cardinality(C) <= Cardinality(A) /\ Cardinality(A) \in Nat
    BY <1>4, <2>2, Counting
  <2> QED BY <1>5, <2>1, <2>3
<1> HIDE DEF B
<1>8. ASSUME NEW t \in pending, t \in Edges(g, k) PROVE cursors[g][k] < Start(g, k + 1)
  BY <1>2, <1>3, <1>5, <1>6, <1>7, <1>8
<1> QED BY <1>2, <1>3, <1>5, <1>6, <1>8

\* The slot a thread takes is in the buffer and is nobody else's.
LEMMA TakenSlotIsNew ==
    ASSUME input \in Inputs, Cursors, NEW t \in pending, t \in Edge, NEW u \in Edge, NEW s \in Nat,
           Start(Group(u), KvBlock(u)) <= s, s < cursors[Group(u)][KvBlock(u)]
    PROVE  s # cursors[Group(t)][KvBlock(t)]
<1> DEFINE g == Group(t)
           k == KvBlock(t)
           h == Group(u)
           l == KvBlock(u)
<1>1. g \in Groups /\ k \in Kvs /\ h \in Groups /\ l \in Kvs
  BY EdgeFacts
<1>2. t \in Edges(g, k)
  BY DEF Edges
<1>3. Start(h, l) <= s /\ s < cursors[h][l]
  OBVIOUS
<1> HIDE DEF g, k, h, l
<1>4. CASE g = h /\ k = l
  <2>1. cursors[g][k] \in Nat
    BY <1>1, CursorInSlice
  <2> QED BY <1>3, <1>4, <2>1 DEF g, k, h, l
<1>5. CASE g # h \/ k # l
  <2>1. Start(g, k + 1) <= Start(h, l) \/ Start(h, l + 1) <= Start(g, k)
    BY <1>1, <1>5, SlicesApart
  <2>2. /\ Start(g, k) \in Nat /\ cursors[g][k] \in Nat /\ Start(g, k + 1) \in Nat
        /\ Start(g, k) <= cursors[g][k] /\ cursors[g][k] < Start(g, k + 1)
    BY <1>1, <1>2, CursorInSlice
  <2>3. /\ Start(h, l) \in Nat /\ cursors[h][l] \in Nat /\ Start(h, l + 1) \in Nat
        /\ cursors[h][l] <= Start(h, l + 1)
    BY <1>1, CursorInSlice
  <2>4. s # cursors[g][k]
    BY <1>3, <2>1, <2>2, <2>3
  <2> QED BY <2>4 DEF g, k
<1> QED BY <1>4, <1>5

\* A thread of the last kernel takes the next slot of its slice.
LEMMA TakeStep ==
    ASSUME IInv, NEW t, TakePosition(t)
    PROVE  IInv'
<1> DEFINE g == Group(t)
           k == KvBlock(t)
           c == cursors[g][k]
<1>1. /\ kernel = "scatter" /\ kernel' = "scatter" /\ t \in pending /\ pending' = pending \ {t}
      /\ input' = input /\ counts' = counts /\ localOffsets' = localOffsets
      /\ groupTotals' = groupTotals /\ offsets' = offsets /\ indices' = indices
  BY DEF TakePosition
<1>2. /\ MaxEdges' = MaxEdges /\ Edge' = Edge
      /\ \A h, l : /\ Edges(h, l)' = Edges(h, l) /\ InGroup(h, l)' = InGroup(h, l)
                   /\ Start(h, l)' = Start(h, l)
      /\ \A u : QBlock(u)' = QBlock(u) /\ Group(u)' = Group(u) /\ KvBlock(u)' = KvBlock(u)
  BY <1>1, InputIsFixed
<1>3. input \in Inputs /\ t \in Edge /\ pending \subseteq Edge
  BY <1>1 DEF IInv, Typed
<1>4. g \in Groups /\ k \in Kvs /\ t \in Edges(g, k) /\ \A h, l : t \in Edges(h, l) => h = g /\ l = k
  BY <1>3, EdgeFacts DEF Edges
<1>5. /\ offsets \in [Groups -> [0..NumKv -> 0..MaxEdges \cup {Garbage}]]
      /\ cursors \in [Groups -> [Kvs -> 0..MaxEdges \cup {Garbage}]]
      /\ \A h \in Groups : \A l \in 0..NumKv : offsets[h][l] = Start(h, l)
  BY <1>1 DEF IInv, Based, IsPlaced
<1>6. /\ DOMAIN position \subseteq Taken /\ Cursors
      /\ \E slot \in [Taken -> 0..MaxEdges-1] : Scatters(slot)
  BY <1>1 DEF IInv, Scattered
<1>7. /\ position' = [u \in DOMAIN position \cup {t} |-> IF u = t THEN c ELSE position[u]]
      /\ cursors' = [cursors EXCEPT ![g][k] = c + 1]
  BY DEF TakePosition
<1> HIDE DEF g, k, c
<1>8. /\ c \in Nat /\ c = cursors[g][k] /\ Start(g, k) <= c /\ c < Start(g, k + 1)
      /\ Start(g, k + 1) <= MaxEdges /\ MaxEdges \in Nat /\ c \in 0..MaxEdges-1 /\ c + 1 \in 0..MaxEdges
  <2>1. /\ c \in Nat /\ Start(g, k) <= c /\ c < Start(g, k + 1) /\ Start(g, k + 1) \in 0..MaxEdges
        /\ MaxEdges \in Nat
    BY <1>1, <1>3, <1>4, <1>6, CursorInSlice DEF c
  <2> QED BY <2>1 DEF c
<1>9. /\ cursors' \in [Groups -> [Kvs -> 0..MaxEdges \cup {Garbage}]] /\ cursors'[g][k] = c + 1
      /\ \A h \in Groups : \A l \in Kvs : h # g \/ l # k => cursors'[h][l] = cursors[h][l]
  BY <1>4, <1>5, <1>7, <1>8
<1>10. Typed'
  BY <1>1, <1>2, <1>3 DEF IInv, Typed
<1>11. Counted'
  BY <1>1, <1>2 DEF IInv, Counted
<1>12. Summed'
  BY <1>1, <1>2 DEF IInv, Summed, IsSummed, SummedUp
<1>13. Based'
  BY <1>1, <1>2, <1>5, <1>9 DEF Based, IsPlaced
<1>14. /\ Taken' = Taken \cup {t} /\ t \notin Taken /\ DOMAIN position' = DOMAIN position \cup {t}
       /\ Written' = Written /\ Written \subseteq Taken /\ Taken \subseteq Edge
  <2>1. Taken' = Taken \cup {t} /\ t \notin Taken
    BY <1>1, <1>2, <1>3 DEF Taken
  <2>2. DOMAIN position' = DOMAIN position \cup {t}
    BY <1>7
  <2> QED BY <2>1, <2>2 DEF Written, Taken
<1>15. Cursors'
  <2>1. ASSUME NEW h \in Groups, NEW l \in Kvs
        PROVE  cursors'[h][l] = Start(h, l) + Cardinality(Edges(h, l) \ (pending \ {t}))
    <3> DEFINE n == Cardinality(Edges(h, l) \ pending)
    <3>1. cursors[h][l] = Start(h, l) + n
      BY <1>6 DEF Cursors
    <3>2. Edges(h, l) \in SUBSET Edge
      BY Parts
    <3>3. CASE h = g /\ l = k
      <4>1. Cardinality(Edges(h, l) \ (pending \ {t})) = n + 1
        BY <1>1, <1>3, <1>4, <3>2, <3>3, OneMore
      <4>2. Edges(h, l) \ pending \in SUBSET Edge
        BY <3>2
      <4>3. n \in Nat
        BY <1>3, <4>2, Counting
      <4>4. Start(h, l) \in Nat
        BY <1>3, <1>6, CursorInSlice
      <4>5. cursors'[h][l] = Start(h, l) + n + 1
        BY <1>8, <1>9, <3>1, <3>3
      <4> HIDE DEF n
      <4> QED BY <4>1, <4>3, <4>4, <4>5
    <3>4. CASE ~(h = g /\ l = k)
      <4>1. Edges(h, l) \ (pending \ {t}) = Edges(h, l) \ pending
        BY <1>1, <1>3, <1>4, <3>2, <3>4, OneMore
      <4> QED BY <1>9, <3>1, <3>4, <4>1
    <3> QED BY <3>3, <3>4
  <2> QED BY <1>1, <1>2, <2>1 DEF Cursors
<1>16. \E slot \in [Taken' -> 0..MaxEdges-1] : Scatters(slot)'
  <2>1. PICK slot \in [Taken -> 0..MaxEdges-1] : Scatters(slot)
    BY <1>6
  <2>2. PICK new : new \in [Taken' -> 0..MaxEdges-1] /\ new[t] = c /\ \A u \in Taken : new[u] = slot[u]
    <3> DEFINE n == [u \in Taken' |-> IF u = t THEN c ELSE slot[u]]
    <3>1. n \in [Taken' -> 0..MaxEdges-1] /\ n[t] = c /\ \A u \in Taken : n[u] = slot[u]
      BY <1>8, <1>14, <2>1
    <3> HIDE DEF n
    <3> QED BY <3>1
  <2>3. \A u \in Taken : slot[u] \in 0..MaxEdges-1 /\ slot[u] \in Nat /\ u \in Edge
    BY <1>14, <2>1
  <2>4. \A u \in Taken : slot[u] # c
    BY <1>1, <1>3, <1>6, <2>1, <2>3, TakenSlotIsNew DEF Scatters, c, g, k
  <2>5. ASSUME NEW u \in Taken'
        PROVE  Start(Group(u), KvBlock(u)) <= new[u] /\ new[u] < cursors'[Group(u)][KvBlock(u)]
    <3> DEFINE h == Group(u)
               l == KvBlock(u)
    <3>1. CASE u = t
      <4>1. h = g /\ l = k
        BY <3>1 DEF g, k
      <4> HIDE DEF h, l
      <4>2. Start(h, l) <= new[u] /\ new[u] < cursors'[h][l]
        BY <1>8, <1>9, <2>2, <3>1, <4>1
      <4> QED BY <4>2 DEF h, l
    <3>2. CASE u # t
      <4>1. u \in Taken /\ h \in Groups /\ l \in Kvs
        BY <1>3, <1>14, <3>2, EdgeFacts
      <4>2. Start(h, l) <= slot[u] /\ slot[u] < cursors[h][l] /\ new[u] = slot[u] /\ slot[u] \in Nat
        BY <2>1, <2>2, <2>3, <4>1 DEF Scatters
      <4> HIDE DEF h, l
      <4>3. slot[u] < cursors'[h][l]
        BY <1>8, <1>9, <4>1, <4>2
      <4> QED BY <4>2, <4>3 DEF h, l
    <3> QED BY <3>1, <3>2
  <2>6. ASSUME NEW u \in Taken', NEW v \in Taken', new[u] = new[v] PROVE u = v
    BY <1>14, <2>1, <2>2, <2>4, <2>6 DEF Scatters
  <2>7. ASSUME NEW u \in DOMAIN position' PROVE position'[u] = new[u]
    <3>1. u = t \/ (u \in DOMAIN position /\ u # t)
      BY <1>14
    <3>2. CASE u = t
      BY <1>7, <2>2, <3>2
    <3>3. CASE u \in DOMAIN position /\ u # t
      <4>1. u \in Taken /\ position[u] = slot[u]
        BY <1>6, <2>1, <3>3 DEF Scatters
      <4> QED BY <1>7, <2>2, <3>3, <4>1
    <3> QED BY <3>1, <3>2, <3>3
  <2>8. ASSUME NEW u \in Written PROVE indices'[new[u]] = QBlock(u)
    BY <1>1, <1>14, <2>1, <2>2 DEF Scatters
  <2>9. ASSUME NEW i \in 0..MaxEdges-1, indices'[i] # Garbage PROVE \E u \in Written : new[u] = i
    <3>1. PICK u \in Written : slot[u] = i
      BY <1>1, <2>1, <2>9 DEF Scatters
    <3> QED BY <1>14, <2>2, <3>1
  <2>10. Scatters(new)'
    BY <1>2, <1>14, <2>5, <2>6, <2>7, <2>8, <2>9 DEF Scatters
  <2> QED BY <2>2, <2>10
<1>17. Scattered'
  <2>1. DOMAIN position' \subseteq Taken'
    BY <1>6, <1>14
  <2> QED BY <1>1, <1>2, <1>15, <1>16, <2>1 DEF Scattered
<1> QED BY <1>10, <1>11, <1>12, <1>13, <1>17 DEF IInv

\* A slot is written by the thread that took it, which finds nothing there.
LEMMA SlotIsFresh ==
    ASSUME IInv, NEW t, WriteIndex(t)
    PROVE  /\ kernel = "scatter" /\ t \in Taken /\ input \in Inputs
           /\ position[t] \in 0..MaxEdges-1 /\ indices[position[t]] = Garbage
<1>1. t \in DOMAIN position
  BY DEF WriteIndex
<1>2. position # <<>>
  BY <1>1
<1>3. kernel = "scatter"
  BY <1>2 DEF IInv, Typed, Kernels, Scattered
<1>4. /\ input \in Inputs /\ DOMAIN position \subseteq Taken
      /\ \E slot \in [Taken -> 0..MaxEdges-1] : Scatters(slot)
  BY <1>3 DEF IInv, Typed, Scattered
<1>5. PICK slot \in [Taken -> 0..MaxEdges-1] : Scatters(slot)
  BY <1>4
<1>6. t \in Taken /\ position[t] = slot[t] /\ slot[t] \in 0..MaxEdges-1
  BY <1>1, <1>4, <1>5 DEF Scatters
<1>7. \A u \in Written : slot[u] # slot[t]
  BY <1>1, <1>5, <1>6 DEF Scatters, Written
<1>8. indices[slot[t]] = Garbage
  BY <1>5, <1>6, <1>7 DEF Scatters
<1> QED BY <1>3, <1>4, <1>6, <1>8

LEMMA WriteStep ==
    ASSUME IInv, NEW t, WriteIndex(t)
    PROVE  IInv'
<1>1. /\ kernel = "scatter" /\ kernel' = "scatter" /\ t \in DOMAIN position /\ pending' = pending
      /\ input' = input /\ counts' = counts /\ localOffsets' = localOffsets
      /\ groupTotals' = groupTotals /\ offsets' = offsets /\ cursors' = cursors
  BY SlotIsFresh DEF WriteIndex
<1>2. /\ MaxEdges' = MaxEdges /\ Edge' = Edge
      /\ \A h, l : /\ Edges(h, l)' = Edges(h, l) /\ InGroup(h, l)' = InGroup(h, l)
                   /\ Start(h, l)' = Start(h, l)
      /\ \A u : QBlock(u)' = QBlock(u) /\ Group(u)' = Group(u) /\ KvBlock(u)' = KvBlock(u)
  BY <1>1, InputIsFixed
<1>3. /\ input \in Inputs /\ t \in Taken /\ position[t] \in 0..MaxEdges-1
      /\ indices[position[t]] = Garbage
  BY SlotIsFresh
<1>4. /\ Taken' = Taken /\ Taken \subseteq Edge
      /\ DOMAIN position \subseteq Taken /\ Cursors
      /\ \E slot \in [Taken -> 0..MaxEdges-1] : Scatters(slot)
  BY <1>1, <1>2 DEF IInv, Scattered, Taken
<1>5. QBlock(t) \in 0..NumQ-1
  BY <1>3, <1>4, EdgeFacts
<1>6. /\ indices' = [indices EXCEPT ![position[t]] = QBlock(t)]
      /\ position' = [u \in DOMAIN position \ {t} |-> position[u]]
      /\ indices \in [0..MaxEdges-1 -> 0..NumQ-1 \cup {Garbage}]
  BY DEF WriteIndex, IInv, Typed
<1>7. Typed'
  BY <1>1, <1>2, <1>3, <1>5, <1>6 DEF IInv, Typed
<1>8. Counted'
  BY <1>1, <1>2 DEF IInv, Counted
<1>9. Summed'
  BY <1>1, <1>2 DEF IInv, Summed, IsSummed, SummedUp
<1>10. Based'
  BY <1>1, <1>2 DEF IInv, Based, IsPlaced
<1>11. Cursors'
  BY <1>1, <1>2, <1>4 DEF Cursors
<1>12. DOMAIN position' = DOMAIN position \ {t} /\ \A u \in DOMAIN position' : position'[u] = position[u]
  BY <1>6
<1>13. Written' = Written \cup {t} /\ t \notin Written /\ Written \subseteq Taken
  BY <1>1, <1>3, <1>4, <1>12 DEF Written
<1>14. \E slot \in [Taken' -> 0..MaxEdges-1] : Scatters(slot)'
  <2>1. PICK slot \in [Taken -> 0..MaxEdges-1] : Scatters(slot)
    BY <1>4
  <2>2. position[t] = slot[t]
    BY <1>1, <2>1 DEF Scatters
  <2>3. /\ indices'[slot[t]] = QBlock(t)
        /\ \A i \in 0..MaxEdges-1 : i # slot[t] => indices'[i] = indices[i]
    BY <1>3, <1>6, <2>2
  <2>4. ASSUME NEW u \in Written' PROVE indices'[slot[u]] = QBlock(u)
    <3>1. CASE u = t
      BY <2>3, <3>1
    <3>2. CASE u # t
      <4>1. u \in Written /\ u \in Taken /\ slot[u] \in 0..MaxEdges-1
        BY <1>13, <2>1, <3>2
      <4>2. slot[u] # slot[t]
        BY <1>3, <2>1, <3>2, <4>1 DEF Scatters
      <4> QED BY <2>1, <2>3, <4>1, <4>2 DEF Scatters
    <3> QED BY <3>1, <3>2
  <2>5. ASSUME NEW i \in 0..MaxEdges-1, indices'[i] # Garbage PROVE \E u \in Written' : slot[u] = i
    <3>1. CASE i = slot[t]
      BY <1>13, <3>1
    <3>2. CASE i # slot[t]
      BY <1>13, <2>1, <2>3, <2>5, <3>2 DEF Scatters
    <3> QED BY <3>1, <3>2
  <2>6. Scatters(slot)'
    BY <1>1, <1>2, <1>4, <1>12, <2>1, <2>4, <2>5 DEF Scatters
  <2> QED BY <1>4, <2>1, <2>6
<1>15. Scattered'
  BY <1>1, <1>2, <1>4, <1>11, <1>12, <1>14 DEF Scattered
<1> QED BY <1>7, <1>8, <1>9, <1>10, <1>15 DEF IInv

\* A kernel finds what it needs: the one before it has done all its threads.
LEMMA LaunchStep ==
    ASSUME IInv, NextKernel
    PROVE  IInv'
<1>1. /\ pending = {} /\ position = <<>> /\ kernel # "done"
      /\ input' = input /\ counts' = counts /\ localOffsets' = localOffsets
      /\ groupTotals' = groupTotals /\ offsets' = offsets /\ cursors' = cursors
      /\ indices' = indices /\ position' = position
  BY DEF NextKernel, Launch
<1>2. \/ kernel = "count" /\ kernel' = "local" /\ pending' = GroupThreads
      \/ kernel = "local" /\ kernel' = "finalize" /\ pending' = GroupThreads
      \/ kernel = "finalize" /\ kernel' = "scatter" /\ pending' = Edge
      \/ kernel = "scatter" /\ kernel' = "done" /\ pending' = {}
  BY DEF NextKernel, Launch, Edge
<1>3. /\ MaxEdges' = MaxEdges /\ Edge' = Edge
      /\ \A h, l : /\ Edges(h, l)' = Edges(h, l) /\ InGroup(h, l)' = InGroup(h, l)
                   /\ Start(h, l)' = Start(h, l)
      /\ \A u : QBlock(u)' = QBlock(u) /\ Group(u)' = Group(u) /\ KvBlock(u)' = KvBlock(u)
  BY <1>1, InputIsFixed
<1>4. GroupThreads' = GroupThreads /\ \A g \in Groups : <<g>> \in GroupThreads
  BY DEF GroupThreads
<1>5. input \in Inputs
  BY DEF IInv, Typed
<1>6. Typed'
  BY <1>1, <1>2, <1>3, <1>4 DEF IInv, Typed, Kernels
<1>7. Counted'
  <2>1. \A g, k : Edges(g, k) \ pending = Edges(g, k)
    BY <1>1
  <2>2. kernel' # "count"
    BY <1>2
  <2> QED BY <1>1, <1>3, <2>1, <2>2 DEF IInv, Counted
<1>8. Summed'
  <2>1. \A g \in Groups : IsSummed(g)' => IsSummed(g)
    BY <1>1, <1>2, <1>4 DEF IsSummed
  <2> QED BY <1>1, <1>3, <2>1 DEF IInv, Summed, SummedUp
<1>9. Based'
  <2>1. \A g \in Groups : IsPlaced(g)' => IsPlaced(g) /\ kernel' # "finalize"
    BY <1>1, <1>2, <1>4 DEF IsPlaced
  <2> QED BY <1>1, <1>3, <2>1 DEF IInv, Based
<1>10. Scattered'
  <2>1. CASE kernel = "finalize"
    <3>1. kernel' = "scatter" /\ pending' = Edge /\ indices = [i \in 0..MaxEdges-1 |-> Garbage]
      BY <1>2, <2>1 DEF IInv, Scattered
    <3>2. Taken' = {} /\ Written' = {} /\ DOMAIN position' = {}
      BY <1>1, <1>3, <3>1 DEF Taken, Written
    <3>3. Cursors'
      <4>1. ASSUME NEW g \in Groups, NEW k \in Kvs PROVE cursors[g][k] = Start(g, k) /\ Start(g, k) \in Nat
        <5>1. k \in 0..NumKv
          BY <1>5, Sizes DEF Kvs
        <5>2. Start(g, k) \in 0..MaxEdges
          BY <1>5, <5>1, Slices
        <5> QED BY <1>1, <2>1, <5>2 DEF IInv, Based, IsPlaced
      <4>2. \A g, k : Cardinality(Edges(g, k) \ Edge) = 0
        <5>1. \A g, k : Edges(g, k) \ Edge = {}
          BY DEF Edges
        <5> QED BY <5>1, FS_EmptySet
      <4> QED BY <1>1, <1>3, <3>1, <4>1, <4>2 DEF Cursors
    <3>4. \E slot \in [Taken' -> 0..MaxEdges-1] : Scatters(slot)'
      <4>1. PICK slot : slot \in [Taken' -> 0..MaxEdges-1]
        <5>1. [t \in Taken' |-> 0] \in [Taken' -> 0..MaxEdges-1]
          BY <3>2
        <5> QED BY <5>1
      <4>2. Scatters(slot)'
        BY <1>1, <1>3, <3>1, <3>2 DEF Scatters
      <4> QED BY <4>1, <4>2
    <3> QED BY <1>3, <3>1, <3>2, <3>3, <3>4 DEF Scattered
  <2>2. CASE kernel = "scatter"
    <3>1. kernel' = "done" /\ pending' = pending /\ Taken' = Taken /\ Written' = Written
      BY <1>1, <1>2, <1>3, <2>2 DEF Taken, Written
    <3>2. /\ DOMAIN position \subseteq Taken /\ Cursors
          /\ \E slot \in [Taken -> 0..MaxEdges-1] : Scatters(slot)
      BY <2>2 DEF IInv, Scattered
    <3>3. Cursors'
      BY <1>1, <1>3, <3>1, <3>2 DEF Cursors
    <3>4. \A slot : Scatters(slot) => Scatters(slot)'
      BY <1>1, <1>3, <3>1 DEF Scatters
    <3> QED BY <1>1, <1>3, <3>1, <3>2, <3>3, <3>4 DEF Scattered
  <2>3. CASE kernel \in {"count", "local"}
    BY <1>1, <1>2, <1>3, <2>3 DEF IInv, Scattered
  <2> QED BY <1>2, <2>1, <2>2, <2>3
<1> QED BY <1>6, <1>7, <1>8, <1>9, <1>10 DEF IInv

LEMMA StutterStep ==
    ASSUME IInv, UNCHANGED vars
    PROVE  IInv'
<1>1. /\ input' = input /\ kernel' = kernel /\ pending' = pending /\ counts' = counts
      /\ localOffsets' = localOffsets /\ groupTotals' = groupTotals /\ offsets' = offsets
      /\ cursors' = cursors /\ indices' = indices /\ position' = position
  BY DEF vars
<1>2. /\ MaxEdges' = MaxEdges /\ Edge' = Edge
      /\ \A h, l : /\ Edges(h, l)' = Edges(h, l) /\ InGroup(h, l)' = InGroup(h, l)
                   /\ Start(h, l)' = Start(h, l)
      /\ \A u : QBlock(u)' = QBlock(u) /\ Group(u)' = Group(u) /\ KvBlock(u)' = KvBlock(u)
  BY <1>1, InputIsFixed
<1>3. Taken' = Taken /\ Written' = Written
  BY <1>1, <1>2 DEF Taken, Written
<1>4. Cursors' = Cursors /\ \A slot : Scatters(slot)' = Scatters(slot)
  BY <1>1, <1>2, <1>3 DEF Cursors, Scatters
<1>5. Typed' /\ Counted'
  BY <1>1, <1>2 DEF IInv, Typed, Counted
<1>6. Summed' /\ Based'
  BY <1>1, <1>2 DEF IInv, Summed, IsSummed, SummedUp, Based, IsPlaced
<1>7. Scattered'
  BY <1>1, <1>2, <1>3, <1>4 DEF IInv, Scattered
<1> QED BY <1>5, <1>6, <1>7 DEF IInv

LEMMA Invariance == Spec => []IInv
<1>1. ASSUME IInv, [Next]_vars PROVE IInv'
  <2>1. ASSUME NEW t \in Threads, CountEdge(t) PROVE IInv'
    BY <1>1, <2>1, CountStep
  <2>2. ASSUME NEW t \in Threads, TakePosition(t) PROVE IInv'
    BY <1>1, <2>2, TakeStep
  <2>3. ASSUME NEW t \in Threads, WriteIndex(t) PROVE IInv'
    BY <1>1, <2>3, WriteStep
  <2>4. ASSUME NEW g \in Groups, LocalOffsets(g) PROVE IInv'
    BY <1>1, <2>4, LocalStep
  <2>5. ASSUME NEW g \in Groups, FinalizeOffsets(g) PROVE IInv'
    BY <1>1, <2>5, FinalizeStep
  <2>6. CASE NextKernel
    BY <1>1, <2>6, LaunchStep
  <2>7. CASE UNCHANGED vars
    BY <1>1, <2>7, StutterStep
  <2> QED BY <1>1, <2>1, <2>2, <2>3, <2>4, <2>5, <2>6, <2>7 DEF Next, Terminated
<1> QED BY InitInv, <1>1, PTL DEF Spec

-----------------------------------------------------------------------------
(* What the kernels compute.                                               *)

\* Every launch keeps to its buffers: each slot a thread is handed is inside
\* indices, which the host sizes by the entries of q2k_block_index, and every
\* offset lies in 0..max_edges.
THEOREM TypesHold == Spec => []TypeOK
<1>1. ASSUME IInv PROVE TypeOK
  <2>1. input \in Inputs /\ kernel \in Kernels /\ indices \in [0..MaxEdges-1 -> 0..NumQ-1 \cup {Garbage}]
    BY <1>1 DEF IInv, Typed
  <2>2. Edge \subseteq Threads
    BY DEF Edge, EdgeThreadsOf
  <2>3. pending \subseteq Threads \cup GroupThreads
    BY <1>1, <2>1, <2>2 DEF IInv, Typed, Kernels
  <2>4. counts \in [Groups -> [Kvs -> Nat]]
    BY <1>1 DEF IInv, Counted
  <2>5. /\ localOffsets \in [Groups -> [0..NumKv -> Nat \cup {Garbage}]]
        /\ groupTotals \in [Groups -> Nat \cup {Garbage}]
    BY <1>1 DEF IInv, Summed
  <2>6. /\ offsets \in [Groups -> [0..NumKv -> 0..MaxEdges \cup {Garbage}]]
        /\ cursors \in [Groups -> [Kvs -> 0..MaxEdges \cup {Garbage}]]
    BY <1>1 DEF IInv, Based
  <2>7. DOMAIN position \subseteq Threads /\ \A t \in DOMAIN position : position[t] \in DOMAIN indices
    <3>1. CASE kernel \in {"scatter", "done"}
      <4>1. DOMAIN position \subseteq Taken /\ \E slot \in [Taken -> 0..MaxEdges-1] : Scatters(slot)
        BY <1>1, <3>1 DEF IInv, Scattered
      <4>2. PICK slot \in [Taken -> 0..MaxEdges-1] : Scatters(slot)
        BY <4>1
      <4>3. \A t \in DOMAIN position : position[t] \in 0..MaxEdges-1
        BY <4>1, <4>2 DEF Scatters
      <4>4. Taken \subseteq Threads
        BY <2>2 DEF Taken
      <4> QED BY <2>1, <4>1, <4>3, <4>4
    <3>2. CASE kernel \notin {"scatter", "done"}
      <4>1. position = <<>>
        BY <1>1, <3>2 DEF IInv, Scattered
      <4>2. DOMAIN position = {}
        BY <4>1
      <4> QED BY <4>2
    <3> QED BY <3>1, <3>2
  <2> QED BY <2>1, <2>3, <2>4, <2>5, <2>6, <2>7 DEF TypeOK, Kernels
<1> QED BY Invariance, <1>1, PTL

\* No slot of the inverse index is written twice, in whatever order the threads
\* take their slots and write them.
THEOREM NoLostEdge == Spec => SlotWrittenOnce
<1> DEFINE Kept == \A i \in DOMAIN indices : indices[i] # Garbage => indices'[i] = indices[i]
<1>1. ASSUME IInv, [Next]_vars PROVE [Kept]_vars
  <2>1. ASSUME indices' = indices PROVE Kept
    BY <2>1
  <2>2. ASSUME NEW t \in Threads, WriteIndex(t) PROVE Kept
    <3>1. indices[position[t]] = Garbage
      BY <1>1, <2>2, SlotIsFresh
    <3>2. indices' = [indices EXCEPT ![position[t]] = QBlock(t)]
      BY <2>2 DEF WriteIndex
    <3> QED BY <3>1, <3>2
  <2>3. ASSUME NEW t \in Threads, CountEdge(t) \/ TakePosition(t) PROVE indices' = indices
    BY <2>3 DEF CountEdge, TakePosition
  <2>4. ASSUME NEW g \in Groups, LocalOffsets(g) \/ FinalizeOffsets(g) PROVE indices' = indices
    BY <2>4 DEF LocalOffsets, FinalizeOffsets
  <2>5. ASSUME NextKernel PROVE indices' = indices
    BY <2>5 DEF NextKernel, Launch
  <2>6. ASSUME UNCHANGED vars PROVE indices' = indices
    BY <2>6 DEF vars
  <2> HIDE DEF Kept
  <2> QED BY <1>1, <2>1, <2>2, <2>3, <2>4, <2>5, <2>6 DEF Next, Terminated
<1> QED BY Invariance, <1>1, PTL DEF Spec, SlotWrittenOnce

\* The edges of a slice and the slots of it are in bijection.
LEMMA SliceIsFull ==
    ASSUME IInv, kernel = "done", NEW g \in Groups, NEW k \in Kvs
    PROVE  \E slot \in Bijection(Edges(g, k), Start(g, k) .. Start(g, k + 1) - 1) :
               \A t \in Edges(g, k) : indices[slot[t]] = QBlock(t)
<1> DEFINE E == Edges(g, k)
           m == Start(g, k)
           n == Start(g, k + 1)
           S == m .. n - 1
<1>1. /\ input \in Inputs /\ pending = {} /\ position = <<>> /\ Cursors
      /\ \E slot \in [Taken -> 0..MaxEdges-1] : Scatters(slot)
  BY DEF IInv, Typed, Scattered
<1>2. DOMAIN position = {}
  BY <1>1
<1>3. Taken = Edge /\ Written = Edge
  BY <1>1, <1>2 DEF Taken, Written
<1>4. PICK all \in [Edge -> 0..MaxEdges-1] : Scatters(all)
  BY <1>1, <1>3
<1>5. m \in Nat /\ n \in Nat /\ n = m + Cardinality(E) /\ Cardinality(E) \in Nat /\ cursors[g][k] <= n
      /\ cursors[g][k] \in Nat
  BY <1>1, CursorInSlice, Slices
<1>6. E \subseteq Edge /\ E \in SUBSET Edge /\ \A t \in E : Group(t) = g /\ KvBlock(t) = k
  BY DEF Edges
<1>7. IsFiniteSet(E)
  BY <1>1, <1>6, Counting
<1> HIDE DEF E, m, n
<1>8. ASSUME NEW t \in E PROVE all[t] \in S /\ indices[all[t]] = QBlock(t)
  <2>1. t \in Edge /\ Group(t) = g /\ KvBlock(t) = k
    BY <1>6
  <2>2. m <= all[t] /\ all[t] < cursors[g][k] /\ indices[all[t]] = QBlock(t) /\ all[t] \in Nat
    BY <1>3, <1>4, <2>1 DEF Scatters, m
  <2> QED BY <1>5, <2>2
<1>9. \A t, u \in E : all[t] = all[u] => t = u
  BY <1>3, <1>4, <1>6 DEF Scatters
<1> DEFINE slot == [t \in E |-> all[t]]
<1>10. slot \in [E -> S] /\ (\A t, u \in E : slot[t] = slot[u] => t = u)
       /\ \A t \in E : indices[slot[t]] = QBlock(t)
  <2> HIDE DEF S
  <2> QED BY <1>8, <1>9
<1> HIDE DEF slot
<1>11. slot \in Injection(E, S)
  BY <1>10, Zenon DEF Injection, IsInjective
<1>12. IsFiniteSet(S) /\ Cardinality(S) = Cardinality(E)
  <2> DEFINE l == n - 1
  <2>1. l \in Int /\ m \in Int /\ (m > l => n = m) /\ (~(m > l) => l - m + 1 = n - m)
    BY <1>5
  <2> HIDE DEF l
  <2>2. IsFiniteSet(m .. l) /\ Cardinality(m .. l) = IF m > l THEN 0 ELSE l - m + 1
    BY <2>1, FS_Interval
  <2>3. n - m = Cardinality(E) /\ (n = m => Cardinality(E) = 0)
    BY <1>5
  <2>4. Cardinality(m .. l) = Cardinality(E)
    BY <2>1, <2>2, <2>3
  <2> QED BY <2>2, <2>4 DEF l
<1> HIDE DEF S
<1>13. slot \in Surjection(E, S)
  BY <1>7, <1>11, <1>12, FS_Injection
<1>14. slot \in Bijection(E, S)
  BY <1>11, <1>13, Zenon DEF Bijection
<1> QED BY <1>10, <1>14 DEF E, S, m, n

\* Sets that a map pairs off have equally many elements.
LEMMA PairedOff ==
    ASSUME NEW A, NEW B, NEW f \in [A -> B], IsFiniteSet(A),
           \A a, b \in A : f[a] = f[b] => a = b,
           \A b \in B : \E a \in A : f[a] = b
    PROVE  Cardinality(B) = Cardinality(A)
<1>1. f \in Injection(A, B) /\ f \in Surjection(A, B)
  BY Zenon DEF Injection, IsInjective, Surjection
<1>2. ExistsBijection(A, B)
  BY <1>1, Zenon DEF Bijection, ExistsBijection
<1> QED BY <1>2, FS_Bijection

\* The edges of a slice that come from row q are the entries of row q that count
\* and name the kv block.
LEMMA EdgesOfRow ==
    ASSUME input \in Inputs, NEW g, NEW k \in Kvs, NEW q \in 0..NumQ-1, q \div BucketSize = g
    PROVE  Cardinality({t \in Edges(g, k) : QBlock(t) = q}) = EdgesFrom(q, k)
<1> DEFINE R == {t \in Edges(g, k) : QBlock(t) = q}
           num == IF input.variable THEN input.nums[q] ELSE input.sparse
           B == {b \in 0..MaxKv-1 : b < num /\ input.q2k[q][b] = k}
           f == [t \in R |-> Slot(t)]
<1>1. R \in SUBSET Edge /\ IsFiniteSet(R)
  <2>1. R \in SUBSET Edge
    BY DEF Edges
  <2> QED BY <2>1, Counting
<1>2. ASSUME NEW t \in R PROVE Slot(t) \in B
  <2>1. t \in Edge /\ QBlock(t) = q /\ KvBlock(t) = k
    BY <1>2 DEF Edges
  <2>2. Slot(t) \in 0..EdgeWidth-1 /\ HasEdge(t)
    BY <2>1, EdgeFacts DEF Edge, EdgeThreadsOf
  <2>3. Slot(t) < num /\ input.q2k[q][Slot(t)] = k
    BY <2>1, <2>2 DEF HasEdge, KvBlock
  <2>4. Slot(t) \in 0..MaxKv-1
    BY <2>2, Sizes
  <2> QED BY <2>3, <2>4
<1>3. ASSUME NEW t \in R, NEW u \in R, Slot(t) = Slot(u) PROVE t = u
  <2>1. t \in Edge /\ u \in Edge /\ QBlock(t) = QBlock(u)
    BY <1>1
  <2>2. t \in Threads /\ u \in Threads
    BY <2>1, EdgeFacts
  <2> QED BY <1>3, <2>1, <2>2, OneThreadAnEntry
<1>4. ASSUME NEW b \in B PROVE \E t \in R : Slot(t) = b
  <2>1. b \in 0..MaxKv-1 /\ b < num /\ input.q2k[q][b] = k
    OBVIOUS
  <2>2. b \in 0..EdgeWidth-1
    <3>1. CASE input.variable
      BY <2>1, <3>1 DEF EdgeWidth
    <3>2. CASE ~input.variable
      <4>1. num = input.sparse /\ EdgeWidth = input.sparse
        BY <3>2 DEF EdgeWidth
      <4>2. input.sparse \in 0..MaxKv
        BY Sizes
      <4> QED BY <2>1, <4>1, <4>2
    <3> QED BY <3>1, <3>2
  <2>3. PICK t \in Threads : QBlock(t) = q /\ Slot(t) = b
    BY <2>2, EveryEntryHasAThread
  <2>4. KvBlock(t) = k /\ Slot(t) < num /\ Slot(t) < EdgeWidth
    BY <2>1, <2>2, <2>3, Sizes DEF KvBlock
  <2>5. t \in Edge
    BY <2>3, <2>4 DEF Edge, EdgeThreadsOf, HasEdge
  <2>6. Group(t) = g
    BY <2>3 DEF Group
  <2> QED BY <2>3, <2>4, <2>5, <2>6 DEF Edges
<1> HIDE DEF R, B
<1>5. f \in [R -> B] /\ (\A t, u \in R : f[t] = f[u] => t = u) /\ \A b \in B : \E t \in R : f[t] = b
  BY <1>2, <1>3, <1>4
<1> HIDE DEF f
<1>6. Cardinality(B) = Cardinality(R)
  BY <1>1, <1>5, PairedOff
<1> QED BY <1>6 DEF R, B, EdgesFrom

\* When the kernels are done, the slices follow one another without gap from 0,
\* and the slice of (group, kv block) lists each q block of the group once per
\* entry of its row that counts and names the kv block, and nothing else: what
\* they hand to the backward kernels is the inverse of q2k_block_index.
THEOREM InverseIndex == Spec => []CsrInvertsQ2K
<1>1. ASSUME IInv PROVE CsrInvertsQ2K
  <2> SUFFICES ASSUME kernel = "done" PROVE CsrInvertsQ2K
    BY DEF CsrInvertsQ2K
  <2>1. /\ input \in Inputs
        /\ \A g \in Groups : \A k \in 0..NumKv : offsets[g][k] = Start(g, k)
    BY <1>1 DEF IInv, Typed, Based, IsPlaced
  <2>2. DOMAIN indices = 0..MaxEdges-1
    BY <1>1 DEF IInv, Typed
  <2>3. 0 \in 0..NumKv /\ NumKv \in 0..NumKv /\ \A k \in Kvs : k \in 0..NumKv /\ k + 1 \in 0..NumKv
    <3>1. NumKv \in Nat
      BY <2>1, Sizes
    <3> QED BY <3>1 DEF Kvs
  <2>4. offsets[0][0] = 0
    BY <2>1, <2>3, Slices, Sizes
  <2>5. ASSUME NEW g \in Groups \ {0} PROVE offsets[g][0] = offsets[g-1][NumKv]
    <3>1. g - 1 \in Groups
      <4> DEFINE n == (NumQ + BucketSize - 1) \div BucketSize
      <4>1. Groups = 0 .. n - 1 /\ n \in Int
        <5>1. NumQ + BucketSize - 1 \in Nat /\ BucketSize \in Nat \ {0}
          BY SizesAssumption
        <5>2. n \in Nat
          BY <5>1, Divmod
        <5> QED BY <5>2 DEF Groups
      <4> HIDE DEF n
      <4> QED BY <4>1
    <3>2. Start(g, 0) = Start(g - 1, NumKv)
      BY <2>1, Slices
    <3> QED BY <2>1, <2>3, <3>1, <3>2
  <2>6. ASSUME NEW g \in Groups, NEW k \in Kvs
        PROVE  LET slice == {i \in DOMAIN indices : offsets[g][k] <= i /\ i < offsets[g][k+1]}
                   group == {q \in 0..NumQ-1 : q \div BucketSize = g}
               IN  /\ \A i \in slice : indices[i] \in group
                   /\ \A q \in group : Cardinality({i \in slice : indices[i] = q}) = EdgesFrom(q, k)
    <3> DEFINE slice == {i \in DOMAIN indices : offsets[g][k] <= i /\ i < offsets[g][k+1]}
               group == {q \in 0..NumQ-1 : q \div BucketSize = g}
               m == Start(g, k)
               n == Start(g, k + 1)
               E == Edges(g, k)
    <3>1. m \in 0..MaxEdges /\ n \in 0..MaxEdges /\ MaxEdges \in Nat /\ offsets[g][k] = m /\ offsets[g][k+1] = n
      BY <2>1, <2>3, Slices, Sizes
    <3>2. slice = m .. n - 1
      <4> HIDE DEF m, n
      <4> QED BY <2>2, <3>1
    <3>3. PICK slot \in Bijection(E, m .. n - 1) : \A t \in E : indices[slot[t]] = QBlock(t)
      BY <1>1, SliceIsFull
    <3> HIDE DEF slice
    <3>4. /\ slot \in [E -> slice] /\ \A t, u \in E : slot[t] = slot[u] => t = u
          /\ \A i \in slice : \E t \in E : slot[t] = i
      BY <3>2, <3>3, Zenon DEF Bijection, Injection, IsInjective, Surjection
    <3>5. ASSUME NEW t \in E PROVE QBlock(t) \in group /\ t \in Edge
      <4>1. t \in Edge /\ Group(t) = g
        BY DEF Edges
      <4>2. QBlock(t) \in 0..NumQ-1
        BY <2>1, <4>1, EdgeFacts
      <4> QED BY <4>1, <4>2 DEF Group
    <3>6. ASSUME NEW i \in slice PROVE indices[i] \in group
      <4> HIDE DEF group, E
      <4> QED BY <3>3, <3>4, <3>5
    <3>7. ASSUME NEW q \in group PROVE Cardinality({i \in slice : indices[i] = q}) = EdgesFrom(q, k)
      <4> DEFINE A == {t \in E : QBlock(t) = q}
                 B == {i \in slice : indices[i] = q}
                 f == [t \in A |-> slot[t]]
      <4>1. Cardinality(A) = EdgesFrom(q, k)
        BY <2>1, EdgesOfRow
      <4>2. IsFiniteSet(A)
        <5>1. A \in SUBSET Edge
          BY <3>5
        <5> QED BY <2>1, <5>1, Counting
      <4> HIDE DEF E
      <4>3. ASSUME NEW t \in A PROVE slot[t] \in B
        BY <3>3, <3>4
      <4>4. \A t, u \in A : slot[t] = slot[u] => t = u
        BY <3>4
      <4>5. \A i \in B : \E t \in A : slot[t] = i
        BY <3>3, <3>4
      <4> HIDE DEF A, B
      <4>6. /\ f \in [A -> B] /\ \A t, u \in A : f[t] = f[u] => t = u
            /\ \A i \in B : \E t \in A : f[t] = i
        BY <4>3, <4>4, <4>5
      <4> HIDE DEF f
      <4>7. Cardinality(B) = Cardinality(A)
        BY <4>2, <4>6, PairedOff
      <4> QED BY <4>1, <4>7 DEF B
    <3> QED BY <3>6, <3>7 DEF slice
  <2> QED BY <2>4, <2>5, <2>6 DEF CsrInvertsQ2K
<1> QED BY Invariance, <1>1, PTL
===============================================================================
