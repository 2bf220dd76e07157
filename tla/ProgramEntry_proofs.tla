------------------------ MODULE ProgramEntry_proofs ------------------------
(***************************************************************************)
(* Machine-checked proofs about ProgramEntry: for command lines of any     *)
(* length and any files, ranges and libraries, one mode runs, the one that *)
(* was asked for, a run that succeeds leaves no session behind, a scan     *)
(* probes the hosts of its range, however long addresses are, the          *)
(* structure inferred of backups accounts for every offset once, and a     *)
(* diff of two backups reports what changed.                               *)
(***************************************************************************)
EXTENDS ProgramEntry, TLAPS, FiniteSetTheorems, NaturalsInduction, WellFoundedInduction

-----------------------------------------------------------------------------
(* Numbers                                                                 *)

\* A set of naturals with 0 and the successor of each of its elements holds them all.
LEMMA Induction ==
  ASSUME NEW S \in SUBSET Nat, 0 \in S, \A n \in S : n + 1 \in S
  PROVE  S = Nat
<1> DEFINE Less == {ss \in Nat \X Nat : ss[1] < ss[2]}
<1> SUFFICES ASSUME Nat \ S # {} PROVE FALSE
  OBVIOUS
<1>1. OpToRel(<, Nat) = Less
  BY DEF OpToRel
<1>2. IsWellFoundedOn(Less, Nat)
  BY <1>1, NatLessThanWellFounded
<1>3. PICK m \in Nat \ S : \A y \in Nat \ S : ~(<<y, m>> \in Less)
  BY <1>2, WFMin
<1>4. m # 0 /\ m - 1 \in Nat /\ <<m - 1, m>> \in Less
  OBVIOUS
<1>5. m - 1 \in S
  BY <1>3, <1>4
<1>6. QED
  BY <1>3, <1>4, <1>5

\* A set of naturals that is not empty has a least element.
LEMMA Least ==
  ASSUME NEW S \in SUBSET Nat, NEW n \in S
  PROVE  \E m \in S : \A k \in S : m <= k
<1> DEFINE Less == {ss \in Nat \X Nat : ss[1] < ss[2]}
<1>1. OpToRel(<, Nat) = Less
  BY DEF OpToRel
<1>2. IsWellFoundedOn(Less, Nat)
  BY <1>1, NatLessThanWellFounded
<1>3. PICK m \in S : \A y \in S : ~(<<y, m>> \in Less)
  BY <1>2, WFMin
<1>4. \A k \in S : ~(k < m)
  BY <1>3
<1>5. QED
  BY <1>4

LEMMA ImageFinite ==
  ASSUME NEW A, IsFiniteSet(A), NEW X, NEW f \in [A -> X]
  PROVE  IsFiniteSet({f[a] : a \in A})
<1> DEFINE B == {f[a] : a \in A}
<1>1. f \in [A -> B] /\ \A b \in B : \E a \in A : f[a] = b
  OBVIOUS
<1>2. f \in Surjection(A, B)
  BY <1>1 DEF Surjection
<1>3. QED
  BY <1>2, FS_Surjection

LEMMA ListFinite ==
  ASSUME NEW X, NEW q \in Seq(X)
  PROVE  IsFiniteSet(ToSet(q)) /\ ToSet(q) \in SUBSET X
<1>1. q \in [1..Len(q) -> X] /\ DOMAIN q = 1..Len(q) /\ Len(q) \in Nat
  OBVIOUS
<1>2. IsFiniteSet(1..Len(q))
  BY <1>1, FS_Interval
<1>3. IsFiniteSet({q[i] : i \in 1..Len(q)})
  BY <1>1, <1>2, ImageFinite
<1>4. QED
  BY <1>1, <1>3 DEF ToSet
-----------------------------------------------------------------------------
(* Lists in order                                                          *)

\* below gives the elements of S that stand before one, in some order of S.
Orders(below, S) ==
  /\ below \in [S -> SUBSET S]
  /\ \A v \in S : v \notin below[v]
  /\ \A v, w \in S : v \in below[w] => below[v] \subseteq below[w]
  /\ \A v, w \in S : v # w => v \in below[w] \/ w \in below[v]

\* Elements stand before each other as they have fewer before them, and any number
\* below that of all elements is how many stand before one.
LEMMA Ranks ==
  ASSUME NEW S, IsFiniteSet(S), NEW below, Orders(below, S)
  PROVE  /\ \A i \in 1..Cardinality(S) : \E v \in S : Cardinality(below[v]) = i - 1
         /\ \A v \in S : Cardinality(below[v]) \in 0..(Cardinality(S) - 1)
         /\ \A v, w \in S : v \in below[w] <=> Cardinality(below[v]) < Cardinality(below[w])
<1> DEFINE n == Cardinality(S)
           rank == [v \in S |-> Cardinality(below[v]) + 1]
<1>1. n \in Nat
  BY FS_CardinalityType
<1>2. ASSUME NEW v \in S
      PROVE  /\ IsFiniteSet(below[v]) /\ Cardinality(below[v]) \in Nat /\ Cardinality(below[v]) < n
  <2>1. below[v] \in SUBSET S /\ v \notin below[v]
    BY DEF Orders
  <2>2. IsFiniteSet(below[v]) /\ Cardinality(below[v]) <= n /\ Cardinality(below[v]) # n
    BY <2>1, FS_Subset
  <2>3. Cardinality(below[v]) \in Nat
    BY <2>2, FS_CardinalityType
  <2>4. QED
    BY <1>1, <2>2, <2>3
<1>3. ASSUME NEW v \in S, NEW w \in S, v \in below[w]
      PROVE  Cardinality(below[v]) < Cardinality(below[w])
  <2>1. v \notin below[v] /\ below[v] \in SUBSET below[w]
    BY <1>3 DEF Orders
  <2>2. /\ Cardinality(below[v]) <= Cardinality(below[w])
        /\ Cardinality(below[v]) # Cardinality(below[w])
    BY <1>2, <1>3, <2>1, FS_Subset
  <2>3. QED
    BY <1>2, <2>2
<1>4. ASSUME NEW v \in S, NEW w \in S, Cardinality(below[v]) < Cardinality(below[w])
      PROVE  v \in below[w]
  <2>1. v # w /\ ~(w \in below[v])
    BY <1>2, <1>3, <1>4
  <2>2. QED
    BY <2>1 DEF Orders
<1>5. rank \in Injection(S, 1..n)
  <2>1. rank \in [S -> 1..n]
    BY <1>1, <1>2
  <2>2. \A v, w \in S : rank[v] = rank[w] => v = w
    <3> SUFFICES ASSUME NEW v \in S, NEW w \in S, v # w PROVE rank[v] # rank[w]
      OBVIOUS
    <3>1. v \in below[w] \/ w \in below[v]
      BY DEF Orders
    <3>2. Cardinality(below[v]) \in Nat /\ Cardinality(below[w]) \in Nat
      BY <1>2
    <3>3. QED
      BY <1>3, <3>1, <3>2
  <2>3. QED
    BY <2>1, <2>2 DEF Injection, IsInjective
<1>6. \A i \in 1..n : \E v \in S : rank[v] = i
  <2>1. IsFiniteSet(1..n) /\ Cardinality(1..n) = n
    BY <1>1, FS_Interval
  <2>2. rank \in Surjection(S, 1..n)
    BY <1>5, <2>1, FS_Injection
  <2>3. QED
    BY <2>2 DEF Surjection
<1>7. \A i \in 1..n : \E v \in S : Cardinality(below[v]) = i - 1
  <2> SUFFICES ASSUME NEW i \in 1..n PROVE \E v \in S : Cardinality(below[v]) = i - 1
    OBVIOUS
  <2>1. PICK v \in S : rank[v] = i
    BY <1>6
  <2>2. Cardinality(below[v]) \in Nat /\ Cardinality(below[v]) + 1 = i
    BY <1>2, <2>1
  <2>3. QED
    BY <2>2
<1> HIDE DEF rank
<1>8. QED
  BY <1>1, <1>2, <1>3, <1>4, <1>7

\* Elements listed by how many stand before them: all of them, in order.
LEMMA Listing ==
  ASSUME NEW S, IsFiniteSet(S), NEW below, Orders(below, S),
         NEW L \in [1..Cardinality(S) -> S],
         \A i \in 1..Cardinality(S) : Cardinality(below[L[i]]) = i - 1
  PROVE  /\ L \in Seq(S) /\ Len(L) = Cardinality(S) /\ ToSet(L) = S
         /\ \A i, j \in 1..Len(L) : i < j => L[i] \in below[L[j]]
<1> DEFINE n == Cardinality(S)
<1>1. n \in Nat
  BY FS_CardinalityType
<1>2. L \in Seq(S) /\ Len(L) = n
  BY <1>1
<1>3. ASSUME NEW i \in 1..n, NEW j \in 1..n, i < j PROVE L[i] \in below[L[j]]
  <2>1. L[i] \in S /\ L[j] \in S /\ Cardinality(below[L[i]]) < Cardinality(below[L[j]])
    BY <1>1, <1>3
  <2>2. QED
    BY <2>1, Ranks
<1>4. ASSUME NEW v \in S PROVE \E i \in 1..n : L[i] = v
  <2> DEFINE i == Cardinality(below[v]) + 1
  <2>1. i \in 1..n /\ Cardinality(below[v]) = i - 1
    <3>1. Cardinality(below[v]) \in 0..(n - 1)
      BY Ranks
    <3>2. QED
      BY <1>1, <3>1
  <2> HIDE DEF i
  <2>2. L[i] \in S /\ Cardinality(below[L[i]]) = Cardinality(below[v]) /\ Cardinality(below[v]) \in Nat
    BY <1>1, <2>1
  <2>3. ~(L[i] \in below[v]) /\ ~(v \in below[L[i]])
    BY <2>2, Ranks
  <2>4. L[i] = v
    BY <2>2, <2>3 DEF Orders
  <2>5. QED
    BY <2>1, <2>4
<1>5. ToSet(L) = S
  BY <1>2, <1>4 DEF ToSet
<1>6. QED
  BY <1>2, <1>3, <1>5

\* Ascending(S) lists S in order.
LEMMA AscendingLists ==
  ASSUME NEW S \in SUBSET Int, IsFiniteSet(S)
  PROVE  /\ Ascending(S) \in Seq(S) /\ Len(Ascending(S)) = Cardinality(S)
         /\ ToSet(Ascending(S)) = S
         /\ \A i, j \in 1..Len(Ascending(S)) : i < j => Ascending(S)[i] < Ascending(S)[j]
<1> DEFINE below == [v \in S |-> {m \in S : m < v}]
           L == Ascending(S)
<1>1. Orders(below, S)
  <2>1. \A v, w \in S : v # w => v \in below[w] \/ w \in below[v]
    OBVIOUS
  <2>2. ASSUME NEW v \in S, NEW w \in S, v \in below[w], NEW u \in below[v] PROVE u \in below[w]
    <3>1. u \in S /\ u < v /\ v < w /\ u \in Int /\ v \in Int /\ w \in Int
      BY <2>2
    <3>2. QED
      BY <3>1
  <2>3. below \in [S -> SUBSET S] /\ \A v \in S : v \notin below[v]
    OBVIOUS
  <2> HIDE DEF below
  <2>4. QED
    BY <2>1, <2>2, <2>3 DEF Orders
<1>2. \A v \in S : below[v] = {m \in S : m < v}
  OBVIOUS
<1> HIDE DEF below
<1>3. ASSUME NEW i \in 1..Cardinality(S) PROVE L[i] \in S /\ Cardinality(below[L[i]]) = i - 1
  <2>1. \E v \in S : Cardinality({m \in S : m < v}) = i - 1
    <3>1. PICK v \in S : Cardinality(below[v]) = i - 1
      BY <1>1, Ranks
    <3>2. QED
      BY <1>2, <3>1
  <2>2. L[i] = CHOOSE v \in S : Cardinality({m \in S : m < v}) = i - 1
    BY DEF Ascending
  <2>3. L[i] \in S /\ Cardinality({m \in S : m < L[i]}) = i - 1
    BY <2>1, <2>2
  <2>4. QED
    BY <1>2, <2>3
<1>4. L \in [1..Cardinality(S) -> S]
  BY <1>3 DEF Ascending
<1> HIDE DEF L
<1>9. \A i \in 1..Cardinality(S) : Cardinality(below[L[i]]) = i - 1
  BY <1>3
<1>5. /\ L \in Seq(S) /\ Len(L) = Cardinality(S) /\ ToSet(L) = S
      /\ \A i, j \in 1..Len(L) : i < j => L[i] \in below[L[j]]
  BY <1>1, <1>9, <1>4, Listing, Zenon
<1>6. ASSUME NEW i \in 1..Len(L), NEW j \in 1..Len(L), i < j PROVE L[i] < L[j]
  <2>1. L[i] \in S /\ L[j] \in S /\ L[i] \in below[L[j]]
    BY <1>5, <1>6
  <2>2. QED
    BY <1>2, <2>1
<1>7. QED
  BY <1>5, <1>6 DEF L

\* A finite set of numbers has a greatest element, which Longest finds.
LEMMA LongestIs ==
  ASSUME NEW S \in SUBSET Nat, IsFiniteSet(S), S # {}
  PROVE  Longest(S) \in S /\ \A m \in S : m <= Longest(S)
<1> DEFINE q == Ascending(S)
<1>1. /\ q \in Seq(S) /\ ToSet(q) = S
      /\ \A i, j \in 1..Len(q) : i < j => q[i] < q[j]
  <2>1. S \in SUBSET Int
    OBVIOUS
  <2>2. QED
    BY <2>1, AscendingLists
<1> HIDE DEF q
<1>2. Len(q) \in Nat /\ \A i \in 1..Len(q) : q[i] \in S
  BY <1>1
<1>3. \A v \in S : \E i \in 1..Len(q) : q[i] = v
  BY <1>1 DEF ToSet
<1>4. Len(q) \in 1..Len(q)
  <2>1. PICK v : v \in S
    OBVIOUS
  <2>2. PICK i \in 1..Len(q) : q[i] = v
    BY <1>3, <2>1
  <2>3. QED
    BY <1>2, <2>2
<1>5. q[Len(q)] \in S /\ \A m \in S : m <= q[Len(q)]
  <2>1. q[Len(q)] \in S
    BY <1>2, <1>4
  <2>2. ASSUME NEW m \in S PROVE m <= q[Len(q)]
    <3>1. PICK i \in 1..Len(q) : q[i] = m
      BY <1>3
    <3>2. i = Len(q) \/ i < Len(q)
      BY <1>2
    <3>3. m \in Nat /\ q[Len(q)] \in Nat
      BY <2>1
    <3>4. QED
      BY <1>1, <1>4, <3>1, <3>2, <3>3
  <2>3. QED
    BY <2>1, <2>2
<1>6. QED
  BY <1>5 DEF Longest
-----------------------------------------------------------------------------
(* Powers of two, which count the subsets of a set                         *)

LEMMA PowerCounts ==
  ASSUME NEW n \in Nat
  PROVE  IsFiniteSet(SUBSET (1..n)) /\ Cardinality(SUBSET (1..n)) = 2^n /\ 2^n \in Nat \ {0}
<1>1. IsFiniteSet(1..n) /\ Cardinality(1..n) = n
  BY FS_Interval
<1>2. Cardinality(SUBSET (1..n)) = 2^n /\ IsFiniteSet(SUBSET (1..n))
  BY <1>1, FS_SUBSET
<1>3. QED
  BY <1>2, FS_CardinalityType, FS_EmptySet

LEMMA PowerDoubles ==
  ASSUME NEW n \in Nat
  PROVE  2^(n + 1) = 2^n + 2^n
<1> DEFINE A == SUBSET (1..n)
           C == {T \cup {n + 1} : T \in A}
<1>1. IsFiniteSet(A) /\ Cardinality(A) = 2^n /\ 2^n \in Nat
  BY PowerCounts
<1>2. IsFiniteSet(C) /\ Cardinality(C) = Cardinality(A)
  <2> DEFINE f == [T \in A |-> T \cup {n + 1}]
  <2>1. \A T \in A : n + 1 \notin T
    OBVIOUS
  <2>2. f \in Bijection(A, C)
    <3>1. \A T \in A, U \in A : f[T] = f[U] => T = U
      BY <2>1
    <3>2. f \in [A -> C]
      OBVIOUS
    <3>3. \A t \in C : \E s \in A : f[s] = t
      OBVIOUS
    <3> HIDE DEF A, C, f
    <3>4. QED
      BY <3>1, <3>2, <3>3 DEF Bijection, Injection, Surjection, IsInjective
  <2>3. ExistsBijection(A, C)
    BY <2>2 DEF ExistsBijection
  <2> HIDE DEF A, C
  <2>4. QED
    BY <1>1, <2>3, FS_Bijection
<1>3. A \cup C = SUBSET (1..(n + 1))
  <2>1. 1..(n + 1) = (1..n) \cup {n + 1}
    OBVIOUS
  <2>2. ASSUME NEW T \in SUBSET (1..(n + 1)) PROVE T \in A \cup C
    <3>1. CASE n + 1 \in T
      <4>1. T \ {n + 1} \in A /\ T = (T \ {n + 1}) \cup {n + 1}
        BY <2>1, <3>1
      <4>2. QED
        BY <4>1
    <3>2. CASE n + 1 \notin T
      BY <2>1, <3>2
    <3>3. QED
      BY <3>1, <3>2
  <2>3. A \subseteq SUBSET (1..(n + 1)) /\ C \subseteq SUBSET (1..(n + 1))
    BY <2>1
  <2>4. QED
    BY <2>2, <2>3
<1>4. A \cap C = {}
  OBVIOUS
<1>5. Cardinality(A \cup C) = Cardinality(A) + Cardinality(C) - Cardinality(A \cap C)
  <2> HIDE DEF A, C
  <2>1. QED
    BY <1>1, <1>2, FS_Union
<1>6. Cardinality(SUBSET (1..(n + 1))) = 2^(n + 1)
  BY PowerCounts
<1>7. Cardinality(A \cap C) = 0
  BY <1>4, FS_EmptySet
<1>8. Cardinality(A \cup C) = 2^(n + 1)
  BY <1>3, <1>6
<1> HIDE DEF A, C
<1>9. QED
  BY <1>1, <1>2, <1>5, <1>7, <1>8

LEMMA PowerZero == 2^0 = 1
<1>1. SUBSET (1..0) = {{}}
  OBVIOUS
<1>2. Cardinality({{}}) = 1
  BY FS_Singleton
<1>3. Cardinality(SUBSET (1..0)) = 2^0
  BY PowerCounts
<1>4. QED
  BY <1>1, <1>2, <1>3

\* The larger of two powers of two is a multiple of the smaller.
LEMMA PowerDivides ==
  ASSUME NEW m \in Nat, NEW n \in Nat
  PROVE  \E q \in Nat : 2^(m + n) = q * 2^m
<1> DEFINE Multiple(k) == \E q \in Nat : 2^(m + k) = q * 2^m
           S == {k \in Nat : Multiple(k)}
<1>1. 2^m \in Nat
  BY PowerCounts
<1>2. 0 \in S
  <2>1. 2^(m + 0) = 1 * 2^m
    <3>1. m + 0 = m
      OBVIOUS
    <3>2. 1 * 2^m = 2^m
      BY <1>1
    <3>3. QED
      BY <3>1, <3>2
  <2>2. QED
    BY <2>1
<1>3. ASSUME NEW k \in S PROVE k + 1 \in S
  <2>1. PICK q \in Nat : 2^(m + k) = q * 2^m
    OBVIOUS
  <2>2. 2^(m + (k + 1)) = 2^(m + k) + 2^(m + k)
    <3>1. m + k \in Nat /\ m + (k + 1) = (m + k) + 1
      OBVIOUS
    <3>2. QED
      BY <3>1, PowerDoubles
  <2>3. (q + q) * 2^m = q * 2^m + q * 2^m /\ q + q \in Nat
    BY <1>1
  <2>4. 2^(m + (k + 1)) = (q + q) * 2^m
    BY <2>1, <2>2, <2>3
  <2>5. Multiple(k + 1)
    <3> DEFINE p == q + q
    <3>1. p \in Nat /\ 2^(m + (k + 1)) = p * 2^m
      BY <2>3, <2>4
    <3> HIDE DEF p
    <3>2. QED
      BY <3>1
  <2>6. k + 1 \in Nat
    OBVIOUS
  <2> HIDE DEF Multiple
  <2>7. QED
    BY <2>5, <2>6
<1> HIDE DEF Multiple
<1>4. S = Nat
  <2>1. S \in SUBSET Nat
    OBVIOUS
  <2> HIDE DEF S
  <2>2. QED
    BY <1>2, <1>3, <2>1, Induction
<1>5. Multiple(n)
  BY <1>4
<1>6. QED
  BY <1>5 DEF Multiple

-----------------------------------------------------------------------------
(* The addresses of a range                                                *)

Block(bits) == 2^(Width - bits)

\* A range is a block of addresses that begins at a multiple of its size.
LEMMA BlockFits ==
  ASSUME NEW addr \in Addresses, NEW bits \in 0..Width
  PROVE  /\ Block(bits) \in Nat \ {0} /\ Masked(addr, bits) \in Nat
         /\ Masked(addr, bits) = Block(bits) * (addr \div Block(bits))
         /\ Masked(addr, bits) + Block(bits) <= 2^Width
         /\ Block(bits) > 2 <=> SkipsEnds(bits)
<1> DEFINE B == Block(bits)
           q == addr \div B
<1>1. Width \in Nat /\ Width - bits \in Nat /\ 2^Width \in Nat \ {0}
  <2>1. Width \in Nat /\ Width - bits \in Nat
    BY WidthAssumption
  <2>2. \A n \in Nat : 2^n \in Nat \ {0}
    BY PowerCounts
  <2>3. QED
    BY <2>1, <2>2
<1>2. B \in Nat \ {0} /\ addr \in Nat /\ addr <= 2^Width - 1
  <2>1. 2^(Width - bits) \in Nat \ {0}
    BY <1>1, PowerCounts
  <2>2. QED
    BY <1>1, <2>1 DEF Block, Addresses
<1>3. PICK p \in Nat : 2^Width = p * B
  <2>1. bits \in Nat /\ (Width - bits) + bits = Width
    BY <1>1
  <2>2. \E p \in Nat : 2^((Width - bits) + bits) = p * 2^(Width - bits)
    BY <1>1, <2>1, PowerDivides
  <2>3. QED
    BY <2>1, <2>2 DEF Block
<1>4. Masked(addr, bits) = addr - (addr % B)
  BY DEF Masked, Block
<1>5. B > 2 <=> SkipsEnds(bits)
  <2> DEFINE k == Width - bits
  <2>1. k \in Nat /\ B = 2^k /\ (SkipsEnds(bits) <=> k > 1)
    BY <1>1 DEF Block, SkipsEnds
  <2> HIDE DEF k, B
  <2>2. 2^0 = 1 /\ 2^1 = 2
    <3>1. 0 + 1 = 1 /\ 0 \in Nat
      OBVIOUS
    <3>2. 2^(0 + 1) = 2^0 + 2^0
      BY ONLY <3>1, PowerDoubles
    <3>3. QED
      BY <3>1, <3>2, PowerZero
  <2>3. k > 1 => 2^k > 2
    <3> SUFFICES ASSUME k > 1 PROVE 2^k > 2
      OBVIOUS
    <3> DEFINE j == k - 1
               i == j - 1
    <3>1. j \in Nat /\ i \in Nat /\ j + 1 = k /\ i + 1 = j
      BY <2>1
    <3> HIDE DEF j, i
    <3>2. 2^(j + 1) = 2^j + 2^j /\ 2^(i + 1) = 2^i + 2^i /\ 2^i \in Nat \ {0}
      BY <3>1, PowerDoubles, PowerCounts
    <3>3. QED
      BY <3>1, <3>2
  <2>4. ~(k > 1) => ~(2^k > 2)
    <3>1. ~(k > 1) => k = 0 \/ k = 1
      BY <2>1
    <3>2. k = 0 => 2^k = 1
      BY ONLY PowerZero, Zenon
    <3>3. k = 1 => 2^k = 2
      BY ONLY <2>2, Zenon
    <3>4. QED
      BY <3>1, <3>2, <3>3
  <2>5. 2^k > 2 <=> k > 1
    BY <2>3, <2>4
  <2>6. B > 2 <=> 2^k > 2
    BY ONLY <2>1
  <2>7. SkipsEnds(bits) <=> k > 1
    BY ONLY <2>1
  <2>8. QED
    BY ONLY <2>5, <2>6, <2>7
<1> HIDE DEF B
<1>6. q \in Nat /\ addr = B * q + (addr % B) /\ addr % B \in 0..(B - 1)
  BY <1>2
<1> HIDE DEF q
<1>7. B * q \in Nat /\ Masked(addr, bits) = B * q
  BY <1>2, <1>4, <1>6
<1>8. B * q + B <= 2^Width
  <2>1. CASE q >= p
    <3>1. B * q >= p * B
      BY <1>2, <1>6, <2>1
    <3>2. QED
      BY <1>1, <1>2, <1>3, <1>6, <1>7, <3>1
  <2>2. CASE q < p
    <3>1. q + 1 <= p /\ B * (q + 1) = B * q + B
      BY <1>2, <1>6, <2>2
    <3>2. B * (q + 1) <= p * B
      BY <1>2, <1>6, <3>1
    <3>3. QED
      BY <1>3, <3>1, <3>2
  <2>3. QED
    BY <1>6, <2>1, <2>2
<1>9. QED
  BY <1>2, <1>5, <1>6, <1>7, <1>8 DEF B, q

\* The addresses that share a prefix, and those of them that are hosts.
LEMMA UsableIs ==
  ASSUME NEW addr \in Addresses, NEW bits \in 0..Width
  PROVE  LET start == Masked(addr, bits)
             size  == Block(bits)
         IN  Usable(addr, bits) = IF SkipsEnds(bits) THEN (start + 1)..(start + size - 2)
                                                     ELSE start..(start + size - 1)
<1> DEFINE start == Masked(addr, bits)
           size  == Block(bits)
           q     == addr \div size
           net   == {a \in Addresses : a \div size = q}
           inner == {a \in net : \E b, c \in net : b < a /\ a < c}
<1>1. /\ size \in Nat \ {0} /\ start \in Nat /\ start = size * q
      /\ start + size <= 2^Width /\ (size > 2 <=> SkipsEnds(bits)) /\ 2^Width \in Nat
  <2>1. 2^Width \in Nat
    <3>1. \A n \in Nat : 2^n \in Nat \ {0}
      BY PowerCounts
    <3>2. QED
      BY <3>1, WidthAssumption
  <2>2. QED
    BY <2>1, BlockFits
<1>2. Usable(addr, bits) = IF Cardinality(net) > 2 THEN inner ELSE net
  BY DEF Usable, Block
<1>3. q \in Nat
  BY <1>1 DEF Addresses
<1> HIDE DEF start, size, q
<1>4. net = start..(start + size - 1)
  <2>1. ASSUME NEW a \in Addresses PROVE a \div size = q <=> start <= a /\ a < start + size
    <3>1. a \in Nat
      BY <1>1 DEF Addresses
    <3>2. a \div size = q <=> size * q <= a /\ a < size * q + size
      BY <1>1, <1>3, <3>1
    <3>3. QED
      BY <1>1, <3>2
  <2>2. \A a \in start..(start + size - 1) : a \in Addresses
    BY <1>1 DEF Addresses
  <2>3. \A a \in Addresses : a \in Nat
    BY <1>1 DEF Addresses
  <2>4. QED
    BY <1>1, <2>1, <2>2, <2>3
<1>5. Cardinality(net) = size
  <2>1. start \in Int /\ start + size - 1 \in Int /\ ~(start > start + size - 1)
        /\ (start + size - 1) - start + 1 = size
    BY <1>1
  <2>2. QED
    BY <1>4, <2>1, FS_Interval
<1>6. ASSUME size > 2 PROVE inner = (start + 1)..(start + size - 2)
  <2>1. start \in net /\ start + size - 1 \in net
    BY <1>1, <1>4
  <2>2. ASSUME NEW a \in (start + 1)..(start + size - 2) PROVE a \in inner
    <3>1. start < a /\ a < start + size - 1 /\ a \in net
      BY <1>1, <1>4
    <3>2. QED
      BY <2>1, <3>1
  <2>3. ASSUME NEW a \in inner PROVE a \in (start + 1)..(start + size - 2)
    BY <1>1, <1>4
  <2>4. QED
    BY <2>2, <2>3
<1>7. CASE size > 2
  <2>1. Usable(addr, bits) = (start + 1)..(start + size - 2) /\ SkipsEnds(bits)
    BY <1>1, <1>2, <1>5, <1>6, <1>7
  <2>2. QED
    BY <2>1 DEF start, size
<1>8. CASE ~(size > 2)
  <2>1. Usable(addr, bits) = start..(start + size - 1) /\ ~SkipsEnds(bits)
    BY <1>1, <1>2, <1>4, <1>5, <1>8
  <2>2. QED
    BY <2>1 DEF start, size
<1>9. QED
  BY <1>7, <1>8

\* The hosts that are listed: a stretch of the usable ones from the first of them.
LEMMA ListIs ==
  ASSUME NEW addr \in Addresses, NEW bits \in 0..Width, NEW max \in Nat \ {0}
  PROVE  LET r == ExpandCIDRHosts(addr, bits, max) IN
         \E first \in Nat, count \in Nat \ {0} :
           /\ Usable(addr, bits) = first..(first + count - 1)
           /\ Len(r.hosts) = (IF count > max THEN max ELSE count)
           /\ r.hosts \in Seq(Nat) /\ \A i \in 1..Len(r.hosts) : r.hosts[i] = first + i - 1
           /\ r.truncated <=> count > max
<1> DEFINE start == Masked(addr, bits)
           size  == Block(bits)
           first == IF SkipsEnds(bits) THEN start + 1 ELSE start
           count == IF SkipsEnds(bits) THEN size - 2 ELSE size
           limit == IF count > max THEN max ELSE count
           r     == ExpandCIDRHosts(addr, bits, max)
<1>1. /\ size \in Nat \ {0} /\ start \in Nat /\ start + size <= 2^Width
      /\ (size > 2 <=> SkipsEnds(bits)) /\ 2^Width \in Nat \ {0}
  <2>1. 2^Width \in Nat \ {0}
    <3>1. \A n \in Nat : 2^n \in Nat \ {0}
      BY PowerCounts
    <3>2. QED
      BY <3>1, WidthAssumption
  <2>2. QED
    BY <2>1, BlockFits
<1>2. r = [hosts |-> [i \in 1..limit |-> (first + i - 1) % 2^Width], truncated |-> count > max]
  BY DEF ExpandCIDRHosts, Block
<1>3. Usable(addr, bits) = IF SkipsEnds(bits) THEN (start + 1)..(start + size - 2)
                                              ELSE start..(start + size - 1)
  BY UsableIs
<1> HIDE DEF start, size
<1>4. first \in Nat /\ count \in Nat \ {0} /\ first + count <= 2^Width
  BY <1>1
<1>5. Usable(addr, bits) = first..(first + count - 1)
  <2>1. CASE SkipsEnds(bits)
    <3>1. start + size - 2 = first + count - 1
      BY <1>1, <2>1
    <3>2. QED
      BY <1>3, <2>1, <3>1
  <2>2. CASE ~SkipsEnds(bits)
    BY <1>3, <2>2
  <2>3. QED
    BY <2>1, <2>2
<1> HIDE DEF first, count
<1>6. limit \in Nat /\ limit <= count
  BY <1>4
<1>7. ASSUME NEW i \in 1..limit PROVE (first + i - 1) % 2^Width = first + i - 1 /\ first + i - 1 \in Nat
  <2> DEFINE M == 2^Width
             a == first + i - 1
  <2>1. M \in Nat \ {0} /\ a \in 0..(M - 1)
    BY <1>1, <1>4, <1>6
  <2> HIDE DEF M, a
  <2>2. a % M = a
    BY <2>1
  <2>3. a \in Nat
    BY <2>1
  <2>4. QED
    BY <2>2, <2>3 DEF M, a
<1> DEFINE hosts == [i \in 1..limit |-> (first + i - 1) % 2^Width]
           more  == count > max
<1>8. r.hosts = hosts /\ r.truncated = more
  <2>1. r = [hosts |-> hosts, truncated |-> more]
    BY <1>2
  <2> HIDE DEF r, hosts, more
  <2>2. QED
    BY <2>1
<1> HIDE DEF limit
<1>9. \A i \in 1..limit : hosts[i] = first + i - 1 /\ hosts[i] \in Nat
  BY <1>7
<1>10. Len(hosts) = limit /\ hosts \in Seq(Nat)
  <2>1. DOMAIN hosts = 1..limit /\ hosts = [i \in 1..limit |-> hosts[i]]
    OBVIOUS
  <2> HIDE DEF hosts
  <2>2. QED
    BY <1>6, <1>9, <2>1
<1> HIDE DEF hosts, r
<1>11. /\ Len(r.hosts) = limit /\ r.hosts \in Seq(Nat) /\ (r.truncated <=> count > max)
       /\ \A i \in 1..limit : r.hosts[i] = first + i - 1
  BY <1>8, <1>9, <1>10
<1>12. QED
  BY <1>4, <1>5, <1>11 DEF r, limit
-----------------------------------------------------------------------------
(* One mode                                                                *)

Steps == {"probe", "suite", "login", "info", "script", "interactive", "logout"}

\* What belongs to a connection.
Connected == {"login", "info", "script", "interactive", "logout"}

Untouched == did = <<>> /\ report = NoReport /\ session = "none"

\* What has been done by the time main stands at pc.
PlaceInv ==
  /\ pc \in {"parse", "check"} \cup Modes \cup {"probe", "login"} => Untouched
  /\ pc \in Modes => pc = Mode /\ ~Refused
  /\ pc = "probe" => Mode = "scan" /\ ~Refused
  /\ pc = "login" => Mode = "connect"
  /\ pc \in {"info", "script", "interactive", "logout"} =>
       /\ Mode = "connect" /\ report = NoReport /\ ToSet(did) \subseteq Connected
       /\ session = "open" => loggedIn \/ unanswered
  /\ exit # -1 => pc = "exited"

\* What was done tells the mode, and the mode what was asked for.
DoneInv ==
  /\ did \in Seq(Steps)
  /\ Did("suite") => Mode = "suite" /\ ~Refused
  /\ Did("probe") => Mode = "scan" /\ ~Refused
  /\ Did("login") => Mode = "connect"
  /\ report.kind \in {"decode", "diff", "infer"} => did = <<>>
  /\ exit = 2 => did = <<>> /\ report = NoReport
  /\ exit = 0 /\ session = "open" => unanswered

EntryInv == PlaceInv /\ DoneInv
-----------------------------------------------------------------------------
LEMMA DoneGrows ==
  ASSUME NEW s \in Seq(Steps), NEW x \in Steps
  PROVE  Append(s, x) \in Seq(Steps) /\ ToSet(Append(s, x)) = ToSet(s) \cup {x}
<1>1. /\ Append(s, x) \in Seq(Steps) /\ Len(Append(s, x)) = Len(s) + 1 /\ Len(s) \in Nat
      /\ \A k \in 1..Len(s) : Append(s, x)[k] = s[k]
      /\ Append(s, x)[Len(s) + 1] = x
  OBVIOUS
<1>2. ToSet(s) = {s[k] : k \in 1..Len(s)}
  BY DEF ToSet
<1>3. ToSet(Append(s, x)) = {Append(s, x)[k] : k \in 1..(Len(s) + 1)}
  BY <1>1 DEF ToSet
<1>4. 1..(Len(s) + 1) = 1..Len(s) \cup {Len(s) + 1}
  BY <1>1
<1>5. QED
  BY <1>1, <1>2, <1>3, <1>4

LEMMA NothingDone == <<>> \in Seq(Steps) /\ ToSet(<<>>) = {}
  BY DEF ToSet

\* Which flags a mode comes with.
LEMMA ModeAsked ==
  /\ Mode = "suite" /\ ~Refused =>
       given.flags \cap ModeFlags = {"suite-plan"} /\ ~given.host /\ ~Given("config-file")
  /\ Mode = "scan" /\ ~Refused =>
       given.flags \cap ModeFlags = {"scan-cidr"} /\ ~given.host /\ ~Given("config-file")
  /\ Mode = "connect" => given.flags \cap ModeFlags = {}
<1>1. ModeFlags = {"diff-backup-base", "diff-backup-candidate", "decode-backup", "scan-cidr",
                   "infer-backup-structure-dir", "suite-plan"}
  BY DEF ModeFlags, Reading, DiffFlags
<1>2. CASE Mode = "suite" /\ ~Refused
  <2>1. ~Hostful
    BY <1>2 DEF Refused
  <2>2. /\ ~Given("decode-backup") /\ given.flags \cap DiffFlags = {} /\ ~Given("scan-cidr")
        /\ ~Given("infer-backup-structure-dir") /\ Given("suite-plan")
    BY <1>2 DEF Mode
  <2>3. QED
    BY <1>1, <1>2, <2>1, <2>2 DEF Hostful, Given, DiffFlags
<1>3. CASE Mode = "scan" /\ ~Refused
  <2>1. ~Hostful /\ ~Both({"scan-cidr"}, {"suite-plan", "infer-backup-structure-dir"})
    BY <1>3 DEF Refused, Exclusive
  <2>2. ~Given("decode-backup") /\ given.flags \cap DiffFlags = {} /\ Given("scan-cidr")
    BY <1>3 DEF Mode
  <2>3. QED
    BY <1>1, <1>3, <2>1, <2>2 DEF Hostful, Both, Given, DiffFlags
<1>4. CASE Mode = "connect"
  <2>1. /\ ~Given("decode-backup") /\ given.flags \cap DiffFlags = {} /\ ~Given("scan-cidr")
        /\ ~Given("infer-backup-structure-dir") /\ ~Given("suite-plan")
    BY <1>4 DEF Mode
  <2>2. QED
    BY <1>1, <1>4, <2>1 DEF Given, DiffFlags
<1>5. QED
  BY <1>2, <1>3, <1>4
-----------------------------------------------------------------------------
LEMMA EntryInvInit == Init => EntryInv
  BY NothingDone DEF Init, EntryInv, PlaceInv, DoneInv, Untouched, Modes, NoReport, Did

\* Until main has chosen a mode nothing is done.
LEMMA ChoosingKeeps == ASSUME EntryInv, Parse \/ Check PROVE EntryInv'
<1>2. Untouched /\ Untouched'
  BY DEF EntryInv, PlaceInv, Parse, Check, Untouched, client
<1>3. DoneInv'
  BY <1>2, NothingDone DEF DoneInv, Untouched, Did, NoReport
<1>4. CASE Parse
  <2>1. pc' \in {"exited", "check"} /\ (exit' # -1 => pc' = "exited")
    BY <1>4 DEF Parse, Exit, Goto, EntryInv, PlaceInv
  <2>2. QED
    BY <1>2, <1>3, <2>1 DEF EntryInv, PlaceInv, Modes
<1>5. CASE Check
  <2>1. Mode' = Mode /\ Refused' = Refused
    BY <1>5 DEF Check, Mode, Refused, Exclusive, Both, Hostful, Given
  <2>2. CASE Refused
    <3>1. pc' = "exited"
      BY <1>5, <2>2 DEF Check, Exit
    <3>2. QED
      BY <1>2, <1>3, <3>1 DEF EntryInv, PlaceInv, Modes
  <2>3. CASE ~Refused
    <3>1. pc' = Mode /\ exit' = exit /\ pc = "check"
      BY <1>5, <2>3 DEF Check, Goto
    <3>2. Mode \in Modes
      BY DEF Mode, Modes
    <3>3. exit = -1
      BY <3>1 DEF EntryInv, PlaceInv
    <3>4. QED
      BY <1>2, <1>3, <2>1, <2>3, <3>1, <3>2, <3>3 DEF EntryInv, PlaceInv, Modes
  <2>4. QED
    BY <2>2, <2>3
<1>6. QED
  BY <1>4, <1>5

\* The offline modes do nothing on the network; a scan or a suite is all that is done.
LEMMA WorkKeeps ==
  ASSUME EntryInv, Decode \/ Diff \/ Infer \/ Scan \/ Probe \/ Suite
  PROVE  EntryInv'
<1>1. Mode' = Mode /\ Refused' = Refused
  BY DEF Decode, Diff, Infer, Scan, Probe, Suite, Mode, Refused, Exclusive, Both, Hostful, Given
<1>2. Untouched /\ (pc \in Modes => pc = Mode /\ ~Refused) /\ (pc = "probe" => Mode = "scan" /\ ~Refused)
  BY DEF EntryInv, PlaceInv, Decode, Diff, Infer, Scan, Probe, Suite, Modes
<1>3. CASE Decode \/ Diff \/ Infer
  <2>1. did' = <<>> /\ session' = "none" /\ pc' = "exited" /\ exit' \in {0, 1}
    BY <1>2, <1>3 DEF Decode, Diff, Infer, Exit, Shown, Untouched, client
  <2>2. PlaceInv'
    BY <2>1 DEF PlaceInv, Modes
  <2>3. DoneInv'
    BY <2>1, NothingDone DEF DoneInv, Did
  <2>4. QED
    BY <2>2, <2>3 DEF EntryInv
<1>4. CASE Scan
  <2>1. /\ pc = "scan" /\ Untouched' /\ Mode = "scan" /\ ~Refused
        /\ \/ pc' = "probe" /\ exit' = exit
           \/ pc' = "exited" /\ exit' = 2
    BY <1>2, <1>4 DEF Scan, Resolve, Goto, Exit, Untouched, Modes, client
  <2>2. PlaceInv'
    BY <1>1, <2>1 DEF EntryInv, PlaceInv, Modes
  <2>3. DoneInv'
    BY <2>1, NothingDone DEF DoneInv, Did, Untouched, NoReport
  <2>4. QED
    BY <2>2, <2>3 DEF EntryInv
<1>5. CASE Probe
  <2>1. pc' = "exited" /\ Mode = "scan" /\ ~Refused /\ session' = "none"
    BY <1>2, <1>5 DEF Probe, Exit, Shown, Untouched, client
  <2>2. \/ did' = <<>> /\ report' = NoReport /\ exit' = 2
        \/ did' = <<"probe">> /\ report'.kind = "scan" /\ exit' = 0
    BY <1>2, <1>5, <2>1 DEF Probe, Exit, Shown, Untouched
  <2>3. <<"probe">> \in Seq(Steps) /\ ToSet(<<"probe">>) = {"probe"}
    BY NothingDone, DoneGrows DEF ToSet, Steps
  <2>4. PlaceInv'
    BY <2>1 DEF PlaceInv, Modes
  <2>5. DoneInv'
    <3>1. CASE did' = <<>> /\ report' = NoReport /\ exit' = 2
      BY <2>1, <3>1, NothingDone DEF DoneInv, Did, NoReport
    <3>2. CASE did' = <<"probe">> /\ report'.kind = "scan" /\ exit' = 0
      BY <1>1, <2>1, <2>3, <3>2 DEF DoneInv, Did
    <3>3. QED
      BY <2>2, <3>1, <3>2
  <2>6. QED
    BY <2>4, <2>5 DEF EntryInv
<1>6. CASE Suite
  <2>1. /\ pc' = "exited" /\ Mode = "suite" /\ ~Refused /\ session' = "none" /\ did' = <<"suite">>
        /\ report' = NoReport /\ exit' \in {0, 1}
    BY <1>2, <1>6 DEF Suite, Exit, Untouched, Modes, client
  <2>2. <<"suite">> \in Seq(Steps) /\ ToSet(<<"suite">>) = {"suite"}
    BY NothingDone, DoneGrows DEF ToSet, Steps
  <2>3. PlaceInv'
    BY <2>1 DEF PlaceInv, Modes
  <2>4. DoneInv'
    BY <1>1, <2>1, <2>2 DEF DoneInv, Did, NoReport
  <2>5. QED
    BY <2>3, <2>4 DEF EntryInv
<1>7. QED
  BY <1>3, <1>4, <1>5, <1>6

\* While main talks to the switch, the Client knows of an open session or has missed an
\* answer.
LEMMA ClientKnows ==
  ASSUME EntryInv, Connect \/ Login \/ GetSystemInfo \/ Request \/ Script \/ Interact \/ Logout,
         pc' \in {"info", "script", "interactive", "logout"}, session' = "open"
  PROVE  loggedIn' \/ unanswered'
<1> DEFINE Knows == session = "open" => loggedIn \/ unanswered
<1>1. CASE Login
  BY <1>1 DEF Login, SignedIn, Exit
<1>2. ASSUME pc \in {"info", "script", "interactive", "logout"} PROVE Knows
  BY <1>2 DEF EntryInv, PlaceInv
<1>3. CASE GetSystemInfo
  BY <1>2, <1>3 DEF GetSystemInfo, SignedIn, Exit, client
<1>4. CASE Request
  BY <1>2, <1>4 DEF Request, SignedIn, SignedInByCookie, SignInFails
<1>5. CASE Script \/ Interact
  BY <1>2, <1>5 DEF Script, Interact, client
<1>6. CASE Connect \/ Logout
  BY <1>6 DEF Connect, Logout, Resolve, Goto, Exit
<1>7. QED
  BY <1>1, <1>3, <1>4, <1>5, <1>6

\* A connection does what belongs to it, and logs out before it succeeds.
LEMMA ConnectionKeeps ==
  ASSUME EntryInv, Connect \/ Login \/ GetSystemInfo \/ Request \/ Script \/ Interact \/ Logout
  PROVE  EntryInv'
<1>1. Mode' = Mode /\ Refused' = Refused /\ report' = report
  BY DEF Connect, Login, GetSystemInfo, Request, Script, Interact, Logout, Mode, Refused, Exclusive, Both,
         Hostful, Given
<1>2. /\ Mode = "connect" /\ report = NoReport /\ exit = -1
      /\ did \in Seq(Steps) /\ ToSet(did) \subseteq Connected
  BY NothingDone
  DEF EntryInv, PlaceInv, DoneInv, Untouched, Connect, Login, GetSystemInfo, Request, Script, Interact,
      Logout, Modes
<1>3. ASSUME NEW x \in Connected, did' = Append(did, x)
      PROVE  did' \in Seq(Steps) /\ ToSet(did') \subseteq Connected
  <2>1. x \in Steps
    BY DEF Connected, Steps
  <2>2. QED
    BY <1>2, <1>3, <2>1, DoneGrows
<1>4. did' \in Seq(Steps) /\ ToSet(did') \subseteq Connected
  <2>1. did' = did \/ \E x \in Connected : did' = Append(did, x)
    BY DEF Connect, Login, GetSystemInfo, Request, Script, Interact, Logout, Connected
  <2>2. QED
    BY <1>2, <1>3, <2>1
<1>5. \/ pc = "connect" /\ pc' = "login" /\ exit' = exit /\ UNCHANGED <<did, client, report>>
      \/ pc = "connect" /\ pc' = "exited" /\ exit' = 2 /\ UNCHANGED <<did, client, report>>
      \/ pc' \in {"info", "script", "interactive", "logout"} /\ exit' = exit
      \/ pc' = "exited" /\ exit' = 1
      \/ pc' = "exited" /\ exit' = 0 /\ Logout
  BY DEF Connect, Login, GetSystemInfo, Request, Script, Interact, Logout, Resolve, Goto, Exit
<1>6. pc = "connect" => Untouched
  BY DEF EntryInv, PlaceInv, Modes
<1>14. pc' \in {"info", "script", "interactive", "logout"} =>
         (session' = "open" => loggedIn' \/ unanswered')
  BY ClientKnows
<1>7. PlaceInv'
  BY <1>1, <1>2, <1>4, <1>5, <1>6, <1>14 DEF PlaceInv, Modes, Untouched, client
<1>8. ~Did("suite")' /\ ~Did("probe")'
  BY <1>4 DEF Did, Connected
<1>9. exit' = 2 => did' = <<>> /\ report' = NoReport
  BY <1>2, <1>5, <1>6 DEF Untouched
<1>10. report'.kind = "none"
  BY <1>1, <1>2 DEF NoReport
<1>11. exit' = 0 /\ session' = "open" => unanswered'
  BY <1>2, <1>5 DEF EntryInv, PlaceInv, Logout
<1>12. DoneInv'
  BY <1>1, <1>2, <1>4, <1>8, <1>9, <1>10, <1>11 DEF DoneInv
<1>13. QED
  BY <1>7, <1>12 DEF EntryInv

LEMMA EntryInvStep == EntryInv /\ [Next]_vars => EntryInv'
<1> SUFFICES ASSUME EntryInv, [Next]_vars PROVE EntryInv'
  OBVIOUS
<1>1. CASE UNCHANGED vars
  BY <1>1
  DEF vars, client, EntryInv, PlaceInv, DoneInv, Untouched, Did, Mode, Refused, Exclusive, Both, Hostful, Given
<1>2. CASE Next
  BY <1>2, ChoosingKeeps, WorkKeeps, ConnectionKeeps DEF Next
<1>3. QED
  BY <1>1, <1>2

LEMMA EntryInvHolds == Spec => []EntryInv
<1>1. EntryInv /\ [Next]_vars => EntryInv'
  BY EntryInvStep
<1>2. QED
  BY <1>1, EntryInvInit, PTL DEF Spec

\* One mode runs, the one that was asked for, for command lines of any length; misuse
\* touches and prints nothing (main's chain of tests and modes).
THEOREM OneModeRuns == Spec => []OneModeOnly
<1>1. EntryInv => OneModeOnly
  BY ModeAsked DEF EntryInv, DoneInv, OneModeOnly
<1>2. QED
  BY <1>1, EntryInvHolds, PTL

\* A run that exits with 0 leaves no session behind (main's deferred Logout) unless a
\* login, Logout.htm or dropped write got no answer: a Client whose loggedIn is false, and
\* which therefore sends no Logout.htm, has otherwise no session.
THEOREM SuccessLogsOut == Spec => []LoggedOutOnSuccess
<1>1. EntryInv => LoggedOutOnSuccess
  BY DEF EntryInv, DoneInv, LoggedOutOnSuccess
<1>2. QED
  BY <1>1, EntryInvHolds, PTL
-----------------------------------------------------------------------------
(* The hosts of a scan                                                     *)

\* What the report says of a list of hosts.
Accounts(hosts, truncated, max, usable) ==
  /\ ToSet(hosts) \subseteq usable
  /\ \A k \in DOMAIN hosts : k > 1 => hosts[k] = hosts[k - 1] + 1
  /\ \A a \in usable \ ToSet(hosts) : truncated /\ hosts[1] < a
  /\ truncated => Len(hosts) = max /\ Cardinality(usable) > Len(hosts)

LEMMA StretchAccounts ==
  ASSUME NEW first \in Nat, NEW count \in Nat \ {0}, NEW max \in Nat \ {0}, NEW hosts \in Seq(Nat),
         NEW truncated, truncated <=> count > max, NEW usable, usable = first..(first + count - 1),
         Len(hosts) = (IF count > max THEN max ELSE count),
         \A i \in 1..Len(hosts) : hosts[i] = first + i - 1
  PROVE  Accounts(hosts, truncated, max, usable)
<1> DEFINE n == Len(hosts)
<1>1. n \in Nat \ {0} /\ n <= count /\ DOMAIN hosts = 1..n
  OBVIOUS
<1>2. ToSet(hosts) = {hosts[i] : i \in 1..n}
  BY <1>1 DEF ToSet
<1> HIDE DEF n
<1>3. ToSet(hosts) = first..(first + n - 1)
  <2>1. ASSUME NEW a \in first..(first + n - 1) PROVE a \in ToSet(hosts)
    <3>1. (a - first) + 1 \in 1..n /\ first + ((a - first) + 1) - 1 = a
      BY <1>1
    <3>2. hosts[(a - first) + 1] = a
      BY <3>1 DEF n
    <3>3. QED
      BY <1>2, <3>1, <3>2
  <2>2. ASSUME NEW i \in 1..n PROVE hosts[i] \in first..(first + n - 1)
    <3>1. hosts[i] = first + i - 1
      BY DEF n
    <3>2. QED
      BY <1>1, <3>1
  <2>3. QED
    BY <1>2, <2>1, <2>2
<1>4. ToSet(hosts) \subseteq usable
  BY <1>1, <1>3
<1>5. \A k \in DOMAIN hosts : k > 1 => hosts[k] = hosts[k - 1] + 1
  <2> SUFFICES ASSUME NEW k \in 1..n, k > 1 PROVE hosts[k] = hosts[k - 1] + 1
    BY <1>1
  <2>1. k - 1 \in 1..n
    BY <1>1
  <2>2. hosts[k] = first + k - 1 /\ hosts[k - 1] = first + (k - 1) - 1
    BY <2>1 DEF n
  <2>3. QED
    BY <1>1, <2>2
<1>6. hosts[1] = first
  BY <1>1 DEF n
<1>7. \A a \in usable \ ToSet(hosts) : truncated /\ hosts[1] < a
  <2> SUFFICES ASSUME NEW a \in first..(first + count - 1), a \notin first..(first + n - 1)
               PROVE  truncated /\ first < a
    BY <1>3, <1>6
  <2>1. a > first + n - 1
    BY <1>1
  <2>2. n # count
    BY <1>1, <2>1
  <2>3. QED
    BY <1>1, <2>1, <2>2 DEF n
<1>8. Cardinality(usable) = count
  <2>1. first \in Int /\ first + count - 1 \in Int /\ ~(first > first + count - 1)
        /\ (first + count - 1) - first + 1 = count
    OBVIOUS
  <2>2. QED
    BY <2>1, FS_Interval
<1>9. truncated => Len(hosts) = max /\ Cardinality(usable) > Len(hosts)
  BY <1>8
<1>10. QED
  BY <1>4, <1>5, <1>7, <1>9 DEF Accounts

LEMMA ListAccounts ==
  ASSUME NEW addr \in Addresses, NEW bits \in 0..Width, NEW max \in Nat \ {0}
  PROVE  LET r == ExpandCIDRHosts(addr, bits, max)
         IN  Accounts(r.hosts, r.truncated, max, Usable(addr, bits))
<1> DEFINE r == ExpandCIDRHosts(addr, bits, max)
<1>1. PICK first \in Nat, count \in Nat \ {0} :
        /\ Usable(addr, bits) = first..(first + count - 1)
        /\ Len(r.hosts) = (IF count > max THEN max ELSE count)
        /\ r.hosts \in Seq(Nat) /\ \A i \in 1..Len(r.hosts) : r.hosts[i] = first + i - 1
        /\ r.truncated <=> count > max
  BY ListIs
<1> HIDE DEF r
<1>2. QED
  BY <1>1, StretchAccounts DEF r

\* What the offline modes print.
LEMMA OfflineReports ==
  ASSUME Decode \/ Diff \/ Infer
  PROVE  report' = report \/ report'.kind \in {"decode", "diff", "infer"}
<1>1. CASE Decode
  <2>1. report' = report \/ \E x, y : report' = [kind |-> "decode", of |-> x, fields |-> y]
    BY <1>1, Zenon DEF Decode, Shown
  <2>2. QED
    BY <2>1
<1>2. CASE Diff
  <2>1. report' = report \/ \E x, y : report' = [kind |-> "diff", of |-> x, result |-> y]
    BY <1>2, Zenon DEF Diff, Shown
  <2>2. QED
    BY <2>1
<1>3. CASE Infer
  <2>1. report' = report \/ \E x, y, z : report' = [kind |-> "infer", of |-> x, samples |-> y, result |-> z]
    BY <1>3, Zenon DEF Infer, Shown
  <2>2. QED
    BY <2>1
<1>4. QED
  BY <1>1, <1>2, <1>3

LEMMA HostsStep ==
  ASSUME HostsProbed, [Next]_vars
  PROVE  HostsProbed'
<1>1. CASE Probe
  <2>1. \/ report' = report
        \/ \E r \in Ranges :
             /\ r.valid
             /\ report' = [kind |-> "scan", of |-> r, result |-> ExpandCIDRHosts(r.addr, r.bits, r.max)]
    BY <1>1 DEF Probe, Shown
  <2>2. ASSUME NEW r \in Ranges, r.valid,
               report' = [kind |-> "scan", of |-> r, result |-> ExpandCIDRHosts(r.addr, r.bits, r.max)]
        PROVE  HostsProbed'
    <3> DEFINE x == ExpandCIDRHosts(r.addr, r.bits, r.max)
    <3>1. Accounts(x.hosts, x.truncated, r.max, Usable(r.addr, r.bits))
      BY <2>2, RangesAssumption, ListAccounts
    <3> HIDE DEF x
    <3>2. report'.result = x /\ report'.of = r
      BY <2>2 DEF x
    <3>3. QED
      BY <3>1, <3>2 DEF HostsProbed, Accounts
  <2>3. QED
    BY <2>1, <2>2 DEF HostsProbed
<1>2. CASE Decode \/ Diff \/ Infer
  <2>1. report' = report \/ report'.kind \in {"decode", "diff", "infer"}
    BY <1>2, OfflineReports
  <2>2. QED
    BY <2>1 DEF HostsProbed
<1>3. CASE \/ Parse \/ Check \/ Scan \/ Suite \/ Connect \/ Login \/ GetSystemInfo \/ Request \/ Script
           \/ Interact \/ Logout \/ UNCHANGED vars
  <2>1. report' = report
    BY <1>3 DEF Parse, Check, Scan, Suite, Connect, Login, GetSystemInfo, Request, Script, Interact, Logout, vars
  <2>2. QED
    BY <2>1 DEF HostsProbed
<1>4. QED
  BY <1>1, <1>2, <1>3 DEF Next

\* For any range of IPv4 addresses and any maximum, a scan probes the usable hosts in
\* ascending order up to the maximum, and says so when it left some out (ExpandCIDRHosts).
THEOREM ScanCovers == Spec => []HostsProbed
<1>1. Init => HostsProbed
  BY DEF Init, HostsProbed, NoReport
<1>2. QED
  BY <1>1, HostsStep, PTL DEF Spec
-----------------------------------------------------------------------------
(* Types                                                                   *)

\* Parsing stops at the first argument that is no flag.
LEMMA ParsedFlags ==
  ASSUME line \in Seq(Tokens)
  PROVE  /\ Arguments \in Seq(Tokens) /\ Parsed \in Seq(Tokens) /\ Len(Parsed) <= Len(Arguments)
         /\ \A k \in DOMAIN Parsed : Parsed[k] # "positional"
<1> DEFINE S == {k \in 0..Len(Arguments) : \A j \in 1..k : Arguments[j] # "positional"}
           n == Longest(S)
<1>1. Arguments \in Seq(Tokens)
  <2>1. line # <<>> => Tail(line) \in Seq(Tokens)
    OBVIOUS
  <2>2. QED
    BY <2>1 DEF Arguments, Leads
<1>2. Len(Arguments) \in Nat
  BY <1>1
<1>3. n \in S
  <2>1. 0 \in S /\ S \in SUBSET (0..Len(Arguments))
    BY <1>2
  <2>2. IsFiniteSet(0..Len(Arguments))
    BY <1>2, FS_Interval
  <2>3. IsFiniteSet(S) /\ S \in SUBSET Nat
    BY <1>2, <2>1, <2>2, FS_Subset
  <2> HIDE DEF S
  <2>4. QED
    BY <2>1, <2>3, LongestIs
<1>4. Parsed = SubSeq(Arguments, 1, n)
  BY DEF Parsed
<1> HIDE DEF n
<1>5. n \in 0..Len(Arguments) /\ \A j \in 1..n : Arguments[j] # "positional"
  BY <1>3
<1>6. /\ Parsed \in Seq(Tokens) /\ Len(Parsed) = n
      /\ \A j \in 1..n : Parsed[j] = Arguments[j]
  BY <1>1, <1>2, <1>4, <1>5
<1>7. QED
  BY <1>1, <1>2, <1>5, <1>6

\* What flags a line gives.
LEMMA GivenTyped ==
  ASSUME line \in Seq(Tokens), {k \in DOMAIN Parsed : Stops(k)} = {}
  PROVE  ToSet(Parsed) \subseteq Flags /\ Leads \in BOOLEAN /\ Len(Arguments) - Len(Parsed) \in Nat
<1>1. /\ Arguments \in Seq(Tokens) /\ Parsed \in Seq(Tokens) /\ Len(Parsed) <= Len(Arguments)
      /\ \A k \in DOMAIN Parsed : Parsed[k] # "positional"
  BY ParsedFlags
<1>2. Len(Arguments) - Len(Parsed) \in Nat
  BY <1>1
<1>3. ToSet(Parsed) = {Parsed[k] : k \in DOMAIN Parsed}
  BY DEF ToSet
<1>4. ASSUME NEW k \in DOMAIN Parsed PROVE Parsed[k] \in Flags
  <2>1. Parsed[k] \in Tokens
    BY <1>1
  <2>2. Parsed[k] \notin {"unknown", "help"}
    BY DEF Stops
  <2>3. QED
    BY <1>1, <2>1, <2>2 DEF Tokens
<1>5. Leads \in BOOLEAN
  BY DEF Leads
<1>6. QED
  BY <1>2, <1>3, <1>4, <1>5

Places ==
  {"parse", "check", "probe", "login", "info", "script", "interactive", "logout", "exited"}
    \cup Modes

\* Where main goes next, and what it says of it.
LEMMA PlacesTyped ==
  ASSUME EntryInv, TypeOK, Next
  PROVE  /\ pc' \in Places /\ exit' \in {-1, 0, 1, 2} /\ (exit' # -1 <=> pc' = "exited")
         /\ session' \in {"none", "open", "closed"} /\ {loggedIn', unanswered'} \subseteq BOOLEAN
<1>1. exit = -1 \/ pc = "exited"
  BY DEF TypeOK
<1>2. pc # "exited"
  BY DEF Next, Parse, Check, Decode, Diff, Infer, Scan, Probe, Suite, Connect, Login,
         GetSystemInfo, Request, Script, Interact, Logout
<1>3. exit = -1
  BY <1>1, <1>2
<1>4. \/ pc' = "exited" /\ exit' \in {0, 1, 2}
      \/ pc' \in Places \ {"exited"} /\ exit' = exit
  <2>1. CASE Parse \/ Connect \/ Scan \/ Login \/ GetSystemInfo \/ Request \/ Script \/ Interact \/ Logout
    BY <2>1 DEF Parse, Connect, Scan, Login, GetSystemInfo, Request, Script, Interact, Logout, Exit, Goto,
                Resolve, Places
  <2>2. CASE Check
    <3>1. Mode \in Modes /\ "exited" \notin Modes
      BY DEF Mode, Modes
    <3>2. QED
      BY <2>2, <3>1 DEF Check, Exit, Goto, Places
  <2>3. CASE Decode \/ Diff \/ Infer \/ Probe \/ Suite
    BY <2>3, Zenon DEF Decode, Diff, Infer, Probe, Suite, Exit, Shown
  <2>4. QED
    BY <2>1, <2>2, <2>3 DEF Next
<1>5. /\ session' \in {"none", "open", "closed"}
      /\ loggedIn' \in BOOLEAN /\ unanswered' \in BOOLEAN
  <2>1. /\ session \in {"none", "open", "closed"}
        /\ loggedIn \in BOOLEAN /\ unanswered \in BOOLEAN
    BY DEF TypeOK
  <2>2. CASE Login \/ GetSystemInfo \/ Request \/ Logout
    BY <2>1, <2>2 DEF Login, GetSystemInfo, Request, Logout, SignedIn, SignedInByCookie,
       SignInFails, client
  <2>3. CASE \/ Parse \/ Check \/ Decode \/ Diff \/ Infer \/ Scan \/ Probe \/ Suite \/ Connect
             \/ Script \/ Interact
    BY <2>1, <2>3 DEF Parse, Check, Decode, Diff, Infer, Scan, Probe, Suite, Connect, Script,
       Interact, client
  <2>4. QED
    BY <2>2, <2>3 DEF Next
<1>6. QED
  BY <1>3, <1>4, <1>5 DEF Places

\* What is parsed and printed.
LEMMA DataTyped ==
  ASSUME TypeOK, Next
  PROVE  /\ line' \in CommandLines
         /\ given'.flags \subseteq Flags /\ given'.host \in BOOLEAN /\ given'.rest \in Nat
         /\ report'.kind \in {"none", "decode", "diff", "scan", "infer"}
<1>1. line' = line /\ line \in CommandLines
  BY DEF TypeOK, Next, Parse, Check, Decode, Diff, Infer, Scan, Probe, Suite, Connect, Login,
         GetSystemInfo, Request, Script, Interact, Logout
<1>2. \/ given' = given
      \/ Parse /\ {k \in DOMAIN Parsed : Stops(k)} = {}
         /\ given' = [flags |-> ToSet(Parsed), host |-> Leads, rest |-> Len(Arguments) - Len(Parsed)]
  BY DEF Next, Parse, Check, Decode, Diff, Infer, Scan, Probe, Suite, Connect, Login,
         GetSystemInfo, Request, Script, Interact, Logout
<1>3. given'.flags \subseteq Flags /\ given'.host \in BOOLEAN /\ given'.rest \in Nat
  <2>1. line \in Seq(Tokens)
    BY <1>1, LinesAssumption
  <2>2. CASE given' = given
    BY <2>2 DEF TypeOK
  <2>3. CASE /\ {k \in DOMAIN Parsed : Stops(k)} = {}
             /\ given' = [flags |-> ToSet(Parsed), host |-> Leads, rest |-> Len(Arguments) - Len(Parsed)]
    <3>1. given'.flags = ToSet(Parsed) /\ given'.host = Leads
          /\ given'.rest = Len(Arguments) - Len(Parsed)
      BY <2>3
    <3>2. QED
      BY <2>1, <2>3, <3>1, GivenTyped
  <2>4. QED
    BY <1>2, <2>2, <2>3
<1>4. report' = report \/ report'.kind \in {"decode", "diff", "scan", "infer"}
  <2>1. CASE Decode \/ Diff \/ Infer
    BY <2>1, OfflineReports
  <2>2. CASE Probe
    BY <2>2 DEF Probe, Shown
  <2>3. CASE \/ Parse \/ Check \/ Scan \/ Suite \/ Connect \/ Login \/ GetSystemInfo \/ Request \/ Script
             \/ Interact \/ Logout
    BY <2>3 DEF Parse, Check, Scan, Suite, Connect, Login, GetSystemInfo, Request, Script, Interact, Logout
  <2>4. QED
    BY <2>1, <2>2, <2>3 DEF Next
<1>5. QED
  BY <1>1, <1>3, <1>4 DEF TypeOK

\* Every variable keeps its type; among it, that the program has an exit status exactly
\* when it has ended.
THEOREM EntryTyped == Spec => []TypeOK
<1>1. Init => TypeOK /\ EntryInv
  <2> SUFFICES ASSUME Init PROVE TypeOK
    BY EntryInvInit
  <2>1. {loggedIn, unanswered} \subseteq BOOLEAN
    BY Zenon DEF Init
  <2>2. line \in CommandLines /\ given.flags \subseteq Flags /\ given.host \in BOOLEAN
        /\ given.rest \in Nat
    BY DEF Init
  <2>3. /\ did \in Seq(Steps) /\ session \in {"none", "open", "closed"}
        /\ pc = "parse" /\ exit = -1 /\ report.kind = "none"
    BY NothingDone DEF Init, NoReport
  <2>4. QED
    BY <2>1, <2>2, <2>3 DEF TypeOK, Steps
<1>2. TypeOK /\ EntryInv /\ [Next]_vars => (TypeOK /\ EntryInv)'
  <2> SUFFICES ASSUME TypeOK, EntryInv, [Next]_vars PROVE (TypeOK /\ EntryInv)'
    OBVIOUS
  <2>1. EntryInv'
    BY EntryInvStep
  <2>2. CASE UNCHANGED vars
    BY <2>1, <2>2 DEF vars, client, TypeOK
  <2>3. CASE Next
    <3>1. did' \in Seq(Steps)
      BY <2>1 DEF EntryInv, DoneInv
    <3>2. QED
      BY <2>1, <2>3, <3>1, PlacesTyped, DataTyped DEF TypeOK, Places, Steps
  <2>4. QED
    BY <2>2, <2>3
<1>3. QED
  BY <1>1, <1>2, PTL DEF Spec
-----------------------------------------------------------------------------
(* Runs                                                                    *)

\* Sorted(S) lists a set of runs by offset.
LEMMA SortedLists ==
  ASSUME NEW S \in SUBSET Runs, IsFiniteSet(S)
  PROVE  /\ Sorted(S) \in Seq(S) /\ ToSet(Sorted(S)) = S
         /\ \A i, j \in 1..Len(Sorted(S)) : i < j => Sorted(S)[i].offset <= Sorted(S)[j].offset
<1> DEFINE below == [v \in S |-> {s \in S : Before(s, v)}]
           L == Sorted(S)
<1>1. Orders(below, S)
  <2>1. \A v, w \in Runs : v # w => v.offset # w.offset \/ v.length # w.length
    BY DEF Runs
  <2>2. \A v \in S : v.offset \in Nat /\ v.length \in Nat /\ v \in Runs
    BY DEF Runs
  <2>3. \A v, w \in S : v # w => v \in below[w] \/ w \in below[v]
    BY <2>1, <2>2 DEF Before
  <2>4. \A v, w \in S : v \in below[w] => below[v] \subseteq below[w]
    BY <2>2 DEF Before
  <2>5. \A v \in S : v \notin below[v]
    BY <2>2 DEF Before
  <2>6. below \in [S -> SUBSET S]
    OBVIOUS
  <2> HIDE DEF below
  <2>7. QED
    BY <2>3, <2>4, <2>5, <2>6 DEF Orders
<1>2. \A v \in S : below[v] = {s \in S : Before(s, v)}
  OBVIOUS
<1> HIDE DEF below
<1>3. ASSUME NEW i \in 1..Cardinality(S) PROVE L[i] \in S /\ Cardinality(below[L[i]]) = i - 1
  <2>1. \E v \in S : Cardinality({s \in S : Before(s, v)}) = i - 1
    <3>1. PICK v \in S : Cardinality(below[v]) = i - 1
      BY <1>1, Ranks
    <3>2. QED
      BY <1>2, <3>1
  <2>2. L[i] = CHOOSE v \in S : Cardinality({s \in S : Before(s, v)}) = i - 1
    BY DEF Sorted
  <2>3. L[i] \in S /\ Cardinality({s \in S : Before(s, L[i])}) = i - 1
    BY <2>1, <2>2
  <2>4. QED
    BY <1>2, <2>3
<1>4. L \in [1..Cardinality(S) -> S]
  BY <1>3 DEF Sorted
<1> HIDE DEF L
<1>9. \A i \in 1..Cardinality(S) : Cardinality(below[L[i]]) = i - 1
  BY <1>3
<1>5. /\ L \in Seq(S) /\ Len(L) = Cardinality(S) /\ ToSet(L) = S
      /\ \A i, j \in 1..Len(L) : i < j => L[i] \in below[L[j]]
  BY <1>1, <1>9, <1>4, Listing, Zenon
<1>6. ASSUME NEW i \in 1..Len(L), NEW j \in 1..Len(L), i < j PROVE L[i].offset <= L[j].offset
  <2>1. L[i] \in S /\ L[j] \in S /\ Before(L[i], L[j])
    BY <1>2, <1>5, <1>6
  <2>2. QED
    BY <2>1 DEF Before, Runs
<1>7. QED
  BY <1>5, <1>6 DEF L

Merging(f, q) == f = [n \in 0..Len(q) |-> IF n = 0 THEN <<>> ELSE Absorb(f[n - 1], q[n])]

LEMMA MergingExists ==
  ASSUME NEW X, NEW q \in Seq(X)
  PROVE  \E f : Merging(f, q)
<1> DEFINE Upto(f, m) == f = [n \in 0..m |-> IF n = 0 THEN <<>> ELSE Absorb(f[n - 1], q[n])]
           Done == {m \in Nat : \E f : Upto(f, m)}
<1>1. 0 \in Done
  <2> DEFINE g == [n \in 0..0 |-> <<>>]
  <2>1. \A n \in 0..0 : n = 0
    OBVIOUS
  <2>2. Upto(g, 0)
    BY <2>1
  <2> HIDE DEF g, Upto
  <2>3. QED
    BY <2>2
<1>2. ASSUME NEW m \in Done PROVE m + 1 \in Done
  <2>1. PICK f : Upto(f, m)
    OBVIOUS
  <2> DEFINE last == Absorb(f[m], q[m + 1])
             g == [n \in 0..(m + 1) |-> IF n = m + 1 THEN last ELSE f[n]]
  <2>2. \A n \in 0..m : f[n] = IF n = 0 THEN <<>> ELSE Absorb(f[n - 1], q[n])
    BY <2>1
  <2>3. \A n \in 0..(m + 1) : g[n] = IF n = 0 THEN <<>> ELSE Absorb(g[n - 1], q[n])
    <3> SUFFICES ASSUME NEW n \in 0..(m + 1)
                 PROVE  g[n] = IF n = 0 THEN <<>> ELSE Absorb(g[n - 1], q[n])
      OBVIOUS
    <3>1. CASE n = m + 1
      BY <3>1
    <3>2. CASE n # m + 1
      BY <2>2, <3>2
    <3>3. QED
      BY <3>1, <3>2
  <2>4. Upto(g, m + 1)
    BY <2>3
  <2> HIDE DEF g, Upto
  <2>5. QED
    BY <2>4
<1>3. Done = Nat
  <2> HIDE DEF Done
  <2>1. Done \in SUBSET Nat
    BY DEF Done
  <2>2. QED
    BY <1>1, <1>2, <2>1, Induction
<1>4. \E f : Upto(f, Len(q))
  <2>1. Len(q) \in Nat
    OBVIOUS
  <2>2. Len(q) \in Done
    BY <1>3, <2>1
  <2> HIDE DEF Upto
  <2>3. QED
    BY <2>2, Zenon
<1>5. QED
  BY <1>4 DEF Merging

\* The offsets of a list of runs.
Covers(q) == Offsets(ToSet(q))

LEMMA CoversIs ==
  ASSUME NEW q \in Seq(Runs)
  PROVE  \A o : o \in Covers(q) <=> \E i \in 1..Len(q) : o \in Offset(q[i])
BY DEF Covers, Offsets, ToSet

LEMMA RunTyped ==
  ASSUME NEW o \in Nat, NEW l \in Nat
  PROVE  Run(o, l) \in Runs /\ Run(o, l).offset = o /\ Run(o, l).length = l
BY DEF Run, Runs

LEMMA OffsetIs ==
  ASSUME NEW r \in Runs
  PROVE  /\ r.offset \in Nat /\ r.length \in Nat /\ End(r) \in Nat /\ End(r) = r.offset + r.length
         /\ Offset(r) \subseteq Nat
         /\ \A o \in Nat : o \in Offset(r) <=> r.offset <= o /\ o < End(r)
BY DEF Runs, End, Offset

LEMMA CoversNat == ASSUME NEW q \in Seq(Runs) PROVE Covers(q) \subseteq Nat
BY OffsetIs DEF Covers, Offsets, ToSet

\* A run behind a list adds its offsets.
LEMMA AppendCovers ==
  ASSUME NEW q \in Seq(Runs), NEW r \in Runs
  PROVE  Append(q, r) \in Seq(Runs) /\ Covers(Append(q, r)) = Covers(q) \cup Offset(r)
<1>1. Append(q, r) \in Seq(Runs) /\ Len(Append(q, r)) = Len(q) + 1 /\ Len(q) \in Nat
  OBVIOUS
<1>2. \A i \in 1..Len(q) : Append(q, r)[i] = q[i]
  OBVIOUS
<1>3. Append(q, r)[Len(q) + 1] = r
  OBVIOUS
<1>4. ASSUME NEW o PROVE o \in Covers(Append(q, r)) <=> o \in Covers(q) \/ o \in Offset(r)
  <2>1. o \in Covers(Append(q, r)) <=> \E i \in 1..(Len(q) + 1) : o \in Offset(Append(q, r)[i])
    BY <1>1, CoversIs
  <2>2. o \in Covers(q) <=> \E i \in 1..Len(q) : o \in Offset(q[i])
    BY CoversIs
  <2>3. \A i \in 1..(Len(q) + 1) : i \in 1..Len(q) \/ i = Len(q) + 1
    BY <1>1
  <2>4. 1..Len(q) \subseteq 1..(Len(q) + 1) /\ Len(q) + 1 \in 1..(Len(q) + 1)
    BY <1>1
  <2>5. QED
    BY <2>1, <2>2, <2>3, <2>4, <1>2, <1>3
<1>5. QED
  BY <1>1, <1>4

\* The last run of a list, and what is in front of it.
LEMMA FrontAndLast ==
  ASSUME NEW q \in Seq(Runs), q # <<>>
  PROVE  /\ Front(q) \in Seq(Runs) /\ Last(q) \in Runs /\ q = Append(Front(q), Last(q))
         /\ Len(Front(q)) = Len(q) - 1 /\ Len(q) \in Nat \ {0} /\ Last(q) = q[Len(q)]
         /\ \A i \in 1..(Len(q) - 1) : Front(q)[i] = q[i]
<1>1. /\ Len(q) \in Nat /\ Len(q) # 0 /\ q = [i \in 1..Len(q) |-> q[i]]
      /\ \A i \in 1..Len(q) : q[i] \in Runs
  OBVIOUS
<1>2. Front(q) = [i \in 1..(Len(q) - 1) |-> q[i]]
  BY <1>1 DEF Front
<1>3. Front(q) \in Seq(Runs) /\ Len(Front(q)) = Len(q) - 1
  BY <1>1, <1>2
<1>4. Last(q) = q[Len(q)] /\ Last(q) \in Runs
  BY <1>1 DEF Last
<1>5. q = Append(Front(q), Last(q))
  BY <1>1, <1>2, <1>3, <1>4
<1>6. QED
  BY <1>1, <1>2, <1>3, <1>4, <1>5

\* A run that does not begin in front of the last of a merged list is absorbed: the list
\* stays merged and covers the run as well.
LEMMA AbsorbStep ==
  ASSUME NEW M \in Seq(Runs), Apart(M), NEW r \in Runs, M # <<>> => Last(M).offset <= r.offset,
         NEW A, A = Absorb(M, r)
  PROVE  /\ A \in Seq(Runs) /\ Apart(A) /\ Covers(A) = Covers(M) \cup Offset(r)
         /\ A # <<>> => Last(A).offset <= r.offset
<1>0. /\ r.offset \in Nat /\ r.length \in Nat /\ End(r) \in Nat /\ End(r) = r.offset + r.length
      /\ \A o \in Nat : o \in Offset(r) <=> r.offset <= o /\ o < End(r)
      /\ Offset(r) \subseteq Nat
  BY OffsetIs
<1>1. CASE r.length <= 0
  <2>1. A = M
    BY <1>1 DEF Absorb
  <2>2. Offset(r) = {}
    BY <1>0, <1>1
  <2>3. QED
    BY <2>1, <2>2
<1>2. CASE r.length > 0 /\ (M = <<>> \/ r.offset > End(Last(M)))
  <2>1. A = Append(M, r)
    BY <1>0, <1>2 DEF Absorb
  <2>2. A \in Seq(Runs) /\ Covers(A) = Covers(M) \cup Offset(r)
    BY <2>1, AppendCovers
  <2>3. Len(A) = Len(M) + 1 /\ Len(M) \in Nat /\ A[Len(M) + 1] = r /\ \A k \in 1..Len(M) : A[k] = M[k]
    BY <2>1
  <2>4. Last(A) = r
    BY <2>3 DEF Last
  <2>5. M # <<>> => Last(M) = M[Len(M)] /\ Len(M) > 0
    BY FrontAndLast
  <2>6. M = <<>> => Len(M) = 0
    OBVIOUS
  <2>7. DOMAIN A = 1..(Len(M) + 1) /\ DOMAIN M = 1..Len(M)
    BY <2>2, <2>3
  <2>8. ASSUME NEW k \in DOMAIN A PROVE A[k].length > 0 /\ (k > 1 => A[k].offset > End(A[k - 1]))
    <3>1. CASE k \in 1..Len(M)
      <4>1. A[k] = M[k] /\ k \in DOMAIN M
        BY <2>3, <2>7, <3>1
      <4>2. k > 1 => A[k - 1] = M[k - 1]
        BY <2>3, <3>1
      <4>3. QED
        BY <4>1, <4>2 DEF Apart
    <3>2. CASE k = Len(M) + 1
      <4>1. A[k] = r
        BY <2>3, <3>2
      <4>2. k > 1 => M # <<>> /\ A[k - 1] = M[Len(M)]
        <5>1. SUFFICES ASSUME k > 1 PROVE M # <<>> /\ A[k - 1] = M[Len(M)]
          OBVIOUS
        <5>2. Len(M) \in 1..Len(M) /\ k - 1 = Len(M)
          BY <2>3, <3>2, <5>1
        <5>3. QED
          BY <2>3, <2>6, <5>2
      <4>3. QED
        BY <4>1, <4>2, <1>2, <2>5
    <3>3. QED
      BY <2>3, <2>7, <3>1, <3>2
  <2>9. Apart(A)
    BY <2>8 DEF Apart
  <2>10. QED
    BY <2>2, <2>4, <2>9, <1>0
<1>3. CASE r.length > 0 /\ M # <<>> /\ ~(r.offset > End(Last(M)))
  <2> DEFINE F == Front(M)
             l == Last(M)
             e == Run(l.offset, End(r) - l.offset)
  <2>1. /\ F \in Seq(Runs) /\ l \in Runs /\ M = Append(F, l) /\ Len(F) = Len(M) - 1
        /\ Len(M) \in Nat \ {0} /\ l = M[Len(M)] /\ \A i \in 1..(Len(M) - 1) : F[i] = M[i]
    BY <1>3, FrontAndLast
  <2>2. /\ l.offset \in Nat /\ l.length \in Nat /\ End(l) \in Nat /\ End(l) = l.offset + l.length
        /\ \A o \in Nat : o \in Offset(l) <=> l.offset <= o /\ o < End(l)
    BY <2>1, OffsetIs
  <2>3. Covers(M) = Covers(F) \cup Offset(l)
    BY <2>1, AppendCovers
  <2>4. A = IF End(r) <= End(l) THEN M ELSE Append(F, e)
    BY <1>0, <1>3 DEF Absorb
  <2> HIDE DEF F, l
  <2>5. l.offset <= r.offset /\ r.offset <= End(l)
    BY <1>0, <1>3, <2>2 DEF l
  <2>6. CASE End(r) <= End(l)
    <3>1. A = M
      BY <2>4, <2>6
    <3>2. Offset(r) \subseteq Offset(l)
      BY <1>0, <2>2, <2>5, <2>6
    <3>3. Covers(M) = Covers(M) \cup Offset(r)
      BY <2>3, <3>2
    <3>4. QED
      BY <3>1, <3>3
  <2>7. CASE ~(End(r) <= End(l))
    <3>1. A = Append(F, e)
      BY <2>4, <2>7
    <3>2. End(r) - l.offset \in Nat /\ End(r) - l.offset > 0
      BY <1>0, <1>3, <2>2, <2>5, <2>7
    <3>3. e \in Runs /\ e.offset = l.offset /\ e.length = End(r) - l.offset
      BY <2>2, <3>2, RunTyped
    <3> HIDE DEF e
    <3>4. End(e) = End(r) /\ \A o \in Nat : o \in Offset(e) <=> l.offset <= o /\ o < End(r)
      BY <3>3, <1>0, <2>2, OffsetIs
    <3>5. Offset(e) \subseteq Nat /\ Offset(l) \subseteq Nat
      BY <3>3, <2>1, OffsetIs
    <3>6. \A o \in Nat : o \in Offset(e) <=> o \in Offset(l) \/ o \in Offset(r)
      BY <1>0, <2>2, <2>5, <2>7, <3>4
    <3>7. Offset(e) = Offset(l) \cup Offset(r)
      BY <1>0, <3>5, <3>6
    <3>8. A \in Seq(Runs) /\ Covers(A) = Covers(F) \cup Offset(e)
      BY <2>1, <3>1, <3>3, AppendCovers
    <3>9. Covers(A) = Covers(M) \cup Offset(r)
      BY <2>3, <3>7, <3>8
    <3>10. Len(A) = Len(M) /\ Len(M) \in Nat /\ A[Len(M)] = e /\ \A i \in 1..(Len(M) - 1) : A[i] = M[i]
      <4>1. Len(A) = Len(F) + 1 /\ A[Len(F) + 1] = e /\ \A i \in 1..Len(F) : A[i] = F[i]
        BY <2>1, <3>1
      <4>2. QED
        BY <2>1, <4>1
    <3>11. Last(A) = e
      BY <3>10 DEF Last
    <3>12. ASSUME NEW k \in DOMAIN A PROVE A[k].length > 0 /\ (k > 1 => A[k].offset > End(A[k - 1]))
      <4>1. k \in 1..Len(M) /\ DOMAIN M = 1..Len(M)
        BY <3>8, <3>10
      <4>2. M[k].length > 0 /\ (k > 1 => M[k].offset > End(M[k - 1]))
        BY <4>1 DEF Apart
      <4>3. k > 1 => A[k - 1] = M[k - 1]
        BY <3>10, <4>1
      <4>4. CASE k # Len(M)
        BY <3>10, <4>1, <4>2, <4>3, <4>4
      <4>5. CASE k = Len(M)
        BY <2>1, <3>2, <3>3, <3>10, <4>2, <4>3, <4>5
      <4>6. QED
        BY <4>4, <4>5
    <3>13. Apart(A)
      BY <3>12 DEF Apart
    <3>14. QED
      BY <3>3, <3>8, <3>9, <3>11, <3>13, <2>5
  <2>8. QED
    BY <2>6, <2>7
<1>4. QED
  BY <1>0, <1>1, <1>2, <1>3

\* mergeRuns: runs in ascending order, with gaps between them, that cover what the runs
\* it is given cover.
LEMMA MergeCovers ==
  ASSUME NEW S \in SUBSET Runs, IsFiniteSet(S)
  PROVE  MergeRuns(S) \in Seq(Runs) /\ Apart(MergeRuns(S)) /\ Covers(MergeRuns(S)) = Offsets(S)
<1> DEFINE q == Sorted(S)
           f == CHOOSE f : Merging(f, q)
           N == Len(q)
           Upto(n) == UNION {Offset(q[i]) : i \in 1..n}
           Good(n) == /\ f[n] \in Seq(Runs) /\ Apart(f[n]) /\ Covers(f[n]) = Upto(n)
                      /\ f[n] # <<>> => n > 0 /\ Last(f[n]).offset <= q[n].offset
<1>1. /\ q \in Seq(S) /\ ToSet(q) = S
      /\ \A i, j \in 1..N : i < j => q[i].offset <= q[j].offset
  BY SortedLists
<1>2. q \in Seq(Runs) /\ N \in Nat /\ \A i \in 1..N : q[i] \in Runs
  BY <1>1
<1>3. MergeRuns(S) = f[N]
  BY DEF MergeRuns, Merging
<1>4. Merging(f, q)
  BY <1>2, MergingExists
<1> HIDE DEF f, q
<1>5. \A n \in 0..N : f[n] = IF n = 0 THEN <<>> ELSE Absorb(f[n - 1], q[n])
  BY <1>4 DEF Merging
<1> DEFINE Done == {n \in Nat : n <= N => Good(n)}
<1>6. 0 \in Done
  <2>1. f[0] = <<>>
    BY <1>2, <1>5
  <2>2. Covers(<<>>) = {} /\ Upto(0) = {} /\ Apart(<<>>) /\ <<>> \in Seq(Runs)
    BY DEF Covers, Offsets, ToSet, Apart
  <2>3. QED
    BY <2>1, <2>2
<1>7. ASSUME NEW n \in Done PROVE n + 1 \in Done
  <2> SUFFICES ASSUME n + 1 <= N PROVE Good(n + 1)
    OBVIOUS
  <2>1. n \in Nat /\ Good(n) /\ n + 1 \in 1..N /\ (n > 0 => n \in 1..N)
    BY <1>2
  <2>2. f[n + 1] = Absorb(f[n], q[n + 1])
    <3>1. n + 1 \in 0..N /\ n + 1 # 0 /\ (n + 1) - 1 = n
      BY <2>1
    <3>2. QED
      BY <1>5, <3>1
  <2>3. q[n + 1] \in Runs
    BY <1>2, <2>1
  <2>4. f[n] # <<>> => Last(f[n]).offset <= q[n + 1].offset
    <3>1. SUFFICES ASSUME f[n] # <<>> PROVE Last(f[n]).offset <= q[n + 1].offset
      OBVIOUS
    <3>2. n \in 1..N /\ Last(f[n]).offset <= q[n].offset /\ q[n].offset <= q[n + 1].offset
      BY <1>1, <2>1, <3>1
    <3>3. Last(f[n]) \in Runs /\ q[n] \in Runs
      BY <1>2, <2>1, <3>1, <3>2, FrontAndLast
    <3>4. Last(f[n]).offset \in Nat /\ q[n].offset \in Nat /\ q[n + 1].offset \in Nat
      BY <2>3, <3>3, OffsetIs
    <3>5. QED
      BY <3>2, <3>4
  <2>5. /\ f[n + 1] \in Seq(Runs) /\ Apart(f[n + 1])
        /\ Covers(f[n + 1]) = Covers(f[n]) \cup Offset(q[n + 1])
        /\ f[n + 1] # <<>> => Last(f[n + 1]).offset <= q[n + 1].offset
    <3>1. SUFFICES ASSUME NEW M, M = f[n], NEW r, r = q[n + 1], NEW A, A = f[n + 1]
                   PROVE  /\ A \in Seq(Runs) /\ Apart(A) /\ Covers(A) = Covers(M) \cup Offset(r)
                          /\ A # <<>> => Last(A).offset <= r.offset
      BY Zenon
    <3>2. M \in Seq(Runs) /\ Apart(M)
      BY <2>1, <3>1
    <3>3. r \in Runs /\ (M # <<>> => Last(M).offset <= r.offset) /\ A = Absorb(M, r)
      BY ONLY <2>2, <2>3, <2>4, <3>1
    <3>4. QED
      BY ONLY <3>2, <3>3, AbsorbStep, Zenon
  <2>6. Upto(n + 1) = Upto(n) \cup Offset(q[n + 1])
    <3>1. \A i : i \in 1..(n + 1) <=> i \in 1..n \/ i = n + 1
      BY <2>1
    <3>2. QED
      BY <3>1
  <2>7. QED
    BY <2>1, <2>5, <2>6
<1>8. Done = Nat
  <2> HIDE DEF Done
  <2>1. Done \in SUBSET Nat
    BY DEF Done
  <2>2. QED
    BY <1>6, <1>7, <2>1, Induction
<1>9. Good(N)
  <2>1. N \in Done
    BY <1>2, <1>8
  <2>2. QED
    BY <1>2, <2>1
<1>10. Upto(N) = Offsets(S)
  <2>1. S = {q[i] : i \in 1..N}
    BY <1>1 DEF ToSet
  <2>2. QED
    BY <2>1 DEF Offsets
<1>11. QED
  BY <1>3, <1>9, <1>10

Cutting(f, from, to, cuts) ==
  f = [n \in 0..Len(cuts) |->
         IF n = 0 THEN [left |-> <<>>, from |-> from]
         ELSE IF cuts[n].offset < to THEN Cut(f[n - 1], cuts[n]) ELSE f[n - 1]]

LEMMA CuttingExists ==
  ASSUME NEW X, NEW cuts \in Seq(X), NEW from, NEW to
  PROVE  \E f : Cutting(f, from, to, cuts)
<1> DEFINE Value(f, n) == IF n = 0 THEN [left |-> <<>>, from |-> from]
                          ELSE IF cuts[n].offset < to THEN Cut(f[n - 1], cuts[n]) ELSE f[n - 1]
           Upto(f, m) == f = [n \in 0..m |-> Value(f, n)]
           Done == {m \in Nat : \E f : Upto(f, m)}
<1>1. 0 \in Done
  <2> DEFINE g == [n \in 0..0 |-> [left |-> <<>>, from |-> from]]
  <2>1. \A n \in 0..0 : n = 0
    OBVIOUS
  <2>2. Upto(g, 0)
    BY <2>1
  <2> HIDE DEF g, Upto
  <2>3. QED
    BY <2>2
<1>2. ASSUME NEW m \in Done PROVE m + 1 \in Done
  <2>1. PICK f : Upto(f, m)
    OBVIOUS
  <2> DEFINE last == IF cuts[m + 1].offset < to THEN Cut(f[m], cuts[m + 1]) ELSE f[m]
             g == [n \in 0..(m + 1) |-> IF n = m + 1 THEN last ELSE f[n]]
  <2>2. \A n \in 0..m : f[n] = Value(f, n)
    BY <2>1
  <2>3. ASSUME NEW n \in 0..(m + 1) PROVE g[n] = Value(g, n)
    <3>1. CASE n = m + 1
      <4>1. g[n] = last /\ g[n - 1] = f[m] /\ n # 0 /\ cuts[n] = cuts[m + 1]
        BY <3>1
      <4> HIDE DEF g
      <4>2. QED
        BY <4>1
    <3>2. CASE n # m + 1
      <4>1. n \in 0..m /\ g[n] = f[n] /\ (n # 0 => g[n - 1] = f[n - 1])
        BY <3>2
      <4> HIDE DEF g
      <4>2. QED
        BY <2>2, <4>1
    <3>3. QED
      BY <3>1, <3>2
  <2>4. Upto(g, m + 1)
    <3>1. g = [n \in 0..(m + 1) |-> g[n]]
      OBVIOUS
    <3> HIDE DEF g, Value
    <3>2. QED
      BY <2>3, <3>1
  <2> HIDE DEF g, Upto
  <2>5. QED
    BY <2>4
<1>3. Done = Nat
  <2> HIDE DEF Done
  <2>1. Done \in SUBSET Nat
    BY DEF Done
  <2>2. QED
    BY <1>1, <1>2, <2>1, Induction
<1>4. \E f : Upto(f, Len(cuts))
  <2>1. Len(cuts) \in Nat
    OBVIOUS
  <2>2. Len(cuts) \in Done
    BY <1>3, <2>1
  <2> HIDE DEF Upto
  <2>3. QED
    BY <2>2, Zenon
<1>5. QED
  BY <1>4 DEF Cutting

\* Any two runs of a merged list stand apart.
LEMMA ApartOrders ==
  ASSUME NEW q \in Seq(Runs), Apart(q)
  PROVE  \A i, j \in 1..Len(q) : i < j => q[j].offset > End(q[i])
<1> SUFFICES ASSUME NEW i \in 1..Len(q) PROVE \A j \in 1..Len(q) : i < j => q[j].offset > End(q[i])
  OBVIOUS
<1> DEFINE Far == {n \in Nat : i + n + 1 <= Len(q) => q[i + n + 1].offset > End(q[i])}
<1>1. \A k \in 1..Len(q) : /\ q[k] \in Runs /\ q[k].offset \in Nat /\ q[k].length \in Nat
                           /\ End(q[k]) \in Nat /\ End(q[k]) = q[k].offset + q[k].length
  BY OffsetIs
<1>2. \A k \in 1..Len(q) : q[k].length > 0 /\ (k > 1 => q[k].offset > End(q[k - 1]))
  BY DEF Apart
<1>3. 0 \in Far
  BY <1>2
<1>4. ASSUME NEW n \in Far PROVE n + 1 \in Far
  <2> DEFINE k == i + n + 1
  <2>1. n \in Nat /\ k \in Nat /\ i + (n + 1) + 1 = k + 1 /\ i \in Nat /\ Len(q) \in Nat
    OBVIOUS
  <2>2. k + 1 <= Len(q) => q[k].offset > End(q[i])
    BY <2>1
  <2> HIDE DEF k
  <2>3. ASSUME k + 1 <= Len(q) PROVE q[k + 1].offset > End(q[i])
    <3>1. k \in 1..Len(q) /\ k + 1 \in 1..Len(q) /\ (k + 1) - 1 = k /\ k + 1 > 1
      BY <2>1, <2>3 DEF k
    <3>2. q[k + 1].offset > End(q[k]) /\ End(q[k]) = q[k].offset + q[k].length /\ q[k].offset > End(q[i])
      BY <1>1, <1>2, <2>2, <2>3, <3>1
    <3>3. q[k].offset \in Nat /\ q[k].length \in Nat /\ q[k + 1].offset \in Nat /\ End(q[i]) \in Nat
      BY <1>1, <3>1
    <3>4. QED
      BY <3>2, <3>3
  <2>4. QED
    BY <2>1, <2>3
<1>5. Far = Nat
  <2> HIDE DEF Far
  <2>1. Far \in SUBSET Nat
    BY DEF Far
  <2>2. QED
    BY <1>3, <1>4, <2>1, Induction
<1>6. ASSUME NEW j \in 1..Len(q), i < j PROVE q[j].offset > End(q[i])
  <2>1. PICK n \in Nat : j = i + n + 1
    <3>1. j - i - 1 \in Nat /\ j = i + (j - i - 1) + 1
      BY <1>6
    <3>2. QED
      BY <3>1
  <2>2. n \in Far
    BY <1>5
  <2>3. QED
    BY <2>1, <2>2
<1>7. QED
  BY <1>6

\* The gaps are the stretch without what is cut out of it.
LeavesTheRest(from, to, cuts) ==
  Covers(Gaps(from, to, cuts)) = (from..(to - 1)) \ Covers(cuts)

LEMMA GapsCover ==
  ASSUME NEW from \in Nat, NEW to \in Nat, NEW cuts \in Seq(Runs), Apart(cuts)
  PROVE  Gaps(from, to, cuts) \in Seq(Runs) /\ LeavesTheRest(from, to, cuts)
<1> DEFINE f == CHOOSE f : Cutting(f, from, to, cuts)
           N == Len(cuts)
           At(n) == f[n].from
           Left(n) == f[n].left
           Seen(o, n) == \E i \in 1..n : o \in Offset(cuts[i])
           Good(n) ==
             /\ f[n] = [left |-> Left(n), from |-> At(n)]
             /\ Left(n) \in Seq(Runs) /\ At(n) \in Nat /\ At(n) >= from
             /\ At(n) = from \/ \E i \in 1..n : At(n) = End(cuts[i])
             /\ \A i \in 1..n : cuts[i].offset < to => End(cuts[i]) <= At(n)
             /\ \A o \in Covers(Left(n)) : o < to
             /\ \A o \in Nat : o \in Covers(Left(n)) <=> from <= o /\ o < At(n) /\ ~Seen(o, n)
<1>1. /\ N \in Nat
      /\ \A k \in 1..N : /\ cuts[k] \in Runs /\ cuts[k].offset \in Nat /\ cuts[k].length \in Nat
                         /\ End(cuts[k]) \in Nat /\ End(cuts[k]) = cuts[k].offset + cuts[k].length
                         /\ cuts[k].length > 0
                         /\ \A o \in Nat : o \in Offset(cuts[k]) <=> cuts[k].offset <= o /\ o < End(cuts[k])
  <2>1. N \in Nat /\ DOMAIN cuts = 1..N /\ \A k \in 1..N : cuts[k] \in Runs
    OBVIOUS
  <2>2. QED
    BY <2>1, OffsetIs DEF Apart
<1>2. \A i, j \in 1..N : i < j => cuts[j].offset > End(cuts[i])
  BY ApartOrders
<1>3. Cutting(f, from, to, cuts)
  BY CuttingExists
<1>4. Gaps(from, to, cuts) = IF At(N) < to THEN Append(Left(N), Run(At(N), to - At(N))) ELSE Left(N)
  BY DEF Gaps, Cutting
<1> HIDE DEF f
<1>5. \A n \in 0..N : f[n] = IF n = 0 THEN [left |-> <<>>, from |-> from]
                             ELSE IF cuts[n].offset < to THEN Cut(f[n - 1], cuts[n]) ELSE f[n - 1]
  BY <1>3 DEF Cutting
<1> DEFINE Done == {n \in Nat : n <= N => Good(n)}
<1>6. Good(0)
  <2>1. f[0] = [left |-> <<>>, from |-> from]
    BY <1>1, <1>5
  <2>2. Covers(<<>>) = {} /\ <<>> \in Seq(Runs)
    BY DEF Covers, Offsets, ToSet
  <2>3. Left(0) = <<>> /\ At(0) = from
    BY <2>1
  <2> HIDE DEF Left, At
  <2>4. \A i \in 1..0 : FALSE
    OBVIOUS
  <2>5. \A o : ~Seen(o, 0)
    BY <2>4
  <2> HIDE DEF Seen
  <2>6. \A o \in Nat : o \in Covers(Left(0)) <=> from <= o /\ o < At(0) /\ ~Seen(o, 0)
    BY <2>2, <2>3
  <2>7. \A o \in Covers(Left(0)) : o < to
    BY <2>2, <2>3
  <2>9. f[0] = [left |-> Left(0), from |-> At(0)]
    BY <2>1, <2>3
  <2> HIDE DEF Left, At
  <2>8. Left(0) \in Seq(Runs) /\ At(0) \in Nat /\ At(0) >= from
    <3>1. Left(0) \in Seq(Runs)
      BY ONLY <2>2, <2>3, Zenon
    <3>2. At(0) \in Nat /\ At(0) >= from
      BY <2>3
    <3>3. QED
      BY <3>1, <3>2
  <2>10. \A i \in 1..0 : cuts[i].offset < to => End(cuts[i]) <= At(0)
    BY <2>4
  <2>11. QED
    BY <2>3, <2>6, <2>7, <2>8, <2>9, <2>10
<1>7. ASSUME NEW n \in Nat, Good(n), n + 1 <= N PROVE Good(n + 1)
  <2>0. n + 1 \in 1..N /\ n + 1 \in 0..N /\ n + 1 # 0 /\ (n + 1) - 1 = n
    <3> HIDE DEF N, Good
    <3>1. QED
      BY <1>1, <1>7
  <2> DEFINE c == cuts[n + 1]
             m == n + 1
  <2>1. m \in 1..N /\ m \in 0..N /\ m # 0 /\ m - 1 = n
    BY ONLY <2>0
  <2>2. f[m] = IF c.offset < to THEN Cut(f[n], c) ELSE f[n]
    BY <1>5, <2>1
  <2>3. /\ c \in Runs /\ c.offset \in Nat /\ c.length \in Nat /\ End(c) \in Nat
        /\ End(c) = c.offset + c.length /\ c.length > 0
        /\ \A o \in Nat : o \in Offset(c) <=> c.offset <= o /\ o < End(c)
    BY <1>1, <2>1
  <2>4. \A i \in 1..n : i \in 1..N /\ c.offset > End(cuts[i])
    BY <1>2, <2>1
  <2>5. \A i : i \in 1..m <=> i \in 1..n \/ i = m
    BY <2>1
  <2>6. \A o : Seen(o, m) <=> Seen(o, n) \/ o \in Offset(c)
    BY <2>5
  <2> HIDE DEF c, m, Seen
  <2>7. CASE ~(c.offset < to)
    <3>1. f[m] = f[n]
      BY <2>2, <2>7
    <3>2. \A o \in Nat : o \in Covers(Left(n)) => ~(o \in Offset(c))
      BY <1>7, <2>3, <2>7
    <3>3. \A o \in Nat : from <= o /\ o < At(n) /\ ~Seen(o, n) => ~(o \in Offset(c))
      BY <1>7, <3>2
    <3>4. \A i \in 1..m : cuts[i].offset < to => End(cuts[i]) <= At(n)
      BY <1>7, <2>5, <2>7 DEF c, m
    <3>5. At(n) = from \/ \E i \in 1..m : At(n) = End(cuts[i])
      BY <1>7, <2>5
    <3>6. \A o \in Nat : o \in Covers(Left(n)) <=> from <= o /\ o < At(n) /\ ~Seen(o, m)
      BY <1>7, <2>6, <3>3
    <3>7. Left(m) = Left(n) /\ At(m) = At(n)
      BY <3>1
    <3> HIDE DEF Left, At
    <3>8. Good(m)
      BY <1>7, <3>1, <3>4, <3>5, <3>6, <3>7
    <3>9. QED
      BY <3>8 DEF m
  <2>8. CASE c.offset < to
    <3> DEFINE r == Run(At(n), c.offset - At(n))
               L == Left(n)
               a == At(n)
    <3>1. f[m] = Cut(f[n], c)
      BY <2>2, <2>8
    <3>2. /\ Left(m) = IF c.offset > a THEN Append(L, r) ELSE L
          /\ At(m) = IF End(c) > a THEN End(c) ELSE a
          /\ f[m] = [left |-> Left(m), from |-> At(m)]
      BY <3>1 DEF Cut
    <3>3. /\ L \in Seq(Runs) /\ a \in Nat /\ a >= from
          /\ a = from \/ \E i \in 1..n : a = End(cuts[i])
          /\ \A i \in 1..n : cuts[i].offset < to => End(cuts[i]) <= a
          /\ \A o \in Covers(L) : o < to
          /\ \A o \in Nat : o \in Covers(L) <=> from <= o /\ o < a /\ ~Seen(o, n)
      BY <1>7
    <3> HIDE DEF L, a, At, Left
    <3>4. a = from \/ c.offset > a
      BY <2>4, <3>3
    <3>5. \A o \in Nat : Seen(o, n) => o < a
      <4> SUFFICES ASSUME NEW o \in Nat, NEW i \in 1..n, o \in Offset(cuts[i]) PROVE o < a
        BY DEF Seen
      <4>1. i \in 1..N /\ c.offset > End(cuts[i]) /\ o < End(cuts[i]) /\ cuts[i].offset <= o
        BY <1>1, <2>4
      <4>2. cuts[i].offset \in Nat /\ End(cuts[i]) \in Nat /\ to \in Nat
        BY <1>1, <4>1
      <4>3. End(cuts[i]) <= a
        BY <2>3, <2>8, <3>3, <4>1, <4>2
      <4>4. QED
        BY <3>3, <4>1, <4>2, <4>3
    <3>6. At(m) \in Nat /\ At(m) >= from /\ At(m) >= a /\ End(c) <= At(m)
      BY <2>3, <3>2, <3>3
    <3>7. At(m) = from \/ \E i \in 1..m : At(m) = End(cuts[i])
      <4>1. m \in 1..m /\ End(c) = End(cuts[m]) /\ \A i \in 1..n : i \in 1..m
        BY <2>1, <2>5 DEF c, m
      <4>2. CASE End(c) > a
        <5>1. At(m) = End(cuts[m])
          BY <3>2, <4>1, <4>2
        <5>2. QED
          BY <4>1, <5>1
      <4>3. CASE ~(End(c) > a)
        <5>1. At(m) = a
          BY <3>2, <4>3
        <5>2. QED
          BY <3>3, <4>1, <5>1
      <4>4. QED
        BY <4>2, <4>3
    <3>8. \A i \in 1..m : cuts[i].offset < to => End(cuts[i]) <= At(m)
      <4> SUFFICES ASSUME NEW i \in 1..m, cuts[i].offset < to PROVE End(cuts[i]) <= At(m)
        OBVIOUS
      <4>1. CASE i \in 1..n
        <5>1. End(cuts[i]) <= a /\ End(cuts[i]) \in Nat
          BY <1>1, <2>4, <3>3, <4>1
        <5>2. QED
          BY <3>3, <3>6, <5>1
      <4>2. CASE i = m
        BY <3>6, <4>2 DEF c, m
      <4>3. QED
        BY <2>5, <4>1, <4>2
    <3>9. CASE c.offset > a
      <4>1. r \in Runs /\ r.offset = a /\ r.length = c.offset - a
        <5>1. c.offset - a \in Nat
          BY <2>3, <3>3, <3>9
        <5>2. QED
          BY <3>3, <5>1, RunTyped DEF a
      <4>2. Left(m) = Append(L, r)
        BY <3>2, <3>9
      <4> HIDE DEF r
      <4>3. Left(m) \in Seq(Runs) /\ Covers(Left(m)) = Covers(L) \cup Offset(r)
        BY <3>3, <4>1, <4>2, AppendCovers
      <4>4. Offset(r) \subseteq Nat /\ \A o \in Nat : o \in Offset(r) <=> a <= o /\ o < c.offset
        <5>1. End(r) = c.offset
          BY <2>3, <3>3, <4>1, OffsetIs
        <5>2. QED
          BY <4>1, <5>1, OffsetIs
      <4>5. \A o \in Covers(Left(m)) : o < to
        BY <2>3, <2>8, <3>3, <4>3, <4>4
      <4>6. At(m) = End(c)
        BY <2>3, <3>2, <3>3, <3>9
      <4>7. ASSUME NEW o \in Nat
            PROVE  o \in Covers(Left(m)) <=> from <= o /\ o < At(m) /\ ~Seen(o, m)
        <5>1. o \in Covers(Left(m)) <=> (from <= o /\ o < a /\ ~Seen(o, n)) \/ (a <= o /\ o < c.offset)
          BY <3>3, <4>3, <4>4
        <5>2. Seen(o, m) <=> Seen(o, n) \/ (c.offset <= o /\ o < End(c))
          BY <2>3, <2>6
        <5>3. Seen(o, n) => o < a
          BY <3>5
        <5>4. QED
          BY <2>3, <3>3, <3>9, <4>6, <5>1, <5>2, <5>3
      <4>8. QED
        BY <3>2, <3>6, <3>7, <3>8, <4>3, <4>5, <4>7 DEF m
    <3>10. CASE ~(c.offset > a)
      <4>1. Left(m) = L /\ a = from
        BY <3>2, <3>4, <3>10
      <4>2. ASSUME NEW o \in Nat
            PROVE  o \in Covers(Left(m)) <=> from <= o /\ o < At(m) /\ ~Seen(o, m)
        <5>1. ~(o \in Covers(Left(m)))
          BY <3>3, <4>1
        <5>2. from <= o /\ o < At(m) => Seen(o, m)
          BY <2>3, <2>6, <3>2, <3>3, <3>10, <4>1
        <5>3. QED
          BY <5>1, <5>2
      <4>3. QED
        BY <3>2, <3>3, <3>6, <3>7, <3>8, <4>1, <4>2 DEF m
    <3>11. QED
      BY <3>9, <3>10
  <2>9. QED
    BY <2>7, <2>8
<1>9. Good(N)
  <2> HIDE DEF Good
  <2>1. 0 \in Done /\ Done \in SUBSET Nat
    BY <1>6
  <2>2. \A n \in Done : n + 1 \in Done
    BY <1>1, <1>7
  <2> HIDE DEF Done
  <2>3. Done = Nat
    BY <2>1, <2>2, Induction
  <2>4. N \in Done
    BY <1>1, <2>3
  <2>5. QED
    BY <1>1, <2>4 DEF Done
<1>10. \A o \in Nat : Seen(o, N) <=> o \in Covers(cuts)
  BY CoversIs
<1> DEFINE G == Gaps(from, to, cuts)
           a == At(N)
           L == Left(N)
           r == Run(a, to - a)
<1>11. /\ L \in Seq(Runs) /\ a \in Nat /\ a >= from
       /\ \A i \in 1..N : cuts[i].offset < to => End(cuts[i]) <= a
       /\ \A o \in Covers(L) : o < to
       /\ \A o \in Nat : o \in Covers(L) <=> from <= o /\ o < a /\ ~Seen(o, N)
  BY <1>9
<1>12. G = IF a < to THEN Append(L, r) ELSE L
  BY <1>4
<1> HIDE DEF G, a, L
<1>13. \A o \in Nat : Seen(o, N) /\ o < to => o < a
  <2> SUFFICES ASSUME NEW o \in Nat, o < to, NEW i \in 1..N, o \in Offset(cuts[i]) PROVE o < a
    OBVIOUS
  <2>1. /\ cuts[i].offset <= o /\ o < End(cuts[i]) /\ cuts[i].offset \in Nat /\ End(cuts[i]) \in Nat
    BY <1>1
  <2>2. End(cuts[i]) <= a
    BY <1>11, <2>1
  <2>3. QED
    BY <1>11, <2>1, <2>2
<1> HIDE DEF Seen
<1>14. CASE a < to
  <2>1. r \in Runs /\ r.offset = a /\ r.length = to - a
    <3>1. to - a \in Nat
      BY <1>11, <1>14
    <3>2. QED
      BY <1>11, <3>1, RunTyped
  <2> HIDE DEF r
  <2>2. G \in Seq(Runs) /\ Covers(G) = Covers(L) \cup Offset(r)
    BY <1>11, <1>12, <1>14, <2>1, AppendCovers
  <2>3. Offset(r) \subseteq Nat /\ \A o \in Nat : o \in Offset(r) <=> a <= o /\ o < to
    <3>1. End(r) = to
      BY <1>11, <2>1, OffsetIs
    <3>2. QED
      BY <2>1, <3>1, OffsetIs
  <2>4. ASSUME NEW o \in Nat PROVE o \in Covers(G) <=> from <= o /\ o < to /\ ~(o \in Covers(cuts))
    BY <1>10, <1>11, <1>13, <1>14, <2>2, <2>3
  <2>5. Covers(G) \subseteq Nat
    BY <2>2, CoversNat
  <2>6. QED
    BY <2>2, <2>4, <2>5 DEF G, LeavesTheRest
<1>15. CASE ~(a < to)
  <2>1. G = L /\ G \in Seq(Runs)
    BY <1>11, <1>12, <1>15
  <2>2. ASSUME NEW o \in Nat PROVE o \in Covers(G) <=> from <= o /\ o < to /\ ~(o \in Covers(cuts))
    BY <1>10, <1>11, <1>15, <2>1
  <2>3. Covers(G) \subseteq Nat
    BY <2>1, CoversNat
  <2>4. QED
    BY <2>1, <2>2, <2>3 DEF G, LeavesTheRest
<1>16. QED
  BY <1>14, <1>15

\* From an element of S, the stretch of S up to the next offset that is not in it.
LEMMA StretchEnds ==
  ASSUME NEW S \in SUBSET Nat, IsFiniteSet(S), NEW i \in S
  PROVE  \E n \in 1..Cardinality(S) : i + n \notin S /\ \A k \in 0..(n - 1) : i + k \in S
<1> DEFINE c == Cardinality(S)
           T == {n \in Nat : i + n \notin S}
<1>1. c \in Nat
  BY FS_CardinalityType
<1>2. \E n \in 0..c : n \in T
  <2> SUFFICES ASSUME \A n \in 0..c : i + n \in S PROVE FALSE
    BY <1>1
  <2>1. i..(i + c) \in SUBSET S
    <3> SUFFICES ASSUME NEW o \in i..(i + c) PROVE o \in S
      OBVIOUS
    <3>1. o - i \in 0..c /\ o = i + (o - i)
      BY <1>1
    <3>2. QED
      BY <3>1
  <2>2. IsFiniteSet(i..(i + c)) /\ Cardinality(i..(i + c)) = c + 1
    <3>1. i \in Int /\ i + c \in Int /\ i <= i + c /\ (i + c) - i + 1 = c + 1
      BY <1>1
    <3>2. Cardinality(i..(i + c)) = IF i > i + c THEN 0 ELSE (i + c) - i + 1
      BY <3>1, FS_Interval
    <3>3. QED
      BY <3>1, <3>2, FS_Interval
  <2>3. Cardinality(i..(i + c)) <= c
    BY <2>1, FS_Subset
  <2>4. QED
    BY <1>1, <2>2, <2>3
<1>3. PICK m \in 0..c : m \in T
  BY <1>2
<1>4. PICK n \in T : \A k \in T : n <= k
  BY <1>3, Least
<1>5. n \in 1..c
  <2>1. n <= m /\ n \in Nat /\ n # 0
    BY <1>1, <1>3, <1>4
  <2>2. QED
    BY <1>1, <2>1
<1>6. i + n \notin S /\ \A k \in 0..(n - 1) : i + k \in S
  BY <1>4, <1>5
<1>7. QED
  BY <1>5, <1>6

\* The stretch of S an element lies in begins somewhere.
LEMMA StretchBegins ==
  ASSUME NEW S \in SUBSET Nat, NEW o \in S
  PROVE  \E h \in S : h - 1 \notin S /\ h <= o /\ \A x \in h..o : x \in S
<1> DEFINE T == {d \in Nat : o - d - 1 \notin S}
<1>1. o \in T
  <2>1. o \in Nat /\ o - o - 1 = -1 /\ -1 \notin Nat
    OBVIOUS
  <2>2. QED
    BY <2>1
<1>2. PICK d \in T : \A k \in T : d <= k
  BY <1>1, Least
<1>3. d \in Nat /\ d <= o /\ o \in Nat
  BY <1>1, <1>2
<1>4. \A k \in Nat : k < d => o - k - 1 \in S
  BY <1>2, <1>3
<1>5. ASSUME NEW x \in (o - d)..o PROVE x \in S
  <2>1. CASE x = o
    BY <2>1
  <2>2. CASE x # o
    <3>1. o - x - 1 \in Nat /\ o - x - 1 < d /\ o - (o - x - 1) - 1 = x
      BY <1>3, <2>2
    <3>2. QED
      BY <1>4, <3>1
  <2>3. QED
    BY <2>1, <2>2
<1>6. o - d \in S /\ (o - d) - 1 \notin S /\ o - d <= o
  BY <1>2, <1>3, <1>5
<1>7. QED
  BY <1>5, <1>6

\* The runs of a set of offsets cover it.
LEMMA RunsOfCover ==
  ASSUME NEW S \in SUBSET Nat, IsFiniteSet(S)
  PROVE  RunsOf(S) \in Seq(Runs) /\ Apart(RunsOf(S)) /\ Covers(RunsOf(S)) = S
<1> DEFINE heads == {i \in S : i - 1 \notin S}
           st == Ascending(heads)
           Length(i) == CHOOSE n \in 1..Cardinality(S) :
                          i + n \notin S /\ \A k \in 0..(n - 1) : i + k \in S
           q == RunsOf(S)
           N == Len(st)
<1>1. /\ st \in Seq(heads) /\ ToSet(st) = heads /\ N \in Nat
      /\ \A i, j \in 1..N : i < j => st[i] < st[j]
  <2>1. heads \in SUBSET S /\ heads \in SUBSET Int
    <3>1. heads \in SUBSET S
      OBVIOUS
    <3> HIDE DEF heads
    <3>2. QED
      BY <3>1
  <2>2. IsFiniteSet(heads)
    BY <2>1, FS_Subset
  <2> HIDE DEF heads
  <2>3. /\ st \in Seq(heads) /\ ToSet(st) = heads
        /\ \A i, j \in 1..N : i < j => st[i] < st[j]
    BY <2>1, <2>2, AscendingLists
  <2>4. QED
    BY <2>3
<1>2. \A i \in S : /\ Length(i) \in 1..Cardinality(S) /\ i + Length(i) \notin S
                   /\ \A k \in 0..(Length(i) - 1) : i + k \in S
  BY StretchEnds
<1>3. q = [k \in DOMAIN st |-> Run(st[k], Length(st[k]))]
  BY DEF RunsOf
<1> HIDE DEF st, Length, q
<1>4. \A i \in S : Length(i) \in Nat \ {0}
  BY <1>2, FS_CardinalityType
<1>5. DOMAIN st = 1..N /\ \A k \in 1..N : st[k] \in heads /\ st[k] \in S /\ st[k] \in Nat /\ st[k] - 1 \notin S
  <2>1. DOMAIN st = 1..N /\ \A k \in 1..N : st[k] \in heads
    <3> HIDE DEF heads
    <3>1. QED
      BY <1>1
  <2>2. \A i \in heads : i \in S /\ i \in Nat /\ i - 1 \notin S
    OBVIOUS
  <2> HIDE DEF heads
  <2>3. QED
    BY <2>1, <2>2
<1>6. \A k \in 1..N : q[k] \in Runs /\ q[k].offset = st[k] /\ q[k].length = Length(st[k])
  <2> SUFFICES ASSUME NEW k \in 1..N
               PROVE  q[k] \in Runs /\ q[k].offset = st[k] /\ q[k].length = Length(st[k])
    OBVIOUS
  <2>1. q[k] = Run(st[k], Length(st[k]))
    BY <1>3, <1>5
  <2>2. st[k] \in Nat /\ Length(st[k]) \in Nat
    BY <1>4, <1>5
  <2>3. QED
    BY <2>1, <2>2, RunTyped
<1>7. q \in Seq(Runs) /\ Len(q) = N /\ DOMAIN q = 1..N
  <2>1. q \in [1..N -> Runs]
    BY <1>3, <1>5, <1>6
  <2>2. QED
    BY <1>1, <2>1
<1>8. \A k \in 1..N : End(q[k]) = st[k] + Length(st[k])
  BY <1>6 DEF End
<1>9. \A k \in 1..N : \A o \in Nat : o \in Offset(q[k]) <=> st[k] <= o /\ o < st[k] + Length(st[k])
  BY <1>6, <1>8, OffsetIs
<1>10. ASSUME NEW k \in 1..N, NEW o \in Nat, st[k] <= o, o < st[k] + Length(st[k]) PROVE o \in S
  <2>1. o - st[k] \in 0..(Length(st[k]) - 1) /\ o = st[k] + (o - st[k])
    BY <1>4, <1>5, <1>10
  <2>2. QED
    BY <1>2, <1>5, <2>1
<1>11. Apart(q)
  <2>1. ASSUME NEW k \in 1..N PROVE q[k].length > 0
    BY <1>4, <1>5, <1>6
  <2>2. ASSUME NEW k \in 1..N, k > 1 PROVE q[k].offset > End(q[k - 1])
    <3> DEFINE j == k - 1
    <3>1. j \in 1..N /\ j < k /\ k \in 1..N
      BY <1>1, <2>2
    <3> HIDE DEF j
    <3>2. /\ st[j] < st[k] /\ st[j] \in Nat /\ st[k] \in Nat /\ st[k] - 1 \notin S
          /\ Length(st[j]) \in Nat
      BY <1>1, <1>4, <1>5, <3>1
    <3>3. ~(st[k] <= st[j] + Length(st[j]))
      <4> SUFFICES ASSUME st[k] <= st[j] + Length(st[j]) PROVE FALSE
        OBVIOUS
      <4>1. st[k] - 1 \in Nat /\ st[j] <= st[k] - 1 /\ st[k] - 1 < st[j] + Length(st[j])
        BY <3>2
      <4>2. st[k] - 1 \in S
        BY <1>10, <3>1, <4>1
      <4>3. QED
        BY <3>2, <4>2
    <3>4. st[k] > st[j] + Length(st[j])
      BY <3>2, <3>3
    <3>5. QED
      BY <1>6, <1>8, <3>1, <3>4 DEF j
  <2>3. QED
    BY <1>7, <2>1, <2>2 DEF Apart
<1>12. Covers(q) \subseteq S
  <2> SUFFICES ASSUME NEW o \in Covers(q) PROVE o \in S
    OBVIOUS
  <2>1. o \in Nat
    BY <1>7, CoversNat
  <2>2. PICK k \in 1..N : o \in Offset(q[k])
    BY <1>7, CoversIs
  <2>3. QED
    BY <1>9, <1>10, <2>1, <2>2
<1>13. S \subseteq Covers(q)
  <2> SUFFICES ASSUME NEW o \in S PROVE o \in Covers(q)
    OBVIOUS
  <2>1. PICK h \in S : h - 1 \notin S /\ h <= o /\ \A x \in h..o : x \in S
    BY StretchBegins
  <2>2. PICK k \in 1..N : st[k] = h
    <3>1. h \in ToSet(st)
      BY <1>1, <2>1
    <3>2. QED
      BY <1>5, <3>1 DEF ToSet
  <2>3. Length(h) \in Nat /\ h + Length(h) \notin S /\ h \in Nat /\ o \in Nat
    BY <1>2, <1>4
  <2>4. o < h + Length(h)
    BY <2>1, <2>3
  <2>5. o \in Offset(q[k])
    BY <1>9, <2>1, <2>2, <2>3, <2>4
  <2>6. QED
    BY <1>7, <2>5, CoversIs
<1>14. QED
  BY <1>7, <1>11, <1>12, <1>13 DEF q

\* subtractRuns: what the runs cover and those of subtract do not.
LEMMA SubtractCovers ==
  ASSUME NEW runs \in SUBSET Runs, IsFiniteSet(runs), NEW subtract \in SUBSET Runs, IsFiniteSet(subtract),
         NEW q, q = SubtractRuns(runs, subtract)
  PROVE  q \in Seq(Runs) /\ Apart(q) /\ Covers(q) = Offsets(runs) \ Offsets(subtract)
<1> DEFINE cuts == MergeRuns(subtract)
           R == ToSet(MergeRuns(runs))
           g == [run \in R |-> ToSet(Gaps(run.offset, End(run), cuts))]
           T == UNION {g[run] : run \in R}
<1>1. cuts \in Seq(Runs) /\ Apart(cuts) /\ Covers(cuts) = Offsets(subtract)
  BY MergeCovers
<1>2. MergeRuns(runs) \in Seq(Runs) /\ Offsets(R) = Offsets(runs)
  BY MergeCovers DEF Covers
<1>3. q = MergeRuns(T)
  <2>1. \A run \in R : g[run] = ToSet(Gaps(run.offset, End(run), cuts))
    OBVIOUS
  <2>2. {ToSet(Gaps(run.offset, End(run), cuts)) : run \in R} = {g[run] : run \in R}
    BY <2>1, Zenon
  <2>3. QED
    BY <2>2 DEF SubtractRuns
<1> HIDE DEF cuts, R
<1>4. IsFiniteSet(R) /\ R \in SUBSET Runs
  BY <1>2, ListFinite DEF R
<1>5. ASSUME NEW run \in R
      PROVE  /\ IsFiniteSet(g[run]) /\ g[run] \in SUBSET Runs
             /\ Offsets(g[run]) = Offset(run) \ Covers(cuts)
  <2> DEFINE G == Gaps(run.offset, End(run), cuts)
  <2>1. run.offset \in Nat /\ End(run) \in Nat /\ Offset(run) = run.offset..(End(run) - 1)
    BY <1>4, OffsetIs DEF Offset
  <2>2. G \in Seq(Runs) /\ Covers(G) = (run.offset..(End(run) - 1)) \ Covers(cuts)
    <3> DEFINE a == run.offset
               z == End(run)
    <3>1. a \in Nat /\ z \in Nat /\ cuts \in Seq(Runs) /\ Apart(cuts)
      BY ONLY <1>1, <2>1
    <3> HIDE DEF a, z
    <3>2. Gaps(a, z, cuts) \in Seq(Runs) /\ LeavesTheRest(a, z, cuts)
      BY ONLY <3>1, GapsCover, Zenon
    <3>3. QED
      BY ONLY <3>2, Zenon DEF a, z, LeavesTheRest
  <2>3. g[run] = ToSet(G)
    OBVIOUS
  <2> HIDE DEF G, g
  <2>4. QED
    BY <2>1, <2>2, <2>3, ListFinite DEF Covers
<1>6. g \in [R -> SUBSET Runs]
  <2>1. g = [run \in R |-> g[run]]
    OBVIOUS
  <2> HIDE DEF g
  <2>2. QED
    BY <1>5, <2>1
<1> HIDE DEF g
<1>7. T \in SUBSET Runs /\ IsFiniteSet(T)
  <2>1. IsFiniteSet({g[run] : run \in R})
    BY <1>4, <1>6, ImageFinite
  <2>2. IsFiniteSet(T)
    BY <1>5, <2>1, FS_UNION
  <2>3. QED
    BY <1>5, <2>2
<1>8. ASSUME NEW o PROVE o \in Offsets(T) <=> o \in Offsets(runs) /\ o \notin Offsets(subtract)
  <2>1. o \in Offsets(T) <=> \E run \in R : o \in Offsets(g[run])
    BY DEF Offsets
  <2>2. o \in Offsets(R) <=> \E run \in R : o \in Offset(run)
    BY DEF Offsets
  <2>3. QED
    BY <1>1, <1>2, <1>5, <2>1, <2>2
<1> HIDE DEF T
<1>9. QED
  BY <1>3, <1>7, <1>8, MergeCovers

\* complementRuns: what is left of a span.
LEMMA ComplementCovers ==
  ASSUME NEW covered \in SUBSET Runs, IsFiniteSet(covered), NEW span \in Nat,
         NEW q, q = ComplementRuns(covered, span)
  PROVE  q \in Seq(Runs) /\ Apart(q) /\ Covers(q) = (0..(span - 1)) \ Offsets(covered)
<1> DEFINE cuts == MergeRuns(covered)
           G == Gaps(0, span, cuts)
<1>1. cuts \in Seq(Runs) /\ Apart(cuts) /\ Covers(cuts) = Offsets(covered)
  BY MergeCovers
<1>2. q = MergeRuns(ToSet(G))
  BY DEF ComplementRuns
<1> HIDE DEF cuts
<1>3. G \in Seq(Runs) /\ Covers(G) = (0..(span - 1)) \ Offsets(covered)
  <2>1. 0 \in Nat /\ span \in Nat
    OBVIOUS
  <2>2. ASSUME NEW z \in Nat, z = 0
        PROVE  Gaps(z, span, cuts) \in Seq(Runs) /\ LeavesTheRest(z, span, cuts)
    BY ONLY <1>1, <2>1, z \in Nat, GapsCover, Zenon
  <2>3. G \in Seq(Runs) /\ LeavesTheRest(0, span, cuts)
    BY ONLY <2>2
  <2>4. Covers(G) = (0..(span - 1)) \ Covers(cuts)
    BY <2>3, Zenon DEF LeavesTheRest
  <2>5. QED
    BY <1>1, <2>3, <2>4
<1> HIDE DEF G
<1>4. ToSet(G) \in SUBSET Runs /\ IsFiniteSet(ToSet(G))
  BY <1>3, ListFinite
<1>5. QED
  BY <1>2, <1>3, <1>4, MergeCovers DEF Covers

\* computeChangedRuns, up to any span that both files lie within.
LEMMA ChangedCover ==
  ASSUME NEW a, NEW b, a.size \in Nat, b.size \in Nat,
         NEW q, q = ComputeChangedRuns(a, b)
  PROVE  /\ q \in Seq(Runs) /\ Apart(q)
         /\ \A span \in Nat : a.size <= span /\ b.size <= span =>
              Covers(q) = {i \in 0..(span - 1) : Differs(a, b, i)}
<1> DEFINE top == Longest({a.size, b.size})
           S == {i \in 0..(top - 1) : Differs(a, b, i)}
<1>1. top \in Nat /\ a.size <= top /\ b.size <= top /\ top \in {a.size, b.size}
  <2>1. {a.size, b.size} \in SUBSET Nat /\ {a.size, b.size} # {} /\ {a.size, b.size} = {a.size} \cup {b.size}
    OBVIOUS
  <2>2. IsFiniteSet({a.size, b.size})
    <3>1. IsFiniteSet({a.size})
      BY FS_Singleton
    <3>2. IsFiniteSet({a.size} \cup {b.size})
      BY <3>1, FS_AddElement
    <3>3. QED
      BY <2>1, <3>2
  <2>3. QED
    BY <2>1, <2>2, LongestIs
<1>2. q = RunsOf(S)
  BY DEF ComputeChangedRuns
<1> HIDE DEF top
<1>3. S \in SUBSET Nat /\ IsFiniteSet(S)
  <2>1. S \in SUBSET (0..(top - 1)) /\ S \in SUBSET Nat
    BY <1>1
  <2>2. IsFiniteSet(0..(top - 1))
    BY <1>1, FS_Interval
  <2>3. QED
    BY <2>1, <2>2, FS_Subset
<1>4. q \in Seq(Runs) /\ Apart(q) /\ Covers(q) = S
  BY <1>2, <1>3, RunsOfCover
<1>5. ASSUME NEW span \in Nat, a.size <= span, b.size <= span
      PROVE  S = {i \in 0..(span - 1) : Differs(a, b, i)}
  <2>1. top <= span
    BY <1>1, <1>5
  <2>2. \A i \in 0..(span - 1) : Differs(a, b, i) => i < top
    BY <1>1, <1>5 DEF Differs, ByteAt, InRange
  <2>3. \A i \in Nat : i \in 0..(top - 1) <=> i < top
    BY <1>1
  <2>4. \A i : i \in 0..(top - 1) <=> i \in 0..(span - 1) /\ i < top
    BY <1>1, <2>1
  <2>5. QED
    BY <2>2, <2>4
<1>6. QED
  BY <1>4, <1>5

Changed(baseline, samples, span) ==
  {i \in 0..(span - 1) : \E k \in DOMAIN samples : Differs(baseline, samples[k], i)}

\* InferBackupStructure accounts for every offset up to the longest file.
LEMMA InferCovers ==
  ASSUME NEW known \in SUBSET Runs, IsFiniteSet(known),
         NEW baseline, baseline.size \in Nat,
         NEW samples, IsFiniteSet(DOMAIN samples), \A k \in DOMAIN samples : samples[k].size \in Nat,
         NEW r, r = InferBackupStructure(known, baseline, samples)
  PROVE  LET changed == Changed(baseline, samples, r.span) IN
         /\ r.span \in Nat /\ baseline.size <= r.span
         /\ \A k \in DOMAIN samples : samples[k].size <= r.span
         /\ r.union \in Seq(Runs) /\ Apart(r.union) /\ Covers(r.union) = changed
         /\ r.undocumented \in Seq(Runs) /\ Apart(r.undocumented)
         /\ Covers(r.undocumented) = changed \ Offsets(known)
         /\ r.static \in Seq(Runs) /\ Apart(r.static)
         /\ Covers(r.static) = (0..(r.span - 1)) \ (changed \cup Offsets(known))
<1> DEFINE D == DOMAIN samples
           runs == [k \in D |-> ComputeChangedRuns(baseline, samples[k])]
           sets == [k \in D |-> ToSet(runs[k])]
           T == UNION {ToSet(runs[k]) : k \in D}
           union == MergeRuns(T)
           documented == ToSet(MergeRuns(known))
           sizes == [k \in D |-> samples[k].size]
           Z == {baseline.size} \cup {samples[k].size : k \in D}
           span == Longest(Z)
           changed == Changed(baseline, samples, span)
<1>1. /\ r.span = span /\ r.union = union
      /\ r.undocumented = SubtractRuns(ToSet(union), documented)
      /\ r.static = ComplementRuns(documented \cup ToSet(union), span)
  BY DEF InferBackupStructure
<1>2. Z \in SUBSET Nat /\ Z # {} /\ IsFiniteSet(Z)
  <2>1. Z \in SUBSET Nat /\ Z # {}
    OBVIOUS
  <2>2. sizes \in [D -> Nat] /\ {sizes[k] : k \in D} = {samples[k].size : k \in D}
    OBVIOUS
  <2> HIDE DEF sizes
  <2>3. IsFiniteSet({sizes[k] : k \in D})
    <3>1. IsFiniteSet(D)
      OBVIOUS
    <3>2. sizes \in [D -> Nat]
      BY <2>2
    <3> HIDE DEF D
    <3>3. QED
      BY ONLY <3>1, <3>2, ImageFinite
  <2>4. IsFiniteSet({samples[k].size : k \in D} \cup {baseline.size})
    BY <2>2, <2>3, FS_AddElement
  <2>5. Z = {samples[k].size : k \in D} \cup {baseline.size}
    OBVIOUS
  <2>6. QED
    BY <2>1, <2>4, <2>5
<1>3. span \in Nat /\ baseline.size <= span /\ \A k \in D : samples[k].size <= span
  <2>1. span \in Z /\ \A m \in Z : m <= span
    BY <1>2, LongestIs
  <2>2. baseline.size \in Z /\ \A k \in D : samples[k].size \in Z
    OBVIOUS
  <2> HIDE DEF Z, span
  <2>3. QED
    BY <1>2, <2>1, <2>2
<1> HIDE DEF span, Z
<1>4. ASSUME NEW k \in D
      PROVE  /\ runs[k] \in Seq(Runs)
             /\ Offsets(ToSet(runs[k])) = {i \in 0..(span - 1) : Differs(baseline, samples[k], i)}
  <2>1. runs[k] = ComputeChangedRuns(baseline, samples[k])
    OBVIOUS
  <2> HIDE DEF runs
  <2>2. QED
    BY <1>3, <2>1, ChangedCover DEF Covers
<1> HIDE DEF runs
<1>5. \A k \in D : IsFiniteSet(ToSet(runs[k])) /\ ToSet(runs[k]) \in SUBSET Runs
  BY <1>4, ListFinite
<1>6. T \in SUBSET Runs /\ IsFiniteSet(T)
  <2>1. sets \in [D -> SUBSET Runs] /\ {sets[k] : k \in D} = {ToSet(runs[k]) : k \in D}
    BY <1>5
  <2> HIDE DEF sets
  <2>2. IsFiniteSet({ToSet(runs[k]) : k \in D})
    <3>1. IsFiniteSet(D)
      OBVIOUS
    <3>2. sets \in [D -> SUBSET Runs]
      BY <2>1
    <3> HIDE DEF D
    <3>4. IsFiniteSet({sets[k] : k \in D})
      BY ONLY <3>1, <3>2, ImageFinite
    <3>3. QED
      BY <2>1, <3>4
  <2>3. IsFiniteSet(T)
    BY <1>5, <2>2, FS_UNION
  <2>4. QED
    BY <1>5, <2>3
<1>7. Offsets(T) = changed
  <2>1. \A o : o \in Offsets(T) <=> \E k \in D : o \in Offsets(ToSet(runs[k]))
    BY DEF Offsets
  <2>2. QED
    BY <1>4, <2>1 DEF Changed
<1> HIDE DEF T
<1>8. union \in Seq(Runs) /\ Apart(union) /\ Covers(union) = changed
  BY <1>6, <1>7, MergeCovers
<1>9. MergeRuns(known) \in Seq(Runs) /\ Offsets(documented) = Offsets(known)
  BY MergeCovers DEF Covers
<1>10. IsFiniteSet(documented) /\ documented \in SUBSET Runs
  BY <1>9, ListFinite
<1>11. IsFiniteSet(ToSet(union)) /\ ToSet(union) \in SUBSET Runs /\ Offsets(ToSet(union)) = changed
  BY <1>8, ListFinite DEF Covers
<1> HIDE DEF documented, union, changed
<1>12. /\ r.undocumented \in Seq(Runs) /\ Apart(r.undocumented)
       /\ Covers(r.undocumented) = changed \ Offsets(known)
  BY <1>1, <1>9, <1>10, <1>11, SubtractCovers
<1>13. /\ r.static \in Seq(Runs) /\ Apart(r.static)
       /\ Covers(r.static) = (0..(span - 1)) \ (changed \cup Offsets(known))
  <2>1. IsFiniteSet(documented \cup ToSet(union))
    BY <1>10, <1>11, FS_Union
  <2>2. documented \cup ToSet(union) \in SUBSET Runs
    BY <1>10, <1>11
  <2>3. Offsets(documented \cup ToSet(union)) = Offsets(known) \cup changed
    <3>1. Offsets(documented \cup ToSet(union)) = Offsets(documented) \cup Offsets(ToSet(union))
      BY DEF Offsets
    <3>2. QED
      BY <1>9, <1>11, <3>1
  <2>4. QED
    BY <1>1, <1>3, <2>1, <2>2, <2>3, ComplementCovers, ZenonT(60)
<1>14. QED
  BY <1>1, <1>3, <1>8, <1>12, <1>13 DEF changed

-----------------------------------------------------------------------------
(* The structure of backups                                                *)

\* What Infer reports of a library.
Inferred(library) ==
  LET samples == Samples(library)
      Data(k) == library.files[k].data
  IN  [kind |-> "infer", of |-> library, samples |-> samples,
       result |-> InferBackupStructure(Known, Data(Baseline(library)),
                    [k \in DOMAIN samples |-> Data(samples[k])])]

StructureInv ==
  report.kind = "infer" => \E library \in Libraries : ~LoadFails(library) /\ report = Inferred(library)

\* The baseline and the samples are the backups of the library.
LEMMA SamplesAre ==
  ASSUME NEW library \in Libraries, ~LoadFails(library)
  PROVE  /\ Baseline(library) \in Backups(library)
         /\ library.baseline # 0 => library.baseline = Baseline(library)
         /\ Samples(library) \in Seq(Nat) /\ DOMAIN Samples(library) = 1..Len(Samples(library))
         /\ ToSet(Samples(library)) = Backups(library) \ {Baseline(library)}
         /\ Cardinality(Backups(library)) = Len(Samples(library)) + 1
         /\ \A k \in Backups(library) : library.files[k].data.size \in Nat
<1> DEFINE B == Backups(library)
           b == Baseline(library)
           R == B \ {b}
<1>1. PICK n \in Nat : DOMAIN library.files = 1..n
  BY LibrariesAssumption
<1>2. B \in SUBSET (1..n) /\ B \in SUBSET Int /\ B \in SUBSET Nat
  BY <1>1 DEF Backups
<1>3. IsFiniteSet(B)
  <2>1. IsFiniteSet(1..n)
    <3> HIDE DEF B, b, R
    <3>1. 1 \in Int /\ n \in Int
      BY <1>1
    <3>2. QED
      BY ONLY <3>1, FS_Interval
  <2>2. B \subseteq 1..n
    BY <1>2
  <2> HIDE DEF B
  <2>3. QED
    BY ONLY <2>1, <2>2, FS_Subset, Zenon
<1>4. b \in B
  BY DEF LoadFails
<1>5. library.baseline # 0 => library.baseline = b
  BY DEF Baseline
<1>6. \A k \in B : library.files[k].data.size \in Nat
  <2>1. \A k \in B : k \in DOMAIN library.files /\ library.files[k].data # Unreadable
    BY DEF LoadFails, Backups
  <2>2. QED
    BY <2>1, LibrariesAssumption
<1> HIDE DEF B, b
<1>7. R \in SUBSET Int /\ R \in SUBSET Nat /\ IsFiniteSet(R) /\ Cardinality(R) = Cardinality(B) - 1
  BY <1>2, <1>3, <1>4, FS_RemoveElement
<1>8. Cardinality(B) \in Nat
  BY <1>3, FS_CardinalityType
<1>9. Samples(library) = Ascending(R)
  BY DEF Samples, B, b
<1> HIDE DEF R
<1>10. /\ Samples(library) \in Seq(R) /\ Len(Samples(library)) = Cardinality(R)
       /\ ToSet(Samples(library)) = R
  BY <1>7, <1>9, AscendingLists
<1>11. Samples(library) \in Seq(Nat) /\ DOMAIN Samples(library) = 1..Len(Samples(library))
  <2> DEFINE q == Samples(library)
  <2>1. q \in Seq(R) /\ R \in SUBSET Nat
    BY <1>7, <1>10
  <2> HIDE DEF q
  <2>2. /\ q = [i \in 1..Len(q) |-> q[i]] /\ Len(q) \in Nat /\ DOMAIN q = 1..Len(q)
        /\ \A i \in 1..Len(q) : q[i] \in Nat
    BY <2>1
  <2>3. q \in Seq(Nat)
    BY <2>2
  <2>4. QED
    BY <2>2, <2>3 DEF q
<1>12. ToSet(Samples(library)) = B \ {b} /\ Cardinality(B) = Len(Samples(library)) + 1
  <2>1. Cardinality(B) = Cardinality(R) + 1
    BY <1>7, <1>8
  <2>2. ToSet(Samples(library)) = B \ {b}
    BY <1>10 DEF R
  <2>3. QED
    BY <1>10, <2>1, <2>2
<1>13. QED
  BY <1>4, <1>5, <1>6, <1>11, <1>12, Zenon DEF B, b

LEMMA StructureIs ==
  ASSUME NEW library \in Libraries, ~LoadFails(library), report = Inferred(library)
  PROVE  StructureAccounted
<1> DEFINE samples == Samples(library)
           B == Backups(library)
           b == Baseline(library)
           data == library.files[b].data
           others == [k \in DOMAIN samples |-> library.files[samples[k]].data]
           r == InferBackupStructure(Known, data, others)
           changed == Changed(data, others, r.span)
<1>1. /\ b \in B
      /\ library.baseline # 0 => library.baseline = b
      /\ samples \in Seq(Nat) /\ DOMAIN samples = 1..Len(samples)
      /\ ToSet(samples) = B \ {b} /\ Cardinality(B) = Len(samples) + 1
      /\ \A k \in B : library.files[k].data.size \in Nat
  BY SamplesAre
<1>2. /\ report.of = library /\ report.samples = samples /\ report.result = r
  BY DEF Inferred
<1> HIDE DEF samples, B, b
<1>3. (CHOOSE k \in B : k \notin ToSet(samples)) = b
  BY <1>1
<1>4. data.size \in Nat /\ DOMAIN others = DOMAIN samples /\ IsFiniteSet(DOMAIN others)
      /\ \A k \in DOMAIN others : others[k].size \in Nat
  <2>1. IsFiniteSet(1..Len(samples))
    BY <1>1, FS_Interval
  <2>2. \A k \in DOMAIN samples : samples[k] \in ToSet(samples)
    BY <1>1 DEF ToSet
  <2>3. \A k \in DOMAIN samples : library.files[samples[k]].data.size \in Nat
    BY <1>1, <2>2
  <2>4. data.size \in Nat
    BY <1>1
  <2>5. /\ DOMAIN others = DOMAIN samples
        /\ \A k \in DOMAIN samples : others[k] = library.files[samples[k]].data
    OBVIOUS
  <2> HIDE DEF data, others
  <2>6. IsFiniteSet(DOMAIN others)
    BY <1>1, <2>1, <2>5
  <2>7. \A k \in DOMAIN others : others[k].size \in Nat
    BY <2>3, <2>5
  <2>8. QED
    BY <2>4, <2>5, <2>6, <2>7
<1>5. \A k \in DOMAIN samples : others[k] = library.files[samples[k]].data
  OBVIOUS
<1> HIDE DEF data, others, r
<1>6. /\ r.span \in Nat /\ data.size <= r.span
      /\ \A k \in DOMAIN others : others[k].size <= r.span
      /\ r.union \in Seq(Runs) /\ Apart(r.union) /\ Covers(r.union) = changed
      /\ r.undocumented \in Seq(Runs) /\ Apart(r.undocumented)
      /\ Covers(r.undocumented) = changed \ Offsets(Known)
      /\ r.static \in Seq(Runs) /\ Apart(r.static)
      /\ Covers(r.static) = (0..(r.span - 1)) \ (changed \cup Offsets(Known))
  BY <1>4, KnownAssumption, InferCovers DEF r
<1>7. \A k \in B : library.files[k].data.size <= r.span
  <2> SUFFICES ASSUME NEW k \in B PROVE library.files[k].data.size <= r.span
    OBVIOUS
  <2>1. CASE k = b
    BY <1>6, <2>1 DEF data
  <2>2. CASE k # b
    <3>1. PICK i \in DOMAIN samples : samples[i] = k
      BY <1>1, <2>2 DEF ToSet
    <3>2. QED
      BY <1>4, <1>5, <1>6, <3>1
  <2>3. QED
    BY <2>1, <2>2
<1>8. changed = {i \in 0..(r.span - 1) :
                   \E k \in ToSet(samples) : Differs(data, library.files[k].data, i)}
  <2>1. ASSUME NEW i
        PROVE  (\E k \in DOMAIN others : Differs(data, others[k], i))
               <=> \E k \in ToSet(samples) : Differs(data, library.files[k].data, i)
    BY <1>1, <1>4, <1>5 DEF ToSet
  <2>2. QED
    BY <2>1 DEF Changed
<1> HIDE DEF changed
<1>9. changed = {i \in 0..(report.result.span - 1) : \E k \in ToSet(report.samples) :
                   Differs(library.files[b].data, library.files[k].data, i)}
  BY <1>2, <1>8, Zenon DEF data
<1>10. (CHOOSE k \in Backups(report.of) : k \notin ToSet(report.samples)) = b
  BY <1>2, <1>3, Zenon DEF B
<1>11. Cardinality(Backups(report.of)) = Len(report.samples) + 1
  BY <1>1, <1>2, Zenon DEF B
<1>12. report.of.baseline # 0 => report.of.baseline = b
  BY <1>1, <1>2
<1>13. \A k \in Backups(report.of) : report.of.files[k].data.size <= report.result.span
  BY <1>2, <1>7, Zenon DEF B
<1>14. /\ Offsets(ToSet(report.result.union)) = changed
       /\ Offsets(ToSet(report.result.undocumented)) = changed \ Offsets(Known)
       /\ Offsets(ToSet(report.result.static)) =
            (0..(report.result.span - 1)) \ (changed \cup Offsets(Known))
       /\ Apart(report.result.union) /\ Apart(report.result.undocumented)
       /\ Apart(report.result.static)
  BY <1>2, <1>6, Zenon DEF Covers
<1>15. changed = {i \in 0..(report.result.span - 1) : \E k \in ToSet(report.samples) :
          Differs(report.of.files[CHOOSE x \in Backups(report.of) : x \notin ToSet(report.samples)].data,
                  report.of.files[k].data, i)}
  BY <1>2, <1>9, <1>10, Zenon
<1>16. report.of.baseline # 0 =>
         report.of.baseline = CHOOSE k \in Backups(report.of) : k \notin ToSet(report.samples)
  BY <1>10, <1>12, Zenon
<1>17. QED
  BY <1>11, <1>13, <1>14, <1>15, <1>16, Zenon DEF StructureAccounted

LEMMA StructureStep == ASSUME StructureInv, [Next]_vars PROVE StructureInv'
<1>1. CASE Infer
  <2>1. report' = report \/ \E library \in Libraries : ~LoadFails(library) /\ report' = Inferred(library)
    BY <1>1, Zenon DEF Infer, Shown, Inferred
  <2>2. QED
    BY <2>1 DEF StructureInv, Inferred
<1>2. CASE Decode \/ Diff \/ Probe
  <2>1. \/ report' = report
        \/ \E x, y : report' = [kind |-> "decode", of |-> x, fields |-> y]
        \/ \E x, y : report' = [kind |-> "diff", of |-> x, result |-> y]
        \/ \E x, y : report' = [kind |-> "scan", of |-> x, result |-> y]
    BY <1>2, Zenon DEF Decode, Diff, Probe, Shown
  <2>2. report' = report \/ report'.kind \in {"decode", "diff", "scan"}
    BY <2>1
  <2>3. QED
    BY <2>2 DEF StructureInv
<1>3. CASE \/ Parse \/ Check \/ Scan \/ Suite \/ Connect \/ Login \/ GetSystemInfo \/ Request \/ Script
           \/ Interact \/ Logout \/ UNCHANGED vars
  <2>1. report' = report
    BY <1>3 DEF Parse, Check, Scan, Suite, Connect, Login, GetSystemInfo, Request, Script, Interact, Logout, vars
  <2>2. QED
    BY <2>1 DEF StructureInv
<1>4. QED
  BY <1>1, <1>2, <1>3 DEF Next

\* For any library of backups and any documented ranges, every offset is accounted for
\* once: known, or changed and undocumented, or the same everywhere and unknown
\* (InferBackupStructure, and the loading of the directory).
THEOREM OffsetsAccounted == Spec => []StructureAccounted
<1>1. Init => StructureInv
  BY DEF Init, StructureInv, NoReport
<1>2. StructureInv => StructureAccounted
  <2>1. CASE report.kind = "infer"
    BY <2>1, StructureIs DEF StructureInv
  <2>2. CASE report.kind # "infer"
    BY <2>2 DEF StructureAccounted
  <2>3. QED
    BY <2>1, <2>2
<1>3. QED
  BY <1>1, <1>2, StructureStep, PTL DEF Spec
-----------------------------------------------------------------------------
(* The comparison of two backups                                           *)

\* What a run of a list that is apart touches.
LEMMA Edges ==
  ASSUME NEW q \in Seq(Runs), Apart(q), NEW i \in 1..Len(q)
  PROVE  /\ q[i].length > 0 /\ Offset(q[i]) \subseteq Covers(q)
         /\ q[i].offset - 1 \notin Covers(q) /\ End(q[i]) \notin Covers(q)
<1>1. \A k \in 1..Len(q) : /\ q[k] \in Runs /\ q[k].offset \in Nat /\ q[k].length \in Nat
                           /\ End(q[k]) \in Nat /\ End(q[k]) = q[k].offset + q[k].length
                           /\ q[k].length > 0
                           /\ \A o \in Nat : o \in Offset(q[k]) <=> q[k].offset <= o /\ o < End(q[k])
  <2>1. DOMAIN q = 1..Len(q) /\ \A k \in 1..Len(q) : q[k] \in Runs
    OBVIOUS
  <2>2. QED
    BY <2>1, OffsetIs DEF Apart
<1>2. \A j, k \in 1..Len(q) : j < k => q[k].offset > End(q[j])
  BY ApartOrders
<1>3. Covers(q) \subseteq Nat
  BY CoversNat
<1>4. ASSUME NEW o \in Nat, NEW k \in 1..Len(q), o \in Offset(q[k])
      PROVE  o # q[i].offset - 1 /\ o # End(q[i])
  <2>1. q[k].offset <= o /\ o < End(q[k])
    BY <1>1, <1>4
  <2>2. CASE k = i
    BY <1>1, <2>1, <2>2
  <2>3. CASE k < i
    BY <1>1, <1>2, <2>1, <2>3
  <2>4. CASE k > i
    <3>1. q[k].offset > End(q[i])
      BY ONLY <1>2, <2>4, k \in 1..Len(q), i \in 1..Len(q)
    <3>2. o \in Nat /\ q[k].offset \in Nat /\ q[i].offset \in Nat /\ End(q[i]) \in Nat
          /\ q[i].offset <= End(q[i])
      BY <1>1
    <3>3. QED
      BY ONLY <2>1, <3>1, <3>2
  <2>5. k = i \/ k < i \/ k > i
    OBVIOUS
  <2>6. QED
    BY ONLY <2>2, <2>3, <2>4, <2>5
<1>5. \A o \in Covers(q) : o \in Nat /\ \E k \in 1..Len(q) : o \in Offset(q[k])
  BY <1>3, CoversIs
<1>6. \A o \in Covers(q) : o # q[i].offset - 1 /\ o # End(q[i])
  BY <1>4, <1>5
<1>7. Offset(q[i]) \subseteq Covers(q)
  BY CoversIs
<1>8. QED
  BY <1>1, <1>6, <1>7

\* Two such lists that cover the same have the same runs,
LEMMA SameRun ==
  ASSUME NEW p \in Seq(Runs), Apart(p), NEW q \in Seq(Runs), Apart(q), Covers(p) = Covers(q),
         NEW i \in 1..Len(p)
  PROVE  \E j \in 1..Len(q) : q[j] = p[i]
<1> DEFINE r == p[i]
<1>1. r \in Runs /\ r.length > 0 /\ Offset(r) \subseteq Covers(p)
      /\ r.offset - 1 \notin Covers(p) /\ End(r) \notin Covers(p)
  BY Edges
<1> HIDE DEF r
<1>2. /\ r.offset \in Nat /\ End(r) \in Nat /\ End(r) = r.offset + r.length /\ r.length \in Nat
      /\ \A o \in Nat : o \in Offset(r) <=> r.offset <= o /\ o < End(r)
  BY <1>1, OffsetIs
<1>3. r.offset \in Covers(q)
  BY <1>1, <1>2, SMTT(40)
<1>4. PICK j \in 1..Len(q) : r.offset \in Offset(q[j])
  BY <1>3, CoversIs
<1> DEFINE s == q[j]
<1>5. s \in Runs /\ s.length > 0 /\ Offset(s) \subseteq Covers(q)
      /\ s.offset - 1 \notin Covers(q) /\ End(s) \notin Covers(q) /\ r.offset \in Offset(s)
  BY <1>4, Edges
<1> HIDE DEF s
<1>6. /\ s.offset \in Nat /\ End(s) \in Nat /\ End(s) = s.offset + s.length /\ s.length \in Nat
      /\ \A o \in Nat : o \in Offset(s) <=> s.offset <= o /\ o < End(s)
  BY <1>5, OffsetIs
<1>7. s.offset = r.offset
  <2>1. s.offset <= r.offset /\ r.offset < End(s)
    BY <1>2, <1>5, <1>6
  <2>2. ~(s.offset < r.offset)
    <3> SUFFICES ASSUME s.offset < r.offset PROVE FALSE
      OBVIOUS
    <3>1. r.offset - 1 \in Nat /\ s.offset <= r.offset - 1 /\ r.offset - 1 < End(s)
      BY <1>2, <1>6, <2>1
    <3>2. r.offset - 1 \in Covers(q)
      BY <1>5, <1>6, <3>1
    <3>3. QED
      BY <1>1, <3>2
  <2>3. QED
    BY <1>2, <1>6, <2>1, <2>2
<1>8. End(s) = End(r)
  <2>1. ~(End(s) < End(r))
    BY <1>1, <1>2, <1>5, <1>6, <1>7
  <2>2. ~(End(r) < End(s))
    BY <1>1, <1>2, <1>5, <1>6, <1>7
  <2>3. QED
    BY <1>2, <1>6, <2>1, <2>2
<1>9. s.length = r.length
  BY <1>2, <1>6, <1>7, <1>8
<1>10. s = r
  <2>1. s = [offset |-> s.offset, length |-> s.length]
    BY <1>5 DEF Runs
  <2>2. r = [offset |-> r.offset, length |-> r.length]
    BY <1>1 DEF Runs
  <2>3. QED
    BY ONLY <2>1, <2>2, <1>7, <1>9
<1>11. QED
  BY <1>10 DEF r, s

\* and are the same.
LEMMA SameList ==
  ASSUME NEW p \in Seq(Runs), Apart(p), NEW q \in Seq(Runs), Apart(q), Covers(p) = Covers(q)
  PROVE  p = q
<1>1. /\ Len(p) \in Nat /\ DOMAIN p = 1..Len(p) /\ p = [i \in 1..Len(p) |-> p[i]]
      /\ Len(q) \in Nat /\ DOMAIN q = 1..Len(q) /\ q = [i \in 1..Len(q) |-> q[i]]
  OBVIOUS
<1>2. /\ \A i \in 1..Len(p) : \E j \in 1..Len(q) : q[j] = p[i]
      /\ \A i \in 1..Len(q) : \E j \in 1..Len(p) : p[j] = q[i]
  BY SameRun
<1>3. /\ \A i, j \in 1..Len(p) : i < j => p[i].offset < p[j].offset
      /\ \A i, j \in 1..Len(q) : i < j => q[i].offset < q[j].offset
      /\ \A i \in 1..Len(p) : p[i].offset \in Nat
      /\ \A i \in 1..Len(q) : q[i].offset \in Nat
  <2>1. ASSUME NEW x \in Seq(Runs), Apart(x)
        PROVE  /\ \A i \in 1..Len(x) : x[i].offset \in Nat
               /\ \A i, j \in 1..Len(x) : i < j => x[i].offset < x[j].offset
    <3>1. \A i \in 1..Len(x) : x[i] \in Runs
      OBVIOUS
    <3>2. \A i \in 1..Len(x) : /\ x[i].offset \in Nat /\ x[i].length \in Nat
                               /\ End(x[i]) = x[i].offset + x[i].length
      BY <3>1, OffsetIs
    <3>3. \A i, j \in 1..Len(x) : i < j => x[j].offset > End(x[i])
      BY <2>1, ApartOrders
    <3>4. QED
      BY <3>2, <3>3
  <2>2. QED
    BY <2>1
<1> DEFINE Alike(n) == \A i \in 1..n : i \in 1..Len(p) \/ i \in 1..Len(q) =>
                         i \in 1..Len(p) /\ i \in 1..Len(q) /\ p[i] = q[i]
           Done == {n \in Nat : Alike(n)}
<1>4. Alike(0)
  OBVIOUS
<1>5. ASSUME NEW n \in Nat, Alike(n) PROVE Alike(n + 1)
  <2> DEFINE m == n + 1
  <2>1. m \in Nat /\ m > 0 /\ \A i \in 1..m : i \in 1..n \/ i = m
    OBVIOUS
  <2>0. m = n + 1 /\ \A i \in Nat : i > 0 /\ i < m => i \in 1..n
    OBVIOUS
  <2> HIDE DEF m
  <2>2. ASSUME m \in 1..Len(p) PROVE m \in 1..Len(q) /\ p[m] = q[m]
    <3>1. PICK j \in 1..Len(q) : q[j] = p[m]
      BY <1>2, <2>2
    <3>2. j >= m
      <4> SUFFICES ASSUME j < m PROVE FALSE
        BY <1>1, <2>1, <3>1
      <4>1. j \in 1..n
        BY <1>1, <2>0
      <4>2. p[j] = q[j] /\ j \in 1..Len(p)
        BY <1>5, <4>1
      <4>3. QED
        BY <1>3, <2>2, <3>1, <4>2
    <3>3. m \in 1..Len(q)
      BY <1>1, <2>1, <3>2
    <3>4. PICK k \in 1..Len(p) : p[k] = q[m]
      BY <1>2, <3>3
    <3>5. k >= m
      <4> SUFFICES ASSUME k < m PROVE FALSE
        BY <1>1, <2>1, <3>4
      <4>1. k \in 1..n
        BY <1>1, <2>0
      <4>2. p[k] = q[k] /\ k \in 1..Len(q)
        BY <1>5, <4>1
      <4>3. q[k].offset < q[m].offset
        <5>1. k < m
          OBVIOUS
        <5>2. QED
          BY ONLY <1>3, <3>3, <4>2, <5>1
      <4>4. QED
        BY ONLY <1>3, <3>3, <3>4, <4>2, <4>3
    <3>6. p[m] = q[m]
      <4>1. ~(j > m)
        <5> SUFFICES ASSUME j > m PROVE FALSE
          OBVIOUS
        <5>1. q[m].offset < q[j].offset
          BY <1>3, <3>1, <3>3
        <5>2. k = m \/ p[m].offset < p[k].offset
          BY <1>3, <2>2, <3>4, <3>5
        <5>3. QED
          BY <1>3, <2>2, <3>1, <3>3, <3>4, <5>1, <5>2
      <4>2. j = m
        BY <1>1, <2>1, <3>1, <3>2, <4>1
      <4>3. QED
        BY <3>1, <4>2
    <3>7. QED
      BY <3>3, <3>6
  <2>3. ASSUME m \in 1..Len(q) PROVE m \in 1..Len(p)
    <3>1. PICK k \in 1..Len(p) : p[k] = q[m]
      BY <1>2, <2>3
    <3>2. k >= m
      <4> SUFFICES ASSUME k < m PROVE FALSE
        BY <1>1, <2>1, <3>1
      <4>1. k \in 1..n
        BY <1>1, <2>0
      <4>2. p[k] = q[k] /\ k \in 1..Len(q)
        BY <1>5, <4>1
      <4>3. q[k].offset < q[m].offset
        <5>1. k < m
          OBVIOUS
        <5>2. QED
          BY ONLY <1>3, <2>3, <4>2, <5>1
      <4>4. QED
        BY ONLY <1>3, <2>3, <3>1, <4>2, <4>3
    <3>3. QED
      BY <1>1, <2>1, <2>3, <3>2
  <2>4. ASSUME NEW i \in 1..m, i \in 1..Len(p) \/ i \in 1..Len(q)
        PROVE  i \in 1..Len(p) /\ i \in 1..Len(q) /\ p[i] = q[i]
    <3>1. CASE i \in 1..n
      BY <1>5, <2>4, <3>1
    <3>2. CASE i = m
      BY <2>2, <2>3, <2>4, <3>2
    <3>3. QED
      BY <2>1, <3>1, <3>2
  <2>5. QED
    BY <2>4 DEF m
<1> HIDE DEF Alike
<1>6. Done = Nat
  <2>1. Done \in SUBSET Nat /\ 0 \in Done /\ \A n \in Done : n + 1 \in Done
    BY <1>4, <1>5
  <2> HIDE DEF Done
  <2>2. QED
    BY <2>1, Induction
<1>7. \A n \in Nat : Alike(n)
  BY <1>6
<1>8. Alike(Len(p)) /\ Alike(Len(q))
  BY <1>1, <1>7, SMTT(40)
<1>9. Len(p) = Len(q) /\ \A i \in 1..Len(p) : p[i] = q[i]
  BY <1>1, <1>8 DEF Alike
<1>10. QED
  BY <1>1, <1>9

\* The runs of a comparison, merged, are those of the structure inference, and its
\* count is that of their offsets.
LEMMA ComparedRuns ==
  ASSUME NEW base, NEW candidate, base.size \in Nat, candidate.size \in Nat,
         NEW r, r = CompareBackupConfigs(base, candidate)
  PROVE  /\ MergeRuns(ToSet(r.runs)) = ComputeChangedRuns(base, candidate)
         /\ r.changed = Cardinality(Offsets(ToSet(r.runs)))
<1> DEFINE low == IF base.size < candidate.size THEN base.size ELSE candidate.size
           moved == {i \in 0..(low - 1) : ByteAt(base, i) # ByteAt(candidate, i)}
           extra == base.size + candidate.size - 2 * low
           tail == low..(low + extra - 1)
<1>1. /\ low \in Nat /\ extra \in Nat /\ base.size <= low + extra /\ candidate.size <= low + extra
      /\ \/ base.size = low /\ candidate.size = low + extra
         \/ base.size = low + extra /\ candidate.size = low
  <2> HIDE DEF moved, tail
  <2>1. CASE base.size < candidate.size
    BY <2>1
  <2>2. CASE ~(base.size < candidate.size)
    BY <2>2
  <2>3. QED
    BY <2>1, <2>2
<1>2. /\ r.runs = RunsOf(moved) \o IF extra = 0 THEN <<>> ELSE <<Run(low, extra)>>
      /\ r.changed = Cardinality(moved) + extra
  BY Zenon DEF CompareBackupConfigs
<1>3. \A i : i \in moved <=> i \in 0..(low - 1) /\ ByteAt(base, i) # ByteAt(candidate, i)
  OBVIOUS
<1>4. \A i : i \in tail <=> i \in low..(low + extra - 1)
  OBVIOUS
<1> HIDE DEF low, extra, moved, tail
<1>5. moved \in SUBSET Nat /\ IsFiniteSet(moved)
  <2>1. IsFiniteSet(0..(low - 1))
    BY <1>1, FS_Interval
  <2>2. moved \subseteq 0..(low - 1)
    BY <1>3
  <2>3. IsFiniteSet(moved)
    BY ONLY <2>1, <2>2, FS_Subset
  <2>4. QED
    BY <1>1, <2>2, <2>3
<1>6. RunsOf(moved) \in Seq(Runs) /\ Covers(RunsOf(moved)) = moved
  BY <1>5, RunsOfCover
<1>7. r.runs \in Seq(Runs) /\ Covers(r.runs) = moved \cup tail
  <2>1. CASE extra = 0
    <3>1. r.runs = RunsOf(moved)
      BY <1>2, <1>6, <2>1
    <3>2. tail = {}
      BY <1>1, <1>4, <2>1
    <3>3. QED
      BY <1>6, <3>1, <3>2
  <2>2. CASE extra # 0
    <3> DEFINE x == Run(low, extra)
    <3>1. x \in Runs /\ x.offset = low /\ x.length = extra
      BY <1>1, RunTyped
    <3> HIDE DEF x
    <3>2. r.runs = Append(RunsOf(moved), x)
      BY <1>2, <1>6, <2>2, <3>1 DEF x
    <3>3. Offset(x) = tail
      BY <1>1, <3>1 DEF Offset, End, tail
    <3>4. QED
      BY <1>6, <3>1, <3>2, <3>3, AppendCovers
  <2>3. QED
    BY <2>1, <2>2
<1> DEFINE q == ComputeChangedRuns(base, candidate)
<1>8. q \in Seq(Runs) /\ Apart(q) /\ Covers(q) = {i \in 0..(low + extra - 1) : Differs(base, candidate, i)}
  <2>1. low + extra \in Nat
    BY <1>1
  <2>2. QED
    BY <1>1, <2>1, ChangedCover
<1> HIDE DEF q
<1>9. Covers(q) = moved \cup tail
  <2>1. ASSUME NEW i \in 0..(low + extra - 1)
        PROVE  Differs(base, candidate, i) <=> i \in moved \/ i \in tail
    <3>1. CASE i < low
      <4>1. InRange(base, i) /\ InRange(candidate, i)
        BY <1>1, <3>1 DEF InRange
      <4>2. QED
        BY <1>1, <1>3, <1>4, <3>1, <4>1 DEF Differs
    <3>2. CASE ~(i < low)
      <4>1. InRange(base, i) # InRange(candidate, i)
        BY <1>1, <3>2 DEF InRange
      <4>2. i \in tail
        BY <1>1, <1>4, <3>2
      <4>3. QED
        BY <4>1, <4>2 DEF Differs
    <3>3. QED
      BY <3>1, <3>2
  <2>2. \A i : i \in moved \/ i \in tail => i \in 0..(low + extra - 1)
    BY <1>1, <1>3, <1>4
  <2>3. QED
    BY <1>8, <2>1, <2>2
<1>10. ToSet(r.runs) \in SUBSET Runs /\ IsFiniteSet(ToSet(r.runs))
  BY <1>7, ListFinite
<1>11. /\ MergeRuns(ToSet(r.runs)) \in Seq(Runs) /\ Apart(MergeRuns(ToSet(r.runs)))
       /\ Covers(MergeRuns(ToSet(r.runs))) = Offsets(ToSet(r.runs))
  BY <1>10, MergeCovers
<1>12. Offsets(ToSet(r.runs)) = moved \cup tail
  BY <1>7 DEF Covers
<1>13. MergeRuns(ToSet(r.runs)) = q
  BY <1>8, <1>9, <1>11, <1>12, SameList
<1>14. Cardinality(moved \cup tail) = Cardinality(moved) + extra
  <2>1. IsFiniteSet(tail) /\ Cardinality(tail) = extra
    <3> DEFINE top == low + extra - 1
    <3>1. low \in Int /\ top \in Int /\ (low > top <=> extra = 0) /\ top - low + 1 = extra
      BY <1>1
    <3>2. tail = low..top
      BY DEF tail
    <3> HIDE DEF top
    <3>3. /\ IsFiniteSet(low..top)
          /\ Cardinality(low..top) = IF low > top THEN 0 ELSE top - low + 1
      BY ONLY <3>1, FS_Interval
    <3>4. QED
      BY <1>1, <3>1, <3>2, <3>3
  <2>2. moved \cap tail = {}
    BY <1>1, <1>3, <1>4
  <2>3. Cardinality(moved \cup tail) = Cardinality(moved) + Cardinality(tail) - Cardinality(moved \cap tail)
    BY ONLY <1>5, <2>1, FS_Union
  <2>4. Cardinality(moved) \in Nat /\ Cardinality({}) = 0
    BY <1>5, FS_CardinalityType, FS_EmptySet
  <2>5. QED
    <3>1. Cardinality(moved \cap tail) = 0
      BY ONLY <2>2, <2>4
    <3>2. QED
      BY ONLY <1>1, <2>1, <2>3, <2>4, <3>1
<1>15. QED
  BY <1>2, <1>12, <1>13, <1>14 DEF q
-----------------------------------------------------------------------------
(* The fields of a backup                                                  *)

FlagNames == {"Spanning-tree", "IGMP", "IGMP-report-suppression", "LED"}

\* What the report has of each field.
LEMMA StateIs ==
  ASSUME NEW data, NEW f
  PROVE  /\ f[1] = "Hostname" => State(data, f) = CString(data, 23)
         /\ f[1] = "IP" => State(data, f) = Bytes(data, 5..8)
         /\ f[1] = "Netmask" => State(data, f) = Bytes(data, 9..12)
         /\ f[1] = "Gateway" => State(data, f) = Bytes(data, 13..16)
         /\ f[1] = "DHCP" => State(data, f) = <<ByteAt(data, 16) # 0>>
         /\ f[1] = "Mirror-destination" => State(data, f) = Mirror(data)
         /\ f[1] = "Port-VLAN-mode" => State(data, f) = PortVLANMode(data)
         /\ f[1] = "Port-VLAN-members" => State(data, f) = Bytes(data, {MatrixAt(1)})
         /\ f[1] = "Port-VLAN-IDs" => State(data, f) = Bytes(data, {PortIDAt(p) : p \in SwitchPorts})
         /\ f[1] = "QoS-mode" => State(data, f) = QoSMode(data)
         /\ f[1] = "QoS-priorities" => State(data, f) = Priorities(data)
         /\ f[1] = "QoS-gi1-priority" => State(data, f) = Priority(data)
         /\ f[1] = "VLAN-name" => State(data, f) = CString(data, VLANNameAt)
         /\ f[1] = "Storm" => State(data, f) = Bytes(data, {StormAt(f[2], f[3])})
         /\ f[1] \in FlagNames => State(data, f) = Enabled(data, FlagAt(f[1]))
BY DEF State, FlagNames

\* A run of one byte covers its offset.
LEMMA RunOffsets == ASSUME NEW o \in Nat PROVE Offset(Run(o, 1)) = {o}
BY SMTT(40) DEF Offset, End, Run

\* Where each field is documented to be.
LEMMA KnownAre ==
  ASSUME NEW f
  PROVE  /\ f[1] = "Hostname" => KnownRanges(f) = {Run(23, NameLength)}
         /\ f[1] = "IP" => KnownRanges(f) = {Run(5, 4)}
         /\ f[1] = "Netmask" => KnownRanges(f) = {Run(9, 4)}
         /\ f[1] = "Gateway" => KnownRanges(f) = {Run(13, 4)}
         /\ f[1] = "DHCP" => KnownRanges(f) = One(16)
         /\ f[1] = "Mirror-destination" => KnownRanges(f) = One(MirrorDestination)
         /\ f[1] = "Port-VLAN-mode" => KnownRanges(f) = One(PortVLANModeA) \cup One(PortVLANModeB)
         /\ f[1] = "Port-VLAN-members" => KnownRanges(f) = {Run(MatrixAt(p), 1) : p \in SwitchPorts}
         /\ f[1] = "Port-VLAN-IDs" => KnownRanges(f) = {Run(PortIDAt(p), 1) : p \in SwitchPorts}
         /\ f[1] = "QoS-mode" =>
              KnownRanges(f) = One(QoSModeSigA) \cup One(QoSModeSigB) \cup One(QoSModeSigC)
         /\ f[1] = "QoS-priorities" => KnownRanges(f) = {Run(PriorityAt(p), 1) : p \in SwitchPorts}
         /\ f[1] = "QoS-gi1-priority" => KnownRanges(f) = One(PriorityAt(1))
         /\ f[1] = "VLAN-name" => KnownRanges(f) = {Run(VLANNameAt, NameLength)}
         /\ f[1] = "Storm" => KnownRanges(f) = One(StormAt(f[2], f[3]))
         /\ f[1] = "Spanning-tree" =>
              KnownRanges(f) = One(LoopPreventionFlag) \cup One(LoopPreventionMode)
         /\ f[1] = "IGMP" => KnownRanges(f) = One(IGMPFlag)
         /\ f[1] = "IGMP-report-suppression" => KnownRanges(f) = One(IGMPReportSuppFlag)
         /\ f[1] = "LED" => KnownRanges(f) = One(LEDFlag)
BY DEF KnownRanges

\* Where each flag is.
LEMMA FlagIs ==
  /\ FlagAt("Spanning-tree") = LoopPreventionFlag /\ FlagAt("IGMP") = IGMPFlag
  /\ FlagAt("IGMP-report-suppression") = IGMPReportSuppFlag /\ FlagAt("LED") = LEDFlag
BY DEF FlagAt

\* And the offsets of those ranges.
LEMMA OffsetsAre ==
  ASSUME NEW f \in Fields
  PROVE  /\ f[1] = "Hostname" => KnownOffsets(f) = 23..54
         /\ f[1] = "IP" => KnownOffsets(f) = 5..8
         /\ f[1] = "Netmask" => KnownOffsets(f) = 9..12
         /\ f[1] = "Gateway" => KnownOffsets(f) = 13..16
         /\ f[1] = "DHCP" => KnownOffsets(f) = {16}
         /\ f[1] = "Mirror-destination" => KnownOffsets(f) = {MirrorDestination}
         /\ f[1] = "Port-VLAN-mode" => KnownOffsets(f) = {PortVLANModeA, PortVLANModeB}
         /\ f[1] = "Port-VLAN-members" => KnownOffsets(f) = {MatrixAt(p) : p \in SwitchPorts}
         /\ f[1] = "Port-VLAN-IDs" => KnownOffsets(f) = {PortIDAt(p) : p \in SwitchPorts}
         /\ f[1] = "QoS-mode" => KnownOffsets(f) = {QoSModeSigA, QoSModeSigB, QoSModeSigC}
         /\ f[1] = "QoS-priorities" => KnownOffsets(f) = {PriorityAt(p) : p \in SwitchPorts}
         /\ f[1] = "QoS-gi1-priority" => KnownOffsets(f) = {PriorityAt(1)}
         /\ f[1] = "VLAN-name" => KnownOffsets(f) = VLANNameAt..(VLANNameAt + 31)
         /\ f[1] = "Storm" => KnownOffsets(f) = {StormAt(f[2], f[3])}
         /\ f[1] = "Spanning-tree" => KnownOffsets(f) = {LoopPreventionFlag, LoopPreventionMode}
         /\ f[1] = "IGMP" => KnownOffsets(f) = {IGMPFlag}
         /\ f[1] = "IGMP-report-suppression" => KnownOffsets(f) = {IGMPReportSuppFlag}
         /\ f[1] = "LED" => KnownOffsets(f) = {LEDFlag}
<1>1. ASSUME NEW o \in Nat, KnownRanges(f) = One(o) PROVE KnownOffsets(f) = {o}
  BY <1>1, RunOffsets DEF KnownOffsets, One
<1>2. ASSUME NEW o \in Nat, NEW n \in Nat, KnownRanges(f) = {Run(o, n)}
      PROVE  KnownOffsets(f) = o..(o + n - 1)
  BY <1>2 DEF KnownOffsets, Offset, End, Run
<1>3. ASSUME NEW a \in Nat, NEW b \in Nat, KnownRanges(f) = One(a) \cup One(b)
      PROVE  KnownOffsets(f) = {a, b}
  BY <1>3, RunOffsets DEF KnownOffsets, One
<1>4. ASSUME NEW a \in Nat, NEW b \in Nat, NEW c \in Nat,
             KnownRanges(f) = One(a) \cup One(b) \cup One(c)
      PROVE  KnownOffsets(f) = {a, b, c}
  BY <1>4, RunOffsets DEF KnownOffsets, One
<1>6. \A p \in SwitchPorts : MatrixAt(p) \in Nat /\ PortIDAt(p) \in Nat /\ PriorityAt(p) \in Nat
  BY DEF SwitchPorts, MatrixAt, PortIDAt, PriorityAt
<1>7. f[1] = "Storm" => StormAt(f[2], f[3]) \in Nat
  BY DEF Fields, SwitchPorts, StormSlots, StormAt
<1>8. /\ 1 \in SwitchPorts /\ NameLength = 32 /\ VLANNameAt \in Nat /\ MirrorDestination \in Nat
      /\ PortVLANModeA \in Nat /\ PortVLANModeB \in Nat /\ QoSModeSigA \in Nat /\ QoSModeSigB \in Nat
      /\ QoSModeSigC \in Nat /\ LoopPreventionFlag \in Nat /\ LoopPreventionMode \in Nat
      /\ IGMPFlag \in Nat /\ IGMPReportSuppFlag \in Nat /\ LEDFlag \in Nat
  BY DEF SwitchPorts, NameLength, VLANNameAt, MirrorDestination, PortVLANModeA, PortVLANModeB,
         QoSModeSigA, QoSModeSigB, QoSModeSigC, LoopPreventionFlag, LoopPreventionMode, IGMPFlag,
         IGMPReportSuppFlag, LEDFlag
<1>9. /\ f[1] = "Hostname" => KnownOffsets(f) = 23..54
      /\ f[1] = "IP" => KnownOffsets(f) = 5..8
      /\ f[1] = "Netmask" => KnownOffsets(f) = 9..12
      /\ f[1] = "Gateway" => KnownOffsets(f) = 13..16
      /\ f[1] = "VLAN-name" => KnownOffsets(f) = VLANNameAt..(VLANNameAt + 31)
  <2>1. f[1] = "Hostname" => KnownOffsets(f) = 23..(23 + 32 - 1)
    BY <1>2, <1>8, KnownAre
  <2>2. f[1] = "IP" => KnownOffsets(f) = 5..(5 + 4 - 1)
    BY <1>2, KnownAre
  <2>3. f[1] = "Netmask" => KnownOffsets(f) = 9..(9 + 4 - 1)
    BY <1>2, KnownAre
  <2>4. f[1] = "Gateway" => KnownOffsets(f) = 13..(13 + 4 - 1)
    BY <1>2, KnownAre
  <2>5. f[1] = "VLAN-name" => KnownOffsets(f) = VLANNameAt..(VLANNameAt + 32 - 1)
    BY <1>2, <1>8, KnownAre
  <2>6. QED
    BY <1>8, <2>1, <2>2, <2>3, <2>4, <2>5
<1>10. /\ f[1] = "Port-VLAN-members" => KnownOffsets(f) = {MatrixAt(p) : p \in SwitchPorts}
       /\ f[1] = "Port-VLAN-IDs" => KnownOffsets(f) = {PortIDAt(p) : p \in SwitchPorts}
       /\ f[1] = "QoS-priorities" => KnownOffsets(f) = {PriorityAt(p) : p \in SwitchPorts}
  <2>1. f[1] = "Port-VLAN-members" => KnownOffsets(f) = {MatrixAt(p) : p \in SwitchPorts}
    <3>1. f[1] = "Port-VLAN-members" => KnownRanges(f) = {Run(MatrixAt(p), 1) : p \in SwitchPorts}
      BY KnownAre
    <3>2. \A p \in SwitchPorts : Offset(Run(MatrixAt(p), 1)) = {MatrixAt(p)}
      BY <1>6, RunOffsets
    <3>3. QED
      BY ONLY <3>1, <3>2 DEF KnownOffsets
  <2>2. f[1] = "Port-VLAN-IDs" => KnownOffsets(f) = {PortIDAt(p) : p \in SwitchPorts}
    BY <1>6, RunOffsets, KnownAre DEF KnownOffsets
  <2>3. f[1] = "QoS-priorities" => KnownOffsets(f) = {PriorityAt(p) : p \in SwitchPorts}
    BY <1>6, RunOffsets, KnownAre DEF KnownOffsets
  <2>4. QED
    BY <2>1, <2>2, <2>3
<1>11. /\ f[1] = "DHCP" => KnownOffsets(f) = {16}
       /\ f[1] = "Mirror-destination" => KnownOffsets(f) = {MirrorDestination}
       /\ f[1] = "QoS-gi1-priority" => KnownOffsets(f) = {PriorityAt(1)}
       /\ f[1] = "Storm" => KnownOffsets(f) = {StormAt(f[2], f[3])}
       /\ f[1] = "IGMP" => KnownOffsets(f) = {IGMPFlag}
       /\ f[1] = "IGMP-report-suppression" => KnownOffsets(f) = {IGMPReportSuppFlag}
       /\ f[1] = "LED" => KnownOffsets(f) = {LEDFlag}
  BY <1>1, <1>6, <1>7, <1>8, KnownAre
<1>12. /\ f[1] = "Port-VLAN-mode" => KnownOffsets(f) = {PortVLANModeA, PortVLANModeB}
       /\ f[1] = "Spanning-tree" => KnownOffsets(f) = {LoopPreventionFlag, LoopPreventionMode}
       /\ f[1] = "QoS-mode" => KnownOffsets(f) = {QoSModeSigA, QoSModeSigB, QoSModeSigC}
  BY <1>3, <1>4, <1>8, KnownAre
<1>13. QED
  BY <1>9, <1>10, <1>11, <1>12

\* Up to the first NUL, without the blanks around it.
Trimmed(raw) ==
  LET ends == {k \in 1..NameLength : raw[k] = 0}
      first == CHOOSE k \in ends : \A j \in ends : k <= j
      text == IF ends = {} THEN raw ELSE SubSeq(raw, 1, first - 1)
      ink  == {k \in DOMAIN text : text[k] \notin Blanks}
  IN  IF ink = {} THEN <<>>
      ELSE SubSeq(text, CHOOSE k \in ink : \A j \in ink : k <= j, Longest(ink))

Raw(data, offset) == [k \in 1..NameLength |-> ByteAt(data, offset + k - 1)]

\* A name is the trimmed text.
LEMMA CStringIs == ASSUME NEW data, NEW offset PROVE CString(data, offset) = Trimmed(Raw(data, offset))
BY Zenon DEF CString, Trimmed, Raw

\* Without blanks the text is what stands before the first NUL.
LEMMA TextIs ==
  ASSUME NEW raw \in [1..NameLength -> Nat], \A k \in 1..NameLength : raw[k] \notin Blanks
  PROVE  \E n \in 0..NameLength : /\ Trimmed(raw) \in Seq(Nat) /\ Len(Trimmed(raw)) = n
                                  /\ \A k \in 1..n : Trimmed(raw)[k] = raw[k]
                                  /\ n < NameLength => raw[n + 1] = 0
<1>0. raw \in Seq(Nat) /\ Len(raw) = NameLength /\ NameLength \in Nat
  <2>1. NameLength \in Nat
    BY DEF NameLength
  <2>2. QED
    BY <2>1
<1> DEFINE ends == {k \in 1..NameLength : raw[k] = 0}
           first == CHOOSE k \in ends : \A j \in ends : k <= j
           text == IF ends = {} THEN raw ELSE SubSeq(raw, 1, first - 1)
           ink  == {k \in DOMAIN text : text[k] \notin Blanks}
<1>1. Trimmed(raw) = IF ink = {} THEN <<>>
                     ELSE SubSeq(text, CHOOSE k \in ink : \A j \in ink : k <= j, Longest(ink))
  BY DEF Trimmed
<1>2. NameLength \in Nat /\ NameLength = 32
  BY DEF NameLength
<1>3. PICK n \in 0..NameLength : /\ text = [k \in 1..n |-> raw[k]]
                                 /\ n < NameLength => raw[n + 1] = 0
  <2>1. CASE ends = {}
    <3>1. text = raw /\ raw = [k \in 1..NameLength |-> raw[k]]
      BY <2>1
    <3> HIDE DEF text
    <3>2. QED
      BY <1>2, <3>1
  <2>2. CASE ends # {}
    <3>1. ends \in SUBSET Nat /\ ends \subseteq 1..NameLength
      BY <1>2
    <3> HIDE DEF ends
    <3>2. first \in ends /\ \A j \in ends : first <= j
      <4>1. \E k \in ends : \A j \in ends : k <= j
        BY <2>2, <3>1, Least
      <4>2. QED
        BY <4>1
    <3> HIDE DEF first
    <3>3. first \in 1..NameLength /\ raw[first] = 0
      BY <3>1, <3>2 DEF ends
    <3>4. raw \in Seq(Nat) /\ Len(raw) = NameLength
      BY <1>0
    <3>5. text = SubSeq(raw, 1, first - 1)
      BY <2>2
    <3> HIDE DEF text
    <3>6. SubSeq(raw, 1, first - 1) = [k \in 1..(first - 1) |-> raw[k]]
      BY <1>2, <3>3, <3>4
    <3>7. first - 1 \in 0..NameLength /\ (first - 1) + 1 = first
      BY <1>2, <3>3
    <3>8. QED
      BY <3>3, <3>5, <3>6, <3>7
  <2>3. QED
    BY <2>1, <2>2
<1> HIDE DEF text
<1>4. /\ n \in Nat /\ DOMAIN text = 1..n /\ text \in Seq(Nat) /\ Len(text) = n
      /\ \A k \in 1..n : text[k] = raw[k] /\ text[k] \notin Blanks
  <2>1. n \in Nat /\ DOMAIN text = 1..n /\ \A k \in 1..n : k \in 1..NameLength /\ text[k] = raw[k]
    <3>1. n \in Nat /\ n <= NameLength
      BY <1>0, <1>3
    <3>2. DOMAIN text = 1..n /\ \A k \in 1..n : text[k] = raw[k]
      BY <1>3, <3>1
    <3>3. QED
      BY <1>0, <3>1, <3>2
  <2>2. \A k \in 1..n : text[k] \in Nat /\ text[k] \notin Blanks
    BY <2>1
  <2>3. text \in Seq(Nat) /\ Len(text) = n
    BY <1>3, <2>1, <2>2
  <2>4. QED
    BY <2>1, <2>2, <2>3
<1>5. ink = 1..n
  BY <1>4
<1> HIDE DEF ink
<1>6. Trimmed(raw) = text
  <2>1. CASE n = 0
    BY <1>1, <1>4, <1>5, <2>1
  <2>2. CASE n # 0
    <3>1. (CHOOSE k \in ink : \A j \in ink : k <= j) = 1
      BY <1>4, <1>5, <2>2
    <3>2. Longest(ink) = n
      BY <1>4, <1>5, <2>2 DEF Longest
    <3>3. ink # {}
      <4>1. 1 \in 1..n
        BY <1>4, <2>2
      <4>2. QED
        BY <1>5, <4>1
    <3>4. Trimmed(raw) = SubSeq(text, 1, n)
      BY <1>1, <3>1, <3>2, <3>3
    <3>5. QED
      BY <1>4, <3>4
  <2>3. QED
    BY <2>1, <2>2
<1>7. QED
  BY <1>3, <1>4, <1>6

\* Two names that read alike differ only behind the end of both.
LEMMA TextShows ==
  ASSUME NEW x \in [1..NameLength -> Nat], NEW y \in [1..NameLength -> Nat],
         \A k \in 1..NameLength : x[k] \notin Blanks /\ y[k] \notin Blanks,
         Trimmed(x) = Trimmed(y), NEW i \in 1..NameLength, x[i] # y[i]
  PROVE  \E j \in 1..i : x[j] = 0 /\ y[j] = 0
<1>1. PICK n \in 0..NameLength : /\ Trimmed(x) \in Seq(Nat) /\ Len(Trimmed(x)) = n
                                 /\ \A k \in 1..n : Trimmed(x)[k] = x[k]
                                 /\ n < NameLength => x[n + 1] = 0
  BY TextIs
<1>2. PICK m \in 0..NameLength : /\ Trimmed(y) \in Seq(Nat) /\ Len(Trimmed(y)) = m
                                 /\ \A k \in 1..m : Trimmed(y)[k] = y[k]
                                 /\ m < NameLength => y[m + 1] = 0
  BY TextIs
<1>3. m = n /\ n \in Nat /\ NameLength \in Nat
  <2>1. Len(Trimmed(x)) = Len(Trimmed(y))
    OBVIOUS
  <2>2. NameLength \in Nat
    BY DEF NameLength
  <2>3. QED
    BY <1>1, <1>2, <2>1, <2>2
<1>4. i > n
  BY <1>1, <1>2, <1>3
<1>5. n < NameLength /\ n + 1 \in 1..i
  BY <1>3, <1>4
<1>6. QED
  BY <1>1, <1>2, <1>3, <1>5

\* The fields by how they are printed.
PlainNames == {"IP", "Netmask", "Gateway", "Port-VLAN-mode", "Port-VLAN-IDs", "Storm"}
TextNames  == {"Hostname", "VLAN-name"}

\* Every field is printed in one of these ways or has a way of its own.
LEMMA NamesAre ==
  ASSUME NEW f \in Fields
  PROVE  f[1] \in PlainNames \cup TextNames \cup FlagNames \cup
           {"DHCP", "Mirror-destination", "Port-VLAN-members", "QoS-mode", "QoS-priorities",
            "QoS-gi1-priority"}
BY DEF Fields, PlainNames, TextNames, FlagNames

\* A field that is printed byte for byte.
LEMMA PlainIs ==
  ASSUME NEW f \in Fields, f[1] \in PlainNames, NEW data
  PROVE  State(data, f) = Bytes(data, KnownOffsets(f))
<1>1. f[1] = "IP" => State(data, f) = Bytes(data, KnownOffsets(f))
  BY StateIs, OffsetsAre
<1>2. f[1] = "Netmask" => State(data, f) = Bytes(data, KnownOffsets(f))
  BY StateIs, OffsetsAre, ZenonT(60)
<1>3. f[1] = "Gateway" => State(data, f) = Bytes(data, KnownOffsets(f))
  BY StateIs, OffsetsAre, ZenonT(60)
<1>4. f[1] = "Port-VLAN-mode" => State(data, f) = Bytes(data, KnownOffsets(f))
  BY StateIs, OffsetsAre DEF PortVLANMode
<1>5. f[1] = "Port-VLAN-IDs" => State(data, f) = Bytes(data, KnownOffsets(f))
  BY StateIs, OffsetsAre
<1>6. f[1] = "Storm" => State(data, f) = Bytes(data, KnownOffsets(f))
  <2>1. f[1] = "Storm" => State(data, f) = Bytes(data, {StormAt(f[2], f[3])})
    BY StateIs, Zenon
  <2>2. f[1] = "Storm" => KnownOffsets(f) = {StormAt(f[2], f[3])}
    BY OffsetsAre, Zenon
  <2>3. QED
    BY <2>1, <2>2, Zenon
<1>7. QED
  BY <1>1, <1>2, <1>3, <1>4, <1>5, <1>6 DEF PlainNames

\* A name is the text over its range.
LEMMA TextNameIs ==
  ASSUME NEW f \in Fields, f[1] \in TextNames
  PROVE  \E o \in Nat : /\ KnownOffsets(f) = o..(o + 31)
                        /\ \A data : State(data, f) = Trimmed(Raw(data, o))
<1>1. CASE f[1] = "Hostname"
  <2>1. KnownOffsets(f) = 23..54
    BY <1>1, OffsetsAre, Zenon
  <2>2. \A data : State(data, f) = CString(data, 23)
    BY <1>1, StateIs, Zenon
  <2>3. \A data : State(data, f) = Trimmed(Raw(data, 23))
    BY <2>2, CStringIs, Zenon
  <2>4. 23 \in Nat /\ 54 = 23 + 31
    OBVIOUS
  <2>5. QED
    BY <2>1, <2>3, <2>4
<1>2. CASE f[1] = "VLAN-name"
  <2>1. KnownOffsets(f) = VLANNameAt..(VLANNameAt + 31)
    BY <1>2, OffsetsAre, Zenon
  <2>2. \A data : State(data, f) = CString(data, VLANNameAt)
    BY <1>2, StateIs, Zenon
  <2>3. \A data : State(data, f) = Trimmed(Raw(data, VLANNameAt))
    BY <2>2, CStringIs, Zenon
  <2>4. VLANNameAt \in Nat
    BY DEF VLANNameAt
  <2>5. QED
    BY <2>1, <2>3, <2>4
<1>3. QED
  BY <1>1, <1>2 DEF TextNames

\* A flag reads one byte of its range.
LEMMA FlagNameIs ==
  ASSUME NEW f \in Fields, f[1] \in FlagNames
  PROVE  /\ FlagAt(f[1]) \in KnownOffsets(f)
         /\ \A i \in KnownOffsets(f) :
              \/ i = FlagAt(f[1])
              \/ f[1] = "Spanning-tree" /\ i = LoopPreventionMode
         /\ \A data : State(data, f) = Enabled(data, FlagAt(f[1]))
<1>1. \A data : State(data, f) = Enabled(data, FlagAt(f[1]))
  BY StateIs
<1>2. \/ f[1] = "Spanning-tree" /\ KnownOffsets(f) = {LoopPreventionFlag, LoopPreventionMode}
      \/ f[1] = "IGMP" /\ KnownOffsets(f) = {IGMPFlag}
      \/ f[1] = "IGMP-report-suppression" /\ KnownOffsets(f) = {IGMPReportSuppFlag}
      \/ f[1] = "LED" /\ KnownOffsets(f) = {LEDFlag}
  BY OffsetsAre, Zenon DEF FlagNames
<1>3. /\ FlagAt(f[1]) \in KnownOffsets(f)
      /\ \A i \in KnownOffsets(f) :
           \/ i = FlagAt(f[1])
           \/ f[1] = "Spanning-tree" /\ i = LoopPreventionMode
  <2>1. CASE f[1] = "Spanning-tree" /\ KnownOffsets(f) = {LoopPreventionFlag, LoopPreventionMode}
    <3>1. FlagAt(f[1]) = LoopPreventionFlag
      BY <2>1, FlagIs, Zenon
    <3>2. QED
      BY <2>1, <3>1
  <2>2. CASE f[1] = "IGMP" /\ KnownOffsets(f) = {IGMPFlag}
    <3>1. FlagAt(f[1]) = IGMPFlag
      BY <2>2, FlagIs, Zenon
    <3>2. QED
      BY <2>2, <3>1
  <2>3. CASE f[1] = "IGMP-report-suppression" /\ KnownOffsets(f) = {IGMPReportSuppFlag}
    <3>1. FlagAt(f[1]) = IGMPReportSuppFlag
      BY <2>3, FlagIs, Zenon
    <3>2. QED
      BY <2>3, <3>1
  <2>4. CASE f[1] = "LED" /\ KnownOffsets(f) = {LEDFlag}
    <3>1. FlagAt(f[1]) = LEDFlag
      BY <2>4, FlagIs, Zenon
    <3>2. QED
      BY <2>4, <3>1
  <2>5. QED
    BY <1>2, <2>1, <2>2, <2>3, <2>4
<1>4. QED
  BY <1>1, <1>3

\* Bytes print the same when they are the same.
LEMMA SameBytes ==
  ASSUME NEW S, NEW base, NEW candidate
  PROVE  Bytes(base, S) = Bytes(candidate, S) <=> \A i \in S : ByteAt(base, i) = ByteAt(candidate, i)
<1>1. /\ Bytes(base, S) = [i \in S |-> ByteAt(base, i)]
      /\ Bytes(candidate, S) = [i \in S |-> ByteAt(candidate, i)]
  BY DEF Bytes
<1>2. QED
  BY <1>1

\* A field whose bytes and whose file's size stay reads the same.
LEMMA FieldStays ==
  ASSUME NEW f \in Fields, NEW base, NEW candidate, base.size = candidate.size,
         \A i \in KnownOffsets(f) : ByteAt(base, i) = ByteAt(candidate, i)
  PROVE  State(base, f) = State(candidate, f)
<1>1. \A i : InRange(base, i) <=> InRange(candidate, i)
  BY DEF InRange
<1>2. CASE f[1] \in PlainNames
  BY <1>2, PlainIs, SameBytes
<1>3. CASE f[1] \in TextNames
  <2>1. PICK o \in Nat : /\ KnownOffsets(f) = o..(o + 31)
                         /\ \A data : State(data, f) = Trimmed(Raw(data, o))
    BY <1>3, TextNameIs
  <2>2. \A k \in 1..32 : o + k - 1 \in KnownOffsets(f)
    BY <2>1
  <2>3. Raw(base, o) = Raw(candidate, o)
    BY <2>2 DEF Raw, NameLength
  <2>4. QED
    BY <2>1, <2>3
<1>4. CASE f[1] \in FlagNames
  BY <1>1, <1>4, FlagNameIs DEF Enabled, Decoded
<1>5. CASE f[1] = "DHCP"
  <2>1. 16 \in KnownOffsets(f)
    BY <1>5, OffsetsAre
  <2>2. \A data : State(data, f) = <<ByteAt(data, 16) # 0>>
    BY <1>5, StateIs, Zenon
  <2>3. QED
    BY <2>1, <2>2
<1>6. CASE f[1] = "Mirror-destination"
  <2>1. MirrorDestination \in KnownOffsets(f)
    BY <1>6, OffsetsAre
  <2>2. \A data : State(data, f) = Mirror(data)
    BY <1>6, StateIs, Zenon
  <2>3. QED
    BY <2>1, <2>2 DEF Mirror
<1>7. CASE f[1] = "Port-VLAN-members"
  <2>1. MatrixAt(1) \in KnownOffsets(f)
    BY <1>7, OffsetsAre DEF SwitchPorts
  <2>2. Bytes(base, {MatrixAt(1)}) = Bytes(candidate, {MatrixAt(1)})
    BY <2>1, SameBytes
  <2>3. QED
    <3>1. \A data : State(data, f) = Bytes(data, {MatrixAt(1)})
      BY <1>7, StateIs
    <3>2. QED
      BY ONLY <2>2, <3>1
<1>8. CASE f[1] = "QoS-mode"
  <2>1. KnownOffsets(f) = {QoSModeSigA, QoSModeSigB, QoSModeSigC}
    BY <1>8, OffsetsAre
  <2>2. Bytes(base, {QoSModeSigA, QoSModeSigB, QoSModeSigC}) =
          Bytes(candidate, {QoSModeSigA, QoSModeSigB, QoSModeSigC})
    BY <2>1, SameBytes
  <2>3. QoSMode(base) = QoSMode(candidate)
    BY <1>1, <2>2 DEF QoSMode, Decoded
  <2>4. QED
    BY <1>8, <2>3, StateIs
<1>9. CASE f[1] = "QoS-priorities"
  <2> DEFINE S == {PriorityAt(p) : p \in SwitchPorts}
  <2>1. KnownOffsets(f) = S
    BY <1>9, OffsetsAre
  <2>2. Bytes(base, S) = Bytes(candidate, S)
    BY <2>1, SameBytes
  <2>3. \A p \in SwitchPorts : ByteAt(base, PriorityAt(p)) = ByteAt(candidate, PriorityAt(p))
    BY <2>1
  <2>4. Priorities(base) = Priorities(candidate)
    BY <1>1, <2>2, <2>3 DEF Priorities, Decoded
  <2>5. QED
    BY <1>9, <2>4, StateIs, ZenonT(60)
<1>10. CASE f[1] = "QoS-gi1-priority"
  <2>1. ByteAt(base, PriorityAt(1)) = ByteAt(candidate, PriorityAt(1))
    BY <1>10, OffsetsAre
  <2>2. Priority(base) = Priority(candidate)
    BY <1>1, <2>1 DEF Priority, Decoded
  <2>3. QED
    BY <1>10, <2>2, StateIs, ZenonT(60)
<1>11. QED
  BY <1>2, <1>3, <1>4, <1>5, <1>6, <1>7, <1>8, <1>9, <1>10, NamesAre

\* What the file holds, and what is read past its end, is a byte.
ReadsBytes(data) == \A i : ByteAt(data, i) \in 0..255

\* A field that reads the same although a byte of it changed passes that byte over.
LEMMA FieldShows ==
  ASSUME NEW f \in Fields, NEW base, NEW candidate, ReadsBytes(base), ReadsBytes(candidate),
         State(base, f) = State(candidate, f),
         NEW i \in KnownOffsets(f), ByteAt(base, i) # ByteAt(candidate, i)
  PROVE  PassedOver(f, base, candidate, i)
<1> DEFINE a(j) == ByteAt(base, j)
           b(j) == ByteAt(candidate, j)
<1>1. /\ \A j : a(j) \in 0..255 /\ b(j) \in 0..255
      /\ a(i) # b(i)
  BY DEF ReadsBytes
<1>2. f[1] \notin PlainNames
  <2> SUFFICES ASSUME f[1] \in PlainNames PROVE FALSE
    OBVIOUS
  <2>1. Bytes(base, KnownOffsets(f)) = Bytes(candidate, KnownOffsets(f))
    BY PlainIs
  <2>2. QED
    BY <2>1, SameBytes
<1>3. CASE f[1] \in TextNames
  <2>1. PICK o \in Nat : /\ KnownOffsets(f) = o..(o + 31)
                         /\ \A data : State(data, f) = Trimmed(Raw(data, o))
    BY <1>3, TextNameIs
  <2> DEFINE x == Raw(base, o)
             y == Raw(candidate, o)
             k == i - o + 1
  <2>2. CASE \E d \in {base, candidate} : \E j \in KnownOffsets(f) : ByteAt(d, j) \in Blanks
    BY <1>3, <2>2, Zenon DEF PassedOver, TextNames
  <2>3. CASE ~\E d \in {base, candidate} : \E j \in KnownOffsets(f) : ByteAt(d, j) \in Blanks
    <3>1. /\ x \in [1..NameLength -> Nat] /\ y \in [1..NameLength -> Nat]
          /\ \A j \in 1..NameLength : /\ x[j] = a(o + j - 1) /\ y[j] = b(o + j - 1)
                                      /\ o + j - 1 \in KnownOffsets(f)
      <4>1. NameLength = 32 /\ o \in Nat
        BY DEF NameLength
      <4>2. \A j \in 1..NameLength : o + j - 1 \in KnownOffsets(f)
        BY ONLY <2>1, <4>1
      <4>3. /\ x = [j \in 1..NameLength |-> a(o + j - 1)]
            /\ y = [j \in 1..NameLength |-> b(o + j - 1)]
        BY DEF Raw
      <4> HIDE DEF x, y, k, a, b
      <4>4. \A j : a(j) \in Nat /\ b(j) \in Nat
        BY <1>1
      <4>5. QED
        BY ONLY <4>2, <4>3, <4>4
    <3>2. \A j \in 1..NameLength : x[j] \notin Blanks /\ y[j] \notin Blanks
      BY <2>3, <3>1
    <3>3. Trimmed(x) = Trimmed(y)
      BY <2>1
    <3>4. k \in 1..NameLength /\ o + k - 1 = i
      <4>1. NameLength = 32 /\ o \in Nat
        BY DEF NameLength
      <4>2. i \in o..(o + 31)
        BY <2>1
      <4>3. QED
        BY ONLY <4>1, <4>2 DEF k
    <3>5. x[k] # y[k]
      BY <1>1, <3>1, <3>4
    <3> HIDE DEF x, y, k
    <3>6. PICK j \in 1..k : x[j] = 0 /\ y[j] = 0
      BY <3>1, <3>2, <3>3, <3>4, <3>5, TextShows
    <3>7. j \in 1..NameLength /\ o + j - 1 <= i
      BY <2>1, <3>4, <3>6 DEF NameLength, k
    <3>8. o + j - 1 \in {l \in KnownOffsets(f) : l <= i} /\ a(o + j - 1) = 0 /\ b(o + j - 1) = 0
      BY <3>1, <3>6, <3>7
    <3>9. \A d \in {base, candidate} : \E l \in {l \in KnownOffsets(f) : l <= i} : ByteAt(d, l) = 0
      BY ONLY <3>8
    <3>10. QED
      BY <1>3, <3>9, Zenon DEF PassedOver, TextNames
  <2>4. QED
    BY <2>2, <2>3
<1>4. CASE f[1] \in FlagNames
  <2> DEFINE at == FlagAt(f[1])
  <2>1. CASE f[1] = "Spanning-tree" /\ i = LoopPreventionMode
    BY <2>1, Zenon DEF PassedOver
  <2>2. CASE i = at
    <3>1. Enabled(base, at) = Enabled(candidate, at) /\ at \in KnownOffsets(f)
      BY <1>4, FlagNameIs
    <3>2. CASE InRange(base, at) /\ InRange(candidate, at)
      <4>1. <<a(at) # 0>> = <<b(at) # 0>>
        BY <3>1, <3>2 DEF Enabled, Decoded
      <4>2. a(i) # 0 /\ b(i) # 0
        BY <1>1, <2>2, <4>1
      <4>3. \A d \in {base, candidate} : ByteAt(d, i) # 0
        BY <4>2
      <4>4. QED
        BY <1>4, <4>3, Zenon DEF PassedOver, FlagNames
    <3>3. CASE ~InRange(base, at) /\ ~InRange(candidate, at)
      <4>1. \A d \in {base, candidate} : \E j \in KnownOffsets(f) : ~InRange(d, j)
        BY <3>1, <3>3
      <4>2. QED
        BY <4>1, Zenon DEF PassedOver
    <3>4. InRange(base, at) <=> InRange(candidate, at)
      BY <3>1 DEF Enabled, Decoded, Unknown
    <3>5. QED
      BY <3>2, <3>3, <3>4
  <2>3. QED
    BY <1>4, <2>1, <2>2, FlagNameIs
<1>5. CASE f[1] = "DHCP"
  <2>1. KnownOffsets(f) = {16}
    BY <1>5, OffsetsAre, Zenon
  <2>2. \A data : State(data, f) = <<ByteAt(data, 16) # 0>>
    BY <1>5, StateIs, Zenon
  <2>3. i = 16 /\ <<a(16) # 0>> = <<b(16) # 0>>
    BY <2>1, <2>2
  <2>4. a(i) # 0 /\ b(i) # 0
    BY <1>1, <2>3
  <2>5. \A d \in {base, candidate} : ByteAt(d, i) # 0
    BY <2>4
  <2>6. QED
    BY <1>5, <2>5, Zenon DEF PassedOver
<1>6. CASE f[1] = "Mirror-destination"
  <2>1. KnownOffsets(f) = {MirrorDestination}
    BY <1>6, OffsetsAre, Zenon
  <2>2. \A data : State(data, f) = Mirror(data)
    BY <1>6, StateIs, Zenon
  <2>3. i = MirrorDestination /\ Mirror(base) = Mirror(candidate)
    BY <2>1, <2>2
  <2>4. a(i) > 8 /\ b(i) > 8
    BY <1>1, <2>3 DEF Mirror
  <2>5. \A d \in {base, candidate} : ByteAt(d, i) > 8
    BY <2>4
  <2>6. QED
    BY <1>6, <2>5, Zenon DEF PassedOver
<1>7. CASE f[1] = "Port-VLAN-members"
  <2>1. \A data : State(data, f) = Bytes(data, {MatrixAt(1)})
    BY <1>7, StateIs
  <2>2. Bytes(base, {MatrixAt(1)}) = Bytes(candidate, {MatrixAt(1)})
    BY ONLY <2>1, State(base, f) = State(candidate, f)
  <2>3. a(MatrixAt(1)) = b(MatrixAt(1))
    BY <2>2, SameBytes
  <2>4. i # MatrixAt(1)
    BY <1>1, <2>3
  <2>5. QED
    BY <1>7, <2>4, Zenon DEF PassedOver
<1>8. CASE f[1] = "QoS-mode"
  <2> DEFINE S == {QoSModeSigA, QoSModeSigB, QoSModeSigC}
  <2>1. KnownOffsets(f) = S
    BY <1>8, OffsetsAre
  <2>2. \A data : State(data, f) = QoSMode(data)
    BY <1>8, StateIs, Zenon
  <2>3. Bytes(base, S) # Bytes(candidate, S)
    BY <1>1, <2>1, SameBytes
  <2>4. \A data : QoSMode(data) = IF InRange(data, QoSModeSigC) THEN Bytes(data, S) ELSE <<>>
    BY DEF QoSMode, Decoded, Unknown
  <2>5. \A data : Bytes(data, S) # <<>>
    BY DEF Bytes
  <2>6. ~InRange(base, QoSModeSigC) /\ ~InRange(candidate, QoSModeSigC)
    <3> HIDE DEF S
    <3>1. QED
      BY <2>2, <2>3, <2>4, <2>5
  <2>7. \A d \in {base, candidate} : \E j \in KnownOffsets(f) : ~InRange(d, j)
    BY <2>1, <2>6
  <2>8. QED
    BY <2>7, Zenon DEF PassedOver
<1>9. CASE f[1] = "QoS-priorities"
  <2> DEFINE S == {PriorityAt(p) : p \in SwitchPorts}
             Read(d) == /\ InRange(d, PriorityAt(8))
                        /\ \A p \in SwitchPorts : Recognised(ByteAt(d, PriorityAt(p)))
  <2>1. KnownOffsets(f) = S
    BY <1>9, OffsetsAre
  <2>2. \A data : State(data, f) = Priorities(data)
    BY <1>9, StateIs, Zenon
  <2>3. Bytes(base, S) # Bytes(candidate, S)
    BY <1>1, <2>1, SameBytes
  <2>4. \A data : Priorities(data) = IF Read(data) THEN Bytes(data, S) ELSE <<>>
    BY DEF Priorities, Decoded, Unknown
  <2>5. PriorityAt(8) \in S
    BY DEF SwitchPorts
  <2>6. \A data : Bytes(data, S) # <<>>
    <3> HIDE DEF S
    <3>1. QED
      BY <2>5 DEF Bytes
  <2>7. ~Read(base) /\ ~Read(candidate)
    <3> HIDE DEF S, Read
    <3>1. QED
      BY <2>2, <2>3, <2>4, <2>6
  <2>8. ASSUME NEW d, ~Read(d)
        PROVE  \E j \in KnownOffsets(f) :
                 \/ ~InRange(d, j)
                 \/ f[1] \in {"QoS-priorities", "QoS-gi1-priority"} /\ ~Recognised(ByteAt(d, j))
    BY <1>9, <2>1, <2>5, <2>8
  <2>9. QED
    BY <2>7, <2>8, Zenon DEF PassedOver
<1>10. CASE f[1] = "QoS-gi1-priority"
  <2> DEFINE at == PriorityAt(1)
             Read(d) == InRange(d, at) /\ Recognised(ByteAt(d, at))
  <2>1. KnownOffsets(f) = {at}
    BY <1>10, OffsetsAre
  <2>2. \A data : State(data, f) = Priority(data)
    BY <1>10, StateIs, Zenon
  <2>3. i = at /\ Priority(base) = Priority(candidate)
    BY <2>1, <2>2
  <2>4. \A data : Priority(data) = IF Read(data) THEN <<ByteAt(data, at) \div 2 + 1>> ELSE <<>>
    BY DEF Priority, Decoded, Unknown
  <2> HIDE DEF at
  <2>5. ~Read(base) /\ ~Read(candidate)
    <3>1. CASE Read(base) /\ Read(candidate)
      <4>1. a(at) \div 2 + 1 = b(at) \div 2 + 1
        BY <2>3, <2>4, <3>1
      <4>2. a(at) \in {0, 2, 4, 6} /\ b(at) \in {0, 2, 4, 6}
        BY <3>1 DEF Recognised
      <4>3. a(at) = b(at)
        BY <4>1, <4>2
      <4>4. QED
        BY <1>1, <2>3, <4>3
    <3>2. Read(base) <=> Read(candidate)
      BY <2>3, <2>4
    <3>3. QED
      BY <3>1, <3>2
  <2>6. ASSUME NEW d, ~Read(d)
        PROVE  \E j \in KnownOffsets(f) :
                 \/ ~InRange(d, j)
                 \/ f[1] \in {"QoS-priorities", "QoS-gi1-priority"} /\ ~Recognised(ByteAt(d, j))
    BY <1>10, <2>1, <2>6
  <2>7. QED
    BY <2>5, <2>6, Zenon DEF PassedOver
<1>11. QED
  BY <1>2, <1>3, <1>4, <1>5, <1>6, <1>7, <1>8, <1>9, <1>10, NamesAre
-----------------------------------------------------------------------------
(* The password slot                                                       *)

\* A byte is the sum of its bits.
LEMMA BitsOf ==
  ASSUME NEW n \in 0..255
  PROVE  /\ Bit(n, 1) \in {0, 1} /\ Bit(n, 2) \in {0, 1} /\ Bit(n, 4) \in {0, 1} /\ Bit(n, 8) \in {0, 1}
         /\ Bit(n, 16) \in {0, 1} /\ Bit(n, 32) \in {0, 1} /\ Bit(n, 64) \in {0, 1} /\ Bit(n, 128) \in {0, 1}
         /\ n = Bit(n, 1) + 2 * Bit(n, 2) + 4 * Bit(n, 4) + 8 * Bit(n, 8) + 16 * Bit(n, 16)
           + 32 * Bit(n, 32) + 64 * Bit(n, 64) + 128 * Bit(n, 128)
<1>1. /\ Bit(n, 1) \in {0, 1} /\ Bit(n, 2) \in {0, 1} /\ Bit(n, 4) \in {0, 1} /\ Bit(n, 8) \in {0, 1}
      /\ Bit(n, 16) \in {0, 1} /\ Bit(n, 32) \in {0, 1} /\ Bit(n, 64) \in {0, 1} /\ Bit(n, 128) \in {0, 1}
  BY DEF Bit
<1> DEFINE Above(w) == n \div (2 * w)
<1>2. /\ Above(1) \in Nat /\ Above(2) \in Nat /\ Above(4) \in Nat /\ Above(8) \in Nat
      /\ Above(16) \in Nat /\ Above(32) \in Nat /\ Above(64) \in Nat /\ Above(128) \in Nat
  OBVIOUS
<1>3. /\ n = 2 * Above(1) + Bit(n, 1)
      /\ Above(1) = 2 * Above(2) + Bit(n, 2)
      /\ Above(2) = 2 * Above(4) + Bit(n, 4)
      /\ Above(4) = 2 * Above(8) + Bit(n, 8)
  BY DEF Bit
<1>4. /\ Above(8) = 2 * Above(16) + Bit(n, 16)
      /\ Above(16) = 2 * Above(32) + Bit(n, 32)
      /\ Above(32) = 2 * Above(64) + Bit(n, 64)
      /\ Above(64) = Bit(n, 128)
  BY DEF Bit
<1>5. /\ Bit(n, 1) \in Nat /\ Bit(n, 2) \in Nat /\ Bit(n, 4) \in Nat /\ Bit(n, 8) \in Nat
      /\ Bit(n, 16) \in Nat /\ Bit(n, 32) \in Nat /\ Bit(n, 64) \in Nat /\ Bit(n, 128) \in Nat
  BY <1>1
<1> HIDE DEF Above
<1>6. n = Bit(n, 1) + 2 * Bit(n, 2) + 4 * Bit(n, 4) + 8 * Bit(n, 8) + 16 * Bit(n, 16)
           + 32 * Bit(n, 32) + 64 * Bit(n, 64) + 128 * Bit(n, 128)
  <2>1. n = 16 * Above(8) + 8 * Bit(n, 8) + 4 * Bit(n, 4) + 2 * Bit(n, 2) + Bit(n, 1)
    BY ONLY <1>2, <1>3, <1>5
  <2>2. Above(8) = 8 * Above(64) + 4 * Bit(n, 64) + 2 * Bit(n, 32) + Bit(n, 16)
    BY ONLY <1>2, <1>4, <1>5
  <2>3. QED
    BY ONLY <1>2, <1>4, <1>5, <2>1, <2>2
<1>7. QED
  BY ONLY <1>1, <1>6, Zenon

\* One bit of it.
LEMMA BitTells ==
  ASSUME NEW p \in {0, 1}, NEW q \in {0, 1}, NEW r \in {0, 1}
  PROVE  (p + r) % 2 \in {0, 1} /\ ((p + r) % 2 = (q + r) % 2 => p = q)
OBVIOUS

\* A bit is 0 or 1.
LEMMA BitIsBit ==
  ASSUME NEW n \in Nat, NEW w \in Nat \ {0}
  PROVE  Bit(n, w) \in {0, 1}
<1>1. n \div w \in Nat
  OBVIOUS
<1>2. \A x \in Nat : x % 2 \in {0, 1}
  OBVIOUS
<1>3. QED
  BY <1>1, <1>2 DEF Bit

\* The key can be taken off a byte again.
LEMMA XorTells ==
  ASSUME NEW a \in 0..255, NEW b \in 0..255, NEW k \in 0..255
  PROVE  Xor(a, k) \in Nat /\ (Xor(a, k) = Xor(b, k) => a = b)
<1>0. \A n \in {a, b, k} :
        /\ Bit(n, 1) \in {0, 1} /\ Bit(n, 2) \in {0, 1} /\ Bit(n, 4) \in {0, 1} /\ Bit(n, 8) \in {0, 1}
        /\ Bit(n, 16) \in {0, 1} /\ Bit(n, 32) \in {0, 1} /\ Bit(n, 64) \in {0, 1} /\ Bit(n, 128) \in {0, 1}
  <2>1. \A n \in {a, b, k} : n \in Nat
    OBVIOUS
  <2>2. \A n \in Nat, w \in Nat \ {0} : Bit(n, w) \in {0, 1}
    BY BitIsBit, Zenon
  <2>3. QED
    BY ONLY <2>1, <2>2, SMT
<1> DEFINE A(w) == (Bit(a, w) + Bit(k, w)) % 2
           B(w) == (Bit(b, w) + Bit(k, w)) % 2
<1>1. a = Bit(a, 1) + 2 * Bit(a, 2) + 4 * Bit(a, 4) + 8 * Bit(a, 8) + 16 * Bit(a, 16)
           + 32 * Bit(a, 32) + 64 * Bit(a, 64) + 128 * Bit(a, 128)
  BY BitsOf, Zenon
<1>2. b = Bit(b, 1) + 2 * Bit(b, 2) + 4 * Bit(b, 4) + 8 * Bit(b, 8) + 16 * Bit(b, 16)
           + 32 * Bit(b, 32) + 64 * Bit(b, 64) + 128 * Bit(b, 128)
  BY BitsOf, Zenon
<1>3. /\ Xor(a, k) = 1 * A(1) + 2 * A(2) + 4 * A(4) + 8 * A(8) + 16 * A(16)
           + 32 * A(32) + 64 * A(64) + 128 * A(128)
      /\ Xor(b, k) = 1 * B(1) + 2 * B(2) + 4 * B(4) + 8 * B(8) + 16 * B(16)
           + 32 * B(32) + 64 * B(64) + 128 * B(128)
  BY DEF Xor
<1>4. A(1) \in {0, 1} /\ B(1) \in {0, 1} /\ (A(1) = B(1) => Bit(a, 1) = Bit(b, 1))
  BY <1>0, BitTells
<1>5. A(2) \in {0, 1} /\ B(2) \in {0, 1} /\ (A(2) = B(2) => Bit(a, 2) = Bit(b, 2))
  BY <1>0, BitTells
<1>6. A(4) \in {0, 1} /\ B(4) \in {0, 1} /\ (A(4) = B(4) => Bit(a, 4) = Bit(b, 4))
  BY <1>0, BitTells
<1>7. A(8) \in {0, 1} /\ B(8) \in {0, 1} /\ (A(8) = B(8) => Bit(a, 8) = Bit(b, 8))
  BY <1>0, BitTells
<1>8. A(16) \in {0, 1} /\ B(16) \in {0, 1} /\ (A(16) = B(16) => Bit(a, 16) = Bit(b, 16))
  BY <1>0, BitTells
<1>9. A(32) \in {0, 1} /\ B(32) \in {0, 1} /\ (A(32) = B(32) => Bit(a, 32) = Bit(b, 32))
  BY <1>0, BitTells
<1>10. A(64) \in {0, 1} /\ B(64) \in {0, 1} /\ (A(64) = B(64) => Bit(a, 64) = Bit(b, 64))
  BY <1>0, BitTells
<1>11. A(128) \in {0, 1} /\ B(128) \in {0, 1} /\ (A(128) = B(128) => Bit(a, 128) = Bit(b, 128))
  BY <1>0, BitTells
<1> HIDE DEF A, B
<1>12. /\ Xor(a, k) = A(1) + 2 * A(2) + 4 * A(4) + 8 * A(8) + 16 * A(16)
           + 32 * A(32) + 64 * A(64) + 128 * A(128)
       /\ Xor(b, k) = B(1) + 2 * B(2) + 4 * B(4) + 8 * B(8) + 16 * B(16)
           + 32 * B(32) + 64 * B(64) + 128 * B(128)
  <2>1. 1 * A(1) = A(1) /\ 1 * B(1) = B(1)
    BY ONLY <1>4
  <2>2. QED
    BY ONLY <1>3, <2>1
<1>13. Xor(a, k) \in Nat
  BY ONLY <1>4, <1>5, <1>6, <1>7, <1>8, <1>9, <1>10, <1>11, <1>12
<1>14. ASSUME Xor(a, k) = Xor(b, k) PROVE a = b
  <2>1. A(1) + 2 * A(2) + 4 * A(4) + 8 * A(8) + 16 * A(16)
           + 32 * A(32) + 64 * A(64) + 128 * A(128)
          = B(1) + 2 * B(2) + 4 * B(4) + 8 * B(8) + 16 * B(16)
           + 32 * B(32) + 64 * B(64) + 128 * B(128)
    BY ONLY <1>12, <1>14
  <2>2. /\ A(1) = B(1) /\ A(2) = B(2) /\ A(4) = B(4) /\ A(8) = B(8)
        /\ A(16) = B(16) /\ A(32) = B(32) /\ A(64) = B(64) /\ A(128) = B(128)
    BY ONLY <1>4, <1>5, <1>6, <1>7, <1>8, <1>9, <1>10, <1>11, <2>1, SMTT(60)
  <2>3. /\ Bit(a, 1) = Bit(b, 1) /\ Bit(a, 2) = Bit(b, 2)
        /\ Bit(a, 4) = Bit(b, 4) /\ Bit(a, 8) = Bit(b, 8)
        /\ Bit(a, 16) = Bit(b, 16) /\ Bit(a, 32) = Bit(b, 32)
        /\ Bit(a, 64) = Bit(b, 64) /\ Bit(a, 128) = Bit(b, 128)
    BY ONLY <1>4, <1>5, <1>6, <1>7, <1>8, <1>9, <1>10, <1>11, <2>2
  <2>4. QED
    BY ONLY <1>1, <1>2, <2>3
<1>15. QED
  BY <1>13, <1>14

Descrambled(data) == [k \in 1..8 |-> Xor(ByteAt(data, PasswordSlot.offset + k - 1), Key[k])]

\* Without the zeros at the end, if that is a password.
Stripped(decoded) ==
  LET length  == Longest({0} \cup {k \in 1..8 : decoded[k] # 0})
      trimmed == SubSeq(decoded, 1, length)
  IN  IF length >= 6 /\ ToSet(trimmed) \subseteq PasswordCharacters THEN trimmed ELSE <<>>

\* The recovered password is the slot with the key taken off, stripped.
LEMMA PasswordIs ==
  ASSUME NEW data PROVE RecoveredPassword(data) = Stripped(Descrambled(data))
BY Zenon DEF RecoveredPassword, Stripped, Descrambled

\* A password tells the eight bytes it is made of.
LEMMA StrippedTells ==
  ASSUME NEW decoded \in Seq(Nat), Len(decoded) = 8, Stripped(decoded) # <<>>
  PROVE  \E n \in 0..8 : /\ Len(Stripped(decoded)) = n
                         /\ \A k \in 1..n : Stripped(decoded)[k] = decoded[k]
                         /\ \A k \in 1..8 : k > n => decoded[k] = 0
<1> DEFINE S == {0} \cup {k \in 1..8 : decoded[k] # 0}
           n == Longest(S)
<1>1. n \in 0..8 /\ \A k \in 1..8 : k > n => decoded[k] = 0
  <2>1. S \in SUBSET (0..8) /\ S \in SUBSET Nat /\ 0 \in S
    OBVIOUS
  <2>2. IsFiniteSet(0..8)
    <3>1. 0 \in Int /\ 8 \in Int
      OBVIOUS
    <3>2. QED
      BY ONLY <3>1, FS_Interval, Zenon
  <2>3. \A k \in 1..8 : decoded[k] # 0 => k \in S
    OBVIOUS
  <2> HIDE DEF S
  <2>4. n \in S /\ \A m \in S : m <= n
    BY <2>1, <2>2, FS_Subset, LongestIs
  <2> HIDE DEF n
  <2>5. n \in 0..8
    BY ONLY <2>1, <2>4
  <2>6. QED
    BY ONLY <2>3, <2>4, <2>5
<1>2. Stripped(decoded) = SubSeq(decoded, 1, n)
  BY DEF Stripped
<1> HIDE DEF n
<1>3. Len(SubSeq(decoded, 1, n)) = n /\ \A k \in 1..n : SubSeq(decoded, 1, n)[k] = decoded[k]
  BY <1>1
<1>4. QED
  BY <1>1, <1>2, <1>3

\* A recovered password changes with its bytes, and only with them.
LEMMA PasswordTells ==
  ASSUME NEW base, NEW candidate, ReadsBytes(base), ReadsBytes(candidate),
         RecoveredPassword(base) # <<>>, RecoveredPassword(base) = RecoveredPassword(candidate)
  PROVE  \A i \in Offset(PasswordSlot) : ByteAt(base, i) = ByteAt(candidate, i)
<1> DEFINE x == Descrambled(base)
           y == Descrambled(candidate)
<1>1. \A i : ByteAt(base, i) \in 0..255 /\ ByteAt(candidate, i) \in 0..255
  BY DEF ReadsBytes
<1>2. \A k \in 1..8 : Key[k] \in 0..255
  <2>1. /\ Key[1] \in 0..255 /\ Key[2] \in 0..255 /\ Key[3] \in 0..255 /\ Key[4] \in 0..255
        /\ Key[5] \in 0..255 /\ Key[6] \in 0..255 /\ Key[7] \in 0..255 /\ Key[8] \in 0..255
    BY DEF Key
  <2>2. SUFFICES ASSUME NEW k \in 1..8 PROVE Key[k] \in 0..255
    OBVIOUS
  <2>3. k = 1 \/ k = 2 \/ k = 3 \/ k = 4 \/ k = 5 \/ k = 6 \/ k = 7 \/ k = 8
    BY ONLY k \in 1..8
  <2>4. QED
    BY ONLY <2>1, <2>3, Zenon
<1>3. ASSUME NEW n \in 0..255, NEW m \in 0..255 PROVE Xor(n, m) \in Nat
  BY XorTells
<1>4. PasswordSlot.offset = 73 /\ Offset(PasswordSlot) = 73..80
  BY DEF PasswordSlot, Run, Offset, End
<1>5. \A k \in 1..8 : /\ x[k] = Xor(ByteAt(base, 73 + k - 1), Key[k])
                      /\ y[k] = Xor(ByteAt(candidate, 73 + k - 1), Key[k])
  BY <1>4 DEF Descrambled
<1>6. x \in Seq(Nat) /\ Len(x) = 8 /\ y \in Seq(Nat) /\ Len(y) = 8
  <2>1. x = [k \in 1..8 |-> x[k]] /\ y = [k \in 1..8 |-> y[k]]
    BY DEF Descrambled
  <2>2. \A k \in 1..8 : x[k] \in Nat /\ y[k] \in Nat
    <3> SUFFICES ASSUME NEW k \in 1..8 PROVE x[k] \in Nat /\ y[k] \in Nat
      OBVIOUS
    <3>1. /\ ByteAt(base, 73 + k - 1) \in 0..255 /\ ByteAt(candidate, 73 + k - 1) \in 0..255
          /\ Key[k] \in 0..255
      BY <1>1, <1>2
    <3>2. /\ Xor(ByteAt(base, 73 + k - 1), Key[k]) \in Nat
          /\ Xor(ByteAt(candidate, 73 + k - 1), Key[k]) \in Nat
      BY ONLY <1>3, <3>1
    <3>3. QED
      BY ONLY <1>5, <3>2, k \in 1..8
  <2> HIDE DEF x, y
  <2>3. QED
    BY ONLY <2>1, <2>2
<1>7. Stripped(x) = Stripped(y) /\ Stripped(x) # <<>>
  BY PasswordIs
<1> HIDE DEF x, y
<1>8. PICK n \in 0..8 : /\ Len(Stripped(x)) = n
                        /\ \A k \in 1..n : Stripped(x)[k] = x[k]
                        /\ \A k \in 1..8 : k > n => x[k] = 0
  BY <1>6, <1>7, StrippedTells
<1>9. PICK m \in 0..8 : /\ Len(Stripped(y)) = m
                        /\ \A k \in 1..m : Stripped(y)[k] = y[k]
                        /\ \A k \in 1..8 : k > m => y[k] = 0
  BY <1>6, <1>7, StrippedTells
<1>10. \A k \in 1..8 : x[k] = y[k]
  <2>1. m = n
    BY <1>7, <1>8, <1>9, SMTT(40)
  <2>2. QED
    BY <1>7, <1>8, <1>9, <2>1
<1>11. ASSUME NEW i \in Offset(PasswordSlot) PROVE ByteAt(base, i) = ByteAt(candidate, i)
  <2>1. PICK k \in 1..8 : i = 73 + k - 1
    <3>1. i \in 73..80
      BY <1>4
    <3>2. i - 72 \in 1..8 /\ i = 73 + (i - 72) - 1
      BY <3>1
    <3>3. QED
      BY <3>2
  <2>2. Xor(ByteAt(base, i), Key[k]) = Xor(ByteAt(candidate, i), Key[k])
    BY <1>5, <1>10, <2>1
  <2>3. ByteAt(base, i) \in 0..255 /\ ByteAt(candidate, i) \in 0..255 /\ Key[k] \in 0..255
    BY <1>1, <1>2
  <2>4. QED
    BY ONLY <2>2, <2>3, XorTells
<1>12. QED
  BY <1>11

\* The two files of a diff hold bytes.
LEMMA BytesRead ==
  ASSUME NEW pair \in Pairs, pair.base # Unreadable, pair.candidate # Unreadable
  PROVE  /\ pair.base.size \in Nat /\ ReadsBytes(pair.base)
         /\ pair.candidate.size \in Nat /\ ReadsBytes(pair.candidate)
<1>1. ASSUME NEW data \in {pair.base, pair.candidate}
      PROVE  data.size \in Nat /\ \A i \in DOMAIN data.byte : data.byte[i] \in 0..255
  BY PairsAssumption
<1>2. ASSUME NEW data \in {pair.base, pair.candidate} PROVE data.size \in Nat /\ ReadsBytes(data)
  BY <1>1 DEF ReadsBytes, ByteAt
<1>3. QED
  BY <1>2

\* The slot has changed bytes if and only if the report says that it changed.
LEMMA PasswordShows ==
  ASSUME NEW base, NEW candidate, ReadsBytes(base), ReadsBytes(candidate),
         base.size \in Nat, candidate.size \in Nat, base.size > 80, candidate.size > 80
  PROVE  PasswordChange(base, candidate)
           <=> \E i \in Offset(PasswordSlot) : ByteAt(base, i) # ByteAt(candidate, i)
<1> DEFINE old == RecoveredPassword(base)
           new == RecoveredPassword(candidate)
           moved == {i \in Offset(PasswordSlot) : Differs(base, candidate, i)}
<1>1. PasswordSlot.offset = 73 /\ Offset(PasswordSlot) = 73..80
  BY DEF PasswordSlot, Run, Offset, End
<1>2. CASE old # <<>> /\ new # <<>>
  <2>1. PasswordChange(base, candidate) <=> old # new
    BY <1>2, Zenon DEF PasswordChange
  <2>2. ASSUME old = new PROVE \A i \in Offset(PasswordSlot) : ByteAt(base, i) = ByteAt(candidate, i)
    BY <1>2, <2>2, PasswordTells
  <2>3. ASSUME \A i \in Offset(PasswordSlot) : ByteAt(base, i) = ByteAt(candidate, i) PROVE old = new
    <3>1. \A k \in 1..8 : PasswordSlot.offset + k - 1 \in Offset(PasswordSlot)
      BY <1>1
    <3>2. \A k \in 1..8 : ByteAt(base, PasswordSlot.offset + k - 1)
                            = ByteAt(candidate, PasswordSlot.offset + k - 1)
      BY <2>3, <3>1
    <3>3. Descrambled(base) = Descrambled(candidate)
      BY <3>2, Zenon DEF Descrambled
    <3>4. QED
      BY <3>3, PasswordIs, Zenon
  <2>4. QED
    BY <2>1, <2>2, <2>3
<1>3. CASE ~(old # <<>> /\ new # <<>>)
  <2>1. PasswordChange(base, candidate) <=> Cardinality(moved) > 0
    BY <1>3, Zenon DEF PasswordChange, RegionDiffBytes
  <2>2. \A i \in 73..80 : InRange(base, i) /\ InRange(candidate, i)
    BY DEF InRange
  <2>3. moved = {i \in Offset(PasswordSlot) : ByteAt(base, i) # ByteAt(candidate, i)}
    <3>1. \A i \in Offset(PasswordSlot) : InRange(base, i) = InRange(candidate, i)
      BY <1>1, <2>2 DEF InRange
    <3>2. \A i \in Offset(PasswordSlot) :
            Differs(base, candidate, i) <=> ByteAt(base, i) # ByteAt(candidate, i)
      BY <3>1, Zenon DEF Differs
    <3>3. QED
      BY <3>2, Zenon
  <2>4. IsFiniteSet(moved)
    <3>1. 73 \in Int /\ 80 \in Int
      OBVIOUS
    <3>2. IsFiniteSet(73..80)
      BY ONLY <3>1, FS_Interval, Zenon
    <3>3. moved \subseteq 73..80
      BY <1>1
    <3>4. QED
      BY <3>2, <3>3, FS_Subset
  <2> HIDE DEF moved
  <2>5. Cardinality(moved) > 0 <=> moved # {}
    BY <2>4, FS_EmptySet, FS_CardinalityType
  <2>6. QED
    BY <2>1, <2>3, <2>5, Zenon
<1>4. QED
  BY <1>2, <1>3

-----------------------------------------------------------------------------
(* The report of a diff                                                    *)

\* What Diff reports of a pair.
Compared(pair) ==
  [kind |-> "diff", of |-> pair, result |-> CompareBackupConfigs(pair.base, pair.candidate)]

DiffInv ==
  report.kind = "diff" =>
    \E pair \in Pairs : /\ Unreadable \notin {pair.base, pair.candidate}
                        /\ ~DecodeFails(pair.base) /\ ~DecodeFails(pair.candidate)
                        /\ report = Compared(pair)

\* The report of a pair of files that could be decoded is faithful.
LEMMA DiffIs ==
  ASSUME NEW pair \in Pairs, Unreadable \notin {pair.base, pair.candidate},
         ~DecodeFails(pair.base), ~DecodeFails(pair.candidate), report = Compared(pair)
  PROVE  DiffFaithful
<1> DEFINE base == pair.base
           candidate == pair.candidate
           r == CompareBackupConfigs(base, candidate)
           Moved(i) == ByteAt(base, i) # ByteAt(candidate, i)
<1>1. report.of = pair /\ report.result = r
  BY DEF Compared
<1>2. base.size \in Nat /\ ReadsBytes(base) /\ candidate.size \in Nat /\ ReadsBytes(candidate)
  BY BytesRead
<1>3. base.size > 80 /\ candidate.size > 80
  BY <1>2 DEF DecodeFails, VLANNameAt, NameLength
<1>4. /\ r.fields = {f \in Fields : State(base, f) # State(candidate, f)}
      /\ r.password = PasswordChange(base, candidate)
  BY DEF CompareBackupConfigs
<1> HIDE DEF base, candidate
<1>5. /\ MergeRuns(ToSet(r.runs)) = ComputeChangedRuns(base, candidate)
      /\ r.changed = Cardinality(Offsets(ToSet(r.runs)))
  BY <1>2, ComparedRuns
<1> HIDE DEF r
<1>6. ASSUME NEW f \in r.fields, base.size = candidate.size
      PROVE  \E i \in KnownOffsets(f) : Moved(i)
  BY <1>4, <1>6, FieldStays
<1>7. ASSUME NEW f \in Fields \ r.fields, NEW i \in KnownOffsets(f), Moved(i)
      PROVE  PassedOver(f, base, candidate, i)
  <2>1. f \in Fields /\ State(base, f) = State(candidate, f)
    BY <1>4
  <2>2. QED
    BY <1>2, <1>7, <2>1, FieldShows
<1>8. r.password <=> \E i \in Offset(PasswordSlot) : Moved(i)
  BY <1>2, <1>3, <1>4, PasswordShows
<1>9. report.of.base = base /\ report.of.candidate = candidate /\ report.result = r
  BY <1>1 DEF base, candidate
<1>10. /\ \A f \in r.fields : base.size # candidate.size \/ \E i \in KnownOffsets(f) : Moved(i)
       /\ \A f \in Fields \ r.fields : \A i \in KnownOffsets(f) :
            Moved(i) => PassedOver(f, base, candidate, i)
  BY <1>6, <1>7, Zenon
<1>11. QED
  BY <1>5, <1>8, <1>9, <1>10, Zenon DEF DiffFaithful

\* Only Diff prints such a report.
LEMMA DiffStep == ASSUME DiffInv, [Next]_vars PROVE DiffInv'
<1>1. CASE Diff
  <2>1. \/ report' = report
        \/ \E pair \in Pairs : /\ Unreadable \notin {pair.base, pair.candidate}
                               /\ ~DecodeFails(pair.base) /\ ~DecodeFails(pair.candidate)
                               /\ report' = Compared(pair)
    BY <1>1, Zenon DEF Diff, Shown, Compared
  <2>2. QED
    BY <2>1 DEF DiffInv
<1>2. CASE Decode \/ Infer \/ Probe
  <2>1. \/ report' = report
        \/ \E x, y : report' = [kind |-> "decode", of |-> x, fields |-> y]
        \/ \E x, y, z : report' = [kind |-> "infer", of |-> x, samples |-> y, result |-> z]
        \/ \E x, y : report' = [kind |-> "scan", of |-> x, result |-> y]
    BY <1>2, Zenon DEF Decode, Infer, Probe, Shown
  <2>2. report' = report \/ report'.kind \in {"decode", "infer", "scan"}
    BY <2>1
  <2>3. QED
    BY <2>2 DEF DiffInv
<1>3. CASE \/ Parse \/ Check \/ Scan \/ Suite \/ Connect \/ Login \/ GetSystemInfo \/ Request \/ Script
           \/ Interact \/ Logout \/ UNCHANGED vars
  <2>1. report' = report
    BY <1>3 DEF Parse, Check, Scan, Suite, Connect, Login, GetSystemInfo, Request, Script, Interact, Logout, vars
  <2>2. QED
    BY <2>1 DEF DiffInv
<1>4. QED
  BY <1>1, <1>2, <1>3 DEF Next

\* For any two backups, of any sizes and contents, the diff agrees with the structure
\* inference on what changed, reports a field as changed only over a changed byte of
\* it, passes a changed byte over only where the report need not show it, and always
\* shows a changed password slot (CompareBackupConfigs).
THEOREM ChangesFaithful == Spec => []DiffFaithful
<1>1. Init => DiffInv
  BY DEF Init, DiffInv, NoReport
<1>2. DiffInv => DiffFaithful
  <2>1. CASE report.kind = "diff"
    BY <2>1, DiffIs DEF DiffInv
  <2>2. CASE report.kind # "diff"
    BY <2>2 DEF DiffFaithful
  <2>3. QED
    BY <2>1, <2>2
<1>3. QED
  BY <1>1, <1>2, DiffStep, PTL DEF Spec
=============================================================================
