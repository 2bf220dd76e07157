--------------------------- MODULE Dot1QVlan_proofs ---------------------------
(***************************************************************************)
(* Proofs about Dot1QVlan.  The lists a command derives from its reading   *)
(* are described first: which VLANs they touch, in which order, and what   *)
(* they leave alone.  Core then holds in every reachable state, whatever   *)
(* the interleaving; Keeps, OnTheWay and Bridgeless are about a CLI that   *)
(* has worked alone, and follow its queue of writes to the switch.         *)
(***************************************************************************)
EXTENDS Dot1QVlan, TLAPS, FiniteSetTheorems

-----------------------------------------------------------------------------
(* Induction over the naturals, by the least element of the complement.    *)

Less == {ss \in Nat \X Nat : ss[1] < ss[2]}

LEMMA LessWellFounded == IsWellFoundedOn(Less, Nat)
<1>1. OpToRel(<, Nat) = Less
  BY DEF OpToRel, Less
<1>2. QED
  BY <1>1, NatLessThanWellFounded

\* A set of naturals with 0 and the successor of each of its elements holds them all.
LEMMA Induction ==
  ASSUME NEW S \in SUBSET Nat, 0 \in S, \A n \in S : n + 1 \in S
  PROVE  S = Nat
<1> SUFFICES ASSUME Nat \ S # {} PROVE FALSE
  OBVIOUS
<1>1. PICK m \in Nat \ S : \A y \in Nat \ S : ~(<<y, m>> \in Less)
  BY LessWellFounded, WFMin
<1>2. m # 0 /\ m - 1 \in Nat /\ <<m - 1, m>> \in Less
  BY DEF Less
<1>3. m - 1 \in S
  BY <1>1, <1>2
<1>4. QED
  BY <1>1, <1>3
-----------------------------------------------------------------------------
(* Lists                                                                   *)

\* The defining equation of the function FlattenSeq is made of.
Flattening(f, ss) == f = [i \in 1..Len(ss) |-> IF i = 1 THEN ss[i] ELSE f[i - 1] \o ss[i]]

LEMMA FlatteningExists ==
  ASSUME NEW X, NEW ss \in Seq(X)
  PROVE  \E f : Flattening(f, ss)
<1> DEFINE Upto(f, n) == f = [i \in 1..n |-> IF i = 1 THEN ss[i] ELSE f[i - 1] \o ss[i]]
           Done == {n \in Nat : \E f : Upto(f, n)}
<1>1. 0 \in Done
  <2>1. Upto(<<>>, 0)
    <3>1. 1..0 = {}
      OBVIOUS
    <3>2. QED
      BY <3>1
  <2>2. QED
    BY <2>1
<1>2. ASSUME NEW n \in Done PROVE n + 1 \in Done
  <2>1. PICK f : Upto(f, n)
    OBVIOUS
  <2> DEFINE last == IF n = 0 THEN ss[1] ELSE f[n] \o ss[n + 1]
             g == [i \in 1..(n + 1) |-> IF i = n + 1 THEN last ELSE f[i]]
  <2>2. \A i \in 1..n : f[i] = IF i = 1 THEN ss[i] ELSE f[i - 1] \o ss[i]
    BY <2>1
  <2>3. \A i \in 1..(n + 1) : g[i] = IF i = 1 THEN ss[i] ELSE g[i - 1] \o ss[i]
    <3> SUFFICES ASSUME NEW i \in 1..(n + 1)
                 PROVE  g[i] = IF i = 1 THEN ss[i] ELSE g[i - 1] \o ss[i]
      OBVIOUS
    <3>1. CASE i = n + 1
      BY <3>1
    <3>2. CASE i # n + 1
      BY <2>2, <3>2
    <3>3. QED
      BY <3>1, <3>2
  <2>4. Upto(g, n + 1)
    BY <2>3
  <2> HIDE DEF g, Upto
  <2>5. QED
    BY <2>4
<1>3. Done = Nat
  <2> HIDE DEF Done
  <2>1. Done \in SUBSET Nat
    BY DEF Done
  <2>2. QED
    BY <1>1, <1>2, <2>1, Induction
<1>4. \E f : Upto(f, Len(ss))
  <2>1. Len(ss) \in Nat
    OBVIOUS
  <2>2. Len(ss) \in Done
    BY <1>3, <2>1
  <2> HIDE DEF Upto
  <2>3. QED
    BY <2>2, Zenon
<1>5. QED
  BY <1>4 DEF Flattening

\* Lists of elements of X laid end to end are a list of elements of X that ends with
\* the last of them.
LEMMA FlattenSeqEnds ==
  ASSUME NEW X, NEW ss \in Seq(Seq(X)), ss # <<>>
  PROVE  \E pre \in Seq(X) : FlattenSeq(ss) = pre \o ss[Len(ss)]
<1> DEFINE f == CHOOSE f : Flattening(f, ss)
           N == Len(ss)
<1>1. N \in Nat /\ N # 0 /\ \A i \in 1..N : ss[i] \in Seq(X)
  OBVIOUS
<1>2. Flattening(f, ss)
  BY FlatteningExists
<1>3. \A i \in 1..N : f[i] = IF i = 1 THEN ss[i] ELSE f[i - 1] \o ss[i]
  BY <1>2 DEF Flattening
<1>4. FlattenSeq(ss) = f[N]
  BY <1>1 DEF FlattenSeq, Flattening
<1> HIDE DEF f
<1> DEFINE Typed == {n \in Nat : n \in 1..N => f[n] \in Seq(X)}
<1>5. Typed = Nat
  <2>1. 0 \in Typed /\ Typed \in SUBSET Nat
    OBVIOUS
  <2>2. ASSUME NEW n \in Typed PROVE n + 1 \in Typed
    <3> SUFFICES ASSUME n + 1 \in 1..N PROVE f[n + 1] \in Seq(X)
      OBVIOUS
    <3>1. CASE n = 0
      BY <1>1, <1>3, <3>1
    <3>2. CASE n # 0
      <4>1. f[n + 1] = f[n] \o ss[n + 1]
        <5>1. n + 1 \in 1..N /\ n + 1 # 1 /\ (n + 1) - 1 = n
          BY <3>2
        <5>2. QED
          BY <1>3, <5>1
      <4>2. f[n] \in Seq(X) /\ ss[n + 1] \in Seq(X)
        BY <1>1, <3>2
      <4>3. QED
        BY <4>1, <4>2
    <3>3. QED
      BY <3>1, <3>2
  <2> HIDE DEF Typed
  <2>3. QED
    BY <2>1, <2>2, Induction
<1>6. CASE N = 1
  <2>1. f[N] = <<>> \o ss[N] /\ <<>> \in Seq(X)
    BY <1>1, <1>3, <1>6
  <2>2. QED
    BY <1>4, <2>1
<1>7. CASE N # 1
  <2>1. N \in 1..N /\ N - 1 \in 1..N /\ N - 1 \in Typed
    <3>1. N - 1 \in Nat /\ N \in 1..N /\ N - 1 \in 1..N
      <4> HIDE DEF N
      <4>1. QED
        BY <1>1, <1>7
    <3> HIDE DEF Typed
    <3>2. QED
      BY <1>5, <3>1
  <2>2. f[N] = f[N - 1] \o ss[N] /\ f[N - 1] \in Seq(X)
    BY <1>3, <1>7, <2>1
  <2>3. QED
    BY <1>4, <2>2
<1>8. QED
  BY <1>6, <1>7, SMTT(40)

LEMMA VidsFinite == ASSUME NEW S \in SUBSET Vids PROVE IsFiniteSet(S) /\ S \subseteq Nat
<1>1. S \in SUBSET Nat /\ \A v \in S : v <= 4094
  BY ConstantsAssumption
<1>2. QED
  BY <1>1, FS_BoundedSetOfNaturals

\* Ascending(S) lists S.
LEMMA AscendingLists ==
  ASSUME NEW S \in SUBSET Vids
  PROVE  Ascending(S) \in Seq(S) /\ ToSet(Ascending(S)) = S
<1> DEFINE n == Cardinality(S)
           Below(v) == {w \in S : w < v}
           rank == [v \in S |-> Cardinality(Below(v)) + 1]
<1>1. IsFiniteSet(S) /\ S \subseteq Nat /\ n \in Nat
  BY VidsFinite, FS_CardinalityType
<1>2. ASSUME NEW v \in S
      PROVE  /\ IsFiniteSet(Below(v)) /\ Cardinality(Below(v)) \in Nat /\ Cardinality(Below(v)) < n
  <2>1. Below(v) \in SUBSET S /\ v \notin Below(v)
    BY <1>1
  <2>2. IsFiniteSet(Below(v)) /\ Cardinality(Below(v)) <= n /\ Cardinality(Below(v)) # n
    BY <1>1, <2>1, FS_Subset
  <2>3. QED
    BY <1>1, <2>2, FS_CardinalityType
<1>3. ASSUME NEW v \in S, NEW w \in S, v < w
      PROVE  Cardinality(Below(v)) < Cardinality(Below(w))
  <2>1. v \in Below(w) /\ v \notin Below(v)
    BY <1>1, <1>3
  <2>4. \A u \in S : u < v => u < w
    BY <1>1, <1>3
  <2>5. Below(v) \in SUBSET Below(w)
    BY <2>4
  <2>2. /\ Cardinality(Below(v)) <= Cardinality(Below(w))
        /\ Cardinality(Below(v)) # Cardinality(Below(w))
    BY <1>2, <2>1, <2>5, FS_Subset
  <2>3. QED
    BY <1>2, <2>2
<1>4. rank \in Injection(S, 1..n)
  <2>1. rank \in [S -> 1..n]
    BY <1>1, <1>2
  <2>2. \A v, w \in S : rank[v] = rank[w] => v = w
    <3> SUFFICES ASSUME NEW v \in S, NEW w \in S, v # w PROVE rank[v] # rank[w]
      OBVIOUS
    <3>1. v < w \/ w < v
      BY <1>1
    <3>2. /\ Cardinality(Below(v)) \in Nat /\ Cardinality(Below(w)) \in Nat
          /\ Cardinality(Below(v)) # Cardinality(Below(w))
      BY <1>2, <1>3, <3>1
    <3>3. QED
      BY <3>2
  <2>3. QED
    BY <2>1, <2>2 DEF Injection, IsInjective
<1>5. \A i \in 1..n : \E v \in S : rank[v] = i
  <2>1. IsFiniteSet(1..n) /\ Cardinality(1..n) = n
    BY <1>1, FS_Interval
  <2>2. rank \in Surjection(S, 1..n)
    BY <1>4, <2>1, FS_Injection
  <2>3. QED
    BY <2>2 DEF Surjection
<1>6. ASSUME NEW i \in 1..n
      PROVE  /\ Ascending(S)[i] \in S
             /\ \A v \in S : rank[v] = i => Ascending(S)[i] = v
  <2>1. Ascending(S)[i] = CHOOSE v \in S : Cardinality(Below(v)) = i - 1
    BY DEF Ascending
  <2>2. \A v \in S : rank[v] = i <=> Cardinality(Below(v)) = i - 1
    BY <1>1, <1>2
  <2>3. \E v \in S : Cardinality(Below(v)) = i - 1
    BY <1>5, <2>2
  <2>4. Ascending(S)[i] \in S /\ Cardinality(Below(Ascending(S)[i])) = i - 1
    BY <2>1, <2>3
  <2>5. \A v, w \in S : rank[v] = rank[w] => v = w
    BY <1>4 DEF Injection, IsInjective
  <2>6. QED
    BY <2>2, <2>4, <2>5
<1>7. DOMAIN Ascending(S) = 1..n
  BY DEF Ascending
<1>8. Ascending(S) \in Seq(S)
  <2>1. \A i \in 1..n : Ascending(S)[i] \in S
    BY <1>6
  <2>2. Ascending(S) \in [1..n -> S]
    BY <2>1 DEF Ascending
  <2>3. QED
    BY <1>1, <2>2
<1>9. \A v \in S : \E i \in 1..n : Ascending(S)[i] = v
  <2>1. \A v \in S : rank[v] \in 1..n
    BY <1>4 DEF Injection
  <2>2. QED
    BY <1>6, <2>1
<1>10. QED
  BY <1>6, <1>7, <1>8, <1>9 DEF ToSet
-----------------------------------------------------------------------------
(* What a command writes                                                   *)

Disjoint(t) == \A v \in Vids : t.tagged[v] \cap t.untagged[v] = {}

IsOn(w, v) == w.kind = "vlan" /\ w.vid = v

Sound == {w \in WriteType : ~Overlaps(w)}

\* Writes that leave the ports not named their PVIDs, and their VLANs as a reading s has
\* them.
FaithfulTo(r, s) ==
  {w \in Sound :
     /\ w.kind # "delete"
     /\ w.kind = "pvid" => w.untagged \subseteq ToSet(r.ports)
     /\ w.kind = "vlan" => \A p \in Ports \ ToSet(r.ports) :
          /\ p \in w.tagged <=> p \in s.tagged[w.vid] /\ p <= 8
          /\ p \in w.untagged <=> p \in s.untagged[w.vid] /\ p <= 8}

LEMMA Named ==
  ASSUME NEW r \in Requests
  PROVE  /\ r.kind \in Kinds
         /\ r.ports \in Seq(Ports) /\ ToSet(r.ports) \subseteq Ports \cap 1..8
         /\ r.vids \in Seq(Vids) /\ r.vids # <<>> /\ r.vids[1] \in Vids
         /\ Len(r.vids) \in Nat \ {0} /\ ToSet(r.vids) \subseteq Vids
         /\ r.kind \notin {"no_vlan", "name"} =>
              Last(r.ports) \in ToSet(r.ports) /\ Len(r.ports) \in Nat \ {0}
<1>1. r \in RequestType /\ r.vids # <<>> /\ (r.kind \notin {"no_vlan", "name"} => r.ports # <<>>)
  BY ConstantsAssumption
<1>2. r.kind \in Kinds /\ r.ports \in Seq(Ports \cap 1..8) /\ r.vids \in Seq(Vids)
  BY <1>1 DEF RequestType
<1>3. \A i \in 1..Len(r.ports) : r.ports[i] \in Ports \cap 1..8
  BY <1>2
<1>4. r.ports \in Seq(Ports)
  BY <1>2
<1>5. ToSet(r.ports) \subseteq Ports \cap 1..8
  BY <1>2, <1>3 DEF ToSet
<1>6. r.vids[1] \in Vids /\ Len(r.vids) \in Nat \ {0}
  BY <1>1, <1>2
<1>7. ToSet(r.vids) \subseteq Vids
  BY <1>2 DEF ToSet
<1>8. r.ports # <<>> => Last(r.ports) \in ToSet(r.ports) /\ Len(r.ports) \in Nat \ {0}
  BY <1>2 DEF Last, ToSet
<1>9. QED
  BY <1>1, <1>2, <1>4, <1>5, <1>6, <1>7, <1>8

LEMMA BitsRows ==
  ASSUME NEW s \in Tables
  PROVE  /\ BitsToPorts(s) \in Tables /\ BitsToPorts(s).vids = s.vids
         /\ \A v \in Vids : /\ BitsToPorts(s).tagged[v] = s.tagged[v] \cap 1..8
                            /\ BitsToPorts(s).untagged[v] = s.untagged[v] \cap 1..8
  BY DEF Tables, BitsToPorts

\* Ports a CLI has a name for.
LEMMA LowPorts == \A q \in Ports : q \in 1..8 <=> q <= 8
<1>1. \A q \in Ports : q \in 1..32
  BY ConstantsAssumption
<1>2. QED
  BY <1>1

\* The rows a command writes, each for a VLAN v and ports that it names.
LEMMA RowsFaithful ==
  ASSUME NEW r \in Requests, NEW t \in Tables, Disjoint(t), NEW v \in Vids,
         NEW p \in ToSet(r.ports), NEW s, s = BitsToPorts(t)
  PROVE  /\ JoinAsAccess(s, p, v) \in FaithfulTo(r, t)
         /\ SetVlan(v, s.tagged[v], s.untagged[v] \ {p}) \in FaithfulTo(r, t)
<1>1. /\ s.tagged[v] = t.tagged[v] \cap 1..8 /\ s.untagged[v] = t.untagged[v] \cap 1..8
      /\ t.tagged[v] \cap t.untagged[v] = {} /\ t.tagged[v] \subseteq Ports /\ t.untagged[v] \subseteq Ports
      /\ p \in Ports
  BY BitsRows, Named DEF Disjoint, Tables
<1>2. \A q \in Ports : q \in 1..8 <=> q <= 8
  BY LowPorts
<1>3. QED
  BY <1>1, <1>2 DEF JoinAsAccess, SetVlan, FaithfulTo, Sound, Overlaps, WriteType

LEMMA RangeRowsFaithful ==
  ASSUME NEW r \in Requests, NEW t \in Tables, Disjoint(t), NEW v \in Vids,
         NEW s, s = BitsToPorts(t)
  PROVE  /\ TrunkAdd(s, ToSet(r.ports), v) \in FaithfulTo(r, t)
         /\ TrunkRemove(s, ToSet(r.ports), v) \in FaithfulTo(r, t)
         /\ SetVlan(v, s.tagged[v], s.untagged[v]) \in FaithfulTo(r, t)
         /\ SetPvid(ToSet(r.ports), v) \in FaithfulTo(r, t)
<1>1. /\ s.tagged[v] = t.tagged[v] \cap 1..8 /\ s.untagged[v] = t.untagged[v] \cap 1..8
      /\ t.tagged[v] \cap t.untagged[v] = {} /\ t.tagged[v] \subseteq Ports /\ t.untagged[v] \subseteq Ports
      /\ ToSet(r.ports) \subseteq Ports
  BY BitsRows, Named DEF Disjoint, Tables
<1>2. \A q \in Ports : q \in 1..8 <=> q <= 8
  BY LowPorts
<1>3. TrunkAdd(s, ToSet(r.ports), v) \in FaithfulTo(r, t) /\ TrunkRemove(s, ToSet(r.ports), v) \in FaithfulTo(r, t)
  BY <1>1, <1>2 DEF TrunkAdd, TrunkRemove, SetVlan, FaithfulTo, Sound, Overlaps, WriteType
<1>4. SetVlan(v, s.tagged[v], s.untagged[v]) \in FaithfulTo(r, t)
  BY <1>1, <1>2 DEF SetVlan, FaithfulTo, Sound, Overlaps, WriteType
<1>5. SetPvid(ToSet(r.ports), v) \in FaithfulTo(r, t)
  BY <1>1 DEF SetPvid, FaithfulTo, Sound, Overlaps, WriteType
<1>6. QED
  BY <1>3, <1>4, <1>5

Others(s, p, v) == {w \in s.vids \ {v} : p \in s.untagged[w]}

\* The VLANs an interface leaves: each of them and no other is written once.
LEMMA Leaving ==
  ASSUME NEW r \in Requests, NEW t \in Tables, Disjoint(t), NEW v \in Vids,
         NEW p \in ToSet(r.ports), NEW s, s = BitsToPorts(t)
  PROVE  /\ LeaveOthers(s, p, v) \in Seq(FaithfulTo(r, t))
         /\ \A i \in 1..Len(LeaveOthers(s, p, v)) :
              LET w == LeaveOthers(s, p, v)[i]
              IN  /\ w.kind = "vlan" /\ w.vid \in Others(s, p, v)
                  /\ w.untagged = s.untagged[w.vid] \ {p}
         /\ \A u \in Others(s, p, v) :
              \E i \in 1..Len(LeaveOthers(s, p, v)) : LeaveOthers(s, p, v)[i].vid = u
<1> DEFINE A == Ascending(Others(s, p, v))
           L == LeaveOthers(s, p, v)
<1>1. s \in Tables /\ Others(s, p, v) \in SUBSET Vids
  BY BitsRows DEF Tables, Others
<1>2. A \in Seq(Others(s, p, v)) /\ ToSet(A) = Others(s, p, v)
  BY <1>1, AscendingLists
<1>3. L = [i \in DOMAIN A |-> SetVlan(A[i], s.tagged[A[i]], s.untagged[A[i]] \ {p})]
  BY DEF LeaveOthers, Others
<1>4. DOMAIN A = 1..Len(A) /\ Len(A) \in Nat
  BY <1>2
<1>5. \A i \in 1..Len(A) : A[i] \in Others(s, p, v) /\ A[i] \in Vids
  BY <1>1, <1>2
<1>6. \A i \in 1..Len(A) : L[i] = SetVlan(A[i], s.tagged[A[i]], s.untagged[A[i]] \ {p})
  BY <1>3, <1>4
<1>7. ASSUME NEW i \in 1..Len(A) PROVE L[i] \in FaithfulTo(r, t)
  <2> HIDE DEF A, L
  <2>1. SetVlan(A[i], s.tagged[A[i]], s.untagged[A[i]] \ {p}) \in FaithfulTo(r, t)
    BY <1>5, RowsFaithful
  <2>2. QED
    BY <1>6, <2>1
<1>8. L \in Seq(FaithfulTo(r, t)) /\ Len(L) = Len(A)
  <2>1. L \in [1..Len(A) -> FaithfulTo(r, t)]
    BY <1>3, <1>4, <1>7
  <2>2. QED
    BY <1>4, <2>1
<1>9. \A u \in Others(s, p, v) : \E i \in 1..Len(A) : A[i] = u
  BY <1>2, <1>4 DEF ToSet
<1>10. ASSUME NEW i \in 1..Len(A)
       PROVE  /\ L[i].kind = "vlan" /\ L[i].vid = A[i]
              /\ L[i].untagged = s.untagged[A[i]] \ {p}
  <2> HIDE DEF A, L
  <2>1. L[i] = SetVlan(A[i], s.tagged[A[i]], s.untagged[A[i]] \ {p})
    BY <1>6
  <2>2. QED
    BY <2>1 DEF SetVlan
<1> HIDE DEF A, L
<1>11. \A i \in 1..Len(L) : /\ L[i].kind = "vlan" /\ L[i].vid \in Others(s, p, v)
                            /\ L[i].untagged = s.untagged[L[i].vid] \ {p}
  BY <1>5, <1>8, <1>10
<1>12. \A u \in Others(s, p, v) : \E i \in 1..Len(L) : L[i].vid = u
  BY <1>8, <1>9, <1>10
<1>13. QED
  BY <1>8, <1>11, <1>12 DEF L

\* What setting interface p to access VLAN v writes.
AccessRows(r, s, v) ==
  {w \in FaithfulTo(r, s) : w.kind = "vlan" /\ \A q \in w.untagged :
      q \in s.untagged[w.vid] \/ (w.vid = v /\ q \in ToSet(r.ports))}

LEMMA AccessPortRows ==
  ASSUME NEW r \in Requests, NEW t \in Tables, Disjoint(t), NEW v \in Vids,
         NEW p \in ToSet(r.ports), NEW s, s = BitsToPorts(t)
  PROVE  AccessPort(s, p, v) \in Seq(AccessRows(r, t, v))
<1> DEFINE L == LeaveOthers(s, p, v)
           J == JoinAsAccess(s, p, v)
<1>1. \A u \in Vids : s.untagged[u] = t.untagged[u] \cap 1..8
  BY BitsRows
<1>2. J \in AccessRows(r, t, v)
  <2>1. J \in FaithfulTo(r, t) /\ J.kind = "vlan" /\ J.vid = v /\ J.untagged = s.untagged[v] \cup {p}
    BY RowsFaithful DEF JoinAsAccess, SetVlan
  <2> HIDE DEF J
  <2>2. QED
    BY <1>1, <2>1 DEF AccessRows
<1>3. L \in Seq(FaithfulTo(r, t)) /\ \A i \in 1..Len(L) :
        L[i].kind = "vlan" /\ L[i].vid \in Vids /\ L[i].untagged = s.untagged[L[i].vid] \ {p}
  <2>1. Others(s, p, v) \subseteq Vids
    BY BitsRows DEF Tables, Others
  <2>2. QED
    BY <2>1, Leaving
<1> HIDE DEF L, J
<1>4. \A i \in 1..Len(L) : L[i] \in AccessRows(r, t, v)
  BY <1>1, <1>3 DEF AccessRows
<1>5. L \in Seq(AccessRows(r, t, v))
  BY <1>3, <1>4
<1>6. QED
  BY <1>2, <1>5 DEF AccessPort, L, J

\* "access vlan" writes its rows, ending with those of the last interface, and the PVID.
LEMMA AccessWritesEnd ==
  ASSUME NEW r \in Requests, r.kind = "access", NEW t \in Tables, Disjoint(t)
  PROVE  \E pre \in Seq(AccessRows(r, t, r.vids[1])) :
           Writes(r, t) = (pre \o AccessPort(BitsToPorts(t), Last(r.ports), r.vids[1]))
                            \o <<SetPvid(ToSet(r.ports), r.vids[1])>>
<1> DEFINE s == BitsToPorts(t)
           v == r.vids[1]
           X == AccessRows(r, t, v)
           ss == [i \in DOMAIN r.ports |-> AccessPort(s, r.ports[i], v)]
<1>1. Len(r.ports) \in Nat \ {0} /\ DOMAIN r.ports = 1..Len(r.ports) /\ v \in Vids
      /\ \A i \in 1..Len(r.ports) : r.ports[i] \in ToSet(r.ports)
  BY Named DEF ToSet
<1>2. \A i \in 1..Len(r.ports) : AccessPort(s, r.ports[i], v) \in Seq(X)
  <2> HIDE DEF s, v, X
  <2>1. SUFFICES ASSUME NEW i \in 1..Len(r.ports) PROVE AccessPort(s, r.ports[i], v) \in Seq(X)
    OBVIOUS
  <2>2. r.ports[i] \in ToSet(r.ports)
    BY <1>1
  <2>3. QED
    BY <1>1, <2>2, AccessPortRows DEF s, X
<1>3. ss \in Seq(Seq(X)) /\ ss # <<>> /\ Len(ss) = Len(r.ports)
  <2>1. ss \in [1..Len(r.ports) -> Seq(X)]
    BY <1>1, <1>2
  <2> HIDE DEF ss, X
  <2>2. QED
    BY <1>1, <2>1
<1>4. ss[Len(ss)] = AccessPort(s, Last(r.ports), v)
  <2>1. Len(r.ports) \in DOMAIN r.ports
    BY <1>1
  <2>2. QED
    BY <1>3, <2>1 DEF Last
<1>5. \E pre \in Seq(X) : FlattenSeq(ss) = pre \o ss[Len(ss)]
  <2> HIDE DEF ss, X
  <2>1. QED
    BY <1>3, FlattenSeqEnds
<1>6. Writes(r, t) = FlattenSeq(ss) \o <<SetPvid(ToSet(r.ports), v)>>
  BY DEF Writes, AccessWrites
<1> HIDE DEF ss, X, s, v
<1>7. \E pre \in Seq(X) : Writes(r, t) = (pre \o AccessPort(s, Last(r.ports), v)) \o <<SetPvid(ToSet(r.ports), v)>>
  BY <1>4, <1>5, <1>6
<1>8. QED
  BY <1>7 DEF s, v, X

LEMMA WritesFaithful ==
  ASSUME NEW r \in Requests, ReadsTable(r), NEW t \in Tables, Disjoint(t)
  PROVE  Writes(r, t) \in Seq(FaithfulTo(r, t)) /\ Writes(r, t) # <<>>
<1> DEFINE s == BitsToPorts(t)
           P == ToSet(r.ports)
<1>1. /\ r.kind \in {"access", "trunk_add", "trunk_remove", "name"} /\ r.vids[1] \in Vids
      /\ DOMAIN r.vids = 1..Len(r.vids) /\ Len(r.vids) \in Nat \ {0}
      /\ \A i \in 1..Len(r.vids) : r.vids[i] \in Vids
  BY Named DEF ReadsTable, Kinds
<1>2. CASE r.kind = "access"
  <2>1. PICK pre \in Seq(AccessRows(r, t, r.vids[1])) :
           Writes(r, t) = (pre \o AccessPort(s, Last(r.ports), r.vids[1])) \o <<SetPvid(P, r.vids[1])>>
    BY <1>2, AccessWritesEnd
  <2>2. AccessPort(s, Last(r.ports), r.vids[1]) \in Seq(AccessRows(r, t, r.vids[1]))
    BY <1>1, <1>2, Named, AccessPortRows
  <2>3. \A x : x \in AccessRows(r, t, r.vids[1]) => x \in FaithfulTo(r, t)
    BY DEF AccessRows
  <2>4. SetPvid(P, r.vids[1]) \in FaithfulTo(r, t)
    BY <1>1, RangeRowsFaithful
  <2> DEFINE A == AccessPort(s, Last(r.ports), r.vids[1])
             c == SetPvid(P, r.vids[1])
             X == AccessRows(r, t, r.vids[1])
             F == FaithfulTo(r, t)
  <2> HIDE DEF A, c, X, F
  <2>5. pre \in Seq(F) /\ A \in Seq(F) /\ c \in F
    <3>1. pre \in Seq(X) /\ A \in Seq(X) /\ \A x : x \in X => x \in F
      BY <2>2, <2>3 DEF A, X, F
    <3>2. QED
      BY <2>4, <3>1 DEF c, F
  <2>6. (pre \o A) \o <<c>> \in Seq(F) /\ (pre \o A) \o <<c>> # <<>>
    BY <2>5
  <2>7. QED
    BY <2>1, <2>6 DEF A, c, F
<1>3. CASE r.kind = "trunk_add"
  <2>1. \A i \in 1..Len(r.vids) : TrunkAdd(s, P, r.vids[i]) \in FaithfulTo(r, t)
    BY <1>1, RangeRowsFaithful
  <2>2. Writes(r, t) = [i \in 1..Len(r.vids) |-> TrunkAdd(s, P, r.vids[i])]
    BY <1>1, <1>3 DEF Writes
  <2>3. QED
    BY <1>1, <2>1, <2>2
<1>4. CASE r.kind = "trunk_remove"
  <2>1. \A i \in 1..Len(r.vids) : TrunkRemove(s, P, r.vids[i]) \in FaithfulTo(r, t)
    BY <1>1, RangeRowsFaithful
  <2>2. Writes(r, t) = [i \in 1..Len(r.vids) |-> TrunkRemove(s, P, r.vids[i])]
    BY <1>1, <1>4 DEF Writes
  <2>3. QED
    BY <1>1, <2>1, <2>2
<1>5. CASE r.kind = "name"
  <2>1. Writes(r, t) = <<SetVlan(r.vids[1], s.tagged[r.vids[1]], s.untagged[r.vids[1]])>>
    BY <1>5 DEF Writes
  <2>2. SetVlan(r.vids[1], s.tagged[r.vids[1]], s.untagged[r.vids[1]]) \in FaithfulTo(r, t)
    BY <1>1, RangeRowsFaithful
  <2>3. QED
    BY <2>1, <2>2
<1>6. QED
  BY <1>1, <1>2, <1>3, <1>4, <1>5

LEMMA WritesBlind ==
  ASSUME NEW r \in Requests, ~ReadsTable(r), NEW t
  PROVE  /\ Writes(r, t) \in Seq(Sound) /\ Writes(r, t) # <<>>
         /\ \A i \in 1..Len(Writes(r, t)) : Writes(r, t)[i].kind # "vlan"
<1>1. r.kind \in {"pvid", "no_vlan"} /\ r.vids[1] \in Vids /\ ToSet(r.ports) \subseteq Ports
  BY Named DEF ReadsTable
<1>2. CASE r.kind = "pvid"
  <2>1. Writes(r, t) = <<SetPvid(ToSet(r.ports), r.vids[1])>>
    BY <1>2 DEF Writes
  <2>2. SetPvid(ToSet(r.ports), r.vids[1]) \in Sound
    BY <1>1 DEF SetPvid, Sound, WriteType, Overlaps
  <2>3. SetPvid(ToSet(r.ports), r.vids[1]).kind = "pvid"
    BY DEF SetPvid
  <2>4. QED
    BY <2>1, <2>2, <2>3
<1>3. CASE r.kind = "no_vlan"
  <2>1. Writes(r, t) = <<DeleteVlan(r.vids[1])>>
    BY <1>3 DEF Writes
  <2>2. DeleteVlan(r.vids[1]) \in Sound
    BY <1>1 DEF DeleteVlan, Sound, WriteType, Overlaps
  <2>3. DeleteVlan(r.vids[1]).kind = "delete"
    BY DEF DeleteVlan
  <2>4. QED
    BY <2>1, <2>2, <2>3
<1>4. QED
  BY <1>1, <1>2, <1>3
-----------------------------------------------------------------------------
(* The inductive invariants                                                *)

\* A VLAN that does not exist has no members.
Backed(t) == \A v \in Vids \ t.vids : t.tagged[v] = {} /\ t.untagged[v] = {}

\* What CLI a still has to write: nothing but in "write", only what leaves the other
\* ports as it read them, and no VLAN's members at all if it read none.
Queue(a) ==
  /\ pc[a] = "write" <=> todo[a] # <<>>
  /\ pc[a] # "idle" => request[a] \in Requests
  /\ pc[a] \in {"read", "enable", "reread"} => ReadsTable(request[a])
  /\ pc[a] = "write" =>
       IF ReadsTable(request[a])
         THEN todo[a] \in Seq(FaithfulTo(request[a], seen[a]))
         ELSE \A i \in 1..Len(todo[a]) : todo[a][i].kind # "vlan"

\* A VLAN's members tg and un are what the command r is to leave for VLAN u.
Promised(r, u, tg, un) ==
  LET P == ToSet(r.ports)
  IN  /\ r.kind = "access" =>
           /\ Last(r.ports) \in un <=> u = r.vids[1]
           /\ u = r.vids[1] => Last(r.ports) \notin tg
      /\ r.kind = "trunk_add" /\ u \in ToSet(r.vids) => P \subseteq tg /\ P \cap un = {}
      /\ r.kind = "trunk_remove" /\ u \in ToSet(r.vids) => P \cap (tg \cup un) = {}

Lasting(r, q, u, k) ==
  \A j \in k..Len(q) : IsOn(q[j], u) => Promised(r, u, q[j].tagged, q[j].untagged)

\* The writes q leave VLAN u of table t as r promises: the last of them that is on
\* u does, or none is on u and the table is right as it stands.
Settles(r, q, t, u) ==
  \/ Promised(r, u, t.tagged[u], t.untagged[u]) /\ Lasting(r, q, u, 1)
  \/ \E k \in 1..Len(q) : IsOn(q[k], u) /\ Lasting(r, q, u, k)

\* The command of CLI a is on its way to what it promises, or has left it.
OnTheWay(a) ==
  enabled /\ ~lossy /\ Alone(a) /\ ReadsTable(request[a])
    /\ (pc[a] = "write" \/ (pc[a] = "idle" /\ outcome[a] = "ok")) =>
    /\ \A u \in Vids : Settles(request[a], todo[a], table, u)
    /\ request[a].kind = "access" =>
         IF pc[a] = "write"
           THEN todo[a][Len(todo[a])] = SetPvid(ToSet(request[a].ports), request[a].vids[1])
           ELSE \A p \in ToSet(request[a].ports) : pvid[p] = request[a].vids[1]

Unbridged(t) == \A p \in Ports, u, v \in Vids : p \in t.untagged[u] /\ p \in t.untagged[v] => u = v

Joins(r, p, v) == r.kind = "access" /\ p \in ToSet(r.ports) /\ v = r.vids[1]

\* Untagged members a write of r may give VLAN v: those of the reading, and the
\* interface that joins v.
Within(r, s, v, un) == \A p \in un : p \in s.untagged[v] \/ Joins(r, p, v)

\* The writes q neither add an untagged member to a VLAN it does not join, nor let it
\* join before it has left every other.
LeavesFirst(r, s, q, t) ==
  /\ Unbridged(s)
  /\ \A v \in Vids : Within(r, s, v, t.untagged[v])
  /\ \A i \in 1..Len(q) : q[i].kind = "vlan" => Within(r, s, q[i].vid, q[i].untagged)
  /\ \A p \in Ports, u, v \in Vids :
       Joins(r, p, v) /\ u # v =>
         /\ \A i \in 1..Len(q) : IsOn(q[i], u) => p \notin q[i].untagged
         /\ p \in t.untagged[u] =>
              \E k \in 1..Len(q) : IsOn(q[k], u) /\ \A j \in 1..k : ~IsOn(q[j], v)

Bridgeless(a) ==
  ~lossy /\ Alone(a) =>
    /\ Unbridged(table)
    /\ pc[a] = "write" /\ ReadsTable(request[a]) /\ enabled =>
         LeavesFirst(request[a], seen[a], todo[a], table)

\* No interface range is given an access VLAN at once.
SingleAccess == \A r \in Requests : r.kind = "access" => Len(r.ports) = 1
-----------------------------------------------------------------------------
(* Type correctness, and rows that never contradict themselves             *)

\* What a write does to the row of VLAN u.
LEMMA PerformedRow ==
  ASSUME enabled \in BOOLEAN, table \in Tables, NEW w \in Sound, Perform(w), NEW u \in Vids
  PROVE  /\ enabled' = enabled /\ table' \in Tables
         /\ enabled /\ IsOn(w, u) =>
              u \in table'.vids /\ table'.tagged[u] = w.tagged /\ table'.untagged[u] = w.untagged
         /\ ~(enabled /\ IsOn(w, u)) =>
              \/ /\ u \in table'.vids <=> u \in table.vids
                 /\ table'.tagged[u] = table.tagged[u] /\ table'.untagged[u] = table.untagged[u]
              \/ enabled /\ w.kind = "delete" /\ table'.tagged[u] = {} /\ table'.untagged[u] = {}
<1>1. /\ w.vid \in Vids /\ w.tagged \in SUBSET Ports /\ w.untagged \in SUBSET Ports
      /\ w.kind \in {"vlan", "pvid", "delete"}
  BY DEF Sound, WriteType
<1>2. enabled' = enabled
  BY DEF Perform
<1>3. CASE ~enabled \/ w.kind = "pvid" \/ (w.kind = "delete" /\ w.vid = 1)
  <2>1. table' = table
    BY <1>3 DEF Perform
  <2>2. QED
    BY <1>2, <1>3, <2>1 DEF IsOn
<1>4. CASE enabled /\ w.kind = "vlan"
  <2>1. table' = [table EXCEPT !.vids = @ \cup {w.vid}, !.tagged[w.vid] = w.tagged,
                               !.untagged[w.vid] = w.untagged]
    BY <1>4 DEF Perform
  <2>2. QED
    BY <1>1, <1>2, <1>4, <2>1 DEF IsOn, Tables
<1>5. CASE enabled /\ w.kind = "delete" /\ w.vid # 1
  <2>1. table' = [table EXCEPT !.vids = @ \ {w.vid}, !.tagged[w.vid] = {}, !.untagged[w.vid] = {}]
    BY <1>5 DEF Perform
  <2>2. QED
    BY <1>1, <1>2, <1>5, <2>1 DEF IsOn, Tables
<1>6. QED
  BY <1>1, <1>3, <1>4, <1>5

SwitchOK ==
  /\ enabled \in BOOLEAN /\ table \in Tables /\ pvid \in [Ports -> Vids]
  /\ Disjoint(table) /\ Backed(table)

LEMMA PerformOK ==
  ASSUME SwitchOK, NEW w \in Sound, Perform(w)
  PROVE  SwitchOK' /\ enabled' = enabled
<1>1. enabled \in BOOLEAN /\ table \in Tables /\ 1 \in Vids
  BY ConstantsAssumption DEF SwitchOK
<1>2. table' \in Tables /\ enabled' = enabled
  BY <1>1, PerformedRow
<1>3. pvid' \in [Ports -> Vids]
  BY DEF Perform, Sound, WriteType, SwitchOK
<1>4. w.tagged \cap w.untagged = {}
  BY DEF Sound, Overlaps
<1>5. ASSUME NEW u \in Vids
      PROVE  /\ table'.tagged[u] \cap table'.untagged[u] = {}
             /\ u \notin table'.vids => table'.tagged[u] = {} /\ table'.untagged[u] = {}
  <2>1. /\ table.tagged[u] \cap table.untagged[u] = {}
        /\ u \notin table.vids => table.tagged[u] = {} /\ table.untagged[u] = {}
    BY DEF SwitchOK, Disjoint, Backed
  <2>2. QED
    BY <1>1, <1>4, <2>1, PerformedRow
<1>6. QED
  BY <1>1, <1>2, <1>3, <1>5 DEF SwitchOK, Disjoint, Backed

Typed ==
  /\ pc \in [CLIs -> {"idle", "read", "enable", "reread", "write"}]
  /\ request \in [CLIs -> Requests \cup {NoRequest}]
  /\ seen \in [CLIs -> Tables]
  /\ todo \in [CLIs -> Seq(Sound)]
  /\ outcome \in [CLIs -> {"none", "ok", "error"}]
  /\ lossy \in BOOLEAN /\ issued \in 0..MaxCommands

Core == SwitchOK /\ Typed /\ \A a \in CLIs : Queue(a)

LEMMA ListedOK == SwitchOK => Listed \in Tables /\ Disjoint(Listed) /\ (enabled => Listed = table)
  BY DEF SwitchOK, Listed, EmptyTable, Tables, Disjoint

\* The head of a queue is a write the overlap check lets through.
LEMMA HeadAndTail ==
  ASSUME NEW X, NEW q \in Seq(X), q # <<>>
  PROVE  /\ Head(q) \in X /\ Head(q) = q[1] /\ Tail(q) \in Seq(X)
         /\ Len(q) \in Nat /\ 1 \in 1..Len(q) /\ Len(Tail(q)) = Len(q) - 1
         /\ \A i \in 1..Len(Tail(q)) : i + 1 \in 1..Len(q) /\ Tail(q)[i] = q[i + 1]
         /\ Tail(q) = <<>> <=> Len(q) = 1
<1>1. /\ Head(q) \in X /\ Head(q) = q[1] /\ Tail(q) \in Seq(X)
      /\ Len(q) \in Nat \ {0} /\ Len(Tail(q)) = Len(q) - 1
  OBVIOUS
<1>2. \A i \in 1..Len(Tail(q)) : Tail(q)[i] = q[i + 1]
  OBVIOUS
<1>3. \A x \in Seq(X) : x = <<>> <=> Len(x) = 0
  OBVIOUS
<1>4. \A i \in 1..Len(Tail(q)) : i + 1 \in 1..Len(q)
  BY <1>1
<1>5. 1 \in 1..Len(q)
  BY <1>1
<1>6. Tail(q) = <<>> <=> Len(q) = 1
  <2> DEFINE T == Tail(q)
  <2>1. T \in Seq(X) /\ Len(T) = Len(q) - 1 /\ Len(q) \in Nat
    BY <1>1
  <2> HIDE DEF T
  <2>2. T = <<>> <=> Len(T) = 0
    BY ONLY <1>3, <2>1
  <2>3. Len(T) = 0 <=> Len(q) = 1
    BY ONLY <2>1
  <2>4. QED
    BY <2>2, <2>3 DEF T
<1>7. QED
  BY <1>1, <1>2, <1>4, <1>5, <1>6

\* Core, but for the queue of the CLI that takes the step.
LEMMA AdvanceOK ==
  ASSUME Typed, NEW a \in CLIs, Queue(a), pc[a] = "write", Advance(a), lossy' \in BOOLEAN
  PROVE  Typed' /\ Queue(a)'
<1> DEFINE q == todo[a]
<1>1. q \in Seq(Sound) /\ q # <<>> /\ request[a] \in Requests
  BY DEF Typed, Queue
<1>2. Tail(q) \in Seq(Sound) /\ (Tail(q) = <<>> <=> Len(q) = 1)
  BY <1>1, HeadAndTail
<1>3. todo' \in [CLIs -> Seq(Sound)] /\ todo'[a] = Tail(q)
  BY <1>2 DEF Typed, Advance
<1>4. /\ pc' \in [CLIs -> {"idle", "read", "enable", "reread", "write"}]
      /\ outcome' \in [CLIs -> {"none", "ok", "error"}]
      /\ pc'[a] = IF Len(q) = 1 THEN "idle" ELSE "write"
  BY DEF Typed, Advance, LastWrite
<1>5. request' = request /\ seen' = seen /\ issued' = issued
  BY DEF Advance
<1>6. Typed'
  BY <1>3, <1>4, <1>5 DEF Typed
<1>7. ASSUME ReadsTable(request[a])
      PROVE  Tail(q) \in Seq(FaithfulTo(request[a], seen[a]))
  <2>1. q \in Seq(FaithfulTo(request[a], seen[a]))
    BY <1>7 DEF Queue
  <2> HIDE DEF q
  <2>2. QED
    BY <1>1, <2>1, HeadAndTail
<1>8. ASSUME ~ReadsTable(request[a])
      PROVE  \A i \in 1..Len(Tail(q)) : Tail(q)[i].kind # "vlan"
  <2>1. \A i \in 1..Len(q) : q[i].kind # "vlan"
    BY <1>8 DEF Queue
  <2> HIDE DEF q
  <2>2. QED
    BY <1>1, <2>1, HeadAndTail
<1> HIDE DEF q
<1>9. QED
  BY <1>1, <1>2, <1>3, <1>4, <1>5, <1>6, <1>7, <1>8 DEF Queue, ReadsTable

LEMMA Initially == Init => Core
<1> SUFFICES ASSUME Init PROVE Core
  OBVIOUS
<1>1. EmptyTable \in Tables /\ FactoryTable \in Tables
  <2>1. EmptyTable \in Tables /\ 1 \in Vids /\ {1} \in SUBSET Vids
    BY ConstantsAssumption DEF EmptyTable, Tables
  <2>2. [EmptyTable EXCEPT !.vids = {1}] \in Tables
    BY <2>1 DEF Tables
  <2>3. \A t \in Tables : [t EXCEPT !.untagged[1] = Ports] \in Tables
    BY <2>1 DEF Tables
  <2>4. FactoryTable = [[EmptyTable EXCEPT !.vids = {1}] EXCEPT !.untagged[1] = Ports]
    BY DEF FactoryTable
  <2>5. QED
    BY <2>1, <2>2, <2>3, <2>4
<1>2. SwitchOK
  BY <1>1, ConstantsAssumption DEF Init, SwitchOK, FactoryTable, EmptyTable, Disjoint, Backed
<1>3. Typed
  <2>1. <<>> \in Seq(Sound) /\ 0 \in 0..MaxCommands
    BY ConstantsAssumption
  <2>2. QED
    BY <1>1, <2>1 DEF Init, Typed
<1>4. QED
  BY <1>2, <1>3 DEF Init, Core, Queue

LEMMA CoreStep == Core /\ [Next]_vars => Core'
<1> SUFFICES ASSUME Core, [Next]_vars PROVE Core'
  OBVIOUS
<1>1. CASE UNCHANGED vars
  BY <1>1 DEF Core, SwitchOK, Typed, Queue, vars, switch, cli
<1>2. CASE Next
  <2>1. PICK a \in CLIs :
          \/ \E r \in Requests : Issue(a, r)
          \/ Read(a) \/ Enable(a) \/ Write(a) \/ WriteLost(a) \/ Fail(a)
    BY <1>2 DEF Next
  <2>2. SwitchOK /\ Typed /\ Queue(a)
    BY DEF Core
  <2>3. SUFFICES SwitchOK' /\ Typed' /\ Queue(a)'
    <3>1. SUFFICES ASSUME Typed', NEW b \in CLIs, b # a PROVE Queue(b)'
      BY DEF Core
    <3>2. /\ pc'[b] = pc[b] /\ todo'[b] = todo[b] /\ request'[b] = request[b] /\ seen'[b] = seen[b]
      BY <2>1, <2>2, <3>1 DEF Typed, Issue, Read, Enable, Write, WriteLost, Fail, Advance
    <3>3. Queue(b)
      BY DEF Core
    <3>4. QED
      BY <3>2, <3>3 DEF Queue
  <2>4. ASSUME NEW r \in Requests, Issue(a, r) PROVE SwitchOK' /\ Typed' /\ Queue(a)'
    <3>1. SwitchOK'
      BY <2>2, <2>4 DEF Issue, switch, SwitchOK, Disjoint, Backed
    <3>2. issued' \in 0..MaxCommands
      BY <2>2, <2>4, ConstantsAssumption DEF Issue, Typed
    <3>3. CASE ReadsTable(r)
      BY <2>2, <2>4, <3>1, <3>2, <3>3 DEF Issue, Typed, Queue
    <3>4. CASE ~ReadsTable(r)
      <4>1. /\ Writes(r, EmptyTable) \in Seq(Sound) /\ Writes(r, EmptyTable) # <<>>
            /\ \A i \in 1..Len(Writes(r, EmptyTable)) : Writes(r, EmptyTable)[i].kind # "vlan"
        BY <3>4, WritesBlind
      <4>2. QED
        BY <2>2, <2>4, <3>1, <3>2, <3>4, <4>1 DEF Issue, Typed, Queue
    <3>5. QED
      BY <3>3, <3>4
  <2>5. CASE Read(a)
    <3>1. SwitchOK'
      BY <2>2, <2>5 DEF Read, switch, SwitchOK, Disjoint, Backed
    <3>2. request[a] \in Requests /\ ReadsTable(request[a])
      BY <2>2, <2>5 DEF Read, Queue
    <3>3. CASE enabled \/ pc[a] = "reread"
      <4>1. Listed \in Tables /\ Disjoint(Listed)
        BY <2>2, ListedOK
      <4>2. /\ Writes(request[a], Listed) \in Seq(FaithfulTo(request[a], Listed))
            /\ Writes(request[a], Listed) # <<>>
        BY <3>2, <4>1, WritesFaithful
      <4>3. Writes(request[a], Listed) \in Seq(Sound)
        <5>1. \A x \in FaithfulTo(request[a], Listed) : x \in Sound
          BY DEF FaithfulTo
        <5>2. QED
          BY <4>2, <5>1
      <4>4. QED
        BY <2>2, <2>5, <3>1, <3>2, <3>3, <4>1, <4>2, <4>3 DEF Read, Typed, Queue
    <3>4. CASE ~(enabled \/ pc[a] = "reread")
      BY <2>2, <2>5, <3>1, <3>2, <3>4 DEF Read, Typed, Queue
    <3>5. QED
      BY <3>3, <3>4
  <2>6. CASE Enable(a)
    BY <2>2, <2>6 DEF Enable, SwitchOK, Typed, Queue, Disjoint, Backed
  <2>7. ASSUME pc[a] = "write", Advance(a), lossy' \in BOOLEAN PROVE Typed' /\ Queue(a)'
    BY <2>2, <2>7, AdvanceOK
  <2>8. ASSUME pc[a] = "write" PROVE Head(todo[a]) \in Sound
    BY <2>2, <2>8, HeadAndTail DEF Typed, Queue
  <2>9. CASE Write(a)
    <3>1. SwitchOK'
      BY <2>2, <2>8, <2>9, PerformOK DEF Write
    <3>2. QED
      BY <2>2, <2>7, <2>9, <3>1 DEF Write, Typed
  <2>10. CASE WriteLost(a)
    <3>1. SwitchOK'
      BY <2>2, <2>10 DEF WriteLost, switch, SwitchOK, Disjoint, Backed
    <3>2. QED
      BY <2>7, <2>10, <3>1 DEF WriteLost
  <2>11. CASE Fail(a)
    <3>1. Typed' /\ Queue(a)'
      BY <2>2, <2>11 DEF Fail, Typed, Queue
    <3>2. CASE UNCHANGED switch
      BY <2>2, <3>1, <3>2 DEF switch, SwitchOK, Disjoint, Backed
    <3>3. CASE enabled' = TRUE /\ UNCHANGED <<table, pvid>>
      BY <2>2, <3>1, <3>3 DEF SwitchOK, Disjoint, Backed
    <3>4. CASE pc[a] = "write" /\ Perform(Head(todo[a]))
      BY <2>2, <2>8, <3>1, <3>4, PerformOK
    <3>5. QED
      BY <2>11, <3>2, <3>3, <3>4 DEF Fail
  <2>12. QED
    BY <2>1, <2>4, <2>5, <2>6, <2>9, <2>10, <2>11
<1>3. QED
  BY <1>1, <1>2

\* Core holds in every reachable state.
THEOREM CoreInvariant == Spec => []Core
<1>1. QED
  BY Initially, CoreStep, PTL DEF Spec

\* Every variable keeps its type, and a CLI has writes pending exactly while it writes.
THEOREM TypeCorrect == Spec => []TypeOK
<1>1. Core => TypeOK
  <2> SUFFICES ASSUME Core PROVE TypeOK
    OBVIOUS
  <2>1. ASSUME NEW a \in CLIs
        PROVE  /\ request[a].kind \in Kinds /\ seen[a] \in Tables
               /\ \A i \in DOMAIN todo[a] : todo[a][i] \in WriteType
               /\ pc[a] = "write" <=> todo[a] # <<>>
    <3>1. \A r \in Requests : r.kind \in Kinds
      BY Named
    <3>2. request[a].kind \in Kinds
      BY <3>1 DEF Core, Typed, NoRequest, Kinds
    <3>3. todo[a] \in Seq(Sound)
      BY DEF Core, Typed
    <3>4. \A i \in DOMAIN todo[a] : todo[a][i] \in WriteType
      BY <3>3 DEF Sound
    <3>5. QED
      BY <3>2, <3>4 DEF Core, Typed, Queue
  <2>2. QED
    BY <2>1 DEF Core, SwitchOK, Typed, TypeOK
<1>2. QED
  BY <1>1, CoreInvariant, PTL

\* Whatever the interleaving of CLIs, failures and lost writes, no port becomes a tagged
\* and an untagged member of one VLAN, and no queued write fails the overlap check.
THEOREM MembersStayDisjoint == Spec => []MembersDisjoint
<1>1. Core => MembersDisjoint
  <2> SUFFICES ASSUME Core PROVE MembersDisjoint
    OBVIOUS
  <2>1. ASSUME NEW a \in CLIs, NEW i \in DOMAIN todo[a] PROVE ~Overlaps(todo[a][i])
    <3>1. todo[a] \in Seq(Sound)
      BY DEF Core, Typed
    <3>2. todo[a][i] \in Sound
      BY <3>1
    <3>3. QED
      BY <3>2 DEF Sound
  <2>2. QED
    BY <2>1 DEF Core, SwitchOK, Disjoint, MembersDisjoint
<1>2. QED
  BY <1>1, CoreInvariant, PTL
-----------------------------------------------------------------------------
(* A CLI that works alone                                                  *)

Step(a) ==
  \/ \E r \in Requests : Issue(a, r)
  \/ Read(a) \/ Enable(a) \/ Write(a) \/ WriteLost(a) \/ Fail(a)

LEMMA HeadSound ==
  ASSUME Core, NEW a \in CLIs, pc[a] = "write"
  PROVE  /\ todo[a] \in Seq(Sound) /\ todo[a] # <<>> /\ Head(todo[a]) \in Sound
         /\ ReadsTable(request[a]) => Head(todo[a]) \in FaithfulTo(request[a], seen[a])
         /\ ~ReadsTable(request[a]) => Head(todo[a]).kind # "vlan"
<1>1. todo[a] \in Seq(Sound) /\ todo[a] # <<>> /\ Queue(a)
  BY DEF Core, Typed, Queue
<1>2. Head(todo[a]) \in Sound /\ Head(todo[a]) = todo[a][1] /\ 1 \in 1..Len(todo[a])
  BY <1>1, HeadAndTail
<1>3. ReadsTable(request[a]) => todo[a] \in Seq(FaithfulTo(request[a], seen[a]))
  BY <1>1 DEF Queue
<1>4. ReadsTable(request[a]) => Head(todo[a]) \in FaithfulTo(request[a], seen[a])
  BY <1>1, <1>3, HeadAndTail
<1>5. ~ReadsTable(request[a]) => Head(todo[a]).kind # "vlan"
  BY <1>1, <1>2 DEF Queue
<1>6. QED
  BY <1>1, <1>2, <1>4, <1>5

\* A step after which CLI a has worked alone is a step of CLI a.
LEMMA AloneStep ==
  ASSUME Typed, NEW a \in CLIs, NEW b \in CLIs, Step(b), Alone(a)'
  PROVE  a = b /\ Alone(a)
<1>1. pc'[b] # "idle" \/ outcome'[b] # "none"
  BY DEF Typed, Step, Issue, Read, Enable, Write, WriteLost, Fail, Advance
<1>2. a = b
  BY <1>1 DEF Alone
<1>3. \A c \in CLIs \ {b} : pc'[c] = pc[c] /\ outcome'[c] = outcome[c]
  BY DEF Typed, Step, Issue, Read, Enable, Write, WriteLost, Fail, Advance
<1>4. QED
  BY <1>2, <1>3 DEF Alone

LEMMA StepIsOne == Next => \E b \in CLIs : Step(b)
  BY DEF Next, Step

\* A port that is not named is in the VLANs it was read in.
Keeps(a) ==
  pc[a] = "write" /\ enabled /\ Alone(a) /\ ReadsTable(request[a]) =>
    \A p \in Ports \ ToSet(request[a].ports), v \in Vids :
      /\ p \in table.tagged[v] => p \in seen[a].tagged[v]
      /\ p \in table.untagged[v] => p \in seen[a].untagged[v]
      /\ p \in seen[a].tagged[v] /\ p <= 8 => p \in table.tagged[v]
      /\ p \in seen[a].untagged[v] /\ p <= 8 => p \in table.untagged[v]

AllKeep == \A a \in CLIs : Keeps(a)

LEMMA KeepsStep == Core /\ AllKeep /\ [Next]_vars => AllKeep'
<1> SUFFICES ASSUME Core, \A a \in CLIs : Keeps(a), [Next]_vars, NEW a \in CLIs PROVE Keeps(a)'
  BY DEF AllKeep
<1>1. CASE UNCHANGED vars
  <2>1. Keeps(a)
    OBVIOUS
  <2>2. QED
    BY <1>1, <2>1 DEF Keeps, Alone, vars, switch, cli
<1>2. CASE Next
  <2> SUFFICES ASSUME pc'[a] = "write", enabled', Alone(a)', ReadsTable(request'[a]),
                      NEW p \in Ports, p \notin ToSet(request'[a].ports), NEW v \in Vids
               PROVE  /\ p \in table'.tagged[v] => p \in seen'[a].tagged[v]
                      /\ p \in table'.untagged[v] => p \in seen'[a].untagged[v]
                      /\ p \in seen'[a].tagged[v] /\ p <= 8 => p \in table'.tagged[v]
                      /\ p \in seen'[a].untagged[v] /\ p <= 8 => p \in table'.untagged[v]
    BY DEF Keeps
  <2>1. Step(a) /\ Alone(a) /\ Typed /\ SwitchOK
    BY <1>2, StepIsOne, AloneStep DEF Core
  <2>2. Keeps(a)
    OBVIOUS
  <2>3. CASE Read(a)
    <3>1. seen'[a] = Listed /\ table' = table /\ enabled
      BY <2>1, <2>3 DEF Read, Typed, switch
    <3>2. QED
      BY <2>1, <3>1, ListedOK
  <2>4. CASE Write(a)
    <3> DEFINE w == Head(todo[a])
    <3>1. Perform(w) /\ pc[a] = "write" /\ request' = request /\ seen' = seen
      BY <2>4 DEF Write, Advance
    <3>2. w \in Sound /\ w \in FaithfulTo(request[a], seen[a])
      BY <3>1, HeadSound
    <3> HIDE DEF w
    <3>3. enabled
      BY <3>1 DEF Perform
    <3>4. /\ p \in table.tagged[v] => p \in seen[a].tagged[v]
          /\ p \in table.untagged[v] => p \in seen[a].untagged[v]
          /\ p \in seen[a].tagged[v] /\ p <= 8 => p \in table.tagged[v]
          /\ p \in seen[a].untagged[v] /\ p <= 8 => p \in table.untagged[v]
      BY <2>1, <2>2, <3>1, <3>3 DEF Keeps
    <3>5. enabled \in BOOLEAN /\ table \in Tables
      BY <2>1 DEF SwitchOK
    <3>6. CASE IsOn(w, v)
      <4>1. table'.tagged[v] = w.tagged /\ table'.untagged[v] = w.untagged
        BY <3>1, <3>2, <3>3, <3>5, <3>6, PerformedRow
      <4>2. QED
        BY <3>1, <3>2, <3>6, <4>1 DEF FaithfulTo, IsOn
    <3>7. CASE ~IsOn(w, v)
      <4>1. w.kind # "delete"
        BY <3>2 DEF FaithfulTo
      <4>2. table'.tagged[v] = table.tagged[v] /\ table'.untagged[v] = table.untagged[v]
        BY <3>1, <3>2, <3>5, <3>7, <4>1, PerformedRow
      <4>3. QED
        BY <3>1, <3>4, <4>2
    <3>8. QED
      BY <3>6, <3>7
  <2>5. CASE WriteLost(a)
    BY <2>1, <2>2, <2>5 DEF WriteLost, Advance, Typed, Keeps, switch
  <2>6. pc'[a] = "write" => ~Enable(a) /\ ~Fail(a) /\ \A r \in Requests : ~Issue(a, r)
    BY <2>1 DEF Enable, Fail, Issue, Typed
  <2>7. QED
    BY <2>1, <2>3, <2>4, <2>5, <2>6 DEF Step
<1>3. QED
  BY <1>1, <1>2

\* A queue that is not empty is changed by its own CLI alone, which has its next write
\* performed or leaves the switch as it is.
LEMMA QueueChange ==
  ASSUME Core, Next, NEW a \in CLIs, todo'[a] # todo[a], todo[a] # <<>>
  PROVE  pc[a] = "write" /\ (switch' = switch \/ Perform(Head(todo[a])))
<1>1. pc[a] = "write" /\ Typed
  BY DEF Core, Queue
<1>2. PICK b \in CLIs : Step(b)
  BY StepIsOne
<1>3. b = a
  BY <1>1, <1>2 DEF Typed, Step, Issue, Read, Enable, Write, WriteLost, Fail, Advance
<1>4. Write(a) \/ WriteLost(a) \/ Fail(a)
  BY <1>1, <1>2, <1>3 DEF Step, Issue, Read, Enable
<1>5. QED
  BY <1>1, <1>4 DEF Write, WriteLost, Fail

\* A switchport command of a CLI that works alone leaves the interfaces it does not name
\* their VLANs and PVIDs, whatever fails or is lost, and whether or not what failed was
\* performed.
THEOREM OthersKept == Spec => OtherPortsKept
<1>1. Init => AllKeep
  BY DEF Init, Keeps, AllKeep
<1>2. ASSUME Core, AllKeep, [Next]_vars, vars' # vars, NEW a \in CLIs, todo'[a] # todo[a], todo[a] # <<>>,
             Alone(a), ReadsTable(request[a]),
             NEW p \in Ports \ ToSet(request[a].ports), NEW v \in Vids
      PROVE  /\ pvid'[p] = pvid[p]
             /\ p \in table'.tagged[v] => p \in table.tagged[v]
             /\ p \in table'.untagged[v] => p \in table.untagged[v]
             /\ p \in table.tagged[v] /\ p <= 8 => p \in table'.tagged[v]
             /\ p \in table.untagged[v] /\ p <= 8 => p \in table'.untagged[v]
  <2> DEFINE w == Head(todo[a])
  <2>1. pc[a] = "write" /\ (switch' = switch \/ Perform(w))
    BY <1>2, QueueChange
  <2>2. w \in Sound /\ w \in FaithfulTo(request[a], seen[a])
    BY <1>2, <2>1, HeadSound
  <2> HIDE DEF w
  <2>3. CASE switch' = switch \/ ~enabled
    <3>1. table' = table /\ pvid' = pvid
      BY <2>1, <2>3 DEF Perform, switch
    <3>2. QED
      BY <3>1
  <2>4. CASE Perform(w) /\ enabled
    <3>1. /\ p \in table.tagged[v] => p \in seen[a].tagged[v]
          /\ p \in table.untagged[v] => p \in seen[a].untagged[v]
          /\ p \in seen[a].tagged[v] /\ p <= 8 => p \in table.tagged[v]
          /\ p \in seen[a].untagged[v] /\ p <= 8 => p \in table.untagged[v]
      BY <1>2, <2>1, <2>4 DEF AllKeep, Keeps
    <3>2. enabled \in BOOLEAN /\ table \in Tables /\ pvid \in [Ports -> Vids]
      BY <1>2 DEF Core, SwitchOK
    <3>3. pvid'[p] = pvid[p]
      BY <1>2, <2>2, <2>4, <3>2 DEF Perform, FaithfulTo
    <3>4. CASE IsOn(w, v)
      <4>1. table'.tagged[v] = w.tagged /\ table'.untagged[v] = w.untagged
        BY <2>2, <2>4, <3>2, <3>4, PerformedRow
      <4>2. /\ p \in w.tagged <=> p \in seen[a].tagged[v] /\ p <= 8
            /\ p \in w.untagged <=> p \in seen[a].untagged[v] /\ p <= 8
        BY <1>2, <2>2, <3>4 DEF FaithfulTo, IsOn
      <4>3. QED
        BY <3>1, <3>3, <4>1, <4>2
    <3>5. CASE ~IsOn(w, v)
      <4>1. w.kind # "delete"
        BY <2>2 DEF FaithfulTo
      <4>2. table'.tagged[v] = table.tagged[v] /\ table'.untagged[v] = table.untagged[v]
        BY <2>2, <2>4, <3>2, <3>5, <4>1, PerformedRow
      <4>3. QED
        BY <3>3, <4>2
    <3>6. QED
      BY <3>4, <3>5
  <2>5. QED
    BY <2>1, <2>3, <2>4
<1>3. Core /\ AllKeep /\ [Next]_vars =>
        [\A a \in CLIs : todo'[a] # todo[a] /\ todo[a] # <<>> /\ Alone(a) /\ ReadsTable(request[a]) =>
           \A p \in Ports \ ToSet(request[a].ports), v \in Vids :
             /\ pvid'[p] = pvid[p]
             /\ p \in table'.tagged[v] => p \in table.tagged[v]
             /\ p \in table'.untagged[v] => p \in table.untagged[v]
             /\ p \in table.tagged[v] /\ p <= 8 => p \in table'.tagged[v]
             /\ p \in table.untagged[v] /\ p <= 8 => p \in table'.untagged[v]]_vars
  BY <1>2
<1>4. QED
  BY <1>1, <1>3, Initially, CoreStep, KeepsStep, PTL DEF Spec, OtherPortsKept
-----------------------------------------------------------------------------
(* What a completed command leaves behind                                  *)

LEMMA SettlesStep ==
  ASSUME SwitchOK, enabled, NEW r, NEW u \in Vids,
         NEW q \in Seq(Sound), q # <<>>, Perform(Head(q)), Head(q).kind # "delete",
         Settles(r, q, table, u)
  PROVE  Settles(r, Tail(q), table', u)
<1> DEFINE w == Head(q)
           T == Tail(q)
<1>1. /\ w \in Sound /\ w = q[1] /\ T \in Seq(Sound) /\ Len(q) \in Nat \ {0} /\ Len(T) = Len(q) - 1
      /\ \A i \in 1..Len(T) : i + 1 \in 1..Len(q) /\ T[i] = q[i + 1]
  BY HeadAndTail
<1>2. enabled \in BOOLEAN /\ table \in Tables
  BY DEF SwitchOK
<1>3. Perform(w) /\ w.kind # "delete"
  OBVIOUS
<1> HIDE DEF w, T
<1>4. IF IsOn(w, u) THEN table'.tagged[u] = w.tagged /\ table'.untagged[u] = w.untagged
                    ELSE table'.tagged[u] = table.tagged[u] /\ table'.untagged[u] = table.untagged[u]
  BY <1>1, <1>2, <1>3, PerformedRow
<1>5. ASSUME NEW k \in 1..Len(q), Lasting(r, q, u, k) PROVE Lasting(r, T, u, IF k = 1 THEN 1 ELSE k - 1)
  BY <1>1, <1>5 DEF Lasting
<1>6. CASE Lasting(r, q, u, 1) /\ (IsOn(w, u) \/ Promised(r, u, table.tagged[u], table.untagged[u]))
  <2>1. 1 \in 1..Len(q)
    BY <1>1
  <2>2. IsOn(w, u) => Promised(r, u, w.tagged, w.untagged)
    BY <1>1, <1>6, <2>1 DEF Lasting
  <2>3. Promised(r, u, table'.tagged[u], table'.untagged[u])
    BY <1>4, <1>6, <2>2
  <2>4. QED
    BY <1>5, <1>6, <2>1, <2>3 DEF Settles, T
<1>7. ASSUME NEW k \in 1..Len(q), k # 1, IsOn(q[k], u), Lasting(r, q, u, k)
      PROVE  Settles(r, T, table', u)
  <2>1. k - 1 \in 1..Len(T) /\ T[k - 1] = q[k]
    <3>1. k - 1 \in 1..Len(T) /\ (k - 1) + 1 = k
      BY <1>1, <1>7
    <3>2. QED
      BY <1>1, <3>1
  <2>2. Lasting(r, T, u, k - 1)
    BY <1>5, <1>7
  <2>3. QED
    BY <1>7, <2>1, <2>2 DEF Settles
<1>8. QED
  BY <1>1, <1>6, <1>7 DEF Settles, T

\* Where the parts of a concatenation are.
LEMMA Concat ==
  ASSUME NEW X, NEW a \in Seq(X), NEW b \in Seq(X)
  PROVE  /\ a \o b \in Seq(X) /\ Len(a \o b) = Len(a) + Len(b) /\ Len(a) \in Nat /\ Len(b) \in Nat
         /\ \A i \in 1..Len(a) : (a \o b)[i] = a[i]
         /\ \A i \in 1..Len(b) : (a \o b)[Len(a) + i] = b[i]
  OBVIOUS

LEMMA AppendOne ==
  ASSUME NEW X, NEW a \in Seq(X), NEW c \in X
  PROVE  /\ a \o <<c>> \in Seq(X) /\ Len(a \o <<c>>) = Len(a) + 1 /\ (a \o <<c>>)[Len(a) + 1] = c
         /\ \A i \in 1..Len(a) : (a \o <<c>>)[i] = a[i]
  OBVIOUS

LEMMA Parts ==
  ASSUME NEW X, NEW pre \in Seq(X), NEW A \in Seq(X), NEW c \in X,
         NEW m, m = pre \o A, NEW q, q = m \o <<c>>
  PROVE  /\ q \in Seq(X) /\ Len(pre) \in Nat /\ Len(A) \in Nat /\ Len(q) = Len(pre) + Len(A) + 1
         /\ \A i \in 1..Len(pre) : q[i] = pre[i]
         /\ \A i \in 1..Len(A) : q[Len(pre) + i] = A[i]
         /\ q[Len(q)] = c
<1>1. /\ m \in Seq(X) /\ Len(pre) \in Nat /\ Len(A) \in Nat /\ Len(m) = Len(pre) + Len(A)
      /\ \A i \in 1..Len(pre) : m[i] = pre[i]
      /\ \A i \in 1..Len(A) : m[Len(pre) + i] = A[i]
  BY Concat
<1>2. m \in Seq(X) /\ c \in X
  BY <1>1
<1>3. /\ m \o <<c>> \in Seq(X) /\ Len(m \o <<c>>) = Len(m) + 1 /\ (m \o <<c>>)[Len(m) + 1] = c
      /\ \A i \in 1..Len(m) : (m \o <<c>>)[i] = m[i]
  BY ONLY <1>2, AppendOne
<1>4. (\A i \in 1..Len(pre) : i \in 1..Len(m)) /\ (\A i \in 1..Len(A) : Len(pre) + i \in 1..Len(m))
  BY <1>1
<1>5. QED
  BY <1>1, <1>3, <1>4

LEMMA AccessSettles ==
  ASSUME NEW r \in Requests, r.kind = "access", NEW t \in Tables, Disjoint(t), Backed(t), NEW u \in Vids
  PROVE  /\ Settles(r, Writes(r, t), t, u)
         /\ Writes(r, t)[Len(Writes(r, t))] = SetPvid(ToSet(r.ports), r.vids[1])
<1> DEFINE s == BitsToPorts(t)
           v == r.vids[1]
           p == Last(r.ports)
           L == LeaveOthers(s, p, v)
           J == JoinAsAccess(s, p, v)
           A == AccessPort(s, p, v)
           c == SetPvid(ToSet(r.ports), v)
           q == Writes(r, t)
           X == FaithfulTo(r, t)
<1>1. PICK pre \in Seq(AccessRows(r, t, v)) : q = (pre \o A) \o <<c>>
  BY AccessWritesEnd
<1>2. v \in Vids /\ p \in ToSet(r.ports) /\ p \in Ports \cap 1..8
  BY Named
<1>3. /\ L \in Seq(X)
      /\ \A i \in 1..Len(L) : /\ L[i].kind = "vlan" /\ L[i].vid \in Others(s, p, v)
                              /\ L[i].untagged = s.untagged[L[i].vid] \ {p}
      /\ \A w \in Others(s, p, v) : \E i \in 1..Len(L) : L[i].vid = w
  <2>1. p \in ToSet(r.ports) /\ v \in Vids /\ s = BitsToPorts(t)
    BY <1>2
  <2> HIDE DEF p, v, s
  <2>2. QED
    BY <2>1, Leaving DEF L, X
<1>4. J \in X /\ J.kind = "vlan" /\ J.vid = v /\ p \notin J.tagged /\ p \in J.untagged
  <2>1. J \in X
    BY <1>2, RowsFaithful
  <2>2. QED
    BY <2>1 DEF JoinAsAccess, SetVlan
<1>5. c \in X /\ c.kind = "pvid"
  <2>1. c \in X
    BY <1>2, RangeRowsFaithful
  <2>2. QED
    BY <2>1 DEF SetPvid
<1>6. \A w \in Others(s, p, v) : w # v
  BY DEF Others
<1>7. /\ \A w \in Vids : p \in s.untagged[w] <=> p \in t.untagged[w]
      /\ \A w \in Vids : p \in t.untagged[w] => w \in s.vids
  <2>1. s.vids = t.vids /\ \A w \in Vids : s.untagged[w] = t.untagged[w] \cap 1..8
    BY BitsRows
  <2>2. \A w \in Vids : w \notin t.vids => t.untagged[w] = {}
    BY DEF Backed
  <2> HIDE DEF s, p
  <2>3. QED
    BY <1>2, <2>1, <2>2
<1>8. pre \in Seq(X) /\ \A i \in 1..Len(pre) : pre[i].kind = "vlan" /\ \A x \in pre[i].untagged :
        x \in t.untagged[pre[i].vid] \/ pre[i].vid = v
  <2> DEFINE R == AccessRows(r, t, v)
  <2>1. \A x \in R : x \in X /\ x.kind = "vlan" /\ \A y \in x.untagged : y \in t.untagged[x.vid] \/ x.vid = v
    BY DEF AccessRows
  <2>2. pre \in Seq(R)
    OBVIOUS
  <2> HIDE DEF R, X, v
  <2>3. \A i \in 1..Len(pre) : pre[i] \in R
    BY <2>2
  <2>4. pre \in Seq(X)
    BY <2>1, <2>2
  <2>5. QED
    BY <2>1, <2>3, <2>4
<1>9. A = Append(L, J)
  BY DEF AccessPort
<1>10. \A tg, un : Promised(r, u, tg, un) <=> (p \in un <=> u = v) /\ (u = v => p \notin tg)
  BY DEF Promised
<1> HIDE DEF s, v, p, L, J, A, c, q, X
<1>11. /\ A \in Seq(X) /\ Len(A) = Len(L) + 1 /\ Len(L) \in Nat /\ A[Len(A)] = J
       /\ \A i \in 1..Len(L) : A[i] = L[i]
  BY <1>3, <1>4, <1>9
<1>12. /\ q \in Seq(X) /\ Len(pre) \in Nat /\ Len(A) \in Nat /\ Len(q) = Len(pre) + Len(A) + 1
       /\ \A i \in 1..Len(pre) : q[i] = pre[i]
       /\ \A i \in 1..Len(A) : q[Len(pre) + i] = A[i]
       /\ q[Len(q)] = c
  <2>1. pre \in Seq(X) /\ A \in Seq(X) /\ c \in X /\ q = (pre \o A) \o <<c>>
    BY <1>1, <1>5, <1>8, <1>11
  <2>2. QED
    BY ONLY <2>1, Parts
<1> DEFINE n == Len(pre)
           m == Len(L)
<1>13. /\ n \in Nat /\ m \in Nat /\ Len(q) = n + m + 2
       /\ \A i \in 1..m : q[n + i] = L[i]
       /\ q[n + m + 1] = J /\ q[n + m + 2] = c
  <2>1. Len(A) \in 1..Len(A) /\ n + Len(A) = n + m + 1 /\ Len(q) = n + m + 2
    BY <1>11, <1>12
  <2>2. \A i \in 1..m : i \in 1..Len(A)
    BY <1>11
  <2>3. QED
    BY <1>11, <1>12, <2>1, <2>2
<1> HIDE DEF n, m
<1>14. ASSUME NEW j \in 1..Len(q)
       PROVE  j \in 1..n \/ (j - n \in 1..m /\ q[j] = L[j - n]) \/ j = n + m + 1 \/ j = n + m + 2
  <2>1. j \in 1..n \/ j - n \in 1..m \/ j = n + m + 1 \/ j = n + m + 2
    BY <1>13
  <2>2. ASSUME j - n \in 1..m PROVE q[j] = L[j - n]
    <3>1. n + (j - n) = j
      BY <1>13
    <3>2. q[n + (j - n)] = L[j - n]
      BY <1>13, <2>2
    <3>3. QED
      BY <3>1, <3>2
  <2>3. QED
    BY <2>1, <2>2
<1>15. CASE u = v
  <2>1. n + m + 1 \in 1..Len(q) /\ IsOn(q[n + m + 1], u)
    BY <1>4, <1>13, <1>15 DEF IsOn
  <2>2. ASSUME NEW j \in (n + m + 1)..Len(q), IsOn(q[j], u)
        PROVE  Promised(r, u, q[j].tagged, q[j].untagged)
    <3>1. j = n + m + 1 \/ j = n + m + 2
      BY <1>13
    <3>2. q[j] = J
      BY <1>5, <1>13, <2>2, <3>1 DEF IsOn
    <3>3. QED
      BY <1>4, <1>10, <1>15, <3>2
  <2>3. Settles(r, q, t, u)
    BY <2>1, <2>2 DEF Settles, Lasting
  <2>4. QED
    BY <1>12, <2>3 DEF q, c, v
<1>16. CASE u # v
  <2>1. ASSUME NEW j \in 1..Len(q), IsOn(q[j], u), j > n \/ p \notin t.untagged[u]
        PROVE  Promised(r, u, q[j].tagged, q[j].untagged)
    <3>1. CASE j \in 1..n
      <4>1. q[j] = pre[j] /\ j <= n
        BY <1>12, <3>1 DEF n
      <4>2. p \notin t.untagged[u]
        BY <1>13, <2>1, <4>1
      <4>3. p \notin q[j].untagged
        BY <1>8, <1>16, <2>1, <3>1, <4>1, <4>2 DEF IsOn, n
      <4>4. QED
        BY <1>10, <1>16, <4>3
    <3>2. CASE j - n \in 1..m /\ q[j] = L[j - n]
      <4>1. p \notin q[j].untagged
        BY <1>3, <3>2 DEF m
      <4>2. QED
        BY <1>10, <1>16, <4>1
    <3>3. CASE j = n + m + 1 \/ j = n + m + 2
      BY <1>4, <1>5, <1>13, <1>16, <2>1, <3>3 DEF IsOn
    <3>4. QED
      BY <1>14, <3>1, <3>2, <3>3
  <2>2. CASE p \notin t.untagged[u]
    <3>1. Promised(r, u, t.tagged[u], t.untagged[u])
      BY <1>10, <1>16, <2>2
    <3>2. Lasting(r, q, u, 1)
      BY <2>1, <2>2 DEF Lasting
    <3>3. Settles(r, q, t, u)
      BY <3>1, <3>2 DEF Settles
    <3>4. QED
      BY <1>12, <3>3 DEF q, c, v
  <2>3. CASE p \in t.untagged[u]
    <3>1. u \in Others(s, p, v)
      BY <1>7, <1>16, <2>3 DEF Others
    <3>2. PICK i \in 1..m : L[i].vid = u
      BY <1>3, <3>1 DEF m
    <3>3. n + i \in 1..Len(q) /\ q[n + i] = L[i] /\ n + i > n
      BY <1>13
    <3>4. IsOn(q[n + i], u)
      BY <1>3, <3>2, <3>3 DEF IsOn, m
    <3>5. \A j \in (n + i)..Len(q) : j \in 1..Len(q) /\ j > n
      BY <1>13
    <3>6. Lasting(r, q, u, n + i)
      BY <2>1, <3>5 DEF Lasting
    <3>7. Settles(r, q, t, u)
      BY <3>3, <3>4, <3>6 DEF Settles
    <3>8. QED
      BY <1>12, <3>7 DEF q, c, v
  <2>4. QED
    BY <2>2, <2>3
<1>17. QED
  BY <1>15, <1>16 DEF q, c, v
\* What a command reads and derives from the reading is on the way to what it promises.
LEMMA ReadSettles ==
  ASSUME NEW r \in Requests, ReadsTable(r), NEW t \in Tables, Disjoint(t), Backed(t), NEW u \in Vids
  PROVE  Settles(r, Writes(r, t), t, u)
<1> DEFINE s == BitsToPorts(t)
           P == ToSet(r.ports)
<1>1. CASE r.kind = "access"
  BY <1>1, AccessSettles
<1>2. r.kind \in {"access", "trunk_add", "trunk_remove", "name"} /\ r.vids \in Seq(Vids)
  BY Named DEF ReadsTable, Kinds
<1>3. ASSUME r.kind \in {"trunk_add", "trunk_remove"}
      PROVE  Settles(r, Writes(r, t), t, u)
  <2> DEFINE q == Writes(r, t)
             n == Len(r.vids)
  <2>1. /\ DOMAIN r.vids = 1..n /\ n \in Nat
        /\ q = [i \in 1..n |-> IF r.kind = "trunk_add" THEN TrunkAdd(s, P, r.vids[i])
                                                     ELSE TrunkRemove(s, P, r.vids[i])]
    <3>1. DOMAIN r.vids = 1..n /\ n \in Nat
      BY <1>2
    <3>2. CASE r.kind = "trunk_add"
      BY <3>1, <3>2 DEF Writes
    <3>3. CASE r.kind = "trunk_remove"
      BY <3>1, <3>3 DEF Writes
    <3>4. QED
      BY <1>3, <3>1, <3>2, <3>3
  <2> HIDE DEF q
  <2>2. Len(q) = n /\ \A i \in 1..n : q[i] = IF r.kind = "trunk_add" THEN TrunkAdd(s, P, r.vids[i])
                                                                    ELSE TrunkRemove(s, P, r.vids[i])
    BY <2>1
  <2>3. ASSUME NEW i \in 1..n
        PROVE  IsOn(q[i], r.vids[i]) /\ Promised(r, r.vids[i], q[i].tagged, q[i].untagged)
    <3>1. CASE r.kind = "trunk_add"
      <4>1. q[i] = TrunkAdd(s, P, r.vids[i])
        BY <2>2, <3>1
      <4>2. /\ q[i].kind = "vlan" /\ q[i].vid = r.vids[i]
            /\ P \subseteq q[i].tagged /\ P \cap q[i].untagged = {}
        BY <4>1 DEF TrunkAdd, SetVlan
      <4>3. QED
        BY <3>1, <4>2 DEF IsOn, Promised
    <3>2. CASE r.kind = "trunk_remove"
      <4>1. q[i] = TrunkRemove(s, P, r.vids[i])
        BY <2>2, <3>2
      <4>2. /\ q[i].kind = "vlan" /\ q[i].vid = r.vids[i]
            /\ P \cap (q[i].tagged \cup q[i].untagged) = {}
        BY <4>1 DEF TrunkRemove, SetVlan
      <4>3. QED
        BY <3>2, <4>2 DEF IsOn, Promised
    <3>3. QED
      BY <1>3, <3>1, <3>2
  <2>4. \A i \in 1..n : IsOn(q[i], u) => u = r.vids[i]
    BY <2>3 DEF IsOn
  <2>5. \A k \in 1..n : Lasting(r, q, u, k)
    <3>1. ASSUME NEW k \in 1..n, NEW j \in k..Len(q), IsOn(q[j], u)
          PROVE  Promised(r, u, q[j].tagged, q[j].untagged)
      <4>1. j \in 1..n
        BY <2>1, <2>2
      <4>2. QED
        BY <2>3, <2>4, <3>1, <4>1
    <3>2. QED
      BY <3>1 DEF Lasting
  <2>6. CASE u \in ToSet(r.vids)
    <3>1. PICK k \in 1..n : r.vids[k] = u
      BY <2>1, <2>6 DEF ToSet
    <3>2. QED
      BY <2>2, <2>3, <2>5, <3>1 DEF Settles, q
  <2>7. CASE u \notin ToSet(r.vids)
    <3>1. \A i \in 1..n : ~IsOn(q[i], u)
      BY <2>1, <2>4, <2>7 DEF ToSet
    <3>2. Promised(r, u, t.tagged[u], t.untagged[u])
      BY <1>3, <2>7 DEF Promised
    <3>3. QED
      BY <2>2, <3>1, <3>2 DEF Settles, Lasting, q
  <2>8. QED
    BY <2>6, <2>7
<1>4. CASE r.kind = "name"
  <2>1. \A tg, un : Promised(r, u, tg, un)
    BY <1>4 DEF Promised
  <2>2. QED
    BY <2>1 DEF Settles, Lasting
<1>5. QED
  BY <1>1, <1>2, <1>3, <1>4

AllOnTheWay == \A a \in CLIs : OnTheWay(a)

LEMMA WayStep == Core /\ AllOnTheWay /\ [Next]_vars => AllOnTheWay'
<1> SUFFICES ASSUME Core, \A a \in CLIs : OnTheWay(a), [Next]_vars, NEW a \in CLIs PROVE OnTheWay(a)'
  BY DEF AllOnTheWay
<1>1. CASE UNCHANGED vars
  <2>1. OnTheWay(a)
    OBVIOUS
  <2>2. QED
    BY <1>1, <2>1 DEF OnTheWay, Alone, vars, switch, cli
<1>2. CASE Next
  <2> DEFINE r == request[a]
             last == SetPvid(ToSet(r.ports), r.vids[1])
  <2> SUFFICES ASSUME enabled', ~lossy', Alone(a)', ReadsTable(request'[a]),
                      pc'[a] = "write" \/ (pc'[a] = "idle" /\ outcome'[a] = "ok")
               PROVE  /\ \A u \in Vids : Settles(request'[a], todo'[a], table', u)
                      /\ request'[a].kind = "access" =>
                           IF pc'[a] = "write"
                             THEN todo'[a][Len(todo'[a])] = SetPvid(ToSet(request'[a].ports), request'[a].vids[1])
                             ELSE \A p \in ToSet(request'[a].ports) : pvid'[p] = request'[a].vids[1]
    BY DEF OnTheWay
  <2>1. Step(a) /\ Alone(a) /\ Typed /\ SwitchOK /\ Queue(a)
    BY <1>2, StepIsOne, AloneStep DEF Core
  <2>2. OnTheWay(a)
    OBVIOUS
  <2>3. CASE Read(a)
    <3>1. request' = request /\ table' = table /\ enabled /\ todo'[a] = Writes(r, table) /\ pc'[a] = "write"
      BY <2>1, <2>3, ListedOK DEF Read, Typed, switch
    <3>2. r \in Requests /\ ReadsTable(r)
      BY <2>1, <2>3 DEF Read, Queue
    <3>3. table \in Tables /\ Disjoint(table) /\ Backed(table)
      BY <2>1 DEF SwitchOK
    <3> HIDE DEF r
    <3>4. \A u \in Vids : Settles(r, Writes(r, table), table, u)
      BY <3>2, <3>3, ReadSettles
    <3>5. r.kind = "access" => Writes(r, table)[Len(Writes(r, table))] = last
      BY <3>2, <3>3, ConstantsAssumption, AccessSettles
    <3>6. QED
      BY <3>1, <3>4, <3>5 DEF r
  <2>4. CASE Write(a)
    <3> DEFINE q == todo[a]
    <3>1. /\ Perform(Head(q)) /\ pc[a] = "write" /\ request' = request /\ lossy' = lossy
          /\ todo'[a] = Tail(q)
          /\ pc'[a] = IF Len(q) = 1 THEN "idle" ELSE "write"
      BY <2>1, <2>4 DEF Write, Advance, LastWrite, Typed
    <3>2. /\ q \in Seq(Sound) /\ q # <<>> /\ Head(q) \in Sound /\ Head(q) \in FaithfulTo(r, seen[a])
      BY <3>1, HeadSound
    <3>3. enabled /\ ~lossy /\ ReadsTable(r)
      BY <3>1 DEF Perform
    <3>4. /\ \A u \in Vids : Settles(r, q, table, u)
          /\ r.kind = "access" => q[Len(q)] = last
      BY <2>1, <2>2, <3>1, <3>3 DEF OnTheWay
    <3>5. Head(q).kind # "delete"
      BY <3>2 DEF FaithfulTo
    <3> HIDE DEF q, r
    <3>6. \A u \in Vids : Settles(r, Tail(q), table', u)
      BY <2>1, <3>1, <3>2, <3>3, <3>4, <3>5, SettlesStep
    <3>7. Len(q) \in Nat \ {0} /\ Head(q) = q[1] /\ Len(Tail(q)) = Len(q) - 1
          /\ \A i \in 1..Len(Tail(q)) : Tail(q)[i] = q[i + 1]
      BY <3>2, HeadAndTail
    <3>8. CASE Len(q) = 1
      <4>1. r.kind = "access" => Head(q) = last
        BY <3>4, <3>7, <3>8
      <4>2. r.kind = "access" => \A p \in ToSet(r.ports) : pvid'[p] = r.vids[1]
        <5>1. ASSUME r.kind = "access", NEW p \in ToSet(r.ports) PROVE pvid'[p] = r.vids[1]
          <6>1. last.kind = "pvid" /\ last.untagged = ToSet(r.ports) /\ last.vid = r.vids[1]
            BY DEF SetPvid
          <6>2. p \in Ports
            <7>1. r \in Requests
              BY <2>1, <3>1 DEF Queue, r
            <7>2. QED
              BY <5>1, <7>1, Named
          <6> HIDE DEF last
          <6>3. QED
            BY <3>1, <3>3, <4>1, <5>1, <6>1, <6>2 DEF Perform
        <5>2. QED
          BY <5>1
      <4>3. QED
        BY <3>1, <3>6, <3>8, <4>2 DEF r
    <3>9. CASE Len(q) # 1
      <4>1. Len(Tail(q)) \in 1..Len(Tail(q)) /\ Len(Tail(q)) + 1 = Len(q)
        BY <3>7, <3>9
      <4>2. r.kind = "access" => Tail(q)[Len(Tail(q))] = last
        BY <3>4, <3>7, <4>1
      <4>3. QED
        BY <3>1, <3>6, <3>9, <4>2 DEF r
    <3>10. QED
      BY <3>8, <3>9
  <2>5. ~WriteLost(a) /\ ~Enable(a) /\ ~Fail(a) /\ \A c \in Requests : ~Issue(a, c)
    BY <2>1 DEF WriteLost, Enable, Fail, Issue, Typed
  <2>6. QED
    BY <2>1, <2>3, <2>4, <2>5 DEF Step
<1>3. QED
  BY <1>1, <1>2

LEMMA WayEnds == Core /\ AllOnTheWay => SwitchportDone
<1> SUFFICES ASSUME Core, AllOnTheWay, NEW a \in CLIs,
                    NEW k \in {"access", "trunk_add", "trunk_remove"}, Completed(a, k)
             PROVE  /\ k = "access" => InAccessVlan(Last(request[a].ports), request[a].vids[1])
                    /\ \A p \in ToSet(request[a].ports), v \in ToSet(request[a].vids) :
                         /\ k = "trunk_add" => p \in table.tagged[v] /\ p \notin table.untagged[v]
                         /\ k = "trunk_remove" => p \notin table.tagged[v] \cup table.untagged[v]
  BY DEF SwitchportDone
<1> DEFINE r == request[a]
<1>1. pc[a] = "idle" /\ outcome[a] = "ok" /\ r.kind = k /\ enabled /\ ~lossy /\ Alone(a)
  BY DEF Completed
<1>2. r \in Requests
  BY <1>1 DEF Core, Typed, NoRequest
<1>3. ReadsTable(r)
  BY <1>1 DEF ReadsTable
<1>4. todo[a] = <<>>
  BY <1>1 DEF Core, Queue
<1>5. OnTheWay(a)
  BY DEF AllOnTheWay
<1>6. /\ \A u \in Vids : Settles(r, todo[a], table, u)
      /\ r.kind = "access" => \A p \in ToSet(r.ports) : pvid[p] = r.vids[1]
  BY <1>1, <1>3, <1>5 DEF OnTheWay
<1> HIDE DEF r
<1>7. \A u \in Vids : Promised(r, u, table.tagged[u], table.untagged[u])
  BY <1>4, <1>6 DEF Settles
<1>8. r.vids[1] \in Vids /\ ToSet(r.vids) \subseteq Vids
      /\ (r.kind \notin {"no_vlan", "name"} => Last(r.ports) \in ToSet(r.ports))
  BY <1>2, Named
<1>9. k = "access" => InAccessVlan(Last(r.ports), r.vids[1])
  BY <1>1, <1>6, <1>7, <1>8 DEF InAccessVlan, Promised
<1>10. ASSUME NEW p \in ToSet(r.ports), NEW v \in ToSet(r.vids)
       PROVE  /\ k = "trunk_add" => p \in table.tagged[v] /\ p \notin table.untagged[v]
              /\ k = "trunk_remove" => p \notin table.tagged[v] \cup table.untagged[v]
  BY <1>1, <1>7, <1>8 DEF Promised
<1>11. QED
  BY <1>9, <1>10 DEF r

\* A switchport command of a CLI that works alone leaves what it promised, if no write
\* of it was lost: although all its writes come from one reading.
THEOREM SwitchportLeaves == Spec => []SwitchportDone
<1>1. Init => AllOnTheWay
  BY DEF Init, OnTheWay, AllOnTheWay
<1>2. QED
  BY <1>1, Initially, CoreStep, WayStep, WayEnds, PTL DEF Spec
-----------------------------------------------------------------------------
(* No port in two VLANs                                                    *)

LEMMA ListOfLength ==
  ASSUME NEW S, NEW n \in Nat, NEW f \in [1..n -> S]
  PROVE  f \in Seq(S) /\ Len(f) = n
  OBVIOUS

LEMMA FlattenOne ==
  ASSUME NEW X, NEW ss \in Seq(Seq(X)), Len(ss) = 1
  PROVE  FlattenSeq(ss) = ss[1]
<1> DEFINE f == CHOOSE f : Flattening(f, ss)
<1>1. Flattening(f, ss)
  BY FlatteningExists
<1>2. f[1] = ss[1]
  BY <1>1 DEF Flattening
<1>3. FlattenSeq(ss) = f[1]
  BY DEF FlattenSeq, Flattening
<1> HIDE DEF f
<1>4. QED
  BY <1>2, <1>3

LEMMA LeavesFirstStep ==
  ASSUME SwitchOK, enabled, NEW r, NEW s, NEW q \in Seq(Sound), q # <<>>,
         Perform(Head(q)), Head(q).kind # "delete", Unbridged(table), LeavesFirst(r, s, q, table)
  PROVE  Unbridged(table') /\ LeavesFirst(r, s, Tail(q), table')
<1> DEFINE w == Head(q)
           T == Tail(q)
<1>1. /\ w \in Sound /\ w = q[1] /\ T \in Seq(Sound) /\ Len(q) \in Nat \ {0} /\ Len(T) = Len(q) - 1
      /\ \A i \in 1..Len(T) : i + 1 \in 1..Len(q) /\ T[i] = q[i + 1]
  BY HeadAndTail
<1>2. enabled \in BOOLEAN /\ table \in Tables
  BY DEF SwitchOK
<1>3. Perform(w) /\ w.kind # "delete"
  OBVIOUS
<1> HIDE DEF w, T
<1>4. \A u \in Vids : IF IsOn(w, u) THEN table'.untagged[u] = w.untagged
                                    ELSE table'.untagged[u] = table.untagged[u]
  BY <1>1, <1>2, <1>3, PerformedRow
<1>5. 1 \in 1..Len(q)
  BY <1>1
<1>6. ASSUME NEW v \in Vids PROVE Within(r, s, v, table'.untagged[v])
  <2>1. IsOn(w, v) => Within(r, s, v, w.untagged)
    BY <1>1, <1>5 DEF LeavesFirst, IsOn
  <2>2. Within(r, s, v, table.untagged[v])
    BY DEF LeavesFirst
  <2>3. QED
    BY <1>4, <2>1, <2>2
<1>7. ASSUME NEW p \in Ports, NEW u \in Vids, NEW v \in Vids, Joins(r, p, v), u # v,
             p \in table'.untagged[u]
      PROVE  /\ p \in table.untagged[u] /\ ~IsOn(w, u) /\ ~IsOn(w, v)
             /\ \E k \in 1..Len(T) : IsOn(T[k], u) /\ \A j \in 1..k : ~IsOn(T[j], v)
  <2>1. IsOn(w, u) => p \notin w.untagged
    BY <1>1, <1>5, <1>7 DEF LeavesFirst
  <2>2. p \in table.untagged[u] /\ ~IsOn(w, u)
    BY <1>4, <1>7, <2>1
  <2>3. PICK k \in 1..Len(q) : IsOn(q[k], u) /\ \A j \in 1..k : ~IsOn(q[j], v)
    BY <1>7, <2>2 DEF LeavesFirst
  <2>4. k # 1 /\ 1 \in 1..k
    BY <1>1, <2>2, <2>3
  <2>5. k - 1 \in 1..Len(T) /\ (k - 1) + 1 = k /\ \A j \in 1..(k - 1) : j + 1 \in 1..k /\ j \in 1..Len(T)
    BY <1>1, <2>4
  <2>6. IsOn(T[k - 1], u) /\ \A j \in 1..(k - 1) : ~IsOn(T[j], v)
    BY <1>1, <2>3, <2>5
  <2>7. ~IsOn(w, v)
    BY <1>1, <2>3, <2>4
  <2>8. QED
    BY <2>2, <2>5, <2>6, <2>7
<1>8. ASSUME NEW p \in Ports, NEW u \in Vids, NEW v \in Vids, u # v, Joins(r, p, v)
      PROVE  ~(p \in table'.untagged[u] /\ p \in table'.untagged[v])
  BY <1>4, <1>7, <1>8 DEF Unbridged
<1>9. Unbridged(table')
  <2>1. SUFFICES ASSUME NEW p \in Ports, NEW u \in Vids, NEW v \in Vids, u # v,
                        p \in table'.untagged[u], p \in table'.untagged[v]
                 PROVE  FALSE
    BY DEF Unbridged
  <2>2. /\ p \in s.untagged[u] \/ Joins(r, p, u)
        /\ p \in s.untagged[v] \/ Joins(r, p, v)
    BY <1>6, <2>1 DEF Within
  <2>3. ~Joins(r, p, u) /\ ~Joins(r, p, v)
    BY <1>8, <2>1
  <2>4. QED
    BY <2>1, <2>2, <2>3 DEF LeavesFirst, Unbridged
<1>10. /\ \A i \in 1..Len(T) : T[i].kind = "vlan" => Within(r, s, T[i].vid, T[i].untagged)
       /\ \A p \in Ports, u, v \in Vids : Joins(r, p, v) /\ u # v =>
            \A i \in 1..Len(T) : IsOn(T[i], u) => p \notin T[i].untagged
  BY <1>1, SMTT(40) DEF LeavesFirst
<1>11. LeavesFirst(r, s, T, table')
  <2>1. Unbridged(s)
    BY DEF LeavesFirst
  <2>2. QED
    BY <1>6, <1>7, <1>10, <2>1 DEF LeavesFirst
<1>12. QED
  BY <1>9, <1>11 DEF T

\* "access vlan" for one interface: it leaves every other VLAN, then joins.
LEMMA AccessLeavesFirst ==
  ASSUME NEW r \in Requests, r.kind = "access", Len(r.ports) = 1,
         NEW t \in Tables, Disjoint(t), Backed(t), Unbridged(t)
  PROVE  LeavesFirst(r, t, Writes(r, t), t)
<1> DEFINE s == BitsToPorts(t)
           v == r.vids[1]
           x == r.ports[1]
           L == LeaveOthers(s, x, v)
           J == JoinAsAccess(s, x, v)
           A == AccessPort(s, x, v)
           c == SetPvid(ToSet(r.ports), v)
           q == Writes(r, t)
           X == FaithfulTo(r, t)
           ss == [i \in DOMAIN r.ports |-> AccessPort(s, r.ports[i], v)]
<1>1. v \in Vids /\ ToSet(r.ports) = {x} /\ x \in Ports \cap 1..8 /\ DOMAIN r.ports = 1..1
  <2>1. r.ports \in Seq(Ports) /\ v \in Vids /\ ToSet(r.ports) \subseteq Ports \cap 1..8
    BY Named
  <2>2. DOMAIN r.ports = 1..1
    BY <2>1
  <2>3. ToSet(r.ports) = {x}
    BY <2>2 DEF ToSet
  <2>4. QED
    BY <2>1, <2>2, <2>3
<1>2. /\ L \in Seq(X)
      /\ \A i \in 1..Len(L) : /\ L[i].kind = "vlan" /\ L[i].vid \in Others(s, x, v)
                              /\ L[i].untagged = s.untagged[L[i].vid] \ {x}
      /\ \A w \in Others(s, x, v) : \E i \in 1..Len(L) : L[i].vid = w
  <2>1. x \in ToSet(r.ports) /\ v \in Vids /\ s = BitsToPorts(t)
    BY <1>1
  <2> HIDE DEF x, v, s
  <2>2. QED
    BY <2>1, Leaving DEF L, X
<1>3. J \in X /\ J.kind = "vlan" /\ J.vid = v /\ J.untagged = s.untagged[v] \cup {x}
  <2>1. J \in X
    BY <1>1, RowsFaithful
  <2>2. QED
    BY <2>1 DEF JoinAsAccess, SetVlan
<1>4. c \in X /\ c.kind = "pvid"
  <2>1. c \in X
    BY <1>1, RangeRowsFaithful
  <2>2. QED
    BY <2>1 DEF SetPvid
<1>5. A = Append(L, J)
  BY DEF AccessPort
<1>6. q = A \o <<c>>
  <2>1. A \in Seq(X)
    <3> HIDE DEF L, J, A, X
    <3>1. QED
      BY <1>2, <1>3, <1>5
  <2>2. ss \in Seq(Seq(X)) /\ Len(ss) = 1 /\ ss[1] = A
    <3>1. ss = [i \in 1..1 |-> AccessPort(s, r.ports[i], v)]
      BY <1>1
    <3>2. \A i \in 1..1 : i = 1
      OBVIOUS
    <3>3. ss \in [1..1 -> Seq(X)] /\ ss[1] = A
      BY <2>1, <3>1, <3>2
    <3> HIDE DEF ss, A, X
    <3>4. QED
      BY <3>3, ListOfLength
  <2>3. FlattenSeq(ss) = A
    <3> HIDE DEF ss, X, A
    <3>1. QED
      BY <2>2, FlattenOne
  <2>4. q = FlattenSeq(ss) \o <<c>>
    BY DEF Writes, AccessWrites
  <2>5. QED
    BY <2>3, <2>4
<1>7. \A w \in Others(s, x, v) : w # v /\ w \in Vids
  BY BitsRows DEF Others, Tables
<1>8. /\ \A w \in Vids : s.untagged[w] \subseteq t.untagged[w]
      /\ \A w \in Vids : x \in t.untagged[w] => x \in s.untagged[w] /\ w \in s.vids
  <2>1. s.vids = t.vids /\ \A w \in Vids : s.untagged[w] = t.untagged[w] \cap 1..8
    BY BitsRows
  <2>2. \A w \in Vids : w \notin t.vids => t.untagged[w] = {}
    BY DEF Backed
  <2> HIDE DEF s, x
  <2>3. QED
    BY <1>1, <2>1, <2>2
<1>9. \A p, w : Joins(r, p, w) <=> p = x /\ w = v
  BY <1>1 DEF Joins
<1> HIDE DEF s, v, x, L, J, A, c, q, X
<1>10. /\ A \in Seq(X) /\ Len(A) = Len(L) + 1 /\ Len(L) \in Nat /\ A[Len(A)] = J
       /\ \A i \in 1..Len(L) : A[i] = L[i]
  BY <1>2, <1>3, <1>5
<1>11. /\ q \in Seq(X) /\ Len(q) = Len(A) + 1 /\ q[Len(A) + 1] = c
       /\ \A i \in 1..Len(A) : q[i] = A[i]
  BY <1>4, <1>6, <1>10, AppendOne
<1> DEFINE m == Len(L)
<1>12. m \in Nat /\ Len(q) = m + 2 /\ q[m + 1] = J /\ q[m + 2] = c /\ \A i \in 1..m : q[i] = L[i]
  <2>1. m + 1 \in 1..Len(A) /\ (m + 1) + 1 = m + 2 /\ m \in Nat /\ \A i \in 1..m : i \in 1..Len(A)
    BY <1>10
  <2>2. QED
    BY <1>10, <1>11, <2>1
<1> HIDE DEF m
<1>13. \A i \in 1..Len(q) : i \in 1..m \/ i = m + 1 \/ i = m + 2
  BY <1>12
<1>14. ASSUME NEW i \in 1..Len(q), q[i].kind = "vlan"
       PROVE  /\ Within(r, t, q[i].vid, q[i].untagged)
              /\ q[i].vid # v => x \notin q[i].untagged
  <2>1. CASE i \in 1..m
    <3>1. q[i].vid \in Others(s, x, v) /\ q[i].untagged = s.untagged[q[i].vid] \ {x}
      BY <1>2, <1>12, <2>1 DEF m
    <3>2. QED
      BY <1>7, <1>8, <3>1 DEF Within
  <2>2. CASE i = m + 1
    BY <1>1, <1>3, <1>8, <1>9, <1>12, <2>2 DEF Within
  <2>3. CASE i = m + 2
    BY <1>4, <1>12, <1>14, <2>3
  <2>4. QED
    BY <1>13, <2>1, <2>2, <2>3
<1>15. ASSUME NEW u \in Vids, u # v, x \in t.untagged[u]
       PROVE  \E k \in 1..Len(q) : IsOn(q[k], u) /\ \A j \in 1..k : ~IsOn(q[j], v)
  <2>1. u \in Others(s, x, v)
    BY <1>8, <1>15 DEF Others
  <2>2. PICK k \in 1..m : L[k].vid = u
    BY <1>2, <2>1, Zenon DEF m
  <2>3. k \in 1..Len(q) /\ q[k] = L[k] /\ \A j \in 1..k : j \in 1..m
    <3>1. m \in Nat /\ Len(q) = m + 2 /\ k \in 1..m
      BY <1>12, <2>2
    <3>2. k \in 1..Len(q) /\ \A j \in 1..k : j \in 1..m
      BY ONLY <3>1
    <3>3. QED
      BY <1>12, <2>2, <3>2
  <2>4. IsOn(q[k], u)
    BY <1>2, <2>2, <2>3 DEF IsOn, m
  <2>5. \A j \in 1..k : ~IsOn(q[j], v)
    BY <1>2, <1>7, <1>12, <2>3 DEF IsOn, m
  <2>6. QED
    BY <2>3, <2>4, <2>5
<1>16. \A u \in Vids : Within(r, t, u, t.untagged[u])
  BY DEF Within
<1>17. ASSUME NEW p \in Ports, NEW u \in Vids, NEW w \in Vids, Joins(r, p, w), u # w
       PROVE  /\ \A i \in 1..Len(q) : IsOn(q[i], u) => p \notin q[i].untagged
              /\ p \in t.untagged[u] =>
                   \E k \in 1..Len(q) : IsOn(q[k], u) /\ \A j \in 1..k : ~IsOn(q[j], w)
  <2>1. p = x /\ w = v
    BY <1>9, <1>17
  <2>2. QED
    BY <1>14, <1>15, <1>17, <2>1 DEF IsOn
<1>18. LeavesFirst(r, t, q, t)
  BY <1>14, <1>16, <1>17 DEF LeavesFirst
<1>19. QED
  BY <1>18 DEF q

LEMMA ReadLeavesFirst ==
  ASSUME SingleAccess, NEW r \in Requests, ReadsTable(r),
         NEW t \in Tables, Disjoint(t), Backed(t), Unbridged(t)
  PROVE  LeavesFirst(r, t, Writes(r, t), t)
<1> DEFINE s == BitsToPorts(t)
           P == ToSet(r.ports)
<1>1. CASE r.kind = "access"
  <2>1. Len(r.ports) = 1
    BY <1>1 DEF SingleAccess
  <2>2. QED
    BY <1>1, <2>1, AccessLeavesFirst
<1>2. /\ r.kind \in {"access", "trunk_add", "trunk_remove", "name"} /\ r.vids[1] \in Vids
      /\ DOMAIN r.vids = 1..Len(r.vids) /\ Len(r.vids) \in Nat \ {0}
      /\ \A i \in 1..Len(r.vids) : r.vids[i] \in Vids
  BY Named DEF ReadsTable, Kinds
<1>3. \A v \in Vids : s.untagged[v] \subseteq t.untagged[v]
  BY BitsRows
<1>4. ASSUME r.kind # "access"
      PROVE  \A i \in 1..Len(Writes(r, t)) :
               Writes(r, t)[i].vid \in Vids /\ Writes(r, t)[i].untagged \subseteq s.untagged[Writes(r, t)[i].vid]
  <2> HIDE DEF s
  <2>1. CASE r.kind = "trunk_add"
    <3>1. Writes(r, t) = [i \in 1..Len(r.vids) |-> TrunkAdd(s, P, r.vids[i])]
      BY <1>2, <2>1 DEF Writes, s
    <3>2. QED
      BY <1>2, <3>1 DEF TrunkAdd, SetVlan
  <2>2. CASE r.kind = "trunk_remove"
    <3>1. Writes(r, t) = [i \in 1..Len(r.vids) |-> TrunkRemove(s, P, r.vids[i])]
      BY <1>2, <2>2 DEF Writes, s
    <3>2. QED
      BY <1>2, <3>1 DEF TrunkRemove, SetVlan
  <2>3. CASE r.kind = "name"
    <3>1. Writes(r, t) = <<SetVlan(r.vids[1], s.tagged[r.vids[1]], s.untagged[r.vids[1]])>>
      BY <2>3 DEF Writes, s
    <3>2. QED
      BY <1>2, <3>1 DEF SetVlan
  <2>4. QED
    BY <1>2, <1>4, <2>1, <2>2, <2>3
<1>5. CASE r.kind # "access"
  <2>1. \A p, v : ~Joins(r, p, v)
    BY <1>5 DEF Joins
  <2>2. QED
    BY <1>3, <1>4, <1>5, <2>1 DEF LeavesFirst, Within
<1>6. QED
  BY <1>1, <1>5

AllBridgeless == \A a \in CLIs : Bridgeless(a)

\* The write in hand of a CLI that worked alone keeps every port in one VLAN.
LEMMA BridgelessWrite ==
  ASSUME Core, NEW a \in CLIs, pc[a] = "write", Perform(Head(todo[a])), Bridgeless(a), ~lossy, Alone(a)
  PROVE  /\ Unbridged(table')
         /\ enabled /\ ReadsTable(request[a]) =>
              LeavesFirst(request[a], seen[a], Tail(todo[a]), table')
<1> DEFINE w == Head(todo[a])
<1>1. /\ todo[a] \in Seq(Sound) /\ todo[a] # <<>> /\ w \in Sound
      /\ ReadsTable(request[a]) => w \in FaithfulTo(request[a], seen[a])
      /\ ~ReadsTable(request[a]) => w.kind # "vlan"
  BY HeadSound
<1>2. Unbridged(table) /\ SwitchOK /\ enabled \in BOOLEAN /\ table \in Tables
  BY DEF Bridgeless, Core, SwitchOK
<1>3. CASE enabled /\ ReadsTable(request[a])
  <2>1. w.kind # "delete"
    BY <1>1, <1>3 DEF FaithfulTo
  <2>2. LeavesFirst(request[a], seen[a], todo[a], table)
    BY <1>3 DEF Bridgeless
  <2>3. QED
    BY <1>1, <1>2, <1>3, <2>1, <2>2, LeavesFirstStep
<1>4. CASE ~(enabled /\ ReadsTable(request[a]))
  <2>1. \A u \in Vids : ~(enabled /\ IsOn(w, u))
    BY <1>1, <1>4 DEF IsOn
  <2>2. Perform(w)
    OBVIOUS
  <2> HIDE DEF w
  <2>3. \A u \in Vids : table'.untagged[u] \subseteq table.untagged[u]
    BY <1>1, <1>2, <2>1, <2>2, PerformedRow
  <2>4. Unbridged(table')
    BY <1>2, <2>3 DEF Unbridged
  <2>5. QED
    BY <1>4, <2>4
<1>5. QED
  BY <1>3, <1>4

LEMMA BridgelessStep ==
  ASSUME SingleAccess
  PROVE  Core /\ AllBridgeless /\ [Next]_vars => AllBridgeless'
<1> SUFFICES ASSUME Core, \A a \in CLIs : Bridgeless(a), [Next]_vars, NEW a \in CLIs PROVE Bridgeless(a)'
  BY DEF AllBridgeless
<1>1. CASE UNCHANGED vars
  <2>1. Bridgeless(a)
    OBVIOUS
  <2>2. QED
    BY <1>1, <2>1 DEF Bridgeless, Alone, vars, switch, cli
<1>2. CASE Next
  <2> SUFFICES ASSUME ~lossy', Alone(a)'
               PROVE  /\ Unbridged(table')
                      /\ pc'[a] = "write" /\ ReadsTable(request'[a]) /\ enabled' =>
                           LeavesFirst(request'[a], seen'[a], todo'[a], table')
    BY DEF Bridgeless
  <2>1. Step(a) /\ Alone(a) /\ Typed /\ SwitchOK /\ Queue(a) /\ Bridgeless(a)
    BY <1>2, StepIsOne, AloneStep DEF Core
  <2>2. CASE ~lossy /\ Unbridged(table)
    <3>1. CASE Read(a)
      <4>1. table' = table /\ enabled' = enabled /\ request' = request
        BY <3>1 DEF Read, switch
      <4>2. ASSUME pc'[a] = "write", enabled
            PROVE  LeavesFirst(request'[a], seen'[a], todo'[a], table')
        <5>1. todo'[a] = Writes(request[a], table) /\ seen'[a] = table
          BY <2>1, <3>1, <4>2, ListedOK DEF Read, Typed
        <5>2. request[a] \in Requests /\ ReadsTable(request[a])
          BY <2>1, <3>1 DEF Read, Queue
        <5>3. table \in Tables /\ Disjoint(table) /\ Backed(table)
          BY <2>1 DEF SwitchOK
        <5>4. LeavesFirst(request[a], table, Writes(request[a], table), table)
          BY <2>2, <5>2, <5>3, ReadLeavesFirst
        <5>5. QED
          BY <4>1, <5>1, <5>4
      <4>3. QED
        BY <2>2, <4>1, <4>2
    <3>2. CASE Write(a)
      <4>1. /\ pc[a] = "write" /\ Perform(Head(todo[a])) /\ todo'[a] = Tail(todo[a])
            /\ request' = request /\ seen' = seen
        BY <2>1, <3>2 DEF Write, Advance, Typed
      <4>2. enabled' = enabled
        BY <4>1 DEF Perform
      <4>3. QED
        BY <2>1, <2>2, <4>1, <4>2, BridgelessWrite
    <3>3. CASE Fail(a)
      <4>1. pc'[a] = "idle"
        BY <2>1, <3>3 DEF Fail, Typed
      <4>2. table' = table \/ (pc[a] = "write" /\ Perform(Head(todo[a])))
        BY <3>3 DEF Fail, switch
      <4>3. QED
        BY <2>1, <2>2, <4>1, <4>2, BridgelessWrite
    <3>4. CASE Enable(a) \/ \E r \in Requests : Issue(a, r)
      <4>1. table' = table
        BY <3>4 DEF Enable, Issue, switch
      <4>2. ~(pc'[a] = "write" /\ ReadsTable(request'[a]))
        BY <2>1, <3>4 DEF Enable, Issue, Typed
      <4>3. QED
        BY <2>2, <4>1, <4>2
    <3>5. ~WriteLost(a)
      BY DEF WriteLost
    <3>6. QED
      BY <2>1, <3>1, <3>2, <3>3, <3>4, <3>5 DEF Step
  <2>3. ~lossy
    BY <2>1 DEF Step, Issue, Read, Enable, Write, WriteLost, Fail
  <2>4. QED
    BY <2>1, <2>2, <2>3 DEF Bridgeless
<1>3. QED
  BY <1>1, <1>2

LEMMA UnbridgedCount ==
  ASSUME Unbridged(table), NEW p \in Ports
  PROVE  Cardinality({v \in Vids : p \in table.untagged[v]}) <= 1
<1> DEFINE S == {v \in Vids : p \in table.untagged[v]}
<1>1. \A u, v \in S : u = v
  BY DEF Unbridged
<1> HIDE DEF S
<1>2. CASE S = {}
  BY <1>2, FS_EmptySet DEF S
<1>3. CASE S # {}
  <2>1. PICK v \in S : S = {v}
    BY <1>1, <1>3
  <2>2. Cardinality(S) = 1
    BY <2>1, FS_Singleton
  <2>3. QED
    BY <2>2 DEF S
<1>4. QED
  BY <1>2, <1>3

\* If every access command names one interface, no port is ever an untagged member of
\* two VLANs, while a command runs, when one fails or after it, unless a write was lost
\* or several CLIs have been at work.
THEOREM NoBridge ==
  ASSUME SingleAccess
  PROVE  Spec => []NeverBridged
<1>1. Init => AllBridgeless
  <2> SUFFICES ASSUME Init PROVE AllBridgeless
    OBVIOUS
  <2>1. \A v \in Vids : v # 1 => table.untagged[v] = {}
    BY ConstantsAssumption DEF Init, FactoryTable, EmptyTable
  <2>2. Unbridged(table)
    BY <2>1 DEF Unbridged
  <2>3. QED
    BY <2>2 DEF Init, Bridgeless, AllBridgeless
<1>2. AllBridgeless => NeverBridged
  BY UnbridgedCount DEF AllBridgeless, Bridgeless, NeverBridged
<1>3. QED
  BY <1>1, <1>2, Initially, CoreStep, BridgelessStep, PTL DEF Spec
=============================================================================
