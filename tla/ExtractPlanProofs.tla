-------------------------- MODULE ExtractPlanProofs --------------------------
(***************************************************************************)
(* Planning an extraction, for any packages, names and ceilings: what is   *)
(* planned, in which order, and that it can be carried out.                *)
(***************************************************************************)
EXTENDS ExtractPlan, FiniteSetTheorems, SequenceTheorems, TLAPS

-----------------------------------------------------------------------------
(* Extremes.                                                               *)

\* A set of numbers has a least one.
LEMMA LeastNumber ==
    ASSUME NEW T, T \subseteq Nat, T # {}
    PROVE  \E m \in T : \A n \in T : m <= n
<1>1. PICK R : /\ IsWellFoundedOn(R, Nat)
               /\ \A m, n \in Nat : n < m => <<n, m>> \in R
    <2> WITNESS OpToRel(<, Nat)
    <2>1. IsWellFoundedOn(OpToRel(<, Nat), Nat)
        BY NatLessThanWellFounded
    <2>2. ASSUME NEW m \in Nat, NEW n \in Nat, n < m PROVE <<n, m>> \in OpToRel(<, Nat)
        <3>1. <<n, m>> \in {p \in Nat \X Nat : p[1] < p[2]}
            BY <2>2
        <3> QED BY <3>1, Zenon DEF OpToRel
    <2> QED BY <2>1, <2>2, Zenon
<1>2. PICK m \in T : \A n \in T : <<n, m>> \notin R
    BY <1>1, WFMin
<1>3. \A n \in T : ~(n < m)
    BY <1>1, <1>2
<1> QED BY <1>2, <1>3

LEMMA MinFacts ==
    ASSUME NEW T, T \subseteq Nat, T # {}
    PROVE  Min(T) \in T /\ \A n \in T : Min(T) <= n
BY LeastNumber DEF Min

LEMMA MaxOfTwo ==
    ASSUME NEW a \in Nat, NEW b \in Nat
    PROVE  Max({a, b}) \in {a, b} /\ a <= Max({a, b}) /\ b <= Max({a, b})
<1>1. \E x \in {a, b} : \A y \in {a, b} : x >= y
  BY SMT
<1> QED
  BY <1>1 DEF Max

-----------------------------------------------------------------------------
(* The order of paths is strict and total.                                 *)

Names == Seq(Component)

\* Before, position by position.
Less(p, q) ==
    \/ Len(p) < Len(q) /\ \A i \in 1 .. Len(p) : p[i] = q[i]
    \/ \E n \in 1 .. Len(p) :
          /\ n <= Len(q) /\ Rank[p[n]] < Rank[q[n]]
          /\ \A i \in 1 .. n - 1 : p[i] = q[i]

LEMMA PrefixFacts ==
    ASSUME NEW p \in Names, NEW n \in 0 .. Len(p)
    PROVE  /\ SubSeq(p, 1, n) \in Names
           /\ Len(SubSeq(p, 1, n)) = n
           /\ \A i \in 1 .. n : SubSeq(p, 1, n)[i] = p[i]
BY DEF Names

LEMMA SamePrefix ==
    ASSUME NEW p \in Names, NEW q \in Names,
           NEW n \in Nat, n <= Len(p), n <= Len(q)
    PROVE  SubSeq(p, 1, n) = SubSeq(q, 1, n) <=> \A i \in 1 .. n : p[i] = q[i]
<1>1. n \in 0 .. Len(p) /\ n \in 0 .. Len(q)
  BY DEF Names
<1> DEFINE a == SubSeq(p, 1, n)
           b == SubSeq(q, 1, n)
<1>2. a \in Names /\ b \in Names /\ Len(a) = n /\ Len(b) = n
  BY <1>1, PrefixFacts
<1>3. \A i \in 1 .. n : a[i] = p[i] /\ b[i] = q[i]
  BY <1>1, PrefixFacts
<1> HIDE DEF a, b
<1>4. (\A i \in 1 .. n : a[i] = b[i]) => a = b
  BY <1>2, SeqEqual DEF Names
<1>5. a = b <=> \A i \in 1 .. n : p[i] = q[i]
  BY <1>3, <1>4
<1> QED
  BY <1>5 DEF a, b

LEMMA BeforeIsLess ==
    ASSUME NEW p \in Names, NEW q \in Names
    PROVE  Before(p, q) <=> Less(p, q)
<1>1. /\ Len(p) \in Nat /\ Len(q) \in Nat
      /\ DOMAIN p = 1 .. Len(p) /\ DOMAIN q = 1 .. Len(q)
      /\ SubSeq(p, 1, Len(p)) = p
  BY SubSeqFull DEF Names
<1>2. Len(p) < Len(q) =>
          (p = SubSeq(q, 1, Len(p)) <=> \A i \in 1 .. Len(p) : p[i] = q[i])
  <2> SUFFICES ASSUME Len(p) < Len(q)
               PROVE  p = SubSeq(q, 1, Len(p)) <=> \A i \in 1 .. Len(p) : p[i] = q[i]
    OBVIOUS
  <2>1. SubSeq(p, 1, Len(p)) = SubSeq(q, 1, Len(p)) <=> \A i \in 1 .. Len(p) : p[i] = q[i]
    <3> HIDE DEF Names
    <3> QED
      BY <1>1, SamePrefix
  <2> QED
    BY <1>1, <2>1
<1>3. ASSUME NEW n \in DOMAIN p \cap DOMAIN q
      PROVE  SubSeq(p, 1, n - 1) = SubSeq(q, 1, n - 1)
                 <=> \A i \in 1 .. n - 1 : p[i] = q[i]
  <2>1. n - 1 \in Nat /\ n - 1 <= Len(p) /\ n - 1 <= Len(q)
    BY <1>1
  <2> HIDE DEF Names
  <2> QED
    BY <2>1, SamePrefix
<1>4. DOMAIN p \cap DOMAIN q = {n \in 1 .. Len(p) : n <= Len(q)}
  BY <1>1
<1> QED
  BY <1>2, <1>3, <1>4 DEF Before, Less

LEMMA Ranks ==
    ASSUME NEW p \in Names, NEW i \in 1 .. Len(p)
    PROVE  p[i] \in Component /\ Rank[p[i]] \in Nat
BY ComponentAssumption DEF Names

LEMMA LessIrreflexive ==
    ASSUME NEW p \in Names
    PROVE  ~Less(p, p)
<1>1. Len(p) \in Nat
  BY DEF Names
<1> QED
  BY <1>1, Ranks DEF Less

LEMMA LessTransitive ==
    ASSUME NEW p \in Names, NEW q \in Names, NEW r \in Names, Less(p, q), Less(q, r)
    PROVE  Less(p, r)
<1>1. Len(p) \in Nat /\ Len(q) \in Nat /\ Len(r) \in Nat
  BY DEF Names
<1>2. CASE Len(p) < Len(q) /\ \A i \in 1 .. Len(p) : p[i] = q[i]
  <2>1. CASE Len(q) < Len(r) /\ \A i \in 1 .. Len(q) : q[i] = r[i]
    BY <1>1, <1>2, <2>1 DEF Less
  <2>2. ASSUME NEW n \in 1 .. Len(q), n <= Len(r), Rank[q[n]] < Rank[r[n]],
               \A i \in 1 .. n - 1 : q[i] = r[i]
        PROVE  Less(p, r)
    <3>1. CASE n <= Len(p)
      <4>1. n \in 1 .. Len(p) /\ p[n] = q[n]
        BY <1>1, <1>2, <3>1
      <4>2. \A i \in 1 .. n - 1 : p[i] = r[i]
        BY <1>1, <1>2, <2>2, <3>1
      <4> QED
        BY <2>2, <4>1, <4>2 DEF Less
    <3>2. CASE Len(p) < n
      <4>1. Len(p) < Len(r)
        BY <1>1, <2>2, <3>2
      <4>2. \A i \in 1 .. Len(p) : p[i] = r[i]
        BY <1>1, <1>2, <2>2, <3>2
      <4> QED
        BY <4>1, <4>2 DEF Less
    <3> QED
      BY <1>1, <3>1, <3>2
  <2> QED
    BY <2>1, <2>2 DEF Less
<1>3. ASSUME NEW m \in 1 .. Len(p), m <= Len(q), Rank[p[m]] < Rank[q[m]],
             \A i \in 1 .. m - 1 : p[i] = q[i]
      PROVE  Less(p, r)
  <2>1. CASE Len(q) < Len(r) /\ \A i \in 1 .. Len(q) : q[i] = r[i]
    <3>1. m <= Len(r) /\ q[m] = r[m]
      BY <1>1, <1>3, <2>1
    <3>2. \A i \in 1 .. m - 1 : p[i] = r[i]
      BY <1>1, <1>3, <2>1
    <3> QED
      BY <1>3, <3>1, <3>2 DEF Less
  <2>2. ASSUME NEW n \in 1 .. Len(q), n <= Len(r), Rank[q[n]] < Rank[r[n]],
               \A i \in 1 .. n - 1 : q[i] = r[i]
        PROVE  Less(p, r)
    <3>1. CASE n < m
      <4>1. n \in 1 .. Len(p) /\ p[n] = q[n]
        BY <1>1, <1>3, <3>1
      <4>2. \A i \in 1 .. n - 1 : p[i] = r[i]
        BY <1>1, <1>3, <2>2, <3>1
      <4> QED
        BY <2>2, <4>1, <4>2 DEF Less
    <3>2. CASE m <= n
      <4>1. m <= Len(r)
        BY <1>1, <2>2, <3>2
      <4>2. Rank[p[m]] < Rank[r[m]]
        <5>1. m \in 1 .. Len(q) /\ m \in 1 .. Len(r)
          BY <1>1, <1>3, <4>1
        <5>2. Rank[p[m]] \in Nat /\ Rank[q[m]] \in Nat /\ Rank[r[m]] \in Nat
          BY <5>1, Ranks
        <5>3. CASE m = n
          BY <1>3, <2>2, <5>2, <5>3
        <5>4. CASE m < n
          <6>1. q[m] = r[m]
            BY <1>1, <2>2, <5>4
          <6> QED
            BY <1>3, <6>1
        <5> QED
          BY <1>1, <3>2, <5>3, <5>4
      <4>3. \A i \in 1 .. m - 1 : p[i] = r[i]
        BY <1>1, <1>3, <2>2, <3>2
      <4> QED
        BY <4>1, <4>2, <4>3 DEF Less
    <3> QED
      BY <1>1, <3>1, <3>2
  <2> QED
    BY <2>1, <2>2 DEF Less
<1> QED
  BY <1>2, <1>3 DEF Less

LEMMA LessTotal ==
    ASSUME NEW p \in Names, NEW q \in Names, p # q
    PROVE  Less(p, q) \/ Less(q, p)
<1>1. Len(p) \in Nat /\ Len(q) \in Nat
  BY DEF Names
<1> DEFINE D == {i \in 1 .. Len(p) : i <= Len(q) /\ p[i] # q[i]}
<1>2. CASE D = {}
  <2>1. \A i \in 1 .. Len(p) : i <= Len(q) => p[i] = q[i]
    BY <1>2
  <2>2. Len(p) # Len(q)
    <3> SUFFICES ASSUME Len(p) = Len(q) PROVE FALSE
      OBVIOUS
    <3>1. \A i \in 1 .. Len(p) : p[i] = q[i]
      BY <1>1, <2>1
    <3> QED
      BY <3>1, SeqEqual DEF Names
  <2> QED
    BY <1>1, <2>1, <2>2 DEF Less
<1>3. CASE D # {}
  <2>1. PICK n \in D : \A i \in D : n <= i
    <3>1. D \subseteq Nat
      BY <1>1
    <3> HIDE DEF D
    <3> QED
      BY <1>3, <3>1, LeastNumber
  <2>2. n \in 1 .. Len(p) /\ n \in 1 .. Len(q) /\ p[n] # q[n]
    BY <1>1, <2>1
  <2>3. \A i \in 1 .. n - 1 : p[i] = q[i]
    BY <1>1, <2>1, <2>2
  <2>4. /\ Rank[p[n]] \in Nat /\ Rank[q[n]] \in Nat /\ Rank[p[n]] # Rank[q[n]]
    BY <2>2, Ranks, ComponentAssumption
  <2> QED
    BY <1>1, <2>2, <2>3, <2>4 DEF Less
<1> QED
  BY <1>2, <1>3

\* The same three facts of Before.
LEMMA BeforeIsAnOrder ==
    ASSUME NEW p \in Names, NEW q \in Names, NEW r \in Names
    PROVE  /\ ~Before(p, p)
           /\ Before(p, q) /\ Before(q, r) => Before(p, r)
           /\ p # q => Before(p, q) \/ Before(q, p)
<1> HIDE DEF Names
<1> QED
  BY BeforeIsLess, LessIrreflexive, LessTransitive, LessTotal

-----------------------------------------------------------------------------
(* The paths of a finite set, each at its place: as many come before it.   *)

LEMMA MoreBefore ==
    ASSUME NEW S \in SUBSET Names, IsFiniteSet(S),
           NEW x \in S, NEW y \in S, Before(x, y)
    PROVE  Cardinality({q \in S : Before(q, x)}) < Cardinality({q \in S : Before(q, y)})
<1> HIDE DEF Names
<1> DEFINE X == {q \in S : Before(q, x)}
           Y == {q \in S : Before(q, y)}
<1>1. X \in SUBSET S /\ Y \in SUBSET S
  OBVIOUS
<1>2. X \cup {x} \in SUBSET Y /\ x \notin X
  BY BeforeIsAnOrder
<1> HIDE DEF X, Y
<1>3. IsFiniteSet(X) /\ IsFiniteSet(Y)
  BY <1>1, FS_Subset
<1>4. Cardinality(X \cup {x}) = Cardinality(X) + 1
  BY <1>2, <1>3, FS_AddElement
<1>5. Cardinality(X \cup {x}) <= Cardinality(Y)
  BY <1>2, <1>3, FS_Subset
<1>6. Cardinality(X) \in Nat /\ Cardinality(Y) \in Nat
  BY <1>3, FS_CardinalityType
<1>7. Cardinality(X) < Cardinality(Y)
  BY <1>4, <1>5, <1>6
<1> QED
  BY <1>7 DEF X, Y

\* Everything is somewhere in the order, once, after what is before it.
LEMMA SortedFacts ==
    ASSUME NEW S \in SUBSET Names, IsFiniteSet(S)
    PROVE  /\ Sorted(S) \in Seq(S) /\ Len(Sorted(S)) = Cardinality(S)
           /\ \A p \in S : \E k \in 1 .. Len(Sorted(S)) : Sorted(S)[k] = p
           /\ \A j, k \in 1 .. Len(Sorted(S)) : j # k => Sorted(S)[j] # Sorted(S)[k]
           /\ \A j, k \in 1 .. Len(Sorted(S)) :
                 Before(Sorted(S)[j], Sorted(S)[k]) => j < k
<1> HIDE DEF Names
<1> DEFINE n == Cardinality(S)
           before(p) == Cardinality({q \in S : Before(q, p)})
           place == [p \in S |-> before(p) + 1]
<1>1. n \in Nat /\ IsFiniteSet(1 .. n) /\ Cardinality(1 .. n) = n
  BY FS_CardinalityType, FS_Interval
<1>2. ASSUME NEW p \in S
      PROVE  before(p) \in Nat /\ before(p) < n
  <2> DEFINE B == {q \in S : Before(q, p)}
  <2>1. B \in SUBSET S /\ p \notin B
    BY BeforeIsAnOrder
  <2> HIDE DEF B
  <2>2. IsFiniteSet(B) /\ Cardinality(B) <= n /\ (n = Cardinality(B) => S = B)
    BY <2>1, FS_Subset
  <2>3. Cardinality(B) \in Nat
    BY <2>2, FS_CardinalityType
  <2>4. Cardinality(B) < n
    BY <1>1, <2>1, <2>2, <2>3
  <2> QED
    BY <2>3, <2>4 DEF B
<1>3. \A p, q \in S : Before(p, q) => before(p) < before(q)
  BY MoreBefore
<1>4. \A p, q \in S : p # q => before(p) # before(q)
  BY <1>2, <1>3, BeforeIsAnOrder
<1> HIDE DEF before, n
<1>5. place \in Injection(S, 1 .. n)
  <2>1. place \in [S -> 1 .. n]
    BY <1>1, <1>2
  <2>2. \A p, q \in S : place[p] = place[q] => p = q
    BY <1>2, <1>4
  <2> QED
    BY <2>1, <2>2 DEF Injection, IsInjective
<1>6. place \in Surjection(S, 1 .. n)
  <2> HIDE DEF place
  <2>1. Cardinality(S) = Cardinality(1 .. n)
    BY <1>1 DEF n
  <2> QED
    BY <1>1, <1>5, <2>1, FS_Injection
<1>7. ASSUME NEW k \in 1 .. n PROVE \E p \in S : before(p) = k - 1
  <2>1. PICK p \in S : place[p] = k
    BY <1>6 DEF Surjection
  <2>2. k = before(p) + 1 /\ before(p) \in Nat
    BY <1>2, <2>1
  <2> QED
    BY <2>2
<1> DEFINE sorted == [k \in 1 .. n |-> CHOOSE p \in S : before(p) = k - 1]
<1>8. Sorted(S) = sorted
  BY DEF Sorted, before, n
<1>9. \A k \in 1 .. n : sorted[k] \in S /\ before(sorted[k]) = k - 1
  BY <1>7
<1>10. sorted \in Seq(S) /\ Len(sorted) = n
  <2>1. sorted \in [1 .. n -> S]
    BY <1>9
  <2> HIDE DEF sorted
  <2> QED
    BY <1>1, <2>1
<1> HIDE DEF sorted
<1>11. ASSUME NEW p \in S PROVE \E k \in 1 .. n : sorted[k] = p
  <2>1. before(p) + 1 \in 1 .. n
    BY <1>1, <1>2
  <2>2. sorted[before(p) + 1] \in S /\ before(sorted[before(p) + 1]) = before(p)
    BY <1>2, <1>9, <2>1
  <2> QED
    BY <1>4, <2>1, <2>2
<1>12. \A j, k \in 1 .. n : j # k => sorted[j] # sorted[k]
  BY <1>1, <1>9
<1>13. \A j, k \in 1 .. n : Before(sorted[j], sorted[k]) => j < k
  BY <1>1, <1>3, <1>9
<1>14. Cardinality(S) = n
  BY DEF n
<1> QED
  BY <1>8, <1>10, <1>11, <1>12, <1>13, <1>14

-----------------------------------------------------------------------------
(* Parents.                                                                *)

Paths == Names \ {<<>>}

LEMMA ParentFacts ==
    ASSUME NEW p \in Paths
    PROVE  /\ Parents(p) \subseteq Paths
           /\ IsFiniteSet(Parents(p))
           /\ \A d \in Parents(p) : Before(d, p) /\ Parents(d) \subseteq Parents(p)
           /\ Len(p) > 1 => Front(p) \in Parents(p)
<1> HIDE DEF Names
<1>1. p \in Names /\ Len(p) \in Nat
  BY DEF Paths, Names
<1> DEFINE cut == [n \in 1 .. Len(p) - 1 |-> SubSeq(p, 1, n)]
<1>2. \A n \in 1 .. Len(p) - 1 :
        /\ SubSeq(p, 1, n) \in Names
        /\ Len(SubSeq(p, 1, n)) = n
        /\ \A i \in 1 .. n : SubSeq(p, 1, n)[i] = p[i]
  BY <1>1, PrefixFacts
<1>3. Parents(p) \subseteq Paths
  <2>1. \A n \in 1 .. Len(p) - 1 : SubSeq(p, 1, n) # <<>>
    BY <1>1, <1>2
  <2> QED
    BY <1>2, <2>1 DEF Parents, Paths
<1>4. IsFiniteSet(Parents(p))
  <2>1. cut \in Surjection(1 .. Len(p) - 1, Parents(p))
    BY DEF Surjection, Parents
  <2>2. IsFiniteSet(1 .. Len(p) - 1)
    BY <1>1, FS_Interval
  <2> HIDE DEF cut
  <2> QED
    BY <2>1, <2>2, FS_Surjection
<1>5. ASSUME NEW d \in Parents(p)
      PROVE  Before(d, p) /\ Parents(d) \subseteq Parents(p)
  <2>1. PICK n \in 1 .. Len(p) - 1 : d = SubSeq(p, 1, n)
    BY DEF Parents
  <2>2. d \in Names /\ Len(d) = n /\ \A i \in 1 .. n : d[i] = p[i]
    BY <1>2, <2>1
  <2>3. Less(d, p)
    BY <1>1, <2>1, <2>2 DEF Less
  <2>4. ASSUME NEW m \in 1 .. n - 1
        PROVE  m \in 1 .. Len(p) - 1 /\ SubSeq(d, 1, m) = SubSeq(p, 1, m)
    <3>1. m \in Nat /\ m <= Len(d) /\ m <= Len(p) /\ m \in 1 .. Len(p) - 1
      BY <1>1, <2>1, <2>2
    <3>2. \A i \in 1 .. m : d[i] = p[i]
      BY <2>1, <2>2
    <3> QED
      BY <1>1, <2>2, <3>1, <3>2, SamePrefix
  <2>5. Parents(d) \subseteq Parents(p)
    BY <2>2, <2>4 DEF Parents
  <2> QED
    BY <1>1, <2>2, <2>3, <2>5, BeforeIsLess
<1>6. Len(p) > 1 => Front(p) \in Parents(p)
  BY <1>1 DEF Front, Parents
<1> QED
  BY <1>3, <1>4, <1>5, <1>6

-----------------------------------------------------------------------------
(* The loop.                                                               *)

Item == [entry : DOMAIN entries, path : Paths]

\* What has been planned so far is what was to be planned up to here, in its
\* order and under its own name.
Scanned ==
    /\ {items[i].entry : i \in DOMAIN items} = {i \in Wanted(entries) : i < next}
    /\ \A i, j \in DOMAIN items : i < j => items[i].entry < items[j].entry
    /\ \A i \in DOMAIN items : items[i].path = entries[items[i].entry].name
    /\ \A i \in Wanted(entries) : i < next => Sound(entries[i])
    /\ phase \in {"outputs", "planned"} => next = Len(entries) + 1

\* The running totals are what has been passed, counted as a whole.
Passed(n) == {i \in Wanted(entries) : i < n}
BytesPassed(n) == UNION {{i} \X (1 .. entries[i].size) : i \in Passed(n)}

Totals ==
    /\ IsFiniteSet(Passed(next)) /\ Cardinality(Passed(next)) = Len(items)
    /\ IsFiniteSet(BytesPassed(next)) /\ Cardinality(BytesPassed(next)) = total

\* A refusal is right about the package up to the entry it names.
Refused == phase = "refused" => ~Extractable(SubSeq(entries, 1, refusal.entry))

\* A delivered plan has passed the passes over all its items.
Planned ==
    phase = "planned" =>
        /\ Twins = {} /\ \A j \in DOMAIN items : Blockers(j) = {}
        /\ directories = Sorted(UNION {Parents(items[i].path) : i \in DOMAIN items})

IInv == TypeOK /\ Scanned /\ Totals /\ Planned /\ Refused

\* What is known of the entries and the items.
LEMMA Known ==
    ASSUME TypeOK
    PROVE  /\ entries \in Seq(Entry) /\ Len(entries) \in Nat
           /\ DOMAIN entries = 1 .. Len(entries)
           /\ items \in Seq(Item) /\ Len(items) \in Nat /\ DOMAIN items = 1 .. Len(items)
           /\ \A i \in DOMAIN items : items[i].path \in Paths /\ items[i].entry \in DOMAIN entries
           /\ {MaxFiles, MaxTotal} \subseteq Nat
<1>1. entries \in Seq(Entry)
  BY PackageAssumption DEF TypeOK
<1>2. items \in Seq(Item)
  BY DEF TypeOK, Item, Paths, Names
<1> HIDE DEF Item
<1>3. \A i \in 1 .. Len(items) : items[i] \in Item
  BY <1>2
<1>4. \A i \in 1 .. Len(items) : items[i].path \in Paths /\ items[i].entry \in DOMAIN entries
  BY <1>3 DEF Item
<1> QED
  BY <1>1, <1>2, <1>4, LenProperties, LimitAssumption

\* What classify() calls no directory is what is wanted.
LEMMA WantedKinds ==
    ASSUME NEW package \in Package, NEW i \in DOMAIN package
    PROVE  i \in Wanted(package) <=> KindOf(package[i]) # "directory"
<1> DEFINE e == package[i]
<1>0. e \in Entry
  BY PackageAssumption
<1>1. e.host \in Host /\ e.mode \in Mode /\ e.slash \in BOOLEAN
  BY <1>0 DEF Entry
<1>2. i \in Wanted(package) <=> ~e.slash /\ (e.mode = "directory" => e.host = "unmapped")
  BY DEF Wanted
<1> HIDE DEF e
<1>3. KindOf(e) # "directory" <=> ~e.slash /\ (e.mode = "directory" => e.host = "unmapped")
  BY <1>1 DEF KindOf, Host, Mode
<1> QED
  BY <1>2, <1>3 DEF e

\* A sound entry has a name that can become a path.
LEMMA SoundName ==
    ASSUME NEW package \in Package, NEW i \in DOMAIN package, Sound(package[i])
    PROVE  package[i].name \in Paths /\ package[i].size \in Nat
<1> DEFINE e == package[i]
<1>1. e \in Entry /\ e.name # <<>>
  BY PackageAssumption
<1>2. /\ e.host \in Host /\ e.mode \in Mode /\ e.slash \in BOOLEAN
      /\ e.name \in Seq(Component) \cup {NotText} /\ e.size \in Nat
  BY <1>1 DEF Entry
<1> HIDE DEF e
<1>3. KindOf(e) # "directory" /\ KindFault(e) = "none"
  BY DEF Sound, e
<1>4. KindOf(e) \in {"directory", "unknown", "regular", "special", "link"}
  BY <1>2 DEF KindOf, Host, Mode
<1>5. e.name # NotText
  BY <1>3, <1>4 DEF KindFault
<1> QED
  BY <1>1, <1>2, <1>5 DEF Paths, Names, e

\* The directories of a plan are sorted paths.
LEMMA DirectoriesOfItems ==
    ASSUME TypeOK
    PROVE  LET S == UNION {Parents(items[i].path) : i \in DOMAIN items}
           IN  S \in SUBSET Paths /\ IsFiniteSet(S)
<1> DEFINE F == {Parents(items[i].path) : i \in DOMAIN items}
           f == [i \in DOMAIN items |-> Parents(items[i].path)]
<1>1. \A i \in DOMAIN items :
          Parents(items[i].path) \subseteq Paths /\ IsFiniteSet(Parents(items[i].path))
  BY Known, ParentFacts
<1>2. IsFiniteSet(DOMAIN items)
  BY Known, FS_Interval
<1>3. f \in Surjection(DOMAIN items, F)
  BY DEF Surjection
<1>4. IsFiniteSet(F)
  <2> HIDE DEF f, F
  <2> QED
    BY <1>2, <1>3, FS_Surjection
<1>5. \A T \in F : IsFiniteSet(T)
  BY <1>1
<1>6. IsFiniteSet(UNION F)
  <2> HIDE DEF F
  <2> QED
    BY <1>4, <1>5, FS_UNION
<1> QED
  BY <1>1, <1>6

\* What is said of the beginning of a package is said of its first entries.
LEMMA Beginning ==
    ASSUME TypeOK, NEW n \in DOMAIN entries
    PROVE  LET package == SubSeq(entries, 1, n)
           IN  /\ Wanted(package) = Passed(n + 1)
               /\ \A i \in Passed(n + 1) : package[i] = entries[i]
               /\ Bytes(package) = BytesPassed(n + 1)
<1> DEFINE package == SubSeq(entries, 1, n)
<1>1. entries \in Seq(Entry) /\ n \in 1 .. Len(entries) /\ Len(entries) \in Nat
      /\ DOMAIN entries = 1 .. Len(entries)
  BY Known
<1>2. /\ package \in Seq(Entry) /\ Len(package) = n
      /\ \A i \in 1 .. n : package[i] = entries[i]
  BY <1>1, SubSeqProperties
<1>3. DOMAIN package = 1 .. n
  BY <1>2
<1> HIDE DEF package
<1>4. Wanted(package) = Passed(n + 1)
  BY <1>1, <1>2, <1>3 DEF Wanted, Passed
<1>5. \A i \in Passed(n + 1) : package[i] = entries[i]
  BY <1>1, <1>2 DEF Wanted, Passed
<1>6. Bytes(package) = BytesPassed(n + 1)
  BY <1>4, <1>5 DEF Bytes, BytesPassed
<1> QED
  BY <1>4, <1>5, <1>6 DEF package

\* One more entry that is wanted.
LEMMA OneMore ==
    ASSUME IInv, next \in DOMAIN entries, Sound(entries[next])
    PROVE  /\ Passed(next + 1) = Passed(next) \cup {next} /\ next \in Passed(next + 1)
           /\ IsFiniteSet(Passed(next + 1))
           /\ Cardinality(Passed(next + 1)) = Len(items) + 1
           /\ IsFiniteSet(BytesPassed(next + 1))
           /\ Cardinality(BytesPassed(next + 1)) = total + entries[next].size
<1>1. next \in Nat /\ entries[next].size \in Nat /\ total \in Nat
  BY Known, SoundName DEF IInv, TypeOK
<1>2. next \in Wanted(entries)
  BY WantedKinds DEF Sound, IInv, TypeOK
<1>3. Passed(next + 1) = Passed(next) \cup {next} /\ next \notin Passed(next)
  BY <1>1, <1>2, Known DEF Passed, Wanted, IInv
<1>4. IsFiniteSet(Passed(next + 1)) /\ Cardinality(Passed(next + 1)) = Len(items) + 1
  BY <1>3, FS_AddElement DEF IInv, Totals
<1> DEFINE new == {next} \X (1 .. entries[next].size)
<1>5. BytesPassed(next + 1) = BytesPassed(next) \cup new
  BY <1>3 DEF BytesPassed
<1>6. BytesPassed(next) \cap new = {}
  BY <1>3 DEF BytesPassed
<1>7. IsFiniteSet(new) /\ Cardinality(new) = entries[next].size
  <2>1. IsFiniteSet({next}) /\ Cardinality({next}) = 1
    BY FS_Singleton
  <2>2. IsFiniteSet(1 .. entries[next].size)
        /\ Cardinality(1 .. entries[next].size) = entries[next].size
    <3> DEFINE n == entries[next].size
    <3>1. n \in Nat
      BY <1>1
    <3> HIDE DEF n
    <3>2. IsFiniteSet(1 .. n) /\ Cardinality(1 .. n) = IF 1 > n THEN 0 ELSE n - 1 + 1
      BY <3>1, FS_Interval
    <3>3. IsFiniteSet(1 .. n) /\ Cardinality(1 .. n) = n
      BY <3>1, <3>2
    <3> QED
      BY <3>3 DEF n
  <2> QED
    BY SMTT(30), <1>1, <2>1, <2>2, FS_Product
<1> HIDE DEF new
<1>8. IsFiniteSet(BytesPassed(next)) /\ Cardinality(BytesPassed(next)) = total
  BY DEF IInv, Totals
<1>9. /\ IsFiniteSet(BytesPassed(next + 1))
      /\ Cardinality(BytesPassed(next + 1)) = total + entries[next].size
  BY <1>1, <1>5, <1>6, <1>7, <1>8, FS_Union, FS_EmptySet
<1> QED
  BY <1>3, <1>4, <1>9

\* Folding goes component by component, so it keeps prefixes.
LEMMA FoldedPrefix ==
    ASSUME NEW p \in Paths, NEW q \in Paths
    PROVE  IsPrefix(Folded(p), Folded(q)) <=>
               \/ Folded(p) = Folded(q)
               \/ \E d \in Parents(q) : Folded(p) = Folded(d)
<1> DEFINE P == Folded(p)
           Q == Folded(q)
           U == {Key[c] : c \in Component}
<1>1. Len(p) \in Nat \ {0} /\ Len(q) \in Nat \ {0}
      /\ p \in Seq(Component) /\ q \in Seq(Component)
      /\ DOMAIN p = 1 .. Len(p) /\ DOMAIN q = 1 .. Len(q)
  BY DEF Paths, Names
<1>2. ASSUME NEW s \in Seq(Component)
      PROVE  /\ Folded(s) \in Seq(U) /\ Len(Folded(s)) = Len(s)
             /\ \A i \in 1 .. Len(s) : Folded(s)[i] = Key[s[i]]
  <2>1. Len(s) \in Nat /\ DOMAIN s = 1 .. Len(s) /\ \A i \in 1 .. Len(s) : s[i] \in Component
    OBVIOUS
  <2>2. Folded(s) \in [1 .. Len(s) -> U]
    BY <2>1 DEF Folded
  <2> QED
    BY <2>1, <2>2 DEF Folded
<1>3. /\ P \in Seq(U) /\ Len(P) = Len(p) /\ Q \in Seq(U) /\ Len(Q) = Len(q)
      /\ \A i \in 1 .. Len(q) : Q[i] = Key[q[i]]
  BY <1>1, <1>2
<1> HIDE DEF P, Q
<1>4. SubSeq(P, 1, Len(P)) = P
  BY <1>3, SubSeqFull
<1>5. ASSUME NEW n \in 1 .. Len(q)
      PROVE  SubSeq(Q, 1, n) = Folded(SubSeq(q, 1, n))
  <2>1. /\ SubSeq(q, 1, n) \in Seq(Component) /\ Len(SubSeq(q, 1, n)) = n
        /\ \A i \in 1 .. n : SubSeq(q, 1, n)[i] = q[i]
    BY <1>1, PrefixFacts DEF Names
  <2>2. /\ SubSeq(Q, 1, n) \in Seq(U) /\ Len(SubSeq(Q, 1, n)) = n
        /\ \A i \in 1 .. n : SubSeq(Q, 1, n)[i] = Q[i]
    BY <1>1, <1>3, SubSeqProperties
  <2>3. /\ Folded(SubSeq(q, 1, n)) \in Seq(U) /\ Len(Folded(SubSeq(q, 1, n))) = n
        /\ \A i \in 1 .. n : Folded(SubSeq(q, 1, n))[i] = Key[q[i]]
    <3> DEFINE s == SubSeq(q, 1, n)
    <3> HIDE DEF s, U
    <3>1. s \in Seq(Component) /\ Len(s) = n /\ \A i \in 1 .. n : s[i] = q[i]
      BY <2>1 DEF s
    <3>2. /\ Folded(s) \in Seq(U) /\ Len(Folded(s)) = n
          /\ \A i \in 1 .. n : Folded(s)[i] = Key[s[i]]
      BY <1>2, <3>1
    <3>3. \A i \in 1 .. n : Folded(s)[i] = Key[q[i]]
      BY <3>1, <3>2
    <3> QED
      BY <3>2, <3>3 DEF s
  <2>4. \A i \in 1 .. n : SubSeq(Q, 1, n)[i] = Folded(SubSeq(q, 1, n))[i]
    BY SMTT(30), <1>1, <1>3, <2>2, <2>3
  <2> HIDE DEF U
  <2> QED
    BY <2>2, <2>3, <2>4, SeqEqual
<1>6. IsPrefix(P, Q) <=> Len(p) <= Len(q) /\ P = SubSeq(Q, 1, Len(p))
  BY <1>3, <1>4 DEF IsPrefix
<1>7. SubSeq(Q, 1, Len(q)) = Q
  BY <1>3, SubSeqFull
<1>8. ASSUME IsPrefix(P, Q)
      PROVE  P = Q \/ \E d \in Parents(q) : P = Folded(d)
  <2>1. CASE Len(p) = Len(q)
    BY <1>6, <1>7, <1>8, <2>1
  <2>2. CASE Len(p) < Len(q)
    <3>1. Len(p) \in 1 .. Len(q) - 1 /\ Len(p) \in 1 .. Len(q)
      BY <1>1, <2>2
    <3>2. P = Folded(SubSeq(q, 1, Len(p)))
      BY <1>5, <1>6, <1>8, <3>1
    <3> QED
      BY <3>1, <3>2 DEF Parents
  <2>3. Len(p) <= Len(q)
    BY <1>6, <1>8
  <2>4. Len(p) = Len(q) \/ Len(p) < Len(q)
    <3>1. Len(p) \in Nat /\ Len(q) \in Nat
      BY <1>1
    <3> QED
      BY ONLY <2>3, <3>1
  <2> QED
    BY <2>1, <2>2, <2>4
<1>9. ASSUME P = Q PROVE IsPrefix(P, Q)
  <2>1. Len(p) = Len(q)
    BY <1>3, <1>9
  <2> QED
    BY <1>1, <1>6, <1>7, <1>9, <2>1
<1>10. ASSUME NEW d \in Parents(q), P = Folded(d)
       PROVE  IsPrefix(P, Q)
  <2>1. PICK n \in 1 .. Len(q) - 1 : d = SubSeq(q, 1, n)
    BY DEF Parents
  <2>2. n \in 1 .. Len(q)
    BY <1>1, <2>1
  <2>3. P = SubSeq(Q, 1, n)
    BY <1>5, <1>10, <2>1, <2>2
  <2>4. Len(SubSeq(Q, 1, n)) = n
    BY <1>1, <1>3, <2>2, SubSeqProperties
  <2>5. Len(p) = n
    BY <1>3, <2>3, <2>4
  <2> QED
    BY <1>1, <1>6, <2>2, <2>3, <2>5
<1> QED
  BY <1>8, <1>9, <1>10 DEF P, Q

\* A path and a parent of it do not fold to the same.
LEMMA FoldedShorter ==
    ASSUME NEW q \in Paths, NEW d \in Parents(q)
    PROVE  Folded(q) # Folded(d)
<1>1. PICK n \in 1 .. Len(q) - 1 : d = SubSeq(q, 1, n)
  BY DEF Parents
<1>2. Len(q) \in Nat /\ q \in Names /\ n \in 0 .. Len(q)
  BY <1>1 DEF Paths, Names
<1>3. Len(d) = n /\ d \in Names
  BY <1>1, <1>2, PrefixFacts
<1>4. DOMAIN Folded(q) = 1 .. Len(q) /\ DOMAIN Folded(d) = 1 .. n
  BY <1>2, <1>3 DEF Folded, Names
<1>5. Len(q) \in 1 .. Len(q) /\ Len(q) \notin 1 .. n
  BY <1>1, <1>2
<1> QED
  BY <1>4, <1>5

LEMMA InitIInv == Init => IInv
<1> SUFFICES ASSUME Init PROVE IInv
  OBVIOUS
<1>1. Len(entries) \in Nat /\ DOMAIN entries = 1 .. Len(entries)
  BY PackageAssumption DEF Init
<1>2. TypeOK
  BY <1>1, LimitAssumption DEF Init, TypeOK, NoRefusal
<1>3. Passed(next) = {} /\ BytesPassed(next) = {}
  BY <1>1 DEF Init, Passed, BytesPassed, Wanted
<1>4. Totals
  BY <1>3, FS_EmptySet DEF Init, Totals
<1> QED
  BY <1>1, <1>2, <1>4 DEF Init, IInv, Scanned, Planned, Refused, Wanted

LEMMA RefuseIInv ==
    ASSUME IInv, NEW code, NEW i \in DOMAIN entries, Refuse(code, i),
           ~Extractable(SubSeq(entries, 1, i))
    PROVE  IInv'
<1>1. TypeOK'
  BY Known DEF IInv, TypeOK, Refuse
<1>2. Scanned'
  BY DEF IInv, Scanned, Refuse, Wanted
<1>3. Totals'
  BY DEF IInv, Totals, Passed, BytesPassed, Refuse, Wanted
<1>4. Planned' /\ Refused'
  BY DEF Planned, Refused, Refuse
<1> QED
  BY <1>1, <1>2, <1>3, <1>4 DEF IInv

LEMMA SkipIInv ==
    ASSUME IInv, Skip
    PROVE  IInv'
<1> USE DEF IInv, Skip
<1>1. TypeOK'
  BY Known DEF TypeOK
<1>0. next \notin Wanted(entries)
  BY WantedKinds DEF Skip, IInv, TypeOK
<1>2. \A i \in Wanted(entries) : i < next + 1 <=> i < next
  BY <1>0, Known DEF Wanted, IInv, TypeOK
<1>3. Passed(next + 1) = Passed(next) /\ BytesPassed(next + 1) = BytesPassed(next)
  BY <1>2 DEF Passed, BytesPassed
<1>4. Totals'
  BY <1>3 DEF Totals, Passed, BytesPassed, Wanted
<1>5. Scanned'
  BY <1>2 DEF Scanned, Wanted
<1> QED
  BY <1>1, <1>4, <1>5 DEF Planned, Refused

LEMMA RefuseEntryIInv ==
    ASSUME IInv, RefuseEntry
    PROVE  IInv'
<1> DEFINE package == SubSeq(entries, 1, next)
<1>1. next \in DOMAIN entries /\ KindOf(entries[next]) # "directory" /\ ~Sound(entries[next])
  BY DEF RefuseEntry, Sound
<1>2. next \in Passed(next + 1)
  BY <1>1, Known, WantedKinds DEF IInv, Passed, TypeOK
<1>3. next \in Wanted(package) /\ package[next] = entries[next]
  BY <1>1, <1>2, Beginning DEF IInv
<1>4. ~Extractable(package)
  BY <1>1, <1>3 DEF Extractable
<1> QED
  BY <1>1, <1>4, RefuseIInv DEF RefuseEntry

LEMMA RefuseTotalsIInv ==
    ASSUME IInv, RefuseTotals
    PROVE  IInv'
<1> DEFINE package == SubSeq(entries, 1, next)
<1>1. /\ next \in DOMAIN entries /\ Sound(entries[next])
      /\ ~Room \/ ~Fits(entries[next].size)
  BY DEF RefuseTotals
<1>2. /\ Cardinality(Wanted(package)) = Len(items) + 1
      /\ Cardinality(Bytes(package)) = total + entries[next].size
  BY <1>1, OneMore, Beginning DEF IInv
<1>3. entries[next].size \in Nat /\ total \in Nat /\ Len(items) \in Nat
  BY <1>1, Known, SoundName DEF IInv, TypeOK
<1>4. ~(Len(items) + 1 <= MaxFiles) \/ ~(total + entries[next].size <= MaxTotal)
  BY <1>1, <1>3, LimitAssumption DEF Room, Fits
<1>5. ~Extractable(package)
  BY <1>2, <1>4 DEF Extractable
<1> QED
  BY <1>1, <1>5, RefuseIInv DEF RefuseTotals

LEMMA PlanIInv ==
    ASSUME IInv, PlanEntry
    PROVE  IInv'
<1> DEFINE new == [entry |-> next, path |-> entries[next].name]
<1>1. /\ phase = "entries" /\ next \in DOMAIN entries
      /\ Sound(entries[next]) /\ Len(items) < MaxFiles
      /\ total + entries[next].size <= MaxTotal
      /\ items' = Append(items, new) /\ total' = total + entries[next].size
      /\ next' = next + 1
      /\ UNCHANGED <<entries, directories, phase, refusal>>
  BY DEF PlanEntry, Room, Fits
<1>2. entries[next].name \in Paths /\ entries[next].size \in Nat
  BY <1>1, SoundName DEF IInv, TypeOK
<1>3. /\ items \in Seq(Item) /\ Len(items) \in Nat /\ new \in Item
      /\ next \in Nat /\ total \in Nat /\ DOMAIN items = 1 .. Len(items)
      /\ Len(entries) \in Nat /\ DOMAIN entries = 1 .. Len(entries)
  BY <1>1, <1>2, Known DEF IInv, TypeOK, Item
<1> HIDE DEF new
<1>4. /\ items' \in Seq(Item) /\ Len(items') = Len(items) + 1
      /\ DOMAIN items' = 1 .. Len(items) + 1
      /\ \A i \in 1 .. Len(items) : items'[i] = items[i]
      /\ items'[Len(items) + 1] = new
  BY <1>1, <1>3, AppendProperties
<1>5. new.entry = next /\ new.path = entries[next].name
  BY DEF new
<1>6. TypeOK'
  <2>1. Len(items') <= MaxFiles
    BY <1>1, <1>3, <1>4, LimitAssumption
  <2>2. total' \in 0 .. MaxTotal
    BY <1>1, <1>2, <1>3, LimitAssumption
  <2>3. next' \in 1 .. Len(entries') + 1
    BY <1>1, <1>3
  <2> QED
    BY <1>1, <1>4, <2>1, <2>2, <2>3 DEF IInv, TypeOK, Item, Paths, Names
<1>7. Scanned'
  <2>1. next \in Wanted(entries)
    BY <1>1, WantedKinds DEF Sound, IInv, TypeOK
  <2>2. {items'[i].entry : i \in DOMAIN items'} = {items[i].entry : i \in DOMAIN items} \cup {next}
    BY <1>3, <1>4, <1>5
  <2>3. {i \in Wanted(entries) : i < next + 1} = {i \in Wanted(entries) : i < next} \cup {next}
    BY <1>3, <2>1 DEF Wanted
  <2>4. \A i \in DOMAIN items : items[i].entry < next
    BY DEF IInv, Scanned
  <2>5. \A i, j \in DOMAIN items' : i < j => items'[i].entry < items'[j].entry
    BY <1>3, <1>4, <1>5, <2>4 DEF IInv, Scanned
  <2>6. \A i \in DOMAIN items' : items'[i].path = entries[items'[i].entry].name
    BY <1>3, <1>4, <1>5 DEF IInv, Scanned
  <2>7. \A i \in Wanted(entries) : i < next + 1 => Sound(entries[i])
    BY <1>1, <1>3 DEF IInv, Scanned, Wanted
  <2> QED
    BY <1>1, <2>2, <2>3, <2>5, <2>6, <2>7 DEF IInv, Scanned
<1>8. Totals'
  <2>1. Passed(next)' = Passed(next + 1) /\ BytesPassed(next)' = BytesPassed(next + 1)
    BY <1>1 DEF Passed, BytesPassed
  <2> QED
    BY <1>1, <1>4, <2>1, OneMore DEF Totals
<1>9. Planned' /\ Refused'
  BY <1>1 DEF Planned, Refused
<1> QED
  BY <1>6, <1>7, <1>8, <1>9 DEF IInv

LEMMA EndIInv ==
    ASSUME IInv, EntriesEnd
    PROVE  IInv'
<1>1. TypeOK'
  BY DEF IInv, TypeOK, EntriesEnd
<1>2. next = Len(entries) + 1
  <2>1. Len(entries) \in Nat /\ next \in 1 .. Len(entries) + 1
    BY Known DEF IInv, TypeOK
  <2> QED
    BY <2>1 DEF EntriesEnd
<1>3. Totals'
  BY DEF IInv, Totals, Passed, BytesPassed, EntriesEnd, Wanted
<1> QED
  BY <1>1, <1>2, <1>3 DEF IInv, Scanned, Planned, Refused, EntriesEnd, Wanted

\* Two items of which the one is a prefix of the other refuse every package
\* that has both.
LEMMA ItemsClash ==
    ASSUME IInv, NEW i \in DOMAIN items, NEW j \in DOMAIN items,
           items[i].entry # items[j].entry,
           IsPrefix(Folded(items[i].path), Folded(items[j].path)),
           NEW n \in DOMAIN entries, items[i].entry <= n, items[j].entry <= n
    PROVE  ~Extractable(SubSeq(entries, 1, n))
<1> DEFINE package == SubSeq(entries, 1, n)
<1>1. items[i].entry \in Wanted(entries) /\ items[j].entry \in Wanted(entries)
  BY DEF IInv, Scanned
<1>2. items[i].entry \in Passed(n + 1) /\ items[j].entry \in Passed(n + 1)
  BY <1>1, Known DEF IInv, Passed, Wanted
<1>3. /\ items[i].entry \in Wanted(package) /\ items[j].entry \in Wanted(package)
      /\ package[items[i].entry].name = items[i].path
      /\ package[items[j].entry].name = items[j].path
  BY <1>2, Beginning DEF IInv, Scanned
<1> HIDE DEF package
<1>4. ~Extractable(package)
  BY <1>3 DEF Extractable
<1> QED
  BY <1>4 DEF package

LEMMA CollisionIInv ==
    ASSUME IInv, RefuseCollision
    PROVE  IInv'
<1> DEFINE later == {pair[2] : pair \in Twins}
<1>1. TypeOK /\ Twins # {} /\ Refuse("ambiguous.collision", items[Min(later)].entry)
  BY DEF IInv, RefuseCollision
<1>2. later \subseteq DOMAIN items /\ later # {} /\ later \subseteq Nat
  BY SMTT(30), <1>1, Known DEF Twins
<1>3. Min(later) \in DOMAIN items
  <2> HIDE DEF later
  <2> QED
    BY <1>2, MinFacts
<1> DEFINE j == Min(later)
<1>4. PICK i \in DOMAIN items :
          i < j /\ Folded(items[i].path) = Folded(items[j].path)
  <2>1. j \in later
    <3> HIDE DEF later
    <3> QED
      BY <1>2, MinFacts
  <2> HIDE DEF j
  <2>2. PICK pair \in Twins : pair[2] = j
    BY <2>1
  <2> QED
    BY <2>2 DEF Twins
<1> HIDE DEF j
<1>5. j \in DOMAIN items
  BY <1>3 DEF j
<1>6. items[i].entry < items[j].entry
  BY <1>4, <1>5 DEF IInv, Scanned
<1>7. ~Extractable(SubSeq(entries, 1, items[j].entry))
  BY <1>4, <1>5, <1>6, FoldedPrefix, Known, ItemsClash DEF IInv
<1> QED
  BY <1>1, <1>5, <1>7, Known, RefuseIInv DEF j

LEMMA ConflictIInv ==
    ASSUME IInv, RefuseConflict
    PROVE  IInv'
<1>1. TypeOK
  BY DEF IInv
<1>2. PICK j \in DOMAIN items :
          /\ Blockers(j) # {}
          /\ Refuse("ambiguous.file_directory_conflict",
                    Max({items[j].entry, items[FirstBlocker(j)].entry}))
  BY DEF RefuseConflict
<1> DEFINE lengths == {Len(items[i].path) : i \in Blockers(j)}
<1>3. Blockers(j) \subseteq DOMAIN items
  BY DEF Blockers
<1>4. lengths \subseteq Nat /\ lengths # {}
  <2>1. \A i \in DOMAIN items : items[i].path \in Seq(Component)
    BY <1>1, Known DEF Paths, Names
  <2>2. \A i \in DOMAIN items : Len(items[i].path) \in Nat
    BY <2>1, LenProperties
  <2> QED
    BY <1>2, <1>3, <2>2
<1>5. PICK m \in lengths : \A n \in lengths : m <= n
  <2> HIDE DEF lengths
  <2> QED
    BY <1>4, LeastNumber
<1>6. FirstBlocker(j) \in DOMAIN items
  BY <1>3, <1>5 DEF FirstBlocker
<1>7. items[j].entry \in DOMAIN entries /\ items[FirstBlocker(j)].entry \in DOMAIN entries
  BY <1>1, <1>6, Known
<1>8. Max({items[j].entry, items[FirstBlocker(j)].entry}) \in DOMAIN entries
  <2>1. items[j].entry \in Nat /\ items[FirstBlocker(j)].entry \in Nat
    BY <1>1, <1>7, Known
  <2> QED
    BY <1>7, <2>1, MaxOfTwo
<1> DEFINE i == FirstBlocker(j)
           n == Max({items[j].entry, items[i].entry})
<1>9. i \in Blockers(j)
  BY <1>3, <1>5 DEF FirstBlocker
<1>10. items[j].entry <= n /\ items[i].entry <= n
  <2>1. items[j].entry \in Nat /\ items[i].entry \in Nat
    BY <1>1, <1>7, Known
  <2> QED
    BY <2>1, MaxOfTwo
<1>11. PICK d \in Parents(items[j].path) : Folded(items[i].path) = Folded(d)
  BY <1>9 DEF Blockers
<1> HIDE DEF i, n
<1>12. i \in DOMAIN items /\ items[i].path \in Paths /\ items[j].path \in Paths
  BY <1>1, <1>6, Known DEF i
<1>13. IsPrefix(Folded(items[i].path), Folded(items[j].path))
  BY <1>11, <1>12, FoldedPrefix
<1>14. items[i].entry # items[j].entry
  <2>1. items[i].path # items[j].path
    BY <1>11, <1>12, FoldedShorter
  <2> QED
    BY <1>12, <2>1 DEF IInv, Scanned
<1>15. n \in DOMAIN entries
  BY <1>8 DEF i, n
<1>16. ~Extractable(SubSeq(entries, 1, n))
  BY <1>10, <1>12, <1>13, <1>14, <1>15, ItemsClash
<1> QED
  BY <1>2, <1>15, <1>16, RefuseIInv DEF i, n

LEMMA DeliverIInv ==
    ASSUME IInv, Deliver
    PROVE  IInv'
<1> DEFINE S == UNION {Parents(items[i].path) : i \in DOMAIN items}
<1>1. S \in SUBSET Paths /\ IsFiniteSet(S)
  BY DirectoriesOfItems DEF IInv
<1>2. directories' = Sorted(S)
  BY DEF Deliver
<1>3. directories' \in Seq(Paths)
  <2> HIDE DEF S
  <2>1. S \in SUBSET Names
    BY <1>1 DEF Paths
  <2>2. directories' \in Seq(S)
    BY <1>1, <1>2, <2>1, SortedFacts
  <2> QED
    BY <1>1, <2>2, SeqMonotonic
<1>4. TypeOK'
  BY <1>3 DEF IInv, TypeOK, Deliver, Paths, Names
<1>5. Scanned'
  BY DEF IInv, Scanned, Deliver, Wanted
<1>6. Planned'
  BY DEF Planned, Deliver, Twins, Blockers
<1>7. Totals' /\ Refused'
  BY DEF IInv, Totals, Refused, Passed, BytesPassed, Deliver, Wanted
<1> QED
  BY <1>4, <1>5, <1>6, <1>7 DEF IInv

LEMMA NextIInv ==
    ASSUME IInv, [Next]_vars
    PROVE  IInv'
<1>1. CASE UNCHANGED vars
  <2>1. TypeOK' /\ Scanned'
    BY <1>1 DEF vars, IInv, TypeOK, Scanned, Wanted
  <2>2. Totals'
    BY <1>1 DEF vars, IInv, Totals, Passed, BytesPassed, Wanted
  <2>3. Planned' /\ Refused'
    BY <1>1 DEF vars, IInv, Planned, Refused, Twins, Blockers
  <2> QED
    BY <2>1, <2>2, <2>3 DEF IInv
<1> QED
  BY <1>1, SkipIInv, RefuseEntryIInv, RefuseTotalsIInv, PlanIInv, EndIInv, CollisionIInv,
     ConflictIInv, DeliverIInv DEF Next, Decided

LEMMA Invariant == Spec => []IInv
<1>1. IInv /\ [Next]_vars => IInv'
  BY NextIInv
<1> QED
  BY <1>1, InitIInv, PTL DEF Spec

-----------------------------------------------------------------------------
(* What a plan promises.                                                   *)

\* Every variable holds a value of its kind, and the number of items and the
\* total of their sizes stay within the ceilings.
THEOREM TypeCorrect == Spec => []TypeOK
PROOF
BY Invariant, PTL DEF IInv

\* A plan has every entry that is no directory, once, in the order of the
\* inventory and under its own name: the loop loses nothing.
THEOREM FilesArePlanned == Spec => []EveryFileIsPlanned
PROOF
<1>1. IInv => EveryFileIsPlanned
  <2> SUFFICES ASSUME IInv, phase = "planned" PROVE EveryFileIsPlanned
    BY DEF EveryFileIsPlanned
  <2>1. \A i \in Wanted(entries) : i < next
    BY Known DEF IInv, Scanned, Wanted
  <2> QED
    BY <2>1 DEF IInv, Scanned, EveryFileIsPlanned
<1> QED
  BY <1>1, Invariant, PTL

\* What holds of the directories of a delivered plan.
LEMMA DirectoryFacts ==
    ASSUME IInv, phase = "planned"
    PROVE  LET S == UNION {Parents(items[i].path) : i \in DOMAIN items}
           IN  /\ S \in SUBSET Paths
               /\ DOMAIN directories = 1 .. Len(directories) /\ Len(directories) \in Nat
               /\ \A k \in DOMAIN directories : directories[k] \in S
               /\ \A p \in S : \E k \in DOMAIN directories : directories[k] = p
               /\ \A j, k \in DOMAIN directories : j # k => directories[j] # directories[k]
               /\ \A j, k \in DOMAIN directories :
                     directories[j] \in Parents(directories[k]) => j < k
<1> DEFINE S == UNION {Parents(items[i].path) : i \in DOMAIN items}
<1>1. S \in SUBSET Paths /\ IsFiniteSet(S)
  BY DirectoriesOfItems DEF IInv
<1>2. directories = Sorted(S)
  BY DEF IInv, Planned
<1> HIDE DEF S
<1>3. S \in SUBSET Names
  BY <1>1 DEF Paths
<1>4. /\ directories \in Seq(S)
      /\ \A p \in S : \E k \in 1 .. Len(directories) : directories[k] = p
      /\ \A j, k \in 1 .. Len(directories) : j # k => directories[j] # directories[k]
      /\ \A j, k \in 1 .. Len(directories) :
            Before(directories[j], directories[k]) => j < k
  BY <1>1, <1>2, <1>3, SortedFacts
<1>5. /\ DOMAIN directories = 1 .. Len(directories) /\ Len(directories) \in Nat
      /\ \A k \in DOMAIN directories : directories[k] \in S
  BY <1>4
<1>6. ASSUME NEW j \in DOMAIN directories, NEW k \in DOMAIN directories,
             directories[j] \in Parents(directories[k])
      PROVE  j < k
  <2>1. directories[k] \in Paths
    BY <1>1, <1>5
  <2>2. Before(directories[j], directories[k])
    BY <1>6, <2>1, ParentFacts
  <2> QED
    BY <1>4, <1>5, <2>2
<1> QED
  BY <1>1, <1>4, <1>5, <1>6 DEF S

\* The directories of a plan are exactly the parents of its files, each once
\* and after its own parents: what the writer relies on, which creates them in
\* this order and nothing else.
THEOREM DirectoriesAreParents == Spec => []DirectoriesAreTheParents
PROOF
<1>1. IInv => DirectoriesAreTheParents
  <2> SUFFICES ASSUME IInv, phase = "planned" PROVE DirectoriesAreTheParents
    BY DEF DirectoriesAreTheParents
  <2> QED
    BY DirectoryFacts DEF DirectoriesAreTheParents, ToSet
<1> QED
  BY <1>1, Invariant, PTL

\* A plan can be carried out where names are compared folded: no file stands
\* where a directory has to go, every parent is there in time, and no two files
\* meet (collisions.rs).
THEOREM PlansAreRealisable == Spec => []CanBeCarriedOut
PROOF
<1>1. IInv => CanBeCarriedOut
  <2> SUFFICES ASSUME IInv, phase = "planned" PROVE CanBeCarriedOut
    BY DEF CanBeCarriedOut
  <2> DEFINE S == UNION {Parents(items[i].path) : i \in DOMAIN items}
  <2>1. ASSUME NEW k \in DOMAIN directories
        PROVE  \E j \in DOMAIN items : directories[k] \in Parents(items[j].path)
    BY DirectoryFacts
  <2>2. ASSUME NEW k \in DOMAIN directories, NEW i \in DOMAIN items
        PROVE  Folded(items[i].path) # Folded(directories[k])
    <3>1. PICK j \in DOMAIN items : directories[k] \in Parents(items[j].path)
      BY <2>1
    <3>2. Blockers(j) = {}
      BY DEF IInv, Planned
    <3> QED
      BY <3>1, <3>2 DEF Blockers
  <2>3. ASSUME NEW k \in DOMAIN directories, Len(directories[k]) > 1
        PROVE  \E j \in 1 .. k - 1 : Folded(directories[j]) = Folded(Front(directories[k]))
    <3>1. PICK i \in DOMAIN items : directories[k] \in Parents(items[i].path)
      BY <2>1
    <3>2. items[i].path \in Paths /\ directories[k] \in Paths
      BY Known, DirectoryFacts DEF IInv
    <3>3. Front(directories[k]) \in Parents(directories[k])
      BY <2>3, <3>2, ParentFacts
    <3>4. Front(directories[k]) \in S
      BY <3>1, <3>2, <3>3, ParentFacts
    <3>5. PICK j \in DOMAIN directories : directories[j] = Front(directories[k])
      BY <3>4, DirectoryFacts
    <3>6. j < k /\ j \in Nat /\ k \in Nat /\ 1 <= j
      BY <3>3, <3>5, DirectoryFacts
    <3> QED
      BY <3>5, <3>6
  <2>4. ASSUME NEW i \in DOMAIN items, NEW j \in DOMAIN items,
               Folded(items[i].path) = Folded(items[j].path)
        PROVE  i = j
    <3>1. i \in Nat /\ j \in Nat
      BY Known DEF IInv
    <3>2. <<i, j>> \notin Twins /\ <<j, i>> \notin Twins
      BY DEF IInv, Planned
    <3>3. ~(i < j) /\ ~(j < i)
      BY <2>4, <3>2 DEF Twins
    <3> QED
      BY <3>1, <3>3
  <2> QED
    BY <2>2, <2>3, <2>4 DEF CanBeCarriedOut
<1> QED
  BY <1>1, Invariant, PTL

\* A plan is delivered for packages that can be extracted only, and a refusal
\* names an entry with which the package, read that far, cannot be any more.
THEOREM VerdictsAreExact == Spec => []VerdictIsExact
PROOF
<1>1. ASSUME IInv, phase = "planned" PROVE Extractable(entries)
  <2>1. next = Len(entries) + 1 /\ Len(entries) \in Nat /\ DOMAIN entries = 1 .. Len(entries)
    BY <1>1, Known DEF IInv, Scanned
  <2>2. Passed(next) = Wanted(entries)
    BY <2>1 DEF Passed, Wanted
  <2>3. BytesPassed(next) = Bytes(entries)
    BY <2>2 DEF BytesPassed, Bytes
  <2>4. /\ Cardinality(Wanted(entries)) <= MaxFiles
        /\ Cardinality(Bytes(entries)) <= MaxTotal
    BY <1>1, <2>2, <2>3, LimitAssumption DEF IInv, Totals, TypeOK
  <2>5. \A i \in Wanted(entries) : Sound(entries[i])
    BY <1>1, <2>2 DEF IInv, Scanned, Passed
  <2>6. ASSUME NEW k \in Wanted(entries), NEW l \in Wanted(entries), k # l,
               IsPrefix(Folded(entries[k].name), Folded(entries[l].name))
        PROVE  FALSE
    <3>1. PICK i \in DOMAIN items, j \in DOMAIN items : items[i].entry = k /\ items[j].entry = l
      BY <1>1, <2>2 DEF IInv, Scanned, Passed
    <3>2. /\ items[i].path = entries[k].name /\ items[j].path = entries[l].name
          /\ items[i].path \in Paths /\ items[j].path \in Paths
      BY <1>1, <3>1, Known DEF IInv, Scanned
    <3>3. CASE Folded(items[i].path) = Folded(items[j].path)
      <4>1. i # j /\ i \in Nat /\ j \in Nat
        BY <1>1, <2>6, <3>1, Known DEF IInv
      <4>2. <<i, j>> \notin Twins /\ <<j, i>> \notin Twins
        BY <1>1 DEF IInv, Planned
      <4>3. ~(i < j) /\ ~(j < i)
        BY <3>3, <4>2 DEF Twins
      <4> QED
        BY <4>1, <4>3
    <3>4. ASSUME NEW d \in Parents(items[j].path), Folded(items[i].path) = Folded(d)
          PROVE  FALSE
      <4>1. i \in Blockers(j)
        BY <3>4 DEF Blockers
      <4> QED
        BY <1>1, <4>1 DEF IInv, Planned
    <3> QED
      BY <2>6, <3>2, <3>3, <3>4, FoldedPrefix
  <2> QED
    BY <2>4, <2>5, <2>6 DEF Extractable
<1>2. IInv => VerdictIsExact
  BY <1>1 DEF VerdictIsExact, IInv, Refused
<1> QED
  BY <1>2, Invariant, PTL
=============================================================================
