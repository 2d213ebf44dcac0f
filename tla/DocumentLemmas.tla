--------------------------- MODULE DocumentLemmas ---------------------------
(***************************************************************************)
(* Documents and the sequences they are made of, for every alphabet and    *)
(* every limit: the elements a document has, where each of them closes and *)
(* what it is to the grammar; the faults of an event; and that a document  *)
(* cut off at the end of its first element says what the whole one says.   *)
(***************************************************************************)
EXTENDS DocumentWriter, FiniteSetTheorems, TLAPS

-----------------------------------------------------------------------------
(* Least numbers, and running totals.                                      *)

\* A set of numbers has a least one.
LEMMA LeastNumber ==
    ASSUME NEW T, T \subseteq Nat, T # {}
    PROVE  \E m \in T : \A n \in T : m <= n
<1>1. PICK R : /\ IsWellFoundedOn(R, Nat)
               /\ \A m, n \in Nat : n < m => <<n, m>> \in R
    <2> WITNESS OpToRel(<, Nat)
    <2>1. IsWellFoundedOn(OpToRel(<, Nat), Nat)
        BY NatLessThanWellFounded
    <2>2. ASSUME NEW m \in Nat, NEW n \in Nat, n < m PROVE <<n, m>> \in OpToRel(<, Nat)
        <3>1. <<n, m>> \in {p \in Nat \X Nat : p[1] < p[2]}
            BY <2>2
        <3> QED BY <3>1, Zenon DEF OpToRel
    <2> QED BY <2>1, <2>2, Zenon
<1>2. PICK m \in T : \A n \in T : <<n, m>> \notin R
    BY <1>1, WFMin
<1>3. \A n \in T : ~(n < m)
    BY <1>1, <1>2
<1> QED BY <1>2, <1>3

\* A set of numbers below a bound has a greatest one.
LEMMA GreatestNumber ==
    ASSUME NEW N \in Nat, NEW T, T \subseteq 0 .. N, T # {}
    PROVE  \E m \in T : \A n \in T : n <= m
<1> DEFINE back == {N - i : i \in T}
<1>1. back \subseteq Nat /\ back # {}
  <2>1. \A i \in T : N - i \in Nat
    OBVIOUS
  <2>2. PICK i : i \in T
    OBVIOUS
  <2>3. N - i \in back
    BY <2>2
  <2> QED
    BY <2>1, <2>3
<1>2. PICK m \in back : \A n \in back : m <= n
  <2> HIDE DEF back
  <2> QED
    BY <1>1, LeastNumber
<1>3. PICK i \in T : m = N - i
  BY <1>2
<1>4. \A n \in T : n <= i
  <2> TAKE n \in T
  <2>1. N - n \in back
    OBVIOUS
  <2>2. m <= N - n
    BY <1>2, <2>1
  <2> QED
    BY <1>3, <2>2
<1> QED
  BY <1>3, <1>4

\* The running total of a function of numbers, and what it ranges over.
RunsOver(h, f, N) ==
    /\ DOMAIN h = 0 .. N /\ h = [n \in 0 .. N |-> h[n]]
    /\ h[0] = 0 /\ \A n \in 1 .. N : h[n] = h[n - 1] + f[n]

LEMMA TotalExists ==
    ASSUME NEW N \in Nat, NEW f
    PROVE  \E h : RunsOver(h, f, N)
<1> DEFINE B == {n \in Nat : ~\E h : RunsOver(h, f, n)}
<1>1. CASE B = {}
    BY <1>1
<1>2. CASE B # {}
    <2>1. PICK m \in B : \A n \in B : m <= n
        <3>1. B \subseteq Nat
            OBVIOUS
        <3> HIDE DEF B
        <3> QED BY <1>2, <3>1, LeastNumber
    <2>2. m # 0
        <3>1. RunsOver([n \in 0 .. 0 |-> 0], f, 0)
            BY DEF RunsOver
        <3> QED BY <2>1, <3>1
    <2>3. m - 1 \in Nat /\ m - 1 \notin B
        BY <2>1, <2>2
    <2>4. PICK h : RunsOver(h, f, m - 1)
        BY <2>3
    <2> DEFINE k == [n \in 0 .. m |-> IF n = m THEN h[m - 1] + f[m] ELSE h[n]]
    <2>5. DOMAIN k = 0 .. m /\ k = [n \in 0 .. m |-> k[n]]
        OBVIOUS
    <2>6. k[0] = 0
        BY <2>2, <2>4 DEF RunsOver
    <2>7. ASSUME NEW n \in 1 .. m PROVE k[n] = k[n - 1] + f[n]
        <3>1. n - 1 \in 0 .. m /\ n \in 0 .. m /\ n - 1 # m /\ k[n - 1] = h[n - 1]
            BY <2>3
        <3>2. CASE n = m
            BY <3>1, <3>2
        <3>3. CASE n # m
            <4>1. n \in 1 .. m - 1 /\ k[n] = h[n]
                BY <2>3, <3>1, <3>3
            <4> QED BY <2>4, <3>1, <4>1 DEF RunsOver
        <3> QED BY <3>2, <3>3
    <2> HIDE DEF k
    <2>8. RunsOver(k, f, m)
        BY <2>5, <2>6, <2>7 DEF RunsOver
    <2> QED BY <2>1, <2>8
<1> QED BY <1>1, <1>2

LEMMA SameFunction ==
    ASSUME NEW D, NEW g, NEW h, g = [n \in D |-> g[n]], h = [n \in D |-> h[n]],
           \A n \in D : h[n] = g[n]
    PROVE  h = g
OBVIOUS

\* What a running total ranges over.
LEMMA TotalsIn ==
    ASSUME NEW N \in Nat, NEW f, NEW S, 0 \in S, \A a, b \in S : a + b \in S,
           \A n \in 1 .. N : f[n] \in S,
           NEW h, h[0] = 0, \A n \in 1 .. N : h[n] = h[n - 1] + f[n]
    PROVE  \A n \in 0 .. N : h[n] \in S
<1> DEFINE B == {n \in 0 .. N : h[n] \notin S}
<1>1. CASE B = {}
    BY <1>1
<1>2. CASE B # {}
    <2>1. PICK m \in B : \A n \in B : m <= n
        <3>1. B \subseteq Nat
            OBVIOUS
        <3> HIDE DEF B
        <3> QED BY <1>2, <3>1, LeastNumber
    <2>2. m \in 1 .. N /\ m - 1 \in 0 .. N /\ m - 1 \notin B
        BY <2>1
    <2>3. h[m - 1] \in S /\ f[m] \in S /\ h[m] = h[m - 1] + f[m]
        BY <2>2
    <2> QED BY <2>1, <2>3
<1> QED BY <1>1, <1>2

-----------------------------------------------------------------------------
(* Sequences, joined.                                                      *)

\* A sequence of some set or other.
IsSequence(s) == \E S : s \in Seq(S)

\* A sequence is a function on the numbers up to its length, and the reverse.
LEMMA SequenceIs ==
    ASSUME NEW s, IsSequence(s)
    PROVE  Len(s) \in Nat /\ DOMAIN s = 1 .. Len(s) /\ s = [i \in 1 .. Len(s) |-> s[i]]
<1>1. PICK S : s \in Seq(S)
    BY DEF IsSequence
<1> QED BY <1>1

LEMMA SequenceBy ==
    ASSUME NEW n \in Nat, NEW s, s = [i \in 1 .. n |-> s[i]]
    PROVE  IsSequence(s) /\ Len(s) = n
<1> DEFINE S == {s[i] : i \in 1 .. n}
<1>1. \A i \in 1 .. n : s[i] \in S
    OBVIOUS
<1> HIDE DEF S
<1>2. s \in [1 .. n -> S]
    BY <1>1
<1>3. s \in Seq(S)
    BY <1>2
<1>4. Len(s) = n
    BY <1>2, <1>3
<1> QED BY <1>3, <1>4 DEF IsSequence

\* Two sequences, one behind the other.
LEMMA Joined ==
    ASSUME NEW s, NEW t, IsSequence(s), IsSequence(t)
    PROVE  /\ IsSequence(s \o t) /\ Len(s \o t) = Len(s) + Len(t)
           /\ \A i \in 1 .. Len(s) : (s \o t)[i] = s[i]
           /\ \A i \in 1 .. Len(t) : (s \o t)[Len(s) + i] = t[i]
<1>1. PICK S, T : s \in Seq(S) /\ t \in Seq(T)
    BY DEF IsSequence
<1> DEFINE U == S \cup T
<1>2. s \in Seq(U) /\ t \in Seq(U)
    BY <1>1
<1> HIDE DEF U
<1>3. s \o t \in Seq(U)
    BY <1>2
<1>4. /\ Len(s \o t) = Len(s) + Len(t)
      /\ \A i \in 1 .. Len(s) : (s \o t)[i] = s[i]
      /\ \A i \in 1 .. Len(t) : (s \o t)[Len(s) + i] = t[i]
    BY <1>2
<1> QED BY <1>3, <1>4 DEF IsSequence

LEMMA SameSequence ==
    ASSUME NEW s, NEW t, IsSequence(s), IsSequence(t), Len(s) = Len(t),
           \A i \in 1 .. Len(s) : s[i] = t[i]
    PROVE  s = t
<1>1. s = [i \in 1 .. Len(s) |-> s[i]] /\ t = [i \in 1 .. Len(t) |-> t[i]]
    BY SequenceIs
<1>2. [i \in 1 .. Len(s) |-> s[i]] = [i \in 1 .. Len(t) |-> t[i]]
    OBVIOUS
<1> QED BY <1>1, <1>2

\* The first n of a sequence of sequences, joined.
Joining(s, f, n) ==
    [i \in 1 .. n |-> IF i = 1 THEN s[i] ELSE f[i - 1] \o s[i]]

LEMMA JoiningExists ==
    ASSUME NEW s, NEW N \in Nat
    PROVE  \E f : f = Joining(s, f, N)
<1> DEFINE Good(n) == \E f : f = Joining(s, f, n)
           Bad == {n \in Nat : ~Good(n)}
<1> SUFFICES ASSUME Bad # {} PROVE FALSE
    OBVIOUS
<1>1. PICK n \in Bad : \A m \in Bad : n <= m
    <2>1. Bad \subseteq Nat
        OBVIOUS
    <2> HIDE DEF Bad
    <2> QED BY <2>1, LeastNumber
<1>2. n # 0
    <2> DEFINE f == [i \in 1 .. 0 |-> {}]
    <2>1. f = Joining(s, f, 0)
        BY DEF Joining
    <2> HIDE DEF f
    <2>2. Good(0)
        BY <2>1
    <2> QED BY <1>1, <2>2
<1>3. Good(n - 1)
    <2>1. n \in Nat /\ n - 1 \in Nat /\ ~(n <= n - 1)
        BY <1>1, <1>2
    <2> HIDE DEF Good
    <2> QED BY <1>1, <2>1
<1>4. PICK f : f = Joining(s, f, n - 1)
    BY <1>3
<1> DEFINE g == [i \in 1 .. n |-> IF i = n THEN (IF i = 1 THEN s[i] ELSE f[i - 1] \o s[i])
                                 ELSE f[i]]
<1>5. \A i \in 1 .. n : g[i] = IF i = 1 THEN s[i] ELSE g[i - 1] \o s[i]
    <2> TAKE i \in 1 .. n
    <2>1. i # 1 => i - 1 \in 1 .. n - 1 /\ g[i - 1] = f[i - 1]
        BY <1>1
    <2>2. CASE i = n
        BY <2>1, <2>2
    <2>3. CASE i # n
        <3>1. i \in 1 .. n - 1 /\ g[i] = f[i]
            BY <1>1, <2>3
        <3>2. f[i] = IF i = 1 THEN s[i] ELSE f[i - 1] \o s[i]
            BY <1>4, <3>1 DEF Joining
        <3> HIDE DEF g
        <3> QED BY <2>1, <3>1, <3>2
    <2> QED BY <2>2, <2>3
<1>6. g = [i \in 1 .. n |-> g[i]]
    OBVIOUS
<1> HIDE DEF g
<1>7. g = Joining(s, g, n)
    BY <1>5, <1>6 DEF Joining
<1>8. Good(n)
    BY <1>7
<1> QED BY <1>1, <1>8

-----------------------------------------------------------------------------
(* Counting elements.                                                      *)

\* The events of a kind before position n.
Before(d, n, k) == {j \in 1 .. n - 1 : d[j].kind = k}

\* Those before position n + 1 are those before n, and event n.
LEMMA CountStep ==
    ASSUME NEW d, NEW n \in Nat \ {0}, NEW k
    PROVE  /\ Cardinality(Before(d, n, k)) \in Nat
           /\ Cardinality(Before(d, n + 1, k)) =
                 Cardinality(Before(d, n, k)) + (IF d[n].kind = k THEN 1 ELSE 0)
<1>1. IsFiniteSet(Before(d, n, k))
    <2>1. IsFiniteSet(1 .. n - 1)
        BY FS_Interval
    <2> QED BY <2>1, FS_Subset DEF Before
<1>2. Cardinality(Before(d, n, k)) \in Nat
    BY <1>1, FS_CardinalityType
<1>3. CASE d[n].kind = k
    <2>1. Before(d, n + 1, k) = Before(d, n, k) \cup {n} /\ n \notin Before(d, n, k)
        BY <1>3 DEF Before
    <2> QED BY <1>1, <1>2, <1>3, <2>1, FS_AddElement
<1>4. CASE d[n].kind # k
    <2>1. Before(d, n + 1, k) = Before(d, n, k)
        BY <1>4 DEF Before
    <2> QED BY <1>2, <1>4, <2>1
<1> QED BY <1>2, <1>3, <1>4

\* Passing an event changes the level by what the event opens or ends.
LEMMA LevelStep ==
    ASSUME NEW d, NEW n \in Nat \ {0}
    PROVE  /\ Level(d, n) \in Int
           /\ Level(d, n + 1) = Level(d, n)
                + (IF d[n].kind = "start" THEN 1 ELSE IF d[n].kind = "end" THEN -1 ELSE 0)
<1> DEFINE starts(m) == Cardinality(Before(d, m, "start"))
           ends(m) == Cardinality(Before(d, m, "end"))
<1>1. /\ starts(n) \in Nat
      /\ starts(n + 1) = starts(n) + (IF d[n].kind = "start" THEN 1 ELSE 0)
    BY CountStep
<1>2. /\ ends(n) \in Nat
      /\ ends(n + 1) = ends(n) + (IF d[n].kind = "end" THEN 1 ELSE 0)
    BY CountStep
<1>3. Level(d, n) = starts(n) - ends(n) /\ Level(d, n + 1) = starts(n + 1) - ends(n + 1)
    BY DEF Level, Before
<1> HIDE DEF starts, ends
<1> QED BY <1>1, <1>2, <1>3

\* Nothing is open before the first event.
LEMMA LevelStart == ASSUME NEW d PROVE Level(d, 1) = 0
<1>1. \A k : {j \in 1 .. 1 - 1 : d[j].kind = k} = {}
    OBVIOUS
<1> QED BY <1>1, FS_EmptySet DEF Level

\* Those of a set before n + 1 are those before n, and n.
LEMMA PrefixCount ==
    ASSUME NEW S, NEW n \in Nat \ {0}
    PROVE  /\ Cardinality(S \cap 1 .. n - 1) \in Nat
           /\ Cardinality(S \cap 1 .. n) =
                 Cardinality(S \cap 1 .. n - 1) + (IF n \in S THEN 1 ELSE 0)
<1> DEFINE B == S \cap 1 .. n - 1
<1>1. IsFiniteSet(B)
    <2>1. IsFiniteSet(1 .. n - 1) /\ B \subseteq 1 .. n - 1
        BY FS_Interval
    <2> QED BY <2>1, FS_Subset
<1>2. Cardinality(B) \in Nat
    <2> HIDE DEF B
    <2> QED BY <1>1, FS_CardinalityType
<1>3. n \notin B /\ S \cap 1 .. n = IF n \in S THEN B \cup {n} ELSE B
    OBVIOUS
<1> HIDE DEF B
<1>4. Cardinality(B \cup {n}) = Cardinality(B) + 1
    BY <1>1, <1>3, FS_AddElement
<1>5. Cardinality(S \cap 1 .. n) = Cardinality(B) + (IF n \in S THEN 1 ELSE 0)
    <2>1. CASE n \in S
        BY <1>2, <1>3, <1>4, <2>1
    <2>2. CASE n \notin S
        BY <1>2, <1>3, <2>2
    <2> QED BY <2>1, <2>2
<1> QED BY <1>2, <1>5 DEF B

-----------------------------------------------------------------------------
(* Texts.                                                                  *)

\* An attribute's value is a number, and so is the sum of an element's.
LEMMA ValueBytesAre ==
    ASSUME NEW a \in Seq(Attribute)
    PROVE  /\ ValueBytes(a, 0) = 0
           /\ \A n \in 1 .. Len(a) : ValueBytes(a, n) = ValueBytes(a, n - 1) + a[n].value
           /\ \A n \in 0 .. Len(a) : ValueBytes(a, n) \in Int
<1> DEFINE N == Len(a)
           f == [k \in 1 .. N |-> a[k].value]
           Sums(u) == u = [k \in 0 .. N |-> IF k = 0 THEN 0 ELSE u[k - 1] + a[k].value]
           upTo == CHOOSE u : Sums(u)
<1>1. N \in Nat /\ \A k \in 1 .. N : f[k] \in Int /\ f[k] = a[k].value
    BY DEF Attribute
<1>2. \E h : Sums(h)
    <2> HIDE DEF f, N
    <2>1. PICK h : RunsOver(h, f, N)
        BY <1>1, TotalExists
    <2> DEFINE g == [k \in 0 .. N |-> IF k = 0 THEN 0 ELSE h[k - 1] + a[k].value]
    <2>2. \A k \in 0 .. N : h[k] = g[k]
        <3> TAKE k \in 0 .. N
        <3>1. CASE k = 0
            BY <2>1, <3>1 DEF RunsOver
        <3>2. CASE k # 0
            <4>1. k \in 1 .. N
                BY <1>1, <3>2
            <4> QED BY <1>1, <2>1, <3>2, <4>1 DEF RunsOver
        <3> QED BY <3>1, <3>2
    <2>3. g = [k \in 0 .. N |-> g[k]] /\ h = [k \in 0 .. N |-> h[k]]
        BY <2>1 DEF RunsOver
    <2>4. h = g
        <3> HIDE DEF g
        <3> QED BY <2>2, <2>3, SameFunction
    <2> QED BY <2>4
<1>3. Sums(upTo)
    <2> HIDE DEF Sums
    <2> QED BY <1>2
<1>4. \A n : ValueBytes(a, n) = upTo[n]
    BY DEF ValueBytes
<1> HIDE DEF upTo, f
<1>5. upTo[0] = 0 /\ \A n \in 1 .. N : upTo[n] = upTo[n - 1] + a[n].value
    BY <1>1, <1>3
<1> HIDE DEF N
<1>6. \A n \in 0 .. N : upTo[n] \in Int
    <2>1. \A n \in 1 .. N : upTo[n] = upTo[n - 1] + f[n]
        BY <1>1, <1>5
    <2>2. 0 \in Int /\ \A b, c \in Int : b + c \in Int
        OBVIOUS
    <2> QED BY <1>1, <1>5, <2>1, <2>2, TotalsIn
<1> QED BY <1>4, <1>5, <1>6 DEF N

\* A sum of natural numbers, and of none of a sequence's other values.
LEMMA ValueBytesFacts ==
    ASSUME NEW a \in Seq(Attribute), \A k \in 1 .. Len(a) : a[k].value \in Nat
    PROVE  /\ ValueBytes(a, 0) = 0
           /\ \A n \in 0 .. Len(a) : ValueBytes(a, n) \in Nat
           /\ \A n \in 1 .. Len(a) : ValueBytes(a, n) = ValueBytes(a, n - 1) + a[n].value
<1> DEFINE N == Len(a)
           h == [n \in 0 .. N |-> ValueBytes(a, n)]
           f == [n \in 1 .. N |-> a[n].value]
<1>1. /\ N \in Nat /\ \A n \in 0 .. N : h[n] = ValueBytes(a, n)
      /\ \A n \in 1 .. N : f[n] = a[n].value
    OBVIOUS
<1>2. /\ ValueBytes(a, 0) = 0
      /\ \A n \in 1 .. N : ValueBytes(a, n) = ValueBytes(a, n - 1) + a[n].value
    BY ValueBytesAre
<1>3. \A n \in 1 .. N : f[n] \in Nat
    BY <1>1
<1> HIDE DEF N, f, h
<1>4. h[0] = 0 /\ \A n \in 1 .. N : h[n] = h[n - 1] + f[n]
    <2>1. 0 \in 0 .. N /\ \A n \in 1 .. N : n \in 0 .. N /\ n - 1 \in 0 .. N
        BY <1>1
    <2> QED BY <1>1, <1>2, <2>1
<1>5. \A n \in 0 .. N : h[n] \in Nat
    <2>1. 0 \in Nat /\ \A b, c \in Nat : b + c \in Nat
        OBVIOUS
    <2> QED BY <1>1, <1>3, <1>4, <2>1, TotalsIn
<1> QED BY <1>1, <1>2, <1>5 DEF N

\* Max and Min are what they are named for.
LEMMA MaxIs ==
    ASSUME NEW N \in Nat, NEW T, T \subseteq 0 .. N, T # {}
    PROVE  Max(T) \in T /\ \A n \in T : n <= Max(T)
<1>1. PICK m \in T : \A n \in T : n <= m
    BY GreatestNumber
<1> QED BY <1>1 DEF Max

LEMMA MinIs ==
    ASSUME NEW T, T \subseteq Nat, T # {}
    PROVE  Min(T) \in T /\ \A n \in T : Min(T) <= n
<1>1. PICK m \in T : \A n \in T : m <= n
    BY LeastNumber
<1> QED BY <1>1 DEF Min

LEMMA TrimIsText == ASSUME NEW t \in Text PROVE Trim(t) \in Text
<1> DEFINE kept == {i \in DOMAIN t : t[i] \notin Space}
<1>1. CASE kept = {}
    BY <1>1 DEF Trim, Text
<1>2. CASE kept # {}
    <2>1. Min(kept) \in kept
        <3>1. kept \subseteq Nat
            BY DEF Text
        <3> HIDE DEF kept
        <3> QED BY <1>2, <3>1, MinIs
    <2>2. Max(kept) \in kept
        <3>1. kept \subseteq 0 .. Len(t) /\ Len(t) \in Nat
            BY DEF Text
        <3> HIDE DEF kept
        <3> QED BY <1>2, <3>1, MaxIs
    <2>3. Min(kept) \in 1 .. Len(t) /\ Max(kept) \in 1 .. Len(t) /\ t \in Seq(Piece)
        BY <2>1, <2>2 DEF Text
    <2>4. Trim(t) = SubSeq(t, Min(kept), Max(kept))
        BY <1>2 DEF Trim
    <2> HIDE DEF kept
    <2> QED BY <2>3, <2>4 DEF Text
<1> QED BY <1>1, <1>2

\* The one value an option has.
LEMMA TheIs == ASSUME NEW option, option # {} PROVE The(option) \in option
BY DEF The

LEMMA ValueIsInt == ASSUME NEW e \in Event PROVE ValueOf(e) \in Int
<1>1. CASE IsOpen(e)
    <2>1. PICK a \in Seq(Attribute) : a = e.attributes
        BY <1>1 DEF Event, IsOpen, OpenEvent, TextEvent, ReferenceEvent, DeclarationEvent,
                    PlainEvent, BrokenEvent
    <2>2. ValueBytes(a, Len(a)) \in Int
        BY ValueBytesAre
    <2> QED BY <1>1, <2>1, <2>2 DEF ValueOf
<1>2. CASE ~IsOpen(e)
    <2>1. IsText(e) => e.pieces \in Seq(Piece)
        BY DEF Event, IsText, OpenEvent, TextEvent, ReferenceEvent, DeclarationEvent,
               PlainEvent, BrokenEvent, Text
    <2> QED BY <1>2, <2>1 DEF ValueOf
<1> QED BY <1>1, <1>2

\* Charged is the running total it is defined to be.
LEMMA ChargedSteps ==
    ASSUME NEW d \in Seq(Event)
    PROVE  /\ Charged(d, 1) = 0
           /\ \A n \in 1 .. Len(d) : Charged(d, n + 1) = Charged(d, n) + ValueOf(d[n])
<1> DEFINE N == Len(d)
           f == [j \in 1 .. N |-> ValueOf(d[j])]
           Sums(u) == u = [j \in 0 .. N |-> IF j = 0 THEN 0 ELSE u[j - 1] + ValueOf(d[j])]
           upTo == CHOOSE u : Sums(u)
<1>1. N \in Nat /\ \A j \in 1 .. N : f[j] = ValueOf(d[j])
    OBVIOUS
<1>2. \E h : Sums(h)
    <2> HIDE DEF f, N
    <2>1. PICK h : RunsOver(h, f, N)
        BY <1>1, TotalExists
    <2> DEFINE g == [j \in 0 .. N |-> IF j = 0 THEN 0 ELSE h[j - 1] + ValueOf(d[j])]
    <2>2. \A j \in 0 .. N : h[j] = g[j]
        <3> TAKE j \in 0 .. N
        <3>1. CASE j = 0
            BY <2>1, <3>1 DEF RunsOver
        <3>2. CASE j # 0
            <4>1. j \in 1 .. N
                BY <1>1, <3>2
            <4> QED BY <1>1, <2>1, <3>2, <4>1 DEF RunsOver
        <3> QED BY <3>1, <3>2
    <2>3. g = [k \in 0 .. N |-> g[k]] /\ h = [k \in 0 .. N |-> h[k]]
        BY <2>1 DEF RunsOver
    <2>4. h = g
        <3> HIDE DEF g
        <3> QED BY <2>2, <2>3, SameFunction
    <2> QED BY <2>4
<1>3. Sums(upTo)
    <2> HIDE DEF Sums
    <2> QED BY <1>2
<1>4. \A i : Charged(d, i) = upTo[i - 1]
    BY DEF Charged
<1> HIDE DEF upTo, f
<1>5. upTo[0] = 0 /\ \A j \in 1 .. N : upTo[j] = upTo[j - 1] + ValueOf(d[j])
    BY <1>1, <1>3
<1>6. Charged(d, 1) = 0
    BY <1>4, <1>5
<1>7. ASSUME NEW n \in 1 .. N PROVE Charged(d, n + 1) = Charged(d, n) + ValueOf(d[n])
    <2>1. (n + 1) - 1 = n
        OBVIOUS
    <2> QED BY <1>4, <1>5, <2>1
<1> QED BY <1>6, <1>7

-----------------------------------------------------------------------------
(* The innermost of the open elements.                                     *)

\* The k-th of the elements that are open before event n, 0 for none.
Starts(d, n, k) == {j \in 1 .. n - 1 : d[j].kind = "start" /\ Level(d, j) = k - 1}

Above(d, n, k) == Max(Starts(d, n, k) \cup {0})

LEMMA AboveIs ==
    ASSUME NEW d, NEW n \in Nat \ {0}, NEW k
    PROVE  /\ Above(d, n, k) \in Starts(d, n, k) \cup {0}
           /\ \A j \in Starts(d, n, k) : j <= Above(d, n, k)
           /\ Above(d, n, k) \in 0 .. n - 1
<1> DEFINE T == Starts(d, n, k) \cup {0}
<1>1. T \subseteq 0 .. n - 1 /\ T # {} /\ n - 1 \in Nat
    BY DEF Starts
<1>2. Above(d, n, k) = Max(T)
    BY DEF Above
<1>3. \A j \in Starts(d, n, k) : j \in T
    OBVIOUS
<1> HIDE DEF T
<1>4. Max(T) \in T /\ \A j \in T : j <= Max(T)
    BY <1>1, MaxIs
<1> QED BY <1>1, <1>2, <1>3, <1>4 DEF T

\* Only an element that opens at the level below becomes the k-th.
LEMMA AboveStep ==
    ASSUME NEW d, NEW n \in Nat \ {0}, NEW k
    PROVE  Above(d, n + 1, k) =
              IF d[n].kind = "start" /\ Level(d, n) = k - 1 THEN n ELSE Above(d, n, k)
<1>1. CASE d[n].kind = "start" /\ Level(d, n) = k - 1
    <2>1. n \in Starts(d, n + 1, k)
        BY <1>1 DEF Starts
    <2>2. n <= Above(d, n + 1, k) /\ Above(d, n + 1, k) \in 0 .. (n + 1) - 1
        BY <2>1, AboveIs
    <2> QED BY <1>1, <2>2
<1>2. CASE ~(d[n].kind = "start" /\ Level(d, n) = k - 1)
    <2>1. Starts(d, n + 1, k) = Starts(d, n, k)
        BY <1>2 DEF Starts
    <2> QED BY <1>2, <2>1 DEF Above
<1> QED BY <1>1, <1>2

-----------------------------------------------------------------------------
(* The parts of a document's elements.                                     *)

\* What an element is, given what those before it are.
PartAt(d, h, i) ==
    IF ~IsOpen(d[i]) THEN "none"
    ELSE IF Above(d, i, Level(d, i)) = 0 THEN "KULDEMENY"
         ELSE Part(h[Above(d, i, Level(d, i))], d[i])

LEMMA PartAtAgrees ==
    ASSUME NEW d, NEW i \in Nat \ {0}, NEW h, NEW g, \A j \in 1 .. i - 1 : h[j] = g[j]
    PROVE  PartAt(d, h, i) = PartAt(d, g, i)
<1> DEFINE a == Above(d, i, Level(d, i))
<1>1. a \in 0 .. i - 1
    BY AboveIs
<1>2. a # 0 => h[a] = g[a]
    BY <1>1
<1> QED BY <1>2 DEF PartAt

LEMMA PartsExist ==
    ASSUME NEW d, NEW N \in Nat
    PROVE  \E h : h = [i \in 1 .. N |-> PartAt(d, h, i)]
<1> DEFINE Good(n) == \E h : h = [i \in 1 .. n |-> PartAt(d, h, i)]
           Bad == {n \in Nat : ~Good(n)}
<1> SUFFICES ASSUME Bad # {} PROVE FALSE
    OBVIOUS
<1>1. PICK n \in Bad : \A m \in Bad : n <= m
    <2>1. Bad \subseteq Nat
        OBVIOUS
    <2> HIDE DEF Bad
    <2> QED BY <2>1, LeastNumber
<1>2. n # 0
    <2> DEFINE h == [i \in 1 .. 0 |-> {}]
    <2>1. h = [i \in 1 .. 0 |-> PartAt(d, h, i)]
        OBVIOUS
    <2> HIDE DEF h
    <2>2. Good(0)
        BY <2>1
    <2> QED BY <1>1, <2>2
<1>3. Good(n - 1)
    <2>1. n \in Nat /\ n - 1 \in Nat /\ ~(n <= n - 1)
        BY <1>1, <1>2
    <2> HIDE DEF Good
    <2> QED BY <1>1, <2>1
<1>4. PICK h : h = [i \in 1 .. n - 1 |-> PartAt(d, h, i)]
    BY <1>3
<1> DEFINE g == [i \in 1 .. n |-> IF i = n THEN PartAt(d, h, n) ELSE h[i]]
<1>5. \A i \in 1 .. n : g[i] = PartAt(d, g, i)
    <2> TAKE i \in 1 .. n
    <2>1. \A j \in 1 .. i - 1 : h[j] = g[j]
        BY <1>1
    <2>2. PartAt(d, h, i) = PartAt(d, g, i)
        <3>1. i \in Nat \ {0}
            BY <1>1
        <3> HIDE DEF g
        <3> QED BY <2>1, <3>1, PartAtAgrees
    <2>3. g[i] = PartAt(d, h, i)
        <3>1. CASE i = n
            BY <3>1
        <3>2. CASE i # n
            <4>1. i \in 1 .. n - 1
                BY <1>1, <3>2
            <4>2. h[i] = PartAt(d, h, i)
                BY <1>4, <4>1
            <4> QED BY <3>2, <4>2
        <3> QED BY <3>1, <3>2
    <2> QED BY <2>2, <2>3
<1>6. g = [i \in 1 .. n |-> PartAt(d, g, i)]
    <2>1. g = [i \in 1 .. n |-> g[i]]
        OBVIOUS
    <2> HIDE DEF g
    <2> QED BY <1>5, <2>1
<1> HIDE DEF g
<1>7. Good(n)
    BY <1>6
<1> QED BY <1>1, <1>7

\* The tree's parts are those of the elements above.
LEMMA TreeParts ==
    ASSUME NEW d \in Seq(Event)
    PROVE  /\ DOMAIN Tree(d).part = 1 .. Len(d)
           /\ \A i \in 1 .. Len(d) : Tree(d).part[i] = PartAt(d, Tree(d).part, i)
<1> DEFINE N == Len(d)
           level == [i \in 1 .. Len(d) + 1 |-> Level(d, i)]
           parent == [i \in DOMAIN d |->
              Max({j \in 1 .. i - 1 : d[j].kind = "start" /\ level[j] = level[i] - 1} \cup {0})]
           Parts(h) == h = [i \in DOMAIN d |->
              IF ~IsOpen(d[i]) THEN "none"
              ELSE IF parent[i] = 0 THEN "KULDEMENY" ELSE Part(h[parent[i]], d[i])]
           part == CHOOSE h : Parts(h)
<1>1. DOMAIN d = 1 .. N /\ N \in Nat
    OBVIOUS
<1>2. \A i \in 1 .. N : parent[i] = Above(d, i, Level(d, i))
    <2> TAKE i \in 1 .. N
    <2>1. level[i] = Level(d, i) /\ \A j \in 1 .. i - 1 : level[j] = Level(d, j)
        BY <1>1
    <2> HIDE DEF level
    <2>2. {j \in 1 .. i - 1 : d[j].kind = "start" /\ level[j] = level[i] - 1}
            = Starts(d, i, Level(d, i))
        BY <2>1 DEF Starts
    <2>3. parent[i] = Max(Starts(d, i, Level(d, i)) \cup {0})
        BY <1>1, <2>2
    <2> HIDE DEF parent
    <2> QED BY <2>3 DEF Above
<1>3. Tree(d).part = [i \in DOMAIN d |-> part[i]]
    BY DEF Tree
<1> HIDE DEF parent
<1>4. \A h : Parts(h) <=> h = [i \in 1 .. N |-> PartAt(d, h, i)]
    <2> TAKE h
    <2>1. \A i \in 1 .. N :
             (IF ~IsOpen(d[i]) THEN "none"
              ELSE IF parent[i] = 0 THEN "KULDEMENY" ELSE Part(h[parent[i]], d[i]))
                = PartAt(d, h, i)
        BY <1>2 DEF PartAt
    <2> QED BY <1>1, <2>1, Zenon
<1>5. Parts(part)
    <2>1. \E h : Parts(h)
        <3>1. N \in Nat
            BY <1>1
        <3> HIDE DEF N
        <3>2. PICK h : h = [i \in 1 .. N |-> PartAt(d, h, i)]
            BY <3>1, PartsExist
        <3>3. Parts(h)
            BY <1>4, <3>2
        <3> HIDE DEF Parts
        <3> QED BY <3>3
    <2> HIDE DEF Parts
    <2> QED BY <2>1
<1>6. part = [i \in 1 .. N |-> PartAt(d, part, i)]
    <2> HIDE DEF Parts, part
    <2> QED BY <1>4, <1>5
<1> HIDE DEF part, Parts
<1>7. Tree(d).part = part
    BY <1>1, <1>3, <1>6
<1> QED BY <1>6, <1>7

-----------------------------------------------------------------------------
(* Trees, and the elements they have.                                      *)

\* What a tree is of.
LEMMA TreeIs ==
    ASSUME NEW d \in Seq(Event)
    PROVE  /\ Tree(d).event = d
           /\ DOMAIN Tree(d).close = 1 .. Len(d)
           /\ \A i \in 1 .. Len(d) : d[i].kind # "start" => Tree(d).close[i] = i
           /\ \A i \in 1 .. Len(d) : d[i].kind = "start" =>
                /\ Tree(d).close[i] \in i + 1 .. Len(d) + 1
                /\ Tree(d).close[i] <= Len(d) =>
                      /\ d[Tree(d).close[i]].kind = "end"
                      /\ Level(d, Tree(d).close[i]) = Level(d, i) + 1
                /\ \A j \in i + 1 .. Len(d) :
                      d[j].kind = "end" /\ Level(d, j) = Level(d, i) + 1 =>
                        Tree(d).close[i] <= j
<1> DEFINE N == Len(d)
           level == [i \in 1 .. Len(d) + 1 |-> Level(d, i)]
           ends(i) == {j \in i + 1 .. Len(d) : d[j].kind = "end" /\ level[j] = level[i] + 1}
           close == [i \in DOMAIN d |->
              IF d[i].kind # "start" THEN i ELSE Min(ends(i) \cup {Len(d) + 1})]
<1>0. N \in Nat /\ DOMAIN d = 1 .. N
    OBVIOUS
<1>1. Tree(d).event = d /\ Tree(d).close = close
    BY DEF Tree
<1>2. ASSUME NEW i \in 1 .. N
      PROVE  ends(i) = {j \in i + 1 .. N : d[j].kind = "end" /\ Level(d, j) = Level(d, i) + 1}
    BY <1>0
<1>3. \A i \in 1 .. N :
         close[i] = IF d[i].kind # "start" THEN i ELSE Min(ends(i) \cup {N + 1})
    BY <1>0
<1>4. DOMAIN close = 1 .. N
    BY <1>0
<1> HIDE DEF close, ends, N
<1>5. ASSUME NEW i \in 1 .. N, d[i].kind = "start"
      PROVE  /\ close[i] \in i + 1 .. N + 1
             /\ close[i] <= N => d[close[i]].kind = "end" /\ Level(d, close[i]) = Level(d, i) + 1
             /\ \A j \in i + 1 .. N :
                   d[j].kind = "end" /\ Level(d, j) = Level(d, i) + 1 => close[i] <= j
    <2> DEFINE T == ends(i) \cup {N + 1}
    <2>1. T \subseteq Nat /\ T # {}
        BY <1>0, <1>2
    <2>2. Min(T) \in T /\ \A n \in T : Min(T) <= n
        <3> HIDE DEF T
        <3> QED BY <2>1, MinIs
    <2>3. close[i] = Min(T)
        BY <1>3, <1>5
    <2>4. close[i] \in ends(i) \cup {N + 1}
        BY <2>2, <2>3
    <2>5. \A j \in ends(i) : close[i] <= j
        BY <2>2, <2>3
    <2> QED BY <1>0, <1>2, <2>4, <2>5
<1>6. \A i \in 1 .. N : d[i].kind # "start" => close[i] = i
    BY <1>3
<1> QED BY <1>1, <1>4, <1>5, <1>6, Zenon DEF N

LEMMA FirstIs ==
    ASSUME NEW t, NEW d, d = t.event, d \in Seq(Event)
    PROVE  /\ FirstElement(t) \in 1 .. Len(d) + 1
           /\ FirstElement(t) \in 1 .. Len(d) => IsOpen(d[FirstElement(t)])
           /\ \A i \in 1 .. Len(d) : IsOpen(d[i]) => FirstElement(t) <= i
<1> DEFINE N == Len(d)
           T == {i \in DOMAIN t.event : IsOpen(t.event[i])} \cup {Len(t.event) + 1}
<1>0. N \in Nat /\ DOMAIN d = 1 .. N
    OBVIOUS
<1>1. T \subseteq Nat /\ T # {}
    BY <1>0
<1>2. FirstElement(t) = Min(T)
    BY DEF FirstElement
<1>3. Min(T) \in T /\ \A n \in T : Min(T) <= n
    <2> HIDE DEF T
    <2> QED BY <1>1, MinIs
<1>4. T = {i \in 1 .. N : IsOpen(d[i])} \cup {N + 1}
    BY <1>0
<1> HIDE DEF T, N
<1>5. FirstElement(t) \in {i \in 1 .. N : IsOpen(d[i])} \cup {N + 1}
    BY <1>2, <1>3, <1>4
<1>6. \A i \in 1 .. N : IsOpen(d[i]) => FirstElement(t) <= i
    BY <1>2, <1>3, <1>4
<1> QED BY <1>0, <1>5, <1>6 DEF N

LEMMA LevelOfPart ==
    ASSUME NEW d, NEW e, NEW n \in Nat, \A i \in 1 .. n : e[i] = d[i], NEW j \in 1 .. n + 1
    PROVE  Level(e, j) = Level(d, j)
<1>1. \A i \in 1 .. j - 1 : e[i] = d[i]
    OBVIOUS
<1>2. \A k : {i \in 1 .. j - 1 : e[i].kind = k} = {i \in 1 .. j - 1 : d[i].kind = k}
    BY <1>1
<1> QED BY <1>2 DEF Level

\* What the tree says of the element each event is in.
LEMMA ParentIs ==
    ASSUME NEW d \in Seq(Event), NEW i \in 1 .. Len(d)
    PROVE  /\ Tree(d).parent[i] = Above(d, i, Level(d, i))
           /\ Tree(d).parent[i] \in 0 .. i - 1
           /\ Tree(d).parent[i] # 0 => d[Tree(d).parent[i]].kind = "start"
<1> DEFINE level == [j \in 1 .. Len(d) + 1 |-> Level(d, j)]
           parent == [j \in DOMAIN d |->
                Max({k \in 1 .. j - 1 : d[k].kind = "start" /\ level[k] = level[j] - 1} \cup {0})]
<1>1. Tree(d).parent = parent
    BY DEF Tree
<1>2. Len(d) \in Nat /\ DOMAIN d = 1 .. Len(d) /\ i \in Nat \ {0}
    OBVIOUS
<1>3. parent[i] = Max({k \in 1 .. i - 1 : d[k].kind = "start" /\ level[k] = level[i] - 1} \cup {0})
    BY <1>2
<1>4. {k \in 1 .. i - 1 : d[k].kind = "start" /\ level[k] = level[i] - 1} =
        Starts(d, i, Level(d, i))
    <2>1. \A k \in 1 .. i : level[k] = Level(d, k)
        BY <1>2
    <2> HIDE DEF level
    <2> QED BY <1>2, <2>1 DEF Starts
<1>5. Tree(d).parent[i] = Above(d, i, Level(d, i))
    <2> HIDE DEF parent
    <2> QED BY <1>1, <1>3, <1>4 DEF Above
<1>6. /\ Above(d, i, Level(d, i)) \in Starts(d, i, Level(d, i)) \cup {0}
      /\ Above(d, i, Level(d, i)) \in 0 .. i - 1
    BY <1>2, AboveIs
<1>7. Above(d, i, Level(d, i)) # 0 => d[Above(d, i, Level(d, i))].kind = "start"
    BY <1>6 DEF Starts
<1> HIDE DEF parent, level
<1> QED BY <1>5, <1>6, <1>7

\* What an element is to the grammar, by the one it is in.
LEMMA PartIs ==
    ASSUME NEW d \in Seq(Event), NEW i \in 1 .. Len(d), NEW t, t = Tree(d)
    PROVE  t.part[i] = IF ~IsOpen(d[i]) THEN "none"
                       ELSE IF t.parent[i] = 0 THEN "KULDEMENY"
                       ELSE Part(t.part[t.parent[i]], d[i])
<1> HIDE DEF Tree, Part, IsOpen
<1>1. t.part[i] = PartAt(d, t.part, i)
    BY TreeParts
<1>2. t.parent[i] = Above(d, i, Level(d, i))
    BY ParentIs
<1> QED BY <1>1, <1>2, Zenon DEF PartAt

LEMMA TheOne == ASSUME NEW x PROVE The({x}) = x
<1> QED BY DEF The

\* One sequence more joins at the end.
LEMMA FlattenStep ==
    ASSUME NEW n \in Nat, NEW s, s = [i \in 1 .. n |-> s[i]],
           NEW t, t = [i \in 1 .. n + 1 |-> t[i]], \A i \in 1 .. n : s[i] = t[i],
           IsSequence(t[n + 1])
    PROVE  FlattenSeq(t) = FlattenSeq(s) \o t[n + 1]
<1> DEFINE f == CHOOSE f : f = Joining(s, f, Len(s))
           g == CHOOSE g : g = Joining(t, g, Len(t))
<1>1. Len(s) = n /\ Len(t) = n + 1
    <2>1. n + 1 \in Nat
        OBVIOUS
    <2> QED BY <2>1, SequenceBy
<1>2. f = Joining(s, f, n) /\ g = Joining(t, g, n + 1)
    <2>1. \E h : h = Joining(s, h, n)
        BY JoiningExists
    <2>2. n + 1 \in Nat
        OBVIOUS
    <2>3. \E h : h = Joining(t, h, n + 1)
        BY <2>2, JoiningExists
    <2> QED BY <1>1, <2>1, <2>3
<1>3. /\ FlattenSeq(s) = IF n = 0 THEN s ELSE f[n]
      /\ FlattenSeq(t) = g[n + 1]
    <2>1. FlattenSeq(s) = IF n = 0 THEN s ELSE f[n]
        <3>1. CASE n = 0
            BY <1>1, <3>1 DEF FlattenSeq
        <3>2. CASE n # 0
            <4>1. Len(s) # 0 /\ FlattenSeq(s) = f[Len(s)]
                BY <1>1, <3>2, Zenon DEF FlattenSeq, Joining
            <4> QED BY <1>1, <3>2, <4>1
        <3> QED BY <3>1, <3>2
    <2>2. n + 1 # 0
        OBVIOUS
    <2>3. Len(t) # 0 /\ FlattenSeq(t) = g[Len(t)]
        BY <1>1, <2>2, Zenon DEF FlattenSeq, Joining
    <2> QED BY <1>1, <2>1, <2>3
<1> HIDE DEF f, g
<1>4. \A i \in 1 .. n : f[i] = g[i]
    <2> DEFINE Bad == {i \in 1 .. n : f[i] # g[i]}
    <2> SUFFICES ASSUME Bad # {} PROVE FALSE
        OBVIOUS
    <2>1. PICK i \in Bad : \A j \in Bad : i <= j
        <3>1. Bad \subseteq Nat
            OBVIOUS
        <3> HIDE DEF Bad
        <3> QED BY <3>1, LeastNumber
    <2>2. i \in 1 .. n /\ i \in 1 .. n + 1 /\ f[i] # g[i]
        OBVIOUS
    <2>3. /\ f[i] = IF i = 1 THEN s[i] ELSE f[i - 1] \o s[i]
          /\ g[i] = IF i = 1 THEN t[i] ELSE g[i - 1] \o t[i]
        <3>1. f = [k \in 1 .. n |-> IF k = 1 THEN s[k] ELSE f[k - 1] \o s[k]]
            BY <1>2 DEF Joining
        <3>2. g = [k \in 1 .. n + 1 |-> IF k = 1 THEN t[k] ELSE g[k - 1] \o t[k]]
            BY <1>2 DEF Joining
        <3>3. f[i] = IF i = 1 THEN s[i] ELSE f[i - 1] \o s[i]
            BY <2>2, <3>1
        <3>4. g[i] = IF i = 1 THEN t[i] ELSE g[i - 1] \o t[i]
            BY <2>2, <3>2
        <3> QED BY <3>3, <3>4
    <2>4. i # 1 => f[i - 1] = g[i - 1]
        <3> SUFFICES ASSUME i # 1 PROVE f[i - 1] = g[i - 1]
            OBVIOUS
        <3>1. i - 1 \in 1 .. n /\ ~(i <= i - 1)
            BY <2>2
        <3> QED BY <2>1, <3>1
    <2> QED BY <2>2, <2>3, <2>4
<1>5. g[n + 1] = IF n = 0 THEN t[n + 1] ELSE g[n] \o t[n + 1]
    <2>1. n + 1 \in 1 .. n + 1 /\ (n + 1) - 1 = n /\ (n + 1 = 1 <=> n = 0)
        OBVIOUS
    <2>2. g[n + 1] = IF n + 1 = 1 THEN t[n + 1] ELSE g[(n + 1) - 1] \o t[n + 1]
        <3>1. g = [k \in 1 .. n + 1 |-> IF k = 1 THEN t[k] ELSE g[k - 1] \o t[k]]
            BY <1>2 DEF Joining
        <3> QED BY <2>1, <3>1
    <2> QED BY <2>1, <2>2
<1>6. CASE n = 0
    <2>1. s = <<>>
        BY <1>6
    <2>2. <<>> \o t[n + 1] = t[n + 1]
        BY DEF IsSequence
    <2>3. FlattenSeq(s) = s
        BY <1>3, <1>6
    <2>4. FlattenSeq(t) = t[n + 1]
        BY <1>3, <1>5, <1>6
    <2> QED BY <2>1, <2>2, <2>3, <2>4
<1>7. CASE n # 0
    <2>1. n \in 1 .. n
        BY <1>7
    <2> QED BY <1>3, <1>4, <1>5, <1>7, <2>1
<1> QED BY <1>6, <1>7

\* Where an element closes: where it is opened, or at an end that follows.
LEMMA CloseIs ==
    ASSUME NEW d \in Seq(Event), NEW j \in 1 .. Len(d), NEW t, t = Tree(d)
    PROVE  /\ t.close[j] \in Nat /\ t.close[j] >= j /\ t.close[j] <= Len(d) + 1
           /\ d[j].kind # "start" => t.close[j] = j
           /\ d[j].kind = "start" => t.close[j] > j
           /\ \A m \in 1 .. Len(d) : t.close[j] = m /\ m # j => d[m].kind = "end"
           /\ t.parent[j] \in 0 .. j - 1
<1>1. /\ d[j].kind # "start" => t.close[j] = j
      /\ d[j].kind = "start" =>
            /\ t.close[j] \in j + 1 .. Len(d) + 1
            /\ t.close[j] <= Len(d) => d[t.close[j]].kind = "end"
    BY TreeIs
<1>2. t.parent[j] \in 0 .. j - 1
    BY ParentIs
<1>3. Len(d) \in Nat /\ j \in Nat
    OBVIOUS
<1> QED BY <1>1, <1>2, <1>3

\* Between the start of an element and its close nothing is outside of it.
LEMMA Deeper ==
    ASSUME NEW d \in Seq(Event), NEW t, t = Tree(d),
           NEW j \in 1 .. Len(d), d[j].kind = "start"
    PROVE  /\ Level(d, j) \in Int
           /\ \A m \in j + 1 .. t.close[j] : Level(d, m) \in Int /\ Level(d, m) >= Level(d, j) + 1
<1>1. /\ Len(d) \in Nat /\ j \in Nat \ {0} /\ t.close[j] \in j + 1 .. Len(d) + 1
      /\ \A m \in j + 1 .. Len(d) :
            d[m].kind = "end" /\ Level(d, m) = Level(d, j) + 1 => t.close[j] <= m
    BY TreeIs
<1>2. \A m \in Nat \ {0} : /\ Level(d, m) \in Int
                          /\ Level(d, m + 1) = Level(d, m)
                                + (IF d[m].kind = "start" THEN 1 ELSE IF d[m].kind = "end" THEN -1 ELSE 0)
    BY LevelStep
<1> DEFINE Bad == {m \in j + 1 .. t.close[j] : ~(Level(d, m) >= Level(d, j) + 1)}
<1>3. ASSUME Bad # {} PROVE FALSE
    <2>1. PICK m \in Bad : \A n \in Bad : m <= n
        <3>1. Bad \subseteq Nat
            BY <1>1
        <3> HIDE DEF Bad
        <3> QED BY <1>3, <3>1, LeastNumber
    <2>2. /\ m \in j + 1 .. t.close[j] /\ ~(Level(d, m) >= Level(d, j) + 1)
          /\ m \in Nat \ {0} /\ t.close[j] \in Nat
        BY <1>1, <2>1
    <2>3. Level(d, j + 1) = Level(d, j) + 1
        BY <1>1, <1>2
    <2>4. m # j + 1
        BY <1>1, <1>2, <2>2, <2>3
    <2>5. m - 1 \in j + 1 .. t.close[j] /\ m - 1 \in Nat \ {0} /\ (m - 1) + 1 = m /\ m - 1 \in j + 1 .. Len(d)
          /\ ~(m <= m - 1)
        BY <1>1, <2>2, <2>4
    <2>6. Level(d, m - 1) >= Level(d, j) + 1
        BY <2>1, <2>5
    <2>7. Level(d, m) = Level(d, m - 1)
                + (IF d[m - 1].kind = "start" THEN 1 ELSE IF d[m - 1].kind = "end" THEN -1 ELSE 0)
        BY <1>2, <2>5
    <2>8. d[m - 1].kind = "end" /\ Level(d, m - 1) = Level(d, j) + 1
        <3>1. Level(d, m) \in Int /\ Level(d, m - 1) \in Int /\ Level(d, j) \in Int
            BY <1>1, <1>2, <2>2, <2>5
        <3> QED BY <2>2, <2>6, <2>7, <3>1
    <2>9. t.close[j] <= m - 1
        BY <1>1, <2>5, <2>8
    <2> QED BY <2>2, <2>9
<1>4. Level(d, j) \in Int
    BY <1>1, <1>2
<1>5. ASSUME NEW m \in j + 1 .. t.close[j]
      PROVE  Level(d, m) \in Int /\ Level(d, m) >= Level(d, j) + 1
    <2>1. m \in Nat \ {0} /\ m \notin Bad
        BY <1>1, <1>3
    <2> QED BY <1>2, <2>1
<1> QED BY <1>4, <1>5

\* An element within one that is closed is closed before.
LEMMA InnerCloses ==
    ASSUME NEW d \in Seq(Event), NEW t, t = Tree(d),
           NEW j \in 1 .. Len(d), NEW i \in j + 1 .. t.close[j] - 1, t.close[j] <= Len(d)
    PROVE  i \in 1 .. Len(d) /\ t.close[i] \in i .. t.close[j] - 1
<1>1. /\ Len(d) \in Nat /\ j \in Nat \ {0}
      /\ t.close[j] \in Nat /\ t.close[j] >= j /\ t.close[j] <= Len(d) + 1
      /\ d[j].kind # "start" => t.close[j] = j
    BY CloseIs
<1>2. /\ d[j].kind = "start" /\ i \in 1 .. Len(d) /\ i \in Nat \ {0}
      /\ t.close[j] \in 1 .. Len(d) /\ t.close[j] \in j + 1 .. Len(d) + 1
    BY <1>1
<1>3. t.close[i] \in Nat /\ t.close[i] >= i /\ (d[i].kind # "start" => t.close[i] = i)
    BY <1>2, CloseIs
<1>4. CASE d[i].kind # "start"
    BY <1>1, <1>2, <1>3, <1>4
<1>5. CASE d[i].kind = "start"
    <2>1. /\ Level(d, j) \in Int
          /\ \A m \in j + 1 .. t.close[j] : Level(d, m) \in Int /\ Level(d, m) >= Level(d, j) + 1
        BY <1>2, Deeper
    <2>2. Level(d, t.close[j]) = Level(d, j) + 1
        BY <1>2, TreeIs
    <2>3. \A m \in Nat \ {0} : /\ Level(d, m) \in Int
                              /\ Level(d, m + 1) = Level(d, m)
                                    + (IF d[m].kind = "start" THEN 1 ELSE IF d[m].kind = "end" THEN -1 ELSE 0)
        BY LevelStep
    <2>4. Level(d, i) >= Level(d, j) + 1 /\ Level(d, i + 1) = Level(d, i) + 1
        <3>1. i \in j + 1 .. t.close[j]
            BY <1>1, <1>2
        <3> QED BY <1>2, <1>5, <2>1, <2>3, <3>1
    <2> DEFINE T == {m \in i + 1 .. t.close[j] : Level(d, m) >= Level(d, i) + 1}
    <2>5. i + 1 \in T
        <3>1. i + 1 \in i + 1 .. t.close[j]
            BY <1>1, <1>2
        <3>2. Level(d, i) \in Int
            BY <1>2, <2>3
        <3> QED BY <2>4, <3>1, <3>2
    <2>6. PICK m \in T : \A n \in T : n <= m
        <3>1. T \subseteq 0 .. t.close[j]
            BY <1>2
        <3> HIDE DEF T
        <3> QED BY <1>1, <2>5, <3>1, GreatestNumber
    <2>7. m \in i + 1 .. t.close[j] /\ Level(d, m) >= Level(d, i) + 1 /\ m \in Nat \ {0}
        BY <1>2, <2>6
    <2>8. m # t.close[j]
        <3>1. Level(d, i) \in Int /\ Level(d, j) \in Int /\ Level(d, m) \in Int
            BY <1>2, <2>1, <2>3, <2>7
        <3> QED BY <2>2, <2>4, <2>7, <3>1
    <2>9. m + 1 \in i + 1 .. t.close[j] /\ ~(m + 1 <= m) /\ m \in i + 1 .. Len(d)
        BY <1>2, <2>7, <2>8
    <2>10. ~(Level(d, m + 1) >= Level(d, i) + 1)
        BY <2>6, <2>9
    <2>11. Level(d, m + 1) = Level(d, m)
                + (IF d[m].kind = "start" THEN 1 ELSE IF d[m].kind = "end" THEN -1 ELSE 0)
        BY <2>3, <2>7
    <2>12. d[m].kind = "end" /\ Level(d, m) = Level(d, i) + 1
        <3>1. Level(d, i) \in Int /\ Level(d, m + 1) \in Int /\ Level(d, m) \in Int
            BY <1>2, <2>3, <2>7
        <3> QED BY <2>7, <2>10, <2>11, <3>1
    <2>13. t.close[i] <= m
        BY <1>2, <1>5, <2>9, <2>12, TreeIs
    <2>14. m <= t.close[j] - 1
        BY <1>1, <1>2, <2>7, <2>8
    <2> QED BY <1>1, <1>2, <1>3, <2>7, <2>13, <2>14
<1> QED BY <1>4, <1>5

\* An element is behind the start of the one it is in and before its end.
LEMMA ParentEncloses ==
    ASSUME NEW d \in Seq(Event), NEW t, t = Tree(d), NEW i \in 1 .. Len(d), IsOpen(d[i]),
           NEW j, t.parent[i] = j, j # 0
    PROVE  j \in 1 .. i - 1 /\ d[j].kind = "start" /\ i < t.close[j]
<1>1. /\ j = Above(d, i, Level(d, i)) /\ j \in 1 .. i - 1 /\ d[j].kind = "start"
      /\ i \in Nat \ {0} /\ Len(d) \in Nat
    BY ParentIs
<1>2. j \in 1 .. Len(d)
    BY <1>1
<1>3. /\ t.close[j] \in j + 1 .. Len(d) + 1
      /\ t.close[j] <= Len(d) =>
            /\ d[t.close[j]].kind = "end"
            /\ Level(d, t.close[j]) = Level(d, j) + 1
    BY <1>1, <1>2, TreeIs
<1> SUFFICES ASSUME ~(i < t.close[j]) PROVE FALSE
    BY <1>1
<1>4. t.close[j] \in 1 .. Len(d) /\ t.close[j] < i /\ t.close[j] \in Nat \ {0}
    <2>1. t.close[j] <= i /\ t.close[j] <= Len(d)
        BY <1>1, <1>3
    <2>2. t.close[j] # i
        BY <1>3, <2>1 DEF IsOpen
    <2> QED BY <1>1, <1>3, <2>1, <2>2
<1>5. \A m \in Nat \ {0} : /\ Level(d, m) \in Int
                          /\ Level(d, m + 1) = Level(d, m)
                                + (IF d[m].kind = "start" THEN 1 ELSE IF d[m].kind = "end" THEN -1 ELSE 0)
    BY LevelStep
<1>6. /\ Level(d, j) = Level(d, i) - 1
      /\ \A m \in Starts(d, i, Level(d, i)) : m <= j
    <2>1. /\ j \in Starts(d, i, Level(d, i)) \cup {0}
          /\ \A m \in Starts(d, i, Level(d, i)) : m <= j
        BY <1>1, AboveIs
    <2> QED BY <1>1, <2>1 DEF Starts
<1> DEFINE c == t.close[j]
           T == {m \in c + 1 .. i : Level(d, m) <= Level(d, j)}
<1>7. c + 1 \in T
    <2>1. Level(d, c + 1) = Level(d, c) - 1 /\ Level(d, c) = Level(d, j) + 1
        <3>1. d[c].kind = "end" /\ Level(d, c) = Level(d, j) + 1
            BY <1>3, <1>4
        <3> QED BY <1>4, <1>5, <3>1
    <2>2. c + 1 \in c + 1 .. i
        BY <1>1, <1>4
    <2>3. Level(d, c) \in Int /\ Level(d, j) \in Int
        <3>1. c \in Nat \ {0} /\ j \in Nat \ {0}
            BY <1>1, <1>4
        <3> HIDE DEF c
        <3> QED BY <1>5, <3>1
    <2> QED BY <2>1, <2>2, <2>3
<1>8. PICK m \in T : \A n \in T : n <= m
    <2>1. T \subseteq 0 .. i
        BY <1>1, <1>4
    <2> HIDE DEF T
    <2> QED BY <1>1, <1>7, <2>1, GreatestNumber
<1>9. m \in c + 1 .. i /\ Level(d, m) <= Level(d, j) /\ m \in Nat \ {0}
    BY <1>4, <1>8
<1>10. m # i
    BY <1>1, <1>5, <1>6, <1>9
<1>11. m + 1 \in c + 1 .. i /\ ~(m + 1 <= m) /\ m \in 1 .. i - 1
    BY <1>1, <1>4, <1>9, <1>10
<1>12. ~(Level(d, m + 1) <= Level(d, j))
    BY <1>8, <1>11
<1>13. d[m].kind = "start" /\ Level(d, m) = Level(d, j)
    <2>1. Level(d, m) \in Int /\ Level(d, m + 1) \in Int /\ Level(d, j) \in Int
        BY <1>1, <1>5, <1>9
    <2>2. Level(d, m + 1) = Level(d, m)
            + (IF d[m].kind = "start" THEN 1 ELSE IF d[m].kind = "end" THEN -1 ELSE 0)
        BY <1>5, <1>9
    <2> QED BY <1>9, <1>12, <2>1, <2>2
<1>14. m \in Starts(d, i, Level(d, i))
    BY <1>6, <1>11, <1>13 DEF Starts
<1>15. m <= j
    BY <1>6, <1>14
<1> QED BY <1>1, <1>3, <1>4, <1>9, <1>15

LEMMA BlockNames ==
    /\ DOMAIN Blocks = 1 .. 5
    /\ Blocks[1] = "FEJRESZ" /\ Blocks[2] = "ERKEZTETES" /\ Blocks[3] = "BONTASOK"
    /\ Blocks[4] = "EXPEDIALASOK" /\ Blocks[5] = "TERTIVEVENY"
    /\ Range(Blocks) = {"FEJRESZ", "ERKEZTETES", "BONTASOK", "EXPEDIALASOK", "TERTIVEVENY"}
BY DEF Blocks, Range

\* What the names of the grammar are in each element.
LEMMA Meanings ==
    /\ DOMAIN Grammar = {"KULDEMENY", "FEJRESZ", "EXPEDIALASOK", "EXPEDIALAS", "MELLEKLETEK",
                         "MELLEKLET"}
    /\ \A p \in DOMAIN Grammar : \A e : e.binding # "target" =>
          Part(p, e) = IF p = "EXPEDIALAS" /\ e.binding = "unbound"
                            /\ e.name = "KEZELESI_UTASITASOK"
                       THEN "instructions" ELSE "unknown"
    /\ \A e : e.binding = "target" =>
          /\ Part("KULDEMENY", e) = IF e.name \in Range(Blocks) THEN e.name ELSE "unknown"
          /\ Part("FEJRESZ", e) = IF e.name \in Field THEN "leaf" ELSE "unknown"
          /\ Part("MELLEKLET", e) = IF e.name \in Field THEN "leaf" ELSE "unknown"
          /\ Part("EXPEDIALASOK", e) = IF e.name = "EXPEDIALAS" THEN "EXPEDIALAS" ELSE "unknown"
          /\ Part("MELLEKLETEK", e) = IF e.name = "MELLEKLET" THEN "MELLEKLET" ELSE "unknown"
          /\ Part("EXPEDIALAS", e) = IF e.name = "MELLEKLETEK" THEN "MELLEKLETEK"
                                     ELSE IF e.name = "MELLEKLETEK_SZAMA" THEN "leaf"
                                     ELSE "unknown"
<1>1. DOMAIN Grammar = {"KULDEMENY", "FEJRESZ", "EXPEDIALASOK", "EXPEDIALAS", "MELLEKLETEK",
                        "MELLEKLET"}
    BY DEF Grammar
<1>2. /\ Grammar["KULDEMENY"] = [n \in Range(Blocks) |-> n]
      /\ Grammar["FEJRESZ"] = [n \in Field |-> "leaf"]
      /\ Grammar["EXPEDIALASOK"] = [n \in {"EXPEDIALAS"} |-> n]
      /\ Grammar["EXPEDIALAS"] = [n \in {"MELLEKLETEK", "MELLEKLETEK_SZAMA"} |->
                                    IF n = "MELLEKLETEK" THEN n ELSE "leaf"]
      /\ Grammar["MELLEKLETEK"] = [n \in {"MELLEKLET"} |-> n]
      /\ Grammar["MELLEKLET"] = [n \in Field |-> "leaf"]
    BY DEF Grammar
<1>3. ASSUME NEW p \in DOMAIN Grammar, NEW e, e.binding = "target"
      PROVE  Part(p, e) = IF e.name \in DOMAIN Grammar[p] THEN Grammar[p][e.name] ELSE "unknown"
    BY <1>3 DEF Part
<1>4. ASSUME NEW p \in DOMAIN Grammar, NEW e, e.binding # "target"
      PROVE  Part(p, e) = IF p = "EXPEDIALAS" /\ e.binding = "unbound"
                               /\ e.name = "KEZELESI_UTASITASOK"
                          THEN "instructions" ELSE "unknown"
    BY <1>4 DEF Part
<1>5. ASSUME NEW e, e.binding = "target"
      PROVE  /\ Part("KULDEMENY", e) = IF e.name \in Range(Blocks) THEN e.name ELSE "unknown"
             /\ Part("FEJRESZ", e) = IF e.name \in Field THEN "leaf" ELSE "unknown"
             /\ Part("MELLEKLET", e) = IF e.name \in Field THEN "leaf" ELSE "unknown"
    BY <1>1, <1>2, <1>3, <1>5
<1>6. ASSUME NEW e, e.binding = "target"
      PROVE  /\ Part("EXPEDIALASOK", e) = IF e.name = "EXPEDIALAS" THEN "EXPEDIALAS" ELSE "unknown"
             /\ Part("MELLEKLETEK", e) = IF e.name = "MELLEKLET" THEN "MELLEKLET" ELSE "unknown"
             /\ Part("EXPEDIALAS", e) = IF e.name = "MELLEKLETEK" THEN "MELLEKLETEK"
                                        ELSE IF e.name = "MELLEKLETEK_SZAMA" THEN "leaf"
                                        ELSE "unknown"
    BY <1>1, <1>2, <1>3, <1>6
<1> QED BY <1>1, <1>4, <1>5, <1>6

\* What a child is to the element it is in.
LEMMA PartChoice ==
    ASSUME NEW q, NEW e, NEW part, part = Part(q, e)
    PROVE  \/ q = "KULDEMENY" /\ e.binding = "target" /\ e.name \in Range(Blocks) /\ part = e.name
           \/ /\ q \in {"FEJRESZ", "MELLEKLET"} /\ e.binding = "target" /\ e.name \in Field
              /\ part = "leaf"
           \/ /\ q = "EXPEDIALASOK" /\ e.binding = "target" /\ e.name = "EXPEDIALAS"
              /\ part = "EXPEDIALAS"
           \/ /\ q = "MELLEKLETEK" /\ e.binding = "target" /\ e.name = "MELLEKLET"
              /\ part = "MELLEKLET"
           \/ /\ q = "EXPEDIALAS" /\ e.binding = "target" /\ e.name = "MELLEKLETEK"
              /\ part = "MELLEKLETEK"
           \/ /\ q = "EXPEDIALAS" /\ e.binding = "target" /\ e.name = "MELLEKLETEK_SZAMA"
              /\ part = "leaf"
           \/ /\ part \in {"below", "unknown", "instructions"}
              /\ q \in {"FEJRESZ", "MELLEKLET"} => ~(e.binding = "target" /\ e.name \in Field)
              /\ q = "EXPEDIALAS" => ~(e.binding = "target" /\ e.name = "MELLEKLETEK_SZAMA")
<1>1. CASE q \notin DOMAIN Grammar
    <2>1. part = "below"
        BY <1>1 DEF Part
    <2>2. q \notin {"FEJRESZ", "MELLEKLET", "EXPEDIALAS"}
        BY <1>1, Meanings
    <2> QED BY <2>1, <2>2
<1>2. CASE q \in DOMAIN Grammar
    <2>1. q \in {"KULDEMENY", "FEJRESZ", "EXPEDIALASOK", "EXPEDIALAS", "MELLEKLETEK", "MELLEKLET"}
        BY <1>2, Meanings
    <2>2. CASE e.binding # "target"
        <3>1. part = IF q = "EXPEDIALAS" /\ e.binding = "unbound" /\ e.name = "KEZELESI_UTASITASOK"
                     THEN "instructions" ELSE "unknown"
            BY <1>2, <2>2, Meanings
        <3> QED BY <2>2, <3>1
    <2>3. CASE e.binding = "target"
        <3>1. CASE q = "KULDEMENY"
            BY <2>3, <3>1, Meanings
        <3>2. CASE q \in {"FEJRESZ", "MELLEKLET"}
            BY <2>3, <3>2, Meanings
        <3>3. CASE q = "EXPEDIALASOK"
            BY <2>3, <3>3, Meanings
        <3>4. CASE q = "MELLEKLETEK"
            BY <2>3, <3>4, Meanings
        <3>5. CASE q = "EXPEDIALAS"
            BY <2>3, <3>5, Meanings
        <3> QED BY <2>1, <3>1, <3>2, <3>3, <3>4, <3>5
    <2> QED BY <2>2, <2>3
<1> QED BY <1>1, <1>2

\* Which parts are which, as names.
Apart(part) ==
    /\ part \in Range(Blocks) => part \notin {"none", "below", "unknown", "instructions", "leaf", "KULDEMENY",
                                            "EXPEDIALAS", "MELLEKLETEK", "MELLEKLET"}

LEMMA PartsApart == ASSUME NEW part PROVE Apart(part)
BY BlockNames DEF Apart

\* What the part of an element says of it and of the one it is in.
LEMMA PartMeans ==
    ASSUME NEW d \in Seq(Event), NEW t, t = Tree(d), NEW i \in 1 .. Len(d),
           NEW p, p = t.parent[i], NEW part, part = t.part[i]
    PROVE  /\ DOMAIN t.part = 1 .. Len(d)
           /\ part # "none" <=> IsOpen(d[i])
           /\ IsOpen(d[i]) /\ p = 0 => part = "KULDEMENY"
           /\ IsOpen(d[i]) /\ p # 0 => part = Part(t.part[p], d[i])
           /\ part = "KULDEMENY" => p = 0
           /\ part \in Range(Blocks) =>
                 /\ p # 0 /\ t.part[p] = "KULDEMENY"
                 /\ d[i].name = part /\ d[i].binding = "target"
           /\ part = "EXPEDIALAS" => p # 0 /\ t.part[p] = "EXPEDIALASOK"
           /\ part = "MELLEKLETEK" =>
                 p # 0 /\ t.part[p] = "EXPEDIALAS" /\ d[i].name = part /\ d[i].binding = "target"
           /\ part = "MELLEKLET" => p # 0 /\ t.part[p] = "MELLEKLETEK"
           /\ part = "leaf" =>
                 /\ p # 0 /\ d[i].binding = "target"
                 /\ \/ t.part[p] \in {"FEJRESZ", "MELLEKLET"} /\ d[i].name \in Field
                    \/ t.part[p] = "EXPEDIALAS" /\ d[i].name = "MELLEKLETEK_SZAMA"
           /\ t.part[p] \in {"FEJRESZ", "MELLEKLET"} /\ IsOpen(d[i]) /\ p # 0 =>
                 (part = "leaf" <=> d[i].binding = "target" /\ d[i].name \in Field)
           /\ t.part[p] = "EXPEDIALAS" /\ IsOpen(d[i]) /\ p # 0 =>
                 (part = "leaf" <=> d[i].binding = "target" /\ d[i].name = "MELLEKLETEK_SZAMA")
<1> DEFINE q == t.part[p]  e == d[i]
<1>1. /\ IsOpen(e) /\ p # 0 => part = Part(q, e)
      /\ ~IsOpen(e) => part = "none"
      /\ IsOpen(e) /\ p = 0 => part = "KULDEMENY"
    BY PartIs
<1>2. DOMAIN t.part = 1 .. Len(d)
    BY TreeParts
<1>3. Apart(part)
    BY PartsApart
<1> SUFFICES ASSUME NEW q0, q0 = q, NEW e0, e0 = e
             PROVE  /\ part # "none" <=> IsOpen(e0)
                    /\ part = "KULDEMENY" => p = 0
                    /\ part \in Range(Blocks) =>
                          p # 0 /\ q0 = "KULDEMENY" /\ e0.name = part /\ e0.binding = "target"
                    /\ part = "EXPEDIALAS" => p # 0 /\ q0 = "EXPEDIALASOK"
                    /\ part = "MELLEKLETEK" =>
                          p # 0 /\ q0 = "EXPEDIALAS" /\ e0.name = part /\ e0.binding = "target"
                    /\ part = "MELLEKLET" => p # 0 /\ q0 = "MELLEKLETEK"
                    /\ part = "leaf" =>
                          /\ p # 0 /\ e0.binding = "target"
                          /\ \/ q0 \in {"FEJRESZ", "MELLEKLET"} /\ e0.name \in Field
                             \/ q0 = "EXPEDIALAS" /\ e0.name = "MELLEKLETEK_SZAMA"
                    /\ q0 \in {"FEJRESZ", "MELLEKLET"} /\ IsOpen(e0) /\ p # 0 =>
                          (part = "leaf" <=> e0.binding = "target" /\ e0.name \in Field)
                    /\ q0 = "EXPEDIALAS" /\ IsOpen(e0) /\ p # 0 =>
                          (part = "leaf" <=> e0.binding = "target" /\ e0.name = "MELLEKLETEK_SZAMA")
    BY <1>1, <1>2
<1>4. /\ IsOpen(e0) /\ p # 0 => part = Part(q0, e0)
      /\ ~IsOpen(e0) => part = "none"
      /\ IsOpen(e0) /\ p = 0 => part = "KULDEMENY"
    BY <1>1
<1> HIDE DEF q, e
<1>5. CASE ~IsOpen(e0)
    BY <1>3, <1>4, <1>5 DEF Apart
<1>6. CASE IsOpen(e0) /\ p = 0
    BY <1>3, <1>4, <1>6 DEF Apart
<1>7. CASE IsOpen(e0) /\ p # 0
    <2>1. part = Part(q0, e0)
        BY <1>4, <1>7
    <2>2. \/ q0 = "KULDEMENY" /\ e0.binding = "target" /\ e0.name \in Range(Blocks) /\ part = e0.name
          \/ /\ q0 \in {"FEJRESZ", "MELLEKLET"} /\ e0.binding = "target" /\ e0.name \in Field
             /\ part = "leaf"
          \/ /\ q0 = "EXPEDIALASOK" /\ e0.binding = "target" /\ e0.name = "EXPEDIALAS"
             /\ part = "EXPEDIALAS"
          \/ /\ q0 = "MELLEKLETEK" /\ e0.binding = "target" /\ e0.name = "MELLEKLET"
             /\ part = "MELLEKLET"
          \/ /\ q0 = "EXPEDIALAS" /\ e0.binding = "target" /\ e0.name = "MELLEKLETEK"
             /\ part = "MELLEKLETEK"
          \/ /\ q0 = "EXPEDIALAS" /\ e0.binding = "target" /\ e0.name = "MELLEKLETEK_SZAMA"
             /\ part = "leaf"
          \/ /\ part \in {"below", "unknown", "instructions"}
             /\ q0 \in {"FEJRESZ", "MELLEKLET"} => ~(e0.binding = "target" /\ e0.name \in Field)
             /\ q0 = "EXPEDIALAS" => ~(e0.binding = "target" /\ e0.name = "MELLEKLETEK_SZAMA")
        BY <2>1, PartChoice
    <2> QED BY <1>3, <1>7, <2>2 DEF Apart
<1> QED BY <1>5, <1>6, <1>7

-----------------------------------------------------------------------------
(* Elements in the order they are in.                                      *)

\* Positions in their order are a sequence of those positions.
LEMMA InOrderIs ==
    ASSUME NEW n \in Nat, NEW S, S \subseteq 1 .. n
    PROVE  InOrder(S) \in Seq(S) /\ Len(InOrder(S)) = Cardinality(S) /\ Cardinality(S) \in Nat
<1> DEFINE below(i) == {j \in S : j < i}
<1>1. \A X : X \subseteq 1 .. n => IsFiniteSet(X) /\ Cardinality(X) \in Nat
    <2>1. IsFiniteSet(1 .. n)
        BY FS_Interval
    <2> QED BY <2>1, FS_Subset, FS_CardinalityType
<1>2. ASSUME NEW k \in 1 .. Cardinality(S)
      PROVE  \E i \in S : Cardinality(below(i)) = k - 1
    <2> DEFINE T == {m \in Nat : Cardinality(below(m)) >= k}
    <2>0. Cardinality(S) \in Nat /\ \A m : Cardinality(below(m)) \in Nat
        BY <1>1
    <2>1. n + 1 \in T
        <3>1. below(n + 1) = S
            <4>1. \A j \in S : j < n + 1
                OBVIOUS
            <4> QED BY <4>1
        <3>2. n + 1 \in Nat
            OBVIOUS
        <3> HIDE DEF below
        <3> QED BY <2>0, <3>1, <3>2
    <2>2. PICK m \in T : \A l \in T : m <= l
        <3>1. T \subseteq Nat /\ T # {}
            BY <2>1
        <3> HIDE DEF T
        <3> QED BY <3>1, LeastNumber
    <2>3. m # 0
        <3>1. below(0) = {}
            <4>1. \A j \in S : ~(j < 0)
                OBVIOUS
            <4> QED BY <4>1
        <3>2. Cardinality(below(0)) = 0
            BY <3>1, FS_EmptySet
        <3> HIDE DEF below
        <3> QED BY <2>0, <2>2, <3>2
    <2> DEFINE i == m - 1
    <2>4. i \in Nat /\ i \notin T
        BY <2>2, <2>3
    <2>5. Cardinality(below(i)) < k
        <3> HIDE DEF below, i
        <3> QED BY <2>0, <2>4
    <2>6. Cardinality(below(m)) >= k
        BY <2>2
    <2>7. below(m) = below(i) \cup (S \cap {i})
        <3>1. \A j \in S : j < m <=> j < i \/ j = i
            <4>1. \A j \in S : j \in Int
                OBVIOUS
            <4>2. m \in Int
                BY <2>2
            <4> QED BY <4>1, <4>2
        <3> HIDE DEF i
        <3> QED BY <3>1
    <2>8. i \in S /\ Cardinality(below(m)) = Cardinality(below(i)) + 1
        <3>1. i \notin S => below(m) = below(i)
            BY <2>7
        <3>2. i \in S
            <4> HIDE DEF below, i
            <4> QED BY <2>0, <2>5, <2>6, <3>1
        <3>3. below(m) = below(i) \cup {i} /\ i \notin below(i)
            BY <2>4, <2>7, <3>2
        <3>4. IsFiniteSet(below(i))
            BY <1>1
        <3> HIDE DEF below, i
        <3> QED BY <3>2, <3>3, <3>4, FS_AddElement
    <2>9. Cardinality(below(i)) = k - 1
        <3> HIDE DEF below, i
        <3> QED BY <2>0, <2>5, <2>6, <2>8
    <2> QED BY <2>8, <2>9
<1>3. Cardinality(S) \in Nat
    BY <1>1
<1>4. ASSUME NEW k \in 1 .. Cardinality(S)
      PROVE  (CHOOSE i \in S : Cardinality({j \in S : j < i}) = k - 1) \in S
    BY <1>2
<1>5. InOrder(S) \in [1 .. Cardinality(S) -> S]
    BY <1>4 DEF InOrder
<1> QED BY <1>3, <1>5

\* Position a is behind those of S.
Behind(S, a) ==
    \E n \in Nat : S \subseteq 1 .. n /\ a \in 1 .. n /\ \A j \in S : j < a

\* One position more, behind all the others.
LEMMA InOrderStep ==
    ASSUME NEW S, NEW a, Behind(S, a), NEW T, T = S \cup {a}, NEW c, c = Cardinality(S)
    PROVE  /\ c \in Nat /\ DOMAIN InOrder(S) = 1 .. c /\ DOMAIN InOrder(T) = 1 .. c + 1
           /\ \A k \in 1 .. c : InOrder(T)[k] = InOrder(S)[k]
           /\ InOrder(T)[c + 1] = a
<1>0. PICK n \in Nat : S \subseteq 1 .. n /\ a \in 1 .. n /\ \A j \in S : j < a
    BY DEF Behind
<1> DEFINE below(X, i) == {j \in X : j < i}
<1>1. \A X : X \subseteq 1 .. n => IsFiniteSet(X) /\ Cardinality(X) \in Nat
    <2>1. IsFiniteSet(1 .. n)
        BY FS_Interval
    <2> QED BY <1>0, <2>1, FS_Subset, FS_CardinalityType
<1>2. a \notin S /\ IsFiniteSet(S) /\ c \in Nat
    <2>1. a \in Int /\ ~(a < a)
        BY <1>0
    <2>2. a \notin S
        BY <1>0, <2>1
    <2> QED BY <1>0, <1>1, <2>2
<1>3. Cardinality(T) = c + 1
    BY <1>0, <1>2, FS_AddElement
<1>4. /\ InOrder(S) = [k \in 1 .. c |-> CHOOSE i \in S : Cardinality(below(S, i)) = k - 1]
      /\ InOrder(T) = [k \in 1 .. c + 1 |-> CHOOSE i \in T : Cardinality(below(T, i)) = k - 1]
    BY <1>0, <1>3 DEF InOrder
<1>5. \A i \in S : below(T, i) = below(S, i)
    <2>1. \A i \in S : ~(a < i)
        <3>1. \A i \in S : i \in Int /\ i < a
            BY <1>0
        <3> QED BY <1>0, <3>1
    <2> QED BY <1>0, <2>1
<1>6. below(T, a) = S
    <2>1. \A j \in S : j < a
        BY <1>0
    <2>2. ~(a < a)
        BY <1>0
    <2> QED BY <1>0, <2>1, <2>2
<1>7. \A i \in S : Cardinality(below(S, i)) \in Nat /\ Cardinality(below(S, i)) < c
    <2> TAKE i \in S
    <2>1. below(S, i) \subseteq S /\ i \notin below(S, i)
        <3>1. i \in Int
            BY <1>0
        <3>2. ~(i < i)
            BY <1>0, <3>1
        <3> QED BY <1>0, <3>2
    <2>2. below(S, i) # S
        BY <1>0, <2>1
    <2> HIDE DEF below
    <2> QED BY <1>0, <1>2, <2>1, <2>2, FS_Subset, FS_CardinalityType
<1>8. ASSUME NEW k \in 1 .. c PROVE InOrder(T)[k] = InOrder(S)[k]
    <2>1. \A i : i \in T /\ Cardinality(below(T, i)) = k - 1 <=>
                 i \in S /\ Cardinality(below(S, i)) = k - 1
        <3> TAKE i
        <3>1. CASE i \in S
            BY <1>0, <1>5, <3>1
        <3>2. CASE i \notin S
            <4>1. i \in T => i = a
                BY <1>0, <3>2
            <4>2. Cardinality(below(T, a)) = c
                BY <1>0, <1>6
            <4>3. k - 1 # c
                BY <1>0, <1>2
            <4> HIDE DEF below
            <4> QED BY <1>0, <3>2, <4>1, <4>2, <4>3
        <3> QED BY <1>0, <3>1, <3>2
    <2>2. (CHOOSE i \in T : Cardinality(below(T, i)) = k - 1) =
          (CHOOSE i \in S : Cardinality(below(S, i)) = k - 1)
        <3> HIDE DEF below
        <3> QED BY <1>0, <2>1, Zenon
    <2>3. k \in 1 .. c + 1
        BY <1>0, <1>2
    <2> HIDE DEF below
    <2> QED BY <1>0, <1>4, <2>2, <2>3
<1>9. ASSUME NEW k, k = c + 1 PROVE InOrder(T)[k] = a
    <2>1. k - 1 = c /\ k \in 1 .. c + 1
        BY <1>0, <1>2, <1>9
    <2>2. \A i \in T : Cardinality(below(T, i)) = k - 1 <=> i = a
        <3> TAKE i \in T
        <3>1. CASE i = a
            BY <1>0, <1>6, <2>1, <3>1
        <3>2. CASE i # a
            <4>1. i \in S
                BY <1>0, <3>2
            <4>2. Cardinality(below(T, i)) = Cardinality(below(S, i))
                BY <1>0, <1>5, <4>1
            <4> HIDE DEF below
            <4> QED BY <1>0, <1>2, <1>7, <2>1, <3>2, <4>1, <4>2
        <3> QED BY <1>0, <3>1, <3>2
    <2>3. a \in T
        BY <1>0
    <2>4. InOrder(T)[k] = CHOOSE i \in T : Cardinality(below(T, i)) = k - 1
        BY <1>0, <1>4, <2>1
    <2> HIDE DEF below
    <2> QED BY <1>0, <2>2, <2>3, <2>4
<1> HIDE DEF below
<1> QED BY <1>0, <1>2, <1>4, <1>8, <1>9

LEMMA BehindPart ==
    ASSUME NEW D, NEW a, Behind(D, a), NEW S, S \subseteq D
    PROVE  Behind(S, a)
BY DEF Behind

-----------------------------------------------------------------------------
(* Faults.                                                                 *)

LEMMA OpenFaultsAre ==
    ASSUME NEW t, NEW i
    PROVE  /\ "malformed.unbound_prefix" \in OpenFaults(t, i) <=> t.event[i].binding = "unknown"
           /\ "over_limit.elements" \in OpenFaults(t, i) <=>
                 Cardinality({j \in 1 .. i : IsOpen(t.event[j])}) > MaxElements
           /\ "over_limit.depth" \in OpenFaults(t, i) <=> t.level[i] + 1 > MaxDepth
           /\ "malformed.attribute" \in OpenFaults(t, i) <=>
                 \E k \in 1 .. Min({Len(t.event[i].attributes), MaxAttributes + 1}) :
                     t.event[i].attributes[k].raw < 0
           /\ "over_limit.attributes_per_element" \in OpenFaults(t, i) <=>
                 Len(t.event[i].attributes) > MaxAttributes
           /\ "malformed.entity" \in OpenFaults(t, i) <=>
                 \E k \in DOMAIN t.event[i].attributes : t.event[i].attributes[k].value < 0
           /\ "over_limit.text_bytes" \in OpenFaults(t, i) <=>
                 \E k \in DOMAIN t.event[i].attributes :
                     ChargedAt(t.event, i, k) + t.event[i].attributes[k].raw > MaxText
           /\ OpenFaults(t, i) \subseteq
                {"malformed.unbound_prefix", "over_limit.elements", "over_limit.depth",
                 "malformed.attribute", "over_limit.attributes_per_element",
                 "malformed.entity", "over_limit.text_bytes"}
<1>1. "malformed.unbound_prefix" \in OpenFaults(t, i) <=> t.event[i].binding = "unknown"
    BY DEF OpenFaults
<1>2. "over_limit.elements" \in OpenFaults(t, i) <=>
                 Cardinality({j \in 1 .. i : IsOpen(t.event[j])}) > MaxElements
    BY DEF OpenFaults
<1>3. "over_limit.depth" \in OpenFaults(t, i) <=> t.level[i] + 1 > MaxDepth
    BY DEF OpenFaults
<1>4. "malformed.attribute" \in OpenFaults(t, i) <=>
                 \E k \in 1 .. Min({Len(t.event[i].attributes), MaxAttributes + 1}) :
                     t.event[i].attributes[k].raw < 0
    BY DEF OpenFaults
<1>5. "over_limit.attributes_per_element" \in OpenFaults(t, i) <=>
                 Len(t.event[i].attributes) > MaxAttributes
    BY DEF OpenFaults
<1>6. "malformed.entity" \in OpenFaults(t, i) <=>
                 \E k \in DOMAIN t.event[i].attributes : t.event[i].attributes[k].value < 0
    BY DEF OpenFaults
<1>7. "over_limit.text_bytes" \in OpenFaults(t, i) <=>
                 \E k \in DOMAIN t.event[i].attributes :
                     ChargedAt(t.event, i, k) + t.event[i].attributes[k].raw > MaxText
    BY DEF OpenFaults
<1>8. OpenFaults(t, i) \subseteq
                {"malformed.unbound_prefix", "over_limit.elements", "over_limit.depth",
                 "malformed.attribute", "over_limit.attributes_per_element",
                 "malformed.entity", "over_limit.text_bytes"}
    BY DEF OpenFaults
<1> QED BY <1>1, <1>2, <1>3, <1>4, <1>5, <1>6, <1>7, <1>8

\* The smaller of two numbers.
LEMMA SmallerOf ==
    ASSUME NEW n \in Nat, NEW k \in Nat, NEW m, m = Min({n, k})
    PROVE  m \in Nat /\ m <= n /\ m <= k /\ (m = n \/ m = k)
<1> DEFINE T == {n, k}
<1>1. T \subseteq Nat /\ T # {} /\ n \in T /\ k \in T /\ \A x \in T : x = n \/ x = k
    OBVIOUS
<1>2. m = Min(T)
    OBVIOUS
<1> HIDE DEF T
<1>3. m \in T /\ \A x \in T : m <= x
    BY <1>1, <1>2, MinIs
<1> QED BY <1>1, <1>3

LEMMA OpenEventFaults ==
    ASSUME NEW t, NEW i, IsOpen(t.event[i])
    PROVE  EventFaults(t, i) = OpenFaults(t, i)
BY DEF EventFaults, IsOpen, IsText

\* What is only known once an element ends, by its part.
LEMMA ValueFaultsAre ==
    ASSUME NEW t, NEW i
    PROVE  /\ t.part[i] = "FEJRESZ" => ValueFaults(t, i) =
                (IF \E n \in HeaderRequired : Leaf(t, i, n) = {} THEN {"malformed.missing_element"} ELSE {})
                \cup (IF /\ Leaf(t, i, "FORRASRENDSZER_AZONOSITO") \subseteq Tokens(SourceSystem)
                         /\ Leaf(t, i, "KULDEMENY_TIPUS") \subseteq Tokens(ConsignmentKind)
                      THEN {} ELSE {"malformed.enumeration"})
                \cup (IF Leaf(t, i, "TESZT") \subseteq Yes \cup No THEN {} ELSE {"malformed.boolean"})
           /\ t.part[i] = "MELLEKLET" => ValueFaults(t, i) =
                (IF \E n \in AttachmentRequired : Leaf(t, i, n) = {}
                 THEN {"malformed.missing_element"} ELSE {})
                \cup (IF Leaf(t, i, "CSATOLMANY_SZAMA") \subseteq DOMAIN Numeral
                      THEN {} ELSE {"malformed.integer"})
           /\ t.part[i] = "KULDEMENY" => ValueFaults(t, i) =
                (IF Children(t, i) \cap At(t, "FEJRESZ") # {} THEN {} ELSE {"malformed.missing_element"})
           /\ t.part[i] = "leaf" => ValueFaults(t, i) =
                (IF Twins(t, i) = {} THEN {} ELSE {"malformed.duplicate_element"})
                \cup (IF \/ t.part[t.parent[i]] # "EXPEDIALAS"
                         \/ Content(t, i) \in DOMAIN Numeral THEN {} ELSE {"malformed.integer"})
           /\ t.part[i] \notin {"FEJRESZ", "MELLEKLET", "KULDEMENY", "leaf"} => ValueFaults(t, i) = {}
<1>1. CASE t.part[i] = "FEJRESZ"
    <2>1. t.part[i] # "MELLEKLET" /\ t.part[i] # "KULDEMENY" /\ t.part[i] # "leaf"
        BY <1>1
    <2>2. t.part[i] \in {"FEJRESZ", "MELLEKLET", "KULDEMENY", "leaf"}
        BY <1>1
    <2> QED BY <1>1, <2>1, <2>2, Zenon DEF ValueFaults
<1>2. CASE t.part[i] = "MELLEKLET"
    <2>1. t.part[i] # "FEJRESZ" /\ t.part[i] # "KULDEMENY" /\ t.part[i] # "leaf"
        BY <1>2
    <2>2. t.part[i] \in {"FEJRESZ", "MELLEKLET", "KULDEMENY", "leaf"}
        BY <1>2
    <2> QED BY <1>2, <2>1, <2>2, Zenon DEF ValueFaults
<1>3. CASE t.part[i] = "KULDEMENY"
    <2>1. t.part[i] # "FEJRESZ" /\ t.part[i] # "MELLEKLET" /\ t.part[i] # "leaf"
        BY <1>3
    <2>2. t.part[i] \in {"FEJRESZ", "MELLEKLET", "KULDEMENY", "leaf"}
        BY <1>3
    <2> QED BY <1>3, <2>1, <2>2, Zenon DEF ValueFaults
<1>4. CASE t.part[i] = "leaf"
    <2>1. t.part[i] # "FEJRESZ" /\ t.part[i] # "MELLEKLET" /\ t.part[i] # "KULDEMENY"
        BY <1>4
    <2>2. t.part[i] \in {"FEJRESZ", "MELLEKLET", "KULDEMENY", "leaf"}
        BY <1>4
    <2> QED BY <1>4, <2>1, <2>2, Zenon DEF ValueFaults
<1>5. CASE t.part[i] \notin {"FEJRESZ", "MELLEKLET", "KULDEMENY", "leaf"}
    <2>1. t.part[i] # "FEJRESZ" /\ t.part[i] # "MELLEKLET" /\ t.part[i] # "KULDEMENY"
          /\ t.part[i] # "leaf"
        BY <1>5
    <2> QED BY <1>5, <2>1, Zenon DEF ValueFaults
<1> QED BY <1>1, <1>2, <1>3, <1>4, <1>5

Place(name) == CHOOSE k \in DOMAIN Blocks : Blocks[k] = name

\* A later block stands before element i.
Late(t, i) ==
    \E j \in 1 .. i - 1 : t.part[j] \in Range(Blocks) /\ Place(t.part[j]) > Place(t.part[i])

LEMMA PlaceIs == ASSUME NEW k \in DOMAIN Blocks PROVE Place(Blocks[k]) = k
<1>1. \A l \in DOMAIN Blocks : Blocks[l] = Blocks[k] => l = k
    BY BlockNames
<1> QED BY <1>1 DEF Place

LEMMA PlaceFaultsAre ==
    ASSUME NEW t, NEW i \in Nat, NEW p, p = t.parent[i]
    PROVE  /\ p = 0 /\ t.event[i].binding # "target" => PlaceFaults(t, i) = {"unsupported.namespace"}
           /\ p = 0 /\ t.event[i].binding = "target" => PlaceFaults(t, i) =
                IF t.event[i].name = "KULDEMENY" THEN {} ELSE {"malformed.root_element"}
           /\ p # 0 /\ t.part[p] = "leaf" /\ t.part[i] \notin Range(Blocks) \cup {"MELLEKLETEK"} =>
                PlaceFaults(t, i) = {"malformed.unexpected_child"}
           /\ p # 0 /\ t.part[p] # "leaf" /\ t.part[i] \in Range(Blocks) \cup {"MELLEKLETEK"} =>
                PlaceFaults(t, i) =
                    IF Twins(t, i) # {} THEN {"malformed.duplicate_element"}
                    ELSE IF t.part[i] \in Range(Blocks) /\ Late(t, i) THEN {"malformed.element_order"}
                         ELSE {}
           /\ p # 0 /\ t.part[p] # "leaf" /\ t.part[i] \notin Range(Blocks) \cup {"MELLEKLETEK"} =>
                PlaceFaults(t, i) = {}
<1> DEFINE e == t.event[i]
           place(name) == CHOOSE k \in DOMAIN Blocks : Blocks[k] = name
           blocks(from, to) == {j \in from .. to : t.part[j] \in Range(Blocks)}
           late == \E j \in blocks(1, i - 1) : place(t.part[j]) > place(t.part[i])
           a == IF e.name = "KULDEMENY" THEN {} ELSE {"malformed.root_element"}
           b == IF Twins(t, i) # {} THEN {"malformed.duplicate_element"}
                ELSE IF i \in blocks(i, i) /\ late THEN {"malformed.element_order"} ELSE {}
<1>1. PlaceFaults(t, i) =
        CASE p = 0 /\ e.binding # "target" -> {"unsupported.namespace"}
          [] p = 0 /\ e.binding = "target" -> a
          [] p # 0 /\ t.part[p] = "leaf" -> {"malformed.unexpected_child"}
          [] p # 0 /\ t.part[i] \in Range(Blocks) \cup {"MELLEKLETEK"} -> b
          [] OTHER -> {}
    BY Zenon DEF PlaceFaults
<1>2. i \in blocks(i, i) <=> t.part[i] \in Range(Blocks)
    <2>1. i .. i = {i}
        OBVIOUS
    <2> QED BY <2>1
<1>3. late <=> Late(t, i)
    BY Zenon DEF Late, Place
<1>4. b = IF Twins(t, i) # {} THEN {"malformed.duplicate_element"}
          ELSE IF t.part[i] \in Range(Blocks) /\ Late(t, i) THEN {"malformed.element_order"} ELSE {}
    <2> HIDE DEF blocks, late
    <2> QED BY <1>2, <1>3
<1> HIDE DEF b, e
<1>5. p = 0 /\ e.binding # "target" => PlaceFaults(t, i) = {"unsupported.namespace"}
    BY <1>1, Zenon
<1>6. p = 0 /\ e.binding = "target" => PlaceFaults(t, i) = a
    BY <1>1, Zenon
<1>7. p # 0 /\ t.part[p] = "leaf" /\ t.part[i] \notin Range(Blocks) \cup {"MELLEKLETEK"} =>
            PlaceFaults(t, i) = {"malformed.unexpected_child"}
    BY <1>1, Zenon
<1>8. p # 0 /\ t.part[p] # "leaf" /\ t.part[i] \in Range(Blocks) \cup {"MELLEKLETEK"} =>
            PlaceFaults(t, i) = b
    BY <1>1, Zenon
<1>9. p # 0 /\ t.part[p] # "leaf" /\ t.part[i] \notin Range(Blocks) \cup {"MELLEKLETEK"} =>
            PlaceFaults(t, i) = {}
    BY <1>1, Zenon
<1> QED BY <1>4, <1>5, <1>6, <1>7, <1>8, <1>9 DEF e

-----------------------------------------------------------------------------
(* A document up to the end of its first element.                          *)

\* As far as event n the two trees are one, and no element is open there.
Agree(t, r, n) ==
    /\ n \in Nat \ {0} /\ DOMAIN r.event = 1 .. n /\ DOMAIN r.part = 1 .. n
    /\ \A part : \A i : i \in At(r, part) <=> i \in At(t, part) /\ i \in 1 .. n
    /\ \A i \in 1 .. n :
          /\ r.event[i] = t.event[i] /\ r.level[i] = t.level[i] /\ r.parent[i] = t.parent[i]
          /\ t.parent[i] \in 0 .. i - 1
          /\ r.part[i] = t.part[i] /\ r.close[i] = t.close[i] /\ t.close[i] \in i .. n
          /\ Charged(r.event, i) = Charged(t.event, i)

\* The first n events of a document, which are one.
Cut(d, e, n) ==
    /\ d \in Seq(Event) /\ n \in 1 .. Len(d) /\ Len(d) \in Nat
    /\ e \in Seq(Event) /\ Len(e) = n
    /\ \A i \in 1 .. n : e[i] = d[i] /\ i \in 1 .. Len(d)

LEMMA CutIs ==
    ASSUME NEW d \in Seq(Event), NEW n \in 1 .. Len(d)
    PROVE  Cut(d, SubSeq(d, 1, n), n)
<1>1. Len(d) \in Nat
    OBVIOUS
<1>2. PICK e : e = SubSeq(d, 1, n)
    OBVIOUS
<1>3. e \in Seq(Event) /\ Len(e) = n /\ \A i \in 1 .. n : e[i] = d[i]
    BY <1>1, <1>2
<1>4. \A i \in 1 .. n : i \in 1 .. Len(d)
    BY <1>1
<1>5. Cut(d, e, n)
    BY <1>1, <1>3, <1>4 DEF Cut
<1> QED BY <1>2, <1>5

LEMMA LevelsAre ==
    ASSUME NEW d \in Seq(Event), NEW i \in 1 .. Len(d)
    PROVE  Tree(d).level[i] = Level(d, i)
<1>1. Tree(d).level = [j \in 1 .. Len(d) + 1 |-> Level(d, j)]
    BY DEF Tree
<1>2. i \in 1 .. Len(d) + 1
    OBVIOUS
<1> HIDE DEF Tree, Level
<1> QED BY <1>1, <1>2

LEMMA LevelOfCut ==
    ASSUME NEW d, NEW e, NEW n, Cut(d, e, n)
    PROVE  \A i \in 1 .. n + 1 : Level(e, i) = Level(d, i)
<1>1. n \in Nat /\ \A i \in 1 .. n : e[i] = d[i]
    BY DEF Cut
<1> QED BY <1>1, LevelOfPart

LEMMA AboveOfCut ==
    ASSUME NEW d, NEW e, NEW n, Cut(d, e, n), NEW i \in 1 .. n, NEW k
    PROVE  Above(e, i, k) = Above(d, i, k)
<1>1. n \in Nat /\ \A j \in 1 .. n : e[j] = d[j]
    BY DEF Cut
<1>2. \A j \in 1 .. i - 1 : Level(e, j) = Level(d, j) /\ e[j] = d[j]
    <2>1. \A j \in 1 .. i - 1 : j \in 1 .. n /\ j \in 1 .. n + 1
        BY <1>1
    <2> QED BY <1>1, <2>1, LevelOfCut
<1>3. Starts(e, i, k) = Starts(d, i, k)
    BY <1>2 DEF Starts
<1> QED BY <1>3 DEF Above

LEMMA ChargedOfCut ==
    ASSUME NEW d, NEW e, NEW n, Cut(d, e, n)
    PROVE  \A i \in 1 .. n : Charged(e, i) = Charged(d, i)
<1>1. /\ d \in Seq(Event) /\ n \in 1 .. Len(d) /\ Len(d) \in Nat
      /\ e \in Seq(Event) /\ Len(e) = n /\ \A i \in 1 .. n : e[i] = d[i]
    BY DEF Cut
<1> DEFINE T == {i \in 1 .. n : Charged(e, i) # Charged(d, i)}
<1> SUFFICES ASSUME T # {} PROVE FALSE
    OBVIOUS
<1>2. PICK i \in T : \A j \in T : i <= j
    <2>1. T \subseteq Nat
        BY <1>1
    <2> QED BY <2>1, LeastNumber
<1>3. i # 1
    BY <1>1, <1>2, ChargedSteps
<1>4. i - 1 \in 1 .. n /\ i - 1 \notin T /\ i - 1 \in 1 .. Len(d) /\ i - 1 \in 1 .. Len(e) /\ (i - 1) + 1 = i
    BY <1>1, <1>2, <1>3
<1>5. Charged(e, i) = Charged(e, i - 1) + ValueOf(e[i - 1])
    BY <1>1, <1>4, ChargedSteps
<1>6. Charged(d, i) = Charged(d, i - 1) + ValueOf(d[i - 1])
    BY <1>1, <1>4, ChargedSteps
<1> QED BY <1>1, <1>2, <1>4, <1>5, <1>6

\* Every element that opens before event n closes there, too.
LEMMA ClosesWithin ==
    ASSUME NEW d \in Seq(Event), NEW t, t = Tree(d), NEW f \in 1 .. Len(d), IsOpen(d[f]),
           \A i \in 1 .. Len(d) : IsOpen(d[i]) => f <= i,
           NEW n, n = t.close[f], n \in 1 .. Len(d)
    PROVE  \A i \in 1 .. n : t.close[i] \in i .. n
<1>1. Len(d) \in Nat
    OBVIOUS
<1> SUFFICES ASSUME NEW i \in 1 .. n PROVE t.close[i] \in i .. n
    OBVIOUS
<1>2. /\ i \in 1 .. Len(d) /\ t.close[i] \in Nat /\ t.close[i] >= i
      /\ d[i].kind # "start" => t.close[i] = i
    BY <1>1, CloseIs
<1>3. CASE i < f
    BY <1>2, <1>3 DEF IsOpen
<1>4. CASE i = f
    BY <1>2, <1>4
<1>5. CASE i > f /\ i < n
    <2>1. i \in f + 1 .. t.close[f] - 1 /\ t.close[f] <= Len(d)
        BY <1>1, <1>5
    <2>2. t.close[i] \in i .. t.close[f] - 1
        BY <2>1, InnerCloses
    <2> QED BY <1>2, <2>2
<1>6. CASE i > f /\ i = n
    <2>1. d[n].kind = "end"
        BY <1>6, CloseIs
    <2> QED BY <1>2, <1>6, <2>1
<1> QED BY <1>2, <1>3, <1>4, <1>5, <1>6

LEMMA ClosesAlike ==
    ASSUME NEW d, NEW e, NEW n, Cut(d, e, n), NEW t, t = Tree(d), NEW r, r = Tree(e), NEW i \in 1 .. n, t.close[i] \in i .. n
    PROVE  r.close[i] = t.close[i]
<1>1. /\ d \in Seq(Event) /\ n \in 1 .. Len(d) /\ Len(d) \in Nat
      /\ e \in Seq(Event) /\ Len(e) = n /\ \A j \in 1 .. n : e[j] = d[j] /\ j \in 1 .. Len(d)
    BY DEF Cut
<1>2. \A j \in 1 .. n + 1 : Level(e, j) = Level(d, j)
    BY LevelOfCut
<1>3. CASE d[i].kind # "start"
    BY <1>1, <1>3, TreeIs
<1>4. CASE d[i].kind = "start"
    <2> DEFINE c == t.close[i]  b == r.close[i]
    <2>1. /\ c \in i + 1 .. n /\ d[c].kind = "end" /\ Level(d, c) = Level(d, i) + 1
          /\ \A j \in i + 1 .. Len(d) : d[j].kind = "end" /\ Level(d, j) = Level(d, i) + 1 => c <= j
        BY <1>1, <1>4, TreeIs
    <2>2. /\ b \in i + 1 .. n + 1
          /\ b <= n => e[b].kind = "end" /\ Level(e, b) = Level(e, i) + 1
          /\ \A j \in i + 1 .. n : e[j].kind = "end" /\ Level(e, j) = Level(e, i) + 1 => b <= j
        <3>1. e[i].kind = "start" /\ i \in 1 .. Len(e) /\ e \in Seq(Event)
            BY <1>1, <1>4
        <3>2. /\ b \in i + 1 .. Len(e) + 1
              /\ b <= Len(e) => e[b].kind = "end" /\ Level(e, b) = Level(e, i) + 1
              /\ \A j \in i + 1 .. Len(e) : e[j].kind = "end" /\ Level(e, j) = Level(e, i) + 1 => b <= j
            BY <3>1, TreeIs
        <3> HIDE DEF b
        <3> QED BY <1>1, <3>2
    <2> HIDE DEF c, b
    <2>0. n \in Nat /\ i \in Nat
        BY <1>1
    <2>3. c \in 1 .. n /\ c \in 1 .. n + 1 /\ i \in 1 .. n + 1
        BY <2>0, <2>1
    <2>4. e[c].kind = "end" /\ Level(e, c) = Level(e, i) + 1
        BY <1>1, <1>2, <2>1, <2>3
    <2>5. b <= c
        BY <2>1, <2>2, <2>4
    <2>6. b \in 1 .. n /\ b \in 1 .. n + 1 /\ b \in i + 1 .. Len(d)
        BY <1>1, <2>1, <2>2, <2>5
    <2>7. d[b].kind = "end" /\ Level(d, b) = Level(d, i) + 1
        BY <1>1, <1>2, <2>2, <2>3, <2>6
    <2>8. c <= b
        BY <2>1, <2>6, <2>7
    <2>9. c = b
        BY <2>3, <2>5, <2>6, <2>8
    <2> QED BY <2>9 DEF c, b
<1> QED BY <1>3, <1>4

LEMMA PartsAlike ==
    ASSUME NEW d, NEW e, NEW n, Cut(d, e, n), NEW t, t = Tree(d), NEW r, r = Tree(e)
    PROVE  \A i \in 1 .. n : /\ r.parent[i] = t.parent[i] /\ t.parent[i] \in 0 .. i - 1
                             /\ r.part[i] = t.part[i]
<1>1. /\ d \in Seq(Event) /\ n \in 1 .. Len(d) /\ Len(d) \in Nat
      /\ e \in Seq(Event) /\ Len(e) = n /\ \A j \in 1 .. n : e[j] = d[j] /\ j \in 1 .. Len(d)
    BY DEF Cut
<1>2. \A j \in 1 .. n + 1 : Level(e, j) = Level(d, j)
    BY LevelOfCut
<1>3. ASSUME NEW i \in 1 .. n PROVE r.parent[i] = t.parent[i] /\ t.parent[i] \in 0 .. i - 1
    <2>1. i \in 1 .. Len(d) /\ i \in 1 .. Len(e) /\ i \in 1 .. n + 1
        BY <1>1
    <2>2. t.parent[i] = Above(d, i, Level(d, i)) /\ t.parent[i] \in 0 .. i - 1
        BY <1>1, <2>1, ParentIs
    <2>3. r.parent[i] = Above(e, i, Level(e, i))
        BY <1>1, <2>1, ParentIs
    <2>4. Above(e, i, Level(d, i)) = Above(d, i, Level(d, i))
        BY <1>1, <2>1, AboveOfCut
    <2> QED BY <1>2, <2>1, <2>2, <2>3, <2>4
<1> DEFINE T == {i \in 1 .. n : r.part[i] # t.part[i]}
<1>4. T = {}
    <2> SUFFICES ASSUME T # {} PROVE FALSE
        OBVIOUS
    <2>1. PICK i \in T : \A j \in T : i <= j
        <3>1. T \subseteq Nat
            BY <1>1
        <3> QED BY <3>1, LeastNumber
    <2>2. i \in 1 .. n /\ i \in 1 .. Len(d) /\ i \in 1 .. Len(e)
        BY <1>1, <2>1
    <2>3. PICK p : p = t.parent[i] /\ p = r.parent[i] /\ p \in 0 .. i - 1
        BY <1>3, <2>2
    <2>4. p # 0 => p \in 1 .. n /\ ~(i <= p)
        <3>1. n \in Nat
            BY <1>1
        <3> QED BY <2>2, <2>3, <3>1
    <2>5. p # 0 => r.part[p] = t.part[p]
        BY <2>1, <2>4
    <2>6. t.part[i] = IF ~IsOpen(d[i]) THEN "none"
                      ELSE IF p = 0 THEN "KULDEMENY" ELSE Part(t.part[p], d[i])
        <3>1. t.part[i] = IF ~IsOpen(d[i]) THEN "none"
                          ELSE IF t.parent[i] = 0 THEN "KULDEMENY"
                          ELSE Part(t.part[t.parent[i]], d[i])
            BY <1>1, <2>2, PartIs
        <3> QED BY <2>3, <3>1
    <2>7. r.part[i] = IF ~IsOpen(e[i]) THEN "none"
                      ELSE IF p = 0 THEN "KULDEMENY" ELSE Part(r.part[p], e[i])
        BY <1>1, <2>2, <2>3, PartIs
    <2>8. r.part[i] = t.part[i]
        BY <1>1, <2>2, <2>5, <2>6, <2>7
    <2> QED BY <2>1, <2>8
<1> QED BY <1>3, <1>4

LEMMA ReadAgrees ==
    ASSUME NEW d \in Seq(Event), NEW t, t = Tree(d), NEW f, f = FirstElement(t), f \in 1 .. Len(d),
           NEW n, n = t.close[f], NEW e, Cut(d, e, n), NEW r, r = Tree(e)
    PROVE  Agree(t, r, n)
<1>1. /\ n \in 1 .. Len(d) /\ Len(d) \in Nat
      /\ e \in Seq(Event) /\ Len(e) = n /\ \A j \in 1 .. n : e[j] = d[j] /\ j \in 1 .. Len(d)
    BY DEF Cut
<1>2. t.event = d /\ r.event = e /\ DOMAIN t.part = 1 .. Len(d) /\ DOMAIN r.part = 1 .. n
    BY <1>1, TreeIs, TreeParts
<1>3. IsOpen(d[f]) /\ \A i \in 1 .. Len(d) : IsOpen(d[i]) => f <= i
    BY <1>2, FirstIs
<1>4. \A i \in 1 .. n : t.close[i] \in i .. n
    BY <1>1, <1>3, ClosesWithin
<1>5. \A i \in 1 .. n : r.close[i] = t.close[i]
    BY <1>4, ClosesAlike
<1>6. \A i \in 1 .. n : /\ r.parent[i] = t.parent[i] /\ t.parent[i] \in 0 .. i - 1
                         /\ r.part[i] = t.part[i]
    BY PartsAlike
<1>7. \A i \in 1 .. n : Charged(r.event, i) = Charged(t.event, i)
    BY <1>2, ChargedOfCut
<1>8. ASSUME NEW i \in 1 .. n PROVE r.level[i] = t.level[i]
    <2>1. i \in 1 .. Len(d) /\ i \in 1 .. Len(e) /\ i \in 1 .. n + 1
        BY <1>1
    <2>2. t.level[i] = Level(d, i) /\ r.level[i] = Level(e, i)
        BY <1>1, <2>1, LevelsAre
    <2> QED BY <1>1, <2>1, <2>2, LevelOfCut
<1>9. \A part : \A i : i \in At(r, part) <=> i \in At(t, part) /\ i \in 1 .. n
    BY <1>1, <1>2, <1>6 DEF At
<1>10. DOMAIN r.event = 1 .. n /\ n \in Nat \ {0}
    BY <1>1, <1>2
<1>11. \A i \in 1 .. n : r.event[i] = t.event[i]
    BY <1>1, <1>2
<1> QED BY <1>2, <1>4, <1>5, <1>6, <1>7, <1>8, <1>9, <1>10, <1>11 DEF Agree

LEMMA ChildrenAlike ==
    ASSUME NEW t, NEW r, NEW n, Agree(t, r, n), NEW i \in 1 .. n
    PROVE  Children(r, i) = Children(t, i) /\ \A j \in Children(t, i) : j \in 1 .. n
<1>1. n \in Nat /\ r.close[i] = t.close[i] /\ t.close[i] \in i .. n /\ \A j \in 1 .. n :
            r.event[j] = t.event[j] /\ r.parent[j] = t.parent[j]
    BY DEF Agree
<1>2. \A j \in i + 1 .. t.close[i] - 1 : j \in 1 .. n
    BY <1>1
<1> QED BY <1>1, <1>2 DEF Children

LEMMA ContentAlike ==
    ASSUME NEW t, NEW r, NEW n, Agree(t, r, n), NEW i \in 1 .. n
    PROVE  Content(r, i) = Content(t, i)
<1>1. n \in Nat /\ r.close[i] = t.close[i] /\ t.close[i] \in i .. n /\ \A j \in 1 .. n :
            r.event[j] = t.event[j]
    BY DEF Agree
<1>2. \A k \in 1 .. t.close[i] - i - 1 : i + k \in 1 .. n
    BY <1>1
<1>3. [k \in 1 .. r.close[i] - i - 1 |-> Said(r.event[i + k])] =
            [k \in 1 .. t.close[i] - i - 1 |-> Said(t.event[i + k])]
    BY <1>1, <1>2
<1> QED BY <1>3 DEF Content

LEMMA LeafAlike ==
    ASSUME NEW t, NEW r, NEW n, Agree(t, r, n), NEW i \in 1 .. n
    PROVE  \A name : Leaf(r, i, name) = Leaf(t, i, name)
<1> TAKE name
<1>1. Children(r, i) = Children(t, i) /\ \A j \in Children(t, i) : j \in 1 .. n
    BY ChildrenAlike
<1>2. \A j \in Children(t, i) : Content(r, j) = Content(t, j)
    BY <1>1, ContentAlike
<1>3. \A j \in Children(t, i) : r.event[j] = t.event[j]
    BY <1>1 DEF Agree
<1>4. {j \in Children(r, i) : r.event[j].name = name /\ r.event[j].binding = "target"} =
            {j \in Children(t, i) : t.event[j].name = name /\ t.event[j].binding = "target"}
    BY <1>1, <1>3
<1> QED BY <1>2, <1>4 DEF Leaf

LEMMA ValuesAlike ==
    ASSUME NEW t, NEW r, NEW n, Agree(t, r, n), NEW i \in 1 .. n
    PROVE  HeaderAt(r, i) = HeaderAt(t, i) /\ AttachmentAt(r, i) = AttachmentAt(t, i)
<1>1. \A name : Leaf(r, i, name) = Leaf(t, i, name)
    BY LeafAlike
<1>2. HeaderAt(r, i) = HeaderAt(t, i)
    BY <1>1 DEF HeaderAt
<1>3. AttachmentAt(r, i) = AttachmentAt(t, i)
    BY <1>1 DEF AttachmentAt
<1> QED BY <1>2, <1>3

LEMMA TwinsAlike ==
    ASSUME NEW t, NEW r, NEW n, Agree(t, r, n), NEW i \in 1 .. n
    PROVE  Twins(r, i) = Twins(t, i) /\ (Late(r, i) <=> Late(t, i))
<1>1. n \in Nat /\ \A j \in 1 .. n : /\ r.event[j] = t.event[j] /\ r.parent[j] = t.parent[j]
                                     /\ r.part[j] = t.part[j]
    BY DEF Agree
<1>2. \A j \in 1 .. i - 1 : j \in 1 .. n
    BY <1>1
<1>3. Twins(r, i) = Twins(t, i)
    BY <1>1, <1>2 DEF Twins
<1>4. Late(r, i) <=> Late(t, i)
    BY <1>1, <1>2 DEF Late
<1> QED BY <1>3, <1>4

LEMMA OpenFaultsAlike ==
    ASSUME NEW t, NEW r, NEW n, Agree(t, r, n), NEW i \in 1 .. n
    PROVE  OpenFaults(r, i) = OpenFaults(t, i)
<1>1. /\ n \in Nat /\ r.event[i] = t.event[i] /\ r.level[i] = t.level[i]
      /\ Charged(r.event, i) = Charged(t.event, i)
      /\ \A j \in 1 .. n : r.event[j] = t.event[j]
    BY DEF Agree
<1>2. {j \in 1 .. i : IsOpen(r.event[j])} = {j \in 1 .. i : IsOpen(t.event[j])}
    <2>1. \A j \in 1 .. i : j \in 1 .. n
        BY <1>1
    <2> QED BY <1>1, <2>1
<1>3. \A k : ChargedAt(r.event, i, k) = ChargedAt(t.event, i, k)
    BY <1>1 DEF ChargedAt
<1> QED BY <1>1, <1>2, <1>3 DEF OpenFaults

LEMMA EventFaultsAlike ==
    ASSUME NEW t, NEW r, NEW n, Agree(t, r, n), NEW i \in 1 .. n
    PROVE  EventFaults(r, i) = EventFaults(t, i)
<1>1. r.event[i] = t.event[i] /\ Charged(r.event, i) = Charged(t.event, i)
    BY DEF Agree
<1>2. OpenFaults(r, i) = OpenFaults(t, i)
    BY OpenFaultsAlike
<1> QED BY <1>1, <1>2 DEF EventFaults

\* An element whose parent is a leaf has no part that stands in an order.
LeavesApart(t, n) ==
    \A i \in 1 .. n : t.part[i] \in Range(Blocks) \cup {"MELLEKLETEK"} /\ IsOpen(t.event[i]) =>
        t.parent[i] # 0 /\ t.part[t.parent[i]] # "leaf"

LEMMA PlaceFaultsAlike ==
    ASSUME NEW t, NEW r, NEW n, Agree(t, r, n), NEW i \in 1 .. n, IsOpen(t.event[i]), LeavesApart(t, n)
    PROVE  PlaceFaults(r, i) = PlaceFaults(t, i)
<1>1. /\ n \in Nat /\ r.event[i] = t.event[i] /\ r.parent[i] = t.parent[i] /\ r.part[i] = t.part[i]
      /\ t.parent[i] \in 0 .. i - 1 /\ \A j \in 1 .. n : r.part[j] = t.part[j]
    BY DEF Agree
<1>2. PICK p : p = t.parent[i] /\ p = r.parent[i]
    BY <1>1
<1>3. p # 0 => r.part[p] = t.part[p]
    <2>1. p # 0 => p \in 1 .. n
        BY <1>1, <1>2
    <2> QED BY <1>1, <2>1
<1>4. Twins(r, i) = Twins(t, i) /\ (Late(r, i) <=> Late(t, i))
    BY TwinsAlike
<1>5. i \in Nat
    BY <1>1
<1>6. CASE p = 0
    <2>1. CASE t.event[i].binding # "target"
        <3>1. PlaceFaults(t, i) = {"unsupported.namespace"}
            BY <1>2, <1>5, <1>6, <2>1, PlaceFaultsAre
        <3>2. PlaceFaults(r, i) = {"unsupported.namespace"}
            BY <1>1, <1>2, <1>5, <1>6, <2>1, PlaceFaultsAre
        <3> QED BY <3>1, <3>2
    <2>2. CASE t.event[i].binding = "target"
        <3>1. PlaceFaults(t, i) = IF t.event[i].name = "KULDEMENY" THEN {} ELSE {"malformed.root_element"}
            <4>1. p = 0 /\ t.event[i].binding = "target" /\ p = t.parent[i]
                BY <1>2, <1>6, <2>2
            <4> QED BY <1>5, <4>1, PlaceFaultsAre
        <3>2. PlaceFaults(r, i) = IF r.event[i].name = "KULDEMENY" THEN {} ELSE {"malformed.root_element"}
            BY <1>1, <1>2, <1>5, <1>6, <2>2, PlaceFaultsAre
        <3> QED BY <1>1, <3>1, <3>2
    <2> QED BY <2>1, <2>2
<1>7. CASE p # 0 /\ t.part[p] = "leaf"
    <2>1. t.part[i] \notin Range(Blocks) \cup {"MELLEKLETEK"}
        BY <1>2, <1>7 DEF LeavesApart
    <2>2. PlaceFaults(t, i) = {"malformed.unexpected_child"}
        BY <1>2, <1>5, <1>7, <2>1, PlaceFaultsAre
    <2>3. PlaceFaults(r, i) = {"malformed.unexpected_child"}
        BY <1>1, <1>2, <1>3, <1>5, <1>7, <2>1, PlaceFaultsAre
    <2> QED BY <2>2, <2>3
<1>8. CASE p # 0 /\ t.part[p] # "leaf" /\ t.part[i] \in Range(Blocks) \cup {"MELLEKLETEK"}
    <2>1. PlaceFaults(t, i) =
                    IF Twins(t, i) # {} THEN {"malformed.duplicate_element"}
                    ELSE IF t.part[i] \in Range(Blocks) /\ Late(t, i) THEN {"malformed.element_order"}
                         ELSE {}
        BY <1>2, <1>5, <1>8, PlaceFaultsAre
    <2>2. PlaceFaults(r, i) =
                    IF Twins(r, i) # {} THEN {"malformed.duplicate_element"}
                    ELSE IF r.part[i] \in Range(Blocks) /\ Late(r, i) THEN {"malformed.element_order"}
                         ELSE {}
        BY <1>1, <1>2, <1>3, <1>5, <1>8, PlaceFaultsAre
    <2> QED BY <1>1, <1>4, <2>1, <2>2
<1>9. CASE p # 0 /\ t.part[p] # "leaf" /\ t.part[i] \notin Range(Blocks) \cup {"MELLEKLETEK"}
    <2>2. PlaceFaults(t, i) = {}
        BY <1>2, <1>5, <1>9, PlaceFaultsAre
    <2>3. PlaceFaults(r, i) = {}
        BY <1>1, <1>2, <1>3, <1>5, <1>9, PlaceFaultsAre
    <2> QED BY <2>2, <2>3
<1> QED BY <1>6, <1>7, <1>8, <1>9

LEMMA ValueFaultsAlike ==
    ASSUME NEW t, NEW r, NEW n, Agree(t, r, n), NEW i \in 1 .. n,
           t.part[i] = "leaf" => t.parent[i] # 0
    PROVE  ValueFaults(r, i) = ValueFaults(t, i)
<1>1. /\ n \in Nat /\ r.parent[i] = t.parent[i] /\ r.part[i] = t.part[i]
      /\ t.parent[i] \in 0 .. i - 1 /\ \A j \in 1 .. n : r.part[j] = t.part[j]
      /\ \A part : \A j : j \in At(r, part) <=> j \in At(t, part) /\ j \in 1 .. n
    BY DEF Agree
<1>2. \A name : Leaf(r, i, name) = Leaf(t, i, name)
    BY LeafAlike
<1>3. Content(r, i) = Content(t, i)
    BY ContentAlike
<1>4. Twins(r, i) = Twins(t, i)
    BY TwinsAlike
<1>5. Children(r, i) \cap At(r, "FEJRESZ") = Children(t, i) \cap At(t, "FEJRESZ")
    BY <1>1, ChildrenAlike
<1>6. t.parent[i] # 0 => r.part[t.parent[i]] = t.part[t.parent[i]]
    <2>1. t.parent[i] # 0 => t.parent[i] \in 1 .. n
        BY <1>1
    <2> QED BY <1>1, <2>1
<1>7. CASE t.part[i] = "FEJRESZ"
    <2>1. ValueFaults(t, i) =
                (IF \E m \in HeaderRequired : Leaf(t, i, m) = {} THEN {"malformed.missing_element"} ELSE {})
                \cup (IF /\ Leaf(t, i, "FORRASRENDSZER_AZONOSITO") \subseteq Tokens(SourceSystem)
                         /\ Leaf(t, i, "KULDEMENY_TIPUS") \subseteq Tokens(ConsignmentKind)
                      THEN {} ELSE {"malformed.enumeration"})
                \cup (IF Leaf(t, i, "TESZT") \subseteq Yes \cup No THEN {} ELSE {"malformed.boolean"})
        BY <1>7, ValueFaultsAre
    <2>2. ValueFaults(r, i) =
                (IF \E m \in HeaderRequired : Leaf(r, i, m) = {} THEN {"malformed.missing_element"} ELSE {})
                \cup (IF /\ Leaf(r, i, "FORRASRENDSZER_AZONOSITO") \subseteq Tokens(SourceSystem)
                         /\ Leaf(r, i, "KULDEMENY_TIPUS") \subseteq Tokens(ConsignmentKind)
                      THEN {} ELSE {"malformed.enumeration"})
                \cup (IF Leaf(r, i, "TESZT") \subseteq Yes \cup No THEN {} ELSE {"malformed.boolean"})
        BY <1>1, <1>7, ValueFaultsAre
    <2>3. \A names : (\E m \in names : Leaf(r, i, m) = {}) <=> \E m \in names : Leaf(t, i, m) = {}
        BY <1>2
    <2> QED BY <1>2, <2>1, <2>2, <2>3
<1>8. CASE t.part[i] = "MELLEKLET"
    <2>1. ValueFaults(t, i) =
                (IF \E m \in AttachmentRequired : Leaf(t, i, m) = {}
                 THEN {"malformed.missing_element"} ELSE {})
                \cup (IF Leaf(t, i, "CSATOLMANY_SZAMA") \subseteq DOMAIN Numeral
                      THEN {} ELSE {"malformed.integer"})
        BY <1>8, ValueFaultsAre
    <2>2. ValueFaults(r, i) =
                (IF \E m \in AttachmentRequired : Leaf(r, i, m) = {}
                 THEN {"malformed.missing_element"} ELSE {})
                \cup (IF Leaf(r, i, "CSATOLMANY_SZAMA") \subseteq DOMAIN Numeral
                      THEN {} ELSE {"malformed.integer"})
        BY <1>1, <1>8, ValueFaultsAre
    <2>3. \A names : (\E m \in names : Leaf(r, i, m) = {}) <=> \E m \in names : Leaf(t, i, m) = {}
        BY <1>2
    <2> QED BY <1>2, <2>1, <2>2, <2>3
<1>9. CASE t.part[i] = "KULDEMENY"
    BY <1>1, <1>5, <1>9, ValueFaultsAre, ZenonT(30)
<1>10. CASE t.part[i] = "leaf"
    <2>1. ValueFaults(t, i) =
                (IF Twins(t, i) = {} THEN {} ELSE {"malformed.duplicate_element"})
                \cup (IF \/ t.part[t.parent[i]] # "EXPEDIALAS"
                         \/ Content(t, i) \in DOMAIN Numeral THEN {} ELSE {"malformed.integer"})
        BY <1>10, ValueFaultsAre
    <2>2. ValueFaults(r, i) =
                (IF Twins(r, i) = {} THEN {} ELSE {"malformed.duplicate_element"})
                \cup (IF \/ r.part[r.parent[i]] # "EXPEDIALAS"
                         \/ Content(r, i) \in DOMAIN Numeral THEN {} ELSE {"malformed.integer"})
        BY <1>1, <1>10, ValueFaultsAre
    <2>3. r.part[r.parent[i]] = t.part[t.parent[i]]
        BY <1>1, <1>6, <1>10
    <2> QED BY <1>3, <1>4, <2>1, <2>2, <2>3
<1>11. CASE t.part[i] \notin {"FEJRESZ", "MELLEKLET", "KULDEMENY", "leaf"}
    BY <1>1, <1>11, ValueFaultsAre
<1> QED BY <1>7, <1>8, <1>9, <1>10, <1>11

LEMMA FaultsAlike ==
    ASSUME NEW t, NEW r, NEW n, Agree(t, r, n), LeavesApart(t, n),
           \A i \in 1 .. n : t.part[i] = "leaf" => t.parent[i] # 0
    PROVE  \A i \in 1 .. n : FaultsAt(r, i) = FaultsAt(t, i)
<1> TAKE i \in 1 .. n
<1>1. n \in Nat /\ \A j \in 1 .. n : r.event[j] = t.event[j] /\ r.close[j] = t.close[j]
    BY DEF Agree
<1>2. EventFaults(r, i) = EventFaults(t, i)
    BY EventFaultsAlike
<1>3. IsOpen(t.event[i]) => PlaceFaults(r, i) = PlaceFaults(t, i)
    BY PlaceFaultsAlike
<1>4. \A j \in 1 .. n : ValueFaults(r, j) = ValueFaults(t, j)
    BY ValueFaultsAlike
<1>5. \A j \in 1 .. i : j \in 1 .. n
    BY <1>1
<1>6. {j \in 1 .. i : IsOpen(r.event[j]) /\ r.close[j] = i} =
            {j \in 1 .. i : IsOpen(t.event[j]) /\ t.close[j] = i}
    BY <1>1, <1>5
<1>7. {ValueFaults(r, j) : j \in {j \in 1 .. i : IsOpen(r.event[j]) /\ r.close[j] = i}} =
            {ValueFaults(t, j) : j \in {j \in 1 .. i : IsOpen(t.event[j]) /\ t.close[j] = i}}
    BY <1>4, <1>5, <1>6
<1>8. (IF IsOpen(r.event[i]) THEN PlaceFaults(r, i) ELSE {}) =
            IF IsOpen(t.event[i]) THEN PlaceFaults(t, i) ELSE {}
    BY <1>1, <1>3
<1> QED BY <1>2, <1>7, <1>8 DEF FaultsAt

-----------------------------------------------------------------------------
(* The first of the faults.                                                *)

\* No fault shows before event s.
FaultlessTo(t, s) == \A i \in 1 .. s - 1 : FaultsAt(t, i) = {}

\* What is read of a document is all of it, or ends with its first element.
LEMMA ReadIs ==
    ASSUME NEW d \in Seq(Event), NEW t, t = Tree(d), NEW f, f = FirstElement(t), NEW r, r = Read(t)
    PROVE  /\ f \notin 1 .. Len(d) => End(t) \notin 1 .. Len(d) /\ r = t
           /\ f \in 1 .. Len(d) => End(t) = t.close[f] /\ t.close[f] >= f
           /\ End(t) \notin 1 .. Len(d) => r = t
           /\ End(t) \in 1 .. Len(d) =>
                 f \in 1 .. Len(d) /\ r = Tree(SubSeq(d, 1, End(t))) /\ Agree(t, r, End(t))
<1>1. t.event = d /\ DOMAIN d = 1 .. Len(d) /\ Len(d) \in Nat
    BY TreeIs
<1>2. End(t) = IF f \in 1 .. Len(d) THEN t.close[f] ELSE f
    BY <1>1 DEF End
<1>3. r = IF End(t) \in 1 .. Len(d) THEN Tree(SubSeq(d, 1, End(t))) ELSE t
    <2> HIDE DEF Tree, End
    <2> QED BY <1>1 DEF Read
<1>4. ASSUME End(t) \in 1 .. Len(d)
      PROVE  f \in 1 .. Len(d) /\ Agree(t, r, End(t))
    <2>1. f \in 1 .. Len(d)
        BY <1>2, <1>4
    <2>2. PICK n, e : n = End(t) /\ e = SubSeq(d, 1, n)
        OBVIOUS
    <2>3. n \in 1 .. Len(d) /\ n = t.close[f] /\ r = Tree(e)
        BY <1>2, <1>3, <1>4, <2>1, <2>2
    <2>4. Cut(d, e, n)
        BY <2>2, <2>3, CutIs
    <2>5. Agree(t, r, n)
        BY <2>1, <2>3, <2>4, ReadAgrees
    <2> QED BY <2>1, <2>2, <2>5
<1>5. f \in 1 .. Len(d) => t.close[f] >= f
    BY CloseIs
<1> HIDE DEF End, Tree
<1> QED BY <1>2, <1>3, <1>4, <1>5

LEMMA ReadFaultsAlike ==
    ASSUME NEW d \in Seq(Event), NEW t, t = Tree(d), NEW r, NEW n \in 1 .. Len(d), Agree(t, r, n)
    PROVE  \A i \in 1 .. n : FaultsAt(r, i) = FaultsAt(t, i)
<1>1. t.event = d /\ Len(d) \in Nat
    BY TreeIs
<1>2. \A i \in 1 .. n : i \in 1 .. Len(d)
    BY <1>1
<1>3. ASSUME NEW i \in 1 .. n
      PROVE  /\ t.part[i] \in Range(Blocks) \cup {"MELLEKLETEK"} /\ IsOpen(t.event[i]) =>
                    t.parent[i] # 0 /\ t.part[t.parent[i]] # "leaf"
             /\ t.part[i] = "leaf" => t.parent[i] # 0
    <2>1. PICK p, part : p = t.parent[i] /\ part = t.part[i]
        OBVIOUS
    <2>2. i \in 1 .. Len(d)
        BY <1>2
    <2>3. /\ part \in Range(Blocks) => p # 0 /\ t.part[p] = "KULDEMENY"
          /\ part = "MELLEKLETEK" => p # 0 /\ t.part[p] = "EXPEDIALAS"
          /\ part = "leaf" => p # 0
        BY <2>1, <2>2, PartMeans
    <2> QED BY <2>1, <2>3
<1>4. LeavesApart(t, n) /\ \A i \in 1 .. n : t.part[i] = "leaf" => t.parent[i] # 0
    BY <1>3 DEF LeavesApart
<1> QED BY <1>4, FaultsAlike

\* The faults that show first are what is said.
LEMMA FaultsFirst ==
    ASSUME NEW r, NEW m \in Nat, DOMAIN r.event = 1 .. m, NEW s \in 1 .. m, FaultlessTo(r, s),
           FaultsAt(r, s) # {}
    PROVE  Faults(r) = FaultsAt(r, s)
<1> DEFINE faulty == {i \in DOMAIN r.event : FaultsAt(r, i) # {}}
<1>1. faulty \subseteq Nat /\ s \in faulty
    OBVIOUS
<1>2. Min(faulty) \in faulty /\ Min(faulty) <= s
    <2> HIDE DEF faulty
    <2> QED BY <1>1, MinIs
<1>3. Min(faulty) = s
    <2>1. PICK x : x = Min(faulty)
        OBVIOUS
    <2>2. x \in 1 .. m /\ FaultsAt(r, x) # {} /\ x <= s
        BY <1>2, <2>1
    <2>3. ~(x \in 1 .. s - 1)
        BY <2>2 DEF FaultlessTo
    <2> HIDE DEF faulty
    <2> QED BY <2>1, <2>2, <2>3
<1>4. Faults(r) = FaultsAt(r, Min(faulty))
    BY <1>1 DEF Faults
<1> HIDE DEF faulty
<1> QED BY <1>3, <1>4

\* An attachment list, and a dispatch, that end before event n are what they
\* are in the whole document.
LEMMA DispatchAlike ==
    ASSUME NEW d \in Seq(Event), NEW t, t = Tree(d), NEW n \in 1 .. Len(d), NEW r, Agree(t, r, n),
           NEW i \in 1 .. n
    PROVE  DispatchAt(r, i) = DispatchAt(t, i)
<1> DEFINE lists(x) == Children(x, i) \cap At(x, "MELLEKLETEK")
           held(x) == {j \in At(x, "MELLEKLET") : x.parent[j] \in lists(x)}
<1>0. n \in Nat /\ Len(d) \in Nat /\ t.event = d
    BY TreeIs
<1>1. Children(r, i) = Children(t, i) /\ \A j \in Children(t, i) : j \in 1 .. n
    BY ChildrenAlike
<1>2. /\ \A part : \A j : j \in At(r, part) <=> j \in At(t, part) /\ j \in 1 .. n
      /\ \A j \in 1 .. n : r.parent[j] = t.parent[j] /\ t.close[j] \in j .. n
    BY DEF Agree
<1> HIDE DEF Tree
<1>3. lists(r) = lists(t) /\ \A j \in lists(t) : j \in 1 .. n
    BY <1>1, <1>2
<1>4. Children(r, i) \cap At(r, "instructions") = Children(t, i) \cap At(t, "instructions")
    BY <1>1, <1>2
<1>5. ASSUME NEW j \in At(t, "MELLEKLET"), t.parent[j] \in lists(t) PROVE j \in 1 .. n
    <2>1. PICK p, part : p = t.parent[j] /\ part = t.part[j]
        OBVIOUS
    <2>2. part = "MELLEKLET" /\ j \in DOMAIN t.part
        BY <2>1 DEF At
    <2>3. DOMAIN t.part = 1 .. Len(d)
        BY TreeParts
    <2>4. j \in 1 .. Len(d)
        BY <2>2, <2>3
    <2>5. IsOpen(d[j]) /\ p # 0
        <3>1. /\ part # "none" <=> IsOpen(d[j])
              /\ part = "MELLEKLET" => p # 0
            BY <2>1, <2>4, PartMeans
        <3> QED BY <2>2, <3>1
    <2>6. j < t.close[p] /\ p \in 1 .. n
        BY <1>3, <1>5, <2>1, <2>4, <2>5, ParentEncloses
    <2>7. t.close[p] \in p .. n
        BY <1>2, <2>6
    <2> QED BY <1>0, <2>4, <2>6, <2>7
<1>6. held(r) = held(t) /\ held(t) \subseteq 1 .. n
    <2>1. \A j : j \in held(r) => j \in held(t)
        BY <1>2, <1>3
    <2>2. \A j : j \in held(t) => j \in held(r) /\ j \in 1 .. n
        BY <1>2, <1>3, <1>5
    <2> HIDE DEF held
    <2> QED BY <2>1, <2>2
<1> DEFINE items == InOrder(held(t))
<1>7. \A k \in DOMAIN items : items[k] \in 1 .. n
    <2>1. PICK S : S = held(t)
        OBVIOUS
    <2>2. S \subseteq 1 .. n
        BY <1>6, <2>1
    <2>3. InOrder(S) \in Seq(S)
        BY <1>0, <2>2, InOrderIs
    <2>4. \A k \in DOMAIN InOrder(S) : InOrder(S)[k] \in S
        BY <2>3
    <2> HIDE DEF held
    <2> QED BY <2>1, <2>2, <2>4
<1>8. [k \in DOMAIN items |-> AttachmentAt(r, items[k])] = [k \in DOMAIN items |-> AttachmentAt(t, items[k])]
    <2> HIDE DEF items
    <2>1. \A k \in DOMAIN items : AttachmentAt(r, items[k]) = AttachmentAt(t, items[k])
        BY <1>7, ValuesAlike
    <2> QED BY <2>1
<1>9. Leaf(r, i, "MELLEKLETEK_SZAMA") = Leaf(t, i, "MELLEKLETEK_SZAMA")
    BY LeafAlike
<1>10. \A x : DispatchAt(x, i) =
        [declared_attachment_count |-> {Numeral[c] : c \in Leaf(x, i, "MELLEKLETEK_SZAMA")},
         attachments |-> [k \in DOMAIN InOrder(held(x)) |-> AttachmentAt(x, InOrder(held(x))[k])],
         attachments_present |-> lists(x) # {},
         handling_instructions_unqualified |-> Children(x, i) \cap At(x, "instructions") # {}]
    BY Zenon DEF DispatchAt
<1>11. [k \in DOMAIN InOrder(held(r)) |-> AttachmentAt(r, InOrder(held(r))[k])] =
       [k \in DOMAIN InOrder(held(t)) |-> AttachmentAt(t, InOrder(held(t))[k])]
    <2> HIDE DEF held
    <2> QED BY <1>6, <1>8
<1> HIDE DEF held, lists, items
<1> QED BY <1>3, <1>4, <1>9, <1>10, <1>11

LEMMA FaultlessStep ==
    ASSUME NEW t, NEW n \in Nat, FaultlessTo(t, n), FaultsAt(t, n) = {}
    PROVE  FaultlessTo(t, n + 1)
<1>1. ASSUME NEW i \in 1 .. n + 1 - 1 PROVE FaultsAt(t, i) = {}
    <2>1. i = n \/ i \in 1 .. n - 1
        OBVIOUS
    <2> QED BY <2>1 DEF FaultlessTo
<1> QED BY <1>1 DEF FaultlessTo

\* A document without a fault as far as the end of its first element.
LEMMA NoFaults ==
    ASSUME NEW d \in Seq(Event), NEW t, t = Tree(d), NEW a, a = FirstElement(t), a \in 1 .. Len(d),
           NEW n \in 1 .. Len(d), t.close[a] = n, FaultlessTo(t, n + 1), NEW r, r = Read(t)
    PROVE  Agree(t, r, n) /\ Faults(r) = {}
<1>1. End(t) = n
    BY ReadIs
<1>2. PICK e : e = SubSeq(d, 1, n)
    OBVIOUS
<1>3. r = Tree(e) /\ Agree(t, r, n)
    <2>1. End(t) \in 1 .. Len(d)
        BY <1>1
    <2>2. r = Tree(SubSeq(d, 1, End(t))) /\ Agree(t, r, End(t))
        BY <2>1, ReadIs
    <2> QED BY <1>1, <1>2, <2>2
<1>4. Cut(d, e, n)
    BY <1>2, CutIs
<1>5. e \in Seq(Event) /\ Len(e) = n /\ n \in Nat /\ \A i \in 1 .. n : e[i] = d[i]
    BY <1>4 DEF Cut
<1>6. r.event = e /\ DOMAIN r.event = 1 .. n /\ t.event = d
    BY <1>3, <1>5, TreeIs
<1>7. a \in 1 .. n /\ IsOpen(d[a]) /\ \A i \in 1 .. Len(d) : IsOpen(d[i]) => a <= i
    <2>1. t.close[a] >= a
        BY CloseIs
    <2>2. IsOpen(d[a]) /\ \A i \in 1 .. Len(d) : IsOpen(d[i]) => a <= i
        BY <1>6, FirstIs
    <2> QED BY <2>1, <2>2
<1>8. FirstElement(r) = a
    <2>1. PICK f : f = FirstElement(r)
        OBVIOUS
    <2>2. /\ f \in 1 .. n + 1
          /\ f \in 1 .. n => IsOpen(e[f])
          /\ \A i \in 1 .. n : IsOpen(e[i]) => f <= i
        BY <1>5, <1>6, <2>1, FirstIs
    <2>3. IsOpen(e[a])
        BY <1>5, <1>7
    <2>4. f <= a /\ f \in 1 .. n
        BY <1>5, <1>7, <2>2, <2>3
    <2>5. IsOpen(d[f]) /\ f \in 1 .. Len(d)
        BY <1>5, <2>2, <2>4 DEF Cut
    <2>6. a <= f
        BY <1>7, <2>5
    <2> QED BY <1>5, <1>7, <2>1, <2>4, <2>6
<1>9. r.close[a] = n
    BY <1>3, <1>7 DEF Agree
<1>10. End(r) \in DOMAIN r.event
    <2>1. End(r) = r.close[a]
        BY <1>6, <1>7, <1>8 DEF End
    <2> QED BY <1>5, <1>6, <1>9, <2>1
<1>11. \A i \in 1 .. n : FaultsAt(r, i) = {}
    <2>1. \A i \in 1 .. n : FaultsAt(r, i) = FaultsAt(t, i)
        BY <1>3, ReadFaultsAlike
    <2>2. \A i \in 1 .. n : i \in 1 .. n + 1 - 1
        BY <1>5
    <2> QED BY <2>1, <2>2 DEF FaultlessTo
<1>12. {i \in DOMAIN r.event : FaultsAt(r, i) # {}} = {}
    BY <1>6, <1>11
<1> QED BY <1>3, <1>10, <1>12 DEF Faults

LEMMA CutOut ==
    ASSUME NEW s, IsSequence(s), NEW m \in Nat \ {0}, NEW n \in 0 .. Len(s), m <= n + 1
    PROVE  /\ IsSequence(SubSeq(s, m, n)) /\ Len(SubSeq(s, m, n)) = n + 1 - m
           /\ \A i \in 1 .. n + 1 - m : SubSeq(s, m, n)[i] = s[m + i - 1]
<1>1. PICK S : s \in Seq(S)
    BY DEF IsSequence
<1>2. SubSeq(s, m, n) = [i \in 1 .. (n + 1 - m) |-> s[m + i - 1]]
    BY <1>1
<1> DEFINE t == SubSeq(s, m, n)
<1>3. n + 1 - m \in Nat
    BY <1>1
<1>4. t = [i \in 1 .. (n + 1 - m) |-> t[i]]
    BY <1>2
<1> HIDE DEF t
<1>5. IsSequence(t) /\ Len(t) = n + 1 - m
    BY <1>3, <1>4, SequenceBy
<1> QED BY <1>2, <1>5 DEF t

\* SubSeq, for the whole range of what is cut out.
LEMMA CutBy ==
    ASSUME NEW s, IsSequence(s), NEW n \in 0 .. Len(s), NEW c, c = SubSeq(s, 1, n)
    PROVE  IsSequence(c) /\ Len(c) = n /\ \A i \in 1 .. n : c[i] = s[i]
<1>1. 1 \in Nat \ {0} /\ 1 <= n + 1 /\ n + 1 - 1 = n /\ \A i \in 1 .. n : 1 + i - 1 = i
    OBVIOUS
<1>2. /\ IsSequence(SubSeq(s, 1, n)) /\ Len(SubSeq(s, 1, n)) = n + 1 - 1
      /\ \A i \in 1 .. n + 1 - 1 : SubSeq(s, 1, n)[i] = s[1 + i - 1]
    BY <1>1, CutOut
<1> QED BY <1>1, <1>2

\* The names of the document that is written are strings.
ElementNames == {"KULDEMENY", "EXPEDIALAS", "MELLEKLETEK", "MELLEKLETEK_SZAMA", "MELLEKLET",
          "KEZELESI_UTASITASOK", "FEJRESZ", "ERKEZTETES", "BONTASOK", "EXPEDIALASOK",
          "TERTIVEVENY"}
            \cup HeaderRequired \cup HeaderOptional \cup AttachmentRequired \cup AttachmentOptional

LEMMA NamesAreStrings == ElementNames \subseteq STRING
<1>1. {"FEJRESZ", "ERKEZTETES", "BONTASOK", "EXPEDIALASOK", "TERTIVEVENY"} \subseteq Range(Blocks)
    <2>1. Blocks = <<"FEJRESZ", "ERKEZTETES", "BONTASOK", "EXPEDIALASOK", "TERTIVEVENY">>
        BY DEF Blocks
    <2>2. /\ 1 \in DOMAIN Blocks /\ Blocks[1] = "FEJRESZ"
          /\ 2 \in DOMAIN Blocks /\ Blocks[2] = "ERKEZTETES"
          /\ 3 \in DOMAIN Blocks /\ Blocks[3] = "BONTASOK"
          /\ 4 \in DOMAIN Blocks /\ Blocks[4] = "EXPEDIALASOK"
          /\ 5 \in DOMAIN Blocks /\ Blocks[5] = "TERTIVEVENY"
        BY <2>1
    <2> QED BY <2>2 DEF Range
<1>2. ElementNames \subseteq Field
    BY <1>1 DEF ElementNames, Field
<1> QED BY <1>2, FieldAssumption

LEMMA EscapeIs == ASSUME NEW t \in Text PROVE Escape(t) \in Seq(Event)
<1>1. Len(t) \in Nat /\ DOMAIN t = 1 .. Len(t) /\ \A i \in 1 .. Len(t) : t[i] \in Piece
    BY DEF Text
<1>2. ASSUME NEW i \in 1 .. Len(t)
      PROVE  /\ [kind |-> "reference", pieces |-> <<t[i]>>] \in Event
             /\ [kind |-> "text", raw |-> 1, pieces |-> <<t[i]>>] \in Event
    <2>1. <<t[i]>> \in Text /\ Len(<<t[i]>>) = 1
        BY <1>1 DEF Text
    <2>2. [kind |-> "reference", pieces |-> <<t[i]>>] \in ReferenceEvent
        BY <2>1 DEF ReferenceEvent
    <2>3. [kind |-> "text", raw |-> 1, pieces |-> <<t[i]>>] \in TextEvent
        <3> DEFINE p == <<t[i]>>
                   e == [kind |-> "text", raw |-> 1, pieces |-> p]
        <3> HIDE DEF p
        <3>1. p \in Text /\ Len(p) = 1
            BY <2>1 DEF p
        <3>2. e \in [kind : {"text", "cdata"}, raw : Nat, pieces : Text]
            BY <3>1
        <3>3. e.raw = 1 /\ e.pieces = p
            OBVIOUS
        <3>4. Len(e.pieces) <= e.raw
            <4> HIDE DEF e
            <4>1. Len(e.pieces) = 1
                BY <3>1, <3>3, Zenon
            <4>2. 1 <= 1
                OBVIOUS
            <4> QED BY <3>3, <4>1, <4>2, Zenon
        <3> HIDE DEF e
        <3>5. e \in TextEvent
            BY <3>2, <3>4, Zenon DEF TextEvent
        <3> QED BY <3>5 DEF e, p
    <2> QED BY <2>2, <2>3 DEF Event
<1> DEFINE e == [i \in DOMAIN t |->
                    IF t[i] \in Escaped THEN [kind |-> "reference", pieces |-> <<t[i]>>]
                    ELSE [kind |-> "text", raw |-> 1, pieces |-> <<t[i]>>]]
<1>3. \A i \in 1 .. Len(t) : e[i] \in Event
    BY <1>1, <1>2
<1>4. e \in [1 .. Len(t) -> Event]
    BY <1>1, <1>2
<1>5. Escape(t) = e
    BY DEF Escape
<1> HIDE DEF e
<1> QED BY <1>1, <1>4, <1>5

LEMMA StartIs ==
    ASSUME NEW name \in STRING, NEW binding \in {"target", "unbound", "foreign", "unknown"},
           NEW attributes \in Seq(Attribute)
    PROVE  [kind |-> "start", name |-> name, binding |-> binding, attributes |-> attributes] \in Event
<1>1. [kind |-> "start", name |-> name, binding |-> binding, attributes |-> attributes] \in OpenEvent
    BY DEF OpenEvent
<1> QED BY <1>1 DEF Event

LEMMA EndIs == [kind |-> "end"] \in Event /\ <<[kind |-> "end"]>> \in Seq(Event)
<1>1. [kind |-> "end"] \in Event
    BY DEF Event, PlainEvent
<1> QED BY <1>1

LEMMA WordIsText == ASSUME NEW w \in Piece PROVE <<w>> \in Text
BY DEF Text

-----------------------------------------------------------------------------
(* A document that is written, piece by piece.                             *)

\* The first n events of s stand in d, behind position p.
Stands(s, n, d, p) == p \in Nat /\ n \in Nat /\ \A k \in 1 .. n : d[p + k] = s[k]

\* The level of a piece of a document adds to that of where it stands.
LEMMA LevelWithin ==
    ASSUME NEW d, NEW s, NEW p, NEW n, Stands(s, n, d, p)
    PROVE  \A k \in 1 .. n + 1 : Level(d, p + k) = Level(d, p + 1) + Level(s, k)
<1>0. p \in Nat /\ n \in Nat /\ \A k \in 1 .. n : d[p + k] = s[k]
    BY DEF Stands
<1> DEFINE Bad == {k \in 1 .. n + 1 : Level(d, p + k) # Level(d, p + 1) + Level(s, k)}
<1> SUFFICES ASSUME Bad # {} PROVE FALSE
    OBVIOUS
<1>1. PICK k \in Bad : \A j \in Bad : k <= j
    <2>1. Bad \subseteq Nat
        BY <1>0
    <2> HIDE DEF Bad
    <2> QED BY <2>1, LeastNumber
<1>2. k \in 1 .. n + 1 /\ Level(d, p + k) # Level(d, p + 1) + Level(s, k)
    OBVIOUS
<1>3. Level(d, p + 1) \in Int
    BY <1>0, LevelStep
<1>4. k # 1
    <2>1. Level(s, 1) = 0
        BY LevelStart
    <2> QED BY <1>2, <1>3, <2>1
<1> DEFINE m == k - 1
<1>5. m \in 1 .. n /\ m + 1 = k /\ m \in Nat \ {0} /\ p + m \in Nat \ {0} /\ (p + m) + 1 = p + k
    BY <1>0, <1>2, <1>4
<1>6. m \notin Bad
    BY <1>1, <1>5
<1> HIDE DEF m
<1>7. Level(d, p + m) = Level(d, p + 1) + Level(s, m)
    BY <1>0, <1>5, <1>6
<1>8. /\ Level(d, p + m) \in Int
      /\ Level(d, p + k) = Level(d, p + m)
            + (IF d[p + m].kind = "start" THEN 1 ELSE IF d[p + m].kind = "end" THEN -1 ELSE 0)
    BY <1>5, LevelStep
<1>9. /\ Level(s, m) \in Int
      /\ Level(s, k) = Level(s, m)
            + (IF s[m].kind = "start" THEN 1 ELSE IF s[m].kind = "end" THEN -1 ELSE 0)
    BY <1>5, LevelStep
<1>10. d[p + m] = s[m]
    BY <1>0, <1>5
<1> HIDE DEF Bad
<1> QED BY <1>2, <1>3, <1>7, <1>8, <1>9, <1>10

\* A piece in which what opens is closed, and nothing else is.
Balanced(s) ==
    /\ s \in Seq(Event) /\ Level(s, Len(s) + 1) = 0
    /\ \A k \in 1 .. Len(s) + 1 : Level(s, k) >= 0

\* The levels of two pieces, one behind the other.
LEMMA LevelJoined ==
    ASSUME NEW a \in Seq(Event), NEW b \in Seq(Event)
    PROVE  /\ \A k \in 1 .. Len(a) + 1 : Level(a \o b, k) = Level(a, k)
           /\ \A k \in 1 .. Len(b) + 1 :
                Level(a \o b, Len(a) + k) = Level(a, Len(a) + 1) + Level(b, k)
<1> DEFINE s == a \o b
           n == Len(a)
           m == Len(b)
<1>1. IsSequence(a) /\ IsSequence(b) /\ n \in Nat /\ m \in Nat
    BY DEF IsSequence
<1>2. (\A i \in 1 .. n : s[i] = a[i]) /\ \A i \in 1 .. m : s[n + i] = b[i]
    BY <1>1, Joined
<1> HIDE DEF s, n, m
<1>3. \A k \in 1 .. n + 1 : Level(s, k) = Level(a, k)
    BY <1>1, <1>2, LevelOfPart
<1>4. \A k \in 1 .. m + 1 : Level(s, n + k) = Level(s, n + 1) + Level(b, k)
    <2>1. Stands(b, m, s, n)
        BY <1>1, <1>2 DEF Stands
    <2> QED BY <2>1, LevelWithin
<1>5. Level(s, n + 1) = Level(a, n + 1)
    BY <1>1, <1>3
<1> QED BY <1>3, <1>4, <1>5 DEF s, n, m

LEMMA BalancedJoined ==
    ASSUME NEW a, NEW b, Balanced(a), Balanced(b)
    PROVE  Balanced(a \o b)
<1> DEFINE s == a \o b
           n == Len(a)
           m == Len(b)
<1>1. a \in Seq(Event) /\ b \in Seq(Event) /\ n \in Nat /\ m \in Nat
    BY DEF Balanced
<1>2. s \in Seq(Event) /\ Len(s) = n + m
    BY <1>1
<1>3. /\ \A k \in 1 .. n + 1 : Level(s, k) = Level(a, k)
      /\ \A k \in 1 .. m + 1 : Level(s, n + k) = Level(a, n + 1) + Level(b, k)
    BY <1>1, LevelJoined
<1>4. /\ Level(a, n + 1) = 0 /\ \A k \in 1 .. n + 1 : Level(a, k) >= 0
      /\ Level(b, m + 1) = 0 /\ \A k \in 1 .. m + 1 : Level(b, k) >= 0
    BY DEF Balanced
<1> HIDE DEF s, n, m
<1>5. \A k \in 1 .. m + 1 : Level(s, n + k) = Level(b, k)
    <2>1. \A k \in 1 .. m + 1 : Level(b, k) \in Int
        BY LevelStep
    <2> QED BY <1>3, <1>4, <2>1
<1>6. Level(s, n + m + 1) = 0
    <2>1. m + 1 \in 1 .. m + 1 /\ n + (m + 1) = n + m + 1
        BY <1>1
    <2> QED BY <1>4, <1>5, <2>1
<1>7. ASSUME NEW k \in 1 .. n + m + 1 PROVE Level(s, k) >= 0
    <2>1. CASE k <= n
        BY <1>1, <1>3, <1>4, <2>1
    <2>2. CASE ~(k <= n)
        <3>1. k - n \in 1 .. m + 1 /\ n + (k - n) = k
            BY <1>1, <2>2
        <3> QED BY <1>4, <1>5, <3>1
    <2> QED BY <2>1, <2>2
<1> QED BY <1>2, <1>6, <1>7 DEF Balanced, s

\* Where nothing opens or closes the level stays.
LEMMA BalancedFlat ==
    ASSUME NEW s \in Seq(Event), \A k \in 1 .. Len(s) : s[k].kind \notin {"start", "end"}
    PROVE  Balanced(s) /\ \A k \in 1 .. Len(s) + 1 : Level(s, k) = 0
<1> DEFINE n == Len(s)
           Bad == {k \in 1 .. n + 1 : Level(s, k) # 0}
<1>1. n \in Nat
    OBVIOUS
<1>2. ASSUME Bad # {} PROVE FALSE
    <2>1. PICK k \in Bad : \A j \in Bad : k <= j
        <3>1. Bad \subseteq Nat
            OBVIOUS
        <3> HIDE DEF Bad
        <3> QED BY <1>2, <3>1, LeastNumber
    <2>2. k \in 1 .. n + 1 /\ Level(s, k) # 0
        OBVIOUS
    <2>3. k # 1
        BY <2>2, LevelStart
    <2>4. k - 1 \in 1 .. n /\ k - 1 \in Nat \ {0} /\ (k - 1) + 1 = k
        BY <1>1, <2>2, <2>3
    <2>5. Level(s, k - 1) = 0
        BY <2>1, <2>4
    <2>6. Level(s, (k - 1) + 1) = Level(s, k - 1)
            + (IF s[k - 1].kind = "start" THEN 1 ELSE IF s[k - 1].kind = "end" THEN -1 ELSE 0)
        BY <2>4, LevelStep
    <2> QED BY <2>2, <2>4, <2>5, <2>6
<1>3. \A k \in 1 .. n + 1 : Level(s, k) = 0
    BY <1>2
<1> QED BY <1>1, <1>3 DEF Balanced

LEMMA BalancedNone == Balanced(<<>>)
<1> DEFINE s == <<>>
<1>1. s \in Seq(Event) /\ Len(s) = 0
    OBVIOUS
<1> HIDE DEF s
<1>2. \A k \in 1 .. Len(s) : s[k].kind \notin {"start", "end"}
    BY <1>1
<1>3. Balanced(s)
    BY <1>1, <1>2, BalancedFlat
<1> QED BY <1>3 DEF s

\* What an element is made of.
IsStart(e) == e \in Event /\ e.kind = "start"
EndEvent == [kind |-> "end"]
Around(st, x) == <<st>> \o x \o <<EndEvent>>

LEMMA AroundIs ==
    ASSUME NEW st, IsStart(st), NEW x \in Seq(Event), NEW s, s = Around(st, x)
    PROVE  /\ s \in Seq(Event) /\ Len(s) = Len(x) + 2 /\ Len(x) \in Nat
           /\ s[1] = st /\ s[Len(x) + 2] = EndEvent
           /\ \A k \in 1 .. Len(x) : s[1 + k] = x[k]
<1> DEFINE n == Len(x)
           a == <<st>>
           b == a \o x
           c == <<EndEvent>>
<1>1. a \in Seq(Event) /\ Len(a) = 1 /\ a[1] = st
    BY DEF IsStart
<1>2. c \in Seq(Event) /\ Len(c) = 1 /\ c[1] = EndEvent
    BY EndIs DEF EndEvent
<1>3. s = b \o c /\ n \in Nat
    BY DEF Around
<1> HIDE DEF a, c
<1>4. b \in Seq(Event) /\ Len(b) = 1 + n /\ b[1] = st /\ \A k \in 1 .. n : b[1 + k] = x[k]
    <2>1. IsSequence(a) /\ IsSequence(x)
        BY <1>1 DEF IsSequence
    <2>2. b \in Seq(Event)
        BY <1>1
    <2>3. /\ Len(b) = Len(a) + Len(x) /\ \A i \in 1 .. Len(a) : b[i] = a[i]
          /\ \A i \in 1 .. Len(x) : b[Len(a) + i] = x[i]
        BY <2>1, Joined
    <2> HIDE DEF b
    <2> QED BY <1>1, <2>2, <2>3
<1> HIDE DEF b
<1>5. /\ s \in Seq(Event) /\ Len(s) = n + 2 /\ s[n + 2] = EndEvent
      /\ \A k \in 1 .. n + 1 : s[k] = b[k]
    <2>1. IsSequence(b) /\ IsSequence(c)
        BY <1>2, <1>4 DEF IsSequence
    <2>2. s \in Seq(Event)
        BY <1>2, <1>3, <1>4
    <2>3. /\ Len(s) = Len(b) + Len(c) /\ \A i \in 1 .. Len(b) : s[i] = b[i]
          /\ \A i \in 1 .. Len(c) : s[Len(b) + i] = c[i]
        BY <1>3, <2>1, Joined
    <2> HIDE DEF n
    <2> QED BY <1>2, <1>3, <1>4, <2>2, <2>3
<1> HIDE DEF n
<1>6. \A k \in 1 .. n : 1 + k \in 1 .. n + 1 /\ s[1 + k] = x[k]
    BY <1>3, <1>4, <1>5
<1> QED BY <1>3, <1>4, <1>5, <1>6 DEF n

LEMMA BalancedAround ==
    ASSUME NEW st, IsStart(st), NEW x, Balanced(x)
    PROVE  /\ Balanced(Around(st, x))
           /\ \A k \in 1 .. Len(x) + 1 : Level(Around(st, x), 1 + k) = 1 + Level(x, k)
<1> DEFINE s == Around(st, x)
           n == Len(x)
<1>1. x \in Seq(Event) /\ Level(x, n + 1) = 0 /\ \A k \in 1 .. n + 1 : Level(x, k) >= 0
    BY DEF Balanced
<1>2. /\ s \in Seq(Event) /\ Len(s) = n + 2 /\ n \in Nat
      /\ s[1] = st /\ s[n + 2] = EndEvent
      /\ \A k \in 1 .. n : s[1 + k] = x[k]
    BY <1>1, AroundIs
<1> HIDE DEF s, n
<1>3. Level(s, 1) = 0 /\ Level(s, 2) = 1
    <2>1. Level(s, 1) = 0
        BY LevelStart
    <2>2. Level(s, 1 + 1) = Level(s, 1) + (IF s[1].kind = "start" THEN 1
                                         ELSE IF s[1].kind = "end" THEN -1 ELSE 0)
        BY LevelStep
    <2> QED BY <1>2, <2>1, <2>2 DEF IsStart
<1>4. \A k \in 1 .. n + 1 : Level(s, 1 + k) = 1 + Level(x, k)
    <2>1. \A k \in 1 .. n + 1 : Level(s, 1 + k) = Level(s, 1 + 1) + Level(x, k)
        <3>1. Stands(x, n, s, 1)
            BY <1>2 DEF Stands
        <3> QED BY <3>1, LevelWithin
    <2> QED BY <1>3, <2>1
<1>5. Level(s, n + 3) = 0
    <2>1. Level(s, (n + 2) + 1) = Level(s, n + 2)
            + (IF s[n + 2].kind = "start" THEN 1 ELSE IF s[n + 2].kind = "end" THEN -1 ELSE 0)
        <3>1. n + 2 \in Nat \ {0}
            BY <1>2
        <3> QED BY <3>1, LevelStep
    <2>2. Level(s, n + 2) = 1
        <3>1. n + 1 \in 1 .. n + 1 /\ 1 + (n + 1) = n + 2
            BY <1>2
        <3> QED BY <1>1, <1>4, <3>1
    <2>3. (n + 2) + 1 = n + 3
        BY <1>2
    <2> QED BY <1>2, <2>1, <2>2, <2>3 DEF EndEvent
<1>6. ASSUME NEW k \in 1 .. n + 3 PROVE Level(s, k) >= 0
    <2>1. CASE k = 1
        BY <1>3, <2>1
    <2>2. CASE k = n + 3
        BY <1>5, <2>2
    <2>3. CASE k # 1 /\ k # n + 3
        <3>1. k - 1 \in 1 .. n + 1 /\ 1 + (k - 1) = k
            BY <1>2, <2>3
        <3>2. Level(s, k) = 1 + Level(x, k - 1) /\ Level(x, k - 1) >= 0
            BY <1>1, <1>4, <3>1
        <3>3. Level(x, k - 1) \in Int
            <4>1. k - 1 \in Nat \ {0}
                BY <3>1
            <4> QED BY <4>1, LevelStep
        <3> QED BY <3>2, <3>3
    <2> QED BY <2>1, <2>2, <2>3
<1>7. Len(s) + 1 = n + 3
    BY <1>2
<1>8. Balanced(s)
    BY <1>2, <1>5, <1>6, <1>7 DEF Balanced
<1> QED BY <1>4, <1>8 DEF s, n

\* A piece of a document that stands behind position p, within element e and
\* no other.
In(d, t, e, p, s) ==
    /\ d \in Seq(Event) /\ t = Tree(d) /\ s \in Seq(Event)
    /\ Stands(s, Len(s), d, p) /\ p + Len(s) <= Len(d)
    /\ e \in 1 .. p /\ d[e].kind = "start"
    /\ Level(d, p + 1) = Level(d, e) + 1
    /\ \A j \in e + 1 .. p + 1 : Level(d, j) >= Level(d, e) + 1

LEMMA InIs ==
    ASSUME NEW d, NEW t, NEW e, NEW p, NEW s, In(d, t, e, p, s)
    PROVE  /\ d \in Seq(Event) /\ t = Tree(d) /\ s \in Seq(Event) /\ Len(s) \in Nat /\ Len(d) \in Nat
           /\ p \in Nat /\ e \in 1 .. p /\ e \in 1 .. Len(d) /\ d[e].kind = "start"
           /\ \A k \in 1 .. Len(s) : d[p + k] = s[k] /\ p + k \in 1 .. Len(d)
           /\ \A k \in 1 .. Len(s) + 1 : Level(d, p + k) = Level(d, e) + 1 + Level(s, k)
           /\ \A j \in e + 1 .. p + 1 : Level(d, j) >= Level(d, e) + 1
           /\ Level(d, e) \in Int /\ p + Len(s) <= Len(d)
<1>1. /\ d \in Seq(Event) /\ t = Tree(d) /\ s \in Seq(Event) /\ Len(s) \in Nat /\ Len(d) \in Nat
      /\ Stands(s, Len(s), d, p) /\ p + Len(s) <= Len(d)
      /\ e \in 1 .. p /\ d[e].kind = "start"
      /\ Level(d, p + 1) = Level(d, e) + 1
      /\ \A j \in e + 1 .. p + 1 : Level(d, j) >= Level(d, e) + 1
    BY DEF In
<1>2. p \in Nat /\ \A k \in 1 .. Len(s) : d[p + k] = s[k]
    BY <1>1 DEF Stands
<1>3. e \in Nat \ {0} /\ e \in 1 .. Len(d) /\ \A k \in 1 .. Len(s) : p + k \in 1 .. Len(d)
    BY <1>1, <1>2
<1>4. Level(d, e) \in Int
    BY <1>3, LevelStep
<1>5. \A k \in 1 .. Len(s) + 1 : Level(d, p + k) = Level(d, p + 1) + Level(s, k)
    BY <1>1, LevelWithin
<1> QED BY <1>1, <1>2, <1>3, <1>4, <1>5

\* Two pieces, one behind the other.
LEMMA InParts ==
    ASSUME NEW d, NEW t, NEW e, NEW p, NEW a, NEW b, In(d, t, e, p, a \o b),
           Balanced(a), b \in Seq(Event)
    PROVE  /\ In(d, t, e, p, a) /\ In(d, t, e, p + Len(a), b)
           /\ Len(a \o b) = Len(a) + Len(b) /\ Len(a) \in Nat /\ Len(b) \in Nat
<1> DEFINE s == a \o b
           n == Len(a)
           m == Len(b)
<1>1. /\ a \in Seq(Event) /\ n \in Nat /\ m \in Nat /\ IsSequence(a) /\ IsSequence(b)
      /\ Level(a, n + 1) = 0 /\ \A k \in 1 .. n + 1 : Level(a, k) >= 0
    BY DEF Balanced, IsSequence
<1>2. s \in Seq(Event) /\ Len(s) = n + m
    BY <1>1
<1>3. (\A i \in 1 .. n : s[i] = a[i]) /\ \A i \in 1 .. m : s[n + i] = b[i]
    BY <1>1, Joined
<1>4. /\ \A k \in 1 .. n + 1 : Level(s, k) = Level(a, k)
      /\ \A k \in 1 .. n + 1 : Level(a, k) \in Int
    <2>1. \A k \in 1 .. n + 1 : Level(s, k) = Level(a, k)
        BY <1>1, LevelJoined
    <2> HIDE DEF s, n
    <2>2. \A k \in 1 .. n + 1 : k \in Nat \ {0}
        BY <1>1
    <2> QED BY <2>1, <2>2, LevelStep
<1>5. In(d, t, e, p, s)
    OBVIOUS
<1> HIDE DEF s, n, m
<1>6. /\ d \in Seq(Event) /\ t = Tree(d) /\ Len(d) \in Nat
      /\ p \in Nat /\ e \in 1 .. p /\ d[e].kind = "start"
      /\ \A k \in 1 .. Len(s) : d[p + k] = s[k]
      /\ \A k \in 1 .. Len(s) + 1 : Level(d, p + k) = Level(d, e) + 1 + Level(s, k)
      /\ \A j \in e + 1 .. p + 1 : Level(d, j) >= Level(d, e) + 1
      /\ Level(d, e) \in Int /\ p + Len(s) <= Len(d)
    <2>1. /\ d \in Seq(Event) /\ t = Tree(d) /\ Len(d) \in Nat
          /\ p \in Nat /\ e \in 1 .. p /\ d[e].kind = "start"
          /\ Level(d, e) \in Int /\ p + Len(s) <= Len(d)
        BY <1>5, InIs
    <2>2. \A k \in 1 .. Len(s) : d[p + k] = s[k] /\ p + k \in 1 .. Len(d)
        BY <1>5, InIs
    <2>3. \A k \in 1 .. Len(s) + 1 : Level(d, p + k) = Level(d, e) + 1 + Level(s, k)
        BY <1>5, InIs
    <2>4. \A j \in e + 1 .. p + 1 : Level(d, j) >= Level(d, e) + 1
        BY <1>5, InIs
    <2> QED BY <2>1, <2>2, <2>3, <2>4
<1>7. \A k \in 1 .. n + 1 : /\ Level(d, p + k) = Level(d, e) + 1 + Level(a, k)
                            /\ Level(d, p + k) >= Level(d, e) + 1
    <2> TAKE k \in 1 .. n + 1
    <2>1. k \in 1 .. Len(s) + 1
        BY <1>1, <1>2
    <2>2. Level(d, p + k) = Level(d, e) + 1 + Level(s, k)
        BY <1>6, <2>1
    <2>3. Level(s, k) = Level(a, k) /\ Level(a, k) \in Int /\ Level(a, k) >= 0
        BY <1>1, <1>4
    <2> QED BY <1>6, <2>2, <2>3
<1>8. Level(d, p + n + 1) = Level(d, e) + 1
    <2>1. n + 1 \in 1 .. n + 1 /\ p + (n + 1) = p + n + 1
        BY <1>1, <1>6
    <2>2. Level(d, p + (n + 1)) = Level(d, e) + 1 + Level(a, n + 1)
        BY <1>7, <2>1
    <2> QED BY <1>1, <1>6, <2>1, <2>2
<1>9. Stands(a, n, d, p) /\ Stands(b, m, d, p + n)
    <2>1. \A k \in 1 .. n : d[p + k] = a[k]
        BY <1>1, <1>2, <1>3, <1>6
    <2>2. ASSUME NEW k \in 1 .. m PROVE d[p + n + k] = b[k]
        <3>1. n + k \in 1 .. Len(s) /\ p + (n + k) = p + n + k
            BY <1>1, <1>2, <1>6
        <3>2. d[p + (n + k)] = s[n + k]
            BY <1>6, <3>1
        <3> QED BY <1>3, <3>1, <3>2
    <2>3. p + n \in Nat
        BY <1>1, <1>6
    <2> QED BY <1>1, <1>6, <2>1, <2>2, <2>3 DEF Stands
<1>10. In(d, t, e, p, a)
    <2>1. Level(d, p + 1) = Level(d, e) + 1
        <3>1. 1 \in 1 .. n + 1
            BY <1>1
        <3>2. Level(d, p + 1) = Level(d, e) + 1 + Level(a, 1)
            BY <1>7, <3>1
        <3> QED BY <1>6, <3>2, LevelStart
    <2>2. p + n <= Len(d)
        BY <1>1, <1>2, <1>6
    <2> QED BY <1>1, <1>6, <1>9, <2>1, <2>2 DEF In, n
<1>11. In(d, t, e, p + n, b)
    <2>1. ASSUME NEW j \in e + 1 .. p + n + 1 PROVE Level(d, j) >= Level(d, e) + 1
        <3>1. CASE j <= p
            <4>1. j \in e + 1 .. p + 1
                BY <1>6, <3>1
            <4> QED BY <1>6, <4>1
        <3>2. CASE ~(j <= p)
            <4>1. j - p \in 1 .. n + 1 /\ p + (j - p) = j
                BY <1>1, <1>6, <3>2
            <4> QED BY <1>7, <4>1
        <3> QED BY <3>1, <3>2
    <2>2. p + n + m <= Len(d) /\ e \in 1 .. p + n
        BY <1>1, <1>2, <1>6
    <2> QED BY <1>6, <1>8, <1>9, <2>1, <2>2 DEF In, m
<1> QED BY <1>1, <1>2, <1>10, <1>11 DEF s, n, m

\* What stands first is in the element, whatever it is.
LEMMA InFirst ==
    ASSUME NEW d, NEW t, NEW e, NEW p, NEW s, In(d, t, e, p, s), Len(s) > 0
    PROVE  /\ p + 1 \in 1 .. Len(d) /\ d[p + 1] = s[1] /\ t.parent[p + 1] = e
           /\ Level(d, p + 1) = Level(d, e) + 1
<1>1. /\ d \in Seq(Event) /\ t = Tree(d) /\ Len(s) \in Nat /\ Len(d) \in Nat
      /\ p \in Nat /\ e \in 1 .. p /\ d[e].kind = "start"
      /\ \A k \in 1 .. Len(s) : d[p + k] = s[k] /\ p + k \in 1 .. Len(d)
      /\ \A k \in 1 .. Len(s) + 1 : Level(d, p + k) = Level(d, e) + 1 + Level(s, k)
      /\ \A j \in e + 1 .. p + 1 : Level(d, j) >= Level(d, e) + 1
      /\ Level(d, e) \in Int
    <2>1. /\ d \in Seq(Event) /\ t = Tree(d) /\ Len(s) \in Nat /\ Len(d) \in Nat
          /\ p \in Nat /\ e \in 1 .. p /\ d[e].kind = "start"
          /\ Level(d, e) \in Int
        BY InIs
    <2>2. \A k \in 1 .. Len(s) : d[p + k] = s[k] /\ p + k \in 1 .. Len(d)
        BY InIs
    <2>3. \A k \in 1 .. Len(s) + 1 : Level(d, p + k) = Level(d, e) + 1 + Level(s, k)
        BY InIs
    <2>4. \A j \in e + 1 .. p + 1 : Level(d, j) >= Level(d, e) + 1
        BY InIs
    <2> QED BY ONLY <2>1, <2>2, <2>3, <2>4
<1>2. 1 \in 1 .. Len(s) /\ 1 \in 1 .. Len(s) + 1
    BY <1>1
<1>3. p + 1 \in 1 .. Len(d) /\ d[p + 1] = s[1]
    BY <1>1, <1>2
<1>4. Level(d, p + 1) = Level(d, e) + 1
    <2>1. Level(d, p + 1) = Level(d, e) + 1 + Level(s, 1)
        BY <1>1, <1>2
    <2> QED BY <1>1, <2>1, LevelStart
<1> DEFINE n == p + 1
           k == Level(d, n)
           a == Above(d, n, k)
<1>5. n \in Nat \ {0} /\ n \in 1 .. Len(d)
    BY <1>1, <1>3
<1>6. k - 1 = Level(d, e)
    BY <1>1, <1>4
<1>7. t.parent[n] = a
    BY <1>1, <1>5, ParentIs
<1>8. /\ a \in Starts(d, n, k) \cup {0} /\ \A j \in Starts(d, n, k) : j <= a
      /\ a \in 0 .. n - 1
    <2> HIDE DEF n, k
    <2> QED BY <1>5, AboveIs
<1>9. e \in Starts(d, n, k)
    <2>1. e \in 1 .. n - 1
        BY <1>1
    <2> HIDE DEF n, k
    <2> QED BY <1>1, <1>6, <2>1 DEF Starts
<1> HIDE DEF a
<1>10. a \in Starts(d, n, k) /\ e <= a
    <2>1. e <= a /\ e \in Nat \ {0}
        BY <1>1, <1>8, <1>9
    <2> QED BY <1>8, <2>1
<1>11. Level(d, a) = Level(d, e) /\ a \in 1 .. p
    <2>1. a \in 1 .. n - 1 /\ Level(d, a) = k - 1
        BY <1>10 DEF Starts
    <2> QED BY <1>1, <1>6, <2>1
<1>12. a = e
    <2>1. ASSUME a # e PROVE FALSE
        <3>1. a \in e + 1 .. p + 1
            BY <1>1, <1>10, <1>11, <2>1
        <3> QED BY <1>1, <1>11, <3>1
    <2> QED BY <2>1
<1> QED BY <1>3, <1>4, <1>7, <1>12 DEF n

\* An element is opened, and closed where it ends.
LEMMA ClosedWhere ==
    ASSUME NEW d \in Seq(Event), NEW t, t = Tree(d), NEW p \in Nat, NEW st, NEW x,
           Stands(Around(st, x), Len(Around(st, x)), d, p), p + Len(Around(st, x)) <= Len(d),
           IsStart(st), Balanced(x)
    PROVE  /\ p + 1 \in 1 .. Len(d) /\ d[p + 1] = st
           /\ t.close[p + 1] = p + 2 + Len(x) /\ d[p + 2 + Len(x)].kind = "end"
           /\ In(d, t, p + 1, p + 1, x)
           /\ Len(Around(st, x)) = Len(x) + 2 /\ Len(x) \in Nat
<1> DEFINE s == Around(st, x)
           n == Len(x)
<1>1. /\ x \in Seq(Event) /\ n \in Nat /\ Level(x, n + 1) = 0
      /\ \A k \in 1 .. n + 1 : Level(x, k) >= 0
    BY DEF Balanced
<1>2. /\ s \in Seq(Event) /\ Len(s) = n + 2 /\ s[1] = st /\ s[n + 2] = EndEvent
      /\ \A k \in 1 .. n : s[1 + k] = x[k]
    BY <1>1, AroundIs
<1>3. \A k \in 1 .. n + 1 : Level(s, 1 + k) = 1 + Level(x, k)
    BY BalancedAround
<1>4. Stands(s, Len(s), d, p) /\ p + Len(s) <= Len(d)
    OBVIOUS
<1> HIDE DEF s, n
<1>5. /\ Len(d) \in Nat /\ Level(d, p + 1) \in Int
      /\ \A k \in 1 .. Len(s) : d[p + k] = s[k] /\ p + k \in 1 .. Len(d)
      /\ \A k \in 1 .. Len(s) + 1 : Level(d, p + k) = Level(d, p + 1) + Level(s, k)
      /\ p + Len(s) <= Len(d)
    <2>0. p + 1 \in Nat \ {0}
        OBVIOUS
    <2>1. Len(s) \in Nat /\ Len(d) \in Nat /\ Level(d, p + 1) \in Int
        <3>1. Level(d, p + 1) \in Int
            BY <2>0, LevelStep
        <3>2. Len(d) \in Nat
            OBVIOUS
        <3> QED BY <1>1, <1>2, <3>1, <3>2
    <2>2. \A k \in 1 .. Len(s) : d[p + k] = s[k]
        BY <1>4 DEF Stands
    <2>3. \A k \in 1 .. Len(s) + 1 : Level(d, p + k) = Level(d, p + 1) + Level(s, k)
        BY <1>4, LevelWithin
    <2> QED BY <1>4, <2>1, <2>2, <2>3
<1>6. p + 1 \in 1 .. Len(d) /\ d[p + 1] = st
    BY <1>1, <1>2, <1>4, <1>5
<1>7. \A k \in 1 .. n + 1 : /\ Level(d, p + 1 + k) = Level(d, p + 1) + 1 + Level(x, k)
                            /\ Level(x, k) \in Int
    <2> TAKE k \in 1 .. n + 1
    <2>1. 1 + k \in 1 .. Len(s) + 1 /\ p + (1 + k) = p + 1 + k
        BY <1>1, <1>2, <1>5
    <2>2. Level(d, p + (1 + k)) = Level(d, p + 1) + Level(s, 1 + k)
        BY <1>5, <2>1
    <2>3. Level(x, k) \in Int
        BY <1>1, LevelStep
    <2> QED BY <1>3, <1>5, <1>6, <2>1, <2>2, <2>3
<1> DEFINE c == p + 2 + n
<1>8. /\ c \in p + 2 .. Len(d) /\ d[c].kind = "end" /\ Level(d, c) = Level(d, p + 1) + 1
    <2>1. n + 2 \in 1 .. Len(s) /\ p + (n + 2) = c
        BY <1>1, <1>2, <1>5
    <2>2. d[p + (n + 2)] = s[n + 2] /\ p + (n + 2) \in 1 .. Len(d)
        BY <1>5, <2>1
    <2>3. d[c].kind = "end"
        BY <1>2, <2>1, <2>2 DEF EndEvent
    <2>4. n + 1 \in 1 .. n + 1 /\ p + 1 + (n + 1) = c
        BY <1>1, <1>5
    <2>5. Level(d, p + 1 + (n + 1)) = Level(d, p + 1) + 1 + Level(x, n + 1)
        BY <1>7, <2>4
    <2>6. Level(d, c) = Level(d, p + 1) + 1
        BY <1>1, <1>5, <1>6, <2>4, <2>5
    <2> QED BY <1>1, <1>5, <2>1, <2>2, <2>3, <2>6
<1>9. t.close[p + 1] = c
    <2> DEFINE q == p + 1
               v == t.close[q]
    <2>1. q \in 1 .. Len(d) /\ d[q].kind = "start"
        BY <1>6 DEF IsStart
    <2>2. /\ v \in q + 1 .. Len(d) + 1
          /\ v <= Len(d) => d[v].kind = "end" /\ Level(d, v) = Level(d, q) + 1
          /\ \A j \in q + 1 .. Len(d) : d[j].kind = "end" /\ Level(d, j) = Level(d, q) + 1 => v <= j
        BY <1>5, <2>1, TreeIs
    <2>3. v <= c
        <3>1. c \in q + 1 .. Len(d)
            BY <1>5, <1>8
        <3> HIDE DEF c, q, v
        <3>2. d[c].kind = "end" /\ Level(d, c) = Level(d, q) + 1
            BY <1>8 DEF q
        <3> QED BY <2>2, <3>1, <3>2
    <2>4. ASSUME v # c PROVE FALSE
        <3>1. v \in q + 1 .. c - 1 /\ v \in q + 1 .. Len(d)
            BY <1>1, <1>5, <1>8, <2>2, <2>3, <2>4, SMTT(20)
        <3>2. v - q \in 1 .. n /\ q + (v - q) = v /\ v \in Nat \ {0}
            <4> HIDE DEF v
            <4> QED BY <1>1, <1>5, <3>1
        <3> DEFINE k == v - q
        <3>3. Level(d, v) = Level(d, q) + 1 + Level(x, k)
            <4>1. k \in 1 .. n + 1 /\ q + k = v
                BY <1>1, <3>2
            <4> HIDE DEF k, v
            <4>2. Level(d, p + 1 + k) = Level(d, p + 1) + 1 + Level(x, k)
                BY <1>7, <4>1
            <4> QED BY <4>1, <4>2
        <3>4. d[v].kind = "end" /\ Level(d, v) = Level(d, q) + 1
            BY <2>2, <3>1
        <3>5. k \in 1 .. n /\ k \in Nat \ {0} /\ q + k = v /\ k + 1 \in 1 .. n + 1 /\ k \in 1 .. n + 1
            BY <1>1, <3>2
        <3>6. x[k].kind = "end"
            <4> HIDE DEF k, v
            <4>1. 1 + k \in 1 .. Len(s) /\ p + (1 + k) = v
                BY <1>1, <1>2, <1>5, <3>5
            <4>2. d[p + (1 + k)] = s[1 + k]
                BY <1>5, <4>1
            <4> QED BY <1>2, <3>4, <3>5, <4>1, <4>2
        <3> HIDE DEF k, v
        <3>7. Level(x, k) = 0
            <4>1. Level(d, q) \in Int /\ Level(x, k) \in Int
                BY <1>5, <1>6, <1>7, <3>5
            <4> QED BY <3>3, <3>4, <4>1
        <3>8. Level(x, k + 1) = Level(x, k) + (IF x[k].kind = "start" THEN 1
                                               ELSE IF x[k].kind = "end" THEN -1 ELSE 0)
            BY <3>5, LevelStep
        <3>9. Level(x, k + 1) >= 0
            BY <1>1, <3>5
        <3> QED BY <3>6, <3>7, <3>8, <3>9
    <2> QED BY <2>4
<1>10. In(d, t, p + 1, p + 1, x)
    <2>1. d[p + 1].kind = "start"
        BY <1>6 DEF IsStart
    <2>2. Stands(x, n, d, p + 1)
        <3>1. ASSUME NEW k \in 1 .. n PROVE d[p + 1 + k] = x[k]
            <4>1. 1 + k \in 1 .. Len(s) /\ p + (1 + k) = p + 1 + k
                BY <1>1, <1>2, <1>5
            <4>2. d[p + (1 + k)] = s[1 + k]
                BY <1>5, <4>1
            <4> QED BY <1>2, <4>1, <4>2
        <3>2. p + 1 \in Nat
            BY <1>5
        <3> QED BY <1>1, <3>1, <3>2 DEF Stands
    <2>3. Level(d, p + 1 + 1) = Level(d, p + 1) + 1
        <3>1. 1 \in 1 .. n + 1
            BY <1>1
        <3>2. Level(d, p + 1 + 1) = Level(d, p + 1) + 1 + Level(x, 1)
            BY <1>7, <3>1
        <3> QED BY <1>5, <1>6, <3>2, LevelStart
    <2>4. ASSUME NEW j \in (p + 1) + 1 .. (p + 1) + 1 PROVE Level(d, j) >= Level(d, p + 1) + 1
        <3>1. j = p + 1 + 1
            BY <1>5
        <3>2. Level(d, p + 1) + 1 \in Int
            BY <1>5, <1>6
        <3> QED BY <2>3, <3>1, <3>2
    <2>5. p + 1 + n <= Len(d) /\ p + 1 \in 1 .. p + 1
        BY <1>1, <1>2, <1>5
    <2> QED BY <1>1, <1>5, <2>1, <2>2, <2>3, <2>4, <2>5 DEF In, n
<1> QED BY <1>1, <1>2, <1>6, <1>8, <1>9, <1>10 DEF s, n

LEMMA OpenedBy ==
    ASSUME NEW d, NEW t, NEW e, NEW p, NEW st, NEW x, In(d, t, e, p, Around(st, x)),
           IsStart(st), Balanced(x)
    PROVE  /\ p + 1 \in 1 .. Len(d) /\ d[p + 1] = st /\ t.parent[p + 1] = e
           /\ Level(d, p + 1) = Level(d, e) + 1
           /\ t.close[p + 1] = p + 2 + Len(x) /\ d[p + 2 + Len(x)].kind = "end"
           /\ In(d, t, p + 1, p + 1, x)
           /\ Len(Around(st, x)) = Len(x) + 2 /\ Len(x) \in Nat
<1>1. /\ d \in Seq(Event) /\ t = Tree(d) /\ p \in Nat
      /\ Stands(Around(st, x), Len(Around(st, x)), d, p) /\ p + Len(Around(st, x)) <= Len(d)
    BY DEF In, Stands
<1>2. /\ p + 1 \in 1 .. Len(d) /\ d[p + 1] = st
      /\ t.close[p + 1] = p + 2 + Len(x) /\ d[p + 2 + Len(x)].kind = "end"
      /\ In(d, t, p + 1, p + 1, x)
      /\ Len(Around(st, x)) = Len(x) + 2 /\ Len(x) \in Nat
    BY <1>1, ClosedWhere
<1>3. Len(Around(st, x)) > 0
    BY <1>2
<1>4. t.parent[p + 1] = e /\ Level(d, p + 1) = Level(d, e) + 1
    BY <1>3, InFirst
<1> QED BY <1>2, <1>4

\* What the writer writes: no event in it is a fault in itself.
IsWritten(e) ==
    /\ e \in Event
    /\ \/ e.kind = "end"
       \/ /\ e.kind = "start" /\ e.binding \in {"target", "unbound"}
          /\ \/ e.attributes = <<>>
             \/ e.attributes = <<[raw |-> 1, value |-> 1]>>
       \/ e.kind = "text" /\ e.raw = 1 /\ Len(e.pieces) = 1
       \/ e.kind = "reference" /\ Len(e.pieces) = 1
       \/ e.kind = "declaration" /\ e.encoding = "utf8"

Fragment(s) == Balanced(s) /\ \A k \in 1 .. Len(s) : IsWritten(s[k])

LEMMA FragmentJoined ==
    ASSUME NEW a, NEW b, Fragment(a), Fragment(b)
    PROVE  Fragment(a \o b)
<1>1. Balanced(a) /\ Balanced(b) /\ Balanced(a \o b)
    BY BalancedJoined DEF Fragment
<1>2. IsSequence(a) /\ IsSequence(b) /\ Len(a) \in Nat /\ Len(b) \in Nat
    BY <1>1 DEF Balanced, IsSequence
<1>3. ASSUME NEW k \in 1 .. Len(a \o b) PROVE IsWritten((a \o b)[k])
    <2>1. /\ Len(a \o b) = Len(a) + Len(b)
          /\ \A i \in 1 .. Len(a) : (a \o b)[i] = a[i]
          /\ \A i \in 1 .. Len(b) : (a \o b)[Len(a) + i] = b[i]
        BY <1>2, Joined
    <2>2. CASE k <= Len(a)
        <3>1. k \in 1 .. Len(a)
            BY <1>2, <2>1, <2>2
        <3> QED BY <2>1, <3>1 DEF Fragment
    <2>3. CASE ~(k <= Len(a))
        <3>1. k - Len(a) \in 1 .. Len(b) /\ Len(a) + (k - Len(a)) = k
            BY <1>2, <2>1, <2>3
        <3>2. (a \o b)[Len(a) + (k - Len(a))] = b[k - Len(a)]
            BY <2>1, <3>1
        <3> QED BY <3>1, <3>2 DEF Fragment
    <2> QED BY <2>2, <2>3
<1> QED BY <1>1, <1>3 DEF Fragment

LEMMA FragmentAround ==
    ASSUME NEW st, IsStart(st), IsWritten(st), NEW x, Fragment(x)
    PROVE  Fragment(Around(st, x))
<1> DEFINE s == Around(st, x)
           n == Len(x)
<1>1. Balanced(x) /\ x \in Seq(Event) /\ n \in Nat /\ \A k \in 1 .. n : IsWritten(x[k])
    BY DEF Fragment, Balanced
<1>2. Balanced(s)
    BY <1>1, BalancedAround
<1>3. /\ Len(s) = n + 2 /\ s[1] = st /\ s[n + 2] = EndEvent
      /\ \A k \in 1 .. n : s[1 + k] = x[k]
    BY <1>1, AroundIs
<1>4. IsWritten(EndEvent)
    BY EndIs DEF IsWritten, EndEvent
<1> HIDE DEF s, n
<1>5. ASSUME NEW k \in 1 .. Len(s) PROVE IsWritten(s[k])
    <2>1. k = 1 \/ k = n + 2 \/ (k - 1 \in 1 .. n /\ 1 + (k - 1) = k)
        BY <1>1, <1>3
    <2>2. CASE k = 1
        BY <1>3, <2>2
    <2>3. CASE k = n + 2
        BY <1>3, <1>4, <2>3
    <2>4. CASE k - 1 \in 1 .. n /\ 1 + (k - 1) = k
        <3>1. s[1 + (k - 1)] = x[k - 1]
            BY <1>3, <2>4
        <3> QED BY <1>1, <2>4, <3>1
    <2> QED BY <2>1, <2>2, <2>3, <2>4
<1> QED BY <1>2, <1>5 DEF Fragment, s

LEMMA FragmentNone == Fragment(<<>>)
<1> DEFINE s == <<>>
<1>1. Balanced(s) /\ Len(s) = 0
    BY BalancedNone
<1> HIDE DEF s
<1>2. \A k \in 1 .. Len(s) : IsWritten(s[k])
    BY <1>1
<1>3. Fragment(s)
    BY <1>1, <1>2 DEF Fragment
<1> QED BY <1>3 DEF s

\* A text as it is written, and what is said by it.
LEMMA EscapeFragment ==
    ASSUME NEW x \in Text
    PROVE  /\ Fragment(Escape(x)) /\ Len(Escape(x)) = Len(x) /\ Len(x) \in Nat
           /\ \A k \in 1 .. Len(x) : /\ Escape(x)[k].kind \in {"text", "reference"}
                                     /\ Said(Escape(x)[k]) = <<x[k]>>
<1> DEFINE s == Escape(x)
           n == Len(x)
           entity(k) == [kind |-> "reference", pieces |-> <<x[k]>>]
           text(k) == [kind |-> "text", raw |-> 1, pieces |-> <<x[k]>>]
<1>1. s \in Seq(Event)
    BY EscapeIs
<1>2. n \in Nat /\ DOMAIN x = 1 .. n
    BY DEF Text
<1>3. s = [k \in 1 .. n |-> IF x[k] \in Escaped THEN entity(k) ELSE text(k)]
    BY <1>2 DEF Escape
<1>4. Len(s) = n
    BY <1>2, <1>3
<1>5. \A k \in 1 .. n : s[k] = entity(k) \/ s[k] = text(k)
    BY <1>3
<1> HIDE DEF s
<1>6. ASSUME NEW k \in 1 .. n
      PROVE  s[k].kind \in {"text", "reference"} /\ Said(s[k]) = <<x[k]>> /\ IsWritten(s[k])
    <2>1. s[k] \in Event
        BY <1>1, <1>4
    <2>2. CASE s[k] = entity(k)
        <3>1. s[k].kind = "reference" /\ s[k].pieces = <<x[k]>> /\ Len(<<x[k]>>) = 1
            BY <2>2
        <3> QED BY <2>1, <3>1 DEF Said, IsText, IsWritten
    <2>3. CASE s[k] = text(k)
        <3>1. s[k].kind = "text" /\ s[k].raw = 1 /\ s[k].pieces = <<x[k]>> /\ Len(<<x[k]>>) = 1
            BY <2>3
        <3> QED BY <2>1, <3>1 DEF Said, IsText, IsWritten
    <2> QED BY <1>5, <2>2, <2>3
<1>7. Balanced(s)
    <2>1. \A k \in 1 .. Len(s) : s[k].kind \notin {"start", "end"}
        BY <1>4, <1>6
    <2> QED BY <1>1, <2>1, BalancedFlat
<1> HIDE DEF n
<1>8. Fragment(s)
    BY <1>4, <1>6, <1>7 DEF Fragment
<1> QED BY <1>2, <1>4, <1>6, <1>8 DEF s, n

\* A sequence in pieces of one, joined again.
Singles(x, n) == [k \in 1 .. n |-> <<x[k]>>]

LEMMA JoinedAgain ==
    ASSUME NEW x, IsSequence(x), NEW n, n = Len(x)
    PROVE  FlattenSeq(Singles(x, n)) = x
<1> DEFINE f(i) == FlattenSeq(Singles(x, i))
           Holds(i) == IsSequence(f(i)) /\ Len(f(i)) = i /\ \A k \in 1 .. i : f(i)[k] = x[k]
           Bad == {i \in 0 .. n : ~Holds(i)}
<1>1. Len(x) \in Nat /\ n \in Nat
    BY SequenceIs
<1>2. Holds(0)
    <2> DEFINE e == Singles(x, 0)
    <2>1. e = <<>> /\ Len(e) = 0 /\ e \in Seq({1})
        BY DEF Singles
    <2>2. FlattenSeq(e) = e
        BY <2>1 DEF FlattenSeq
    <2>3. IsSequence(FlattenSeq(e)) /\ Len(FlattenSeq(e)) = 0
        BY <2>1, <2>2 DEF IsSequence
    <2>4. \A k \in 1 .. 0 : FlattenSeq(e)[k] = x[k]
        OBVIOUS
    <2> QED BY <2>3, <2>4
<1>3. ASSUME NEW i \in 0 .. n - 1, Holds(i) PROVE Holds(i + 1)
    <2> DEFINE a == Singles(x, i)
               b == Singles(x, i + 1)
               y == f(i)
               z == f(i + 1)
               w == <<x[i + 1]>>
    <2>1. i \in Nat /\ i + 1 \in 1 .. i + 1
        BY <1>1
    <2>2. w \in Seq({x[i + 1]}) /\ Len(w) = 1 /\ w[1] = x[i + 1]
        OBVIOUS
    <2>3. IsSequence(w)
        BY <2>2 DEF IsSequence
    <2>4. /\ a = [k \in 1 .. i |-> a[k]] /\ b = [k \in 1 .. i + 1 |-> b[k]]
          /\ \A k \in 1 .. i : a[k] = b[k]
        BY <2>1 DEF Singles
    <2>5. b[i + 1] = w
        BY <2>1 DEF Singles
    <2>6. z = y \o w
        <3>1. FlattenSeq(b) = FlattenSeq(a) \o b[i + 1]
            <4>1. IsSequence(b[i + 1])
                BY <2>3, <2>5
            <4> HIDE DEF a, b
            <4> QED BY <2>1, <2>4, <4>1, FlattenStep
        <3> QED BY <2>5, <3>1
    <2>7. IsSequence(y) /\ Len(y) = i /\ \A k \in 1 .. i : y[k] = x[k]
        BY <1>3
    <2> HIDE DEF y, z, w
    <2>8. /\ IsSequence(z) /\ Len(z) = Len(y) + Len(w)
          /\ \A k \in 1 .. Len(y) : z[k] = y[k]
          /\ \A k \in 1 .. Len(w) : z[Len(y) + k] = w[k]
        <3>1. IsSequence(y \o w) /\ Len(y \o w) = Len(y) + Len(w)
            BY <2>3, <2>7, Joined
        <3>2. \A k \in 1 .. Len(y) : (y \o w)[k] = y[k]
            BY <2>3, <2>7, Joined
        <3>3. \A k \in 1 .. Len(w) : (y \o w)[Len(y) + k] = w[k]
            BY <2>3, <2>7, Joined
        <3> QED BY <2>6, <3>1, <3>2, <3>3
    <2>9. Len(z) = i + 1 /\ \A k \in 1 .. i + 1 : z[k] = x[k]
        BY <2>1, <2>2, <2>7, <2>8
    <2> QED BY <2>8, <2>9 DEF z
<1> HIDE DEF Holds
<1>4. ASSUME Bad # {} PROVE FALSE
    <2>1. PICK i \in Bad : \A j \in Bad : i <= j
        <3>1. Bad \subseteq Nat
            BY <1>1
        <3> HIDE DEF Bad
        <3> QED BY <1>4, <3>1, LeastNumber
    <2>2. i # 0 /\ i \in 0 .. n /\ ~Holds(i)
        BY <1>2
    <2>3. i - 1 \in 0 .. n - 1 /\ (i - 1) + 1 = i /\ i - 1 \in 0 .. n /\ ~(i <= i - 1)
        BY <1>1, <2>2
    <2>4. Holds(i - 1)
        BY <2>1, <2>3
    <2>5. Holds((i - 1) + 1)
        BY <1>3, <2>3, <2>4
    <2> QED BY <2>2, <2>3, <2>5
<1>5. Holds(n)
    BY <1>1, <1>4
<1>6. IsSequence(f(n)) /\ Len(f(n)) = n /\ \A k \in 1 .. n : f(n)[k] = x[k]
    BY <1>5 DEF Holds
<1> HIDE DEF f
<1>7. f(n) = x
    BY <1>6, SameSequence
<1> QED BY <1>7 DEF f

\* Elements with nothing but a text in them: those from p + 1 to q, all of
\* them children of e, with names of N and what P says of each name.
Leafy(t, e, p, q, N, P) ==
    /\ \A j \in p + 1 .. q : IsOpen(t.event[j]) =>
          /\ t.parent[j] = e /\ t.event[j].binding = "target" /\ t.event[j].name \in N
          /\ <<t.event[j].name, Content(t, j)>> \in P
    /\ \A x \in P : \E j \in p + 1 .. q :
          IsOpen(t.event[j]) /\ x = <<t.event[j].name, Content(t, j)>>
    /\ \A i, j \in p + 1 .. q :
          IsOpen(t.event[i]) /\ IsOpen(t.event[j]) /\ t.event[i].name = t.event[j].name => i = j

Leaves(s, N, P) ==
    /\ Fragment(s)
    /\ \A d, t, e, p : In(d, t, e, p, s) => Leafy(t, e, p, p + Len(s), N, P)

LEMMA LeavesText ==
    ASSUME NEW name \in ElementNames, NEW x \in Text
    PROVE  Leaves(TextElement(name, x), {name}, {<<name, Trim(x)>>})
<1> DEFINE st == Start(name, "target")
           s == TextElement(name, x)
           y == Escape(x)
           n == Len(x)
           P == {<<name, Trim(x)>>}
<1>1. s = Around(st, y)
    BY DEF TextElement, Element, Around, EndEvent
<1>2. IsStart(st) /\ IsWritten(st) /\ st.name = name /\ st.binding = "target"
    <2>1. st \in Event
        <3>1. name \in STRING
            BY NamesAreStrings
        <3>2. <<>> \in Seq(Attribute)
            OBVIOUS
        <3> QED BY <3>1, <3>2, StartIs DEF Start
    <2>2. st.kind = "start" /\ st.binding = "target" /\ st.attributes = <<>> /\ st.name = name
        BY DEF Start
    <2> QED BY <2>1, <2>2 DEF IsStart, IsWritten
<1>3. /\ Fragment(y) /\ Len(y) = n /\ n \in Nat /\ IsSequence(x)
      /\ \A k \in 1 .. n : y[k].kind \in {"text", "reference"} /\ Said(y[k]) = <<x[k]>>
    BY EscapeFragment DEF IsSequence, Text
<1>4. Fragment(s)
    BY <1>1, <1>2, <1>3, FragmentAround
<1> HIDE DEF st, s, y
<1>5. ASSUME NEW d, NEW t, NEW e, NEW p, In(d, t, e, p, s)
      PROVE  Leafy(t, e, p, p + Len(s), {name}, P)
    <2>1. Balanced(y)
        BY <1>3 DEF Fragment
    <2>2. /\ p + 1 \in 1 .. Len(d) /\ d[p + 1] = st /\ t.parent[p + 1] = e
          /\ t.close[p + 1] = p + 2 + Len(y) /\ d[p + 2 + Len(y)].kind = "end"
          /\ In(d, t, p + 1, p + 1, y)
          /\ Len(s) = Len(y) + 2
        <3>1. In(d, t, e, p, Around(st, y))
            BY <1>1, <1>5
        <3> QED BY <1>1, <1>2, <2>1, <3>1, OpenedBy
    <2>3. /\ p + 1 \in Nat /\ \A k \in 1 .. n : d[p + 1 + k] = y[k]
        BY <1>3, <2>2, InIs
    <2>4. p \in Nat /\ t.event = d
        <3>1. p \in Nat /\ t = Tree(d) /\ d \in Seq(Event)
            BY <1>5, InIs
        <3> QED BY <3>1, TreeIs
    <2>5. IsOpen(t.event[p + 1]) /\ t.event[p + 1] = st
        BY <1>2, <2>2, <2>4 DEF IsOpen, IsStart
    <2> HIDE DEF n
    <2>6. ASSUME NEW j \in p + 1 .. p + Len(s), j # p + 1 PROVE ~IsOpen(t.event[j])
        <3>1. j = p + 2 + n \/ (j - (p + 1) \in 1 .. n /\ p + 1 + (j - (p + 1)) = j)
            BY <1>3, <2>2, <2>4, <2>6
        <3>2. CASE j = p + 2 + n
            BY <1>3, <2>2, <2>4, <3>2 DEF IsOpen
        <3>3. CASE j - (p + 1) \in 1 .. n /\ p + 1 + (j - (p + 1)) = j
            <4>1. d[p + 1 + (j - (p + 1))] = y[j - (p + 1)]
                BY <2>3, <3>3
            <4>2. d[j].kind \in {"text", "reference"}
                BY <1>3, <3>3, <4>1
            <4> QED BY <2>4, <4>2 DEF IsOpen
        <3> QED BY <3>1, <3>2, <3>3
    <2>7. Content(t, p + 1) = Trim(x)
        <3> DEFINE r == [k \in 1 .. t.close[p + 1] - (p + 1) - 1 |-> Said(t.event[p + 1 + k])]
        <3>1. t.close[p + 1] - (p + 1) - 1 = n
            BY <1>3, <2>2, <2>4
        <3>2. r = Singles(x, n)
            BY <1>3, <2>3, <2>4, <3>1 DEF Singles
        <3>3. Content(t, p + 1) = Trim(FlattenSeq(r))
            BY DEF Content
        <3> HIDE DEF r
        <3>4. FlattenSeq(r) = x
            BY <1>3, <3>2, JoinedAgain DEF n
        <3> QED BY <3>3, <3>4
    <2>8. p + 1 \in p + 1 .. p + Len(s)
        BY <1>3, <2>2, <2>4
    <2> QED BY <1>2, <2>2, <2>5, <2>6, <2>7, <2>8 DEF Leafy
<1> QED BY <1>4, <1>5 DEF Leaves, s

LEMMA LeavesNone == Leaves(<<>>, {}, {})
<1> DEFINE s == <<>>
<1>1. Fragment(s) /\ Len(s) = 0
    BY FragmentNone
<1> HIDE DEF s
<1>2. ASSUME NEW d, NEW t, NEW e, NEW p, In(d, t, e, p, s)
      PROVE  Leafy(t, e, p, p + Len(s), {}, {})
    <2>1. p \in Nat
        BY <1>2, InIs
    <2>2. ~\E j \in p + 1 .. p + Len(s) : TRUE
        BY <1>1, <2>1
    <2> QED BY <2>2 DEF Leafy
<1>3. Leaves(s, {}, {})
    BY <1>1, <1>2 DEF Leaves
<1> QED BY <1>3 DEF s

\* An option as it is written and read again, and the element that says it.
ReadAgain(option) == IF option = Absent THEN Absent ELSE Present(Trim(The(option)))
Says(name, option) == {<<name, x>> : x \in ReadAgain(option)}

LEMMA SaysIs ==
    ASSUME NEW name, NEW option, NEW n, NEW x
    PROVE  <<n, x>> \in Says(name, option) <=> n = name /\ x \in ReadAgain(option)
<1> QED BY DEF Says

LEMMA LeavesOptional ==
    ASSUME NEW name \in ElementNames, NEW option, option \subseteq Text
    PROVE  Leaves(Optional(name, option), {name}, Says(name, option))
<1>1. CASE option = Absent
    <2>1. Optional(name, option) = <<>>
        BY <1>1 DEF Optional
    <2>2. Says(name, option) = {}
        BY <1>1 DEF Says, ReadAgain, Absent
    <2>3. Leaves(<<>>, {name}, {})
        <3>1. Leaves(<<>>, {}, {})
            BY LeavesNone
        <3>2. \A t, e, p, q : Leafy(t, e, p, q, {}, {}) => Leafy(t, e, p, q, {name}, {})
            BY DEF Leafy
        <3> QED BY <3>1, <3>2 DEF Leaves
    <2> QED BY <2>1, <2>2, <2>3
<1>2. CASE option # Absent
    <2>1. The(option) \in Text
        BY <1>2, TheIs DEF Absent
    <2>2. Optional(name, option) = TextElement(name, The(option))
        BY <1>2 DEF Optional
    <2>3. Says(name, option) = {<<name, Trim(The(option))>>}
        BY <1>2 DEF Says, ReadAgain, Present
    <2> QED BY <2>1, <2>2, <2>3, LeavesText
<1> QED BY <1>1, <1>2

LEMMA LeavesOne ==
    ASSUME NEW name \in ElementNames, NEW x \in Text
    PROVE  Leaves(TextElement(name, x), {name}, Says(name, Present(x)))
<1>1. Says(name, Present(x)) = {<<name, Trim(x)>>}
    BY TheOne DEF Says, ReadAgain, Present, Absent
<1> QED BY <1>1, LeavesText

LEMMA LeafyJoined ==
    ASSUME NEW t, NEW e, NEW p \in Nat, NEW q \in Nat, NEW r \in Nat, NEW N, NEW M, NEW P, NEW Q,
           Leafy(t, e, p, q, N, P), Leafy(t, e, q, r, M, Q), N \cap M = {}, p <= q, q <= r
    PROVE  Leafy(t, e, p, r, N \cup M, P \cup Q)
<1>1. /\ \A j \in p + 1 .. q : IsOpen(t.event[j]) =>
            /\ t.parent[j] = e /\ t.event[j].binding = "target" /\ t.event[j].name \in N
            /\ <<t.event[j].name, Content(t, j)>> \in P
      /\ \A x \in P : \E j \in p + 1 .. q :
            IsOpen(t.event[j]) /\ x = <<t.event[j].name, Content(t, j)>>
      /\ \A i, j \in p + 1 .. q :
          IsOpen(t.event[i]) /\ IsOpen(t.event[j]) /\ t.event[i].name = t.event[j].name => i = j
    BY DEF Leafy
<1>2. /\ \A j \in q + 1 .. r : IsOpen(t.event[j]) =>
            /\ t.parent[j] = e /\ t.event[j].binding = "target" /\ t.event[j].name \in M
            /\ <<t.event[j].name, Content(t, j)>> \in Q
      /\ \A x \in Q : \E j \in q + 1 .. r :
            IsOpen(t.event[j]) /\ x = <<t.event[j].name, Content(t, j)>>
      /\ \A i, j \in q + 1 .. r :
          IsOpen(t.event[i]) /\ IsOpen(t.event[j]) /\ t.event[i].name = t.event[j].name => i = j
    BY DEF Leafy
<1>3. \A j \in p + 1 .. r : j \in p + 1 .. q \/ j \in q + 1 .. r
    OBVIOUS
<1>4. (\A j \in p + 1 .. q : j \in p + 1 .. r) /\ \A j \in q + 1 .. r : j \in p + 1 .. r
    OBVIOUS
<1>5. ASSUME NEW j \in p + 1 .. r, IsOpen(t.event[j])
      PROVE  /\ t.parent[j] = e /\ t.event[j].binding = "target" /\ t.event[j].name \in N \cup M
             /\ <<t.event[j].name, Content(t, j)>> \in P \cup Q
    BY <1>1, <1>2, <1>3, <1>5
<1>6. ASSUME NEW x \in P \cup Q
      PROVE  \E j \in p + 1 .. r : IsOpen(t.event[j]) /\ x = <<t.event[j].name, Content(t, j)>>
    BY <1>1, <1>2, <1>4
<1>7. ASSUME NEW i \in p + 1 .. r, NEW j \in p + 1 .. r, IsOpen(t.event[i]), IsOpen(t.event[j]),
             t.event[i].name = t.event[j].name
      PROVE  i = j
    BY <1>1, <1>2, <1>3, <1>7
<1> QED BY <1>5, <1>6, <1>7 DEF Leafy

LEMMA LeavesJoined ==
    ASSUME NEW a, NEW b, NEW N, NEW M, NEW P, NEW Q, Leaves(a, N, P), Leaves(b, M, Q),
           N \cap M = {}
    PROVE  Leaves(a \o b, N \cup M, P \cup Q)
<1>1. /\ Fragment(a) /\ Fragment(b) /\ Balanced(a) /\ b \in Seq(Event)
    BY DEF Leaves, Fragment, Balanced
<1>2. Fragment(a \o b)
    BY <1>1, FragmentJoined
<1>3. ASSUME NEW d, NEW t, NEW e, NEW p, In(d, t, e, p, a \o b)
      PROVE  Leafy(t, e, p, p + Len(a \o b), N \cup M, P \cup Q)
    <2>1. /\ In(d, t, e, p, a) /\ In(d, t, e, p + Len(a), b)
          /\ Len(a \o b) = Len(a) + Len(b) /\ Len(a) \in Nat /\ Len(b) \in Nat
        BY <1>1, <1>3, InParts
    <2>2. p \in Nat
        BY <1>3, InIs
    <2> DEFINE q == p + Len(a)
               r == q + Len(b)
    <2>3. Leafy(t, e, p, q, N, P) /\ Leafy(t, e, q, r, M, Q)
        BY <2>1 DEF Leaves
    <2>4. q \in Nat /\ r \in Nat /\ p <= q /\ q <= r /\ r = p + Len(a \o b)
        BY <2>1, <2>2
    <2> HIDE DEF q, r
    <2> QED BY <2>2, <2>3, <2>4, LeafyJoined
<1> QED BY <1>2, <1>3 DEF Leaves

\* What is read of leaves that are all an element has.
LEMMA LeafWritten ==
    ASSUME NEW t, NEW e, NEW N, NEW P, NEW name, NEW option, NEW q, q = t.close[e] - 1,
           Leafy(t, e, e, q, N, P), \A x : <<name, x>> \in P <=> x \in option
    PROVE  Leaf(t, e, name) = option
<1>1. /\ \A j \in e + 1 .. q : IsOpen(t.event[j]) =>
            /\ t.parent[j] = e /\ t.event[j].binding = "target" /\ t.event[j].name \in N
            /\ <<t.event[j].name, Content(t, j)>> \in P
      /\ \A x \in P : \E j \in e + 1 .. q :
            IsOpen(t.event[j]) /\ x = <<t.event[j].name, Content(t, j)>>
    BY DEF Leafy
<1>2. Children(t, e) = {j \in e + 1 .. q : IsOpen(t.event[j]) /\ t.parent[j] = e}
    BY DEF Children
<1>3. ASSUME NEW x \in Leaf(t, e, name) PROVE x \in option
    <2>1. PICK j \in Children(t, e) : t.event[j].name = name /\ x = Content(t, j)
        BY DEF Leaf
    <2>2. <<t.event[j].name, Content(t, j)>> \in P
        BY <1>1, <1>2, <2>1
    <2> QED BY <2>1, <2>2
<1>4. ASSUME NEW x \in option PROVE x \in Leaf(t, e, name)
    <2>1. PICK j \in e + 1 .. q : IsOpen(t.event[j]) /\ <<name, x>> = <<t.event[j].name, Content(t, j)>>
        BY <1>1
    <2>2. j \in Children(t, e) /\ t.event[j].name = name /\ t.event[j].binding = "target" /\ Content(t, j) = x
        BY <1>1, <1>2, <2>1
    <2> QED BY <2>2 DEF Leaf
<1> QED BY <1>3, <1>4

\* The header as it is written, and what it says.
NamesOfHeader == {"KRX_VERZIOSZAM", "FORRASRENDSZER_AZONOSITO", "KULDEMENY_AZONOSITO",
                "KULDEMENY_LETREHOZASANAK_IDEJE", "KULDEMENY_TIPUS", "TESZT", "VONALKOD",
                "KULDEMENY_HIVATKOZASI_AZONOSITO", "HIBAKOD", "KULDEMENY_MEGJEGYZES"}
TestOf(h) == IF h.test_present THEN Present(IF h.test THEN <<"true">> ELSE <<"false">>) ELSE Absent
HeaderInner(h) ==
    TextElement("KRX_VERZIOSZAM", h.version)
        \o TextElement("FORRASRENDSZER_AZONOSITO", <<h.source_system>>)
        \o TextElement("KULDEMENY_AZONOSITO", h.consignment_id)
        \o TextElement("KULDEMENY_LETREHOZASANAK_IDEJE", h.created_at_text)
        \o TextElement("KULDEMENY_TIPUS", <<h.consignment_kind>>)
        \o Optional("TESZT", TestOf(h))
        \o Optional("VONALKOD", h.barcode)
        \o Optional("KULDEMENY_HIVATKOZASI_AZONOSITO", h.reference_id)
        \o Optional("HIBAKOD", h.error_code)
        \o Optional("KULDEMENY_MEGJEGYZES", h.note)
HeaderSays(h) ==
    Says("KRX_VERZIOSZAM", Present(h.version))
        \cup Says("FORRASRENDSZER_AZONOSITO", Present(<<h.source_system>>))
        \cup Says("KULDEMENY_AZONOSITO", Present(h.consignment_id))
        \cup Says("KULDEMENY_LETREHOZASANAK_IDEJE", Present(h.created_at_text))
        \cup Says("KULDEMENY_TIPUS", Present(<<h.consignment_kind>>))
        \cup Says("TESZT", TestOf(h))
        \cup Says("VONALKOD", h.barcode)
        \cup Says("KULDEMENY_HIVATKOZASI_AZONOSITO", h.reference_id)
        \cup Says("HIBAKOD", h.error_code)
        \cup Says("KULDEMENY_MEGJEGYZES", h.note)

LEMMA HeaderLeaves ==
    ASSUME NEW h \in Header
    PROVE  Leaves(HeaderInner(h), NamesOfHeader, HeaderSays(h))
<1>1. /\ h.version \in Text /\ h.source_system \in SourceSystem /\ h.consignment_id \in Text
      /\ h.created_at_text \in Text /\ h.consignment_kind \in ConsignmentKind
      /\ h.barcode \subseteq Text /\ h.reference_id \subseteq Text
      /\ h.error_code \subseteq Text /\ h.note \subseteq Text
    BY DEF Header
<1>2. <<h.source_system>> \in Text /\ <<h.consignment_kind>> \in Text
    <2>1. h.source_system \in Piece /\ h.consignment_kind \in Piece
        BY <1>1, WordsAssumption
    <2> QED BY <2>1, WordIsText
<1>3. TestOf(h) \subseteq Text
    <2>1. "true" \in Piece /\ "false" \in Piece
        BY WordsAssumption
    <2>2. <<"true">> \in Text /\ <<"false">> \in Text
        BY <2>1, WordIsText
    <2> QED BY <2>2 DEF TestOf, Present, Absent
<1>4. NamesOfHeader \subseteq ElementNames
    BY DEF NamesOfHeader, ElementNames, HeaderRequired, HeaderOptional
<1> DEFINE n1 == "KRX_VERZIOSZAM"
           n2 == "FORRASRENDSZER_AZONOSITO"
           n3 == "KULDEMENY_AZONOSITO"
           n4 == "KULDEMENY_LETREHOZASANAK_IDEJE"
           n5 == "KULDEMENY_TIPUS"
           n6 == "TESZT"
           n7 == "VONALKOD"
           n8 == "KULDEMENY_HIVATKOZASI_AZONOSITO"
           n9 == "HIBAKOD"
           n10 == "KULDEMENY_MEGJEGYZES"
           s1 == TextElement(n1, h.version)
           s2 == TextElement(n2, <<h.source_system>>)
           s3 == TextElement(n3, h.consignment_id)
           s4 == TextElement(n4, h.created_at_text)
           s5 == TextElement(n5, <<h.consignment_kind>>)
           s6 == Optional(n6, TestOf(h))
           s7 == Optional(n7, h.barcode)
           s8 == Optional(n8, h.reference_id)
           s9 == Optional(n9, h.error_code)
           s10 == Optional(n10, h.note)
           p1 == Says(n1, Present(h.version))
           p2 == Says(n2, Present(<<h.source_system>>))
           p3 == Says(n3, Present(h.consignment_id))
           p4 == Says(n4, Present(h.created_at_text))
           p5 == Says(n5, Present(<<h.consignment_kind>>))
           p6 == Says(n6, TestOf(h))
           p7 == Says(n7, h.barcode)
           p8 == Says(n8, h.reference_id)
           p9 == Says(n9, h.error_code)
           p10 == Says(n10, h.note)
<1>5. {n1, n2, n3, n4, n5, n6, n7, n8, n9, n10} = NamesOfHeader
    BY DEF NamesOfHeader
<1>6. /\ n1 \in ElementNames /\ n2 \in ElementNames /\ n3 \in ElementNames /\ n4 \in ElementNames
      /\ n5 \in ElementNames /\ n6 \in ElementNames /\ n7 \in ElementNames /\ n8 \in ElementNames
      /\ n9 \in ElementNames /\ n10 \in ElementNames
    BY <1>4, <1>5
<1>7. Leaves(s1, {n1}, p1) /\ Leaves(s2, {n2}, p2) /\ Leaves(s3, {n3}, p3)
    <2> HIDE DEF n1, n2, n3
    <2> QED BY <1>1, <1>2, <1>6, LeavesOne
<1>8. Leaves(s4, {n4}, p4) /\ Leaves(s5, {n5}, p5)
    <2> HIDE DEF n4, n5
    <2> QED BY <1>1, <1>2, <1>6, LeavesOne
<1>9. Leaves(s6, {n6}, p6) /\ Leaves(s7, {n7}, p7) /\ Leaves(s8, {n8}, p8)
    <2> HIDE DEF n6, n7, n8
    <2> QED BY <1>1, <1>3, <1>6, LeavesOptional
<1>10. Leaves(s9, {n9}, p9) /\ Leaves(s10, {n10}, p10)
    <2> HIDE DEF n9, n10
    <2> QED BY <1>1, <1>6, LeavesOptional
<1>11. /\ {n1} \cap {n2} = {} /\ ({n1} \cup {n2}) \cap {n3} = {}
       /\ ({n1} \cup {n2} \cup {n3}) \cap {n4} = {}
       /\ ({n1} \cup {n2} \cup {n3} \cup {n4}) \cap {n5} = {}
       /\ ({n1} \cup {n2} \cup {n3} \cup {n4} \cup {n5}) \cap {n6} = {}
       /\ ({n1} \cup {n2} \cup {n3} \cup {n4} \cup {n5} \cup {n6}) \cap {n7} = {}
       /\ ({n1} \cup {n2} \cup {n3} \cup {n4} \cup {n5} \cup {n6} \cup {n7}) \cap {n8} = {}
       /\ ({n1} \cup {n2} \cup {n3} \cup {n4} \cup {n5} \cup {n6} \cup {n7} \cup {n8}) \cap {n9} = {}
       /\ ({n1} \cup {n2} \cup {n3} \cup {n4} \cup {n5} \cup {n6} \cup {n7} \cup {n8} \cup {n9})
            \cap {n10} = {}
    OBVIOUS
<1>12. {n1} \cup {n2} \cup {n3} \cup {n4} \cup {n5} \cup {n6} \cup {n7} \cup {n8} \cup {n9} \cup {n10}
          = NamesOfHeader
    <2> HIDE DEF n1, n2, n3, n4, n5, n6, n7, n8, n9, n10
    <2> QED BY <1>5
<1>13. HeaderInner(h) = s1 \o s2 \o s3 \o s4 \o s5 \o s6 \o s7 \o s8 \o s9 \o s10
    BY DEF HeaderInner
<1>14. HeaderSays(h) = p1 \cup p2 \cup p3 \cup p4 \cup p5 \cup p6 \cup p7 \cup p8 \cup p9 \cup p10
    BY DEF HeaderSays
<1> HIDE DEF s1, s2, s3, s4, s5, s6, s7, s8, s9, s10, p1, p2, p3, p4, p5, p6, p7, p8, p9, p10,
             n1, n2, n3, n4, n5, n6, n7, n8, n9, n10
<1>15. Leaves(s1 \o s2, {n1} \cup {n2}, p1 \cup p2)
    BY <1>7, <1>11, LeavesJoined
<1>16. Leaves(s1 \o s2 \o s3, {n1} \cup {n2} \cup {n3}, p1 \cup p2 \cup p3)
    BY <1>7, <1>11, <1>15, LeavesJoined
<1>17. Leaves(s1 \o s2 \o s3 \o s4, {n1} \cup {n2} \cup {n3} \cup {n4}, p1 \cup p2 \cup p3 \cup p4)
    BY <1>8, <1>11, <1>16, LeavesJoined
<1> DEFINE a5 == s1 \o s2 \o s3 \o s4 \o s5
           m5 == {n1} \cup {n2} \cup {n3} \cup {n4} \cup {n5}
           q5 == p1 \cup p2 \cup p3 \cup p4 \cup p5
<1>18. Leaves(a5, m5, q5)
    BY <1>8, <1>11, <1>17, LeavesJoined
<1>19. /\ m5 \cap {n6} = {} /\ (m5 \cup {n6}) \cap {n7} = {}
       /\ (m5 \cup {n6} \cup {n7}) \cap {n8} = {}
       /\ (m5 \cup {n6} \cup {n7} \cup {n8}) \cap {n9} = {}
       /\ (m5 \cup {n6} \cup {n7} \cup {n8} \cup {n9}) \cap {n10} = {}
    BY <1>11
<1>20. /\ HeaderInner(h) = a5 \o s6 \o s7 \o s8 \o s9 \o s10
       /\ HeaderSays(h) = q5 \cup p6 \cup p7 \cup p8 \cup p9 \cup p10
       /\ NamesOfHeader = m5 \cup {n6} \cup {n7} \cup {n8} \cup {n9} \cup {n10}
    BY <1>12, <1>13, <1>14
<1> HIDE DEF a5, m5, q5
<1>21. Leaves(a5 \o s6, m5 \cup {n6}, q5 \cup p6)
    BY <1>9, <1>18, <1>19, LeavesJoined
<1>22. Leaves(a5 \o s6 \o s7, m5 \cup {n6} \cup {n7}, q5 \cup p6 \cup p7)
    BY <1>9, <1>19, <1>21, LeavesJoined
<1>23. Leaves(a5 \o s6 \o s7 \o s8, m5 \cup {n6} \cup {n7} \cup {n8}, q5 \cup p6 \cup p7 \cup p8)
    BY <1>9, <1>19, <1>22, LeavesJoined
<1>24. Leaves(a5 \o s6 \o s7 \o s8 \o s9, m5 \cup {n6} \cup {n7} \cup {n8} \cup {n9},
              q5 \cup p6 \cup p7 \cup p8 \cup p9)
    BY <1>10, <1>19, <1>23, LeavesJoined
<1> QED BY <1>10, <1>19, <1>20, <1>24, LeavesJoined

\* An attachment as it is written, and what it says.
NamesOfAttachment == {"MELLEKLET_LEIRASA", "CSATOLMANY_SZAMA", "FAJL_NEV", "MERET",
                    "ELHELYEZKEDES", "MENNYISEG", "MENNYISEGI_EGYSEG"}
AttachmentInner(a) ==
    Optional("MELLEKLET_LEIRASA", a.description)
        \o TextElement("CSATOLMANY_SZAMA", Decimal[a.number])
        \o TextElement("FAJL_NEV", a.file_name) \o TextElement("MERET", a.size_text)
        \o TextElement("ELHELYEZKEDES", a.location)
        \o Optional("MENNYISEG", a.quantity) \o Optional("MENNYISEGI_EGYSEG", a.quantity_unit)
AttachmentSays(a) ==
    Says("MELLEKLET_LEIRASA", a.description)
        \cup Says("CSATOLMANY_SZAMA", Present(Decimal[a.number]))
        \cup Says("FAJL_NEV", Present(a.file_name)) \cup Says("MERET", Present(a.size_text))
        \cup Says("ELHELYEZKEDES", Present(a.location))
        \cup Says("MENNYISEG", a.quantity) \cup Says("MENNYISEGI_EGYSEG", a.quantity_unit)

LEMMA AttachmentLeaves ==
    ASSUME NEW a \in AttachmentReference, Decimal[a.number] \in Text
    PROVE  Leaves(AttachmentInner(a), NamesOfAttachment, AttachmentSays(a))
<1>1. /\ a.description \subseteq Text /\ a.file_name \in Text /\ a.size_text \in Text
      /\ a.location \in Text /\ a.quantity \subseteq Text /\ a.quantity_unit \subseteq Text
    BY DEF AttachmentReference
<1> DEFINE n1 == "MELLEKLET_LEIRASA"
           n2 == "CSATOLMANY_SZAMA"
           n3 == "FAJL_NEV"
           n4 == "MERET"
           n5 == "ELHELYEZKEDES"
           n6 == "MENNYISEG"
           n7 == "MENNYISEGI_EGYSEG"
           s1 == Optional(n1, a.description)
           s2 == TextElement(n2, Decimal[a.number])
           s3 == TextElement(n3, a.file_name)
           s4 == TextElement(n4, a.size_text)
           s5 == TextElement(n5, a.location)
           s6 == Optional(n6, a.quantity)
           s7 == Optional(n7, a.quantity_unit)
           p1 == Says(n1, a.description)
           p2 == Says(n2, Present(Decimal[a.number]))
           p3 == Says(n3, Present(a.file_name))
           p4 == Says(n4, Present(a.size_text))
           p5 == Says(n5, Present(a.location))
           p6 == Says(n6, a.quantity)
           p7 == Says(n7, a.quantity_unit)
<1>2. {n1, n2, n3, n4, n5, n6, n7} = NamesOfAttachment
    BY DEF NamesOfAttachment
<1>3. /\ n1 \in ElementNames /\ n2 \in ElementNames /\ n3 \in ElementNames /\ n4 \in ElementNames
      /\ n5 \in ElementNames /\ n6 \in ElementNames /\ n7 \in ElementNames
    BY DEF ElementNames, AttachmentRequired, AttachmentOptional
<1>4. Leaves(s1, {n1}, p1) /\ Leaves(s6, {n6}, p6) /\ Leaves(s7, {n7}, p7)
    <2> HIDE DEF n1, n6, n7
    <2> QED BY <1>1, <1>3, LeavesOptional
<1>5. Leaves(s2, {n2}, p2) /\ Leaves(s3, {n3}, p3) /\ Leaves(s4, {n4}, p4) /\ Leaves(s5, {n5}, p5)
    <2> HIDE DEF n2, n3, n4, n5
    <2> QED BY <1>1, <1>3, LeavesOne
<1>6. /\ {n1} \cap {n2} = {} /\ ({n1} \cup {n2}) \cap {n3} = {}
      /\ ({n1} \cup {n2} \cup {n3}) \cap {n4} = {}
      /\ ({n1} \cup {n2} \cup {n3} \cup {n4}) \cap {n5} = {}
      /\ ({n1} \cup {n2} \cup {n3} \cup {n4} \cup {n5}) \cap {n6} = {}
      /\ ({n1} \cup {n2} \cup {n3} \cup {n4} \cup {n5} \cup {n6}) \cap {n7} = {}
    OBVIOUS
<1>7. {n1} \cup {n2} \cup {n3} \cup {n4} \cup {n5} \cup {n6} \cup {n7} = NamesOfAttachment
    <2> HIDE DEF n1, n2, n3, n4, n5, n6, n7
    <2> QED BY <1>2
<1>8. AttachmentInner(a) = s1 \o s2 \o s3 \o s4 \o s5 \o s6 \o s7
    BY DEF AttachmentInner
<1>9. AttachmentSays(a) = p1 \cup p2 \cup p3 \cup p4 \cup p5 \cup p6 \cup p7
    BY DEF AttachmentSays
<1> HIDE DEF s1, s2, s3, s4, s5, s6, s7, p1, p2, p3, p4, p5, p6, p7, n1, n2, n3, n4, n5, n6, n7
<1>10. Leaves(s1 \o s2, {n1} \cup {n2}, p1 \cup p2)
    BY <1>4, <1>5, <1>6, LeavesJoined
<1>11. Leaves(s1 \o s2 \o s3, {n1} \cup {n2} \cup {n3}, p1 \cup p2 \cup p3)
    BY <1>5, <1>6, <1>10, LeavesJoined
<1>12. Leaves(s1 \o s2 \o s3 \o s4, {n1} \cup {n2} \cup {n3} \cup {n4}, p1 \cup p2 \cup p3 \cup p4)
    BY <1>5, <1>6, <1>11, LeavesJoined
<1>13. Leaves(s1 \o s2 \o s3 \o s4 \o s5, {n1} \cup {n2} \cup {n3} \cup {n4} \cup {n5},
              p1 \cup p2 \cup p3 \cup p4 \cup p5)
    BY <1>5, <1>6, <1>12, LeavesJoined
<1>14. Leaves(s1 \o s2 \o s3 \o s4 \o s5 \o s6, {n1} \cup {n2} \cup {n3} \cup {n4} \cup {n5} \cup {n6},
              p1 \cup p2 \cup p3 \cup p4 \cup p5 \cup p6)
    BY <1>4, <1>6, <1>13, LeavesJoined
<1>15. Leaves(s1 \o s2 \o s3 \o s4 \o s5 \o s6 \o s7,
              {n1} \cup {n2} \cup {n3} \cup {n4} \cup {n5} \cup {n6} \cup {n7},
              p1 \cup p2 \cup p3 \cup p4 \cup p5 \cup p6 \cup p7)
    BY <1>4, <1>6, <1>14, LeavesJoined
<1> QED BY <1>7, <1>8, <1>9, <1>15

\* A word nothing is trimmed of.
LEMMA TrimWord ==
    ASSUME NEW w, w \notin Space
    PROVE  Trim(<<w>>) = <<w>>
<1> DEFINE x == <<w>>
           kept == {i \in DOMAIN x : x[i] \notin Space}
<1>1. Len(x) = 1 /\ x[1] = w /\ DOMAIN x = {1} /\ IsSequence(x)
    <2>1. x \in Seq({w}) /\ Len(x) = 1 /\ x[1] = w /\ DOMAIN x = {1}
        OBVIOUS
    <2> QED BY <2>1 DEF IsSequence
<1>2. kept = {1}
    BY <1>1
<1>3. Min({1}) = 1 /\ Max({1}) = 1
    BY DEF Min, Max
<1>4. Trim(x) = IF kept = {} THEN <<>> ELSE SubSeq(x, Min(kept), Max(kept))
    BY DEF Trim
<1> HIDE DEF kept, x
<1>5. Trim(x) = SubSeq(x, 1, 1)
    BY <1>2, <1>3, <1>4
<1>6. SubSeq(x, 1, 1) = x
    <2> DEFINE c == SubSeq(x, 1, 1)
               n == 1
    <2>1. IsSequence(x) /\ n \in 0 .. Len(x) /\ c = SubSeq(x, 1, n)
        BY <1>1
    <2> HIDE DEF c, n
    <2>2. IsSequence(c) /\ Len(c) = n /\ \A i \in 1 .. n : c[i] = x[i]
        BY <2>1, CutBy
    <2> USE DEF n
    <2> HIDE DEF c
    <2>3. c = x
        BY <1>1, <2>2, SameSequence
    <2> QED BY <2>3 DEF c
<1> QED BY <1>5, <1>6 DEF x

\* What the writer checks of the texts of a header and of a reference, and
\* what it takes of the options.
Tidy(option) == \A x \in option : Trim(x) = x
TidyHeader(h) ==
    /\ Trim(h.version) = h.version /\ Trim(h.consignment_id) = h.consignment_id
    /\ Trim(h.created_at_text) = h.created_at_text
    /\ Tidy(h.barcode) /\ Tidy(h.reference_id) /\ Tidy(h.error_code) /\ Tidy(h.note)
TidyReference(a) ==
    /\ Trim(a.file_name) = a.file_name /\ Trim(a.size_text) = a.size_text
    /\ Trim(a.location) = a.location
    /\ Tidy(a.description) /\ Tidy(a.quantity) /\ Tidy(a.quantity_unit)
    /\ Decimal[a.number] \in Text /\ Trim(Decimal[a.number]) = Decimal[a.number]
    /\ Decimal[a.number] \in DOMAIN Numeral /\ Numeral[Decimal[a.number]] = a.number
    /\ a.size_value = (a.size_text \in Finite)

OneOf(option) == IF option = Absent THEN Absent ELSE Present(The(option))

LEMMA ReadTidy ==
    ASSUME NEW option, Tidy(option)
    PROVE  ReadAgain(option) = OneOf(option)
<1>1. CASE option = Absent
    BY <1>1 DEF ReadAgain, OneOf
<1>2. CASE option # Absent
    <2>1. The(option) \in option
        BY <1>2, TheIs DEF Absent
    <2> QED BY <2>1 DEF Tidy, ReadAgain, OneOf
<1> QED BY <1>1, <1>2

LEMMA ReadPresent ==
    ASSUME NEW x, Trim(x) = x
    PROVE  ReadAgain(Present(x)) = {x}
<1> QED BY TheOne DEF ReadAgain, Present, Absent

\* The values the reader makes of them.
HeaderAgain(h) ==
    [version |-> h.version, source_system |-> h.source_system,
     consignment_id |-> h.consignment_id, created_at_text |-> h.created_at_text,
     consignment_kind |-> h.consignment_kind, test |-> h.test_present /\ h.test,
     test_present |-> h.test_present, barcode |-> OneOf(h.barcode),
     reference_id |-> OneOf(h.reference_id), error_code |-> OneOf(h.error_code),
     note |-> OneOf(h.note)]
ReferenceAgain(a) ==
    [description |-> OneOf(a.description), number |-> a.number, file_name |-> a.file_name,
     size_text |-> a.size_text, size_value |-> a.size_value, location |-> a.location,
     quantity |-> OneOf(a.quantity), quantity_unit |-> OneOf(a.quantity_unit)]

\* What a header has to say to be one.
HeaderSound(t, e) ==
    /\ \A n \in HeaderRequired : Leaf(t, e, n) # {}
    /\ Leaf(t, e, "FORRASRENDSZER_AZONOSITO") \subseteq Tokens(SourceSystem)
    /\ Leaf(t, e, "KULDEMENY_TIPUS") \subseteq Tokens(ConsignmentKind)
    /\ Leaf(t, e, "TESZT") \subseteq Yes \cup No
AttachmentSound(t, e) ==
    /\ \A n \in AttachmentRequired : Leaf(t, e, n) # {}
    /\ Leaf(t, e, "CSATOLMANY_SZAMA") \subseteq DOMAIN Numeral

LEMMA HeaderRead ==
    ASSUME NEW h \in Header, TidyHeader(h), NEW t, NEW e, NEW q, q = t.close[e] - 1,
           Leafy(t, e, e, q, NamesOfHeader, HeaderSays(h))
    PROVE  HeaderAt(t, e) = HeaderAgain(h) /\ HeaderSound(t, e)
<1>1. h.source_system \in SourceSystem /\ h.consignment_kind \in ConsignmentKind
      /\ h.test \in BOOLEAN /\ h.test_present \in BOOLEAN
    BY DEF Header
<1>2. /\ Trim(<<h.source_system>>) = <<h.source_system>>
      /\ Trim(<<h.consignment_kind>>) = <<h.consignment_kind>>
      /\ Tidy(TestOf(h))
    <2>1. h.source_system \notin Space /\ h.consignment_kind \notin Space
          /\ "true" \notin Space /\ "false" \notin Space
        <3> HIDE DEF SourceSystem, ConsignmentKind
        <3> QED BY <1>1, WordsAssumption
    <2>2. Trim(<<"true">>) = <<"true">> /\ Trim(<<"false">>) = <<"false">>
        BY <2>1, TrimWord
    <2> QED BY <2>1, <2>2, TrimWord DEF Tidy, TestOf, Present, Absent
<1> DEFINE L(n) == Leaf(t, e, n)
           Picks(n, option) == \A x : <<n, x>> \in HeaderSays(h) <=> x \in ReadAgain(option)
<1>3. \A n, option : Picks(n, option) => L(n) = ReadAgain(option)
    BY LeafWritten
<1>4. ASSUME NEW n, NEW x
      PROVE  <<n, x>> \in HeaderSays(h) <=>
         \/ n = "KRX_VERZIOSZAM" /\ x \in ReadAgain(Present(h.version))
         \/ n = "FORRASRENDSZER_AZONOSITO" /\ x \in ReadAgain(Present(<<h.source_system>>))
         \/ n = "KULDEMENY_AZONOSITO" /\ x \in ReadAgain(Present(h.consignment_id))
         \/ n = "KULDEMENY_LETREHOZASANAK_IDEJE" /\ x \in ReadAgain(Present(h.created_at_text))
         \/ n = "KULDEMENY_TIPUS" /\ x \in ReadAgain(Present(<<h.consignment_kind>>))
         \/ n = "TESZT" /\ x \in ReadAgain(TestOf(h))
         \/ n = "VONALKOD" /\ x \in ReadAgain(h.barcode)
         \/ n = "KULDEMENY_HIVATKOZASI_AZONOSITO" /\ x \in ReadAgain(h.reference_id)
         \/ n = "HIBAKOD" /\ x \in ReadAgain(h.error_code)
         \/ n = "KULDEMENY_MEGJEGYZES" /\ x \in ReadAgain(h.note)
    <2> DEFINE z == <<n, x>>
    <2>1. \A m, option : z \in Says(m, option) <=> n = m /\ x \in ReadAgain(option)
        BY SaysIs
    <2> HIDE DEF z
    <2>2. z \in HeaderSays(h) <=>
            \/ z \in Says("KRX_VERZIOSZAM", Present(h.version))
            \/ z \in Says("FORRASRENDSZER_AZONOSITO", Present(<<h.source_system>>))
            \/ z \in Says("KULDEMENY_AZONOSITO", Present(h.consignment_id))
            \/ z \in Says("KULDEMENY_LETREHOZASANAK_IDEJE", Present(h.created_at_text))
            \/ z \in Says("KULDEMENY_TIPUS", Present(<<h.consignment_kind>>))
            \/ z \in Says("TESZT", TestOf(h))
            \/ z \in Says("VONALKOD", h.barcode)
            \/ z \in Says("KULDEMENY_HIVATKOZASI_AZONOSITO", h.reference_id)
            \/ z \in Says("HIBAKOD", h.error_code)
            \/ z \in Says("KULDEMENY_MEGJEGYZES", h.note)
        BY Zenon DEF HeaderSays
    <2> QED BY <2>1, <2>2, Zenon DEF z
<1> HIDE DEF L
<1>5. /\ Picks("KRX_VERZIOSZAM", Present(h.version))
      /\ Picks("FORRASRENDSZER_AZONOSITO", Present(<<h.source_system>>))
      /\ Picks("KULDEMENY_AZONOSITO", Present(h.consignment_id))
      /\ Picks("KULDEMENY_LETREHOZASANAK_IDEJE", Present(h.created_at_text))
      /\ Picks("KULDEMENY_TIPUS", Present(<<h.consignment_kind>>))
    BY <1>4
<1>6. /\ Picks("TESZT", TestOf(h)) /\ Picks("VONALKOD", h.barcode)
      /\ Picks("KULDEMENY_HIVATKOZASI_AZONOSITO", h.reference_id)
      /\ Picks("HIBAKOD", h.error_code) /\ Picks("KULDEMENY_MEGJEGYZES", h.note)
    BY <1>4
<1> HIDE DEF Picks
<1>7. /\ L("KRX_VERZIOSZAM") = {h.version}
      /\ L("FORRASRENDSZER_AZONOSITO") = {<<h.source_system>>}
      /\ L("KULDEMENY_AZONOSITO") = {h.consignment_id}
      /\ L("KULDEMENY_LETREHOZASANAK_IDEJE") = {h.created_at_text}
      /\ L("KULDEMENY_TIPUS") = {<<h.consignment_kind>>}
    BY <1>2, <1>3, <1>5, ReadPresent DEF TidyHeader
<1>8. /\ L("TESZT") = OneOf(TestOf(h)) /\ L("VONALKOD") = OneOf(h.barcode)
      /\ L("KULDEMENY_HIVATKOZASI_AZONOSITO") = OneOf(h.reference_id)
      /\ L("HIBAKOD") = OneOf(h.error_code) /\ L("KULDEMENY_MEGJEGYZES") = OneOf(h.note)
    BY <1>2, <1>3, <1>6, ReadTidy DEF TidyHeader
<1>9. L("TESZT") = TestOf(h)
    <2>1. \A x : OneOf(Present(x)) = Present(x)
        BY TheOne DEF OneOf, Present, Absent
    <2>2. OneOf(Absent) = Absent
        BY DEF OneOf
    <2>3. TestOf(h) = Absent \/ \E x : TestOf(h) = Present(x)
        BY Zenon DEF TestOf
    <2> QED BY <1>8, <2>1, <2>2, <2>3
<1>10. /\ (L("TESZT") \cap Yes # {}) = (h.test_present /\ h.test)
       /\ (L("TESZT") # Absent) = h.test_present
       /\ L("TESZT") \subseteq Yes \cup No
    <2>1. <<"true">> \in Yes /\ <<"false">> \notin Yes /\ <<"false">> \in No
        BY DEF Yes, No, Tokens
    <2>2. CASE ~h.test_present
        <3>1. L("TESZT") = {}
            BY <1>9, <2>2 DEF TestOf, Absent
        <3> QED BY <1>1, <2>2, <3>1 DEF Absent
    <2>3. CASE h.test_present /\ h.test
        <3>1. L("TESZT") = {<<"true">>}
            BY <1>9, <2>3 DEF TestOf, Present
        <3>2. L("TESZT") \cap Yes # {} /\ L("TESZT") # Absent /\ L("TESZT") \subseteq Yes \cup No
            BY <2>1, <3>1 DEF Absent
        <3> QED BY <1>1, <2>3, <3>2
    <2>4. CASE h.test_present /\ ~h.test
        <3>1. L("TESZT") = {<<"false">>}
            BY <1>9, <2>4 DEF TestOf, Present
        <3>2. L("TESZT") \cap Yes = {} /\ L("TESZT") # Absent /\ L("TESZT") \subseteq Yes \cup No
            BY <2>1, <3>1 DEF Absent
        <3> QED BY <1>1, <2>4, <3>2
    <2> QED BY <1>1, <2>2, <2>3, <2>4
<1>11. /\ The({h.version}) = h.version /\ The({h.consignment_id}) = h.consignment_id
       /\ The({h.created_at_text}) = h.created_at_text
       /\ The({<<h.source_system>>})[1] = h.source_system
       /\ The({<<h.consignment_kind>>})[1] = h.consignment_kind
    <2>1. /\ The({<<h.source_system>>}) = <<h.source_system>>
          /\ The({<<h.consignment_kind>>}) = <<h.consignment_kind>>
        BY TheOne
    <2>2. <<h.source_system>>[1] = h.source_system /\ <<h.consignment_kind>>[1] = h.consignment_kind
        OBVIOUS
    <2>3. /\ The({h.version}) = h.version /\ The({h.consignment_id}) = h.consignment_id
          /\ The({h.created_at_text}) = h.created_at_text
        BY TheOne
    <2> QED BY <2>1, <2>2, <2>3, Zenon
<1>12. HeaderAt(t, e) =
        [version |-> The(L("KRX_VERZIOSZAM")),
         source_system |-> The(L("FORRASRENDSZER_AZONOSITO"))[1],
         consignment_id |-> The(L("KULDEMENY_AZONOSITO")),
         created_at_text |-> The(L("KULDEMENY_LETREHOZASANAK_IDEJE")),
         consignment_kind |-> The(L("KULDEMENY_TIPUS"))[1],
         test |-> L("TESZT") \cap Yes # {}, test_present |-> L("TESZT") # Absent,
         barcode |-> L("VONALKOD"), reference_id |-> L("KULDEMENY_HIVATKOZASI_AZONOSITO"),
         error_code |-> L("HIBAKOD"), note |-> L("KULDEMENY_MEGJEGYZES")]
    BY DEF HeaderAt, L
<1>13. HeaderAt(t, e) = HeaderAgain(h)
    BY <1>7, <1>8, <1>10, <1>11, <1>12, Zenon DEF HeaderAgain
<1>14. HeaderSound(t, e)
    <2>1. \A n \in HeaderRequired : L(n) # {}
        BY <1>7 DEF HeaderRequired
    <2>2. <<h.source_system>> \in Tokens(SourceSystem) /\ <<h.consignment_kind>> \in Tokens(ConsignmentKind)
        <3> HIDE DEF SourceSystem, ConsignmentKind
        <3> QED BY <1>1 DEF Tokens
    <2> QED BY <1>7, <1>10, <2>1, <2>2 DEF HeaderSound, L
<1> QED BY <1>13, <1>14

LEMMA AttachmentRead ==
    ASSUME NEW a \in AttachmentReference, TidyReference(a), NEW t, NEW e, NEW q, q = t.close[e] - 1,
           Leafy(t, e, e, q, NamesOfAttachment, AttachmentSays(a))
    PROVE  AttachmentAt(t, e) = ReferenceAgain(a) /\ AttachmentSound(t, e)
<1> DEFINE L(n) == Leaf(t, e, n)
           Picks(n, option) == \A x : <<n, x>> \in AttachmentSays(a) <=> x \in ReadAgain(option)
<1>1. \A n, option : Picks(n, option) => L(n) = ReadAgain(option)
    BY LeafWritten
<1>2. ASSUME NEW n, NEW x
      PROVE  <<n, x>> \in AttachmentSays(a) <=>
         \/ n = "MELLEKLET_LEIRASA" /\ x \in ReadAgain(a.description)
         \/ n = "CSATOLMANY_SZAMA" /\ x \in ReadAgain(Present(Decimal[a.number]))
         \/ n = "FAJL_NEV" /\ x \in ReadAgain(Present(a.file_name))
         \/ n = "MERET" /\ x \in ReadAgain(Present(a.size_text))
         \/ n = "ELHELYEZKEDES" /\ x \in ReadAgain(Present(a.location))
         \/ n = "MENNYISEG" /\ x \in ReadAgain(a.quantity)
         \/ n = "MENNYISEGI_EGYSEG" /\ x \in ReadAgain(a.quantity_unit)
    <2> DEFINE z == <<n, x>>
    <2>1. \A m, option : z \in Says(m, option) <=> n = m /\ x \in ReadAgain(option)
        BY SaysIs
    <2> HIDE DEF z
    <2>2. z \in AttachmentSays(a) <=>
            \/ z \in Says("MELLEKLET_LEIRASA", a.description)
            \/ z \in Says("CSATOLMANY_SZAMA", Present(Decimal[a.number]))
            \/ z \in Says("FAJL_NEV", Present(a.file_name))
            \/ z \in Says("MERET", Present(a.size_text))
            \/ z \in Says("ELHELYEZKEDES", Present(a.location))
            \/ z \in Says("MENNYISEG", a.quantity)
            \/ z \in Says("MENNYISEGI_EGYSEG", a.quantity_unit)
        BY Zenon DEF AttachmentSays
    <2> QED BY <2>1, <2>2, Zenon DEF z
<1> HIDE DEF L
<1>3. /\ Picks("MELLEKLET_LEIRASA", a.description)
      /\ Picks("CSATOLMANY_SZAMA", Present(Decimal[a.number]))
      /\ Picks("FAJL_NEV", Present(a.file_name))
      /\ Picks("MERET", Present(a.size_text))
    BY <1>2
<1>4. /\ Picks("ELHELYEZKEDES", Present(a.location))
      /\ Picks("MENNYISEG", a.quantity) /\ Picks("MENNYISEGI_EGYSEG", a.quantity_unit)
    BY <1>2
<1> HIDE DEF Picks
<1>5. /\ L("CSATOLMANY_SZAMA") = {Decimal[a.number]} /\ L("FAJL_NEV") = {a.file_name}
      /\ L("MERET") = {a.size_text} /\ L("ELHELYEZKEDES") = {a.location}
    BY <1>1, <1>3, <1>4, ReadPresent DEF TidyReference
<1>6. /\ L("MELLEKLET_LEIRASA") = OneOf(a.description) /\ L("MENNYISEG") = OneOf(a.quantity)
      /\ L("MENNYISEGI_EGYSEG") = OneOf(a.quantity_unit)
    BY <1>1, <1>3, <1>4, ReadTidy DEF TidyReference
<1>7. /\ The({Decimal[a.number]}) = Decimal[a.number] /\ The({a.file_name}) = a.file_name
      /\ The({a.size_text}) = a.size_text /\ The({a.location}) = a.location
    BY TheOne
<1>8. AttachmentAt(t, e) =
        [description |-> L("MELLEKLET_LEIRASA"), number |-> Numeral[The(L("CSATOLMANY_SZAMA"))],
         file_name |-> The(L("FAJL_NEV")), size_text |-> The(L("MERET")),
         size_value |-> The(L("MERET")) \in Finite, location |-> The(L("ELHELYEZKEDES")),
         quantity |-> L("MENNYISEG"), quantity_unit |-> L("MENNYISEGI_EGYSEG")]
    BY DEF AttachmentAt, L
<1>9. AttachmentAt(t, e) = ReferenceAgain(a)
    <2>1. Numeral[Decimal[a.number]] = a.number /\ a.size_value = (a.size_text \in Finite)
        BY DEF TidyReference
    <2>2. AttachmentAt(t, e) =
        [description |-> OneOf(a.description), number |-> Numeral[Decimal[a.number]],
         file_name |-> a.file_name, size_text |-> a.size_text,
         size_value |-> a.size_text \in Finite, location |-> a.location,
         quantity |-> OneOf(a.quantity), quantity_unit |-> OneOf(a.quantity_unit)]
        BY <1>5, <1>6, <1>7, <1>8, Zenon
    <2> QED BY <2>1, <2>2, Zenon DEF ReferenceAgain
<1>10. AttachmentSound(t, e)
    <2>1. \A n \in AttachmentRequired : L(n) # {}
        BY <1>5 DEF AttachmentRequired
    <2>2. Decimal[a.number] \in DOMAIN Numeral
        BY DEF TidyReference
    <2> QED BY <1>5, <2>1, <2>2 DEF AttachmentSound, L
<1> QED BY <1>9, <1>10

-----------------------------------------------------------------------------
(* No element that is written is a fault.                                  *)

\* An element that is no fault where it stands, but for the order of blocks.
Sound(t, j) ==
    /\ t.part[j] \notin {"none", "below", "unknown"}
    /\ ValueFaults(t, j) = {}
    /\ t.part[j] \notin Range(Blocks) => PlaceFaults(t, j) = {}

\* No two leaves have a name.
LEMMA LeafyTwins ==
    ASSUME NEW d \in Seq(Event), NEW t, t = Tree(d), NEW e \in 1 .. Len(d), NEW q \in Nat, q <= Len(d), NEW N, NEW P,
           Leafy(t, e, e, q, N, P), NEW j \in e + 1 .. q, IsOpen(d[j]), t.part[j] = "leaf"
    PROVE  Twins(t, j) = {}
<1>1. t.event = d /\ e \in Nat /\ e # 0 /\ j \in Nat /\ j \in 1 .. Len(d) /\ Len(d) \in Nat
    BY TreeIs
<1>2. /\ t.parent[j] = e
      /\ \A i \in e + 1 .. q : IsOpen(d[i]) /\ d[i].name = d[j].name => i = j
    BY <1>1 DEF Leafy
<1>3. ASSUME NEW i \in Twins(t, j) PROVE FALSE
    <2>1. i \in 1 .. j - 1 /\ t.part[i] = "leaf" /\ t.parent[i] = e /\ d[i].name = d[j].name
        BY <1>1, <1>2, <1>3 DEF Twins
    <2>2. i \in 1 .. Len(d)
        BY <1>1, <2>1
    <2>3. IsOpen(d[i])
        BY <2>1, <2>2, PartMeans
    <2>4. e \in 1 .. i - 1
        BY <1>1, <2>1, <2>2, <2>3, ParentEncloses
    <2>5. i \in e + 1 .. q /\ i # j
        BY <1>1, <2>1, <2>4
    <2> QED BY <1>2, <2>1, <2>3, <2>5
<1> QED BY <1>3

\* The leaves of an element that has nothing else.
LEMMA LeavesSound ==
    ASSUME NEW d \in Seq(Event), NEW t, t = Tree(d), NEW e \in 1 .. Len(d), NEW q \in Nat, q <= Len(d), NEW N, NEW P,
           Leafy(t, e, e, q, N, P), t.part[e] \in {"FEJRESZ", "MELLEKLET"}, N \subseteq Field,
           NEW j \in e + 1 .. q, IsOpen(d[j])
    PROVE  Sound(t, j) /\ t.part[j] = "leaf" /\ t.parent[j] = e
<1>1. t.event = d /\ e \in Nat /\ e # 0 /\ j \in Nat /\ j \in 1 .. Len(d) /\ Len(d) \in Nat
    BY TreeIs
<1>2. /\ t.parent[j] = e /\ d[j].binding = "target" /\ d[j].name \in N
      /\ \A i \in e + 1 .. q : IsOpen(d[i]) /\ d[i].name = d[j].name => i = j
    BY <1>1 DEF Leafy
<1>3. t.part[j] = "leaf"
    <2> DEFINE p == t.parent[j]
    <2>1. t.part[p] \in {"FEJRESZ", "MELLEKLET"} /\ IsOpen(d[j]) /\ p # 0 =>
                 (t.part[j] = "leaf" <=> d[j].binding = "target" /\ d[j].name \in Field)
        BY <1>1, PartMeans
    <2>2. d[j].name \in Field
        BY <1>2
    <2> QED BY <1>1, <1>2, <2>1, <2>2
<1>4. Twins(t, j) = {}
    BY <1>3, LeafyTwins
<1>5. t.part[j] \notin {"none", "below", "unknown"} /\ t.part[j] \notin Range(Blocks) \cup {"MELLEKLETEK"}
    <2>1. "leaf" \notin Range(Blocks)
        BY PartsApart DEF Apart
    <2> QED BY <1>3, <2>1
<1>6. t.part[t.parent[j]] # "EXPEDIALAS" /\ t.part[t.parent[j]] # "leaf"
    BY <1>2
<1>7. ValueFaults(t, j) = {}
    BY <1>3, <1>4, <1>6, ValueFaultsAre
<1>8. PlaceFaults(t, j) = {}
    BY <1>1, <1>2, <1>5, <1>6, PlaceFaultsAre
<1> QED BY <1>2, <1>3, <1>5, <1>7, <1>8 DEF Sound

LEMMA StartWritten ==
    ASSUME NEW name \in ElementNames, NEW binding \in {"target", "unbound"},
           NEW st, st = Start(name, binding)
    PROVE  /\ IsStart(st) /\ IsWritten(st) /\ st.name = name /\ st.binding = binding
           /\ IsOpen(st)
<1>1. st \in Event
    <2>1. name \in STRING
        BY NamesAreStrings
    <2>2. <<>> \in Seq(Attribute)
        OBVIOUS
    <2> QED BY <2>1, <2>2, StartIs DEF Start
<1>2. /\ st.kind = "start" /\ st.binding = binding /\ st.attributes = <<>> /\ st.name = name
    BY DEF Start
<1> QED BY <1>1, <1>2 DEF IsStart, IsWritten, IsOpen

\* An element of the list, as it is read.
ListedBy(t, l, e, a) ==
    /\ IsOpen(t.event[e]) /\ t.part[e] = "MELLEKLET" /\ t.parent[e] = l
    /\ AttachmentAt(t, e) = ReferenceAgain(a)

LEMMA AttachmentStands ==
    ASSUME NEW a \in AttachmentReference, TidyReference(a),
           NEW d, NEW t, NEW l, NEW p, In(d, t, l, p, AttachmentElement(a)),
           t.part[l] = "MELLEKLETEK"
    PROVE  /\ ListedBy(t, l, p + 1, a) /\ Len(AttachmentElement(a)) > 0
           /\ \A j \in p + 1 .. p + Len(AttachmentElement(a)) : IsOpen(d[j]) =>
                /\ Sound(t, j)
                /\ \/ j = p + 1
                   \/ t.part[j] = "leaf" /\ t.part[t.parent[j]] = "MELLEKLET"
<1> DEFINE st == Start("MELLEKLET", "target")
           x == AttachmentInner(a)
           e == p + 1
           q == p + 1 + Len(x)
<1>1. AttachmentElement(a) = Around(st, x)
    BY DEF AttachmentElement, AttachmentInner, Element, Around, EndEvent
<1>2. IsStart(st) /\ IsWritten(st) /\ st.name = "MELLEKLET" /\ st.binding = "target" /\ IsOpen(st)
    <2>1. "MELLEKLET" \in ElementNames
        BY DEF ElementNames
    <2> QED BY <2>1, StartWritten
<1>3. Leaves(x, NamesOfAttachment, AttachmentSays(a)) /\ Balanced(x)
    <2>1. Decimal[a.number] \in Text
        BY DEF TidyReference
    <2> QED BY <2>1, AttachmentLeaves DEF Leaves, Fragment
<1> HIDE DEF st, x
<1>4. /\ e \in 1 .. Len(d) /\ d[e] = st /\ t.parent[e] = l
      /\ t.close[e] = p + 2 + Len(x) /\ d[p + 2 + Len(x)].kind = "end"
      /\ In(d, t, e, e, x)
      /\ Len(Around(st, x)) = Len(x) + 2 /\ Len(x) \in Nat
    BY <1>1, <1>2, <1>3, OpenedBy
<1>5. d \in Seq(Event) /\ t = Tree(d) /\ t.event = d /\ p \in Nat /\ l \in 1 .. p /\ Len(d) \in Nat
      /\ p + 1 + Len(x) <= Len(d)
    <2>1. d \in Seq(Event) /\ t = Tree(d) /\ p \in Nat /\ l \in 1 .. p /\ Len(d) \in Nat
        BY InIs
    <2>2. p + 1 + Len(x) <= Len(d)
        BY <1>4, InIs
    <2> QED BY <2>1, <2>2, TreeIs
<1>6. Leafy(t, e, e, e + Len(x), NamesOfAttachment, AttachmentSays(a))
    BY <1>3, <1>4 DEF Leaves
<1>7. q = e + Len(x) /\ q = t.close[e] - 1 /\ q \in Nat /\ q <= Len(d)
    BY <1>4, <1>5
<1>8. AttachmentAt(t, e) = ReferenceAgain(a) /\ AttachmentSound(t, e)
    <2> HIDE DEF q, e
    <2> QED BY <1>6, <1>7, AttachmentRead
<1>9. t.part[e] = "MELLEKLET"
    <2>1. l # 0 /\ IsOpen(d[e])
        BY <1>2, <1>4, <1>5
    <2>2. t.part[e] = Part("MELLEKLETEK", d[e])
        BY <1>4, <1>5, <2>1, PartIs
    <2> QED BY <1>2, <1>4, <2>2, Meanings
<1>10. Sound(t, e)
    <2>1. "MELLEKLET" \notin Range(Blocks) \cup {"MELLEKLETEK"}
        BY PartsApart DEF Apart
    <2>2. PlaceFaults(t, e) = {}
        <3>1. t.parent[e] = l /\ l # 0 /\ t.part[l] # "leaf" /\ e \in Nat
            BY <1>4, <1>5
        <3> HIDE DEF e
        <3> QED BY <1>9, <2>1, <3>1, PlaceFaultsAre
    <2>3. ValueFaults(t, e) = {}
        <3> HIDE DEF e
        <3> QED BY <1>8, <1>9, ValueFaultsAre DEF AttachmentSound
    <2> QED BY <1>9, <2>2, <2>3 DEF Sound
<1>11. ASSUME NEW j \in e + 1 .. q, IsOpen(d[j])
       PROVE  Sound(t, j) /\ t.part[j] = "leaf" /\ t.parent[j] = e
    <2>1. NamesOfAttachment \subseteq Field
        BY DEF NamesOfAttachment, Field, AttachmentRequired, AttachmentOptional
    <2>2. Leafy(t, e, e, q, NamesOfAttachment, AttachmentSays(a))
        BY <1>6, <1>7
    <2> HIDE DEF q, e
    <2> QED BY <1>4, <1>5, <1>7, <1>9, <1>11, <2>1, <2>2, LeavesSound, SMTT(20)
<1>12. ASSUME NEW j \in p + 1 .. p + Len(AttachmentElement(a)), IsOpen(d[j])
       PROVE  /\ Sound(t, j)
              /\ \/ j = p + 1
                 \/ t.part[j] = "leaf" /\ t.part[t.parent[j]] = "MELLEKLET"
    <2>1. j = e \/ j \in e + 1 .. q \/ j = p + 2 + Len(x)
        BY <1>1, <1>4, <1>5
    <2>2. CASE j = e
        BY <1>10, <2>2
    <2>3. CASE j \in e + 1 .. q
        BY <1>9, <1>11, <1>12, <2>3
    <2>4. CASE j = p + 2 + Len(x)
        BY <1>4, <1>12, <2>4 DEF IsOpen
    <2> QED BY <2>1, <2>2, <2>3, <2>4
<1>13. ListedBy(t, l, p + 1, a) /\ Len(AttachmentElement(a)) > 0
    BY <1>1, <1>2, <1>4, <1>5, <1>8, <1>9 DEF ListedBy
<1> QED BY <1>12, <1>13

LEMMA AttachmentFragment ==
    ASSUME NEW a \in AttachmentReference, TidyReference(a)
    PROVE  Fragment(AttachmentElement(a))
<1> DEFINE st == Start("MELLEKLET", "target")
           x == AttachmentInner(a)
<1>1. AttachmentElement(a) = Around(st, x)
    BY DEF AttachmentElement, AttachmentInner, Element, Around, EndEvent
<1>2. IsStart(st) /\ IsWritten(st)
    <2>1. "MELLEKLET" \in ElementNames
        BY DEF ElementNames
    <2> QED BY <2>1, StartWritten
<1>3. Fragment(x)
    <2>1. Decimal[a.number] \in Text
        BY DEF TidyReference
    <2> QED BY <2>1, AttachmentLeaves DEF Leaves
<1> QED BY <1>1, <1>2, <1>3, FragmentAround

\* The elements of the first n attachments, and what is read of them behind
\* position p up to position q.
ListOf(a, n) == FlattenSeq([i \in 1 .. n |-> AttachmentElement(a[i])])
Items(t, p, q) == {j \in p + 1 .. q : t.part[j] = "MELLEKLET"}
ListRead(t, l, p, q, a, n) ==
    /\ \A j \in p + 1 .. q : IsOpen(t.event[j]) =>
          /\ Sound(t, j)
          /\ \/ t.part[j] = "MELLEKLET" /\ t.parent[j] = l
             \/ t.part[j] = "leaf" /\ t.part[t.parent[j]] = "MELLEKLET"
    /\ Cardinality(Items(t, p, q)) = n
    /\ \A k \in 1 .. n : AttachmentAt(t, InOrder(Items(t, p, q))[k]) = ReferenceAgain(a[k])

ListHolds(a, n) ==
    /\ Fragment(ListOf(a, n))
    /\ \A d, t, l, p : In(d, t, l, p, ListOf(a, n)) /\ t.part[l] = "MELLEKLETEK" =>
          ListRead(t, l, p, p + Len(ListOf(a, n)), a, n)

\* One element more.
LEMMA ListWritten ==
    ASSUME NEW a, NEW n \in Nat, ListHolds(a, n),
           a[n + 1] \in AttachmentReference, TidyReference(a[n + 1])
    PROVE  ListHolds(a, n + 1)
<1> DEFINE f == [i \in 1 .. n |-> AttachmentElement(a[i])]
           g == [i \in 1 .. n + 1 |-> AttachmentElement(a[i])]
           y == ListOf(a, n)
           z == ListOf(a, n + 1)
           w == AttachmentElement(a[n + 1])
<1>1. Fragment(w) /\ Fragment(y)
    BY AttachmentFragment DEF ListHolds
<1>2. w \in Seq(Event) /\ IsSequence(w) /\ y \in Seq(Event) /\ Balanced(y)
    BY <1>1 DEF Fragment, Balanced, IsSequence
<1>3. z = y \o w
    <2>1. f = [i \in 1 .. n |-> f[i]] /\ g = [i \in 1 .. n + 1 |-> g[i]] /\ g[n + 1] = w
          /\ \A i \in 1 .. n : f[i] = g[i]
        OBVIOUS
    <2>2. FlattenSeq(g) = FlattenSeq(f) \o g[n + 1]
        <3>1. IsSequence(g[n + 1])
            BY <1>2, <2>1
        <3> HIDE DEF f, g, w
        <3> QED BY <2>1, <3>1, FlattenStep
    <2> QED BY <2>1, <2>2 DEF ListOf
<1>4. Fragment(z)
    BY <1>1, <1>3, FragmentJoined
<1> HIDE DEF y, z, w
<1>5. ASSUME NEW d, NEW t, NEW l, NEW p, In(d, t, l, p, z), t.part[l] = "MELLEKLETEK"
      PROVE  ListRead(t, l, p, p + Len(z), a, n + 1)
    <2> DEFINE q == p + Len(y)
               r == p + Len(z)
               b == q + 1
               S == Items(t, p, q)
               T == Items(t, p, r)
    <2>1. In(d, t, l, p, y) /\ In(d, t, l, q, w) /\ Len(z) = Len(y) + Len(w)
          /\ Len(y) \in Nat /\ Len(w) \in Nat
        <3>1. In(d, t, l, p, y \o w)
            BY <1>3, <1>5
        <3> QED BY <1>2, <1>3, <3>1, InParts
    <2>2. p \in Nat /\ q \in Nat /\ r = q + Len(w) /\ r \in Nat /\ t.event = d /\ d \in Seq(Event) /\ t = Tree(d)
        <3>1. p \in Nat /\ t = Tree(d) /\ d \in Seq(Event)
            BY <1>5, InIs
        <3> QED BY <2>1, <3>1, TreeIs
    <2>3. ListRead(t, l, p, q, a, n)
        BY <1>5, <2>1 DEF ListHolds, y
    <2>4. /\ ListedBy(t, l, b, a[n + 1]) /\ Len(w) > 0
          /\ \A j \in b .. r : IsOpen(d[j]) =>
                /\ Sound(t, j)
                /\ \/ j = b
                   \/ t.part[j] = "leaf" /\ t.part[t.parent[j]] = "MELLEKLET"
        <3>1. In(d, t, l, q, AttachmentElement(a[n + 1]))
            BY <2>1 DEF w
        <3> HIDE DEF q
        <3>2. /\ ListedBy(t, l, q + 1, a[n + 1]) /\ Len(AttachmentElement(a[n + 1])) > 0
              /\ \A j \in q + 1 .. q + Len(AttachmentElement(a[n + 1])) : IsOpen(d[j]) =>
                    /\ Sound(t, j)
                    /\ \/ j = q + 1
                       \/ t.part[j] = "leaf" /\ t.part[t.parent[j]] = "MELLEKLET"
            BY <1>5, <3>1, AttachmentStands
        <3> QED BY <2>2, <3>2 DEF w
    <2>5. r <= Len(d) /\ Len(d) \in Nat /\ b \in 1 .. Len(d) /\ b <= r
        <3>1. p + Len(z) <= Len(d) /\ Len(d) \in Nat
            BY <1>5, InIs
        <3> QED BY <2>1, <2>2, <2>4, <3>1
    <2>6. T = S \cup {b}
        <3>1. t.part[b] = "MELLEKLET"
            BY <2>4 DEF ListedBy
        <3>2. ASSUME NEW j \in T PROVE j \in S \cup {b}
            <4>1. j \in p + 1 .. r /\ t.part[j] = "MELLEKLET"
                BY <3>2 DEF Items
            <4>2. j \in 1 .. Len(d)
                BY <2>2, <2>5, <4>1
            <4>3. IsOpen(d[j])
                BY <2>2, <4>1, <4>2, PartMeans
            <4>4. CASE j \in p + 1 .. q
                BY <4>1, <4>4 DEF Items
            <4>5. CASE j \in b .. r
                BY <2>4, <4>1, <4>3, <4>5
            <4>6. j \in p + 1 .. q \/ j \in b .. r
                BY <2>2, <4>1
            <4> QED BY <4>4, <4>5, <4>6
        <3>3. ASSUME NEW j \in S \cup {b} PROVE j \in T
            <4>1. CASE j = b
                BY <2>1, <2>2, <2>4, <3>1, <4>1 DEF Items
            <4>2. CASE j \in S
                BY <2>1, <2>2, <4>2 DEF Items
            <4> QED BY <3>3, <4>1, <4>2
        <3> QED BY <3>2, <3>3
    <2>7. Behind(S, b)
        <3>1. S \subseteq 1 .. Len(d)
            BY <2>2, <2>5 DEF Items
        <3>2. \A j \in S : j < b
            BY <2>2 DEF Items
        <3> QED BY <2>5, <3>1, <3>2 DEF Behind
    <2>8. Cardinality(S) = n
        BY <2>3 DEF ListRead
    <2>9. /\ \A k \in 1 .. n : InOrder(T)[k] = InOrder(S)[k]
          /\ InOrder(T)[n + 1] = b
          /\ DOMAIN InOrder(T) = 1 .. n + 1
        <3> HIDE DEF S, T, b
        <3> QED BY <2>6, <2>7, <2>8, InOrderStep
    <2>10. Cardinality(T) = n + 1
        <3>1. T \subseteq 1 .. Len(d)
            BY <2>2, <2>5 DEF Items
        <3> HIDE DEF T
        <3>2. InOrder(T) \in Seq(T) /\ Len(InOrder(T)) = Cardinality(T) /\ Cardinality(T) \in Nat
            BY <2>5, <3>1, InOrderIs
        <3>3. DOMAIN InOrder(T) = 1 .. Len(InOrder(T)) /\ Len(InOrder(T)) \in Nat
            BY <3>2
        <3> DEFINE m == Cardinality(T)
        <3> HIDE DEF m
        <3>4. 1 .. m = 1 .. n + 1 /\ m \in Nat
            BY <2>9, <3>2, <3>3 DEF m
        <3>5. m = n + 1
            BY <3>4
        <3> QED BY <3>5 DEF m
    <2>11. \A k \in 1 .. n + 1 : AttachmentAt(t, InOrder(T)[k]) = ReferenceAgain(a[k])
        <3>1. \A k \in 1 .. n : AttachmentAt(t, InOrder(S)[k]) = ReferenceAgain(a[k])
            BY <2>3 DEF ListRead
        <3>2. AttachmentAt(t, b) = ReferenceAgain(a[n + 1])
            BY <2>4 DEF ListedBy
        <3> HIDE DEF S, T, b
        <3>3. TAKE k \in 1 .. n + 1
        <3>4. CASE k \in 1 .. n
            BY <2>9, <3>1, <3>4
        <3>5. CASE k = n + 1
            BY <2>9, <3>2, <3>5
        <3> QED BY <3>4, <3>5
    <2>12. ASSUME NEW j \in p + 1 .. r, IsOpen(t.event[j])
           PROVE  /\ Sound(t, j)
                  /\ \/ t.part[j] = "MELLEKLET" /\ t.parent[j] = l
                     \/ t.part[j] = "leaf" /\ t.part[t.parent[j]] = "MELLEKLET"
        <3>1. j \in p + 1 .. q \/ j \in b .. r
            BY <2>2, <2>12
        <3>2. CASE j \in p + 1 .. q
            BY <2>3, <2>12, <3>2 DEF ListRead
        <3>3. CASE j \in b .. r
            <4>1. Sound(t, j) /\ (j = b \/ (t.part[j] = "leaf" /\ t.part[t.parent[j]] = "MELLEKLET"))
                <5>1. IsOpen(d[j])
                    BY <2>2, <2>12
                <5>2. \A k \in b .. r : IsOpen(d[k]) =>
                          /\ Sound(t, k)
                          /\ \/ k = b
                             \/ t.part[k] = "leaf" /\ t.part[t.parent[k]] = "MELLEKLET"
                    BY <2>4
                <5> HIDE DEF b, r
                <5> QED BY <3>3, <5>1, <5>2, Zenon
            <4>2. t.part[b] = "MELLEKLET" /\ t.parent[b] = l
                BY <2>4 DEF ListedBy
            <4> QED BY <4>1, <4>2
        <3> QED BY <3>1, <3>2, <3>3
    <2> QED BY <2>10, <2>11, <2>12 DEF ListRead
<1> QED BY <1>4, <1>5 DEF ListHolds, z

LEMMA ListNone == ASSUME NEW a PROVE ListHolds(a, 0)
<1> DEFINE y == ListOf(a, 0)
<1>1. y = <<>>
    BY DEF ListOf, FlattenSeq
<1> HIDE DEF y
<1>2. Fragment(y) /\ Len(y) = 0
    BY <1>1, FragmentNone
<1>3. ASSUME NEW d, NEW t, NEW l, NEW p, In(d, t, l, p, y)
      PROVE  ListRead(t, l, p, p + Len(y), a, 0)
    <2>1. p \in Nat
        BY <1>3, InIs
    <2>2. p + 1 .. p + Len(y) = {}
        BY <1>2, <2>1
    <2>3. Items(t, p, p + Len(y)) = {}
        BY <2>2 DEF Items
    <2> QED BY <2>2, <2>3, FS_EmptySet DEF ListRead
<1> QED BY <1>2, <1>3 DEF ListHolds, y

\* The attachments of a dispatch can be written and read again.
TidyList(a) ==
    a \in Seq(AttachmentReference) /\ \A i \in 1 .. Len(a) : TidyReference(a[i])

LEMMA ListStands ==
    ASSUME NEW a, TidyList(a)
    PROVE  ListHolds(a, Len(a)) /\ Len(a) \in Nat
<1> DEFINE Bad == {i \in 0 .. Len(a) : ~ListHolds(a, i)}
<1>1. Len(a) \in Nat /\ \A i \in 1 .. Len(a) : a[i] \in AttachmentReference /\ TidyReference(a[i])
    BY DEF TidyList
<1>2. ASSUME Bad # {} PROVE FALSE
    <2>1. PICK i \in Bad : \A j \in Bad : i <= j
        <3>1. Bad \subseteq Nat
            BY <1>1
        <3> HIDE DEF Bad
        <3> QED BY <1>2, <3>1, LeastNumber
    <2>2. i # 0 /\ i \in 0 .. Len(a) /\ ~ListHolds(a, i)
        BY ListNone
    <2>3. i - 1 \in Nat /\ (i - 1) + 1 = i /\ i - 1 \in 0 .. Len(a) /\ ~(i <= i - 1) /\ i \in 1 .. Len(a)
        BY <1>1, <2>2
    <2>4. ListHolds(a, i - 1)
        BY <2>1, <2>3
    <2>5. ListHolds(a, (i - 1) + 1)
        <3> DEFINE k == i - 1
        <3>1. k \in Nat /\ ListHolds(a, k) /\ a[k + 1] \in AttachmentReference /\ TidyReference(a[k + 1])
            BY <1>1, <2>3, <2>4
        <3> HIDE DEF k
        <3>2. ListHolds(a, k + 1)
            BY <3>1, ListWritten
        <3> QED BY <3>2 DEF k
    <2> QED BY <2>2, <2>3, <2>5
<1>3. Len(a) \in 0 .. Len(a)
    BY <1>1
<1> QED BY <1>1, <1>2, <1>3

\* What is read of leaves in an element that has others of other names.
LEMMA LeafAmong ==
    ASSUME NEW t, NEW e \in Nat, NEW N, NEW P, NEW name, NEW option, NEW q \in Nat,
           NEW r \in Nat, r = t.close[e] - 1, q <= r, Leafy(t, e, e, q, N, P),
           \A x : <<name, x>> \in P <=> x \in option,
           \A j \in q + 1 .. r : IsOpen(t.event[j]) /\ t.parent[j] = e => t.event[j].name # name
    PROVE  Leaf(t, e, name) = option
<1>1. /\ \A j \in e + 1 .. q : IsOpen(t.event[j]) =>
            /\ t.parent[j] = e /\ t.event[j].binding = "target" /\ t.event[j].name \in N
            /\ <<t.event[j].name, Content(t, j)>> \in P
      /\ \A x \in P : \E j \in e + 1 .. q :
            IsOpen(t.event[j]) /\ x = <<t.event[j].name, Content(t, j)>>
    BY DEF Leafy
<1>2. Children(t, e) = {j \in e + 1 .. r : IsOpen(t.event[j]) /\ t.parent[j] = e}
    BY DEF Children
<1>3. ASSUME NEW x \in Leaf(t, e, name) PROVE x \in option
    <2>1. PICK j \in Children(t, e) : t.event[j].name = name /\ x = Content(t, j)
        BY DEF Leaf
    <2>2. j \in e + 1 .. r /\ IsOpen(t.event[j]) /\ t.parent[j] = e
        BY <1>2, <2>1
    <2>3. j \in e + 1 .. q
        <3>1. j \notin q + 1 .. r
            BY <2>1, <2>2
        <3> QED BY <2>2, <3>1
    <2>4. <<t.event[j].name, Content(t, j)>> \in P
        BY <1>1, <2>2, <2>3
    <2> QED BY <2>1, <2>4
<1>4. ASSUME NEW x \in option PROVE x \in Leaf(t, e, name)
    <2>1. PICK j \in e + 1 .. q : IsOpen(t.event[j]) /\ <<name, x>> = <<t.event[j].name, Content(t, j)>>
        BY <1>1
    <2>2. j \in e + 1 .. r
        OBVIOUS
    <2>3. j \in Children(t, e) /\ t.event[j].name = name /\ t.event[j].binding = "target" /\ Content(t, j) = x
        BY <1>1, <1>2, <2>1, <2>2
    <2> QED BY <2>3 DEF Leaf
<1> QED BY <1>3, <1>4

\* An element with nothing in it.
NoEvent == <<>>

LEMMA NoEventIs == Fragment(NoEvent) /\ NoEvent \in Seq(Event) /\ Balanced(NoEvent) /\ Len(NoEvent) = 0
<1> QED BY FragmentNone, BalancedNone DEF NoEvent, Balanced

LEMMA EmptyStands ==
    ASSUME NEW d, NEW t, NEW e, NEW p, NEW st, IsStart(st), In(d, t, e, p, Around(st, NoEvent))
    PROVE  /\ p + 1 \in 1 .. Len(d) /\ d[p + 1] = st /\ t.parent[p + 1] = e
           /\ Len(Around(st, NoEvent)) = 2
           /\ \A j \in p + 1 .. p + 2 : IsOpen(d[j]) => j = p + 1
<1>1. Balanced(NoEvent)
    BY NoEventIs
<1>2. /\ p + 1 \in 1 .. Len(d) /\ d[p + 1] = st /\ t.parent[p + 1] = e
      /\ d[p + 2 + Len(NoEvent)].kind = "end" /\ Len(Around(st, NoEvent)) = Len(NoEvent) + 2
    BY <1>1, OpenedBy
<1>3. p \in Nat
    BY InIs
<1>4. p + 2 + Len(NoEvent) = p + 2 /\ Len(NoEvent) + 2 = 2
    BY <1>3, NoEventIs
<1>5. ~IsOpen(d[p + 2])
    BY <1>2, <1>4 DEF IsOpen
<1>6. \A j \in p + 1 .. p + 2 : j = p + 1 \/ j = p + 2
    BY <1>3
<1>7. \A j \in p + 1 .. p + 2 : IsOpen(d[j]) => j = p + 1
    BY <1>5, <1>6
<1> QED BY <1>2, <1>4, <1>7

\* A dispatch as it is written.
CountOf(D) == {Decimal[n] : n \in D.declared_attachment_count}
CountElement(D) == Optional("MELLEKLETEK_SZAMA", CountOf(D))
ListElement(D) ==
    IF D.attachments_present THEN Around(Start("MELLEKLETEK", "target"), ListOf(D.attachments, Len(D.attachments)))
    ELSE <<>>
InstructionsElement(D) ==
    IF D.handling_instructions_unqualified
    THEN Around(Start("KEZELESI_UTASITASOK", "unbound"), NoEvent) ELSE <<>>
DispatchInner(D) == CountElement(D) \o ListElement(D) \o InstructionsElement(D)

\* What package() writes of it: the references that are listed, counted, in
\* a list there is when it is not empty.
TidyDispatch(D) ==
    /\ D \in Dispatch /\ TidyList(D.attachments)
    /\ \E n : /\ D.declared_attachment_count = {n} /\ Decimal[n] \in Text
              /\ Trim(Decimal[n]) = Decimal[n]
              /\ Decimal[n] \in DOMAIN Numeral /\ Numeral[Decimal[n]] = n
    /\ D.attachments # <<>> => D.attachments_present

DispatchAgain(D) ==
    [declared_attachment_count |-> D.declared_attachment_count,
     attachments |-> [k \in 1 .. Len(D.attachments) |-> ReferenceAgain(D.attachments[k])],
     attachments_present |-> D.attachments_present,
     handling_instructions_unqualified |-> D.handling_instructions_unqualified]

LEMMA TwoEvents ==
    ASSUME NEW st, IsStart(st), NEW z, z = <<st, EndEvent>>
    PROVE  z = Around(st, NoEvent)
<1> DEFINE s == Around(st, NoEvent)
<1>1. NoEvent \in Seq(Event)
    BY NoEventIs
<1>2. s \in Seq(Event) /\ Len(s) = Len(NoEvent) + 2 /\ s[1] = st /\ s[Len(NoEvent) + 2] = EndEvent
    BY <1>1, AroundIs
<1>3. z \in Seq({st, EndEvent}) /\ Len(z) = 2 /\ z[1] = st /\ z[2] = EndEvent
    OBVIOUS
<1> HIDE DEF s
<1>4. IsSequence(s) /\ IsSequence(z)
    BY <1>2, <1>3 DEF IsSequence
<1>7. Len(NoEvent) = 0
    BY NoEventIs
<1>8. Len(NoEvent) + 2 = 2
    BY <1>7
<1>9. Len(s) = 2 /\ s[2] = EndEvent /\ s[1] = st
    BY <1>2, <1>8
<1>5. \A i \in 1 .. Len(s) : s[i] = z[i]
    <2>1. \A i \in 1 .. 2 : i = 1 \/ i = 2
        OBVIOUS
    <2> QED BY <1>3, <1>9, <2>1
<1>6. s = z
    BY <1>3, <1>4, <1>5, <1>9, SameSequence
<1> QED BY <1>6 DEF s

LEMMA DispatchWritten ==
    ASSUME NEW D, TidyDispatch(D)
    PROVE  /\ DispatchElement(D) = Around(Start("EXPEDIALAS", "target"), DispatchInner(D))
           /\ Leaves(CountElement(D), {"MELLEKLETEK_SZAMA"}, Says("MELLEKLETEK_SZAMA", CountOf(D)))
           /\ Fragment(CountElement(D)) /\ Fragment(ListElement(D)) /\ Fragment(InstructionsElement(D))
           /\ Fragment(ListOf(D.attachments, Len(D.attachments)))
<1> DEFINE list == ListOf(D.attachments, Len(D.attachments))
           s1 == Start("MELLEKLETEK", "target")
           s2 == Start("KEZELESI_UTASITASOK", "unbound")
<1>1. Fragment(list)
    <2>1. TidyList(D.attachments)
        BY DEF TidyDispatch
    <2> QED BY <2>1, ListStands DEF ListHolds
<1>2. /\ IsStart(s1) /\ IsWritten(s1) /\ IsStart(s2) /\ IsWritten(s2)
    <2>1. "MELLEKLETEK" \in ElementNames /\ "KEZELESI_UTASITASOK" \in ElementNames
        BY DEF ElementNames
    <2>2. IsStart(s1) /\ IsWritten(s1)
        BY <2>1, StartWritten
    <2>3. IsStart(s2) /\ IsWritten(s2)
        BY <2>1, StartWritten
    <2> QED BY <2>2, <2>3
<1>3. /\ Leaves(CountElement(D), {"MELLEKLETEK_SZAMA"}, Says("MELLEKLETEK_SZAMA", CountOf(D)))
      /\ Fragment(CountElement(D))
    <2>1. CountOf(D) \subseteq Text
        BY DEF TidyDispatch, CountOf
    <2>2. "MELLEKLETEK_SZAMA" \in ElementNames
        BY DEF ElementNames
    <2> QED BY <2>1, <2>2, LeavesOptional DEF CountElement, Leaves
<1> HIDE DEF s1, s2
<1>4. Fragment(Around(s1, list)) /\ Fragment(Around(s2, NoEvent)) /\ Fragment(<<>>)
    <2>1. Fragment(Around(s1, list))
        <3> HIDE DEF list
        <3> QED BY <1>1, <1>2, FragmentAround
    <2>2. Fragment(Around(s2, NoEvent)) /\ Fragment(<<>>)
        BY <1>2, FragmentNone, NoEventIs, FragmentAround
    <2> QED BY <2>1, <2>2
<1>5. Fragment(ListElement(D)) /\ Fragment(InstructionsElement(D))
    BY <1>4, Zenon DEF ListElement, InstructionsElement, s1, s2, list
<1>6. (D.attachments_present \/ list # <<>>) = D.attachments_present
    <2>1. D.attachments = <<>> => list = <<>>
        <3>1. ASSUME D.attachments = <<>> PROVE list = <<>>
            <4>1. Len(D.attachments) = 0
                BY <3>1
            <4> QED BY <4>1 DEF ListOf, FlattenSeq
        <3> QED BY <3>1
    <2>2. D.attachments_present \in BOOLEAN
        BY DEF TidyDispatch, Dispatch
    <2>3. D.attachments # <<>> => D.attachments_present
        BY DEF TidyDispatch
    <2> HIDE DEF list
    <2> QED BY <2>1, <2>2, <2>3
<1>7. DispatchElement(D) = Around(Start("EXPEDIALAS", "target"), DispatchInner(D))
    <2> DEFINE l == FlattenSeq([i \in DOMAIN D.attachments |-> AttachmentElement(D.attachments[i])])
    <2>1. DOMAIN D.attachments = 1 .. Len(D.attachments)
        BY DEF TidyDispatch, TidyList
    <2>2. l = list
        BY <2>1 DEF ListOf
    <2>3. DispatchElement(D) =
            Element("EXPEDIALAS",
                Optional("MELLEKLETEK_SZAMA", CountOf(D))
                \o (IF D.attachments_present \/ l # <<>> THEN Element("MELLEKLETEK", l) ELSE <<>>)
                \o (IF D.handling_instructions_unqualified
                    THEN <<Start("KEZELESI_UTASITASOK", "unbound"), [kind |-> "end"]>> ELSE <<>>))
        BY DEF DispatchElement, CountOf
    <2> HIDE DEF l, list
    <2>4. (IF D.attachments_present \/ l # <<>> THEN Element("MELLEKLETEK", l) ELSE <<>>)
            = ListElement(D)
        <3>1. Element("MELLEKLETEK", list) = Around(s1, list)
            BY DEF Element, Around, EndEvent, s1
        <3>2. ListElement(D) = IF D.attachments_present THEN Around(s1, list) ELSE <<>>
            BY DEF ListElement, s1, list
        <3> QED BY <1>6, <2>2, <3>1, <3>2
    <2>5. (IF D.handling_instructions_unqualified
           THEN <<Start("KEZELESI_UTASITASOK", "unbound"), [kind |-> "end"]>> ELSE <<>>)
            = InstructionsElement(D)
        <3>1. <<s2, EndEvent>> = Around(s2, NoEvent)
            BY <1>2, NoEventIs, TwoEvents
        <3> QED BY <3>1 DEF InstructionsElement, s2, EndEvent
    <2>6. DispatchElement(D) = Element("EXPEDIALAS", DispatchInner(D))
        BY <2>3, <2>4, <2>5 DEF DispatchInner, CountElement
    <2> QED BY <2>6 DEF Element, Around, EndEvent
<1> QED BY <1>1, <1>3, <1>5, <1>7

\* The count of a dispatch, where it has one.
LEMMA CountStands ==
    ASSUME NEW D, TidyDispatch(D), NEW d, NEW t, NEW i, In(d, t, i, i, CountElement(D)),
           t.part[i] = "EXPEDIALAS", NEW q, q = i + Len(CountElement(D))
    PROVE  /\ Leafy(t, i, i, q, {"MELLEKLETEK_SZAMA"}, Says("MELLEKLETEK_SZAMA", CountOf(D)))
           /\ \A x : <<"MELLEKLETEK_SZAMA", x>> \in Says("MELLEKLETEK_SZAMA", CountOf(D)) <=> x \in CountOf(D)
           /\ \A j \in i + 1 .. q : IsOpen(d[j]) =>
                 Sound(t, j) /\ t.part[j] = "leaf" /\ t.parent[j] = i
<1> DEFINE N == {"MELLEKLETEK_SZAMA"}
           P == Says("MELLEKLETEK_SZAMA", CountOf(D))
<1>1. d \in Seq(Event) /\ t = Tree(d) /\ t.event = d /\ i \in Nat /\ i \in 1 .. Len(d) /\ i # 0
      /\ q <= Len(d) /\ q \in Nat /\ Len(d) \in Nat
    <2>1. /\ d \in Seq(Event) /\ t = Tree(d) /\ i \in Nat /\ i \in 1 .. Len(d)
          /\ Len(CountElement(D)) \in Nat /\ i + Len(CountElement(D)) <= Len(d)
          /\ Len(d) \in Nat
        BY InIs
    <2> QED BY <2>1, TreeIs
<1>2. Leafy(t, i, i, q, N, P)
    BY DispatchWritten DEF Leaves
<1>3. PICK n : /\ D.declared_attachment_count = {n} /\ Trim(Decimal[n]) = Decimal[n]
               /\ Decimal[n] \in DOMAIN Numeral
    BY DEF TidyDispatch
<1>4. CountOf(D) = {Decimal[n]}
    BY <1>3 DEF CountOf
<1>5. ReadAgain(CountOf(D)) = {Decimal[n]}
    BY <1>3, <1>4, ReadPresent DEF Present
<1>6. \A x : <<"MELLEKLETEK_SZAMA", x>> \in P <=> x \in CountOf(D)
    BY <1>4, <1>5, SaysIs
<1>7. \A m, x : <<m, x>> \in P => x \in DOMAIN Numeral
    BY <1>3, <1>5, SaysIs
<1> HIDE DEF P
<1>8. ASSUME NEW j \in i + 1 .. q, IsOpen(d[j])
      PROVE  Sound(t, j) /\ t.part[j] = "leaf" /\ t.parent[j] = i
    <2>1. /\ t.parent[j] = i /\ d[j].binding = "target" /\ d[j].name = "MELLEKLETEK_SZAMA"
          /\ <<d[j].name, Content(t, j)>> \in P
        BY <1>1, <1>2, <1>8 DEF Leafy
    <2>2. j \in 1 .. Len(d) /\ j \in Nat
        BY <1>1
    <2>3. t.part[j] = "leaf"
        <3> DEFINE p == t.parent[j]
        <3>1. t.part[p] = "EXPEDIALAS" /\ IsOpen(d[j]) /\ p # 0 =>
                 (t.part[j] = "leaf" <=> d[j].binding = "target" /\ d[j].name = "MELLEKLETEK_SZAMA")
            BY <1>1, <2>2, PartMeans
        <3> QED BY <1>1, <1>8, <2>1, <3>1
    <2>4. Twins(t, j) = {}
        BY <1>1, <1>2, <1>8, <2>3, LeafyTwins
    <2>5. Content(t, j) \in DOMAIN Numeral
        BY <1>7, <2>1
    <2>6. t.part[j] \notin {"none", "below", "unknown"} /\ t.part[j] \notin Range(Blocks) \cup {"MELLEKLETEK"}
        <3>1. "leaf" \notin Range(Blocks)
            BY PartsApart DEF Apart
        <3> QED BY <2>3, <3>1
    <2>7. ValueFaults(t, j) = {}
        BY <2>3, <2>4, <2>5, ValueFaultsAre
    <2>8. PlaceFaults(t, j) = {}
        <3>1. t.parent[j] # 0 /\ t.part[t.parent[j]] # "leaf"
            BY <1>1, <2>1
        <3> QED BY <2>2, <2>6, <3>1, PlaceFaultsAre
    <2> QED BY <2>1, <2>3, <2>6, <2>7, <2>8 DEF Sound
<1> QED BY <1>2, <1>6, <1>8 DEF P

\* And its instructions.
LEMMA InstructionsStand ==
    ASSUME NEW D, TidyDispatch(D), NEW d, NEW t, NEW i, NEW q, In(d, t, i, q, InstructionsElement(D)),
           t.part[i] = "EXPEDIALAS", NEW r, r = q + Len(InstructionsElement(D))
    PROVE  /\ \A j \in q + 1 .. r : IsOpen(d[j]) =>
                /\ Sound(t, j) /\ t.part[j] = "instructions" /\ t.parent[j] = i
                /\ d[j].name = "KEZELESI_UTASITASOK"
           /\ D.handling_instructions_unqualified <=>
                \E j \in q + 1 .. r : IsOpen(d[j])
<1> DEFINE st == Start("KEZELESI_UTASITASOK", "unbound")
<1>1. d \in Seq(Event) /\ t = Tree(d) /\ t.event = d /\ i \in Nat /\ i # 0 /\ q \in Nat
    <2>1. /\ d \in Seq(Event) /\ t = Tree(d) /\ q \in Nat /\ i \in 1 .. q
        BY InIs
    <2> QED BY <2>1, TreeIs
<1>2. IsStart(st) /\ st.name = "KEZELESI_UTASITASOK" /\ st.binding = "unbound" /\ IsOpen(st)
    <2>1. "KEZELESI_UTASITASOK" \in ElementNames
        BY DEF ElementNames
    <2> QED BY <2>1, StartWritten
<1> HIDE DEF st
<1>3. CASE D.handling_instructions_unqualified
    <2>1. InstructionsElement(D) = Around(st, NoEvent)
        BY <1>3 DEF InstructionsElement, st
    <2> DEFINE k == q + 1
    <2>2. /\ k \in 1 .. Len(d) /\ d[k] = st /\ t.parent[k] = i /\ Len(Around(st, NoEvent)) = 2
          /\ \A j \in q + 1 .. q + 2 : IsOpen(d[j]) => j = k
        <3>1. In(d, t, i, q, Around(st, NoEvent))
            BY <2>1
        <3> QED BY <1>2, <3>1, EmptyStands
    <2>3. r = q + 2 /\ k \in q + 1 .. q + 2 /\ k \in Nat
        BY <1>1, <2>1, <2>2
    <2>4. t.part[k] = "instructions"
        <3>1. t.part[k] = Part("EXPEDIALAS", d[k])
            <4> HIDE DEF k
            <4> QED BY <1>1, <1>2, <2>2, PartIs
        <3>2. "EXPEDIALAS" \in DOMAIN Grammar
            BY Meanings
        <3> QED BY <1>2, <2>2, <3>1, <3>2, Meanings
    <2>5. Sound(t, k)
        <3>1. "instructions" \notin Range(Blocks)
            BY PartsApart DEF Apart
        <3>2. ValueFaults(t, k) = {}
            BY <2>4, ValueFaultsAre
        <3>3. PlaceFaults(t, k) = {}
            <4>1. t.parent[k] # 0 /\ t.part[t.parent[k]] # "leaf" /\ t.part[k] \notin Range(Blocks) \cup {"MELLEKLETEK"}
                BY <1>1, <2>2, <2>4, <3>1
            <4> HIDE DEF k
            <4> QED BY <2>3, <4>1, PlaceFaultsAre
        <3> QED BY <2>4, <3>2, <3>3 DEF Sound
    <2> HIDE DEF k
    <2> QED BY <1>2, <1>3, <2>2, <2>3, <2>4, <2>5 DEF k
<1>4. CASE ~D.handling_instructions_unqualified
    <2>1. InstructionsElement(D) = <<>>
        BY <1>4 DEF InstructionsElement
    <2>2. Len(InstructionsElement(D)) = 0
        BY <2>1
    <2>3. q + 1 .. r = {}
        BY <1>1, <2>2
    <2> QED BY <1>4, <2>3
<1> QED BY <1>3, <1>4

\* And the list of its attachments.
LEMMA ListElementStands ==
    ASSUME NEW D, TidyDispatch(D), NEW d, NEW t, NEW i, NEW q, In(d, t, i, q, ListElement(D)),
           t.part[i] = "EXPEDIALAS", NEW r, r = q + Len(ListElement(D)),
           \A j \in i + 1 .. q : IsOpen(d[j]) => t.part[j] = "leaf",
           NEW l, l = q + 1, D.attachments_present, NEW a, a = D.attachments
    PROVE  /\ l \in q + 1 .. r /\ l \in 1 .. Len(d) /\ IsOpen(d[l])
           /\ t.part[l] = "MELLEKLETEK" /\ t.parent[l] = i /\ Sound(t, l) /\ d[l].name = "MELLEKLETEK"
           /\ \A j \in q + 1 .. r : IsOpen(d[j]) =>
                /\ Sound(t, j)
                /\ \/ j = l
                   \/ t.part[j] = "MELLEKLET" /\ t.parent[j] = l
                   \/ t.part[j] = "leaf" /\ t.part[t.parent[j]] = "MELLEKLET"
           /\ \E T : /\ T = {j \in At(t, "MELLEKLET") : t.parent[j] = l}
                     /\ DOMAIN InOrder(T) = 1 .. Len(a)
                     /\ \A k \in 1 .. Len(a) : AttachmentAt(t, InOrder(T)[k]) = ReferenceAgain(a[k])
<1> DEFINE st == Start("MELLEKLETEK", "target")
           x == ListOf(a, Len(a))
<1>1. ListElement(D) = Around(st, x)
    BY DEF ListElement
<1>2. IsStart(st) /\ IsWritten(st) /\ st.name = "MELLEKLETEK" /\ st.binding = "target" /\ IsOpen(st)
    <2>1. "MELLEKLETEK" \in ElementNames
        BY DEF ElementNames
    <2> QED BY <2>1, StartWritten
<1>3. ListHolds(a, Len(a)) /\ Balanced(x) /\ Len(a) \in Nat
    <2>1. TidyList(a)
        BY DEF TidyDispatch
    <2>2. ListHolds(a, Len(a)) /\ Len(a) \in Nat
        BY <2>1, ListStands
    <2> QED BY <2>2 DEF ListHolds, Fragment
<1> HIDE DEF st, x
<1>4. /\ l \in 1 .. Len(d) /\ d[l] = st /\ t.parent[l] = i
      /\ t.close[l] = q + 2 + Len(x) /\ d[q + 2 + Len(x)].kind = "end"
      /\ In(d, t, l, l, x)
      /\ Len(Around(st, x)) = Len(x) + 2 /\ Len(x) \in Nat
    <2>1. In(d, t, i, q, Around(st, x))
        BY <1>1
    <2>2. /\ q + 1 \in 1 .. Len(d) /\ d[q + 1] = st /\ t.parent[q + 1] = i
          /\ t.close[q + 1] = q + 2 + Len(x) /\ d[q + 2 + Len(x)].kind = "end"
          /\ In(d, t, q + 1, q + 1, x)
          /\ Len(Around(st, x)) = Len(x) + 2 /\ Len(x) \in Nat
        BY <1>2, <1>3, <2>1, OpenedBy
    <2> QED BY <2>2
<1>5. d \in Seq(Event) /\ t = Tree(d) /\ t.event = d /\ i \in Nat /\ i # 0 /\ q \in Nat /\ Len(d) \in Nat
      /\ i \in 1 .. q /\ l \in Nat /\ r = q + 2 + Len(x) /\ l + Len(x) <= Len(d)
    <2>1. /\ d \in Seq(Event) /\ t = Tree(d) /\ q \in Nat /\ i \in 1 .. q /\ Len(d) \in Nat
        BY InIs
    <2>2. l + Len(x) <= Len(d)
        BY <1>4, InIs
    <2> QED BY <1>1, <1>4, <2>1, <2>2, TreeIs
<1>6. t.part[l] = "MELLEKLETEK"
    <2>1. t.part[l] = Part("EXPEDIALAS", d[l])
        BY <1>2, <1>4, <1>5, PartIs
    <2> QED BY <1>2, <1>4, <2>1, Meanings
<1>7. ListRead(t, l, l, l + Len(x), a, Len(a))
    BY <1>3, <1>4, <1>6 DEF ListHolds, x
<1>8. Sound(t, l)
    <2>1. Twins(t, l) = {}
        <3>1. ASSUME NEW j \in Twins(t, l) PROVE FALSE
            <4>1. j \in 1 .. l - 1 /\ t.part[j] = "MELLEKLETEK" /\ t.parent[j] = i
                BY <1>4, <1>6, <3>1 DEF Twins
            <4>2. j \in 1 .. Len(d)
                BY <1>4, <1>5, <4>1
            <4>3. IsOpen(d[j])
                BY <1>5, <4>1, <4>2, PartMeans
            <4>4. i \in 1 .. j - 1
                BY <1>5, <4>1, <4>2, <4>3, ParentEncloses
            <4>5. j \in i + 1 .. q
                BY <1>5, <4>1, <4>4
            <4> QED BY <4>1, <4>3, <4>5
        <3> QED BY <3>1
    <2>2. "MELLEKLETEK" \notin Range(Blocks)
        BY PartsApart DEF Apart
    <2>3. ValueFaults(t, l) = {}
        BY <1>6, ValueFaultsAre
    <2>4. PlaceFaults(t, l) = {}
        <3>1. t.parent[l] # 0 /\ t.part[t.parent[l]] # "leaf"
            BY <1>4, <1>5
        <3> QED BY <1>5, <1>6, <2>1, <2>2, <3>1, PlaceFaultsAre
    <2> QED BY <1>6, <2>3, <2>4 DEF Sound
<1>9. ASSUME NEW j \in q + 1 .. r, IsOpen(d[j])
      PROVE  /\ Sound(t, j)
             /\ \/ j = l
                \/ t.part[j] = "MELLEKLET" /\ t.parent[j] = l
                \/ t.part[j] = "leaf" /\ t.part[t.parent[j]] = "MELLEKLET"
    <2>1. j = l \/ j \in l + 1 .. l + Len(x) \/ j = q + 2 + Len(x)
        <3> DEFINE n == Len(x)
        <3>1. n \in Nat /\ r = q + 2 + n /\ l = q + 1 /\ q \in Nat
            BY <1>4, <1>5
        <3> HIDE DEF n
        <3>2. j = l \/ j \in l + 1 .. l + n \/ j = q + 2 + n
            BY <3>1
        <3> QED BY <3>2 DEF n
    <2>2. CASE j = l
        BY <1>8, <2>2
    <2>3. CASE j \in l + 1 .. l + Len(x)
        <3>1. IsOpen(t.event[j])
            BY <1>5, <1>9
        <3> QED BY <1>7, <2>3, <3>1 DEF ListRead
    <2>4. CASE j = q + 2 + Len(x)
        BY <1>4, <1>9, <2>4 DEF IsOpen
    <2> QED BY <2>1, <2>2, <2>3, <2>4
<1> DEFINE T == {j \in At(t, "MELLEKLET") : t.parent[j] = l}
<1>10. T = Items(t, l, l + Len(x))
    <2>1. ASSUME NEW j \in T PROVE j \in Items(t, l, l + Len(x))
        <3>1. j \in DOMAIN t.part /\ t.part[j] = "MELLEKLET" /\ t.parent[j] = l
            BY <2>1 DEF At
        <3>2. j \in 1 .. Len(d)
            <4>1. DOMAIN t.part = 1 .. Len(d)
                BY <1>5, TreeParts
            <4> QED BY <3>1, <4>1
        <3>3. IsOpen(d[j])
            BY <1>5, <3>1, <3>2, PartMeans, SMTT(20)
        <3>4. l \in 1 .. j - 1 /\ j < t.close[l]
            <4>1. l # 0
                BY <1>5
            <4> QED BY <1>5, <3>1, <3>2, <3>3, <4>1, ParentEncloses, ZenonT(30)
        <3>5. j \in l + 1 .. l + Len(x)
            <4> DEFINE n == Len(x)
                       c == t.close[l]
            <4>1. n \in Nat /\ c = l + 1 + n /\ j \in Nat /\ l < j /\ j < c /\ l \in Nat
                <5>1. l + 1 + n = q + 2 + n
                    BY <1>4, <1>5
                <5> QED BY <1>4, <1>5, <3>2, <3>4, <5>1
            <4> HIDE DEF n, c
            <4>2. j \in l + 1 .. l + n
                BY <4>1
            <4> QED BY <4>2 DEF n
        <3> QED BY <3>1, <3>5 DEF Items
    <2>2. ASSUME NEW j \in Items(t, l, l + Len(x)) PROVE j \in T
        <3>1. j \in l + 1 .. l + Len(x) /\ t.part[j] = "MELLEKLET"
            BY <2>2 DEF Items
        <3>2. j \in 1 .. Len(d)
            BY <1>4, <1>5, <3>1
        <3>3. IsOpen(d[j])
            BY <1>5, <3>1, <3>2, PartMeans
        <3>4. t.parent[j] = l
            <4>1. IsOpen(t.event[j])
                BY <1>5, <3>3
            <4> QED BY <1>7, <3>1, <4>1 DEF ListRead
        <3>5. DOMAIN t.part = 1 .. Len(d)
            BY <1>5, TreeParts
        <3> QED BY <3>1, <3>2, <3>4, <3>5 DEF At
    <2> HIDE DEF T
    <2> QED BY <2>1, <2>2
<1>11. DOMAIN InOrder(T) = 1 .. Len(a)
    <2>1. T \subseteq 1 .. Len(d)
        BY <1>4, <1>5, <1>10 DEF Items
    <2>2. Cardinality(T) = Len(a)
        BY <1>7, <1>10 DEF ListRead
    <2> HIDE DEF T
    <2>3. InOrder(T) \in Seq(T) /\ Len(InOrder(T)) = Cardinality(T)
        BY <1>5, <2>1, InOrderIs
    <2>4. DOMAIN InOrder(T) = 1 .. Len(InOrder(T))
        BY <2>3
    <2> QED BY <2>2, <2>3, <2>4
<1>12. \A k \in 1 .. Len(a) : AttachmentAt(t, InOrder(T)[k]) = ReferenceAgain(a[k])
    BY <1>7, <1>10 DEF ListRead
<1>13. l \in q + 1 .. r /\ IsOpen(d[l]) /\ d[l].name = "MELLEKLETEK"
    BY <1>2, <1>4, <1>5
<1>14. \E S : /\ S = {j \in At(t, "MELLEKLET") : t.parent[j] = l}
              /\ DOMAIN InOrder(S) = 1 .. Len(a)
              /\ \A k \in 1 .. Len(a) : AttachmentAt(t, InOrder(S)[k]) = ReferenceAgain(a[k])
    <2>1. T = {j \in At(t, "MELLEKLET") : t.parent[j] = l}
        OBVIOUS
    <2> HIDE DEF T
    <2> QED BY <1>11, <1>12, <2>1
<1> QED BY <1>4, <1>6, <1>8, <1>9, <1>13, <1>14

\* The elements of a dispatch, and what is read of it.
DispatchRead(t, p, q, D) ==
    /\ \A j \in p + 1 .. q : IsOpen(t.event[j]) =>
          /\ Sound(t, j)
          /\ \/ j = p + 1
             \/ t.part[j] \in {"MELLEKLETEK", "MELLEKLET", "leaf", "instructions"}
    /\ p + 1 <= q /\ IsOpen(t.event[p + 1]) /\ t.part[p + 1] = "EXPEDIALAS"
    /\ DispatchAt(t, p + 1) = DispatchAgain(D)

LEMMA DispatchStands ==
    ASSUME NEW D, TidyDispatch(D), NEW d, NEW t, NEW o, NEW p, In(d, t, o, p, DispatchElement(D)),
           t.part[o] = "EXPEDIALASOK", NEW q, q = p + Len(DispatchElement(D))
    PROVE  DispatchRead(t, p, q, D) /\ Fragment(DispatchElement(D))
<1> DEFINE st == Start("EXPEDIALAS", "target")
           C == CountElement(D)
           M == ListElement(D)
           K == InstructionsElement(D)
           x == DispatchInner(D)
           i == p + 1
           b == i + Len(C)
           c == b + Len(M)
           e == c + Len(K)
           a == D.attachments
<1>1. DispatchElement(D) = Around(st, x) /\ Fragment(C) /\ Fragment(M) /\ Fragment(K)
    BY DispatchWritten
<1>2. IsStart(st) /\ IsWritten(st) /\ st.name = "EXPEDIALAS" /\ st.binding = "target" /\ IsOpen(st)
    <2>1. "EXPEDIALAS" \in ElementNames
        BY DEF ElementNames
    <2> QED BY <2>1, StartWritten
<1>3. x = C \o M \o K
    BY DEF DispatchInner
<1> HIDE DEF st, x, C, M, K
<1>4. Fragment(C \o M) /\ Fragment(x) /\ Balanced(C) /\ Balanced(C \o M) /\ Balanced(x)
      /\ M \in Seq(Event) /\ K \in Seq(Event)
    <2>1. Fragment(C \o M)
        BY <1>1, FragmentJoined
    <2>2. Fragment(x)
        BY <1>1, <1>3, <2>1, FragmentJoined
    <2> QED BY <1>1, <2>1, <2>2 DEF Fragment, Balanced
<1>5. Fragment(DispatchElement(D))
    BY <1>1, <1>2, <1>4, FragmentAround
<1>6. /\ i \in 1 .. Len(d) /\ d[i] = st /\ t.parent[i] = o
      /\ t.close[i] = p + 2 + Len(x) /\ d[p + 2 + Len(x)].kind = "end"
      /\ In(d, t, i, i, x)
      /\ Len(Around(st, x)) = Len(x) + 2 /\ Len(x) \in Nat
    <2>1. In(d, t, o, p, Around(st, x))
        BY <1>1
    <2> QED BY <1>2, <1>4, <2>1, OpenedBy
<1>7. /\ In(d, t, i, i, C) /\ In(d, t, i, b, M) /\ In(d, t, i, c, K)
      /\ Len(x) = Len(C) + Len(M) + Len(K)
      /\ Len(C) \in Nat /\ Len(M) \in Nat /\ Len(K) \in Nat
    <2>1. /\ In(d, t, i, i, C \o M) /\ In(d, t, i, i + Len(C \o M), K)
          /\ Len(x) = Len(C \o M) + Len(K) /\ Len(C \o M) \in Nat /\ Len(K) \in Nat
        <3> DEFINE y == C \o M
        <3>1. x = y \o K
            BY <1>3
        <3>2. Balanced(y) /\ K \in Seq(Event) /\ In(d, t, i, i, y \o K)
            BY <1>4, <1>6, <3>1
        <3> HIDE DEF i, y
        <3>3. /\ In(d, t, i, i, y) /\ In(d, t, i, i + Len(y), K)
              /\ Len(y \o K) = Len(y) + Len(K) /\ Len(y) \in Nat /\ Len(K) \in Nat
            BY <3>2, InParts
        <3>4. Len(x) = Len(y) + Len(K)
            BY <3>1, <3>3
        <3> QED BY <3>3, <3>4 DEF y
    <2>2. /\ In(d, t, i, i, C) /\ In(d, t, i, b, M)
          /\ Len(C \o M) = Len(C) + Len(M) /\ Len(C) \in Nat /\ Len(M) \in Nat
        <3> HIDE DEF i
        <3> QED BY <1>4, <2>1, InParts
    <2>3. p \in Nat
        BY InIs
    <2>4. i + Len(C \o M) = c
        BY <2>2, <2>3
    <2> QED BY <2>1, <2>2, <2>4
<1>8. /\ d \in Seq(Event) /\ t = Tree(d) /\ t.event = d /\ p \in Nat /\ o \in 1 .. p /\ Len(d) \in Nat
      /\ i \in Nat /\ b \in Nat /\ c \in Nat /\ e \in Nat /\ i <= b /\ b <= c /\ c <= e
      /\ e = t.close[i] - 1 /\ q = e + 1 /\ e <= Len(d) /\ t.close[i] = e + 1
    <2>1. d \in Seq(Event) /\ t = Tree(d) /\ p \in Nat /\ o \in 1 .. p /\ Len(d) \in Nat
        BY InIs
    <2>2. c + Len(K) <= Len(d)
        BY <1>7, InIs
    <2>3. t.event = d
        BY <2>1, TreeIs
    <2> DEFINE u == Len(C)
               v == Len(M)
               w == Len(K)
    <2>4. u \in Nat /\ v \in Nat /\ w \in Nat /\ Len(x) = u + v + w /\ q = p + (u + v + w + 2)
          /\ t.close[i] = p + 2 + (u + v + w)
        BY <1>1, <1>6, <1>7
    <2>5. i = p + 1 /\ b = i + u /\ c = b + v /\ e = c + w
        OBVIOUS
    <2> HIDE DEF i, u, v, w, b, c, e
    <2>6. /\ i \in Nat /\ b \in Nat /\ c \in Nat /\ e \in Nat /\ i <= b /\ b <= c /\ c <= e
          /\ e = t.close[i] - 1 /\ q = e + 1 /\ t.close[i] = e + 1
        <3>1. i \in Nat /\ b \in Nat /\ i <= b
            BY <2>1, <2>4, <2>5
        <3>2. c \in Nat /\ b <= c
            <4>1. v \in Nat /\ c = b + v
                BY <2>4, <2>5
            <4> QED BY <3>1, <4>1
        <3>3. e \in Nat /\ c <= e
            BY <2>4, <2>5, <3>2, SMTT(20)
        <3>4. e = p + 1 + u + v + w
            BY <2>1, <2>4, <2>5
        <3>5. q = e + 1
            BY <2>1, <2>4, <3>4
        <3>6. t.close[i] = e + 1
            BY <2>1, <2>4, <3>4
        <3>7. e = t.close[i] - 1
            BY <3>3, <3>6
        <3> QED BY <3>1, <3>2, <3>3, <3>5, <3>6, <3>7
    <2>7. e <= Len(d)
        BY <2>2 DEF e
    <2> QED BY <2>1, <2>3, <2>6, <2>7
<1>9. t.part[i] = "EXPEDIALAS"
    <2>1. t.part[i] = Part("EXPEDIALASOK", d[i])
        <3> HIDE DEF i
        <3>1. o # 0 /\ IsOpen(d[i])
            BY <1>2, <1>6, <1>8
        <3> QED BY <1>6, <1>8, <3>1, PartIs
    <2> QED BY <1>2, <1>6, <2>1, Meanings
<1>10. Sound(t, i)
    <2>1. "EXPEDIALAS" \notin Range(Blocks)
        BY PartsApart DEF Apart
    <2>2. ValueFaults(t, i) = {}
        <3> HIDE DEF i
        <3> QED BY <1>9, ValueFaultsAre
    <2>3. PlaceFaults(t, i) = {}
        <3> HIDE DEF i
        <3>0. t.parent[i] = o /\ o # 0
            BY <1>6, <1>8
        <3>1. t.parent[i] # 0 /\ t.part[t.parent[i]] # "leaf"
            BY <3>0
        <3> QED BY <1>8, <1>9, <2>1, <3>1, PlaceFaultsAre
    <2> QED BY <1>9, <2>2, <2>3 DEF Sound
<1>11. /\ Leafy(t, i, i, b, {"MELLEKLETEK_SZAMA"}, Says("MELLEKLETEK_SZAMA", CountOf(D)))
       /\ \A y : <<"MELLEKLETEK_SZAMA", y>> \in Says("MELLEKLETEK_SZAMA", CountOf(D)) <=> y \in CountOf(D)
       /\ \A j \in i + 1 .. b : IsOpen(d[j]) =>
             Sound(t, j) /\ t.part[j] = "leaf" /\ t.parent[j] = i
    <2>1. In(d, t, i, i, CountElement(D)) /\ b = i + Len(CountElement(D))
        BY <1>7 DEF C
    <2> HIDE DEF i, b
    <2> QED BY <1>9, <2>1, CountStands
<1>12. /\ \A j \in c + 1 .. e : IsOpen(d[j]) =>
            /\ Sound(t, j) /\ t.part[j] = "instructions" /\ t.parent[j] = i
            /\ d[j].name = "KEZELESI_UTASITASOK"
       /\ D.handling_instructions_unqualified <=> \E j \in c + 1 .. e : IsOpen(d[j])
    <2>1. In(d, t, i, c, InstructionsElement(D)) /\ e = c + Len(InstructionsElement(D))
        BY <1>7 DEF K
    <2> HIDE DEF i, c, e
    <2> QED BY <1>9, <2>1, InstructionsStand
<1> DEFINE l == b + 1
<1>13. ASSUME D.attachments_present
       PROVE  /\ l \in b + 1 .. c /\ l \in 1 .. Len(d) /\ IsOpen(d[l])
              /\ t.part[l] = "MELLEKLETEK" /\ t.parent[l] = i /\ Sound(t, l) /\ d[l].name = "MELLEKLETEK"
              /\ \A j \in b + 1 .. c : IsOpen(d[j]) =>
                   /\ Sound(t, j)
                   /\ \/ j = l
                      \/ t.part[j] = "MELLEKLET" /\ t.parent[j] = l
                      \/ t.part[j] = "leaf" /\ t.part[t.parent[j]] = "MELLEKLET"
              /\ \E T : /\ T = {j \in At(t, "MELLEKLET") : t.parent[j] = l}
                        /\ DOMAIN InOrder(T) = 1 .. Len(a)
                        /\ \A k \in 1 .. Len(a) : AttachmentAt(t, InOrder(T)[k]) = ReferenceAgain(a[k])
    <2>1. In(d, t, i, b, ListElement(D)) /\ c = b + Len(ListElement(D))
        BY <1>7 DEF M
    <2>2. \A j \in i + 1 .. b : IsOpen(d[j]) => t.part[j] = "leaf"
        BY <1>11
    <2>3. l = b + 1 /\ a = D.attachments
        OBVIOUS
    <2> HIDE DEF i, b, c, l, a
    <2> QED BY <1>9, <1>13, <2>1, <2>2, <2>3, ListElementStands, SMTT(20)
<1>14. ASSUME ~D.attachments_present
       PROVE  c = b /\ b + 1 .. c = {} /\ Len(a) = 0 /\ a = <<>>
    <2>1. M = <<>>
        BY <1>14 DEF M, ListElement
    <2>2. a = <<>>
        BY <1>14 DEF TidyDispatch
    <2>3. Len(M) = 0
        BY <2>1
    <2>4. c = b
        BY <1>8, <2>3
    <2>5. b + 1 .. c = {}
        <3> HIDE DEF b, c
        <3> QED BY <1>8, <2>4
    <2> QED BY <2>2, <2>4, <2>5
<1> HIDE DEF i, b, c, e, l, a
<1>15. i = p + 1 /\ l = b + 1 /\ a = D.attachments
    BY DEF i, l, a
\* The elements, one part of the range after another.
<1>16. ASSUME NEW j \in i + 1 .. e PROVE j \in i + 1 .. b \/ j \in b + 1 .. c \/ j \in c + 1 .. e
    BY <1>8
<1>17. ASSUME NEW j \in p + 1 .. q, IsOpen(d[j])
       PROVE  /\ Sound(t, j)
              /\ j = p + 1 \/ t.part[j] \in {"MELLEKLETEK", "MELLEKLET", "leaf", "instructions"}
    <2>0. p \in Nat /\ q \in Nat /\ i = p + 1 /\ e \in Nat /\ q = e + 1 /\ i <= e
        BY <1>8, <1>15, SMTT(20)
    <2>1. j = i \/ j \in i + 1 .. e \/ j = e + 1
        BY <2>0
    <2>2. CASE j = i
        BY <1>10, <1>15, <2>2
    <2>3. CASE j = e + 1
        <3>1. d[e + 1].kind = "end"
            <4>1. p + 2 + Len(x) = e + 1
                BY <1>6, <1>8
            <4> QED BY <1>6, <4>1
        <3> QED BY <1>17, <2>3, <3>1 DEF IsOpen
    <2>4. CASE j \in i + 1 .. b
        BY <1>11, <1>17, <2>4
    <2>5. CASE j \in c + 1 .. e
        BY <1>12, <1>17, <2>5
    <2>6. CASE j \in b + 1 .. c
        <3>1. D.attachments_present
            BY <1>14, <2>6
        <3> QED BY <1>13, <1>17, <2>6, <3>1
    <2> QED BY <1>16, <2>1, <2>2, <2>3, <2>4, <2>5, <2>6
<1>18. \A j \in Children(t, i) : j \in i + 1 .. e /\ IsOpen(d[j]) /\ t.parent[j] = i
    BY <1>8 DEF Children
<1>19. ASSUME NEW j \in i + 1 .. e, IsOpen(d[j]), t.parent[j] = i
       PROVE  /\ t.part[j] = "MELLEKLETEK" => j = l /\ D.attachments_present
              /\ t.part[j] = "instructions" => j \in c + 1 .. e
              /\ j \notin i + 1 .. b => d[j].name # "MELLEKLETEK_SZAMA"
    <2>1. CASE j \in i + 1 .. b
        BY <1>11, <1>19, <2>1
    <2>2. CASE j \in c + 1 .. e
        BY <1>12, <1>19, <2>2
    <2>3. CASE j \in b + 1 .. c
        <3>1. D.attachments_present
            BY <1>14, <2>3
        <3>2. j = l
            <4>1. /\ t.part[l] = "MELLEKLETEK"
                  /\ \/ j = l
                     \/ t.part[j] = "MELLEKLET" /\ t.parent[j] = l
                     \/ t.part[j] = "leaf" /\ t.part[t.parent[j]] = "MELLEKLET"
                BY <1>13, <1>19, <2>3, <3>1
            <4> QED BY <1>9, <1>19, <4>1
        <3> QED BY <1>13, <3>1, <3>2
    <2> QED BY <1>16, <2>1, <2>2, <2>3
\* What is read.
<1>20. Leaf(t, i, "MELLEKLETEK_SZAMA") = CountOf(D)
    <2>1. \A j \in b + 1 .. e : IsOpen(t.event[j]) /\ t.parent[j] = i => t.event[j].name # "MELLEKLETEK_SZAMA"
        <3> TAKE j \in b + 1 .. e
        <3>1. j \in i + 1 .. e /\ j \notin i + 1 .. b
            BY <1>8
        <3> QED BY <1>8, <1>19, <3>1
    <2>2. b <= e
        BY <1>8, SMTT(20)
    <2>3. /\ i \in Nat /\ b \in Nat /\ e \in Nat /\ e = t.close[i] - 1
          /\ Leafy(t, i, i, b, {"MELLEKLETEK_SZAMA"}, Says("MELLEKLETEK_SZAMA", CountOf(D)))
          /\ \A y : <<"MELLEKLETEK_SZAMA", y>> \in Says("MELLEKLETEK_SZAMA", CountOf(D)) <=> y \in CountOf(D)
        BY <1>8, <1>11
    <2> DEFINE Q == Says("MELLEKLETEK_SZAMA", CountOf(D))
               v == CountOf(D)
    <2> HIDE DEF Q, v
    <2>4. /\ Leafy(t, i, i, b, {"MELLEKLETEK_SZAMA"}, Q)
          /\ \A y : <<"MELLEKLETEK_SZAMA", y>> \in Q <=> y \in v
        BY <2>3 DEF Q, v
    <2>5. Leaf(t, i, "MELLEKLETEK_SZAMA") = v
        BY <2>1, <2>2, <2>3, <2>4, LeafAmong
    <2> QED BY <2>5 DEF v
<1>21. {Numeral[y] : y \in Leaf(t, i, "MELLEKLETEK_SZAMA")} = D.declared_attachment_count
    <2>1. PICK n : D.declared_attachment_count = {n} /\ Numeral[Decimal[n]] = n
        BY DEF TidyDispatch
    <2>2. CountOf(D) = {Decimal[n]}
        BY <2>1 DEF CountOf
    <2> QED BY <1>20, <2>1, <2>2
<1> DEFINE lists == Children(t, i) \cap At(t, "MELLEKLETEK")
           items == InOrder({j \in At(t, "MELLEKLET") : t.parent[j] \in lists})
<1>22. DOMAIN t.part = 1 .. Len(d)
    BY <1>8, TreeParts
<1>23. /\ D.attachments_present => lists = {l}
       /\ ~D.attachments_present => lists = {}
    <2>1. ASSUME NEW j \in lists PROVE j = l /\ D.attachments_present
        BY <1>18, <1>19, <2>1 DEF At
    <2>2. ASSUME D.attachments_present PROVE l \in lists
        <3>1. l \in b + 1 .. c /\ IsOpen(d[l]) /\ t.parent[l] = i /\ t.part[l] = "MELLEKLETEK" /\ l \in 1 .. Len(d)
            BY <1>13, <2>2
        <3>2. l \in i + 1 .. e
            <4>1. /\ i \in Nat /\ b \in Nat /\ c \in Nat /\ e \in Nat
                  /\ i <= b /\ c <= e /\ l \in b + 1 .. c
                BY <1>8, <3>1
            <4> HIDE DEF lists, items
            <4> QED BY ONLY <4>1
        <3>3. l \in Children(t, i)
            BY <1>8, <3>1, <3>2 DEF Children
        <3> QED BY <1>22, <3>1, <3>3 DEF At
    <2> HIDE DEF lists
    <2> QED BY <2>1, <2>2
<1>24. /\ DOMAIN items = 1 .. Len(a)
       /\ \A k \in 1 .. Len(a) : AttachmentAt(t, items[k]) = ReferenceAgain(a[k])
    <2>1. CASE D.attachments_present
        <3>1. PICK T : /\ T = {j \in At(t, "MELLEKLET") : t.parent[j] = l}
                       /\ DOMAIN InOrder(T) = 1 .. Len(a)
                       /\ \A k \in 1 .. Len(a) : AttachmentAt(t, InOrder(T)[k]) = ReferenceAgain(a[k])
            BY <1>13, <2>1
        <3>2. {j \in At(t, "MELLEKLET") : t.parent[j] \in lists} = T
            <4> HIDE DEF lists
            <4> QED BY <1>23, <2>1, <3>1
        <3> QED BY <3>1, <3>2
    <2>2. CASE ~D.attachments_present
        <3>1. {j \in At(t, "MELLEKLET") : t.parent[j] \in lists} = {}
            <4> HIDE DEF lists
            <4> QED BY <1>23, <2>2
        <3>2. Len(a) = 0
            BY <1>14, <2>2
        <3>3. items = InOrder({})
            BY <3>1
        <3>4. InOrder({}) = <<>> \/ DOMAIN InOrder({}) = {}
            BY FS_EmptySet DEF InOrder
        <3> QED BY <3>2, <3>3, <3>4
    <2> QED BY <2>1, <2>2
<1>25. (lists # {}) = D.attachments_present
    <2>1. D.attachments_present \in BOOLEAN
        BY DEF TidyDispatch, Dispatch
    <2> HIDE DEF lists
    <2> QED BY <1>23, <2>1
<1>26. (Children(t, i) \cap At(t, "instructions") # {}) = D.handling_instructions_unqualified
    <2>1. D.handling_instructions_unqualified \in BOOLEAN
        BY DEF TidyDispatch, Dispatch
    <2>2. ASSUME NEW j \in Children(t, i) \cap At(t, "instructions") PROVE D.handling_instructions_unqualified
        <3>1. j \in i + 1 .. e /\ IsOpen(d[j]) /\ t.parent[j] = i /\ t.part[j] = "instructions"
            BY <1>18, <2>2 DEF At
        <3>2. j \in c + 1 .. e
            BY <1>19, <3>1
        <3> QED BY <1>12, <3>1, <3>2
    <2>3. ASSUME D.handling_instructions_unqualified PROVE Children(t, i) \cap At(t, "instructions") # {}
        <3>1. PICK j \in c + 1 .. e : IsOpen(d[j])
            BY <1>12, <2>3
        <3>2. t.part[j] = "instructions" /\ t.parent[j] = i
            BY <1>12, <3>1
        <3>3. j \in i + 1 .. e /\ j \in 1 .. Len(d)
            BY <1>8
        <3>4. j \in Children(t, i) /\ j \in At(t, "instructions")
            BY <1>8, <1>22, <3>1, <3>2, <3>3 DEF Children, At
        <3> QED BY <3>4
    <2> QED BY <2>1, <2>2, <2>3
<1>27. DispatchAt(t, i) =
        [declared_attachment_count |-> {Numeral[y] : y \in Leaf(t, i, "MELLEKLETEK_SZAMA")},
         attachments |-> [k \in DOMAIN items |-> AttachmentAt(t, items[k])],
         attachments_present |-> lists # {},
         handling_instructions_unqualified |-> Children(t, i) \cap At(t, "instructions") # {}]
    BY DEF DispatchAt
<1> HIDE DEF items, lists
<1>28. [k \in DOMAIN items |-> AttachmentAt(t, items[k])] = [k \in 1 .. Len(a) |-> ReferenceAgain(a[k])]
    BY <1>24
<1>29. DispatchAt(t, i) = DispatchAgain(D)
    BY <1>15, <1>21, <1>25, <1>26, <1>27, <1>28, Zenon DEF DispatchAgain
<1>30. p + 1 <= q /\ IsOpen(d[p + 1])
    BY <1>2, <1>6, <1>8, <1>15, SMTT(20)
<1> QED BY <1>5, <1>8, <1>9, <1>15, <1>17, <1>29, <1>30 DEF DispatchRead

\* The elements of a range that are blocks are those of K, each of them
\* there, in their order; the others are parts of S; and none is a fault.
IsBlock(t, j) == IsOpen(t.event[j]) /\ t.part[j] \in Range(Blocks)
RegionRead(t, p, q, K, S) ==
    /\ S \cap Range(Blocks) = {} /\ K \subseteq DOMAIN Blocks
    /\ \A j \in p + 1 .. q : IsOpen(t.event[j]) =>
          /\ Sound(t, j)
          /\ t.part[j] \in S \/ (t.part[j] \in Range(Blocks) /\ Place(t.part[j]) \in K)
    /\ \A i, j \in p + 1 .. q :
          IsBlock(t, i) /\ IsBlock(t, j) /\ i < j => Place(t.part[i]) < Place(t.part[j])
    /\ \A k \in K : \E j \in p + 1 .. q : IsBlock(t, j) /\ t.part[j] = Blocks[k]

LEMMA RegionJoined ==
    ASSUME NEW t, NEW p \in Nat, NEW q \in Nat, NEW r \in Nat, p <= q, q <= r, NEW K, NEW L, NEW S, NEW T,
           RegionRead(t, p, q, K, S), RegionRead(t, q, r, L, T),
           \A k \in K, l \in L : k < l
    PROVE  RegionRead(t, p, r, K \cup L, S \cup T)
<1>1. /\ S \cap Range(Blocks) = {} /\ K \subseteq DOMAIN Blocks
      /\ \A j \in p + 1 .. q : IsOpen(t.event[j]) =>
            /\ Sound(t, j)
            /\ t.part[j] \in S \/ (t.part[j] \in Range(Blocks) /\ Place(t.part[j]) \in K)
      /\ \A i, j \in p + 1 .. q :
            IsBlock(t, i) /\ IsBlock(t, j) /\ i < j => Place(t.part[i]) < Place(t.part[j])
      /\ \A k \in K : \E j \in p + 1 .. q : IsBlock(t, j) /\ t.part[j] = Blocks[k]
    BY DEF RegionRead
<1>2. /\ T \cap Range(Blocks) = {} /\ L \subseteq DOMAIN Blocks
      /\ \A j \in q + 1 .. r : IsOpen(t.event[j]) =>
            /\ Sound(t, j)
            /\ t.part[j] \in T \/ (t.part[j] \in Range(Blocks) /\ Place(t.part[j]) \in L)
      /\ \A i, j \in q + 1 .. r :
            IsBlock(t, i) /\ IsBlock(t, j) /\ i < j => Place(t.part[i]) < Place(t.part[j])
      /\ \A k \in L : \E j \in q + 1 .. r : IsBlock(t, j) /\ t.part[j] = Blocks[k]
    BY DEF RegionRead
<1>3. \A j \in p + 1 .. r : j \in p + 1 .. q \/ j \in q + 1 .. r
    OBVIOUS
<1>4. \A j \in p + 1 .. q : j \in p + 1 .. r
    OBVIOUS
<1>5. \A j \in q + 1 .. r : j \in p + 1 .. r
    OBVIOUS
<1>6. ASSUME NEW i \in p + 1 .. r, NEW j \in p + 1 .. r, IsBlock(t, i), IsBlock(t, j), i < j
      PROVE  Place(t.part[i]) < Place(t.part[j])
    <2>1. CASE i \in p + 1 .. q /\ j \in p + 1 .. q
        BY <1>1, <1>6, <2>1
    <2>2. CASE i \in q + 1 .. r /\ j \in q + 1 .. r
        BY <1>2, <1>6, <2>2
    <2>3. CASE i \in q + 1 .. r /\ j \in p + 1 .. q
        BY <1>6, <2>3
    <2>4. CASE i \in p + 1 .. q /\ j \in q + 1 .. r
        <3>1. Place(t.part[i]) \in K
            BY <1>1, <1>6, <2>4 DEF IsBlock
        <3>2. Place(t.part[j]) \in L
            BY <1>2, <1>6, <2>4 DEF IsBlock
        <3> QED BY <3>1, <3>2
    <2> QED BY <1>3, <1>6, <2>1, <2>2, <2>3, <2>4
<1>7. ASSUME NEW j \in p + 1 .. r, IsOpen(t.event[j])
      PROVE  /\ Sound(t, j)
             /\ t.part[j] \in S \cup T \/ (t.part[j] \in Range(Blocks) /\ Place(t.part[j]) \in K \cup L)
    BY <1>1, <1>2, <1>3, <1>7
<1>8. ASSUME NEW k \in K \cup L PROVE \E j \in p + 1 .. r : IsBlock(t, j) /\ t.part[j] = Blocks[k]
    BY <1>1, <1>2, <1>4, <1>5, <1>8
<1>9. (S \cup T) \cap Range(Blocks) = {} /\ K \cup L \subseteq DOMAIN Blocks
    BY <1>1, <1>2
<1> HIDE DEF IsBlock
<1> QED BY <1>6, <1>7, <1>8, <1>9 DEF RegionRead

\* Where there is nothing.
LEMMA RegionNone ==
    ASSUME NEW t, NEW p \in Nat, NEW q, q = p, NEW S, S \cap Range(Blocks) = {}
    PROVE  RegionRead(t, p, q, {}, S)
<1>1. p + 1 .. q = {}
    OBVIOUS
<1> QED BY <1>1 DEF RegionRead

\* A block and what is in it.
LEMMA RegionOne ==
    ASSUME NEW t, NEW p \in Nat, NEW q \in Nat, p < q, NEW k \in DOMAIN Blocks, NEW S, S \cap Range(Blocks) = {},
           NEW i, i = p + 1, IsOpen(t.event[i]), t.part[i] = Blocks[k], Sound(t, i),
           \A j \in p + 2 .. q : IsOpen(t.event[j]) => Sound(t, j) /\ t.part[j] \in S
    PROVE  RegionRead(t, p, q, {k}, S)
<1>1. Blocks[k] \in Range(Blocks) /\ Place(Blocks[k]) = k
    BY PlaceIs, BlockNames
<1>2. \A j \in p + 1 .. q : j = i \/ j \in p + 2 .. q
    OBVIOUS
<1>3. \A j \in p + 1 .. q : IsBlock(t, j) => j = i
    BY <1>2 DEF IsBlock
<1>4. i \in p + 1 .. q /\ IsBlock(t, i)
    BY <1>1 DEF IsBlock
<1>5. ASSUME NEW m \in p + 1 .. q, NEW j \in p + 1 .. q, IsBlock(t, m), IsBlock(t, j), m < j
      PROVE  Place(t.part[m]) < Place(t.part[j])
    BY <1>3, <1>5
<1>6. ASSUME NEW j \in p + 1 .. q, IsOpen(t.event[j])
      PROVE  /\ Sound(t, j)
             /\ t.part[j] \in S \/ (t.part[j] \in Range(Blocks) /\ Place(t.part[j]) \in {k})
    <2>1. CASE j = i
        <3>1. t.part[j] \in Range(Blocks) /\ Place(t.part[j]) = k /\ Sound(t, j)
            BY <1>1, <2>1
        <3> QED BY <3>1
    <2>2. CASE j \in p + 2 .. q
        <3>1. Sound(t, j) /\ t.part[j] \in S
            BY <1>6, <2>2, Zenon
        <3> QED BY <3>1
    <2> QED BY <1>2, <2>1, <2>2
<1>7. \A l \in {k} : \E j \in p + 1 .. q : IsBlock(t, j) /\ t.part[j] = Blocks[l]
    BY <1>4
<1>8. {k} \subseteq DOMAIN Blocks
    OBVIOUS
<1> QED BY <1>5, <1>6, <1>7, <1>8 DEF RegionRead

\* An element of the root that is a block.
LEMMA BlockPart ==
    ASSUME NEW d \in Seq(Event), NEW t, t = Tree(d), NEW i \in 1 .. Len(d), NEW o, o = t.parent[i], o # 0,
           t.part[o] = "KULDEMENY", IsOpen(d[i]), d[i].binding = "target", NEW k \in DOMAIN Blocks,
           d[i].name = Blocks[k]
    PROVE  t.part[i] = Blocks[k]
<1>1. t.part[i] = Part("KULDEMENY", d[i])
    BY PartIs
<1>2. Blocks[k] \in Range(Blocks)
    BY BlockNames
<1> QED BY <1>1, <1>2, Meanings

\* Any of the three of which nothing but its being there is told.
BlockElement(present, k) == Block(present, Blocks[k])
BlocksOf(present, k) == IF present THEN {k} ELSE {}

LEMMA BlockStands ==
    ASSUME NEW k \in {2, 3, 5}, NEW present, NEW d, NEW t, NEW o, NEW p,
           In(d, t, o, p, BlockElement(present, k)), t.part[o] = "KULDEMENY",
           NEW q, q = p + Len(BlockElement(present, k))
    PROVE  RegionRead(t, p, q, BlocksOf(present, k), {}) /\ q \in Nat /\ p <= q
<1>1. d \in Seq(Event) /\ t = Tree(d) /\ t.event = d /\ p \in Nat /\ o # 0 /\ k \in DOMAIN Blocks
    <2>1. d \in Seq(Event) /\ t = Tree(d) /\ p \in Nat /\ o \in 1 .. p
        BY InIs
    <2> QED BY <2>1, TreeIs, BlockNames
<1>2. CASE present
    <2> DEFINE st == Start(Blocks[k], "target")
               i == p + 1
    <2>1. BlockElement(present, k) = Element(Blocks[k], <<>>)
        BY <1>2 DEF BlockElement, Block
    <2>2. IsStart(st) /\ st.name = Blocks[k] /\ st.binding = "target" /\ IsOpen(st)
        <3>1. Blocks[k] \in ElementNames
            BY BlockNames DEF ElementNames
        <3> QED BY <3>1, StartWritten
    <2>3. Element(Blocks[k], <<>>) = Around(st, NoEvent)
        BY DEF Element, Around, EndEvent, NoEvent
    <2> HIDE DEF st
    <2>4. /\ i \in 1 .. Len(d) /\ d[i] = st /\ t.parent[i] = o /\ Len(Around(st, NoEvent)) = 2
          /\ \A j \in p + 1 .. p + 2 : IsOpen(d[j]) => j = i
        <3>1. In(d, t, o, p, Around(st, NoEvent))
            BY <2>1, <2>3
        <3> QED BY <2>2, <3>1, EmptyStands
    <2>5. q = p + 2
        BY <2>1, <2>3, <2>4
    <2>6. t.part[i] = Blocks[k] /\ IsOpen(d[i])
        <3> HIDE DEF i
        <3> QED BY <1>1, <2>2, <2>4, BlockPart
    <2>7. Sound(t, i)
        <3>1. t.part[i] \in Range(Blocks) /\ t.part[i] \notin {"FEJRESZ", "MELLEKLET", "KULDEMENY", "leaf", "none", "below", "unknown"}
            <4>1. Blocks[k] \in Range(Blocks) /\ Blocks[k] # "FEJRESZ"
                BY BlockNames
            <4> HIDE DEF i
            <4> QED BY <2>6, <4>1, PartsApart DEF Apart
        <3>2. ValueFaults(t, i) = {}
            <4> HIDE DEF i
            <4> QED BY <3>1, ValueFaultsAre
        <3> QED BY <3>1, <3>2 DEF Sound
    <2>8. \A j \in p + 2 .. q : IsOpen(t.event[j]) => Sound(t, j) /\ t.part[j] \in {}
        <3>1. \A j \in p + 2 .. q : j \in p + 1 .. p + 2 /\ j # i
            BY <1>1, <2>5
        <3> QED BY <1>1, <2>4, <3>1
    <2>9. q \in Nat /\ p < q /\ i = p + 1
        BY <1>1, <2>5
    <2>10. RegionRead(t, p, q, {k}, {})
        <3> DEFINE S == {}
        <3>1. S \cap Range(Blocks) = {} /\ \A j \in p + 2 .. q : IsOpen(t.event[j]) => Sound(t, j) /\ t.part[j] \in S
            BY <2>8
        <3>2. IsOpen(t.event[i])
            BY <1>1, <2>6
        <3> HIDE DEF i, S
        <3>3. RegionRead(t, p, q, {k}, S)
            BY <1>1, <2>6, <2>7, <2>9, <3>1, <3>2, RegionOne
        <3> QED BY <3>3 DEF S
    <2>11. BlocksOf(present, k) = {k}
        BY <1>2, Zenon DEF BlocksOf
    <2>12. RegionRead(t, p, q, BlocksOf(present, k), {})
        BY <2>10, <2>11, Zenon
    <2> QED BY <1>1, <2>9, <2>12
<1>3. CASE ~present
    <2>1. BlockElement(present, k) = <<>>
        BY <1>3 DEF BlockElement, Block
    <2>2. Len(BlockElement(present, k)) = 0
        BY <2>1
    <2>3. q = p
        BY <1>1, <2>2
    <2> QED BY <1>1, <1>3, <2>3, RegionNone DEF BlocksOf
<1> QED BY <1>2, <1>3

LEMMA BlockFragment ==
    ASSUME NEW k \in {2, 3, 5}, NEW present
    PROVE  Fragment(BlockElement(present, k))
<1> DEFINE st == Start(Blocks[k], "target")
<1>1. Element(Blocks[k], <<>>) = Around(st, NoEvent)
    BY DEF Element, Around, EndEvent, NoEvent
<1>2. IsStart(st) /\ IsWritten(st)
    <2>1. Blocks[k] \in ElementNames
        BY BlockNames DEF ElementNames
    <2> QED BY <2>1, StartWritten
<1> HIDE DEF st
<1>3. Fragment(Around(st, NoEvent)) /\ Fragment(<<>>)
    BY <1>2, FragmentNone, NoEventIs, FragmentAround
<1> QED BY <1>1, <1>3, Zenon DEF BlockElement, Block

LEMMA HeaderFragment ==
    ASSUME NEW h \in Header
    PROVE  /\ HeaderElement(h) = Around(Start("FEJRESZ", "target"), HeaderInner(h))
           /\ Fragment(HeaderElement(h)) /\ Balanced(HeaderInner(h))
           /\ Leaves(HeaderInner(h), NamesOfHeader, HeaderSays(h))
<1> DEFINE st == Start("FEJRESZ", "target")
           x == HeaderInner(h)
<1>1. HeaderElement(h) = Around(st, x)
    BY DEF HeaderElement, HeaderInner, TestOf, Element, Around, EndEvent
<1>2. IsStart(st) /\ IsWritten(st)
    <2>1. "FEJRESZ" \in ElementNames
        BY DEF ElementNames
    <2> QED BY <2>1, StartWritten
<1>3. Leaves(x, NamesOfHeader, HeaderSays(h)) /\ Fragment(x) /\ Balanced(x)
    BY HeaderLeaves DEF Leaves, Fragment
<1> HIDE DEF st, x
<1>4. Fragment(Around(st, x))
    BY <1>2, <1>3, FragmentAround
<1> QED BY <1>1, <1>3, <1>4 DEF st, x

\* The header, where it stands, and what is read of it.
LEMMA HeaderStands ==
    ASSUME NEW h \in Header, TidyHeader(h), NEW d, NEW t, NEW o, NEW p, In(d, t, o, p, HeaderElement(h)),
           t.part[o] = "KULDEMENY", NEW q, q = p + Len(HeaderElement(h))
    PROVE  /\ RegionRead(t, p, q, {1}, {"leaf"}) /\ q \in Nat /\ p < q
           /\ p + 1 \in 1 .. Len(d) /\ IsOpen(d[p + 1]) /\ t.part[p + 1] = "FEJRESZ" /\ t.parent[p + 1] = o
           /\ HeaderAt(t, p + 1) = HeaderAgain(h)
<1> DEFINE st == Start("FEJRESZ", "target")
           x == HeaderInner(h)
           e == p + 1
           r == e + Len(x)
<1>1. HeaderElement(h) = Around(st, x) /\ Balanced(x) /\ Leaves(x, NamesOfHeader, HeaderSays(h))
    BY HeaderFragment
<1>2. IsStart(st) /\ st.name = "FEJRESZ" /\ st.binding = "target" /\ IsOpen(st)
    <2>1. "FEJRESZ" \in ElementNames
        BY DEF ElementNames
    <2> QED BY <2>1, StartWritten
<1> HIDE DEF st, x
<1>4. /\ e \in 1 .. Len(d) /\ d[e] = st /\ t.parent[e] = o
      /\ t.close[e] = p + 2 + Len(x) /\ d[p + 2 + Len(x)].kind = "end"
      /\ In(d, t, e, e, x)
      /\ Len(Around(st, x)) = Len(x) + 2 /\ Len(x) \in Nat
    BY <1>1, <1>2, OpenedBy
<1>5. d \in Seq(Event) /\ t = Tree(d) /\ t.event = d /\ p \in Nat /\ o # 0 /\ Len(d) \in Nat
      /\ e + Len(x) <= Len(d)
    <2>1. d \in Seq(Event) /\ t = Tree(d) /\ p \in Nat /\ o \in 1 .. p /\ Len(d) \in Nat
        BY InIs
    <2>2. e + Len(x) <= Len(d)
        BY <1>4, InIs
    <2>3. t.event = d
        BY <2>1, TreeIs
    <2>4. o # 0
        BY <2>1
    <2> QED BY <2>1, <2>2, <2>3, <2>4
<1>6. Leafy(t, e, e, e + Len(x), NamesOfHeader, HeaderSays(h))
    BY <1>1, <1>4 DEF Leaves
<1>7. e \in Nat /\ r = e + Len(x) /\ r = t.close[e] - 1 /\ r \in Nat /\ r <= Len(d) /\ q = r + 1 /\ p + 2 + Len(x) = q
      /\ e = p + 1
    <2>1. q = p + (Len(x) + 2)
        BY <1>1, <1>4
    <2> QED BY <1>4, <1>5, <2>1
<1> HIDE DEF r, e
<1>8. HeaderAt(t, e) = HeaderAgain(h) /\ HeaderSound(t, e)
    BY <1>6, <1>7, HeaderRead
<1>9. t.part[e] = "FEJRESZ" /\ IsOpen(d[e])
    <2>1. Blocks[1] = "FEJRESZ" /\ 1 \in DOMAIN Blocks
        BY BlockNames
    <2> DEFINE k == 1
    <2>2. Blocks[k] = "FEJRESZ" /\ k \in DOMAIN Blocks
        BY <2>1
    <2> HIDE DEF k
    <2>3. IsOpen(d[e]) /\ d[e].binding = "target" /\ d[e].name = Blocks[k]
        BY <1>2, <1>4, <2>2
    <2> QED BY <1>4, <1>5, <2>2, <2>3, BlockPart
<1>10. Sound(t, e)
    <2>1. "FEJRESZ" \in Range(Blocks)
        BY BlockNames
    <2>2. ValueFaults(t, e) = {}
        BY <1>8, <1>9, ValueFaultsAre DEF HeaderSound
    <2> QED BY <1>9, <2>1, <2>2 DEF Sound
<1>11. ASSUME NEW j \in e + 1 .. r, IsOpen(d[j])
       PROVE  Sound(t, j) /\ t.part[j] = "leaf"
    <2>1. NamesOfHeader \subseteq Field
        BY DEF NamesOfHeader, Field, HeaderRequired, HeaderOptional
    <2>2. Leafy(t, e, e, r, NamesOfHeader, HeaderSays(h))
        BY <1>6, <1>7
    <2> DEFINE N == NamesOfHeader
               P == HeaderSays(h)
    <2>3. /\ d \in Seq(Event) /\ t = Tree(d) /\ e \in 1 .. Len(d) /\ r \in Nat /\ r <= Len(d)
          /\ Leafy(t, e, e, r, N, P) /\ t.part[e] \in {"FEJRESZ", "MELLEKLET"} /\ N \subseteq Field
          /\ j \in e + 1 .. r /\ IsOpen(d[j])
        BY <1>4, <1>5, <1>7, <1>9, <1>11, <2>1, <2>2
    <2> HIDE DEF N, P
    <2> QED BY <2>3, LeavesSound
<1>12. ASSUME NEW j \in p + 2 .. q, IsOpen(t.event[j])
       PROVE  Sound(t, j) /\ t.part[j] \in {"leaf"}
    <2>1. j \in e + 1 .. r \/ j = q
        BY <1>5, <1>7
    <2>2. j # q
        BY <1>4, <1>5, <1>7, <1>12 DEF IsOpen
    <2> QED BY <1>5, <1>11, <1>12, <2>1, <2>2
<1>13. p < q /\ q \in Nat
    BY <1>5, <1>7
<1>14. RegionRead(t, p, q, {1}, {"leaf"})
    <2> DEFINE k == 1
               S == {"leaf"}
    <2>1. k \in DOMAIN Blocks /\ Blocks[k] = "FEJRESZ" /\ S \cap Range(Blocks) = {}
        BY BlockNames
    <2>2. \A j \in p + 2 .. q : IsOpen(t.event[j]) => Sound(t, j) /\ t.part[j] \in S
        BY <1>12
    <2>3. IsOpen(t.event[e])
        BY <1>5, <1>9
    <2> HIDE DEF k, S
    <2>4. RegionRead(t, p, q, {k}, S)
        BY <1>5, <1>7, <1>9, <1>10, <1>13, <2>1, <2>2, <2>3, RegionOne
    <2> QED BY <2>4 DEF k, S
<1> QED BY <1>4, <1>7, <1>8, <1>9, <1>13, <1>14

\* The dispatch, in the block it is in.
Inner == {"EXPEDIALAS", "MELLEKLETEK", "MELLEKLET", "leaf", "instructions"}
DispatchesElement(ds) ==
    IF ds = <<>> THEN <<>>
    ELSE Element("EXPEDIALASOK", FlattenSeq([i \in DOMAIN ds |-> DispatchElement(ds[i])]))

Only(ds, D) == ds = <<D>>

LEMMA DispatchAlone ==
    ASSUME NEW D, TidyDispatch(D), NEW ds, Only(ds, D)
    PROVE  /\ DispatchesElement(ds) = Around(Start("EXPEDIALASOK", "target"), DispatchElement(D))
           /\ Fragment(DispatchElement(D)) /\ Fragment(DispatchesElement(ds))
<1> DEFINE st == Start("EXPEDIALASOK", "target")
           u == Start("EXPEDIALAS", "target")
           x == DispatchInner(D)
           C == CountElement(D)
           M == ListElement(D)
           K == InstructionsElement(D)
           X == DispatchElement(D)
<1>1. IsStart(st) /\ IsWritten(st) /\ IsStart(u) /\ IsWritten(u)
    <2>1. "EXPEDIALASOK" \in ElementNames /\ "EXPEDIALAS" \in ElementNames
        BY DEF ElementNames
    <2> QED BY <2>1, StartWritten
<1>2. X = Around(u, x) /\ Fragment(C) /\ Fragment(M) /\ Fragment(K) /\ x = C \o M \o K
    BY DispatchWritten DEF DispatchInner
<1> HIDE DEF st, u, x, C, M, K, X
<1>3. Fragment(X)
    <2>1. Fragment(C \o M)
        BY <1>2, FragmentJoined
    <2>2. Fragment(x)
        BY <1>2, <2>1, FragmentJoined
    <2> QED BY <1>1, <1>2, <2>2, FragmentAround
<1>4. FlattenSeq([i \in 1 .. 1 |-> X]) = X
    <2> DEFINE s == [i \in 1 .. 0 |-> X]
               v == [i \in 1 .. 1 |-> X]
    <2>1. IsSequence(X)
        BY <1>3 DEF Fragment, Balanced, IsSequence
    <2>2. FlattenSeq(v) = FlattenSeq(s) \o X
        <3>1. /\ s = [i \in 1 .. 0 |-> s[i]] /\ v = [i \in 1 .. 0 + 1 |-> v[i]]
              /\ \A i \in 1 .. 0 : s[i] = v[i]
              /\ v[0 + 1] = X
            OBVIOUS
        <3> DEFINE n == 0
        <3>2. /\ n \in Nat /\ s = [i \in 1 .. n |-> s[i]] /\ v = [i \in 1 .. n + 1 |-> v[i]]
              /\ \A i \in 1 .. n : s[i] = v[i]
              /\ v[n + 1] = X
            BY <3>1
        <3> HIDE DEF n, s, v
        <3> QED BY <2>1, <3>2, FlattenStep
    <2>3. FlattenSeq(s) = <<>>
        <3>1. Len(s) = 0 /\ s = <<>>
            OBVIOUS
        <3> QED BY <3>1 DEF FlattenSeq
    <2>4. <<>> \o X = X
        <3>1. X \in Seq(Event)
            BY <1>3 DEF Fragment, Balanced
        <3> QED BY <3>1
    <2> QED BY <2>2, <2>3, <2>4
<1>5. DispatchesElement(ds) = Element("EXPEDIALASOK", X)
    <2>1. ds # <<>> /\ DOMAIN ds = 1 .. 1 /\ ds[1] = D
        BY DEF Only
    <2>2. [i \in DOMAIN ds |-> DispatchElement(ds[i])] = [i \in 1 .. 1 |-> X]
        BY <2>1 DEF X
    <2> QED BY <1>4, <2>1, <2>2 DEF DispatchesElement
<1>6. Element("EXPEDIALASOK", X) = Around(st, X)
    BY DEF Element, Around, EndEvent, st
<1>7. Fragment(Around(st, X))
    BY <1>1, <1>3, FragmentAround
<1>8. DispatchesElement(ds) = Around(st, X) /\ Fragment(DispatchesElement(ds))
    BY <1>5, <1>6, <1>7
<1> QED BY <1>3, <1>8, Zenon DEF X, st

LEMMA DispatchesStand ==
    ASSUME NEW D, TidyDispatch(D), NEW ds, Only(ds, D),
           NEW d, NEW t, NEW o, NEW p, In(d, t, o, p, DispatchesElement(ds)),
           t.part[o] = "KULDEMENY", NEW q, q = p + Len(DispatchesElement(ds))
    PROVE  /\ RegionRead(t, p, q, {4}, Inner) /\ q \in Nat /\ p <= q
           /\ p + 2 \in p + 1 .. q /\ IsOpen(d[p + 2]) /\ t.part[p + 2] = "EXPEDIALAS"
           /\ \A j \in p + 1 .. q : t.part[j] = "EXPEDIALAS" => j = p + 2
           /\ DispatchAt(t, p + 2) = DispatchAgain(D)
<1> DEFINE st == Start("EXPEDIALASOK", "target")
           x == DispatchElement(D)
           e == p + 1
           r == e + Len(x)
<1>1. DispatchesElement(ds) = Around(st, x) /\ Balanced(x)
    <2>1. DispatchesElement(ds) = Around(st, x) /\ Fragment(x)
        BY DispatchAlone, Zenon
    <2> QED BY <2>1 DEF Fragment
<1>2. IsStart(st) /\ st.name = "EXPEDIALASOK" /\ st.binding = "target" /\ IsOpen(st)
    <2>1. "EXPEDIALASOK" \in ElementNames
        BY DEF ElementNames
    <2> QED BY <2>1, StartWritten
<1> HIDE DEF st, x
<1>4. /\ e \in 1 .. Len(d) /\ d[e] = st /\ t.parent[e] = o
      /\ d[p + 2 + Len(x)].kind = "end"
      /\ In(d, t, e, e, x)
      /\ Len(Around(st, x)) = Len(x) + 2 /\ Len(x) \in Nat
    BY <1>1, <1>2, OpenedBy
<1>5. d \in Seq(Event) /\ t = Tree(d) /\ t.event = d /\ p \in Nat /\ o # 0 /\ Len(d) \in Nat
    <2>1. d \in Seq(Event) /\ t = Tree(d) /\ p \in Nat /\ o \in 1 .. p /\ Len(d) \in Nat
        BY InIs
    <2>3. t.event = d
        BY <2>1, TreeIs
    <2>4. o # 0
        BY <2>1
    <2> QED BY <2>1, <2>3, <2>4
<1>7. e \in Nat /\ r = e + Len(x) /\ r \in Nat /\ q = r + 1 /\ p + 2 + Len(x) = q /\ e = p + 1 /\ r + 1 = q
    <2> DEFINE n == Len(x)
    <2>1. q = p + (n + 2)
        BY <1>1, <1>4
    <2>2. n \in Nat /\ p \in Nat /\ e = p + 1 /\ r = e + n
        BY <1>4, <1>5
    <2> HIDE DEF n, r, e
    <2>3. e \in Nat /\ r = e + n /\ r \in Nat /\ q = r + 1 /\ p + 2 + n = q /\ e = p + 1 /\ r + 1 = q
        BY <2>1, <2>2
    <2> QED BY <2>3 DEF n
<1> HIDE DEF r, e
<1>9. t.part[e] = "EXPEDIALASOK" /\ IsOpen(d[e])
    <2>1. Blocks[4] = "EXPEDIALASOK" /\ 4 \in DOMAIN Blocks
        BY BlockNames
    <2> DEFINE k == 4
    <2>2. Blocks[k] = "EXPEDIALASOK" /\ k \in DOMAIN Blocks
        BY <2>1
    <2> HIDE DEF k
    <2>3. IsOpen(d[e]) /\ d[e].binding = "target" /\ d[e].name = Blocks[k]
        BY <1>2, <1>4, <2>2
    <2> QED BY <1>4, <1>5, <2>2, <2>3, BlockPart
<1>10. Sound(t, e)
    <2>1. "EXPEDIALASOK" \in Range(Blocks)
        BY BlockNames
    <2>2. ValueFaults(t, e) = {}
        BY <1>9, ValueFaultsAre
    <2> QED BY <1>9, <2>1, <2>2 DEF Sound
<1>11. DispatchRead(t, e, r, D)
    BY <1>4, <1>7, <1>9, DispatchStands DEF x
<1>12. /\ \A j \in e + 1 .. r : IsOpen(d[j]) =>
            /\ Sound(t, j)
            /\ \/ j = e + 1
               \/ t.part[j] \in {"MELLEKLETEK", "MELLEKLET", "leaf", "instructions"}
       /\ e + 1 <= r /\ IsOpen(d[e + 1]) /\ t.part[e + 1] = "EXPEDIALAS"
       /\ DispatchAt(t, e + 1) = DispatchAgain(D)
    BY <1>5, <1>11 DEF DispatchRead
<1>13. ASSUME NEW j \in p + 2 .. q, IsOpen(d[j])
       PROVE  Sound(t, j) /\ t.part[j] \in Inner /\ (t.part[j] = "EXPEDIALAS" => j = p + 2)
    <2>1. j \in e + 1 .. r \/ j = q
        BY <1>5, <1>7
    <2>2. j # q
        BY <1>4, <1>5, <1>7, <1>13 DEF IsOpen
    <2>3. j \in e + 1 .. r
        BY <2>1, <2>2
    <2>4. e + 1 = p + 2
        BY <1>5, <1>7
    <2>5. Sound(t, j) /\ (j = p + 2 \/ t.part[j] \in {"MELLEKLETEK", "MELLEKLET", "leaf", "instructions"})
        BY <1>12, <1>13, <2>3, <2>4
    <2>6. t.part[p + 2] = "EXPEDIALAS"
        BY <1>12, <2>4
    <2> QED BY <2>5, <2>6 DEF Inner
<1>14. p < q /\ q \in Nat
    BY <1>5, <1>7
<1>15. RegionRead(t, p, q, {4}, Inner)
    <2> DEFINE k == 4
    <2>1. k \in DOMAIN Blocks /\ Blocks[k] = "EXPEDIALASOK" /\ Inner \cap Range(Blocks) = {}
        BY BlockNames DEF Inner
    <2>2. \A j \in p + 2 .. q : IsOpen(t.event[j]) => Sound(t, j) /\ t.part[j] \in Inner
        BY <1>5, <1>13
    <2>3. IsOpen(t.event[e])
        BY <1>5, <1>9
    <2> HIDE DEF k
    <2>4. RegionRead(t, p, q, {k}, Inner)
        BY <1>5, <1>7, <1>9, <1>10, <1>14, <2>1, <2>2, <2>3, RegionOne
    <2> QED BY <2>4 DEF k
<1>16. ASSUME NEW j \in p + 1 .. q, t.part[j] = "EXPEDIALAS"
       PROVE  j = p + 2
    <2>1. j # e
        BY <1>9, <1>16
    <2>2. j \in p + 2 .. q
        BY <1>5, <1>7, <2>1
    <2>3. CASE IsOpen(d[j])
        BY <1>13, <1>16, <2>2, <2>3
    <2>4. CASE ~IsOpen(d[j])
        <3>1. j \in 1 .. Len(d)
            <4>1. q <= Len(d)
                BY <1>1, <1>4, InIs
            <4> QED BY <1>5, <1>14, <2>2, <4>1
        <3>2. t.part[j] = "none"
            BY <1>5, <2>4, <3>1, PartIs
        <3> QED BY <1>16, <3>2
    <2> QED BY <2>3, <2>4
<1>17. p + 2 \in p + 1 .. q /\ e + 1 = p + 2
    BY <1>5, <1>7, <1>12
<1>18. /\ IsOpen(d[p + 2]) /\ t.part[p + 2] = "EXPEDIALAS"
       /\ DispatchAt(t, p + 2) = DispatchAgain(D) /\ p <= q
    BY <1>5, <1>12, <1>14, <1>17
<1> QED BY <1>14, <1>15, <1>16, <1>17, <1>18

LEMMA JoinedEither ==
    ASSUME NEW a \in Seq(Event), NEW b \in Seq(Event), NEW c \in Seq(Event)
    PROVE  (a \o b) \o c = a \o (b \o c) /\ a \o b \in Seq(Event)
<1> DEFINE l == (a \o b) \o c
           r == a \o (b \o c)
           m == Len(a)
           n == Len(b)
           k == Len(c)
<1>1. IsSequence(a) /\ IsSequence(b) /\ IsSequence(c)
    BY DEF IsSequence
<1>2. /\ IsSequence(a \o b) /\ Len(a \o b) = m + n
      /\ \A i \in 1 .. m : (a \o b)[i] = a[i]
      /\ \A i \in 1 .. n : (a \o b)[m + i] = b[i]
    BY <1>1, Joined
<1>3. /\ IsSequence(b \o c) /\ Len(b \o c) = n + k
      /\ \A i \in 1 .. n : (b \o c)[i] = b[i]
      /\ \A i \in 1 .. k : (b \o c)[n + i] = c[i]
    BY <1>1, Joined
<1>4. /\ IsSequence(l) /\ Len(l) = Len(a \o b) + k
      /\ \A i \in 1 .. Len(a \o b) : l[i] = (a \o b)[i]
      /\ \A i \in 1 .. k : l[Len(a \o b) + i] = c[i]
    BY <1>1, <1>2, Joined
<1>5. /\ IsSequence(r) /\ Len(r) = m + Len(b \o c)
      /\ \A i \in 1 .. m : r[i] = a[i]
      /\ \A i \in 1 .. Len(b \o c) : r[m + i] = (b \o c)[i]
    BY <1>1, <1>3, Joined
<1>6. m \in Nat /\ n \in Nat /\ k \in Nat
    OBVIOUS
<1>7. a \o b \in Seq(Event)
    OBVIOUS
<1> DEFINE ab == a \o b
           bc == b \o c
<1>8. /\ Len(ab) = m + n /\ Len(bc) = n + k
      /\ \A i \in 1 .. m : ab[i] = a[i]
      /\ \A i \in 1 .. n : ab[m + i] = b[i]
      /\ \A i \in 1 .. n : bc[i] = b[i]
      /\ \A i \in 1 .. k : bc[n + i] = c[i]
      /\ IsSequence(l) /\ Len(l) = (m + n) + k
      /\ \A i \in 1 .. m + n : l[i] = ab[i]
      /\ \A i \in 1 .. k : l[m + n + i] = c[i]
      /\ IsSequence(r) /\ Len(r) = m + (n + k)
      /\ \A i \in 1 .. m : r[i] = a[i]
      /\ \A i \in 1 .. n + k : r[m + i] = bc[i]
    BY <1>2, <1>3, <1>4, <1>5
<1> HIDE DEF l, r, m, n, k, ab, bc
<1>9. Len(l) = Len(r) /\ Len(l) = m + n + k
    BY <1>6, <1>8
<1>10. ASSUME NEW i \in 1 .. Len(l) PROVE l[i] = r[i]
    <2>1. CASE i <= m
        <3>1. i \in 1 .. m /\ i \in 1 .. m + n
            BY <1>6, <1>9, <2>1
        <3> QED BY <1>8, <3>1
    <2>2. CASE m < i /\ i <= m + n
        <3> DEFINE j == i - m
        <3>1. j \in 1 .. n /\ j \in 1 .. n + k /\ i \in 1 .. m + n /\ m + j = i
            BY <1>6, <1>9, <2>2
        <3> HIDE DEF j
        <3>2. l[i] = b[j]
            BY <1>8, <3>1
        <3>3. r[m + j] = b[j]
            BY <1>8, <3>1
        <3> QED BY <3>1, <3>2, <3>3
    <2>3. CASE m + n < i
        <3> DEFINE j == i - (m + n)
        <3>1. j \in 1 .. k /\ n + j \in 1 .. n + k /\ m + n + j = i /\ m + (n + j) = i
            BY <1>6, <1>9, <2>3
        <3> HIDE DEF j
        <3>2. l[i] = c[j]
            BY <1>8, <3>1
        <3>3. r[m + (n + j)] = bc[n + j]
            BY <1>8, <3>1
        <3>4. bc[n + j] = c[j]
            BY <1>8, <3>1
        <3> QED BY <3>1, <3>2, <3>3, <3>4
    <2> QED BY <1>6, <1>9, <2>1, <2>2, <2>3
<1>11. l = r
    BY <1>8, <1>9, <1>10, SameSequence
<1> QED BY <1>7, <1>11 DEF l, r

\* Joining is associative: named, so that it can be used as it stands.
Either(a, b, c) == (a \o b) \o c = a \o (b \o c)

LEMMA EitherWay ==
    ASSUME NEW a \in Seq(Event), NEW b \in Seq(Event), NEW c \in Seq(Event)
    PROVE  Either(a, b, c) /\ a \o b \in Seq(Event) /\ b \o c \in Seq(Event)
<1> QED BY JoinedEither DEF Either

Positions(p, n1, n2, n3, n4, n5, m1, m2, m3, m4, q1, q2, q3, q4, q5) ==
    /\ p \in Nat /\ n1 \in Nat /\ n2 \in Nat /\ n3 \in Nat /\ n4 \in Nat /\ n5 \in Nat
    /\ m1 = n1 + n2 /\ m2 = m1 + n3 /\ m3 = m2 + n4 /\ m4 = m3 + n5
    /\ q1 = p + n1 /\ q2 = q1 + n2 /\ q3 = q2 + n3 /\ q4 = q3 + n4 /\ q5 = q4 + n5

LEMMA PositionsAre ==
    ASSUME NEW p, NEW n1, NEW n2, NEW n3, NEW n4, NEW n5, NEW m1, NEW m2, NEW m3, NEW m4,
           NEW q1, NEW q2, NEW q3, NEW q4, NEW q5,
           Positions(p, n1, n2, n3, n4, n5, m1, m2, m3, m4, q1, q2, q3, q4, q5)
    PROVE  q1 = p + n1 /\ q2 = p + m1 /\ q3 = p + m2 /\ q4 = p + m3 /\ q5 = p + m4
<1> QED BY DEF Positions

\* Five pieces, one behind the other.
InFive(d, t, o, p, s, a, b, c, x, y, q1, q2, q3, q4, q5) ==
    /\ Balanced(a) /\ Balanced(b) /\ Balanced(c) /\ Balanced(x) /\ Balanced(y)
    /\ s = a \o b \o c \o x \o y /\ In(d, t, o, p, s)
    /\ q1 = p + Len(a) /\ q2 = q1 + Len(b) /\ q3 = q2 + Len(c) /\ q4 = q3 + Len(x) /\ q5 = q4 + Len(y)

LEMMA FiveParts ==
    ASSUME NEW d, NEW t, NEW o, NEW p, NEW s, NEW a, NEW b, NEW c, NEW x, NEW y,
           NEW q1, NEW q2, NEW q3, NEW q4, NEW q5,
           InFive(d, t, o, p, s, a, b, c, x, y, q1, q2, q3, q4, q5)
    PROVE  /\ In(d, t, o, p, a) /\ In(d, t, o, q1, b) /\ In(d, t, o, q2, c) /\ In(d, t, o, q3, x)
           /\ In(d, t, o, q4, y) /\ q5 = p + Len(s)
<1> DEFINE ab == a \o b
           abc == ab \o c
           abx == abc \o x
<1>0. /\ Balanced(a) /\ Balanced(b) /\ Balanced(c) /\ Balanced(x) /\ Balanced(y)
      /\ s = a \o b \o c \o x \o y /\ In(d, t, o, p, s)
      /\ q1 = p + Len(a) /\ q2 = q1 + Len(b) /\ q3 = q2 + Len(c) /\ q4 = q3 + Len(x) /\ q5 = q4 + Len(y)
    BY Zenon DEF InFive
<1>1. Balanced(ab)
    BY <1>0, BalancedJoined
<1>2. Balanced(abc)
    <2> HIDE DEF ab
    <2> QED BY <1>0, <1>1, BalancedJoined
<1>3. Balanced(abx)
    <2> HIDE DEF abc
    <2> QED BY <1>0, <1>2, BalancedJoined
<1>4. s = abx \o y
    BY <1>0
<1>5. /\ c \in Seq(Event) /\ x \in Seq(Event) /\ y \in Seq(Event) /\ b \in Seq(Event)
    BY <1>0 DEF Balanced
<1>6. p \in Nat
    BY <1>0, InIs
<1>7. /\ In(d, t, o, p, abx) /\ In(d, t, o, p + Len(abx), y)
      /\ Len(abx \o y) = Len(abx) + Len(y) /\ Len(abx) \in Nat /\ Len(y) \in Nat
    <2> HIDE DEF abx
    <2>1. In(d, t, o, p, abx \o y)
        BY <1>0, <1>4
    <2> QED BY <1>3, <1>5, <2>1, InParts
<1>8. /\ In(d, t, o, p, abc) /\ In(d, t, o, p + Len(abc), x)
      /\ Len(abx) = Len(abc) + Len(x) /\ Len(abc) \in Nat /\ Len(x) \in Nat
    <2> HIDE DEF abc
    <2> QED BY <1>2, <1>5, <1>7, InParts
<1>9. /\ In(d, t, o, p, ab) /\ In(d, t, o, p + Len(ab), c)
      /\ Len(abc) = Len(ab) + Len(c) /\ Len(ab) \in Nat /\ Len(c) \in Nat
    <2> HIDE DEF ab
    <2> QED BY <1>0, <1>1, <1>5, <1>8, InParts
<1>10. /\ In(d, t, o, p, a) /\ In(d, t, o, p + Len(a), b)
       /\ Len(ab) = Len(a) + Len(b) /\ Len(a) \in Nat /\ Len(b) \in Nat
    BY <1>0, <1>5, <1>9, InParts
<1> DEFINE n1 == Len(a)
           n2 == Len(b)
           n3 == Len(c)
           n4 == Len(x)
           n5 == Len(y)
           m1 == Len(ab)
           m2 == Len(abc)
           m3 == Len(abx)
           m4 == Len(s)
<1>11. /\ n1 \in Nat /\ n2 \in Nat /\ n3 \in Nat /\ n4 \in Nat /\ n5 \in Nat
       /\ m1 = n1 + n2 /\ m2 = m1 + n3 /\ m3 = m2 + n4 /\ m4 = m3 + n5
       /\ q1 = p + n1 /\ q2 = q1 + n2 /\ q3 = q2 + n3 /\ q4 = q3 + n4 /\ q5 = q4 + n5
    BY <1>0, <1>4, <1>7, <1>8, <1>9, <1>10
<1> HIDE DEF n1, n2, n3, n4, n5, m1, m2, m3, m4, ab, abc, abx
<1>12. q1 = p + n1 /\ q2 = p + m1 /\ q3 = p + m2 /\ q4 = p + m3 /\ q5 = p + m4
    <2>1. Positions(p, n1, n2, n3, n4, n5, m1, m2, m3, m4, q1, q2, q3, q4, q5)
        BY <1>6, <1>11, Zenon DEF Positions
    <2> QED BY <2>1, PositionsAre
<1> QED BY <1>7, <1>8, <1>9, <1>10, <1>12 DEF n1, m1, m2, m3, m4

\* The document of a value that is written: the declaration, and the root
\* around what is in it.
Declaration == [kind |-> "declaration", encoding |-> "utf8"]
RootStart == [kind |-> "start", name |-> "KULDEMENY", binding |-> "target",
              attributes |-> <<[raw |-> 1, value |-> 1]>>]
RootInner(m) ==
    HeaderElement(m.header) \o BlockElement(m.receipt_present, 2) \o BlockElement(m.openings_present, 3)
        \o DispatchesElement(m.dispatches) \o BlockElement(m.return_receipt_present, 5)

\* What package() writes of a value: texts the reader does not change, and
\* no dispatch, or one.
TidyMetadata(m) ==
    /\ m.header \in Header /\ TidyHeader(m.header)
    /\ m.receipt_present \in BOOLEAN /\ m.openings_present \in BOOLEAN /\ m.return_receipt_present \in BOOLEAN
    /\ m.unknown_elements = 0
    /\ m.dispatches = <<>> \/ \E D : Only(m.dispatches, D) /\ TidyDispatch(D)

LEMMA InnerFragments ==
    ASSUME NEW m, TidyMetadata(m)
    PROVE  /\ Fragment(HeaderElement(m.header)) /\ Fragment(BlockElement(m.receipt_present, 2))
           /\ Fragment(BlockElement(m.openings_present, 3)) /\ Fragment(DispatchesElement(m.dispatches))
           /\ Fragment(BlockElement(m.return_receipt_present, 5))
<1>1. Fragment(HeaderElement(m.header))
    BY HeaderFragment DEF TidyMetadata
<1>2. /\ Fragment(BlockElement(m.receipt_present, 2)) /\ Fragment(BlockElement(m.openings_present, 3))
      /\ Fragment(BlockElement(m.return_receipt_present, 5))
    BY BlockFragment
<1>3. Fragment(DispatchesElement(m.dispatches))
    <2>1. CASE m.dispatches = <<>>
        BY <2>1, FragmentNone DEF DispatchesElement
    <2>2. CASE m.dispatches # <<>>
        <3>1. PICK D : Only(m.dispatches, D) /\ TidyDispatch(D)
            BY <2>2 DEF TidyMetadata
        <3> QED BY <3>1, DispatchAlone
    <2> QED BY <2>1, <2>2
<1> QED BY <1>1, <1>2, <1>3

LEMMA RootIs ==
    ASSUME NEW m, TidyMetadata(m)
    PROVE  /\ Fragment(RootInner(m)) /\ IsStart(RootStart) /\ IsWritten(RootStart)
           /\ Declaration \in Event /\ IsWritten(Declaration)
<1> DEFINE a == HeaderElement(m.header)
           b == BlockElement(m.receipt_present, 2)
           c == BlockElement(m.openings_present, 3)
           x == DispatchesElement(m.dispatches)
           y == BlockElement(m.return_receipt_present, 5)
<1>1. Fragment(a) /\ Fragment(b) /\ Fragment(c) /\ Fragment(x) /\ Fragment(y)
    BY InnerFragments
<1>2. RootInner(m) = a \o b \o c \o x \o y
    BY DEF RootInner
<1> HIDE DEF a, b, c, x, y
<1>3. Fragment(a \o b)
    BY <1>1, FragmentJoined
<1>4. Fragment(a \o b \o c)
    BY <1>1, <1>3, FragmentJoined
<1>5. Fragment(a \o b \o c \o x)
    BY <1>1, <1>4, FragmentJoined
<1>6. Fragment(a \o b \o c \o x \o y)
    BY <1>1, <1>5, FragmentJoined
<1>7. RootStart \in Event
    <2>1. <<[raw |-> 1, value |-> 1]>> \in Seq(Attribute)
        <3>1. [raw |-> 1, value |-> 1] \in Attribute
            BY DEF Attribute
        <3> QED BY <3>1
    <2>2. "KULDEMENY" \in STRING
        BY NamesAreStrings DEF ElementNames
    <2> QED BY <2>1, <2>2, StartIs DEF RootStart
<1>8. IsStart(RootStart) /\ IsWritten(RootStart)
    BY <1>7 DEF IsStart, IsWritten, RootStart
<1>9. Declaration \in Event /\ IsWritten(Declaration)
    <2>1. Declaration \in Event
        BY DEF Declaration, Event, DeclarationEvent
    <2> QED BY <2>1 DEF IsWritten, Declaration
<1> QED BY <1>2, <1>6, <1>8, <1>9

LEMMA SerialisedAs ==
    ASSUME NEW m, TidyMetadata(m)
    PROVE  Serialised(m) = <<Declaration>> \o Around(RootStart, RootInner(m))
<1> DEFINE a == HeaderElement(m.header)
           b == BlockElement(m.receipt_present, 2)
           c == BlockElement(m.openings_present, 3)
           x == DispatchesElement(m.dispatches)
           y == BlockElement(m.return_receipt_present, 5)
           s == RootInner(m)
           f == <<Declaration>>
           g == <<RootStart>>
           z == <<EndEvent>>
           u == f \o g
<1>1. /\ a \in Seq(Event) /\ b \in Seq(Event) /\ c \in Seq(Event) /\ x \in Seq(Event) /\ y \in Seq(Event)
      /\ f \in Seq(Event) /\ g \in Seq(Event) /\ z \in Seq(Event)
    <2>1. /\ a \in Seq(Event) /\ b \in Seq(Event) /\ c \in Seq(Event) /\ x \in Seq(Event) /\ y \in Seq(Event)
        BY InnerFragments DEF Fragment, Balanced
    <2>2. /\ f \in Seq(Event) /\ g \in Seq(Event)
        BY RootIs DEF IsStart
    <2>3. z \in Seq(Event)
        BY EndIs DEF EndEvent
    <2> QED BY <2>1, <2>2, <2>3
<1>2. s = a \o b \o c \o x \o y
    BY DEF RootInner
<1>3. Serialised(m) = <<Declaration, RootStart>> \o a \o b \o c \o x \o y \o z
    <2>1. Block(m.receipt_present, "ERKEZTETES") = b /\ Block(m.openings_present, "BONTASOK") = c
          /\ Block(m.return_receipt_present, "TERTIVEVENY") = y
        BY BlockNames DEF BlockElement
    <2>2. (IF m.dispatches = <<>> THEN <<>>
            ELSE Element("EXPEDIALASOK",
                         FlattenSeq([i \in DOMAIN m.dispatches |-> DispatchElement(m.dispatches[i])]))) = x
        BY DEF DispatchesElement
    <2>3. [Start("KULDEMENY", "target") EXCEPT !.attributes = <<[raw |-> 1, value |-> 1]>>] = RootStart
        BY DEF Start, RootStart
    <2>4. [kind |-> "declaration", encoding |-> "utf8"] = Declaration /\ <<[kind |-> "end"]>> = z
        BY DEF Declaration, EndEvent
    <2> HIDE DEF a, b, c, x, y, z
    <2> QED BY <2>1, <2>2, <2>3, <2>4, Zenon DEF Serialised, a
<1>4. <<Declaration, RootStart>> = u
    <2>1. Declaration \in Event /\ RootStart \in Event
        BY RootIs DEF IsStart
    <2> DEFINE e == Declaration
               h == RootStart
               v == <<e>>
               w == <<h>>
               l == <<e, h>>
    <2> HIDE DEF e, h
    <2>2. IsSequence(v) /\ IsSequence(w) /\ IsSequence(l)
        <3>1. v \in Seq({e, h}) /\ w \in Seq({e, h}) /\ l \in Seq({e, h})
            OBVIOUS
        <3> QED BY <3>1 DEF IsSequence
    <2>3. Len(v) = 1 /\ Len(w) = 1 /\ v[1] = e /\ w[1] = h /\ Len(l) = 2 /\ l[1] = e /\ l[2] = h
        OBVIOUS
    <2> HIDE DEF v, w, l
    <2>4. /\ IsSequence(v \o w) /\ Len(v \o w) = Len(v) + Len(w)
          /\ \A i \in 1 .. Len(v) : (v \o w)[i] = v[i]
          /\ \A i \in 1 .. Len(w) : (v \o w)[Len(v) + i] = w[i]
        BY <2>2, Joined
    <2>5. (v \o w)[1] = e /\ (v \o w)[1 + 1] = h /\ Len(v \o w) = 2
        <3>1. 1 \in 1 .. Len(v) /\ 1 \in 1 .. Len(w)
            BY <2>3
        <3> QED BY <2>3, <2>4, <3>1
    <2>6. \A i \in 1 .. Len(l) : l[i] = (v \o w)[i]
        <3>1. \A i \in 1 .. Len(l) : i = 1 \/ i = 1 + 1
            BY <2>3
        <3> QED BY <2>3, <2>5, <3>1
    <2>7. l = v \o w
        <3> DEFINE n == v \o w
        <3>1. IsSequence(n) /\ Len(n) = Len(l) /\ \A i \in 1 .. Len(l) : l[i] = n[i]
            BY <2>3, <2>4, <2>5, <2>6
        <3> HIDE DEF n
        <3>2. l = n
            BY <2>2, <3>1, SameSequence
        <3> QED BY <3>2 DEF n
    <2> QED BY <2>7 DEF l, v, w, e, h
<1> HIDE DEF a, b, c, x, y, s, f, g, z, u
<1>5. u \in Seq(Event)
    BY <1>1 DEF u
<1> DEFINE ab == a \o b
           abc == ab \o c
           abx == abc \o x
           gs == g \o s
<1>6. s = abx \o y
    BY <1>2
<1>7. Serialised(m) = ((((u \o a) \o b) \o c) \o x) \o y \o z
    BY <1>3, <1>4
<1>8. ab \in Seq(Event) /\ abc \in Seq(Event) /\ abx \in Seq(Event) /\ s \in Seq(Event)
    <2>1. ab \in Seq(Event)
        BY <1>1
    <2>2. abc \in Seq(Event)
        <3> HIDE DEF ab
        <3> QED BY <1>1, <2>1
    <2>3. abx \in Seq(Event)
        <3> HIDE DEF abc
        <3> QED BY <1>1, <2>2
    <2>4. s \in Seq(Event)
        <3> HIDE DEF abx
        <3> QED BY <1>1, <1>6, <2>3
    <2> QED BY <2>1, <2>2, <2>3, <2>4
<1>9. (u \o a) \o b = u \o ab
    <2>1. Either(u, a, b)
        BY <1>1, <1>5, EitherWay
    <2> QED BY <2>1 DEF Either
<1>10. (u \o ab) \o c = u \o abc
    <2> HIDE DEF ab
    <2>1. Either(u, ab, c)
        BY <1>1, <1>5, <1>8, EitherWay
    <2> QED BY <2>1 DEF Either
<1>11. (u \o abc) \o x = u \o abx
    <2> HIDE DEF abc
    <2>1. Either(u, abc, x)
        BY <1>1, <1>5, <1>8, EitherWay
    <2> QED BY <2>1 DEF Either
<1>12. (u \o abx) \o y = u \o s
    <2> HIDE DEF abx
    <2>1. Either(u, abx, y)
        BY <1>1, <1>5, <1>8, EitherWay
    <2>2. (u \o abx) \o y = u \o (abx \o y)
        BY <2>1 DEF Either
    <2> QED BY <1>6, <2>2
<1> HIDE DEF ab, abc, abx
<1>13. Serialised(m) = (u \o s) \o z
    BY <1>7, <1>9, <1>10, <1>11, <1>12
<1>14. u \o s = f \o gs /\ gs \in Seq(Event)
    <2>1. Either(f, g, s) /\ g \o s \in Seq(Event)
        BY <1>1, <1>8, EitherWay
    <2>2. (f \o g) \o s = f \o (g \o s)
        BY <2>1 DEF Either
    <2> QED BY <2>1, <2>2 DEF u
<1> HIDE DEF gs
<1>15. (f \o gs) \o z = f \o (gs \o z)
    <2>1. Either(f, gs, z)
        BY <1>1, <1>14, EitherWay
    <2> QED BY <2>1 DEF Either
<1>16. gs \o z = Around(RootStart, s)
    BY DEF Around, g, z, gs
<1> QED BY <1>13, <1>14, <1>15, <1>16 DEF f, s

\* An element that stands in a document, whatever it is in.
OpenedAt(d, t, p, st, x) ==
    /\ d \in Seq(Event) /\ t = Tree(d) /\ p \in Nat
    /\ Stands(Around(st, x), Len(Around(st, x)), d, p) /\ p + Len(Around(st, x)) <= Len(d)
    /\ IsStart(st) /\ Balanced(x)

LEMMA OpeningIs ==
    ASSUME NEW d, NEW t, NEW p, NEW st, NEW x, OpenedAt(d, t, p, st, x)
    PROVE  /\ p + 1 \in 1 .. Len(d) /\ d[p + 1] = st
           /\ t.close[p + 1] = p + 2 + Len(x) /\ d[p + 2 + Len(x)].kind = "end"
           /\ In(d, t, p + 1, p + 1, x)
<1>1. /\ d \in Seq(Event) /\ t = Tree(d) /\ p \in Nat
      /\ Stands(Around(st, x), Len(Around(st, x)), d, p) /\ p + Len(Around(st, x)) <= Len(d)
      /\ IsStart(st) /\ Balanced(x)
    BY DEF OpenedAt
<1> QED BY <1>1, ClosedWhere

\* The document as a whole: a declaration, and the root up to its end.
LEMMA RootStands ==
    ASSUME NEW m, TidyMetadata(m), NEW d, d = Serialised(m), NEW t, t = Tree(d), NEW s, s = RootInner(m)
    PROVE  /\ d \in Seq(Event) /\ Len(d) = Len(s) + 3 /\ Len(s) \in Nat
           /\ d[1] = Declaration /\ d[2] = RootStart /\ t.close[2] = Len(d) /\ d[Len(d)].kind = "end"
           /\ In(d, t, 2, 2, s) /\ t.parent[2] = 0 /\ t.part[2] = "KULDEMENY"
           /\ \A k \in 1 .. Len(d) : IsWritten(d[k])
<1> DEFINE a == Around(RootStart, s)
           f == <<Declaration>>
           n == Len(a)
<1>1. Fragment(s) /\ IsStart(RootStart) /\ IsWritten(RootStart) /\ Declaration \in Event /\ IsWritten(Declaration)
    BY RootIs
<1>2. d = f \o a
    BY SerialisedAs
<1>3. Fragment(a) /\ Balanced(s)
    BY <1>1, FragmentAround DEF Fragment
<1>4. a \in Seq(Event) /\ s \in Seq(Event) /\ \A k \in 1 .. n : IsWritten(a[k])
    BY <1>3 DEF Fragment, Balanced
<1>5. f \in Seq(Event) /\ Len(f) = 1 /\ f[1] = Declaration
    <2> DEFINE e == Declaration
    <2>1. e \in Event
        BY <1>1
    <2> HIDE DEF e
    <2>2. <<e>> \in Seq(Event) /\ Len(<<e>>) = 1 /\ <<e>>[1] = e
        BY <2>1
    <2> QED BY <2>2 DEF e
<1> HIDE DEF f, a
<1>6. /\ Len(d) = 1 + n /\ d[1] = Declaration /\ n \in Nat
      /\ \A k \in 1 .. n : d[1 + k] = a[k]
    <2>1. IsSequence(f) /\ IsSequence(a)
        BY <1>4, <1>5 DEF IsSequence
    <2>2. /\ Len(f \o a) = Len(f) + Len(a)
          /\ \A i \in 1 .. Len(f) : (f \o a)[i] = f[i]
          /\ \A i \in 1 .. Len(a) : (f \o a)[Len(f) + i] = a[i]
        BY <2>1, Joined
    <2>3. n \in Nat /\ 1 \in 1 .. Len(f)
        BY <1>4, <1>5
    <2> QED BY <1>2, <1>5, <2>2, <2>3
<1>7. d \in Seq(Event)
    BY <1>2, <1>4, <1>5
<1>8. n = Len(s) + 2 /\ Len(s) \in Nat
    BY <1>1, <1>4, AroundIs DEF a
<1> HIDE DEF n
<1>9. Stands(a, n, d, 1) /\ 1 + n <= Len(d)
    BY <1>6 DEF Stands
<1>10. /\ 1 + 1 \in 1 .. Len(d) /\ d[1 + 1] = RootStart
       /\ t.close[1 + 1] = 1 + 2 + Len(s) /\ d[1 + 2 + Len(s)].kind = "end"
       /\ In(d, t, 1 + 1, 1 + 1, s)
    <2> DEFINE p == 1
    <2>1. p \in Nat /\ Stands(Around(RootStart, s), Len(Around(RootStart, s)), d, p)
          /\ p + Len(Around(RootStart, s)) <= Len(d)
        BY <1>9 DEF n, a
    <2>2. OpenedAt(d, t, p, RootStart, s)
        BY <1>1, <1>3, <1>7, <2>1 DEF OpenedAt
    <2> HIDE DEF p
    <2>3. /\ p + 1 \in 1 .. Len(d) /\ d[p + 1] = RootStart
          /\ t.close[p + 1] = p + 2 + Len(s) /\ d[p + 2 + Len(s)].kind = "end"
          /\ In(d, t, p + 1, p + 1, s)
        BY <2>2, OpeningIs
    <2> QED BY <2>3 DEF p
<1>11. /\ 2 \in 1 .. Len(d) /\ d[2] = RootStart /\ Len(d) = Len(s) + 3
       /\ t.close[2] = Len(d) /\ d[Len(d)].kind = "end" /\ In(d, t, 2, 2, s)
    <2>1. 1 + 1 = 2 /\ Len(d) = Len(s) + 3 /\ 1 + 2 + Len(s) = Len(d)
        BY <1>6, <1>8
    <2> QED BY <1>10, <2>1
<1>12. t.parent[2] = 0
    <2>1. t.parent[2] \in 0 .. 2 - 1 /\ (t.parent[2] # 0 => d[t.parent[2]].kind = "start")
        BY <1>7, <1>11, ParentIs
    <2>2. d[1].kind # "start"
        BY <1>6 DEF Declaration
    <2>3. t.parent[2] = 0 \/ t.parent[2] = 1
        BY <2>1
    <2> QED BY <2>1, <2>2, <2>3
<1>13. t.part[2] = "KULDEMENY"
    <2>1. IsOpen(d[2])
        BY <1>11 DEF IsOpen, RootStart
    <2> QED BY <1>7, <1>11, <1>12, <2>1, PartMeans
<1>14. ASSUME NEW k \in 1 .. Len(d) PROVE IsWritten(d[k])
    <2>1. CASE k = 1
        BY <1>1, <1>6, <2>1
    <2>2. CASE k # 1
        <3> DEFINE j == k - 1
        <3>1. j \in 1 .. n /\ 1 + j = k
            BY <1>6, <2>2
        <3> HIDE DEF j
        <3>2. d[k] = a[j]
            BY <1>6, <3>1
        <3> QED BY <1>4, <3>1, <3>2 DEF n
    <2> QED BY <2>1, <2>2
<1> QED BY <1>6, <1>7, <1>8, <1>11, <1>12, <1>13, <1>14

\* What is read of it is all of it.
LEMMA RootIsRead ==
    ASSUME NEW d \in Seq(Event), NEW t, t = Tree(d), Len(d) >= 3, ~IsOpen(d[1]), IsOpen(d[2]), t.close[2] = Len(d)
    PROVE  FirstElement(t) = 2 /\ End(t) = Len(d) /\ Read(t) = t
<1> DEFINE n == Len(d)
           f == FirstElement(t)
<1>1. n \in Nat /\ n >= 3 /\ DOMAIN d = 1 .. n
    OBVIOUS
<1>2. t.event = d
    BY TreeIs
<1>3. f \in 1 .. n + 1 /\ (f \in 1 .. n => IsOpen(d[f])) /\ \A i \in 1 .. n : IsOpen(d[i]) => f <= i
    BY <1>2, FirstIs
<1> HIDE DEF n, f
<1>4. 2 \in 1 .. n
    BY <1>1
<1>5. f <= 2
    BY <1>3, <1>4
<1>6. f = 1 \/ f = 2
    BY <1>3, <1>1, <1>5
<1>7. f = 2
    BY <1>1, <1>3, <1>6
<1>8. End(t) = n
    <2>1. f \in 1 .. n => End(t) = t.close[f]
        BY ReadIs DEF f, n
    <2> QED BY <1>4, <1>7, <2>1 DEF n
<1>9. Read(t) = Tree(SubSeq(d, 1, n))
    <2>1. End(t) \in 1 .. n
        BY <1>1, <1>8
    <2>2. End(t) \in 1 .. n => Read(t) = Tree(SubSeq(d, 1, End(t)))
        BY ReadIs DEF n
    <2> QED BY <1>8, <2>1, <2>2
<1>10. SubSeq(d, 1, n) = d
    <2> DEFINE c == SubSeq(d, 1, n)
    <2>1. IsSequence(d) /\ n \in 0 .. Len(d)
        BY <1>1 DEF IsSequence, n
    <2>2. IsSequence(c) /\ Len(c) = n /\ \A i \in 1 .. n : c[i] = d[i]
        BY <2>1, CutBy, ZenonT(30)
    <2> HIDE DEF c
    <2>3. Len(c) = Len(d) /\ \A i \in 1 .. Len(c) : c[i] = d[i]
        BY <2>2 DEF n
    <2>4. c = d
        BY <2>1, <2>2, <2>3, SameSequence
    <2> QED BY <2>4 DEF c
<1> QED BY <1>7, <1>8, <1>9, <1>10 DEF f, n

\* The dispatches of a range: the one there is, or none.
DispatchOnly(t, p, q, ds) ==
    \/ ds = <<>> /\ \A j \in p + 1 .. q : t.part[j] # "EXPEDIALAS"
    \/ /\ ds # <<>>
       /\ \E D, e : /\ Only(ds, D) /\ TidyDispatch(D)
                    /\ e \in p + 1 .. q /\ t.part[e] = "EXPEDIALAS" /\ IsOpen(t.event[e])
                    /\ \A j \in p + 1 .. q : t.part[j] = "EXPEDIALAS" => j = e
                    /\ DispatchAt(t, e) = DispatchAgain(D)

LEMMA InnerIs == Inner \cap Range(Blocks) = {} /\ "leaf" \in Inner
<1> QED BY BlockNames DEF Inner

LEMMA DispatchesWritten ==
    ASSUME NEW ds, ds = <<>> \/ \E D : Only(ds, D) /\ TidyDispatch(D),
           NEW d, NEW t, NEW o, NEW p, In(d, t, o, p, DispatchesElement(ds)),
           t.part[o] = "KULDEMENY", NEW q, q = p + Len(DispatchesElement(ds))
    PROVE  /\ RegionRead(t, p, q, BlocksOf(ds # <<>>, 4), Inner) /\ q \in Nat /\ p <= q
           /\ DispatchOnly(t, p, q, ds)
<1>1. CASE ds = <<>>
    <2>1. p \in Nat
        BY InIs
    <2>2. DispatchesElement(ds) = NoEvent
        BY <1>1 DEF DispatchesElement, NoEvent
    <2>3. q = p
        BY <2>1, <2>2, NoEventIs
    <2>4. RegionRead(t, p, q, {}, Inner)
        BY <2>1, <2>3, InnerIs, RegionNone
    <2>5. BlocksOf(ds # <<>>, 4) = {}
        BY <1>1 DEF BlocksOf
    <2>6. \A j \in p + 1 .. q : FALSE
        BY <2>1, <2>3
    <2>7. DispatchOnly(t, p, q, ds)
        BY <1>1, <2>6, Zenon DEF DispatchOnly
    <2> QED BY <2>1, <2>3, <2>4, <2>5, <2>7
<1>2. CASE ds # <<>>
    <2>1. PICK D : Only(ds, D) /\ TidyDispatch(D)
        BY <1>2
    <2>2. d \in Seq(Event) /\ t = Tree(d)
        BY InIs
    <2>3. t.event = d
        BY <2>2, TreeIs
    <2>4. /\ RegionRead(t, p, q, {4}, Inner) /\ q \in Nat /\ p <= q
          /\ p + 2 \in p + 1 .. q /\ IsOpen(d[p + 2]) /\ t.part[p + 2] = "EXPEDIALAS"
          /\ \A j \in p + 1 .. q : t.part[j] = "EXPEDIALAS" => j = p + 2
          /\ DispatchAt(t, p + 2) = DispatchAgain(D)
        BY <2>1, DispatchesStand
    <2>5. BlocksOf(ds # <<>>, 4) = {4}
        BY <1>2 DEF BlocksOf
    <2> DEFINE e == p + 2
    <2>6. /\ e \in p + 1 .. q /\ t.part[e] = "EXPEDIALAS" /\ IsOpen(t.event[e])
          /\ \A j \in p + 1 .. q : t.part[j] = "EXPEDIALAS" => j = e
          /\ DispatchAt(t, e) = DispatchAgain(D)
        BY <2>3, <2>4
    <2> HIDE DEF e
    <2>7. DispatchOnly(t, p, q, ds)
        BY <1>2, <2>1, <2>6, Zenon DEF DispatchOnly
    <2> QED BY <2>4, <2>5, <2>7
<1> QED BY <1>1, <1>2

\* What a region has that is not a part of it is none of its elements.
LEMMA NoneOfRegion ==
    ASSUME NEW d \in Seq(Event), NEW t, t = Tree(d), NEW p \in Nat, NEW q \in Nat, q <= Len(d), NEW K, NEW S,
           RegionRead(t, p, q, K, S), NEW part, part \notin S, part \notin Range(Blocks), part # "none"
    PROVE  \A j \in p + 1 .. q : t.part[j] # part
<1>1. t.event = d
    BY TreeIs
<1> SUFFICES ASSUME NEW j \in p + 1 .. q, t.part[j] = part PROVE FALSE
    OBVIOUS
<1>2. j \in 1 .. Len(d)
    OBVIOUS
<1>3. IsOpen(d[j])
    BY <1>2, PartMeans
<1>4. t.part[j] \in S \/ t.part[j] \in Range(Blocks)
    BY <1>1, <1>3 DEF RegionRead
<1> QED BY <1>4

\* What is in the root.
BlocksIn(m) ==
    ((({1} \cup BlocksOf(m.receipt_present, 2)) \cup BlocksOf(m.openings_present, 3))
        \cup BlocksOf(m.dispatches # <<>>, 4)) \cup BlocksOf(m.return_receipt_present, 5)

LEMMA BlocksInAre ==
    ASSUME NEW m, TidyMetadata(m)
    PROVE  /\ 1 \in BlocksIn(m) /\ (2 \in BlocksIn(m) <=> m.receipt_present)
           /\ (3 \in BlocksIn(m) <=> m.openings_present) /\ (5 \in BlocksIn(m) <=> m.return_receipt_present)
<1> QED BY DEF BlocksIn, BlocksOf

LEMMA InnerRead ==
    ASSUME NEW m, TidyMetadata(m), NEW d, NEW t, NEW o, NEW p, NEW s, s = RootInner(m), In(d, t, o, p, s),
           t.part[o] = "KULDEMENY", NEW n, n = p + Len(s)
    PROVE  /\ RegionRead(t, p, n, BlocksIn(m), Inner) /\ n \in Nat /\ p < n
           /\ p + 1 \in 1 .. Len(d) /\ IsOpen(d[p + 1]) /\ t.part[p + 1] = "FEJRESZ" /\ t.parent[p + 1] = o
           /\ HeaderAt(t, p + 1) = HeaderAgain(m.header)
           /\ DispatchOnly(t, p, n, m.dispatches)
<1> DEFINE a == HeaderElement(m.header)
           b == BlockElement(m.receipt_present, 2)
           c == BlockElement(m.openings_present, 3)
           x == DispatchesElement(m.dispatches)
           y == BlockElement(m.return_receipt_present, 5)
           q1 == p + Len(a)
           q2 == q1 + Len(b)
           q3 == q2 + Len(c)
           q4 == q3 + Len(x)
           q5 == q4 + Len(y)
<1>1. Balanced(a) /\ Balanced(b) /\ Balanced(c) /\ Balanced(x) /\ Balanced(y)
    BY InnerFragments DEF Fragment
<1>2. s = a \o b \o c \o x \o y
    BY DEF RootInner
<1>3. /\ In(d, t, o, p, a) /\ In(d, t, o, q1, b) /\ In(d, t, o, q2, c) /\ In(d, t, o, q3, x)
      /\ In(d, t, o, q4, y) /\ q5 = p + Len(s)
    <2>1. /\ q1 = p + Len(a) /\ q2 = q1 + Len(b) /\ q3 = q2 + Len(c) /\ q4 = q3 + Len(x) /\ q5 = q4 + Len(y)
        OBVIOUS
    <2>2. InFive(d, t, o, p, s, a, b, c, x, y, q1, q2, q3, q4, q5)
        <3> HIDE DEF a, b, c, x, y, q1, q2, q3, q4, q5
        <3> QED BY <1>1, <1>2, <2>1 DEF InFive
    <2> HIDE DEF a, b, c, x, y, q1, q2, q3, q4, q5
    <2> QED BY <2>2, FiveParts
<1>4. p \in Nat /\ d \in Seq(Event) /\ t = Tree(d) /\ p + Len(s) <= Len(d)
    BY InIs
<1>5. /\ RegionRead(t, p, q1, {1}, {"leaf"}) /\ q1 \in Nat /\ p < q1
      /\ p + 1 \in 1 .. Len(d) /\ IsOpen(d[p + 1]) /\ t.part[p + 1] = "FEJRESZ" /\ t.parent[p + 1] = o
      /\ HeaderAt(t, p + 1) = HeaderAgain(m.header)
    <2> DEFINE h == m.header
    <2>1. h \in Header /\ TidyHeader(h) /\ In(d, t, o, p, HeaderElement(h)) /\ q1 = p + Len(HeaderElement(h))
        BY <1>3 DEF TidyMetadata
    <2> HIDE DEF h, q1
    <2>2. /\ RegionRead(t, p, q1, {1}, {"leaf"}) /\ q1 \in Nat /\ p < q1
          /\ p + 1 \in 1 .. Len(d) /\ IsOpen(d[p + 1]) /\ t.part[p + 1] = "FEJRESZ" /\ t.parent[p + 1] = o
          /\ HeaderAt(t, p + 1) = HeaderAgain(h)
        BY <2>1, HeaderStands
    <2> QED BY <2>2 DEF h
<1>6. RegionRead(t, q1, q2, BlocksOf(m.receipt_present, 2), {}) /\ q2 \in Nat /\ q1 <= q2
    <2> DEFINE k == 2
               present == m.receipt_present
    <2>1. k \in {2, 3, 5} /\ In(d, t, o, q1, BlockElement(present, k)) /\ q2 = q1 + Len(BlockElement(present, k))
        BY <1>3
    <2> HIDE DEF k, present, q1, q2
    <2>2. RegionRead(t, q1, q2, BlocksOf(present, k), {}) /\ q2 \in Nat /\ q1 <= q2
        BY <2>1, BlockStands
    <2> QED BY <2>2 DEF k, present
<1>7. RegionRead(t, q2, q3, BlocksOf(m.openings_present, 3), {}) /\ q3 \in Nat /\ q2 <= q3
    <2> DEFINE k == 3
               present == m.openings_present
    <2>1. k \in {2, 3, 5} /\ In(d, t, o, q2, BlockElement(present, k)) /\ q3 = q2 + Len(BlockElement(present, k))
        BY <1>3
    <2> HIDE DEF k, present, q2, q3
    <2>2. RegionRead(t, q2, q3, BlocksOf(present, k), {}) /\ q3 \in Nat /\ q2 <= q3
        BY <2>1, BlockStands
    <2> QED BY <2>2 DEF k, present
<1>8. /\ RegionRead(t, q3, q4, BlocksOf(m.dispatches # <<>>, 4), Inner) /\ q4 \in Nat /\ q3 <= q4
      /\ DispatchOnly(t, q3, q4, m.dispatches)
    <2> DEFINE ds == m.dispatches
    <2>1. /\ ds = <<>> \/ \E D : Only(ds, D) /\ TidyDispatch(D)
          /\ In(d, t, o, q3, DispatchesElement(ds)) /\ q4 = q3 + Len(DispatchesElement(ds))
        BY <1>3 DEF TidyMetadata
    <2> HIDE DEF ds, q3, q4
    <2>2. /\ RegionRead(t, q3, q4, BlocksOf(ds # <<>>, 4), Inner) /\ q4 \in Nat /\ q3 <= q4
          /\ DispatchOnly(t, q3, q4, ds)
        BY <2>1, DispatchesWritten
    <2> QED BY <2>2 DEF ds
<1>9. RegionRead(t, q4, q5, BlocksOf(m.return_receipt_present, 5), {}) /\ q5 \in Nat /\ q4 <= q5
    <2> DEFINE k == 5
               present == m.return_receipt_present
    <2>1. k \in {2, 3, 5} /\ In(d, t, o, q4, BlockElement(present, k)) /\ q5 = q4 + Len(BlockElement(present, k))
        BY <1>3
    <2> HIDE DEF k, present, q4, q5
    <2>2. RegionRead(t, q4, q5, BlocksOf(present, k), {}) /\ q5 \in Nat /\ q4 <= q5
        BY <2>1, BlockStands
    <2> QED BY <2>2 DEF k, present
<1>10. n = q5 /\ q5 <= Len(d)
    BY <1>3, <1>4
<1> DEFINE k1 == {1}
           k2 == BlocksOf(m.receipt_present, 2)
           k3 == BlocksOf(m.openings_present, 3)
           k4 == BlocksOf(m.dispatches # <<>>, 4)
           k5 == BlocksOf(m.return_receipt_present, 5)
           l == {"leaf"}
           z == {}
           k12 == k1 \cup k2
           k123 == k12 \cup k3
           k1234 == k123 \cup k4
           all == k1234 \cup k5
           lz == l \cup z
           lzz == lz \cup z
           lzzi == lzz \cup Inner
           lzziz == lzzi \cup z
<1>11. /\ \A k \in k1, e \in k2 : k < e
       /\ \A k \in k12, e \in k3 : k < e
       /\ \A k \in k123, e \in k4 : k < e
       /\ \A k \in k1234, e \in k5 : k < e
    <2>1. k1 = {1} /\ k2 \subseteq {2} /\ k3 \subseteq {3} /\ k4 \subseteq {4} /\ k5 \subseteq {5}
        BY DEF BlocksOf
    <2> HIDE DEF k1, k2, k3, k4, k5
    <2>2. \A k \in k1, e \in k2 : k < e
        <3> TAKE k \in k1, e \in k2
        <3>1. k = 1 /\ e = 2
            BY <2>1
        <3> QED BY <3>1
    <2>3. \A k \in k12, e \in k3 : k < e
        BY <2>1
    <2>4. \A k \in k123, e \in k4 : k < e
        BY <2>1
    <2>5. \A k \in k1234, e \in k5 : k < e
        BY <2>1
    <2> QED BY <2>2, <2>3, <2>4, <2>5
<1>12. /\ BlocksIn(m) = all /\ lzziz = Inner
    BY InnerIs DEF BlocksIn
<1>13. /\ RegionRead(t, p, q1, k1, l) /\ RegionRead(t, q1, q2, k2, z) /\ RegionRead(t, q2, q3, k3, z)
       /\ RegionRead(t, q3, q4, k4, Inner) /\ RegionRead(t, q4, q5, k5, z)
       /\ p \in Nat /\ q1 \in Nat /\ q2 \in Nat /\ q3 \in Nat /\ q4 \in Nat /\ q5 \in Nat
       /\ p < q1 /\ q1 <= q2 /\ q2 <= q3 /\ q3 <= q4 /\ q4 <= q5
    BY <1>4, <1>5, <1>6, <1>7, <1>8, <1>9
<1> HIDE DEF q1, q2, q3, q4, q5, k1, k2, k3, k4, k5, k12, k123, k1234, all, l, z, lz, lzz, lzzi, lzziz
<1>14. p <= q1 /\ p <= q2 /\ p <= q3 /\ p <= q4 /\ p <= q5 /\ p < q5
    BY <1>13
<1>15. RegionRead(t, p, q2, k12, lz)
    BY <1>11, <1>13, <1>14, RegionJoined DEF k12, lz
<1>16. RegionRead(t, p, q3, k123, lzz)
    BY <1>11, <1>13, <1>14, <1>15, RegionJoined DEF k123, lzz
<1>17. RegionRead(t, p, q4, k1234, lzzi)
    BY <1>11, <1>13, <1>14, <1>16, RegionJoined DEF k1234, lzzi
<1>18. RegionRead(t, p, q5, all, lzziz)
    BY <1>11, <1>13, <1>14, <1>17, RegionJoined DEF all, lzziz
<1>19. DispatchOnly(t, p, n, m.dispatches)
    <2> DEFINE part == "EXPEDIALAS"
    <2>1. part \notin Range(Blocks) /\ part # "none" /\ part \notin lzz /\ part \notin z
        BY BlockNames DEF lzz, lz, l, z
    <2>2. q3 <= Len(d) /\ q4 <= Len(d)
        <3>1. Len(d) \in Nat
            BY <1>4
        <3> QED BY <1>10, <1>13, <3>1
    <2>3. \A j \in p + 1 .. q3 : t.part[j] # part
        <3> HIDE DEF part
        <3> QED BY <1>4, <1>13, <1>16, <2>1, <2>2, NoneOfRegion
    <2>4. \A j \in q4 + 1 .. q5 : t.part[j] # part
        <3> HIDE DEF part
        <3> QED BY <1>4, <1>10, <1>13, <2>1, <2>2, NoneOfRegion
    <2>5. \A j \in p + 1 .. n : t.part[j] = part => j \in q3 + 1 .. q4
        <3>1. \A j \in p + 1 .. n : j \in p + 1 .. q3 \/ j \in q3 + 1 .. q4 \/ j \in q4 + 1 .. q5
            BY <1>10, <1>13
        <3> QED BY <2>3, <2>4, <3>1
    <2>6. \A j \in q3 + 1 .. q4 : j \in p + 1 .. n
        BY <1>10, <1>13, <1>14
    <2>7. CASE m.dispatches = <<>>
        <3>1. \A j \in q3 + 1 .. q4 : t.part[j] # part
            BY <1>8, <2>7, Zenon DEF DispatchOnly
        <3>2. \A j \in p + 1 .. n : t.part[j] # part
            BY <2>5, <3>1
        <3> QED BY <2>7, <3>2, Zenon DEF DispatchOnly
    <2>8. CASE m.dispatches # <<>>
        <3>1. PICK D, e : /\ Only(m.dispatches, D) /\ TidyDispatch(D)
                    /\ e \in q3 + 1 .. q4 /\ t.part[e] = "EXPEDIALAS" /\ IsOpen(t.event[e])
                    /\ \A j \in q3 + 1 .. q4 : t.part[j] = "EXPEDIALAS" => j = e
                    /\ DispatchAt(t, e) = DispatchAgain(D)
            BY <1>8, <2>8, Zenon DEF DispatchOnly
        <3>2. e \in p + 1 .. n /\ \A j \in p + 1 .. n : t.part[j] = "EXPEDIALAS" => j = e
            BY <2>5, <2>6, <3>1
        <3> QED BY <2>8, <3>1, <3>2, Zenon DEF DispatchOnly
    <2> QED BY <2>7, <2>8
<1> QED BY <1>5, <1>10, <1>12, <1>13, <1>14, <1>18, <1>19

\* A document that is written, and what it is to the reader.
WrittenOf(m, d, t, n) ==
    /\ d \in Seq(Event) /\ t = Tree(d) /\ n \in Nat /\ Len(d) = n + 1 /\ n >= 3
    /\ d[1] = Declaration /\ d[2] = RootStart /\ t.close[2] = n + 1 /\ d[n + 1].kind = "end"
    /\ t.parent[2] = 0 /\ t.part[2] = "KULDEMENY"
    /\ \A k \in 1 .. n + 1 : IsWritten(d[k])
    /\ RegionRead(t, 2, n, BlocksIn(m), Inner)
    /\ IsOpen(d[3]) /\ t.part[3] = "FEJRESZ" /\ t.parent[3] = 2 /\ HeaderAt(t, 3) = HeaderAgain(m.header)
    /\ DispatchOnly(t, 2, n, m.dispatches)

LEMMA WrittenIs ==
    ASSUME NEW m, TidyMetadata(m), NEW d, d = Serialised(m), NEW t, t = Tree(d)
    PROVE  \E n : WrittenOf(m, d, t, n)
<1> DEFINE s == RootInner(m)
           o == 2
           n == o + Len(s)
<1>1. /\ d \in Seq(Event) /\ Len(d) = Len(s) + 3 /\ Len(s) \in Nat
      /\ d[1] = Declaration /\ d[2] = RootStart /\ t.close[2] = Len(d) /\ d[Len(d)].kind = "end"
      /\ In(d, t, 2, 2, s) /\ t.parent[2] = 0 /\ t.part[2] = "KULDEMENY"
      /\ \A k \in 1 .. Len(d) : IsWritten(d[k])
    BY RootStands
<1>2. s = RootInner(m) /\ In(d, t, o, o, s) /\ t.part[o] = "KULDEMENY" /\ n = o + Len(s)
    BY <1>1
<1> HIDE DEF s, o, n
<1>3. /\ RegionRead(t, o, n, BlocksIn(m), Inner) /\ n \in Nat /\ o < n
      /\ o + 1 \in 1 .. Len(d) /\ IsOpen(d[o + 1]) /\ t.part[o + 1] = "FEJRESZ" /\ t.parent[o + 1] = o
      /\ HeaderAt(t, o + 1) = HeaderAgain(m.header)
      /\ DispatchOnly(t, o, n, m.dispatches)
    BY <1>2, InnerRead
<1>4. o + 1 = 3 /\ o = 2 /\ n + 1 = Len(d)
    BY <1>1 DEF o, n
<1>5. n >= 3
    BY <1>3, <1>4
<1>6. WrittenOf(m, d, t, n)
    <2>1. /\ t.close[2] = n + 1 /\ d[n + 1].kind = "end" /\ \A k \in 1 .. n + 1 : IsWritten(d[k])
        BY <1>1, <1>4
    <2>2. /\ RegionRead(t, 2, n, BlocksIn(m), Inner) /\ n \in Nat
          /\ IsOpen(d[3]) /\ t.part[3] = "FEJRESZ" /\ t.parent[3] = 2 /\ HeaderAt(t, 3) = HeaderAgain(m.header)
          /\ DispatchOnly(t, 2, n, m.dispatches)
        BY <1>3, <1>4
    <2> QED BY <1>1, <1>4, <1>5, <2>1, <2>2, Zenon DEF WrittenOf
<1> QED BY <1>6

\* Where its elements are.
LEMMA OpenWhere ==
    ASSUME NEW m, NEW d, NEW t, NEW n, WrittenOf(m, d, t, n), NEW i \in 1 .. n + 1
    PROVE  /\ t.event = d /\ DOMAIN t.part = 1 .. n + 1
           /\ t.part[i] # "none" <=> IsOpen(d[i])
           /\ IsOpen(d[i]) => i = 2 \/ i \in 3 .. n
           /\ i \in 3 .. n /\ IsOpen(d[i]) => Sound(t, i) /\ (t.part[i] \in Inner \/ t.part[i] \in Range(Blocks))
           /\ t.part[i] = "KULDEMENY" <=> i = 2
<1>1. /\ d \in Seq(Event) /\ t = Tree(d) /\ n \in Nat /\ Len(d) = n + 1 /\ n >= 3
      /\ d[1] = Declaration /\ d[n + 1].kind = "end" /\ t.part[2] = "KULDEMENY"
      /\ RegionRead(t, 2, n, BlocksIn(m), Inner)
    BY Zenon DEF WrittenOf
<1>2. t.event = d
    BY <1>1, TreeIs
<1>3. DOMAIN t.part = 1 .. n + 1 /\ (t.part[i] # "none" <=> IsOpen(d[i]))
    BY <1>1, PartMeans
<1>4. ~IsOpen(d[1]) /\ ~IsOpen(d[n + 1])
    BY <1>1 DEF IsOpen, Declaration
<1>5. IsOpen(d[i]) => i = 2 \/ i \in 3 .. n
    <2>1. i = 1 \/ i = n + 1 \/ i = 2 \/ i \in 3 .. n
        BY <1>1
    <2> QED BY <1>4, <2>1
<1>6. i \in 3 .. n /\ IsOpen(d[i]) => Sound(t, i) /\ (t.part[i] \in Inner \/ t.part[i] \in Range(Blocks))
    <2>1. i \in 3 .. n => i \in 2 + 1 .. n
        OBVIOUS
    <2> QED BY <1>1, <1>2, <2>1 DEF RegionRead
<1>7. "KULDEMENY" \notin Inner /\ "KULDEMENY" \notin Range(Blocks) /\ "KULDEMENY" # "none"
    BY BlockNames DEF Inner
<1>8. t.part[i] = "KULDEMENY" <=> i = 2
    <2>1. t.part[i] = "KULDEMENY" => IsOpen(d[i])
        BY <1>3, <1>7
    <2> QED BY <1>1, <1>5, <1>6, <1>7, <2>1
<1> QED BY <1>2, <1>3, <1>5, <1>6, <1>8

\* A block is behind those that are before it in the grammar.
LEMMA WrittenInPlace ==
    ASSUME NEW m, NEW d, NEW t, NEW n, WrittenOf(m, d, t, n), NEW i \in 1 .. n + 1, IsOpen(d[i])
    PROVE  PlaceFaults(t, i) = {}
<1>1. /\ d \in Seq(Event) /\ t = Tree(d) /\ n \in Nat /\ Len(d) = n + 1 /\ n >= 3
      /\ d[2] = RootStart /\ t.parent[2] = 0 /\ RegionRead(t, 2, n, BlocksIn(m), Inner)
    BY Zenon DEF WrittenOf
<1>2. t.event = d /\ (i = 2 \/ i \in 3 .. n)
    BY OpenWhere
<1>3. CASE i = 2
    <2> DEFINE p == t.parent[i]
               k == i
    <2>1. k \in Nat /\ p = 0 /\ p = t.parent[k] /\ t.event[k].binding = "target" /\ t.event[k].name = "KULDEMENY"
        BY <1>1, <1>2, <1>3 DEF RootStart
    <2> HIDE DEF p, k
    <2>2. PlaceFaults(t, k) = {}
        BY <2>1, PlaceFaultsAre
    <2> QED BY <2>2 DEF k
<1>4. CASE i \in 3 .. n
    <2>1. Sound(t, i)
        BY <1>4, OpenWhere
    <2>2. CASE t.part[i] \notin Range(Blocks)
        BY <2>1, <2>2 DEF Sound
    <2>3. CASE t.part[i] \in Range(Blocks)
        <3>1. t.parent[i] # 0 /\ t.part[t.parent[i]] = "KULDEMENY"
            BY <1>1, <2>3, PartMeans
        <3>2. \A j \in 1 .. i - 1 : t.part[j] \in Range(Blocks) => Place(t.part[j]) < Place(t.part[i])
            <4> SUFFICES ASSUME NEW j \in 1 .. i - 1, t.part[j] \in Range(Blocks)
                         PROVE  Place(t.part[j]) < Place(t.part[i])
                OBVIOUS
            <4>1. j \in 1 .. n + 1 /\ i \in Nat /\ j < i
                BY <1>1, <1>4
            <4>2. t.part[j] # "none" /\ t.part[j] # "KULDEMENY"
                BY BlockNames
            <4>3. IsOpen(d[j]) /\ j \in 3 .. n
                BY <4>1, <4>2, OpenWhere
            <4>4. IsBlock(t, j) /\ IsBlock(t, i) /\ i \in 2 + 1 .. n /\ j \in 2 + 1 .. n
                BY <1>2, <1>4, <2>3, <4>3 DEF IsBlock
            <4>5. \A a, b \in 2 + 1 .. n : IsBlock(t, a) /\ IsBlock(t, b) /\ a < b => Place(t.part[a]) < Place(t.part[b])
                BY <1>1 DEF RegionRead
            <4> QED BY <4>1, <4>4, <4>5
        <3>3. \A part \in Range(Blocks) : Place(part) \in Nat
            <4> SUFFICES ASSUME NEW part \in Range(Blocks) PROVE Place(part) \in Nat
                OBVIOUS
            <4>1. DOMAIN Blocks = 1 .. 5
                BY BlockNames
            <4>2. PICK k \in DOMAIN Blocks : Blocks[k] = part
                BY DEF Range
            <4> QED BY <4>1, <4>2, PlaceIs
        <3>4. Twins(t, i) = {}
            <4> SUFFICES ASSUME NEW j \in Twins(t, i) PROVE FALSE
                OBVIOUS
            <4>1. j \in 1 .. i - 1 /\ t.part[j] = t.part[i]
                BY DEF Twins
            <4>2. Place(t.part[i]) < Place(t.part[i])
                BY <2>3, <3>2, <4>1
            <4> QED BY <2>3, <3>3, <4>2
        <3>5. ~Late(t, i)
            <4> SUFFICES ASSUME Late(t, i) PROVE FALSE
                OBVIOUS
            <4>1. PICK j \in 1 .. i - 1 : t.part[j] \in Range(Blocks) /\ Place(t.part[j]) > Place(t.part[i])
                BY DEF Late
            <4>2. Place(t.part[j]) < Place(t.part[i])
                BY <3>2, <4>1
            <4> DEFINE a == Place(t.part[i])
                       b == Place(t.part[j])
            <4>3. a \in Nat /\ b \in Nat /\ a > b /\ b > a
                BY <2>3, <3>3, <4>1, <4>2
            <4> HIDE DEF a, b
            <4> QED BY <4>3
        <3> DEFINE p == t.parent[i]
        <3>6. i \in Nat /\ p = t.parent[i] /\ p # 0 /\ t.part[p] # "leaf" /\ t.part[i] \in Range(Blocks) \cup {"MELLEKLETEK"}
            BY <1>4, <2>3, <3>1
        <3> HIDE DEF p
        <3>7. PlaceFaults(t, i) = IF Twins(t, i) # {} THEN {"malformed.duplicate_element"}
                    ELSE IF t.part[i] \in Range(Blocks) /\ Late(t, i) THEN {"malformed.element_order"}
                         ELSE {}
            BY <3>6, PlaceFaultsAre
        <3> QED BY <3>4, <3>5, <3>7
    <2> QED BY <2>2, <2>3
<1> QED BY <1>2, <1>3, <1>4

\* What shows at the end of an element.
LEMMA WrittenValues ==
    ASSUME NEW m, NEW d, NEW t, NEW n, WrittenOf(m, d, t, n), NEW i \in 1 .. n + 1, IsOpen(d[i])
    PROVE  ValueFaults(t, i) = {}
<1>1. /\ d \in Seq(Event) /\ t = Tree(d) /\ n \in Nat /\ Len(d) = n + 1 /\ n >= 3 /\ t.close[2] = n + 1
      /\ IsOpen(d[3]) /\ t.part[3] = "FEJRESZ" /\ t.parent[3] = 2 /\ t.part[2] = "KULDEMENY"
    BY Zenon DEF WrittenOf
<1>2. t.event = d /\ DOMAIN t.part = 1 .. n + 1 /\ (i = 2 \/ i \in 3 .. n)
    BY OpenWhere
<1>3. CASE i = 2
    <2>1. 3 \in 2 + 1 .. t.close[2] - 1 /\ 3 \in 1 .. n + 1
        BY <1>1
    <2>2. 3 \in Children(t, 2) /\ 3 \in At(t, "FEJRESZ")
        BY <1>1, <1>2, <2>1 DEF Children, At
    <2>3. Children(t, 2) \cap At(t, "FEJRESZ") # {}
        BY <2>2
    <2> DEFINE k == 2
    <2>4. t.part[k] = "KULDEMENY" /\ Children(t, k) \cap At(t, "FEJRESZ") # {}
        BY <1>1, <2>3
    <2> HIDE DEF k
    <2>5. ValueFaults(t, k) = {}
        BY <2>4, ValueFaultsAre
    <2> QED BY <1>3, <2>5 DEF k
<1>4. CASE i \in 3 .. n
    BY <1>4, OpenWhere DEF Sound
<1> QED BY <1>2, <1>3, <1>4

LEMMA InstructionsIn ==
    ASSUME NEW q, NEW e, Part(q, e) = "instructions"
    PROVE  q = "EXPEDIALAS"
<1>1. q \in DOMAIN Grammar
    BY DEF Part
<1>2. CASE e.binding # "target"
    <2>1. Part(q, e) = IF q = "EXPEDIALAS" /\ e.binding = "unbound" /\ e.name = "KEZELESI_UTASITASOK"
                       THEN "instructions" ELSE "unknown"
        BY <1>1, <1>2, Meanings
    <2> QED BY <2>1
<1>3. CASE e.binding = "target"
    <2>1. "instructions" \notin Range(Blocks)
        BY BlockNames
    <2>2. Part(q, e) # "instructions"
        BY <1>1, <1>3, <2>1, Meanings
    <2> QED BY <2>2
<1> QED BY <1>2, <1>3

\* How deep the elements of a document are, by what they are.
LEMMA WrittenDepth ==
    ASSUME NEW m, NEW d, NEW t, NEW n, WrittenOf(m, d, t, n), NEW i \in 1 .. n + 1, IsOpen(d[i])
    PROVE  t.level[i] <= 5 /\ t.level[i] \in Int
<1>1. /\ d \in Seq(Event) /\ t = Tree(d) /\ n \in Nat /\ Len(d) = n + 1 /\ n >= 3
      /\ d[1] = Declaration /\ t.parent[2] = 0
    BY Zenon DEF WrittenOf
<1> DEFINE L(j) == Level(d, j)
           P(j) == t.parent[j]
<1>2. L(2) = 0
    <2> DEFINE k == 1
    <2>1. L(k) = 0 /\ k \in Nat \ {0} /\ d[k].kind = "declaration"
        BY <1>1, LevelStart DEF Declaration
    <2>2. L(k + 1) = L(k) + (IF d[k].kind = "start" THEN 1 ELSE IF d[k].kind = "end" THEN -1 ELSE 0)
        BY <2>1, LevelStep
    <2>3. L(k + 1) = 0
        BY <2>1, <2>2
    <2> QED BY <2>3
<1>3. \A j \in 1 .. n + 1 : P(j) # 0 => P(j) \in 1 .. n + 1 /\ L(j) = L(P(j)) + 1 /\ L(j) \in Int
    <2> SUFFICES ASSUME NEW j \in 1 .. n + 1, P(j) # 0
                 PROVE  P(j) \in 1 .. n + 1 /\ L(j) = L(P(j)) + 1 /\ L(j) \in Int
        OBVIOUS
    <2>1. P(j) = Above(d, j, Level(d, j)) /\ P(j) \in 0 .. j - 1
        BY <1>1, ParentIs
    <2>2. j \in Nat \ {0}
        OBVIOUS
    <2>3. Above(d, j, Level(d, j)) \in Starts(d, j, Level(d, j)) \cup {0}
        BY <2>2, AboveIs
    <2>4. P(j) \in Starts(d, j, Level(d, j))
        BY <2>1, <2>3
    <2>5. L(P(j)) = L(j) - 1
        BY <2>4 DEF Starts
    <2>6. L(j) \in Int
        BY <2>2, LevelStep
    <2>7. P(j) \in 1 .. n + 1
        <3> DEFINE k == P(j)
        <3>1. k \in 0 .. j - 1 /\ k # 0
            BY <2>1
        <3> HIDE DEF k
        <3>2. k \in 1 .. n + 1
            BY <1>1, <2>2, <3>1
        <3> QED BY <3>2 DEF k
    <2> HIDE DEF L, P
    <2> QED BY <2>5, <2>6, <2>7
<1> DEFINE X(j) == t.part[j]
<1>4. \A j \in 1 .. n + 1 : X(j) = "KULDEMENY" => L(j) = 0
    BY <1>2, OpenWhere
<1>5. \A j \in 1 .. n + 1 : X(j) \in Range(Blocks) => P(j) # 0 /\ X(P(j)) = "KULDEMENY"
    BY <1>1, PartMeans
<1>6. \A j \in 1 .. n + 1 : X(j) = "EXPEDIALAS" => P(j) # 0 /\ X(P(j)) \in Range(Blocks)
    <2>1. "EXPEDIALASOK" \in Range(Blocks)
        BY BlockNames
    <2> QED BY <1>1, <2>1, PartMeans
<1>7. \A j \in 1 .. n + 1 : X(j) = "MELLEKLETEK" => P(j) # 0 /\ X(P(j)) = "EXPEDIALAS"
    BY <1>1, PartMeans
<1>8. \A j \in 1 .. n + 1 : X(j) = "MELLEKLET" => P(j) # 0 /\ X(P(j)) = "MELLEKLETEK"
    BY <1>1, PartMeans
<1>9. \A j \in 1 .. n + 1 : X(j) = "leaf" =>
        P(j) # 0 /\ (X(P(j)) \in Range(Blocks) \/ X(P(j)) = "MELLEKLET" \/ X(P(j)) = "EXPEDIALAS")
    <2>1. "FEJRESZ" \in Range(Blocks)
        BY BlockNames
    <2> QED BY <1>1, <2>1, PartMeans
<1>10. \A j \in 1 .. n + 1 : X(j) = "instructions" => P(j) # 0 /\ X(P(j)) = "EXPEDIALAS"
    <2> SUFFICES ASSUME NEW j \in 1 .. n + 1, X(j) = "instructions" PROVE P(j) # 0 /\ X(P(j)) = "EXPEDIALAS"
        OBVIOUS
    <2>1. X(j) = IF ~IsOpen(d[j]) THEN "none" ELSE IF t.parent[j] = 0 THEN "KULDEMENY"
                 ELSE Part(t.part[t.parent[j]], d[j])
        BY <1>1, PartIs
    <2>2. P(j) # 0 /\ Part(X(P(j)), d[j]) = "instructions"
        BY <2>1
    <2> QED BY <2>2, InstructionsIn
<1>11. X(i) = "KULDEMENY" \/ X(i) \in Range(Blocks) \/ X(i) = "EXPEDIALAS" \/ X(i) = "MELLEKLETEK"
       \/ X(i) = "MELLEKLET" \/ X(i) = "leaf" \/ X(i) = "instructions"
    <2>1. i = 2 \/ t.part[i] \in Inner \/ t.part[i] \in Range(Blocks)
        BY OpenWhere
    <2>2. i = 2 => X(i) = "KULDEMENY"
        BY OpenWhere
    <2> QED BY <2>1, <2>2 DEF Inner
<1>12. t.level[i] = L(i)
    BY <1>1, LevelsAre
<1> HIDE DEF L, P, X
<1>13. \A j \in 1 .. n + 1 : X(j) \in Range(Blocks) => L(j) = 1
    BY <1>3, <1>4, <1>5
<1>14. \A j \in 1 .. n + 1 : X(j) = "EXPEDIALAS" => L(j) = 2
    BY <1>3, <1>6, <1>13
<1>15. \A j \in 1 .. n + 1 : X(j) = "MELLEKLETEK" => L(j) = 3
    BY <1>3, <1>7, <1>14
<1>16. \A j \in 1 .. n + 1 : X(j) = "MELLEKLET" => L(j) = 4
    BY <1>3, <1>8, <1>15
<1>17. \A j \in 1 .. n + 1 : X(j) = "instructions" => L(j) = 3
    BY <1>3, <1>10, <1>14
<1>18. \A j \in 1 .. n + 1 : X(j) = "leaf" => L(j) = 2 \/ L(j) = 5 \/ L(j) = 3
    <2> SUFFICES ASSUME NEW j \in 1 .. n + 1, X(j) = "leaf" PROVE L(j) = 2 \/ L(j) = 5 \/ L(j) = 3
        OBVIOUS
    <2>1. P(j) \in 1 .. n + 1 /\ L(j) = L(P(j)) + 1
        BY <1>3, <1>9
    <2>2. L(P(j)) = 1 \/ L(P(j)) = 4 \/ L(P(j)) = 2
        BY <1>9, <1>13, <1>14, <1>16, <2>1
    <2> QED BY <2>1, <2>2
<1>19. L(i) = 0 \/ L(i) = 1 \/ L(i) = 2 \/ L(i) = 3 \/ L(i) = 4 \/ L(i) = 5
    BY <1>4, <1>11, <1>13, <1>14, <1>15, <1>16, <1>17, <1>18
<1> QED BY <1>12, <1>19

\* No event is a fault, but for what there is too much of.
LEMMA WrittenEvents ==
    ASSUME NEW m, NEW d, NEW t, NEW n, WrittenOf(m, d, t, n), NEW i \in 1 .. n + 1
    PROVE  EventFaults(t, i) \subseteq TooLarge
<1>1. IsWritten(d[i])
    BY DEF WrittenOf
<1>2. t.event = d
    BY OpenWhere
<1> DEFINE e == d[i]
<1>3. CASE IsOpen(e)
    <2>1. EventFaults(t, i) = OpenFaults(t, i)
        BY <1>2, <1>3, OpenEventFaults
    <2>2. /\ e.binding \in {"target", "unbound"}
          /\ e.attributes = <<>> \/ e.attributes = <<[raw |-> 1, value |-> 1]>>
        BY <1>1, <1>3 DEF IsWritten, IsOpen
    <2>3. /\ Len(e.attributes) \in {0, 1} /\ DOMAIN e.attributes = 1 .. Len(e.attributes)
          /\ \A k \in DOMAIN e.attributes : e.attributes[k].raw = 1 /\ e.attributes[k].value = 1
        <3>1. CASE e.attributes = <<>>
            BY <3>1
        <3>2. CASE e.attributes = <<[raw |-> 1, value |-> 1]>>
            <4> DEFINE x == [raw |-> 1, value |-> 1]
                       y == <<x>>
            <4>1. x.raw = 1 /\ x.value = 1
                OBVIOUS
            <4> HIDE DEF x
            <4>2. Len(y) = 1 /\ DOMAIN y = 1 .. 1 /\ y[1] = x
                OBVIOUS
            <4>3. \A k \in DOMAIN y : k = 1
                BY <4>2
            <4>4. e.attributes = y
                BY <3>2 DEF x
            <4> HIDE DEF y
            <4>5. Len(y) \in {0, 1} /\ DOMAIN y = 1 .. Len(y) /\ \A k \in DOMAIN y : y[k].raw = 1 /\ y[k].value = 1
                BY <4>1, <4>2, <4>3
            <4> QED BY <4>4, <4>5
        <3> QED BY <2>2, <3>1, <3>2
    <2>4. "malformed.unbound_prefix" \notin OpenFaults(t, i)
        BY <1>2, <2>2, OpenFaultsAre
    <2>5. "over_limit.depth" \notin OpenFaults(t, i)
        <3>1. t.level[i] <= 5 /\ t.level[i] \in Int
            BY <1>3, WrittenDepth
        <3>2. MaxDepth \in Nat /\ MaxDepth >= 6
            BY LimitsAssumption, RoomAssumption
        <3>3. ~(t.level[i] + 1 > MaxDepth)
            BY <3>1, <3>2
        <3> QED BY <3>3, OpenFaultsAre
    <2>6. "over_limit.attributes_per_element" \notin OpenFaults(t, i)
        <3>1. MaxAttributes \in Nat /\ MaxAttributes >= 1
            BY LimitsAssumption, RoomAssumption
        <3>2. ~(Len(t.event[i].attributes) > MaxAttributes)
            <4> DEFINE l == Len(e.attributes)
            <4>1. l \in {0, 1}
                BY <2>3
            <4> HIDE DEF l
            <4>2. ~(l > MaxAttributes)
                BY <3>1, <4>1
            <4> QED BY <1>2, <4>2 DEF l
        <3> QED BY <3>2, OpenFaultsAre
    <2>7. "malformed.entity" \notin OpenFaults(t, i)
        <3>1. ~\E k \in DOMAIN t.event[i].attributes : t.event[i].attributes[k].value < 0
            BY <1>2, <2>3
        <3> QED BY <3>1, OpenFaultsAre
    <2>8. "malformed.attribute" \notin OpenFaults(t, i)
        <3> DEFINE l == Len(e.attributes)
                   b == Min({l, MaxAttributes + 1})
        <3>1. l \in Nat /\ MaxAttributes + 1 \in Nat
            BY <2>3, LimitsAssumption
        <3>2. b \in Nat /\ b <= l
            <4> HIDE DEF l
            <4> QED BY <3>1, SmallerOf
        <3>3. \A k \in 1 .. b : ~(e.attributes[k].raw < 0)
            <4> HIDE DEF b
            <4>1. \A k \in 1 .. b : k \in DOMAIN e.attributes
                BY <2>3, <3>1, <3>2
            <4> QED BY <2>3, <4>1
        <3>4. ~\E k \in 1 .. Min({Len(t.event[i].attributes), MaxAttributes + 1}) :
                    t.event[i].attributes[k].raw < 0
            BY <1>2, <3>3
        <3> QED BY <3>4, OpenFaultsAre
    <2>9. OpenFaults(t, i) \subseteq
                {"malformed.unbound_prefix", "over_limit.elements", "over_limit.depth",
                 "malformed.attribute", "over_limit.attributes_per_element",
                 "malformed.entity", "over_limit.text_bytes"}
        BY OpenFaultsAre
    <2> QED BY <2>1, <2>4, <2>5, <2>6, <2>7, <2>8, <2>9 DEF TooLarge
<1>4. CASE ~IsOpen(e)
    <2>1. \/ e.kind = "end" \/ (e.kind = "text" /\ e.raw = 1 /\ Len(e.pieces) = 1)
          \/ (e.kind = "reference" /\ Len(e.pieces) = 1) \/ (e.kind = "declaration" /\ e.encoding = "utf8")
        BY <1>1, <1>4 DEF IsWritten, IsOpen
    <2>2. e.kind = "reference" /\ Len(e.pieces) = 1 => e.pieces # <<>>
        <3> DEFINE x == e.pieces
        <3>1. \A y : y = <<>> => Len(y) = 0
            OBVIOUS
        <3> HIDE DEF x
        <3>2. Len(x) = 1 => x # <<>>
            BY <3>1
        <3> QED BY <3>2 DEF x
    <2>3. "over_limit.text_bytes" \in TooLarge
        BY DEF TooLarge
    <2>4. CASE e.kind \in {"end", "declaration"}
        <3>1. EventFaults(t, i) = {}
            <4>1. t.event[i] = e /\ ~IsOpen(e) /\ ~IsText(e) /\ (e.kind = "end" \/ (e.kind = "declaration" /\ e.encoding = "utf8"))
                BY <1>2, <1>4, <2>1, <2>4 DEF IsText
            <4> HIDE DEF e
            <4> QED BY <4>1 DEF EventFaults
        <3> QED BY <3>1
    <2>5. CASE e.kind \in {"text", "reference"}
        <3>1. t.event[i] = e /\ ~IsOpen(e) /\ IsText(e) /\ ~(e.kind = "reference" /\ e.pieces = <<>>)
              /\ e.kind \notin {"doctype", "instruction", "declaration", "broken"}
            BY <1>2, <1>4, <2>1, <2>2, <2>5 DEF IsText
        <3> HIDE DEF e
        <3>2. EventFaults(t, i) \subseteq {"over_limit.text_bytes"}
            BY <3>1 DEF EventFaults
        <3> QED BY <2>3, <3>2
    <2> QED BY <2>1, <2>4, <2>5
<1> QED BY <1>3, <1>4

\* Nor is anything else of it.
LEMMA WrittenFaults ==
    ASSUME NEW m, NEW d, NEW t, NEW n, WrittenOf(m, d, t, n)
    PROVE  Faults(t) \subseteq TooLarge /\ Read(t) = t
<1>1. /\ d \in Seq(Event) /\ t = Tree(d) /\ n \in Nat /\ Len(d) = n + 1 /\ n >= 3
      /\ d[1] = Declaration /\ d[2] = RootStart /\ t.close[2] = n + 1
    BY Zenon DEF WrittenOf
<1>2. t.event = d /\ DOMAIN d = 1 .. n + 1
    BY <1>1, TreeIs
<1>3. ASSUME NEW i \in 1 .. n + 1 PROVE FaultsAt(t, i) \subseteq TooLarge
    <2>1. EventFaults(t, i) \subseteq TooLarge
        BY WrittenEvents
    <2>2. IsOpen(t.event[i]) => PlaceFaults(t, i) = {}
        BY <1>2, WrittenInPlace
    <2>3. \A j \in {j \in 1 .. i : IsOpen(t.event[j]) /\ t.close[j] = i} : ValueFaults(t, j) = {}
        <3> SUFFICES ASSUME NEW j \in 1 .. i, IsOpen(t.event[j]) PROVE ValueFaults(t, j) = {}
            OBVIOUS
        <3>1. j \in 1 .. n + 1
            BY <1>1
        <3> QED BY <1>2, <3>1, WrittenValues
    <2> DEFINE S == {j \in 1 .. i : IsOpen(t.event[j]) /\ t.close[j] = i}
               V == UNION {ValueFaults(t, j) : j \in S}
               W == IF IsOpen(t.event[i]) THEN PlaceFaults(t, i) ELSE {}
    <2>4. V = {}
        <3>1. \A j \in S : ValueFaults(t, j) = {}
            BY <2>3
        <3> HIDE DEF S
        <3> QED BY <3>1
    <2>5. W = {}
        BY <2>2
    <2>6. FaultsAt(t, i) = (EventFaults(t, i) \cup W) \cup V
        BY DEF FaultsAt
    <2> HIDE DEF V, W
    <2> QED BY <2>1, <2>4, <2>5, <2>6
<1>4. ~IsOpen(d[1]) /\ IsOpen(d[2])
    BY <1>1 DEF IsOpen, Declaration, RootStart
<1>5. End(t) = n + 1 /\ Read(t) = t
    <2>1. Len(d) >= 3 /\ t.close[2] = Len(d)
        BY <1>1
    <2>2. End(t) = Len(d) /\ Read(t) = t
        BY <1>1, <1>4, <2>1, RootIsRead
    <2> QED BY <1>1, <2>2
<1> DEFINE F == {i \in DOMAIN t.event : FaultsAt(t, i) # {}}
<1>6. End(t) \in DOMAIN t.event
    BY <1>1, <1>2, <1>5
<1>7. CASE F = {}
    <2>1. Faults(t) = {}
        <3>1. {i \in DOMAIN t.event : FaultsAt(t, i) # {}} = {}
            BY <1>7
        <3> QED BY <1>6, <3>1, Zenon DEF Faults
    <2> QED BY <1>5, <2>1
<1>8. CASE F # {}
    <2>1. Faults(t) = FaultsAt(t, Min(F))
        BY <1>8, Zenon DEF Faults
    <2>2. F \subseteq 1 .. n + 1 /\ F \subseteq Nat
        BY <1>1, <1>2
    <2>3. Min(F) \in F
        <3> HIDE DEF F
        <3> QED BY <1>8, <2>2, MinIs
    <2> HIDE DEF F
    <2>4. Min(F) \in 1 .. n + 1
        BY <2>2, <2>3
    <2> QED BY <1>3, <1>5, <2>1, <2>4
<1> QED BY <1>7, <1>8

\* What the reader makes of a value that was written: an option is one value.
DispatchesAgain(ds) == [k \in 1 .. Len(ds) |-> DispatchAgain(ds[k])]
MetadataAgain(m) ==
    [header |-> HeaderAgain(m.header), receipt_present |-> m.receipt_present,
     openings_present |-> m.openings_present, return_receipt_present |-> m.return_receipt_present,
     dispatches |-> DispatchesAgain(m.dispatches), unknown_elements |-> 0]

LEMMA FlattenOne ==
    ASSUME NEW x, IsSequence(x), NEW v, v = [i \in 1 .. 1 |-> x]
    PROVE  FlattenSeq(v) = x
<1> DEFINE s == [i \in 1 .. 0 |-> x]
<1>1. FlattenSeq(v) = FlattenSeq(s) \o x
    <2>1. /\ s = [i \in 1 .. 0 |-> s[i]] /\ v = [i \in 1 .. 0 + 1 |-> v[i]]
          /\ \A i \in 1 .. 0 : s[i] = v[i]
          /\ v[0 + 1] = x
        OBVIOUS
    <2> DEFINE n == 0
    <2>2. /\ n \in Nat /\ s = [i \in 1 .. n |-> s[i]] /\ v = [i \in 1 .. n + 1 |-> v[i]]
          /\ \A i \in 1 .. n : s[i] = v[i]
          /\ v[n + 1] = x
        BY <2>1
    <2> HIDE DEF n, s
    <2> DEFINE w == v
    <2>3. /\ n \in Nat /\ s = [i \in 1 .. n |-> s[i]] /\ w = [i \in 1 .. n + 1 |-> w[i]]
          /\ \A i \in 1 .. n : s[i] = w[i]
          /\ w[n + 1] = x
        BY <2>2
    <2> HIDE DEF w
    <2>4. FlattenSeq(w) = FlattenSeq(s) \o x
        BY <2>3, FlattenStep
    <2> QED BY <2>4 DEF w
<1>2. FlattenSeq(s) = <<>>
    <2>1. Len(s) = 0 /\ s = <<>>
        OBVIOUS
    <2> QED BY <2>1 DEF FlattenSeq
<1>3. <<>> \o x = x
    <2>1. PICK S : x \in Seq(S)
        BY DEF IsSequence
    <2> QED BY <2>1
<1> QED BY <1>1, <1>2, <1>3

\* The blocks there are.
LEMMA BlocksThere ==
    ASSUME NEW m, NEW d, NEW t, NEW n, WrittenOf(m, d, t, n), NEW k \in DOMAIN Blocks
    PROVE  At(t, Blocks[k]) # {} <=> k \in BlocksIn(m)
<1>1. RegionRead(t, 2, n, BlocksIn(m), Inner) /\ n \in Nat /\ n >= 3
    BY Zenon DEF WrittenOf
<1>2. Blocks[k] \in Range(Blocks) /\ Blocks[k] \notin Inner /\ Blocks[k] # "none" /\ Blocks[k] # "KULDEMENY"
    <2>1. Blocks[k] \in Range(Blocks)
        BY DEF Range
    <2> QED BY <2>1, InnerIs, BlockNames
<1>3. k \in BlocksIn(m) => At(t, Blocks[k]) # {}
    <2> SUFFICES ASSUME k \in BlocksIn(m) PROVE At(t, Blocks[k]) # {}
        OBVIOUS
    <2>1. PICK j \in 2 + 1 .. n : t.part[j] = Blocks[k]
        BY <1>1 DEF RegionRead
    <2>2. j \in 1 .. n + 1
        BY <1>1
    <2>3. DOMAIN t.part = 1 .. n + 1
        BY <2>2, OpenWhere
    <2> QED BY <2>1, <2>2, <2>3 DEF At
<1>4. At(t, Blocks[k]) # {} => k \in BlocksIn(m)
    <2> SUFFICES ASSUME NEW j \in At(t, Blocks[k]) PROVE k \in BlocksIn(m)
        OBVIOUS
    <2>1. 1 \in 1 .. n + 1
        BY <1>1
    <2>7. DOMAIN t.part = 1 .. n + 1
        BY <2>1, OpenWhere
    <2>8. j \in DOMAIN t.part /\ t.part[j] = Blocks[k]
        BY DEF At
    <2>2. j \in 1 .. n + 1 /\ t.part[j] = Blocks[k]
        BY <2>7, <2>8
    <2> DEFINE part == Blocks[k]
    <2>3. IsOpen(t.event[j]) /\ j \in 3 .. n
        <3>1. t.part[j] # "none" /\ t.part[j] # "KULDEMENY"
            BY <1>2, <2>2
        <3> HIDE DEF part
        <3> QED BY <2>2, <3>1, OpenWhere
    <2>4. j \in 2 + 1 .. n
        BY <2>3
    <2>5. t.part[j] \in Inner \/ (t.part[j] \in Range(Blocks) /\ Place(t.part[j]) \in BlocksIn(m))
        BY <1>1, <2>3, <2>4 DEF RegionRead
    <2>6. Place(Blocks[k]) \in BlocksIn(m)
        BY <1>2, <2>2, <2>5
    <2> QED BY <2>6, PlaceIs
<1> QED BY <1>3, <1>4

LEMMA HeaderWhere ==
    ASSUME NEW m, NEW d, NEW t, NEW n, WrittenOf(m, d, t, n)
    PROVE  At(t, "FEJRESZ") = {3} /\ At(t, "unknown") = {}
<1>1. /\ RegionRead(t, 2, n, BlocksIn(m), Inner) /\ n \in Nat /\ n >= 3
      /\ IsOpen(d[3]) /\ t.part[3] = "FEJRESZ"
    BY Zenon DEF WrittenOf
<1>2. 1 \in 1 .. n + 1 /\ 3 \in 1 .. n + 1
    BY <1>1
<1>3. t.event = d /\ DOMAIN t.part = 1 .. n + 1
    BY <1>2, OpenWhere
<1>4. ASSUME NEW j \in 1 .. n + 1, t.part[j] = "FEJRESZ" PROVE j = 3
    <2>1. j \in 3 .. n /\ IsOpen(d[j])
        BY <1>4, OpenWhere
    <2>2. "FEJRESZ" \in Range(Blocks)
        BY BlockNames
    <2>3. IsBlock(t, j) /\ IsBlock(t, 3) /\ j \in 2 + 1 .. n /\ 3 \in 2 + 1 .. n
        BY <1>1, <1>3, <1>4, <2>1, <2>2 DEF IsBlock
    <2>4. \A a, b \in 2 + 1 .. n : IsBlock(t, a) /\ IsBlock(t, b) /\ a < b => Place(t.part[a]) < Place(t.part[b])
        BY <1>1 DEF RegionRead
    <2>5. Place("FEJRESZ") = 1
        <3>1. 1 \in DOMAIN Blocks /\ Blocks[1] = "FEJRESZ"
            BY BlockNames
        <3> QED BY <3>1, PlaceIs
    <2>6. ~(3 < j)
        <3>1. 3 < j => 1 < 1
            BY <1>1, <1>4, <2>3, <2>4, <2>5
        <3> QED BY <3>1
    <2> QED BY <2>1, <2>6
<1>5. At(t, "FEJRESZ") = {3}
    BY <1>1, <1>2, <1>3, <1>4 DEF At
<1>6. At(t, "unknown") = {}
    <2> SUFFICES ASSUME NEW j \in At(t, "unknown") PROVE FALSE
        OBVIOUS
    <2>1. j \in 1 .. n + 1 /\ t.part[j] = "unknown"
        BY <1>3 DEF At
    <2>2. j \in 3 .. n /\ IsOpen(d[j])
        BY <2>1, OpenWhere
    <2>3. Sound(t, j)
        BY <2>1, <2>2, OpenWhere
    <2> QED BY <2>1, <2>3 DEF Sound
<1> QED BY <1>5, <1>6

LEMMA DispatchesWhere ==
    ASSUME NEW m, NEW d, NEW t, NEW n, WrittenOf(m, d, t, n), NEW ds, ds = m.dispatches,
           NEW S, S = At(t, "EXPEDIALAS")
    PROVE  [k \in DOMAIN InOrder(S) |-> DispatchAt(t, InOrder(S)[k])] = DispatchesAgain(ds)
<1>1. DispatchOnly(t, 2, n, ds) /\ n \in Nat /\ n >= 3
    BY Zenon DEF WrittenOf
<1>2. 1 \in 1 .. n + 1
    BY <1>1
<1>3. t.event = d /\ DOMAIN t.part = 1 .. n + 1
    BY <1>2, OpenWhere
<1>4. S \subseteq 2 + 1 .. n /\ \A j \in 2 + 1 .. n : j \in S <=> t.part[j] = "EXPEDIALAS"
    <2>1. \A j \in S : j \in 1 .. n + 1 /\ t.part[j] = "EXPEDIALAS"
        BY <1>3 DEF At
    <2>2. \A j \in S : j \in 2 + 1 .. n
        <3> SUFFICES ASSUME NEW j \in S PROVE j \in 2 + 1 .. n
            OBVIOUS
        <3>1. j \in 3 .. n
            BY <2>1, OpenWhere
        <3> QED BY <3>1
    <2>3. \A j \in 2 + 1 .. n : t.part[j] = "EXPEDIALAS" => j \in S
        <3>1. \A j \in 2 + 1 .. n : j \in DOMAIN t.part
            BY <1>1, <1>3
        <3> QED BY <3>1 DEF At
    <2> QED BY <2>1, <2>2, <2>3
<1>5. S \subseteq 1 .. n
    BY <1>1, <1>4
<1>6. InOrder(S) \in Seq(S) /\ Len(InOrder(S)) = Cardinality(S)
    BY <1>1, <1>5, InOrderIs
<1> DEFINE l == InOrder(S)
<1>7. DOMAIN l = 1 .. Cardinality(S) /\ \A k \in DOMAIN l : l[k] \in S
    <2>1. \A x : x \in Seq(S) => DOMAIN x = 1 .. Len(x) /\ \A k \in DOMAIN x : x[k] \in S
        OBVIOUS
    <2> QED BY <1>6, <2>1
<1> HIDE DEF l
<1>8. CASE ds = <<>>
    <2>1. \A j \in 2 + 1 .. n : t.part[j] # "EXPEDIALAS"
        BY <1>1, <1>8, Zenon DEF DispatchOnly
    <2>2. S = {}
        BY <1>4, <2>1
    <2>3. Cardinality(S) = 0
        BY <2>2, FS_EmptySet
    <2>4. DOMAIN l = {}
        BY <1>7, <2>3
    <2>5. 1 .. Len(ds) = {}
        BY <1>8
    <2>6. [k \in DOMAIN l |-> DispatchAt(t, l[k])] = [k \in 1 .. Len(ds) |-> DispatchAgain(ds[k])]
        BY <2>4, <2>5
    <2> QED BY <2>6 DEF l, DispatchesAgain
<1>9. CASE ds # <<>>
    <2>1. PICK D, e : /\ Only(ds, D)
                /\ e \in 2 + 1 .. n /\ t.part[e] = "EXPEDIALAS"
                /\ \A j \in 2 + 1 .. n : t.part[j] = "EXPEDIALAS" => j = e
                /\ DispatchAt(t, e) = DispatchAgain(D)
        BY <1>1, <1>9, Zenon DEF DispatchOnly
    <2>2. S = {e}
        BY <1>4, <2>1
    <2>3. Cardinality(S) = 1
        BY <2>2, FS_Singleton
    <2>4. Len(ds) = 1 /\ ds[1] = D
        BY <2>1 DEF Only
    <2>5. DOMAIN l = 1 .. Len(ds)
        BY <1>7, <2>3, <2>4
    <2>6. \A k \in 1 .. Len(ds) : DispatchAt(t, l[k]) = DispatchAgain(ds[k])
        <3> SUFFICES ASSUME NEW k \in 1 .. Len(ds) PROVE DispatchAt(t, l[k]) = DispatchAgain(ds[k])
            OBVIOUS
        <3>1. k = 1
            BY <2>4
        <3>2. l[k] = e
            BY <1>7, <2>2, <2>5
        <3> QED BY <2>1, <2>4, <3>1, <3>2
    <2>7. [k \in DOMAIN l |-> DispatchAt(t, l[k])] = [k \in 1 .. Len(ds) |-> DispatchAgain(ds[k])]
        BY <2>5, <2>6
    <2> QED BY <2>7 DEF l, DispatchesAgain
<1> QED BY <1>8, <1>9

\* The document says what was written.
LEMMA MeaningIs ==
    ASSUME NEW m, TidyMetadata(m), NEW d, NEW t, NEW n, WrittenOf(m, d, t, n)
    PROVE  Meaning(t) = MetadataAgain(m)
<1> DEFINE S == At(t, "EXPEDIALAS")
           ds == m.dispatches
<1>1. [k \in DOMAIN InOrder(S) |-> DispatchAt(t, InOrder(S)[k])] = DispatchesAgain(ds)
    BY DispatchesWhere
<1>2. HeaderAt(t, The(At(t, "FEJRESZ"))) = HeaderAgain(m.header)
    <2>1. At(t, "FEJRESZ") = {3}
        BY HeaderWhere
    <2>2. The(At(t, "FEJRESZ")) = 3
        BY <2>1, TheOne
    <2>3. HeaderAt(t, 3) = HeaderAgain(m.header)
        BY Zenon DEF WrittenOf
    <2> QED BY <2>2, <2>3
<1>3. Cardinality(At(t, "unknown")) = 0
    BY HeaderWhere, FS_EmptySet
<1>4. /\ (At(t, "ERKEZTETES") # {}) = m.receipt_present
      /\ (At(t, "BONTASOK") # {}) = m.openings_present
      /\ (At(t, "TERTIVEVENY") # {}) = m.return_receipt_present
    <2>1. /\ m.receipt_present \in BOOLEAN /\ m.openings_present \in BOOLEAN
          /\ m.return_receipt_present \in BOOLEAN
        BY DEF TidyMetadata
    <2>2. 2 \in DOMAIN Blocks /\ 3 \in DOMAIN Blocks /\ 5 \in DOMAIN Blocks
        BY BlockNames
    <2>3. At(t, Blocks[2]) # {} <=> 2 \in BlocksIn(m)
        BY <2>2, BlocksThere
    <2>4. At(t, Blocks[3]) # {} <=> 3 \in BlocksIn(m)
        BY <2>2, BlocksThere
    <2>5. At(t, Blocks[5]) # {} <=> 5 \in BlocksIn(m)
        BY <2>2, BlocksThere
    <2>6. Blocks[2] = "ERKEZTETES" /\ Blocks[3] = "BONTASOK" /\ Blocks[5] = "TERTIVEVENY"
        BY BlockNames
    <2>7. (2 \in BlocksIn(m) <=> m.receipt_present) /\ (3 \in BlocksIn(m) <=> m.openings_present)
          /\ (5 \in BlocksIn(m) <=> m.return_receipt_present)
        BY BlocksInAre
    <2>8. (At(t, "ERKEZTETES") # {}) <=> m.receipt_present
        BY <2>3, <2>6, <2>7
    <2>9. (At(t, "BONTASOK") # {}) <=> m.openings_present
        BY <2>4, <2>6, <2>7
    <2>10. (At(t, "TERTIVEVENY") # {}) <=> m.return_receipt_present
        BY <2>5, <2>6, <2>7
    <2> QED BY <2>1, <2>8, <2>9, <2>10, Zenon
<1>5. Meaning(t) = [header |-> HeaderAt(t, The(At(t, "FEJRESZ"))),
         receipt_present |-> At(t, "ERKEZTETES") # {},
         openings_present |-> At(t, "BONTASOK") # {},
         return_receipt_present |-> At(t, "TERTIVEVENY") # {},
         dispatches |-> [k \in DOMAIN InOrder(S) |-> DispatchAt(t, InOrder(S)[k])],
         unknown_elements |-> Cardinality(At(t, "unknown"))]
    BY Zenon DEF Meaning
<1>6. @ = MetadataAgain(m)
    BY <1>1, <1>2, <1>3, <1>4, Zenon DEF MetadataAgain
<1> QED BY <1>5, <1>6

\* What is read again is written as it was.
LEMMA OptionAgain ==
    ASSUME NEW name, NEW option
    PROVE  Optional(name, OneOf(option)) = Optional(name, option)
<1>1. CASE option = Absent
    BY <1>1 DEF OneOf
<1>2. CASE option # Absent
    <2> DEFINE x == The(option)
    <2>1. OneOf(option) = {x}
        BY <1>2 DEF OneOf, Present
    <2> HIDE DEF x
    <2>2. The({x}) = x /\ {x} # Absent
        BY TheOne DEF Absent
    <2>3. Optional(name, OneOf(option)) = TextElement(name, x)
        BY <2>1, <2>2 DEF Optional
    <2>4. Optional(name, option) = TextElement(name, x)
        BY <1>2 DEF Optional, x
    <2> QED BY <2>3, <2>4
<1> QED BY <1>1, <1>2

LEMMA HeaderRewritten ==
    ASSUME NEW h \in Header
    PROVE  HeaderElement(HeaderAgain(h)) = HeaderElement(h)
<1> DEFINE g == HeaderAgain(h)
<1>1. /\ g.version = h.version /\ g.source_system = h.source_system
      /\ g.consignment_id = h.consignment_id /\ g.created_at_text = h.created_at_text
      /\ g.consignment_kind = h.consignment_kind
      /\ g.test = (h.test_present /\ h.test) /\ g.test_present = h.test_present
      /\ g.barcode = OneOf(h.barcode) /\ g.reference_id = OneOf(h.reference_id)
      /\ g.error_code = OneOf(h.error_code) /\ g.note = OneOf(h.note)
    BY DEF HeaderAgain
<1> HIDE DEF g
<1>2. h.test \in BOOLEAN /\ h.test_present \in BOOLEAN
    BY DEF Header
<1>3. TestOf(g) = TestOf(h)
    <2>1. CASE h.test_present
        <3>1. g.test = h.test /\ g.test_present
            BY <1>1, <1>2, <2>1
        <3> QED BY <2>1, <3>1, Zenon DEF TestOf
    <2>2. CASE ~h.test_present
        BY <1>1, <2>2, Zenon DEF TestOf
    <2> QED BY <2>1, <2>2
<1>4. /\ Optional("VONALKOD", g.barcode) = Optional("VONALKOD", h.barcode)
      /\ Optional("KULDEMENY_HIVATKOZASI_AZONOSITO", g.reference_id)
            = Optional("KULDEMENY_HIVATKOZASI_AZONOSITO", h.reference_id)
      /\ Optional("HIBAKOD", g.error_code) = Optional("HIBAKOD", h.error_code)
      /\ Optional("KULDEMENY_MEGJEGYZES", g.note) = Optional("KULDEMENY_MEGJEGYZES", h.note)
    BY <1>1, OptionAgain
<1>5. HeaderInner(g) = HeaderInner(h)
    BY <1>1, <1>3, <1>4, Zenon DEF HeaderInner
<1>6. \A x : HeaderElement(x) = Element("FEJRESZ", HeaderInner(x))
    BY DEF HeaderElement, HeaderInner, TestOf
<1> QED BY <1>5, <1>6, Zenon DEF g

LEMMA AttachmentRewritten ==
    ASSUME NEW a
    PROVE  AttachmentElement(ReferenceAgain(a)) = AttachmentElement(a)
<1> DEFINE g == ReferenceAgain(a)
<1>1. /\ g.number = a.number /\ g.file_name = a.file_name /\ g.size_text = a.size_text
      /\ g.location = a.location /\ g.description = OneOf(a.description)
      /\ g.quantity = OneOf(a.quantity) /\ g.quantity_unit = OneOf(a.quantity_unit)
    BY DEF ReferenceAgain
<1> HIDE DEF g
<1>2. /\ Optional("MELLEKLET_LEIRASA", g.description) = Optional("MELLEKLET_LEIRASA", a.description)
      /\ Optional("MENNYISEG", g.quantity) = Optional("MENNYISEG", a.quantity)
      /\ Optional("MENNYISEGI_EGYSEG", g.quantity_unit) = Optional("MENNYISEGI_EGYSEG", a.quantity_unit)
    BY <1>1, OptionAgain
<1>3. AttachmentElement(g) = AttachmentElement(a)
    BY <1>1, <1>2, Zenon DEF AttachmentElement
<1> QED BY <1>3 DEF g

LEMMA DispatchRewritten ==
    ASSUME NEW D, TidyDispatch(D)
    PROVE  DispatchElement(DispatchAgain(D)) = DispatchElement(D)
<1> DEFINE g == DispatchAgain(D)
           A == D.attachments
           B == g.attachments
<1>1. /\ g.declared_attachment_count = D.declared_attachment_count
      /\ g.attachments_present = D.attachments_present
      /\ g.handling_instructions_unqualified = D.handling_instructions_unqualified
      /\ B = [k \in 1 .. Len(A) |-> ReferenceAgain(A[k])]
    BY DEF DispatchAgain
<1>2. A \in Seq(AttachmentReference)
    BY DEF TidyDispatch, TidyList
<1> HIDE DEF g
<1>3. [i \in DOMAIN B |-> AttachmentElement(B[i])] = [i \in DOMAIN A |-> AttachmentElement(A[i])]
    <2> HIDE DEF A, B
    <2>1. DOMAIN A = 1 .. Len(A)
        BY <1>2
    <2>2. DOMAIN B = 1 .. Len(A)
        BY <1>1
    <2>3. \A i \in 1 .. Len(A) : AttachmentElement(B[i]) = AttachmentElement(A[i])
        <3> SUFFICES ASSUME NEW i \in 1 .. Len(A) PROVE AttachmentElement(B[i]) = AttachmentElement(A[i])
            OBVIOUS
        <3>1. B[i] = ReferenceAgain(A[i])
            BY <1>1
        <3> QED BY <3>1, AttachmentRewritten
    <2> QED BY <2>1, <2>2, <2>3
<1>4. DispatchElement(g) = DispatchElement(D)
    BY <1>1, <1>3, Zenon DEF DispatchElement
<1> QED BY <1>4 DEF g

LEMMA Rewritten ==
    ASSUME NEW m, TidyMetadata(m)
    PROVE  Serialised(MetadataAgain(m)) = Serialised(m)
<1> DEFINE g == MetadataAgain(m)
           ds == m.dispatches
           es == g.dispatches
<1>1. /\ g.header = HeaderAgain(m.header) /\ g.receipt_present = m.receipt_present
      /\ g.openings_present = m.openings_present
      /\ g.return_receipt_present = m.return_receipt_present
      /\ es = DispatchesAgain(ds)
    BY DEF MetadataAgain
<1> HIDE DEF g
<1>2. HeaderElement(g.header) = HeaderElement(m.header)
    BY <1>1, HeaderRewritten DEF TidyMetadata
<1>3. DispatchesElement(es) = DispatchesElement(ds)
    <2>1. CASE ds = <<>>
        <3>1. es = <<>>
            BY <1>1, <2>1 DEF DispatchesAgain
        <3> QED BY <2>1, <3>1
    <2>2. CASE ds # <<>>
        <3>1. PICK D : Only(ds, D) /\ TidyDispatch(D)
            BY <2>2 DEF TidyMetadata
        <3>2. Len(ds) = 1 /\ ds[1] = D /\ DOMAIN ds = 1 .. 1
            BY <3>1 DEF Only
        <3>3. es = [k \in 1 .. 1 |-> DispatchAgain(ds[k])]
            BY <1>1, <3>2 DEF DispatchesAgain
        <3>4. DOMAIN es = 1 .. 1 /\ es[1] = DispatchAgain(D)
            BY <3>2, <3>3
        <3>5. DispatchElement(es[1]) = DispatchElement(ds[1])
            BY <3>1, <3>2, <3>4, DispatchRewritten
        <3>6. [i \in DOMAIN es |-> DispatchElement(es[i])] = [i \in DOMAIN ds |-> DispatchElement(ds[i])]
            <4> HIDE DEF ds, es
            <4>1. \A i \in 1 .. 1 : DispatchElement(es[i]) = DispatchElement(ds[i])
                BY <3>5
            <4> QED BY <3>2, <3>4, <4>1
        <3>7. es # <<>>
            BY <3>4
        <3> QED BY <2>2, <3>6, <3>7, Zenon DEF DispatchesElement
    <2> QED BY <2>1, <2>2
<1>4. Serialised(g) = Serialised(m)
    <2>1. \A x : (IF x.dispatches = <<>> THEN <<>>
            ELSE Element("EXPEDIALASOK",
                         FlattenSeq([i \in DOMAIN x.dispatches |-> DispatchElement(x.dispatches[i])])))
                 = DispatchesElement(x.dispatches)
        BY Zenon DEF DispatchesElement
    <2> QED BY <1>1, <1>2, <1>3, <2>1, Zenon DEF Serialised
<1> QED BY <1>4 DEF g

\* What the reader makes of a document that is written.
LEMMA WrittenVerdict ==
    ASSUME NEW m, TidyMetadata(m), NEW d, d = Serialised(m)
    PROVE  \/ Verdict(d).kind = "refused" /\ Verdict(d).codes \subseteq TooLarge
           \/ Verdict(d).kind = "accepted" /\ Verdict(d).value = MetadataAgain(m)
<1> DEFINE t == Tree(d)
           f == Faults(t)
<1>1. PICK n : WrittenOf(m, d, t, n)
    BY WrittenIs
<1>2. f \subseteq TooLarge /\ Read(t) = t
    BY <1>1, WrittenFaults
<1>3. Meaning(t) = MetadataAgain(m)
    BY <1>1, MeaningIs
<1>4. CASE Len(d) > MaxDocument
    <2>1. Verdict(d) = [kind |-> "refused", codes |-> {"over_limit.document_bytes"}]
        BY <1>4 DEF Verdict
    <2> QED BY <2>1 DEF TooLarge
<1>5. CASE ~(Len(d) > MaxDocument)
    <2>1. Verdict(d) = VerdictOf(t, f)
        BY <1>2, <1>5 DEF Verdict, VerdictOn
    <2> HIDE DEF t, f
    <2>2. CASE f = {}
        <3>1. Verdict(d) = [kind |-> "accepted", value |-> Meaning(t)]
            BY <2>1, <2>2 DEF VerdictOf
        <3> QED BY <1>3, <3>1
    <2>3. CASE f # {}
        <3>1. Verdict(d) = [kind |-> "refused", codes |-> f]
            BY <2>1, <2>3 DEF VerdictOf
        <3> QED BY <1>2, <3>1
    <2> QED BY <2>2, <2>3
<1> QED BY <1>4, <1>5
-----------------------------------------------------------------------------
(* Sequences of sequences.                                                 *)

\* A sequence of what is in the first n of s, and of nothing else.
FromFirst(x, s, n) ==
    /\ IsSequence(x)
    /\ \A k \in 1 .. Len(x) : \E i \in 1 .. n : \E j \in 1 .. Len(s[i]) : x[k] = s[i][j]
    /\ \A i \in 1 .. n : \A j \in 1 .. Len(s[i]) : \E k \in 1 .. Len(x) : x[k] = s[i][j]

LEMMA FromFirstStep ==
    ASSUME NEW s, NEW n \in Nat \ {0}, IsSequence(s[n]), NEW x, FromFirst(x, s, n - 1)
    PROVE  FromFirst(x \o s[n], s, n)
<1> DEFINE t == s[n]
<1>1. /\ IsSequence(x \o t) /\ Len(x \o t) = Len(x) + Len(t)
      /\ \A i \in 1 .. Len(x) : (x \o t)[i] = x[i]
      /\ \A i \in 1 .. Len(t) : (x \o t)[Len(x) + i] = t[i]
    BY Joined DEF FromFirst
<1>2. Len(x) \in Nat /\ Len(t) \in Nat
    BY SequenceIs DEF FromFirst
<1>3. ASSUME NEW k \in 1 .. Len(x \o t)
      PROVE  \E i \in 1 .. n : \E j \in 1 .. Len(s[i]) : (x \o t)[k] = s[i][j]
    <2>1. CASE k <= Len(x)
        <3>1. k \in 1 .. Len(x) /\ (x \o t)[k] = x[k]
            BY <1>1, <1>2, <2>1
        <3>2. PICK i \in 1 .. n - 1 : \E j \in 1 .. Len(s[i]) : x[k] = s[i][j]
            BY <3>1 DEF FromFirst
        <3>3. i \in 1 .. n
            OBVIOUS
        <3> QED BY <3>1, <3>2, <3>3
    <2>2. CASE ~(k <= Len(x))
        <3>1. k - Len(x) \in 1 .. Len(t) /\ k = Len(x) + (k - Len(x))
            BY <1>1, <1>2, <2>2
        <3>2. (x \o t)[k] = t[k - Len(x)] /\ n \in 1 .. n
            BY <1>1, <3>1
        <3>3. \E j \in 1 .. Len(s[n]) : (x \o t)[k] = s[n][j]
            BY <3>1, <3>2
        <3> QED BY <3>2, <3>3
    <2> QED BY <2>1, <2>2
<1>4. ASSUME NEW i \in 1 .. n, NEW j \in 1 .. Len(s[i])
      PROVE  \E k \in 1 .. Len(x \o t) : (x \o t)[k] = s[i][j]
    <2>1. CASE i = n
        <3>1. j \in 1 .. Len(t) /\ t[j] = s[i][j]
            BY <2>1
        <3> HIDE DEF t
        <3>2. Len(x) + j \in 1 .. Len(x \o t)
            BY <1>1, <1>2, <3>1
        <3>3. (x \o t)[Len(x) + j] = s[i][j]
            BY <1>1, <3>1
        <3> QED BY <3>2, <3>3
    <2>2. CASE i # n
        <3>1. i \in 1 .. n - 1
            BY <2>2
        <3>2. PICK k \in 1 .. Len(x) : x[k] = s[i][j]
            BY <3>1 DEF FromFirst
        <3>3. k \in 1 .. Len(x \o t) /\ (x \o t)[k] = x[k]
            <4> HIDE DEF t
            <4> QED BY <1>1, <1>2
        <3> QED BY <3>2, <3>3
    <2> QED BY <2>1, <2>2
<1> QED BY <1>1, <1>3, <1>4 DEF FromFirst

\* Joined sequences are a sequence, of what they were of.
LEMMA Flattened ==
    ASSUME NEW s, IsSequence(s), \A i \in 1 .. Len(s) : IsSequence(s[i])
    PROVE  FromFirst(FlattenSeq(s), s, Len(s))
<1> DEFINE N == Len(s)
           f == CHOOSE f : f = Joining(s, f, N)
<1>1. N \in Nat
    BY SequenceIs
<1>2. f = Joining(s, f, N)
    <2>1. \E h : h = Joining(s, h, N)
        BY <1>1, JoiningExists
    <2> QED BY <2>1
<1>3. CASE N = 0
    <2>1. FlattenSeq(s) = s
        BY <1>3 DEF FlattenSeq
    <2> QED BY <1>3, <2>1 DEF FromFirst
<1>4. CASE N # 0
    <2>1. FlattenSeq(s) = f[N]
        BY <1>4, Zenon DEF FlattenSeq, Joining
    <2> HIDE DEF f
    <2> DEFINE Bad == {n \in 1 .. N : ~FromFirst(f[n], s, n)}
    <2>2. Bad = {}
        <3> SUFFICES ASSUME Bad # {} PROVE FALSE
            OBVIOUS
        <3>1. PICK n \in Bad : \A m \in Bad : n <= m
            <4>1. Bad \subseteq Nat
                BY <1>1
            <4> HIDE DEF Bad
            <4> QED BY <4>1, LeastNumber
        <3>2. n \in 1 .. N /\ ~FromFirst(f[n], s, n)
            OBVIOUS
        <3>3. IsSequence(s[n])
            BY <3>2
        <3>4. f[n] = IF n = 1 THEN s[n] ELSE f[n - 1] \o s[n]
            BY <1>1, <1>2, <3>2 DEF Joining
        <3>5. CASE n = 1
            BY <3>2, <3>3, <3>4, <3>5 DEF FromFirst
        <3>6. CASE n # 1
            <4>1. n - 1 \in 1 .. N /\ ~(n <= n - 1) /\ n \in Nat \ {0}
                BY <1>1, <3>2, <3>6
            <4>2. FromFirst(f[n - 1], s, n - 1)
                BY <3>1, <4>1
            <4> HIDE DEF Bad
            <4>3. FromFirst(f[n - 1] \o s[n], s, n)
                BY <3>3, <4>1, <4>2, FromFirstStep
            <4> QED BY <3>2, <3>4, <3>6, <4>3
        <3> QED BY <3>5, <3>6
    <2>3. N \in 1 .. N
        BY <1>1, <1>4
    <2>4. FromFirst(f[N], s, N)
        BY <2>2, <2>3
    <2> QED BY <2>1, <2>4
<1> QED BY <1>3, <1>4

-----------------------------------------------------------------------------
(* The reader: levels and elements of a document.                          *)

\* Texts joined are a text.
LEMMA FlattenTyped ==
    ASSUME NEW S, NEW s, IsSequence(s), \A i \in 1 .. Len(s) : s[i] \in Seq(S)
    PROVE  FlattenSeq(s) \in Seq(S)
<1> DEFINE x == FlattenSeq(s)
<1>1. \A i \in 1 .. Len(s) : IsSequence(s[i])
    BY DEF IsSequence
<1>2. FromFirst(x, s, Len(s))
    BY <1>1, Flattened
<1> HIDE DEF x
<1>3. IsSequence(x) /\ \A k \in 1 .. Len(x) : x[k] \in S
    <2>1. ASSUME NEW k \in 1 .. Len(x) PROVE x[k] \in S
        <3>1. PICK i \in 1 .. Len(s) : \E j \in 1 .. Len(s[i]) : x[k] = s[i][j]
            BY <1>2 DEF FromFirst
        <3>2. s[i] \in Seq(S)
            OBVIOUS
        <3> QED BY <3>1, <3>2
    <2> QED BY <1>2, <2>1 DEF FromFirst
<1>4. Len(x) \in Nat /\ x = [i \in 1 .. Len(x) |-> x[i]]
    BY <1>3, SequenceIs
<1>5. x \in [1 .. Len(x) -> S]
    BY <1>3, <1>4
<1> QED BY <1>4, <1>5 DEF x

\* The level falls from one to the next one lower only at an end.
LEMMA Crossing ==
    ASSUME NEW d, NEW a \in Nat \ {0}, NEW b \in Nat, a <= b, NEW v \in Int,
           Level(d, a) > v, Level(d, b) <= v
    PROVE  \E k \in a .. b - 1 : d[k].kind = "end" /\ Level(d, k) = v + 1
<1> DEFINE T == {n \in Nat : a <= n /\ n <= b /\ Level(d, n) <= v}
<1>1. b \in T /\ T \subseteq Nat
    OBVIOUS
<1>2. PICK m \in T : \A n \in T : m <= n
    <2> HIDE DEF T
    <2> QED BY <1>1, LeastNumber
<1>3. m # a
    <2>1. Level(d, m) <= v /\ Level(d, a) \in Int
        BY <1>2, LevelStep
    <2> QED BY <2>1
<1>4. m - 1 \in Nat \ {0} /\ a <= m - 1 /\ m - 1 <= b - 1 /\ m - 1 \notin T
    BY <1>2, <1>3
<1>5. Level(d, m - 1) \in Int /\ Level(d, m - 1) > v
    BY <1>4, LevelStep
<1>6. Level(d, m) = Level(d, m - 1)
        + (IF d[m - 1].kind = "start" THEN 1 ELSE IF d[m - 1].kind = "end" THEN -1 ELSE 0)
    <2>1. (m - 1) + 1 = m
        BY <1>4
    <2> QED BY <1>4, <2>1, LevelStep
<1>7. d[m - 1].kind = "end" /\ Level(d, m - 1) = v + 1
    BY <1>2, <1>5, <1>6
<1> QED BY <1>4, <1>7

\* Every element of a document that ends with its first one is closed.
AllClosed(t) ==
    \A i \in 1 .. Len(t.event) :
        IsOpen(t.event[i]) => t.close[i] \in i .. Len(t.event)

\* The part of a document up to the end of its first element.
LEMMA FirstElementCloses ==
    ASSUME NEW d \in Seq(Event), NEW f \in 1 .. Len(d), IsOpen(d[f]),
           \A i \in 1 .. Len(d) : IsOpen(d[i]) => f <= i,
           NEW n \in 1 .. Len(d), n = Tree(d).close[f],
           NEW e, e = SubSeq(d, 1, n)
    PROVE  e \in Seq(Event) /\ Len(e) = n /\ AllClosed(Tree(e))
<1>1. e \in Seq(Event) /\ Len(e) = n /\ \A i \in 1 .. n : e[i] = d[i]
    OBVIOUS
<1>2. DOMAIN d = 1 .. Len(d) /\ DOMAIN e = 1 .. n
    BY <1>1
<1>3. Len(d) \in Nat
    OBVIOUS
<1>4. /\ Tree(e).event = e /\ \A i \in 1 .. n : e[i].kind # "start" => Tree(e).close[i] = i
      /\ \A i \in 1 .. n : e[i].kind = "start" =>
            /\ Tree(e).close[i] \in i + 1 .. n + 1
            /\ \A j \in i + 1 .. n :
                  e[j].kind = "end" /\ Level(e, j) = Level(e, i) + 1 => Tree(e).close[i] <= j
    <2>1. /\ Tree(e).event = e /\ \A i \in 1 .. Len(e) : e[i].kind # "start" => Tree(e).close[i] = i
          /\ \A i \in 1 .. Len(e) : e[i].kind = "start" =>
                /\ Tree(e).close[i] \in i + 1 .. Len(e) + 1
                /\ \A j \in i + 1 .. Len(e) :
                      e[j].kind = "end" /\ Level(e, j) = Level(e, i) + 1 => Tree(e).close[i] <= j
        <3>1. e \in Seq(Event)
            BY <1>1
        <3> HIDE DEF Tree, Level
        <3> QED BY ZenonT(30), <3>1, TreeIs
    <2>2. Len(e) = n
        BY <1>1
    <2> QED BY <2>1, <2>2
<1>5. /\ d[f].kind # "start" => n = f
      /\ d[f].kind = "start" =>
            /\ n >= f + 1 /\ d[n].kind = "end" /\ Level(d, n) = Level(d, f) + 1
            /\ \A j \in f + 1 .. Len(d) :
                  d[j].kind = "end" /\ Level(d, j) = Level(d, f) + 1 => n <= j
    BY TreeIs
<1>6. \A j \in 1 .. n + 1 : Level(e, j) = Level(d, j)
    <2>1. n \in Nat
        OBVIOUS
    <2> QED BY <1>1, <2>1, LevelOfPart
<1>7. \A j \in Nat \ {0} : Level(d, j) \in Int
    BY LevelStep
<1>8. ASSUME NEW i \in 1 .. n, IsOpen(e[i])
      PROVE  Tree(e).close[i] \in i .. n
    <2>1. CASE e[i].kind # "start"
        BY <1>4, <2>1
    <2>2. CASE e[i].kind = "start" /\ d[f].kind # "start"
        <3>1. n = f /\ f <= i
            BY <1>1, <1>5, <1>8, <2>2
        <3>2. i = f
            BY <3>1
        <3> QED BY <1>1, <2>2, <3>2
    <2>3. CASE e[i].kind = "start" /\ d[f].kind = "start"
        <3> SUFFICES \E j \in i + 1 .. n : e[j].kind = "end" /\ Level(e, j) = Level(e, i) + 1
            BY <1>4, <2>3
        <3>0. i \in Nat \ {0} /\ f \in Nat \ {0} /\ n \in Nat \ {0} /\ i <= n
            OBVIOUS
        <3>1. f <= i /\ i # n /\ d[i].kind = "start"
            BY SMTT(30), <1>1, <1>5, <1>8, <2>3
        <3>2. CASE i = f
            <4>1. n \in i + 1 .. n /\ e[n].kind = "end"
                BY <1>1, <1>5, <2>3, <3>2
            <4>2. Level(e, n) = Level(e, i) + 1
                BY <1>5, <1>6, <2>3, <3>2
            <4> QED BY <4>1, <4>2
        <3>3. CASE i # f
            <4>0. /\ Level(d, f) \in Int
                  /\ Level(d, f + 1) = Level(d, f)
                        + (IF d[f].kind = "start" THEN 1 ELSE IF d[f].kind = "end" THEN -1 ELSE 0)
                BY <3>0, LevelStep
            <4>1. Level(d, f + 1) = Level(d, f) + 1 /\ f + 1 <= i /\ Level(d, f) \in Int
                BY <2>3, <3>0, <3>1, <3>3, <4>0
            <4>2. Level(d, i) > Level(d, f)
                <5> SUFFICES ASSUME ~(Level(d, i) > Level(d, f)) PROVE FALSE
                    OBVIOUS
                <5>1. Level(d, i) <= Level(d, f) /\ Level(d, f + 1) > Level(d, f)
                    BY <1>7, <4>1
                <5>2. f + 1 \in Nat \ {0} /\ i \in Nat
                    OBVIOUS
                <5>3. \E k \in f + 1 .. i - 1 :
                         d[k].kind = "end" /\ Level(d, k) = Level(d, f) + 1
                    BY <4>1, <5>1, <5>2, Crossing
                <5>4. PICK k \in f + 1 .. i - 1 :
                         d[k].kind = "end" /\ Level(d, k) = Level(d, f) + 1
                    BY <5>3
                <5>5. k \in f + 1 .. Len(d) /\ ~(n <= k)
                    OBVIOUS
                <5> QED BY <1>5, <2>3, <5>4, <5>5
            <4>3. Level(d, i + 1) = Level(d, i) + 1 /\ Level(d, i) \in Int
                BY <3>0, <3>1, LevelStep
            <4>4. Level(d, n + 1) = Level(d, f)
                <5>1. Level(d, n) \in Int /\ Level(d, n + 1) = Level(d, n) - 1
                    BY <1>5, <2>3, <3>0, LevelStep
                <5> QED BY <1>5, <2>3, <4>1, <5>1
            <4>5. Level(d, i + 1) > Level(d, i) /\ Level(d, n + 1) <= Level(d, i)
                BY <4>1, <4>2, <4>3, <4>4
            <4>6. i + 1 \in Nat \ {0} /\ n + 1 \in Nat /\ i + 1 <= n + 1
                OBVIOUS
            <4>7. \E k \in i + 1 .. (n + 1) - 1 :
                     d[k].kind = "end" /\ Level(d, k) = Level(d, i) + 1
                BY SMTT(30), <4>3, <4>5, <4>6, Crossing
            <4>8. PICK k \in i + 1 .. (n + 1) - 1 :
                     d[k].kind = "end" /\ Level(d, k) = Level(d, i) + 1
                BY <4>7
            <4>9. k \in i + 1 .. n /\ e[k].kind = "end" /\ Level(e, k) = Level(e, i) + 1
                <5>1. k \in i + 1 .. n /\ k \in 1 .. n /\ k \in 1 .. n + 1 /\ i \in 1 .. n + 1
                    BY <3>0
                <5> QED BY <1>1, <1>6, <4>8, <5>1
            <4> QED BY <4>9
        <3> QED BY <3>2, <3>3
    <2> QED BY <2>1, <2>2, <2>3
<1> QED BY <1>1, <1>4, <1>8 DEF AllClosed

\* A document without a fault is one element, whose elements are closed.
Faultless(t) ==
    /\ t.event \in Seq(Event) /\ t = Tree(t.event)
    /\ AllClosed(t)
    /\ \A i \in 1 .. Len(t.event) : FaultsAt(t, i) = {}
    /\ FirstElement(t) \in 1 .. Len(t.event)

LEMMA AcceptedIsFaultless ==
    ASSUME NEW d \in Seq(Event), Verdict(d).kind = "accepted"
    PROVE  \E t : Faultless(t) /\ Verdict(d).value = Meaning(t)
<1> DEFINE t == Read(Tree(d)) u == Tree(d) first == FirstElement(u)
<1>1. Verdict(d) = VerdictOf(t, Faults(t))
    BY DEF Verdict, VerdictOn
<1>2. Faults(t) = {} /\ Verdict(d).value = Meaning(t)
    BY <1>1 DEF VerdictOf
<1>3. /\ \A i \in DOMAIN t.event : FaultsAt(t, i) = {}
      /\ End(t) \in DOMAIN t.event
    <2> DEFINE faulty == {i \in DOMAIN t.event : FaultsAt(t, i) # {}}
    <2> HIDE DEF t
    <2>1. Faults(t) =
            IF faulty # {} THEN FaultsAt(t, Min(faulty))
            ELSE IF End(t) \in DOMAIN t.event THEN {}
            ELSE IF FirstElement(t) \in DOMAIN t.event THEN {"malformed.syntax"}
            ELSE {"malformed.missing_element"}
        BY Zenon DEF Faults
    <2>2. t.event \in Seq(Event)
        <3>1. t = u \/ (t = Tree(SubSeq(u.event, 1, End(u))) /\ End(u) \in DOMAIN u.event)
            <4>1. t = IF End(u) \in DOMAIN u.event THEN Tree(SubSeq(u.event, 1, End(u))) ELSE u
                BY Zenon DEF Read, t, u
            <4> HIDE DEF t, u
            <4> QED BY <4>1
        <3>2. u.event = d
            BY TreeIs
        <3> DEFINE e == SubSeq(d, 1, End(u))
        <3>3. End(u) \in 1 .. Len(d) => e \in Seq(Event)
            OBVIOUS
        <3>4. t = u \/ (t = Tree(e) /\ e \in Seq(Event))
            BY <3>1, <3>2, <3>3
        <3> HIDE DEF e, u
        <3>5. e \in Seq(Event) => Tree(e).event = e
            BY TreeIs
        <3> QED BY <3>2, <3>4, <3>5
    <2>3. faulty # {} => Min(faulty) \in faulty
        <3>1. faulty \subseteq Nat
            BY <2>2
        <3> HIDE DEF faulty
        <3> QED BY <3>1, MinIs
    <2>4. faulty = {}
        BY <1>2, <2>1, <2>3
    <2> QED BY <1>2, <2>1, <2>4
<1>4. u.event = d /\ Len(d) \in Nat /\ DOMAIN d = 1 .. Len(d)
    BY TreeIs
<1>5. CASE End(u) \notin DOMAIN u.event
    <2>1. t = u
        BY <1>5 DEF Read
    <2> QED BY <1>3, <1>5, <2>1
<1>6. CASE End(u) \in DOMAIN u.event
    <2> DEFINE n == End(u) e == SubSeq(d, 1, n)
    <2>1. t = Tree(e) /\ n \in 1 .. Len(d)
        BY <1>4, <1>6 DEF Read
    <2>2. /\ first \in 1 .. Len(d) + 1
          /\ first \in 1 .. Len(d) => IsOpen(d[first])
          /\ \A i \in 1 .. Len(d) : IsOpen(d[i]) => first <= i
        BY <1>4, FirstIs
    <2>3. n = IF first \in DOMAIN d THEN u.close[first] ELSE first
        BY <1>4 DEF End
    <2>4. first \in 1 .. Len(d) /\ n = u.close[first]
        BY <1>4, <2>1, <2>2, <2>3
    <2> HIDE DEF t, u, n, first
    <2>5. e \in Seq(Event) /\ Len(e) = n /\ AllClosed(Tree(e))
        BY ZenonT(30), <2>1, <2>2, <2>4, FirstElementCloses DEF u
    <2>6. t.event = e
        <3> HIDE DEF e
        <3> QED BY <2>1, <2>5, TreeIs
    <2>7. FirstElement(t) \in 1 .. Len(e)
        <3>1. FirstElement(t) \in 1 .. Len(e) + 1
            BY <2>5, <2>6, FirstIs
        <3>2. FirstElement(t) = Len(e) + 1 => End(t) = Len(e) + 1 /\ End(t) \notin DOMAIN t.event
            <4> HIDE DEF e
            <4>1. DOMAIN t.event = 1 .. Len(e) /\ Len(e) \in Nat
                BY <2>5, <2>6
            <4> QED BY <4>1 DEF End
        <3>3. Len(e) \in Nat
            BY <2>5
        <3> HIDE DEF e
        <3> QED BY <1>3, <3>1, <3>2, <3>3
    <2>8. Faultless(t)
        <3> HIDE DEF e
        <3>1. DOMAIN t.event = 1 .. Len(e)
            BY <2>5, <2>6
        <3> QED BY <1>3, <2>1, <2>5, <2>6, <2>7, <3>1 DEF Faultless
    <2> QED BY <1>2, <2>8
<1> QED BY <1>5, <1>6

-----------------------------------------------------------------------------
(* The reader: what a document says.                                       *)

LEMMA SaidIsText == ASSUME NEW e \in Event PROVE Said(e) \in Text
<1>1. CASE IsText(e)
    <2>1. e \in TextEvent \cup ReferenceEvent
        BY <1>1 DEF Event, OpenEvent, DeclarationEvent, PlainEvent, BrokenEvent, IsText
    <2>2. e.pieces \in Text
        BY <2>1 DEF TextEvent, ReferenceEvent
    <2> QED BY <1>1, <2>2 DEF Said
<1>2. CASE ~IsText(e)
    <2>1. <<>> \in Text
        BY DEF Text
    <2> QED BY <1>2, <2>1 DEF Said
<1> QED BY <1>1, <1>2

LEMMA ContentIsText ==
    ASSUME NEW t, NEW d, d = t.event, d \in Seq(Event), NEW i \in 1 .. Len(d),
           t.close[i] \in i .. Len(d)
    PROVE  Content(t, i) \in Text
<1> DEFINE n == t.close[i] - i - 1
           m == t.close[i] - i
           s == [k \in 1 .. n |-> Said(d[i + k])]
<1>1. i \in Nat /\ Len(d) \in Nat /\ t.close[i] \in Int /\ n \in Int
    OBVIOUS
<1>2. ASSUME NEW k \in 1 .. n PROVE s[k] \in Seq(Piece)
    <2>1. i + k \in 1 .. Len(d)
        BY <1>1
    <2>2. Said(d[i + k]) \in Text
        BY <2>1, SaidIsText
    <2> QED BY <2>2 DEF Text
<1>3. IsSequence(s) /\ \A k \in 1 .. Len(s) : s[k] \in Seq(Piece)
    <2>1. CASE n \in Nat
        <3>1. s = [k \in 1 .. n |-> s[k]]
            OBVIOUS
        <3>2. IsSequence(s) /\ Len(s) = n
            <4> HIDE DEF s, n
            <4> QED BY <2>1, <3>1, SequenceBy
        <3> QED BY <1>2, <3>2
    <2>2. CASE n \notin Nat
        <3>1. 1 .. n = {}
            BY <1>1, <2>2
        <3>2. s = <<>>
            BY <3>1
        <3>3. IsSequence(<<>>) /\ Len(<<>>) = 0
            <4>1. <<>> \in Seq(Nat)
                OBVIOUS
            <4> QED BY <4>1 DEF IsSequence
        <3> HIDE DEF s
        <3> QED BY <3>2, <3>3
    <2> QED BY <2>1, <2>2
<1>4. FlattenSeq(s) \in Text
    <2> HIDE DEF s
    <2> QED BY <1>3, FlattenTyped DEF Text
<1>5. Content(t, i) = Trim(FlattenSeq(s))
    BY DEF Content
<1> HIDE DEF s
<1> QED BY <1>4, <1>5, TrimIsText

LEMMA ChildrenAre ==
    ASSUME NEW t, Faultless(t), NEW i \in 1 .. Len(t.event), IsOpen(t.event[i]),
           NEW j \in Children(t, i)
    PROVE  /\ j \in 1 .. Len(t.event) /\ IsOpen(t.event[j]) /\ t.parent[j] = i
           /\ t.close[j] \in j .. Len(t.event)
<1>1. j \in i + 1 .. t.close[i] - 1 /\ IsOpen(t.event[j]) /\ t.parent[j] = i
    BY DEF Children
<1>2. t.close[i] \in i .. Len(t.event) /\ Len(t.event) \in Nat
    BY DEF Faultless, AllClosed
<1>3. j \in 1 .. Len(t.event)
    BY <1>1, <1>2
<1> QED BY <1>1, <1>3 DEF Faultless, AllClosed

LEMMA LeafIsText ==
    ASSUME NEW t, Faultless(t), NEW i \in 1 .. Len(t.event), IsOpen(t.event[i]), NEW name
    PROVE  Leaf(t, i, name) \subseteq Text
<1> SUFFICES ASSUME NEW j \in Children(t, i) PROVE Content(t, j) \in Text
    BY DEF Leaf
<1>1. j \in 1 .. Len(t.event) /\ t.close[j] \in j .. Len(t.event) /\ t.event \in Seq(Event)
    BY ChildrenAre DEF Faultless
<1> QED BY <1>1, ContentIsText

\* No fault shows at an element, nor at its end.
LEMMA NoFaultAt ==
    ASSUME NEW t, Faultless(t), NEW i \in 1 .. Len(t.event), IsOpen(t.event[i])
    PROVE  ValueFaults(t, i) = {} /\ PlaceFaults(t, i) = {}
<1>1. t.close[i] \in i .. Len(t.event) /\ Len(t.event) \in Nat
    BY DEF Faultless, AllClosed
<1>2. FaultsAt(t, i) = {} /\ FaultsAt(t, t.close[i]) = {}
    BY <1>1 DEF Faultless
<1>3. PlaceFaults(t, i) \subseteq FaultsAt(t, i)
    BY Zenon DEF FaultsAt
<1> DEFINE c == t.close[i]
           ended == {j \in 1 .. c : IsOpen(t.event[j]) /\ t.close[j] = c}
<1>4. i \in ended
    BY <1>1
<1>5. UNION {ValueFaults(t, j) : j \in ended} \subseteq FaultsAt(t, c)
    BY Zenon DEF FaultsAt
<1> HIDE DEF ended
<1>6. ValueFaults(t, i) \subseteq FaultsAt(t, c)
    BY <1>4, <1>5
<1> QED BY <1>2, <1>3, <1>6

\* What the end of an element without a fault says of it.
LEMMA HeaderValues ==
    ASSUME NEW t, NEW i, t.part[i] = "FEJRESZ", ValueFaults(t, i) = {}
    PROVE  /\ \A name \in HeaderRequired : Leaf(t, i, name) # {}
           /\ Leaf(t, i, "FORRASRENDSZER_AZONOSITO") \subseteq Tokens(SourceSystem)
           /\ Leaf(t, i, "KULDEMENY_TIPUS") \subseteq Tokens(ConsignmentKind)
<1> DEFINE leaf(name) == Leaf(t, i, name)
           a == IF \E name \in HeaderRequired : leaf(name) = {}
                THEN {"malformed.missing_element"} ELSE {}
           b == IF /\ leaf("FORRASRENDSZER_AZONOSITO") \subseteq Tokens(SourceSystem)
                   /\ leaf("KULDEMENY_TIPUS") \subseteq Tokens(ConsignmentKind)
                THEN {} ELSE {"malformed.enumeration"}
           c == IF leaf("TESZT") \subseteq Yes \cup No THEN {} ELSE {"malformed.boolean"}
<1>1. ValueFaults(t, i) = a \cup b \cup c
    BY Zenon DEF ValueFaults
<1> HIDE DEF leaf, a, b, c
<1>2. a = {} /\ b = {}
    BY <1>1
<1> QED BY <1>2 DEF a, b, leaf

LEMMA AttachmentValues ==
    ASSUME NEW t, NEW i, t.part[i] = "MELLEKLET", ValueFaults(t, i) = {}
    PROVE  /\ \A name \in AttachmentRequired : Leaf(t, i, name) # {}
           /\ Leaf(t, i, "CSATOLMANY_SZAMA") \subseteq DOMAIN Numeral
<1> DEFINE leaf(name) == Leaf(t, i, name)
           a == IF \E name \in AttachmentRequired : leaf(name) = {}
                THEN {"malformed.missing_element"} ELSE {}
           b == IF leaf("CSATOLMANY_SZAMA") \subseteq DOMAIN Numeral
                THEN {} ELSE {"malformed.integer"}
<1>1. ValueFaults(t, i) = a \cup b
    <2>1. t.part[i] # "FEJRESZ"
        OBVIOUS
    <2> QED BY <2>1, Zenon DEF ValueFaults
<1> HIDE DEF leaf, a, b
<1>2. a = {} /\ b = {}
    BY <1>1
<1> QED BY <1>2 DEF a, b, leaf

LEMMA RootValues ==
    ASSUME NEW t, NEW i, t.part[i] = "KULDEMENY", ValueFaults(t, i) = {}
    PROVE  Children(t, i) \cap At(t, "FEJRESZ") # {}
<1> DEFINE a == IF Children(t, i) \cap At(t, "FEJRESZ") # {} THEN {}
                ELSE {"malformed.missing_element"}
<1>1. ValueFaults(t, i) = a
    <2>1. t.part[i] # "FEJRESZ" /\ t.part[i] # "MELLEKLET"
        OBVIOUS
    <2> QED BY <2>1, Zenon DEF ValueFaults
<1>2. a = {}
    BY <1>1
<1> QED BY <1>2

LEMMA CountValues ==
    ASSUME NEW t, NEW i, t.part[i] = "leaf", ValueFaults(t, i) = {},
           t.part[t.parent[i]] = "EXPEDIALAS"
    PROVE  Content(t, i) \in DOMAIN Numeral
<1> DEFINE a == IF Twins(t, i) = {} THEN {} ELSE {"malformed.duplicate_element"}
           b == IF t.part[t.parent[i]] # "EXPEDIALAS" \/ Content(t, i) \in DOMAIN Numeral
                THEN {} ELSE {"malformed.integer"}
<1>1. ValueFaults(t, i) = a \cup b
    <2>1. t.part[i] # "FEJRESZ" /\ t.part[i] # "MELLEKLET" /\ t.part[i] # "KULDEMENY"
        OBVIOUS
    <2> QED BY <2>1, Zenon DEF ValueFaults
<1> HIDE DEF a
<1>2. b = {}
    <2> HIDE DEF b
    <2> QED BY <1>1
<1> QED BY <1>2

\* An event with a part that means something is an element.
LEMMA AtIsOpen ==
    ASSUME NEW t, Faultless(t), NEW name, name # "none", NEW i \in At(t, name)
    PROVE  i \in 1 .. Len(t.event) /\ IsOpen(t.event[i]) /\ t.part[i] = name
<1>1. t = Tree(t.event) /\ t.event \in Seq(Event)
    BY DEF Faultless
<1>2. DOMAIN t.part = 1 .. Len(t.event)
    <2> HIDE DEF Tree
    <2> QED BY <1>1, TreeParts
<1>3. i \in 1 .. Len(t.event) /\ t.part[i] = name
    BY <1>2 DEF At
<1>4. t.part[i] = IF ~IsOpen(t.event[i]) THEN "none"
                  ELSE IF t.parent[i] = 0 THEN "KULDEMENY"
                  ELSE Part(t.part[t.parent[i]], t.event[i])
    <2> HIDE DEF Tree
    <2> QED BY <1>1, <1>3, PartIs
<1> QED BY <1>3, <1>4

LEMMA Token ==
    ASSUME NEW values, NEW option, option # {}, option \subseteq Tokens(values)
    PROVE  The(option)[1] \in values
<1>1. The(option) \in Tokens(values)
    BY TheIs
<1>2. PICK v \in values : The(option) = <<v>>
    BY <1>1 DEF Tokens
<1> QED BY <1>2

LEMMA HeaderIsHeader ==
    ASSUME NEW t, Faultless(t), NEW i \in At(t, "FEJRESZ")
    PROVE  HeaderAt(t, i) \in Header
<1>1. i \in 1 .. Len(t.event) /\ IsOpen(t.event[i]) /\ t.part[i] = "FEJRESZ"
    BY AtIsOpen
<1>2. ValueFaults(t, i) = {}
    BY <1>1, NoFaultAt
<1>3. /\ \A name \in HeaderRequired : Leaf(t, i, name) # {}
      /\ Leaf(t, i, "FORRASRENDSZER_AZONOSITO") \subseteq Tokens(SourceSystem)
      /\ Leaf(t, i, "KULDEMENY_TIPUS") \subseteq Tokens(ConsignmentKind)
    BY <1>1, <1>2, HeaderValues
<1>4. \A name : Leaf(t, i, name) \subseteq Text
    BY <1>1, LeafIsText
<1>5. \A name \in HeaderRequired : The(Leaf(t, i, name)) \in Text
    BY <1>3, <1>4, TheIs
<1>6. /\ "KRX_VERZIOSZAM" \in HeaderRequired /\ "KULDEMENY_AZONOSITO" \in HeaderRequired
      /\ "KULDEMENY_LETREHOZASANAK_IDEJE" \in HeaderRequired
      /\ "FORRASRENDSZER_AZONOSITO" \in HeaderRequired /\ "KULDEMENY_TIPUS" \in HeaderRequired
    BY DEF HeaderRequired
<1>7. /\ The(Leaf(t, i, "FORRASRENDSZER_AZONOSITO"))[1] \in SourceSystem
      /\ The(Leaf(t, i, "KULDEMENY_TIPUS"))[1] \in ConsignmentKind
    BY <1>3, <1>6, Token
<1>8. (Leaf(t, i, "TESZT") \cap Yes # {}) \in BOOLEAN /\ (Leaf(t, i, "TESZT") # Absent) \in BOOLEAN
    OBVIOUS
<1> QED BY <1>4, <1>5, <1>6, <1>7, <1>8 DEF HeaderAt, Header

LEMMA AttachmentIsReference ==
    ASSUME NEW t, Faultless(t), NEW i \in At(t, "MELLEKLET")
    PROVE  AttachmentAt(t, i) \in AttachmentReference
<1>1. i \in 1 .. Len(t.event) /\ IsOpen(t.event[i]) /\ t.part[i] = "MELLEKLET"
    BY AtIsOpen
<1>2. ValueFaults(t, i) = {}
    BY <1>1, NoFaultAt
<1>3. /\ \A name \in AttachmentRequired : Leaf(t, i, name) # {}
      /\ Leaf(t, i, "CSATOLMANY_SZAMA") \subseteq DOMAIN Numeral
    BY <1>1, <1>2, AttachmentValues
<1>4. \A name : Leaf(t, i, name) \subseteq Text
    BY <1>1, LeafIsText
<1>5. \A name \in AttachmentRequired : The(Leaf(t, i, name)) \in Leaf(t, i, name)
    BY <1>3, TheIs
<1>6. /\ "CSATOLMANY_SZAMA" \in AttachmentRequired /\ "FAJL_NEV" \in AttachmentRequired
      /\ "MERET" \in AttachmentRequired /\ "ELHELYEZKEDES" \in AttachmentRequired
    BY DEF AttachmentRequired
<1>7. Numeral[The(Leaf(t, i, "CSATOLMANY_SZAMA"))] \in Int
    <2>1. The(Leaf(t, i, "CSATOLMANY_SZAMA")) \in DOMAIN Numeral
        BY <1>3, <1>5, <1>6
    <2> QED BY <2>1, NumeralAssumption
<1>8. /\ The(Leaf(t, i, "FAJL_NEV")) \in Text /\ The(Leaf(t, i, "MERET")) \in Text
      /\ The(Leaf(t, i, "ELHELYEZKEDES")) \in Text
    BY <1>4, <1>5, <1>6
<1>9. (The(Leaf(t, i, "MERET")) \in Finite) \in BOOLEAN
    OBVIOUS
<1> QED BY <1>4, <1>7, <1>8, <1>9 DEF AttachmentAt, AttachmentReference

LEMMA PartOfCount ==
    ASSUME NEW e, e.binding = "target", e.name = "MELLEKLETEK_SZAMA"
    PROVE  Part("EXPEDIALAS", e) = "leaf"
<1>1. "EXPEDIALAS" \in DOMAIN Grammar
    BY DEF Grammar
<1>2. Grammar["EXPEDIALAS"] = [n \in {"MELLEKLETEK", "MELLEKLETEK_SZAMA"} |->
                          IF n = "MELLEKLETEK" THEN n ELSE "leaf"]
    BY DEF Grammar
<1>3. e.name \in DOMAIN Grammar["EXPEDIALAS"] /\ Grammar["EXPEDIALAS"][e.name] = "leaf"
    BY <1>2
<1> QED BY <1>1, <1>3, Zenon DEF Part

LEMMA DispatchIsDispatch ==
    ASSUME NEW t, Faultless(t), NEW i \in At(t, "EXPEDIALAS")
    PROVE  DispatchAt(t, i) \in Dispatch
<1> DEFINE d == t.event
           lists == Children(t, i) \cap At(t, "MELLEKLETEK")
           S == {j \in At(t, "MELLEKLET") : t.parent[j] \in lists}
           items == InOrder(S)
<1>1. i \in 1 .. Len(d) /\ IsOpen(d[i]) /\ t.part[i] = "EXPEDIALAS"
    BY AtIsOpen
<1>2. t = Tree(d) /\ d \in Seq(Event) /\ Len(d) \in Nat
    BY DEF Faultless
<1>3. ASSUME NEW c \in Leaf(t, i, "MELLEKLETEK_SZAMA") PROVE Numeral[c] \in Int
    <2>1. PICK j \in Children(t, i) :
             /\ d[j].name = "MELLEKLETEK_SZAMA" /\ d[j].binding = "target" /\ c = Content(t, j)
        BY DEF Leaf
    <2>2. j \in 1 .. Len(d) /\ IsOpen(d[j]) /\ t.parent[j] = i
        BY <1>1, ChildrenAre
    <2>3. t.part[j] = Part("EXPEDIALAS", d[j])
        <3>1. i # 0
            BY <1>1
        <3>2. t.part[j] = IF ~IsOpen(d[j]) THEN "none"
                          ELSE IF t.parent[j] = 0 THEN "KULDEMENY"
                          ELSE Part(t.part[t.parent[j]], d[j])
            <4> HIDE DEF d, Tree
            <4> QED BY <1>2, <2>2, PartIs
        <3> HIDE DEF d
        <3> QED BY <1>1, <2>2, <3>1, <3>2
    <2>4. t.part[j] = "leaf"
        BY <2>1, <2>3, PartOfCount
    <2>5. ValueFaults(t, j) = {}
        BY <2>2, NoFaultAt
    <2>6. c \in DOMAIN Numeral
        BY <1>1, <2>1, <2>2, <2>4, <2>5, CountValues
    <2> QED BY <2>6, NumeralAssumption
<1>4. items \in Seq(S) /\ \A k \in DOMAIN items : items[k] \in At(t, "MELLEKLET")
    <2>1. S \subseteq 1 .. Len(d)
        BY AtIsOpen
    <2>2. items \in Seq(S)
        <3> HIDE DEF S
        <3> QED BY <1>2, <2>1, InOrderIs
    <2>3. \A k \in DOMAIN items : items[k] \in S
        <3> HIDE DEF items, S
        <3> QED BY <2>2
    <2> HIDE DEF items
    <2> QED BY <2>2, <2>3
<1>5. [k \in DOMAIN items |-> AttachmentAt(t, items[k])] \in Seq(AttachmentReference)
    <2>1. \A k \in DOMAIN items : AttachmentAt(t, items[k]) \in AttachmentReference
        BY <1>4, AttachmentIsReference
    <2>2. Len(items) \in Nat /\ DOMAIN items = 1 .. Len(items)
        <3> HIDE DEF items, S
        <3> QED BY <1>4
    <2> HIDE DEF items
    <2> QED BY <2>1, <2>2
<1>6. {Numeral[c] : c \in Leaf(t, i, "MELLEKLETEK_SZAMA")} \subseteq Int
    BY <1>3
<1>7. (lists # {}) \in BOOLEAN /\ (Children(t, i) \cap At(t, "instructions") # {}) \in BOOLEAN
    OBVIOUS
<1>8. DispatchAt(t, i) =
        [declared_attachment_count |-> {Numeral[c] : c \in Leaf(t, i, "MELLEKLETEK_SZAMA")},
         attachments |-> [k \in DOMAIN items |-> AttachmentAt(t, items[k])],
         attachments_present |-> lists # {},
         handling_instructions_unqualified |->
            Children(t, i) \cap At(t, "instructions") # {}]
    BY DEF DispatchAt
<1> HIDE DEF items, lists
<1> QED BY <1>5, <1>6, <1>7, <1>8 DEF Dispatch

LEMMA RootIsThere ==
    ASSUME NEW t, Faultless(t)
    PROVE  At(t, "FEJRESZ") # {}
<1> DEFINE d == t.event
           f == FirstElement(t)
<1>1. t = Tree(d) /\ d \in Seq(Event) /\ f \in 1 .. Len(d) /\ Len(d) \in Nat
    BY DEF Faultless
<1>2. IsOpen(d[f]) /\ \A i \in 1 .. Len(d) : IsOpen(d[i]) => f <= i
    BY <1>1, FirstIs
<1>3. t.parent[f] \in 0 .. f - 1 /\ (t.parent[f] # 0 => d[t.parent[f]].kind = "start")
    <2> HIDE DEF Tree, f, d
    <2> QED BY <1>1, ParentIs
<1>4. t.parent[f] = 0
    <2> SUFFICES ASSUME t.parent[f] # 0 PROVE FALSE
        OBVIOUS
    <2>1. t.parent[f] \in 1 .. Len(d) /\ t.parent[f] < f
        BY <1>1, <1>3
    <2>2. IsOpen(d[t.parent[f]])
        BY <1>3 DEF IsOpen
    <2> HIDE DEF f, d
    <2> QED BY <1>1, <1>2, <2>1, <2>2
<1>5. t.part[f] = "KULDEMENY"
    <2>1. t.part[f] = IF ~IsOpen(d[f]) THEN "none"
                      ELSE IF t.parent[f] = 0 THEN "KULDEMENY"
                      ELSE Part(t.part[t.parent[f]], d[f])
        <3> HIDE DEF Tree, f, d
        <3> QED BY <1>1, PartIs
    <2> QED BY <1>2, <1>4, <2>1
<1>6. ValueFaults(t, f) = {}
    BY <1>1, <1>2, NoFaultAt
<1> HIDE DEF f
<1> QED BY <1>5, <1>6, RootValues

LEMMA MeaningIsMetadata ==
    ASSUME NEW t, Faultless(t)
    PROVE  Meaning(t) \in Metadata
<1> DEFINE ds == InOrder(At(t, "EXPEDIALAS"))
<1>1. \A name : name # "none" => At(t, name) \subseteq 1 .. Len(t.event)
    BY AtIsOpen
<1>2. Len(t.event) \in Nat
    BY DEF Faultless
<1>3. HeaderAt(t, The(At(t, "FEJRESZ"))) \in Header
    BY RootIsThere, TheIs, HeaderIsHeader
<1>4. ds \in Seq(At(t, "EXPEDIALAS"))
    <2>1. At(t, "EXPEDIALAS") \subseteq 1 .. Len(t.event)
        BY <1>1
    <2> QED BY <1>2, <2>1, InOrderIs
<1>5. [k \in DOMAIN ds |-> DispatchAt(t, ds[k])] \in Seq(Dispatch)
    <2> HIDE DEF ds
    <2>1. \A k \in DOMAIN ds : DispatchAt(t, ds[k]) \in Dispatch
        BY <1>4, DispatchIsDispatch
    <2>2. Len(ds) \in Nat /\ DOMAIN ds = 1 .. Len(ds)
        BY <1>4
    <2> QED BY <2>1, <2>2
<1>6. Cardinality(At(t, "unknown")) \in Nat
    <2>1. At(t, "unknown") \subseteq 1 .. Len(t.event)
        BY <1>1
    <2> QED BY <1>2, <2>1, InOrderIs
<1>7. /\ (At(t, "ERKEZTETES") # {}) \in BOOLEAN /\ (At(t, "BONTASOK") # {}) \in BOOLEAN
      /\ (At(t, "TERTIVEVENY") # {}) \in BOOLEAN
    OBVIOUS
<1>8. Meaning(t) = [header |-> HeaderAt(t, The(At(t, "FEJRESZ"))),
         receipt_present |-> At(t, "ERKEZTETES") # {},
         openings_present |-> At(t, "BONTASOK") # {},
         return_receipt_present |-> At(t, "TERTIVEVENY") # {},
         dispatches |-> [k \in DOMAIN ds |-> DispatchAt(t, ds[k])],
         unknown_elements |-> Cardinality(At(t, "unknown"))]
    BY DEF Meaning
<1> HIDE DEF ds
<1> QED BY <1>3, <1>5, <1>6, <1>7, <1>8 DEF Metadata

\* What the reader makes of a document without a fault is a value of model.rs.
LEMMA AcceptedIsMetadata ==
    ASSUME NEW d \in Seq(Event), Verdict(d).kind = "accepted"
    PROVE  Verdict(d).value \in Metadata
BY AcceptedIsFaultless, MeaningIsMetadata

-----------------------------------------------------------------------------
(* The reader: what it refuses.                                            *)

LEMMA OpenFaultsAreCodes == ASSUME NEW t, NEW i PROVE OpenFaults(t, i) \subseteq Code
<1> DEFINE C == {"malformed.unbound_prefix", "over_limit.elements", "over_limit.depth",
                 "malformed.attribute", "over_limit.attributes_per_element",
                 "malformed.entity", "over_limit.text_bytes"}
<1>1. OpenFaults(t, i) \subseteq C
    BY Zenon DEF OpenFaults
<1>2. C \subseteq Code
    BY DEF Code
<1> HIDE DEF C
<1> QED BY <1>1, <1>2

LEMMA EventFaultsAreCodes == ASSUME NEW t, NEW i PROVE EventFaults(t, i) \subseteq Code
<1> DEFINE e == t.event[i]
           error == CASE e.error = "Escape" -> "malformed.entity"
                      [] e.error = "Encoding" -> "malformed.encoding"
                      [] e.error = "InvalidAttr" -> "malformed.attribute"
                      [] e.error = "Namespace" -> "malformed.unbound_prefix"
                      [] OTHER -> "malformed.syntax"
           text == IF e.kind = "reference" /\ e.pieces = <<>> THEN {"malformed.entity"}
                   ELSE IF Charged(t.event, i)
                              + (IF e.kind = "reference" THEN Len(e.pieces) ELSE e.raw) > MaxText
                        THEN {"over_limit.text_bytes"} ELSE {}
<1>1. EventFaults(t, i) =
        CASE IsOpen(e) -> OpenFaults(t, i)
          [] e.kind = "doctype" -> {"unsupported.dtd"}
          [] e.kind = "instruction" -> {"unsupported.processing_instruction"}
          [] e.kind = "declaration" /\ e.encoding = "other" -> {"unsupported.encoding"}
          [] e.kind = "declaration" /\ e.encoding = "broken" -> {"malformed.attribute"}
          [] e.kind = "broken" -> {error}
          [] IsText(e) -> text
          [] OTHER -> {}
    BY Zenon DEF EventFaults
<1>2. error \in Code
    BY DEF Code
<1>3. text \subseteq Code
    BY DEF Code
<1>4. /\ {"unsupported.dtd", "unsupported.processing_instruction"} \subseteq Code
      /\ {"unsupported.encoding", "malformed.attribute", "malformed.entity"} \subseteq Code
    BY DEF Code
<1> HIDE DEF error, text, e
<1>5. OpenFaults(t, i) \subseteq Code
    BY OpenFaultsAreCodes
<1> QED BY <1>1, <1>2, <1>3, <1>4, <1>5

LEMMA PlaceFaultsAreCodes == ASSUME NEW t, NEW i PROVE PlaceFaults(t, i) \subseteq Code
<1> DEFINE p == t.parent[i]
           e == t.event[i]
           place(name) == CHOOSE k \in DOMAIN Blocks : Blocks[k] = name
           blocks(from, to) == {j \in from .. to : t.part[j] \in Range(Blocks)}
           late == \E j \in blocks(1, i - 1) : place(t.part[j]) > place(t.part[i])
           a == IF e.name = "KULDEMENY" THEN {} ELSE {"malformed.root_element"}
           b == IF Twins(t, i) # {} THEN {"malformed.duplicate_element"}
                ELSE IF i \in blocks(i, i) /\ late THEN {"malformed.element_order"} ELSE {}
<1>1. PlaceFaults(t, i) =
        CASE p = 0 /\ e.binding # "target" -> {"unsupported.namespace"}
          [] p = 0 /\ e.binding = "target" -> a
          [] p # 0 /\ t.part[p] = "leaf" -> {"malformed.unexpected_child"}
          [] p # 0 /\ t.part[i] \in Range(Blocks) \cup {"MELLEKLETEK"} -> b
          [] OTHER -> {}
    BY Zenon DEF PlaceFaults
<1> HIDE DEF late, blocks, p, e
<1>2. a \subseteq Code /\ b \subseteq Code
    BY DEF Code
<1>3. {"unsupported.namespace", "malformed.unexpected_child"} \subseteq Code
    BY DEF Code
<1> HIDE DEF a, b
<1> QED BY <1>1, <1>2, <1>3

LEMMA ValueFaultsAreCodes == ASSUME NEW t, NEW i PROVE ValueFaults(t, i) \subseteq Code
<1> DEFINE M == {"malformed.missing_element"}
           leaf(name) == Leaf(t, i, name)
           missing(names) == IF \E n \in names : leaf(n) = {} THEN M ELSE {}
           unless(holds, code) == IF holds THEN {} ELSE {code}
           a == missing(HeaderRequired)
           b == unless(/\ leaf("FORRASRENDSZER_AZONOSITO") \subseteq Tokens(SourceSystem)
                       /\ leaf("KULDEMENY_TIPUS") \subseteq Tokens(ConsignmentKind),
                       "malformed.enumeration")
           c == unless(leaf("TESZT") \subseteq Yes \cup No, "malformed.boolean")
           d == missing(AttachmentRequired)
           e == unless(leaf("CSATOLMANY_SZAMA") \subseteq DOMAIN Numeral, "malformed.integer")
           f == unless(Children(t, i) \cap At(t, "FEJRESZ") # {}, "malformed.missing_element")
           g == unless(Twins(t, i) = {}, "malformed.duplicate_element")
           h == unless(\/ t.part[t.parent[i]] # "EXPEDIALAS"
                       \/ Content(t, i) \in DOMAIN Numeral, "malformed.integer")
<1>1. ValueFaults(t, i) =
        CASE t.part[i] = "FEJRESZ" -> a \cup b \cup c
          [] t.part[i] = "MELLEKLET" -> d \cup e
          [] t.part[i] = "KULDEMENY" -> f
          [] t.part[i] = "leaf" -> g \cup h
          [] OTHER -> {}
    BY Zenon DEF ValueFaults
<1>2. /\ {"malformed.missing_element", "malformed.enumeration", "malformed.boolean"} \subseteq Code
      /\ {"malformed.integer", "malformed.duplicate_element"} \subseteq Code
    BY DEF Code
<1>3. a \subseteq Code /\ b \subseteq Code /\ c \subseteq Code /\ d \subseteq Code
    BY <1>2, Zenon
<1>4. e \subseteq Code /\ f \subseteq Code /\ g \subseteq Code /\ h \subseteq Code
    BY <1>2, Zenon
<1> HIDE DEF a, b, c, d, e, f, g, h
<1> QED BY <1>1, <1>3, <1>4

LEMMA FaultsAreCodes == ASSUME NEW t, NEW i PROVE FaultsAt(t, i) \subseteq Code
<1> DEFINE ended == {j \in 1 .. i : IsOpen(t.event[j]) /\ t.close[j] = i}
           u == UNION {ValueFaults(t, j) : j \in ended}
           p == IF IsOpen(t.event[i]) THEN PlaceFaults(t, i) ELSE {}
<1>1. FaultsAt(t, i) = EventFaults(t, i) \cup p \cup u
    BY Zenon DEF FaultsAt
<1>2. p \subseteq Code
    BY PlaceFaultsAreCodes
<1> HIDE DEF ended
<1>3. u \subseteq Code
    BY ValueFaultsAreCodes
<1> HIDE DEF p, u
<1> QED BY <1>1, <1>2, <1>3, EventFaultsAreCodes

-----------------------------------------------------------------------------
(* What is said once: a document without a fault has no twins.             *)

\* An option that is one, and a reference, a header and a dispatch as they
\* are when a document without a fault says them.
Once(option) == OneOf(option) = option
ReferenceOnce(a) ==
    /\ Once(a.description) /\ Once(a.quantity) /\ Once(a.quantity_unit)
    /\ a.size_value = (a.size_text \in Finite)
HeaderOnce(h) ==
    /\ Once(h.barcode) /\ Once(h.reference_id) /\ Once(h.error_code) /\ Once(h.note)
    /\ h.test => h.test_present
DispatchOnce(D) ==
    /\ \A k \in 1 .. Len(D.attachments) : ReferenceOnce(D.attachments[k])
    /\ D.attachments # <<>> => D.attachments_present

LEMMA OnceIs ==
    ASSUME NEW option, \A x, y \in option : x = y
    PROVE  Once(option)
<1>1. CASE option = {}
    BY <1>1 DEF Once, OneOf, Absent
<1>2. CASE option # {}
    <2>1. PICK x \in option : option = {x}
        BY <1>2
    <2>2. The(option) = x
        BY <2>1, TheOne
    <2> QED BY <1>2, <2>1, <2>2 DEF Once, OneOf, Absent, Present
<1> QED BY <1>1, <1>2

\* Two children of a name in a header or an attachment would be twins.
LEMMA LeafOnce ==
    ASSUME NEW t, Faultless(t), NEW i \in 1 .. Len(t.event), IsOpen(t.event[i]),
           t.part[i] \in {"FEJRESZ", "MELLEKLET"}, NEW name \in Field
    PROVE  Once(Leaf(t, i, name))
<1> DEFINE d == t.event
           is(j) == j \in Children(t, i) /\ d[j].name = name /\ d[j].binding = "target"
<1>1. t = Tree(d) /\ d \in Seq(Event)
    BY DEF Faultless
<1>2. ASSUME NEW j, is(j) PROVE j \in 1 .. Len(d) /\ IsOpen(d[j]) /\ t.parent[j] = i /\ t.part[j] = "leaf"
    <2>1. j \in 1 .. Len(d) /\ IsOpen(d[j]) /\ t.parent[j] = i
        BY <1>2, ChildrenAre
    <2>2. t.part[j] = IF ~IsOpen(d[j]) THEN "none"
                      ELSE IF t.parent[j] = 0 THEN "KULDEMENY"
                      ELSE Part(t.part[t.parent[j]], d[j])
        <3> HIDE DEF d, Tree
        <3> QED BY <1>1, <2>1, PartIs
    <2>3. t.part[j] = Part(t.part[i], d[j])
        BY <2>1, <2>2
    <2>4. Part(t.part[i], d[j]) = "leaf"
        BY <1>2, Meanings
    <2> QED BY <2>1, <2>3, <2>4
<1>3. ASSUME NEW j, is(j) PROVE Twins(t, j) = {}
    <2> DEFINE a == IF Twins(t, j) = {} THEN {} ELSE {"malformed.duplicate_element"}
               b == IF t.part[t.parent[j]] # "EXPEDIALAS" \/ Content(t, j) \in DOMAIN Numeral
                    THEN {} ELSE {"malformed.integer"}
    <2>1. ValueFaults(t, j) = {}
        BY <1>2, <1>3, NoFaultAt
    <2>2. t.part[j] = "leaf"
        BY <1>2, <1>3
    <2>3. ValueFaults(t, j) = a \cup b
        <3>1. t.part[j] # "FEJRESZ" /\ t.part[j] # "MELLEKLET" /\ t.part[j] # "KULDEMENY"
            BY <2>2
        <3> QED BY <2>2, <3>1, Zenon DEF ValueFaults
    <2> HIDE DEF b
    <2>4. a = {}
        <3> HIDE DEF a
        <3> QED BY <2>1, <2>3
    <2> QED BY <2>4
<1>4. ASSUME NEW j, NEW k, is(j), is(k), j < k PROVE FALSE
    <2>1. j \in 1 .. Len(d) /\ k \in 1 .. Len(d)
        BY <1>2, <1>4
    <2>2. j \in 1 .. k - 1
        BY <1>4, <2>1
    <2>3. t.part[j] = t.part[k] /\ t.parent[j] = t.parent[k] /\ t.event[j].name = t.event[k].name
        BY <1>2, <1>4
    <2>4. j \in Twins(t, k)
        BY <2>2, <2>3 DEF Twins
    <2> QED BY <1>3, <1>4, <2>4
<1>5. ASSUME NEW j, NEW k, is(j), is(k) PROVE j = k
    <2>1. j \in 1 .. Len(d) /\ k \in 1 .. Len(d) /\ ~(j < k) /\ ~(k < j)
        BY <1>2, <1>4, <1>5
    <2> HIDE DEF is, d
    <2> QED BY <2>1
<1>6. \A x, y \in Leaf(t, i, name) : x = y
    <2> TAKE x, y \in Leaf(t, i, name)
    <2>1. PICK j, k : is(j) /\ is(k) /\ x = Content(t, j) /\ y = Content(t, k)
        BY DEF Leaf
    <2> HIDE DEF is
    <2>2. j = k
        BY <1>5, <2>1
    <2> QED BY <2>1, <2>2
<1> QED BY <1>6, OnceIs

LEMMA NamesInField ==
    {"VONALKOD", "KULDEMENY_HIVATKOZASI_AZONOSITO", "HIBAKOD", "KULDEMENY_MEGJEGYZES",
     "MELLEKLET_LEIRASA", "MENNYISEG", "MENNYISEGI_EGYSEG"} \subseteq Field
BY DEF Field, HeaderOptional, AttachmentOptional

LEMMA HeaderSaysOnce ==
    ASSUME NEW t, Faultless(t), NEW i \in At(t, "FEJRESZ")
    PROVE  HeaderOnce(HeaderAt(t, i))
<1> DEFINE L(name) == Leaf(t, i, name)
           h == HeaderAt(t, i)
<1>1. i \in 1 .. Len(t.event) /\ IsOpen(t.event[i]) /\ t.part[i] = "FEJRESZ"
    BY AtIsOpen
<1>2. \A name \in Field : Once(L(name))
    BY <1>1, LeafOnce
<1>3. /\ h.barcode = L("VONALKOD") /\ h.reference_id = L("KULDEMENY_HIVATKOZASI_AZONOSITO")
      /\ h.error_code = L("HIBAKOD") /\ h.note = L("KULDEMENY_MEGJEGYZES")
      /\ h.test = (L("TESZT") \cap Yes # {}) /\ h.test_present = (L("TESZT") # {})
    BY DEF HeaderAt, Absent
<1> HIDE DEF L, h
<1>4. /\ Once(L("VONALKOD")) /\ Once(L("KULDEMENY_HIVATKOZASI_AZONOSITO")) /\ Once(L("HIBAKOD"))
      /\ Once(L("KULDEMENY_MEGJEGYZES"))
    BY <1>2, NamesInField
<1>5. h.test => h.test_present
    BY <1>3
<1>6. HeaderOnce(h)
    BY <1>3, <1>4, <1>5, Zenon DEF HeaderOnce
<1> QED BY <1>6 DEF h

LEMMA ReferenceSaysOnce ==
    ASSUME NEW t, Faultless(t), NEW i \in At(t, "MELLEKLET")
    PROVE  ReferenceOnce(AttachmentAt(t, i))
<1> DEFINE L(name) == Leaf(t, i, name)
           a == AttachmentAt(t, i)
<1>1. i \in 1 .. Len(t.event) /\ IsOpen(t.event[i]) /\ t.part[i] = "MELLEKLET"
    BY AtIsOpen
<1>2. \A name \in Field : Once(L(name))
    BY <1>1, LeafOnce
<1>3. /\ a.description = L("MELLEKLET_LEIRASA") /\ a.quantity = L("MENNYISEG")
      /\ a.quantity_unit = L("MENNYISEGI_EGYSEG")
      /\ a.size_text = The(L("MERET")) /\ a.size_value = (The(L("MERET")) \in Finite)
    BY DEF AttachmentAt
<1> HIDE DEF L, a
<1>4. Once(L("MELLEKLET_LEIRASA")) /\ Once(L("MENNYISEG")) /\ Once(L("MENNYISEGI_EGYSEG"))
    BY <1>2, NamesInField
<1>5. ReferenceOnce(a)
    BY <1>3, <1>4, Zenon DEF ReferenceOnce
<1> QED BY <1>5 DEF a

LEMMA DispatchSaysOnce ==
    ASSUME NEW t, Faultless(t), NEW i \in At(t, "EXPEDIALAS")
    PROVE  DispatchOnce(DispatchAt(t, i))
<1> DEFINE d == t.event
           lists == Children(t, i) \cap At(t, "MELLEKLETEK")
           S == {j \in At(t, "MELLEKLET") : t.parent[j] \in lists}
           items == InOrder(S)
           D == DispatchAt(t, i)
<1>1. S \subseteq 1 .. Len(d) /\ Len(d) \in Nat
    BY AtIsOpen DEF Faultless
<1>2. /\ D.attachments = [k \in DOMAIN items |-> AttachmentAt(t, items[k])]
      /\ D.attachments_present = (lists # {})
    BY DEF DispatchAt
<1>3. items \in Seq(S)
    <2> HIDE DEF S
    <2> QED BY <1>1, InOrderIs
<1>4. Len(items) \in Nat /\ DOMAIN items = 1 .. Len(items) /\ \A k \in 1 .. Len(items) : items[k] \in S
    <2> HIDE DEF S, items
    <2> QED BY <1>3
<1>5. \A k \in 1 .. Len(items) : items[k] \in At(t, "MELLEKLET") /\ t.parent[items[k]] \in lists
    BY <1>4
<1> HIDE DEF items, lists, D
<1>6. Len(D.attachments) = Len(items)
    <2> DEFINE s == [k \in 1 .. Len(items) |-> AttachmentAt(t, items[k])]
    <2>1. s = D.attachments
        BY <1>2, <1>4
    <2>2. Len(s) = Len(items)
        BY <1>4
    <2> QED BY <2>1, <2>2
<1>7. \A k \in 1 .. Len(D.attachments) : ReferenceOnce(D.attachments[k])
    <2> TAKE k \in 1 .. Len(D.attachments)
    <2>1. k \in 1 .. Len(items) /\ D.attachments[k] = AttachmentAt(t, items[k])
        BY <1>2, <1>4, <1>6
    <2> QED BY <1>5, <2>1, ReferenceSaysOnce
<1>8. D.attachments # <<>> => D.attachments_present
    <2> SUFFICES ASSUME lists = {} PROVE D.attachments = <<>>
        BY <1>2
    <2>1. 1 .. Len(items) = {}
        BY <1>5
    <2> QED BY <1>2, <1>4, <2>1
<1>9. DispatchOnce(D)
    BY <1>7, <1>8 DEF DispatchOnce
<1> QED BY <1>9 DEF D

\* What the reader makes of a document is what it would make of it again.
SaidOnce(m) ==
    /\ HeaderOnce(m.header)
    /\ \A k \in 1 .. Len(m.dispatches) : DispatchOnce(m.dispatches[k])

LEMMA AcceptedSaysOnce ==
    ASSUME NEW d \in Seq(Event), Verdict(d).kind = "accepted"
    PROVE  SaidOnce(Verdict(d).value)
<1>1. PICK t : Faultless(t) /\ Verdict(d).value = Meaning(t)
    BY AcceptedIsFaultless
<1> DEFINE m == Meaning(t)
           S == At(t, "EXPEDIALAS")
           ds == InOrder(S)
<1>2. /\ m.header = HeaderAt(t, The(At(t, "FEJRESZ")))
      /\ m.dispatches = [k \in DOMAIN ds |-> DispatchAt(t, ds[k])]
    BY DEF Meaning
<1>3. HeaderOnce(m.header)
    <2>1. The(At(t, "FEJRESZ")) \in At(t, "FEJRESZ")
        BY <1>1, RootIsThere, TheIs
    <2> QED BY <1>1, <1>2, <2>1, HeaderSaysOnce
<1>4. S \subseteq 1 .. Len(t.event) /\ Len(t.event) \in Nat
    BY <1>1, AtIsOpen DEF Faultless
<1>5. ds \in Seq(S)
    <2> HIDE DEF S
    <2> QED BY <1>4, InOrderIs
<1>6. Len(ds) \in Nat /\ DOMAIN ds = 1 .. Len(ds) /\ \A k \in 1 .. Len(ds) : ds[k] \in S
    <2> HIDE DEF S, ds
    <2> QED BY <1>5
<1> HIDE DEF ds, m
<1>7. Len(m.dispatches) = Len(ds)
    <2> DEFINE s == [k \in 1 .. Len(ds) |-> DispatchAt(t, ds[k])]
    <2>1. s = m.dispatches
        BY <1>2, <1>6
    <2>2. Len(s) = Len(ds)
        BY <1>6
    <2> QED BY <2>1, <2>2
<1>8. \A k \in 1 .. Len(m.dispatches) : DispatchOnce(m.dispatches[k])
    <2> TAKE k \in 1 .. Len(m.dispatches)
    <2>1. k \in 1 .. Len(ds) /\ m.dispatches[k] = DispatchAt(t, ds[k])
        BY <1>2, <1>6, <1>7
    <2> QED BY <1>1, <1>6, <2>1, DispatchSaysOnce
<1>9. SaidOnce(m)
    BY <1>3, <1>8 DEF SaidOnce
<1> QED BY <1>1, <1>9 DEF m

=============================================================================
