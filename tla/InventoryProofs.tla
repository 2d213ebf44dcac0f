--------------------------- MODULE InventoryProofs ---------------------------
(***************************************************************************)
(* The archive inventory, for every image, every limit and every width of  *)
(* a record: each byte of an accepted archive has one owner, the ceilings  *)
(* hold at every chunk, what was decoded once decodes again, and what is   *)
(* accepted is exactly what is a package.                                  *)
(***************************************************************************)
EXTENDS Inventory, Integers, FiniteSetTheorems, TLAPS

-----------------------------------------------------------------------------
(* Least members.                                                          *)

\* A set of numbers has a least one.
LEMMA LeastNumber ==
    ASSUME NEW T, T \subseteq Nat, T # {}
    PROVE  \E m \in T : \A n \in T : m <= n
<1>1. PICK R : /\ IsWellFoundedOn(R, Nat)
               /\ \A m, n \in Nat : n < m => <<n, m>> \in R
    <2> WITNESS OpToRel(<, Nat)
    <2>1. IsWellFoundedOn(OpToRel(<, Nat), Nat)
        BY NatLessThanWellFounded
    <2>2. ASSUME NEW m \in Nat, NEW n \in Nat, n < m PROVE <<n, m>> \in OpToRel(<, Nat)
        <3>1. <<n, m>> \in {p \in Nat \X Nat : p[1] < p[2]}
            BY <2>2
        <3> QED BY <3>1, Zenon DEF OpToRel
    <2> QED BY <2>1, <2>2, Zenon
<1>2. PICK m \in T : \A n \in T : <<n, m>> \notin R
    BY <1>1, WFMin
<1>3. \A n \in T : ~(n < m)
    BY <1>1, <1>2
<1> QED BY <1>2, <1>3

\* A family of finite sets, all within one, has a member no other is within.
LEMMA SmallestSet ==
    ASSUME NEW S, IsFiniteSet(S), NEW F, F \subseteq SUBSET S, F # {}
    PROVE  \E X \in F : \A Y \in F : Y \subseteq X => Y = X
<1>1. IsWellFoundedOn(StrictSubsetOrdering(S), SUBSET S)
  BY FS_StrictSubsetOrderingWellFounded, FS_FiniteSubsetsOfFinite
<1>2. PICK X \in F : \A Y \in F : <<Y, X>> \notin StrictSubsetOrdering(S)
  BY <1>1, WFMin
<1> QED
  BY <1>2 DEF StrictSubsetOrdering

-----------------------------------------------------------------------------
(* Sums.  SumFunction is a recursive function over the subsets of a        *)
(* domain, and picks what it takes out next.                               *)

PickOf(s) == CHOOSE y \in s : TRUE

\* h sums f over each subset of S.
SumsUp(h, f, S) ==
    h = [s \in SUBSET S |-> IF s = {} THEN 0 ELSE f[PickOf(s)] + h[s \ {PickOf(s)}]]

\* Sums depend on the summed values alone.
LEMMA SumsAgree ==
    ASSUME NEW A, NEW B, NEW e, NEW f, NEW g, NEW h, SumsUp(g, e, A), SumsUp(h, f, B),
           NEW S, IsFiniteSet(S), S \subseteq A, S \subseteq B,
           \A x \in S : e[x] = f[x]
    PROVE  g[S] = h[S]
PROOF
<1> DEFINE F == {s \in SUBSET S : g[s] # h[s]}
<1> SUFFICES ASSUME F # {} PROVE FALSE
  OBVIOUS
<1>1. PICK s \in F : \A t \in F : t \subseteq s => t = s
  <2>1. F \subseteq SUBSET S
    OBVIOUS
  <2> HIDE DEF F
  <2> QED
    BY <2>1, SmallestSet
<1>2. s \in SUBSET A /\ s \in SUBSET B
  OBVIOUS
<1>3. s # {}
  <2>1. s = {} => g[s] = 0 /\ h[s] = 0
    BY <1>2 DEF SumsUp
  <2> QED
    BY <2>1
<1>4. PickOf(s) \in s
  BY <1>3 DEF PickOf
<1>5. s \ {PickOf(s)} \notin F
  BY <1>1, <1>4
<1>6. g[s \ {PickOf(s)}] = h[s \ {PickOf(s)}]
  BY <1>5
<1>7. g[s] = e[PickOf(s)] + g[s \ {PickOf(s)}]
  BY <1>2, <1>3 DEF SumsUp
<1>8. h[s] = f[PickOf(s)] + h[s \ {PickOf(s)}]
  BY <1>2, <1>3 DEF SumsUp
<1> QED
  BY <1>1, <1>4, <1>6, <1>7, <1>8

\* Every function on a finite set has its sums.
LEMMA SumsExist ==
    ASSUME NEW f, NEW S, IsFiniteSet(S)
    PROVE  \E h : SumsUp(h, f, S)
PROOF
<1> DEFINE F == {s \in SUBSET S : ~\E h : SumsUp(h, f, s)}
<1> SUFFICES ASSUME F # {} PROVE FALSE
  OBVIOUS
<1>1. PICK T \in F : \A t \in F : t \subseteq T => t = T
  <2>1. F \subseteq SUBSET S
    OBVIOUS
  <2> HIDE DEF F
  <2> QED
    BY <2>1, SmallestSet
<1> DEFINE H(s) == CHOOSE h : SumsUp(h, f, s)
           rest(s) == s \ {PickOf(s)}
           h == [s \in SUBSET T |-> IF s = {} THEN 0
                                    ELSE f[PickOf(s)] + H(rest(s))[rest(s)]]
<1>2. ASSUME NEW s \in SUBSET T, s # T PROVE SumsUp(H(s), f, s)
  <2>1. s \notin F /\ s \in SUBSET S
    BY <1>1, <1>2
  <2>2. \E z : SumsUp(z, f, s)
    BY <2>1
  <2> QED
    BY <2>2
<1>3. ASSUME NEW s \in SUBSET T, s # {} PROVE rest(s) \in SUBSET T /\ rest(s) # T
  BY <1>3 DEF PickOf
<1>4. ASSUME NEW s \in SUBSET T, s # {} PROVE h[rest(s)] = H(rest(s))[rest(s)]
  <2> DEFINE u == rest(s)
  <2>1. u \in SUBSET T /\ u # T /\ SumsUp(H(u), f, u) /\ IsFiniteSet(u)
    <3>1. u \in SUBSET T /\ u # T
      BY <1>3, <1>4
    <3>2. SumsUp(H(u), f, u)
      BY <3>1, <1>2
    <3>3. u \subseteq S
      BY <3>1
    <3> HIDE DEF u
    <3>4. IsFiniteSet(u)
      BY <3>3, FS_Subset
    <3> QED
      BY <3>1, <3>2, <3>4
  <2> HIDE DEF u
  <2>2. CASE u = {}
    <3>1. H(u)[u] = 0
      <4> DEFINE g == H(u)
      <4>1. SumsUp(g, f, u)
        BY <2>1
      <4> HIDE DEF g
      <4>2. u \in SUBSET u
        OBVIOUS
      <4>3. g[u] = 0
        BY <2>2, <4>1, <4>2 DEF SumsUp
      <4> QED
        BY <4>3 DEF g
    <3>2. h[u] = 0
      BY <2>1, <2>2
    <3> QED
      BY <3>1, <3>2 DEF u
  <2>3. CASE u # {}
    <3> DEFINE w == rest(u)
               g == H(u)
               k == H(w)
    <3>1. PickOf(u) \in u /\ w \in SUBSET u /\ w \in SUBSET T /\ w # T
      BY <2>1, <2>3 DEF PickOf
    <3>2. SumsUp(g, f, u) /\ SumsUp(k, f, w)
      BY <1>2, <2>1, <3>1
    <3>3. h[u] = f[PickOf(u)] + k[w]
      BY <2>1, <2>3
    <3> HIDE DEF g, k
    <3>4. g[u] = f[PickOf(u)] + g[w]
      BY <2>3, <3>2 DEF SumsUp
    <3>5. IsFiniteSet(w)
      BY <2>1, <3>1, FS_Subset
    <3>6. g[w] = k[w]
      <4> HIDE DEF w
      <4> QED
        BY <3>1, <3>2, <3>5, SumsAgree
    <3>7. h[u] = g[u]
      BY <3>3, <3>4, <3>6
    <3> QED
      BY <3>7 DEF g, u
  <2> QED
    BY <2>2, <2>3
<1>5. h = [s \in SUBSET T |-> IF s = {} THEN 0 ELSE f[PickOf(s)] + h[rest(s)]]
  <2> DEFINE a(s) == IF s = {} THEN 0 ELSE f[PickOf(s)] + H(rest(s))[rest(s)]
             b(s) == IF s = {} THEN 0 ELSE f[PickOf(s)] + h[rest(s)]
  <2>1. ASSUME NEW s \in SUBSET T PROVE a(s) = b(s)
    <3>1. CASE s = {}
      BY <3>1
    <3>2. CASE s # {}
      <4>1. h[rest(s)] = H(rest(s))[rest(s)]
        BY <1>4, <3>2
      <4> HIDE DEF h, H, rest
      <4> QED
        BY <4>1
    <3> QED
      BY <3>1, <3>2
  <2>2. h = [s \in SUBSET T |-> a(s)]
    OBVIOUS
  <2> HIDE DEF a, h
  <2>3. h = [s \in SUBSET T |-> b(s)]
    <3> HIDE DEF b
    <3> QED
      BY <2>1, <2>2
  <2> QED
    BY <2>3
<1>6. SumsUp(h, f, T)
  <2> HIDE DEF h
  <2> QED
    BY <1>5 DEF SumsUp
<1> QED
  BY <1>1, <1>6

\* What SumFunction is.
LEMMA SumIs ==
    ASSUME NEW f, IsFiniteSet(DOMAIN f)
    PROVE  \E h : SumsUp(h, f, DOMAIN f) /\ SumFunction(f) = h[DOMAIN f]
PROOF
<1> DEFINE S == DOMAIN f
           g == CHOOSE h : SumsUp(h, f, S)
<1>1. SumsUp(g, f, S)
  BY SumsExist
<1>2. SumFunction(f) = g[S]
  BY DEF SumFunction, SumFunctionOnSet, FoldFunctionOnSet, MapThenFoldSet, SumsUp, PickOf
<1> QED
  BY <1>1, <1>2

\* A sum of integers is an integer, and anything may be taken out of it.
Splits(h, f, S) ==
    \A s \in SUBSET S : h[s] \in Int /\ \A x \in s : h[s] = h[s \ {x}] + f[x]

LEMMA SumsSplit ==
    ASSUME NEW S, IsFiniteSet(S), NEW f \in [S -> Int], NEW h, SumsUp(h, f, S)
    PROVE  Splits(h, f, S)
PROOF
<1> DEFINE Good(s) == h[s] \in Int /\ \A x \in s : h[s] = h[s \ {x}] + f[x]
           F == {s \in SUBSET S : ~Good(s)}
<1> SUFFICES ASSUME F # {} PROVE FALSE
  BY DEF Splits
<1>1. PICK s \in F : \A t \in F : t \subseteq s => t = s
  <2>1. F \subseteq SUBSET S
    OBVIOUS
  <2> HIDE DEF F
  <2> QED
    BY <2>1, SmallestSet
<1>2. \A t \in SUBSET s : t # s => Good(t)
  BY <1>1
<1>3. \A t \in SUBSET s : t # {} => h[t] = f[PickOf(t)] + h[t \ {PickOf(t)}]
  BY DEF SumsUp
<1>4. s # {}
  <2>1. s = {} => h[s] = 0
    BY DEF SumsUp
  <2> QED
    BY <1>1, <2>1
<1> DEFINE y == PickOf(s)
           u == s \ {y}
<1>5. y \in s /\ u \in SUBSET s /\ u # s
  BY <1>4 DEF PickOf
<1>6. h[s] = f[y] + h[u]
  BY <1>3, <1>4
<1>7. \A x \in s : f[x] \in Int
  OBVIOUS
<1> HIDE DEF y, F
<1>8. h[u] \in Int /\ h[s] \in Int
  BY <1>2, <1>5, <1>6, <1>7
<1>9. ASSUME NEW x \in s PROVE h[s] = h[s \ {x}] + f[x]
  <2>1. CASE x = y
    BY <1>6, <1>7, <1>8, <2>1
  <2>2. CASE x # y
    <3> DEFINE w == s \ {x}
               z == u \ {x}
    <3>1. z = w \ {y} /\ x \in u /\ y \in w /\ w \in SUBSET s /\ w # s
          /\ z \in SUBSET s /\ z # s
      BY <1>5, <2>2
    <3>2. h[u] = h[z] + f[x]
      BY <1>2, <1>5, <3>1
    <3>3. h[w] = h[w \ {y}] + f[y]
      BY <1>2, <1>5, <3>1
    <3>4. h[z] \in Int /\ f[x] \in Int /\ f[y] \in Int
      BY <1>2, <1>5, <1>7, <3>1
    <3>5. h[w] = h[z] + f[y]
      BY <3>1, <3>3
    <3> HIDE DEF w, z, u
    <3>6. h[s] = h[w] + f[x]
      BY <1>6, <3>2, <3>4, <3>5
    <3> QED
      BY <3>6 DEF w
  <2> QED
    BY <2>1, <2>2
<1>10. Good(s)
  BY <1>8, <1>9
<1> QED
  BY <1>1, <1>10 DEF F

\* The sum of the first n values of f.
SumTo(f, n) == SumFunction([k \in 1 .. n |-> f[k]])

LEMMA SumToIs ==
    ASSUME NEW N \in Nat, NEW f \in [1 .. N -> Int], NEW h, SumsUp(h, f, 1 .. N),
           NEW n \in 0 .. N
    PROVE  SumTo(f, n) = h[1 .. n]
PROOF
<1> DEFINE e == [k \in 1 .. n |-> f[k]]
<1>1. IsFiniteSet(1 .. n) /\ DOMAIN e = 1 .. n
  BY FS_Interval
<1>2. 1 .. n \subseteq 1 .. N /\ \A x \in 1 .. n : e[x] = f[x]
  OBVIOUS
<1> HIDE DEF e
<1>3. PICK g : SumsUp(g, e, 1 .. n) /\ SumFunction(e) = g[1 .. n]
  BY <1>1, SumIs
<1>4. g[1 .. n] = h[1 .. n]
  <2> DEFINE S == 1 .. n
             B == 1 .. N
  <2>1. IsFiniteSet(S) /\ S \subseteq S /\ S \subseteq B /\ SumsUp(g, e, S) /\ SumsUp(h, f, B)
        /\ \A x \in S : e[x] = f[x]
    BY <1>1, <1>2, <1>3
  <2> HIDE DEF S, B
  <2>2. g[S] = h[S]
    BY <2>1, SumsAgree
  <2> QED
    BY <2>2 DEF S
<1> QED
  BY <1>3, <1>4 DEF SumTo, e

\* Nothing sums up to 0.
LEMMA SumOfNone == ASSUME NEW f PROVE SumTo(f, 0) = 0
PROOF
<1> DEFINE e == [k \in 1 .. 0 |-> f[k]]
<1>1. DOMAIN e = {}
  OBVIOUS
<1> HIDE DEF e
<1>2. PICK h : SumsUp(h, e, {}) /\ SumFunction(e) = h[{}]
  BY <1>1, SumIs, FS_EmptySet
<1>3. h[{}] = 0
  BY <1>2 DEF SumsUp
<1> QED
  BY <1>2, <1>3 DEF SumTo, e

\* How the sum of a prefix goes on.
LEMMA SumToSteps ==
    ASSUME NEW N \in Nat, NEW f \in [1 .. N -> Int]
    PROVE  /\ SumTo(f, 0) = 0
           /\ SumTo(f, N) = SumFunction(f)
           /\ \A n \in 0 .. N : SumTo(f, n) \in Int
           /\ \A n \in 1 .. N : SumTo(f, n) = SumTo(f, n - 1) + f[n]
PROOF
<1> DEFINE B == 1 .. N
<1>1. IsFiniteSet(B)
  BY FS_Interval
<1>2. PICK h : SumsUp(h, f, B)
  BY <1>1, SumsExist
<1>3. \A n \in 0 .. N : SumTo(f, n) = h[1 .. n] /\ 1 .. n \in SUBSET B
  BY <1>2, SumToIs
<1>4. \A s \in SUBSET B : h[s] \in Int /\ \A x \in s : h[s] = h[s \ {x}] + f[x]
  <2> HIDE DEF B
  <2>1. f \in [B -> Int]
    BY DEF B
  <2>2. Splits(h, f, B)
    BY <1>1, <1>2, <2>1, SumsSplit
  <2> QED
    BY <2>2 DEF Splits
<1>5. SumTo(f, 0) = 0
  <2>1. 1 .. 0 = {}
    OBVIOUS
  <2>2. h[{}] = 0
    BY <1>2 DEF SumsUp
  <2> QED
    BY <1>3, <2>1, <2>2
<1>6. SumTo(f, N) = SumFunction(f)
  <2>1. f = [k \in 1 .. N |-> f[k]]
    OBVIOUS
  <2> QED
    BY <2>1 DEF SumTo
<1>7. ASSUME NEW n \in 1 .. N PROVE SumTo(f, n) = SumTo(f, n - 1) + f[n]
  <2>1. (1 .. n) \ {n} = 1 .. (n - 1)
    OBVIOUS
  <2>2. n \in 0 .. N /\ n - 1 \in 0 .. N /\ n \in 1 .. n
    OBVIOUS
  <2>3. SumTo(f, n) = h[1 .. n] /\ SumTo(f, n - 1) = h[1 .. (n - 1)]
        /\ 1 .. n \in SUBSET B
    BY <1>3, <2>2
  <2>4. h[1 .. n] = h[(1 .. n) \ {n}] + f[n]
    BY <1>4, <2>2, <2>3
  <2> QED
    BY <2>1, <2>3, <2>4
<1>8. \A n \in 0 .. N : SumTo(f, n) \in Int
  BY <1>3, <1>4
<1> QED
  BY <1>5, <1>6, <1>7, <1>8

\* The sum of natural numbers is one.
LEMMA SumToFacts ==
    ASSUME NEW N \in Nat, NEW f \in [1 .. N -> Nat]
    PROVE  /\ SumTo(f, 0) = 0
           /\ SumTo(f, N) = SumFunction(f)
           /\ \A n \in 0 .. N : SumTo(f, n) \in Nat
           /\ \A n \in 1 .. N : SumTo(f, n) = SumTo(f, n - 1) + f[n]
PROOF
<1>1. f \in [1 .. N -> Int]
  OBVIOUS
<1>2. /\ SumTo(f, 0) = 0
      /\ SumTo(f, N) = SumFunction(f)
      /\ \A n \in 0 .. N : SumTo(f, n) \in Int
      /\ \A n \in 1 .. N : SumTo(f, n) = SumTo(f, n - 1) + f[n]
  BY <1>1, SumToSteps
<1> DEFINE T == {n \in 0 .. N : SumTo(f, n) \notin Nat}
<1>3. T = {}
  <2> SUFFICES ASSUME T # {} PROVE FALSE
    OBVIOUS
  <2>1. PICK m \in T : \A n \in T : m <= n
    <3>1. T \subseteq Nat
      OBVIOUS
    <3> HIDE DEF T
    <3> QED
      BY <3>1, LeastNumber
  <2>2. m \in 1 .. N /\ m - 1 \in 0 .. N
    BY <1>2, <2>1
  <2>3. SumTo(f, m - 1) \in Nat
    BY <2>1, <2>2
  <2>4. SumTo(f, m) = SumTo(f, m - 1) + f[m] /\ f[m] \in Nat
    BY <1>2, <2>2
  <2>5. SumTo(f, m) \in Nat
    BY <2>3, <2>4
  <2> QED
    BY <2>1, <2>5
<1> QED
  BY <1>2, <1>3

\* A longer prefix has no smaller sum.
LEMMA SumToGrows ==
    ASSUME NEW N \in Nat, NEW f \in [1 .. N -> Nat], NEW m \in 0 .. N, NEW n \in 0 .. m
    PROVE  SumTo(f, n) <= SumTo(f, m)
PROOF
<1> DEFINE F == {1 .. k : k \in {k \in n .. N : ~(SumTo(f, n) <= SumTo(f, k))}}
<1> SUFFICES ASSUME F # {} PROVE FALSE
  <2> SUFFICES ASSUME ~(SumTo(f, n) <= SumTo(f, m)) PROVE F # {}
    OBVIOUS
  <2>1. m \in n .. N
    OBVIOUS
  <2> QED
    BY <2>1
<1>1. IsFiniteSet(1 .. N)
  BY FS_Interval
<1>2. F \subseteq SUBSET (1 .. N)
  OBVIOUS
<1>3. PICK X \in F : \A Y \in F : Y \subseteq X => Y = X
  <2> DEFINE B == 1 .. N
  <2>1. IsFiniteSet(B) /\ F \subseteq SUBSET B
    BY <1>1, <1>2
  <2> HIDE DEF F, B
  <2> QED
    BY <2>1, SmallestSet
<1>4. PICK k \in n .. N : X = 1 .. k /\ ~(SumTo(f, n) <= SumTo(f, k))
  BY <1>3
<1>5. \A i \in 0 .. N : SumTo(f, i) \in Nat
  BY SumToFacts
<1>6. k # n /\ k \in 1 .. N /\ k - 1 \in n .. N /\ n \in 0 .. N
  BY <1>4, <1>5
<1>7. SumTo(f, k) = SumTo(f, k - 1) + f[k] /\ f[k] \in Nat
  BY <1>6, SumToFacts
<1>8. ~(SumTo(f, n) <= SumTo(f, k - 1))
  BY <1>4, <1>5, <1>6, <1>7
<1>9. 1 .. (k - 1) \in F
  BY <1>6, <1>8
<1>10. 1 .. (k - 1) \subseteq X /\ k \in X /\ k \notin 1 .. (k - 1)
  BY <1>4, <1>6
<1> QED
  BY <1>3, <1>9, <1>10

-----------------------------------------------------------------------------
(* Stages.                                                                 *)

\* Every loop but the search itself runs on an end record that was found.
EndFound == phase \notin {"end", "refused"} => end \in Signatures

\* What the running loop has not touched yet, and what the last ones are done with.
Stage ==
    /\ phase \notin {"again", "refused"} => again = 0
    /\ phase \in {"end", "records"} => layouts = <<>>
    /\ phase \in {"end", "records", "locals"} => walked = {} /\ cursor = 0
    /\ phase \in {"end", "records", "locals", "cover"} =>
          sizes = <<>> /\ total = 0 /\ decoded = 0
    /\ Len(sizes) <= Len(records)
    /\ phase \in {"done", "again"} => Len(sizes) = Len(records)
    /\ phase = "decode" /\ Len(sizes) = Len(records) => decoded = 0
    /\ phase = "done" => decoded = 0

Base == TypeOK /\ EndFound /\ Stage

\* The ranges of an entry.
Layout == [start : Nat, data : Nat, stop : Nat, region : Nat]

Owns(i, p) == layouts[i].start <= p /\ p < layouts[i].region

\* The walk: every byte before the cursor is in exactly one of the entries it
\* has passed, which all end there; it is over when it has come to the directory.
Walk ==
    /\ \A i \in DOMAIN layouts : layouts[i].start < layouts[i].region
    /\ phase # "refused" =>
          /\ \A i \in walked : layouts[i].region <= cursor
          /\ \A p \in Nat : p < cursor =>
                \E i \in walked : Owns(i, p) /\ \A j \in walked : Owns(j, p) => j = i
    /\ phase \in {"decode", "again", "done"} =>
          walked = DOMAIN layouts /\ cursor = DirectoryStart

\* The entries already decoded: what there is to decode is what was declared.
Sound(r) ==
    /\ Content(r).ending = "ends"
    /\ Content(r).yields = r.size
    /\ Content(r).crc = r.crc
    /\ r.size <= MaxEntry
    /\ r.size <= MaxTotal
    /\ r.size > Grace => Ratio(r.size, r) <= MaxRatio

\* What the running decode has let through, and what was counted before it.
Passed ==
    /\ total <= MaxTotal
    /\ phase = "decode" /\ Subject \in DOMAIN records =>
          /\ decoded <= records[Subject].size
          /\ decoded <= MaxEntry
          /\ total + decoded <= MaxTotal
          /\ decoded > Grace => Ratio(decoded, records[Subject]) <= MaxRatio
    /\ phase = "again" => decoded <= sizes[again]
    /\ \A i \in DOMAIN sizes : Sound(records[i]) /\ sizes[i] = records[i].size

-----------------------------------------------------------------------------
(* Records and positions.                                                  *)

\* Integer division does not decrease.
LEMMA DivMonotone ==
    ASSUME NEW x \in Nat, NEW y \in Nat, NEW c \in Nat \ {0}, x <= y
    PROVE  x \div c <= y \div c
PROOF
<1> DEFINE p == x \div c
           q == y \div c
<1>1. p \in Nat /\ q \in Nat
  BY SMT
<1>2. c * p <= x /\ y < c * (q + 1)
  BY SMT
<1> HIDE DEF p, q
<1>3. ASSUME q + 1 <= p PROVE FALSE
  <2>1. c * (q + 1) <= c * p
    BY <1>1, <1>3, SMT
  <2> QED
    BY <1>1, <1>2, <2>1, SMT
<1>4. p <= q
  BY <1>1, <1>3, SMT
<1> QED
  BY <1>4 DEF p, q

\* A position of the image holds a cell.
LEMMA CellAt ==
    ASSUME TypeOK, NEW p \in 0 .. Size - 1
    PROVE  At(p) \in Cell
PROOF
<1>1. image \in Seq(Cell)
  BY DEF TypeOK
<1>2. p + 1 \in 1 .. Len(image)
  BY <1>1 DEF Size
<1> QED
  BY <1>1, <1>2 DEF At

\* What is found where an end record's signature is.
LEMMA EndAt ==
    ASSUME TypeOK, end \in Signatures
    PROVE  /\ end \in Nat /\ end < Size
           /\ DirectoryStart \in Nat /\ Declared \in Nat
PROOF
<1>1. image \in Seq(Cell) /\ Size \in Nat
  BY DEF TypeOK, Size
<1>2. end \in 0 .. Size - 1 /\ At(end).kind = "end"
  BY DEF Signatures
<1>3. At(end) \in Cell
  BY <1>2, CellAt
<1>4. At(end) \in EndCell
  BY <1>2, <1>3 DEF Cell, LocalCell, CentralCell, EndCell, DescriptorCell,
                    StreamCell, PlainCell
<1> QED
  BY <1>1, <1>2, <1>4 DEF EndCell, DirectoryStart, Declared

\* A record parse() takes is a central record.
LEMMA PlaceIsCentral ==
    ASSUME TypeOK, end \in Signatures, PlaceFault = "none"
    PROVE  At(Place) \in CentralCell
PROOF
<1>1. Place \in Nat
  <2>1. Len(records) \in Nat
    BY DEF TypeOK
  <2>2. Len(records) * CentralWidth \in Nat
    BY <2>1, LimitAssumption
  <2> QED
    BY <2>2, EndAt DEF Place
<1>2. Place # end /\ ~(Place + CentralWidth > end)
      /\ ~(Place < end /\ At(Place).kind # "central")
  BY DEF PlaceFault
<1>3. Place < end /\ At(Place).kind = "central"
  BY <1>1, <1>2, EndAt, LimitAssumption
<1>4. Place \in 0 .. Size - 1
  <2>1. Size \in Nat
    BY DEF TypeOK, Size
  <2> QED
    BY <1>1, <1>3, <2>1, EndAt
<1>5. At(Place) \in Cell
  BY <1>4, CellAt
<1> QED
  BY <1>3, <1>5 DEF Cell, LocalCell, CentralCell, EndCell, DescriptorCell,
                    StreamCell, PlainCell

\* The ranges an entry claims hold at least its header.
LEMMA ClaimIsLayout ==
    ASSUME NEW r \in CentralCell
    PROVE  Claim(r) \in Layout /\ Claim(r).start < Claim(r).region
PROOF
<1>1. r.at \in Nat /\ r.packed \in Nat /\ LocalWidth \in Nat \ {0}
  BY LimitAssumption DEF CentralCell
<1> QED
  BY <1>1 DEF Claim, Layout

\* Every region's ranges are positions.
LEMMA LayoutAt ==
    ASSUME TypeOK, NEW i \in DOMAIN layouts
    PROVE  layouts[i].start \in Nat /\ layouts[i].region \in Nat
PROOF
<1>1. layouts \in Seq(Layout)
  BY DEF TypeOK, Layout
<1>2. layouts[i] \in Layout
  BY <1>1
<1> QED
  BY <1>2 DEF Layout

-----------------------------------------------------------------------------
(* Types and stages.                                                       *)

LEMMA InitBase == Init => Base
PROOF
<1> SUFFICES ASSUME Init PROVE Base
  OBVIOUS
<1>1. image \in Seq(Cell)
  BY ImageAssumption DEF Init
<1>2. TypeOK
  BY <1>1 DEF Init, TypeOK, NoRefusal
<1>3. EndFound /\ Stage
  BY DEF Init, EndFound, Stage
<1> QED
  BY <1>2, <1>3 DEF Base

\* A refusal leaves what was read as it is.
LEMMA RefuseBase ==
    ASSUME Base, NEW c, NEW e, Refuse(c, e),
           UNCHANGED <<parsed, walked, cursor, sizes, total, again>>, decoded' \in Nat
    PROVE  Base'
PROOF
<1> USE DEF Refuse, parsed
<1>1. TypeOK'
  BY DEF Base, TypeOK
<1>2. EndFound' /\ Stage'
  BY DEF Base, TypeOK, EndFound, Stage
<1> QED
  BY <1>1, <1>2 DEF Base

\* Searching for the end record.
LEMMA SearchBase == ASSUME Base, RefuseEnd \/ FindEnd PROVE Base'
PROOF
<1>1. CASE RefuseEnd
  <2>1. decoded \in Nat
    BY DEF Base, TypeOK
  <2> QED
    BY <1>1, <2>1, RefuseBase DEF RefuseEnd
<1>2. CASE FindEnd
  <2>1. end' \in Signatures /\ end' \in Nat
    BY <1>2 DEF FindEnd, Terminals, Signatures
  <2>2. Signatures' = Signatures
    BY <1>2 DEF FindEnd, Signatures, Size, At
  <2>3. TypeOK'
    BY <1>2, <2>1 DEF FindEnd, Base, TypeOK
  <2>4. EndFound' /\ Stage'
    BY <1>2, <2>1, <2>2 DEF FindEnd, Base, EndFound, Stage
  <2> QED
    BY <2>3, <2>4 DEF Base
<1> QED
  BY <1>1, <1>2

\* Reading the directory.
LEMMA RecordsBase ==
    ASSUME Base, RefuseRecord \/ ReadRecord \/ RefuseRest \/ RecordsEnd
    PROVE  Base'
PROOF
<1>1. CASE RefuseRecord \/ RefuseRest
  <2>1. decoded \in Nat
    BY DEF Base, TypeOK
  <2> QED
    BY <1>1, <2>1, RefuseBase DEF RefuseRecord, RefuseRest
<1>2. CASE ReadRecord
  <2> USE <1>2 DEF ReadRecord
  <2>1. At(Place) \in CentralCell
    BY PlaceIsCentral DEF Base, EndFound
  <2>2. /\ records' \in Seq(CentralCell) /\ Len(records') = Len(records) + 1
        /\ DOMAIN records \subseteq DOMAIN records'
    BY <2>1 DEF Base, TypeOK
  <2>3. TypeOK'
    BY <2>2 DEF Base, TypeOK
  <2>4. EndFound'
    BY DEF Base, EndFound, Signatures, Size, At
  <2>5. Stage'
    BY <2>2 DEF Base, TypeOK, Stage
  <2> QED
    BY <2>3, <2>4, <2>5 DEF Base
<1>3. CASE RecordsEnd
  <2> USE <1>3 DEF RecordsEnd, parsed
  <2>1. TypeOK'
    BY DEF Base, TypeOK
  <2>2. EndFound' /\ Stage'
    BY DEF Base, EndFound, Stage, Signatures, Size, At
  <2> QED
    BY <2>1, <2>2 DEF Base
<1> QED
  BY <1>1, <1>2, <1>3

\* Checking the local headers.
LEMMA LocalsBase == ASSUME Base, RefuseLocal \/ VerifyLocal \/ LocalsEnd PROVE Base'
PROOF
<1>1. CASE RefuseLocal
  <2>1. decoded \in Nat
    BY DEF Base, TypeOK
  <2> QED
    BY <1>1, <2>1, RefuseBase DEF RefuseLocal
<1>2. CASE VerifyLocal
  <2> USE <1>2 DEF VerifyLocal
  <2>1. Unverified \in CentralCell
    BY DEF Base, TypeOK, Unverified
  <2>2. Claim(Unverified) \in Layout
    BY <2>1, ClaimIsLayout
  <2>3. /\ layouts' \in Seq(Layout) /\ Len(layouts') = Len(layouts) + 1
        /\ DOMAIN layouts \subseteq DOMAIN layouts'
    <3>1. layouts \in Seq(Layout)
      BY DEF Base, TypeOK, Layout
    <3> QED
      BY <2>2, <3>1
  <2>4. TypeOK'
    BY <2>3 DEF Base, TypeOK, Layout
  <2>5. EndFound' /\ Stage'
    BY DEF Base, EndFound, Stage, Signatures, Size, At
  <2> QED
    BY <2>4, <2>5 DEF Base
<1>3. CASE LocalsEnd
  <2> USE <1>3 DEF LocalsEnd, parsed
  <2>1. TypeOK'
    BY DEF Base, TypeOK
  <2>2. EndFound' /\ Stage'
    BY DEF Base, EndFound, Stage, Signatures, Size, At
  <2> QED
    BY <2>1, <2>2 DEF Base
<1> QED
  BY <1>1, <1>2, <1>3

\* Walking the regions.
LEMMA CoverBase ==
    ASSUME Base, RefuseRegion \/ ClaimRegion \/ RefuseCover \/ CoverEnds
    PROVE  Base'
PROOF
<1>1. CASE RefuseRegion \/ RefuseCover
  <2>1. decoded \in Nat
    BY DEF Base, TypeOK
  <2> QED
    BY <1>1, <2>1, RefuseBase DEF RefuseRegion, RefuseCover
<1>2. CASE ClaimRegion
  <2> USE <1>2 DEF ClaimRegion, parsed
  <2>1. cursor' \in Nat /\ walked' \subseteq DOMAIN layouts
    <3>1. PICK i \in DOMAIN layouts :
              cursor' = layouts[i].region /\ walked' = walked \cup {i}
      OBVIOUS
    <3>2. layouts[i].region \in Nat /\ walked \subseteq DOMAIN layouts
      BY LayoutAt DEF Base, TypeOK
    <3> QED
      BY <3>1, <3>2
  <2>2. TypeOK'
    BY <2>1 DEF Base, TypeOK
  <2>3. EndFound' /\ Stage'
    BY DEF Base, EndFound, Stage, Signatures, Size, At
  <2> QED
    BY <2>2, <2>3 DEF Base
<1>3. CASE CoverEnds
  <2> USE <1>3 DEF CoverEnds, parsed
  <2>1. TypeOK'
    BY DEF Base, TypeOK
  <2>2. EndFound' /\ Stage'
    BY DEF Base, EndFound, Stage, Signatures, Size, At
  <2> QED
    BY <2>1, <2>2 DEF Base
<1> QED
  BY <1>1, <1>2, <1>3

\* Decoding a chunk, or giving up.
LEMMA ChunkBase ==
    ASSUME Base, AcceptChunk \/ RefuseChunk \/ RefuseStream \/ RefuseEntry
    PROVE  Base'
PROOF
<1>1. decoded \in Nat /\ 1 .. Buffer \subseteq Nat
  <2>1. decoded \in Nat
    BY DEF Base, TypeOK
  <2>2. 1 .. Buffer \subseteq Nat
    OBVIOUS
  <2> QED
    BY <2>1, <2>2
<1>2. CASE RefuseStream \/ RefuseEntry
  BY <1>1, <1>2, RefuseBase DEF RefuseStream, RefuseEntry
<1>3. CASE RefuseChunk
  <2>1. PICK n \in 1 .. Buffer :
            decoded' = decoded + n
            /\ Refuse(ChunkFault(decoded + n, records[Subject], Already), Subject)
    BY <1>3 DEF RefuseChunk
  <2>2. decoded' \in Nat
    BY <1>1, <2>1
  <2> QED
    BY <1>3, <2>1, <2>2, RefuseBase DEF RefuseChunk
<1>4. CASE AcceptChunk
  <2> USE <1>4 DEF AcceptChunk, parsed
  <2>1. decoded' \in Nat
    BY <1>1
  <2>2. TypeOK'
    BY <2>1 DEF Base, TypeOK
  <2>3. EndFound'
    BY DEF Base, EndFound, Signatures, Size, At
  <2>4. Stage'
    BY DEF Base, TypeOK, Stage, Decoding, Subject
  <2> QED
    BY <2>2, <2>3, <2>4 DEF Base
<1> QED
  BY <1>2, <1>3, <1>4

\* Ending an entry, the inventory, or a second decode.
LEMMA EntryBase ==
    ASSUME Base, FinishEntry \/ InventoryEnds \/ EntryBytes \/ EntryBytesEnds
    PROVE  Base'
PROOF
<1>1. CASE FinishEntry
  <2> USE <1>1 DEF FinishEntry, parsed
  <2>1. Len(sizes) + 1 <= Len(records)
    BY DEF Base, TypeOK, StreamEnds, Decoding, Subject
  <2>2. sizes' \in Seq(Nat) /\ Len(sizes') = Len(sizes) + 1 /\ total' \in Nat
    BY DEF Base, TypeOK
  <2>3. TypeOK'
    BY <2>2 DEF Base, TypeOK
  <2>4. EndFound'
    BY DEF Base, EndFound, Signatures, Size, At
  <2>5. Stage'
    BY <2>1, <2>2 DEF Base, TypeOK, Stage
  <2> QED
    BY <2>3, <2>4, <2>5 DEF Base
<1>2. CASE InventoryEnds
  <2> USE <1>2 DEF InventoryEnds, parsed
  <2>1. TypeOK'
    BY DEF Base, TypeOK
  <2>2. EndFound' /\ Stage'
    BY DEF Base, EndFound, Stage, Signatures, Size, At
  <2> QED
    BY <2>1, <2>2 DEF Base
<1>3. CASE EntryBytes
  <2> USE <1>3 DEF EntryBytes, parsed
  <2>1. again' # 0
    BY DEF Base, TypeOK
  <2>2. TypeOK'
    BY <2>1 DEF Base, TypeOK
  <2>3. EndFound' /\ Stage'
    BY <2>1 DEF Base, EndFound, Stage, Signatures, Size, At
  <2> QED
    BY <2>2, <2>3 DEF Base
<1>4. CASE EntryBytesEnds
  <2> USE <1>4 DEF EntryBytesEnds, parsed
  <2>1. TypeOK'
    BY DEF Base, TypeOK
  <2>2. EndFound' /\ Stage'
    BY DEF Base, EndFound, Stage, Signatures, Size, At
  <2> QED
    BY <2>1, <2>2 DEF Base
<1> QED
  BY <1>1, <1>2, <1>3, <1>4

LEMMA NextBase == Base /\ [Next]_vars => Base'
PROOF
<1> SUFFICES ASSUME Base, [Next]_vars PROVE Base'
  OBVIOUS
<1>1. CASE Decided \/ UNCHANGED vars
  BY <1>1 DEF Decided, vars, Base, TypeOK, EndFound, Stage, Signatures, Size, At
<1>2. CASE Next /\ ~Decided
  BY <1>2, SearchBase, RecordsBase, LocalsBase, CoverBase, ChunkBase, EntryBase
     DEF Next
<1> QED
  BY <1>1, <1>2

\* Every variable keeps its type.
THEOREM TypeCorrect == Spec => []TypeOK
PROOF
<1>1. Base => TypeOK
  BY DEF Base
<1> QED
  BY <1>1, InitBase, NextBase, PTL DEF Spec

-----------------------------------------------------------------------------
(* The cover of the image.                                                 *)

\* What the walk knows is about the regions, the passed entries and the cursor.
LEMMA WalkUnchanged ==
    ASSUME Base, Walk, UNCHANGED <<layouts, walked, cursor>>,
           phase' \in {"decode", "again", "done"} =>
              /\ phase \in {"decode", "again", "done"}
              /\ UNCHANGED <<image, end>>,
           phase' # "refused" => phase # "refused"
    PROVE  Walk'
PROOF
<1>1. DirectoryStart' = DirectoryStart \/ phase' \notin {"decode", "again", "done"}
  BY DEF DirectoryStart, At
<1> QED
  BY <1>1 DEF Walk, Owns

LEMMA InitWalk == Init => Walk
PROOF
BY DEF Init, Walk, Owns

\* A local header that agrees adds a region that is not empty.
LEMMA VerifyWalk == ASSUME Base, Walk, VerifyLocal PROVE Walk'
PROOF
<1> USE DEF VerifyLocal
<1>1. walked = {} /\ cursor = 0
  BY DEF Base, Stage
<1>2. Unverified \in CentralCell
  BY DEF Base, TypeOK, Unverified
<1>3. Claim(Unverified) \in Layout /\ Claim(Unverified).start < Claim(Unverified).region
  BY <1>2, ClaimIsLayout
<1>4. layouts \in Seq(Layout)
  BY DEF Base, TypeOK, Layout
<1>5. \A i \in DOMAIN layouts' : layouts'[i].start < layouts'[i].region
  BY <1>3, <1>4 DEF Walk
<1> QED
  BY <1>1, <1>5 DEF Walk, Owns

\* The next region starts at the cursor, where every passed one has ended.
LEMMA ClaimWalk == ASSUME Base, Walk, ClaimRegion PROVE Walk'
PROOF
<1> USE DEF ClaimRegion, parsed
<1>1. PICK i \in DOMAIN layouts :
          /\ layouts[i].start = cursor
          /\ cursor' = layouts[i].region
          /\ walked' = walked \cup {i}
  OBVIOUS
<1>2. \A j \in DOMAIN layouts : layouts[j].start \in Nat /\ layouts[j].region \in Nat
  BY LayoutAt DEF Base
<1>3. walked \subseteq DOMAIN layouts /\ cursor \in Nat
  BY DEF Base, TypeOK
<1>4. cursor < cursor'
  BY <1>1 DEF Walk
<1>5. \A j \in walked' : layouts[j].region <= cursor'
  BY <1>1, <1>2, <1>3, <1>4 DEF Walk
<1>6. ASSUME NEW p \in Nat, p < cursor'
      PROVE  \E j \in walked' : Owns(j, p) /\ \A k \in walked' : Owns(k, p) => k = j
  <2>1. CASE p < cursor
    <3>1. PICK j \in walked : Owns(j, p) /\ \A k \in walked : Owns(k, p) => k = j
      BY <2>1 DEF Walk
    <3>2. ~Owns(i, p)
      BY <1>1, <1>3, <2>1 DEF Owns
    <3> QED
      BY <1>1, <3>1, <3>2
  <2>2. CASE cursor <= p
    <3>1. Owns(i, p)
      BY <1>1, <1>6, <2>2 DEF Owns
    <3>2. \A k \in walked : ~Owns(k, p)
      BY <1>2, <1>3, <2>2 DEF Owns, Walk
    <3> QED
      BY <1>1, <3>1, <3>2
  <2> QED
    BY <1>3, <2>1, <2>2
<1> QED
  BY <1>5, <1>6 DEF Walk, Owns

LEMMA NextWalk == Base /\ Walk /\ [Next]_vars => Walk'
PROOF
<1> SUFFICES ASSUME Base, Walk, [Next]_vars PROVE Walk'
  OBVIOUS
<1> USE DEF parsed, Refuse
<1>1. CASE RefuseEnd \/ RefuseRecord \/ RefuseRest \/ RefuseLocal \/ RefuseRegion
           \/ RefuseCover \/ RefuseChunk \/ RefuseStream \/ RefuseEntry
  <2>1. UNCHANGED <<layouts, walked, cursor>> /\ phase' = "refused"
    BY <1>1 DEF RefuseEnd, RefuseRecord, RefuseRest, RefuseLocal, RefuseRegion,
                RefuseCover, RefuseChunk, RefuseStream, RefuseEntry
  <2> QED
    BY <2>1, WalkUnchanged
<1>2. CASE FindEnd \/ ReadRecord \/ RecordsEnd \/ LocalsEnd
  <2>1. /\ UNCHANGED <<layouts, walked, cursor>>
        /\ phase # "refused" /\ phase' \notin {"decode", "again", "done"}
    BY <1>2 DEF FindEnd, ReadRecord, RecordsEnd, LocalsEnd
  <2> QED
    BY <2>1, WalkUnchanged
<1>3. CASE CoverEnds
  <2>1. UNCHANGED <<layouts, walked, cursor>> /\ phase = "cover"
    BY <1>3 DEF CoverEnds
  <2>2. DirectoryStart' = DirectoryStart
    BY <1>3 DEF CoverEnds, DirectoryStart, At
  <2> QED
    BY <1>3, <2>1, <2>2 DEF CoverEnds, Walk, Owns
<1>4. CASE AcceptChunk \/ FinishEntry \/ InventoryEnds \/ EntryBytes \/ EntryBytesEnds
  <2>1. /\ UNCHANGED <<layouts, walked, cursor, image, end>>
        /\ phase \in {"decode", "again", "done"}
    BY <1>4 DEF AcceptChunk, Decoding, FinishEntry, InventoryEnds, EntryBytes,
                EntryBytesEnds
  <2> QED
    BY <2>1, WalkUnchanged
<1>5. CASE Decided \/ UNCHANGED vars
  <2>1. UNCHANGED <<layouts, walked, cursor, image, end, phase>>
    BY <1>5 DEF Decided, vars
  <2> QED
    BY <2>1, WalkUnchanged
<1> QED
  BY <1>1, <1>2, <1>3, <1>4, <1>5, VerifyWalk, ClaimWalk DEF Next

LEMMA WalkCovers == Base /\ Walk => EveryByteHasOneOwner
PROOF
<1> SUFFICES ASSUME Base, Walk, phase \in {"decode", "again", "done"},
                    NEW p \in 0 .. Size - 1
             PROVE  IF p < DirectoryStart THEN \E i \in Owners(p) : Owners(p) = {i}
                                          ELSE Owners(p) = {}
  BY DEF EveryByteHasOneOwner
<1>1. walked = DOMAIN layouts /\ cursor = DirectoryStart /\ cursor \in Nat
  BY DEF Base, TypeOK, Walk
<1>2. \A j \in DOMAIN layouts : layouts[j].start \in Nat /\ layouts[j].region \in Nat
  BY LayoutAt DEF Base
<1>3. p \in Nat
  OBVIOUS
<1>4. Owners(p) = {i \in walked : Owns(i, p)}
  BY <1>1 DEF Owners, Owns
<1>5. CASE p < DirectoryStart
  <2>1. PICK i \in walked : Owns(i, p) /\ \A j \in walked : Owns(j, p) => j = i
    BY <1>1, <1>3, <1>5 DEF Walk
  <2> QED
    BY <1>4, <1>5, <2>1
<1>6. CASE ~(p < DirectoryStart)
  <2>1. \A i \in walked : ~Owns(i, p)
    BY <1>1, <1>2, <1>3, <1>6 DEF Owns, Walk
  <2> QED
    BY <1>4, <1>6, <2>1
<1> QED
  BY <1>5, <1>6

\* Every byte before the directory belongs to exactly one entry once the walk
\* is over, whatever offsets the records give and in whatever order.
THEOREM CoverIsExact == Spec => []EveryByteHasOneOwner
PROOF
<1>1. Spec => [](Base /\ Walk)
  BY InitBase, NextBase, InitWalk, NextWalk, PTL DEF Spec
<1> QED
  BY <1>1, WalkCovers, PTL

-----------------------------------------------------------------------------
(* Refusals of the cover.                                                  *)

CoverCodes == {"overlapping_ranges", "prefix_bytes", "unclaimed_bytes"}

\* Every region begins within the image, and so does the directory; nothing has
\* been refused while a loop runs.
Within ==
    /\ phase # "refused" =>
          /\ \A i \in DOMAIN layouts : layouts[i].start < Size
          /\ refusal.code = "none"
    /\ phase \notin {"end", "refused"} => DirectoryStart < Size

\* The only candidate is the one the search looks at.
LEMMA OneTerminal ==
    ASSUME TypeOK, SearchFault = "none", NEW p \in Terminals
    PROVE  EndFault(p) = "none" /\ At(p) \in EndCell
PROOF
<1>1. Size \in Nat
  BY DEF TypeOK, Size
<1>2. Terminals \in SUBSET (0 .. Size - 1) /\ IsFiniteSet(0 .. Size - 1)
  <2>1. 0 \in Int /\ Size - 1 \in Int
    BY <1>1
  <2>2. IsFiniteSet(0 .. Size - 1)
    BY <2>1, FS_Interval
  <2>3. Terminals \in SUBSET (0 .. Size - 1)
    BY DEF Terminals, Signatures
  <2> QED
    BY <2>2, <2>3
<1>3. IsFiniteSet(Terminals)
  BY <1>2, FS_Subset
<1>4. Cardinality(Terminals) \in Nat /\ Cardinality(Terminals) # 0
  BY <1>3, FS_CardinalityType, FS_EmptySet
<1>5. ~(Cardinality(Terminals) > 1)
  BY DEF SearchFault
<1>6. Cardinality(Terminals) = 1
  BY <1>4, <1>5
<1>7. PICK q : Terminals = {q}
  BY <1>3, <1>6, FS_Singleton
<1>8. (CHOOSE q1 \in Terminals : TRUE) = p
  BY <1>7
<1>9. SearchFault = EndFault(CHOOSE q1 \in Terminals : TRUE)
  BY <1>5, <1>7 DEF SearchFault
<1>10. At(p) \in Cell /\ At(p).kind = "end"
  BY <1>2, CellAt DEF Terminals, Signatures
<1>11. At(p) \in EndCell
  BY <1>10 DEF Cell, LocalCell, CentralCell, EndCell, DescriptorCell, StreamCell,
               PlainCell
<1> QED
  BY <1>8, <1>9, <1>11

\* The directory of the end record that was found begins before it.
LEMMA FindWithin == ASSUME Base, Within, FindEnd PROVE Within'
PROOF
<1> USE DEF FindEnd
<1>1. EndFault(end') = "none" /\ At(end') \in EndCell /\ end' \in 0 .. Size - 1
  BY OneTerminal DEF Base, Terminals, Signatures
<1>2. At(end').at + At(end').bytes = end'
  BY <1>1 DEF EndFault
<1>3. At(end').at \in Nat /\ At(end').bytes \in Nat /\ Size \in Nat
  BY <1>1 DEF EndCell, Base, TypeOK, Size
<1>4. At(end').at < Size
  BY <1>1, <1>2, <1>3
<1>5. DirectoryStart' = At(end').at /\ Size' = Size
  BY DEF DirectoryStart, At, Size
<1> QED
  BY <1>4, <1>5 DEF Within

\* A local header is looked at where it begins, which must be in the image.
LEMMA VerifyWithin == ASSUME Base, Within, VerifyLocal PROVE Within'
PROOF
<1> USE DEF VerifyLocal
<1>1. Unverified \in CentralCell /\ layouts \in Seq(Layout) /\ Size \in Nat
  BY DEF Base, TypeOK, Unverified, Layout, Size
<1>2. Unverified.at \in Nat /\ ~(Unverified.at >= Size)
  BY <1>1 DEF CentralCell, LocalFault
<1>3. Claim(Unverified) \in Layout /\ Claim(Unverified).start < Size
  BY <1>1, <1>2, ClaimIsLayout DEF Claim
<1>4. \A i \in DOMAIN layouts' : layouts'[i].start < Size
  BY <1>1, <1>3 DEF Within
<1>5. Size' = Size /\ DirectoryStart' = DirectoryStart
  BY DEF Size, DirectoryStart, At
<1> QED
  BY <1>4, <1>5 DEF Within

LEMMA NextWithin == Base /\ Within /\ [Next]_vars => Within'
PROOF
<1> SUFFICES ASSUME Base, Within, [Next]_vars PROVE Within'
  OBVIOUS
<1> USE DEF parsed, Refuse
<1>1. CASE RefuseEnd \/ RefuseRecord \/ RefuseRest \/ RefuseLocal \/ RefuseRegion
           \/ RefuseCover \/ RefuseChunk \/ RefuseStream \/ RefuseEntry
  <2>1. phase' = "refused"
    BY <1>1 DEF RefuseEnd, RefuseRecord, RefuseRest, RefuseLocal, RefuseRegion,
                RefuseCover, RefuseChunk, RefuseStream, RefuseEntry
  <2> QED
    BY <2>1 DEF Within
<1>2. CASE ReadRecord \/ RecordsEnd \/ LocalsEnd \/ ClaimRegion \/ CoverEnds
           \/ AcceptChunk \/ FinishEntry \/ InventoryEnds \/ EntryBytes
           \/ EntryBytesEnds \/ Decided \/ UNCHANGED vars
  <2>1. /\ UNCHANGED <<image, end, layouts, refusal>>
        /\ phase' = phase \/ (phase \notin {"end", "refused"} /\ phase' # "refused")
    BY <1>2 DEF ReadRecord, RecordsEnd, LocalsEnd, ClaimRegion, CoverEnds,
                AcceptChunk, Decoding, FinishEntry, InventoryEnds, EntryBytes,
                EntryBytesEnds, Decided, vars
  <2>2. Size' = Size /\ DirectoryStart' = DirectoryStart
    BY <2>1 DEF Size, DirectoryStart, At
  <2> QED
    BY <2>1, <2>2 DEF Within
<1> QED
  BY <1>1, <1>2, FindWithin, VerifyWithin DEF Next

\* No other check refuses with a code of check_coverage().
LEMMA OtherCodes ==
    ASSUME Base,
           RefuseEnd \/ RefuseRecord \/ RefuseRest \/ RefuseLocal \/ RefuseChunk
           \/ RefuseStream \/ RefuseEntry
    PROVE  refusal'.code \notin CoverCodes
PROOF
<1> USE DEF Refuse, CoverCodes
<1>1. CASE RefuseEnd
  <2>1. ASSUME NEW p \in Terminals PROVE EndFault(p) \notin CoverCodes
    <3>1. At(p) \in Cell /\ At(p).kind = "end"
      BY CellAt DEF Base, Terminals, Signatures
    <3>2. At(p) \in EndCell
      BY <3>1 DEF Cell, LocalCell, CentralCell, EndCell, DescriptorCell, StreamCell,
                  PlainCell
    <3>3. At(p).flaw \in {"none", "multi_disk", "zip64"}
      BY <3>2 DEF EndCell
    <3> QED
      BY <3>3 DEF EndFault
  <2>2. Terminals # {} => (CHOOSE p \in Terminals : TRUE) \in Terminals
    OBVIOUS
  <2>3. SearchFault \notin CoverCodes
    <3> DEFINE p == CHOOSE q \in Terminals : TRUE
    <3>1. Terminals # {} => EndFault(p) \notin CoverCodes
      BY <2>1, <2>2
    <3> HIDE DEF p
    <3>2. SearchFault \in {"archive_bytes", "ambiguous_eocd", "trailing_bytes",
                           "eocd_missing"} \/ (Terminals # {} /\ SearchFault = EndFault(p))
      BY DEF SearchFault, p
    <3> QED
      BY <3>1, <3>2
  <2>4. refusal'.code = SearchFault
    BY <1>1 DEF RefuseEnd
  <2> QED
    BY <2>3, <2>4
<1>2. CASE RefuseRecord
  <2> USE <1>2 DEF RefuseRecord
  <2>1. end \in Signatures /\ Place \in Nat /\ end \in Nat /\ end < Size /\ Size \in Nat
    <3>1. end \in Signatures /\ Len(records) \in Nat
      BY DEF Base, EndFound, TypeOK
    <3>2. Len(records) * CentralWidth \in Nat
      BY <3>1, LimitAssumption
    <3> QED
      BY <3>1, <3>2, EndAt DEF Base, TypeOK, Size, Place
  <2>2. CASE PlaceFault = RecordFault(At(Place)) /\ Place < end
             /\ At(Place).kind = "central"
    <3>1. At(Place) \in Cell
      BY <2>1, <2>2, CellAt DEF Base
    <3>2. At(Place) \in CentralCell
      BY <2>2, <3>1 DEF Cell, LocalCell, CentralCell, EndCell, DescriptorCell,
                        StreamCell, PlainCell
    <3>3. At(Place).flaw \in RecordFlaws /\ At(Place).name \in Name
      BY <3>2 DEF CentralCell
    <3>4. NameFlaw[At(Place).name] \in NameFlaws
      BY <3>3, NameAssumption
    <3>5. RecordFault(At(Place)) \notin CoverCodes
      BY <3>3, <3>4 DEF RecordFault, RecordFlaws, NameFlaws
    <3> QED
      BY <2>2, <3>5
  <2>3. CASE ~(PlaceFault = RecordFault(At(Place)) /\ Place < end
               /\ At(Place).kind = "central")
    <3>1. Place < end \/ Place = end \/ Place + CentralWidth > end
      BY SMTT(30), <2>1, LimitAssumption
    <3> QED
      BY <2>1, <2>3, <3>1 DEF PlaceFault
  <2> QED
    BY <2>2, <2>3
<1>3. CASE RefuseLocal
  <2> USE <1>3 DEF RefuseLocal
  <2> DEFINE r == Unverified
  <2>1. r \in CentralCell /\ Size \in Nat /\ r.at \in Nat
    <3>1. r \in CentralCell
      BY DEF Base, TypeOK, Unverified
    <3>2. Size \in Nat
      BY DEF Base, TypeOK, Size
    <3> HIDE DEF r
    <3> QED
      BY <3>1, <3>2 DEF CentralCell
  <2> HIDE DEF r
  <2>2. ASSUME r.at < Size, At(r.at).kind = "local"
        PROVE  At(r.at).flaw \in {"none", "extra_field_bytes"}
    <3>1. At(r.at) \in Cell
      BY <2>1, <2>2, CellAt DEF Base
    <3>2. At(r.at) \in LocalCell
      BY <2>2, <3>1 DEF Cell, LocalCell, CentralCell, EndCell, DescriptorCell,
                        StreamCell, PlainCell
    <3> QED
      BY <3>2 DEF LocalCell
  <2>3. DescriptorFault(r) \notin CoverCodes
    BY DEF DescriptorFault
  <2>4. r.at < Size \/ r.at >= Size
    BY <2>1
  <2>5. LocalFault(r) \notin CoverCodes
    BY <2>2, <2>3, <2>4 DEF LocalFault
  <2> QED
    BY <2>5 DEF r
<1>4. CASE RefuseChunk
  BY <1>4 DEF RefuseChunk, ChunkFault
<1>5. CASE RefuseRest \/ RefuseStream \/ RefuseEntry
  BY <1>5 DEF RefuseRest, RefuseStream, RefuseEntry, FinishFault
<1> QED
  BY <1>1, <1>2, <1>3, <1>4, <1>5

\* Where the walk stands, the byte at a place p is refused for what it shows.
\* Behind p lies what is not walked: the rest of the regions, or the directory.
LEMMA MisplacedIsFaulty ==
    ASSUME Base, Walk, phase = "cover", UNCHANGED <<image, end, layouts>>,
           NEW p \in Nat, p # cursor, p < Size,
           \A i \in DOMAIN layouts \ walked : p <= layouts[i].start,
           \/ p = DirectoryStart /\ walked = DOMAIN layouts
           \/ \E i \in DOMAIN layouts \ walked : layouts[i].start = p,
           refusal'.code = Misplaced(p)
    PROVE  RefusedCoverIsFaulty'
PROOF
<1>1. \A i \in DOMAIN layouts : /\ layouts[i].start \in Nat /\ layouts[i].region \in Nat
                                /\ layouts[i].start < layouts[i].region
  BY LayoutAt DEF Base, Walk
<1>2. cursor \in Nat /\ walked \subseteq DOMAIN layouts /\ Size \in Nat
  BY DEF Base, TypeOK, Size
<1>3. \A q : Owners(q)' = Owners(q)
  BY DEF Owners
<1>4. Size' = Size /\ DirectoryStart' = DirectoryStart
  BY DEF Size, DirectoryStart, At
<1>5. \A q, i : i \in Owners(q) <=> i \in DOMAIN layouts /\ Owns(i, q)
  BY DEF Owners, Owns
<1>6. CASE p < cursor
  <2>1. PICK j \in walked : Owns(j, p)
    BY <1>6 DEF Walk
  <2>2. j \in Owners(p) /\ p \in 0 .. Size - 1
    BY <1>2, <1>5, <2>1
  <2>3. IF p < DirectoryStart THEN \E i, k \in Owners(p) : i # k
                              ELSE Owners(p) # {}
    <3>1. CASE p = DirectoryStart
      BY <2>2, <3>1
    <3>2. CASE \E i \in DOMAIN layouts \ walked : layouts[i].start = p
      <4>1. PICK i \in DOMAIN layouts \ walked : layouts[i].start = p
        BY <3>2
      <4>2. i \in Owners(p) /\ i # j
        BY <1>1, <1>5, <2>1, <4>1 DEF Owns
      <4> QED
        BY <2>2, <4>2
    <3> QED
      BY <3>1, <3>2
  <2>4. refusal'.code = "overlapping_ranges"
    BY <1>6 DEF Misplaced
  <2> QED
    BY <1>3, <1>4, <2>2, <2>3, <2>4 DEF RefusedCoverIsFaulty
<1>7. CASE cursor < p
  <2>1. Owners(cursor) = {}
    <3> SUFFICES ASSUME NEW i \in DOMAIN layouts, Owns(i, cursor) PROVE FALSE
      BY <1>5
    <3>1. CASE i \in walked
      BY <1>1, <1>2, <3>1 DEF Walk, Owns
    <3>2. CASE i \notin walked
      BY <1>1, <1>2, <1>7, <3>2 DEF Owns
    <3> QED
      BY <3>1, <3>2
  <2>2. CASE cursor = 0
    <3>1. refusal'.code = "prefix_bytes"
      BY <1>7, <2>2 DEF Misplaced
    <3> QED
      BY <1>3, <2>1, <2>2, <3>1 DEF RefusedCoverIsFaulty
  <2>3. CASE cursor # 0
    <3>1. refusal'.code = "unclaimed_bytes"
      BY <1>2, <1>7, <2>3 DEF Misplaced
    <3>2. cursor \in 1 .. Size - 1
      BY <1>2, <1>7, <2>3
    <3>3. ASSUME NEW q \in 0 .. cursor - 1
          PROVE  \E i \in Owners(q) : Owners(q) = {i}
      <4>1. q \in Nat /\ q < cursor
        BY <1>2
      <4>2. PICK i \in walked : Owns(i, q) /\ \A j \in walked : Owns(j, q) => j = i
        BY <4>1 DEF Walk
      <4>3. \A j \in DOMAIN layouts \ walked : ~Owns(j, q)
        BY <1>1, <1>2, <1>7, <4>1 DEF Owns
      <4> QED
        BY <1>2, <1>5, <4>2, <4>3
    <3>4. cursor < DirectoryStart \/ \E i \in DOMAIN layouts : layouts[i].start > cursor
      BY <1>7
    <3>5. \E q \in 1 .. Size - 1 :
              /\ Owners(q) = {}
              /\ \A z \in 0 .. q - 1 : \E i \in Owners(z) : Owners(z) = {i}
              /\ q < DirectoryStart \/ \E i \in DOMAIN layouts : layouts[i].start > q
      BY <2>1, <3>2, <3>3, <3>4
    <3> QED
      BY <1>3, <1>4, <3>1, <3>5 DEF RefusedCoverIsFaulty
  <2> QED
    BY <2>2, <2>3
<1> QED
  BY <1>2, <1>6, <1>7

LEMMA NextRefused ==
    Base /\ Walk /\ Within /\ RefusedCoverIsFaulty /\ [Next]_vars
        => RefusedCoverIsFaulty'
PROOF
<1> SUFFICES ASSUME Base, Walk, Within, RefusedCoverIsFaulty, [Next]_vars
             PROVE  RefusedCoverIsFaulty'
  OBVIOUS
<1>1. CASE RefuseEnd \/ RefuseRecord \/ RefuseRest \/ RefuseLocal \/ RefuseChunk
           \/ RefuseStream \/ RefuseEntry
  BY <1>1, OtherCodes DEF CoverCodes, RefusedCoverIsFaulty
<1>2. CASE RefuseRegion
  <2>1. PICK i \in DOMAIN layouts :
            IsNext(i) /\ layouts[i].start # cursor
            /\ Refuse(Misplaced(layouts[i].start), 0)
    BY <1>2 DEF RefuseRegion
  <2>2. phase = "cover" /\ UNCHANGED <<image, end, layouts>>
    BY <1>2 DEF RefuseRegion, parsed
  <2>3. layouts[i].start \in Nat /\ layouts[i].start < Size
    BY <2>2, LayoutAt DEF Base, Within
  <2>4. refusal'.code = Misplaced(layouts[i].start)
    BY <2>1 DEF Refuse
  <2>5. i \in DOMAIN layouts \ walked
        /\ \A j \in DOMAIN layouts \ walked : layouts[i].start <= layouts[j].start
    BY <2>1 DEF IsNext
  <2> QED
    BY <2>1, <2>2, <2>3, <2>4, <2>5, MisplacedIsFaulty
<1>3. CASE RefuseCover
  <2>1. /\ phase = "cover" /\ UNCHANGED <<image, end, layouts>>
        /\ walked = DOMAIN layouts /\ cursor # DirectoryStart
        /\ refusal'.code = Misplaced(DirectoryStart)
    BY <1>3 DEF RefuseCover, parsed, Refuse
  <2>2. DirectoryStart \in Nat /\ DirectoryStart < Size
    BY <2>1, EndAt DEF Base, EndFound, Within
  <2> QED
    BY <2>1, <2>2, MisplacedIsFaulty
<1>4. CASE Next /\ phase # "refused" /\ UNCHANGED refusal
  BY <1>4 DEF Within, RefusedCoverIsFaulty
<1>5. CASE Decided \/ UNCHANGED vars
  BY SMTT(30), <1>5 DEF Decided, vars, RefusedCoverIsFaulty, Owners, Size, DirectoryStart, At
<1>6. Next => \/ Decided \/ RefuseRegion \/ RefuseCover
              \/ RefuseEnd \/ RefuseRecord \/ RefuseRest \/ RefuseLocal
              \/ RefuseChunk \/ RefuseStream \/ RefuseEntry
              \/ phase # "refused" /\ UNCHANGED refusal
  BY DEF Next, FindEnd, ReadRecord, RecordsEnd, VerifyLocal, LocalsEnd, ClaimRegion,
         CoverEnds, AcceptChunk, Decoding, FinishEntry, InventoryEnds, EntryBytes,
         EntryBytesEnds
<1> QED
  BY <1>1, <1>2, <1>3, <1>4, <1>5, <1>6

\* Whatever the records claim, check_coverage() refuses an image only for a byte
\* that has two owners or none, and says which.
THEOREM CoverRefusalsHold == Spec => []RefusedCoverIsFaulty
PROOF
<1>1. Init => Within /\ RefusedCoverIsFaulty
  BY DEF Init, NoRefusal, Within, RefusedCoverIsFaulty
<1> QED
  BY <1>1, InitBase, NextBase, InitWalk, NextWalk, NextWithin, NextRefused, PTL DEF Spec

-----------------------------------------------------------------------------
(* Decoding.                                                               *)

\* What an entry decodes to depends on the image alone.
LEMMA ContentStays ==
    ASSUME UNCHANGED <<image, records>>, NEW i
    PROVE  /\ Content(records[i])' = Content(records[i])
           /\ Sound(records[i])' <=> Sound(records[i])
PROOF
<1>1. \A c : At(c)' = At(c)
  BY DEF At
<1>2. \A p, q : Checksum(p, q)' = Checksum(p, q)
  <2> SUFFICES ASSUME NEW p, NEW q PROVE Checksum(p, q)' = Checksum(p, q)
    OBVIOUS
  <2>1. {c \in p .. q - 1 : At(c)'.kind = "data" /\ At(c)'.bit = 1}
          = {c \in p .. q - 1 : At(c).kind = "data" /\ At(c).bit = 1}
    BY <1>1
  <2> QED
    BY <2>1 DEF Checksum
<1>3. Content(records[i])' = Content(records[i])
  BY <1>1, <1>2 DEF Content, Claim
<1> QED
  BY <1>3 DEF Sound, Ratio

\* An entry the pass has decoded has no fault at any chunk of another decode.
LEMMA NoFault ==
    ASSUME NEW r \in CentralCell, Sound(r), NEW n \in Nat, n <= r.size
    PROVE  ChunkFault(n, r, 0) = "none"
PROOF
<1>1. r.size \in Nat /\ r.packed \in Nat /\ {MaxEntry, MaxTotal, MaxRatio, Grace} \subseteq Nat
  BY LimitAssumption DEF CentralCell
<1>2. n > Grace => Ratio(n, r) <= MaxRatio
  <2> SUFFICES ASSUME n > Grace PROVE Ratio(n, r) <= MaxRatio
    OBVIOUS
  <2> DEFINE c == IF r.packed = 0 THEN 1 ELSE r.packed
  <2>1. c \in Nat \ {0}
    BY <1>1
  <2>2. Ratio(r.size, r) <= MaxRatio
    BY <1>1 DEF Sound
  <2> HIDE DEF c
  <2>3. n \div c <= r.size \div c
    BY <1>1, <2>1, DivMonotone
  <2>4. n \div c \in Nat /\ r.size \div c \in Nat
    BY <1>1, <2>1
  <2>5. Ratio(n, r) = n \div c /\ Ratio(r.size, r) = r.size \div c
    BY DEF Ratio, c
  <2> QED
    BY <1>1, <2>2, <2>3, <2>4, <2>5
<1>3. Ratio(n, r) \in Nat
  <2> DEFINE c == IF r.packed = 0 THEN 1 ELSE r.packed
  <2>1. c \in Nat \ {0}
    BY <1>1
  <2> HIDE DEF c
  <2>2. n \div c \in Nat
    BY <2>1
  <2> QED
    BY <2>2 DEF Ratio, c
<1> QED
  BY <1>1, <1>2, <1>3 DEF ChunkFault, Sound

Kept == Base /\ Passed /\ CeilingsHold /\ EntryBytesCannotFail

LEMMA InitKept == Init => Passed /\ CeilingsHold /\ EntryBytesCannotFail
PROOF
<1>1. {MaxEntry, MaxTotal, Buffer} \subseteq Nat
  BY LimitAssumption
<1> QED
  BY <1>1 DEF Init, Passed, CeilingsHold, EntryBytesCannotFail, Sound

\* A step outside decoding, or into it when nothing is decoded yet.
LEMMA QuietKept ==
    ASSUME Kept, Base', UNCHANGED <<sizes, total, decoded, again>>,
           sizes = <<>> \/ UNCHANGED <<image, records>>,
           phase' = "again" => phase = "again",
           phase' = "decode" =>
              decoded = 0 \/ (phase = "decode" /\ UNCHANGED <<image, records>>),
           phase = "refused" => phase' = "refused",
           phase' = "refused" => again = 0
    PROVE  Kept'
PROOF
<1>1. \A i \in DOMAIN sizes : Sound(records[i])' /\ sizes[i] = (records[i].size)'
  <2>1. CASE sizes = <<>>
    BY <2>1
  <2>2. CASE UNCHANGED <<image, records>>
    BY <2>2, ContentStays DEF Kept, Passed
  <2> QED
    BY <2>1, <2>2
<1>2. total' <= MaxTotal /\ (phase' = "again" => decoded' <= (sizes[again])')
  BY DEF Kept, Passed
<1>3. ASSUME phase' = "decode", Subject' \in DOMAIN records'
      PROVE  /\ decoded' <= (records[Subject].size)'
             /\ decoded' <= MaxEntry /\ total' + decoded' <= MaxTotal
             /\ decoded' > Grace => Ratio(decoded, records[Subject])' <= MaxRatio
  <2>1. CASE decoded = 0
    <3>1. {MaxEntry, MaxTotal, Grace} \subseteq Nat /\ total \in Nat
      BY LimitAssumption DEF Kept, Base, TypeOK
    <3>2. (records[Subject].size)' \in Nat
      <4>1. records' \in Seq(CentralCell)
        BY DEF Base, TypeOK
      <4>2. records[Subject]' \in CentralCell
        BY <1>3, <4>1
      <4> QED
        BY <4>2 DEF CentralCell
    <3> QED
      BY <1>2, <2>1, <3>1, <3>2
  <2>2. CASE phase = "decode" /\ UNCHANGED <<image, records>>
    BY <1>3, <2>2 DEF Kept, Passed, Subject, Ratio
  <2> QED
    BY <1>3, <2>1, <2>2
<1>4. Passed'
  BY <1>1, <1>2, <1>3 DEF Passed
<1>5. CeilingsHold' /\ EntryBytesCannotFail'
  BY DEF Kept, CeilingsHold, EntryBytesCannotFail
<1> QED
  BY <1>4, <1>5 DEF Kept

\* What is left to decode of the running entry, in the pass and in another decode.
LEMMA SubjectAt ==
    ASSUME Kept, Decoding
    PROVE  /\ records[Subject] \in CentralCell
           /\ decoded \in Nat /\ total \in Nat
           /\ phase = "again" => Sound(records[Subject]) /\ again # 0
                                 /\ sizes[again] = records[Subject].size
PROOF
<1>1. records \in Seq(CentralCell) /\ decoded \in Nat /\ total \in Nat
  BY DEF Kept, Base, TypeOK
<1>2. records[Subject] \in CentralCell
  BY <1>1 DEF Decoding
<1>3. phase = "again" => again \in DOMAIN sizes /\ again # 0
  BY DEF Kept, Base, TypeOK, Stage
<1>4. phase = "again" => Subject = again
  BY DEF Subject
<1> QED
  BY <1>1, <1>2, <1>3, <1>4 DEF Kept, Passed

\* A chunk that passes.
LEMMA AcceptKept == ASSUME Kept, Base', AcceptChunk PROVE Kept'
PROOF
<1> USE DEF AcceptChunk, parsed
<1> DEFINE r == records[Subject]
<1>1. PICK n \in 1 .. Buffer :
          IsChunk(n) /\ ChunkFault(decoded + n, r, Already) = "none"
          /\ decoded' = decoded + n
  OBVIOUS
<1>2. /\ r \in CentralCell /\ decoded \in Nat /\ total \in Nat /\ n \in Nat
      /\ r.size \in Nat
      /\ {MaxEntry, MaxTotal, Buffer, Grace} \subseteq Nat
  BY SubjectAt, LimitAssumption DEF CentralCell
<1>3. /\ decoded' <= r.size /\ decoded' <= MaxEntry
      /\ Already + decoded' <= MaxTotal
      /\ ~(decoded' > Grace /\ Ratio(decoded', r) > MaxRatio)
  <2>1. Already \in Nat
    BY <1>2 DEF Already
  <2> HIDE DEF r
  <2> QED
    BY <1>1, <1>2, <2>1 DEF ChunkFault
<1>4. Subject' = Subject /\ r' = r
  BY DEF Subject
<1>5. \A i \in DOMAIN sizes : Sound(records[i])' /\ sizes[i] = (records[i].size)'
  BY ContentStays DEF Kept, Passed
<1>6. CASE phase = "decode"
  <2>1. total + decoded' <= MaxTotal
    BY <1>3, <1>6 DEF Already
  <2>2. decoded' > Grace => Ratio(decoded, r)' <= MaxRatio
    <3>1. Ratio(decoded', r) \in Nat
      <4> DEFINE c == IF r.packed = 0 THEN 1 ELSE r.packed
      <4>1. c \in Nat \ {0}
        BY <1>2 DEF CentralCell
      <4> HIDE DEF c
      <4>2. decoded' \div c \in Nat
        BY <1>1, <1>2, <4>1
      <4> QED
        BY <4>2 DEF Ratio, c
    <3>2. Ratio(decoded, r)' = Ratio(decoded', r)
      BY <1>4 DEF Ratio
    <3> QED
      BY <1>3, <3>1, <3>2, LimitAssumption
  <2>3. Passed'
    BY <1>3, <1>4, <1>5, <1>6, <2>1, <2>2 DEF Kept, Passed
  <2>4. CeilingsHold'
    BY <1>1, <1>2, <1>3, <1>6, <2>1 DEF CeilingsHold
  <2> QED
    BY <1>6, <2>3, <2>4 DEF Kept, EntryBytesCannotFail, Passed
<1>7. CASE phase = "again"
  <2>1. decoded' <= sizes[again] /\ again # 0
    BY <1>3, <1>7, SubjectAt
  <2>2. Passed'
    BY <1>5, <1>7, <2>1 DEF Kept, Passed
  <2>3. CeilingsHold'
    BY <1>1, <1>2, <1>3, <1>7, <2>1 DEF CeilingsHold
  <2> QED
    BY <1>7, <2>1, <2>2, <2>3 DEF Kept, EntryBytesCannotFail
<1> QED
  BY <1>6, <1>7 DEF Decoding

\* A chunk or an entry that is refused was never one of another decode.
LEMMA RefusedInPass ==
    ASSUME Kept, RefuseChunk \/ RefuseStream \/ RefuseEntry
    PROVE  phase = "decode"
PROOF
<1> SUFFICES ASSUME phase = "again" PROVE FALSE
  BY DEF RefuseChunk, RefuseStream, RefuseEntry, StreamEnds, Decoding
<1> DEFINE r == records[Subject]
<1>1. Decoding
  BY DEF RefuseChunk, RefuseStream, RefuseEntry, StreamEnds
<1>2. r \in CentralCell /\ Sound(r) /\ decoded \in Nat /\ r.size \in Nat
  BY <1>1, SubjectAt DEF CentralCell
<1> HIDE DEF r
<1>3. ~RefuseStream
  BY <1>2 DEF RefuseStream, Sound, r
<1>4. ~RefuseEntry
  BY <1>2 DEF RefuseEntry, StreamEnds, Exhausted, FinishFault, Sound, r
<1>5. ~RefuseChunk
  <2> SUFFICES ASSUME NEW n \in 1 .. Buffer, IsChunk(n)
               PROVE  ChunkFault(decoded + n, r, Already) = "none"
    BY DEF RefuseChunk, r
  <2>1. decoded + n <= r.size /\ decoded + n \in Nat
    BY <1>2, LimitAssumption DEF IsChunk, Sound, r
  <2>2. Already = 0
    BY DEF Already
  <2> QED
    BY <1>2, <2>1, <2>2, NoFault
<1> QED
  BY <1>3, <1>4, <1>5

LEMMA RefuseKept ==
    ASSUME Kept, Base', RefuseChunk \/ RefuseStream \/ RefuseEntry
    PROVE  Kept'
PROOF
<1> USE DEF parsed, Refuse
<1>1. phase = "decode" /\ again = 0
  BY RefusedInPass DEF Kept, Base, Stage
<1>2. CASE RefuseStream \/ RefuseEntry
  <2>1. UNCHANGED <<image, records, sizes, total, decoded, again>> /\ phase' = "refused"
    BY <1>2 DEF RefuseStream, RefuseEntry
  <2> QED
    BY <1>1, <2>1, QuietKept
<1>3. CASE RefuseChunk
  <2>1. PICK n \in 1 .. Buffer : decoded' = decoded + n
    BY <1>3 DEF RefuseChunk
  <2>2. UNCHANGED <<image, records, sizes, total, again>> /\ phase' = "refused"
    BY <1>3 DEF RefuseChunk
  <2>3. \A i \in DOMAIN sizes : Sound(records[i])' /\ sizes[i] = (records[i].size)'
    BY <2>2, ContentStays DEF Kept, Passed
  <2>4. Passed' /\ EntryBytesCannotFail'
    BY <1>1, <2>2, <2>3 DEF Kept, Passed, EntryBytesCannotFail
  <2>5. /\ decoded \in Nat /\ total \in Nat /\ decoded <= MaxEntry
        /\ total + decoded <= MaxTotal /\ {MaxEntry, MaxTotal, Buffer} \subseteq Nat
    BY <1>1, LimitAssumption DEF Kept, Base, TypeOK, CeilingsHold
  <2>6. CeilingsHold'
    BY <1>1, <2>1, <2>2, <2>5 DEF CeilingsHold
  <2> QED
    BY <2>4, <2>6 DEF Kept
<1> QED
  BY <1>2, <1>3

\* An entry that is done has what its record declares.
LEMMA FinishKept == ASSUME Kept, Base', FinishEntry PROVE Kept'
PROOF
<1> USE DEF FinishEntry, parsed
<1> DEFINE r == records[Subject]
<1>1. Decoding /\ Subject = Len(sizes) + 1 /\ Subject \in DOMAIN records
  BY DEF StreamEnds, Decoding, Subject
<1>2. r \in CentralCell /\ decoded \in Nat /\ total \in Nat
  BY <1>1, SubjectAt
<1>3. /\ decoded <= MaxEntry /\ total + decoded <= MaxTotal
      /\ decoded > Grace => Ratio(decoded, r) <= MaxRatio
  BY <1>1 DEF Kept, Passed
<1>4. /\ Content(r).ending = "ends" /\ Content(r).yields = r.size
      /\ Content(r).crc = r.crc /\ decoded = r.size
  BY DEF StreamEnds, Exhausted, FinishFault
<1>5. {MaxEntry, MaxTotal, Grace, Buffer} \subseteq Nat
  BY LimitAssumption
<1>6. Sound(r)
  BY <1>2, <1>3, <1>4, <1>5 DEF Sound
<1>7. sizes \in Seq(Nat) /\ records' = records
  BY DEF Kept, Base, TypeOK
<1>8. ASSUME NEW i \in DOMAIN sizes'
      PROVE  Sound(records[i])' /\ sizes'[i] = (records[i].size)'
  <2>1. CASE i = Len(sizes) + 1
    <3>1. sizes'[i] = decoded
      BY <1>7, <2>1
    <3> QED
      BY <1>1, <1>4, <1>6, <1>7, <2>1, <3>1, ContentStays
  <2>2. CASE i # Len(sizes) + 1
    <3>1. i \in DOMAIN sizes /\ sizes'[i] = sizes[i]
      BY <1>7, <2>2
    <3> QED
      BY <1>7, <3>1, ContentStays DEF Kept, Passed
  <2> QED
    BY <2>1, <2>2
<1>9. Subject' \in DOMAIN records' => (records[Subject].size)' \in Nat
  <2>1. records' \in Seq(CentralCell)
    BY DEF Base, TypeOK
  <2>2. Subject' \in DOMAIN records' => records[Subject]' \in CentralCell
    BY <2>1
  <2> QED
    BY <2>2 DEF CentralCell
<1>10. Passed'
  BY <1>2, <1>3, <1>5, <1>8, <1>9 DEF Passed
<1>11. CeilingsHold' /\ EntryBytesCannotFail'
  BY <1>2, <1>3, <1>5 DEF CeilingsHold, EntryBytesCannotFail
<1> QED
  BY <1>10, <1>11 DEF Kept

\* Starting and ending another decode.
LEMMA AgainKept == ASSUME Kept, Base', EntryBytes \/ EntryBytesEnds PROVE Kept'
PROOF
<1> USE DEF EntryBytes, EntryBytesEnds, parsed
<1>1. \A i \in DOMAIN sizes : Sound(records[i])' /\ sizes[i] = (records[i].size)'
  BY ContentStays DEF Kept, Passed
<1>2. decoded' = 0
  BY DEF Kept, Base, Stage
<1>3. /\ total \in Nat /\ total <= MaxTotal /\ UNCHANGED <<sizes, total>>
      /\ {MaxEntry, MaxTotal, Buffer} \subseteq Nat
  BY LimitAssumption DEF Kept, Passed, Base, TypeOK
<1>4. phase' = "again" => decoded' <= (sizes[again])'
  <2> SUFFICES ASSUME phase' = "again" PROVE 0 <= sizes'[again']
    BY <1>2
  <2>1. again' \in DOMAIN sizes' /\ sizes' \in Seq(Nat)
    BY DEF Base, TypeOK, Stage
  <2> QED
    BY <2>1
<1>5. Passed' /\ EntryBytesCannotFail'
  BY <1>1, <1>3, <1>4 DEF Passed, EntryBytesCannotFail
<1>6. CeilingsHold'
  BY <1>2, <1>3 DEF CeilingsHold
<1> QED
  BY <1>5, <1>6 DEF Kept

LEMMA NextKept == Kept /\ [Next]_vars => Kept'
PROOF
<1> SUFFICES ASSUME Kept, [Next]_vars PROVE Kept'
  OBVIOUS
<1> USE DEF parsed, Refuse
<1>1. Base'
  BY NextBase DEF Kept
<1>2. CASE RefuseEnd \/ FindEnd \/ RefuseRecord \/ ReadRecord \/ RefuseRest
           \/ RecordsEnd \/ RefuseLocal \/ VerifyLocal \/ LocalsEnd \/ RefuseRegion
           \/ ClaimRegion \/ RefuseCover \/ CoverEnds
  <2>1. /\ UNCHANGED <<sizes, total, decoded, again>>
        /\ phase \in {"end", "records", "locals", "cover"}
        /\ phase' \notin {"again", "done"}
        /\ phase' \in {phase, "records", "locals", "cover", "decode", "refused"}
    BY <1>2 DEF RefuseEnd, FindEnd, RefuseRecord, ReadRecord, RefuseRest, RecordsEnd,
                RefuseLocal, VerifyLocal, LocalsEnd, RefuseRegion, ClaimRegion,
                RefuseCover, CoverEnds
  <2>2. sizes = <<>> /\ decoded = 0 /\ again = 0
    BY <2>1 DEF Kept, Base, Stage
  <2> QED
    BY <1>1, <2>1, <2>2, QuietKept
<1>3. CASE InventoryEnds
  <2>1. UNCHANGED <<image, records, sizes, total, decoded, again>>
        /\ phase = "decode" /\ phase' = "done"
    BY <1>3 DEF InventoryEnds
  <2> QED
    BY <1>1, <2>1, QuietKept
<1>4. CASE Decided \/ UNCHANGED vars
  <2>1. UNCHANGED <<image, records, sizes, total, decoded, again, phase>>
    BY <1>4 DEF Decided, vars
  <2>2. phase' = "refused" => again = 0
    BY <2>1 DEF Kept, EntryBytesCannotFail
  <2> QED
    BY <1>1, <2>1, <2>2, QuietKept
<1> QED
  BY <1>1, <1>2, <1>3, <1>4, AcceptKept, RefuseKept, FinishKept, AgainKept DEF Next

LEMMA AlwaysKept == Spec => []Kept
PROOF
<1>1. Init => Kept
  BY InitBase, InitKept DEF Kept
<1> QED
  BY <1>1, NextKept, PTL DEF Spec

\* No chunk takes the reader further past a ceiling than its own length, and
\* an archive that is not refused is within each.
THEOREM CeilingsAreKept == Spec => []CeilingsHold
PROOF
<1>1. Kept => CeilingsHold
  BY DEF Kept
<1> QED
  BY <1>1, AlwaysKept, PTL

\* entry_bytes() cannot fail on an entry of a finished inventory, in whatever
\* pieces the decoder returns it.
THEOREM DecodesAgain == Spec => []EntryBytesCannotFail
PROOF
<1>1. Kept => EntryBytesCannotFail
  BY DEF Kept
<1> QED
  BY <1>1, AlwaysKept, PTL

-----------------------------------------------------------------------------
(* The verdict.                                                            *)

\* The search found the only end record, and nothing is wrong with it.
Searched ==
    phase \notin {"end", "refused"} =>
        Size <= MaxArchive /\ Terminals = {end} /\ EndFault(end) = "none"

\* The records read are those of the directory, one behind the other, each
\* without a fault and none by a name of another.
Listed ==
    /\ phase = "end" => records = <<>>
    /\ phase \notin {"end", "refused"} =>
        /\ Len(records) <= Declared
        /\ \A k \in DOMAIN records :
              /\ records[k] = At(DirectoryStart + (k - 1) * CentralWidth)
              /\ RecordFault(records[k]) = "none"
        /\ \A i, j \in DOMAIN records :
              Fold[records[i].name] = Fold[records[j].name] => i = j
        /\ phase # "records" => Len(records) = Declared /\ Place = end

\* The layouts are those of the records, whose local headers agree.
Verified ==
    phase \notin {"end", "refused"} =>
        /\ \A k \in DOMAIN layouts :
              layouts[k] = Claim(records[k]) /\ LocalFault(records[k]) = "none"
        /\ phase \notin {"records", "locals"} => Len(layouts) = Len(records)

RecordSizes == [k \in 1 .. Len(records) |-> records[k].size]

\* The total is of the entries that are decoded.
Totalled == phase \notin {"end", "refused"} => total = SumTo(RecordSizes, Len(sizes))

Known == Searched /\ Listed /\ Verified /\ Totalled

\* What is said of a place in the image does not change with anything else.
LEMMA ImageStays ==
    ASSUME UNCHANGED image
    PROVE  /\ Size' = Size /\ Signatures' = Signatures /\ Terminals' = Terminals
           /\ \A p : At(p)' = At(p) /\ EndFault(p)' = EndFault(p)
           /\ \A r : RecordFault(r)' = RecordFault(r) /\ LocalFault(r)' = LocalFault(r)
PROOF
<1>1. Size' = Size /\ \A p : At(p)' = At(p)
  BY DEF Size, At
<1>2. Signatures' = Signatures
  BY <1>1 DEF Signatures
<1>3. Terminals' = Terminals
  BY <1>1, <1>2 DEF Terminals
<1>4. \A p : EndFault(p)' = EndFault(p)
  BY <1>1 DEF EndFault
<1>5. \A r : RecordFault(r)' = RecordFault(r)
  BY <1>1 DEF RecordFault
<1>6. \A r : DescriptorFault(r)' = DescriptorFault(r)
  BY <1>1 DEF DescriptorFault
<1>7. \A r : LocalFault(r)' = LocalFault(r)
  BY <1>1, <1>6 DEF LocalFault
<1> QED
  BY <1>1, <1>2, <1>3, <1>4, <1>5, <1>7

\* The packages depend on the image alone.
LEMMA PackageStays ==
    ASSUME UNCHANGED image, NEW p
    PROVE  IsPackage(p)' <=> IsPackage(p)
PROOF
<1>1. /\ Terminals' = Terminals /\ Size' = Size
      /\ \A q : At(q)' = At(q) /\ EndFault(q)' = EndFault(q)
      /\ \A r : RecordFault(r)' = RecordFault(r)
  BY ImageStays
<1>2. \A r : SaysTheSame(r)' <=> SaysTheSame(r)
  BY <1>1 DEF SaysTheSame
<1>3. \A c, d : Checksum(c, d)' = Checksum(c, d)
  <2> SUFFICES ASSUME NEW c, NEW d PROVE Checksum(c, d)' = Checksum(c, d)
    OBVIOUS
  <2>1. {q \in c .. d - 1 : At(q)'.kind = "data" /\ At(q)'.bit = 1}
          = {q \in c .. d - 1 : At(q).kind = "data" /\ At(q).bit = 1}
    BY <1>1
  <2> QED
    BY <2>1 DEF Checksum
<1>4. \A r : Content(r)' = Content(r)
  BY <1>1, <1>3 DEF Content
<1> QED
  BY ZenonT(30), <1>1, <1>2, <1>4 DEF IsPackage

\* A step that reads nothing new.
LEMMA KnownStays ==
    ASSUME Known, UNCHANGED parsed, UNCHANGED <<sizes, total>>,
           phase' = "end" => phase = "end",
           phase' \notin {"end", "refused"} => phase \notin {"end", "refused"},
           phase' \notin {"end", "refused", "records"} =>
              phase # "records" \/ (Len(records) = Declared /\ Place = end),
           phase' \notin {"end", "refused", "records", "locals"} =>
              phase \notin {"records", "locals"} \/ Len(layouts) = Len(records)
    PROVE  Known'
PROOF
<1> SUFFICES ASSUME phase' \notin {"end", "refused"} PROVE Known'
  BY DEF Known, Searched, Listed, Verified, Totalled, parsed
<1> USE DEF parsed
<1>1. /\ Size' = Size /\ Terminals' = Terminals
      /\ \A p : At(p)' = At(p) /\ EndFault(p)' = EndFault(p)
      /\ \A r : RecordFault(r)' = RecordFault(r) /\ LocalFault(r)' = LocalFault(r)
  BY ImageStays
<1>2. DirectoryStart' = DirectoryStart /\ Declared' = Declared /\ Place' = Place
  BY <1>1 DEF DirectoryStart, Declared, Place
<1>3. Searched'
  BY <1>1 DEF Known, Searched
<1>4. Listed'
  BY <1>1, <1>2 DEF Known, Listed
<1>5. Verified'
  <2>1. \A k : Claim(records[k])' = Claim(records[k])
    BY DEF Claim
  <2> QED
    BY <1>1, <2>1 DEF Known, Verified
<1>6. Totalled'
  <2>1. RecordSizes' = RecordSizes
    BY DEF RecordSizes
  <2> QED
    BY <2>1 DEF Known, Totalled, SumTo
<1> QED
  BY <1>3, <1>4, <1>5, <1>6 DEF Known

\* The sizes of the records are numbers.
LEMMA SizesAreNumbers ==
    ASSUME TypeOK
    PROVE  /\ Len(records) \in Nat
           /\ RecordSizes \in [1 .. Len(records) -> Nat]
           /\ \A k \in DOMAIN records : records[k] \in CentralCell
PROOF
<1>1. records \in Seq(CentralCell)
  BY DEF TypeOK
<1>2. \A k \in DOMAIN records : records[k] \in CentralCell
  BY <1>1
<1>3. \A r \in CentralCell : r.size \in Nat
  BY DEF CentralCell
<1> QED
  BY <1>1, <1>2, <1>3 DEF RecordSizes

\* The search.
LEMMA FindKnown == ASSUME Base, Known, FindEnd PROVE Known'
PROOF
<1> USE DEF FindEnd
<1>1. /\ TypeOK /\ records = <<>> /\ layouts = <<>> /\ sizes = <<>> /\ total = 0
      /\ UNCHANGED <<image, records, layouts, sizes, total>>
  BY DEF Base, Stage, Known, Listed
<1>2. /\ Size' = Size /\ Terminals' = Terminals
      /\ \A p : At(p)' = At(p) /\ EndFault(p)' = EndFault(p)
  BY ImageStays
<1>3. end' \in Terminals /\ EndFault(end') = "none" /\ At(end') \in EndCell
  BY <1>1, OneTerminal
<1>4. Terminals = {end'} /\ Size <= MaxArchive
  <2>1. Size \in Nat /\ MaxArchive \in Nat /\ ~(Size > MaxArchive)
    BY <1>1, LimitAssumption DEF TypeOK, Size, SearchFault
  <2>2. IsFiniteSet(Terminals)
    <3>1. IsFiniteSet(0 .. Size - 1)
      BY <2>1, FS_Interval
    <3> QED
      BY <3>1, FS_Subset DEF Terminals, Signatures
  <2>3. Cardinality(Terminals) \in Nat /\ Cardinality(Terminals) # 0
    BY <1>3, <2>2, FS_CardinalityType, FS_EmptySet
  <2>4. ~(Cardinality(Terminals) > 1)
    BY DEF SearchFault
  <2>5. Cardinality(Terminals) = 1
    BY <2>3, <2>4
  <2>6. PICK q : Terminals = {q}
    BY <2>2, <2>5, FS_Singleton
  <2> QED
    BY <1>3, <2>1, <2>6
<1>5. EndFault(end)' = "none"
  BY <1>3 DEF EndFault, At
<1>6. Searched'
  BY <1>2, <1>4, <1>5 DEF Searched
<1>7. Declared' = At(end').entries /\ At(end').entries \in Nat
  BY <1>2, <1>3 DEF Declared, At, EndCell
<1>8. Listed'
  BY <1>1, <1>7 DEF Listed
<1>9. Verified'
  BY <1>1 DEF Verified
<1>10. Totalled'
  <2>1. Len(sizes') = 0 /\ total' = 0
    BY <1>1
  <2>2. SumTo(RecordSizes', 0) = 0
    BY SumOfNone
  <2> QED
    BY <2>1, <2>2 DEF Totalled, SumTo
<1> QED
  BY <1>6, <1>8, <1>9, <1>10 DEF Known

\* A record more.
LEMMA ReadKnown == ASSUME Base, Known, ReadRecord PROVE Known'
PROOF
<1> USE DEF ReadRecord
<1>1. /\ TypeOK /\ layouts = <<>> /\ sizes = <<>> /\ total = 0
      /\ UNCHANGED <<image, end, layouts, sizes, total>>
      /\ end \in Signatures /\ phase = "records" /\ phase' = "records"
  BY DEF Base, Stage, EndFound
<1>2. /\ Size' = Size /\ Terminals' = Terminals
      /\ \A p : At(p)' = At(p) /\ EndFault(p)' = EndFault(p)
      /\ \A r : RecordFault(r)' = RecordFault(r) /\ LocalFault(r)' = LocalFault(r)
  BY ImageStays
<1>3. DirectoryStart' = DirectoryStart /\ Declared' = Declared
      /\ DirectoryStart \in Nat /\ Declared \in Nat
  BY <1>1, <1>2, EndAt DEF DirectoryStart, Declared
<1>4. Searched'
  BY <1>1, <1>2 DEF Known, Searched
<1> DEFINE c == At(Place)
           n == Len(records) + 1
<1>5. c \in CentralCell
  BY <1>1, PlaceIsCentral
<1>6. /\ records \in Seq(CentralCell) /\ n \in Nat
      /\ records' = Append(records, c)
  BY <1>1 DEF TypeOK
<1> HIDE DEF c
<1>7. /\ DOMAIN records' = 1 .. n /\ DOMAIN records = 1 .. (n - 1)
      /\ Len(records') = n /\ records'[n] = c
      /\ \A k \in DOMAIN records : records'[k] = records[k]
  BY <1>5, <1>6
<1>8. /\ RecordFault(c) = "none"
      /\ \A i \in DOMAIN records : Fold[records[i].name] # Fold[c.name]
  BY <1>3 DEF PlaceFault, c
<1>9. c = At(DirectoryStart + (n - 1) * CentralWidth)
  BY <1>6 DEF c, Place
<1> HIDE DEF n
<1>10. \A k \in DOMAIN records' :
          /\ records'[k] = At(DirectoryStart + (k - 1) * CentralWidth)'
          /\ RecordFault(records[k])' = "none"
  <2>1. \A k \in DOMAIN records' : k = n \/ k \in DOMAIN records
    BY <1>6, <1>7
  <2> QED
    BY <1>1, <1>2, <1>3, <1>7, <1>8, <1>9, <2>1 DEF Known, Listed
<1>11. \A i, j \in DOMAIN records' :
          Fold[records'[i].name] = Fold[records'[j].name] => i = j
  <2>1. \A k \in DOMAIN records' : k = n \/ k \in DOMAIN records
    BY <1>6, <1>7
  <2> QED
    BY <1>1, <1>7, <1>8, <2>1 DEF Known, Listed
<1>12. Len(records') <= Declared'
  BY <1>3, <1>6, <1>7 DEF n
<1>13. Listed'
  BY <1>1, <1>2, <1>10, <1>11, <1>12 DEF Listed
<1>14. Verified'
  BY <1>1 DEF Verified
<1>15. Totalled'
  <2>1. Len(sizes') = 0 /\ total' = 0
    BY <1>1
  <2>2. SumTo(RecordSizes', 0) = 0
    BY SumOfNone
  <2> QED
    BY <2>1, <2>2 DEF Totalled, SumTo
<1> QED
  BY <1>4, <1>13, <1>14, <1>15 DEF Known

\* A local header that agrees.
LEMMA VerifyKnown == ASSUME Base, Known, VerifyLocal PROVE Known'
PROOF
<1> USE DEF VerifyLocal
<1>1. /\ TypeOK /\ phase = "locals" /\ phase' = "locals"
      /\ UNCHANGED <<image, end, records, sizes, total>>
  BY DEF Base
<1>2. /\ Size' = Size /\ Terminals' = Terminals
      /\ \A p : At(p)' = At(p) /\ EndFault(p)' = EndFault(p)
      /\ \A r : RecordFault(r)' = RecordFault(r) /\ LocalFault(r)' = LocalFault(r)
  BY ImageStays
<1>3. DirectoryStart' = DirectoryStart /\ Declared' = Declared /\ Place' = Place
  BY <1>1, <1>2 DEF DirectoryStart, Declared, Place
<1>4. Searched'
  BY <1>1, <1>2 DEF Known, Searched
<1>5. Listed'
  BY <1>1, <1>2, <1>3 DEF Known, Listed
<1>6. Totalled'
  <2>1. RecordSizes' = RecordSizes
    BY DEF RecordSizes
  <2> QED
    BY <1>1, <2>1 DEF Known, Totalled, SumTo
<1>7. Verified'
  <2>1. layouts \in Seq(Layout) /\ Claim(Unverified) \in Layout
    <3>1. Unverified \in CentralCell
      BY <1>1 DEF TypeOK, Unverified
    <3> QED
      BY <1>1, <3>1, ClaimIsLayout DEF TypeOK, Layout
  <2> DEFINE c == Claim(Unverified)
             n == Len(layouts) + 1
  <2>2. LocalFault(records[n]) = "none" /\ c = Claim(records[n])
    BY DEF Unverified
  <2> HIDE DEF c
  <2>3. /\ layouts'[n] = c
        /\ \A k \in DOMAIN layouts : layouts'[k] = layouts[k]
        /\ \A k \in DOMAIN layouts' : k = n \/ k \in DOMAIN layouts
    BY <2>1 DEF c
  <2> HIDE DEF n
  <2>4. \A k : Claim(records[k])' = Claim(records[k])
    BY <1>1 DEF Claim
  <2> QED
    BY <1>1, <1>2, <2>2, <2>3, <2>4 DEF Known, Verified
<1> QED
  BY <1>4, <1>5, <1>6, <1>7 DEF Known

\* An entry more.
LEMMA FinishKnown == ASSUME Kept, Known, FinishEntry PROVE Known'
PROOF
<1> USE DEF FinishEntry, parsed
<1> DEFINE n == Len(sizes) + 1
           k == Len(records)
<1>1. /\ TypeOK /\ phase = "decode" /\ phase' = "decode" /\ k \in Nat
      /\ UNCHANGED <<image, end, records, layouts>>
  BY DEF Kept, Base, TypeOK
<1>2. n \in 1 .. k /\ Len(sizes') = n /\ n - 1 = Len(sizes) /\ Subject = n
  BY <1>1 DEF TypeOK, StreamEnds, Decoding, Subject
<1>3. decoded = records[n].size
  BY <1>2 DEF FinishFault
<1> HIDE DEF n, k
<1>4. RecordSizes \in [1 .. k -> Nat] /\ RecordSizes[n] = decoded
  BY <1>1, <1>2, <1>3, SizesAreNumbers DEF RecordSizes, k
<1>5. SumTo(RecordSizes, n) = SumTo(RecordSizes, n - 1) + RecordSizes[n]
  BY <1>1, <1>2, <1>4, SumToFacts
<1>6. total' = SumTo(RecordSizes, n)
  BY <1>1, <1>2, <1>4, <1>5 DEF Known, Totalled
<1>7. Totalled'
  <2>1. RecordSizes' = RecordSizes
    BY DEF RecordSizes
  <2> QED
    BY <1>2, <1>6, <2>1 DEF Totalled, SumTo
<1>8. /\ Size' = Size /\ Terminals' = Terminals
      /\ \A p : At(p)' = At(p) /\ EndFault(p)' = EndFault(p)
      /\ \A r : RecordFault(r)' = RecordFault(r) /\ LocalFault(r)' = LocalFault(r)
  BY ImageStays
<1>9. DirectoryStart' = DirectoryStart /\ Declared' = Declared /\ Place' = Place
  BY <1>8 DEF DirectoryStart, Declared, Place
<1>10. Searched'
  BY <1>1, <1>8 DEF Known, Searched
<1>11. Listed'
  BY <1>1, <1>8, <1>9 DEF Known, Listed
<1>12. Verified'
  <2>1. \A i : Claim(records[i])' = Claim(records[i])
    BY DEF Claim
  <2> QED
    BY <1>1, <1>8, <2>1 DEF Known, Verified
<1> QED
  BY <1>7, <1>10, <1>11, <1>12 DEF Known

LEMMA NextKnown == Kept /\ Known /\ [Next]_vars => Known'
PROOF
<1> SUFFICES ASSUME Kept, Known, [Next]_vars PROVE Known'
  OBVIOUS
<1>1. CASE RefuseEnd \/ RefuseRecord \/ RefuseRest \/ RefuseLocal \/ RefuseRegion
           \/ RefuseCover \/ RefuseChunk \/ RefuseStream \/ RefuseEntry
  <2>1. UNCHANGED parsed /\ UNCHANGED <<sizes, total>> /\ phase' = "refused"
    BY <1>1 DEF RefuseEnd, RefuseRecord, RefuseRest, RefuseLocal, RefuseRegion,
                RefuseCover, RefuseChunk, RefuseStream, RefuseEntry, Refuse
  <2> QED
    BY <2>1, KnownStays
<1>2. CASE RecordsEnd \/ LocalsEnd
  BY <1>2, KnownStays DEF RecordsEnd, LocalsEnd
<1>3. CASE ClaimRegion \/ CoverEnds \/ AcceptChunk \/ InventoryEnds \/ EntryBytes
           \/ EntryBytesEnds
  <2>1. /\ UNCHANGED parsed /\ UNCHANGED <<sizes, total>>
        /\ {phase, phase'} \subseteq {"cover", "decode", "done", "again"}
    BY <1>3 DEF ClaimRegion, CoverEnds, AcceptChunk, Decoding, InventoryEnds, EntryBytes,
                EntryBytesEnds
  <2> QED
    BY <2>1, KnownStays
<1>4. CASE Decided \/ UNCHANGED vars
  <2>1. UNCHANGED parsed /\ UNCHANGED <<sizes, total, phase>>
    BY <1>4 DEF Decided, vars, parsed
  <2> QED
    BY <2>1, KnownStays
<1>5. Base
  BY DEF Kept
<1> QED
  BY <1>1, <1>2, <1>3, <1>4, <1>5, FindKnown, ReadKnown, VerifyKnown, FinishKnown
     DEF Next

\* A package of the end record at p and the records R.
PackageOf(p, R) ==
    LET e == At(p)
        Holders(q) == {k \in DOMAIN R : R[k].at <= q /\ q < Claim(R[k]).region}
    IN  /\ Terminals = {p}
        /\ EndFault(p) = "none"
        /\ e.bytes = e.entries * CentralWidth
        /\ \A k \in DOMAIN R : R[k].kind = "central" /\ RecordFault(R[k]) = "none"
        /\ IsInjective([k \in DOMAIN R |-> Fold[R[k].name]])
        /\ \A k \in DOMAIN R : SaysTheSame(R[k])
        /\ \A q \in 0 .. e.at - 1 : Cardinality(Holders(q)) = 1
        /\ \A k \in DOMAIN R : Claim(R[k]).region <= e.at
        /\ \A k \in DOMAIN R :
              /\ Content(R[k]) =
                    [yields |-> R[k].size, crc |-> R[k].crc, ending |-> "ends"]
              /\ R[k].size <= MaxEntry
              /\ R[k].size > Grace => Ratio(R[k].size, R[k]) <= MaxRatio
        /\ SumFunction([k \in DOMAIN R |-> R[k].size]) <= MaxTotal

\* The records of the directory an end record at p gives.
DirectoryAt(p) ==
    [k \in 1 .. At(p).entries |-> At(At(p).at + (k - 1) * CentralWidth)]

LEMMA PackageIs == ASSUME NEW p PROVE IsPackage(p) <=> PackageOf(p, DirectoryAt(p))
PROOF
BY DEF IsPackage, PackageOf, DirectoryAt

\* The only place a package's end record can be is the one that was found.
LEMMA PackageIsFound ==
    ASSUME Known, phase \notin {"end", "refused"}, NEW p, IsPackage(p)
    PROVE  p = end
PROOF
<1>1. Terminals = {p}
  BY DEF IsPackage
<1> QED
  BY <1>1 DEF Known, Searched

\* Once the directory is read, it is the records.
LEMMA DirectoryIsRead ==
    ASSUME Base, Known, phase \notin {"end", "records", "refused"}
    PROVE  /\ DirectoryAt(end) = records
           /\ At(end).bytes = At(end).entries * CentralWidth
           /\ IsInjective([k \in DOMAIN records |-> Fold[records[k].name]])
           /\ \A k \in DOMAIN records :
                 records[k].kind = "central" /\ RecordFault(records[k]) = "none"
PROOF
<1>1. TypeOK /\ end \in Signatures
  BY DEF Base, EndFound
<1>2. /\ Len(records) = Declared /\ Place = end /\ EndFault(end) = "none"
      /\ \A k \in DOMAIN records :
            /\ records[k] = At(DirectoryStart + (k - 1) * CentralWidth)
            /\ RecordFault(records[k]) = "none"
      /\ \A i, j \in DOMAIN records :
            Fold[records[i].name] = Fold[records[j].name] => i = j
  BY DEF Known, Searched, Listed
<1>3. records \in Seq(CentralCell) /\ \A k \in DOMAIN records : records[k] \in CentralCell
  BY <1>1, SizesAreNumbers DEF TypeOK
<1>4. DirectoryAt(end) = records
  <2>1. records = [k \in 1 .. Len(records) |-> records[k]] /\ DOMAIN records = 1 .. Len(records)
    BY <1>3
  <2>2. \A k \in 1 .. Declared : records[k] = At(DirectoryStart + (k - 1) * CentralWidth)
    BY <1>2, <2>1
  <2> QED
    BY <1>2, <2>1, <2>2 DEF DirectoryAt, Declared, DirectoryStart
<1>5. At(end).bytes = At(end).entries * CentralWidth
  <2>1. At(end) \in EndCell
    <3>1. end \in 0 .. Size - 1 /\ At(end).kind = "end"
      BY <1>1 DEF Signatures
    <3>2. At(end) \in Cell
      BY <1>1, <3>1, CellAt
    <3> QED
      BY <3>1, <3>2 DEF Cell, LocalCell, CentralCell, EndCell, DescriptorCell,
                        StreamCell, PlainCell
  <2>2. At(end).at + At(end).bytes = end
    BY <1>2 DEF EndFault
  <2>3. At(end).at + At(end).entries * CentralWidth = end
    BY <1>2 DEF Place, Declared, DirectoryStart
  <2>4. At(end).at \in Nat /\ At(end).bytes \in Nat /\ At(end).entries * CentralWidth \in Nat
    BY <2>1, LimitAssumption DEF EndCell
  <2> QED
    BY <2>2, <2>3, <2>4
<1>6. IsInjective([k \in DOMAIN records |-> Fold[records[k].name]])
  BY <1>2 DEF IsInjective
<1>7. \A k \in DOMAIN records : records[k].kind = "central"
  BY <1>3 DEF CentralCell
<1> QED
  BY <1>2, <1>4, <1>5, <1>6, <1>7

\* A local header is accepted of an entry exactly when it says the same.
LEMMA SaysTheSameIs ==
    ASSUME Base, NEW r \in CentralCell
    PROVE  SaysTheSame(r) <=> LocalFault(r) = "none"
PROOF
<1> DEFINE h == At(r.at)
           d == At(r.at + LocalWidth + r.packed)
<1>1. /\ r.at \in Nat /\ r.packed \in Nat /\ LocalWidth \in Nat \ {0} /\ Size \in Nat
      /\ r.described \in BOOLEAN
  BY LimitAssumption DEF CentralCell, Base, TypeOK, Size
<1>2. Claim(r).stop = r.at + LocalWidth + r.packed
  BY DEF Claim
<1> HIDE DEF h, d
<1>3. ASSUME SaysTheSame(r) PROVE LocalFault(r) = "none"
  <2>1. /\ r.at + LocalWidth + r.packed + (IF r.described THEN 1 ELSE 0) <= Size
        /\ h.kind = "local" /\ h.flaw = "none"
        /\ h.name = r.name /\ h.method = r.method /\ h.described = r.described
        /\ r.described => d.kind = "descriptor" /\ Values(d) = Values(r)
        /\ Values(h) = Values(r) \/ (r.described /\ Values(h) = <<0, 0, 0>>)
    BY <1>3 DEF SaysTheSame, h, d
  <2>2. r.at < Size /\ r.at + LocalWidth <= Size /\ Claim(r).stop <= Size
    BY <1>1, <1>2, <2>1
  <2>3. Agrees(h, r)
    BY <2>1 DEF Agrees
  <2>4. r.described => DescriptorFault(r) = "none"
    <3> SUFFICES ASSUME r.described PROVE DescriptorFault(r) = "none"
      OBVIOUS
    <3>1. Claim(r).stop < Size
      BY <1>1, <1>2, <2>1
    <3>2. At(Claim(r).stop) = d
      BY <1>2 DEF d
    <3> QED
      BY <1>1, <1>2, <2>1, <3>1, <3>2 DEF DescriptorFault
  <2>5. ~(r.at >= Size) /\ ~(r.at + LocalWidth > Size) /\ ~(Claim(r).stop > Size)
    BY <1>1, <1>2, <2>2
  <2> QED
    BY <2>1, <2>3, <2>4, <2>5 DEF LocalFault, h
<1>4. ASSUME LocalFault(r) = "none" PROVE SaysTheSame(r)
  <2>1. /\ ~(Claim(r).stop > Size)
        /\ h.kind = "local" /\ h.flaw = "none" /\ Agrees(h, r)
        /\ r.described => DescriptorFault(r) = "none"
    BY <1>4 DEF LocalFault, h
  <2>2. r.described => /\ ~(Claim(r).stop >= Size)
                       /\ d.kind = "descriptor" /\ Values(d) = Values(r)
    BY <1>2, <2>1 DEF DescriptorFault, d
  <2>3. r.at + LocalWidth + r.packed + (IF r.described THEN 1 ELSE 0) <= Size
    BY <1>1, <1>2, <2>1, <2>2
  <2> QED
    BY <2>1, <2>2, <2>3 DEF SaysTheSame, Agrees, h, d
<1> QED
  BY <1>3, <1>4

\* The entries the records give the byte at q to are those that own it.
LEMMA HoldersAreOwners ==
    ASSUME Base, Known, phase \in {"cover", "decode"}, NEW q
    PROVE  {k \in DOMAIN records : records[k].at <= q /\ q < Claim(records[k]).region}
               = {k \in DOMAIN layouts : Owns(k, q)}
PROOF
<1>1. DOMAIN layouts = DOMAIN records
  BY DEF Base, TypeOK, Known, Verified
<1>2. \A k \in DOMAIN layouts : layouts[k] = Claim(records[k])
  BY DEF Known, Verified
<1>3. \A k \in DOMAIN layouts :
         layouts[k].start = records[k].at /\ layouts[k].region = Claim(records[k]).region
  BY <1>2 DEF Claim
<1> QED
  BY <1>1, <1>3 DEF Owns

\* Each byte before the directory of a package has one owner, and none reaches
\* into the directory.
LEMMA PackageCovers ==
    ASSUME Base, Known, phase \in {"cover", "decode"}, IsPackage(end)
    PROVE  /\ \A i \in DOMAIN layouts : layouts[i].region <= DirectoryStart
           /\ \A q \in 0 .. DirectoryStart - 1 :
                 \E i \in DOMAIN layouts :
                    Owns(i, q) /\ \A j \in DOMAIN layouts : Owns(j, q) => j = i
PROOF
<1>1. PackageOf(end, records)
  BY PackageIs, DirectoryIsRead
<1>2. DOMAIN layouts = DOMAIN records
  BY DEF Base, TypeOK, Known, Verified
<1>3. ASSUME NEW i \in DOMAIN layouts PROVE layouts[i].region <= DirectoryStart
  <2>1. i \in DOMAIN records /\ layouts[i] = Claim(records[i])
    BY <1>2 DEF Known, Verified
  <2> QED
    BY <1>1, <2>1 DEF PackageOf, DirectoryStart
<1>4. ASSUME NEW q \in 0 .. DirectoryStart - 1
      PROVE  \E i \in DOMAIN layouts :
                 Owns(i, q) /\ \A j \in DOMAIN layouts : Owns(j, q) => j = i
  <2> DEFINE H == {k \in DOMAIN layouts : Owns(k, q)}
  <2>1. Cardinality(H) = 1
    <3>1. Cardinality({k \in DOMAIN records :
                          records[k].at <= q /\ q < Claim(records[k]).region}) = 1
      BY <1>1 DEF PackageOf, DirectoryStart
    <3> QED
      BY <3>1, HoldersAreOwners
  <2>2. IsFiniteSet(H)
    <3>1. layouts \in Seq(Layout)
      BY DEF Base, TypeOK, Layout
    <3>2. DOMAIN layouts = 1 .. Len(layouts) /\ Len(layouts) \in Nat
      BY <3>1
    <3>3. IsFiniteSet(DOMAIN layouts)
      BY <3>2, FS_Interval
    <3> QED
      BY <3>3, FS_Subset
  <2>3. PICK i : H = {i}
    <3> HIDE DEF H
    <3> QED
      BY <2>1, <2>2, FS_Singleton
  <2>4. i \in H /\ \A j \in H : j = i
    BY <2>3
  <2> QED
    BY <2>4
<1> QED
  BY <1>3, <1>4

-----------------------------------------------------------------------------
(* No refusal of a package.                                                *)

\* The search.
LEMMA EndRefused ==
    ASSUME Base, RefuseEnd, NEW p, Size <= MaxArchive, IsPackage(p)
    PROVE  FALSE
PROOF
<1>1. Terminals = {p} /\ EndFault(p) = "none"
  BY DEF IsPackage
<1>2. Cardinality(Terminals) = 1
  BY <1>1, FS_Singleton
<1>3. ~(Size > MaxArchive)
  BY SMTT(30), LimitAssumption DEF Base, TypeOK, Size
<1>4. (CHOOSE q \in Terminals : TRUE) = p
  BY <1>1
<1>5. SearchFault = "none"
  BY <1>1, <1>2, <1>3, <1>4 DEF SearchFault
<1> QED
  BY <1>5 DEF RefuseEnd

\* The directory.
LEMMA DirectoryRefused ==
    ASSUME Base, Known, RefuseRecord \/ RefuseRest, IsPackage(end)
    PROVE  FALSE
PROOF
<1> DEFINE n == Len(records)
           D == DirectoryAt(end)
<1>1. /\ TypeOK /\ end \in Signatures /\ phase = "records"
      /\ n \in Nat /\ Declared \in Nat /\ DirectoryStart \in Nat /\ end \in Nat
      /\ CentralWidth \in Nat \ {0}
  <2>1. TypeOK /\ end \in Signatures /\ phase = "records"
    BY DEF Base, EndFound, RefuseRecord, RefuseRest
  <2>2. n \in Nat
    BY <2>1 DEF TypeOK
  <2> QED
    BY <2>1, <2>2, EndAt, LimitAssumption
<1>2. PackageOf(end, D)
  BY PackageIs
<1>3. DirectoryStart + Declared * CentralWidth = end
  BY <1>2 DEF PackageOf, EndFault, DirectoryStart, Declared
<1>4. CASE RefuseRest
  BY <1>3, <1>4 DEF RefuseRest, Place
<1>5. CASE RefuseRecord
  <2> DEFINE c == At(Place)
             k == n + 1
  <2>1. n < Declared /\ PlaceFault # "none"
    BY <1>5 DEF RefuseRecord
  <2>2. Place \in Nat /\ Place + CentralWidth <= end
    <3>1. (n + 1) * CentralWidth <= Declared * CentralWidth
      BY <1>1, <2>1
    <3>2. (n + 1) * CentralWidth = n * CentralWidth + CentralWidth /\ n * CentralWidth \in Nat
      BY <1>1
    <3>3. Declared * CentralWidth \in Nat
      BY <1>1
    <3> QED
      BY <1>1, <1>3, <3>1, <3>2, <3>3 DEF Place
  <2>3. Place < end /\ Place # end
    BY <1>1, <2>2
  <2>4. k \in DOMAIN D /\ D[k] = c /\ \A i \in DOMAIN records : i \in DOMAIN D /\ i # k
    <3>1. DOMAIN D = 1 .. Declared /\ k \in 1 .. Declared /\ k - 1 = n
      BY <1>1, <2>1 DEF DirectoryAt, Declared
    <3>2. D[k] = At(DirectoryStart + (k - 1) * CentralWidth)
      BY <3>1 DEF DirectoryAt, DirectoryStart
    <3>3. DOMAIN records = 1 .. n
      BY <1>1 DEF TypeOK
    <3> QED
      BY <1>1, <2>1, <3>1, <3>2, <3>3 DEF Place
  <2>5. \A i \in DOMAIN records : D[i] = records[i]
    <3>1. \A i \in DOMAIN records :
             records[i] = At(DirectoryStart + (i - 1) * CentralWidth)
      BY <1>1 DEF Known, Listed
    <3> QED
      BY <2>4, <3>1 DEF DirectoryAt, DirectoryStart
  <2> HIDE DEF D, k
  <2>6. c.kind = "central" /\ RecordFault(c) = "none"
    BY <1>2, <2>4 DEF PackageOf
  <2>7. IsInjective([i \in DOMAIN D |-> Fold[D[i].name]])
    BY <1>2 DEF PackageOf
  <2>8. \A i, j \in DOMAIN D : Fold[D[i].name] = Fold[D[j].name] => i = j
    <3> DEFINE f == [i \in DOMAIN D |-> Fold[D[i].name]]
    <3>1. \A i, j \in DOMAIN f : f[i] = f[j] => i = j
      BY <2>7 DEF IsInjective
    <3> QED
      BY <3>1
  <2>9. \A i \in DOMAIN records : Fold[records[i].name] # Fold[c.name]
    BY <2>4, <2>5, <2>8
  <2>10. \A i \in DOMAIN records : records[i].name # c.name
    BY <2>9
  <2>11. ~(Place + CentralWidth > end)
    BY <1>1, <2>2
  <2> QED
    BY <2>1, <2>3, <2>6, <2>9, <2>10, <2>11 DEF PlaceFault
<1> QED
  BY <1>4, <1>5

\* The local headers.
LEMMA LocalRefused ==
    ASSUME Base, Known, RefuseLocal, IsPackage(end)
    PROVE  FALSE
PROOF
<1>1. phase = "locals" /\ LocalFault(Unverified) # "none"
      /\ Len(layouts) + 1 \in DOMAIN records /\ Unverified \in CentralCell
  BY DEF RefuseLocal, Base, TypeOK, Unverified
<1>2. PackageOf(end, records)
  BY <1>1, PackageIs, DirectoryIsRead
<1>3. SaysTheSame(Unverified)
  BY <1>1, <1>2 DEF PackageOf, Unverified
<1> QED
  BY <1>1, <1>3, SaysTheSameIs

\* The cover.
LEMMA CoverRefused ==
    ASSUME Base, Walk, Known, RefuseRegion \/ RefuseCover, IsPackage(end)
    PROVE  FALSE
PROOF
<1> DEFINE top == DirectoryStart
<1>1. /\ phase = "cover" /\ cursor \in Nat /\ walked \subseteq DOMAIN layouts
      /\ top \in Nat
  BY EndAt DEF RefuseRegion, RefuseCover, Base, TypeOK, EndFound
<1>2. /\ \A i \in DOMAIN layouts : layouts[i].region <= top
      /\ \A q \in 0 .. top - 1 :
            \E i \in DOMAIN layouts :
               Owns(i, q) /\ \A j \in DOMAIN layouts : Owns(j, q) => j = i
  BY <1>1, PackageCovers
<1>3. \A i \in DOMAIN layouts : /\ layouts[i].start \in Nat /\ layouts[i].region \in Nat
                                /\ layouts[i].start < layouts[i].region
  BY LayoutAt DEF Base, Walk
<1>4. /\ \A i \in walked : layouts[i].region <= cursor
      /\ \A p \in Nat : p < cursor => \E i \in walked : Owns(i, p)
  BY <1>1 DEF Walk
<1> HIDE DEF top
<1>5. CASE RefuseRegion
  <2>1. PICK i \in DOMAIN layouts : IsNext(i) /\ layouts[i].start # cursor
    BY <1>5 DEF RefuseRegion
  <2> DEFINE p == layouts[i].start
  <2>2. p \in Nat /\ p < top /\ Owns(i, p) /\ i \notin walked /\ p # cursor
    <3>1. layouts[i].region <= top
      BY <1>2
    <3> QED
      BY <1>1, <1>3, <2>1, <3>1 DEF IsNext, Owns
  <2>3. \A j \in DOMAIN layouts \ walked : p <= layouts[j].start
    BY <2>1 DEF IsNext
  <2> HIDE DEF p
  <2>4. CASE p < cursor
    <3>1. PICK j \in walked : Owns(j, p)
      BY <1>4, <2>2, <2>4
    <3>2. p \in 0 .. top - 1
      BY <1>1, <2>2
    <3> QED
      BY <1>1, <1>2, <2>2, <3>1, <3>2
  <2>5. CASE cursor < p
    <3>1. cursor \in 0 .. top - 1
      BY <1>1, <2>2, <2>5
    <3>2. PICK j \in DOMAIN layouts : Owns(j, cursor)
      BY <1>2, <3>1
    <3>3. j \notin walked
      BY <1>1, <1>3, <1>4, <3>2 DEF Owns
    <3>4. p <= layouts[j].start /\ layouts[j].start <= cursor /\ layouts[j].start \in Nat
      BY <1>3, <2>3, <3>2, <3>3 DEF Owns
    <3> QED
      BY <1>1, <2>2, <2>5, <3>4
  <2> QED
    BY <1>1, <2>2, <2>4, <2>5
<1>6. CASE RefuseCover
  <2>1. walked = DOMAIN layouts /\ cursor # top
    BY <1>6 DEF RefuseCover, top
  <2>2. CASE cursor < top
    <3>1. cursor \in 0 .. top - 1
      BY <1>1, <2>2
    <3>2. PICK j \in DOMAIN layouts : Owns(j, cursor)
      BY <1>2, <3>1
    <3> QED
      BY <1>1, <1>3, <1>4, <2>1, <3>2 DEF Owns
  <2>3. CASE top < cursor
    <3>1. PICK j \in walked : Owns(j, top)
      BY <1>1, <1>4, <2>3
    <3> QED
      BY <1>1, <1>2, <1>3, <3>1 DEF Owns
  <2> QED
    BY <1>1, <2>1, <2>2, <2>3
<1> QED
  BY <1>5, <1>6

\* The contents.
LEMMA ContentRefused ==
    ASSUME Kept, Known, RefuseChunk \/ RefuseStream \/ RefuseEntry, IsPackage(end)
    PROVE  FALSE
PROOF
<1> DEFINE k == Len(sizes) + 1
           r == records[k]
           N == Len(records)
<1>1. phase = "decode" /\ Base /\ TypeOK
  BY RefusedInPass DEF Kept, Base
<1>2. Decoding /\ Subject = k /\ k \in DOMAIN records /\ Already = total
  BY <1>1 DEF RefuseChunk, RefuseStream, RefuseEntry, StreamEnds, Decoding, Subject,
              Already
<1>3. PackageOf(end, records)
  BY <1>1, PackageIs, DirectoryIsRead
<1>4. /\ r \in CentralCell /\ decoded \in Nat /\ total \in Nat
  BY <1>2, SubjectAt
<1>5. /\ Content(r) = [yields |-> r.size, crc |-> r.crc, ending |-> "ends"]
      /\ r.size <= MaxEntry
      /\ r.size > Grace => Ratio(r.size, r) <= MaxRatio
  BY <1>2, <1>3 DEF PackageOf
<1>6. Content(r).yields = r.size /\ Content(r).crc = r.crc /\ Content(r).ending = "ends"
  BY <1>5
<1>7. total + r.size <= MaxTotal
  <2>1. /\ RecordSizes \in [1 .. N -> Nat] /\ N \in Nat /\ k \in 1 .. N /\ k - 1 = Len(sizes)
        /\ RecordSizes[k] = r.size
    BY <1>1, <1>2, SizesAreNumbers DEF RecordSizes, TypeOK
  <2>2. total = SumTo(RecordSizes, k - 1)
    BY <1>1, <2>1 DEF Known, Totalled
  <2>3. SumFunction(RecordSizes) <= MaxTotal
    <3>1. DOMAIN records = 1 .. N
      BY <1>1 DEF TypeOK
    <3> QED
      BY <1>3, <3>1 DEF PackageOf, RecordSizes
  <2> HIDE DEF k, N, r
  <2>4. /\ SumTo(RecordSizes, k) = SumTo(RecordSizes, k - 1) + RecordSizes[k]
        /\ SumTo(RecordSizes, N) = SumFunction(RecordSizes)
        /\ SumTo(RecordSizes, k) \in Nat /\ SumTo(RecordSizes, N) \in Nat
    <3>1. k \in 0 .. N /\ N \in 0 .. N
      BY <2>1
    <3>2. /\ SumTo(RecordSizes, N) = SumFunction(RecordSizes)
          /\ \A n \in 0 .. N : SumTo(RecordSizes, n) \in Nat
          /\ \A n \in 1 .. N : SumTo(RecordSizes, n)
                                 = SumTo(RecordSizes, n - 1) + RecordSizes[n]
      BY <2>1, SumToFacts
    <3> QED
      BY <2>1, <3>1, <3>2
  <2>5. SumTo(RecordSizes, k) <= SumTo(RecordSizes, N)
    BY <2>1, SumToGrows
  <2>6. MaxTotal \in Nat
    BY LimitAssumption
  <2> QED
    BY <2>1, <2>2, <2>3, <2>4, <2>5, <2>6
<1>8. Sound(r)
  <2>1. r.size \in Nat /\ MaxTotal \in Nat
    BY <1>4, LimitAssumption DEF CentralCell
  <2> HIDE DEF r
  <2> QED
    BY <1>4, <1>5, <1>6, <1>7, <2>1 DEF Sound
<1>9. r.size \in Nat /\ {MaxTotal, MaxEntry, Grace, MaxRatio} \subseteq Nat
  BY <1>4, LimitAssumption DEF CentralCell
<1> HIDE DEF r, k
<1>10. CASE RefuseStream
  BY <1>2, <1>6, <1>10 DEF RefuseStream, r
<1>11. CASE RefuseEntry
  BY <1>2, <1>6, <1>11 DEF RefuseEntry, StreamEnds, Exhausted, FinishFault, r
<1>12. CASE RefuseChunk
  <2>1. PICK n \in 1 .. Buffer :
            IsChunk(n) /\ ChunkFault(decoded + n, r, total) # "none"
    BY <1>2, <1>12 DEF RefuseChunk, r
  <2>2. decoded + n <= r.size /\ decoded + n \in Nat
    BY <1>2, <1>4, <1>6, <2>1 DEF IsChunk, r
  <2>3. ChunkFault(decoded + n, r, 0) = "none"
    BY <1>4, <1>8, <2>2, NoFault
  <2>4. ~(total + (decoded + n) > MaxTotal)
    BY <1>4, <1>7, <1>9, <2>2
  <2> QED
    BY <2>1, <2>3, <2>4 DEF ChunkFault
<1> QED
  BY <1>10, <1>11, <1>12

-----------------------------------------------------------------------------
(* What is accepted is a package.                                          *)

LEMMA AcceptedIsPackage ==
    ASSUME Kept, Walk, Known, phase = "decode", Len(sizes) = Len(records)
    PROVE  Size <= MaxArchive /\ end \in Signatures /\ IsPackage(end)
PROOF
<1> DEFINE N == Len(records)
<1>1. /\ Base /\ TypeOK /\ end \in Signatures /\ DirectoryStart \in Nat /\ N \in Nat
      /\ DOMAIN records = 1 .. N
  <2>1. Base /\ TypeOK /\ end \in Signatures
    BY DEF Kept, Base, EndFound
  <2> QED
    BY <2>1, EndAt DEF TypeOK
<1>2. Size <= MaxArchive /\ Terminals = {end} /\ EndFault(end) = "none"
  BY DEF Known, Searched
<1>3. /\ DirectoryAt(end) = records
      /\ At(end).bytes = At(end).entries * CentralWidth
      /\ IsInjective([k \in DOMAIN records |-> Fold[records[k].name]])
      /\ \A k \in DOMAIN records :
            records[k].kind = "central" /\ RecordFault(records[k]) = "none"
  BY <1>1, DirectoryIsRead
<1>4. /\ DOMAIN layouts = DOMAIN records /\ walked = DOMAIN layouts
      /\ cursor = DirectoryStart
      /\ \A k \in DOMAIN layouts : layouts[k] = Claim(records[k])
      /\ \A k \in DOMAIN layouts : LocalFault(records[k]) = "none"
  <2>1. Len(layouts) = Len(records)
    BY DEF Known, Verified
  <2>2. DOMAIN layouts = DOMAIN records
    BY <1>1, <2>1 DEF TypeOK
  <2> QED
    BY <2>2 DEF Known, Verified, Walk
<1>5. \A k \in DOMAIN records : SaysTheSame(records[k])
  BY <1>1, <1>4, SizesAreNumbers, SaysTheSameIs
<1>6. \A k \in DOMAIN records : Claim(records[k]).region <= DirectoryStart
  BY <1>4 DEF Walk
<1>7. ASSUME NEW q \in 0 .. DirectoryStart - 1
      PROVE  Cardinality({k \in DOMAIN records :
                             records[k].at <= q /\ q < Claim(records[k]).region}) = 1
  <2>1. q \in Nat /\ q < cursor
    BY <1>1, <1>4
  <2>2. PICK i \in walked : Owns(i, q) /\ \A j \in walked : Owns(j, q) => j = i
    BY <2>1 DEF Walk
  <2>3. {k \in DOMAIN layouts : Owns(k, q)} = {i}
    BY <1>4, <2>2
  <2>4. Cardinality({i}) = 1
    BY FS_Singleton
  <2> QED
    BY <1>1, <2>3, <2>4, HoldersAreOwners
<1>8. ASSUME NEW k \in DOMAIN records
      PROVE  /\ Content(records[k]) =
                  [yields |-> records[k].size, crc |-> records[k].crc, ending |-> "ends"]
             /\ records[k].size <= MaxEntry
             /\ records[k].size > Grace => Ratio(records[k].size, records[k]) <= MaxRatio
  <2>1. k \in DOMAIN sizes
    BY <1>1 DEF TypeOK
  <2>2. Sound(records[k])
    BY <2>1 DEF Kept, Passed
  <2> DEFINE r == records[k]
             c == Content(r)
  <2>3. c = [yields |-> c.yields, crc |-> c.crc, ending |-> c.ending]
    BY DEF Content
  <2> HIDE DEF c
  <2> QED
    BY <2>2, <2>3 DEF Sound, c
<1>9. SumFunction([k \in DOMAIN records |-> records[k].size]) <= MaxTotal
  <2>1. RecordSizes \in [1 .. N -> Nat]
    BY <1>1, SizesAreNumbers
  <2>2. SumTo(RecordSizes, N) = SumFunction(RecordSizes)
    BY <1>1, <2>1, SumToFacts
  <2>3. total = SumTo(RecordSizes, N) /\ total <= MaxTotal
    BY DEF Known, Totalled, Kept, Passed
  <2> QED
    BY <1>1, <2>2, <2>3 DEF RecordSizes
<1>10. PackageOf(end, records)
  BY <1>2, <1>3, <1>5, <1>6, <1>7, <1>8, <1>9 DEF PackageOf, DirectoryStart
<1> QED
  BY <1>1, <1>2, <1>3, <1>10, PackageIs

LEMMA InitKnown == Init => Known /\ VerdictIsExact
PROOF
BY DEF Init, Known, Searched, Listed, Verified, Totalled, VerdictIsExact

LEMMA VerdictStays ==
    ASSUME UNCHANGED image
    PROVE  (Size <= MaxArchive /\ \E p \in Signatures : IsPackage(p))'
              <=> (Size <= MaxArchive /\ \E p \in Signatures : IsPackage(p))
PROOF
<1>1. Size' = Size /\ Signatures' = Signatures
  BY ImageStays
<1>2. \A p : IsPackage(p)' <=> IsPackage(p)
  BY PackageStays
<1> QED
  BY <1>1, <1>2

LEMMA NextVerdict ==
    Kept /\ Walk /\ Known /\ VerdictIsExact /\ [Next]_vars => VerdictIsExact'
PROOF
<1> SUFFICES ASSUME Kept, Walk, Known, VerdictIsExact, [Next]_vars
             PROVE  VerdictIsExact'
  OBVIOUS
<1> DEFINE Good == Size <= MaxArchive /\ \E p \in Signatures : IsPackage(p)
<1>1. Base
  BY DEF Kept
<1>2. CASE RefuseEnd
  <2>1. ~Good
    BY <1>1, <1>2, EndRefused
  <2>2. UNCHANGED image /\ phase' = "refused"
    BY <1>2 DEF RefuseEnd, Refuse, parsed
  <2>3. ~Good'
    BY <2>1, <2>2, VerdictStays
  <2> QED
    BY <2>2, <2>3 DEF VerdictIsExact
<1>3. CASE RefuseRecord \/ RefuseRest \/ RefuseLocal \/ RefuseRegion \/ RefuseCover
           \/ RefuseChunk \/ RefuseStream \/ RefuseEntry
  <2>1. /\ UNCHANGED image /\ phase' = "refused" /\ phase \notin {"end", "refused"}
    BY <1>3 DEF RefuseRecord, RefuseRest, RefuseLocal, RefuseRegion, RefuseCover,
                RefuseChunk, RefuseStream, RefuseEntry, StreamEnds, Decoding, Refuse,
                parsed
  <2>2. ~IsPackage(end)
    BY <1>1, <1>3, DirectoryRefused, LocalRefused, CoverRefused, ContentRefused
  <2>3. ~Good
    BY <2>1, <2>2, PackageIsFound
  <2>4. ~Good'
    BY <2>1, <2>3, VerdictStays
  <2> QED
    BY <2>1, <2>4 DEF VerdictIsExact
<1>4. CASE InventoryEnds
  <2>1. Good
    BY <1>4, AcceptedIsPackage DEF InventoryEnds
  <2>2. UNCHANGED image /\ phase' = "done"
    BY <1>4 DEF InventoryEnds, parsed
  <2>3. Good'
    BY <2>1, <2>2, VerdictStays
  <2> QED
    BY <2>2, <2>3 DEF VerdictIsExact
<1>5. CASE FindEnd \/ ReadRecord \/ RecordsEnd \/ VerifyLocal \/ LocalsEnd \/ ClaimRegion
           \/ CoverEnds \/ FinishEntry
  <2>1. phase' \notin {"done", "again", "refused"}
    BY <1>5 DEF FindEnd, ReadRecord, RecordsEnd, VerifyLocal, LocalsEnd, ClaimRegion,
                CoverEnds, FinishEntry
  <2> QED
    BY <2>1 DEF VerdictIsExact
<1>6. CASE AcceptChunk \/ EntryBytes \/ EntryBytesEnds \/ Decided \/ UNCHANGED vars
  <2>1. /\ UNCHANGED image
        /\ phase' \in {"done", "again"} => phase \in {"done", "again"}
        /\ phase' = "refused" => phase = "refused"
    BY <1>6 DEF AcceptChunk, EntryBytes, EntryBytesEnds, Decided, vars, parsed
  <2>2. Good' <=> Good
    BY <2>1, VerdictStays
  <2> QED
    BY <2>1, <2>2 DEF VerdictIsExact
<1> QED
  BY <1>2, <1>3, <1>4, <1>5, <1>6 DEF Next

\* inventory() accepts exactly the images that are packages.
THEOREM VerdictHolds == Spec => []VerdictIsExact
PROOF
<1>1. Spec => [](Kept /\ Walk)
  <2>1. Spec => [](Base /\ Walk)
    BY InitBase, NextBase, InitWalk, NextWalk, PTL DEF Spec
  <2> QED
    BY <2>1, AlwaysKept, PTL
<1> QED
  BY <1>1, InitKnown, NextKnown, NextVerdict, PTL DEF Spec
===============================================================================
