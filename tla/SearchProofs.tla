---------------------------- MODULE SearchProofs ----------------------------
(***************************************************************************)
(* What the two searches promise, for any files, filters and lengths of a  *)
(* page and any number of seed runs' statements between theirs.            *)
(***************************************************************************)
EXTENDS Search, FiniteSetTheorems, SequenceTheorems, WellFoundedInduction, TLAPS

(* Every set of subsets of a finite set has a member that is smallest.     *)
LEMMA SmallestSubset ==
  ASSUME NEW K, IsFiniteSet(K), NEW C \in SUBSET (SUBSET K), C # {}
  PROVE  \E S \in C : \A T \in C : T \subseteq S => T = S
<1>1. IsWellFoundedOn(StrictSubsetOrdering(K), FiniteSubsetsOf(K))
  BY FS_StrictSubsetOrderingWellFounded
<1>2. C \subseteq FiniteSubsetsOf(K)
  BY FS_Subset DEF FiniteSubsetsOf
<1>3. \E S \in C : \A T \in C : <<T, S>> \notin StrictSubsetOrdering(K)
  BY <1>1, <1>2, WFMin
<1> QED
  BY <1>3 DEF StrictSubsetOrdering

-----------------------------------------------------------------------------
(* The numbers of identifiers.  Number folds the digits from the left;     *)
(* this is the function that the fold builds over sets of positions.       *)
Values(d, S, g) ==
  g = [s \in SUBSET S |-> IF s = {} THEN 0 ELSE 10 * g[s \ {Max(s)}] + d[Max(s)]]

LEMMA NumberIsValue ==
  ASSUME NEW d
  PROVE  Number(d) = (CHOOSE g : Values(d, DOMAIN d, g))[DOMAIN d]
  BY DEF Number, FoldLeft, MapThenFoldSet, Values

LEMMA Digits == \A a \in Nat : \A b \in 0..9 : 10 * a + b \in Nat
  OBVIOUS

(* A set of natural numbers has a first one, ... *)
LEMMA LeastNat ==
  ASSUME NEW T \in SUBSET Nat, T # {}
  PROVE  \E k \in T : \A j \in T : k <= j
<1> DEFINE R == OpToRel(<, Nat)
<1>1. IsWellFoundedOn(R, Nat)
  BY NatLessThanWellFounded
<1>2. \A j, k \in Nat : j < k => <<j, k>> \in R
  BY DEF OpToRel
<1> HIDE DEF R
<1>3. PICK k \in T : \A j \in T : ~(<<j, k>> \in R)
  BY <1>1, WFMin
<1>4. ASSUME NEW j \in T PROVE k <= j
  <2>1. j \in Nat /\ k \in Nat /\ ~(j < k)
    BY <1>2, <1>3
  <2> QED
    BY ONLY <2>1
<1> QED
  BY <1>4

(* ... and one that is bounded a last one. *)
LEMMA MaxIn ==
  ASSUME NEW n \in Nat, NEW s \in SUBSET (1..n), s # {}
  PROVE  Max(s) \in s /\ \A y \in s : Max(s) >= y
<1> DEFINE T == {n - x : x \in s}
<1>1. T \in SUBSET Nat /\ T # {}
  <2>1. \A x \in s : x \in 1..n /\ n - x \in Nat
    OBVIOUS
  <2> QED
    BY <2>1
<1>2. \E k \in T : \A j \in T : k <= j
  <2> HIDE DEF T
  <2> QED
    BY <1>1, LeastNat
<1>3. PICK x \in s : \A j \in T : n - x <= j
  BY <1>2
<1>4. \A y \in s : n - x <= n - y
  BY <1>3
<1>5. \A y \in s : x >= y
  BY <1>4
<1>6. (CHOOSE x1 \in s : \A y \in s : x1 >= y) \in s
      /\ \A y \in s : (CHOOSE x1 \in s : \A z \in s : x1 >= z) >= y
  BY <1>5
<1> QED
  BY <1>6 DEF Max

(* The prefixes of 1..n. *)
LEMMA Segments ==
  ASSUME NEW n \in Nat
  PROVE  \E P \in [0..n -> SUBSET (1..n)] :
           /\ P[0] = {} /\ P[n] = 1..n
           /\ \A k \in 1..n : P[k] # {} /\ Max(P[k]) = k /\ P[k] \ {k} = P[k - 1]
<1> DEFINE P == [k \in 0..n |-> {i \in 1..n : i <= k}]
<1>1. P \in [0..n -> SUBSET (1..n)] /\ P[0] = {} /\ P[n] = 1..n
  OBVIOUS
<1>2. ASSUME NEW k \in 1..n
      PROVE  /\ P[k] = {i \in 1..n : i <= k}
             /\ P[k - 1] = {i \in 1..n : i <= k - 1}
  OBVIOUS
<1> HIDE DEF P
<1>3. ASSUME NEW k \in 1..n
      PROVE  P[k] # {} /\ Max(P[k]) = k /\ P[k] \ {k} = P[k - 1]
  <2>1. k \in P[k] /\ \A y \in P[k] : y <= k /\ y \in Nat
    BY <1>2
  <2>2. P[k] \in SUBSET (1..n)
    BY <1>2
  <2>3. Max(P[k]) \in P[k] /\ Max(P[k]) >= k
    BY <2>1, <2>2, MaxIn
  <2>4. Max(P[k]) = k
    BY <2>1, <2>3
  <2>5. P[k] \ {k} = P[k - 1]
    BY <1>2
  <2> QED
    BY <2>1, <2>4, <2>5
<1>4. \A k \in 1..n : P[k] # {} /\ Max(P[k]) = k /\ P[k] \ {k} = P[k - 1]
  BY <1>3
<1> QED
  BY <1>1, <1>4

(* Such functions agree with each other ... *)
LEMMA ValuesAgree ==
  ASSUME NEW K, IsFiniteSet(K), \A s \in SUBSET K : s # {} => Max(s) \in s,
         NEW d, NEW S \in SUBSET K, NEW T \in SUBSET K, NEW g, NEW h,
         Values(d, S, g), Values(d, T, h)
  PROVE  \A s \in SUBSET (S \cap T) : g[s] = h[s]
<1> DEFINE C == {s \in SUBSET (S \cap T) : g[s] # h[s]}
<1> SUFFICES ASSUME C # {} PROVE FALSE
  OBVIOUS
<1>1. PICK s \in C : \A t \in C : t \subseteq s => t = s
  <2>1. C \in SUBSET (SUBSET K)
    OBVIOUS
  <2> HIDE DEF C
  <2> QED
    BY <2>1, SmallestSubset
<1>2. /\ s \in SUBSET S /\ s \in SUBSET T
      /\ g[s] = IF s = {} THEN 0 ELSE 10 * g[s \ {Max(s)}] + d[Max(s)]
      /\ h[s] = IF s = {} THEN 0 ELSE 10 * h[s \ {Max(s)}] + d[Max(s)]
  BY <1>1 DEF Values
<1>3. s # {} /\ Max(s) \in s
  BY <1>1, <1>2
<1>4. s \ {Max(s)} \notin C
  BY <1>1, <1>3
<1> QED
  BY <1>1, <1>2, <1>3, <1>4

(* ... and exist. *)
LEMMA ValuesExist ==
  ASSUME NEW K, IsFiniteSet(K), \A s \in SUBSET K : s # {} => Max(s) \in s, NEW d
  PROVE  \A S \in SUBSET K : \E g : Values(d, S, g)
<1> DEFINE C == {S \in SUBSET K : ~ \E g : Values(d, S, g)}
<1> SUFFICES ASSUME C # {} PROVE FALSE
  OBVIOUS
<1>1. PICK S \in C : \A T \in C : T \subseteq S => T = S
  <2>1. C \in SUBSET (SUBSET K)
    OBVIOUS
  <2> HIDE DEF C
  <2> QED
    BY <2>1, SmallestSubset
<1>2. /\ S \in SUBSET K
      /\ \A T \in SUBSET S : T # S => \E g : Values(d, T, g)
  BY <1>1
<1> DEFINE G(T) == CHOOSE g : Values(d, T, g)
           R == S \ {Max(S)}
           g == [s \in SUBSET S |-> IF s = {} THEN 0
                                    ELSE IF s = S THEN 10 * G(R)[R] + d[Max(S)]
                                    ELSE G(s)[s]]
<1>3. \A T \in SUBSET S : T # S => Values(d, T, G(T))
  BY <1>2
<1> HIDE DEF G
<1>4. ASSUME NEW s \in SUBSET S, s # {}
      PROVE  g[s] = 10 * g[s \ {Max(s)}] + d[Max(s)]
  <2> DEFINE t == s \ {Max(s)}
  <2>1. Max(s) \in s /\ t \in SUBSET s /\ t # s /\ t # S /\ t \in SUBSET S
    BY <1>2, <1>4
  <2>2. g[t] = G(t)[t]
    <3>1. CASE t = {}
      <4>1. Values(d, t, G(t))
        BY <1>3, <2>1
      <4> QED
        BY <2>1, <3>1, <4>1 DEF Values
    <3>2. CASE t # {}
      BY <2>1, <3>2
    <3> QED
      BY <3>1, <3>2
  <2>3. CASE s = S
    BY <1>4, <2>2, <2>3
  <2>4. CASE s # S
    <3>1. Values(d, s, G(s)) /\ Values(d, t, G(t))
      BY <1>3, <2>1, <2>4
    <3>2. G(s)[s] = 10 * G(s)[t] + d[Max(s)]
      BY <1>4, <2>1, <3>1 DEF Values
    <3>3. G(s)[t] = G(t)[t]
      <4>1. /\ s \in SUBSET K /\ t \in SUBSET K /\ t \in SUBSET (s \cap t)
        BY <1>2, <2>1
      <4> HIDE DEF t
      <4> QED
        BY <3>1, <4>1, ValuesAgree
    <3>4. g[s] = G(s)[s]
      BY <1>4, <2>4
    <3> QED
      BY ONLY <2>2, <3>2, <3>3, <3>4
  <2> QED
    BY <2>3, <2>4
<1>5. Values(d, S, g)
  <2>1. g = [s \in SUBSET S |-> g[s]]
    OBVIOUS
  <2>2. g[{}] = 0
    OBVIOUS
  <2>3. \A s \in SUBSET S :
          g[s] = IF s = {} THEN 0 ELSE 10 * g[s \ {Max(s)}] + d[Max(s)]
    <3> HIDE DEF g
    <3> QED
      BY <1>4, <2>2
  <2> HIDE DEF g
  <2>4. [s \in SUBSET S |-> g[s]]
          = [s \in SUBSET S |-> IF s = {} THEN 0 ELSE 10 * g[s \ {Max(s)}] + d[Max(s)]]
    BY <2>3
  <2> QED
    BY <2>1, <2>4 DEF Values
<1> QED
  BY <1>1, <1>5

(* Hence the value of the first digits follows from that of one fewer.     *)
LEMMA NumberByPrefix ==
  ASSUME NEW d \in Seq(0..9)
  PROVE  \E v \in [0..Len(d) -> Nat] :
           /\ v[0] = 0 /\ v[Len(d)] = Number(d)
           /\ \A k \in 1..Len(d) : v[k] = 10 * v[k - 1] + d[k]
<1> DEFINE n == Len(d)
           g == CHOOSE h : Values(d, 1..n, h)
<1>0. n \in Nat /\ DOMAIN d = 1..n /\ \A k \in 1..n : d[k] \in 0..9
  OBVIOUS
<1>1. Values(d, 1..n, g)
  <2> DEFINE K == 1..n
  <2>1. IsFiniteSet(K)
    BY <1>0, FS_Interval
  <2>2. \A s \in SUBSET K : s # {} => Max(s) \in s
    BY <1>0, MaxIn
  <2> HIDE DEF K
  <2>3. \E h : Values(d, K, h)
    BY <2>1, <2>2, ValuesExist
  <2> QED
    BY <2>3 DEF K
<1>2. Number(d) = g[1..n]
  BY <1>0, NumberIsValue
<1> HIDE DEF g, n
<1>3. PICK P \in [0..n -> SUBSET (1..n)] :
        /\ P[0] = {} /\ P[n] = 1..n
        /\ \A k \in 1..n : P[k] # {} /\ Max(P[k]) = k /\ P[k] \ {k} = P[k - 1]
  <2>1. n \in Nat
    BY <1>0
  <2> QED
    BY ONLY <2>1, Segments
<1> DEFINE v == [k \in 0..n |-> g[P[k]]]
<1>4. \A s \in SUBSET (1..n) :
        g[s] = IF s = {} THEN 0 ELSE 10 * g[s \ {Max(s)}] + d[Max(s)]
  BY <1>1 DEF Values
<1>5. ASSUME NEW k \in 1..n PROVE v[k] = 10 * v[k - 1] + d[k]
  <2>1. k \in 0..n /\ k - 1 \in 0..n
    BY <1>0
  <2>2. P[k] \in SUBSET (1..n) /\ v[k] = g[P[k]] /\ v[k - 1] = g[P[k - 1]]
    BY <2>1
  <2>3. g[P[k]] = 10 * g[P[k] \ {Max(P[k])}] + d[Max(P[k])]
    BY <1>3, <1>4, <2>2
  <2>4. Max(P[k]) = k /\ P[k] \ {k} = P[k - 1]
    BY <1>3
  <2> HIDE DEF v
  <2> QED
    BY ONLY <2>2, <2>3, <2>4
<1>6. v[0] = 0 /\ v[n] = Number(d) /\ v = [k \in 0..n |-> v[k]]
  <2>1. {} \in SUBSET (1..n) /\ 0 \in 0..n /\ n \in 0..n
    BY <1>0
  <2>2. g[{}] = 0
    BY <1>4, <2>1
  <2> QED
    BY <1>2, <1>3, <2>1, <2>2
<1> HIDE DEF v
<1>7. \A k \in 0..n : v[k] \in Nat
  <2> DEFINE C == {k \in 0..n : v[k] \notin Nat}
  <2> SUFFICES ASSUME C # {} PROVE FALSE
    OBVIOUS
  <2>1. PICK k \in C : \A j \in C : k <= j
    <3>1. C \in SUBSET Nat
      BY <1>0
    <3> HIDE DEF C
    <3> QED
      BY <3>1, LeastNat
  <2>2. k \in 1..n /\ k - 1 \in 0..n /\ v[k] \notin Nat
    BY <1>0, <1>6, <2>1
  <2>3. k - 1 \notin C
    BY <1>0, <2>1, <2>2
  <2>4. v[k - 1] \in Nat
    BY <2>2, <2>3
  <2>5. 10 * v[k - 1] + d[k] \in Nat
    <3>1. d[k] \in 0..9
      BY <1>0, <2>2
    <3> QED
      BY ONLY <2>4, <3>1, Digits
  <2> QED
    BY <1>5, <2>2, <2>5
<1>8. v \in [0..n -> Nat]
  BY <1>6, <1>7
<1> QED
  BY <1>5, <1>6, <1>8 DEF n

(* An identifier's number is a natural number, and different digits of one *)
(* length are different numbers.                                           *)
LEMMA NumberFacts ==
  /\ \A d \in Seq(0..9) : Number(d) \in Nat
  /\ \A d, e \in Seq(0..9) : Len(d) = Len(e) /\ Number(d) = Number(e) => d = e
<1>1. ASSUME NEW d \in Seq(0..9) PROVE Number(d) \in Nat
  <2>1. Len(d) \in Nat /\ Len(d) \in 0..Len(d)
    OBVIOUS
  <2> QED
    BY <2>1, NumberByPrefix
<1>2. ASSUME NEW d \in Seq(0..9), NEW e \in Seq(0..9),
             Len(d) = Len(e), Number(d) = Number(e)
      PROVE  d = e
  <2> DEFINE n == Len(d)
  <2>0. n \in Nat /\ \A k \in 1..n : d[k] \in 0..9 /\ e[k] \in 0..9
    BY <1>2
  <2>1. PICK v \in [0..n -> Nat] :
          v[0] = 0 /\ v[n] = Number(d) /\ \A k \in 1..n : v[k] = 10 * v[k - 1] + d[k]
    BY NumberByPrefix
  <2>2. PICK w \in [0..n -> Nat] :
          w[0] = 0 /\ w[n] = Number(d) /\ \A k \in 1..n : w[k] = 10 * w[k - 1] + e[k]
    BY <1>2, NumberByPrefix
  <2> HIDE DEF n
  <2> DEFINE C == {k \in 0..n : v[k] = w[k] /\ \E i \in 1..k : d[i] # e[i]}
  <2>3. ASSUME C # {} PROVE FALSE
    <3>1. PICK k \in C : \A j \in C : k <= j
      <4>1. C \in SUBSET Nat
        BY <2>0
      <4> HIDE DEF C
      <4> QED
        BY <2>3, <4>1, LeastNat
    <3>2. /\ k \in 1..n /\ k - 1 \in 0..n
          /\ v[k] = w[k] /\ \E i \in 1..k : d[i] # e[i]
      BY <2>0, <3>1
    <3>3. v[k - 1] = w[k - 1] /\ d[k] = e[k]
      <4> DEFINE a == v[k - 1]
                 b == d[k]
                 c == w[k - 1]
                 f == e[k]
      <4>1. v[k] = 10 * a + b /\ w[k] = 10 * c + f
        BY <2>1, <2>2, <3>2
      <4>2. a \in Nat /\ c \in Nat /\ b \in 0..9 /\ f \in 0..9
        BY <2>0, <3>2
      <4> HIDE DEF C, a, b, c, f
      <4>3. 10 * a + b = 10 * c + f
        BY ONLY <3>2, <4>1
      <4>4. a = c /\ b = f
        BY ONLY <4>2, <4>3
      <4> QED
        BY ONLY <4>4 DEF a, b, c, f
    <3>4. \E i \in 1..(k - 1) : d[i] # e[i]
      <4>1. PICK i \in 1..k : d[i] # e[i]
        BY <3>2
      <4>2. i # k
        BY <3>3, <4>1
      <4>3. i \in 1..(k - 1)
        <5>1. k \in Int
          BY <2>0, <3>2
        <5> QED
          BY ONLY <4>2, <5>1
      <4> QED
        BY <4>1, <4>3
    <3>5. k - 1 \in C
      BY <3>2, <3>3, <3>4
    <3> QED
      BY <2>0, <3>1, <3>2, <3>5
  <2>4. \A i \in 1..n : d[i] = e[i]
    <3>1. n \in 0..n
      BY <2>0
    <3>2. v[n] = w[n]
      BY <2>1, <2>2
    <3>3. n \notin C
      BY <2>3
    <3> QED
      BY <3>1, <3>2, <3>3
  <2> QED
    BY <1>2, <2>0, <2>4 DEF n
<1> QED
  BY <1>1, <1>2

-----------------------------------------------------------------------------
(* Sorting.  A finite set has, under a strict order, a last member ...     *)
LEMMA LastMember ==
  ASSUME NEW S, IsFiniteSet(S), S # {}, NEW R,
         \A a \in S : <<a, a>> \notin R,
         \A a, b, c \in S : <<a, b>> \in R /\ <<b, c>> \in R => <<a, c>> \in R
  PROVE  \E m \in S : \A a \in S : <<m, a>> \notin R
<1> DEFINE After(a) == {b \in S : <<a, b>> \in R}
           C == {After(a) : a \in S}
<1>1. PICK T \in C : \A U \in C : U \subseteq T => U = T
  <2>1. C \in SUBSET (SUBSET S)
    <3>1. \A a \in S : After(a) \in SUBSET S
      OBVIOUS
    <3> HIDE DEF After
    <3> QED
      BY <3>1
  <2>2. C # {}
    <3> HIDE DEF After
    <3> QED
      OBVIOUS
  <2> HIDE DEF C
  <2> QED
    BY <2>1, <2>2, SmallestSubset
<1>2. PICK m \in S : T = After(m)
  <2> HIDE DEF After
  <2> QED
    BY <1>1
<1>3. ASSUME NEW a \in S, <<m, a>> \in R PROVE FALSE
  <2>1. \A b \in After(a) : b \in S /\ <<a, b>> \in R /\ <<m, b>> \in R
    BY <1>3
  <2>2. \A b \in After(a) : b \in After(m)
    BY <2>1
  <2>3. a \in After(m) /\ a \notin After(a)
    BY <1>3
  <2>4. After(a) \in C
    <3> HIDE DEF After
    <3> QED
      OBVIOUS
  <2> HIDE DEF After, C
  <2> QED
    BY <1>1, <1>2, <2>2, <2>3, <2>4
<1> QED
  BY <1>3

(* ... and so, if the order is total, a sorted sequence.                   *)
LEMMA SortedExists ==
  ASSUME NEW S, IsFiniteSet(S), NEW R,
         \A a \in S : <<a, a>> \notin R,
         \A a, b, c \in S : <<a, b>> \in R /\ <<b, c>> \in R => <<a, c>> \in R
  PROVE  \E s \in SetToSeqs(S) : \A i, j \in DOMAIN s : i < j => <<s[j], s[i]>> \notin R
<1> DEFINE Sorts(T, s) == /\ s \in [1..Cardinality(T) -> T]
                          /\ \A i, j \in 1..Cardinality(T) :
                               /\ i # j => s[i] # s[j]
                               /\ i < j => <<s[j], s[i]>> \notin R
           C == {T \in SUBSET S : ~ \E s : Sorts(T, s)}
<1>1. ASSUME C # {} PROVE FALSE
  <2>1. PICK T \in C : \A U \in C : U \subseteq T => U = T
    <3>1. C \in SUBSET (SUBSET S)
      OBVIOUS
    <3> HIDE DEF C
    <3> QED
      BY <1>1, <3>1, SmallestSubset
  <2>2. T \in SUBSET S /\ IsFiniteSet(T) /\ Cardinality(T) \in Nat
    BY <2>1, FS_Subset, FS_CardinalityType
  <2>3. T # {}
    <3>1. ASSUME T = {} PROVE FALSE
      <4> DEFINE e == [i \in 1..0 |-> {}]
      <4>1. Cardinality(T) = 0
        BY <3>1, FS_EmptySet
      <4>2. e \in [1..0 -> T] /\ \A i, j \in 1..0 : FALSE
        BY <3>1
      <4> HIDE DEF e
      <4>3. Sorts(T, e)
        BY <4>1, <4>2
      <4>4. \E s : Sorts(T, s)
        BY <4>3
      <4> HIDE DEF Sorts
      <4> QED
        BY <2>1, <4>4
    <3> QED
      BY <3>1
  <2>4. PICK m \in T : \A a \in T : <<m, a>> \notin R
    BY <2>2, <2>3, LastMember
  <2> DEFINE U == T \ {m}
             n == Cardinality(T)
  <2>5. /\ Cardinality(U) = n - 1 /\ n \in Nat /\ n - 1 \in Nat
    <3>1. Cardinality(U) = n - 1 /\ IsFiniteSet(U)
      BY <2>2, <2>4, FS_RemoveElement
    <3>2. Cardinality(U) \in Nat
      <4> HIDE DEF U
      <4> QED
        BY <3>1, FS_CardinalityType
    <3> QED
      BY <2>2, <3>1, <3>2
  <2>6. PICK s : Sorts(U, s)
    <3>1. U \in SUBSET S /\ U # T /\ U \subseteq T
      BY <2>2, <2>4
    <3>2. U \notin C
      <4> HIDE DEF U, C
      <4> QED
        BY <2>1, <3>1
    <3> HIDE DEF Sorts, U
    <3> QED
      BY <3>1, <3>2
  <2> DEFINE t == [i \in 1..n |-> IF i = n THEN m ELSE s[i]]
  <2>7. /\ s \in [1..(n - 1) -> U]
        /\ \A i, j \in 1..(n - 1) : /\ i # j => s[i] # s[j]
                                    /\ i < j => <<s[j], s[i]>> \notin R
    BY <2>5, <2>6
  <2> HIDE DEF n
  <2>8. \A i \in 1..n : i # n => i \in 1..(n - 1) /\ t[i] = s[i] /\ s[i] \in T /\ s[i] # m
    BY <2>5, <2>7
  <2>9. t \in [1..n -> T]
    BY <2>4, <2>8
  <2>10. ASSUME NEW i \in 1..n, NEW j \in 1..n
         PROVE  /\ i # j => t[i] # t[j]
                /\ i < j => <<t[j], t[i]>> \notin R
    <3>1. CASE i # n /\ j # n
      BY <2>7, <2>8, <3>1
    <3>2. CASE i # n /\ j = n
      BY <2>4, <2>5, <2>8, <3>2
    <3>3. CASE i = n /\ j # n
      <4>1. ~(i < j)
        BY <2>5, <3>3
      <4> QED
        BY <2>8, <3>3, <4>1
    <3>4. CASE i = n /\ j = n
      BY <2>5, <3>4
    <3> QED
      BY <3>1, <3>2, <3>3, <3>4
  <2>11. Sorts(T, t)
    <3> HIDE DEF t
    <3> QED
      BY <2>9, <2>10 DEF n
  <2>12. T \notin C
    <3>1. \E q : Sorts(T, q)
      BY <2>11
    <3> HIDE DEF Sorts
    <3> QED
      BY <3>1
  <2> QED
    BY <2>1, <2>12
<1>2. PICK s : Sorts(S, s)
  <2>1. S \in SUBSET S /\ S \notin C
    BY <1>1
  <2> HIDE DEF Sorts
  <2> QED
    BY <2>1
<1>3. s \in SetToSeqs(S) /\ DOMAIN s = 1..Cardinality(S)
  BY <1>2 DEF SetToSeqs
<1> QED
  BY <1>2, <1>3

-----------------------------------------------------------------------------
(* Lines and rows.                                                         *)
LEMMA OneToOne ==
  ASSUME NEW S, NEW T, IsFiniteSet(S), NEW f \in [S -> T],
         \A a, b \in S : f[a] = f[b] => a = b,
         \A t \in T : \E a \in S : f[a] = t
  PROVE  IsFiniteSet(T) /\ Cardinality(T) = Cardinality(S)
<1>1. f \in Bijection(S, T)
  BY DEF Bijection, Injection, Surjection, IsInjective
<1> QED
  BY <1>1, FS_Bijection DEF ExistsBijection

LEMMA FileTypes ==
  ASSUME image \in Images
  PROVE  /\ \A t \in Tables : Len(image[t]) \in Nat /\ DOMAIN image[t] = 1..Len(image[t])
         /\ \A i \in DOMAIN image["drivers"] :
              image["drivers"][i] \in [id : Identifiers, name : STRING]
         /\ \A i \in DOMAIN image["parents"] :
              image["parents"][i] \in [id : Identifiers, state : STRING]
         /\ \A i \in DOMAIN image["rows"] :
              /\ image["rows"][i] \in [id : Identifiers, driver : Identifiers,
                                       parent : Identifiers, day : Nat,
                                       state : STRING, line : Nat]
              /\ image["rows"][i].line = i
<1>1. /\ image["drivers"] \in Seq([id : Identifiers, name : STRING])
      /\ image["parents"] \in Seq([id : Identifiers, state : STRING])
      /\ image["rows"] \in Seq([id : Identifiers, driver : Identifiers, parent : Identifiers,
                                day : Nat, state : STRING, line : Nat])
      /\ \A i \in DOMAIN image["rows"] : image["rows"][i].line = i
  BY FilesAssumption DEF Files, Tables
<1>2. \A t \in Tables : Len(image[t]) \in Nat /\ DOMAIN image[t] = 1..Len(image[t])
  BY <1>1 DEF Tables
<1>3. ASSUME NEW T, NEW s \in Seq(T) PROVE \A i \in DOMAIN s : s[i] \in T
  BY <1>3
<1> QED
  BY <1>1, <1>2, <1>3

LEMMA KeyTypes ==
  ASSUME NEW v \in Identifiers
  PROVE  /\ ToIntOrNone(v) \in Nat \cup {None}
         /\ v = Blank <=> ToIntOrNone(v) = None
         /\ v # Blank => ToIntOrNone(v) = Number(v.digits)
<1>1. Number(v.digits) \in Nat
  BY NumberFacts DEF Identifiers
<1> QED
  BY <1>1 DEF ToIntOrNone, None

LEMMA RowTypes ==
  ASSUME image \in Images
  PROVE  /\ \A i \in DOMAIN image["drivers"] : LET row == image["drivers"][i] IN
              Row("drivers", i) = [id |-> ToIntOrNone(row.id), name |-> row.name]
         /\ \A i \in DOMAIN image["parents"] : LET row == image["parents"][i] IN
              Row("parents", i) = [id |-> ToIntOrNone(row.id), state |-> row.state]
         /\ \A i \in DOMAIN image["rows"] : LET row == image["rows"][i] IN
              Row("rows", i) = [id |-> ToIntOrNone(row.id), driver |-> ToIntOrNone(row.driver),
                                parent |-> ToIntOrNone(row.parent), day |-> row.day,
                                state |-> row.state, line |-> i]
<1>1. ASSUME NEW i \in DOMAIN image["drivers"]
      PROVE  LET row == image["drivers"][i] IN
             Row("drivers", i) = [id |-> ToIntOrNone(row.id), name |-> row.name]
  BY FileTypes DEF Row, ToConvert, TransformRow, IdColumns
<1>2. ASSUME NEW i \in DOMAIN image["parents"]
      PROVE  LET row == image["parents"][i] IN
             Row("parents", i) = [id |-> ToIntOrNone(row.id), state |-> row.state]
  BY FileTypes DEF Row, ToConvert, TransformRow, IdColumns
<1>3. ASSUME NEW i \in DOMAIN image["rows"]
      PROVE  LET row == image["rows"][i] IN
             Row("rows", i) = [id |-> ToIntOrNone(row.id), driver |-> ToIntOrNone(row.driver),
                               parent |-> ToIntOrNone(row.parent), day |-> row.day,
                               state |-> row.state, line |-> i]
  <2> DEFINE row == image["rows"][i]
  <2>1. /\ row \in [id : Identifiers, driver : Identifiers, parent : Identifiers,
                   day : Nat, state : STRING, line : Nat]
        /\ row.line = i
    BY FileTypes
  <2> HIDE DEF row
  <2>2. TransformRow(row, IdColumns("rows"))
          = [id |-> ToIntOrNone(row.id), driver |-> ToIntOrNone(row.driver),
             parent |-> ToIntOrNone(row.parent), day |-> row.day,
             state |-> row.state, line |-> i]
    BY <2>1 DEF TransformRow, IdColumns
  <2> QED
    BY <2>2 DEF Row, ToConvert, row
<1> QED
  BY <1>1, <1>2, <1>3

(* The file t is one that its COPY accepts, if it accepts those of the     *)
(* tables that t refers to.                                                *)
Fits(t) ==
  /\ Converts(t)
  /\ \A i, j \in Lines(t) : i # j =>
       /\ Row(t, i).id # Row(t, j).id
       /\ t = "rows" /\ what = "trips" => Row(t, i).parent # Row(t, j).parent
  /\ \A i \in Lines(t) : Row(t, i).id # None /\ Row(t, i).id <= MaxInteger
  /\ t = "rows" => \A i \in Lines(t) :
       /\ Row(t, i).driver # None => \E k \in Lines("drivers") : Row("drivers", k).id = Row(t, i).driver
       /\ Row(t, i).parent # None
       /\ \E k \in Lines("parents") : Row("parents", k).id = Row(t, i).parent

LEMMA AcceptedFits ==
  ASSUME NEW t \in Tables, \A p \in Referenced(t) : table[p] = Converted(p)
  PROVE  Fits(t) <=> Converts(t) /\ Accepted(t)
<1>1. CASE t # "rows"
  BY <1>1 DEF Fits, Accepted, Converted, Lines, ToConvert
<1>2. CASE t = "rows"
  <2>1. table["drivers"] = Converted("drivers") /\ table["parents"] = Converted("parents")
    BY <1>2 DEF Referenced
  <2>2. \A key : /\ Present(key, "drivers") <=> \E k \in Lines("drivers") : Row("drivers", k).id = key
                 /\ Present(key, "parents") <=> \E k \in Lines("parents") : Row("parents", k).id = key
    BY <2>1 DEF Present, Converted, Lines, ToConvert
  <2> QED
    BY <1>2, <2>2 DEF Fits, Accepted, Converted, Lines, ToConvert
<1> QED
  BY <1>1, <1>2

LEMMA RowsOfFile ==
  ASSUME image \in Images, NEW t \in Tables, Fits(t)
  PROVE  IsFiniteSet(Converted(t)) /\ Cardinality(Converted(t)) = Len(image[t])
<1> DEFINE K == Lines(t)
           f == [i \in K |-> Row(t, i)]
<1>1. IsFiniteSet(K) /\ Cardinality(K) = Len(image[t])
  <2>1. K = 1..Len(image[t]) /\ Len(image[t]) \in Nat
    BY FileTypes DEF Lines
  <2> HIDE DEF K
  <2> QED
    BY <2>1, FS_Interval
<1>2. /\ f \in [K -> Converted(t)]
      /\ \A a, b \in K : f[a] = f[b] => a = b
      /\ \A r \in Converted(t) : \E a \in K : f[a] = r
  BY DEF Converted, Fits, Lines, ToConvert
<1> HIDE DEF K, f
<1> QED
  BY <1>1, <1>2, OneToOne

-----------------------------------------------------------------------------
(* What a search selects once the rows are loaded, and in which order.     *)
InStateOfFile(row, f) ==
  IF what = "trips"
  THEN \E p \in Converted("parents") :
         p.id = row.parent /\ (f.state # "" => p.state = f.state)
  ELSE f.state # "" => row.state = f.state

Chosen(f) ==
  {row \in Converted("rows") : InList(row, f) /\ InWindow(row, f) /\ InStateOfFile(row, f)}

InOrder == Ordered(Chosen(filter))

(* Each table has its whole file, accepted, or nothing; rows are there     *)
(* only with what they refer to; and a file is refused for a reason.       *)
DataInv ==
  /\ DOMAIN table = Tables
  /\ \A t \in Tables : table[t] = {} \/ (table[t] = Converted(t) /\ Fits(t))
  /\ table["rows"] # {} => table["drivers"] # {} /\ table["parents"] # {}
  /\ \A t \in rejected : ~Fits(t)

LEMMA SelectedRows ==
  ASSUME DataInv
  PROVE  \A f : /\ table["rows"] = {} => Selected(f) = {}
                /\ table["rows"] # {} => Selected(f) = Chosen(f) /\ Fits("rows")
<1>1. CASE table["rows"] = {}
  BY <1>1 DEF Selected
<1>2. CASE table["rows"] # {}
  <2>1. table["rows"] = Converted("rows") /\ table["parents"] = Converted("parents")
        /\ Fits("rows")
    BY <1>2 DEF DataInv, Tables
  <2> QED
    BY <1>2, <2>1 DEF Selected, Chosen, InState, InStateOfFile
<1> QED
  BY <1>1, <1>2

LEMMA RowsHaveKeys ==
  ASSUME image \in Images, Fits("rows")
  PROVE  /\ \A r \in Converted("rows") : r.id \in Nat /\ r.day \in Nat
         /\ \A r, q \in Converted("rows") : r.id = q.id => r = q
<1>1. \A i \in Lines("rows") : image["rows"][i].id \in Identifiers /\ image["rows"][i].day \in Nat
  BY FileTypes DEF Lines
<1>2. \A i \in Lines("rows") : Row("rows", i).id \in Nat /\ Row("rows", i).day \in Nat
  BY <1>1, RowTypes, KeyTypes DEF Fits, Lines
<1>3. \A r \in Converted("rows") : \E i \in Lines("rows") : r = Row("rows", i)
  BY DEF Converted, Lines, ToConvert
<1> QED
  BY <1>2, <1>3 DEF Fits

LEMMA BeforeIsAnOrder ==
  ASSUME NEW S, \A r \in S : r.id \in Nat /\ r.day \in Nat
  PROVE  /\ \A a \in S : ~Before(a, a)
         /\ \A a, b, c \in S : Before(a, b) /\ Before(b, c) => Before(a, c)
         /\ \A a, b \in S : a.id = b.id \/ Before(a, b) \/ Before(b, a)
  BY DEF Before

LEMMA OrderedFacts ==
  ASSUME NEW S, IsFiniteSet(S), \A r \in S : r.id \in Nat /\ r.day \in Nat,
         \A a, b \in S : a.id = b.id => a = b
  PROVE  /\ Ordered(S) \in [1..Cardinality(S) -> S]
         /\ \A i, j \in 1..Cardinality(S) : i < j => Before(Ordered(S)[i], Ordered(S)[j])
<1> DEFINE R == {pair \in S \X S : Before(pair[1], pair[2])}
           K == 1..Cardinality(S)
           s == Ordered(S)
<1>1. \A a, b \in S : <<a, b>> \in R <=> Before(a, b)
  OBVIOUS
<1> HIDE DEF R
<1>2. \E q \in SetToSeqs(S) : \A i, j \in DOMAIN q : i < j => <<q[j], q[i]>> \notin R
  BY <1>1, BeforeIsAnOrder, SortedExists
<1>3. \A q \in SetToSeqs(S) : q \in [K -> S] /\ \A i, j \in K : i # j => q[i] # q[j]
  BY DEF SetToSeqs
<1> HIDE DEF K
<1>4. \E q \in SetToSeqs(S) : \A i, j \in DOMAIN q : i < j => ~Before(q[j], q[i])
  <2>1. PICK q \in SetToSeqs(S) : \A i, j \in DOMAIN q : i < j => <<q[j], q[i]>> \notin R
    BY <1>2
  <2>2. q \in [K -> S]
    BY <1>3
  <2> QED
    BY <1>1, <2>1, <2>2
<1>5. s \in SetToSeqs(S) /\ \A i, j \in DOMAIN s : i < j => ~Before(s[j], s[i])
  BY <1>4 DEF Ordered
<1> HIDE DEF s
<1>6. s \in [K -> S] /\ \A i, j \in K : i # j => s[i] # s[j]
  BY <1>3, <1>5
<1>7. ASSUME NEW i \in K, NEW j \in K, i < j PROVE Before(s[i], s[j])
  <2>1. i # j
    BY <1>7 DEF K
  <2>2. s[i] \in S /\ s[j] \in S /\ s[i] # s[j]
    BY <1>6, <2>1
  <2>3. ~Before(s[j], s[i])
    BY <1>5, <1>6, <1>7
  <2> QED
    BY <2>2, <2>3, BeforeIsAnOrder
<1> QED
  BY <1>6, <1>7 DEF K, s

LEMMA InOrderFacts ==
  ASSUME image \in Images, Fits("rows")
  PROVE  /\ Cardinality(Chosen(filter)) \in Nat
         /\ InOrder \in Seq(Converted("rows"))
         /\ Len(InOrder) = Cardinality(Chosen(filter))
         /\ \A k \in 1..Len(InOrder) : InOrder[k] \in Chosen(filter)
         /\ \A i, j \in 1..Len(InOrder) : i < j => Before(InOrder[i], InOrder[j])
<1> DEFINE S == Chosen(filter)
<1>1. S \subseteq Converted("rows")
  BY DEF Chosen
<1>2. IsFiniteSet(S) /\ Cardinality(S) \in Nat
  <2>1. IsFiniteSet(Converted("rows"))
    BY RowsOfFile DEF Tables
  <2> HIDE DEF S
  <2> QED
    BY <1>1, <2>1, FS_Subset, FS_CardinalityType
<1>3. \A r \in S : r.id \in Nat /\ r.day \in Nat
  BY <1>1, RowsHaveKeys
<1>4. \A a, b \in S : a.id = b.id => a = b
  BY <1>1, RowsHaveKeys
<1> HIDE DEF S
<1>5. /\ Ordered(S) \in [1..Cardinality(S) -> S]
      /\ \A i, j \in 1..Cardinality(S) : i < j => Before(Ordered(S)[i], Ordered(S)[j])
  BY <1>2, <1>3, <1>4, OrderedFacts
<1>6. InOrder = Ordered(S)
  BY DEF InOrder, S
<1>7. InOrder \in [1..Cardinality(S) -> S]
  BY <1>5, <1>6
<1>8. InOrder \in Seq(Converted("rows")) /\ Len(InOrder) = Cardinality(S)
  <2> HIDE DEF InOrder
  <2> QED
    BY <1>1, <1>2, <1>7
<1> QED
  BY <1>2, <1>5, <1>6, <1>7, <1>8 DEF S

LEMMA WindowFacts ==
  ASSUME NEW A, NEW s \in Seq(A), offset \in Nat, limit \in Nat \ {0}
  PROVE  /\ Window(s) \in Seq(A)
         /\ Len(Window(s)) = IF offset >= Len(s) THEN 0
                             ELSE IF offset + limit <= Len(s) THEN limit ELSE Len(s) - offset
         /\ \A i \in 1..Len(Window(s)) :
              offset + i \in 1..Len(s) /\ Window(s)[i] = s[offset + i]
<1> DEFINE n == Len(s)
           m == Min({offset + limit, n})
           w == IF offset >= n THEN 0 ELSE IF offset + limit <= n THEN limit ELSE n - offset
<1>1. n \in Nat /\ \A k \in 1..n : s[k] \in A
  OBVIOUS
<1>2. m = IF offset + limit <= n THEN offset + limit ELSE n
  BY <1>1 DEF Min
<1>3. Window(s) = SubSeq(s, offset + 1, m) /\ offset + 1 \in Int /\ m \in Int
  BY <1>1, <1>2 DEF Window
<1> HIDE DEF m, n
<1>4. m - (offset + 1) + 1 = w \/ (w = 0 /\ offset + 1 > m)
  BY <1>1, <1>2
<1>5. w \in Nat /\ \A i \in 1..w : offset + 1 + i - 1 = offset + i /\ offset + i \in 1..n
  BY <1>1
<1>6. \A i \in (offset + 1)..m : s[i] \in A
  BY <1>1, <1>2
<1>7. /\ Window(s) \in Seq(A)
      /\ Len(Window(s)) = IF offset + 1 <= m THEN m - (offset + 1) + 1 ELSE 0
      /\ \A i \in 1..(m - (offset + 1) + 1) : Window(s)[i] = s[offset + 1 + i - 1]
  BY <1>3, <1>6, SubSeqProperties
<1>8. Len(Window(s)) = w
  BY <1>1, <1>2, <1>3, <1>7
<1>9. \A i \in 1..w : Window(s)[i] = s[offset + i]
  BY <1>3, <1>4, <1>5, <1>7
<1> QED
  BY <1>5, <1>7, <1>8, <1>9 DEF n

LEMMA NothingSelected ==
  ASSUME offset \in Nat, limit \in Nat \ {0}
  PROVE  Window(Ordered({})) = <<>>
<1>1. IsFiniteSet({}) /\ Cardinality({}) = 0
  BY FS_EmptySet
<1>2. Ordered({}) \in [1..0 -> {}]
  BY <1>1, OrderedFacts
<1>3. Ordered({}) \in Seq({}) /\ Len(Ordered({})) = 0
  BY <1>2
<1>4. Window(Ordered({})) \in Seq({}) /\ Len(Window(Ordered({}))) = 0
  BY <1>3, WindowFacts
<1> QED
  BY <1>4

-----------------------------------------------------------------------------
(* What is shown for a driver; the provers do not know that a string is in *)
(* STRING.                                                                 *)
Shown == STRING \cup {"-"}

(* The driver of a line of the file, as NamesAsInFile has it.              *)
Right(line, name) ==
  Uniform => LET d == image["rows"][line].driver IN
             IF d = Blank THEN name = "-"
             ELSE \E k \in Named(d, "drivers") : name = image["drivers"][k].name

(* Where identifiers are uniform, equal numbers are equal identifiers.     *)
LEMMA UniformKeys ==
  ASSUME image \in Images, Uniform, NEW t \in Tables, NEW a \in Column(t), NEW b \in Column(t),
         a \in Identifiers, b \in Identifiers, ToIntOrNone(a) = ToIntOrNone(b)
  PROVE  a = b
<1>1. CASE a = Blank \/ b = Blank
  BY <1>1, KeyTypes
<1>2. CASE a # Blank /\ b # Blank
  <2>1. Number(a.digits) = Number(b.digits)
    BY <1>2, KeyTypes
  <2>2. a.prefix = b.prefix /\ Len(a.digits) = Len(b.digits)
    BY <1>2 DEF Uniform
  <2>3. a.digits = b.digits
    BY <2>1, <2>2, NumberFacts DEF Identifiers
  <2> QED
    BY <2>2, <2>3 DEF Identifiers
<1> QED
  BY <1>1, <1>2

LEMMA Columns ==
  ASSUME image \in Images
  PROVE  /\ \A t \in Tables : \A i \in Lines(t) :
              image[t][i].id \in Identifiers /\ image[t][i].id \in Column(t)
         /\ \A i \in Lines("rows") :
              /\ image["rows"][i].driver \in Identifiers
              /\ image["rows"][i].driver \in Column("drivers")
              /\ image["rows"][i].parent \in Identifiers
              /\ image["rows"][i].parent \in Column("parents")
<1>1. \A t \in Tables : \A i \in Lines(t) : image[t][i].id \in Identifiers
  BY FileTypes DEF Lines, Tables
<1>2. \A i \in Lines("rows") : image["rows"][i].driver \in Identifiers
                               /\ image["rows"][i].parent \in Identifiers
  BY FileTypes DEF Lines, Tables
<1> QED
  BY <1>1, <1>2 DEF Column

LEMMA DriverIsRight ==
  ASSUME image \in Images, DataInv, table["rows"] # {}, NEW row \in Converted("rows")
  PROVE  Driver(row) \in Shown /\ row.line \in Nat /\ Right(row.line, Driver(row))
<1>1. /\ table["drivers"] = Converted("drivers") /\ table["rows"] = Converted("rows")
      /\ Fits("drivers") /\ Fits("rows")
  BY DEF DataInv, Tables
<1>2. PICK i \in Lines("rows") : row = Row("rows", i)
  BY DEF Converted, Lines, ToConvert
<1> DEFINE d == image["rows"][i].driver
<1>3. row.line = i /\ i \in Nat /\ row.driver = ToIntOrNone(d)
  BY <1>2, RowTypes, FileTypes DEF Lines, Tables
<1>4. d \in Identifiers /\ d \in Column("drivers")
  BY <1>2, Columns
<1> HIDE DEF d
<1>5. \A k \in Lines("drivers") :
        /\ image["drivers"][k].id \in Identifiers
        /\ image["drivers"][k].id \in Column("drivers")
        /\ Row("drivers", k) = [id |-> ToIntOrNone(image["drivers"][k].id),
                                name |-> image["drivers"][k].name]
        /\ Row("drivers", k).id # None
        /\ image["drivers"][k].name \in STRING
  BY <1>1, RowTypes, FileTypes, Columns DEF Lines, Tables, Fits
<1>6. Present(row.driver, "drivers") <=>
        \E k \in Lines("drivers") : Row("drivers", k).id = row.driver
  BY <1>1 DEF Present, Converted, Lines, ToConvert
<1>7. CASE d = Blank
  <2>1. ~Present(row.driver, "drivers")
    BY <1>3, <1>4, <1>5, <1>6, <1>7, KeyTypes
  <2>2. Driver(row) = "-"
    BY <2>1 DEF Driver
  <2>3. image["rows"][row.line].driver = Blank
    BY <1>3, <1>7 DEF d
  <2>4. Right(row.line, Driver(row))
    BY <2>2, <2>3 DEF Right
  <2>5. Driver(row) \in Shown
    BY <2>2 DEF Shown
  <2> QED
    BY <1>3, <2>4, <2>5
<1>8. CASE d # Blank
  <2>1. row.driver # None
    BY <1>3, <1>4, <1>8, KeyTypes
  <2>2. Present(row.driver, "drivers")
    BY <1>1, <1>2, <1>6, <2>1 DEF Fits
  <2>3. \E r \in table["drivers"] : r.id = row.driver
    BY <2>2 DEF Present
  <2>4. PICK r \in Converted("drivers") : r.id = row.driver /\ Driver(row) = r.name
    BY <1>1, <2>2, <2>3 DEF Driver
  <2>5. PICK k \in Lines("drivers") : r = Row("drivers", k)
    BY <2>4 DEF Converted, Lines, ToConvert
  <2>6. /\ Driver(row) = image["drivers"][k].name /\ Driver(row) \in STRING
        /\ ToIntOrNone(image["drivers"][k].id) = ToIntOrNone(d)
    BY <1>3, <1>5, <2>4, <2>5
  <2>7. ASSUME Uniform PROVE image["drivers"][k].id = d
    <3>1. "drivers" \in Tables
      BY DEF Tables
    <3> QED
      BY <1>4, <1>5, <2>5, <2>6, <2>7, <3>1, UniformKeys
  <2>8. Uniform => k \in Named(d, "drivers")
    BY <2>5, <2>7 DEF Named
  <2> QED
    BY <1>3, <1>8, <2>6, <2>8 DEF Right, Shown, d
<1> QED
  BY <1>7, <1>8

-----------------------------------------------------------------------------
(* The inductive invariant.                                                *)
BasicInv ==
  /\ what \in {"trips", "incidents"} /\ image \in Images
  /\ filter \in Filters /\ limit \in Limits
  /\ phase \in Phases
  /\ total \in Nat /\ offset \in Nat
  /\ writes \in 0..MaxWrites
  /\ rejected \subseteq Tables

(* Between the count and the answer the locks keep the rows where they     *)
(* are, once there are any: a total that is not zero is that of the whole  *)
(* file, and so is the page.  A page with rows on it is shown with the     *)
(* drivers of the file.                                                    *)
AnswerInv ==
  /\ page \in Seq(Converted("rows")) /\ Len(page) <= limit
  /\ names \in Seq(Shown) /\ Len(names) <= limit
  /\ phase \in {"counted", "paged", "read"} =>
       total = 0 \/ (table["rows"] # {} /\ total = Cardinality(Chosen(filter)))
  /\ phase \in {"paged", "read"} =>
       /\ page = <<>> \/ (table["rows"] # {} /\ page = Window(InOrder))
       /\ total # 0 => page = Window(InOrder)
  /\ phase = "read" =>
       /\ Len(names) = Len(page)
       /\ \A i \in 1..Len(page) : Right(page[i].line, names[i])

(* A client has not read further than it has asked.                        *)
Reach == IF phase = "idle" THEN offset + limit ELSE offset

ReadInv ==
  /\ read \in Seq([line : Nat, driver : Shown])
  /\ read # <<>> => Fits("rows")
  /\ \A i \in 1..Len(read) :
       /\ \E k \in 1..Len(InOrder) : k <= Reach /\ read[i].line = InOrder[k].line
       /\ Right(read[i].line, read[i].driver)
  /\ NoRowTwice

Inv == BasicInv /\ DataInv /\ AnswerInv /\ ReadInv

(* The files and the query stay as they are, and what depends on them.     *)
LEMMA FilesStay ==
  ASSUME image' = image, UNCHANGED client
  PROVE  /\ \A t : Converted(t)' = Converted(t) /\ (Fits(t)' <=> Fits(t))
         /\ \A line, name : Right(line, name)' <=> Right(line, name)
<1>0. what' = what
  BY DEF client
<1>1. ASSUME NEW t PROVE ToConvert(t)' = ToConvert(t)
  BY DEF ToConvert
<1>2. ASSUME NEW t, NEW i PROVE Row(t, i)' = Row(t, i)
  BY <1>1 DEF Row
<1>3. ASSUME NEW t PROVE Converted(t)' = Converted(t) /\ (Converts(t)' <=> Converts(t))
  BY <1>1, <1>2 DEF Converted, Converts
<1>4. ASSUME NEW t PROVE Fits(t)' <=> Fits(t)
  BY <1>0, <1>2, <1>3 DEF Fits, Lines
<1>5. ASSUME NEW t PROVE Column(t)' = Column(t)
  BY DEF Column, Lines
<1>6. Uniform' <=> Uniform
  BY <1>5 DEF Uniform
<1>7. ASSUME NEW line, NEW name PROVE Right(line, name)' <=> Right(line, name)
  BY <1>6 DEF Right, Named, Lines
<1> QED
  BY <1>3, <1>4, <1>7

LEMMA QueryStays ==
  ASSUME image' = image, UNCHANGED client
  PROVE  /\ Chosen(filter)' = Chosen(filter) /\ InOrder' = InOrder
         /\ \A i, j : LineBefore(i, j)' <=> LineBefore(i, j)
<1>1. what' = what /\ filter' = filter /\ limit' = limit
  BY DEF client
<1>2. Chosen(filter)' = Chosen(filter)
  <2>1. Converted("rows")' = Converted("rows") /\ Converted("parents")' = Converted("parents")
    BY FilesStay
  <2>2. ASSUME NEW row
        PROVE  /\ InList(row, filter)' <=> InList(row, filter)
               /\ InWindow(row, filter)' <=> InWindow(row, filter)
               /\ InStateOfFile(row, filter)' <=> InStateOfFile(row, filter)
    BY <1>1, <2>1 DEF InList, InWindow, InStateOfFile
  <2> QED
    BY <2>1, <2>2 DEF Chosen
<1>3. InOrder' = InOrder
  BY <1>1, <1>2 DEF InOrder, Ordered, Before
<1>4. ASSUME NEW i, NEW j PROVE LineBefore(i, j)' <=> LineBefore(i, j)
  BY <1>1 DEF LineBefore
<1> QED
  BY <1>2, <1>3, <1>4

LEMMA InitInv == Init => Inv
<1> SUFFICES ASSUME Init PROVE Inv
  OBVIOUS
<1>1. BasicInv
  BY ClientAssumption DEF Init, BasicInv, Phases, Tables
<1>2. DataInv
  BY DEF Init, DataInv, Tables
<1>3. AnswerInv
  BY ClientAssumption DEF Init, AnswerInv
<1>4. ReadInv
  BY DEF Init, ReadInv, NoRowTwice
<1> QED
  BY <1>1, <1>2, <1>3, <1>4 DEF Inv

LEMMA BasicStep == Inv /\ [Next]_vars => BasicInv'
<1> SUFFICES ASSUME BasicInv, DataInv, [Next]_vars PROVE BasicInv'
  BY DEF Inv
<1> USE DEF BasicInv
<1>1. limit \in Nat \ {0} /\ MaxWrites \in Nat
  BY ClientAssumption
<1>2. CASE Count
  <2>1. Cardinality(Selected(filter)) \in Nat
    <3>1. CASE table["rows"] = {}
      BY <3>1, SelectedRows, FS_EmptySet
    <3>2. CASE table["rows"] # {}
      BY <3>2, SelectedRows, InOrderFacts
    <3> QED
      BY <3>1, <3>2
  <2> QED
    BY <1>2, <2>1 DEF Count, client, data, Phases
<1>3. CASE Page
  BY <1>3 DEF Page, client, data, Phases
<1>4. CASE LoadRelated
  BY <1>4 DEF LoadRelated, client, data, Phases
<1>5. CASE Answer
  BY <1>5 DEF Answer, client, data, answer, Phases
<1>6. CASE NextPage
  BY <1>1, <1>6 DEF NextPage, client, data, answer, Phases
<1>7. ASSUME NEW t \in Tables, Copy(t) PROVE BasicInv'
  BY <1>1, <1>7 DEF Copy, client, answer
<1>8. ASSUME NEW t \in Tables, Truncate(t) PROVE BasicInv'
  BY <1>1, <1>8 DEF Truncate, client, answer
<1>9. CASE UNCHANGED vars
  BY <1>9 DEF vars, client, data, answer
<1> QED
  BY <1>2, <1>3, <1>4, <1>5, <1>6, <1>7, <1>8, <1>9 DEF Next

LEMMA DataStep == Inv /\ [Next]_vars => DataInv'
<1> SUFFICES ASSUME BasicInv, DataInv, [Next]_vars PROVE DataInv'
  BY DEF Inv
<1>1. ASSUME UNCHANGED data, UNCHANGED client PROVE DataInv'
  <2>1. image' = image /\ table' = table /\ rejected' = rejected
    BY <1>1 DEF data
  <2> QED
    BY <1>1, <2>1, FilesStay DEF DataInv
<1>2. ASSUME NEW t \in Tables, Copy(t) PROVE DataInv'
  <2>1. /\ table[t] = {} /\ image' = image /\ UNCHANGED client
        /\ \A p \in Referenced(t) : table[p] # {} /\ p \in Tables
    BY <1>2 DEF Copy, Referenced, Tables
  <2>2. \A p \in Referenced(t) : table[p] = Converted(p)
    BY <2>1 DEF DataInv
  <2>3. Fits(t) <=> Converts(t) /\ Accepted(t)
    BY <2>2, AcceptedFits
  <2>4. CASE Fits(t)
    <3>1. table' = [table EXCEPT ![t] = Converted(t)] /\ rejected' = rejected
      BY <1>2, <2>3, <2>4 DEF Copy
    <3>2. t = "rows" => table["drivers"] # {} /\ table["parents"] # {}
      BY <2>1 DEF Referenced
    <3>3. DOMAIN table' = Tables /\ \A s \in Tables :
            table'[s] = IF s = t THEN Converted(t) ELSE table[s]
      BY <3>1 DEF DataInv
    <3>4. \A s \in Tables : table'[s] = {} \/ (table'[s] = Converted(s) /\ Fits(s))
      BY <2>4, <3>3 DEF DataInv
    <3>5. table'["rows"] # {} => table'["drivers"] # {} /\ table'["parents"] # {}
      BY <2>1, <3>2, <3>3 DEF DataInv, Tables
    <3>6. \A s \in rejected' : ~Fits(s)
      BY <3>1 DEF DataInv
    <3> QED
      BY <2>1, <3>3, <3>4, <3>5, <3>6, FilesStay DEF DataInv
  <2>5. CASE ~Fits(t)
    <3>1. table' = table /\ rejected' = rejected \cup {t}
      BY <1>2, <2>3, <2>5 DEF Copy
    <3> QED
      BY <2>1, <2>5, <3>1, FilesStay DEF DataInv
  <2> QED
    BY <2>4, <2>5
<1>3. ASSUME NEW t \in Tables, Truncate(t) PROVE DataInv'
  <2>1. /\ table' = [s \in Tables |-> IF s \in {t, "rows"} THEN {} ELSE table[s]]
        /\ image' = image /\ rejected' = rejected /\ UNCHANGED client
    BY <1>3 DEF Truncate
  <2> QED
    BY <2>1, FilesStay DEF DataInv, Tables
<1> QED
  BY <1>1, <1>2, <1>3 DEF Next, Count, Page, LoadRelated, Answer, NextPage, vars

LEMMA RelatedAreRight ==
  ASSUME image \in Images, DataInv, NEW rows \in Seq(Converted("rows")),
         rows = <<>> \/ table["rows"] # {}
  PROVE  /\ Related(rows) \in Seq(Shown) /\ Len(Related(rows)) = Len(rows)
         /\ \A i \in 1..Len(rows) : Right(rows[i].line, Related(rows)[i])
<1>1. \A i \in 1..Len(rows) :
        /\ Driver(rows[i]) \in Shown
        /\ Right(rows[i].line, Driver(rows[i]))
  <2> SUFFICES ASSUME NEW i \in 1..Len(rows)
               PROVE  Driver(rows[i]) \in Shown /\ Right(rows[i].line, Driver(rows[i]))
    OBVIOUS
  <2>1. rows[i] \in Converted("rows") /\ rows # <<>>
    OBVIOUS
  <2> QED
    BY <2>1, DriverIsRight
<1>2. Related(rows) = [i \in 1..Len(rows) |-> Driver(rows[i])] /\ Len(rows) \in Nat
  BY DEF Related
<1>3. Related(rows) \in Seq(Shown) /\ Len(Related(rows)) = Len(rows)
  BY <1>1, <1>2
<1> QED
  BY <1>1, <1>2, <1>3

(* AnswerInv stands as long as rows are not taken from under a search.     *)
LEMMA AnswerStands ==
  ASSUME AnswerInv, image' = image, UNCHANGED <<client, answer, phase, offset>>,
         HoldsLocks /\ table["rows"] # {} => table'["rows"] # {}
  PROVE  AnswerInv'
<1>1. /\ what' = what /\ filter' = filter /\ limit' = limit /\ phase' = phase
      /\ total' = total /\ page' = page /\ names' = names /\ offset' = offset
  BY DEF client, answer
<1>2. Window(InOrder)' = Window(InOrder)
  BY <1>1, QueryStays DEF Window
<1>3. Cardinality(Chosen(filter))' = Cardinality(Chosen(filter))
  BY QueryStays
<1>4. Shown' = Shown /\ Converted("rows")' = Converted("rows")
  BY FilesStay DEF Shown
<1> QED
  BY <1>1, <1>2, <1>3, <1>4, FilesStay DEF AnswerInv, HoldsLocks

LEMMA CountInv ==
  ASSUME Inv, Count PROVE AnswerInv'
<1>1. /\ UNCHANGED client /\ image' = image /\ table' = table /\ page' = page /\ names' = names
      /\ limit' = limit /\ phase' = "counted" /\ total' = Cardinality(Selected(filter))
  BY DEF Count, client, data
<1>2. total' = 0 \/ (table["rows"] # {} /\ total' = Cardinality(Chosen(filter)))
  <2>1. DataInv
    BY DEF Inv
  <2>2. Cardinality({}) = 0
    BY FS_EmptySet
  <2> QED
    BY <1>1, <2>1, <2>2, SelectedRows
<1>3. Cardinality(Chosen(filter))' = Cardinality(Chosen(filter))
  BY <1>1, QueryStays
<1> QED
  BY <1>1, <1>2, <1>3, FilesStay DEF Inv, AnswerInv, Shown

LEMMA PageInv ==
  ASSUME Inv, Page PROVE AnswerInv'
<1>0. /\ BasicInv /\ DataInv /\ AnswerInv /\ limit \in Nat \ {0}
      /\ image \in Images /\ offset \in Nat
  BY ClientAssumption DEF Inv, BasicInv
<1>1. /\ UNCHANGED client /\ image' = image /\ table' = table /\ total' = total
      /\ limit' = limit /\ offset' = offset /\ phase = "counted"
      /\ page' = Window(Ordered(Selected(filter)))
      /\ (phase' = "paged" /\ names' = names) \/ (phase' = "read" /\ names' = Related(page'))
  BY DEF Page, client, data
<1>2. /\ page' = <<>> \/ (table["rows"] # {} /\ page' = Window(InOrder))
      /\ total # 0 => page' = Window(InOrder)
  <2>1. CASE table["rows"] = {}
    <3>1. page' = <<>>
      BY <1>0, <1>1, <2>1, SelectedRows, NothingSelected
    <3>2. total = 0
      BY <1>0, <1>1, <2>1 DEF AnswerInv
    <3> QED
      BY <3>1, <3>2
  <2>2. CASE table["rows"] # {}
    BY <1>0, <1>1, <2>2, SelectedRows DEF InOrder
  <2> QED
    BY <2>1, <2>2
<1>3. page' \in Seq(Converted("rows")) /\ Len(page') <= limit
  <2>1. CASE page' = <<>>
    BY <1>0, <2>1
  <2>2. CASE page' # <<>>
    <3>1. table["rows"] # {} /\ page' = Window(InOrder) /\ Fits("rows")
      BY <1>0, <1>2, <2>2, SelectedRows
    <3>2. InOrder \in Seq(Converted("rows")) /\ Len(InOrder) \in Nat
      BY <1>0, <3>1, InOrderFacts
    <3>3. Window(InOrder) \in Seq(Converted("rows")) /\ Len(Window(InOrder)) <= limit
      BY <1>0, <3>2, WindowFacts
    <3> QED
      BY <3>1, <3>3
  <2> QED
    BY <2>1, <2>2
<1>4. /\ Window(InOrder)' = Window(InOrder)
      /\ Cardinality(Chosen(filter))' = Cardinality(Chosen(filter))
      /\ Shown' = Shown /\ Converted("rows")' = Converted("rows")
  BY <1>1, QueryStays, FilesStay DEF Window, Shown
<1>5. /\ names' \in Seq(Shown) /\ Len(names') <= limit
      /\ phase' = "read" =>
           /\ Len(names') = Len(page')
           /\ \A i \in 1..Len(page') : Right(page'[i].line, names'[i])
  <2>1. /\ Related(page') \in Seq(Shown) /\ Len(Related(page')) = Len(page')
        /\ \A i \in 1..Len(page') : Right(page'[i].line, Related(page')[i])
    BY <1>0, <1>2, <1>3, RelatedAreRight
  <2>2. names \in Seq(Shown) /\ Len(names) <= limit
    BY <1>0 DEF AnswerInv
  <2> QED
    BY <1>1, <1>3, <2>1, <2>2
<1>6. total = 0 \/ (table["rows"] # {} /\ total = Cardinality(Chosen(filter)))
  BY <1>0, <1>1 DEF AnswerInv
<1>7. phase' = "read" => \A i \in 1..Len(page') : Right(page[i].line, names[i])'
  BY <1>1, <1>5, FilesStay
<1> QED
  BY <1>1, <1>2, <1>3, <1>4, <1>5, <1>6, <1>7 DEF AnswerInv

LEMMA LoadRelatedInv ==
  ASSUME Inv, LoadRelated PROVE AnswerInv'
<1>0. DataInv /\ AnswerInv /\ image \in Images
  BY DEF Inv, BasicInv
<1>1. /\ UNCHANGED client /\ image' = image /\ table' = table /\ total' = total
      /\ limit' = limit /\ offset' = offset /\ page' = page
      /\ phase = "paged" /\ phase' = "read" /\ names' = Related(page)
  BY DEF LoadRelated, client, data
<1>2. /\ page \in Seq(Converted("rows")) /\ Len(page) <= limit
      /\ page = <<>> \/ (table["rows"] # {} /\ page = Window(InOrder))
      /\ total # 0 => page = Window(InOrder)
      /\ total = 0 \/ (table["rows"] # {} /\ total = Cardinality(Chosen(filter)))
  BY <1>0, <1>1 DEF AnswerInv
<1>3. /\ names' \in Seq(Shown) /\ Len(names') = Len(page)
      /\ \A i \in 1..Len(page) : Right(page[i].line, names'[i])
  BY <1>0, <1>1, <1>2, RelatedAreRight
<1>4. /\ Window(InOrder)' = Window(InOrder)
      /\ Cardinality(Chosen(filter))' = Cardinality(Chosen(filter))
      /\ Shown' = Shown /\ Converted("rows")' = Converted("rows")
  BY <1>1, QueryStays, FilesStay DEF Window, Shown
<1>5. \A i \in 1..Len(page') : Right(page[i].line, names[i])'
  BY <1>1, <1>3, FilesStay
<1> QED
  BY <1>1, <1>2, <1>3, <1>4, <1>5 DEF AnswerInv

LEMMA AnswerStep == Inv /\ [Next]_vars => AnswerInv'
<1> SUFFICES ASSUME Inv, [Next]_vars PROVE AnswerInv'
  OBVIOUS
<1>0. DataInv /\ AnswerInv
  BY DEF Inv
<1>1. ASSUME phase' \in {"asked", "idle", "done"}, UNCHANGED client, UNCHANGED data,
             page' = page, names' = names
      PROVE  AnswerInv'
  <2>1. image' = image /\ limit' = limit
    BY <1>1 DEF data, client
  <2> QED
    BY <1>0, <1>1, <2>1, FilesStay DEF AnswerInv, Shown
<1>2. CASE Answer \/ NextPage
  BY <1>1, <1>2 DEF Answer, NextPage, answer
<1>3. ASSUME NEW t \in Tables, Copy(t) PROVE AnswerInv'
  <2>1. table["rows"] # {} => table'["rows"] # {}
    BY <1>0, <1>3 DEF Copy, DataInv, Tables
  <2>2. image' = image /\ UNCHANGED <<client, answer, phase, offset>>
    BY <1>3 DEF Copy
  <2> QED
    BY <1>0, <2>1, <2>2, AnswerStands
<1>4. ASSUME NEW t \in Tables, Truncate(t) PROVE AnswerInv'
  BY <1>0, <1>4, AnswerStands DEF Truncate
<1>5. CASE UNCHANGED vars
  BY <1>0, <1>5, AnswerStands DEF vars, data
<1> QED
  BY <1>2, <1>3, <1>4, <1>5, CountInv, PageInv, LoadRelatedInv DEF Next

LEMMA BeforeInFile ==
  ASSUME image \in Images, what \in {"trips", "incidents"}, Fits("rows"),
         NEW a \in Converted("rows"), NEW b \in Converted("rows"), Before(a, b)
  PROVE  LineBefore(a.line, b.line)
<1>1. ASSUME NEW r \in Converted("rows")
      PROVE  /\ r.id = Number(image["rows"][r.line].id.digits) /\ r.id \in Nat
             /\ r.day = image["rows"][r.line].day /\ r.day \in Nat
  <2>1. PICK i \in Lines("rows") : r = Row("rows", i)
    BY DEF Converted, Lines, ToConvert
  <2>2. /\ r.id = ToIntOrNone(image["rows"][i].id) /\ r.day = image["rows"][i].day
        /\ r.line = i
    BY <2>1, RowTypes DEF Lines
  <2>3. r.id # None
    BY <2>1 DEF Fits
  <2>4. image["rows"][i].id \in Identifiers
    BY Columns DEF Tables
  <2> QED
    BY <2>2, <2>3, <2>4, KeyTypes, RowsHaveKeys
<1>2. /\ a.id = Number(image["rows"][a.line].id.digits) /\ a.id \in Nat
      /\ a.day = image["rows"][a.line].day /\ a.day \in Nat
  BY <1>1
<1>3. /\ b.id = Number(image["rows"][b.line].id.digits) /\ b.id \in Nat
      /\ b.day = image["rows"][b.line].day /\ b.day \in Nat
  BY <1>1
<1> QED
  BY <1>2, <1>3 DEF Before, LineBefore

LEMMA ReadStands ==
  ASSUME Inv, image' = image, UNCHANGED <<client, read>>, Reach' \in Nat, Reach' >= Reach
  PROVE  ReadInv'
<1>1. ReadInv /\ read' = read /\ Reach \in Nat
  BY ClientAssumption DEF Inv, BasicInv, Reach
<1>2. \A i \in 1..Len(read) : \E k \in 1..Len(InOrder) :
        k <= Reach' /\ read[i].line = InOrder[k].line
  <2> SUFFICES ASSUME NEW i \in 1..Len(read)
               PROVE  \E k \in 1..Len(InOrder) : k <= Reach' /\ read[i].line = InOrder[k].line
    OBVIOUS
  <2>1. PICK k \in 1..Len(InOrder) : k <= Reach /\ read[i].line = InOrder[k].line
    BY <1>1 DEF ReadInv
  <2>2. read # <<>>
    BY <1>1 DEF ReadInv
  <2>3. k \in Nat
    <3>1. Len(InOrder) \in Nat
      BY <1>1, <2>2, InOrderFacts DEF ReadInv, Inv, BasicInv
    <3> HIDE DEF InOrder
    <3> QED
      BY <3>1
  <2> QED
    BY <1>1, <2>1, <2>3
<1>3. InOrder' = InOrder /\ Shown' = Shown /\ (NoRowTwice' <=> NoRowTwice)
  BY <1>1, QueryStays DEF NoRowTwice, Shown
<1> QED
  BY <1>1, <1>2, <1>3, FilesStay DEF ReadInv

LEMMA AnswerIsRead ==
  ASSUME Inv, Answer PROVE ReadInv'
<1>0. /\ DataInv /\ AnswerInv /\ ReadInv /\ image \in Images /\ what \in {"trips", "incidents"}
      /\ offset \in Nat /\ limit \in Nat \ {0}
  BY ClientAssumption DEF Inv, BasicInv
<1> DEFINE new == [i \in DOMAIN page |-> [line |-> page[i].line, driver |-> names[i]]]
           n == Len(read)
           m == Len(page)
<1>1. /\ UNCHANGED client /\ image' = image /\ limit' = limit /\ offset' = offset
      /\ phase = "read" /\ phase' = "idle" /\ read' = read \o new
  BY DEF Answer, client, data
<1>2. CASE page = <<>>
  <2>1. read' = read
    <3>1. new = <<>>
      BY <1>2
    <3> HIDE DEF new
    <3> QED
      BY <1>0, <1>1, <3>1 DEF ReadInv
  <2>2. Reach' \in Nat /\ Reach' >= Reach
    BY <1>0, <1>1 DEF Reach
  <2> QED
    BY <1>1, <2>1, <2>2, ReadStands
<1>3. CASE page # <<>>
  <2>1. table["rows"] # {} /\ page = Window(InOrder) /\ Fits("rows")
    BY <1>0, <1>1, <1>3, SelectedRows DEF AnswerInv
  <2>2. /\ InOrder \in Seq(Converted("rows")) /\ Len(InOrder) \in Nat
        /\ \A k \in 1..Len(InOrder) : InOrder[k] \in Converted("rows")
        /\ \A i, j \in 1..Len(InOrder) : i < j => LineBefore(InOrder[i].line, InOrder[j].line)
    <3>1. /\ InOrder \in Seq(Converted("rows")) /\ Len(InOrder) \in Nat
          /\ \A i, j \in 1..Len(InOrder) : i < j => Before(InOrder[i], InOrder[j])
      BY <1>0, <2>1, InOrderFacts
    <3>2. \A k \in 1..Len(InOrder) : InOrder[k] \in Converted("rows")
      <4> HIDE DEF InOrder
      <4> QED
        BY <3>1
    <3> QED
      BY <1>0, <2>1, <3>1, <3>2, BeforeInFile
  <2>3. /\ m \in Nat /\ m <= limit
        /\ \A i \in 1..m : offset + i \in 1..Len(InOrder) /\ page[i] = InOrder[offset + i]
    BY <1>0, <2>1, <2>2, WindowFacts DEF AnswerInv
  <2>4. \A i \in 1..m : /\ Right(page[i].line, names[i]) /\ names[i] \in Shown
                        /\ page[i].line \in Nat
    <3>1. Len(names) = m /\ names \in Seq(Shown) /\ page \in Seq(Converted("rows"))
          /\ \A i \in 1..m : Right(page[i].line, names[i])
      BY <1>0, <1>1 DEF AnswerInv
    <3>2. \A i \in 1..m : names[i] \in Shown /\ page[i] \in Converted("rows")
      BY <3>1
    <3> QED
      BY <1>0, <2>1, <3>1, <3>2, DriverIsRight
  <2>5. DOMAIN page = 1..m
    BY <1>0 DEF AnswerInv
  <2>6. new \in Seq([line : Nat, driver : Shown]) /\ Len(new) = m
        /\ \A i \in 1..m : new[i] = [line |-> page[i].line, driver |-> names[i]]
    <3>1. new = [i \in 1..m |-> [line |-> page[i].line, driver |-> names[i]]]
      BY <2>5
    <3>2. new \in [1..m -> [line : Nat, driver : Shown]]
      BY <2>4, <3>1
    <3> HIDE DEF new, m
    <3> QED
      BY <2>3, <3>1, <3>2
  <2> HIDE DEF new, m
  <2>7. /\ n \in Nat /\ read \in Seq([line : Nat, driver : Shown])
        /\ \A i \in 1..n : /\ \E k \in 1..Len(InOrder) : k <= offset /\ read[i].line = InOrder[k].line
                           /\ Right(read[i].line, read[i].driver)
        /\ \A i, j \in 1..n : i < j => LineBefore(read[i].line, read[j].line)
    BY <1>0, <1>1 DEF ReadInv, Reach, NoRowTwice
  <2>8. /\ read' \in Seq([line : Nat, driver : Shown]) /\ Len(read') = n + m
        /\ \A i \in 1..(n + m) : read'[i] = IF i <= n THEN read[i] ELSE new[i - n]
    <3> DEFINE T == [line : Nat, driver : Shown]
    <3>1. read \in Seq(T) /\ new \in Seq(T) /\ read' = read \o new /\ n = Len(read) /\ m = Len(new)
      BY <1>1, <2>6, <2>7
    <3> HIDE DEF T, n
    <3>2. read' \in Seq(T) /\ Len(read') = n + m
          /\ \A i \in 1..(n + m) : read'[i] = IF i <= n THEN read[i] ELSE new[i - n]
      BY ONLY <3>1, ConcatProperties
    <3> QED
      BY <3>2 DEF T
  <2> HIDE DEF n
  <2> DEFINE Old(i, k) == /\ i \in 1..n /\ k \in 1..Len(InOrder) /\ k <= offset
                          /\ read'[i] = read[i] /\ read'[i].line = InOrder[k].line
             New(i) == /\ i - n \in 1..m /\ offset + (i - n) \in 1..Len(InOrder)
                       /\ read'[i].line = InOrder[offset + (i - n)].line
                       /\ Right(read'[i].line, read'[i].driver)
  <2>9. ASSUME NEW i \in 1..(n + m) PROVE New(i) \/ \E k \in 1..Len(InOrder) : Old(i, k)
    <3>1. CASE i <= n
      <4>1. i \in 1..n /\ read'[i] = read[i]
        BY <2>3, <2>7, <2>8, <3>1
      <4>2. PICK k \in 1..Len(InOrder) : k <= offset /\ read[i].line = InOrder[k].line
        BY <2>7, <4>1
      <4>3. Old(i, k)
        BY <4>1, <4>2
      <4> QED
        BY <4>3
    <3>2. CASE ~(i <= n)
      <4>1. i - n \in 1..m /\ read'[i] = new[i - n]
        BY <2>3, <2>7, <2>8, <3>2
      <4>2. read'[i] = [line |-> page[i - n].line, driver |-> names[i - n]]
        BY <2>6, <4>1
      <4>3. Right(page[i - n].line, names[i - n]) /\ page[i - n] = InOrder[offset + (i - n)]
            /\ offset + (i - n) \in 1..Len(InOrder)
        BY <2>3, <2>4, <4>1
      <4>4. read'[i].line = page[i - n].line /\ read'[i].driver = names[i - n]
        BY <4>2
      <4> QED
        BY <4>1, <4>3, <4>4
    <3> QED
      BY <3>1, <3>2
  <2>10. ASSUME NEW i \in 1..(n + m)
         PROVE  /\ Right(read'[i].line, read'[i].driver)
                /\ \E k \in 1..Len(InOrder) : k <= offset + limit /\ read'[i].line = InOrder[k].line
    <3>1. CASE New(i)
      <4>1. offset + (i - n) <= offset + limit
        BY <1>0, <2>3, <2>7, <3>1
      <4> QED
        BY <3>1, <4>1
    <3>2. ASSUME NEW k \in 1..Len(InOrder), Old(i, k)
          PROVE  /\ Right(read'[i].line, read'[i].driver)
                 /\ k <= offset + limit /\ read'[i].line = InOrder[k].line
      <4>1. k \in Nat
        BY <2>2
      <4>2. k <= offset + limit
        BY <1>0, <3>2, <4>1
      <4>3. Right(read[i].line, read[i].driver)
        BY <2>7, <3>2
      <4> QED
        BY <3>2, <4>2, <4>3
    <3> HIDE DEF New, Old
    <3> QED
      BY <2>9, <3>1, <3>2
  <2>11. ASSUME NEW i \in 1..(n + m), NEW j \in 1..(n + m), i < j
         PROVE  LineBefore(read'[i].line, read'[j].line)
    <3>1. CASE New(i) /\ New(j)
      <4> DEFINE k == offset + (i - n)
                 l == offset + (j - n)
      <4>1. k < l
        BY <1>0, <2>3, <2>7, <2>11
      <4>2. k \in 1..Len(InOrder) /\ l \in 1..Len(InOrder)
            /\ read'[i].line = InOrder[k].line /\ read'[j].line = InOrder[l].line
        BY <3>1
      <4> HIDE DEF k, l
      <4> QED
        BY <2>2, <4>1, <4>2
    <3>2. ASSUME NEW k \in 1..Len(InOrder), Old(i, k), New(j)
          PROVE  LineBefore(read'[i].line, read'[j].line)
      <4> DEFINE l == offset + (j - n)
      <4>1. k < l
        BY <1>0, <2>2, <2>3, <2>7, <3>2
      <4>2. l \in 1..Len(InOrder)
            /\ read'[i].line = InOrder[k].line /\ read'[j].line = InOrder[l].line
        BY <3>2
      <4> HIDE DEF l
      <4> QED
        BY <2>2, <4>1, <4>2
    <3>3. ASSUME NEW l \in 1..Len(InOrder), Old(j, l), i \in 1..n
          PROVE  LineBefore(read'[i].line, read'[j].line)
      <4>1. j \in 1..n /\ read'[j] = read[j] /\ read'[i] = read[i]
        BY <2>3, <2>7, <2>8, <3>3
      <4> QED
        BY <2>7, <2>11, <3>3, <4>1
    <3>4. i \in 1..n \/ New(i)
      BY <2>9
    <3>5. ASSUME NEW l \in 1..Len(InOrder), Old(j, l) PROVE i \in 1..n
      BY <2>3, <2>7, <2>11, <3>5
    <3>6. New(j) \/ \E l \in 1..Len(InOrder) : Old(j, l)
      BY <2>9
    <3>7. New(i) \/ \E k \in 1..Len(InOrder) : Old(i, k)
      BY <2>9
    <3> HIDE DEF New, Old
    <3> QED
      BY <3>1, <3>2, <3>3, <3>5, <3>6, <3>7
  <2>12. /\ InOrder' = InOrder /\ Shown' = Shown /\ Reach' = offset + limit
         /\ (Fits("rows")' <=> Fits("rows"))
    BY <1>1, QueryStays, FilesStay DEF Shown, Reach
  <2>13. NoRowTwice'
    <3>1. DOMAIN read' = 1..(n + m)
      BY <2>8
    <3> QED
      BY <1>1, <2>11, <3>1, QueryStays DEF NoRowTwice
  <2> QED
    BY <1>1, <2>1, <2>8, <2>10, <2>12, <2>13, FilesStay DEF ReadInv
<1> QED
  BY <1>2, <1>3

LEMMA ReadStep == Inv /\ [Next]_vars => ReadInv'
<1> SUFFICES ASSUME Inv, [Next]_vars PROVE ReadInv'
  OBVIOUS
<1>0. offset \in Nat /\ limit \in Nat \ {0}
  BY ClientAssumption DEF Inv, BasicInv
<1>1. CASE Count \/ Page \/ LoadRelated
  <2>1. /\ image' = image /\ UNCHANGED <<client, read>> /\ offset' = offset
        /\ phase # "idle" /\ phase' # "idle"
    BY <1>1 DEF Count, Page, LoadRelated, data
  <2> QED
    BY <1>0, <2>1, ReadStands DEF Reach
<1>2. CASE NextPage
  <2>1. /\ image' = image /\ UNCHANGED <<client, read>> /\ offset' = offset + limit
        /\ phase = "idle" /\ phase' # "idle"
    BY <1>2 DEF NextPage, data
  <2> QED
    BY <1>0, <2>1, ReadStands DEF Reach
<1>3. ASSUME UNCHANGED <<image, client, phase, offset, read>> PROVE ReadInv'
  <2>1. Reach' = Reach /\ Reach \in Nat
    BY <1>0, <1>3 DEF Reach, client
  <2> QED
    BY <1>3, <2>1, ReadStands
<1>4. ASSUME NEW t \in Tables, Copy(t) \/ Truncate(t) PROVE ReadInv'
  BY <1>3, <1>4 DEF Copy, Truncate
<1>5. CASE UNCHANGED vars
  BY <1>3, <1>5 DEF vars, data
<1> QED
  BY <1>1, <1>2, <1>4, <1>5, AnswerIsRead DEF Next

LEMMA InvHolds == Spec => []Inv
<1>1. Inv /\ [Next]_vars => Inv'
  BY BasicStep, DataStep, AnswerStep, ReadStep DEF Inv
<1> QED
  BY InitInv, <1>1, PTL DEF Spec

-----------------------------------------------------------------------------
(* The lines that a filter means are those of the rows that it selects.    *)
LEMMA MeantIsChosen ==
  ASSUME image \in Images, what \in {"trips", "incidents"}, filter \in Filters, Uniform,
         Fits("parents"), Fits("rows"), NEW i \in Lines("rows")
  PROVE  i \in Meant <=> Row("rows", i) \in Chosen(filter)
<1> DEFINE row == image["rows"][i]
           r == Row("rows", i)
<1>1. /\ row.id \in Identifiers /\ row.driver \in Identifiers /\ row.parent \in Identifiers
      /\ row.parent \in Column("parents") /\ row.day \in Nat
      /\ r.driver = ToIntOrNone(row.driver) /\ r.parent = ToIntOrNone(row.parent)
      /\ r.day = row.day /\ r.state = row.state
  BY FileTypes, RowTypes, Columns DEF Lines, Tables
<1>2. /\ filter.drivers \subseteq Nat /\ filter.from \in Nat \cup {None}
      /\ filter.to \in Nat \cup {None}
  BY ClientAssumption
<1>3. r \in Converted("rows")
  BY DEF Converted, Lines, ToConvert
<1>4. PICK p \in Lines("parents") : Row("parents", p).id = r.parent
  BY DEF Fits
<1>5. \A k \in Lines("parents") :
        /\ image["parents"][k].id \in Identifiers /\ image["parents"][k].id \in Column("parents")
        /\ Row("parents", k).id = ToIntOrNone(image["parents"][k].id)
        /\ Row("parents", k).state = image["parents"][k].state
  BY FileTypes, RowTypes, Columns DEF Lines, Tables
<1> HIDE DEF r, row
<1>6. ASSUME NEW k \in Lines("parents")
      PROVE  k \in Named(row.parent, "parents") <=> Row("parents", k).id = r.parent
  <2>1. k \in Named(row.parent, "parents") <=> image["parents"][k].id = row.parent
    BY DEF Named
  <2>2. ToIntOrNone(image["parents"][k].id) = ToIntOrNone(row.parent)
          => image["parents"][k].id = row.parent
    <3>1. "parents" \in Tables
      BY DEF Tables
    <3> QED
      BY <1>1, <1>5, <3>1, UniformKeys
  <2> QED
    BY <1>1, <1>5, <2>1, <2>2
<1> DEFINE OfParent(s) == \E k \in Lines("parents") :
                            /\ Row("parents", k).id = r.parent
                            /\ s # "" => image["parents"][k].state = s
<1>7. InList(r, filter) <=>
        (filter.listed /\ (what = "incidents" \/ filter.drivers # {}) =>
          row.driver # Blank /\ Number(row.driver.digits) \in filter.drivers)
  <2>1. r.driver \in filter.drivers <=>
          row.driver # Blank /\ Number(row.driver.digits) \in filter.drivers
    BY <1>1, <1>2, KeyTypes DEF None
  <2> QED
    BY <2>1 DEF InList
<1>8. InWindow(r, filter) <=>
        /\ filter.from # None => filter.from <= row.day
        /\ filter.to # None => row.day <= filter.to
  BY <1>1, <1>2 DEF InWindow, None
<1>9. InStateOfFile(r, filter) <=>
        IF what = "trips" THEN OfParent(filter.state)
        ELSE filter.state # "" => row.state = filter.state
  <2>1. \A q : q \in Converted("parents") <=> \E k \in Lines("parents") : q = Row("parents", k)
    BY DEF Converted, Lines, ToConvert
  <2>2. (\E q \in Converted("parents") :
            q.id = r.parent /\ (filter.state # "" => q.state = filter.state))
          <=> OfParent(filter.state)
    <3>1. ASSUME NEW k \in Lines("parents"), Row("parents", k).id = r.parent,
                 filter.state # "" => image["parents"][k].state = filter.state
          PROVE  \E q \in Converted("parents") :
                   q.id = r.parent /\ (filter.state # "" => q.state = filter.state)
      <4>1. Row("parents", k) \in Converted("parents")
        BY <2>1
      <4> QED
        BY <1>5, <3>1, <4>1
    <3>2. ASSUME NEW q \in Converted("parents"), q.id = r.parent,
                 filter.state # "" => q.state = filter.state
          PROVE  \E k \in Lines("parents") :
                   /\ Row("parents", k).id = r.parent
                   /\ filter.state # "" => image["parents"][k].state = filter.state
      <4>1. PICK k \in Lines("parents") : q = Row("parents", k)
        BY <2>1
      <4> QED
        BY <1>5, <3>2, <4>1
    <3> QED
      BY <3>1, <3>2
  <2> HIDE DEF OfParent
  <2> QED
    BY <1>1, <2>2 DEF InStateOfFile
<1>10. OfParent(filter.state) <=>
         (filter.state # "" =>
            \E k \in Named(row.parent, "parents") : image["parents"][k].state = filter.state)
  <2>1. \A k \in Named(row.parent, "parents") : k \in Lines("parents")
    BY DEF Named
  <2> QED
    BY <1>4, <1>6, <2>1
<1>11. i \in Meant <=>
         /\ filter.listed /\ (what = "incidents" \/ filter.drivers # {}) =>
              row.driver # Blank /\ Number(row.driver.digits) \in filter.drivers
         /\ filter.from # None => filter.from <= row.day
         /\ filter.to # None => row.day <= filter.to
         /\ filter.state # "" =>
              IF what = "incidents" THEN row.state = filter.state
              ELSE \E k \in Named(row.parent, "parents") :
                     image["parents"][k].state = filter.state
  BY DEF Meant, row
<1> HIDE DEF OfParent
<1>12. r \in Chosen(filter) <=>
         InList(r, filter) /\ InWindow(r, filter) /\ InStateOfFile(r, filter)
  BY <1>3 DEF Chosen
<1> QED
  BY <1>7, <1>8, <1>9, <1>10, <1>11, <1>12 DEF r

LEMMA MeantAreCounted ==
  ASSUME image \in Images, what \in {"trips", "incidents"}, filter \in Filters, Uniform,
         Fits("parents"), Fits("rows")
  PROVE  /\ Cardinality(Meant) = Cardinality(Chosen(filter))
         /\ \A r \in Chosen(filter) : r.line \in Meant
<1> DEFINE S == Chosen(filter)
           f == [r \in S |-> r.line]
<1>1. ASSUME NEW r \in S
      PROVE  r.line \in Lines("rows") /\ r = Row("rows", r.line) /\ r.line \in Meant
  <2>1. PICK i \in Lines("rows") : r = Row("rows", i)
    BY DEF Chosen, Converted, Lines, ToConvert
  <2>2. r.line = i
    BY <2>1, RowTypes DEF Lines
  <2> QED
    BY <2>1, <2>2, MeantIsChosen
<1>2. \A i \in Meant : i \in Lines("rows") /\ Row("rows", i) \in S /\ Row("rows", i).line = i
  <2>1. \A i \in Meant : i \in Lines("rows")
    BY DEF Meant
  <2> QED
    BY <2>1, MeantIsChosen, RowTypes DEF Lines
<1>3. IsFiniteSet(S)
  <2>1. IsFiniteSet(Converted("rows")) /\ S \subseteq Converted("rows")
    BY RowsOfFile DEF Chosen, Tables
  <2> HIDE DEF S
  <2> QED
    BY <2>1, FS_Subset
<1> HIDE DEF S
<1>4. /\ f \in [S -> Meant]
      /\ \A a, b \in S : f[a] = f[b] => a = b
      /\ \A i \in Meant : \E a \in S : f[a] = i
  BY <1>1, <1>2
<1> HIDE DEF f
<1>5. Cardinality(Meant) = Cardinality(S)
  BY <1>3, <1>4, OneToOne
<1> QED
  BY <1>1, <1>5 DEF S

-----------------------------------------------------------------------------
(* Well typed, and a table holds the whole of its file or nothing: a COPY  *)
(* adds all of the file's lines, one row each, or none of them.            *)
THEOREM SearchTyping == Spec => []TypeOK
<1>1. Inv => TypeOK
  <2> SUFFICES ASSUME Inv PROVE TypeOK
    OBVIOUS
  <2>1. BasicInv /\ DataInv /\ AnswerInv
    BY DEF Inv
  <2>2. \A t \in Tables : Cardinality(table[t]) \in {0, Len(image[t])}
    <3> SUFFICES ASSUME NEW t \in Tables PROVE Cardinality(table[t]) \in {0, Len(image[t])}
      OBVIOUS
    <3>1. CASE table[t] = {}
      BY <3>1, FS_EmptySet
    <3>2. CASE table[t] # {}
      BY <2>1, <3>2, RowsOfFile DEF DataInv, BasicInv
    <3> QED
      BY <3>1, <3>2
  <2> QED
    BY <2>1, <2>2 DEF TypeOK, BasicInv, AnswerInv
<1> QED
  BY InvHolds, <1>1, PTL

(* If the identifiers of the files have one form, are there, distinct and  *)
(* lead somewhere, no two trips have one load and no number is beyond an   *)
(* INTEGER, then no COPY is refused: what the seeder makes numbers of      *)
(* stays distinct, also the loads of trips, and leads to the same lines.   *)
THEOREM ConversionKeepsFilesLegal == Spec => []LegalFilesLoad
<1>1. Inv => LegalFilesLoad
  <2> SUFFICES ASSUME Inv, Uniform, Closed, InRange PROVE rejected = {}
    BY DEF LegalFilesLoad
  <2>1. image \in Images /\ rejected \subseteq Tables /\ \A t \in rejected : ~Fits(t)
    BY DEF Inv, BasicInv, DataInv
  <2>2. ASSUME NEW t \in Tables, NEW v \in Column(t) PROVE ~Raises(v)
    BY <2>2 DEF Uniform, Raises
  <2>3. ASSUME NEW t \in Tables, NEW i \in Lines(t)
        PROVE  /\ image[t][i].id \in Column(t) /\ image[t][i].id \in Identifiers
               /\ image[t][i].id # Blank /\ Named(image[t][i].id, t) = {i}
               /\ Row(t, i).id = ToIntOrNone(image[t][i].id)
    <3>1. image[t][i].id # Blank /\ Named(image[t][i].id, t) = {i}
      BY <2>3 DEF Closed
    <3>2. Row(t, i).id = ToIntOrNone(image[t][i].id)
      BY <2>1, <2>3, RowTypes DEF Lines, Tables
    <3> QED
      BY <2>1, <2>3, <3>1, <3>2, Columns
  <2>4. ASSUME NEW i \in Lines("rows")
        PROVE  LET row == image["rows"][i] IN
               /\ row.driver \in Column("drivers") /\ row.driver \in Identifiers
               /\ row.parent \in Column("parents") /\ row.parent \in Identifiers
               /\ row.driver # Blank => Named(row.driver, "drivers") # {}
               /\ Named(row.parent, "parents") # {}
               /\ Row("rows", i).driver = ToIntOrNone(row.driver)
               /\ Row("rows", i).parent = ToIntOrNone(row.parent)
    BY <2>1, <2>4, Columns, RowTypes DEF Closed, Lines
  <2>5. ASSUME NEW t \in Tables PROVE Converts(t)
    <3>1. ASSUME NEW i \in Lines(t), NEW c \in IdColumns(t)
          PROVE  ~Raises(image[t][i][c])
      <4>1. CASE c = "id"
        BY <2>2, <2>3, <4>1
      <4>2. CASE t = "rows" /\ c = "driver"
        BY <2>2, <2>4, <4>2 DEF Tables
      <4>3. CASE t = "rows" /\ c = "parent"
        BY <2>2, <2>4, <4>3 DEF Tables
      <4> QED
        BY <4>1, <4>2, <4>3 DEF IdColumns
    <3> QED
      BY <3>1 DEF Converts, ToConvert, Lines
  <2>6. ASSUME NEW t \in Tables, NEW i \in Lines(t), NEW j \in Lines(t), i # j
        PROVE  Row(t, i).id # Row(t, j).id
    <3>1. image[t][i].id # image[t][j].id
      BY <2>3, <2>6 DEF Named
    <3> QED
      BY <2>1, <2>3, <3>1, UniformKeys
  <2>7. ASSUME NEW t \in Tables, NEW i \in Lines(t) PROVE Row(t, i).id # None
    BY <2>3, KeyTypes
  <2>8. ASSUME NEW p \in Tables, NEW v, Named(v, p) # {}
        PROVE  v # Blank /\ \E k \in Lines(p) : Row(p, k).id = ToIntOrNone(v)
    BY <2>3, <2>8 DEF Named
  <2>9. ASSUME NEW i \in Lines("rows")
        PROVE  /\ Row("rows", i).driver # None =>
                    \E k \in Lines("drivers") : Row("drivers", k).id = Row("rows", i).driver
               /\ Row("rows", i).parent # None
               /\ \E k \in Lines("parents") : Row("parents", k).id = Row("rows", i).parent
    <3>1. "drivers" \in Tables /\ "parents" \in Tables
      BY DEF Tables
    <3> QED
      BY <2>4, <2>8, <3>1, KeyTypes
  <2>10. ASSUME NEW t \in Tables, NEW i \in Lines(t) PROVE Row(t, i).id <= MaxInteger
    BY <2>3, KeyTypes DEF InRange
  <2>11. ASSUME what = "trips", NEW i \in Lines("rows"), NEW j \in Lines("rows"), i # j
         PROVE  Row("rows", i).parent # Row("rows", j).parent
    <3>1. image["rows"][i].parent # image["rows"][j].parent
      BY <2>11 DEF Closed
    <3> QED
      BY <2>1, <2>4, <3>1, UniformKeys DEF Tables
  <2>12. \A t \in Tables : Fits(t)
    BY <2>5, <2>6, <2>7, <2>9, <2>10, <2>11 DEF Fits
  <2> QED
    BY <2>1, <2>12
<1> QED
  BY InvHolds, <1>1, PTL

(* Whatever seed runs load and truncate meanwhile, every row that a client *)
(* reads comes with the driver that its line in the file names.            *)
THEOREM NamesAreThoseOfTheFile == Spec => []NamesAsInFile
<1>1. Inv => NamesAsInFile
  <2> SUFFICES ASSUME Inv PROVE NamesAsInFile
    OBVIOUS
  <2>1. /\ read \in Seq([line : Nat, driver : Shown])
        /\ \A i \in 1..Len(read) : Right(read[i].line, read[i].driver)
    BY DEF Inv, ReadInv
  <2>2. DOMAIN read = 1..Len(read)
    BY <2>1
  <2> QED
    BY <2>1, <2>2 DEF NamesAsInFile, Right
<1> QED
  BY InvHolds, <1>1, PTL

(* The total and the page agree with what the filter asks for in the file, *)
(* unless the rows came after the count.  The file says it by names and    *)
(* the search by numbers, hence Uniform.                                   *)
THEOREM TotalsFitPages == Spec => [](Uniform => TotalFitsPage)
<1>1. Inv => (Uniform => TotalFitsPage)
  <2> SUFFICES ASSUME Inv, Uniform, phase \in {"paged", "read"}
               PROVE  LET n == Cardinality(Meant) IN
                      /\ total \in {0, n}
                      /\ \A i \in DOMAIN page : page[i].line \in Meant
                      /\ total = n => Len(page) = IF offset >= n THEN 0 ELSE
                                                  IF offset + limit <= n THEN limit ELSE n - offset
    BY DEF TotalFitsPage
  <2> DEFINE n == Cardinality(Meant)
  <2>1. /\ BasicInv /\ DataInv /\ AnswerInv
        /\ image \in Images /\ what \in {"trips", "incidents"} /\ filter \in Filters
        /\ offset \in Nat /\ limit \in Nat \ {0}
    BY ClientAssumption DEF Inv, BasicInv
  <2>2. ASSUME table["rows"] # {}
        PROVE  /\ Fits("rows") /\ n = Cardinality(Chosen(filter)) /\ n \in Nat
               /\ InOrder \in Seq(Converted("rows")) /\ Len(InOrder) = n
               /\ \A k \in 1..Len(InOrder) : InOrder[k].line \in Meant
    <3>1. Fits("rows") /\ Fits("parents")
      BY <2>1, <2>2 DEF DataInv, Tables
    <3>2. /\ n = Cardinality(Chosen(filter))
          /\ \A r \in Chosen(filter) : r.line \in Meant
      BY <2>1, <3>1, MeantAreCounted
    <3> HIDE DEF n
    <3> QED
      BY <2>1, <3>1, <3>2, InOrderFacts
  <2>3. IsFiniteSet(Meant) /\ n \in Nat
    <3>1. IsFiniteSet(Lines("rows"))
      <4>1. Lines("rows") = 1..Len(image["rows"]) /\ Len(image["rows"]) \in Nat
        BY <2>1, FileTypes DEF Lines, Tables
      <4> QED
        BY <4>1, FS_Interval
    <3>2. Meant \subseteq Lines("rows")
      BY DEF Meant
    <3> QED
      BY <3>1, <3>2, FS_Subset, FS_CardinalityType
  <2>4. /\ page \in Seq(Converted("rows"))
        /\ total = 0 \/ (table["rows"] # {} /\ total = Cardinality(Chosen(filter)))
        /\ page = <<>> \/ (table["rows"] # {} /\ page = Window(InOrder))
        /\ total # 0 => page = Window(InOrder)
    BY <2>1 DEF AnswerInv
  <2>5. total \in {0, n}
    BY <2>2, <2>4
  <2>6. DOMAIN page = 1..Len(page)
    BY <2>4
  <2>7. \A i \in DOMAIN page : page[i].line \in Meant
    <3>1. CASE page = <<>>
      BY <3>1
    <3>2. CASE page # <<>>
      <4>1. table["rows"] # {} /\ page = Window(InOrder)
        BY <2>4, <3>2
      <4>2. \A i \in 1..Len(page) : offset + i \in 1..Len(InOrder) /\ page[i] = InOrder[offset + i]
        BY <2>1, <2>2, <4>1, WindowFacts
      <4> QED
        BY <2>2, <2>6, <4>1, <4>2
    <3> QED
      BY <3>1, <3>2
  <2>8. ASSUME total = n
        PROVE  Len(page) = IF offset >= n THEN 0 ELSE
                           IF offset + limit <= n THEN limit ELSE n - offset
    <3>1. CASE n = 0
      <4>1. Meant = {}
        BY <2>3, <3>1, FS_EmptySet
      <4>2. page # <<>> => 1 \in DOMAIN page
        BY <2>4
      <4>3. page = <<>>
        BY <2>7, <4>1, <4>2
      <4> QED
        BY <2>1, <3>1, <4>3
    <3>2. CASE n # 0
      <4>1. table["rows"] # {} /\ page = Window(InOrder)
        BY <2>4, <2>8, <3>2
      <4> HIDE DEF n
      <4> QED
        BY <2>1, <2>2, <4>1, WindowFacts
    <3> QED
      BY <3>1, <3>2
  <2> QED
    BY <2>5, <2>7, <2>8
<1> QED
  BY InvHolds, <1>1, PTL

(* A client that asks page by page reads every row at most once and all in *)
(* order, whatever is loaded and truncated between its pages.              *)
THEOREM NoRowIsReadTwice == Spec => []NoRowTwice
<1>1. Inv => NoRowTwice
  BY DEF Inv, ReadInv
<1> QED
  BY InvHolds, <1>1, PTL
=============================================================================
