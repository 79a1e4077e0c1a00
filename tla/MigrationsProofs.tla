-------------------------- MODULE MigrationsProofs --------------------------
(***************************************************************************)
(* What the revisions guarantee for whatever rows there are and however    *)
(* often they are run up and down.                                         *)
(*                                                                         *)
(* A command is a fold over its operations.  The proofs speak of the       *)
(* databases between them instead (Trace): first that the fold ends in the *)
(* last of these, then what every revision does to a catalog.  TypeOK      *)
(* needs no more than that each operation keeps the rows in order; the     *)
(* other properties follow from knowing the catalog of every revision      *)
(* (CatalogAt), which is the inductive invariant IInv.                     *)
(***************************************************************************)
EXTENDS Migrations, FiniteSetTheorems, SequenceTheorems, WellFoundedInduction, TLAPS

RunFrom(ops, db) == FoldLeft(Execute, db, ops)

LEMMA RunIsRunFrom ==
  \A ops, cat, rs :
    Run(ops, cat, rs) = RunFrom(ops, [ok |-> TRUE, catalog |-> cat, rows |-> rs])
  BY DEF Run, RunFrom

-----------------------------------------------------------------------------
(* What a fold over operations is: the last of the databases that lead to  *)
(* it, one for every operation.                                            *)
Trace(v, ops, db) ==
  /\ v[0] = db
  /\ \A k \in 1..Len(ops) : v[k] = Execute(v[k - 1], ops[k])

(* A set of natural numbers has a first one. *)
LEMMA LeastNat ==
  ASSUME NEW T \in SUBSET Nat, T # {}
  PROVE  \E k \in T : \A j \in T : k <= j
<1> DEFINE R == OpToRel(<, Nat)
<1>1. PICK k \in T : \A j \in T : ~(<<j, k>> \in R)
  <2>1. IsWellFoundedOn(R, Nat)
    BY NatLessThanWellFounded
  <2> HIDE DEF R
  <2> QED
    BY <2>1, WFMin
<1>2. \A i, j \in Nat : i < j => <<i, j>> \in R
  BY DEF OpToRel
<1> HIDE DEF R
<1>3. \A j \in T : ~(j < k)
  BY <1>1, <1>2
<1>4. \A j \in T : k <= j
  BY <1>3
<1> QED
  BY <1>4

LEMMA MaxIsLast ==
  ASSUME NEW n \in Nat, NEW s \in SUBSET (1..n), n \in s
  PROVE  Max(s) = n
<1>1. \A x \in s : (\A y \in s : x >= y) => x = n
  OBVIOUS
<1>2. \A y \in s : n >= y
  OBVIOUS
<1> QED
  BY <1>1, <1>2 DEF Max

(* The function by which a fold is defined. *)
Folded(g, n, ops, db) ==
  g = [s \in SUBSET (1..n) |->
         IF s = {} THEN db ELSE Execute(g[s \ {Max(s)}], ops[Max(s)])]

LEMMA FoldedExists ==
  ASSUME NEW ops, NEW db
  PROVE  \A n \in Nat : \E g : Folded(g, n, ops, db)
<1> DEFINE C == {n \in Nat : ~ \E g : Folded(g, n, ops, db)}
<1> SUFFICES ASSUME C # {} PROVE FALSE
  OBVIOUS
<1>1. PICK n \in C : \A j \in C : n <= j
  <2>1. C \in SUBSET Nat
    OBVIOUS
  <2> HIDE DEF C
  <2> QED
    BY <2>1, LeastNat
<1>2. n \in Nat /\ ~ \E g : Folded(g, n, ops, db)
  BY <1>1
<1>3. n # 0
  <2> SUFFICES ASSUME n = 0 PROVE \E g : Folded(g, n, ops, db)
    BY <1>2
  <2> DEFINE g == [s \in SUBSET (1..0) |-> db]
  <2>1. SUBSET (1..0) = {{}}
    OBVIOUS
  <2>2. Folded(g, 0, ops, db)
    BY <2>1 DEF Folded
  <2> QED
    BY <2>2
<1>4. n - 1 \in Nat /\ n - 1 \notin C
  BY <1>1, <1>2, <1>3
<1>5. PICK h : Folded(h, n - 1, ops, db)
  BY <1>4
<1> DEFINE g == [s \in SUBSET (1..n) |->
                   IF n \in s THEN Execute(h[s \ {n}], ops[n]) ELSE h[s]]
<1>6. \A s \in SUBSET (1..n) : n \notin s => s \in SUBSET (1..(n - 1))
  BY <1>2
<1>7. \A s \in SUBSET (1..(n - 1)) :
        h[s] = IF s = {} THEN db ELSE Execute(h[s \ {Max(s)}], ops[Max(s)])
  BY <1>5 DEF Folded
<1>8. ASSUME NEW s \in SUBSET (1..n)
      PROVE  g[s] = IF s = {} THEN db ELSE Execute(g[s \ {Max(s)}], ops[Max(s)])
  <2>1. CASE n \in s
    <3>1. Max(s) = n
      BY <1>2, <2>1, MaxIsLast
    <3>2. s \ {n} \in SUBSET (1..n) /\ n \notin s \ {n}
      OBVIOUS
    <3>3. g[s \ {n}] = h[s \ {n}] /\ g[s] = Execute(h[s \ {n}], ops[n])
      BY <2>1, <3>2
    <3> HIDE DEF g
    <3> QED
      BY <2>1, <3>1, <3>3
  <2>2. CASE n \notin s
    <3>1. s \in SUBSET (1..(n - 1)) /\ g[s] = h[s]
      BY <1>6, <2>2
    <3>2. s \ {Max(s)} \in SUBSET (1..n) /\ n \notin s \ {Max(s)}
      BY <2>2
    <3>3. g[s \ {Max(s)}] = h[s \ {Max(s)}]
      BY <3>2
    <3> HIDE DEF g
    <3> QED
      BY <1>7, <3>1, <3>3
  <2> QED
    BY <2>1, <2>2
<1>9. Folded(g, n, ops, db)
  <2>1. g = [s \in SUBSET (1..n) |-> g[s]]
    OBVIOUS
  <2> HIDE DEF g
  <2>2. [s \in SUBSET (1..n) |-> g[s]]
          = [s \in SUBSET (1..n) |->
               IF s = {} THEN db ELSE Execute(g[s \ {Max(s)}], ops[Max(s)])]
    BY <1>8
  <2> QED
    BY <2>1, <2>2 DEF Folded
<1> QED
  BY <1>2, <1>9

LEMMA RunIsTrace ==
  ASSUME NEW S, NEW ops \in Seq(S), NEW db
  PROVE  \E v : Trace(v, ops, db) /\ RunFrom(ops, db) = v[Len(ops)]
<1> DEFINE n == Len(ops)
           g == CHOOSE h : Folded(h, n, ops, db)
           v == [k \in 0..n |-> g[1..k]]
<1>1. n \in Nat /\ DOMAIN ops = 1..n
  BY LenProperties
<1>2. RunFrom(ops, db) = (CHOOSE h : Folded(h, n, ops, db))[1..n]
  BY <1>1 DEF RunFrom, FoldLeft, MapThenFoldSet, Folded
<1> HIDE DEF n
<1>3. Folded(g, n, ops, db)
  BY <1>1, FoldedExists
<1> HIDE DEF g
<1>4. \A s \in SUBSET (1..n) :
        g[s] = IF s = {} THEN db ELSE Execute(g[s \ {Max(s)}], ops[Max(s)])
  BY <1>3 DEF Folded
<1>5. v[0] = db
  <2>1. 1..0 = {} /\ 1..0 \in SUBSET (1..n) /\ v[0] = g[1..0]
    BY <1>1
  <2> QED
    BY <1>4, <2>1
<1>6. ASSUME NEW k \in 1..n PROVE v[k] = Execute(v[k - 1], ops[k])
  <2>0. k \in 0..n /\ k - 1 \in 0..n
    BY <1>1
  <2>4. k \in 1..k /\ \A i \in 1..k : i \in 1..n
    BY <1>1
  <2>1. 1..k \in SUBSET (1..n) /\ 1..k # {} /\ (1..k) \ {k} = 1..(k - 1)
    <3>1. (1..k) \ {k} = 1..(k - 1)
      BY <1>1
    <3> QED
      BY ONLY <2>4, <3>1
  <2>3. v[k] = g[1..k] /\ v[k - 1] = g[1..(k - 1)]
    BY <2>0
  <2>2. Max(1..k) = k
    <3> DEFINE s == 1..k
    <3>1. k \in Nat /\ s \in SUBSET (1..k) /\ k \in s
      BY <1>1
    <3> HIDE DEF s
    <3>2. Max(s) = k
      BY <3>1, MaxIsLast
    <3> QED
      BY <3>2 DEF s
  <2> QED
    BY <1>4, <2>1, <2>2, <2>3
<1> QED
  <2>1. v[n] = g[1..n]
    BY <1>1
  <2> HIDE DEF v
  <2> QED
    BY <1>2, <1>5, <1>6, <2>1 DEF Trace, n, g

(* Two traces of the same operations are the same. *)
LEMMA TraceIsRun ==
  ASSUME NEW S, NEW ops \in Seq(S), NEW db, NEW v, Trace(v, ops, db)
  PROVE  RunFrom(ops, db) = v[Len(ops)]
<1> DEFINE n == Len(ops)
<1>1. n \in Nat
  BY LenProperties
<1>2. PICK w : Trace(w, ops, db) /\ RunFrom(ops, db) = w[n]
  BY RunIsTrace
<1> DEFINE C == {k \in 0..n : v[k] # w[k]}
<1>3. C = {}
  <2> SUFFICES ASSUME C # {} PROVE FALSE
    OBVIOUS
  <2>1. PICK k \in C : \A j \in C : k <= j
    <3>1. C \in SUBSET Nat
      BY <1>1
    <3> HIDE DEF C
    <3> QED
      BY <3>1, LeastNat
  <2> HIDE DEF n
  <2>2. k \in 1..n
    BY <1>1, <1>2, <2>1 DEF Trace
  <2>3. v[k] = Execute(v[k - 1], ops[k]) /\ w[k] = Execute(w[k - 1], ops[k])
    BY <1>2, <2>2 DEF Trace, n
  <2>4. k - 1 \in 0..n /\ ~(k <= k - 1)
    BY <1>1, <2>2
  <2>5. v[k - 1] = w[k - 1]
    BY <2>1, <2>4
  <2> QED
    BY <2>1, <2>3, <2>5
<1>4. n \in 0..n
  BY <1>1
<1> QED
  BY <1>2, <1>3, <1>4

LEMMA RunNothing == \A db : RunFrom(<<>>, db) = db
<1> SUFFICES ASSUME NEW db PROVE RunFrom(<<>>, db) = db
  OBVIOUS
<1> DEFINE v == [k \in {0} |-> db]
<1>1. Len(<<>>) = 0 /\ <<>> \in Seq({})
  OBVIOUS
<1>2. v[0] = db
  OBVIOUS
<1>3. Trace(v, <<>>, db)
  BY <1>1, <1>2 DEF Trace
<1> HIDE DEF v
<1> QED
  BY <1>1, <1>2, <1>3, TraceIsRun

(* Running two sequences is running the second after the first. *)
LEMMA RunTwice ==
  ASSUME NEW S, NEW s \in Seq(S), NEW t \in Seq(S), NEW db
  PROVE  RunFrom(s \o t, db) = RunFrom(t, RunFrom(s, db))
<1> DEFINE m == Len(s)
           n == Len(t)
<1>1. /\ m \in Nat /\ n \in Nat
      /\ s \o t \in Seq(S) /\ Len(s \o t) = m + n
      /\ \A i \in 1..m + n : (s \o t)[i] = IF i <= m THEN s[i] ELSE t[i - m]
  BY LenProperties, ConcatProperties
<1>2. PICK v : Trace(v, s, db) /\ RunFrom(s, db) = v[m]
  BY RunIsTrace
<1>3. PICK w : Trace(w, t, RunFrom(s, db)) /\ RunFrom(t, RunFrom(s, db)) = w[n]
  BY RunIsTrace
<1> DEFINE u == [k \in 0..m + n |-> IF k <= m THEN v[k] ELSE w[k - m]]
<1>4. v[0] = db /\ \A k \in 1..m : v[k] = Execute(v[k - 1], s[k])
  BY <1>2 DEF Trace
<1>5. w[0] = v[m] /\ \A k \in 1..n : w[k] = Execute(w[k - 1], t[k])
  BY <1>2, <1>3 DEF Trace
<1> HIDE DEF m, n
<1>6. u[0] = db /\ u[m + n] = w[n]
  BY <1>1, <1>4, <1>5
<1>7. ASSUME NEW k \in 1..m + n PROVE u[k] = Execute(u[k - 1], (s \o t)[k])
  <2>1. k \in 0..m + n /\ k - 1 \in 0..m + n
    BY <1>1
  <2>2. CASE k <= m
    <3>1. k \in 1..m /\ u[k] = v[k] /\ u[k - 1] = v[k - 1] /\ (s \o t)[k] = s[k]
      BY <1>1, <2>1, <2>2
    <3> HIDE DEF u
    <3> QED
      BY <1>4, <3>1
  <2>3. CASE ~(k <= m)
    <3>1. /\ k - m \in 1..n /\ u[k] = w[k - m] /\ (s \o t)[k] = t[k - m]
          /\ (k - m) - 1 = (k - 1) - m
      BY <1>1, <2>1, <2>3
    <3>2. u[k - 1] = w[(k - 1) - m]
      BY <1>1, <1>5, <2>1, <2>3
    <3> HIDE DEF u
    <3>3. w[k - m] = Execute(w[(k - m) - 1], t[k - m])
      BY <1>5, <3>1
    <3> QED
      BY <3>1, <3>2, <3>3
  <2> QED
    BY <2>2, <2>3
<1>8. Trace(u, s \o t, db)
  <2> HIDE DEF u
  <2> QED
    BY <1>1, <1>6, <1>7 DEF Trace
<1> HIDE DEF u
<1>9. RunFrom(s \o t, db) = u[m + n]
  BY <1>1, <1>8, TraceIsRun
<1> QED
  BY <1>3, <1>6, <1>9

LEMMA RunOne ==
  ASSUME NEW op, NEW db
  PROVE  RunFrom(<<op>>, db) = Execute(db, op)
<1> DEFINE v == [k \in 0..1 |-> IF k = 0 THEN db ELSE Execute(db, op)]
<1>1. Len(<<op>>) = 1 /\ <<op>> \in Seq({op}) /\ <<op>>[1] = op
  OBVIOUS
<1>2. v[0] = db /\ v[1] = Execute(db, op)
  OBVIOUS
<1> HIDE DEF v
<1>3. \A k \in 1..1 : v[k] = Execute(v[k - 1], <<op>>[k])
  BY <1>1, <1>2
<1>4. Trace(v, <<op>>, db)
  BY <1>1, <1>2, <1>3 DEF Trace
<1> QED
  BY <1>1, <1>2, <1>4, TraceIsRun

-----------------------------------------------------------------------------
(* Flattening a sequence of sequences that grew by one. *)
Flattened(f, ss) ==
  f = [i \in 1..Len(ss) |-> IF i = 1 THEN ss[i] ELSE f[i - 1] \o ss[i]]

LEMMA FlattenedExists ==
  ASSUME NEW ss
  PROVE  \A n \in Nat : \E f : f = [i \in 1..n |-> IF i = 1 THEN ss[i] ELSE f[i - 1] \o ss[i]]
<1> DEFINE F(n, f) == f = [i \in 1..n |-> IF i = 1 THEN ss[i] ELSE f[i - 1] \o ss[i]]
           C == {n \in Nat : ~ \E f : F(n, f)}
<1> SUFFICES ASSUME C # {} PROVE FALSE
  OBVIOUS
<1> HIDE DEF F
<1>1. PICK n \in C : \A j \in C : n <= j
  <2>1. C \in SUBSET Nat
    OBVIOUS
  <2> HIDE DEF C
  <2> QED
    BY <2>1, LeastNat
<1>2. n \in Nat /\ ~ \E f : F(n, f)
  BY <1>1
<1>3. n # 0
  <2> SUFFICES ASSUME n = 0 PROVE F(n, [i \in 1..n |-> ss[i]])
    BY <1>2
  <2> QED
    BY DEF F
<1>4. n - 1 \in Nat /\ n - 1 \notin C
  BY <1>1, <1>2, <1>3
<1>5. PICK h : F(n - 1, h)
  BY <1>4
<1> DEFINE f == [i \in 1..n |-> IF i = n THEN IF n = 1 THEN ss[n] ELSE h[n - 1] \o ss[n]
                                ELSE h[i]]
<1>6. \A i \in 1..(n - 1) : h[i] = IF i = 1 THEN ss[i] ELSE h[i - 1] \o ss[i]
  BY <1>5 DEF F
<1>7. ASSUME NEW i \in 1..n
      PROVE  f[i] = IF i = 1 THEN ss[i] ELSE f[i - 1] \o ss[i]
  <2>1. CASE i = 1
    <3>1. i # n => i \in 1..(n - 1)
      BY <1>2
    <3> QED
      BY <1>6, <2>1, <3>1
  <2>2. CASE i # 1
    <3>1. i - 1 \in 1..n /\ i - 1 # n /\ f[i - 1] = h[i - 1]
      BY <1>2, <2>2
    <3>2. i # n => i \in 1..(n - 1) /\ f[i] = h[i]
      BY <1>2
    <3>3. i = n => n # 1 /\ f[i] = h[i - 1] \o ss[i]
      BY <2>2
    <3> HIDE DEF f
    <3> QED
      BY <1>6, <2>2, <3>1, <3>2, <3>3
  <2> QED
    BY <2>1, <2>2
<1>8. F(n, f)
  <2>1. f = [i \in 1..n |-> f[i]]
    OBVIOUS
  <2> HIDE DEF f
  <2> QED
    BY <1>7, <2>1 DEF F
<1> QED
  BY <1>2, <1>8

LEMMA FlattenedIsFlatten ==
  ASSUME NEW S, NEW ss \in Seq(Seq(S)), Len(ss) # 0
  PROVE  \E f : Flattened(f, ss) /\ FlattenSeq(ss) = f[Len(ss)]
<1> DEFINE f == CHOOSE h : Flattened(h, ss)
<1>1. Len(ss) \in Nat
  BY LenProperties
<1>2. FlattenSeq(ss) = f[Len(ss)]
  BY DEF FlattenSeq, Flattened
<1>3. Flattened(f, ss)
  BY <1>1, FlattenedExists DEF Flattened
<1> QED
  BY <1>2, <1>3

LEMMA FlattenGrows ==
  ASSUME NEW S, NEW ss \in Seq(Seq(S)), NEW s \in Seq(S), FlattenSeq(ss) \in Seq(S)
  PROVE  FlattenSeq(ss \o <<s>>) = FlattenSeq(ss) \o s
<1> DEFINE tt == ss \o <<s>>
           n == Len(ss)
<1>1. /\ n \in Nat /\ tt \in Seq(Seq(S)) /\ Len(tt) = n + 1 /\ tt[n + 1] = s
      /\ \A i \in 1..n : tt[i] = ss[i]
  <2>1. <<s>> \in Seq(Seq(S)) /\ Len(<<s>>) = 1 /\ <<s>>[1] = s
    OBVIOUS
  <2>2. n \in Nat
    BY LenProperties
  <2>3. tt \in Seq(Seq(S)) /\ Len(tt) = n + 1
    BY <2>1, ConcatProperties
  <2>4. \A i \in 1..n + 1 : tt[i] = IF i <= n THEN ss[i] ELSE <<s>>[i - n]
    BY <2>1, ConcatProperties
  <2> HIDE DEF tt, n
  <2>5. n + 1 \in 1..n + 1 /\ ~(n + 1 <= n) /\ (n + 1) - n = 1
    BY <2>2
  <2> QED
    BY <2>1, <2>2, <2>3, <2>4, <2>5
<1> HIDE DEF tt
<1>2. PICK g : Flattened(g, tt) /\ FlattenSeq(tt) = g[n + 1]
  <2> HIDE DEF n
  <2>1. Len(tt) # 0
    BY <1>1
  <2>2. \E g : Flattened(g, tt) /\ FlattenSeq(tt) = g[Len(tt)]
    BY <1>1, <2>1, FlattenedIsFlatten
  <2> QED
    BY <1>1, <2>2
<1>3. CASE n = 0
  <2>1. ss = <<>> /\ FlattenSeq(ss) = <<>>
    BY <1>3 DEF FlattenSeq
  <2>2. g[1] = s
    BY <1>1, <1>2, <1>3 DEF Flattened
  <2>3. <<>> \o s = s
    BY ConcatEmptySeq
  <2> QED
    BY <1>2, <1>3, <2>1, <2>2, <2>3 DEF tt
<1>4. CASE n # 0
  <2>1. PICK f : Flattened(f, ss) /\ FlattenSeq(ss) = f[n]
    BY <1>4, FlattenedIsFlatten
  <2> DEFINE C == {i \in 1..n : f[i] # g[i]}
  <2> HIDE DEF n
  <2>2. C = {}
    <3> SUFFICES ASSUME C # {} PROVE FALSE
      OBVIOUS
    <3>1. PICK i \in C : \A j \in C : i <= j
      <4>1. C \in SUBSET Nat
        OBVIOUS
      <4> HIDE DEF C
      <4> QED
        BY <4>1, LeastNat
    <3>2. i \in 1..n /\ i \in 1..n + 1
      BY <1>1, <3>1
    <3>3. f[i] = IF i = 1 THEN ss[i] ELSE f[i - 1] \o ss[i]
      BY <2>1, <3>2 DEF Flattened, n
    <3>4. g[i] = IF i = 1 THEN tt[i] ELSE g[i - 1] \o tt[i]
      BY <1>1, <1>2, <3>2 DEF Flattened
    <3>5. i # 1 => i - 1 \in 1..n /\ ~(i <= i - 1)
      BY <1>1, <3>2
    <3>6. i # 1 => f[i - 1] = g[i - 1]
      BY <3>1, <3>5
    <3> QED
      BY <1>1, <3>1, <3>2, <3>3, <3>4, <3>6
  <2>3. n \in 1..n /\ n + 1 \in 1..n + 1 /\ n + 1 # 1 /\ (n + 1) - 1 = n
    BY <1>1, <1>4
  <2>4. g[n + 1] = g[n] \o s
    BY <1>1, <1>2, <2>3 DEF Flattened
  <2>5. f[n] = g[n]
    BY <2>2, <2>3
  <2> QED
    BY <1>2, <2>1, <2>4, <2>5 DEF tt
<1> QED
  BY <1>3, <1>4

-----------------------------------------------------------------------------
(* A revision's operations, as a set that holds all of them. *)
AllOps ==
  UNION {{ops[k] : k \in 1..Len(ops)} :
           ops \in {Upgrades[i] : i \in 1..LastRevision}
                     \cup {Downgrades[i] : i \in 1..LastRevision}}

LEMMA Revisions ==
  /\ LastRevision = 6 /\ Len(Upgrades) = 6
  /\ Upgrades[1] = upgrade_0001 /\ Upgrades[2] = upgrade_0002
  /\ Upgrades[3] = upgrade_0003 /\ Upgrades[4] = upgrade_0004
  /\ Upgrades[5] = upgrade_0005 /\ Upgrades[6] = upgrade_0006
  /\ Downgrades[1] = downgrade_0001 /\ Downgrades[2] = downgrade_0002
  /\ Downgrades[3] = downgrade_0003 /\ Downgrades[4] = downgrade_0004
  /\ Downgrades[5] = downgrade_0005 /\ Downgrades[6] = downgrade_0006
  BY DEF Upgrades, Downgrades, LastRevision

(* The tables in the order in which 0001 creates them. *)
Creation ==
  << "customers", "drivers", "facilities", "routes", "trailers", "trucks", "users",
     "driver_monthly_metrics", "loads", "maintenance_records",
     "truck_utilization_metrics", "trips", "delivery_events", "fuel_purchases",
     "safety_incidents" >>

Creates(k, unique, refs, indexes) ==
  upgrade_0001[k] = CreateTable(Creation[k], unique, refs, indexes)

LEMMA Pieces ==
  /\ Len(upgrade_0001) = 15 /\ \E S : upgrade_0001 \in Seq(S)
  /\ \A k \in 1..7 : upgrade_0001[k] = create_roots[k]
  /\ \A k \in 1..4 : upgrade_0001[7 + k] = create_first_level[k]
  /\ \A k \in 1..4 : upgrade_0001[11 + k] = create_trips[k]
<1>1. /\ Len(create_roots) = 7 /\ create_roots \in Seq({create_roots[i] : i \in 1..7})
      /\ Len(create_first_level) = 4
      /\ create_first_level \in Seq({create_first_level[i] : i \in 1..4})
      /\ Len(create_trips) = 4 /\ create_trips \in Seq({create_trips[i] : i \in 1..4})
  BY DEF create_roots, create_first_level, create_trips
<1> DEFINE S == {create_roots[i] : i \in 1..7} \cup {create_first_level[i] : i \in 1..4}
                  \cup {create_trips[i] : i \in 1..4}
<1>2. create_roots \in Seq(S) /\ create_first_level \in Seq(S) /\ create_trips \in Seq(S)
  BY <1>1, SeqMonotonic
<1> HIDE DEF S
<1> DEFINE tables == create_roots \o create_first_level
<1>3. /\ tables \in Seq(S) /\ Len(tables) = 11
      /\ \A i \in 1..11 : tables[i] =
           IF i <= 7 THEN create_roots[i] ELSE create_first_level[i - 7]
  <2>1. /\ tables \in Seq(S) /\ Len(tables) = Len(create_roots) + Len(create_first_level)
        /\ \A i \in 1..Len(create_roots) + Len(create_first_level) : tables[i] =
             IF i <= Len(create_roots) THEN create_roots[i]
             ELSE create_first_level[i - Len(create_roots)]
    BY <1>2, ConcatProperties
  <2> HIDE DEF tables
  <2>2. 7 + 4 = 11
    OBVIOUS
  <2> QED
    BY <1>1, <2>1, <2>2
<1> HIDE DEF tables
<1>4. /\ upgrade_0001 \in Seq(S) /\ Len(upgrade_0001) = 15
      /\ \A i \in 1..15 : upgrade_0001[i] =
           IF i <= 11 THEN tables[i] ELSE create_trips[i - 11]
  <2>1. /\ upgrade_0001 \in Seq(S) /\ Len(upgrade_0001) = Len(tables) + Len(create_trips)
        /\ \A i \in 1..Len(tables) + Len(create_trips) : upgrade_0001[i] =
             IF i <= Len(tables) THEN tables[i] ELSE create_trips[i - Len(tables)]
    <3>1. upgrade_0001 = tables \o create_trips
      BY DEF upgrade_0001, tables
    <3> QED
      BY <1>2, <1>3, <3>1, ConcatProperties
  <2>2. 11 + 4 = 15
    OBVIOUS
  <2> QED
    BY <1>1, <1>3, <2>1, <2>2
<1>5. ASSUME NEW k \in 1..7 PROVE upgrade_0001[k] = create_roots[k]
  <2>1. k \in 1..15 /\ k \in 1..11 /\ k <= 11 /\ k <= 7
    OBVIOUS
  <2> QED
    BY <1>3, <1>4, <2>1
<1>6. ASSUME NEW k \in 1..4 PROVE upgrade_0001[7 + k] = create_first_level[k]
  <2>1. 7 + k \in 1..15 /\ 7 + k \in 1..11 /\ 7 + k <= 11 /\ ~(7 + k <= 7) /\ (7 + k) - 7 = k
    OBVIOUS
  <2> QED
    BY <1>3, <1>4, <2>1
<1>7. ASSUME NEW k \in 1..4 PROVE upgrade_0001[11 + k] = create_trips[k]
  <2>1. 11 + k \in 1..15 /\ ~(11 + k <= 11) /\ (11 + k) - 11 = k
    OBVIOUS
  <2> QED
    BY <1>4, <2>1
<1> QED
  BY <1>4, <1>5, <1>6, <1>7

LEMMA Roots ==
  /\ Creates(1, {}, {}, {})
  /\ Creates(2, {}, {}, {<<"employment_status">>})
  /\ Creates(3, {}, {}, {})
  /\ Creates(4, {}, {}, {})
  /\ Creates(5, {<<"trailer_number">>, <<"vin">>}, {}, {<<"status">>})
  /\ Creates(6, {<<"unit_number">>, <<"vin">>}, {}, {<<"status">>})
  /\ Creates(7, {<<"email">>}, {}, {})
<1>1. /\ upgrade_0001[1] = create_roots[1] /\ upgrade_0001[2] = create_roots[2]
      /\ upgrade_0001[3] = create_roots[3] /\ upgrade_0001[4] = create_roots[4]
      /\ upgrade_0001[5] = create_roots[5] /\ upgrade_0001[6] = create_roots[6]
      /\ upgrade_0001[7] = create_roots[7]
  BY Pieces
<1> QED
  BY <1>1 DEF create_roots, Creates, Creation

LEMMA FirstLevel ==
  /\ Creates(8, {}, {<<"driver_id", "drivers">>}, {})
  /\ Creates(9, {}, {<<"customer_id", "customers">>, <<"route_id", "routes">>},
       {<<"customer_id">>, <<"load_date">>, <<"load_status">>, <<"route_id">>})
  /\ Creates(10, {}, {<<"truck_id", "trucks">>}, {<<"truck_id">>})
  /\ Creates(11, {}, {<<"truck_id", "trucks">>}, {})
<1>1. \A k \in 1..4 : upgrade_0001[7 + k] = create_first_level[k]
  BY Pieces
<1>2. /\ upgrade_0001[8] = create_first_level[1] /\ upgrade_0001[9] = create_first_level[2]
      /\ upgrade_0001[10] = create_first_level[3] /\ upgrade_0001[11] = create_first_level[4]
  BY <1>1
<1> QED
  BY <1>2 DEF create_first_level, Creates, Creation

LEMMA Trips ==
  /\ Creates(12, {<<"load_id">>},
       {<<"driver_id", "drivers">>, <<"load_id", "loads">>,
        <<"trailer_id", "trailers">>, <<"truck_id", "trucks">>},
       {<<"driver_id">>, <<"load_id">>, <<"trailer_id">>, <<"trip_status">>,
        <<"truck_id">>})
  /\ Creates(13, {},
       {<<"facility_id", "facilities">>, <<"load_id", "loads">>, <<"trip_id", "trips">>},
       {<<"event_type">>, <<"facility_id">>, <<"load_id">>, <<"trip_id">>})
  /\ Creates(14, {},
       {<<"driver_id", "drivers">>, <<"trip_id", "trips">>, <<"truck_id", "trucks">>},
       {<<"driver_id">>, <<"purchase_date">>, <<"trip_id">>, <<"truck_id">>})
  /\ Creates(15, {},
       {<<"driver_id", "drivers">>, <<"trip_id", "trips">>, <<"truck_id", "trucks">>},
       {<<"driver_id">>, <<"trip_id">>, <<"truck_id">>})
<1>1. \A k \in 1..4 : upgrade_0001[11 + k] = create_trips[k]
  BY Pieces
<1>2. /\ upgrade_0001[12] = create_trips[1] /\ upgrade_0001[13] = create_trips[2]
      /\ upgrade_0001[14] = create_trips[3] /\ upgrade_0001[15] = create_trips[4]
  BY <1>1
<1> QED
  BY <1>2 DEF create_trips, Creates, Creation

LEMMA SmallRevisions ==
  /\ Len(upgrade_0002) = 1 /\ Len(upgrade_0003) = 2 /\ Len(upgrade_0004) = 7
  /\ Len(upgrade_0005) = 1 /\ Len(upgrade_0006) = 2
  /\ Len(downgrade_0001) = 15 /\ Len(downgrade_0002) = 0 /\ Len(downgrade_0003) = 2
  /\ Len(downgrade_0004) = 7 /\ Len(downgrade_0005) = 1 /\ Len(downgrade_0006) = 2
  /\ \A k \in 1..7 :
       /\ upgrade_0004[k] = MakeNullable(OptionalColumns[k][1], OptionalColumns[k][2])
       /\ downgrade_0004[k] = MakeRequired(OptionalColumns[8 - k][1],
                                           OptionalColumns[8 - k][2])
<1>1. /\ Len(upgrade_0002) = 1 /\ Len(upgrade_0003) = 2
      /\ Len(upgrade_0005) = 1 /\ Len(upgrade_0006) = 2
  BY DEF upgrade_0002, upgrade_0003, upgrade_0005, upgrade_0006
<1>2. /\ Len(downgrade_0002) = 0 /\ Len(downgrade_0003) = 2
      /\ Len(downgrade_0005) = 1 /\ Len(downgrade_0006) = 2
  BY DEF downgrade_0002, downgrade_0003, downgrade_0005, downgrade_0006
<1>3. Len(downgrade_0001) = 15
  BY DEF downgrade_0001
<1>4. DOMAIN OptionalColumns = 1..7
  BY DEF OptionalColumns
<1>5. /\ Len(upgrade_0004) = 7
      /\ \A k \in 1..7 :
           upgrade_0004[k] = MakeNullable(OptionalColumns[k][1], OptionalColumns[k][2])
  BY <1>4 DEF upgrade_0004
<1> DEFINE r == [i \in DOMAIN OptionalColumns |->
                   MakeRequired(OptionalColumns[i][1], OptionalColumns[i][2])]
<1>6. /\ Len(r) = 7
      /\ \A k \in 1..7 : r[k] = MakeRequired(OptionalColumns[k][1], OptionalColumns[k][2])
  BY <1>4
<1>7. downgrade_0004 = [i \in 1..Len(r) |-> r[(Len(r) - i) + 1]]
  BY DEF downgrade_0004, Reverse
<1> HIDE DEF r
<1>8. Len(downgrade_0004) = 7
  BY <1>6, <1>7
<1>9. ASSUME NEW k \in 1..7
      PROVE  downgrade_0004[k] = MakeRequired(OptionalColumns[8 - k][1],
                                              OptionalColumns[8 - k][2])
  <2>1. 8 - k \in 1..7 /\ (7 - k) + 1 = 8 - k
    OBVIOUS
  <2> QED
    BY <1>6, <1>7, <2>1
<1> QED
  BY <1>1, <1>2, <1>3, <1>5, <1>8, <1>9

LEMMA RevisionSeqs ==
  \A i \in 1..6 : Upgrades[i] \in Seq(AllOps) /\ Downgrades[i] \in Seq(AllOps)
<1>1. \A i \in 1..6 : /\ \E S : Upgrades[i] \in Seq(S)
                      /\ \E S : Downgrades[i] \in Seq(S)
  <2>1. \E S : upgrade_0001 \in Seq(S)
    BY Pieces
  <2>2. upgrade_0002 \in Seq({upgrade_0002[i] : i \in 1..1})
    BY DEF upgrade_0002
  <2>3. upgrade_0003 \in Seq({upgrade_0003[i] : i \in 1..2})
    BY DEF upgrade_0003
  <2>4. upgrade_0004 \in Seq({upgrade_0004[i] : i \in 1..7})
    BY DEF upgrade_0004, OptionalColumns
  <2>5. upgrade_0005 \in Seq({upgrade_0005[i] : i \in 1..1})
    BY DEF upgrade_0005
  <2>6. upgrade_0006 \in Seq({upgrade_0006[i] : i \in 1..2})
    BY DEF upgrade_0006
  <2>7. downgrade_0001 \in Seq({downgrade_0001[i] : i \in 1..15})
    BY DEF downgrade_0001
  <2>8. downgrade_0002 \in Seq({})
    BY DEF downgrade_0002
  <2>9. downgrade_0003 \in Seq({downgrade_0003[i] : i \in 1..2})
    BY DEF downgrade_0003
  <2>10. downgrade_0004 \in Seq({downgrade_0004[i] : i \in 1..7})
    <3> DEFINE r == [i \in DOMAIN OptionalColumns |->
                       MakeRequired(OptionalColumns[i][1], OptionalColumns[i][2])]
    <3>1. Len(r) = 7
      BY DEF OptionalColumns
    <3>2. downgrade_0004 = [i \in 1..Len(r) |-> r[(Len(r) - i) + 1]]
      BY DEF downgrade_0004, Reverse
    <3> HIDE DEF r
    <3>3. downgrade_0004 = [i \in 1..7 |-> downgrade_0004[i]]
      BY <3>1, <3>2
    <3> QED
      BY <3>3
  <2>11. downgrade_0005 \in Seq({downgrade_0005[i] : i \in 1..1})
    BY DEF downgrade_0005
  <2>12. downgrade_0006 \in Seq({downgrade_0006[i] : i \in 1..2})
    BY DEF downgrade_0006
  <2> QED
    BY <2>1, <2>2, <2>3, <2>4, <2>5, <2>6, <2>7, <2>8, <2>9, <2>10, <2>11, <2>12,
       Revisions
<1>2. ASSUME NEW S, NEW ops \in Seq(S), NEW i \in 1..6,
             ops = Upgrades[i] \/ ops = Downgrades[i]
      PROVE  ops \in Seq(AllOps)
  <2>1. \A k \in 1..Len(ops) : ops[k] \in AllOps
    BY <1>2, Revisions DEF AllOps
  <2>2. Len(ops) \in Nat /\ ops \in [1..Len(ops) -> AllOps]
    BY <2>1
  <2> QED
    BY <2>2
<1> QED
  BY <1>1, <1>2

(* The operations of an upgrade by one more revision. *)
LEMMA UpgradeGrows ==
  \A a \in 0..6 :
    /\ UpgradeOps(a, a) = <<>>
    /\ \A b \in a..5 : UpgradeOps(a, b + 1) = UpgradeOps(a, b) \o Upgrades[b + 1]
    /\ \A b \in a..6 : UpgradeOps(a, b) \in Seq(AllOps)
<1> SUFFICES ASSUME NEW a \in 0..6
             PROVE  /\ UpgradeOps(a, a) = <<>>
                    /\ \A b \in a..5 :
                         UpgradeOps(a, b + 1) = UpgradeOps(a, b) \o Upgrades[b + 1]
                    /\ \A b \in a..6 : UpgradeOps(a, b) \in Seq(AllOps)
  OBVIOUS
<1>1. Upgrades \in Seq(Seq(AllOps))
  <2>1. Upgrades = [i \in 1..6 |-> Upgrades[i]]
    BY DEF Upgrades
  <2> QED
    BY <2>1, RevisionSeqs
<1>2. UpgradeOps(a, a) = <<>>
  <2>1. SubSeq(Upgrades, a + 1, a) = <<>>
    BY SubSeqEmpty
  <2> QED
    BY <2>1 DEF UpgradeOps, FlattenSeq
<1>3. ASSUME NEW b \in a..5, UpgradeOps(a, b) \in Seq(AllOps)
      PROVE  /\ UpgradeOps(a, b + 1) = UpgradeOps(a, b) \o Upgrades[b + 1]
             /\ UpgradeOps(a, b + 1) \in Seq(AllOps)
  <2>1. a + 1 \in 1..6 /\ b + 1 \in (a + 1)..6 /\ b + 1 \in 1..6 /\ (b + 1) - 1 = b
    OBVIOUS
  <2>2. SubSeq(Upgrades, a + 1, b + 1) = SubSeq(Upgrades, a + 1, b) \o <<Upgrades[b + 1]>>
    <3>1. SubSeq(Upgrades, a + 1, b + 1)
            = SubSeq(Upgrades, a + 1, (b + 1) - 1) \o <<Upgrades[b + 1]>>
      BY <1>1, <2>1, Revisions, SubSeqRecursiveSecond
    <3> QED
      BY <2>1, <3>1
  <2>3. SubSeq(Upgrades, a + 1, b) \in Seq(Seq(AllOps))
    <3>1. \A i \in (a + 1)..b : Upgrades[i] \in Seq(AllOps)
      <4>1. \A i \in (a + 1)..b : i \in 1..6
        OBVIOUS
      <4> QED
        BY <4>1, RevisionSeqs
    <3>2. a + 1 \in Int /\ b \in Int
      OBVIOUS
    <3> QED
      BY <3>1, <3>2, SubSeqProperties
  <2>4. Upgrades[b + 1] \in Seq(AllOps)
    BY <2>1, RevisionSeqs
  <2>5. UpgradeOps(a, b + 1) = UpgradeOps(a, b) \o Upgrades[b + 1]
    BY <1>3, <2>2, <2>3, <2>4, FlattenGrows DEF UpgradeOps
  <2> QED
    BY <1>3, <2>4, <2>5, ConcatProperties
<1> DEFINE C == {b \in a..6 : UpgradeOps(a, b) \notin Seq(AllOps)}
<1>4. C = {}
  <2> SUFFICES ASSUME C # {} PROVE FALSE
    OBVIOUS
  <2>1. PICK b \in C : \A j \in C : b <= j
    <3>1. C \in SUBSET Nat
      OBVIOUS
    <3> HIDE DEF C
    <3> QED
      BY <3>1, LeastNat
  <2>2. b # a
    <3>1. <<>> \in Seq(AllOps)
      OBVIOUS
    <3> QED
      BY <1>2, <2>1, <3>1
  <2>3. b - 1 \in a..5 /\ ~(b <= b - 1) /\ (b - 1) + 1 = b
    BY <2>1, <2>2
  <2>4. UpgradeOps(a, b - 1) \in Seq(AllOps)
    BY <2>1, <2>3
  <2>5. UpgradeOps(a, (b - 1) + 1) \in Seq(AllOps)
    BY <1>3, <2>3, <2>4
  <2> QED
    BY <2>1, <2>3, <2>5
<1>5. \A b \in a..6 : UpgradeOps(a, b) \in Seq(AllOps)
  BY <1>4
<1>6. \A b \in a..5 : UpgradeOps(a, b + 1) = UpgradeOps(a, b) \o Upgrades[b + 1]
  <2>1. \A b \in a..5 : b \in a..6
    OBVIOUS
  <2> QED
    BY <1>3, <1>5, <2>1
<1> QED
  BY <1>2, <1>5, <1>6

-----------------------------------------------------------------------------
(* What an entry other than a foreign key refers to. *)
Nowhere == ""

(* The entries, and the operations, by what they are made of. *)
LEMMA Kinds ==
  /\ \A t : TableEntry(t).kind = "table"
  /\ \A t, c : Unique(t, c).kind = "unique"
  /\ \A t, c : IndexOf(t, c).kind = "index"
  /\ \A t, c : Required(t, c).kind = "required"
  /\ \A t, c, p : ForeignKey(t, c, p).kind = "foreign key"
  BY DEF Entry, TableEntry, Unique, IndexOf, Required, ForeignKey

LEMMA Tables ==
  /\ \A t : TableEntry(t).table = t
  /\ \A t, c : Unique(t, c).table = t
  /\ \A t, c : IndexOf(t, c).table = t
  /\ \A t, c : Required(t, c).table = t
  /\ \A t, c, p : ForeignKey(t, c, p).table = t
  BY DEF Entry, TableEntry, Unique, IndexOf, Required, ForeignKey

LEMMA Columns ==
  /\ \A t, c : Unique(t, c).on = c
  /\ \A t, c : IndexOf(t, c).on = c
  /\ \A t, c : Required(t, c).on = <<c>>
  /\ \A t, c, p : ForeignKey(t, c, p).on = <<c>>
  BY DEF Entry, TableEntry, Unique, IndexOf, Required, ForeignKey

LEMMA Parents ==
  /\ \A t : TableEntry(t).to = Nowhere
  /\ \A t, c : Unique(t, c).to = Nowhere
  /\ \A t, c : IndexOf(t, c).to = Nowhere
  /\ \A t, c : Required(t, c).to = Nowhere
  /\ \A t, c, p : ForeignKey(t, c, p).to = p
  BY DEF Entry, TableEntry, Unique, IndexOf, Required, ForeignKey, Nowhere

LEMMA Distinct ==
  /\ \A t, u : TableEntry(t) = TableEntry(u) => t = u
  /\ \A t, c, u, d : Unique(t, c) = Unique(u, d) => t = u /\ c = d
  /\ \A t, c, u, d : IndexOf(t, c) = IndexOf(u, d) => t = u /\ c = d
  /\ \A t, c, u, d : Required(t, c) = Required(u, d) => t = u /\ c = d
  /\ \A t, u, d : /\ TableEntry(t) # Unique(u, d) /\ TableEntry(t) # IndexOf(u, d)
                  /\ TableEntry(t) # Required(u, d)
  /\ \A t, c, u, d : /\ Unique(t, c) # IndexOf(u, d) /\ Unique(t, c) # Required(u, d)
                     /\ IndexOf(t, c) # Required(u, d)
  /\ \A t, c, p, u, d : /\ ForeignKey(t, c, p) # TableEntry(u)
                        /\ ForeignKey(t, c, p) # Unique(u, d)
                        /\ ForeignKey(t, c, p) # IndexOf(u, d)
                        /\ ForeignKey(t, c, p) # Required(u, d)
  BY DEF Entry, TableEntry, Unique, IndexOf, Required, ForeignKey

LEMMA CreateTableIs ==
  ASSUME NEW t, NEW unique, NEW refs, NEW indexes
  PROVE  /\ CreateTable(t, unique, refs, indexes).needs = {TableEntry(r[2]) : r \in refs}
         /\ CreateTable(t, unique, refs, indexes).removes = {}
         /\ CreateTable(t, unique, refs, indexes).drops = {}
         /\ CreateTable(t, unique, refs, indexes).adds
              = {TableEntry(t)} \cup {Unique(t, u) : u \in unique} \cup RequiredKeys(t, refs)
                  \cup {IndexOf(t, i) : i \in indexes}
  BY DEF CreateTable, Op

(* What it adds, one kind of entries after the other. *)
LEMMA CreateTableAdds ==
  ASSUME NEW t, NEW unique, NEW refs, NEW indexes
  PROVE  \A e : e \in CreateTable(t, unique, refs, indexes).adds <=>
           \/ e = TableEntry(t)
           \/ \E u \in unique : e = Unique(t, u)
           \/ \E r \in refs : e = ForeignKey(t, r[1], r[2]) \/ e = Required(t, r[1])
           \/ \E i \in indexes : e = IndexOf(t, i)
<1>1. \A e : e \in RequiredKeys(t, refs) <=>
        \E r \in refs : e = ForeignKey(t, r[1], r[2]) \/ e = Required(t, r[1])
  BY DEF RequiredKeys
<1>2. ASSUME NEW e
      PROVE  e \in CreateTable(t, unique, refs, indexes).adds <=>
               \/ e = TableEntry(t)
               \/ \E u \in unique : e = Unique(t, u)
               \/ e \in RequiredKeys(t, refs)
               \/ \E i \in indexes : e = IndexOf(t, i)
  BY CreateTableIs
<1> QED
  BY <1>1, <1>2

LEMMA CreatedInTable ==
  ASSUME NEW t, NEW unique, NEW refs, NEW indexes
  PROVE  \A e \in CreateTable(t, unique, refs, indexes).adds : e.table = t
<1> SUFFICES ASSUME NEW e \in CreateTable(t, unique, refs, indexes).adds
             PROVE  e.table = t
  OBVIOUS
<1>1. ASSUME NEW r \in refs, e = ForeignKey(t, r[1], r[2]) PROVE e.table = t
  BY <1>1 DEF ForeignKey, Entry
<1>2. ASSUME NEW c, e = TableEntry(t) \/ e = Unique(t, c) \/ e = Required(t, c)
                      \/ e = IndexOf(t, c)
      PROVE  e.table = t
  BY <1>2, Tables
<1> QED
  BY <1>1, <1>2, CreateTableAdds

LEMMA CreatedReferences ==
  ASSUME NEW t, NEW unique, NEW refs, NEW indexes
  PROVE  \A e \in CreateTable(t, unique, refs, indexes).adds :
           e.to # Nowhere => \E r \in refs : e.to = r[2]
<1> SUFFICES ASSUME NEW e \in CreateTable(t, unique, refs, indexes).adds
             PROVE  e.to # Nowhere => \E r \in refs : e.to = r[2]
  OBVIOUS
<1>1. \/ e = TableEntry(t)
      \/ \E u \in unique : e = Unique(t, u)
      \/ \E r \in refs : e = ForeignKey(t, r[1], r[2])
      \/ \E r \in refs : e = Required(t, r[1])
      \/ \E i \in indexes : e = IndexOf(t, i)
  BY CreateTableAdds
<1>2. CASE \E r \in refs : e = ForeignKey(t, r[1], r[2])
  <2>1. PICK r \in refs : e = ForeignKey(t, r[1], r[2])
    BY <1>2
  <2>2. e.to = r[2]
    BY <2>1 DEF ForeignKey, Entry
  <2> QED
    BY <2>2
<1>3. ASSUME NEW c, e = TableEntry(t) \/ e = Unique(t, c) \/ e = Required(t, c)
                      \/ e = IndexOf(t, c)
      PROVE  e.to = Nowhere
  BY <1>3, Parents
<1>4. ASSUME ~ \E r \in refs : e = ForeignKey(t, r[1], r[2])
      PROVE  \E c : e = TableEntry(t) \/ e = Unique(t, c) \/ e = Required(t, c)
                      \/ e = IndexOf(t, c)
  BY <1>1, <1>4
<1> QED
  BY <1>2, <1>3, <1>4

LEMMA OtherOps ==
  /\ \A t, c : DropTable(t, c) = [needs |-> {}, adds |-> {},
                                  removes |-> {TableEntry(t)} \cup {IndexOf(t, i) : i \in c},
                                  drops |-> {t}]
  /\ \A t, c : CreateIndex(t, c) = [needs |-> {TableEntry(t)}, adds |-> {IndexOf(t, c)},
                                    removes |-> {}, drops |-> {}]
  /\ \A t, c : DropIndex(t, c) = [needs |-> {}, adds |-> {}, removes |-> {IndexOf(t, c)},
                                  drops |-> {}]
  /\ \A t, c : MakeNullable(t, c) = [needs |-> {TableEntry(t)}, adds |-> {},
                                     removes |-> {Required(t, c)}, drops |-> {}]
  /\ \A t, c : MakeRequired(t, c) = [needs |-> {TableEntry(t)}, adds |-> {Required(t, c)},
                                     removes |-> {}, drops |-> {}]
  /\ \A t, c : DropUnique(t, c) = [needs |-> {}, adds |-> {}, removes |-> {Unique(t, c)},
                                   drops |-> {}]
  /\ \A t, c : AddUnique(t, c) = [needs |-> {TableEntry(t)}, adds |-> {Unique(t, c)},
                                  removes |-> {}, drops |-> {}]
  /\ \A t : DeleteFrom(t) = [needs |-> {TableEntry(t)}, adds |-> {}, removes |-> {},
                             drops |-> {}]
  BY DEF Op, DropTable, CreateIndex, DropIndex, MakeNullable, MakeRequired,
         DropUnique, AddUnique, DeleteFrom

(* 0001 creates every table after those that it references, ... *)
LEMMA Created ==
  \A k \in 1..15 : \E unique, refs, indexes :
    /\ Creates(k, unique, refs, indexes)
    /\ \A r \in refs : \E j \in 1..(k - 1) : r[2] = Creation[j]
<1> DEFINE P(k) == \E unique, refs, indexes :
                     /\ Creates(k, unique, refs, indexes)
                     /\ \A r \in refs : \E j \in 1..(k - 1) : r[2] = Creation[j]
<1>1. /\ Creation[2] = "drivers" /\ Creation[1] = "customers" /\ Creation[3] = "facilities"
      /\ Creation[4] = "routes" /\ Creation[5] = "trailers" /\ Creation[6] = "trucks"
      /\ Creation[9] = "loads" /\ Creation[12] = "trips"
  BY DEF Creation
<1>2. P(1) /\ P(2) /\ P(3) /\ P(4) /\ P(5) /\ P(6) /\ P(7)
  BY Roots
<1>3. P(8)
  BY <1>1, FirstLevel
<1>4. P(9)
  BY <1>1, FirstLevel
<1>5. P(10)
  BY <1>1, FirstLevel
<1>6. P(11)
  BY <1>1, FirstLevel
<1>7. P(12)
  BY <1>1, Trips
<1>8. P(13)
  BY <1>1, Trips
<1>9. P(14)
  BY <1>1, Trips
<1>10. P(15)
  BY <1>1, Trips
<1> HIDE DEF P
<1>11. \A k \in 1..15 : P(k)
  BY <1>2, <1>3, <1>4, <1>5, <1>6, <1>7, <1>8, <1>9, <1>10
<1> QED
  BY <1>11 DEF P

(* ... and drops them all again in the reverse order. *)
LEMMA Dropped ==
  \A k \in 1..15 : \E unique, refs, indexes, i :
    /\ Creates(16 - k, unique, refs, indexes)
    /\ downgrade_0001[k] = DropTable(Creation[16 - k], i)
    /\ i \subseteq indexes
<1> DEFINE P(k) == \E unique, refs, indexes, i :
                     /\ Creates(16 - k, unique, refs, indexes)
                     /\ downgrade_0001[k] = DropTable(Creation[16 - k], i)
                     /\ i \subseteq indexes
<1>1. P(1)
  BY Trips DEF downgrade_0001, Creation
<1>2. P(2)
  BY Trips DEF downgrade_0001, Creation
<1>3. P(3)
  BY Trips DEF downgrade_0001, Creation
<1>4. P(4)
  BY Trips DEF downgrade_0001, Creation
<1>5. P(5)
  BY FirstLevel DEF downgrade_0001, Creation
<1>6. P(6)
  BY FirstLevel DEF downgrade_0001, Creation
<1>7. P(7)
  BY FirstLevel DEF downgrade_0001, Creation
<1>8. P(8)
  BY FirstLevel DEF downgrade_0001, Creation
<1>9. P(9)
  BY Roots DEF downgrade_0001, Creation
<1>10. P(10)
  BY Roots DEF downgrade_0001, Creation
<1>11. P(11)
  BY Roots DEF downgrade_0001, Creation
<1>12. P(12)
  BY Roots DEF downgrade_0001, Creation
<1>13. P(13)
  BY Roots DEF downgrade_0001, Creation
<1>14. P(14)
  BY Roots DEF downgrade_0001, Creation
<1>15. P(15)
  BY Roots DEF downgrade_0001, Creation
<1> HIDE DEF P
<1>16. \A k \in 1..15 : P(k)
  BY <1>1, <1>2, <1>3, <1>4, <1>5, <1>6, <1>7, <1>8, <1>9, <1>10, <1>11, <1>12, <1>13,
     <1>14, <1>15
<1> QED
  BY <1>16 DEF P

-----------------------------------------------------------------------------
(* An operation that takes a table away takes its rows away as well, and   *)
(* adds foreign keys to no table but the one that it creates.              *)
Sound(op) ==
  /\ \A t : TableEntry(t) \in op.removes => t \in op.drops
  /\ \A e \in op.adds : e.kind = "foreign key" => TableEntry(e.table) \in op.adds

LEMMA AllSound == \A op \in AllOps : Sound(op)
<1>1. ASSUME NEW t, NEW unique, NEW refs, NEW indexes
      PROVE  Sound(CreateTable(t, unique, refs, indexes))
  <2>1. /\ CreateTable(t, unique, refs, indexes).removes = {}
        /\ TableEntry(t) \in CreateTable(t, unique, refs, indexes).adds
    BY CreateTableIs, CreateTableAdds
  <2>2. \A e \in CreateTable(t, unique, refs, indexes).adds : e.table = t
    BY CreatedInTable
  <2> QED
    BY <2>1, <2>2 DEF Sound
<1>2. ASSUME NEW t, NEW c
      PROVE  /\ Sound(DropTable(t, c)) /\ Sound(CreateIndex(t, c))
             /\ Sound(DropIndex(t, c)) /\ Sound(MakeNullable(t, c))
             /\ Sound(MakeRequired(t, c)) /\ Sound(DropUnique(t, c))
             /\ Sound(AddUnique(t, c)) /\ Sound(DeleteFrom(t))
  <2>1. Sound(DropTable(t, c))
    BY Distinct, OtherOps DEF Sound
  <2>2. Sound(CreateIndex(t, c)) /\ Sound(MakeRequired(t, c)) /\ Sound(AddUnique(t, c))
    <3>1. /\ IndexOf(t, c).kind # "foreign key" /\ Required(t, c).kind # "foreign key"
          /\ Unique(t, c).kind # "foreign key"
      BY Kinds
    <3> QED
      BY <3>1, OtherOps DEF Sound
  <2>3. Sound(DropIndex(t, c)) /\ Sound(MakeNullable(t, c)) /\ Sound(DropUnique(t, c))
    BY Distinct, OtherOps DEF Sound
  <2>4. Sound(DeleteFrom(t))
    BY OtherOps DEF Sound
  <2> QED
    BY <2>1, <2>2, <2>3, <2>4
<1>3. \A k \in 1..15 : Sound(upgrade_0001[k])
  BY <1>1, Created DEF Creates
<1>4. \A k \in 1..15 : Sound(downgrade_0001[k])
  BY <1>2, Dropped
<1>5. Sound(upgrade_0002[1])
  BY <1>2 DEF upgrade_0002
<1>6. \A k \in 1..2 : /\ Sound(upgrade_0003[k]) /\ Sound(downgrade_0003[k])
                      /\ Sound(upgrade_0006[k]) /\ Sound(downgrade_0006[k])
  BY <1>2 DEF upgrade_0003, downgrade_0003, upgrade_0006, downgrade_0006
<1>7. \A k \in 1..7 : Sound(upgrade_0004[k]) /\ Sound(downgrade_0004[k])
  BY <1>2, SmallRevisions
<1>8. Sound(upgrade_0005[1]) /\ Sound(downgrade_0005[1])
  BY <1>2 DEF upgrade_0005, downgrade_0005
<1> DEFINE P(ops) == \A k \in 1..Len(ops) : Sound(ops[k])
<1>9. /\ P(upgrade_0001) /\ P(upgrade_0002) /\ P(upgrade_0003)
      /\ P(upgrade_0004) /\ P(upgrade_0005) /\ P(upgrade_0006)
  BY <1>3, <1>5, <1>6, <1>7, <1>8, Pieces, SmallRevisions
<1>10. /\ P(downgrade_0001) /\ P(downgrade_0002) /\ P(downgrade_0003)
       /\ P(downgrade_0004) /\ P(downgrade_0005) /\ P(downgrade_0006)
  BY <1>4, <1>6, <1>7, <1>8, SmallRevisions
<1> HIDE DEF P
<1>11. \A i \in 1..6 : P(Upgrades[i]) /\ P(Downgrades[i])
  BY <1>9, <1>10, Revisions
<1> QED
  BY <1>11, Revisions DEF AllOps, P

-----------------------------------------------------------------------------
(* The databases between the operations of a command. *)
Db(ok, cat, rs) == [ok |-> ok, catalog |-> cat, rows |-> rs]
IsDb(db) == db = Db(db.ok, db.catalog, db.rows)

LEMMA Fields ==
  \A ok, cat, rs : /\ Db(ok, cat, rs).ok = ok /\ Db(ok, cat, rs).catalog = cat
                   /\ Db(ok, cat, rs).rows = rs /\ IsDb(Db(ok, cat, rs))
  BY DEF Db, IsDb

LEMMA Succeeds ==
  ASSUME NEW db, NEW op, db.ok, Possible(op, db)
  PROVE  Execute(db, op)
           = Db(TRUE, {e \in (db.catalog \ op.removes) \cup op.adds : e.table \notin op.drops},
                db.rows \ op.drops)
  BY DEF Execute, Apply, Db

LEMMA Fails ==
  ASSUME NEW db, IsDb(db), NEW op, ~(db.ok /\ Possible(op, db))
  PROVE  Execute(db, op) = Db(FALSE, db.catalog, db.rows)
<1>1. Execute(db, op) = [db EXCEPT !.ok = FALSE]
  BY DEF Execute
<1> QED
  BY <1>1 DEF IsDb, Db

(* All of them are such records, and once failed is failed. *)
LEMMA TraceOfDbs ==
  ASSUME NEW S, NEW ops \in Seq(S), NEW db, IsDb(db), NEW v, Trace(v, ops, db)
  PROVE  /\ \A k \in 0..Len(ops) : IsDb(v[k])
         /\ \A k \in 1..Len(ops) : v[k].ok => v[k - 1].ok /\ Possible(ops[k], v[k - 1])
<1> DEFINE n == Len(ops)
           C == {k \in 0..n : ~IsDb(v[k])}
<1>1. n \in Nat
  BY LenProperties
<1>2. ASSUME NEW d, IsDb(d), NEW op
      PROVE  IsDb(Execute(d, op)) /\ (Execute(d, op).ok => d.ok /\ Possible(op, d))
  <2>1. CASE d.ok /\ Possible(op, d)
    <3> DEFINE cat == {e \in (d.catalog \ op.removes) \cup op.adds : e.table \notin op.drops}
               rs == d.rows \ op.drops
    <3>1. Execute(d, op) = Db(TRUE, cat, rs)
      BY <2>1, Succeeds
    <3> HIDE DEF cat, rs
    <3> QED
      BY <2>1, <3>1 DEF Db, IsDb
  <2>2. CASE ~(d.ok /\ Possible(op, d))
    <3> DEFINE cat == d.catalog
               rs == d.rows
    <3>1. Execute(d, op) = Db(FALSE, cat, rs)
      BY <1>2, <2>2, Fails
    <3> HIDE DEF cat, rs
    <3> QED
      BY <3>1 DEF Db, IsDb
  <2> QED
    BY <2>1, <2>2
<1>3. C = {}
  <2> SUFFICES ASSUME C # {} PROVE FALSE
    OBVIOUS
  <2>1. PICK k \in C : \A j \in C : k <= j
    <3>1. C \in SUBSET Nat
      BY <1>1
    <3> HIDE DEF C
    <3> QED
      BY <3>1, LeastNat
  <2> HIDE DEF n
  <2>2. k # 0
    BY <2>1 DEF Trace
  <2>3. k \in 1..n /\ k - 1 \in 0..n /\ ~(k <= k - 1)
    BY <1>1, <2>1, <2>2
  <2>4. IsDb(v[k - 1]) /\ v[k] = Execute(v[k - 1], ops[k])
    BY <2>1, <2>3 DEF Trace, n
  <2> QED
    BY <1>2, <2>1, <2>4
<1>4. ASSUME NEW k \in 1..n PROVE v[k].ok => v[k - 1].ok /\ Possible(ops[k], v[k - 1])
  <2>1. k - 1 \in 0..n /\ v[k] = Execute(v[k - 1], ops[k])
    BY <1>1 DEF Trace
  <2>2. IsDb(v[k - 1])
    BY <1>3, <2>1
  <2> QED
    BY <1>2, <2>1, <2>2
<1> QED
  BY <1>3, <1>4

-----------------------------------------------------------------------------
(* The rows obey the catalog after every operation. *)
Obeys(cat, rs) ==
  /\ \A t \in rs : TableEntry(t) \in cat
  /\ \A e \in cat : /\ e.kind = "foreign key" /\ e.table \in rs => e.to \in rs
                    /\ ~Broken(e, rs)

LEMMA ExecuteObeys ==
  ASSUME NEW db, NEW op, Sound(op), db.ok, Possible(op, db),
         Obeys(db.catalog, db.rows)
  PROVE  Obeys(Execute(db, op).catalog, Execute(db, op).rows)
<1> DEFINE cat == {e \in (db.catalog \ op.removes) \cup op.adds : e.table \notin op.drops}
           rs == db.rows \ op.drops
<1>1. Execute(db, op).catalog = cat /\ Execute(db, op).rows = rs
  <2>1. Execute(db, op) = Db(TRUE, cat, rs)
    BY Succeeds
  <2> HIDE DEF cat, rs
  <2> QED
    BY <2>1 DEF Db
<1>2. ASSUME NEW t \in rs PROVE TableEntry(t) \in cat
  <2>1. TableEntry(t) \in db.catalog /\ t \notin op.drops
    BY DEF Obeys
  <2>2. TableEntry(t) \notin op.removes
    BY <2>1 DEF Sound
  <2> QED
    BY <2>1, <2>2, Tables
<1>3. ASSUME NEW e \in cat, e.table \in rs PROVE ~Broken(e, rs)
  <2>1. CASE e \in op.adds
    BY <2>1 DEF Possible, Broken
  <2>2. CASE e \in db.catalog
    BY <2>2 DEF Obeys, Broken
  <2> QED
    BY <2>1, <2>2
<1>4. ASSUME NEW e \in cat, e.kind = "foreign key", e.table \in rs PROVE e.to \in rs
  <2>1. e \notin op.adds
    <3>1. e \in op.adds => TableEntry(e.table) \in op.adds
      BY <1>4 DEF Sound
    <3>2. TableEntry(e.table) \in db.catalog
      BY <1>4 DEF Obeys
    <3> QED
      BY <3>1, <3>2 DEF Possible
  <2>2. e \in db.catalog /\ e.to \in db.rows
    BY <1>4, <2>1 DEF Obeys
  <2>3. e.to \notin op.drops
    BY <1>4, <2>2 DEF Possible
  <2> QED
    BY <2>2, <2>3
<1>5. \A e \in cat : ~Broken(e, rs)
  BY <1>3 DEF Broken
<1> HIDE DEF cat, rs
<1>6. Obeys(cat, rs)
  BY <1>2, <1>4, <1>5 DEF Obeys
<1> QED
  BY <1>1, <1>6

LEMMA RunObeys ==
  ASSUME NEW ops \in Seq(AllOps), NEW cat, NEW rs, Obeys(cat, rs),
         RunFrom(ops, Db(TRUE, cat, rs)).ok
  PROVE  Obeys(RunFrom(ops, Db(TRUE, cat, rs)).catalog, RunFrom(ops, Db(TRUE, cat, rs)).rows)
<1> DEFINE db == Db(TRUE, cat, rs)
           n == Len(ops)
<1>1. PICK v : Trace(v, ops, db) /\ RunFrom(ops, db) = v[n]
  BY RunIsTrace
<1>2. n \in Nat
  BY LenProperties
<1>3. \A k \in 1..n : v[k].ok => v[k - 1].ok /\ Possible(ops[k], v[k - 1])
  BY <1>1, Fields, TraceOfDbs
<1>4. v[0] = db /\ \A k \in 1..n : v[k] = Execute(v[k - 1], ops[k])
  BY <1>1 DEF Trace
<1>5. \A k \in 1..n : Sound(ops[k])
  BY AllSound, ElementOfSeq
<1> HIDE DEF n, db
<1> DEFINE C == {k \in 0..n : v[k].ok /\ ~Obeys(v[k].catalog, v[k].rows)}
<1>6. C = {}
  <2> SUFFICES ASSUME C # {} PROVE FALSE
    OBVIOUS
  <2>1. PICK k \in C : \A j \in C : k <= j
    <3>1. C \in SUBSET Nat
      BY <1>2
    <3> HIDE DEF C
    <3> QED
      BY <3>1, LeastNat
  <2>2. k # 0
    <3>1. db.catalog = cat /\ db.rows = rs
      BY DEF db, Db
    <3> QED
      BY <1>4, <2>1, <3>1
  <2>3. k \in 1..n /\ k - 1 \in 0..n /\ ~(k <= k - 1)
    BY <1>2, <2>1, <2>2
  <2>4. v[k - 1].ok /\ Possible(ops[k], v[k - 1]) /\ Obeys(v[k - 1].catalog, v[k - 1].rows)
    BY <1>3, <2>1, <2>3
  <2>5. Obeys(v[k].catalog, v[k].rows)
    BY <1>4, <1>5, <2>3, <2>4, ExecuteObeys
  <2> QED
    BY <2>1, <2>5
<1>7. n \in 0..n
  BY <1>2
<1> QED
  BY <1>1, <1>6, <1>7 DEF db

-----------------------------------------------------------------------------
(* What the operations do to the rows, they do without breaking what the   *)
(* catalog says of them: from any rows, by any revisions up or down, and   *)
(* by any COPY that the catalog accepts, no row is left in a table that is *)
(* gone, beside no row that it references, or against a constraint.        *)
LEMMA OneCommand ==
  ASSUME NEW ops \in Seq(AllOps), NEW r \in 0..LastRevision, TypeOK,
         Commit(Run(ops, catalog, rows), r)
  PROVE  TypeOK'
<1> DEFINE db == RunFrom(ops, Db(TRUE, catalog, rows))
<1>1. Run(ops, catalog, rows) = db
  BY RunIsRunFrom DEF Db
<1>2. Obeys(catalog, rows)
  BY DEF TypeOK, Obeys
<1> HIDE DEF db
<1>3. db.ok /\ catalog' = db.catalog /\ rows' = db.rows /\ revision' = r
  BY <1>1 DEF Commit
<1>4. Obeys(db.catalog, db.rows)
  BY <1>2, <1>3, RunObeys DEF db
<1>5. Obeys(catalog', rows')
  BY <1>3, <1>4
<1> QED
  BY <1>3, <1>5 DEF TypeOK, Obeys

LEMMA TypingInit == Init => TypeOK
<1> SUFFICES ASSUME Init PROVE TypeOK
  OBVIOUS
<1>1. revision \in 0..LastRevision
  BY Revisions DEF Init
<1> QED
  BY <1>1 DEF Init, TypeOK

LEMMA TypingStep == TypeOK /\ [Next]_vars => TypeOK'
<1> SUFFICES ASSUME TypeOK, [Next]_vars PROVE TypeOK'
  OBVIOUS
<1>0. revision \in 0..6 /\ LastRevision = 6
  BY Revisions DEF TypeOK
<1>1. ASSUME NEW r \in 1..LastRevision, Upgrade(r) PROVE TypeOK'
  <2>1. r > revision /\ Commit(Run(UpgradeOps(revision, r), catalog, rows), r)
    BY <1>1 DEF Upgrade, UpgradeTo
  <2>2. r \in revision..6 /\ r \in 0..LastRevision
    BY <1>0, <2>1
  <2>3. UpgradeOps(revision, r) \in Seq(AllOps)
    BY <1>0, <2>2, UpgradeGrows
  <2> QED
    BY <2>1, <2>2, <2>3, OneCommand
<1>2. CASE Downgrade
  <2>1. revision > 0 /\ Commit(Run(Downgrades[revision], catalog, rows), revision - 1)
    BY <1>2 DEF Downgrade, DowngradeByOne
  <2>2. revision \in 1..6 /\ revision - 1 \in 0..LastRevision
    BY <1>0, <2>1
  <2>3. Downgrades[revision] \in Seq(AllOps)
    BY <2>2, RevisionSeqs
  <2> QED
    BY <2>1, <2>2, <2>3, OneCommand
<1>3. ASSUME NEW t \in DomainTables, Copy(t) PROVE TypeOK'
  <2>1. /\ revision' = revision /\ catalog' = catalog /\ rows' = rows \cup {t}
        /\ TableEntry(t) \in catalog
    BY <1>3 DEF Copy, Accepts
  <2>2. ASSUME NEW e \in catalog
        PROVE  /\ e.kind = "foreign key" /\ e.table \in rows \cup {t} => e.to \in rows \cup {t}
               /\ ~Broken(e, rows \cup {t})
    <3>1. CASE e.table = t
      BY <1>3, <3>1 DEF Copy, Accepts, Broken
    <3>2. CASE e.table # t
      BY <3>2 DEF TypeOK, Broken
    <3> QED
      BY <3>1, <3>2
  <2> QED
    BY <2>1, <2>2 DEF TypeOK
<1>4. CASE Truncate
  BY <1>4 DEF Truncate, TypeOK, Broken
<1>5. CASE UNCHANGED vars
  BY <1>5 DEF vars, TypeOK
<1> QED
  BY <1>1, <1>2, <1>3, <1>4, <1>5 DEF Next

(* TypeOK of every reachable state, whichever constraints the CSV rows     *)
(* would violate: the rows obey the catalog after every alembic command,   *)
(* COPY and truncation.                                                    *)
THEOREM MigrationsTyping == Spec => []TypeOK
<1>1. Init => TypeOK
  BY TypingInit
<1>2. TypeOK /\ [Next]_vars => TypeOK'
  BY TypingStep
<1> QED
  BY <1>1, <1>2, PTL DEF Spec

-----------------------------------------------------------------------------
(* What revisions that only add, or only take away, arrive at. *)
AddedBy(ops, k)   == UNION {ops[i].adds : i \in 1..k}
RemovedBy(ops, k) == UNION {ops[i].removes : i \in 1..k}

LEMMA OneMore ==
  ASSUME NEW ops, NEW k \in Nat \ {0}
  PROVE  /\ AddedBy(ops, k) = AddedBy(ops, k - 1) \cup ops[k].adds
         /\ RemovedBy(ops, k) = RemovedBy(ops, k - 1) \cup ops[k].removes
<1>1. 1..k = (1..(k - 1)) \cup {k}
  OBVIOUS
<1> QED
  BY <1>1 DEF AddedBy, RemovedBy

LEMMA NoneYet == \A ops : AddedBy(ops, 0) = {} /\ RemovedBy(ops, 0) = {}
  BY DEF AddedBy, RemovedBy

LEMMA Adding ==
  ASSUME NEW S, NEW ops \in Seq(S), NEW cat, NEW rs,
         \A k \in 1..Len(ops) :
           /\ ops[k].removes = {} /\ ops[k].drops = {}
           /\ ops[k].needs \subseteq cat \cup AddedBy(ops, k - 1)
           /\ ops[k].adds \cap (cat \cup AddedBy(ops, k - 1)) = {}
           /\ \A e \in ops[k].adds : ~Broken(e, rs)
  PROVE  RunFrom(ops, Db(TRUE, cat, rs)) = Db(TRUE, cat \cup AddedBy(ops, Len(ops)), rs)
<1> DEFINE n == Len(ops)
           v == [k \in 0..n |-> Db(TRUE, cat \cup AddedBy(ops, k), rs)]
<1>1. n \in Nat
  BY LenProperties
<1>2. v[0] = Db(TRUE, cat, rs)
  <2>1. cat \cup {} = cat
    OBVIOUS
  <2>2. v[0] = Db(TRUE, cat \cup AddedBy(ops, 0), rs)
    BY <1>1
  <2> QED
    BY <2>1, <2>2, NoneYet
<1>3. ASSUME NEW k \in 1..n PROVE v[k] = Execute(v[k - 1], ops[k])
  <2> DEFINE c == cat \cup AddedBy(ops, k - 1)
             op == ops[k]
  <2>1. k \in 0..n /\ k - 1 \in 0..n /\ k \in Nat \ {0}
    BY <1>1
  <2>2. v[k - 1] = Db(TRUE, c, rs) /\ v[k] = Db(TRUE, cat \cup AddedBy(ops, k), rs)
    BY <2>1
  <2>3. cat \cup AddedBy(ops, k) = c \cup op.adds
    BY <2>1, OneMore
  <2>4. /\ op.removes = {} /\ op.drops = {} /\ op.needs \subseteq c /\ op.adds \cap c = {}
        /\ \A e \in op.adds : ~Broken(e, rs)
    OBVIOUS
  <2> HIDE DEF v, op, n, c
  <2>5. Db(TRUE, c, rs).ok /\ Db(TRUE, c, rs).catalog = c /\ Db(TRUE, c, rs).rows = rs
    BY DEF Db
  <2>6. Possible(op, Db(TRUE, c, rs))
    BY <2>4, <2>5 DEF Possible
  <2> DEFINE left == {e \in (c \ op.removes) \cup op.adds : e.table \notin op.drops}
  <2>7. Execute(Db(TRUE, c, rs), op) = Db(TRUE, left, rs \ op.drops)
    BY <2>5, <2>6, Succeeds
  <2>8. left = c \cup op.adds /\ rs \ op.drops = rs
    BY <2>4
  <2> QED
    BY <2>2, <2>3, <2>7, <2>8 DEF op
<1>4. v[n] = Db(TRUE, cat \cup AddedBy(ops, n), rs)
  BY <1>1
<1> HIDE DEF v
<1>5. Trace(v, ops, Db(TRUE, cat, rs))
  BY <1>2, <1>3 DEF Trace
<1> QED
  BY <1>4, <1>5, TraceIsRun

LEMMA Removing ==
  ASSUME NEW S, NEW ops \in Seq(S), NEW cat, NEW rs,
         \A k \in 1..Len(ops) :
           /\ ops[k].adds = {} /\ ops[k].drops = {}
           /\ ops[k].needs \cup ops[k].removes \subseteq cat \ RemovedBy(ops, k - 1)
  PROVE  RunFrom(ops, Db(TRUE, cat, rs)) = Db(TRUE, cat \ RemovedBy(ops, Len(ops)), rs)
<1> DEFINE n == Len(ops)
           v == [k \in 0..n |-> Db(TRUE, cat \ RemovedBy(ops, k), rs)]
<1>1. n \in Nat
  BY LenProperties
<1>2. v[0] = Db(TRUE, cat, rs)
  <2>1. cat \ {} = cat
    OBVIOUS
  <2>2. v[0] = Db(TRUE, cat \ RemovedBy(ops, 0), rs)
    BY <1>1
  <2> QED
    BY <2>1, <2>2, NoneYet
<1>3. ASSUME NEW k \in 1..n PROVE v[k] = Execute(v[k - 1], ops[k])
  <2> DEFINE c == cat \ RemovedBy(ops, k - 1)
             op == ops[k]
  <2>1. k \in 0..n /\ k - 1 \in 0..n /\ k \in Nat \ {0}
    BY <1>1
  <2>2. v[k - 1] = Db(TRUE, c, rs) /\ v[k] = Db(TRUE, cat \ RemovedBy(ops, k), rs)
    BY <2>1
  <2>3. cat \ RemovedBy(ops, k) = c \ op.removes
    BY <2>1, OneMore
  <2>4. op.adds = {} /\ op.drops = {} /\ op.needs \cup op.removes \subseteq c
    OBVIOUS
  <2> HIDE DEF v, op, n, c
  <2>5. Db(TRUE, c, rs).ok /\ Db(TRUE, c, rs).catalog = c /\ Db(TRUE, c, rs).rows = rs
    BY DEF Db
  <2>6. Possible(op, Db(TRUE, c, rs))
    BY <2>4, <2>5 DEF Possible
  <2> DEFINE left == {e \in (c \ op.removes) \cup op.adds : e.table \notin op.drops}
  <2>7. Execute(Db(TRUE, c, rs), op) = Db(TRUE, left, rs \ op.drops)
    BY <2>5, <2>6, Succeeds
  <2>8. left = c \ op.removes /\ rs \ op.drops = rs
    BY <2>4
  <2> QED
    BY <2>2, <2>3, <2>7, <2>8 DEF op
<1>4. v[n] = Db(TRUE, cat \ RemovedBy(ops, n), rs)
  BY <1>1
<1> HIDE DEF v
<1>5. Trace(v, ops, Db(TRUE, cat, rs))
  BY <1>2, <1>3 DEF Trace
<1> QED
  BY <1>4, <1>5, TraceIsRun

(* A command that went through added nothing that the rows break. *)
LEMMA NothingBroken ==
  ASSUME NEW S, NEW ops \in Seq(S), NEW cat, NEW rs,
         \A k \in 1..Len(ops) : ops[k].drops = {},
         RunFrom(ops, Db(TRUE, cat, rs)).ok
  PROVE  \A k \in 1..Len(ops) : \A e \in ops[k].adds : ~Broken(e, rs)
<1> DEFINE n == Len(ops)
           db == Db(TRUE, cat, rs)
<1>1. PICK v : Trace(v, ops, db) /\ RunFrom(ops, db) = v[n]
  BY RunIsTrace
<1>2. n \in Nat
  BY LenProperties
<1>3. \A k \in 1..n : v[k].ok => v[k - 1].ok /\ Possible(ops[k], v[k - 1])
  <2>1. IsDb(db)
    BY DEF Db, IsDb
  <2> HIDE DEF db
  <2> QED
    BY <1>1, <2>1, TraceOfDbs
<1>4. v[0] = db /\ \A k \in 1..n : v[k] = Execute(v[k - 1], ops[k])
  BY <1>1 DEF Trace
<1>5. v[n].ok
  BY <1>1
<1>6. v[0].rows = rs
  BY <1>4 DEF Db
<1>7. \A k \in 1..n : ops[k].drops = {}
  OBVIOUS
<1> HIDE DEF n, db
<1> DEFINE C == {k \in 0..n : ~v[n - k].ok}
<1>8. C = {}
  <2> SUFFICES ASSUME C # {} PROVE FALSE
    OBVIOUS
  <2>1. PICK k \in C : \A j \in C : k <= j
    <3>1. C \in SUBSET Nat
      BY <1>2
    <3> HIDE DEF C
    <3> QED
      BY <3>1, LeastNat
  <2>2. k \in 0..n /\ ~v[n - k].ok
    BY <2>1
  <2>3. k # 0
    BY <1>2, <1>5, <2>2
  <2>4. k - 1 \in 0..n /\ ~(k <= k - 1) /\ n - (k - 1) \in 1..n /\ (n - (k - 1)) - 1 = n - k
    BY <1>2, <2>2, <2>3
  <2>5. v[n - (k - 1)].ok
    BY <2>1, <2>4
  <2> QED
    BY <1>3, <2>2, <2>4, <2>5
<1>9. \A k \in 0..n : v[k].ok
  <2> SUFFICES ASSUME NEW k \in 0..n PROVE v[k].ok
    OBVIOUS
  <2>1. n - k \in 0..n /\ n - (n - k) = k
    BY <1>2
  <2> QED
    BY <1>8, <2>1
<1> HIDE DEF C
<1> DEFINE D == {k \in 0..n : v[k].rows # rs}
<1>10. D = {}
  <2> SUFFICES ASSUME D # {} PROVE FALSE
    OBVIOUS
  <2>1. PICK k \in D : \A j \in D : k <= j
    <3>1. D \in SUBSET Nat
      BY <1>2
    <3> HIDE DEF D
    <3> QED
      BY <3>1, LeastNat
  <2>2. k \in 0..n /\ v[k].rows # rs
    BY <2>1
  <2>3. k # 0
    BY <1>6, <2>2
  <2>4. k \in 1..n /\ k - 1 \in 0..n /\ ~(k <= k - 1)
    BY <1>2, <2>2, <2>3
  <2>5. v[k - 1].rows = rs /\ v[k - 1].ok /\ v[k].ok /\ Possible(ops[k], v[k - 1])
    BY <1>3, <1>9, <2>1, <2>2, <2>4
  <2> DEFINE c == {e \in (v[k - 1].catalog \ ops[k].removes) \cup ops[k].adds :
                     e.table \notin ops[k].drops}
  <2>6. v[k] = Db(TRUE, c, v[k - 1].rows \ ops[k].drops)
    BY <1>4, <2>4, <2>5, Succeeds
  <2> HIDE DEF c
  <2>7. v[k].rows = v[k - 1].rows \ ops[k].drops
    BY <2>6 DEF Db
  <2>8. ops[k].drops = {}
    BY <1>7, <2>4
  <2> QED
    BY <2>2, <2>5, <2>7, <2>8
<1> SUFFICES ASSUME NEW k \in 1..n, NEW e \in ops[k].adds PROVE ~Broken(e, rs)
  BY DEF n
<1>11. k \in 0..n /\ k - 1 \in 0..n
  BY <1>2
<1>12. Possible(ops[k], v[k - 1]) /\ v[k - 1].rows = rs
  BY <1>3, <1>9, <1>10, <1>11
<1> QED
  BY <1>12 DEF Possible

-----------------------------------------------------------------------------
(* The catalogs that the revisions build up from an empty one.             *)
Domain == AddedBy(upgrade_0001, 15)
Indexed == Domain \cup {IndexOf("maintenance_records", <<"maintenance_date">>),
                        IndexOf("safety_incidents", <<"incident_date">>)}
Optional(k) == Required(OptionalColumns[k][1], OptionalColumns[k][2])
Loosened == Indexed \ {Optional(k) : k \in 1..7}
Numbered == Unique("trailers", <<"trailer_number">>)
Repeating == Loosened \ {Numbered}
Latest == Repeating \cup {IndexOf("trips", <<"dispatch_date">>),
                        IndexOf("trips", <<"driver_id", "dispatch_date">>)}

CatalogAt(r) ==
  CASE r = 0 -> {}
    [] r \in {1, 2} -> Domain
    [] r = 3 -> Indexed
    [] r = 4 -> Loosened
    [] r = 5 -> Repeating
    [] r = 6 -> Latest

LEMMA CatalogIs ==
  /\ CatalogAt(0) = {} /\ CatalogAt(1) = Domain /\ CatalogAt(2) = Domain
  /\ CatalogAt(3) = Indexed /\ CatalogAt(4) = Loosened /\ CatalogAt(5) = Repeating
  /\ CatalogAt(6) = Latest
  BY DEF CatalogAt

LEMMA CreationOnce ==
  \A i, j \in 1..15 : Creation[i] = Creation[j] => i = j
  BY DEF Creation

LEMMA NamedTables == \A k \in 1..15 : Creation[k] # Nowhere
<1>1. /\ Creation[1] # Nowhere /\ Creation[2] # Nowhere /\ Creation[3] # Nowhere
      /\ Creation[4] # Nowhere /\ Creation[5] # Nowhere /\ Creation[6] # Nowhere
      /\ Creation[7] # Nowhere /\ Creation[8] # Nowhere /\ Creation[9] # Nowhere
      /\ Creation[10] # Nowhere /\ Creation[11] # Nowhere
      /\ Creation[12] # Nowhere /\ Creation[13] # Nowhere /\ Creation[14] # Nowhere
      /\ Creation[15] # Nowhere
  BY DEF Creation, Nowhere
<1> QED
  BY <1>1

LEMMA InDomain ==
  \A e : e \in Domain <=> \E k \in 1..15 : e \in upgrade_0001[k].adds
  BY DEF Domain, AddedBy

(* Table by table: what 0001 adds is in the table that it creates, and     *)
(* refers to tables created before.                                        *)
LEMMA AddsOf ==
  ASSUME NEW k \in 1..15
  PROVE  /\ TableEntry(Creation[k]) \in upgrade_0001[k].adds
         /\ \A e \in upgrade_0001[k].adds :
              /\ e.table = Creation[k]
              /\ e.to # Nowhere => \E j \in 1..(k - 1) : e.to = Creation[j]
         /\ \A t \in upgrade_0001[k].needs : \E j \in 1..(k - 1) : t = TableEntry(Creation[j])
         /\ upgrade_0001[k].removes = {} /\ upgrade_0001[k].drops = {}
<1>1. PICK unique, refs, indexes :
        /\ upgrade_0001[k] = CreateTable(Creation[k], unique, refs, indexes)
        /\ \A r \in refs : \E j \in 1..(k - 1) : r[2] = Creation[j]
  BY Created DEF Creates
<1> DEFINE op == CreateTable(Creation[k], unique, refs, indexes)
<1>2. /\ op.removes = {} /\ op.drops = {} /\ op.needs = {TableEntry(r[2]) : r \in refs}
  BY CreateTableIs
<1>3. TableEntry(Creation[k]) \in op.adds
  BY CreateTableAdds
<1>4. \A e \in op.adds : e.table = Creation[k]
  BY CreatedInTable
<1>5. \A e \in op.adds : e.to # Nowhere => \E r \in refs : e.to = r[2]
  <2>1. ASSUME NEW e \in op.adds, e.to # Nowhere PROVE \E r \in refs : e.to = r[2]
    BY <2>1, CreatedReferences
  <2> QED
    BY <2>1
<1> HIDE DEF op
<1>6. upgrade_0001[k] = op
  BY <1>1 DEF op
<1>7. \A t \in op.needs : \E j \in 1..(k - 1) : t = TableEntry(Creation[j])
  BY <1>1, <1>2
<1>8. \A e \in op.adds : e.to # Nowhere => \E j \in 1..(k - 1) : e.to = Creation[j]
  BY <1>1, <1>5
<1> QED
  BY <1>2, <1>3, <1>4, <1>6, <1>7, <1>8

LEMMA TableOf ==
  ASSUME NEW k \in 1..15, NEW e \in Domain, e.table = Creation[k]
  PROVE  e \in upgrade_0001[k].adds
<1>1. PICK j \in 1..15 : e \in upgrade_0001[j].adds
  BY InDomain
<1>2. e.table = Creation[j]
  BY <1>1, AddsOf
<1> QED
  BY <1>1, <1>2, CreationOnce

LEMMA TablesThere == \A k \in 1..15 : TableEntry(Creation[k]) \in Domain
  BY AddsOf, InDomain

LEMMA TablesAre == \A e \in Domain : \E k \in 1..15 : e.table = Creation[k]
<1>1. ASSUME NEW k \in 1..15, NEW e \in upgrade_0001[k].adds PROVE e.table = Creation[k]
  BY AddsOf
<1> QED
  BY <1>1, InDomain

(* 0001 up, over an empty database. *)
LEMMA CreateDomain == RunFrom(upgrade_0001, Db(TRUE, {}, {})) = Db(TRUE, Domain, {})
<1>1. upgrade_0001 \in Seq(AllOps) /\ Len(upgrade_0001) = 15
  BY RevisionSeqs, Revisions, Pieces
<1>2. ASSUME NEW k \in 1..15
      PROVE  /\ upgrade_0001[k].removes = {} /\ upgrade_0001[k].drops = {}
             /\ upgrade_0001[k].needs \subseteq {} \cup AddedBy(upgrade_0001, k - 1)
             /\ upgrade_0001[k].adds \cap ({} \cup AddedBy(upgrade_0001, k - 1)) = {}
             /\ \A e \in upgrade_0001[k].adds : ~Broken(e, {})
  <2>1. \A e : e \in AddedBy(upgrade_0001, k - 1) <=>
                 \E j \in 1..(k - 1) : e \in upgrade_0001[j].adds
    BY DEF AddedBy
  <2>2. \A j \in 1..(k - 1) : j \in 1..15 /\ j # k
    OBVIOUS
  <2>3. ASSUME NEW t \in upgrade_0001[k].needs PROVE t \in AddedBy(upgrade_0001, k - 1)
    <3>1. PICK j \in 1..(k - 1) : t = TableEntry(Creation[j])
      BY AddsOf
    <3>2. t \in upgrade_0001[j].adds
      BY <2>2, <3>1, AddsOf
    <3> QED
      BY <2>1, <3>2
  <2>4. ASSUME NEW e \in upgrade_0001[k].adds PROVE e \notin AddedBy(upgrade_0001, k - 1)
    <3>1. e.table = Creation[k]
      BY AddsOf
    <3>2. \A j \in 1..(k - 1) : e \in upgrade_0001[j].adds => e.table = Creation[j]
      BY <2>2, AddsOf
    <3> QED
      BY <2>1, <2>2, <3>1, <3>2, CreationOnce
  <2>5. upgrade_0001[k].removes = {} /\ upgrade_0001[k].drops = {}
    BY AddsOf
  <2>6. \A e : ~Broken(e, {})
    BY DEF Broken
  <2> QED
    BY <2>3, <2>4, <2>5, <2>6
<1>3. {} \cup AddedBy(upgrade_0001, 15) = Domain
  BY DEF Domain
<1>4. RunFrom(upgrade_0001, Db(TRUE, {}, {}))
        = Db(TRUE, {} \cup AddedBy(upgrade_0001, 15), {})
  BY <1>1, <1>2, Adding
<1> QED
  BY <1>3, <1>4

(* 0001 down, whatever rows there are. *)
LEMMA DropDomain ==
  ASSUME NEW rs, Obeys(Domain, rs)
  PROVE  RunFrom(downgrade_0001, Db(TRUE, Domain, rs)) = Db(TRUE, {}, {})
<1> DEFINE gone(k) == {Creation[16 - i] : i \in 1..k}
           left(k) == {e \in Domain : e.table \notin gone(k)}
           v == [k \in 0..15 |-> Db(TRUE, left(k), rs \ gone(k))]
<1>1. downgrade_0001 \in Seq(AllOps) /\ Len(downgrade_0001) = 15
  BY RevisionSeqs, Revisions, SmallRevisions
<1>2. v[0] = Db(TRUE, Domain, rs)
  <2>1. gone(0) = {}
    OBVIOUS
  <2>2. left(0) = Domain /\ rs \ gone(0) = rs
    BY <2>1
  <2>3. v[0] = Db(TRUE, left(0), rs \ gone(0))
    <3>1. 0 \in 0..15
      OBVIOUS
    <3> HIDE DEF left, gone
    <3> QED
      BY <3>1
  <2> QED
    BY <2>2, <2>3
<1>3. v[15] = Db(TRUE, {}, {})
  <2>1. \A k \in 1..15 : Creation[k] \in gone(15)
    <3>1. \A k \in 1..15 : 16 - k \in 1..15 /\ 16 - (16 - k) = k
      OBVIOUS
    <3> QED
      BY <3>1
  <2>2. v[15] = Db(TRUE, left(15), rs \ gone(15))
    <3>1. 15 \in 0..15
      OBVIOUS
    <3> HIDE DEF left, gone
    <3> QED
      BY <3>1
  <2>3. left(15) = {}
    BY <2>1, TablesAre
  <2>4. \A t \in rs : TableEntry(t) \in Domain /\ TableEntry(t).table = t
    BY Tables DEF Obeys
  <2>5. rs \ gone(15) = {}
    BY <2>1, <2>4, TablesAre
  <2> QED
    BY <2>2, <2>3, <2>5
<1>4. ASSUME NEW k \in 1..15 PROVE v[k] = Execute(v[k - 1], downgrade_0001[k])
  <2> DEFINE t == Creation[16 - k]
             c == left(k - 1)
             r == rs \ gone(k - 1)
  <2>1. k \in 0..15 /\ k - 1 \in 0..15 /\ 16 - k \in 1..15
    OBVIOUS
  <2>2. gone(k) = gone(k - 1) \cup {t}
    <3>1. 1..k = (1..(k - 1)) \cup {k}
      OBVIOUS
    <3> QED
      BY <3>1
  <2>3. v[k - 1] = Db(TRUE, c, r) /\ v[k] = Db(TRUE, left(k), rs \ gone(k))
    BY <2>1
  <2>4. PICK unique, refs, indexes, i :
          /\ upgrade_0001[16 - k] = CreateTable(t, unique, refs, indexes)
          /\ downgrade_0001[k] = DropTable(t, i)
          /\ i \subseteq indexes
    BY Dropped DEF Creates
  <2>5. t \notin gone(k - 1)
    <3>1. \A j \in 1..(k - 1) : 16 - j \in 1..15 /\ 16 - j # 16 - k
      OBVIOUS
    <3> QED
      BY <2>1, <3>1, CreationOnce
  <2>6. \A e \in upgrade_0001[16 - k].adds : e \in c
    <3>1. \A e \in upgrade_0001[16 - k].adds : e \in Domain /\ e.table = t
      BY <2>1, AddsOf, InDomain
    <3> QED
      BY <2>5, <3>1
  <2>7. ASSUME NEW e \in c, e.to = t PROVE e.table = t
    <3>1. PICK j \in 1..15 : e \in upgrade_0001[j].adds
      BY InDomain
    <3>2. e.table = Creation[j] /\ (e.to # Nowhere => \E m \in 1..(j - 1) : e.to = Creation[m])
      BY <3>1, AddsOf
    <3>3. t # Nowhere
      BY <2>1, NamedTables
    <3>4. PICK m \in 1..(j - 1) : t = Creation[m]
      BY <2>7, <3>2, <3>3
    <3>5. m = 16 - k
      <4>1. m \in 1..15
        OBVIOUS
      <4> QED
        BY <2>1, <3>4, <4>1, CreationOnce
    <3>6. 16 - j \in 1..(k - 1) /\ 16 - (16 - j) = j
      BY <3>5
    <3>7. e.table \in gone(k - 1)
      BY <3>2, <3>6
    <3> QED
      BY <3>7
  <2> DEFINE d == Db(TRUE, c, r)
             op == downgrade_0001[k]
  <2>8. /\ op.needs = {} /\ op.adds = {} /\ op.drops = {t}
        /\ op.removes = {TableEntry(t)} \cup {IndexOf(t, x) : x \in i}
    BY <2>4, OtherOps
  <2>9. op.removes \subseteq c
    <3>1. TableEntry(t) \in CreateTable(t, unique, refs, indexes).adds
      BY CreateTableAdds
    <3>2. \A x \in indexes : IndexOf(t, x) \in CreateTable(t, unique, refs, indexes).adds
      BY CreateTableAdds
    <3> HIDE DEF c, op, t
    <3> QED
      BY <2>4, <2>6, <2>8, <3>1, <3>2
  <2>10. d.ok /\ d.catalog = c /\ d.rows = r
    BY DEF Db
  <2>11. \A e \in op.removes : e.table = t
    BY <2>8, Tables
  <2>12. {e \in c : e.table # t} = left(k) /\ r \ {t} = rs \ gone(k)
    BY <2>2
  <2> HIDE DEF d, op, c, r, v, t, left, gone
  <2>13. Possible(op, d)
    BY <2>7, <2>8, <2>9, <2>10 DEF Possible
  <2> DEFINE l == {e \in (c \ op.removes) \cup op.adds : e.table \notin op.drops}
  <2>14. Execute(d, op) = Db(TRUE, l, r \ op.drops)
    BY <2>10, <2>13, Succeeds
  <2>15. l = {e \in c : e.table # t}
    BY <2>8, <2>11
  <2> HIDE DEF l
  <2>16. Execute(d, op) = Db(TRUE, left(k), rs \ gone(k))
    BY <2>8, <2>12, <2>14, <2>15
  <2> QED
    BY <2>3, <2>16 DEF d, op
<1> HIDE DEF v
<1>5. Trace(v, downgrade_0001, Db(TRUE, Domain, rs))
  BY <1>1, <1>2, <1>4 DEF Trace
<1> QED
  BY <1>1, <1>3, <1>5, TraceIsRun

-----------------------------------------------------------------------------
(* Entries that a revision expects, or adds. *)
LEMMA HasEntries ==
  ASSUME NEW k \in 1..15, NEW unique, NEW refs, NEW indexes,
         Creates(k, unique, refs, indexes)
  PROVE  /\ \A u \in unique : Unique(Creation[k], u) \in Domain
         /\ \A r \in refs : /\ Required(Creation[k], r[1]) \in Domain
                            /\ ForeignKey(Creation[k], r[1], r[2]) \in Domain
<1> DEFINE op == CreateTable(Creation[k], unique, refs, indexes)
<1>1. \A u \in unique : Unique(Creation[k], u) \in op.adds
  BY CreateTableAdds
<1>2. \A r \in refs : /\ Required(Creation[k], r[1]) \in op.adds
                      /\ ForeignKey(Creation[k], r[1], r[2]) \in op.adds
  BY CreateTableAdds
<1>3. upgrade_0001[k] = op
  BY DEF Creates
<1> HIDE DEF op
<1> QED
  BY <1>1, <1>2, <1>3, InDomain

LEMMA NoIndex ==
  ASSUME NEW k \in 1..15, NEW unique, NEW refs, NEW indexes,
         Creates(k, unique, refs, indexes), NEW c, c \notin indexes
  PROVE  IndexOf(Creation[k], c) \notin Domain
<1> DEFINE op == CreateTable(Creation[k], unique, refs, indexes)
           i == IndexOf(Creation[k], c)
<1>1. i # TableEntry(Creation[k])
  BY Distinct
<1>2. \A u : i # Unique(Creation[k], u)
  BY Distinct
<1>3. \A r : i # Required(Creation[k], r[1])
  BY Distinct
<1>4. ASSUME NEW r PROVE i # ForeignKey(Creation[k], r[1], r[2])
  BY Distinct
<1>5. \A d : i = IndexOf(Creation[k], d) => c = d
  BY Distinct
<1> HIDE DEF i
<1>6. i \notin op.adds
  BY <1>1, <1>2, <1>3, <1>4, <1>5, CreateTableAdds
<1>7. upgrade_0001[k] = op /\ i.table = Creation[k]
  BY Tables DEF Creates, i
<1> HIDE DEF op
<1> QED
  BY <1>6, <1>7, TableOf DEF i

LEMMA Places ==
  /\ Creation[5] = "trailers" /\ Creation[7] = "users"
  /\ Creation[10] = "maintenance_records" /\ Creation[12] = "trips"
  /\ Creation[14] = "fuel_purchases" /\ Creation[15] = "safety_incidents"
  BY DEF Creation

LEMMA OptionalIs ==
  /\ Optional(1) = Required("trips", "driver_id")
  /\ Optional(2) = Required("trips", "truck_id")
  /\ Optional(3) = Required("trips", "trailer_id")
  /\ Optional(4) = Required("fuel_purchases", "driver_id")
  /\ Optional(5) = Required("fuel_purchases", "truck_id")
  /\ Optional(6) = Required("safety_incidents", "driver_id")
  /\ Optional(7) = Required("safety_incidents", "truck_id")
  BY DEF Optional, OptionalColumns

LEMMA OptionalTables ==
  \A k \in 1..7 : /\ TableEntry(OptionalColumns[k][1]) \in Domain
                  /\ Optional(k) \in Domain
<1>1. /\ TableEntry("trips") \in Domain /\ TableEntry("fuel_purchases") \in Domain
      /\ TableEntry("safety_incidents") \in Domain
  BY Places, TablesThere
<1>2. \A k \in 1..7 : OptionalColumns[k][1] \in {"trips", "fuel_purchases", "safety_incidents"}
  BY DEF OptionalColumns
<1> DEFINE trips == {<<"driver_id", "drivers">>, <<"load_id", "loads">>,
                     <<"trailer_id", "trailers">>, <<"truck_id", "trucks">>}
           others == {<<"driver_id", "drivers">>, <<"trip_id", "trips">>,
                      <<"truck_id", "trucks">>}
<1>3. \A r \in trips : Required("trips", r[1]) \in Domain
  BY Trips, Places, HasEntries
<1>4. \A r \in others : Required("fuel_purchases", r[1]) \in Domain
  BY Trips, Places, HasEntries
<1>5. \A r \in others : Required("safety_incidents", r[1]) \in Domain
  BY Trips, Places, HasEntries
<1> HIDE DEF trips, others
<1>6. /\ <<"driver_id", "drivers">> \in trips /\ <<"truck_id", "trucks">> \in trips
      /\ <<"trailer_id", "trailers">> \in trips
      /\ <<"driver_id", "drivers">> \in others /\ <<"truck_id", "trucks">> \in others
  BY DEF trips, others
<1>7. /\ <<"driver_id", "drivers">>[1] = "driver_id" /\ <<"truck_id", "trucks">>[1] = "truck_id"
      /\ <<"trailer_id", "trailers">>[1] = "trailer_id"
  OBVIOUS
<1>8. Optional(1) \in Domain /\ Optional(2) \in Domain /\ Optional(3) \in Domain
  BY <1>3, <1>6, <1>7, OptionalIs
<1>9. /\ Optional(4) \in Domain /\ Optional(5) \in Domain
      /\ Optional(6) \in Domain /\ Optional(7) \in Domain
  BY <1>4, <1>5, <1>6, <1>7, OptionalIs
<1>10. \A k \in 1..7 : Optional(k) \in Domain
  BY <1>8, <1>9
<1> QED
  BY <1>1, <1>2, <1>10

LEMMA OptionalOnce == \A i, j \in 1..7 : Optional(i) = Optional(j) => i = j
<1>1. \A i, j \in 1..7 :
        OptionalColumns[i][1] = OptionalColumns[j][1]
          /\ OptionalColumns[i][2] = OptionalColumns[j][2] => i = j
  BY DEF OptionalColumns
<1> QED
  BY <1>1, Distinct DEF Optional

LEMMA NumberedThere == Numbered \in Domain /\ TableEntry("trailers") \in Domain
<1>1. Creates(5, {<<"trailer_number">>, <<"vin">>}, {}, {<<"status">>})
  BY Roots
<1>2. \A u \in {<<"trailer_number">>, <<"vin">>} : Unique(Creation[5], u) \in Domain
  BY <1>1, HasEntries
<1> QED
  BY <1>2, Places, TablesThere DEF Numbered

LEMMA IndexesNew ==
  /\ IndexOf("maintenance_records", <<"maintenance_date">>) \notin Domain
  /\ IndexOf("safety_incidents", <<"incident_date">>) \notin Domain
  /\ IndexOf("trips", <<"dispatch_date">>) \notin Domain
  /\ IndexOf("trips", <<"driver_id", "dispatch_date">>) \notin Domain
<1>1. IndexOf(Creation[10], <<"maintenance_date">>) \notin Domain
  BY FirstLevel, NoIndex
<1>2. IndexOf(Creation[15], <<"incident_date">>) \notin Domain
  BY Trips, NoIndex
<1>3. IndexOf(Creation[12], <<"dispatch_date">>) \notin Domain
  BY Trips, NoIndex
<1>4. IndexOf(Creation[12], <<"driver_id", "dispatch_date">>) \notin Domain
  BY Trips, NoIndex
<1> QED
  BY <1>1, <1>2, <1>3, <1>4, Places

(* Entries that are no tables may go; the tables stay. *)
LEMMA TablesStay ==
  \A k \in 1..15 : /\ TableEntry(Creation[k]) \in Indexed
                   /\ TableEntry(Creation[k]) \in Loosened
                   /\ TableEntry(Creation[k]) \in Repeating
                   /\ TableEntry(Creation[k]) \in Latest
<1> SUFFICES ASSUME NEW k \in 1..15
             PROVE  /\ TableEntry(Creation[k]) \in Indexed
                    /\ TableEntry(Creation[k]) \in Loosened
                    /\ TableEntry(Creation[k]) \in Repeating
                    /\ TableEntry(Creation[k]) \in Latest
  OBVIOUS
<1>1. TableEntry(Creation[k]) \in Indexed
  BY TablesThere DEF Indexed
<1>2. \A i \in 1..7 : TableEntry(Creation[k]) # Optional(i)
  BY Distinct DEF Optional
<1>3. TableEntry(Creation[k]) # Numbered
  BY Distinct DEF Numbered
<1> QED
  BY <1>1, <1>2, <1>3 DEF Loosened, Repeating, Latest

-----------------------------------------------------------------------------
(* Every revision up, from the catalog before it. *)
LEMMA SeqsOf ==
  /\ upgrade_0002 \in Seq(AllOps) /\ upgrade_0003 \in Seq(AllOps)
  /\ upgrade_0004 \in Seq(AllOps) /\ upgrade_0005 \in Seq(AllOps)
  /\ upgrade_0006 \in Seq(AllOps)
  /\ downgrade_0003 \in Seq(AllOps) /\ downgrade_0004 \in Seq(AllOps)
  /\ downgrade_0005 \in Seq(AllOps) /\ downgrade_0006 \in Seq(AllOps)
  BY RevisionSeqs, Revisions

(* Revisions of two operations. *)
Both(a, b) == {a, b}

LEMMA BothAdded ==
  ASSUME NEW ops, NEW A, NEW B, ops[1].adds = A, ops[2].adds = B
  PROVE  AddedBy(ops, 1) = A /\ AddedBy(ops, 2) = A \cup B
<1>1. 1..1 = {1} /\ 1..2 = {1, 2}
  OBVIOUS
<1> QED
  BY <1>1 DEF AddedBy

LEMMA BothRemoved ==
  ASSUME NEW ops, NEW A, NEW B, ops[1].removes = A, ops[2].removes = B
  PROVE  RemovedBy(ops, 1) = A /\ RemovedBy(ops, 2) = A \cup B
<1>1. 1..1 = {1} /\ 1..2 = {1, 2}
  OBVIOUS
<1> QED
  BY <1>1 DEF RemovedBy

Leads(ops, cat, to) == \A rs : RunFrom(ops, Db(TRUE, cat, rs)) = Db(TRUE, to, rs)

CreatesTwo(ops, cat, s, c, t, d) ==
  /\ ops \in Seq(AllOps) /\ Len(ops) = 2
  /\ ops[1] = CreateIndex(s, c) /\ ops[2] = CreateIndex(t, d)
  /\ TableEntry(s) \in cat /\ TableEntry(t) \in cat
  /\ IndexOf(s, c) \notin cat /\ IndexOf(t, d) \notin cat /\ IndexOf(s, c) # IndexOf(t, d)

DropsTwo(ops, cat, s, c, t, d) ==
  /\ ops \in Seq(AllOps) /\ Len(ops) = 2
  /\ ops[1] = DropIndex(s, c) /\ ops[2] = DropIndex(t, d)
  /\ IndexOf(s, c) \in cat /\ IndexOf(t, d) \in cat /\ IndexOf(s, c) # IndexOf(t, d)

(* Two indexes created: of tables that are there, and not twice. *)
LEMMA TwoIndexes ==
  ASSUME NEW ops, NEW cat, NEW s, NEW c, NEW t, NEW d, CreatesTwo(ops, cat, s, c, t, d)
  PROVE  Leads(ops, cat, cat \cup Both(IndexOf(s, c), IndexOf(t, d)))
<1> USE DEF CreatesTwo
<1> SUFFICES ASSUME NEW rs
             PROVE  RunFrom(ops, Db(TRUE, cat, rs))
                      = Db(TRUE, cat \cup Both(IndexOf(s, c), IndexOf(t, d)), rs)
  BY DEF Leads
<1> DEFINE a == IndexOf(s, c)
           b == IndexOf(t, d)
           A == {a}
           B == {b}
<1>1. /\ ops[1].needs = {TableEntry(s)} /\ ops[1].adds = A
      /\ ops[1].removes = {} /\ ops[1].drops = {}
  BY OtherOps
<1>2. /\ ops[2].needs = {TableEntry(t)} /\ ops[2].adds = B
      /\ ops[2].removes = {} /\ ops[2].drops = {}
  BY OtherOps
<1>3. ~Broken(a, rs) /\ ~Broken(b, rs)
  BY UnmetAssumption, Kinds DEF Broken
<1>4. a \notin cat /\ b \notin cat /\ a # b
  OBVIOUS
<1> HIDE DEF a, b, A, B
<1>5. AddedBy(ops, 0) = {} /\ AddedBy(ops, 1) = A /\ AddedBy(ops, 2) = A \cup B
  BY <1>1, <1>2, BothAdded, NoneYet
<1>6. 1 - 1 = 0 /\ 2 - 1 = 1 /\ \A k \in 1..2 : k = 1 \/ k = 2
  OBVIOUS
<1> DEFINE P(k) == /\ ops[k].removes = {} /\ ops[k].drops = {}
                   /\ ops[k].needs \subseteq cat \cup AddedBy(ops, k - 1)
                   /\ ops[k].adds \cap (cat \cup AddedBy(ops, k - 1)) = {}
                   /\ \A e \in ops[k].adds : ~Broken(e, rs)
<1>7. P(1)
  BY <1>1, <1>3, <1>4, <1>5, <1>6 DEF A
<1>8. P(2)
  BY <1>2, <1>3, <1>4, <1>5, <1>6 DEF A, B
<1>9. \A k \in 1..Len(ops) : P(k)
  BY <1>6, <1>7, <1>8
<1>10. RunFrom(ops, Db(TRUE, cat, rs)) = Db(TRUE, cat \cup AddedBy(ops, Len(ops)), rs)
  BY <1>9, Adding
<1>11. AddedBy(ops, Len(ops)) = Both(a, b)
  BY <1>5 DEF A, B, Both
<1> QED
  BY <1>10, <1>11 DEF a, b

LEMMA TwoIndexesGone ==
  ASSUME NEW ops, NEW cat, NEW s, NEW c, NEW t, NEW d, DropsTwo(ops, cat, s, c, t, d)
  PROVE  Leads(ops, cat, cat \ Both(IndexOf(s, c), IndexOf(t, d)))
<1> USE DEF DropsTwo
<1> SUFFICES ASSUME NEW rs
             PROVE  RunFrom(ops, Db(TRUE, cat, rs))
                      = Db(TRUE, cat \ Both(IndexOf(s, c), IndexOf(t, d)), rs)
  BY DEF Leads
<1> DEFINE a == IndexOf(s, c)
           b == IndexOf(t, d)
           A == {a}
           B == {b}
<1>1. /\ ops[1].needs = {} /\ ops[1].removes = A /\ ops[1].adds = {} /\ ops[1].drops = {}
  BY OtherOps
<1>2. /\ ops[2].needs = {} /\ ops[2].removes = B /\ ops[2].adds = {} /\ ops[2].drops = {}
  BY OtherOps
<1>4. a \in cat /\ b \in cat /\ a # b
  OBVIOUS
<1> HIDE DEF a, b, A, B
<1>5. RemovedBy(ops, 0) = {} /\ RemovedBy(ops, 1) = A /\ RemovedBy(ops, 2) = A \cup B
  BY <1>1, <1>2, BothRemoved, NoneYet
<1>6. 1 - 1 = 0 /\ 2 - 1 = 1 /\ \A k \in 1..2 : k = 1 \/ k = 2
  OBVIOUS
<1> DEFINE P(k) == /\ ops[k].adds = {} /\ ops[k].drops = {}
                   /\ ops[k].needs \cup ops[k].removes \subseteq cat \ RemovedBy(ops, k - 1)
<1>7. P(1)
  BY <1>1, <1>4, <1>5, <1>6 DEF A
<1>8. P(2)
  BY <1>2, <1>4, <1>5, <1>6 DEF A, B
<1>9. \A k \in 1..Len(ops) : P(k)
  BY <1>6, <1>7, <1>8
<1>10. RunFrom(ops, Db(TRUE, cat, rs)) = Db(TRUE, cat \ RemovedBy(ops, Len(ops)), rs)
  BY <1>9, Removing
<1>11. RemovedBy(ops, Len(ops)) = Both(a, b)
  BY <1>5 DEF A, B, Both
<1> QED
  BY <1>10, <1>11 DEF a, b

LEMMA ClearUsers ==
  ASSUME NEW rs
  PROVE  RunFrom(upgrade_0002, Db(TRUE, Domain, rs)) = Db(TRUE, Domain, rs)
<1> DEFINE db == Db(TRUE, Domain, rs)
           op == DeleteFrom("users")
<1>1. /\ op.needs = {TableEntry("users")} /\ op.adds = {} /\ op.removes = {} /\ op.drops = {}
  BY OtherOps
<1>2. TableEntry("users") \in Domain
  BY Places, TablesThere
<1>3. db.ok /\ db.catalog = Domain /\ db.rows = rs
  BY DEF Db
<1>4. upgrade_0002 = <<op>>
  BY DEF upgrade_0002
<1> HIDE DEF db, op
<1>5. Possible(op, db)
  BY <1>1, <1>2, <1>3 DEF Possible
<1> DEFINE c == {e \in (db.catalog \ op.removes) \cup op.adds : e.table \notin op.drops}
<1>6. Execute(db, op) = Db(TRUE, c, db.rows \ op.drops)
  BY <1>3, <1>5, Succeeds
<1>7. c = Domain /\ db.rows \ op.drops = rs
  BY <1>1, <1>3
<1> HIDE DEF c
<1>8. Execute(db, op) = Db(TRUE, Domain, rs)
  BY <1>6, <1>7
<1>9. RunFrom(upgrade_0002, db) = Execute(db, op)
  BY <1>4, RunOne
<1> QED
  BY <1>8, <1>9 DEF db

LEMMA AddIndexes ==
  ASSUME NEW rs
  PROVE  RunFrom(upgrade_0003, Db(TRUE, Domain, rs)) = Db(TRUE, Indexed, rs)
<1> DEFINE ops == upgrade_0003
           s == "maintenance_records"
           c == <<"maintenance_date">>
           t == "safety_incidents"
           d == <<"incident_date">>
<1>1. ops[1] = CreateIndex(s, c) /\ ops[2] = CreateIndex(t, d)
  BY DEF upgrade_0003
<1>2. TableEntry(s) \in Domain /\ TableEntry(t) \in Domain
  BY Places, TablesThere
<1>3. IndexOf(s, c) \notin Domain /\ IndexOf(t, d) \notin Domain
  BY IndexesNew
<1>4. IndexOf(s, c) # IndexOf(t, d)
  BY DEF IndexOf, Entry
<1>5. Indexed = Domain \cup Both(IndexOf(s, c), IndexOf(t, d))
  BY DEF Indexed, Both
<1>6. ops \in Seq(AllOps) /\ Len(ops) = 2
  BY SmallRevisions, SeqsOf
<1> HIDE DEF ops, s, c, t, d
<1>7. Leads(ops, Domain, Domain \cup Both(IndexOf(s, c), IndexOf(t, d)))
  <2>1. CreatesTwo(ops, Domain, s, c, t, d)
    BY ONLY <1>1, <1>2, <1>3, <1>4, <1>6 DEF CreatesTwo
  <2> QED
    BY <2>1, TwoIndexes
<1> QED
  BY <1>5, <1>7 DEF ops, Leads

LEMMA DropIndexes ==
  ASSUME NEW rs
  PROVE  RunFrom(downgrade_0003, Db(TRUE, Indexed, rs)) = Db(TRUE, Domain, rs)
<1> DEFINE ops == downgrade_0003
           s == "safety_incidents"
           c == <<"incident_date">>
           t == "maintenance_records"
           d == <<"maintenance_date">>
<1>1. ops[1] = DropIndex(s, c) /\ ops[2] = DropIndex(t, d)
  BY DEF downgrade_0003
<1>2. IndexOf(s, c) \in Indexed /\ IndexOf(t, d) \in Indexed
  BY DEF Indexed
<1>3. IndexOf(s, c) # IndexOf(t, d)
  BY DEF IndexOf, Entry
<1>4. IndexOf(s, c) \notin Domain /\ IndexOf(t, d) \notin Domain
  BY IndexesNew
<1>5. Indexed = Domain \cup Both(IndexOf(t, d), IndexOf(s, c))
  BY DEF Indexed, Both
<1>6. ops \in Seq(AllOps) /\ Len(ops) = 2
  BY SmallRevisions, SeqsOf
<1> HIDE DEF ops, s, c, t, d
<1>7. Leads(ops, Indexed, Indexed \ Both(IndexOf(s, c), IndexOf(t, d)))
  <2>1. DropsTwo(ops, Indexed, s, c, t, d)
    BY ONLY <1>1, <1>2, <1>3, <1>6 DEF DropsTwo
  <2> QED
    BY <2>1, TwoIndexesGone
<1>8. Indexed \ Both(IndexOf(s, c), IndexOf(t, d)) = Domain
  BY <1>4, <1>5 DEF Both
<1> QED
  BY <1>7, <1>8 DEF ops, Leads

LEMMA Loosen ==
  ASSUME NEW rs
  PROVE  RunFrom(upgrade_0004, Db(TRUE, Indexed, rs)) = Db(TRUE, Loosened, rs)
<1> DEFINE lost(k) == {Optional(j) : j \in 1..k}
<1>1. ASSUME NEW k \in 1..7
      PROVE  /\ upgrade_0004[k].adds = {} /\ upgrade_0004[k].drops = {}
             /\ upgrade_0004[k].needs = {TableEntry(OptionalColumns[k][1])}
             /\ upgrade_0004[k].removes = {Optional(k)}
  <2>1. upgrade_0004[k] = MakeNullable(OptionalColumns[k][1], OptionalColumns[k][2])
    BY SmallRevisions
  <2> QED
    BY <2>1, OtherOps DEF Optional
<1>2. ASSUME NEW k \in 0..7 PROVE RemovedBy(upgrade_0004, k) = lost(k)
  <2>1. \A j \in 1..k : j \in 1..7
    OBVIOUS
  <2>2. \A e : e \in RemovedBy(upgrade_0004, k) <=>
                 \E j \in 1..k : e \in upgrade_0004[j].removes
    BY DEF RemovedBy
  <2>3. \A e : e \in RemovedBy(upgrade_0004, k) <=> \E j \in 1..k : e = Optional(j)
    BY <1>1, <2>1, <2>2
  <2> QED
    BY <2>3
<1>3. ASSUME NEW k \in 1..7
      PROVE  /\ upgrade_0004[k].adds = {} /\ upgrade_0004[k].drops = {}
             /\ upgrade_0004[k].needs \cup upgrade_0004[k].removes
                  \subseteq Indexed \ RemovedBy(upgrade_0004, k - 1)
  <2>1. k - 1 \in 0..7 /\ \A j \in 1..(k - 1) : j \in 1..7 /\ j # k
    OBVIOUS
  <2>2. RemovedBy(upgrade_0004, k - 1) = lost(k - 1)
    BY <1>2, <2>1
  <2>3. Optional(k) \notin lost(k - 1)
    BY <2>1, OptionalOnce
  <2>4. TableEntry(OptionalColumns[k][1]) \notin lost(k - 1)
    BY Distinct DEF Optional
  <2>5. TableEntry(OptionalColumns[k][1]) \in Indexed /\ Optional(k) \in Indexed
    BY OptionalTables DEF Indexed
  <2> HIDE DEF lost
  <2> QED
    BY <1>1, <2>2, <2>3, <2>4, <2>5
<1>4. RunFrom(upgrade_0004, Db(TRUE, Indexed, rs))
        = Db(TRUE, Indexed \ RemovedBy(upgrade_0004, 7), rs)
  <2> DEFINE ops == upgrade_0004
             P(k) == /\ ops[k].adds = {} /\ ops[k].drops = {}
                     /\ ops[k].needs \cup ops[k].removes
                          \subseteq Indexed \ RemovedBy(ops, k - 1)
  <2>1. ops \in Seq(AllOps) /\ Len(ops) = 7
    BY SmallRevisions, SeqsOf
  <2>2. \A k \in 1..7 : P(k)
    BY <1>3
  <2> HIDE DEF ops
  <2>3. \A k \in 1..Len(ops) : P(k)
    BY <2>1, <2>2
  <2>4. RunFrom(ops, Db(TRUE, Indexed, rs)) = Db(TRUE, Indexed \ RemovedBy(ops, Len(ops)), rs)
    BY ONLY <2>1, <2>3, Removing
  <2> QED
    BY <2>1, <2>4 DEF ops
<1>5. Indexed \ RemovedBy(upgrade_0004, 7) = Loosened
  BY <1>2 DEF Loosened
<1> QED
  BY <1>4, <1>5

LEMMA RepeatNumbers ==
  ASSUME NEW rs
  PROVE  RunFrom(upgrade_0005, Db(TRUE, Loosened, rs)) = Db(TRUE, Repeating, rs)
<1> DEFINE db == Db(TRUE, Loosened, rs)
           op == DropUnique("trailers", <<"trailer_number">>)
<1>1. op.needs = {} /\ op.adds = {} /\ op.removes = {Numbered} /\ op.drops = {}
  BY OtherOps DEF Numbered
<1>2. Numbered \in Loosened
  <2>1. \A k \in 1..7 : Numbered # Optional(k)
    BY Distinct DEF Numbered, Optional
  <2> QED
    BY <2>1, NumberedThere DEF Loosened, Indexed
<1>3. db.ok /\ db.catalog = Loosened /\ db.rows = rs
  BY DEF Db
<1>4. upgrade_0005 = <<op>>
  BY DEF upgrade_0005
<1> HIDE DEF db, op
<1>5. Possible(op, db)
  BY <1>1, <1>2, <1>3 DEF Possible
<1> DEFINE c == {e \in (db.catalog \ op.removes) \cup op.adds : e.table \notin op.drops}
<1>6. Execute(db, op) = Db(TRUE, c, db.rows \ op.drops)
  BY <1>3, <1>5, Succeeds
<1>7. c = Repeating /\ db.rows \ op.drops = rs
  BY <1>1, <1>3 DEF Repeating
<1> HIDE DEF c
<1>8. Execute(db, op) = Db(TRUE, Repeating, rs)
  BY <1>6, <1>7
<1>9. RunFrom(upgrade_0005, db) = Execute(db, op)
  BY <1>4, RunOne
<1> QED
  BY <1>8, <1>9 DEF db

LEMMA TripIndexesNew ==
  /\ IndexOf("trips", <<"dispatch_date">>) \notin Repeating
  /\ IndexOf("trips", <<"driver_id", "dispatch_date">>) \notin Repeating
  /\ IndexOf("trips", <<"dispatch_date">>) # IndexOf("trips", <<"driver_id", "dispatch_date">>)
<1>1. \A c : /\ IndexOf("trips", c) # IndexOf("maintenance_records", <<"maintenance_date">>)
             /\ IndexOf("trips", c) # IndexOf("safety_incidents", <<"incident_date">>)
  BY DEF IndexOf, Entry
<1>2. Repeating \subseteq Indexed
  BY DEF Repeating, Loosened
<1>3. \A c : IndexOf("trips", c) \in Repeating => IndexOf("trips", c) \in Domain
  BY <1>1, <1>2 DEF Indexed
<1>4. Len(<<"dispatch_date">>) # Len(<<"driver_id", "dispatch_date">>)
  OBVIOUS
<1> QED
  BY <1>3, <1>4, IndexesNew, Distinct

LEMMA AddTripIndexes ==
  ASSUME NEW rs
  PROVE  RunFrom(upgrade_0006, Db(TRUE, Repeating, rs)) = Db(TRUE, Latest, rs)
<1> DEFINE ops == upgrade_0006
           s == "trips"
           c == <<"dispatch_date">>
           d == <<"driver_id", "dispatch_date">>
<1>1. ops[1] = CreateIndex(s, c) /\ ops[2] = CreateIndex(s, d)
  BY DEF upgrade_0006
<1>2. TableEntry(s) \in Repeating
  BY Places, TablesStay
<1>3. /\ IndexOf(s, c) \notin Repeating /\ IndexOf(s, d) \notin Repeating
      /\ IndexOf(s, c) # IndexOf(s, d)
  BY TripIndexesNew
<1>4. Latest = Repeating \cup Both(IndexOf(s, c), IndexOf(s, d))
  BY DEF Latest, Both
<1>5. ops \in Seq(AllOps) /\ Len(ops) = 2
  BY SmallRevisions, SeqsOf
<1> HIDE DEF ops, s, c, d
<1>6. Leads(ops, Repeating, Repeating \cup Both(IndexOf(s, c), IndexOf(s, d)))
  <2>1. CreatesTwo(ops, Repeating, s, c, s, d)
    BY ONLY <1>1, <1>2, <1>3, <1>5 DEF CreatesTwo
  <2> QED
    BY <2>1, TwoIndexes
<1> QED
  BY <1>4, <1>6 DEF ops, Leads

LEMMA DropTripIndexes ==
  ASSUME NEW rs
  PROVE  RunFrom(downgrade_0006, Db(TRUE, Latest, rs)) = Db(TRUE, Repeating, rs)
<1> DEFINE ops == downgrade_0006
           s == "trips"
           c == <<"driver_id", "dispatch_date">>
           d == <<"dispatch_date">>
<1>1. ops[1] = DropIndex(s, c) /\ ops[2] = DropIndex(s, d)
  BY DEF downgrade_0006
<1>2. IndexOf(s, c) \in Latest /\ IndexOf(s, d) \in Latest
  BY DEF Latest
<1>3. /\ IndexOf(s, c) \notin Repeating /\ IndexOf(s, d) \notin Repeating
      /\ IndexOf(s, c) # IndexOf(s, d)
  BY TripIndexesNew
<1>4. Latest = Repeating \cup Both(IndexOf(s, d), IndexOf(s, c))
  BY DEF Latest, Both
<1>5. ops \in Seq(AllOps) /\ Len(ops) = 2
  BY SmallRevisions, SeqsOf
<1> HIDE DEF ops, s, c, d
<1>6. Leads(ops, Latest, Latest \ Both(IndexOf(s, c), IndexOf(s, d)))
  <2>1. DropsTwo(ops, Latest, s, c, s, d)
    BY ONLY <1>1, <1>2, <1>3, <1>5 DEF DropsTwo
  <2> QED
    BY <2>1, TwoIndexesGone
<1>7. Latest \ Both(IndexOf(s, c), IndexOf(s, d)) = Repeating
  BY <1>3, <1>4 DEF Both
<1> QED
  BY <1>6, <1>7 DEF ops, Leads

-----------------------------------------------------------------------------
(* The two downgrades that depend on the rows: they put back what 0004 and *)
(* 0005 took away because of the CSV files.                                *)
LEMMA Tighten ==
  ASSUME NEW rs
  PROVE  /\ RunFrom(downgrade_0004, Db(TRUE, Loosened, rs)).ok
              => \A k \in 1..7 : ~Broken(Optional(k), rs)
         /\ (\A k \in 1..7 : ~Broken(Optional(k), rs))
              => RunFrom(downgrade_0004, Db(TRUE, Loosened, rs)) = Db(TRUE, Indexed, rs)
<1> DEFINE ops == downgrade_0004
           back(k) == {Optional(8 - j) : j \in 1..k}
<1>1. ASSUME NEW k \in 1..7
      PROVE  /\ ops[k].removes = {} /\ ops[k].drops = {}
             /\ ops[k].needs = {TableEntry(OptionalColumns[8 - k][1])}
             /\ ops[k].adds = {Optional(8 - k)}
  <2>1. ops[k] = MakeRequired(OptionalColumns[8 - k][1], OptionalColumns[8 - k][2])
    BY SmallRevisions
  <2> QED
    BY <2>1, OtherOps DEF Optional
<1>2. ops \in Seq(AllOps) /\ Len(ops) = 7
  BY SmallRevisions, SeqsOf
<1>3. \A k \in 1..7 : 8 - k \in 1..7 /\ 8 - (8 - k) = k
  OBVIOUS
<1>4. ASSUME RunFrom(ops, Db(TRUE, Loosened, rs)).ok, NEW k \in 1..7
      PROVE  ~Broken(Optional(k), rs)
  <2>1. \A i \in 1..7 : ops[i].drops = {}
    BY <1>1
  <2>2. Optional(k) \in ops[8 - k].adds
    BY <1>1, <1>3
  <2> HIDE DEF ops
  <2>3. \A i \in 1..Len(ops) : ops[i].drops = {}
    BY <1>2, <2>1
  <2>4. \A i \in 1..Len(ops) : \A e \in ops[i].adds : ~Broken(e, rs)
    BY ONLY <1>2, <1>4, <2>3, NothingBroken
  <2> QED
    BY <1>2, <1>3, <2>2, <2>4
<1>5. ASSUME NEW k \in 0..7 PROVE AddedBy(ops, k) = back(k)
  <2>1. \A j \in 1..k : j \in 1..7
    OBVIOUS
  <2>2. \A e : e \in AddedBy(ops, k) <=> \E j \in 1..k : e \in ops[j].adds
    BY DEF AddedBy
  <2> HIDE DEF ops
  <2>3. \A e : e \in AddedBy(ops, k) <=> \E j \in 1..k : e = Optional(8 - j)
    BY <1>1, <2>1, <2>2
  <2> QED
    BY <2>3
<1>6. ASSUME \A k \in 1..7 : ~Broken(Optional(k), rs)
      PROVE  RunFrom(ops, Db(TRUE, Loosened, rs)) = Db(TRUE, Indexed, rs)
  <2> DEFINE P(k) == /\ ops[k].removes = {} /\ ops[k].drops = {}
                     /\ ops[k].needs \subseteq Loosened \cup AddedBy(ops, k - 1)
                     /\ ops[k].adds \cap (Loosened \cup AddedBy(ops, k - 1)) = {}
                     /\ \A e \in ops[k].adds : ~Broken(e, rs)
  <2>1. ASSUME NEW k \in 1..7 PROVE P(k)
    <3>1. k - 1 \in 0..7 /\ \A j \in 1..(k - 1) : 8 - j \in 1..7 /\ 8 - j # 8 - k
      OBVIOUS
    <3>2. AddedBy(ops, k - 1) = back(k - 1)
      BY <1>5, <3>1
    <3>3. Optional(8 - k) \notin back(k - 1)
      BY <1>3, <3>1, OptionalOnce
    <3>4. Optional(8 - k) \notin Loosened
      BY <1>3 DEF Loosened
    <3>5. TableEntry(OptionalColumns[8 - k][1]) \in Loosened
      <4>1. TableEntry(OptionalColumns[8 - k][1]) \in Indexed
        BY <1>3, OptionalTables DEF Indexed
      <4>2. \A j : TableEntry(OptionalColumns[8 - k][1]) # Optional(j)
        BY Distinct DEF Optional
      <4> QED
        BY <4>1, <4>2 DEF Loosened
    <3>6. ~Broken(Optional(8 - k), rs)
      BY <1>3, <1>6
    <3> HIDE DEF ops, back
    <3> QED
      BY <1>1, <3>2, <3>3, <3>4, <3>5, <3>6
  <2>2. \A k \in 1..7 : P(k)
    BY <2>1
  <2>3. Loosened \cup AddedBy(ops, 7) = Indexed
    <3>1. AddedBy(ops, 7) = back(7)
      BY <1>5
    <3>2. \A k \in 1..7 : Optional(k) \in back(7)
      BY <1>3
    <3>3. \A e \in back(7) : e \in Indexed
      BY <1>3, OptionalTables DEF Indexed
    <3> HIDE DEF ops, back
    <3> QED
      BY <3>1, <3>2, <3>3 DEF Loosened
  <2> HIDE DEF ops
  <2>4. \A k \in 1..Len(ops) : P(k)
    BY <1>2, <2>2
  <2>5. RunFrom(ops, Db(TRUE, Loosened, rs))
          = Db(TRUE, Loosened \cup AddedBy(ops, Len(ops)), rs)
    BY ONLY <1>2, <2>4, Adding
  <2> QED
    BY <1>2, <2>3, <2>5
<1> QED
  BY <1>4, <1>6

LEMMA NumberUniquely ==
  ASSUME NEW rs
  PROVE  /\ RunFrom(downgrade_0005, Db(TRUE, Repeating, rs)).ok <=> ~Broken(Numbered, rs)
         /\ ~Broken(Numbered, rs)
              => RunFrom(downgrade_0005, Db(TRUE, Repeating, rs)) = Db(TRUE, Loosened, rs)
<1> DEFINE db == Db(TRUE, Repeating, rs)
           op == AddUnique("trailers", <<"trailer_number">>)
<1>1. /\ op.needs = {TableEntry("trailers")} /\ op.adds = {Numbered}
      /\ op.removes = {} /\ op.drops = {}
  BY OtherOps DEF Numbered
<1>2. Numbered \in Loosened /\ Numbered \notin Repeating
  <2>1. \A k \in 1..7 : Numbered # Optional(k)
    BY Distinct DEF Numbered, Optional
  <2> QED
    BY <2>1, NumberedThere DEF Loosened, Indexed, Repeating
<1>3. TableEntry("trailers") \in Repeating
  BY Places, TablesStay
<1>4. db.ok /\ db.catalog = Repeating /\ db.rows = rs /\ IsDb(db)
  BY DEF Db, IsDb
<1>5. RunFrom(downgrade_0005, db) = Execute(db, op)
  <2>1. downgrade_0005 = <<op>>
    BY DEF downgrade_0005
  <2> HIDE DEF db, op
  <2> QED
    BY <2>1, RunOne
<1> HIDE DEF db, op
<1>6. Possible(op, db) <=> ~Broken(Numbered, rs)
  <2>1. op.needs \cup op.removes \subseteq db.catalog /\ op.adds \cap db.catalog = {}
    BY <1>1, <1>2, <1>3, <1>4
  <2>2. (\A e \in op.adds : ~Broken(e, db.rows)) <=> ~Broken(Numbered, rs)
    BY <1>1, <1>4
  <2>3. \A e \in db.catalog : e.to \in op.drops => e.table \in op.drops
    BY <1>1
  <2> QED
    BY <2>1, <2>2, <2>3 DEF Possible
<1>7. ASSUME ~Broken(Numbered, rs) PROVE Execute(db, op) = Db(TRUE, Loosened, rs)
  <2> DEFINE c == {e \in (db.catalog \ op.removes) \cup op.adds : e.table \notin op.drops}
  <2>1. Execute(db, op) = Db(TRUE, c, db.rows \ op.drops)
    BY <1>4, <1>6, <1>7, Succeeds
  <2>2. c = Loosened /\ db.rows \ op.drops = rs
    BY <1>1, <1>2, <1>4 DEF Repeating
  <2> HIDE DEF c
  <2> QED
    BY <2>1, <2>2
<1>8. ASSUME Broken(Numbered, rs) PROVE ~Execute(db, op).ok
  <2> DEFINE c == db.catalog
             r == db.rows
  <2>1. Execute(db, op) = Db(FALSE, c, r)
    BY <1>4, <1>6, <1>8, Fails
  <2> HIDE DEF c, r
  <2> QED
    BY <2>1 DEF Db
<1>9. Db(TRUE, Loosened, rs).ok
  BY DEF Db
<1>10. Execute(db, op).ok <=> ~Broken(Numbered, rs)
  BY <1>7, <1>8, <1>9
<1> QED
  BY <1>5, <1>7, <1>10 DEF db

(* What the CSV files put in its way. *)
LEMMA InTheWay == \A rs : Broken(Numbered, rs) <=> "trailers" \in rs
<1>1. Numbered \in Unmet /\ Numbered.table = "trailers"
  BY CsvAssumption, Tables DEF Numbered
<1> QED
  BY <1>1 DEF Broken

(* What hangs on trips, and trips on trailers. *)
LEMMA HangOnTrailers ==
  /\ ForeignKey("trips", "trailer_id", "trailers") \in Domain
  /\ ForeignKey("fuel_purchases", "trip_id", "trips") \in Domain
  /\ ForeignKey("safety_incidents", "trip_id", "trips") \in Domain
<1> DEFINE trips == {<<"driver_id", "drivers">>, <<"load_id", "loads">>,
                     <<"trailer_id", "trailers">>, <<"truck_id", "trucks">>}
           others == {<<"driver_id", "drivers">>, <<"trip_id", "trips">>,
                      <<"truck_id", "trucks">>}
<1>1. \A r \in trips : ForeignKey("trips", r[1], r[2]) \in Domain
  BY Trips, Places, HasEntries
<1>2. \A r \in others : ForeignKey("fuel_purchases", r[1], r[2]) \in Domain
  BY Trips, Places, HasEntries
<1>3. \A r \in others : ForeignKey("safety_incidents", r[1], r[2]) \in Domain
  BY Trips, Places, HasEntries
<1> HIDE DEF trips, others
<1>4. <<"trailer_id", "trailers">> \in trips /\ <<"trip_id", "trips">> \in others
  BY DEF trips, others
<1>5. /\ <<"trailer_id", "trailers">>[1] = "trailer_id"
      /\ <<"trailer_id", "trailers">>[2] = "trailers"
      /\ <<"trip_id", "trips">>[1] = "trip_id" /\ <<"trip_id", "trips">>[2] = "trips"
  OBVIOUS
<1> QED
  BY <1>1, <1>2, <1>3, <1>4, <1>5

(* Before 0005 there are no trailers, hence none of the rows that would be *)
(* in the way of 0004's downgrade.                                         *)
LEMMA NoneBeforeTrailers ==
  ASSUME NEW rs, Obeys(Loosened, rs)
  PROVE  \A k \in 1..7 : ~Broken(Optional(k), rs)
<1>1. "trailers" \notin rs
  <2>1. \A k \in 1..7 : Numbered # Optional(k)
    BY Distinct DEF Numbered, Optional
  <2>2. Numbered \in Loosened
    BY <2>1, NumberedThere DEF Loosened, Indexed
  <2> QED
    BY <2>2, InTheWay DEF Obeys
<1>2. ASSUME NEW t, NEW c, NEW p, ForeignKey(t, c, p) \in Domain, p \notin rs
      PROVE  t \notin rs
  <2> DEFINE e == ForeignKey(t, c, p)
  <2>1. \A k \in 1..7 : e # Optional(k)
    BY Distinct DEF Optional
  <2>2. e \in Loosened
    BY <1>2, <2>1 DEF Loosened, Indexed
  <2>3. e.kind = "foreign key" /\ e.table = t /\ e.to = p
    BY DEF ForeignKey, Entry
  <2> HIDE DEF e
  <2>4. \A d \in Loosened : d.kind = "foreign key" /\ d.table \in rs => d.to \in rs
    BY DEF Obeys
  <2> QED
    BY <1>2, <2>2, <2>3, <2>4
<1>3. "trips" \notin rs
  BY <1>1, <1>2, HangOnTrailers
<1>4. "fuel_purchases" \notin rs /\ "safety_incidents" \notin rs
  BY <1>2, <1>3, HangOnTrailers
<1>5. \A k \in 1..7 : OptionalColumns[k][1] \in {"trips", "fuel_purchases", "safety_incidents"}
  BY DEF OptionalColumns
<1>6. \A k \in 1..7 : Optional(k).table = OptionalColumns[k][1]
  BY Tables DEF Optional
<1> QED
  BY <1>3, <1>4, <1>5, <1>6 DEF Broken

-----------------------------------------------------------------------------
(* One revision up. *)
LEMMA OneUp ==
  ASSUME NEW r \in 1..6, NEW rs, Obeys(CatalogAt(r - 1), rs)
  PROVE  RunFrom(Upgrades[r], Db(TRUE, CatalogAt(r - 1), rs)) = Db(TRUE, CatalogAt(r), rs)
<1>1. CASE r = 1
  <2>1. r - 1 = 0 /\ CatalogAt(r - 1) = {} /\ CatalogAt(r) = Domain
    BY <1>1, CatalogIs
  <2>2. rs = {}
    BY <2>1 DEF Obeys
  <2> QED
    BY <1>1, <2>1, <2>2, Revisions, CreateDomain
<1>2. CASE r = 2
  <2>1. r - 1 = 1 /\ CatalogAt(r - 1) = Domain /\ CatalogAt(r) = Domain
    BY <1>2, CatalogIs
  <2> QED
    BY <1>2, <2>1, Revisions, ClearUsers
<1>3. CASE r = 3
  <2>1. r - 1 = 2 /\ CatalogAt(r - 1) = Domain /\ CatalogAt(r) = Indexed
    BY <1>3, CatalogIs
  <2> QED
    BY <1>3, <2>1, Revisions, AddIndexes
<1>4. CASE r = 4
  <2>1. r - 1 = 3 /\ CatalogAt(r - 1) = Indexed /\ CatalogAt(r) = Loosened
    BY <1>4, CatalogIs
  <2> QED
    BY <1>4, <2>1, Revisions, Loosen
<1>5. CASE r = 5
  <2>1. r - 1 = 4 /\ CatalogAt(r - 1) = Loosened /\ CatalogAt(r) = Repeating
    BY <1>5, CatalogIs
  <2> QED
    BY <1>5, <2>1, Revisions, RepeatNumbers
<1>6. CASE r = 6
  <2>1. r - 1 = 5 /\ CatalogAt(r - 1) = Repeating /\ CatalogAt(r) = Latest
    BY <1>6, CatalogIs
  <2> QED
    BY <1>6, <2>1, Revisions, AddTripIndexes
<1>7. r = 1 \/ r = 2 \/ r = 3 \/ r = 4 \/ r = 5 \/ r = 6
  OBVIOUS
<1> QED
  BY ONLY <1>1, <1>2, <1>3, <1>4, <1>5, <1>6, <1>7

(* One revision down: fails only on rows, and leaves what was there before *)
(* the revision came.                                                      *)
LEMMA OneDown ==
  ASSUME NEW r \in 1..6, NEW rs, Obeys(CatalogAt(r), rs)
  PROVE  /\ RunFrom(Downgrades[r], Db(TRUE, CatalogAt(r), rs)).ok
              => RunFrom(Downgrades[r], Db(TRUE, CatalogAt(r), rs)).catalog = CatalogAt(r - 1)
         /\ ~RunFrom(Downgrades[r], Db(TRUE, CatalogAt(r), rs)).ok <=>
              \/ r = 5 /\ Broken(Numbered, rs)
              \/ r = 4 /\ \E k \in 1..7 : Broken(Optional(k), rs)
<1> DEFINE db == RunFrom(Downgrades[r], Db(TRUE, CatalogAt(r), rs))
           back == CatalogAt(r - 1)
           fails == \/ r = 5 /\ Broken(Numbered, rs)
                    \/ r = 4 /\ \E k \in 1..7 : Broken(Optional(k), rs)
<1> SUFFICES (db.ok => db.catalog = back) /\ (~db.ok <=> fails)
  OBVIOUS
<1>0. \A cat, u : Db(TRUE, cat, u).ok /\ Db(TRUE, cat, u).catalog = cat
  BY DEF Db
<1>1. CASE r = 1
  <2>1. r - 1 = 0 /\ back = {} /\ CatalogAt(r) = Domain
    BY <1>1, CatalogIs
  <2>2. db = Db(TRUE, back, {})
    BY <1>1, <2>1, Revisions, DropDomain
  <2> HIDE DEF db, back
  <2>3. db.ok /\ db.catalog = back
    BY <1>0, <2>2
  <2> QED
    BY <1>1, <2>3
<1>2. CASE r = 2
  <2>1. r - 1 = 1 /\ back = Domain /\ CatalogAt(r) = Domain
    BY <1>2, CatalogIs
  <2>2. downgrade_0002 = <<>>
    BY DEF downgrade_0002
  <2>3. db = Db(TRUE, back, rs)
    BY <1>2, <2>1, <2>2, Revisions, RunNothing
  <2> HIDE DEF db, back
  <2>4. db.ok /\ db.catalog = back
    BY <1>0, <2>3
  <2> QED
    BY <1>2, <2>4
<1>3. CASE r = 3
  <2>1. r - 1 = 2 /\ back = Domain /\ CatalogAt(r) = Indexed
    BY <1>3, CatalogIs
  <2>2. db = Db(TRUE, back, rs)
    BY <1>3, <2>1, Revisions, DropIndexes
  <2> HIDE DEF db, back
  <2>3. db.ok /\ db.catalog = back
    BY <1>0, <2>2
  <2> QED
    BY <1>3, <2>3
<1>4. CASE r = 4
  <2>1. r - 1 = 3 /\ back = Indexed /\ CatalogAt(r) = Loosened
    BY <1>4, CatalogIs
  <2>2. db = RunFrom(downgrade_0004, Db(TRUE, Loosened, rs))
    BY <1>4, <2>1, Revisions
  <2> HIDE DEF db, back
  <2>3. /\ db.ok => \A k \in 1..7 : ~Broken(Optional(k), rs)
        /\ (\A k \in 1..7 : ~Broken(Optional(k), rs)) => db = Db(TRUE, back, rs)
    BY <2>1, <2>2, Tighten
  <2>4. (\A k \in 1..7 : ~Broken(Optional(k), rs)) => db.ok /\ db.catalog = back
    BY <1>0, <2>3
  <2> QED
    BY <1>4, <2>3, <2>4
<1>5. CASE r = 5
  <2>1. r - 1 = 4 /\ back = Loosened /\ CatalogAt(r) = Repeating
    BY <1>5, CatalogIs
  <2>2. db = RunFrom(downgrade_0005, Db(TRUE, Repeating, rs))
    BY <1>5, <2>1, Revisions
  <2> HIDE DEF db, back
  <2>3. /\ db.ok <=> ~Broken(Numbered, rs)
        /\ ~Broken(Numbered, rs) => db = Db(TRUE, back, rs)
    BY <2>1, <2>2, NumberUniquely
  <2>4. ~Broken(Numbered, rs) => db.catalog = back
    BY <1>0, <2>3
  <2> QED
    BY <1>5, <2>3, <2>4
<1>6. CASE r = 6
  <2>1. r - 1 = 5 /\ back = Repeating /\ CatalogAt(r) = Latest
    BY <1>6, CatalogIs
  <2>2. db = Db(TRUE, back, rs)
    BY <1>6, <2>1, Revisions, DropTripIndexes
  <2> HIDE DEF db, back
  <2>3. db.ok /\ db.catalog = back
    BY <1>0, <2>2
  <2> QED
    BY <1>6, <2>3
<1>7. r = 1 \/ r = 2 \/ r = 3 \/ r = 4 \/ r = 5 \/ r = 6
  OBVIOUS
<1> HIDE DEF db, back, fails
<1> QED
  BY ONLY <1>1, <1>2, <1>3, <1>4, <1>5, <1>6, <1>7

(* Several revisions up. *)
LEMMA SeveralUp ==
  ASSUME NEW a \in 0..6, NEW b \in a..6, NEW rs, Obeys(CatalogAt(a), rs)
  PROVE  RunFrom(UpgradeOps(a, b), Db(TRUE, CatalogAt(a), rs)) = Db(TRUE, CatalogAt(b), rs)
<1> DEFINE start == Db(TRUE, CatalogAt(a), rs)
           P(c) == RunFrom(UpgradeOps(a, c), start) # Db(TRUE, CatalogAt(c), rs)
           C == {c \in a..6 : P(c)}
<1>1. C = {}
  <2> SUFFICES ASSUME C # {} PROVE FALSE
    OBVIOUS
  <2>1. PICK c \in C : \A j \in C : c <= j
    <3> HIDE DEF P
    <3>1. C \in SUBSET Nat
      OBVIOUS
    <3> HIDE DEF C
    <3> QED
      BY <3>1, LeastNat
  <2>2. c # a
    <3>1. RunFrom(UpgradeOps(a, a), start) = start
      BY UpgradeGrows, RunNothing
    <3> QED
      BY <2>1, <3>1
  <2>3. c - 1 \in a..5 /\ c - 1 \in a..6 /\ ~(c <= c - 1) /\ (c - 1) + 1 = c /\ c \in 1..6
    BY <2>1, <2>2
  <2>4. RunFrom(UpgradeOps(a, c - 1), start) = Db(TRUE, CatalogAt(c - 1), rs)
    BY <2>1, <2>3
  <2>5. UpgradeOps(a, c - 1) \in Seq(AllOps)
    BY <2>3, UpgradeGrows
  <2>6. UpgradeOps(a, c) = UpgradeOps(a, c - 1) \o Upgrades[c]
    <3>1. UpgradeOps(a, (c - 1) + 1) = UpgradeOps(a, c - 1) \o Upgrades[(c - 1) + 1]
      BY <2>3, UpgradeGrows
    <3> QED
      BY <2>3, <3>1
  <2>7. Upgrades[c] \in Seq(AllOps)
    BY <2>3, RevisionSeqs
  <2>8. RunFrom(UpgradeOps(a, c), start)
          = RunFrom(Upgrades[c], RunFrom(UpgradeOps(a, c - 1), start))
    <3> DEFINE s == UpgradeOps(a, c - 1)
               t == Upgrades[c]
    <3>1. s \in Seq(AllOps) /\ t \in Seq(AllOps) /\ UpgradeOps(a, c) = s \o t
      BY <2>5, <2>6, <2>7
    <3> HIDE DEF s, t, start
    <3>2. RunFrom(s \o t, start) = RunFrom(t, RunFrom(s, start))
      BY <3>1, RunTwice
    <3> QED
      BY <3>1, <3>2 DEF s, t
  <2>9. Obeys(CatalogAt(c - 1), rs)
    <3> DEFINE ops == UpgradeOps(a, c - 1)
               cat == CatalogAt(a)
               to == CatalogAt(c - 1)
    <3>1. RunFrom(ops, Db(TRUE, cat, rs)) = Db(TRUE, to, rs)
      BY <2>4
    <3>2. Db(TRUE, to, rs).ok /\ Db(TRUE, to, rs).catalog = to /\ Db(TRUE, to, rs).rows = rs
      BY DEF Db
    <3>3. ops \in Seq(AllOps) /\ Obeys(cat, rs)
      BY <2>5
    <3> HIDE DEF ops, cat, to
    <3>4. RunFrom(ops, Db(TRUE, cat, rs)).ok
      BY <3>1, <3>2
    <3>5. Obeys(RunFrom(ops, Db(TRUE, cat, rs)).catalog, RunFrom(ops, Db(TRUE, cat, rs)).rows)
      BY <3>3, <3>4, RunObeys
    <3>6. Obeys(to, rs)
      BY <3>1, <3>2, <3>5
    <3> QED
      BY <3>6 DEF to
  <2>10. RunFrom(Upgrades[c], Db(TRUE, CatalogAt(c - 1), rs)) = Db(TRUE, CatalogAt(c), rs)
    BY <2>3, <2>9, OneUp
  <2>11. RunFrom(UpgradeOps(a, c), start) = Db(TRUE, CatalogAt(c), rs)
    BY <2>4, <2>8, <2>10
  <2> QED
    BY <2>1, <2>11
<1> QED
  BY <1>1

-----------------------------------------------------------------------------
(* The inductive invariant: besides TypeOK, which catalog there is at which *)
(* revision.                                                               *)
IInv == TypeOK /\ catalog = CatalogAt(revision)

LEMMA Upgraded ==
  ASSUME IInv, NEW r \in revision..6
  PROVE  UpgradeTo(r) = Db(TRUE, CatalogAt(r), rows)
<1>1. revision \in 0..6 /\ Obeys(CatalogAt(revision), rows)
  BY Revisions DEF IInv, TypeOK, Obeys
<1>2. UpgradeTo(r) = RunFrom(UpgradeOps(revision, r), Db(TRUE, CatalogAt(revision), rows))
  BY RunIsRunFrom DEF UpgradeTo, Db, IInv
<1> QED
  BY <1>1, <1>2, SeveralUp

LEMMA Downgraded ==
  ASSUME IInv, revision > 0
  PROVE  /\ DowngradeByOne.ok => DowngradeByOne.catalog = CatalogAt(revision - 1)
         /\ ~DowngradeByOne.ok <=>
              \/ revision = 5 /\ Broken(Numbered, rows)
              \/ revision = 4 /\ \E k \in 1..7 : Broken(Optional(k), rows)
<1>1. revision \in 0..6 /\ Obeys(CatalogAt(revision), rows)
  BY Revisions DEF IInv, TypeOK, Obeys
<1>2. revision \in 1..6
  BY <1>1
<1>3. DowngradeByOne = RunFrom(Downgrades[revision], Db(TRUE, CatalogAt(revision), rows))
  BY RunIsRunFrom DEF DowngradeByOne, Db, IInv
<1> QED
  BY <1>1, <1>2, <1>3, OneDown

LEMMA IInvStep == IInv /\ [Next]_vars => IInv'
<1> SUFFICES ASSUME IInv, [Next]_vars PROVE IInv'
  OBVIOUS
<1>1. TypeOK'
  BY TypingStep DEF IInv
<1>2. revision \in 0..6 /\ LastRevision = 6 /\ catalog = CatalogAt(revision)
  BY Revisions DEF IInv, TypeOK
<1>3. ASSUME NEW r \in 1..LastRevision, Upgrade(r) PROVE catalog' = CatalogAt(revision')
  <2>1. /\ r > revision /\ catalog' = UpgradeTo(r).catalog /\ revision' = r
    BY <1>3 DEF Upgrade, Commit
  <2>2. r \in revision..6
    BY <1>2, <2>1
  <2>3. UpgradeTo(r) = Db(TRUE, CatalogAt(r), rows)
    BY <2>2, Upgraded
  <2>4. UpgradeTo(r).catalog = CatalogAt(r)
    BY <2>3 DEF Db
  <2> QED
    BY <2>1, <2>4
<1>4. ASSUME Downgrade PROVE catalog' = CatalogAt(revision')
  <2>1. /\ revision > 0 /\ DowngradeByOne.ok
        /\ catalog' = DowngradeByOne.catalog /\ revision' = revision - 1
    BY <1>4 DEF Downgrade, Commit
  <2>2. DowngradeByOne.catalog = CatalogAt(revision - 1)
    BY <2>1, Downgraded
  <2> QED
    BY <2>1, <2>2
<1>5. ASSUME NEW t \in DomainTables, Copy(t) PROVE catalog' = CatalogAt(revision')
  BY <1>2, <1>5 DEF Copy
<1>6. ASSUME Truncate PROVE catalog' = CatalogAt(revision')
  BY <1>2, <1>6 DEF Truncate
<1>7. ASSUME UNCHANGED vars PROVE catalog' = CatalogAt(revision')
  BY <1>2, <1>7 DEF vars
<1>8. catalog' = CatalogAt(revision')
  BY <1>3, <1>4, <1>5, <1>6, <1>7 DEF Next
<1> QED
  BY <1>1, <1>8 DEF IInv

LEMMA Invariance == Spec => []IInv
<1>1. Init => IInv
  <2>1. Init => catalog = CatalogAt(revision)
    BY CatalogIs DEF Init
  <2> QED
    BY <2>1, TypingInit DEF IInv
<1> QED
  BY <1>1, IInvStep, PTL DEF Spec

(* Whatever ups and downs led to a revision, its schema is the one that a  *)
(* fresh database gets: downgrade undoes what upgrade did in every alembic *)
(* revision.                                                               *)
THEOREM MigrationsReversible == Spec => []CatalogFollowsRevision
<1>1. IInv => CatalogFollowsRevision
  <2> SUFFICES ASSUME IInv PROVE CatalogFollowsRevision
    OBVIOUS
  <2>1. revision \in 0..6 /\ catalog = CatalogAt(revision)
    BY Revisions DEF IInv, TypeOK
  <2>2. Obeys(CatalogAt(0), {})
    BY CatalogIs DEF Obeys
  <2>3. RunFrom(UpgradeOps(0, revision), Db(TRUE, CatalogAt(0), {}))
          = Db(TRUE, CatalogAt(revision), {})
    <3> DEFINE none == {}
    <3>1. 0 \in 0..6 /\ revision \in 0..6 /\ Obeys(CatalogAt(0), none)
      BY <2>1, <2>2
    <3> HIDE DEF none
    <3>2. RunFrom(UpgradeOps(0, revision), Db(TRUE, CatalogAt(0), none))
            = Db(TRUE, CatalogAt(revision), none)
      BY <3>1, SeveralUp
    <3> QED
      BY <3>2 DEF none
  <2>4. Run(UpgradeOps(0, revision), {}, {}) = Db(TRUE, CatalogAt(revision), {})
    BY <2>3, CatalogIs, RunIsRunFrom DEF Db
  <2>5. Run(UpgradeOps(0, revision), {}, {}).catalog = CatalogAt(revision)
    BY <2>4 DEF Db
  <2> QED
    BY <2>1, <2>5 DEF CatalogFollowsRevision
<1> QED
  BY <1>1, Invariance, PTL

(* "alembic upgrade" to any later revision succeeds, from every revision   *)
(* and over all rows that were loaded at it.                               *)
THEOREM MigrationsUpgrade == Spec => []UpgradeAlwaysWorks
<1>1. IInv => UpgradeAlwaysWorks
  <2> SUFFICES ASSUME IInv, NEW r \in revision+1..LastRevision PROVE UpgradeTo(r).ok
    BY DEF UpgradeAlwaysWorks
  <2>1. revision \in 0..6 /\ LastRevision = 6
    BY Revisions DEF IInv, TypeOK
  <2>2. r \in revision..6
    BY <2>1
  <2>3. UpgradeTo(r) = Db(TRUE, CatalogAt(r), rows)
    BY <2>2, Upgraded
  <2> QED
    BY <2>3 DEF Db
<1> QED
  BY <1>1, Invariance, PTL

(* "alembic downgrade -1" fails at 0005 with the trailers loaded, and      *)
(* nowhere else: what would be in the way of 0004's downgrade cannot be    *)
(* loaded before 0005.                                                     *)
THEOREM MigrationsDowngrade == Spec => []DowngradeFailsOnlyOnRows
<1>1. IInv => DowngradeFailsOnlyOnRows
  <2> SUFFICES ASSUME IInv, revision > 0
               PROVE  ~DowngradeByOne.ok <=> revision = 5 /\ "trailers" \in rows
    BY DEF DowngradeFailsOnlyOnRows
  <2>1. ~DowngradeByOne.ok <=>
          \/ revision = 5 /\ Broken(Numbered, rows)
          \/ revision = 4 /\ \E k \in 1..7 : Broken(Optional(k), rows)
    BY Downgraded
  <2>2. ASSUME revision = 4 PROVE \A k \in 1..7 : ~Broken(Optional(k), rows)
    <3>1. catalog = Loosened
      BY <2>2, CatalogIs DEF IInv
    <3>2. Obeys(Loosened, rows)
      BY <3>1 DEF IInv, TypeOK, Obeys
    <3> QED
      BY <3>2, NoneBeforeTrailers
  <2> QED
    BY <2>1, <2>2, InTheWay
<1> QED
  BY <1>1, Invariance, PTL

-----------------------------------------------------------------------------
(* The ORM models against the tables that the revisions create. *)
ModelFor ==
  << Customer, Driver, Facility, Route, Trailer, Truck, User, DriverMonthlyMetrics,
     Load, MaintenanceRecord, TruckUtilizationMetrics, Trip, DeliveryEvent,
     FuelPurchase, SafetyIncident >>

LEMMA ModelsAre == \A m : m \in Models <=> \E k \in 1..15 : m = ModelFor[k]
<1>1. \A m : m \in Models <=>
        \/ m = Driver \/ m = Truck \/ m = Trailer \/ m = Customer \/ m = Facility
        \/ m = Route \/ m = Load \/ m = Trip \/ m = FuelPurchase
        \/ m = MaintenanceRecord \/ m = DeliveryEvent \/ m = SafetyIncident
        \/ m = DriverMonthlyMetrics \/ m = TruckUtilizationMetrics \/ m = User
  <2>1. DOMAIN DOMAIN_TABLES = 1..14
    BY DEF DOMAIN_TABLES
  <2>2. \A m : m \in ToSet(DOMAIN_TABLES) <=> \E i \in 1..14 : m = DOMAIN_TABLES[i]
    BY <2>1 DEF ToSet
  <2>3. \A m : (\E i \in 1..14 : m = DOMAIN_TABLES[i]) <=>
          \/ m = Driver \/ m = Truck \/ m = Trailer \/ m = Customer \/ m = Facility
          \/ m = Route \/ m = Load \/ m = Trip \/ m = FuelPurchase
          \/ m = MaintenanceRecord \/ m = DeliveryEvent \/ m = SafetyIncident
          \/ m = DriverMonthlyMetrics \/ m = TruckUtilizationMetrics
    BY DEF DOMAIN_TABLES
  <2> QED
    BY <2>2, <2>3 DEF Models
<1>2. \A m : (\E k \in 1..15 : m = ModelFor[k]) <=>
        \/ m = Driver \/ m = Truck \/ m = Trailer \/ m = Customer \/ m = Facility
        \/ m = Route \/ m = Load \/ m = Trip \/ m = FuelPurchase
        \/ m = MaintenanceRecord \/ m = DeliveryEvent \/ m = SafetyIncident
        \/ m = DriverMonthlyMetrics \/ m = TruckUtilizationMetrics \/ m = User
  BY DEF ModelFor
<1> QED
  BY <1>1, <1>2

(* What 0004 and 0005 took away. *)
MayLack(t, c) ==
  \/ t = "trips" /\ (c = "driver_id" \/ c = "truck_id" \/ c = "trailer_id")
  \/ (t = "fuel_purchases" \/ t = "safety_incidents") /\ (c = "driver_id" \/ c = "truck_id")
MayRepeat(t, u) == t = "trailers" /\ u = <<"trailer_number">>
Lost(e) == e = Numbered \/ \E k \in 1..7 : e = Optional(k)

LEMMA LostIs ==
  /\ \A t, c : Lost(Required(t, c)) <=> MayLack(t, c)
  /\ \A t, u : Lost(Unique(t, u)) <=> MayRepeat(t, u)
  /\ \A t : ~Lost(TableEntry(t))
  /\ \A t, c, p : ~Lost(ForeignKey(t, c, p))
<1>1. ASSUME NEW t, NEW c PROVE Lost(Required(t, c)) <=> MayLack(t, c)
  <2>1. Required(t, c) # Numbered
    BY Distinct DEF Numbered
  <2>2. \A u, d : Required(t, c) = Required(u, d) <=> t = u /\ c = d
    BY Distinct
  <2>3. \A k \in 1..7 : k = 1 \/ k = 2 \/ k = 3 \/ k = 4 \/ k = 5 \/ k = 6 \/ k = 7
    OBVIOUS
  <2>4. Lost(Required(t, c)) <=>
          \/ Required(t, c) = Optional(1) \/ Required(t, c) = Optional(2)
          \/ Required(t, c) = Optional(3) \/ Required(t, c) = Optional(4)
          \/ Required(t, c) = Optional(5) \/ Required(t, c) = Optional(6)
          \/ Required(t, c) = Optional(7)
    BY <2>1, <2>3 DEF Lost
  <2> QED
    BY <2>2, <2>4, OptionalIs DEF MayLack
<1>2. ASSUME NEW t, NEW u PROVE Lost(Unique(t, u)) <=> MayRepeat(t, u)
  <2>1. \A k \in 1..7 : Unique(t, u) # Optional(k)
    BY Distinct DEF Optional
  <2>2. Unique(t, u) = Numbered <=> t = "trailers" /\ u = <<"trailer_number">>
    BY Distinct DEF Numbered
  <2> QED
    BY <2>1, <2>2 DEF Lost, MayRepeat
<1>3. ASSUME NEW t PROVE ~Lost(TableEntry(t))
  BY Distinct DEF Lost, Numbered, Optional
<1>4. ASSUME NEW t, NEW c, NEW p PROVE ~Lost(ForeignKey(t, c, p))
  BY Distinct DEF Lost, Numbered, Optional
<1> QED
  BY <1>1, <1>2, <1>3, <1>4

(* What a model says against what CreateTable was given. *)
AgreesOnUnique(m, t, unique) ==
  \A u : u \in m.unique <=> u \in unique /\ ~MayRepeat(t, u)
AgreesOnRefs(m, t, refs) ==
  /\ \A q \in m.refs : /\ \E r \in refs : r[1] = q.column /\ r[2] = q.parent
                       /\ q.nullable => MayLack(t, q.column)
                       /\ ~q.nullable => ~MayLack(t, q.column)
  /\ \A r \in refs : \E q \in m.refs : r[1] = q.column /\ r[2] = q.parent
HasIndexesOf(m, t, indexes) ==
  \A i \in m.indexes :
    \/ i \in indexes
    \/ t = "trips" /\ (i = <<"dispatch_date">> \/ i = <<"driver_id", "dispatch_date">>)
Agrees(m, t, unique, refs, indexes) ==
  /\ m.table = t /\ AgreesOnUnique(m, t, unique) /\ AgreesOnRefs(m, t, refs)
  /\ HasIndexesOf(m, t, indexes)

LEMMA RootsAgree ==
  /\ Agrees(Customer, "customers", {}, {}, {})
  /\ Agrees(Driver, "drivers", {}, {}, {<<"employment_status">>})
  /\ Agrees(Facility, "facilities", {}, {}, {})
  /\ Agrees(Route, "routes", {}, {}, {})
  /\ Agrees(Trailer, "trailers", {<<"trailer_number">>, <<"vin">>}, {}, {<<"status">>})
  /\ Agrees(Truck, "trucks", {<<"unit_number">>, <<"vin">>}, {}, {<<"status">>})
  /\ Agrees(User, "users", {<<"email">>}, {}, {})
<1>0. <<"vin">> # <<"trailer_number">>
  OBVIOUS
<1> USE DEF Agrees, AgreesOnUnique, AgreesOnRefs, HasIndexesOf, MayRepeat, Model
<1>1. Agrees(Customer, "customers", {}, {}, {})
  BY DEF Customer
<1>2. Agrees(Driver, "drivers", {}, {}, {<<"employment_status">>})
  BY DEF Driver
<1>3. Agrees(Facility, "facilities", {}, {}, {})
  BY DEF Facility
<1>4. Agrees(Route, "routes", {}, {}, {})
  BY DEF Route
<1>5. Agrees(Trailer, "trailers", {<<"trailer_number">>, <<"vin">>}, {}, {<<"status">>})
  BY <1>0 DEF Trailer
<1>6. Agrees(Truck, "trucks", {<<"unit_number">>, <<"vin">>}, {}, {<<"status">>})
  BY DEF Truck
<1>7. Agrees(User, "users", {<<"email">>}, {}, {})
  BY DEF User
<1> QED
  BY <1>1, <1>2, <1>3, <1>4, <1>5, <1>6, <1>7

(* The references of a model, those that may be null apart. *)
RefsFrom(m, t, refs, keys, optional) ==
  /\ \A r : r \in refs <=> r \in keys \/ r \in optional
  /\ \A q : q \in m.refs <=> \/ \E k \in keys : q = Ref(k[1], k[2])
                           \/ \E k \in optional : q = OptRef(k[1], k[2])
  /\ \A k \in keys : ~MayLack(t, k[1])
  /\ \A k \in optional : MayLack(t, k[1])

LEMMA RefsAgree ==
  ASSUME NEW m, NEW t, NEW refs, NEW keys, NEW optional, RefsFrom(m, t, refs, keys, optional)
  PROVE  AgreesOnRefs(m, t, refs)
<1>1. \A c, p : Ref(c, p).column = c /\ Ref(c, p).parent = p /\ ~Ref(c, p).nullable
  BY DEF Ref
<1>2. \A c, p : OptRef(c, p).column = c /\ OptRef(c, p).parent = p /\ OptRef(c, p).nullable
  BY DEF OptRef
<1>3. ASSUME NEW q \in m.refs
      PROVE  /\ \E r \in refs : r[1] = q.column /\ r[2] = q.parent
             /\ q.nullable => MayLack(t, q.column)
             /\ ~q.nullable => ~MayLack(t, q.column)
  <2>1. CASE \E k \in keys : q = Ref(k[1], k[2])
    <3>1. PICK k \in keys : q = Ref(k[1], k[2])
      BY <2>1
    <3>2. q.column = k[1] /\ q.parent = k[2] /\ ~q.nullable
      BY <1>1, <3>1
    <3> QED
      BY <3>2 DEF RefsFrom
  <2>2. CASE \E k \in optional : q = OptRef(k[1], k[2])
    <3>1. PICK k \in optional : q = OptRef(k[1], k[2])
      BY <2>2
    <3>2. q.column = k[1] /\ q.parent = k[2] /\ q.nullable
      BY <1>2, <3>1
    <3> QED
      BY <3>2 DEF RefsFrom
  <2> QED
    BY <2>1, <2>2 DEF RefsFrom
<1>4. ASSUME NEW r \in refs PROVE \E q \in m.refs : r[1] = q.column /\ r[2] = q.parent
  <2>1. CASE r \in keys
    <3>1. Ref(r[1], r[2]) \in m.refs
      BY <2>1 DEF RefsFrom
    <3> QED
      BY <1>1, <3>1
  <2>2. CASE r \in optional
    <3>1. OptRef(r[1], r[2]) \in m.refs
      BY <2>2 DEF RefsFrom
    <3> QED
      BY <1>2, <3>1
  <2> QED
    BY <2>1, <2>2 DEF RefsFrom
<1> QED
  BY <1>3, <1>4 DEF AgreesOnRefs

LEMMA FirstLevelAgrees ==
  /\ Agrees(DriverMonthlyMetrics, "driver_monthly_metrics", {},
       {<<"driver_id", "drivers">>},
       {})
  /\ Agrees(Load, "loads", {},
       {<<"customer_id", "customers">>, <<"route_id", "routes">>},
       {<<"customer_id">>, <<"load_date">>, <<"load_status">>, <<"route_id">>})
  /\ Agrees(MaintenanceRecord, "maintenance_records", {},
       {<<"truck_id", "trucks">>},
       {<<"truck_id">>})
  /\ Agrees(TruckUtilizationMetrics, "truck_utilization_metrics", {},
       {<<"truck_id", "trucks">>},
       {})
<1>1. Agrees(DriverMonthlyMetrics, "driver_monthly_metrics", {},
        {<<"driver_id", "drivers">>},
        {})
  <2> DEFINE refs == {<<"driver_id", "drivers">>}
             keys == {<<"driver_id", "drivers">>}
             optional == {}
  <2>1. RefsFrom(DriverMonthlyMetrics, "driver_monthly_metrics", refs, keys, optional)
    <3>1. \A r : r \in refs <=> r \in keys \/ r \in optional
      OBVIOUS
    <3>2. \A q : q \in DriverMonthlyMetrics.refs <=>
            \/ \E k \in keys : q = Ref(k[1], k[2])
            \/ \E k \in optional : q = OptRef(k[1], k[2])
      BY DEF DriverMonthlyMetrics, Model
    <3>3. /\ \A k \in keys : ~MayLack("driver_monthly_metrics", k[1])
          /\ \A k \in optional : MayLack("driver_monthly_metrics", k[1])
      BY DEF MayLack
    <3> HIDE DEF refs, keys, optional
    <3> QED
      BY <3>1, <3>2, <3>3 DEF RefsFrom
  <2>2. /\ DriverMonthlyMetrics.table = "driver_monthly_metrics"
        /\ AgreesOnUnique(DriverMonthlyMetrics, "driver_monthly_metrics", {})
    BY DEF DriverMonthlyMetrics, Model, AgreesOnUnique, MayRepeat
  <2>3. HasIndexesOf(DriverMonthlyMetrics, "driver_monthly_metrics",
          {})
    BY DEF DriverMonthlyMetrics, Model, HasIndexesOf
  <2> HIDE DEF keys, optional, refs
  <2>4. AgreesOnRefs(DriverMonthlyMetrics, "driver_monthly_metrics", refs)
    BY <2>1, RefsAgree
  <2> QED
    BY <2>2, <2>3, <2>4 DEF Agrees, refs
<1>2. Agrees(Load, "loads", {},
        {<<"customer_id", "customers">>, <<"route_id", "routes">>},
        {<<"customer_id">>, <<"load_date">>, <<"load_status">>, <<"route_id">>})
  <2> DEFINE refs == {<<"customer_id", "customers">>, <<"route_id", "routes">>}
             keys == {<<"customer_id", "customers">>, <<"route_id", "routes">>}
             optional == {}
  <2>1. RefsFrom(Load, "loads", refs, keys, optional)
    <3>1. \A r : r \in refs <=> r \in keys \/ r \in optional
      OBVIOUS
    <3>2. \A q : q \in Load.refs <=>
            \/ \E k \in keys : q = Ref(k[1], k[2])
            \/ \E k \in optional : q = OptRef(k[1], k[2])
      BY DEF Load, Model
    <3>3. /\ \A k \in keys : ~MayLack("loads", k[1])
          /\ \A k \in optional : MayLack("loads", k[1])
      BY DEF MayLack
    <3> HIDE DEF refs, keys, optional
    <3> QED
      BY <3>1, <3>2, <3>3 DEF RefsFrom
  <2>2. /\ Load.table = "loads"
        /\ AgreesOnUnique(Load, "loads", {})
    BY DEF Load, Model, AgreesOnUnique, MayRepeat
  <2>3. HasIndexesOf(Load, "loads",
          {<<"customer_id">>, <<"load_date">>, <<"load_status">>, <<"route_id">>})
    BY DEF Load, Model, HasIndexesOf
  <2> HIDE DEF keys, optional, refs
  <2>4. AgreesOnRefs(Load, "loads", refs)
    BY <2>1, RefsAgree
  <2> QED
    BY <2>2, <2>3, <2>4 DEF Agrees, refs
<1>3. Agrees(MaintenanceRecord, "maintenance_records", {},
        {<<"truck_id", "trucks">>},
        {<<"truck_id">>})
  <2> DEFINE refs == {<<"truck_id", "trucks">>}
             keys == {<<"truck_id", "trucks">>}
             optional == {}
  <2>1. RefsFrom(MaintenanceRecord, "maintenance_records", refs, keys, optional)
    <3>1. \A r : r \in refs <=> r \in keys \/ r \in optional
      OBVIOUS
    <3>2. \A q : q \in MaintenanceRecord.refs <=>
            \/ \E k \in keys : q = Ref(k[1], k[2])
            \/ \E k \in optional : q = OptRef(k[1], k[2])
      BY DEF MaintenanceRecord, Model
    <3>3. /\ \A k \in keys : ~MayLack("maintenance_records", k[1])
          /\ \A k \in optional : MayLack("maintenance_records", k[1])
      BY DEF MayLack
    <3> HIDE DEF refs, keys, optional
    <3> QED
      BY <3>1, <3>2, <3>3 DEF RefsFrom
  <2>2. /\ MaintenanceRecord.table = "maintenance_records"
        /\ AgreesOnUnique(MaintenanceRecord, "maintenance_records", {})
    BY DEF MaintenanceRecord, Model, AgreesOnUnique, MayRepeat
  <2>3. HasIndexesOf(MaintenanceRecord, "maintenance_records",
          {<<"truck_id">>})
    BY DEF MaintenanceRecord, Model, HasIndexesOf
  <2> HIDE DEF keys, optional, refs
  <2>4. AgreesOnRefs(MaintenanceRecord, "maintenance_records", refs)
    BY <2>1, RefsAgree
  <2> QED
    BY <2>2, <2>3, <2>4 DEF Agrees, refs
<1>4. Agrees(TruckUtilizationMetrics, "truck_utilization_metrics", {},
        {<<"truck_id", "trucks">>},
        {})
  <2> DEFINE refs == {<<"truck_id", "trucks">>}
             keys == {<<"truck_id", "trucks">>}
             optional == {}
  <2>1. RefsFrom(TruckUtilizationMetrics, "truck_utilization_metrics", refs, keys, optional)
    <3>1. \A r : r \in refs <=> r \in keys \/ r \in optional
      OBVIOUS
    <3>2. \A q : q \in TruckUtilizationMetrics.refs <=>
            \/ \E k \in keys : q = Ref(k[1], k[2])
            \/ \E k \in optional : q = OptRef(k[1], k[2])
      BY DEF TruckUtilizationMetrics, Model
    <3>3. /\ \A k \in keys : ~MayLack("truck_utilization_metrics", k[1])
          /\ \A k \in optional : MayLack("truck_utilization_metrics", k[1])
      BY DEF MayLack
    <3> HIDE DEF refs, keys, optional
    <3> QED
      BY <3>1, <3>2, <3>3 DEF RefsFrom
  <2>2. /\ TruckUtilizationMetrics.table = "truck_utilization_metrics"
        /\ AgreesOnUnique(TruckUtilizationMetrics, "truck_utilization_metrics", {})
    BY DEF TruckUtilizationMetrics, Model, AgreesOnUnique, MayRepeat
  <2>3. HasIndexesOf(TruckUtilizationMetrics, "truck_utilization_metrics",
          {})
    BY DEF TruckUtilizationMetrics, Model, HasIndexesOf
  <2> HIDE DEF keys, optional, refs
  <2>4. AgreesOnRefs(TruckUtilizationMetrics, "truck_utilization_metrics", refs)
    BY <2>1, RefsAgree
  <2> QED
    BY <2>2, <2>3, <2>4 DEF Agrees, refs
<1> QED
  BY <1>1, <1>2, <1>3, <1>4

LEMMA TripsAgree ==
  /\ Agrees(Trip, "trips", {<<"load_id">>},
       {<<"driver_id", "drivers">>, <<"load_id", "loads">>,
        <<"trailer_id", "trailers">>, <<"truck_id", "trucks">>},
       {<<"driver_id">>, <<"load_id">>, <<"trailer_id">>, <<"trip_status">>,
        <<"truck_id">>})
  /\ Agrees(DeliveryEvent, "delivery_events", {},
       {<<"facility_id", "facilities">>, <<"load_id", "loads">>, <<"trip_id", "trips">>},
       {<<"event_type">>, <<"facility_id">>, <<"load_id">>, <<"trip_id">>})
  /\ Agrees(FuelPurchase, "fuel_purchases", {},
       {<<"driver_id", "drivers">>, <<"trip_id", "trips">>, <<"truck_id", "trucks">>},
       {<<"driver_id">>, <<"purchase_date">>, <<"trip_id">>, <<"truck_id">>})
  /\ Agrees(SafetyIncident, "safety_incidents", {},
       {<<"driver_id", "drivers">>, <<"trip_id", "trips">>, <<"truck_id", "trucks">>},
       {<<"driver_id">>, <<"trip_id">>, <<"truck_id">>})
<1>1. Agrees(Trip, "trips", {<<"load_id">>},
        {<<"driver_id", "drivers">>, <<"load_id", "loads">>,
         <<"trailer_id", "trailers">>, <<"truck_id", "trucks">>},
        {<<"driver_id">>, <<"load_id">>, <<"trailer_id">>, <<"trip_status">>,
         <<"truck_id">>})
  <2> DEFINE refs == {<<"driver_id", "drivers">>, <<"load_id", "loads">>,
                      <<"trailer_id", "trailers">>, <<"truck_id", "trucks">>}
             keys == {<<"load_id", "loads">>}
             optional == {<<"driver_id", "drivers">>, <<"trailer_id", "trailers">>,
                          <<"truck_id", "trucks">>}
  <2>1. RefsFrom(Trip, "trips", refs, keys, optional)
    <3>1. \A r : r \in refs <=> r \in keys \/ r \in optional
      OBVIOUS
    <3>2. \A q : q \in Trip.refs <=>
            \/ \E k \in keys : q = Ref(k[1], k[2])
            \/ \E k \in optional : q = OptRef(k[1], k[2])
      BY DEF Trip, Model
    <3>3. /\ \A k \in keys : ~MayLack("trips", k[1])
          /\ \A k \in optional : MayLack("trips", k[1])
      BY DEF MayLack
    <3> HIDE DEF refs, keys, optional
    <3> QED
      BY <3>1, <3>2, <3>3 DEF RefsFrom
  <2>2. /\ Trip.table = "trips"
        /\ AgreesOnUnique(Trip, "trips", {<<"load_id">>})
    BY DEF Trip, Model, AgreesOnUnique, MayRepeat
  <2>3. HasIndexesOf(Trip, "trips",
          {<<"driver_id">>, <<"load_id">>, <<"trailer_id">>, <<"trip_status">>,
           <<"truck_id">>})
    BY DEF Trip, Model, HasIndexesOf
  <2> HIDE DEF keys, optional, refs
  <2>4. AgreesOnRefs(Trip, "trips", refs)
    BY <2>1, RefsAgree
  <2> QED
    BY <2>2, <2>3, <2>4 DEF Agrees, refs
<1>2. Agrees(DeliveryEvent, "delivery_events", {},
        {<<"facility_id", "facilities">>, <<"load_id", "loads">>, <<"trip_id", "trips">>},
        {<<"event_type">>, <<"facility_id">>, <<"load_id">>, <<"trip_id">>})
  <2> DEFINE refs == {<<"facility_id", "facilities">>, <<"load_id", "loads">>,
                      <<"trip_id", "trips">>}
             keys == {<<"facility_id", "facilities">>, <<"load_id", "loads">>,
                      <<"trip_id", "trips">>}
             optional == {}
  <2>1. RefsFrom(DeliveryEvent, "delivery_events", refs, keys, optional)
    <3>1. \A r : r \in refs <=> r \in keys \/ r \in optional
      OBVIOUS
    <3>2. \A q : q \in DeliveryEvent.refs <=>
            \/ \E k \in keys : q = Ref(k[1], k[2])
            \/ \E k \in optional : q = OptRef(k[1], k[2])
      BY DEF DeliveryEvent, Model
    <3>3. /\ \A k \in keys : ~MayLack("delivery_events", k[1])
          /\ \A k \in optional : MayLack("delivery_events", k[1])
      BY DEF MayLack
    <3> HIDE DEF refs, keys, optional
    <3> QED
      BY <3>1, <3>2, <3>3 DEF RefsFrom
  <2>2. /\ DeliveryEvent.table = "delivery_events"
        /\ AgreesOnUnique(DeliveryEvent, "delivery_events", {})
    BY DEF DeliveryEvent, Model, AgreesOnUnique, MayRepeat
  <2>3. HasIndexesOf(DeliveryEvent, "delivery_events",
          {<<"event_type">>, <<"facility_id">>, <<"load_id">>, <<"trip_id">>})
    BY DEF DeliveryEvent, Model, HasIndexesOf
  <2> HIDE DEF keys, optional, refs
  <2>4. AgreesOnRefs(DeliveryEvent, "delivery_events", refs)
    BY <2>1, RefsAgree
  <2> QED
    BY <2>2, <2>3, <2>4 DEF Agrees, refs
<1>3. Agrees(FuelPurchase, "fuel_purchases", {},
        {<<"driver_id", "drivers">>, <<"trip_id", "trips">>, <<"truck_id", "trucks">>},
        {<<"driver_id">>, <<"purchase_date">>, <<"trip_id">>, <<"truck_id">>})
  <2> DEFINE refs == {<<"driver_id", "drivers">>, <<"trip_id", "trips">>,
                      <<"truck_id", "trucks">>}
             keys == {<<"trip_id", "trips">>}
             optional == {<<"driver_id", "drivers">>, <<"truck_id", "trucks">>}
  <2>1. RefsFrom(FuelPurchase, "fuel_purchases", refs, keys, optional)
    <3>1. \A r : r \in refs <=> r \in keys \/ r \in optional
      OBVIOUS
    <3>2. \A q : q \in FuelPurchase.refs <=>
            \/ \E k \in keys : q = Ref(k[1], k[2])
            \/ \E k \in optional : q = OptRef(k[1], k[2])
      BY DEF FuelPurchase, Model
    <3>3. /\ \A k \in keys : ~MayLack("fuel_purchases", k[1])
          /\ \A k \in optional : MayLack("fuel_purchases", k[1])
      BY DEF MayLack
    <3> HIDE DEF refs, keys, optional
    <3> QED
      BY <3>1, <3>2, <3>3 DEF RefsFrom
  <2>2. /\ FuelPurchase.table = "fuel_purchases"
        /\ AgreesOnUnique(FuelPurchase, "fuel_purchases", {})
    BY DEF FuelPurchase, Model, AgreesOnUnique, MayRepeat
  <2>3. HasIndexesOf(FuelPurchase, "fuel_purchases",
          {<<"driver_id">>, <<"purchase_date">>, <<"trip_id">>, <<"truck_id">>})
    BY DEF FuelPurchase, Model, HasIndexesOf
  <2> HIDE DEF keys, optional, refs
  <2>4. AgreesOnRefs(FuelPurchase, "fuel_purchases", refs)
    BY <2>1, RefsAgree
  <2> QED
    BY <2>2, <2>3, <2>4 DEF Agrees, refs
<1>4. Agrees(SafetyIncident, "safety_incidents", {},
        {<<"driver_id", "drivers">>, <<"trip_id", "trips">>, <<"truck_id", "trucks">>},
        {<<"driver_id">>, <<"trip_id">>, <<"truck_id">>})
  <2> DEFINE refs == {<<"driver_id", "drivers">>, <<"trip_id", "trips">>,
                      <<"truck_id", "trucks">>}
             keys == {<<"trip_id", "trips">>}
             optional == {<<"driver_id", "drivers">>, <<"truck_id", "trucks">>}
  <2>1. RefsFrom(SafetyIncident, "safety_incidents", refs, keys, optional)
    <3>1. \A r : r \in refs <=> r \in keys \/ r \in optional
      OBVIOUS
    <3>2. \A q : q \in SafetyIncident.refs <=>
            \/ \E k \in keys : q = Ref(k[1], k[2])
            \/ \E k \in optional : q = OptRef(k[1], k[2])
      BY DEF SafetyIncident, Model
    <3>3. /\ \A k \in keys : ~MayLack("safety_incidents", k[1])
          /\ \A k \in optional : MayLack("safety_incidents", k[1])
      BY DEF MayLack
    <3> HIDE DEF refs, keys, optional
    <3> QED
      BY <3>1, <3>2, <3>3 DEF RefsFrom
  <2>2. /\ SafetyIncident.table = "safety_incidents"
        /\ AgreesOnUnique(SafetyIncident, "safety_incidents", {})
    BY DEF SafetyIncident, Model, AgreesOnUnique, MayRepeat
  <2>3. HasIndexesOf(SafetyIncident, "safety_incidents",
          {<<"driver_id">>, <<"trip_id">>, <<"truck_id">>})
    BY DEF SafetyIncident, Model, HasIndexesOf
  <2> HIDE DEF keys, optional, refs
  <2>4. AgreesOnRefs(SafetyIncident, "safety_incidents", refs)
    BY <2>1, RefsAgree
  <2> QED
    BY <2>2, <2>3, <2>4 DEF Agrees, refs
<1> QED
  BY <1>1, <1>2, <1>3, <1>4


(* What a model declares, besides its indexes. *)
Declared(m) ==
  {TableEntry(m.table)}
    \cup {Unique(m.table, u) : u \in m.unique}
    \cup {ForeignKey(m.table, r.column, r.parent) : r \in m.refs}
    \cup {Required(m.table, r.column) : r \in {q \in m.refs : ~q.nullable}}

LEMMA DeclaredIs ==
  ASSUME NEW m
  PROVE  \A e : e \in Declared(m) <=>
           \/ e = TableEntry(m.table)
           \/ \E u \in m.unique : e = Unique(m.table, u)
           \/ \E q \in m.refs : \/ e = ForeignKey(m.table, q.column, q.parent)
                                \/ ~q.nullable /\ e = Required(m.table, q.column)
<1> SUFFICES ASSUME NEW e
             PROVE  e \in Declared(m) <=>
                      \/ e = TableEntry(m.table)
                      \/ \E u \in m.unique : e = Unique(m.table, u)
                      \/ \E q \in m.refs :
                           \/ e = ForeignKey(m.table, q.column, q.parent)
                           \/ ~q.nullable /\ e = Required(m.table, q.column)
  OBVIOUS
<1>1. e \in {Required(m.table, r.column) : r \in {q \in m.refs : ~q.nullable}}
        <=> \E q \in m.refs : ~q.nullable /\ e = Required(m.table, q.column)
  OBVIOUS
<1>2. e \in {ForeignKey(m.table, r.column, r.parent) : r \in m.refs}
        <=> \E q \in m.refs : e = ForeignKey(m.table, q.column, q.parent)
  OBVIOUS
<1>3. e \in {Unique(m.table, u) : u \in m.unique} <=> \E u \in m.unique : e = Unique(m.table, u)
  OBVIOUS
<1> DEFINE A == {Required(m.table, r.column) : r \in {q \in m.refs : ~q.nullable}}
           B == {ForeignKey(m.table, r.column, r.parent) : r \in m.refs}
           C == {Unique(m.table, u) : u \in m.unique}
<1>4. Declared(m) = {TableEntry(m.table)} \cup C \cup B \cup A
  BY DEF Declared
<1> HIDE DEF A, B, C
<1>5. e \in Declared(m) <=> e = TableEntry(m.table) \/ e \in C \/ e \in B \/ e \in A
  BY <1>4
<1> QED
  BY <1>1, <1>2, <1>3, <1>5 DEF A, B, C

(* A model that agrees with its table declares what is left of it at head. *)
LEMMA DeclaresTable ==
  ASSUME NEW k \in 1..15, NEW unique, NEW refs, NEW indexes,
         Creates(k, unique, refs, indexes),
         NEW m, Agrees(m, Creation[k], unique, refs, indexes)
  PROVE  \A e : e \in Declared(m) <=>
                  e \in upgrade_0001[k].adds /\ e.kind # "index" /\ ~Lost(e)
<1> DEFINE t == Creation[k]
<1> SUFFICES ASSUME NEW e
             PROVE  e \in Declared(m) <=>
                      e \in upgrade_0001[k].adds /\ e.kind # "index" /\ ~Lost(e)
  OBVIOUS
<1>1. m.table = t
  BY DEF Agrees
<1>2. \A u : u \in m.unique <=> u \in unique /\ ~MayRepeat(t, u)
  BY DEF Agrees, AgreesOnUnique
<1>3. /\ \A q \in m.refs : /\ \E r \in refs : r[1] = q.column /\ r[2] = q.parent
                           /\ q.nullable => MayLack(t, q.column)
                           /\ ~q.nullable => ~MayLack(t, q.column)
      /\ \A r \in refs : \E q \in m.refs : r[1] = q.column /\ r[2] = q.parent
  BY DEF Agrees, AgreesOnRefs
<1>4. e \in upgrade_0001[k].adds <=>
        \/ e = TableEntry(t)
        \/ \E u \in unique : e = Unique(t, u)
        \/ \E r \in refs : e = ForeignKey(t, r[1], r[2]) \/ e = Required(t, r[1])
        \/ \E i \in indexes : e = IndexOf(t, i)
  BY CreateTableAdds DEF Creates
<1>5. e \in Declared(m) <=>
        \/ e = TableEntry(t)
        \/ \E u \in m.unique : e = Unique(t, u)
        \/ \E q \in m.refs : \/ e = ForeignKey(t, q.column, q.parent)
                             \/ ~q.nullable /\ e = Required(t, q.column)
  BY <1>1, DeclaredIs
<1> HIDE DEF t
<1>6. ASSUME e \in Declared(m)
      PROVE  e \in upgrade_0001[k].adds /\ e.kind # "index" /\ ~Lost(e)
  <2>1. CASE e = TableEntry(t)
    <3>1. e.kind # "index"
      BY <2>1, Kinds
    <3> QED
      BY <1>4, <2>1, <3>1, LostIs
  <2>2. ASSUME NEW u \in m.unique, e = Unique(t, u)
        PROVE  e \in upgrade_0001[k].adds /\ e.kind # "index" /\ ~Lost(e)
    <3>1. e.kind # "index"
      BY <2>2, Kinds
    <3>2. u \in unique /\ ~MayRepeat(t, u)
      BY <1>2
    <3> QED
      BY <1>4, <2>2, <3>1, <3>2, LostIs
  <2>3. ASSUME NEW q \in m.refs, e = ForeignKey(t, q.column, q.parent)
        PROVE  e \in upgrade_0001[k].adds /\ e.kind # "index" /\ ~Lost(e)
    <3>1. e.kind # "index" /\ ~Lost(e)
      BY <2>3, Kinds, LostIs
    <3>2. \E r \in refs : e = ForeignKey(t, r[1], r[2])
      BY <1>3, <2>3
    <3> QED
      BY <1>4, <3>1, <3>2
  <2>4. ASSUME NEW q \in m.refs, ~q.nullable, e = Required(t, q.column)
        PROVE  e \in upgrade_0001[k].adds /\ e.kind # "index" /\ ~Lost(e)
    <3>1. e.kind # "index"
      BY <2>4, Kinds
    <3>2. ~Lost(e)
      BY <1>3, <2>4, LostIs
    <3>3. \E r \in refs : e = Required(t, r[1])
      BY <1>3, <2>4
    <3> QED
      BY <1>4, <3>1, <3>2, <3>3
  <2> QED
    BY <1>5, <1>6, <2>1, <2>2, <2>3, <2>4
<1>7. ASSUME e \in upgrade_0001[k].adds, e.kind # "index", ~Lost(e)
      PROVE  e \in Declared(m)
  <2>1. CASE e = TableEntry(t)
    BY <1>5, <2>1
  <2>2. ASSUME NEW u \in unique, e = Unique(t, u) PROVE e \in Declared(m)
    <3>1. u \in m.unique
      BY <1>2, <1>7, <2>2, LostIs
    <3> QED
      BY <1>5, <2>2, <3>1
  <2>3. ASSUME NEW r \in refs, e = ForeignKey(t, r[1], r[2]) PROVE e \in Declared(m)
    <3>1. \E q \in m.refs : e = ForeignKey(t, q.column, q.parent)
      BY <1>3, <2>3
    <3> QED
      BY <1>5, <3>1
  <2>4. ASSUME NEW r \in refs, e = Required(t, r[1]) PROVE e \in Declared(m)
    <3>1. PICK q \in m.refs : r[1] = q.column
      BY <1>3
    <3>2. e = Required(t, q.column)
      BY <2>4, <3>1
    <3>3. ~MayLack(t, q.column)
      BY <1>7, <3>2, LostIs
    <3>4. ~q.nullable
      BY <1>3, <3>3
    <3> QED
      BY <1>5, <3>2, <3>4
  <2>5. ~ \E i \in indexes : e = IndexOf(t, i)
    BY <1>7, Kinds
  <2> QED
    BY <1>4, <1>7, <2>1, <2>2, <2>3, <2>4, <2>5
<1> QED
  BY <1>6, <1>7

LEMMA LatestIs ==
  /\ \A e : e.kind # "index" => (e \in Latest <=> e \in Domain /\ ~Lost(e))
  /\ \A t, c : IndexOf(t, c) \in Domain => IndexOf(t, c) \in Latest
  /\ IndexOf("trips", <<"dispatch_date">>) \in Latest
  /\ IndexOf("trips", <<"driver_id", "dispatch_date">>) \in Latest
<1>1. \A t, c : ~Lost(IndexOf(t, c))
  BY Distinct DEF Lost, Numbered, Optional
<1>2. \A e : e \in Repeating <=> e \in Indexed /\ ~Lost(e)
  BY DEF Repeating, Loosened, Lost
<1>3. ASSUME NEW e, e.kind # "index" PROVE e \in Latest <=> e \in Domain /\ ~Lost(e)
  <2>1. \A t, c : e # IndexOf(t, c)
    BY <1>3, Kinds
  <2>2. e \in Indexed <=> e \in Domain
    BY <2>1 DEF Indexed
  <2>3. e \in Latest <=> e \in Repeating
    BY <2>1 DEF Latest
  <2> QED
    BY <1>2, <2>2, <2>3
<1>4. ASSUME NEW t, NEW c, IndexOf(t, c) \in Domain PROVE IndexOf(t, c) \in Latest
  BY <1>1, <1>2, <1>4 DEF Indexed, Latest
<1>5. /\ IndexOf("trips", <<"dispatch_date">>) \in Latest
      /\ IndexOf("trips", <<"driver_id", "dispatch_date">>) \in Latest
  BY DEF Latest
<1> QED
  BY <1>3, <1>4, <1>5

(* Every model's table, with its indexes. *)
LEMMA ModelsAgree ==
  \A k \in 1..15 : \E unique, refs, indexes :
    /\ Creates(k, unique, refs, indexes)
    /\ Agrees(ModelFor[k], Creation[k], unique, refs, indexes)
<1> DEFINE P(k) == \E unique, refs, indexes :
                     /\ Creates(k, unique, refs, indexes)
                     /\ Agrees(ModelFor[k], Creation[k], unique, refs, indexes)
<1>1. P(1)
  BY Roots, RootsAgree DEF ModelFor, Creation
<1>2. P(2)
  BY Roots, RootsAgree DEF ModelFor, Creation
<1>3. P(3)
  BY Roots, RootsAgree DEF ModelFor, Creation
<1>4. P(4)
  BY Roots, RootsAgree DEF ModelFor, Creation
<1>5. P(5)
  BY Roots, RootsAgree DEF ModelFor, Creation
<1>6. P(6)
  BY Roots, RootsAgree DEF ModelFor, Creation
<1>7. P(7)
  BY Roots, RootsAgree DEF ModelFor, Creation
<1>8. P(8)
  BY FirstLevel, FirstLevelAgrees DEF ModelFor, Creation
<1>9. P(9)
  BY FirstLevel, FirstLevelAgrees DEF ModelFor, Creation
<1>10. P(10)
  BY FirstLevel, FirstLevelAgrees DEF ModelFor, Creation
<1>11. P(11)
  BY FirstLevel, FirstLevelAgrees DEF ModelFor, Creation
<1>12. P(12)
  BY Trips, TripsAgree DEF ModelFor, Creation
<1>13. P(13)
  BY Trips, TripsAgree DEF ModelFor, Creation
<1>14. P(14)
  BY Trips, TripsAgree DEF ModelFor, Creation
<1>15. P(15)
  BY Trips, TripsAgree DEF ModelFor, Creation
<1> HIDE DEF P
<1>16. \A k \in 1..15 : P(k)
  BY <1>1, <1>2, <1>3, <1>4, <1>5, <1>6, <1>7, <1>8, <1>9, <1>10, <1>11, <1>12, <1>13,
     <1>14, <1>15
<1> QED
  BY <1>16 DEF P

LEMMA ModelIndexes ==
  ASSUME NEW k \in 1..15, NEW i \in ModelFor[k].indexes
  PROVE  IndexOf(ModelFor[k].table, i) \in Latest
<1> DEFINE m == ModelFor[k]
           t == Creation[k]
<1>1. PICK unique, refs, indexes :
        Creates(k, unique, refs, indexes) /\ Agrees(m, t, unique, refs, indexes)
  BY ModelsAgree
<1>2. m.table = t
  BY <1>1 DEF Agrees
<1>3. \/ i \in indexes
      \/ t = "trips" /\ (i = <<"dispatch_date">> \/ i = <<"driver_id", "dispatch_date">>)
  BY <1>1 DEF Agrees, HasIndexesOf
<1>4. CASE i \in indexes
  <2>1. IndexOf(t, i) \in CreateTable(t, unique, refs, indexes).adds
    BY <1>4, CreateTableAdds
  <2>2. IndexOf(t, i) \in upgrade_0001[k].adds
    BY <1>1, <2>1 DEF Creates
  <2> QED
    BY <1>2, <2>2, InDomain, LatestIs
<1>5. CASE t = "trips" /\ (i = <<"dispatch_date">> \/ i = <<"driver_id", "dispatch_date">>)
  <2>1. m.table = "trips"
    BY <1>2, <1>5
  <2> HIDE DEF m, t
  <2>2. CASE i = <<"dispatch_date">>
    <3>1. IndexOf(m.table, i) = IndexOf("trips", <<"dispatch_date">>)
      BY <2>1, <2>2
    <3> QED
      BY <3>1, LatestIs DEF m
  <2>3. CASE i = <<"driver_id", "dispatch_date">>
    <3>1. IndexOf(m.table, i) = IndexOf("trips", <<"driver_id", "dispatch_date">>)
      BY <2>1, <2>3
    <3> QED
      BY <3>1, LatestIs DEF m
  <2> QED
    BY <1>5, <2>2, <2>3
<1> QED
  BY <1>3, <1>4, <1>5

LEMMA ModelEntries ==
  \A e : e \in Latest /\ e.kind # "index" <=> \E m \in Models : e \in Declared(m)
<1> SUFFICES ASSUME NEW e
             PROVE  e \in Latest /\ e.kind # "index" <=> \E m \in Models : e \in Declared(m)
  OBVIOUS
<1>1. ASSUME NEW k \in 1..15
      PROVE  e \in Declared(ModelFor[k]) <=>
               e \in upgrade_0001[k].adds /\ e.kind # "index" /\ ~Lost(e)
  <2>1. PICK unique, refs, indexes :
          /\ Creates(k, unique, refs, indexes)
          /\ Agrees(ModelFor[k], Creation[k], unique, refs, indexes)
    BY ModelsAgree
  <2> QED
    BY <2>1, DeclaresTable
<1>2. (\E m \in Models : e \in Declared(m)) <=> \E k \in 1..15 : e \in Declared(ModelFor[k])
  BY ModelsAre
<1>3. e.kind # "index" => (e \in Latest <=> e \in Domain /\ ~Lost(e))
  BY LatestIs
<1>4. e \in Domain <=> \E k \in 1..15 : e \in upgrade_0001[k].adds
  BY InDomain
<1> QED
  BY <1>1, <1>2, <1>3, <1>4

(* At head, whatever led there, the schema that the revisions build up is  *)
(* the one that the ORM models declare.                                    *)
THEOREM MigrationsModels == Spec => []HeadMatchesModels
<1>1. IInv => HeadMatchesModels
  <2> SUFFICES ASSUME IInv, revision = LastRevision PROVE HeadMatchesModels
    BY DEF HeadMatchesModels
  <2>1. catalog = Latest
    BY Revisions, CatalogIs DEF IInv
  <2>2. {e \in catalog : e.kind # "index"} = UNION {Declared(m) : m \in Models}
    BY <2>1, ModelEntries
  <2>3. ASSUME NEW m \in Models, NEW i \in m.indexes PROVE IndexOf(m.table, i) \in catalog
    <3>1. PICK k \in 1..15 : m = ModelFor[k]
      BY ModelsAre
    <3> QED
      BY <2>1, <3>1, ModelIndexes
  <2> QED
    BY <2>2, <2>3 DEF HeadMatchesModels, Declared
<1> QED
  BY <1>1, Invariance, PTL
=============================================================================
