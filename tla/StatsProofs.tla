----------------------------- MODULE StatsProofs ----------------------------
(***************************************************************************)
(* What GET /dashboard/stats can be relied on for, for any number of       *)
(* workers, processes, routes, failures and deaths.                        *)
(***************************************************************************)
EXTENDS Stats, FiniteSetTheorems, WellFoundedInduction, TLAPS

(* A slot without a process is in the middle of nothing. *)
EmptySlots ==
  \A w \in Workers : pid[w] = NoPid => stage[w] = "idle" /\ counts[w] = Zero

(* The pids of live workers were handed out by this container. *)
PidsUsed == \A w \in Workers : pid[w] # NoPid => pid[w] \in used

(* Only a reader has files left to read. *)
TodoOfReaders == \A w \in Workers : todo[w] # {} => stage[w] = "reading"

TypeInv == TypeOK /\ EmptySlots /\ PidsUsed /\ TodoOfReaders

(* Ends of processes leave the variables they touch well typed. *)
LEMMA EndTypes ==
  ASSUME TypeInv, NEW W \in SUBSET Workers, End(W)
  PROVE  /\ pid' \in [Workers -> Pids \cup {NoPid}]
         /\ counts' \in [Workers -> Counts]
         /\ stage' \in [Workers -> {"idle", "counted", "written", "reading"}]
         /\ tmp' \in [Workers -> Counts]
         /\ todo' \in [Workers -> SUBSET Pids]
         /\ got' \in [Workers -> [Pids -> Counts]]
         /\ floor' \in [Workers -> [Pids -> Counts]]
         /\ \A w \in Workers : w \in W => pid'[w] = NoPid /\ stage'[w] = "idle"
                                          /\ counts'[w] = Zero /\ todo'[w] = {}
         /\ \A w \in Workers : w \notin W => pid'[w] = pid[w] /\ stage'[w] = stage[w]
                                             /\ counts'[w] = counts[w]
                                             /\ todo'[w] = todo[w]
<1>1. Zero \in Counts /\ NoFiles \in [Pids -> Counts]
  BY DEF Zero, Counts, NoFiles
<1>2. stage' \in [Workers -> {"idle", "counted", "written", "reading"}]
  BY DEF TypeInv, TypeOK, End
<1> QED
  BY <1>1, <1>2 DEF TypeInv, TypeOK, End

(* The types are inductive together with what slots and pids have in       *)
(* common.                                                                 *)
LEMMA TypesInductive == TypeInv /\ [Next]_vars => TypeInv'
<1> SUFFICES ASSUME TypeInv, [Next]_vars PROVE TypeInv'
  OBVIOUS
<1> USE StatsAssumption DEF TypeInv, TypeOK, EmptySlots, PidsUsed, TodoOfReaders
<1>0. Zero \in Counts /\ NoFiles \in [Pids -> Counts]
  BY DEF Zero, Counts, NoFiles
<1>1. ASSUME NEW w \in Workers, Spawn(w) PROVE TypeInv'
  BY <1>1 DEF Spawn
<1>2. ASSUME NEW w \in Workers, NEW k \in Keys, Increment(w, k) PROVE TypeInv'
  <2>1. counts' \in [Workers -> Counts] /\ handled' \in Counts
    BY <1>2 DEF Increment, Counts
  <2>2. \A v \in Workers : v # w => counts'[v] = counts[v] /\ stage'[v] = stage[v]
    BY <1>2 DEF Increment
  <2> QED
    BY <1>2, <2>1, <2>2 DEF Increment, Free
<1>3. ASSUME NEW w \in Workers, WriteTmp(w) PROVE TypeInv'
  BY <1>3 DEF WriteTmp
<1>4. ASSUME NEW w \in Workers, Replace(w) PROVE TypeInv'
  BY <1>4, <1>0 DEF Replace
<1>5. ASSUME NEW w \in Workers, PersistFails(w) PROVE TypeInv'
  BY <1>5, <1>0 DEF PersistFails, AfterFailure
<1>6. ASSUME NEW w \in Workers, Glob(w) PROVE TypeInv'
  BY <1>6, <1>0 DEF Glob, Free
<1>7. ASSUME NEW w \in Workers, ReadFile(w) PROVE TypeInv'
  <2> PICK p \in todo[w] : got' = [got EXCEPT ![w][p] = files[p]]
                           /\ todo' = [todo EXCEPT ![w] = @ \ {p}]
    BY <1>7 DEF ReadFile
  <2>1. p \in Pids
    OBVIOUS
  <2>2. got' \in [Workers -> [Pids -> Counts]]
    BY <2>1
  <2> QED
    BY <1>7, <2>2 DEF ReadFile
<1>8. ASSUME NEW w \in Workers, Answer(w) PROVE TypeInv'
  BY <1>8, <1>0 DEF Answer, Answering
<1>9. ASSUME NEW w \in Workers, Die(w) PROVE TypeInv'
  <2>1. End({w}) /\ {w} \in SUBSET Workers
    BY <1>9 DEF Die
  <2>2. deaths' \in 0..MaxDeaths
    BY <1>9 DEF Die
  <2> QED
    <3>1. UNCHANGED <<files, used, handled, failures, restarts>>
      BY <1>9 DEF Die
    <3>2. TypeOK'
      BY <2>1, <2>2, <3>1, EndTypes
    <3>3. \A v \in Workers :
            IF v = w THEN pid'[v] = NoPid /\ stage'[v] = "idle" /\ counts'[v] = Zero
                          /\ todo'[v] = {}
                     ELSE pid'[v] = pid[v] /\ stage'[v] = stage[v]
                          /\ counts'[v] = counts[v] /\ todo'[v] = todo[v]
      BY <2>1, EndTypes
    <3> QED
      BY <3>1, <3>2, <3>3
<1>10. CASE Restart
  <2>1. End(Workers) /\ Workers \in SUBSET Workers
    BY <1>10 DEF Restart
  <2>2. deaths' \in 0..MaxDeaths /\ failures' \in 0..MaxFailures
        /\ restarts' \in 0..MaxRestarts
    BY <1>10 DEF Restart
  <2> QED
    BY <1>0, <1>10, <2>1, <2>2, EndTypes DEF Restart
<1>11. CASE UNCHANGED vars
  BY <1>11 DEF vars
<1> QED
  BY <1>1, <1>2, <1>3, <1>4, <1>5, <1>6, <1>7, <1>8, <1>9, <1>10, <1>11 DEF Next

(* The invariant holds at the beginning. *)
LEMMA TypesInit == Init => TypeInv
  BY StatsAssumption
  DEF Init, TypeInv, TypeOK, EmptySlots, PidsUsed, TodoOfReaders, Zero, Counts, NoFiles

(* And so it always does. *)
LEMMA TypesInvariant == Spec => []TypeInv
  BY TypesInit, TypesInductive, PTL DEF Spec

(* Every variable stays in its domain and no two workers write one file,   *)
(* whatever dies and restarts.                                             *)
THEOREM StatsTyping == Spec => []TypeOK
  BY TypesInvariant, PTL DEF TypeInv

-----------------------------------------------------------------------------
(* Until the container restarts, a file never runs ahead of the worker     *)
(* that writes it, and pids without a worker so far have no file.          *)
FilesFollow ==
  /\ \A w \in Workers : pid[w] # NoPid => AtMost(files[pid[w]], counts[w])
  /\ \A w \in Workers : stage[w] = "written" => tmp[w] = counts[w]
  /\ \A p \in Pids \ used : files[p] = Zero

(* A reader in the middle of its files: what it has read is not ahead of   *)
(* the file and not behind what the file was at the glob; what it has not  *)
(* read has not fallen behind that.                                        *)
ReaderOK(w) ==
  IF stage[w] = "reading"
  THEN \A p \in Pids :
         IF p \in todo[w]
         THEN AtMost(floor[w][p], files[p])
         ELSE AtMost(floor[w][p], got[w][p]) /\ AtMost(got[w][p], files[p])
  ELSE got[w] = NoFiles

ReaderInv == \A w \in Workers : ReaderOK(w)

FirstLifeInv == TypeInv /\ FilesFollow /\ ReaderInv

BetweenInv == TypeInv /\ (restarts = 0 => FilesFollow /\ ReaderInv)

(* The order of counts. *)
LEMMA AtMostOrder ==
  /\ \A f \in Counts : AtMost(f, f) /\ AtMost(Zero, f)
  /\ \A f, g, h \in Counts : AtMost(f, g) /\ AtMost(g, h) => AtMost(f, h)
  /\ Zero \in Counts /\ NoFiles \in [Pids -> Counts]
  BY DEF AtMost, Counts, Zero, NoFiles

(* Without a restart files only grow, and keep following their writers.    *)
LEMMA FilesGrow ==
  ASSUME restarts' = 0, FirstLifeInv, Next
  PROVE  FilesFollow' /\ \A p \in Pids : AtMost(files[p], files'[p])
<1> USE StatsAssumption, AtMostOrder
    DEF FirstLifeInv, TypeInv, TypeOK, EmptySlots, PidsUsed, FilesFollow
<1>0. \A p \in Pids : AtMost(files[p], files[p])
  OBVIOUS
<1>1. ASSUME NEW w \in Workers, Spawn(w)
      PROVE  FilesFollow' /\ UNCHANGED files
  BY <1>1 DEF Spawn
<1>2. ASSUME NEW w \in Workers, NEW k \in Keys, Increment(w, k)
      PROVE  FilesFollow' /\ UNCHANGED files
  <2>1. \A v \in Workers : v # w => counts'[v] = counts[v] /\ stage'[v] = stage[v]
    BY <1>2 DEF Increment
  <2>2. counts'[w] \in Counts /\ AtMost(counts[w], counts'[w])
    BY <1>2 DEF Increment, AtMost, Counts
  <2>3. pid[w] \in Pids /\ AtMost(files[pid[w]], counts'[w])
    BY <1>2, <2>2 DEF Increment, Free
  <2> QED
    BY <1>2, <2>1, <2>3 DEF Increment
<1>3. ASSUME NEW w \in Workers, WriteTmp(w)
      PROVE  FilesFollow' /\ UNCHANGED files
  BY <1>3 DEF WriteTmp
<1>4. ASSUME NEW w \in Workers, Replace(w)
      PROVE  FilesFollow' /\ \A p \in Pids : AtMost(files[p], files'[p])
  <2>1. pid[w] \in Pids /\ pid[w] \in used
    BY <1>4 DEF Replace
  <2>2. files' = [files EXCEPT ![pid[w]] = counts[w]]
    BY <1>4 DEF Replace
  <2> QED
    BY <1>4, <2>1, <2>2 DEF Replace
<1>5. ASSUME NEW w \in Workers, PersistFails(w)
      PROVE  FilesFollow' /\ UNCHANGED files
  BY <1>5 DEF PersistFails, AfterFailure
<1>6. ASSUME NEW w \in Workers, Glob(w) \/ ReadFile(w) \/ Answer(w)
      PROVE  FilesFollow' /\ UNCHANGED files
  BY <1>6 DEF Glob, ReadFile, Answer
<1>7. ASSUME NEW w \in Workers, Die(w)
      PROVE  FilesFollow' /\ UNCHANGED files
  BY <1>7 DEF Die, End
<1>8. ~Restart
  BY StatsAssumption DEF Restart, TypeOK
<1> QED
  BY <1>0, <1>1, <1>2, <1>3, <1>4, <1>5, <1>6, <1>7, <1>8 DEF Next

(* Nor do readers lose track of them. *)
LEMMA ReadersFollow ==
  ASSUME restarts' = 0, FirstLifeInv, Next
  PROVE  ReaderInv'
<1> USE StatsAssumption, AtMostOrder
    DEF FirstLifeInv, TypeInv, TypeOK, TodoOfReaders, FilesFollow
<1>1. /\ \A p \in Pids : AtMost(files[p], files'[p])
      /\ files' \in [Pids -> Counts]
  BY FilesGrow, TypesInductive
<1>2. ASSUME NEW v \in Workers, stage'[v] = stage[v],
             UNCHANGED <<todo[v], got[v], floor[v]>>
      PROVE  ReaderOK(v)'
  <2>1. ASSUME stage[v] = "reading", NEW p \in Pids
        PROVE  IF p \in todo[v]
               THEN AtMost(floor[v][p], files'[p])
               ELSE AtMost(floor[v][p], got[v][p]) /\ AtMost(got[v][p], files'[p])
    <3>1. /\ floor[v][p] \in Counts /\ got[v][p] \in Counts
          /\ files[p] \in Counts /\ files'[p] \in Counts
      BY <1>1
    <3> QED
      BY <1>1, <2>1, <3>1 DEF ReaderInv, ReaderOK
  <2> QED
    BY <1>2, <2>1 DEF ReaderInv, ReaderOK
<1>3. ASSUME NEW v \in Workers, stage'[v] # "reading", got'[v] = NoFiles
      PROVE  ReaderOK(v)'
  BY <1>3 DEF ReaderOK
<1>4. ASSUME NEW w \in Workers,
             \/ Spawn(w) \/ WriteTmp(w) \/ Replace(w) \/ PersistFails(w)
             \/ \E k \in Keys : Increment(w, k)
      PROVE  ReaderInv'
  <2>1. UNCHANGED <<todo, got, floor>>
    BY <1>4 DEF Spawn, Increment, WriteTmp, Replace, PersistFails
  <2>2. \A v \in Workers : stage'[v] = stage[v]
                           \/ "reading" \notin {stage[v], stage'[v]}
    BY <1>4 DEF Spawn, Increment, Free, WriteTmp, Replace, PersistFails
  <2> QED
    BY <1>2, <1>3, <2>1, <2>2 DEF ReaderInv, ReaderOK
<1>5. ASSUME NEW w \in Workers, Glob(w) PROVE ReaderInv'
  <2>1. ReaderOK(w)'
    <3>1. /\ stage'[w] = "reading" /\ files' = files /\ floor'[w] = files
          /\ todo'[w] = {p \in Pids : files[p] # Zero} /\ got'[w] = NoFiles
      BY <1>5 DEF Glob, Free, ReaderInv, ReaderOK
    <3> QED
      BY <3>1 DEF ReaderOK, NoFiles
  <2>2. ASSUME NEW v \in Workers, v # w PROVE ReaderOK(v)'
    BY <1>2, <1>5, <2>2 DEF Glob
  <2> QED
    BY <2>1, <2>2 DEF ReaderInv
<1>6. ASSUME NEW w \in Workers, ReadFile(w) PROVE ReaderInv'
  <2> PICK p \in todo[w] : got' = [got EXCEPT ![w][p] = files[p]]
                           /\ todo' = [todo EXCEPT ![w] = @ \ {p}]
    BY <1>6 DEF ReadFile
  <2>1. p \in Pids /\ UNCHANGED <<stage, files, floor>>
    BY <1>6 DEF ReadFile
  <2>2. ASSUME stage[w] = "reading" PROVE ReaderOK(w)'
    <3>1. \A q \in Pids : got'[w][q] = IF q = p THEN files[p] ELSE got[w][q]
      BY <2>1
    <3>2. todo'[w] = todo[w] \ {p}
      OBVIOUS
    <3>3. ReaderOK(w)
      BY DEF ReaderInv
    <3>4. ASSUME NEW q \in Pids
          PROVE  IF q \in todo'[w]
                 THEN AtMost(floor[w][q], files[q])
                 ELSE AtMost(floor[w][q], got'[w][q]) /\ AtMost(got'[w][q], files[q])
      <4>1. CASE q = p
        BY <2>2, <3>1, <3>2, <3>3, <4>1 DEF ReaderOK
      <4>2. CASE q # p
        BY <2>2, <3>1, <3>2, <3>3, <4>2 DEF ReaderOK
      <4> QED
        BY <4>1, <4>2
    <3> QED
      BY <2>1, <2>2, <3>4 DEF ReaderOK
  <2>3. ASSUME NEW v \in Workers, v # w PROVE ReaderOK(v)'
    BY <1>2, <2>1, <2>3
  <2>4. stage[w] = "reading"
    BY DEF TodoOfReaders
  <2> QED
    BY <2>2, <2>3, <2>4 DEF ReaderInv
<1>7. ASSUME NEW w \in Workers, Answer(w) PROVE ReaderInv'
  <2>1. ReaderOK(w)'
    BY <1>3, <1>7 DEF Answer
  <2>2. ASSUME NEW v \in Workers, v # w PROVE ReaderOK(v)'
    BY <1>2, <1>7, <2>2 DEF Answer
  <2> QED
    BY <2>1, <2>2 DEF ReaderInv
<1>8. ASSUME NEW w \in Workers, Die(w) PROVE ReaderInv'
  <2>1. ReaderOK(w)'
    BY <1>3, <1>8 DEF Die, End
  <2>2. ASSUME NEW v \in Workers, v # w PROVE ReaderOK(v)'
    BY <1>2, <1>8, <2>2 DEF Die, End
  <2> QED
    BY <2>1, <2>2 DEF ReaderInv
<1>9. ~Restart
  BY StatsAssumption DEF Restart, TypeOK
<1> QED
  BY <1>4, <1>5, <1>6, <1>7, <1>8, <1>9 DEF Next

(* A first life is a first life from its start.                            *)
LEMMA FirstLifeSoFar ==
  ASSUME TypeInv, Next, restarts' = 0
  PROVE  restarts = 0
<1> SUFFICES UNCHANGED restarts
  OBVIOUS
<1>1. ASSUME NEW w \in Workers,
             \/ Spawn(w) \/ WriteTmp(w) \/ Replace(w) \/ PersistFails(w)
             \/ Glob(w) \/ ReadFile(w) \/ Answer(w) \/ Die(w)
             \/ \E k \in Keys : Increment(w, k)
      PROVE  UNCHANGED restarts
  BY <1>1 DEF Spawn, WriteTmp, Replace, PersistFails, Glob, ReadFile, Answer, Die,
              Increment
<1>2. ~Restart
  BY StatsAssumption DEF Restart, TypeInv, TypeOK
<1> QED
  BY <1>1, <1>2 DEF Next

LEMMA BetweenInit == Init => BetweenInv
  BY TypesInit DEF Init, BetweenInv, FilesFollow, ReaderInv, ReaderOK,
                   TodoOfReaders, NoFiles

LEMMA BetweenStep == BetweenInv /\ [Next]_vars => BetweenInv'
<1>1. ASSUME BetweenInv, UNCHANGED vars PROVE BetweenInv'
  BY <1>1 DEF vars, BetweenInv, TypeInv, TypeOK, EmptySlots, PidsUsed,
              TodoOfReaders, FilesFollow, ReaderInv, ReaderOK
<1>2. ASSUME BetweenInv, Next PROVE BetweenInv'
  <2>1. TypeInv'
    BY <1>2, TypesInductive DEF BetweenInv
  <2>2. ASSUME restarts' = 0 PROVE FilesFollow' /\ ReaderInv'
    <3>1. FirstLifeInv
      BY <1>2, <2>2, FirstLifeSoFar DEF BetweenInv, FirstLifeInv
    <3> QED
      BY <1>2, <2>2, <3>1, FilesGrow, ReadersFollow
  <2> QED
    BY <2>1, <2>2 DEF BetweenInv
<1> QED
  BY <1>1, <1>2

(* Until docker restarts its container, every answer of                    *)
(* GET /dashboard/stats is, file by file, between what was published when  *)
(* the read began and what is published when it is given.                  *)
THEOREM AnswersAreBetween == Spec => []AnswerIsBetween
<1>1. BetweenInv => AnswerIsBetween
  BY DEF BetweenInv, ReaderInv, ReaderOK, AnswerIsBetween, Answering
<1> QED
  BY <1>1, BetweenInit, BetweenStep, PTL DEF Spec

-----------------------------------------------------------------------------
(* Sums over finite sets.  SumFunctionOnSet picks the members in an order  *)
(* of its own; that no order matters follows by looking at a smallest set  *)
(* for which it would.                                                     *)

(* Every set of subsets of a finite set has a member that is smallest.     *)
LEMMA SmallestSubset ==
  ASSUME NEW K, IsFiniteSet(K), NEW C \in SUBSET (SUBSET K), C # {}
  PROVE  \E S \in C : \A T \in C : T \subseteq S => T = S
  <1>1. IsWellFoundedOn(StrictSubsetOrdering(K), FiniteSubsetsOf(K))
    BY FS_StrictSubsetOrderingWellFounded
  <1>2. C \subseteq FiniteSubsetsOf(K)
    BY FS_Subset DEF FiniteSubsetsOf
  <1>3. \E S \in C : \A T \in C : <<T, S>> \notin StrictSubsetOrdering(K)
    BY <1>1, <1>2, WFMin
  <1> QED
    BY <1>3 DEF StrictSubsetOrdering

(* The partial sums of f over the subsets of S, as the fold computes them. *)
Pick(s) == CHOOSE x \in s : TRUE

PartialSums(f, S, g) ==
  g = [s \in SUBSET S |-> IF s = {} THEN 0 ELSE f[Pick(s)] + g[s \ {Pick(s)}]]

LEMMA SumIsPartial ==
  ASSUME NEW f, NEW S
  PROVE  SumFunctionOnSet(f, S) = (CHOOSE g : PartialSums(f, S, g))[S]
  BY DEF SumFunctionOnSet, FoldFunctionOnSet, MapThenFoldSet, PartialSums, Pick

LEMMA PickIn == ASSUME NEW s, s # {} PROVE Pick(s) \in s
  BY DEF Pick

(* They are unique, ... *)
LEMMA PartialSumsAgree ==
  ASSUME NEW K, IsFiniteSet(K), NEW f,
         NEW S \in SUBSET K, NEW T \in SUBSET K, NEW g, NEW h,
         PartialSums(f, S, g), PartialSums(f, T, h)
  PROVE  \A s \in SUBSET (S \cap T) : g[s] = h[s]
  <1> DEFINE C == {s \in SUBSET (S \cap T) : g[s] # h[s]}
  <1> SUFFICES ASSUME C # {}  PROVE FALSE
    OBVIOUS
  <1>1. PICK s \in C : \A t \in C : t \subseteq s => t = s
    <2>1. C \in SUBSET (SUBSET K)
      OBVIOUS
    <2> HIDE DEF C
    <2> QED
      BY <2>1, SmallestSubset
  <1>2. /\ s \in SUBSET S /\ s \in SUBSET T
        /\ g[s] = IF s = {} THEN 0 ELSE f[Pick(s)] + g[s \ {Pick(s)}]
        /\ h[s] = IF s = {} THEN 0 ELSE f[Pick(s)] + h[s \ {Pick(s)}]
    BY <1>1 DEF PartialSums
  <1>3. s # {} /\ Pick(s) \in s
    BY <1>1, <1>2, PickIn
  <1>4. s \ {Pick(s)} \notin C
    BY <1>1, <1>3
  <1> QED
    BY <1>1, <1>2, <1>3, <1>4

(* ... and they exist. *)
LEMMA PartialSumsExist ==
  ASSUME NEW K, IsFiniteSet(K), NEW f \in [K -> Nat]
  PROVE  \A S \in SUBSET K : \E g \in [SUBSET S -> Nat] : PartialSums(f, S, g)
  <1> DEFINE C == {S \in SUBSET K : ~ \E g \in [SUBSET S -> Nat] : PartialSums(f, S, g)}
  <1> SUFFICES ASSUME C # {}  PROVE FALSE
    OBVIOUS
  <1>1. PICK S \in C : \A T \in C : T \subseteq S => T = S
    <2>1. C \in SUBSET (SUBSET K)
      OBVIOUS
    <2> HIDE DEF C
    <2> QED
      BY <2>1, SmallestSubset
  <1>2. S \in SUBSET K /\ \A T \in SUBSET S : T # S =>
          \E g \in [SUBSET T -> Nat] : PartialSums(f, T, g)
    BY <1>1
  <1> DEFINE G(T) == CHOOSE g : g \in [SUBSET T -> Nat] /\ PartialSums(f, T, g)
             R == S \ {Pick(S)}
             g == [s \in SUBSET S |-> IF s = {} THEN 0
                                      ELSE IF s = S THEN f[Pick(S)] + G(R)[R]
                                      ELSE G(s)[s]]
  <1>3. ASSUME NEW T \in SUBSET S, T # S
        PROVE  G(T) \in [SUBSET T -> Nat] /\ PartialSums(f, T, G(T))
    BY <1>2, <1>3
  <1>4. S # {} => Pick(S) \in S /\ R # S /\ R \in SUBSET S
    BY PickIn
  <1> HIDE DEF G
  <1>5. g \in [SUBSET S -> Nat]
    <2> SUFFICES ASSUME NEW s \in SUBSET S  PROVE g[s] \in Nat
      OBVIOUS
    <2>1. CASE s = {}
      BY <2>1
    <2>2. CASE s # {} /\ s # S
      BY <1>3, <2>2
    <2>3. CASE s # {} /\ s = S
      <3>1. G(R)[R] \in Nat
        <4>1. R \in SUBSET S /\ R # S
          BY <1>4, <2>3
        <4> HIDE DEF R
        <4>2. G(R) \in [SUBSET R -> Nat]
          BY <1>3, <4>1
        <4> QED
          BY <4>2
      <3>2. f[Pick(S)] \in Nat
        BY <1>2, <1>4, <2>3
      <3> QED
        BY <2>3, <3>1, <3>2
    <2> QED
      BY <2>1, <2>2, <2>3
  <1>6. ASSUME NEW s \in SUBSET S, s # {}
        PROVE  g[s] = f[Pick(s)] + g[s \ {Pick(s)}]
    <2> DEFINE t == s \ {Pick(s)}
    <2>1. Pick(s) \in s /\ t \in SUBSET s /\ t # s /\ t # S /\ t \in SUBSET S
      BY <1>6, PickIn
    <2>2. g[t] = G(t)[t]
      <3>1. CASE t = {}
        <4>1. PartialSums(f, t, G(t))
          BY <1>3, <2>1
        <4> QED
          BY <2>1, <3>1, <4>1 DEF PartialSums
      <3>2. CASE t # {}
        BY <2>1, <3>2
      <3> QED
        BY <3>1, <3>2
    <2>3. CASE s = S
      BY <1>6, <2>2, <2>3
    <2>4. CASE s # S
      <3>1. PartialSums(f, s, G(s)) /\ PartialSums(f, t, G(t))
        BY <1>3, <2>1, <2>4
      <3>2. G(s)[s] = f[Pick(s)] + G(s)[t]
        BY <1>6, <2>1, <3>1 DEF PartialSums
      <3>3. G(s)[t] = G(t)[t]
        <4>1. /\ s \in SUBSET K /\ t \in SUBSET K /\ t \in SUBSET (s \cap t)
          BY <1>2, <2>1
        <4> HIDE DEF t
        <4> QED
          BY <3>1, <4>1, PartialSumsAgree
      <3> QED
        BY <1>6, <2>2, <2>4, <3>2, <3>3
    <2> QED
      BY <2>3, <2>4
  <1>7. PartialSums(f, S, g)
    <2>1. g[{}] = 0
      OBVIOUS
    <2>2. g = [s \in SUBSET S |-> g[s]]
      OBVIOUS
    <2> HIDE DEF g
    <2> QED
      BY <1>6, <2>1, <2>2 DEF PartialSums
  <1> QED
    BY <1>1, <1>5, <1>7

(* So the sum of f over a set is f of one member and the sum over the rest.*)
LEMMA SumStep ==
  ASSUME NEW K, IsFiniteSet(K), NEW f \in [K -> Nat], NEW S \in SUBSET K
  PROVE  /\ SumFunctionOnSet(f, S) \in Nat
         /\ S = {} => SumFunctionOnSet(f, S) = 0
         /\ S # {} => SumFunctionOnSet(f, S)
                        = f[Pick(S)] + SumFunctionOnSet(f, S \ {Pick(S)})
  <1> DEFINE G(T) == CHOOSE g : PartialSums(f, T, g)
  <1>1. ASSUME NEW T \in SUBSET S
        PROVE  /\ PartialSums(f, T, G(T))
               /\ SumFunctionOnSet(f, T) = G(T)[T]
    BY PartialSumsExist, SumIsPartial
  <1>2. PICK g \in [SUBSET S -> Nat] : PartialSums(f, S, g)
    BY PartialSumsExist
  <1> HIDE DEF G
  <1>3. ASSUME NEW T \in SUBSET S
        PROVE  SumFunctionOnSet(f, T) = g[T]
    <2>1. PartialSums(f, T, G(T)) /\ T \in SUBSET K /\ T \in SUBSET (S \cap T)
      BY <1>1
    <2>2. G(T)[T] = g[T]
      BY <1>2, <2>1, PartialSumsAgree
    <2> QED
      BY <1>1, <2>2
  <1>4. g[S] = IF S = {} THEN 0 ELSE f[Pick(S)] + g[S \ {Pick(S)}]
    BY <1>2 DEF PartialSums
  <1> QED
    BY <1>2, <1>3, <1>4

(* ... whichever member it is. *)
LEMMA SumRemove ==
  ASSUME NEW K, IsFiniteSet(K), NEW f \in [K -> Nat], NEW S \in SUBSET K,
         NEW x \in S
  PROVE  SumFunctionOnSet(f, S) = f[x] + SumFunctionOnSet(f, S \ {x})
  <1> DEFINE Sum(T) == SumFunctionOnSet(f, T)
             C == {T \in SUBSET K : \E y \in T : Sum(T) # f[y] + Sum(T \ {y})}
  <1> SUFFICES ASSUME C # {}  PROVE FALSE
    OBVIOUS
  <1>0. ASSUME NEW T \in SUBSET K
        PROVE  /\ Sum(T) \in Nat
               /\ T # {} => Sum(T) = f[Pick(T)] + Sum(T \ {Pick(T)})
    BY SumStep
  <1>1. PICK T \in C : \A U \in C : U \subseteq T => U = T
    <2>1. C \in SUBSET (SUBSET K)
      OBVIOUS
    <2> HIDE DEF C
    <2> QED
      BY <2>1, SmallestSubset
  <1>2. PICK y \in T : Sum(T) # f[y] + Sum(T \ {y})
    BY <1>1
  <1> DEFINE z == Pick(T)
             U == T \ {y, z}
  <1> HIDE DEF Sum
  <1>3. T \in SUBSET K /\ z \in T /\ y # z
    <2>1. z \in T
      BY <1>2, PickIn
    <2> QED
      BY <1>0, <1>1, <1>2, <2>1
  <1>4. Sum(T) = f[z] + Sum(T \ {z})
    BY <1>0, <1>3
  <1>5. Sum(T \ {z}) = f[y] + Sum(U)
    <2>1. T \ {z} \notin C /\ (T \ {z}) \ {y} = U
      BY <1>1, <1>3
    <2> QED
      BY <1>3, <2>1
  <1>6. Sum(T \ {y}) = f[z] + Sum(U)
    <2>1. T \ {y} \notin C /\ (T \ {y}) \ {z} = U
      BY <1>1, <1>2, <1>3
    <2> QED
      BY <1>3, <2>1
  <1>7. f[y] \in Nat /\ f[z] \in Nat /\ Sum(U) \in Nat
    BY <1>0, <1>3
  <1> QED
    BY <1>2, <1>4, <1>5, <1>6, <1>7

LEMMA SumFacts ==
  ASSUME NEW K, IsFiniteSet(K), NEW f \in [K -> Nat]
  PROVE  \A S \in SUBSET K :
           /\ SumFunctionOnSet(f, S) \in Nat
           /\ S = {} => SumFunctionOnSet(f, S) = 0
           /\ \A x \in S : SumFunctionOnSet(f, S) = f[x] + SumFunctionOnSet(f, S \ {x})
  <1> TAKE S \in SUBSET K
  <1>1. /\ SumFunctionOnSet(f, S) \in Nat
        /\ S = {} => SumFunctionOnSet(f, S) = 0
    BY SumStep
  <1>2. \A x \in S : SumFunctionOnSet(f, S) = f[x] + SumFunctionOnSet(f, S \ {x})
    BY SumRemove
  <1> QED
    BY <1>1, <1>2

(* More of every member is more in the sum. *)
LEMMA SumMonotone ==
  ASSUME NEW K, IsFiniteSet(K), NEW f \in [K -> Nat], NEW g \in [K -> Nat],
         NEW S \in SUBSET K, \A x \in S : f[x] <= g[x]
  PROVE  SumFunctionOnSet(f, S) <= SumFunctionOnSet(g, S)
  <1> DEFINE Sum(h, T) == SumFunctionOnSet(h, T)
             C == {T \in SUBSET S : ~(Sum(f, T) <= Sum(g, T))}
  <1> SUFFICES ASSUME C # {}  PROVE FALSE
    OBVIOUS
  <1>0. ASSUME NEW T \in SUBSET K
        PROVE  /\ Sum(f, T) \in Nat /\ Sum(g, T) \in Nat
               /\ T = {} => Sum(f, T) = 0 /\ Sum(g, T) = 0
               /\ \A x \in T : /\ Sum(f, T) = f[x] + Sum(f, T \ {x})
                               /\ Sum(g, T) = g[x] + Sum(g, T \ {x})
    BY SumFacts
  <1>1. PICK T \in C : \A U \in C : U \subseteq T => U = T
    <2>1. C \in SUBSET (SUBSET K)
      OBVIOUS
    <2> HIDE DEF C
    <2> QED
      BY <2>1, SmallestSubset
  <1> HIDE DEF Sum
  <1>2. T \in SUBSET K /\ T \in SUBSET S /\ T # {}
    BY <1>0, <1>1
  <1>3. PICK x \in T : TRUE
    BY <1>2
  <1>4. Sum(f, T \ {x}) <= Sum(g, T \ {x})
    BY <1>1, <1>2, <1>3
  <1>5. /\ f[x] \in Nat /\ g[x] \in Nat /\ f[x] <= g[x]
        /\ Sum(f, T \ {x}) \in Nat /\ Sum(g, T \ {x}) \in Nat
        /\ Sum(f, T) = f[x] + Sum(f, T \ {x})
        /\ Sum(g, T) = g[x] + Sum(g, T \ {x})
    BY <1>0, <1>2, <1>3
  <1>6. Sum(f, T) <= Sum(g, T)
    BY <1>4, <1>5
  <1> QED
    BY <1>1, <1>6

(* The sum of two functions has the sum of their sums. *)
LEMMA SumOfSums ==
  ASSUME NEW K, IsFiniteSet(K),
         NEW f \in [K -> Nat], NEW g \in [K -> Nat], NEW h \in [K -> Nat],
         \A x \in K : h[x] = f[x] + g[x]
  PROVE  \A S \in SUBSET K :
           SumFunctionOnSet(h, S) = SumFunctionOnSet(f, S) + SumFunctionOnSet(g, S)
  <1> DEFINE Sum(q, T) == SumFunctionOnSet(q, T)
             C == {T \in SUBSET K : Sum(h, T) # Sum(f, T) + Sum(g, T)}
  <1> SUFFICES ASSUME C # {}  PROVE FALSE
    OBVIOUS
  <1>0. ASSUME NEW T \in SUBSET K
        PROVE  /\ Sum(f, T) \in Nat /\ Sum(g, T) \in Nat /\ Sum(h, T) \in Nat
               /\ T = {} => Sum(f, T) = 0 /\ Sum(g, T) = 0 /\ Sum(h, T) = 0
               /\ \A x \in T : /\ Sum(f, T) = f[x] + Sum(f, T \ {x})
                               /\ Sum(g, T) = g[x] + Sum(g, T \ {x})
                               /\ Sum(h, T) = h[x] + Sum(h, T \ {x})
    BY SumFacts
  <1>1. PICK T \in C : \A U \in C : U \subseteq T => U = T
    <2>1. C \in SUBSET (SUBSET K)
      OBVIOUS
    <2> HIDE DEF C
    <2> QED
      BY <2>1, SmallestSubset
  <1> HIDE DEF Sum
  <1>2. T \in SUBSET K /\ T # {}
    BY <1>0, <1>1
  <1>3. PICK x \in T : TRUE
    BY <1>2
  <1>4. Sum(h, T \ {x}) = Sum(f, T \ {x}) + Sum(g, T \ {x})
    BY <1>1, <1>2, <1>3
  <1>5. /\ f[x] \in Nat /\ g[x] \in Nat /\ h[x] = f[x] + g[x]
        /\ Sum(f, T \ {x}) \in Nat /\ Sum(g, T \ {x}) \in Nat
        /\ Sum(f, T) = f[x] + Sum(f, T \ {x})
        /\ Sum(g, T) = g[x] + Sum(g, T \ {x})
        /\ Sum(h, T) = h[x] + Sum(h, T \ {x})
    BY <1>0, <1>2, <1>3
  <1>6. Sum(h, T) = Sum(f, T) + Sum(g, T)
    BY <1>4, <1>5
  <1> QED
    BY <1>1, <1>6

(* A change of one member is a change of the sum. *)
LEMMA SumChange ==
  ASSUME NEW K, IsFiniteSet(K), NEW f \in [K -> Nat], NEW g \in [K -> Nat],
         NEW x \in K, \A y \in K : y # x => f[y] = g[y]
  PROVE  SumFunctionOnSet(f, K) + g[x] = SumFunctionOnSet(g, K) + f[x]
  <1> DEFINE R == K \ {x}
  <1>1. /\ SumFunctionOnSet(f, K) = f[x] + SumFunctionOnSet(f, R)
        /\ SumFunctionOnSet(g, K) = g[x] + SumFunctionOnSet(g, R)
        /\ SumFunctionOnSet(f, R) \in Nat /\ SumFunctionOnSet(g, R) \in Nat
    BY SumFacts
  <1>2. /\ SumFunctionOnSet(f, R) <= SumFunctionOnSet(g, R)
        /\ SumFunctionOnSet(g, R) <= SumFunctionOnSet(f, R)
    <2>1. /\ R \in SUBSET K
          /\ \A y \in R : f[y] <= g[y] /\ g[y] <= f[y]
      OBVIOUS
    <2> HIDE DEF R
    <2> QED
      BY <2>1, SumMonotone
  <1> QED
    BY <1>1, <1>2

LEMMA SumIncrement ==
  ASSUME NEW K, IsFiniteSet(K), NEW f \in [K -> Nat], NEW x \in K,
         NEW g \in [K -> Nat],
         g[x] = f[x] + 1, \A y \in K : y # x => f[y] = g[y]
  PROVE  SumFunctionOnSet(g, K) = SumFunctionOnSet(f, K) + 1
  <1>1. f[x] \in Nat
    OBVIOUS
  <1>2. SumFunctionOnSet(f, K) + g[x] = SumFunctionOnSet(g, K) + f[x]
    BY SumChange
  <1>3. SumFunctionOnSet(f, K) \in Nat /\ SumFunctionOnSet(g, K) \in Nat
    BY SumFacts
  <1> QED
    BY <1>1, <1>2, <1>3

LEMMA SumOfZeros ==
  ASSUME NEW K, IsFiniteSet(K), NEW f \in [K -> Nat], \A x \in K : f[x] = 0
  PROVE  SumFunctionOnSet(f, K) = 0
  <1>1. \A x \in K : f[x] = f[x] + f[x]
    OBVIOUS
  <1>2. SumFunctionOnSet(f, K) = SumFunctionOnSet(f, K) + SumFunctionOnSet(f, K)
    BY <1>1, SumOfSums
  <1>3. SumFunctionOnSet(f, K) \in Nat
    BY SumFacts
  <1>4. \A n \in Nat : n = n + n => n = 0
    OBVIOUS
  <1> QED
    BY <1>2, <1>3, <1>4

(* A table adds up to the same by rows and by columns. *)
LEMMA RowsAndColumns ==
  ASSUME NEW P, IsFiniteSet(P), NEW Q, IsFiniteSet(Q),
         NEW fs \in [P -> [Q -> Nat]]
  PROVE  SumFunctionOnSet([p \in P |-> SumFunctionOnSet(fs[p], Q)], P)
           = SumFunctionOnSet([q \in Q |-> SumFunctionOnSet([p \in P |-> fs[p][q]], P)], Q)
  <1> DEFINE Row == [p \in P |-> SumFunctionOnSet(fs[p], Q)]
             Column(q) == [p \in P |-> fs[p][q]]
             Part(S) == [q \in Q |-> SumFunctionOnSet(Column(q), S)]
             C == {S \in SUBSET P : SumFunctionOnSet(Row, S) # SumFunctionOnSet(Part(S), Q)}
  <1> SUFFICES ASSUME C # {}  PROVE FALSE
    OBVIOUS
  <1>1. PICK S \in C : \A T \in C : T \subseteq S => T = S
    <2>1. C \in SUBSET (SUBSET P)
      OBVIOUS
    <2> HIDE DEF C
    <2> QED
      BY <2>1, SmallestSubset
  <1>2. /\ S \in SUBSET P /\ SumFunctionOnSet(Row, S) # SumFunctionOnSet(Part(S), Q)
        /\ \A T \in SUBSET S : T # S =>
             SumFunctionOnSet(Row, T) = SumFunctionOnSet(Part(T), Q)
    BY <1>1
  <1> HIDE DEF C
  <1>3. Row \in [P -> Nat] /\ \A p \in P : Row[p] = SumFunctionOnSet(fs[p], Q)
    BY SumFacts
  <1>4. ASSUME NEW q \in Q
        PROVE  Column(q) \in [P -> Nat] /\ \A p \in P : Column(q)[p] = fs[p][q]
    OBVIOUS
  <1> HIDE DEF Row, Column
  <1>5. ASSUME NEW T \in SUBSET P
        PROVE  /\ Part(T) \in [Q -> Nat]
               /\ \A q \in Q : Part(T)[q] = SumFunctionOnSet(Column(q), T)
    BY <1>4, SumFacts
  <1> HIDE DEF Part
  <1>6. CASE S = {}
    <2>1. \A q \in Q : Part(S)[q] = 0
      <3> TAKE q \in Q
      <3>1. Column(q) \in [P -> Nat]
        BY <1>4
      <3>2. SumFunctionOnSet(Column(q), S) = 0
        BY <1>2, <1>6, <3>1, SumFacts
      <3> QED
        BY <1>2, <1>5, <3>2
    <2>2. SumFunctionOnSet(Part(S), Q) = 0
      BY <1>2, <1>5, <2>1, SumOfZeros
    <2>3. SumFunctionOnSet(Row, S) = 0
      BY <1>2, <1>3, <1>6, SumFacts
    <2> QED
      BY <1>2, <2>2, <2>3
  <1>7. ASSUME NEW p \in S
        PROVE  FALSE
    <2> DEFINE T == S \ {p}
    <2>1. p \in P /\ T \in SUBSET P /\ T \in SUBSET S /\ T # S
          /\ fs[p] \in [Q -> Nat]
      BY <1>2
    <2>2. \A q \in Q : Part(S)[q] = fs[p][q] + Part(T)[q]
      <3> TAKE q \in Q
      <3>1. SumFunctionOnSet(Column(q), S)
              = Column(q)[p] + SumFunctionOnSet(Column(q), T)
        <4>1. Column(q) \in [P -> Nat] /\ S \in SUBSET P
          BY <1>2, <1>4
        <4> QED
          BY <4>1, SumFacts
      <3>2. Column(q)[p] = fs[p][q]
        BY <1>4, <2>1
      <3>3. /\ Part(S)[q] = SumFunctionOnSet(Column(q), S)
            /\ Part(T)[q] = SumFunctionOnSet(Column(q), T)
        BY <1>2, <1>5, <2>1
      <3> QED
        BY <3>1, <3>2, <3>3
    <2>3. SumFunctionOnSet(Part(S), Q)
            = SumFunctionOnSet(fs[p], Q) + SumFunctionOnSet(Part(T), Q)
      <3>1. Part(S) \in [Q -> Nat] /\ Part(T) \in [Q -> Nat]
        BY <1>2, <1>5, <2>1
      <3> HIDE DEF T
      <3> QED
        BY <2>1, <2>2, <3>1, SumOfSums
    <2>4. SumFunctionOnSet(Row, S) = SumFunctionOnSet(fs[p], Q) + SumFunctionOnSet(Row, T)
      BY <1>2, <1>3, <2>1, SumFacts
    <2> QED
      BY <1>2, <2>1, <2>3, <2>4
  <1> QED
    BY <1>2, <1>6, <1>7

-----------------------------------------------------------------------------
(* Totals of counts. *)
LEMMA TotalFacts ==
  /\ Total(Zero) = 0
  /\ \A f \in Counts : Total(f) \in Nat
  /\ \A f, g \in Counts : AtMost(f, g) => Total(f) <= Total(g)
  /\ \A f \in Counts : \A k \in Keys : Total([f EXCEPT ![k] = @ + 1]) = Total(f) + 1
  <1>1. IsFiniteSet(Keys) /\ Keys \in SUBSET Keys
    BY StatsAssumption
  <1>2. Total(Zero) = 0
    BY <1>1, SumOfZeros DEF Total, Zero
  <1>3. \A f \in Counts : Total(f) \in Nat
    BY <1>1, SumFacts DEF Total, Counts
  <1>4. \A f, g \in Counts : AtMost(f, g) => Total(f) <= Total(g)
    BY <1>1, SumMonotone DEF Total, Counts, AtMost
  <1>5. ASSUME NEW f \in Counts, NEW k \in Keys
        PROVE  Total([f EXCEPT ![k] = @ + 1]) = Total(f) + 1
    <2> DEFINE g == [f EXCEPT ![k] = @ + 1]
    <2>1. /\ f \in [Keys -> Nat] /\ g \in [Keys -> Nat]
          /\ g[k] = f[k] + 1 /\ \A l \in Keys : l # k => f[l] = g[l]
      BY DEF Counts
    <2> HIDE DEF g
    <2>2. Total(g) = Total(f) + 1
      BY <1>1, <2>1, SumIncrement DEF Total
    <2> QED
      BY <2>2 DEF g
  <1> QED
    BY <1>2, <1>3, <1>4, <1>5

(* What the dashboard shows in all is what the files hold in all. *)
LEMMA TotalOfMerged ==
  ASSUME NEW fs \in [Pids -> Counts]
  PROVE  /\ Merged(fs) \in Counts
         /\ Total(Merged(fs)) = SumFunctionOnSet([p \in Pids |-> Total(fs[p])], Pids)
  <1>1. /\ IsFiniteSet(Pids) /\ IsFiniteSet(Keys)
        /\ fs \in [Pids -> [Keys -> Nat]]
    BY StatsAssumption DEF Counts
  <1>2. ASSUME NEW k \in Keys
        PROVE  SumFunctionOnSet([p \in Pids |-> fs[p][k]], Pids) \in Nat
    <2>1. [p \in Pids |-> fs[p][k]] \in [Pids -> Nat]
      BY <1>1
    <2> QED
      BY <1>1, <2>1, SumFacts
  <1> QED
    BY <1>1, <1>2, RowsAndColumns DEF Merged, Total, Counts

(* More in every file is more on the dashboard. *)
LEMMA MergedMonotone ==
  ASSUME NEW fs \in [Pids -> Counts], NEW gs \in [Pids -> Counts],
         \A p \in Pids : AtMost(fs[p], gs[p])
  PROVE  AtMost(Merged(fs), Merged(gs))
  <1> SUFFICES ASSUME NEW k \in Keys
               PROVE  Merged(fs)[k] <= Merged(gs)[k]
    BY DEF AtMost
  <1> DEFINE F == [p \in Pids |-> fs[p][k]]
             G == [p \in Pids |-> gs[p][k]]
  <1>1. F \in [Pids -> Nat] /\ G \in [Pids -> Nat] /\ Pids \in SUBSET Pids
    BY DEF Counts
  <1>2. \A p \in Pids : F[p] <= G[p]
    BY DEF AtMost
  <1>3. Merged(fs)[k] = SumFunctionOnSet(F, Pids)
        /\ Merged(gs)[k] = SumFunctionOnSet(G, Pids)
    BY DEF Merged
  <1> HIDE DEF F, G
  <1> QED
    BY <1>1, <1>2, <1>3, StatsAssumption, SumMonotone

(* One count more for one process is one count more in all. *)
LEMMA MergedIncrement ==
  ASSUME NEW fs \in [Pids -> Counts], NEW gs \in [Pids -> Counts],
         NEW q \in Pids, NEW k \in Keys,
         \A p \in Pids : \A l \in Keys :
           gs[p][l] = IF p = q /\ l = k THEN fs[p][l] + 1 ELSE fs[p][l]
  PROVE  \A l \in Keys :
           Merged(gs)[l] = IF l = k THEN Merged(fs)[l] + 1 ELSE Merged(fs)[l]
  <1>1. \A p \in Pids : \A l \in Keys : fs[p][l] \in Nat /\ gs[p][l] \in Nat
    BY DEF Counts
  <1>2. ASSUME NEW l \in Keys
        PROVE  Merged(gs)[l] = IF l = k THEN Merged(fs)[l] + 1 ELSE Merged(fs)[l]
    <2> DEFINE F == [p \in Pids |-> fs[p][l]]
               G == [p \in Pids |-> gs[p][l]]
    <2>1. F \in [Pids -> Nat] /\ G \in [Pids -> Nat]
      BY <1>1
    <2>2. Merged(fs)[l] = SumFunctionOnSet(F, Pids)
          /\ Merged(gs)[l] = SumFunctionOnSet(G, Pids)
      BY DEF Merged
    <2>3. CASE l = k
      <3>1. G[q] = F[q] + 1 /\ \A p \in Pids : p # q => F[p] = G[p]
        BY <1>1, <2>3
      <3> HIDE DEF F, G
      <3>2. SumFunctionOnSet(G, Pids) = SumFunctionOnSet(F, Pids) + 1
        BY <2>1, <3>1, StatsAssumption, SumIncrement
      <3> QED
        BY <2>2, <2>3, <3>2
    <2>4. CASE l # k
      <3>1. F = G
        BY <1>1, <2>4
      <3> QED
        BY <2>2, <2>4, <3>1
    <2> QED
      BY <2>3, <2>4
  <1> QED
    BY <1>2

-----------------------------------------------------------------------------
(* Until docker restarts its container, every response that a file or a    *)
(* worker's memory counts can be booked to its process, without any being  *)
(* booked twice: the files of dead processes and the counts of live ones   *)
(* together stay below what was handled.                                   *)
Booked(credit) ==
  /\ \A p \in Pids : AtMost(files[p], credit[p])
  /\ \A w \in Workers : pid[w] # NoPid => AtMost(counts[w], credit[pid[w]])
  /\ AtMost(Merged(credit), handled)

Ledger == \E credit \in [Pids -> Counts] : Booked(credit)

LEMMA BookOne ==
  ASSUME NEW credit \in [Pids -> Counts], NEW q \in Pids, NEW k \in Keys
  PROVE  \E more \in [Pids -> Counts] :
           /\ \A p \in Pids : \A l \in Keys :
                more[p][l] = IF p = q /\ l = k THEN credit[p][l] + 1 ELSE credit[p][l]
           /\ \A l \in Keys :
                Merged(more)[l] = IF l = k THEN Merged(credit)[l] + 1 ELSE Merged(credit)[l]
           /\ \A p \in Pids : AtMost(credit[p], more[p])
<1> DEFINE more == [credit EXCEPT ![q][k] = @ + 1]
<1>1. /\ more \in [Pids -> Counts]
      /\ \A p \in Pids : \A l \in Keys :
           more[p][l] = IF p = q /\ l = k THEN credit[p][l] + 1 ELSE credit[p][l]
  BY DEF Counts
<1> HIDE DEF more
<1>2. \A l \in Keys :
        Merged(more)[l] = IF l = k THEN Merged(credit)[l] + 1 ELSE Merged(credit)[l]
  BY <1>1, MergedIncrement
<1>3. \A p \in Pids : AtMost(credit[p], more[p])
  <2> SUFFICES ASSUME NEW p \in Pids, NEW l \in Keys
               PROVE  credit[p][l] <= more[p][l]
    BY DEF AtMost
  <2>1. credit[p][l] \in Nat
    BY DEF Counts
  <2> QED
    BY <1>1, <2>1
<1> QED
  BY <1>1, <1>2, <1>3

LEMMA LedgerStep ==
  ASSUME restarts' = 0, FirstLifeInv, Ledger, Next
  PROVE  Ledger'
<1> USE StatsAssumption, AtMostOrder DEF FirstLifeInv, TypeInv, TypeOK, EmptySlots
<1>0. PICK credit \in [Pids -> Counts] : Booked(credit)
  BY DEF Ledger
<1>1. ASSUME NEW w \in Workers, NEW k \in Keys, Increment(w, k) PROVE Ledger'
  <2>0. PICK q \in Pids : pid[w] = q
    BY <1>1 DEF Increment, Free
  <2>1. /\ UNCHANGED <<pid, files>>
        /\ counts' = [counts EXCEPT ![w][k] = @ + 1]
        /\ handled' = [handled EXCEPT ![k] = @ + 1]
    BY <1>1 DEF Increment, Free
  <2>2. PICK more \in [Pids -> Counts] :
          /\ \A p \in Pids : \A l \in Keys :
               more[p][l] = IF p = q /\ l = k THEN credit[p][l] + 1 ELSE credit[p][l]
          /\ \A l \in Keys :
               Merged(more)[l] = IF l = k THEN Merged(credit)[l] + 1 ELSE Merged(credit)[l]
          /\ \A p \in Pids : AtMost(credit[p], more[p])
    <3>1. credit \in [Pids -> Counts] /\ q \in Pids /\ k \in Keys
      OBVIOUS
    <3> QED
      BY ONLY <3>1, BookOne
  <2>4. \A p \in Pids : AtMost(files'[p], more[p])
    BY <1>0, <2>1, <2>2 DEF Booked
  <2>5. ASSUME NEW v \in Workers, pid'[v] # NoPid
        PROVE  AtMost(counts'[v], more[pid'[v]])
    <3>1. CASE v = w
      <4> SUFFICES ASSUME NEW l \in Keys
                   PROVE  counts'[w][l] <= more[q][l]
        BY <2>0, <2>1, <3>1 DEF AtMost
      <4>1. counts[w][l] \in Nat /\ credit[q][l] \in Nat
        BY <2>1 DEF Counts
      <4>2. counts[w][l] <= credit[q][l]
        BY <1>0, <2>0 DEF Booked, AtMost
      <4>3. counts'[w][l] = IF l = k THEN counts[w][l] + 1 ELSE counts[w][l]
        BY <2>1 DEF Counts
      <4> QED
        BY <2>1, <2>2, <4>1, <4>2, <4>3
    <3>2. CASE v # w
      <4>1. counts'[v] = counts[v] /\ pid[v] \in Pids /\ pid'[v] = pid[v]
        BY <2>1, <2>5, <3>2
      <4>2. AtMost(counts[v], credit[pid[v]]) /\ AtMost(credit[pid[v]], more[pid[v]])
        BY <1>0, <2>2, <2>5, <4>1 DEF Booked
      <4>3. more[pid[v]] \in Counts /\ credit[pid[v]] \in Counts /\ counts[v] \in Counts
        BY <2>2, <4>1
      <4> QED
        BY <4>1, <4>2, <4>3
    <3> QED
      BY <3>1, <3>2
  <2>6. AtMost(Merged(more), handled')
    <3> SUFFICES ASSUME NEW l \in Keys
                 PROVE  Merged(more)[l] <= handled'[l]
      BY DEF AtMost
    <3>1. Merged(more)[l] = IF l = k THEN Merged(credit)[l] + 1 ELSE Merged(credit)[l]
      BY <2>2
    <3>2. handled'[l] = IF l = k THEN handled[l] + 1 ELSE handled[l]
      BY <2>1 DEF Counts
    <3>3. Merged(credit)[l] <= handled[l]
      BY <1>0 DEF Booked, AtMost
    <3>4. Merged(credit)[l] \in Nat /\ handled[l] \in Nat
      BY TotalOfMerged DEF Counts
    <3> QED
      BY <3>1, <3>2, <3>3, <3>4
  <2> QED
    BY <2>2, <2>4, <2>5, <2>6 DEF Ledger, Booked
<1>2. ASSUME NEW w \in Workers, Replace(w) PROVE Ledger'
  <2>1. /\ pid[w] \in Pids /\ UNCHANGED <<pid, counts, handled>>
        /\ files' = [files EXCEPT ![pid[w]] = counts[w]]
    BY <1>2 DEF Replace, FilesFollow
  <2>2. \A p \in Pids : AtMost(files'[p], credit[p])
    BY <1>0, <2>1 DEF Booked
  <2> QED
    BY <1>0, <2>1, <2>2 DEF Ledger, Booked
<1>3. ASSUME NEW w \in Workers, Spawn(w) PROVE Ledger'
  <2>1. /\ UNCHANGED <<counts, files, handled>>
        /\ \A v \in Workers : v # w => pid'[v] = pid[v]
        /\ counts[w] = Zero /\ pid'[w] \in Pids
    BY <1>3 DEF Spawn
  <2>2. \A v \in Workers : pid'[v] # NoPid => AtMost(counts[v], credit[pid'[v]])
    BY <1>0, <2>1 DEF Booked
  <2> QED
    BY <1>0, <2>1, <2>2 DEF Ledger, Booked
<1>4. ASSUME NEW w \in Workers, Die(w) PROVE Ledger'
  <2>1. /\ UNCHANGED <<files, handled>>
        /\ \A v \in Workers : \/ pid'[v] = NoPid
                              \/ pid'[v] = pid[v] /\ counts'[v] = counts[v]
    BY <1>4 DEF Die, End
  <2>2. \A v \in Workers : pid'[v] # NoPid => AtMost(counts'[v], credit[pid'[v]])
    BY <1>0, <2>1 DEF Booked
  <2> QED
    BY <1>0, <2>1, <2>2 DEF Ledger, Booked
<1>5. ASSUME NEW w \in Workers,
             WriteTmp(w) \/ PersistFails(w) \/ Glob(w) \/ ReadFile(w) \/ Answer(w)
      PROVE  Ledger'
  <2>1. UNCHANGED <<pid, counts, files, handled>>
    BY <1>5 DEF WriteTmp, PersistFails, AfterFailure, Glob, ReadFile, Answer
  <2> QED
    BY <1>0, <2>1 DEF Ledger, Booked
<1>6. ~Restart
  BY StatsAssumption DEF Restart
<1> QED
  BY <1>1, <1>2, <1>3, <1>4, <1>5, <1>6 DEF Next

LedgerInv == BetweenInv /\ (restarts = 0 => Ledger)

(* Every answer of the container's first life counts at most what was      *)
(* handled since its start, whatever workers die, are replaced, or fail    *)
(* to write.                                                               *)
THEOREM FirstAnswersAreSinceStart == Spec => []FirstAnswersSinceStart
<1>1. ASSUME Init PROVE Ledger
  <2>1. Merged(NoFiles) = Zero
    <3>1. ASSUME NEW k \in Keys PROVE Merged(NoFiles)[k] = 0
      <4> DEFINE F == [p \in Pids |-> NoFiles[p][k]]
      <4>1. F \in [Pids -> Nat] /\ \A p \in Pids : F[p] = 0
        BY DEF NoFiles, Zero
      <4> HIDE DEF F
      <4>2. SumFunctionOnSet(F, Pids) = 0
        BY <4>1, StatsAssumption, SumOfZeros
      <4> QED
        BY <4>2 DEF F, Merged
    <3> QED
      BY <3>1 DEF Merged, Zero
  <2>2. NoFiles \in [Pids -> Counts] /\ \A p \in Pids : NoFiles[p] = Zero
    BY DEF NoFiles, Zero, Counts
  <2>3. Booked(NoFiles)
    BY <1>1, <2>1, <2>2, AtMostOrder DEF Init, Booked
  <2> QED
    BY <2>2, <2>3 DEF Ledger
<1>2. Init => LedgerInv
  BY <1>1, BetweenInit DEF LedgerInv
<1>3. LedgerInv /\ [Next]_vars => LedgerInv'
  <2> SUFFICES ASSUME LedgerInv, [Next]_vars PROVE LedgerInv'
    OBVIOUS
  <2>1. BetweenInv'
    BY BetweenStep DEF LedgerInv
  <2>2. ASSUME restarts' = 0 PROVE Ledger'
    <3>1. CASE UNCHANGED vars
      BY <2>2, <3>1 DEF vars, LedgerInv, Ledger, Booked
    <3>2. CASE Next
      <4>1. restarts = 0
        BY <2>2, <3>2, FirstLifeSoFar DEF LedgerInv, BetweenInv
      <4> QED
        BY <2>2, <3>2, <4>1, LedgerStep DEF LedgerInv, BetweenInv, FirstLifeInv
    <3> QED
      BY <3>1, <3>2
  <2> QED
    BY <2>1, <2>2 DEF LedgerInv
<1>4. ASSUME LedgerInv PROVE FirstAnswersSinceStart
  <2> SUFFICES ASSUME restarts = 0, NEW w \in Workers, Answering(w)
               PROVE  AtMost(Merged(got[w]), handled)
    BY DEF FirstAnswersSinceStart, AnswerSinceStart
  <2>1. PICK credit \in [Pids -> Counts] : Booked(credit)
    BY <1>4 DEF LedgerInv, Ledger
  <2>2. /\ got[w] \in [Pids -> Counts] /\ files \in [Pids -> Counts]
        /\ handled \in Counts
    BY <1>4 DEF LedgerInv, BetweenInv, TypeInv, TypeOK
  <2>3. \A p \in Pids : AtMost(got[w][p], files[p])
    BY <1>4 DEF LedgerInv, BetweenInv, ReaderInv, ReaderOK, Answering
  <2>4. \A p \in Pids : AtMost(got[w][p], credit[p])
    <3> TAKE p \in Pids
    <3>1. got[w][p] \in Counts /\ files[p] \in Counts /\ credit[p] \in Counts
      BY <2>2
    <3> QED
      BY <2>1, <2>3, <3>1, AtMostOrder DEF Booked
  <2>5. AtMost(Merged(got[w]), Merged(credit))
    BY <2>2, <2>4, MergedMonotone
  <2>6. Merged(got[w]) \in Counts /\ Merged(credit) \in Counts
    BY <2>2, TotalOfMerged
  <2> QED
    BY <2>1, <2>2, <2>5, <2>6, AtMostOrder DEF Booked
<1> QED
  BY <1>2, <1>3, <1>4, PTL DEF Spec

-----------------------------------------------------------------------------
(* How many responses of each process the files can no longer lose, also   *)
(* across restarts: what a process of this container's life has replaced   *)
(* its file by.  A process that is between its increment and its           *)
(* os.replace has one more in memory; a failed write or a kill takes back  *)
(* at most that one.                                                       *)
Pending(w) == IF w \in Unsaved THEN 1 ELSE 0

Saved(saved) ==
  /\ \A p \in Pids : saved[p] <= Total(files[p])
  /\ \A p \in Pids \ used : saved[p] = 0
  /\ \A w \in Workers : pid[w] # NoPid => saved[pid[w]] + Pending(w) <= Total(counts[w])
  /\ Total(handled)
       <= SumFunctionOnSet(saved, Pids) + failures + deaths + Cardinality(Unsaved)

(* A temporary file holds all its worker has counted. *)
Written == \A w \in Workers : stage[w] = "written" => tmp[w] = counts[w]

LossInv == TypeInv /\ Written /\ \E saved \in [Pids -> Nat] : Saved(saved)

LEMMA WrittenStep ==
  ASSUME TypeInv, Written, [Next]_vars
  PROVE  Written'
<1> USE DEF TypeInv, TypeOK, Written
<1>1. ASSUME NEW w \in Workers,
             \/ Spawn(w) \/ WriteTmp(w) \/ Replace(w) \/ PersistFails(w)
             \/ Glob(w) \/ ReadFile(w) \/ Answer(w) \/ Die(w)
      PROVE  Written'
  BY <1>1 DEF Spawn, WriteTmp, Replace, PersistFails, AfterFailure, Glob, ReadFile,
              Answer, Die, End
<1>2. ASSUME NEW w \in Workers, NEW k \in Keys, Increment(w, k)
      PROVE  Written'
  <2>1. UNCHANGED tmp /\ stage' = [stage EXCEPT ![w] = "counted"]
        /\ \A v \in Workers : v # w => counts'[v] = counts[v]
    BY <1>2 DEF Increment
  <2> QED
    BY <2>1
<1>3. CASE Restart
  BY <1>3 DEF Restart, End
<1>4. CASE UNCHANGED vars
  BY <1>4 DEF vars
<1> QED
  BY <1>1, <1>2, <1>3, <1>4 DEF Next

(* How the set of workers that have something to save changes.             *)
LEMMA UnsavedFacts ==
  /\ IsFiniteSet(Unsaved) /\ Cardinality(Unsaved) \in Nat
  /\ \A w \in Workers :
       /\ Cardinality(Unsaved \ {w}) \in Nat
       /\ Cardinality(Unsaved) = Cardinality(Unsaved \ {w}) + Pending(w)
       /\ w \notin Unsaved => Cardinality(Unsaved \cup {w}) = Cardinality(Unsaved) + 1
<1>1. IsFiniteSet(Unsaved)
  BY StatsAssumption, FS_Subset DEF Unsaved
<1>2. Cardinality(Unsaved) \in Nat
  BY <1>1, FS_CardinalityType
<1>3. ASSUME NEW w \in Workers
      PROVE  /\ Cardinality(Unsaved \ {w}) \in Nat
             /\ Cardinality(Unsaved) = Cardinality(Unsaved \ {w}) + Pending(w)
             /\ w \notin Unsaved => Cardinality(Unsaved \cup {w}) = Cardinality(Unsaved) + 1
  <2>1. /\ IsFiniteSet(Unsaved \ {w})
        /\ Cardinality(Unsaved \ {w})
             = IF w \in Unsaved THEN Cardinality(Unsaved) - 1 ELSE Cardinality(Unsaved)
    BY <1>1, FS_RemoveElement
  <2>2. Cardinality(Unsaved \ {w}) \in Nat
    BY <2>1, FS_CardinalityType
  <2>3. w \notin Unsaved => Cardinality(Unsaved \cup {w}) = Cardinality(Unsaved) + 1
    BY <1>1, FS_AddElement
  <2> QED
    BY <1>2, <2>1, <2>2, <2>3 DEF Pending
<1> QED
  BY <1>1, <1>2, <1>3

(* A step that lets the counts of live workers and the files stand, and    *)
(* whose losses failures and deaths make up for.                           *)
Stands ==
  /\ files' = files /\ handled' = handled /\ used \subseteq used' /\ used' \subseteq Pids
  /\ \A w \in Workers : pid'[w] # NoPid =>
       /\ counts'[w] = counts[w]
       /\ w \in Unsaved' => w \in Unsaved
       /\ \/ pid'[w] = pid[w]
          \/ pid'[w] \in Pids \ used /\ w \notin Unsaved'
  /\ failures' \in Nat /\ deaths' \in Nat /\ Cardinality(Unsaved') \in Nat
  /\ failures + deaths + Cardinality(Unsaved)
       <= failures' + deaths' + Cardinality(Unsaved')

(* Such a step keeps the book as it is. *)
LEMMA SavedStands ==
  ASSUME TypeInv, NEW saved \in [Pids -> Nat], Saved(saved), Stands
  PROVE  Saved(saved)'
<1> USE DEF Stands
<1>1. \A p \in Pids : saved[p] <= Total(files'[p])
  BY DEF Saved
<1>2. \A p \in Pids \ used' : saved[p] = 0
  BY DEF Saved
<1>3. ASSUME NEW w \in Workers, pid'[w] # NoPid
      PROVE  saved[pid'[w]] + Pending(w)' <= Total(counts'[w])
  <2>1. Total(counts[w]) \in Nat /\ counts'[w] = counts[w]
    BY <1>3, TotalFacts DEF TypeInv, TypeOK
  <2>2. CASE pid'[w] = pid[w]
    <3>1. saved[pid[w]] + Pending(w) <= Total(counts[w])
      BY <1>3, <2>2 DEF Saved
    <3>2. Pending(w)' <= Pending(w) /\ Pending(w)' \in Nat /\ Pending(w) \in Nat
      BY <1>3 DEF Pending
    <3>3. saved[pid[w]] \in Nat
      BY <1>3, <2>2 DEF TypeInv, TypeOK
    <3> QED
      BY <2>1, <2>2, <3>1, <3>2, <3>3
  <2>3. CASE pid'[w] \in Pids \ used /\ w \notin Unsaved'
    <3>1. saved[pid'[w]] = 0 /\ Pending(w)' = 0
      BY <2>3 DEF Saved, Pending
    <3> QED
      BY <2>1, <3>1
  <2> QED
    BY <1>3, <2>2, <2>3
<1>4. Total(handled')
        <= SumFunctionOnSet(saved, Pids) + failures' + deaths' + Cardinality(Unsaved')
  <2>1. SumFunctionOnSet(saved, Pids) \in Nat
    BY StatsAssumption, SumFacts
  <2>2. Total(handled) \in Nat /\ failures \in Nat /\ deaths \in Nat
    BY TotalFacts DEF TypeInv, TypeOK
  <2>3. Cardinality(Unsaved) \in Nat
    BY UnsavedFacts
  <2> QED
    BY <2>1, <2>2, <2>3 DEF Saved
<1> QED
  BY <1>1, <1>2, <1>3, <1>4 DEF Saved

(* One more response is one more in a memory and one more to save.         *)
LEMMA SavedIncrement ==
  ASSUME TypeInv, NEW saved \in [Pids -> Nat], Saved(saved),
         NEW w \in Workers, NEW k \in Keys, Increment(w, k)
  PROVE  Saved(saved)'
<1>1. /\ UNCHANGED <<pid, files, used, failures, deaths>>
      /\ counts' = [counts EXCEPT ![w][k] = @ + 1]
      /\ handled' = [handled EXCEPT ![k] = @ + 1]
      /\ stage' = [stage EXCEPT ![w] = "counted"]
      /\ stage[w] = "idle" /\ pid[w] # NoPid
  BY DEF Increment, Free
<1>2. w \notin Unsaved /\ Unsaved' = Unsaved \cup {w}
  BY <1>1 DEF Unsaved, TypeInv, TypeOK
<1>3. Total(counts'[w]) = Total(counts[w]) + 1 /\ Total(counts[w]) \in Nat
  <2>1. counts[w] \in Counts /\ counts'[w] = [counts[w] EXCEPT ![k] = @ + 1]
    BY <1>1 DEF TypeInv, TypeOK
  <2> QED
    BY <2>1, TotalFacts
<1>4. Total(handled') = Total(handled) + 1 /\ Total(handled) \in Nat
  <2>1. handled \in Counts
    BY DEF TypeInv, TypeOK
  <2> QED
    BY <1>1, <2>1, TotalFacts
<1>5. ASSUME NEW v \in Workers, pid'[v] # NoPid
      PROVE  saved[pid'[v]] + Pending(v)' <= Total(counts'[v])
  <2>1. saved[pid[v]] + Pending(v) <= Total(counts[v])
    BY <1>1, <1>5 DEF Saved
  <2>2. CASE v = w
    <3>1. Pending(v) = 0 /\ Pending(v)' = 1
      BY <1>2, <2>2 DEF Pending
    <3>2. saved[pid[w]] \in Nat
      BY <1>1 DEF TypeInv, TypeOK
    <3> QED
      BY <1>1, <1>3, <2>1, <2>2, <3>1, <3>2
  <2>3. CASE v # w
    <3>1. Pending(v)' = Pending(v) /\ counts'[v] = counts[v]
      BY <1>1, <1>2, <2>3 DEF Pending, TypeInv, TypeOK
    <3> QED
      BY <1>1, <2>1, <3>1
  <2> QED
    BY <2>2, <2>3
<1>6. Total(handled')
        <= SumFunctionOnSet(saved, Pids) + failures' + deaths' + Cardinality(Unsaved')
  <2>1. SumFunctionOnSet(saved, Pids) \in Nat
    BY StatsAssumption, SumFacts
  <2>2. failures \in Nat /\ deaths \in Nat /\ UNCHANGED <<failures, deaths>>
    BY <1>1 DEF TypeInv, TypeOK
  <2>3. /\ Cardinality(Unsaved) \in Nat
        /\ Cardinality(Unsaved') = Cardinality(Unsaved) + 1
    BY <1>2, UnsavedFacts
  <2> QED
    BY <1>4, <2>1, <2>2, <2>3 DEF Saved
<1> QED
  BY <1>1, <1>5, <1>6 DEF Saved

(* os.replace saves all its worker has counted, its last response with it. *)
LEMMA SavedReplace ==
  ASSUME TypeInv, Written, NEW saved \in [Pids -> Nat], Saved(saved),
         NEW w \in Workers, Replace(w)
  PROVE  \E more \in [Pids -> Nat] : Saved(more)'
<1> DEFINE p == pid[w]
           more == [saved EXCEPT ![p] = Total(counts[w])]
<1>1. /\ UNCHANGED <<pid, counts, used, handled, failures, deaths>>
      /\ files' = [files EXCEPT ![p] = counts[w]]
      /\ stage' = [stage EXCEPT ![w] = "idle"] /\ stage[w] = "written"
  BY DEF Replace, Written
<1>2. p \in Pids /\ p \in used /\ p # NoPid
  BY <1>1 DEF TypeInv, TypeOK, EmptySlots, PidsUsed
<1>3. w \in Unsaved /\ Unsaved' = Unsaved \ {w}
  BY <1>1 DEF Unsaved, TypeInv, TypeOK
<1>4. counts[w] \in Counts /\ Total(counts[w]) \in Nat
  BY TotalFacts DEF TypeInv, TypeOK
<1>5. /\ more \in [Pids -> Nat] /\ more[p] = Total(counts[w])
      /\ \A q \in Pids : q # p => more[q] = saved[q]
  BY <1>2, <1>4
<1>6. \A v \in Workers : v # w /\ pid[v] # NoPid => pid[v] \in Pids /\ pid[v] # p
  BY <1>2 DEF TypeInv, TypeOK
<1>7. files \in [Pids -> Counts]
  BY DEF TypeInv, TypeOK
<1> HIDE DEF more
<1>8. \A q \in Pids : more[q] <= Total(files'[q])
  <2> TAKE q \in Pids
  <2>1. CASE q = p
    BY <1>1, <1>4, <1>5, <1>7, <2>1
  <2>2. CASE q # p
    <3>1. files'[q] = files[q] /\ more[q] = saved[q]
      BY <1>1, <1>5, <1>7, <2>2
    <3> QED
      BY <3>1 DEF Saved
  <2> QED
    BY <2>1, <2>2
<1>9. \A q \in Pids \ used' : more[q] = 0
  BY <1>1, <1>2, <1>5 DEF Saved
<1>10. ASSUME NEW v \in Workers, pid'[v] # NoPid
       PROVE  more[pid'[v]] + Pending(v)' <= Total(counts'[v])
  <2>1. CASE v = w
    <3>1. Pending(w)' = 0
      BY <1>3 DEF Pending
    <3> QED
      BY <1>1, <1>4, <1>5, <2>1, <3>1
  <2>2. CASE v # w
    <3>1. Pending(v)' = Pending(v)
      BY <1>3, <2>2 DEF Pending
    <3>2. more[pid[v]] = saved[pid[v]] /\ pid'[v] = pid[v] /\ counts'[v] = counts[v]
      BY <1>1, <1>5, <1>6, <1>10, <2>2
    <3> QED
      BY <1>10, <3>1, <3>2 DEF Saved
  <2> QED
    BY <2>1, <2>2
<1>11. Total(handled')
         <= SumFunctionOnSet(more, Pids) + failures' + deaths' + Cardinality(Unsaved')
  <2>1. /\ SumFunctionOnSet(saved, Pids) \in Nat /\ SumFunctionOnSet(more, Pids) \in Nat
    BY <1>5, StatsAssumption, SumFacts
  <2>2. SumFunctionOnSet(saved, Pids) + more[p] = SumFunctionOnSet(more, Pids) + saved[p]
    <3> HIDE DEF p
    <3> QED
      BY <1>2, <1>5, StatsAssumption, SumChange
  <2>3. saved[p] + 1 <= more[p] /\ saved[p] \in Nat /\ more[p] \in Nat
    <3>1. saved[p] + Pending(w) <= Total(counts[w]) /\ Pending(w) = 1
      BY <1>2, <1>3 DEF Saved, Pending
    <3> QED
      BY <1>2, <1>4, <1>5, <3>1
  <2>4. /\ Cardinality(Unsaved') \in Nat
        /\ Cardinality(Unsaved) = Cardinality(Unsaved') + 1
    BY <1>3, UnsavedFacts DEF Pending
  <2>5. Total(handled) \in Nat /\ failures \in Nat /\ deaths \in Nat
        /\ UNCHANGED <<handled, failures, deaths>>
    BY <1>1, TotalFacts DEF TypeInv, TypeOK
  <2>6. Total(handled)
          <= SumFunctionOnSet(saved, Pids) + failures + deaths + Cardinality(Unsaved)
    BY DEF Saved
  <2> HIDE DEF p
  <2> QED
    BY ONLY <2>1, <2>2, <2>3, <2>4, <2>5, <2>6
<1> QED
  BY <1>5, <1>8, <1>9, <1>10, <1>11 DEF Saved

(* The container starts its books afresh; the files it finds can only      *)
(* show more.                                                              *)
LEMMA SavedRestart ==
  ASSUME TypeInv, Restart
  PROVE  \E none \in [Pids -> Nat] : Saved(none)'
<1> DEFINE none == [p \in Pids |-> 0]
<1>1. none \in [Pids -> Nat] /\ \A p \in Pids : none[p] = 0
  OBVIOUS
<1> HIDE DEF none
<1>2. /\ files' = files /\ used' = {} /\ handled' = Zero /\ failures' = 0 /\ deaths' = 0
      /\ \A w \in Workers : pid'[w] = NoPid
  BY DEF Restart, End
<1>3. \A p \in Pids : none[p] <= Total(files'[p])
  BY <1>1, <1>2, TotalFacts DEF TypeInv, TypeOK
<1>4. SumFunctionOnSet(none, Pids) = 0
  BY <1>1, StatsAssumption, SumOfZeros
<1>5. Cardinality(Unsaved') = 0
  <2>1. Unsaved' = {}
    BY DEF Restart, End, Unsaved
  <2> QED
    BY <2>1, FS_EmptySet
<1>6. Total(handled')
        <= SumFunctionOnSet(none, Pids) + failures' + deaths' + Cardinality(Unsaved')
  BY <1>2, <1>4, <1>5, TotalFacts
<1> QED
  BY <1>1, <1>2, <1>3, <1>6 DEF Saved

LEMMA LossStep ==
  ASSUME TypeInv, Written, NEW saved \in [Pids -> Nat], Saved(saved), [Next]_vars
  PROVE  \E more \in [Pids -> Nat] : Saved(more)'
<1>0. /\ failures \in Nat /\ deaths \in Nat /\ NoPid \notin Pids
      /\ used \subseteq Pids /\ stage \in [Workers -> {"idle", "counted", "written", "reading"}]
      /\ pid \in [Workers -> Pids \cup {NoPid}] /\ counts \in [Workers -> Counts]
  BY StatsAssumption DEF TypeInv, TypeOK
<1>1. ASSUME UNCHANGED <<files, handled, counts>>,
             UNCHANGED <<pid, used, failures, deaths>>, Unsaved' = Unsaved
      PROVE  Saved(saved)'
  <2>1. Cardinality(Unsaved) \in Nat
    BY UnsavedFacts
  <2>2. Stands
    BY <1>0, <1>1, <2>1 DEF Stands
  <2> QED
    BY <2>2, SavedStands
<1>2. ASSUME NEW w \in Workers, Spawn(w)
      PROVE  Saved(saved)'
  <2>1. /\ UNCHANGED <<files, handled, counts, stage, failures, deaths>>
        /\ Unsaved' = Unsaved /\ w \notin Unsaved
        /\ used \subseteq used' /\ used' \subseteq Pids
    BY <1>0, <1>2 DEF Spawn, Unsaved, TypeInv, EmptySlots
  <2>2. pid'[w] \in Pids \ used /\ \A v \in Workers : v # w => pid'[v] = pid[v]
    BY <1>0, <1>2 DEF Spawn
  <2>3. Cardinality(Unsaved) \in Nat
    BY UnsavedFacts
  <2>4. Stands
    BY <1>0, <2>1, <2>2, <2>3 DEF Stands
  <2> QED
    BY <2>4, SavedStands
<1>3. ASSUME NEW w \in Workers, WriteTmp(w) \/ Glob(w) \/ ReadFile(w) \/ Answer(w)
      PROVE  Saved(saved)'
  <2>1. UNCHANGED <<files, handled, counts, pid, used, failures, deaths>>
    BY <1>3 DEF WriteTmp, Glob, ReadFile, Answer
  <2>2. Unsaved' = Unsaved
    BY <1>0, <1>3 DEF WriteTmp, Glob, Free, ReadFile, Answer, Answering, Unsaved
  <2> QED
    BY <1>1, <2>1, <2>2
<1>4. ASSUME NEW w \in Workers, PersistFails(w)
      PROVE  Saved(saved)'
  <2>1. /\ UNCHANGED <<files, handled, pid, used, deaths>> /\ failures' = failures + 1
        /\ \A v \in Workers : counts'[v] = counts[v]
    BY <1>0, <1>4 DEF PersistFails, AfterFailure
  <2>2. Unsaved' = Unsaved \ {w} /\ w \in Unsaved
    BY <1>0, <1>4 DEF PersistFails, Unsaved
  <2>3. /\ Cardinality(Unsaved') \in Nat
        /\ Cardinality(Unsaved) = Cardinality(Unsaved') + 1
    BY <2>2, UnsavedFacts DEF Pending
  <2>4. Stands
    BY <1>0, <2>1, <2>2, <2>3 DEF Stands
  <2> QED
    BY <2>4, SavedStands
<1>5. ASSUME NEW w \in Workers, Die(w)
      PROVE  Saved(saved)'
  <2>1. /\ UNCHANGED <<files, handled, used, failures>> /\ deaths' = deaths + 1
        /\ pid'[w] = NoPid
        /\ \A v \in Workers : v # w => pid'[v] = pid[v] /\ counts'[v] = counts[v]
    BY <1>5 DEF Die, End
  <2>2. Unsaved' = Unsaved \ {w}
    BY <1>5 DEF Die, End, Unsaved
  <2>3. /\ Cardinality(Unsaved') \in Nat
        /\ Cardinality(Unsaved) <= Cardinality(Unsaved') + 1
    BY <1>5, <2>2, UnsavedFacts DEF Pending
  <2>4. Cardinality(Unsaved) \in Nat
    BY UnsavedFacts
  <2>5. failures + deaths + Cardinality(Unsaved)
          <= failures' + deaths' + Cardinality(Unsaved')
    BY <1>0, <2>1, <2>3, <2>4
  <2>6. Stands
    BY <1>0, <2>1, <2>2, <2>3, <2>5 DEF Stands
  <2> QED
    BY <2>6, SavedStands
<1>6. ASSUME UNCHANGED vars
      PROVE  Saved(saved)'
  BY <1>1, <1>6 DEF vars, Unsaved
<1> QED
  BY <1>2, <1>3, <1>4, <1>5, <1>6, SavedIncrement, SavedReplace, SavedRestart DEF Next

(* Each killed worker and each failed write costs the dashboard at most    *)
(* one response, in whatever order they come, and restarts of the          *)
(* container take none from its books.                                     *)
THEOREM LossesAreBounded == Spec => []LossIsBounded
<1>1. ASSUME Init PROVE LossInv
  <2> DEFINE none == [p \in Pids |-> 0]
  <2>1. none \in [Pids -> Nat] /\ \A p \in Pids : none[p] = 0
    OBVIOUS
  <2> HIDE DEF none
  <2>2. TypeInv /\ Written
    BY <1>1, TypesInit DEF Init, Written
  <2>3. SumFunctionOnSet(none, Pids) = 0
    BY <2>1, StatsAssumption, SumOfZeros
  <2>4. Unsaved = {} /\ Cardinality(Unsaved) = 0
    BY <1>1, FS_EmptySet DEF Init, Unsaved
  <2>5. /\ \A w \in Workers : pid[w] = NoPid
        /\ handled = Zero /\ failures = 0 /\ deaths = 0
    BY <1>1 DEF Init
  <2>6. \A p \in Pids : none[p] <= Total(files[p])
    BY <2>1, <2>2, TotalFacts DEF TypeInv, TypeOK
  <2>7. Saved(none)
    BY <2>1, <2>3, <2>4, <2>5, <2>6, TotalFacts DEF Saved
  <2> QED
    BY <2>1, <2>2, <2>7 DEF LossInv
<1>2. LossInv /\ [Next]_vars => LossInv'
  BY TypesInductive, WrittenStep, LossStep DEF LossInv
<1>3. ASSUME LossInv PROVE LossIsBounded
  <2> PICK saved \in [Pids -> Nat] : Saved(saved)
    BY <1>3 DEF LossInv
  <2> DEFINE inFile == [p \in Pids |-> Total(files[p])]
  <2>1. inFile \in [Pids -> Nat] /\ \A p \in Pids : saved[p] <= inFile[p]
    BY <1>3, TotalFacts DEF LossInv, TypeInv, TypeOK, Saved
  <2>2. SumFunctionOnSet(inFile, Pids) = Total(Merged(files))
    BY <1>3, TotalOfMerged DEF LossInv, TypeInv, TypeOK
  <2> HIDE DEF inFile
  <2>3. SumFunctionOnSet(saved, Pids) <= SumFunctionOnSet(inFile, Pids)
    BY <2>1, StatsAssumption, SumMonotone
  <2>4. SumFunctionOnSet(saved, Pids) \in Nat /\ SumFunctionOnSet(inFile, Pids) \in Nat
    BY <2>1, StatsAssumption, SumFacts
  <2>5. Cardinality(Unsaved) \in Nat /\ failures \in Nat /\ deaths \in Nat
        /\ Total(handled) \in Nat
    BY <1>3, UnsavedFacts, TotalFacts DEF LossInv, TypeInv, TypeOK
  <2>6. Total(handled)
          <= SumFunctionOnSet(saved, Pids) + failures + deaths + Cardinality(Unsaved)
    BY DEF Saved
  <2> QED
    BY ONLY <2>2, <2>3, <2>4, <2>5, <2>6 DEF LossIsBounded
<1> QED
  BY <1>1, <1>2, <1>3, PTL DEF Spec
=============================================================================
