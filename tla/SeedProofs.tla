----------------------------- MODULE SeedProofs -----------------------------
(***************************************************************************)
(* Proofs about the seeder of module Seed, for every schema whose foreign  *)
(* keys point backwards in LoadOrder, every number of overlapping runs and *)
(* every image.                                                            *)
(***************************************************************************)
EXTENDS Seed, TLAPS

(* There is a table, so LOAD_ORDER is not empty. *)
LEMMA NPositive == N \in Nat /\ N >= 1 /\ 1 \in 1..N /\ N \in 1..N
  <1>1. N \in Nat
    BY OrderAssumption DEF N
  <1>2. PICK i \in 1..N : LoadOrder[i] = Guard
    BY OrderAssumption, SchemaShape
  <1> QED
    BY <1>1, <1>2

(* The neighbours of a position that is not the last, or not the first.    *)
LEMMA Neighbours ==
  ASSUME NEW k \in 1..N
  PROVE  (k # 1 => k - 1 \in 1..N) /\ (k # N => k + 1 \in 1..N)
  BY NPositive

(* LOAD_ORDER names tables only ... *)
LEMMA OrderInTables == \A i \in 1..N : LoadOrder[i] \in Tables
  BY OrderAssumption DEF N

(* ... and all of them. *)
LEMMA AllTables == First(N) = Tables
  BY OrderAssumption, OrderInTables DEF First

(* The next table extends the prefix before it by itself. *)
LEMMA NextFirst ==
  ASSUME NEW k \in 1..N
  PROVE  First(k - 1) \cup {LoadOrder[k]} = First(k)
  BY NPositive DEF First

(* TRUNCATE empties the table itself, and with a table every table that    *)
(* references it.                                                          *)
LEMMA CascadeProperties ==
  ASSUME NEW t \in Tables
  PROVE  /\ t \in Cascade[t]
         /\ Cascade[t] \subseteq Tables
         /\ \A u, v \in Tables :
              u \in Cascade[t] /\ u \in Parents[v] => v \in Cascade[t]
  <1>1. Cascade[t] = {u \in Tables : \A S \in ChildClosedSets : t \in S => u \in S}
    BY DEF Cascade
  <1>2. ASSUME NEW u \in Tables, NEW v \in Tables,
               u \in Cascade[t], u \in Parents[v]
        PROVE  v \in Cascade[t]
    BY <1>1, <1>2 DEF ChildClosedSets
  <1> QED
    BY <1>1, <1>2

-----------------------------------------------------------------------------
(* Every reachable state is well typed. *)
THEOREM Typing == Spec => []TypeOK
  <1> USE NPositive DEF TypeOK
  <1>1. Init => TypeOK
    BY EnvironmentAssumption DEF Init, Phases, Outcomes
  <1>2. ASSUME TypeOK, [Next]_vars
        PROVE  TypeOK'
    <2> USE <1>2 DEF Goto, Finish, Phases, Outcomes
    <2>1. ASSUME NEW s \in Seeders, Start(s)  PROVE TypeOK'
      BY <2>1, EnvironmentAssumption DEF Start
    <2>2. ASSUME NEW s \in Seeders, MissingCsv(s)  PROVE TypeOK'
      BY <2>2 DEF MissingCsv
    <2>3. ASSUME NEW s \in Seeders, OpenManifest(s)  PROVE TypeOK'
      BY <2>3 DEF OpenManifest
    <2>4. ASSUME NEW s \in Seeders, WriteManifest(s)  PROVE TypeOK'
      BY <2>4 DEF WriteManifest
    <2>5. ASSUME NEW s \in Seeders, Connect(s)  PROVE TypeOK'
      BY <2>5 DEF Connect, TruncatesFirst
    <2>6. ASSUME NEW s \in Seeders, AlreadySeeded(s)  PROVE TypeOK'
      BY <2>6 DEF AlreadySeeded
    <2>7. ASSUME NEW s \in Seeders, NotSeeded(s)  PROVE TypeOK'
      BY <2>7 DEF NotSeeded
    <2>8. ASSUME NEW s \in Seeders, Truncate(s)  PROVE TypeOK'
      <3>0. pos[s] \in 1..N
        BY <2>8
      <3>1. pos[s] # 1 => pos[s] - 1 \in 1..N
        BY <3>0, Neighbours
      <3>2. pos' \in [Seeders -> 1..N] /\ pc' \in [Seeders -> Phases]
        BY <2>8, <3>1 DEF Truncate, LastTruncate
      <3> QED
        BY <2>8, <3>2 DEF Truncate
    <2>9. ASSUME NEW s \in Seeders, Copy(s)  PROVE TypeOK'
      <3>0. pos[s] \in 1..N
        BY <2>9
      <3>1. pos[s] # N => pos[s] + 1 \in 1..N
        BY <3>0, Neighbours
      <3>2. pos' \in [Seeders -> 1..N] /\ pc' \in [Seeders -> Phases]
        BY <2>9, <3>1 DEF Copy, CopyCommits, LastCopy
      <3>3. outcome' \in [Seeders -> Outcomes]
        BY <2>9 DEF Copy, CopyCommits
      <3> QED
        BY <2>9, <3>2, <3>3, OrderInTables DEF Copy, CopyCommits
    <2>10. ASSUME NEW s \in Seeders, CopyRejected(s)  PROVE TypeOK'
      BY <2>10 DEF CopyRejected, CopyFails
    <2>11. ASSUME NEW s \in Seeders, LostStatement(s)  PROVE TypeOK'
      BY <2>11, OrderInTables DEF LostStatement
    <2>12. ASSUME NEW s \in Seeders, Lose(s)  PROVE TypeOK'
      BY <2>12 DEF Lose, Remains, Live
    <2>13. ASSUME Redeploy  PROVE TypeOK'
      BY <2>13 DEF Redeploy, Live
    <2>14. CASE UNCHANGED vars
      BY <2>14 DEF vars
    <2> QED
      BY <2>1, <2>2, <2>3, <2>4, <2>5, <2>6, <2>7, <2>8, <2>9, <2>10, <2>11,
         <2>12, <2>13, <2>14 DEF Next, Step
  <1> QED
    BY <1>1, <1>2, PTL DEF Spec

(* Every step of the seeder either leaves the database alone, cascades a   *)
(* TRUNCATE, or adds a table whose COPY the database accepted.             *)
LEMMA DatabaseSteps ==
  ASSUME TypeOK, [Next]_vars
  PROVE  \/ loaded' = loaded
         \/ \E t \in Tables : loaded' = loaded \ Cascade[t]
         \/ \E t \in Tables : Accepted(t) /\ loaded' = loaded \cup {t}
  <1> USE OrderInTables DEF TypeOK
  <1>1. ASSUME NEW s \in Seeders, Truncate(s)
        PROVE  \E t \in Tables : loaded' = loaded \ Cascade[t]
    BY <1>1 DEF Truncate
  <1>2. ASSUME NEW s \in Seeders, Copy(s)
        PROVE  \E t \in Tables : Accepted(t) /\ loaded' = loaded \cup {t}
    BY <1>2 DEF Copy, CopyCommits
  <1>3. ASSUME NEW s \in Seeders, LostStatement(s)
        PROVE  \/ loaded' = loaded
               \/ \E t \in Tables : loaded' = loaded \ Cascade[t]
               \/ \E t \in Tables : Accepted(t) /\ loaded' = loaded \cup {t}
    BY <1>3 DEF LostStatement
  <1> QED
    BY <1>1, <1>2, <1>3 DEF Next, Step, Start, MissingCsv, OpenManifest,
       WriteManifest, Connect, AlreadySeeded, NotSeeded, CopyRejected,
       CopyFails, Lose, Redeploy, vars

(* Foreign keys stay intact through every interleaving and loss: that is   *)
(* the database's doing, and what the proofs below build on.               *)
LEMMA ForeignKeys == Spec => []FKClosed
  <1>1. Init => FKClosed
    BY DEF Init, FKClosed
  <1>2. ASSUME TypeOK, FKClosed, [Next]_vars
        PROVE  FKClosed'
    <2>1. CASE loaded' = loaded
      BY <1>2, <2>1 DEF FKClosed
    <2>2. ASSUME NEW t \in Tables, loaded' = loaded \ Cascade[t]
          PROVE  FKClosed'
      <3> SUFFICES ASSUME NEW v \in loaded', NEW u \in Parents[v]
                   PROVE  u \in loaded'
        BY DEF FKClosed
      <3>1. v \in Tables /\ v \in loaded /\ v \notin Cascade[t]
        BY <1>2, <2>2 DEF TypeOK
      <3>2. u \in Tables /\ u \in loaded
        BY <1>2, <3>1, SchemaShape DEF FKClosed
      <3> QED
        BY <2>2, <3>1, <3>2, CascadeProperties
    <2>3. ASSUME NEW t \in Tables, Accepted(t), loaded' = loaded \cup {t}
          PROVE  FKClosed'
      BY <1>2, <2>3 DEF FKClosed, Accepted
    <2> QED
      BY <1>2, <2>1, <2>2, <2>3, DatabaseSteps
  <1> QED
    BY <1>1, <1>2, Typing, PTL DEF Spec
-----------------------------------------------------------------------------
(* What the lone runs' guarantees rest on: a run that nothing overlapped    *)
(* is the only one with a statement or a client, a --reset run never looks  *)
(* at the guard table, and a lone run's copies and its manifest are still   *)
(* there.                                                                   *)
Connected == {"connect", "check", "truncate", "copy"}

LoneInv ==
  \A s \in Seeders :
    /\ pc[s] = "check" => ~reset[s]
    /\ alone[s] /\ pc[s] # "idle" => \A r \in Seeders \ {s} : pc[r] = "idle"
    /\ alone[s] /\ pc[s] = "copy" => First(pos[s] - 1) \subseteq loaded
    /\ alone[s] /\ pc[s] \in Connected => manifest = "full"

LoneIInv == LoneInv /\ LoneResetExact /\ LoneResetNotRejected

(* A lost run goes quiet or leaves a statement behind, nothing else. *)
LEMMA RemainsQuiet ==
  \A p \in Phases : /\ Remains(p) \subseteq {"idle", "lostTruncate", "lostCopy"}
                    /\ p = "idle" => Remains(p) = {"idle"}
  BY DEF Phases, Remains

(* Once every earlier table is in and no other is, the next COPY is        *)
(* accepted: its table is not among them and its parents are.              *)
LEMMA NextCopyAccepted ==
  ASSUME NEW k \in 1..N, loaded = First(k - 1)
  PROVE  Accepted(LoadOrder[k])
  <1>1. LoadOrder[k] \notin loaded
    BY OrderAssumption, NPositive DEF First
  <1>2. ASSUME NEW u \in Parents[LoadOrder[k]]
        PROVE  u \in loaded
    <2>1. u \in Tables
      BY SchemaShape, OrderInTables
    <2>2. PICK j \in 1..N : LoadOrder[j] = u
      BY <2>1, OrderAssumption
    <2>3. j < k
      BY <2>2, SchemaShape
    <2> QED
      BY <2>2, <2>3, NPositive DEF First
  <1> QED
    BY <1>1, <1>2 DEF Accepted

(* A step by another run leaves a lone run's slot alone, and can only come *)
(* from an idle slot or meet an idle lone one.                             *)
LEMMA OthersAreIdle ==
  ASSUME TypeOK, LoneInv,
         NEW s \in Seeders, NEW q \in Seeders \ {s},
         Start(s) \/ Step(s) \/ Lose(s),
         alone'[q]
  PROVE  pc'[q] = "idle" /\ pc[q] = "idle" /\ outcome'[q] = outcome[q]
         /\ reset'[q] = reset[q] /\ alone[q]
  <1> USE DEF TypeOK, Goto, Finish
  <1>1. CASE Start(s)
    BY <1>1 DEF Start
  <1>2. CASE Step(s) \/ Lose(s)
    <2>1. alone[q] /\ pc[s] # "idle" /\ pc'[q] = pc[q]
          /\ outcome'[q] = outcome[q] /\ reset'[q] = reset[q]
      BY <1>2 DEF Step, Lose, Live, MissingCsv, OpenManifest, WriteManifest,
         Connect, AlreadySeeded, NotSeeded, Truncate, Copy, CopyCommits,
         CopyRejected, CopyFails, LostStatement
    <2>2. pc[q] = "idle"
      BY <2>1 DEF LoneInv
    <2> QED
      BY <2>1, <2>2
  <1> QED
    BY <1>1, <1>2

(* What one run's own step does to the three invariants. *)
LEMMA OwnStep ==
  ASSUME TypeOK, LoneIInv,
         NEW q \in Seeders, Start(q) \/ Step(q) \/ Lose(q)
  PROVE  /\ pc'[q] = "check" => ~reset'[q]
         /\ alone'[q] /\ pc'[q] # "idle" =>
              \A r \in Seeders \ {q} : pc'[r] = "idle"
         /\ alone'[q] /\ pc'[q] = "copy" => First(pos'[q] - 1) \subseteq loaded'
         /\ alone'[q] /\ pc'[q] \in Connected => manifest' = "full"
         /\ alone'[q] /\ reset'[q] =>
              /\ pc'[q] = "truncate" =>
                   \A i \in pos'[q]+1..N : LoadOrder[i] \notin loaded'
              /\ pc'[q] = "copy" => loaded' = First(pos'[q] - 1)
              /\ outcome'[q] # "rejected"
  <1> DEFINE Goal ==
         /\ pc'[q] = "check" => ~reset'[q]
         /\ alone'[q] /\ pc'[q] # "idle" =>
              \A r \in Seeders \ {q} : pc'[r] = "idle"
         /\ alone'[q] /\ pc'[q] = "copy" => First(pos'[q] - 1) \subseteq loaded'
         /\ alone'[q] /\ pc'[q] \in Connected => manifest' = "full"
         /\ alone'[q] /\ reset'[q] =>
              /\ pc'[q] = "truncate" =>
                   \A i \in pos'[q]+1..N : LoadOrder[i] \notin loaded'
              /\ pc'[q] = "copy" => loaded' = First(pos'[q] - 1)
              /\ outcome'[q] # "rejected"
  <1> USE DEF TypeOK, LoneIInv, LoneInv, LoneResetExact, LoneResetNotRejected,
          Goto, Finish, Connected
  <1>1. First(0) = {}
    BY DEF First
  <1>2. CASE Start(q)
    BY <1>2 DEF Start
  <1>3. CASE MissingCsv(q) \/ OpenManifest(q) \/ WriteManifest(q)
             \/ AlreadySeeded(q)
    BY <1>3 DEF MissingCsv, OpenManifest, WriteManifest, AlreadySeeded
  <1>4. CASE Connect(q)
    BY <1>4, NPositive DEF Connect, TruncatesFirst
  <1>5. CASE NotSeeded(q)
    BY <1>1, <1>5 DEF NotSeeded
  <1>6. CASE Truncate(q)
    <2> DEFINE k == pos[q]
    <2>1. k \in 1..N /\ LoadOrder[k] \in Tables
      BY OrderInTables
    <2>2. /\ loaded' = loaded \ Cascade[LoadOrder[k]]
          /\ LoadOrder[k] \in Cascade[LoadOrder[k]]
          /\ alone' = alone /\ reset' = reset /\ outcome' = outcome
      BY <1>6, <2>1, CascadeProperties DEF Truncate
    <2>3. alone[q] /\ reset[q] => \A i \in k..N : LoadOrder[i] \notin loaded'
      <3> SUFFICES ASSUME alone[q], reset[q], NEW i \in k..N
                   PROVE  LoadOrder[i] \notin loaded'
        OBVIOUS
      <3>1. CASE i = k
        BY <2>2, <3>1
      <3>2. CASE i # k
        <4>1. i \in k+1..N
          BY <3>2, <2>1, NPositive
        <4>2. LoadOrder[i] \notin loaded
          BY <1>6, <4>1 DEF Truncate
        <4> QED
          BY <4>2, <2>2
      <3> QED
        BY <3>1, <3>2
    <2>4. CASE k = 1
      <3>1. pc' = [pc EXCEPT ![q] = "copy"] /\ pos' = pos
        BY <1>6, <2>4 DEF Truncate, LastTruncate
      <3>2. alone[q] /\ reset[q] => loaded' = {}
        BY <2>2, <2>3, <2>4, AllTables, NPositive DEF First
      <3> QED
        BY <1>1, <1>6, <2>2, <2>4, <3>1, <3>2 DEF Truncate
    <2>5. CASE k # 1
      <3>1. pc' = pc /\ pos' = [pos EXCEPT ![q] = k - 1]
        BY <1>6, <2>5 DEF Truncate, LastTruncate
      <3>2. pos'[q] + 1 = k
        BY <2>1, <3>1, NPositive
      <3> QED
        BY <1>6, <2>2, <2>3, <3>1, <3>2 DEF Truncate
    <2> QED
      BY <2>4, <2>5
  <1>7. CASE Copy(q)
    <2> DEFINE k == pos[q]
    <2>1. k \in 1..N /\ First(k - 1) \cup {LoadOrder[k]} = First(k)
      BY NextFirst
    <2>2. /\ loaded' = loaded \cup {LoadOrder[k]}
          /\ alone' = alone /\ reset' = reset
      BY <1>7 DEF Copy, CopyCommits
    <2>3. /\ alone[q] => First(k) \subseteq loaded'
          /\ alone[q] /\ reset[q] => loaded' = First(k)
      BY <1>7, <2>1, <2>2 DEF Copy, CopyCommits
    <2>4. CASE k = N
      BY <1>7, <2>2, <2>4 DEF Copy, CopyCommits, LastCopy
    <2>5. CASE k # N
      <3>1. pc' = pc /\ outcome' = outcome /\ pos' = [pos EXCEPT ![q] = k + 1]
        BY <1>7, <2>5 DEF Copy, CopyCommits, LastCopy
      <3>2. pos'[q] - 1 = k
        BY <2>1, <3>1, NPositive
      <3> QED
        BY <1>7, <2>2, <2>3, <3>1, <3>2 DEF Copy, CopyCommits
    <2> QED
      BY <2>4, <2>5
  <1>8. CASE CopyRejected(q)
    <2>1. ~(alone[q] /\ reset[q])
      BY <1>8, NextCopyAccepted DEF CopyRejected, CopyFails
    <2> QED
      BY <1>8, <2>1 DEF CopyRejected, CopyFails
  <1>9. CASE LostStatement(q)
    BY <1>9 DEF LostStatement
  <1>10. CASE Lose(q)
    <2>1. pc'[q] \in {"idle", "lostTruncate", "lostCopy"}
      BY <1>10, RemainsQuiet DEF Lose
    <2> QED
      BY <1>10, <2>1 DEF Lose, Live
  <1> QED
    BY <1>2, <1>3, <1>4, <1>5, <1>6, <1>7, <1>8, <1>9, <1>10 DEF Step

(* LoneIInv is inductive. *)
LEMMA LoneInduction ==
  ASSUME TypeOK, LoneIInv, [Next]_vars
  PROVE  LoneIInv'
  <1>1. ASSUME NEW s \in Seeders, Start(s) \/ Step(s) \/ Lose(s)
        PROVE  LoneIInv'
    <2>1. ASSUME NEW q \in Seeders \ {s}, alone'[q]
          PROVE  pc'[q] = "idle" /\ (reset'[q] => outcome'[q] # "rejected")
      BY <1>1, <2>1, OthersAreIdle DEF LoneIInv, LoneResetNotRejected
    <2>2. ASSUME NEW q \in Seeders \ {s}
          PROVE  pc'[q] = "check" => ~reset'[q]
      BY <1>1 DEF LoneIInv, LoneInv, TypeOK, Goto, Finish, Start, Step, Lose,
         Live, MissingCsv, OpenManifest, WriteManifest, Connect, AlreadySeeded,
         NotSeeded, Truncate, Copy, CopyCommits, CopyRejected, CopyFails,
         LostStatement
    <2> QED
      BY <1>1, <2>1, <2>2, OwnStep
         DEF LoneIInv, LoneInv, LoneResetExact, LoneResetNotRejected, Connected
  <1>2. CASE Redeploy
    <2>1. \A q \in Seeders : /\ pc'[q] \in {"idle", "lostTruncate", "lostCopy"}
                             /\ pc[q] = "idle" => pc'[q] = "idle"
      BY <1>2, RemainsQuiet DEF Redeploy, TypeOK
    <2>2. \A q \in Seeders : /\ outcome'[q] = "rejected" => outcome[q] = "rejected"
                             /\ reset' = reset /\ alone' = alone
      BY <1>2 DEF Redeploy
    <2>3. \A q \in Seeders : pc'[q] # "idle" => pc[q] # "idle"
      BY <2>1
    <2> QED
      BY <2>1, <2>2, <2>3
         DEF LoneIInv, LoneInv, LoneResetExact, LoneResetNotRejected, Connected
  <1>3. CASE UNCHANGED vars
    BY <1>3 DEF vars, LoneIInv, LoneInv, LoneResetExact, LoneResetNotRejected
  <1> QED
    BY <1>1, <1>2, <1>3 DEF Next

(* So it holds in every reachable state. *)
LEMMA LoneInvariance == Spec => [](TypeOK /\ LoneIInv)
  <1>1. ASSUME Init  PROVE LoneIInv
    BY <1>1 DEF Init, LoneIInv, LoneInv, LoneResetExact, LoneResetNotRejected,
       Connected
  <1> QED
    BY <1>1, LoneInduction, Typing, PTL DEF Spec

(* A --reset run that nothing overlaps sees exactly the tables it should,  *)
(* whatever state it started from.                                         *)
THEOREM LoneResetIsExact == Spec => []LoneResetExact
  BY LoneInvariance, PTL DEF LoneIInv

(* No constraint of the database ever stops such a run. *)
THEOREM LoneResetIsAccepted == Spec => []LoneResetNotRejected
  BY LoneInvariance, PTL DEF LoneIInv

(* A run that nothing overlapped says "seed complete" of a complete        *)
(* database only, with or without --reset.                                 *)
THEOREM LoneComplete == Spec => LoneCompleteIsComplete
  <1>1. ASSUME TypeOK, LoneIInv, [Next]_vars,
               NEW s \in Seeders, alone[s],
               outcome[s] = "running", outcome'[s] = "complete"
        PROVE  loaded' = Tables /\ SeedCheck' = "ok"
    <2>1. Copy(s) /\ pos[s] = N
      <3> USE <1>1 DEF TypeOK, Goto, Finish
      <3>1. ~Redeploy
        BY DEF Redeploy
      <3>2. PICK q \in Seeders : Start(q) \/ Step(q) \/ Lose(q)
        BY <3>1 DEF Next, vars
      <3>3. Copy(q)
        BY <3>2 DEF Step, Start, Lose, MissingCsv, OpenManifest,
           WriteManifest, Connect, AlreadySeeded, NotSeeded, Truncate,
           CopyRejected, CopyFails, LostStatement
      <3> QED
        BY <3>3 DEF Copy, CopyCommits, LastCopy
    <2>2. First(N - 1) \subseteq loaded /\ loaded' = loaded \cup {LoadOrder[N]}
      BY <1>1, <2>1 DEF Copy, CopyCommits, LoneIInv, LoneInv
    <2>3. First(N - 1) \cup {LoadOrder[N]} = Tables
      BY NextFirst, NPositive, AllTables
    <2>4. loaded \subseteq Tables /\ LoadOrder[N] \in Tables
      BY <1>1, OrderInTables, NPositive DEF TypeOK
    <2>5. manifest' = "full"
      BY <1>1, <2>1 DEF Copy, CopyCommits, LoneIInv, LoneInv, Connected
    <2> QED
      BY <2>2, <2>3, <2>4, <2>5 DEF SeedCheck
  <1>2. TypeOK /\ LoneIInv /\ [Next]_vars =>
          [\A s \in Seeders :
             alone[s] /\ outcome[s] = "running" /\ outcome'[s] = "complete"
               => loaded' = Tables /\ SeedCheck' = "ok"]_vars
    BY <1>1
  <1> QED
    BY <1>2, LoneInvariance, PTL DEF Spec, LoneCompleteIsComplete

-----------------------------------------------------------------------------
(* What a lone run without --reset found and has not come to yet.  It is   *)
(* closed under references by itself, so no table of it can be one that    *)
(* references what the run has loaded.                                     *)
Leftover(s) == loaded \ First(pos[s] - 1)

LeftoverInv ==
  \A s \in Seeders : alone[s] /\ ~reset[s] /\ pc[s] = "copy" =>
    /\ Guard \notin Leftover(s)
    /\ \A t \in Leftover(s) : Parents[t] \subseteq Leftover(s)

(* A lone run that has loaded trips has found nothing else: what comes     *)
(* after trips would have a parent before it.                              *)
LEMMA NothingLeft ==
  ASSUME TypeOK, LeftoverInv,
         NEW s \in Seeders, alone[s], ~reset[s], pc[s] = "copy", Guard \in loaded
  PROVE  Leftover(s) = {}
  <1> DEFINE k == pos[s]
  <1>1. k \in 1..N
    BY DEF TypeOK
  <1>2. PICK g \in 1..N :
          /\ LoadOrder[g] = Guard
          /\ \A i \in g+1..N : \E j \in 1..g : LoadOrder[j] \in Parents[LoadOrder[i]]
    BY GuardAssumption
  <1>3. g <= k - 1
    <2>1. PICK i \in 1..k-1 : LoadOrder[i] = Guard
      BY DEF LeftoverInv, Leftover, First
    <2>2. i \in 1..N
      BY <1>1, <2>1, NPositive
    <2> QED
      BY <1>2, <2>1, <2>2, OrderAssumption
  <1>4. ASSUME NEW t \in Leftover(s)
        PROVE  FALSE
    <2>1. t \in Tables /\ t \notin First(k - 1) /\ Parents[t] \subseteq Leftover(s)
      BY <1>4 DEF TypeOK, LeftoverInv, Leftover
    <2>2. PICK i \in 1..N : LoadOrder[i] = t
      BY <2>1, OrderAssumption
    <2>3. ~(i <= k - 1)
      BY <1>1, <2>1, <2>2, NPositive DEF First
    <2>4. i \in g+1..N
      BY <1>1, <1>3, <2>2, <2>3, NPositive
    <2>5. PICK j \in 1..g : LoadOrder[j] \in Parents[t]
      BY <1>2, <2>2, <2>4
    <2>6. j \in 1..k-1
      BY <1>1, <1>3, <2>5, NPositive
    <2>7. LoadOrder[j] \in First(k - 1)
      BY <2>6 DEF First
    <2> QED
      BY <2>1, <2>5, <2>7 DEF Leftover
  <1> QED
    BY <1>4

(* So a lone run that is stopped has not come to trips.                    *)
LEMMA StoppedBeforeTrips ==
  ASSUME TypeOK, LoneIInv, LeftoverInv,
         NEW s \in Seeders, alone[s], CopyRejected(s)
  PROVE  Guard \notin loaded
  <1>1. pos[s] \in 1..N /\ pc[s] = "copy" /\ reset[s] \in BOOLEAN
    BY DEF CopyRejected, CopyFails, TypeOK
  <1>2. loaded # First(pos[s] - 1)
    BY <1>1, NextCopyAccepted DEF CopyRejected
  <1>3. First(pos[s] - 1) \subseteq loaded /\ ~reset[s]
    BY <1>1, <1>2 DEF LoneIInv, LoneInv, LoneResetExact
  <1>4. Leftover(s) # {}
    BY <1>2, <1>3 DEF Leftover
  <1> QED
    BY <1>1, <1>3, <1>4, NothingLeft

OnlyResetsTruncate == \A s \in Seeders : pc[s] = "truncate" => reset[s]

LEMMA OnlyResetsTruncateStep ==
  ASSUME TypeOK, OnlyResetsTruncate, [Next]_vars
  PROVE  OnlyResetsTruncate'
  <1> USE DEF TypeOK, OnlyResetsTruncate, Goto, Finish
  <1>1. ASSUME NEW s \in Seeders, Start(s) \/ Step(s)  PROVE OnlyResetsTruncate'
    BY <1>1 DEF Start, Step, MissingCsv, OpenManifest, WriteManifest, Connect,
       TruncatesFirst, AlreadySeeded, NotSeeded, Truncate, Copy, CopyCommits,
       CopyRejected, CopyFails, LostStatement
  <1>2. ASSUME NEW s \in Seeders, Lose(s)  PROVE OnlyResetsTruncate'
    BY <1>2, RemainsQuiet DEF Lose
  <1>3. CASE Redeploy
    BY <1>3, RemainsQuiet DEF Redeploy
  <1>4. CASE UNCHANGED vars
    BY <1>4 DEF vars
  <1> QED
    BY <1>1, <1>2, <1>3, <1>4 DEF Next

(* LeftoverInv is inductive.  A copy moves on by a table that was not      *)
(* there, so the leftover stays what it was.                               *)
LEMMA LeftoverStep ==
  ASSUME TypeOK, LoneIInv, FKClosed, OnlyResetsTruncate, LeftoverInv, [Next]_vars
  PROVE  LeftoverInv'
  <1> SUFFICES ASSUME NEW q \in Seeders, alone'[q], ~reset'[q], pc'[q] = "copy"
               PROVE  /\ Guard \notin Leftover(q)'
                      /\ \A t \in Leftover(q)' : Parents[t] \subseteq Leftover(q)'
    BY DEF LeftoverInv
  <1> USE DEF TypeOK, Goto, Finish
  <1>1. CASE Redeploy
    BY <1>1, RemainsQuiet DEF Redeploy
  <1>2. CASE UNCHANGED vars
    BY <1>2 DEF vars, LeftoverInv, Leftover
  <1>3. ASSUME NEW s \in Seeders, Start(s) \/ Step(s) \/ Lose(s)
        PROVE  /\ Guard \notin Leftover(q)'
               /\ \A t \in Leftover(q)' : Parents[t] \subseteq Leftover(q)'
    <2>1. s = q
      <3>1. CASE s # q
        BY <1>3, <3>1, OthersAreIdle DEF LoneIInv
      <3> QED
        BY <3>1
    <2>2. NotSeeded(q) \/ Copy(q) \/ Truncate(q)
      <3>1. ~Lose(q)
        BY RemainsQuiet DEF Lose
      <3> QED
        BY <1>3, <2>1, <3>1 DEF Start, Step, MissingCsv, OpenManifest, WriteManifest,
           Connect, AlreadySeeded, CopyRejected, CopyFails, LostStatement
    <2>3. CASE NotSeeded(q)
      <3>1. loaded' = loaded /\ pos'[q] = 1 /\ Guard \notin loaded
        BY <2>3 DEF NotSeeded, TableHasData
      <3>2. Leftover(q)' = loaded
        BY <3>1 DEF Leftover, First
      <3> QED
        BY <3>1, <3>2 DEF FKClosed
    <2>4. CASE Copy(q)
      <3> DEFINE k == pos[q]
      <3>1. /\ k \in 1..N /\ pc[q] = "copy" /\ alone[q] /\ ~reset[q]
            /\ loaded' = loaded \cup {LoadOrder[k]} /\ LoadOrder[k] \notin loaded
        BY <2>4 DEF Copy, CopyCommits, Accepted
      <3>2. k # N /\ pos'[q] = k + 1
        BY <2>4 DEF Copy, CopyCommits, LastCopy
      <3>3. pos'[q] - 1 = k
        BY <3>1, <3>2, NPositive
      <3>4. First(k) = First(k - 1) \cup {LoadOrder[k]}
        BY <3>1, NextFirst
      <3>5. Leftover(q)' = Leftover(q)
        <4>1. Leftover(q)' = loaded' \ First(k)
          BY <3>3 DEF Leftover, First
        <4> QED
          BY <3>1, <3>4, <4>1 DEF Leftover
      <3> QED
        BY <3>1, <3>5 DEF LeftoverInv
    <2>5. CASE Truncate(q)
      <3>1. reset'[q] = reset[q] /\ pc[q] = "truncate"
        BY <2>5 DEF Truncate
      <3> QED
        BY <3>1 DEF OnlyResetsTruncate
    <2> QED
      BY <2>2, <2>3, <2>4, <2>5
  <1> QED
    BY <1>1, <1>2, <1>3 DEF Next

(* A constraint stops a lone run only where trips are not loaded: a failed *)
(* run never turns into "already seeded", whatever it found.               *)
THEOREM RejectedMeansUnseeded == Spec => RejectionIsNoSeed
  <1>1. Init => LeftoverInv /\ OnlyResetsTruncate
    BY DEF Init, LeftoverInv, OnlyResetsTruncate
  <1>2. ASSUME TypeOK, LoneIInv, LeftoverInv, [Next]_vars,
               NEW s \in Seeders, alone[s],
               outcome[s] = "running", outcome'[s] = "rejected"
        PROVE  Guard \notin loaded'
    <2>1. CopyRejected(s)
      <3> USE <1>2 DEF TypeOK, Goto, Finish
      <3>1. ~Redeploy
        BY DEF Redeploy
      <3>2. PICK q \in Seeders : Start(q) \/ Step(q) \/ Lose(q)
        BY <3>1 DEF Next, vars
      <3>3. CopyRejected(q)
        BY <3>2 DEF Step, Start, Lose, MissingCsv, OpenManifest, WriteManifest,
           Connect, AlreadySeeded, NotSeeded, Truncate, Copy, CopyCommits,
           LostStatement
      <3> QED
        BY <3>3 DEF CopyRejected, CopyFails
    <2>2. loaded' = loaded
      BY <2>1 DEF CopyRejected, CopyFails
    <2> QED
      BY <1>2, <2>1, <2>2, StoppedBeforeTrips
  <1>3. TypeOK /\ LoneIInv /\ LeftoverInv /\ [Next]_vars =>
          [\A s \in Seeders :
             alone[s] /\ outcome[s] = "running" /\ outcome'[s] = "rejected"
               => Guard \notin loaded']_vars
    BY <1>2
  <1> QED
    BY <1>1, <1>3, LeftoverStep, OnlyResetsTruncateStep, LoneInvariance,
       ForeignKeys, PTL DEF Spec, RejectionIsNoSeed

-----------------------------------------------------------------------------
(* Past the manifest, the image ships every CSV file. *)
CsvInv ==
  \A s \in Seeders :
    pc[s] \in {"write", "connect", "check", "truncate", "copy"} => csv = Tables

(* A deployment that lacks a CSV file costs no data. *)
THEOREM MissingCsvIsHarmless == Spec => MissingCsvCostsNothing
  <1>1. Init => CsvInv
    BY DEF Init, CsvInv
  <1>2. ASSUME TypeOK, CsvInv, [Next]_vars
        PROVE  CsvInv'
    <2> USE <1>2 DEF TypeOK, CsvInv, Goto, Finish
    <2>0. ASSUME NEW s \in Seeders, Start(s)  PROVE CsvInv'
      BY <2>0 DEF Start
    <2>1. ASSUME NEW s \in Seeders, Lose(s)  PROVE CsvInv'
      <3>1. PICK p \in Remains(pc[s]) : pc' = [pc EXCEPT ![s] = p]
        BY <2>1 DEF Lose
      <3>2. p \in {"idle", "lostTruncate", "lostCopy"}
        BY <2>1, <3>1, RemainsQuiet
      <3> QED
        BY <2>1, <3>1, <3>2 DEF Lose
    <2>2. ASSUME NEW s \in Seeders, Step(s)  PROVE CsvInv'
      BY <2>2 DEF Step, MissingCsv, OpenManifest, EveryCsvPresent,
         WriteManifest, Connect, AlreadySeeded, NotSeeded, Truncate, Copy,
         CopyCommits, CopyRejected, CopyFails, LostStatement
    <2>3. CASE Redeploy
      <3>1. \A s \in Seeders : pc'[s] \in {"idle", "lostTruncate", "lostCopy"}
        BY <2>3, RemainsQuiet DEF Redeploy
      <3> QED
        BY <3>1
    <2>4. CASE UNCHANGED vars
      BY <2>4 DEF vars
    <2> QED
      BY <2>0, <2>1, <2>2, <2>3, <2>4 DEF Next
  <1>3. ASSUME TypeOK, CsvInv, [Next]_vars, loaded \ loaded' # {}
        PROVE  csv = Tables \/ \E s \in Seeders : pc[s] = "lostTruncate"
    <2>1. \/ \E s \in Seeders : Truncate(s)
          \/ \E s \in Seeders : LostStatement(s) /\ pc[s] = "lostTruncate"
      BY <1>3 DEF Next, Step, Start, MissingCsv, OpenManifest, WriteManifest,
         Connect, AlreadySeeded, NotSeeded, Copy, CopyCommits, CopyRejected,
         CopyFails, LostStatement, Lose, Redeploy, vars
    <2> QED
      BY <1>3, <2>1 DEF Truncate, CsvInv
  <1>4. TypeOK /\ CsvInv /\ [Next]_vars =>
          [loaded \ loaded' # {} =>
             csv = Tables \/ \E s \in Seeders : pc[s] = "lostTruncate"]_vars
    BY <1>3
  <1> QED
    BY <1>1, <1>2, <1>4, Typing, PTL DEF Spec, MissingCsvCostsNothing

-----------------------------------------------------------------------------
(* Runs without --reset: none truncates, the database holds the first m    *)
(* tables, and no copy in flight is ahead of the table after them.         *)
NoTruncate ==
  \A s \in Seeders : ~reset[s] /\ pc[s] \notin {"truncate", "lostTruncate"}

PrefixAt(m) ==
  /\ loaded = First(m)
  /\ \A s \in Seeders : pc[s] \in {"copy", "lostCopy"} => pos[s] <= m + 1

(* Some live run is at the table after the prefix. *)
Carried(m) == m \in {0, N} \/ \E s \in Seeders : pc[s] = "copy" /\ pos[s] = m + 1

(* Where nobody asks for --reset, no step truncates. *)
LEMMA NoTruncateStep ==
  ASSUME TypeOK, ResetFlags = {FALSE}, NoTruncate, [Next]_vars
  PROVE  NoTruncate'
  <1> USE DEF TypeOK, NoTruncate, Goto, Finish
  <1>1. ASSUME NEW s \in Seeders, Start(s) \/ Step(s)  PROVE NoTruncate'
    BY <1>1 DEF Start, Step, MissingCsv, OpenManifest, WriteManifest, Connect,
       TruncatesFirst, AlreadySeeded, NotSeeded, Truncate, Copy, CopyCommits,
       CopyRejected, CopyFails, LostStatement
  <1>2. ASSUME NEW s \in Seeders, Lose(s)  PROVE NoTruncate'
    <2>1. PICK p \in Remains(pc[s]) : pc' = [pc EXCEPT ![s] = p]
      BY <1>2 DEF Lose
    <2>2. p \notin {"truncate", "lostTruncate"}
      BY <1>2, <2>1 DEF Remains
    <2> QED
      BY <1>2, <2>1, <2>2 DEF Lose
  <1>3. CASE Redeploy
    <2>1. \A s \in Seeders : pc'[s] \notin {"truncate", "lostTruncate"}
      BY <1>3 DEF Redeploy, Remains
    <2> QED
      BY <1>3, <2>1 DEF Redeploy
  <1>4. CASE UNCHANGED vars
    BY <1>4 DEF vars
  <1> QED
    BY <1>1, <1>2, <1>3, <1>4 DEF Next

(* A copy that the database accepts is the one after the prefix. *)
LEMMA AcceptedIsNext ==
  ASSUME NEW m \in 0..N, PrefixAt(m), NEW s \in Seeders, TypeOK,
         pc[s] \in {"copy", "lostCopy"}, Accepted(LoadOrder[pos[s]])
  PROVE  pos[s] = m + 1 /\ First(m) \cup {LoadOrder[pos[s]]} = First(m + 1)
  <1>0. pos[s] \in 1..N
    BY DEF TypeOK
  <1>1. pos[s] \in 1..N /\ pos[s] <= m + 1
    BY <1>0 DEF PrefixAt
  <1>2. ~(pos[s] <= m)
    BY <1>1, NPositive DEF PrefixAt, Accepted, First
  <1>3. pos[s] = m + 1
    BY <1>1, <1>2, NPositive
  <1>4. pos[s] - 1 = m
    BY <1>3, NPositive
  <1> QED
    BY <1>0, <1>3, <1>4, NextFirst

(* The steps that leave the database alone keep every copy where it was,   *)
(* or start one at the first table.                                        *)
LEMMA SamePrefix ==
  ASSUME TypeOK, NoTruncate, [Next]_vars, loaded' = loaded,
         NEW m \in 0..N, PrefixAt(m)
  PROVE  PrefixAt(m)'
  <1> USE DEF TypeOK, NoTruncate, Goto, Finish, PrefixAt
  <1>1. ASSUME NEW s \in Seeders, Start(s)  PROVE PrefixAt(m)'
    BY <1>1 DEF Start
  <1>2. ASSUME NEW s \in Seeders, Step(s), ~Copy(s)  PROVE PrefixAt(m)'
    <2>1. CASE NotSeeded(s)
      <3>1. 1 <= m + 1
        BY NPositive
      <3> QED
        BY <1>2, <2>1, <3>1 DEF NotSeeded
    <2>2. CASE Connect(s)
      BY <1>2, <2>2 DEF Connect
    <2> QED
      BY <1>2, <2>1, <2>2 DEF Step, MissingCsv, OpenManifest, WriteManifest,
         AlreadySeeded, Truncate, CopyRejected, CopyFails, LostStatement
  <1>3. ASSUME NEW s \in Seeders, Copy(s)  PROVE PrefixAt(m)'
    BY <1>3 DEF Copy, CopyCommits, Accepted
  <1>4. ASSUME NEW s \in Seeders, Lose(s)  PROVE PrefixAt(m)'
    <2>1. PICK p \in Remains(pc[s]) : pc' = [pc EXCEPT ![s] = p]
      BY <1>4 DEF Lose
    <2>2. p \in {"copy", "lostCopy"} => pc[s] \in {"copy", "lostCopy"}
      BY <1>4, <2>1 DEF Remains
    <2> QED
      BY <1>4, <2>1, <2>2 DEF Lose
  <1>5. CASE Redeploy
    <2>1. \A s \in Seeders :
            pc'[s] \in {"copy", "lostCopy"} => pc[s] \in {"copy", "lostCopy"}
      BY <1>5 DEF Redeploy, Remains
    <2> QED
      BY <1>5, <2>1 DEF Redeploy
  <1>6. CASE UNCHANGED vars
    BY <1>6 DEF vars
  <1> QED
    BY <1>1, <1>2, <1>3, <1>4, <1>5, <1>6 DEF Next

(* A step that writes is a copy of the table after the prefix, in flight   *)
(* from a live run or left behind by a lost one.                           *)
LEMMA PlainWrite ==
  ASSUME TypeOK, NoTruncate, [Next]_vars, loaded' # loaded,
         NEW m \in 0..N, PrefixAt(m)
  PROVE  /\ m + 1 \in 1..N
         /\ PrefixAt(m + 1)'
         /\ \E s \in Seeders : pos[s] = m + 1 /\ (Copy(s) \/ LostStatement(s))
  <1>1. PICK s \in Seeders : /\ Copy(s) \/ LostStatement(s)
                            /\ pc[s] \in {"copy", "lostCopy"}
                            /\ Accepted(LoadOrder[pos[s]])
                            /\ loaded' = loaded \cup {LoadOrder[pos[s]]}
    <2>1. PICK s \in Seeders : Copy(s) \/ LostStatement(s)
      BY DEF NoTruncate, Next, Step, Start, MissingCsv, OpenManifest,
         WriteManifest, Connect, AlreadySeeded, NotSeeded, Truncate,
         CopyRejected, CopyFails, Lose, Redeploy, vars
    <2>2. CASE Copy(s)
      BY <2>2 DEF Copy, CopyCommits
    <2>3. CASE LostStatement(s)
      BY <2>3 DEF LostStatement, NoTruncate
    <2> QED
      BY <2>1, <2>2, <2>3
  <1>2. pos[s] = m + 1 /\ loaded' = First(m + 1)
    BY <1>1, AcceptedIsNext DEF PrefixAt
  <1>3. m + 1 \in 1..N
    BY <1>2, <1>1 DEF TypeOK
  <1>4. ASSUME NEW q \in Seeders, pc'[q] \in {"copy", "lostCopy"}
        PROVE  pos'[q] <= m + 2
    <2>1. pos[q] \in 1..N /\ pos[s] \in 1..N
      BY DEF TypeOK
    <2>2. CASE q # s
      <3>1. pc'[q] = pc[q] /\ pos'[q] = pos[q]
        BY <1>1, <2>2 DEF TypeOK, Copy, CopyCommits, LostStatement, Goto,
           Finish
      <3> QED
        BY <1>4, <3>1, <2>1 DEF PrefixAt
    <2>3. CASE q = s
      <3>1. pos'[q] \in {pos[q], pos[q] + 1}
        BY <1>1, <2>3 DEF TypeOK, Copy, CopyCommits, LostStatement
      <3> QED
        BY <1>2, <2>1, <2>3, <3>1
    <2> QED
      BY <2>2, <2>3
  <1> QED
    BY <1>1, <1>2, <1>3, <1>4 DEF PrefixAt

PlainInv == NoTruncate /\ \E m \in 0..N : PrefixAt(m)

(* Without --reset, no interleaving and no loss leaves a gap in what was   *)
(* loaded.                                                                 *)
THEOREM PlainRunsKeepAPrefix ==
  ASSUME ResetFlags = {FALSE}
  PROVE  Spec => []PlainPrefix
  <1>1. ASSUME Init  PROVE PlainInv
    <2>1. PrefixAt(0)
      BY <1>1 DEF Init, PrefixAt, First
    <2> QED
      BY <1>1, <2>1, NPositive DEF Init, PlainInv, NoTruncate
  <1>2. ASSUME TypeOK, PlainInv, [Next]_vars
        PROVE  PlainInv'
    <2>1. PICK m \in 0..N : PrefixAt(m)
      BY <1>2 DEF PlainInv
    <2>2. NoTruncate'
      BY <1>2, NoTruncateStep DEF PlainInv
    <2>3. CASE loaded' = loaded
      BY <1>2, <2>1, <2>2, <2>3, SamePrefix DEF PlainInv
    <2>4. CASE loaded' # loaded
      <3>1. m + 1 \in 0..N /\ PrefixAt(m + 1)'
        BY <1>2, <2>1, <2>4, PlainWrite DEF PlainInv
      <3> QED
        BY <2>2, <3>1 DEF PlainInv
    <2> QED
      BY <2>3, <2>4
  <1>3. PlainInv => PlainPrefix
    BY DEF PlainInv, PrefixAt, PlainPrefix
  <1> QED
    BY <1>1, <1>2, <1>3, Typing, PTL DEF Spec

CalmInv ==
  /\ NoTruncate
  /\ \A s \in Seeders : pc[s] # "lostCopy"
  /\ \E m \in 0..N : PrefixAt(m) /\ Carried(m)

(* Plain runs of which none is lost are safe to submit any number of       *)
(* times: they stop with everything loaded, or before anything was.        *)
THEOREM DoubleSubmitIsSafe ==
  ASSUME ResetFlags = {FALSE}, Losses = FALSE
  PROVE  Spec => []DoubleSubmitSafe
  <1>1. ASSUME Init  PROVE CalmInv
    <2>1. PrefixAt(0) /\ Carried(0)
      BY <1>1 DEF Init, PrefixAt, First, Carried
    <2> QED
      BY <1>1, <2>1, NPositive DEF Init, CalmInv, NoTruncate
  <1>2. ASSUME TypeOK, CalmInv, [Next]_vars
        PROVE  CalmInv'
    <2>1. PICK m \in 0..N : PrefixAt(m) /\ Carried(m)
      BY <1>2 DEF CalmInv
    <2>2. NoTruncate'
      BY <1>2, NoTruncateStep DEF CalmInv
    <2>3. \A s \in Seeders : pc'[s] # "lostCopy"
      BY <1>2 DEF CalmInv, TypeOK, Next, Step, Lose, Redeploy, Start,
         MissingCsv, OpenManifest, WriteManifest, Connect, AlreadySeeded,
         NotSeeded, Truncate, Copy, CopyCommits, CopyRejected, CopyFails,
         LostStatement, Goto, Finish, vars
    <2>4. CASE loaded' = loaded
      <3>1. PrefixAt(m)'
        BY <1>2, <2>1, <2>4, SamePrefix DEF CalmInv
      <3>2. ASSUME m \notin {0, N}, NEW s \in Seeders,
                   pc[s] = "copy", pos[s] = m + 1
            PROVE  pc'[s] = "copy" /\ pos'[s] = m + 1
        <4>1. m + 1 \in 1..N /\ pos[s] - 1 = m
          BY <3>2, NPositive
        <4>2. Accepted(LoadOrder[pos[s]])
          BY <2>1, <3>2, <4>1, NextCopyAccepted DEF PrefixAt
        <4>3. ~Copy(s) /\ ~CopyRejected(s)
          BY <2>4, <4>2 DEF Copy, CopyCommits, CopyRejected, Accepted
        <4>4. CASE UNCHANGED vars
          BY <3>2, <4>4 DEF vars
        <4>5. ASSUME NEW q \in Seeders, Start(q) \/ Step(q)
              PROVE  pc'[s] = "copy" /\ pos'[s] = m + 1
          <5>1. CASE q = s
            BY <3>2, <4>3, <4>5, <5>1 DEF Start, Step, MissingCsv,
               OpenManifest, WriteManifest, Connect, AlreadySeeded, NotSeeded,
               Truncate, LostStatement
          <5>2. CASE q # s
            BY <1>2, <3>2, <4>5, <5>2 DEF TypeOK, Start, Step, MissingCsv,
               OpenManifest, WriteManifest, Connect, AlreadySeeded, NotSeeded,
               Truncate, Copy, CopyCommits, CopyRejected, CopyFails,
               LostStatement, Goto, Finish
          <5> QED
            BY <5>1, <5>2
        <4> QED
          BY <1>2, <4>4, <4>5 DEF Next, Lose, Redeploy
      <3>3. Carried(m)'
        BY <2>1, <3>2 DEF Carried
      <3> QED
        BY <2>2, <2>3, <3>1, <3>3 DEF CalmInv
    <2>5. CASE loaded' # loaded
      <3>1. /\ m + 1 \in 1..N
            /\ PrefixAt(m + 1)'
        BY <1>2, <2>1, <2>5, PlainWrite DEF CalmInv
      <3>2. PICK s \in Seeders : pos[s] = m + 1 /\ (Copy(s) \/ LostStatement(s))
        BY <1>2, <2>1, <2>5, PlainWrite DEF CalmInv
      <3>3. Copy(s)
        BY <1>2, <3>2 DEF CalmInv, NoTruncate, LostStatement
      <3>4. m + 1 # N => pc'[s] = "copy" /\ pos'[s] = m + 2
        BY <1>2, <3>1, <3>2, <3>3 DEF TypeOK, Copy, CopyCommits, LastCopy
      <3>5. Carried(m + 1)'
        BY <3>1, <3>4 DEF Carried
      <3> QED
        BY <2>2, <2>3, <3>1, <3>5 DEF CalmInv
    <2> QED
      BY <2>4, <2>5
  <1>3. ASSUME CalmInv  PROVE DoubleSubmitSafe
    <2>1. PICK m \in 0..N : PrefixAt(m) /\ Carried(m)
      BY <1>3 DEF CalmInv
    <2>2. First(0) = {} /\ First(N) = Tables
      BY AllTables DEF First
    <2> QED
      BY <2>1, <2>2 DEF DoubleSubmitSafe, Quiet, PrefixAt, Carried
  <1> QED
    BY <1>1, <1>2, <1>3, Typing, PTL DEF Spec
=============================================================================
