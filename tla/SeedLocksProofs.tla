--------------------------- MODULE SeedLocksProofs ---------------------------
(***************************************************************************)
(* That the table locks of PostgreSQL make the statements of the seeder    *)
(* atomic, so that module Seed is the right description of it, and what    *)
(* the same locks give to a page: for any schema, any number of runs and   *)
(* of requests, and any pages that satisfy the assumptions.                *)
(***************************************************************************)
EXTENDS SeedLocks, TLAPS

(* What a run's statement locks is needed, its own table first. *)
RunLocks ==
  \A s \in Seeders :
    /\ held[s] \subseteq Needs(s)
    /\ want[s] # NoTable => want[s] \in Needs(s) \ held[s]
    /\ Truncating(s) \/ Copying(s) =>
         \/ Target(s) \in held[s]
         \/ held[s] = {} /\ want[s] \in {NoTable, Target(s)}

(* Locks that conflict are not held together. *)
Compatible ==
  \A x, y \in Sessions : \A t \in held[x] \cap held[y] : x # y => ~Conflict(x, y, t)

(* What a COPY has found under its locks stays so: its own table is empty, *)
(* the referenced ones are not.                                            *)
CopyProtected ==
  \A s \in Seeders : Copying(s) =>
    \A t \in held[s] : t = Target(s) <=> t \notin loaded

(* A page holds the tables that it has read, and waits for the next one.   *)
PageLocks ==
  \A r \in Readers :
    /\ rpos[r] = 0 => plan[r] = <<>> /\ want[r] = NoTable
    /\ held[r] \subseteq {plan[r][i].table : i \in {j \in DOMAIN plan[r] : j < rpos[r]}}
    /\ \A i \in DOMAIN plan[r] :
         i < rpos[r] /\ plan[r][i].after = {} => plan[r][i].table \in held[r]
    /\ want[r] # NoTable =>
         /\ rpos[r] \in DOMAIN plan[r]
         /\ want[r] = plan[r][rpos[r]].table
         /\ plan[r][rpos[r]].after \subseteq seen[r]
    /\ seen[r] \subseteq held[r]

(* A run that is under way and alone is the only one under way. *)
AloneIsAlone ==
  \A s, q \in Seeders : alone[s] /\ pc[s] # "idle" /\ q # s => pc[q] = "idle"

LInv ==
  /\ S!TypeOK /\ S!FKClosed /\ AloneIsAlone
  /\ TypeOK /\ RunLocks /\ Compatible /\ CopyProtected /\ PageLocks
  /\ SeenStillThere /\ ReferencesResolve

-----------------------------------------------------------------------------
LEMMA OrderLength == S!N \in Nat
  BY SeederAssumption DEF S!OrderAssumption, S!N

(* The table of a run's statement. *)
LEMMA TargetIsTable ==
  ASSUME S!TypeOK, NEW s \in Seeders
  PROVE  pos[s] \in 1..S!N /\ Target(s) \in Tables
  <1>1. pos[s] \in 1..S!N
    BY DEF S!TypeOK
  <1> QED
    BY <1>1, SeederAssumption DEF S!OrderAssumption, S!N, Target

(* What a table references are other tables. *)
LEMMA ParentsAreOthers ==
  ASSUME NEW t \in Tables
  PROVE  Parents[t] \subseteq Tables /\ t \notin Parents[t]
  <1>1. PICK i \in 1..S!N : LoadOrder[i] = t
    BY SeederAssumption DEF S!OrderAssumption
  <1>2. i \in Nat
    BY OrderLength
  <1> QED
    BY <1>1, <1>2, SeederAssumption DEF S!SchemaShape

(* TRUNCATE empties the table itself, nothing but tables, and with a table *)
(* every one that references it.                                           *)
LEMMA CascadeFacts ==
  ASSUME NEW t \in Tables
  PROVE  /\ t \in S!Cascade[t]
         /\ S!Cascade[t] \subseteq Tables
         /\ \A C \in S!ChildClosedSets : t \in C => S!Cascade[t] \subseteq C
         /\ \A u, v \in Tables :
              u \in S!Cascade[t] /\ u \in Parents[v] => v \in S!Cascade[t]
  <1>1. S!Cascade[t] =
          {u \in Tables : \A C \in S!ChildClosedSets : t \in C => u \in C}
    BY DEF S!Cascade
  <1>2. ASSUME NEW u \in Tables, NEW v \in Tables,
               u \in S!Cascade[t], u \in Parents[v]
        PROVE  v \in S!Cascade[t]
    BY <1>1, <1>2 DEF S!ChildClosedSets
  <1> QED
    BY <1>1, <1>2

(* A statement locks tables. *)
LEMMA NeedsTables ==
  ASSUME S!TypeOK, NEW s \in Seeders
  PROVE  Needs(s) \subseteq Tables
  <1>1. Target(s) \in Tables /\ Guard \in Tables
    BY TargetIsTable, SeederAssumption DEF S!SchemaShape
  <1> QED
    BY <1>1, CascadeFacts, ParentsAreOthers DEF Needs

LEMMA ConflictSymmetric ==
  ASSUME NEW x, NEW y, NEW t, Conflict(x, y, t)
  PROVE  Conflict(y, x, t)
  BY DEF Conflict

(* A COPY that has its locks would be accepted: what SQL checks under them *)
(* holds.                                                                  *)
LEMMA CopyWithLocksAccepted ==
  ASSUME LInv, NEW s \in Seeders, Copying(s), HasLocks(s)
  PROVE  S!Accepted(Target(s))
  <1>1. Target(s) \in Tables
    BY TargetIsTable DEF LInv
  <1>2. {Target(s)} \cup Parents[Target(s)] \subseteq held[s]
    BY DEF HasLocks, Needs, Copying, Truncating
  <1> QED
    BY <1>1, <1>2, ParentsAreOthers DEF LInv, CopyProtected, S!Accepted

(* And one that the database rejects could not have been. *)
LEMMA ViolationNotAccepted ==
  ASSUME LInv, NEW s \in Seeders, Violation(s)
  PROVE  ~S!Accepted(Target(s))
  <1>1. want[s] \in {Target(s)} \cup Parents[Target(s)]
    BY DEF LInv, RunLocks, Violation, Needs, Copying, Truncating
  <1> QED
    BY <1>1 DEF Violation, S!Accepted

(* Every step is a step of module Seed, or moves locks only. *)
LEMMA StepRefines ==
  ASSUME LInv, [Next]_vars
  PROVE  S!Next \/ UNCHANGED seedVars
  <1>1. ASSUME NEW s \in Seeders, Ask(s) \/ Grant(s)
        PROVE  UNCHANGED seedVars
    BY <1>1 DEF Ask, Grant
  <1>2. ASSUME NEW s \in Seeders, Check(s)  PROVE S!Next
    BY <1>2 DEF Check, S!Next, S!Step
  <1>3. ASSUME NEW s \in Seeders, Truncate(s)  PROVE S!Next
    BY <1>3 DEF Truncate, S!Next, S!Step
  <1>4. ASSUME NEW s \in Seeders, Copy(s)  PROVE S!Next
    <2>1. Copying(s) /\ HasLocks(s) /\ S!CopyCommits(s)
      BY <1>4 DEF Copy, S!CopyCommits, Copying
    <2>2. S!Accepted(LoadOrder[pos[s]])
      BY <2>1, CopyWithLocksAccepted DEF Target
    <2> QED
      BY <2>1, <2>2 DEF S!Next, S!Step, S!Copy
  <1>5. ASSUME NEW s \in Seeders, CopyRejected(s)  PROVE S!Next
    <2>1. Violation(s) /\ S!CopyFails(s)
      BY <1>5 DEF CopyRejected
    <2>2. ~S!Accepted(LoadOrder[pos[s]])
      BY <2>1, ViolationNotAccepted DEF Target
    <2> QED
      BY <2>1, <2>2 DEF S!Next, S!Step, S!CopyRejected
  <1>6. ASSUME NEW s \in Seeders, LostStatement(s)  PROVE S!Next
    <2>1. pc[s] = "lostCopy" /\ HasLocks(s) => S!Accepted(LoadOrder[pos[s]])
      BY CopyWithLocksAccepted DEF Target, Copying
    <2>2. S!LostStatement(s)
      BY <1>6, <2>1 DEF LostStatement, S!LostStatement, Target
    <2> QED
      BY <2>2 DEF S!Next, S!Step
  <1>7. ASSUME NEW s \in Seeders, Local(s)  PROVE S!Next
    BY <1>7 DEF Local, S!Next, S!Step
  <1>8. ASSUME NEW s \in Seeders, Lose(s)  PROVE S!Next
    BY <1>8 DEF Lose, S!Next
  <1>9. CASE Redeploy
    BY <1>9 DEF Redeploy, S!Next
  <1>10. ASSUME NEW s \in Seeders, AbortRun(s)  PROVE S!Next \/ UNCHANGED seedVars
    <2>1. CASE S!Live(s)
      <3>1. "idle" \in S!Remains(pc[s])
        BY <2>1 DEF S!Live, S!Remains
      <3>2. S!Lose(s)
        BY <1>10, <2>1, <3>1 DEF AbortRun, S!Lose, S!Finish, S!Goto
      <3> QED
        BY <3>2 DEF S!Next
    <2>2. CASE pc[s] \in {"lostTruncate", "lostCopy"}
      <3>1. S!LostStatement(s)
        BY <1>10, <2>2 DEF AbortRun, S!LostStatement, S!Live, S!Goto
      <3> QED
        BY <3>1 DEF S!Next, S!Step
    <2>3. CASE pc[s] = "idle"
      <3>1. pc' = pc
        BY <1>10, <2>3 DEF AbortRun, S!Live, S!Goto, LInv, S!TypeOK
      <3> QED
        BY <1>10, <2>3, <3>1 DEF AbortRun, S!Live, seedVars
    <2> QED
      BY <2>1, <2>2, <2>3 DEF S!Live
  <1>11. ASSUME NEW r \in Readers,
                PageStep(r) \/ Open(r) \/ Stop(r) \/ CloseSession(r)
         PROVE  UNCHANGED seedVars
    BY <1>11 DEF PageStep, Ask, Grant, Skip, Close, Open, Stop, CloseSession
  <1>12. CASE Detect
    BY <1>10, <1>11, <1>12 DEF Detect, Rings, Sessions
  <1>13. CASE Reorder
    BY <1>13 DEF Reorder
  <1>14. CASE UNCHANGED vars
    BY <1>14 DEF vars
  <1> QED
    BY <1>1, <1>2, <1>3, <1>4, <1>5, <1>6, <1>7, <1>8, <1>9, <1>11, <1>12,
       <1>13, <1>14 DEF Next, RunStep

-----------------------------------------------------------------------------
(* What module Seed contributes to the invariant is preserved by its steps *)
(* whatever the locks do: its variables stay in their domains, ...         *)
LEMMA SeedTyping ==
  ASSUME S!TypeOK, S!Next \/ UNCHANGED seedVars
  PROVE  S!TypeOK'
  <1> USE DEF S!TypeOK, S!Goto, S!Finish, S!Phases, S!Outcomes
  <1>1. ASSUME NEW s \in Seeders
        PROVE  /\ pos[s] \in 1..S!N /\ LoadOrder[pos[s]] \in Tables
               /\ 1 \in 1..S!N /\ S!N \in 1..S!N
               /\ pos[s] # 1 => pos[s] - 1 \in 1..S!N
               /\ pos[s] # S!N => pos[s] + 1 \in 1..S!N
    <2>1. S!N \in Nat
      BY OrderLength
    <2>2. pos[s] \in 1..S!N
      OBVIOUS
    <2>3. LoadOrder[pos[s]] \in Tables
      BY TargetIsTable DEF Target
    <2> HIDE DEF S!TypeOK
    <2> QED
      BY <2>1, <2>2, <2>3
  <1>2. ASSUME NEW s \in Seeders, S!Start(s)  PROVE S!TypeOK'
    <2>1. S!EnvironmentAssumption
      BY ONLY SeederAssumption
    <2> QED
      BY <1>2, <2>1 DEF S!Start, S!EnvironmentAssumption
  <1>3. ASSUME NEW s \in Seeders,
               S!MissingCsv(s) \/ S!OpenManifest(s) \/ S!WriteManifest(s)
        PROVE  S!TypeOK'
    BY <1>3 DEF S!MissingCsv, S!OpenManifest, S!WriteManifest
  <1>4. ASSUME NEW s \in Seeders, S!Connect(s)  PROVE S!TypeOK'
    BY <1>1, <1>4 DEF S!Connect
  <1>5. ASSUME NEW s \in Seeders, S!AlreadySeeded(s) \/ S!NotSeeded(s)
        PROVE  S!TypeOK'
    BY <1>1, <1>5 DEF S!AlreadySeeded, S!NotSeeded
  <1>6. ASSUME NEW s \in Seeders, S!Truncate(s)  PROVE S!TypeOK'
    <2>1. pos' \in [Seeders -> 1..S!N] /\ pc' \in [Seeders -> S!Phases]
      BY <1>1, <1>6 DEF S!Truncate, S!LastTruncate
    <2> QED
      BY <1>6, <2>1 DEF S!Truncate
  <1>7. ASSUME NEW s \in Seeders, S!Copy(s)  PROVE S!TypeOK'
    <2>1. pos' \in [Seeders -> 1..S!N] /\ pc' \in [Seeders -> S!Phases]
      BY <1>1, <1>7 DEF S!Copy, S!CopyCommits, S!LastCopy
    <2>2. outcome' \in [Seeders -> S!Outcomes]
      BY <1>7 DEF S!Copy, S!CopyCommits
    <2> QED
      BY <1>1, <1>7, <2>1, <2>2 DEF S!Copy, S!CopyCommits
  <1>8. ASSUME NEW s \in Seeders, S!CopyRejected(s)  PROVE S!TypeOK'
    BY <1>8 DEF S!CopyRejected, S!CopyFails
  <1>9. ASSUME NEW s \in Seeders, S!LostStatement(s)  PROVE S!TypeOK'
    BY <1>1, <1>9 DEF S!LostStatement
  <1>10. ASSUME NEW s \in Seeders, S!Lose(s)  PROVE S!TypeOK'
    BY <1>10 DEF S!Lose, S!Remains, S!Live
  <1>11. CASE S!Redeploy
    BY <1>11 DEF S!Redeploy, S!Live
  <1>12. CASE UNCHANGED seedVars
    BY <1>12 DEF seedVars
  <1> QED
    BY <1>2, <1>3, <1>4, <1>5, <1>6, <1>7, <1>8, <1>9, <1>10, <1>11, <1>12
       DEF S!Next, S!Step

(* ... a TRUNCATE takes away what references its table, and a COPY that is *)
(* accepted adds a table whose parents are there, ...                      *)
LEMMA SeedForeignKeys ==
  ASSUME S!TypeOK, S!FKClosed, S!Next \/ UNCHANGED seedVars
  PROVE  S!FKClosed'
  <1>1. CASE loaded' = loaded
    BY <1>1 DEF S!FKClosed
  <1>2. ASSUME NEW t \in Tables, loaded' = loaded \ S!Cascade[t]
        PROVE  S!FKClosed'
    <2> SUFFICES ASSUME NEW v \in loaded', NEW u \in Parents[v]
                 PROVE  u \in loaded'
      BY DEF S!FKClosed
    <2>1. v \in Tables /\ v \in loaded /\ v \notin S!Cascade[t]
      BY <1>2 DEF S!TypeOK
    <2>2. u \in Tables /\ u \in loaded
      BY <2>1, ParentsAreOthers DEF S!FKClosed
    <2> QED
      BY <1>2, <2>1, <2>2, CascadeFacts
  <1>3. ASSUME NEW t \in Tables, S!Accepted(t), loaded' = loaded \cup {t}
        PROVE  S!FKClosed'
    BY <1>3 DEF S!FKClosed, S!Accepted
  <1>4. ASSUME NEW s \in Seeders,
               S!Truncate(s) \/ S!Copy(s) \/ S!LostStatement(s)
        PROVE  S!FKClosed'
    <2>1. LoadOrder[pos[s]] \in Tables
      BY TargetIsTable DEF Target
    <2> QED
      BY <1>1, <1>2, <1>3, <1>4, <2>1
         DEF S!Truncate, S!Copy, S!CopyCommits, S!LostStatement
  <1> QED
    BY <1>1, <1>4 DEF S!Next, S!Step, S!Start, S!MissingCsv, S!OpenManifest,
       S!WriteManifest, S!Connect, S!AlreadySeeded, S!NotSeeded,
       S!CopyRejected, S!CopyFails, S!Lose, S!Redeploy, seedVars

(* ... and only Start, which ends or begins being alone, makes a run busy. *)
LEMMA SeedAlone ==
  ASSUME S!TypeOK, AloneIsAlone, S!Next \/ UNCHANGED seedVars
  PROVE  AloneIsAlone'
  <1> USE DEF S!TypeOK, AloneIsAlone, S!Goto, S!Finish
  <1>1. ASSUME NEW s \in Seeders, S!Start(s)  PROVE AloneIsAlone'
    BY <1>1 DEF S!Start
  <1>2. ASSUME NEW s \in Seeders, S!Step(s) \/ S!Lose(s)  PROVE AloneIsAlone'
    <2>1. alone' = alone /\ pc[s] # "idle"
          /\ \A q \in Seeders \ {s} : pc'[q] = pc[q]
      BY <1>2 DEF S!Step, S!Lose, S!Live, S!MissingCsv, S!OpenManifest,
         S!WriteManifest, S!Connect, S!AlreadySeeded, S!NotSeeded, S!Truncate,
         S!Copy, S!CopyCommits, S!CopyRejected, S!CopyFails, S!LostStatement
    <2> QED
      BY <2>1
  <1>3. CASE S!Redeploy
    <2>1. \A q \in Seeders : pc[q] = "idle" => pc'[q] = "idle"
      BY <1>3 DEF S!Redeploy, S!Remains
    <2> QED
      BY <1>3, <2>1 DEF S!Redeploy
  <1>4. CASE UNCHANGED seedVars
    BY <1>4 DEF seedVars
  <1> QED
    BY <1>1, <1>2, <1>3, <1>4 DEF S!Next

-----------------------------------------------------------------------------
(* What a step of the runs is to the locks.  Those in X release theirs; of *)
(* the others each holds none or goes on with its statement; and what      *)
(* changes in the database was locked by one of X.                         *)
SameStatement(s) ==
  /\ Truncating(s)' = Truncating(s) /\ Copying(s)' = Copying(s)
  /\ Target(s)' = Target(s) /\ Needs(s)' = Needs(s)

Unlocked(s) == held[s] = {} /\ want[s] = NoTable

StatementsEnd(X) ==
  /\ Release(X)
  /\ UNCHANGED pageVars
  /\ \A s \in Seeders \ X : Unlocked(s) \/ SameStatement(s)
  /\ \/ loaded' = loaded
     \/ \E q \in X : /\ HasLocks(q) /\ Truncating(q)
                     /\ loaded' = loaded \ S!Cascade[Target(q)]
     \/ \E q \in X : /\ HasLocks(q) /\ Copying(q)
                     /\ loaded' = loaded \cup {Target(q)}

(* Steps that leave pc and pos of a run alone leave its statement alone. *)
LEMMA StatementByPlace ==
  ASSUME NEW s \in Seeders, pc'[s] = pc[s], pos'[s] = pos[s]
  PROVE  SameStatement(s)
  BY DEF SameStatement, Truncating, Copying, Target, Needs

(* So does the loss of the client. *)
LEMMA StatementOfLost ==
  ASSUME NEW s \in Seeders, pc'[s] \in S!Remains(pc[s]), pc'[s] # "idle",
         pc[s] \in S!Phases, pos'[s] = pos[s]
  PROVE  SameStatement(s)
  <1>1. \/ pc'[s] = pc[s]
        \/ pc[s] = "truncate" /\ pc'[s] = "lostTruncate"
        \/ pc[s] = "copy" /\ pc'[s] = "lostCopy"
    BY DEF S!Remains, S!Phases
  <1> QED
    BY <1>1 DEF SameStatement, Truncating, Copying, Target, Needs

(* A run without a statement holds nothing. *)
LEMMA NothingNeeded ==
  ASSUME LInv, NEW s \in Seeders,
         pc[s] \in {"idle", "count", "write", "connect"}
  PROVE  Unlocked(s)
  <1>1. Needs(s) = {}
    BY DEF Needs, Truncating, Copying
  <1> QED
    BY <1>1 DEF LInv, RunLocks, Unlocked

LEMMA NobodyReleases ==
  ASSUME TypeOK, UNCHANGED lockVars
  PROVE  Release({})
  BY DEF TypeOK, lockVars, Release, QueueWithout

(* A step of one run is such a step. *)
LEMMA RunSteps ==
  ASSUME LInv, NEW s \in Seeders,
         \/ Check(s) \/ Truncate(s) \/ Copy(s) \/ CopyRejected(s)
         \/ LostStatement(s) \/ Local(s) \/ Lose(s) \/ AbortRun(s)
  PROVE  \E X \in SUBSET Seeders : StatementsEnd(X)
  <1> DEFINE Ends == \E X \in SUBSET Seeders : StatementsEnd(X)
  <1> USE DEF S!Goto, S!Finish
  <1>0. S!TypeOK /\ TypeOK
    BY DEF LInv
  <1>1. ASSUME NEW q \in Seeders \ {s}
        PROVE  SameStatement(q)
    <2>1. pc'[q] = pc[q] /\ pos'[q] = pos[q]
      BY <1>0 DEF S!TypeOK, Check, Truncate, Copy, CopyRejected, LostStatement,
         Local, Lose, AbortRun, S!AlreadySeeded, S!NotSeeded, S!Truncate,
         S!CopyCommits, S!CopyFails, S!Lose, S!Start, S!MissingCsv,
         S!OpenManifest, S!WriteManifest, S!Connect
    <2> QED
      BY <2>1, StatementByPlace
  <1>2. CASE /\ Release({s}) /\ UNCHANGED pageVars
             /\ \/ loaded' = loaded
                \/ /\ HasLocks(s) /\ Truncating(s)
                   /\ loaded' = loaded \ S!Cascade[Target(s)]
                \/ /\ HasLocks(s) /\ Copying(s)
                   /\ loaded' = loaded \cup {Target(s)}
    <2>1. StatementsEnd({s})
      BY <1>1, <1>2 DEF StatementsEnd
    <2> QED
      BY <2>1
  <1>3. CASE /\ UNCHANGED <<lockVars, pageVars>> /\ loaded' = loaded
             /\ Unlocked(s) \/ SameStatement(s)
    <2>1. StatementsEnd({})
      BY <1>0, <1>1, <1>3, NobodyReleases DEF StatementsEnd
    <2> QED
      BY <2>1
  <1>4. CASE Check(s) \/ CopyRejected(s) \/ AbortRun(s)
    BY <1>2, <1>4 DEF Check, CopyRejected, AbortRun, S!AlreadySeeded,
       S!NotSeeded, S!CopyFails, pageVars
  <1>5. CASE Truncate(s)
    BY <1>2, <1>5 DEF Truncate, S!Truncate, Truncating, Target
  <1>6. CASE Copy(s)
    BY <1>2, <1>6 DEF Copy, S!CopyCommits, Copying, Target
  <1>7. CASE LostStatement(s)
    BY <1>2, <1>7 DEF LostStatement, Truncating, Copying, pageVars
  <1>8. CASE Local(s)
    <2>1. pc[s] \in {"idle", "count", "write", "connect"}
      BY <1>8 DEF Local, S!Start, S!MissingCsv, S!OpenManifest,
         S!WriteManifest, S!Connect
    <2>2. Unlocked(s)
      BY <2>1, NothingNeeded
    <2> QED
      BY <1>3, <1>8, <2>2 DEF Local, S!Start, S!MissingCsv, S!OpenManifest,
         S!WriteManifest, S!Connect
  <1>9. CASE Lose(s)
    <2>1. pc'[s] \in S!Remains(pc[s]) /\ pc[s] \in S!Phases
          /\ pos' = pos /\ loaded' = loaded
      BY <1>0, <1>9 DEF Lose, S!Lose, S!TypeOK
    <2>2. CASE pc'[s] = "idle"
      BY <1>2, <1>9, <2>1, <2>2 DEF Lose
    <2>3. CASE pc'[s] # "idle"
      BY <1>3, <1>9, <2>1, <2>3, StatementOfLost DEF Lose
    <2> QED
      BY <2>2, <2>3
  <1> QED
    BY <1>4, <1>5, <1>6, <1>7, <1>8, <1>9

(* And so is a deployment. *)
LEMMA RedeployEnds ==
  ASSUME LInv, Redeploy
  PROVE  \E X \in SUBSET Seeders : StatementsEnd(X)
  <1> DEFINE X == {s \in Seeders : pc'[s] = "idle"}
  <1>1. ASSUME NEW s \in Seeders \ X
        PROVE  SameStatement(s)
    BY StatementOfLost DEF LInv, S!TypeOK, Redeploy, S!Redeploy
  <1>2. StatementsEnd(X)
    BY <1>1 DEF Redeploy, S!Redeploy, StatementsEnd
  <1> QED
    BY <1>2

(* The kinds of steps there are. *)
LEMMA StepKinds ==
  ASSUME LInv, Next
  PROVE  \/ \E x \in Sessions : Ask(x) \/ Grant(x)
         \/ Reorder
         \/ \E X \in SUBSET Seeders : StatementsEnd(X)
         \/ \E r \in Readers : Open(r) \/ Skip(r) \/ CloseSession(r)
  <1>1. ASSUME NEW s \in Seeders, RunStep(s) \/ Local(s) \/ Lose(s) \/ AbortRun(s)
        PROVE  \/ \E x \in Sessions : Ask(x) \/ Grant(x)
               \/ \E X \in SUBSET Seeders : StatementsEnd(X)
    BY <1>1, RunSteps DEF RunStep, Sessions
  <1>2. ASSUME NEW r \in Readers, PageStep(r) \/ Open(r) \/ Stop(r)
        PROVE  \/ \E x \in Sessions : Ask(x) \/ Grant(x)
               \/ \E q \in Readers : Open(q) \/ Skip(q) \/ CloseSession(q)
    BY <1>2 DEF PageStep, Close, Stop, Sessions
  <1>3. CASE Detect
    BY <1>1, <1>3 DEF Detect, Rings, Sessions
  <1> QED
    BY <1>1, <1>2, <1>3, RedeployEnds DEF Next

-----------------------------------------------------------------------------
(* Sessions that release their locks leave the queue in order. *)
LEMMA ReleaseTyped ==
  ASSUME TypeOK, NEW X \in SUBSET Sessions, Release(X),
         plan' \in [Readers -> Plans \cup {<<>>}],
         rpos' \in [Readers -> Nat],
         \A r \in Readers : rpos'[r] <= Len(plan'[r]) + 1,
         seen' \in [Readers -> SUBSET Tables]
  PROVE  TypeOK'
  <1>1. /\ held' \in [Sessions -> SUBSET Tables]
        /\ want' \in [Sessions -> Tables \cup {NoTable}]
    BY DEF TypeOK, Release
  <1>2. Waiting' = Waiting \ X
    BY DEF TypeOK, Release, Waiting
  <1>3. \A x, y \in Waiting' : <<x, y>> \in queue' <=> <<x, y>> \in queue
    BY <1>2 DEF TypeOK, Release, QueueWithout
  <1>4. queue' \subseteq Waiting' \X Waiting'
    BY <1>2 DEF TypeOK, Release, QueueWithout
  <1>5. /\ \A x, y \in Waiting' : <<x, y>> \in queue' <=> x # y /\ <<y, x>> \notin queue'
        /\ \A x, y, z \in Waiting' :
             <<x, y>> \in queue' /\ <<y, z>> \in queue' => <<x, z>> \in queue'
    BY <1>2, <1>3 DEF TypeOK
  <1> QED
    BY <1>1, <1>4, <1>5 DEF TypeOK

(* Locks that are kept conflict with what they conflicted with. *)
LEMMA SameConflict ==
  ASSUME NEW x \in Sessions, NEW y \in Sessions, NEW t,
         \A s \in Seeders \cap {x, y} : SameStatement(s)
  PROVE  Conflict(x, y, t)' <=> Conflict(x, y, t)
  <1>1. ASSUME NEW z \in {x, y}
        PROVE  /\ Truncating(z)' = Truncating(z) /\ Copying(z)' = Copying(z)
               /\ Copying(z) => Target(z)' = Target(z)
    <2>1. CASE z \in Seeders
      BY <2>1 DEF SameStatement
    <2>2. CASE z \notin Seeders
      BY <2>2 DEF Truncating, Copying
    <2> QED
      BY <2>1, <2>2
  <1>2. /\ Truncating(x)' = Truncating(x) /\ Copying(x)' = Copying(x)
        /\ Truncating(y)' = Truncating(y) /\ Copying(y)' = Copying(y)
        /\ Copying(x) => Target(x)' = Target(x)
        /\ Copying(y) => Target(y)' = Target(y)
    BY <1>1
  <1> QED
    BY <1>2 DEF Conflict

LEMMA StatementsEndKeeps ==
  ASSUME LInv, NEW X \in SUBSET Seeders, StatementsEnd(X)
  PROVE  /\ TypeOK' /\ RunLocks' /\ Compatible' /\ CopyProtected'
         /\ PageLocks' /\ SeenStillThere' /\ ReferencesResolve'
  <1>0. /\ TypeOK /\ S!TypeOK /\ RunLocks /\ Compatible /\ CopyProtected
        /\ PageLocks /\ SeenStillThere /\ ReferencesResolve
    BY DEF LInv
  <1>1. \A x \in Sessions :
          /\ held'[x] = IF x \in X THEN {} ELSE held[x]
          /\ want'[x] = IF x \in X THEN NoTable ELSE want[x]
    BY DEF StatementsEnd, Release
  <1>2. ASSUME NEW s \in Seeders
        PROVE  \/ Unlocked(s)'
               \/ held'[s] = held[s] /\ want'[s] = want[s] /\ SameStatement(s)
    <2>1. CASE s \in X
      BY <1>1, <2>1 DEF Unlocked, Sessions
    <2>2. CASE s \notin X
      BY <1>1, <2>2 DEF StatementsEnd, Unlocked, Sessions
    <2> QED
      BY <2>1, <2>2
  <1>3. plan' = plan /\ rpos' = rpos /\ seen' = seen
        /\ \A r \in Readers : held'[r] = held[r] /\ want'[r] = want[r]
    BY <1>1, SessionsAssumption DEF StatementsEnd, pageVars, Sessions
  <1>4. TypeOK'
    <2>1. X \in SUBSET Sessions
      BY DEF Sessions
    <2> QED
      BY <1>0, <1>3, <2>1, ReleaseTyped DEF StatementsEnd, TypeOK
  <1>5. RunLocks'
    <2> SUFFICES ASSUME NEW s \in Seeders
                 PROVE  /\ held'[s] \subseteq Needs(s)'
                        /\ want'[s] # NoTable => want'[s] \in Needs(s)' \ held'[s]
                        /\ Truncating(s)' \/ Copying(s)' =>
                             \/ Target(s)' \in held'[s]
                             \/ held'[s] = {} /\ want'[s] \in {NoTable, Target(s)'}
      BY DEF RunLocks
    <2>1. CASE Unlocked(s)'
      BY <2>1 DEF Unlocked
    <2>2. CASE held'[s] = held[s] /\ want'[s] = want[s] /\ SameStatement(s)
      BY <1>0, <2>2 DEF RunLocks, SameStatement
    <2> QED
      BY <1>2, <2>1, <2>2
  <1>6. Compatible'
    <2> SUFFICES ASSUME NEW x \in Sessions, NEW y \in Sessions,
                        NEW t \in held'[x] \cap held'[y], x # y
                 PROVE  ~Conflict(x, y, t)'
      BY DEF Compatible
    <2>1. \A s \in Seeders \cap {x, y} : SameStatement(s)
      BY <1>2 DEF Unlocked
    <2>2. t \in held[x] \cap held[y]
      BY <1>1
    <2> QED
      BY <1>0, <2>1, <2>2, SameConflict DEF Compatible
  (* What others still have locked, no statement of X has touched. *)
  <1>7. ASSUME NEW q \in X, NEW y \in Sessions \ X, NEW t \in held[y],
               HasLocks(q), Truncating(q)
        PROVE  t \notin S!Cascade[Target(q)]
    <2>1. S!Cascade[Target(q)] \subseteq held[q]
      BY <1>7 DEF HasLocks, Needs, Truncating, Copying
    <2>2. q \in Sessions /\ q # y /\ Conflict(q, y, t)
      BY <1>7 DEF Sessions, Conflict
    <2> QED
      BY <1>0, <2>1, <2>2 DEF Compatible
  <1>8. CopyProtected'
    <2> SUFFICES ASSUME NEW s \in Seeders, Copying(s)', NEW t \in held'[s]
                 PROVE  t = Target(s)' <=> t \notin loaded'
      BY DEF CopyProtected
    <2>1. s \in Sessions \ X /\ t \in held[s]
      BY <1>1 DEF Sessions
    <2>2. Copying(s) /\ Target(s)' = Target(s)
      BY <1>2 DEF Unlocked, SameStatement
    <2>3. t = Target(s) <=> t \notin loaded
      BY <1>0, <2>1, <2>2 DEF CopyProtected
    <2>4. CASE loaded' = loaded
      BY <2>2, <2>3, <2>4
    <2>5. ASSUME NEW q \in X, HasLocks(q), Truncating(q),
                 loaded' = loaded \ S!Cascade[Target(q)]
          PROVE  t = Target(s)' <=> t \notin loaded'
      BY <1>7, <2>1, <2>2, <2>3, <2>5
    <2>6. ASSUME NEW q \in X, HasLocks(q), Copying(q),
                 loaded' = loaded \cup {Target(q)}
          PROVE  t = Target(s)' <=> t \notin loaded'
      <3>1. Target(q) \in held[q]
        BY <2>6 DEF HasLocks, Needs, Truncating, Copying
      <3>2. t = Target(q) => t # Target(s)
        BY <1>0, <2>1, <2>2, <2>6, <3>1 DEF Compatible, Conflict, Sessions
      <3> QED
        BY <2>2, <2>3, <2>6, <3>2
    <2> QED
      BY <2>4, <2>5, <2>6 DEF StatementsEnd
  <1>9. PageLocks' /\ ReferencesResolve'
    BY <1>0, <1>3 DEF PageLocks, ReferencesResolve
  <1>10. SeenStillThere'
    <2> SUFFICES ASSUME NEW r \in Readers, NEW t \in seen[r]
                 PROVE  t \in loaded'
      BY <1>3 DEF SeenStillThere
    <2>1. t \in loaded /\ t \in held[r] /\ r \in Sessions \ X
      BY <1>0, SessionsAssumption DEF SeenStillThere, PageLocks, Sessions
    <2> QED
      BY <1>7, <2>1 DEF StatementsEnd
  <1> QED
    BY <1>4, <1>5, <1>6, <1>8, <1>9, <1>10

(* The rest of a step moves locks and pages: statements stay as they are.  *)
LEMMA SameStatements ==
  ASSUME UNCHANGED seedVars
  PROVE  /\ \A s \in Seeders : SameStatement(s)
         /\ \A x, y \in Sessions : \A t : Conflict(x, y, t)' <=> Conflict(x, y, t)
  <1>1. \A s \in Seeders : SameStatement(s)
    BY StatementByPlace DEF seedVars
  <1> QED
    BY <1>1, SameConflict

(* A session asks for one of the tables it needs next. *)
LEMMA AskKeeps ==
  ASSUME LInv, NEW x \in Sessions, Ask(x)
  PROVE  /\ TypeOK' /\ RunLocks' /\ Compatible' /\ CopyProtected'
         /\ PageLocks' /\ SeenStillThere' /\ ReferencesResolve'
  <1>0. /\ TypeOK /\ S!TypeOK /\ RunLocks /\ Compatible /\ CopyProtected
        /\ PageLocks /\ SeenStillThere /\ ReferencesResolve
    BY DEF LInv
  <1>1. PICK t \in AsksFor(x) \ held[x] : want' = [want EXCEPT ![x] = t]
    BY DEF Ask
  <1>2. /\ want[x] = NoTable /\ held' = held /\ UNCHANGED seedVars
        /\ UNCHANGED pageVars /\ queue' = queue \cup {<<y, x>> : y \in Waiting}
        /\ loaded' = loaded
    BY DEF Ask, seedVars
  <1>3. ASSUME NEW y \in Sessions
        PROVE  want'[y] = IF y = x THEN t ELSE want[y]
    BY <1>0, <1>1 DEF TypeOK
  <1>4. \A s \in Seeders : SameStatement(s)
    BY <1>2, SameStatements
  (* What it asks for. *)
  <1>5. ASSUME x \in Seeders
        PROVE  /\ t \in Needs(x) \ held[x]
               /\ (Truncating(x) \/ Copying(x)) /\ Target(x) \notin held[x]
                    => t = Target(x)
    <2>1. x \notin Readers
      BY <1>5, SessionsAssumption
    <2>2. pos[x] \in 1..S!N /\ Target(x) \in Tables
      BY <1>0, <1>5, TargetIsTable
    <2>3. Truncating(x) \/ Copying(x) => Target(x) \in Needs(x)
      BY <2>2, CascadeFacts DEF Needs, Truncating, Copying
    <2> QED
      BY <1>1, <2>1, <2>3 DEF AsksFor
  <1>6. ASSUME x \in Readers
        PROVE  /\ rpos[x] \in DOMAIN plan[x] /\ t = plan[x][rpos[x]].table
               /\ plan[x][rpos[x]].after \subseteq seen[x]
               /\ t \in Tables
    <2>1. /\ rpos[x] \in DOMAIN plan[x] /\ t = plan[x][rpos[x]].table
          /\ plan[x][rpos[x]].after \subseteq seen[x]
      BY <1>1, <1>6 DEF AsksFor
    <2>2. plan[x] \in Plans
      BY <1>0, <1>6, <2>1 DEF TypeOK
    <2>3. plan[x] \in Seq(Steps)
      BY <2>2, PlansAssumption
    <2>4. plan[x][rpos[x]] \in Steps
      BY <2>1, <2>3
    <2> QED
      BY <2>1, <2>4 DEF Steps
  <1>7. t \in Tables
    BY <1>0, <1>5, <1>6, NeedsTables DEF Sessions
  <1>8. TypeOK'
    <2>1. want' \in [Sessions -> Tables \cup {NoTable}]
      BY <1>0, <1>1, <1>7 DEF TypeOK
    <2>2. Waiting' = Waiting \cup {x} /\ x \notin Waiting
      BY <1>2, <1>3, <1>7, SessionsAssumption DEF Waiting
    <2>3. queue' \subseteq Waiting' \X Waiting'
      BY <1>0, <1>2, <2>2 DEF TypeOK
    <2>4. \A y, z \in Waiting' :
            <<y, z>> \in queue' <=> (<<y, z>> \in queue \/ (z = x /\ y \in Waiting))
      BY <1>2
    <2>5. \A y : <<y, x>> \notin queue /\ <<x, y>> \notin queue
      BY <1>0, <2>2 DEF TypeOK
    <2>6. \A y, z \in Waiting' : <<y, z>> \in queue' <=> y # z /\ <<z, y>> \notin queue'
      <3> SUFFICES ASSUME NEW y \in Waiting', NEW z \in Waiting'
                   PROVE  <<y, z>> \in queue' <=> y # z /\ <<z, y>> \notin queue'
        OBVIOUS
      <3>1. /\ <<y, z>> \in queue' <=> (<<y, z>> \in queue \/ (z = x /\ y \in Waiting))
            /\ <<z, y>> \in queue' <=> (<<z, y>> \in queue \/ (y = x /\ z \in Waiting))
        BY <2>4
      <3>2. CASE y \in Waiting /\ z \in Waiting
        <4>1. <<y, z>> \in queue <=> y # z /\ <<z, y>> \notin queue
          BY <1>0, <3>2 DEF TypeOK
        <4> QED
          BY ONLY <2>2, <3>1, <3>2, <4>1
      <3>3. CASE y = x \/ z = x
        <4>1. <<y, z>> \notin queue /\ <<z, y>> \notin queue
          BY ONLY <2>5, <3>3
        <4>2. y \in Waiting \cup {x} /\ z \in Waiting \cup {x}
          BY <2>2
        <4> QED
          BY ONLY <2>2, <3>1, <3>3, <4>1, <4>2
      <3> QED
        BY <2>2, <3>2, <3>3
    <2>7. \A u, y, z \in Waiting' :
            <<u, y>> \in queue' /\ <<y, z>> \in queue' => <<u, z>> \in queue'
      <3>1. /\ queue \subseteq Waiting \X Waiting
            /\ \A u, y, z \in Waiting :
                 <<u, y>> \in queue /\ <<y, z>> \in queue => <<u, z>> \in queue
        BY <1>0 DEF TypeOK
      <3> QED
        BY ONLY <2>2, <2>4, <2>5, <3>1
    <2> QED
      BY <1>0, <1>2, <2>1, <2>3, <2>6, <2>7 DEF TypeOK, pageVars
  <1>9. RunLocks'
    <2> SUFFICES ASSUME NEW s \in Seeders
                 PROVE  /\ held[s] \subseteq Needs(s)
                        /\ want'[s] # NoTable => want'[s] \in Needs(s) \ held[s]
                        /\ Truncating(s) \/ Copying(s) =>
                             \/ Target(s) \in held[s]
                             \/ held[s] = {} /\ want'[s] \in {NoTable, Target(s)}
      BY <1>2, <1>4 DEF RunLocks, SameStatement
    <2> QED
      BY <1>0, <1>3, <1>5 DEF RunLocks, Sessions
  <1>10. Compatible' /\ CopyProtected'
    BY <1>0, <1>2, <1>4, SameStatements DEF Compatible, CopyProtected, SameStatement
  <1>11. PageLocks'
    <2>1. \A r \in Readers : want'[r] = want[r] \/ (r = x /\ want'[r] = t)
      BY <1>3 DEF Sessions
    <2>2. \A r \in Readers : rpos[r] = 0 => rpos[r] \notin DOMAIN plan[r]
      BY <1>0 DEF PageLocks
    <2> QED
      BY <1>0, <1>2, <1>6, <2>1, <2>2 DEF PageLocks, pageVars
  <1>12. SeenStillThere' /\ ReferencesResolve'
    BY <1>0, <1>2 DEF SeenStillThere, ReferencesResolve, pageVars
  <1> QED
    BY <1>8, <1>9, <1>10, <1>11, <1>12

(* The detector lets a request go first that nobody's locks block. *)
LEMMA ReorderKeeps ==
  ASSUME LInv, Reorder
  PROVE  /\ TypeOK' /\ RunLocks' /\ Compatible' /\ CopyProtected'
         /\ PageLocks' /\ SeenStillThere' /\ ReferencesResolve'
  <1>0. /\ TypeOK /\ S!TypeOK /\ RunLocks /\ Compatible /\ CopyProtected
        /\ PageLocks /\ SeenStillThere /\ ReferencesResolve
    BY DEF LInv
  <1>1. PICK x \in Sessions :
          /\ Blockers(x) # {} /\ Holders(x) = {}
          /\ queue' = QueueWithout({x}) \cup {<<x, y>> : y \in Waiting \ {x}}
          /\ UNCHANGED <<seedVars, held, want, pageVars>>
    BY DEF Reorder, Rings
  <1>2. \A s \in Seeders : SameStatement(s)
    BY <1>1, SameStatements
  <1>3. TypeOK'
    <2>1. x \in Waiting
      <3>1. PICK y \in Earlier(x) : TRUE
        BY <1>1 DEF Blockers
      <3> QED
        BY <1>0, <3>1 DEF Earlier, TypeOK
    <2>2. Waiting' = Waiting
      BY <1>1 DEF Waiting
    <2>3. queue' \subseteq Waiting' \X Waiting'
      BY <1>0, <1>1, <2>1, <2>2 DEF TypeOK, QueueWithout
    <2>4. \A y, z \in Waiting :
            <<y, z>> \in queue' <=>
              \/ <<y, z>> \in queue /\ y # x /\ z # x
              \/ y = x /\ z # x
      BY <1>1, <2>1 DEF QueueWithout
    <2>5. \A y, z \in Waiting' : <<y, z>> \in queue' <=> y # z /\ <<z, y>> \notin queue'
      BY <1>0, <2>1, <2>2, <2>4 DEF TypeOK
    <2>6. \A u, y, z \in Waiting' :
            <<u, y>> \in queue' /\ <<y, z>> \in queue' => <<u, z>> \in queue'
      BY <1>0, <2>1, <2>2, <2>4 DEF TypeOK
    <2> QED
      BY <1>0, <1>1, <2>3, <2>5, <2>6 DEF TypeOK, pageVars
  <1>4. RunLocks' /\ Compatible' /\ CopyProtected'
    BY <1>0, <1>1, <1>2, SameStatements
       DEF RunLocks, Compatible, CopyProtected, SameStatement, seedVars
  <1>5. PageLocks' /\ SeenStillThere' /\ ReferencesResolve'
    BY <1>0, <1>1
       DEF PageLocks, SeenStillThere, ReferencesResolve, pageVars, seedVars
  <1> QED
    BY <1>3, <1>4, <1>5

(* A lock is granted to a run. *)
LEMMA GrantRunKeeps ==
  ASSUME LInv, NEW x \in Seeders, Grant(x)
  PROVE  RunLocks' /\ CopyProtected'
  <1>0. /\ TypeOK /\ RunLocks /\ CopyProtected
    BY DEF LInv
  <1>1. /\ want[x] # NoTable /\ ~Violation(x)
        /\ UNCHANGED seedVars /\ loaded' = loaded
        /\ held' = [held EXCEPT ![x] = held[x] \cup {want[x]}]
        /\ want' = [want EXCEPT ![x] = NoTable]
    BY DEF Grant, seedVars, Kept
  <1>2. \A s \in Seeders :
          /\ held'[s] = IF s = x THEN held[x] \cup {want[x]} ELSE held[s]
          /\ want'[s] = IF s = x THEN NoTable ELSE want[s]
    BY <1>0, <1>1 DEF TypeOK, Sessions
  <1>3. \A s \in Seeders : SameStatement(s)
    BY <1>1, SameStatements
  <1>4. RunLocks'
    <2> SUFFICES ASSUME NEW s \in Seeders
                 PROVE  /\ held'[s] \subseteq Needs(s)
                        /\ want'[s] # NoTable => want'[s] \in Needs(s) \ held'[s]
                        /\ Truncating(s) \/ Copying(s) =>
                             \/ Target(s) \in held'[s]
                             \/ held'[s] = {} /\ want'[s] \in {NoTable, Target(s)}
      BY <1>3 DEF RunLocks, SameStatement
    <2> QED
      BY <1>0, <1>1, <1>2 DEF RunLocks
  <1>5. CopyProtected'
    <2> SUFFICES ASSUME NEW s \in Seeders, Copying(s), NEW t \in held'[s]
                 PROVE  t = Target(s) <=> t \notin loaded
      BY <1>1, <1>3 DEF CopyProtected, SameStatement
    <2>1. CASE t \in held[s]
      BY <1>0, <2>1 DEF CopyProtected
    <2>2. CASE s = x /\ t = want[x]
      BY <1>1, <2>2 DEF Violation
    <2> QED
      BY <1>2, <2>1, <2>2
  <1> QED
    BY <1>4, <1>5

(* ... or to a page, which reads the table then. *)
LEMMA GrantPageKeeps ==
  ASSUME LInv, NEW r \in Readers, Grant(r)
  PROVE  /\ rpos' \in [Readers -> Nat] /\ seen' \in [Readers -> SUBSET Tables]
         /\ \A q \in Readers : rpos'[q] <= Len(plan'[q]) + 1
         /\ PageLocks' /\ SeenStillThere' /\ ReferencesResolve'
  <1>0. /\ TypeOK /\ S!TypeOK /\ S!FKClosed /\ PageLocks
        /\ SeenStillThere /\ ReferencesResolve
    BY DEF LInv
  <1> DEFINE p == plan[r]
             k == rpos[r]
             t == want[r]
  <1>1. /\ t # NoTable /\ loaded' = loaded /\ plan' = plan
        /\ held' = [held EXCEPT ![r] = held[r] \cup {t}]
        /\ want' = [want EXCEPT ![r] = NoTable]
        /\ rpos' = [rpos EXCEPT ![r] = k + 1]
    BY DEF Grant, seedVars, Kept
  <1>2. PICK found \in Findings(r) : seen' = [seen EXCEPT ![r] = seen[r] \cup found]
    BY DEF Grant
  <1>3. /\ found \subseteq {t} /\ found \subseteq loaded
        /\ ~p[k].selective => found = {t} \cap loaded
    BY DEF Findings
  <1>4. k \in DOMAIN p /\ t = p[k].table /\ p[k].after \subseteq seen[r]
    BY <1>0, <1>1 DEF PageLocks
  <1>5. p \in Plans /\ p \in Seq(Steps) /\ k \in 1..Len(p)
    <2>1. p \in Plans
      BY <1>0, <1>4 DEF TypeOK
    <2> QED
      BY <1>4, <2>1, PlansAssumption
  <1>6. t \in Tables
    <2>1. p[k] \in Steps
      BY <1>5
    <2> QED
      BY <1>4, <2>1 DEF Steps
  <1>7. /\ \A q \in Readers \ {r} :
              /\ held'[q] = held[q] /\ want'[q] = want[q]
              /\ rpos'[q] = rpos[q] /\ seen'[q] = seen[q]
        /\ held'[r] = held[r] \cup {t} /\ want'[r] = NoTable
        /\ rpos'[r] = k + 1 /\ seen'[r] = seen[r] \cup found
    BY <1>0, <1>1, <1>2 DEF TypeOK, Sessions
  <1>8. /\ rpos' \in [Readers -> Nat] /\ seen' \in [Readers -> SUBSET Tables]
        /\ \A q \in Readers : rpos'[q] <= Len(plan'[q]) + 1
    <2>1. rpos' \in [Readers -> Nat] /\ seen' \in [Readers -> SUBSET Tables]
      BY <1>0, <1>1, <1>2, <1>3, <1>6 DEF TypeOK
    <2>2. \A q \in Readers \ {r} : rpos'[q] <= Len(plan'[q]) + 1
      BY <1>0, <1>1, <1>7 DEF TypeOK
    <2>3. k + 1 <= Len(p) + 1
      BY <1>5
    <2> QED
      BY <1>1, <1>7, <2>1, <2>2, <2>3
  <1>9. PageLocks'
    <2> SUFFICES ASSUME NEW q \in Readers
                 PROVE  /\ rpos'[q] = 0 => plan[q] = <<>> /\ want'[q] = NoTable
                        /\ held'[q] \subseteq {plan[q][i].table :
                                               i \in {j \in DOMAIN plan[q] : j < rpos'[q]}}
                        /\ \A i \in DOMAIN plan[q] :
                             i < rpos'[q] /\ plan[q][i].after = {}
                               => plan[q][i].table \in held'[q]
                        /\ want'[q] # NoTable =>
                             /\ rpos'[q] \in DOMAIN plan[q]
                             /\ want'[q] = plan[q][rpos'[q]].table
                             /\ plan[q][rpos'[q]].after \subseteq seen'[q]
                        /\ seen'[q] \subseteq held'[q]
      BY <1>1 DEF PageLocks
    <2>1. CASE q # r
      BY <1>0, <1>7, <2>1 DEF PageLocks
    <2>2. CASE q = r
      <3>1. k \in Nat /\ k + 1 # 0
        BY <1>5
      <3>2. \A i \in DOMAIN p : i < k + 1 <=> i < k \/ i = k
        BY <1>5
      <3>3. held[r] \subseteq {p[i].table : i \in {j \in DOMAIN p : j < k}}
            /\ seen[r] \subseteq held[r]
            /\ \A i \in DOMAIN p : i < k /\ p[i].after = {} => p[i].table \in held[r]
        BY <1>0 DEF PageLocks
      <3> QED
        BY <1>3, <1>4, <1>7, <2>2, <3>1, <3>2, <3>3
    <2> QED
      BY <2>1, <2>2
  <1>10. SeenStillThere'
    BY <1>0, <1>1, <1>3, <1>7 DEF SeenStillThere
  <1>11. ReferencesResolve'
    <2> SUFFICES ASSUME NEW q \in Readers,
                        NEW i \in DOMAIN plan[q], NEW j \in DOMAIN plan[q],
                        i < j, j < rpos'[q], ~plan[q][j].selective,
                        plan[q][i].table \in seen'[q],
                        plan[q][j].table \in Parents[plan[q][i].table]
                 PROVE  plan[q][j].table \in seen'[q]
      BY <1>1 DEF ReferencesResolve
    <2>1. CASE q # r
      BY <1>0, <1>7, <2>1 DEF ReferencesResolve
    <2>2. CASE q = r
      <3>1. i \in Nat /\ j \in Nat /\ k \in Nat /\ (j < k \/ j = k) /\ i < k
        BY <1>5, <1>7, <2>2
      <3>2. p[i].table # t
        BY <1>4, <1>5, <2>2, <3>1, PlansAssumption
      <3>3. p[i].table \in seen[r]
        BY <1>3, <1>7, <2>2, <3>2
      <3>4. CASE j < k
        BY <1>0, <1>7, <2>2, <3>3, <3>4 DEF ReferencesResolve
      <3>5. CASE j = k
        <4>1. p[i].table \in loaded
          BY <1>0, <3>3 DEF SeenStillThere
        <4>2. t \in loaded
          BY <1>0, <1>4, <2>2, <3>5, <4>1 DEF S!FKClosed
        <4> QED
          BY <1>3, <1>4, <1>7, <2>2, <3>5, <4>2
      <3> QED
        BY <3>1, <3>4, <3>5
    <2> QED
      BY <2>1, <2>2
  <1> QED
    BY <1>8, <1>9, <1>10, <1>11

(* Holders that conflict block; so a granted lock conflicts with none held.*)
LEMMA GrantKeeps ==
  ASSUME LInv, NEW x \in Sessions, Grant(x)
  PROVE  /\ TypeOK' /\ RunLocks' /\ Compatible' /\ CopyProtected'
         /\ PageLocks' /\ SeenStillThere' /\ ReferencesResolve'
  <1>0. /\ TypeOK /\ S!TypeOK /\ RunLocks /\ Compatible /\ CopyProtected
        /\ PageLocks /\ SeenStillThere /\ ReferencesResolve
    BY DEF LInv
  <1>1. /\ want[x] # NoTable /\ Holders(x) = {}
        /\ UNCHANGED seedVars /\ loaded' = loaded /\ plan' = plan
        /\ held' = [held EXCEPT ![x] = held[x] \cup {want[x]}]
        /\ want' = [want EXCEPT ![x] = NoTable]
        /\ queue' = QueueWithout({x})
    BY DEF Grant, seedVars, Kept, Blockers, pageVars
  <1>2. \A y \in Sessions :
          /\ held'[y] = IF y = x THEN held[x] \cup {want[x]} ELSE held[y]
          /\ want'[y] = IF y = x THEN NoTable ELSE want[y]
    BY <1>0, <1>1 DEF TypeOK
  <1>3. \A s \in Seeders : SameStatement(s)
    BY <1>1, SameStatements
  <1>4. want[x] \in Tables
    BY <1>0, <1>1 DEF TypeOK
  <1>5. /\ RunLocks' /\ CopyProtected'
        /\ PageLocks' /\ SeenStillThere' /\ ReferencesResolve'
        /\ rpos' \in [Readers -> Nat] /\ seen' \in [Readers -> SUBSET Tables]
        /\ \A r \in Readers : rpos'[r] <= Len(plan'[r]) + 1
    <2>1. CASE x \in Readers
      <3>1. x \notin Seeders
        BY <2>1, SessionsAssumption
      <3>2. RunLocks'
        BY <1>0, <1>2, <1>3, <3>1 DEF RunLocks, SameStatement, Sessions
      <3>3. CopyProtected'
        BY <1>0, <1>1, <1>2, <1>3, <3>1
           DEF CopyProtected, SameStatement, Sessions
      <3> QED
        BY <2>1, <3>2, <3>3, GrantPageKeeps
    <2>2. CASE x \in Seeders
      <3>1. x \notin Readers /\ UNCHANGED pageVars
        BY <2>2, SessionsAssumption DEF Grant
      <3>2. \A r \in Readers : held'[r] = held[r] /\ want'[r] = want[r]
        BY <1>2, <3>1 DEF Sessions
      <3>3. PageLocks' /\ SeenStillThere' /\ ReferencesResolve'
        BY <1>0, <1>1, <3>1, <3>2
           DEF PageLocks, SeenStillThere, ReferencesResolve, pageVars
      <3> QED
        BY <1>0, <2>2, <3>1, <3>3, GrantRunKeeps DEF TypeOK, pageVars
    <2> QED
      BY <2>1, <2>2 DEF Sessions
  <1>6. TypeOK'
    <2>1. /\ held' \in [Sessions -> SUBSET Tables]
          /\ want' \in [Sessions -> Tables \cup {NoTable}]
      BY <1>0, <1>1, <1>4 DEF TypeOK
    <2>2. Waiting' = Waiting \ {x}
      BY <1>2 DEF Waiting
    <2>3. queue' \subseteq Waiting' \X Waiting'
      BY <1>0, <1>1, <2>2 DEF TypeOK, QueueWithout
    <2>4. \A y, z \in Waiting' : <<y, z>> \in queue' <=> <<y, z>> \in queue
      BY <1>1, <2>2 DEF QueueWithout
    <2>5. /\ \A y, z \in Waiting' :
               <<y, z>> \in queue' <=> y # z /\ <<z, y>> \notin queue'
          /\ \A u, y, z \in Waiting' :
               <<u, y>> \in queue' /\ <<y, z>> \in queue' => <<u, z>> \in queue'
      BY <1>0, <2>2, <2>4 DEF TypeOK
    <2> QED
      BY <1>0, <1>1, <1>5, <2>1, <2>3, <2>5 DEF TypeOK
  <1>7. Compatible'
    <2> SUFFICES ASSUME NEW y \in Sessions, NEW z \in Sessions,
                        NEW t \in held'[y] \cap held'[z], y # z
                 PROVE  ~Conflict(y, z, t)
      BY <1>1, SameStatements DEF Compatible
    <2>1. CASE t \in held[y] \cap held[z]
      BY <1>0, <2>1 DEF Compatible
    <2>2. CASE y = x /\ t = want[x]
      BY <1>1, <1>2, <2>2 DEF Holders
    <2>3. CASE z = x /\ t = want[x]
      BY <1>1, <1>2, <2>3, ConflictSymmetric DEF Holders
    <2> QED
      BY <1>2, <2>1, <2>2, <2>3
  <1> QED
    BY <1>5, <1>6, <1>7

(* A session of a page opens, skips a step, or closes. *)
LEMMA PageKeeps ==
  ASSUME LInv, NEW r \in Readers, Open(r) \/ Skip(r) \/ CloseSession(r)
  PROVE  /\ TypeOK' /\ RunLocks' /\ Compatible' /\ CopyProtected'
         /\ PageLocks' /\ SeenStillThere' /\ ReferencesResolve'
  <1>0. /\ TypeOK /\ S!TypeOK /\ RunLocks /\ Compatible /\ CopyProtected
        /\ PageLocks /\ SeenStillThere /\ ReferencesResolve
    BY DEF LInv
  <1>1. UNCHANGED seedVars /\ loaded' = loaded /\ \A s \in Seeders : SameStatement(s)
    BY SameStatements DEF Open, Skip, CloseSession, seedVars
  <1>2. r \in Sessions /\ r \notin Seeders
    BY SessionsAssumption DEF Sessions
  <1>3. CASE Open(r)
    <2>1. PICK p \in Plans : plan' = [plan EXCEPT ![r] = p]
      BY <1>3 DEF Open
    <2>2. /\ rpos' = [rpos EXCEPT ![r] = 1] /\ UNCHANGED <<lockVars, seen>>
          /\ plan[r] = <<>> /\ want[r] = NoTable
      BY <1>0, <1>3 DEF Open, PageLocks
    <2>3. held[r] = {} /\ seen[r] = {}
      BY <1>0, <2>2 DEF PageLocks
    <2>4. /\ \A q \in Readers \ {r} : plan'[q] = plan[q] /\ rpos'[q] = rpos[q]
          /\ plan'[r] = p /\ rpos'[r] = 1
      BY <1>0, <2>1, <2>2 DEF TypeOK
    <2>5. p \in Seq(Steps) /\ Len(p) \in Nat /\ DOMAIN p = 1..Len(p)
      BY PlansAssumption
    <2>6. TypeOK'
      <3>1. plan' \in [Readers -> Plans \cup {<<>>}] /\ rpos' \in [Readers -> Nat]
        BY <1>0, <2>1, <2>2 DEF TypeOK
      <3>2. 1 <= Len(p) + 1
        BY <2>5
      <3>3. \A q \in Readers \ {r} : rpos'[q] <= Len(plan'[q]) + 1
        BY <1>0, <2>4 DEF TypeOK
      <3>4. \A q \in Readers : rpos'[q] <= Len(plan'[q]) + 1
        BY <2>4, <3>2, <3>3
      <3> QED
        BY <1>0, <2>2, <3>1, <3>4 DEF TypeOK, lockVars, Waiting
    <2>7. PageLocks'
      BY <1>0, <2>2, <2>3, <2>4, <2>5 DEF PageLocks, lockVars
    <2>8. SeenStillThere' /\ ReferencesResolve'
      BY <1>0, <1>1, <2>2, <2>3, <2>4 DEF SeenStillThere, ReferencesResolve
    <2>9. RunLocks' /\ Compatible' /\ CopyProtected'
      BY <1>0, <1>1, <2>2, SameStatements
         DEF RunLocks, Compatible, CopyProtected, SameStatement, lockVars
    <2> QED
      BY <2>6, <2>7, <2>8, <2>9
  <1>4. CASE Skip(r)
    <2> DEFINE p == plan[r]
               k == rpos[r]
    <2>1. /\ k \in DOMAIN p /\ want[r] = NoTable /\ ~(p[k].after \subseteq seen[r])
          /\ rpos' = [rpos EXCEPT ![r] = k + 1]
          /\ UNCHANGED <<lockVars, plan, seen>>
      BY <1>4 DEF Skip
    <2>2. p \in Plans /\ p \in Seq(Steps) /\ k \in 1..Len(p)
      <3>1. p \in Plans
        BY <1>0, <2>1 DEF TypeOK
      <3> QED
        BY <2>1, <3>1, PlansAssumption
    <2>3. /\ \A q \in Readers \ {r} : rpos'[q] = rpos[q]
          /\ rpos'[r] = k + 1 /\ rpos' \in [Readers -> Nat]
          /\ k \in Nat /\ k + 1 <= Len(p) + 1
      BY <1>0, <2>1, <2>2 DEF TypeOK
    <2>4. TypeOK'
      BY <1>0, <2>1, <2>3 DEF TypeOK, lockVars, Waiting
    <2>5. \A i \in DOMAIN p : i < k + 1 <=> (i < k \/ i = k)
      BY <2>2
    <2>6. PageLocks'
      BY <1>0, <2>1, <2>3, <2>5 DEF PageLocks, lockVars
    <2>7. SeenStillThere'
      BY <1>0, <1>1, <2>1 DEF SeenStillThere
    <2>8. ReferencesResolve'
      <3> SUFFICES ASSUME NEW q \in Readers,
                          NEW i \in DOMAIN plan[q], NEW j \in DOMAIN plan[q],
                          i < j, j < rpos'[q], ~plan[q][j].selective,
                          plan[q][i].table \in seen[q],
                          plan[q][j].table \in Parents[plan[q][i].table]
                   PROVE  plan[q][j].table \in seen[q]
        BY <2>1 DEF ReferencesResolve
      <3>1. CASE q # r \/ j < k
        BY <1>0, <2>3, <3>1 DEF ReferencesResolve
      <3>2. CASE q = r /\ j = k
        <4>1. p[j].after \subseteq {p[i].table}
          BY <2>2, <3>2, PlansAssumption
        <4> QED
          BY <2>1, <3>2, <4>1
      <3> QED
        BY <2>3, <2>5, <3>1, <3>2
    <2>9. RunLocks' /\ Compatible' /\ CopyProtected'
      BY <1>0, <1>1, <2>1, SameStatements
         DEF RunLocks, Compatible, CopyProtected, SameStatement, lockVars
    <2> QED
      BY <2>4, <2>6, <2>7, <2>8, <2>9
  <1>5. CASE CloseSession(r)
    <2>1. /\ plan' = [plan EXCEPT ![r] = <<>>] /\ rpos' = [rpos EXCEPT ![r] = 0]
          /\ seen' = [seen EXCEPT ![r] = {}] /\ Release({r})
      BY <1>5 DEF CloseSession
    <2>2. \A y \in Sessions :
            /\ held'[y] = IF y = r THEN {} ELSE held[y]
            /\ want'[y] = IF y = r THEN NoTable ELSE want[y]
      BY <2>1 DEF Release
    <2>3. /\ \A q \in Readers \ {r} : /\ plan'[q] = plan[q] /\ rpos'[q] = rpos[q]
                                      /\ seen'[q] = seen[q]
          /\ plan'[r] = <<>> /\ rpos'[r] = 0 /\ seen'[r] = {}
      BY <1>0, <2>1 DEF TypeOK
    <2>4. TypeOK'
      <3>1. /\ plan' \in [Readers -> Plans \cup {<<>>}] /\ rpos' \in [Readers -> Nat]
            /\ seen' \in [Readers -> SUBSET Tables]
        BY <1>0, <2>1 DEF TypeOK
      <3>2. \A q \in Readers : rpos'[q] <= Len(plan'[q]) + 1
        BY <1>0, <2>3 DEF TypeOK
      <3>3. {r} \in SUBSET Sessions
        BY <1>2
      <3> QED
        BY <1>0, <2>1, <3>1, <3>2, <3>3, ReleaseTyped
    <2>5. PageLocks'
      BY <1>0, <2>2, <2>3 DEF PageLocks, Sessions
    <2>6. SeenStillThere' /\ ReferencesResolve'
      BY <1>0, <1>1, <2>3 DEF SeenStillThere, ReferencesResolve
    <2>7. RunLocks' /\ CopyProtected'
      BY <1>0, <1>1, <1>2, <2>2
         DEF RunLocks, CopyProtected, SameStatement, Sessions
    <2>8. Compatible'
      BY <1>0, <1>1, <2>2, SameStatements DEF Compatible
    <2> QED
      BY <2>4, <2>5, <2>6, <2>7, <2>8
  <1> QED
    BY <1>3, <1>4, <1>5

-----------------------------------------------------------------------------
(* LInv holds at first, and every step preserves it. *)
LEMMA LInvInit == Init => LInv
  <1> SUFFICES ASSUME Init  PROVE LInv
    OBVIOUS
  <1>1. S!TypeOK
    <2>1. Guard \in Tables
      BY SeederAssumption DEF S!SchemaShape
    <2>2. S!N \in Nat /\ 1 \in 1..S!N
      <3>1. PICK i \in 1..S!N : LoadOrder[i] = Guard
        BY <2>1, SeederAssumption DEF S!OrderAssumption
      <3> QED
        BY <3>1, OrderLength
    <2> QED
      BY <2>2 DEF Init, S!Init, S!TypeOK, S!Phases, S!Outcomes
  <1>2. S!FKClosed /\ AloneIsAlone /\ CopyProtected
    BY DEF Init, S!Init, S!FKClosed, AloneIsAlone, CopyProtected, Copying
  <1>3. \A s \in Seeders : ~Truncating(s) /\ ~Copying(s)
    BY DEF Init, S!Init, Truncating, Copying
  <1>4. RunLocks /\ Compatible
    BY <1>3 DEF Init, RunLocks, Compatible, Sessions
  <1>5. TypeOK
    <2>1. Waiting = {}
      BY DEF Init, Waiting
    <2>2. \A r \in Readers : rpos[r] <= Len(plan[r]) + 1
      BY DEF Init
    <2> QED
      BY <2>1, <2>2 DEF Init, TypeOK
  <1>6. PageLocks /\ SeenStillThere /\ ReferencesResolve
    BY DEF Init, PageLocks, SeenStillThere, ReferencesResolve, Sessions
  <1> QED
    BY <1>1, <1>2, <1>4, <1>5, <1>6 DEF LInv

LEMMA LInvStep ==
  ASSUME LInv, [Next]_vars
  PROVE  LInv'
  <1>1. S!TypeOK' /\ S!FKClosed' /\ AloneIsAlone'
    BY StepRefines, SeedTyping, SeedForeignKeys, SeedAlone DEF LInv
  <1>2. CASE Next
    <2>1. /\ TypeOK' /\ RunLocks' /\ Compatible' /\ CopyProtected'
          /\ PageLocks' /\ SeenStillThere' /\ ReferencesResolve'
      BY <1>2, StepKinds, AskKeeps, GrantKeeps, ReorderKeeps,
         StatementsEndKeeps, PageKeeps
    <2> QED
      BY <1>1, <2>1 DEF LInv
  <1>3. CASE UNCHANGED vars
    <2>1. Release({}) /\ UNCHANGED seedVars /\ UNCHANGED pageVars
      BY <1>3, NobodyReleases DEF vars, LInv
    <2>2. StatementsEnd({})
      BY <2>1, SameStatements DEF StatementsEnd, seedVars
    <2> QED
      BY <1>1, <2>2, StatementsEndKeeps DEF LInv
  <1> QED
    BY <1>2, <1>3

LEMMA LInvAlways == Spec => []LInv
  BY LInvInit, LInvStep, PTL DEF Spec

(* Every reachable state is well typed, and the waiting sessions are       *)
(* queued in one strict order, however requests come, are granted, dropped *)
(* and reordered.                                                          *)
THEOREM LocksTyping == Spec => []TypeOK
  <1>1. LInv => TypeOK
    BY DEF LInv
  <1> QED
    BY <1>1, LInvAlways, PTL

(* The statements of the seeder are atomic: down to the locks, the program *)
(* implements module Seed, with runs that may be lost.                     *)
THEOREM LocksRefineSeed == Spec => RefinesSeed
  <1>1. Init => S!Init
    BY DEF Init
  <1>2. LInv /\ [Next]_vars => [UNCHANGED seedVars \/ S!Next]_seedVars
    BY StepRefines
  <1> QED
    BY <1>1, <1>2, LInvAlways, PTL DEF Spec, RefinesSeed

(* The same, with the specification of module Seed by its name: each of    *)
(* the properties proved of it holds under the locks.                      *)
THEOREM LocksImplementSeed == Spec => S!Spec
  <1>1. Init => S!Init
    BY DEF Init
  <1>2. LInv /\ [Next]_vars => [S!Next]_(S!vars)
    BY StepRefines DEF seedVars, S!vars
  <1> QED
    BY <1>1, <1>2, LInvAlways, PTL DEF Spec, S!Spec

(* What a page has read stays in the database until it answers. *)
THEOREM PagesSeeOneDatabase == Spec => []SeenStillThere
  <1>1. LInv => SeenStillThere
    BY DEF LInv
  <1> QED
    BY <1>1, LInvAlways, PTL

(* A page that found a row finds what the row references. *)
THEOREM PagesResolveReferences == Spec => []ReferencesResolve
  <1>1. LInv => ReferencesResolve
    BY DEF LInv
  <1> QED
    BY <1>1, LInvAlways, PTL

-----------------------------------------------------------------------------
(* A page that waits for a table some run is truncating, while it holds a  *)
(* table that the run's TRUNCATE needs, reads against the load order: one  *)
(* that reads in load order has read every ancestor of what it has read,   *)
(* so it holds the very table the TRUNCATE begins with.                    *)
LEMMA ReadersInOrderStayOut ==
  ASSUME LInv, NEW s \in Seeders, Truncating(s), held[s] # {},
         NEW r \in Readers, NEW u \in held[r] \cap S!Cascade[Target(s)]
  PROVE  ~InLoadOrder(plan[r])
  <1> SUFFICES ASSUME InLoadOrder(plan[r])  PROVE FALSE
    OBVIOUS
  <1> DEFINE p == plan[r]
             Read == {p[i].table : i \in {j \in DOMAIN p : j < rpos[r]}}
  <1>0. TypeOK /\ S!TypeOK /\ RunLocks /\ Compatible /\ PageLocks
    BY DEF LInv
  <1>1. Target(s) \in Tables /\ Target(s) \in held[s]
    BY <1>0, TargetIsTable DEF RunLocks
  <1>2. u \in Read
    BY <1>0 DEF PageLocks
  <1>3. /\ p \in Seq(Steps) /\ DOMAIN p = 1..Len(p)
        /\ \A i \in DOMAIN p :
             /\ p[i].after = {}
             /\ \A v \in Parents[p[i].table] : \E j \in 1..i-1 : p[j].table = v
    <2>1. p \in Plans
      BY <1>0, <1>2 DEF TypeOK
    <2>2. p \in Seq(Steps) /\ DOMAIN p = 1..Len(p)
      BY <2>1, PlansAssumption
    <2>3. \A i \in DOMAIN p :
            /\ p[i].after = {}
            /\ \A v \in Parents[p[i].table] : \E j \in 1..i-1 : p[j].table = v
      BY <2>1, CountsAssumption
    <2> QED
      BY <2>2, <2>3
  <1>4. rpos[r] \in Nat
    BY <1>0 DEF TypeOK
  <1>5. ASSUME Target(s) \notin Read
        PROVE  FALSE
    <2> DEFINE Unread == Tables \ Read
    <2>1. ASSUME NEW v \in Tables, NEW w \in Parents[v], w \in Unread, v \in Read
          PROVE  FALSE
      <3>1. PICK i \in DOMAIN p : i < rpos[r] /\ v = p[i].table
        BY <2>1
      <3>2. PICK j \in 1..i-1 : p[j].table = w
        BY <1>3, <3>1
      <3>3. j \in DOMAIN p /\ j < rpos[r]
        BY <1>3, <1>4, <3>1
      <3> QED
        BY <2>1, <3>2, <3>3
    <2>2. Unread \in S!ChildClosedSets
      BY <2>1 DEF S!ChildClosedSets
    <2>3. S!Cascade[Target(s)] \subseteq Unread
      BY <1>1, <1>5, <2>2, CascadeFacts
    <2> QED
      BY <1>2, <2>3
  <1>6. Target(s) \in held[r]
    BY <1>0, <1>3, <1>5 DEF PageLocks
  <1> QED
    BY <1>0, <1>1, <1>6, SessionsAssumption DEF Compatible, Conflict, Sessions

(* The deadlock detector aborts a lone --reset run only for a page that    *)
(* reads against the load order.                                           *)
THEOREM ResetSurvivesCountingPages == Spec => []ResetSurvivesReaders
  <1>1. ASSUME LInv  PROVE ResetSurvivesReaders
    <2> SUFFICES ASSUME NEW C \in Rings([x \in Sessions |-> Holders(x)]),
                        NEW s \in C \cap Seeders, alone[s]
                 PROVE  \E r \in C \cap Readers : ~InLoadOrder(plan[r])
      BY DEF ResetSurvivesReaders
    <2>0. TypeOK /\ S!TypeOK /\ RunLocks /\ AloneIsAlone
      BY <1>1 DEF LInv
    <2>1. \A x \in C : x \in Sessions /\ Holders(x) \cap C # {}
      BY DEF Rings, WaitsWithin
    <2>2. PICK r \in C : r \in Holders(s)
      BY <2>1
    <2>3. r # s /\ want[s] \in held[r] /\ Conflict(s, r, want[s])
      BY <2>2 DEF Holders
    <2>4. want[s] \in Needs(s) /\ pc[s] # "idle"
      <3>1. want[s] # NoTable
        BY <2>0, <2>1, <2>3, SessionsAssumption DEF TypeOK
      <3> QED
        BY <2>0, <3>1 DEF RunLocks, Needs, Truncating, Copying
    (* The other runs are idle and hold nothing. *)
    <2>5. ASSUME NEW q \in Seeders, q # s  PROVE Unlocked(q) /\ pc[q] = "idle"
      BY <1>1, <2>0, <2>4, <2>5, NothingNeeded DEF AloneIsAlone
    <2>6. r \in Readers /\ r \notin Seeders
      BY <2>1, <2>3, <2>5, SessionsAssumption DEF Unlocked, Sessions
    <2>7. Truncating(s)
      BY <2>3, <2>6 DEF Conflict, Truncating, Copying
    (* And what r waits for is locked by s. *)
    <2>8. want[r] \in held[s]
      <3>1. PICK z \in C : z \in Holders(r)
        BY <2>1
      <3>2. want[r] \in held[z] /\ Conflict(r, z, want[r])
        BY <3>1 DEF Holders
      <3>3. z \in Seeders
        BY <2>6, <3>2 DEF Conflict, Truncating, Copying
      <3> QED
        BY <2>5, <3>2, <3>3 DEF Unlocked
    <2>9. want[s] \in S!Cascade[Target(s)]
      BY <2>4, <2>7 DEF Needs, Truncating, Copying
    <2> QED
      BY <1>1, <2>3, <2>6, <2>7, <2>8, <2>9, ReadersInOrderStayOut
  <1> QED
    BY <1>1, LInvAlways, PTL
=============================================================================
