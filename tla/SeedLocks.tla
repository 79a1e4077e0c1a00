----------------------------- MODULE SeedLocks ------------------------------
(***************************************************************************)
(* The seeder and the pages that read its tables, down to the table locks  *)
(* of PostgreSQL.  It refines module Seed: a statement of the seeder is    *)
(* several steps here, one per lock, and takes effect when it commits.     *)
(*                                                                         *)
(* TRUNCATE ... CASCADE locks its table and then every table that depends  *)
(* on it, against everybody.  COPY locks its table and, for the foreign-   *)
(* key checks, the referenced ones, against TRUNCATE only; two COPYs into  *)
(* one table wait for each other on its unique index.  A page locks every  *)
(* table it reads against TRUNCATE until its session closes, which FastAPI *)
(* does after the response is sent.                                        *)
(***************************************************************************)
EXTENDS Naturals, Sequences, FiniteSets

CONSTANTS Tables, LoadOrder, Parents, Guard, Seeders, Images, ResetFlags, Losses,
  Readers,   \* sessions of GET and search requests
  Plans,     \* the pages they may ask for, as sequences of steps: module Pages
  NoTable    \* not a table

VARIABLES loaded, csv, manifest, pc, reset, pos, outcome, alone,  \* of Seed
  held,     \* held[x]: the tables session x has locked
  want,     \* want[x]: the table session x waits for, or NoTable
  queue,    \* the order of the waiting sessions: <<x, y>> when x is before y
  plan,     \* plan[r]: the steps of the page r was asked for
  rpos,     \* rpos[r]: r's place in its plan, 0 when no request is open
  seen      \* seen[r]: the tables r has found rows in

S == INSTANCE Seed WITH Losses <- TRUE

ASSUME SeederAssumption ==
  /\ S!OrderAssumption /\ S!SchemaShape
  /\ S!GuardAssumption /\ S!EnvironmentAssumption

ASSUME SessionsAssumption ==
  /\ Seeders \cap Readers = {}
  /\ NoTable \notin Tables

Steps == [table : Tables, after : SUBSET Tables, selective : BOOLEAN]

(* A page reads no table twice, and what rows reference it fetches for the *)
(* rows it found, or for no rows in particular.                            *)
ASSUME PlansAssumption ==
  \A p \in Plans :
    /\ p \in Seq(Steps)
    /\ \A i, j \in DOMAIN p : i # j => p[i].table # p[j].table
    /\ \A i, j \in DOMAIN p :
         i < j /\ ~p[j].selective /\ p[j].table \in Parents[p[i].table]
           => p[j].after \subseteq {p[i].table}

seedVars == <<loaded, csv, manifest, pc, reset, pos, outcome, alone>>
lockVars == <<held, want, queue>>
pageVars == <<plan, rpos, seen>>
vars == <<seedVars, lockVars, pageVars>>

Sessions == Seeders \cup Readers

-----------------------------------------------------------------------------
Truncating(x) == x \in Seeders /\ pc[x] \in {"truncate", "lostTruncate"}
Copying(x)    == x \in Seeders /\ pc[x] \in {"copy", "lostCopy"}
Target(s)     == LoadOrder[pos[s]]

Conflict(x, y, t) ==
  \/ Truncating(x) \/ Truncating(y)
  \/ Copying(x) /\ Copying(y) /\ t = Target(x) /\ t = Target(y)

(* Mutant: COPY does not lock the tables its foreign keys reference.       *)
NeedsNoParents(s) ==
  CASE Truncating(s)   -> S!Cascade[Target(s)]
    [] Copying(s)      -> {Target(s)}
    [] pc[s] = "check" -> {Guard}
    [] OTHER           -> {}

(* The tables the current statement of s locks ... *)
Needs(s) ==
  CASE Truncating(s)   -> S!Cascade[Target(s)]
    [] Copying(s)      -> {Target(s)} \cup Parents[Target(s)]
    [] pc[s] = "check" -> {Guard}
    [] OTHER           -> {}

(* ... its own table first, the others in an order the code does not fix.  *)
AsksFor(x) ==
  IF x \in Readers
  THEN {plan[x][i].table : i \in {j \in {rpos[x]} \cap DOMAIN plan[x] :
                                     plan[x][j].after \subseteq seen[x]}}
  ELSE IF (Truncating(x) \/ Copying(x)) /\ Target(x) \notin held[x]
  THEN {Target(x)}
  ELSE Needs(x) \ held[x]

Waiting == {x \in Sessions : want[x] # NoTable}

(* A request waits for the holders it conflicts with, and for conflicting  *)
(* requests that came earlier.                                             *)
Holders(x) ==
  {y \in Sessions \ {x} : want[x] \in held[y] /\ Conflict(x, y, want[x])}
Earlier(x) ==
  {y \in Waiting : <<y, x>> \in queue /\ want[y] = want[x] /\ Conflict(x, y, want[x])}
Blockers(x) == Holders(x) \cup Earlier(x)

QueueWithout(X) == {q \in queue : q[1] \notin X /\ q[2] \notin X}

ReleaseButQueue(X) ==                       \* mutant: a waiter stays queued
  /\ held' = [x \in Sessions |-> IF x \in X THEN {} ELSE held[x]]
  /\ want' = [x \in Sessions |-> IF x \in X THEN NoTable ELSE want[x]]
  /\ queue' = queue

Release(X) ==
  /\ held' = [x \in Sessions |-> IF x \in X THEN {} ELSE held[x]]
  /\ want' = [x \in Sessions |-> IF x \in X THEN NoTable ELSE want[x]]
  /\ queue' = QueueWithout(X)

-----------------------------------------------------------------------------
Init ==
  /\ S!Init
  /\ held = [x \in Sessions |-> {}]
  /\ want = [x \in Sessions |-> NoTable]
  /\ queue = {}
  /\ plan = [r \in Readers |-> <<>>]
  /\ rpos = [r \in Readers |-> 0]
  /\ seen = [r \in Readers |-> {}]

Ask(x) ==
  /\ want[x] = NoTable
  /\ \E t \in AsksFor(x) \ held[x] : want' = [want EXCEPT ![x] = t]
  /\ queue' = queue \cup {<<y, x>> : y \in Waiting}
  /\ UNCHANGED <<seedVars, held, pageVars>>

(* Under the lock it was granted, a COPY finds a row that the database     *)
(* rejects: its own table is not empty, or a referenced one is.            *)
Violation(x) == want[x] # NoTable /\ Copying(x) /\ (want[x] = Target(x)) = (want[x] \in loaded)

(* A transaction keeps its locks: a page's until its session is closed.    *)
AutocommitReads(x) ==                       \* mutant: each read on its own
  IF x \in Readers THEN {} ELSE held[x] \cup {want[x]}
Kept(x) == held[x] \cup {want[x]}

(* What r's step can find in the table it waits for.                       *)
Findings(r) ==
  LET rows == {want[r]} \cap loaded
  IN  IF plan[r][rpos[r]].selective THEN SUBSET rows ELSE {rows}

(* The lock is granted.  A page then counts or fetches rows, in a snapshot *)
(* taken after the lock.                                                   *)
Grant(x) ==
  /\ want[x] # NoTable
  /\ Blockers(x) = {}
  /\ ~Violation(x)
  /\ held' = [held EXCEPT ![x] = Kept(x)]
  /\ want' = [want EXCEPT ![x] = NoTable]
  /\ queue' = QueueWithout({x})
  /\ IF x \in Readers
     THEN /\ UNCHANGED plan
          /\ rpos' = [rpos EXCEPT ![x] = @ + 1]
          /\ \E found \in Findings(x) : seen' = [seen EXCEPT ![x] = @ \cup found]
     ELSE UNCHANGED pageVars
  /\ UNCHANGED seedVars

HasLocks(s) == want[s] = NoTable /\ Needs(s) \subseteq held[s]

-----------------------------------------------------------------------------
(* The steps of a run that need no table lock. *)
Local(s) ==
  /\ \/ S!Start(s) \/ S!MissingCsv(s) \/ S!OpenManifest(s)
     \/ S!WriteManifest(s) \/ S!Connect(s)
  /\ UNCHANGED <<lockVars, pageVars>>

(* SELECT 1 FROM trips, in a transaction of its own. *)
Check(s) ==
  /\ HasLocks(s)
  /\ S!AlreadySeeded(s) \/ S!NotSeeded(s)
  /\ Release({s})
  /\ UNCHANGED pageVars

OneTransaction(s) ==           \* mutant: all TRUNCATEs in one transaction
  /\ HasLocks(s)
  /\ S!Truncate(s)
  /\ IF pc'[s] = "truncate" THEN UNCHANGED lockVars ELSE Release({s})
  /\ UNCHANGED pageVars

Truncate(s) ==
  /\ HasLocks(s)
  /\ S!Truncate(s)
  /\ Release({s})
  /\ UNCHANGED pageVars

(* The statement does not look again at what its locks protect. *)
Copy(s) ==
  /\ HasLocks(s)
  /\ S!CopyCommits(s)
  /\ Release({s})
  /\ UNCHANGED pageVars

CopyRejected(s) ==
  /\ Violation(s)
  /\ Blockers(s) = {}
  /\ S!CopyFails(s)
  /\ Release({s})
  /\ UNCHANGED pageVars

(* The server finishes the statement of a lost client, or cancels it. *)
LostStatement(s) ==
  /\ pc[s] \in {"lostTruncate", "lostCopy"}
  /\ \/ HasLocks(s) /\ pc[s] = "lostTruncate"
        /\ loaded' = loaded \ S!Cascade[Target(s)]
     \/ HasLocks(s) /\ pc[s] = "lostCopy" /\ loaded' = loaded \cup {Target(s)}
     \/ UNCHANGED loaded
  /\ S!Goto(s, "idle")
  /\ Release({s})
  /\ UNCHANGED <<csv, manifest, reset, pos, outcome, alone, pageVars>>

Lose(s) ==
  /\ Losses
  /\ S!Lose(s)
  /\ IF pc'[s] = "idle" THEN Release({s}) ELSE UNCHANGED lockVars
  /\ UNCHANGED pageVars

(* Pages of the old container behave as ones that stop early: see Stop. *)
Redeploy ==
  /\ Losses
  /\ S!Redeploy
  /\ Release({s \in Seeders : pc'[s] = "idle"})
  /\ UNCHANGED pageVars

-----------------------------------------------------------------------------
(* A request for one of the pages opens its session.                       *)
Open(r) ==
  /\ rpos[r] = 0
  /\ \E p \in Plans : plan' = [plan EXCEPT ![r] = p]
  /\ rpos' = [rpos EXCEPT ![r] = 1]
  /\ UNCHANGED <<seedVars, lockVars, seen>>

(* Nothing was found that this step would look up. *)
Skip(r) ==
  /\ want[r] = NoTable
  /\ rpos[r] \in DOMAIN plan[r]
  /\ ~(plan[r][rpos[r]].after \subseteq seen[r])
  /\ rpos' = [rpos EXCEPT ![r] = @ + 1]
  /\ UNCHANGED <<seedVars, lockVars, plan, seen>>

NeverAnswered(r) == FALSE                   \* mutant: sessions are not closed
Answered(r) == rpos[r] = Len(plan[r]) + 1

CloseSession(r) ==
  /\ Release({r})
  /\ plan' = [plan EXCEPT ![r] = <<>>]
  /\ rpos' = [rpos EXCEPT ![r] = 0]
  /\ seen' = [seen EXCEPT ![r] = {}]
  /\ UNCHANGED seedVars

(* The answer is sent and the session closed. *)
Close(r) == Answered(r) /\ CloseSession(r)

(* An exception, or the end of the process, closes it early. *)
Stop(r) == rpos[r] > 0 /\ want[r] = NoTable /\ CloseSession(r)

-----------------------------------------------------------------------------
(* The smallest sets of sessions of which each waits for another one: the  *)
(* rings of the waits-for relation given by W.                             *)
WaitsWithin(C, W) == \A x \in C : W[x] \cap C # {}
Rings(W) ==
  {C \in SUBSET {x \in Sessions : W[x] # {}} :
     /\ C # {}
     /\ WaitsWithin(C, W)
     /\ \A D \in SUBSET C \ {C, {}} : ~WaitsWithin(D, W)}

AbortRun(s) ==
  /\ IF S!Live(s) THEN S!Finish(s, "lost")
                  ELSE S!Goto(s, "idle") /\ UNCHANGED outcome
  /\ Release({s})
  /\ UNCHANGED <<loaded, csv, manifest, reset, pos, alone, pageVars>>

(* The deadlock detector aborts a transaction of a ring of lock holders ... *)
Detect ==
  \E C \in Rings([x \in Sessions |-> Holders(x)]) : \E x \in C :
    IF x \in Readers THEN CloseSession(x) ELSE AbortRun(x)

(* ... and breaks a ring that only the order of arrival closes by letting  *)
(* a request go first that no holder blocks.                               *)
Reorder ==
  \E C \in Rings([x \in Sessions |-> Blockers(x)]) : \E x \in C :
    /\ Holders(x) = {}
    /\ queue' = QueueWithout({x}) \cup {<<x, y>> : y \in Waiting \ {x}}
    /\ UNCHANGED <<seedVars, held, want, pageVars>>

RunStep(s) ==
  \/ Ask(s) \/ Grant(s) \/ Check(s) \/ Truncate(s) \/ Copy(s)
  \/ CopyRejected(s) \/ LostStatement(s)
  \/ pc[s] # "idle" /\ Local(s)

PageStep(r) == Ask(r) \/ Grant(r) \/ Skip(r) \/ Close(r)

Next ==
  \/ \E s \in Seeders : RunStep(s) \/ Local(s) \/ Lose(s)
  \/ \E r \in Readers : PageStep(r) \/ Open(r) \/ Stop(r)
  \/ Detect \/ Reorder \/ Redeploy

Spec == Init /\ [][Next]_vars

(* Every statement and every request is carried on, and the deadlock       *)
(* detector runs; nobody has to start or open one.                         *)
FairSpec ==
  /\ Spec
  /\ \A s \in Seeders : WF_vars(RunStep(s))
  /\ \A r \in Readers : WF_vars(PageStep(r))
  /\ WF_vars(Detect) /\ WF_vars(Reorder)
-----------------------------------------------------------------------------
(* Well typed; exactly the waiting sessions are queued, in one order.      *)
TypeOK ==
  /\ held \in [Sessions -> SUBSET Tables]
  /\ want \in [Sessions -> Tables \cup {NoTable}]
  /\ queue \subseteq Waiting \X Waiting
  /\ \A x, y \in Waiting : <<x, y>> \in queue <=> x # y /\ <<y, x>> \notin queue
  /\ \A x, y, z \in Waiting :
       <<x, y>> \in queue /\ <<y, z>> \in queue => <<x, z>> \in queue
  /\ plan \in [Readers -> Plans \cup {<<>>}]
  /\ rpos \in [Readers -> Nat]
  /\ \A r \in Readers : rpos[r] <= Len(plan[r]) + 1
  /\ seen \in [Readers -> SUBSET Tables]

(* The locks make the statements of the seeder atomic: every step here is  *)
(* a step of module Seed or leaves its variables alone, so what holds of   *)
(* every behaviour there holds here.  This is S!Spec; that most steps only *)
(* move locks is tried first.                                              *)
RefinesSeed == S!Init /\ [][UNCHANGED seedVars \/ S!Next]_seedVars

(* What a page has read is still in the database when it answers, although *)
(* it reads table by table: "ok" from the seed check, fourteen counts, is  *)
(* true of one database.                                                   *)
SeenStillThere == \A r \in Readers : seen[r] \subseteq loaded

(* A page that found a row finds the rows it references afterwards: the    *)
(* None that session.get may return for a trip's load, or a load's route,  *)
(* never comes.                                                            *)
ReferencesResolve ==
  \A r \in Readers : \A i, j \in DOMAIN plan[r] :
    LET child == plan[r][i].table
        parent == plan[r][j].table
    IN  i < j /\ j < rpos[r] /\ ~plan[r][j].selective
          /\ child \in seen[r] /\ parent \in Parents[child] => parent \in seen[r]

(* No run and no request waits for ever: locks, queues, deadlocks and      *)
(* statements of lost clients included.                                    *)
EveryoneEnds ==
  /\ \A s \in Seeders : (pc[s] # "idle") ~> (pc[s] = "idle")
  /\ \A r \in Readers : (rpos[r] # 0) ~> (rpos[r] = 0)

InLoadOrder(p) ==
  \A i, j \in DOMAIN p : \A k, l \in DOMAIN LoadOrder :
    i < j /\ LoadOrder[k] = p[i].table /\ LoadOrder[l] = p[j].table => k < l

(* The pages that read in load order are the ones that count every table.  *)
ASSUME CountsAssumption ==
  \A p \in Plans : InLoadOrder(p) => \A i \in DOMAIN p :
    /\ p[i].after = {}
    /\ \A u \in Parents[p[i].table] : \E j \in 1..i-1 : p[j].table = u

(* The deadlock detector aborts a --reset run that no other run overlaps   *)
(* only for a page, in the same ring, that reads tables against the load   *)
(* order.  The pages that its callers are told to poll count the tables in *)
(* load order.                                                             *)
ResetSurvivesReaders ==
  \A C \in Rings([x \in Sessions |-> Holders(x)]) :
    (\E s \in C \cap Seeders : alone[s] /\ reset[s])
      => \E r \in C \cap Readers : ~InLoadOrder(plan[r])
=============================================================================
