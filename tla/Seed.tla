-------------------------------- MODULE Seed --------------------------------
(***************************************************************************)
(* The CSV seeder, scripts/seed_csv.py, one SQL statement per step.        *)
(*                                                                         *)
(* A run is started by POST /admin/seed-csv as a background task of a web  *)
(* worker, or by the command line.  It writes the expected-counts          *)
(* manifest, connects, and then either finds trips non-empty and exits, or *)
(* truncates every table (--reset only) and copies every CSV file in       *)
(* LOAD_ORDER.  Each TRUNCATE and each COPY is a transaction of its own,   *)
(* so runs interleave between any two of them and a run that dies leaves   *)
(* what it did behind.  Nothing keeps two runs apart.                      *)
(*                                                                         *)
(* COPY is all or nothing and there is one CSV per table, so the content   *)
(* of the database is the set of tables that hold their rows.              *)
(***************************************************************************)
EXTENDS Naturals, Sequences

CONSTANTS
  Tables,      \* the domain tables
  LoadOrder,   \* the sequence of tables that COPY follows
  Parents,     \* Parents[t]: the tables that t's foreign keys point to
  Guard,       \* the table whose rows mean "already seeded": trips
  Seeders,     \* connections a run can hold; bounds how many runs overlap
  Images,      \* sets of CSV files that container images may ship
  ResetFlags,  \* the values of the reset parameter that operators use
  Losses       \* whether runs may be lost (killed, disconnected, redeployed)

N == Len(LoadOrder)

ASSUME OrderAssumption ==
  /\ LoadOrder \in Seq(Tables)
  /\ \A t \in Tables : \E i \in 1..N : LoadOrder[i] = t
  /\ \A i, j \in 1..N : i # j => LoadOrder[i] # LoadOrder[j]

ASSUME SchemaShape ==
  /\ Guard \in Tables
  /\ Parents \in [Tables -> SUBSET Tables]
  /\ \A i, j \in 1..N : LoadOrder[j] \in Parents[LoadOrder[i]] => j < i

(* What comes after trips references trips or something before them.       *)
ASSUME GuardAssumption ==
  \E g \in 1..N :
    /\ LoadOrder[g] = Guard
    /\ \A i \in g+1..N : \E j \in 1..g : LoadOrder[j] \in Parents[LoadOrder[i]]

ASSUME EnvironmentAssumption ==
  /\ Images \subseteq SUBSET Tables
  /\ ResetFlags \subseteq BOOLEAN
  /\ Losses \in BOOLEAN

VARIABLES
  loaded,    \* the tables whose CSV rows are in the database
  csv,       \* the CSV files the running container image ships
  manifest,  \* SEED_MANIFEST_PATH, in the container's /tmp
  pc,        \* pc[s]: where run s is
  reset,     \* reset[s]: the parameter run s was started with
  pos,       \* pos[s]: the index in LoadOrder of run s's current statement
  outcome,   \* outcome[s]: how the last run in slot s ended
  alone      \* alone[s]: no other run overlapped it so far (history variable)

vars == <<loaded, csv, manifest, pc, reset, pos, outcome, alone>>

(* "lostTruncate" and "lostCopy": the client is gone, but the statement it *)
(* had sent still waits or works in the server.                            *)
Phases == {"idle", "count", "write", "connect", "check", "truncate", "copy",
           "lostTruncate", "lostCopy"}

Outcomes == {"none", "running", "already seeded", "complete", "rejected",
             "missing CSV", "lost"}

-----------------------------------------------------------------------------
(* TRUNCATE t CASCADE empties t and every table that references it,        *)
(* directly or through other tables: the members of every set of tables    *)
(* that contains t and is closed under "is referenced by".                 *)
ChildClosedSets ==
  {S \in SUBSET Tables : \A v \in Tables : Parents[v] \cap S # {} => v \in S}

Cascade ==
  [t \in Tables |-> {u \in Tables : \A S \in ChildClosedSets : t \in S => u \in S}]

(* COPY t succeeds when t is empty (its CSV repeats the primary keys) and  *)
(* every table its rows reference is there.                                *)
Accepted(t) == t \notin loaded /\ Parents[t] \subseteq loaded

(* Where the loops over LOAD_ORDER end.                                    *)
LastCopyTooEarly(s) == pos[s] = N - 1       \* mutant: drops the last table
LastCopy(s) == pos[s] = N
LastTruncateTooEarly(s) == pos[s] = 2       \* mutant: leaves the first table
LastTruncate(s) == pos[s] = 1

SomeCsvPresent == csv # {}                  \* mutant: counts a few files only
EveryCsvPresent == csv = Tables

ResetIgnored(s) == FALSE                    \* mutant: --reset does nothing
AlwaysTruncates(s) == TRUE                  \* mutant: --reset by default
TruncatesFirst(s) == reset[s]

LastTableHasData == LoadOrder[N] \in loaded \* mutant: asks the last table
TableHasData == Guard \in loaded

Goto(s, p) == pc' = [pc EXCEPT ![s] = p]

Finish(s, o) ==
  /\ Goto(s, "idle")
  /\ outcome' = [outcome EXCEPT ![s] = o]

-----------------------------------------------------------------------------
Init ==
  /\ loaded = {}
  /\ csv \in Images
  /\ manifest = "none"
  /\ pc = [s \in Seeders |-> "idle"]
  /\ reset = [s \in Seeders |-> FALSE]
  /\ pos = [s \in Seeders |-> 1]
  /\ outcome = [s \in Seeders |-> "none"]
  /\ alone = [s \in Seeders |-> TRUE]

(* POST /admin/seed-csv or the command line. *)
Start(s) ==
  /\ pc[s] = "idle"
  /\ Goto(s, "count")
  /\ \E r \in ResetFlags : reset' = [reset EXCEPT ![s] = r]
  /\ outcome' = [outcome EXCEPT ![s] = "running"]
  /\ alone' = [o \in Seeders |->
                IF o = s THEN \A q \in Seeders \ {s} : pc[q] = "idle"
                         ELSE alone[o] /\ pc[o] = "idle"]
  /\ UNCHANGED <<loaded, csv, manifest, pos>>

(* _write_expected_manifest counts the rows of every CSV file before it    *)
(* opens the manifest.                                                     *)
MissingCsv(s) ==
  /\ pc[s] = "count"
  /\ ~EveryCsvPresent
  /\ Finish(s, "missing CSV")
  /\ UNCHANGED <<loaded, csv, manifest, reset, pos, alone>>

(* Path.write_text opens the file for writing, which empties it ...        *)
OpenManifest(s) ==
  /\ pc[s] = "count"
  /\ EveryCsvPresent
  /\ manifest' = "torn"
  /\ Goto(s, "write")
  /\ UNCHANGED <<loaded, csv, reset, pos, outcome, alone>>

(* ... and then writes the counts.                                         *)
WriteManifest(s) ==
  /\ pc[s] = "write"
  /\ manifest' = "full"
  /\ Goto(s, "connect")
  /\ UNCHANGED <<loaded, csv, reset, pos, outcome, alone>>

Connect(s) ==
  /\ pc[s] = "connect"
  /\ IF TruncatesFirst(s)
     THEN Goto(s, "truncate") /\ pos' = [pos EXCEPT ![s] = N]
     ELSE Goto(s, "check") /\ UNCHANGED pos
  /\ UNCHANGED <<loaded, csv, manifest, reset, outcome, alone>>

AlreadySeeded(s) ==
  /\ pc[s] = "check"
  /\ TableHasData
  /\ Finish(s, "already seeded")
  /\ UNCHANGED <<loaded, csv, manifest, reset, pos, alone>>

NotSeeded(s) ==
  /\ pc[s] = "check"
  /\ ~TableHasData
  /\ Goto(s, "copy")
  /\ pos' = [pos EXCEPT ![s] = 1]
  /\ UNCHANGED <<loaded, csv, manifest, reset, outcome, alone>>

(* One TRUNCATE of _truncate_all, which walks LOAD_ORDER backwards.        *)
Truncate(s) ==
  /\ pc[s] = "truncate"
  /\ loaded' = loaded \ Cascade[LoadOrder[pos[s]]]
  /\ IF LastTruncate(s)
     THEN Goto(s, "copy") /\ UNCHANGED pos
     ELSE UNCHANGED pc /\ pos' = [pos EXCEPT ![s] = @ - 1]
  /\ UNCHANGED <<csv, manifest, reset, outcome, alone>>

(* One COPY of the loop over LOAD_ORDER commits.                           *)
CopyCommits(s) ==
  /\ pc[s] = "copy"
  /\ loaded' = loaded \cup {LoadOrder[pos[s]]}
  /\ IF LastCopy(s)
     THEN Finish(s, "complete") /\ UNCHANGED pos
     ELSE UNCHANGED <<pc, outcome>> /\ pos' = [pos EXCEPT ![s] = @ + 1]
  /\ UNCHANGED <<csv, manifest, reset, alone>>

(* The exception of a COPY that fails ends the run.                        *)
CopyFails(s) ==
  /\ pc[s] = "copy"
  /\ Finish(s, "rejected")
  /\ UNCHANGED <<loaded, csv, manifest, reset, pos, alone>>

(* _copy_csv's own check for the CSV file cannot fail here: OpenManifest   *)
(* saw every file of the same image.                                       *)
Copy(s) == Accepted(LoadOrder[pos[s]]) /\ CopyCommits(s)

(* The database raises a unique or foreign-key violation.                  *)
CopyRejected(s) == ~Accepted(LoadOrder[pos[s]]) /\ CopyFails(s)

-----------------------------------------------------------------------------
(* What a lost run can leave behind: nothing more to happen, or the        *)
(* statement it was waiting for.                                           *)
Remains(p) ==
  CASE p = "truncate" -> {"idle", "lostTruncate"}
    [] p = "copy"     -> {"idle", "lostCopy"}
    [] p \in {"lostTruncate", "lostCopy"} -> {p}
    [] OTHER          -> {"idle"}

Live(s) == pc[s] \notin {"idle", "lostTruncate", "lostCopy"}

(* The worker or the command dies, the connection breaks or cannot be      *)
(* made, or the server makes the statement a deadlock victim.  The         *)
(* manifest survives: a respawned worker shares the container.             *)
Lose(s) ==
  /\ Losses
  /\ Live(s)
  /\ \E p \in Remains(pc[s]) : Goto(s, p)
  /\ outcome' = [outcome EXCEPT ![s] = "lost"]
  /\ UNCHANGED <<loaded, csv, manifest, reset, pos, alone>>

(* The server ends the statement of a client that is gone: it takes        *)
(* effect, or it is cancelled, or COPY is rejected.                        *)
LostStatement(s) ==
  /\ pc[s] \in {"lostTruncate", "lostCopy"}
  /\ LET t == LoadOrder[pos[s]] IN
     \/ pc[s] = "lostTruncate" /\ loaded' = loaded \ Cascade[t]
     \/ pc[s] = "lostCopy" /\ Accepted(t) /\ loaded' = loaded \cup {t}
     \/ UNCHANGED loaded
  /\ Goto(s, "idle")
  /\ UNCHANGED <<csv, manifest, reset, pos, outcome, alone>>

(* A deployment recreates the container: every run of the old one is lost, *)
(* its /tmp with the manifest is gone, the database stays.                 *)
Redeploy ==
  /\ Losses
  /\ csv' \in Images
  /\ manifest' = "none"
  /\ pc' \in {f \in [Seeders -> Phases] : \A s \in Seeders : f[s] \in Remains(pc[s])}
  /\ outcome' = [s \in Seeders |-> IF Live(s) THEN "lost" ELSE outcome[s]]
  /\ UNCHANGED <<loaded, reset, pos, alone>>

(* What run s does next when nothing goes wrong around it. *)
Step(s) ==
  \/ MissingCsv(s) \/ OpenManifest(s) \/ WriteManifest(s) \/ Connect(s)
  \/ AlreadySeeded(s) \/ NotSeeded(s)
  \/ Truncate(s) \/ Copy(s) \/ CopyRejected(s) \/ LostStatement(s)

Next ==
  \/ \E s \in Seeders : Start(s) \/ Step(s) \/ Lose(s)
  \/ Redeploy

Spec == Init /\ [][Next]_vars

(* What GET /dashboard/seed-check answers in a state: it compares the rows *)
(* with the manifest, if there is a readable one.                          *)
SeedCheck ==
  IF manifest # "full" THEN "unknown" ELSE IF loaded = Tables THEN "ok" ELSE "mismatch"

(* The event loop resumes every run and the server answers every           *)
(* statement; nobody has to start a run, and nothing has to be lost.       *)
FairSpec == Spec /\ \A s \in Seeders : WF_vars(Step(s))
-----------------------------------------------------------------------------
(* Every variable stays in its domain; in particular no run indexes past   *)
(* the ends of LOAD_ORDER.                                                 *)
TypeOK ==
  /\ loaded \subseteq Tables
  /\ csv \in Images
  /\ manifest \in {"none", "torn", "full"}
  /\ pc \in [Seeders -> Phases]
  /\ reset \in [Seeders -> BOOLEAN]
  /\ pos \in [Seeders -> 1..N]
  /\ outcome \in [Seeders -> Outcomes]
  /\ alone \in [Seeders -> BOOLEAN]

(* The foreign keys, which the database enforces: no table holds rows      *)
(* whose parents are missing.  No property of the code, but what several   *)
(* of its properties rest on.                                              *)
FKClosed == \A t \in loaded : Parents[t] \subseteq loaded

First(m) == {LoadOrder[i] : i \in 1..m}

(* A --reset run that nothing overlaps works from whatever the runs before *)
(* it left: while it truncates, every table after its position is empty,   *)
(* and while it copies, exactly the tables before its position are there.  *)
LoneResetExact ==
  \A s \in Seeders : alone[s] /\ reset[s] =>
    /\ pc[s] = "truncate" => \A i \in pos[s]+1..N : LoadOrder[i] \notin loaded
    /\ pc[s] = "copy" => loaded = First(pos[s] - 1)

(* So such a run is never stopped by a constraint: any state that plain    *)
(* runs, racing runs and crashes can produce is one --reset repairs.       *)
LoneResetNotRejected ==
  \A s \in Seeders : alone[s] /\ reset[s] => outcome[s] # "rejected"

(* "seed complete", printed by a run of either kind that nothing           *)
(* overlapped, is said of a complete database, and the seed check agrees.  *)
LoneCompleteIsComplete ==
  [][\A s \in Seeders :
       alone[s] /\ outcome[s] = "running" /\ outcome'[s] = "complete"
         => loaded' = Tables /\ SeedCheck' = "ok"]_vars

(* An image that lacks a CSV file costs no data: the run fails before it   *)
(* touches the database.  Only a statement that an earlier deployment's    *)
(* run left in the server can still empty a table.                         *)
MissingCsvCostsNothing ==
  [][loaded \ loaded' # {} =>
       \/ csv = Tables
       \/ \E s \in Seeders : pc[s] = "lostTruncate"]_vars

(* A run that nothing overlapped and that a constraint stopped neither     *)
(* found trips nor left any, whatever lost and racing runs had left for    *)
(* it.  So its failure is never followed by "already seeded", and over     *)
(* loaded trips the command is idempotent: it exits without an error.      *)
RejectionIsNoSeed ==
  [][\A s \in Seeders :
       alone[s] /\ outcome[s] = "running" /\ outcome'[s] = "rejected"
         => Guard \notin loaded']_vars

(* Without --reset, the database always holds a prefix of LOAD_ORDER: no   *)
(* overlap of plain runs and no loss of one leaves a gap.                  *)
PlainPrefix == \E m \in 0..N : loaded = First(m)

Quiet == \A s \in Seeders : pc[s] = "idle"

(* Plain runs submitted twice, or any number of times, load everything     *)
(* once: when none is left and none was lost, it is all there or none was  *)
(* started.                                                                *)
DoubleSubmitSafe == Quiet => loaded \in {{}, Tables}

(* With none lost and every CSV shipped, a started plain run, or the one   *)
(* that beat it, fills the database.                                       *)
StartedMeansSeeded ==
  (\E s \in Seeders : outcome[s] = "running") ~> (loaded = Tables)

(* A --reset run that stays alone ends, and ends with a complete database, *)
(* unless it was lost or its image lacks a CSV file.                       *)
LoneResetRepairs ==
  \A s \in Seeders :
    (outcome[s] = "running" /\ reset[s] /\ alone[s])
      ~> \/ loaded = Tables
         \/ ~alone[s]
         \/ outcome[s] \in {"lost", "missing CSV"}

(* seed_csv.py:162 says "data already seeded" and the endpoint calls that  *)
(* exit idempotent: whenever a plain run ends so, the data is all there.   *)
AlreadySeededIsComplete ==
  [][\A s \in Seeders :
       outcome[s] = "running" /\ outcome'[s] = "already seeded"
         => loaded = Tables]_vars
=============================================================================
