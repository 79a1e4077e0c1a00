------------------------------- MODULE Stats --------------------------------
(***************************************************************************)
(* The request counters of the dashboard, src/dashboard/store.py.          *)
(*                                                                         *)
(* Every worker process counts its responses in memory and, after each     *)
(* one, replaces its own file in STATS_DIR by its counts.  Any worker      *)
(* answers GET /dashboard/stats by adding up all the files it finds.       *)
(* increment and read_merged do not await, so a worker does one thing at a *)
(* time; other workers run, die and are respawned between two file         *)
(* operations of one.  A restarted container keeps its /tmp, where         *)
(* STATS_DIR is, and counts its process ids from the beginning.            *)
(***************************************************************************)
EXTENDS Naturals, FiniteSets, Functions

CONSTANTS
  Workers,      \* the worker slots of the uvicorn supervisor
  Pids,         \* process ids; how many workers a container's life can see
  NoPid,        \* the pid of a slot without a process
  Keys,         \* "METHOD /route" with a status: what is counted separately
  MaxRequests,  \* bound: responses counted since the container started
  MaxFailures,  \* bound: writes to STATS_DIR that fail (full, read-only)
  MaxDeaths,    \* bound: workers killed
  MaxRestarts   \* bound: restarts of the container

ASSUME StatsAssumption ==
  /\ NoPid \notin Pids
  /\ IsFiniteSet(Workers) /\ IsFiniteSet(Pids) /\ IsFiniteSet(Keys)
  /\ {MaxRequests, MaxFailures, MaxDeaths, MaxRestarts} \subseteq Nat

VARIABLES
  pid,       \* pid[w]: the process in slot w
  counts,    \* counts[w]: its _counts
  stage,     \* stage[w]: what it is in the middle of
  tmp,       \* tmp[w]: the content of the temporary file it has written
  files,     \* files[p]: what stats.<p>.json adds to the answer
  todo,      \* todo[w]: the files the glob found that are not read yet
  got,       \* got[w][p]: what w has read from stats.<p>.json
  used,      \* the pids handed out since the container started
  handled,   \* responses counted since the container started (history)
  floor,     \* floor[w]: files when w's read began (history)
  failures, deaths,   \* how many of each since the container started
  restarts            \* how often it was restarted

vars == <<pid, counts, stage, tmp, files, todo, got, used, handled, floor,
          failures, deaths, restarts>>

(* A file that does not exist adds nothing, like one with no counts; a     *)
(* worker writes its first file after its first count.                     *)
Zero == [k \in Keys |-> 0]
NoFiles == [p \in Pids |-> Zero]
Counts == [Keys -> Nat]

AtMost(f, g) == \A k \in Keys : f[k] <= g[k]

(* read_merged's two loops: the counts of all files, added up by key. *)
Merged(fs) == [k \in Keys |-> SumFunctionOnSet([p \in Pids |-> fs[p][k]], Pids)]

Total(f) == SumFunctionOnSet(f, Keys)

-----------------------------------------------------------------------------
Init ==
  /\ pid = [w \in Workers |-> NoPid]
  /\ counts = [w \in Workers |-> Zero]
  /\ stage = [w \in Workers |-> "idle"]
  /\ tmp = [w \in Workers |-> Zero]
  /\ files = NoFiles
  /\ todo = [w \in Workers |-> {}]
  /\ got = [w \in Workers |-> NoFiles]
  /\ used = {}
  /\ handled = Zero
  /\ floor = [w \in Workers |-> NoFiles]
  /\ failures = 0
  /\ deaths = 0
  /\ restarts = 0

(* The supervisor starts a process in an empty slot.  Linux hands out the  *)
(* pids of a container in turn.                                            *)
Spawn(w) ==
  /\ pid[w] = NoPid
  /\ \E p \in Pids \ used : pid' = [pid EXCEPT ![w] = p] /\ used' = used \cup {p}
  /\ UNCHANGED <<counts, stage, tmp, files, todo, got, handled, floor,
                 failures, deaths, restarts>>

Free(w) == pid[w] # NoPid /\ stage[w] = "idle"

(* The middleware has a response to count.  It counts none for "/" and     *)
(* "/dashboard/stats", nor when the handler raised.                        *)
Increment(w, k) ==
  /\ Free(w)
  /\ Total(handled) < MaxRequests
  /\ counts' = [counts EXCEPT ![w][k] = @ + 1]
  /\ handled' = [handled EXCEPT ![k] = @ + 1]
  /\ stage' = [stage EXCEPT ![w] = "counted"]
  /\ UNCHANGED <<pid, tmp, files, todo, got, used, floor, failures, deaths, restarts>>

(* mkstemp and json.dump *)
WriteTmp(w) ==
  /\ stage[w] = "counted"
  /\ tmp' = [tmp EXCEPT ![w] = counts[w]]
  /\ stage' = [stage EXCEPT ![w] = "written"]
  /\ UNCHANGED <<pid, counts, files, todo, got, used, handled, floor,
                 failures, deaths, restarts>>

(* os.replace puts the whole temporary file in the place of the old one.   *)
ReplaceByDelta(w) ==                        \* mutant: appends to the file
  /\ stage[w] = "written"
  /\ files' = [files EXCEPT ![pid[w]] = [k \in Keys |-> @[k] + tmp[w][k]]]
  /\ stage' = [stage EXCEPT ![w] = "idle"]
  /\ tmp' = [tmp EXCEPT ![w] = Zero]
  /\ UNCHANGED <<pid, counts, todo, got, used, handled, floor, failures, deaths,
                 restarts>>

Replace(w) ==
  /\ stage[w] = "written"
  /\ files' = [files EXCEPT ![pid[w]] = tmp[w]]
  /\ stage' = [stage EXCEPT ![w] = "idle"]
  /\ tmp' = [tmp EXCEPT ![w] = Zero]
  /\ UNCHANGED <<pid, counts, todo, got, used, handled, floor, failures, deaths,
                 restarts>>

(* makedirs, mkstemp, the write or the replace fails: the temporary file   *)
(* is removed, the client gets an error, the count stays in memory.        *)
ForgetsTheRest(w) == Zero                   \* mutant: clears _counts as well
AfterFailure(w) == counts[w]

PersistFails(w) ==
  /\ stage[w] \in {"counted", "written"}
  /\ failures < MaxFailures
  /\ failures' = failures + 1
  /\ stage' = [stage EXCEPT ![w] = "idle"]
  /\ counts' = [counts EXCEPT ![w] = AfterFailure(w)]
  /\ tmp' = [tmp EXCEPT ![w] = Zero]
  /\ UNCHANGED <<pid, files, todo, got, used, handled, floor, deaths, restarts>>

-----------------------------------------------------------------------------
(* GET /dashboard/stats globs the directory ... *)
Glob(w) ==
  /\ Free(w)
  /\ stage' = [stage EXCEPT ![w] = "reading"]
  /\ todo' = [todo EXCEPT ![w] = {p \in Pids : files[p] # Zero}]
  /\ floor' = [floor EXCEPT ![w] = files]
  /\ UNCHANGED <<pid, counts, tmp, files, got, used, handled, failures, deaths, restarts>>

(* ... reads the files it found, one by one, ... *)
ReadFile(w) ==
  /\ \E p \in todo[w] :
       /\ got' = [got EXCEPT ![w][p] = files[p]]
       /\ todo' = [todo EXCEPT ![w] = @ \ {p}]
  /\ UNCHANGED <<pid, counts, stage, tmp, files, used, handled, floor,
                 failures, deaths, restarts>>

(* ... and answers with Merged(got[w]). *)
FirstFileRead(w) ==                         \* mutant: returns inside the loop
  stage[w] = "reading" /\ (todo[w] = {} \/ got[w] # NoFiles)
Answering(w) == stage[w] = "reading" /\ todo[w] = {}

Answer(w) ==
  /\ Answering(w)
  /\ stage' = [stage EXCEPT ![w] = "idle"]
  /\ got' = [got EXCEPT ![w] = NoFiles]
  /\ floor' = [floor EXCEPT ![w] = NoFiles]
  /\ UNCHANGED <<pid, counts, tmp, files, todo, used, handled, failures, deaths,
                 restarts>>

-----------------------------------------------------------------------------
(* Processes of W end wherever they are; their files stay.  A temporary    *)
(* file stays, too, but no glob finds that one.                            *)
End(W) ==
  /\ pid' = [w \in Workers |-> IF w \in W THEN NoPid ELSE pid[w]]
  /\ counts' = [w \in Workers |-> IF w \in W THEN Zero ELSE counts[w]]
  /\ stage' = [w \in Workers |-> IF w \in W THEN "idle" ELSE stage[w]]
  /\ tmp' = [w \in Workers |-> IF w \in W THEN Zero ELSE tmp[w]]
  /\ todo' = [w \in Workers |-> IF w \in W THEN {} ELSE todo[w]]
  /\ got' = [w \in Workers |-> IF w \in W THEN NoFiles ELSE got[w]]
  /\ floor' = [w \in Workers |-> IF w \in W THEN NoFiles ELSE floor[w]]

Die(w) ==
  /\ pid[w] # NoPid
  /\ deaths < MaxDeaths
  /\ deaths' = deaths + 1
  /\ End({w})
  /\ UNCHANGED <<files, used, handled, failures, restarts>>

Restart ==
  /\ restarts < MaxRestarts
  /\ restarts' = restarts + 1
  /\ End(Workers)
  /\ used' = {}
  /\ handled' = Zero
  /\ failures' = 0
  /\ deaths' = 0
  /\ UNCHANGED files

Next ==
  \/ \E w \in Workers :
       \/ Spawn(w) \/ WriteTmp(w) \/ Replace(w) \/ PersistFails(w)
       \/ Glob(w) \/ ReadFile(w) \/ Answer(w) \/ Die(w)
       \/ \E k \in Keys : Increment(w, k)
  \/ Restart

Spec == Init /\ [][Next]_vars
-----------------------------------------------------------------------------
(* Every variable stays in its domain, and no two workers have one pid, so *)
(* none writes the file of another.                                        *)
TypeOK ==
  /\ pid \in [Workers -> Pids \cup {NoPid}]
  /\ \A v, w \in Workers : v # w /\ pid[v] = pid[w] => pid[v] = NoPid
  /\ counts \in [Workers -> Counts]
  /\ stage \in [Workers -> {"idle", "counted", "written", "reading"}]
  /\ tmp \in [Workers -> Counts]
  /\ files \in [Pids -> Counts]
  /\ todo \in [Workers -> SUBSET Pids]
  /\ got \in [Workers -> [Pids -> Counts]]
  /\ used \subseteq Pids
  /\ handled \in Counts
  /\ floor \in [Workers -> [Pids -> Counts]]
  /\ failures \in 0..MaxFailures /\ deaths \in 0..MaxDeaths
  /\ restarts \in 0..MaxRestarts

(* An answer of the container's first life lies between what the files     *)
(* said when it was begun and what they say when it is given, file by      *)
(* file, although other workers write in between: no count is read half    *)
(* written, twice or not at all.                                           *)
AnswerIsBetween ==
  restarts = 0 =>
    \A w \in Workers : Answering(w) =>
      \A p \in Pids : AtMost(floor[w][p], got[w][p]) /\ AtMost(got[w][p], files[p])

(* index.html:31 heads the table "requests since start": no answer counts  *)
(* more than the responses since the container started.                    *)
AnswerSinceStart ==
  \A w \in Workers : Answering(w) => AtMost(Merged(got[w]), handled)

(* It holds while docker has not restarted the container, whatever workers *)
(* died and were replaced.                                                 *)
FirstAnswersSinceStart == restarts = 0 => AnswerSinceStart

Unsaved == {w \in Workers : stage[w] \in {"counted", "written"}}

(* Each killed worker and each failed write costs the dashboard at most    *)
(* one response; all others are in the files as soon as no worker is       *)
(* between its increment and its os.replace.                               *)
LossIsBounded ==
  Total(handled) <= Total(Merged(files)) + failures + deaths + Cardinality(Unsaved)
=============================================================================
