------------------------------- MODULE Stress -------------------------------
(***************************************************************************)
(* The harness perf/stress_trip_search.py as a client of the worker of     *)
(* module Requests, beside other clients.                                  *)
(*                                                                         *)
(* It logs in, warms up, and then raises the number of parallel searches   *)
(* stage by stage.  Each stage is a set of tasks that share a semaphore; a *)
(* task books a latency or an error.  After its timeout a task gives up,   *)
(* but the worker goes on with what it was asked: such a request is        *)
(* abandoned, and may still run in the next stage.                         *)
(***************************************************************************)
EXTENDS Requests

CONSTANTS
  Plan,        \* the stages: how many searches at once, how many in all
  Others       \* the kinds of requests that other clients send

ASSUME StressAssumption ==
  /\ {"page"} \cup Others \subseteq Kinds
  /\ Plan \in Seq([parallel : Nat \ {0}, total : Nat \ {0}])
  /\ Plan # <<>>

VARIABLES
  at,          \* the stage that runs; 1 is the login
  pending,     \* how many of its tasks wait for the semaphore
  permits,     \* what is left of the semaphore
  owner,       \* owner[r]: "harness" awaits r, has "abandoned" it, or "other"
  latencies,   \* how many latencies the stage has booked
  errors       \* how many errors

harness == <<at, pending, permits, owner, latencies, errors>>
svars == <<vars, harness>>

Running == at \in DOMAIN Plan
Awaited == {r \in Slots : owner[r] = "harness"}

(* The login, the warm-up, and loops: parallelism p, and rounds * p tasks. *)
Login == [parallel |-> 1, total |-> 1]
Loops(geos, rounds) ==
  [i \in DOMAIN geos |-> [parallel |-> geos[i], total |-> rounds * geos[i]]]

Begin(i) ==
  /\ at' = i
  /\ pending' = IF i \in DOMAIN Plan THEN Plan[i].total ELSE 0
  /\ permits' = IF i \in DOMAIN Plan THEN Plan[i].parallel ELSE 0
  /\ latencies' = 0
  /\ errors' = 0

-----------------------------------------------------------------------------
SInit ==
  /\ Init
  /\ at = 1
  /\ pending = Plan[1].total
  /\ permits = Plan[1].parallel
  /\ owner = [r \in Slots |-> "other"]
  /\ latencies = 0
  /\ errors = 0

(* send_request: past the semaphore, the request is sent. *)
Send(r) ==
  /\ Running /\ pending > 0 /\ permits > 0
  /\ Arrive(r, "page")
  /\ owner' = [owner EXCEPT ![r] = "harness"]
  /\ pending' = pending - 1
  /\ permits' = permits - 1
  /\ UNCHANGED <<at, latencies, errors>>

(* ... or refused, since no worker listens: an exception, booked.          *)
SendFails ==
  /\ Running /\ pending > 0 /\ permits > 0
  /\ ~up
  /\ pending' = pending - 1
  /\ errors' = errors + 1
  /\ UNCHANGED <<vars, at, permits, owner, latencies>>

BookBoth(r) ==        \* mutant: without the return after errors.append
  /\ latencies' = latencies + 1
  /\ errors' = IF answer'[r] = "ok" THEN errors ELSE errors + 1

Book(r) ==
  IF answer'[r] = "ok" THEN latencies' = latencies + 1 /\ UNCHANGED errors
                       ELSE errors' = errors + 1 /\ UNCHANGED latencies

KeepsPermit(r) ==     \* mutant: an error leaves without releasing
  IF answer'[r] = "ok" THEN permits + 1 ELSE permits
Released(r) == permits + 1

(* The worker does something.  Its answer reaches the task that awaits it. *)
Serve(r) ==
  /\ Step(r)
  /\ IF owner[r] = "harness" /\ stage'[r] = "sent"
     THEN /\ Book(r)
          /\ permits' = Released(r)
          /\ owner' = [owner EXCEPT ![r] = "abandoned"]
     ELSE /\ UNCHANGED <<permits, latencies, errors>>
          /\ owner' = [owner EXCEPT ![r] = IF stage'[r] = "free" THEN "other" ELSE @]
  /\ UNCHANGED <<at, pending>>

(* A hundred and twenty seconds are over. *)
ClientTimeout(r) ==
  /\ owner[r] = "harness"
  /\ owner' = [owner EXCEPT ![r] = "abandoned"]
  /\ errors' = errors + 1
  /\ permits' = permits + 1
  /\ UNCHANGED <<vars, at, pending, latencies>>

(* All tasks are gathered.  A login that fails ends the harness.           *)
Gathered == Running /\ pending = 0 /\ Awaited = {}

NextStage ==
  /\ Gathered
  /\ Begin(IF at = 1 /\ errors > 0 THEN Len(Plan) + 1 ELSE at + 1)
  /\ UNCHANGED <<vars, owner>>

OtherClient(r) == \E k \in Others : Arrive(r, k) /\ UNCHANGED harness

Elsewhere ==
  /\ Outage \/ Recover \/ Respawn
  /\ UNCHANGED harness

(* The connections of awaited requests break: exceptions, booked.          *)
DieUnderLoad ==
  /\ Die
  /\ errors' = errors + Cardinality(Awaited)
  /\ permits' = permits + Cardinality(Awaited)
  /\ owner' = [r \in Slots |-> "other"]
  /\ UNCHANGED <<at, pending, latencies>>

Harness == \/ \E r \in Slots : Send(r) \/ ClientTimeout(r)
           \/ SendFails \/ NextStage

SNext ==
  \/ \E r \in Slots : Send(r) \/ Serve(r) \/ ClientTimeout(r) \/ OtherClient(r)
  \/ SendFails \/ NextStage \/ Elsewhere \/ DieUnderLoad

SSpec == SInit /\ [][SNext]_svars

(* As in Requests.  The harness goes on when it can, and the worker is     *)
(* there again after a while; nothing obliges a client to give up.         *)
SFairSpec ==
  /\ SSpec
  /\ \A r \in Slots : WF_svars(Serve(r))
  /\ SF_svars(\E r \in Slots : Send(r)) /\ WF_svars(SendFails) /\ WF_svars(NextStage)
  /\ WF_svars(Recover /\ UNCHANGED harness) /\ WF_svars(Respawn /\ UNCHANGED harness)
-----------------------------------------------------------------------------
STypeOK ==
  /\ TypeOK
  /\ at \in 1..Len(Plan) + 1
  /\ {pending, permits, latencies, errors} \subseteq Nat
  /\ owner \in [Slots -> {"harness", "abandoned", "other"}]
  /\ \A r \in Awaited : kind[r] = "page" /\ stage[r] # "free" /\ ~Sent(r)
  /\ Running => permits + Cardinality(Awaited) = Plan[at].parallel

(* A row of the report accounts for every request of its stage, once.      *)
LedgerComplete == Gathered => latencies + errors = Plan[at].total

(* As long as a stage sends no more at once than the pool has connections, *)
(* its searches wait for each other's connections only because of requests *)
(* that it gave up on, or of other clients.                                *)
OnlyCrowdWaits ==
  Running /\ Plan[at].parallel <= Limit /\ out = Limit
    /\ (\E r \in Awaited : stage[r] = "queued")
  => \E r \in Slots : stage[r] # "free" /\ owner[r] # "harness"

(* The harness comes to its end, whatever happens to the worker.           *)
HarnessEnds == <>(at > Len(Plan))
=============================================================================
