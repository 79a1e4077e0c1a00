------------------------------ MODULE Requests ------------------------------
(***************************************************************************)
(* The requests of one worker process and the connection pool they share.  *)
(*                                                                         *)
(* A request passes the middlewares of main.py to its route.  It takes a   *)
(* connection when its session runs a first statement, and has it until    *)
(* the session of get_session is closed: before the answer when the        *)
(* handler raises, else after the answer and its background tasks.  The    *)
(* counter of dashboard/middleware.py sees an answer on its way out, but   *)
(* not an exception, which the server turns into a 500 outside of it.      *)
(*                                                                         *)
(* While all connections are in use, requests wait for one, thirty seconds *)
(* at most and in no particular order.  The database may go away; the pool *)
(* does not test its connections before it hands them out.                 *)
(***************************************************************************)
EXTENDS Naturals, Sequences, FiniteSets

CONSTANTS
  Slots,        \* places for requests in the worker; how many it can have
  Kinds,        \* the kinds of requests that clients send
  PoolSize,     \* connections the pool keeps when they are idle: 5
  MaxOverflow,  \* connections it opens beyond them: 5
  MaxMishaps    \* bound: how often the database goes away, the counters
                \* cannot be written, or the worker is killed

AllKinds == {"live",     \* GET /health/live: no session
             "stats",    \* GET /dashboard/stats and GET /: not counted either
             "ready",    \* GET /health/ready: answers 503 for every exception
             "page",     \* a token and statements: searches, dashboards, ...
             "seed"}     \* POST /admin/seed-csv: a token and a background task

ASSUME RequestsAssumption ==
  /\ IsFiniteSet(Slots)
  /\ Kinds \subseteq AllKinds
  /\ PoolSize \in Nat \ {0}
  /\ {MaxOverflow, MaxMishaps} \subseteq Nat

VARIABLES
  kind,      \* kind[r]: the request in slot r
  stage,     \* stage[r]: how far it is
  conn,      \* conn[r]: its connection, "none", "good" or "stale"
  answer,    \* answer[r]: the answer prepared for it, the client's when sent
  tasks,     \* the requests with a background task yet to run
  counted,   \* counted[r]: how often the middleware counted it
  up,        \* whether the worker serves
  idle,      \* the pool's idle connections, in the order they came back
  out,       \* how many it has handed out
  db,        \* whether the database answers
  noticed,   \* a stale connection was noticed since the last outage (history)
  failed,    \* failed[r]: its counting could not be written (history)
  mishaps

pool == <<idle, out, noticed>>
vars == <<kind, stage, conn, answer, tasks, counted, pool, db, failed, up, mishaps>>

Stages == {"free", "running", "queued", "working", "answering", "raised",
           "sent", "background"}
Answers == {"none", "ok", "accepted", "refused", "unready", "error"}
Conns == {"good", "stale"}

Limit == PoolSize + MaxOverflow
HasSession == {"ready", "page", "seed"}
HasToken == {"page", "seed"}

Sent(r) == stage[r] \in {"sent", "background"}

Mishap == mishaps < MaxMishaps /\ mishaps' = mishaps + 1

Goto(r, s) == stage' = [stage EXCEPT ![r] = s]
Prepare(r, s, a) == Goto(r, s) /\ answer' = [answer EXCEPT ![r] = a]

(* What a request that raised leads to; ready catches the exception.       *)
Raise(r) ==
  IF kind[r] = "ready" THEN Prepare(r, "answering", "unready")
                       ELSE Prepare(r, "raised", "error")

-----------------------------------------------------------------------------
(* The session of r is closed.  A good connection goes back to the pool,   *)
(* or is closed if the pool has enough.  The rollback on a dead one fails, *)
(* upon which the pool forgets all it has.                                 *)
PutBackAnyhow(r) ==            \* mutant: a dead connection goes back as well
  /\ idle' = IF Len(idle) < PoolSize THEN Append(idle, conn[r]) ELSE idle
  /\ noticed' = (noticed \/ conn[r] = "stale")

PutBack(r) ==
  IF conn[r] = "stale"
  THEN idle' = <<>> /\ noticed' = TRUE
  ELSE /\ idle' = IF Len(idle) < PoolSize THEN Append(idle, "good") ELSE idle
       /\ UNCHANGED noticed

CloseSession(r) ==
  IF conn[r] = "none"
  THEN UNCHANGED <<conn, pool>>
  ELSE /\ PutBack(r)
       /\ out' = out - 1
       /\ conn' = [conn EXCEPT ![r] = "none"]

-----------------------------------------------------------------------------
Init ==
  /\ kind = [r \in Slots |-> "live"]
  /\ stage = [r \in Slots |-> "free"]
  /\ conn = [r \in Slots |-> "none"]
  /\ answer = [r \in Slots |-> "none"]
  /\ tasks = {}
  /\ counted = [r \in Slots |-> 0]
  /\ failed = [r \in Slots |-> FALSE]
  /\ idle = <<"good">>                   \* of the lifespan
  /\ out = 0
  /\ db = TRUE
  /\ up = TRUE
  /\ noticed = FALSE
  /\ mishaps = 0

Arrive(r, k) ==
  /\ up
  /\ stage[r] = "free"
  /\ kind' = [kind EXCEPT ![r] = k]
  /\ Goto(r, "running")
  /\ UNCHANGED <<conn, answer, tasks, counted, pool, db, failed, up, mishaps>>

(* A handler without a session, or a token that does not decode.           *)
AnswerAtOnce(r) ==
  /\ stage[r] = "running"
  /\ \/ kind[r] \notin HasSession /\ Prepare(r, "answering", "ok")
     \/ kind[r] \in HasToken /\ Prepare(r, "answering", "refused")
  /\ UNCHANGED <<kind, conn, tasks, counted, pool, db, failed, up, mishaps>>

(* The first statement of the session. *)
NeedConnection(r) ==
  /\ stage[r] = "running"
  /\ kind[r] \in HasSession
  /\ Goto(r, "queued")
  /\ UNCHANGED <<kind, conn, answer, tasks, counted, pool, db, failed, up, mishaps>>

TakeFromPool(r, c) ==
  /\ Goto(r, "working")
  /\ conn' = [conn EXCEPT ![r] = c]
  /\ out' = out + 1
  /\ UNCHANGED <<answer, noticed>>

(* The oldest idle connection, or a new one.                               *)
CheckOut(r) ==
  /\ stage[r] = "queued"
  /\ \/ /\ idle # <<>>
        /\ TakeFromPool(r, Head(idle))
        /\ idle' = Tail(idle)
     \/ /\ idle = <<>> /\ out < Limit
        /\ IF db THEN TakeFromPool(r, "good")
                 ELSE Raise(r) /\ UNCHANGED <<conn, out, noticed>>
        /\ UNCHANGED idle
  /\ UNCHANGED <<kind, tasks, counted, db, failed, up, mishaps>>

(* Thirty seconds are over and all connections in use. *)
PoolTimeout(r) ==
  /\ stage[r] = "queued"
  /\ idle = <<>> /\ out = Limit
  /\ Raise(r)
  /\ UNCHANGED <<kind, conn, tasks, counted, pool, db, failed, up, mishaps>>

-----------------------------------------------------------------------------
(* The handler's statements succeed and it returns.                        *)
Work(r) ==
  /\ stage[r] = "working"
  /\ conn[r] = "good"
  /\ IF kind[r] = "seed"
     THEN Prepare(r, "answering", "accepted") /\ tasks' = tasks \cup {r}
     ELSE Prepare(r, "answering", "ok") /\ UNCHANGED tasks
  /\ UNCHANGED <<kind, conn, counted, pool, db, failed, up, mishaps>>

RaiseWithSession(r) ==                \* mutant: the session is not closed
  /\ UNCHANGED <<idle, noticed>>
  /\ out' = out
  /\ conn' = [conn EXCEPT ![r] = "none"]

OnRaise(r) == CloseSession(r)

(* It raises: an HTTPException, which is an answer, or, on a dead          *)
(* connection or from a page's own computation, another one.               *)
WorkRaises(r) ==
  /\ stage[r] = "working"
  /\ \/ conn[r] = "good" /\ kind[r] \in HasToken /\ Prepare(r, "answering", "refused")
     \/ (conn[r] = "stale" \/ kind[r] = "page") /\ Raise(r)
  /\ OnRaise(r)
  /\ UNCHANGED <<kind, tasks, counted, db, failed, up, mishaps>>

(* RequestCounterMiddleware: the answer is counted and goes on its way.    *)
IsCounted(r) == kind[r] # "stats"

Count(r) ==
  /\ stage[r] = "answering"
  /\ counted' = [counted EXCEPT ![r] = IF IsCounted(r) THEN @ + 1 ELSE @]
  /\ Goto(r, "sent")
  /\ UNCHANGED <<kind, conn, answer, tasks, pool, db, failed, up, mishaps>>

(* The count cannot be written: the middleware raises, the server answers  *)
(* 500, and the handler's task is cancelled before its background tasks.   *)
TasksSurvive(r) == UNCHANGED tasks    \* mutant: the handler's task goes on
Cancel(r) == tasks' = tasks \ {r}

CountRaises(r) ==
  /\ stage[r] = "answering"
  /\ IsCounted(r)
  /\ Mishap
  /\ counted' = [counted EXCEPT ![r] = @ + 1]
  /\ failed' = [failed EXCEPT ![r] = TRUE]
  /\ Prepare(r, "sent", "error")
  /\ Cancel(r)
  /\ CloseSession(r)
  /\ UNCHANGED <<kind, db, up>>

(* ServerErrorMiddleware, outside of the counters.                         *)
CountsErrors(r) ==                    \* mutant: the counter is outermost
  /\ stage[r] = "raised"
  /\ counted' = [counted EXCEPT ![r] = @ + 1]
  /\ Goto(r, "sent")
  /\ UNCHANGED <<kind, conn, answer, tasks, pool, db, failed, up, mishaps>>

SendError(r) ==
  /\ stage[r] = "raised"
  /\ Goto(r, "sent")
  /\ UNCHANGED <<kind, conn, answer, tasks, counted, pool, db, failed, up, mishaps>>

-----------------------------------------------------------------------------
StartRun(r) ==
  /\ stage[r] = "sent"
  /\ r \in tasks
  /\ tasks' = tasks \ {r}
  /\ Goto(r, "background")
  /\ UNCHANGED <<kind, answer, counted, db, failed, up, mishaps>>

RunFromPool(r) ==              \* mutant: the run takes a pool connection too
  out < Limit /\ StartRun(r) /\ UNCHANGED <<conn, pool>>

RunAfterSession(r) ==          \* mutant: the session is closed before the run
  StartRun(r) /\ CloseSession(r)

(* The seed run begins, with a connection of its own beside the pool.      *)
Run(r) == StartRun(r) /\ UNCHANGED <<conn, pool>>

(* All of the request is over, at last its session. *)
Finish(r) ==
  /\ stage[r] \in {"sent", "background"}
  /\ r \notin tasks
  /\ CloseSession(r)
  /\ Goto(r, "free")
  /\ kind' = [kind EXCEPT ![r] = "live"]
  /\ answer' = [answer EXCEPT ![r] = "none"]
  /\ counted' = [counted EXCEPT ![r] = 0]
  /\ failed' = [failed EXCEPT ![r] = FALSE]
  /\ UNCHANGED <<tasks, db, up, mishaps>>

-----------------------------------------------------------------------------
Outage ==
  /\ db
  /\ Mishap
  /\ db' = FALSE
  /\ noticed' = FALSE
  /\ conn' = [r \in Slots |-> IF conn[r] = "good" THEN "stale" ELSE conn[r]]
  /\ idle' = [i \in DOMAIN idle |-> "stale"]
  /\ UNCHANGED <<kind, stage, answer, tasks, counted, out, failed, up>>

Recover ==
  /\ ~db
  /\ db' = TRUE
  /\ UNCHANGED <<kind, stage, conn, answer, tasks, counted, pool, failed, up, mishaps>>

(* The worker is killed, and its requests with it. *)
Die ==
  /\ up
  /\ Mishap
  /\ up' = FALSE
  /\ kind' = [r \in Slots |-> "live"]
  /\ stage' = [r \in Slots |-> "free"]
  /\ conn' = [r \in Slots |-> "none"]
  /\ answer' = [r \in Slots |-> "none"]
  /\ tasks' = {}
  /\ counted' = [r \in Slots |-> 0]
  /\ failed' = [r \in Slots |-> FALSE]
  /\ idle' = <<>>
  /\ out' = 0
  /\ UNCHANGED <<db, noticed>>

(* Another one takes its place once its wait_for_db has found the database *)
(* (module Startup).                                                       *)
Respawn ==
  /\ ~up
  /\ db
  /\ up' = TRUE
  /\ idle' = <<"good">>
  /\ UNCHANGED <<kind, stage, conn, answer, tasks, counted, out, db, noticed, failed, mishaps>>

Step(r) ==
  \/ AnswerAtOnce(r) \/ NeedConnection(r) \/ CheckOut(r) \/ PoolTimeout(r)
  \/ Work(r) \/ WorkRaises(r) \/ Count(r) \/ CountRaises(r) \/ SendError(r)
  \/ Run(r) \/ Finish(r)

Environment == Outage \/ Recover \/ Die \/ Respawn

Next ==
  \/ \E r \in Slots : Step(r) \/ \E k \in Kinds : Arrive(r, k)
  \/ Environment

Spec == Init /\ [][Next]_vars

(* The event loop goes on with every request, and the server with every    *)
(* statement.                                                              *)
FairSpec == Spec /\ \A r \in Slots : WF_vars(Step(r))
-----------------------------------------------------------------------------
Holders == {r \in Slots : conn[r] # "none"}
Runs == {r \in Slots : stage[r] = "background"}

(* Well typed; a request has a connection exactly while it works, and at   *)
(* most until it is done.                                                  *)
TypeOK ==
  /\ kind \in [Slots -> AllKinds]
  /\ stage \in [Slots -> Stages]
  /\ conn \in [Slots -> Conns \cup {"none"}]
  /\ answer \in [Slots -> Answers]
  /\ tasks \subseteq Slots
  /\ counted \in [Slots -> Nat]
  /\ failed \in [Slots -> BOOLEAN]
  /\ idle \in Seq(Conns)
  /\ out \in Nat
  /\ {db, up, noticed} \subseteq BOOLEAN
  /\ \A r \in Slots : conn[r] # "none" =>
       stage[r] \in {"working", "answering", "sent", "background"}
  /\ mishaps \in 0..MaxMishaps

(* The pool gets back every connection it hands out, whichever way the     *)
(* request ends, and never has more of them open than configured.          *)
PoolAddsUp ==
  /\ out = Cardinality(Holders)
  /\ out + Len(idle) <= Limit
  /\ Len(idle) <= PoolSize

(* The seed runs of a worker, each with a connection that the pool does    *)
(* not know, are bounded by the pool nevertheless: a run's request keeps   *)
(* its own connection until the run is over.  The worker has never more    *)
(* than twice the pool's limit of connections open.                        *)
RunsWithinPool == out + Len(idle) + Cardinality(Runs) <= 2 * Limit

(* However requests end, the pool loses no connection and returns none     *)
(* twice, and all connections of the worker together stay bounded.         *)
ConnectionsBounded == PoolAddsUp /\ RunsWithinPool

(* A seed run goes on only for a request that was told so: a POST that was *)
(* answered by an error, of the counters too, has started none.            *)
RunMeansAccepted == \A r \in Slots : stage[r] = "background" => answer[r] = "accepted"

(* The counters see exactly the answers that are sent, each once, except   *)
(* those of EXCLUDED_PATHS and errors; an error is among them only if its  *)
(* counting itself failed.                                                 *)
CountedAsSent ==
  \A r \in Slots : Sent(r) =>
    counted[r] = IF kind[r] = "stats" THEN 0
                 ELSE IF answer[r] = "error" /\ ~failed[r] THEN 0 ELSE 1

(* One request that meets a dead connection is enough: those after it get  *)
(* new ones.                                                               *)
NoStaleAfterNotice == noticed => \A i \in DOMAIN idle : idle[i] = "good"

(* Every request ends, also when it waits for a pool full of seed runs or  *)
(* its worker is killed.                                                   *)
EveryRequestEnds == \A r \in Slots : (stage[r] # "free") ~> (stage[r] = "free")
=============================================================================
