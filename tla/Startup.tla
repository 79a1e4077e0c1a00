------------------------------ MODULE Startup -------------------------------
(***************************************************************************)
(* How a deployment comes up.  The container first runs "alembic upgrade   *)
(* head" and then the uvicorn supervisor with its workers.  Every worker   *)
(* runs the lifespan of main.py before it serves: wait_for_db, then        *)
(* ensure_demo_user, which looks the demo user up and inserts it or sets   *)
(* its password.  A worker whose lifespan raises exits, and the supervisor *)
(* starts another one.                                                     *)
(*                                                                         *)
(* The workers of one deployment do this at the same time against one      *)
(* users table.  The database may go away at any moment; a connection that *)
(* was open then is dead, and its transaction is rolled back.              *)
(***************************************************************************)
EXTENDS Naturals

CONSTANTS
  Workers,      \* the worker slots of the supervisor
  Nobody,       \* no worker
  Retries,      \* the attempts of wait_for_db: 5
  MaxDeploys,   \* bound: deployments, each with a DEMO_USER_PASSWORD of its own
  MaxOutages,   \* bound: how often the database goes away
  MaxDeaths     \* bound: how often a worker or the container is killed

ASSUME StartupAssumption ==
  /\ Nobody \notin Workers
  /\ Retries \in Nat \ {0}
  /\ MaxDeploys \in Nat \ {0}
  /\ {MaxOutages, MaxDeaths} \subseteq Nat

VARIABLES
  db,        \* whether the database answers
  env,       \* the deployment that runs; stands for its DEMO_USER_PASSWORD
  migrated,  \* whether the users table exists
  user,      \* the deployment whose password users holds; 0: no such user
  container, \* "migrating" or "serving", the two commands of the image
  phase,     \* phase[w]: where worker w is in its lifespan
  attempt,   \* attempt[w]: the attempt of its wait_for_db
  found,     \* found[w]: its SELECT returned the user
  writer,    \* the worker whose INSERT or UPDATE of the user is not committed
  outages, deaths

vars == <<db, env, migrated, user, container, phase, attempt, found, writer,
          outages, deaths>>

Phases == {"off", "waiting", "select", "write", "commit", "serving", "failed"}

Goto(w, p) == phase' = [phase EXCEPT ![w] = p]

(* A COMMIT whose sender or receiver fails may or may not have happened.   *)
InDoubt == {user} \cup (IF writer = Nobody THEN {} ELSE {env})

-----------------------------------------------------------------------------
Init ==
  /\ db \in BOOLEAN
  /\ env = 1
  /\ migrated \in BOOLEAN
  /\ user = 0
  /\ container = "migrating"
  /\ phase = [w \in Workers |-> "off"]
  /\ attempt = [w \in Workers |-> 1]
  /\ found = [w \in Workers |-> FALSE]
  /\ writer = Nobody
  /\ outages = 0
  /\ deaths = 0

MigrateEachTime ==           \* mutant: revision 0002's DELETE at every startup
  /\ container = "migrating"
  /\ db
  /\ migrated' = TRUE
  /\ user' = 0
  /\ container' = "serving"
  /\ phase' = [w \in Workers |-> "waiting"]
  /\ attempt' = [w \in Workers |-> 1]
  /\ UNCHANGED <<db, env, found, writer, outages, deaths>>

(* All pending revisions in one transaction.  While the database is away   *)
(* alembic fails, the container exits, and docker starts it again.         *)
Migrate ==
  /\ container = "migrating"
  /\ db
  /\ migrated' = TRUE
  /\ container' = "serving"
  /\ phase' = [w \in Workers |-> "waiting"]
  /\ attempt' = [w \in Workers |-> 1]
  /\ UNCHANGED <<db, env, user, found, writer, outages, deaths>>

(* One attempt of wait_for_db; the last one lets the exception through.    *)
LastAttempt(w) == attempt[w] = Retries

Probe(w) ==
  /\ phase[w] = "waiting"
  /\ \/ db /\ Goto(w, "select") /\ UNCHANGED attempt
     \/ ~db /\ LastAttempt(w) /\ Goto(w, "failed") /\ UNCHANGED attempt
     \/ /\ ~db /\ ~LastAttempt(w)
        /\ attempt' = [attempt EXCEPT ![w] = @ + 1]
        /\ UNCHANGED phase
  /\ UNCHANGED <<db, env, migrated, user, container, found, writer, outages, deaths>>

(* SELECT ... WHERE email = DEMO_USER_EMAIL *)
OtherEmail(w) == FALSE                          \* mutant: never finds the user
Finds(w) == user # 0

Select(w) ==
  /\ phase[w] = "select"
  /\ found' = [found EXCEPT ![w] = Finds(w)]
  /\ Goto(w, "write")
  /\ UNCHANGED <<db, env, migrated, user, container, attempt, writer, outages, deaths>>

(* INSERT waits for an uncommitted INSERT of the same email, UPDATE for an *)
(* uncommitted UPDATE of the same row.  INSERT then raises when the email  *)
(* is there.                                                               *)
Write(w) ==
  /\ phase[w] = "write"
  /\ writer = Nobody
  /\ \/ ~found[w] /\ user # 0 /\ Goto(w, "failed") /\ UNCHANGED writer
     \/ (found[w] \/ user = 0) /\ Goto(w, "commit") /\ writer' = w
  /\ UNCHANGED <<db, env, migrated, user, container, attempt, found, outages, deaths>>

InsertOnly(w) == IF found[w] THEN user ELSE env  \* mutant: keeps an old password
Written(w) == env

(* The lifespan is over and the worker accepts requests.                   *)
Commit(w) ==
  /\ phase[w] = "commit"
  /\ user' = Written(w)
  /\ writer' = Nobody
  /\ Goto(w, "serving")
  /\ UNCHANGED <<db, env, migrated, container, attempt, found, outages, deaths>>

Respawn(w) ==
  /\ phase[w] = "failed"
  /\ Goto(w, "waiting")
  /\ attempt' = [attempt EXCEPT ![w] = 1]
  /\ UNCHANGED <<db, env, migrated, user, container, found, writer, outages, deaths>>

-----------------------------------------------------------------------------
(* Every worker past wait_for_db has a connection, which its next          *)
(* statement finds dead: the pool does not test connections.               *)
Outage ==
  /\ db
  /\ outages < MaxOutages
  /\ db' = FALSE
  /\ outages' = outages + 1
  /\ phase' = [w \in Workers |->
                 IF phase[w] \in {"select", "write", "commit"} THEN "failed" ELSE phase[w]]
  /\ user' \in InDoubt
  /\ writer' = Nobody
  /\ UNCHANGED <<env, migrated, container, attempt, found, deaths>>

Recover ==
  /\ ~db
  /\ db' = TRUE
  /\ UNCHANGED <<env, migrated, user, container, phase, attempt, found, writer,
                 outages, deaths>>

Die(w) ==
  /\ phase[w] \notin {"off", "failed"}
  /\ deaths < MaxDeaths
  /\ deaths' = deaths + 1
  /\ Goto(w, "failed")
  /\ IF writer = w THEN user' \in InDoubt /\ writer' = Nobody
                   ELSE UNCHANGED <<user, writer>>
  /\ UNCHANGED <<db, env, migrated, container, attempt, found, outages>>

(* All processes of the container end.                                     *)
Stop ==
  /\ container' = "migrating"
  /\ phase' = [w \in Workers |-> "off"]
  /\ user' \in InDoubt
  /\ writer' = Nobody
  /\ UNCHANGED <<db, migrated, attempt, found, outages>>

Restart == Stop /\ deaths < MaxDeaths /\ deaths' = deaths + 1 /\ UNCHANGED env

(* The old container is gone, and what it had sent to the database is      *)
(* settled, before the new one comes up.                                   *)
Redeploy == Stop /\ env < MaxDeploys /\ env' = env + 1 /\ UNCHANGED deaths

WorkerStep(w) == Probe(w) \/ Select(w) \/ Write(w) \/ Commit(w) \/ Respawn(w)

Next ==
  \/ Migrate
  \/ \E w \in Workers : WorkerStep(w) \/ Die(w)
  \/ Outage \/ Recover \/ Restart \/ Redeploy

Spec == Init /\ [][Next]_vars

(* docker and the supervisor restart what ends, the event loop resumes     *)
(* what sleeps, and the database comes back.                               *)
FairSpec ==
  /\ Spec
  /\ WF_vars(Migrate) /\ WF_vars(Recover)
  /\ \A w \in Workers : WF_vars(WorkerStep(w))
-----------------------------------------------------------------------------
(* Every variable stays in its domain, no attempt is made past the last,   *)
(* and only the worker that is committing holds the row.                   *)
TypeOK ==
  /\ db \in BOOLEAN
  /\ env \in 1..MaxDeploys
  /\ migrated \in BOOLEAN
  /\ user \in 0..MaxDeploys
  /\ container \in {"migrating", "serving"}
  /\ phase \in [Workers -> Phases]
  /\ attempt \in [Workers -> 1..Retries]
  /\ found \in [Workers -> BOOLEAN]
  /\ writer \in Workers \cup {Nobody}
  /\ \A w \in Workers : phase[w] = "commit" <=> writer = w
  /\ outages \in 0..MaxOutages /\ deaths \in 0..MaxDeaths

(* auth/seed.py:3-5: rotating DEMO_USER_PASSWORD takes effect on every     *)
(* startup.  A worker that serves does so over a users table with the      *)
(* password of the deployment it belongs to, whichever of its peers wrote  *)
(* last and whatever was in doubt when others died.                        *)
ServingMeansRotated ==
  \A w \in Workers : phase[w] = "serving" => user = env /\ migrated

(* The users table never goes back to the password of an earlier           *)
(* deployment, nor to having no demo user.                                 *)
NeverRolledBack == [][user' >= user]_vars

(* Every worker serves in the end, with the current password: lost races,  *)
(* outages longer than wait_for_db waits, and deaths only delay it.        *)
EveryWorkerServes ==
  <>[](\A w \in Workers : phase[w] = "serving" /\ user = env)

(* auth/seed.py:1 and migration 0002:14 call the seeding an idempotent     *)
(* upsert: with a database that stays up and nobody killed, no worker's    *)
(* startup fails.                                                          *)
NoStartupFails == \A w \in Workers : phase[w] # "failed"
=============================================================================
