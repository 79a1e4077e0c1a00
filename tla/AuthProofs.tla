------------------------------ MODULE AuthProofs ------------------------------
(***************************************************************************)
(* What the startup of a deployment guarantees, and what logins and tokens *)
(* promise on top of it, for any number of workers, attempts, deployments, *)
(* outages and deaths.                                                     *)
(***************************************************************************)
EXTENDS Auth, TLAPS

(* The inductive invariant.  A password from the future is never stored,   *)
(* only a container past its migration has workers, and a worker that      *)
(* serves finds the current password: the two last parts of the induction  *)
(* need the first, since a peer's COMMIT writes env.                       *)
IInv ==
  /\ TypeOK
  /\ user <= env
  /\ \A w \in Workers : phase[w] # "off" => container = "serving" /\ migrated
  /\ ServingMeansRotated

(* COMMIT or rollback, the password in doubt is the stored or the current. *)
LEMMA DoubtIsNow ==
  ASSUME IInv
  PROVE  \A u \in InDoubt : u \in 0..MaxDeploys /\ user <= u /\ u <= env
                            /\ (user = env => u = env)
  BY StartupAssumption DEF IInv, TypeOK, InDoubt

(* What the first deployment finds satisfies the invariant. *)
LEMMA InitHolds == Init => IInv
  BY StartupAssumption DEF Init, IInv, TypeOK, Phases, ServingMeansRotated

(* The invariant is inductive. *)
LEMMA Inductive == IInv /\ [Next]_vars => IInv'
<1> SUFFICES ASSUME IInv, [Next]_vars PROVE IInv'
  OBVIOUS
<1> USE StartupAssumption
<1>1. CASE Migrate
  BY <1>1 DEF IInv, TypeOK, Phases, ServingMeansRotated, Migrate
<1>2. ASSUME NEW w \in Workers, Probe(w) PROVE IInv'
  BY <1>2 DEF IInv, TypeOK, Phases, ServingMeansRotated, Probe, LastAttempt, Goto
<1>3. ASSUME NEW w \in Workers, Select(w) PROVE IInv'
  BY <1>3 DEF IInv, TypeOK, Phases, ServingMeansRotated, Select, Finds, Goto
<1>4. ASSUME NEW w \in Workers, Write(w) PROVE IInv'
  BY <1>4 DEF IInv, TypeOK, Phases, ServingMeansRotated, Write, Goto
<1>5. ASSUME NEW w \in Workers, Commit(w) PROVE IInv'
  BY <1>5 DEF IInv, TypeOK, Phases, ServingMeansRotated, Commit, Written, Goto
<1>6. ASSUME NEW w \in Workers, Respawn(w) PROVE IInv'
  BY <1>6 DEF IInv, TypeOK, Phases, ServingMeansRotated, Respawn, Goto
<1>7. ASSUME NEW w \in Workers, Die(w) PROVE IInv'
  BY <1>7, DoubtIsNow DEF IInv, TypeOK, Phases, ServingMeansRotated, Die, Goto
<1>8. CASE Outage
  <2>1. user' \in 0..MaxDeploys /\ user' <= env /\ (user = env => user' = env)
    BY <1>8, DoubtIsNow DEF Outage
  <2>2. phase' \in [Workers -> Phases] /\ \A w \in Workers : phase'[w] # "commit"
    BY <1>8 DEF IInv, TypeOK, Phases, Outage
  <2>3. outages' \in 0..MaxOutages
    BY <1>8 DEF IInv, TypeOK, Outage
  <2>4. TypeOK'
    BY <1>8, <2>1, <2>2, <2>3 DEF IInv, TypeOK, Outage
  <2>5. \A w \in Workers :
          /\ phase'[w] # "off" => phase[w] # "off"
          /\ phase'[w] = "serving" => phase[w] = "serving"
    BY <1>8 DEF IInv, TypeOK, Phases, Outage
  <2> QED
    BY <1>8, <2>1, <2>4, <2>5 DEF IInv, ServingMeansRotated, Outage
<1>9. CASE Recover
  BY <1>9 DEF IInv, TypeOK, ServingMeansRotated, Recover
<1>10. CASE Restart
  BY <1>10, DoubtIsNow DEF IInv, TypeOK, Phases, ServingMeansRotated, Restart, Stop
<1>11. CASE Redeploy
  BY <1>11, DoubtIsNow DEF IInv, TypeOK, Phases, ServingMeansRotated, Redeploy, Stop
<1>12. CASE UNCHANGED vars
  BY <1>12 DEF IInv, TypeOK, ServingMeansRotated, vars
<1> QED
  BY <1>1, <1>2, <1>3, <1>4, <1>5, <1>6, <1>7, <1>8, <1>9, <1>10, <1>11, <1>12
  DEF Next, WorkerStep

(* So it holds of every behaviour. *)
LEMMA Invariance == Spec => []IInv
  BY InitHolds, Inductive, PTL DEF Spec

(* Every variable stays in its domain, and only the worker that commits    *)
(* holds the demo user's row.                                              *)
THEOREM StartupTyping == Spec => []TypeOK
  BY Invariance, PTL DEF IInv

(* auth/seed.py's docstring, for any number of workers: who serves, serves *)
(* with the rotated password.                                              *)
THEOREM RotationTakesEffect == Spec => []ServingMeansRotated
  BY Invariance, PTL DEF IInv

(* No step stores an older password than the one there. *)
LEMMA NeverBack ==
  ASSUME IInv, Next
  PROVE  user' >= user
<1> USE DEF IInv, TypeOK
<1>1. ASSUME NEW w \in Workers, Commit(w) PROVE user' >= user
  BY <1>1 DEF Commit, Written
<1>2. CASE user' = user
  BY <1>2
<1>3. CASE user' \in InDoubt
  BY <1>3, DoubtIsNow
<1> QED
  BY <1>1, <1>2, <1>3
  DEF Next, WorkerStep, Migrate, Probe, Select, Write, Respawn, Die, Outage,
      Recover, Restart, Redeploy, Stop

(* The users table never returns to an earlier password, for any number of *)
(* workers and deployments.                                                *)
THEOREM RotationIsFinal == Spec => NeverRolledBack
<1>1. IInv /\ [Next]_vars => [user' >= user]_vars
  BY NeverBack DEF vars
<1> QED
  BY <1>1, Invariance, PTL DEF Spec, NeverRolledBack

-----------------------------------------------------------------------------
(* Logins and tokens.  A worker that serves finds its own deployment's     *)
(* password in the table, and the table never loses its row.               *)

(* A login under way has read what is there: its worker serves, so nobody  *)
(* changes the row before it ends.                                         *)
LoginRead ==
  login # NoLogin => login.stored = env /\ login.id = id

(* A token is from a deployment of the past, whose secret was no newer     *)
(* than itself, and names the one row there ever was.                      *)
TokenIssued ==
  token # NoToken =>
    /\ token.password = token.deploy
    /\ token.secret <= token.deploy
    /\ token.deploy <= env
    /\ token.sub = id
    /\ user # 0

AInv == IInv /\ ATypeOK /\ secret <= env /\ LoginRead /\ TokenIssued

LEMMA AInitHolds == AInit => AInv
  BY InitHolds, StartupAssumption
  DEF AInit, AInv, ATypeOK, LoginRead, TokenIssued, IInv, Init

(* A deployment ends with all its workers. *)
LEMMA NewDeployment ==
  ASSUME IInv, Next
  PROVE  /\ env' >= env
         /\ env' # env => \A w \in Workers : phase'[w] # "serving"
  BY StartupAssumption
  DEF IInv, TypeOK, Next, WorkerStep, Migrate, Probe, Select, Write, Commit,
      Respawn, Die, Outage, Recover, Restart, Redeploy, Stop, Goto

(* The row and its id, and the secret, across a step of Startup.           *)
LEMMA RowStays ==
  ASSUME AInv, Lifecycle
  PROVE  /\ IInv'
         /\ id' \in Nat
         /\ user # 0 => user' # 0 /\ id' = id
         /\ secret' \in 1..MaxDeploys
         /\ secret' <= env'
<1>1. IInv' /\ user' >= user
  BY Inductive, NeverBack DEF AInv, Lifecycle
<1>2. env' >= env
  BY NewDeployment DEF AInv, Lifecycle
<1> QED
  BY <1>1, <1>2, StartupAssumption DEF AInv, IInv, TypeOK, ATypeOK, Lifecycle

LEMMA LifecycleKeeps ==
  ASSUME AInv, Lifecycle
  PROVE  AInv'
<1>1. env' >= env /\ (env' # env => \A w \in Workers : phase'[w] # "serving")
  BY NewDeployment DEF AInv, Lifecycle
<1>2. CASE login' = NoLogin
  <2>1. ATypeOK'
    BY <1>2, RowStays DEF AInv, ATypeOK, IInv, Lifecycle
  <2>2. TokenIssued'
    BY <1>1, RowStays, StartupAssumption
    DEF AInv, ATypeOK, IInv, TypeOK, TokenIssued, Lifecycle
  <2> QED
    BY <1>2, <2>1, <2>2, RowStays DEF AInv, LoginRead
<1>3. CASE login' # NoLogin
  <2>1. login' = login /\ phase'[login.worker] = "serving"
    BY <1>3 DEF Lifecycle
  <2>2. login.worker \in Workers /\ Serves(login.worker)
    BY <1>3, <2>1 DEF AInv, ATypeOK
  <2>3. env' = env
    BY <1>1, <2>1, <2>2
  <2>4. user = env /\ user # 0
    BY <2>2, StartupAssumption DEF AInv, IInv, TypeOK, ServingMeansRotated, Serves
  <2>5. ATypeOK'
    BY <2>1, RowStays DEF AInv, ATypeOK, IInv, Lifecycle, Serves
  <2>6. LoginRead'
    BY <2>1, <2>3, <2>4, RowStays DEF AInv, LoginRead
  <2>7. TokenIssued'
    BY <2>3, <2>4, RowStays DEF AInv, TokenIssued, Lifecycle
  <2> QED
    BY <2>5, <2>6, <2>7, RowStays DEF AInv
<1> QED
  BY <1>2, <1>3

LEMMA SelectKeeps ==
  ASSUME AInv, NEW w \in Workers, NEW p \in 1..MaxDeploys, LoginSelect(w, p)
  PROVE  AInv'
<1>1. IInv' /\ TypeOK'
  BY DEF AInv, LoginSelect, IInv, TypeOK, ServingMeansRotated, vars
<1>2. login' = [worker |-> w, password |-> p, stored |-> user, id |-> id]
  BY DEF LoginSelect
<1>3. user = env
  BY DEF AInv, IInv, ServingMeansRotated, LoginSelect, Serves
<1>4. ATypeOK'
  BY <1>1, <1>2 DEF AInv, ATypeOK, TypeOK, LoginSelect, Serves, vars
<1>5. LoginRead' /\ TokenIssued'
  BY <1>2, <1>3 DEF AInv, LoginRead, TokenIssued, LoginSelect, vars
<1> QED
  BY <1>1, <1>4, <1>5 DEF AInv, LoginSelect, vars

LEMMA VerifyKeeps ==
  ASSUME AInv, LoginVerify
  PROVE  AInv'
<1>1. IInv' /\ TypeOK'
  BY DEF AInv, LoginVerify, IInv, TypeOK, ServingMeansRotated, vars
<1>2. login.stored = env /\ login.id = id /\ user = env /\ env # 0
  BY StartupAssumption
  DEF AInv, LoginVerify, LoginRead, ATypeOK, Serves, IInv, TypeOK, ServingMeansRotated
<1>3. CASE token' = token
  BY <1>1, <1>3 DEF AInv, ATypeOK, LoginRead, TokenIssued, LoginVerify, vars
<1>4. CASE /\ login.password = env
           /\ token' = [sub |-> id, secret |-> secret, expired |-> FALSE,
                        password |-> login.password, deploy |-> env]
  <2>1. ATypeOK'
    BY <1>1, <1>2, <1>4 DEF AInv, ATypeOK, IInv, TypeOK, LoginVerify, vars
  <2>2. TokenIssued'
    BY <1>2, <1>4 DEF AInv, IInv, TypeOK, TokenIssued, LoginVerify, vars
  <2> QED
    BY <1>1, <2>1, <2>2 DEF AInv, LoginRead, LoginVerify, vars
<1> QED
  BY <1>2, <1>3, <1>4 DEF LoginVerify, Verifies, Subject

LEMMA ExpireKeeps ==
  ASSUME AInv, Expire
  PROVE  AInv'
<1>1. IInv' /\ TypeOK'
  BY DEF AInv, Expire, IInv, TypeOK, ServingMeansRotated, vars
<1>2. /\ token' \in [sub : Nat, secret : 1..MaxDeploys, expired : BOOLEAN,
                     password : 1..MaxDeploys, deploy : 1..MaxDeploys]
      /\ token'.sub = token.sub /\ token'.secret = token.secret
      /\ token'.password = token.password /\ token'.deploy = token.deploy
  BY DEF AInv, ATypeOK, Expire
<1> QED
  BY <1>1, <1>2 DEF AInv, ATypeOK, LoginRead, TokenIssued, Expire, Serves, vars

(* The invariant is inductive. *)
LEMMA AInductive == AInv /\ [ANext]_avars => AInv'
<1> SUFFICES ASSUME AInv, [ANext]_avars PROVE AInv'
  OBVIOUS
<1>1. CASE UNCHANGED avars
  BY <1>1
  DEF AInv, ATypeOK, LoginRead, TokenIssued, Serves, IInv, TypeOK,
      ServingMeansRotated, avars, vars
<1> QED
  BY <1>1, LifecycleKeeps, SelectKeeps, VerifyKeeps, ExpireKeeps DEF ANext

LEMMA AInvariance == ASpec => []AInv
  BY AInitHolds, AInductive, PTL DEF ASpec

(* Logins and tokens stay in their domains, and a login is under way only  *)
(* in a worker that serves.                                                *)
THEOREM AuthTyping == ASpec => []ATypeOK
  BY AInvariance, PTL DEF AInv

(* auth/seed.py's docstring from end to end: no worker of any deployment   *)
(* gives a token for another password than its own.                        *)
THEOREM LoginsAreCurrent == ASpec => []LoginIsCurrent
<1>1. AInv => LoginIsCurrent
  BY DEF AInv, TokenIssued, LoginIsCurrent
<1> QED
  BY <1>1, AInvariance, PTL

(* Rotating both secret and password shuts out everybody who has not       *)
(* logged in since.                                                        *)
THEOREM RotationIsTotal == ASpec => []RotationShutsOut
<1>1. AInv => RotationShutsOut
  BY StartupAssumption
  DEF AInv, ATypeOK, IInv, TypeOK, TokenIssued, RotationShutsOut, LetsIn, Decodes
<1> QED
  BY <1>1, AInvariance, PTL

(* A token that decodes always finds its account.                          *)
THEOREM TokensHold == ASpec => []TokenHolds
<1>1. AInv => TokenHolds
  BY DEF AInv, TokenIssued, TokenHolds, LetsIn
<1> QED
  BY <1>1, AInvariance, PTL

(* Logins and tokens leave the startup alone, so that what is proved of it *)
(* holds in every behaviour in which users log in as well.                 *)
THEOREM AuthKeepsStartup == ASpec => Spec
<1>1. AInit => Init
  BY DEF AInit
<1>2. [ANext]_avars => [Next]_vars
  BY DEF ANext, avars, Lifecycle, LoginSelect, LoginVerify, Expire
<1> QED
  BY <1>1, <1>2, PTL DEF ASpec, Spec
=============================================================================
