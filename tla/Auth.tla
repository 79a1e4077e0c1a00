---------------------------------- MODULE Auth ----------------------------------
(***************************************************************************)
(* Logins and tokens over the deployments of module Startup.               *)
(*                                                                         *)
(* A login reads the demo user's row and, when the statement has answered, *)
(* verifies the password against it and issues a token: the user's id and  *)
(* an expiry, signed with JWT_SECRET_KEY.  A request with a token is let   *)
(* in if the signature is that of the running deployment, the token has    *)
(* not expired, and a user with the id exists.  Nothing is stored about    *)
(* tokens: they outlive workers, containers and passwords.                 *)
(***************************************************************************)
EXTENDS Startup

CONSTANTS NoLogin, NoToken

VARIABLES
  secret,    \* the deployment that JWT_SECRET_KEY was last rotated with
  id,        \* the user_id of the demo user's row, which the row is born with
  login,     \* the login under way: its worker, its password, the row it read
  token      \* the client's token, with the password and deployment it is from

avars == <<vars, secret, id, login, token>>

Serves(w) == phase[w] = "serving"

(* get_current_user, apart from the session it needs. *)
ExpiryOnly(t) == ~t.expired    \* mutant: the signature is not verified
Decodes(t) == t.secret = secret /\ ~t.expired

LetsIn(t) == Decodes(t) /\ user # 0 /\ t.sub = id

-----------------------------------------------------------------------------
AInit ==
  /\ Init
  /\ secret = 1
  /\ id = 0
  /\ login = NoLogin
  /\ token = NoToken

(* authenticate: SELECT ... WHERE email.  The password is that of one      *)
(* deployment or another.                                                  *)
LoginSelect(w, p) ==
  /\ login = NoLogin
  /\ Serves(w) /\ db
  /\ login' = [worker |-> w, password |-> p, stored |-> user, id |-> id]
  /\ UNCHANGED <<vars, secret, id, token>>

AnyUser(l) == l.stored # 0     \* mutant: the password is not verified
Verifies(l) == l.stored # 0 /\ l.stored = l.password

EmailAsSub(l) == 0             \* mutant: make_token_for takes the email
Subject(l) == l.id

(* The rest of it: no user, a wrong password, or a token.                  *)
LoginVerify ==
  /\ login # NoLogin
  /\ token' = IF Verifies(login)
              THEN [sub |-> Subject(login), secret |-> secret, expired |-> FALSE,
                    password |-> login.password, deploy |-> env]
              ELSE token
  /\ login' = NoLogin
  /\ UNCHANGED <<vars, secret, id>>

(* ACCESS_TOKEN_EXPIRE_MINUTES are over. *)
Expire ==
  /\ token # NoToken
  /\ token' = [token EXCEPT !.expired = TRUE]
  /\ UNCHANGED <<vars, secret, id, login>>

(* A step of Startup.  An inserted row has a new id; a deployment may come *)
(* with a new secret; a worker that ends takes its login with it.          *)
Lifecycle ==
  /\ Next
  /\ id' = IF user = 0 /\ user' # 0 THEN id + 1 ELSE id
  /\ secret' \in IF env' = env THEN {secret} ELSE {secret, env'}
  /\ login' = IF login # NoLogin /\ phase'[login.worker] # "serving" THEN NoLogin ELSE login
  /\ UNCHANGED token

ANext ==
  \/ Lifecycle
  \/ \E w \in Workers, p \in 1..MaxDeploys : LoginSelect(w, p)
  \/ LoginVerify
  \/ Expire

ASpec == AInit /\ [][ANext]_avars

LogsIn == \E w \in Workers : LoginSelect(w, env)

(* Startup's fairness, and a client with the right password that does not  *)
(* stop to log in.                                                         *)
AFairSpec ==
  /\ ASpec
  /\ WF_avars(Migrate /\ Lifecycle) /\ WF_avars(Recover /\ Lifecycle)
  /\ \A w \in Workers : WF_avars(WorkerStep(w) /\ Lifecycle)
  /\ SF_avars(LogsIn) /\ WF_avars(LoginVerify)
-----------------------------------------------------------------------------
(* Well typed, and a login is under way only in a worker that serves.      *)
ATypeOK ==
  /\ TypeOK
  /\ secret \in 1..MaxDeploys
  /\ id \in Nat
  /\ login = NoLogin \/
       /\ login \in [worker : Workers, password : 1..MaxDeploys,
                     stored : 0..MaxDeploys, id : Nat]
       /\ Serves(login.worker)
  /\ token = NoToken \/
       token \in [sub : Nat, secret : 1..MaxDeploys, expired : BOOLEAN,
                  password : 1..MaxDeploys, deploy : 1..MaxDeploys]

(* A token is issued only for the password of the deployment that issues   *)
(* it: the one it was rotated from is refused by every worker, as soon as  *)
(* any worker of the new deployment serves.                                *)
LoginIsCurrent == token # NoToken => token.password = token.deploy

(* If the secret was rotated with the password, whoever is let in has      *)
(* logged in with the new one, however long the tokens of old may live.    *)
RotationShutsOut ==
  token # NoToken /\ LetsIn(token) /\ secret = env => token.password = env

(* A token works until it expires or the secret is rotated: no restart,    *)
(* lost race or new password takes away the account it was issued for.     *)
TokenHolds ==
  token # NoToken /\ Decodes(token) => LetsIn(token)

(* A client that knows the password gets in, again and again.              *)
GetsIn == []<>(token # NoToken /\ token.deploy = env /\ LetsIn(token))
=============================================================================
