----------------------------- MODULE StressProofs -----------------------------
(***************************************************************************)
(* What the stress harness promises, for any plan of stages and beside any *)
(* other clients: its reports are complete, and its load is an instance of *)
(* module Requests, so that what holds there holds under it.               *)
(***************************************************************************)
EXTENDS Stress, RequestsProofs

(* Each of a stage's tasks waits for the semaphore, awaits an answer, or   *)
(* has been booked.                                                        *)
Tasks(p, n, l, e) == p + n + l + e

TasksAddUp ==
  Running => Tasks(pending, Cardinality(Awaited), latencies, errors) = Plan[at].total

SIInv == STypeOK /\ TasksAddUp

USE RequestsAssumption, StressAssumption

-----------------------------------------------------------------------------
(* Every step of the harness and of its surroundings is one of Requests,   *)
(* or leaves the worker alone.                                             *)
LEMMA StepIsStep == [SNext]_svars => [Next]_vars
<1> SUFFICES ASSUME [SNext]_svars PROVE [Next]_vars
  OBVIOUS
<1>1. ASSUME NEW r \in Slots, Send(r) PROVE Next
  <2>1. "page" \in Kinds
    OBVIOUS
  <2> QED
    BY <1>1, <2>1 DEF Send, Next
<1>2. ASSUME NEW r \in Slots, Serve(r) PROVE Next
  BY <1>2 DEF Serve, Next
<1>3. ASSUME NEW r \in Slots, OtherClient(r) PROVE Next
  <2>1. Others \subseteq Kinds
    OBVIOUS
  <2> QED
    BY <1>3, <2>1 DEF OtherClient, Next
<1>4. ASSUME Elsewhere \/ DieUnderLoad PROVE Next
  BY <1>4 DEF Elsewhere, DieUnderLoad, Next, Environment
<1>5. ASSUME NEW r \in Slots, ClientTimeout(r) PROVE UNCHANGED vars
  BY <1>5 DEF ClientTimeout
<1>6. ASSUME SendFails \/ NextStage PROVE UNCHANGED vars
  BY <1>6 DEF SendFails, NextStage
<1>7. ASSUME UNCHANGED svars PROVE UNCHANGED vars
  BY <1>7 DEF svars
<1> QED
  BY <1>1, <1>2, <1>3, <1>4, <1>5, <1>6, <1>7 DEF SNext

(* A run of the harness is a run of Requests. *)
THEOREM StressIsRequests == SSpec => Spec
<1>1. SInit => Init
  BY DEF SInit
<1> QED
  BY <1>1, StepIsStep, PTL DEF SSpec, Spec

-----------------------------------------------------------------------------
LEMMA FiniteAwaited == IsFiniteSet(Awaited) /\ Cardinality(Awaited) \in Nat
<1>1. Awaited \subseteq Slots
  BY DEF Awaited
<1> QED
  BY <1>1, FS_Subset, FS_CardinalityType

LEMMA StagesAreNumbers ==
  ASSUME NEW i \in DOMAIN Plan
  PROVE  Plan[i].parallel \in Nat /\ Plan[i].total \in Nat
<1> DEFINE Stage == [parallel : Nat \ {0}, total : Nat \ {0}]
<1>1. Plan \in Seq(Stage)
  OBVIOUS
<1> HIDE DEF Stage
<1>2. Plan[i] \in Stage
  BY <1>1
<1> QED
  BY <1>2 DEF Stage

LEMMA PlanHasStages == Len(Plan) \in Nat \ {0} /\ DOMAIN Plan = 1..Len(Plan)
<1>1. Len(Plan) \in Nat /\ DOMAIN Plan = 1..Len(Plan)
  OBVIOUS
<1>2. Len(Plan) # 0
  OBVIOUS
<1> QED
  BY <1>1, <1>2

LEMMA Numbers ==
  ASSUME STypeOK
  PROVE  /\ pending \in Nat /\ permits \in Nat /\ latencies \in Nat /\ errors \in Nat
         /\ Cardinality(Awaited) \in Nat
  BY FiniteAwaited DEF STypeOK

(* Within a stage, permits and tasks add up if what one loses another gets. *)
LEMMA SameStage ==
  ASSUME SIInv, at' = at,
         permits' + Cardinality(Awaited') = permits + Cardinality(Awaited),
         Tasks(pending', Cardinality(Awaited'), latencies', errors') =
           Tasks(pending, Cardinality(Awaited), latencies, errors)
  PROVE  /\ (Running => permits + Cardinality(Awaited) = Plan[at].parallel)'
         /\ TasksAddUp'
  BY DEF SIInv, STypeOK, TasksAddUp, Running

(* One of n is booked; one of p sent, or refused; all of n are booked.     *)
LEMMA Booked ==
  ASSUME NEW p \in Nat, NEW n \in Nat, NEW l \in Nat, NEW e \in Nat
  PROVE  /\ Tasks(p, n - 1, l + 1, e) = Tasks(p, n, l, e)
         /\ Tasks(p, n - 1, l, e + 1) = Tasks(p, n, l, e)
         /\ Tasks(p - 1, n + 1, l, e) = Tasks(p, n, l, e)
         /\ Tasks(p - 1, n, l, e + 1) = Tasks(p, n, l, e)
         /\ Tasks(p, 0, l, e + n) = Tasks(p, n, l, e)
  BY DEF Tasks

LEMMA NobodyAwaited ==
  ASSUME Awaited' = {}
  PROVE  Cardinality(Awaited') = 0
  BY FS_EmptySet

(* A step of the worker goes on with one request; one that is not answered *)
(* yet is not over after it.                                               *)
LEMMA OneGoesOn ==
  ASSUME TypeOK, NEW r \in Slots, Step(r)
  PROVE  /\ \A q \in Slots \ {r} : stage'[q] = stage[q] /\ kind'[q] = kind[q]
         /\ stage[r] # "free" /\ ~Sent(r) =>
              stage'[r] \notin {"free", "background"} /\ kind'[r] = kind[r]
<1> USE DEF TypeOK, Goto, Prepare, Raise, TakeFromPool, Sent
<1>1. CASE AnswerAtOnce(r) \/ NeedConnection(r) \/ PoolTimeout(r)
  BY <1>1 DEF AnswerAtOnce, NeedConnection, PoolTimeout
<1>2. CASE CheckOut(r)
  BY <1>2 DEF CheckOut
<1>3. CASE Work(r) \/ WorkRaises(r)
  BY <1>3 DEF Work, WorkRaises
<1>4. CASE Count(r) \/ CountRaises(r) \/ SendError(r)
  BY <1>4 DEF Count, CountRaises, SendError
<1>5. CASE Run(r) \/ Finish(r)
  BY <1>5 DEF Run, StartRun, Finish
<1> QED
  BY <1>1, <1>2, <1>3, <1>4, <1>5 DEF Step

-----------------------------------------------------------------------------
LEMMA SInitHolds == SInit => SIInv
<1> SUFFICES ASSUME SInit PROVE SIInv
  OBVIOUS
<1>1. Awaited = {} /\ Cardinality(Awaited) = 0
  BY FS_EmptySet DEF SInit, Awaited
<1>2. TypeOK
  BY InitHolds DEF SInit, IInv
<1>3. 1 \in DOMAIN Plan /\ 1 \in 1..Len(Plan) + 1
  BY PlanHasStages
<1>4. {Plan[1].parallel, Plan[1].total} \subseteq Nat
  BY <1>3, StagesAreNumbers
<1> QED
  BY <1>1, <1>2, <1>3, <1>4 DEF SInit, SIInv, STypeOK, TasksAddUp, Tasks

LEMMA SendKeeps ==
  ASSUME SIInv, TypeOK', NEW r \in Slots, Send(r)
  PROVE  SIInv'
<1>0. pending \in Nat /\ permits \in Nat /\ latencies \in Nat /\ errors \in Nat
      /\ Cardinality(Awaited) \in Nat
  BY Numbers DEF SIInv
<1>1. Awaited' = Awaited \cup {r} /\ r \notin Awaited
  BY DEF Send, Arrive, Awaited, SIInv, STypeOK, Sent
<1>2. Cardinality(Awaited') = Cardinality(Awaited) + 1
  BY <1>1, FiniteAwaited, FS_AddElement
<1>3. ASSUME NEW q \in Awaited' PROVE (kind[q] = "page" /\ stage[q] # "free" /\ ~Sent(q))'
  <2>1. CASE q = r
    BY <2>1 DEF Send, Arrive, Goto, Sent, SIInv, STypeOK, TypeOK
  <2>2. CASE q # r
    <3>1. q \in Awaited /\ kind'[q] = kind[q] /\ stage'[q] = stage[q]
      BY <1>1, <2>2 DEF Send, Arrive, Goto, SIInv, STypeOK, TypeOK, Awaited
    <3> QED
      BY <3>1 DEF SIInv, STypeOK, Sent
  <2> QED
    BY <2>1, <2>2
<1>4. pending' \in Nat /\ permits' \in Nat /\ latencies' \in Nat /\ errors' \in Nat
  BY <1>0 DEF Send
<1>5. owner' \in [Slots -> {"harness", "abandoned", "other"}]
  BY DEF Send, SIInv, STypeOK
<1>6. at' = at /\ pending' = pending - 1 /\ permits' = permits - 1
      /\ latencies' = latencies /\ errors' = errors
  BY DEF Send
<1>7. (Running => permits + Cardinality(Awaited) = Plan[at].parallel)' /\ TasksAddUp'
  <2>1. permits' + Cardinality(Awaited') = permits + Cardinality(Awaited)
    BY <1>0, <1>2, <1>6
  <2>2. Tasks(pending', Cardinality(Awaited'), latencies', errors') =
          Tasks(pending - 1, Cardinality(Awaited) + 1, latencies, errors)
    BY <1>2, <1>6
  <2>3. Tasks(pending', Cardinality(Awaited'), latencies', errors') =
          Tasks(pending, Cardinality(Awaited), latencies, errors)
    BY <1>0, <2>2, Booked
  <2> QED
    BY <1>6, <2>1, <2>3, SameStage
<1> QED
  BY <1>3, <1>4, <1>5, <1>6, <1>7 DEF SIInv, STypeOK

LEMMA ServeKeeps ==
  ASSUME SIInv, TypeOK', NEW r \in Slots, Serve(r)
  PROVE  SIInv'
<1> USE DEF SIInv
<1>0. pending \in Nat /\ permits \in Nat /\ latencies \in Nat /\ errors \in Nat
      /\ Cardinality(Awaited) \in Nat
  BY Numbers DEF SIInv
<1>1. \A q \in Slots \ {r} : stage'[q] = stage[q] /\ kind'[q] = kind[q]
  BY OneGoesOn DEF Serve, STypeOK
<1>2. r \in Awaited => stage'[r] \notin {"free", "background"} /\ kind'[r] = "page"
  BY OneGoesOn DEF Serve, STypeOK
<1>3. at' = at /\ pending' = pending
  BY DEF Serve
<1>4. CASE owner[r] = "harness" /\ stage'[r] = "sent"
  <2>1. Book(r) /\ permits' = permits + 1 /\ owner' = [owner EXCEPT ![r] = "abandoned"]
    BY <1>4 DEF Serve, Released
  <2>2. Awaited' = Awaited \ {r} /\ r \in Awaited
    BY <1>4, <2>1 DEF Awaited, STypeOK
  <2>3. Cardinality(Awaited') = Cardinality(Awaited) - 1
    BY <2>2, FiniteAwaited, FS_RemoveElement
  <2>4. \/ latencies' = latencies + 1 /\ errors' = errors
        \/ latencies' = latencies /\ errors' = errors + 1
    BY <2>1 DEF Book
  <2>5. \A q \in Awaited' : (kind[q] = "page" /\ stage[q] # "free" /\ ~Sent(q))'
    BY <1>1, <2>2 DEF STypeOK, Sent, Awaited
  <2>6. owner' \in [Slots -> {"harness", "abandoned", "other"}]
    BY <2>1 DEF STypeOK
  <2>7. pending' \in Nat /\ permits' \in Nat /\ latencies' \in Nat /\ errors' \in Nat
    BY <1>0, <1>3, <2>1, <2>4
  <2>8. permits' + Cardinality(Awaited') = permits + Cardinality(Awaited)
        /\ Tasks(pending', Cardinality(Awaited'), latencies', errors') =
             Tasks(pending, Cardinality(Awaited), latencies, errors)
    <3>1. permits' + Cardinality(Awaited') = permits + Cardinality(Awaited)
      BY <1>0, <2>1, <2>3
    <3>2. \/ Tasks(pending', Cardinality(Awaited'), latencies', errors') =
               Tasks(pending, Cardinality(Awaited) - 1, latencies + 1, errors)
          \/ Tasks(pending', Cardinality(Awaited'), latencies', errors') =
               Tasks(pending, Cardinality(Awaited) - 1, latencies, errors + 1)
      BY <1>3, <2>3, <2>4
    <3>3. Tasks(pending, Cardinality(Awaited) - 1, latencies + 1, errors) =
            Tasks(pending, Cardinality(Awaited), latencies, errors)
      BY <1>0, Booked
    <3>4. Tasks(pending, Cardinality(Awaited) - 1, latencies, errors + 1) =
            Tasks(pending, Cardinality(Awaited), latencies, errors)
      BY <1>0, Booked
    <3> QED
      BY <3>1, <3>2, <3>3, <3>4
  <2>9. (Running => permits + Cardinality(Awaited) = Plan[at].parallel)' /\ TasksAddUp'
    BY <1>3, <2>8, SameStage
  <2> QED
    BY <1>3, <2>5, <2>6, <2>7, <2>9 DEF STypeOK
<1>5. CASE ~(owner[r] = "harness" /\ stage'[r] = "sent")
  <2>1. /\ UNCHANGED <<permits, latencies, errors>>
        /\ owner' = [owner EXCEPT ![r] = IF stage'[r] = "free" THEN "other" ELSE @]
    BY <1>5 DEF Serve
  <2>2. Awaited' = Awaited
    BY <1>2, <2>1 DEF Awaited, STypeOK
  <2>3. \A q \in Awaited' : (kind[q] = "page" /\ stage[q] # "free" /\ ~Sent(q))'
    BY <1>1, <1>2, <1>5, <2>2 DEF STypeOK, Sent, Awaited
  <2>4. owner' \in [Slots -> {"harness", "abandoned", "other"}]
    BY <2>1 DEF STypeOK
  <2>5. (Running => permits + Cardinality(Awaited) = Plan[at].parallel)' /\ TasksAddUp'
    BY <1>3, <2>1, <2>2 DEF STypeOK, TasksAddUp, Running
  <2> QED
    BY <1>3, <2>1, <2>3, <2>4, <2>5 DEF STypeOK
<1> QED
  BY <1>4, <1>5

LEMMA ClientTimeoutKeeps ==
  ASSUME SIInv, TypeOK', NEW r \in Slots, ClientTimeout(r)
  PROVE  SIInv'
<1>0. pending \in Nat /\ permits \in Nat /\ latencies \in Nat /\ errors \in Nat
      /\ Cardinality(Awaited) \in Nat
  BY Numbers DEF SIInv
<1>1. Awaited' = Awaited \ {r} /\ r \in Awaited
  BY DEF ClientTimeout, Awaited, SIInv, STypeOK
<1>2. Cardinality(Awaited') = Cardinality(Awaited) - 1
  BY <1>1, FiniteAwaited, FS_RemoveElement
<1>3. at' = at /\ pending' = pending /\ permits' = permits + 1
      /\ latencies' = latencies /\ errors' = errors + 1
      /\ kind' = kind /\ stage' = stage
  BY DEF ClientTimeout, vars
<1>4. owner' \in [Slots -> {"harness", "abandoned", "other"}]
  BY DEF ClientTimeout, SIInv, STypeOK
<1>5. (Running => permits + Cardinality(Awaited) = Plan[at].parallel)' /\ TasksAddUp'
  <2>1. permits' + Cardinality(Awaited') = permits + Cardinality(Awaited)
    BY <1>0, <1>2, <1>3
  <2>2. Tasks(pending', Cardinality(Awaited'), latencies', errors') =
          Tasks(pending, Cardinality(Awaited) - 1, latencies, errors + 1)
    BY <1>2, <1>3
  <2>3. Tasks(pending', Cardinality(Awaited'), latencies', errors') =
          Tasks(pending, Cardinality(Awaited), latencies, errors)
    BY <1>0, <2>2, Booked
  <2> QED
    BY <1>3, <2>1, <2>3, SameStage
<1>6. \A q \in Awaited' : (kind[q] = "page" /\ stage[q] # "free" /\ ~Sent(q))'
  BY <1>1, <1>3 DEF SIInv, STypeOK, Sent
<1> QED
  BY <1>3, <1>4, <1>5, <1>6 DEF SIInv, STypeOK

LEMMA SendFailsKeeps ==
  ASSUME SIInv, TypeOK', SendFails
  PROVE  SIInv'
<1>0. pending \in Nat /\ permits \in Nat /\ latencies \in Nat /\ errors \in Nat
      /\ Cardinality(Awaited) \in Nat
  BY Numbers DEF SIInv
<1>1. Awaited' = Awaited /\ owner' = owner
  BY DEF SendFails, Awaited
<1>2. at' = at /\ pending' = pending - 1 /\ permits' = permits
      /\ latencies' = latencies /\ errors' = errors + 1
      /\ kind' = kind /\ stage' = stage
  BY DEF SendFails, vars
<1>3. pending' \in Nat /\ permits' \in Nat /\ latencies' \in Nat /\ errors' \in Nat
  BY <1>0, <1>2 DEF SendFails
<1>4. (Running => permits + Cardinality(Awaited) = Plan[at].parallel)' /\ TasksAddUp'
  <2>1. permits' + Cardinality(Awaited') = permits + Cardinality(Awaited)
    BY <1>1, <1>2
  <2>2. Tasks(pending', Cardinality(Awaited'), latencies', errors') =
          Tasks(pending, Cardinality(Awaited), latencies, errors)
    BY <1>0, <1>1, <1>2, Booked
  <2> QED
    BY <1>2, <2>1, <2>2, SameStage
<1>5. \A q \in Awaited' : (kind[q] = "page" /\ stage[q] # "free" /\ ~Sent(q))'
  BY <1>1, <1>2 DEF SIInv, STypeOK, Sent
<1> QED
  BY <1>1, <1>2, <1>3, <1>4, <1>5 DEF SIInv, STypeOK

LEMMA NextStageKeeps ==
  ASSUME SIInv, TypeOK', NextStage
  PROVE  SIInv'
<1>1. Awaited' = {} /\ owner' = owner
  BY DEF NextStage, Gathered, Awaited
<1>2. at' \in 1..Len(Plan) + 1
  <2>1. at \in 1..Len(Plan) /\ at' \in {Len(Plan) + 1, at + 1}
    BY PlanHasStages DEF NextStage, Gathered, Running, Begin
  <2> QED
    BY <2>1, PlanHasStages
<1>3. at' \in DOMAIN Plan => {Plan[at'].parallel, Plan[at'].total} \subseteq Nat
  BY StagesAreNumbers
<1>4. /\ pending' = IF at' \in DOMAIN Plan THEN Plan[at'].total ELSE 0
      /\ permits' = IF at' \in DOMAIN Plan THEN Plan[at'].parallel ELSE 0
      /\ latencies' = 0 /\ errors' = 0
  BY DEF NextStage, Begin
<1>5. (Running => permits + Cardinality(Awaited) = Plan[at].parallel)' /\ TasksAddUp'
  BY <1>1, <1>3, <1>4, NobodyAwaited DEF TasksAddUp, Tasks, Running
<1> QED
  BY <1>1, <1>2, <1>3, <1>4, <1>5 DEF SIInv, STypeOK

LEMMA OthersKeep ==
  ASSUME SIInv, TypeOK', UNCHANGED harness,
         \A q \in Slots : stage[q] # "free" => stage'[q] = stage[q] /\ kind'[q] = kind[q]
  PROVE  SIInv'
<1>1. Awaited' = Awaited
  BY DEF harness, Awaited
<1>2. \A q \in Awaited' : (kind[q] = "page" /\ stage[q] # "free" /\ ~Sent(q))'
  BY <1>1 DEF SIInv, STypeOK, Sent, Awaited
<1>3. (Running => permits + Cardinality(Awaited) = Plan[at].parallel)' /\ TasksAddUp'
  BY <1>1 DEF harness, SIInv, STypeOK, TasksAddUp, Running
<1> QED
  BY <1>2, <1>3 DEF harness, SIInv, STypeOK

LEMMA DieUnderLoadKeeps ==
  ASSUME SIInv, TypeOK', DieUnderLoad
  PROVE  SIInv'
<1>0. pending \in Nat /\ permits \in Nat /\ latencies \in Nat /\ errors \in Nat
      /\ Cardinality(Awaited) \in Nat
  BY Numbers DEF SIInv
<1>1. Awaited' = {}
  BY DEF DieUnderLoad, Awaited
<1>2. at' = at /\ pending' = pending /\ latencies' = latencies
      /\ errors' = errors + Cardinality(Awaited)
      /\ permits' = permits + Cardinality(Awaited)
      /\ owner' = [q \in Slots |-> "other"]
  BY DEF DieUnderLoad
<1>3. (Running => permits + Cardinality(Awaited) = Plan[at].parallel)' /\ TasksAddUp'
  <2>1. permits' + Cardinality(Awaited') = permits + Cardinality(Awaited)
    BY <1>0, <1>1, <1>2, NobodyAwaited
  <2>2. Tasks(pending', Cardinality(Awaited'), latencies', errors') =
          Tasks(pending, 0, latencies, errors + Cardinality(Awaited))
    BY <1>1, <1>2, NobodyAwaited
  <2>3. Tasks(pending', Cardinality(Awaited'), latencies', errors') =
          Tasks(pending, Cardinality(Awaited), latencies, errors)
    BY <1>0, <2>2, Booked
  <2> QED
    BY <1>2, <2>1, <2>3, SameStage
<1>4. {pending', permits', latencies', errors'} \subseteq Nat
  BY <1>2, FiniteAwaited, Numbers DEF SIInv, STypeOK
<1> QED
  BY <1>1, <1>2, <1>3, <1>4 DEF SIInv, STypeOK

(* The invariant is inductive, relative to the types of Requests. *)
LEMMA SInductive == SIInv /\ TypeOK' /\ [SNext]_svars => SIInv'
<1> SUFFICES ASSUME SIInv, TypeOK', [SNext]_svars PROVE SIInv'
  OBVIOUS
<1>1. ASSUME NEW r \in Slots, OtherClient(r) PROVE SIInv'
  <2>1. \A q \in Slots : stage[q] # "free" => stage'[q] = stage[q] /\ kind'[q] = kind[q]
    BY <1>1 DEF OtherClient, Arrive, Goto, SIInv, STypeOK, TypeOK
  <2> QED
    BY <1>1, <2>1, OthersKeep DEF OtherClient
<1>2. CASE Elsewhere
  <2>1. stage' = stage /\ kind' = kind
    BY <1>2 DEF Elsewhere, Outage, Recover, Respawn
  <2> QED
    BY <1>2, <2>1, OthersKeep DEF Elsewhere
<1>3. CASE UNCHANGED svars
  BY <1>3, OthersKeep DEF svars, vars
<1> QED
  BY <1>1, <1>2, <1>3, SendKeeps, ServeKeeps, ClientTimeoutKeeps, SendFailsKeeps,
     NextStageKeeps, DieUnderLoadKeeps DEF SNext

LEMMA SInvariance == SSpec => []SIInv
<1>1. SSpec => []TypeOK
  BY StressIsRequests, RequestsTyping, PTL
<1> QED
  BY <1>1, SInitHolds, SInductive, PTL DEF SSpec

(* The harness stays in its domains, and its permits are always all there: *)
(* with the semaphore, or with a task that awaits an answer.               *)
THEOREM StressTyping == SSpec => []STypeOK
  BY SInvariance, PTL DEF SIInv

(* Every row of the report accounts for every request of its stage, once.  *)
THEOREM LedgersAreComplete == SSpec => []LedgerComplete
<1>1. SIInv => LedgerComplete
  <2> SUFFICES ASSUME SIInv, Gathered PROVE latencies + errors = Plan[at].total
    BY DEF LedgerComplete
  <2>1. Cardinality(Awaited) = 0
    BY FS_EmptySet DEF Gathered
  <2> QED
    BY <2>1, Numbers DEF SIInv, TasksAddUp, Tasks, Gathered
<1> QED
  BY <1>1, SInvariance, PTL

(* A stage within the pool's limit waits for connections only because of   *)
(* requests that are not its own.                                          *)
THEOREM OnlyACrowdWaits == SSpec => []OnlyCrowdWaits
<1>1. SIInv /\ PoolAddsUp => OnlyCrowdWaits
  <2> SUFFICES ASSUME SIInv, PoolAddsUp, Running, Plan[at].parallel <= Limit, out = Limit,
                      NEW r \in Awaited, stage[r] = "queued",
                      \A q \in Slots : stage[q] = "free" \/ owner[q] = "harness"
               PROVE  FALSE
    BY DEF OnlyCrowdWaits
  <2>1. Holders \cup {r} \subseteq Awaited /\ r \notin Holders
    BY DEF SIInv, STypeOK, TypeOK, Holders, Awaited
  <2>2. Cardinality(Holders \cup {r}) = Cardinality(Holders) + 1
    BY <2>1, FiniteHolders, FS_AddElement
  <2>3. Cardinality(Holders \cup {r}) <= Cardinality(Awaited)
    BY <2>1, FiniteAwaited, FS_Subset
  <2>4. permits \in Nat /\ permits + Cardinality(Awaited) = Plan[at].parallel
    BY DEF SIInv, STypeOK
  <2>5. Plan[at].parallel \in Nat
    BY StagesAreNumbers DEF Running
  <2> QED
    BY <2>2, <2>3, <2>4, <2>5, FiniteAwaited, LimitIsNat DEF PoolAddsUp
<1>2. SSpec => []PoolAddsUp
  BY StressIsRequests, PoolIsExact, PTL
<1> QED
  BY <1>1, <1>2, SInvariance, PTL
=============================================================================
