---------------------------- MODULE RequestsProofs ----------------------------
(***************************************************************************)
(* What the requests of a worker and its pool promise, for any number of   *)
(* requests, any size of the pool, and any number of outages, failed       *)
(* writes and deaths.                                                      *)
(***************************************************************************)
EXTENDS Requests, FiniteSetTheorems, SequenceTheorems, TLAPS

(* One request: what it is on its way to, and what it still has to do.  A  *)
(* task is left only to a request with a connection, which is why a seed   *)
(* run has one of the pool's beside its own.                               *)
Course(r) ==
  /\ stage[r] \in {"queued", "working", "raised"} => kind[r] \in HasSession
  /\ ~Sent(r) => counted[r] = 0 /\ ~failed[r]
  /\ stage[r] = "answering" => answer[r] # "error"
  /\ stage[r] = "raised" => answer[r] = "error"
  /\ r \in tasks => /\ stage[r] \in {"answering", "sent"}
                    /\ conn[r] # "none" /\ answer[r] = "accepted"
  /\ stage[r] = "background" => conn[r] # "none" /\ answer[r] = "accepted"

IInv ==
  /\ TypeOK
  /\ PoolAddsUp
  /\ \A r \in Slots : Course(r)
  /\ CountedAsSent
  /\ NoStaleAfterNotice

USE RequestsAssumption

-----------------------------------------------------------------------------
LEMMA FiniteHolders == IsFiniteSet(Holders) /\ IsFiniteSet(Runs)
  BY FS_Subset DEF Holders, Runs

LEMMA LimitIsNat == Limit \in Nat /\ PoolSize <= Limit
  BY DEF Limit

(* A closed session has given back its connection.                         *)
LEMMA Closing ==
  ASSUME TypeOK, PoolAddsUp, NoStaleAfterNotice, NEW r \in Slots, CloseSession(r)
  PROVE  /\ PoolAddsUp' /\ NoStaleAfterNotice'
         /\ idle' \in Seq(Conns) /\ out' \in Nat /\ noticed' \in BOOLEAN
         /\ conn' = [conn EXCEPT ![r] = "none"]
<1>1. CASE conn[r] = "none"
  BY <1>1 DEF TypeOK, PoolAddsUp, NoStaleAfterNotice, CloseSession, Holders, pool
<1>2. CASE conn[r] # "none"
  <2>1. conn' = [conn EXCEPT ![r] = "none"] /\ out' = out - 1 /\ PutBack(r)
    BY <1>2 DEF CloseSession
  <2>2. Holders' = Holders \ {r} /\ r \in Holders
    BY <1>2, <2>1 DEF Holders, TypeOK
  <2>3. Cardinality(Holders') = Cardinality(Holders) - 1 /\ Cardinality(Holders) \in Nat
    BY <2>2, FiniteHolders, FS_RemoveElement, FS_CardinalityType
  <2>4. out' \in Nat /\ out' = Cardinality(Holders')
    <3>1. Cardinality(Holders') \in Nat
      BY <2>2, FiniteHolders, FS_RemoveElement, FS_CardinalityType
    <3> QED
      BY <2>1, <2>3, <3>1 DEF PoolAddsUp
  <2>5. /\ idle' \in Seq(Conns) /\ noticed' \in BOOLEAN
        /\ Len(idle') <= PoolSize /\ Len(idle') <= Len(idle) + 1
        /\ NoStaleAfterNotice'
    <3>1. CASE conn[r] = "stale"
      BY <2>1, <3>1 DEF PutBack, NoStaleAfterNotice, TypeOK, PoolAddsUp
    <3>2. CASE conn[r] # "stale" /\ Len(idle) < PoolSize
      <4>1. idle' = Append(idle, "good") /\ noticed' = noticed
        BY <2>1, <3>2 DEF PutBack
      <4>2. /\ idle' \in Seq(Conns) /\ Len(idle') = Len(idle) + 1
            /\ \A i \in 1..Len(idle) : idle'[i] = idle[i]
            /\ idle'[Len(idle) + 1] = "good"
        BY <4>1, AppendProperties DEF TypeOK, Conns
      <4> QED
        BY <3>2, <4>1, <4>2 DEF NoStaleAfterNotice, TypeOK
    <3>3. CASE conn[r] # "stale" /\ ~(Len(idle) < PoolSize)
      BY <2>1, <3>3 DEF PutBack, NoStaleAfterNotice, TypeOK, PoolAddsUp
    <3> QED
      BY <3>1, <3>2, <3>3
  <2>6. out' + Len(idle') <= Limit
    BY <2>1, <2>4, <2>5, LimitIsNat DEF PoolAddsUp, TypeOK
  <2> QED
    BY <2>1, <2>4, <2>5, <2>6 DEF PoolAddsUp
<1> QED
  BY <1>1, <1>2

(* A connection that is handed out was idle, or is new and within bounds.  *)
LEMMA Taking ==
  ASSUME TypeOK, PoolAddsUp, NoStaleAfterNotice,
         NEW r \in Slots, NEW c \in Conns, stage[r] = "queued", TakeFromPool(r, c),
         \/ idle # <<>> /\ idle' = Tail(idle)
         \/ idle = <<>> /\ out < Limit /\ idle' = idle
  PROVE  /\ PoolAddsUp' /\ NoStaleAfterNotice'
         /\ idle' \in Seq(Conns) /\ out' \in Nat
<1>1. conn' = [conn EXCEPT ![r] = c] /\ out' = out + 1 /\ noticed' = noticed
  BY DEF TakeFromPool
<1>2. Holders' = Holders \cup {r} /\ r \notin Holders
  BY <1>1 DEF Holders, TypeOK, Conns
<1>3. Cardinality(Holders') = Cardinality(Holders) + 1
  BY <1>2, FiniteHolders, FS_AddElement
<1>4. out' \in Nat /\ out' = Cardinality(Holders')
  BY <1>1, <1>3 DEF PoolAddsUp, TypeOK
<1>5. CASE idle # <<>> /\ idle' = Tail(idle)
  <2>1. /\ idle' \in Seq(Conns) /\ Len(idle') = Len(idle) - 1
        /\ \A i \in 1..Len(idle') : idle'[i] = idle[i + 1]
    BY <1>5, HeadTailProperties DEF TypeOK
  <2>2. \A i \in DOMAIN idle' : i + 1 \in DOMAIN idle /\ idle'[i] = idle[i + 1]
    BY <2>1 DEF TypeOK
  <2>3. NoStaleAfterNotice'
    BY <1>1, <2>2 DEF NoStaleAfterNotice
  <2>4. Len(idle) \in Nat /\ Len(idle') \in Nat
    BY <2>1 DEF TypeOK
  <2>5. PoolAddsUp'
    BY <1>1, <1>4, <2>1, <2>4, LimitIsNat DEF PoolAddsUp, TypeOK
  <2> QED
    BY <1>4, <2>1, <2>3, <2>5
<1>6. CASE idle = <<>> /\ out < Limit /\ idle' = idle
  BY <1>1, <1>4, <1>6, LimitIsNat DEF PoolAddsUp, NoStaleAfterNotice, TypeOK
<1> QED
  BY <1>5, <1>6

LEMMA InitHolds == Init => IInv
<1> SUFFICES ASSUME Init PROVE IInv
  OBVIOUS
<1>1. Holders = {}
  BY DEF Init, Holders
<1>2. Cardinality(Holders) = 0
  BY <1>1, FS_EmptySet
<1>3. idle \in Seq(Conns) /\ Len(idle) = 1 /\ idle[1] = "good"
  BY DEF Init, Conns
<1>4. PoolAddsUp
  BY <1>2, <1>3 DEF PoolAddsUp, Init, Limit
<1>5. TypeOK
  <2>1. mishaps \in 0..MaxMishaps
    BY DEF Init
  <2>2. db = TRUE /\ up = TRUE /\ noticed = FALSE
    BY DEF Init
  <2>3. {db, up, noticed} \subseteq BOOLEAN
    BY <2>2
  <2> QED
    BY <1>3, <2>1, <2>3 DEF Init, TypeOK, AllKinds, Stages, Conns, Answers
<1> QED
  BY <1>4, <1>5 DEF IInv, Init, Course, CountedAsSent, NoStaleAfterNotice, Sent

(* What a step leaves alone stays right.                                   *)
LEMMA PoolUntouched ==
  ASSUME IInv, UNCHANGED <<conn, pool>>
  PROVE  PoolAddsUp' /\ NoStaleAfterNotice'
  BY DEF IInv, PoolAddsUp, NoStaleAfterNotice, Holders, pool

LEMMA ArriveKeeps ==
  ASSUME IInv, NEW r \in Slots, NEW k \in Kinds, Arrive(r, k)
  PROVE  IInv'
<1>1. TypeOK'
  BY DEF IInv, TypeOK, Arrive, Goto, Stages, Conns, pool
<1>2. (\A s \in Slots : Course(s)') /\ CountedAsSent'
  BY DEF IInv, TypeOK, Course, CountedAsSent, Sent, Arrive, Goto, HasSession
<1> QED
  BY <1>1, <1>2, PoolUntouched DEF IInv, Arrive

LEMMA AnswerAtOnceKeeps ==
  ASSUME IInv, NEW r \in Slots, AnswerAtOnce(r)
  PROVE  IInv'
<1>1. TypeOK'
  BY DEF IInv, TypeOK, AnswerAtOnce, Prepare, Goto, Stages, Answers, Conns, pool
<1>2. (\A s \in Slots : Course(s)') /\ CountedAsSent'
  BY DEF IInv, TypeOK, Course, CountedAsSent, Sent, AnswerAtOnce, Prepare, Goto
<1> QED
  BY <1>1, <1>2, PoolUntouched DEF IInv, AnswerAtOnce

LEMMA NeedConnectionKeeps ==
  ASSUME IInv, NEW r \in Slots, NeedConnection(r)
  PROVE  IInv'
<1>1. TypeOK'
  BY DEF IInv, TypeOK, NeedConnection, Goto, Stages, Answers, Conns, pool
<1>2. (\A s \in Slots : Course(s)') /\ CountedAsSent'
  BY DEF IInv, TypeOK, Course, CountedAsSent, Sent, NeedConnection, Goto, IsCounted, HasSession
<1> QED
  BY <1>1, <1>2, PoolUntouched DEF IInv, NeedConnection

(* A request that raises comes to an answer, or to the server's 500.       *)
LEMMA Raising ==
  ASSUME IInv, NEW r \in Slots, stage[r] \in {"queued", "working"}, Raise(r),
         conn' = [conn EXCEPT ![r] = "none"], UNCHANGED <<kind, tasks, counted, failed>>
  PROVE  /\ \A s \in Slots : Course(s)'
         /\ CountedAsSent'
         /\ \E p \in {"answering", "raised"}, a \in {"unready", "error"} : Prepare(r, p, a)
<1>1. PICK p \in {"answering", "raised"}, a \in {"unready", "error"} :
        /\ Prepare(r, p, a)
        /\ p = "answering" <=> a = "unready"
  BY DEF Raise
<1>2. Course(r)'
  <2>1. stage'[r] = p /\ answer'[r] = a
    BY <1>1 DEF IInv, TypeOK, Prepare, Goto
  <2>2. r \notin tasks /\ kind[r] \in HasSession /\ counted[r] = 0 /\ ~failed[r]
    BY DEF IInv, Course, Sent
  <2> QED
    BY <1>1, <2>1, <2>2 DEF Course, Sent
<1>3. \A s \in Slots \ {r} : Course(s)'
  BY <1>1 DEF IInv, TypeOK, Course, Sent, Prepare, Goto
<1>4. CountedAsSent'
  BY <1>1 DEF IInv, TypeOK, CountedAsSent, Sent, Prepare, Goto
<1> QED
  BY <1>1, <1>2, <1>3, <1>4

LEMMA CheckOutKeeps ==
  ASSUME IInv, NEW r \in Slots, CheckOut(r)
  PROVE  IInv'
<1>1. CASE \E c \in Conns :
             /\ TakeFromPool(r, c)
             /\ \/ idle # <<>> /\ idle' = Tail(idle)
                \/ idle = <<>> /\ out < Limit /\ idle' = idle
  <2>1. PICK c \in Conns :
             /\ TakeFromPool(r, c)
             /\ \/ idle # <<>> /\ idle' = Tail(idle)
                \/ idle = <<>> /\ out < Limit /\ idle' = idle
    BY <1>1
  <2>2. /\ PoolAddsUp' /\ NoStaleAfterNotice'
        /\ idle' \in Seq(Conns) /\ out' \in Nat
    BY <2>1, Taking DEF IInv, CheckOut
  <2>3. TypeOK'
    BY <2>1, <2>2 DEF IInv, TypeOK, CheckOut, TakeFromPool, Goto, Stages, Conns
  <2>4. (\A s \in Slots : Course(s)') /\ CountedAsSent'
    BY <2>1 DEF IInv, TypeOK, Course, CountedAsSent, Sent, CheckOut, TakeFromPool, Goto, Conns
  <2> QED
    BY <2>2, <2>3, <2>4 DEF IInv
<1>2. CASE Raise(r) /\ UNCHANGED <<conn, out, noticed, idle>>
  <2>1. conn' = [conn EXCEPT ![r] = "none"]
    BY <1>2 DEF IInv, TypeOK, CheckOut
  <2>2. /\ \A s \in Slots : Course(s)'
        /\ CountedAsSent'
        /\ \E p \in {"answering", "raised"}, a \in {"unready", "error"} : Prepare(r, p, a)
    BY <1>2, <2>1, Raising DEF CheckOut
  <2>3. TypeOK'
    BY <1>2, <2>1, <2>2 DEF IInv, TypeOK, CheckOut, Prepare, Goto, Stages, Answers, Conns
  <2> QED
    BY <1>2, <2>2, <2>3, PoolUntouched DEF IInv, pool
<1>3. idle # <<>> => Head(idle) \in Conns
  BY HeadTailProperties DEF IInv, TypeOK
<1>4. "good" \in Conns
  BY DEF Conns
<1> QED
  BY <1>1, <1>2, <1>3, <1>4 DEF CheckOut

LEMMA PoolTimeoutKeeps ==
  ASSUME IInv, NEW r \in Slots, PoolTimeout(r)
  PROVE  IInv'
<1>1. conn' = [conn EXCEPT ![r] = "none"]
  BY DEF IInv, TypeOK, PoolTimeout
<1>2. /\ \A s \in Slots : Course(s)'
      /\ CountedAsSent'
      /\ \E p \in {"answering", "raised"}, a \in {"unready", "error"} : Prepare(r, p, a)
  BY <1>1, Raising DEF PoolTimeout
<1>3. TypeOK'
  BY <1>1, <1>2 DEF IInv, TypeOK, PoolTimeout, Prepare, Goto, Stages, Answers, Conns, pool
<1> QED
  BY <1>2, <1>3, PoolUntouched DEF IInv, PoolTimeout

LEMMA WorkKeeps ==
  ASSUME IInv, NEW r \in Slots, Work(r)
  PROVE  IInv'
<1>1. PICK a \in {"ok", "accepted"} : Prepare(r, "answering", a) /\ tasks' \subseteq Slots
  BY DEF IInv, TypeOK, Work
<1>2. stage'[r] = "answering" /\ answer'[r] \in {"ok", "accepted"} /\ TypeOK'
  BY <1>1 DEF IInv, TypeOK, Work, Prepare, Goto, Stages, Answers, Conns, pool
<1>3. Course(r)'
  <2>1. r \notin tasks /\ conn[r] # "none" /\ counted[r] = 0 /\ ~failed[r]
    BY DEF IInv, Course, Sent, Work
  <2>2. r \in tasks' => answer'[r] = "accepted"
    BY <2>1 DEF IInv, TypeOK, Work, Prepare
  <2> QED
    BY <1>2, <2>1, <2>2 DEF Course, Sent, Work
<1>4. \A s \in Slots \ {r} : Course(s)'
  BY DEF IInv, TypeOK, Course, Sent, Work, Prepare, Goto
<1>5. CountedAsSent'
  BY <1>2 DEF IInv, TypeOK, CountedAsSent, Sent, Work, Prepare, Goto
<1> QED
  BY <1>2, <1>3, <1>4, <1>5, PoolUntouched DEF IInv, Work

LEMMA CountKeeps ==
  ASSUME IInv, NEW r \in Slots, Count(r)
  PROVE  IInv'
<1>1. TypeOK'
  BY DEF IInv, TypeOK, Count, Goto, Stages, Answers, Conns, pool
<1>2. (\A s \in Slots : Course(s)') /\ CountedAsSent'
  BY DEF IInv, TypeOK, Course, CountedAsSent, Sent, Count, Goto, IsCounted, HasSession
<1> QED
  BY <1>1, <1>2, PoolUntouched DEF IInv, Count

LEMMA SendErrorKeeps ==
  ASSUME IInv, NEW r \in Slots, SendError(r)
  PROVE  IInv'
<1>1. TypeOK'
  BY DEF IInv, TypeOK, SendError, Goto, Stages, Answers, Conns, pool
<1>2. (\A s \in Slots : Course(s)') /\ CountedAsSent'
  BY DEF IInv, TypeOK, Course, CountedAsSent, Sent, SendError, Goto, IsCounted, HasSession
<1> QED
  BY <1>1, <1>2, PoolUntouched DEF IInv, SendError

LEMMA RunKeeps ==
  ASSUME IInv, NEW r \in Slots, Run(r)
  PROVE  IInv'
<1>1. TypeOK'
  BY DEF IInv, TypeOK, Run, StartRun, Goto, Stages, Answers, Conns, pool
<1>2. (\A s \in Slots : Course(s)') /\ CountedAsSent'
  BY DEF IInv, TypeOK, Course, CountedAsSent, Sent, Run, StartRun, Goto, IsCounted, HasSession
<1> QED
  BY <1>1, <1>2, PoolUntouched DEF IInv, Run

LEMMA WorkRaisesKeeps ==
  ASSUME IInv, NEW r \in Slots, WorkRaises(r)
  PROVE  IInv'
<1>1. /\ PoolAddsUp' /\ NoStaleAfterNotice'
      /\ idle' \in Seq(Conns) /\ out' \in Nat /\ noticed' \in BOOLEAN
      /\ conn' = [conn EXCEPT ![r] = "none"]
  BY Closing DEF IInv, WorkRaises, OnRaise
<1>2. CASE Prepare(r, "answering", "refused")
  <2>1. TypeOK'
    BY <1>1, <1>2 DEF IInv, TypeOK, WorkRaises, Prepare, Goto, Stages, Answers, Conns
  <2>2. (\A s \in Slots : Course(s)') /\ CountedAsSent'
    BY <1>1, <1>2 DEF IInv, TypeOK, Course, CountedAsSent, Sent, WorkRaises, Prepare, Goto
  <2> QED
    BY <1>1, <2>1, <2>2 DEF IInv
<1>3. CASE Raise(r)
  <2>1. /\ \A s \in Slots : Course(s)'
        /\ CountedAsSent'
        /\ \E p \in {"answering", "raised"}, a \in {"unready", "error"} : Prepare(r, p, a)
    BY <1>1, <1>3, Raising DEF WorkRaises
  <2>2. TypeOK'
    BY <1>1, <2>1 DEF IInv, TypeOK, WorkRaises, Prepare, Goto, Stages, Answers, Conns
  <2> QED
    BY <1>1, <2>1, <2>2 DEF IInv
<1> QED
  BY <1>2, <1>3 DEF WorkRaises

LEMMA CountRaisesKeeps ==
  ASSUME IInv, NEW r \in Slots, CountRaises(r)
  PROVE  IInv'
<1>1. /\ PoolAddsUp' /\ NoStaleAfterNotice'
      /\ idle' \in Seq(Conns) /\ out' \in Nat /\ noticed' \in BOOLEAN
      /\ conn' = [conn EXCEPT ![r] = "none"]
  BY Closing DEF IInv, CountRaises
<1>2. TypeOK'
  BY <1>1 DEF IInv, TypeOK, CountRaises, Cancel, Mishap, Prepare, Goto, Stages, Answers, Conns, AllKinds
<1>3. (\A s \in Slots : Course(s)') /\ CountedAsSent'
  BY <1>1 DEF IInv, TypeOK, Course, CountedAsSent, Sent, CountRaises, Cancel, Mishap, Prepare, Goto, IsCounted, HasSession, HasToken
<1> QED
  BY <1>1, <1>2, <1>3 DEF IInv

LEMMA FinishKeeps ==
  ASSUME IInv, NEW r \in Slots, Finish(r)
  PROVE  IInv'
<1>1. /\ PoolAddsUp' /\ NoStaleAfterNotice'
      /\ idle' \in Seq(Conns) /\ out' \in Nat /\ noticed' \in BOOLEAN
      /\ conn' = [conn EXCEPT ![r] = "none"]
  BY Closing DEF IInv, Finish
<1>2. TypeOK'
  BY <1>1 DEF IInv, TypeOK, Finish, Goto, Stages, Answers, Conns, AllKinds
<1>3. (\A s \in Slots : Course(s)') /\ CountedAsSent'
  BY <1>1 DEF IInv, TypeOK, Course, CountedAsSent, Sent, Finish, Goto, IsCounted, HasSession, HasToken
<1> QED
  BY <1>1, <1>2, <1>3 DEF IInv

-----------------------------------------------------------------------------
(* The database or the worker goes and comes: no connection is counted     *)
(* twice or forgotten.                                                     *)
LEMMA OutageKeeps ==
  ASSUME IInv, Outage
  PROVE  IInv'
<1>1. Holders' = Holders
  BY DEF IInv, TypeOK, Outage, Holders, Conns
<1>2. idle' \in Seq(Conns) /\ Len(idle') = Len(idle)
  BY DEF IInv, TypeOK, Outage, Conns
<1>3. PoolAddsUp' /\ NoStaleAfterNotice'
  BY <1>1, <1>2 DEF IInv, PoolAddsUp, NoStaleAfterNotice, Outage
<1>4. db' = FALSE /\ noticed' = FALSE /\ up' = up
  BY DEF Outage
<1>5. {db', up', noticed'} \subseteq BOOLEAN
  BY <1>4 DEF IInv, TypeOK
<1>6. TypeOK'
  BY <1>2, <1>5 DEF IInv, TypeOK, Outage, Mishap, Conns
<1>7. (\A s \in Slots : Course(s)') /\ CountedAsSent'
  BY DEF IInv, TypeOK, Course, CountedAsSent, Sent, Outage, Conns
<1> QED
  BY <1>3, <1>6, <1>7 DEF IInv

LEMMA RecoverKeeps ==
  ASSUME IInv, Recover
  PROVE  IInv'
<1>1. TypeOK'
  <2>1. {db', up', noticed'} \subseteq BOOLEAN
    BY DEF IInv, TypeOK, Recover, pool
  <2> QED
    BY <2>1 DEF IInv, TypeOK, Recover, pool
<1>2. (\A s \in Slots : Course(s)') /\ CountedAsSent'
  BY DEF IInv, Course, CountedAsSent, Sent, Recover
<1> QED
  BY <1>1, <1>2, PoolUntouched DEF IInv, Recover

LEMMA DieKeeps ==
  ASSUME IInv, Die
  PROVE  IInv'
<1>1. Holders' = {}
  BY DEF Die, Holders
<1>2. Cardinality(Holders') = 0
  BY <1>1, FS_EmptySet
<1>3. PoolAddsUp' /\ NoStaleAfterNotice'
  BY <1>2, LimitIsNat DEF PoolAddsUp, NoStaleAfterNotice, Die
<1>4. {db', up', noticed'} \subseteq BOOLEAN
  BY DEF IInv, TypeOK, Die
<1>5. TypeOK'
  BY <1>4 DEF IInv, TypeOK, Die, Mishap, AllKinds, Stages, Answers, Conns
<1>6. (\A s \in Slots : Course(s)') /\ CountedAsSent'
  BY DEF Course, CountedAsSent, Sent, Die
<1> QED
  BY <1>3, <1>5, <1>6 DEF IInv

LEMMA RespawnKeeps ==
  ASSUME IInv, Respawn, out = 0
  PROVE  IInv'
<1>1. idle' \in Seq(Conns) /\ Len(idle') = 1 /\ \A i \in DOMAIN idle' : idle'[i] = "good"
  BY DEF Respawn, Conns
<1>2. PoolAddsUp' /\ NoStaleAfterNotice'
  BY <1>1, LimitIsNat DEF IInv, PoolAddsUp, NoStaleAfterNotice, Respawn, Holders
<1>3. {db', up', noticed'} \subseteq BOOLEAN
  BY DEF IInv, TypeOK, Respawn
<1>4. TypeOK'
  BY <1>1, <1>3 DEF IInv, TypeOK, Respawn
<1>5. (\A s \in Slots : Course(s)') /\ CountedAsSent'
  BY DEF IInv, Course, CountedAsSent, Sent, Respawn
<1> QED
  BY <1>2, <1>4, <1>5 DEF IInv

(* A worker that does not serve has no requests. *)
Down == ~up => \A r \in Slots : stage[r] = "free"

LEMMA DownKeeps ==
  ASSUME Down, Next
  PROVE  Down'
<1>1. ASSUME NEW r \in Slots, Step(r) PROVE Down'
  <2>1. stage[r] # "free"
    BY <1>1 DEF Step, AnswerAtOnce, NeedConnection, CheckOut, PoolTimeout, Work,
                WorkRaises, Count, CountRaises, SendError, Run, StartRun, Finish
  <2>2. up' = up
    BY <1>1 DEF Step, AnswerAtOnce, NeedConnection, CheckOut, PoolTimeout, Work,
                WorkRaises, Count, CountRaises, SendError, Run, StartRun, Finish
  <2> QED
    BY <2>1, <2>2 DEF Down
<1>2. ASSUME NEW r \in Slots, NEW k \in Kinds, Arrive(r, k) PROVE Down'
  BY <1>2 DEF Down, Arrive
<1>3. CASE Environment
  BY <1>3 DEF Down, Environment, Outage, Recover, Die, Respawn
<1> QED
  BY <1>1, <1>2, <1>3 DEF Next

LEMMA NothingOutWhenDown ==
  ASSUME IInv, Down, ~up
  PROVE  out = 0
<1>1. Holders = {}
  BY DEF IInv, TypeOK, Down, Holders
<1> QED
  BY <1>1, FS_EmptySet DEF IInv, PoolAddsUp

(* The invariant is inductive. *)
LEMMA Inductive == IInv /\ Down /\ [Next]_vars => (IInv /\ Down)'
<1> SUFFICES ASSUME IInv, Down, [Next]_vars PROVE (IInv /\ Down)'
  OBVIOUS
<1>1. ASSUME NEW r \in Slots, Step(r) PROVE IInv'
  BY <1>1, AnswerAtOnceKeeps, NeedConnectionKeeps, CheckOutKeeps, PoolTimeoutKeeps,
     WorkKeeps, WorkRaisesKeeps, CountKeeps, CountRaisesKeeps, SendErrorKeeps,
     RunKeeps, FinishKeeps DEF Step
<1>2. ASSUME Environment PROVE IInv'
  BY <1>2, OutageKeeps, RecoverKeeps, DieKeeps, RespawnKeeps, NothingOutWhenDown
  DEF Environment, Respawn
<1>3. CASE Next
  BY <1>1, <1>2, <1>3, ArriveKeeps, DownKeeps DEF Next
<1>4. CASE UNCHANGED vars
  <2>1. TypeOK'
    BY <1>4 DEF IInv, TypeOK, vars, pool
  <2>2. (\A s \in Slots : Course(s)') /\ CountedAsSent' /\ Down'
    BY <1>4 DEF IInv, Course, CountedAsSent, Sent, Down, vars
  <2> QED
    BY <1>4, <2>1, <2>2, PoolUntouched DEF IInv, vars
<1> QED
  BY <1>3, <1>4

LEMMA Invariance == Spec => [](IInv /\ Down)
<1>1. Init => Down
  BY DEF Init, Down
<1> QED
  BY <1>1, InitHolds, Inductive, PTL DEF Spec

(* Requests stay in their domains, and have a connection only from their   *)
(* first statement to their end.                                           *)
THEOREM RequestsTyping == Spec => []TypeOK
  BY Invariance, PTL DEF IInv

(* No way for a request to end loses a connection of the pool or gives one *)
(* back twice, and the pool never has more than its limit.                 *)
THEOREM PoolIsExact == Spec => []PoolAddsUp
  BY Invariance, PTL DEF IInv

(* The pool is exact, and the worker's connections, those of seed runs     *)
(* beside the pool included, are at most twice its limit: a run holds one  *)
(* of the pool's.                                                          *)
THEOREM ConnectionsAreBounded == Spec => []ConnectionsBounded
<1>1. IInv => ConnectionsBounded
  <2> SUFFICES ASSUME IInv PROVE PoolAddsUp /\ RunsWithinPool
    BY DEF ConnectionsBounded
  <2>1. Runs \subseteq Holders
    BY DEF IInv, Course, Runs, Holders
  <2>2. Cardinality(Runs) <= Cardinality(Holders)
    BY <2>1, FiniteHolders, FS_Subset
  <2>3. Cardinality(Runs) \in Nat /\ Len(idle) \in Nat /\ out \in Nat
    BY FiniteHolders, FS_CardinalityType DEF IInv, TypeOK
  <2> QED
    BY <2>2, <2>3, LimitIsNat DEF IInv, PoolAddsUp, RunsWithinPool
<1> QED
  BY <1>1, Invariance, PTL

(* No seed run goes on for a request that was answered by an error.        *)
THEOREM RunsAreAccepted == Spec => []RunMeansAccepted
<1>1. IInv => RunMeansAccepted
  BY DEF IInv, Course, RunMeansAccepted
<1> QED
  BY <1>1, Invariance, PTL

(* The counters see each answer that is sent once, and errors not at all   *)
(* unless the error is their own.                                          *)
THEOREM CountsAreExact == Spec => []CountedAsSent
  BY Invariance, PTL DEF IInv

(* After one request has met a dead connection, the pool has none left.    *)
THEOREM OneMeetsTheOutage == Spec => []NoStaleAfterNotice
  BY Invariance, PTL DEF IInv
=============================================================================
