------------------------ MODULE RequestScheduler_proofs ------------------------
(***************************************************************************)
(* Proofs about RequestScheduler: what the three schedulers admit, drop    *)
(* and share out, for any requests, users, models, quotas and clock.       *)
(***************************************************************************)
EXTENDS RequestScheduler, FiniteSetTheorems, TLAPS

\* A user's counter counts the user's accepted requests.  AdmissionHeld alone
\* would not be kept: the quota is compared with the counter.
CountsExact ==
    scheduler = "priority" =>
      /\ IsFiniteSet(Queue)
      /\ \A u \in Users : counts[u] = Len(accepted[u])

Inv == TypeOK /\ CountsExact /\ AdmissionHeld

------------------------------------------------------------------------------
(* Steps of the model.                                                     *)

\* A call that returns r and drops the requests in expired.
LEMMA ReturnType ==
    ASSUME TypeOK, NEW r \in Requests \cup {None}, NEW expired, Return(r, expired)
    PROVE  /\ status' \in [Requests -> Statuses]
           /\ \A q \in Requests : status'[q] =
                IF q = r THEN "served"
                ELSE IF q \in expired THEN "dropped" ELSE status[q]
           /\ result' \in Requests \cup {None, NoCall}
PROOF
  BY DEF TypeOK, Return, Statuses, Refusals

\* What a dequeue returns was live, and what it drops had expired in the queue.
LEMMA PopStep ==
    ASSUME PopUntilLive
    PROVE  \/ Live = {} /\ Return(None, Queue)
           \/ \E r \in Live, expired \in SUBSET (Queue \ Live) : Return(r, expired)
PROOF
<1>1. CASE Live = {} /\ Return(None, Queue)
  BY <1>1
<1>2. ASSUME NEW r \in Least(Live), NEW expired \in SUBSET (Queue \ Live),
             Return(r, expired)
      PROVE  \E q \in Live, e \in SUBSET (Queue \ Live) : Return(q, e)
  BY <1>2 DEF Least
<1>3. ASSUME NEW r \in Least(Live),
             NEW also \in SUBSET {q \in Queue \ Live : ~Before(q, r) /\ ~Before(r, q)},
             Return(r, {q \in Queue \ Live : Before(q, r)} \cup also)
      PROVE  \E q \in Live, e \in SUBSET (Queue \ Live) : Return(q, e)
  <2>1. {q \in Queue \ Live : Before(q, r)} \cup also \in SUBSET (Queue \ Live)
    OBVIOUS
  <2> QED BY <2>1, <1>2, <1>3
<1> QED BY <1>1, <1>3 DEF PopUntilLive

\* The steps that may change what is queued, as the rest sees them.
LEMMA PopKeeps ==
    ASSUME TypeOK, PopUntilLive
    PROVE  /\ status' \in [Requests -> Statuses]
           /\ result' \in Requests \cup {None, NoCall}
           /\ Queue' \subseteq Queue
           /\ \A q \in Requests : status[q] # "dropped" /\ status'[q] = "dropped"
                => q \in Queue /\ (IsExpired(q) \/ Live = {})
PROOF
<1>1. CASE Live = {} /\ Return(None, Queue)
  <2>1. None \notin Requests /\ None \in Requests \cup {None}
    BY SchedulerAssumption
  <2>2. \A q \in Requests : status'[q] = IF q \in Queue THEN "dropped" ELSE status[q]
    BY <1>1, <2>1, ReturnType
  <2>3. status' \in [Requests -> Statuses] /\ result' \in Requests \cup {None, NoCall}
    BY <1>1, <2>1, ReturnType
  <2>4. Queue' \subseteq Queue
    BY <2>2 DEF Queue
  <2> QED BY <1>1, <2>2, <2>3, <2>4
<1>2. ASSUME NEW r \in Live, NEW expired \in SUBSET (Queue \ Live),
             Return(r, expired)
      PROVE  /\ status' \in [Requests -> Statuses]
             /\ result' \in Requests \cup {None, NoCall}
             /\ Queue' \subseteq Queue
             /\ \A q \in Requests : status[q] # "dropped" /\ status'[q] = "dropped"
                  => q \in Queue /\ IsExpired(q)
  BY <1>2, ReturnType DEF Live, Queue, TypeOK
<1> QED BY <1>1, <1>2, PopStep

LEMMA FairKeeps ==
    ASSUME TypeOK, DequeueFair
    PROVE  TypeOK'
PROOF
<1> PICK m \in BestModels :
      \/ /\ Queued(m) = {}
         /\ result' = None
         /\ UNCHANGED <<status, tokens>>
      \/ \E r \in Least(Queued(m)) :
           /\ Return(r, {})
           /\ tokens' = [tokens EXCEPT ![m] = @ - Compute[r]]
  BY DEF DequeueFair
<1>1. UNCHANGED <<scheduler, born, counts, now, accepted>> /\ backlogged' \subseteq Models
  BY DEF DequeueFair, TypeOK
<1>2. CASE UNCHANGED <<status, tokens>> /\ result' = None
  BY <1>1, <1>2 DEF TypeOK
<1>3. ASSUME NEW r \in Least(Queued(m)), Return(r, {}),
             tokens' = [tokens EXCEPT ![m] = @ - Compute[r]]
      PROVE  TypeOK'
  <2>1. r \in Requests
    BY DEF Least, Queued, Queue
  <2>2. tokens' \in [Models -> Int]
    <3>1. tokens[m] - Compute[r] \in Int
      BY <2>1, SchedulerAssumption DEF TypeOK, BestModels
    <3> QED BY <1>3, <3>1 DEF TypeOK
  <2> QED BY <1>1, <1>3, <2>1, <2>2, ReturnType DEF TypeOK
<1> QED BY <1>2, <1>3

\* A step that queues nothing, counts nothing and accepts nothing.
LEMMA QuietStep ==
    ASSUME Inv, TypeOK', UNCHANGED <<scheduler, counts, accepted>>,
           scheduler = "priority" => Queue' \subseteq Queue
    PROVE  Inv'
PROOF
<1>1. CASE scheduler # "priority"
  BY <1>1 DEF Inv, CountsExact, AdmissionHeld
<1>2. CASE scheduler = "priority"
  <2>1. IsFiniteSet(Queue) /\ Queue' \subseteq Queue
    BY <1>2 DEF Inv, CountsExact
  <2>2. IsFiniteSet(Queue') /\ Cardinality(Queue') <= Cardinality(Queue)
        /\ Cardinality(Queue) \in Nat /\ Cardinality(Queue') \in Nat
    BY <2>1, FS_Subset, FS_CardinalityType
  <2>3. Cardinality(Queue') <= MaxQueue
    BY <1>2, <2>2, SchedulerAssumption DEF Inv, AdmissionHeld
  <2>4. CountsExact'
    BY <1>2, <2>2 DEF Inv, CountsExact
  <2>5. AdmissionHeld'
    BY <1>2, <2>3 DEF Inv, AdmissionHeld
  <2> QED BY <2>4, <2>5 DEF Inv
<1> QED BY <1>1, <1>2

\* Making a request queues nothing.
LEMMA ConstructKeeps ==
    ASSUME Inv, NEW r \in Requests, Construct(r)
    PROVE  Inv'
PROOF
<1>1. TypeOK'
  <2>1. status' \in [Requests -> Statuses] /\ born' \in [Requests -> 0..MaxTime]
    BY DEF Inv, TypeOK, Construct, Statuses
  <2> QED BY <2>1 DEF Inv, TypeOK, Construct
<1>2. Queue' \subseteq Queue
  BY DEF Inv, TypeOK, Construct, Queue
<1> QED BY <1>1, <1>2, QuietStep DEF Construct

LEMMA EnqueueKeeps ==
    ASSUME Inv, NEW r \in Requests, Enqueue(r)
    PROVE  Inv'
PROOF
<1> DEFINE over == User[r] # NoUser /\ counts[User[r]] >= Quota[User[r]]
           full == Cardinality(Queue) >= MaxQueue
<1>0. TypeOK /\ CountsExact /\ AdmissionHeld /\ scheduler = "priority"
      /\ status[r] # "queued"
      /\ UNCHANGED <<scheduler, born, tokens, now, backlogged>>
  BY DEF Inv, Enqueue, Offered, Refusals
<1>1. /\ status' = [status EXCEPT ![r] = IF full THEN "queue full"
                                        ELSE IF over THEN "over quota" ELSE "queued"]
      /\ result' = NoCall
      /\ counts' = IF Accepts(r) THEN [counts EXCEPT ![User[r]] = @ + 1] ELSE counts
      /\ accepted' = IF Accepts(r) THEN [accepted EXCEPT ![User[r]] = Append(@, now)]
                                   ELSE accepted
  BY DEF Enqueue, Settle, Note
<1> HIDE DEF over, full
<1>2. status' \in [Requests -> Statuses]
  BY <1>0, <1>1 DEF TypeOK, Statuses, Refusals
<1>3. CASE full \/ over
  <2>1. status'[r] \in Refusals /\ \A q \in Requests \ {r} : status'[q] = status[q]
    BY <1>0, <1>1, <1>3 DEF TypeOK, Refusals
  <2>2. counts' = counts /\ accepted' = accepted
    BY <1>1, <2>1 DEF Accepts, Refusals
  <2>3. Queue' = Queue
    BY <1>0, <2>1 DEF Queue, Refusals
  <2>4. TypeOK'
    BY <1>0, <1>1, <1>2, <2>2 DEF TypeOK
  <2> QED BY <1>0, <2>2, <2>3, <2>4, QuietStep
<1>4. CASE ~full /\ ~over
  <2>1. status'[r] = "queued" /\ \A q \in Requests \ {r} : status'[q] = status[q]
    BY <1>0, <1>1, <1>4 DEF TypeOK
  <2>2. Queue' = Queue \cup {r} /\ r \notin Queue /\ IsFiniteSet(Queue)
    BY <1>0, <2>1 DEF Queue, CountsExact
  <2>3. IsFiniteSet(Queue') /\ Cardinality(Queue') = Cardinality(Queue) + 1
    BY <2>2, FS_AddElement
  <2>4. Cardinality(Queue) \in Nat /\ Cardinality(Queue) < MaxQueue
    BY <2>2, <1>4, FS_CardinalityType, SchedulerAssumption DEF full
  <2>5. CASE User[r] = NoUser
    <3>1. counts' = counts /\ accepted' = accepted
      BY <1>1, <2>5 DEF Accepts
    <3>2. TypeOK'
      BY <1>0, <1>1, <1>2, <3>1 DEF TypeOK
    <3>3. CountsExact' /\ AdmissionHeld'
      BY <1>0, <2>3, <2>4, <3>1, SchedulerAssumption DEF CountsExact, AdmissionHeld
    <3> QED BY <3>2, <3>3 DEF Inv
  <2>6. CASE User[r] \in Users
    <3> DEFINE u == User[r]
    <3>1. u \in Users /\ u # NoUser /\ Quota[u] \in Nat
      BY <2>6, SchedulerAssumption
    <3>2. /\ counts[u] \in Nat /\ counts[u] < Quota[u] /\ counts[u] = Len(accepted[u])
          /\ accepted[u] \in Seq(0..MaxTime) /\ now \in 0..MaxTime
      BY <1>0, <1>4, <3>1 DEF over, TypeOK, CountsExact
    <3>3. counts' = [counts EXCEPT ![u] = counts[u] + 1]
          /\ accepted' = [accepted EXCEPT ![u] = Append(accepted[u], now)]
      BY <1>1, <2>1, <3>1 DEF Accepts
    <3> HIDE DEF u
    <3>4. Append(accepted[u], now) \in Seq(0..MaxTime)
          /\ Len(Append(accepted[u], now)) = counts[u] + 1
      BY <3>2
    <3>5. counts' \in [Users -> Nat] /\ accepted' \in [Users -> Seq(0..MaxTime)]
      BY <1>0, <3>1, <3>2, <3>3, <3>4 DEF TypeOK
    <3>6. \A v \in Users : counts'[v] = Len(accepted'[v]) /\ counts'[v] <= Quota[v]
      BY <1>0, <3>1, <3>2, <3>3, <3>4 DEF TypeOK, CountsExact
    <3>7. TypeOK'
      BY <1>0, <1>1, <1>2, <3>5, <3>6 DEF TypeOK
    <3>8. CountsExact'
      BY <2>3, <3>6 DEF CountsExact
    <3>9. AdmissionHeld'
      <4>1. Cardinality(Queue') <= MaxQueue
        BY <2>3, <2>4, SchedulerAssumption
      <4>2. \A v \in Users : Len(accepted'[v]) <= Quota[v]
        BY <3>6
      <4> QED BY <4>1, <4>2 DEF AdmissionHeld
    <3> QED BY <3>7, <3>8, <3>9 DEF Inv
  <2> QED BY <2>5, <2>6, SchedulerAssumption
<1> QED BY <1>3, <1>4

LEMMA InitInv == Init => Inv
PROOF
<1> SUFFICES ASSUME Init PROVE Inv
  OBVIOUS
<1>1. TypeOK
  BY SchedulerAssumption DEF Init, TypeOK, Statuses
<1>2. Queue = {} /\ \A u \in Users : Len(accepted[u]) = 0
  BY DEF Init, Queue
<1>3. IsFiniteSet({}) /\ Cardinality({}) = 0
  BY FS_EmptySet
<1>4. CountsExact
  BY <1>2, <1>3 DEF CountsExact, Init
<1>5. AdmissionHeld
  BY <1>2, <1>3, SchedulerAssumption DEF AdmissionHeld
<1> QED BY <1>1, <1>4, <1>5 DEF Inv

LEMMA NextInv == Inv /\ [Next]_vars => Inv'
PROOF
<1> SUFFICES ASSUME Inv, [Next]_vars PROVE Inv'
  OBVIOUS
<1>0. TypeOK
  BY DEF Inv
<1>1. ASSUME NEW r \in Requests, Construct(r) \/ Enqueue(r) PROVE Inv'
  BY <1>1, ConstructKeeps, EnqueueKeeps
<1>2. ASSUME NEW r \in Requests, EnqueueUnbounded(r) PROVE Inv'
  <2>1. TypeOK'
    BY <1>0, <1>2 DEF EnqueueUnbounded, Settle, TypeOK, Statuses, Refusals
  <2> QED BY <1>2, <2>1, QuietStep DEF EnqueueUnbounded
<1>3. CASE Dequeue \/ DequeueDeadline
  <2>1. PopUntilLive /\ UNCHANGED <<scheduler, born, counts, tokens, now, backlogged,
                                     accepted>>
    BY <1>3 DEF Dequeue, DequeueDeadline
  <2>2. TypeOK'
    BY <1>0, <2>1, PopKeeps DEF TypeOK
  <2> QED BY <1>0, <2>1, <2>2, PopKeeps, QuietStep
<1>4. CASE DequeueFair
  BY <1>0, <1>4, FairKeeps, QuietStep DEF DequeueFair
<1>5. CASE RefillTokens
  <2>1. TypeOK'
    BY <1>0, <1>5 DEF RefillTokens, TypeOK
  <2> QED BY <1>5, <2>1, QuietStep DEF RefillTokens
<1>6. CASE Tick
  <2>1. TypeOK'
    BY <1>0, <1>6, SchedulerAssumption DEF Tick, TypeOK
  <2>2. Queue' = Queue
    BY <1>6 DEF Tick, Queue
  <2> QED BY <1>6, <2>1, <2>2, QuietStep DEF Tick
<1>7. CASE UNCHANGED vars
  <2>1. TypeOK' /\ Queue' = Queue
    BY <1>0, <1>7 DEF vars, TypeOK, Queue
  <2> QED BY <1>7, <2>1, QuietStep DEF vars
<1> QED BY <1>1, <1>2, <1>3, <1>4, <1>5, <1>6, <1>7 DEF Next

LEMMA Invariance == Spec => []Inv
PROOF
<1> QED BY InitInv, NextInv, PTL DEF Spec

------------------------------------------------------------------------------
(* Theorems.                                                               *)

\* Every variable has its type, and no user's counter passes the quota.
THEOREM SchedulerTypeCorrect == Spec => []TypeOK
PROOF
<1>1. Inv => TypeOK
  BY DEF Inv
<1> QED BY <1>1, Invariance, PTL

\* RequestScheduler.enqueue keeps max_queue_size and every user's quota, for
\* any quotas and any order of calls.
THEOREM AdmissionKept == Spec => []AdmissionHeld
PROOF
<1>1. Inv => AdmissionHeld
  BY DEF Inv
<1> QED BY <1>1, Invariance, PTL

\* A dequeue drops a request only when its own timeout has passed, although it
\* pops requests one after another until one is live.
THEOREM DroppedHadExpired == Spec => OnlyExpiredDropped
PROOF
<1> DEFINE Step == \A r \in Requests :
                     status[r] # "dropped" /\ status'[r] = "dropped"
                       => now - born[r] > Timeout[r]
<1>1. TypeOK /\ [Next]_vars => [Step]_vars
  <2> SUFFICES ASSUME TypeOK, Next PROVE Step
    OBVIOUS
  <2>1. ASSUME PopUntilLive PROVE Step
    <3>1. ASSUME NEW q \in Requests, status[q] # "dropped", status'[q] = "dropped"
          PROVE  IsExpired(q)
      <4>1. q \in Queue /\ (IsExpired(q) \/ Live = {})
        BY <2>1, <3>1, PopKeeps
      <4> QED BY <4>1 DEF Live
    <3> QED BY <3>1 DEF IsExpired
  <2>2. ASSUME NEW r \in Requests, Construct(r) \/ Enqueue(r) \/ EnqueueUnbounded(r)
        PROVE  Step
    BY <2>2 DEF Construct, Enqueue, EnqueueUnbounded, Settle, TypeOK
  <2>3. CASE DequeueFair
    BY <2>3 DEF DequeueFair, Return, TypeOK
  <2>4. CASE RefillTokens \/ Tick
    BY <2>4 DEF RefillTokens, Tick
  <2> QED BY <2>1, <2>2, <2>3, <2>4 DEF Next, Dequeue, DequeueDeadline
<1> QED BY <1>1, SchedulerTypeCorrect, PTL DEF Spec, OnlyExpiredDropped

\* A dequeue comes back empty-handed only when nothing live waits, or when
\* dequeue_fair finds every model with work overdrawn.
THEOREM EmptyHandedExplained == Spec => []IdleOnlyIfOverdrawn
PROOF
<1>1. Init => IdleOnlyIfOverdrawn
  BY SchedulerAssumption DEF Init, IdleOnlyIfOverdrawn
<1>2. TypeOK /\ IdleOnlyIfOverdrawn /\ [Next]_vars => IdleOnlyIfOverdrawn'
  <2> SUFFICES ASSUME TypeOK, IdleOnlyIfOverdrawn, [Next]_vars
               PROVE  IdleOnlyIfOverdrawn'
    OBVIOUS
  <2>1. ASSUME PopUntilLive, now' = now, born' = born PROVE IdleOnlyIfOverdrawn'
    <3>1. CASE Live = {} /\ Return(None, Queue)
      <4>1. \A q \in Requests : status'[q] # "queued"
        BY <3>1, ReturnType, SchedulerAssumption DEF Queue
      <4>2. Live' = {}
        BY <4>1 DEF Live, Queue
      <4> QED BY <4>2 DEF IdleOnlyIfOverdrawn
    <3>2. CASE \E r \in Live, expired \in SUBSET (Queue \ Live) : Return(r, expired)
      <4>1. result' \in Requests
        BY <3>2 DEF Return, Live, Queue
      <4> QED BY <4>1, SchedulerAssumption DEF IdleOnlyIfOverdrawn
    <3> QED BY <2>1, <3>1, <3>2, PopStep
  <2>2. CASE DequeueFair
    <3>1. PICK m \in BestModels :
            \/ /\ Queued(m) = {}
               /\ result' = None
               /\ UNCHANGED <<status, tokens>>
            \/ \E r \in Least(Queued(m)) : Return(r, {})
      BY <2>2 DEF DequeueFair
    <3>2. CASE \E r \in Least(Queued(m)) : Return(r, {})
      <4>1. result' \in Requests
        BY <3>2 DEF Return, Least, Queued, Queue
      <4> QED BY <4>1, SchedulerAssumption DEF IdleOnlyIfOverdrawn
    <3>3. CASE Queued(m) = {} /\ UNCHANGED <<status, tokens>>
      <4>1. Score(m) = -1 /\ scheduler' = "fair"
        BY <2>2, <3>3 DEF Score, DequeueFair
      <4>2. ASSUME NEW r \in Live' PROVE tokens'[Model[r]] <= -1
        <5>1. r \in Requests /\ status[r] = "queued"
          BY <3>3 DEF Live, Queue
        <5>2. Model[r] \in Models /\ Queued(Model[r]) # {}
          BY <5>1, SchedulerAssumption DEF Queued, Queue
        <5>3. Score(m) >= Score(Model[r]) /\ Score(Model[r]) = tokens[Model[r]]
          BY <5>2 DEF BestModels, Score
        <5> QED BY <3>3, <4>1, <5>2, <5>3 DEF TypeOK
      <4> QED BY <4>1, <4>2 DEF IdleOnlyIfOverdrawn
    <3> QED BY <3>1, <3>2, <3>3
  <2>3. CASE RefillTokens \/ Tick \/ \E r \in Requests : \/ Construct(r) \/ Enqueue(r)
                                                     \/ EnqueueUnbounded(r)
    <3>1. result' = NoCall
      BY <2>3 DEF RefillTokens, Tick, Construct, Enqueue, EnqueueUnbounded, Settle
    <3> QED BY <3>1, SchedulerAssumption DEF IdleOnlyIfOverdrawn
  <2>4. CASE UNCHANGED vars
    BY <2>4 DEF vars, IdleOnlyIfOverdrawn, Live, Queue, IsExpired
  <2> QED BY <2>1, <2>2, <2>3, <2>4 DEF Next, Dequeue, DequeueDeadline
<1> QED BY <1>1, <1>2, SchedulerTypeCorrect, PTL DEF Spec

\* A dequeue_fair that serves a request of model m takes its cost from a model
\* that had at least as many tokens as any other with work.
LEMMA FairStep ==
    ASSUME TypeOK, FairShare, DequeueFair
    PROVE  FairShare'
PROOF
<1>1. PICK m \in BestModels :
        \/ UNCHANGED tokens
        \/ \E r \in Least(Queued(m)) : tokens' = [tokens EXCEPT ![m] = @ - Compute[r]]
  BY DEF DequeueFair
<1>2. backlogged' = {k \in backlogged : Queued(k) # {}} /\ backlogged \subseteq Models
  BY DEF DequeueFair, TypeOK
<1>3. CASE UNCHANGED tokens
  BY <1>2, <1>3 DEF FairShare
<1>4. ASSUME NEW r \in Least(Queued(m)), tokens' = [tokens EXCEPT ![m] = @ - Compute[r]]
      PROVE  FairShare'
  <2>1. r \in Requests /\ Compute[r] \in Nat /\ m \in Models /\ Queued(m) # {}
    BY SchedulerAssumption DEF Least, Queued, Queue, BestModels
  <2>2. \A k \in Models : tokens[k] \in Int
        /\ tokens'[k] = IF k = m THEN tokens[m] - Compute[r] ELSE tokens[k]
    BY <1>4 DEF TypeOK
  <2>3. \A k \in backlogged' : tokens[m] >= tokens[k]
    BY <1>2, <2>1 DEF BestModels, Score
  <2>4. \A q \in Requests : Compute[q] \in Nat
    BY SchedulerAssumption
  <2>5. ASSUME NEW k \in backlogged', NEW n \in backlogged'
        PROVE  \E q \in Requests : tokens'[k] - tokens'[n] <= Compute[q]
    <3>1. k \in Models /\ n \in Models
      BY <1>2
    <3>2. PICK q \in Requests : tokens[k] - tokens[n] <= Compute[q]
      BY <1>2 DEF FairShare
    <3>3. CASE n = m
      <4>1. tokens'[k] - tokens'[n] <= Compute[r]
        BY <2>1, <2>2, <2>3, <3>1, <3>3
      <4> QED BY <2>1, <4>1
    <3>4. CASE n # m
      <4>1. tokens'[k] - tokens'[n] <= tokens[k] - tokens[n]
        BY <2>1, <2>2, <3>1, <3>4
      <4>2. tokens'[k] \in Int /\ tokens'[n] \in Int
        BY <2>1, <2>2, <3>1
      <4>3. tokens'[k] - tokens'[n] <= Compute[q]
        BY <2>2, <2>4, <3>1, <3>2, <4>1, <4>2
      <4> QED BY <4>3
    <3> QED BY <3>3, <3>4
  <2> QED BY <2>5 DEF FairShare
<1> QED BY <1>1, <1>3, <1>4

\* Models that always had work have been served alike but for one request's
\* cost, for any costs, and whatever is enqueued and refilled in between.
THEOREM SharesFair == ASSUME Requests # {} PROVE Spec => []FairShare
PROOF
<1>1. Init => FairShare
  <2> SUFFICES ASSUME Init PROVE FairShare
    OBVIOUS
  <2>1. PICK r \in Requests : Compute[r] \in Nat
    BY SchedulerAssumption
  <2>2. \A m, n \in backlogged : tokens[m] - tokens[n] = 0
    BY DEF Init
  <2> QED BY <2>1, <2>2 DEF FairShare
<1>2. TypeOK /\ FairShare /\ [Next]_vars => FairShare'
  <2> SUFFICES ASSUME TypeOK, FairShare, [Next]_vars PROVE FairShare'
    OBVIOUS
  <2>1. CASE DequeueFair
    BY <2>1, FairStep
  <2>2. CASE RefillTokens
    <3>1. backlogged' = backlogged /\ backlogged \subseteq Models
      BY <2>2 DEF RefillTokens, TypeOK
    <3>2. \A m, n \in Models : tokens'[m] - tokens'[n] = tokens[m] - tokens[n]
      BY <2>2 DEF RefillTokens, TypeOK
    <3> QED BY <3>1, <3>2 DEF FairShare
  <2>3. CASE UNCHANGED <<tokens, backlogged>>
    BY <2>3 DEF FairShare
  <2> QED BY <2>1, <2>2, <2>3
    DEF Next, Construct, Enqueue, EnqueueUnbounded, Dequeue, DequeueDeadline, Tick, vars
<1> QED BY <1>1, <1>2, SchedulerTypeCorrect, PTL DEF Spec
=============================================================================
