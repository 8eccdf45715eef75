-------------------------- MODULE RequestScheduler --------------------------
(***************************************************************************)
(* The three schedulers of src/pystreamai/request_scheduler.py.  An        *)
(* application creates one of them (`scheduler') and enqueues and dequeues *)
(* from it: RequestScheduler by priority, with a bounded queue and user    *)
(* quotas; FairShareScheduler by model tokens; DeadlineScheduler by        *)
(* timeout.  Each keeps heaps, whose order among equal keys depends on     *)
(* their layout: any least element may be popped.  Requests keep coming:   *)
(* each member of Requests stands for a stream of objects with the same    *)
(* fields, of which one at a time is waiting or about to be enqueued.      *)
(***************************************************************************)
EXTENDS Integers, FiniteSets, Sequences

CONSTANTS Requests,    \* ScheduledRequest objects, or streams of them
          Priority,    \* their priority: 0 is the most urgent
          User,        \* their user_id, or NoUser
          Model,       \* their model_id
          Timeout,     \* their timeout_ms, in clock ticks
          Compute,     \* their estimated_compute_ms, in tokens
          Users, Models,
          Quota,       \* each user's quota: user_quotas, or its default
          MaxQueue,    \* max_queue_size
          Minute,      \* clock ticks per minute
          MaxTime,     \* bound: clock ticks explored
          MaxTokens,   \* bound: tokens or debt that models are explored with
          NoUser, None, NoCall

ASSUME SchedulerAssumption ==
    /\ Priority \in [Requests -> Nat]
    /\ User \in [Requests -> Users \cup {NoUser}]
    /\ Model \in [Requests -> Models]
    /\ Timeout \in [Requests -> Nat]
    /\ Compute \in [Requests -> Nat]
    /\ Quota \in [Users -> Nat]
    /\ {MaxQueue, Minute, MaxTime, MaxTokens} \subseteq Nat
    /\ NoUser \notin Users
    /\ None \notin Requests /\ NoCall \notin Requests \cup {None}

VARIABLES
    scheduler,   \* the class the application uses
    status,      \* what became of each request; the queued ones are the heap
    born,        \* ScheduledRequest.timestamp: set as the object is made
    counts,      \* request_counts["user:" + u]
    tokens,      \* FairShareScheduler.model_tokens
    now,         \* the clock
    result,      \* what the last call, if a dequeue, returned; else NoCall
    backlogged,  \* history: models with work at every dequeue_fair so far
    accepted     \* history: when RequestScheduler accepted each user's requests

vars == <<scheduler, status, born, counts, tokens, now, result, backlogged, accepted>>

Kinds     == {"priority", "fair", "deadline"}
Refusals  == {"queue full", "over quota"}
Statuses  == {"absent", "new", "queued", "served", "dropped"} \cup Refusals

Queue     == {r \in Requests : status[r] = "queued"}
Queued(m) == {r \in Queue : Model[r] = m}

\* A plausible bug: the clock is compared, not the time elapsed.
IsExpiredByClock(r) == now > Timeout[r]

\* elapsed_ms > timeout_ms
IsExpired(r) == now - born[r] > Timeout[r]
Live         == {r \in Queue : ~IsExpired(r)}

ByPriority(q, r) == Priority[q] < Priority[r]
ByTimeout(q, r)  == \/ Timeout[q] < Timeout[r]
                    \/ Timeout[q] = Timeout[r] /\ Priority[q] < Priority[r]

\* The order of the heap: ScheduledRequests compare by priority, and
\* DeadlineScheduler's entries are pairs (timeout_ms, request).
Before(q, r) == IF scheduler = "deadline" THEN ByTimeout(q, r)
                                          ELSE ByPriority(q, r)

\* What heappop may return from S.
Least(S) == {r \in S : \A q \in S : ~Before(q, r)}

Init ==
    /\ scheduler \in Kinds
    /\ status = [r \in Requests |-> "absent"]
    /\ born = [r \in Requests |-> 0]
    /\ counts = [u \in Users |-> 0]
    /\ tokens = [m \in Models |-> 1]
    /\ now = 0
    /\ result = NoCall
    /\ backlogged = Models
    /\ accepted = [u \in Users |-> <<>>]

------------------------------------------------------------------------------
(* Making and enqueueing requests.                                         *)

\* ScheduledRequest(...): its timestamp is the time of construction.
Construct(r) ==
    /\ status[r] \notin {"new", "queued"}
    /\ status' = [status EXCEPT ![r] = "new"]
    /\ born' = [born EXCEPT ![r] = now]
    /\ result' = NoCall
    /\ UNCHANGED <<scheduler, counts, tokens, now, backlogged, accepted>>

\* A request that was refused may be offered again.
Offered(r) == status[r] \in {"new"} \cup Refusals

Settle(r, s) == /\ status' = [status EXCEPT ![r] = s]
                /\ result' = NoCall

\* r is queued and its user noted.
Accepts(r) == status'[r] = "queued" /\ User[r] # NoUser
Note(r)    == accepted' = IF Accepts(r)
                          THEN [accepted EXCEPT ![User[r]] = Append(@, now)]
                          ELSE accepted

\* A plausible bug (the one the code's note says it had): the key that
\* _check_user_quota reads is never written.
EnqueueUncounted(r) ==
    /\ scheduler = "priority"
    /\ Offered(r)
    /\ LET overQuota == User[r] # NoUser /\ counts[User[r]] >= Quota[User[r]]
       IN  Settle(r, IF Cardinality(Queue) >= MaxQueue THEN "queue full"
                     ELSE IF overQuota THEN "over quota" ELSE "queued")
    /\ Note(r)
    /\ UNCHANGED <<scheduler, born, counts, tokens, now, backlogged>>

\* A plausible bug: a user is over quota one request too late.
EnqueueLateQuota(r) ==
    /\ scheduler = "priority"
    /\ Offered(r)
    /\ LET overQuota == User[r] # NoUser /\ counts[User[r]] > Quota[User[r]]
       IN  Settle(r, IF Cardinality(Queue) >= MaxQueue THEN "queue full"
                     ELSE IF overQuota THEN "over quota" ELSE "queued")
    /\ counts' = IF Accepts(r) THEN [counts EXCEPT ![User[r]] = @ + 1] ELSE counts
    /\ Note(r)
    /\ UNCHANGED <<scheduler, born, tokens, now, backlogged>>

\* RequestScheduler.enqueue: refused when the queue is full, then when the
\* user's quota is used up; otherwise queued and counted.
Enqueue(r) ==
    /\ scheduler = "priority"
    /\ Offered(r)
    /\ LET overQuota == User[r] # NoUser /\ counts[User[r]] >= Quota[User[r]]
       IN  Settle(r, IF Cardinality(Queue) >= MaxQueue THEN "queue full"
                     ELSE IF overQuota THEN "over quota" ELSE "queued")
    /\ counts' = IF Accepts(r) THEN [counts EXCEPT ![User[r]] = @ + 1] ELSE counts
    /\ Note(r)
    /\ UNCHANGED <<scheduler, born, tokens, now, backlogged>>

\* FairShareScheduler.enqueue (of a known model) and DeadlineScheduler.enqueue.
EnqueueUnbounded(r) ==
    /\ scheduler \in {"fair", "deadline"}
    /\ Offered(r)
    /\ Settle(r, "queued")
    /\ UNCHANGED <<scheduler, born, counts, tokens, now, backlogged, accepted>>

------------------------------------------------------------------------------
(* Dequeueing.                                                             *)

\* r is returned and the requests in `expired', popped before it, are dropped.
Return(r, expired) ==
    /\ status' = [q \in Requests |-> IF q = r THEN "served"
                                     ELSE IF q \in expired THEN "dropped"
                                     ELSE status[q]]
    /\ result' = r

\* A plausible bug: `break' in the place of `continue' at an expired request.
PopOnce ==
    \/ Queue = {} /\ Return(None, {})
    \/ \E r \in Least(Queue) :
         IF IsExpired(r) THEN Return(None, {r}) ELSE Return(r, {})

\* `while self.queue: pop; if expired: continue; return': the least live
\* request is returned; expired ones that sort before it are dropped, and
\* expired ones with the same key may be.
PopUntilLive ==
    \/ Live = {} /\ Return(None, Queue)
    \/ \E r \in Least(Live) :
         LET expired == Queue \ Live
             sooner  == {q \in expired : Before(q, r)}
             level   == {q \in expired : ~Before(q, r) /\ ~Before(r, q)}
         IN  \E also \in SUBSET level : Return(r, sooner \cup also)

\* RequestScheduler.dequeue
Dequeue ==
    /\ scheduler = "priority"
    /\ PopUntilLive
    /\ UNCHANGED <<scheduler, born, counts, tokens, now, backlogged, accepted>>

\* DeadlineScheduler.dequeue
DequeueDeadline ==
    /\ scheduler = "deadline"
    /\ PopUntilLive
    /\ UNCHANGED <<scheduler, born, counts, tokens, now, backlogged, accepted>>

\* The key of `max' in dequeue_fair: an empty queue counts as -1 tokens.
Score(m) == IF Queued(m) # {} THEN tokens[m] ELSE -1

\* A plausible bug: any model with work is served, whatever its tokens.
AnyWaitingModel == {m \in Models : Queued(m) # {}}

\* A plausible bug: models without work are not told apart.
MostTokens == {m \in Models : \A n \in Models : tokens[m] >= tokens[n]}

BestModels == {m \in Models : \A n \in Models : Score(m) >= Score(n)}

\* FairShareScheduler.dequeue_fair: nothing is returned if the best model has
\* no work; expiry is not looked at.
DequeueFair ==
    /\ scheduler = "fair"
    /\ \E m \in BestModels :
         \/ /\ Queued(m) = {}
            /\ result' = None
            /\ UNCHANGED <<status, tokens>>
         \/ \E r \in Least(Queued(m)) :
              /\ tokens[m] - Compute[r] >= -MaxTokens
              /\ Return(r, {})
              /\ tokens' = [tokens EXCEPT ![m] = @ - Compute[r]]
    /\ backlogged' = {m \in backlogged : Queued(m) # {}}
    /\ UNCHANGED <<scheduler, born, counts, now, accepted>>

\* FairShareScheduler.refill_tokens
RefillTokens ==
    /\ scheduler = "fair"
    /\ \A m \in Models : tokens[m] < MaxTokens
    /\ tokens' = [m \in Models |-> tokens[m] + 1]
    /\ result' = NoCall
    /\ UNCHANGED <<scheduler, status, born, counts, now, backlogged, accepted>>

\* Time matters to the schedulers that look at it.
Tick ==
    /\ scheduler \in {"priority", "deadline"}
    /\ now < MaxTime
    /\ now' = now + 1
    /\ result' = NoCall
    /\ UNCHANGED <<scheduler, status, born, counts, tokens, backlogged, accepted>>

------------------------------------------------------------------------------
Next == \/ \E r \in Requests : Construct(r) \/ Enqueue(r) \/ EnqueueUnbounded(r)
        \/ Dequeue \/ DequeueDeadline \/ DequeueFair
        \/ RefillTokens
        \/ Tick

Spec == Init /\ [][Next]_vars

\* The application keeps dequeueing and, as refill_tokens's docstring asks,
\* refills tokens periodically.
FairSpec == /\ Spec
            /\ WF_vars(Dequeue) /\ WF_vars(DequeueDeadline)
            /\ SF_vars(DequeueFair) /\ WF_vars(RefillTokens)

------------------------------------------------------------------------------
(* Properties.                                                             *)

\* Every variable has its type, and the counters that quotas are checked
\* against stay within them.
TypeOK ==
    /\ scheduler \in Kinds
    /\ status \in [Requests -> Statuses]
    /\ born \in [Requests -> 0..MaxTime]
    /\ counts \in [Users -> Nat]
    /\ \A u \in Users : counts[u] <= Quota[u]
    /\ tokens \in [Models -> Int]
    /\ now \in 0..MaxTime
    /\ result \in Requests \cup {None, NoCall}
    /\ backlogged \subseteq Models
    /\ accepted \in [Users -> Seq(0..MaxTime)]

\* RequestScheduler never holds more than max_queue_size requests, and over its
\* whole life accepts no more requests of a user than the user's quota (see
\* QuotaIsPerMinute): refused, dropped and dequeued ones leave both right.
AdmissionHeld ==
    scheduler = "priority" =>
      /\ Cardinality(Queue) <= MaxQueue
      /\ \A u \in Users : Len(accepted[u]) <= Quota[u]

\* A request is dropped from a queue only once its own timeout has passed.
OnlyExpiredDropped ==
    [][\A r \in Requests :
         status[r] # "dropped" /\ status'[r] = "dropped"
           => now - born[r] > Timeout[r]]_vars

\* dequeue returns None only if nothing unexpired waits.  dequeue_fair may
\* also do so while requests wait, but only if every model with work has
\* overdrawn its tokens to -1 or less.
IdleOnlyIfOverdrawn ==
    result = None =>
      \A r \in Live : scheduler = "fair" /\ tokens[Model[r]] <= -1

\* Models that have had work at every dequeue_fair share the server fairly:
\* what they have left differs by no more than one request.
FairShare ==
    \A m, n \in backlogged :
      \E r \in Requests : tokens[m] - tokens[n] <= Compute[r]

\* q is a request that r has to wait for: it does not sort after r, and
\* dequeue_fair would take it from r's own queue.
Rival(q, r) == /\ ~Before(r, q)
               /\ scheduler = "fair" => Model[q] = Model[r]

\* No more refills are explored, and they have not brought r's model back.
RefillsEnd(r) == /\ scheduler = "fair" /\ tokens[Model[r]] <= -1
                 /\ \E m \in Models : tokens[m] >= MaxTokens

\* If the application keeps dequeueing and refilling, only rivals that keep
\* coming make a request wait for ever: in particular, models share the
\* server, and one that is overdrawn is served again.
WaitsOnlyForRivals ==
    \A r \in Requests :
      <>[](status[r] = "queued") =>
        \/ []<>(\E q \in Requests : result = q /\ Rival(q, r))
        \/ <>[]RefillsEnd(r)

\* DeadlineScheduler.dequeue: "Dequeue earliest deadline request".
EarliestDeadlineFirst ==
    [][scheduler = "deadline" /\ result' \in Requests /\ result' # result
         => \A r \in Live :
              born[result'] + Timeout[result'] <= born[r] + Timeout[r]]_vars

\* A user is over quota only for having had that many requests accepted in
\* the last minute: quotas are "req/min".
QuotaIsPerMinute ==
    [][\A r \in Requests :
         status[r] # "over quota" /\ status'[r] = "over quota" =>
           LET times == accepted[User[r]]
           IN  Cardinality({i \in DOMAIN times : now - times[i] < Minute})
                 >= Quota[User[r]]]_vars
=============================================================================
