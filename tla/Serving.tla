------------------------------- MODULE Serving -------------------------------
(***************************************************************************)
(* The asyncio inference server of src/pystreamai/serving.py: concurrent   *)
(* calls of InferenceServer.predict share one BatchQueue; each call adds   *)
(* its request and polls; whichever call finds the batch ready flushes it, *)
(* runs every request in it and publishes the results to                   *)
(* InferenceEngine._results, from which every call takes its own.          *)
(*                                                                         *)
(* Every call is a coroutine, identified by its request (the request id is *)
(* a fresh uuid).  A step is the code between two points at which the      *)
(* coroutine can be suspended or the shared state can change under it.     *)
(* `running' is the coroutine the event loop is inside of.  With           *)
(* LockYields = FALSE, which is asyncio, an uncontended asyncio.Lock is    *)
(* acquired without suspending, and as no critical section awaits the      *)
(* locks are never contended: only asyncio.sleep gives up the loop.  With  *)
(* LockYields = TRUE every `await' of a locked section may hand the loop   *)
(* to another coroutine: what holds then does not rest on that subtlety.   *)
(***************************************************************************)
EXTENDS Naturals, Sequences, Functions

CONSTANTS Requests,     \* the calls of predict, each with a request of its own
          Models,       \* the model ids
          ModelOf,      \* ModelOf[r]: the model id request r names
          MaxBatch,     \* BatchQueue.max_batch_size
          MaxWait,      \* BatchQueue.max_wait_ms, in clock ticks
          MaxLoads,     \* bound: loads of one model explored
          Cancellable,  \* the calls whose task may be cancelled
          LockYields,   \* whether acquiring a lock may suspend the coroutine
          Idle,         \* "no coroutine is running"
          NoResult      \* "no entry" in a dict of results

Outcomes == [ok : BOOLEAN, ver : Nat]

\* Being cancelled at a lock is not modelled: it needs a lock that suspends.
ASSUME ServingAssumption ==
    /\ ModelOf \in [Requests -> Models]
    /\ MaxBatch \in Nat \ {0}
    /\ MaxWait \in Nat
    /\ MaxLoads \in Nat
    /\ Cancellable \subseteq Requests
    /\ LockYields \in BOOLEAN
    /\ LockYields => Cancellable = {}
    /\ Idle \notin Requests
    /\ NoResult \notin Outcomes

VARIABLES
    pc,        \* where each call is
    running,   \* the coroutine the event loop is executing, or Idle
    queue,     \* BatchQueue.queue
    armed,     \* whether BatchQueue.first_request_time is set
    waited,    \* time.time() - first_request_time, in ticks: 0 for what is
               \* negative, MaxWait for what is longer
    batch,     \* batch[r]: the local `batch' of call r while it runs it
    out,       \* out[r]: the local `results' of _run_batch_inference
    results,   \* InferenceEngine._results
    cache,     \* ModelCache.models: which load of m is cached, 0 = none
    loads,     \* history: how many calls of load_model for m have returned
    reply,     \* what predict returned (ok) or raised (not ok)
    log,       \* InferenceServer.request_log
    floor      \* history: loads[ModelOf[r]] when r was submitted

queueVars == <<queue, armed, waited>>
locals    == <<batch, out>>
modelVars == <<cache, loads>>
answers   == <<reply, log>>
vars == <<pc, running, queueVars, locals, results, modelVars, answers, floor>>

Locations == {"new", "loop", "check", "flush", "run", "publish", "sleep",
              "answered", "cancelled"}
Suspended == {"new", "sleep", "answered", "cancelled"}  \* no longer on the loop
AtLock    == {"check", "flush", "run"}                  \* about to await a lock
Empty     == [r \in Requests |-> NoResult]

Init ==
    /\ pc = [r \in Requests |-> "new"]
    /\ running = Idle
    /\ queue = <<>>
    /\ armed = FALSE
    /\ waited = 0
    /\ batch = [r \in Requests |-> <<>>]
    /\ out = [r \in Requests |-> Empty]
    /\ results = Empty
    /\ cache = [m \in Models |-> 0]
    /\ loads = [m \in Models |-> 0]
    /\ reply = Empty
    /\ log = <<>>
    /\ floor = [r \in Requests |-> 0]

------------------------------------------------------------------------------
(* The event loop.                                                         *)

CanRun(r) == running \in {Idle, r}

\* Call r goes on to `next', keeping the loop unless it is suspended there.
Goto(r, next) ==
    /\ pc' = [pc EXCEPT ![r] = next]
    /\ running' = IF next \in Suspended \/ (LockYields /\ next \in AtLock)
                  THEN Idle ELSE r

------------------------------------------------------------------------------
(* The steps of predict and infer.                                         *)

\* InferenceServer.predict builds the request and infer adds it to the queue;
\* the first request of a batch starts the batch's clock.
Predict(r) ==
    /\ pc[r] = "new" /\ CanRun(r)
    /\ queue' = Append(queue, r)
    /\ armed' = TRUE
    /\ waited' = IF queue = <<>> THEN 0 ELSE waited
    /\ floor' = [floor EXCEPT ![r] = loads[ModelOf[r]]]
    /\ Goto(r, "loop")
    /\ UNCHANGED <<locals, results, modelVars, answers>>

\* `while request_id not in self._results': not there yet.
Poll(r) ==
    /\ pc[r] = "loop" /\ CanRun(r)
    /\ results[r] = NoResult
    /\ Goto(r, "check")
    /\ UNCHANGED <<queueVars, locals, results, modelVars, answers, floor>>

\* A plausible bug: a batch of MaxBatch requests is not yet full.
LateBatchReady ==
    /\ queue # <<>>
    /\ Len(queue) > MaxBatch \/ (armed /\ waited >= MaxWait)

\* A plausible bug: only a full batch is flushed.
FullBatchReady == Len(queue) >= MaxBatch

BatchReady ==
    /\ queue # <<>>
    /\ Len(queue) >= MaxBatch \/ (armed /\ waited >= MaxWait)

ShouldFlush(r) ==
    /\ pc[r] = "check" /\ CanRun(r)
    /\ Goto(r, IF BatchReady THEN "flush" ELSE "sleep")
    /\ UNCHANGED <<queueVars, locals, results, modelVars, answers, floor>>

\* asyncio.sleep(0.01) is over and the loop resumes the coroutine.
Wake(r) ==
    /\ pc[r] = "sleep" /\ running = Idle
    /\ Goto(r, "loop")
    /\ UNCHANGED <<queueVars, locals, results, modelVars, answers, floor>>

\* A plausible bug: `if batch' is dropped, and an empty batch is run.
UnguardedFlush(r) ==
    /\ pc[r] = "flush" /\ CanRun(r)
    /\ batch' = [batch EXCEPT ![r] = queue]
    /\ queue' = <<>>
    /\ armed' = FALSE
    /\ waited' = 0
    /\ Goto(r, "run")
    /\ UNCHANGED <<out, results, modelVars, answers, floor>>

\* A plausible bug: the queue is copied and not reset.
FlushKeepsQueue(r) ==
    /\ pc[r] = "flush" /\ CanRun(r)
    /\ batch' = [batch EXCEPT ![r] = queue]
    /\ queue' = queue
    /\ armed' = FALSE
    /\ waited' = 0
    /\ Goto(r, IF queue = <<>> THEN "loop" ELSE "run")
    /\ UNCHANGED <<out, results, modelVars, answers, floor>>

\* The whole queue becomes r's batch; an empty one is not run.
Flush(r) ==
    /\ pc[r] = "flush" /\ CanRun(r)
    /\ batch' = [batch EXCEPT ![r] = queue]
    /\ queue' = <<>>
    /\ armed' = FALSE
    /\ waited' = 0
    /\ Goto(r, IF queue = <<>> THEN "loop" ELSE "run")
    /\ UNCHANGED <<out, results, modelVars, answers, floor>>

\* Positions of r's batch that have no result yet, and the requests there.
Unserved(r) == {i \in DOMAIN batch[r] : out[r][batch[r][i]] = NoResult}
Left(r)     == {batch[r][i] : i \in Unserved(r)}

\* by_model keeps the order in which models first occur in the batch.
NextModel(r) ==
    ModelOf[batch[r][CHOOSE i \in Unserved(r) : \A j \in Unserved(r) : i <= j]]

\* A plausible bug: the cache is read once per request, not once per model.
OneByOne(r) ==
    {batch[r][CHOOSE i \in Unserved(r) : \A j \in Unserved(r) : i <= j]}

\* The requests of the next model's group.
Group(r) == {q \in Range(batch[r]) : ModelOf[q] = NextModel(r)}

\* One pass of _run_batch_inference's loop over by_model: the model is read
\* from the cache once, then every request of the group is predicted; a
\* request fails if no model is loaded or its own predict() raises.
RunGroup(r) ==
    /\ pc[r] = "run" /\ CanRun(r)
    /\ \E raised \in SUBSET Group(r) :
         LET v == cache[NextModel(r)]
         IN  out' = [out EXCEPT ![r] = [q \in Requests |->
                       IF q \in Group(r)
                       THEN [ok |-> v > 0 /\ q \notin raised, ver |-> v]
                       ELSE out[r][q]]]
    /\ Goto(r, IF Left(r) \subseteq Group(r) THEN "publish" ELSE "run")
    /\ UNCHANGED <<queueVars, batch, results, modelVars, answers, floor>>

\* A plausible bug: `self._results = batch_results' in the place of update.
Overwrite(r) ==
    /\ pc[r] = "publish" /\ CanRun(r)
    /\ results' = out[r]
    /\ batch' = [batch EXCEPT ![r] = <<>>]
    /\ out' = [out EXCEPT ![r] = Empty]
    /\ Goto(r, "loop")
    /\ UNCHANGED <<queueVars, modelVars, answers, floor>>

\* self._results.update(batch_results); the locals go out of use.
Publish(r) ==
    /\ pc[r] = "publish" /\ CanRun(r)
    /\ results' = [q \in Requests |->
                     IF out[r][q] # NoResult THEN out[r][q] ELSE results[q]]
    /\ batch' = [batch EXCEPT ![r] = <<>>]
    /\ out' = [out EXCEPT ![r] = Empty]
    /\ Goto(r, "loop")
    /\ UNCHANGED <<queueVars, modelVars, answers, floor>>

\* A plausible bug: the request is logged whether or not it succeeded.
LogEverything(r) ==
    /\ pc[r] = "loop" /\ CanRun(r)
    /\ results[r] # NoResult
    /\ reply' = [reply EXCEPT ![r] = results[r]]
    /\ results' = [results EXCEPT ![r] = NoResult]
    /\ log' = Append(log, r)
    /\ Goto(r, "answered")
    /\ UNCHANGED <<queueVars, locals, modelVars, floor>>

\* A plausible bug: the result is read and not popped.
KeepResult(r) ==
    /\ pc[r] = "loop" /\ CanRun(r)
    /\ results[r] # NoResult
    /\ reply' = [reply EXCEPT ![r] = results[r]]
    /\ log' = IF results[r].ok THEN Append(log, r) ELSE log
    /\ Goto(r, "answered")
    /\ UNCHANGED <<queueVars, locals, results, modelVars, floor>>

\* The result is popped; an error is raised, and only a success is logged.
Answer(r) ==
    /\ pc[r] = "loop" /\ CanRun(r)
    /\ results[r] # NoResult
    /\ reply' = [reply EXCEPT ![r] = results[r]]
    /\ results' = [results EXCEPT ![r] = NoResult]
    /\ log' = IF results[r].ok THEN Append(log, r) ELSE log
    /\ Goto(r, "answered")
    /\ UNCHANGED <<queueVars, locals, modelVars, floor>>

------------------------------------------------------------------------------
(* The environment: cancellation, model loading, the clock.                *)

\* The task awaiting predict is cancelled while it sleeps: its request stays
\* in the queue, or its result in _results, with nobody left to take it.
Cancel(r) ==
    /\ r \in Cancellable
    /\ pc[r] = "sleep" /\ running = Idle
    /\ Goto(r, "cancelled")
    /\ UNCHANGED <<queueVars, locals, results, modelVars, answers, floor>>

\* A plausible bug: models.setdefault(...), so that a reload changes nothing
\* while load_model still returns.
LoadOnce(m) ==
    /\ running = Idle
    /\ loads[m] < MaxLoads
    /\ loads' = [loads EXCEPT ![m] = @ + 1]
    /\ cache' = [cache EXCEPT ![m] = IF @ = 0 THEN loads'[m] ELSE @]
    /\ UNCHANGED <<pc, running, queueVars, locals, results, answers, floor>>

\* InferenceServer.load_model with a model Endpoint accepts: the cached
\* Endpoint is replaced.  (A rejected one raises before the lock: no change.)
LoadModel(m) ==
    /\ running = Idle
    /\ loads[m] < MaxLoads
    /\ loads' = [loads EXCEPT ![m] = @ + 1]
    /\ cache' = [cache EXCEPT ![m] = loads'[m]]
    /\ UNCHANGED <<pc, running, queueVars, locals, results, answers, floor>>

\* time.time() advances, also while a coroutine runs.
Tick ==
    /\ armed /\ waited < MaxWait
    /\ waited' = waited + 1
    /\ UNCHANGED <<pc, running, queue, armed, locals, results, modelVars, answers, floor>>

\* time.time() is set back: it is the wall clock.
SetBack ==
    /\ armed
    /\ \E w \in 0..MaxWait : w < waited /\ waited' = w
    /\ UNCHANGED <<pc, running, queue, armed, locals, results, modelVars, answers, floor>>

------------------------------------------------------------------------------
Step(r) == \/ Poll(r) \/ ShouldFlush(r) \/ Wake(r) \/ Flush(r)
           \/ RunGroup(r) \/ Publish(r) \/ Answer(r)

Next == \/ \E r \in Requests : Predict(r) \/ Step(r) \/ Cancel(r)
        \/ \E m \in Models : LoadModel(m)
        \/ Tick \/ SetBack

Spec == Init /\ [][Next]_vars

\* The event loop resumes every coroutine that is ready again and again (its
\* ready queue is first in, first out, and timers fire), although each is
\* kept waiting whenever another runs; and time passes, and is not set back for
\* ever.
Fairness == /\ \A r \in Requests : SF_vars(Step(r))
            /\ WF_vars(Tick)
            /\ <>[][~SetBack]_vars

FairSpec == Spec /\ Fairness

------------------------------------------------------------------------------
(* Properties.                                                             *)

InQueue(r)   == r \in Range(queue)
InBatch(r)   == \E q \in Requests : r \in Range(batch[q])
InResults(r) == results[r] # NoResult

\* Every variable has its type, and the locals of a call are in use exactly
\* while it runs a batch: infer (lines 189-196) runs no empty batch.
TypeOK ==
    /\ pc \in [Requests -> Locations]
    /\ running \in Requests \cup {Idle}
    /\ running # Idle => pc[running] \notin Suspended
    /\ queue \in Seq(Requests)
    /\ armed \in BOOLEAN
    /\ waited \in 0..MaxWait
    /\ batch \in [Requests -> Seq(Requests)]
    /\ out \in [Requests -> [Requests -> Outcomes \cup {NoResult}]]
    /\ \A r \in Requests : batch[r] # <<>> <=> pc[r] \in {"run", "publish"}
    /\ results \in [Requests -> Outcomes \cup {NoResult}]
    /\ cache \in [Models -> Nat]
    /\ loads \in [Models -> Nat]
    /\ reply \in [Requests -> Outcomes \cup {NoResult}]
    /\ log \in Seq(Requests)
    /\ floor \in [Requests -> Nat]

\* The queue and every batch hold a request at most once, and no two batches
\* hold the same one.
NoDuplicates ==
    /\ IsInjective(queue)
    /\ \A q \in Requests : IsInjective(batch[q])
    /\ \A p, q \in Requests :
         Range(batch[p]) \cap Range(batch[q]) # {} => p = q

\* r is in exactly one place while somebody may wait for it, and then in none.
InOnePlace(r) ==
    IF pc[r] \in {"new", "answered"}
    THEN ~InQueue(r) /\ ~InBatch(r) /\ ~InResults(r)
    ELSE /\ InQueue(r) \/ InBatch(r) \/ InResults(r)
         /\ ~(InQueue(r) /\ InBatch(r))
         /\ ~(InQueue(r) /\ InResults(r))
         /\ ~(InBatch(r) /\ InResults(r))

\* No request is lost or served twice: from the moment it is added until its
\* caller has taken its result, a request is in exactly one of the queue, one
\* running batch (once) and _results; afterwards it is in none.  One whose
\* caller was cancelled stays where nobody takes it from: this is the only
\* way _results can keep an entry.
NoRequestLost == NoDuplicates /\ \A r \in Requests : InOnePlace(r)

\* The results computed so far in a call's batch are of requests in it, and it
\* publishes once every request in it has one.
BatchProgress ==
    \A p, q \in Requests :
      /\ out[p][q] # NoResult => q \in Range(batch[p])
      /\ pc[p] = "publish" /\ q \in Range(batch[p]) => out[p][q] # NoResult

\* On asyncio no batch is larger than max_batch_size, although flush takes
\* the whole queue: the call that fills the queue flushes it before any other
\* call can add to it.
BatchBounded ==
    ~LockYields => \A r \in Requests : Len(batch[r]) <= MaxBatch

\* The requests of one batch that name one model are all served by the same
\* load of it, even when load_model runs while the batch does.
OneVersionPerGroup ==
    \A r, p, q \in Requests :
      /\ ModelOf[p] = ModelOf[q]
      /\ out[r][p] # NoResult
      /\ out[r][q] # NoResult
      => out[r][p].ver = out[r][q].ver

\* A call made after load_model returned is never answered by an older model,
\* nor told that no model is loaded, however long it waited in a batch that
\* somebody else runs.
FreshAnswers ==
    \A r \in Requests :
      reply[r] # NoResult => reply[r].ver \in floor[r] .. loads[ModelOf[r]]

\* get_stats and health_check count request_log: it holds each call that
\* predict answered with an output, once, and no failed or pending one.
StatsCountAnswers ==
    /\ IsInjective(log)
    /\ Range(log) = {r \in Requests : reply[r] # NoResult /\ reply[r].ok}

\* What executing r gave, wherever it is by now.
Outcome(r) ==
    IF reply[r] # NoResult THEN reply[r]
    ELSE IF results[r] # NoResult THEN results[r]
    ELSE IF \E q \in Requests : out[q][r] # NoResult
         THEN out[CHOOSE q \in Requests : out[q][r] # NoResult][r]
    ELSE NoResult

\* An outcome, once computed, is neither lost nor replaced: not by another
\* batch publishing at the same time, nor by its caller being cancelled.
OutcomeStable ==
    [][\A r \in Requests : Outcome(r) # NoResult => Outcome(r)' = Outcome(r)]_vars

\* Every call of predict returns or raises, unless its task is cancelled,
\* whichever call ends up running its batch.
EveryCallAnswered ==
    \A r \in Requests :
      pc[r] # "new" ~> pc[r] \in {"answered", "cancelled"}

\* The server implements the service of RequestService.
Caller(r) ==
    CASE pc[r] = "new"       -> "new"
      [] pc[r] = "answered"  -> "answered"
      [] pc[r] = "cancelled" -> "gone"
      [] OTHER               -> "waiting"

Service == INSTANCE RequestService WITH
             caller  <- [r \in Requests |-> Caller(r)],
             outcome <- [r \in Requests |-> Outcome(r)],
             loaded  <- loads

\* Each call is executed at most once, in one instant, against the model
\* loaded at that instant, and receives that outcome.
ImplementsService == Service!Spec
=============================================================================
