# PyStreamAI in TLA+

TLA+ specifications of the stateful parts of PyStreamAI, TLC configurations that
check them on small instances, and TLAPS proofs of what matters most about them.
Line numbers refer to `src/pystreamai/*.py` and `src/src/*.rs`.

    tlc -config serving_asyncio.cfg MCServing.tla      # model-check a run
    tlapm Serving_proofs.tla                           # check the proofs of a module

## The system

PyStreamAI is a Python package for serving models, with a Rust extension. Its
parts share little: most are classes that an application creates and calls. The
one that runs concurrently inside the package is the inference server.

| part | state | operations | correct when |
|---|---|---|---|
| Inference server, `serving.py` | batch queue and its clock, model cache, `_results`, request log | `predict` (add, poll, flush, run, publish, take), `load_model` | no request lost, doubled or answered from a stale model; batches bounded; every call answered; statistics count answers |
| HTTP API, `api.py` | a server with one model | `POST /predict`, health, statistics | clients are told what happened, and what is counted is what they were told |
| Deployment manager, `deployment.py` | deployments, active version, canary, A/B test | deploy, canary, promote, rollback, A/B test, route | requests go to deployed versions; the active version moves by promotion only |
| Schedulers, `request_scheduler.py` | heaps, user counters, model tokens | enqueue, dequeue, refill | bounds and quotas hold; only expired requests dropped; fair shares; progress |
| Hot reload, `hot_reload.py` | versions, current version, watcher threads | load, activate, watch | always a loaded current version; updates of the file are served |
| Platform, `platform.py`, `decorators.py` | jobs, endpoints, artifacts on disk | train, serve | a job reports its own outcome; ids do not collide |
| Caches, `advanced_caching.py` | result, semantic and embedding caches | get, set, invalidate | nothing served after invalidation; size accounting |
| LLM engine, `llm_optimization.py` | page table, prompt cache, speculative decoder | allocate, deallocate, generate | pages owned by one request and returned; recent prompts are found; counters count |
| Cost tracking, `cost_tracking.py` | daily costs, blocked latch | record, should_allow, reset | no request above the budget |
| Model registry clients, `model_registry.py` | tracker's experiment and run, MLflow's own | start, log, end | a version is registered with the run that trained it |
| Monitoring, `monitoring.py`, `observability.py` | metrics, a backend, process-wide instruments | log, set backend | a metric is recorded once |
| Dashboard, `dashboard.py` | latencies, errors, sums per model | record, clear, alerts | no alert is missed when old data is cleared |
| Memory pools, `memory_manager.rs` | buffers, used megabytes, in 32 bits | allocate, deallocate, clear | never above the limit; counters do not drift |
| Batching and streaming, `inference.rs`, `streaming.rs`, `gpu.rs` | queues, counters | add, next batch, push, pop | order and bounds |
| Bookkeeping, `scheduler.rs`, `executor.rs`, `storage.rs`, `backend.rs`, `lib.rs` | maps | insert, look up | little control |
| GPU advice, `gpu.py` | options of each optimizer, whose turn it is | next GPU, enable, recommend, apply | turns are even; a plan applied is the plan announced |
| Edge deployment, `edge_deployment.py` | recorded inferences | record, offload?, prepare, checklist | offloads when it has to and for a reason; the model it gets fits |
| Files and wrappers, `onnx_runtime.py`, `bentoml_manifest.py`, `testing.py` | none | file output, calls of a library | not state machines |
| Graphify adapter, `tools/graphify` | none | one subprocess | not part of the package |

How they interact: the API owns an inference server and calls it; a `Platform` endpoint wraps a model
the way the server's `Endpoint` does; everything else is composed by the
application, if at all. What is hard: coroutines sharing one batch and each
other's results with reloads and cancellations in between (`serving.py:189-216`);
threads that load in one critical section and activate in another
(`hot_reload.py:116-117`); calls in orders nobody tried (`deployment.py`);
expiry, bounds and token accounting (`request_scheduler.py`); state left over
from an earlier call (`platform.py:290`, `advanced_caching.py:272`); exceptions of
libraries that are logged and swallowed half-way (`model_registry.py:153`,
`observability.py:85`).
`PROJECT.json` lists these hazards line by line, with the properties that cover
them.

## The modules

### Serving and RequestService

`Serving` models `BatchQueue`, `ModelCache`, `InferenceEngine.infer` and
`_run_batch_inference`, and `InferenceServer.predict` and `load_model`. Every
call of `predict` is a coroutine with a program counter; an action is the code
between two places where another coroutine could get in:

| action | code |
|---|---|
| `Predict` | build the request, `BatchQueue.add` (72-77) |
| `Poll` / `Answer` | the `while` test (189) false / true, `_results.pop`, log, return or raise (198-216, 290-300) |
| `ShouldFlush` | 79-95, 190 |
| `Flush` | 97-103, 191-192 |
| `RunGroup` | one pass of the loop over `by_model` (232-254): one read of the cache, a result for each request of the group |
| `Publish` | `_results.update` (193-194) |
| `Wake`, `Cancel` | the end of `asyncio.sleep` (195-196), or the task's cancellation there |
| `LoadModel` | `ModelCache.set` (137-146) |
| `Tick`, `SetBack` | `time.time()` (74, 91), which is the wall clock: it may be set back while requests wait |

`running` is the coroutine the event loop is in. With `LockYields = FALSE` a
coroutine keeps the loop until it sleeps or ends: this is asyncio, where taking a
free `asyncio.Lock` does not suspend, and no lock is ever held across a
suspension, so that all are free. With `LockYields = TRUE` every locked section
may hand over before it starts. That is more behaviour than asyncio has; what
holds there does not depend on the subtlety, and several batches really run at
once. `BatchBounded` does depend on it and is stated for asyncio only.

`predict` of a model is an opaque call that succeeds or raises; loads of a model
are numbered, and an outcome records which load made it. Latencies, costs and
`batch_size` are left out, and `timeout_ms`, which the code never reads.

`RequestService` is what callers are promised: a request is executed at most
once, in one instant, against the model loaded then, and its caller gets that
outcome. `Serving` implements it under the mapping at the end of the module.

### Deployment

`deployment.py`. A `DeploymentVersion` object is a version string and the number
of its `deploy_model` call: redeploying a string makes a new object while canary
and A/B objects keep the old one, as in the code. Random routing is a choice.
Calls that raise do so before they assign anything, except that none of them is
guarded against a rolled-back canary (see Findings).

### RequestScheduler

The three classes of `request_scheduler.py`, one of which the application uses.
The heap is a set from which any least element may be popped, which covers every
order `heapq` may give equal keys. `dequeue`'s loop over expired requests is one
step (`PopUntilLive`). Making a request (`Construct`), which sets its timestamp (29), is
a step apart from enqueueing it, so that a request may be old, or expired, when it is
enqueued; one that was refused may be offered again. Requests keep coming: once a
request is served or dropped, another with the same fields may be made, for ever.

### HotReload

`hot_reload.py` for one model id: an operator, the watcher threads, and the
watched file with its modification time. `load_model` and `activate_version` are
one step each, as both hold the lock throughout; a watcher's reload is six. An update
gives the file any modification time (`MTimes`): files written within the file system's
granularity have equal ones, and a restored file has an older one. The watcher
compares with `>` (108) and misses both; `newest` remembers the greatest time of
earlier files, to say so. The
version a watcher picks is the second of the clock, so two can collide. The
thread is lost if the file is missing at its first `stat` (101), which is outside
the `try`.

### Platform

`platform.py`. `train` runs its code before it returns, so a call is `Begin`
(job id and model id are chosen, 253-267) and `End` (the `TrainingJob` is made and
listed, 304-312), with the code in between: a callable, during which the
application may call `train` and `serve` again (the stack), or a script, which may
write its `--output` file before it exits, fails or is killed. Artifact files
outlive jobs and processes (`Restart`). The ids "job-k" and "model-k" are the
number k, as both are lengths of a dict; the application may give ids of that form
itself, and `given` remembers those it gave. `decorators.py` calls `train` and `serve`
with the function's name as model id.

### Helpers

Nine parts that keep books around the servers and share no state. Each module is
a specification of its own; `Helpers` composes them so that one run checks them,
and a behaviour is one of one part.

- `HybridCache` (`advanced_caching.py`): the result and semantic caches. Results are
  numbered as they are stored; the history `made` remembers each one's model, input,
  truth value (the code tests `if result`) and whether its model has been invalidated
  since. How similar two texts are is the constant `Score`, which puts everything
  below the threshold at 0.
- `LLMEngine` (`llm_optimization.py`): `generate` with the prompt cache and, once
  enabled, the speculative decoder. Prompts share a cache key when their first
  hundred characters are the same (`KeyOf`); the model may raise, which leaves a
  miss and no entry. `cache` is the dict's keys in their order, as eviction depends on it.
- `ModelTracker` (`model_registry.py`): the tracker, and of MLflow the active run and
  current experiment of the process and the runs and versions of the server. Each
  call may raise, before or after it took effect, `set_experiment` and `start_run`
  included (`StartFails`: with or without a run on the server, active or not); the
  tracker logs and goes on.
  `Restart` ends the process at any moment and leaves the server as it is.
- `Monitoring` (`monitoring.py`, `observability.py`): a backend records a metric on one
  instrument after another and swallows the exception of the one that raises; the
  instruments of Prometheus belong to the process, so a second backend raises when it
  registers them, and so does a retry after a port that could not be bound (`MakeFails`).
- `Dashboard` (`dashboard.py`): `clear_old_data` cuts latencies and keeps errors and the
  sums per model, and alerts are read off what is left. The percentile is the latency
  that as many others come before as its index in the sorted list says.
- `InferenceQueue` (`inference.rs`): batches are taken off the front of the queue and
  each is sorted by priority; `sort_by` is stable. Sorting is by rank: the k-th is the
  request that k - 1 others of the batch come before.
- `Api` (`api.py`) over `RequestService`, which `Serving` implements: construction loads
  the model; a response that cannot be serialized is a 500 after it was logged as
  answered.
- `GPUAdvice` (`gpu.py`): optimizers handed out in turn, the options enabled on each, and
  the plan with the speedups estimated from its options and announced by `apply`.
- `EdgeDeployment` (`edge_deployment.py`): the tables behind `prepare_model` and the
  checklist for a model of 100 MB, the size the code assumes, and the recorded
  inferences behind `should_offload_to_cloud`.

### Accounts

Five parts that account for a limited resource and share no state:
`PagedAttention` (`llm_optimization.py`), `MemoryPool` and `GPUMemoryPool`
(`memory_manager.rs`, in the wrapping arithmetic of a release build, with the word
size as a constant; sizes and limits may be so large that they wrap, and the
histories `largest` and `largestMB` say whether one was), `SpendManager` (`cost_tracking.py`, checked before and
recorded after each of several concurrent requests) and `EmbeddingCache`
(`advanced_caching.py`, the bytes it counts). Each module is a specification of its own; `Accounts` composes them so that one run
checks them, and a behaviour is one of one part.

### Proof modules

| module | proves about |
|---|---|
| `Serving_proofs` | `Serving`: types, no request lost, batch size, log, freshness, groups, stable outcomes, the refinement of `RequestService` |
| `Deployment_proofs`, `RequestScheduler_proofs`, `HotReload_proofs`, `Platform_proofs` | the module of that name |
| `Accounts_proofs` | the five parts of `Accounts` |
| `Helpers_proofs` | the nine parts of `Helpers`, a section each |
| `Counting_proofs` | nothing of the system: sums over finite sets as the folds of the community modules compute them, ranks in an order, and arithmetic, which the last two cite |

## The runs

| run | question | instance |
|---|---|---|
| `serving_asyncio` | on asyncio: bounded batches, fresh answers, exact log, every call answered although calls are cancelled and the clock is set back | 3 calls, 2 models, batches of 2, wait of 2 ticks, 2 loads per model, any call may be cancelled |
| `serving_yielding` | if awaits yield: types, no loss, one version per group, stable outcomes, refinement | 3 calls, 2 models, batches of 2, wait of 1, 1 load per model |
| `deployment` | any sequence of calls: types, only deployed versions, canary against the active one, counters, active version moves by promotion | 3 versions, 2 deploys each, 2 requests per canary |
| `deployment_rollback` | is every request routed? No | the same |
| `scheduler` | types, admission (bounds and quotas), expiry, fair shares, who may keep a request waiting | 3 requests, made again and again, with timeouts 1, 2 and 3 and 2 priorities, 2 models, 1 user with quota 2, queue of 2, 3 ticks, 5 tokens or of debt |
| `deadline_order` | is the earliest deadline first? No | the same |
| `quota_per_minute` | are quotas per minute? No | the same |
| `hot_reload` | a loaded current version, replaced versions inactive, updates served | 2 watchers, 1 operator version, 2 updates, 3 modification times, 2 seconds |
| `platform` | types and ids, jobs stay listed, artifacts accounted for, default ids | 3 trains, 3 serves, 2 given names, one of them like a default one |
| `platform_artifact` | does a script that writes nothing always fail? No | the same |
| `helpers` | the nine parts: who gets which result from which cache, which prompts stay cached and what the decoder counts, what the tracker registers, what backends record, which alerts are given, how far requests are overtaken, what clients are told, whose turn it is, when a device offloads and which model it gets | caches: 2 models, 3 inputs, 3 results; engine: 5 prompts with 4 keys, 5 calls; tracker: 2 trainings, 3 runs; 4 backends, 3 metrics; dashboard: 5 requests, 3 errors, cut from above 4 to 2; queue: 4 requests in batches of 3; API: 4 calls, 2 loads; 3 GPUs, 2 turns each; 3 inferences on a device |
| `accounts` | pages (`PagesOwnedOnce`), pools (`PoolsWithinLimit`), embedding bytes (`EmbeddingsWithinLimit`), budget and its latch (`BudgetKept`) | 4 pages of 2 tokens; 3 buffers of up to 33 bytes in 3 MB of 4 bytes, words of 32; 4 clients of up to 30 MB in 4 MB; 2 workers and 2 days; 4 texts |

Why these bounds suffice for what can go wrong: three calls fill a batch of two
and leave one over, two of them share a model and so a group while the third
makes a second group, so a batch can mix groups, a reload can fall between them,
and a second batch can form while the first runs. A wait of two ticks lets the
clock run out before, while and after a batch fills. Two loads make an old and a
new version of each model. Three versions are an active one, a canary and a
bystander; a second deployment makes a stale object. Three kinds of request
cover equal and different priorities, timeouts shorter, longer and as long as what
may pass before a request is enqueued, one user at and over the quota, a full
queue of two, and a model overdrawn by more than one request; they come again without
bound, so that one can be overtaken for ever. Two watchers and two
seconds make both the collision and the overtaking of reloads; two updates let
one fall within the reload of the other, and three modification times make the
second newer, as old as the first or older. Three trains nest
twice or run in sequence around a nested one, and with one given name and three
serves default ids meet named and repeated deployments; the other name is the default id
of the second endpoint. Three results are enough for one
that is overwritten and a nearer one that comes later; two inputs with equal and one with a lower
similarity make both ties and a ranking. Five prompts against a cache that keeps
two and evicts above two entries make hits, collisions, evictions and a prompt that
returns after its eviction. Two trainings and a restart make a stale run id, a second process that
finds the experiment, and a run left active. Two backends for Prometheus make the
repeated registration; a metric can stop after any instrument. Five requests let
`clear_old_data` cut once errors and latencies have both come. Four requests of three priorities in batches of
three make a sorted batch and a later one. In `accounts` every resource can be
exhausted exactly, exceeded and asked for in fractions; of the sizes 19 is the largest
whose sum with the limit fits a word, 20 the first that wraps it, and 33 wraps by itself. Bounds on
loads, deploys, ticks, tokens and updates are constants named `Max...`, guards of the actions that count.

`CHECK_DEADLOCK FALSE` in the serving runs, as the server has nothing to do
once every call has been answered, and in `helpers`, where a part
stops when its bounded number of calls is used up.

### Fairness

- `Serving`: strong fairness of each call's own steps, because a ready coroutine
  is disabled whenever another has the loop. asyncio's ready queue is first in
  first out and its timers fire, so every ready coroutine gets its turn; weak
  fairness of `Tick`, as time passes; and the clock is set back only finitely often
  (`<>[][~SetBack]_vars`): set back for ever, a batch below its size never gets old
  enough. No fairness for `Predict`, `Cancel`
  and `LoadModel`: nobody has to call.
- `RequestScheduler`: the application keeps dequeueing and refilling
  (`refill_tokens` asks to be called periodically); strong for `DequeueFair`,
  as it is among alternatives that a refill may make impossible for a while. This
  does not suffice for every accepted request to leave: as long as requests of higher or
  equal priority keep coming (in `DeadlineScheduler` of a shorter or equal timeout; in
  `FairShareScheduler` of the same model), `dequeue` may return those for ever.
  `WaitsOnlyForRivals` says that nothing else keeps a request waiting, not the
  other models either; that refilling ends at `MaxTokens` is a bound of the run, which
  it names.
- `HotReload`: weak fairness of each thread, and whoever removes the file
  writes it again. `UpdateServed` excepts an update whose modification time is no newer
  than an earlier file's.

## The theorems

For all values of the constants that satisfy the named assumptions
(`ServingAssumption`, `DeploymentAssumption`, `SchedulerAssumption`, `HotReloadAssumption`,
`PlatformAssumption` and `NoneAssumption`, `AccountsAssumption` and `HelpersAssumption`,
which are those of the parts; `SharesFair` also assumes that there is a request), machine-checked:

- `TypeCorrect`, `RequestsKept`: by `Inv == TypeOK /\ NoRequestLost /\ BatchProgress`.
  `NoRequestLost` alone is not inductive: that `Publish` moves a whole batch to
  `_results` needs that each of its requests has an outcome by then
  (`BatchProgress`), and that `Flush` overwrites no other batch needs that a
  call has one only while it runs it (in `TypeOK`).
- `BatchesBounded`: by `BoundInv`. One coroutine at a time is off its suspension
  points, and when the queue is full it is the one that filled it, still holding
  the loop on its way to `flush`; it cannot turn off at `while` because its
  request is queued and so, by `RequestsKept`, has no result.
- `StatsCorrect`: by `LogInv`, which adds that only a call that is over has a reply.
- `AnswersFresh`: by `FreshInv`, which says of outcomes in batches and in
  `_results` what `FreshAnswers` says of replies, and that the cache is the
  latest load. It needs `Inv` and `LogInv` to know that a call just made has no
  outcome yet.
- `GroupsConsistent`: `OneVersionPerGroup` is inductive with `Inv`.
- `OutcomesStable`, `Refinement`: by `AllInv`, which adds `GroupInv`: a group has
  outcomes for all of its requests or none, and a running call has a group left.
  So the group that `NextModel` picks was not executed before (this uses that a
  set of positions has a least element), a request has at most one outcome in
  the whole state (`OneOutcome`), and the step that computes it is `Execute`.
- `DeploymentTypeCorrect`, `OnlyDeployedHandedOut`, `CanaryIsSound`
  (with: a canary implies an active version), `ActiveMovesByPromotion`.
- `SchedulerTypeCorrect`, `AdmissionKept`: quotas compare a counter, so `AdmissionHeld`
  is not inductive without `CountsExact`: a user's counter is the number of times that
  a request of the user was accepted, and the queue is finite.
- `DroppedHadExpired`, `EmptyHandedExplained`: from what a dequeue returns and drops in
  one call (`PopUntilLive`).
- `SharesFair`: what a `dequeue_fair` charges it takes from a model with at least as
  many tokens as any other with work, so no two models that always had work drift
  apart by more than one request.
- `HotReloadTypeCorrect`, `CurrentAlwaysLoaded`, `ReplacedNeverActive`: by
  `Inv == TypeOK /\ CurrentIsLoaded /\ RetiredInactive /\ SeenExists /\ ReloadLoaded`.
  A watcher loads in one critical section and activates in another; that it
  then activates a version that is loaded needs that nothing unloads it in between
  (`ReloadLoaded`), and the types of what it loads that no watcher has seen a newer
  file than there is (`SeenExists`).
- `PlatformTypeCorrect`, `JobsListed`, `ArtifactsAccounted`, `DefaultsReplaceNothing`:
  by one `Inv`, which adds what is known of the calls under way. A job that took the
  number of a call under way, or a later one, began within that call (`NestedLater`);
  the file of a frame's id was there when it began, or is its own or a later call's
  (`FramesAccounted`), for which a running script has to be the innermost call
  (`ScriptsOnTop`). A default id is free because it is the number of deployed ids and
  those in use are below it, but for ids of that form that the application has given
  (`DeployedCounted`).
- `PagesNeverShared`: `PagesOwnedOnce` is inductive as it stands, with the history of
  lost pages: what an allocation takes was not in use, and what is in use is
  what requests hold or lost.
- `PoolsAreWithinLimit`, `EmbeddingsAreWithinLimit`, `BudgetIsKept`: an invariant for each
  pool, for the embedding cache and for the spending. The claims on the two pools are
  implications whose hypothesis, that the limit and the largest size granted so far add
  up to less than a word (4 GiB in bytes), is a fact of the state, not an assumption on the
  constants; run `accounts` has sizes that break it. That the Rust pool's counter never
  wraps then needs that it covers each buffer's own megabytes, so that what is
  subtracted is there. The budget is inductive as it stands, given the types: what was
  spent and one largest cost for each worker allowed to go on stay within the bound.
- `CachesAnswerRight`: by `HybridInv`, which says exactly what
  both caches hold: the one the latest valid result of each model and input, the other
  the latest of each input, with an embedding for every result made.
- `ApiAnswersAreTrue`: by `HTTPInv`: a call is only made of a server that has its model,
  and what is counted is the set of successes answered.
- `EngineKeepsItsBooks`: by `EngineInv`: the prompt cache is the end of the sequence of what
  was stored, which a hit leaves and an eviction shortens at its front.
- `VersionsAreAsTrained`: by `TrackerInv`: the current run is active, has the model of the
  current training, or a call of that training failed; runs on the server only grow, and a
  process that names its experiment files its runs there.
- `MetricsRecordedOnce`: by `MonitorInv`: a backend that counted was constructed with its
  library, and one that registers instruments is the only one.
- `AlertsAreSound`: by `BoardInv`: what is left of the latencies is no more, in number and
  sum, than what the models' books say, because a cut leaves a suffix, and a suffix
  sums up to no more than the whole (`SumLast`). The percentile alert is right
  because the value of rank q exceeds a limit exactly when at least n - q values do
  (`RankDecides`).
- `OvertakingIsBounded`: by `QueueInv`: what was handed out is a permutation of the
  beginning of what arrived, in which fewer than a batch come before an earlier one.
  The permutation is not in the state: the invariant says that there is one, and each batch
  extends it by the order it was sorted in (`ExtendedPlaces`, `ByPrioritySorts`).
- `GPUAdviceIsKept`: by `GPUInv`, in which the GPUs before the current one have had one
  turn more, and `PlanInv`, in which the options of a plan just applied are those of its
  first step.
- `EdgeAdviceIsSound`: what is advised of an edge device is read off its samples, whose
  average is above a limit only if one of them is, and is if all of them are; which
  model fits which device is read off the tables.

Induction over data is beyond the prover where it takes an operator as a parameter. The lemmas
on sums therefore take the set of subsets for which a claim fails and a least one
among them (`LeastSet`, from the library's well-founded orders), and a fold of a model
is shown to be such a sum where it is used (`RecordedIs`, `TotalIs`, `MetricSumIs`,
...). Sorting by rank needs no induction: ranks are cardinalities, which are
different, and below n, and so all taken (`RankTaken`).

Only model-checked: liveness (`EveryCallAnswered`, `WaitsOnlyForRivals`, `UpdateServed`),
which is out of the prover's reach. Every invariant and every action property of the
passing runs is a theorem.

## Findings

1. `deployment.py:230`: rolling back leaves a `CanaryDeployment` without a canary
   version in charge of routing; the canary's share of requests gets `None`
   (run `deployment_rollback`).
2. `request_scheduler.py:186`: `DeadlineScheduler` orders by the relative timeout,
   not by the deadline: a request made later with a shorter timeout but a later deadline
   is returned first (run `deadline_order`).
3. `request_scheduler.py:68`: the counter behind "requests per minute" is never
   reset (run `quota_per_minute`).
4. `request_scheduler.py:149`: `dequeue_fair` prefers an empty queue to an overdrawn
   model and returns nothing while requests wait. `IdleOnlyIfOverdrawn` is the
   exact condition, and it is also why `WaitsOnlyForRivals` needs refills.
5. `hot_reload.py:73`: activating the current version again, or an earlier one,
   leaves the serving version marked inactive.
6. `platform.py:290`: a script that writes nothing is a success if an earlier job of
   the same model id left a file, although `train` promises a failed job (run
   `platform_artifact`).
7. `platform.py:305`: a job that ran inside another's callable is no longer listed.
   `ListedUnlessNested` says that this is the only way.
8. `platform.py:157`: a callable that returns `None` leaves a job "running" for ever.
9. `platform.py:281`: `time_limit` is enforced for scripts; the docstring says it has
   no effect.
10. `advanced_caching.py:274`: after `invalidate_model`, "all caches", the semantic
    cache still answers with the model's results, also the model itself.
    `CachesAnswer` says what is answered.
11. `advanced_caching.py:250`: on a miss in both caches `get_result` raises `TypeError`.
12. `model_registry.py:37`: once the experiment exists, every later process files its
    runs under MLflow's default experiment.
13. `model_registry.py:176`: when `start_run` fails, the next model is registered with the
    run of the training before.
14. `llm_optimization.py:271`: `speculative_speedup` is 1 or 0, where the documentation
    prints it as a factor of 2 to 3; `verified_tokens` counts one too many per draft.
15. `observability.py:56`: the speedup gauge reads an attribute that metrics do not have
    and always shows 1.
16. `dashboard.py:68`: no alert is given while no request was recorded, however many
    errors were.
17. `memory_manager.rs:29`: sizes are cut to 32 bits before they are compared with the limit,
    so that the pool grants a buffer of 4 GiB or more that exceeds it. `PoolsWithinLimit` holds until then.
18. `edge_deployment.py:322`: where the comment (320) says "memory > 80%", the average memory is
    compared with 800 MB, whatever the device has: a device of 512 MB has no reason to
    offload for its memory, one of 16 GB has it at 5 %.
19. `gpu.py:172`: `apply` enables only the first step of its plan and turns the others off, and
    announces the speedup of all (`GPUAdviceKept`: more than twice what it gives).

Findings without a run of their own (4, 5, 7 to 19) are behaviour the models contain and
a checked property makes exact or excludes by name.

Worth knowing, though no document says otherwise: `MemoryPool` does not count
buffers below a megabyte and leaks the count of a buffer whose name is allocated
again; `PagedAttention` leaks the pages of a
request that allocates again (`lost`); `GPUMemoryPool` may hand out the id of an
allocation still held; `SpendManager` overspends by up to one request per worker
(`OverspendBounded`, part of `BudgetKept`, is the exact bound) and its reset leaves `model_costs`;
`get_result` may answer with another model's result for a similar input
(`FallbackIsNearest`, part of `CachesAnswer`, says which).

Also: a cancelled call's result stays
in `_results` for good (`NoRequestLost` shows this is the only way); a reload that
raises is not retried until the file changes again; a slow watcher can replace a
newer model by an older one (`UpdateServed` says each update has been current,
not that it stays). `end_training` registers `runs:/.../models/<name>` although `log_model`
logs at "models". After a port that could not be bound no Prometheus backend can be made
in the process (`observability.py:151`). The checklist for an edge
device compares the size before quantization, which `EdgeAdviceSound` shows to be on the safe
side; a device's memory is averaged over its whole life. `prepare_model` gives the ESP32 a
model of 13 MB, the limit in its table being 1 MB, and a Raspberry Pi INT8, where
`docs/OPTIMIZATION.md:289` has INT4. An update of a watched file whose modification time is
no newer than one seen is never loaded (`hot_reload.py:108`). A default model id replaces an
endpoint if the application itself named one "model-k" (`platform.py:349`). A stopped endpoint is still listed as active
(`platform.py:363`).

## Not modelled

Whole files: `onnx_runtime.py`, `bentoml_manifest.py` and `testing.py` (calls of a library,
file output, stubs); `streaming.rs` and `gpu.rs` (queues and tables nothing else in
the crate uses, without control of their own); `scheduler.rs`, `executor.rs`,
`storage.rs`, `backend.rs`, `lib.rs` (maps with insert and look-up);
`tools/graphify`, which is no part of the package (one subprocess; its `main` returns 2
where its header, lines 27 to 29, lists other codes).

In the modelled parts (`PROJECT.json` calls a part "partly" modelled when any
operation that writes is left out, be it a statistic): `set_user_quota` between
enqueues; A/B metrics, hit counters, prices and `model_costs`, cost recommendations;
`/models/{id}/info` and `/shutdown`; `HuggingFaceRegistry`, and single
calls of MLflow's client; the dashboard's recommendations and wording; latencies and tables no
decision reads (`gpu.py`, `edge_deployment.py`); failures of `json` or of the
logger; more than one model id in `HotReload`, where ids share nothing but the lock;
time in the schedulers that never look at it (`Tick` is for `RequestScheduler` and
`DeadlineScheduler`); `TrainingJob.cancel` and `Endpoint.stop`, which assign a status
nothing reads. `InferenceRequest.timeout_ms` has no effect in the code, and a watcher whose
file is missing at its first `stat` ends (`hot_reload.py:101`): both are in the
models as they are, and no document promises anything else.

## Plan

Done, in this order: `Serving` with `RequestService`, `Deployment`,
`RequestScheduler`, `HotReload`, `Platform`, `HybridCache`, the accounts; then
`ModelTracker`, `LLMEngine`, `Monitoring`, `Dashboard`, `InferenceQueue`, `Api`,
`GPUAdvice`, `EdgeDeployment`, the clock of `Serving`, and the proofs about serving,
deployment, scheduling, hot reload and pages; then the proofs about the platform,
the accounts and the helpers, so that every safety property is proved; then streams of
requests, modification times, given ids like default ones and sizes that wrap.

Left, by how much can go wrong:

1. What a `TrainingJob` promises, as an abstract specification that `Platform` implements,
   and a proof of it.
2. The safety part of the liveness arguments: that a call which waits in `Serving` always
   has a coroutine, a batch or the clock to wait for, as an invariant with a proof.
3. `SpendManager` composed with the calls of `Serving`, if the package ever connects them.
4. Several model ids in `HotReload`, whose loader runs under the lock of all.
