------------------------------ MODULE Helpers ------------------------------
(***************************************************************************)
(* The parts of the package around the servers that keep books of what     *)
(* they did and share no state: the caches of results, the LLM engine, the *)
(* training tracker, the metric collector with its backends, the dashboard,*)
(* the batching queue of the Rust crate, the HTTP API, and the advice about*)
(* GPUs and edge devices.  Each behaviour is one of one part, the others   *)
(* staying as created.                                                     *)
(***************************************************************************)
EXTENDS Naturals

CONSTANTS Models, Inputs, Score, MaxSets, NoMatch,
          Prompts, KeyOf, Limit, Keep, Drafts, Lengths, MaxCalls, Off,
          MaxTrainings, MaxRuns,
          Backends, KindOf, Installed, MaxMetrics, NoOp,
          ModelIds, Latencies, Cap, Left, ErrorLimit, AverageLimit,
          Percent, PercentLimit, MaxRecords, MaxErrors,
          Requests, Priority, BatchSize,
          Model, MaxLoads, NoResult,
          NumGPUs, GPUType, MaxHanded,
          MemoryUses, Batteries, MaxSamples

VARIABLES part,
          made, results, keysByModel, semantic, embeddings,
          cache, hits, misses, draft, verified, stored, decoded,
          known, runs, versions, target, active, experiment, current,
          trainings, failed,
          metrics, backend, constructed, registered, counts,
          latencies, errors, perModel, occurred,
          arrived, requestQueue, batched,
          caller, outcome, loaded, up, counted, http,
          enabled, currentGPU, handed, announced,
          samples

Hybrid  == INSTANCE HybridCache
Engine  == INSTANCE LLMEngine
Tracker == INSTANCE ModelTracker
Monitor == INSTANCE Monitoring
Board   == INSTANCE Dashboard
Queue   == INSTANCE InferenceQueue
HTTP    == INSTANCE Api
Advice  == INSTANCE GPUAdvice
Edge    == INSTANCE EdgeDeployment

ASSUME HelpersAssumption ==
    /\ Hybrid!HybridAssumption
    /\ Engine!EngineAssumption
    /\ Tracker!TrackerAssumption
    /\ Monitor!MonitoringAssumption
    /\ Board!DashboardAssumption
    /\ Queue!QueueAssumption
    /\ HTTP!ApiAssumption
    /\ Advice!GPUAdviceAssumption
    /\ Edge!EdgeAssumption

hybridVars  == <<made, results, keysByModel, semantic, embeddings>>
engineVars  == <<cache, hits, misses, draft, verified, stored, decoded>>
trackerVars == <<known, runs, versions, target, active, experiment, current, trainings, failed>>
monitorVars == <<metrics, backend, constructed, registered, counts>>
boardVars   == <<latencies, errors, perModel, occurred>>
queueVars   == <<arrived, requestQueue, batched>>
httpVars    == <<caller, outcome, loaded, up, counted, http>>
adviceVars  == <<enabled, currentGPU, handed, announced>>
edgeVars    == <<samples>>

vars == <<part, hybridVars, engineVars, trackerVars, monitorVars, boardVars,
          queueVars, httpVars, adviceVars, edgeVars>>

Init ==
    /\ part \in {"hybrid", "engine", "tracker", "monitor", "board", "queue", "http",
                "advice", "edge"}
    /\ Hybrid!Init
    /\ Engine!Init
    /\ Tracker!Init
    /\ Monitor!Init
    /\ Board!Init
    /\ Queue!Init
    /\ HTTP!Init
    /\ Advice!Init
    /\ Edge!Init

HybridStep ==
    /\ part = "hybrid"
    /\ Hybrid!Next
    /\ UNCHANGED <<part, engineVars, trackerVars, monitorVars, boardVars, queueVars,
                   httpVars, adviceVars, edgeVars>>

EngineStep ==
    /\ part = "engine"
    /\ Engine!Next
    /\ UNCHANGED <<part, hybridVars, trackerVars, monitorVars, boardVars, queueVars,
                   httpVars, adviceVars, edgeVars>>

TrackerStep ==
    /\ part = "tracker"
    /\ Tracker!Next
    /\ UNCHANGED <<part, hybridVars, engineVars, monitorVars, boardVars, queueVars,
                   httpVars, adviceVars, edgeVars>>

MonitorStep ==
    /\ part = "monitor"
    /\ Monitor!Next
    /\ UNCHANGED <<part, hybridVars, engineVars, trackerVars, boardVars, queueVars,
                   httpVars, adviceVars, edgeVars>>

BoardStep ==
    /\ part = "board"
    /\ Board!Next
    /\ UNCHANGED <<part, hybridVars, engineVars, trackerVars, monitorVars, queueVars,
                   httpVars, adviceVars, edgeVars>>

QueueStep ==
    /\ part = "queue"
    /\ Queue!Next
    /\ UNCHANGED <<part, hybridVars, engineVars, trackerVars, monitorVars, boardVars,
                   httpVars, adviceVars, edgeVars>>

HTTPStep ==
    /\ part = "http"
    /\ HTTP!Next
    /\ UNCHANGED <<part, hybridVars, engineVars, trackerVars, monitorVars, boardVars,
                   queueVars, adviceVars, edgeVars>>

AdviceStep ==
    /\ part = "advice"
    /\ Advice!Next
    /\ UNCHANGED <<part, hybridVars, engineVars, trackerVars, monitorVars, boardVars,
                   queueVars, httpVars, edgeVars>>

EdgeStep ==
    /\ part = "edge"
    /\ Edge!Next
    /\ UNCHANGED <<part, hybridVars, engineVars, trackerVars, monitorVars, boardVars,
                   queueVars, httpVars, adviceVars>>

Next == HybridStep \/ EngineStep \/ TrackerStep \/ MonitorStep \/ BoardStep
        \/ QueueStep \/ HTTPStep \/ AdviceStep \/ EdgeStep

Spec == Init /\ [][Next]_vars

------------------------------------------------------------------------------
(* Properties, stated in the modules of the parts.                         *)

\* get_result answers with the model's own latest result until the model is
\* invalidated, which takes it out of the result cache; any other answer, which
\* may be an invalidated one, is the nearest that the semantic cache has.
CachesAnswer == Hybrid!OwnResultFirst /\ Hybrid!FallbackIsNearest

\* Recent prompts are in the prompt cache, and the tokens are counted once too
\* often for each draft.
EngineBooks == Engine!EngineBooks

\* A registered version names the run of its training.
RegisteredAsTrained == Tracker!RegisteredAsTrained

\* A metric is recorded by one backend at most, once.
RecordedOnce == Monitor!RecordedOnce

\* The dashboard misses no alert.
AlertsSound == Board!AlertsSound

\* A request is overtaken by fewer later ones than a batch holds.
BoundedOvertaking == Queue!BoundedOvertaking

\* What clients are told is what was executed and counted.
ApiAnswers == HTTP!ApiAnswers

\* GPUs are handed out in turn, whatever is enabled or applied between; and a
\* plan that was applied gives less than half of what it announced.
GPUAdviceKept == Advice!GPUsInTurn /\ Advice!AppliedFallsShort

\* Edge devices offload for a low battery or much memory, and are given models
\* that fit them, except for the ESP32.
EdgeAdviceSound == Edge!EdgeAdviceSound
=============================================================================
