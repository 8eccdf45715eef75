---------------------------- MODULE ModelTracker ----------------------------
(***************************************************************************)
(* ModelTracker of src/pystreamai/model_registry.py and the calls of       *)
(* MLflowRegistry it makes, with the part of MLflow they drive: one        *)
(* active run and one current experiment per process; a server that        *)
(* outlives processes; and calls that may raise, before or after they took *)
(* effect, which the tracker logs and swallows.  Without mlflow installed  *)
(* every call returns at once.                                             *)
(*                                                                         *)
(* Calls of start_training are numbered from 1, and so are runs: 0 is      *)
(* none.  end_training is given the model of the latest start_training.    *)
(***************************************************************************)
EXTENDS Naturals, Sequences

CONSTANTS MaxTrainings, \* bound: calls of start_training
          MaxRuns       \* bound: runs on the server

TrackerAssumption == MaxTrainings \in Nat /\ MaxRuns \in Nat

VARIABLES
    known,      \* MLflow server: the tracker's experiment exists
    runs,       \* MLflow server: each run's experiment and the models in it
    versions,   \* MLflow server: the registered versions, by training and run
    target,     \* mlflow module: the experiment of new runs
    active,     \* mlflow module: the active run
    experiment, \* experiment_id; "none" before the tracker is made
    current,    \* current_run_id
    trainings,  \* calls of start_training so far
    failed      \* history: calls that failed, by training

server  == <<known, runs, versions>>
process == <<target, active>>
tracker == <<experiment, current>>
vars    == <<server, process, tracker, trainings, failed>>

Init ==
    /\ known = FALSE
    /\ runs = <<>>
    /\ versions = {}
    /\ target = "default"
    /\ active = 0
    /\ experiment = "none"
    /\ current = 0
    /\ trainings = 0
    /\ failed = {}

Made == experiment # "none"

\* ModelTracker(): create_experiment raises when the experiment exists, and
\* then set_experiment is not reached; either may raise after it took effect.
MakeTracker ==
    /\ ~Made
    /\ \/ /\ ~known
          /\ known' = TRUE /\ target' = "own"
          /\ experiment' \in {"own", "local"}
       \/ /\ known' \in {known, TRUE}
          /\ experiment' = "local" /\ UNCHANGED target
    /\ UNCHANGED <<runs, versions, active, current, trainings, failed>>

\* MLflow: models are logged to the active run, or to a new one of the
\* current experiment, which becomes the active run.
Log(models) ==
    IF active = 0
    THEN [runs   |-> Append(runs, [experiment |-> target, models |-> models]),
          active |-> Len(runs) + 1]
    ELSE [runs   |-> [runs EXCEPT ![active].models = @ \cup models],
          active |-> active]

\* MLflow as it is, when a call raises before it does anything.
Unlogged == [runs |-> runs, active |-> active]

\* start_run, when it raises: before it did anything, as it does while a run is
\* active; with a run on the server that is not the active one; or with one
\* that is.
StartFails ==
    \/ UNCHANGED <<runs, active>>
    \/ /\ active = 0 /\ Len(runs) < MaxRuns
       /\ runs' = Log({}).runs
       /\ active' \in {0, Log({}).active}

\* A plausible bug: the run id of the first training is kept.
StartTrainingOnce ==
    /\ Made
    /\ trainings < MaxTrainings
    /\ trainings' = trainings + 1
    /\ \/ /\ active = 0 /\ Len(runs) < MaxRuns
          /\ runs' = Log({}).runs /\ active' = Log({}).active
          /\ current' = IF current = 0 THEN active' ELSE current
          /\ UNCHANGED failed
       \/ /\ failed' = failed \cup {<<trainings', "start">>}
          /\ StartFails
          /\ UNCHANGED current
    /\ UNCHANGED <<known, versions, target, experiment>>

\* start_training: when start_run raises, current_run_id is what it was.
StartTraining ==
    /\ Made
    /\ trainings < MaxTrainings
    /\ trainings' = trainings + 1
    /\ \/ /\ active = 0 /\ Len(runs) < MaxRuns
          /\ runs' = Log({}).runs /\ active' = Log({}).active
          /\ current' = active'
          /\ UNCHANGED failed
       \/ /\ failed' = failed \cup {<<trainings', "start">>}
          /\ StartFails
          /\ UNCHANGED current
    /\ UNCHANGED <<known, versions, target, experiment>>

\* log_training_metrics, at any time.
LogMetrics ==
    /\ Made
    /\ active = 0 => Len(runs) < MaxRuns
    /\ runs' = Log({}).runs /\ active' = Log({}).active
    /\ UNCHANGED <<known, versions, target, tracker, trainings, failed>>

\* end_training: the model is logged; it is registered under the current run
\* whatever became of the logging (nothing is known to MLflow of run 0); and
\* the active run is ended.  Each of the three may raise, end_run after it
\* has let go of the run as well as before.
EndTraining ==
    /\ Made /\ trainings > 0
    /\ active = 0 => Len(runs) < MaxRuns
    /\ \E m \in {Log({trainings}), Log({}), Unlogged} :
         /\ runs' = m.runs
         /\ active' \in {m.active, 0}
         /\ failed' = IF m = Log({trainings}) THEN failed
                      ELSE failed \cup {<<trainings, "log">>}
    /\ versions' \in {versions} \cup
           {versions \cup {[training |-> trainings, run |-> r]} : r \in {current} \ {0}}
    /\ UNCHANGED <<known, target, tracker, trainings>>

\* The process ends and another begins, at any moment.
Restart ==
    /\ Made
    /\ experiment' = "none" /\ current' = 0
    /\ target' = "default" /\ active' = 0
    /\ UNCHANGED <<server, trainings, failed>>

Next == \/ MakeTracker \/ StartTraining \/ LogMetrics \/ EndTraining \/ Restart

Spec == Init /\ [][Next]_vars

------------------------------------------------------------------------------
(* Properties.                                                             *)

\* A version registered by end_training names a run that holds its model,
\* unless starting that training or logging its model failed, which the
\* tracker only logs; and a tracker that has an experiment id files its runs
\* there, whichever calls failed or were repeated and whenever a process died.
RegisteredAsTrained ==
    /\ \A v \in versions :
          \/ v.training \in runs[v.run].models
          \/ \E call \in {"start", "log"} : <<v.training, call>> \in failed
    /\ experiment = "own" /\ current # 0 => runs[current].experiment = "own"
=============================================================================
