------------------------------ MODULE Platform ------------------------------
(***************************************************************************)
(* Platform.train and Platform.serve of src/pystreamai/platform.py, with   *)
(* the TrainingJob objects and the artifact files they leave.  train runs  *)
(* its code before it returns: a callable, which may itself call train and *)
(* serve (what @pipeline workflows and decorated functions do), so that    *)
(* calls nest; or a script in a subprocess.  Artifacts live in             *)
(* pystreamai_artifacts/<model_id>/model.pkl, which outlives jobs,         *)
(* platforms and processes.                                                *)
(*                                                                         *)
(* Calls of train and of serve are numbered from 1, so that 0 is no call.  *)
(* A model id is a name the application gives or, by default, "model-k",   *)
(* which is written k, as "job-k" is.  The application may also give ids   *)
(* of that form.                                                           *)
(***************************************************************************)
EXTENDS Naturals, Sequences, FiniteSets

CONSTANTS Names,      \* model ids given by the application
          MaxTrains,  \* bound: calls of train
          MaxServes,  \* bound: calls of serve
          None        \* no TrainingJob

ASSUME PlatformAssumption ==
    /\ IsFiniteSet(Names)
    /\ MaxTrains \in Nat
    /\ MaxServes \in Nat

VARIABLES
    trains,       \* number of train calls so far
    serves,       \* number of serve calls so far
    stack,        \* train calls in progress, outermost first
    jobs,         \* self.jobs: the call whose TrainingJob is listed as job-n
    deployments,  \* self.deployments: the serve call listed under an id
    returned,     \* the TrainingJob of each train call that returned one
    artifacts,    \* the train call that wrote an id's model.pkl
    given         \* history: ids that the application has given this
                  \* platform's serve

vars == <<trains, serves, stack, jobs, deployments, returned, artifacts, given>>

Calls  == 1..MaxTrains
Ids    == Names \cup 0..MaxServes
JobIds == 0..MaxTrains

\* stale: the file was there when the call began; wrote: its script has
\* written it.
Frames == [call : Calls, job : JobIds, id : Ids, code : {"callable", "script"},
           wrote : BOOLEAN, stale : BOOLEAN]

\* "nothing": no model, artifact or error, and the status says "running".
TrainingJobs ==
    [job : JobIds, id : Ids, wrote : BOOLEAN, stale : BOOLEAN,
     result : {"model", "artifact", "error", "nothing"}]

ASSUME NoneAssumption == None \notin TrainingJobs

Init ==
    /\ trains = 0
    /\ serves = 0
    /\ stack = <<>>
    /\ jobs = [n \in JobIds |-> 0]
    /\ deployments = [id \in Ids |-> 0]
    /\ returned = [c \in Calls |-> None]
    /\ artifacts = [id \in Ids |-> 0]
    /\ given = {}

------------------------------------------------------------------------------
Top == stack[Len(stack)]

\* The application's code runs: outside of train, or as the callable of the
\* innermost train.
AppRuns == stack # <<>> => Top.code = "callable"

ScriptRuns == stack # <<>> /\ Top.code = "script"

\* The keys of the two dicts.
Listed   == {n \in JobIds : jobs[n] # 0}
Deployed == {id \in Ids : deployments[id] # 0}

\* A plausible bug: jobs numbered by what is deployed.
NextJobByDeployments == Cardinality(Deployed)

\* len(self.jobs), which train reads before it runs the code.
NextJob == Cardinality(Listed)

\* A plausible bug: the model id counts jobs.
DefaultIdByJobs == Cardinality(Listed)

\* The model id of a train or serve that is given none: len(self.deployments).
DefaultId == Cardinality(Deployed)

\* A plausible bug: the job is listed before its code has run.
BeginListed(code, id) ==
    /\ AppRuns
    /\ trains < MaxTrains
    /\ trains' = trains + 1
    /\ stack' = Append(stack, [call |-> trains + 1, job |-> NextJob, id |-> id,
                               code |-> code, wrote |-> FALSE,
                               stale |-> artifacts[id] # 0])
    /\ jobs' = [jobs EXCEPT ![NextJob] = trains + 1]
    /\ UNCHANGED <<serves, deployments, returned, artifacts, given>>

\* train as far as the call of its code.
Begin(code, id) ==
    /\ AppRuns
    /\ trains < MaxTrains
    /\ trains' = trains + 1
    /\ stack' = Append(stack, [call |-> trains + 1, job |-> NextJob, id |-> id,
                               code |-> code, wrote |-> FALSE,
                               stale |-> artifacts[id] # 0])
    /\ UNCHANGED <<serves, jobs, deployments, returned, artifacts, given>>

TrainCallable(id) == Begin("callable", id)
TrainScript(id)   == Begin("script", id)

Pop == stack' = SubSeq(stack, 1, Len(stack) - 1)

\* The rest of train: the TrainingJob is made, stored and returned.
End(result) ==
    /\ returned' = [returned EXCEPT ![Top.call] =
                       [job |-> Top.job, id |-> Top.id, wrote |-> Top.wrote,
                        stale |-> Top.stale, result |-> result]]
    /\ jobs' = [jobs EXCEPT ![Top.job] = Top.call]
    /\ Pop
    /\ UNCHANGED <<trains, serves, deployments, artifacts, given>>

\* The callable returns a model, returns None, or raises.
CallableReturns ==
    /\ stack # <<>> /\ AppRuns
    /\ \E result \in {"model", "nothing", "error"} : End(result)

\* KeyboardInterrupt and SystemExit are no Exception, and of what
\* subprocess.run raises only TimeoutExpired is caught: train does not return.
Interrupted ==
    /\ stack # <<>>
    /\ Pop
    /\ UNCHANGED <<trains, serves, jobs, deployments, returned, artifacts, given>>

\* The script writes its --output file, whole or in part.
ScriptWrites ==
    /\ ScriptRuns
    /\ ~Top.wrote
    /\ artifacts' = [artifacts EXCEPT ![Top.id] = Top.call]
    /\ stack' = [stack EXCEPT ![Len(stack)].wrote = TRUE]
    /\ UNCHANGED <<trains, serves, jobs, deployments, returned, given>>

\* A non-zero exit code, or the time limit.
ScriptFails == ScriptRuns /\ End("error")

\* A plausible bug: exit code 0 is success.
ScriptExitsUnchecked == ScriptRuns /\ End("artifact")

\* Exit code 0: the file must exist.
ScriptExits ==
    /\ ScriptRuns
    /\ End(IF artifacts[Top.id] # 0 THEN "artifact" ELSE "error")

\* serve of something that can run inference (anything else raises first).
Deploy(id) ==
    /\ AppRuns
    /\ serves < MaxServes
    /\ serves' = serves + 1
    /\ deployments' = [deployments EXCEPT ![id] = serves + 1]
    /\ UNCHANGED <<trains, stack, jobs, returned, artifacts>>

ServeDefault == Deploy(DefaultId) /\ UNCHANGED given
ServeNamed   == \E id \in Names : Deploy(id) /\ given' = given \cup {id}

\* The process ends and starts again, at any moment, or set_platform replaces
\* the platform between calls: what was listed is out of reach, files stay.
Restart ==
    /\ stack' = <<>>
    /\ jobs' = [n \in JobIds |-> 0]
    /\ deployments' = [id \in Ids |-> 0]
    /\ returned' = [c \in Calls |-> None]
    /\ given' = {}
    /\ UNCHANGED <<trains, serves, artifacts>>

Next ==
    \/ \E id \in Names \cup {DefaultId} : TrainCallable(id) \/ TrainScript(id)
    \/ CallableReturns
    \/ Interrupted
    \/ ScriptWrites
    \/ ScriptFails
    \/ ScriptExits
    \/ ServeDefault
    \/ ServeNamed
    \/ Restart

Spec == Init /\ [][Next]_vars

------------------------------------------------------------------------------
(* Properties.                                                             *)

Job(c) == returned[c]

\* The state is well typed: jobs are numbered without gaps, only jobs of calls
\* that returned are listed, and calls in progress began in their order, with
\* job numbers that are taken or next.
TypeOK ==
    /\ trains \in 0..MaxTrains
    /\ serves \in 0..MaxServes
    /\ stack \in Seq(Frames)
    /\ \A i, j \in DOMAIN stack : i < j => stack[i].call < stack[j].call
    /\ \A i \in DOMAIN stack : stack[i].call <= trains /\ stack[i].job <= NextJob
    /\ jobs \in [JobIds -> {0} \cup {c \in 1..trains : Job(c) # None}]
    /\ Listed = {n \in JobIds : n < NextJob}
    /\ deployments \in [Ids -> 0..serves]
    /\ returned \in [Calls -> TrainingJobs \cup {None}]
    /\ artifacts \in [Ids -> 0..trains]
    /\ given \subseteq Names

\* A TrainingJob handed out is listed under its id unless the job of a call it
\* ran inside of took that place: job ids are lengths of a dict that nested
\* calls may have grown in between (lines 253 and 305).
ListedUnlessNested ==
    \A c \in Calls :
        Job(c) # None =>
            LET d == jobs[Job(c).job]
            IN d # 0 /\ d <= c /\ Job(d).job = Job(c).job

\* An endpoint is only taken out of the list by another under an id that the
\* application has itself given serve: default ids, counts of a dict that
\* given ids grow as well and redeployments do not, replace no endpoint that
\* was deployed under a default id, nor one whose id was never given (lines
\* 349 and 352).
DefaultReplacesNothing ==
    [][\A id \in Ids :
          deployments[id] # 0 /\ deployments'[id] \notin {deployments[id], 0}
            => id \in given']_vars

\* A job that completed with an artifact has a file at its path: its script's
\* own, or a later one of the same model id, or, if its script wrote nothing,
\* one that was there when it began (lines 273 to 296).
ArtifactAccounted ==
    \A c \in Calls :
        Job(c) # None /\ Job(c).result = "artifact" =>
            LET w == artifacts[Job(c).id]
            IN /\ w # 0
               /\ w < c => Job(c).stale /\ ~Job(c).wrote

\* The docstring of train, lines 240 to 242: for a script that does not write
\* its artifact, train "reports a failed job rather than fabricating a path".
NoFabricatedPath ==
    \A c \in Calls : Job(c) # None /\ Job(c).result = "artifact" => Job(c).wrote
=============================================================================
