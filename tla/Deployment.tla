----------------------------- MODULE Deployment -----------------------------
(***************************************************************************)
(* DeploymentManager of src/pystreamai/deployment.py with the canary and   *)
(* A/B objects it holds.  deploy_model makes a new DeploymentVersion       *)
(* object every time, also for a version string that is deployed already;  *)
(* canary and A/B objects keep the objects they were started with, so a    *)
(* deployment is a version with the number of its deploy_model call.       *)
(* Random routing is a choice (a traffic share strictly between 0 and 100).*)
(* Calls that raise (promoting or rolling back a canary that was rolled    *)
(* back already: its canary_version is None) raise before they assign.     *)
(***************************************************************************)
EXTENDS Naturals

CONSTANTS Versions,    \* version strings
          MaxDeploys,  \* bound: deploy_model calls per version
          MaxRequests, \* bound: requests routed by one canary
          None,        \* Python's None
          NoRequest    \* "no request has been routed yet"

\* DeploymentVersion, CanaryDeployment and ABTestDeployment objects.
Objects  == [version : Versions, uri : Nat]
Canaries == [current : Objects, canary : Objects \cup {None},
             served : Nat, canaryServed : Nat]
ABTests  == [a : Objects, b : Objects]

ASSUME DeploymentAssumption ==
    /\ MaxDeploys \in Nat
    /\ MaxRequests \in Nat
    /\ None \notin Versions \cup Objects \cup Canaries \cup ABTests
    /\ NoRequest \notin Objects \cup {None}

VARIABLES
    deployments,  \* deployments[v]: the latest deployment of v, 0 = none
    active,       \* active_deployment
    canary,       \* the CanaryDeployment, or None
    abTest,       \* the ABTestDeployment, or None
    routed        \* what the last route_request returned

vars == <<deployments, active, canary, abTest, routed>>

Deployed(v) == deployments[v] > 0

\* self.deployments[v]
Object(v) == [version |-> v, uri |-> deployments[v]]

Init ==
    /\ deployments = [v \in Versions |-> 0]
    /\ active = None
    /\ canary = None
    /\ abTest = None
    /\ routed = NoRequest

\* A plausible bug: the newest deployment becomes active at once.
DeployActivates(v) ==
    /\ deployments[v] < MaxDeploys
    /\ deployments' = [deployments EXCEPT ![v] = @ + 1]
    /\ active' = v
    /\ UNCHANGED <<canary, abTest, routed>>

\* The first deployment becomes the active one.
DeployModel(v) ==
    /\ deployments[v] < MaxDeploys
    /\ deployments' = [deployments EXCEPT ![v] = @ + 1]
    /\ active' = IF active = None THEN v ELSE active
    /\ UNCHANGED <<canary, abTest, routed>>

\* A plausible bug: the canary version is not looked up.
StartUncheckedCanary(v) ==
    /\ active # None
    /\ canary' = [current |-> Object(active), canary |-> Object(v),
                  served |-> 0, canaryServed |-> 0]
    /\ UNCHANGED <<deployments, active, abTest, routed>>

\* Starting a canary replaces one that is under way or rolled back; with no
\* active deployment, or an unknown version, it only logs an error.
StartCanary(v) ==
    /\ active # None
    /\ Deployed(v)
    /\ canary' = [current |-> Object(active), canary |-> Object(v),
                  served |-> 0, canaryServed |-> 0]
    /\ UNCHANGED <<deployments, active, abTest, routed>>

\* A plausible bug: the promoted canary stays in place with no canary version.
PromoteKeepsCanary ==
    /\ canary # None
    /\ canary.canary # None
    /\ active' = canary.canary.version
    /\ canary' = [canary EXCEPT !.canary = None, !.canaryServed = 0]
    /\ UNCHANGED <<deployments, abTest, routed>>

\* The canary's version becomes the active one and the canary ends.
PromoteCanary ==
    /\ canary # None
    /\ canary.canary # None
    /\ active' = canary.canary.version
    /\ canary' = None
    /\ UNCHANGED <<deployments, abTest, routed>>

\* A plausible bug: the wrong one of the two versions is forgotten.
RollbackForgetsCurrent ==
    /\ canary # None
    /\ canary.canary # None
    /\ canary' = [canary EXCEPT !.current = None, !.canaryServed = 0]
    /\ UNCHANGED <<deployments, active, abTest, routed>>

\* A plausible bug: the wrong one of the two counters is reset.
RollbackResetsServed ==
    /\ canary # None
    /\ canary.canary # None
    /\ canary' = [canary EXCEPT !.canary = None, !.served = 0]
    /\ UNCHANGED <<deployments, active, abTest, routed>>

\* rollback_canary forgets the canary version; the manager keeps the
\* CanaryDeployment object.
Rollback ==
    /\ canary # None
    /\ canary.canary # None
    /\ canary' = [canary EXCEPT !.canary = None, !.canaryServed = 0]
    /\ UNCHANGED <<deployments, active, abTest, routed>>

\* An A/B test replaces the one under way; unknown variants only log an error.
StartABTest(a, b) ==
    /\ Deployed(a) /\ Deployed(b)
    /\ abTest' = [a |-> Object(a), b |-> Object(b)]
    /\ UNCHANGED <<deployments, active, canary, routed>>

RouteByCanary ==
    /\ canary # None
    /\ canary.served < MaxRequests
    /\ \E toCanary \in BOOLEAN :
         /\ routed' = IF toCanary THEN canary.canary ELSE canary.current
         /\ canary' = [canary EXCEPT !.served = @ + 1,
                          !.canaryServed = IF toCanary THEN @ + 1 ELSE @]
    /\ UNCHANGED <<deployments, active, abTest>>

RouteByABTest ==
    /\ canary = None
    /\ abTest # None
    /\ routed' \in {abTest.a, abTest.b}
    /\ UNCHANGED <<deployments, active, canary, abTest>>

\* Before the first deployment this raises KeyError.
RouteToActive ==
    /\ canary = None
    /\ abTest = None
    /\ active # None
    /\ routed' = Object(active)
    /\ UNCHANGED <<deployments, active, canary, abTest>>

RouteRequest == RouteByCanary \/ RouteByABTest \/ RouteToActive

Next == \/ \E v \in Versions : DeployModel(v) \/ StartCanary(v)
        \/ \E a, b \in Versions : StartABTest(a, b)
        \/ PromoteCanary
        \/ Rollback
        \/ RouteRequest

Spec == Init /\ [][Next]_vars

------------------------------------------------------------------------------
(* Properties.                                                             *)

\* Every variable has its type.
TypeOK ==
    /\ deployments \in [Versions -> 0..MaxDeploys]
    /\ active \in Versions \cup {None}
    /\ canary \in Canaries \cup {None}
    /\ abTest \in ABTests \cup {None}
    /\ routed \in Objects \cup {None, NoRequest}

\* d is an object that deploy_model returned.
WasDeployed(d) == d.uri \in 1..deployments[d.version]

\* Whatever is or can be handed to a request was deployed: the active version
\* is in the deployments (route_request raises no KeyError once something is
\* deployed), and canaries and A/B tests hold deployed objects.
OnlyDeployedVersions ==
    /\ active # None => Deployed(active)
    /\ canary # None => /\ WasDeployed(canary.current)
                        /\ canary.canary # None => WasDeployed(canary.canary)
    /\ abTest # None => WasDeployed(abTest.a) /\ WasDeployed(abTest.b)
    /\ routed \notin {None, NoRequest} => WasDeployed(routed)

\* A canary always runs against the version that is active: deploying, A/B
\* tests and restarting canaries never leave it comparing with another one.
\* (Its object may be an older deployment of that version.)  And in its
\* statistics no more requests went to the canary than were served in all,
\* across rollbacks that reset one of the two counters.
CanaryAgainstActive == canary # None => canary.current.version = active
CanaryCounts        == canary # None => canary.canaryServed <= canary.served
CanarySound         == CanaryAgainstActive /\ CanaryCounts

\* The active version, once there is one, changes only by promotion, and then
\* to the version that was being canaried.
OnlyPromotionMovesActive ==
    [][active # None /\ active' # active
         => /\ canary # None
            /\ canary.canary # None
            /\ active' = canary.canary.version]_vars

\* route_request: "Route request to appropriate deployment"; a canary's is
\* "Route request to current or canary version".  Every request is given one.
EveryRequestRouted == routed # None
=============================================================================
