-------------------------- MODULE Deployment_proofs --------------------------
(***************************************************************************)
(* Proofs about Deployment, for any set of version strings and any number  *)
(* of deployments, canaries and requests.                                  *)
(***************************************************************************)
EXTENDS Deployment, TLAPS

LEMMA ObjectTyped ==
  ASSUME TypeOK, NEW v \in Versions
  PROVE  Object(v) \in Objects
<1>1. deployments[v] \in Nat
  BY DeploymentAssumption DEF TypeOK
<1> QED BY <1>1 DEF Object, Objects

\* A new CanaryDeployment is one.
LEMMA CanaryTyped ==
  ASSUME NEW a \in Objects, NEW b \in Objects \cup {None},
         NEW i \in Nat, NEW j \in Nat
  PROVE  [current |-> a, canary |-> b, served |-> i, canaryServed |-> j]
           \in Canaries
  BY DEF Canaries

\* The fields of the CanaryDeployment the manager holds.
LEMMA CanaryFields ==
  ASSUME TypeOK, canary # None
  PROVE  /\ canary \in Canaries
         /\ canary.current \in Objects
         /\ canary.canary \in Objects \cup {None}
         /\ canary.served \in Nat
         /\ canary.canaryServed \in Nat
<1>1. canary \in Canaries
  BY DEF TypeOK
<1> QED BY <1>1 DEF Canaries

\* DeploymentVersion objects are not the markers None and NoRequest.
LEMMA ObjectsApart ==
  ASSUME NEW d \in Objects
  PROVE  d # None /\ d # NoRequest /\ d.version \in Versions /\ d.uri \in Nat
<1>1. d # None /\ d # NoRequest
  BY DeploymentAssumption
<1>2. d.version \in Versions /\ d.uri \in Nat
  BY DEF Objects
<1> QED BY <1>1, <1>2

LEMMA InitTyped == Init => TypeOK
  BY DeploymentAssumption DEF Init, TypeOK

LEMMA RouteTyped == ASSUME TypeOK, RouteRequest PROVE TypeOK'
<1>1. CASE RouteByCanary
  <2>1. PICK toCanary \in BOOLEAN :
          /\ routed' = IF toCanary THEN canary.canary ELSE canary.current
          /\ canary' = [canary EXCEPT !.served = @ + 1,
                           !.canaryServed = IF toCanary THEN @ + 1 ELSE @]
    BY <1>1 DEF RouteByCanary
  <2>2. canary # None
    BY <1>1 DEF RouteByCanary
  <2>3. canary' \in Canaries
    <3> DEFINE n == canary.served + 1
               k == IF toCanary THEN canary.canaryServed + 1
                                ELSE canary.canaryServed
    <3>1. n \in Nat /\ k \in Nat
      BY <2>2, CanaryFields
    <3>2. canary' = [canary EXCEPT !.served = n, !.canaryServed = k]
      BY <2>1
    <3> HIDE DEF n, k
    <3> QED BY <3>1, <3>2, <2>2, CanaryFields DEF Canaries
  <2>4. routed' \in Objects \cup {None, NoRequest}
    BY <2>1, <2>2, CanaryFields
  <2> QED BY <1>1, <2>3, <2>4 DEF RouteByCanary, TypeOK
<1>2. CASE RouteByABTest
  <2>1. abTest \in ABTests
    BY <1>2 DEF RouteByABTest, TypeOK
  <2>2. routed' \in Objects
    BY <1>2, <2>1 DEF RouteByABTest, ABTests
  <2> QED BY <1>2, <2>2 DEF RouteByABTest, TypeOK
<1>3. CASE RouteToActive
  <2>1. routed' \in Objects
    BY <1>3, ObjectTyped DEF RouteToActive, TypeOK
  <2> QED BY <1>3, <2>1 DEF RouteToActive, TypeOK
<1> QED BY <1>1, <1>2, <1>3 DEF RouteRequest

LEMMA StepTyped == TypeOK /\ [Next]_vars => TypeOK'
<1> SUFFICES ASSUME TypeOK, [Next]_vars PROVE TypeOK'
  OBVIOUS
<1>1. ASSUME NEW v \in Versions, DeployModel(v) PROVE TypeOK'
  BY <1>1, DeploymentAssumption DEF DeployModel, TypeOK
<1>2. ASSUME NEW v \in Versions, StartCanary(v) PROVE TypeOK'
  <2>1. active \in Versions
    BY <1>2 DEF StartCanary, TypeOK
  <2>2. canary' \in Canaries
    BY <1>2, <2>1, ObjectTyped, CanaryTyped DEF StartCanary
  <2> QED BY <1>2, <2>2 DEF StartCanary, TypeOK
<1>3. ASSUME NEW a \in Versions, NEW b \in Versions, StartABTest(a, b)
      PROVE  TypeOK'
  <2>1. abTest' \in ABTests
    BY <1>3, ObjectTyped DEF StartABTest, ABTests
  <2> QED BY <1>3, <2>1 DEF StartABTest, TypeOK
<1>4. CASE PromoteCanary
  <2>1. active' \in Versions
    BY <1>4, CanaryFields, ObjectsApart DEF PromoteCanary
  <2> QED BY <1>4, <2>1 DEF PromoteCanary, TypeOK
<1>5. CASE Rollback
  <2>1. canary' \in Canaries
    BY <1>5, CanaryFields DEF Rollback, Canaries
  <2> QED BY <1>5, <2>1 DEF Rollback, TypeOK
<1>6. CASE RouteRequest
  BY <1>6, RouteTyped
<1>7. CASE UNCHANGED vars
  BY <1>7 DEF vars, TypeOK
<1> QED BY <1>1, <1>2, <1>3, <1>4, <1>5, <1>6, <1>7 DEF Next

\* The manager's state always has its type.
THEOREM DeploymentTypeCorrect == Spec => []TypeOK
  BY InitTyped, StepTyped, PTL DEF Spec

------------------------------------------------------------------------------
(* Only deployed versions are handed out.                                  *)

\* Deployments are never taken back, so an object once deployed remains so.
LEMMA DeployedKept ==
  ASSUME TypeOK, [Next]_vars
  PROVE  \A v \in Versions : /\ deployments[v] \in Nat /\ deployments'[v] \in Nat
                             /\ deployments[v] <= deployments'[v]
<1> TypeOK'
  BY StepTyped
<1>1. \A v \in Versions : deployments[v] \in Nat /\ deployments'[v] \in Nat
  BY DeploymentAssumption DEF TypeOK
<1>2. CASE deployments' = deployments
  BY <1>1, <1>2
<1>3. ASSUME NEW v \in Versions, DeployModel(v)
      PROVE  \A u \in Versions : deployments[u] <= deployments'[u]
  BY <1>1, <1>3 DEF DeployModel, TypeOK
<1> QED
  BY <1>1, <1>2, <1>3
  DEF Next, vars, StartCanary, StartABTest, PromoteCanary, Rollback,
      RouteRequest, RouteByCanary, RouteByABTest, RouteToActive

LEMMA WasDeployedKept ==
  ASSUME TypeOK, [Next]_vars, NEW d \in Objects, WasDeployed(d)
  PROVE  WasDeployed(d)'
<1>1. d.version \in Versions /\ d.uri \in Nat
  BY ObjectsApart
<1> QED BY <1>1, DeployedKept DEF WasDeployed

LEMMA ObjectDeployed ==
  ASSUME TypeOK, NEW v \in Versions, Deployed(v)
  PROVE  WasDeployed(Object(v))
<1>1. deployments[v] \in Nat
  BY DeploymentAssumption DEF TypeOK
<1> QED BY <1>1 DEF WasDeployed, Object, Deployed

LEMMA StepDeployed == TypeOK /\ OnlyDeployedVersions /\ [Next]_vars
                        => OnlyDeployedVersions'
<1> SUFFICES ASSUME TypeOK, OnlyDeployedVersions, [Next]_vars
             PROVE  OnlyDeployedVersions'
  OBVIOUS
<1> TypeOK'
  BY StepTyped
<1> DEFINE CanaryOK == canary # None =>
             /\ WasDeployed(canary.current)
             /\ canary.canary # None => WasDeployed(canary.canary)
           ABTestOK == abTest # None => WasDeployed(abTest.a) /\ WasDeployed(abTest.b)
           ActiveOK == active # None => Deployed(active)
           RoutedOK == routed \notin {None, NoRequest} => WasDeployed(routed)
\* What stays in place stays deployed.
<1>1. ActiveOK /\ active' = active => ActiveOK'
  BY DeployedKept DEF TypeOK, Deployed
<1>2. CanaryOK /\ canary' = canary => CanaryOK'
  BY WasDeployedKept, CanaryFields
<1>3. ABTestOK /\ abTest' = abTest => ABTestOK'
  BY WasDeployedKept DEF TypeOK, ABTests
<1>4. RoutedOK /\ routed' = routed => RoutedOK'
  BY WasDeployedKept DEF TypeOK
<1>5. ActiveOK /\ CanaryOK /\ ABTestOK /\ RoutedOK
  BY DEF OnlyDeployedVersions
<1> SUFFICES ActiveOK' /\ CanaryOK' /\ ABTestOK' /\ RoutedOK'
  BY DEF OnlyDeployedVersions
<1>6. ASSUME NEW v \in Versions, DeployModel(v)
      PROVE  ActiveOK' /\ CanaryOK' /\ ABTestOK' /\ RoutedOK'
  <2>1. Deployed(v)'
    BY <1>6, DeploymentAssumption DEF DeployModel, TypeOK, Deployed
  <2>2. ActiveOK'
    BY <1>1, <1>5, <1>6, <2>1 DEF DeployModel
  <2> QED BY <2>2, <1>2, <1>3, <1>4, <1>5, <1>6 DEF DeployModel
<1>7. ASSUME NEW v \in Versions, StartCanary(v)
      PROVE  ActiveOK' /\ CanaryOK' /\ ABTestOK' /\ RoutedOK'
  <2>1. active \in Versions /\ Deployed(active) /\ Deployed(v)
    BY <1>5, <1>7 DEF StartCanary, TypeOK
  <2>2. WasDeployed(Object(active)) /\ WasDeployed(Object(v))
    BY <2>1, ObjectDeployed
  <2>3. deployments' = deployments
        /\ canary'.current = Object(active) /\ canary'.canary = Object(v)
    BY <1>7 DEF StartCanary
  <2>4. CanaryOK'
    BY <2>2, <2>3 DEF WasDeployed
  <2> QED BY <2>4, <1>1, <1>3, <1>4, <1>5, <1>7 DEF StartCanary
<1>8. ASSUME NEW a \in Versions, NEW b \in Versions, StartABTest(a, b)
      PROVE  ActiveOK' /\ CanaryOK' /\ ABTestOK' /\ RoutedOK'
  <2>1. WasDeployed(Object(a)) /\ WasDeployed(Object(b))
    BY <1>8, ObjectDeployed DEF StartABTest
  <2>2. deployments' = deployments
        /\ abTest'.a = Object(a) /\ abTest'.b = Object(b)
    BY <1>8 DEF StartABTest
  <2>3. ABTestOK'
    BY <2>1, <2>2 DEF WasDeployed
  <2> QED BY <2>3, <1>1, <1>2, <1>4, <1>5, <1>8 DEF StartABTest
<1>9. CASE PromoteCanary
  <2>1. /\ canary # None /\ canary.canary # None
        /\ active' = canary.canary.version /\ canary' = None
        /\ UNCHANGED <<deployments, abTest, routed>>
    BY <1>9 DEF PromoteCanary
  <2>2. canary.canary \in Objects /\ WasDeployed(canary.canary)
    BY <2>1, <1>5, CanaryFields
  <2>3. deployments[canary.canary.version] \in Nat
    BY <2>2, ObjectsApart, DeploymentAssumption DEF TypeOK
  <2>4. ActiveOK'
    BY <2>1, <2>2, <2>3, ObjectsApart DEF WasDeployed, Deployed
  <2> QED BY <2>1, <2>4, <1>3, <1>4, <1>5
<1>10. CASE Rollback
  <2>1. /\ canary # None /\ canary'.current = canary.current
        /\ canary'.canary = None
        /\ UNCHANGED <<deployments, active, abTest, routed>>
    BY <1>10, CanaryFields DEF Rollback, Canaries
  <2>2. CanaryOK'
    BY <2>1, <1>5 DEF WasDeployed
  <2> QED BY <2>1, <2>2, <1>1, <1>3, <1>4, <1>5
<1>11. CASE RouteByCanary
  <2>1. /\ canary # None
        /\ canary'.current = canary.current /\ canary'.canary = canary.canary
        /\ UNCHANGED <<deployments, active, abTest>>
        /\ routed' \in {canary.canary, canary.current}
    BY <1>11, CanaryFields DEF RouteByCanary, Canaries
  <2>2. CanaryOK' /\ RoutedOK'
    BY <2>1, <1>5 DEF WasDeployed
  <2> QED BY <2>1, <2>2, <1>1, <1>3, <1>5
<1>12. CASE RouteByABTest
  <2>1. /\ abTest # None /\ routed' \in {abTest.a, abTest.b}
        /\ UNCHANGED <<deployments, active, canary, abTest>>
    BY <1>12 DEF RouteByABTest
  <2>2. RoutedOK'
    BY <2>1, <1>5 DEF WasDeployed
  <2> QED BY <2>1, <2>2, <1>1, <1>2, <1>3, <1>5
<1>13. CASE RouteToActive
  <2>1. /\ active \in Versions /\ routed' = Object(active)
        /\ UNCHANGED <<deployments, active, canary, abTest>>
    BY <1>13 DEF RouteToActive, TypeOK
  <2>2. WasDeployed(Object(active))
    BY <2>1, <1>5, <1>13, ObjectDeployed DEF RouteToActive
  <2>3. RoutedOK'
    BY <2>1, <2>2 DEF WasDeployed
  <2> QED BY <2>1, <2>3, <1>1, <1>2, <1>3, <1>5
<1>14. CASE UNCHANGED vars
  BY <1>14, <1>1, <1>2, <1>3, <1>4, <1>5 DEF vars
<1> QED
  BY <1>6, <1>7, <1>8, <1>9, <1>10, <1>11, <1>12, <1>13, <1>14
  DEF Next, RouteRequest

\* No sequence of deploys, canaries, rollbacks and A/B tests routes a request
\* to a version that was not deployed, or makes one the active version.
THEOREM OnlyDeployedHandedOut == Spec => []OnlyDeployedVersions
<1>1. Init => OnlyDeployedVersions
  BY DEF Init, OnlyDeployedVersions
<1> QED BY <1>1, StepDeployed, DeploymentTypeCorrect, PTL DEF Spec

------------------------------------------------------------------------------
(* The active version.                                                     *)

\* Once there is an active version, only promotion moves it.
LEMMA ActiveMoves ==
  ASSUME [Next]_vars, active # None, active' # active
  PROVE  PromoteCanary
  BY DEF Next, vars, DeployModel, StartCanary, StartABTest, Rollback,
         RouteRequest, RouteByCanary, RouteByABTest, RouteToActive

\* Deploys, A/B tests and canaries never move the active version: only the
\* promotion of the version under canary does.
THEOREM ActiveMovesByPromotion == Spec => OnlyPromotionMovesActive
<1>1. [Next]_vars => [active # None /\ active' # active
                        => /\ canary # None
                           /\ canary.canary # None
                           /\ active' = canary.canary.version]_vars
  BY ActiveMoves DEF PromoteCanary
<1> QED BY <1>1, PTL DEF Spec, OnlyPromotionMovesActive

\* CanaryAgainstActive is inductive with the types: a canary is started
\* against the active version, which only its own promotion moves.
CanaryInv == TypeOK /\ CanaryAgainstActive /\ (canary # None => active # None)

LEMMA StepCanary == CanaryInv /\ [Next]_vars => CanaryInv'
<1> SUFFICES ASSUME CanaryInv, [Next]_vars
             PROVE  canary' # None =>
                      canary'.current.version = active' /\ active' # None
  BY StepTyped DEF CanaryInv, CanaryAgainstActive
<1>1. ASSUME canary' = canary, active # None => active' = active
      PROVE  canary' # None =>
               canary'.current.version = active' /\ active' # None
  BY <1>1 DEF CanaryInv, CanaryAgainstActive
<1>2. ASSUME NEW v \in Versions, StartCanary(v)
      PROVE  canary'.current.version = active' /\ active' # None
  BY <1>2 DEF StartCanary, Object
<1>3. ASSUME Rollback \/ RouteByCanary
      PROVE  canary'.current.version = active' /\ active' # None
  <2>1. canary # None /\ active' = active /\ canary'.current = canary.current
    BY <1>3, CanaryFields DEF Rollback, RouteByCanary, Canaries, CanaryInv
  <2> QED BY <2>1 DEF CanaryInv, CanaryAgainstActive
<1>4. CASE PromoteCanary
  BY <1>4 DEF PromoteCanary
<1>5. ASSUME \/ \E v \in Versions : DeployModel(v)
             \/ \E a, b \in Versions : StartABTest(a, b)
             \/ RouteByABTest \/ RouteToActive \/ UNCHANGED vars
      PROVE  canary' = canary /\ (active # None => active' = active)
  BY <1>5 DEF DeployModel, StartABTest, RouteByABTest, RouteToActive, vars
<1> QED BY <1>1, <1>2, <1>3, <1>4, <1>5 DEF Next, RouteRequest

\* A canary is always compared with the version that is active.
LEMMA CanaryComparesActive == Spec => []CanaryAgainstActive
<1>1. Init => CanaryInv
  BY InitTyped DEF Init, CanaryInv, CanaryAgainstActive
<1>2. CanaryInv => CanaryAgainstActive
  BY DEF CanaryInv
<1> QED BY <1>1, <1>2, StepCanary, PTL DEF Spec

------------------------------------------------------------------------------
(* The canary's statistics.                                                *)

\* Rollback resets the smaller of the two counters, and a routed request that
\* counts for the canary counts in all.
LEMMA StepCounts == TypeOK /\ CanaryCounts /\ [Next]_vars => CanaryCounts'
<1> SUFFICES ASSUME TypeOK, CanaryCounts, [Next]_vars, canary' # None
             PROVE  canary'.canaryServed <= canary'.served
  BY DEF CanaryCounts
<1>1. CASE canary' = canary
  BY <1>1 DEF CanaryCounts
<1>2. ASSUME NEW v \in Versions, StartCanary(v)
      PROVE  canary'.canaryServed <= canary'.served
  BY <1>2 DEF StartCanary
<1>3. CASE Rollback
  <2>1. canary' = [canary EXCEPT !.canary = None, !.canaryServed = 0]
        /\ canary # None
    BY <1>3 DEF Rollback
  <2>2. canary'.canaryServed = 0 /\ canary'.served = canary.served
    BY <2>1, CanaryFields DEF Canaries
  <2> QED BY <2>1, <2>2, CanaryFields
<1>4. CASE RouteByCanary
  <2>1. canary # None /\ canary.canaryServed <= canary.served
    BY <1>4 DEF RouteByCanary, CanaryCounts
  <2>2. PICK toCanary \in BOOLEAN :
          canary' = [canary EXCEPT !.served = @ + 1,
                           !.canaryServed = IF toCanary THEN @ + 1 ELSE @]
    BY <1>4 DEF RouteByCanary
  <2>3. /\ canary'.served = canary.served + 1
        /\ canary'.canaryServed \in {canary.canaryServed, canary.canaryServed + 1}
    BY <2>1, <2>2, CanaryFields DEF Canaries
  <2> QED BY <2>1, <2>3, CanaryFields
<1>5. CASE PromoteCanary
  BY <1>5 DEF PromoteCanary
<1>6. ASSUME \/ \E v \in Versions : DeployModel(v)
             \/ \E a, b \in Versions : StartABTest(a, b)
             \/ RouteByABTest \/ RouteToActive \/ UNCHANGED vars
      PROVE  canary' = canary
  BY <1>6 DEF DeployModel, StartABTest, RouteByABTest, RouteToActive, vars
<1> QED BY <1>1, <1>2, <1>3, <1>4, <1>5, <1>6 DEF Next, RouteRequest

\* However canaries are started, promoted and rolled back, no more requests are
\* counted for the canary than were served.
LEMMA CanaryCounted == Spec => []CanaryCounts
<1>1. Init => CanaryCounts
  BY DEF Init, CanaryCounts
<1> QED BY <1>1, StepCounts, DeploymentTypeCorrect, PTL DEF Spec

\* A canary is always compared with the version that is active, and no more
\* requests are counted for it than were served (deployment.py, lines 33 to 84).
THEOREM CanaryIsSound == Spec => []CanarySound
<1>1. CanaryAgainstActive /\ CanaryCounts => CanarySound
  BY DEF CanarySound
<1> QED BY <1>1, CanaryComparesActive, CanaryCounted, PTL
=============================================================================
