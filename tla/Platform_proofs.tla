--------------------------- MODULE Platform_proofs ---------------------------
(***************************************************************************)
(* Proofs about Platform, for any finite set of names and any number of    *)
(* train and serve calls, however they nest.                               *)
(***************************************************************************)
EXTENDS Platform, FiniteSetTheorems, TLAPS

------------------------------------------------------------------------------
(* The inductive invariant.                                                *)

\* What is deployed never outnumbers the serve calls, so that a default id is
\* an id; and the ids in use that were never given are below the next one, so
\* that it is free unless it was given.
DeployedCounted ==
    /\ Cardinality(Deployed) <= serves
    /\ \A id \in Deployed \ given : id \in Nat /\ id < Cardinality(Deployed)

\* A job is listed or in progress for a call of its own.
JobsCounted == NextJob + Len(stack) <= trains

\* Only calls that began have returned, and none that is in progress.
ReturnedBegan ==
    /\ \A c \in Calls : Job(c) # None => c <= trains
    /\ \A i \in DOMAIN stack : Job(stack[i].call) = None

\* A job that took the number of a call in progress, or a later one, began
\* within that call.
NestedLater ==
    \A i \in DOMAIN stack, c \in Calls :
        Job(c) # None /\ Job(c).job >= stack[i].job => c > stack[i].call

\* While a script runs, its call is the innermost and the latest.
ScriptsOnTop ==
    \A i \in DOMAIN stack :
        stack[i].code = "script" => i = Len(stack) /\ stack[i].call = trains

\* What ArtifactAccounted says of jobs, of calls in progress: the file of their
\* id was there when they began, or is their own or a later one's.
FramesAccounted ==
    \A i \in DOMAIN stack :
        LET f == stack[i]
            w == artifacts[f.id]
        IN /\ w # 0 /\ w < f.call => f.stale
           /\ f.wrote => w >= f.call

Inv == /\ TypeOK
       /\ DeployedCounted
       /\ JobsCounted
       /\ ReturnedBegan
       /\ NestedLater
       /\ ScriptsOnTop
       /\ FramesAccounted
       /\ ListedUnlessNested
       /\ ArtifactAccounted

------------------------------------------------------------------------------
(* Dicts.                                                                  *)

LEMMA IdsFinite == IsFiniteSet(Ids) /\ IsFiniteSet(JobIds)
<1>1. IsFiniteSet(0..MaxServes) /\ IsFiniteSet(0..MaxTrains)
  BY FS_Interval, PlatformAssumption
<1> QED BY <1>1, FS_Union, PlatformAssumption DEF Ids, JobIds

\* len(self.jobs) and len(self.deployments) are numbers.
LEMMA DictsFinite ==
  /\ IsFiniteSet(Listed) /\ NextJob \in Nat
  /\ IsFiniteSet(Deployed) /\ DefaultId \in Nat
<1>1. Listed \in SUBSET JobIds /\ Deployed \in SUBSET Ids
  BY DEF Listed, Deployed
<1>2. IsFiniteSet(Listed) /\ IsFiniteSet(Deployed)
  BY <1>1, IdsFinite, FS_Subset
<1> QED BY <1>2, FS_CardinalityType DEF NextJob, DefaultId

\* The default id is an id, and one that nothing is deployed under unless the
\* application has given it.
LEMMA DefaultIdFree ==
  ASSUME TypeOK, DeployedCounted
  PROVE  DefaultId \in Ids /\ (DefaultId \in Deployed => DefaultId \in given)
<1>1. DefaultId \in 0..MaxServes
  BY DictsFinite, PlatformAssumption DEF DeployedCounted, DefaultId, TypeOK
<1> QED BY <1>1, PlatformAssumption DEF Ids, DeployedCounted, DefaultId

\* The dict of deployments after one more.
LEMMA DeployCounts ==
  ASSUME TypeOK, NEW id \in Ids, Deploy(id)
  PROVE  /\ Deployed' = Deployed \cup {id}
         /\ Cardinality(Deployed') = IF id \in Deployed THEN DefaultId ELSE DefaultId + 1
<1>1. Deployed' = Deployed \cup {id}
  BY DEF Deploy, Deployed, TypeOK
<1> QED BY <1>1, DictsFinite, FS_AddElement DEF DefaultId

\* The dict of jobs after train has returned.
LEMMA EndLists ==
  ASSUME TypeOK, NEW n \in JobIds, NEW c \in Calls, jobs' = [jobs EXCEPT ![n] = c]
  PROVE  /\ Listed' = Listed \cup {n}
         /\ NextJob' = IF n \in Listed THEN NextJob ELSE NextJob + 1
<1>1. Listed' = Listed \cup {n}
  <2>1. c # 0
    BY PlatformAssumption DEF Calls
  <2> QED BY <2>1 DEF Listed, TypeOK
<1> QED BY <1>1, DictsFinite, FS_AddElement DEF NextJob

------------------------------------------------------------------------------
(* The stack of calls in progress.                                         *)

LEMMA TopFrame ==
  ASSUME TypeOK, stack # <<>>
  PROVE  /\ Len(stack) \in Nat \ {0}
         /\ Len(stack) \in DOMAIN stack
         /\ Top \in Frames
         /\ Top.call \in Calls /\ Top.job \in JobIds /\ Top.id \in Ids
         /\ Top.wrote \in BOOLEAN /\ Top.stale \in BOOLEAN
         /\ Top.code \in {"callable", "script"}
<1>1. stack \in Seq(Frames)
  BY DEF TypeOK
<1>2. Len(stack) \in Nat \ {0} /\ Len(stack) \in DOMAIN stack
  BY <1>1
<1>3. Top \in Frames
  BY <1>1, <1>2 DEF Top
<1> QED BY <1>2, <1>3 DEF Frames

\* Every frame is one.
LEMMA FrameTyped ==
  ASSUME TypeOK, NEW i \in DOMAIN stack
  PROVE  /\ stack[i] \in Frames
         /\ i \in 1..Len(stack) /\ Len(stack) \in Nat
         /\ stack[i].call \in Calls /\ stack[i].call \in Nat
         /\ stack[i].job \in JobIds /\ stack[i].job \in Nat
         /\ stack[i].id \in Ids
<1>1. stack \in Seq(Frames)
  BY DEF TypeOK
<1>2. stack[i] \in Frames /\ i \in 1..Len(stack) /\ Len(stack) \in Nat
  BY <1>1
<1> QED BY <1>2, PlatformAssumption DEF Frames, Calls, JobIds

LEMMA PopFrames ==
  ASSUME TypeOK, stack # <<>>, Pop
  PROVE  /\ stack' \in Seq(Frames)
         /\ Len(stack') = Len(stack) - 1
         /\ DOMAIN stack' = 1..Len(stack) - 1
         /\ \A i \in DOMAIN stack' : i \in DOMAIN stack /\ i < Len(stack)
                                     /\ stack'[i] = stack[i]
<1> DEFINE n == Len(stack) - 1
<1>1. stack \in Seq(Frames) /\ n \in Nat /\ DOMAIN stack = 1..n + 1
  BY TopFrame DEF TypeOK
<1>2. stack' = SubSeq(stack, 1, n)
  BY DEF Pop
<1>3. \A i \in 1..n : stack[i] \in Frames
  BY <1>1
<1> HIDE DEF n
<1>4. /\ stack' \in Seq(Frames)
      /\ Len(stack') = n
      /\ \A i \in 1..n : stack'[i] = stack[i]
  BY <1>1, <1>2, <1>3
<1>5. DOMAIN stack' = 1..n
  BY <1>4
<1> QED BY <1>1, <1>4, <1>5 DEF n

\* A call in progress other than the innermost began before it.
LEMMA EarlierFrames ==
  ASSUME TypeOK, NEW i \in DOMAIN stack, i < Len(stack)
  PROVE  stack[i].call < Top.call
<1>1. stack # <<>> /\ Len(stack) \in DOMAIN stack
  BY FrameTyped DEF TypeOK
<1> QED BY <1>1 DEF TypeOK, Top
LEMMA PushFrames ==
  ASSUME TypeOK, NEW f \in Frames, stack' = Append(stack, f)
  PROVE  /\ stack' \in Seq(Frames)
         /\ Len(stack') = Len(stack) + 1
         /\ DOMAIN stack' = DOMAIN stack \cup {Len(stack')}
         /\ stack'[Len(stack')] = f
         /\ \A i \in DOMAIN stack : i \in 1..Len(stack) /\ i # Len(stack')
                                    /\ stack'[i] = stack[i]
<1>1. stack \in Seq(Frames) /\ Len(stack) \in Nat
  BY DEF TypeOK
<1> QED BY <1>1

------------------------------------------------------------------------------
(* Steps.                                                                  *)

LEMMA InitInv == Init => Inv
<1> SUFFICES ASSUME Init PROVE Inv
  OBVIOUS
<1>1. Listed = {} /\ Deployed = {} /\ NextJob = 0 /\ Cardinality(Deployed) = 0
  BY FS_EmptySet DEF Init, Listed, Deployed, NextJob
<1>2. stack = <<>> /\ Len(stack) = 0 /\ DOMAIN stack = {} /\ stack \in Seq(Frames)
  BY DEF Init
<1>3. \A c \in Calls : Job(c) = None
  BY DEF Init, Job
<1>4. TypeOK
  <2>1. Listed = {n \in JobIds : n < NextJob}
    BY <1>1, PlatformAssumption DEF JobIds
  <2>2. /\ jobs \in [JobIds -> {0} \cup {c \in 1..trains : Job(c) # None}]
        /\ returned \in [Calls -> TrainingJobs \cup {None}]
    BY DEF Init
  <2>3. /\ trains \in 0..MaxTrains /\ serves \in 0..MaxServes
        /\ deployments \in [Ids -> 0..serves] /\ artifacts \in [Ids -> 0..trains]
        /\ given \subseteq Names
    BY PlatformAssumption DEF Init
  <2> QED BY <1>2, <2>1, <2>2, <2>3 DEF TypeOK
<1>5. DeployedCounted /\ JobsCounted
  BY <1>1, <1>2 DEF Init, DeployedCounted, JobsCounted
<1>6. ReturnedBegan /\ NestedLater /\ ScriptsOnTop /\ FramesAccounted
  BY <1>2, <1>3 DEF ReturnedBegan, NestedLater, ScriptsOnTop, FramesAccounted
<1>7. ListedUnlessNested /\ ArtifactAccounted
  BY <1>3 DEF ListedUnlessNested, ArtifactAccounted
<1> QED BY <1>4, <1>5, <1>6, <1>7 DEF Inv

\* The job number that train takes is that of no job that has returned.
LEMMA JobsBelowNext ==
  ASSUME Inv, NEW c \in Calls, Job(c) # None
  PROVE  Job(c).job \in Nat /\ Job(c).job < NextJob
<1>1. Job(c).job \in JobIds
  BY DEF Inv, TypeOK, Job, TrainingJobs
<1>2. Job(c).job \in Listed
  BY <1>1 DEF Inv, ListedUnlessNested, Listed
<1> QED BY <1>1, <1>2, PlatformAssumption DEF Inv, TypeOK, JobIds

LEMMA BeginInv ==
  ASSUME Inv, NEW id \in Ids, NEW code \in {"callable", "script"}, Begin(code, id)
  PROVE  Inv'
<1> DEFINE f == [call |-> trains + 1, job |-> NextJob, id |-> id, code |-> code,
                 wrote |-> FALSE, stale |-> artifacts[id] # 0]
<1>0. TypeOK
  BY DEF Inv
<1>1. /\ trains' = trains + 1
      /\ trains < MaxTrains
      /\ stack' = Append(stack, f)
      /\ UNCHANGED <<serves, jobs, deployments, returned, artifacts, given>>
  BY DEF Begin
<1>2. trains \in Nat /\ Len(stack) \in Nat /\ NextJob \in Nat /\ serves \in Nat
      /\ artifacts[id] \in 0..trains
  BY <1>0, DictsFinite, PlatformAssumption DEF TypeOK
<1>3. f \in Frames
  BY <1>1, <1>2, PlatformAssumption DEF Frames, Calls, JobIds, Inv, JobsCounted
<1>4. /\ f.call = trains + 1 /\ f.job = NextJob /\ f.id = id /\ f.code = code
      /\ f.wrote = FALSE /\ f.stale = (artifacts[id] # 0)
  OBVIOUS
<1> HIDE DEF f
<1>5. /\ stack' \in Seq(Frames)
      /\ Len(stack') = Len(stack) + 1
      /\ DOMAIN stack' = DOMAIN stack \cup {Len(stack')}
      /\ stack'[Len(stack')] = f
      /\ \A i \in DOMAIN stack : i \in 1..Len(stack) /\ i # Len(stack')
                                 /\ stack'[i] = stack[i]
  BY <1>0, <1>1, <1>3, PushFrames
<1>6. Listed' = Listed /\ NextJob' = NextJob /\ Deployed' = Deployed
      /\ \A c : Job(c)' = Job(c)
  BY <1>1 DEF Listed, NextJob, Deployed, Job
<1>7. \A i \in DOMAIN stack : /\ stack[i].call <= trains /\ stack[i].call \in Nat
                              /\ stack[i].job <= NextJob /\ stack[i].id \in Ids
  BY <1>0, FrameTyped DEF TypeOK
<1>8. TypeOK'
  <2>1. \A i, j \in DOMAIN stack' : i < j => stack'[i].call < stack'[j].call
    BY <1>0, <1>2, <1>4, <1>5, <1>7 DEF TypeOK
  <2>2. \A i \in DOMAIN stack' : stack'[i].call <= trains' /\ stack'[i].job <= NextJob'
    BY <1>1, <1>2, <1>4, <1>5, <1>6, <1>7
  <2>3. trains' \in 0..MaxTrains
    BY <1>1, <1>2, PlatformAssumption
  <2>4. jobs' \in [JobIds -> {0} \cup {c \in 1..trains' : Job(c)' # None}]
    BY <1>0, <1>1, <1>2, <1>6 DEF TypeOK
  <2>5. artifacts' \in [Ids -> 0..trains']
    BY <1>0, <1>1, <1>2 DEF TypeOK
  <2> QED BY <1>0, <1>1, <1>5, <1>6, <2>1, <2>2, <2>3, <2>4, <2>5 DEF TypeOK
<1>9. DeployedCounted' /\ JobsCounted'
  BY <1>1, <1>2, <1>5, <1>6 DEF Inv, DeployedCounted, JobsCounted
<1>10. ReturnedBegan'
  <2>1. Job(trains + 1) = None
    BY <1>1, <1>2, PlatformAssumption DEF Inv, ReturnedBegan, Calls
  <2>2. \A c \in Calls : Job(c)' # None => c <= trains'
    BY <1>1, <1>2, <1>6, PlatformAssumption DEF Inv, ReturnedBegan, Calls
  <2>3. \A i \in DOMAIN stack' : Job(stack'[i].call) = None
    BY <1>4, <1>5, <2>1 DEF Inv, ReturnedBegan
  <2> QED BY <1>6, <2>2, <2>3 DEF ReturnedBegan
<1>11. NestedLater'
  <2>1. \A c \in Calls : Job(c) # None => ~(Job(c).job >= f.job)
    BY <1>2, <1>4, JobsBelowNext
  <2> QED BY <1>5, <1>6, <2>1 DEF Inv, NestedLater
<1>12. ScriptsOnTop'
  <2>1. \A i \in DOMAIN stack : stack[i].code # "script"
    BY <1>5 DEF Inv, ScriptsOnTop, Begin, AppRuns, Top
  <2> QED BY <1>1, <1>4, <1>5, <2>1 DEF ScriptsOnTop
<1>13. FramesAccounted'
  <2>1. artifacts' = artifacts
    BY <1>1
  <2> QED BY <1>2, <1>4, <1>5, <2>1 DEF Inv, FramesAccounted
<1>14. ListedUnlessNested' /\ ArtifactAccounted'
  BY <1>1, <1>6 DEF Inv, ListedUnlessNested, ArtifactAccounted
<1> QED BY <1>8, <1>9, <1>10, <1>11, <1>12, <1>13, <1>14 DEF Inv

LEMMA EndInv ==
  ASSUME Inv, stack # <<>>,
         NEW result \in {"model", "artifact", "error", "nothing"}, End(result),
         result = "artifact" => artifacts[Top.id] # 0
  PROVE  Inv'
<1> DEFINE r == [job |-> Top.job, id |-> Top.id, wrote |-> Top.wrote,
                 stale |-> Top.stale, result |-> result]
           c0 == Top.call
           n0 == Top.job
           k  == Len(stack)
<1>0. TypeOK
  BY DEF Inv
<1>1. /\ returned' = [returned EXCEPT ![c0] = r]
      /\ jobs' = [jobs EXCEPT ![n0] = c0]
      /\ Pop
      /\ UNCHANGED <<trains, serves, deployments, artifacts, given>>
  BY DEF End
<1>2. /\ k \in Nat \ {0} /\ k \in DOMAIN stack /\ Top = stack[k]
      /\ c0 \in Calls /\ n0 \in JobIds /\ Top.id \in Ids
      /\ c0 <= trains /\ n0 <= NextJob /\ Job(c0) = None
  BY <1>0, TopFrame DEF Inv, TypeOK, ReturnedBegan, Top
<1>3. r \in TrainingJobs
  BY <1>0, TopFrame DEF TrainingJobs
<1>4. /\ r.job = n0 /\ r.id = Top.id /\ r.wrote = Top.wrote
      /\ r.stale = Top.stale /\ r.result = result /\ r # None
  BY <1>3, NoneAssumption
<1>5. trains \in Nat /\ c0 \in Nat /\ n0 \in Nat /\ NextJob \in Nat /\ MaxTrains \in Nat
  BY <1>0, <1>2, DictsFinite, PlatformAssumption DEF TypeOK, Calls, JobIds
<1>6. /\ stack' \in Seq(Frames)
      /\ Len(stack') = k - 1
      /\ \A i \in DOMAIN stack' : i \in DOMAIN stack /\ i < k /\ i \in Nat
                                  /\ stack'[i] = stack[i]
  BY <1>0, <1>1, PopFrames
<1>7. \A i \in DOMAIN stack' : /\ stack[i].call \in Nat /\ stack[i].call < c0
                               /\ stack[i].job \in Nat /\ stack[i].job <= NextJob
                               /\ stack[i].call <= trains /\ stack[i].id \in Ids
  BY <1>0, <1>6, EarlierFrames, FrameTyped DEF TypeOK
<1>8. /\ Listed' = Listed \cup {n0}
      /\ NextJob' = IF n0 \in Listed THEN NextJob ELSE NextJob + 1
  BY <1>0, <1>1, <1>2, EndLists
<1> HIDE DEF r, c0, n0, k
<1>9. \A c \in Calls : returned'[c] = IF c = c0 THEN r ELSE Job(c)
  BY <1>0, <1>1 DEF TypeOK, Job
<1>10. Deployed' = Deployed
  BY <1>1 DEF Deployed
<1>11. \A n \in JobIds : jobs'[n] = IF n = n0 THEN c0 ELSE jobs[n]
  BY <1>0, <1>1 DEF TypeOK
<1>12. \A n \in JobIds : jobs[n] # 0 => jobs[n] \in Calls /\ Job(jobs[n]) # None
  BY <1>0, <1>5 DEF TypeOK, Calls
<1>13. TypeOK'
  <2>1. Listed' = {n \in JobIds : n < NextJob'}
    <3>1. JobIds \subseteq Nat
      BY PlatformAssumption DEF JobIds
    <3>2. Listed = {n \in JobIds : n < NextJob}
      BY <1>0 DEF TypeOK
    <3>3. CASE n0 \in Listed
      BY <1>8, <3>2, <3>3
    <3>4. CASE n0 \notin Listed
      <4>1. n0 = NextJob /\ NextJob' = n0 + 1
        BY <1>2, <1>5, <1>8, <3>2, <3>4
      <4>2. \A n \in JobIds : n < n0 + 1 <=> n < n0 \/ n = n0
        BY <1>5, <3>1
      <4> QED BY <1>2, <1>8, <3>2, <4>1, <4>2
    <3> QED BY <3>3, <3>4
  <2>2. jobs' \in [JobIds -> {0} \cup {c \in 1..trains' : returned'[c] # None}]
    <3>1. c0 \in 1..trains /\ returned'[c0] # None
      BY <1>2, <1>4, <1>5, <1>9 DEF Calls
    <3>2. \A c \in 1..trains : Job(c) # None => returned'[c] # None
      <4>1. trains \in 0..MaxTrains
        BY <1>0 DEF TypeOK
      <4>2. \A c \in 1..trains : c \in Calls
        BY <1>5, <4>1 DEF Calls
      <4> QED BY <1>4, <1>9, <4>2
    <3> QED BY <1>0, <1>1, <3>1, <3>2 DEF TypeOK
  <2>3. returned' \in [Calls -> TrainingJobs \cup {None}]
    BY <1>0, <1>1, <1>3 DEF TypeOK
  <2>4. \A i, j \in DOMAIN stack' : i < j => stack'[i].call < stack'[j].call
    BY <1>0, <1>6 DEF TypeOK
  <2>5. \A i \in DOMAIN stack' : stack'[i].call <= trains /\ stack'[i].job <= NextJob'
    BY <1>5, <1>6, <1>7, <1>8
  <2> QED BY <1>0, <1>1, <1>6, <2>1, <2>2, <2>3, <2>4, <2>5 DEF TypeOK, Job
<1>14. DeployedCounted' /\ JobsCounted'
  BY <1>1, <1>2, <1>5, <1>6, <1>8, <1>10 DEF Inv, DeployedCounted, JobsCounted, k
<1>15. ReturnedBegan'
  <2>1. \A c \in Calls : returned'[c] # None => c <= trains'
    BY <1>1, <1>2, <1>9 DEF Inv, ReturnedBegan
  <2>2. \A i \in DOMAIN stack' : /\ stack[i].call \in Calls /\ stack[i].call # c0
                                 /\ Job(stack[i].call) = None
    BY <1>0, <1>5, <1>6, <1>7, FrameTyped DEF Inv, ReturnedBegan
  <2>3. \A i \in DOMAIN stack' : returned'[stack'[i].call] = None
    BY <1>6, <1>9, <2>2
  <2> QED BY <2>1, <2>3 DEF ReturnedBegan, Job
<1>16. NestedLater'
  BY <1>4, <1>6, <1>7, <1>9 DEF Inv, NestedLater, Job
<1>17. ScriptsOnTop'
  BY <1>2, <1>6 DEF Inv, ScriptsOnTop, k
<1>18. FramesAccounted'
  BY <1>1, <1>6 DEF Inv, FramesAccounted
<1>19. ListedUnlessNested'
  <2> SUFFICES ASSUME NEW c \in Calls, returned'[c] # None
               PROVE  LET d == jobs'[returned'[c].job]
                      IN d # 0 /\ d <= c /\ returned'[d].job = returned'[c].job
    BY DEF ListedUnlessNested, Job
  <2>1. CASE c = c0
    BY <1>2, <1>4, <1>5, <1>9, <1>11, <2>1 DEF Calls
  <2>2. CASE c # c0
    <3>1. returned'[c] = Job(c) /\ Job(c) # None
      BY <1>9, <2>2
    <3>2. Job(c).job \in JobIds /\ Job(c).job \in Nat
      BY <1>0, <3>1, PlatformAssumption DEF TypeOK, Job, TrainingJobs, JobIds
    <3>3. CASE Job(c).job = n0
      <4>1. c > c0
        BY <1>2, <1>5, <3>1, <3>3 DEF Inv, NestedLater, c0, n0
      <4> QED BY <1>2, <1>4, <1>5, <1>9, <1>11, <3>1, <3>2, <3>3, <4>1 DEF Calls
    <3>4. CASE Job(c).job # n0
      <4> DEFINE d == jobs[Job(c).job]
      <4>1. d # 0 /\ d <= c /\ Job(d).job = Job(c).job
        BY <3>1 DEF Inv, ListedUnlessNested
      <4>2. d \in Calls /\ Job(d) # None
        BY <1>12, <3>2, <4>1
      <4>3. returned'[d] = Job(d)
        BY <1>2, <1>9, <4>2
      <4>4. jobs'[Job(c).job] = d
        BY <1>11, <3>2, <3>4
      <4> QED BY <3>1, <4>1, <4>3, <4>4
    <3> QED BY <3>3, <3>4
  <2> QED BY <2>1, <2>2
<1>20. ArtifactAccounted'
  <2> SUFFICES ASSUME NEW c \in Calls, returned'[c] # None, returned'[c].result = "artifact"
               PROVE  LET w == artifacts[returned'[c].id]
                      IN w # 0 /\ (w < c => returned'[c].stale /\ ~returned'[c].wrote)
    BY <1>1 DEF ArtifactAccounted, Job
  <2>1. CASE c = c0
    <3> DEFINE w == artifacts[Top.id]
    <3>1. w \in Nat /\ w # 0
      BY <1>0, <1>2, <1>4, <1>5, <1>9, <2>1 DEF TypeOK
    <3>2. w < c0 => Top.stale
      BY <1>2, <3>1 DEF Inv, FramesAccounted, c0
    <3>3. Top.wrote => w >= c0
      BY <1>2, <3>1 DEF Inv, FramesAccounted, c0
    <3>4. w < c0 => ~Top.wrote
      BY <1>5, <3>1, <3>3
    <3> QED BY <1>4, <1>9, <2>1, <3>1, <3>2, <3>4
  <2>2. CASE c # c0
    BY <1>9, <2>2 DEF Inv, ArtifactAccounted, Job
  <2> QED BY <2>1, <2>2
<1> QED BY <1>13, <1>14, <1>15, <1>16, <1>17, <1>18, <1>19, <1>20 DEF Inv

LEMMA InterruptedInv ==
  ASSUME Inv, Interrupted
  PROVE  Inv'
<1>0. TypeOK /\ stack # <<>>
  BY DEF Inv, Interrupted
<1>1. Pop /\ UNCHANGED <<trains, serves, jobs, deployments, returned, artifacts, given>>
  BY DEF Interrupted
<1>2. /\ stack' \in Seq(Frames)
      /\ Len(stack') = Len(stack) - 1
      /\ \A i \in DOMAIN stack' : i \in DOMAIN stack /\ i < Len(stack)
                                  /\ stack'[i] = stack[i]
  BY <1>0, <1>1, PopFrames
<1>3. Len(stack) \in Nat /\ trains \in Nat /\ NextJob \in Nat
  BY <1>0, DictsFinite, TopFrame, PlatformAssumption DEF TypeOK
<1>4. Listed' = Listed /\ NextJob' = NextJob /\ Deployed' = Deployed
  BY <1>1 DEF Listed, NextJob, Deployed
<1>5. TypeOK'
  BY <1>0, <1>1, <1>2, <1>4 DEF TypeOK, Job
<1>6. DeployedCounted' /\ JobsCounted'
  BY <1>1, <1>2, <1>3, <1>4 DEF Inv, DeployedCounted, JobsCounted
<1>7. ReturnedBegan' /\ NestedLater'
  BY <1>1, <1>2 DEF Inv, ReturnedBegan, NestedLater, Job
<1>8. ScriptsOnTop' /\ FramesAccounted'
  BY <1>1, <1>2, <1>3 DEF Inv, ScriptsOnTop, FramesAccounted
<1>9. ListedUnlessNested' /\ ArtifactAccounted'
  BY <1>1 DEF Inv, ListedUnlessNested, ArtifactAccounted, Job
<1> QED BY <1>5, <1>6, <1>7, <1>8, <1>9 DEF Inv

LEMMA ScriptWritesInv ==
  ASSUME Inv, ScriptWrites
  PROVE  Inv'
<1> DEFINE k == Len(stack)
           t == Top
<1>0. TypeOK /\ stack # <<>>
  BY DEF Inv, ScriptWrites, ScriptRuns
<1>1. /\ artifacts' = [artifacts EXCEPT ![t.id] = t.call]
      /\ stack' = [stack EXCEPT ![k].wrote = TRUE]
      /\ UNCHANGED <<trains, serves, jobs, deployments, returned, given>>
  BY DEF ScriptWrites
<1>2. /\ k \in Nat \ {0} /\ k \in DOMAIN stack /\ t = stack[k] /\ t \in Frames
      /\ t.call \in Calls /\ t.id \in Ids /\ t.code = "script"
  BY <1>0, TopFrame DEF Top, ScriptWrites, ScriptRuns
<1>3. t.call = trains /\ trains \in Nat
  BY <1>0, <1>2, PlatformAssumption DEF Inv, ScriptsOnTop, TypeOK
<1>4. /\ stack' \in Seq(Frames) /\ DOMAIN stack' = DOMAIN stack /\ Len(stack') = k
      /\ \A i \in DOMAIN stack : i # k => stack'[i] = stack[i]
      /\ stack'[k] = [t EXCEPT !.wrote = TRUE]
  <2>1. stack \in Seq(Frames) /\ [t EXCEPT !.wrote = TRUE] \in Frames
    BY <1>0, <1>2 DEF TypeOK, Frames
  <2>2. stack' = [stack EXCEPT ![k] = [t EXCEPT !.wrote = TRUE]]
    BY <1>1, <1>2
  <2> QED BY <1>2, <2>1, <2>2
<1>5. /\ stack'[k].call = t.call /\ stack'[k].job = t.job /\ stack'[k].id = t.id
      /\ stack'[k].code = t.code /\ stack'[k].stale = t.stale
  BY <1>2, <1>4 DEF Frames
<1> HIDE DEF k, t
<1>6. \A i \in DOMAIN stack :
         /\ stack'[i].call = stack[i].call /\ stack'[i].job = stack[i].job
         /\ stack'[i].id = stack[i].id /\ stack'[i].code = stack[i].code
         /\ stack'[i].stale = stack[i].stale
  BY <1>2, <1>4, <1>5
<1>7. Listed' = Listed /\ NextJob' = NextJob /\ Deployed' = Deployed
  BY <1>1 DEF Listed, NextJob, Deployed
<1>8. \A id \in Ids : /\ artifacts[id] \in 0..trains
                      /\ artifacts'[id] = IF id = t.id THEN trains ELSE artifacts[id]
  BY <1>0, <1>1, <1>3 DEF TypeOK
<1>9. TypeOK'
  <2>1. artifacts' \in [Ids -> 0..trains']
    <3>1. artifacts' = [artifacts EXCEPT ![t.id] = trains]
      BY <1>1, <1>3
    <3>2. trains' = trains /\ trains \in 0..trains /\ artifacts \in [Ids -> 0..trains]
      BY <1>0, <1>1, <1>3 DEF TypeOK
    <3> QED BY <3>1, <3>2
  <2>2. \A i, j \in DOMAIN stack' : i < j => stack'[i].call < stack'[j].call
    BY <1>0, <1>4, <1>6 DEF TypeOK
  <2>3. \A i \in DOMAIN stack' : stack'[i].call <= trains' /\ stack'[i].job <= NextJob'
    BY <1>0, <1>1, <1>4, <1>6, <1>7 DEF TypeOK
  <2> QED BY <1>0, <1>1, <1>4, <1>7, <2>1, <2>2, <2>3 DEF TypeOK, Job
<1>10. DeployedCounted' /\ JobsCounted'
  BY <1>1, <1>4, <1>7 DEF Inv, DeployedCounted, JobsCounted, k
<1>11. ReturnedBegan' /\ NestedLater'
  BY <1>1, <1>4, <1>6 DEF Inv, ReturnedBegan, NestedLater, Job
<1>12. ScriptsOnTop'
  <2>1. Len(stack') = Len(stack)
    BY <1>4 DEF k
  <2> QED BY <1>1, <1>4, <1>6, <2>1 DEF Inv, ScriptsOnTop
<1>13. FramesAccounted'
  <2> SUFFICES ASSUME NEW i \in DOMAIN stack
               PROVE  LET f == stack'[i]
                          w == artifacts'[f.id]
                      IN /\ w # 0 /\ w < f.call => f.stale
                         /\ f.wrote => w >= f.call
    BY <1>4 DEF FramesAccounted
  <2>1. /\ stack[i].call \in Nat /\ stack[i].call <= trains
        /\ stack[i].id \in Ids /\ artifacts[stack[i].id] \in Nat
    BY <1>0, <1>3, <1>8, FrameTyped DEF TypeOK
  <2>2. CASE stack[i].id = t.id
    BY <1>3, <1>6, <1>8, <2>1, <2>2
  <2>3. CASE stack[i].id # t.id
    <3>1. i # k /\ stack'[i] = stack[i] /\ artifacts'[stack[i].id] = artifacts[stack[i].id]
      BY <1>2, <1>4, <1>8, <2>1, <2>3
    <3> QED BY <3>1 DEF Inv, FramesAccounted
  <2> QED BY <2>2, <2>3
<1>14. ListedUnlessNested'
  BY <1>1 DEF Inv, ListedUnlessNested, Job
<1>15. ArtifactAccounted'
  <2> SUFFICES ASSUME NEW c \in Calls, Job(c) # None, Job(c).result = "artifact"
               PROVE  LET w == artifacts'[Job(c).id]
                      IN w # 0 /\ (w < c => Job(c).stale /\ ~Job(c).wrote)
    BY <1>1 DEF ArtifactAccounted, Job
  <2>1. Job(c).id \in Ids /\ c <= trains /\ c \in Nat
    BY <1>0, PlatformAssumption
       DEF Inv, ReturnedBegan, TypeOK, Job, TrainingJobs, Calls
  <2>2. CASE Job(c).id = t.id
    BY <1>2, <1>3, <1>8, <2>1, <2>2 DEF Calls
  <2>3. CASE Job(c).id # t.id
    BY <1>8, <2>1, <2>3 DEF Inv, ArtifactAccounted
  <2> QED BY <2>2, <2>3
<1> QED BY <1>9, <1>10, <1>11, <1>12, <1>13, <1>14, <1>15 DEF Inv

LEMMA DeployInv ==
  ASSUME Inv, NEW id \in Names \cup {DefaultId}, Deploy(id),
         \/ id = DefaultId /\ given' = given
         \/ id \in Names /\ given' = given \cup {id}
  PROVE  Inv'
<1>0. TypeOK /\ id \in Ids
  BY DefaultIdFree DEF Inv, Ids
<1>1. /\ serves' = serves + 1 /\ serves < MaxServes
      /\ deployments' = [deployments EXCEPT ![id] = serves + 1]
      /\ UNCHANGED <<trains, stack, jobs, returned, artifacts>>
  BY DEF Deploy
<1>2. serves \in Nat /\ DefaultId \in Nat
  BY <1>0, DictsFinite, PlatformAssumption DEF TypeOK
<1>3. /\ Deployed' = Deployed \cup {id}
      /\ Cardinality(Deployed') = IF id \in Deployed THEN DefaultId ELSE DefaultId + 1
  BY <1>0, DeployCounts
<1>4. Listed' = Listed /\ NextJob' = NextJob
  BY <1>1 DEF Listed, NextJob
<1>5. TypeOK'
  <2>1. serves' \in 0..MaxServes /\ deployments' \in [Ids -> 0..serves']
    BY <1>0, <1>1, <1>2, PlatformAssumption DEF TypeOK
  <2>2. given' \subseteq Names
    BY <1>0 DEF TypeOK
  <2> QED BY <1>0, <1>1, <1>4, <2>1, <2>2 DEF TypeOK, Job
<1>6. DeployedCounted'
  <2>1. DefaultId <= serves /\ \A x \in Deployed \ given : x \in Nat /\ x < DefaultId
    BY DEF Inv, DeployedCounted, DefaultId
  <2>2. given \subseteq given'
    OBVIOUS
  <2>3. Cardinality(Deployed') <= serves'
    BY <1>1, <1>2, <1>3, <2>1
  <2>4. ASSUME NEW x \in Deployed' \ given'
        PROVE  x \in Nat /\ x < Cardinality(Deployed')
    <3>1. CASE x = id
      <4>1. id = DefaultId /\ given' = given /\ id \notin Deployed
        BY <2>4, <3>1, DefaultIdFree DEF Inv
      <4> QED BY <1>2, <1>3, <3>1, <4>1
    <3>2. CASE x # id
      <4>1. x \in Deployed \ given
        BY <1>3, <2>2, <2>4, <3>2
      <4>2. x \in Nat /\ x < DefaultId
        BY <2>1, <4>1
      <4> QED BY <1>2, <1>3, <4>2
    <3> QED BY <3>1, <3>2
  <2> QED BY <2>3, <2>4 DEF DeployedCounted
<1>7. JobsCounted' /\ ReturnedBegan' /\ NestedLater'
  BY <1>1, <1>4 DEF Inv, JobsCounted, ReturnedBegan, NestedLater, Job
<1>8. ScriptsOnTop' /\ FramesAccounted'
  BY <1>1 DEF Inv, ScriptsOnTop, FramesAccounted
<1>9. ListedUnlessNested' /\ ArtifactAccounted'
  BY <1>1 DEF Inv, ListedUnlessNested, ArtifactAccounted, Job
<1> QED BY <1>5, <1>6, <1>7, <1>8, <1>9 DEF Inv

LEMMA RestartInv ==
  ASSUME Inv, Restart
  PROVE  Inv'
<1>1. /\ Listed' = {} /\ Deployed' = {} /\ NextJob' = 0 /\ Cardinality(Deployed') = 0
  BY FS_EmptySet DEF Restart, Listed, Deployed, NextJob
<1>2. /\ stack' = <<>> /\ Len(stack') = 0 /\ DOMAIN stack' = {}
      /\ stack' \in Seq(Frames) /\ \A c \in Calls : returned'[c] = None
      /\ given' = {}
      /\ UNCHANGED <<trains, serves, artifacts>>
  BY DEF Restart
<1>3. trains \in Nat /\ serves \in Nat
  BY PlatformAssumption DEF Inv, TypeOK
<1>4. TypeOK'
  <2>1. Listed' = {n \in JobIds : n < NextJob'}
    BY <1>1, PlatformAssumption DEF JobIds
  <2>2. /\ jobs' \in [JobIds -> {0} \cup {c \in 1..trains' : Job(c)' # None}]
        /\ returned' \in [Calls -> TrainingJobs \cup {None}]
        /\ deployments' \in [Ids -> 0..serves']
    BY <1>3 DEF Restart
  <2>3. trains' \in 0..MaxTrains /\ serves' \in 0..MaxServes
        /\ artifacts' \in [Ids -> 0..trains'] /\ given' \subseteq Names
    BY <1>2 DEF Inv, TypeOK
  <2> QED BY <1>2, <2>1, <2>2, <2>3 DEF TypeOK
<1>5. DeployedCounted' /\ JobsCounted'
  BY <1>1, <1>2, <1>3 DEF DeployedCounted, JobsCounted
<1>6. ReturnedBegan' /\ NestedLater' /\ ScriptsOnTop' /\ FramesAccounted'
  BY <1>2 DEF ReturnedBegan, NestedLater, ScriptsOnTop, FramesAccounted, Job
<1>7. ListedUnlessNested' /\ ArtifactAccounted'
  BY <1>2 DEF ListedUnlessNested, ArtifactAccounted, Job
<1> QED BY <1>4, <1>5, <1>6, <1>7 DEF Inv

LEMMA StepInv == Inv /\ [Next]_vars => Inv'
<1> SUFFICES ASSUME Inv, [Next]_vars PROVE Inv'
  OBVIOUS
<1>1. ASSUME NEW id \in Names \cup {DefaultId}, TrainCallable(id) \/ TrainScript(id)
      PROVE  Inv'
  <2>1. id \in Ids
    BY DefaultIdFree DEF Inv, Ids
  <2> QED BY <1>1, <2>1, BeginInv DEF TrainCallable, TrainScript
<1>2. CASE CallableReturns
  BY <1>2, EndInv DEF CallableReturns
<1>3. CASE Interrupted
  BY <1>3, InterruptedInv
<1>4. CASE ScriptWrites
  BY <1>4, ScriptWritesInv
<1>5. CASE ScriptFails
  BY <1>5, EndInv DEF ScriptFails, ScriptRuns
<1>6. CASE ScriptExits
  <2>1. CASE artifacts[Top.id] # 0
    BY <1>6, <2>1, EndInv DEF ScriptExits, ScriptRuns
  <2>2. CASE artifacts[Top.id] = 0
    BY <1>6, <2>2, EndInv DEF ScriptExits, ScriptRuns
  <2> QED BY <2>1, <2>2
<1>7. CASE ServeDefault
  BY <1>7, DeployInv DEF ServeDefault
<1>8. CASE ServeNamed
  BY <1>8, DeployInv DEF ServeNamed
<1>9. CASE Restart
  BY <1>9, RestartInv
<1>10. CASE UNCHANGED vars
  <2>1. /\ Listed' = Listed /\ Deployed' = Deployed /\ NextJob' = NextJob
        /\ UNCHANGED <<trains, serves, stack, jobs, deployments, returned, artifacts, given>>
    BY <1>10 DEF vars, Listed, Deployed, NextJob
  <2>2. TypeOK' /\ DeployedCounted' /\ JobsCounted'
    BY <2>1 DEF Inv, TypeOK, DeployedCounted, JobsCounted, Job
  <2>3. ReturnedBegan' /\ NestedLater' /\ ScriptsOnTop' /\ FramesAccounted'
    BY <2>1 DEF Inv, ReturnedBegan, NestedLater, ScriptsOnTop, FramesAccounted, Job
  <2>4. ListedUnlessNested' /\ ArtifactAccounted'
    BY <2>1 DEF Inv, ListedUnlessNested, ArtifactAccounted, Job
  <2> QED BY <2>2, <2>3, <2>4 DEF Inv
<1> QED BY <1>1, <1>2, <1>3, <1>4, <1>5, <1>6, <1>7, <1>8, <1>9, <1>10 DEF Next

LEMMA Invariance == Spec => []Inv
BY InitInv, StepInv, PTL DEF Spec

------------------------------------------------------------------------------
(* Theorems.                                                               *)

\* Jobs are numbered without gaps and only those of calls that returned are
\* listed, however train calls nest and are interrupted.
THEOREM PlatformTypeCorrect == Spec => []TypeOK
<1>1. Inv => TypeOK
  BY DEF Inv
<1> QED BY <1>1, Invariance, PTL

\* A TrainingJob handed out is listed under its id unless the job of a call it
\* ran inside of took that place (train, lines 253 and 305).
THEOREM JobsListed == Spec => []ListedUnlessNested
<1>1. Inv => ListedUnlessNested
  BY DEF Inv
<1> QED BY <1>1, Invariance, PTL

\* A job that completed with an artifact has a file at its path, which is older
\* than the call only when the call found it and wrote none (lines 273 to 296).
THEOREM ArtifactsAccounted == Spec => []ArtifactAccounted
<1>1. Inv => ArtifactAccounted
  BY DEF Inv
<1> QED BY <1>1, Invariance, PTL

\* serve takes an endpoint out of the list only under an id that the
\* application has given it, whatever ids it gives (lines 349 and 352).
THEOREM DefaultsReplaceNothing == Spec => DefaultReplacesNothing
<1> DEFINE Kept == \A id \in Ids :
                      deployments[id] # 0 /\ deployments'[id] \notin {deployments[id], 0}
                        => id \in given'
<1>1. ASSUME Inv, [Next]_vars PROVE [Kept]_vars
  <2>1. ASSUME NEW d \in Names \cup {DefaultId}, Deploy(d),
               \/ d = DefaultId /\ given' = given
               \/ d \in Names /\ given' = given \cup {d}
        PROVE  Kept
    <3>1. \A id \in Ids : deployments'[id] = IF id = d THEN serves + 1 ELSE deployments[id]
      BY <1>1, <2>1 DEF Deploy, Inv, TypeOK
    <3>2. d \in Ids /\ deployments[d] # 0 => d \in given'
      BY <1>1, <2>1, DefaultIdFree DEF Inv, Deployed
    <3> QED BY <3>1, <3>2
  <2>2. CASE Restart
    BY <2>2 DEF Restart
  <2>3. CASE deployments' = deployments
    BY <2>3
  <2> QED BY <1>1, <2>1, <2>2, <2>3
          DEF Next, TrainCallable, TrainScript, Begin, CallableReturns, End, Interrupted,
              ScriptWrites, ScriptFails, ScriptExits, ServeDefault, ServeNamed, vars
<1> QED BY <1>1, Invariance, PTL DEF Spec, DefaultReplacesNothing

=============================================================================
