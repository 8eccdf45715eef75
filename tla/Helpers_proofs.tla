--------------------------- MODULE Helpers_proofs ---------------------------
(***************************************************************************)
(* Proofs about the parts Helpers puts together.  For each part there is    *)
(* an invariant of its own, which a step of another part leaves alone, and *)
(* from it follow the properties that Helpers states.                      *)
(***************************************************************************)
EXTENDS Helpers, Counting_proofs, SequenceTheorems

------------------------------------------------------------------------------
(* HybridCache: the result cache and the semantic cache keep the latest    *)
(* results, the one by model and input, the other by input.                *)

Results == [model : Models, input : Inputs, truthy : BOOLEAN, valid : BOOLEAN]

HybridTypes ==
    /\ made \in Seq(Results)
    /\ results \in [Models \X Inputs -> {0} \cup DOMAIN made]
    /\ keysByModel \in [Models -> SUBSET Inputs]
    /\ semantic \in [Inputs -> {0} \cup DOMAIN made]
    /\ embeddings \in Seq(Inputs)

\* What the result cache has is tracked and a valid latest result, and every
\* such result is there.
ResultsLatest ==
    \A m \in Models, x \in Inputs : \A n \in DOMAIN made :
        /\ results[<<m, x>>] = n => /\ Hybrid!Latest(n, {m}, x) /\ made[n].valid
                                    /\ x \in keysByModel[m]
        /\ Hybrid!Latest(n, {m}, x) /\ made[n].valid => results[<<m, x>>] = n

\* The semantic cache has the latest result of each input that was stored, and
\* an embedding of the input of each result.
SemanticLatest ==
    /\ DOMAIN embeddings = DOMAIN made
    /\ \A k \in DOMAIN made : embeddings[k] = made[k].input
                              /\ semantic[made[k].input] # 0
    /\ \A x \in Inputs : \A n \in DOMAIN made :
          semantic[x] = n => Hybrid!Latest(n, Models, x)

HybridInv == HybridTypes /\ ResultsLatest /\ SemanticLatest

LEMMA HybridSetInv ==
    ASSUME HybridInv, NEW m \in Models, NEW x \in Inputs, NEW truthy \in BOOLEAN,
           Hybrid!SetResult(m, x, truthy)
    PROVE  HybridInv'
  <1>0. PICK n : n = Len(made) + 1
    OBVIOUS
  <1> DEFINE r == [model |-> m, input |-> x, truthy |-> truthy, valid |-> TRUE]
             D == DOMAIN made
  <1>1. /\ made' = Append(made, r)
        /\ results' = [results EXCEPT ![<<m, x>>] = n]
        /\ keysByModel' = [keysByModel EXCEPT ![m] = @ \cup {x}]
        /\ semantic' = [semantic EXCEPT ![x] = n]
        /\ embeddings' = Append(embeddings, x)
    BY <1>0 DEF Hybrid!SetResult, Hybrid!Track, Hybrid!SemanticEntry
  <1>2. r \in Results /\ r.model = m /\ r.input = x /\ r.valid
    BY DEF Results
  <1> HIDE DEF r
  <1>3. /\ made \in Seq(Results) /\ embeddings \in Seq(Inputs)
        /\ D = 1..Len(made) /\ Len(made) \in Nat /\ Len(embeddings) = Len(made)
    <2>1. made \in Seq(Results) /\ embeddings \in Seq(Inputs)
          /\ DOMAIN embeddings = DOMAIN made
      BY DEF HybridInv, HybridTypes, SemanticLatest
    <2>2. Len(made) \in Nat /\ Len(embeddings) \in Nat /\ DOMAIN made = 1..Len(made)
          /\ DOMAIN embeddings = 1..Len(embeddings)
      BY <2>1
    <2>3. \A a, b \in Nat : 1..a = 1..b => a = b
      OBVIOUS
    <2> QED BY <2>1, <2>2, <2>3
  <1>4. /\ made' \in Seq(Results) /\ DOMAIN made' = D \cup {n} /\ n \notin D /\ n # 0
        /\ made'[n] = r /\ \A k \in D : made'[k] = made[k] /\ k \in Nat /\ k < n
        /\ n \in Nat
    BY <1>0, <1>1, <1>2, <1>3
  <1>5. /\ embeddings' \in Seq(Inputs) /\ DOMAIN embeddings' = D \cup {n}
        /\ embeddings'[n] = x /\ \A k \in D : embeddings'[k] = embeddings[k]
    BY <1>0, <1>1, <1>3
  <1>6. \A q \in Models, y \in Inputs :
           results'[<<q, y>>] = IF q = m /\ y = x THEN n ELSE results[<<q, y>>]
    BY <1>1 DEF HybridInv, HybridTypes
  <1>7. \A y \in Inputs : semantic'[y] = IF y = x THEN n ELSE semantic[y]
    BY <1>1 DEF HybridInv, HybridTypes
  <1>8. \A k \in D : made[k].model \in Models /\ made[k].input \in Inputs
    <2>1. \A k \in D : made[k] \in Results
      BY <1>3
    <2> QED BY <2>1 DEF Results
  <1>9. HybridTypes'
    BY <1>1, <1>4, <1>5 DEF HybridInv, HybridTypes
  <1> HIDE DEF D
  <1>10. \A ms, y : Hybrid!Latest(n, ms, y)' <=> m \in ms /\ y = x
    <2> SUFFICES ASSUME NEW ms, NEW y
                 PROVE  Hybrid!Latest(n, ms, y)' <=> m \in ms /\ y = x
      OBVIOUS
    <2>1. \A k \in DOMAIN made' : ~(k > n)
      BY <1>4
    <2>2. made'[n].model = m /\ made'[n].input = x
      BY <1>2, <1>4
    <2> QED BY ONLY <2>1, <2>2 DEF Hybrid!Latest
  <1>11. \A ms, y : \A k \in D :
            Hybrid!Latest(k, ms, y)' <=> Hybrid!Latest(k, ms, y) /\ ~(m \in ms /\ y = x)
    <2> SUFFICES ASSUME NEW ms, NEW y, NEW k \in D
                 PROVE  Hybrid!Latest(k, ms, y)'
                        <=> Hybrid!Latest(k, ms, y) /\ ~(m \in ms /\ y = x)
      OBVIOUS
    <2>1. made'[n].model = m /\ made'[n].input = x /\ n > k
      BY <1>2, <1>4
    <2>2. \A j \in D : made'[j] = made[j]
      BY <1>4
    <2>3. DOMAIN made' = D \cup {n} /\ k \in D
      BY <1>4
    <2> QED BY ONLY <2>1, <2>2, <2>3 DEF Hybrid!Latest, D
  <1>12. ResultsLatest'
    <2> SUFFICES ASSUME NEW q \in Models, NEW y \in Inputs, NEW k \in D \cup {n}
                 PROVE  /\ results'[<<q, y>>] = k =>
                              /\ Hybrid!Latest(k, {q}, y)' /\ made'[k].valid
                              /\ y \in keysByModel'[q]
                        /\ Hybrid!Latest(k, {q}, y)' /\ made'[k].valid => results'[<<q, y>>] = k
      BY ZenonT(60), <1>4 DEF ResultsLatest
    <2>1. results[<<q, y>>] # n /\ keysByModel[q] \subseteq keysByModel'[q]
          /\ (q = m /\ y = x => y \in keysByModel'[q])
      <3>1. results[<<q, y>>] \in {0} \cup D /\ keysByModel \in [Models -> SUBSET Inputs]
        BY DEF HybridInv, HybridTypes, D
      <3> QED BY <1>1, <1>4, <3>1
    <2>2. CASE k = n
      BY <1>2, <1>4, <1>6, <1>10, <2>1, <2>2
    <2>3. CASE k \in D
      <3>1. /\ results[<<q, y>>] = k => Hybrid!Latest(k, {q}, y) /\ made[k].valid
                                        /\ y \in keysByModel[q]
            /\ Hybrid!Latest(k, {q}, y) /\ made[k].valid => results[<<q, y>>] = k
        BY <2>3 DEF HybridInv, ResultsLatest, D
      <3>2. Hybrid!Latest(k, {q}, y)' <=> Hybrid!Latest(k, {q}, y) /\ ~(q = m /\ y = x)
        BY <1>11, <2>3
      <3> QED BY <1>4, <1>6, <2>1, <2>3, <3>1, <3>2
    <2> QED BY <2>2, <2>3
  <1>13. SemanticLatest'
    <2>1. \A k \in DOMAIN made' : embeddings'[k] = made'[k].input
                                  /\ semantic'[made'[k].input] # 0
      BY <1>2, <1>4, <1>5, <1>7, <1>8 DEF HybridInv, SemanticLatest, D
    <2>2. ASSUME NEW y \in Inputs, NEW k \in D \cup {n}, semantic'[y] = k
          PROVE  Hybrid!Latest(k, Models, y)'
      <3>1. CASE y = x
        BY <1>4, <1>7, <1>10, <2>2, <3>1
      <3>2. CASE y # x
        <4>1. semantic[y] = k /\ k \in D
          BY <1>4, <1>7, <2>2, <3>2 DEF HybridInv, HybridTypes, D
        <4>2. Hybrid!Latest(k, Models, y)
          BY <4>1 DEF HybridInv, SemanticLatest, D
        <4> QED BY <1>11, <3>2, <4>1, <4>2
      <3> QED BY <3>1, <3>2
    <2>3. DOMAIN embeddings' = DOMAIN made' /\ DOMAIN made' = D \cup {n}
      BY <1>4, <1>5
    <2>4. \A y \in Inputs : \A k \in DOMAIN made' :
              semantic'[y] = k => Hybrid!Latest(k, Models, y)'
      BY <2>2, <2>3
    <2> QED BY ONLY <2>1, <2>3, <2>4 DEF SemanticLatest
  <1> QED BY <1>9, <1>12, <1>13 DEF HybridInv

LEMMA HybridInvalidateInv ==
    ASSUME HybridInv, NEW m \in Models, Hybrid!InvalidateModel(m)
    PROVE  HybridInv'
  <1>1. /\ results' = [k \in Models \X Inputs |->
                          IF k[1] = m /\ k[2] \in keysByModel[m] THEN 0 ELSE results[k]]
        /\ keysByModel' = [keysByModel EXCEPT ![m] = {}]
        /\ made' = [n \in DOMAIN made |->
                       [made[n] EXCEPT !.valid = @ /\ made[n].model # m]]
        /\ semantic' = semantic /\ embeddings' = embeddings
    BY DEF Hybrid!InvalidateModel
  <1>2. made \in Seq(Results) /\ keysByModel \in [Models -> SUBSET Inputs]
        /\ results \in [Models \X Inputs -> {0} \cup DOMAIN made]
    BY DEF HybridInv, HybridTypes
  <1>3. 0 \notin DOMAIN made
    BY <1>2
  <1>4. DOMAIN made' = DOMAIN made
    BY <1>1
  <1>5. \A n \in DOMAIN made : made[n] \in Results
    BY <1>2
  <1>6. \A n \in DOMAIN made :
           /\ made'[n] \in Results
           /\ made'[n].model = made[n].model /\ made'[n].input = made[n].input
           /\ made'[n].valid <=> made[n].valid /\ made[n].model # m
    BY <1>1, <1>5 DEF Results
  <1>7. made' \in Seq(Results)
    <2>1. PICK l \in Nat : DOMAIN made = 1..l
      BY <1>2
    <2>2. made' \in [1..l -> Results]
      BY <1>1, <1>6, <2>1
    <2> QED BY <2>1, <2>2
  <1>8. \A ms, y : \A n \in DOMAIN made : Hybrid!Latest(n, ms, y)' <=> Hybrid!Latest(n, ms, y)
    BY <1>4, <1>6 DEF Hybrid!Latest
  <1>9. \A q \in Models, y \in Inputs :
           results'[<<q, y>>] = IF q = m /\ y \in keysByModel[m] THEN 0 ELSE results[<<q, y>>]
    BY <1>1
  <1>10. \A q \in Models : keysByModel'[q] = IF q = m THEN {} ELSE keysByModel[q]
    BY <1>1, <1>2
  <1>11. HybridTypes'
    <2>1. results' \in [Models \X Inputs -> {0} \cup DOMAIN made]
      BY <1>1, <1>2
    <2>2. keysByModel' \in [Models -> SUBSET Inputs]
      BY <1>1, <1>2
    <2> QED BY <1>1, <1>4, <1>7, <2>1, <2>2 DEF HybridInv, HybridTypes
  <1>12. ResultsLatest'
    <2> SUFFICES ASSUME NEW q \in Models, NEW y \in Inputs, NEW n \in DOMAIN made
                 PROVE  /\ results'[<<q, y>>] = n =>
                              /\ Hybrid!Latest(n, {q}, y)' /\ made'[n].valid
                              /\ y \in keysByModel'[q]
                        /\ Hybrid!Latest(n, {q}, y)' /\ made'[n].valid => results'[<<q, y>>] = n
      BY <1>4 DEF ResultsLatest
    <2>1. /\ results[<<q, y>>] = n => /\ Hybrid!Latest(n, {q}, y) /\ made[n].valid
                                      /\ y \in keysByModel[q]
          /\ Hybrid!Latest(n, {q}, y) /\ made[n].valid => results[<<q, y>>] = n
      BY DEF HybridInv, ResultsLatest
    <2>2. Hybrid!Latest(n, {q}, y) => made[n].model = q
      BY DEF Hybrid!Latest
    <2> QED BY <1>3, <1>6, <1>8, <1>9, <1>10, <2>1, <2>2
  <1>13. SemanticLatest'
    <2>1. \A n \in DOMAIN made' : embeddings'[n] = made'[n].input
                                  /\ semantic'[made'[n].input] # 0
      BY <1>1, <1>4, <1>6 DEF HybridInv, SemanticLatest
    <2>2. \A y \in Inputs : \A n \in DOMAIN made' :
              semantic'[y] = n => Hybrid!Latest(n, Models, y)'
      BY <1>1, <1>4, <1>8 DEF HybridInv, SemanticLatest
    <2> QED BY <1>1, <1>4, <2>1, <2>2 DEF HybridInv, SemanticLatest
  <1> QED BY <1>11, <1>12, <1>13 DEF HybridInv

\* The result cache holds exactly the latest valid results, each filed under
\* its model, and the semantic cache the latest result of each input: both
\* statements about their answers follow.
THEOREM HybridInvariant == Spec => []HybridInv
  <1>1. Init => HybridInv
    <2> SUFFICES ASSUME Init
                 PROVE  HybridInv
      OBVIOUS
    <2>1. made = <<>> /\ embeddings = <<>> /\ semantic = [x \in Inputs |-> 0]
          /\ results = [k \in Models \X Inputs |-> 0]
          /\ keysByModel = [m \in Models |-> {}]
      BY DEF Init, Hybrid!Init
    <2>2. DOMAIN made = {} /\ made \in Seq(Results) /\ embeddings \in Seq(Inputs)
          /\ DOMAIN embeddings = {}
      BY <2>1
    <2> QED BY <2>1, <2>2 DEF HybridInv, HybridTypes, ResultsLatest, SemanticLatest
  <1>2. HybridInv /\ [Next]_vars => HybridInv'
    <2> SUFFICES ASSUME HybridInv, [Next]_vars
                 PROVE  HybridInv'
      OBVIOUS
    <2>1. CASE HybridStep
      BY <2>1, HybridSetInv, HybridInvalidateInv DEF HybridStep, Hybrid!Next
    <2>2. CASE UNCHANGED hybridVars
      BY <2>2 DEF hybridVars, HybridInv, HybridTypes, ResultsLatest, SemanticLatest,
                  Hybrid!Latest
    <2> QED
      BY <2>1, <2>2 DEF Next, vars, EngineStep, TrackerStep, MonitorStep, BoardStep,
                        QueueStep, HTTPStep, AdviceStep, EdgeStep
  <1> QED BY <1>1, <1>2, PTL DEF Spec

\* OwnResultFirst: the result cache answers with a model's latest valid result
\* for the input, and the semantic cache does not get in its way.
LEMMA OwnResultIsFirst == Spec => []Hybrid!OwnResultFirst
  <1>1. HybridInv => Hybrid!OwnResultFirst
    <2> SUFFICES ASSUME HybridInv, NEW m \in Models, NEW x \in Inputs,
                        NEW n \in DOMAIN made, Hybrid!Latest(n, {m}, x)
                 PROVE  /\ results[<<m, x>>] = IF made[n].valid THEN n ELSE 0
                        /\ made[n].valid /\ made[n].truthy => Hybrid!GetResult(m, x) = n
      BY DEF Hybrid!OwnResultFirst
    <2>1. made \in Seq(Results) /\ results[<<m, x>>] \in {0} \cup DOMAIN made
      BY DEF HybridInv, HybridTypes
    <2>2. DOMAIN made \subseteq Nat /\ 0 \notin DOMAIN made
      BY <2>1
    <2>3. made[n].valid => results[<<m, x>>] = n
      BY DEF HybridInv, ResultsLatest
    <2>4. ASSUME NEW k \in DOMAIN made, results[<<m, x>>] = k
          PROVE  made[n].valid
      <3>1. Hybrid!Latest(k, {m}, x) /\ made[k].valid
        BY <2>4 DEF HybridInv, ResultsLatest
      <3>2. ~(k > n) /\ ~(n > k)
        BY <3>1 DEF Hybrid!Latest
      <3> QED BY <2>2, <3>1, <3>2
    <2>5. results[<<m, x>>] = IF made[n].valid THEN n ELSE 0
      BY <2>1, <2>3, <2>4
    <2>6. made[n].valid /\ made[n].truthy => Hybrid!GetResult(m, x) = n
      BY <2>2, <2>3 DEF Hybrid!GetResult, Hybrid!Truthy
    <2> QED BY <2>5, <2>6
  <1> QED BY <1>1, HybridInvariant, PTL

\* FallbackIsNearest: any other answer is the latest result that some model
\* stored for the nearest input there is.
LEMMA FallbackIsTheNearest == Spec => []Hybrid!FallbackIsNearest
  <1>1. HybridInv => Hybrid!FallbackIsNearest
    <2> SUFFICES ASSUME HybridInv, NEW m \in Models, NEW x \in Inputs, NEW n \in DOMAIN made,
                        n = Hybrid!GetResult(m, x),
                        ~(made[n].model = m /\ made[n].input = x)
                 PROVE  /\ Hybrid!Latest(n, Models, made[n].input)
                        /\ Score[<<x, made[n].input>>] > 0
                        /\ \A k \in DOMAIN made :
                              Score[<<x, made[k].input>>] <= Score[<<x, made[n].input>>]
      BY DEF Hybrid!FallbackIsNearest
    <2>1. made \in Seq(Results) /\ results[<<m, x>>] \in {0} \cup DOMAIN made
          /\ embeddings \in Seq(Inputs) /\ DOMAIN embeddings = DOMAIN made
      BY DEF HybridInv, HybridTypes, SemanticLatest
    <2>2. DOMAIN made \subseteq Nat /\ 0 \notin DOMAIN made
      BY <2>1
    <2>3. results[<<m, x>>] # n
      BY DEF HybridInv, ResultsLatest, Hybrid!Latest
    <2>4. n = Hybrid!SemanticGet(x) /\ n # NoMatch
      <3>1. NoMatch \notin Nat
        BY HelpersAssumption DEF Hybrid!HybridAssumption
      <3> QED BY <2>2, <2>3, <3>1 DEF Hybrid!GetResult
    <2>5. PICK y \in Hybrid!BestMatch(x) : n = semantic[y]
      BY <2>4 DEF Hybrid!SemanticGet
    <2> DEFINE near == {i \in DOMAIN embeddings : Score[<<x, embeddings[i]>>] > 0}
    <2>6. PICK i \in near :
             /\ y = embeddings[i]
             /\ \A j \in near : Score[<<x, embeddings[j]>>] < Score[<<x, embeddings[i]>>]
                                \/ Score[<<x, embeddings[j]>>] = Score[<<x, embeddings[i]>>]
      BY <2>5 DEF Hybrid!BestMatch
    <2>7. y \in Inputs /\ \A k \in DOMAIN made : embeddings[k] \in Inputs
      BY <2>1, <2>6
    <2>8. Hybrid!Latest(n, Models, y)
      BY <2>5, <2>7 DEF HybridInv, SemanticLatest
    <2>9. made[n].input = y
      BY <2>8 DEF Hybrid!Latest
    <2>10. \A k \in DOMAIN made : Score[<<x, embeddings[k]>>] \in Nat
      BY <2>7, HelpersAssumption DEF Hybrid!HybridAssumption
    <2>11. ASSUME NEW k \in DOMAIN made
           PROVE  Score[<<x, made[k].input>>] <= Score[<<x, y>>]
      <3>1. made[k].input = embeddings[k]
        BY DEF HybridInv, SemanticLatest
      <3>2. CASE k \in near
        <4>1. Score[<<x, embeddings[k]>>] < Score[<<x, y>>]
              \/ Score[<<x, embeddings[k]>>] = Score[<<x, y>>]
          BY <2>6, <3>2
        <4>2. Score[<<x, embeddings[k]>>] \in Nat /\ Score[<<x, y>>] \in Nat
          BY <2>1, <2>6, <2>10
        <4> QED BY ONLY <3>1, <4>1, <4>2
      <3>3. CASE k \notin near
        BY <2>1, <2>6, <2>10, <3>1, <3>3
      <3> QED BY <3>2, <3>3
    <2>12. Score[<<x, y>>] > 0
      BY <2>6
    <2> QED BY <2>8, <2>9, <2>11, <2>12
  <1> QED BY <1>1, HybridInvariant, PTL

\* get_result of advanced_caching.py answers with the model's own latest result
\* until the model is invalidated, and else with the nearest there is.
THEOREM CachesAnswerRight == Spec => []CachesAnswer
  <1>1. Hybrid!OwnResultFirst /\ Hybrid!FallbackIsNearest => CachesAnswer
    BY DEF CachesAnswer
  <1> QED BY <1>1, OwnResultIsFirst, FallbackIsTheNearest, PTL

------------------------------------------------------------------------------
(* Api: what is answered was executed, against a loaded model, and a        *)
(* success is counted when it is answered.                                  *)

HTTPTypes ==
    /\ caller \in [Requests -> {"new", "waiting", "answered", "gone"}]
    /\ outcome \in [Requests -> HTTP!Server!Outcomes \cup {NoResult}]
    /\ loaded \in [{Model} -> Nat]
    /\ http \in [Requests -> {"none", "200", "500"}]
    /\ counted \in Nat

\* Nothing is executed before there is a server, which has its model.
LoadedFirst ==
    /\ up => loaded[Model] > 0
    /\ \A r \in Requests : caller[r] # "new" => up
    /\ \A r \in Requests : outcome[r] # NoResult => outcome[r].ver > 0

\* The answers are those of the server, and a 200 is a success.
AnswersExecuted ==
    \A r \in Requests :
        /\ http[r] = "none" <=> caller[r] # "answered"
        /\ http[r] # "none" => outcome[r] # NoResult
        /\ http[r] = "200" => outcome[r].ok

Succeeded == {r \in Requests : http[r] # "none" /\ outcome[r].ok}

SuccessesCounted == IsFiniteSet(Succeeded) /\ counted = Cardinality(Succeeded)

HTTPInv == HTTPTypes /\ LoadedFirst /\ AnswersExecuted /\ SuccessesCounted

LEMMA HTTPSets == /\ \A S : HTTP!IsFiniteSet(S) <=> IsFiniteSet(S)
                  /\ \A S : HTTP!Cardinality(S) = Cardinality(S)
  BY DEF HTTP!IsFiniteSet, IsFiniteSet, HTTP!Cardinality, Cardinality

LEMMA HTTPStepInv ==
    ASSUME HTTPInv, HTTP!Next
    PROVE  HTTPInv'
  <1> USE DEF HTTP!Server!Outcomes
  <1>0. /\ HTTPTypes /\ LoadedFirst /\ AnswersExecuted /\ SuccessesCounted
    BY DEF HTTPInv
  <1>1. CASE HTTP!Construct
    <2>1. /\ loaded' = [loaded EXCEPT ![Model] = @ + 1] /\ up'
          /\ UNCHANGED <<caller, outcome, counted, http>>
      BY <1>1 DEF HTTP!Construct, HTTP!Server!Load
    <2>2. HTTPTypes' /\ LoadedFirst' /\ AnswersExecuted' /\ SuccessesCounted'
      BY <1>0, <2>1 DEF HTTPTypes, LoadedFirst, AnswersExecuted, SuccessesCounted, Succeeded
    <2> QED BY <2>2 DEF HTTPInv
  <1>2. CASE HTTP!Serve
    <2>1. up /\ UNCHANGED <<up, counted, http>>
      BY <1>2 DEF HTTP!Serve
    <2>2. CASE HTTP!Server!Load(Model)
      <3>1. /\ loaded' = [loaded EXCEPT ![Model] = @ + 1]
            /\ UNCHANGED <<caller, outcome>>
        BY <2>2 DEF HTTP!Server!Load
      <3>2. HTTPTypes' /\ LoadedFirst' /\ AnswersExecuted' /\ SuccessesCounted'
        BY <1>0, <2>1, <3>1
           DEF HTTPTypes, LoadedFirst, AnswersExecuted, SuccessesCounted, Succeeded
      <3> QED BY <3>2 DEF HTTPInv
    <2>3. ASSUME NEW S \in SUBSET Requests, NEW raised \in SUBSET Requests,
                 HTTP!Server!Execute(Model, S, raised)
          PROVE  HTTPInv'
      <3>1. /\ \A r \in S : caller[r] \in {"waiting", "gone"}
            /\ outcome' = [r \in Requests |->
                             IF r \in S THEN [ok |-> loaded[Model] > 0 /\ r \notin raised,
                                              ver |-> loaded[Model]]
                                        ELSE outcome[r]]
            /\ UNCHANGED <<caller, loaded>>
        BY <2>3 DEF HTTP!Server!Execute
      <3>2. \A r \in Requests :
               /\ outcome'[r] \in HTTP!Server!Outcomes \cup {NoResult}
               /\ outcome'[r] # NoResult => outcome'[r].ver > 0
               /\ http[r] # "none" => outcome'[r] = outcome[r]
        BY <1>0, <2>1, <3>1 DEF HTTPTypes, LoadedFirst, AnswersExecuted
      <3>3. HTTPTypes'
        BY <1>0, <2>1, <3>1, <3>2 DEF HTTPTypes
      <3>4. LoadedFirst'
        BY <1>0, <2>1, <3>1, <3>2 DEF LoadedFirst
      <3>5. AnswersExecuted'
        BY <1>0, <2>1, <3>1, <3>2 DEF AnswersExecuted
      <3>6. Succeeded' = Succeeded
        BY <2>1, <3>2 DEF Succeeded
      <3>7. SuccessesCounted'
        BY <1>0, <2>1, <3>6 DEF SuccessesCounted
      <3> QED BY <3>3, <3>4, <3>5, <3>7 DEF HTTPInv
    <2> QED BY <1>2, <2>2, <2>3 DEF HTTP!Serve
  <1>3. ASSUME NEW r \in Requests, HTTP!Predict(r)
        PROVE  HTTPInv'
    <2>1. /\ up /\ caller[r] = "new" /\ caller' = [caller EXCEPT ![r] = "waiting"]
          /\ UNCHANGED <<outcome, loaded, up, counted, http>>
      BY <1>3 DEF HTTP!Predict, HTTP!Server!Submit
    <2>2. HTTPTypes' /\ LoadedFirst' /\ AnswersExecuted' /\ SuccessesCounted'
      BY <1>0, <2>1 DEF HTTPTypes, LoadedFirst, AnswersExecuted, SuccessesCounted, Succeeded
    <2> QED BY <2>2 DEF HTTPInv
  <1>4. ASSUME NEW r \in Requests, HTTP!Abandon(r)
        PROVE  HTTPInv'
    <2>1. /\ caller[r] = "waiting" /\ caller' = [caller EXCEPT ![r] = "gone"]
          /\ UNCHANGED <<outcome, loaded, up, counted, http>>
      BY <1>4 DEF HTTP!Abandon, HTTP!Server!GiveUp
    <2>2. HTTPTypes' /\ LoadedFirst' /\ AnswersExecuted' /\ SuccessesCounted'
      BY <1>0, <2>1 DEF HTTPTypes, LoadedFirst, AnswersExecuted, SuccessesCounted, Succeeded
    <2> QED BY <2>2 DEF HTTPInv
  <1>5. ASSUME NEW r \in Requests, HTTP!Respond(r)
        PROVE  HTTPInv'
    <2>1. PICK s \in (IF outcome[r].ok THEN {"200", "500"} ELSE {"500"}) :
             http' = [http EXCEPT ![r] = s]
      BY <1>5 DEF HTTP!Respond
    <2>2. /\ caller[r] = "waiting" /\ outcome[r] # NoResult
          /\ caller' = [caller EXCEPT ![r] = "answered"]
          /\ counted' = IF outcome[r].ok THEN counted + 1 ELSE counted
          /\ UNCHANGED <<outcome, loaded, up>>
      BY <1>5 DEF HTTP!Respond, HTTP!Server!Reply
    <2>3. s \in {"200", "500"} /\ (s = "200" => outcome[r].ok) /\ s # "none"
      BY <2>1
    <2>4. http[r] = "none"
      BY <1>0, <2>2 DEF AnswersExecuted
    <2>5. HTTPTypes'
      BY <1>0, <2>1, <2>2, <2>3 DEF HTTPTypes
    <2>6. LoadedFirst'
      BY <1>0, <2>2 DEF HTTPTypes, LoadedFirst
    <2>7. AnswersExecuted'
      BY <1>0, <2>1, <2>2, <2>3 DEF HTTPTypes, AnswersExecuted
    <2>8. Succeeded' = IF outcome[r].ok THEN Succeeded \cup {r} ELSE Succeeded
      BY <1>0, <2>1, <2>2, <2>3, <2>4 DEF HTTPTypes, Succeeded
    <2>9. r \notin Succeeded
      BY <2>4 DEF Succeeded
    <2>10. SuccessesCounted'
      BY <1>0, <2>2, <2>8, <2>9, FS_AddElement DEF SuccessesCounted
    <2> QED BY <2>5, <2>6, <2>7, <2>10 DEF HTTPInv
  <1> QED BY <1>1, <1>2, <1>3, <1>4, <1>5 DEF HTTP!Next

\* A call is answered once it was executed by a server that has its model, and
\* the successes answered are what was counted.
THEOREM HTTPInvariant == Spec => []HTTPInv
  <1>1. Init => HTTPInv
    <2> SUFFICES ASSUME Init
                 PROVE  HTTPInv
      OBVIOUS
    <2>1. /\ caller = [r \in Requests |-> "new"]
          /\ outcome = [r \in Requests |-> NoResult]
          /\ loaded = [m \in {Model} |-> 0]
          /\ up = FALSE /\ counted = 0
          /\ http = [r \in Requests |-> "none"]
      BY DEF Init, HTTP!Init, HTTP!Server!Init
    <2>2. Succeeded = {}
      BY <2>1 DEF Succeeded
    <2> QED BY <2>1, <2>2, FS_EmptySet
            DEF HTTPInv, HTTPTypes, LoadedFirst, AnswersExecuted, SuccessesCounted
  <1>2. HTTPInv /\ [Next]_vars => HTTPInv'
    <2> SUFFICES ASSUME HTTPInv, [Next]_vars
                 PROVE  HTTPInv'
      OBVIOUS
    <2>1. CASE HTTPStep
      BY <2>1, HTTPStepInv DEF HTTPStep
    <2>2. CASE UNCHANGED httpVars
      BY <2>2 DEF httpVars, HTTPInv, HTTPTypes, LoadedFirst, AnswersExecuted,
                  SuccessesCounted, Succeeded
    <2> QED
      BY <2>1, <2>2 DEF Next, vars, HybridStep, EngineStep, TrackerStep, MonitorStep,
                        BoardStep, QueueStep, AdviceStep, EdgeStep
  <1> QED BY <1>1, <1>2, PTL DEF Spec

\* ApiAnswers: what clients are told is what was executed, against a loaded
\* model, and /stats counts the successes.
THEOREM ApiAnswersAreTrue == Spec => []ApiAnswers
  <1>1. HTTPInv => ApiAnswers
    <2> SUFFICES ASSUME HTTPInv
                 PROVE  ApiAnswers
      OBVIOUS
    <2> DEFINE A == HTTP!Answered("200")
               B == {r \in HTTP!Answered("500") : outcome[r].ok}
    <2>1. \A r \in A : outcome[r].ok
      BY DEF HTTPInv, AnswersExecuted, HTTP!Answered
    <2>2. \A r \in A \cup HTTP!Answered("500") : outcome[r].ver > 0
      BY DEF HTTPInv, AnswersExecuted, LoadedFirst, HTTP!Answered
    <2>3. Succeeded = A \cup B /\ A \cap B = {}
      BY <2>1 DEF HTTPInv, HTTPTypes, Succeeded, HTTP!Answered
    <2>4. IsFiniteSet(A) /\ IsFiniteSet(B)
      BY <2>3, FS_Subset DEF HTTPInv, SuccessesCounted
    <2>5. Cardinality(A \cup B) = Cardinality(A) + Cardinality(B)
      <3>1. Cardinality(A \cap B) = 0
        BY <2>3, FS_EmptySet
      <3> HIDE DEF A, B
      <3>2. Cardinality(A) \in Nat /\ Cardinality(B) \in Nat
        BY <2>4, FS_CardinalityType
      <3>3. Cardinality(A \cup B) = Cardinality(A) + Cardinality(B) - Cardinality(A \cap B)
        BY <2>4, FS_Union
      <3> QED BY ONLY <3>1, <3>2, <3>3
    <2>6. counted = HTTP!Cardinality(A) + HTTP!Cardinality(B)
      BY <2>3, <2>5, HTTPSets DEF HTTPInv, SuccessesCounted
    <2> QED BY <2>1, <2>2, <2>6 DEF ApiAnswers, HTTP!ApiAnswers
  <1> QED BY <1>1, HTTPInvariant, PTL

------------------------------------------------------------------------------
(* LLMOptimizationEngine: the prompt cache is the end of what was stored.   *)

Keys == {KeyOf[p] : p \in Prompts}

EngineTypes ==
    /\ cache \in Seq(Keys) /\ stored \in Seq(Keys)
    /\ draft \in Drafts \cup {Off}
    /\ verified \in Nat /\ decoded \in Nat

\* The cache holds the newest keys in their order, each once, the last Keep of
\* them at least, and it has been cut to its size.
NewestCached ==
    /\ Len(cache) <= Len(stored)
    /\ \A i \in 1..Len(cache) : cache[i] = stored[Len(stored) - Len(cache) + i]
    /\ Len(cache) >= Keep \/ Len(cache) = Len(stored)

CachedOnce ==
    /\ \A i, j \in 1..Len(cache) : cache[i] = cache[j] => i = j
    /\ Len(cache) <= Keep + 1 \/ Len(cache) <= Limit + 1

EngineInv == EngineTypes /\ NewestCached /\ CachedOnce /\ Engine!OneTooManyPerDraft

\* What is left when room has been made is the end of the cache.
LEMMA EvictedIsEnd ==
    ASSUME EngineInv
    PROVE  /\ Engine!Evicted \in Seq(Keys)
           /\ Len(Engine!Evicted) <= Len(cache)
           /\ \A i \in 1..Len(Engine!Evicted) :
                 Engine!Evicted[i] = cache[Len(cache) - Len(Engine!Evicted) + i]
           /\ Len(Engine!Evicted) >= Keep \/ Len(Engine!Evicted) = Len(cache)
           /\ Len(Engine!Evicted) <= Keep \/ Len(Engine!Evicted) <= Limit
  <1>1. cache \in Seq(Keys) /\ Len(cache) \in Nat
    BY DEF EngineInv, EngineTypes
  <1>2. Limit \in Nat /\ Keep \in Nat
    BY HelpersAssumption DEF Engine!EngineAssumption
  <1>3. CASE ~(Len(cache) > Limit)
    <2>1. Engine!Evicted = cache
      BY <1>3 DEF Engine!Evicted
    <2> QED BY <1>1, <1>2, <1>3, <2>1
  <1>4. CASE Len(cache) > Limit
    <2>1. PICK a : a = IF Len(cache) > Keep THEN Len(cache) - Keep + 1 ELSE 1
      OBVIOUS
    <2>2. Engine!Evicted = SubSeq(cache, a, Len(cache))
      BY <1>4, <2>1 DEF Engine!Evicted
    <2>3. a \in 1..Len(cache) + 1 /\ a \in Nat /\ (1 <= Len(cache))
      BY <1>1, <1>2, <1>4, <2>1
    <2>4. /\ Engine!Evicted \in Seq(Keys)
          /\ Len(Engine!Evicted) = Len(cache) - a + 1
          /\ \A i \in 1..(Len(cache) - a + 1) : Engine!Evicted[i] = cache[a + i - 1]
      BY <1>1, <2>2, <2>3
    <2>5. \A i \in Nat : Len(cache) - (Len(cache) - a + 1) + i = a + i - 1
      BY <1>1, <2>3
    <2> QED BY <1>1, <1>2, <2>1, <2>3, <2>4, <2>5
  <1> QED BY <1>3, <1>4

LEMMA StoreInv ==
    ASSUME EngineInv, NEW p \in Prompts, ~Engine!Cached(p), Engine!Store(p)
    PROVE  /\ cache' \in Seq(Keys) /\ stored' \in Seq(Keys)
           /\ NewestCached' /\ CachedOnce'
  <1>1. PICK e : e = Engine!Evicted
    OBVIOUS
  <1>2. PICK k \in Keys : k = KeyOf[p]
    BY DEF Keys
  <1>3. cache' = Append(e, k) /\ stored' = Append(stored, k)
    BY <1>1, <1>2 DEF Engine!Store
  <1>4. /\ cache \in Seq(Keys) /\ stored \in Seq(Keys)
        /\ Len(cache) \in Nat /\ Len(stored) \in Nat
        /\ Limit \in Nat /\ Keep \in Nat
    BY HelpersAssumption DEF EngineInv, EngineTypes, Engine!EngineAssumption
  <1>5. /\ e \in Seq(Keys) /\ Len(e) \in Nat /\ Len(e) <= Len(cache)
        /\ \A i \in 1..Len(e) : e[i] = cache[Len(cache) - Len(e) + i]
        /\ Len(e) >= Keep \/ Len(e) = Len(cache)
        /\ Len(e) <= Keep \/ Len(e) <= Limit
    BY <1>1, EvictedIsEnd
  <1>6. /\ cache' \in Seq(Keys) /\ Len(cache') = Len(e) + 1 /\ cache'[Len(e) + 1] = k
        /\ \A i \in 1..Len(e) : cache'[i] = e[i]
    BY <1>2, <1>3, <1>5
  <1>7. /\ stored' \in Seq(Keys) /\ Len(stored') = Len(stored) + 1
        /\ stored'[Len(stored) + 1] = k
        /\ \A i \in 1..Len(stored) : stored'[i] = stored[i]
    BY <1>2, <1>3, <1>4
  <1>8. \A i \in 1..Len(cache) : cache[i] # k
    BY <1>2, <1>4 DEF Engine!Cached, Engine!Range
  <1>9. /\ Len(cache) <= Len(stored)
        /\ \A i \in 1..Len(cache) : cache[i] = stored[Len(stored) - Len(cache) + i]
        /\ Len(cache) >= Keep \/ Len(cache) = Len(stored)
    BY DEF EngineInv, NewestCached
  <1>10. \A i \in 1..Len(e) : /\ Len(cache) - Len(e) + i \in 1..Len(cache)
                              /\ e[i] = stored[Len(stored) - Len(e) + i]
                              /\ Len(stored) - Len(e) + i \in 1..Len(stored)
    <2> SUFFICES ASSUME NEW i \in 1..Len(e)
                 PROVE  /\ Len(cache) - Len(e) + i \in 1..Len(cache)
                        /\ e[i] = stored[Len(stored) - Len(e) + i]
                        /\ Len(stored) - Len(e) + i \in 1..Len(stored)
      OBVIOUS
    <2>1. PICK j \in 1..Len(cache) : j = Len(cache) - Len(e) + i
      BY <1>4, <1>5
    <2>2. Len(stored) - Len(cache) + j = Len(stored) - Len(e) + i
      BY <1>4, <1>5, <2>1
    <2>3. e[i] = stored[Len(stored) - Len(cache) + j]
      BY <1>5, <1>9, <2>1
    <2>4. Len(stored) - Len(e) + i \in 1..Len(stored)
      BY <1>4, <1>5, <1>9, <2>1
    <2> QED BY <2>1, <2>2, <2>3, <2>4
  <1>11. NewestCached'
    <2>1. ASSUME NEW i \in 1..Len(cache')
          PROVE  cache'[i] = stored'[Len(stored') - Len(cache') + i]
      <3>1. Len(stored') - Len(cache') + i = Len(stored) - Len(e) + i
        BY <1>4, <1>5, <1>6, <1>7
      <3>2. CASE i = Len(e) + 1
        <4>1. Len(stored) - Len(e) + i = Len(stored) + 1
          BY <1>4, <1>5, <3>2
        <4> QED BY <1>6, <1>7, <3>1, <3>2, <4>1
      <3>3. CASE i \in 1..Len(e)
        BY <1>6, <1>7, <1>10, <3>1, <3>3
      <3> QED BY <1>5, <1>6, <3>2, <3>3
    <2>2. Len(cache') <= Len(stored')
          /\ (Len(cache') >= Keep \/ Len(cache') = Len(stored'))
      BY <1>4, <1>5, <1>6, <1>7, <1>9
    <2> QED BY <2>1, <2>2 DEF NewestCached
  <1>12. CachedOnce'
    <2>1. \A i, j \in 1..Len(cache) : cache[i] = cache[j] => i = j
      BY DEF EngineInv, CachedOnce
    <2>2. \A i \in 1..Len(e) : e[i] # k
      BY <1>5, <1>8, <1>10
    <2>3. ASSUME NEW i \in 1..Len(e), NEW j \in 1..Len(e), e[i] = e[j]
          PROVE  i = j
      <3>1. Len(cache) - Len(e) + i = Len(cache) - Len(e) + j
        BY ZenonT(60), <1>5, <1>10, <2>1, <2>3
      <3> QED BY <1>4, <1>5, <3>1
    <2>4. \A i, j \in 1..Len(cache') : cache'[i] = cache'[j] => i = j
      <3>1. \A i \in 1..Len(cache') : i \in 1..Len(e) \/ i = Len(e) + 1
        BY <1>5, <1>6
      <3> QED BY <1>6, <2>2, <2>3, <3>1
    <2>5. Len(cache') <= Keep + 1 \/ Len(cache') <= Limit + 1
      BY <1>4, <1>5, <1>6
    <2> QED BY <2>4, <2>5 DEF CachedOnce
  <1> QED BY <1>6, <1>7, <1>11, <1>12

LEMMA RoundsCount ==
    ASSUME NEW a \in Nat, NEW b \in Nat, NEW r \in Nat, NEW d \in Nat, a * d = b * (d + 1)
    PROVE  (a + r * (d + 1)) * d = (b + r * d) * (d + 1)
  <1>1. (a + r * (d + 1)) * d = a * d + (r * (d + 1)) * d
    OBVIOUS
  <1>2. (b + r * d) * (d + 1) = b * (d + 1) + (r * d) * (d + 1)
    OBVIOUS
  <1>3. (r * (d + 1)) * d = (r * d) * (d + 1)
    OBVIOUS
  <1> QED BY <1>1, <1>2, <1>3

LEMMA DecodeInv ==
    ASSUME EngineInv, draft # Off, NEW length \in Lengths, Engine!Decode(length)
    PROVE  /\ verified' \in Nat /\ decoded' \in Nat /\ draft' = draft
           /\ Engine!OneTooManyPerDraft'
  <1>1. /\ draft \in Nat /\ length \in Nat /\ verified \in Nat /\ decoded \in Nat
        /\ verified * draft = decoded * (draft + 1)
    BY HelpersAssumption DEF EngineInv, EngineTypes, Engine!EngineAssumption,
                             Engine!OneTooManyPerDraft
  <1>2. PICK r : r = Engine!Rounds(length)
    OBVIOUS
  <1>3. r \in Nat
    <2>1. CASE draft = 0
      BY <1>2, <2>1 DEF Engine!Rounds
    <2>2. CASE draft # 0
      <3>1. \A x, d \in Nat : d # 0 => (x + d - 1) \div d \in Nat
        OBVIOUS
      <3> QED BY <1>1, <1>2, <2>2, <3>1 DEF Engine!Rounds
    <2> QED BY <2>1, <2>2
  <1>4. verified' = verified + r * (draft + 1) /\ decoded' = decoded + r * draft
        /\ draft' = draft
    BY <1>2 DEF Engine!Decode
  <1>5. (verified + r * (draft + 1)) * draft = (decoded + r * draft) * (draft + 1)
    BY <1>1, <1>3, RoundsCount
  <1>6. verified + r * (draft + 1) \in Nat /\ decoded + r * draft \in Nat
    BY <1>1, <1>3
  <1> QED BY <1>4, <1>5, <1>6 DEF Engine!OneTooManyPerDraft

LEMMA EngineStepInv ==
    ASSUME EngineInv, Engine!Next
    PROVE  EngineInv'
  <1>0. EngineTypes /\ NewestCached /\ CachedOnce /\ Engine!OneTooManyPerDraft
    BY DEF EngineInv
  <1>1. CASE UNCHANGED <<cache, stored, draft, verified, decoded>>
    BY <1>0, <1>1 DEF EngineInv, EngineTypes, NewestCached, CachedOnce,
                      Engine!OneTooManyPerDraft
  <1>2. ASSUME NEW p \in Prompts, Engine!Generate(p)
        PROVE  EngineInv'
    <2>1. /\ cache' \in Seq(Keys) /\ stored' \in Seq(Keys)
          /\ NewestCached' /\ CachedOnce'
      BY <1>2, StoreInv DEF Engine!Generate
    <2>2. /\ verified' \in Nat /\ decoded' \in Nat /\ draft' = draft
          /\ Engine!OneTooManyPerDraft'
      <3>1. CASE UNCHANGED <<draft, verified, decoded>>
        BY <1>0, <3>1 DEF EngineTypes, Engine!OneTooManyPerDraft
      <3>2. CASE draft # Off /\ \E length \in Lengths : Engine!Decode(length)
        BY <3>2, DecodeInv
      <3> QED BY <1>2, <3>1, <3>2 DEF Engine!Generate, Engine!decoderVars
    <2> QED BY <1>0, <2>1, <2>2 DEF EngineInv, EngineTypes
  <1>3. ASSUME NEW n \in Drafts, Engine!EnableSpeculativeDecoding(n)
        PROVE  EngineInv'
    <2>1. draft' = n /\ verified' = 0 /\ decoded' = 0 /\ UNCHANGED <<cache, stored>>
      BY <1>3 DEF Engine!EnableSpeculativeDecoding, Engine!cacheVars
    <2>2. n \in Nat
      BY HelpersAssumption DEF Engine!EngineAssumption
    <2>3. EngineTypes' /\ NewestCached' /\ CachedOnce'
      BY <1>0, <2>1 DEF EngineTypes, NewestCached, CachedOnce
    <2>4. Engine!OneTooManyPerDraft'
      BY <2>1, <2>2 DEF Engine!OneTooManyPerDraft
    <2> QED BY <2>3, <2>4 DEF EngineInv
  <1> QED BY <1>1, <1>2, <1>3 DEF Engine!Next, Engine!GenerateCached, Engine!GenerateFails,
                                  Engine!decoderVars

\* The prompt cache is the end of what was stored, each key once, the last Keep
\* of them at least.
THEOREM EngineInvariant == Spec => []EngineInv
  <1>1. Init => EngineInv
    <2> SUFFICES ASSUME Init
                 PROVE  EngineInv
      OBVIOUS
    <2>1. /\ cache = <<>> /\ stored = <<>> /\ draft = Off /\ verified = 0 /\ decoded = 0
          /\ Keep \in Nat
      BY HelpersAssumption DEF Init, Engine!Init, Engine!EngineAssumption
    <2> QED BY <2>1 DEF EngineInv, EngineTypes, NewestCached, CachedOnce,
                        Engine!OneTooManyPerDraft
  <1>2. EngineInv /\ [Next]_vars => EngineInv'
    <2> SUFFICES ASSUME EngineInv, [Next]_vars
                 PROVE  EngineInv'
      OBVIOUS
    <2>1. CASE EngineStep
      BY <2>1, EngineStepInv DEF EngineStep
    <2>2. CASE UNCHANGED engineVars
      BY <2>2 DEF engineVars, EngineInv, EngineTypes, NewestCached, CachedOnce,
                  Engine!OneTooManyPerDraft
    <2> QED
      BY <2>1, <2>2 DEF Next, vars, HybridStep, TrackerStep, MonitorStep, BoardStep,
                        QueueStep, HTTPStep, AdviceStep, EdgeStep
  <1> QED BY <1>1, <1>2, PTL DEF Spec

\* EngineBooks: the last Keep prompts generated are answered from the cache,
\* and verified_tokens is one too many for each draft.
THEOREM EngineKeepsItsBooks == Spec => []EngineBooks
  <1>1. EngineInv => EngineBooks
    <2> SUFFICES ASSUME EngineInv
                 PROVE  EngineBooks
      OBVIOUS
    <2>1. /\ cache \in Seq(Keys) /\ stored \in Seq(Keys) /\ Keep \in Nat
          /\ Len(cache) \in Nat /\ Len(stored) \in Nat
          /\ DOMAIN cache = 1..Len(cache) /\ DOMAIN stored = 1..Len(stored)
      BY HelpersAssumption DEF EngineInv, EngineTypes, Engine!EngineAssumption
    <2>2. /\ Len(cache) <= Len(stored)
          /\ \A i \in 1..Len(cache) : cache[i] = stored[Len(stored) - Len(cache) + i]
          /\ Len(cache) >= Keep \/ Len(cache) = Len(stored)
      BY DEF EngineInv, NewestCached
    <2>3. ASSUME NEW i \in DOMAIN stored, i + Keep > Len(stored)
          PROVE  stored[i] \in Engine!Range(cache)
      <3>0. i \in Nat /\ 1 <= i /\ i <= Len(stored)
        BY <2>1
      <3>1. PICK j \in 1..Len(cache) : j = i - (Len(stored) - Len(cache))
        <4>1. \A a, b, c, d \in Nat :
                 1 <= d /\ d <= b /\ a <= b /\ (a >= c \/ a = b) /\ d + c > b
                 => d - (b - a) \in 1..a
          OBVIOUS
        <4>2. i - (Len(stored) - Len(cache)) \in 1..Len(cache)
          BY ONLY <2>1, <2>2, <2>3, <3>0, <4>1
        <4> QED BY <4>2
      <3>2. Len(stored) - Len(cache) + j = i
        BY <2>1, <3>1
      <3>3. stored[i] = cache[j]
        BY <2>2, <3>2
      <3>4. j \in DOMAIN cache
        BY <2>1
      <3> QED BY ONLY <3>3, <3>4 DEF Engine!Range
    <2>4. Engine!IsInjective(cache)
      BY <2>1 DEF EngineInv, CachedOnce, Engine!IsInjective
    <2>5. Engine!Range(cache) \subseteq Engine!Range(stored)
      <3>1. \A j \in 1..Len(cache) : Len(stored) - Len(cache) + j \in 1..Len(stored)
        <4>1. \A a, b \in Nat : a <= b => \A j \in 1..a : b - a + j \in 1..b
          OBVIOUS
        <4> QED BY ONLY <2>1, <2>2, <4>1
      <3>2. \A j \in DOMAIN cache : \E i \in DOMAIN stored : cache[j] = stored[i]
        <4> SUFFICES ASSUME NEW j \in DOMAIN cache
                     PROVE  \E i \in DOMAIN stored : cache[j] = stored[i]
          OBVIOUS
        <4>1. j \in 1..Len(cache)
          BY <2>1
        <4>2. PICK i : i = Len(stored) - Len(cache) + j
          OBVIOUS
        <4>3. i \in DOMAIN stored
          BY <2>1, <3>1, <4>1, <4>2
        <4>4. cache[j] = stored[i]
          BY <2>2, <4>1, <4>2
        <4> QED BY ONLY <4>3, <4>4
      <3> QED BY ONLY <3>2 DEF Engine!Range
    <2>6. Len(cache) <= Keep + 1 \/ Len(cache) <= Limit + 1
      BY DEF EngineInv, CachedOnce
    <2>7. Engine!OneTooManyPerDraft
      BY DEF EngineInv
    <2> QED BY <2>3, <2>4, <2>5, <2>6, <2>7
            DEF EngineBooks, Engine!EngineBooks, Engine!RecentPromptsHit
  <1> QED BY <1>1, EngineInvariant, PTL

------------------------------------------------------------------------------
(* Monitoring: a metric goes to one backend, instrument after instrument,   *)
(* and one backend at most has the instruments of Prometheus.               *)

\* The count of a backend's first instrument.
FirstCounts == [b \in Backends |-> counts[b][1]]

MonitorTypes ==
    /\ metrics \in Nat
    /\ backend \in {NoOp} \cup constructed
    /\ constructed \subseteq Backends
    /\ registered \in BOOLEAN
    /\ DOMAIN counts = Backends
    /\ \A b \in Backends : \A i \in Monitor!Steps(b) : counts[b][i] \in Nat

\* Only what is constructed, with its library, records anything.
RecordedByLive ==
    \A b \in Backends : counts[b][1] > 0 => b \in constructed /\ b \in Monitor!Live

\* The instruments of Prometheus belong to one constructed backend at most.
RegisteredOnce ==
    /\ \A b \in constructed : Monitor!Registers(b) => registered
    /\ \A b, c \in constructed : Monitor!Registers(b) /\ Monitor!Registers(c) => b = c

RecordedInTurn ==
    \A b \in Backends : \A i, j \in Monitor!Steps(b) : i < j => counts[b][i] >= counts[b][j]

MonitorInv ==
    /\ MonitorTypes /\ RecordedByLive /\ RegisteredOnce /\ RecordedInTurn
    /\ SumOf(FirstCounts, Backends) <= metrics

LEMMA MonitorConstants ==
    /\ IsFiniteSet(Backends) /\ NoOp \notin Backends
    /\ \A b \in Backends : 1 \in Monitor!Steps(b) /\ Monitor!Steps(b) \subseteq Nat
                           /\ \A i \in Monitor!Steps(b) : 1 <= i
  <1>1. IsFiniteSet(Backends) /\ NoOp \notin Backends
        /\ KindOf \in [Backends -> DOMAIN Monitor!Instruments]
    BY HelpersAssumption DEF Monitor!MonitoringAssumption, Monitor!IsFiniteSet, IsFiniteSet
  <1>2. \A k \in DOMAIN Monitor!Instruments :
           Monitor!Instruments[k] \in Nat /\ Monitor!Instruments[k] >= 1
    BY DEF Monitor!Instruments
  <1>3. \A b \in Backends : Monitor!Instruments[KindOf[b]] \in Nat
                            /\ Monitor!Instruments[KindOf[b]] >= 1
    BY <1>1, <1>2
  <1> QED BY <1>1, <1>3 DEF Monitor!Steps

\* The sum RecordedOnce takes.
LEMMA MetricSumIs ==
    ASSUME MonitorTypes
    PROVE  Monitor!FoldFunction(LAMBDA c, n : c[1] + n, 0, counts)
           = SumOf(FirstCounts, Backends)
  <1> DEFINE D == DOMAIN counts
             f == FirstCounts
             h == CHOOSE g : g = [r \in SUBSET D |->
                     IF r = {} THEN 0
                     ELSE LET i == CHOOSE y \in r : TRUE
                          IN counts[i][1] + g[r \ {i}]]
  <1>1. Monitor!FoldFunction(LAMBDA c, n : c[1] + n, 0, counts) = h[D]
    BY DEF Monitor!FoldFunction, Monitor!FoldFunctionOnSet, Monitor!MapThenFoldSet
  <1>2. D = Backends /\ IsFiniteSet(D) /\ \A i \in D : f[i] = counts[i][1]
    BY MonitorConstants DEF MonitorTypes, FirstCounts
  <1> HIDE DEF D, f
  <1>3. \A g : IsSum(g, f, D)
               <=> g = [r \in SUBSET D |->
                          IF r = {} THEN 0
                          ELSE LET i == CHOOSE y \in r : TRUE
                               IN counts[i][1] + g[r \ {i}]]
    BY <1>2 DEF IsSum
  <1>4. IsSum(h, f, D)
    <2>1. \E g : IsSum(g, f, D)
      BY <1>2, SumExists
    <2> QED BY ZenonT(60), <1>3, <2>1
  <1> HIDE DEF h
  <1>5. h[D] = SumOf(f, D)
    BY <1>2, <1>4, SumIs
  <1> QED BY <1>1, <1>2, <1>5 DEF f

LEMMA MonitorStepInv ==
    ASSUME MonitorInv, Monitor!Next
    PROVE  MonitorInv'
  <1>0. /\ MonitorTypes /\ RecordedByLive /\ RegisteredOnce /\ RecordedInTurn
        /\ SumOf(FirstCounts, Backends) <= metrics
    BY DEF MonitorInv
  <1>1. ASSUME NEW b \in Backends, Monitor!Make(b)
        PROVE  MonitorInv'
    <2>1. /\ b \notin constructed /\ (Monitor!Registers(b) => ~registered)
          /\ constructed' = constructed \cup {b}
          /\ registered' = (registered \/ Monitor!Registers(b))
          /\ UNCHANGED <<metrics, backend, counts>>
      BY <1>1 DEF Monitor!Make
    <2>2. MonitorTypes'
      BY <1>0, <2>1 DEF MonitorTypes, Monitor!Registers
    <2>3. RecordedByLive' /\ RecordedInTurn'
      BY <1>0, <2>1 DEF RecordedByLive, RecordedInTurn
    <2>4. RegisteredOnce'
      BY <1>0, <2>1 DEF RegisteredOnce
    <2>5. FirstCounts' = FirstCounts
      BY <2>1 DEF FirstCounts
    <2> QED BY <1>0, <2>1, <2>2, <2>3, <2>4, <2>5 DEF MonitorInv
  <1>2. ASSUME NEW b \in Backends, Monitor!MakeFails(b)
        PROVE  MonitorInv'
    <2>1. registered' = TRUE /\ UNCHANGED <<metrics, backend, constructed, counts>>
      BY <1>2 DEF Monitor!MakeFails
    <2>2. MonitorTypes' /\ RecordedByLive' /\ RecordedInTurn' /\ RegisteredOnce'
      BY <1>0, <2>1 DEF MonitorTypes, RecordedByLive, RecordedInTurn, RegisteredOnce
    <2>3. FirstCounts' = FirstCounts
      BY <2>1 DEF FirstCounts
    <2> QED BY <1>0, <2>1, <2>2, <2>3 DEF MonitorInv
  <1>3. ASSUME NEW b \in Backends, Monitor!SetBackend(b)
        PROVE  MonitorInv'
    <2>1. b \in constructed /\ backend' = b
          /\ UNCHANGED <<metrics, registered, constructed, counts>>
      BY <1>3 DEF Monitor!SetBackend
    <2>2. MonitorTypes' /\ RecordedByLive' /\ RecordedInTurn' /\ RegisteredOnce'
      BY <1>0, <2>1 DEF MonitorTypes, RecordedByLive, RecordedInTurn, RegisteredOnce
    <2>3. FirstCounts' = FirstCounts
      BY <2>1 DEF FirstCounts
    <2> QED BY <1>0, <2>1, <2>2, <2>3 DEF MonitorInv
  <1>4. CASE Monitor!Log
    <2>1. metrics' = metrics + 1 /\ UNCHANGED <<backend, constructed, registered>>
      BY <1>4 DEF Monitor!Log
    <2>2. RegisteredOnce'
      BY <1>0, <2>1 DEF RegisteredOnce
    <2>3. SumOf(FirstCounts, Backends) \in Nat
      BY <1>0, MonitorConstants, SumNat DEF MonitorTypes, FirstCounts
    <2>4. CASE UNCHANGED counts
      <3>1. MonitorTypes' /\ RecordedByLive' /\ RecordedInTurn'
        BY <1>0, <2>1, <2>4 DEF MonitorTypes, RecordedByLive, RecordedInTurn
      <3>2. FirstCounts' = FirstCounts
        BY <2>4 DEF FirstCounts
      <3>3. SumOf(FirstCounts, Backends) <= metrics'
        BY <1>0, <2>1, <2>3 DEF MonitorTypes
      <3> QED BY <2>2, <3>1, <3>2, <3>3 DEF MonitorInv
    <2>5. ASSUME backend \in Monitor!Live,
                 NEW n \in {0} \cup Monitor!Steps(backend),
                 counts' = Monitor!Recorded(backend, n)
          PROVE  MonitorInv'
      <3>1. backend \in Backends /\ backend \in constructed
        BY <1>0, <2>5, MonitorConstants DEF Monitor!Live, MonitorTypes
      <3>2. PICK one \in [Monitor!Steps(backend) -> {0, 1}] :
               one = [i \in Monitor!Steps(backend) |-> IF i <= n THEN 1 ELSE 0]
        OBVIOUS
      <3>3. /\ DOMAIN counts' = Backends
            /\ \A b \in Backends : b # backend => counts'[b] = counts[b]
            /\ \A i \in Monitor!Steps(backend) : counts'[backend][i] = counts[backend][i] + one[i]
        BY <1>0, <2>5, <3>1, <3>2 DEF Monitor!Recorded, MonitorTypes
      <3>4. \A i \in Monitor!Steps(backend) :
               counts[backend][i] \in Nat /\ counts'[backend][i] \in Nat
        BY <1>0, <3>1, <3>2, <3>3 DEF MonitorTypes
      <3>5. MonitorTypes'
        BY <1>0, <2>1, <3>3, <3>4 DEF MonitorTypes
      <3>6. RecordedByLive'
        BY <1>0, <2>1, <2>5, <3>1, <3>3 DEF RecordedByLive
      <3>7. RecordedInTurn'
        <4>1. \A i, j \in Monitor!Steps(backend) : i < j => one[i] >= one[j]
          <5>1. n \in Nat /\ Monitor!Steps(backend) \subseteq Nat
            BY <3>1, MonitorConstants
          <5> QED BY <3>2, <5>1
        <4>2. ASSUME NEW i \in Monitor!Steps(backend), NEW j \in Monitor!Steps(backend), i < j
              PROVE  counts'[backend][i] >= counts'[backend][j]
          <5>1. counts[backend][i] >= counts[backend][j] /\ one[i] >= one[j]
            BY <1>0, <3>1, <4>1, <4>2 DEF RecordedInTurn
          <5>2. one[i] \in Nat /\ one[j] \in Nat
            BY <3>2
          <5> QED BY <3>3, <3>4, <5>1, <5>2
        <4> QED BY <1>0, <3>3, <4>2 DEF RecordedInTurn
      <3>8. SumOf(FirstCounts', Backends) <= metrics'
        <4>1. PICK f, g : f = FirstCounts /\ g = FirstCounts'
          OBVIOUS
        <4>2. /\ \A b \in Backends : f[b] \in Nat /\ g[b] \in Nat
              /\ \A b \in Backends \ {backend} : g[b] = f[b]
              /\ g[backend] = f[backend] + one[1] /\ one[1] \in {0, 1}
          BY <1>0, <3>1, <3>2, <3>3, <3>5, <4>1, MonitorConstants DEF FirstCounts, MonitorTypes
        <4>3. SumOf(g, Backends) + f[backend] = SumOf(f, Backends) + g[backend]
          BY <3>1, <4>2, MonitorConstants, SumUpdate
        <4>4. SumOf(g, Backends) \in Nat /\ SumOf(f, Backends) \in Nat
          <5>1. IsFiniteSet(Backends)
            BY MonitorConstants
          <5> QED BY ONLY <4>2, <5>1, SumNat
        <4>5. SumOf(f, Backends) <= metrics /\ metrics \in Nat /\ f[backend] \in Nat
          BY <1>0, <3>1, <4>1, <4>2 DEF MonitorTypes
        <4>6. SumOf(g, Backends) <= metrics'
          BY ONLY <2>1, <4>2, <4>3, <4>4, <4>5
        <4> QED BY <4>1, <4>6
      <3> QED BY <2>2, <3>5, <3>6, <3>7, <3>8 DEF MonitorInv
    <2> QED BY <1>4, <2>4, <2>5 DEF Monitor!Log
  <1> QED BY <1>1, <1>2, <1>3, <1>4 DEF Monitor!Next

\* The backends together recorded no more than was logged, and the Prometheus
\* instruments belong to one of them.
THEOREM MonitorInvariant == Spec => []MonitorInv
  <1>1. Init => MonitorInv
    <2> SUFFICES ASSUME Init
                 PROVE  MonitorInv
      OBVIOUS
    <2>1. /\ metrics = 0 /\ backend = NoOp /\ constructed = {} /\ registered = FALSE
          /\ counts = [b \in Backends |-> [i \in Monitor!Steps(b) |-> 0]]
      BY DEF Init, Monitor!Init
    <2>2. \A b \in Backends : \A i \in Monitor!Steps(b) : counts[b][i] = 0
      BY <2>1
    <2>3. SumOf(FirstCounts, Backends) = 0
      BY <2>2, MonitorConstants, SumZero DEF FirstCounts
    <2>4. MonitorTypes
      BY <2>1, <2>2 DEF MonitorTypes
    <2>5. RecordedByLive
      <3>1. \A b \in Backends : ~(counts[b][1] > 0)
        BY <2>2, MonitorConstants
      <3> QED BY <3>1 DEF RecordedByLive
    <2>6. RegisteredOnce
      BY <2>1 DEF RegisteredOnce
    <2>7. RecordedInTurn
      <3>1. \A b \in Backends : \A i, j \in Monitor!Steps(b) : counts[b][i] >= counts[b][j]
        BY <2>2
      <3> QED BY <3>1 DEF RecordedInTurn
    <2>8. SumOf(FirstCounts, Backends) <= metrics
      BY <2>1, <2>3
    <2> QED BY <2>4, <2>5, <2>6, <2>7, <2>8 DEF MonitorInv
  <1>2. MonitorInv /\ [Next]_vars => MonitorInv'
    <2> SUFFICES ASSUME MonitorInv, [Next]_vars
                 PROVE  MonitorInv'
      OBVIOUS
    <2>1. CASE MonitorStep
      BY <2>1, MonitorStepInv DEF MonitorStep
    <2>2. CASE UNCHANGED monitorVars
      BY <2>2 DEF monitorVars, MonitorInv, MonitorTypes, RecordedByLive, RegisteredOnce,
                  RecordedInTurn, FirstCounts
    <2> QED
      BY <2>1, <2>2 DEF Next, vars, HybridStep, EngineStep, TrackerStep, BoardStep,
                        QueueStep, HTTPStep, AdviceStep, EdgeStep
  <1> QED BY <1>1, <1>2, PTL DEF Spec

\* RecordedOnce: a metric is recorded by one backend at most, instrument after
\* instrument, and one backend of the process counts for Prometheus.
THEOREM MetricsRecordedOnce == Spec => []RecordedOnce
  <1>1. MonitorInv => RecordedOnce
    <2> SUFFICES ASSUME MonitorInv
                 PROVE  RecordedOnce
      OBVIOUS
    <2>1. Monitor!FoldFunction(LAMBDA c, n : c[1] + n, 0, counts) <= metrics
      BY MetricSumIs DEF MonitorInv
    <2>2. \A b \in Backends : \A i, j \in Monitor!Steps(b) :
              i < j => counts[b][i] >= counts[b][j]
      BY DEF MonitorInv, RecordedInTurn
    <2>3. ASSUME NEW b \in Backends, KindOf[b] = "prometheus", counts[b][1] > 0
          PROVE  b \in constructed /\ Monitor!Registers(b)
      BY <2>3 DEF MonitorInv, RecordedByLive, Monitor!Live, Monitor!Registers
    <2>4. \A b, c \in Backends :
              (/\ KindOf[b] = "prometheus" /\ KindOf[c] = "prometheus"
               /\ counts[b][1] > 0 /\ counts[c][1] > 0) => b = c
      BY <2>3 DEF MonitorInv, RegisteredOnce
    <2> QED BY <2>1, <2>2, <2>4 DEF RecordedOnce, Monitor!RecordedOnce
  <1> QED BY <1>1, MonitorInvariant, PTL

------------------------------------------------------------------------------
(* GPUAdvice: the GPUs before the current one were handed out once more,    *)
(* and what was announced is the total of a plan with its first step on.    *)

GPUInv ==
    /\ currentGPU \in Advice!GPUs
    /\ handed \in [Advice!GPUs -> Nat]
    /\ \A g \in Advice!GPUs :
          handed[g] = handed[currentGPU] + (IF g < currentGPU THEN 1 ELSE 0)

PlanInv ==
    /\ DOMAIN enabled = Advice!GPUs \cup {Advice!Plan}
    /\ announced # 0 => /\ enabled[Advice!Plan] = {"fp16"}
                        /\ announced = Advice!TotalSpeedup

LEMMA GPUConstants ==
    /\ NumGPUs \in Nat /\ NumGPUs # 0
    /\ \A g : g \in Advice!GPUs <=> g \in Nat /\ g < NumGPUs
  BY HelpersAssumption DEF Advice!GPUAdviceAssumption, Advice!GPUs

LEMMA GPUStepInv ==
    ASSUME GPUInv, Advice!Next
    PROVE  GPUInv'
  <1>1. CASE UNCHANGED <<currentGPU, handed>>
    BY <1>1 DEF GPUInv
  <1>2. CASE Advice!NextGPU
    <2>1. /\ handed' = [handed EXCEPT ![currentGPU] = @ + 1]
          /\ currentGPU' = (currentGPU + 1) % NumGPUs
      BY <1>2 DEF Advice!NextGPU
    <2>2. PICK c \in Advice!GPUs : c = currentGPU
      BY DEF GPUInv
    <2>3. PICK d : d = currentGPU'
      OBVIOUS
    <2>4. c \in Nat /\ c < NumGPUs /\ NumGPUs \in Nat
      BY GPUConstants
    <2>5. d \in Advice!GPUs /\ (d = c + 1 \/ (d = 0 /\ c + 1 = NumGPUs))
      <3>1. CASE c + 1 < NumGPUs
        <4>1. (c + 1) % NumGPUs = c + 1
          BY <2>4, <3>1, ModSmall
        <4> QED BY <2>1, <2>2, <2>3, <2>4, <3>1, <4>1, GPUConstants
      <3>2. CASE ~(c + 1 < NumGPUs)
        <4>1. c + 1 = NumGPUs
          BY <2>4, <3>2
        <4>2. \A n \in Nat : n # 0 => n % n = 0
          OBVIOUS
        <4>3. d = 0
          BY <2>1, <2>2, <2>3, <4>1, <4>2, GPUConstants
        <4> QED BY <2>4, <4>1, <4>3, GPUConstants
      <3> QED BY <3>1, <3>2
    <2>6. /\ handed \in [Advice!GPUs -> Nat]
          /\ \A g \in Advice!GPUs : handed[g] = handed[c] + (IF g < c THEN 1 ELSE 0)
      BY <2>2 DEF GPUInv
    <2>7. /\ handed' \in [Advice!GPUs -> Nat]
          /\ \A g \in Advice!GPUs : handed'[g] = IF g = c THEN handed[g] + 1 ELSE handed[g]
      BY <2>1, <2>2, <2>6
    <2>8. \A g \in Advice!GPUs : handed'[g] = handed[c] + (IF g <= c THEN 1 ELSE 0)
      BY <2>4, <2>6, <2>7, GPUConstants
    <2>9. \A g \in Advice!GPUs : handed'[g] = handed'[d] + (IF g < d THEN 1 ELSE 0)
      <3>1. handed[c] \in Nat
        BY <2>6
      <3> QED BY <2>4, <2>5, <2>8, <3>1, GPUConstants
    <2> QED BY <2>1, <2>3, <2>5, <2>7, <2>9 DEF GPUInv
  <1> QED BY <1>1, <1>2 DEF Advice!Next, Advice!EnableTensorRT, Advice!Recommend, Advice!Apply

\* The GPUs before the current one were handed out once more than the others.
THEOREM GPUInvariant == Spec => []GPUInv
  <1>1. Init => GPUInv
    <2> SUFFICES ASSUME Init
                 PROVE  GPUInv
      OBVIOUS
    <2>1. /\ currentGPU = 0
          /\ handed = [g \in Advice!GPUs |-> 0]
      BY DEF Init, Advice!Init
    <2>2. \A g \in Advice!GPUs : ~(g < 0)
      BY GPUConstants
    <2> QED BY <2>1, <2>2, GPUConstants DEF GPUInv
  <1>2. GPUInv /\ [Next]_vars => GPUInv'
    <2> SUFFICES ASSUME GPUInv, [Next]_vars
                 PROVE  GPUInv'
      OBVIOUS
    <2>1. CASE AdviceStep
      BY <2>1, GPUStepInv DEF AdviceStep
    <2>2. CASE UNCHANGED adviceVars
      BY <2>2 DEF adviceVars, GPUInv
    <2> QED
      BY <2>1, <2>2 DEF Next, vars, HybridStep, EngineStep, TrackerStep, MonitorStep,
                        BoardStep, QueueStep, HTTPStep, EdgeStep
  <1> QED BY <1>1, <1>2, PTL DEF Spec

\* enable_tensorrt, recommend and apply.
LEMMA PlanInvariant == Spec => []PlanInv
  <1>1. Init => PlanInv
    BY DEF Init, Advice!Init, PlanInv
  <1>2. PlanInv /\ [Next]_vars => PlanInv'
    <2> SUFFICES ASSUME PlanInv, [Next]_vars
                 PROVE  PlanInv'
      OBVIOUS
    <2>1. CASE AdviceStep
      <3>1. ASSUME NEW o, NEW options, Advice!EnableTensorRT(o, options)
            PROVE  PlanInv'
        BY <3>1 DEF Advice!EnableTensorRT, PlanInv, Advice!TotalSpeedup
      <3>2. CASE Advice!NextGPU
        BY <3>2 DEF Advice!NextGPU, PlanInv, Advice!TotalSpeedup
      <3>3. CASE Advice!Recommend
        BY <3>3 DEF Advice!Recommend, PlanInv
      <3>4. CASE Advice!Apply
        <4>1. enabled'[Advice!Plan] = {"fp16"}
          BY <3>4 DEF Advice!Apply, PlanInv
        <4> QED BY <3>4, <4>1 DEF Advice!Apply, PlanInv, Advice!TotalSpeedup
      <3> QED BY <2>1, <3>1, <3>2, <3>3, <3>4 DEF AdviceStep, Advice!Next
    <2>2. CASE UNCHANGED adviceVars
      BY <2>2 DEF adviceVars, PlanInv, Advice!TotalSpeedup
    <2> QED
      BY <2>1, <2>2 DEF Next, vars, HybridStep, EngineStep, TrackerStep, MonitorStep,
                        BoardStep, QueueStep, HTTPStep, EdgeStep
  <1> QED BY <1>1, <1>2, PTL DEF Spec

\* next_gpu of gpu.py: none is handed out twice more than another, and the next
\* is one of those handed out least.
LEMMA GPUsTakeTurns == Spec => []Advice!GPUsInTurn
  <1>1. GPUInv => Advice!GPUsInTurn
    <2> SUFFICES ASSUME GPUInv
                 PROVE  Advice!GPUsInTurn
      OBVIOUS
    <2>1. /\ handed \in [Advice!GPUs -> Nat] /\ currentGPU \in Advice!GPUs
          /\ \A g \in Advice!GPUs :
                handed[g] = handed[currentGPU] + (IF g < currentGPU THEN 1 ELSE 0)
      BY DEF GPUInv
    <2>2. \A g, k \in Advice!GPUs : handed[g] <= handed[k] + 1
      BY <2>1
    <2>3. \A g \in Advice!GPUs : handed[currentGPU] <= handed[g]
      BY <2>1
    <2> QED BY <2>2, <2>3 DEF Advice!GPUsInTurn
  <1> QED BY <1>1, GPUInvariant, PTL

\* GPUs take turns for any number of them; and as apply of gpu.py enables the
\* first of its steps only, the plan's optimizer expects less than half of what
\* was announced, until its options are set again.
THEOREM GPUAdviceIsKept == Spec => []GPUAdviceKept
  <1>1. PlanInv => Advice!AppliedFallsShort
    <2> SUFFICES ASSUME PlanInv, announced # 0
                 PROVE  2 * Advice!Speedup(enabled[Advice!Plan]) < announced
      BY DEF Advice!AppliedFallsShort
    <2>1. Advice!Speedup(enabled[Advice!Plan]) = 1500
      <3>1. enabled[Advice!Plan] = {"fp16"}
        BY DEF PlanInv
      <3> QED BY <3>1 DEF Advice!Speedup
    <2>2. announced \in {3750, 4500}
      BY DEF PlanInv, Advice!TotalSpeedup
    <2> QED BY <2>1, <2>2
  <1>2. Advice!GPUsInTurn /\ Advice!AppliedFallsShort => GPUAdviceKept
    BY DEF GPUAdviceKept
  <1> QED BY <1>1, <1>2, PlanInvariant, GPUsTakeTurns, PTL

------------------------------------------------------------------------------
(* EdgeDeployment: the samples, and what is read off them.                  *)

Samples == [memory : MemoryUses, battery : Batteries]

EdgeInv == samples \in Seq(Samples)

\* The samples that advice is read off are readings of a device.
THEOREM EdgeInvariant == Spec => []EdgeInv
  <1>1. Init => EdgeInv
    BY DEF Init, Edge!Init, EdgeInv
  <1>2. EdgeInv /\ [Next]_vars => EdgeInv'
    <2> SUFFICES ASSUME EdgeInv, [Next]_vars
                 PROVE  EdgeInv'
      OBVIOUS
    <2>1. CASE EdgeStep
      <3>1. PICK m \in MemoryUses, b \in Batteries :
                samples' = Append(samples, [memory |-> m, battery |-> b])
        BY <2>1 DEF EdgeStep, Edge!Next, Edge!RecordInference
      <3>2. [memory |-> m, battery |-> b] \in Samples
        BY DEF Samples
      <3> QED BY <3>1, <3>2 DEF EdgeInv
    <2>2. CASE UNCHANGED edgeVars
      BY <2>2 DEF edgeVars, EdgeInv
    <2> QED
      BY <2>1, <2>2 DEF Next, vars, HybridStep, EngineStep, TrackerStep, MonitorStep,
                        BoardStep, QueueStep, HTTPStep, AdviceStep
  <1> QED BY <1>1, <1>2, PTL DEF Spec

\* Memory is the sum of what the samples took.
MemoryTaken == [i \in DOMAIN samples |-> samples[i].memory]

LEMMA MemoryIs ==
    ASSUME EdgeInv
    PROVE  Edge!Memory = SumOf(MemoryTaken, DOMAIN samples)
  <1> DEFINE D == DOMAIN samples
             f == MemoryTaken
             h == CHOOSE g : g = [r \in SUBSET D |->
                     IF r = {} THEN 0
                     ELSE LET i == CHOOSE y \in r : TRUE
                          IN samples[i].memory + g[r \ {i}]]
  <1>1. Edge!Memory = h[D]
    BY DEF Edge!Memory, Edge!FoldSeq, Edge!FoldFunction, Edge!FoldFunctionOnSet,
           Edge!MapThenFoldSet
  <1>2. IsFiniteSet(D) /\ \A i \in D : f[i] = samples[i].memory
    <2>1. D = 1..Len(samples) /\ Len(samples) \in Nat
      BY DEF EdgeInv
    <2> QED BY <2>1, FS_Interval DEF MemoryTaken
  <1> HIDE DEF D, f
  <1>3. \A g : IsSum(g, f, D)
               <=> g = [r \in SUBSET D |->
                          IF r = {} THEN 0
                          ELSE LET i == CHOOSE y \in r : TRUE
                               IN samples[i].memory + g[r \ {i}]]
    BY <1>2 DEF IsSum
  <1>4. IsSum(h, f, D)
    <2>1. \E g : IsSum(g, f, D)
      BY <1>2, SumExists
    <2> QED BY ZenonT(60), <1>3, <2>1
  <1> HIDE DEF h
  <1>5. h[D] = SumOf(f, D)
    BY <1>2, <1>4, SumIs
  <1> QED BY <1>1, <1>5 DEF f, D

\* A sum of numbers above 800 is above 800 times their number, and a sum of
\* others is not.
LEMMA MemoryBounds ==
    ASSUME EdgeInv
    PROVE  /\ Len(samples) \in Nat /\ Edge!Memory \in Nat
           /\ (\A i \in DOMAIN samples : samples[i].memory <= 800)
                => Edge!Memory <= 800 * Len(samples)
           /\ samples # <<>> /\ (\A i \in DOMAIN samples : samples[i].memory > 800)
                => Edge!Memory > 800 * Len(samples)
  <1> DEFINE D == DOMAIN samples
  <1>1. PICK f : f = MemoryTaken
    OBVIOUS
  <1>2. Len(samples) \in Nat /\ D = 1..Len(samples)
    BY DEF EdgeInv
  <1>3. IsFiniteSet(D) /\ Cardinality(D) = Len(samples)
    <2>1. IsFiniteSet(1..Len(samples)) /\ Cardinality(1..Len(samples)) = Len(samples)
      BY <1>2, UpToFinite
    <2> QED BY <1>2, <2>1
  <1>4. \A i \in D : samples[i].memory \in Nat
    <2>1. \A i \in D : samples[i] \in Samples
      BY DEF EdgeInv
    <2> QED BY <2>1, HelpersAssumption DEF Edge!EdgeAssumption, Samples
  <1>5. \A i \in D : f[i] = samples[i].memory /\ f[i] \in Nat
    BY <1>1, <1>4 DEF MemoryTaken
  <1>6. Edge!Memory = SumOf(f, D)
    BY <1>1, MemoryIs
  <1> HIDE DEF D
  <1>7. SumOf(f, D) \in Nat
    BY <1>3, <1>5, SumNat
  <1>8. ASSUME \A i \in D : samples[i].memory <= 800
        PROVE  SumOf(f, D) <= 800 * Len(samples)
    <2>1. \A i \in D : f[i] \in Nat /\ f[i] <= 800
      BY <1>5, <1>8
    <2>2. 800 \in Nat
      OBVIOUS
    <2>3. SumOf(f, D) <= 800 * Cardinality(D)
      BY ONLY ZenonT(60), <1>3, <2>1, <2>2, SumAtMost
    <2> QED BY <1>3, <2>3
  <1>9. ASSUME samples # <<>>, \A i \in D : samples[i].memory > 800
        PROVE  SumOf(f, D) > 800 * Len(samples)
    <2>1. \A i \in D : f[i] \in Nat /\ f[i] >= 801
      BY <1>5, <1>9
    <2>2. SumOf(f, D) >= 801 * Len(samples)
      <3>1. 801 \in Nat
        OBVIOUS
      <3>2. SumOf(f, D) >= 801 * Cardinality(D)
        BY ONLY ZenonT(60), <1>3, <2>1, <3>1, SumAtLeast
      <3> QED BY <1>3, <3>2
    <2>3. Len(samples) # 0
      BY <1>9 DEF EdgeInv
    <2> QED BY <1>2, <1>7, <2>2, <2>3
  <1> QED BY <1>2, <1>6, <1>7, <1>8, <1>9 DEF D

\* The tables.
LEMMA TablesSound ==
    \A d \in DOMAIN Edge!Specs :
        /\ Edge!QuantizedSize(d) <= Edge!Specs[d].max <=> d # "esp32"
        /\ Edge!SizeOk(d) => Edge!QuantizedSize(d) <= Edge!Specs[d].max
        /\ \A e \in DOMAIN Edge!Specs : Edge!Specs[d].ram <= Edge!Specs[e].ram
             => Edge!QuantizedSize(d) <= Edge!QuantizedSize(e)
  <1>1. \A d \in DOMAIN Edge!Specs :
           /\ Edge!Specs[d].ram \in Nat /\ Edge!Specs[d].max \in Nat
           /\ Edge!QuantizedSize(d) = IF Edge!Specs[d].ram < 1024 THEN 13
                                      ELSE IF Edge!Specs[d].ram <= 4095 THEN 25 ELSE 50
    <2>1. \A d \in DOMAIN Edge!Specs :
             Edge!Specs[d].ram \in Nat /\ Edge!Specs[d].max \in Nat
      BY DEF Edge!Specs, Edge!Device
    <2> SUFFICES ASSUME NEW d \in DOMAIN Edge!Specs
                 PROVE  Edge!QuantizedSize(d) = IF Edge!Specs[d].ram < 1024 THEN 13
                                                ELSE IF Edge!Specs[d].ram <= 4095 THEN 25 ELSE 50
      BY <2>1
    <2>2. PICK r \in Nat : r = Edge!Specs[d].ram
      BY <2>1
    <2>3. Edge!QuantizedSize(d) = CASE r < 1024 -> 13
                                    [] r \in 1024..4095 -> 25
                                    [] OTHER -> 50
      BY <2>2 DEF Edge!QuantizedSize
    <2>4. CASE r < 1024
      <3>1. r < 1024 /\ ~(r \in 1024..4095)
        BY SMTT(60), <2>4
      <3>2. Edge!QuantizedSize(d) = 13
        BY ONLY <2>3, <3>1
      <3> QED BY <2>2, <2>4, <3>2
    <2>5. CASE r >= 1024 /\ r <= 4095
      <3>1. ~(r < 1024) /\ r \in 1024..4095
        BY <2>5
      <3>2. Edge!QuantizedSize(d) = 25
        BY ONLY <2>3, <3>1
      <3> QED BY <2>2, <2>5, <3>1, <3>2
    <2>6. CASE r > 4095
      <3>1. ~(r < 1024) /\ ~(r \in 1024..4095)
        BY SMTT(60), <2>6
      <3>2. Edge!QuantizedSize(d) = 50
        BY ONLY <2>3, <3>1
      <3> QED BY <2>2, <2>6, <3>1, <3>2
    <2> QED BY <2>4, <2>5, <2>6
  <1>2. \A d \in DOMAIN Edge!Specs : Edge!SizeOk(d) => 100 <= Edge!Specs[d].max
    BY DEF Edge!SizeOk, Edge!ModelSize
  <1>3. \A d \in DOMAIN Edge!Specs :
           IF d = "esp32" THEN Edge!Specs[d].max = 1
                          ELSE Edge!Specs[d].max >= 50
    BY DEF Edge!Specs, Edge!Device
  <1>4. \A d \in DOMAIN Edge!Specs :
           Edge!QuantizedSize(d) <= Edge!Specs[d].max <=> d # "esp32"
    BY <1>1, <1>3
  <1> QED BY <1>1, <1>2, <1>4

\* EdgeAdviceSound: a device offloads when its battery is low by now or all it
\* recorded took much memory, never without one of the two, and is given a
\* model that fits unless it is an ESP32.
THEOREM EdgeAdviceIsSound == Spec => []EdgeAdviceSound
  <1>1. EdgeInv => EdgeAdviceSound
    <2> SUFFICES ASSUME EdgeInv
                 PROVE  EdgeAdviceSound
      OBVIOUS
    <2>1. Edge!Last(samples) = samples[Len(samples)]
      BY DEF Edge!Last
    <2>2. \A i \in DOMAIN samples : samples[i].memory \in Nat
      <3>1. \A i \in DOMAIN samples : samples[i] \in Samples
        BY DEF EdgeInv
      <3> QED BY <3>1, HelpersAssumption DEF Edge!EdgeAssumption, Samples
    <2>3. Edge!ShouldOffload => \/ Edge!Last(samples).battery < 20
                                \/ \E i \in DOMAIN samples : samples[i].memory > 800
      BY <2>2, MemoryBounds DEF Edge!ShouldOffload, Edge!Battery
    <2>4. samples # <<>> /\ (\A i \in DOMAIN samples : samples[i].memory > 800)
            => Edge!ShouldOffload
      BY MemoryBounds DEF Edge!ShouldOffload
    <2>5. samples # <<>> /\ Edge!Last(samples).battery < 20 => Edge!ShouldOffload
      BY DEF Edge!ShouldOffload, Edge!Battery
    <2> QED BY <2>3, <2>4, <2>5, TablesSound DEF EdgeAdviceSound, Edge!EdgeAdviceSound
  <1> QED BY <1>1, EdgeInvariant, PTL

------------------------------------------------------------------------------
(* ModelTracker: the runs on the server only grow, and the current run is   *)
(* the one its training is logged to, unless a call failed.                 *)

Runs == [experiment : {"default", "own"}, models : SUBSET Nat]

TrackerTypes ==
    /\ runs \in Seq(Runs)
    /\ versions \subseteq [training : Nat, run : DOMAIN runs]
    /\ target \in {"default", "own"}
    /\ active \in {0} \cup DOMAIN runs
    /\ current \in {0} \cup DOMAIN runs
    /\ trainings \in Nat

CallFailed(t) == \E call \in {"start", "log"} : <<t, call>> \in failed

\* The latest training is logged to the current run, was, or failed.
CurrentLogged ==
    current # 0 => \/ active = current
                   \/ trainings \in runs[current].models
                   \/ CallFailed(trainings)

VersionsLogged ==
    \A v \in versions : v.training \in runs[v.run].models \/ CallFailed(v.training)

\* A tracker with an experiment has set it before it has a run.
FiledInOwn ==
    /\ experiment = "none" => current = 0
    /\ experiment = "own" => target = "own"
    /\ experiment = "own" /\ current # 0 => runs[current].experiment = "own"

TrackerInv == TrackerTypes /\ CurrentLogged /\ VersionsLogged /\ FiledInOwn

Grown(old, new) ==
    /\ DOMAIN old \subseteq DOMAIN new
    /\ \A i \in DOMAIN old : /\ new[i].experiment = old[i].experiment
                             /\ old[i].models \subseteq new[i].models

\* Where models are logged.
LEMMA LogGrows ==
    ASSUME TrackerTypes, NEW models \in SUBSET Nat, NEW l, l = Tracker!Log(models)
    PROVE  /\ l.runs \in Seq(Runs) /\ Grown(runs, l.runs)
           /\ l.active \in DOMAIN l.runs /\ l.active # 0
           /\ models \subseteq l.runs[l.active].models
           /\ active # 0 => l.active = active
           /\ active = 0 => l.runs[l.active].experiment = target
  <1>1. runs \in Seq(Runs) /\ Len(runs) \in Nat /\ DOMAIN runs = 1..Len(runs)
    BY DEF TrackerTypes
  <1>2. \A i \in DOMAIN runs : runs[i] \in Runs
    BY <1>1
  <1>3. CASE active = 0
    <2>1. PICK r \in Runs : r = [experiment |-> target, models |-> models]
      BY DEF TrackerTypes, Runs
    <2>2. l.runs = Append(runs, r) /\ l.active = Len(runs) + 1
      BY <1>3, <2>1 DEF Tracker!Log
    <2>3. /\ l.runs \in Seq(Runs) /\ DOMAIN l.runs = 1..Len(runs) + 1
          /\ l.runs[Len(runs) + 1] = r
          /\ \A i \in DOMAIN runs : l.runs[i] = runs[i]
      BY <1>1, <2>1, <2>2
    <2>4. Grown(runs, l.runs)
      BY <1>1, <2>3 DEF Grown
    <2>5. Len(runs) + 1 \in 1..Len(runs) + 1 /\ Len(runs) + 1 # 0
      BY <1>1
    <2> QED BY <1>3, <2>1, <2>2, <2>3, <2>4, <2>5
  <1>4. CASE active # 0
    <2>1. active \in DOMAIN runs
      BY <1>4 DEF TrackerTypes
    <2>2. l.runs = [runs EXCEPT ![active].models = @ \cup models] /\ l.active = active
      BY <1>4 DEF Tracker!Log
    <2>3. /\ DOMAIN l.runs = DOMAIN runs
          /\ \A i \in DOMAIN runs : i # active => l.runs[i] = runs[i]
          /\ l.runs[active] = [runs[active] EXCEPT !.models = @ \cup models]
      BY <2>1, <2>2
    <2>4. /\ l.runs[active] \in Runs
          /\ l.runs[active].experiment = runs[active].experiment
          /\ l.runs[active].models = runs[active].models \cup models
      BY <1>2, <2>1, <2>3 DEF Runs
    <2>5. \A i \in DOMAIN runs : l.runs[i] \in Runs
      BY <1>2, <2>3, <2>4
    <2>6. l.runs \in Seq(Runs)
      <3>1. l.runs \in [1..Len(runs) -> Runs]
        BY <1>1, <2>2, <2>3, <2>5
      <3> QED BY <1>1, <3>1
    <2>7. Grown(runs, l.runs)
      BY <2>3, <2>4 DEF Grown
    <2> QED BY <1>4, <2>1, <2>2, <2>3, <2>4, <2>6, <2>7
  <1> QED BY <1>3, <1>4

\* What was logged, and what failed, stays.
LEMMA StillLogged ==
    ASSUME TrackerTypes, VersionsLogged, Grown(runs, runs'), failed \subseteq failed',
           UNCHANGED versions
    PROVE  VersionsLogged' /\ versions' \subseteq [training : Nat, run : DOMAIN runs']
  <1>1. \A v \in versions : v.training \in Nat /\ v.run \in DOMAIN runs /\ v.run \in DOMAIN runs'
                            /\ v \in [training : Nat, run : DOMAIN runs']
    BY DEF TrackerTypes, Grown
  <1>2. \A t : CallFailed(t) => CallFailed(t)'
    BY DEF CallFailed
  <1> QED BY <1>1, <1>2 DEF VersionsLogged, Grown

LEMMA TrackerStepInv ==
    ASSUME TrackerInv, Tracker!Next
    PROVE  TrackerInv'
  <1>0. TrackerTypes /\ CurrentLogged /\ VersionsLogged /\ FiledInOwn
    BY DEF TrackerInv
  <1>a. Grown(runs, runs)
    BY DEF Grown
  <1>b. 0 \notin DOMAIN runs
    BY <1>0 DEF TrackerTypes
  <1>1. CASE Tracker!MakeTracker
    <2>1. /\ experiment = "none"
          /\ \/ experiment' = "own" /\ target' = "own"
             \/ experiment' = "local" /\ target' \in {target, "own"}
          /\ UNCHANGED <<runs, versions, active, current, trainings, failed>>
      <3>1. /\ experiment = "none"
            /\ \/ target' = "own" /\ experiment' \in {"own", "local"}
               \/ experiment' = "local" /\ UNCHANGED target
            /\ UNCHANGED <<runs, versions, active, current, trainings, failed>>
        BY <1>1, Zenon DEF Tracker!MakeTracker, Tracker!Made
      <3> QED BY <3>1
    <2>2. TrackerTypes' /\ CurrentLogged' /\ VersionsLogged'
      BY <1>0, <2>1 DEF TrackerTypes, CurrentLogged, VersionsLogged, CallFailed
    <2>3. FiledInOwn'
      BY <1>0, <2>1 DEF FiledInOwn
    <2> QED BY <2>2, <2>3 DEF TrackerInv
  <1>2. CASE Tracker!StartTraining
    <2>1. /\ trainings' = trainings + 1 /\ experiment # "none"
          /\ UNCHANGED <<versions, target, experiment>>
      BY <1>2 DEF Tracker!StartTraining, Tracker!Made
    <2>2. trainings' \in Nat
      BY <1>0, <2>1 DEF TrackerTypes
    <2>3. ASSUME active = 0, runs' = Tracker!Log({}).runs, active' = Tracker!Log({}).active,
                 current' = active', failed' = failed
          PROVE  TrackerInv'
      <3>1. /\ runs' \in Seq(Runs) /\ Grown(runs, runs')
            /\ active' \in DOMAIN runs' /\ active' # 0
            /\ runs'[active'].experiment = target
        <4>1. PICK l : l = Tracker!Log({})
          OBVIOUS
        <4>2. {} \in SUBSET Nat
          OBVIOUS
        <4> QED BY <1>0, <2>3, <4>1, <4>2, LogGrows
      <3>2. VersionsLogged' /\ versions' \subseteq [training : Nat, run : DOMAIN runs']
        BY <1>0, <2>1, <2>3, <3>1, StillLogged
      <3>3. TrackerTypes'
        BY <1>0, <2>1, <2>2, <2>3, <3>1, <3>2 DEF TrackerTypes
      <3>4. CurrentLogged' /\ FiledInOwn'
        BY <1>0, <2>1, <2>3, <3>1 DEF CurrentLogged, FiledInOwn
      <3> QED BY <3>2, <3>3, <3>4 DEF TrackerInv
    <2>4. ASSUME failed' = failed \cup {<<trainings', "start">>}, Tracker!StartFails,
                 current' = current
          PROVE  TrackerInv'
      <3>1. /\ runs' \in Seq(Runs) /\ Grown(runs, runs')
            /\ active' \in {0} \cup DOMAIN runs'
        <4>1. CASE UNCHANGED <<runs, active>>
          BY <1>0, <1>a, <4>1 DEF TrackerTypes
        <4>2. CASE runs' = Tracker!Log({}).runs /\ active' \in {0, Tracker!Log({}).active}
          <5>1. PICK l : l = Tracker!Log({})
            OBVIOUS
          <5>2. {} \in SUBSET Nat
            OBVIOUS
          <5>3. l.runs \in Seq(Runs) /\ Grown(runs, l.runs) /\ l.active \in DOMAIN l.runs
            BY <1>0, <5>1, <5>2, LogGrows
          <5> QED BY <4>2, <5>1, <5>3
        <4> QED BY <2>4, <4>1, <4>2 DEF Tracker!StartFails
      <3>2. VersionsLogged' /\ versions' \subseteq [training : Nat, run : DOMAIN runs']
        BY <1>0, <2>1, <2>4, <3>1, StillLogged
      <3>3. current # 0 => current \in DOMAIN runs /\ current \in DOMAIN runs'
        BY <1>0, <3>1 DEF TrackerTypes, Grown
      <3>4. TrackerTypes'
        BY <1>0, <2>1, <2>2, <2>4, <3>1, <3>2, <3>3 DEF TrackerTypes
      <3>5. CallFailed(trainings)'
        BY <2>4 DEF CallFailed
      <3>6. CurrentLogged'
        BY <3>5 DEF CurrentLogged, CallFailed
      <3>7. FiledInOwn'
        BY <1>0, <2>1, <2>4, <3>1, <3>3 DEF FiledInOwn, Grown
      <3> QED BY <3>2, <3>4, <3>6, <3>7 DEF TrackerInv
    <2> QED BY <1>2, <2>3, <2>4 DEF Tracker!StartTraining
  <1>3. CASE Tracker!LogMetrics
    <2>1. /\ runs' = Tracker!Log({}).runs /\ active' = Tracker!Log({}).active
          /\ UNCHANGED <<versions, target, experiment, current, trainings, failed>>
      BY <1>3 DEF Tracker!LogMetrics, Tracker!tracker
    <2>2. /\ runs' \in Seq(Runs) /\ Grown(runs, runs')
          /\ active' \in DOMAIN runs' /\ (active # 0 => active' = active)
      <3>1. PICK l : l = Tracker!Log({})
        OBVIOUS
      <3>2. {} \in SUBSET Nat
        OBVIOUS
      <3> QED BY <1>0, <2>1, <3>1, <3>2, LogGrows
    <2>3. VersionsLogged' /\ versions' \subseteq [training : Nat, run : DOMAIN runs']
      BY <1>0, <2>1, <2>2, StillLogged
    <2>4. TrackerTypes'
      BY <1>0, <2>1, <2>2, <2>3 DEF TrackerTypes, Grown
    <2>5. CurrentLogged'
      BY <1>0, <2>1, <2>2 DEF CurrentLogged, TrackerTypes, Grown, CallFailed
    <2>6. FiledInOwn'
      BY <1>0, <2>1, <2>2 DEF FiledInOwn, TrackerTypes, Grown
    <2> QED BY <2>3, <2>4, <2>5, <2>6 DEF TrackerInv
  <1>4. CASE Tracker!EndTraining
    <2>1. /\ UNCHANGED <<target, experiment, current, trainings>>
          /\ versions' \in {versions} \cup
                {versions \cup {[training |-> trainings, run |-> r]} : r \in {current} \ {0}}
      BY <1>4 DEF Tracker!EndTraining, Tracker!tracker
    <2>2. PICK m \in {Tracker!Log({trainings}), Tracker!Log({}), Tracker!Unlogged} :
             /\ runs' = m.runs
             /\ active' \in {m.active, 0}
             /\ failed' = IF m = Tracker!Log({trainings}) THEN failed
                          ELSE failed \cup {<<trainings, "log">>}
      BY <1>4 DEF Tracker!EndTraining
    <2>3. {trainings} \in SUBSET Nat /\ {} \in SUBSET Nat
      BY <1>0 DEF TrackerTypes
    <2>4. /\ runs' \in Seq(Runs) /\ Grown(runs, runs')
          /\ active' \in {0} \cup DOMAIN runs'
          /\ active # 0 => active' \in {active, 0}
      <3>1. CASE m = Tracker!Unlogged
        <4>1. m.runs = runs /\ m.active = active
          BY <3>1 DEF Tracker!Unlogged
        <4> QED BY <1>0, <1>a, <2>2, <4>1 DEF TrackerTypes
      <3>2. ASSUME NEW models \in {{trainings}, {}}, m = Tracker!Log(models)
            PROVE  /\ runs' \in Seq(Runs) /\ Grown(runs, runs')
                   /\ active' \in {0} \cup DOMAIN runs'
                   /\ active # 0 => active' \in {active, 0}
        <4>1. models \in SUBSET Nat
          BY <2>3
        <4>2. /\ m.runs \in Seq(Runs) /\ Grown(runs, m.runs)
              /\ m.active \in DOMAIN m.runs
              /\ active # 0 => m.active = active
          BY ONLY <1>0, <3>2, <4>1, LogGrows
        <4> QED BY <2>2, <4>2
      <3> QED BY <3>1, <3>2
    <2>5. failed \subseteq failed'
      BY <2>2
    \* The training is logged to the active run, or the call failed.
    <2>6. current # 0 /\ active = current =>
             trainings \in runs'[current].models \/ CallFailed(trainings)'
      <3>1. CASE m = Tracker!Log({trainings})
        <4>1. {trainings} \subseteq m.runs[m.active].models
              /\ (active # 0 => m.active = active)
          BY ONLY <1>0, <2>3, <3>1, LogGrows
        <4> QED BY <2>2, <4>1
      <3>2. CASE m # Tracker!Log({trainings})
        BY <2>1, <2>2, <3>2 DEF CallFailed
      <3> QED BY <3>1, <3>2
    <2>7. \A t : CallFailed(t) => CallFailed(t)'
      BY <2>5 DEF CallFailed
    <2>8. current # 0 => current \in DOMAIN runs /\ current \in DOMAIN runs'
      BY <1>0, <2>4 DEF TrackerTypes, Grown
    <2>9. current # 0 => trainings \in runs'[current].models \/ CallFailed(trainings)'
      <3> SUFFICES ASSUME current # 0
                   PROVE  trainings \in runs'[current].models \/ CallFailed(trainings)'
        OBVIOUS
      <3>1. CASE active = current
        BY <2>6, <3>1
      <3>2. CASE trainings \in runs[current].models
        BY <2>4, <2>8, <3>2 DEF Grown
      <3>3. CASE CallFailed(trainings)
        <4>1. \E call \in {"start", "log"} : <<trainings, call>> \in failed'
          BY <2>5, <3>3 DEF CallFailed
        <4> QED BY <2>1, <4>1 DEF CallFailed
      <3> QED BY <1>0, <3>1, <3>2, <3>3 DEF CurrentLogged
    <2>10. versions' \subseteq [training : Nat, run : DOMAIN runs'] /\ VersionsLogged'
      <3>1. \A v \in versions : /\ v.run \in DOMAIN runs /\ v.training \in Nat
                                /\ v \in [training : Nat, run : DOMAIN runs']
        BY <1>0, <2>4 DEF TrackerTypes, Grown
      <3>2. \A v \in versions : v.training \in runs'[v.run].models \/ CallFailed(v.training)'
        BY <1>0, <2>4, <2>7, <3>1 DEF VersionsLogged, Grown
      <3>3. CASE versions' = versions
        BY <3>1, <3>2, <3>3 DEF VersionsLogged
      <3>4. CASE current # 0
                 /\ versions' = versions \cup {[training |-> trainings, run |-> current]}
        <4>1. PICK v : v = [training |-> trainings, run |-> current]
          OBVIOUS
        <4>2. v.training = trainings /\ v.run = current
              /\ v \in [training : Nat, run : DOMAIN runs']
          BY <1>0, <2>8, <3>4, <4>1 DEF TrackerTypes
        <4>3. \A w \in versions' : w \in versions \/ w = v
          BY <3>4, <4>1
        <4>4. versions' \subseteq [training : Nat, run : DOMAIN runs']
          BY <3>1, <4>2, <4>3
        <4>5. ASSUME NEW w \in versions'
              PROVE  w.training \in runs'[w.run].models \/ CallFailed(w.training)'
          <5>1. CASE w \in versions
            BY <3>2, <5>1
          <5>2. CASE w = v
            <6>1. trainings \in runs'[current].models
                  \/ \E call \in {"start", "log"} : <<trainings, call>> \in failed'
              BY <2>1, <2>9, <3>4 DEF CallFailed
            <6> QED BY <4>2, <5>2, <6>1 DEF CallFailed
          <5> QED BY <4>3, <5>1, <5>2
        <4> QED BY <4>4, <4>5 DEF VersionsLogged
      <3> QED BY <2>1, <3>3, <3>4
    <2>11. TrackerTypes'
      BY <1>0, <2>1, <2>4, <2>8, <2>10 DEF TrackerTypes
    <2>12. CurrentLogged'
      BY <2>1, <2>9 DEF CurrentLogged, CallFailed
    <2>13. FiledInOwn'
      BY <1>0, <2>1, <2>4, <2>8 DEF FiledInOwn, Grown
    <2> QED BY <2>10, <2>11, <2>12, <2>13 DEF TrackerInv
  <1>5. CASE Tracker!Restart
    <2>1. /\ experiment' = "none" /\ current' = 0 /\ target' = "default" /\ active' = 0
          /\ UNCHANGED <<runs, versions, trainings, failed>>
      BY <1>5 DEF Tracker!Restart, Tracker!server
    <2> QED BY <1>0, <2>1 DEF TrackerInv, TrackerTypes, CurrentLogged, VersionsLogged,
                              FiledInOwn, CallFailed
  <1> QED BY <1>1, <1>2, <1>3, <1>4, <1>5 DEF Tracker!Next

\* A version's run has its model unless a call of its training failed; and the
\* run that the next version will name is active, has the model or had a
\* failed call.
THEOREM TrackerInvariant == Spec => []TrackerInv
  <1>1. Init => TrackerInv
    <2> SUFFICES ASSUME Init
                 PROVE  TrackerInv
      OBVIOUS
    <2>1. /\ runs = <<>> /\ versions = {} /\ target = "default" /\ active = 0
          /\ experiment = "none" /\ current = 0 /\ trainings = 0
      BY DEF Init, Tracker!Init
    <2> QED BY <2>1 DEF TrackerInv, TrackerTypes, CurrentLogged, VersionsLogged, FiledInOwn
  <1>2. TrackerInv /\ [Next]_vars => TrackerInv'
    <2> SUFFICES ASSUME TrackerInv, [Next]_vars
                 PROVE  TrackerInv'
      OBVIOUS
    <2>1. CASE TrackerStep
      BY <2>1, TrackerStepInv DEF TrackerStep
    <2>2. CASE UNCHANGED trackerVars
      BY <2>2 DEF trackerVars, TrackerInv, TrackerTypes, CurrentLogged, VersionsLogged,
                  FiledInOwn, CallFailed
    <2> QED
      BY <2>1, <2>2 DEF Next, vars, HybridStep, EngineStep, MonitorStep, BoardStep,
                        QueueStep, HTTPStep, AdviceStep, EdgeStep
  <1> QED BY <1>1, <1>2, PTL DEF Spec

\* RegisteredAsTrained: a version names a run that holds its model, unless a
\* call failed, and a tracker's runs are filed in its experiment.
THEOREM VersionsAreAsTrained == Spec => []RegisteredAsTrained
  <1>1. TrackerInv => RegisteredAsTrained
    BY DEF TrackerInv, VersionsLogged, CallFailed, FiledInOwn, RegisteredAsTrained,
           Tracker!RegisteredAsTrained
  <1> QED BY <1>1, TrackerInvariant, PTL

------------------------------------------------------------------------------
(* InferenceQueue: what was handed out is the beginning of what arrived,    *)
(* each batch in an order of its own.                                       *)

QueueTypes == /\ arrived \in Seq(Requests)
              /\ requestQueue \in Seq(Requests)
              /\ batched \in Seq(Requests)

\* The queue holds what arrived and was not handed out yet.
QueueIsRest ==
    /\ \A i, j \in 1..Len(arrived) : arrived[i] = arrived[j] => i = j
    /\ Len(arrived) = Len(batched) + Len(requestQueue)
    /\ \A i \in 1..Len(requestQueue) : requestQueue[i] = arrived[Len(batched) + i]

\* The places before k that were given to later arrivals, w[i] being the place
\* at which the i-th handed out arrived.
Over(w, k) == {i \in DOMAIN w : i < k /\ w[i] > w[k]}

HandedOut(w, n) ==
    /\ w \in [1..n -> 1..n]
    /\ \A i, j \in 1..n : w[i] = w[j] => i = j
    /\ \A j \in 1..n : \E i \in 1..n : w[i] = j
    /\ \A i \in 1..n : batched[i] = arrived[w[i]]
    /\ \A k \in 1..n : /\ IsFiniteSet(Over(w, k)) /\ Cardinality(Over(w, k)) < BatchSize
                       /\ \A i \in Over(w, k) : Priority[batched[i]] > Priority[batched[k]]

QueueInv == QueueTypes /\ QueueIsRest /\ \E w : HandedOut(w, Len(batched))

LEMMA QueueCounts == \A S : Queue!Cardinality(S) = Cardinality(S)
  BY DEF Queue!Cardinality, Cardinality

LEMMA QueueConstants == Priority \in [Requests -> Nat] /\ BatchSize \in Nat /\ BatchSize > 0
  BY HelpersAssumption DEF Queue!QueueAssumption

\* Which element of s the k-th of the sorted is, for each k.
Sorted(o, s) ==
    /\ o \in [1..Len(s) -> 1..Len(s)]
    /\ \A i, j \in 1..Len(s) : o[i] = o[j] => i = j
    /\ \A i \in 1..Len(s) : \E k \in 1..Len(s) : o[k] = i
    /\ \A i, j \in 1..Len(s) : i < j =>
          \/ Priority[s[o[i]]] > Priority[s[o[j]]]
          \/ Priority[s[o[i]]] = Priority[s[o[j]]] /\ o[i] < o[j]

LEMMA ByPrioritySorts ==
    ASSUME NEW s \in Seq(Requests)
    PROVE  /\ Queue!ByPriority(s) \in Seq(Requests)
           /\ Len(Queue!ByPriority(s)) = Len(s)
           /\ \E o : Sorted(o, s) /\ \A k \in 1..Len(s) : Queue!ByPriority(s)[k] = s[o[k]]
  <1>1. PICK n \in Nat : n = Len(s)
    BY LenProperties
  <1>2. DOMAIN s = 1..n
    BY <1>1, LenProperties
  <1>3. \A i \in 1..n : s[i] \in Requests /\ Priority[s[i]] \in Nat
    BY <1>1, ElementOfSeq, QueueConstants
  <1> DEFINE Before(i, j) == \/ Priority[s[i]] > Priority[s[j]]
                             \/ Priority[s[i]] = Priority[s[j]] /\ i < j
  <1>4. PICK R : R = {p \in (1..n) \X (1..n) : Before(p[1], p[2])}
    OBVIOUS
  <1>5. \A i, j \in 1..n : <<i, j>> \in R <=> Before(i, j)
    BY <1>4
  <1>6. Orders(R, n)
    <2>1. \A i \in 1..n : ~Before(i, i)
      BY <1>3
    <2>2. \A i, j \in 1..n : i # j => Before(i, j) \/ Before(j, i)
      BY <1>3
    <2>3. \A i, j, k \in 1..n : Before(i, j) /\ Before(j, k) => Before(i, k)
      BY <1>3
    <2> HIDE DEF Before
    <2> QED BY <1>5, <2>1, <2>2, <2>3 DEF Orders
  <1>7. \A i \in 1..n : Queue!Cardinality({j \in DOMAIN s : Before(j, i)}) = Rank(R, n, i)
    <2> SUFFICES ASSUME NEW i \in 1..n
                 PROVE  Queue!Cardinality({j \in DOMAIN s : Before(j, i)}) = Rank(R, n, i)
      OBVIOUS
    <2> HIDE DEF Before
    <2>1. {j \in DOMAIN s : Before(j, i)} = Lower(R, n, i)
      BY <1>2, <1>5 DEF Lower
    <2> QED BY <2>1, QueueCounts DEF Rank
  <1>8. PICK o : o = [k \in 1..n |-> CHOOSE i \in 1..n : Rank(R, n, i) = k - 1]
    OBVIOUS
  <1>9. \A k \in 1..n : o[k] \in 1..n /\ Rank(R, n, o[k]) = k - 1
    <2> SUFFICES ASSUME NEW k \in 1..n
                 PROVE  o[k] \in 1..n /\ Rank(R, n, o[k]) = k - 1
      OBVIOUS
    <2>1. k - 1 \in Nat /\ k - 1 < n
      OBVIOUS
    <2>2. \E i \in 1..n : Rank(R, n, i) = k - 1
      BY <1>6, <2>1, RankTaken
    <2> QED BY <1>8, <2>2
  <1>10. \A k \in 1..n : Queue!ByPriority(s)[k] = s[o[k]]
    <2> SUFFICES ASSUME NEW k \in 1..n
                 PROVE  Queue!ByPriority(s)[k] = s[o[k]]
      OBVIOUS
    <2>1. Queue!ByPriority(s)[k]
          = s[CHOOSE i \in DOMAIN s : Queue!Cardinality({j \in DOMAIN s : Before(j, i)}) = k - 1]
      BY <1>2 DEF Queue!ByPriority
    <2> HIDE DEF Before
    <2>2. (CHOOSE i \in DOMAIN s : Queue!Cardinality({j \in DOMAIN s : Before(j, i)}) = k - 1)
          = CHOOSE i \in 1..n : Rank(R, n, i) = k - 1
      BY <1>2, <1>7
    <2>3. o[k] = CHOOSE i \in 1..n : Rank(R, n, i) = k - 1
      BY <1>8
    <2> QED BY <2>1, <2>2, <2>3
  <1>11. Queue!ByPriority(s) \in Seq(Requests) /\ Len(Queue!ByPriority(s)) = n
    <2>1. PICK t : t = Queue!ByPriority(s)
      OBVIOUS
    <2>2. t = [k \in 1..n |-> t[k]] /\ \A k \in 1..n : t[k] \in Requests
      <3>1. t = [k \in DOMAIN s |-> s[CHOOSE i \in DOMAIN s :
                       Queue!Cardinality({j \in DOMAIN s : Before(j, i)}) = k - 1]]
        BY <2>1 DEF Queue!ByPriority
      <3> HIDE DEF Before
      <3>2. t = [k \in 1..n |-> t[k]]
        BY <1>2, <3>1
      <3> QED BY <1>3, <1>9, <1>10, <2>1, <3>2
    <2>3. t \in Seq(Requests) /\ Len(t) = n
      BY <2>2
    <2> QED BY <2>1, <2>3
  <1>12. \A i, j \in 1..n : o[i] = o[j] => i = j
    BY <1>9
  <1>13. \A i \in 1..n : \E k \in 1..n : o[k] = i
    <2> SUFFICES ASSUME NEW i \in 1..n
                 PROVE  \E k \in 1..n : o[k] = i
      OBVIOUS
    <2>1. Rank(R, n, i) \in Nat /\ Rank(R, n, i) + 1 <= n
      BY <1>6, RankBelow
    <2>2. PICK k \in 1..n : k = Rank(R, n, i) + 1
      BY <2>1
    <2>3. o[k] \in 1..n /\ Rank(R, n, o[k]) = Rank(R, n, i)
      BY <1>9, <2>1, <2>2
    <2>4. o[k] = i
      BY <1>6, <2>3, RankOnce
    <2> QED BY <2>4
  <1>14. \A i, j \in 1..n : i < j => Before(o[i], o[j])
    <2> SUFFICES ASSUME NEW i \in 1..n, NEW j \in 1..n, i < j
                 PROVE  Before(o[i], o[j])
      OBVIOUS
    <2> HIDE DEF Before
    <2>1. o[i] \in 1..n /\ o[j] \in 1..n /\ o[i] # o[j]
          /\ ~(Rank(R, n, o[j]) < Rank(R, n, o[i]))
      BY <1>9, <1>12
    <2>2. <<o[j], o[i]>> \notin R
      BY <1>6, <2>1, RankGrows
    <2>3. <<o[i], o[j]>> \in R
      BY <1>6, <2>1, <2>2 DEF Orders
    <2> QED BY <1>5, <2>1, <2>3
  <1>15. o \in [1..n -> 1..n]
    BY <1>8, <1>9
  <1>16. Sorted(o, s)
    BY <1>1, <1>12, <1>13, <1>14, <1>15 DEF Sorted
  <1> QED BY <1>1, <1>10, <1>11, <1>16

\* A batch of n, sorted by o, after L that were handed out.
Extended(w, L, o, n) == [i \in 1..(L + n) |-> IF i <= L THEN w[i] ELSE L + o[i - L]]

LEMMA ExtendedPlaces ==
    ASSUME NEW L \in Nat, NEW n \in Nat, NEW w \in [1..L -> 1..L], NEW o \in [1..n -> 1..n],
           \A i, j \in 1..L : w[i] = w[j] => i = j,
           \A i, j \in 1..n : o[i] = o[j] => i = j,
           \A j \in 1..L : \E i \in 1..L : w[i] = j,
           \A j \in 1..n : \E i \in 1..n : o[i] = j
    PROVE  LET v == Extended(w, L, o, n)
           IN /\ v \in [1..(L + n) -> 1..(L + n)]
              /\ \A i, j \in 1..(L + n) : v[i] = v[j] => i = j
              /\ \A j \in 1..(L + n) : \E i \in 1..(L + n) : v[i] = j
              /\ \A k \in 1..L : Over(v, k) = Over(w, k)
              /\ \A k \in 1..n : Over(v, L + k) \subseteq (L + 1)..(L + k - 1)
  <1> DEFINE v == Extended(w, L, o, n)
  <1>1. \A i \in 1..L : i \in 1..(L + n) /\ v[i] = w[i] /\ v[i] \in 1..L
    BY DEF Extended
  <1>2. \A i \in 1..n : L + i \in 1..(L + n) /\ v[L + i] = L + o[i]
                        /\ o[i] \in 1..n /\ v[L + i] \in (L + 1)..(L + n)
    <2> SUFFICES ASSUME NEW i \in 1..n
                 PROVE  L + i \in 1..(L + n) /\ v[L + i] = L + o[i]
                        /\ o[i] \in 1..n /\ v[L + i] \in (L + 1)..(L + n)
      OBVIOUS
    <2>1. L + i \in 1..(L + n) /\ ~(L + i <= L) /\ (L + i) - L = i
      OBVIOUS
    <2>2. v[L + i] = L + o[i]
      BY <2>1 DEF Extended
    <2>3. o[i] \in 1..n
      OBVIOUS
    <2> QED BY SMTT(60), <2>1, <2>2, <2>3
  <1>3. \A k \in 1..(L + n) : k \in 1..L \/ \E i \in 1..n : k = L + i
    <2> SUFFICES ASSUME NEW k \in 1..(L + n), k \notin 1..L
                 PROVE  \E i \in 1..n : k = L + i
      OBVIOUS
    <2>1. k - L \in 1..n /\ k = L + (k - L)
      OBVIOUS
    <2> QED BY <2>1
  <1>4. DOMAIN v = 1..(L + n) /\ DOMAIN w = 1..L
    BY DEF Extended
  <1>5. v = [i \in 1..(L + n) |-> v[i]]
    BY DEF Extended
  <1> HIDE DEF v
  <1>12. \A x \in 1..L, y \in (L + 1)..(L + n) :
             x # y /\ ~(x > y) /\ x \in 1..(L + n) /\ y \in 1..(L + n)
    OBVIOUS
  <1>6. \A i \in 1..(L + n) : v[i] \in 1..(L + n)
    <2> SUFFICES ASSUME NEW i \in 1..(L + n)
                 PROVE  v[i] \in 1..(L + n)
      OBVIOUS
    <2>1. CASE i \in 1..L
      BY <1>1, <2>1
    <2>2. ASSUME NEW a \in 1..n, i = L + a
          PROVE  v[i] \in 1..(L + n)
      <3>1. v[i] \in (L + 1)..(L + n)
        BY <1>2, <2>2
      <3> QED BY <3>1
    <2> QED BY <1>3, <2>1, <2>2
  <1>7. v \in [1..(L + n) -> 1..(L + n)]
    BY ONLY <1>5, <1>6
  <1>8. \A i, j \in 1..(L + n) : v[i] = v[j] => i = j
    <2> SUFFICES ASSUME NEW i \in 1..(L + n), NEW j \in 1..(L + n), v[i] = v[j]
                 PROVE  i = j
      OBVIOUS
    <2>1. CASE i \in 1..L /\ j \in 1..L
      BY <1>1, <2>1
    <2>2. CASE i \in 1..L /\ j \notin 1..L
      <3>1. PICK b \in 1..n : j = L + b
        BY <1>3, <2>2
      <3>2. v[i] \in 1..L /\ v[j] \in (L + 1)..(L + n)
        BY <1>1, <1>2, <2>2, <3>1
      <3> QED BY <1>12, <3>2
    <2>3. CASE i \notin 1..L /\ j \in 1..L
      <3>1. PICK a \in 1..n : i = L + a
        BY <1>3, <2>3
      <3>2. v[j] \in 1..L /\ v[i] \in (L + 1)..(L + n)
        BY <1>1, <1>2, <2>3, <3>1
      <3> QED BY <1>12, <3>2
    <2>4. CASE i \notin 1..L /\ j \notin 1..L
      <3>1. PICK a \in 1..n, b \in 1..n : i = L + a /\ j = L + b
        BY <1>3, <2>4
      <3>3. v[i] = L + o[a] /\ v[j] = L + o[b] /\ o[a] \in Nat /\ o[b] \in Nat
        <4>1. v[L + a] = L + o[a] /\ v[L + b] = L + o[b] /\ o[a] \in 1..n /\ o[b] \in 1..n
          BY <1>2
        <4>2. o[a] \in Nat /\ o[b] \in Nat
          <5>1. \A x \in 1..n : x \in Nat
            OBVIOUS
          <5> QED BY ONLY <4>1, <5>1
        <4>3. v[i] = L + o[a] /\ v[j] = L + o[b]
          BY ONLY <3>1, <4>1
        <4> QED BY <4>2, <4>3
      <3>2. o[a] = o[b]
        BY ONLY <3>3, L \in Nat, v[i] = v[j]
      <3> QED BY <3>1, <3>2
    <2> QED BY <2>1, <2>2, <2>3, <2>4
  <1>9. \A j \in 1..(L + n) : \E i \in 1..(L + n) : v[i] = j
    <2> SUFFICES ASSUME NEW j \in 1..(L + n)
                 PROVE  \E i \in 1..(L + n) : v[i] = j
      OBVIOUS
    <2>1. CASE j \in 1..L
      BY <1>1, <2>1
    <2>2. ASSUME NEW a \in 1..n, j = L + a
          PROVE  \E i \in 1..(L + n) : v[i] = j
      <3>1. PICK b \in 1..n : o[b] = a
        OBVIOUS
      <3> QED BY <1>2, <2>2, <3>1
    <2> QED BY <1>3, <2>1, <2>2
  <1>10. \A k \in 1..L : Over(v, k) = Over(w, k)
    <2> SUFFICES ASSUME NEW k \in 1..L
                 PROVE  Over(v, k) = Over(w, k)
      OBVIOUS
    <2>1. \A i \in 1..(L + n) : i < k => i \in 1..L
      OBVIOUS
    <2> QED BY <1>1, <1>4, <2>1 DEF Over
  <1>11. \A k \in 1..n : Over(v, L + k) \subseteq (L + 1)..(L + k - 1)
    <2> SUFFICES ASSUME NEW k \in 1..n, NEW i \in Over(v, L + k)
                 PROVE  i \in (L + 1)..(L + k - 1)
      OBVIOUS
    <2>1. i \in 1..(L + n) /\ i < L + k /\ v[i] > v[L + k]
      BY <1>4 DEF Over
    <2>3. v[L + k] \in (L + 1)..(L + n)
      BY <1>2
    <2>2. i \notin 1..L
      BY <1>1, <1>12, <2>1, <2>3
    <2> QED BY <2>1, <2>2
  <1> QED BY <1>7, <1>8, <1>9, <1>10, <1>11 DEF v

LEMMA QueueRequestInv ==
    ASSUME QueueInv, NEW r \in Requests, Queue!QueueRequest(r)
    PROVE  QueueInv'
  <1>1. /\ arrived \in Seq(Requests) /\ requestQueue \in Seq(Requests) /\ batched \in Seq(Requests)
        /\ arrived' = Append(arrived, r) /\ requestQueue' = Append(requestQueue, r)
        /\ batched' = batched /\ r \notin Queue!Range(arrived)
    BY DEF QueueInv, QueueTypes, Queue!QueueRequest
  <1>2. PICK a \in Nat, q \in Nat, b \in Nat :
            a = Len(arrived) /\ q = Len(requestQueue) /\ b = Len(batched)
    BY <1>1, LenProperties
  <1>3. /\ \A i, j \in 1..a : arrived[i] = arrived[j] => i = j
        /\ a = b + q
        /\ \A i \in 1..q : requestQueue[i] = arrived[b + i]
    BY <1>2 DEF QueueInv, QueueIsRest
  <1>4. QueueTypes'
    BY <1>1, AppendProperties DEF QueueTypes
  <1>5. /\ Len(arrived') = a + 1 /\ Len(requestQueue') = q + 1 /\ Len(batched') = b
        /\ \A i \in 1..a : arrived'[i] = arrived[i]
        /\ \A i \in 1..q : requestQueue'[i] = requestQueue[i]
        /\ arrived'[a + 1] = r /\ requestQueue'[q + 1] = r
    BY <1>1, <1>2, AppendProperties
  <1>6. \A i \in 1..a : arrived[i] # r
    <2>1. DOMAIN arrived = 1..a
      BY <1>1, <1>2, LenProperties
    <2> QED BY <1>1, <2>1 DEF Queue!Range
  <1>7. \A i, j \in 1..(a + 1) : arrived'[i] = arrived'[j] => i = j
    <2>1. \A i \in 1..(a + 1) : i \in 1..a \/ i = a + 1
      OBVIOUS
    <2> QED BY ONLY <1>3, <1>5, <1>6, <2>1
  <1>8. \A i \in 1..(q + 1) : requestQueue'[i] = arrived'[b + i]
    <2> SUFFICES ASSUME NEW i \in 1..(q + 1)
                 PROVE  requestQueue'[i] = arrived'[b + i]
      OBVIOUS
    <2>1. CASE i \in 1..q
      <3>1. b + i \in 1..a
        BY <1>3, <2>1
      <3> QED BY <1>3, <1>5, <2>1, <3>1
    <2>2. CASE i = q + 1
      <3>1. b + i = a + 1
        BY <1>3, <2>2
      <3> QED BY <1>5, <2>2, <3>1
    <2> QED BY <2>1, <2>2
  <1>9. QueueIsRest'
    <2>1. a + 1 = b + (q + 1)
      BY <1>3
    <2> QED BY <1>5, <1>7, <1>8, <2>1 DEF QueueIsRest
  <1>10. PICK w : HandedOut(w, b)
    BY <1>2 DEF QueueInv
  <1>11. HandedOut(w, b)'
    <2>1. \A i \in 1..b : w[i] \in 1..b /\ w[i] \in 1..a
      BY <1>3, <1>10 DEF HandedOut
    <2>2. \A i \in 1..b : batched'[i] = arrived'[w[i]]
      BY <1>1, <1>5, <1>10, <2>1 DEF HandedOut
    <2> QED BY <1>1, <1>10, <2>2 DEF HandedOut
  <1> QED BY <1>4, <1>5, <1>9, <1>11 DEF QueueInv

LEMMA NextBatchInv ==
    ASSUME QueueInv, Queue!NextBatch
    PROVE  QueueInv'
  <1>1. /\ arrived \in Seq(Requests) /\ requestQueue \in Seq(Requests) /\ batched \in Seq(Requests)
        /\ requestQueue # <<>> /\ arrived' = arrived
        /\ requestQueue' = SubSeq(requestQueue, Queue!Size + 1, Len(requestQueue))
        /\ batched' = batched \o Queue!Batch
    BY DEF QueueInv, QueueTypes, Queue!NextBatch
  <1>2. PICK a \in Nat, q \in Nat, L \in Nat :
            a = Len(arrived) /\ q = Len(requestQueue) /\ L = Len(batched)
    BY <1>1, LenProperties
  <1>3. /\ \A i, j \in 1..a : arrived[i] = arrived[j] => i = j
        /\ a = L + q
        /\ \A i \in 1..q : requestQueue[i] = arrived[L + i]
    BY <1>2 DEF QueueInv, QueueIsRest
  <1>4. q > 0
    BY <1>1, <1>2, EmptySeq
  <1>5. PICK n \in 1..q : n = Queue!Size /\ n <= BatchSize
    <2>1. BatchSize \in Nat /\ BatchSize > 0
      BY QueueConstants
    <2>2. PICK S : S = {BatchSize, q}
      OBVIOUS
    <2>3. \E x \in S : \A y \in S : x <= y
      BY <2>1, <2>2
    <2>4. Queue!Size = CHOOSE x \in S : \A y \in S : x <= y
      BY <1>2, <2>2 DEF Queue!Size, Queue!Min
    <2>5. Queue!Size \in S /\ \A y \in S : Queue!Size <= y
      BY <2>3, <2>4
    <2> QED BY <1>4, <2>1, <2>2, <2>5
  <1>6. PICK s : s = SubSeq(requestQueue, 1, n)
    OBVIOUS
  <1>7. s \in Seq(Requests) /\ Len(s) = n /\ \A i \in 1..n : s[i] = arrived[L + i]
    <2>1. s \in Seq(Requests) /\ Len(s) = n /\ \A i \in 1..n : s[i] = requestQueue[i]
      BY <1>1, <1>2, <1>6, SubSeqProperties
    <2>2. \A i \in 1..n : i \in 1..q
      OBVIOUS
    <2> QED BY <1>3, <2>1, <2>2
  <1>8. PICK b : b = Queue!Batch
    OBVIOUS
  <1>9. b = Queue!ByPriority(s)
    BY <1>5, <1>6, <1>8 DEF Queue!Batch
  <1>10. b \in Seq(Requests) /\ Len(b) = n
    BY <1>7, <1>9, ByPrioritySorts
  <1>11. PICK o : Sorted(o, s) /\ \A k \in 1..n : b[k] = s[o[k]]
    BY <1>7, <1>9, ByPrioritySorts
  <1>12. PICK N \in Nat : N = L + n
    OBVIOUS
  <1>13. /\ batched' \in Seq(Requests) /\ Len(batched') = N
         /\ \A i \in 1..L : batched'[i] = batched[i]
         /\ \A i \in 1..n : batched'[L + i] = b[i]
    <2>1. batched' = batched \o b
      BY <1>1, <1>8
    <2>2. /\ batched' \in Seq(Requests) /\ Len(batched') = L + n
          /\ \A i \in 1..(L + n) : batched'[i] = IF i <= L THEN batched[i] ELSE b[i - L]
      <3>1. batched \in Seq(Requests) /\ Len(batched) = L
        BY <1>1, <1>2
      <3> QED BY ONLY <1>10, <2>1, <3>1, ConcatProperties
    <2>3. \A i \in 1..L : i \in 1..(L + n) /\ i <= L
      OBVIOUS
    <2>4. \A i \in 1..n : L + i \in 1..(L + n) /\ ~(L + i <= L) /\ (L + i) - L = i
      OBVIOUS
    <2>5. \A i \in 1..n : batched'[L + i] = b[i]
      BY ONLY <2>2, <2>4
    <2> QED BY <1>12, <2>2, <2>3, <2>5
  <1>14. /\ requestQueue' \in Seq(Requests) /\ Len(requestQueue') = q - n
         /\ \A i \in 1..(q - n) : requestQueue'[i] = requestQueue[n + i]
    <2>1. n + 1 \in 1..(q + 1) /\ n + 1 \in Int /\ q \in Int
      OBVIOUS
    <2>2. requestQueue' = SubSeq(requestQueue, n + 1, q)
      BY <1>1, <1>2, <1>5
    <2>3. requestQueue' \in Seq(Requests)
          /\ Len(requestQueue') = (IF n + 1 <= q THEN q - (n + 1) + 1 ELSE 0)
          /\ \A i \in 1..(q - (n + 1) + 1) : requestQueue'[i] = requestQueue[(n + 1) + i - 1]
      <3>1. \A i \in (n + 1)..q : requestQueue[i] \in Requests
        <4>1. \A i \in (n + 1)..q : i \in 1..q
          OBVIOUS
        <4> QED BY <1>1, <1>2, <4>1, ElementOfSeq
      <3> QED BY ONLY <2>1, <2>2, <3>1, SubSeqProperties
    <2>4. q - (n + 1) + 1 = q - n /\ (n + 1 > q => q - n = 0)
          /\ \A i \in 1..(q - n) : (n + 1) + i - 1 = n + i
      OBVIOUS
    <2> QED BY ONLY <2>3, <2>4, n \in 1..q, q \in Nat
  <1>15. QueueTypes'
    BY <1>1, <1>13, <1>14 DEF QueueTypes
  <1>16. QueueIsRest'
    <2>1. a = N + (q - n)
      BY <1>3, <1>12
    <2>2. ASSUME NEW i \in 1..(q - n)
          PROVE  requestQueue'[i] = arrived[N + i]
      <3>1. n + i \in 1..q /\ L + (n + i) = N + i
        BY <1>12
      <3> QED BY <1>3, <1>14, <3>1
    <2> QED BY <1>1, <1>2, <1>3, <1>13, <1>14, <2>1, <2>2 DEF QueueIsRest
  <1>17. PICK w : HandedOut(w, L)
    BY <1>2 DEF QueueInv
  <1>18. PICK v : v = Extended(w, L, o, n)
    OBVIOUS
  <1>19. /\ v \in [1..N -> 1..N]
         /\ \A i, j \in 1..N : v[i] = v[j] => i = j
         /\ \A j \in 1..N : \E i \in 1..N : v[i] = j
         /\ \A k \in 1..L : Over(v, k) = Over(w, k)
         /\ \A k \in 1..n : Over(v, L + k) \subseteq (L + 1)..(L + k - 1)
    <2>1. /\ w \in [1..L -> 1..L]
          /\ \A i, j \in 1..L : w[i] = w[j] => i = j
          /\ \A j \in 1..L : \E i \in 1..L : w[i] = j
      BY <1>17 DEF HandedOut
    <2>2. /\ o \in [1..n -> 1..n]
          /\ \A i, j \in 1..n : o[i] = o[j] => i = j
          /\ \A i \in 1..n : \E k \in 1..n : o[k] = i
      BY <1>7, <1>11 DEF Sorted
    <2>3. L \in Nat /\ n \in Nat
      OBVIOUS
    <2>4. v = Extended(w, L, o, n) /\ N = L + n
      BY <1>12, <1>18
    <2>5. LET u == Extended(w, L, o, n)
          IN /\ u \in [1..(L + n) -> 1..(L + n)]
             /\ \A i, j \in 1..(L + n) : u[i] = u[j] => i = j
             /\ \A j \in 1..(L + n) : \E i \in 1..(L + n) : u[i] = j
             /\ \A k \in 1..L : Over(u, k) = Over(w, k)
             /\ \A k \in 1..n : Over(u, L + k) \subseteq (L + 1)..(L + k - 1)
      BY ONLY <2>1, <2>2, <2>3, ExtendedPlaces
    <2> QED BY ONLY <2>4, <2>5
  <1>20. /\ \A i \in 1..L : v[i] = w[i]
         /\ \A i \in 1..n : v[L + i] = L + o[i] /\ o[i] \in 1..n
    <2>1. \A i \in 1..L : v[i] = w[i]
      BY <1>18 DEF Extended
    <2>2. \A i \in 1..n : L + i \in 1..(L + n) /\ ~(L + i <= L) /\ (L + i) - L = i
      OBVIOUS
    <2>3. \A i \in 1..n : v[L + i] = L + o[i]
      BY ONLY <1>18, <2>2 DEF Extended
    <2> QED BY <1>7, <1>11, <2>1, <2>3 DEF Sorted
  <1>21. \A k \in 1..N : k \in 1..L \/ \E i \in 1..n : k = L + i
    <2> SUFFICES ASSUME NEW k \in 1..N, k \notin 1..L
                 PROVE  \E i \in 1..n : k = L + i
      OBVIOUS
    <2>1. k - L \in 1..n /\ k = L + (k - L)
      BY <1>12
    <2> QED BY <2>1
  <1>22. \A k \in 1..N : batched'[k] = arrived[v[k]]
    <2>1. ASSUME NEW k \in 1..L
          PROVE  batched'[k] = arrived[v[k]]
      BY <1>13, <1>17, <1>20 DEF HandedOut
    <2>2. ASSUME NEW i \in 1..n
          PROVE  batched'[L + i] = arrived[v[L + i]]
      BY <1>7, <1>11, <1>13, <1>20
    <2> QED BY <1>21, <2>1, <2>2
  <1>23. ASSUME NEW k \in 1..N
         PROVE  /\ IsFiniteSet(Over(v, k)) /\ Cardinality(Over(v, k)) < BatchSize
                /\ \A i \in Over(v, k) : Priority[batched'[i]] > Priority[batched'[k]]
    <2>1. CASE k \in 1..L
      <3>1. /\ IsFiniteSet(Over(w, k)) /\ Cardinality(Over(w, k)) < BatchSize
            /\ \A i \in Over(w, k) : Priority[batched[i]] > Priority[batched[k]]
        BY <1>17, <2>1 DEF HandedOut
      <3>2. \A i \in Over(w, k) : i \in 1..L
        BY <1>17 DEF Over, HandedOut
      <3> QED BY <1>13, <1>19, <2>1, <3>1, <3>2
    <2>2. ASSUME NEW m \in 1..n, k = L + m
          PROVE  /\ IsFiniteSet(Over(v, k)) /\ Cardinality(Over(v, k)) < BatchSize
                 /\ \A i \in Over(v, k) : Priority[batched'[i]] > Priority[batched'[k]]
      <3>1. Over(v, k) \subseteq (L + 1)..(L + m - 1)
        BY <1>19, <2>2
      <3>2. IsFiniteSet((L + 1)..(L + m - 1)) /\ Cardinality((L + 1)..(L + m - 1)) = m - 1
        <4>1. L + 1 \in Int /\ L + m - 1 \in Int
          OBVIOUS
        <4>2. (IF L + 1 > L + m - 1 THEN 0 ELSE (L + m - 1) - (L + 1) + 1) = m - 1
          OBVIOUS
        <4> QED BY <4>1, <4>2, FS_Interval
      <3>3. IsFiniteSet(Over(v, k)) /\ Cardinality(Over(v, k)) <= m - 1
            /\ Cardinality(Over(v, k)) \in Nat
        BY <3>1, <3>2, FS_Subset, FS_CardinalityType
      <3>4. Cardinality(Over(v, k)) < BatchSize
        BY <1>5, <3>3, QueueConstants
      <3>5. ASSUME NEW i \in Over(v, k)
            PROVE  Priority[batched'[i]] > Priority[batched'[k]]
        <4>1. PICK j \in 1..n : i = L + j /\ j < m
          <5>1. i \in (L + 1)..(L + m - 1)
            BY <3>1
          <5>2. i - L \in 1..n /\ i = L + (i - L) /\ i - L < m
            BY <5>1
          <5> QED BY <5>2
        <4>2. v[i] > v[k]
          BY DEF Over
        <4>3. v[i] = L + o[j] /\ v[k] = L + o[m] /\ o[j] \in 1..n /\ o[m] \in 1..n
          BY ONLY <1>20, <2>2, <4>1
        <4>4. ~(o[j] < o[m])
          BY ONLY <4>2, <4>3, L \in Nat, n \in Nat
        <4>5. Priority[s[o[j]]] > Priority[s[o[m]]]
          BY <1>7, <1>11, <4>1, <4>4 DEF Sorted
        <4>6. batched'[i] = s[o[j]] /\ batched'[k] = s[o[m]]
          BY ONLY <1>11, <1>13, <2>2, <4>1
        <4> QED BY <4>5, <4>6
      <3> QED BY <3>3, <3>4, <3>5
    <2> QED BY <1>21, <2>1, <2>2
  <1>24. HandedOut(v, N)'
    BY <1>1, <1>19, <1>22, <1>23 DEF HandedOut
  <1> QED BY <1>13, <1>15, <1>16, <1>24 DEF QueueInv

\* The queue always holds what QueueInv says: it is what BoundedOvertaking
\* needs, and more, for it remembers where each request handed out arrived.
THEOREM QueueInvariant == Spec => []QueueInv
  <1>1. Init => QueueInv
    <2> SUFFICES ASSUME Init
                 PROVE  QueueInv
      OBVIOUS
    <2>1. arrived = <<>> /\ requestQueue = <<>> /\ batched = <<>>
      BY DEF Init, Queue!Init
    <2>2. <<>> \in Seq(Requests) /\ Len(<<>>) = 0
      BY EmptySeq
    <2>3. \A i \in 1..0 : FALSE
      OBVIOUS
    <2>4. QueueTypes /\ QueueIsRest
      BY <2>1, <2>2, <2>3 DEF QueueTypes, QueueIsRest
    <2>5. PICK w : w = [i \in 1..0 |-> i]
      OBVIOUS
    <2>6. HandedOut(w, 0)
      BY <2>3, <2>5 DEF HandedOut
    <2> QED BY <2>1, <2>2, <2>4, <2>6 DEF QueueInv
  <1>2. QueueInv /\ [Next]_vars => QueueInv'
    <2> SUFFICES ASSUME QueueInv, [Next]_vars
                 PROVE  QueueInv'
      OBVIOUS
    <2>1. CASE QueueStep
      BY <2>1, QueueRequestInv, NextBatchInv DEF QueueStep, Queue!Next
    <2>2. CASE UNCHANGED queueVars
      <3>1. arrived' = arrived /\ requestQueue' = requestQueue /\ batched' = batched
        BY <2>2 DEF queueVars
      <3>2. PICK n, w : n = Len(batched) /\ HandedOut(w, n)
        BY DEF QueueInv
      <3>3. HandedOut(w, n)' /\ n = Len(batched')
        BY <3>1, <3>2 DEF HandedOut
      <3>4. QueueTypes' /\ QueueIsRest'
        BY <3>1 DEF QueueInv, QueueTypes, QueueIsRest
      <3> QED BY <3>3, <3>4 DEF QueueInv
    <2> QED
      BY <2>1, <2>2 DEF Next, vars, HybridStep, EngineStep, TrackerStep, MonitorStep,
                        BoardStep, HTTPStep, AdviceStep, EdgeStep
  <1> QED BY <1>1, <1>2, PTL DEF Spec

LEMMA QueueRange ==
    ASSUME NEW s \in Seq(Requests), NEW n \in Nat, n = Len(s)
    PROVE  \A r : r \in Queue!Range(s) <=> \E i \in 1..n : r = s[i]
  <1>1. DOMAIN s = 1..n
    BY LenProperties
  <1> QED BY <1>1 DEF Queue!Range

LEMMA OvertakingBounded ==
    ASSUME QueueInv
    PROVE  BoundedOvertaking
  <1>1. arrived \in Seq(Requests) /\ requestQueue \in Seq(Requests) /\ batched \in Seq(Requests)
    BY DEF QueueInv, QueueTypes
  <1>2. PICK a \in Nat, q \in Nat, n \in Nat :
            a = Len(arrived) /\ q = Len(requestQueue) /\ n = Len(batched)
    BY <1>1, LenProperties
  <1>3. /\ \A i, j \in 1..a : arrived[i] = arrived[j] => i = j
        /\ a = n + q
        /\ \A i \in 1..q : requestQueue[i] = arrived[n + i]
    BY <1>2 DEF QueueInv, QueueIsRest
  <1>4. DOMAIN batched = 1..n /\ DOMAIN arrived = 1..a
    BY <1>1, <1>2, LenProperties
  <1>5. PICK w : HandedOut(w, n)
    BY <1>2 DEF QueueInv
  <1>6. /\ \A i \in 1..n : w[i] \in 1..n /\ w[i] \in 1..a /\ batched[i] = arrived[w[i]]
        /\ DOMAIN w = 1..n
        /\ \A i, j \in 1..n : w[i] = w[j] => i = j
        /\ \A j \in 1..n : \E i \in 1..n : w[i] = j
    <2>1. \A j \in 1..n : j \in 1..a
      BY <1>3
    <2> QED BY <1>5, <2>1 DEF HandedOut
  <1>7. \A i, j \in 1..n : batched[i] = batched[j] => i = j
    <2> SUFFICES ASSUME NEW i \in 1..n, NEW j \in 1..n, batched[i] = batched[j]
                 PROVE  i = j
      OBVIOUS
    <2>1. w[i] \in 1..a /\ w[j] \in 1..a /\ arrived[w[i]] = arrived[w[j]]
      BY <1>6
    <2>2. w[i] = w[j]
      BY <1>3, <2>1
    <2> QED BY <1>6, <2>2
  <1>8. Queue!IsInjective(batched)
    BY <1>4, <1>7 DEF Queue!IsInjective
  <1>9. PICK t : t = SubSeq(arrived, 1, n)
    OBVIOUS
  <1>10. t \in Seq(Requests) /\ Len(t) = n /\ \A i \in 1..n : t[i] = arrived[i]
    <2>1. \A i \in 1..n : arrived[i] \in Requests
      <3>1. \A i \in 1..n : i \in 1..a
        BY <1>3
      <3> QED BY <1>1, <1>2, <3>1, ElementOfSeq
    <2>2. 1 \in Int /\ n \in Int /\ (IF 1 <= n THEN n - 1 + 1 ELSE 0) = n
          /\ 1..(n - 1 + 1) = 1..n /\ \A i \in 1..n : 1 + i - 1 = i
      OBVIOUS
    <2>3. /\ t \in Seq(Requests) /\ Len(t) = (IF 1 <= n THEN n - 1 + 1 ELSE 0)
          /\ \A i \in 1..(n - 1 + 1) : t[i] = arrived[1 + i - 1]
      BY ONLY <1>9, <2>1, <2>2, SubSeqProperties
    <2> QED BY ONLY <2>2, <2>3
  <1>11. arrived = t \o requestQueue
    <2>1. PICK u : u = t \o requestQueue
      OBVIOUS
    <2>2. /\ u \in Seq(Requests) /\ Len(u) = n + q
          /\ \A i \in 1..(n + q) : u[i] = IF i <= n THEN t[i] ELSE requestQueue[i - n]
      <3>1. /\ t \in Seq(Requests) /\ Len(t) = n
            /\ requestQueue \in Seq(Requests) /\ Len(requestQueue) = q
        BY <1>1, <1>2, <1>10
      <3> QED BY ONLY <2>1, <3>1, ConcatProperties
    <2>3. ASSUME NEW i \in 1..(n + q)
          PROVE  arrived[i] = u[i]
      <3>1. CASE i <= n
        <4>1. i \in 1..n
          BY <3>1
        <4> QED BY <1>10, <2>2, <3>1, <4>1
      <3>2. CASE ~(i <= n)
        <4>1. i - n \in 1..q /\ n + (i - n) = i
          BY <3>2
        <4> QED BY <1>3, <2>2, <3>2, <4>1
      <3> QED BY <3>1, <3>2
    <2>4. Len(arrived) = Len(u)
      BY <1>2, <1>3, <2>2
    <2>5. \A i \in 1..Len(arrived) : arrived[i] = u[i]
      BY <1>2, <1>3, <2>3
    <2> QED BY ONLY <1>1, <2>1, <2>2, <2>4, <2>5, SeqEqual
  <1>12. \A r : r \in Queue!Range(batched) <=> \E i \in 1..n : r = batched[i]
    BY <1>1, <1>2, QueueRange
  <1>13. Queue!Range(batched) = Queue!Range(t)
    <2>1. \A r : r \in Queue!Range(t) <=> \E i \in 1..n : r = t[i]
      BY <1>10, QueueRange
    <2>2. \A r : (\E i \in 1..n : r = batched[i]) <=> (\E i \in 1..n : r = t[i])
      <3>1. ASSUME NEW i \in 1..n
            PROVE  /\ \E j \in 1..n : batched[i] = t[j]
                   /\ \E j \in 1..n : t[i] = batched[j]
        <4>1. w[i] \in 1..n /\ batched[i] = arrived[w[i]] /\ arrived[w[i]] = t[w[i]]
          BY <1>6, <1>10
        <4>2. PICK j \in 1..n : w[j] = i
          BY <1>6
        <4>3. batched[j] = arrived[i] /\ t[i] = arrived[i]
          BY <1>6, <1>10, <4>2
        <4> QED BY <4>1, <4>3
      <3> QED BY <3>1
    <2> QED BY ONLY <1>12, <2>1, <2>2
  <1>14. \A i \in 1..n : /\ Queue!Place(batched[i], batched) = i
                         /\ Queue!Place(batched[i], arrived) = w[i]
    <2> SUFFICES ASSUME NEW i \in 1..n
                 PROVE  /\ Queue!Place(batched[i], batched) = i
                        /\ Queue!Place(batched[i], arrived) = w[i]
      OBVIOUS
    <2>1. \A j \in DOMAIN batched : batched[j] = batched[i] <=> j = i
      BY <1>4, <1>7
    <2>2. \A j \in DOMAIN arrived : arrived[j] = batched[i] <=> j = w[i]
      BY SMTT(60), <1>3, <1>4, <1>6
    <2>3. i \in DOMAIN batched /\ w[i] \in DOMAIN arrived
      BY <1>4, <1>6
    <2> QED BY ONLY <2>1, <2>2, <2>3 DEF Queue!Place
  <1>15. ASSUME NEW r \in Queue!Range(batched)
         PROVE  LET overtaking == {s \in Queue!Range(batched) :
                        /\ Queue!Place(s, batched) < Queue!Place(r, batched)
                        /\ Queue!Place(s, arrived) > Queue!Place(r, arrived)}
                IN /\ Queue!Cardinality(overtaking) < BatchSize
                   /\ \A s \in overtaking : Priority[s] > Priority[r]
    <2> DEFINE O == {s \in Queue!Range(batched) :
                        /\ Queue!Place(s, batched) < Queue!Place(r, batched)
                        /\ Queue!Place(s, arrived) > Queue!Place(r, arrived)}
    <2>1. PICK k \in 1..n : r = batched[k]
      BY <1>12
    <2>2. /\ IsFiniteSet(Over(w, k)) /\ Cardinality(Over(w, k)) < BatchSize
          /\ \A i \in Over(w, k) : Priority[batched[i]] > Priority[batched[k]]
      BY <1>5 DEF HandedOut
    <2>3. ASSUME NEW s \in O
          PROVE  /\ Queue!Place(s, batched) \in Over(w, k)
                 /\ s = batched[Queue!Place(s, batched)]
      <3>1. PICK i \in 1..n : s = batched[i]
        BY <1>12
      <3>2. Queue!Place(s, batched) = i /\ i < k /\ w[i] > w[k]
        BY <1>14, <2>1, <3>1
      <3> QED BY <1>6, <3>1, <3>2 DEF Over
    <2> HIDE DEF O
    <2>4. Cardinality(O) <= Cardinality(Over(w, k)) /\ IsFiniteSet(O)
      <3>1. PICK f : f = [s \in O |-> Queue!Place(s, batched)]
        OBVIOUS
      <3>2. f \in Injection(O, Over(w, k))
        BY <2>3, <3>1 DEF Injection, IsInjective
      <3> QED BY <2>2, <3>2, FS_Injection
    <2>5. Cardinality(O) < BatchSize
      <3>1. Cardinality(O) \in Nat /\ Cardinality(Over(w, k)) \in Nat /\ BatchSize \in Nat
        BY <2>2, <2>4, FS_CardinalityType, QueueConstants
      <3> QED BY ONLY <2>2, <2>4, <3>1
    <2>6. \A s \in O : Priority[s] > Priority[r]
      BY <2>1, <2>2, <2>3
    <2>7. Queue!Cardinality(O) < BatchSize
      BY <2>5, QueueCounts
    <2> QED BY <2>6, <2>7 DEF O
  <1>16. SubSeq(arrived, 1, Len(batched)) = t
    BY <1>2, <1>9
  <1> QED BY ONLY <1>8, <1>11, <1>13, <1>15, <1>16 DEF BoundedOvertaking, Queue!BoundedOvertaking

\* BoundedOvertaking: of all requests handed out, however batches and arrivals
\* interleave, one is overtaken by fewer later ones than a batch holds, all of
\* higher priority, and none is lost, repeated or handed out before its turn.
THEOREM OvertakingIsBounded == Spec => []BoundedOvertaking
  BY QueueInvariant, OvertakingBounded, PTL

------------------------------------------------------------------------------
(* Dashboard: what was cut off the latencies stays in the books of the      *)
(* models, so what is left never exceeds them.                              *)

BoardTypes ==
    /\ latencies \in Seq(Nat)
    /\ errors = occurred /\ occurred \in Nat
    /\ IsFiniteSet(DOMAIN perModel)
    /\ \A m \in DOMAIN perModel :
          /\ perModel[m].requests \in Nat /\ perModel[m].total \in Nat
          /\ perModel[m].least \in Nat /\ perModel[m].greatest \in Nat

ModelCounts == [m \in DOMAIN perModel |-> perModel[m].requests]
ModelTotals == [m \in DOMAIN perModel |-> perModel[m].total]

BooksCover ==
    /\ Len(latencies) <= SumOf(ModelCounts, DOMAIN perModel)
    /\ SumOf(latencies, 1..Len(latencies)) <= SumOf(ModelTotals, DOMAIN perModel)
    /\ \A i \in 1..Len(latencies) : \E m \in DOMAIN perModel :
          perModel[m].least <= latencies[i] /\ latencies[i] <= perModel[m].greatest

BoardInv == BoardTypes /\ BooksCover

LEMMA BoardConstants ==
    /\ Latencies \subseteq Nat
    /\ Cap \in Nat /\ Left \in Nat /\ 0 < Left /\ Left <= Cap
    /\ ErrorLimit \in Nat /\ PercentLimit \in Nat /\ Percent \in 0..99
  BY HelpersAssumption DEF Board!DashboardAssumption

LEMMA BoardExtremes ==
    ASSUME NEW x \in Nat, NEW y \in Nat
    PROVE  /\ Board!Min({x, y}) \in Nat /\ Board!Min({x, y}) <= x /\ Board!Min({x, y}) <= y
           /\ Board!Max({x, y}) \in Nat /\ Board!Max({x, y}) >= x /\ Board!Max({x, y}) >= y
  <1>1. PICK S : S = {x, y}
    OBVIOUS
  <1>2. (\E z \in S : \A u \in S : z <= u) /\ (\E z \in S : \A u \in S : z >= u)
    BY <1>1
  <1>3. /\ Board!Min(S) \in S /\ \A u \in S : Board!Min(S) <= u
        /\ Board!Max(S) \in S /\ \A u \in S : Board!Max(S) >= u
    BY <1>2 DEF Board!Min, Board!Max
  <1> QED BY <1>1, <1>3

LEMMA RecordRequestInv ==
    ASSUME BoardInv, NEW m \in ModelIds, NEW x \in Latencies, Board!RecordRequest(m, x)
    PROVE  BoardInv'
  <1> DEFINE D == DOMAIN perModel
  <1>0. PICK n \in Nat : n = Len(latencies)
    BY LenProperties DEF BoardInv, BoardTypes
  <1>1. PICK E, p, q : n = Len(latencies) /\ E = D /\ p = perModel /\ q = perModel'
    BY <1>0
  <1>2. /\ latencies \in Seq(Nat) /\ errors = occurred /\ occurred \in Nat
        /\ IsFiniteSet(E) /\ E = DOMAIN p
        /\ \A k \in E : /\ p[k].requests \in Nat /\ p[k].total \in Nat
                        /\ p[k].least \in Nat /\ p[k].greatest \in Nat
    BY <1>1 DEF BoardInv, BoardTypes
  <1>3. x \in Nat
    BY BoardConstants
  <1>4. /\ latencies' = Append(latencies, x)
        /\ errors' = errors /\ occurred' = occurred
        /\ q = [k \in E \cup {m} |->
                  IF k # m THEN p[k]
                  ELSE [requests |-> Board!Count(m) + 1,
                        total    |-> Board!Sum(m) + x,
                        least    |-> IF m \in E THEN Board!Min({p[m].least, x}) ELSE x,
                        greatest |-> IF m \in E THEN Board!Max({p[m].greatest, x}) ELSE x]]
    BY <1>1 DEF Board!RecordRequest
  <1>5. /\ DOMAIN q = E \cup {m}
        /\ \A k \in E : k # m => q[k] = p[k]
        /\ q[m].requests = Board!Count(m) + 1
        /\ q[m].total = Board!Sum(m) + x
        /\ q[m].least = IF m \in E THEN Board!Min({p[m].least, x}) ELSE x
        /\ q[m].greatest = IF m \in E THEN Board!Max({p[m].greatest, x}) ELSE x
    BY <1>4
  <1>6. /\ Board!Count(m) = (IF m \in E THEN p[m].requests ELSE 0)
        /\ Board!Sum(m) = (IF m \in E THEN p[m].total ELSE 0)
    BY <1>1 DEF Board!Count, Board!Sum
  <1>7. /\ q[m].requests \in Nat /\ q[m].total \in Nat
        /\ q[m].least \in Nat /\ q[m].least <= x
        /\ q[m].greatest \in Nat /\ x <= q[m].greatest
        /\ m \in E => q[m].least <= p[m].least /\ p[m].greatest <= q[m].greatest
    <2>1. CASE m \in E
      <3>1. /\ p[m].requests \in Nat /\ p[m].total \in Nat
            /\ p[m].least \in Nat /\ p[m].greatest \in Nat
        BY <1>2, <2>1
      <3>2. q[m].requests = p[m].requests + 1 /\ q[m].total = p[m].total + x
            /\ q[m].least = Board!Min({p[m].least, x})
            /\ q[m].greatest = Board!Max({p[m].greatest, x})
        BY <1>5, <1>6, <2>1
      <3>3. q[m].requests \in Nat /\ q[m].total \in Nat
        BY <1>3, <3>1, <3>2
      <3>4. /\ q[m].least \in Nat /\ q[m].least <= x /\ q[m].least <= p[m].least
            /\ q[m].greatest \in Nat /\ q[m].greatest >= x /\ q[m].greatest >= p[m].greatest
        BY ONLY <1>3, <3>1, <3>2, BoardExtremes
      <3>5. x <= q[m].greatest /\ p[m].greatest <= q[m].greatest
        BY ONLY <1>3, <3>1, <3>4
      <3> QED BY <3>3, <3>4, <3>5
    <2>2. CASE m \notin E
      <3>1. q[m].requests = 0 + 1 /\ q[m].total = 0 + x /\ q[m].least = x /\ q[m].greatest = x
        BY <1>5, <1>6, <2>2
      <3> QED BY <1>3, <2>2, <3>1
    <2> QED BY <2>1, <2>2
  <1>8. /\ latencies' \in Seq(Nat) /\ Len(latencies') = n + 1
        /\ \A i \in 1..n : latencies'[i] = latencies[i]
        /\ latencies'[n + 1] = x
    BY <1>1, <1>2, <1>3, <1>4, AppendProperties
  <1>9. BoardTypes'
    <2>1. IsFiniteSet(DOMAIN perModel')
      BY <1>1, <1>2, <1>5, FS_AddElement
    <2>2. \A k \in DOMAIN perModel' :
             /\ perModel'[k].requests \in Nat /\ perModel'[k].total \in Nat
             /\ perModel'[k].least \in Nat /\ perModel'[k].greatest \in Nat
      BY <1>1, <1>2, <1>5, <1>7
    <2> QED BY <1>2, <1>4, <1>8, <2>1, <2>2 DEF BoardTypes
  <1>10. PICK c, t, d, u : /\ c = ModelCounts /\ t = ModelTotals
                           /\ d = [k \in E \cup {m} |-> q[k].requests]
                           /\ u = [k \in E \cup {m} |-> q[k].total]
    OBVIOUS
  <1>11. d = ModelCounts' /\ u = ModelTotals'
    BY <1>1, <1>5, <1>10 DEF ModelCounts, ModelTotals
  <1>12. /\ \A k \in E : c[k] = p[k].requests /\ t[k] = p[k].total
         /\ \A k \in E \cup {m} : d[k] = q[k].requests /\ u[k] = q[k].total
    BY <1>1, <1>10 DEF ModelCounts, ModelTotals
  <1>13. SumOf(d, E \cup {m}) = SumOf(c, E) + 1
    <2>1. (\A k \in E : c[k] \in Nat) /\ (\A k \in E \ {m} : d[k] = c[k])
          /\ (m \in E => d[m] = c[m] + 1) /\ (m \notin E => d[m] = 1) /\ 1 \in Nat
      BY <1>2, <1>5, <1>6, <1>12
    <2>2. IsFiniteSet(E)
      BY <1>2
    <2> QED BY ONLY <2>1, <2>2, SumGrows
  <1>14. SumOf(u, E \cup {m}) = SumOf(t, E) + x
    <2>1. (\A k \in E : t[k] \in Nat) /\ (\A k \in E \ {m} : u[k] = t[k])
          /\ (m \in E => u[m] = t[m] + x) /\ (m \notin E => u[m] = x)
      <3>1. q[m].total = Board!Sum(m) + x /\ u[m] = q[m].total
        BY <1>5, <1>12
      <3>2. (m \in E => q[m].total = p[m].total + x /\ t[m] = p[m].total)
            /\ (m \notin E => q[m].total = 0 + x)
        BY <1>6, <1>12, <3>1
      <3>3. m \notin E => u[m] = x
        BY <1>3, <3>1, <3>2
      <3>4. (\A k \in E : t[k] \in Nat) /\ (\A k \in E \ {m} : u[k] = t[k])
        BY <1>2, <1>5, <1>12
      <3> QED BY <3>1, <3>2, <3>3, <3>4
    <2>2. IsFiniteSet(E)
      BY <1>2
    <2> QED BY ONLY <1>3, <2>1, <2>2, SumGrows
  <1>15. PICK f, g, N : f = latencies /\ g = latencies' /\ N = 1..n
    OBVIOUS
  <1>16. SumOf(g, N \cup {n + 1}) = SumOf(f, N) + x /\ N \cup {n + 1} = 1..(n + 1)
    <2>1. N \cup {n + 1} = 1..(n + 1) /\ n + 1 \notin N
      BY <1>15
    <2>2. IsFiniteSet(N)
      BY <1>15, UpToFinite
    <2>3. (\A i \in N : f[i] \in Nat /\ g[i] = f[i]) /\ g[n + 1] = x
      BY <1>1, <1>2, <1>8, <1>15, ElementOfSeq
    <2>4. PICK z : z = n + 1
      OBVIOUS
    <2>5. z \notin N /\ g[z] = x /\ g[z] \in Nat
      BY <1>3, <2>1, <2>3, <2>4
    <2>6. SumOf(g, N \cup {z}) = SumOf(f, N) + g[z]
      BY ONLY <2>2, <2>3, <2>5, SumAdd
    <2> QED BY <2>1, <2>4, <2>5, <2>6
  <1>17. /\ n <= SumOf(c, E) /\ SumOf(f, N) <= SumOf(t, E)
         /\ \A i \in 1..n : \E k \in E : p[k].least <= f[i] /\ f[i] <= p[k].greatest
    BY <1>1, <1>10, <1>15 DEF BoardInv, BooksCover
  <1>18. SumOf(c, E) \in Nat /\ SumOf(t, E) \in Nat /\ SumOf(f, N) \in Nat
    <2>1. \A k \in E : c[k] \in Nat /\ t[k] \in Nat
      BY <1>2, <1>12
    <2>2. IsFiniteSet(N) /\ \A i \in N : f[i] \in Nat
      BY <1>1, <1>2, <1>15, UpToFinite, ElementOfSeq
    <2> QED BY ONLY <1>2, <2>1, <2>2, SumNat
  <1>19. n + 1 <= SumOf(d, E \cup {m}) /\ SumOf(g, 1..(n + 1)) <= SumOf(u, E \cup {m})
    <2>1. n \in Nat /\ SumOf(g, 1..(n + 1)) = SumOf(f, N) + x
      BY <1>16
    <2> QED BY ONLY <1>3, <1>13, <1>14, <1>17, <1>18, <2>1
  <1>20. ASSUME NEW i \in 1..(n + 1)
         PROVE  \E k \in E \cup {m} : q[k].least <= g[i] /\ g[i] <= q[k].greatest
    <2>1. CASE i = n + 1
      BY <1>7, <1>8, <1>15, <2>1
    <2>2. CASE i \in 1..n
      <3>1. PICK k \in E : p[k].least <= f[i] /\ f[i] <= p[k].greatest
        BY <1>17, <2>2
      <3>2. f[i] \in Nat /\ g[i] = f[i]
        BY <1>1, <1>2, <1>8, <1>15, <2>2, ElementOfSeq
      <3>3. q[k].least <= g[i] /\ g[i] <= q[k].greatest
        <4>1. CASE k = m
          BY <1>2, <1>7, <3>1, <3>2, <4>1
        <4>2. CASE k # m
          BY <1>5, <3>1, <3>2, <4>2
        <4> QED BY <4>1, <4>2
      <3> QED BY <3>3
    <2> QED BY <2>1, <2>2
  <1>21. BooksCover'
    <2>1. Len(latencies') <= SumOf(ModelCounts', DOMAIN perModel')
      BY <1>1, <1>5, <1>8, <1>11, <1>19
    <2>2. SumOf(latencies', 1..Len(latencies')) <= SumOf(ModelTotals', DOMAIN perModel')
      BY <1>1, <1>5, <1>8, <1>11, <1>15, <1>19
    <2>3. \A i \in 1..Len(latencies') : \E k \in DOMAIN perModel' :
             perModel'[k].least <= latencies'[i] /\ latencies'[i] <= perModel'[k].greatest
      BY <1>1, <1>5, <1>8, <1>15, <1>20
    <2> QED BY <2>1, <2>2, <2>3 DEF BooksCover
  <1> QED BY <1>9, <1>21 DEF BoardInv

LEMMA ClearOldDataInv ==
    ASSUME BoardInv, Board!ClearOldData
    PROVE  BoardInv'
  <1>0. PICK n \in Nat, l \in Nat : n = Len(latencies) /\ l = Left
    BY BoardConstants, LenProperties DEF BoardInv, BoardTypes
  <1>1. PICK f, g : /\ n = Len(latencies) /\ l = Left
                    /\ f = latencies /\ g = latencies'
    BY <1>0
  <1>2. /\ f \in Seq(Nat) /\ n = Len(f) /\ l < n /\ 0 < l
        /\ g = SubSeq(f, n - l + 1, n)
        /\ UNCHANGED <<errors, perModel, occurred>>
    BY <1>1, BoardConstants DEF Board!ClearOldData, BoardInv, BoardTypes
  <1>3. \A i \in 1..n : f[i] \in Nat
    BY <1>2, ElementOfSeq
  <1>4. g \in Seq(Nat) /\ Len(g) = l /\ \A i \in 1..l : g[i] = f[(n - l) + i]
    <2>1. n - l + 1 \in Int /\ n \in Int
          /\ (IF n - l + 1 <= n THEN n - (n - l + 1) + 1 ELSE 0) = l
          /\ n - (n - l + 1) + 1 = l
          /\ \A i \in 1..l : (n - l + 1) + i - 1 = (n - l) + i
      BY <1>2
    <2>2. \A i \in (n - l + 1)..n : f[i] \in Nat
      <3>1. \A i \in (n - l + 1)..n : i \in 1..n
        BY <1>2
      <3> QED BY <1>3, <3>1
    <2>3. /\ g \in Seq(Nat) /\ Len(g) = (IF n - l + 1 <= n THEN n - (n - l + 1) + 1 ELSE 0)
          /\ \A i \in 1..(n - (n - l + 1) + 1) : g[i] = f[(n - l + 1) + i - 1]
      BY ONLY SMTT(60), <1>2, <2>1, <2>2, SubSeqProperties
    <2> QED BY ONLY <2>1, <2>3
  <1>5. BoardTypes'
    BY <1>1, <1>2, <1>4 DEF BoardInv, BoardTypes
  <1>6. PICK c, t, E, p : c = ModelCounts /\ t = ModelTotals /\ E = DOMAIN perModel /\ p = perModel
    OBVIOUS
  <1>7. c = ModelCounts' /\ t = ModelTotals' /\ E = DOMAIN perModel' /\ p = perModel'
    BY <1>2, <1>6 DEF ModelCounts, ModelTotals
  <1>8. /\ n <= SumOf(c, E) /\ SumOf(f, 1..n) <= SumOf(t, E)
        /\ \A i \in 1..n : \E k \in E : p[k].least <= f[i] /\ f[i] <= p[k].greatest
    BY <1>1, <1>6 DEF BoardInv, BooksCover
  <1>9. SumOf(c, E) \in Nat /\ SumOf(t, E) \in Nat
    <2>1. IsFiniteSet(E) /\ \A k \in E : c[k] \in Nat /\ t[k] \in Nat
      BY <1>6 DEF BoardInv, BoardTypes, ModelCounts, ModelTotals
    <2> QED BY ONLY <2>1, SumNat
  <1>10. SumOf(g, 1..l) <= SumOf(f, 1..n)
    <2>1. l <= n /\ n \in Nat /\ l \in Nat
      BY <1>2
    <2> QED BY ONLY <1>3, <1>4, <2>1, SumLast
  <1>11. SumOf(g, 1..l) \in Nat /\ SumOf(f, 1..n) \in Nat
    <2>1. \A i \in 1..l : g[i] \in Nat
      BY <1>4, ElementOfSeq
    <2>2. IsFiniteSet(1..l) /\ IsFiniteSet(1..n)
      BY UpToFinite
    <2> QED BY ONLY <1>3, <2>1, <2>2, SumNat
  <1>12. l <= SumOf(c, E) /\ SumOf(g, 1..l) <= SumOf(t, E)
    BY <1>2, <1>8, <1>9, <1>10, <1>11
  <1>13. \A i \in 1..l : \E k \in E : p[k].least <= g[i] /\ g[i] <= p[k].greatest
    <2>1. \A i \in 1..l : (n - l) + i \in 1..n
      BY <1>2
    <2> QED BY <1>4, <1>8, <2>1
  <1>14. BooksCover'
    BY <1>1, <1>4, <1>7, <1>12, <1>13 DEF BooksCover
  <1> QED BY <1>5, <1>14 DEF BoardInv

\* What is left of the latencies never exceeds the books of the models.
THEOREM BoardInvariant == Spec => []BoardInv
  <1>1. Init => BoardInv
    <2> SUFFICES ASSUME Init
                 PROVE  BoardInv
      OBVIOUS
    <2>1. latencies = <<>> /\ errors = 0 /\ occurred = 0 /\ perModel = [m \in {} |-> 0]
      BY DEF Init, Board!Init
    <2>2. DOMAIN perModel = {} /\ Len(latencies) = 0 /\ latencies \in Seq(Nat)
      BY <2>1, EmptySeq
    <2>3. 1..0 = {}
      OBVIOUS
    <2>4. BoardTypes
      BY <2>1, <2>2, FS_EmptySet DEF BoardTypes
    <2>5. /\ SumOf(latencies, {}) = 0 /\ SumOf(ModelCounts, {}) = 0
          /\ SumOf(ModelTotals, {}) = 0
      BY SumEmpty
    <2>6. BooksCover
      BY <2>2, <2>3, <2>5 DEF BooksCover
    <2> QED BY <2>4, <2>6 DEF BoardInv
  <1>2. BoardInv /\ [Next]_vars => BoardInv'
    <2> SUFFICES ASSUME BoardInv, [Next]_vars
                 PROVE  BoardInv'
      OBVIOUS
    <2>1. ASSUME Board!RecordError
          PROVE  BoardInv'
      BY <2>1 DEF Board!RecordError, BoardInv, BoardTypes, BooksCover, ModelCounts, ModelTotals
    <2>2. CASE BoardStep
      BY <2>1, <2>2, RecordRequestInv, ClearOldDataInv DEF BoardStep, Board!Next
    <2>3. CASE UNCHANGED boardVars
      BY <2>3 DEF boardVars, BoardInv, BoardTypes, BooksCover, ModelCounts, ModelTotals
    <2> QED
      BY <2>2, <2>3 DEF Next, vars, HybridStep, EngineStep, TrackerStep, MonitorStep,
                        QueueStep, HTTPStep, AdviceStep, EdgeStep
  <1> QED BY <1>1, <1>2, PTL DEF Spec

\* The sums the alerts are read off.
LEMMA RecordedIs ==
    ASSUME BoardTypes
    PROVE  Board!Recorded = SumOf(ModelCounts, DOMAIN perModel)
  <1> DEFINE D == DOMAIN perModel
             h == CHOOSE g : g = [r \in SUBSET D |->
                     IF r = {} THEN 0
                     ELSE LET i == CHOOSE y \in r : TRUE
                          IN Board!Count(i) + g[r \ {i}]]
  <1>1. Board!Recorded = h[D]
    BY DEF Board!Recorded, Board!FoldSet, Board!MapThenFoldSet
  <1>2. PICK f : f = ModelCounts
    OBVIOUS
  <1>3. IsFiniteSet(D) /\ \A i \in D : f[i] = Board!Count(i)
    BY <1>2 DEF BoardTypes, ModelCounts, Board!Count
  <1> HIDE DEF D
  <1>4. \A g : IsSum(g, f, D)
               <=> g = [r \in SUBSET D |->
                          IF r = {} THEN 0
                          ELSE LET i == CHOOSE y \in r : TRUE
                               IN Board!Count(i) + g[r \ {i}]]
    BY <1>3 DEF IsSum
  <1>5. IsSum(h, f, D)
    <2>1. \E g : IsSum(g, f, D)
      BY <1>3, SumExists
    <2> QED BY ZenonT(60), <1>4, <2>1
  <1> HIDE DEF h
  <1>6. h[D] = SumOf(f, D)
    BY <1>3, <1>5, SumIs
  <1> QED BY <1>1, <1>2, <1>6 DEF D

\* What the models report.
LEMMA BooksTotalIs ==
    ASSUME BoardTypes
    PROVE  Board!FoldSet(LAMBDA m, n : Board!Sum(m) + n, 0, DOMAIN perModel) = SumOf(ModelTotals, DOMAIN perModel)
  <1> DEFINE D == DOMAIN perModel
             h == CHOOSE g : g = [r \in SUBSET D |->
                     IF r = {} THEN 0
                     ELSE LET i == CHOOSE y \in r : TRUE
                          IN Board!Sum(i) + g[r \ {i}]]
  <1>1. Board!FoldSet(LAMBDA m, n : Board!Sum(m) + n, 0, DOMAIN perModel) = h[D]
    BY DEF Board!FoldSet, Board!MapThenFoldSet
  <1>2. PICK f : f = ModelTotals
    OBVIOUS
  <1>3. IsFiniteSet(D) /\ \A i \in D : f[i] = Board!Sum(i)
    BY <1>2 DEF BoardTypes, ModelTotals, Board!Sum
  <1> HIDE DEF D
  <1>4. \A g : IsSum(g, f, D)
               <=> g = [r \in SUBSET D |->
                          IF r = {} THEN 0
                          ELSE LET i == CHOOSE y \in r : TRUE
                               IN Board!Sum(i) + g[r \ {i}]]
    BY <1>3 DEF IsSum
  <1>5. IsSum(h, f, D)
    <2>1. \E g : IsSum(g, f, D)
      BY <1>3, SumExists
    <2> QED BY ZenonT(60), <1>4, <2>1
  <1> HIDE DEF h
  <1>6. h[D] = SumOf(f, D)
    BY <1>3, <1>5, SumIs
  <1> QED BY <1>1, <1>2, <1>6 DEF D

\* What the average is of.
LEMMA TotalIs ==
    ASSUME BoardTypes
    PROVE  Board!Total = SumOf(latencies, 1..Len(latencies))
  <1> DEFINE D == DOMAIN latencies
             h == CHOOSE g : g = [r \in SUBSET D |->
                     IF r = {} THEN 0
                     ELSE LET i == CHOOSE y \in r : TRUE
                          IN latencies[i] + g[r \ {i}]]
  <1>1. Board!Total = h[D]
    BY DEF Board!Total, Board!FoldSeq, Board!FoldFunction, Board!FoldFunctionOnSet, Board!MapThenFoldSet
  <1>2. PICK f : f = latencies
    OBVIOUS
  <1>3. IsFiniteSet(D) /\ \A i \in D : f[i] = latencies[i]
    BY <1>2, LenProperties, UpToFinite DEF BoardTypes
  <1> HIDE DEF D
  <1>4. \A g : IsSum(g, f, D)
               <=> g = [r \in SUBSET D |->
                          IF r = {} THEN 0
                          ELSE LET i == CHOOSE y \in r : TRUE
                               IN latencies[i] + g[r \ {i}]]
    BY <1>3 DEF IsSum
  <1>5. IsSum(h, f, D)
    <2>1. \E g : IsSum(g, f, D)
      BY <1>3, SumExists
    <2> QED BY ZenonT(60), <1>4, <2>1
  <1> HIDE DEF h
  <1>6. h[D] = SumOf(f, D)
    BY <1>3, <1>5, SumIs
  <1> QED BY <1>1, <1>2, <1>6 DEF D

LEMMA BoardCounts == \A S : Board!Cardinality(S) = Cardinality(S)
  BY DEF Board!Cardinality, Cardinality

\* The percentile is too high exactly when too many latencies are.
LEMMA PercentileDecides ==
    ASSUME BoardTypes, latencies # <<>>
    PROVE  Board!Percentile > PercentLimit
           <=> Cardinality(Board!Slow)
               >= Len(latencies) - (Len(latencies) * Percent) \div 100
  <1>0. PICK n \in Nat : n = Len(latencies)
    BY LenProperties DEF BoardTypes
  <1>1. PICK f : n = Len(latencies) /\ f = latencies
    BY <1>0
  <1>2. f \in Seq(Nat) /\ DOMAIN f = 1..n /\ n > 0 /\ \A i \in 1..n : f[i] \in Nat
    <2>1. f \in Seq(Nat) /\ n = Len(f) /\ f # <<>>
      BY <1>1 DEF BoardTypes
    <2>2. n # 0
      BY <2>1, EmptySeq
    <2> QED BY <2>1, <2>2, LenProperties, ElementOfSeq
  <1>3. PICK q \in Nat : q = (n * Percent) \div 100 /\ q < n
    <2>1. Percent \in Nat /\ Percent <= 99
      BY BoardConstants
    <2>2. n * Percent \in Nat /\ n * Percent <= n * 99
      BY <2>1, TimesMonotone
    <2>3. PICK r \in Nat : r = n * Percent
      BY <2>2
    <2>4. r < 100 * n
      BY <1>2, <2>2, <2>3
    <2>5. r \div 100 \in Nat /\ r \div 100 < n
      BY <2>4
    <2> QED BY <2>3, <2>5
  <1> DEFINE Before(i, j) == f[i] < f[j] \/ (f[i] = f[j] /\ i < j)
  <1>4. PICK R : R = {p \in (1..n) \X (1..n) : Before(p[1], p[2])}
    OBVIOUS
  <1>5. \A i, j \in 1..n : <<i, j>> \in R <=> Before(i, j)
    BY <1>4
  <1>6. Orders(R, n)
    <2>1. \A i \in 1..n : ~Before(i, i)
      BY <1>2
    <2>2. \A i, j \in 1..n : i # j => Before(i, j) \/ Before(j, i)
      BY <1>2
    <2>3. \A i, j, k \in 1..n : Before(i, j) /\ Before(j, k) => Before(i, k)
      BY <1>2
    <2> HIDE DEF Before
    <2> QED BY <1>5, <2>1, <2>2, <2>3 DEF Orders
  <1>7. \A i, j \in 1..n : /\ <<i, j>> \in R => f[i] <= f[j]
                           /\ f[i] < f[j] => <<i, j>> \in R
    <2>1. \A i, j \in 1..n : /\ Before(i, j) => f[i] <= f[j]
                             /\ f[i] < f[j] => Before(i, j)
      BY <1>2
    <2> HIDE DEF Before
    <2> QED BY <1>5, <2>1
  <1>8. \A i, j : Board!Before(i, j) <=> Before(i, j)
    BY <1>1 DEF Board!Before
  <1> HIDE DEF Before
  <1>9. \A i \in 1..n : Board!Cardinality({j \in DOMAIN latencies : Board!Before(j, i)})
                        = Rank(R, n, i)
    <2> SUFFICES ASSUME NEW i \in 1..n
                 PROVE  Board!Cardinality({j \in DOMAIN latencies : Board!Before(j, i)})
                        = Rank(R, n, i)
      OBVIOUS
    <2>1. {j \in DOMAIN latencies : Board!Before(j, i)} = Lower(R, n, i)
      BY <1>1, <1>2, <1>5, <1>8 DEF Lower
    <2> QED BY <2>1, BoardCounts DEF Rank
  <1>10. PICK k : k = CHOOSE i \in 1..n : Rank(R, n, i) = q
    OBVIOUS
  <1>11. k \in 1..n /\ Rank(R, n, k) = q
    <2>1. \E i \in 1..n : Rank(R, n, i) = q
      BY <1>3, <1>6, RankTaken
    <2> QED BY <1>10, <2>1
  <1>12. Board!Percentile = f[k]
    <2>1. k = CHOOSE i \in DOMAIN latencies :
                 Board!Cardinality({j \in DOMAIN latencies : Board!Before(j, i)})
                 = (Len(latencies) * Percent) \div 100
      BY <1>1, <1>2, <1>3, <1>9, <1>10
    <2> QED BY <1>1, <2>1 DEF Board!Percentile
  <1>13. Board!Slow = {j \in 1..n : f[j] > PercentLimit}
    BY <1>1, <1>2 DEF Board!Slow
  <1>14. f[k] > PercentLimit <=> Cardinality({j \in 1..n : f[j] > PercentLimit}) >= n - q
    <2>1. PercentLimit \in Nat /\ n \in Nat /\ q \in Nat /\ \A i \in 1..n : f[i] \in Nat
      BY <1>2, BoardConstants
    <2> QED BY ONLY <1>6, <1>7, <1>11, <2>1, RankDecides
  <1> QED BY <1>1, <1>3, <1>12, <1>13, <1>14

LEMMA BoardAlerts ==
    ASSUME BoardInv
    PROVE  AlertsSound
  <1> SUFFICES ASSUME latencies # <<>>
               PROVE  AlertsSound
    BY DEF AlertsSound, Board!AlertsSound
  <1>1. PICK n \in Nat, o \in Nat, r \in Nat, e \in Nat :
            /\ n = Len(latencies) /\ o = occurred /\ o = errors /\ e = ErrorLimit
            /\ r = Board!Recorded /\ n <= r
    <2>1. Len(latencies) \in Nat /\ occurred \in Nat /\ ErrorLimit \in Nat /\ errors = occurred
      BY BoardConstants, LenProperties DEF BoardInv, BoardTypes
    <2>2. Board!Recorded = SumOf(ModelCounts, DOMAIN perModel)
      BY RecordedIs DEF BoardInv
    <2>3. SumOf(ModelCounts, DOMAIN perModel) \in Nat
      BY SumNat DEF BoardInv, BoardTypes, ModelCounts
    <2>4. Len(latencies) <= SumOf(ModelCounts, DOMAIN perModel)
      BY DEF BoardInv, BooksCover
    <2> QED BY <2>1, <2>2, <2>3, <2>4
  <1>2. e * n \in Nat /\ e * r \in Nat /\ e * n <= e * r
    BY <1>1, TimesMonotone
  <1>3. "errors" \in Board!Alerts <=> o * 100 > e * n
    <2>1. "errors" # "average" /\ "errors" # "percentile"
      OBVIOUS
    <2> QED BY <1>1, <2>1 DEF Board!Alerts
  <1>4. "percentile" \in Board!Alerts <=> Board!Percentile > PercentLimit
    <2>1. "errors" # "percentile" /\ "average" # "percentile"
      OBVIOUS
    <2> QED BY <2>1 DEF Board!Alerts
  <1>5. occurred * 100 > ErrorLimit * Board!Recorded => "errors" \in Board!Alerts
    BY <1>1, <1>2, <1>3
  <1>6. "errors" \in Board!Alerts /\ occurred * 100 <= ErrorLimit * Board!Recorded
        => Len(latencies) < Board!Recorded
    <2>1. o * 100 > e * n /\ o * 100 <= e * r => n # r
      BY <1>1, <1>2
    <2> QED BY <1>1, <1>3, <2>1
  <1>7. "percentile" \in Board!Alerts <=>
           Board!Cardinality(Board!Slow)
           >= Len(latencies) - (Len(latencies) * Percent) \div 100
    BY <1>4, PercentileDecides, BoardCounts DEF BoardInv
  <1>8. Board!Total <= Board!FoldSet(LAMBDA m, k : Board!Sum(m) + k, 0, DOMAIN perModel)
    <2>1. SumOf(latencies, 1..Len(latencies)) <= SumOf(ModelTotals, DOMAIN perModel)
      BY DEF BoardInv, BooksCover
    <2> QED BY <2>1, TotalIs, BooksTotalIs DEF BoardInv
  <1>9. ASSUME NEW i \in DOMAIN latencies
        PROVE  \E m \in DOMAIN perModel :
                  latencies[i] \in perModel[m].least .. perModel[m].greatest
    <2>1. i \in 1..Len(latencies) /\ latencies[i] \in Nat
      BY LenProperties, ElementOfSeq DEF BoardInv, BoardTypes
    <2>2. PICK m \in DOMAIN perModel :
              perModel[m].least <= latencies[i] /\ latencies[i] <= perModel[m].greatest
      BY <2>1 DEF BoardInv, BooksCover
    <2>3. perModel[m].least \in Nat /\ perModel[m].greatest \in Nat
      BY DEF BoardInv, BoardTypes
    <2>4. latencies[i] \in perModel[m].least .. perModel[m].greatest
      BY ONLY <2>1, <2>2, <2>3
    <2> QED BY <2>4
  <1> QED BY <1>5, <1>6, <1>7, <1>8, <1>9 DEF AlertsSound, Board!AlertsSound

\* AlertsSound: however often old data is cut off, no alert about errors is
\* missed, the one about the percentile is right, and what is left is within
\* the books of the models.
THEOREM AlertsAreSound == Spec => []AlertsSound
  BY BoardInvariant, BoardAlerts, PTL
=============================================================================
