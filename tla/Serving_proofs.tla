--------------------------- MODULE Serving_proofs ---------------------------
(***************************************************************************)
(* Proofs about Serving, for any set of requests and models, any batch     *)
(* size and wait, and both meanings of `await' (LockYields): its types;    *)
(* that no request is lost; that batches are bounded on asyncio; which     *)
(* loads answers come from and what the log counts; and that Serving       *)
(* implements RequestService: queueing, batching, polling and publishing   *)
(* look to the callers as if each request had been executed once, in one   *)
(* instant, and its outcome handed to its caller.                          *)
(***************************************************************************)
EXTENDS Serving, TLAPS, WellFoundedInduction

USE DEF Outcomes

------------------------------------------------------------------------------
(* Sequences used as queues.                                               *)

\* An empty list holds nothing, and nothing twice.
LEMMA EmptyRange == Range(<<>>) = {} /\ IsInjective(<<>>)
  BY DEF Range, IsInjective

\* list.append adds its element to those of the list (BatchQueue.add, the
\* request log).
LEMMA AppendRange ==
  ASSUME NEW S, NEW s \in Seq(S), NEW e \in S
  PROVE  Range(Append(s, e)) = Range(s) \cup {e}
<1>1. /\ DOMAIN s = 1..Len(s) /\ Len(s) \in Nat
      /\ DOMAIN Append(s, e) = 1..(Len(s) + 1)
      /\ \A i \in 1..Len(s) : Append(s, e)[i] = s[i]
      /\ Append(s, e)[Len(s) + 1] = e
  OBVIOUS
<1>2. ASSUME NEW x \in Range(Append(s, e)) PROVE x \in Range(s) \cup {e}
  BY <1>1 DEF Range
<1>3. ASSUME NEW x \in Range(s) PROVE x \in Range(Append(s, e))
  BY <1>1 DEF Range
<1>4. e \in Range(Append(s, e))
  BY <1>1 DEF Range
<1> QED BY <1>2, <1>3, <1>4

\* Appending an element a list does not hold keeps it free of duplicates.
LEMMA AppendInjective ==
  ASSUME NEW S, NEW s \in Seq(S), NEW e \in S,
         IsInjective(s), e \notin Range(s)
  PROVE  IsInjective(Append(s, e))
<1>1. /\ DOMAIN s = 1..Len(s) /\ Len(s) \in Nat
      /\ DOMAIN Append(s, e) = 1..(Len(s) + 1)
      /\ \A i \in 1..Len(s) : Append(s, e)[i] = s[i]
      /\ Append(s, e)[Len(s) + 1] = e
  OBVIOUS
<1>2. \A i \in 1..Len(s) : s[i] # e
  BY <1>1 DEF Range
<1> QED BY <1>1, <1>2 DEF IsInjective

------------------------------------------------------------------------------
(* Type correctness.                                                       *)

LEMMA EmptyTyped == Empty \in [Requests -> Outcomes \cup {NoResult}]
  BY DEF Empty

LEMMA InitTyped == Init => TypeOK
<1> SUFFICES ASSUME Init PROVE TypeOK
  OBVIOUS
<1>1. pc \in [Requests -> Locations] /\ running \in Requests \cup {Idle}
  BY DEF Init, Locations
<1>2. queue \in Seq(Requests) /\ log \in Seq(Requests)
  BY DEF Init
<1>3. batch \in [Requests -> Seq(Requests)]
  BY DEF Init
<1>4. out \in [Requests -> [Requests -> Outcomes \cup {NoResult}]]
  BY EmptyTyped DEF Init
<1>5. results \in [Requests -> Outcomes \cup {NoResult}]
      /\ reply \in [Requests -> Outcomes \cup {NoResult}]
  BY EmptyTyped DEF Init
<1>6. /\ cache \in [Models -> Nat] /\ loads \in [Models -> Nat]
      /\ floor \in [Requests -> Nat]
  BY DEF Init
<1>7. armed \in BOOLEAN
  BY DEF Init
<1>10. waited \in 0..MaxWait
  BY ServingAssumption DEF Init
<1>8. \A r \in Requests : batch[r] # <<>> <=> pc[r] \in {"run", "publish"}
  BY DEF Init
<1>9. running # Idle => pc[running] \notin Suspended
  BY DEF Init
<1> QED
  BY <1>1, <1>2, <1>3, <1>4, <1>5, <1>6, <1>7, <1>10, <1>8, <1>9 DEF TypeOK

\* Where a step leaves the coroutine it belongs to, and who has the loop.
LEMMA GotoTyped ==
  ASSUME TypeOK, NEW r \in Requests, NEW next \in Locations, Goto(r, next)
  PROVE  /\ pc' \in [Requests -> Locations]
         /\ running' \in Requests \cup {Idle}
         /\ running' # Idle => pc'[running'] \notin Suspended
         /\ pc'[r] = next
         /\ \A q \in Requests \ {r} : pc'[q] = pc[q]
  BY ServingAssumption DEF TypeOK, Goto

LEMMA PredictTyped ==
  ASSUME TypeOK, NEW r \in Requests, Predict(r)
  PROVE  TypeOK'
<1>1. /\ pc' \in [Requests -> Locations] /\ running' \in Requests \cup {Idle}
      /\ running' # Idle => pc'[running'] \notin Suspended
      /\ pc'[r] = "loop" /\ \A q \in Requests \ {r} : pc'[q] = pc[q]
  BY GotoTyped DEF Predict, Locations
<1>2. queue' \in Seq(Requests)
  BY DEF Predict, TypeOK
<1>3. armed' \in BOOLEAN /\ waited' \in 0..MaxWait
  BY ServingAssumption DEF Predict, TypeOK
<1>4. floor' \in [Requests -> Nat]
  BY ServingAssumption DEF Predict, TypeOK
<1>5. \A q \in Requests : batch'[q] # <<>> <=> pc'[q] \in {"run", "publish"}
  BY <1>1 DEF Predict, TypeOK, locals
<1> QED
  BY <1>1, <1>2, <1>3, <1>4, <1>5
  DEF Predict, TypeOK, locals, modelVars, answers

\* Poll, ShouldFlush, Wake and Cancel change pc and the loop alone.
LEMMA MoveTyped ==
  ASSUME TypeOK, NEW r \in Requests, NEW next \in Locations, Goto(r, next),
         pc[r] \notin {"run", "publish"}, next \notin {"run", "publish"},
         UNCHANGED <<queueVars, locals, results, modelVars, answers, floor>>
  PROVE  TypeOK'
<1>1. /\ pc' \in [Requests -> Locations] /\ running' \in Requests \cup {Idle}
      /\ running' # Idle => pc'[running'] \notin Suspended
      /\ pc'[r] = next /\ \A q \in Requests \ {r} : pc'[q] = pc[q]
  BY GotoTyped
<1>2. \A q \in Requests : batch'[q] # <<>> <=> pc'[q] \in {"run", "publish"}
  BY <1>1 DEF TypeOK, locals
<1> QED
  BY <1>1, <1>2 DEF TypeOK, queueVars, locals, modelVars, answers

LEMMA FlushTyped ==
  ASSUME TypeOK, NEW r \in Requests, Flush(r)
  PROVE  TypeOK'
<1> DEFINE next == IF queue = <<>> THEN "loop" ELSE "run"
<1>1. /\ pc' \in [Requests -> Locations] /\ running' \in Requests \cup {Idle}
      /\ running' # Idle => pc'[running'] \notin Suspended
      /\ pc'[r] = next /\ \A q \in Requests \ {r} : pc'[q] = pc[q]
  <2>1. next \in Locations /\ Goto(r, next)
    BY DEF Flush, Locations
  <2> HIDE DEF next
  <2> QED BY <2>1, GotoTyped
<1>2. batch' \in [Requests -> Seq(Requests)]
  BY DEF Flush, TypeOK
<1>3. queue' \in Seq(Requests) /\ waited' \in 0..MaxWait
  BY ServingAssumption DEF Flush
<1>6. armed' \in BOOLEAN
  BY DEF Flush
<1>4. batch'[r] = queue /\ \A q \in Requests \ {r} : batch'[q] = batch[q]
  BY DEF Flush, TypeOK
<1>5. \A q \in Requests : batch'[q] # <<>> <=> pc'[q] \in {"run", "publish"}
  BY <1>1, <1>4 DEF TypeOK
<1> QED
  BY <1>1, <1>2, <1>3, <1>6, <1>5 DEF Flush, TypeOK, modelVars, answers

LEMMA RunGroupTyped ==
  ASSUME TypeOK, NEW r \in Requests, RunGroup(r)
  PROVE  TypeOK'
<1> DEFINE next == IF Left(r) \subseteq Group(r) THEN "publish" ELSE "run"
<1>1. /\ pc' \in [Requests -> Locations] /\ running' \in Requests \cup {Idle}
      /\ running' # Idle => pc'[running'] \notin Suspended
      /\ pc'[r] = next /\ \A q \in Requests \ {r} : pc'[q] = pc[q]
  <2>1. next \in Locations /\ Goto(r, next)
    BY DEF RunGroup, Locations
  <2> HIDE DEF next
  <2> QED BY <2>1, GotoTyped
<1>2. out' \in [Requests -> [Requests -> Outcomes \cup {NoResult}]]
  <2>1. ASSUME NEW q \in Group(r) PROVE cache[NextModel(r)] \in Nat
    <3>1. q \in Requests /\ ModelOf[q] = NextModel(r)
      BY DEF Group, Range, TypeOK
    <3> QED BY <3>1, ServingAssumption DEF TypeOK
  <2> QED BY <2>1 DEF RunGroup, TypeOK
<1>3. \A q \in Requests : batch'[q] # <<>> <=> pc'[q] \in {"run", "publish"}
  BY <1>1 DEF RunGroup, TypeOK
<1> QED
  BY <1>1, <1>2, <1>3 DEF RunGroup, TypeOK, queueVars, modelVars, answers

LEMMA PublishTyped ==
  ASSUME TypeOK, NEW r \in Requests, Publish(r)
  PROVE  TypeOK'
<1>1. /\ pc' \in [Requests -> Locations] /\ running' \in Requests \cup {Idle}
      /\ running' # Idle => pc'[running'] \notin Suspended
      /\ pc'[r] = "loop" /\ \A q \in Requests \ {r} : pc'[q] = pc[q]
  BY GotoTyped DEF Publish, Locations
<1>2. results' \in [Requests -> Outcomes \cup {NoResult}]
  BY DEF Publish, TypeOK
<1>3. out' \in [Requests -> [Requests -> Outcomes \cup {NoResult}]]
  BY EmptyTyped DEF Publish, TypeOK
<1>4. batch' \in [Requests -> Seq(Requests)]
  BY DEF Publish, TypeOK
<1>5. \A q \in Requests : batch'[q] # <<>> <=> pc'[q] \in {"run", "publish"}
  BY <1>1 DEF Publish, TypeOK
<1> QED
  BY <1>1, <1>2, <1>3, <1>4, <1>5 DEF Publish, TypeOK, queueVars, modelVars, answers

LEMMA AnswerTyped ==
  ASSUME TypeOK, NEW r \in Requests, Answer(r)
  PROVE  TypeOK'
<1>1. /\ pc' \in [Requests -> Locations] /\ running' \in Requests \cup {Idle}
      /\ running' # Idle => pc'[running'] \notin Suspended
      /\ pc'[r] = "answered" /\ \A q \in Requests \ {r} : pc'[q] = pc[q]
  BY GotoTyped DEF Answer, Locations
<1>2. log' \in Seq(Requests)
  BY DEF Answer, TypeOK
<1>3. /\ reply' \in [Requests -> Outcomes \cup {NoResult}]
      /\ results' \in [Requests -> Outcomes \cup {NoResult}]
  BY DEF Answer, TypeOK
<1>4. \A q \in Requests : batch'[q] # <<>> <=> pc'[q] \in {"run", "publish"}
  BY <1>1 DEF Answer, TypeOK, locals
<1> QED
  BY <1>1, <1>2, <1>3, <1>4 DEF Answer, TypeOK, queueVars, locals, modelVars

LEMMA LoadModelTyped ==
  ASSUME TypeOK, NEW m \in Models, LoadModel(m)
  PROVE  TypeOK'
<1>1. cache' \in [Models -> Nat] /\ loads' \in [Models -> Nat]
  BY DEF LoadModel, TypeOK
<1> QED
  BY <1>1 DEF LoadModel, TypeOK, queueVars, locals, answers

LEMMA TickTyped ==
  ASSUME TypeOK, Tick \/ SetBack
  PROVE  TypeOK'
<1>1. waited' \in 0..MaxWait
  BY ServingAssumption DEF Tick, SetBack, TypeOK
<1> QED
  BY <1>1 DEF Tick, SetBack, TypeOK, locals, modelVars, answers

LEMMA StepTyped == TypeOK /\ [Next]_vars => TypeOK'
<1> SUFFICES ASSUME TypeOK, [Next]_vars PROVE TypeOK'
  OBVIOUS
<1>1. ASSUME NEW r \in Requests, Predict(r) PROVE TypeOK'
  BY <1>1, PredictTyped
<1>2. ASSUME NEW r \in Requests, Poll(r) PROVE TypeOK'
  BY <1>2, MoveTyped DEF Poll, Locations
<1>3. ASSUME NEW r \in Requests, ShouldFlush(r) PROVE TypeOK'
  <2> DEFINE next == IF BatchReady THEN "flush" ELSE "sleep"
  <2>1. /\ next \in Locations \ {"run", "publish"} /\ Goto(r, next)
        /\ pc[r] = "check"
        /\ UNCHANGED <<queueVars, locals, results, modelVars, answers, floor>>
    BY <1>3 DEF ShouldFlush, Locations
  <2> HIDE DEF next
  <2> QED BY <2>1, MoveTyped
<1>4. ASSUME NEW r \in Requests, Wake(r) PROVE TypeOK'
  BY <1>4, MoveTyped DEF Wake, Locations
<1>5. ASSUME NEW r \in Requests, Flush(r) PROVE TypeOK'
  BY <1>5, FlushTyped
<1>6. ASSUME NEW r \in Requests, RunGroup(r) PROVE TypeOK'
  BY <1>6, RunGroupTyped
<1>7. ASSUME NEW r \in Requests, Publish(r) PROVE TypeOK'
  BY <1>7, PublishTyped
<1>8. ASSUME NEW r \in Requests, Answer(r) PROVE TypeOK'
  BY <1>8, AnswerTyped
<1>9. ASSUME NEW r \in Requests, Cancel(r) PROVE TypeOK'
  BY <1>9, MoveTyped DEF Cancel, Locations
<1>10. ASSUME NEW m \in Models, LoadModel(m) PROVE TypeOK'
  BY <1>10, LoadModelTyped
<1>11. CASE Tick \/ SetBack
  BY <1>11, TickTyped
<1>12. CASE UNCHANGED vars
  BY <1>12 DEF vars, TypeOK, queueVars, locals, modelVars, answers
<1> QED
  BY <1>1, <1>2, <1>3, <1>4, <1>5, <1>6, <1>7, <1>8, <1>9, <1>10, <1>11, <1>12
  DEF Next, Step

\* The server's state always has its type, and a call has a batch in hand
\* exactly while it runs one.
THEOREM TypeCorrect == Spec => []TypeOK
  BY InitTyped, StepTyped, PTL DEF Spec

------------------------------------------------------------------------------
(* No request is lost or served twice.  NoRequestLost is not inductive: that *)
(* Publish moves a whole batch to _results needs BatchProgress, and that    *)
(* Flush overwrites no batch needs TypeOK.                                  *)

Inv == TypeOK /\ NoRequestLost /\ BatchProgress

LEMMA InitInv == Init => Inv
<1> SUFFICES ASSUME Init PROVE NoRequestLost /\ BatchProgress
  BY InitTyped DEF Inv
<1>1. /\ \A r \in Requests : batch[r] = <<>> /\ results[r] = NoResult
      /\ \A p, q \in Requests : out[p][q] = NoResult
      /\ queue = <<>>
      /\ \A r \in Requests : pc[r] = "new"
  BY DEF Init, Empty
<1>2. NoDuplicates
  BY <1>1, EmptyRange DEF NoDuplicates
<1>3. \A r \in Requests : InOnePlace(r)
  BY <1>1, EmptyRange DEF InOnePlace, InQueue, InBatch, InResults
<1> QED BY <1>1, <1>2, <1>3 DEF NoRequestLost, BatchProgress

\* Poll, ShouldFlush, Wake and Cancel move no request.
LEMMA MoveInv ==
  ASSUME Inv, TypeOK', NEW r \in Requests, NEW next \in Locations,
         Goto(r, next), pc[r] \notin {"new", "answered"},
         next \notin {"new", "answered", "publish"},
         UNCHANGED <<queueVars, locals, results, modelVars, answers, floor>>
  PROVE  Inv'
<1>1. pc'[r] = next /\ \A q \in Requests \ {r} : pc'[q] = pc[q]
  BY GotoTyped DEF Inv
<1>2. NoDuplicates'
  BY DEF Inv, NoRequestLost, NoDuplicates, queueVars, locals
<1>3. ASSUME NEW q \in Requests PROVE InOnePlace(q)'
  BY <1>1 DEF Inv, NoRequestLost, InOnePlace, InQueue, InBatch, InResults,
              queueVars, locals
<1>4. BatchProgress'
  BY <1>1 DEF Inv, BatchProgress, locals
<1> QED BY <1>2, <1>3, <1>4 DEF Inv, NoRequestLost

LEMMA PredictInv ==
  ASSUME Inv, TypeOK', NEW r \in Requests, Predict(r)
  PROVE  Inv'
<1>1. pc'[r] = "loop" /\ \A q \in Requests \ {r} : pc'[q] = pc[q]
  BY GotoTyped DEF Inv, Predict, Locations
<1>2. ~InQueue(r) /\ ~InBatch(r) /\ ~InResults(r)
  BY DEF Inv, NoRequestLost, InOnePlace, Predict
<1>3. Range(queue') = Range(queue) \cup {r} /\ IsInjective(queue')
  BY <1>2, AppendRange, AppendInjective
  DEF Inv, TypeOK, NoRequestLost, NoDuplicates, InQueue, Predict
<1>4. batch' = batch /\ out' = out /\ results' = results
  BY DEF Predict, locals
<1>5. NoDuplicates'
  BY <1>3, <1>4 DEF Inv, NoRequestLost, NoDuplicates
<1>6. ASSUME NEW q \in Requests PROVE InOnePlace(q)'
  <2>1. CASE q = r
    BY <2>1, <1>1, <1>2, <1>3, <1>4 DEF InOnePlace, InQueue, InBatch, InResults
  <2>2. CASE q # r
    BY <2>2, <1>1, <1>3, <1>4
    DEF Inv, NoRequestLost, InOnePlace, InQueue, InBatch, InResults
  <2> QED BY <2>1, <2>2
<1>7. BatchProgress'
  BY <1>1, <1>4 DEF Inv, BatchProgress
<1> QED BY <1>5, <1>6, <1>7 DEF Inv, NoRequestLost

LEMMA FlushInv ==
  ASSUME Inv, TypeOK', NEW r \in Requests, Flush(r)
  PROVE  Inv'
<1> DEFINE next == IF queue = <<>> THEN "loop" ELSE "run"
<1>1. pc'[r] = next /\ \A q \in Requests \ {r} : pc'[q] = pc[q]
  <2>1. next \in Locations /\ Goto(r, next)
    BY DEF Flush, Locations
  <2> HIDE DEF next
  <2> QED BY <2>1, GotoTyped DEF Inv
<1>2. pc[r] = "flush" /\ batch[r] = <<>>
  BY DEF Flush, Inv, TypeOK
<1>3. /\ queue' = <<>> /\ out' = out /\ results' = results
      /\ batch'[r] = queue /\ \A q \in Requests \ {r} : batch'[q] = batch[q]
  BY DEF Flush, Inv, TypeOK
<1>4. Range(batch[r]) = {} /\ Range(queue') = {} /\ IsInjective(queue')
  BY <1>2, <1>3, EmptyRange
<1>5. ASSUME NEW q \in Requests
      PROVE  /\ InBatch(q)' <=> InQueue(q) \/ InBatch(q)
             /\ ~InQueue(q)'
  BY <1>3, <1>4 DEF InBatch, InQueue
<1>6. NoDuplicates'
  <2>1. ASSUME NEW p \in Requests, NEW q \in Requests, NEW x,
               x \in Range(batch'[p]), x \in Range(batch'[q])
        PROVE  p = q
    <3>1. x \in Requests
      BY <2>1 DEF TypeOK, Range
    <3>2. ~(InQueue(x) /\ InBatch(x))
      BY <3>1 DEF Inv, NoRequestLost, InOnePlace
    <3> QED
      BY <2>1, <3>1, <3>2, <1>3
      DEF Inv, NoRequestLost, NoDuplicates, InQueue, InBatch
  <2>2. \A q \in Requests : IsInjective(batch'[q])
    BY <1>3 DEF Inv, NoRequestLost, NoDuplicates
  <2> QED BY <2>1, <2>2, <1>4 DEF NoDuplicates
<1>7. ASSUME NEW q \in Requests PROVE InOnePlace(q)'
  <2>1. pc'[q] \in {"new", "answered"} <=> pc[q] \in {"new", "answered"}
    BY <1>1, <1>2
  <2>2. InResults(q)' <=> InResults(q)
    BY <1>3 DEF InResults
  <2> QED BY <2>1, <2>2, <1>5 DEF Inv, NoRequestLost, InOnePlace
<1>8. BatchProgress'
  BY <1>1, <1>2, <1>3, <1>4 DEF Inv, BatchProgress
<1> QED BY <1>6, <1>7, <1>8 DEF Inv, NoRequestLost

\* RunGroup serves requests of r's batch, and goes to publish when none is left.
LEMMA RunGroupInv ==
  ASSUME Inv, TypeOK', NEW r \in Requests, RunGroup(r)
  PROVE  Inv'
<1> DEFINE next == IF Left(r) \subseteq Group(r) THEN "publish" ELSE "run"
<1>1. pc'[r] = next /\ \A q \in Requests \ {r} : pc'[q] = pc[q]
  <2>1. next \in Locations /\ Goto(r, next)
    BY DEF RunGroup, Locations
  <2> HIDE DEF next
  <2> QED BY <2>1, GotoTyped DEF Inv
<1>2. /\ pc[r] = "run" /\ queue' = queue /\ batch' = batch /\ results' = results
      /\ \A p \in Requests \ {r} : out'[p] = out[p]
  BY DEF RunGroup, Inv, TypeOK, queueVars
<1>3. ASSUME NEW q \in Requests
      PROVE  IF q \in Group(r) THEN out'[r][q] # NoResult
                               ELSE out'[r][q] = out[r][q]
  <2>1. PICK raised \in SUBSET Group(r) :
          out' = [out EXCEPT ![r] = [x \in Requests |->
                    IF x \in Group(r)
                    THEN [ok |-> cache[NextModel(r)] > 0 /\ x \notin raised,
                          ver |-> cache[NextModel(r)]]
                    ELSE out[r][x]]]
    BY DEF RunGroup
  <2>2. CASE q \notin Group(r)
    BY <2>1, <2>2 DEF Inv, TypeOK
  <2>3. CASE q \in Group(r)
    <3>1. ModelOf[q] = NextModel(r)
      BY <2>3 DEF Group
    <3>2. cache[NextModel(r)] \in Nat
      BY <3>1, ServingAssumption DEF Inv, TypeOK
    <3>3. out'[r][q] = [ok |-> cache[NextModel(r)] > 0 /\ q \notin raised,
                        ver |-> cache[NextModel(r)]]
      BY <2>1, <2>3 DEF Inv, TypeOK
    <3> DEFINE b == cache[NextModel(r)] > 0 /\ q \notin raised
               v == cache[NextModel(r)]
    <3>4. b \in BOOLEAN
      OBVIOUS
    <3>5. v \in Nat /\ out'[r][q] = [ok |-> b, ver |-> v]
      BY <3>2, <3>3
    <3> HIDE DEF b, v
    <3>6. [ok |-> b, ver |-> v] \in Outcomes
      BY <3>4, <3>5
    <3> QED BY <2>3, <3>5, <3>6, ServingAssumption
  <2> QED BY <2>2, <2>3
<1>4. Group(r) \subseteq Range(batch[r])
  BY DEF Group
<1>5. NoDuplicates'
  BY <1>2 DEF Inv, NoRequestLost, NoDuplicates
<1>6. ASSUME NEW q \in Requests PROVE InOnePlace(q)'
  <2>1. pc'[q] \in {"new", "answered"} <=> pc[q] \in {"new", "answered"}
    BY <1>1, <1>2
  <2> QED
    BY <2>1, <1>2 DEF Inv, NoRequestLost, InOnePlace, InQueue, InBatch, InResults
<1>7. ASSUME NEW p \in Requests, NEW q \in Requests
      PROVE  /\ out'[p][q] # NoResult => q \in Range(batch'[p])
             /\ pc'[p] = "publish" /\ q \in Range(batch'[p]) => out'[p][q] # NoResult
  <2>1. CASE p # r
    BY <2>1, <1>1, <1>2 DEF Inv, BatchProgress
  <2>2. CASE p = r
    <3>1. out'[p][q] # NoResult => q \in Range(batch'[p])
      BY <2>2, <1>2, <1>3, <1>4 DEF Inv, BatchProgress
    <3>2. ASSUME pc'[r] = "publish", q \in Range(batch[r])
          PROVE  out'[r][q] # NoResult
      <4>1. Left(r) \subseteq Group(r)
        BY <3>2, <1>1, "publish" # "run"
      <4>2. PICK i \in DOMAIN batch[r] : batch[r][i] = q
        BY <3>2 DEF Range
      <4>3. out[r][q] = NoResult => q \in Left(r)
        BY <4>2 DEF Left, Unserved
      <4> QED BY <4>1, <4>3, <1>3
    <3> QED BY <2>2, <1>2, <3>1, <3>2
  <2> QED BY <2>1, <2>2
<1>8. BatchProgress'
  BY <1>7 DEF BatchProgress
<1> QED BY <1>5, <1>6, <1>8 DEF Inv, NoRequestLost

\* Publish moves exactly the requests of r's batch to _results.
LEMMA PublishInv ==
  ASSUME Inv, TypeOK', NEW r \in Requests, Publish(r)
  PROVE  Inv'
<1>1. pc'[r] = "loop" /\ \A q \in Requests \ {r} : pc'[q] = pc[q]
  BY GotoTyped DEF Publish, Locations, Inv
<1>2. /\ pc[r] = "publish" /\ queue' = queue
      /\ batch'[r] = <<>> /\ \A p \in Requests \ {r} : batch'[p] = batch[p]
      /\ \A q \in Requests : out'[r][q] = NoResult
      /\ \A p \in Requests \ {r} : out'[p] = out[p]
  BY DEF Publish, Inv, TypeOK, queueVars, Empty
<1>3. Range(batch'[r]) = {} /\ IsInjective(batch'[r])
  BY <1>2, EmptyRange
<1>4. \A q \in Requests : out[r][q] # NoResult <=> q \in Range(batch[r])
  BY <1>2 DEF Inv, BatchProgress
<1>5. \A q \in Requests : InResults(q)' <=> q \in Range(batch[r]) \/ InResults(q)
  BY <1>4 DEF Publish, Inv, TypeOK, InResults
<1>6. \A q \in Requests : InBatch(q) <=> InBatch(q)' \/ q \in Range(batch[r])
  BY <1>2, <1>3 DEF InBatch
<1>7. \A q \in Requests : q \in Range(batch[r]) => ~InBatch(q)'
  <2>1. ASSUME NEW q \in Requests, q \in Range(batch[r]),
               NEW p \in Requests, q \in Range(batch'[p])
        PROVE  FALSE
    BY <2>1, <1>2, <1>3 DEF Inv, NoRequestLost, NoDuplicates
  <2> QED BY <2>1 DEF InBatch
<1>8. NoDuplicates'
  BY <1>2, <1>3 DEF Inv, NoRequestLost, NoDuplicates
<1>9. ASSUME NEW q \in Requests PROVE InOnePlace(q)'
  <2>1. pc'[q] \in {"new", "answered"} <=> pc[q] \in {"new", "answered"}
    BY <1>1, <1>2
  <2>2. InQueue(q)' <=> InQueue(q)
    BY <1>2 DEF InQueue
  <2> QED
    BY <2>1, <2>2, <1>5, <1>6, <1>7 DEF Inv, NoRequestLost, InOnePlace
<1>10. BatchProgress'
  BY <1>1, <1>2 DEF Inv, BatchProgress
<1> QED BY <1>8, <1>9, <1>10 DEF Inv, NoRequestLost

\* Answer takes the one result of r out of _results.
LEMMA AnswerInv ==
  ASSUME Inv, TypeOK', NEW r \in Requests, Answer(r)
  PROVE  Inv'
<1>1. pc'[r] = "answered" /\ \A q \in Requests \ {r} : pc'[q] = pc[q]
  BY GotoTyped DEF Answer, Locations, Inv
<1>2. /\ pc[r] = "loop" /\ InResults(r)
      /\ queue' = queue /\ batch' = batch /\ out' = out
      /\ results'[r] = NoResult
      /\ \A q \in Requests \ {r} : results'[q] = results[q]
  BY DEF Answer, Inv, TypeOK, queueVars, locals, InResults
<1>3. NoDuplicates'
  BY <1>2 DEF Inv, NoRequestLost, NoDuplicates
<1>4. ASSUME NEW q \in Requests PROVE InOnePlace(q)'
  <2>1. CASE q = r
    <3>1. ~InQueue(r) /\ ~InBatch(r)
      BY <1>2 DEF Inv, NoRequestLost, InOnePlace
    <3> QED
      BY <2>1, <3>1, <1>1, <1>2 DEF InOnePlace, InQueue, InBatch, InResults
  <2>2. CASE q # r
    BY <2>2, <1>1, <1>2
    DEF Inv, NoRequestLost, InOnePlace, InQueue, InBatch, InResults
  <2> QED BY <2>1, <2>2
<1>5. BatchProgress'
  BY <1>1, <1>2 DEF Inv, BatchProgress
<1> QED BY <1>3, <1>4, <1>5 DEF Inv, NoRequestLost

\* Loading a model, the clock and stuttering touch no request.
LEMMA OtherInv ==
  ASSUME Inv, TypeOK', UNCHANGED <<pc, queue, locals, results>>
  PROVE  Inv'
<1>1. NoDuplicates'
  BY DEF Inv, NoRequestLost, NoDuplicates, locals
<1>2. \A q \in Requests : InOnePlace(q)'
  BY DEF Inv, NoRequestLost, InOnePlace, InQueue, InBatch, InResults, locals
<1>3. BatchProgress'
  BY DEF Inv, BatchProgress, locals
<1> QED BY <1>1, <1>2, <1>3 DEF Inv, NoRequestLost

LEMMA StepInv == Inv /\ [Next]_vars => Inv'
<1> SUFFICES ASSUME Inv, [Next]_vars PROVE Inv'
  OBVIOUS
<1> TypeOK'
  BY StepTyped DEF Inv
<1>1. ASSUME NEW r \in Requests, Predict(r) PROVE Inv'
  BY <1>1, PredictInv
<1>2. ASSUME NEW r \in Requests, Poll(r) PROVE Inv'
  BY <1>2, MoveInv DEF Poll, Locations
<1>3. ASSUME NEW r \in Requests, ShouldFlush(r) PROVE Inv'
  <2> DEFINE next == IF BatchReady THEN "flush" ELSE "sleep"
  <2>1. /\ next \in Locations \ {"new", "answered", "publish"} /\ Goto(r, next)
        /\ pc[r] = "check"
        /\ UNCHANGED <<queueVars, locals, results, modelVars, answers, floor>>
    BY <1>3 DEF ShouldFlush, Locations
  <2> HIDE DEF next
  <2> QED BY <2>1, MoveInv
<1>4. ASSUME NEW r \in Requests, Wake(r) PROVE Inv'
  BY <1>4, MoveInv DEF Wake, Locations
<1>5. ASSUME NEW r \in Requests, Flush(r) PROVE Inv'
  BY <1>5, FlushInv
<1>6. ASSUME NEW r \in Requests, RunGroup(r) PROVE Inv'
  BY <1>6, RunGroupInv
<1>7. ASSUME NEW r \in Requests, Publish(r) PROVE Inv'
  BY <1>7, PublishInv
<1>8. ASSUME NEW r \in Requests, Answer(r) PROVE Inv'
  BY <1>8, AnswerInv
<1>9. ASSUME NEW r \in Requests, Cancel(r) PROVE Inv'
  BY <1>9, MoveInv DEF Cancel, Locations
<1>10. ASSUME NEW m \in Models, LoadModel(m) PROVE Inv'
  BY <1>10, OtherInv DEF LoadModel, queueVars
<1>11. CASE Tick \/ SetBack
  BY <1>11, OtherInv DEF Tick, SetBack
<1>12. CASE UNCHANGED vars
  BY <1>12, OtherInv DEF vars, queueVars
<1> QED
  BY <1>1, <1>2, <1>3, <1>4, <1>5, <1>6, <1>7, <1>8, <1>9, <1>10, <1>11, <1>12
  DEF Next, Step

THEOREM InvHolds == Spec => []Inv
  BY InitInv, StepInv, PTL DEF Spec

\* Batching loses no request and serves none twice: infer's callers share the
\* queue, each other's batches and _results, and every request is in exactly
\* one of them until its caller takes the result.
THEOREM RequestsKept == Spec => []NoRequestLost
<1>1. Inv => NoRequestLost
  BY DEF Inv
<1> QED BY <1>1, InvHolds, PTL

------------------------------------------------------------------------------
(* Batches.  Why flush needs no cut at max_batch_size: one coroutine runs   *)
(* at a time, and when the queue is full that is the one that filled it,   *)
(* on its way to flush.                                                    *)

BoundInv ==
    ~LockYields =>
      /\ \A r \in Requests : pc[r] \notin Suspended => running = r
      /\ Len(queue) <= MaxBatch
      /\ Len(queue) = MaxBatch => /\ running \in Requests
                                  /\ InQueue(running)
                                  /\ pc[running] \in {"loop", "check", "flush"}
      /\ \A r \in Requests : Len(batch[r]) <= MaxBatch

LEMMA InitBound == Init => BoundInv
  BY ServingAssumption DEF Init, BoundInv, Suspended

\* On asyncio a coroutine keeps the loop until it is suspended.
LEMMA GotoKeepsLoop ==
  ASSUME TypeOK, ~LockYields, NEW r \in Requests, NEW next \in Locations,
         Goto(r, next), CanRun(r),
         \A q \in Requests : pc[q] \notin Suspended => running = q
  PROVE  /\ running' = IF next \in Suspended THEN Idle ELSE r
         /\ pc'[r] = next
         /\ \A q \in Requests : pc'[q] \notin Suspended => running' = q
<1>1. pc'[r] = next /\ \A q \in Requests \ {r} : pc'[q] = pc[q]
  BY GotoTyped
<1>2. running' = IF next \in Suspended THEN Idle ELSE r
  BY DEF Goto
<1>3. \A q \in Requests \ {r} : pc[q] \in Suspended
  BY ServingAssumption DEF CanRun
<1> QED BY <1>1, <1>2, <1>3

LEMMA PredictBound ==
  ASSUME Inv, BoundInv, ~LockYields, NEW r \in Requests, Predict(r)
  PROVE  BoundInv'
<1>1. running = Idle
  BY DEF Predict, CanRun, Inv, TypeOK, Suspended
<1>2. Len(queue) < MaxBatch
  BY <1>1, ServingAssumption DEF BoundInv, Inv, TypeOK
<1>3. /\ running' = r /\ pc'[r] = "loop"
      /\ \A q \in Requests : pc'[q] \notin Suspended => running' = q
  BY GotoKeepsLoop DEF Predict, Inv, BoundInv, Locations, Suspended
<1>4. /\ Len(queue') = Len(queue) + 1 /\ Len(queue) \in Nat
      /\ batch' = batch /\ queue' = Append(queue, r)
  BY DEF Predict, Inv, TypeOK, locals
<1>5. InQueue(r)'
  BY <1>4, AppendRange DEF Inv, TypeOK, InQueue
<1> QED BY <1>2, <1>3, <1>4, <1>5, ServingAssumption DEF BoundInv

\* Steps that leave the queue alone, of a call that keeps running towards
\* flush, or that runs while the queue is not full.
LEMMA MoveBound ==
  ASSUME Inv, BoundInv, ~LockYields, NEW r \in Requests, NEW next \in Locations,
         Goto(r, next), CanRun(r), UNCHANGED queueVars,
         \A q \in Requests : Len(batch'[q]) <= MaxBatch,
         Len(queue) = MaxBatch => next \in {"loop", "check", "flush"}
  PROVE  BoundInv'
<1>1. /\ running' = IF next \in Suspended THEN Idle ELSE r
      /\ pc'[r] = next
      /\ \A q \in Requests : pc'[q] \notin Suspended => running' = q
  BY GotoKeepsLoop DEF Inv, BoundInv
<1>2. queue' = queue
  BY DEF queueVars
<1>3. ASSUME Len(queue) = MaxBatch
      PROVE  running' = r /\ InQueue(r) /\ next \in {"loop", "check", "flush"}
  BY <1>1, <1>3, ServingAssumption DEF BoundInv, CanRun, Suspended
<1>4. InQueue(r)' <=> InQueue(r)
  BY <1>2 DEF InQueue
<1> QED BY <1>1, <1>2, <1>3, <1>4 DEF BoundInv

LEMMA FlushBound ==
  ASSUME Inv, BoundInv, ~LockYields, NEW r \in Requests, Flush(r)
  PROVE  BoundInv'
<1> DEFINE next == IF queue = <<>> THEN "loop" ELSE "run"
<1>1. \A q \in Requests : pc'[q] \notin Suspended => running' = q
  <2>1. next \in Locations /\ Goto(r, next) /\ CanRun(r)
    BY DEF Flush, Locations
  <2> HIDE DEF next
  <2> QED BY <2>1, GotoKeepsLoop DEF Inv, BoundInv
<1>2. Len(queue') = 0 /\ MaxBatch \in Nat /\ MaxBatch # 0
  BY ServingAssumption DEF Flush
<1>3. \A q \in Requests : batch'[q] \in {queue, batch[q]}
  BY DEF Flush, Inv, TypeOK
<1> QED BY <1>1, <1>2, <1>3 DEF BoundInv

LEMMA StepBound == Inv /\ BoundInv /\ [Next]_vars => BoundInv'
<1> SUFFICES ASSUME Inv, BoundInv, [Next]_vars, ~LockYields PROVE BoundInv'
  BY DEF BoundInv
<1> \A q \in Requests : Len(batch[q]) <= MaxBatch
  BY DEF BoundInv
<1>1. ASSUME NEW r \in Requests, Predict(r) PROVE BoundInv'
  BY <1>1, PredictBound
<1>2. ASSUME NEW r \in Requests, Poll(r) PROVE BoundInv'
  BY <1>2, MoveBound DEF Poll, Locations, locals
<1>3. ASSUME NEW r \in Requests, ShouldFlush(r) PROVE BoundInv'
  <2> DEFINE next == IF BatchReady THEN "flush" ELSE "sleep"
  <2>1. Len(queue) = MaxBatch => BatchReady
    BY ServingAssumption DEF BatchReady, Inv, TypeOK
  <2>2. /\ next \in Locations /\ Goto(r, next) /\ CanRun(r)
        /\ UNCHANGED queueVars /\ batch' = batch
        /\ Len(queue) = MaxBatch => next \in {"loop", "check", "flush"}
    BY <1>3, <2>1 DEF ShouldFlush, Locations, locals
  <2> HIDE DEF next
  <2> QED BY <2>2, MoveBound
<1>4. ASSUME NEW r \in Requests, Wake(r) PROVE BoundInv'
  BY <1>4, MoveBound DEF Wake, CanRun, Locations, locals
<1>5. ASSUME NEW r \in Requests, Flush(r) PROVE BoundInv'
  BY <1>5, FlushBound
\* In the remaining steps the call that runs is not one that filled the queue.
<1>6. ASSUME NEW r \in Requests, RunGroup(r) PROVE BoundInv'
  <2> DEFINE next == IF Left(r) \subseteq Group(r) THEN "publish" ELSE "run"
  <2>1. Len(queue) # MaxBatch
    BY <1>6, ServingAssumption DEF RunGroup, BoundInv, CanRun
  <2>2. /\ next \in Locations /\ Goto(r, next) /\ CanRun(r)
        /\ UNCHANGED queueVars /\ batch' = batch
    BY <1>6 DEF RunGroup, Locations
  <2> HIDE DEF next
  <2> QED BY <2>1, <2>2, MoveBound
<1>7. ASSUME NEW r \in Requests, Publish(r) PROVE BoundInv'
  <2>1. \A q \in Requests : batch'[q] \in {<<>>, batch[q]}
    BY <1>7 DEF Publish, Inv, TypeOK
  <2>2. \A q \in Requests : Len(batch'[q]) <= MaxBatch
    BY <2>1, ServingAssumption
  <2> QED BY <1>7, <2>2, MoveBound DEF Publish, Locations
<1>8. ASSUME NEW r \in Requests, Answer(r) PROVE BoundInv'
  <2>1. InResults(r) /\ pc[r] = "loop"
    BY <1>8 DEF Answer, InResults
  <2>2. ~InQueue(r)
    BY <2>1 DEF Inv, NoRequestLost, InOnePlace
  <2>3. Len(queue) # MaxBatch
    BY <1>8, <2>2, ServingAssumption DEF Answer, BoundInv, CanRun
  <2> QED BY <1>8, <2>3, MoveBound DEF Answer, Locations, locals
<1>9. ASSUME NEW r \in Requests, Cancel(r) PROVE BoundInv'
  <2>1. Len(queue) # MaxBatch
    BY <1>9, ServingAssumption DEF Cancel, BoundInv
  <2> QED BY <1>9, <2>1, MoveBound DEF Cancel, CanRun, Locations, locals
<1>10. CASE UNCHANGED <<pc, running, queue, batch>>
  BY <1>10 DEF BoundInv, InQueue
<1>11. ASSUME NEW m \in Models, LoadModel(m) PROVE BoundInv'
  BY <1>11, <1>10 DEF LoadModel, queueVars, locals
<1>12. CASE Tick \/ SetBack \/ UNCHANGED vars
  BY <1>12, <1>10 DEF Tick, SetBack, vars, queueVars, locals
<1> QED
  BY <1>1, <1>2, <1>3, <1>4, <1>5, <1>6, <1>7, <1>8, <1>9, <1>11, <1>12
  DEF Next, Step

\* On asyncio no batch is larger than max_batch_size although flush takes the
\* whole queue, for any number of calls and any batch size.
THEOREM BatchesBounded == Spec => []BatchBounded
<1>1. BoundInv => BatchBounded
  BY DEF BoundInv, BatchBounded
<1> QED BY <1>1, InitBound, StepBound, InvHolds, PTL DEF Spec

------------------------------------------------------------------------------
(* Answers.                                                                *)

\* Outcomes and NoResult are told apart.
LEMMA OutcomeFields ==
  ASSUME NEW o \in Outcomes
  PROVE  o # NoResult /\ o.ok \in BOOLEAN /\ o.ver \in Nat
<1>1. o # NoResult
  BY ServingAssumption
<1>2. o.ok \in BOOLEAN /\ o.ver \in Nat
  BY DEF Outcomes
<1> QED BY <1>1, <1>2

------------------------------------------------------------------------------
(* The request log.                                                        *)

\* Only a call that is over has a reply.
AnsweredOnce == \A r \in Requests : reply[r] # NoResult => pc[r] = "answered"

LogInv == AnsweredOnce /\ StatsCountAnswers

LEMMA InitLog == Init => LogInv
<1> SUFFICES ASSUME Init PROVE LogInv
  OBVIOUS
<1>1. log = <<>> /\ \A r \in Requests : reply[r] = NoResult
  BY DEF Init, Empty
<1> QED BY <1>1, EmptyRange DEF LogInv, AnsweredOnce, StatsCountAnswers

\* A step that answers nobody leaves the log alone.
LEMMA QuietLog ==
  ASSUME LogInv, UNCHANGED answers,
         \A r \in Requests : pc[r] = "answered" => pc'[r] = "answered"
  PROVE  LogInv'
  BY DEF LogInv, AnsweredOnce, StatsCountAnswers, answers

LEMMA AnswerLog ==
  ASSUME TypeOK, LogInv, NEW r \in Requests, Answer(r)
  PROVE  LogInv'
<1>1. pc'[r] = "answered" /\ \A q \in Requests \ {r} : pc'[q] = pc[q]
  BY GotoTyped DEF Answer, Locations
<1>2. pc[r] = "loop" /\ results[r] \in Outcomes
  BY DEF Answer, TypeOK
<1>3. /\ reply[r] = NoResult
      /\ reply'[r] = results[r]
      /\ \A q \in Requests \ {r} : reply'[q] = reply[q]
  BY <1>2 DEF Answer, TypeOK, LogInv, AnsweredOnce
<1>4. AnsweredOnce'
  BY <1>1, <1>3 DEF LogInv, AnsweredOnce
<1>5. r \notin Range(log)
  BY <1>3 DEF LogInv, StatsCountAnswers
<1>6. CASE results[r].ok
  <2>1. log' = Append(log, r)
    BY <1>6 DEF Answer
  <2>2. Range(log') = Range(log) \cup {r} /\ IsInjective(log')
    BY <2>1, <1>5, AppendRange, AppendInjective
    DEF TypeOK, LogInv, StatsCountAnswers
  <2>3. reply'[r] # NoResult /\ reply'[r].ok
    BY <1>2, <1>3, <1>6, OutcomeFields
  <2> QED BY <2>2, <2>3, <1>3, <1>4 DEF LogInv, StatsCountAnswers
<1>7. CASE ~results[r].ok
  <2>1. log' = log
    BY <1>7 DEF Answer
  <2> QED BY <2>1, <1>3, <1>4, <1>7 DEF LogInv, StatsCountAnswers
<1> QED BY <1>6, <1>7

\* A step of a call that is not over, to a place where it is not over either.
LEMMA MoveLog ==
  ASSUME TypeOK, LogInv, UNCHANGED answers,
         NEW r \in Requests, NEW next \in Locations, Goto(r, next),
         pc[r] # "answered"
  PROVE  LogInv'
<1>1. \A q \in Requests \ {r} : pc'[q] = pc[q]
  BY GotoTyped
<1> QED BY <1>1, QuietLog

LEMMA StepLog == TypeOK /\ LogInv /\ [Next]_vars => LogInv'
<1> SUFFICES ASSUME TypeOK, LogInv, [Next]_vars PROVE LogInv'
  OBVIOUS
<1>1. ASSUME NEW r \in Requests, Predict(r) PROVE LogInv'
  BY <1>1, MoveLog DEF Predict, Locations
<1>2. ASSUME NEW r \in Requests, Poll(r) PROVE LogInv'
  BY <1>2, MoveLog DEF Poll, Locations
<1>3. ASSUME NEW r \in Requests, ShouldFlush(r) PROVE LogInv'
  <2> DEFINE next == IF BatchReady THEN "flush" ELSE "sleep"
  <2>1. next \in Locations /\ Goto(r, next) /\ pc[r] = "check" /\ UNCHANGED answers
    BY <1>3 DEF ShouldFlush, Locations
  <2> HIDE DEF next
  <2> QED BY <2>1, MoveLog
<1>4. ASSUME NEW r \in Requests, Wake(r) PROVE LogInv'
  BY <1>4, MoveLog DEF Wake, Locations
<1>5. ASSUME NEW r \in Requests, Flush(r) PROVE LogInv'
  <2> DEFINE next == IF queue = <<>> THEN "loop" ELSE "run"
  <2>1. next \in Locations /\ Goto(r, next) /\ pc[r] = "flush" /\ UNCHANGED answers
    BY <1>5 DEF Flush, Locations
  <2> HIDE DEF next
  <2> QED BY <2>1, MoveLog
<1>6. ASSUME NEW r \in Requests, RunGroup(r) PROVE LogInv'
  <2> DEFINE next == IF Left(r) \subseteq Group(r) THEN "publish" ELSE "run"
  <2>1. next \in Locations /\ Goto(r, next) /\ pc[r] = "run" /\ UNCHANGED answers
    BY <1>6 DEF RunGroup, Locations
  <2> HIDE DEF next
  <2> QED BY <2>1, MoveLog
<1>7. ASSUME NEW r \in Requests, Publish(r) PROVE LogInv'
  BY <1>7, MoveLog DEF Publish, Locations
<1>8. ASSUME NEW r \in Requests, Answer(r) PROVE LogInv'
  BY <1>8, AnswerLog
<1>9. ASSUME NEW r \in Requests, Cancel(r) PROVE LogInv'
  BY <1>9, MoveLog DEF Cancel, Locations
<1>10. ASSUME NEW m \in Models, LoadModel(m) PROVE LogInv'
  BY <1>10, QuietLog DEF LoadModel
<1>11. CASE Tick \/ SetBack
  BY <1>11, QuietLog DEF Tick, SetBack
<1>12. CASE UNCHANGED vars
  BY <1>12, QuietLog DEF vars
<1> QED
  BY <1>1, <1>2, <1>3, <1>4, <1>5, <1>6, <1>7, <1>8, <1>9, <1>10, <1>11, <1>12
  DEF Next, Step

THEOREM LogHolds == Spec => []LogInv
  BY InitLog, StepLog, TypeCorrect, PTL DEF Spec

\* get_stats counts right: the log holds each call that was answered with an
\* output exactly once, and no call that failed or is pending.
THEOREM StatsCorrect == Spec => []StatsCountAnswers
<1>1. LogInv => StatsCountAnswers
  BY DEF LogInv
<1> QED BY <1>1, LogHolds, PTL
------------------------------------------------------------------------------
(* Versions.  FreshAnswers speaks of replies only; an outcome gets its      *)
(* version when its group is run, so what is inductive also speaks of the   *)
(* locals and of _results, and says that the cache is the latest load.      *)

\* Outcome o, if it is one, is of a load that request r may be answered from.
Fresh(o, r) == o # NoResult => o.ver \in floor[r]..loads[ModelOf[r]]

FreshInv ==
    /\ cache = loads
    /\ \A r \in Requests : /\ floor[r] <= loads[ModelOf[r]]
                           /\ Fresh(results[r], r)
                           /\ Fresh(reply[r], r)
                           /\ \A q \in Requests : Fresh(out[q][r], r)

LEMMA InitFresh == Init => FreshInv
<1> SUFFICES ASSUME Init PROVE FreshInv
  OBVIOUS
<1>1. \A r \in Requests : /\ results[r] = NoResult /\ reply[r] = NoResult
                          /\ \A q \in Requests : out[q][r] = NoResult
  BY DEF Init, Empty
<1>2. \A r \in Requests : floor[r] <= loads[ModelOf[r]]
  BY ServingAssumption DEF Init
<1>3. cache = loads
  BY DEF Init
<1> QED BY <1>1, <1>2, <1>3 DEF FreshInv, Fresh

\* A step that executes nothing and loads nothing keeps every outcome fresh,
\* wherever it moves it, if it moves the floor of requests without one only.
LEMMA QuietFresh ==
  ASSUME FreshInv, UNCHANGED modelVars,
         \A r \in Requests :
           /\ floor'[r] = floor[r]
           /\ Fresh(results'[r], r) /\ Fresh(reply'[r], r)
           /\ \A q \in Requests : Fresh(out'[q][r], r)
  PROVE  FreshInv'
  BY DEF FreshInv, Fresh, modelVars

LEMMA PredictFresh ==
  ASSUME Inv, LogInv, FreshInv, NEW r \in Requests, Predict(r)
  PROVE  FreshInv'
<1>1. pc[r] = "new" /\ UNCHANGED <<locals, results, modelVars, answers>>
  BY DEF Predict
<1>2. reply[r] = NoResult
  BY <1>1 DEF LogInv, AnsweredOnce
<1>3. ~InBatch(r) /\ results[r] = NoResult
  BY <1>1 DEF Inv, NoRequestLost, InOnePlace, InResults
<1>4. \A q \in Requests : out[q][r] = NoResult
  BY <1>3 DEF Inv, BatchProgress, InBatch
<1>5. /\ floor'[r] = loads[ModelOf[r]]
      /\ \A q \in Requests \ {r} : floor'[q] = floor[q]
  BY DEF Predict, Inv, TypeOK
<1>6. loads[ModelOf[r]] \in Nat
  BY ServingAssumption DEF Inv, TypeOK
<1>7. /\ out' = out /\ results' = results /\ reply' = reply
      /\ cache' = cache /\ loads' = loads
  BY <1>1 DEF locals, modelVars, answers
<1>8. ASSUME NEW q \in Requests
      PROVE  (/\ floor[q] <= loads[ModelOf[q]]
              /\ Fresh(results[q], q) /\ Fresh(reply[q], q)
              /\ \A p \in Requests : Fresh(out[p][q], q))'
  <2>1. CASE q = r
    BY <2>1, <1>2, <1>3, <1>4, <1>5, <1>6, <1>7 DEF Fresh
  <2>2. CASE q # r
    BY <2>2, <1>5, <1>7 DEF FreshInv, Fresh
  <2> QED BY <2>1, <2>2
<1> QED BY <1>7, <1>8 DEF FreshInv

\* What RunGroup writes: outcomes of the load in the cache, for the group.
LEMMA RunGroupOut ==
  ASSUME TypeOK, NEW r \in Requests, RunGroup(r)
  PROVE  /\ \A p \in Requests \ {r} : out'[p] = out[p]
         /\ \A q \in Requests \ Group(r) : out'[r][q] = out[r][q]
         /\ \A q \in Group(r) : out'[r][q].ver = cache[ModelOf[q]]
<1>1. PICK raised \in SUBSET Group(r) :
        out' = [out EXCEPT ![r] = [x \in Requests |->
                  IF x \in Group(r)
                  THEN [ok |-> cache[NextModel(r)] > 0 /\ x \notin raised,
                        ver |-> cache[NextModel(r)]]
                  ELSE out[r][x]]]
  BY DEF RunGroup
<1>2. \A q \in Group(r) : q \in Requests /\ ModelOf[q] = NextModel(r)
  BY DEF Group, Range, TypeOK
<1> QED BY <1>1, <1>2 DEF TypeOK

LEMMA RunGroupFresh ==
  ASSUME Inv, FreshInv, NEW r \in Requests, RunGroup(r)
  PROVE  FreshInv'
<1>1. UNCHANGED <<results, modelVars, answers, floor>>
  BY DEF RunGroup
<1>2. ASSUME NEW p \in Requests, NEW q \in Requests
      PROVE  Fresh(out'[p][q], q)
  <2>1. CASE p = r /\ q \in Group(r)
    <3>1. out'[p][q].ver = loads[ModelOf[q]]
      BY <2>1, RunGroupOut DEF Inv, FreshInv
    <3>2. floor[q] <= loads[ModelOf[q]] /\ floor[q] \in Nat
          /\ loads[ModelOf[q]] \in Nat
      BY ServingAssumption DEF FreshInv, Inv, TypeOK
    <3> QED BY <3>1, <3>2 DEF Fresh
  <2>2. CASE ~(p = r /\ q \in Group(r))
    BY <2>2, RunGroupOut DEF Inv, FreshInv
  <2> QED BY <2>1, <2>2
<1>3. \A q \in Requests : Fresh(results'[q], q) /\ Fresh(reply'[q], q)
  BY <1>1 DEF FreshInv, answers
<1> QED BY <1>1, <1>2, <1>3, QuietFresh

LEMMA PublishFresh ==
  ASSUME Inv, FreshInv, NEW r \in Requests, Publish(r)
  PROVE  FreshInv'
<1>1. UNCHANGED <<modelVars, answers, floor>>
  BY DEF Publish
<1>2. \A q \in Requests : results'[q] \in {out[r][q], results[q]}
  BY DEF Publish
<1>3. \A p, q \in Requests : out'[p][q] \in {out[p][q], NoResult}
  BY DEF Publish, Inv, TypeOK, Empty
<1>4. \A q \in Requests : Fresh(results'[q], q) /\ Fresh(reply'[q], q)
  BY <1>1, <1>2 DEF FreshInv, answers
<1>5. \A p, q \in Requests : Fresh(out'[p][q], q)
  BY <1>3 DEF FreshInv, Fresh
<1> QED BY <1>1, <1>4, <1>5, QuietFresh

LEMMA AnswerFresh ==
  ASSUME Inv, FreshInv, NEW r \in Requests, Answer(r)
  PROVE  FreshInv'
<1>1. UNCHANGED <<locals, modelVars, floor>>
  BY DEF Answer
<1>2. \A q \in Requests : /\ results'[q] \in {results[q], NoResult}
                          /\ reply'[q] \in {results[q], reply[q]}
  BY DEF Answer, Inv, TypeOK
<1>3. \A q \in Requests : Fresh(results'[q], q) /\ Fresh(reply'[q], q)
  BY <1>2 DEF FreshInv, Fresh
<1>4. \A p, q \in Requests : Fresh(out'[p][q], q)
  BY <1>1 DEF FreshInv, locals
<1> QED BY <1>1, <1>3, <1>4, QuietFresh

\* A load makes no outcome stale: it raises the upper bound only.
LEMMA LoadFresh ==
  ASSUME Inv, FreshInv, NEW m \in Models, LoadModel(m)
  PROVE  FreshInv'
<1>1. UNCHANGED <<locals, results, answers, floor>>
  BY DEF LoadModel
<1>2. cache' = loads'
  BY DEF LoadModel, FreshInv, Inv, TypeOK
<1>3. \A r \in Requests : /\ loads[ModelOf[r]] \in Nat /\ floor[r] \in Nat
                          /\ loads'[ModelOf[r]] \in Nat
                          /\ loads'[ModelOf[r]] >= loads[ModelOf[r]]
  BY ServingAssumption DEF LoadModel, Inv, TypeOK
<1>4. ASSUME NEW r \in Requests, NEW o \in Outcomes \cup {NoResult}, Fresh(o, r)
      PROVE  o # NoResult => o.ver \in floor[r]..loads'[ModelOf[r]]
  <2>1. CASE o # NoResult
    <3>1. o.ver \in Nat
      BY <2>1, OutcomeFields
    <3> QED BY <2>1, <3>1, <1>3, <1>4 DEF Fresh
  <2> QED BY <2>1
<1>5. \A r \in Requests : (floor[r] <= loads[ModelOf[r]])'
  BY <1>1, <1>3 DEF FreshInv
<1>6. \A r \in Requests : Fresh(results[r], r)' /\ Fresh(reply[r], r)'
  BY <1>1, <1>4 DEF FreshInv, Fresh, Inv, TypeOK, answers
<1>7. \A r, q \in Requests : Fresh(out[q][r], r)'
  BY <1>1, <1>4 DEF FreshInv, Fresh, Inv, TypeOK, locals
<1> QED BY <1>2, <1>5, <1>6, <1>7 DEF FreshInv

\* The steps that change no outcome, no load and no floor.
LEMMA IdleFresh ==
  ASSUME FreshInv, UNCHANGED <<out, results, modelVars, answers, floor>>
  PROVE  FreshInv'
  BY DEF FreshInv, Fresh, modelVars, answers

LEMMA StepFresh == Inv /\ LogInv /\ FreshInv /\ [Next]_vars => FreshInv'
<1> SUFFICES ASSUME Inv, LogInv, FreshInv, [Next]_vars PROVE FreshInv'
  OBVIOUS
<1>1. ASSUME NEW r \in Requests, Predict(r) PROVE FreshInv'
  BY <1>1, PredictFresh
<1>2. ASSUME NEW r \in Requests,
             Poll(r) \/ ShouldFlush(r) \/ Wake(r) \/ Flush(r) \/ Cancel(r)
      PROVE FreshInv'
  BY <1>2, IdleFresh DEF Poll, ShouldFlush, Wake, Flush, Cancel, locals
<1>3. ASSUME NEW r \in Requests, RunGroup(r) PROVE FreshInv'
  BY <1>3, RunGroupFresh
<1>4. ASSUME NEW r \in Requests, Publish(r) PROVE FreshInv'
  BY <1>4, PublishFresh
<1>5. ASSUME NEW r \in Requests, Answer(r) PROVE FreshInv'
  BY <1>5, AnswerFresh
<1>6. ASSUME NEW m \in Models, LoadModel(m) PROVE FreshInv'
  BY <1>6, LoadFresh
<1>7. CASE Tick \/ SetBack \/ UNCHANGED vars
  BY <1>7, IdleFresh DEF Tick, SetBack, vars, locals
<1> QED BY <1>1, <1>2, <1>3, <1>4, <1>5, <1>6, <1>7 DEF Next, Step

\* A call made after load_model returned is never answered from an earlier
\* load, whoever runs its batch and however long it waits there.
THEOREM AnswersFresh == Spec => []FreshAnswers
<1>1. FreshInv => FreshAnswers
  BY DEF FreshInv, Fresh, FreshAnswers
<1> QED BY <1>1, InitFresh, StepFresh, InvHolds, LogHolds, PTL DEF Spec

------------------------------------------------------------------------------
(* One version per group.                                                  *)

LEMMA StepGroup ==
  Inv /\ OneVersionPerGroup /\ [Next]_vars => OneVersionPerGroup'
<1> SUFFICES ASSUME Inv, OneVersionPerGroup, [Next]_vars
             PROVE  OneVersionPerGroup'
  OBVIOUS
<1>1. CASE out' = out
  BY <1>1 DEF OneVersionPerGroup
<1>2. ASSUME NEW r \in Requests, RunGroup(r) PROVE OneVersionPerGroup'
  <2>1. /\ \A p \in Requests \ {r} : out'[p] = out[p]
        /\ \A q \in Requests \ Group(r) : out'[r][q] = out[r][q]
        /\ \A q \in Group(r) : out'[r][q].ver = cache[ModelOf[q]]
    BY <1>2, RunGroupOut DEF Inv
  <2>2. ASSUME NEW p \in Requests, NEW q \in Requests,
               ModelOf[p] = ModelOf[q], p \in Group(r), out'[r][q] # NoResult
        PROVE  q \in Group(r)
    <3>1. CASE q \in Group(r)
      BY <3>1
    <3>2. CASE q \notin Group(r)
      <4>1. q \in Range(batch[r])
        BY <3>2, <2>1, <2>2 DEF Inv, BatchProgress
      <4> QED BY <4>1, <2>2 DEF Group
    <3> QED BY <3>1, <3>2
  <2>3. ASSUME NEW p \in Requests, NEW q \in Requests,
               ModelOf[p] = ModelOf[q],
               out'[r][p] # NoResult, out'[r][q] # NoResult
        PROVE  out'[r][p].ver = out'[r][q].ver
    <3>1. CASE p \in Group(r) \/ q \in Group(r)
      BY <3>1, <2>1, <2>2, <2>3
    <3>2. CASE p \notin Group(r) /\ q \notin Group(r)
      BY <3>2, <2>1, <2>3 DEF OneVersionPerGroup
    <3> QED BY <3>1, <3>2
  <2> QED BY <2>1, <2>3 DEF OneVersionPerGroup
<1>3. ASSUME NEW r \in Requests, Publish(r) PROVE OneVersionPerGroup'
  <2>1. /\ \A q \in Requests : out'[r][q] = NoResult
        /\ \A p \in Requests \ {r} : out'[p] = out[p]
    BY <1>3 DEF Publish, Inv, TypeOK, Empty
  <2> QED BY <2>1 DEF OneVersionPerGroup
<1> QED
  BY <1>1, <1>2, <1>3
  DEF Next, Step, Predict, Poll, ShouldFlush, Wake, Flush, Answer, Cancel,
      LoadModel, Tick, SetBack, vars, locals

\* The requests of a batch that name one model are served by one load of it,
\* even if the model is reloaded, or other batches run, between its groups.
THEOREM GroupsConsistent == Spec => []OneVersionPerGroup
<1>1. Init => OneVersionPerGroup
  BY DEF Init, Empty, OneVersionPerGroup
<1> QED BY <1>1, StepGroup, InvHolds, PTL DEF Spec

------------------------------------------------------------------------------
(* Groups.  That no request is executed twice rests on the model chosen     *)
(* next being one whose group has not been run.                            *)

\* A group has outcomes for all of its requests or for none.
GroupsWhole ==
    \A r, p, q \in Requests :
      /\ p \in Range(batch[r]) /\ q \in Range(batch[r])
      /\ ModelOf[p] = ModelOf[q]
      /\ out[r][p] # NoResult
      => out[r][q] # NoResult

\* A call that runs a batch has a group left to run.
RunUnserved ==
    \A r \in Requests :
      pc[r] = "run" => \E q \in Range(batch[r]) : out[r][q] = NoResult

GroupInv == GroupsWhole /\ RunUnserved

\* The first unserved request's model is the one `by_model' has next.
LEMMA NextModelUnserved ==
  ASSUME TypeOK, RunUnserved, NEW r \in Requests, pc[r] = "run"
  PROVE  \E q \in Range(batch[r]) :
           out[r][q] = NoResult /\ ModelOf[q] = NextModel(r)
<1> DEFINE U == Unserved(r)
           First(i) == i \in U /\ \A j \in U : i <= j
<1>1. U \subseteq Nat /\ U \subseteq DOMAIN batch[r]
  BY DEF Unserved, TypeOK
<1>2. U # {}
  BY DEF RunUnserved, Unserved, Range
<1>3. \E i \in U : \A j \in U : ~(<<j, i>> \in OpToRel(<, Nat))
  BY <1>1, <1>2, NatLessThanWellFounded, WFMin
<1>4. \E i \in U : \A j \in U : ~(j < i)
  BY <1>1, <1>3 DEF OpToRel
<1>5. \E i : First(i)
  BY <1>1, <1>4
<1>6. DEFINE first == CHOOSE i \in U : \A j \in U : i <= j
<1>7. first \in U
  BY <1>5
<1>8. out[r][batch[r][first]] = NoResult /\ first \in DOMAIN batch[r]
  BY <1>7, <1>1 DEF Unserved
<1>9. ModelOf[batch[r][first]] = NextModel(r)
  BY DEF NextModel
<1> HIDE DEF first
<1> QED BY <1>8, <1>9 DEF Range

LEMMA InitGroup == Init => GroupInv
<1> SUFFICES ASSUME Init PROVE GroupInv
  OBVIOUS
<1>1. \A r \in Requests : batch[r] = <<>> /\ pc[r] = "new"
  BY DEF Init
<1> QED BY <1>1, EmptyRange DEF GroupInv, GroupsWhole, RunUnserved

\* A step that leaves the locals alone and starts no run.
LEMMA QuietGroup ==
  ASSUME GroupInv, UNCHANGED locals,
         \A r \in Requests : pc'[r] = "run" => pc[r] = "run"
  PROVE  GroupInv'
  BY DEF GroupInv, GroupsWhole, RunUnserved, locals

LEMMA MoveGroup ==
  ASSUME TypeOK, GroupInv, UNCHANGED locals,
         NEW r \in Requests, NEW next \in Locations, Goto(r, next), next # "run"
  PROVE  GroupInv'
<1>1. pc'[r] = next /\ \A q \in Requests \ {r} : pc'[q] = pc[q]
  BY GotoTyped
<1> QED BY <1>1, QuietGroup

LEMMA FlushGroup ==
  ASSUME Inv, GroupInv, NEW r \in Requests, Flush(r)
  PROVE  GroupInv'
<1> DEFINE next == IF queue = <<>> THEN "loop" ELSE "run"
<1>1. pc'[r] = next /\ \A q \in Requests \ {r} : pc'[q] = pc[q]
  <2>1. next \in Locations /\ Goto(r, next)
    BY DEF Flush, Locations
  <2> HIDE DEF next
  <2> QED BY <2>1, GotoTyped DEF Inv
<1>2. /\ batch[r] = <<>> /\ out' = out /\ batch'[r] = queue
      /\ \A q \in Requests \ {r} : batch'[q] = batch[q]
  BY DEF Flush, Inv, TypeOK
<1>3. \A q \in Requests : out[r][q] = NoResult
  BY <1>2, EmptyRange DEF Inv, BatchProgress
<1>4. GroupsWhole'
  BY <1>2, <1>3 DEF GroupInv, GroupsWhole
<1>5. ASSUME NEW p \in Requests, pc'[p] = "run"
      PROVE  \E q \in Range(batch'[p]) : out'[p][q] = NoResult
  <2>1. CASE p # r
    BY <2>1, <1>1, <1>2, <1>5 DEF GroupInv, RunUnserved
  <2>2. CASE p = r
    <3>1. queue # <<>> /\ queue \in Seq(Requests)
      BY <2>2, <1>1, <1>5 DEF Inv, TypeOK
    <3>2. 1 \in DOMAIN queue /\ queue[1] \in Requests
      BY <3>1
    <3>3. queue[1] \in Range(queue)
      BY <3>2 DEF Range
    <3> QED BY <2>2, <3>2, <3>3, <1>2, <1>3
  <2> QED BY <2>1, <2>2
<1> QED BY <1>4, <1>5 DEF GroupInv, RunUnserved

\* RunGroup gives an outcome to every request of the group.
LEMMA RunGroupServes ==
  ASSUME TypeOK, NEW r \in Requests, RunGroup(r), NEW q \in Group(r)
  PROVE  q \in Requests /\ out'[r][q] # NoResult
<1>1. PICK raised \in SUBSET Group(r) :
        out' = [out EXCEPT ![r] = [x \in Requests |->
                  IF x \in Group(r)
                  THEN [ok |-> cache[NextModel(r)] > 0 /\ x \notin raised,
                        ver |-> cache[NextModel(r)]]
                  ELSE out[r][x]]]
  BY DEF RunGroup
<1>2. q \in Requests /\ ModelOf[q] = NextModel(r)
  BY DEF Group, Range, TypeOK
<1> DEFINE b == cache[NextModel(r)] > 0 /\ q \notin raised
           v == cache[NextModel(r)]
<1>3. out'[r][q] = [ok |-> b, ver |-> v]
  BY <1>1, <1>2 DEF TypeOK
<1>4. b \in BOOLEAN /\ v \in Nat
  BY <1>2, ServingAssumption DEF TypeOK
<1> HIDE DEF b, v
<1>5. [ok |-> b, ver |-> v] \in Outcomes
  BY <1>4 DEF Outcomes
<1> QED BY <1>2, <1>3, <1>5, OutcomeFields

LEMMA RunGroupGroup ==
  ASSUME Inv, GroupInv, NEW r \in Requests, RunGroup(r)
  PROVE  GroupInv'
<1> DEFINE next == IF Left(r) \subseteq Group(r) THEN "publish" ELSE "run"
<1>1. pc'[r] = next /\ \A q \in Requests \ {r} : pc'[q] = pc[q]
  <2>1. next \in Locations /\ Goto(r, next)
    BY DEF RunGroup, Locations
  <2> HIDE DEF next
  <2> QED BY <2>1, GotoTyped DEF Inv
<1>2. batch' = batch
  BY DEF RunGroup
<1>3. /\ \A p \in Requests \ {r} : out'[p] = out[p]
      /\ \A q \in Requests \ Group(r) : out'[r][q] = out[r][q]
      /\ \A q \in Group(r) : out'[r][q] # NoResult
  BY RunGroupOut, RunGroupServes DEF Inv
<1>4. ASSUME NEW p \in Requests, NEW q \in Requests,
             p \in Range(batch[r]), q \in Range(batch[r]),
             ModelOf[p] = ModelOf[q], out'[r][p] # NoResult
      PROVE  out'[r][q] # NoResult
  <2>1. CASE q \in Group(r)
    BY <2>1, <1>3
  <2>2. CASE q \notin Group(r)
    <3>1. p \notin Group(r)
      BY <2>2, <1>4 DEF Group
    <3> QED BY <3>1, <2>2, <1>3, <1>4 DEF GroupInv, GroupsWhole
  <2> QED BY <2>1, <2>2
<1>5. GroupsWhole'
  BY <1>2, <1>3, <1>4 DEF GroupInv, GroupsWhole
<1>6. ASSUME NEW p \in Requests, pc'[p] = "run"
      PROVE  \E q \in Range(batch'[p]) : out'[p][q] = NoResult
  <2>1. CASE p # r
    BY <2>1, <1>1, <1>2, <1>3, <1>6 DEF GroupInv, RunUnserved
  <2>2. CASE p = r
    <3>1. ~(Left(r) \subseteq Group(r))
      BY <2>2, <1>1, <1>6
    <3>2. PICK q \in Left(r) : q \notin Group(r)
      BY <3>1
    <3>3. q \in Range(batch[r]) /\ out[r][q] = NoResult
      BY <3>2 DEF Left, Unserved, Range
    <3>4. q \in Requests
      BY <3>3 DEF Inv, TypeOK, Range
    <3> QED BY <2>2, <3>2, <3>3, <3>4, <1>2, <1>3
  <2> QED BY <2>1, <2>2
<1> QED BY <1>5, <1>6 DEF GroupInv, RunUnserved

LEMMA PublishGroup ==
  ASSUME Inv, GroupInv, NEW r \in Requests, Publish(r)
  PROVE  GroupInv'
<1>1. pc'[r] = "loop" /\ \A q \in Requests \ {r} : pc'[q] = pc[q]
  BY GotoTyped DEF Publish, Locations, Inv
<1>2. /\ batch'[r] = <<>> /\ \A p \in Requests \ {r} : batch'[p] = batch[p]
      /\ \A p \in Requests \ {r} : out'[p] = out[p]
  BY DEF Publish, Inv, TypeOK
<1> QED BY <1>1, <1>2, EmptyRange DEF GroupInv, GroupsWhole, RunUnserved

LEMMA StepGroups == Inv /\ GroupInv /\ [Next]_vars => GroupInv'
<1> SUFFICES ASSUME Inv, GroupInv, [Next]_vars PROVE GroupInv'
  OBVIOUS
<1> TypeOK
  BY DEF Inv
<1>1. ASSUME NEW r \in Requests,
             Predict(r) \/ Poll(r) \/ Wake(r) \/ Answer(r) \/ Cancel(r)
      PROVE  GroupInv'
  BY <1>1, MoveGroup DEF Predict, Poll, Wake, Answer, Cancel, Locations
<1>2. ASSUME NEW r \in Requests, ShouldFlush(r) PROVE GroupInv'
  <2> DEFINE next == IF BatchReady THEN "flush" ELSE "sleep"
  <2>1. next \in Locations \ {"run"} /\ Goto(r, next) /\ UNCHANGED locals
    BY <1>2 DEF ShouldFlush, Locations
  <2> HIDE DEF next
  <2> QED BY <2>1, MoveGroup
<1>3. ASSUME NEW r \in Requests, Flush(r) PROVE GroupInv'
  BY <1>3, FlushGroup
<1>4. ASSUME NEW r \in Requests, RunGroup(r) PROVE GroupInv'
  BY <1>4, RunGroupGroup
<1>5. ASSUME NEW r \in Requests, Publish(r) PROVE GroupInv'
  BY <1>5, PublishGroup
<1>6. ASSUME NEW m \in Models, LoadModel(m) PROVE GroupInv'
  BY <1>6, QuietGroup DEF LoadModel
<1>7. CASE Tick \/ SetBack \/ UNCHANGED vars
  BY <1>7, QuietGroup DEF Tick, SetBack, vars
<1> QED BY <1>1, <1>2, <1>3, <1>4, <1>5, <1>6, <1>7 DEF Next, Step

------------------------------------------------------------------------------
(* Where outcomes are.                                                     *)

AllInv == Inv /\ LogInv /\ FreshInv /\ GroupInv

LEMMA AllInvHolds == Spec => []AllInv
<1>1. Init => FreshInv /\ GroupInv
  BY InitFresh, InitGroup
<1>2. Inv /\ LogInv /\ FreshInv /\ GroupInv /\ [Next]_vars
        => FreshInv' /\ GroupInv'
  BY StepFresh, StepGroups
<1> QED BY <1>1, <1>2, InvHolds, LogHolds, PTL DEF Spec, AllInv

\* A request has at most one outcome, and Outcome finds it.
OutcomeFound ==
    \A r \in Requests :
      /\ reply[r] # NoResult => Outcome(r) = reply[r]
      /\ results[r] # NoResult => Outcome(r) = results[r]
      /\ \A q \in Requests : out[q][r] # NoResult => Outcome(r) = out[q][r]
      /\ (/\ reply[r] = NoResult /\ results[r] = NoResult
          /\ \A q \in Requests : out[q][r] = NoResult) => Outcome(r) = NoResult

LEMMA OneOutcome == AllInv => OutcomeFound
<1> SUFFICES ASSUME AllInv, NEW r \in Requests
             PROVE  /\ reply[r] # NoResult => Outcome(r) = reply[r]
                    /\ results[r] # NoResult => Outcome(r) = results[r]
                    /\ \A q \in Requests :
                         out[q][r] # NoResult => Outcome(r) = out[q][r]
                    /\ (/\ reply[r] = NoResult /\ results[r] = NoResult
                        /\ \A q \in Requests : out[q][r] = NoResult)
                       => Outcome(r) = NoResult
  BY DEF OutcomeFound
<1>1. reply[r] # NoResult => Outcome(r) = reply[r]
  BY DEF Outcome
<1>2. ASSUME results[r] # NoResult PROVE reply[r] = NoResult
  BY <1>2 DEF AllInv, LogInv, AnsweredOnce, Inv, NoRequestLost, InOnePlace,
              InResults
<1>3. ASSUME NEW q \in Requests, out[q][r] # NoResult
      PROVE  /\ reply[r] = NoResult /\ results[r] = NoResult
             /\ \A p \in Requests : out[p][r] # NoResult => p = q
  <2>1. \A p \in Requests : out[p][r] # NoResult => r \in Range(batch[p])
    BY DEF AllInv, Inv, BatchProgress
  <2>2. InBatch(r)
    BY <1>3, <2>1 DEF InBatch
  <2>3. results[r] = NoResult /\ pc[r] # "answered"
    BY <2>2 DEF AllInv, Inv, NoRequestLost, InOnePlace, InResults
  <2>4. reply[r] = NoResult
    BY <2>3 DEF AllInv, LogInv, AnsweredOnce
  <2> QED
    BY <1>3, <2>1, <2>3, <2>4 DEF AllInv, Inv, NoRequestLost, NoDuplicates
<1>4. ASSUME NEW q \in Requests, out[q][r] # NoResult
      PROVE  Outcome(r) = out[q][r]
  <2>1. (CHOOSE p \in Requests : out[p][r] # NoResult) = q
    BY <1>3, <1>4
  <2> QED BY <2>1, <1>3, <1>4 DEF Outcome
<1> QED BY <1>1, <1>2, <1>4 DEF Outcome

LEMMA OneOutcomeNext == AllInv' => OutcomeFound'
  BY OneOutcome, PTL

\* A request of the group that RunGroup runs has no outcome yet.
LEMMA GroupUnserved ==
  ASSUME AllInv, NEW r \in Requests, pc[r] = "run", NEW q \in Group(r)
  PROVE  q \in Requests /\ out[r][q] = NoResult /\ Outcome(q) = NoResult
<1>1. /\ q \in Requests /\ q \in Range(batch[r])
      /\ ModelOf[q] = NextModel(r)
  BY DEF Group, Range, AllInv, Inv, TypeOK
<1>2. PICK p \in Range(batch[r]) :
        out[r][p] = NoResult /\ ModelOf[p] = NextModel(r)
  BY NextModelUnserved DEF AllInv, Inv, GroupInv
<1>3. p \in Requests
  BY <1>2 DEF Range, AllInv, Inv, TypeOK
<1>4. out[r][q] = NoResult
  BY <1>1, <1>2, <1>3 DEF AllInv, GroupInv, GroupsWhole
<1>5. results[q] = NoResult /\ pc[q] # "answered"
  BY <1>1 DEF InBatch, AllInv, Inv, NoRequestLost, InOnePlace, InResults
<1>6. reply[q] = NoResult
  BY <1>1, <1>5 DEF AllInv, LogInv, AnsweredOnce
<1>7. \A p_1 \in Requests : out[p_1][q] = NoResult
  BY <1>1, <1>4
  DEF AllInv, Inv, BatchProgress, NoRequestLost, NoDuplicates
<1> QED BY <1>1, <1>4, <1>5, <1>6, <1>7, OneOutcome DEF OutcomeFound

------------------------------------------------------------------------------
(* What each step does to the outcomes.                                    *)

\* Publish and Answer move outcomes and change none.
LEMMA PublishOutcome ==
  ASSUME AllInv, AllInv', NEW r \in Requests, Publish(r), NEW q \in Requests
  PROVE  Outcome(q)' = Outcome(q)
<1>1. OutcomeFound /\ OutcomeFound'
  BY OneOutcome, OneOutcomeNext
<1>2. /\ reply'[q] = reply[q]
      /\ results'[q] = IF out[r][q] # NoResult THEN out[r][q] ELSE results[q]
      /\ out'[r][q] = NoResult
      /\ \A p \in Requests \ {r} : out'[p][q] = out[p][q]
  BY DEF Publish, AllInv, Inv, TypeOK, Empty, answers
<1>3. CASE out[r][q] # NoResult
  BY <1>1, <1>2, <1>3 DEF OutcomeFound
<1>4. CASE out[r][q] = NoResult
  <2>1. \A p \in Requests : out'[p][q] = out[p][q]
    BY <1>2, <1>4
  <2>2. reply'[q] = reply[q] /\ results'[q] = results[q]
    BY <1>2, <1>4
  <2> QED BY <1>1, <2>1, <2>2 DEF OutcomeFound
<1> QED BY <1>3, <1>4

LEMMA AnswerOutcome ==
  ASSUME AllInv, AllInv', NEW r \in Requests, Answer(r), NEW q \in Requests
  PROVE  Outcome(q)' = Outcome(q)
<1>1. OutcomeFound /\ OutcomeFound'
  BY OneOutcome, OneOutcomeNext
<1>2. /\ results[r] # NoResult /\ reply'[r] = results[r]
      /\ \A p \in Requests \ {r} : reply'[p] = reply[p] /\ results'[p] = results[p]
      /\ out' = out
  BY DEF Answer, AllInv, Inv, TypeOK, locals
<1>3. CASE q = r
  BY <1>1, <1>2, <1>3 DEF OutcomeFound
<1>4. CASE q # r
  BY <1>1, <1>2, <1>4 DEF OutcomeFound
<1> QED BY <1>3, <1>4

\* RunGroup gives the group its outcomes and changes no other.
LEMMA RunGroupOutcome ==
  ASSUME AllInv, AllInv', NEW r \in Requests, RunGroup(r), NEW q \in Requests
  PROVE  Outcome(q)' = IF q \in Group(r) THEN out'[r][q] ELSE Outcome(q)
<1>1. OutcomeFound /\ OutcomeFound'
  BY OneOutcome, OneOutcomeNext
<1>2. CASE q \in Group(r)
  BY <1>1, <1>2, RunGroupServes DEF AllInv, Inv, OutcomeFound
<1>3. CASE q \notin Group(r)
  <2>1. \A p \in Requests : out'[p][q] = out[p][q]
    BY <1>3, RunGroupOut DEF AllInv, Inv
  <2>2. reply' = reply /\ results' = results
    BY DEF RunGroup, answers
  <2> QED BY <1>1, <1>3, <2>1, <2>2 DEF OutcomeFound
<1> QED BY <1>2, <1>3

\* The steps that touch no outcome.
LEMMA QuietOutcome ==
  ASSUME UNCHANGED <<out, results, reply>>, NEW q
  PROVE  Outcome(q)' = Outcome(q)
  BY DEF Outcome

LEMMA OutcomeStep ==
  ASSUME AllInv, AllInv', [Next]_vars, NEW q \in Requests,
         Outcome(q) # NoResult
  PROVE  Outcome(q)' = Outcome(q)
<1>1. ASSUME NEW r \in Requests, Publish(r) PROVE Outcome(q)' = Outcome(q)
  BY <1>1, PublishOutcome
<1>2. ASSUME NEW r \in Requests, Answer(r) PROVE Outcome(q)' = Outcome(q)
  BY <1>2, AnswerOutcome
<1>3. ASSUME NEW r \in Requests, RunGroup(r) PROVE Outcome(q)' = Outcome(q)
  <2>1. q \notin Group(r)
    BY <1>3, GroupUnserved DEF RunGroup
  <2> QED BY <1>3, <2>1, RunGroupOutcome
<1>4. CASE UNCHANGED <<out, results, reply>>
  BY <1>4, QuietOutcome
<1>5. ASSUME NEW r \in Requests,
             Predict(r) \/ Poll(r) \/ ShouldFlush(r) \/ Wake(r) \/ Flush(r)
               \/ Cancel(r)
      PROVE  UNCHANGED <<out, results, reply>>
  BY <1>5
  DEF Predict, Poll, ShouldFlush, Wake, Flush, Cancel, locals, answers
<1>6. ASSUME NEW m \in Models, LoadModel(m)
      PROVE  UNCHANGED <<out, results, reply>>
  BY <1>6 DEF LoadModel, locals, answers
<1>7. CASE Tick \/ SetBack \/ UNCHANGED vars
  BY <1>7, <1>4 DEF Tick, SetBack, vars, locals, answers
<1> QED BY <1>1, <1>2, <1>3, <1>4, <1>5, <1>6, <1>7 DEF Next, Step

\* An outcome, once computed, is neither lost nor replaced, whatever other
\* batches publish and whoever is cancelled.
THEOREM OutcomesStable == Spec => OutcomeStable
<1>1. AllInv /\ AllInv' /\ [Next]_vars
        => [\A r \in Requests :
              Outcome(r) # NoResult => Outcome(r)' = Outcome(r)]_vars
  BY OutcomeStep
<1> QED BY <1>1, AllInvHolds, PTL DEF Spec, OutcomeStable
------------------------------------------------------------------------------
(* The refinement.  Predict is Submit, the run of a group is Execute,       *)
(* Answer is Reply, Cancel is GiveUp and LoadModel is Load; every other     *)
(* step is invisible to the callers.                                       *)

LEMMA InitService == Init => Service!Init
<1> SUFFICES ASSUME Init PROVE Service!Init
  OBVIOUS
<1>1. \A r \in Requests : Caller(r) = "new"
  BY DEF Init, Caller
<1>2. \A r \in Requests : Outcome(r) = NoResult
  BY DEF Init, Empty, Outcome
<1>3. loads = [m \in Models |-> 0]
  BY DEF Init
<1> QED BY <1>1, <1>2, <1>3 DEF Service!Init

\* What a step of call r shows to its caller and to the others.
LEMMA GotoCaller ==
  ASSUME TypeOK, NEW r \in Requests, NEW next \in Locations, Goto(r, next)
  PROVE  /\ Caller(r)' = CASE next = "new"       -> "new"
                           [] next = "answered"  -> "answered"
                           [] next = "cancelled" -> "gone"
                           [] OTHER              -> "waiting"
         /\ \A q \in Requests \ {r} : Caller(q)' = Caller(q)
<1>1. pc'[r] = next /\ \A q \in Requests \ {r} : pc'[q] = pc[q]
  BY GotoTyped
<1> QED BY <1>1 DEF Caller

\* Steps of a waiting call that leave it waiting and change no outcome.
LEMMA WaitingStep ==
  ASSUME TypeOK, NEW r \in Requests, NEW next \in Locations, Goto(r, next),
         pc[r] \notin {"new", "answered", "cancelled"},
         next \notin {"new", "answered", "cancelled"},
         \A q \in Requests : Outcome(q)' = Outcome(q),
         loads' = loads
  PROVE  UNCHANGED Service!svars
<1>1. Caller(r) = "waiting" /\ Caller(r)' = "waiting"
  BY GotoCaller DEF Caller
<1>2. \A q \in Requests : Caller(q)' = Caller(q)
  BY <1>1, GotoCaller
<1> QED BY <1>2 DEF Service!svars

LEMMA PredictSubmits ==
  ASSUME AllInv, NEW r \in Requests, Predict(r)
  PROVE  Service!Submit(r)
<1>1. Caller(r) = "new"
  BY DEF Predict, Caller
<1>2. Caller(r)' = "waiting" /\ \A q \in Requests \ {r} : Caller(q)' = Caller(q)
  BY GotoCaller DEF Predict, AllInv, Inv, Locations
<1>3. loads' = loads /\ \A q \in Requests : Outcome(q)' = Outcome(q)
  BY QuietOutcome DEF Predict, locals, modelVars, answers
<1> QED BY <1>1, <1>2, <1>3 DEF Service!Submit

LEMMA AnswerReplies ==
  ASSUME AllInv, AllInv', NEW r \in Requests, Answer(r)
  PROVE  Service!Reply(r)
<1>1. Caller(r) = "waiting"
  BY DEF Answer, Caller
<1>2. Caller(r)' = "answered" /\ \A q \in Requests \ {r} : Caller(q)' = Caller(q)
  BY GotoCaller DEF Answer, AllInv, Inv, Locations
<1>3. Outcome(r) # NoResult
  BY OneOutcome DEF Answer, OutcomeFound
<1>4. loads' = loads /\ \A q \in Requests : Outcome(q)' = Outcome(q)
  BY AnswerOutcome DEF Answer, modelVars
<1> QED BY <1>1, <1>2, <1>3, <1>4 DEF Service!Reply

LEMMA CancelGivesUp ==
  ASSUME AllInv, NEW r \in Requests, Cancel(r)
  PROVE  Service!GiveUp(r)
<1>1. Caller(r) = "waiting"
  BY DEF Cancel, Caller
<1>2. Caller(r)' = "gone" /\ \A q \in Requests \ {r} : Caller(q)' = Caller(q)
  BY GotoCaller DEF Cancel, AllInv, Inv, Locations
<1>3. loads' = loads /\ \A q \in Requests : Outcome(q)' = Outcome(q)
  BY QuietOutcome DEF Cancel, locals, modelVars, answers
<1> QED BY <1>1, <1>2, <1>3 DEF Service!GiveUp

LEMMA RunGroupExecutes ==
  ASSUME AllInv, AllInv', NEW r \in Requests, RunGroup(r)
  PROVE  \E m \in Models : \E S, raised \in SUBSET Requests :
           Service!Execute(m, S, raised)
<1> DEFINE m == NextModel(r)
           next == IF Left(r) \subseteq Group(r) THEN "publish" ELSE "run"
<1>1. pc[r] = "run"
  BY DEF RunGroup
<1>2. m \in Models
  <2>1. PICK q \in Range(batch[r]) : ModelOf[q] = m
    BY <1>1, NextModelUnserved DEF AllInv, Inv, GroupInv
  <2>2. q \in Requests
    BY <2>1 DEF Range, AllInv, Inv, TypeOK
  <2> QED BY <2>1, <2>2, ServingAssumption
<1>3. PICK raised \in SUBSET Group(r) :
        out' = [out EXCEPT ![r] = [x \in Requests |->
                  IF x \in Group(r)
                  THEN [ok |-> cache[m] > 0 /\ x \notin raised, ver |-> cache[m]]
                  ELSE out[r][x]]]
  BY DEF RunGroup
<1>4. Group(r) \subseteq Requests
  BY GroupUnserved, <1>1
<1>5. ASSUME NEW q \in Group(r)
      PROVE  /\ ModelOf[q] = m
             /\ Caller(q) \in {"waiting", "gone"}
             /\ Outcome(q) = NoResult
  <2>1. q \in Requests /\ InBatch(q) /\ ModelOf[q] = m
    BY <1>4 DEF Group, InBatch
  <2>2. pc[q] \notin {"new", "answered"}
    BY <2>1 DEF AllInv, Inv, NoRequestLost, InOnePlace
  <2>3. Caller(q) \in {"waiting", "gone"}
    BY <2>2 DEF Caller
  <2> QED BY <2>1, <2>3, <1>1, GroupUnserved
<1>6. cache[m] = loads[m]
  BY DEF AllInv, FreshInv
<1>7. ASSUME NEW q \in Requests
      PROVE  Outcome(q)' = IF q \in Group(r)
                           THEN [ok |-> loads[m] > 0 /\ q \notin raised,
                                 ver |-> loads[m]]
                           ELSE Outcome(q)
  <2>1. Outcome(q)' = IF q \in Group(r) THEN out'[r][q] ELSE Outcome(q)
    BY RunGroupOutcome
  <2>2. q \in Group(r) => out'[r][q] = [ok |-> cache[m] > 0 /\ q \notin raised,
                                        ver |-> cache[m]]
    BY <1>3 DEF AllInv, Inv, TypeOK
  <2> QED BY <2>1, <2>2, <1>6
<1>8. loads' = loads /\ \A q \in Requests : Caller(q)' = Caller(q)
  <2>1. next \in Locations /\ Goto(r, next) /\ next \in {"publish", "run"}
    BY DEF RunGroup, Locations
  <2>2. Caller(r) = "waiting"
    BY <1>1 DEF Caller
  <2> HIDE DEF next
  <2>3. Caller(r)' = "waiting" /\ \A q \in Requests \ {r} : Caller(q)' = Caller(q)
    BY <2>1, GotoCaller DEF AllInv, Inv
  <2> QED BY <2>2, <2>3 DEF RunGroup, modelVars
<1> HIDE DEF m
<1>9. Service!Execute(m, Group(r), raised)
  BY <1>4, <1>5, <1>7, <1>8 DEF Service!Execute
<1> QED BY <1>2, <1>3, <1>4, <1>9

LEMMA LoadModelLoads ==
  ASSUME AllInv, NEW m \in Models, LoadModel(m)
  PROVE  Service!Load(m)
<1>1. \A q \in Requests : Caller(q)' = Caller(q)
  BY DEF LoadModel, Caller
<1>2. \A q \in Requests : Outcome(q)' = Outcome(q)
  BY QuietOutcome DEF LoadModel, locals, answers
<1>3. loads' = [loads EXCEPT ![m] = @ + 1]
  BY DEF LoadModel
<1> QED BY <1>1, <1>2, <1>3 DEF Service!Load

LEMMA StepService ==
  AllInv /\ AllInv' /\ [Next]_vars => [Service!Next]_Service!svars
<1> SUFFICES ASSUME AllInv, AllInv', [Next]_vars
             PROVE  Service!Next \/ UNCHANGED Service!svars
  OBVIOUS
<1> TypeOK
  BY DEF AllInv, Inv
<1>1. ASSUME NEW r \in Requests, Predict(r) PROVE Service!Next
  BY <1>1, PredictSubmits DEF Service!Next
<1>2. ASSUME NEW r \in Requests, Answer(r) PROVE Service!Next
  BY <1>2, AnswerReplies DEF Service!Next
<1>3. ASSUME NEW r \in Requests, Cancel(r) PROVE Service!Next
  BY <1>3, CancelGivesUp DEF Service!Next
<1>4. ASSUME NEW r \in Requests, RunGroup(r) PROVE Service!Next
  BY <1>4, RunGroupExecutes DEF Service!Next
<1>5. ASSUME NEW m \in Models, LoadModel(m) PROVE Service!Next
  BY <1>5, LoadModelLoads DEF Service!Next
<1>6. ASSUME NEW r \in Requests, Poll(r) \/ Wake(r)
      PROVE  UNCHANGED Service!svars
  <2>1. loads' = loads /\ \A q \in Requests : Outcome(q)' = Outcome(q)
    BY <1>6, QuietOutcome DEF Poll, Wake, locals, modelVars, answers
  <2> QED BY <1>6, <2>1, WaitingStep DEF Poll, Wake, Locations
<1>7. ASSUME NEW r \in Requests, ShouldFlush(r) PROVE UNCHANGED Service!svars
  <2> DEFINE next == IF BatchReady THEN "flush" ELSE "sleep"
  <2>1. loads' = loads /\ \A q \in Requests : Outcome(q)' = Outcome(q)
    BY <1>7, QuietOutcome DEF ShouldFlush, locals, modelVars, answers
  <2>2. /\ next \in Locations \ {"new", "answered", "cancelled"}
        /\ Goto(r, next) /\ pc[r] = "check"
    BY <1>7 DEF ShouldFlush, Locations
  <2> HIDE DEF next
  <2> QED BY <2>1, <2>2, WaitingStep
<1>8. ASSUME NEW r \in Requests, Flush(r) PROVE UNCHANGED Service!svars
  <2> DEFINE next == IF queue = <<>> THEN "loop" ELSE "run"
  <2>1. loads' = loads /\ \A q \in Requests : Outcome(q)' = Outcome(q)
    BY <1>8, QuietOutcome DEF Flush, modelVars, answers
  <2>2. /\ next \in Locations \ {"new", "answered", "cancelled"}
        /\ Goto(r, next) /\ pc[r] = "flush"
    BY <1>8 DEF Flush, Locations
  <2> HIDE DEF next
  <2> QED BY <2>1, <2>2, WaitingStep
<1>9. ASSUME NEW r \in Requests, Publish(r) PROVE UNCHANGED Service!svars
  <2>1. loads' = loads /\ \A q \in Requests : Outcome(q)' = Outcome(q)
    BY <1>9, PublishOutcome DEF Publish, modelVars
  <2> QED BY <1>9, <2>1, WaitingStep DEF Publish, Locations
<1>10. ASSUME Tick \/ SetBack \/ UNCHANGED vars PROVE UNCHANGED Service!svars
  <2>1. \A q \in Requests : Outcome(q)' = Outcome(q)
    BY <1>10, QuietOutcome DEF Tick, SetBack, vars, locals, answers
  <2>2. pc' = pc /\ loads' = loads
    BY <1>10 DEF Tick, SetBack, vars, modelVars
  <2> QED BY <2>1, <2>2 DEF Caller, Service!svars
<1> QED
  BY <1>1, <1>2, <1>3, <1>4, <1>5, <1>6, <1>7, <1>8, <1>9, <1>10
  DEF Next, Step

\* The server implements RequestService, for any number of concurrent calls,
\* any batching parameters, failing models, reloads and cancelled callers.
THEOREM Refinement == Spec => ImplementsService
  BY InitService, StepService, AllInvHolds, PTL
  DEF Spec, ImplementsService, Service!Spec
==============================================================================
