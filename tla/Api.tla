-------------------------------- MODULE Api --------------------------------
(***************************************************************************)
(* APIServer of src/pystreamai/api.py over an InferenceServer, of which it *)
(* knows what RequestService says (Serving implements it).  It loads its   *)
(* one model before it serves, answers /predict with 200 or 500, and       *)
(* /health and /stats count the server's request_log.                      *)
(***************************************************************************)
EXTENDS Naturals, FiniteSets

CONSTANTS Requests,   \* calls of POST /predict
          Model,      \* model_id
          MaxLoads,   \* bound: loads of it
          NoResult    \* not executed

ApiAssumption == MaxLoads \in Nat

VARIABLES
    caller, outcome, loaded,  \* the inference server, as RequestService has it
    up,                       \* the APIServer is constructed
    counted,                  \* len(request_log)
    http                      \* http[r]: the status r was answered with

vars == <<caller, outcome, loaded, up, counted, http>>

Server == INSTANCE RequestService
              WITH Models <- {Model}, ModelOf <- [r \in Requests |-> Model]

Init ==
    /\ Server!Init
    /\ up = FALSE
    /\ counted = 0
    /\ http = [r \in Requests |-> "none"]

\* A plausible bug, which an earlier version had: nothing loads the model.
ConstructUnloaded ==
    /\ ~up
    /\ up' = TRUE
    /\ UNCHANGED <<caller, outcome, loaded, counted, http>>

\* APIServer(): the model is loaded, in an event loop of its own.  If it is
\* rejected there is no server.
Construct ==
    /\ ~up
    /\ up' = TRUE
    /\ Server!Load(Model)
    /\ UNCHANGED <<counted, http>>

\* POST /predict, as far as the call of predict.
Predict(r) ==
    /\ up
    /\ Server!Submit(r)
    /\ UNCHANGED <<up, counted, http>>

\* What the server does meanwhile: it runs batches, and the application may
\* load the model again.
Serve ==
    /\ up
    /\ \/ \E S, raised \in SUBSET Requests : S # {} /\ Server!Execute(Model, S, raised)
       \/ loaded[Model] < MaxLoads /\ Server!Load(Model)
    /\ UNCHANGED <<up, counted, http>>

\* predict returns, having logged a success, and its response is serialised;
\* or one of the two raises.
Respond(r) ==
    /\ Server!Reply(r)
    /\ counted' = IF outcome[r].ok THEN counted + 1 ELSE counted
    /\ http' \in {[http EXCEPT ![r] = s] :
                     s \in IF outcome[r].ok THEN {"200", "500"} ELSE {"500"}}
    /\ UNCHANGED up

\* The handler is cancelled, which is no Exception: no response is sent.
Abandon(r) ==
    /\ Server!GiveUp(r)
    /\ UNCHANGED <<up, counted, http>>

Next == \/ Construct
        \/ Serve
        \/ \E r \in Requests : Predict(r) \/ Respond(r) \/ Abandon(r)

Spec == Init /\ [][Next]_vars

------------------------------------------------------------------------------
(* Properties.                                                             *)

Answered(status) == {r \in Requests : http[r] = status}

\* A client that is told 200 has the output of a model that was loaded, none
\* is told 500 for want of a model, and what /stats counts is every 200 and
\* those 500s whose output could not be sent; a client that got no answer is
\* not counted.
ApiAnswers ==
    /\ \A r \in Answered("200") : outcome[r].ok
    /\ \A r \in Answered("200") \cup Answered("500") : outcome[r].ver > 0
    /\ counted = Cardinality(Answered("200"))
                 + Cardinality({r \in Answered("500") : outcome[r].ok})
=============================================================================
