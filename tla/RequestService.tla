--------------------------- MODULE RequestService ---------------------------
(***************************************************************************)
(* What InferenceServer.predict promises its callers, with no queue, no    *)
(* batches and no polling: a submitted request is executed at most once,   *)
(* in one instant, against the model loaded at that instant, and its       *)
(* caller receives exactly that outcome.  Requests for one model may be    *)
(* executed in the same instant, which is what a batch group is.  A caller *)
(* may give up, and its request may then still be executed.                *)
(***************************************************************************)
EXTENDS Naturals

CONSTANTS Requests,   \* the calls of predict
          Models,     \* the model ids
          ModelOf,    \* the model each call names
          NoResult    \* "not executed", not one of the Outcomes

VARIABLES caller,     \* caller[r]: what the caller of r is doing
          outcome,    \* outcome[r]: what executing r gave
          loaded      \* loaded[m]: how many times m was loaded; 0 = never

svars == <<caller, outcome, loaded>>

Outcomes == [ok : BOOLEAN, ver : Nat]

Init ==
    /\ caller = [r \in Requests |-> "new"]
    /\ outcome = [r \in Requests |-> NoResult]
    /\ loaded = [m \in Models |-> 0]

Submit(r) ==
    /\ caller[r] = "new"
    /\ caller' = [caller EXCEPT ![r] = "waiting"]
    /\ UNCHANGED <<outcome, loaded>>

\* A set of requests for m is executed: with no model loaded each fails,
\* otherwise those in `raised` fail.
Execute(m, S, raised) ==
    /\ \A r \in S : /\ ModelOf[r] = m
                    /\ caller[r] \in {"waiting", "gone"}
                    /\ outcome[r] = NoResult
    /\ outcome' = [r \in Requests |->
                     IF r \in S THEN [ok |-> loaded[m] > 0 /\ r \notin raised,
                                      ver |-> loaded[m]]
                                ELSE outcome[r]]
    /\ UNCHANGED <<caller, loaded>>

Reply(r) ==
    /\ caller[r] = "waiting"
    /\ outcome[r] # NoResult
    /\ caller' = [caller EXCEPT ![r] = "answered"]
    /\ UNCHANGED <<outcome, loaded>>

GiveUp(r) ==
    /\ caller[r] = "waiting"
    /\ caller' = [caller EXCEPT ![r] = "gone"]
    /\ UNCHANGED <<outcome, loaded>>

Load(m) ==
    /\ loaded' = [loaded EXCEPT ![m] = @ + 1]
    /\ UNCHANGED <<caller, outcome>>

Next ==
    \/ \E r \in Requests : Submit(r) \/ Reply(r) \/ GiveUp(r)
    \/ \E m \in Models : Load(m)
    \/ \E m \in Models : \E S, raised \in SUBSET Requests : Execute(m, S, raised)

Spec == Init /\ [][Next]_svars
=============================================================================
