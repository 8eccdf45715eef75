---------------------------- MODULE SpendManager ----------------------------
(***************************************************************************)
(* SpendManager and CostTracker of src/pystreamai/cost_tracking.py, used   *)
(* as documented (docs/API_REFERENCE.md:193-194) by several requests at a  *)
(* time: should_allow_request before a request, record_inference when its  *)
(* cost is known.                                                          *)
(***************************************************************************)
EXTENDS FiniteSetsExt

CONSTANTS Workers,    \* requests that can be under way at once
          Costs,      \* costs of a request
          Budget,     \* monthly_budget
          MaxCost,    \* the largest cost
          MaxDays,    \* bound: days explored
          MaxMetrics  \* bound: requests recorded between two resets

SpendAssumption ==
    /\ IsFiniteSet(Workers)
    /\ Costs \subseteq Nat
    /\ \A c \in Costs : c <= MaxCost
    /\ Budget \in Nat
    /\ MaxCost \in Nat
    /\ MaxDays \in Nat
    /\ MaxMetrics \in Nat

VARIABLES
    allowed,  \* workers whose request was allowed and is not recorded yet
    daily,    \* daily_costs
    day,      \* today
    metrics,  \* len(metrics)
    blocked

vars == <<allowed, daily, day, metrics, blocked>>

Days == 0..MaxDays

\* get_total_cost: the sum over all days on record.
TotalCost == MapThenSumSet(LAMBDA d : daily[d], Days)

Init ==
    /\ allowed = {}
    /\ daily = [d \in Days |-> 0]
    /\ day = 0
    /\ metrics = 0
    /\ blocked = FALSE

\* A plausible bug: the budget of a month against the cost of the day.
AllowByDay(w) ==
    /\ w \notin allowed
    /\ ~blocked
    /\ daily[day] <= Budget
    /\ allowed' = allowed \cup {w}
    /\ UNCHANGED <<daily, day, metrics, blocked>>

\* should_allow_request answers True.
Allow(w) ==
    /\ w \notin allowed
    /\ ~blocked
    /\ TotalCost <= Budget
    /\ allowed' = allowed \cup {w}
    /\ UNCHANGED <<daily, day, metrics, blocked>>

\* should_allow_request finds the budget exceeded.
Block ==
    /\ ~blocked
    /\ TotalCost > Budget
    /\ blocked' = TRUE
    /\ UNCHANGED <<allowed, daily, day, metrics>>

\* record_inference.  A metric is stamped when it is made, on this day or an
\* earlier one.
Record(w) ==
    /\ w \in allowed
    /\ metrics < MaxMetrics
    /\ \E c \in Costs, d \in 0..day : daily' = [daily EXCEPT ![d] = @ + c]
    /\ metrics' = metrics + 1
    /\ allowed' = allowed \ {w}
    /\ UNCHANGED <<day, blocked>>

\* A request that fails is not recorded.
Fail(w) ==
    /\ w \in allowed
    /\ allowed' = allowed \ {w}
    /\ UNCHANGED <<daily, day, metrics, blocked>>

NewDay ==
    /\ day < MaxDays
    /\ day' = day + 1
    /\ UNCHANGED <<allowed, daily, metrics, blocked>>

\* reset_monthly_budget.
Reset ==
    /\ blocked' = FALSE
    /\ daily' = [d \in Days |-> 0]
    /\ metrics' = 0
    /\ UNCHANGED <<allowed, day>>

Next == \/ \E w \in Workers : Allow(w) \/ Record(w) \/ Fail(w)
        \/ Block
        \/ NewDay
        \/ Reset

Spec == Init /\ [][Next]_vars

------------------------------------------------------------------------------
(* Properties.                                                             *)

\* The check comes before the request and the cost after it, so that requests
\* under way when the budget runs out still spend: never more than one of the
\* largest cost each, whatever is recorded, failed or reset in between.
OverspendBounded ==
    TotalCost + MaxCost * Cardinality(allowed) <= Budget + MaxCost * Cardinality(Workers)

\* Requests are refused only while the costs on record exceed the budget: the
\* latch is never left set after a reset.
BlockedMeansOver == blocked => TotalCost > Budget

\* The budget is kept as far as it can be, and nobody is refused without cause.
BudgetKept == OverspendBounded /\ BlockedMeansOver
=============================================================================
