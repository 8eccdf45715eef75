------------------------------ MODULE Dashboard ------------------------------
(***************************************************************************)
(* MetricsCollector and Dashboard of src/pystreamai/dashboard.py: requests *)
(* and errors are recorded, old latencies are cut off now and then, and    *)
(* alerts are read off what is left.  Wording and recommendations are left *)
(* out.  Percentages are of numbers small enough for floats to be exact.   *)
(***************************************************************************)
EXTENDS Naturals, SequencesExt

CONSTANTS ModelIds, Latencies,
          Cap,          \* clear_old_data cuts above this many latencies (10000)
          Left,         \* and leaves this many (5000)
          ErrorLimit,   \* error rate that is too high, in percent (5)
          AverageLimit, \* average latency that is too high (500)
          Percent,      \* the percentile (99)
          PercentLimit, \* and its value that is too high (1000)
          MaxRecords,   \* bound: requests recorded
          MaxErrors     \* bound: errors recorded

DashboardAssumption ==
    /\ Latencies \subseteq Nat
    /\ {Cap, Left, ErrorLimit, AverageLimit, PercentLimit} \subseteq Nat
    /\ 0 < Left /\ Left <= Cap
    /\ Percent \in 0..99
    /\ {MaxRecords, MaxErrors} \subseteq Nat

VARIABLES
    latencies,   \* MetricsCollector.latencies
    errors,      \* length of MetricsCollector.errors
    perModel,    \* MetricsCollector.model_metrics: count, sum, least, greatest
    occurred     \* history: errors ever recorded

vars == <<latencies, errors, perModel, occurred>>

Init ==
    /\ latencies = <<>>
    /\ errors = 0 /\ occurred = 0
    /\ perModel = [m \in {} |-> 0]

Sum(m)   == IF m \in DOMAIN perModel THEN perModel[m].total ELSE 0
Count(m) == IF m \in DOMAIN perModel THEN perModel[m].requests ELSE 0

\* All requests ever recorded.
Recorded == FoldSet(LAMBDA m, n : Count(m) + n, 0, DOMAIN perModel)

\* record_request.
RecordRequest(m, latency) ==
    /\ Recorded < MaxRecords
    /\ latencies' = Append(latencies, latency)
    /\ perModel' = [k \in DOMAIN perModel \cup {m} |->
          IF k # m THEN perModel[k]
          ELSE [requests |-> Count(m) + 1,
                total    |-> Sum(m) + latency,
                least    |-> IF m \in DOMAIN perModel THEN Min({perModel[m].least, latency}) ELSE latency,
                greatest |-> IF m \in DOMAIN perModel THEN Max({perModel[m].greatest, latency}) ELSE latency]]
    /\ UNCHANGED <<errors, occurred>>

\* record_error.
RecordError ==
    /\ occurred < MaxErrors
    /\ errors' = errors + 1
    /\ occurred' = occurred + 1
    /\ UNCHANGED <<latencies, perModel>>

\* A plausible bug: the errors are cleared with the latencies.
ClearErrorsToo ==
    /\ Len(latencies) > Cap
    /\ latencies' = SubSeq(latencies, Len(latencies) - Left + 1, Len(latencies))
    /\ errors' = 0
    /\ UNCHANGED <<perModel, occurred>>

\* clear_old_data, when there is enough; otherwise it does nothing.
ClearOldData ==
    /\ Len(latencies) > Cap
    /\ latencies' = SubSeq(latencies, Len(latencies) - Left + 1, Len(latencies))
    /\ UNCHANGED <<errors, perModel, occurred>>

Next == \/ \E m \in ModelIds, latency \in Latencies : RecordRequest(m, latency)
        \/ RecordError
        \/ ClearOldData

Spec == Init /\ [][Next]_vars

------------------------------------------------------------------------------
(* get_summary and _generate_alerts, which change nothing.                 *)

Total == FoldSeq(+, 0, latencies)

\* p99_latency_ms: of the sorted latencies, the one at index int(n * 0.99),
\* counted from 0, which is the one that as many others come before.
Before(i, j) == \/ latencies[i] < latencies[j]
                \/ latencies[i] = latencies[j] /\ i < j
Percentile ==
    latencies[CHOOSE i \in DOMAIN latencies :
                 Cardinality({j \in DOMAIN latencies : Before(j, i)})
                 = (Len(latencies) * Percent) \div 100]

\* The summary is empty when there are no latencies.
Alerts ==
    IF latencies = <<>> THEN {}
    ELSE (IF errors * 100 > ErrorLimit * Len(latencies) THEN {"errors"} ELSE {})
         \cup (IF Total > AverageLimit * Len(latencies) THEN {"average"} ELSE {})
         \cup (IF Percentile > PercentLimit THEN {"percentile"} ELSE {})

------------------------------------------------------------------------------
(* Properties.                                                             *)

Slow == {i \in DOMAIN latencies : latencies[i] > PercentLimit}

\* No alert is missed once a request was recorded, and but for one none is
\* false: if the errors are too many for all requests ever recorded there is an
\* alert, however often old data was cleared, and only when it was may the
\* alert be given without cause; and the percentile alert is given exactly when
\* more latencies are slow than the percentile lets by.  What was cleared stays
\* in the sums and extremes of the models.
AlertsSound ==
    latencies # <<>> =>
      /\ occurred * 100 > ErrorLimit * Recorded => "errors" \in Alerts
      /\ "errors" \in Alerts /\ occurred * 100 <= ErrorLimit * Recorded
           => Len(latencies) < Recorded
      /\ "percentile" \in Alerts <=>
           Cardinality(Slow) >= Len(latencies) - (Len(latencies) * Percent) \div 100
      /\ Total <= FoldSet(LAMBDA m, n : Sum(m) + n, 0, DOMAIN perModel)
      /\ \A i \in DOMAIN latencies : \E m \in DOMAIN perModel :
           latencies[i] \in perModel[m].least .. perModel[m].greatest
=============================================================================
