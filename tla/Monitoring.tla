----------------------------- MODULE Monitoring -----------------------------
(***************************************************************************)
(* The metric collector of src/pystreamai/monitoring.py and the backends   *)
(* of src/pystreamai/observability.py.  A backend records a metric on one  *)
(* instrument after another and swallows the exception of the one that     *)
(* raises, so that a metric may be recorded in part.  The instruments of   *)
(* Prometheus belong to the process, and registering them again raises.    *)
(***************************************************************************)
EXTENDS Naturals, FiniteSets, Functions

CONSTANTS Backends,    \* backend objects the application may make
          KindOf,      \* their classes
          Installed,   \* classes whose library is installed
          MaxMetrics,  \* bound: metrics logged
          NoOp         \* the NoOpBackend the collector begins with

\* How many instruments a class records a metric on.  "app" is a class of the
\* application's own.
Instruments == [prometheus |-> 4, otel |-> 3, datadog |-> 1, app |-> 1]

MonitoringAssumption ==
    /\ IsFiniteSet(Backends)
    /\ KindOf \in [Backends -> DOMAIN Instruments]
    /\ Installed \subseteq DOMAIN Instruments
    /\ MaxMetrics \in Nat
    /\ NoOp \notin Backends

VARIABLES
    metrics,     \* number of metrics in MetricCollector.metrics
    backend,     \* MetricCollector.backend
    constructed, \* backends made
    registered,  \* the process has the instruments of Prometheus
    counts       \* what each backend recorded, by instrument

vars == <<metrics, backend, constructed, registered, counts>>

Steps(b) == 1..Instruments[KindOf[b]]

\* Making b registers instruments with the process.
Registers(b) == KindOf[b] = "prometheus" /\ "prometheus" \in Installed

Init ==
    /\ metrics = 0
    /\ backend = NoOp
    /\ constructed = {}
    /\ registered = FALSE
    /\ counts = [b \in Backends |-> [i \in Steps(b) |-> 0]]

\* A backend is constructed.  Without its library it is constructed without
\* instruments.
Make(b) ==
    /\ b \notin constructed
    /\ Registers(b) => ~registered
    /\ constructed' = constructed \cup {b}
    /\ registered' = (registered \/ Registers(b))
    /\ UNCHANGED <<metrics, backend, counts>>

\* PrometheusBackend() registers its instruments and then cannot bind its port.
MakeFails(b) ==
    /\ b \notin constructed
    /\ Registers(b) /\ ~registered
    /\ registered' = TRUE
    /\ UNCHANGED <<metrics, backend, constructed, counts>>

\* set_backend, when the old backend's close goes through (nothing is changed
\* when it raises).
SetBackend(b) ==
    /\ b \in constructed
    /\ backend' = b
    /\ UNCHANGED <<metrics, constructed, registered, counts>>

\* Backends that can record something.
Live == {b \in Backends : KindOf[b] \in Installed}

\* The counts of b with one more on each of its first n instruments.
Recorded(b, n) == [counts EXCEPT ![b] = [i \in Steps(b) |-> counts[b][i] + (IF i <= n THEN 1 ELSE 0)]]

\* A plausible bug: a metric that was recorded in part is logged once more.
LogTwice ==
    /\ metrics < MaxMetrics
    /\ metrics' = metrics + 1
    /\ \/ backend \notin Live /\ UNCHANGED counts
       \/ /\ backend \in Live
          /\ counts' = [counts EXCEPT ![backend] = [i \in Steps(backend) |-> counts[backend][i] + 2]]
    /\ UNCHANGED <<backend, constructed, registered>>

\* log: the metric is kept, and given to the backend, of which some instrument
\* may raise; without the library the first one does, or there is none.
Log ==
    /\ metrics < MaxMetrics
    /\ metrics' = metrics + 1
    /\ \/ backend \notin Live /\ UNCHANGED counts
       \/ /\ backend \in Live
          /\ \E n \in {0} \cup Steps(backend) : counts' = Recorded(backend, n)
    /\ UNCHANGED <<backend, constructed, registered>>

Next == \/ \E b \in Backends : Make(b) \/ MakeFails(b) \/ SetBackend(b)
        \/ Log

Spec == Init /\ [][Next]_vars

------------------------------------------------------------------------------
(* Properties.                                                             *)

\* Over all switches and failures a metric is recorded by one backend at most,
\* and on an instrument only if it was on those before it; and no two backends
\* of the process count for Prometheus.
RecordedOnce ==
    /\ FoldFunction(LAMBDA c, n : c[1] + n, 0, counts) <= metrics
    /\ \A b \in Backends : \A i, j \in Steps(b) : i < j => counts[b][i] >= counts[b][j]
    /\ \A b, c \in Backends :
          (/\ KindOf[b] = "prometheus" /\ KindOf[c] = "prometheus"
           /\ counts[b][1] > 0 /\ counts[c][1] > 0) => b = c
=============================================================================
