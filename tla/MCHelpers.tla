----------------------------- MODULE MCHelpers -----------------------------
(* Instances of Helpers for TLC.                                           *)
EXTENDS Helpers

CONSTANTS m1, m2, x1, x2, x3, p1, p2, p3, p4, p5,
          prom1, prom2, otel, dog, r1, r2, r3, r4

\* The first ten characters of x1 and x2 are the same, those of x3 similar to
\* both.
MCScore == [p \in Inputs \X Inputs |->
               IF p[1] = p[2] \/ p \in {<<x1, x2>>, <<x2, x1>>} THEN 2
               ELSE IF x3 \in {p[1], p[2]} THEN 1 ELSE 0]

\* p4 and p5 have their first hundred characters in common.
MCKeyOf == [p \in Prompts |-> IF p = p5 THEN p4 ELSE p]

MCKindOf == [b \in Backends |-> CASE b \in {prom1, prom2} -> "prometheus"
                                  [] b = otel -> "otel"
                                  [] OTHER -> "datadog"]

MCPriority == [r \in Requests |-> CASE r = r1 -> 0 [] r = r4 -> 2 [] OTHER -> 1]
=============================================================================
