------------------------- MODULE MCRequestScheduler -------------------------
(* Instances of RequestScheduler for TLC.                                  *)
EXTENDS RequestScheduler, TLC

CONSTANTS a, b, c, m1, m2, u

MCRequests == {a, b, c}

\* a and b have one model, one user and one priority; c is urgent and
\* short-lived.
MCPriority == (a :> 1) @@ (b :> 1) @@ (c :> 0)
MCUser     == (a :> u) @@ (b :> u) @@ (c :> NoUser)
MCModel    == (a :> m1) @@ (b :> m1) @@ (c :> m2)
MCTimeout  == (a :> 2) @@ (b :> 3) @@ (c :> 1)
MCCompute  == (a :> 3) @@ (b :> 1) @@ (c :> 2)
MCQuota    == (u :> 2)
=============================================================================
