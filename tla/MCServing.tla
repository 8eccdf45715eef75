------------------------------ MODULE MCServing ------------------------------
(* Instances of Serving for TLC.                                           *)
EXTENDS Serving, TLC

CONSTANTS r1, r2, r3, m1, m2

MCRequests == {r1, r2, r3}

\* Two requests share a model and so a group; the third makes a second group.
MCModelOf == (r1 :> m1) @@ (r2 :> m1) @@ (r3 :> m2)
=============================================================================
