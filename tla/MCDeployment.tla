---------------------------- MODULE MCDeployment ----------------------------
(* Instances of Deployment for TLC.                                        *)
EXTENDS Deployment, TLC

CONSTANTS v1, v2, v3

MCVersions == {v1, v2, v3}

\* Version strings are interchangeable.
Symmetry == Permutations(MCVersions)
=============================================================================
