----------------------------- MODULE MCPlatform -----------------------------
(* Instances of Platform for TLC.                                          *)
EXTENDS Platform

CONSTANTS churn
=============================================================================
