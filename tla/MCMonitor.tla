----------------------------- MODULE MCMonitor ------------------------------
(* Instances of Monitor for TLC.                                            *)
EXTENDS Monitor

CONSTANTS daemon, h1, h2, r1, r2

OneCaller == {daemon}
TwoCheckers == {h1, h2}
TwoRoutes == {r1, r2}
OneRoute == {r1}
=============================================================================
