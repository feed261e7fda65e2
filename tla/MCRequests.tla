----------------------------- MODULE MCRequests -----------------------------
(* Instances of Requests for TLC.                                           *)
EXTENDS Requests

CONSTANTS h1, h2, daemon

TwoHandlers == {h1, h2}
HandlersAndDaemon == {h1, h2, daemon}
=============================================================================
