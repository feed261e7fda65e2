----------------------------- MODULE MCBreaker -----------------------------
(* Instances of CircuitBreaker for TLC.                                     *)
EXTENDS CircuitBreaker

CONSTANTS daemon, other, h1, h2

\* The component on its own: two goroutines share the breaker.
TwoCallers == {daemon, other}

TwoCheckers == {h1, h2}
=============================================================================
