------------------------- MODULE MCSessionLifecycle -------------------------
(* Small instances of SessionLifecycle for TLC. *)
EXTENDS SessionLifecycle, TLC

CONSTANTS h1, h2, t1, t2, t3, t4, t5, t6

\* Handlers are interchangeable (safety runs only).
Symmetry == Permutations(SlHandler)
============================================================================
