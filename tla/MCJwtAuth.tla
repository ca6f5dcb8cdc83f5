----------------------------- MODULE MCJwtAuth -----------------------------
(* Small instances of JwtAuth for TLC. *)
EXTENDS JwtAuth, TLC

CONSTANTS r1, r2, t1, t2, p1, d1, a1

\* Replicas and tabs are interchangeable.
Symmetry == Permutations(Replica) \cup Permutations(Tab)
============================================================================
