------------------------------ MODULE MCSignOn ------------------------------
(***************************************************************************)
(* A small instance of the components of SignOn, for one run of TLC. Its   *)
(* behaviours visit the sum of their states and not the product.           *)
(***************************************************************************)
EXTENDS SignOn, TLC

CONSTANTS r1, r2, t1, p1, x1, a1, u1, u2, u3

\* Replicas are interchangeable, and people with a telephone.
Symmetry == {f @@ g : f \in Permutations({r1, r2}), g \in Permutations({u1, u2})}
=============================================================================
