---------------------------- MODULE MCTerminals -----------------------------
(***************************************************************************)
(* A small instance of the components of Terminals, for one run of TLC.    *)
(* Its behaviours visit the sum of their states and not the product.       *)
(***************************************************************************)
EXTENDS Terminals, TLC

CONSTANTS h1, h2, t1, t2, t3, t4, t5, t6, p1, p2, r1

\* Handlers, or workers, and people are interchangeable.
Symmetry == {f @@ g : f \in Permutations({h1, h2}), g \in Permutations({p1, p2})}
=============================================================================
