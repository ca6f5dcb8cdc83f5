------------------------------ MODULE MCPortal ------------------------------
(***************************************************************************)
(* A small instance of the components of Portal, for one run of TLC. Its   *)
(* behaviours visit the sum of their states and not the product.           *)
(***************************************************************************)
EXTENDS Portal, TLC

CONSTANTS t1, d1, x1, h1, h2, a1, u1, u2

\* A survey that asks for a photo, a choice and a photo.
Questions == <<"photo", "choice", "photo">>

\* Handlers, or replicas, are interchangeable.
Symmetry == Permutations({h1, h2})
=============================================================================
