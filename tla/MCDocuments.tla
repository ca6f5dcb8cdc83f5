---------------------------- MODULE MCDocuments -----------------------------
(***************************************************************************)
(* A small instance of the components of Documents, for one run of TLC.    *)
(* Its behaviours visit the sum of their states and not the product.       *)
(***************************************************************************)
EXTENDS Documents, TLC

CONSTANTS u1, u2, e1, h1, h2

\* An entry for a domain and one for all below it.
Rules == [base : {"site"}, wild : BOOLEAN]
Below == {<<"sub", "site">>}

\* Users are interchangeable, and handlers.
Symmetry == {f @@ g : f \in Permutations({u1, u2}), g \in Permutations({h1, h2})}
=============================================================================
