--------------------------- MODULE MCEditSession ---------------------------
(* Small instances of EditSession for TLC. *)
EXTENDS EditSession, TLC

CONSTANTS u1, u2, e1, e2, h1, h2

\* Users, edits and handlers are interchangeable (safety runs only).
Symmetry ==
  Permutations(User) \cup Permutations(Edit) \cup Permutations(Handler)
============================================================================
