----------------------------- MODULE MCSettings ------------------------------
(* A small instance of Settings. *)
EXTENDS Settings

CONSTANTS e1, e2, b1, b2, r1, r2, r3

\* Events, binaries of the right name and commands are interchangeable.
Symmetry == Permutations({e1, e2}) \cup Permutations({b1, b2}) \cup Permutations({r1, r2, r3})
=============================================================================
