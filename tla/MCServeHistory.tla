--------------------------- MODULE MCServeHistory ---------------------------
(* Values of ServeHistory's constants for model checking.                  *)
EXTENDS ServeHistory, MCServe, TLC

\* Clients are alike.
Symmetry == Permutations(Clients)
=============================================================================
