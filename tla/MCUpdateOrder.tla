------------------------------ MODULE MCUpdateOrder ------------------------------
(* Model values for UpdateOrder: every graph of three services, and of four    *)
(* when each has at most one dependency.                                       *)
EXTENDS UpdateOrder

MCServices == 1 .. 4

Sparse == {S \in SUBSET MCServices : Cardinality(S) <= 1}

MCGraphs ==
  [MCServices -> Sparse]
    \union {g \in [MCServices -> SUBSET (1 .. 3)] : g[4] = {}}

MCInputs == (SUBSET MCServices) \ {{}}
================================================================================
