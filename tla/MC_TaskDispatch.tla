--------------------------- MODULE MC_TaskDispatch ---------------------------
(* Every forward graph over a few systems, and a pool of two or more.       *)
EXTENDS TaskDispatch

ForwardEdge == {e \in (1..N) \X (1..N) : e[1] < e[2]}

AllForwardGraphs ==
  {[i \in 1..N |-> {j \in 1..N : <<i, j>> \in E}] : E \in SUBSET ForwardEdge}

=============================================================================
