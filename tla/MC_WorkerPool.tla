--------------------------- MODULE MC_WorkerPool ---------------------------
(***************************************************************************)
(* Collision relations for the runs of WorkerPool.                         *)
(***************************************************************************)
EXTENDS WorkerPool, TLC

\* Any systems may collide, of one frame or of two.
AnyCollision == Job \X Job

\* A few of them: within a frame, across, and both at once for system 3.
FewCollisions == {<<1, 2>>, <<1, 3>>, <<3, 4>>}

NoCollision == {}

Symmetry == Permutations(Worker)
=============================================================================
