------------------------- MODULE MC_LayeredDatabase -------------------------
(***************************************************************************)
(* Spawn masks for the runs of LayeredDatabase.                            *)
(***************************************************************************)
EXTENDS LayeredDatabase

FullMask == {Component}
=============================================================================
