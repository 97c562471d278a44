-------------------------- MODULE MC_LayeredTests --------------------------
(***************************************************************************)
(* Components for the run of LayeredTests: the free client has one.        *)
(***************************************************************************)
EXTENDS LayeredTests

CONSTANT a

Declared == TestComponents \cup {a}
FreeMask == {{a}}
=============================================================================
