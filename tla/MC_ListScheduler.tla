--------------------------- MODULE MC_ListScheduler ---------------------------
(***************************************************************************)
(* The instance of the test: its graph and sizes (main.cpp:19-21, 141-153).*)
(***************************************************************************)
EXTENDS ListScheduler

TestGraph ==
  {<<0, 1>>, <<1, 2>>, <<1, 3>>, <<2, 4>>, <<4, 5>>, <<3, 5>>, <<5, 6>>}
=============================================================================
