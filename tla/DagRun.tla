------------------------------- MODULE DagRun -------------------------------
(***************************************************************************)
(* What dispatching one time slice promises, whatever the thread pool      *)
(* does.  A frame is a series of passes.  Each pass brings a dependency    *)
(* graph over the systems; every system is resolved exactly once in the    *)
(* pass, after everything it depends on.  A system is resolved by running  *)
(* it, or, when it is dead, by skipping it.  Death is contagious along     *)
(* edges and lasts until the next frame.                                   *)
(*                                                                         *)
(* There are no threads, locks, queues, counters, components or entities   *)
(* here.  TaskDispatch, which has the threads, and SimpleFrame, which has  *)
(* the database, both implement this specification.                        *)
(***************************************************************************)
EXTENDS Naturals

CONSTANTS
  Node,     \* the systems that may be registered with the executive
  Graphs    \* the dependency graphs a pass may be given

VARIABLES
  open,      \* is a pass being dispatched?
  edges,     \* edges[i]: what must come after i, for the systems of the pass
  running,   \* the systems whose payload is executing
  resolved,  \* the systems this pass is finished with
  dead       \* the systems that failed or were aborted in this frame

dagVars == <<open, edges, running, resolved, dead>>

None == [n \in {} |-> {}]

System == DOMAIN edges
Before(n) == {i \in System : n \in edges[i]}

Init ==
  /\ open = FALSE
  /\ edges = None
  /\ running = {}
  /\ resolved = {}
  /\ dead = {}

\* The casualties of the last frame are forgotten.
NewFrame ==
  /\ ~open
  /\ dead' = {}
  /\ UNCHANGED <<open, edges, running, resolved>>

Opens(g) ==
  /\ ~open
  /\ open' = TRUE
  /\ edges' = g
  /\ running' = {}
  /\ resolved' = {}

Open(g) == Opens(g) /\ UNCHANGED dead

\* The first pass of a frame, opened where the frame begins.
OpenFirst(g) == Opens(g) /\ dead' = {}

\* A payload may start once everything before it is over and alive.
Start(n) ==
  /\ open
  /\ n \notin running \union resolved \union dead
  /\ Before(n) \subseteq resolved \ dead
  /\ running' = running \union {n}
  /\ UNCHANGED <<open, edges, resolved, dead>>

Finish(n) ==
  /\ open
  /\ n \in running
  /\ running' = running \ {n}
  /\ resolved' = resolved \union {n}
  /\ UNCHANGED <<open, edges, dead>>

\* A payload that throws takes its direct dependents with it.
Fail(n) ==
  /\ open
  /\ n \in running
  /\ running' = running \ {n}
  /\ resolved' = resolved \union {n}
  /\ dead' = dead \union {n} \union edges[n]
  /\ UNCHANGED <<open, edges>>

\* A dead system is passed over, in its turn, and spreads the poison.
Skip(n) ==
  /\ open
  /\ n \in dead \ (running \union resolved)
  /\ Before(n) \subseteq resolved
  /\ resolved' = resolved \union {n}
  /\ dead' = dead \union edges[n]
  /\ UNCHANGED <<open, edges, running>>

\* A pass is over only when every system has been resolved.
Close ==
  /\ open
  /\ resolved = System
  /\ open' = FALSE
  /\ edges' = None
  /\ running' = {}
  /\ resolved' = {}
  /\ UNCHANGED dead

Next ==
  \/ NewFrame
  \/ \E g \in Graphs : Open(g) \/ OpenFirst(g)
  \/ \E n \in System : Start(n) \/ Finish(n) \/ Fail(n) \/ Skip(n)
  \/ Close

Spec == Init /\ [][Next]_dagVars

=============================================================================
