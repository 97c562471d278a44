---------------------------- MODULE TaskDispatch ----------------------------
(***************************************************************************)
(* TaskGraphExecutive::execute_frame and its thread pool, dispatch_tasks,  *)
(* of src/Engine/TestUsagiExecutive/Simple/Executive.hpp.                  *)
(*                                                                         *)
(* The systems are numbered in registration order.  The graph a pass runs  *)
(* is any of Graphs: how masks give rise to it is not this module's        *)
(* concern.  A payload is a step of its own that ends normally or throws,  *)
(* and that may queue a spawn on the way.                                  *)
(*                                                                         *)
(* Each critical section on `mtx' is one action.  cv.wait releases the     *)
(* mutex and sleeps: pc[t] = "wait".  notify_one wakes one sleeper of the  *)
(* pool's choosing, and a sleeper may wake without being notified.         *)
(***************************************************************************)
EXTENDS Integers, Sequences, FiniteSets

CONSTANTS
  N,             \* systems.size(), not 0: execute_frame returns at once then
  Worker,        \* the hardware threads of the pool
  Graphs,        \* the values of `dependents' build_topological_graph gives
  MaxReEntries   \* MAX_RE_ENTRIES

Node == 1..N

ASSUME SystemsAssumption == N \in Nat \ {0}
ASSUME WorkerAssumption == Worker # {} /\ IsFiniteSet(Worker)
ASSUME ReEntryAssumption == MaxReEntries \in Nat
\* Edges follow registration order, "implicit DAG generation" in the code.
ASSUME GraphsAssumption ==
  /\ Graphs \subseteq [Node -> SUBSET Node]
  /\ \A g \in Graphs : \A i \in Node : \A j \in g[i] : i < j

VARIABLES
  phase,       \* where the caller of execute_frame stands
  reEntry,     \* re_entry_counter
  hasSpawns,   \* EntityDatabase::has_spawns
  dependents,  \* SystemNode::dependents, as sets
  inDegree,    \* SystemNode::in_degree
  executed,    \* SystemNode::executed
  failed,      \* SystemNode::failed
  aborted,     \* SystemNode::aborted_due_to_dependency
  readyQueue,  \* ready_queue
  completed,   \* tasks_completed
  committed,   \* history: the nodes commit_node_result has seen in this pass
  pc,          \* where each worker stands
  task,        \* the node each worker took last
  outcome      \* its ExecutionResult

frameVars == <<phase, reEntry>>
flagVars == <<executed, failed, aborted>>
poolVars == <<readyQueue, completed, committed>>
workerVars == <<pc, task, outcome>>
vars == <<frameVars, hasSpawns, dependents, inDegree, flagVars, poolVars,
          workerVars>>

Dead(n) == failed[n] \/ aborted[n]

Pred(n) == {i \in Node : n \in dependents[i]}

Sleeping == {t \in Worker : pc[t] = "wait"}

\* The node a worker answers for between popping it and committing it.
Holds(t, n) == pc[t] \in {"check", "payload", "commit"} /\ task[t] = n

\* S in ascending order: the loops over systems and over dependents push so.
Ascending(S) ==
  {s \in [1..Cardinality(S) -> S] :
     /\ \A i, j \in 1..Cardinality(S) : i < j => s[i] < s[j]
     /\ \A n \in S : \E i \in 1..Cardinality(S) : s[i] = n}

-----------------------------------------------------------------------------
(* The caller of execute_frame.                                            *)

Init ==
  /\ phase = "idle"
  /\ reEntry = 0
  /\ hasSpawns = FALSE
  /\ dependents = [n \in Node |-> {}]
  /\ inDegree = [n \in Node |-> 0]
  /\ executed = [n \in Node |-> FALSE]
  /\ failed = [n \in Node |-> FALSE]
  /\ aborted = [n \in Node |-> FALSE]
  /\ readyQueue = <<>>
  /\ completed = 0
  /\ committed = {}
  /\ pc = [t \in Worker |-> "exit"]
  /\ task = [t \in Worker |-> 1]
  /\ outcome = [t \in Worker |-> "none"]

\* execute_frame is called; a frame that threw may be followed by another.
BeginFrame ==
  /\ phase \notin {"prepare", "dispatch"}
  /\ phase' = "prepare"
  /\ reEntry' = 0
  /\ failed' = [n \in Node |-> FALSE]
  /\ aborted' = [n \in Node |-> FALSE]
  /\ UNCHANGED <<hasSpawns, dependents, inDegree, executed, poolVars,
                 workerVars>>

\* From the spawn commit of a re-entrant pass to the start of the threads.
BeginPass(g) ==
  /\ phase = "prepare"
  /\ phase' = "dispatch"
  /\ hasSpawns' = (hasSpawns /\ reEntry = 0)
  /\ dependents' = g
  /\ inDegree' = [j \in Node |-> Cardinality({i \in Node : j \in g[i]})]
  /\ executed' = [n \in Node |-> executed[n] /\ Dead(n)]
  /\ readyQueue' \in Ascending({j \in Node : inDegree'[j] = 0})
  /\ completed' = 0
  /\ committed' = {}
  /\ pc' = [t \in Worker |-> "acquire"]
  /\ UNCHANGED <<reEntry, failed, aborted, task, outcome>>

\* commit_pending_spawns runs out of entity ids: the exception leaves
\* execute_frame, and has_spawns stays set.
SpawnCommitThrows ==
  /\ phase = "prepare"
  /\ reEntry > 0
  /\ phase' = "exhausted"
  /\ UNCHANGED <<reEntry, hasSpawns, dependents, inDegree, flagVars, poolVars,
                 workerVars>>

\* The threads are joined; dispatch_tasks checks for unresolved nodes and
\* execute_frame decides between returning, re-entering and giving up.
EndPass ==
  /\ phase = "dispatch"
  /\ \A t \in Worker : pc[t] = "exit"
  /\ IF \E n \in Node : ~executed[n] /\ ~aborted[n]
     THEN /\ phase' = "deadlock"
          /\ UNCHANGED reEntry
     ELSE /\ reEntry' = reEntry + 1
          /\ phase' = IF ~hasSpawns THEN "idle"
                      ELSE IF reEntry' > MaxReEntries THEN "overrun"
                      ELSE "prepare"
  /\ UNCHANGED <<hasSpawns, dependents, inDegree, flagVars, poolVars,
                 workerVars>>

-----------------------------------------------------------------------------
(* A worker: acquire, execute, commit.                                     *)

\* try_acquire_task, when the wait predicate holds and work remains.
Take(t) ==
  /\ pc[t] = "acquire"
  /\ completed # N
  /\ readyQueue # <<>>
  /\ task' = [task EXCEPT ![t] = Head(readyQueue)]
  /\ readyQueue' = Tail(readyQueue)
  /\ pc' = [pc EXCEPT ![t] = "check"]
  /\ UNCHANGED <<frameVars, hasSpawns, dependents, inDegree, flagVars,
                 completed, committed, outcome>>

\* try_acquire_task, when the wait predicate is false.
Sleep(t) ==
  /\ pc[t] = "acquire"
  /\ completed # N
  /\ readyQueue = <<>>
  /\ pc' = [pc EXCEPT ![t] = "wait"]
  /\ UNCHANGED <<frameVars, hasSpawns, dependents, inDegree, flagVars,
                 poolVars, task, outcome>>

\* A spurious wake-up: the predicate is evaluated again.
WakeUnnotified(t) ==
  /\ pc[t] = "wait"
  /\ pc' = [pc EXCEPT ![t] = "acquire"]
  /\ UNCHANGED <<frameVars, hasSpawns, dependents, inDegree, flagVars,
                 poolVars, task, outcome>>

\* try_acquire_task returns nullopt and the thread function returns.
Leave(t) ==
  /\ pc[t] = "acquire"
  /\ completed = N
  /\ pc' = [pc EXCEPT ![t] = "exit"]
  /\ UNCHANGED <<frameVars, hasSpawns, dependents, inDegree, flagVars,
                 poolVars, task, outcome>>

\* execute_node_payload reads the two flags without holding the mutex.
CheckFlags(t) ==
  /\ pc[t] = "check"
  /\ IF Dead(task[t])
     THEN /\ pc' = [pc EXCEPT ![t] = "commit"]
          /\ outcome' = [outcome EXCEPT ![t] = "none"]
     ELSE /\ pc' = [pc EXCEPT ![t] = "payload"]
          /\ UNCHANGED outcome
  /\ UNCHANGED <<frameVars, hasSpawns, dependents, inDegree, flagVars,
                 poolVars, task>>

\* The payload returns or throws, having queued a spawn or not.
RunPayload(t) ==
  /\ pc[t] = "payload"
  /\ pc' = [pc EXCEPT ![t] = "commit"]
  /\ \E res \in {"ok", "crash"} : outcome' = [outcome EXCEPT ![t] = res]
  /\ \E spawns \in BOOLEAN : hasSpawns' = (hasSpawns \/ spawns)
  /\ UNCHANGED <<frameVars, dependents, inDegree, flagVars, poolVars, task>>

\* Variants: no notify_one when nodes are freed; no notify_all at the end.
WokenAtEnd(pushes) ==
  IF completed + 1 = N THEN {Sleeping} ELSE {{}}

WokenByPushesOnly(pushes) ==
  {W \in SUBSET Sleeping :
     Cardinality(W) = IF pushes < Cardinality(Sleeping)
                      THEN pushes
                      ELSE Cardinality(Sleeping)}

\* Who wakes when `pushes' nodes became ready: one sleeper for each
\* notify_one, everyone on the notify_all of the last commit.
Woken(pushes) ==
  IF completed + 1 = N
  THEN {Sleeping}
  ELSE {W \in SUBSET Sleeping :
          Cardinality(W) = IF pushes < Cardinality(Sleeping)
                           THEN pushes
                           ELSE Cardinality(Sleeping)}

\* Variants: dependents are queued without looking at in_degree; an index is
\* off by one.
FreedEarly(n) == dependents[n]
FreedShifted(n) == {j + 1 : j \in {i \in dependents[n] : inDegree[i] = 1}}

\* The dependents of n that wait for nothing else.
Freed(n) == {j \in dependents[n] : inDegree[j] = 1}

\* Variant: a skipped node keeps the poison to itself.
PoisonsOnCrash(t) == outcome[t] = "crash"

\* A node that crashed or was skipped aborts its dependents.
Poisons(t) == outcome[t] # "ok"

\* commit_node_result, with abort_immediate_dependents when n is dead.
Commit(t) ==
  LET n == task[t]
  IN  /\ pc[t] = "commit"
      /\ executed' = [executed EXCEPT ![n] = TRUE]
      /\ failed' = [failed EXCEPT ![n] = @ \/ outcome[t] = "crash"]
      /\ aborted' = [j \in Node |->
                       aborted[j] \/ (Poisons(t) /\ j \in dependents[n])]
      /\ inDegree' = [j \in Node |->
                        IF j \in dependents[n] THEN inDegree[j] - 1
                                               ELSE inDegree[j]]
      /\ \E s \in Ascending(Freed(n)) : readyQueue' = readyQueue \o s
      /\ completed' = completed + 1
      /\ committed' = committed \union {n}
      /\ \E W \in Woken(Cardinality(Freed(n))) :
           pc' = [u \in Worker |-> IF u \in W \union {t} THEN "acquire"
                                                         ELSE pc[u]]
      /\ UNCHANGED <<frameVars, hasSpawns, dependents, task, outcome>>

WorkerStep(t) ==
  \/ Take(t)
  \/ Sleep(t)
  \/ Leave(t)
  \/ CheckFlags(t)
  \/ RunPayload(t)
  \/ Commit(t)

Next ==
  \/ BeginFrame
  \/ \E g \in Graphs : BeginPass(g)
  \/ SpawnCommitThrows
  \/ EndPass
  \/ \E t \in Worker : WorkerStep(t) \/ WakeUnnotified(t)

Spec == Init /\ [][Next]_vars

\* Every thread is scheduled: a worker that can take a step of its own takes
\* it, and the caller goes on from one pass to its end.  Nothing promises
\* that execute_frame is called again, or that a sleeper wakes by itself.
Fairness ==
  /\ \A t \in Worker : WF_vars(WorkerStep(t))
  /\ WF_vars(EndPass)
  /\ WF_vars(\E g \in Graphs : BeginPass(g))

FairSpec == Spec /\ Fairness

-----------------------------------------------------------------------------
(* Properties.                                                             *)

TypeOK ==
  /\ phase \in {"idle", "prepare", "dispatch", "exhausted", "deadlock",
                "overrun"}
  /\ reEntry \in Nat
  /\ hasSpawns \in BOOLEAN
  /\ dependents \in [Node -> SUBSET Node]
  /\ inDegree \in [Node -> Int]
  /\ executed \in [Node -> BOOLEAN]
  /\ failed \in [Node -> BOOLEAN]
  /\ aborted \in [Node -> BOOLEAN]
  /\ readyQueue \in Seq(Node)
  /\ completed \in Nat
  /\ committed \in SUBSET Node
  /\ pc \in [Worker -> {"acquire", "wait", "check", "payload", "commit",
                        "exit"}]
  /\ task \in [Worker -> Node]
  /\ outcome \in [Worker -> {"none", "ok", "crash"}]

\* Systems joined by an edge never overlap: when a worker has so much as
\* taken a node off the queue, every node before it has been committed.
ConflictsSerialized ==
  \A t \in Worker, i, j \in Node :
    Holds(t, j) /\ j \in dependents[i] => i \in committed

\* A node is queued or held once, by one worker, and never after its commit:
\* no payload runs twice in a pass.
DispatchedOnce ==
  /\ \A a, b \in 1..Len(readyQueue) :
       readyQueue[a] = readyQueue[b] => a = b
  /\ \A t \in Worker, n \in Node : Holds(t, n) =>
       /\ n \notin committed
       /\ \A a \in 1..Len(readyQueue) : readyQueue[a] # n
       /\ \A u \in Worker : Holds(u, n) => u = t

\* Poison gets there first: a payload never runs when something before it
\* failed or was aborted in this pass.
NoRunOnPoison ==
  \A t \in Worker, i \in Node :
    pc[t] = "payload" /\ task[t] \in dependents[i] => ~Dead(i)

\* Nobody is given up on: a worker leaves only when every node of the pass
\* has been committed, and so dispatch_tasks never reports a deadlock.
NobodyLeftBehind ==
  /\ phase = "dispatch" =>
       \A t \in Worker : pc[t] = "exit" => committed = Node
  /\ phase # "deadlock"

\* Notifications suffice: when some worker sleeps, each queued node has an
\* awake worker on its way to the queue; and nobody sleeps through the end.
NoLostWakeup ==
  Sleeping # {} =>
    /\ completed # N
    /\ Len(readyQueue) <= Cardinality({t \in Worker : pc[t] = "acquire"})

\* The flags execute_node_payload reads without the mutex cannot change
\* under it: no other worker's commit touches a node that is held.
FlagsStableWhileHeld ==
  [][\A t, u \in Worker, n \in Node :
       Holds(t, n) /\ Commit(u) /\ u # t =>
         failed'[n] = failed[n] /\ aborted'[n] = aborted[n]]_vars

\* An independent branch is spared: a node becomes aborted only together
\* with the commit of a dead node it directly depends on.
OnlyDownstreamAborted ==
  [][\A n \in Node : aborted'[n] /\ ~aborted[n] =>
       \E i \in Pred(n) : i \in committed' \ committed /\ Dead(i)']_vars

\* execute_frame comes back, by returning or by throwing.
FrameEnds == phase = "prepare" ~> phase \notin {"prepare", "dispatch"}

\* dispatch_tasks runs each pass as the dependency graph promises.
Dag == INSTANCE DagRun WITH
  open <- phase = "dispatch",
  edges <- IF phase = "dispatch" THEN dependents ELSE [n \in {} |-> {}],
  running <- {n \in Node : \E t \in Worker :
                /\ Holds(t, n)
                /\ \/ pc[t] = "payload"
                   \/ pc[t] = "commit" /\ outcome[t] # "none"},
  resolved <- IF phase = "dispatch" THEN committed ELSE {},
  dead <- {n \in Node : Dead(n)}

DispatchRunsTheDag == Dag!Spec

-----------------------------------------------------------------------------
(* The inductive invariant behind the safety properties.                   *)

\* in_degree counts the dependencies still open; tasks_completed the commits.
CountersExact ==
  /\ \A j \in Node : inDegree[j] = Cardinality(Pred(j) \ committed)
  /\ completed = Cardinality(committed)

\* Only nodes with nothing left to wait for are queued or held.
ReadyIsReady ==
  /\ \A a \in 1..Len(readyQueue) :
       inDegree[readyQueue[a]] = 0 /\ readyQueue[a] \notin committed
  /\ \A t \in Worker, n \in Node : Holds(t, n) => inDegree[n] = 0

\* Commits respect the graph and leave their marks on it.
CommitsClosed ==
  \A i \in committed :
    /\ executed[i]
    /\ Pred(i) \subseteq committed
    /\ Dead(i) => \A j \in dependents[i] : aborted[j]

\* A worker's ExecutionResult still agrees with the flags of its node.
ResultsCurrent ==
  \A t \in Worker :
    /\ pc[t] = "payload" => ~Dead(task[t])
    /\ pc[t] = "commit" => (outcome[t] = "none" <=> Dead(task[t]))

\* Threads live only inside dispatch_tasks and outlast its last commit.
ThreadsInside ==
  /\ phase # "dispatch" => \A t \in Worker : pc[t] = "exit"
  /\ phase = "dispatch" => \A t \in Worker : pc[t] = "exit" => completed = N

IInv ==
  /\ TypeOK
  /\ \A i \in Node : \A j \in dependents[i] : i < j
  /\ CountersExact
  /\ ReadyIsReady
  /\ DispatchedOnce
  /\ CommitsClosed
  /\ ResultsCurrent
  /\ ThreadsInside
  /\ phase # "deadlock"

=============================================================================
