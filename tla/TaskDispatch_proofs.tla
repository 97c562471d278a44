------------------------- MODULE TaskDispatch_proofs -------------------------
(***************************************************************************)
(* Proofs about TaskDispatch for every number of systems, every set of     *)
(* threads and every set of forward graphs.                                *)
(***************************************************************************)
EXTENDS TaskDispatch, FiniteSetTheorems, SequenceTheorems, TLAPS

USE SystemsAssumption, WorkerAssumption, ReEntryAssumption

-----------------------------------------------------------------------------
(* Facts about the operators of the specification.                         *)

\* The systems are finitely many, N of them.
LEMMA NodesFinite ==
  /\ IsFiniteSet(Node)
  /\ Cardinality(Node) = N
  /\ \A S \in SUBSET Node : IsFiniteSet(S) /\ Cardinality(S) \in Nat
<1>1. IsFiniteSet(Node) /\ Cardinality(Node) = N
  BY FS_Interval DEF Node
<1>2. ASSUME NEW S \in SUBSET Node
      PROVE  IsFiniteSet(S) /\ Cardinality(S) \in Nat
  BY <1>1, FS_Subset, FS_CardinalityType
<1> QED  BY <1>1, <1>2

\* An ascending enumeration is a sequence over S without repetition.
LEMMA AscendingIsSeq ==
  ASSUME NEW S \in SUBSET Node, NEW s \in Ascending(S)
  PROVE  /\ s \in Seq(Node)
         /\ \A a \in 1..Len(s) : s[a] \in S
         /\ \A a, b \in 1..Len(s) : s[a] = s[b] => a = b
<1>1. Cardinality(S) \in Nat
  BY NodesFinite
<1>2. /\ s \in [1..Cardinality(S) -> S]
      /\ \A i, j \in 1..Cardinality(S) : i < j => s[i] < s[j]
  BY DEF Ascending
<1>3. s \in Seq(Node) /\ Len(s) = Cardinality(S)
  BY <1>1, <1>2
<1>4. \A a \in 1..Len(s) : s[a] \in S /\ s[a] \in Int
  BY <1>1, <1>2, <1>3 DEF Node
<1>5. \A a, b \in 1..Len(s) : a < b \/ b < a \/ a = b
  BY <1>1, <1>3
<1>6. \A a, b \in 1..Len(s) : s[a] = s[b] => a = b
  BY <1>2, <1>3, <1>4, <1>5
<1> QED  BY <1>3, <1>4, <1>6

-----------------------------------------------------------------------------
(* Type correctness.                                                       *)

LEMMA TypeInit == Init => TypeOK
<1> SUFFICES ASSUME Init PROVE TypeOK
  OBVIOUS
<1>1. 1 \in Node /\ {} \in SUBSET Node
  BY DEF Node
<1>2. <<>> \in Seq(Node)
  OBVIOUS
<1>3. /\ executed \in [Node -> BOOLEAN]
      /\ failed \in [Node -> BOOLEAN]
      /\ aborted \in [Node -> BOOLEAN]
      /\ hasSpawns \in BOOLEAN
  BY Zenon DEF Init
<1>4. /\ inDegree \in [Node -> Int]
      /\ dependents \in [Node -> SUBSET Node]
      /\ task \in [Worker -> Node]
  BY <1>1 DEF Init
<1> QED  BY <1>1, <1>2, <1>3, <1>4 DEF Init, TypeOK

\* No step leaves the state space of TypeOK.
LEMMA TypeNext == TypeOK /\ [Next]_vars => TypeOK'
<1> SUFFICES ASSUME TypeOK, [Next]_vars PROVE TypeOK'
  OBVIOUS
<1> USE DEF TypeOK
<1>1. CASE BeginFrame
  BY <1>1 DEF BeginFrame, poolVars, workerVars
<1>2. ASSUME NEW g \in Graphs, BeginPass(g) PROVE TypeOK'
  <2>1. dependents' \in [Node -> SUBSET Node]
    BY <1>2, GraphsAssumption DEF BeginPass
  <2>2. inDegree' \in [Node -> Int]
    <3>1. \A j \in Node : Cardinality({i \in Node : j \in g[i]}) \in Int
      BY NodesFinite
    <3> QED  BY <1>2, <3>1 DEF BeginPass
  <2>3. readyQueue' \in Seq(Node)
    BY <1>2, AscendingIsSeq DEF BeginPass
  <2>4. executed' \in [Node -> BOOLEAN]
    BY <1>2, Zenon DEF BeginPass, Dead
  <2>5. hasSpawns' \in BOOLEAN
    BY <1>2, Zenon DEF BeginPass
  <2>6. /\ phase' = "dispatch"
        /\ completed' = 0
        /\ committed' = {}
        /\ pc' = [t \in Worker |-> "acquire"]
        /\ UNCHANGED <<reEntry, failed, aborted, task, outcome>>
    BY <1>2 DEF BeginPass
  <2> QED  BY <2>1, <2>2, <2>3, <2>4, <2>5, <2>6
<1>3. CASE SpawnCommitThrows
  BY <1>3 DEF SpawnCommitThrows, flagVars, poolVars, workerVars
<1>4. CASE EndPass
  BY <1>4 DEF EndPass, flagVars, poolVars, workerVars
<1>5. ASSUME NEW t \in Worker, Take(t) PROVE TypeOK'
  <2>1. Head(readyQueue) \in Node /\ Tail(readyQueue) \in Seq(Node)
    BY <1>5, HeadTailProperties DEF Take
  <2> QED  BY <1>5, <2>1 DEF Take, frameVars, flagVars
<1>6. ASSUME NEW t \in Worker, Sleep(t) PROVE TypeOK'
  BY <1>6 DEF Sleep, frameVars, flagVars, poolVars
<1>7. ASSUME NEW t \in Worker, Leave(t) PROVE TypeOK'
  BY <1>7 DEF Leave, frameVars, flagVars, poolVars
<1>8. ASSUME NEW t \in Worker, CheckFlags(t) PROVE TypeOK'
  BY <1>8 DEF CheckFlags, frameVars, flagVars, poolVars
<1>9. ASSUME NEW t \in Worker, RunPayload(t) PROVE TypeOK'
  BY <1>9 DEF RunPayload, frameVars, flagVars, poolVars
<1>10. ASSUME NEW t \in Worker, Commit(t) PROVE TypeOK'
  <2> DEFINE n == task[t]
             freed == {j \in dependents[n] : inDegree[j] = 1}
  <2>1. n \in Node /\ freed \in SUBSET Node
    OBVIOUS
  <2>2. readyQueue' \in Seq(Node)
    <3>1. PICK s \in Ascending(freed) : readyQueue' = readyQueue \o s
      BY <1>10 DEF Commit, Freed, Poisons
    <3>2. s \in Seq(Node)
      BY <2>1, AscendingIsSeq
    <3> QED  BY <3>1, <3>2, ConcatProperties
  <2>3. pc' \in [Worker -> {"acquire", "wait", "check", "payload", "commit",
                            "exit"}]
    BY <1>10 DEF Commit, Freed, Poisons
  <2>4. failed' \in [Node -> BOOLEAN]
    BY <1>10, Zenon DEF Commit, Freed, Poisons
  <2>5. aborted' \in [Node -> BOOLEAN]
    BY <1>10, Zenon DEF Commit, Freed, Poisons
  <2>6. inDegree' \in [Node -> Int]
    BY <1>10 DEF Commit, Freed, Poisons
  <2>7. executed' \in [Node -> BOOLEAN]
    BY <1>10 DEF Commit, Freed, Poisons
  <2>8. /\ completed' = completed + 1
        /\ committed' = committed \union {n}
        /\ UNCHANGED <<phase, reEntry, hasSpawns, dependents, task, outcome>>
    BY <1>10 DEF Commit, Freed, Poisons, frameVars
  <2> QED  BY <2>1, <2>2, <2>3, <2>4, <2>5, <2>6, <2>7, <2>8
<1>11. ASSUME NEW t \in Worker, WakeUnnotified(t) PROVE TypeOK'
  BY <1>11 DEF WakeUnnotified, frameVars, flagVars, poolVars
<1>12. CASE UNCHANGED vars
  BY <1>12 DEF vars, frameVars, flagVars, poolVars, workerVars
<1> QED
  BY <1>1, <1>2, <1>3, <1>4, <1>5, <1>6, <1>7, <1>8, <1>9, <1>10, <1>11,
     <1>12 DEF Next, WorkerStep

\* Every reachable state of the dispatcher is well typed.
THEOREM TypeCorrect == Spec => []TypeOK
<1>1. Init => TypeOK
  BY TypeInit
<1>2. TypeOK /\ [Next]_vars => TypeOK'
  BY TypeNext
<1> QED  BY <1>1, <1>2, PTL DEF Spec

-----------------------------------------------------------------------------
(* The inductive invariant.                                                *)

LEMMA IInvInit == Init => IInv
<1> SUFFICES ASSUME Init PROVE IInv
  OBVIOUS
<1>1. TypeOK
  BY TypeInit
<1>2. CountersExact
  <2>1. \A j \in Node : Pred(j) \ committed = {}
    BY DEF Init, Pred
  <2> QED  BY <2>1, FS_EmptySet DEF CountersExact, Init
<1>3. Len(readyQueue) = 0
  BY DEF Init
<1>4. \A t \in Worker : pc[t] = "exit"
  BY DEF Init
<1>5. ReadyIsReady /\ DispatchedOnce
  BY <1>3, <1>4 DEF ReadyIsReady, DispatchedOnce, Holds
<1>6. CommitsClosed /\ ResultsCurrent /\ ThreadsInside /\ phase # "deadlock"
  BY <1>4 DEF Init, CommitsClosed, ResultsCurrent, ThreadsInside
<1>7. \A i \in Node : \A j \in dependents[i] : i < j
  BY DEF Init
<1> QED  BY <1>1, <1>2, <1>5, <1>6, <1>7 DEF IInv

\* What a held node owes to the graph: nothing before it is left to commit.
LEMMA HeldPredecessors ==
  ASSUME IInv, NEW j \in Node, inDegree[j] = 0
  PROVE  Pred(j) \subseteq committed
<1>1. Cardinality(Pred(j) \ committed) = 0
  BY DEF IInv, CountersExact
<1>2. IsFiniteSet(Pred(j) \ committed)
  BY NodesFinite DEF Pred
<1> QED  BY <1>1, <1>2, FS_EmptySet

\* When the count of commits reaches N, every node has been committed.
LEMMA AllCommitted ==
  ASSUME IInv, completed = N
  PROVE  committed = Node
<1>1. committed \in SUBSET Node /\ Cardinality(committed) = Cardinality(Node)
  BY NodesFinite DEF IInv, TypeOK, CountersExact
<1> QED  BY <1>1, NodesFinite, FS_Subset

\* A new pass starts with exact counters and the sources of its graph.
LEMMA IInvBeginPass ==
  ASSUME IInv, NEW g \in Graphs, BeginPass(g)
  PROVE  IInv'
<1> USE DEF IInv
<1>1. TypeOK'
  <2>1. [Next]_vars
    BY DEF Next
  <2> QED  BY <2>1, TypeNext
<1>2. dependents' = g /\ committed' = {} /\ completed' = 0
  BY DEF BeginPass
<1>3. \A t \in Worker : pc'[t] = "acquire"
  BY DEF BeginPass
<1>4. \A j \in Node : Pred(j)' = {i \in Node : j \in g[i]}
  BY <1>2 DEF Pred
<1>5. \A j \in Node : inDegree'[j] = Cardinality(Pred(j)')
  BY <1>4 DEF BeginPass
<1>6. CountersExact'
  <2>1. \A j \in Node : Pred(j)' \ committed' = Pred(j)'
    BY <1>2
  <2> QED  BY <1>2, <1>5, <2>1, FS_EmptySet DEF CountersExact
<1>7. ReadyIsReady' /\ DispatchedOnce'
  <2> DEFINE S == {j \in Node : inDegree'[j] = 0}
  <2>1. readyQueue' \in Ascending(S) /\ S \in SUBSET Node
    BY DEF BeginPass
  <2>2. /\ \A a \in 1..Len(readyQueue') : readyQueue'[a] \in S
        /\ \A a, b \in 1..Len(readyQueue') :
             readyQueue'[a] = readyQueue'[b] => a = b
    BY <2>1, AscendingIsSeq
  <2>3. \A t \in Worker, n \in Node : ~Holds(t, n)'
    BY <1>3 DEF Holds
  <2> QED  BY <1>2, <2>2, <2>3 DEF ReadyIsReady, DispatchedOnce
<1>8. CommitsClosed' /\ ResultsCurrent'
  BY <1>2, <1>3 DEF CommitsClosed, ResultsCurrent
<1>9. ThreadsInside' /\ phase' # "deadlock"
  BY <1>3 DEF ThreadsInside, BeginPass
<1>10. \A i \in Node : \A j \in dependents'[i] : i < j
  BY <1>2, GraphsAssumption
<1> QED  BY <1>1, <1>6, <1>7, <1>8, <1>9, <1>10

\* A worker takes over what the queue said about the node at its head.
LEMMA IInvTake ==
  ASSUME IInv, NEW t \in Worker, Take(t)
  PROVE  IInv'
<1> USE DEF IInv
<1> DEFINE n == Head(readyQueue)
<1>1. TypeOK'
  <2>1. [Next]_vars
    BY DEF Next, WorkerStep
  <2> QED  BY <2>1, TypeNext
<1>2. /\ readyQueue \in Seq(Node)
      /\ readyQueue # <<>>
      /\ pc[t] = "acquire"
      /\ pc' = [pc EXCEPT ![t] = "check"]
      /\ task' = [task EXCEPT ![t] = n]
      /\ readyQueue' = Tail(readyQueue)
      /\ UNCHANGED <<phase, reEntry, hasSpawns, dependents, inDegree, executed,
                     failed, aborted, completed, committed, outcome>>
  BY DEF Take, TypeOK, frameVars, flagVars
<1>3. /\ n \in Node
      /\ n = readyQueue[1]
      /\ Len(readyQueue) \in Nat \ {0}
      /\ Len(Tail(readyQueue)) = Len(readyQueue) - 1
      /\ \A a \in 1..Len(Tail(readyQueue)) :
           Tail(readyQueue)[a] = readyQueue[a + 1]
  BY <1>2, HeadTailProperties, EmptySeq
<1>4. \A a \in 1..Len(readyQueue') : /\ readyQueue'[a] = readyQueue[a + 1]
                                     /\ a + 1 \in 1..Len(readyQueue)
                                     /\ a + 1 # 1
  BY <1>2, <1>3
<1>5. pc'[t] = "check" /\ task'[t] = n
  BY <1>2 DEF TypeOK
<1>6. \A u \in Worker : u # t => pc'[u] = pc[u] /\ task'[u] = task[u]
  BY <1>2 DEF TypeOK
<1>7. ~\E m \in Node : Holds(t, m)
  BY <1>2 DEF Holds
<1>8. \A u \in Worker, m \in Node :
        Holds(u, m)' <=> (Holds(u, m) \/ (u = t /\ m = n))
  BY <1>5, <1>6, <1>7 DEF Holds
<1>9. CountersExact'
  BY <1>2 DEF CountersExact, Pred
<1>10. /\ 1 \in 1..Len(readyQueue)
       /\ inDegree[n] = 0
       /\ n \notin committed
  BY <1>3 DEF ReadyIsReady
<1>11. ReadyIsReady'
  BY <1>2, <1>4, <1>8, <1>10 DEF ReadyIsReady
<1>12. DispatchedOnce'
  <2>1. \A a, b \in 1..Len(readyQueue') :
          readyQueue'[a] = readyQueue'[b] => a = b
    <3> SUFFICES ASSUME NEW a \in 1..Len(readyQueue'),
                        NEW b \in 1..Len(readyQueue'),
                        readyQueue'[a] = readyQueue'[b]
                 PROVE  a = b
      OBVIOUS
    <3>1. a + 1 = b + 1
      BY <1>4 DEF DispatchedOnce
    <3> QED  BY <3>1
  <2>2. \A a \in 1..Len(readyQueue') : readyQueue'[a] # n
    BY <1>3, <1>4, <1>10 DEF DispatchedOnce
  <2>3. \A u \in Worker : ~Holds(u, n)
    BY <1>3, <1>10 DEF DispatchedOnce
  <2>4. \A u \in Worker, m \in Node : Holds(u, m) =>
          \A a \in 1..Len(readyQueue') : readyQueue'[a] # m
    BY <1>4 DEF DispatchedOnce
  <2> QED
    BY <1>2, <1>8, <1>10, <2>1, <2>2, <2>3, <2>4 DEF DispatchedOnce
<1>13. CommitsClosed'
  BY <1>2 DEF CommitsClosed, Pred, Dead
<1>14. ResultsCurrent'
  BY <1>2, <1>5, <1>6 DEF ResultsCurrent, Dead
<1>15. ThreadsInside' /\ phase' # "deadlock"
  BY <1>2, <1>5, <1>6 DEF ThreadsInside
<1>16. \A i \in Node : \A j \in dependents'[i] : i < j
  BY <1>2
<1> QED  BY <1>1, <1>9, <1>11, <1>12, <1>13, <1>14, <1>15, <1>16

\* Steps that move one worker and touch neither the graph nor the pool.
LEMMA IInvMove ==
  ASSUME IInv, NEW t \in Worker,
         \/ Sleep(t)
         \/ Leave(t)
         \/ WakeUnnotified(t)
         \/ CheckFlags(t)
         \/ RunPayload(t)
  PROVE  IInv'
<1> USE DEF IInv
<1>1. TypeOK'
  <2>1. [Next]_vars
    BY DEF Next, WorkerStep
  <2> QED  BY <2>1, TypeNext
<1>2. /\ UNCHANGED <<phase, reEntry, dependents, inDegree, executed, failed,
                     aborted, readyQueue, completed, committed, task>>
      /\ \A u \in Worker : u # t => pc'[u] = pc[u] /\ outcome'[u] = outcome[u]
  BY DEF Sleep, Leave, WakeUnnotified, CheckFlags, RunPayload, frameVars,
         flagVars, poolVars, TypeOK
<1>3. /\ pc'[t] \in {"check", "payload", "commit"} =>
           pc[t] \in {"check", "payload", "commit"}
      /\ pc'[t] = "exit" => completed = N
      /\ pc[t] # "exit"
  BY DEF Sleep, Leave, WakeUnnotified, CheckFlags, RunPayload, TypeOK
<1>4. /\ pc'[t] = "payload" => ~Dead(task[t])
      /\ pc'[t] = "commit" => (outcome'[t] = "none" <=> Dead(task[t]))
  <2>1. CASE CheckFlags(t)
    BY <2>1 DEF CheckFlags, TypeOK
  <2>2. CASE RunPayload(t)
    <3>1. outcome'[t] \in {"ok", "crash"} /\ pc'[t] = "commit"
      BY <2>2 DEF RunPayload, TypeOK
    <3>2. ~Dead(task[t])
      BY <2>2 DEF RunPayload, ResultsCurrent
    <3> QED  BY <3>1, <3>2
  <2>3. CASE Sleep(t) \/ Leave(t) \/ WakeUnnotified(t)
    BY <2>3 DEF Sleep, Leave, WakeUnnotified, TypeOK
  <2> QED  BY <2>1, <2>2, <2>3
<1>5. \A u \in Worker, m \in Node : Holds(u, m)' => Holds(u, m)
  BY <1>2, <1>3 DEF Holds
<1>6. CountersExact' /\ CommitsClosed'
  BY <1>2 DEF CountersExact, CommitsClosed, Pred, Dead
<1>7. ReadyIsReady'
  BY <1>2, <1>5 DEF ReadyIsReady
<1>8. DispatchedOnce'
  BY <1>2, <1>5 DEF DispatchedOnce
<1>9. ResultsCurrent'
  BY <1>2, <1>4 DEF ResultsCurrent, Dead
<1>10. ThreadsInside' /\ phase' # "deadlock"
  BY <1>2, <1>3 DEF ThreadsInside
<1>11. \A i \in Node : \A j \in dependents'[i] : i < j
  BY <1>2
<1> QED  BY <1>1, <1>6, <1>7, <1>8, <1>9, <1>10, <1>11

\* Steps of the caller between passes; EndPass finds nothing unresolved.
LEMMA IInvCaller ==
  ASSUME IInv, BeginFrame \/ SpawnCommitThrows \/ EndPass
  PROVE  IInv'
<1> USE DEF IInv
<1>1. TypeOK'
  <2>1. [Next]_vars
    BY DEF Next
  <2> QED  BY <2>1, TypeNext
<1>2. /\ UNCHANGED <<dependents, inDegree, executed, readyQueue, completed,
                     committed, pc, task, outcome>>
      /\ \A t \in Worker : pc[t] = "exit"
  BY DEF BeginFrame, SpawnCommitThrows, EndPass, flagVars, poolVars,
         workerVars, ThreadsInside
<1>3. phase' # "deadlock" /\ phase' # "dispatch"
  <2>1. CASE BeginFrame \/ SpawnCommitThrows
    BY <2>1 DEF BeginFrame, SpawnCommitThrows
  <2>2. CASE EndPass
    <3>1. \E t \in Worker : pc[t] = "exit" /\ phase = "dispatch"
      BY <2>2, <1>2 DEF EndPass
    <3>2. committed = Node
      BY <3>1, AllCommitted DEF ThreadsInside
    <3>3. \A n \in Node : executed[n]
      BY <3>2 DEF CommitsClosed
    <3> QED  BY <2>2, <3>3 DEF EndPass
  <2> QED  BY <2>1, <2>2
<1>4. CommitsClosed'
  <2>1. CASE BeginFrame
    <3>1. \A n \in Node : ~Dead(n)'
      BY <2>1 DEF BeginFrame, Dead
    <3> QED  BY <1>2, <3>1 DEF CommitsClosed, Pred, TypeOK
  <2>2. CASE SpawnCommitThrows \/ EndPass
    BY <2>2 DEF SpawnCommitThrows, EndPass, flagVars, poolVars, CommitsClosed,
                Pred, Dead
  <2> QED  BY <2>1, <2>2
<1>5. CountersExact' /\ ReadyIsReady' /\ DispatchedOnce' /\ ResultsCurrent'
  BY <1>2 DEF CountersExact, ReadyIsReady, DispatchedOnce, ResultsCurrent,
              Pred, Holds
<1>6. ThreadsInside'
  BY <1>2, <1>3 DEF ThreadsInside
<1>7. \A i \in Node : \A j \in dependents'[i] : i < j
  BY <1>2
<1> QED  BY <1>1, <1>3, <1>4, <1>5, <1>6, <1>7

\* The commit of a node: exactly its dependents lose one open dependency, and
\* those nobody else stands before join the queue.
LEMMA IInvCommit ==
  ASSUME IInv, NEW t \in Worker, Commit(t)
  PROVE  IInv'
<1> USE DEF IInv
<1> DEFINE n == task[t]
           freed == {j \in dependents[n] : inDegree[j] = 1}
<1>1. TypeOK'
  <2>1. [Next]_vars
    BY DEF Next, WorkerStep
  <2> QED  BY <2>1, TypeNext
<1>2. /\ n \in Node
      /\ pc[t] = "commit"
      /\ executed' = [executed EXCEPT ![n] = TRUE]
      /\ failed' = [failed EXCEPT ![n] = @ \/ outcome[t] = "crash"]
      /\ aborted' = [j \in Node |-> aborted[j]
                            \/ (outcome[t] # "ok" /\ j \in dependents[n])]
      /\ inDegree' = [j \in Node |-> IF j \in dependents[n]
                                     THEN inDegree[j] - 1 ELSE inDegree[j]]
      /\ completed' = completed + 1
      /\ committed' = committed \union {n}
      /\ UNCHANGED <<phase, reEntry, hasSpawns, dependents, task, outcome>>
  <2>1. n \in Node
    BY DEF TypeOK
  <2>2. /\ failed' = [failed EXCEPT ![n] = @ \/ outcome[t] = "crash"]
        /\ aborted' = [j \in Node |->
                         aborted[j] \/ (outcome[t] # "ok" /\ j \in dependents[n])]
    BY Zenon DEF Commit, Freed, Poisons
  <2> QED  BY <2>1, <2>2 DEF Commit, Freed, Poisons, frameVars
<1>3. PICK s \in Ascending(freed) : readyQueue' = readyQueue \o s
  BY DEF Commit, Freed, Poisons
<1>4. /\ freed \in SUBSET Node
      /\ s \in Seq(Node)
      /\ \A a \in 1..Len(s) : s[a] \in freed
      /\ \A a, b \in 1..Len(s) : s[a] = s[b] => a = b
  <2>1. freed \in SUBSET Node
    BY <1>2 DEF TypeOK
  <2> QED  BY <2>1, AscendingIsSeq
<1>5. /\ pc'[t] = "acquire"
      /\ \A u \in Worker : pc'[u] = pc[u] \/ pc'[u] = "acquire"
  BY DEF Commit, Freed, Poisons, TypeOK
<1>6. \A u \in Worker, m \in Node : Holds(u, m)' => Holds(u, m) /\ u # t
  BY <1>2, <1>5 DEF Holds
<1>7. Holds(t, n) /\ n \notin committed /\ inDegree[n] = 0
  BY <1>2 DEF Holds, DispatchedOnce, ReadyIsReady
<1>8. \A j \in Node : Pred(j)' = Pred(j)
  BY <1>2 DEF Pred
<1>9. \A j \in Node : n \in Pred(j) <=> j \in dependents[n]
  BY <1>2 DEF Pred
\* Whatever is committed or ready has no edge from n.
<1>10. \A j \in Node : j \in committed \/ inDegree[j] = 0 =>
         j \notin dependents[n]
  <2>1. \A j \in Node : j \in committed \/ inDegree[j] = 0 =>
          Pred(j) \subseteq committed
    BY HeldPredecessors DEF CommitsClosed
  <2> QED  BY <1>7, <1>9, <2>1
<1>11. CountersExact'
  <2>1. ASSUME NEW j \in Node
        PROVE  inDegree'[j] = Cardinality(Pred(j) \ committed')
    <3> DEFINE P == Pred(j) \ committed
    <3>1. P \in SUBSET Node /\ IsFiniteSet(P) /\ Cardinality(P) \in Nat
      BY NodesFinite DEF Pred
    <3>2. Pred(j) \ committed' = P \ {n}
      BY <1>2
    <3>3. Cardinality(P \ {n}) = IF n \in P THEN Cardinality(P) - 1
                                            ELSE Cardinality(P)
      BY <3>1, FS_RemoveElement
    <3>4. n \in P <=> j \in dependents[n]
      BY <1>7, <1>9
    <3>5. inDegree[j] = Cardinality(P)
      BY DEF CountersExact
    <3> QED  BY <1>2, <3>2, <3>3, <3>4, <3>5
  <2>2. completed' = Cardinality(committed')
    <3>1. IsFiniteSet(committed)
      BY NodesFinite DEF TypeOK
    <3>2. Cardinality(committed \union {n}) = Cardinality(committed) + 1
      BY <1>7, <3>1, FS_AddElement
    <3> QED  BY <1>2, <3>2 DEF CountersExact
  <2> QED  BY <1>8, <2>1, <2>2 DEF CountersExact
<1>12. /\ readyQueue \in Seq(Node)
       /\ Len(readyQueue) \in Nat
       /\ Len(s) \in Nat
       /\ Len(readyQueue') = Len(readyQueue) + Len(s)
       /\ \A a \in 1..Len(readyQueue') :
            readyQueue'[a] = IF a <= Len(readyQueue)
                             THEN readyQueue[a] ELSE s[a - Len(readyQueue)]
  BY <1>3, <1>4, ConcatProperties, LenProperties DEF TypeOK
<1>13. \A a \in 1..Len(readyQueue') :
         \/ a \in 1..Len(readyQueue) /\ readyQueue'[a] = readyQueue[a]
         \/ /\ a > Len(readyQueue)
            /\ a - Len(readyQueue) \in 1..Len(s)
            /\ readyQueue'[a] = s[a - Len(readyQueue)]
  BY <1>12
<1>13a. \A a \in 1..Len(readyQueue') :
         a \in 1..Len(readyQueue) \/ readyQueue'[a] \in freed
  BY <1>4, <1>13
<1>14. \A a \in 1..Len(readyQueue) :
         /\ readyQueue[a] \in Node
         /\ inDegree[readyQueue[a]] = 0
         /\ readyQueue[a] \notin committed
         /\ readyQueue[a] # n
         /\ readyQueue[a] \notin dependents[n]
  BY <1>7, <1>10, <1>12, ElementOfSeq DEF ReadyIsReady, DispatchedOnce
<1>15. \A j \in freed :
         /\ j \in Node /\ j # n
         /\ j \in dependents[n] /\ inDegree[j] = 1 /\ inDegree'[j] = 0
         /\ j \notin committed
  BY <1>2, <1>4, <1>7, <1>10
<1>16. ReadyIsReady'
  <2>1. ASSUME NEW a \in 1..Len(readyQueue')
        PROVE  inDegree'[readyQueue'[a]] = 0 /\ readyQueue'[a] \notin committed'
    <3>1. CASE a \in 1..Len(readyQueue)
      BY <1>2, <1>12, <1>14, <3>1
    <3>2. CASE readyQueue'[a] \in freed
      BY <1>2, <1>15, <3>2
    <3> QED  BY <1>13a, <3>1, <3>2
  <2>2. ASSUME NEW u \in Worker, NEW m \in Node, Holds(u, m)'
        PROVE  inDegree'[m] = 0
    <3>1. inDegree[m] = 0
      BY <1>6, <2>2 DEF ReadyIsReady
    <3> QED  BY <1>2, <1>10, <3>1
  <2> QED  BY <2>1, <2>2 DEF ReadyIsReady
<1>17. DispatchedOnce'
  <2>1. ASSUME NEW a \in 1..Len(readyQueue'), NEW b \in 1..Len(readyQueue'),
               readyQueue'[a] = readyQueue'[b]
        PROVE  a = b
    <3>1. CASE a \in 1..Len(readyQueue) /\ b \in 1..Len(readyQueue)
      BY <1>12, <2>1, <3>1 DEF DispatchedOnce
    <3>2. CASE a > Len(readyQueue) /\ b > Len(readyQueue)
      <4> DEFINE c == a - Len(readyQueue)
                 d == b - Len(readyQueue)
      <4>1. c \in 1..Len(s) /\ d \in 1..Len(s) /\ s[c] = s[d]
        BY <1>12, <2>1, <3>2
      <4>2. c = d
        BY <1>4, <4>1
      <4> QED  BY <1>12, <4>2
    <3>3. CASE a \in 1..Len(readyQueue) /\ b > Len(readyQueue)
      BY <1>4, <1>13, <1>14, <1>15, <2>1, <3>3
    <3>4. CASE a > Len(readyQueue) /\ b \in 1..Len(readyQueue)
      BY <1>4, <1>13, <1>14, <1>15, <2>1, <3>4
    <3> QED  BY <1>12, <3>1, <3>2, <3>3, <3>4
  <2>2. ASSUME NEW u \in Worker, NEW m \in Node, Holds(u, m)'
        PROVE  /\ m \notin committed'
               /\ \A a \in 1..Len(readyQueue') : readyQueue'[a] # m
               /\ \A v \in Worker : Holds(v, m)' => v = u
    <3>1. Holds(u, m) /\ u # t /\ inDegree[m] = 0
      BY <1>6, <2>2 DEF ReadyIsReady
    <3>2. m # n
      BY <1>7, <3>1 DEF DispatchedOnce
    <3>3. m \notin committed'
      BY <1>2, <3>1, <3>2 DEF DispatchedOnce
    <3>4. \A a \in 1..Len(readyQueue') : readyQueue'[a] # m
      <4>1. \A a \in 1..Len(readyQueue) : readyQueue[a] # m
        BY <3>1 DEF DispatchedOnce
      <4>2. m \notin freed
        BY <3>1
      <4> QED  BY <1>12, <1>13a, <4>1, <4>2
    <3>5. \A v \in Worker : Holds(v, m)' => v = u
      BY <1>6, <3>1 DEF DispatchedOnce
    <3> QED  BY <3>3, <3>4, <3>5
  <2> QED  BY <2>1, <2>2 DEF DispatchedOnce
<1>18. CommitsClosed'
  <2>1. ASSUME NEW i \in committed'
        PROVE  /\ executed'[i]
               /\ Pred(i)' \subseteq committed'
               /\ Dead(i)' => \A j \in dependents'[i] : aborted'[j]
    <3>1. CASE i = n
      <4>1. Pred(n) \subseteq committed
        BY <1>2, <1>7, HeldPredecessors
      <4>2. n \notin dependents[n]
        BY <1>2, <1>7, <1>10
      <4>3. outcome[t] = "ok" => ~Dead(n)
        BY <1>2 DEF ResultsCurrent
      <4>4. outcome[t] = "ok" => ~Dead(n)'
        BY <1>2, <4>2, <4>3 DEF Dead, TypeOK
      <4>5. outcome[t] # "ok" => \A j \in dependents[n] : aborted'[j]
        BY <1>2 DEF TypeOK
      <4>6. executed'[n]
        BY <1>2 DEF TypeOK
      <4> QED  BY <1>2, <1>8, <3>1, <4>1, <4>4, <4>5, <4>6
    <3>2. CASE i # n
      <4>1. i \in committed /\ i \in Node /\ i \notin dependents[n]
        BY <1>2, <1>10, <3>2 DEF TypeOK
      <4>2. Dead(i)' => Dead(i)
        BY <1>2, <3>2, <4>1 DEF Dead, TypeOK
      <4>3. executed'[i] = executed[i]
        BY <1>2, <3>2, <4>1 DEF TypeOK
      <4>4. \A j \in Node : aborted[j] => aborted'[j]
        BY <1>2, Zenon
      <4>5. dependents[i] \subseteq Node
        BY <4>1 DEF TypeOK
      <4> QED
        BY <1>2, <1>8, <4>1, <4>2, <4>3, <4>4, <4>5 DEF CommitsClosed
    <3> QED  BY <3>1, <3>2
  <2> QED  BY <2>1 DEF CommitsClosed
<1>19. ResultsCurrent'
  <2>1. ASSUME NEW u \in Worker, pc'[u] \in {"payload", "commit"}
        PROVE  Dead(task[u])' <=> Dead(task[u])
    <3> DEFINE m == task[u]
    <3>1. u # t /\ Holds(u, m) /\ m \in Node
      BY <1>2, <1>5, <2>1 DEF Holds, TypeOK
    <3>2. m # n /\ m \notin dependents[n]
      BY <1>7, <1>10, <3>1 DEF DispatchedOnce, ReadyIsReady
    <3>3. failed'[m] <=> failed[m]
      BY <1>2, <3>1, <3>2 DEF TypeOK
    <3>4. aborted'[m] <=> aborted[m]
      BY <1>2, <3>1, <3>2, Zenon
    <3>5. task'[u] = m
      BY <1>2
    <3> QED  BY <3>3, <3>4, <3>5 DEF Dead
  <2>2. \A u \in Worker : pc'[u] \in {"payload", "commit"} => pc'[u] = pc[u]
    BY <1>5
  <2>3. \A u \in Worker : outcome'[u] = outcome[u]
    BY <1>2
  <2> QED  BY <2>1, <2>2, <2>3 DEF ResultsCurrent
<1>20. ThreadsInside' /\ phase' # "deadlock"
  <2>1. phase = "dispatch"
    BY <1>2 DEF ThreadsInside
  <2>2. \A u \in Worker : pc'[u] = "exit" => pc[u] = "exit"
    BY <1>5
  <2>3. completed # N
    BY <1>2, <1>7, AllCommitted
  <2> QED  BY <1>2, <2>1, <2>2, <2>3 DEF ThreadsInside
<1>21. \A i \in Node : \A j \in dependents'[i] : i < j
  BY <1>2
<1> QED  BY <1>1, <1>11, <1>16, <1>17, <1>18, <1>19, <1>20, <1>21

\* The invariant is inductive.
LEMMA IInvNext == IInv /\ [Next]_vars => IInv'
<1> SUFFICES ASSUME IInv, [Next]_vars PROVE IInv'
  OBVIOUS
<1>1. CASE UNCHANGED vars
  <2>1. TypeOK'
    BY TypeNext DEF IInv
  <2>2. UNCHANGED <<phase, dependents, inDegree, executed, failed, aborted,
                    readyQueue, completed, committed, pc, task, outcome>>
    BY <1>1 DEF vars, frameVars, flagVars, poolVars, workerVars
  <2>3. CountersExact' /\ ReadyIsReady' /\ DispatchedOnce'
    BY <2>2 DEF IInv, CountersExact, ReadyIsReady, DispatchedOnce, Pred, Holds
  <2>4. CommitsClosed' /\ ResultsCurrent' /\ ThreadsInside'
    BY <2>2 DEF IInv, CommitsClosed, ResultsCurrent, ThreadsInside, Pred, Dead
  <2> QED  BY <2>1, <2>2, <2>3, <2>4 DEF IInv
<1>2. CASE \E g \in Graphs : BeginPass(g)
  BY <1>2, IInvBeginPass
<1>3. CASE BeginFrame \/ SpawnCommitThrows \/ EndPass
  BY <1>3, IInvCaller
<1>4. CASE \E t \in Worker : WorkerStep(t) \/ WakeUnnotified(t)
  BY <1>4, IInvTake, IInvMove, IInvCommit DEF WorkerStep
<1> QED  BY <1>1, <1>2, <1>3, <1>4 DEF Next

\* The strengthened invariant holds in every reachable state.
THEOREM InductiveInvariant == Spec => []IInv
<1> QED  BY IInvInit, IInvNext, PTL DEF Spec

-----------------------------------------------------------------------------
(* Safety.                                                                 *)

\* Systems joined by an edge never overlap, on any graph and any pool.
THEOREM Serialization == Spec => []ConflictsSerialized
<1>1. IInv => ConflictsSerialized
  <2> SUFFICES ASSUME IInv, NEW t \in Worker, NEW i \in Node, NEW j \in Node,
                      Holds(t, j), j \in dependents[i]
               PROVE  i \in committed
    BY DEF ConflictsSerialized
  <2>1. inDegree[j] = 0
    BY DEF IInv, ReadyIsReady
  <2> QED  BY <2>1, HeldPredecessors DEF Pred
<1> QED  BY <1>1, InductiveInvariant, PTL

\* No node is dispatched twice in a pass.
THEOREM SingleDispatch == Spec => []DispatchedOnce
<1>1. IInv => DispatchedOnce
  BY DEF IInv
<1> QED  BY <1>1, InductiveInvariant, PTL

\* No payload runs downstream of a failure of its pass.
THEOREM PoisonFirst == Spec => []NoRunOnPoison
<1>1. IInv => NoRunOnPoison
  <2> SUFFICES ASSUME IInv, NEW t \in Worker, NEW i \in Node,
                      pc[t] = "payload", task[t] \in dependents[i], Dead(i)
               PROVE  FALSE
    BY DEF NoRunOnPoison
  <2>1. task[t] \in Node /\ Holds(t, task[t])
    BY DEF IInv, TypeOK, Holds
  <2>2. i \in committed
    BY <2>1, HeldPredecessors DEF IInv, ReadyIsReady, Pred
  <2>3. aborted[task[t]]
    BY <2>2 DEF IInv, CommitsClosed
  <2> QED  BY <2>3 DEF IInv, ResultsCurrent, Dead
<1> QED  BY <1>1, InductiveInvariant, PTL

\* No thread leaves a pass early and no pass ends in a reported deadlock.
THEOREM EveryNodeCommitted == Spec => []NobodyLeftBehind
<1>1. IInv => NobodyLeftBehind
  <2> SUFFICES ASSUME IInv PROVE NobodyLeftBehind
    OBVIOUS
  <2>1. phase # "deadlock"
    BY DEF IInv
  <2>2. ASSUME phase = "dispatch", NEW t \in Worker, pc[t] = "exit"
        PROVE  committed = Node
    BY <2>2, AllCommitted DEF IInv, ThreadsInside
  <2> QED  BY <2>1, <2>2 DEF NobodyLeftBehind
<1> QED  BY <1>1, InductiveInvariant, PTL

\* The lock-free read of the flags of a held node is stable.
THEOREM StableFlags == Spec => FlagsStableWhileHeld
<1> DEFINE Stable ==
      \A t, u \in Worker, n \in Node :
        Holds(t, n) /\ Commit(u) /\ u # t =>
          failed'[n] = failed[n] /\ aborted'[n] = aborted[n]
<1>1. IInv => Stable
  <2> SUFFICES ASSUME IInv, NEW t \in Worker, NEW u \in Worker, NEW n \in Node,
                      Holds(t, n), Commit(u), u # t
               PROVE  failed'[n] = failed[n] /\ aborted'[n] = aborted[n]
    BY Zenon
  <2> DEFINE m == task[u]
  <2>1. m \in Node /\ Holds(u, m)
    BY DEF IInv, TypeOK, Commit, Freed, Poisons, Holds
  <2>2. n # m /\ m \notin committed
    BY <2>1 DEF IInv, DispatchedOnce
  <2>3. n \notin dependents[m]
    BY <2>1, <2>2, HeldPredecessors DEF IInv, ReadyIsReady, Pred
  <2>4. failed' = [failed EXCEPT ![m] = @ \/ outcome[u] = "crash"]
    BY Zenon DEF Commit, Freed, Poisons
  <2>5. failed'[n] = failed[n]
    BY <2>1, <2>2, <2>4 DEF IInv, TypeOK
  <2>6. aborted' = [j \in Node |->
                      aborted[j] \/ (outcome[u] # "ok" /\ j \in dependents[m])]
    BY Zenon DEF Commit, Freed, Poisons
  <2>7. aborted'[n] <=> aborted[n]
    BY <2>3, <2>6, Zenon
  <2>8. aborted'[n] \in BOOLEAN /\ aborted[n] \in BOOLEAN
    BY <2>6, Zenon DEF IInv, TypeOK
  <2> QED  BY <2>5, <2>7, <2>8
<1> QED  BY <1>1, InductiveInvariant, PTL DEF FlagsStableWhileHeld

\* Every new casualty has a direct predecessor that died in the same step.
THEOREM NoCollateralAbort == Spec => OnlyDownstreamAborted
<1> DEFINE Direct ==
      \A n \in Node : aborted'[n] /\ ~aborted[n] =>
        \E i \in Pred(n) : i \in committed' \ committed /\ Dead(i)'
<1>1. IInv /\ [Next]_vars => [Direct]_vars
  <2> SUFFICES ASSUME IInv, Next, NEW n \in Node, aborted'[n], ~aborted[n]
               PROVE  \E i \in Pred(n) :
                        i \in committed' \ committed /\ Dead(i)'
    BY Zenon
  <2>1. ~BeginFrame
    BY DEF BeginFrame
  <2>2. aborted' # aborted
    OBVIOUS
  <2>3. PICK t \in Worker : Commit(t)
    BY <2>1, <2>2, Zenon DEF Next, WorkerStep, BeginPass, SpawnCommitThrows, EndPass,
                Take, Sleep, Leave, WakeUnnotified, CheckFlags, RunPayload,
                flagVars
  <2>4. PICK m \in Node : m = task[t] /\ Holds(t, m)
    BY <2>3 DEF IInv, TypeOK, Commit, Freed, Poisons, Holds
  <2>5. m \notin committed /\ inDegree[m] = 0
    BY <2>4 DEF IInv, DispatchedOnce, ReadyIsReady
  <2>6. /\ committed' = committed \union {m}
        /\ aborted' = [j \in Node |->
                      aborted[j] \/ (outcome[t] # "ok" /\ j \in dependents[m])]
        /\ failed' = [failed EXCEPT ![m] = @ \/ outcome[t] = "crash"]
        /\ pc[t] = "commit"
    BY <2>3, <2>4, Zenon DEF Commit, Freed, Poisons
  <2>7. outcome[t] # "ok" /\ n \in dependents[m]
    BY <2>6, Zenon
  <2>8. outcome[t] = "none" \/ outcome[t] = "crash"
    BY <2>7 DEF IInv, TypeOK
  <2>9. Dead(m)'
    <3>1. CASE outcome[t] = "crash"
      <4>1. failed'[m]
        BY <2>4, <2>6, <3>1 DEF IInv, TypeOK
      <4> QED  BY <4>1 DEF Dead
    <3>2. CASE outcome[t] = "none"
      <4>1. failed[m] \/ aborted[m]
        BY <2>4, <2>6, <3>2 DEF Dead, IInv, ResultsCurrent
      <4>2. failed[m] => failed'[m]
        BY <2>4, <2>6 DEF IInv, TypeOK
      <4>3. aborted[m] => aborted'[m]
        BY <2>4, <2>6, Zenon
      <4> QED  BY <4>1, <4>2, <4>3 DEF Dead
    <3> QED  BY <2>8, <3>1, <3>2
  <2> QED  BY <2>4, <2>5, <2>6, <2>7, <2>9 DEF Pred
<1> QED  BY <1>1, InductiveInvariant, PTL DEF Spec, OnlyDownstreamAborted

-----------------------------------------------------------------------------
(* TaskDispatch implements DagRun.                                         *)

\* The systems whose payload has begun and is not committed yet.
Executing == {n \in Node : \E t \in Worker :
                /\ Holds(t, n)
                /\ \/ pc[t] = "payload"
                   \/ pc[t] = "commit" /\ outcome[t] # "none"}

Casualties == {n \in Node : Dead(n)}

\* A worker that finds its node alive starts it; one that finds it dead does
\* nothing the abstract run can see.
LEMMA CheckRefines ==
  ASSUME IInv, NEW t \in Worker, CheckFlags(t)
  PROVE  Dag!Next \/ UNCHANGED Dag!dagVars
<1> USE DEF IInv
<1>1. PICK n \in Node : n = task[t]
  BY DEF TypeOK
<1>2. /\ pc[t] = "check"
      /\ UNCHANGED <<phase, dependents, executed, failed, aborted, committed,
                     task>>
      /\ \A u \in Worker : u # t => pc'[u] = pc[u] /\ outcome'[u] = outcome[u]
  BY DEF CheckFlags, frameVars, flagVars, poolVars, TypeOK
<1>3. phase = "dispatch"
  BY <1>2 DEF ThreadsInside
<1>4. Holds(t, n) /\ n \notin committed /\ Pred(n) \subseteq committed
  <2>1. Holds(t, n)
    BY <1>1, <1>2 DEF Holds
  <2> QED  BY <2>1, HeldPredecessors DEF DispatchedOnce, ReadyIsReady
<1>5. \A u \in Worker : Holds(u, n) => u = t
  BY <1>4 DEF DispatchedOnce
<1>6. n \notin Executing
  BY <1>2, <1>5 DEF Executing
<1>7. Casualties' = Casualties
  BY <1>2 DEF Casualties, Dead
<1>8. CASE Dead(n)
  <2>1. pc'[t] = "commit" /\ outcome'[t] = "none"
    BY <1>1, <1>8 DEF CheckFlags, TypeOK
  <2>2. Executing' = Executing
    BY <1>2, <2>1 DEF Executing, Holds
  <2> QED  BY <1>2, <1>7, <2>2 DEF Dag!dagVars, Executing, Casualties
<1>9. CASE ~Dead(n)
  <2>1. pc'[t] = "payload"
    BY <1>1, <1>9 DEF CheckFlags, TypeOK
  <2>2. Executing' = Executing \union {n}
    BY <1>1, <1>2, <2>1 DEF Executing, Holds
  <2>3. \A i \in Pred(n) : i \in committed /\ ~Dead(i)
    <3>1. ASSUME NEW i \in Pred(n), Dead(i) PROVE FALSE
      <4>1. i \in committed /\ n \in dependents[i]
        BY <1>4 DEF Pred
      <4>2. aborted[n]
        BY <3>1, <4>1 DEF CommitsClosed
      <4> QED  BY <1>9, <4>2 DEF Dead
    <3> QED  BY <1>4, <3>1
  <2>4. Dag!System = Node
    BY <1>3 DEF Dag!System, TypeOK
  <2>5. Dag!Start(n)
    BY <1>2, <1>3, <1>4, <1>6, <1>7, <1>9, <2>2, <2>3, <2>4
       DEF Dag!Start, Dag!Before, Executing, Casualties, Pred
  <2> QED  BY <1>1, <2>4, <2>5 DEF Dag!Next
<1> QED  BY <1>8, <1>9

\* The end of a payload is not the end of its system: the commit is.
LEMMA PayloadRefines ==
  ASSUME IInv, NEW t \in Worker, RunPayload(t)
  PROVE  UNCHANGED Dag!dagVars
<1>1. /\ UNCHANGED <<phase, dependents, failed, aborted, committed, task>>
      /\ \A u \in Worker : u # t => pc'[u] = pc[u] /\ outcome'[u] = outcome[u]
      /\ pc[t] = "payload" /\ pc'[t] = "commit" /\ outcome'[t] # "none"
  BY DEF RunPayload, frameVars, flagVars, poolVars, IInv, TypeOK
<1>2. Executing' = Executing
  BY <1>1 DEF Executing, Holds
<1>3. Casualties' = Casualties
  BY <1>1 DEF Casualties, Dead
<1> QED  BY <1>1, <1>2, <1>3 DEF Dag!dagVars, Executing, Casualties

\* A commit finishes, fails or skips its node.
LEMMA CommitRefines ==
  ASSUME IInv, NEW t \in Worker, Commit(t)
  PROVE  Dag!Next
<1> USE DEF IInv
<1>1. PICK n \in Node : n = task[t]
  BY DEF TypeOK
<1>2. /\ pc[t] = "commit" /\ pc'[t] = "acquire"
      /\ UNCHANGED <<phase, dependents, task, outcome>>
      /\ committed' = committed \union {n}
      /\ \A u \in Worker : pc'[u] = pc[u] \/ (pc[u] = "wait" /\ pc'[u] = "acquire")
                           \/ u = t
  BY <1>1 DEF Commit, Freed, Poisons, frameVars, TypeOK, Woken, Sleeping
<1>3. /\ failed' = [failed EXCEPT ![n] = @ \/ outcome[t] = "crash"]
      /\ aborted' = [j \in Node |->
                      aborted[j] \/ (outcome[t] # "ok" /\ j \in dependents[n])]
  BY <1>1, Zenon DEF Commit, Freed, Poisons
<1>4. phase = "dispatch"
  BY <1>2 DEF ThreadsInside
<1>5. Holds(t, n) /\ n \notin committed /\ Pred(n) \subseteq committed
  <2>1. Holds(t, n)
    BY <1>1, <1>2 DEF Holds
  <2> QED  BY <2>1, HeldPredecessors DEF DispatchedOnce, ReadyIsReady
<1>6. \A u \in Worker : Holds(u, n) => u = t
  BY <1>5 DEF DispatchedOnce
<1>7. Executing' = Executing \ {n}
  <2>1. \A m \in Node, u \in Worker : Holds(u, m)' <=> Holds(u, m) /\ u # t
    BY <1>2 DEF Holds
  <2>2. \A u \in Worker : u # t =>
          /\ pc'[u] = "payload" <=> pc[u] = "payload"
          /\ pc'[u] = "commit" <=> pc[u] = "commit"
    BY <1>2
  <2>3. \A m \in Node : m # n => ~Holds(t, m)
    BY <1>1 DEF Holds
  <2> QED  BY <1>2, <1>6, <2>1, <2>2, <2>3 DEF Executing
<1>8. n \in Executing <=> outcome[t] # "none"
  BY <1>1, <1>2, <1>5, <1>6 DEF Executing
<1>9. outcome[t] = "none" <=> n \in Casualties
  BY <1>1, <1>2 DEF ResultsCurrent, Casualties
<1>10. \A j \in Node :
         /\ failed'[j] <=> failed[j] \/ (j = n /\ outcome[t] = "crash")
         /\ aborted'[j] <=>
              aborted[j] \/ (outcome[t] # "ok" /\ j \in dependents[n])
  BY <1>3, Zenon DEF TypeOK
<1>11. dependents[n] \subseteq Node
  BY DEF TypeOK
<1>12. Casualties' = {j \in Node : \/ j \in Casualties
                                   \/ j = n /\ outcome[t] = "crash"
                                   \/ outcome[t] # "ok" /\ j \in dependents[n]}
  BY <1>10 DEF Casualties, Dead
<1>13. Dag!System = Node
  BY <1>4 DEF Dag!System, TypeOK
<1>14. CASE outcome[t] = "ok"
  <2>1. Casualties' = Casualties
    BY <1>12, <1>14 DEF Casualties
  <2>2. Dag!Finish(n)
    BY <1>2, <1>4, <1>7, <1>8, <1>14, <2>1
       DEF Dag!Finish, Executing, Casualties
  <2> QED  BY <2>2, <1>13 DEF Dag!Next
<1>15. CASE outcome[t] = "crash"
  <2>1. Casualties' = Casualties \union {n} \union dependents[n]
    BY <1>11, <1>12, <1>15 DEF Casualties
  <2>2. Dag!Fail(n)
    BY <1>2, <1>4, <1>7, <1>8, <1>15, <2>1
       DEF Dag!Fail, Executing, Casualties
  <2> QED  BY <2>2, <1>13 DEF Dag!Next
<1>16. CASE outcome[t] = "none"
  <2>1. Casualties' = Casualties \union dependents[n]
    BY <1>11, <1>12, <1>16 DEF Casualties
  <2>2. Executing' = Executing /\ n \notin Executing
    BY <1>7, <1>8, <1>16
  <2>3. Dag!Skip(n)
    BY <1>2, <1>4, <1>5, <1>9, <1>16, <1>13, <2>1, <2>2
       DEF Dag!Skip, Dag!Before, Pred, Executing, Casualties
  <2> QED  BY <2>3, <1>13 DEF Dag!Next
<1> QED  BY <1>14, <1>15, <1>16 DEF TypeOK

\* Every behaviour of the thread pool is a run of the dependency graph.
THEOREM Refinement == Spec => DispatchRunsTheDag
<1>1. Init => Dag!Init
  <2> SUFFICES ASSUME Init PROVE Dag!Init
    OBVIOUS
  <2>1. Executing = {} /\ Casualties = {}
    BY DEF Init, Executing, Casualties, Holds, Dead
  <2> QED  BY <2>1 DEF Init, Dag!Init, Dag!None, Executing, Casualties
<1>2. IInv /\ IInv' /\ [Next]_vars => [Dag!Next]_(Dag!dagVars)
  <2> SUFFICES ASSUME IInv, [Next]_vars
               PROVE  Dag!Next \/ UNCHANGED Dag!dagVars
    OBVIOUS
  <2>1. CASE BeginFrame
    <3>1. Executing' = Executing /\ Casualties' = {}
      BY <2>1 DEF BeginFrame, workerVars, Executing, Casualties, Holds, Dead
    <3>2. /\ phase # "dispatch" /\ phase' # "dispatch"
          /\ UNCHANGED <<dependents, committed>>
      BY <2>1 DEF BeginFrame, poolVars
    <3>3. Dag!NewFrame
      BY <3>1, <3>2 DEF Dag!NewFrame, Executing, Casualties
    <3> QED  BY <3>3 DEF Dag!Next
  <2>2. ASSUME NEW g \in Graphs, BeginPass(g)
        PROVE  Dag!Next
    <3>1. /\ phase # "dispatch" /\ phase' = "dispatch"
          /\ dependents' = g
          /\ committed' = {}
          /\ UNCHANGED <<failed, aborted>>
          /\ \A t \in Worker : pc'[t] = "acquire"
      BY <2>2 DEF BeginPass
    <3>2. Executing' = {} /\ Casualties' = Casualties
      BY <3>1 DEF Executing, Casualties, Holds, Dead
    <3>3. Dag!Open(g)
      BY <3>1, <3>2 DEF Dag!Open, Dag!Opens, Executing, Casualties
    <3> QED  BY <3>3 DEF Dag!Next
  <2>3. CASE SpawnCommitThrows
    <3>1. /\ phase # "dispatch" /\ phase' # "dispatch"
          /\ UNCHANGED <<dependents, failed, aborted, committed, pc, task,
                         outcome>>
      BY <2>3 DEF SpawnCommitThrows, flagVars, poolVars, workerVars
    <3>2. Executing' = Executing /\ Casualties' = Casualties
      BY <3>1 DEF Executing, Casualties, Holds, Dead
    <3> QED  BY <3>1, <3>2 DEF Dag!dagVars, Executing, Casualties
  <2>4. CASE EndPass
    <3>1. /\ phase = "dispatch" /\ phase' # "dispatch"
          /\ UNCHANGED <<dependents, failed, aborted, committed, pc, task,
                         outcome>>
      BY <2>4 DEF EndPass, flagVars, poolVars, workerVars
    <3>2. Executing' = {} /\ Casualties' = Casualties
      <4>1. \A t \in Worker : pc'[t] = "exit"
        BY <3>1, <2>4 DEF EndPass
      <4> QED  BY <3>1, <4>1 DEF Executing, Casualties, Holds, Dead
    <3>3. committed = Node
      <4>1. \E t \in Worker : pc[t] = "exit"
        BY <2>4 DEF EndPass
      <4> QED  BY <3>1, <4>1, AllCommitted DEF IInv, ThreadsInside
    <3>4. Dag!System = Node
      BY <3>1 DEF Dag!System, IInv, TypeOK
    <3>5. Dag!Close
      BY <3>1, <3>2, <3>3, <3>4 DEF Dag!Close, Dag!None, Executing, Casualties
    <3> QED  BY <3>5 DEF Dag!Next
  <2>5. ASSUME NEW t \in Worker,
               Take(t) \/ Sleep(t) \/ Leave(t) \/ WakeUnnotified(t)
        PROVE  UNCHANGED Dag!dagVars
    <3>1. /\ UNCHANGED <<phase, dependents, failed, aborted, committed,
                         outcome>>
          /\ \A u \in Worker : u # t => pc'[u] = pc[u] /\ task'[u] = task[u]
          /\ pc[t] \notin {"payload", "commit"}
          /\ pc'[t] \notin {"payload", "commit"}
      BY <2>5 DEF Take, Sleep, Leave, WakeUnnotified, frameVars, flagVars,
                  poolVars, IInv, TypeOK
    <3>2. Executing' = Executing /\ Casualties' = Casualties
      BY <3>1 DEF Executing, Casualties, Holds, Dead
    <3> QED  BY <3>1, <3>2 DEF Dag!dagVars, Executing, Casualties
  <2>6. CASE UNCHANGED vars
    <3>1. UNCHANGED <<phase, dependents, failed, aborted, committed, pc, task,
                      outcome>>
      BY <2>6 DEF vars, frameVars, flagVars, poolVars, workerVars
    <3>2. Executing' = Executing /\ Casualties' = Casualties
      BY <3>1 DEF Executing, Casualties, Holds, Dead
    <3> QED  BY <3>1, <3>2 DEF Dag!dagVars, Executing, Casualties
  <2> QED
    BY <2>1, <2>2, <2>3, <2>4, <2>5, <2>6, CheckRefines, PayloadRefines,
       CommitRefines DEF Next, WorkerStep
<1> QED
  BY <1>1, <1>2, InductiveInvariant, PTL DEF Spec, Dag!Spec, DispatchRunsTheDag

-----------------------------------------------------------------------------
(* Notifications.                                                          *)

Acquiring == {t \in Worker : pc[t] = "acquire"}

\* A commit wakes enough sleepers for the nodes it frees, or all of them.
LEMMA CommitWakes ==
  ASSUME IInv, NoLostWakeup, NEW t \in Worker, Commit(t), Sleeping' # {}
  PROVE  completed' # N /\ Len(readyQueue') <= Cardinality(Acquiring')
<1> DEFINE freed == {j \in dependents[task[t]] : inDegree[j] = 1}
           k == Cardinality(freed)
<1>1. freed \in SUBSET Node /\ k \in Nat
  <2>1. freed \in SUBSET Node
    BY DEF IInv, TypeOK
  <2> QED  BY <2>1, NodesFinite
<1>2. PICK W \in Woken(k) :
        pc' = [u \in Worker |-> IF u \in W \union {t} THEN "acquire"
                                                      ELSE pc[u]]
  BY DEF Commit, Freed, Poisons
<1>3. pc[t] = "commit" /\ completed' = completed + 1
  BY DEF Commit, Freed, Poisons
<1>4. W \subseteq Sleeping /\ t \notin Sleeping
  BY <1>2, <1>3 DEF Woken, Sleeping
<1>5. Sleeping' = Sleeping \ W /\ Acquiring' = Acquiring \union W \union {t}
  BY <1>2, <1>3, <1>4 DEF Sleeping, Acquiring
<1>6. completed + 1 # N /\ W # Sleeping /\ Sleeping # {}
  BY <1>2, <1>4, <1>5 DEF Woken
<1>7. IsFiniteSet(Sleeping) /\ IsFiniteSet(Acquiring) /\ IsFiniteSet(W)
  <2>1. Sleeping \in SUBSET Worker /\ Acquiring \in SUBSET Worker
        /\ W \in SUBSET Worker
    BY <1>4 DEF Sleeping, Acquiring
  <2> QED  BY <2>1, FS_Subset
<1>8. Cardinality(W) = k
  <2>1. Cardinality(W) = IF k < Cardinality(Sleeping)
                         THEN k ELSE Cardinality(Sleeping)
    BY <1>2, <1>6 DEF Woken
  <2>2. Cardinality(W) # Cardinality(Sleeping)
    BY <1>4, <1>6, <1>7, FS_Subset
  <2> QED  BY <2>1, <2>2
<1>9. Cardinality(Acquiring') >= Cardinality(Acquiring) + k
  <2> DEFINE A == Acquiring \union W
  <2>1. Acquiring \cap W = {}
    BY <1>4 DEF Acquiring, Sleeping
  <2>2. IsFiniteSet(A) /\ Cardinality(A) = Cardinality(Acquiring) + k
    <3>1. Cardinality(A) = Cardinality(Acquiring) + Cardinality(W)
                           - Cardinality(Acquiring \cap W)
      BY <1>7, FS_Union
    <3>2. Cardinality(Acquiring) \in Nat /\ Cardinality(Acquiring \cap W) = 0
      BY <1>7, <2>1, FS_CardinalityType, FS_EmptySet
    <3> QED  BY <1>1, <1>7, <1>8, <3>1, <3>2, FS_Union
  <2>3. Cardinality(A \union {t}) >= Cardinality(A)
    <3>1. Cardinality(A) \in Nat
      BY <2>2, FS_CardinalityType
    <3>2. Cardinality(A \union {t}) =
            IF t \in A THEN Cardinality(A) ELSE Cardinality(A) + 1
      BY <2>2, FS_AddElement, Zenon
    <3> QED  BY <3>1, <3>2
  <2> QED  BY <1>5, <2>2, <2>3
<1>10. Len(readyQueue') = Len(readyQueue) + k
  <2>1. PICK s \in Ascending(freed) : readyQueue' = readyQueue \o s
    BY DEF Commit, Freed, Poisons
  <2>2. s \in Seq(Node) /\ Len(s) = k
    <3>1. s \in [1..k -> freed]
      BY DEF Ascending
    <3>2. s \in Seq(Node)
      BY <1>1, AscendingIsSeq
    <3>3. DOMAIN s = 1..k
      BY <3>1
    <3>4. DOMAIN s = 1..Len(s) /\ Len(s) \in Nat
      BY <3>2, LenProperties
    <3>5. \A a \in Nat : 1..a = 1..k => a = k
      BY <1>1
    <3>6. Len(s) = k
      BY <3>3, <3>4, <3>5, Zenon
    <3> QED  BY <3>2, <3>6
  <2>3. readyQueue \in Seq(Node)
    BY DEF IInv, TypeOK
  <2>4. Len(readyQueue \o s) = Len(readyQueue) + Len(s)
    BY <2>2, <2>3, ConcatProperties
  <2> QED  BY <2>1, <2>2, <2>4
<1>11. Len(readyQueue) <= Cardinality(Acquiring)
  BY <1>6 DEF NoLostWakeup, Acquiring
<1>12. Len(readyQueue) \in Nat /\ Cardinality(Acquiring) \in Nat
       /\ Cardinality(Acquiring') \in Nat
  <2>1. IsFiniteSet(Acquiring')
    <3>1. IsFiniteSet(Acquiring \union W)
      BY <1>7, FS_Union
    <3> QED  BY <1>5, <3>1, FS_AddElement
  <2> QED  BY <1>7, <2>1, FS_CardinalityType, LenProperties DEF IInv, TypeOK
<1> QED  BY <1>1, <1>3, <1>6, <1>9, <1>10, <1>11, <1>12

\* notify_one for each freed node and notify_all at the end are enough: no
\* worker sleeps past a node nobody is coming for, nor past the last commit.
THEOREM NotificationsSuffice == Spec => []NoLostWakeup
<1>1. Init => NoLostWakeup
  BY DEF Init, NoLostWakeup, Sleeping
<1>2. IInv /\ NoLostWakeup /\ [Next]_vars => NoLostWakeup'
  <2> SUFFICES ASSUME IInv, NoLostWakeup, [Next]_vars, Sleeping' # {}
               PROVE  completed' # N /\ Len(readyQueue') <= Cardinality(Acquiring')
    BY DEF NoLostWakeup, Acquiring
  <2>1. readyQueue \in Seq(Node) /\ Len(readyQueue) \in Nat
    BY LenProperties DEF IInv, TypeOK
  <2>2. IsFiniteSet(Acquiring) /\ Cardinality(Acquiring) \in Nat
    <3>1. Acquiring \in SUBSET Worker
      BY DEF Acquiring
    <3> QED  BY <3>1, FS_Subset, FS_CardinalityType
  <2>3. ASSUME UNCHANGED <<readyQueue, completed>>, Sleeping' = Sleeping,
               Acquiring' = Acquiring
        PROVE  completed' # N /\ Len(readyQueue') <= Cardinality(Acquiring')
    BY <2>3 DEF NoLostWakeup, Acquiring
  <2>4. CASE UNCHANGED vars \/ BeginFrame \/ SpawnCommitThrows \/ EndPass
    <3>1. UNCHANGED <<readyQueue, completed, pc>>
      BY <2>4 DEF vars, poolVars, workerVars, BeginFrame, SpawnCommitThrows,
                  EndPass
    <3> QED  BY <2>3, <3>1 DEF Sleeping, Acquiring
  <2>5. CASE \E g \in Graphs : BeginPass(g)
    BY <2>5 DEF BeginPass, Sleeping
  <2>6. ASSUME NEW t \in Worker, Take(t)
        PROVE  completed' # N /\ Len(readyQueue') <= Cardinality(Acquiring')
    <3>1. /\ readyQueue # <<>> /\ readyQueue' = Tail(readyQueue)
          /\ completed # N /\ completed' = completed
          /\ pc[t] = "acquire" /\ pc' = [pc EXCEPT ![t] = "check"]
      BY <2>6 DEF Take
    <3>2. /\ Sleeping' = Sleeping /\ Acquiring' = Acquiring \ {t}
          /\ t \in Acquiring
      BY <3>1 DEF Sleeping, Acquiring, IInv, TypeOK
    <3>3. Len(readyQueue') = Len(readyQueue) - 1
      BY <2>1, <3>1, HeadTailProperties
    <3>4. Cardinality(Acquiring') = Cardinality(Acquiring) - 1
      BY <2>2, <3>2, FS_RemoveElement
    <3> QED  BY <2>1, <2>2, <3>1, <3>2, <3>3, <3>4 DEF NoLostWakeup, Acquiring
  <2>7. ASSUME NEW t \in Worker, Sleep(t)
        PROVE  completed' # N /\ Len(readyQueue') <= Cardinality(Acquiring')
    <3>1. /\ readyQueue' = <<>> /\ completed' # N
          /\ Acquiring' = Acquiring \ {t}
      BY <2>7 DEF Sleep, poolVars, Acquiring, IInv, TypeOK
    <3>2. Cardinality(Acquiring') \in Nat
      BY <2>2, <3>1, FS_RemoveElement, FS_CardinalityType
    <3> QED  BY <3>1, <3>2
  <2>8. ASSUME NEW t \in Worker, WakeUnnotified(t)
        PROVE  completed' # N /\ Len(readyQueue') <= Cardinality(Acquiring')
    <3>1. /\ UNCHANGED <<readyQueue, completed>>
          /\ t \in Sleeping
          /\ Acquiring' = Acquiring \union {t}
      BY <2>8 DEF WakeUnnotified, poolVars, Acquiring, Sleeping, IInv, TypeOK
    <3>2. Cardinality(Acquiring') >= Cardinality(Acquiring)
          /\ Cardinality(Acquiring') \in Nat
      <4>1. Cardinality(Acquiring \union {t}) =
              IF t \in Acquiring THEN Cardinality(Acquiring)
                                 ELSE Cardinality(Acquiring) + 1
        BY <2>2, FS_AddElement, Zenon
      <4> QED  BY <2>2, <3>1, <4>1
    <3> QED  BY <2>1, <2>2, <3>1, <3>2 DEF NoLostWakeup, Acquiring
  <2>9. ASSUME NEW t \in Worker, Leave(t)
        PROVE  FALSE
    BY <2>9 DEF Leave, NoLostWakeup, Sleeping, IInv, TypeOK
  <2>10. ASSUME NEW t \in Worker, CheckFlags(t) \/ RunPayload(t)
        PROVE  completed' # N /\ Len(readyQueue') <= Cardinality(Acquiring')
    <3>1. /\ UNCHANGED <<readyQueue, completed>>
          /\ pc[t] \in {"check", "payload"}
          /\ \E c \in {"payload", "commit"} : pc' = [pc EXCEPT ![t] = c]
      BY <2>10 DEF CheckFlags, RunPayload, poolVars
    <3>2. \A u \in Worker : /\ pc'[u] = "acquire" <=> pc[u] = "acquire"
                            /\ pc'[u] = "wait" <=> pc[u] = "wait"
      BY <3>1 DEF IInv, TypeOK
    <3>3. Acquiring' = Acquiring /\ Sleeping' = Sleeping
      BY <3>2 DEF Acquiring, Sleeping
    <3> QED  BY <2>3, <3>1, <3>3
  <2> QED
    BY <2>4, <2>5, <2>6, <2>7, <2>8, <2>9, <2>10, CommitWakes
       DEF Next, WorkerStep
<1> QED  BY <1>1, <1>2, InductiveInvariant, PTL DEF Spec

=============================================================================
