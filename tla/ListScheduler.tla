---------------------------- MODULE ListScheduler ----------------------------
(***************************************************************************)
(* The greedy list scheduler of src/TestScheduling/main.cpp: every task of *)
(* a graph is split into subtasks; a priority queue holds the subtasks of  *)
(* the tasks whose predecessors are all placed, and the one on top goes to *)
(* the processor that is idle first.                                       *)
(*                                                                         *)
(* The priorities are a random permutation of the subtasks.  Whatever is   *)
(* popped next comes first in some permutation, so that the top is any     *)
(* member of the queue here.  BinaryHeap, TaskGraph and ProcessorStatus    *)
(* are library classes; a tie between processors is broken either way.     *)
(***************************************************************************)
EXTENDS Integers, FiniteSets

CONSTANTS
  NumTasks, NumSubtasks, NumProc,
  ExecTime,    \* exec_time of every subtask on every processor
  Edges        \* of the task graph: pairs of tasks

Task == 0..(NumTasks - 1)
Part == 0..(NumSubtasks - 1)
Subtask == Task \X Part
Proc == 0..(NumProc - 1)

ASSUME ListAssumption ==
  /\ NumTasks \in Nat /\ NumSubtasks \in Nat \ {0} /\ NumProc \in Nat \ {0}
  /\ ExecTime \in Nat
  /\ Edges \subseteq Task \X Task
  /\ \A e \in Edges : e[1] < e[2]

VARIABLES
  queue,           \* subtasks in the heap
  numScheduled,    \* task -> num_scheduled_subtasks
  numUnfinished,   \* task -> num_unfinished_predecessors
  readyTime,       \* task -> ready_time
  finishTime,      \* task -> finish_time
  placed,          \* subtask -> processor, begin and end, once occupied
  idleFrom,        \* processor -> the end of what occupies it
  makespan

vars == <<queue, numScheduled, numUnfinished, readyTime, finishTime, placed,
          idleFrom, makespan>>

Predecessors(t) == {p \in Task : <<p, t>> \in Edges}
Successors(t) == {u \in Task : <<t, u>> \in Edges}

Init ==
  /\ queue = {s \in Subtask : Predecessors(s[1]) = {}}
  /\ numScheduled = [t \in Task |-> 0]
  /\ numUnfinished = [t \in Task |-> Cardinality(Predecessors(t))]
  /\ readyTime = [t \in Task |-> 0]
  /\ finishTime = [t \in Task |-> -1]
  /\ placed = [s \in {} |-> [proc |-> 0, begin |-> 0, end |-> 0]]
  /\ idleFrom = [p \in Proc |-> 0]
  /\ makespan = 0

Later(x, y) == IF x >= y THEN x ELSE y

\* earliest_available.
EarliestAvailable(p) == \A q \in Proc : idleFrom[p] <= idleFrom[q]

\* Variant of Begin: the time of the subtask is counted in the begin as well.
BeginAtEnd(t, p) == Later(idleFrom[p], readyTime[t]) + ExecTime

\* negotiate_time_assignment.
Begin(t, p) == Later(idleFrom[p], readyTime[t])
End(t, p) == Begin(t, p) + ExecTime

\* Variants of LastPart: every subtask counts as the last; the first does.
EveryPart(t) == TRUE
FirstPart(t) == numScheduled[t] = 0
LastPart(t) == numScheduled[t] + 1 = NumSubtasks

\* Variant of FreeAtLast: the count is compared before it is decremented.
FreeBeforeCount(t) == numUnfinished[t] = 0
FreeAtLast(t) == numUnfinished[t] - 1 = 0

\* enqueue_all_sub, of some tasks.
Enqueued(tasks) == {s \in Subtask : s[1] \in tasks}

\* One round of the scheduler's loop: the subtask on top of the queue is placed
\* on p, and on_scheduled tells the task's successors when it was the last.
ScheduleTop(s, p) ==
  LET t == s[1]
      end == End(t, p)
      finish == Later(finishTime[t], end)
      told == IF LastPart(t) THEN Successors(t) ELSE {}
  IN
  /\ s \in queue
  /\ EarliestAvailable(p)
  /\ placed' = [r \in DOMAIN placed \cup {s} |->
                  IF r = s
                  THEN [proc |-> p, begin |-> Begin(t, p), end |-> end]
                  ELSE placed[r]]
  /\ idleFrom' = [idleFrom EXCEPT ![p] = end]
  /\ finishTime' = [finishTime EXCEPT ![t] = finish]
  /\ numScheduled' = [numScheduled EXCEPT ![t] = @ + 1]
  /\ readyTime' = [u \in Task |-> IF u \in told THEN Later(readyTime[u], finish)
                                  ELSE readyTime[u]]
  /\ numUnfinished' = [u \in Task |-> IF u \in told THEN numUnfinished[u] - 1
                                      ELSE numUnfinished[u]]
  /\ queue' = (queue \ {s}) \cup Enqueued({u \in told : FreeAtLast(u)})
  /\ makespan' = Later(makespan, end)

Next == \E s \in queue, p \in Proc : ScheduleTop(s, p)

Spec == Init /\ [][Next]_vars

----------------------------------------------------------------------------
(* Properties *)

\* The state is well formed; in particular on_scheduled's assertion
\* num_scheduled_sub < num_subtasks holds of every subtask still in the queue.
TypeOK ==
  /\ queue \subseteq Subtask
  /\ numScheduled \in [Task -> 0..NumSubtasks]
  /\ \A s \in queue : numScheduled[s[1]] < NumSubtasks
  /\ numUnfinished \in [Task -> Nat]
  /\ readyTime \in [Task -> Nat]
  /\ finishTime \in [Task -> Nat \cup {-1}]
  /\ DOMAIN placed \subseteq Subtask
  /\ placed \in [DOMAIN placed -> [proc : Proc, begin : Nat, end : Nat]]
  /\ idleFrom \in [Proc -> Nat]
  /\ makespan \in Nat

\* A subtask begins when every subtask of every predecessor has ended: the
\* ready times that two predecessors propagate in either order, in the middle
\* of other tasks' subtasks, are late enough.
PrecedenceKept ==
  \A s \in DOMAIN placed : \A t \in Predecessors(s[1]) : \A i \in Part :
    <<t, i>> \in DOMAIN placed /\ placed[<<t, i>>].end <= placed[s].begin

\* No processor runs two subtasks at a time.
ProcessorsNotShared ==
  \A r, s \in DOMAIN placed :
    r # s /\ placed[r].proc = placed[s].proc =>
      placed[r].end <= placed[s].begin \/ placed[s].end <= placed[r].begin

\* What makes the schedule one that can be carried out.
ScheduleFeasible == PrecedenceKept /\ ProcessorsNotShared

\* The loop stops only when everything is placed: no task is forgotten, whatever
\* the order in which its predecessors complete.
EmptyMeansDone == queue = {} => DOMAIN placed = Subtask

\* A processor idles only while a predecessor runs elsewhere, so that the
\* schedule is never longer than one after another.
MakespanWithinWork == makespan <= ExecTime * Cardinality(DOMAIN placed)
=============================================================================
