----------------------------- MODULE WorkerPool -----------------------------
(***************************************************************************)
(* The pipelined executive: TaskWorkerPool, submit_frame and               *)
(* wait_for_frame_completion of                                            *)
(* src/Engine/TestUsagiExecutive/Pipelined/Executive.hpp, driven the way   *)
(* Orchestrator.hpp drives them.                                           *)
(*                                                                         *)
(* A job is a SystemNode, numbered in the order of registration over all   *)
(* frames.  Partitions are handed out in spans of CHUNK_SIZE; only the     *)
(* number of spans matters here, so next_partition counts spans.  Which    *)
(* systems collide is decided elsewhere: submit_frame binds any of the     *)
(* pairs of Collision that its loops go through.                           *)
(*                                                                         *)
(* The main thread submits while workers run.  An atomic operation or a    *)
(* critical section is a step.  The scan under the mutex is one step: a    *)
(* job it has passed over cannot become eligible during the scan, and the  *)
(* one it takes is eligible when it is read.  submit_frame may push_back   *)
(* on the `dependents' a worker iterates, without a lock; of the outcomes  *)
(* of that race the model keeps the mildest, where the iteration goes on   *)
(* to the end it saw (no reallocation).                                    *)
(***************************************************************************)
EXTENDS Integers, FiniteSets, SequencesExt

CONSTANTS
  Worker,       \* the threads of the pool
  Spans,        \* MAX_SPAWN_PARTITIONS / CHUNK_SIZE
  MaxFrames,    \* bound: frames submitted
  FrameSize,    \* bound: systems registered for a frame
  Collision,    \* pairs of jobs that may collide
  MayThrow,     \* whether payloads throw
  Pipelining    \* whether the host calls step_pipelined

Job == 1..(MaxFrames * FrameSize)

ASSUME PoolAssumption == Worker # {} /\ IsFiniteSet(Worker)
ASSUME SpansAssumption == Spans \in Nat \ {0}
ASSUME FrameAssumption ==
  /\ MaxFrames \in Nat
  /\ FrameSize \in Nat \ {0}
  /\ Collision \subseteq Job \X Job
  /\ MayThrow \in BOOLEAN
  /\ Pipelining \in BOOLEAN

VARIABLES
  main,        \* where the thread that owns the executive stands
  pipelined,   \* whether the last call of the host was step_pipelined
  frames,      \* frames submitted
  created,     \* nodes registered so far
  current,     \* current_frame_systems
  previous,    \* previous_frame_systems
  toBind,      \* collisions submit_frame has still to bind, in its order
  toDispatch,  \* systems its last loop has still to look at
  inDegree,    \* SystemNode::in_degree
  dependents,  \* SystemNode::dependents
  nextSpan,    \* SystemNode::next_partition, in spans
  finishers,   \* SystemNode::completed_workers
  executed,    \* SystemNode::executed
  failed,      \* SystemNode::failed
  aborted,     \* SystemNode::aborted_due_to_dependency
  activeJobs,  \* TaskWorkerPool::active_jobs
  terminate,   \* TaskWorkerPool::terminate_flag
  pc,          \* where each worker stands
  task,        \* its task (0: none)
  span,        \* the span it claimed
  next,        \* the dependent it resolves next
  last,        \* where its loop over dependents ends
  ran,         \* history: how often the payload ran on <<job, span>>
  dispatched   \* history: how often a job was handed to push_task

hostVars == <<pipelined, frames, created>>
frameVars == <<current, previous, toBind, toDispatch>>
graphVars == <<inDegree, dependents>>
counterVars == <<nextSpan, finishers>>
flagVars == <<executed, failed, aborted>>
loopVars == <<next, last>>
claimVars == <<task, span>>
historyVars == <<ran, dispatched>>
vars == <<main, hostVars, frameVars, graphVars, counterVars, flagVars,
          activeJobs, terminate, pc, claimVars, loopVars, historyVars>>

\* A worker that has found nothing to do holds the mutex until it sleeps.
MutexFree == \A t \in Worker : pc[t] # "blocking"

\* Variant: only the arrival of a job wakes the sleepers.
WokenForJobs ==
  [t \in Worker |->
     IF pc[t] = "asleep" /\ ~terminate THEN "lock" ELSE pc[t]]

\* notify_all
Woken == [t \in Worker |-> IF pc[t] = "asleep" THEN "lock" ELSE pc[t]]

Init ==
  /\ main = "idle"
  /\ pipelined = FALSE
  /\ frames = 0
  /\ created = 0
  /\ current = <<>>
  /\ previous = <<>>
  /\ toBind = <<>>
  /\ toDispatch = <<>>
  /\ inDegree = [j \in Job |-> 0]
  /\ dependents = [j \in Job |-> <<>>]
  /\ nextSpan = [j \in Job |-> 0]
  /\ finishers = [j \in Job |-> 0]
  /\ executed = [j \in Job |-> FALSE]
  /\ failed = [j \in Job |-> FALSE]
  /\ aborted = [j \in Job |-> FALSE]
  /\ activeJobs = <<>>
  /\ terminate = FALSE
  /\ pc = [t \in Worker |-> "top"]
  /\ task = [t \in Worker |-> 0]
  /\ span = [t \in Worker |-> 0]
  /\ next = [t \in Worker |-> 0]
  /\ last = [t \in Worker |-> 0]
  /\ dispatched = [j \in Job |-> 0]
  /\ ran = [j \in Job |-> [s \in 0..(Spans - 1) |-> 0]]

\* The members of T in s, in their order: SelectSeq as a function that the
\* proofs can unfold.
Selected(s, T) ==
  LET upTo[i \in 0..Len(s)] ==
        IF i = 0 THEN <<>>
        ELSE IF s[i] \in T THEN Append(upTo[i - 1], s[i])
        ELSE upTo[i - 1]
  IN  upTo[Len(s)]

-----------------------------------------------------------------------------
(* push_task: two stores outside the mutex, then the critical section.     *)

ResetCounters(j) ==
  /\ nextSpan' = [nextSpan EXCEPT ![j] = 0]
  /\ finishers' = [finishers EXCEPT ![j] = 0]
  /\ dispatched' = [dispatched EXCEPT ![j] = @ + 1]

\* Variant: the queue is touched without its mutex.
EnqueueUnlocked(j) == activeJobs' = Append(activeJobs, j)

Enqueue(j) ==
  /\ MutexFree
  /\ activeJobs' = Append(activeJobs, j)

-----------------------------------------------------------------------------
(* The main thread.                                                        *)

\* The pairs submit_frame compares, in its order: system by system, first
\* with the later systems of the frame, then with the previous frame.
Compared(new, prev) ==
  FlattenSeq([i \in DOMAIN new |->
    [k \in 1..(Len(new) - i) |-> <<new[i], new[i + k]>>]
      \o [k \in DOMAIN prev |-> <<prev[k], new[i]>>]])

\* The host registers systems and submits them, for step_single_frame or as
\* one of the frames of step_pipelined.
Submit(asPipelined, size) ==
  LET new == [i \in 1..size |-> created + i]
      compared == Compared(new, previous)
  IN
  /\ \/ main = "idle" /\ (asPipelined => Pipelining)
     \/ main = "submitted" /\ pipelined /\ asPipelined
  /\ frames < MaxFrames
  /\ frames' = frames + 1
  /\ created' = created + size
  /\ pipelined' = asPipelined
  /\ current' = new
  /\ \E colliding \in SUBSET (Collision \cap Range(compared)) :
       toBind' = Selected(compared, colliding)
  /\ toDispatch' = new
  /\ main' = "binding"
  /\ UNCHANGED <<previous, graphVars, counterVars, flagVars, activeJobs,
                 terminate, pc, claimVars, loopVars, historyVars>>

\* bind_dependency: the edge first, then the count.
AddDependent ==
  /\ main = "binding"
  /\ toBind # <<>>
  /\ LET pre == Head(toBind)[1]
         post == Head(toBind)[2]
     IN  dependents' = [dependents EXCEPT ![pre] = Append(@, post)]
  /\ main' = "counting"
  /\ UNCHANGED <<hostVars, frameVars, inDegree, counterVars, flagVars,
                 activeJobs, terminate, pc, claimVars, loopVars, historyVars>>

CountDependency ==
  /\ main = "counting"
  /\ inDegree' = [inDegree EXCEPT ![Head(toBind)[2]] = @ + 1]
  /\ toBind' = Tail(toBind)
  /\ main' = "binding"
  /\ UNCHANGED <<hostVars, current, previous, toDispatch, dependents,
                 counterVars, flagVars, activeJobs, terminate, pc, claimVars,
                 loopVars, historyVars>>

\* Variant: an off-by-one in the count.
DispatchableEarly(j) == inDegree[j] <= 1

\* The dispatch loop looks at a system: pushed if nothing is left to wait for.
Dispatchable(j) == inDegree[j] = 0

LookAt ==
  /\ main = "binding"
  /\ toBind = <<>>
  /\ toDispatch # <<>>
  /\ LET j == Head(toDispatch) IN
     IF Dispatchable(j)
     THEN /\ ResetCounters(j)
          /\ main' = "pushing"
          /\ UNCHANGED toDispatch
     ELSE /\ toDispatch' = Tail(toDispatch)
          /\ UNCHANGED <<main, counterVars, dispatched>>
  /\ UNCHANGED <<hostVars, current, previous, toBind, graphVars, flagVars,
                 activeJobs, terminate, pc, claimVars, loopVars, ran>>

Dispatch ==
  /\ main = "pushing"
  /\ Enqueue(Head(toDispatch))
  /\ pc' = Woken
  /\ toDispatch' = Tail(toDispatch)
  /\ main' = "binding"
  /\ UNCHANGED <<hostVars, current, previous, toBind, graphVars, counterVars,
                 flagVars, terminate, claimVars, loopVars, historyVars>>

\* submit_frame slides the window and returns.
Slide ==
  /\ main = "binding"
  /\ toBind = <<>>
  /\ toDispatch = <<>>
  /\ previous' = current
  /\ current' = <<>>
  /\ main' = "submitted"
  /\ UNCHANGED <<hostVars, toBind, toDispatch, graphVars, counterVars,
                 flagVars, activeJobs, terminate, pc, claimVars, loopVars,
                 historyVars>>

\* Variant: a system is taken to be over once its spans are all claimed.
OverWhenClaimed(j) == nextSpan[j] >= Spans \/ aborted[j]

\* wait_for_frame_completion: only the last frame is looked at, and both
\* flags only ever rise, so a round that finds all of them done is one step.
Over(j) == executed[j] \/ aborted[j]

Wait ==
  /\ main = "submitted"
  /\ main' = "waiting"
  /\ UNCHANGED <<hostVars, frameVars, graphVars, counterVars, flagVars,
                 activeJobs, terminate, pc, claimVars, loopVars, historyVars>>

WaitReturns ==
  /\ main = "waiting"
  /\ \A j \in Range(previous) : Over(j)
  /\ main' = "idle"
  /\ UNCHANGED <<hostVars, frameVars, graphVars, counterVars, flagVars,
                 activeJobs, terminate, pc, claimVars, loopVars, historyVars>>

\* TearDown: clear_systems, then the destructor's stop().  The flag is stored
\* and the sleepers are notified without the mutex.
SetTerminate ==
  /\ main = "idle"
  /\ previous' = <<>>
  /\ terminate' = TRUE
  /\ main' = "notifying"
  /\ UNCHANGED <<hostVars, current, toBind, toDispatch, graphVars, counterVars,
                 flagVars, activeJobs, pc, claimVars, loopVars, historyVars>>

NotifyStop ==
  /\ main = "notifying"
  /\ pc' = Woken
  /\ main' = "joining"
  /\ UNCHANGED <<hostVars, frameVars, graphVars, counterVars, flagVars,
                 activeJobs, terminate, claimVars, loopVars, historyVars>>

Joined ==
  /\ main = "joining"
  /\ \A t \in Worker : pc[t] = "exited"
  /\ main' = "stopped"
  /\ UNCHANGED <<hostVars, frameVars, graphVars, counterVars, flagVars,
                 activeJobs, terminate, pc, claimVars, loopVars, historyVars>>

HostCall ==
  \/ \E asPipelined \in BOOLEAN, size \in 0..FrameSize :
       Submit(asPipelined, size)
  \/ SetTerminate

MainLocal ==
  \/ AddDependent \/ CountDependency \/ LookAt \/ Slide \/ Wait
  \/ WaitReturns \/ NotifyStop \/ Joined

-----------------------------------------------------------------------------
(* The workers.                                                            *)

Goto(t, place) == pc' = [pc EXCEPT ![t] = place]

\* while(!terminate_flag): the shared_ptr of the last round is gone.
Top(t) ==
  /\ pc[t] = "top"
  /\ Goto(t, IF terminate THEN "exited" ELSE "lock")
  /\ task' = [task EXCEPT ![t] = 0]
  /\ span' = [span EXCEPT ![t] = 0]
  /\ UNCHANGED <<main, hostVars, frameVars, graphVars, counterVars, flagVars,
                 activeJobs, terminate, loopVars, historyVars>>

\* Variant: the limit compared with <=.
EligibleAtTheEnd(j) == ~aborted[j] /\ ~failed[j] /\ nextSpan[j] <= Spans

\* The critical section, with the predicate of the condition variable.
Eligible(j) == ~aborted[j] /\ ~failed[j] /\ nextSpan[j] < Spans

Leave(t) ==
  /\ pc[t] = "lock"
  /\ MutexFree
  /\ activeJobs = <<>>
  /\ terminate
  /\ Goto(t, "exited")
  /\ UNCHANGED <<main, hostVars, frameVars, graphVars, counterVars, flagVars,
                 activeJobs, terminate, claimVars, loopVars, historyVars>>

GoToSleep(t) ==
  /\ pc[t] = "lock"
  /\ MutexFree
  /\ activeJobs = <<>>
  /\ ~terminate
  /\ Goto(t, "blocking")
  /\ UNCHANGED <<main, hostVars, frameVars, graphVars, counterVars, flagVars,
                 activeJobs, terminate, claimVars, loopVars, historyVars>>

Scan(t) ==
  /\ pc[t] = "lock"
  /\ MutexFree
  /\ activeJobs # <<>>
  /\ LET found == Selected(activeJobs, {j \in Job : Eligible(j)}) IN
     IF found = <<>>
     THEN /\ Goto(t, "top")
          /\ UNCHANGED task
     ELSE /\ Goto(t, "steal")
          /\ task' = [task EXCEPT ![t] = Head(found)]
  /\ UNCHANGED <<main, hostVars, frameVars, graphVars, counterVars, flagVars,
                 activeJobs, terminate, span, loopVars, historyVars>>

\* cv.wait gives the mutex up and sleeps, in one step.
Sleep(t) ==
  /\ pc[t] = "blocking"
  /\ Goto(t, "asleep")
  /\ UNCHANGED <<main, hostVars, frameVars, graphVars, counterVars, flagVars,
                 activeJobs, terminate, claimVars, loopVars, historyVars>>

WakeUnnotified(t) ==
  /\ pc[t] = "asleep"
  /\ Goto(t, "lock")
  /\ UNCHANGED <<main, hostVars, frameVars, graphVars, counterVars, flagVars,
                 activeJobs, terminate, claimVars, loopVars, historyVars>>

\* Variant: the counter stays on the last span instead of overshooting.
AdvancedWithinSpans(n) == IF n < Spans - 1 THEN n + 1 ELSE n

\* fetch_add on next_partition: a span, or one past the end.
Advanced(n) == n + 1

Steal(t) ==
  /\ pc[t] = "steal"
  /\ span' = [span EXCEPT ![t] = nextSpan[task[t]]]
  /\ nextSpan' = [nextSpan EXCEPT ![task[t]] = Advanced(@)]
  /\ Goto(t, IF nextSpan[task[t]] < Spans THEN "run" ELSE "count")
  /\ UNCHANGED <<main, hostVars, frameVars, graphVars, finishers, flagVars,
                 activeJobs, terminate, task, loopVars, historyVars>>

\* The payload on the claimed span.  Only who was at the last one, or past
\* it, goes on to count.
RunSpan(t) ==
  /\ pc[t] = "run"
  /\ ran' = [ran EXCEPT ![task[t]][span[t]] = @ + 1]
  /\ \/ UNCHANGED failed
     \/ MayThrow /\ failed' = [failed EXCEPT ![task[t]] = TRUE]
  /\ Goto(t, IF span[t] + 1 >= Spans THEN "count" ELSE "top")
  /\ UNCHANGED <<main, hostVars, frameVars, graphVars, counterVars, executed,
                 aborted, activeJobs, terminate, claimVars, loopVars,
                 dispatched>>

\* Variant: the first thread out of spans declares the job done.
CompletesFirst(before) == before = 0

\* fetch_add on completed_workers: active_worker_count is the pool's size.
Completes(before) == before = Cardinality(Worker) - 1

Count(t) ==
  /\ pc[t] = "count"
  /\ finishers' = [finishers EXCEPT ![task[t]] = @ + 1]
  /\ IF Completes(finishers[task[t]])
     THEN /\ executed' = [executed EXCEPT ![task[t]] = TRUE]
          /\ Goto(t, "iterate")
     ELSE /\ UNCHANGED executed
          /\ Goto(t, "top")
  /\ UNCHANGED <<main, hostVars, frameVars, graphVars, nextSpan, failed,
                 aborted, activeJobs, terminate, claimVars, loopVars, historyVars>>

\* resolve_dependents: the loop is set up, then goes dependent by dependent.
Iterate(t) ==
  /\ pc[t] = "iterate"
  /\ next' = [next EXCEPT ![t] = 1]
  /\ last' = [last EXCEPT ![t] = Len(dependents[task[t]])]
  /\ Goto(t, "resolve")
  /\ UNCHANGED <<main, hostVars, frameVars, graphVars, counterVars, flagVars,
                 activeJobs, terminate, claimVars, historyVars>>

\* Variant: only an aborted node poisons, not one that failed itself.
PoisonsIfAborted(j) == aborted[j]

Poisons(j) == failed[j] \/ aborted[j]

\* Variant: the value after fetch_sub taken for the one before.
FreedAtZero(before) == before = 0

Freed(before) == before = 1

Resolve(t) ==
  LET dep == dependents[task[t]][next[t]] IN
  /\ pc[t] = "resolve"
  /\ next[t] <= last[t]
  /\ aborted' = [aborted EXCEPT ![dep] = @ \/ Poisons(task[t])]
  /\ inDegree' = [inDegree EXCEPT ![dep] = @ - 1]
  /\ IF Freed(inDegree[dep])
     THEN Goto(t, "reset") /\ UNCHANGED next
     ELSE next' = [next EXCEPT ![t] = @ + 1] /\ UNCHANGED pc
  /\ UNCHANGED <<main, hostVars, frameVars, dependents, counterVars, executed,
                 failed, activeJobs, terminate, claimVars, last, historyVars>>

Reset(t) ==
  /\ pc[t] = "reset"
  /\ ResetCounters(dependents[task[t]][next[t]])
  /\ Goto(t, "push")
  /\ UNCHANGED <<main, hostVars, frameVars, graphVars, flagVars, activeJobs,
                 terminate, claimVars, loopVars, ran>>

Push(t) ==
  /\ pc[t] = "push"
  /\ Enqueue(dependents[task[t]][next[t]])
  /\ pc' = [Woken EXCEPT ![t] = "resolve"]
  /\ next' = [next EXCEPT ![t] = @ + 1]
  /\ UNCHANGED <<main, hostVars, frameVars, graphVars, counterVars, flagVars,
                 terminate, claimVars, last, historyVars>>

EndResolve(t) ==
  /\ pc[t] = "resolve"
  /\ next[t] > last[t]
  /\ Goto(t, "erase")
  /\ next' = [next EXCEPT ![t] = 0]
  /\ last' = [last EXCEPT ![t] = 0]
  /\ UNCHANGED <<main, hostVars, frameVars, graphVars, counterVars, flagVars,
                 activeJobs, terminate, claimVars, historyVars>>

\* std::erase takes every occurrence out.
Erase(t) ==
  /\ pc[t] = "erase"
  /\ MutexFree
  /\ activeJobs' = Selected(activeJobs, Job \ {task[t]})
  /\ Goto(t, "top")
  /\ UNCHANGED <<main, hostVars, frameVars, graphVars, counterVars, flagVars,
                 terminate, claimVars, loopVars, historyVars>>

InMutex(t) == Leave(t) \/ GoToSleep(t) \/ Scan(t) \/ Push(t) \/ Erase(t)

WorkerLocal(t) ==
  \/ Top(t) \/ Sleep(t) \/ Steal(t) \/ RunSpan(t) \/ Count(t) \/ Iterate(t)
  \/ Resolve(t) \/ Reset(t) \/ EndResolve(t)

Next ==
  \/ HostCall
  \/ MainLocal
  \/ Dispatch
  \/ \E t \in Worker : InMutex(t) \/ WorkerLocal(t) \/ WakeUnnotified(t)

Spec == Init /\ [][Next]_vars

\* Every thread is scheduled, and who asks for a mutex that is free again and
\* again gets it.  Spurious wake-ups and calls of the host are not promised.
FairSpec ==
  /\ Spec
  /\ WF_vars(MainLocal)
  /\ SF_vars(Dispatch)
  /\ \A t \in Worker : WF_vars(WorkerLocal(t)) /\ SF_vars(InMutex(t))

-----------------------------------------------------------------------------
(* Properties.                                                             *)

Pending == {"steal", "run", "count", "iterate", "resolve", "reset", "push",
            "erase"}

\* Every variable has its type; next_partition overshoots by no more than one
\* claim per thread (lines 90-106), and who works on a span has a task.
TypeOK ==
  /\ main \in {"idle", "binding", "counting", "pushing", "submitted",
               "waiting", "notifying", "joining", "stopped"}
  /\ pipelined \in BOOLEAN
  /\ frames \in 0..MaxFrames
  /\ created \in 0..(MaxFrames * FrameSize)
  /\ \A f \in {current, previous, toDispatch, activeJobs} : f \in Seq(Job)
  /\ Range(toBind) \subseteq Collision
  /\ inDegree \in [Job -> Int]
  /\ \A j \in Job : Range(dependents[j]) \subseteq Job
  /\ \A j \in Job : nextSpan[j] \in 0..(Spans + Cardinality(Worker) - 1)
  /\ \A j \in Job : finishers[j] \in Nat
  /\ {executed, failed, aborted} \subseteq [Job -> BOOLEAN]
  /\ terminate \in BOOLEAN
  /\ \A t \in Worker :
       /\ pc[t] \in Pending \cup {"top", "lock", "blocking", "asleep", "exited"}
       /\ task[t] \in IF pc[t] \in Pending THEN Job ELSE Job \cup {0}
       /\ span[t] \in 0..(Spans + Cardinality(Worker) - 1)

\* No job is handed to the pool twice: the loop at lines 352-355 is to
\* "Dispatch root nodes", the workers push the others.
DispatchedOnce == \A j \in Job : dispatched[j] <= 1

\* Span stealing: unless a job is dispatched twice, none of its spans is run
\* twice (next_partition, lines 90-106).
SpanRunsOnce ==
  DispatchedOnce => \A j \in Job : \A s \in DOMAIN ran[j] : ran[j][s] <= 1

\* A node dispatched once is marked executed only when all its spans are over
\* and no thread is still at one (completed_workers, lines 126-130).
ExecutedMeansDone ==
  \A j \in Job : executed[j] /\ dispatched[j] <= 1 =>
    /\ \A s \in DOMAIN ran[j] : ran[j][s] >= 1
    /\ \A t \in Worker : ~(pc[t] \in {"steal", "run"} /\ task[t] = j)

\* As long as no job was dispatched twice, no payload runs before the systems
\* it was bound to are over: the edges of submit_frame, in the pool.
RunsAfterItsPredecessors ==
  DispatchedOnce => \A t \in Worker : pc[t] = "run" =>
    \A j \in Job : task[t] \in Range(dependents[j]) => executed[j]

\* As long as no job was dispatched twice, no payload runs downstream of a
\* node that failed or was aborted (poison diffusion, lines 132-142).
PoisonStops ==
  DispatchedOnce => \A t \in Worker : pc[t] = "run" =>
    \A j \in Job :
      task[t] \in Range(dependents[j]) => ~failed[j] /\ ~aborted[j]

\* No lost wakeup in push_task: nobody goes to sleep, or sleeps on, while
\* there is an active job.
SleepersHaveNothingToDo ==
  \A t \in Worker : pc[t] \in {"blocking", "asleep"} => activeJobs = <<>>

\* When step_single_frame returns no thread runs a payload, unless a job was
\* dispatched twice (Orchestrator.hpp, lines 48-54).
FlushedOnReturn ==
  main = "idle" /\ ~pipelined /\ DispatchedOnce =>
    \A t \in Worker : pc[t] # "run"

\* wait_for_frame_completion comes back, unless a system of the frame was
\* bound to one of the frame before, which may be resolved already.
FrameCompletes ==
  /\ main = "waiting"
  /\ \A i \in Job : Range(dependents[i]) \intersect Range(previous) # {} =>
       i \in Range(previous)
  ~> main = "idle"

\* stop() comes back if no worker stands between the predicate it found false
\* and its sleep when the sleepers are notified.
StopReturns == main = "notifying" /\ MutexFree ~> main = "stopped"
=============================================================================
