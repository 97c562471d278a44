------------------------ MODULE ListScheduler_proofs ------------------------
(***************************************************************************)
(* Proofs about ListScheduler, for every task graph without cycles, any    *)
(* number of subtasks and processors and any execution time.               *)
(***************************************************************************)
EXTENDS ListScheduler, FiniteSetTheorems, WellFoundedInduction, TLAPS

Full(t) == \A i \in Part : <<t, i>> \in DOMAIN placed

PlacedParts(t) == {i \in Part : <<t, i>> \in DOMAIN placed}
Unfinished(t) == {p \in Predecessors(t) : ~Full(p)}

\* The counters say what has been placed.
Counted ==
  \A t \in Task : /\ numScheduled[t] = Cardinality(PlacedParts(t))
                  /\ numUnfinished[t] = Cardinality(Unfinished(t))

\* The queue holds what may be placed and is not; nothing was placed early.
Frontier ==
  /\ \A s \in Subtask :
       s \in queue <=> s \notin DOMAIN placed /\ Unfinished(s[1]) = {}
  /\ \A s \in DOMAIN placed : Unfinished(s[1]) = {}

\* The times a task and a processor are known by are late enough.
Times ==
  /\ \A s \in DOMAIN placed :
       /\ placed[s].end <= finishTime[s[1]]
       /\ placed[s].end <= idleFrom[placed[s].proc]
  /\ \A t \in Task : \A p \in Predecessors(t) :
       Full(p) => finishTime[p] <= readyTime[t]

\* No time is later than the makespan.
Bounded ==
  /\ \A t \in Task : finishTime[t] <= makespan /\ readyTime[t] <= makespan
  /\ \A p \in Proc : idleFrom[p] <= makespan

IInv == /\ TypeOK /\ Counted /\ Frontier /\ Times /\ Bounded
        /\ PrecedenceKept /\ ProcessorsNotShared /\ MakespanWithinWork

----------------------------------------------------------------------------
(* The sets that are counted are finite. *)

LEMMA FiniteParts ==
  /\ IsFiniteSet(Part) /\ Cardinality(Part) = NumSubtasks
  /\ IsFiniteSet(Task)
  /\ \A S \in SUBSET Part : IsFiniteSet(S) /\ Cardinality(S) \in 0..NumSubtasks
  /\ \A S \in SUBSET Task : IsFiniteSet(S) /\ Cardinality(S) \in Nat
<1>1. IsFiniteSet(Part) /\ Cardinality(Part) = NumSubtasks
  BY ListAssumption, FS_Interval DEF Part
<1>2. IsFiniteSet(Task)
  BY ListAssumption, FS_Interval DEF Task
<1>3. ASSUME NEW S \in SUBSET Part
      PROVE  IsFiniteSet(S) /\ Cardinality(S) \in 0..NumSubtasks
  <2>1. IsFiniteSet(S) /\ Cardinality(S) <= Cardinality(Part)
    BY <1>1, FS_Subset
  <2>2. Cardinality(S) \in Nat
    BY <2>1, FS_CardinalityType
  <2> QED  BY <1>1, <2>1, <2>2, ListAssumption
<1>4. ASSUME NEW S \in SUBSET Task
      PROVE  IsFiniteSet(S) /\ Cardinality(S) \in Nat
  BY <1>2, FS_Subset, FS_CardinalityType
<1> QED  BY <1>1, <1>2, <1>3, <1>4

LEMMA FiniteSubtasks ==
  ASSUME NEW S \in SUBSET Subtask
  PROVE  IsFiniteSet(S) /\ Cardinality(S) \in Nat
<1>1. IsFiniteSet(Task \X Part)
  BY FiniteParts, FS_Product
<1> QED  BY <1>1, FS_Subset, FS_CardinalityType DEF Subtask

LEMMA Parting ==
  ASSUME NEW s \in Subtask
  PROVE  s[1] \in Task /\ s[2] \in Part /\ s = <<s[1], s[2]>>
BY DEF Subtask

LEMMA InitIInv == Init => IInv
<1> SUFFICES ASSUME Init PROVE IInv
  OBVIOUS
<1> USE DEF Init
<1>1. DOMAIN placed = {}
  OBVIOUS
<1>2. 0 \in Part
  BY ListAssumption DEF Part
<1>3. \A t \in Task : ~Full(t) /\ Unfinished(t) = Predecessors(t)
                      /\ PlacedParts(t) = {}
  <2>1. \A t \in Task : ~Full(t) /\ PlacedParts(t) = {}
    BY <1>1, <1>2 DEF Full, PlacedParts
  <2> QED  BY <2>1 DEF Unfinished, Predecessors
<1>4. \A t \in Task : Cardinality(Predecessors(t)) \in Nat
  BY FiniteParts DEF Predecessors
<1>5. TypeOK
  <2>1. numScheduled \in [Task -> 0..NumSubtasks]
    BY ListAssumption
  <2>2. \A s \in queue : numScheduled[s[1]] < NumSubtasks
    BY ListAssumption, Parting
  <2>3. numUnfinished \in [Task -> Nat]
    BY <1>4
  <2>4. placed \in [DOMAIN placed -> [proc : Proc, begin : Nat, end : Nat]]
    BY <1>1
  <2> QED  BY <1>1, <2>1, <2>2, <2>3, <2>4 DEF TypeOK
<1>6. Counted
  BY <1>3, FS_EmptySet DEF Counted
<1>7. Frontier
  BY <1>1, <1>3, Parting DEF Frontier
<1>8. Times
  BY <1>1, <1>3 DEF Times, Predecessors
<1>9. Bounded
  BY DEF Bounded
<1>10. PrecedenceKept /\ ProcessorsNotShared
  BY <1>1 DEF PrecedenceKept, ProcessorsNotShared
<1>11. MakespanWithinWork
  BY <1>1, FS_EmptySet, ListAssumption DEF MakespanWithinWork
<1> QED  BY <1>5, <1>6, <1>7, <1>8, <1>9, <1>10, <1>11 DEF IInv

----------------------------------------------------------------------------
(* What placing a subtask changes, told apart task by task. *)

LEMMA Placing ==
  ASSUME IInv, NEW s \in queue, NEW p \in Proc, ScheduleTop(s, p)
  PROVE  /\ s \in Subtask /\ s \notin DOMAIN placed
         /\ DOMAIN placed' = DOMAIN placed \cup {s}
         /\ \A r \in DOMAIN placed : placed'[r] = placed[r]
         /\ placed'[s] = [proc |-> p, begin |-> Begin(s[1], p),
                          end |-> End(s[1], p)]
         /\ PlacedParts(s[1])' = PlacedParts(s[1]) \cup {s[2]}
         /\ \A t \in Task \ {s[1]} : PlacedParts(t)' = PlacedParts(t)
<1> USE DEF IInv
<1>1. s \in Subtask /\ s \notin DOMAIN placed
  BY DEF Frontier, TypeOK
<1>2. DOMAIN placed' = DOMAIN placed \cup {s}
  BY DEF ScheduleTop
<1>3. \A r \in DOMAIN placed : placed'[r] = placed[r]
  BY <1>1 DEF ScheduleTop
<1>4. placed'[s] = [proc |-> p, begin |-> Begin(s[1], p), end |-> End(s[1], p)]
  BY DEF ScheduleTop
<1>5. s[1] \in Task /\ s[2] \in Part /\ s = <<s[1], s[2]>>
  BY <1>1, Parting
<1>6. PlacedParts(s[1])' = PlacedParts(s[1]) \cup {s[2]}
  BY <1>2, <1>5 DEF PlacedParts
<1>7. \A t \in Task \ {s[1]} : PlacedParts(t)' = PlacedParts(t)
  <2> SUFFICES ASSUME NEW t \in Task \ {s[1]}
               PROVE  \A i \in Part : <<t, i>> \in DOMAIN placed'
                                        <=> <<t, i>> \in DOMAIN placed
    BY DEF PlacedParts
  <2> QED  BY <1>2, <1>5
<1> QED  BY <1>1, <1>2, <1>3, <1>4, <1>6, <1>7

\* The last subtask of a task is recognized by the count.
LEMMA Completing ==
  ASSUME IInv, NEW s \in queue, NEW p \in Proc, ScheduleTop(s, p)
  PROVE  /\ ~Full(s[1])
         /\ LastPart(s[1]) <=> Full(s[1])'
         /\ \A t \in Task \ {s[1]} : Full(t)' <=> Full(t)
         /\ Cardinality(PlacedParts(s[1])') = numScheduled[s[1]] + 1
         /\ numScheduled[s[1]] + 1 <= NumSubtasks
<1> DEFINE t == s[1]
           P == PlacedParts(t)
<1>1. t \in Task /\ s[2] \in Part /\ s = <<t, s[2]>>
  BY Placing, Parting
<1>2. ~Full(t)
  BY <1>1, Placing DEF Full
<1>3. \A u \in Task : /\ Full(u) <=> PlacedParts(u) = Part
                      /\ Full(u)' <=> PlacedParts(u)' = Part
  BY DEF Full, PlacedParts
<1>4. \A u \in Task \ {t} : Full(u)' <=> Full(u)
  BY <1>3, Placing
<1>5. P \in SUBSET Part /\ s[2] \notin P /\ P \cup {s[2]} \in SUBSET Part
  BY <1>1, Placing DEF PlacedParts
<1>6. /\ IsFiniteSet(P) /\ IsFiniteSet(P \cup {s[2]})
      /\ Cardinality(P \cup {s[2]}) = Cardinality(P) + 1
      /\ Cardinality(P \cup {s[2]}) \in 0..NumSubtasks
  BY <1>5, FiniteParts, FS_AddElement
<1>7. numScheduled[t] = Cardinality(P)
  BY <1>1 DEF IInv, Counted
<1>8. P' = P \cup {s[2]}
  BY Placing
<1>9. P' = Part <=> Cardinality(P') = NumSubtasks
  <2>1. Cardinality(P') = Cardinality(Part) => P' = Part
    BY <1>5, <1>8, FiniteParts, FS_Subset
  <2> QED  BY <2>1, FiniteParts
<1>10. LastPart(t) <=> Full(t)'
  BY <1>1, <1>3, <1>6, <1>7, <1>8, <1>9 DEF LastPart
<1> QED  BY <1>2, <1>4, <1>6, <1>7, <1>8, <1>10, ListAssumption

\* Its successors, and no other task, lose a predecessor then.
LEMMA Telling ==
  ASSUME IInv, NEW s \in queue, NEW p \in Proc, ScheduleTop(s, p),
         NEW u \in Task
  PROVE  LET told == LastPart(s[1]) /\ u \in Successors(s[1]) IN
         /\ Unfinished(u)' = IF told THEN Unfinished(u) \ {s[1]} ELSE Unfinished(u)
         /\ told => s[1] \in Unfinished(u)
         /\ Unfinished(u) \in SUBSET Task
         /\ numUnfinished'[u] = IF told THEN numUnfinished[u] - 1
                                ELSE numUnfinished[u]
<1> DEFINE t == s[1]
<1>1. t \in Task
  BY Placing, Parting
<1>2. t \in Predecessors(u) <=> u \in Successors(t)
  BY <1>1 DEF Predecessors, Successors
<1>3. \A q \in Predecessors(u) : q \in Task
  BY DEF Predecessors
<1>4. \A q \in Predecessors(u) :
        ~Full(q)' <=> ~Full(q) /\ ~(q = t /\ LastPart(t))
  BY <1>1, <1>3, Completing
<1>5. \A q : q \in Unfinished(u)' <=> q \in Predecessors(u) /\ ~Full(q)'
  BY DEF Unfinished, Predecessors
<1>6. \A q : q \in Unfinished(u) <=> q \in Predecessors(u) /\ ~Full(q)
  BY DEF Unfinished
<1>7. Unfinished(u)' = IF LastPart(t) /\ u \in Successors(t)
                       THEN Unfinished(u) \ {t} ELSE Unfinished(u)
  BY <1>2, <1>4, <1>5, <1>6
<1>8. LastPart(t) /\ u \in Successors(t) => t \in Unfinished(u)
  BY <1>2, <1>6, Completing
<1>9. numUnfinished'[u] = IF LastPart(t) /\ u \in Successors(t)
                          THEN numUnfinished[u] - 1 ELSE numUnfinished[u]
  BY DEF ScheduleTop
<1> QED  BY <1>3, <1>6, <1>7, <1>8, <1>9

LEMMA CountedStep ==
  ASSUME IInv, NEW s \in queue, NEW p \in Proc, ScheduleTop(s, p)
  PROVE  Counted'
<1> DEFINE t == s[1]
<1>1. t \in Task
  BY Placing, Parting
<1>2. numScheduled' = [numScheduled EXCEPT ![t] = @ + 1]
      /\ numScheduled \in [Task -> 0..NumSubtasks]
  BY DEF ScheduleTop, IInv, TypeOK
<1>3. ASSUME NEW u \in Task
      PROVE  numScheduled'[u] = Cardinality(PlacedParts(u)')
  <2>1. CASE u = t
    BY <1>1, <1>2, <2>1, Completing
  <2>2. CASE u # t
    <3>1. PlacedParts(u)' = PlacedParts(u)
      BY <2>2, Placing
    <3> QED  BY <1>2, <2>2, <3>1 DEF IInv, Counted
  <2> QED  BY <2>1, <2>2
<1>4. ASSUME NEW u \in Task
      PROVE  numUnfinished'[u] = Cardinality(Unfinished(u)')
  <2>1. numUnfinished[u] = Cardinality(Unfinished(u))
    BY DEF IInv, Counted
  <2>2. IsFiniteSet(Unfinished(u)) /\ Cardinality(Unfinished(u)) \in Nat
    BY Telling, FiniteParts
  <2>3. CASE LastPart(t) /\ u \in Successors(t)
    <3>1. Unfinished(u)' = Unfinished(u) \ {t} /\ t \in Unfinished(u)
          /\ numUnfinished'[u] = numUnfinished[u] - 1
      BY <2>3, Telling
    <3>2. Cardinality(Unfinished(u) \ {t}) = Cardinality(Unfinished(u)) - 1
      BY <2>2, <3>1, FS_RemoveElement
    <3> QED  BY <2>1, <3>1, <3>2
  <2>4. CASE ~(LastPart(t) /\ u \in Successors(t))
    <3>1. Unfinished(u)' = Unfinished(u) /\ numUnfinished'[u] = numUnfinished[u]
      BY <2>4, Telling
    <3> QED  BY <2>1, <3>1
  <2> QED  BY <2>3, <2>4
<1> QED  BY <1>3, <1>4 DEF Counted

\* FreeAtLast finds the tasks that have no unfinished predecessor left.
LEMMA Freeing ==
  ASSUME IInv, NEW s \in queue, NEW p \in Proc, ScheduleTop(s, p),
         NEW u \in Task, LastPart(s[1]), u \in Successors(s[1])
  PROVE  FreeAtLast(u) <=> Unfinished(u)' = {}
<1>1. Unfinished(u)' \in SUBSET Task
  BY Telling
<1>2. IsFiniteSet(Unfinished(u)')
  BY <1>1, FiniteParts
<1>3. numUnfinished'[u] = numUnfinished[u] - 1
  BY Telling
<1>4. numUnfinished'[u] = Cardinality(Unfinished(u)')
  BY CountedStep DEF Counted
<1> QED  BY <1>2, <1>3, <1>4, FS_EmptySet DEF FreeAtLast

LEMMA FrontierStep ==
  ASSUME IInv, NEW s \in queue, NEW p \in Proc, ScheduleTop(s, p)
  PROVE  Frontier'
<1> DEFINE t == s[1]
           told == IF LastPart(t) THEN Successors(t) ELSE {}
<1>1. t \in Task /\ s \in Subtask
  BY Placing, Parting
<1>2. queue' = (queue \ {s})
                 \cup {r \in Subtask : r[1] \in {u \in told : FreeAtLast(u)}}
  BY DEF ScheduleTop, Enqueued
<1>3. DOMAIN placed' = DOMAIN placed \cup {s}
  BY Placing
<1>4. \A u \in Task : Unfinished(u) = {} => Unfinished(u)' = {}
  BY Telling
<1>5. Unfinished(t) = {} /\ t \notin Successors(t)
  <2>1. Unfinished(t) = {}
    BY <1>1 DEF IInv, Frontier
  <2>2. t \notin Successors(t)
    BY <1>1, ListAssumption DEF Successors, Task
  <2> QED  BY <2>1, <2>2
<1>6. ASSUME NEW r \in DOMAIN placed'
      PROVE  Unfinished(r[1])' = {}
  <2>1. r[1] \in Task
    BY <1>1, <1>3, Parting DEF IInv, TypeOK
  <2>2. Unfinished(r[1]) = {}
    BY <1>3, <1>5 DEF IInv, Frontier
  <2> QED  BY <1>4, <2>1, <2>2
<1>7. ASSUME NEW r \in Subtask
      PROVE  r \in queue' <=> r \notin DOMAIN placed' /\ Unfinished(r[1])' = {}
  <2> DEFINE u == r[1]
  <2>1. u \in Task
    BY Parting
  <2>2. r \in queue <=> r \notin DOMAIN placed /\ Unfinished(u) = {}
    BY DEF IInv, Frontier
  <2>3. u \in told /\ FreeAtLast(u) => Unfinished(u)' = {} /\ r \notin DOMAIN placed'
    <3> SUFFICES ASSUME u \in told, FreeAtLast(u)
                 PROVE  Unfinished(u)' = {} /\ r \notin DOMAIN placed'
      OBVIOUS
    <3>1. LastPart(t) /\ u \in Successors(t)
      OBVIOUS
    <3>2. Unfinished(u)' = {}
      BY <2>1, <3>1, Freeing
    <3>3. t \in Unfinished(u)
      BY <2>1, <3>1, Telling
    <3>4. r \notin DOMAIN placed
      BY <3>3 DEF IInv, Frontier
    <3>5. r # s
      BY <1>5, <3>1
    <3> QED  BY <1>3, <3>2, <3>4, <3>5
  <2>4. Unfinished(u)' = {} /\ Unfinished(u) # {} => u \in told /\ FreeAtLast(u)
    <3> SUFFICES ASSUME Unfinished(u)' = {}, Unfinished(u) # {}
                 PROVE  u \in told /\ FreeAtLast(u)
      OBVIOUS
    <3>1. LastPart(t) /\ u \in Successors(t)
      BY <2>1, Telling
    <3> QED  BY <2>1, <3>1, Freeing
  <2> QED  BY <1>2, <1>3, <1>4, <2>1, <2>2, <2>3, <2>4
<1> QED  BY <1>6, <1>7 DEF Frontier

----------------------------------------------------------------------------
(* Types and times. *)

LEMMA Ending ==
  ASSUME IInv, NEW s \in queue, NEW p \in Proc, ScheduleTop(s, p)
  PROVE  /\ Begin(s[1], p) \in Nat /\ End(s[1], p) \in Nat
         /\ Begin(s[1], p) <= End(s[1], p)
         /\ idleFrom[p] <= Begin(s[1], p) /\ readyTime[s[1]] <= Begin(s[1], p)
         /\ idleFrom' = [idleFrom EXCEPT ![p] = End(s[1], p)]
         /\ finishTime' = [finishTime EXCEPT
                             ![s[1]] = Later(finishTime[s[1]], End(s[1], p))]
         /\ makespan' = Later(makespan, End(s[1], p))
         /\ End(s[1], p) <= makespan + ExecTime
         /\ readyTime[s[1]] \in Nat /\ idleFrom[p] \in Nat
<1>1. s[1] \in Task
  BY Placing, Parting
<1>2. readyTime[s[1]] \in Nat /\ idleFrom[p] \in Nat /\ makespan \in Nat
  BY <1>1 DEF IInv, TypeOK
<1>3. readyTime[s[1]] <= makespan /\ idleFrom[p] <= makespan
  BY <1>1 DEF IInv, Bounded
<1>4. /\ idleFrom' = [idleFrom EXCEPT ![p] = End(s[1], p)]
      /\ finishTime' = [finishTime EXCEPT
                          ![s[1]] = Later(finishTime[s[1]], End(s[1], p))]
      /\ makespan' = Later(makespan, End(s[1], p))
  BY DEF ScheduleTop
<1> QED  BY <1>2, <1>3, <1>4, ListAssumption DEF Begin, End, Later

LEMMA TypeOKStep ==
  ASSUME IInv, NEW s \in queue, NEW p \in Proc, ScheduleTop(s, p)
  PROVE  TypeOK'
<1> DEFINE t == s[1]
           end == End(t, p)
<1>1. t \in Task /\ s \in Subtask
  BY Placing, Parting
<1>2. TypeOK
  BY DEF IInv
<1>3. queue' \subseteq Subtask
  BY <1>2 DEF ScheduleTop, Enqueued, TypeOK
<1>4. numScheduled' \in [Task -> 0..NumSubtasks]
  <2>1. numScheduled[t] + 1 \in 0..NumSubtasks
    BY <1>1, <1>2, Completing, ListAssumption DEF TypeOK
  <2> QED  BY <1>2, <2>1 DEF ScheduleTop, TypeOK
<1>5. ASSUME NEW r \in queue'
      PROVE  numScheduled'[r[1]] < NumSubtasks
  <2> DEFINE u == r[1]
             P == PlacedParts(u)'
  <2>1. u \in Task /\ r[2] \in Part /\ r = <<u, r[2]>>
    BY <1>3, Parting
  <2>2. r \notin DOMAIN placed'
    BY <1>3, FrontierStep DEF Frontier
  <2>3. P \in SUBSET Part /\ r[2] \notin P
    BY <2>1, <2>2 DEF PlacedParts
  <2>4. Cardinality(P) # Cardinality(Part)
    BY <2>1, <2>3, FiniteParts, FS_Subset
  <2>5. Cardinality(P) \in 0..NumSubtasks /\ Cardinality(Part) = NumSubtasks
    BY <2>3, FiniteParts
  <2>6. numScheduled'[u] = Cardinality(P)
    BY <2>1, CountedStep DEF Counted
  <2> QED  BY <2>4, <2>5, <2>6, ListAssumption
<1>6. numUnfinished' \in [Task -> Nat]
  <2>1. ASSUME NEW u \in Task PROVE numUnfinished'[u] \in Nat
    <3>1. Unfinished(u)' \in SUBSET Task
      BY Telling
    <3>2. numUnfinished'[u] = Cardinality(Unfinished(u)')
      BY CountedStep DEF Counted
    <3> QED  BY <3>1, <3>2, FiniteParts
  <2>2. numUnfinished' = [u \in Task |-> numUnfinished'[u]]
    BY DEF ScheduleTop
  <2> QED  BY <2>1, <2>2
<1>7. Later(finishTime[t], end) \in Nat
  BY <1>1, <1>2, Ending DEF Later, TypeOK
<1>8. finishTime' \in [Task -> Nat \cup {-1}]
  BY <1>2, <1>7, Ending DEF TypeOK
<1>9. readyTime' \in [Task -> Nat]
  <2>1. \A u \in Task : Later(readyTime[u], Later(finishTime[t], end)) \in Nat
    BY <1>2, <1>7 DEF Later, TypeOK
  <2> QED  BY <1>2, <2>1 DEF ScheduleTop, TypeOK
<1>10. DOMAIN placed' \subseteq Subtask
  BY <1>1, <1>2, Placing DEF TypeOK
<1>11. placed' \in [DOMAIN placed' -> [proc : Proc, begin : Nat, end : Nat]]
  <2>0. placed'[s] = [proc |-> p, begin |-> Begin(t, p), end |-> end]
    BY Placing
  <2>1. placed'[s] \in [proc : Proc, begin : Nat, end : Nat]
    BY <2>0, Ending
  <2>2. \A r \in DOMAIN placed' : placed'[r] \in [proc : Proc, begin : Nat, end : Nat]
    BY <1>2, <2>1, Placing DEF TypeOK
  <2>3. placed' = [r \in DOMAIN placed' |-> placed'[r]]
    BY DEF ScheduleTop
  <2> QED  BY <2>2, <2>3
<1>12. idleFrom' \in [Proc -> Nat] /\ makespan' \in Nat
  BY <1>2, Ending DEF Later, TypeOK
<1> QED  BY <1>3, <1>4, <1>5, <1>6, <1>8, <1>9, <1>10, <1>11, <1>12 DEF TypeOK

LEMMA TimesStep ==
  ASSUME IInv, NEW s \in queue, NEW p \in Proc, ScheduleTop(s, p)
  PROVE  Times' /\ Bounded'
<1> DEFINE t == s[1]
           end == End(t, p)
           finish == Later(finishTime[t], end)
<1>1. t \in Task
  BY Placing, Parting
<1>2. /\ finishTime \in [Task -> Nat \cup {-1}] /\ readyTime \in [Task -> Nat]
      /\ idleFrom \in [Proc -> Nat] /\ makespan \in Nat
      /\ \A r \in DOMAIN placed : /\ r[1] \in Task /\ placed[r].proc \in Proc
                                  /\ placed[r].end \in Nat
  BY Parting DEF IInv, TypeOK
<1>3. end \in Nat /\ finish \in Nat /\ finishTime[t] <= finish /\ end <= finish
      /\ idleFrom[p] <= end
  BY <1>1, <1>2, Ending DEF Later
<1>4. \A u \in Task : finishTime'[u] = IF u = t THEN finish ELSE finishTime[u]
  BY <1>2, Ending
<1>5. \A q \in Proc : idleFrom'[q] = IF q = p THEN end ELSE idleFrom[q]
  BY <1>2, Ending
<1>6. \A u \in Task : readyTime'[u] =
        IF LastPart(t) /\ u \in Successors(t)
        THEN Later(readyTime[u], finish) ELSE readyTime[u]
  BY DEF ScheduleTop
<1>7. makespan' = Later(makespan, end)
  BY Ending
<1>8. ASSUME NEW r \in DOMAIN placed'
      PROVE  /\ placed'[r].end <= finishTime'[r[1]]
             /\ placed'[r].end <= idleFrom'[placed'[r].proc]
  <2>0. /\ DOMAIN placed' = DOMAIN placed \cup {s}
        /\ placed'[s] = [proc |-> p, begin |-> Begin(t, p), end |-> end]
    BY Placing
  <2>1. CASE r = s
    <3>1. placed'[r].end = end /\ placed'[r].proc = p
      BY <2>0, <2>1
    <3> QED  BY <1>1, <1>3, <1>4, <1>5, <2>1, <3>1
  <2>2. CASE r \in DOMAIN placed
    <3>1. placed'[r] = placed[r]
      BY <2>2, Placing
    <3>2. placed[r].end <= finishTime[r[1]] /\ placed[r].end <= idleFrom[placed[r].proc]
      BY <2>2 DEF IInv, Times
    <3> QED  BY <1>1, <1>2, <1>3, <1>4, <1>5, <2>2, <3>1, <3>2
  <2> QED  BY <2>0, <2>1, <2>2
<1>9. ASSUME NEW u \in Task, NEW q \in Predecessors(u), Full(q)'
      PROVE  finishTime'[q] <= readyTime'[u]
  <2>1. q \in Task
    BY DEF Predecessors
  <2>2. CASE q = t
    <3>1. LastPart(t) /\ u \in Successors(t)
      BY <1>1, <1>9, <2>2, Completing DEF Predecessors, Successors
    <3> QED  BY <1>1, <1>2, <1>3, <1>4, <1>6, <2>2, <3>1 DEF Later
  <2>3. CASE q # t
    <3>1. Full(q)
      BY <1>9, <2>1, <2>3, Completing
    <3>2. finishTime[q] <= readyTime[u]
      BY <3>1 DEF IInv, Times
    <3> QED  BY <1>2, <1>3, <1>4, <1>6, <2>1, <2>3, <3>2 DEF Later
  <2> QED  BY <2>2, <2>3
<1>10. Times'
  <2>1. \A u : Predecessors(u)' = Predecessors(u)
    BY DEF Predecessors
  <2> QED  BY <1>8, <1>9, <2>1 DEF Times
<1>11. Bounded'
  <2>1. \A u \in Task : finishTime[u] <= makespan /\ readyTime[u] <= makespan
    BY DEF IInv, Bounded
  <2>2. \A q \in Proc : idleFrom[q] <= makespan
    BY DEF IInv, Bounded
  <2>3. makespan <= makespan' /\ end <= makespan' /\ finish <= makespan'
    BY <1>1, <1>2, <1>3, <1>7, <2>1 DEF Later
  <2>4. makespan' \in Nat
    BY <1>2, <1>3, <1>7 DEF Later
  <2>5. \A u \in Task : finishTime'[u] <= makespan' /\ readyTime'[u] <= makespan'
    BY <1>2, <1>3, <1>4, <1>6, <2>1, <2>3, <2>4 DEF Later
  <2>6. \A q \in Proc : idleFrom'[q] <= makespan'
    BY <1>2, <1>3, <1>5, <2>2, <2>3, <2>4
  <2> QED  BY <2>5, <2>6 DEF Bounded
<1> QED  BY <1>10, <1>11

----------------------------------------------------------------------------
(* The schedule. *)

\* The new subtask begins after the predecessors of its task; what was placed
\* stays where it is, behind predecessors that were complete already.
LEMMA PrecedenceStep ==
  ASSUME IInv, NEW s \in queue, NEW p \in Proc, ScheduleTop(s, p)
  PROVE  PrecedenceKept'
<1> DEFINE t == s[1]
<1>1. t \in Task /\ s \in Subtask
  BY Placing, Parting
<1>2. DOMAIN placed' = DOMAIN placed \cup {s} /\ s \notin DOMAIN placed
  BY Placing
<1>3. \A r \in DOMAIN placed : placed'[r] = placed[r]
  BY Placing
<1>4. placed'[s].begin = Begin(t, p)
  <2>1. placed'[s] = [proc |-> p, begin |-> Begin(t, p), end |-> End(t, p)]
    BY Placing
  <2> QED  BY <2>1
<1>5. \A r \in DOMAIN placed : placed[r].end \in Nat /\ r[1] \in Task
  BY Parting DEF IInv, TypeOK
<1>6. ASSUME NEW r \in DOMAIN placed', NEW q \in Predecessors(r[1]), NEW i \in Part
      PROVE  <<q, i>> \in DOMAIN placed' /\ placed'[<<q, i>>].end <= placed'[r].begin
  <2>1. CASE r \in DOMAIN placed
    <3>1. <<q, i>> \in DOMAIN placed /\ placed[<<q, i>>].end <= placed[r].begin
      BY <2>1 DEF IInv, PrecedenceKept
    <3> QED  BY <1>2, <1>3, <2>1, <3>1
  <2>2. CASE r = s
    <3> DEFINE o == <<q, i>>
    <3>1. q \in Predecessors(t) /\ q \in Task
      BY <2>2 DEF Predecessors
    <3>2. Full(q)
      BY <1>1, <3>1 DEF IInv, Frontier, Unfinished
    <3>3. o \in DOMAIN placed
      BY <3>2 DEF Full
    <3>4. placed[o].end <= finishTime[q]
      BY <3>3 DEF IInv, Times
    <3>5. finishTime[q] <= readyTime[t]
      BY <1>1, <3>1, <3>2 DEF IInv, Times
    <3>6. readyTime[t] <= Begin(t, p) /\ readyTime[t] \in Nat /\ Begin(t, p) \in Nat
      BY Ending
    <3>7. finishTime[q] \in Nat \cup {-1}
      BY <3>1 DEF IInv, TypeOK
    <3>8. placed[o].end <= Begin(t, p)
      BY <1>5, <3>3, <3>4, <3>5, <3>6, <3>7
    <3> QED  BY <1>2, <1>3, <1>4, <2>2, <3>3, <3>8
  <2> QED  BY <1>2, <2>1, <2>2
<1>7. \A u : Predecessors(u)' = Predecessors(u)
  BY DEF Predecessors
<1> QED  BY <1>6, <1>7 DEF PrecedenceKept

\* The processor is idle from the end of everything that was placed on it.
LEMMA SharingStep ==
  ASSUME IInv, NEW s \in queue, NEW p \in Proc, ScheduleTop(s, p)
  PROVE  ProcessorsNotShared'
<1>1. DOMAIN placed' = DOMAIN placed \cup {s} /\ s \notin DOMAIN placed
  BY Placing
<1>2. \A r \in DOMAIN placed : placed'[r] = placed[r]
  BY Placing
<1>3. placed'[s].begin = Begin(s[1], p) /\ placed'[s].proc = p
  <2>1. placed'[s] = [proc |-> p, begin |-> Begin(s[1], p), end |-> End(s[1], p)]
    BY Placing
  <2> QED  BY <2>1
<1>4. idleFrom[p] <= Begin(s[1], p) /\ idleFrom[p] \in Nat /\ Begin(s[1], p) \in Nat
  BY Ending
<1>5. ASSUME NEW r \in DOMAIN placed, placed[r].proc = p
      PROVE  placed'[r].end <= placed'[s].begin
  <2>1. placed[r].end <= idleFrom[p]
    BY <1>5 DEF IInv, Times
  <2>2. placed[r].end \in Nat
    BY DEF IInv, TypeOK
  <2>3. placed[r].end <= Begin(s[1], p)
    BY <1>4, <2>1, <2>2
  <2> QED  BY <1>2, <1>3, <2>3
<1>6. ASSUME NEW q \in DOMAIN placed', NEW r \in DOMAIN placed',
             q # r, placed'[q].proc = placed'[r].proc
      PROVE  \/ placed'[q].end <= placed'[r].begin
             \/ placed'[r].end <= placed'[q].begin
  <2>1. CASE q \in DOMAIN placed /\ r \in DOMAIN placed
    BY <1>2, <1>6, <2>1 DEF IInv, ProcessorsNotShared
  <2>2. CASE q = s /\ r \in DOMAIN placed
    BY <1>2, <1>3, <1>5, <1>6, <2>2
  <2>3. CASE r = s /\ q \in DOMAIN placed
    BY <1>2, <1>3, <1>5, <1>6, <2>3
  <2> QED  BY <1>1, <1>6, <2>1, <2>2, <2>3
<1> QED  BY <1>6 DEF ProcessorsNotShared

\* Every subtask lets the makespan grow by its own time at most.
LEMMA MakespanStep ==
  ASSUME IInv, NEW s \in queue, NEW p \in Proc, ScheduleTop(s, p)
  PROVE  MakespanWithinWork'
<1> DEFINE n == Cardinality(DOMAIN placed)
<1>1. DOMAIN placed' = DOMAIN placed \cup {s} /\ s \notin DOMAIN placed
  BY Placing
<1>2. IsFiniteSet(DOMAIN placed) /\ n \in Nat
  BY FiniteSubtasks DEF IInv, TypeOK
<1>3. Cardinality(DOMAIN placed') = n + 1
  BY <1>1, <1>2, FS_AddElement
<1>4. makespan' = Later(makespan, End(s[1], p)) /\ End(s[1], p) <= makespan + ExecTime
      /\ End(s[1], p) \in Nat
  BY Ending
<1>5. makespan <= ExecTime * n /\ makespan \in Nat
  BY DEF IInv, MakespanWithinWork, TypeOK
<1>6. ExecTime * (n + 1) = ExecTime * n + ExecTime /\ ExecTime * n \in Nat
  BY <1>2, ListAssumption
<1>7. makespan' <= ExecTime * n + ExecTime
  <2> HIDE DEF n
  <2>1. makespan <= ExecTime * n + ExecTime
    BY <1>5, <1>6, ListAssumption
  <2>2. End(s[1], p) <= ExecTime * n + ExecTime
    BY <1>4, <1>5, <1>6, ListAssumption
  <2> QED  BY <1>4, <2>1, <2>2 DEF Later
<1> QED  BY <1>3, <1>6, <1>7 DEF MakespanWithinWork

----------------------------------------------------------------------------
(* The inductive invariant and what follows from it. *)

LEMMA Invariance == IInv /\ [Next]_vars => IInv'
<1> SUFFICES ASSUME IInv, [Next]_vars PROVE IInv'
  OBVIOUS
<1>1. CASE Next
  <2>1. PICK s \in queue, p \in Proc : ScheduleTop(s, p)
    BY <1>1 DEF Next
  <2>2. TypeOK' /\ Counted' /\ Frontier' /\ Times' /\ Bounded'
    BY <2>1, TypeOKStep, CountedStep, FrontierStep, TimesStep
  <2>3. PrecedenceKept' /\ ProcessorsNotShared' /\ MakespanWithinWork'
    BY <2>1, PrecedenceStep, SharingStep, MakespanStep
  <2> QED  BY <2>2, <2>3 DEF IInv
<1>2. CASE UNCHANGED vars
  <2> USE <1>2 DEF vars, IInv
  <2>1. TypeOK'
    BY DEF TypeOK
  <2>2. Counted' /\ Frontier' /\ Times'
    BY DEF Counted, Frontier, Times, PlacedParts, Unfinished, Full, Predecessors
  <2>3. Bounded' /\ MakespanWithinWork' /\ ProcessorsNotShared'
    BY DEF Bounded, MakespanWithinWork, ProcessorsNotShared
  <2>4. PrecedenceKept'
    BY DEF PrecedenceKept, Predecessors
  <2> QED  BY <2>1, <2>2, <2>3, <2>4
<1> QED  BY <1>1, <1>2

\* A task that is left unplaced has a first predecessor that is left unplaced,
\* and that one is in the queue.
LEMMA NothingForgotten == IInv => EmptyMeansDone
<1> SUFFICES ASSUME IInv, queue = {} PROVE DOMAIN placed = Subtask
  BY DEF EmptyMeansDone
<1> DEFINE Left == {t \in Task : ~Full(t)}
<1>1. \A t \in Left : Unfinished(t) # {}
  <2> SUFFICES ASSUME NEW t \in Left, Unfinished(t) = {} PROVE FALSE
    OBVIOUS
  <2>1. PICK i \in Part : <<t, i>> \notin DOMAIN placed
    BY DEF Full
  <2>2. <<t, i>> \in Subtask
    BY DEF Subtask
  <2> QED  BY <2>1, <2>2 DEF IInv, Frontier
<1>2. \A t \in Left : \E q \in Left : q < t
  <2> SUFFICES ASSUME NEW t \in Left PROVE \E q \in Left : q < t
    OBVIOUS
  <2>1. PICK q \in Unfinished(t) : TRUE
    BY <1>1
  <2>2. q \in Task /\ <<q, t>> \in Edges /\ ~Full(q)
    BY DEF Unfinished, Predecessors
  <2>3. q < t
    BY <2>2, ListAssumption
  <2> QED  BY <2>2, <2>3
<1>3. Left = {}
  <2> SUFFICES ASSUME Left # {} PROVE FALSE
    OBVIOUS
  <2>1. Left \subseteq Nat
    BY ListAssumption DEF Task
  <2> DEFINE Less == {r \in Nat \X Nat : r[1] < r[2]}
  <2>2. IsWellFoundedOn(Less, Nat)
    BY NatLessThanWellFounded DEF OpToRel
  <2>3. PICK t \in Left : \A q \in Left : ~(<<q, t>> \in Less)
    <3> HIDE DEF Less
    <3> QED  BY <2>1, <2>2, WFMin
  <2> QED  BY <1>2, <2>1, <2>3
<1>4. \A s \in Subtask : s \in DOMAIN placed
  BY <1>3, Parting DEF Full
<1> QED  BY <1>4 DEF IInv, TypeOK

\* The invariant holds throughout.
THEOREM InvariantHolds == Spec => []IInv
BY InitIInv, Invariance, PTL DEF Spec

\* on_scheduled's assertion that a subtask in the queue is one of a task with
\* subtasks left holds always, and every counter stays in its range.
THEOREM TypeCorrect == Spec => []TypeOK
<1>1. IInv => TypeOK
  BY DEF IInv
<1> QED  BY <1>1, InvariantHolds, PTL

\* Whatever the priorities, no subtask begins before the subtasks of its task's
\* predecessors end, and no processor is given two subtasks for the same time.
THEOREM Feasible == Spec => []ScheduleFeasible
<1>1. IInv => ScheduleFeasible
  BY DEF IInv, ScheduleFeasible
<1> QED  BY <1>1, InvariantHolds, PTL

\* The schedule is never longer than the subtasks one after another.
THEOREM MakespanHolds == Spec => []MakespanWithinWork
<1>1. IInv => MakespanWithinWork
  BY DEF IInv
<1> QED  BY <1>1, InvariantHolds, PTL

\* When the queue runs empty, every subtask of every task has been placed: the
\* edges lead to later tasks, so that some task can always go on.
THEOREM NothingLeftBehind == Spec => []EmptyMeansDone
BY NothingForgotten, InvariantHolds, PTL
=============================================================================
