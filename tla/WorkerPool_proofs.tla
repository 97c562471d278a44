-------------------------- MODULE WorkerPool_proofs --------------------------
(***************************************************************************)
(* Proofs about WorkerPool, for every pool, any number of spans and        *)
(* whatever collides.  Those about edges and poison are for one frame, and *)
(* say so: a later frame is bound while the one before it runs.            *)
(***************************************************************************)
EXTENDS WorkerPool, FiniteSetTheorems, WellFoundedInduction,
        NaturalsInduction, TLAPS

\* Every variable is a function or a sequence of the right kind.
Types ==
  /\ main \in {"idle", "binding", "counting", "pushing", "submitted",
               "waiting", "notifying", "joining", "stopped"}
  /\ pipelined \in BOOLEAN /\ terminate \in BOOLEAN
  /\ frames \in 0..MaxFrames
  /\ created \in Nat
  /\ current \in Seq(Job) /\ previous \in Seq(Job)
  /\ toDispatch \in Seq(Job) /\ activeJobs \in Seq(Job)
  /\ toBind \in Seq(Collision)
  /\ inDegree \in [Job -> Int]
  /\ dependents \in [Job -> Seq(Job)]
  /\ nextSpan \in [Job -> Nat]
  /\ finishers \in [Job -> Nat]
  /\ executed \in [Job -> BOOLEAN]
  /\ failed \in [Job -> BOOLEAN]
  /\ aborted \in [Job -> BOOLEAN]
  /\ pc \in [Worker -> Pending \cup {"top", "lock", "blocking", "asleep",
                                     "exited"}]
  /\ task \in [Worker -> Job \cup {0}]
  /\ span \in [Worker -> Nat]
  /\ next \in [Worker -> Nat]
  /\ last \in [Worker -> Nat]
  /\ ran \in [Job -> [0..(Spans - 1) -> Nat]]
  /\ dispatched \in [Job -> Nat]

\* No frame has more than its systems.
Paced == created <= frames * FrameSize

\* What a thread or the main thread is about to touch exists.
InReach ==
  /\ main = "counting" => toBind # <<>>
  /\ main = "pushing" => toDispatch # <<>>
  /\ \A t \in Worker :
       /\ pc[t] \in Pending => task[t] \in Job
       /\ pc[t] = "run" => span[t] < Spans
       /\ pc[t] \in {"resolve", "reset", "push"} =>
            /\ next[t] >= 1
            /\ last[t] <= Len(dependents[task[t]])
       /\ pc[t] \in {"reset", "push"} => next[t] <= last[t]

Inside == {"steal", "run", "count"}

At(j, places) == {t \in Worker : pc[t] \in places /\ task[t] = j}

\* A claim past the end is one of a thread that saw a span left.
ClaimsBounded ==
  /\ \A j \in Job :
       nextSpan[j] + Cardinality(At(j, {"steal"}))
         <= Spans - 1 + Cardinality(Worker)
  /\ \A t \in Worker : span[t] <= Spans - 1 + Cardinality(Worker)

\* The dependent a thread is resolving.
Dependent(t) == dependents[task[t]][next[t]]

\* A job nobody has handed to the pool is as it was created.
Untouched ==
  /\ main = "pushing" => dispatched[Head(toDispatch)] # 0
  /\ \A t \in Worker : pc[t] = "push" => dispatched[Dependent(t)] # 0
  /\ \A j \in Job : dispatched[j] = 0 =>
       /\ nextSpan[j] = 0 /\ finishers[j] = 0
       /\ ~executed[j] /\ ~failed[j]
       /\ j \notin Range(activeJobs)
       /\ \A s \in 0..(Spans - 1) : ran[j][s] = 0
       /\ At(j, Pending) = {}

\* A claimed span is run by who claimed it or has been run, once.
ClaimsOf(j) ==
  /\ \A t \in At(j, {"run"}) : span[t] < nextSpan[j] /\ ran[j][span[t]] = 0
  /\ \A t, u \in At(j, {"run"}) : span[t] = span[u] => t = u
  /\ \A s \in 0..(Spans - 1) :
       /\ ran[j][s] <= 1
       /\ ran[j][s] = 1 => s < nextSpan[j]
       /\ s < nextSpan[j] =>
            ran[j][s] = 1 \/ \E t \in At(j, {"run"}) : span[t] = s

Claims == \A j \in Job : dispatched[j] <= 1 => ClaimsOf(j)

\* A thread that has not counted has not left the job, and nobody enters a
\* job whose spans are claimed.
FinishingOf(j) ==
  /\ finishers[j] + Cardinality(At(j, Inside)) <= Cardinality(Worker)
  /\ nextSpan[j] < Spans => finishers[j] = 0 /\ At(j, {"count"}) = {}
  /\ executed[j] => finishers[j] = Cardinality(Worker)

Finishing == \A j \in Job : dispatched[j] <= 1 => FinishingOf(j)

PoolInv == /\ Types /\ Paced /\ InReach /\ ClaimsBounded /\ Untouched /\ Claims
           /\ Finishing /\ SleepersHaveNothingToDo

\* The only frame: its edges are bound before anything is handed out, and
\* whatever is handed out belongs to it.
FrameJobs == Range(current) \cup Range(previous)
Closing == {"notifying", "joining", "stopped"}

NotBegun ==
  frames = 0 => /\ main \in {"idle"} \cup Closing
                /\ previous = <<>>
                /\ \A j \in Job : dependents[j] = <<>>

BoundFirst ==
  /\ frames = 0 \/ toBind # <<>> => \A j \in Job : dispatched[j] = 0
  /\ main \notin {"binding", "counting"} => toBind = <<>>

Window ==
  /\ main \in {"binding", "counting", "pushing"} => previous = <<>>
  /\ main \in {"idle", "submitted", "waiting"} => current = <<>>
  /\ main = "idle" => \A j \in Range(previous) : Over(j)

OfTheFrame ==
  main \notin Closing =>
    /\ \A p \in Range(toBind) : p[2] \in FrameJobs
    /\ \A j \in Job : Range(dependents[j]) \subseteq FrameJobs
    /\ Range(toDispatch) \subseteq FrameJobs
    /\ \A j \in Job : dispatched[j] # 0 => j \in FrameJobs

OneFrame == NotBegun /\ BoundFirst /\ Window /\ OfTheFrame

\* An edge is the place of a dependent in its predecessor's list.
Edges == {e \in Job \X Nat : e[2] \in 1..Len(dependents[e[1]])}
Target(e) == dependents[e[1]][e[2]]

Iterating == {"iterate", "resolve", "reset", "push"}

\* Thread t has the edge still before it.
Holds(t, e) ==
  /\ task[t] = e[1]
  /\ \/ pc[t] = "iterate"
     \/ pc[t] = "resolve" /\ next[t] <= e[2]
     \/ pc[t] \in {"reset", "push"} /\ next[t] < e[2]

Resolved(e) == executed[e[1]] /\ \A t \in Worker : ~Holds(t, e)

Unresolved(k) == {e \in Edges : Target(e) = k /\ ~Resolved(e)}

\* The edge that is bound and not yet counted.
Uncounted(k) == IF main = "counting" /\ Head(toBind)[2] = k THEN 1 ELSE 0

\* in_degree is exact.
EdgesCounted ==
  \A k \in Job :
    /\ IsFiniteSet(Unresolved(k))
    /\ inDegree[k] + Uncounted(k) = Cardinality(Unresolved(k))

\* One thread goes over the edges of a node, once.
IteratesOnce ==
  /\ \A t \in Worker : pc[t] \in Iterating =>
       /\ executed[task[t]]
       /\ pc[t] # "iterate" => last[t] = Len(dependents[task[t]])
  /\ \A t, u \in Worker :
       pc[t] \in Iterating /\ pc[u] \in Iterating /\ task[t] = task[u] => t = u

\* Who is handed out has nothing to wait for.
FreeToRun ==
  /\ \A k \in Job : dispatched[k] # 0 => Unresolved(k) = {}
  /\ \A t \in Worker : pc[t] = "reset" => Unresolved(Dependent(t)) = {}

\* Who is poisoned knows it before the last edge is resolved.
Poisoned ==
  /\ \A e \in Edges :
       Resolved(e) /\ (failed[e[1]] \/ aborted[e[1]]) => aborted[Target(e)]
  /\ \A t \in Worker : pc[t] \in {"steal", "run"} => ~aborted[task[t]]

FrameInv ==
  /\ PoolInv /\ OneFrame
  /\ DispatchedOnce => /\ EdgesCounted /\ IteratesOnce /\ FreeToRun
                       /\ Poisoned
-----------------------------------------------------------------------------
(* Sequences defined by recursion. *)

LEMMA Least ==
  ASSUME NEW Q \in SUBSET Nat, Q # {}
  PROVE  \E m \in Q : \A i \in 0..(m - 1) : i \notin Q
<1> DEFINE R == {p \in Nat \X Nat : p[1] < p[2]}
<1>1. IsWellFoundedOn(R, Nat)
  BY NatLessThanWellFounded DEF OpToRel
<1>2. PICK m \in Q : \A i \in Q : ~(<<i, m>> \in R)
  BY <1>1, WFMin
<1>3. \A i \in 0..(m - 1) : <<i, m>> \in R
  OBVIOUS
<1> QED  BY <1>2, <1>3

LEMMA SeqOfMore ==
  ASSUME NEW S, NEW T, S \subseteq T, NEW s \in Seq(S)
  PROVE  s \in Seq(T)
OBVIOUS

LEMMA SeqRange ==
  ASSUME NEW S, NEW s \in Seq(S)
  PROVE  s \in Seq(Range(s)) /\ Range(s) \subseteq S
<1>1. s \in [1..Len(s) -> Range(s)] /\ Len(s) \in Nat
  BY DEF Range
<1> QED  BY <1>1 DEF Range

LEMMA HeadOfSeq ==
  ASSUME NEW S, NEW s \in Seq(S), s # <<>>
  PROVE  /\ Head(s) \in S /\ Head(s) \in Range(s)
         /\ Tail(s) \in Seq(S) /\ Range(Tail(s)) \subseteq Range(s)
<1>1. Len(s) \in Nat /\ Len(s) >= 1 /\ DOMAIN s = 1..Len(s)
  OBVIOUS
<1>2. Head(s) = s[1] /\ 1 \in DOMAIN s
  BY <1>1
<1>3. \A i \in DOMAIN Tail(s) : i + 1 \in DOMAIN s /\ Tail(s)[i] = s[i + 1]
  BY <1>1
<1>4. Range(Tail(s)) \subseteq Range(s)
  BY <1>3 DEF Range
<1>5. Tail(s) \in Seq(S)
  OBVIOUS
<1> QED  BY <1>2, <1>4, <1>5 DEF Range

\* The recursion of Selected, up to n, and that it defines a function.
Selecting(f, s, T, n) ==
  f = [i \in 0..n |->
         IF i = 0 THEN <<>>
         ELSE IF s[i] \in T THEN Append(f[i - 1], s[i])
         ELSE f[i - 1]]

LEMMA SelectedExists ==
  ASSUME NEW S, NEW s \in Seq(S), NEW T
  PROVE  \A n \in 0..Len(s) : \E f : Selecting(f, s, T, n)
<1> DEFINE Body(f, n) == [i \in 0..n |->
                            IF i = 0 THEN <<>>
                            ELSE IF s[i] \in T THEN Append(f[i - 1], s[i])
                            ELSE f[i - 1]]
           Bad == {n \in 0..Len(s) : ~\E f : f = Body(f, n)}
<1> SUFFICES ASSUME Bad # {} PROVE FALSE
  BY DEF Selecting
<1>1. PICK n \in Bad : \A i \in 0..(n - 1) : i \notin Bad
  <2>1. Bad \in SUBSET Nat
    OBVIOUS
  <2> HIDE DEF Bad
  <2> QED  BY <2>1, Least
<1>2. CASE n = 0
  <2> DEFINE f == [i \in {0} |-> <<>>]
  <2>1. f = Body(f, n)
    BY <1>2
  <2> QED  BY <2>1
<1>3. CASE n > 0
  <2>1. n \in 0..Len(s) /\ Len(s) \in Nat
    OBVIOUS
  <2>2. n - 1 \in 0..Len(s) /\ n - 1 \notin Bad
    <3> HIDE DEF Bad
    <3> QED  BY <1>1, <1>3, <2>1
  <2>3. PICK f : f = Body(f, n - 1)
    BY <2>2
  <2> DEFINE g == [i \in 0..n |->
                     IF i < n THEN f[i]
                     ELSE IF s[n] \in T THEN Append(f[n - 1], s[n])
                     ELSE f[n - 1]]
  <2>4. ASSUME NEW i \in 0..n PROVE g[i] = Body(g, n)[i]
    <3>1. CASE i = n
      BY <3>1, <1>3, <2>1
    <3>2. CASE i < n
      <4>1. g[i] = f[i] /\ (i # 0 => g[i - 1] = f[i - 1])
        BY <3>2
      <4>2. f[i] = Body(f, n - 1)[i]
        BY <2>3, <3>2
      <4> QED  BY <4>1, <4>2, <3>2
    <3> QED  BY <3>1, <3>2, <2>1
  <2>5. g = Body(g, n)
    <3>1. g = [i \in 0..n |-> g[i]]
      OBVIOUS
    <3> HIDE DEF g
    <3> QED  BY <2>4, <3>1
  <2> HIDE DEF g
  <2> QED  BY <2>5
<1> QED  BY <1>1, <1>2, <1>3

\* What is selected was there, and is in T.
LEMMA SelectedTyped ==
  ASSUME NEW S, NEW s \in Seq(S), NEW T
  PROVE  /\ Selected(s, T) \in Seq(Range(s) \cap T)
         /\ Selected(s, T) \in Seq(S)
<1> DEFINE F == CHOOSE f : Selecting(f, s, T, Len(s))
           U == Range(s) \cap T
           Bad == {n \in 0..Len(s) : F[n] \notin Seq(U)}
<1>1. Selecting(F, s, T, Len(s))
  <2>1. Len(s) \in 0..Len(s)
    OBVIOUS
  <2>2. \E f : Selecting(f, s, T, Len(s))
    BY <2>1, SelectedExists
  <2> QED  BY <2>2
<1>2. Selected(s, T) = F[Len(s)]
  BY DEF Selected, Selecting
<1>3. \A n \in 1..Len(s) : s[n] \in Range(s)
  BY DEF Range
<1>4. F[0] = <<>> /\ \A n \in 1..Len(s) :
        F[n] = IF s[n] \in T THEN Append(F[n - 1], s[n]) ELSE F[n - 1]
  <2> HIDE DEF F
  <2>1. 0 \in 0..Len(s) /\ \A n \in 1..Len(s) : n \in 0..Len(s) /\ n # 0
    OBVIOUS
  <2>2. \A n \in 0..Len(s) :
          F[n] = IF n = 0 THEN <<>>
                 ELSE IF s[n] \in T THEN Append(F[n - 1], s[n])
                 ELSE F[n - 1]
    BY <1>1 DEF Selecting
  <2> QED  BY <2>1, <2>2
<1> HIDE DEF F
<1>5. Bad = {}
  <2> SUFFICES ASSUME Bad # {} PROVE FALSE
    OBVIOUS
  <2>1. Bad \in SUBSET Nat
    OBVIOUS
  <2>2. PICK n \in Bad : \A i \in 0..(n - 1) : i \notin Bad
    <3> HIDE DEF Bad
    <3> QED  BY <2>1, Least
  <2>3. n \in 0..Len(s) /\ Len(s) \in Nat /\ F[n] \notin Seq(U)
    OBVIOUS
  <2>4. n # 0
    <3> HIDE DEF U
    <3>1. <<>> \in Seq(U)
      OBVIOUS
    <3> QED  BY <1>4, <2>3, <3>1
  <2>5. n - 1 \in 0..(n - 1) /\ n - 1 \in 0..Len(s) /\ n \in 1..Len(s)
    BY <2>3, <2>4
  <2>6. F[n - 1] \in Seq(U)
    BY <2>2, <2>5
  <2>7. F[n] \in Seq(U)
    <3>1. CASE s[n] \in T
      <4>1. s[n] \in U
        BY <3>1, <2>5, <1>3
      <4>2. F[n] = Append(F[n - 1], s[n])
        BY <3>1, <1>4, <2>5
      <4> HIDE DEF U
      <4>3. ASSUME NEW r \in Seq(U), NEW x \in U PROVE Append(r, x) \in Seq(U)
        OBVIOUS
      <4> QED  BY <4>1, <4>2, <4>3, <2>6
    <3>2. CASE s[n] \notin T
      BY <3>2, <1>4, <2>5, <2>6
    <3> QED  BY <3>1, <3>2
  <2> QED  BY <2>3, <2>7
<1>6. Selected(s, T) \in Seq(U)
  <2>1. Len(s) \in 0..Len(s)
    OBVIOUS
  <2> QED  BY <1>2, <1>5, <2>1
<1>7. U \subseteq S
  BY SeqRange
<1> QED  BY <1>6, <1>7, SeqOfMore

LEMMA SelectedOfEmpty ==
  ASSUME NEW T
  PROVE  Selected(<<>>, T) = <<>>
<1>1. Range(<<>>) = {} /\ <<>> \in Seq({})
  BY DEF Range
<1>2. Selected(<<>>, T) \in Seq(Range(<<>>) \cap T)
  BY <1>1, SelectedTyped
<1> QED  BY <1>1, <1>2

\* The recursion of FlattenSeq, up to n.
Flattening(f, ss, n) ==
  f = [i \in 1..n |-> IF i = 1 THEN ss[i] ELSE f[i - 1] \o ss[i]]

LEMMA FlattenExists ==
  ASSUME NEW U, NEW ss \in Seq(Seq(U))
  PROVE  \A n \in 1..Len(ss) : \E f : Flattening(f, ss, n)
<1> DEFINE Bad == {n \in 1..Len(ss) : ~\E f : Flattening(f, ss, n)}
<1> SUFFICES ASSUME Bad # {} PROVE FALSE
  OBVIOUS
<1>1. PICK n \in Bad : \A i \in 0..(n - 1) : i \notin Bad
  <2>1. Bad \in SUBSET Nat
    OBVIOUS
  <2> HIDE DEF Bad
  <2> QED  BY <2>1, Least
<1>2. n \in 1..Len(ss) /\ Len(ss) \in Nat
  OBVIOUS
<1>3. CASE n = 1
  <2> DEFINE f == [i \in 1..1 |-> ss[i]]
  <2>1. Flattening(f, ss, n)
    BY <1>3 DEF Flattening
  <2> QED  BY <2>1
<1>4. CASE n > 1
  <2>1. n - 1 \in 1..Len(ss) /\ n - 1 \notin Bad
    <3> HIDE DEF Bad
    <3> QED  BY <1>1, <1>4, <1>2
  <2>2. PICK f : Flattening(f, ss, n - 1)
    BY <2>1
  <2> DEFINE g == [i \in 1..n |-> IF i < n THEN f[i] ELSE f[n - 1] \o ss[n]]
             Body(h, m) ==
               [i \in 1..m |-> IF i = 1 THEN ss[i] ELSE h[i - 1] \o ss[i]]
  <2>3. ASSUME NEW i \in 1..n PROVE g[i] = Body(g, n)[i]
    <3>1. CASE i = n
      BY <3>1, <1>4, <1>2
    <3>2. CASE i < n
      <4>1. g[i] = f[i] /\ (i # 1 => g[i - 1] = f[i - 1])
        BY <3>2
      <4>2. f[i] = Body(f, n - 1)[i]
        BY <2>2, <3>2 DEF Flattening
      <4> QED  BY <4>1, <4>2, <3>2
    <3> QED  BY <3>1, <3>2, <1>2
  <2>4. g = Body(g, n)
    <3>1. g = [i \in 1..n |-> g[i]]
      OBVIOUS
    <3> HIDE DEF g
    <3> QED  BY <2>3, <3>1
  <2>5. Flattening(g, ss, n)
    <3> HIDE DEF g
    <3> QED  BY <2>4 DEF Flattening
  <2> QED  BY <2>5
<1> QED  BY <1>1, <1>2, <1>3, <1>4

LEMMA FlattenTyped ==
  ASSUME NEW U, NEW ss \in Seq(Seq(U))
  PROVE  FlattenSeq(ss) \in Seq(U)
<1>1. CASE Len(ss) = 0
  <2>1. ss = <<>>
    BY <1>1
  <2> QED  BY <1>1, <2>1 DEF FlattenSeq
<1>2. CASE Len(ss) # 0
  <2> DEFINE F == CHOOSE f : Flattening(f, ss, Len(ss))
             Bad == {n \in 1..Len(ss) : F[n] \notin Seq(U)}
  <2>1. Len(ss) \in 1..Len(ss)
    BY <1>2
  <2>2. Flattening(F, ss, Len(ss))
    <3>1. \E f : Flattening(f, ss, Len(ss))
      BY <2>1, FlattenExists
    <3> QED  BY <3>1
  <2>3. FlattenSeq(ss) = F[Len(ss)]
    BY <1>2 DEF FlattenSeq, Flattening
  <2> HIDE DEF F
  <2>4. \A n \in 1..Len(ss) :
          F[n] = IF n = 1 THEN ss[n] ELSE F[n - 1] \o ss[n]
    BY <2>2 DEF Flattening
  <2>5. \A n \in 1..Len(ss) : ss[n] \in Seq(U)
    OBVIOUS
  <2>6. Bad = {}
    <3> SUFFICES ASSUME Bad # {} PROVE FALSE
      OBVIOUS
    <3>1. Bad \in SUBSET Nat
      OBVIOUS
    <3>2. PICK n \in Bad : \A i \in 0..(n - 1) : i \notin Bad
      <4> HIDE DEF Bad
      <4> QED  BY <3>1, Least
    <3>3. n \in 1..Len(ss) /\ F[n] \notin Seq(U)
      OBVIOUS
    <3>4. n # 1
      BY <2>4, <2>5, <3>3
    <3>5. n - 1 \in 0..(n - 1) /\ n - 1 \in 1..Len(ss)
      BY <3>3, <3>4
    <3>6. F[n - 1] \in Seq(U)
      BY <3>2, <3>5
    <3>7. F[n] = F[n - 1] \o ss[n]
      BY <2>4, <3>3, <3>4
    <3>8. \A q, r \in Seq(U) : q \o r \in Seq(U)
      OBVIOUS
    <3> QED  BY <2>5, <3>3, <3>6, <3>7, <3>8
  <2> QED  BY <2>1, <2>3, <2>6
<1> QED  BY <1>1, <1>2

\* submit_frame compares systems of the two frames with new ones.
LEMMA ComparedTyped ==
  ASSUME NEW new \in Seq(Job), NEW prev \in Seq(Job)
  PROVE  Compared(new, prev) \in
           Seq((Range(new) \cup Range(prev)) \X Range(new))
<1> DEFINE U == (Range(new) \cup Range(prev)) \X Range(new)
           Within(i) == [k \in 1..(Len(new) - i) |-> <<new[i], new[i + k]>>]
           Across(i) == [k \in DOMAIN prev |-> <<prev[k], new[i]>>]
<1>1. ASSUME NEW i \in DOMAIN new
      PROVE  Within(i) \in Seq(U) /\ Across(i) \in Seq(U)
  <2>1. \A k \in 1..Len(new) : new[k] \in Range(new)
    BY DEF Range
  <2>2. \A k \in DOMAIN prev : prev[k] \in Range(prev)
    BY DEF Range
  <2>3. Len(new) \in Nat /\ i \in 1..Len(new) /\ Len(new) - i \in Nat
    OBVIOUS
  <2>4. \A k \in 1..(Len(new) - i) : <<new[i], new[i + k]>> \in U
    BY <2>1, <2>3
  <2>5. \A k \in DOMAIN prev : <<prev[k], new[i]>> \in U
    BY <2>1, <2>2, <2>3
  <2>6. DOMAIN prev = 1..Len(prev) /\ Len(prev) \in Nat
    OBVIOUS
  <2> HIDE DEF U
  <2>7. Within(i) \in [1..(Len(new) - i) -> U]
    BY <2>4
  <2>8. Across(i) \in [1..Len(prev) -> U]
    BY <2>5, <2>6
  <2>9. \A m \in Nat : \A f \in [1..m -> U] : f \in Seq(U)
    OBVIOUS
  <2> HIDE DEF Within, Across
  <2> QED  BY <2>3, <2>6, <2>7, <2>8, <2>9
<1> HIDE DEF U, Within, Across
<1>2. \A q, r \in Seq(U) : q \o r \in Seq(U)
  OBVIOUS
<1>3. [i \in DOMAIN new |-> Within(i) \o Across(i)] \in Seq(Seq(U))
  <2>1. DOMAIN new = 1..Len(new) /\ Len(new) \in Nat
    OBVIOUS
  <2>2. \A i \in DOMAIN new : Within(i) \o Across(i) \in Seq(U)
    BY <1>1, <1>2
  <2> QED  BY <2>1, <2>2
<1>4. FlattenSeq([i \in DOMAIN new |-> Within(i) \o Across(i)]) \in Seq(U)
  BY <1>3, FlattenTyped
<1> QED  BY <1>4 DEF U, Within, Across, Compared

-----------------------------------------------------------------------------
(* Types. *)

LEMMA Assumptions ==
  /\ Worker # {} /\ IsFiniteSet(Worker)
  /\ Cardinality(Worker) \in Nat \ {0}
  /\ Spans \in Nat \ {0}
  /\ MaxFrames \in Nat /\ FrameSize \in Nat \ {0}
  /\ Collision \subseteq Job \X Job
  /\ 0 \notin Job
<1>1. Cardinality(Worker) \in Nat
  BY PoolAssumption, FS_CardinalityType
<1>2. Cardinality(Worker) # 0
  BY PoolAssumption, FS_EmptySet
<1>3. 0 \notin Job
  BY FrameAssumption DEF Job
<1> QED  BY <1>1, <1>2, <1>3, PoolAssumption, SpansAssumption, FrameAssumption

LEMMA OneMore ==
  ASSUME NEW A, NEW f \in [A -> Nat], NEW a \in A
  PROVE  [f EXCEPT ![a] = @ + 1] \in [A -> Nat]
OBVIOUS

LEMMA OneStep ==
  ASSUME NEW A, NEW f \in [A -> Int], NEW a \in A
  PROVE  /\ [f EXCEPT ![a] = @ + 1] \in [A -> Int]
         /\ [f EXCEPT ![a] = @ - 1] \in [A -> Int]
OBVIOUS

LEMMA OneRun ==
  ASSUME NEW f \in [Job -> [0..(Spans - 1) -> Nat]], NEW j \in Job,
         NEW s \in 0..(Spans - 1)
  PROVE  [f EXCEPT ![j][s] = @ + 1] \in [Job -> [0..(Spans - 1) -> Nat]]
<1>1. f[j] \in [0..(Spans - 1) -> Nat]
  OBVIOUS
<1>2. [f[j] EXCEPT ![s] = @ + 1] \in [0..(Spans - 1) -> Nat]
  BY <1>1, OneMore
<1>3. [f EXCEPT ![j] = [f[j] EXCEPT ![s] = @ + 1]]
        \in [Job -> [0..(Spans - 1) -> Nat]]
  BY <1>2
<1> QED  BY <1>3

\* The jobs of one more frame are among those of MaxFrames.
LEMMA JobsLeft ==
  ASSUME NEW f \in Nat, f < MaxFrames, NEW c \in Nat, c <= f * FrameSize,
         NEW k \in 0..FrameSize
  PROVE  c + k <= (f + 1) * FrameSize /\ c + k <= MaxFrames * FrameSize
<1>1. (f + 1) * FrameSize = f * FrameSize + FrameSize
  BY Assumptions
<1>2. MaxFrames * FrameSize = (f + 1) * FrameSize
                              + (MaxFrames - f - 1) * FrameSize
  BY Assumptions
<1>3. f * FrameSize \in Nat /\ (MaxFrames - f - 1) * FrameSize \in Nat
  BY Assumptions
<1>4. FrameSize \in Nat
  BY Assumptions
<1> DEFINE a == f * FrameSize
           b == (f + 1) * FrameSize
           d == (MaxFrames - f - 1) * FrameSize
           m == MaxFrames * FrameSize
<1>5. b = a + FrameSize /\ m = b + d /\ a \in Nat /\ d \in Nat /\ c <= a
  BY <1>1, <1>2, <1>3
<1> HIDE DEF a, b, d, m
<1>6. c + k <= b /\ c + k <= m
  BY <1>4, <1>5
<1> QED  BY <1>6 DEF b, m

LEMMA InitPool == Init => Types /\ Paced /\ InReach
<1> SUFFICES ASSUME Init PROVE Types /\ Paced /\ InReach
  OBVIOUS
<1>1. Types
  <2>1. ran \in [Job -> [0..(Spans - 1) -> Nat]]
    BY DEF Init
  <2>2. frames \in 0..MaxFrames /\ inDegree \in [Job -> Int]
    BY Assumptions DEF Init
  <2>3. dependents \in [Job -> Seq(Job)] /\ toBind \in Seq(Collision)
    BY DEF Init
  <2>4. /\ current \in Seq(Job) /\ previous \in Seq(Job)
        /\ toDispatch \in Seq(Job) /\ activeJobs \in Seq(Job)
    BY DEF Init
  <2>5. /\ nextSpan \in [Job -> Nat] /\ finishers \in [Job -> Nat]
        /\ dispatched \in [Job -> Nat]
    BY DEF Init
  <2> QED  BY <2>1, <2>2, <2>3, <2>4, <2>5 DEF Init, Types
<1>2. InReach
  BY DEF Init, InReach, Pending
<1>3. Paced
  BY Assumptions DEF Init, Paced
<1> QED  BY <1>1, <1>2, <1>3

LEMMA SubmitTypes ==
  ASSUME Types, Paced, NEW asPipelined \in BOOLEAN,
         NEW size \in 0..FrameSize, Submit(asPipelined, size)
  PROVE  /\ Types' /\ Paced'
         /\ current' \in Seq(Job) /\ toDispatch' = current'
         /\ Range(toBind') \subseteq
              (Range(current') \cup Range(previous)) \X Range(current')
<1> DEFINE new == [i \in 1..size |-> created + i]
           compared == Compared(new, previous)
<1>1. frames \in 0..MaxFrames /\ frames < MaxFrames /\ created \in Nat
      /\ created <= frames * FrameSize /\ previous \in Seq(Job)
  BY DEF Types, Paced, Submit
<1>2. created + size <= (frames + 1) * FrameSize
      /\ created + size <= MaxFrames * FrameSize
  BY <1>1, JobsLeft
<1>3. new \in Seq(Job)
  <2>1. \A i \in 1..size : created + i \in Job
    BY <1>1, <1>2, Assumptions DEF Job
  <2>2. new \in [1..size -> Job] /\ size \in Nat
    BY <2>1
  <2> HIDE DEF new
  <2> QED  BY <2>2
<1>4. compared \in Seq((Range(new) \cup Range(previous)) \X Range(new))
  <2> HIDE DEF new
  <2> QED  BY <1>1, <1>3, ComparedTyped
<1>5. PICK colliding \in SUBSET (Collision \cap Range(compared)) :
        toBind' = Selected(compared, colliding)
  BY DEF Submit
<1>6. /\ toBind' \in Seq(Collision)
      /\ Range(toBind') \subseteq
           (Range(new) \cup Range(previous)) \X Range(new)
  <2> HIDE DEF compared, new
  <2>1. toBind' \in Seq(Range(compared) \cap colliding)
    BY <1>4, <1>5, SelectedTyped
  <2>2. Range(compared) \subseteq
          (Range(new) \cup Range(previous)) \X Range(new)
    BY <1>4, SeqRange
  <2> QED  BY <2>1, <2>2, SeqOfMore, SeqRange
<1>7. current' = new /\ toDispatch' = new /\ frames' = frames + 1
      /\ created' = created + size /\ main' = "binding"
      /\ pipelined' = asPipelined
  BY DEF Submit
<1>8. UNCHANGED <<previous, graphVars, counterVars, flagVars, activeJobs,
                  terminate, pc, claimVars, loopVars, historyVars>>
  BY DEF Submit
<1> HIDE DEF new, compared
<1>9. frames' \in 0..MaxFrames /\ created' \in Nat
      /\ created' <= frames' * FrameSize
  BY <1>1, <1>2, <1>7, Assumptions
<1> QED  BY <1>3, <1>6, <1>7, <1>8, <1>9 DEF Types, Paced, graphVars,
           counterVars, flagVars, claimVars, loopVars, historyVars

\* The dependent a thread is about to touch is a job.
LEMMA DependentReal ==
  ASSUME Types, InReach, NEW t \in Worker,
         \/ pc[t] \in {"reset", "push"}
         \/ pc[t] = "resolve" /\ next[t] <= last[t]
  PROVE  /\ task[t] \in Job /\ next[t] \in 1..Len(dependents[task[t]])
         /\ <<task[t], next[t]>> \in Edges
         /\ Dependent(t) \in Job
<1>1. task[t] \in Job
  BY DEF InReach, Pending
<1>2. dependents[task[t]] \in Seq(Job) /\ next[t] \in Nat /\ last[t] \in Nat
  BY <1>1 DEF Types
<1>3. /\ next[t] >= 1
      /\ next[t] <= last[t]
      /\ last[t] <= Len(dependents[task[t]])
  BY DEF InReach
<1>4. next[t] \in 1..Len(dependents[task[t]])
  BY <1>2, <1>3
<1> QED  BY <1>1, <1>2, <1>4 DEF Edges, Dependent

LEMMA ResetTypes ==
  ASSUME Types, NEW j \in Job, ResetCounters(j)
  PROVE  /\ nextSpan' \in [Job -> Nat] /\ finishers' \in [Job -> Nat]
         /\ dispatched' \in [Job -> Nat]
<1>1. /\ nextSpan \in [Job -> Nat] /\ finishers \in [Job -> Nat]
      /\ dispatched \in [Job -> Nat]
  BY DEF Types
<1>2. dispatched' \in [Job -> Nat]
  BY <1>1, OneMore DEF ResetCounters
<1> QED  BY <1>1, <1>2 DEF ResetCounters

LEMMA MainTypes ==
  ASSUME Types, InReach, MainLocal \/ SetTerminate \/ Dispatch
  PROVE  Types'
<1> USE DEF Types, InReach, hostVars, frameVars, graphVars, counterVars,
        flagVars, claimVars, loopVars, historyVars
<1>1. CASE AddDependent
  <2>1. Head(toBind) \in Collision
    BY <1>1 DEF AddDependent
  <2>2. Head(toBind)[1] \in Job /\ Head(toBind)[2] \in Job
    BY <2>1, Assumptions
  <2>3. dependents' \in [Job -> Seq(Job)]
    BY <1>1, <2>2 DEF AddDependent
  <2> QED  BY <1>1, <2>3 DEF AddDependent
<1>2. CASE CountDependency
  <2>1. toBind' \in Seq(Collision)
    BY <1>2 DEF CountDependency
  <2>2. Head(toBind) \in Collision /\ inDegree \in [Job -> Int]
    BY <1>2 DEF CountDependency
  <2>3. Head(toBind)[2] \in Job
    BY <2>2, Assumptions
  <2>4. inDegree' = [inDegree EXCEPT ![Head(toBind)[2]] = @ + 1]
    BY <1>2 DEF CountDependency
  <2>5. inDegree' \in [Job -> Int]
    BY <2>2, <2>3, <2>4, OneStep
  <2> QED  BY <1>2, <2>1, <2>5 DEF CountDependency
<1>3. CASE LookAt
  <2>1. toDispatch # <<>> /\ Head(toDispatch) \in Job
        /\ Tail(toDispatch) \in Seq(Job)
    BY <1>3 DEF LookAt
  <2>2. UNCHANGED <<hostVars, current, previous, toBind, graphVars, flagVars,
                    activeJobs, terminate, pc, claimVars, loopVars, ran>>
    BY <1>3 DEF LookAt
  <2>3. CASE Dispatchable(Head(toDispatch))
    <3>1. ResetCounters(Head(toDispatch)) /\ main' = "pushing"
          /\ UNCHANGED toDispatch
      BY <1>3, <2>3 DEF LookAt
    <3>2. /\ nextSpan' \in [Job -> Nat] /\ finishers' \in [Job -> Nat]
          /\ dispatched' \in [Job -> Nat]
      BY <3>1, <2>1, ResetTypes
    <3> QED  BY <2>2, <3>1, <3>2
  <2>4. CASE ~Dispatchable(Head(toDispatch))
    <3>1. toDispatch' = Tail(toDispatch)
          /\ UNCHANGED <<main, counterVars, dispatched>>
      BY <1>3, <2>4 DEF LookAt
    <3> QED  BY <2>1, <2>2, <3>1
  <2> QED  BY <2>3, <2>4
<1>4. CASE Slide
  BY <1>4 DEF Slide
<1>5. CASE Wait \/ WaitReturns \/ Joined
  BY <1>5 DEF Wait, WaitReturns, Joined
<1>6. CASE NotifyStop
  BY <1>6 DEF NotifyStop, Woken
<1>7. CASE SetTerminate
  <2>1. previous' \in Seq(Job) /\ terminate' = TRUE /\ main' = "notifying"
    BY <1>7 DEF SetTerminate
  <2>2. UNCHANGED <<hostVars, current, toBind, toDispatch, graphVars,
                    counterVars, flagVars, activeJobs, pc, claimVars, loopVars,
                    historyVars>>
    BY <1>7 DEF SetTerminate
  <2> QED  BY <2>1, <2>2
<1>8. CASE Dispatch
  <2>1. Head(toDispatch) \in Job
    BY <1>8 DEF Dispatch
  <2>2. activeJobs' \in Seq(Job) /\ toDispatch' \in Seq(Job)
    BY <1>8, <2>1 DEF Dispatch, Enqueue
  <2>3. pc' \in [Worker -> Pending \cup {"top", "lock", "blocking", "asleep",
                                         "exited"}]
    BY <1>8 DEF Dispatch, Woken
  <2> QED  BY <1>8, <2>2, <2>3 DEF Dispatch
<1> QED  BY <1>1, <1>2, <1>3, <1>4, <1>5, <1>6, <1>7, <1>8 DEF MainLocal

LEMMA WorkerTypes ==
  ASSUME Types, InReach, NEW t \in Worker,
         InMutex(t) \/ WorkerLocal(t) \/ WakeUnnotified(t)
  PROVE  Types'
<1> USE DEF Types, InReach, hostVars, frameVars, graphVars, counterVars,
        flagVars, claimVars, loopVars, historyVars, Goto, Pending
<1>0. /\ nextSpan \in [Job -> Nat] /\ finishers \in [Job -> Nat]
      /\ next \in [Worker -> Nat] /\ last \in [Worker -> Nat]
      /\ inDegree \in [Job -> Int]
  OBVIOUS
<1>1. CASE Leave(t) \/ GoToSleep(t) \/ Sleep(t) \/ WakeUnnotified(t)
  BY <1>1 DEF Leave, GoToSleep, Sleep, WakeUnnotified
<1>2. CASE Scan(t)
  <2> DEFINE found == Selected(activeJobs, {j \in Job : Eligible(j)})
  <2>1. found \in Seq(Job)
    BY SelectedTyped
  <2>2. found # <<>> => Head(found) \in Job
    <3> HIDE DEF found
    <3> QED  BY <2>1
  <2>3. task' \in [Worker -> Job \cup {0}]
    BY <1>2, <2>2 DEF Scan
  <2>4. pc' \in [Worker -> Pending \cup {"top", "lock", "blocking", "asleep",
                                         "exited"}]
    BY <1>2 DEF Scan
  <2> QED  BY <1>2, <2>3, <2>4 DEF Scan
<1>3. CASE Push(t)
  <2>1. dependents[task[t]][next[t]] \in Job
    BY <1>3, DependentReal DEF Push, Dependent
  <2>2. activeJobs' \in Seq(Job)
    BY <1>3, <2>1 DEF Push, Enqueue
  <2>3. pc' \in [Worker -> Pending \cup {"top", "lock", "blocking", "asleep",
                                         "exited"}]
    BY <1>3 DEF Push, Woken
  <2>4. next' \in [Worker -> Nat]
    BY <1>3, <1>0, OneMore DEF Push
  <2>5. UNCHANGED <<main, hostVars, frameVars, graphVars, counterVars, flagVars,
                    terminate, claimVars, last, historyVars>>
    BY <1>3 DEF Push
  <2> QED  BY <2>2, <2>3, <2>4, <2>5
<1>4. CASE Erase(t)
  <2>1. activeJobs' \in Seq(Job)
    BY <1>4, SelectedTyped DEF Erase
  <2> QED  BY <1>4, <2>1 DEF Erase
<1>5. CASE Top(t)
  BY <1>5 DEF Top
<1>6. CASE Steal(t)
  <2>1. nextSpan' \in [Job -> Nat]
    <3>1. task[t] \in Job
      BY <1>6 DEF Steal
    <3>2. nextSpan' = [nextSpan EXCEPT ![task[t]] = @ + 1]
      BY <1>6 DEF Steal, Advanced
    <3> QED  BY <1>0, <3>1, <3>2, OneMore
  <2>2. span' \in [Worker -> Nat]
    BY <1>6 DEF Steal
  <2>3. pc' \in [Worker -> Pending \cup {"top", "lock", "blocking", "asleep",
                                         "exited"}]
    BY <1>6 DEF Steal
  <2>4. UNCHANGED <<main, hostVars, frameVars, graphVars, finishers, flagVars,
                    activeJobs, terminate, task, loopVars, historyVars>>
    BY <1>6 DEF Steal
  <2> QED  BY <2>1, <2>2, <2>3, <2>4
<1>7. CASE RunSpan(t)
  <2>1. task[t] \in Job /\ span[t] \in 0..(Spans - 1)
    BY <1>7, Assumptions DEF RunSpan
  <2>2. ran' = [ran EXCEPT ![task[t]][span[t]] = @ + 1]
    BY <1>7 DEF RunSpan
  <2>3. ran' \in [Job -> [0..(Spans - 1) -> Nat]]
    BY <2>1, <2>2, OneRun
  <2>4. failed' \in [Job -> BOOLEAN]
    BY <1>7 DEF RunSpan
  <2>5. pc' \in [Worker -> Pending \cup {"top", "lock", "blocking", "asleep",
                                         "exited"}]
    BY <1>7 DEF RunSpan
  <2>6. UNCHANGED <<main, hostVars, frameVars, graphVars, counterVars, executed,
                    aborted, activeJobs, terminate, claimVars, loopVars,
                    dispatched>>
    BY <1>7 DEF RunSpan
  <2> QED  BY <2>3, <2>4, <2>5, <2>6
<1>8. CASE Count(t)
  <2>1. finishers' \in [Job -> Nat]
    <3>1. task[t] \in Job
      BY <1>8 DEF Count
    <3>2. finishers' = [finishers EXCEPT ![task[t]] = @ + 1]
      BY <1>8 DEF Count
    <3> QED  BY <1>0, <3>1, <3>2, OneMore
  <2>2. executed' \in [Job -> BOOLEAN]
    BY <1>8 DEF Count
  <2>3. pc' \in [Worker -> Pending \cup {"top", "lock", "blocking", "asleep",
                                         "exited"}]
    BY <1>8 DEF Count
  <2>4. UNCHANGED <<main, hostVars, frameVars, graphVars, nextSpan, failed,
                    aborted, activeJobs, terminate, claimVars, loopVars,
                    historyVars>>
    BY <1>8 DEF Count
  <2> QED  BY <2>1, <2>2, <2>3, <2>4
<1>9. CASE Iterate(t)
  <2>1. next' \in [Worker -> Nat] /\ last' \in [Worker -> Nat]
    <3>1. Len(dependents[task[t]]) \in Nat
      BY <1>9 DEF Iterate
    <3>2. /\ next' = [next EXCEPT ![t] = 1]
          /\ last' = [last EXCEPT ![t] = Len(dependents[task[t]])]
      BY <1>9 DEF Iterate
    <3> QED  BY <1>0, <3>1, <3>2
  <2>2. pc' \in [Worker -> Pending \cup {"top", "lock", "blocking", "asleep",
                                         "exited"}]
    BY <1>9 DEF Iterate
  <2>3. UNCHANGED <<main, hostVars, frameVars, graphVars, counterVars, flagVars,
                    activeJobs, terminate, claimVars, historyVars>>
    BY <1>9 DEF Iterate
  <2> QED  BY <2>1, <2>2, <2>3
<1>10. CASE Resolve(t)
  <2>1. aborted' \in [Job -> BOOLEAN]
    BY <1>10 DEF Resolve, Poisons
  <2>2. inDegree' \in [Job -> Int]
    <3>1. Dependent(t) \in Job
      BY <1>10, DependentReal DEF Resolve
    <3>2. inDegree' = [inDegree EXCEPT ![Dependent(t)] = @ - 1]
      BY <1>10 DEF Resolve, Dependent
    <3> QED  BY <1>0, <3>1, <3>2, OneStep
  <2>3. next' \in [Worker -> Nat]
    <3>1. next' = next \/ next' = [next EXCEPT ![t] = @ + 1]
      BY <1>10 DEF Resolve
    <3>2. [next EXCEPT ![t] = @ + 1] \in [Worker -> Nat]
      BY <1>0, OneMore
    <3> QED  BY <1>0, <3>1, <3>2
  <2>4. pc' \in [Worker -> Pending \cup {"top", "lock", "blocking", "asleep",
                                         "exited"}]
    BY <1>10 DEF Resolve
  <2>5. UNCHANGED <<main, hostVars, frameVars, dependents, counterVars, executed,
                    failed, activeJobs, terminate, claimVars, last,
                    historyVars>>
    BY <1>10 DEF Resolve
  <2> QED  BY <2>1, <2>2, <2>3, <2>4, <2>5
<1>11. CASE Reset(t)
  <2>1. nextSpan' \in [Job -> Nat] /\ finishers' \in [Job -> Nat]
        /\ dispatched' \in [Job -> Nat]
    BY <1>11, DependentReal, ResetTypes DEF Reset, Dependent
  <2>2. pc' \in [Worker -> Pending \cup {"top", "lock", "blocking", "asleep",
                                         "exited"}]
    BY <1>11 DEF Reset
  <2>3. UNCHANGED <<main, hostVars, frameVars, graphVars, flagVars, activeJobs,
                    terminate, claimVars, loopVars, ran>>
    BY <1>11 DEF Reset
  <2> QED  BY <2>1, <2>2, <2>3
<1>12. CASE EndResolve(t)
  BY <1>12 DEF EndResolve
<1> QED  BY <1>1, <1>2, <1>3, <1>4, <1>5, <1>6, <1>7, <1>8, <1>9, <1>10,
           <1>11, <1>12 DEF InMutex, WorkerLocal

LEMMA TypesKept ==
  ASSUME Types, Paced, InReach, [Next]_vars
  PROVE  Types' /\ Paced'
<1>1. CASE UNCHANGED vars
  BY <1>1 DEF Types, Paced, vars, hostVars, frameVars, graphVars, counterVars,
     flagVars, claimVars, loopVars, historyVars
<1>2. CASE \E asPipelined \in BOOLEAN, size \in 0..FrameSize :
             Submit(asPipelined, size)
  BY <1>2, SubmitTypes
<1>3. CASE MainLocal \/ SetTerminate \/ Dispatch
  <2>1. UNCHANGED <<created, frames>>
    BY <1>3 DEF MainLocal, AddDependent, CountDependency, LookAt, Slide, Wait,
       WaitReturns, NotifyStop, Joined, SetTerminate, Dispatch, hostVars
  <2> QED  BY <1>3, <2>1, MainTypes DEF Paced
<1>4. CASE \E t \in Worker : InMutex(t) \/ WorkerLocal(t) \/ WakeUnnotified(t)
  <2>1. UNCHANGED <<created, frames>>
    BY <1>4 DEF InMutex, WorkerLocal, WakeUnnotified, Leave, GoToSleep, Scan,
       Push, Erase, Top, Sleep, Steal, RunSpan, Count, Iterate, Resolve, Reset,
       EndResolve, hostVars
  <2> QED  BY <1>4, <2>1, WorkerTypes DEF Paced
<1> QED  BY <1>1, <1>2, <1>3, <1>4 DEF Next, HostCall

-----------------------------------------------------------------------------
(* Where the threads are. *)

\* A step of a thread moves no other thread, except that a push wakes the
\* sleepers.
LEMMA OthersStay ==
  ASSUME Types, NEW t \in Worker,
         InMutex(t) \/ WorkerLocal(t) \/ WakeUnnotified(t)
  PROVE  \A u \in Worker \ {t} :
           /\ pc'[u] = IF Push(t) /\ pc[u] = "asleep" THEN "lock" ELSE pc[u]
           /\ task'[u] = task[u] /\ span'[u] = span[u]
           /\ next'[u] = next[u] /\ last'[u] = last[u]
<1> USE DEF Types, Goto, claimVars, loopVars
<1> SUFFICES ASSUME NEW u \in Worker \ {t}
             PROVE /\ pc'[u] = IF Push(t) /\ pc[u] = "asleep" THEN "lock"
                               ELSE pc[u]
                   /\ task'[u] = task[u] /\ span'[u] = span[u]
                   /\ next'[u] = next[u] /\ last'[u] = last[u]
  OBVIOUS
<1>1. CASE Push(t)
  BY <1>1 DEF Push, Woken
<1>2. CASE ~Push(t)
  <2>1. CASE Leave(t) \/ GoToSleep(t) \/ Sleep(t) \/ WakeUnnotified(t) \/ Erase(t)
    BY <1>2, <2>1 DEF Leave, GoToSleep, Sleep, WakeUnnotified, Erase
  <2>2. CASE Scan(t) \/ Top(t) \/ Steal(t)
    BY <1>2, <2>2 DEF Scan, Top, Steal
  <2>3. CASE RunSpan(t) \/ Count(t)
    BY <1>2, <2>3 DEF RunSpan, Count
  <2>4. CASE Iterate(t) \/ Resolve(t) \/ Reset(t) \/ EndResolve(t)
    BY <1>2, <2>4 DEF Iterate, Resolve, Reset, EndResolve
  <2> QED  BY <1>2, <2>1, <2>2, <2>3, <2>4 DEF InMutex, WorkerLocal
<1> QED  BY <1>1, <1>2

\* A step of the main thread moves nobody either.
LEMMA MainMovesNobody ==
  ASSUME Types, HostCall \/ MainLocal \/ Dispatch
  PROVE  /\ UNCHANGED <<claimVars, loopVars, ran, flagVars>>
         /\ \A t \in Worker :
              pc'[t] = IF (Dispatch \/ NotifyStop) /\ pc[t] = "asleep"
                       THEN "lock" ELSE pc[t]
<1> USE DEF Types, historyVars
<1>1. CASE Dispatch \/ NotifyStop
  BY <1>1 DEF Dispatch, NotifyStop, Woken
<1>2. CASE ~(Dispatch \/ NotifyStop)
  BY <1>2 DEF HostCall, MainLocal, Submit, SetTerminate, AddDependent,
     CountDependency, LookAt, Slide, Wait, WaitReturns, Joined
<1> QED  BY <1>1, <1>2

LEMMA InReachKept ==
  ASSUME Types, InReach, Types', [Next]_vars
  PROVE  InReach'
<1>1. CASE UNCHANGED vars
  BY <1>1 DEF InReach, Pending, vars, hostVars, frameVars, graphVars,
     counterVars, flagVars, claimVars, loopVars, historyVars
<1>2. CASE HostCall \/ MainLocal \/ Dispatch
  <2>1. ASSUME NEW t \in Worker
        PROVE  /\ pc'[t] = pc[t] \/ pc'[t] = "lock"
               /\ task'[t] = task[t] /\ next'[t] = next[t]
               /\ last'[t] = last[t] /\ span'[t] = span[t]
    BY <1>2, MainMovesNobody DEF claimVars, loopVars
  <2>2. ASSUME NEW j \in Job
        PROVE  Len(dependents[j]) <= Len(dependents'[j])
    <3>1. dependents[j] \in Seq(Job)
      BY DEF Types
    <3>2. CASE AddDependent
      <4>1. Head(toBind) \in Job \X Job
        <5>1. toBind \in Seq(Collision) /\ toBind # <<>>
          BY <3>2 DEF AddDependent, Types
        <5>2. Head(toBind) \in Collision
          BY <5>1
        <5> QED  BY <5>2, Assumptions
      <4>2. dependents'[j] = IF j = Head(toBind)[1]
                             THEN Append(dependents[j], Head(toBind)[2])
                             ELSE dependents[j]
        BY <3>2 DEF AddDependent, Types
      <4>3. \A x \in Job : Len(Append(dependents[j], x)) = Len(dependents[j]) + 1
        BY <3>1
      <4>4. Len(dependents[j]) \in Nat
        BY <3>1
      <4> QED  BY <4>1, <4>2, <4>3, <4>4
    <3>3. CASE ~AddDependent
      <4>1. UNCHANGED dependents
        BY <1>2, <3>3 DEF HostCall, MainLocal, Submit, SetTerminate,
           CountDependency, LookAt, Slide, Wait, WaitReturns, Joined,
           NotifyStop, Dispatch, graphVars
      <4> QED  BY <3>1, <4>1
    <3> QED  BY <3>2, <3>3
  <2>3. /\ main' = "counting" => toBind' # <<>>
        /\ main' = "pushing" => toDispatch' # <<>>
    BY <1>2 DEF InReach, HostCall, MainLocal, Submit, SetTerminate,
       AddDependent, CountDependency, LookAt, Slide, Wait, WaitReturns, Joined,
       NotifyStop, Dispatch, frameVars
  <2>4. ASSUME NEW t \in Worker
        PROVE  /\ pc'[t] \in Pending => task'[t] \in Job
               /\ pc'[t] = "run" => span'[t] < Spans
               /\ pc'[t] \in {"resolve", "reset", "push"} =>
                    next'[t] >= 1 /\ last'[t] <= Len(dependents'[task'[t]])
               /\ pc'[t] \in {"reset", "push"} => next'[t] <= last'[t]
    <3>1. CASE pc'[t] = "lock"
      BY <3>1 DEF Pending
    <3>2. CASE pc'[t] # "lock"
      <4>1. pc'[t] = pc[t]
        BY <2>1, <3>2
      <4>2. pc[t] \in Pending =>
              Len(dependents[task[t]]) <= Len(dependents'[task[t]])
        BY <2>2 DEF InReach
      <4>3. \A j \in Job :
              Len(dependents[j]) \in Nat /\ Len(dependents'[j]) \in Nat
        <5>1. \A j \in Job : dependents[j] \in Seq(Job)
          BY DEF Types
        <5>2. \A j \in Job : dependents'[j] \in Seq(Job)
          BY DEF Types
        <5> QED  BY <5>1, <5>2
      <4>4. last[t] \in Nat /\ (pc[t] \in Pending => task[t] \in Job)
        BY DEF InReach, Types
      <4> QED  BY <2>1, <4>1, <4>2, <4>3, <4>4 DEF InReach, Pending
    <3> QED  BY <3>1, <3>2
  <2> QED  BY <2>3, <2>4 DEF InReach
<1>3. ASSUME NEW t \in Worker,
             InMutex(t) \/ WorkerLocal(t) \/ WakeUnnotified(t)
      PROVE  InReach'
  <2>1. UNCHANGED <<main, toBind, toDispatch, dependents>>
    BY <1>3 DEF InMutex, WorkerLocal, WakeUnnotified, Leave, GoToSleep, Scan,
       Push, Erase, Top, Sleep, Steal, RunSpan, Count, Iterate, Resolve, Reset,
       EndResolve, frameVars, graphVars
  <2>2. ASSUME NEW u \in Worker
        PROVE  /\ pc'[u] \in Pending => task'[u] \in Job
               /\ pc'[u] = "run" => span'[u] < Spans
               /\ pc'[u] \in {"resolve", "reset", "push"} =>
                    next'[u] >= 1 /\ last'[u] <= Len(dependents[task'[u]])
               /\ pc'[u] \in {"reset", "push"} => next'[u] <= last'[u]
    <3>1. CASE u # t
      BY <1>3, <3>1, OthersStay DEF InReach, Pending
    <3>2. CASE u = t
      <4> USE <3>2 DEF Types, Goto, Pending, InReach, claimVars, loopVars
      <4>1. CASE Leave(t) \/ GoToSleep(t) \/ Sleep(t) \/ WakeUnnotified(t)
                 \/ Erase(t) \/ Top(t)
        <5>1. pc'[t] \in {"exited", "blocking", "asleep", "lock", "top"}
          BY <4>1 DEF Leave, GoToSleep, Sleep, WakeUnnotified, Erase, Top
        <5> QED  BY <5>1
      <4>2. CASE Scan(t)
        <5> DEFINE found == Selected(activeJobs, {j \in Job : Eligible(j)})
        <5>1. found \in Seq(Job)
          BY SelectedTyped
        <5>2. pc'[t] \in {"top", "steal"}
          BY <4>2 DEF Scan
        <5>3. pc'[t] = "steal" => task'[t] \in Job
          <6>1. found # <<>> => Head(found) \in Job
            <7> HIDE DEF found
            <7> QED  BY <5>1, HeadOfSeq
          <6>2. pc'[t] = "steal" => found # <<>> /\ task'[t] = Head(found)
            BY <4>2 DEF Scan
          <6> QED  BY <6>1, <6>2
        <5> QED  BY <5>2, <5>3
      <4>3. CASE Steal(t)
        <5>1. pc'[t] = "run" => nextSpan[task[t]] < Spans
          BY <4>3 DEF Steal
        <5>2. pc'[t] \in {"run", "count"} /\ task'[t] = task[t]
              /\ task[t] \in Job /\ span'[t] = nextSpan[task[t]]
          BY <4>3 DEF Steal
        <5> QED  BY <5>1, <5>2
      <4>4. CASE RunSpan(t)
        BY <4>4 DEF RunSpan
      <4>5. CASE Count(t)
        BY <4>5 DEF Count
      <4>6. CASE Iterate(t)
        <5>1. pc'[t] = "resolve" /\ next'[t] = 1 /\ task'[t] = task[t]
              /\ last'[t] = Len(dependents[task[t]]) /\ task[t] \in Job
          BY <4>6 DEF Iterate
        <5> QED  BY <5>1
      <4>7. CASE Resolve(t)
        <5>1. pc'[t] \in {"resolve", "reset"} /\ task'[t] = task[t]
              /\ last'[t] = last[t] /\ task[t] \in Job
              /\ next[t] <= last[t] /\ next[t] >= 1
              /\ last[t] <= Len(dependents[task[t]])
          BY <4>7 DEF Resolve
        <5>2. IF pc'[t] = "reset" THEN next'[t] = next[t]
              ELSE next'[t] = next[t] + 1
          BY <4>7 DEF Resolve
        <5>3. next[t] \in Nat /\ last[t] \in Nat
          OBVIOUS
        <5>4. next'[t] >= 1 /\ (pc'[t] = "reset" => next'[t] <= last'[t])
          <6>1. CASE pc'[t] = "reset"
            BY <6>1, <5>1, <5>2
          <6>2. CASE pc'[t] # "reset"
            <7>1. next'[t] = next[t] + 1
              BY <6>2, <5>2
            <7>2. next[t] + 1 >= 1
              BY <5>3
            <7> QED  BY <6>2, <7>1, <7>2
          <6> QED  BY <6>1, <6>2
        <5> QED  BY <5>1, <5>4
      <4>8. CASE Reset(t)
        BY <4>8 DEF Reset
      <4>9. CASE Push(t)
        <5>1. pc'[t] = "resolve" /\ next'[t] = next[t] + 1
              /\ task'[t] = task[t] /\ last'[t] = last[t] /\ task[t] \in Job
              /\ next[t] >= 1 /\ next[t] \in Nat
              /\ last[t] <= Len(dependents[task[t]])
          BY <4>9 DEF Push
        <5> QED  BY <5>1
      <4>10. CASE EndResolve(t)
        BY <4>10 DEF EndResolve
      <4> QED  BY <1>3, <4>1, <4>2, <4>3, <4>4, <4>5, <4>6, <4>7, <4>8, <4>9,
                  <4>10 DEF InMutex, WorkerLocal
    <3> QED  BY <3>1, <3>2
  <2> QED  BY <2>1, <2>2 DEF InReach
<1> QED  BY <1>1, <1>2, <1>3 DEF Next

-----------------------------------------------------------------------------
(* Sleep. *)

LEMMA SleepersKept ==
  ASSUME Types, SleepersHaveNothingToDo, [Next]_vars
  PROVE  SleepersHaveNothingToDo'
<1> SUFFICES ASSUME NEW u \in Worker, pc'[u] \in {"blocking", "asleep"}
             PROVE  activeJobs' = <<>>
  BY DEF SleepersHaveNothingToDo
<1>1. CASE UNCHANGED vars
  BY <1>1 DEF SleepersHaveNothingToDo, vars
<1>2. CASE HostCall \/ MainLocal \/ Dispatch
  <2>1. pc'[u] = pc[u] /\ ~(Dispatch /\ pc[u] = "asleep")
    BY <1>2, MainMovesNobody
  <2>2. ~Dispatch
    BY <2>1 DEF Dispatch, Enqueue, MutexFree
  <2>3. UNCHANGED activeJobs
    BY <1>2, <2>2 DEF HostCall, MainLocal, Submit, SetTerminate, AddDependent,
       CountDependency, LookAt, Slide, Wait, WaitReturns, NotifyStop, Joined
  <2> QED  BY <2>1, <2>3 DEF SleepersHaveNothingToDo
<1>3. ASSUME NEW t \in Worker,
             InMutex(t) \/ WorkerLocal(t) \/ WakeUnnotified(t)
      PROVE  activeJobs' = <<>>
  <2>1. ~Push(t)
    <3> SUFFICES ASSUME Push(t) PROVE FALSE
      OBVIOUS
    <3>1. u # t
      BY DEF Push, Woken, Types
    <3>2. pc'[u] = IF pc[u] = "asleep" THEN "lock" ELSE pc[u]
      BY <1>3, <3>1, OthersStay
    <3> QED  BY <3>2 DEF Push, Enqueue, MutexFree
  <2>2. activeJobs = <<>>
    <3>1. CASE u # t
      <4>1. pc'[u] = pc[u]
        BY <1>3, <2>1, <3>1, OthersStay
      <4> QED  BY <4>1 DEF SleepersHaveNothingToDo
    <3>2. CASE u = t
      <4>1. GoToSleep(t) \/ Sleep(t)
        <5> USE <3>2 DEF Types, Goto
        <5>1. ~Leave(t) /\ ~WakeUnnotified(t) /\ ~Erase(t) /\ ~Top(t)
          BY DEF Leave, WakeUnnotified, Erase, Top
        <5>2. ~Scan(t) /\ ~Steal(t) /\ ~RunSpan(t)
          BY DEF Scan, Steal, RunSpan
        <5>3. ~Count(t) /\ ~Iterate(t) /\ ~Resolve(t) /\ ~Reset(t)
              /\ ~EndResolve(t)
          BY DEF Count, Iterate, Resolve, Reset, EndResolve
        <5> QED  BY <1>3, <2>1, <5>1, <5>2, <5>3 DEF InMutex, WorkerLocal
      <4> QED  BY <3>2, <4>1 DEF GoToSleep, Sleep, SleepersHaveNothingToDo
    <3> QED  BY <3>1, <3>2
  <2>3. CASE Erase(t)
    BY <2>2, <2>3, SelectedOfEmpty DEF Erase
  <2>4. CASE ~Erase(t)
    <3>1. UNCHANGED activeJobs
      BY <1>3, <2>1, <2>4 DEF InMutex, WorkerLocal, WakeUnnotified, Leave,
         GoToSleep, Scan, Top, Sleep, Steal, RunSpan, Count, Iterate, Resolve,
         Reset, EndResolve
    <3> QED  BY <2>2, <3>1
  <2> QED  BY <2>3, <2>4
<1> QED  BY <1>1, <1>2, <1>3 DEF Next

-----------------------------------------------------------------------------
(* The steps, by what they do to the counters of a job. *)

spanVars == <<nextSpan, finishers, dispatched, ran, executed, failed>>

\* Nothing, and nobody enters or leaves a job.
Quiet ==
  /\ UNCHANGED spanVars
  /\ \A u \in Worker :
       IF pc[u] \in Inside
       THEN pc'[u] = pc[u] /\ task'[u] = task[u] /\ span'[u] = span[u]
       ELSE pc'[u] \notin Inside /\ span'[u] \in {span[u], 0}

\* Job k is handed out.
Resets(k) ==
  /\ ResetCounters(k)
  /\ UNCHANGED <<ran, executed, failed, activeJobs>>
  /\ \A u \in Worker :
       IF pc[u] \in Inside
       THEN pc'[u] = pc[u] /\ task'[u] = task[u] /\ span'[u] = span[u]
       ELSE pc'[u] \notin Inside /\ span'[u] = span[u]

\* Thread t does something with its job; the others stay.
Acts(t) ==
  \A u \in Worker \ {t} :
    pc'[u] = pc[u] /\ task'[u] = task[u] /\ span'[u] = span[u]

Enters(t) ==
  /\ Acts(t) /\ UNCHANGED spanVars
  /\ pc[t] = "lock" /\ pc'[t] = "steal" /\ span'[t] = span[t]
  /\ task'[t] \in Job /\ task'[t] \in Range(activeJobs)
  /\ Eligible(task'[t])

LEMMA StepKinds ==
  ASSUME Types, InReach, [Next]_vars
  PROVE  \/ Quiet
         \/ \E k \in Job : Resets(k)
         \/ \E t \in Worker :
              \/ Enters(t)
              \/ Acts(t) /\ (Steal(t) \/ RunSpan(t) \/ Count(t))
<1> USE DEF hostVars, frameVars, graphVars, counterVars, flagVars, claimVars,
        loopVars, historyVars
<1>1. CASE UNCHANGED vars
  BY <1>1 DEF vars, Quiet, spanVars, Types
<1>2. CASE HostCall \/ MainLocal \/ Dispatch
  <2>1. \A u \in Worker :
          /\ pc'[u] = pc[u] \/ (pc[u] = "asleep" /\ pc'[u] = "lock")
          /\ task'[u] = task[u] /\ span'[u] = span[u]
    BY <1>2, MainMovesNobody
  <2>2. \A u \in Worker :
          IF pc[u] \in Inside
          THEN pc'[u] = pc[u] /\ task'[u] = task[u] /\ span'[u] = span[u]
          ELSE pc'[u] \notin Inside /\ span'[u] = span[u]
    BY <2>1 DEF Inside
  <2>3. UNCHANGED <<ran, executed, failed>>
    BY <1>2, MainMovesNobody
  <2>4. CASE LookAt /\ Dispatchable(Head(toDispatch))
    <3>1. Head(toDispatch) \in Job
      BY <2>4, HeadOfSeq DEF LookAt, Types
    <3>2. ResetCounters(Head(toDispatch)) /\ UNCHANGED activeJobs
      BY <2>4 DEF LookAt
    <3> QED  BY <2>2, <2>3, <3>1, <3>2 DEF Resets
  <2>5. CASE ~(LookAt /\ Dispatchable(Head(toDispatch)))
    <3>1. UNCHANGED <<nextSpan, finishers, dispatched>>
      BY <1>2, <2>5 DEF HostCall, MainLocal, Submit, SetTerminate,
         AddDependent, CountDependency, LookAt, Slide, Wait, WaitReturns,
         NotifyStop, Joined, Dispatch
    <3> QED  BY <2>2, <2>3, <3>1 DEF Quiet, spanVars
  <2> QED  BY <2>4, <2>5
<1>3. ASSUME NEW t \in Worker,
             InMutex(t) \/ WorkerLocal(t) \/ WakeUnnotified(t)
      PROVE  \/ Quiet
             \/ \E k \in Job : Resets(k)
             \/ Enters(t)
             \/ Acts(t) /\ (Steal(t) \/ RunSpan(t) \/ Count(t))
  <2>1. \A u \in Worker \ {t} :
          /\ pc'[u] = pc[u] \/ (pc[u] = "asleep" /\ pc'[u] = "lock")
          /\ task'[u] = task[u] /\ span'[u] = span[u]
    BY <1>3, OthersStay
  <2>2. \A u \in Worker \ {t} :
          IF pc[u] \in Inside
          THEN pc'[u] = pc[u] /\ task'[u] = task[u] /\ span'[u] = span[u]
          ELSE pc'[u] \notin Inside /\ span'[u] = span[u]
    BY <2>1 DEF Inside
  <2>3. ~Push(t) => Acts(t)
    BY <1>3, OthersStay DEF Acts
  <2>4. CASE Steal(t) \/ RunSpan(t) \/ Count(t)
    <3>1. ~Push(t)
      BY <2>4 DEF Steal, RunSpan, Count, Push
    <3> QED  BY <2>3, <2>4, <3>1
  <2>5. CASE Reset(t)
    <3>1. Dependent(t) \in Job
      BY <2>5, DependentReal DEF Reset
    <3>2. ResetCounters(Dependent(t))
      BY <2>5 DEF Reset, Dependent
    <3>3. pc[t] \notin Inside /\ pc'[t] \notin Inside /\ span'[t] = span[t]
          /\ UNCHANGED <<ran, executed, failed, activeJobs>>
      BY <2>5 DEF Reset, Goto, Types, Inside
    <3> QED  BY <2>2, <3>1, <3>2, <3>3 DEF Resets
  <2>6. CASE Scan(t)
    <3> DEFINE found == Selected(activeJobs, {j \in Job : Eligible(j)})
    <3>1. UNCHANGED spanVars /\ UNCHANGED span /\ pc[t] = "lock"
      BY <2>6 DEF Scan, spanVars
    <3>2. CASE found = <<>>
      <4>1. pc'[t] = "top"
        BY <2>6, <3>2 DEF Scan, Goto, Types
      <4> QED  BY <2>2, <3>1, <4>1 DEF Quiet, Inside
    <3>3. CASE found # <<>>
      <4>1. pc'[t] = "steal" /\ task'[t] = Head(found)
        BY <2>6, <3>3 DEF Scan, Goto, Types
      <4>2. found \in Seq(Range(activeJobs) \cap {j \in Job : Eligible(j)})
        BY SelectedTyped DEF Types
      <4>3. Head(found) \in Range(activeJobs) \cap {j \in Job : Eligible(j)}
        <5> HIDE DEF found
        <5> QED  BY <3>3, <4>2, HeadOfSeq
      <4>4. Acts(t)
        BY <2>3, <2>6 DEF Scan, Push
      <4> HIDE DEF found
      <4>5. Enters(t)
        BY <3>1, <4>1, <4>3, <4>4 DEF Enters
      <4> QED  BY <4>5
    <3> QED  BY <3>2, <3>3
  <2>7. CASE ~(Steal(t) \/ RunSpan(t) \/ Count(t) \/ Reset(t) \/ Scan(t))
    <3>1. UNCHANGED spanVars
      BY <1>3, <2>7 DEF spanVars, InMutex, WorkerLocal, WakeUnnotified, Leave,
         GoToSleep, Push, Erase, Top, Sleep, Iterate, Resolve, EndResolve
    <3>2. pc[t] \notin Inside /\ pc'[t] \notin Inside
          /\ span'[t] \in {span[t], 0}
      <4> USE DEF Types, Goto, Inside
      <4>1. CASE Leave(t) \/ GoToSleep(t) \/ Sleep(t) \/ WakeUnnotified(t)
                 \/ Erase(t) \/ Top(t)
        BY <4>1 DEF Leave, GoToSleep, Sleep, WakeUnnotified, Erase, Top
      <4>2. CASE Push(t) \/ Iterate(t) \/ Resolve(t) \/ EndResolve(t)
        BY <4>2 DEF Push, Woken, Iterate, Resolve, EndResolve
      <4> QED  BY <1>3, <2>7, <4>1, <4>2 DEF InMutex, WorkerLocal
    <3> QED  BY <2>2, <3>1, <3>2 DEF Quiet
  <2> QED  BY <2>4, <2>5, <2>6, <2>7
<1> QED  BY <1>1, <1>2, <1>3 DEF Next

-----------------------------------------------------------------------------
(* Threads are counted by the job they are at. *)

LEMMA AtFinite ==
  ASSUME NEW j, NEW P
  PROVE  /\ IsFiniteSet(At(j, P))
         /\ Cardinality(At(j, P)) \in 0..Cardinality(Worker)
<1>1. At(j, P) \subseteq Worker
  BY DEF At
<1>2. IsFiniteSet(At(j, P)) /\ Cardinality(At(j, P)) <= Cardinality(Worker)
  BY <1>1, Assumptions, FS_Subset
<1>3. Cardinality(At(j, P)) \in Nat
  BY <1>2, FS_CardinalityType
<1> QED  BY <1>2, <1>3, Assumptions

LEMMA AtFiniteNext ==
  ASSUME NEW j, NEW P
  PROVE  /\ IsFiniteSet(At(j, P)')
         /\ Cardinality(At(j, P)') \in 0..Cardinality(Worker)
<1>1. At(j, P)' \subseteq Worker
  BY DEF At
<1>2. IsFiniteSet(At(j, P)') /\ Cardinality(At(j, P)') <= Cardinality(Worker)
  BY <1>1, Assumptions, FS_Subset
<1>3. Cardinality(At(j, P)') \in Nat
  BY <1>2, FS_CardinalityType
<1> QED  BY <1>2, <1>3, Assumptions

LEMMA OneIn ==
  ASSUME NEW S \in SUBSET Worker, NEW t \in Worker, t \notin S
  PROVE  Cardinality(S \cup {t}) = Cardinality(S) + 1
<1>1. IsFiniteSet(S)
  BY Assumptions, FS_Subset
<1> QED  BY <1>1, FS_AddElement

LEMMA OneOut ==
  ASSUME NEW S \in SUBSET Worker, NEW t \in S
  PROVE  Cardinality(S \ {t}) = Cardinality(S) - 1
<1>1. IsFiniteSet(S)
  BY Assumptions, FS_Subset
<1> QED  BY <1>1, FS_RemoveElement

\* Who is at a job after a step.
LEMMA AtAfterQuiet ==
  ASSUME NEW j, NEW P \in SUBSET Inside,
         \A u \in Worker :
           IF pc[u] \in Inside
           THEN pc'[u] = pc[u] /\ task'[u] = task[u] /\ span'[u] = span[u]
           ELSE pc'[u] \notin Inside
  PROVE  At(j, P)' = At(j, P)
BY DEF At

LEMMA AtAfterAct ==
  ASSUME NEW j, NEW P, NEW t \in Worker, Acts(t)
  PROVE  /\ pc'[t] \in P /\ task'[t] = j => At(j, P)' = At(j, P) \cup {t}
         /\ ~(pc'[t] \in P /\ task'[t] = j) => At(j, P)' = At(j, P) \ {t}
         /\ ~(pc[t] \in P /\ task[t] = j) => t \notin At(j, P)
BY DEF At, Acts

LEMMA ClaimsBoundedKept ==
  ASSUME Types, InReach, ClaimsBounded, Types', [Next]_vars
  PROVE  ClaimsBounded'
<1> DEFINE W == Cardinality(Worker)
<1>1. W \in Nat /\ W >= 1 /\ Spans \in Nat /\ Spans >= 1
  BY Assumptions
<1>2. \A j \in Job : nextSpan[j] \in Nat /\ nextSpan'[j] \in Nat
  BY DEF Types
<1>3. \A u \in Worker : span[u] \in Nat /\ span'[u] \in Nat
  BY DEF Types
<1>4. ASSUME NEW j \in Job
      PROVE  /\ Cardinality(At(j, {"steal"})) \in 0..W
             /\ Cardinality(At(j, {"steal"})') \in 0..W
  BY AtFinite, AtFiniteNext
<1>5. \A j \in Job : nextSpan[j] + Cardinality(At(j, {"steal"})) <= Spans - 1 + W
  BY DEF ClaimsBounded
<1>6. \A u \in Worker : span[u] <= Spans - 1 + W
  BY DEF ClaimsBounded
<1> HIDE DEF W
<1> SUFFICES /\ \A j \in Job :
                  nextSpan'[j] + Cardinality(At(j, {"steal"})') <= Spans - 1 + W
             /\ \A u \in Worker : span'[u] <= Spans - 1 + W
  BY DEF ClaimsBounded, W
<1>7. CASE Quiet
  <2>1. \A j \in Job : At(j, {"steal"})' = At(j, {"steal"})
    BY <1>7, AtAfterQuiet DEF Quiet, Inside
  <2>2. nextSpan' = nextSpan
    BY <1>7 DEF Quiet, spanVars
  <2>3. \A u \in Worker : span'[u] \in {span[u], 0}
    BY <1>7 DEF Quiet
  <2> QED  BY <1>1, <1>5, <1>6, <2>1, <2>2, <2>3
<1>8. ASSUME NEW k \in Job, Resets(k)
      PROVE  /\ \A j \in Job : nextSpan'[j] + Cardinality(At(j, {"steal"})')
                               <= Spans - 1 + W
             /\ \A u \in Worker : span'[u] <= Spans - 1 + W
  <2>1. \A j \in Job : At(j, {"steal"})' = At(j, {"steal"})
    BY <1>8, AtAfterQuiet DEF Resets, Inside
  <2>2. \A j \in Job : nextSpan'[j] = IF j = k THEN 0 ELSE nextSpan[j]
    BY <1>8 DEF Resets, ResetCounters, Types
  <2>3. \A u \in Worker : span'[u] = span[u]
    BY <1>8 DEF Resets
  <2>4. \A j \in Job : nextSpan'[j] + Cardinality(At(j, {"steal"})')
                       <= Spans - 1 + W
    BY <1>1, <1>4, <1>5, <2>1, <2>2
  <2> QED  BY <1>6, <2>3, <2>4
<1>9. ASSUME NEW t \in Worker, Enters(t)
      PROVE  /\ \A j \in Job : nextSpan'[j] + Cardinality(At(j, {"steal"})')
                               <= Spans - 1 + W
             /\ \A u \in Worker : span'[u] <= Spans - 1 + W
  <2>1. \A u \in Worker : span'[u] = span[u]
    BY <1>9 DEF Enters, Acts
  <2>2. nextSpan' = nextSpan /\ nextSpan[task'[t]] < Spans
    BY <1>9 DEF Enters, spanVars, Eligible
  <2>3. ASSUME NEW j \in Job
        PROVE  nextSpan'[j] + Cardinality(At(j, {"steal"})') <= Spans - 1 + W
    <3>1. CASE j = task'[t]
      BY <1>1, <1>2, <1>4, <2>2, <3>1
    <3>2. CASE j # task'[t]
      <4>1. /\ pc[t] # "steal" /\ Acts(t)
            /\ At(j, {"steal"})' = At(j, {"steal"}) \ {t}
            /\ t \notin At(j, {"steal"})
        <5>1. Acts(t) /\ pc[t] \notin {"steal"}
          BY <1>9 DEF Enters
        <5> QED  BY <5>1, <3>2, AtAfterAct
      <4> QED  BY <1>5, <2>2, <4>1
    <3> QED  BY <3>1, <3>2
  <2> QED  BY <1>6, <2>1, <2>3
<1>10. ASSUME NEW t \in Worker, Acts(t), Steal(t)
       PROVE  /\ \A j \in Job : nextSpan'[j] + Cardinality(At(j, {"steal"})')
                                <= Spans - 1 + W
              /\ \A u \in Worker : span'[u] <= Spans - 1 + W
  <2>1. /\ pc[t] = "steal" /\ task[t] \in Job /\ task'[t] = task[t]
        /\ pc'[t] # "steal" /\ span'[t] = nextSpan[task[t]]
        /\ \A j \in Job : nextSpan'[j] = IF j = task[t] THEN nextSpan[j] + 1
                                         ELSE nextSpan[j]
    BY <1>10 DEF Steal, Advanced, Goto, Types, InReach, Pending
  <2>2. t \in At(task[t], {"steal"}) /\ At(task[t], {"steal"}) \subseteq Worker
    BY <2>1 DEF At
  <2>3. Cardinality(At(task[t], {"steal"}) \ {t})
          = Cardinality(At(task[t], {"steal"})) - 1
    BY <2>2, OneOut
  <2>4. Cardinality(At(task[t], {"steal"})) >= 1
    <3>1. Cardinality(At(task[t], {"steal"}) \ {t}) \in Nat
      <4>1. IsFiniteSet(At(task[t], {"steal"}) \ {t})
        BY AtFinite, FS_Subset
      <4> QED  BY <4>1, FS_CardinalityType
    <3> QED  BY <1>4, <2>1, <2>3, <3>1
  <2>5. ASSUME NEW j \in Job
        PROVE  nextSpan'[j] + Cardinality(At(j, {"steal"})') <= Spans - 1 + W
    <3>1. At(j, {"steal"})' = At(j, {"steal"}) \ {t}
      <4>1. pc'[t] \notin {"steal"}
        BY <2>1
      <4> QED  BY <1>10, <4>1, AtAfterAct
    <3>2. CASE j = task[t]
      <4>1. Cardinality(At(j, {"steal"})') = Cardinality(At(j, {"steal"})) - 1
        BY <2>3, <3>1, <3>2
      <4>2. nextSpan'[j] = nextSpan[j] + 1
        BY <2>1, <3>2
      <4> QED  BY <1>1, <1>2, <1>4, <1>5, <4>1, <4>2
    <3>3. CASE j # task[t]
      <4>1. At(j, {"steal"})' = At(j, {"steal"})
        BY <3>1, <3>3 DEF At
      <4> QED  BY <1>5, <2>1, <3>3, <4>1
    <3> QED  BY <3>2, <3>3
  <2>6. nextSpan[task[t]] <= Spans - 1 + W
    BY <1>1, <1>2, <1>4, <1>5, <2>1, <2>4
  <2>7. \A u \in Worker \ {t} : span'[u] = span[u]
    BY <1>10 DEF Acts
  <2> QED  BY <1>6, <2>1, <2>5, <2>6, <2>7
<1>11. ASSUME NEW t \in Worker, Acts(t), RunSpan(t) \/ Count(t)
       PROVE  /\ \A j \in Job : nextSpan'[j] + Cardinality(At(j, {"steal"})')
                                <= Spans - 1 + W
              /\ \A u \in Worker : span'[u] <= Spans - 1 + W
  <2>1. /\ pc[t] # "steal" /\ pc'[t] # "steal" /\ UNCHANGED <<nextSpan, span>>
    BY <1>11 DEF RunSpan, Count, Goto, Types, counterVars, claimVars
  <2>2. ASSUME NEW j \in Job PROVE At(j, {"steal"})' = At(j, {"steal"})
    <3>1. pc[t] \notin {"steal"} /\ pc'[t] \notin {"steal"}
      BY <2>1
    <3>2. Acts(t)
      BY <1>11
    <3>3. At(j, {"steal"})' = At(j, {"steal"}) \ {t}
      BY <3>1, <3>2, AtAfterAct
    <3>4. t \notin At(j, {"steal"})
      BY <3>1 DEF At
    <3> QED  BY <3>3, <3>4
  <2> QED  BY <1>5, <1>6, <2>1, <2>2
<1> QED  BY <1>7, <1>8, <1>9, <1>10, <1>11, StepKinds

-----------------------------------------------------------------------------
(* A job that was never handed out. *)

LEMMA AppendRange ==
  ASSUME NEW S, NEW s \in Seq(S), NEW x \in S
  PROVE  Range(Append(s, x)) = Range(s) \cup {x}
<1>1. Len(s) \in Nat /\ DOMAIN s = 1..Len(s)
  OBVIOUS
<1>2. DOMAIN Append(s, x) = 1..(Len(s) + 1)
  OBVIOUS
<1>3. \A i \in 1..(Len(s) + 1) :
        Append(s, x)[i] = IF i = Len(s) + 1 THEN x ELSE s[i]
  OBVIOUS
<1>4. Range(s) \cup {x} \subseteq Range(Append(s, x))
  <2>1. \A i \in 1..Len(s) :
          i \in 1..(Len(s) + 1) /\ Append(s, x)[i] = s[i]
    BY <1>1, <1>3
  <2>2. Len(s) + 1 \in 1..(Len(s) + 1) /\ Append(s, x)[Len(s) + 1] = x
    BY <1>1, <1>3
  <2> QED  BY <1>1, <1>2, <2>1, <2>2 DEF Range
<1>5. Range(Append(s, x)) \subseteq Range(s) \cup {x}
  <2>1. ASSUME NEW i \in 1..(Len(s) + 1)
        PROVE  Append(s, x)[i] \in Range(s) \cup {x}
    <3>1. CASE i = Len(s) + 1
      BY <1>3, <3>1
    <3>2. CASE i # Len(s) + 1
      <4>1. i \in 1..Len(s) /\ Append(s, x)[i] = s[i]
        BY <1>1, <1>3, <3>2
      <4> QED  BY <1>1, <4>1 DEF Range
    <3> QED  BY <3>1, <3>2
  <2> QED  BY <1>2, <2>1 DEF Range
<1> QED  BY <1>4, <1>5

\* Whoever works on a job did so before, or found it among the active ones.
LEMMA PendingOrigin ==
  ASSUME Types, InReach, [Next]_vars, NEW u \in Worker, pc'[u] \in Pending
  PROVE  \/ pc[u] \in Pending /\ task'[u] = task[u]
         \/ task'[u] \in Range(activeJobs)
<1>1. CASE UNCHANGED vars
  BY <1>1 DEF vars, claimVars
<1>2. CASE HostCall \/ MainLocal \/ Dispatch
  <2>1. /\ pc'[u] = pc[u] \/ pc'[u] = "lock"
        /\ task'[u] = task[u]
    BY <1>2, MainMovesNobody DEF claimVars
  <2> QED  BY <2>1 DEF Pending
<1>3. ASSUME NEW t \in Worker,
             InMutex(t) \/ WorkerLocal(t) \/ WakeUnnotified(t)
      PROVE  \/ pc[u] \in Pending /\ task'[u] = task[u]
             \/ task'[u] \in Range(activeJobs)
  <2>1. CASE u # t
    <3>1. /\ pc'[u] = pc[u] \/ pc'[u] = "lock"
          /\ task'[u] = task[u]
      BY <1>3, <2>1, OthersStay
    <3> QED  BY <3>1 DEF Pending
  <2>2. CASE u = t
    <3>1. CASE Scan(t)
      <4> DEFINE found == Selected(activeJobs, {j \in Job : Eligible(j)})
      <4>1. found # <<>>
        BY <2>2, <3>1 DEF Scan, Goto, Types, Pending
      <4>2. task'[t] = Head(found)
        BY <3>1, <4>1 DEF Scan, Types
      <4>3. found \in Seq(Range(activeJobs) \cap {j \in Job : Eligible(j)})
        BY SelectedTyped DEF Types
      <4> HIDE DEF found
      <4>4. Head(found) \in Range(activeJobs)
        BY <4>1, <4>3, HeadOfSeq
      <4> QED  BY <2>2, <4>2, <4>4
    <3>2. CASE Leave(t) \/ GoToSleep(t) \/ Sleep(t) \/ WakeUnnotified(t)
               \/ Erase(t) \/ Top(t)
      BY <2>2, <3>2 DEF Leave, GoToSleep, Sleep, WakeUnnotified, Erase, Top,
         Goto, Types, Pending
    <3>3. CASE Steal(t) \/ RunSpan(t) \/ Count(t) \/ Iterate(t) \/ Resolve(t)
               \/ Reset(t) \/ Push(t) \/ EndResolve(t)
      <4>1. UNCHANGED task
        BY <3>3 DEF Steal, RunSpan, Count, Iterate, Resolve, Reset, Push,
           EndResolve, claimVars
      <4>2. pc[t] \in Pending
        BY <3>3 DEF Steal, RunSpan, Count, Iterate, Resolve, Reset, Push,
           EndResolve, Pending
      <4> QED  BY <2>2, <4>1, <4>2
    <3> QED  BY <1>3, <3>1, <3>2, <3>3 DEF InMutex, WorkerLocal
  <2> QED  BY <2>1, <2>2
<1> QED  BY <1>1, <1>2, <1>3 DEF Next

\* An active job was active before, or has been handed out.
LEMMA ActiveOrigin ==
  ASSUME Types, InReach, Untouched, [Next]_vars,
         NEW j \in Range(activeJobs')
  PROVE  j \in Range(activeJobs) \/ dispatched[j] # 0
<1>0. activeJobs \in Seq(Job)
  BY DEF Types
<1>1. CASE UNCHANGED activeJobs
  BY <1>1
<1>2. CASE Dispatch
  <2>1. activeJobs' = Append(activeJobs, Head(toDispatch)) /\ main = "pushing"
    BY <1>2 DEF Dispatch, Enqueue
  <2>2. Head(toDispatch) \in Job /\ dispatched[Head(toDispatch)] # 0
    BY <2>1, HeadOfSeq DEF Types, InReach, Untouched
  <2> QED  BY <1>0, <2>1, <2>2, AppendRange
<1>3. ASSUME NEW t \in Worker, Push(t)
      PROVE  j \in Range(activeJobs) \/ dispatched[j] # 0
  <2>1. activeJobs' = Append(activeJobs, Dependent(t)) /\ pc[t] = "push"
    BY <1>3 DEF Push, Enqueue, Dependent
  <2>2. Dependent(t) \in Job /\ dispatched[Dependent(t)] # 0
    BY <2>1, DependentReal DEF Untouched
  <2> QED  BY <1>0, <2>1, <2>2, AppendRange
<1>4. ASSUME NEW t \in Worker, Erase(t)
      PROVE  j \in Range(activeJobs) \/ dispatched[j] # 0
  <2>1. activeJobs' \in Seq(Range(activeJobs) \cap (Job \ {task[t]}))
    BY <1>0, <1>4, SelectedTyped DEF Erase
  <2> QED  BY <2>1, SeqRange
<1>5. CASE UNCHANGED vars
  BY <1>5, <1>1 DEF vars
<1> QED
  BY <1>1, <1>2, <1>3, <1>4, <1>5 DEF Next, HostCall, MainLocal, InMutex,
     WorkerLocal, WakeUnnotified, Submit, SetTerminate, AddDependent,
     CountDependency, LookAt, Slide, Wait, WaitReturns, NotifyStop, Joined,
     Leave, GoToSleep, Scan, Top, Sleep, Steal, RunSpan, Count, Iterate,
     Resolve, Reset, EndResolve

\* What was handed out stays so; and a step of a job's thread leaves the
\* counters of the other jobs alone.
LEMMA OthersUntouched ==
  ASSUME Types, InReach, [Next]_vars, NEW j \in Job
  PROVE  /\ dispatched'[j] >= dispatched[j]
         /\ \/ dispatched'[j] # 0
            \/ \E t \in Worker : pc[t] \in Pending /\ task[t] = j
            \/ /\ nextSpan'[j] = nextSpan[j] /\ finishers'[j] = finishers[j]
               /\ executed'[j] = executed[j] /\ failed'[j] = failed[j]
               /\ ran'[j] = ran[j]
<1> DEFINE Same == /\ nextSpan'[j] = nextSpan[j]
                   /\ finishers'[j] = finishers[j]
                   /\ executed'[j] = executed[j] /\ failed'[j] = failed[j]
                   /\ ran'[j] = ran[j]
<1>0. dispatched[j] \in Nat
  BY DEF Types
<1>1. CASE UNCHANGED spanVars
  BY <1>0, <1>1 DEF spanVars
<1>2. ASSUME NEW k \in Job, Resets(k)
      PROVE  dispatched'[j] >= dispatched[j] /\ (dispatched'[j] # 0 \/ Same)
  <2>1. dispatched'[j] = IF j = k THEN dispatched[j] + 1 ELSE dispatched[j]
    BY <1>2 DEF Resets, ResetCounters, Types
  <2>2. j # k => Same
    BY <1>2 DEF Resets, ResetCounters, Types
  <2> QED  BY <1>0, <2>1, <2>2
<1>3. ASSUME NEW t \in Worker, Steal(t) \/ RunSpan(t) \/ Count(t)
      PROVE  /\ dispatched'[j] >= dispatched[j]
             /\ (pc[t] \in Pending /\ task[t] = j) \/ Same
  <2>1. dispatched' = dispatched /\ pc[t] \in Pending
    BY <1>3 DEF Steal, RunSpan, Count, historyVars, Pending
  <2>2. task[t] # j => Same
    <3>1. CASE Steal(t)
      BY <3>1 DEF Steal, Types, historyVars, flagVars
    <3>2. CASE RunSpan(t)
      BY <3>2 DEF RunSpan, Types, counterVars
    <3>3. CASE Count(t)
      BY <3>3 DEF Count, Types, historyVars
    <3> QED  BY <1>3, <3>1, <3>2, <3>3
  <2> QED  BY <1>0, <2>1, <2>2
<1> QED  BY <1>1, <1>2, <1>3, StepKinds DEF Quiet, Enters

\* A dependent in the list stays where it is.
LEMMA DependentsGrow ==
  ASSUME Types, [Next]_vars, NEW j \in Job
  PROVE  \A i \in 1..Len(dependents[j]) :
           dependents'[j][i] = dependents[j][i]
<1>1. dependents[j] \in Seq(Job)
  BY DEF Types
<1>2. CASE AddDependent
  <2>1. Head(toBind) \in Collision
    BY <1>2, HeadOfSeq DEF AddDependent, Types
  <2>2. Head(toBind)[1] \in Job /\ Head(toBind)[2] \in Job
    BY <2>1, Assumptions
  <2>3. dependents'[j] = IF j = Head(toBind)[1]
                         THEN Append(dependents[j], Head(toBind)[2])
                         ELSE dependents[j]
    BY <1>2, <2>2 DEF AddDependent, Types
  <2>4. \A x \in Job : \A i \in 1..Len(dependents[j]) :
          Append(dependents[j], x)[i] = dependents[j][i]
    BY <1>1
  <2> QED  BY <2>2, <2>3, <2>4
<1>3. CASE UNCHANGED dependents
  BY <1>3
<1>4. CASE UNCHANGED vars
  BY <1>3, <1>4 DEF vars, graphVars
<1> QED
  BY <1>2, <1>3, <1>4 DEF Next, HostCall, MainLocal, InMutex, WorkerLocal,
     WakeUnnotified, Submit, SetTerminate, CountDependency, LookAt, Slide,
     Wait, WaitReturns, NotifyStop, Joined, Dispatch, Leave, GoToSleep, Scan,
     Push, Erase, Top, Sleep, Steal, RunSpan, Count, Iterate, Resolve, Reset,
     EndResolve, graphVars

LEMMA UntouchedKept ==
  ASSUME Types, InReach, Untouched, Types', InReach', [Next]_vars
  PROVE  Untouched'
<1>1. main' = "pushing" => dispatched'[Head(toDispatch')] # 0
  <2> SUFFICES ASSUME main' = "pushing"
               PROVE  dispatched'[Head(toDispatch')] # 0
    OBVIOUS
  <2>1. CASE LookAt /\ Dispatchable(Head(toDispatch))
    <3>1. ResetCounters(Head(toDispatch)) /\ UNCHANGED toDispatch
      BY <2>1 DEF LookAt
    <3>2. Head(toDispatch) \in Job
      BY <2>1, HeadOfSeq DEF LookAt, Types
    <3>3. dispatched[Head(toDispatch)] \in Nat
      BY <3>2 DEF Types
    <3>4. dispatched'[Head(toDispatch)] = dispatched[Head(toDispatch)] + 1
      BY <3>1, <3>2 DEF ResetCounters, Types
    <3> QED  BY <3>1, <3>3, <3>4
  <2>2. CASE main = "pushing" /\ UNCHANGED toDispatch
    <3>1. Head(toDispatch) \in Job
      BY <2>2, HeadOfSeq DEF InReach, Types
    <3>2. dispatched[Head(toDispatch)] \in Nat
          /\ dispatched'[Head(toDispatch)] \in Nat
      BY <3>1 DEF Types
    <3>3. dispatched[Head(toDispatch)] # 0
      BY <2>2 DEF Untouched
    <3> QED  BY <2>2, <3>1, <3>2, <3>3, OthersUntouched
  <2>3. CASE HostCall \/ MainLocal \/ Dispatch
    BY <2>1, <2>3 DEF HostCall, MainLocal, Submit, SetTerminate,
       AddDependent, CountDependency, LookAt, Slide, Wait, WaitReturns,
       NotifyStop, Joined, Dispatch
  <2>4. CASE \E t \in Worker :
               InMutex(t) \/ WorkerLocal(t) \/ WakeUnnotified(t)
    BY <2>2, <2>4 DEF InMutex, WorkerLocal, WakeUnnotified, Leave, GoToSleep,
       Scan, Push, Erase, Top, Sleep, Steal, RunSpan, Count, Iterate, Resolve,
       Reset, EndResolve, frameVars
  <2>5. CASE UNCHANGED vars
    BY <2>2, <2>5 DEF vars, frameVars
  <2> QED  BY <2>3, <2>4, <2>5 DEF Next
<1>2. ASSUME NEW u \in Worker, pc'[u] = "push"
      PROVE  dispatched'[Dependent(u)'] # 0
  <2>1. CASE /\ pc[u] = "push" /\ task'[u] = task[u] /\ next'[u] = next[u]
    <3>1. task[u] \in Job /\ Dependent(u) \in Job
          /\ next[u] \in 1..Len(dependents[task[u]])
      BY <2>1, DependentReal
    <3>2. dependents'[task[u]][next[u]] = dependents[task[u]][next[u]]
      BY <3>1, DependentsGrow
    <3>3. Dependent(u)' = Dependent(u)
      BY <2>1, <3>2 DEF Dependent
    <3>4. dispatched[Dependent(u)] \in Nat /\ dispatched'[Dependent(u)] \in Nat
      BY <3>1 DEF Types
    <3>5. dispatched[Dependent(u)] # 0
      BY <2>1 DEF Untouched
    <3>6. dispatched'[Dependent(u)] >= dispatched[Dependent(u)]
      BY <3>1, OthersUntouched
    <3> QED  BY <3>3, <3>4, <3>5, <3>6
  <2>2. CASE Reset(u)
    <3>1. Dependent(u) \in Job
      BY <2>2, DependentReal DEF Reset
    <3>2. ResetCounters(Dependent(u)) /\ Dependent(u)' = Dependent(u)
      BY <2>2 DEF Reset, Dependent, graphVars, claimVars, loopVars
    <3>3. dispatched[Dependent(u)] \in Nat
      BY <3>1 DEF Types
    <3>4. dispatched'[Dependent(u)] = dispatched[Dependent(u)] + 1
      BY <3>1, <3>2 DEF ResetCounters, Types
    <3> QED  BY <3>2, <3>3, <3>4
  <2>3. CASE HostCall \/ MainLocal \/ Dispatch
    <3>1. /\ pc'[u] = pc[u] \/ pc'[u] = "lock"
          /\ task'[u] = task[u] /\ next'[u] = next[u]
      BY <2>3, MainMovesNobody DEF claimVars, loopVars
    <3> QED  BY <1>2, <2>1, <3>1
  <2>4. ASSUME NEW t \in Worker,
               InMutex(t) \/ WorkerLocal(t) \/ WakeUnnotified(t)
        PROVE  dispatched'[Dependent(u)'] # 0
    <3>1. CASE u # t
      <4>1. /\ pc'[u] = pc[u] \/ pc'[u] = "lock"
            /\ task'[u] = task[u] /\ next'[u] = next[u]
        BY <2>4, <3>1, OthersStay
      <4> QED  BY <1>2, <2>1, <4>1
    <3>2. CASE u = t /\ ~Reset(u)
      <4> USE DEF Types, Goto
      <4>1. CASE Leave(t) \/ GoToSleep(t) \/ Sleep(t) \/ WakeUnnotified(t)
                 \/ Erase(t) \/ Top(t) \/ Scan(t) \/ Steal(t)
        BY <1>2, <3>2, <4>1 DEF Leave, GoToSleep, Sleep, WakeUnnotified, Erase,
           Top, Scan, Steal
      <4>2. CASE RunSpan(t) \/ Count(t) \/ Iterate(t) \/ Resolve(t)
                 \/ Push(t) \/ EndResolve(t)
        BY <1>2, <3>2, <4>2 DEF RunSpan, Count, Iterate, Resolve, Push, Woken,
           EndResolve
      <4> QED  BY <2>4, <3>2, <4>1, <4>2 DEF InMutex, WorkerLocal
    <3> QED  BY <2>2, <3>1, <3>2
  <2>5. CASE UNCHANGED vars
    BY <1>2, <2>1, <2>5 DEF vars, claimVars, loopVars
  <2> QED  BY <2>3, <2>4, <2>5 DEF Next
<1>3. ASSUME NEW j \in Job, dispatched'[j] = 0
      PROVE  /\ nextSpan'[j] = 0 /\ finishers'[j] = 0
             /\ ~executed'[j] /\ ~failed'[j]
             /\ j \notin Range(activeJobs')
             /\ \A s \in 0..(Spans - 1) : ran'[j][s] = 0
             /\ At(j, Pending)' = {}
  <2>1. dispatched[j] = 0
    <3>1. dispatched[j] \in Nat
      BY DEF Types
    <3> QED  BY <1>3, <3>1, OthersUntouched
  <2>2. /\ nextSpan[j] = 0 /\ finishers[j] = 0
        /\ ~executed[j] /\ ~failed[j]
        /\ j \notin Range(activeJobs)
        /\ \A s \in 0..(Spans - 1) : ran[j][s] = 0
    BY <2>1 DEF Untouched
  <2>3. ~\E t \in Worker : pc[t] \in Pending /\ task[t] = j
    BY <2>1 DEF Untouched, At
  <2>4. /\ nextSpan'[j] = nextSpan[j] /\ finishers'[j] = finishers[j]
        /\ executed'[j] = executed[j] /\ failed'[j] = failed[j]
        /\ ran'[j] = ran[j]
    BY <1>3, <2>3, OthersUntouched
  <2>5. j \notin Range(activeJobs')
    BY <2>1, <2>2, ActiveOrigin
  <2>6. At(j, Pending)' = {}
    <3> SUFFICES ASSUME NEW u \in Worker, pc'[u] \in Pending, task'[u] = j
                 PROVE  FALSE
      BY DEF At
    <3> QED  BY <2>2, <2>3, PendingOrigin
  <2> QED  BY <2>2, <2>4, <2>5, <2>6
<1> QED  BY <1>1, <1>2, <1>3 DEF Untouched

-----------------------------------------------------------------------------
(* The spans of a job that is handed out once. *)

LEMMA ClaimsCarryOver ==
  ASSUME NEW j \in Job, ClaimsOf(j),
         At(j, {"run"})' = At(j, {"run"}),
         \A t \in At(j, {"run"}) : span'[t] = span[t],
         nextSpan'[j] = nextSpan[j], ran'[j] = ran[j]
  PROVE  ClaimsOf(j)'
BY DEF ClaimsOf

\* Nobody is at a job before it is handed out for the first time.
LEMMA FirstHandOut ==
  ASSUME Types, Untouched, NEW j \in Job, Resets(j), dispatched'[j] <= 1
  PROVE  /\ nextSpan'[j] = 0 /\ finishers'[j] = 0 /\ ~executed'[j]
         /\ \A s \in 0..(Spans - 1) : ran'[j][s] = 0
         /\ \A P \in SUBSET Inside : At(j, P)' = {}
<1>1. dispatched[j] = 0
  <2>1. dispatched[j] \in Nat /\ dispatched'[j] = dispatched[j] + 1
    BY DEF Types, Resets, ResetCounters
  <2> QED  BY <2>1
<1>2. /\ ~executed[j] /\ \A s \in 0..(Spans - 1) : ran[j][s] = 0
      /\ At(j, Pending) = {}
  BY <1>1 DEF Untouched
<1>3. nextSpan'[j] = 0 /\ finishers'[j] = 0
  BY DEF Types, Resets, ResetCounters
<1>4. executed' = executed /\ ran' = ran
  BY DEF Resets
<1>5. ASSUME NEW P \in SUBSET Inside PROVE At(j, P)' = {}
  <2>1. \A u \in Worker : ~(pc[u] \in Pending /\ task[u] = j)
    BY <1>2 DEF At
  <2>2. \A u \in Worker : ~(pc'[u] \in Inside /\ task'[u] = j)
    BY <2>1 DEF Resets, Inside, Pending
  <2> QED  BY <2>2 DEF At
<1> QED  BY <1>2, <1>3, <1>4, <1>5

LEMMA StealEffect ==
  ASSUME Types, InReach, NEW t \in Worker, Steal(t)
  PROVE  /\ pc[t] = "steal" /\ task[t] \in Job /\ task'[t] = task[t]
         /\ span'[t] = nextSpan[task[t]]
         /\ pc'[t] = IF nextSpan[task[t]] < Spans THEN "run" ELSE "count"
         /\ \A j \in Job : nextSpan'[j] = IF j = task[t] THEN nextSpan[j] + 1
                                          ELSE nextSpan[j]
         /\ UNCHANGED <<finishers, ran, executed, dispatched>>
BY DEF Steal, Advanced, Goto, Types, InReach, Pending, historyVars, flagVars

LEMMA RunEffect ==
  ASSUME Types, InReach, NEW t \in Worker, RunSpan(t)
  PROVE  /\ pc[t] = "run" /\ task[t] \in Job /\ task'[t] = task[t]
         /\ span[t] \in 0..(Spans - 1) /\ span'[t] = span[t]
         /\ pc'[t] = IF span[t] + 1 >= Spans THEN "count" ELSE "top"
         /\ \A j \in Job : \A s \in 0..(Spans - 1) :
              ran'[j][s] = IF j = task[t] /\ s = span[t] THEN ran[j][s] + 1
                           ELSE ran[j][s]
         /\ \A j \in Job \ {task[t]} : ran'[j] = ran[j]
         /\ UNCHANGED <<nextSpan, finishers, executed, dispatched>>
<1>1. pc[t] = "run" /\ task[t] \in Job /\ task'[t] = task[t]
      /\ span[t] \in 0..(Spans - 1) /\ span'[t] = span[t]
  BY Assumptions DEF RunSpan, InReach, Types, Pending, claimVars
<1>2. pc'[t] = IF span[t] + 1 >= Spans THEN "count" ELSE "top"
  BY DEF RunSpan, Goto, Types
<1>3. UNCHANGED <<nextSpan, finishers, executed, dispatched>>
  BY DEF RunSpan, counterVars
<1>4. ran \in [Job -> [0..(Spans - 1) -> Nat]]
  BY DEF Types
<1>5. ran' = [ran EXCEPT ![task[t]] = [ran[task[t]] EXCEPT ![span[t]] = @ + 1]]
  BY DEF RunSpan
<1>6. ASSUME NEW j \in Job, NEW s \in 0..(Spans - 1)
      PROVE  ran'[j][s] = IF j = task[t] /\ s = span[t] THEN ran[j][s] + 1
                          ELSE ran[j][s]
  <2>1. ran'[j] = IF j = task[t] THEN [ran[j] EXCEPT ![span[t]] = @ + 1]
                  ELSE ran[j]
    BY <1>1, <1>4, <1>5
  <2>2. ran[j] \in [0..(Spans - 1) -> Nat]
    BY <1>4
  <2> QED  BY <2>1, <2>2
<1>7. \A j \in Job \ {task[t]} : ran'[j] = ran[j]
  BY <1>1, <1>4, <1>5
<1> QED  BY <1>1, <1>2, <1>3, <1>6, <1>7

LEMMA CountEffect ==
  ASSUME Types, InReach, NEW t \in Worker, Count(t)
  PROVE  /\ pc[t] = "count" /\ task[t] \in Job /\ task'[t] = task[t]
         /\ pc'[t] \in {"iterate", "top"} /\ span'[t] = span[t]
         /\ \A j \in Job : finishers'[j] = IF j = task[t] THEN finishers[j] + 1
                                           ELSE finishers[j]
         /\ \A j \in Job : executed'[j] =>
              \/ executed[j]
              \/ j = task[t] /\ finishers[j] = Cardinality(Worker) - 1
         /\ UNCHANGED <<nextSpan, ran, dispatched>>
<1>1. pc[t] = "count" /\ task[t] \in Job /\ task'[t] = task[t]
      /\ span'[t] = span[t] /\ UNCHANGED <<nextSpan, ran, dispatched>>
  BY DEF Count, InReach, Pending, claimVars, historyVars
<1>2. \A j \in Job : finishers'[j] = IF j = task[t] THEN finishers[j] + 1
                                     ELSE finishers[j]
  BY <1>1 DEF Count, Types
<1>3. \A j \in Job : executed'[j] =>
        \/ executed[j]
        \/ j = task[t] /\ finishers[j] = Cardinality(Worker) - 1
  BY <1>1 DEF Count, Types, Completes
<1>4. pc'[t] \in {"iterate", "top"}
  BY DEF Count, Goto, Types
<1> QED  BY <1>1, <1>2, <1>3, <1>4

LEMMA ClaimsKept ==
  ASSUME Types, InReach, Untouched, Claims, Types', [Next]_vars
  PROVE  Claims'
<1> SUFFICES ASSUME NEW j \in Job, dispatched'[j] <= 1
             PROVE  ClaimsOf(j)'
  BY DEF Claims
<1>1. ClaimsOf(j) /\ dispatched[j] <= 1
  <2>1. dispatched[j] \in Nat /\ dispatched'[j] \in Nat
    BY DEF Types
  <2>2. dispatched[j] <= 1
    BY <2>1, OthersUntouched
  <2> QED  BY <2>2 DEF Claims
<1>2. /\ nextSpan[j] \in Nat /\ Spans \in Nat
      /\ \A s \in 0..(Spans - 1) : ran[j][s] \in Nat
      /\ \A u \in Worker : span[u] \in Nat
  <2>1. ran[j] \in [0..(Spans - 1) -> Nat]
    BY DEF Types
  <2>2. \A s \in 0..(Spans - 1) : ran[j][s] \in Nat
    BY <2>1
  <2> QED  BY <2>2, Assumptions DEF Types
<1>3. CASE Quiet
  <2>1. At(j, {"run"})' = At(j, {"run"})
    BY <1>3, AtAfterQuiet DEF Quiet, Inside
  <2>2. \A t \in At(j, {"run"}) : span'[t] = span[t]
    BY <1>3 DEF Quiet, At, Inside
  <2>3. nextSpan' = nextSpan /\ ran' = ran
    BY <1>3 DEF Quiet, spanVars
  <2> QED  BY <1>1, <2>1, <2>2, <2>3, ClaimsCarryOver
<1>4. ASSUME NEW k \in Job, Resets(k) PROVE ClaimsOf(j)'
  <2>1. CASE k = j
    <3>1. nextSpan'[j] = 0 /\ \A s \in 0..(Spans - 1) : ran'[j][s] = 0
      BY <1>4, <2>1, FirstHandOut
    <3>2. At(j, {"run"})' = {}
      BY <1>4, <2>1, FirstHandOut DEF Inside
    <3> QED  BY <3>1, <3>2 DEF ClaimsOf
  <2>2. CASE k # j
    <3>1. At(j, {"run"})' = At(j, {"run"})
      BY <1>4, AtAfterQuiet DEF Resets, Inside
    <3>2. \A t \in At(j, {"run"}) : span'[t] = span[t]
      BY <1>4 DEF Resets, At, Inside
    <3>3. nextSpan'[j] = nextSpan[j] /\ ran' = ran
      BY <1>4, <2>2 DEF Resets, ResetCounters, Types
    <3> QED  BY <1>1, <3>1, <3>2, <3>3, ClaimsCarryOver
  <2> QED  BY <2>1, <2>2
<1>5. ASSUME NEW t \in Worker, Acts(t),
             pc[t] # "run" \/ task[t] # j,
             pc'[t] # "run" \/ task'[t] # j,
             nextSpan'[j] = nextSpan[j], ran'[j] = ran[j]
      PROVE  ClaimsOf(j)'
  <2>1. At(j, {"run"})' = At(j, {"run"})
    BY <1>5 DEF Acts, At
  <2>2. \A u \in At(j, {"run"}) : span'[u] = span[u]
    BY <1>5 DEF Acts, At
  <2> QED  BY <1>1, <1>5, <2>1, <2>2, ClaimsCarryOver
<1>6. ASSUME NEW t \in Worker, Enters(t) PROVE ClaimsOf(j)'
  <2>1. /\ Acts(t) /\ pc[t] # "run" /\ pc'[t] # "run"
        /\ nextSpan' = nextSpan /\ ran' = ran
    BY <1>6 DEF Enters, spanVars
  <2> QED  BY <1>5, <2>1
<1>7. ASSUME NEW t \in Worker, Acts(t), Steal(t) PROVE ClaimsOf(j)'
  <2>0. /\ pc[t] = "steal" /\ task[t] \in Job /\ task'[t] = task[t]
        /\ span'[t] = nextSpan[task[t]]
        /\ pc'[t] = IF nextSpan[task[t]] < Spans THEN "run" ELSE "count"
        /\ nextSpan'[j] = IF j = task[t] THEN nextSpan[j] + 1 ELSE nextSpan[j]
        /\ ran' = ran
    BY <1>7, StealEffect
  <2>1. CASE task[t] # j
    BY <1>5, <1>7, <2>0, <2>1
  <2>2. CASE task[t] = j
    <3>1. /\ \A u \in Worker \ {t} : (u \in At(j, {"run"})') <=> (u \in At(j, {"run"}))
          /\ \A u \in Worker \ {t} : span'[u] = span[u]
          /\ t \notin At(j, {"run"})
          /\ (t \in At(j, {"run"})') <=> (nextSpan[j] < Spans)
          /\ At(j, {"run"}) \subseteq Worker /\ At(j, {"run"})' \subseteq Worker
      BY <1>7, <2>0, <2>2 DEF Acts, At
    <3>2. /\ \A u \in At(j, {"run"}) : span[u] < nextSpan[j] /\ ran[j][span[u]] = 0
          /\ \A u, v \in At(j, {"run"}) : span[u] = span[v] => u = v
          /\ \A s \in 0..(Spans - 1) :
               /\ ran[j][s] <= 1
               /\ ran[j][s] = 1 => s < nextSpan[j]
               /\ s < nextSpan[j] =>
                    ran[j][s] = 1 \/ \E u \in At(j, {"run"}) : span[u] = s
      BY <1>1 DEF ClaimsOf
    <3>3. nextSpan'[j] = nextSpan[j] + 1 /\ span'[t] = nextSpan[j] /\ ran' = ran
      BY <2>0, <2>2
    <3>4. nextSpan[j] < Spans => ran[j][nextSpan[j]] = 0
      <4>1. nextSpan[j] < Spans => nextSpan[j] \in 0..(Spans - 1)
        BY <1>2
      <4> QED  BY <1>2, <3>2, <4>1
    <3>5. \A u \in At(j, {"run"})' : span'[u] < nextSpan'[j] /\ ran'[j][span'[u]] = 0
      BY <1>2, <3>1, <3>2, <3>3, <3>4
    <3>6. \A u, v \in At(j, {"run"})' : span'[u] = span'[v] => u = v
      BY <1>2, <3>1, <3>2, <3>3
    <3>7. ASSUME NEW s \in 0..(Spans - 1)
          PROVE  /\ ran'[j][s] <= 1
                 /\ ran'[j][s] = 1 => s < nextSpan'[j]
                 /\ s < nextSpan'[j] =>
                      ran'[j][s] = 1 \/ \E u \in At(j, {"run"})' : span'[u] = s
      <4>1. ran'[j][s] <= 1 /\ (ran'[j][s] = 1 => s < nextSpan'[j])
        BY <1>2, <3>2, <3>3
      <4>2. CASE s < nextSpan[j] /\ ran[j][s] # 1
        <5>1. PICK u \in At(j, {"run"}) : span[u] = s
          BY <3>2, <4>2
        <5>2. u \in At(j, {"run"})' /\ span'[u] = s
          BY <3>1, <5>1
        <5> QED  BY <4>1, <5>2
      <4>3. CASE s = nextSpan[j]
        <5>1. s < Spans
          BY <1>2
        <5>2. t \in At(j, {"run"})' /\ span'[t] = s
          BY <3>1, <3>3, <4>3, <5>1
        <5> QED  BY <4>1, <5>2
      <4>4. CASE s > nextSpan[j]
        BY <1>2, <3>3, <4>1, <4>4
      <4>5. CASE ran[j][s] = 1
        BY <3>3, <4>1, <4>5
      <4> QED  BY <1>2, <4>1, <4>2, <4>3, <4>4, <4>5
    <3> QED  BY <3>5, <3>6, <3>7 DEF ClaimsOf
  <2> QED  BY <2>1, <2>2
<1>8. ASSUME NEW t \in Worker, Acts(t), RunSpan(t) PROVE ClaimsOf(j)'
  <2>0. /\ pc[t] = "run" /\ task[t] \in Job /\ task'[t] = task[t]
        /\ span[t] \in 0..(Spans - 1) /\ span'[t] = span[t]
        /\ pc'[t] # "run" /\ nextSpan' = nextSpan
        /\ \A s \in 0..(Spans - 1) :
             ran'[j][s] = IF j = task[t] /\ s = span[t] THEN ran[j][s] + 1
                          ELSE ran[j][s]
    BY <1>8, RunEffect
  <2>1. \A u \in Worker : pc'[u] = "run" => pc[u] = "run"
    BY <1>8, <2>0 DEF Acts
  <2>2. CASE task[t] # j
    <3>1. ran'[j] = ran[j]
      BY <1>8, <2>2, RunEffect
    <3> QED  BY <1>5, <1>8, <2>0, <2>2, <3>1
  <2>3. CASE task[t] = j
    <3>1. /\ \A u \in Worker \ {t} : (u \in At(j, {"run"})') <=> (u \in At(j, {"run"}))
          /\ \A u \in Worker : span'[u] = span[u]
          /\ t \in At(j, {"run"}) /\ t \notin At(j, {"run"})'
          /\ At(j, {"run"}) \subseteq Worker /\ At(j, {"run"})' \subseteq Worker
      BY <1>8, <2>0, <2>3 DEF Acts, At
    <3>2. /\ \A u \in At(j, {"run"}) : span[u] < nextSpan[j] /\ ran[j][span[u]] = 0
          /\ \A u, v \in At(j, {"run"}) : span[u] = span[v] => u = v
          /\ \A s \in 0..(Spans - 1) :
               /\ ran[j][s] <= 1
               /\ ran[j][s] = 1 => s < nextSpan[j]
               /\ s < nextSpan[j] =>
                    ran[j][s] = 1 \/ \E u \in At(j, {"run"}) : span[u] = s
      BY <1>1 DEF ClaimsOf
    <3>3. nextSpan'[j] = nextSpan[j] /\ ran[j][span[t]] = 0 /\ span[t] < nextSpan[j]
      BY <2>0, <3>1, <3>2
    <3>4. \A s \in 0..(Spans - 1) :
            ran'[j][s] = IF s = span[t] THEN 1 ELSE ran[j][s]
      BY <2>0, <2>3, <3>3
    <3>5. ASSUME NEW u \in At(j, {"run"})'
          PROVE  span'[u] < nextSpan'[j] /\ ran'[j][span'[u]] = 0
      <4>1. u \in At(j, {"run"}) /\ u # t /\ span'[u] = span[u]
        BY <3>1
      <4>2. span[u] < nextSpan[j] /\ ran[j][span[u]] = 0 /\ span[u] # span[t]
        BY <3>1, <3>2, <4>1
      <4>3. span[u] \in 0..(Spans - 1)
        BY <1>2, <4>1 DEF InReach, At
      <4> QED  BY <3>3, <3>4, <4>1, <4>2, <4>3
    <3>6. \A u, v \in At(j, {"run"})' : span'[u] = span'[v] => u = v
      BY <3>1, <3>2
    <3>7. ASSUME NEW s \in 0..(Spans - 1)
          PROVE  /\ ran'[j][s] <= 1
                 /\ ran'[j][s] = 1 => s < nextSpan'[j]
                 /\ s < nextSpan'[j] =>
                      ran'[j][s] = 1 \/ \E u \in At(j, {"run"})' : span'[u] = s
      <4>1. CASE s = span[t]
        BY <3>3, <3>4, <4>1
      <4>2. CASE s # span[t]
        <5>1. ran'[j][s] = ran[j][s]
          BY <3>4, <4>2
        <5>2. \A u \in At(j, {"run"}) : span[u] = s => u # t
          BY <4>2
        <5> QED  BY <3>1, <3>2, <3>3, <5>1, <5>2
      <4> QED  BY <4>1, <4>2
    <3> QED  BY <3>5, <3>6, <3>7 DEF ClaimsOf
  <2> QED  BY <2>2, <2>3
<1>9. ASSUME NEW t \in Worker, Acts(t), Count(t) PROVE ClaimsOf(j)'
  <2>1. pc[t] # "run" /\ pc'[t] # "run" /\ nextSpan' = nextSpan /\ ran' = ran
    BY <1>9, CountEffect
  <2> QED  BY <1>5, <1>9, <2>1
<1> QED  BY <1>3, <1>4, <1>6, <1>7, <1>8, <1>9, StepKinds

LEMMA FinishingKept ==
  ASSUME Types, InReach, Untouched, Claims, Finishing, Types', [Next]_vars
  PROVE  Finishing'
<1> SUFFICES ASSUME NEW j \in Job, dispatched'[j] <= 1
             PROVE  FinishingOf(j)'
  BY DEF Finishing
<1> DEFINE W == Cardinality(Worker)
           N == Cardinality(At(j, Inside))
           M == Cardinality(At(j, Inside)')
<1>1. FinishingOf(j) /\ ClaimsOf(j) /\ dispatched[j] <= 1
  <2>1. dispatched[j] \in Nat /\ dispatched'[j] \in Nat
    BY DEF Types
  <2>2. dispatched[j] <= 1
    BY <2>1, OthersUntouched
  <2> QED  BY <2>2 DEF Finishing, Claims
<1>2. /\ nextSpan[j] \in Nat /\ finishers[j] \in Nat /\ Spans \in Nat
      /\ W \in Nat /\ W >= 1 /\ N \in 0..W /\ M \in 0..W
  <2>1. nextSpan[j] \in Nat /\ finishers[j] \in Nat
    BY DEF Types
  <2>2. Spans \in Nat /\ W \in Nat /\ W >= 1
    BY Assumptions
  <2>3. N \in 0..W
    BY AtFinite
  <2>4. M \in 0..W
    BY AtFiniteNext
  <2> QED  BY <2>1, <2>2, <2>3, <2>4
<1>3. /\ finishers[j] + N <= W
      /\ nextSpan[j] < Spans => finishers[j] = 0 /\ At(j, {"count"}) = {}
      /\ executed[j] => finishers[j] = W
  BY <1>1 DEF FinishingOf
<1>4. SUFFICES /\ finishers'[j] + M <= W
               /\ nextSpan'[j] < Spans =>
                    finishers'[j] = 0 /\ At(j, {"count"})' = {}
               /\ executed'[j] => finishers'[j] = W
  BY DEF FinishingOf
<1>5. ASSUME At(j, Inside)' = At(j, Inside),
             At(j, {"count"})' = At(j, {"count"}),
             nextSpan'[j] = nextSpan[j], finishers'[j] = finishers[j],
             executed'[j] = executed[j]
      PROVE  /\ finishers'[j] + M <= W
             /\ nextSpan'[j] < Spans =>
                  finishers'[j] = 0 /\ At(j, {"count"})' = {}
             /\ executed'[j] => finishers'[j] = W
  BY <1>3, <1>5
<1> HIDE DEF W, M, N
<1>6. CASE Quiet
  <2>1. At(j, Inside)' = At(j, Inside)
    BY <1>6, AtAfterQuiet DEF Quiet, Inside
  <2>2. At(j, {"count"})' = At(j, {"count"})
    BY <1>6, AtAfterQuiet DEF Quiet, Inside
  <2>3. nextSpan' = nextSpan /\ finishers' = finishers /\ executed' = executed
    BY <1>6 DEF Quiet, spanVars
  <2> QED  BY <1>5, <2>1, <2>2, <2>3
<1>7. ASSUME NEW k \in Job, Resets(k)
      PROVE  /\ finishers'[j] + M <= W
             /\ nextSpan'[j] < Spans =>
                  finishers'[j] = 0 /\ At(j, {"count"})' = {}
             /\ executed'[j] => finishers'[j] = W
  <2>1. CASE k = j
    <3>1. finishers'[j] = 0 /\ ~executed'[j]
      BY <1>7, <2>1, FirstHandOut
    <3>2. At(j, {"count"})' = {}
      BY <1>7, <2>1, FirstHandOut DEF Inside
    <3> QED  BY <1>2, <3>1, <3>2
  <2>2. CASE k # j
    <3>1. At(j, Inside)' = At(j, Inside)
      BY <1>7, AtAfterQuiet DEF Resets, Inside
    <3>2. At(j, {"count"})' = At(j, {"count"})
      BY <1>7, AtAfterQuiet DEF Resets, Inside
    <3>3. nextSpan'[j] = nextSpan[j] /\ finishers'[j] = finishers[j]
          /\ executed' = executed
      BY <1>7, <2>2 DEF Resets, ResetCounters, Types
    <3> QED  BY <1>5, <3>1, <3>2, <3>3
  <2> QED  BY <2>1, <2>2
<1>8. ASSUME NEW t \in Worker, Acts(t),
             pc[t] \notin Inside \/ task[t] # j,
             pc'[t] \notin Inside \/ task'[t] # j,
             nextSpan'[j] = nextSpan[j], finishers'[j] = finishers[j],
             executed'[j] = executed[j]
      PROVE  /\ finishers'[j] + M <= W
             /\ nextSpan'[j] < Spans =>
                  finishers'[j] = 0 /\ At(j, {"count"})' = {}
             /\ executed'[j] => finishers'[j] = W
  <2>1. At(j, Inside)' = At(j, Inside)
    BY <1>8 DEF Acts, At
  <2>2. At(j, {"count"})' = At(j, {"count"})
    BY <1>8 DEF Acts, At, Inside
  <2> QED  BY <1>5, <1>8, <2>1, <2>2
<1>9. ASSUME NEW t \in Worker, Enters(t)
      PROVE  /\ finishers'[j] + M <= W
             /\ nextSpan'[j] < Spans =>
                  finishers'[j] = 0 /\ At(j, {"count"})' = {}
             /\ executed'[j] => finishers'[j] = W
  <2>1. /\ Acts(t) /\ pc[t] \notin Inside /\ pc'[t] = "steal"
        /\ nextSpan' = nextSpan /\ finishers' = finishers
        /\ executed' = executed
    BY <1>9 DEF Enters, spanVars, Inside
  <2>2. CASE task'[t] # j
    BY <1>8, <2>1, <2>2
  <2>3. CASE task'[t] = j
    <3>1. nextSpan[j] < Spans
      BY <1>9, <2>3 DEF Enters, Eligible
    <3>2. At(j, {"count"})' = At(j, {"count"})
      BY <2>1 DEF Acts, At, Inside
    <3> QED  BY <1>2, <1>3, <2>1, <3>1, <3>2
  <2> QED  BY <2>2, <2>3
<1>10. ASSUME NEW t \in Worker, Acts(t), Steal(t)
       PROVE  /\ finishers'[j] + M <= W
              /\ nextSpan'[j] < Spans =>
                   finishers'[j] = 0 /\ At(j, {"count"})' = {}
              /\ executed'[j] => finishers'[j] = W
  <2>1. /\ pc[t] = "steal" /\ task[t] \in Job /\ task'[t] = task[t]
        /\ pc'[t] = IF nextSpan[task[t]] < Spans THEN "run" ELSE "count"
        /\ nextSpan'[j] = IF j = task[t] THEN nextSpan[j] + 1 ELSE nextSpan[j]
        /\ finishers' = finishers /\ executed' = executed
    BY <1>10, StealEffect
  <2>2. CASE task[t] # j
    BY <1>8, <1>10, <2>1, <2>2
  <2>3. CASE task[t] = j
    <3>1. At(j, Inside)' = At(j, Inside)
      BY <1>10, <2>1, <2>3 DEF Acts, At, Inside
    <3>2. M = N
      BY <3>1 DEF M, N
    <3>3. nextSpan'[j] = nextSpan[j] + 1
      BY <2>1, <2>3
    <3>4. nextSpan'[j] < Spans => nextSpan[j] < Spans
      BY <1>2, <3>3
    <3>5. nextSpan[j] < Spans => At(j, {"count"})' = At(j, {"count"})
      BY <1>10, <2>1, <2>3 DEF Acts, At
    <3> QED  BY <1>3, <2>1, <3>2, <3>4, <3>5
  <2> QED  BY <2>2, <2>3
<1>11. ASSUME NEW t \in Worker, pc[t] \in Inside, task[t] = j
       PROVE  /\ Cardinality(At(j, Inside) \ {t}) = N - 1 /\ N >= 1
  <2>1. t \in At(j, Inside) /\ At(j, Inside) \subseteq Worker
    BY <1>11 DEF At
  <2>2. Cardinality(At(j, Inside) \ {t}) = N - 1
    BY <2>1, OneOut DEF N
  <2>3. Cardinality(At(j, Inside) \ {t}) \in Nat
    <3>1. IsFiniteSet(At(j, Inside) \ {t})
      BY AtFinite, FS_Subset
    <3> QED  BY <3>1, FS_CardinalityType
  <2> QED  BY <1>2, <2>2, <2>3
<1>12. ASSUME NEW t \in Worker, Acts(t), RunSpan(t)
       PROVE  /\ finishers'[j] + M <= W
              /\ nextSpan'[j] < Spans =>
                   finishers'[j] = 0 /\ At(j, {"count"})' = {}
              /\ executed'[j] => finishers'[j] = W
  <2>1. /\ pc[t] = "run" /\ task[t] \in Job /\ task'[t] = task[t]
        /\ span[t] \in 0..(Spans - 1)
        /\ pc'[t] = IF span[t] + 1 >= Spans THEN "count" ELSE "top"
        /\ nextSpan' = nextSpan /\ finishers' = finishers
        /\ executed' = executed
    BY <1>12, RunEffect
  <2>2. CASE task[t] # j
    BY <1>8, <1>12, <2>1, <2>2
  <2>3. CASE task[t] = j
    <3>1. span[t] < nextSpan[j]
      <4>1. t \in At(j, {"run"})
        BY <2>1, <2>3 DEF At
      <4> QED  BY <1>1, <4>1 DEF ClaimsOf
    <3>2. CASE pc'[t] = "count"
      <4>1. At(j, Inside)' = At(j, Inside)
        BY <1>12, <2>1, <2>3, <3>2 DEF Acts, At, Inside
      <4>2. M = N
        BY <4>1 DEF M, N
      <4>3. span[t] + 1 >= Spans
        BY <2>1, <3>2
      <4>4. ~(nextSpan'[j] < Spans)
        BY <1>2, <2>1, <3>1, <4>3
      <4> QED  BY <1>3, <2>1, <4>2, <4>4
    <3>3. CASE pc'[t] = "top"
      <4>1. At(j, Inside)' = At(j, Inside) \ {t}
        BY <1>12, <3>3 DEF Acts, At, Inside
      <4>2. M = N - 1
        BY <1>11, <2>1, <2>3, <4>1 DEF M, Inside
      <4>3. At(j, {"count"})' = At(j, {"count"})
        BY <1>12, <2>1, <3>3 DEF Acts, At
      <4> QED  BY <1>2, <1>3, <2>1, <4>2, <4>3
    <3> QED  BY <2>1, <3>2, <3>3
  <2> QED  BY <2>2, <2>3
<1>13. ASSUME NEW t \in Worker, Acts(t), Count(t)
       PROVE  /\ finishers'[j] + M <= W
              /\ nextSpan'[j] < Spans =>
                   finishers'[j] = 0 /\ At(j, {"count"})' = {}
              /\ executed'[j] => finishers'[j] = W
  <2>1. /\ pc[t] = "count" /\ task[t] \in Job /\ task'[t] = task[t]
        /\ pc'[t] \in {"iterate", "top"}
        /\ finishers'[j] = IF j = task[t] THEN finishers[j] + 1
                           ELSE finishers[j]
        /\ executed'[j] => executed[j] \/ (j = task[t] /\ finishers[j] = W - 1)
        /\ nextSpan' = nextSpan
    BY <1>13, CountEffect DEF W
  <2>2. CASE task[t] # j
    <3>1. At(j, Inside)' = At(j, Inside)
      BY <1>13, <2>1, <2>2 DEF Acts, At
    <3>2. At(j, {"count"})' = At(j, {"count"})
      BY <1>13, <2>1, <2>2 DEF Acts, At
    <3>3. M = N
      BY <3>1 DEF M, N
    <3> QED  BY <1>3, <2>1, <2>2, <3>2, <3>3
  <2>3. CASE task[t] = j
    <3>1. At(j, Inside)' = At(j, Inside) \ {t}
      BY <1>13, <2>1 DEF Acts, At, Inside
    <3>2. M = N - 1 /\ N >= 1
      BY <1>11, <2>1, <2>3, <3>1 DEF M, Inside
    <3>3. t \in At(j, {"count"})
      BY <2>1, <2>3 DEF At
    <3>4. ~(nextSpan[j] < Spans)
      BY <1>3, <3>3
    <3>5. ~executed[j]
      BY <1>2, <1>3, <3>2
    <3> QED  BY <1>2, <1>3, <2>1, <2>3, <3>2, <3>4, <3>5
  <2> QED  BY <2>2, <2>3
<1> QED  BY <1>6, <1>7, <1>9, <1>10, <1>12, <1>13, StepKinds

-----------------------------------------------------------------------------
(* One frame. *)

\* A job is handed out by the dispatch loop or by the thread that freed it.
LEMMA DispatchOrigin ==
  ASSUME Types, InReach, [Next]_vars, NEW j \in Job, dispatched'[j] # 0
  PROVE  \/ dispatched[j] # 0
         \/ LookAt /\ j = Head(toDispatch) /\ Dispatchable(j)
         \/ \E t \in Worker : Reset(t) /\ j = Dependent(t)
<1>1. CASE UNCHANGED dispatched
  BY <1>1
<1>2. CASE LookAt
  <2>1. CASE Dispatchable(Head(toDispatch))
    <3>1. Head(toDispatch) \in Job
      BY <1>2, HeadOfSeq DEF LookAt, Types
    <3>2. j # Head(toDispatch) => dispatched'[j] = dispatched[j]
      BY <1>2, <2>1, <3>1 DEF LookAt, ResetCounters, Types
    <3> QED  BY <1>2, <2>1, <3>2
  <2>2. CASE ~Dispatchable(Head(toDispatch))
    BY <1>1, <1>2, <2>2 DEF LookAt
  <2> QED  BY <2>1, <2>2
<1>3. ASSUME NEW t \in Worker, Reset(t)
      PROVE  dispatched[j] # 0 \/ j = Dependent(t)
  <2>1. ResetCounters(Dependent(t))
    BY <1>3 DEF Reset, Dependent
  <2> QED  BY <2>1 DEF ResetCounters, Types
<1>4. CASE UNCHANGED vars
  BY <1>1, <1>4 DEF vars, historyVars
<1> QED
  BY <1>1, <1>2, <1>3, <1>4 DEF Next, HostCall, MainLocal, InMutex,
     WorkerLocal, WakeUnnotified, Submit, SetTerminate, AddDependent,
     CountDependency, Slide, Wait, WaitReturns, NotifyStop, Joined, Dispatch,
     Leave, GoToSleep, Scan, Push, Erase, Top, Sleep, Steal, RunSpan, Count,
     Iterate, Resolve, EndResolve, historyVars

\* Somebody at work means that something was handed out, and bound before.
LEMMA WorkMeansBound ==
  ASSUME Types, InReach, Untouched, BoundFirst, NEW t \in Worker,
         pc[t] \in Pending
  PROVE  /\ task[t] \in Job /\ dispatched[task[t]] # 0
         /\ frames # 0 /\ toBind = <<>> /\ main # "counting"
<1>1. task[t] \in Job
  BY DEF InReach
<1>2. dispatched[task[t]] # 0
  BY <1>1 DEF Untouched, At
<1> QED  BY <1>1, <1>2 DEF BoundFirst, InReach

\* What a thread leaves alone.
LEMMA ThreadsLeaveTheFrame ==
  ASSUME NEW t \in Worker, InMutex(t) \/ WorkerLocal(t) \/ WakeUnnotified(t)
  PROVE  /\ UNCHANGED <<main, hostVars, frameVars, dependents>>
         /\ Reset(t) \/ UNCHANGED dispatched
         /\ Resolve(t) \/ UNCHANGED <<inDegree, aborted>>
         /\ Count(t) \/ UNCHANGED executed
         /\ RunSpan(t) \/ UNCHANGED failed
BY DEF InMutex, WorkerLocal, WakeUnnotified, Leave, GoToSleep, Scan, Push,
   Erase, Top, Sleep, Steal, RunSpan, Count, Iterate, Resolve, Reset,
   EndResolve, graphVars, flagVars, historyVars

\* Both flags only rise.
LEMMA FlagsRise ==
  ASSUME Types, InReach, [Next]_vars, NEW j \in Job
  PROVE  (executed[j] => executed'[j]) /\ (aborted[j] => aborted'[j])
<1>1. CASE UNCHANGED <<executed, aborted>>
  BY <1>1
<1>2. ASSUME NEW t \in Worker, Count(t) \/ Resolve(t)
      PROVE  (executed[j] => executed'[j]) /\ (aborted[j] => aborted'[j])
  <2>1. CASE Count(t)
    <3>1. aborted' = aborted
      BY <2>1 DEF Count
    <3>2. executed' = executed
          \/ executed' = [executed EXCEPT ![task[t]] = TRUE]
      BY <2>1 DEF Count
    <3>3. executed \in [Job -> BOOLEAN]
      BY DEF Types
    <3> QED  BY <3>1, <3>2, <3>3
  <2>2. CASE Resolve(t)
    <3>1. executed' = executed
      BY <2>2 DEF Resolve
    <3>2. aborted' = [aborted EXCEPT ![Dependent(t)] = @ \/ Poisons(task[t])]
      BY <2>2 DEF Resolve, Dependent
    <3>3. aborted \in [Job -> BOOLEAN]
      BY DEF Types
    <3> QED  BY <3>1, <3>2, <3>3
  <2> QED  BY <1>2, <2>1, <2>2
<1>3. CASE HostCall \/ MainLocal \/ Dispatch
  BY <1>1, <1>3, MainMovesNobody DEF flagVars
<1>4. CASE UNCHANGED vars
  BY <1>1, <1>4 DEF vars, flagVars
<1>5. ASSUME NEW t \in Worker,
             InMutex(t) \/ WorkerLocal(t) \/ WakeUnnotified(t)
      PROVE  (executed[j] => executed'[j]) /\ (aborted[j] => aborted'[j])
  BY <1>1, <1>2, <1>5, ThreadsLeaveTheFrame
<1> QED  BY <1>3, <1>4, <1>5 DEF Next

LEMMA OneFrameKept ==
  ASSUME MaxFrames = 1, Types, Paced, InReach, Untouched, OneFrame, Types',
         [Next]_vars
  PROVE  OneFrame'
<1> USE DEF OneFrame
<1>1. CASE UNCHANGED vars
  BY <1>1 DEF vars, hostVars, frameVars, graphVars, flagVars, historyVars,
     NotBegun, BoundFirst, Window, OfTheFrame, FrameJobs, Over
<1>2. ASSUME NEW asPipelined \in BOOLEAN, NEW size \in 0..FrameSize,
             Submit(asPipelined, size)
      PROVE  OneFrame'
  <2>1. frames = 0 /\ frames' = 1 /\ main' = "binding"
        /\ UNCHANGED <<previous, dependents, dispatched>>
    BY <1>2 DEF Submit, Types, graphVars, historyVars
  <2>2. previous = <<>> /\ \A j \in Job : dependents[j] = <<>>
    BY <2>1 DEF NotBegun
  <2>3. \A j \in Job : dispatched[j] = 0
    BY <2>1 DEF BoundFirst
  <2>4. toDispatch' = current' /\ current' \in Seq(Job)
        /\ Range(toBind') \subseteq
             (Range(current') \cup Range(previous)) \X Range(current')
    BY <1>2, SubmitTypes
  <2>5. Range(<<>>) = {}
    BY DEF Range
  <2>6. \A p \in Range(toBind') : p[2] \in Range(current')
    BY <2>4
  <2>7. NotBegun' /\ BoundFirst' /\ Window'
    BY <2>1, <2>2, <2>3 DEF NotBegun, BoundFirst, Window
  <2>8. \A j \in Job : Range(dependents'[j]) = {}
    BY <2>1, <2>2, <2>5
  <2>9. OfTheFrame'
    BY <2>1, <2>3, <2>4, <2>6, <2>8 DEF OfTheFrame, FrameJobs
  <2> QED  BY <2>7, <2>9
<1>3. CASE AddDependent
  <2>1. /\ main = "binding" /\ main' = "counting" /\ toBind # <<>>
        /\ UNCHANGED <<frames, current, previous, toBind, toDispatch,
                       dispatched>>
    BY <1>3 DEF AddDependent, hostVars, frameVars, historyVars
  <2>2. Head(toBind) \in Range(toBind) /\ Head(toBind) \in Collision
    BY <2>1, HeadOfSeq DEF Types
  <2>3. Head(toBind)[1] \in Job /\ Head(toBind)[2] \in Job
        /\ Head(toBind)[2] \in FrameJobs
    BY <2>1, <2>2, Assumptions DEF OfTheFrame, Closing
  <2>4. ASSUME NEW j \in Job
        PROVE  Range(dependents'[j]) \subseteq FrameJobs
    <3>1. dependents'[j] = IF j = Head(toBind)[1]
                           THEN Append(dependents[j], Head(toBind)[2])
                           ELSE dependents[j]
      BY <1>3, <2>3 DEF AddDependent, Types
    <3>2. dependents[j] \in Seq(Job) /\ Range(dependents[j]) \subseteq FrameJobs
      BY <2>1 DEF Types, OfTheFrame, Closing
    <3> QED  BY <2>3, <3>1, <3>2, AppendRange
  <2>5. FrameJobs' = FrameJobs
    BY <2>1 DEF FrameJobs
  <2>6. frames # 0
    BY <2>1 DEF NotBegun, Closing
  <2>7. NotBegun' /\ BoundFirst' /\ Window'
    BY <2>1, <2>6 DEF NotBegun, BoundFirst, Window
  <2>8. OfTheFrame'
    BY <2>1, <2>4, <2>5 DEF OfTheFrame, Closing
  <2> QED  BY <2>7, <2>8
<1>4. CASE CountDependency
  <2>1. /\ main = "counting" /\ main' = "binding" /\ toBind' = Tail(toBind)
        /\ UNCHANGED <<frames, current, previous, toDispatch, dependents,
                       dispatched>>
    BY <1>4 DEF CountDependency, hostVars, graphVars, historyVars
  <2>2. toBind # <<>> /\ toBind \in Seq(Collision)
    BY <2>1 DEF InReach, Types
  <2>3. Range(toBind') \subseteq Range(toBind)
    BY <2>1, <2>2, HeadOfSeq
  <2>4. \A j \in Job : dispatched[j] = 0
    BY <2>2 DEF BoundFirst
  <2>5. NotBegun' /\ BoundFirst' /\ Window'
    BY <2>1, <2>4 DEF NotBegun, BoundFirst, Window, Closing
  <2>6. OfTheFrame'
    BY <2>1, <2>3 DEF OfTheFrame, FrameJobs, Closing
  <2> QED  BY <2>5, <2>6
<1>5. CASE LookAt
  <2>1. /\ main = "binding" /\ main' \in {"binding", "pushing"}
        /\ toBind = <<>> /\ toDispatch # <<>>
        /\ UNCHANGED <<frames, current, previous, toBind, dependents>>
    BY <1>5 DEF LookAt, hostVars, graphVars
  <2>2. Range(toDispatch') \subseteq Range(toDispatch)
        /\ Head(toDispatch) \in Range(toDispatch)
    BY <1>5, <2>1, HeadOfSeq DEF LookAt, Types
  <2>3. frames # 0
    BY <2>1 DEF NotBegun, Closing
  <2>4. NotBegun' /\ BoundFirst' /\ Window'
    BY <2>1, <2>3 DEF NotBegun, BoundFirst, Window
  <2>5. \A j \in Job : dispatched'[j] # 0 =>
          dispatched[j] # 0 \/ j = Head(toDispatch)
    <3>1. ASSUME NEW j \in Job, dispatched'[j] # 0
          PROVE  dispatched[j] # 0 \/ j = Head(toDispatch)
      <4>1. Head(toDispatch) \in Job
        BY <2>1, HeadOfSeq DEF Types
      <4> QED  BY <1>5, <3>1, <4>1 DEF LookAt, ResetCounters, Types
    <3> QED  BY <3>1
  <2>6. FrameJobs' = FrameJobs
    BY <2>1 DEF FrameJobs
  <2>7. OfTheFrame'
    BY <2>1, <2>2, <2>5, <2>6 DEF OfTheFrame, Closing
  <2> QED  BY <2>4, <2>7
<1>6. CASE Dispatch
  <2>1. /\ main = "pushing" /\ main' = "binding"
        /\ toDispatch' = Tail(toDispatch) /\ toDispatch # <<>>
        /\ UNCHANGED <<frames, current, previous, toBind, dependents,
                       dispatched>>
    BY <1>6 DEF Dispatch, hostVars, graphVars, historyVars, InReach
  <2>2. Range(toDispatch') \subseteq Range(toDispatch)
    BY <2>1, HeadOfSeq DEF Types
  <2>3. NotBegun' /\ BoundFirst' /\ Window'
    BY <2>1 DEF NotBegun, BoundFirst, Window, Closing
  <2>4. OfTheFrame'
    BY <2>1, <2>2 DEF OfTheFrame, FrameJobs, Closing
  <2> QED  BY <2>3, <2>4
<1>7. CASE Slide
  <2>1. /\ main = "binding" /\ main' = "submitted" /\ previous' = current
        /\ current' = <<>>
        /\ UNCHANGED <<frames, toBind, toDispatch, dependents, dispatched>>
        /\ toBind = <<>> /\ toDispatch = <<>>
    BY <1>7 DEF Slide, hostVars, graphVars, historyVars
  <2>2. previous = <<>> /\ frames # 0
    BY <2>1 DEF Window, NotBegun, Closing
  <2>3. Range(<<>>) = {}
    BY DEF Range
  <2>4. FrameJobs' = FrameJobs
    BY <2>1, <2>2, <2>3 DEF FrameJobs
  <2>5. NotBegun' /\ BoundFirst' /\ Window'
    BY <2>1, <2>2 DEF NotBegun, BoundFirst, Window
  <2>6. OfTheFrame'
    BY <2>1, <2>4 DEF OfTheFrame, Closing
  <2> QED  BY <2>5, <2>6
<1>8. CASE Wait \/ WaitReturns
  <2>1. /\ main \in {"submitted", "waiting"} /\ main' \in {"waiting", "idle"}
        /\ UNCHANGED <<frames, current, previous, toBind, toDispatch,
                       dependents, dispatched, executed, aborted>>
        /\ main' = "idle" => \A j \in Range(previous) : Over(j)
    BY <1>8 DEF Wait, WaitReturns, hostVars, frameVars, graphVars, flagVars,
       historyVars
  <2>2. frames # 0
    BY <2>1 DEF NotBegun, Closing
  <2>3. NotBegun' /\ BoundFirst' /\ Window'
    BY <2>1, <2>2 DEF NotBegun, BoundFirst, Window, Over
  <2>4. OfTheFrame'
    BY <2>1 DEF OfTheFrame, FrameJobs, Closing
  <2> QED  BY <2>3, <2>4
<1>9. CASE SetTerminate \/ NotifyStop \/ Joined
  <2>1. /\ main \in {"idle"} \cup Closing /\ main' \in Closing
        /\ previous' = <<>> \/ previous' = previous
        /\ UNCHANGED <<frames, toBind, dependents, dispatched>>
    BY <1>9 DEF SetTerminate, NotifyStop, Joined, hostVars, frameVars,
       graphVars, historyVars, Closing
  <2> QED
    BY <2>1 DEF NotBegun, BoundFirst, Window, OfTheFrame, Closing
<1>10. ASSUME NEW t \in Worker,
              InMutex(t) \/ WorkerLocal(t) \/ WakeUnnotified(t)
       PROVE  OneFrame'
  <2>1. UNCHANGED <<main, frames, current, previous, toBind, toDispatch,
                    dependents>>
    BY <1>10, ThreadsLeaveTheFrame DEF hostVars, frameVars
  <2>2. NotBegun'
    BY <2>1 DEF NotBegun
  <2>3. Window'
    <3>1. ASSUME main' = "idle", NEW j \in Range(previous') PROVE Over(j)'
      <4>1. Over(j) /\ j \in Job
        BY <2>1, <3>1, SeqRange DEF Window, Types
      <4>2. (executed[j] => executed'[j]) /\ (aborted[j] => aborted'[j])
        BY <4>1, FlagsRise
      <4> QED  BY <4>1, <4>2 DEF Over
    <3> QED  BY <2>1, <3>1 DEF Window
  <2>4. CASE Reset(t)
    <3>1. pc[t] \in Pending
      BY <2>4 DEF Reset, Pending
    <3>2. frames # 0 /\ toBind = <<>>
      BY <3>1, WorkMeansBound
    <3>3. /\ task[t] \in Job /\ next[t] \in 1..Len(dependents[task[t]])
          /\ Dependent(t) \in Job
      BY <2>4, DependentReal DEF Reset
    <3>4. Dependent(t) \in Range(dependents[task[t]])
      <4>1. dependents[task[t]] \in Seq(Job)
        BY <3>3 DEF Types
      <4>2. DOMAIN dependents[task[t]] = 1..Len(dependents[task[t]])
        BY <4>1
      <4> QED  BY <3>3, <4>2 DEF Dependent, Range
    <3>5. \A j \in Job : dispatched'[j] # 0 =>
            dispatched[j] # 0 \/ j = Dependent(t)
      BY <2>4, <3>3 DEF Reset, ResetCounters, Dependent, Types
    <3>6. BoundFirst'
      BY <2>1, <3>2 DEF BoundFirst
    <3>7. OfTheFrame'
      BY <2>1, <3>3, <3>4, <3>5 DEF OfTheFrame, FrameJobs
    <3> QED  BY <2>2, <2>3, <3>6, <3>7
  <2>5. CASE ~Reset(t)
    <3>1. UNCHANGED dispatched
      BY <1>10, <2>5, ThreadsLeaveTheFrame
    <3>2. BoundFirst' /\ OfTheFrame'
      BY <2>1, <3>1 DEF BoundFirst, OfTheFrame, FrameJobs
    <3> QED  BY <2>2, <2>3, <3>2
  <2> QED  BY <2>4, <2>5
<1> QED
  BY <1>1, <1>2, <1>3, <1>4, <1>5, <1>6, <1>7, <1>8, <1>9, <1>10 DEF Next,
     HostCall, MainLocal

-----------------------------------------------------------------------------
(* The edges of the frame, and who has still to resolve them. *)

LEMMA NotYetExecuted ==
  ASSUME Types, InReach, Finishing, DispatchedOnce, NEW t \in Worker,
         pc[t] \in Inside
  PROVE  task[t] \in Job /\ ~executed[task[t]]
<1>1. task[t] \in Job
  BY DEF InReach, Inside, Pending
<1> DEFINE j == task[t]
<1>2. /\ finishers[j] + Cardinality(At(j, Inside)) <= Cardinality(Worker)
      /\ executed[j] => finishers[j] = Cardinality(Worker)
  BY <1>1 DEF Finishing, FinishingOf, DispatchedOnce
<1>3. Cardinality(Worker) \in Nat /\ finishers[j] \in Nat
  BY <1>1, Assumptions DEF Types
<1>4. IsFiniteSet(At(j, Inside))
      /\ Cardinality(At(j, Inside)) \in 0..Cardinality(Worker)
  BY AtFinite
<1>5. At(j, Inside) # {}
  BY DEF At
<1>6. Cardinality(At(j, Inside)) # 0
  BY <1>4, <1>5, FS_EmptySet
<1> QED  BY <1>1, <1>2, <1>3, <1>4, <1>6

\* What thread t does to the edges before it, when it neither takes a node's
\* edges up nor resolves one.
LEMMA HoldsKept ==
  ASSUME Types, InReach, IteratesOnce, NEW t \in Worker,
         InMutex(t) \/ WorkerLocal(t) \/ WakeUnnotified(t),
         ~Count(t), ~Resolve(t), NEW e \in Edges
  PROVE  Holds(t, e)' <=> Holds(t, e)
<1>7. \A a, b \in Nat : a + 1 <= b <=> a < b
  OBVIOUS
<1> USE DEF Types, Goto
<1>0. e[1] \in Job /\ e[2] \in Nat /\ e[2] >= 1
      /\ e[2] <= Len(dependents[e[1]]) /\ next[t] \in Nat /\ last[t] \in Nat
      /\ Len(dependents[e[1]]) \in Nat
  BY DEF Edges
<1>1. CASE Leave(t) \/ GoToSleep(t) \/ Sleep(t) \/ WakeUnnotified(t)
           \/ Erase(t) \/ Top(t)
  BY <1>1 DEF Leave, GoToSleep, Sleep, WakeUnnotified, Erase, Top, Holds
<1>2. CASE Scan(t) \/ Steal(t) \/ RunSpan(t)
  BY <1>2 DEF Scan, Steal, RunSpan, Holds
<1>3. CASE Iterate(t)
  <2>1. pc[t] = "iterate" /\ pc'[t] = "resolve" /\ next'[t] = 1
        /\ task'[t] = task[t]
    BY <1>3 DEF Iterate, claimVars
  <2> QED  BY <1>0, <2>1 DEF Holds
<1>4. CASE Reset(t)
  <2>1. pc[t] = "reset" /\ pc'[t] = "push" /\ next'[t] = next[t]
        /\ task'[t] = task[t]
    BY <1>4 DEF Reset, claimVars, loopVars
  <2> QED  BY <2>1 DEF Holds
<1>5. CASE Push(t)
  <2>1. pc[t] = "push" /\ pc'[t] = "resolve" /\ next'[t] = next[t] + 1
        /\ task'[t] = task[t]
    BY <1>5 DEF Push, Woken, claimVars
  <2>2. next[t] + 1 <= e[2] <=> next[t] < e[2]
    BY <1>0, <1>7
  <2> QED  BY <2>1, <2>2 DEF Holds
<1>6. CASE EndResolve(t)
  <2>1. pc[t] = "resolve" /\ pc'[t] = "erase" /\ next[t] > last[t]
    BY <1>6 DEF EndResolve
  <2>2. last[t] = Len(dependents[task[t]])
    BY <2>1 DEF IteratesOnce, Iterating
  <2> QED  BY <1>0, <2>1, <2>2 DEF Holds
<1> QED  BY <1>1, <1>2, <1>3, <1>4, <1>5, <1>6 DEF InMutex, WorkerLocal

LEMMA OthersHold ==
  ASSUME Types, NEW t \in Worker,
         InMutex(t) \/ WorkerLocal(t) \/ WakeUnnotified(t),
         NEW u \in Worker \ {t}, NEW e
  PROVE  Holds(u, e)' <=> Holds(u, e)
<1>1. /\ pc'[u] = pc[u] \/ (pc[u] = "asleep" /\ pc'[u] = "lock")
      /\ task'[u] = task[u] /\ next'[u] = next[u]
  BY OthersStay
<1> QED  BY <1>1 DEF Holds

\* Only binding an edge and resolving one change what is resolved.
LEMMA EdgesStay ==
  ASSUME Types, InReach, Finishing, IteratesOnce, DispatchedOnce,
         [Next]_vars, ~AddDependent, \A t \in Worker : ~Resolve(t)
  PROVE  /\ dependents' = dependents
         /\ \A e \in Edges : Resolved(e)' <=> Resolved(e)
         /\ \A k \in Job : Unresolved(k)' = Unresolved(k)
<1>1. /\ dependents' = dependents
      /\ \A e \in Edges : Resolved(e)' <=> Resolved(e)
  <2>1. CASE UNCHANGED vars
    <3>1. UNCHANGED <<dependents, executed, pc, task, next>>
      BY <2>1 DEF vars, graphVars, flagVars, claimVars, loopVars
    <3> QED  BY <3>1 DEF Resolved, Holds
  <2>2. CASE HostCall \/ MainLocal \/ Dispatch
    <3>1. dependents' = dependents
      BY <2>2 DEF HostCall, MainLocal, Submit, SetTerminate, CountDependency,
         LookAt, Slide, Wait, WaitReturns, NotifyStop, Joined, Dispatch,
         graphVars
    <3>2. executed' = executed
      BY <2>2, MainMovesNobody DEF flagVars
    <3>3. \A u \in Worker :
            /\ pc'[u] = pc[u] \/ (pc[u] = "asleep" /\ pc'[u] = "lock")
            /\ task'[u] = task[u] /\ next'[u] = next[u]
      BY <2>2, MainMovesNobody DEF claimVars, loopVars
    <3>4. \A u \in Worker : \A e \in Edges : Holds(u, e)' <=> Holds(u, e)
      BY <3>3 DEF Holds
    <3> QED  BY <3>1, <3>2, <3>4 DEF Resolved
  <2>3. ASSUME NEW t \in Worker,
               InMutex(t) \/ WorkerLocal(t) \/ WakeUnnotified(t)
        PROVE  /\ dependents' = dependents
               /\ \A e \in Edges : Resolved(e)' <=> Resolved(e)
    <3>1. dependents' = dependents
      BY <2>3, ThreadsLeaveTheFrame
    <3>2. \A u \in Worker \ {t} : \A e \in Edges :
            Holds(u, e)' <=> Holds(u, e)
      BY <2>3, OthersHold
    <3>3. CASE Count(t)
      <4>1. pc[t] = "count" /\ task[t] \in Job /\ task'[t] = task[t]
            /\ ~executed[task[t]]
        BY <2>3, <3>3, NotYetExecuted DEF Count, claimVars, Inside
      <4>2. CASE Completes(finishers[task[t]])
        <5>1. pc'[t] = "iterate"
              /\ executed' = [executed EXCEPT ![task[t]] = TRUE]
          BY <3>3, <4>2 DEF Count, Goto, Types
        <5>2. ASSUME NEW e \in Edges PROVE Resolved(e)' <=> Resolved(e)
          <6>1. CASE e[1] = task[t]
            <7>1. ~Resolved(e)
              BY <4>1, <6>1 DEF Resolved
            <7>2. Holds(t, e)'
              BY <4>1, <5>1, <6>1 DEF Holds
            <7> QED  BY <7>1, <7>2 DEF Resolved
          <6>2. CASE e[1] # task[t]
            <7>1. executed'[e[1]] = executed[e[1]]
              BY <5>1, <6>2 DEF Edges, Types
            <7>2. ~Holds(t, e) /\ ~Holds(t, e)'
              BY <4>1, <6>2 DEF Holds
            <7> QED  BY <3>2, <7>1, <7>2 DEF Resolved
          <6> QED  BY <6>1, <6>2
        <5> QED  BY <3>1, <5>2
      <4>3. CASE ~Completes(finishers[task[t]])
        <5>1. pc'[t] = "top" /\ executed' = executed
          BY <3>3, <4>3 DEF Count, Goto, Types
        <5>2. \A e \in Edges : ~Holds(t, e) /\ ~Holds(t, e)'
          BY <4>1, <5>1 DEF Holds
        <5> QED  BY <3>1, <3>2, <5>1, <5>2 DEF Resolved
      <4> QED  BY <4>2, <4>3
    <3>4. CASE ~Count(t)
      <4>1. executed' = executed
        BY <2>3, <3>4, ThreadsLeaveTheFrame
      <4>2. \A e \in Edges : Holds(t, e)' <=> Holds(t, e)
        BY <2>3, <3>4, HoldsKept
      <4> QED  BY <3>1, <3>2, <4>1, <4>2 DEF Resolved
    <3> QED  BY <3>3, <3>4
  <2> QED  BY <2>1, <2>2, <2>3 DEF Next
<1>2. Edges' = Edges /\ \A e \in Edges : Target(e)' = Target(e)
  BY <1>1 DEF Edges, Target
<1>3. ASSUME NEW k \in Job PROVE Unresolved(k)' = Unresolved(k)
  BY <1>1, <1>2 DEF Unresolved
<1> QED  BY <1>1, <1>3

\* Binding adds an edge that nobody has resolved.
LEMMA AddEdge ==
  ASSUME Types, Untouched, BoundFirst, AddDependent
  PROVE  LET e == <<Head(toBind)[1], Len(dependents[Head(toBind)[1]]) + 1>> IN
         /\ Head(toBind)[2] \in Job
         /\ e \notin Edges
         /\ \A d \in Edges' : ~Resolved(d)'
         /\ \A k \in Job : Unresolved(k)' =
              IF k = Head(toBind)[2] THEN Unresolved(k) \cup {e}
              ELSE Unresolved(k)
<1> DEFINE pre == Head(toBind)[1]
           post == Head(toBind)[2]
           e == <<pre, Len(dependents[pre]) + 1>>
<1>1. Head(toBind) \in Collision /\ toBind # <<>>
  BY HeadOfSeq DEF AddDependent, Types
<1>2. pre \in Job /\ post \in Job
  BY <1>1, Assumptions
<1>3. dependents' = [dependents EXCEPT ![pre] = Append(@, post)]
      /\ executed' = executed
  BY DEF AddDependent, flagVars
<1>4. \A j \in Job : dependents[j] \in Seq(Job)
  BY DEF Types
<1>5. \A j \in Job : ~executed[j]
  BY <1>1 DEF BoundFirst, Untouched
<1>6. \A j \in Job : dependents'[j] = IF j = pre THEN Append(dependents[j], post)
                                      ELSE dependents[j]
  BY <1>2, <1>3 DEF Types
<1> HIDE DEF pre, post
<1>7. ASSUME NEW n \in Job, NEW i \in Nat
      PROVE  /\ i \in 1..Len(dependents'[n]) <=>
                  i \in 1..Len(dependents[n]) \/ <<n, i>> = e
             /\ i \in 1..Len(dependents[n]) => dependents'[n][i] = dependents[n][i]
             /\ <<n, i>> = e => dependents'[n][i] = post
  <2>1. CASE n = pre
    <3>1. dependents[n] \in Seq(Job) /\ dependents'[n] = Append(dependents[n], post)
      BY <1>4, <1>6, <2>1
    <3>2. Len(dependents'[n]) = Len(dependents[n]) + 1 /\ Len(dependents[n]) \in Nat
      BY <1>2, <3>1
    <3>3. \A m \in 1..(Len(dependents[n]) + 1) :
            dependents'[n][m] = IF m = Len(dependents[n]) + 1 THEN post
                                ELSE dependents[n][m]
      BY <1>2, <3>1
    <3>4. <<n, i>> = e <=> i = Len(dependents[n]) + 1
      BY <2>1
    <3> QED  BY <3>2, <3>3, <3>4
  <2>2. CASE n # pre
    BY <1>6, <2>2
  <2> QED  BY <2>1, <2>2
<1>8. e \in Job \X Nat /\ e \notin Edges
  <2>1. Len(dependents[pre]) \in Nat
    BY <1>2, <1>4
  <2> QED  BY <1>2, <2>1 DEF Edges
<1> HIDE DEF e
<1>9. Edges' = Edges \cup {e}
  <2>1. ASSUME NEW d \in Job \X Nat
        PROVE  d \in Edges' <=> d \in Edges \/ d = e
    <3>1. d[1] \in Job /\ d[2] \in Nat /\ d = <<d[1], d[2]>>
      OBVIOUS
    <3>2. d[2] \in 1..Len(dependents'[d[1]]) <=>
            d[2] \in 1..Len(dependents[d[1]]) \/ d = e
      BY <1>7, <3>1
    <3> QED  BY <3>2 DEF Edges
  <2>2. Edges \subseteq Job \X Nat /\ Edges' \subseteq Job \X Nat
    BY DEF Edges
  <2> QED  BY <1>8, <2>1, <2>2
<1>10. \A d \in Edges : Target(d)' = Target(d)
  <2>1. ASSUME NEW d \in Edges PROVE dependents'[d[1]][d[2]] = dependents[d[1]][d[2]]
    <3>1. d[1] \in Job /\ d[2] \in Nat /\ d[2] \in 1..Len(dependents[d[1]])
      BY DEF Edges
    <3> QED  BY <1>7, <3>1
  <2> QED  BY <2>1 DEF Target
<1>11. dependents'[e[1]][e[2]] = post
  <2>1. e[1] \in Job /\ e[2] \in Nat /\ <<e[1], e[2]>> = e
    BY <1>8
  <2> QED  BY <1>7, <2>1
<1>12. \A d \in Edges : ~Resolved(d)
  BY <1>5 DEF Resolved, Edges
<1>13. \A d \in Edges' : ~Resolved(d)'
  BY <1>3, <1>5 DEF Resolved, Edges
<1>14. ASSUME NEW k \in Job
       PROVE  Unresolved(k)' = IF k = post THEN Unresolved(k) \cup {e}
                               ELSE Unresolved(k)
  <2>1. Unresolved(k) = {d \in Edges : Target(d) = k}
    BY <1>12 DEF Unresolved
  <2>2. Unresolved(k)' = {d \in Edges' : dependents'[d[1]][d[2]] = k}
    BY <1>13 DEF Unresolved, Target
  <2>3. \A d \in Edges : dependents'[d[1]][d[2]] = Target(d)
    BY <1>10 DEF Target
  <2> QED  BY <1>9, <1>11, <2>1, <2>2, <2>3
<1> QED  BY <1>2, <1>8, <1>13, <1>14 DEF e, pre, post

\* Resolving takes one edge away.
LEMMA ResolveEdge ==
  ASSUME Types, InReach, IteratesOnce, NEW t \in Worker, Resolve(t),
         NEW e, e = <<task[t], next[t]>>
  PROVE  /\ Dependent(t) \in Job /\ e \in Edges /\ Target(e) = Dependent(t)
         /\ ~Resolved(e) /\ Resolved(e)'
         /\ dependents' = dependents
         /\ \A d \in Edges \ {e} : Resolved(d)' <=> Resolved(d)
         /\ \A k \in Job : Unresolved(k)' =
              IF k = Dependent(t) THEN Unresolved(k) \ {e} ELSE Unresolved(k)
<1>1. /\ pc[t] = "resolve" /\ next[t] <= last[t] /\ task'[t] = task[t]
      /\ dependents' = dependents /\ executed' = executed
      /\ \/ pc'[t] = "reset" /\ next'[t] = next[t]
         \/ pc'[t] = "resolve" /\ next'[t] = next[t] + 1
  BY DEF Resolve, Goto, claimVars, Types
<1>2. task[t] \in Job /\ e \in Edges /\ Dependent(t) \in Job
      /\ Target(e) = Dependent(t)
  BY <1>1, DependentReal DEF Target, Dependent
<1>3. executed[task[t]]
  BY <1>1 DEF IteratesOnce, Iterating
<1>4. next[t] \in Nat /\ e[1] = task[t] /\ e[2] = next[t]
  BY DEF Types
<1>5. \A u \in Worker \ {t} : \A d \in Edges : Holds(u, d)' <=> Holds(u, d)
  BY OthersHold DEF WorkerLocal
<1>6. ASSUME NEW d \in Edges, d # e PROVE Holds(t, d)' <=> Holds(t, d)
  <2>1. d[2] \in Nat /\ d = <<d[1], d[2]>>
    BY DEF Edges
  <2>2. d[1] = task[t] => d[2] # next[t]
    BY <1>6, <2>1
  <2> QED  BY <1>1, <1>4, <2>1, <2>2 DEF Holds
<1>7. ~Resolved(e)
  BY <1>1, <1>4 DEF Resolved, Holds
<1>8. Resolved(e)'
  <2>1. ASSUME NEW u \in Worker PROVE ~Holds(u, e)'
    <3>1. CASE u = t
      <4>1. ~(next[t] < next[t]) /\ ~(next[t] + 1 <= next[t])
        BY <1>4
      <4> QED  BY <1>1, <1>4, <3>1, <4>1 DEF Holds
    <3>2. CASE u # t
      <4>1. pc[u] \in Iterating => task[u] # task[t]
        BY <1>1, <3>2 DEF IteratesOnce, Iterating
      <4>2. ~Holds(u, e)
        BY <1>4, <4>1 DEF Holds, Iterating
      <4> QED  BY <1>2, <1>5, <3>2, <4>2
    <3> QED  BY <3>1, <3>2
  <2>2. executed'[e[1]]
    BY <1>1, <1>3, <1>4
  <2> QED  BY <2>1, <2>2 DEF Resolved
<1>9. \A d \in Edges \ {e} : Resolved(d)' <=> Resolved(d)
  BY <1>1, <1>5, <1>6 DEF Resolved
<1>10. Edges' = Edges /\ \A d \in Edges : Target(d)' = Target(d)
  BY <1>1 DEF Edges, Target
<1>11. ASSUME NEW k \in Job
       PROVE  Unresolved(k)' = IF k = Dependent(t) THEN Unresolved(k) \ {e}
                               ELSE Unresolved(k)
  <2>1. \A d \in Edges : (Target(d)' = k /\ ~Resolved(d)') <=>
          Target(d) = k /\ ~Resolved(d) /\ d # e
    BY <1>7, <1>8, <1>9, <1>10
  <2>2. Unresolved(k)' = {d \in Edges : Target(d) = k /\ ~Resolved(d) /\ d # e}
    BY <1>10, <2>1 DEF Unresolved
  <2>3. e \in Unresolved(k) => k = Dependent(t)
    BY <1>2 DEF Unresolved
  <2> QED  BY <2>2, <2>3 DEF Unresolved
<1> QED  BY <1>1, <1>2, <1>7, <1>8, <1>9, <1>11

\* Who goes over a node's edges did so before, or has just completed it.
LEMMA IteratingOrigin ==
  ASSUME Types, InReach, [Next]_vars, NEW u \in Worker, pc'[u] \in Iterating
  PROVE  /\ task'[u] = task[u]
         /\ \/ pc[u] \in Iterating /\ last'[u] = last[u] /\ pc[u] # "iterate"
               /\ (pc'[u] = "reset" => pc[u] = "reset" \/ Resolve(u))
               /\ (pc'[u] = "reset" /\ ~Resolve(u) => next'[u] = next[u])
            \/ pc[u] = "iterate" /\ pc'[u] = "iterate"
            \/ pc[u] = "iterate" /\ pc'[u] = "resolve"
               /\ last'[u] = Len(dependents[task[u]])
            \/ pc'[u] = "iterate" /\ Count(u) /\ executed'[task[u]]
<1>1. CASE UNCHANGED vars
  BY <1>1 DEF vars, claimVars, loopVars, Iterating
<1>2. CASE HostCall \/ MainLocal \/ Dispatch
  <2>1. /\ pc'[u] = pc[u] \/ pc'[u] = "lock"
        /\ task'[u] = task[u] /\ last'[u] = last[u] /\ next'[u] = next[u]
    BY <1>2, MainMovesNobody DEF claimVars, loopVars
  <2> QED  BY <2>1 DEF Iterating
<1>3. ASSUME NEW t \in Worker,
             InMutex(t) \/ WorkerLocal(t) \/ WakeUnnotified(t), u # t
      PROVE  /\ pc'[u] = pc[u] /\ task'[u] = task[u]
             /\ last'[u] = last[u] /\ next'[u] = next[u]
  <2>1. /\ pc'[u] = pc[u] \/ pc'[u] = "lock"
        /\ task'[u] = task[u] /\ last'[u] = last[u] /\ next'[u] = next[u]
    BY <1>3, OthersStay
  <2> QED  BY <2>1 DEF Iterating
<1>4. CASE InMutex(u) \/ WorkerLocal(u) \/ WakeUnnotified(u)
  <2> USE DEF Types, Goto, Iterating
  <2>1. CASE Leave(u) \/ GoToSleep(u) \/ Sleep(u) \/ WakeUnnotified(u)
             \/ Erase(u) \/ Top(u) \/ Scan(u) \/ Steal(u) \/ RunSpan(u)
    <3>1. pc'[u] \in {"exited", "blocking", "asleep", "lock", "top", "steal",
                      "run", "count"}
      BY <2>1 DEF Leave, GoToSleep, Sleep, WakeUnnotified, Erase, Top, Scan,
         Steal, RunSpan
    <3> QED  BY <3>1
  <2>2. CASE Count(u)
    <3>1. task[u] \in Job /\ task'[u] = task[u]
      BY <2>2 DEF Count, InReach, Pending, claimVars
    <3>2. pc'[u] = "iterate" /\ executed'[task[u]]
      BY <2>2, <3>1 DEF Count
    <3> QED  BY <2>2, <3>1, <3>2
  <2>3. CASE Iterate(u)
    BY <2>3 DEF Iterate, claimVars
  <2>4. CASE Resolve(u)
    BY <2>4 DEF Resolve, claimVars
  <2>5. CASE Reset(u) \/ Push(u)
    BY <2>5 DEF Reset, Push, Woken, claimVars, loopVars
  <2>6. CASE EndResolve(u)
    BY <2>6 DEF EndResolve
  <2> QED  BY <1>4, <2>1, <2>2, <2>3, <2>4, <2>5, <2>6 DEF InMutex, WorkerLocal
<1> QED  BY <1>1, <1>2, <1>3, <1>4 DEF Next, Iterating

LEMMA IteratesOnceKept ==
  ASSUME Types, InReach, Untouched, Finishing, BoundFirst, IteratesOnce,
         DispatchedOnce, [Next]_vars
  PROVE  IteratesOnce'
<1>1. ASSUME NEW u \in Worker, pc'[u] \in Iterating
      PROVE  /\ task'[u] \in Job /\ task'[u] = task[u] /\ pc[u] \in Pending
             /\ executed'[task'[u]]
             /\ pc'[u] # "iterate" => last'[u] = Len(dependents'[task'[u]])
             /\ pc[u] \in Iterating \/ Count(u)
  <2>1. pc[u] \in Iterating \/ Count(u)
    BY <1>1, IteratingOrigin DEF Iterating
  <2>2. pc[u] \in Pending /\ task[u] \in Job /\ task'[u] = task[u]
    BY <1>1, <2>1, IteratingOrigin DEF InReach, Pending, Iterating, Count
  <2>3. dependents' = dependents
    <3>1. ~AddDependent
      BY <2>2, WorkMeansBound DEF AddDependent
    <3>2. CASE UNCHANGED vars
      BY <3>2 DEF vars, graphVars
    <3>3. CASE HostCall \/ MainLocal \/ Dispatch
      BY <3>1, <3>3 DEF HostCall, MainLocal, Submit, SetTerminate,
         CountDependency, LookAt, Slide, Wait, WaitReturns, NotifyStop, Joined,
         Dispatch, graphVars
    <3> QED  BY <3>2, <3>3, ThreadsLeaveTheFrame DEF Next
  <2>4. executed'[task[u]]
    <3>1. pc[u] \in Iterating => executed[task[u]]
      BY DEF IteratesOnce
    <3>2. executed[task[u]] => executed'[task[u]]
      BY <2>2, FlagsRise
    <3> QED  BY <1>1, <3>1, <3>2, IteratingOrigin DEF Iterating
  <2>5. pc'[u] # "iterate" => last'[u] = Len(dependents[task[u]])
    BY <1>1, IteratingOrigin DEF IteratesOnce, Iterating
  <2> QED  BY <2>1, <2>2, <2>3, <2>4, <2>5
<1>2. ASSUME NEW u \in Worker, NEW v \in Worker, pc'[u] \in Iterating,
             pc'[v] \in Iterating, task'[u] = task'[v], u # v
      PROVE  FALSE
  <2>1. task[u] = task[v]
    BY <1>1, <1>2
  <2>2. ~(pc[u] \in Iterating /\ pc[v] \in Iterating)
    BY <1>2, <2>1 DEF IteratesOnce
  <2>3. ~(Count(u) /\ Count(v))
    <3>1. CASE pc'[u] = "iterate" /\ pc'[v] = "iterate"
      <4> SUFFICES ASSUME Count(u) PROVE ~Count(v)
        OBVIOUS
      <4>1. pc[v] = pc'[v]
        BY <1>2 DEF Count, Goto, Types
      <4> QED  BY <3>1, <4>1 DEF Count
    <3>2. CASE pc'[u] # "iterate" \/ pc'[v] # "iterate"
      BY <1>2, <3>2, IteratingOrigin DEF Count, Iterating
    <3> QED  BY <3>1, <3>2
  <2>4. ASSUME NEW a \in Worker, NEW b \in Worker, task[a] = task[b],
               pc[a] \in Iterating, Count(b)
        PROVE  FALSE
    <3>1. ~executed[task[b]]
      BY <2>4, NotYetExecuted DEF Count, Inside
    <3> QED  BY <2>4, <3>1 DEF IteratesOnce
  <2> QED  BY <1>1, <1>2, <2>1, <2>2, <2>3, <2>4
<1> QED  BY <1>1, <1>2 DEF IteratesOnce

LEMMA EdgesCountedKept ==
  ASSUME MaxFrames = 1, Types, InReach, Untouched, Finishing, OneFrame,
         EdgesCounted, IteratesOnce, DispatchedOnce, [Next]_vars
  PROVE  EdgesCounted'
<1>0. BoundFirst
  BY DEF OneFrame
<1>1. ASSUME NEW k \in Job
      PROVE  /\ inDegree[k] \in Int
             /\ IsFiniteSet(Unresolved(k))
             /\ inDegree[k] + Uncounted(k) = Cardinality(Unresolved(k))
             /\ Cardinality(Unresolved(k)) \in Nat
  <2>1. IsFiniteSet(Unresolved(k))
        /\ inDegree[k] + Uncounted(k) = Cardinality(Unresolved(k))
    BY DEF EdgesCounted
  <2>2. Cardinality(Unresolved(k)) \in Nat
    BY <2>1, FS_CardinalityType
  <2> QED  BY <2>1, <2>2 DEF Types
<1>2. CASE AddDependent
  <2> DEFINE post == Head(toBind)[2]
             e == <<Head(toBind)[1], Len(dependents[Head(toBind)[1]]) + 1>>
  <2>1. post \in Job /\ e \notin Edges
        /\ \A k \in Job : Unresolved(k)' = IF k = post THEN Unresolved(k) \cup {e}
                                           ELSE Unresolved(k)
    BY <1>0, <1>2, AddEdge
  <2>2. main = "binding" /\ main' = "counting" /\ toBind' = toBind
        /\ inDegree' = inDegree
    BY <1>2 DEF AddDependent, frameVars
  <2> HIDE DEF e
  <2>3. ASSUME NEW k \in Job
        PROVE  /\ IsFiniteSet(Unresolved(k)')
               /\ inDegree'[k] + Uncounted(k)' = Cardinality(Unresolved(k)')
    <3>1. Uncounted(k) = 0 /\ Uncounted(k)' = IF post = k THEN 1 ELSE 0
      BY <2>2 DEF Uncounted
    <3>2. CASE k = post
      <4>1. e \notin Unresolved(k)
        BY <2>1 DEF Unresolved
      <4>2. IsFiniteSet(Unresolved(k) \cup {e})
            /\ Cardinality(Unresolved(k) \cup {e}) = Cardinality(Unresolved(k)) + 1
        BY <1>1, <4>1, FS_AddElement
      <4> QED  BY <1>1, <2>1, <2>2, <3>1, <3>2, <4>2
    <3>3. CASE k # post
      BY <1>1, <2>1, <2>2, <3>1, <3>3
    <3> QED  BY <3>2, <3>3
  <2> QED  BY <2>3 DEF EdgesCounted
<1>3. ASSUME NEW t \in Worker, Resolve(t)
      PROVE  EdgesCounted'
  <2>1. PICK e : e = <<task[t], next[t]>>
    OBVIOUS
  <2>2. /\ Dependent(t) \in Job /\ e \in Edges /\ Target(e) = Dependent(t)
        /\ ~Resolved(e)
        /\ \A k \in Job : Unresolved(k)' =
             IF k = Dependent(t) THEN Unresolved(k) \ {e} ELSE Unresolved(k)
    BY <1>3, <2>1, ResolveEdge
  <2>3. inDegree' = [inDegree EXCEPT ![Dependent(t)] = @ - 1]
        /\ main' = main /\ toBind' = toBind
    BY <1>3 DEF Resolve, Dependent, frameVars
  <2>4. main # "counting"
    BY <1>0, <1>3, WorkMeansBound DEF Resolve, Pending
  <2>5. ASSUME NEW k \in Job
        PROVE  /\ IsFiniteSet(Unresolved(k)')
               /\ inDegree'[k] + Uncounted(k)' = Cardinality(Unresolved(k)')
    <3>1. Uncounted(k) = 0 /\ Uncounted(k)' = 0
      BY <2>3, <2>4 DEF Uncounted
    <3>2. inDegree'[k] = IF k = Dependent(t) THEN inDegree[k] - 1
                         ELSE inDegree[k]
      BY <2>3 DEF Types
    <3>3. CASE k = Dependent(t)
      <4>1. e \in Unresolved(k)
        BY <2>2, <3>3 DEF Unresolved
      <4>2. IsFiniteSet(Unresolved(k) \ {e})
            /\ Cardinality(Unresolved(k) \ {e}) = Cardinality(Unresolved(k)) - 1
        BY <1>1, <4>1, FS_RemoveElement
      <4>3. Unresolved(k)' = Unresolved(k) \ {e} /\ inDegree'[k] = inDegree[k] - 1
        BY <2>2, <3>2, <3>3
      <4>4. inDegree[k] \in Int /\ inDegree[k] + 0 = Cardinality(Unresolved(k))
        BY <1>1, <3>1
      <4> QED  BY <3>1, <4>2, <4>3, <4>4
    <3>4. CASE k # Dependent(t)
      BY <1>1, <2>2, <3>1, <3>2, <3>4
    <3> QED  BY <3>3, <3>4
  <2> QED  BY <2>5 DEF EdgesCounted
<1>4. CASE ~AddDependent /\ \A t \in Worker : ~Resolve(t)
  <2>1. \A k \in Job : Unresolved(k)' = Unresolved(k)
    BY <1>4, EdgesStay
  <2>2. CASE CountDependency
    <3>1. main = "counting" /\ main' = "binding"
          /\ inDegree' = [inDegree EXCEPT ![Head(toBind)[2]] = @ + 1]
      BY <2>2 DEF CountDependency
    <3>2. ASSUME NEW k \in Job
          PROVE  inDegree'[k] + Uncounted(k)' = inDegree[k] + Uncounted(k)
      <4>1. Uncounted(k) = (IF Head(toBind)[2] = k THEN 1 ELSE 0)
            /\ Uncounted(k)' = 0
        BY <3>1 DEF Uncounted
      <4>2. inDegree'[k] = IF Head(toBind)[2] = k THEN inDegree[k] + 1
                           ELSE inDegree[k]
        BY <3>1 DEF Types
      <4> QED  BY <1>1, <4>1, <4>2
    <3> QED  BY <1>1, <2>1, <3>2 DEF EdgesCounted
  <2>3. CASE ~CountDependency
    <3>1. inDegree' = inDegree
          /\ \/ main' # "counting" /\ main # "counting"
             \/ main' = main /\ toBind' = toBind
      <4>1. CASE UNCHANGED vars
        BY <4>1 DEF vars, graphVars, frameVars
      <4>2. CASE HostCall \/ MainLocal \/ Dispatch
        BY <1>4, <2>3, <4>2 DEF HostCall, MainLocal, Submit, SetTerminate,
           LookAt, Slide, Wait, WaitReturns, NotifyStop, Joined, Dispatch,
           graphVars
      <4>3. ASSUME NEW t \in Worker,
                   InMutex(t) \/ WorkerLocal(t) \/ WakeUnnotified(t)
            PROVE  inDegree' = inDegree /\ main' = main /\ toBind' = toBind
        BY <1>4, <4>3, ThreadsLeaveTheFrame DEF frameVars
      <4> QED  BY <4>1, <4>2, <4>3 DEF Next
    <3>2. \A k \in Job : Uncounted(k)' = Uncounted(k)
      BY <3>1 DEF Uncounted
    <3> QED  BY <1>1, <2>1, <3>1, <3>2 DEF EdgesCounted
  <2> QED  BY <2>2, <2>3
<1> QED  BY <1>2, <1>3, <1>4

LEMMA FreeToRunKept ==
  ASSUME MaxFrames = 1, Types, InReach, Untouched, Finishing, OneFrame,
         EdgesCounted, IteratesOnce, FreeToRun, DispatchedOnce, [Next]_vars
  PROVE  FreeToRun'
<1>0. BoundFirst
  BY DEF OneFrame
<1>1. ASSUME NEW k \in Job, Unresolved(k) = {}, dispatched[k] # 0 \/ ~AddDependent
      PROVE  Unresolved(k)' = {}
  <2>1. ~AddDependent
    BY <1>0, <1>1 DEF AddDependent, BoundFirst
  <2>2. CASE \A t \in Worker : ~Resolve(t)
    BY <1>1, <2>1, <2>2, EdgesStay
  <2>3. ASSUME NEW t \in Worker, Resolve(t) PROVE Unresolved(k)' = {}
    <3>1. PICK e : e = <<task[t], next[t]>>
      OBVIOUS
    <3> QED  BY <1>1, <2>3, <3>1, ResolveEdge
  <2> QED  BY <2>2, <2>3
<1>2. ASSUME NEW k \in Job, dispatched'[k] # 0 PROVE Unresolved(k)' = {}
  <2>1. CASE dispatched[k] # 0
    BY <1>1, <2>1 DEF FreeToRun
  <2>2. CASE LookAt /\ Dispatchable(k)
    <3>1. main = "binding" /\ inDegree[k] = 0 /\ ~AddDependent
      BY <2>2 DEF LookAt, Dispatchable, AddDependent
    <3>2. IsFiniteSet(Unresolved(k)) /\ Cardinality(Unresolved(k)) = 0
      BY <3>1 DEF EdgesCounted, Uncounted
    <3>3. Unresolved(k) = {}
      BY <3>2, FS_EmptySet
    <3> QED  BY <1>1, <3>1, <3>3
  <2>3. ASSUME NEW t \in Worker, Reset(t), k = Dependent(t)
        PROVE  Unresolved(k)' = {}
    <3>1. Unresolved(Dependent(t)) = {} /\ ~AddDependent
      BY <1>0, <2>3, WorkMeansBound DEF FreeToRun, Reset, Pending, AddDependent
    <3> QED  BY <1>1, <2>3, <3>1
  <2> QED  BY <1>2, <2>1, <2>2, <2>3, DispatchOrigin
<1>3. ASSUME NEW u \in Worker, pc'[u] = "reset"
      PROVE  Unresolved(Dependent(u))' = {}
  <2>1. task'[u] = task[u] /\ (pc[u] = "reset" \/ Resolve(u))
    BY <1>3, IteratingOrigin DEF Iterating
  <2>2. pc[u] \in Pending
    BY <2>1 DEF Resolve, Pending
  <2>3. /\ Dependent(u) \in Job /\ task[u] \in Job
        /\ next[u] \in 1..Len(dependents[task[u]])
    BY <2>1, DependentReal DEF Resolve
  <2>4. ~AddDependent
    BY <1>0, <2>2, WorkMeansBound DEF AddDependent
  <2>5. next'[u] = next[u]
    <3>1. CASE Resolve(u)
      BY <1>3, <3>1 DEF Resolve, Types, Goto
    <3>2. CASE ~Resolve(u)
      BY <1>3, <3>2, IteratingOrigin DEF Iterating
    <3> QED  BY <3>1, <3>2
  <2>6. dependents'[task[u]][next[u]] = dependents[task[u]][next[u]]
    BY <2>3, DependentsGrow
  <2>7. Dependent(u)' = Dependent(u)
    BY <2>1, <2>5, <2>6 DEF Dependent
  <2>8. PICK k \in Job : k = Dependent(u)
    BY <2>3
  <2>9. Unresolved(k)' = {}
    <3>1. CASE Resolve(u)
      <4>1. PICK e : e = <<task[u], next[u]>>
        OBVIOUS
      <4>2. /\ e \in Edges /\ Target(e) = k /\ ~Resolved(e)
            /\ Unresolved(k)' = Unresolved(k) \ {e}
        BY <2>8, <3>1, <4>1, ResolveEdge
      <4>3. inDegree[k] = 1
        <5>1. Freed(inDegree[Dependent(u)])
          BY <1>3, <3>1 DEF Resolve, Dependent, Types
        <5> QED  BY <2>8, <5>1 DEF Freed
      <4>4. main # "counting"
        BY <1>0, <2>2, WorkMeansBound
      <4>5. IsFiniteSet(Unresolved(k)) /\ Cardinality(Unresolved(k)) = 1
        BY <4>3, <4>4 DEF EdgesCounted, Uncounted
      <4>6. e \in Unresolved(k)
        BY <4>2 DEF Unresolved
      <4>7. IsFiniteSet(Unresolved(k) \ {e})
            /\ Cardinality(Unresolved(k) \ {e}) = 0
        BY <4>5, <4>6, FS_RemoveElement
      <4> QED  BY <4>2, <4>7, FS_EmptySet
    <3>2. CASE ~Resolve(u)
      <4>1. Unresolved(k) = {}
        BY <2>1, <2>8, <3>2 DEF FreeToRun
      <4> QED  BY <1>1, <2>4, <4>1
    <3> QED  BY <3>1, <3>2
  <2>10. Unresolved(k)' = Unresolved(Dependent(u))'
    BY <2>7, <2>8
  <2> QED  BY <2>9, <2>10
<1> QED  BY <1>2, <1>3 DEF FreeToRun

\* Who runs a job's spans did so before, or has just found it eligible.
LEMMA RunningOrigin ==
  ASSUME Types, InReach, [Next]_vars, NEW u \in Worker,
         pc'[u] \in {"steal", "run"}
  PROVE  \/ pc[u] \in {"steal", "run"} /\ task'[u] = task[u]
         \/ Scan(u) /\ Eligible(task'[u])
<1>1. CASE UNCHANGED vars
  BY <1>1 DEF vars, claimVars
<1>2. CASE HostCall \/ MainLocal \/ Dispatch
  <2>1. /\ pc'[u] = pc[u] \/ pc'[u] = "lock"
        /\ task'[u] = task[u]
    BY <1>2, MainMovesNobody DEF claimVars
  <2> QED  BY <2>1
<1>3. ASSUME NEW t \in Worker,
             InMutex(t) \/ WorkerLocal(t) \/ WakeUnnotified(t), u # t
      PROVE  pc'[u] = pc[u] /\ task'[u] = task[u]
  <2>1. /\ pc'[u] = pc[u] \/ pc'[u] = "lock"
        /\ task'[u] = task[u]
    BY <1>3, OthersStay
  <2> QED  BY <2>1
<1>4. CASE InMutex(u) \/ WorkerLocal(u) \/ WakeUnnotified(u)
  <2>1. CASE Scan(u)
    <3> DEFINE found == Selected(activeJobs, {j \in Job : Eligible(j)})
    <3>1. found # <<>> /\ task'[u] = Head(found)
      BY <2>1 DEF Scan, Goto, Types
    <3>2. found \in Seq(Range(activeJobs) \cap {j \in Job : Eligible(j)})
      BY SelectedTyped DEF Types
    <3> HIDE DEF found
    <3>3. Head(found) \in {j \in Job : Eligible(j)}
      BY <3>1, <3>2, HeadOfSeq
    <3> QED  BY <2>1, <3>1, <3>3
  <2>2. CASE Steal(u)
    BY <2>2 DEF Steal
  <2>3. CASE ~Scan(u) /\ ~Steal(u)
    <3> USE DEF Types, Goto
    <3>1. CASE Leave(u) \/ GoToSleep(u) \/ Sleep(u) \/ WakeUnnotified(u)
               \/ Erase(u) \/ Top(u)
      BY <3>1 DEF Leave, GoToSleep, Sleep, WakeUnnotified, Erase, Top
    <3>2. CASE RunSpan(u) \/ Count(u) \/ Iterate(u) \/ Resolve(u) \/ Reset(u)
               \/ Push(u) \/ EndResolve(u)
      BY <3>2 DEF RunSpan, Count, Iterate, Resolve, Reset, Push, Woken,
         EndResolve
    <3> QED  BY <1>4, <2>3, <3>1, <3>2 DEF InMutex, WorkerLocal
  <2> QED  BY <2>1, <2>2, <2>3
<1> QED  BY <1>1, <1>2, <1>3, <1>4 DEF Next

LEMMA PoisonedKept ==
  ASSUME MaxFrames = 1, Types, InReach, Untouched, Finishing, OneFrame,
         IteratesOnce, FreeToRun, Poisoned, DispatchedOnce, [Next]_vars
  PROVE  Poisoned'
<1>0. BoundFirst
  BY DEF OneFrame
<1>1. CASE AddDependent
  <2>1. \A d \in Edges' : ~Resolved(d)'
    BY <1>0, <1>1, AddEdge
  <2>2. toBind # <<>> /\ pc' = pc
    BY <1>1 DEF AddDependent
  <2>3. \A u \in Worker : pc'[u] \notin {"steal", "run"}
    BY <1>0, <2>2, WorkMeansBound DEF Pending
  <2> QED  BY <2>1, <2>3 DEF Poisoned
<1>2. ASSUME NEW t \in Worker, Resolve(t) PROVE Poisoned'
  <2>1. PICK e : e = <<task[t], next[t]>>
    OBVIOUS
  <2>2. PICK dep \in Job : dep = Dependent(t)
    BY <1>2, DependentReal DEF Resolve
  <2>3. /\ e \in Edges /\ Target(e) = dep /\ ~Resolved(e)
        /\ dependents' = dependents
        /\ \A d \in Edges \ {e} : Resolved(d)' <=> Resolved(d)
    BY <1>2, <2>1, <2>2, ResolveEdge
  <2>4. /\ aborted' = [aborted EXCEPT ![dep] = @ \/ Poisons(task[t])]
        /\ failed' = failed /\ executed' = executed
    BY <1>2, <2>2 DEF Resolve, Dependent
  <2>5. dispatched[dep] = 0
    BY <2>3 DEF FreeToRun, Unresolved
  <2>6. ~executed[dep] /\ \A u \in Worker : ~(pc[u] \in Pending /\ task[u] = dep)
    BY <2>5 DEF Untouched, At
  <2>7. \A j \in Job \ {dep} : aborted'[j] = aborted[j]
    BY <2>4 DEF Types
  <2>8. task[t] \in Job /\ task[t] # dep
    BY <1>2, <2>6 DEF Resolve, Pending, InReach
  <2>9. Edges' = Edges /\ \A d \in Edges : Target(d)' = Target(d)
    BY <2>3 DEF Edges, Target
  <2>10. ASSUME NEW d \in Edges, Resolved(d)', failed'[d[1]] \/ aborted'[d[1]]
         PROVE  aborted'[Target(d)]
    <3>1. CASE d = e
      <4>1. d[1] = task[t] /\ Target(d) = dep
        BY <2>1, <2>3, <3>1
      <4>2. Poisons(task[t])
        BY <2>4, <2>7, <2>8, <2>10, <4>1 DEF Poisons
      <4> QED  BY <2>4, <4>1, <4>2 DEF Types
    <3>2. CASE d # e
      <4>1. Resolved(d)
        BY <2>3, <2>10, <3>2
      <4>2. d[1] \in Job /\ d[1] # dep
        BY <2>6, <4>1 DEF Resolved, Edges
      <4>3. aborted[Target(d)]
        BY <2>4, <2>7, <2>10, <4>1, <4>2 DEF Poisoned
      <4>4. Target(d) \in Job
        <5>1. dependents[d[1]] \in Seq(Job) /\ d[2] \in 1..Len(dependents[d[1]])
          BY <4>2 DEF Types, Edges
        <5> QED  BY <5>1 DEF Target
      <4> QED  BY <4>3, <4>4, FlagsRise
    <3> QED  BY <3>1, <3>2
  <2>11. ASSUME NEW u \in Worker, pc'[u] \in {"steal", "run"}
         PROVE  ~aborted'[task'[u]]
    <3>1. ~Scan(u)
      BY <1>2, <2>11 DEF Resolve, Scan, Goto, Types
    <3>2. pc[u] \in {"steal", "run"} /\ task'[u] = task[u]
      BY <2>11, <3>1, RunningOrigin
    <3>3. task[u] \in Job /\ task[u] # dep
      BY <2>6, <3>2 DEF InReach, Pending
    <3> QED  BY <2>7, <3>2, <3>3 DEF Poisoned
  <2>12. ASSUME NEW d \in Edges' PROVE (Resolved(d) /\ (failed[d[1]] \/ aborted[d[1]]) => aborted[Target(d)])'
    BY <2>9, <2>10
  <2> QED  BY <2>11, <2>12 DEF Poisoned
<1>3. CASE ~AddDependent /\ \A t \in Worker : ~Resolve(t)
  <2>1. /\ dependents' = dependents
        /\ \A e \in Edges : Resolved(e)' <=> Resolved(e)
    BY <1>3, EdgesStay
  <2>2. Edges' = Edges /\ \A d \in Edges : Target(d)' = Target(d)
    BY <2>1 DEF Edges, Target
  <2>3. aborted' = aborted
    <3>1. CASE UNCHANGED vars
      BY <3>1 DEF vars, flagVars
    <3>2. CASE HostCall \/ MainLocal \/ Dispatch
      BY <3>2, MainMovesNobody DEF flagVars
    <3> QED  BY <1>3, <3>1, <3>2, ThreadsLeaveTheFrame DEF Next
  <2>4. ASSUME NEW d \in Edges, Resolved(d) PROVE failed'[d[1]] => failed[d[1]]
    <3>1. d[1] \in Job /\ executed[d[1]]
      BY <2>4 DEF Edges, Resolved
    <3>2. ASSUME NEW t \in Worker, RunSpan(t)
          PROVE  failed'[d[1]] => failed[d[1]]
      <4>1. task[t] \in Job /\ task[t] # d[1]
        BY <3>1, <3>2, NotYetExecuted DEF RunSpan, Inside
      <4> QED  BY <3>1, <3>2, <4>1 DEF RunSpan, Types
    <3>3. CASE UNCHANGED vars
      BY <3>3 DEF vars, flagVars
    <3>4. CASE HostCall \/ MainLocal \/ Dispatch
      BY <3>4, MainMovesNobody DEF flagVars
    <3> QED  BY <3>2, <3>3, <3>4, ThreadsLeaveTheFrame DEF Next
  <2>5. ASSUME NEW d \in Edges'
        PROVE (Resolved(d) /\ (failed[d[1]] \/ aborted[d[1]]) => aborted[Target(d)])'
    <3>1. d \in Edges /\ Target(d)' = Target(d) /\ (Resolved(d)' <=> Resolved(d))
      BY <2>1, <2>2
    <3> QED  BY <2>3, <2>4, <3>1 DEF Poisoned
  <2>6. ASSUME NEW u \in Worker, pc'[u] \in {"steal", "run"}
        PROVE  ~aborted'[task'[u]]
    BY <2>3, <2>6, RunningOrigin DEF Poisoned, Eligible
  <2> QED  BY <2>5, <2>6 DEF Poisoned
<1> QED  BY <1>1, <1>2, <1>3

-----------------------------------------------------------------------------
(* The theorems. *)

LEMMA InitPoolInv == Init => PoolInv
<1> SUFFICES ASSUME Init PROVE PoolInv
  OBVIOUS
<1>1. Types /\ Paced /\ InReach
  BY InitPool
<1>2. \A j \in Job : \A P \in SUBSET Pending : At(j, P) = {}
  BY DEF Init, At, Pending
<1>3. \A j \in Job :
        /\ nextSpan[j] = 0 /\ finishers[j] = 0 /\ ~executed[j] /\ ~failed[j]
        /\ \A s \in 0..(Spans - 1) : ran[j][s] = 0
  BY DEF Init
<1>4. Cardinality({}) = 0
  BY FS_EmptySet
<1>5. ClaimsBounded
  <2>1. \A t \in Worker : span[t] = 0
    BY DEF Init
  <2>2. \A j \in Job : Cardinality(At(j, {"steal"})) = 0
    BY <1>2, <1>4 DEF Pending
  <2> QED  BY <1>3, <2>1, <2>2, Assumptions DEF ClaimsBounded
<1>6. Untouched
  <2>1. Range(activeJobs) = {}
    BY DEF Init, Range
  <2>2. main # "pushing" /\ \A t \in Worker : pc[t] # "push"
    BY DEF Init
  <2> QED  BY <1>2, <1>3, <2>1, <2>2 DEF Untouched
<1>7. Claims
  <2>1. \A j \in Job : At(j, {"run"}) = {}
    BY <1>2 DEF Pending
  <2> QED  BY <1>3, <2>1, Assumptions DEF Claims, ClaimsOf
<1>8. Finishing
  <2>1. \A j \in Job : Cardinality(At(j, Inside)) = 0
    BY <1>2, <1>4 DEF Pending, Inside
  <2>2. \A j \in Job : At(j, {"count"}) = {}
    BY <1>2 DEF Pending
  <2> QED  BY <1>3, <2>1, <2>2, Assumptions DEF Finishing, FinishingOf
<1>9. SleepersHaveNothingToDo
  BY DEF Init, SleepersHaveNothingToDo
<1> QED  BY <1>1, <1>5, <1>6, <1>7, <1>8, <1>9 DEF PoolInv

\* The inductive invariant of the pool: a job nobody handed out is untouched,
\* and the spans of one handed out once are with who claimed them or done.
THEOREM PoolInvariant == Spec => []PoolInv
<1>1. PoolInv /\ [Next]_vars => PoolInv'
  <2> SUFFICES ASSUME PoolInv, [Next]_vars PROVE PoolInv'
    OBVIOUS
  <2>1. Types /\ Paced /\ InReach /\ ClaimsBounded /\ Untouched /\ Claims
        /\ Finishing /\ SleepersHaveNothingToDo
    BY DEF PoolInv
  <2>2. Types' /\ Paced'
    BY <2>1, TypesKept
  <2>3. InReach'
    BY <2>1, <2>2, InReachKept
  <2>4. ClaimsBounded'
    BY <2>1, <2>2, ClaimsBoundedKept
  <2>5. Untouched'
    BY <2>1, <2>2, <2>3, UntouchedKept
  <2>6. Claims'
    BY <2>1, <2>2, ClaimsKept
  <2>7. Finishing'
    BY <2>1, <2>2, FinishingKept
  <2>8. SleepersHaveNothingToDo'
    BY <2>1, SleepersKept
  <2> QED  BY <2>2, <2>3, <2>4, <2>5, <2>6, <2>7, <2>8 DEF PoolInv
<1> QED  BY <1>1, InitPoolInv, PTL DEF Spec

\* Every variable has its type, and next_partition overshoots by no more than
\* one claim per thread: whoever is past the end saw a span left when it took
\* the job, and took it once.
THEOREM PoolTypeCorrect == Spec => []TypeOK
<1>1. PoolInv => TypeOK
  <2> SUFFICES ASSUME PoolInv PROVE TypeOK
    OBVIOUS
  <2>1. Types /\ Paced /\ InReach /\ ClaimsBounded
    BY DEF PoolInv
  <2>2. created \in 0..(MaxFrames * FrameSize)
    <3>1. frames \in 0..MaxFrames /\ created \in Nat
          /\ created <= frames * FrameSize
      BY <2>1 DEF Types, Paced
    <3>2. frames * FrameSize <= MaxFrames * FrameSize
          /\ frames * FrameSize \in Nat /\ MaxFrames * FrameSize \in Nat
      <4>1. MaxFrames * FrameSize
              = frames * FrameSize + (MaxFrames - frames) * FrameSize
        BY <3>1, Assumptions
      <4>2. frames * FrameSize \in Nat
            /\ (MaxFrames - frames) * FrameSize \in Nat
        BY <3>1, Assumptions
      <4> QED  BY <4>1, <4>2
    <3> DEFINE a == frames * FrameSize
               b == MaxFrames * FrameSize
    <3>3. created <= a /\ a <= b /\ a \in Nat /\ b \in Nat /\ created \in Nat
      BY <3>1, <3>2
    <3> HIDE DEF a, b
    <3>4. created \in 0..b
      BY <3>3
    <3> QED  BY <3>4 DEF b
  <2>3. Range(toBind) \subseteq Collision
    BY <2>1, SeqRange DEF Types
  <2>4. \A j \in Job : Range(dependents[j]) \subseteq Job
    BY <2>1, SeqRange DEF Types
  <2>5. \A j \in Job : nextSpan[j] \in 0..(Spans + Cardinality(Worker) - 1)
    <3> SUFFICES ASSUME NEW j \in Job
                 PROVE  nextSpan[j] \in 0..(Spans + Cardinality(Worker) - 1)
      OBVIOUS
    <3>1. nextSpan[j] \in Nat
      BY <2>1 DEF Types
    <3>2. Cardinality(At(j, {"steal"})) \in 0..Cardinality(Worker)
      BY AtFinite
    <3>3. nextSpan[j] + Cardinality(At(j, {"steal"}))
            <= Spans - 1 + Cardinality(Worker)
      BY <2>1 DEF ClaimsBounded
    <3> QED  BY <3>1, <3>2, <3>3, Assumptions
  <2>6. \A t \in Worker : span[t] \in 0..(Spans + Cardinality(Worker) - 1)
    BY <2>1, Assumptions DEF ClaimsBounded, Types
  <2>7. \A t \in Worker :
          /\ pc[t] \in Pending \cup {"top", "lock", "blocking", "asleep",
                                     "exited"}
          /\ task[t] \in IF pc[t] \in Pending THEN Job ELSE Job \cup {0}
    BY <2>1 DEF Types, InReach
  <2> QED  BY <2>1, <2>2, <2>3, <2>4, <2>5, <2>6, <2>7 DEF TypeOK, Types
<1> QED  BY <1>1, PoolInvariant, PTL

\* No span of a job handed out once is run twice, however many threads
\* compete for it.
THEOREM SpansRunOnce == Spec => []SpanRunsOnce
<1>1. PoolInv => SpanRunsOnce
  <2> SUFFICES ASSUME PoolInv, DispatchedOnce, NEW j \in Job,
                      NEW s \in DOMAIN ran[j]
               PROVE  ran[j][s] <= 1
    BY DEF SpanRunsOnce
  <2>1. s \in 0..(Spans - 1)
    BY DEF PoolInv, Types
  <2> QED  BY <2>1 DEF PoolInv, Claims, ClaimsOf, DispatchedOnce
<1> QED  BY <1>1, PoolInvariant, PTL

\* A node marked executed has run all its spans and no thread is still at
\* one, if it was handed out once.
THEOREM DoneWhenExecuted == Spec => []ExecutedMeansDone
<1>1. PoolInv => ExecutedMeansDone
  <2> SUFFICES ASSUME PoolInv, NEW j \in Job, executed[j], dispatched[j] <= 1
               PROVE  /\ \A s \in DOMAIN ran[j] : ran[j][s] >= 1
                      /\ \A t \in Worker :
                           ~(pc[t] \in {"steal", "run"} /\ task[t] = j)
    BY DEF ExecutedMeansDone
  <2>1. /\ finishers[j] + Cardinality(At(j, Inside)) <= Cardinality(Worker)
        /\ nextSpan[j] < Spans => finishers[j] = 0
        /\ finishers[j] = Cardinality(Worker)
    BY DEF PoolInv, Finishing, FinishingOf
  <2>2. /\ Cardinality(Worker) \in Nat \ {0}
        /\ Cardinality(At(j, Inside)) \in 0..Cardinality(Worker)
        /\ nextSpan[j] \in Nat /\ Spans \in Nat
        /\ IsFiniteSet(At(j, Inside))
    <3>1. nextSpan[j] \in Nat
      BY DEF PoolInv, Types
    <3>2. Cardinality(At(j, Inside)) \in 0..Cardinality(Worker)
          /\ IsFiniteSet(At(j, Inside))
      BY AtFinite
    <3> QED  BY <3>1, <3>2, Assumptions
  <2>3. Cardinality(At(j, Inside)) = 0 /\ nextSpan[j] >= Spans
    BY <2>1, <2>2
  <2>4. At(j, Inside) = {}
    BY <2>2, <2>3, FS_EmptySet
  <2>5. \A t \in Worker : ~(pc[t] \in Inside /\ task[t] = j)
    BY <2>4 DEF At
  <2>6. ASSUME NEW s \in DOMAIN ran[j] PROVE ran[j][s] >= 1
    <3>1. s \in 0..(Spans - 1)
      BY DEF PoolInv, Types
    <3>2. s < nextSpan[j]
      BY <2>2, <2>3, <3>1
    <3>3. ran[j][s] = 1 \/ \E t \in At(j, {"run"}) : span[t] = s
      BY <3>1, <3>2 DEF PoolInv, Claims, ClaimsOf
    <3>4. At(j, {"run"}) = {}
      BY <2>5 DEF At, Inside
    <3> QED  BY <3>3, <3>4
  <2> QED  BY <2>5, <2>6 DEF Inside
<1> QED  BY <1>1, PoolInvariant, PTL

\* Nobody goes to sleep, or sleeps on, while there is an active job.
THEOREM NoSleeperOverWork == Spec => []SleepersHaveNothingToDo
<1>1. PoolInv => SleepersHaveNothingToDo
  BY DEF PoolInv
<1> QED  BY <1>1, PoolInvariant, PTL

-----------------------------------------------------------------------------
(* Theorems about one frame. *)

LEMMA InitFrameInv == Init => FrameInv
<1> SUFFICES ASSUME Init PROVE FrameInv
  OBVIOUS
<1>1. Range(<<>>) = {}
  BY DEF Range
<1>2. OneFrame
  <2>1. NotBegun /\ BoundFirst
    BY DEF Init, NotBegun, BoundFirst
  <2>2. Window
    BY <1>1 DEF Init, Window
  <2>3. OfTheFrame
    BY <1>1 DEF Init, OfTheFrame
  <2> QED  BY <2>1, <2>2, <2>3 DEF OneFrame
<1>3. Edges = {} /\ \A k \in Job : Unresolved(k) = {}
  <2>1. \A j \in Job : Len(dependents[j]) = 0
    BY DEF Init
  <2>2. Edges = {}
    BY <2>1 DEF Edges
  <2> QED  BY <2>2 DEF Unresolved
<1>4. IsFiniteSet({}) /\ Cardinality({}) = 0
  BY FS_EmptySet
<1>5. EdgesCounted
  <2>1. \A k \in Job : inDegree[k] = 0 /\ Uncounted(k) = 0
    BY DEF Init, Uncounted
  <2> QED  BY <1>3, <1>4, <2>1 DEF EdgesCounted
<1>6. \A t \in Worker : pc[t] = "top"
  BY DEF Init
<1>7. IteratesOnce /\ FreeToRun /\ Poisoned
  BY <1>3, <1>6 DEF IteratesOnce, FreeToRun, Poisoned, Iterating
<1> QED  BY <1>2, <1>5, <1>7, InitPoolInv DEF FrameInv

LEMMA FrameInvKept ==
  ASSUME MaxFrames = 1, FrameInv, PoolInv', [Next]_vars
  PROVE  FrameInv'
<1>1. /\ Types /\ Paced /\ InReach /\ Untouched /\ Finishing /\ OneFrame
      /\ Types'
  BY DEF FrameInv, PoolInv
<1>2. OneFrame'
  BY <1>1, OneFrameKept
<1>3. ASSUME DispatchedOnce'
      PROVE  EdgesCounted' /\ IteratesOnce' /\ FreeToRun' /\ Poisoned'
  <2>1. DispatchedOnce
    <3>1. ASSUME NEW j \in Job PROVE dispatched[j] <= 1
      <4>1. dispatched[j] \in Nat /\ dispatched'[j] \in Nat
        BY <1>1 DEF Types
      <4>2. dispatched'[j] <= 1 /\ dispatched'[j] >= dispatched[j]
        BY <1>1, <1>3, OthersUntouched DEF DispatchedOnce
      <4> QED  BY <4>1, <4>2
    <3> QED  BY <3>1 DEF DispatchedOnce
  <2>2. EdgesCounted /\ IteratesOnce /\ FreeToRun /\ Poisoned /\ BoundFirst
    BY <1>1, <2>1 DEF FrameInv, OneFrame
  <2>3. EdgesCounted'
    BY <1>1, <2>1, <2>2, EdgesCountedKept
  <2>4. IteratesOnce'
    BY <1>1, <2>1, <2>2, IteratesOnceKept
  <2>5. FreeToRun'
    BY <1>1, <2>1, <2>2, FreeToRunKept
  <2>6. Poisoned'
    BY <1>1, <2>1, <2>2, PoisonedKept
  <2> QED  BY <2>3, <2>4, <2>5, <2>6
<1> QED  BY <1>2, <1>3 DEF FrameInv

\* The inductive invariant of a frame: in_degree is exactly the number of
\* edges that nobody has resolved, and who was handed out has none.
THEOREM FrameInvariant == ASSUME MaxFrames = 1 PROVE Spec => []FrameInv
<1>1. FrameInv /\ PoolInv' /\ [Next]_vars => FrameInv'
  BY FrameInvKept
<1>2. Init => FrameInv
  BY InitFrameInv
<1>3. Spec => []PoolInv
  BY PoolInvariant
<1> QED  BY <1>1, <1>2, <1>3, PTL DEF Spec

\* In a frame in which no job is handed out twice, whatever runs, or is about
\* to, has nothing left to wait for.
LEMMA NothingBeforeIt ==
  ASSUME FrameInv, DispatchedOnce, NEW t \in Worker, pc[t] = "run",
         NEW j \in Job, task[t] \in Range(dependents[j])
  PROVE  executed[j] /\ ~failed[j] /\ ~aborted[j]
<1>1. task[t] \in Job /\ dispatched[task[t]] # 0
  BY DEF FrameInv, PoolInv, InReach, Untouched, At, Pending
<1>2. Unresolved(task[t]) = {}
  BY <1>1 DEF FrameInv, FreeToRun
<1>3. PICK i \in 1..Len(dependents[j]) : dependents[j][i] = task[t]
  <2>1. dependents[j] \in Seq(Job)
    BY DEF FrameInv, PoolInv, Types
  <2> QED  BY <2>1 DEF Range
<1>4. <<j, i>> \in Edges /\ Target(<<j, i>>) = task[t]
  BY <1>3 DEF Edges, Target
<1>5. Resolved(<<j, i>>)
  BY <1>2, <1>4 DEF Unresolved
<1>6. executed[j]
  BY <1>5 DEF Resolved
<1>7. ~aborted[task[t]]
  BY DEF FrameInv, Poisoned
<1>8. ~(failed[j] \/ aborted[j])
  BY <1>4, <1>5, <1>7 DEF FrameInv, Poisoned
<1> QED  BY <1>6, <1>8

\* One frame, whatever collides in it and however the threads interleave with
\* its submission: no payload runs before the systems it was bound to.
THEOREM EdgesObeyed ==
  ASSUME MaxFrames = 1 PROVE Spec => []RunsAfterItsPredecessors
<1>1. FrameInv => RunsAfterItsPredecessors
  BY NothingBeforeIt DEF RunsAfterItsPredecessors
<1> QED  BY <1>1, FrameInvariant, PTL

\* And none runs downstream of a node that failed or was aborted.
THEOREM PoisonObeyed ==
  ASSUME MaxFrames = 1 PROVE Spec => []PoisonStops
<1>1. FrameInv => PoisonStops
  BY NothingBeforeIt DEF PoisonStops
<1> QED  BY <1>1, FrameInvariant, PTL

\* And none runs any more when step_single_frame has returned.
THEOREM ReturnsFlushed ==
  ASSUME MaxFrames = 1 PROVE Spec => []FlushedOnReturn
<1>1. FrameInv => FlushedOnReturn
  <2> SUFFICES ASSUME FrameInv, main = "idle", DispatchedOnce,
                      NEW t \in Worker, pc[t] = "run"
               PROVE  FALSE
    BY DEF FlushedOnReturn
  <2>1. task[t] \in Job /\ dispatched[task[t]] # 0
    BY DEF FrameInv, PoolInv, InReach, Untouched, At, Pending
  <2>2. task[t] \in FrameJobs /\ current = <<>>
    BY <2>1 DEF FrameInv, OneFrame, OfTheFrame, Window, Closing
  <2>3. task[t] \in Range(previous)
    BY <2>2 DEF FrameJobs, Range
  <2>4. executed[task[t]] \/ aborted[task[t]]
    BY <2>3 DEF FrameInv, OneFrame, Window, Over
  <2>5. ~executed[task[t]]
    BY NotYetExecuted DEF FrameInv, PoolInv, Inside
  <2>6. ~aborted[task[t]]
    BY DEF FrameInv, Poisoned
  <2> QED  BY <2>4, <2>5, <2>6
<1> QED  BY <1>1, FrameInvariant, PTL

=============================================================================
