-------------------------- MODULE JitClosure_proofs --------------------------
(***************************************************************************)
(* Proofs about JitClosure: what compute_transitive_closure finds, for any *)
(* stack and any edges that the free client of the layered database makes, *)
(* as long as it mounts no layer under one in use.                         *)
(***************************************************************************)
EXTENDS JitClosure, LayeredDatabase_proofs

\* One round of the frontier.
Under(S) == UNION {OutboundEdges(e) : e \in S}

\* An edge is created in partition 0, in a slot after that of any edge of its
\* layer it hangs under, in no layer below its source, and never as a patch.
Rising ==
  /\ \A p \in adj : p[1] = edgeSrc[p[2]]
  /\ \A y \in DOMAIN edgeSrc :
       /\ y[2] = 0 /\ y \notin DOMAIN redirOf
       /\ edgeSrc[y][1] <= y[1]
       /\ edgeSrc[y] \in DOMAIN edgeSrc /\ edgeSrc[y][1] = y[1]
            => edgeSrc[y][3] < y[3]

-----------------------------------------------------------------------------
(* The rounds of the search *)

\* The first n rounds.
UpTo(h, roots, n) ==
  h = [i \in 0..n |-> IF i = 0 THEN roots ELSE h[i - 1] \cup Under(h[i - 1])]

LEMMA UpToExists ==
  ASSUME NEW roots
  PROVE  \A n \in Nat : \E h : UpTo(h, roots, n)
<1> DEFINE Bad == {n \in Nat : ~\E h : UpTo(h, roots, n)}
<1> SUFFICES ASSUME Bad # {} PROVE FALSE
  OBVIOUS
<1>1. PICK n \in Bad : \A i \in 0..(n - 1) : i \notin Bad
  <2>1. Bad \in SUBSET Nat
    OBVIOUS
  <2> HIDE DEF Bad
  <2> QED  BY <2>1, Least
<1>2. n \in Nat /\ ~\E h : UpTo(h, roots, n)
  OBVIOUS
<1>3. CASE n = 0
  <2> DEFINE h == [i \in 0..0 |-> roots]
  <2>1. UpTo(h, roots, 0)
    BY DEF UpTo
  <2> QED  BY <2>1, <1>2, <1>3
<1>4. CASE n > 0
  <2>1. n - 1 \in Nat /\ n - 1 \in 0..(n - 1)
    BY <1>2, <1>4
  <2>2. PICK h : UpTo(h, roots, n - 1)
    <3>1. n - 1 \notin Bad
      <4> HIDE DEF Bad
      <4> QED  BY <1>1, <2>1
    <3> QED  BY <2>1, <3>1
  <2> DEFINE g == [i \in 0..n |-> IF i < n THEN h[i]
                                  ELSE h[n - 1] \cup Under(h[n - 1])]
  <2>3. \A i \in 0..(n - 1) :
          h[i] = IF i = 0 THEN roots ELSE h[i - 1] \cup Under(h[i - 1])
    BY <2>1, <2>2 DEF UpTo
  <2>4. ASSUME NEW i \in 0..n
        PROVE  g[i] = IF i = 0 THEN roots ELSE g[i - 1] \cup Under(g[i - 1])
    <3>1. CASE i = n
      <4>1. g[i] = h[n - 1] \cup Under(h[n - 1]) /\ g[i - 1] = h[n - 1] /\ i # 0
        BY <3>1, <1>2, <1>4
      <4> HIDE DEF g
      <4> QED  BY <4>1
    <3>2. CASE i # n
      <4>1. i \in 0..(n - 1) /\ g[i] = h[i] /\ (i # 0 => g[i - 1] = h[i - 1])
        BY <3>2, <1>2
      <4> HIDE DEF g
      <4> QED  BY <4>1, <2>3
    <3> QED  BY <3>1, <3>2
  <2>5. g = [i \in 0..n |-> g[i]]
    OBVIOUS
  <2> HIDE DEF g
  <2>6. UpTo(g, roots, n)
    BY <2>4, <2>5 DEF UpTo
  <2> QED  BY <2>6, <1>2
<1> QED  BY <1>2, <1>3, <1>4

LEMMA UpToUnique ==
  ASSUME NEW roots, NEW n \in Nat, NEW m \in Nat, n <= m,
         NEW g, UpTo(g, roots, n), NEW h, UpTo(h, roots, m)
  PROVE  \A i \in 0..n : g[i] = h[i]
<1> DEFINE Bad == {i \in 0..n : g[i] # h[i]}
<1> SUFFICES ASSUME Bad # {} PROVE FALSE
  OBVIOUS
<1>1. PICK i \in Bad : \A k \in 0..(i - 1) : k \notin Bad
  <2>1. Bad \in SUBSET Nat
    OBVIOUS
  <2> HIDE DEF Bad
  <2> QED  BY <2>1, Least
<1>2. i \in 0..n /\ g[i] # h[i] /\ i \in 0..m
  OBVIOUS
<1>3. /\ g[i] = IF i = 0 THEN roots ELSE g[i - 1] \cup Under(g[i - 1])
      /\ h[i] = IF i = 0 THEN roots ELSE h[i - 1] \cup Under(h[i - 1])
  BY <1>2 DEF UpTo
<1>4. i # 0 => g[i - 1] = h[i - 1]
  <2>1. i # 0 => i - 1 \in 0..n /\ i - 1 \in 0..(i - 1)
    BY <1>2
  <2>2. i # 0 => i - 1 \notin Bad
    <3> HIDE DEF Bad
    <3> QED  BY <1>1, <2>1
  <2> QED  BY <2>1, <2>2
<1> QED  BY <1>2, <1>3, <1>4

\* The recursion of Reached, on all rounds.
Rounds(g, roots) ==
  g = [n \in Nat |-> IF n = 0 THEN roots ELSE g[n - 1] \cup Under(g[n - 1])]

LEMMA RoundsExist ==
  ASSUME NEW roots
  PROVE  \E g : Rounds(g, roots)
<1> DEFINE h(n) == CHOOSE f : UpTo(f, roots, n)
           g == [n \in Nat |-> h(n)[n]]
<1>1. \A n \in Nat : UpTo(h(n), roots, n)
  BY UpToExists
<1>2. ASSUME NEW n \in Nat
      PROVE  g[n] = IF n = 0 THEN roots ELSE g[n - 1] \cup Under(g[n - 1])
  <2>1. h(n)[n] = IF n = 0 THEN roots
                  ELSE h(n)[n - 1] \cup Under(h(n)[n - 1])
    <3>1. UpTo(h(n), roots, n) /\ n \in 0..n
      BY <1>1
    <3> HIDE DEF h
    <3> QED  BY <3>1 DEF UpTo
  <2>2. n # 0 => h(n - 1)[n - 1] = h(n)[n - 1]
    <3>1. SUFFICES ASSUME n # 0 PROVE h(n - 1)[n - 1] = h(n)[n - 1]
      OBVIOUS
    <3>2. n - 1 \in Nat /\ n - 1 <= n /\ n - 1 \in 0..(n - 1)
      BY <3>1
    <3>3. UpTo(h(n - 1), roots, n - 1) /\ UpTo(h(n), roots, n)
      BY <1>1, <3>2
    <3> HIDE DEF h
    <3> QED  BY <3>2, <3>3, UpToUnique
  <2>3. g[n] = h(n)[n] /\ (n # 0 => g[n - 1] = h(n - 1)[n - 1])
    <3> HIDE DEF h
    <3> QED  OBVIOUS
  <2> HIDE DEF g, h
  <2> QED  BY <2>1, <2>2, <2>3
<1>3. g = [n \in Nat |-> g[n]]
  OBVIOUS
<1> HIDE DEF g
<1>4. Rounds(g, roots)
  BY <1>2, <1>3 DEF Rounds
<1> QED  BY <1>4

LEMMA ReachedIn ==
  ASSUME NEW roots
  PROVE  \E g : /\ Reached(roots) = g[Cardinality(DOMAIN edgeSrc)]
                /\ g[0] = roots
                /\ \A n \in Nat : g[n + 1] = g[n] \cup Under(g[n])
<1> DEFINE g == CHOOSE g : Rounds(g, roots)
<1>1. Reached(roots) = g[Cardinality(DOMAIN edgeSrc)]
  BY DEF Reached, Rounds, Under
<1>2. Rounds(g, roots)
  BY RoundsExist
<1> HIDE DEF g
<1>3. g[0] = roots
  BY <1>2 DEF Rounds
<1>4. ASSUME NEW n \in Nat PROVE g[n + 1] = g[n] \cup Under(g[n])
  <2>1. n + 1 \in Nat /\ n + 1 # 0 /\ (n + 1) - 1 = n
    OBVIOUS
  <2> QED  BY <1>2, <2>1 DEF Rounds
<1> QED  BY <1>1, <1>3, <1>4

-----------------------------------------------------------------------------
(* What the search finds *)

LEMMA EdgesFinite ==
  ASSUME IInv
  PROVE  IsFiniteSet(DOMAIN edgeSrc) /\ Cardinality(DOMAIN edgeSrc) \in Nat
<1>1. DOMAIN edgeSrc \in SUBSET DOMAIN mask /\ IsFiniteSet(DOMAIN mask)
  BY DEF IInv, Typed, Written, Entity
<1> QED  BY <1>1, FS_Subset, FS_CardinalityType

\* It starts with the roots and stays within whatever holds them and, with an
\* entity, all edges under it.
LEMMA ReachedWithin ==
  ASSUME IInv, NEW roots
  PROVE  /\ roots \subseteq Reached(roots)
         /\ \A S : roots \subseteq S /\ Under(S) \subseteq S
                     => Reached(roots) \subseteq S
<1> DEFINE N == Cardinality(DOMAIN edgeSrc)
<1>1. PICK g : /\ Reached(roots) = g[N] /\ g[0] = roots
               /\ \A n \in Nat : g[n + 1] = g[n] \cup Under(g[n])
  BY ReachedIn
<1>2. N \in Nat
  BY EdgesFinite
<1> HIDE DEF N
<1>3. roots \subseteq g[N]
  <2> DEFINE Bad == {n \in Nat : ~(roots \subseteq g[n])}
  <2>1. Bad = {}
    <3> SUFFICES ASSUME Bad # {} PROVE FALSE
      OBVIOUS
    <3>1. PICK n \in Bad : \A i \in 0..(n - 1) : i \notin Bad
      <4>1. Bad \in SUBSET Nat
        OBVIOUS
      <4> HIDE DEF Bad
      <4> QED  BY <4>1, Least
    <3>2. n \in Nat /\ n # 0 /\ ~(roots \subseteq g[n])
      BY <1>1
    <3>3. n - 1 \in Nat /\ n - 1 \in 0..(n - 1) /\ (n - 1) + 1 = n
      BY <3>2
    <3>4. roots \subseteq g[n - 1]
      BY <3>1, <3>3
    <3>5. g[n - 1] \subseteq g[n]
      <4>1. g[(n - 1) + 1] = g[n - 1] \cup Under(g[n - 1])
        BY <1>1, <3>3
      <4> QED  BY <4>1, <3>3
    <3> QED  BY <3>2, <3>4, <3>5
  <2> QED  BY <2>1, <1>2
<1>4. ASSUME NEW S, roots \subseteq S, Under(S) \subseteq S PROVE g[N] \subseteq S
  <2> DEFINE Bad == {n \in Nat : ~(g[n] \subseteq S)}
  <2>1. Bad = {}
    <3> SUFFICES ASSUME Bad # {} PROVE FALSE
      OBVIOUS
    <3>1. PICK n \in Bad : \A i \in 0..(n - 1) : i \notin Bad
      <4>1. Bad \in SUBSET Nat
        OBVIOUS
      <4> HIDE DEF Bad
      <4> QED  BY <4>1, Least
    <3>2. n \in Nat /\ n # 0 /\ ~(g[n] \subseteq S)
      BY <1>1, <1>4
    <3>3. n - 1 \in Nat /\ n - 1 \in 0..(n - 1) /\ (n - 1) + 1 = n
      BY <3>2
    <3>4. g[n - 1] \subseteq S
      BY <3>1, <3>3
    <3>5. g[n] = g[n - 1] \cup Under(g[n - 1])
      <4>1. g[(n - 1) + 1] = g[n - 1] \cup Under(g[n - 1])
        BY <1>1, <3>3
      <4> QED  BY <4>1, <3>3
    <3>6. Under(g[n - 1]) \subseteq Under(S)
      BY <3>4 DEF Under
    <3> QED  BY <3>2, <3>4, <3>5, <3>6, <1>4
  <2> QED  BY <2>1, <1>2
<1> QED  BY <1>1, <1>3, <1>4

\* As many rounds as there are edges leave nothing to find.
LEMMA ReachedCloses ==
  ASSUME IInv, NEW roots
  PROVE  Under(Reached(roots)) \subseteq Reached(roots)
<1> DEFINE D == DOMAIN edgeSrc
           N == Cardinality(D)
<1>1. PICK g : /\ Reached(roots) = g[N] /\ g[0] = roots
               /\ \A n \in Nat : g[n + 1] = g[n] \cup Under(g[n])
  BY ReachedIn
<1>2. IsFiniteSet(D) /\ N \in Nat
  BY EdgesFinite
<1>3. \A S : Under(S) \subseteq D
  BY DEF Under, OutboundEdges
<1>4. Reached(roots) \subseteq roots \cup D
  <2>1. Under(roots \cup D) \subseteq roots \cup D
    BY <1>3
  <2> QED  BY <2>1, ReachedWithin
<1> HIDE DEF D
<1> SUFFICES ASSUME ~(Under(g[N]) \subseteq g[N]) PROVE FALSE
  BY <1>1
<1> DEFINE Found(n) == g[n] \ roots
<1>5. ASSUME NEW n \in Nat PROVE Found(n) \subseteq D /\ roots \subseteq g[n]
  <2> DEFINE Bad == {m \in Nat : ~(g[m] \ roots \subseteq D /\ roots \subseteq g[m])}
  <2>1. Bad = {}
    <3> SUFFICES ASSUME Bad # {} PROVE FALSE
      OBVIOUS
    <3>1. PICK m \in Bad : \A i \in 0..(m - 1) : i \notin Bad
      <4>1. Bad \in SUBSET Nat
        OBVIOUS
      <4> HIDE DEF Bad
      <4> QED  BY <4>1, Least
    <3>2. m \in Nat /\ m # 0 /\ ~(g[m] \ roots \subseteq D /\ roots \subseteq g[m])
      BY <1>1
    <3>3. m - 1 \in Nat /\ m - 1 \in 0..(m - 1) /\ (m - 1) + 1 = m
      BY <3>2
    <3>4. g[m - 1] \ roots \subseteq D /\ roots \subseteq g[m - 1]
      BY <3>1, <3>3
    <3>5. g[m] = g[m - 1] \cup Under(g[m - 1])
      <4>1. g[(m - 1) + 1] = g[m - 1] \cup Under(g[m - 1])
        BY <1>1, <3>3
      <4> QED  BY <4>1, <3>3
    <3> QED  BY <3>2, <3>4, <3>5, <1>3
  <2> QED  BY <2>1
\* Once a round finds nothing, no later one does.
<1>6. ASSUME NEW n \in 0..N, Under(g[n]) \subseteq g[n] PROVE FALSE
  <2> DEFINE Bad == {m \in n..N : g[m] # g[n]}
  <2>1. Bad = {}
    <3> SUFFICES ASSUME Bad # {} PROVE FALSE
      OBVIOUS
    <3>1. PICK m \in Bad : \A i \in 0..(m - 1) : i \notin Bad
      <4>1. Bad \in SUBSET Nat
        OBVIOUS
      <4> HIDE DEF Bad
      <4> QED  BY <4>1, Least
    <3>2. m \in n..N /\ m # n /\ g[m] # g[n]
      OBVIOUS
    <3>3. m - 1 \in Nat /\ m - 1 \in n..N /\ m - 1 \in 0..(m - 1) /\ (m - 1) + 1 = m
      BY <3>2, <1>2
    <3>4. g[m - 1] = g[n]
      BY <3>1, <3>3
    <3>5. g[m] = g[m - 1] \cup Under(g[m - 1])
      <4>1. g[(m - 1) + 1] = g[m - 1] \cup Under(g[m - 1])
        BY <1>1, <3>3
      <4> QED  BY <4>1, <3>3
    <3> QED  BY <3>2, <3>4, <3>5, <1>6
  <2>2. N \in n..N
    BY <1>2
  <2>3. g[N] = g[n]
    BY <2>1, <2>2
  <2> QED  BY <2>3, <1>6
\* Until then each round finds another edge.
<1>7. \A n \in 0..N : Cardinality(Found(n)) >= n
  <2> DEFINE Bad == {n \in 0..N : ~(Cardinality(Found(n)) >= n)}
  <2> SUFFICES ASSUME Bad # {} PROVE FALSE
    OBVIOUS
  <2>1. PICK n \in Bad : \A i \in 0..(n - 1) : i \notin Bad
    <3>1. Bad \in SUBSET Nat
      BY <1>2
    <3> HIDE DEF Bad
    <3> QED  BY <3>1, Least
  <2>2. n \in 0..N /\ ~(Cardinality(Found(n)) >= n)
    OBVIOUS
  <2>3. \A i \in Nat : IsFiniteSet(Found(i)) /\ Cardinality(Found(i)) \in Nat
    BY <1>2, <1>5, FS_Subset, FS_CardinalityType
  <2>4. n # 0
    BY <2>2, <2>3
  <2>5. n - 1 \in 0..N /\ n - 1 \in Nat /\ n - 1 \in 0..(n - 1) /\ (n - 1) + 1 = n
        /\ n \in Nat
    BY <2>2, <2>4, <1>2
  <2>6. Cardinality(Found(n - 1)) >= n - 1
    BY <2>1, <2>5
  <2>7. g[n] = g[n - 1] \cup Under(g[n - 1])
    <3>1. g[(n - 1) + 1] = g[n - 1] \cup Under(g[n - 1])
      BY <1>1, <2>5
    <3> QED  BY <3>1, <2>5
  <2>8. PICK x \in Under(g[n - 1]) : x \notin g[n - 1]
    BY <1>6, <2>5
  <2>9. Found(n - 1) \cup {x} \subseteq Found(n) /\ x \notin Found(n - 1)
    BY <2>5, <2>7, <2>8, <1>5
  <2>10. Cardinality(Found(n - 1) \cup {x}) = Cardinality(Found(n - 1)) + 1
    BY <2>3, <2>5, <2>9, FS_AddElement
  <2>11. Cardinality(Found(n - 1) \cup {x}) <= Cardinality(Found(n))
    BY <2>3, <2>5, <2>9, FS_Subset
  <2>12. Cardinality(Found(n - 1)) \in Nat /\ Cardinality(Found(n)) \in Nat
    BY <2>3, <2>5
  <2> QED  BY <2>2, <2>5, <2>6, <2>10, <2>11, <2>12
<1>8. Found(N) = D
  <2>1. Found(N) \subseteq D /\ Cardinality(Found(N)) >= N
    BY <1>2, <1>5, <1>7
  <2>2. Cardinality(Found(N)) <= N /\ Cardinality(Found(N)) \in Nat
    BY <1>2, <2>1, FS_Subset, FS_CardinalityType
  <2>3. Cardinality(D) = Cardinality(Found(N))
    BY <1>2, <2>1, <2>2
  <2> QED  BY <1>2, <2>1, <2>3, FS_Subset
<1> QED  BY <1>3, <1>8

\* More roots, more found.
LEMMA ReachedGrows ==
  ASSUME IInv, NEW S, NEW T, S \subseteq T
  PROVE  Reached(S) \subseteq Reached(T)
<1>1. S \subseteq Reached(T)
  BY ReachedWithin
<1> QED  BY <1>1, ReachedCloses, ReachedWithin

-----------------------------------------------------------------------------
(* Edges rise *)

LEMMA RisingStays ==
  ASSUME Rising, UNCHANGED redirOf, DOMAIN edgeSrc' = DOMAIN edgeSrc,
         \A y \in DOMAIN edgeSrc : edgeSrc'[y] = edgeSrc[y],
         adj \subseteq Entity \X DOMAIN edgeSrc,
         adj' \subseteq adj \cup {<<edgeSrc[y], y>> : y \in DOMAIN edgeSrc}
  PROVE  Rising'
<1>1. \A p \in adj' : p[1] = edgeSrc'[p[2]]
  BY DEF Rising
<1> QED  BY <1>1 DEF Rising

LEMMA CommitEdgeRises ==
  ASSUME IInv, Rising, CommitEdge
  PROVE  Rising'
<1> DEFINE edge == Head(edgeQ[Top])
           new == Fresh(0)
           Records == [source : Entity, mask : SUBSET Component]
<1>1. /\ Create(edge.mask, 0) /\ edgeQ[Top] # <<>>
      /\ edgeSrc' = With(edgeSrc, new, edge.source)
      /\ adj' = adj \cup {<<edge.source, new>>}
      /\ UNCHANGED <<depth, redirOf, mode>>
  BY DEF CommitEdge
<1>2. edge \in Records
  <2>1. edgeQ \in [0..Top -> Seq(Records)] /\ Top \in 0..Top
    BY TopLayer DEF IInv, Queueing
  <2> HIDE DEF Records
  <2>2. edgeQ[Top] \in Seq(Records)
    BY <2>1
  <2> QED  BY <1>1, <2>1, <2>2, HeadOfSeq
<1>3. edge.mask \in SUBSET Component /\ edge.source \in Entity /\ 0 \in Partition
  BY <1>2, LayerAssumption
<1> HIDE DEF edge
<1>4. new \notin DOMAIN mask
  BY <1>1, <1>3, CreatedEntity
<1>5. /\ Top \in Nat /\ 0 \in Partition /\ new[1] = Top /\ new[2] = 0
      /\ new[3] = next[Top][0]
  BY TopLayer, LayerAssumption DEF IInv, Fresh
<1> HIDE DEF new
<1>6. /\ DOMAIN edgeSrc' = DOMAIN edgeSrc \cup {new}
      /\ edgeSrc'[new] = edge.source /\ new \notin DOMAIN edgeSrc
      /\ \A x \in DOMAIN edgeSrc : edgeSrc'[x] = edgeSrc[x]
  <2>1. new \notin DOMAIN edgeSrc
    BY <1>4 DEF IInv, Written, Entity
  <2> QED  BY <1>1, <2>1 DEF With
<1>7. \A p \in adj' : p[1] = edgeSrc'[p[2]]
  <2>1. \A p \in adj : p[2] \in DOMAIN edgeSrc /\ p[1] = edgeSrc[p[2]]
    BY DEF IInv, Registered, Rising
  <2> QED  BY <2>1, <1>1, <1>6
<1>8. ASSUME NEW y \in DOMAIN edgeSrc
      PROVE  edgeSrc'[y] = edgeSrc[y] /\ edgeSrc[y] # new
  BY <1>4, <1>6 DEF IInv, Written, Entity
<1>9. /\ edge.source[1] \in 0..Top
      /\ edge.source \in DOMAIN edgeSrc /\ edge.source[1] = Top
           => edge.source[3] < new[3]
  <2>1. edge.source \in DOMAIN mask
    BY <1>3 DEF Entity
  <2>2. edge.source[1] \in 0..Top /\ edge.source[3] < next[edge.source[1]][edge.source[2]]
    BY <2>1 DEF IInv, Typed
  <2>3. edge.source \in DOMAIN edgeSrc => edge.source[2] = 0
    BY DEF Rising
  <2> QED  BY <2>2, <2>3, <1>5
<1>10. new \notin DOMAIN redirOf
  BY <1>4 DEF IInv, Written, Entity
<1>11. edge.source # new
  BY <1>3, <1>4 DEF Entity
<1>12. ASSUME NEW y \in DOMAIN edgeSrc'
       PROVE  /\ y[2] = 0 /\ y \notin DOMAIN redirOf'
              /\ edgeSrc'[y][1] <= y[1]
              /\ edgeSrc'[y] \in DOMAIN edgeSrc' /\ edgeSrc'[y][1] = y[1]
                   => edgeSrc'[y][3] < y[3]
  <2>1. CASE y = new
    BY <2>1, <1>1, <1>5, <1>6, <1>9, <1>10, <1>11
  <2>2. CASE y # new
    BY <2>2, <1>1, <1>6, <1>8 DEF Rising
  <2> QED  BY <2>1, <2>2
<1> QED  BY <1>7, <1>12 DEF Rising

LEMMA CommitPatchRises ==
  ASSUME IInv, Rising, CommitPatch
  PROVE  Rising'
<1> DEFINE new == Fresh(0)
           q == Head(shadowQ)
           Records == [base : Frozen, new : SUBSET Component]
<1>1. /\ Create(q.new, 0) /\ shadowQ # <<>>
      /\ redirOf' = With(redirOf, new, q.base)
      /\ UNCHANGED <<depth, edgeSrc, adj, mode>>
  BY DEF CommitPatch
<1>2. q \in Records
  <2>1. shadowQ \in Seq(Records)
    BY DEF IInv, Queueing
  <2> HIDE DEF Records
  <2> QED  BY <1>1, <2>1, HeadOfSeq
<1>3. q.new \in SUBSET Component /\ 0 \in Partition
  BY <1>2, LayerAssumption
<1> HIDE DEF q
<1>4. new \notin DOMAIN mask
  BY <1>1, <1>3, CreatedEntity
<1> HIDE DEF new
<1>5. DOMAIN redirOf' = DOMAIN redirOf \cup {new} /\ new \notin DOMAIN edgeSrc
  <2>1. new \notin DOMAIN edgeSrc
    BY <1>4 DEF IInv, Written, Entity
  <2> QED  BY <1>1, <2>1 DEF With
<1> QED  BY <1>1, <1>5 DEF Rising

LEMMA NextRises ==
  ASSUME LateMounts = FALSE, IInv, Rising, [Next]_vars
  PROVE  Rising'
<1>1. \A m \in SpawnMasks : <<m>> \in Seq(SUBSET Component)
  BY LayerAssumption
<1>2. <<>> \in Seq(SUBSET Component)
  OBVIOUS
<1>3. MountAllowed => next[Top] = NoSlots
  BY DEF MountAllowed
<1>4. adj \subseteq Entity \X DOMAIN edgeSrc
  BY DEF IInv, Registered
<1>5. CASE UNCHANGED <<redirOf, edgeSrc>> /\ adj' \subseteq adj
  <2>1. adj' \subseteq adj \cup {<<edgeSrc[y], y>> : y \in DOMAIN edgeSrc}
    BY <1>5
  <2> QED  BY <2>1, <1>4, <1>5, RisingStays
<1>6. CASE \E m \in SpawnMasks : CreateEntity(m, 0) \/ QueueSpawn(m, 0)
  BY <1>5, <1>6 DEF CreateEntity, QueueSpawn, payloadVars
<1>7. ASSUME NEW masks \in Seq(SUBSET Component), MountAllowed,
             MountReadonlyLayer(masks, <<>>)
      PROVE  Rising'
  <2>1. /\ DOMAIN edgeSrc' = DOMAIN edgeSrc
        /\ \A e \in DOMAIN edgeSrc : edgeSrc'[e] = edgeSrc[e]
        /\ adj' = adj /\ UNCHANGED redirOf
    BY <1>3, <1>7, MountsBelow
  <2>2. adj' \subseteq adj \cup {<<edgeSrc[y], y>> : y \in DOMAIN edgeSrc}
    BY <2>1
  <2> QED  BY <2>1, <2>2, <1>4, RisingStays
<1>8. CASE \E e \in Entity : \E m \in SpawnMasks : QueueEdge(e, m)
  BY <1>5, <1>8 DEF QueueEdge, payloadVars
<1>9. CASE \E e \in Entity : DestroyEntity(e)
  <2>1. UNCHANGED payloadVars /\ adj' \subseteq adj
    BY <1>9 DEF DestroyEntity, DestroyImmediate
  <2> QED  BY <2>1, <1>5 DEF payloadVars
<1>10. CASE \E e \in Entity : \E c \in Changes :
              AddComponent(e, {c}) \/ RemoveComponent(e, {c})
  BY <1>5, <1>10 DEF AddComponent, RemoveComponent, Change, payloadVars
<1>11. CASE BeginCommit \/ EndCommit \/ CommitSpawn \/ PushLayer
  BY <1>5, <1>11 DEF BeginCommit, EndCommit, CommitSpawn, PushLayer, payloadVars
<1>12. CASE CommitEdge
  BY <1>12, CommitEdgeRises
<1>13. CASE CommitTombstone
  BY <1>5, <1>13 DEF CommitTombstone
<1>14. CASE CommitPatch
  BY <1>14, CommitPatchRises
<1>15. CASE Rebuild \/ Reboot
  <2>1. /\ adj' = {<<edgeSrc[e], e>> : e \in DOMAIN edgeSrc}
        /\ UNCHANGED <<redirOf, edgeSrc>>
    BY <1>15 DEF Rebuild, Reboot, RebuildIndices, payloadVars
  <2>2. adj' \subseteq adj \cup {<<edgeSrc[y], y>> : y \in DOMAIN edgeSrc}
    BY <2>1
  <2> QED  BY <2>1, <2>2, <1>4, RisingStays
<1>16. CASE UNCHANGED vars
  BY <1>5, <1>16 DEF vars, payloadVars
<1> QED
  BY <1>1, <1>2, <1>6, <1>7, <1>8, <1>9, <1>10, <1>11, <1>12, <1>13, <1>14,
     <1>15, <1>16 DEF Next

\* Edges only lead upwards in the stack, and forward within a layer.
THEOREM EdgesRise ==
  ASSUME LateMounts = FALSE
  PROVE  Spec => []Rising
<1>1. Init => Rising
  BY NoneInEmpty DEF Init, Rising
<1>2. IInv /\ Rising /\ [Next]_vars => Rising'
  BY NextRises
<1> QED  BY <1>1, <1>2, StackInvariant, PTL DEF Spec

-----------------------------------------------------------------------------
(* The search ends *)

\* A patch in a chain lies above the root.
LEMMA ChainRises ==
  ASSUME IInv, NEW e \in Entity, e \notin DOMAIN index.rootOf,
         NEW a \in Range(RedirectChain(index, e)), a # e
  PROVE  e[1] < a[1]
<1> DEFINE chain == RedirectChain(index, e)
           Bad == {k \in 2..Len(chain) : ~(e[1] < chain[k][1])}
<1>1. WellIndexed(index, redirOf, Entity) /\ LogicalRoot(index, e) = e
  BY DEF IInv, Indexed, LogicalRoot
<1>2. chain \in Seq(Entity) /\ chain[1] = e /\ Len(chain) \in Nat
  BY <1>1, Resolved
<1>3. PICK j \in 1..Len(chain) : chain[j] = a
  BY <1>2 DEF Range
<1>4. j \in 2..Len(chain) /\ Len(chain) # 1
  BY <1>2, <1>3
<1>5. Chained(index, redirOf, Entity, e) /\ chain = index.chains[e]
  BY <1>1, <1>4, ChainOf
<1> HIDE DEF chain
<1>6. \A k \in 2..Len(chain) :
        chain[k] \in DOMAIN redirOf /\ \E i \in 1..(k - 1) : chain[i] = redirOf[chain[k]]
  BY <1>5 DEF Chained
<1>7. Bad = {}
  <2> SUFFICES ASSUME Bad # {} PROVE FALSE
    OBVIOUS
  <2>1. PICK k \in Bad : \A i \in 0..(k - 1) : i \notin Bad
    <3>1. Bad \in SUBSET Nat
      BY <1>2
    <3> HIDE DEF Bad
    <3> QED  BY <3>1, Least
  <2>2. k \in 2..Len(chain) /\ ~(e[1] < chain[k][1])
    OBVIOUS
  <2>3. PICK i \in 1..(k - 1) : chain[i] = redirOf[chain[k]]
    BY <2>2, <1>6
  <2>4. i \in 0..(k - 1) /\ i \in 1..Len(chain) /\ (i = 1 \/ i \in 2..Len(chain))
    BY <2>2, <2>3, <1>2
  <2>5. i = 1 \/ e[1] < chain[i][1]
    <3>1. i \notin Bad
      <4> HIDE DEF Bad
      <4> QED  BY <2>1, <2>4
    <3> QED  BY <3>1, <2>4
  <2>6. chain[i][1] < chain[k][1]
    BY <2>2, <2>3, <1>6 DEF IInv, Written
  <2>7. e[1] \in Nat /\ chain[i][1] \in Nat /\ chain[k][1] \in Nat
    <3>1. chain[i] \in Entity /\ chain[k] \in Entity
      BY <2>2, <2>4, <1>2
    <3>2. \A x \in Entity : x[1] \in Nat
      BY DEF IInv, Typed, Entity
    <3> QED  BY <3>1, <3>2
  <2> QED  BY <2>2, <2>5, <2>6, <2>7, <1>2
<1> QED  BY <1>3, <1>4, <1>7

\* Where an edge lies in the stack.
Before(x, y) == x[1] < y[1] \/ (x[1] = y[1] /\ x[3] < y[3])

LEMMA UnderIsAfter ==
  ASSUME IInv, Rising, NEW x \in DOMAIN edgeSrc, NEW y \in OutboundEdges(x)
  PROVE  y \in DOMAIN edgeSrc /\ Before(x, y)
<1>1. PICK a \in Range(RedirectChain(index, x)) : <<a, y>> \in adj
  BY DEF OutboundEdges
<1>2. y \in DOMAIN edgeSrc /\ a = edgeSrc[y]
  BY <1>1 DEF OutboundEdges, Rising
<1>3. x \in Entity /\ y \in Entity /\ a \in Entity
  BY <1>2 DEF IInv, Written
<1>4. x \notin DOMAIN index.rootOf
  <2> SUFFICES ASSUME x \in DOMAIN index.rootOf PROVE FALSE
    OBVIOUS
  <2>1. WellIndexed(index, redirOf, Entity)
    BY DEF IInv, Indexed
  <2> DEFINE r == index.rootOf[x]
             chain == index.chains[r]
  <2>2. Chained(index, redirOf, Entity, r) /\ x \in Range(chain)
    BY <2>1 DEF WellIndexed
  <2>3. PICK k \in 1..Len(chain) : chain[k] = x
    BY <2>2 DEF Chained, Range
  <2>4. Len(chain) \in Nat /\ (k = 1 \/ k \in 2..Len(chain))
    BY <2>2, <2>3 DEF Chained
  <2>5. k # 1
    BY <2>2, <2>3 DEF Chained
  <2>6. x \in DOMAIN redirOf
    BY <2>2, <2>3, <2>4, <2>5 DEF Chained
  <2> QED  BY <2>6 DEF Rising
<1>5. x[1] \in Nat /\ y[1] \in Nat /\ a[1] \in Nat
  BY <1>3 DEF IInv, Typed, Entity
<1>6. a[1] <= y[1]
  BY <1>2 DEF Rising
<1>7. CASE a = x
  <2>1. x[1] = y[1] => x[3] < y[3]
    BY <1>2, <1>7 DEF Rising
  <2> QED  BY <2>1, <1>2, <1>5, <1>6, <1>7 DEF Before
<1>8. CASE a # x
  <2>1. x[1] < a[1]
    BY <1>1, <1>3, <1>4, <1>8, ChainRises
  <2> QED  BY <2>1, <1>2, <1>5, <1>6 DEF Before
<1> QED  BY <1>7, <1>8

LEMMA SearchEnds == IInv /\ Rising => ClosureEnds
<1> SUFFICES ASSUME IInv, Rising, NEW e \in DOMAIN edgeSrc,
                    e \in Reached(OutboundEdges(e))
             PROVE  FALSE
  BY DEF ClosureEnds
<1> DEFINE S == {y \in DOMAIN edgeSrc : Before(e, y)}
<1>1. \A x \in DOMAIN edgeSrc : x[1] \in Nat /\ x[3] \in Nat
  BY DEF IInv, Typed, Written, Entity, Coordinate
<1>2. OutboundEdges(e) \subseteq S
  BY UnderIsAfter
<1>3. Under(S) \subseteq S
  <2> SUFFICES ASSUME NEW x \in S, NEW y \in OutboundEdges(x) PROVE y \in S
    BY DEF Under
  <2>1. y \in DOMAIN edgeSrc /\ Before(x, y)
    BY UnderIsAfter
  <2>2. Before(e, y)
    BY <2>1, <1>1 DEF Before
  <2> QED  BY <2>1, <2>2
<1>4. e \in S
  BY <1>2, <1>3, ReachedWithin
<1> QED  BY <1>1, <1>4 DEF Before

\* The search of compute_transitive_closure ends, whatever was patched or
\* destroyed between the edges: no edge is ever found under itself.
THEOREM ClosureAlwaysEnds ==
  ASSUME LateMounts = FALSE
  PROVE  Spec => []ClosureEnds
BY EdgesRise, StackInvariant, SearchEnds, PTL

\* And it leaves nothing out: what it finds holds, with an entity, every edge
\* under it, and no more than it must.
Complete(roots) ==
  /\ roots \cup Under(Reached(roots)) \subseteq Reached(roots)
  /\ \A S : roots \cup Under(S) \subseteq S => Reached(roots) \subseteq S

LEMMA SearchCompletes == IInv => \A roots \in SUBSET Entity : Complete(roots)
<1> SUFFICES ASSUME IInv, NEW roots \in SUBSET Entity PROVE Complete(roots)
  OBVIOUS
<1> QED  BY ReachedWithin, ReachedCloses DEF Complete

\* The closure compute_transitive_closure hands to a deleting system is exact:
\* everything that hangs under its roots at any depth, and nothing else.
THEOREM ClosureIsComplete ==
  ASSUME LateMounts = FALSE
  PROVE  Spec => [](\A roots \in SUBSET Entity : Complete(roots))
BY StackInvariant, SearchCompletes, PTL

-----------------------------------------------------------------------------
(* The search foresees the cascade *)

LEMMA Foresees == IInv => CascadeForeseen
<1> SUFFICES ASSUME IInv, NEW c \in Changes,
                    NEW e \in Iterated(TargetSignature(Deleter(c))) \cap Entity,
                    Unforked(LogicalRoot(index, e)), Writable(WriteTarget(e)),
                    NEW f \in {e} \cup Reached({e}), NEW d \in DynamicMask(f)
             PROVE  /\ Collision(Deleter(c), JitWriteMask(Deleter(c)), Reader(d), {})
                    /\ Collision(Reader(d), {}, Deleter(c), JitWriteMask(Deleter(c)))
  BY DEF CascadeForeseen
<1> DEFINE s == Deleter(c)
           jit == JitWriteMask(s)
<1>1. StaticDelete(s) = {c} /\ s.flags = {}
  BY DEF Deleter, StaticDelete
<1>2. e \in Iterated({})
  BY DEF Iterated
<1>3. e = Terminal(index, e)
  BY <1>2, MeetsOnce DEF MetOnce
<1>4. InTop(e) /\ e \in active /\ TargetSignature(s) \subseteq mask[e]
  BY <1>3 DEF Writable, WriteTarget, Iterated
<1>5. e \in Condemned(s)
  BY <1>4 DEF Condemned
<1>6. f \in Reached(Condemned(s))
  <2>1. {e} \subseteq Reached({e})
    BY ReachedWithin
  <2>2. Reached({e}) \subseteq Reached(Condemned(s))
    BY <1>5, ReachedGrows
  <2> QED  BY <2>1, <2>2
<1>7. d \in jit
  BY <1>1, <1>6 DEF JitWriteMask
<1>8. StaticRead(Reader(d)) = {d} /\ Reader(d).flags = {}
  BY DEF Reader, StaticRead
<1> HIDE DEF s, jit
<1> QED  BY <1>1, <1>7, <1>8 DEF Collision, s, jit

\* A system that deletes what a component marks is ordered against every reader
\* of what its deletions change at once, in the entities and in the edges under
\* them, however deep.
THEOREM CascadeIsForeseen ==
  ASSUME LateMounts = FALSE
  PROVE  Spec => []CascadeForeseen
BY StackInvariant, Foresees, PTL
=============================================================================
