--------------------------- MODULE FlatStore_proofs ---------------------------
(***************************************************************************)
(* Proofs that the stack of layers implements the flat store, and that a   *)
(* rebuild of the shadow index finds every entity as it was unless one of  *)
(* its patches was erased in place; and that edges that nothing was        *)
(* written for are found from every alias of their source: for any stack,  *)
(* any number of entities and any calls of the free client that mounts no  *)
(* layer under one in use.                                                 *)
(***************************************************************************)
EXTENDS LayeredDatabase_proofs, SequenceTheorems

\* What the index has to do with the payloads it is rebuilt from: it has the
\* active patches, in the order of the scan, and it shadows what the markers and
\* its patches replace; what waits to be erased is the newest alias.
Rebuildable ==
  /\ \A p \in DOMAIN redirOf : p[2] = 0
  /\ Patches \subseteq DOMAIN index.rootOf
  /\ DOMAIN tombOf \subseteq active
  /\ index.shadowed = Range(tombOf) \cup {redirOf[p] : p \in DOMAIN index.rootOf}
  /\ Sorted(index)
  /\ \A i \in DOMAIN tombQ : Terminal(index, tombQ[i]) = tombQ[i]

-----------------------------------------------------------------------------
(* Aliases of one entity *)

\* The aliases of an entity are the ones with its root.
LEMMA Aliases ==
  ASSUME NEW idx, NEW R, NEW U, WellIndexed(idx, R, U), NEW e \in U
  PROVE  \A a \in U : a \in Range(RedirectChain(idx, e))
                        <=> LogicalRoot(idx, a) = LogicalRoot(idx, e)
<1> DEFINE chain == RedirectChain(idx, e)
           r == LogicalRoot(idx, e)
<1>1. chain \in Seq(U) /\ chain[1] = r /\ Len(chain) \in Nat /\ r \in U
      /\ r \notin DOMAIN idx.rootOf
  BY Resolved
<1>2. \/ Len(chain) = 1
      \/ chain = idx.chains[r] /\ Chained(idx, R, U, r)
  BY ChainOf
<1>3. LogicalRoot(idx, r) = r
  BY <1>1 DEF LogicalRoot
<1> HIDE DEF chain, r
<1>4. ASSUME NEW k \in 1..Len(chain) PROVE LogicalRoot(idx, chain[k]) = r
  <2>1. CASE k = 1
    BY <2>1, <1>1, <1>3
  <2>2. CASE k # 1
    <3>1. k \in 2..Len(chain)
      BY <2>2, <1>1
    <3>2. ASSUME Len(chain) = 1 PROVE FALSE
      <4>1. k \in 2..1
        BY <3>1, <3>2
      <4> QED  BY <4>1
    <3>3. chain[k] \in DOMAIN idx.rootOf /\ idx.rootOf[chain[k]] = r
      BY <3>1, <3>2, <1>2 DEF Chained
    <3> QED  BY <3>3 DEF LogicalRoot
  <2> QED  BY <2>1, <2>2
<1>5. ASSUME NEW a \in U, a \in Range(chain) PROVE LogicalRoot(idx, a) = r
  <2>1. PICK k \in 1..Len(chain) : chain[k] = a
    BY <1>1, <1>5 DEF Range
  <2> QED  BY <2>1, <1>4
<1>6. ASSUME NEW a \in U, LogicalRoot(idx, a) = r PROVE a \in Range(chain)
  <2>1. /\ a \in Range(RedirectChain(idx, a))
        /\ RedirectChain(idx, LogicalRoot(idx, a)) = RedirectChain(idx, a)
        /\ RedirectChain(idx, LogicalRoot(idx, e)) = RedirectChain(idx, e)
    BY Resolved
  <2> QED  BY <2>1, <1>6 DEF chain, r
<1> QED  BY <1>5, <1>6 DEF chain, r

\* The root is its own root, and the newest alias is one of the aliases.
LEMMA Resolves ==
  ASSUME NEW idx, NEW R, NEW U, WellIndexed(idx, R, U), NEW e \in U
  PROVE  /\ LogicalRoot(idx, LogicalRoot(idx, e)) = LogicalRoot(idx, e)
         /\ LogicalRoot(idx, Terminal(idx, e)) = LogicalRoot(idx, e)
         /\ Terminal(idx, Terminal(idx, e)) = Terminal(idx, e)
         /\ Terminal(idx, LogicalRoot(idx, e)) = Terminal(idx, e)
         /\ e \notin DOMAIN idx.rootOf => LogicalRoot(idx, e) = e
<1> DEFINE r == LogicalRoot(idx, e)
           t == Terminal(idx, e)
           chain == RedirectChain(idx, e)
<1>1. /\ r \in U /\ r \notin DOMAIN idx.rootOf /\ t \in U /\ chain \in Seq(U)
      /\ Len(chain) >= 1 /\ t = chain[Len(chain)]
  BY Resolved
<1>2. LogicalRoot(idx, r) = r
  BY <1>1 DEF LogicalRoot
<1>3. t \in Range(chain)
  BY <1>1 DEF Range
<1>4. LogicalRoot(idx, t) = r
  BY <1>1, <1>3, Aliases
<1> HIDE DEF t, r
<1>5. Terminal(idx, t) = t /\ Terminal(idx, r) = t
  BY <1>2, <1>4 DEF Terminal, t, r
<1> QED  BY <1>2, <1>4, <1>5 DEF LogicalRoot, t, r

\* A patch belongs to the entity of what it replaces.
LEMMA PatchOf ==
  ASSUME NEW idx, NEW R, NEW U, WellIndexed(idx, R, U), NEW p \in DOMAIN idx.rootOf
  PROVE  /\ p \in U /\ p \in DOMAIN R /\ R[p] \in U
         /\ LogicalRoot(idx, R[p]) = LogicalRoot(idx, p)
<1> DEFINE r == idx.rootOf[p]
           chain == idx.chains[r]
<1>1. /\ p \in U /\ r \in DOMAIN idx.chains /\ p \in Range(chain)
      /\ Chained(idx, R, U, r)
  BY DEF WellIndexed
<1>2. LogicalRoot(idx, p) = r /\ LogicalRoot(idx, r) = r /\ r \in U
  BY <1>1 DEF LogicalRoot, Chained
<1>3. RedirectChain(idx, r) = chain
  BY <1>1, <1>2 DEF RedirectChain
<1>4. chain \in Seq(U) /\ Len(chain) \in Nat /\ chain[1] = r /\ p # r
  BY <1>1 DEF Chained
<1>5. PICK k \in 1..Len(chain) : chain[k] = p
  BY <1>1, <1>4 DEF Range
<1>6. k \in 2..Len(chain)
  BY <1>4, <1>5
<1> HIDE DEF chain
<1>7. chain[k] \in DOMAIN R /\ \E i \in 1..(k - 1) : chain[i] = R[chain[k]]
  BY <1>1, <1>6 DEF Chained, chain
<1>8. PICK i \in 1..(k - 1) : chain[i] = R[p]
  BY <1>5, <1>7
<1>9. i \in 1..Len(chain)
  BY <1>4, <1>5, <1>8
<1>10. R[p] \in U /\ R[p] \in Range(chain)
  BY <1>4, <1>8, <1>9 DEF Range
<1>11. LogicalRoot(idx, R[p]) = LogicalRoot(idx, r)
  BY <1>2, <1>3, <1>10, Aliases
<1> QED  BY <1>1, <1>2, <1>5, <1>7, <1>10, <1>11

\* What a chain has beyond the root are patches.
LEMMA BeyondTheRoot ==
  ASSUME NEW idx, NEW R, NEW U, WellIndexed(idx, R, U), NEW e \in U
  PROVE  \A k \in 2..Len(RedirectChain(idx, e)) :
           /\ RedirectChain(idx, e)[k] \in DOMAIN idx.rootOf
           /\ RedirectChain(idx, e)[k] \in DOMAIN R
           /\ \E i \in 1..(k - 1) :
                RedirectChain(idx, e)[i] = R[RedirectChain(idx, e)[k]]
<1> SUFFICES ASSUME NEW k \in 2..Len(RedirectChain(idx, e))
             PROVE  /\ RedirectChain(idx, e)[k] \in DOMAIN idx.rootOf
                    /\ RedirectChain(idx, e)[k] \in DOMAIN R
                    /\ \E i \in 1..(k - 1) :
                         RedirectChain(idx, e)[i] = R[RedirectChain(idx, e)[k]]
  OBVIOUS
<1> DEFINE chain == RedirectChain(idx, e)
           r == LogicalRoot(idx, e)
<1>1. \/ Len(chain) = 1
      \/ chain = idx.chains[r] /\ Chained(idx, R, U, r)
  BY ChainOf
<1> HIDE DEF chain, r
<1>2. k \in 2..Len(chain)
  BY DEF chain
<1>3. ASSUME Len(chain) = 1 PROVE FALSE
  <2>1. k \in 2..1
    BY <1>2, <1>3
  <2> QED  BY <2>1
<1>4. chain = idx.chains[r] /\ Chained(idx, R, U, r)
  BY <1>1, <1>3
<1>5. /\ chain[k] \in DOMAIN idx.rootOf /\ chain[k] \in DOMAIN R
      /\ \E i \in 1..(k - 1) : chain[i] = R[chain[k]]
  BY <1>2, <1>4 DEF Chained
<1> QED  BY <1>5 DEF chain

\* The newest alias is the one that a scan meets last.
LEMMA Newest ==
  ASSUME NEW idx, NEW R, NEW U \in SUBSET Coordinate, WellIndexed(idx, R, U),
         Sorted(idx), \A p \in DOMAIN idx.rootOf : ScannedAfter(p, R[p]),
         NEW e \in U, NEW a \in U, LogicalRoot(idx, a) = LogicalRoot(idx, e),
         a # Terminal(idx, e)
  PROVE  ScannedAfter(Terminal(idx, e), a)
<1> DEFINE chain == RedirectChain(idx, e)
           r == LogicalRoot(idx, e)
           n == Len(chain)
           Late == {k \in 2..n : ~ScannedAfter(chain[k], chain[1])}
<1>1. chain \in Seq(U) /\ n \in Nat /\ n >= 1 /\ Terminal(idx, e) = chain[n]
  BY Resolved
<1>2. a \in Range(chain)
  BY Aliases
<1>3. PICK j \in 1..n : chain[j] = a
  BY <1>1, <1>2 DEF Range
<1>4. \A k \in 2..n : /\ chain[k] \in DOMAIN idx.rootOf
                      /\ \E i \in 1..(k - 1) : chain[i] = R[chain[k]]
  BY BeyondTheRoot
<1>5. \A k \in 1..n : chain[k] \in Coordinate
  BY <1>1
<1>6. \/ n = 1
      \/ chain = idx.chains[r] /\ r \in DOMAIN idx.chains
  BY ChainOf
<1> HIDE DEF chain, n, r
<1>7. j \in 1..n /\ n \in 1..n /\ j < n /\ n \in 2..n /\ (j = 1 \/ j \in 2..n)
  <2>1. j # n
    BY <1>1, <1>3
  <2> QED  BY <2>1, <1>1, <1>3
<1>8. Late = {}
  <2> SUFFICES ASSUME Late # {} PROVE FALSE
    OBVIOUS
  <2>1. PICK k \in Late : \A i \in 0..(k - 1) : i \notin Late
    <3>1. Late \in SUBSET Nat
      BY <1>1
    <3> HIDE DEF Late
    <3> QED  BY <3>1, Least
  <2>2. k \in 2..n /\ ~ScannedAfter(chain[k], chain[1])
    OBVIOUS
  <2>3. PICK i \in 1..(k - 1) : chain[i] = R[chain[k]]
    BY <2>2, <1>4
  <2>4. i \in 0..(k - 1) /\ i \in 1..n /\ (i = 1 \/ i \in 2..n) /\ 1 \in 1..n
        /\ k \in 1..n
    BY <2>2, <2>3, <1>1
  <2>5. ScannedAfter(chain[k], chain[i])
    BY <2>2, <2>3, <1>4
  <2>6. i = 1 \/ ScannedAfter(chain[i], chain[1])
    <3>1. i \notin Late
      <4> HIDE DEF Late
      <4> QED  BY <2>1, <2>4
    <3> QED  BY <3>1, <2>4
  <2>7. ScannedAfter(chain[k], chain[1])
    <3>1. CASE i = 1
      BY <3>1, <2>5
    <3>2. CASE i # 1
      <4>1. chain[k] \in Coordinate /\ chain[i] \in Coordinate /\ chain[1] \in Coordinate
        BY <2>4, <1>5
      <4> QED  BY <4>1, <3>2, <2>5, <2>6, ScanOrder
    <3> QED  BY <3>1, <3>2
  <2> QED  BY <2>2, <2>7
<1>9. CASE j = 1
  BY <1>1, <1>3, <1>7, <1>8, <1>9
<1>10. CASE j \in 2..n
  <2>1. ASSUME n = 1 PROVE FALSE
    <3>1. j \in 2..1
      BY <1>10, <2>1
    <3> QED  BY <3>1
  <2>2. chain = idx.chains[r] /\ r \in DOMAIN idx.chains
    BY <2>1, <1>6
  <2>3. n = Len(chain)
    BY DEF n
  <2>4. ScannedAfter(chain[n], chain[j])
    BY <2>2, <2>3, <1>7, <1>10 DEF Sorted
  <2> QED  BY <2>4, <1>1, <1>3
<1> QED  BY <1>7, <1>9, <1>10

-----------------------------------------------------------------------------
(* Steps that leave the index alone *)

LEMMA EntitiesKnown ==
  ASSUME IInv
  PROVE  /\ WellIndexed(index, redirOf, Entity)
         /\ Entity \in SUBSET Coordinate /\ Entity \subseteq DOMAIN mask
         /\ Root \subseteq Entity
         /\ \A p \in DOMAIN redirOf :
              redirOf[p] \in Entity /\ p \in Entity /\ ScannedAfter(p, redirOf[p])
<1>1. WellIndexed(index, redirOf, Entity)
  BY DEF IInv, Indexed
<1>2. Entity \in SUBSET Coordinate /\ Entity \subseteq DOMAIN mask /\ Root \subseteq Entity
  BY DEF IInv, Typed, Entity, Root
<1>3. ASSUME NEW p \in DOMAIN redirOf
      PROVE  redirOf[p] \in Entity /\ p \in Entity /\ ScannedAfter(p, redirOf[p])
  <2>1. redirOf[p] \in Entity /\ p \in Entity /\ redirOf[p][1] < p[1]
    BY DEF IInv, Written
  <2> QED  BY <2>1 DEF ScannedAfter
<1> QED  BY <1>1, <1>2, <1>3

\* What is seen of an entity.
LEMMA Seen ==
  ASSUME IInv
  PROVE  /\ DOMAIN View = Root
         /\ \A e \in Root :
              /\ View[e] = DynamicMask(e) /\ View[e] \subseteq Component
              /\ e \in Entity /\ Terminal(index, e) \in Entity
              /\ LogicalRoot(index, e) = e
<1>1. ASSUME NEW e \in Root
      PROVE  /\ View[e] = DynamicMask(e) /\ View[e] \subseteq Component
             /\ e \in Entity /\ Terminal(index, e) \in Entity
             /\ LogicalRoot(index, e) = e
  <2>1. e \in Entity /\ e \notin DOMAIN index.rootOf
    BY DEF Root
  <2>2. Terminal(index, e) \in Entity /\ Terminal(index, e) \in DOMAIN mask
    BY <2>1, EntitiesKnown, Resolved
  <2>3. DynamicMask(e) \subseteq Component
    BY <2>2 DEF DynamicMask, RawMask, IInv, Typed
  <2> QED  BY <2>1, <2>2, <2>3 DEF View, LogicalRoot
<1> QED  BY <1>1 DEF View

\* A step that adds entities at most, and one that does nothing, is an
\* appearance in the flat store.
LEMMA Appears ==
  ASSUME IInv, IInv', UNCHANGED <<index, tombOf, tombQ, shadowQ>>,
         DOMAIN mask \subseteq DOMAIN mask',
         \A e \in DOMAIN mask : mask'[e] = mask[e],
         active' \cap DOMAIN mask = active
  PROVE  Flat!Appear
<1>1. Entity \subseteq Entity' /\ Entity' \cap DOMAIN mask = Entity
  BY DEF Entity
<1>2. Root \subseteq Root' /\ \A e \in Root' : e \in DOMAIN mask => e \in Root
  BY <1>1 DEF Root
<1>3. ASSUME NEW e \in Entity
      PROVE  /\ DynamicMask(e)' = DynamicMask(e)
             /\ RedirectChain(index', e) = RedirectChain(index, e)
  <2>1. Terminal(index, e) \in DOMAIN mask
    BY EntitiesKnown, Resolved
  <2> QED  BY <2>1 DEF DynamicMask, RawMask
<1>4. Pending' = Pending
  BY DEF Pending
<1>5. Scarred' = Scarred
  <2>1. ASSUME NEW e \in Root
        PROVE  e \in Scarred' <=> e \in Scarred
    <3>1. e \in Entity /\ e \in Root'
      BY <1>2 DEF Root
    <3>2. RedirectChain(index, e) \in Seq(Entity)
      BY <3>1, EntitiesKnown, Resolved
    <3>3. \A i \in DOMAIN RedirectChain(index, e) :
            RedirectChain(index, e)[i] \in DOMAIN mask
      BY <3>2, EntitiesKnown
    <3> QED  BY <3>1, <3>3, <1>3 DEF Scarred
  <2>2. ASSUME NEW e \in Root', e \notin Root PROVE e \notin Scarred'
    <3>1. e \notin DOMAIN mask /\ e \notin DOMAIN index.rootOf
      BY <2>2, <1>2 DEF Root
    <3>2. e \notin DOMAIN index.chains
      BY <3>1, EntitiesKnown DEF WellIndexed, Chained
    <3>3. RedirectChain(index, e) = <<e>>
      BY <3>1, <3>2 DEF RedirectChain, LogicalRoot
    <3>4. \A i \in DOMAIN <<e>> : i = 1
      OBVIOUS
    <3> QED  BY <3>3, <3>4 DEF Scarred
  <2> QED  BY <2>1, <2>2, <1>2 DEF Scarred
<1>6. /\ DOMAIN View = Root /\ DOMAIN View' = Root'
      /\ \A e \in Root : View[e] = DynamicMask(e)
      /\ \A e \in Root' : View'[e] = DynamicMask(e)'
  BY DEF View
<1>7. ASSUME NEW e \in Root'
      PROVE  IF e \in Root THEN View'[e] = View[e] ELSE View'[e] \subseteq Component
  <2>1. CASE e \in Root
    BY <2>1, <1>2, <1>3, <1>6 DEF Root
  <2>2. CASE e \notin Root
    <3>1. WellIndexed(index', redirOf', Entity') /\ e \in Entity'
      BY DEF IInv, Indexed, Root
    <3>2. Terminal(index', e) \in Entity'
      BY <3>1, Resolved
    <3>3. Terminal(index', e) \in DOMAIN mask' /\ mask' \in [DOMAIN mask' -> SUBSET Component]
      BY <3>2 DEF IInv, Typed, Entity
    <3>4. DynamicMask(e)' \subseteq Component
      BY <3>3 DEF DynamicMask, RawMask
    <3> QED  BY <2>2, <3>4, <1>6
  <2> QED  BY <2>1, <2>2
<1> QED  BY <1>2, <1>4, <1>5, <1>6, <1>7 DEF Flat!Appear

-----------------------------------------------------------------------------
(* Writes *)

\* A write to the slot of a newest alias is seen in one entity.
LEMMA InPlace ==
  ASSUME IInv, UNCHANGED <<index, tombOf, tombQ, shadowQ>>,
         NEW t \in Entity, Terminal(index, t) = t,
         DOMAIN mask' = DOMAIN mask, active' \subseteq active,
         \A x \in DOMAIN mask : x # t =>
           mask'[x] = mask[x] /\ (x \in active' <=> x \in active),
         LET old == RawMask(t)  new == RawMask(t)'
         IN  old \subseteq new \/ new \subseteq old
  PROVE  Flat!WriteNow
<1> DEFINE r == LogicalRoot(index, t)
<1>1. /\ r \in Root /\ Terminal(index, r) = t /\ LogicalRoot(index, r) = r
      /\ r \in Entity
  <2>1. r \in Entity /\ r \notin DOMAIN index.rootOf
    BY EntitiesKnown, Resolved
  <2>2. Terminal(index, r) = Terminal(index, t) /\ LogicalRoot(index, r) = r
    BY EntitiesKnown, Resolves
  <2> QED  BY <2>1, <2>2 DEF Root
<1>2. Entity' = Entity /\ Root' = Root
  BY DEF Entity, Root
<1>3. ASSUME NEW e \in Root, e # r
      PROVE  /\ View'[e] = View[e]
             /\ \A i \in DOMAIN RedirectChain(index, e) :
                  RedirectChain(index, e)[i] \in active' <=>
                    RedirectChain(index, e)[i] \in active
  <2>1. e \in Entity /\ LogicalRoot(index, e) = e /\ Terminal(index, e) \in Entity
    BY Seen
  <2>2. Terminal(index, e) # t
    <3>1. LogicalRoot(index, Terminal(index, e)) = e
      BY <2>1, EntitiesKnown, Resolves
    <3> QED  BY <3>1, <1>3
  <2>3. Terminal(index, e) \in DOMAIN mask
    BY <2>1, EntitiesKnown
  <2>4. View'[e] = View[e]
    BY <2>2, <2>3, <1>2 DEF View, DynamicMask, RawMask
  <2>5. ASSUME NEW i \in DOMAIN RedirectChain(index, e)
        PROVE  RedirectChain(index, e)[i] \in DOMAIN mask /\ RedirectChain(index, e)[i] # t
    <3>1. RedirectChain(index, e) \in Seq(Entity)
      BY <2>1, EntitiesKnown, Resolved
    <3>2. /\ RedirectChain(index, e)[i] \in Entity
          /\ RedirectChain(index, e)[i] \in Range(RedirectChain(index, e))
      BY <3>1 DEF Range
    <3>3. LogicalRoot(index, RedirectChain(index, e)[i]) = e
      BY <2>1, <3>2, EntitiesKnown, Aliases
    <3> QED  BY <3>2, <3>3, <1>3, EntitiesKnown
  <2> QED  BY <2>4, <2>5
<1>4. /\ DOMAIN View = Root /\ DOMAIN View' = Root
      /\ View[r] = IF t \in index.shadowed THEN {} ELSE RawMask(t)
      /\ View'[r] = IF t \in index.shadowed THEN {} ELSE RawMask(t)'
  BY <1>1, <1>2 DEF View, DynamicMask, IsTombstoned, RawMask
<1> HIDE DEF r
<1>5. View' = [View EXCEPT ![r] = View'[r]]
  <2>1. View = [e \in Root |-> View[e]] /\ View' = [e \in Root |-> View'[e]]
    BY <1>2 DEF View
  <2> QED  BY <2>1, <1>1, <1>3, <1>4
<1>6. View[r] \subseteq View'[r] \/ View'[r] \subseteq View[r]
  BY <1>4
<1>7. Scarred' \in {Scarred, IF View'[r] = {} THEN Scarred \cup {r} ELSE Scarred}
  <2>1. \A e \in Root : e # r => (e \in Scarred' <=> e \in Scarred)
    BY <1>2, <1>3 DEF Scarred
  <2>2. Scarred \subseteq Root /\ Scarred' \subseteq Root
    BY <1>2 DEF Scarred
  <2>3. r \in Scarred => r \in Scarred'
    BY <1>2 DEF Scarred
  <2>4. CASE t \in active'
    <3>1. \A x \in DOMAIN mask : x \in active' <=> x \in active
      BY <2>4
    <3>2. active' = active
      BY <3>1 DEF IInv, Typed
    <3>3. Scarred' = Scarred
      BY <3>2, <1>2 DEF Scarred
    <3> QED  BY <3>3
  <2>5. CASE t \notin active'
    <3>1. View'[r] = {}
      BY <1>4, <2>5 DEF RawMask
    <3>2. Scarred' = Scarred \/ Scarred' = Scarred \cup {r}
      BY <2>1, <2>2, <2>3
    <3> QED  BY <3>1, <3>2
  <2> QED  BY <2>4, <2>5
<1>8. Pending' = Pending
  BY DEF Pending
<1> QED  BY <1>1, <1>4, <1>5, <1>6, <1>7, <1>8 DEF Flat!WriteNow, Flat!Outcome

\* The queues, as the flat store sees them.
Erasing(idx, tomb) == <<LogicalRoot(idx, tomb), {}>>
Patching(idx, shadow) == <<LogicalRoot(idx, shadow.base), shadow.new>>

\* What shadow_queue holds.
ShadowOf(U) == [base : U, new : SUBSET Component]

PendingIn(idx, tombs, shadows) ==
  [i \in 1..Len(tombs) |-> Erasing(idx, tombs[i])]
    \o [i \in 1..Len(shadows) |->
          Patching(idx, shadows[i])]

\* The markers to write come first, then the patches.
Shaped(todo, idx, tombs, shadows) ==
  /\ Len(todo) = Len(tombs) + Len(shadows)
  /\ \A i \in 1..Len(tombs) : todo[i] = Erasing(idx, tombs[i])
  /\ \A i \in (Len(tombs) + 1)..(Len(tombs) + Len(shadows)) :
       todo[i] = Patching(idx, shadows[i - Len(tombs)])

LEMMA PendingShape ==
  ASSUME NEW idx, NEW R, NEW U, WellIndexed(idx, R, U), NEW tombs \in Seq(U),
         NEW shadows \in Seq(ShadowOf(U)),
         NEW todo, todo = PendingIn(idx, tombs, shadows)
  PROVE  todo \in Seq(U \X SUBSET Component) /\ Shaped(todo, idx, tombs, shadows)
<1> DEFINE V == U \X SUBSET Component
           f == [i \in 1..Len(tombs) |-> Erasing(idx, tombs[i])]
           g == [i \in 1..Len(shadows) |->
                   Patching(idx, shadows[i])]
<1>1. todo = f \o g
  BY DEF PendingIn
<1>2. \A x \in U : LogicalRoot(idx, x) \in U
  BY Resolved
<1>3. Len(tombs) \in Nat /\ Len(shadows) \in Nat
  OBVIOUS
<1>4. \A i \in 1..Len(tombs) : Erasing(idx, tombs[i]) \in V
  <2>1. \A i \in 1..Len(tombs) : tombs[i] \in U
    OBVIOUS
  <2> QED  BY <2>1, <1>2 DEF Erasing
<1>5. \A i \in 1..Len(shadows) :
        Patching(idx, shadows[i]) \in V
  <2>1. \A i \in 1..Len(shadows) : shadows[i] \in ShadowOf(U)
    BY ElementOfSeq
  <2>2. \A i \in 1..Len(shadows) :
          shadows[i].base \in U /\ shadows[i].new \in SUBSET Component
    BY <2>1 DEF ShadowOf
  <2> QED  BY <2>2, <1>2 DEF Patching
<1> HIDE DEF V
<1>6. f \in Seq(V) /\ Len(f) = Len(tombs) /\ g \in Seq(V) /\ Len(g) = Len(shadows)
  BY <1>3, <1>4, <1>5
<1>7. /\ \A i \in 1..Len(tombs) : f[i] = Erasing(idx, tombs[i])
      /\ \A i \in 1..Len(shadows) :
           g[i] = Patching(idx, shadows[i])
  OBVIOUS
<1> HIDE DEF f, g
<1>8. /\ f \o g \in Seq(V) /\ Len(f \o g) = Len(f) + Len(g)
      /\ \A i \in 1..Len(f) + Len(g) :
           (f \o g)[i] = IF i <= Len(f) THEN f[i] ELSE g[i - Len(f)]
  BY <1>6, ConcatProperties
<1>9. \A i \in 1..Len(tombs) : todo[i] = f[i]
  BY <1>1, <1>3, <1>6, <1>8
<1>10. ASSUME NEW i \in (Len(tombs) + 1)..(Len(tombs) + Len(shadows))
       PROVE  todo[i] = Patching(idx, shadows[i - Len(tombs)])
  <2>1. /\ i \in 1..Len(f) + Len(g) /\ ~(i <= Len(f))
        /\ i - Len(f) = i - Len(tombs) /\ i - Len(tombs) \in 1..Len(shadows)
    BY <1>3, <1>6
  <2>2. todo[i] = g[i - Len(tombs)]
    BY <2>1, <1>1, <1>8
  <2> QED  BY <2>1, <2>2, <1>7
<1> QED  BY <1>1, <1>6, <1>7, <1>8, <1>9, <1>10 DEF V, Shaped

\* The queues of a state.
LEMMA PendingIs ==
  ASSUME IInv
  PROVE  /\ Pending = PendingIn(index, tombQ, shadowQ)
         /\ tombQ \in Seq(Entity)
         /\ shadowQ \in Seq(ShadowOf(Entity))
<1>1. [base : Frozen, new : SUBSET Component] \subseteq [base : Entity, new : SUBSET Component]
  BY DEF Frozen
<1>2. shadowQ \in Seq([base : Entity, new : SUBSET Component])
  BY <1>1, SeqOfMore DEF IInv, Queueing
<1>3. tombQ \in Seq(Entity)
  BY DEF IInv, Queueing
<1> QED  BY <1>2, <1>3 DEF Pending, PendingIn, Erasing, Patching, ShadowOf

\* A queue has one element more than another, at place k.
OneMoreAt(long, short, k) ==
  /\ Len(long) = Len(short) + 1
  /\ k \in 1..Len(long)
  /\ \A i \in 1..(k - 1) : long[i] = short[i]
  /\ \A i \in k..Len(short) : long[i + 1] = short[i]

\* What is left of a queue without one element.
LEMMA Without ==
  ASSUME NEW V, NEW short \in Seq(V), NEW long \in Seq(V), NEW k,
         OneMoreAt(long, short, k)
  PROVE  short = RemoveAt(long, k) /\ k \in DOMAIN long
<1> DEFINE a == SubSeq(long, 1, k - 1)
           b == SubSeq(long, k + 1, Len(long))
<1>0. /\ Len(long) = Len(short) + 1 /\ k \in 1..Len(long)
      /\ \A i \in 1..(k - 1) : long[i] = short[i]
      /\ \A i \in k..Len(short) : long[i + 1] = short[i]
  BY DEF OneMoreAt
<1>1. Len(long) \in Nat /\ Len(short) \in Nat /\ k \in Nat
      /\ \A i \in 1..Len(long) : long[i] \in V
  BY <1>0
<1>2. /\ a \in Seq(V) /\ Len(a) = k - 1
      /\ \A i \in 1..(k - 1) : a[i] = long[i]
  <2>1. \A i \in 1..(k - 1) : long[i] \in V
    BY <1>0, <1>1
  <2>2. /\ a \in Seq(V) /\ Len(a) = (IF 1 <= k - 1 THEN k - 1 - 1 + 1 ELSE 0)
        /\ \A i \in 1..(k - 1) - 1 + 1 : a[i] = long[1 + i - 1]
    BY <2>1, <1>0, <1>1, SubSeqProperties
  <2> HIDE DEF a
  <2> QED  BY <2>2, <1>0, <1>1
<1>3. /\ b \in Seq(V) /\ Len(b) = Len(long) - k
      /\ \A i \in 1..(Len(long) - k) : b[i] = long[k + i]
  <2>1. \A i \in (k + 1)..Len(long) : long[i] \in V
    BY <1>0, <1>1
  <2>2. /\ b \in Seq(V)
        /\ Len(b) = (IF k + 1 <= Len(long) THEN Len(long) - (k + 1) + 1 ELSE 0)
        /\ \A i \in 1..Len(long) - (k + 1) + 1 : b[i] = long[(k + 1) + i - 1]
    BY <2>1, <1>0, <1>1, SubSeqProperties
  <2> HIDE DEF b
  <2> QED  BY <2>2, <1>0, <1>1
<1> HIDE DEF a, b
<1>4. /\ a \o b \in Seq(V) /\ Len(a \o b) = Len(a) + Len(b)
      /\ \A i \in 1..Len(a) + Len(b) :
           (a \o b)[i] = IF i <= Len(a) THEN a[i] ELSE b[i - Len(a)]
  BY <1>2, <1>3, ConcatProperties
<1>5. Len(a \o b) = Len(short)
  BY <1>0, <1>1, <1>2, <1>3, <1>4
<1>6. ASSUME NEW i \in 1..Len(short) PROVE short[i] = (a \o b)[i]
  <2>1. (a \o b)[i] = IF i <= Len(a) THEN a[i] ELSE b[i - Len(a)]
    BY <1>4, <1>5, <1>0
  <2>2. CASE i <= k - 1
    <3>1. i \in 1..(k - 1) /\ i <= Len(a)
      BY <2>2, <1>0, <1>1, <1>2
    <3> QED  BY <3>1, <2>1, <1>0, <1>2
  <2>3. CASE ~(i <= k - 1)
    <3>1. /\ i \in k..Len(short) /\ ~(i <= Len(a)) /\ i - Len(a) = i - (k - 1)
          /\ i - (k - 1) \in 1..(Len(long) - k) /\ k + (i - (k - 1)) = i + 1
      BY <2>3, <1>0, <1>1, <1>2
    <3> QED  BY <3>1, <2>1, <1>0, <1>3
  <2> QED  BY <2>2, <2>3
<1>7. short = a \o b
  BY <1>4, <1>5, <1>6, SeqEqual
<1>8. k \in DOMAIN long
  BY <1>0, <1>1
<1> QED  BY <1>7, <1>8 DEF RemoveAt, a, b

\* A queue has x in addition.
Grown(long, old, x) ==
  /\ Len(long) = Len(old) + 1
  /\ \E k \in DOMAIN long : long[k] = x /\ old = RemoveAt(long, k)

\* A queue with one more element.
LEMMA LongerTombs ==
  ASSUME NEW idx, NEW R, NEW U, WellIndexed(idx, R, U), NEW tombs \in Seq(U),
         NEW shadows \in Seq(ShadowOf(U)),
         NEW t \in U, NEW more, more = Append(tombs, t),
         NEW old, old = PendingIn(idx, tombs, shadows),
         NEW long, long = PendingIn(idx, more, shadows)
  PROVE  Grown(long, old, Erasing(idx, t))
<1> DEFINE V == U \X SUBSET Component
           k == Len(tombs) + 1
<1>1. /\ more \in Seq(U) /\ Len(more) = k /\ more[k] = t
      /\ \A i \in 1..Len(tombs) : more[i] = tombs[i]
  BY OneMore
<1>2. Len(tombs) \in Nat /\ Len(shadows) \in Nat
  OBVIOUS
<1>3. old \in Seq(V) /\ Shaped(old, idx, tombs, shadows)
  BY PendingShape
<1>31. /\ Len(old) = Len(tombs) + Len(shadows)
       /\ \A i \in 1..Len(tombs) : old[i] = Erasing(idx, tombs[i])
       /\ \A i \in (Len(tombs) + 1)..(Len(tombs) + Len(shadows)) :
            old[i] = Patching(idx, shadows[i - Len(tombs)])
  BY <1>3 DEF Shaped
<1>4. long \in Seq(V) /\ Shaped(long, idx, more, shadows)
  BY <1>1, PendingShape
<1>42. /\ Len(long) = Len(more) + Len(shadows)
       /\ \A i \in 1..Len(more) : long[i] = Erasing(idx, more[i])
       /\ \A i \in (Len(more) + 1)..(Len(more) + Len(shadows)) :
            long[i] = Patching(idx, shadows[i - Len(more)])
  BY <1>4 DEF Shaped
<1> HIDE DEF V
<1>5. Len(long) = Len(old) + 1 /\ Len(old) \in Nat /\ k \in 1..Len(long)
  BY <1>1, <1>2, <1>31, <1>42
<1>6. long[k] = Erasing(idx, t)
  <2>1. k \in 1..Len(more)
    BY <1>1, <1>2
  <2> QED  BY <2>1, <1>1, <1>42
<1>7. ASSUME NEW i \in 1..(k - 1) PROVE long[i] = old[i]
  <2>1. i \in 1..Len(tombs) /\ i \in 1..Len(more)
    BY <1>1, <1>2
  <2> QED  BY <2>1, <1>1, <1>31, <1>42
<1>8. ASSUME NEW i \in k..Len(old) PROVE long[i + 1] = old[i]
  <2>1. /\ i \in (Len(tombs) + 1)..(Len(tombs) + Len(shadows))
        /\ i + 1 \in (Len(more) + 1)..(Len(more) + Len(shadows))
        /\ (i + 1) - Len(more) = i - Len(tombs)
    BY <1>1, <1>2, <1>31
  <2>2. long[i + 1] = Patching(idx, shadows[i - Len(tombs)])
    <3>1. long[i + 1] = Patching(idx, shadows[(i + 1) - Len(more)])
      BY <2>1, <1>42
    <3> QED  BY <3>1, <2>1
  <2>3. old[i] = Patching(idx, shadows[i - Len(tombs)])
    BY <2>1, <1>31
  <2> QED  BY <2>2, <2>3
<1> HIDE DEF k
<1>9. OneMoreAt(long, old, k)
  BY <1>5, <1>7, <1>8 DEF OneMoreAt
<1>10. k \in DOMAIN long /\ old = RemoveAt(long, k)
  BY <1>3, <1>4, <1>9, Without
<1> QED  BY <1>5, <1>6, <1>10 DEF Grown

LEMMA LongerShadows ==
  ASSUME NEW idx, NEW R, NEW U, WellIndexed(idx, R, U), NEW tombs \in Seq(U),
         NEW shadows \in Seq(ShadowOf(U)),
         NEW x \in ShadowOf(U), NEW more, more = Append(shadows, x),
         NEW old, old = PendingIn(idx, tombs, shadows),
         NEW long, long = PendingIn(idx, tombs, more)
  PROVE  Grown(long, old, Patching(idx, x))
<1> DEFINE V == U \X SUBSET Component
           n == Len(shadows) + 1
           k == Len(tombs) + n
<1>1. /\ more \in Seq(ShadowOf(U)) /\ Len(more) = n /\ more[n] = x
      /\ \A i \in 1..Len(shadows) : more[i] = shadows[i]
  BY OneMore
<1>2. Len(tombs) \in Nat /\ Len(shadows) \in Nat
  OBVIOUS
<1>3. old \in Seq(V) /\ Shaped(old, idx, tombs, shadows)
  BY PendingShape
<1>31. /\ Len(old) = Len(tombs) + Len(shadows)
       /\ \A i \in 1..Len(tombs) : old[i] = Erasing(idx, tombs[i])
       /\ \A i \in (Len(tombs) + 1)..(Len(tombs) + Len(shadows)) :
            old[i] = Patching(idx, shadows[i - Len(tombs)])
  BY <1>3 DEF Shaped
<1>4. long \in Seq(V) /\ Shaped(long, idx, tombs, more)
  BY <1>1, PendingShape
<1>42. /\ Len(long) = Len(tombs) + Len(more)
       /\ \A i \in 1..Len(tombs) : long[i] = Erasing(idx, tombs[i])
       /\ \A i \in (Len(tombs) + 1)..(Len(tombs) + Len(more)) :
            long[i] = Patching(idx, more[i - Len(tombs)])
  BY <1>4 DEF Shaped
<1> HIDE DEF V
<1>5. Len(long) = Len(old) + 1 /\ Len(old) \in Nat /\ k \in 1..Len(long) /\ k = Len(old) + 1
  BY <1>1, <1>2, <1>31, <1>42
<1>6. long[k] = Patching(idx, x)
  <2>1. k \in (Len(tombs) + 1)..(Len(tombs) + Len(more)) /\ k - Len(tombs) = n
    BY <1>1, <1>2
  <2>2. long[k] = Patching(idx, more[k - Len(tombs)])
    <3> HIDE DEF k
    <3> QED  BY <2>1, <1>42
  <2> QED  BY <2>1, <2>2, <1>1
<1>7. ASSUME NEW i \in 1..(k - 1) PROVE long[i] = old[i]
  <2>1. CASE i \in 1..Len(tombs)
    BY <2>1, <1>31, <1>42
  <2>2. CASE i \notin 1..Len(tombs)
    <3>1. /\ i \in (Len(tombs) + 1)..(Len(tombs) + Len(shadows))
          /\ i \in (Len(tombs) + 1)..(Len(tombs) + Len(more))
          /\ i - Len(tombs) \in 1..Len(shadows)
      BY <2>2, <1>1, <1>2
    <3>2. long[i] = Patching(idx, more[i - Len(tombs)])
      BY <3>1, <1>42
    <3>3. old[i] = Patching(idx, shadows[i - Len(tombs)])
      BY <3>1, <1>31
    <3>4. more[i - Len(tombs)] = shadows[i - Len(tombs)]
      BY <3>1, <1>1
    <3> QED  BY <3>2, <3>3, <3>4
  <2> QED  BY <2>1, <2>2
<1>8. \A i \in k..Len(old) : long[i + 1] = old[i]
  BY <1>5
<1> HIDE DEF k, n
<1>9. OneMoreAt(long, old, k)
  BY <1>5, <1>7, <1>8 DEF OneMoreAt
<1>10. k \in DOMAIN long /\ old = RemoveAt(long, k)
  BY <1>3, <1>4, <1>9, Without
<1> QED  BY <1>5, <1>6, <1>10 DEF Grown

\* What stays as long as slots, markers and index stay.
LEMMA SameView ==
  ASSUME UNCHANGED <<mask, active, tombOf, index>>
  PROVE  Entity' = Entity /\ Root' = Root /\ View' = View /\ Scarred' = Scarred
<1>1. Entity' = Entity /\ Root' = Root
  BY DEF Entity, Root
<1>2. \A e : DynamicMask(e)' = DynamicMask(e)
  BY DEF DynamicMask, RawMask
<1>3. View' = View
  BY <1>1, <1>2 DEF View
<1>4. Scarred' = Scarred
  BY <1>1 DEF Scarred
<1> QED  BY <1>1, <1>3, <1>4

\* A write that is queued.
LEMMA Deferred ==
  ASSUME IInv, UNCHANGED <<mask, active, tombOf, index>>,
         NEW t \in Entity, Terminal(index, t) = t, NEW m \in SUBSET Component,
         DynamicMask(t) \subseteq m \/ m \subseteq DynamicMask(t),
         Grown(Pending', Pending, <<LogicalRoot(index, t), m>>)
  PROVE  Flat!WriteLater
<1> DEFINE r == LogicalRoot(index, t)
<1>1. r \in Root /\ Terminal(index, r) = t
  <2>1. r \in Entity /\ r \notin DOMAIN index.rootOf
    BY EntitiesKnown, Resolved
  <2>2. Terminal(index, r) = Terminal(index, t)
    BY EntitiesKnown, Resolves
  <2> QED  BY <2>1, <2>2 DEF Root
<1>2. DOMAIN View = Root /\ View[r] = DynamicMask(t)
  BY <1>1 DEF View, DynamicMask
<1>3. View' = View /\ Scarred' = Scarred
  BY SameView
<1>4. PICK k \in DOMAIN Pending' : /\ Pending'[k] = <<r, m>>
                                   /\ Pending = RemoveAt(Pending', k)
  BY DEF Grown
<1>8. Len(Pending') = Len(Pending) + 1
  BY DEF Grown
<1> HIDE DEF r
<1>5. Pending'[k][1] = r /\ Pending'[k][2] = m
  BY <1>4
<1>6. Flat!RemoveAt(Pending', k) = RemoveAt(Pending', k)
  BY DEF Flat!RemoveAt, RemoveAt
<1>7. Pending'[k][1] \in DOMAIN View /\ Flat!Outcome(View[Pending'[k][1]], Pending'[k][2])
  BY <1>1, <1>2, <1>5 DEF Flat!Outcome
<1> QED  BY <1>3, <1>4, <1>6, <1>7, <1>8 DEF Flat!WriteLater

LEMMA PendingNext == Pending' = PendingIn(index', tombQ', shadowQ')
BY DEF Pending, PendingIn, Erasing, Patching

\* destroy_entity writes at once or queues a marker.
LEMMA DestroyWrites ==
  ASSUME IInv, NEW e \in Entity, DestroyEntity(e)
  PROVE  Flat!WriteNow \/ Flat!WriteLater
<1>0. PICK t : t = WriteTarget(e)
  OBVIOUS
<1>1. /\ t \in Entity /\ t \in DOMAIN mask
      /\ UNCHANGED <<depth, payloadVars, index, mode>>
  BY <1>0, Target DEF DestroyEntity
<1>2. Terminal(index, t) = t
  BY <1>0, EntitiesKnown, Resolves DEF WriteTarget
<1>3. index' = index /\ tombOf' = tombOf
  BY <1>1 DEF payloadVars
<1>4. CASE Writable(t) /\ DestroyImmediate(t)
  <2>1. /\ mask' = [x \in DOMAIN mask |-> IF x = t THEN {} ELSE mask[x]]
        /\ active' = active \ {t} /\ tombQ' = tombQ /\ shadowQ' = shadowQ
    BY <1>4 DEF DestroyImmediate, queueVars
  <2>2. RawMask(t)' = {}
    BY <2>1 DEF RawMask
  <2> QED  BY <2>1, <2>2, <1>1, <1>2, <1>3, InPlace
<1>5. CASE /\ tombQ' = Append(tombQ, t)
           /\ UNCHANGED <<physicalVars, adj, spawnQ, edgeQ, shadowQ>>
  <2> DEFINE more == tombQ'
  <2>1. UNCHANGED <<mask, active, tombOf, index, shadowQ>>
    BY <1>3, <1>5 DEF physicalVars
  <2>2. /\ Pending = PendingIn(index, tombQ, shadowQ)
        /\ tombQ \in Seq(Entity) /\ shadowQ \in Seq(ShadowOf(Entity))
    BY PendingIs
  <2>3. more = Append(tombQ, t) /\ Pending' = PendingIn(index, more, shadowQ)
    BY <1>5, <2>1, PendingNext
  <2>4. WellIndexed(index, redirOf, Entity)
    BY EntitiesKnown
  <2> HIDE DEF more
  <2>5. Grown(Pending', Pending, <<LogicalRoot(index, t), {}>>)
    <3>1. t \in Entity /\ tombQ \in Seq(Entity) /\ shadowQ \in Seq(ShadowOf(Entity))
      BY <1>1, <2>2
    <3>2. Grown(Pending', Pending, Erasing(index, t))
      BY <3>1, <2>2, <2>3, <2>4, LongerTombs
    <3> QED  BY <3>2 DEF Erasing
  <2>6. {} \in SUBSET Component /\ {} \subseteq DynamicMask(t)
    OBVIOUS
  <2> QED  BY <2>1, <2>5, <2>6, <1>1, <1>2, Deferred
<1> QED  BY <1>0, <1>4, <1>5 DEF DestroyEntity

\* add_component and remove_component write at once or queue a patch.
LEMMA ChangeWrites ==
  ASSUME IInv, NEW e \in Entity, NEW gained \in SUBSET Component,
         NEW lost \in SUBSET Component, gained = {} \/ lost = {},
         Change(e, gained, lost)
  PROVE  Flat!WriteNow \/ Flat!WriteLater
<1>0. PICK t : t = WriteTarget(e)
  OBVIOUS
<1> DEFINE Changed(m) == (m \cup gained) \ lost
<1>1. /\ t \in Entity /\ t \in DOMAIN mask
      /\ UNCHANGED <<depth, next, active, payloadVars, adj, index, mode>>
  BY <1>0, Target DEF Change
<1>2. Terminal(index, t) = t
  BY <1>0, EntitiesKnown, Resolves DEF WriteTarget
<1>3. index' = index /\ tombOf' = tombOf /\ active' = active
  BY <1>1 DEF payloadVars
<1>4. \A m : m \subseteq Changed(m) \/ Changed(m) \subseteq m
  OBVIOUS
<1>5. CASE /\ Writable(t)
           /\ mask' = [mask EXCEPT ![t] = IF t \in active THEN Changed(@) ELSE @]
           /\ bloom' = Widened(t, gained)
           /\ UNCHANGED queueVars
  <2>1. /\ DOMAIN mask' = DOMAIN mask
        /\ \A x \in DOMAIN mask : x # t => mask'[x] = mask[x]
        /\ mask'[t] = IF t \in active THEN Changed(mask[t]) ELSE mask[t]
        /\ tombQ' = tombQ /\ shadowQ' = shadowQ
    BY <1>1, <1>5 DEF IInv, Typed, queueVars
  <2>2. RawMask(t)' = IF t \in active THEN Changed(RawMask(t)) ELSE RawMask(t)
    BY <1>3, <2>1 DEF RawMask
  <2> HIDE DEF Changed
  <2>3. RawMask(t) \subseteq RawMask(t)' \/ RawMask(t)' \subseteq RawMask(t)
    BY <2>2, <1>4
  <2> QED  BY <2>1, <2>3, <1>1, <1>2, <1>3, InPlace
<1>6. CASE /\ ~Writable(t)
           /\ shadowQ' = Append(shadowQ, [base |-> t,
                                         new |-> Changed(DynamicMask(t))])
           /\ UNCHANGED <<mask, bloom, spawnQ, edgeQ, tombQ>>
  <2> DEFINE m == Changed(DynamicMask(t))
             x == [base |-> t, new |-> m]
             more == shadowQ'
  <2>1. UNCHANGED <<mask, active, tombOf, index, tombQ>>
    BY <1>3, <1>6
  <2>2. /\ Pending = PendingIn(index, tombQ, shadowQ)
        /\ tombQ \in Seq(Entity) /\ shadowQ \in Seq(ShadowOf(Entity))
    BY PendingIs
  <2>3. Pending' = PendingIn(index, tombQ, more)
    BY <2>1, PendingNext
  <2>4. WellIndexed(index, redirOf, Entity)
    BY EntitiesKnown
  <2>5. DynamicMask(t) \in SUBSET Component
    <3>1. DynamicMask(t) \in {{}, mask[t]}
      BY <1>2 DEF DynamicMask, RawMask
    <3> QED  BY <3>1, <1>1 DEF IInv, Typed
  <2>6. m \in SUBSET Component /\ (DynamicMask(t) \subseteq m \/ m \subseteq DynamicMask(t))
    BY <2>5, <1>4
  <2> HIDE DEF m
  <2>7. x \in ShadowOf(Entity) /\ more = Append(shadowQ, x) /\ x.base = t /\ x.new = m
    BY <2>6, <1>1, <1>6 DEF m, ShadowOf
  <2> HIDE DEF x, more
  <2>8. Patching(index, x) = <<LogicalRoot(index, t), m>>
    BY <2>7 DEF Patching
  <2>9. Grown(Pending', Pending, <<LogicalRoot(index, t), m>>)
    <3>1. /\ x \in ShadowOf(Entity) /\ more = Append(shadowQ, x)
          /\ tombQ \in Seq(Entity) /\ shadowQ \in Seq(ShadowOf(Entity))
      BY <2>2, <2>7
    <3>2. Grown(Pending', Pending, Patching(index, x))
      BY <3>1, <2>2, <2>3, <2>4, LongerShadows
    <3> QED  BY <3>2, <2>8
  <2> QED  BY <2>1, <2>6, <2>9, <1>1, <1>2, Deferred
<1> QED  BY <1>0, <1>5, <1>6 DEF Change

-----------------------------------------------------------------------------
(* The commit *)

\* The queues are seen alike by an index that knows the same roots.
LEMMA SameRoots ==
  ASSUME NEW idx, NEW jdx, NEW U, NEW tombs \in Seq(U), NEW shadows \in Seq(ShadowOf(U)),
         \A e \in U : LogicalRoot(jdx, e) = LogicalRoot(idx, e)
  PROVE  PendingIn(jdx, tombs, shadows) = PendingIn(idx, tombs, shadows)
<1>1. \A i \in 1..Len(tombs) : Erasing(jdx, tombs[i]) = Erasing(idx, tombs[i])
  <2>1. \A i \in 1..Len(tombs) : tombs[i] \in U
    OBVIOUS
  <2> QED  BY <2>1 DEF Erasing
<1>2. \A i \in 1..Len(shadows) : Patching(jdx, shadows[i]) = Patching(idx, shadows[i])
  <2>1. \A i \in 1..Len(shadows) : shadows[i] \in ShadowOf(U)
    BY ElementOfSeq
  <2>2. \A i \in 1..Len(shadows) : shadows[i].base \in U
    BY <2>1 DEF ShadowOf
  <2> QED  BY <2>2 DEF Patching
<1> QED  BY <1>1, <1>2 DEF PendingIn

\* A queue lacks x, which was its first element.
Shrunk(short, old, x) == old # <<>> /\ short = Tail(old) /\ Head(old) = x

\* The first marker or, when there is none, the first patch leaves its queue.
LEMMA ShorterTombs ==
  ASSUME NEW idx, NEW R, NEW U, WellIndexed(idx, R, U), NEW tombs \in Seq(U),
         NEW shadows \in Seq(ShadowOf(U)), tombs # <<>>, NEW less, less = Tail(tombs),
         NEW old, old = PendingIn(idx, tombs, shadows),
         NEW short, short = PendingIn(idx, less, shadows)
  PROVE  Shrunk(short, old, Erasing(idx, Head(tombs)))
<1> DEFINE V == U \X SUBSET Component
<1>1. /\ less \in Seq(U) /\ Len(less) = Len(tombs) - 1 /\ Len(tombs) \in Nat
      /\ Len(tombs) >= 1 /\ Head(tombs) = tombs[1]
      /\ \A i \in 1..Len(less) : less[i] = tombs[i + 1]
  OBVIOUS
<1>2. Len(shadows) \in Nat
  OBVIOUS
<1>3. old \in Seq(V) /\ Shaped(old, idx, tombs, shadows)
  BY PendingShape
<1>4. short \in Seq(V) /\ Shaped(short, idx, less, shadows)
  BY <1>1, PendingShape
<1> HIDE DEF V
<1>5. /\ Len(old) = Len(tombs) + Len(shadows)
      /\ \A i \in 1..Len(tombs) : old[i] = Erasing(idx, tombs[i])
      /\ \A i \in (Len(tombs) + 1)..(Len(tombs) + Len(shadows)) :
           old[i] = Patching(idx, shadows[i - Len(tombs)])
  BY <1>3 DEF Shaped
<1>6. /\ Len(short) = Len(less) + Len(shadows)
      /\ \A i \in 1..Len(less) : short[i] = Erasing(idx, less[i])
      /\ \A i \in (Len(less) + 1)..(Len(less) + Len(shadows)) :
           short[i] = Patching(idx, shadows[i - Len(less)])
  BY <1>4 DEF Shaped
<1>7. old # <<>> /\ Head(old) = Erasing(idx, Head(tombs))
  <2>1. 1 \in 1..Len(tombs) /\ Len(old) >= 1
    BY <1>1, <1>2, <1>5
  <2>2. old[1] = Erasing(idx, tombs[1])
    BY <2>1, <1>5
  <2>3. old # <<>> /\ Head(old) = old[1]
    BY <2>1, <1>3
  <2> QED  BY <2>2, <2>3, <1>1
<1>8. /\ Tail(old) \in Seq(V) /\ Len(Tail(old)) = Len(old) - 1
      /\ \A i \in 1..Len(Tail(old)) : Tail(old)[i] = old[i + 1]
  BY <1>3, <1>7
<1>9. Len(Tail(old)) = Len(short)
  BY <1>1, <1>2, <1>5, <1>6, <1>8
<1>10. ASSUME NEW i \in 1..Len(short) PROVE short[i] = Tail(old)[i]
  <2>1. Tail(old)[i] = old[i + 1]
    BY <1>8, <1>9
  <2>2. CASE i \in 1..Len(less)
    <3>1. i + 1 \in 1..Len(tombs)
      BY <2>2, <1>1
    <3> QED  BY <3>1, <2>1, <2>2, <1>1, <1>5, <1>6
  <2>3. CASE i \notin 1..Len(less)
    <3>1. /\ i \in (Len(less) + 1)..(Len(less) + Len(shadows))
          /\ i + 1 \in (Len(tombs) + 1)..(Len(tombs) + Len(shadows))
          /\ (i + 1) - Len(tombs) = i - Len(less)
      BY <2>3, <1>1, <1>2, <1>6
    <3> QED  BY <3>1, <2>1, <1>5, <1>6
  <2> QED  BY <2>2, <2>3
<1>11. short = Tail(old)
  <2>1. \A i \in 1..Len(short) : short[i] = Tail(old)[i]
    BY <1>10
  <2> QED  BY <2>1, <1>4, <1>8, <1>9, SeqEqual
<1> QED  BY <1>7, <1>11 DEF Shrunk

LEMMA ShorterShadows ==
  ASSUME NEW idx, NEW R, NEW U, WellIndexed(idx, R, U), NEW tombs \in Seq(U),
         NEW shadows \in Seq(ShadowOf(U)), tombs = <<>>, shadows # <<>>,
         NEW less, less = Tail(shadows),
         NEW old, old = PendingIn(idx, tombs, shadows),
         NEW short, short = PendingIn(idx, tombs, less)
  PROVE  Shrunk(short, old, Patching(idx, Head(shadows)))
<1> DEFINE V == U \X SUBSET Component
<1>1. /\ less \in Seq(ShadowOf(U)) /\ Len(less) = Len(shadows) - 1
      /\ Len(shadows) \in Nat /\ Len(shadows) >= 1 /\ Head(shadows) = shadows[1]
      /\ \A i \in 1..Len(less) : less[i] = shadows[i + 1]
  OBVIOUS
<1>2. Len(tombs) = 0
  OBVIOUS
<1>3. old \in Seq(V) /\ Shaped(old, idx, tombs, shadows)
  BY PendingShape
<1>4. short \in Seq(V) /\ Shaped(short, idx, tombs, less)
  BY <1>1, PendingShape
<1> HIDE DEF V
<1>5. Len(old) = Len(shadows) /\ \A i \in 1..Len(shadows) : old[i] = Patching(idx, shadows[i])
  <2>1. /\ Len(old) = Len(tombs) + Len(shadows)
        /\ \A i \in (Len(tombs) + 1)..(Len(tombs) + Len(shadows)) :
             old[i] = Patching(idx, shadows[i - Len(tombs)])
    BY <1>3 DEF Shaped
  <2> QED  BY <2>1, <1>1, <1>2
<1>6. Len(short) = Len(less) /\ \A i \in 1..Len(less) : short[i] = Patching(idx, less[i])
  <2>1. /\ Len(short) = Len(tombs) + Len(less)
        /\ \A i \in (Len(tombs) + 1)..(Len(tombs) + Len(less)) :
             short[i] = Patching(idx, less[i - Len(tombs)])
    BY <1>4 DEF Shaped
  <2> QED  BY <2>1, <1>1, <1>2
<1>7. old # <<>> /\ Head(old) = Patching(idx, Head(shadows))
  <2>1. 1 \in 1..Len(shadows) /\ Len(old) >= 1
    BY <1>1, <1>5
  <2>2. old[1] = Patching(idx, shadows[1])
    BY <2>1, <1>5
  <2>3. old # <<>> /\ Head(old) = old[1]
    BY <2>1, <1>3
  <2> QED  BY <2>2, <2>3, <1>1
<1>8. /\ Tail(old) \in Seq(V) /\ Len(Tail(old)) = Len(old) - 1
      /\ \A i \in 1..Len(Tail(old)) : Tail(old)[i] = old[i + 1]
  BY <1>3, <1>7
<1>9. Len(Tail(old)) = Len(short)
  BY <1>1, <1>5, <1>6, <1>8
<1>10. ASSUME NEW i \in 1..Len(short) PROVE short[i] = Tail(old)[i]
  <2>1. Tail(old)[i] = old[i + 1]
    BY <1>8, <1>9
  <2>2. i \in 1..Len(less) /\ i + 1 \in 1..Len(shadows)
    BY <1>1, <1>6
  <2> QED  BY <2>1, <2>2, <1>1, <1>5, <1>6
<1>11. short = Tail(old)
  <2>1. \A i \in 1..Len(short) : short[i] = Tail(old)[i]
    BY <1>10
  <2> QED  BY <2>1, <1>4, <1>8, <1>9, SeqEqual
<1> QED  BY <1>7, <1>11 DEF Shrunk

\* What an alias of another entity is not.
LEMMA Apart ==
  ASSUME IInv, NEW e \in Root, NEW x \in Entity, LogicalRoot(index, x) # e
  PROVE  /\ Terminal(index, e) # x
         /\ \A i \in DOMAIN RedirectChain(index, e) :
              RedirectChain(index, e)[i] \in Entity /\ RedirectChain(index, e)[i] # x
<1>1. e \in Entity /\ LogicalRoot(index, e) = e
  BY Seen
<1>2. LogicalRoot(index, Terminal(index, e)) = e
  BY <1>1, EntitiesKnown, Resolves
<1>3. ASSUME NEW i \in DOMAIN RedirectChain(index, e)
      PROVE  RedirectChain(index, e)[i] \in Entity /\ RedirectChain(index, e)[i] # x
  <2>1. RedirectChain(index, e) \in Seq(Entity)
    BY <1>1, EntitiesKnown, Resolved
  <2>2. /\ RedirectChain(index, e)[i] \in Entity
        /\ RedirectChain(index, e)[i] \in Range(RedirectChain(index, e))
    BY <2>1 DEF Range
  <2>3. LogicalRoot(index, RedirectChain(index, e)[i]) = e
    BY <1>1, <2>2, EntitiesKnown, Aliases
  <2> QED  BY <2>2, <2>3
<1> QED  BY <1>2, <1>3

\* A marker ends the entity it was queued for, and no other.
LEMMA TombstoneSettles ==
  ASSUME IInv, Rebuildable, CommitTombstone
  PROVE  Flat!Settle
<1>0. PICK new : new = Fresh(0)
  OBVIOUS
<1>1. PICK t : t = Head(tombQ)
  OBVIOUS
<1>2. /\ Create({}, 0) /\ tombQ # <<>> /\ tombQ' = Tail(tombQ)
      /\ tombOf' = With(tombOf, new, t)
      /\ index' = AddTombstone(index, t)
      /\ UNCHANGED <<depth, redirOf, edgeSrc, adj, spawnQ, edgeQ, shadowQ, mode>>
  BY <1>0, <1>1 DEF CommitTombstone
<1>3. t \in Entity /\ 0 \in Partition /\ {} \in SUBSET Component /\ Terminal(index, t) = t
  <2>1. tombQ \in Seq(Entity)
    BY DEF IInv, Queueing
  <2>2. 1 \in DOMAIN tombQ /\ t = tombQ[1] /\ t \in Entity
    BY <2>1, <1>1, <1>2
  <2> QED  BY <2>2, LayerAssumption DEF Rebuildable
<1>4. /\ DOMAIN mask' = DOMAIN mask \cup {new} /\ new \notin DOMAIN mask
      /\ active' \cap DOMAIN mask = active
  BY <1>0, <1>2, <1>3, CreatedEntity
<1>5. \A x \in DOMAIN mask : mask'[x] = mask[x]
  BY <1>0, <1>2, <1>4 DEF Create, With
<1>6. WellIndexed(index, redirOf, Entity)
  BY EntitiesKnown
<1>7. /\ index'.shadowed = index.shadowed \cup {t}
      /\ index'.terminal = index.terminal /\ index'.rootOf = index.rootOf
      /\ index'.chains = index.chains
  BY <1>2, <1>6, TombstoneFields
<1>8. \A x : /\ LogicalRoot(index', x) = LogicalRoot(index, x)
             /\ Terminal(index', x) = Terminal(index, x)
             /\ RedirectChain(index', x) = RedirectChain(index, x)
  BY <1>7 DEF LogicalRoot, Terminal, RedirectChain
<1>9. Entity' = Entity /\ Root' = Root
  <2>1. Entity' = Entity
    BY <1>2, <1>4 DEF Entity, With, IInv, Written
  <2> QED  BY <2>1, <1>7 DEF Root
<1>10. PICK r : r = LogicalRoot(index, t)
  OBVIOUS
<1>11. r \in Root /\ Terminal(index, r) = t
  <2>1. r \in Entity /\ r \notin DOMAIN index.rootOf
    BY <1>3, <1>6, <1>10, Resolved
  <2>2. Terminal(index, r) = Terminal(index, t)
    BY <1>3, <1>6, <1>10, Resolves
  <2> QED  BY <2>1, <2>2, <1>3 DEF Root
<1>12. DOMAIN View = Root /\ DOMAIN View' = Root
  BY <1>9 DEF View
<1>13. View'[r] = {}
  BY <1>7, <1>8, <1>9, <1>11 DEF View, DynamicMask, IsTombstoned
<1>14. ASSUME NEW e \in Root, e # r PROVE View'[e] = View[e]
  <2>1. Terminal(index, e) # t /\ Terminal(index, e) \in DOMAIN mask
    BY <1>3, <1>10, <1>14, Apart, Seen, EntitiesKnown
  <2> QED  BY <2>1, <1>4, <1>5, <1>7, <1>8, <1>9
           DEF View, DynamicMask, IsTombstoned, RawMask
<1>15. View' = [View EXCEPT ![r] = {}]
  <2>1. View = [e \in Root |-> View[e]] /\ View' = [e \in Root |-> View'[e]]
    BY <1>9 DEF View
  <2> QED  BY <2>1, <1>11, <1>12, <1>13, <1>14
<1>16. Scarred' = Scarred
  <2>1. ASSUME NEW e \in Root, NEW i \in DOMAIN RedirectChain(index, e)
        PROVE  RedirectChain(index, e)[i] \in active' <=> RedirectChain(index, e)[i] \in active
    <3>1. e \in Entity /\ RedirectChain(index, e) \in Seq(Entity)
      BY <1>6, Seen, Resolved
    <3>2. RedirectChain(index, e)[i] \in DOMAIN mask
      BY <3>1, EntitiesKnown
    <3> QED  BY <3>2, <1>4
  <2> QED  BY <2>1, <1>8, <1>9 DEF Scarred
<1>17. Pending # <<>> /\ Pending' = Tail(Pending) /\ Head(Pending) = <<r, {}>>
  <2>1. /\ Pending = PendingIn(index, tombQ, shadowQ)
        /\ tombQ \in Seq(Entity) /\ shadowQ \in Seq(ShadowOf(Entity))
    BY PendingIs
  <2>2. PICK less : less = Tail(tombQ)
    OBVIOUS
  <2>3. less \in Seq(Entity)
    BY <1>2, <2>1, <2>2
  <2>4. Pending' = PendingIn(index', less, shadowQ)
    BY <1>2, <2>2, PendingNext
  <2>5. PendingIn(index', less, shadowQ) = PendingIn(index, less, shadowQ)
    BY <1>8, <2>1, <2>3, SameRoots
  <2>6. Pending' = PendingIn(index, less, shadowQ)
    BY <2>4, <2>5
  <2>7. Shrunk(Pending', Pending, Erasing(index, Head(tombQ)))
    BY <2>1, <2>2, <2>6, <1>2, <1>6, ShorterTombs
  <2> QED  BY <2>7, <1>1, <1>10 DEF Erasing, Shrunk
<1>18. Head(Pending)[1] = r /\ Head(Pending)[2] = {}
  BY <1>17
<1> QED  BY <1>15, <1>16, <1>17, <1>18 DEF Flat!Settle

\* A patch decides what is seen of the entity it was queued for, and of no other.
LEMMA PatchSettles ==
  ASSUME IInv, CommitPatch
  PROVE  Flat!Settle
<1>0. PICK new : new = Fresh(0)
  OBVIOUS
<1>1. PICK x : x = Head(shadowQ)
  OBVIOUS
<1>2. /\ Create(x.new, 0) /\ tombQ = <<>> /\ shadowQ # <<>> /\ shadowQ' = Tail(shadowQ)
      /\ index' = AddRedirect(index, x.base, new)
      /\ UNCHANGED <<depth, tombOf, edgeSrc, adj, spawnQ, edgeQ, tombQ, mode>>
  BY <1>0, <1>1 DEF CommitPatch
<1>3. x \in ShadowOf(Entity)
  <2>1. shadowQ \in Seq(ShadowOf(Entity))
    BY PendingIs
  <2> QED  BY <2>1, <1>1, <1>2, HeadOfSeq
<1>4. PICK base, m : base = x.base /\ m = x.new
  OBVIOUS
<1>5. m \in SUBSET Component /\ base \in Entity /\ 0 \in Partition
  BY <1>3, <1>4, LayerAssumption DEF ShadowOf
<1>6. /\ DOMAIN mask' = DOMAIN mask \cup {new} /\ new \notin DOMAIN mask
      /\ active' \cap DOMAIN mask = active /\ new \in active'
  BY <1>0, <1>2, <1>4, <1>5, CreatedEntity
<1>7. (\A y \in DOMAIN mask : mask'[y] = mask[y]) /\ mask'[new] = m
  BY <1>0, <1>2, <1>4, <1>6 DEF Create, With
<1>8. WellIndexed(index, redirOf, Entity)
  BY EntitiesKnown
<1>9. PICK r : r = LogicalRoot(index, base)
  OBVIOUS
<1>10. /\ index'.shadowed = index.shadowed \cup {base}
       /\ index'.terminal = With(index.terminal, r, new)
       /\ index'.rootOf = With(index.rootOf, new, r)
       /\ index'.chains = With(index.chains, r, Append(RedirectChain(index, r), new))
  BY <1>2, <1>4, <1>9, RedirectFields
<1>11. new \notin Entity /\ r \in Root /\ LogicalRoot(index, r) = r /\ r # new
  <2>1. new \notin Entity /\ r \in Entity /\ r \notin DOMAIN index.rootOf
    BY <1>5, <1>6, <1>8, <1>9, Resolved DEF Entity
  <2> QED  BY <2>1 DEF Root, LogicalRoot
<1>12. Entity' = Entity \cup {new} /\ Root' = Root
  <2>1. new \notin DOMAIN tombOf
    BY <1>6 DEF IInv, Written
  <2>2. Entity' = Entity \cup {new}
    BY <2>1, <1>2, <1>6 DEF Entity
  <2>3. DOMAIN index'.rootOf = DOMAIN index.rootOf \cup {new}
    BY <1>10 DEF With
  <2> QED  BY <2>2, <2>3, <1>11 DEF Root
<1>13. ASSUME NEW e \in Entity PROVE LogicalRoot(index', e) = LogicalRoot(index, e)
  <2>1. e # new
    BY <1>11
  <2>2. /\ e \in DOMAIN index'.rootOf <=> e \in DOMAIN index.rootOf
        /\ e \in DOMAIN index.rootOf => index'.rootOf[e] = index.rootOf[e]
    BY <2>1, <1>10 DEF With
  <2> QED  BY <2>2 DEF LogicalRoot
<1>14. ASSUME NEW e \in Root, e # r
       PROVE  /\ Terminal(index', e) = Terminal(index, e)
              /\ RedirectChain(index', e) = RedirectChain(index, e)
  <2>1. LogicalRoot(index', e) = e /\ LogicalRoot(index, e) = e
    BY <1>13, Seen
  <2>2. /\ e \in DOMAIN index'.terminal <=> e \in DOMAIN index.terminal
        /\ e \in DOMAIN index.terminal => index'.terminal[e] = index.terminal[e]
        /\ e \in DOMAIN index'.chains <=> e \in DOMAIN index.chains
        /\ e \in DOMAIN index.chains => index'.chains[e] = index.chains[e]
    BY <1>10, <1>14 DEF With
  <2> QED  BY <2>1, <2>2 DEF Terminal, RedirectChain
<1>15. /\ Terminal(index', r) = new
       /\ RedirectChain(index', r) = Append(RedirectChain(index, r), new)
  <2>1. LogicalRoot(index', r) = r
    BY <1>11, <1>13 DEF Root
  <2>2. /\ r \in DOMAIN index'.terminal /\ index'.terminal[r] = new
        /\ r \in DOMAIN index'.chains
        /\ index'.chains[r] = Append(RedirectChain(index, r), new)
    BY <1>10 DEF With
  <2> QED  BY <2>1, <2>2 DEF Terminal, RedirectChain
<1>16. DOMAIN View = Root /\ DOMAIN View' = Root
  BY <1>12 DEF View
<1>17. View'[r] = m
  <2>1. new \notin index'.shadowed
    BY <1>5, <1>8, <1>10, <1>11 DEF WellIndexed
  <2> QED  BY <2>1, <1>6, <1>7, <1>11, <1>12, <1>15
           DEF View, DynamicMask, IsTombstoned, RawMask
<1>18. ASSUME NEW e \in Root, e # r PROVE View'[e] = View[e]
  <2>1. Terminal(index, e) # base /\ Terminal(index, e) \in DOMAIN mask
    BY <1>5, <1>9, <1>18, Apart, Seen, EntitiesKnown
  <2>2. Terminal(index', e) = Terminal(index, e)
    BY <1>14, <1>18
  <2> QED  BY <2>1, <2>2, <1>6, <1>7, <1>10, <1>12
           DEF View, DynamicMask, IsTombstoned, RawMask
<1>19. View' = [View EXCEPT ![r] = m]
  <2>1. View = [e \in Root |-> View[e]] /\ View' = [e \in Root |-> View'[e]]
    BY <1>12 DEF View
  <2> QED  BY <2>1, <1>11, <1>16, <1>17, <1>18
<1>20. Scarred' = Scarred
  <2>1. ASSUME NEW e \in Root, NEW i \in DOMAIN RedirectChain(index, e)
        PROVE  RedirectChain(index, e)[i] \in active' <=> RedirectChain(index, e)[i] \in active
    <3>1. e \in Entity /\ RedirectChain(index, e) \in Seq(Entity)
      BY <1>8, Seen, Resolved
    <3>2. RedirectChain(index, e)[i] \in DOMAIN mask
      BY <3>1, EntitiesKnown
    <3> QED  BY <3>2, <1>6
  <2>2. ASSUME NEW e \in Root, e # r PROVE e \in Scarred' <=> e \in Scarred
    BY <2>1, <2>2, <1>12, <1>14 DEF Scarred
  <2>3. r \in Scarred' <=> r \in Scarred
    <3>1. PICK c : c = RedirectChain(index, r)
      OBVIOUS
    <3>2. PICK d : d = RedirectChain(index', r)
      OBVIOUS
    <3>3. c \in Seq(Entity)
      BY <3>1, <1>8, <1>11, Resolved DEF Root
    <3>4. /\ d = Append(c, new) /\ Len(c) \in Nat
          /\ DOMAIN d = 1..(Len(c) + 1) /\ DOMAIN c = 1..Len(c)
          /\ d[Len(c) + 1] = new /\ \A i \in 1..Len(c) : d[i] = c[i]
      BY <3>1, <3>2, <3>3, <1>15
    <3>5. \A i \in DOMAIN c : c[i] \in active' <=> c[i] \in active
      BY <2>1, <3>1, <1>11
    <3>6. (\E i \in DOMAIN d : i > 1 /\ d[i] \notin active')
            <=> (\E i \in DOMAIN c : i > 1 /\ c[i] \notin active)
      <4>1. ASSUME NEW i \in DOMAIN d, i > 1, d[i] \notin active'
            PROVE  \E k \in DOMAIN c : k > 1 /\ c[k] \notin active
        <5>1. i # Len(c) + 1
          BY <4>1, <3>4, <1>6
        <5>2. i \in DOMAIN c /\ d[i] = c[i]
          BY <5>1, <3>4
        <5> QED  BY <5>2, <4>1, <3>5
      <4>2. ASSUME NEW i \in DOMAIN c, i > 1, c[i] \notin active
            PROVE  \E k \in DOMAIN d : k > 1 /\ d[k] \notin active'
        <5>1. i \in DOMAIN d /\ d[i] = c[i]
          BY <3>4
        <5> QED  BY <5>1, <4>2, <3>5
      <4> QED  BY <4>1, <4>2
    <3>7. r \in Scarred <=> \E i \in DOMAIN c : i > 1 /\ c[i] \notin active
      BY <3>1, <1>11 DEF Scarred
    <3>8. r \in Scarred' <=> \E i \in DOMAIN d : i > 1 /\ d[i] \notin active'
      BY <3>2, <1>11, <1>12 DEF Scarred
    <3> QED  BY <3>6, <3>7, <3>8
  <2>4. Scarred \subseteq Root /\ Scarred' \subseteq Root
    BY <1>12 DEF Scarred
  <2> QED  BY <2>2, <2>3, <2>4
<1>21. Pending # <<>> /\ Pending' = Tail(Pending) /\ Head(Pending) = <<r, m>>
  <2>1. /\ Pending = PendingIn(index, tombQ, shadowQ)
        /\ tombQ \in Seq(Entity) /\ shadowQ \in Seq(ShadowOf(Entity))
    BY PendingIs
  <2>2. PICK less : less = Tail(shadowQ)
    OBVIOUS
  <2>3. less \in Seq(ShadowOf(Entity))
    BY <1>2, <2>1, <2>2
  <2>4. Pending' = PendingIn(index', tombQ, less)
    BY <1>2, <2>2, PendingNext
  <2>5. PendingIn(index', tombQ, less) = PendingIn(index, tombQ, less)
    BY <1>13, <2>1, <2>3, SameRoots
  <2>6. Pending' = PendingIn(index, tombQ, less)
    BY <2>4, <2>5
  <2>7. Shrunk(Pending', Pending, Patching(index, Head(shadowQ)))
    BY <2>1, <2>2, <2>6, <1>2, <1>8, ShorterShadows
  <2> QED  BY <2>7, <1>1, <1>4, <1>9 DEF Patching, Shrunk
<1>22. Head(Pending)[1] = r /\ Head(Pending)[2] = m
  BY <1>21
<1> QED  BY <1>19, <1>20, <1>21, <1>22 DEF Flat!Settle

-----------------------------------------------------------------------------
(* The rebuild *)

\* An index with fewer patches resolves an alias to an alias of the same entity.
LEMMA RootsWithin ==
  ASSUME NEW idx, NEW jdx, NEW R, NEW U, WellIndexed(idx, R, U),
         WellIndexed(jdx, R, U), DOMAIN jdx.rootOf \subseteq DOMAIN idx.rootOf,
         NEW e \in U
  PROVE  LogicalRoot(idx, LogicalRoot(jdx, e)) = LogicalRoot(idx, e)
<1>1. PICK c : c = RedirectChain(jdx, e)
  OBVIOUS
<1>2. PICK r : r = LogicalRoot(jdx, e)
  OBVIOUS
<1>3. c \in Seq(U) /\ Len(c) \in Nat /\ c[1] = r /\ e \in Range(c)
  BY <1>1, <1>2, Resolved
<1>4. ASSUME NEW k \in 2..Len(c)
      PROVE  /\ LogicalRoot(idx, c[k]) = LogicalRoot(idx, R[c[k]])
             /\ \E i \in 1..(k - 1) : c[i] = R[c[k]]
  <2>1. c[k] \in DOMAIN jdx.rootOf /\ \E i \in 1..(k - 1) : c[i] = R[c[k]]
    BY <1>1, BeyondTheRoot
  <2>2. c[k] \in DOMAIN idx.rootOf
    BY <2>1
  <2> QED  BY <2>1, <2>2, PatchOf
<1> DEFINE Q == {k \in 1..Len(c) : LogicalRoot(idx, c[k]) # LogicalRoot(idx, r)}
<1>5. Q = {}
  <2> SUFFICES ASSUME Q # {} PROVE FALSE
    OBVIOUS
  <2>1. PICK k \in Q : \A i \in 0..(k - 1) : i \notin Q
    <3>1. Q \in SUBSET Nat
      BY <1>3
    <3> HIDE DEF Q
    <3> QED  BY <3>1, Least
  <2>2. k \in 2..Len(c) /\ LogicalRoot(idx, c[k]) # LogicalRoot(idx, r)
    BY <1>3
  <2>3. PICK i \in 1..(k - 1) : c[i] = R[c[k]]
    BY <2>2, <1>4
  <2>4. LogicalRoot(idx, c[i]) # LogicalRoot(idx, r)
    BY <2>2, <2>3, <1>4
  <2>5. i \in 0..(k - 1) /\ i \in 1..Len(c)
    BY <2>2, <2>3, <1>3
  <2> QED  BY <2>1, <2>4, <2>5
<1>6. PICK k \in 1..Len(c) : c[k] = e
  BY <1>3 DEF Range
<1> QED  BY <1>2, <1>5, <1>6

\* It knows the same aliases of an entity if it has all of its patches.
LEMMA SameAliases ==
  ASSUME NEW idx, NEW jdx, NEW R, NEW U, WellIndexed(idx, R, U),
         WellIndexed(jdx, R, U), DOMAIN jdx.rootOf \subseteq DOMAIN idx.rootOf,
         NEW e \in U, LogicalRoot(idx, e) = e, e \notin DOMAIN idx.rootOf,
         \A k \in DOMAIN RedirectChain(idx, e) :
           k > 1 => RedirectChain(idx, e)[k] \in DOMAIN jdx.rootOf
  PROVE  \A x \in U : LogicalRoot(jdx, x) = e <=> LogicalRoot(idx, x) = e
<1>1. PICK c : c = RedirectChain(idx, e)
  OBVIOUS
<1>2. c \in Seq(U) /\ Len(c) \in Nat /\ c[1] = e /\ DOMAIN c = 1..Len(c)
  BY <1>1, Resolved
<1>3. LogicalRoot(jdx, e) = e
  BY DEF LogicalRoot
<1>4. ASSUME NEW k \in 2..Len(c)
      PROVE  /\ LogicalRoot(jdx, c[k]) = LogicalRoot(jdx, R[c[k]])
             /\ \E i \in 1..(k - 1) : c[i] = R[c[k]]
  <2>1. k \in DOMAIN RedirectChain(idx, e) /\ k > 1
    BY <1>1, <1>2
  <2>2. RedirectChain(idx, e)[k] \in DOMAIN jdx.rootOf
    BY <2>1
  <2>3. c[k] \in DOMAIN jdx.rootOf
    BY <2>2, <1>1
  <2>4. \E i \in 1..(k - 1) : c[i] = R[c[k]]
    BY <1>1, BeyondTheRoot
  <2> QED  BY <2>3, <2>4, PatchOf
<1> DEFINE Q == {k \in 1..Len(c) : LogicalRoot(jdx, c[k]) # e}
<1>5. Q = {}
  <2> SUFFICES ASSUME Q # {} PROVE FALSE
    OBVIOUS
  <2>1. PICK k \in Q : \A i \in 0..(k - 1) : i \notin Q
    <3>1. Q \in SUBSET Nat
      BY <1>2
    <3> HIDE DEF Q
    <3> QED  BY <3>1, Least
  <2>2. k \in 2..Len(c) /\ LogicalRoot(jdx, c[k]) # e
    BY <1>2, <1>3
  <2>3. PICK i \in 1..(k - 1) : c[i] = R[c[k]]
    BY <2>2, <1>4
  <2>4. LogicalRoot(jdx, c[i]) # e
    BY <2>2, <2>3, <1>4
  <2>5. i \in 0..(k - 1) /\ i \in 1..Len(c)
    BY <2>2, <2>3, <1>2
  <2> QED  BY <2>1, <2>4, <2>5
<1>6. ASSUME NEW x \in U, LogicalRoot(idx, x) = e PROVE LogicalRoot(jdx, x) = e
  <2>1. x \in Range(c)
    BY <1>1, <1>6, Aliases
  <2>2. PICK k \in 1..Len(c) : c[k] = x
    BY <2>1, <1>2 DEF Range
  <2> QED  BY <2>2, <1>5
<1>7. ASSUME NEW x \in U, LogicalRoot(jdx, x) = e PROVE LogicalRoot(idx, x) = e
  BY <1>7, RootsWithin
<1> QED  BY <1>6, <1>7

\* The newest alias is then the same: it is the last one either way.
LEMMA SameTerminal ==
  ASSUME NEW idx, NEW jdx, NEW R, NEW U \in SUBSET Coordinate, WellIndexed(idx, R, U),
         WellIndexed(jdx, R, U), DOMAIN jdx.rootOf \subseteq DOMAIN idx.rootOf,
         Sorted(idx), Sorted(jdx),
         \A p \in DOMAIN idx.rootOf : ScannedAfter(p, R[p]),
         NEW e \in U, LogicalRoot(idx, e) = e,
         \A x \in U : LogicalRoot(jdx, x) = e <=> LogicalRoot(idx, x) = e
  PROVE  Terminal(jdx, e) = Terminal(idx, e)
<1>1. PICK t : t = Terminal(idx, e)
  OBVIOUS
<1>2. PICK s : s = Terminal(jdx, e)
  OBVIOUS
<1>3. LogicalRoot(jdx, e) = e
  OBVIOUS
<1>4. t \in U /\ s \in U /\ LogicalRoot(idx, t) = e /\ LogicalRoot(jdx, s) = e
  BY <1>1, <1>2, <1>3, Resolved, Resolves
<1>5. LogicalRoot(idx, s) = e /\ LogicalRoot(jdx, t) = e
  BY <1>4
<1>6. SUFFICES ASSUME s # t PROVE FALSE
  BY <1>1, <1>2
<1>7. ScannedAfter(t, s)
  BY <1>1, <1>4, <1>5, <1>6, Newest
<1>8. \A p \in DOMAIN jdx.rootOf : ScannedAfter(p, R[p])
  OBVIOUS
<1>9. ScannedAfter(s, t)
  BY <1>2, <1>3, <1>4, <1>5, <1>6, <1>8, Newest
<1>10. s \in Coordinate /\ t \in Coordinate
  BY <1>4
<1> QED  BY <1>7, <1>9, <1>10, ScanOrder

\* What a rebuild keeps and what it starts over with.
LEMMA RebuildRecovers ==
  ASSUME IInv, Rebuildable, RebuildIndices
  PROVE  /\ \A e \in Root \ Scarred : e \in Root' /\ View'[e] = View[e]
         /\ Scarred' = {}
         /\ Len(Pending') = Len(Pending)
         /\ \A i \in DOMAIN Pending : Pending[i][1] \notin Scarred => Pending'[i] = Pending[i]
         /\ DOMAIN View = Root /\ DOMAIN View' = Root'
<1>1. UNCHANGED <<mask, active, tombOf, redirOf, tombQ, shadowQ>>
  BY DEF RebuildIndices, payloadVars
<1>2. /\ WellIndexed(index, redirOf, Entity) /\ Entity \in SUBSET Coordinate
      /\ \A p \in DOMAIN redirOf : redirOf[p] \in Entity /\ ScannedAfter(p, redirOf[p])
  BY EntitiesKnown
<1>3. /\ Indexed' /\ Entity' = Entity /\ Sorted(index')
      /\ DOMAIN index'.rootOf = Patches
      /\ index'.shadowed = Shadows.shadowed \cup {redirOf[p] : p \in Patches}
  BY RebuildsWell
<1>4. PICK idx : idx = index
  OBVIOUS
<1>5. PICK jdx : jdx = index'
  OBVIOUS
<1>6. WellIndexed(idx, redirOf, Entity) /\ WellIndexed(jdx, redirOf, Entity)
  BY <1>1, <1>2, <1>3, <1>4, <1>5 DEF Indexed
<1>7. /\ DOMAIN jdx.rootOf \subseteq DOMAIN idx.rootOf /\ Sorted(idx) /\ Sorted(jdx)
      /\ DOMAIN jdx.rootOf = Patches /\ Patches \subseteq active
  BY <1>3, <1>4, <1>5 DEF Rebuildable, Patches
<1>8. \A p \in DOMAIN idx.rootOf : p \in DOMAIN redirOf /\ ScannedAfter(p, redirOf[p])
  BY <1>2, <1>6, PatchOf
<1>9. /\ idx.shadowed = Range(tombOf) \cup {redirOf[p] : p \in DOMAIN idx.rootOf}
      /\ jdx.shadowed = Range(tombOf) \cup {redirOf[p] : p \in DOMAIN jdx.rootOf}
  <2>1. Shadows.shadowed = {tombOf[t] : t \in active \cap DOMAIN tombOf}
    BY DEF Shadows, EmptyIndex
  <2>2. active \cap DOMAIN tombOf = DOMAIN tombOf
    BY DEF Rebuildable
  <2>3. Shadows.shadowed = Range(tombOf)
    BY <2>1, <2>2 DEF Range
  <2>4. idx.shadowed = Range(tombOf) \cup {redirOf[p] : p \in DOMAIN idx.rootOf}
    BY <1>4 DEF Rebuildable
  <2> QED  BY <2>3, <2>4, <1>3, <1>5, <1>7
<1>10. ASSUME NEW e \in Root \ Scarred
       PROVE  /\ e \in Entity /\ LogicalRoot(idx, e) = e /\ e \notin DOMAIN idx.rootOf
              /\ \A k \in DOMAIN RedirectChain(idx, e) :
                   k > 1 => RedirectChain(idx, e)[k] \in DOMAIN jdx.rootOf
  <2>1. e \in Entity /\ LogicalRoot(idx, e) = e /\ e \notin DOMAIN idx.rootOf
    BY <1>4 DEF Root, LogicalRoot
  <2>2. PICK c : c = RedirectChain(idx, e)
    OBVIOUS
  <2>3. c \in Seq(Entity) /\ DOMAIN c = 1..Len(c) /\ Len(c) \in Nat
    BY <1>6, <2>1, <2>2, Resolved
  <2>4. ASSUME NEW k \in DOMAIN c, k > 1 PROVE c[k] \in DOMAIN jdx.rootOf
    <3>1. k \in 2..Len(c)
      BY <2>3, <2>4
    <3>2. c[k] \in DOMAIN redirOf
      BY <3>1, <1>6, <2>1, <2>2, BeyondTheRoot
    <3>3. c[k] \in active
      BY <2>2, <2>4, <1>4 DEF Scarred
    <3> QED  BY <3>2, <3>3, <1>7 DEF Patches
  <2> QED  BY <2>1, <2>2, <2>4
<1>11. ASSUME NEW e \in Root \ Scarred
       PROVE  \A x \in Entity : LogicalRoot(jdx, x) = e <=> LogicalRoot(idx, x) = e
  BY <1>6, <1>7, <1>10, SameAliases
<1>12. ASSUME NEW e \in Root \ Scarred
       PROVE  e \in Root' /\ View'[e] = View[e]
  <2>1. PICK t : t = Terminal(idx, e)
    OBVIOUS
  <2>2. Terminal(jdx, e) = t
    BY <1>2, <1>6, <1>7, <1>8, <1>10, <1>11, <2>1, SameTerminal
  <2>3. e \in Root'
    BY <1>3, <1>5, <1>7, <1>10 DEF Root
  <2>4. t \in jdx.shadowed <=> t \in idx.shadowed
    <3>1. t \in jdx.shadowed => t \in idx.shadowed
      BY <1>7, <1>9
    <3>2. ASSUME t \in idx.shadowed, t \notin Range(tombOf) PROVE t \in jdx.shadowed
      <4>1. PICK p \in DOMAIN idx.rootOf : t = redirOf[p]
        BY <3>2, <1>9
      <4>2. p \in Entity /\ LogicalRoot(idx, p) = LogicalRoot(idx, t)
        BY <4>1, <1>6, PatchOf
      <4>3. LogicalRoot(idx, t) = e
        BY <1>6, <1>10, <2>1, Resolves
      <4>4. PICK c : c = RedirectChain(idx, e)
        OBVIOUS
      <4>5. p \in Range(c) /\ c \in Seq(Entity) /\ c[1] = e /\ DOMAIN c = 1..Len(c)
        <5>1. e \in Entity /\ LogicalRoot(idx, e) = e /\ LogicalRoot(idx, p) = e
          BY <4>2, <4>3, <1>10
        <5>2. p \in Range(c)
          BY <5>1, <4>2, <4>4, <1>6, Aliases
        <5>3. c \in Seq(Entity) /\ c[1] = e
          BY <5>1, <4>4, <1>6, Resolved
        <5> QED  BY <5>2, <5>3
      <4>6. PICK k \in 1..Len(c) : c[k] = p
        BY <4>5 DEF Range
      <4>7. k > 1
        BY <4>1, <4>5, <4>6, <1>10
      <4>8. p \in DOMAIN jdx.rootOf
        BY <4>4, <4>5, <4>6, <4>7, <1>10
      <4> QED  BY <4>1, <4>8, <1>9
    <3> QED  BY <3>1, <3>2, <1>9
  <2>5. DynamicMask(e) = IF t \in idx.shadowed THEN {} ELSE RawMask(t)
    BY <1>4, <2>1 DEF DynamicMask, IsTombstoned
  <2>6. DynamicMask(e)' = IF t \in jdx.shadowed THEN {} ELSE RawMask(t)
    BY <1>1, <1>5, <2>2 DEF DynamicMask, IsTombstoned, RawMask
  <2>7. View[e] = DynamicMask(e)
    BY DEF View
  <2>8. View'[e] = DynamicMask(e)'
    BY <2>3 DEF View
  <2> QED  BY <2>3, <2>4, <2>5, <2>6, <2>7, <2>8
<1>13. Scarred' = {}
  <2>1. ASSUME NEW e \in Root', NEW i \in DOMAIN RedirectChain(jdx, e), i > 1
        PROVE  RedirectChain(jdx, e)[i] \in active
    <3>1. PICK c : c = RedirectChain(jdx, e)
      OBVIOUS
    <3>2. e \in Entity
      BY <1>3 DEF Root
    <3>3. c \in Seq(Entity)
      BY <3>1, <3>2, <1>6, Resolved
    <3>4. i \in 2..Len(c)
      BY <2>1, <3>1, <3>3
    <3>5. c[i] \in DOMAIN jdx.rootOf
      BY <3>1, <3>2, <3>4, <1>6, BeyondTheRoot
    <3> QED  BY <3>1, <3>5, <1>7
  <2> QED  BY <2>1, <1>1, <1>5 DEF Scarred
<1>14. /\ Len(Pending') = Len(Pending)
       /\ \A i \in DOMAIN Pending : Pending[i][1] \notin Scarred => Pending'[i] = Pending[i]
  <2>1. PICK old, new : old = Pending /\ new = Pending'
    OBVIOUS
  <2>2. /\ old = PendingIn(idx, tombQ, shadowQ)
        /\ tombQ \in Seq(Entity) /\ shadowQ \in Seq(ShadowOf(Entity))
    BY <1>4, <2>1, PendingIs
  <2>3. new = PendingIn(jdx, tombQ, shadowQ)
    BY <1>1, <1>5, <2>1, PendingNext
  <2>4. old \in Seq(Entity \X SUBSET Component) /\ Shaped(old, idx, tombQ, shadowQ)
    BY <1>6, <2>2, PendingShape
  <2>5. new \in Seq(Entity \X SUBSET Component) /\ Shaped(new, jdx, tombQ, shadowQ)
    BY <1>6, <2>2, <2>3, PendingShape
  <2>6. Len(new) = Len(old) /\ DOMAIN old = 1..Len(old)
    BY <2>4, <2>5 DEF Shaped
  <2>7. ASSUME NEW x \in Entity, LogicalRoot(idx, x) \notin Scarred
        PROVE  LogicalRoot(jdx, x) = LogicalRoot(idx, x)
    <3>1. PICK r : r = LogicalRoot(idx, x)
      OBVIOUS
    <3>2. r \in Entity /\ r \notin DOMAIN idx.rootOf
      BY <3>1, <1>6, Resolved
    <3>3. r \in Root \ Scarred
      BY <3>1, <3>2, <2>7, <1>4 DEF Root
    <3> QED  BY <3>1, <3>3, <1>11
  <2>8. ASSUME NEW i \in DOMAIN old, old[i][1] \notin Scarred
        PROVE  new[i] = old[i]
    <3>1. Len(tombQ) \in Nat /\ Len(shadowQ) \in Nat
      BY <2>2
    <3>2. CASE i \in 1..Len(tombQ)
      <4>1. old[i] = Erasing(idx, tombQ[i]) /\ new[i] = Erasing(jdx, tombQ[i])
        BY <3>2, <2>4, <2>5 DEF Shaped
      <4>2. tombQ[i] \in Entity
        BY <3>2, <2>2
      <4>3. LogicalRoot(idx, tombQ[i]) \notin Scarred
        BY <4>1, <2>8 DEF Erasing
      <4> QED  BY <4>1, <4>2, <4>3, <2>7 DEF Erasing
    <3>3. CASE i \notin 1..Len(tombQ)
      <4>1. PICK k : k = i - Len(tombQ)
        OBVIOUS
      <4>2. /\ i \in (Len(tombQ) + 1)..(Len(tombQ) + Len(shadowQ))
            /\ k \in 1..Len(shadowQ)
        BY <3>1, <3>3, <4>1, <2>4, <2>6 DEF Shaped
      <4>3. old[i] = Patching(idx, shadowQ[k]) /\ new[i] = Patching(jdx, shadowQ[k])
        BY <4>1, <4>2, <2>4, <2>5 DEF Shaped
      <4>4. shadowQ[k] \in ShadowOf(Entity)
        BY <4>2, <2>2, ElementOfSeq
      <4>5. shadowQ[k].base \in Entity
        BY <4>4 DEF ShadowOf
      <4>6. LogicalRoot(idx, shadowQ[k].base) \notin Scarred
        BY <4>3, <2>8 DEF Patching
      <4> QED  BY <4>3, <4>5, <4>6, <2>7 DEF Patching
    <3> QED  BY <3>2, <3>3
  <2> QED  BY <2>1, <2>6, <2>8
<1>15. DOMAIN View = Root /\ DOMAIN View' = Root'
  BY DEF View
<1> QED  BY <1>12, <1>13, <1>14, <1>15

LEMMA Recovers ==
  ASSUME IInv, Rebuildable, RebuildIndices
  PROVE  Flat!Recover
<1>1. /\ \A e \in Root \ Scarred : e \in Root' /\ View'[e] = View[e]
      /\ Scarred' = {}
      /\ Len(Pending') = Len(Pending)
      /\ \A i \in DOMAIN Pending : Pending[i][1] \notin Scarred => Pending'[i] = Pending[i]
      /\ DOMAIN View = Root /\ DOMAIN View' = Root'
  BY RebuildRecovers
<1> QED  BY <1>1 DEF Flat!Recover

-----------------------------------------------------------------------------
(* All steps *)

\* At most it adds entities.
Grows ==
  /\ UNCHANGED <<index, tombOf, redirOf, tombQ, shadowQ>>
  /\ DOMAIN mask \subseteq DOMAIN mask'
  /\ \A e \in DOMAIN mask : mask'[e] = mask[e]
  /\ active' \cap DOMAIN mask = active

\* A slot is created where there was none.
LEMMA CreateAdds ==
  ASSUME IInv, NEW m, NEW p, Create(m, p)
  PROVE  /\ DOMAIN mask \subseteq DOMAIN mask'
         /\ \A e \in DOMAIN mask : mask'[e] = mask[e]
         /\ active' \cap DOMAIN mask = active
         /\ Fresh(p) \notin DOMAIN mask
<1>1. Fresh(p) \notin DOMAIN mask
  <2> SUFFICES ASSUME Fresh(p) \in DOMAIN mask PROVE FALSE
    OBVIOUS
  <2>1. PICK e \in DOMAIN mask : e = Fresh(p)
    OBVIOUS
  <2>2. e[1] = Top /\ e[2] = p /\ e[3] = next[Top][p]
    BY <2>1 DEF Fresh
  <2>3. e[3] < next[e[1]][e[2]] /\ e \in Coordinate
    BY DEF IInv, Typed
  <2>4. e[3] \in Nat
    BY <2>3 DEF Coordinate
  <2> QED  BY <2>2, <2>3, <2>4
<1>2. mask' = With(mask, Fresh(p), m) /\ active' = active \cup {Fresh(p)}
  BY DEF Create
<1>3. active \subseteq DOMAIN mask
  BY DEF IInv, Typed
<1> QED  BY <1>1, <1>2, <1>3 DEF With

\* A mounted layer brings its own slots.
LEMMA MountGrows ==
  ASSUME IInv, next[Top] = NoSlots, NEW masks \in Seq(SUBSET Component),
         MountReadonlyLayer(masks, <<>>)
  PROVE  Grows
<1>1. /\ DOMAIN mask' = DOMAIN mask \cup MountedBy(masks)
      /\ \A e \in DOMAIN mask : mask'[e] = mask[e]
      /\ active' = active \cup MountedBy(masks)
      /\ UNCHANGED <<tombOf, redirOf, index, tombQ, shadowQ, mode>>
  BY MountsBelow
<1>2. \A e \in DOMAIN mask : e \notin MountedBy(masks)
  BY NothingLifted DEF MountedBy
<1>3. active \subseteq DOMAIN mask
  BY DEF IInv, Typed
<1> QED  BY <1>1, <1>2, <1>3 DEF Grows

\* What a step of the stack can be, as far as entities are concerned.
Alters ==
  \/ \E e \in Entity : DestroyEntity(e)
  \/ \E e \in Entity : \E c \in Changes : AddComponent(e, {c}) \/ RemoveComponent(e, {c})
  \/ CommitTombstone
  \/ CommitPatch
  \/ RebuildIndices

LEMMA StepCases ==
  ASSUME LateMounts = FALSE, IInv, [Next]_vars
  PROVE  Grows \/ Alters
<1>1. \A m \in SpawnMasks : <<m>> \in Seq(SUBSET Component)
  BY LayerAssumption
<1>2. <<>> \in Seq(SUBSET Component)
  OBVIOUS
<1>3. MountAllowed => next[Top] = NoSlots
  BY DEF MountAllowed
<1>4. CASE UNCHANGED <<mask, active, index, tombOf, redirOf, tombQ, shadowQ>>
  <2>1. active' \cap DOMAIN mask = active
    BY <1>4 DEF IInv, Typed
  <2> QED  BY <1>4, <2>1 DEF Grows
<1>5. CASE /\ \E m, p : Create(m, p)
           /\ UNCHANGED <<index, tombOf, redirOf, tombQ, shadowQ>>
  BY <1>5, CreateAdds DEF Grows
<1>6. CASE \E m \in SpawnMasks : CreateEntity(m, 0)
  <2>1. (\E m, p : Create(m, p)) /\ UNCHANGED <<payloadVars, index, queueVars>>
    BY <1>6 DEF CreateEntity
  <2> QED  BY <2>1, <1>5 DEF payloadVars, queueVars
<1>7. CASE \E m \in SpawnMasks : QueueSpawn(m, 0)
  BY <1>4, <1>7 DEF QueueSpawn, physicalVars, payloadVars
<1>8. CASE \E m \in SpawnMasks : MountAllowed /\ MountReadonlyLayer(<<m>>, <<>>)
  BY <1>1, <1>3, <1>8, MountGrows
<1>9. CASE MountAllowed /\ MountReadonlyLayer(<<>>, <<>>)
  BY <1>2, <1>3, <1>9, MountGrows
<1>10. CASE \E e \in Entity : \E m \in SpawnMasks : QueueEdge(e, m)
  BY <1>4, <1>10 DEF QueueEdge, physicalVars, payloadVars
<1>11. CASE \E e \in Entity : DestroyEntity(e)
  BY <1>11 DEF Alters
<1>12. CASE \E e \in Entity : \E c \in Changes :
              AddComponent(e, {c}) \/ RemoveComponent(e, {c})
  BY <1>12 DEF Alters
<1>13. CASE BeginCommit \/ EndCommit
  BY <1>4, <1>13 DEF BeginCommit, EndCommit, physicalVars, payloadVars, queueVars
<1>14. CASE CommitSpawn
  <2>1. (\E m, p : Create(m, p)) /\ UNCHANGED <<payloadVars, index, tombQ, shadowQ>>
    BY <1>14 DEF CommitSpawn
  <2> QED  BY <2>1, <1>5 DEF payloadVars
<1>15. CASE CommitEdge
  <2>1. (\E m, p : Create(m, p)) /\ UNCHANGED <<tombOf, redirOf, index, tombQ, shadowQ>>
    BY <1>15 DEF CommitEdge
  <2> QED  BY <2>1, <1>5
<1>16. CASE CommitTombstone \/ CommitPatch
  BY <1>16 DEF Alters
<1>17. CASE PushLayer
  BY <1>4, <1>17 DEF PushLayer, payloadVars
<1>18. CASE Rebuild \/ Reboot
  BY <1>18 DEF Rebuild, Reboot, Alters
<1>19. CASE UNCHANGED vars
  BY <1>4, <1>19 DEF vars, physicalVars, payloadVars, queueVars
<1> QED
  BY <1>6, <1>7, <1>8, <1>9, <1>10, <1>11, <1>12, <1>13, <1>14, <1>15, <1>16,
     <1>17, <1>18, <1>19 DEF Next

-----------------------------------------------------------------------------
(* The index can always be rebuilt *)

LEMMA InitRebuildable == Init => Rebuildable
<1> SUFFICES ASSUME Init PROVE Rebuildable
  OBVIOUS
<1>1. /\ DOMAIN tombOf = {} /\ DOMAIN redirOf = {} /\ DOMAIN tombQ = {}
      /\ index.shadowed = {} /\ DOMAIN index.rootOf = {} /\ DOMAIN index.chains = {}
  BY NoneInEmpty DEF Init, EmptyIndex
<1> QED  BY <1>1 DEF Rebuildable, Patches, Sorted, Range

LEMMA GrowsKeeps ==
  ASSUME IInv, Rebuildable, Grows
  PROVE  Rebuildable'
<1>1. /\ index' = index /\ tombOf' = tombOf /\ redirOf' = redirOf /\ tombQ' = tombQ
      /\ active' \cap DOMAIN mask = active
  BY DEF Grows
<1>2. DOMAIN redirOf \subseteq DOMAIN mask /\ active \subseteq DOMAIN mask
  BY DEF IInv, Written, Typed, Entity
<1>3. Patches' = Patches
  BY <1>1, <1>2 DEF Patches
<1>4. DOMAIN tombOf \subseteq active'
  BY <1>1 DEF Rebuildable
<1> QED  BY <1>1, <1>3, <1>4 DEF Rebuildable, Sorted

LEMMA DestroyStaysRebuildable ==
  ASSUME IInv, Rebuildable, NEW e \in Entity, DestroyEntity(e)
  PROVE  Rebuildable'
<1>1. PICK t : t = WriteTarget(e)
  OBVIOUS
<1>2. t \in Entity /\ UNCHANGED <<payloadVars, index>>
  BY <1>1, Target DEF DestroyEntity
<1>3. tombOf' = tombOf /\ redirOf' = redirOf /\ index' = index
  BY <1>2 DEF payloadVars
<1>4. Terminal(index, t) = t
  BY <1>1, EntitiesKnown, Resolves DEF WriteTarget
<1>5. active' \subseteq active /\ active \ {t} \subseteq active'
  BY <1>1 DEF DestroyEntity, DestroyImmediate, physicalVars
<1>6. tombQ' = tombQ \/ tombQ' = Append(tombQ, t)
  BY <1>1 DEF DestroyEntity, DestroyImmediate, queueVars
<1>7. DOMAIN tombOf \subseteq active'
  BY <1>2, <1>5 DEF Rebuildable, Entity
<1>8. Patches' \subseteq Patches
  BY <1>3, <1>5 DEF Patches
<1>9. ASSUME NEW i \in DOMAIN tombQ' PROVE Terminal(index, tombQ'[i]) = tombQ'[i]
  <2>1. CASE tombQ' = tombQ
    BY <2>1 DEF Rebuildable
  <2>2. CASE tombQ' = Append(tombQ, t)
    <3>1. tombQ \in Seq(Entity)
      BY DEF IInv, Queueing
    <3>2. /\ DOMAIN tombQ = 1..Len(tombQ) /\ DOMAIN tombQ' = 1..(Len(tombQ) + 1)
          /\ tombQ'[Len(tombQ) + 1] = t /\ Len(tombQ) \in Nat
          /\ \A k \in 1..Len(tombQ) : tombQ'[k] = tombQ[k]
      BY <2>2, <3>1
    <3>3. CASE i = Len(tombQ) + 1
      BY <3>2, <3>3, <1>4
    <3>4. CASE i \in DOMAIN tombQ
      BY <3>2, <3>4 DEF Rebuildable
    <3> QED  BY <3>2, <3>3, <3>4
  <2> QED  BY <1>6, <2>1, <2>2
<1> QED  BY <1>3, <1>7, <1>8, <1>9 DEF Rebuildable, Sorted

LEMMA ChangeStaysRebuildable ==
  ASSUME Rebuildable, NEW e, NEW gained, NEW lost, Change(e, gained, lost)
  PROVE  Rebuildable'
<1>1. UNCHANGED <<active, tombOf, redirOf, index>>
  BY DEF Change, payloadVars
<1>2. tombQ' = tombQ
  BY DEF Change, queueVars
<1> QED  BY <1>1, <1>2 DEF Rebuildable, Sorted, Patches

LEMMA TombstoneStaysRebuildable ==
  ASSUME IInv, Rebuildable, CommitTombstone
  PROVE  Rebuildable'
<1>0. PICK new : new = Fresh(0)
  OBVIOUS
<1>1. PICK t : t = Head(tombQ)
  OBVIOUS
<1>2. /\ Create({}, 0) /\ tombQ # <<>> /\ tombQ' = Tail(tombQ)
      /\ tombOf' = With(tombOf, new, t) /\ index' = AddTombstone(index, t)
      /\ redirOf' = redirOf
  BY <1>0, <1>1 DEF CommitTombstone
<1>3. /\ active' \cap DOMAIN mask = active /\ new \notin DOMAIN mask
      /\ active' = active \cup {new}
  BY <1>0, <1>2, CreateAdds DEF Create
<1>4. /\ index'.shadowed = index.shadowed \cup {t}
      /\ index'.terminal = index.terminal /\ index'.rootOf = index.rootOf
      /\ index'.chains = index.chains
  BY <1>2, EntitiesKnown, TombstoneFields
<1>5. \A x : Terminal(index', x) = Terminal(index, x)
  BY <1>4 DEF Terminal, LogicalRoot
<1>6. /\ DOMAIN tombOf' = DOMAIN tombOf \cup {new} /\ tombOf'[new] = t
      /\ \A x \in DOMAIN tombOf : tombOf'[x] = tombOf[x]
  <2>1. new \notin DOMAIN tombOf
    BY <1>3 DEF IInv, Written
  <2> QED  BY <2>1, <1>2 DEF With
<1>7. Range(tombOf') = Range(tombOf) \cup {t}
  BY <1>6 DEF Range
<1>8. Patches' = Patches
  <2>1. DOMAIN redirOf \subseteq DOMAIN mask
    BY DEF IInv, Written, Entity
  <2> QED  BY <2>1, <1>2, <1>3 DEF Patches
<1>9. DOMAIN tombOf' \subseteq active'
  BY <1>3, <1>6 DEF Rebuildable
<1>10. index'.shadowed = Range(tombOf') \cup {redirOf[p] : p \in DOMAIN index'.rootOf}
  BY <1>4, <1>7 DEF Rebuildable
<1>11. \A i \in DOMAIN tombQ' : Terminal(index', tombQ'[i]) = tombQ'[i]
  <2>1. tombQ \in Seq(Entity)
    BY DEF IInv, Queueing
  <2>2. \A i \in DOMAIN tombQ' : i + 1 \in DOMAIN tombQ /\ tombQ'[i] = tombQ[i + 1]
    BY <1>2, <2>1
  <2> QED  BY <2>2, <1>5 DEF Rebuildable
<1>12. Sorted(index')
  BY <1>4 DEF Rebuildable, Sorted
<1> QED  BY <1>2, <1>4, <1>8, <1>9, <1>10, <1>11, <1>12 DEF Rebuildable

LEMMA PatchStaysRebuildable ==
  ASSUME IInv, Rebuildable, CommitPatch
  PROVE  Rebuildable'
<1>0. PICK new : new = Fresh(0)
  OBVIOUS
<1>1. PICK base : base = Head(shadowQ).base
  OBVIOUS
<1>2. /\ Create(Head(shadowQ).new, 0) /\ tombQ = <<>> /\ shadowQ # <<>>
      /\ redirOf' = With(redirOf, new, base) /\ index' = AddRedirect(index, base, new)
      /\ tombOf' = tombOf /\ tombQ' = tombQ
  BY <1>0, <1>1 DEF CommitPatch
<1>3. /\ active' \cap DOMAIN mask = active /\ new \notin DOMAIN mask
      /\ active' = active \cup {new}
  BY <1>0, <1>2, CreateAdds DEF Create
<1>4. base \in Entity
  <2>1. shadowQ \in Seq(ShadowOf(Entity))
    BY PendingIs
  <2>2. Head(shadowQ) \in ShadowOf(Entity)
    BY <1>2, <2>1, HeadOfSeq
  <2> QED  BY <2>2, <1>1 DEF ShadowOf
<1>5. PICK r : r = LogicalRoot(index, base)
  OBVIOUS
<1>6. /\ index'.shadowed = index.shadowed \cup {base}
      /\ index'.rootOf = With(index.rootOf, new, r)
  BY <1>2, <1>5, RedirectFields
<1>7. DOMAIN index'.rootOf = DOMAIN index.rootOf \cup {new}
  BY <1>6 DEF With
<1>8. /\ DOMAIN redirOf' = DOMAIN redirOf \cup {new} /\ redirOf'[new] = base
      /\ \A x \in DOMAIN redirOf : redirOf'[x] = redirOf[x]
      /\ DOMAIN redirOf \subseteq DOMAIN mask
  <2>1. DOMAIN redirOf \subseteq DOMAIN mask
    BY DEF IInv, Written, Entity
  <2> QED  BY <2>1, <1>2, <1>3 DEF With
<1>9. DOMAIN index.rootOf \subseteq DOMAIN redirOf
  BY EntitiesKnown, PatchOf
<1>10. \A p \in DOMAIN redirOf' : p[2] = 0
  <2>1. new[2] = 0
    BY <1>0 DEF Fresh
  <2> QED  BY <2>1, <1>8 DEF Rebuildable
<1>11. Patches' \subseteq DOMAIN index'.rootOf
  BY <1>3, <1>7, <1>8 DEF Rebuildable, Patches
<1>12. DOMAIN tombOf' \subseteq active'
  BY <1>2, <1>3 DEF Rebuildable
<1>13. index'.shadowed = Range(tombOf') \cup {redirOf'[p] : p \in DOMAIN index'.rootOf}
  <2>1. {redirOf'[p] : p \in DOMAIN index'.rootOf}
          = {redirOf[p] : p \in DOMAIN index.rootOf} \cup {base}
    BY <1>7, <1>8, <1>9
  <2>2. index.shadowed = Range(tombOf) \cup {redirOf[p] : p \in DOMAIN index.rootOf}
    BY DEF Rebuildable
  <2>3. Range(tombOf') = Range(tombOf)
    BY <1>2
  <2> QED  BY <2>1, <2>2, <2>3, <1>6
<1>14. Sorted(index')
  <2>1. ASSUME NEW p \in DOMAIN index.rootOf PROVE ScannedAfter(new, p)
    <3>1. p \in DOMAIN mask /\ p[2] = 0
      BY <1>8, <1>9 DEF Rebuildable
    <3>2. p \in Coordinate /\ p[1] \in 0..Top /\ p[3] < next[p[1]][0]
      BY <3>1 DEF IInv, Typed
    <3>3. new[1] = Top /\ new[2] = 0 /\ new[3] = next[Top][0]
      BY <1>0 DEF Fresh
    <3>4. Top \in Nat /\ p[1] \in Nat /\ p[3] \in Nat
      BY <3>2, TopLayer DEF IInv, Coordinate
    <3>5. CASE p[1] = Top
      <4>1. next[Top][0] \in Nat
        BY TopLayer, LayerAssumption DEF IInv, Typed
      <4> QED  BY <4>1, <3>1, <3>2, <3>3, <3>4, <3>5 DEF ScannedAfter, After
    <3>6. CASE p[1] # Top
      BY <3>2, <3>3, <3>4, <3>6 DEF ScannedAfter
    <3> QED  BY <3>5, <3>6
  <2>2. new \in Entity'
    BY <1>2, <1>3, CreateAdds DEF Create, With, Entity, IInv, Written
  <2>3. WellIndexed(index, redirOf, Entity \cup {new})
    BY EntitiesKnown, IndexGrows DEF WellIndexed
  <2>4. Sorted(AddRedirect(index, base, new))
    BY <2>1, <2>3, <1>4, RedirectSorts DEF Rebuildable
  <2> QED  BY <2>4, <1>2
<1>15. \A i \in DOMAIN tombQ' : Terminal(index', tombQ'[i]) = tombQ'[i]
  BY <1>2, NoneInEmpty
<1> QED  BY <1>10, <1>11, <1>12, <1>13, <1>14, <1>15 DEF Rebuildable

LEMMA RebuildStaysRebuildable ==
  ASSUME IInv, Rebuildable, RebuildIndices
  PROVE  Rebuildable'
<1>1. UNCHANGED <<active, tombOf, redirOf, tombQ>>
  BY DEF RebuildIndices, payloadVars
<1>2. /\ WellIndexed(index, redirOf, Entity) /\ Entity \in SUBSET Coordinate
      /\ \A p \in DOMAIN redirOf : redirOf[p] \in Entity /\ ScannedAfter(p, redirOf[p])
  BY EntitiesKnown
<1>3. /\ Indexed' /\ Entity' = Entity /\ Sorted(index')
      /\ DOMAIN index'.rootOf = Patches
      /\ index'.shadowed = Shadows.shadowed \cup {redirOf[p] : p \in Patches}
  BY RebuildsWell
<1>4. PICK idx : idx = index
  OBVIOUS
<1>5. PICK jdx : jdx = index'
  OBVIOUS
<1>6. WellIndexed(idx, redirOf, Entity) /\ WellIndexed(jdx, redirOf, Entity)
  BY <1>1, <1>2, <1>3, <1>4, <1>5 DEF Indexed
<1>7. /\ DOMAIN jdx.rootOf \subseteq DOMAIN idx.rootOf /\ Sorted(idx) /\ Sorted(jdx)
  BY <1>3, <1>4, <1>5 DEF Rebuildable
<1>8. \A p \in DOMAIN idx.rootOf : p \in DOMAIN redirOf /\ ScannedAfter(p, redirOf[p])
  BY <1>2, <1>6, PatchOf
<1>9. index'.shadowed = Range(tombOf) \cup {redirOf[p] : p \in DOMAIN index'.rootOf}
  <2>1. Shadows.shadowed = {tombOf[t] : t \in active \cap DOMAIN tombOf}
    BY DEF Shadows, EmptyIndex
  <2>2. active \cap DOMAIN tombOf = DOMAIN tombOf
    BY DEF Rebuildable
  <2>3. Shadows.shadowed = Range(tombOf)
    BY <2>1, <2>2 DEF Range
  <2> QED  BY <2>3, <1>3
<1>10. ASSUME NEW q \in Entity, Terminal(idx, q) = q PROVE Terminal(jdx, q) = q
  <2>1. PICK t : t = Terminal(jdx, q)
    OBVIOUS
  <2>2. t \in Entity /\ LogicalRoot(jdx, t) = LogicalRoot(jdx, q)
    BY <1>6, <2>1, Resolved, Resolves
  <2>3. LogicalRoot(idx, t) = LogicalRoot(idx, q)
    <3>1. /\ LogicalRoot(idx, LogicalRoot(jdx, t)) = LogicalRoot(idx, t)
          /\ LogicalRoot(idx, LogicalRoot(jdx, q)) = LogicalRoot(idx, q)
      BY <1>6, <1>7, <2>2, RootsWithin
    <3> QED  BY <2>2, <3>1
  <2>4. SUFFICES ASSUME t # q PROVE FALSE
    BY <2>1
  <2>5. ScannedAfter(q, t)
    BY <1>2, <1>6, <1>7, <1>8, <1>10, <2>2, <2>3, <2>4, Newest
  <2>6. \A p \in DOMAIN jdx.rootOf : ScannedAfter(p, redirOf[p])
    BY <1>7, <1>8
  <2>7. ScannedAfter(t, q)
    BY <1>2, <1>6, <1>7, <2>1, <2>4, <2>6, Newest
  <2>8. q \in Coordinate /\ t \in Coordinate
    BY <1>2, <2>2
  <2> QED  BY <2>5, <2>7, <2>8, ScanOrder
<1>11. \A i \in DOMAIN tombQ' : Terminal(index', tombQ'[i]) = tombQ'[i]
  <2>1. tombQ \in Seq(Entity)
    BY DEF IInv, Queueing
  <2>2. \A i \in DOMAIN tombQ : tombQ[i] \in Entity
    BY <2>1
  <2> QED  BY <2>2, <1>1, <1>4, <1>5, <1>10 DEF Rebuildable
<1>12. Patches' \subseteq DOMAIN index'.rootOf
  BY <1>1, <1>3 DEF Patches
<1> QED  BY <1>1, <1>3, <1>9, <1>11, <1>12 DEF Rebuildable

LEMMA NextStaysRebuildable ==
  ASSUME LateMounts = FALSE, IInv, Rebuildable, [Next]_vars
  PROVE  Rebuildable'
<1>1. CASE Grows
  BY <1>1, GrowsKeeps
<1>2. CASE \E e \in Entity : DestroyEntity(e)
  BY <1>2, DestroyStaysRebuildable
<1>3. CASE \E e \in Entity : \E c \in Changes :
             AddComponent(e, {c}) \/ RemoveComponent(e, {c})
  BY <1>3, ChangeStaysRebuildable DEF AddComponent, RemoveComponent
<1>4. CASE CommitTombstone
  BY <1>4, TombstoneStaysRebuildable
<1>5. CASE CommitPatch
  BY <1>5, PatchStaysRebuildable
<1>6. CASE RebuildIndices
  BY <1>6, RebuildStaysRebuildable
<1> QED  BY <1>1, <1>2, <1>3, <1>4, <1>5, <1>6, StepCases DEF Alters

\* Whatever the client has called, the index is one that a rebuild of the
\* persisted payloads reaches: what waits to be erased is the newest alias of
\* its entity, every marker shadows, and the patches are in scan order.
THEOREM StaysRebuildable ==
  ASSUME LateMounts = FALSE
  PROVE  Spec => []Rebuildable
<1>1. IInv /\ Rebuildable /\ [Next]_vars => Rebuildable'
  BY NextStaysRebuildable
<1> QED  BY <1>1, InitRebuildable, StackInvariant, PTL DEF Spec

-----------------------------------------------------------------------------
(* Relations *)

LEMMA FoundUnlessShadowed ==
  ASSUME IInv, NEW edge \in active \cap DOMAIN edgeSrc,
         edge \notin index.shadowed,
         ~(edgeSrc[edge] \notin active /\ edgeSrc[edge][1] = edge[1]),
         NEW e \in Entity,
         LogicalRoot(index, e) = LogicalRoot(index, edgeSrc[edge])
  PROVE  edge \in OutboundEdges(e)
<1> DEFINE source == edgeSrc[edge]
<1>1. <<source, edge>> \in adj
  BY DEF IInv, Registered
<1>2. source \in Entity /\ WellIndexed(index, redirOf, Entity)
  BY DEF IInv, Written, Indexed
<1> HIDE DEF source
<1>3. /\ source \in Range(RedirectChain(index, source))
      /\ RedirectChain(index, LogicalRoot(index, source))
           = RedirectChain(index, source)
      /\ RedirectChain(index, LogicalRoot(index, e)) = RedirectChain(index, e)
  BY <1>2, Resolved
<1>4. source \in Range(RedirectChain(index, e))
  BY <1>3 DEF source
<1> QED  BY <1>1, <1>4 DEF OutboundEdges, IsTombstoned

\* The index shadows nothing but what a marker or a patch was written for.
LEMMA ShadowedIsOverlaid ==
  ASSUME IInv, Rebuildable
  PROVE  index.shadowed \subseteq Overlaid
<1>1. \A p \in DOMAIN index.rootOf : p \in DOMAIN redirOf
  BY PatchOf DEF IInv, Indexed
<1> QED  BY <1>1 DEF Rebuildable, Overlaid, Range

\* An edge for which nothing was written in a higher layer, neither a marker nor
\* a patch, is found from every alias of its source, in whichever layers edge and
\* aliases lie and after any commit, rebuild or reboot, unless the source was
\* destroyed in the edge's own layer (get_outbound_edges).
THEOREM UntouchedEdgesStay ==
  ASSUME LateMounts = FALSE
  PROVE  Spec => []UntouchedEdgesFound
<1>1. IInv /\ Rebuildable => UntouchedEdgesFound
  BY FoundUnlessShadowed, ShadowedIsOverlaid DEF UntouchedEdgesFound
<1> QED  BY <1>1, StackInvariant, StaysRebuildable, PTL

-----------------------------------------------------------------------------
(* Rebuilding, and the refinement *)

LEMMA RebuildFinds ==
  ASSUME IInv, Rebuildable, Rebuild \/ Reboot
  PROVE  \A e \in Root \ Scarred : e \in Root' /\ View'[e] = View[e]
<1>1. RebuildIndices
  BY DEF Rebuild, Reboot
<1> QED  BY <1>1, RebuildRecovers

\* A rebuild from the persisted layers, also in a reboot, finds every entity as
\* it was, however often it was patched and in however many layers, unless one
\* of its patches was erased in place.
THEOREM RebuildFindsTheRest ==
  ASSUME LateMounts = FALSE
  PROVE  Spec => RebuildKeepsTheRest
<1>1. IInv /\ Rebuildable /\ [Next]_vars
        => [Rebuild \/ Reboot =>
              \A e \in Root \ Scarred : e \in Root' /\ View'[e] = View[e]]_vars
  BY RebuildFinds
<1> QED  BY <1>1, StackInvariant, StaysRebuildable, PTL DEF Spec, RebuildKeepsTheRest

LEMMA StartsFlat == Init => Flat!Init
<1> SUFFICES ASSUME Init PROVE Flat!Init
  OBVIOUS
<1>1. DOMAIN mask = {} /\ tombQ = <<>> /\ shadowQ = <<>>
  BY NoneInEmpty DEF Init
<1>2. Root = {}
  BY <1>1 DEF Root, Entity
<1>3. View = <<>>
  <2>1. View = [e \in {} |-> DynamicMask(e)]
    BY <1>2 DEF View
  <2> QED  BY <2>1
<1>4. Scarred = {}
  BY <1>2 DEF Scarred
<1>5. Pending = <<>>
  <2>1. IInv
    BY InitIInv
  <2>2. Pending \in Seq(Entity \X SUBSET Component)
        /\ Shaped(Pending, index, tombQ, shadowQ)
    BY <2>1, PendingIs, PendingShape, EntitiesKnown
  <2>3. Len(tombQ) = 0 /\ Len(shadowQ) = 0
    BY <1>1
  <2>4. Len(Pending) = 0
    BY <2>2, <2>3 DEF Shaped
  <2> QED  BY <2>2, <2>4, EmptySeq
<1> QED  BY <1>3, <1>4, <1>5 DEF Flat!Init

LEMMA StepsFlat ==
  ASSUME LateMounts = FALSE, IInv, IInv', Rebuildable, [Next]_vars
  PROVE  Flat!Next
<1>1. CASE Grows
  BY <1>1, Appears DEF Grows, Flat!Next
<1>2. CASE \E e \in Entity : DestroyEntity(e)
  BY <1>2, DestroyWrites DEF Flat!Next
<1>3. CASE \E e \in Entity : \E c \in Changes :
             AddComponent(e, {c}) \/ RemoveComponent(e, {c})
  <2>1. \A c \in Changes : {c} \in SUBSET Component /\ {} \in SUBSET Component
    BY LayerAssumption
  <2>2. PICK e \in Entity, c \in Changes :
          Change(e, {c}, {}) \/ Change(e, {}, {c})
    BY <1>3 DEF AddComponent, RemoveComponent
  <2> QED  BY <2>1, <2>2, ChangeWrites DEF Flat!Next
<1>4. CASE CommitTombstone
  BY <1>4, TombstoneSettles DEF Flat!Next
<1>5. CASE CommitPatch
  BY <1>5, PatchSettles DEF Flat!Next
<1>6. CASE RebuildIndices
  BY <1>6, Recovers DEF Flat!Next
<1> QED  BY <1>1, <1>2, <1>3, <1>4, <1>5, <1>6, StepCases DEF Alters

\* To its users the stack of layers is one flat store: a write, in place or
\* deferred to the next commit, decides what becomes of its entity when it is
\* accepted, settling it touches no other entity, and rebuilding the indices
\* keeps every entity that was not erased in place (Docs/Virtualization.md,
\* section 2).
THEOREM StackIsAFlatStore ==
  ASSUME LateMounts = FALSE
  PROVE  Spec => LayersMakeAFlatStore
<1>1. Init => Flat!Init
  BY StartsFlat
<1>2. IInv /\ IInv' /\ Rebuildable /\ [Next]_vars
        => [Flat!Next]_<<View, Pending, Scarred>>
  BY StepsFlat
<1> QED
  BY <1>1, <1>2, StackInvariant, StaysRebuildable, PTL
  DEF Spec, LayersMakeAFlatStore, Flat!Spec
===============================================================================
