------------------------ MODULE LayeredDatabase_proofs ------------------------
(***************************************************************************)
(* Proofs about LayeredDatabase, for any stack, any number of entities and *)
(* any calls of the free client that mounts no layer under one in use.     *)
(***************************************************************************)
EXTENDS LayeredDatabase, FiniteSetTheorems, WellFoundedInduction, TLAPS

Coordinate == Nat \X Nat \X Nat

\* The maps of an index speak of entities U and agree with the patches R: every
\* alias knows its root, a chain leads from the root to the terminal and meets no
\* alias twice, and each of its patches replaces a shadowed alias before it.
Chained(index0, R, U, r) ==
  LET chain == index0.chains[r] IN
  /\ r \in U /\ r \notin DOMAIN index0.rootOf /\ r \in index0.shadowed
  /\ chain \in Seq(U) /\ Len(chain) >= 2
  /\ chain[1] = r /\ index0.terminal[r] = chain[Len(chain)]
  /\ \A i, k \in 1..Len(chain) : chain[i] = chain[k] => i = k
  /\ \A k \in 2..Len(chain) :
       /\ chain[k] \in DOMAIN index0.rootOf /\ index0.rootOf[chain[k]] = r
       /\ chain[k] \in DOMAIN R /\ R[chain[k]] \in index0.shadowed
       /\ \E i \in 1..(k - 1) : chain[i] = R[chain[k]]

WellIndexed(index0, R, U) ==
  /\ DOMAIN index0 = {"shadowed", "terminal", "rootOf", "chains"}
  /\ index0.shadowed \subseteq U
  /\ DOMAIN index0.terminal = DOMAIN index0.chains
  /\ \A r \in DOMAIN index0.chains : Chained(index0, R, U, r)
  /\ \A p \in DOMAIN index0.rootOf :
       /\ p \in U
       /\ index0.rootOf[p] \in DOMAIN index0.chains
       /\ p \in Range(index0.chains[index0.rootOf[p]])

\* The patches of a chain lie in the order of the scan.
Sorted(index0) ==
  \A r \in DOMAIN index0.chains : \A j, k \in 2..Len(index0.chains[r]) :
    j < k => ScannedAfter(index0.chains[r][k], index0.chains[r][j])

\* Every slot in use lies below the next one of its partition.
Typed ==
  /\ depth \in Nat \ {0}
  /\ mode \in {"idle", "commit"}
  /\ next \in [0..Top -> [Partition -> Nat]]
  /\ mask \in [DOMAIN mask -> SUBSET Component]
  /\ DOMAIN mask \subseteq Coordinate
  /\ IsFiniteSet(DOMAIN mask)
  /\ \A e \in DOMAIN mask : /\ e[1] \in 0..Top /\ e[2] \in Partition
                            /\ e[3] < next[e[1]][e[2]]
  /\ active \subseteq DOMAIN mask

\* A filter has taken in whatever its page holds.
Filtered ==
  /\ DOMAIN bloom = {PageOf(e) : e \in DOMAIN mask}
  /\ \A e \in DOMAIN mask : mask[e] \subseteq bloom[PageOf(e)]

\* Payloads speak of entities, and a patch lies above what it replaces.
Written ==
  /\ DOMAIN tombOf \subseteq DOMAIN mask
  /\ \A t \in DOMAIN tombOf : tombOf[t] \in Entity
  /\ DOMAIN redirOf \subseteq Entity
  /\ \A p \in DOMAIN redirOf : redirOf[p] \in Entity /\ redirOf[p][1] < p[1]
  /\ DOMAIN edgeSrc \subseteq Entity
  /\ \A e \in DOMAIN edgeSrc : edgeSrc[e] \in Entity

\* An edge is registered, unless its source was destroyed beside it.
Registered ==
  /\ adj \subseteq Entity \X DOMAIN edgeSrc
  /\ \A e \in DOMAIN edgeSrc :
       \/ <<edgeSrc[e], e>> \in adj
       \/ edgeSrc[e] \notin active /\ edgeSrc[e][1] = e[1]

\* What is queued speaks of entities, and a patch is queued for one below.
Frozen == {e \in Entity : e[1] < Top}

Queueing ==
  /\ spawnQ \in [0..Top -> [Partition -> Seq(SUBSET Component)]]
  /\ edgeQ \in [0..Top -> Seq([source : Entity, mask : SUBSET Component])]
  /\ tombQ \in Seq(Entity)
  /\ shadowQ \in Seq([base : Frozen, new : SUBSET Component])

Indexed == WellIndexed(index, redirOf, Entity)

IInv == Typed /\ Filtered /\ Written /\ Registered /\ Queueing /\ Indexed

-----------------------------------------------------------------------------
(* The shadow index *)

LEMMA WithAt ==
  ASSUME NEW f, NEW x, NEW v
  PROVE  /\ DOMAIN With(f, x, v) = DOMAIN f \cup {x}
         /\ With(f, x, v)[x] = v
         /\ \A y \in DOMAIN f : y # x => With(f, x, v)[y] = f[y]
BY DEF With

\* What resolves an alias stays within the entities.
LEMMA Resolved ==
  ASSUME NEW idx, NEW R, NEW U, WellIndexed(idx, R, U), NEW e \in U
  PROVE  /\ LogicalRoot(idx, e) \in U
         /\ LogicalRoot(idx, e) \notin DOMAIN idx.rootOf
         /\ Terminal(idx, e) \in U
         /\ RedirectChain(idx, LogicalRoot(idx, e)) = RedirectChain(idx, e)
         /\ RedirectChain(idx, e) \in Seq(U)
         /\ Len(RedirectChain(idx, e)) >= 1
         /\ RedirectChain(idx, e)[1] = LogicalRoot(idx, e)
         /\ Terminal(idx, e) = RedirectChain(idx, e)[Len(RedirectChain(idx, e))]
         /\ e \in Range(RedirectChain(idx, e))
<1> DEFINE r == LogicalRoot(idx, e)
<1>1. CASE e \in DOMAIN idx.rootOf
  <2>1. r = idx.rootOf[e] /\ r \in DOMAIN idx.chains
        /\ e \in Range(idx.chains[r])
    BY <1>1 DEF WellIndexed, LogicalRoot
  <2>2. Chained(idx, R, U, r)
    BY <2>1 DEF WellIndexed
  <2>3. r \in DOMAIN idx.terminal
    BY <2>1 DEF WellIndexed
  <2>4. RedirectChain(idx, e) = idx.chains[r] /\ Terminal(idx, e) = idx.terminal[r]
    BY <2>1, <2>3 DEF RedirectChain, Terminal
  <2>5. r \notin DOMAIN idx.rootOf /\ r \in U
    BY <2>2 DEF Chained
  <2>6. LogicalRoot(idx, r) = r
    BY <2>5 DEF LogicalRoot
  <2>7. RedirectChain(idx, r) = idx.chains[r]
    BY <2>6, <2>1 DEF RedirectChain
  <2>8. /\ idx.chains[r] \in Seq(U) /\ Len(idx.chains[r]) >= 2
        /\ idx.chains[r][1] = r
        /\ idx.terminal[r] = idx.chains[r][Len(idx.chains[r])]
    BY <2>2 DEF Chained
  <2>9. idx.terminal[r] \in U
    BY <2>8
  <2> HIDE DEF r
  <2> QED  BY <2>1, <2>4, <2>5, <2>7, <2>8, <2>9 DEF r
<1>2. CASE e \notin DOMAIN idx.rootOf /\ e \in DOMAIN idx.chains
  <2>1. r = e
    BY <1>2 DEF LogicalRoot
  <2>2. Chained(idx, R, U, e)
    BY <1>2 DEF WellIndexed
  <2>3. RedirectChain(idx, e) = idx.chains[e] /\ Terminal(idx, e) = idx.terminal[e]
    BY <1>2, <2>1 DEF RedirectChain, Terminal, WellIndexed
  <2>4. /\ idx.chains[e] \in Seq(U) /\ Len(idx.chains[e]) >= 2
        /\ idx.chains[e][1] = e
        /\ idx.terminal[e] = idx.chains[e][Len(idx.chains[e])]
    BY <2>2 DEF Chained
  <2>5. idx.terminal[e] \in U /\ e \in Range(idx.chains[e])
    BY <2>4 DEF Range
  <2> HIDE DEF r
  <2> QED  BY <2>1, <2>3, <2>4, <2>5, <1>2 DEF r
<1>3. CASE e \notin DOMAIN idx.rootOf /\ e \notin DOMAIN idx.chains
  <2>1. r = e
    BY <1>3 DEF LogicalRoot
  <2>2. RedirectChain(idx, e) = <<e>> /\ Terminal(idx, e) = e
    BY <1>3, <2>1 DEF RedirectChain, Terminal, WellIndexed
  <2>3. e \in Range(<<e>>) /\ <<e>> \in Seq(U) /\ Len(<<e>>) = 1 /\ <<e>>[1] = e
    BY DEF Range
  <2> HIDE DEF r
  <2> QED  BY <2>1, <2>2, <2>3, <1>3 DEF r
<1> QED  BY <1>1, <1>2, <1>3

LEMMA OneMore ==
  ASSUME NEW U, NEW s \in Seq(U), NEW x \in U
  PROVE  /\ Append(s, x) \in Seq(U) /\ Len(Append(s, x)) = Len(s) + 1
         /\ \A k \in 1..Len(s) : Append(s, x)[k] = s[k]
         /\ Append(s, x)[Len(s) + 1] = x
         /\ x \in Range(Append(s, x)) /\ Range(s) \subseteq Range(Append(s, x))
<1>1. /\ Append(s, x) \in Seq(U) /\ Len(Append(s, x)) = Len(s) + 1
      /\ \A k \in 1..Len(s) : Append(s, x)[k] = s[k]
      /\ Append(s, x)[Len(s) + 1] = x
      /\ Len(s) \in Nat /\ DOMAIN s = 1..Len(s)
      /\ DOMAIN Append(s, x) = 1..(Len(s) + 1)
  OBVIOUS
<1>2. \A k \in 1..Len(s) : k \in 1..(Len(s) + 1)
  BY <1>1
<1>3. Len(s) + 1 \in 1..(Len(s) + 1)
  BY <1>1
<1> QED  BY <1>1, <1>2, <1>3 DEF Range

\* An alias is alone in its chain, or the chain is one of the index.
LEMMA ChainOf ==
  ASSUME NEW idx, NEW R, NEW U, WellIndexed(idx, R, U), NEW e \in U
  PROVE  \/ Len(RedirectChain(idx, e)) = 1
         \/ /\ LogicalRoot(idx, e) \in DOMAIN idx.chains
            /\ RedirectChain(idx, e) = idx.chains[LogicalRoot(idx, e)]
            /\ Chained(idx, R, U, LogicalRoot(idx, e))
<1>1. CASE LogicalRoot(idx, e) \in DOMAIN idx.chains
  BY <1>1 DEF RedirectChain, WellIndexed
<1>2. CASE LogicalRoot(idx, e) \notin DOMAIN idx.chains
  <2>1. RedirectChain(idx, e) = <<LogicalRoot(idx, e)>>
    BY <1>2 DEF RedirectChain
  <2> QED  BY <2>1
<1> QED  BY <1>1, <1>2

\* A new patch goes to the end of one chain and leaves the others alone.
LEMMA RedirectKeeps ==
  ASSUME NEW idx, NEW R, NEW U, WellIndexed(idx, R, U), NEW base \in U,
         NEW patch \in U, patch \in DOMAIN R, R[patch] = base,
         patch \notin DOMAIN idx.rootOf, patch \notin DOMAIN idx.chains,
         patch # LogicalRoot(idx, base)
  PROVE  WellIndexed(AddRedirect(idx, base, patch), R, U)
<1> DEFINE root == LogicalRoot(idx, base)
           old == RedirectChain(idx, root)
           chain == Append(old, patch)
           new == AddRedirect(idx, base, patch)
<1>1. /\ new.shadowed = idx.shadowed \cup {base}
      /\ new.terminal = With(idx.terminal, root, patch)
      /\ new.rootOf = With(idx.rootOf, patch, root)
      /\ new.chains = With(idx.chains, root, chain)
  BY DEF AddRedirect
<1>2. /\ root \in U /\ root \notin DOMAIN idx.rootOf
      /\ old = RedirectChain(idx, base) /\ old \in Seq(U) /\ Len(old) >= 1
      /\ old[1] = root /\ base \in Range(old)
  BY Resolved
<1>3. /\ chain \in Seq(U) /\ Len(chain) = Len(old) + 1
      /\ \A k \in 1..Len(old) : chain[k] = old[k]
      /\ chain[Len(old) + 1] = patch
      /\ patch \in Range(chain) /\ Range(old) \subseteq Range(chain)
  BY <1>2, OneMore
<1>4. PICK i \in 1..Len(old) : old[i] = base
  BY <1>2 DEF Range
<1>5. /\ DOMAIN new.rootOf = DOMAIN idx.rootOf \cup {patch}
      /\ new.rootOf[patch] = root
      /\ \A p \in DOMAIN idx.rootOf : new.rootOf[p] = idx.rootOf[p]
  <2> HIDE DEF root, chain, new
  <2> QED  BY <1>1 DEF With
<1>6. /\ DOMAIN new.chains = DOMAIN idx.chains \cup {root}
      /\ new.chains[root] = chain
      /\ \A r \in DOMAIN idx.chains : r # root => new.chains[r] = idx.chains[r]
  <2> HIDE DEF root, chain, new
  <2> QED  BY <1>1 DEF With
<1>7. /\ DOMAIN new.terminal = DOMAIN idx.terminal \cup {root}
      /\ new.terminal[root] = patch
      /\ \A r \in DOMAIN idx.terminal :
           r # root => new.terminal[r] = idx.terminal[r]
  <2> HIDE DEF root, chain, new
  <2> QED  BY <1>1 DEF With
<1>8. root \in DOMAIN idx.chains => old = idx.chains[root]
  BY <1>2 DEF RedirectChain, LogicalRoot
<1>9. root \notin DOMAIN idx.chains => old = <<root>> /\ base = root
  <2> SUFFICES ASSUME root \notin DOMAIN idx.chains
               PROVE  old = <<root>> /\ base = root
    OBVIOUS
  <2>1. LogicalRoot(idx, root) = root
    BY <1>2 DEF LogicalRoot
  <2>2. old = <<root>>
    BY <2>1 DEF RedirectChain
  <2>3. base \notin DOMAIN idx.rootOf
    BY DEF LogicalRoot, WellIndexed
  <2> QED  BY <2>2, <2>3 DEF LogicalRoot
<1>10. root \in new.shadowed
  <2>1. CASE root \in DOMAIN idx.chains
    BY <2>1, <1>1 DEF WellIndexed, Chained
  <2>2. CASE root \notin DOMAIN idx.chains
    BY <2>2, <1>1, <1>9
  <2> QED  BY <2>1, <2>2
<1>11. \A k \in 2..Len(old) :
         /\ old[k] \in DOMAIN idx.rootOf /\ idx.rootOf[old[k]] = root
         /\ old[k] \in DOMAIN R /\ R[old[k]] \in idx.shadowed
         /\ \E j \in 1..(k - 1) : old[j] = R[old[k]]
  <2>1. CASE root \in DOMAIN idx.chains
    <3>1. Chained(idx, R, U, root)
      BY <2>1 DEF WellIndexed
    <3> HIDE DEF root, old
    <3> QED  BY <3>1, <2>1, <1>8 DEF Chained
  <2>2. CASE root \notin DOMAIN idx.chains
    <3>1. Len(old) = 1
      BY <2>2, <1>9
    <3> QED  BY <3>1
  <2> QED  BY <2>1, <2>2
<1> HIDE DEF root, old, chain, new
<1>12. \A j, k \in 1..Len(old) : old[j] = old[k] => j = k
  <2>1. CASE root \in DOMAIN idx.chains
    <3>1. Chained(idx, R, U, root)
      BY <2>1 DEF WellIndexed
    <3> QED  BY <3>1, <2>1, <1>8 DEF Chained
  <2>2. CASE root \notin DOMAIN idx.chains
    <3>1. Len(old) = 1
      BY <2>2, <1>9
    <3> QED  BY <3>1
  <2> QED  BY <2>1, <2>2
<1>13. \A k \in 1..Len(old) : old[k] # patch
  <2>1. ASSUME NEW k \in 1..Len(old) PROVE old[k] # patch
    <3>1. k = 1 \/ k \in 2..Len(old)
      BY <1>2
    <3>2. patch # root
      BY DEF root
    <3> QED  BY <3>1, <3>2, <1>2, <1>11
  <2> QED  BY <2>1
<1>14. Chained(new, R, U, root)
  <2>1. root \in U /\ root \notin DOMAIN new.rootOf /\ root \in new.shadowed
    BY <1>2, <1>5, <1>10 DEF root
  <2>2. /\ chain \in Seq(U) /\ Len(chain) >= 2 /\ chain[1] = root
        /\ new.terminal[root] = chain[Len(chain)]
    BY <1>2, <1>3, <1>7
  <2>3. ASSUME NEW k \in 2..Len(chain)
        PROVE  /\ chain[k] \in DOMAIN new.rootOf /\ new.rootOf[chain[k]] = root
               /\ chain[k] \in DOMAIN R /\ R[chain[k]] \in new.shadowed
               /\ \E j \in 1..(k - 1) : chain[j] = R[chain[k]]
    <3>1. CASE k = Len(old) + 1
      <4>1. chain[k] = patch /\ i \in 1..(k - 1) /\ chain[i] = base
        BY <3>1, <1>2, <1>3, <1>4
      <4>2. base \in new.shadowed
        BY <1>1
      <4> QED  BY <4>1, <4>2, <1>5
    <3>2. CASE k # Len(old) + 1
      <4>1. Len(old) \in Nat /\ k \in Nat /\ k \in 2..Len(old)
        BY <3>2, <1>2, <1>3
      <4>2. chain[k] = old[k] /\ \A j \in 1..(k - 1) : chain[j] = old[j]
        BY <4>1, <1>3
      <4>3. /\ old[k] \in DOMAIN idx.rootOf /\ idx.rootOf[old[k]] = root
            /\ old[k] \in DOMAIN R /\ R[old[k]] \in idx.shadowed
            /\ \E j \in 1..(k - 1) : old[j] = R[old[k]]
        BY <4>1, <1>11
      <4> QED  BY <4>2, <4>3, <1>1, <1>5
    <3> QED  BY <3>1, <3>2
  <2>4. \A j, k \in 1..Len(chain) : chain[j] = chain[k] => j = k
    <3>1. \A k \in 1..Len(chain) : k \in 1..Len(old) \/ k = Len(old) + 1
      BY <1>2, <1>3
    <3> QED  BY <3>1, <1>3, <1>12, <1>13
  <2> QED  BY <2>1, <2>2, <2>3, <2>4, <1>6 DEF Chained
<1>15. ASSUME NEW r \in DOMAIN idx.chains, r # root
       PROVE  Chained(new, R, U, r)
  <2>1. Chained(idx, R, U, r)
    BY DEF WellIndexed
  <2>2. new.chains[r] = idx.chains[r] /\ r # patch
    BY <1>6, <1>15
  <2>3. new.terminal[r] = idx.terminal[r]
    BY <1>7, <1>15 DEF WellIndexed
  <2> QED  BY <2>1, <2>2, <2>3, <1>1, <1>5 DEF Chained
<1>16. new.shadowed \subseteq U
  BY <1>1 DEF WellIndexed
<1>17. ASSUME NEW p \in DOMAIN new.rootOf
       PROVE  /\ p \in U /\ new.rootOf[p] \in DOMAIN new.chains
              /\ p \in Range(new.chains[new.rootOf[p]])
  <2>1. CASE p = patch
    BY <2>1, <1>3, <1>5, <1>6
  <2>2. CASE p # patch
    <3>1. /\ p \in DOMAIN idx.rootOf /\ new.rootOf[p] = idx.rootOf[p]
          /\ p \in U /\ idx.rootOf[p] \in DOMAIN idx.chains
          /\ p \in Range(idx.chains[idx.rootOf[p]])
      BY <2>2, <1>5 DEF WellIndexed
    <3>2. CASE idx.rootOf[p] = root
      <4>1. root \in DOMAIN idx.chains /\ p \in Range(old)
        BY <3>1, <3>2, <1>8
      <4> QED  BY <4>1, <3>1, <3>2, <1>3, <1>6
    <3>3. CASE idx.rootOf[p] # root
      BY <3>1, <3>3, <1>6
    <3> QED  BY <3>2, <3>3
  <2> QED  BY <2>1, <2>2
<1>18. DOMAIN new.terminal = DOMAIN new.chains
  BY <1>6, <1>7 DEF WellIndexed
<1>19. DOMAIN new = {"shadowed", "terminal", "rootOf", "chains"}
  BY DEF AddRedirect, new
<1> QED  BY <1>6, <1>14, <1>15, <1>16, <1>17, <1>18, <1>19
    DEF WellIndexed, new

\* A patch that lies after all the others leaves the chains sorted.
LEMMA RedirectSorts ==
  ASSUME NEW idx, NEW R, NEW U, WellIndexed(idx, R, U), Sorted(idx),
         NEW base \in U, NEW patch \in U,
         \A p \in DOMAIN idx.rootOf : ScannedAfter(patch, p)
  PROVE  Sorted(AddRedirect(idx, base, patch))
<1> DEFINE root == LogicalRoot(idx, base)
           old == RedirectChain(idx, base)
           new == AddRedirect(idx, base, patch)
<1>1. /\ root \in U /\ RedirectChain(idx, root) = old /\ old \in Seq(U)
  BY Resolved
<1>2. new.chains = With(idx.chains, root, Append(old, patch))
  BY <1>1 DEF AddRedirect
<1>3. /\ Len(Append(old, patch)) = Len(old) + 1 /\ Len(old) \in Nat
      /\ \A k \in 1..Len(old) : Append(old, patch)[k] = old[k]
      /\ Append(old, patch)[Len(old) + 1] = patch
  BY <1>1, OneMore
<1>4. \/ Len(old) = 1
      \/ old = idx.chains[root] /\ Chained(idx, R, U, root) /\ root \in DOMAIN idx.chains
  BY ChainOf
<1> HIDE DEF root, old
<1>5. ASSUME NEW j \in 2..Len(old)
      PROVE  /\ ScannedAfter(patch, old[j])
             /\ \A k \in 2..Len(old) : j < k => ScannedAfter(old[k], old[j])
  <2>1. ASSUME Len(old) = 1 PROVE FALSE
    <3>1. j \in 2..1
      BY <2>1
    <3> QED  BY <3>1
  <2>2. old = idx.chains[root] /\ Chained(idx, R, U, root) /\ root \in DOMAIN idx.chains
    BY <2>1, <1>4
  <2>3. old[j] \in DOMAIN idx.rootOf
    BY <2>2 DEF Chained
  <2> QED  BY <2>2, <2>3 DEF Sorted
<1> DEFINE chain == Append(old, patch)
<1> HIDE DEF chain, new
<1>6. ASSUME NEW j \in 2..Len(chain), NEW k \in 2..Len(chain), j < k
      PROVE  ScannedAfter(chain[k], chain[j])
  <2>1. j \in 2..Len(old) /\ (k \in 2..Len(old) \/ k = Len(old) + 1)
    BY <1>3, <1>6 DEF chain
  <2>2. chain[j] = old[j]
    BY <2>1, <1>3 DEF chain
  <2>3. CASE k \in 2..Len(old)
    <3>1. chain[k] = old[k]
      BY <2>3, <1>3 DEF chain
    <3> QED  BY <3>1, <2>1, <2>2, <2>3, <1>5, <1>6
  <2>4. CASE k = Len(old) + 1
    <3>1. chain[k] = patch
      BY <2>4, <1>3 DEF chain
    <3> QED  BY <3>1, <2>1, <2>2, <1>5
  <2> QED  BY <2>1, <2>3, <2>4
<1>7. /\ DOMAIN new.chains = DOMAIN idx.chains \cup {root}
      /\ new.chains[root] = chain
      /\ \A r \in DOMAIN idx.chains : r # root => new.chains[r] = idx.chains[r]
  BY <1>2 DEF With, chain
<1>8. ASSUME NEW r \in DOMAIN new.chains, NEW j \in 2..Len(new.chains[r]),
             NEW k \in 2..Len(new.chains[r]), j < k
      PROVE  ScannedAfter(new.chains[r][k], new.chains[r][j])
  <2>1. CASE r = root
    BY <2>1, <1>6, <1>7, <1>8
  <2>2. CASE r # root
    BY <2>2, <1>7, <1>8 DEF Sorted
  <2> QED  BY <2>1, <2>2
<1> QED  BY <1>8 DEF Sorted, new

\* More entities, patches and shadows do no harm.
LEMMA IndexGrows ==
  ASSUME NEW idx, NEW R, NEW U, WellIndexed(idx, R, U),
         NEW new, NEW S, NEW V, U \subseteq V,
         \A p \in DOMAIN R : p \in DOMAIN S /\ S[p] = R[p],
         DOMAIN new = DOMAIN idx, new.terminal = idx.terminal, new.rootOf = idx.rootOf,
         new.chains = idx.chains, idx.shadowed \subseteq new.shadowed,
         new.shadowed \subseteq V
  PROVE  WellIndexed(new, S, V)
<1>1. ASSUME NEW r \in DOMAIN new.chains PROVE Chained(new, S, V, r)
  <2>1. Chained(idx, R, U, r)
    BY DEF WellIndexed
  <2>2. new.chains[r] \in Seq(U) => new.chains[r] \in Seq(V)
    OBVIOUS
  <2> QED  BY <2>1, <2>2 DEF Chained
<1> QED  BY <1>1 DEF WellIndexed

-----------------------------------------------------------------------------
(* The rebuilt index *)

LEMMA Least ==
  ASSUME NEW Q \in SUBSET Nat, Q # {}
  PROVE  \E m \in Q : \A i \in 0..(m - 1) : i \notin Q
<1> DEFINE R == {p \in Nat \X Nat : p[1] < p[2]}
<1>1. IsWellFoundedOn(R, Nat)
  BY NatLessThanWellFounded DEF OpToRel
<1>2. PICK m \in Q : \A i \in Q : ~(<<i, m>> \in R)
  BY <1>1, WFMin
<1>3. \A i \in 0..(m - 1) : <<i, m>> \in R
  OBVIOUS
<1> QED  BY <1>2, <1>3

\* A family of subsets of a finite set has one that is minimal.
LEMMA Minimal ==
  ASSUME NEW P, IsFiniteSet(P), NEW Q \in SUBSET SUBSET P, Q # {}
  PROVE  \E s \in Q : \A x \in s : s \ {x} \notin Q
<1> DEFINE Sizes == {Cardinality(s) : s \in Q}
<1>1. \A s \in Q : IsFiniteSet(s) /\ Cardinality(s) \in Nat
  BY FS_Subset, FS_CardinalityType
<1>2. Sizes \in SUBSET Nat /\ Sizes # {}
  BY <1>1
<1>3. PICK m \in Sizes : \A i \in 0..(m - 1) : i \notin Sizes
  <2> HIDE DEF Sizes
  <2> QED  BY <1>2, Least
<1>4. PICK s \in Q : Cardinality(s) = m
  OBVIOUS
<1>5. ASSUME NEW x \in s, s \ {x} \in Q PROVE FALSE
  <2>1. Cardinality(s \ {x}) = m - 1
    BY <1>1, <1>4, FS_RemoveElement
  <2>2. m - 1 \in Sizes
    BY <2>1, <1>5
  <2>3. m \in Nat /\ m - 1 \in Nat
    BY <1>2, <2>2
  <2> QED  BY <1>3, <2>2, <2>3
<1> QED  BY <1>5

\* The order of the scan is total.
LEMMA ScanOrder ==
  ASSUME NEW a \in Coordinate, NEW b \in Coordinate
  PROVE  /\ a # b => ScannedAfter(a, b) \/ ScannedAfter(b, a)
         /\ ~(ScannedAfter(a, b) /\ ScannedAfter(b, a))
         /\ \A c \in Coordinate :
              ScannedAfter(a, b) /\ ScannedAfter(b, c) => ScannedAfter(a, c)
BY DEF Coordinate, ScannedAfter, After

LEMMA LastExists ==
  ASSUME NEW P \in SUBSET Coordinate, IsFiniteSet(P),
         NEW s \in SUBSET P, s # {}
  PROVE  /\ LastScanned(s) \in s
         /\ \A o \in s \ {LastScanned(s)} : ScannedAfter(LastScanned(s), o)
<1> DEFINE HasLast(t) == \E e \in t : \A o \in t \ {e} : ScannedAfter(e, o)
           Q == {t \in SUBSET P : t # {} /\ ~HasLast(t)}
<1>1. Q = {}
  <2> SUFFICES ASSUME Q # {} PROVE FALSE
    OBVIOUS
  <2>1. PICK t \in Q : \A x \in t : t \ {x} \notin Q
    <3>1. Q \in SUBSET SUBSET P
      OBVIOUS
    <3> HIDE DEF Q
    <3> QED  BY <3>1, Minimal
  <2>2. t \in SUBSET P /\ t # {} /\ ~HasLast(t)
    OBVIOUS
  <2>3. PICK x \in t : TRUE
    BY <2>2
  <2>4. PICK e \in t \ {x} : \A o \in (t \ {x}) \ {e} : ScannedAfter(e, o)
    <3>1. t \ {x} = {} \/ HasLast(t \ {x})
      BY <2>1, <2>2
    <3>2. t \ {x} # {}
      BY <2>2
    <3> QED  BY <3>1, <3>2
  <2>5. ScannedAfter(e, x) \/ ScannedAfter(x, e)
    BY <2>2, <2>4, ScanOrder
  <2>6. CASE ScannedAfter(e, x)
    <3>1. \A o \in t \ {e} : ScannedAfter(e, o)
      BY <2>4, <2>6
    <3> QED  BY <2>2, <2>4, <3>1
  <2>7. CASE ScannedAfter(x, e)
    <3>1. ASSUME NEW o \in t \ {x} PROVE ScannedAfter(x, o)
      <4>1. CASE o = e
        BY <4>1, <2>7
      <4>2. CASE o # e
        <5>1. ScannedAfter(e, o)
          BY <2>4, <4>2
        <5> QED  BY <5>1, <2>2, <2>7, ScanOrder
      <4> QED  BY <4>1, <4>2
    <3> QED  BY <2>2, <3>1
  <2> QED  BY <2>5, <2>6, <2>7
<1>2. HasLast(s)
  BY <1>1
<1> QED  BY <1>2 DEF LastScanned

\* The recursion of the rebuild, on the sets of at most n patches.
Replaying(f, R, first, P, n) ==
  f = [s \in {s \in SUBSET P : Cardinality(s) <= n} |->
         IF s = {} THEN first
         ELSE LET x == LastScanned(s)
              IN  AddRedirect(f[s \ {x}], R[x], x)]

LEMMA ReplayExists ==
  ASSUME NEW P \in SUBSET Coordinate, IsFiniteSet(P), NEW R, NEW first
  PROVE  \A n \in Nat : \E f : Replaying(f, R, first, P, n)
<1> DEFINE Bad == {n \in Nat : ~\E f : Replaying(f, R, first, P, n)}
<1> SUFFICES ASSUME Bad # {} PROVE FALSE
  OBVIOUS
<1>1. PICK n \in Bad : \A i \in 0..(n - 1) : i \notin Bad
  <2>1. Bad \in SUBSET Nat
    OBVIOUS
  <2> HIDE DEF Bad
  <2> QED  BY <2>1, Least
<1>2. n \in Nat
  OBVIOUS
<1>3. \A s \in SUBSET P : IsFiniteSet(s) /\ Cardinality(s) \in Nat
  BY FS_Subset, FS_CardinalityType
<1> DEFINE Of(m) == {s \in SUBSET P : Cardinality(s) <= m}
           Step(h, s) == LET x == LastScanned(s)
                         IN  AddRedirect(h[s \ {x}], R[x], x)
           Body(h, m) == [s \in Of(m) |-> IF s = {} THEN first ELSE Step(h, s)]
<1>4. CASE n = 0
  <2>1. \A s \in Of(0) : s = {}
    BY <1>3, FS_EmptySet
  <2> DEFINE f == [s \in Of(0) |-> first]
  <2>2. f = Body(f, 0)
    BY <2>1
  <2>3. Replaying(f, R, first, P, 0)
    BY <2>2 DEF Replaying
  <2> QED  BY <2>3, <1>4
<1>5. CASE n > 0
  <2>1. n - 1 \in Nat /\ n - 1 \in 0..(n - 1)
    BY <1>2, <1>5
  <2>2. n - 1 \notin Bad
    <3> HIDE DEF Bad
    <3> QED  BY <1>1, <2>1
  <2>3. PICK f : Replaying(f, R, first, P, n - 1)
    BY <2>1, <2>2
  <2>4. f = Body(f, n - 1)
    BY <2>3 DEF Replaying
  <2> DEFINE g == [s \in Of(n) |-> IF s \in Of(n - 1) THEN f[s] ELSE Step(f, s)]
  <2>5. ASSUME NEW s \in Of(n), s # {}
        PROVE  s \ {LastScanned(s)} \in Of(n - 1)
    <3>1. LastScanned(s) \in s /\ s \in SUBSET P
      BY <2>5, LastExists
    <3>2. Cardinality(s \ {LastScanned(s)}) = Cardinality(s) - 1
      BY <3>1, <1>3, FS_RemoveElement
    <3>3. Cardinality(s) \in Nat /\ Cardinality(s) <= n
      BY <1>3
    <3> QED  BY <3>1, <3>2, <3>3, <1>2
  <2>6. \A s \in Of(n - 1) : s \in Of(n)
    BY <1>2, <1>3
  <2>7. ASSUME NEW s \in Of(n)
        PROVE  g[s] = IF s = {} THEN first ELSE Step(g, s)
    <3>1. CASE s = {}
      <4>1. {} \in Of(n - 1)
        BY FS_EmptySet, <2>1
      <4>2. f[{}] = first
        <5> HIDE DEF Of, Step
        <5> QED  BY <4>1, <2>4
      <4> QED  BY <3>1, <4>1, <4>2
    <3>2. CASE s # {}
      <4> DEFINE t == s \ {LastScanned(s)}
      <4>1. t \in Of(n - 1) /\ t \in Of(n)
        BY <3>2, <2>5, <2>6
      <4>2. g[t] = f[t]
        <5> HIDE DEF Of, Step, t
        <5> QED  BY <4>1
      <4>3. Step(g, s) = Step(f, s)
        <5> HIDE DEF g
        <5> QED  BY <4>2
      <4>4. g[s] = Step(f, s)
        <5>1. s \in Of(n - 1) => f[s] = Step(f, s)
          <6> HIDE DEF Of, Step
          <6> QED  BY <2>4, <3>2
        <5> HIDE DEF Of, Step
        <5> QED  BY <5>1
      <4> QED  BY <4>3, <4>4, <3>2
    <3> QED  BY <3>1, <3>2
  <2>8. g = [s \in Of(n) |-> g[s]]
    <3> HIDE DEF Of, Step
    <3> QED  OBVIOUS
  <2> HIDE DEF g
  <2>9. g = Body(g, n)
    BY <2>7, <2>8
  <2>10. Replaying(g, R, first, P, n)
    BY <2>9 DEF Replaying
  <2> QED  BY <2>10
<1> QED  BY <1>2, <1>4, <1>5

LEMMA TombstoneFields ==
  ASSUME NEW idx, NEW R, NEW U, WellIndexed(idx, R, U), NEW e
  PROVE  LET new == AddTombstone(idx, e)
         IN  /\ new.shadowed = idx.shadowed \cup {e}
             /\ new.terminal = idx.terminal /\ new.rootOf = idx.rootOf
             /\ new.chains = idx.chains /\ DOMAIN new = DOMAIN idx
BY DEF AddTombstone, WellIndexed

LEMMA RedirectFields ==
  ASSUME NEW idx, NEW base, NEW patch
  PROVE  LET root == LogicalRoot(idx, base)
             new == AddRedirect(idx, base, patch)
         IN  /\ new.shadowed = idx.shadowed \cup {base}
             /\ new.terminal = With(idx.terminal, root, patch)
             /\ new.rootOf = With(idx.rootOf, patch, root)
             /\ new.chains = With(idx.chains, root,
                                 Append(RedirectChain(idx, root), patch))
BY DEF AddRedirect

LEMMA NoneInEmpty == DOMAIN <<>> = {}
<1>1. ASSUME NEW m \in Seq({}) PROVE DOMAIN m = 1..Len(m)
  OBVIOUS
<1>2. <<>> \in Seq({}) /\ Len(<<>>) = 0
  OBVIOUS
<1> QED  BY <1>1, <1>2

\* The recursion of the rebuild, on all sets of patches.
Whole(f, R, first, P) ==
  f = [s \in SUBSET P |->
         IF s = {} THEN first
         ELSE LET x == LastScanned(s)
              IN  AddRedirect(f[s \ {x}], R[x], x)]

LEMMA WholeExists ==
  ASSUME NEW P \in SUBSET Coordinate, IsFiniteSet(P), NEW R, NEW first
  PROVE  \E f : Whole(f, R, first, P)
<1>1. Cardinality(P) \in Nat
  BY FS_CardinalityType
<1>2. PICK f : Replaying(f, R, first, P, Cardinality(P))
  BY <1>1, ReplayExists
<1>3. {s \in SUBSET P : Cardinality(s) <= Cardinality(P)} = SUBSET P
  BY FS_Subset
<1> QED  BY <1>2, <1>3 DEF Replaying, Whole

\* Patches that lie after what they replace, redirected in the order of the
\* scan, give a well formed index.
LEMMA Replayed ==
  ASSUME NEW U \in SUBSET Coordinate, NEW P \in SUBSET U, IsFiniteSet(P),
         NEW R, \A p \in P : /\ p \in DOMAIN R /\ R[p] \in U
                             /\ ScannedAfter(p, R[p]),
         NEW T \in SUBSET U, NEW first,
         first = [EmptyIndex EXCEPT !.shadowed = T],
         NEW f, Whole(f, R, first, P)
  PROVE  /\ WellIndexed(f[P], R, U) /\ Sorted(f[P]) /\ DOMAIN f[P].rootOf = P
         /\ f[P].shadowed = T \cup {R[p] : p \in P}
<1> DEFINE Good(s) ==
             /\ WellIndexed(f[s], R, U) /\ Sorted(f[s]) /\ DOMAIN f[s].rootOf = s
             /\ f[s].shadowed = T \cup {R[p] : p \in s}
             /\ \A r \in DOMAIN f[s].chains : \E q \in s : ScannedAfter(q, r)
           Bad == {s \in SUBSET P : ~Good(s)}
<1>4. f[{}] = first
  BY DEF Whole
<1>5. ASSUME NEW s \in SUBSET P, s # {}
      PROVE  f[s] = AddRedirect(f[s \ {LastScanned(s)}], R[LastScanned(s)],
                                LastScanned(s))
  BY <1>5 DEF Whole
<1>6. Good({})
  <2>1. /\ first.shadowed = T /\ first.terminal = <<>>
        /\ first.rootOf = <<>> /\ first.chains = <<>>
      /\ DOMAIN first = {"shadowed", "terminal", "rootOf", "chains"}
    BY DEF EmptyIndex
  <2>2. DOMAIN first.terminal = {} /\ DOMAIN first.rootOf = {}
        /\ DOMAIN first.chains = {}
    BY <2>1, NoneInEmpty
  <2>3. WellIndexed(first, R, U)
    BY <2>1, <2>2 DEF WellIndexed
  <2>4. Sorted(first)
    BY <2>2 DEF Sorted
  <2> QED  BY <1>4, <2>1, <2>2, <2>3, <2>4
<1>7. Bad = {}
  <2> SUFFICES ASSUME Bad # {} PROVE FALSE
    OBVIOUS
  <2>1. PICK s \in Bad : \A x \in s : s \ {x} \notin Bad
    <3>1. Bad \in SUBSET SUBSET P
      OBVIOUS
    <3> HIDE DEF Bad
    <3> QED  BY <3>1, Minimal
  <2>2. s \in SUBSET P /\ s # {} /\ ~Good(s)
    <3> HIDE DEF Good
    <3> QED  BY <1>6
  <2> DEFINE x == LastScanned(s)
             rest == s \ {x}
             idx == f[rest]
             root == LogicalRoot(idx, R[x])
  <2>3. x \in s /\ \A o \in s \ {x} : ScannedAfter(x, o)
    BY <2>2, LastExists
  <2>4. Good(rest)
    <3>1. rest \in SUBSET P /\ rest \notin Bad
      BY <2>1, <2>2, <2>3
    <3> HIDE DEF Good, rest
    <3> QED  BY <3>1
  <2>5. x \in U /\ x \in DOMAIN R /\ R[x] \in U /\ ScannedAfter(x, R[x])
    BY <2>2, <2>3
  <2>6. f[s] = AddRedirect(idx, R[x], x)
    BY <2>2, <1>5
  <2>7. \A a, b \in Coordinate : ~(ScannedAfter(a, b) /\ ScannedAfter(b, a))
    BY ScanOrder
  <2> HIDE DEF x
  <2>8. x \notin DOMAIN idx.chains
    <3> SUFFICES ASSUME x \in DOMAIN idx.chains PROVE FALSE
      OBVIOUS
    <3>1. PICK q \in rest : ScannedAfter(q, x)
      BY <2>4
    <3>2. ScannedAfter(x, q) /\ q \in Coordinate /\ x \in Coordinate
      BY <2>2, <2>3
    <3> QED  BY <3>1, <3>2, <2>7
  <2>9. x \notin DOMAIN idx.rootOf
    BY <2>4
  <2>10. ScannedAfter(x, root) \/ root \in DOMAIN idx.chains
    <3>1. CASE R[x] \in DOMAIN idx.rootOf
      BY <3>1, <2>4 DEF LogicalRoot, WellIndexed
    <3>2. CASE R[x] \notin DOMAIN idx.rootOf
      BY <3>2, <2>5 DEF LogicalRoot
    <3> QED  BY <3>1, <3>2
  <2>11. x # root
    <3>1. ~ScannedAfter(x, x)
      BY <2>5, <2>7
    <3> HIDE DEF root
    <3> QED  BY <2>8, <2>10, <3>1
  <2>12. WellIndexed(f[s], R, U)
    <3>1. WellIndexed(idx, R, U)
      BY <2>4
    <3> HIDE DEF idx
    <3>2. SUFFICES ASSUME NEW i, i = idx, NEW b \in U, b = R[x]
                   PROVE  WellIndexed(AddRedirect(i, b, x), R, U)
      BY <2>5, <2>6
    <3>3. x # LogicalRoot(i, b)
      BY <2>11, <3>2 DEF root
    <3> QED  BY <3>1, <3>2, <3>3, <2>5, <2>8, <2>9, RedirectKeeps
  <2>13. /\ f[s].shadowed = idx.shadowed \cup {R[x]}
         /\ DOMAIN f[s].rootOf = DOMAIN idx.rootOf \cup {x}
         /\ DOMAIN f[s].chains = DOMAIN idx.chains \cup {root}
    <3> HIDE DEF idx, rest
    <3>1. /\ f[s].shadowed = idx.shadowed \cup {R[x]}
          /\ f[s].rootOf = With(idx.rootOf, x, root)
          /\ f[s].chains = With(idx.chains, root,
                                Append(RedirectChain(idx, root), x))
      BY <2>6, RedirectFields
    <3> HIDE DEF root
    <3> QED  BY <3>1 DEF With
  <2>14. f[s].shadowed = T \cup {R[p] : p \in s} /\ DOMAIN f[s].rootOf = s
    <3>1. idx.shadowed = T \cup {R[p] : p \in rest} /\ DOMAIN idx.rootOf = rest
      BY <2>4
    <3>2. rest \cup {x} = s
      BY <2>3 DEF x
    <3>3. {R[p] : p \in s} = {R[p] : p \in rest} \cup {R[x]}
      <4> HIDE DEF rest
      <4> QED  BY <3>2
    <3> HIDE DEF idx, rest
    <3> QED  BY <2>13, <3>1, <3>2, <3>3
  <2>15. ASSUME NEW r \in DOMAIN f[s].chains
         PROVE  \E q \in s : ScannedAfter(q, r)
    <3>1. CASE r \in DOMAIN idx.chains
      <4>1. \E q \in rest : ScannedAfter(q, r)
        BY <3>1, <2>4
      <4> QED  BY <4>1
    <3>2. CASE r \notin DOMAIN idx.chains
      <4>1. r = root
        BY <3>2, <2>13
      <4>2. ScannedAfter(x, r)
        BY <4>1, <3>2, <2>10
      <4> QED  BY <4>2, <2>3 DEF x
    <3> QED  BY <3>1, <3>2
  <2>16. Sorted(f[s])
    <3>1. \A p \in DOMAIN idx.rootOf : ScannedAfter(x, p)
      BY <2>3, <2>4 DEF x
    <3>2. WellIndexed(idx, R, U) /\ Sorted(idx)
      BY <2>4
    <3> HIDE DEF idx
    <3>3. SUFFICES ASSUME NEW i, i = idx, NEW b \in U, b = R[x]
                   PROVE  Sorted(AddRedirect(i, b, x))
      BY <2>5, <2>6
    <3> QED  BY <3>1, <3>2, <3>3, <2>5, RedirectSorts
  <2> QED  BY <2>2, <2>12, <2>14, <2>15, <2>16
<1>8. Good(P)
  <2>1. P \in SUBSET P
    OBVIOUS
  <2> HIDE DEF Good
  <2> QED  BY <1>7, <2>1
<1> QED  BY <1>8

\* What RebuildIndices makes of the layers.
LEMMA Rebuilt ==
  ASSUME RebuildIndices, Entity \in SUBSET Coordinate,
         Patches \in SUBSET Entity, IsFiniteSet(Patches),
         \A p \in Patches : redirOf[p] \in Entity /\ ScannedAfter(p, redirOf[p]),
         Shadows.shadowed \in SUBSET Entity
  PROVE  /\ WellIndexed(index', redirOf, Entity)
         /\ Sorted(index') /\ DOMAIN index'.rootOf = Patches
         /\ index'.shadowed = Shadows.shadowed \cup {redirOf[p] : p \in Patches}
<1> DEFINE f == CHOOSE f : Whole(f, redirOf, Shadows, Patches)
<1>1. index' = f[Patches]
  BY DEF RebuildIndices, MapThenFoldSet, Whole
<1>2. Whole(f, redirOf, Shadows, Patches)
  <2>1. \E h : Whole(h, redirOf, Shadows, Patches)
    BY WholeExists
  <2> QED  BY <2>1
<1>3. Shadows = [EmptyIndex EXCEPT !.shadowed = Shadows.shadowed]
  BY DEF Shadows, EmptyIndex
<1>4. \A p \in Patches : p \in DOMAIN redirOf
  BY DEF Patches
<1> HIDE DEF f
<1> QED  BY <1>1, <1>2, <1>3, <1>4, Replayed

-----------------------------------------------------------------------------
(* What the steps have in common *)

LEMMA InitIInv == Init => IInv
<1> SUFFICES ASSUME Init PROVE IInv
  OBVIOUS
<1>1. /\ DOMAIN mask = {} /\ DOMAIN bloom = {} /\ DOMAIN tombOf = {}
      /\ DOMAIN redirOf = {} /\ DOMAIN edgeSrc = {}
  BY NoneInEmpty DEF Init
<1>2. Typed
  <2>1. Top = 0 /\ 0..Top = {0}
    BY DEF Init, Top
  <2>2. next \in [0..Top -> [Partition -> Nat]]
    BY <2>1 DEF Init, NoSlots
  <2>3. mask \in [DOMAIN mask -> SUBSET Component]
    <3>1. mask = [e \in {} |-> {}]
      BY <1>1 DEF Init
    <3> QED  BY <3>1
  <2> QED  BY <1>1, <2>1, <2>2, <2>3, FS_EmptySet DEF Init, Typed
<1>3. Filtered
  BY <1>1 DEF Filtered
<1>4. Written
  BY <1>1 DEF Written
<1>5. Registered
  BY <1>1 DEF Registered, Init
<1>6. Queueing
  <2>1. Top = 0 /\ 0..Top = {0}
    BY DEF Init, Top
  <2> QED  BY <2>1 DEF Init, Queueing, NoSpawns
<1>7. Indexed
  <2>1. /\ index.shadowed = {} /\ index.terminal = <<>>
        /\ index.rootOf = <<>> /\ index.chains = <<>>
        /\ DOMAIN index = {"shadowed", "terminal", "rootOf", "chains"}
    BY DEF Init, EmptyIndex
  <2> QED  BY <2>1, NoneInEmpty DEF Indexed, WellIndexed
<1> QED  BY <1>2, <1>3, <1>4, <1>5, <1>6, <1>7 DEF IInv

\* A new entity takes a slot nobody had.
LEMMA Created ==
  ASSUME Typed, Filtered, NEW m \in SUBSET Component, NEW p \in Partition,
         Create(m, p), UNCHANGED depth, mode' \in {"idle", "commit"}
  PROVE  /\ Typed' /\ Filtered'
         /\ Fresh(p) \notin DOMAIN mask /\ Fresh(p) \in Coordinate
         /\ DOMAIN mask' = DOMAIN mask \cup {Fresh(p)}
         /\ active' = active \cup {Fresh(p)}
         /\ Fresh(p)[1] = Top /\ Fresh(p)[2] = p
<1> DEFINE new == Fresh(p)
<1>1. Top \in Nat /\ Top \in 0..Top /\ Top' = Top /\ depth \in Nat
  BY DEF Typed, Top
<1>2. p \in 0..255 /\ p \in Nat
  BY LayerAssumption
<1>3. next[Top][p] \in Nat
  BY <1>1 DEF Typed
<1>4. new \in Coordinate /\ new[1] = Top /\ new[2] = p /\ new[3] = next[Top][p]
  BY <1>1, <1>2, <1>3 DEF Fresh, Coordinate
<1>5. new \notin DOMAIN mask
  <2> SUFFICES ASSUME new \in DOMAIN mask PROVE FALSE
    OBVIOUS
  <2>1. new[3] < next[new[1]][new[2]]
    BY DEF Typed
  <2> QED  BY <2>1, <1>3, <1>4
<1> HIDE DEF new
<1>6. /\ mask' = With(mask, new, m) /\ active' = active \cup {new}
      /\ next' = [next EXCEPT ![Top][p] = @ + 1] /\ bloom' = Bloomed(new, m)
  BY DEF Create, new
<1>7. /\ DOMAIN mask' = DOMAIN mask \cup {new} /\ mask'[new] = m
      /\ \A e \in DOMAIN mask : mask'[e] = mask[e]
  BY <1>5, <1>6 DEF With
<1>8. /\ next' \in [0..Top -> [Partition -> Nat]]
      /\ next'[Top][p] = next[Top][p] + 1
      /\ \A d \in 0..Top : \A q \in Partition : next'[d][q] >= next[d][q]
  <2>1. next \in [0..Top -> [Partition -> Nat]]
    BY DEF Typed
  <2> QED  BY <2>1, <1>1, <1>3, <1>6
<1>9. Typed'
  <2>1. mask' \in [DOMAIN mask' -> SUBSET Component]
    <3>1. mask' = [e \in DOMAIN mask' |-> mask'[e]]
      BY <1>6 DEF With
    <3>2. \A e \in DOMAIN mask' : mask'[e] \in SUBSET Component
      BY <1>7 DEF Typed
    <3> QED  BY <3>1, <3>2
  <2>2. IsFiniteSet(DOMAIN mask')
    BY <1>7, FS_AddElement DEF Typed
  <2>3. ASSUME NEW e \in DOMAIN mask'
        PROVE  /\ e[1] \in 0..Top /\ e[2] \in Partition
               /\ e[3] < next'[e[1]][e[2]]
    <3>1. CASE e = new
      BY <3>1, <1>1, <1>3, <1>4, <1>8
    <3>2. CASE e # new
      <4>1. /\ e[1] \in 0..Top /\ e[2] \in Partition /\ e \in Coordinate
            /\ e[3] < next[e[1]][e[2]]
        BY <3>2, <1>7 DEF Typed
      <4>2. e[3] \in Nat /\ next[e[1]][e[2]] \in Nat /\ next'[e[1]][e[2]] \in Nat
        BY <4>1, <1>8 DEF Typed, Coordinate
      <4> QED  BY <4>1, <4>2, <1>8
    <3> QED  BY <3>1, <3>2
  <2>4. active' \subseteq DOMAIN mask' /\ DOMAIN mask' \subseteq Coordinate
    BY <1>4, <1>6, <1>7 DEF Typed
  <2>5. depth' \in Nat \ {0} /\ mode' \in {"idle", "commit"}
    BY DEF Typed
  <2> QED  BY <2>1, <2>2, <2>3, <2>4, <2>5, <1>1, <1>8 DEF Typed
<1>10. Filtered'
  <2>1. bloom' = With(bloom, PageOf(new),
                      m \cup IF PageOf(new) \in DOMAIN bloom
                             THEN bloom[PageOf(new)] ELSE {})
    BY <1>6 DEF Bloomed
  <2>2. /\ DOMAIN bloom' = DOMAIN bloom \cup {PageOf(new)}
        /\ m \subseteq bloom'[PageOf(new)]
        /\ \A q \in DOMAIN bloom : bloom[q] \subseteq bloom'[q]
    BY <2>1 DEF With
  <2>3. DOMAIN bloom' = {PageOf(e) : e \in DOMAIN mask'}
    BY <2>2, <1>7 DEF Filtered
  <2>4. ASSUME NEW e \in DOMAIN mask' PROVE mask'[e] \subseteq bloom'[PageOf(e)]
    <3>1. CASE e = new
      BY <3>1, <2>2, <1>7
    <3>2. CASE e # new
      <4>1. PageOf(e) \in DOMAIN bloom /\ mask[e] \subseteq bloom[PageOf(e)]
        BY <3>2, <1>7 DEF Filtered
      <4> QED  BY <4>1, <3>2, <2>2, <1>7
    <3> QED  BY <3>1, <3>2
  <2>5. \A e : PageOf(e)' = PageOf(e)
    BY DEF PageOf
  <2> QED  BY <2>3, <2>4, <2>5 DEF Filtered
<1> QED  BY <1>4, <1>5, <1>6, <1>7, <1>9, <1>10 DEF new

LEMMA SeqOfMore ==
  ASSUME NEW S, NEW T, S \subseteq T, NEW s \in Seq(S)
  PROVE  s \in Seq(T)
OBVIOUS

LEMMA TopLayer ==
  ASSUME Typed
  PROVE  depth \in Nat /\ Top \in Nat /\ Top \in 0..Top
BY DEF Typed, Top

LEMMA HeadOfSeq ==
  ASSUME NEW S, NEW s \in Seq(S), s # <<>>
  PROVE  Head(s) \in S /\ Tail(s) \in Seq(S)
OBVIOUS

\* As long as the layers stay, so does what is said of them.
LEMMA TypedStays ==
  ASSUME Typed, Filtered, UNCHANGED <<depth, physicalVars>>,
         mode' \in {"idle", "commit"}
  PROVE  Typed' /\ Filtered'
<1>1. /\ depth' = depth /\ next' = next /\ mask' = mask /\ active' = active
      /\ bloom' = bloom
  BY DEF physicalVars
<1>2. Typed'
  BY <1>1 DEF Typed, Top
<1>3. Filtered'
  BY <1>1 DEF Filtered, PageOf
<1> QED  BY <1>2, <1>3

LEMMA WrittenStays ==
  ASSUME Written, UNCHANGED payloadVars, DOMAIN mask \subseteq DOMAIN mask'
  PROVE  Written' /\ Entity \subseteq Entity'
<1>1. tombOf' = tombOf /\ redirOf' = redirOf /\ edgeSrc' = edgeSrc
  BY DEF payloadVars
<1>2. Entity \subseteq Entity'
  BY <1>1 DEF Entity
<1> QED  BY <1>1, <1>2 DEF Written

LEMMA RegisteredStays ==
  ASSUME Registered, Written, UNCHANGED <<edgeSrc, adj>>,
         Entity \subseteq Entity', active' \cap DOMAIN mask \subseteq active
  PROVE  Registered'
<1>1. \A e \in DOMAIN edgeSrc : edgeSrc[e] \in DOMAIN mask
  BY DEF Written, Entity
<1> QED  BY <1>1 DEF Registered

\* What is queued stays queued when entities are added.
LEMMA QueuesOfMore ==
  ASSUME Queueing, UNCHANGED depth, Entity \subseteq Entity'
  PROVE  /\ Top' = Top
         /\ edgeQ' = edgeQ =>
              edgeQ' \in [0..Top' ->
                            Seq([source : Entity', mask : SUBSET Component])]
         /\ tombQ' \in {tombQ, Tail(tombQ)} /\ (tombQ' = tombQ \/ tombQ # <<>>)
              => tombQ' \in Seq(Entity')
         /\ shadowQ' \in {shadowQ, Tail(shadowQ)}
              /\ (shadowQ' = shadowQ \/ shadowQ # <<>>)
              => shadowQ' \in Seq([base : Frozen', new : SUBSET Component])
<1>1. Top' = Top
  BY DEF Top
<1>2. Frozen \subseteq Frozen'
  BY <1>1 DEF Frozen
<1>3. [base : Frozen, new : SUBSET Component]
        \subseteq [base : Frozen', new : SUBSET Component]
  BY <1>2
<1>4. edgeQ \in [0..Top -> Seq([source : Entity', mask : SUBSET Component])]
  <2> DEFINE S == [source : Entity, mask : SUBSET Component]
             T == [source : Entity', mask : SUBSET Component]
  <2>1. S \subseteq T /\ edgeQ \in [0..Top -> Seq(S)]
    BY DEF Queueing
  <2> HIDE DEF S, T
  <2>2. \A d \in 0..Top : edgeQ[d] \in Seq(T)
    BY <2>1, SeqOfMore
  <2>3. edgeQ = [d \in 0..Top |-> edgeQ[d]]
    BY <2>1
  <2>4. edgeQ \in [0..Top -> Seq(T)]
    BY <2>2, <2>3
  <2> QED  BY <2>4 DEF T
<1>5. tombQ \in Seq(Entity')
  BY SeqOfMore DEF Queueing
<1>6. shadowQ \in Seq([base : Frozen', new : SUBSET Component])
  BY <1>3, SeqOfMore DEF Queueing
<1>7. tombQ # <<>> => Tail(tombQ) \in Seq(Entity')
  BY <1>5, HeadOfSeq
<1>8. shadowQ # <<>> =>
        Tail(shadowQ) \in Seq([base : Frozen', new : SUBSET Component])
  BY <1>6, HeadOfSeq
<1> QED  BY <1>1, <1>4, <1>5, <1>6, <1>7, <1>8

LEMMA QueueingStays ==
  ASSUME Queueing, UNCHANGED <<depth, queueVars>>, Entity \subseteq Entity'
  PROVE  Queueing'
<1>1. /\ spawnQ' = spawnQ /\ edgeQ' = edgeQ /\ tombQ' = tombQ
      /\ shadowQ' = shadowQ /\ Top' = Top
  BY DEF queueVars, Top
<1>2. spawnQ \in [0..Top -> [Partition -> Seq(SUBSET Component)]]
  BY DEF Queueing
<1> QED  BY <1>1, <1>2, QueuesOfMore DEF Queueing

LEMMA IndexedStays ==
  ASSUME Indexed, UNCHANGED <<index, redirOf>>, Entity \subseteq Entity'
  PROVE  Indexed'
<1>1. WellIndexed(index, redirOf, Entity) /\ index.shadowed \subseteq Entity'
  BY DEF Indexed, WellIndexed
<1>2. WellIndexed(index, redirOf, Entity')
  BY <1>1, IndexGrows
<1> QED  BY <1>2 DEF Indexed, WellIndexed, Chained

-----------------------------------------------------------------------------
(* The calls *)

\* A call that only queues.
LEMMA OnlyQueues ==
  ASSUME IInv, UNCHANGED <<depth, physicalVars, payloadVars, adj, index>>,
         mode' \in {"idle", "commit"}
  PROVE  /\ Typed' /\ Filtered' /\ Written' /\ Registered' /\ Indexed'
         /\ Entity' = Entity
<1>1. UNCHANGED <<tombOf, redirOf, edgeSrc, mask, active>>
  BY DEF payloadVars, physicalVars
<1>2. Typed' /\ Filtered'
  BY TypedStays DEF IInv
<1>3. Written'
  BY <1>1, WrittenStays DEF IInv
<1>4. Entity' = Entity
  BY <1>1 DEF Entity
<1>5. Registered'
  BY <1>1, <1>4, RegisteredStays DEF IInv
<1>6. Indexed'
  BY <1>1, <1>4, IndexedStays DEF IInv
<1> QED  BY <1>2, <1>3, <1>4, <1>5, <1>6

LEMMA ModeKeeps ==
  ASSUME IInv, BeginCommit \/ EndCommit
  PROVE  IInv'
<1>1. /\ UNCHANGED <<depth, physicalVars, payloadVars, adj, index, queueVars>>
      /\ mode' \in {"idle", "commit"}
  BY DEF BeginCommit, EndCommit
<1>2. /\ Typed' /\ Filtered' /\ Written' /\ Registered' /\ Indexed'
      /\ Entity' = Entity
  BY <1>1, OnlyQueues
<1>3. Queueing'
  BY <1>1, <1>2, QueueingStays DEF IInv
<1> QED  BY <1>2, <1>3 DEF IInv

LEMMA CreateEntityKeeps ==
  ASSUME IInv, NEW m \in SUBSET Component, CreateEntity(m, 0)
  PROVE  IInv'
<1>1. /\ Create(m, 0) /\ 0 \in Partition
      /\ UNCHANGED <<depth, payloadVars, adj, index, queueVars, mode>>
  BY LayerAssumption DEF CreateEntity
<1>2. mode' \in {"idle", "commit"}
  BY <1>1 DEF IInv, Typed
<1>3. /\ Typed' /\ Filtered' /\ DOMAIN mask' = DOMAIN mask \cup {Fresh(0)}
      /\ active' = active \cup {Fresh(0)} /\ Fresh(0) \notin DOMAIN mask
  BY <1>1, <1>2, Created DEF IInv
<1>4. Written' /\ Entity \subseteq Entity'
  BY <1>1, <1>3, WrittenStays DEF IInv
<1>5. UNCHANGED <<edgeSrc, redirOf>>
  BY <1>1 DEF payloadVars
<1>6. Registered'
  BY <1>1, <1>3, <1>4, <1>5, RegisteredStays DEF IInv
<1>7. Queueing'
  BY <1>1, <1>4, QueueingStays DEF IInv
<1>8. Indexed'
  BY <1>1, <1>4, <1>5, IndexedStays DEF IInv
<1> QED  BY <1>3, <1>4, <1>6, <1>7, <1>8 DEF IInv

LEMMA QueueSpawnKeeps ==
  ASSUME IInv, NEW m \in SUBSET Component, QueueSpawn(m, 0)
  PROVE  IInv'
<1>1. /\ UNCHANGED <<depth, physicalVars, payloadVars, adj, index, edgeQ, tombQ,
                     shadowQ, mode>>
      /\ spawnQ' = [spawnQ EXCEPT ![Top][0] = Append(@, m)]
  BY DEF QueueSpawn
<1>2. mode' \in {"idle", "commit"}
  BY <1>1 DEF IInv, Typed
<1>3. /\ Typed' /\ Filtered' /\ Written' /\ Registered' /\ Indexed'
      /\ Entity' = Entity
  BY <1>1, <1>2, OnlyQueues
<1>4. Top' = Top /\ Frozen' = Frozen
  BY <1>1, <1>3 DEF Frozen, Top
<1>5. spawnQ' \in [0..Top -> [Partition -> Seq(SUBSET Component)]]
  <2> DEFINE V == [Partition -> Seq(SUBSET Component)]
  <2>1. spawnQ \in [0..Top -> V] /\ Top \in 0..Top /\ 0 \in Partition
    BY TopLayer, LayerAssumption DEF IInv, Queueing
  <2>2. spawnQ[Top] \in V
    BY <2>1
  <2>3. [spawnQ[Top] EXCEPT ![0] = Append(@, m)] \in V
    BY <2>1, <2>2
  <2> HIDE DEF V
  <2>4. spawnQ' = [spawnQ EXCEPT ![Top] = [spawnQ[Top] EXCEPT ![0] = Append(@, m)]]
    BY <1>1, <2>1
  <2>5. spawnQ' \in [0..Top -> V]
    BY <2>1, <2>3, <2>4
  <2> QED  BY <2>5 DEF V
<1>6. Queueing'
  BY <1>1, <1>3, <1>4, <1>5 DEF IInv, Queueing
<1> QED  BY <1>3, <1>6 DEF IInv

LEMMA QueueEdgeKeeps ==
  ASSUME IInv, NEW e \in Entity, NEW m \in SUBSET Component, QueueEdge(e, m)
  PROVE  IInv'
<1>1. /\ UNCHANGED <<depth, physicalVars, payloadVars, adj, index, spawnQ,
                     tombQ, shadowQ, mode>>
      /\ edgeQ' = [edgeQ EXCEPT ![Top] = Append(@, [source |-> e, mask |-> m])]
  BY DEF QueueEdge
<1>2. mode' \in {"idle", "commit"}
  BY <1>1 DEF IInv, Typed
<1>3. /\ Typed' /\ Filtered' /\ Written' /\ Registered' /\ Indexed'
      /\ Entity' = Entity
  BY <1>1, <1>2, OnlyQueues
<1>4. Top' = Top /\ Frozen' = Frozen
  BY <1>1, <1>3 DEF Frozen, Top
<1> DEFINE Records == [source : Entity, mask : SUBSET Component]
<1>5. edgeQ' \in [0..Top -> Seq(Records)]
  <2>1. [source |-> e, mask |-> m] \in Records
    OBVIOUS
  <2>2. edgeQ \in [0..Top -> Seq(Records)]
    BY DEF IInv, Queueing
  <2> HIDE DEF Records
  <2>3. Append(edgeQ[Top], [source |-> e, mask |-> m]) \in Seq(Records)
    BY <2>1, <2>2, TopLayer DEF IInv
  <2> QED  BY <1>1, <2>2, <2>3
<1>6. Queueing'
  BY <1>1, <1>3, <1>4, <1>5 DEF IInv, Queueing
<1> QED  BY <1>3, <1>6 DEF IInv

\* A write goes to an entity.
LEMMA Target ==
  ASSUME IInv, NEW e \in Entity
  PROVE  /\ WriteTarget(e) \in Entity /\ WriteTarget(e) \in DOMAIN mask
         /\ WriteTarget(e)[1] \in 0..Top
         /\ ~Writable(WriteTarget(e)) => WriteTarget(e) \in Frozen
<1> DEFINE t == WriteTarget(e)
<1>1. t \in Entity
  BY Resolved DEF WriteTarget, IInv, Indexed
<1>2. t \in DOMAIN mask
  BY <1>1 DEF Entity
<1>3. t[1] \in 0..Top
  BY <1>2 DEF IInv, Typed
<1>4. Top \in Nat
  BY TopLayer DEF IInv
<1> HIDE DEF t
<1>5. ~Writable(t) => t \in Frozen
  BY <1>1, <1>3, <1>4 DEF Writable, InTop, Frozen
<1> QED  BY <1>1, <1>2, <1>3, <1>5 DEF t

LEMMA DestroyKeeps ==
  ASSUME IInv, NEW e \in Entity, DestroyEntity(e)
  PROVE  IInv'
<1> DEFINE t == WriteTarget(e)
<1>1. /\ t \in Entity /\ t \in DOMAIN mask
      /\ UNCHANGED <<depth, payloadVars, index, mode>>
  BY Target DEF DestroyEntity
<1>2. mode' \in {"idle", "commit"}
  BY <1>1 DEF IInv, Typed
<1>3. CASE Writable(t) /\ DestroyImmediate(t)
  <2> HIDE DEF t
  <2>1. /\ mask' = [x \in DOMAIN mask |-> IF x = t THEN {} ELSE mask[x]]
        /\ active' = active \ {t} /\ next' = next /\ bloom' = bloom
        /\ adj' = {p \in adj : ~(p[1] = t /\ InTop(p[2]))}
        /\ UNCHANGED queueVars
    BY <1>3 DEF DestroyImmediate
  <2>2. Top' = Top /\ DOMAIN mask' = DOMAIN mask
    BY <1>1, <2>1 DEF Top
  <2>3. Typed'
    <3>1. mask' \in [DOMAIN mask' -> SUBSET Component]
      BY <2>1 DEF IInv, Typed
    <3> QED  BY <1>1, <1>2, <2>1, <2>2, <3>1 DEF IInv, Typed
  <2>4. Filtered'
    <3>1. \A x \in DOMAIN mask : mask'[x] \subseteq mask[x]
      BY <2>1
    <3>2. \A x : PageOf(x)' = PageOf(x)
      BY DEF PageOf
    <3> QED  BY <2>1, <2>2, <3>1, <3>2 DEF IInv, Filtered
  <2>5. Written' /\ Entity \subseteq Entity'
    BY <1>1, <2>2, WrittenStays DEF IInv
  <2>6. Entity' = Entity
    BY <1>1, <2>2 DEF Entity, payloadVars
  <2>7. Registered'
    <3>1. edgeSrc' = edgeSrc
      BY <1>1 DEF payloadVars
    <3>2. adj' \subseteq Entity' \X DOMAIN edgeSrc'
      BY <2>1, <2>6, <3>1 DEF IInv, Registered
    <3>3. ASSUME NEW x \in DOMAIN edgeSrc
          PROVE  \/ <<edgeSrc[x], x>> \in adj'
                 \/ edgeSrc[x] \notin active' /\ edgeSrc[x][1] = x[1]
      <4>1. CASE edgeSrc[x] \notin active /\ edgeSrc[x][1] = x[1]
        BY <4>1, <2>1
      <4>2. CASE <<edgeSrc[x], x>> \in adj /\ ~(edgeSrc[x] = t /\ InTop(x))
        BY <4>2, <2>1
      <4>3. CASE edgeSrc[x] = t /\ InTop(x)
        <5>1. t[1] = Top /\ x[1] = Top
          BY <4>3, <1>3 DEF Writable, InTop
        <5> QED  BY <5>1, <4>3, <2>1
      <4> QED  BY <4>1, <4>2, <4>3 DEF IInv, Registered
    <3> QED  BY <3>1, <3>2, <3>3 DEF Registered
  <2>8. Queueing'
    BY <1>1, <2>1, <2>5, QueueingStays DEF IInv
  <2>9. Indexed'
    BY <1>1, <2>5, IndexedStays DEF IInv, payloadVars
  <2> QED  BY <2>3, <2>4, <2>5, <2>7, <2>8, <2>9 DEF IInv
<1>4. CASE /\ tombQ' = Append(tombQ, t)
           /\ UNCHANGED <<physicalVars, adj, spawnQ, edgeQ, shadowQ>>
  <2> HIDE DEF t
  <2>1. /\ Typed' /\ Filtered' /\ Written' /\ Registered' /\ Indexed'
        /\ Entity' = Entity
    BY <1>1, <1>2, <1>4, OnlyQueues
  <2>2. Top' = Top /\ Frozen' = Frozen
    BY <1>1, <2>1 DEF Frozen, Top
  <2>3. tombQ' \in Seq(Entity)
    BY <1>1, <1>4 DEF IInv, Queueing
  <2>4. Queueing'
    BY <1>4, <2>1, <2>2, <2>3 DEF IInv, Queueing
  <2> QED  BY <2>1, <2>4 DEF IInv
<1> QED  BY <1>3, <1>4 DEF DestroyEntity

LEMMA ChangeKeeps ==
  ASSUME IInv, NEW e \in Entity, NEW gained \in SUBSET Component,
         NEW lost \in SUBSET Component, Change(e, gained, lost)
  PROVE  IInv'
<1> DEFINE t == WriteTarget(e)
           Changed(m) == (m \cup gained) \ lost
<1>1. /\ t \in Entity /\ t \in DOMAIN mask
      /\ ~Writable(t) => t \in Frozen
      /\ UNCHANGED <<depth, next, active, payloadVars, adj, index, mode>>
  BY Target DEF Change
<1>2. mode' \in {"idle", "commit"}
  BY <1>1 DEF IInv, Typed
<1>3. CASE /\ Writable(t)
           /\ mask' = [mask EXCEPT ![t] = IF t \in active THEN Changed(@) ELSE @]
           /\ bloom' = Widened(t, gained)
           /\ UNCHANGED queueVars
  <2> HIDE DEF t
  <2>1. /\ DOMAIN mask' = DOMAIN mask
        /\ \A x \in DOMAIN mask : x # t => mask'[x] = mask[x]
        /\ mask'[t] = IF t \in active THEN Changed(mask[t]) ELSE mask[t]
    BY <1>1, <1>3 DEF IInv, Typed
  <2>2. Top' = Top
    BY <1>1 DEF Top
  <2>3. Typed'
    <3>1. mask' = [x \in DOMAIN mask' |-> mask'[x]]
      BY <1>3, <2>1 DEF IInv, Typed
    <3>2. \A x \in DOMAIN mask' : mask'[x] \in SUBSET Component
      BY <2>1, <1>1 DEF IInv, Typed
    <3>3. mask' \in [DOMAIN mask' -> SUBSET Component]
      BY <3>1, <3>2
    <3> QED  BY <1>1, <1>2, <2>1, <2>2, <3>3 DEF IInv, Typed
  <2>4. PageOf(t) \in DOMAIN bloom
    BY <1>1 DEF IInv, Filtered
  <2>5. /\ DOMAIN bloom' = DOMAIN bloom
        /\ \A q \in DOMAIN bloom : bloom[q] \subseteq bloom'[q]
        /\ gained \subseteq bloom'[PageOf(t)]
    <3>1. CASE gained = {}
      BY <3>1, <1>3 DEF Widened
    <3>2. CASE gained # {}
      <4>1. bloom' = With(bloom, PageOf(t), gained \cup bloom[PageOf(t)])
        BY <3>2, <2>4, <1>3 DEF Widened, Bloomed
      <4> QED  BY <4>1, <2>4 DEF With
    <3> QED  BY <3>1, <3>2
  <2>6. Filtered'
    <3>1. \A x : PageOf(x)' = PageOf(x)
      BY DEF PageOf
    <3>2. ASSUME NEW x \in DOMAIN mask PROVE mask'[x] \subseteq bloom'[PageOf(x)]
      <4>1. PageOf(x) \in DOMAIN bloom /\ mask[x] \subseteq bloom[PageOf(x)]
        BY DEF IInv, Filtered
      <4>2. CASE x = t
        BY <4>1, <4>2, <2>1, <2>5
      <4>3. CASE x # t
        BY <4>1, <4>3, <2>1, <2>5
      <4> QED  BY <4>2, <4>3
    <3> QED  BY <2>1, <2>5, <3>1, <3>2 DEF IInv, Filtered
  <2>7. Written' /\ Entity \subseteq Entity'
    BY <1>1, <2>1, WrittenStays DEF IInv
  <2>8. Registered'
    BY <1>1, <2>7, RegisteredStays DEF IInv, payloadVars
  <2>9. Queueing'
    BY <1>1, <1>3, <2>7, QueueingStays DEF IInv
  <2>10. Indexed'
    BY <1>1, <2>7, IndexedStays DEF IInv, payloadVars
  <2> QED  BY <2>3, <2>6, <2>7, <2>8, <2>9, <2>10 DEF IInv
<1>4. CASE /\ ~Writable(t)
           /\ shadowQ' = Append(shadowQ, [base |-> t,
                                         new |-> Changed(DynamicMask(t))])
           /\ UNCHANGED <<mask, bloom, spawnQ, edgeQ, tombQ>>
  <2>1. DynamicMask(t) \in SUBSET Component
    <3>1. Terminal(index, t) \in Entity
      BY <1>1, Resolved DEF IInv, Indexed
    <3>2. Terminal(index, t) \in DOMAIN mask
      BY <3>1 DEF Entity
    <3>3. mask[Terminal(index, t)] \in SUBSET Component
      BY <3>2 DEF IInv, Typed
    <3> QED  BY <3>3 DEF DynamicMask, RawMask
  <2> HIDE DEF t
  <2>2. Changed(DynamicMask(t)) \in SUBSET Component
    BY <2>1
  <2> HIDE DEF Changed
  <2>3. UNCHANGED <<depth, physicalVars, payloadVars, adj, index>>
    BY <1>1, <1>4 DEF physicalVars
  <2>4. /\ Typed' /\ Filtered' /\ Written' /\ Registered' /\ Indexed'
        /\ Entity' = Entity
    BY <1>2, <2>3, OnlyQueues
  <2>5. Top' = Top /\ Frozen' = Frozen
    BY <1>1, <2>4 DEF Frozen, Top
  <2> DEFINE Records == [base : Frozen, new : SUBSET Component]
             r == [base |-> t, new |-> Changed(DynamicMask(t))]
  <2>6. r \in Records /\ shadowQ \in Seq(Records) /\ shadowQ' = Append(shadowQ, r)
    BY <1>1, <1>4, <2>2 DEF IInv, Queueing
  <2> HIDE DEF Records, r
  <2>7. shadowQ' \in Seq(Records)
    BY <2>6
  <2>8. Queueing'
    BY <1>4, <2>4, <2>5, <2>7 DEF IInv, Queueing, Records
  <2> QED  BY <2>4, <2>8 DEF IInv
<1> QED  BY <1>3, <1>4 DEF Change

-----------------------------------------------------------------------------
(* The commit *)

\* What the creation of an entity does, with the payloads it may come with.
LEMMA CreatedEntity ==
  ASSUME IInv, NEW m \in SUBSET Component, NEW p \in Partition,
         Create(m, p), UNCHANGED <<depth, mode>>
  PROVE  /\ Typed' /\ Filtered' /\ DOMAIN mask' = DOMAIN mask \cup {Fresh(p)}
         /\ active' = active \cup {Fresh(p)} /\ Fresh(p) \notin DOMAIN mask
         /\ Fresh(p)[1] = Top /\ Top' = Top /\ active' \cap DOMAIN mask = active
<1>1. mode' \in {"idle", "commit"}
  BY DEF IInv, Typed
<1>2. Top' = Top
  BY DEF Top
<1> QED  BY <1>1, <1>2, Created DEF IInv, Typed

LEMMA CommitSpawnKeeps ==
  ASSUME IInv, CommitSpawn
  PROVE  IInv'
<1>1. PICK p \in Spawning :
        /\ Create(Head(spawnQ[Top][p]), p)
        /\ spawnQ' = [spawnQ EXCEPT ![Top][p] = Tail(@)]
  BY DEF CommitSpawn
<1>2. UNCHANGED <<depth, payloadVars, adj, index, edgeQ, tombQ, shadowQ, mode>>
  BY DEF CommitSpawn
<1> DEFINE V == [Partition -> Seq(SUBSET Component)]
<1>3. /\ p \in Partition /\ spawnQ \in [0..Top -> V] /\ Top \in 0..Top
      /\ spawnQ[Top][p] \in Seq(SUBSET Component) /\ spawnQ[Top][p] # <<>>
  <2>1. /\ p \in Partition /\ spawnQ \in [0..Top -> V] /\ Top \in 0..Top
        /\ spawnQ[Top][p] # <<>>
    BY TopLayer DEF IInv, Queueing, Spawning
  <2>2. spawnQ[Top] \in V
    <3> HIDE DEF V
    <3> QED  BY <2>1
  <2> QED  BY <2>1, <2>2
<1>4. /\ Head(spawnQ[Top][p]) \in SUBSET Component
      /\ Tail(spawnQ[Top][p]) \in Seq(SUBSET Component)
  BY <1>3, HeadOfSeq
<1>5. /\ Typed' /\ Filtered' /\ DOMAIN mask' = DOMAIN mask \cup {Fresh(p)}
      /\ Top' = Top /\ active' \cap DOMAIN mask = active
  BY <1>1, <1>2, <1>3, <1>4, CreatedEntity
<1>6. Written' /\ Entity \subseteq Entity'
  BY <1>2, <1>5, WrittenStays DEF IInv
<1>7. UNCHANGED <<edgeSrc, redirOf>>
  BY <1>2 DEF payloadVars
<1>8. Registered'
  BY <1>2, <1>5, <1>6, <1>7, RegisteredStays DEF IInv
<1>9. Indexed'
  BY <1>2, <1>6, <1>7, IndexedStays DEF IInv
<1>10. Queueing'
  <2>1. [spawnQ[Top] EXCEPT ![p] = Tail(@)] \in V
    <3>1. spawnQ[Top] \in V
      <4> HIDE DEF V
      <4> QED  BY <1>3
    <3> QED  BY <3>1, <1>4
  <2> HIDE DEF V
  <2>2. spawnQ' = [spawnQ EXCEPT ![Top] = [spawnQ[Top] EXCEPT ![p] = Tail(@)]]
    BY <1>1, <1>3
  <2>3. spawnQ' \in [0..Top -> V]
    BY <2>1, <2>2, <1>3
  <2> USE DEF V
  <2>4. /\ edgeQ' \in [0..Top' ->
                         Seq([source : Entity', mask : SUBSET Component])]
        /\ tombQ' \in Seq(Entity')
        /\ shadowQ' \in Seq([base : Frozen', new : SUBSET Component])
    BY <1>2, <1>6, QueuesOfMore DEF IInv
  <2> QED  BY <2>3, <2>4, <1>5 DEF Queueing
<1> QED  BY <1>5, <1>6, <1>8, <1>9, <1>10 DEF IInv

LEMMA CommitEdgeKeeps ==
  ASSUME IInv, CommitEdge
  PROVE  IInv'
<1> DEFINE edge == Head(edgeQ[Top])
           new == Fresh(0)
           Records == [source : Entity, mask : SUBSET Component]
<1>1. /\ Create(edge.mask, 0) /\ edgeQ[Top] # <<>>
      /\ edgeSrc' = With(edgeSrc, new, edge.source)
      /\ adj' = adj \cup {<<edge.source, new>>}
      /\ edgeQ' = [edgeQ EXCEPT ![Top] = Tail(@)]
      /\ UNCHANGED <<depth, tombOf, redirOf, index, spawnQ, tombQ, shadowQ,
                     mode>>
  BY DEF CommitEdge
<1>2. /\ edge \in Records /\ Tail(edgeQ[Top]) \in Seq(Records)
      /\ edgeQ \in [0..Top -> Seq(Records)]
  <2>1. edgeQ \in [0..Top -> Seq(Records)] /\ Top \in 0..Top
    BY TopLayer DEF IInv, Queueing
  <2> HIDE DEF Records
  <2>2. edgeQ[Top] \in Seq(Records)
    BY <2>1
  <2> QED  BY <1>1, <2>1, <2>2, HeadOfSeq
<1>3. edge.mask \in SUBSET Component /\ edge.source \in Entity /\ 0 \in Partition
  BY <1>2, LayerAssumption
<1> HIDE DEF edge
<1>4. /\ Typed' /\ Filtered' /\ DOMAIN mask' = DOMAIN mask \cup {new}
      /\ new \notin DOMAIN mask
      /\ Top' = Top /\ active' \cap DOMAIN mask = active
  BY <1>1, <1>3, CreatedEntity
<1> HIDE DEF new
<1>5. Entity' = Entity \cup {new}
  BY <1>1, <1>4 DEF Entity, IInv, Written
<1>6. /\ DOMAIN edgeSrc' = DOMAIN edgeSrc \cup {new}
      /\ edgeSrc'[new] = edge.source /\ new \notin DOMAIN edgeSrc
      /\ \A x \in DOMAIN edgeSrc : edgeSrc'[x] = edgeSrc[x]
  <2>1. new \notin DOMAIN edgeSrc
    BY <1>4 DEF IInv, Written, Entity
  <2> QED  BY <1>1, <2>1 DEF With
<1>7. Written'
  BY <1>1, <1>3, <1>4, <1>5, <1>6 DEF IInv, Written
<1>8. Registered'
  <2>1. adj' \subseteq Entity' \X DOMAIN edgeSrc'
    BY <1>1, <1>3, <1>5, <1>6 DEF IInv, Registered
  <2>2. ASSUME NEW x \in DOMAIN edgeSrc'
        PROVE  \/ <<edgeSrc'[x], x>> \in adj'
               \/ edgeSrc'[x] \notin active' /\ edgeSrc'[x][1] = x[1]
    <3>1. CASE x = new
      BY <3>1, <1>1, <1>6
    <3>2. CASE x # new
      <4>1. /\ x \in DOMAIN edgeSrc /\ edgeSrc'[x] = edgeSrc[x]
            /\ edgeSrc[x] \in DOMAIN mask
        BY <3>2, <1>6 DEF IInv, Written, Entity
      <4>2. \/ <<edgeSrc[x], x>> \in adj
            \/ edgeSrc[x] \notin active /\ edgeSrc[x][1] = x[1]
        BY <4>1 DEF IInv, Registered
      <4> QED  BY <4>1, <4>2, <1>1, <1>4
    <3> QED  BY <3>1, <3>2
  <2> QED  BY <2>1, <2>2 DEF Registered
<1>9. Indexed'
  BY <1>1, <1>5, IndexedStays DEF IInv
<1>10. Queueing'
  <2> DEFINE More == [source : Entity', mask : SUBSET Component]
  <2>1. Records \subseteq More
    BY <1>5
  <2>2. edgeQ' \in [0..Top -> Seq(Records)]
    <3> HIDE DEF Records
    <3> QED  BY <1>1, <1>2
  <2>3. edgeQ' \in [0..Top -> Seq(More)]
    <3> HIDE DEF Records, More
    <3>1. \A d \in 0..Top : edgeQ'[d] \in Seq(More)
      BY <2>1, <2>2, SeqOfMore
    <3>2. edgeQ' = [d \in 0..Top |-> edgeQ'[d]]
      BY <2>2
    <3> QED  BY <3>1, <3>2
  <2>4. /\ tombQ' \in Seq(Entity')
        /\ shadowQ' \in Seq([base : Frozen', new : SUBSET Component])
    BY <1>1, <1>5, QueuesOfMore DEF IInv
  <2> QED  BY <2>3, <2>4, <1>1, <1>4 DEF IInv, Queueing
<1> QED  BY <1>4, <1>7, <1>8, <1>9, <1>10 DEF IInv

LEMMA CommitTombstoneKeeps ==
  ASSUME IInv, CommitTombstone
  PROVE  IInv'
<1> DEFINE new == Fresh(0)
           t == Head(tombQ)
<1>1. /\ Create({}, 0) /\ tombQ # <<>> /\ tombQ' = Tail(tombQ)
      /\ tombOf' = With(tombOf, new, t)
      /\ index' = AddTombstone(index, t)
      /\ UNCHANGED <<depth, redirOf, edgeSrc, adj, spawnQ, edgeQ, shadowQ, mode>>
  BY DEF CommitTombstone
<1>2. t \in Entity /\ 0 \in Partition /\ {} \in SUBSET Component
  BY <1>1, HeadOfSeq, LayerAssumption DEF IInv, Queueing
<1> HIDE DEF t
<1>3. /\ Typed' /\ Filtered' /\ DOMAIN mask' = DOMAIN mask \cup {new}
      /\ new \notin DOMAIN mask
      /\ Top' = Top /\ active' \cap DOMAIN mask = active
  BY <1>1, <1>2, CreatedEntity
<1> HIDE DEF new
<1>4. /\ DOMAIN tombOf' = DOMAIN tombOf \cup {new} /\ tombOf'[new] = t
      /\ \A x \in DOMAIN tombOf : tombOf'[x] = tombOf[x]
  <2>1. new \notin DOMAIN tombOf
    BY <1>3 DEF IInv, Written
  <2> QED  BY <1>1, <2>1 DEF With
<1>5. Entity' = Entity
  BY <1>3, <1>4 DEF Entity
<1>6. Written'
  BY <1>1, <1>2, <1>3, <1>4, <1>5 DEF IInv, Written
<1>7. Registered'
  BY <1>1, <1>3, <1>5, RegisteredStays DEF IInv
<1>8. Indexed'
  <2>1. WellIndexed(index, redirOf, Entity)
    BY DEF IInv, Indexed
  <2>2. /\ index'.shadowed = index.shadowed \cup {t}
        /\ index'.terminal = index.terminal /\ index'.rootOf = index.rootOf
        /\ index'.chains = index.chains /\ DOMAIN index' = DOMAIN index
    BY <1>1, <2>1, TombstoneFields
  <2>3. index'.shadowed \subseteq Entity
    BY <2>1, <2>2, <1>2 DEF WellIndexed
  <2>4. WellIndexed(index', redirOf, Entity)
    BY <2>1, <2>2, <2>3, IndexGrows
  <2> QED  BY <2>4, <1>1, <1>5 DEF Indexed
<1>9. Queueing'
  BY <1>1, <1>3, <1>5, QueuesOfMore DEF IInv, Queueing
<1> QED  BY <1>3, <1>6, <1>7, <1>8, <1>9 DEF IInv

LEMMA CommitPatchKeeps ==
  ASSUME IInv, CommitPatch
  PROVE  IInv'
<1> DEFINE new == Fresh(0)
           q == Head(shadowQ)
           Records == [base : Frozen, new : SUBSET Component]
<1>1. /\ Create(q.new, 0) /\ shadowQ # <<>> /\ shadowQ' = Tail(shadowQ)
      /\ redirOf' = With(redirOf, new, q.base)
      /\ index' = AddRedirect(index, q.base, new)
      /\ UNCHANGED <<depth, tombOf, edgeSrc, adj, spawnQ, edgeQ, tombQ, mode>>
  BY DEF CommitPatch
<1>2. q \in Records
  <2>1. shadowQ \in Seq(Records)
    BY DEF IInv, Queueing
  <2> HIDE DEF Records
  <2> QED  BY <1>1, <2>1, HeadOfSeq
<1>3. q.new \in SUBSET Component /\ q.base \in Frozen /\ 0 \in Partition
  BY <1>2, LayerAssumption
<1> HIDE DEF q
<1>4. q.base \in Entity /\ q.base[1] < Top
  BY <1>3 DEF Frozen
<1>5. /\ Typed' /\ Filtered' /\ DOMAIN mask' = DOMAIN mask \cup {new}
      /\ new \notin DOMAIN mask /\ new[1] = Top
      /\ Top' = Top /\ active' \cap DOMAIN mask = active
  BY <1>1, <1>3, CreatedEntity
<1> HIDE DEF new
<1>6. Entity' = Entity \cup {new} /\ new \notin Entity
  BY <1>1, <1>5 DEF Entity, IInv, Written
<1>7. /\ DOMAIN redirOf' = DOMAIN redirOf \cup {new} /\ redirOf'[new] = q.base
      /\ \A x \in DOMAIN redirOf : redirOf'[x] = redirOf[x]
  <2>1. new \notin DOMAIN redirOf
    BY <1>6 DEF IInv, Written
  <2> QED  BY <1>1, <2>1 DEF With
<1>8. Written'
  BY <1>1, <1>4, <1>5, <1>6, <1>7 DEF IInv, Written
<1>9. Registered'
  BY <1>1, <1>5, <1>6, RegisteredStays DEF IInv
<1>10. Indexed'
  <2>1. WellIndexed(index, redirOf, Entity)
    BY DEF IInv, Indexed
  <2>2. index.shadowed \subseteq Entity'
    BY <2>1, <1>6 DEF WellIndexed
  <2>3. WellIndexed(index, redirOf', Entity')
    <3> DEFINE S == redirOf'
               V == Entity'
    <3>1. /\ Entity \subseteq V /\ index.shadowed \subseteq V
          /\ \A x \in DOMAIN redirOf : x \in DOMAIN S /\ S[x] = redirOf[x]
      BY <2>2, <1>6, <1>7
    <3> HIDE DEF S, V
    <3>2. WellIndexed(index, S, V)
      BY <2>1, <3>1, IndexGrows
    <3> QED  BY <3>2 DEF S, V
  <2>4. new \notin DOMAIN index.rootOf /\ new \notin DOMAIN index.chains
    BY <2>1, <1>6 DEF WellIndexed, Chained
  <2>5. new # LogicalRoot(index, q.base)
    BY <2>1, <1>4, <1>6, Resolved
  <2>6. /\ q.base \in Entity' /\ new \in Entity' /\ new \in DOMAIN redirOf'
        /\ redirOf'[new] = q.base
    BY <1>4, <1>6, <1>7
  <2>7. WellIndexed(AddRedirect(index, q.base, new), redirOf', Entity')
    BY <2>3, <2>4, <2>5, <2>6, RedirectKeeps
  <2> QED  BY <2>7, <1>1 DEF Indexed
<1>11. Queueing'
  BY <1>1, <1>5, <1>6, QueuesOfMore DEF IInv, Queueing
<1> QED  BY <1>5, <1>8, <1>9, <1>10, <1>11 DEF IInv

-----------------------------------------------------------------------------
(* The stack *)

LEMMA PushLayerKeeps ==
  ASSUME IInv, PushLayer
  PROVE  IInv'
<1>1. /\ depth' = depth + 1 /\ next' = With(next, depth, NoSlots)
      /\ spawnQ' = With(spawnQ, depth, NoSpawns)
      /\ edgeQ' = With(edgeQ, depth, <<>>)
      /\ UNCHANGED <<mask, active, bloom, payloadVars, adj, index, tombQ,
                     shadowQ, mode>>
  BY DEF PushLayer
<1>2. /\ Top \in Nat /\ depth = Top + 1 /\ Top' = depth /\ depth \in Nat
      /\ 0..Top' = 0..Top \cup {depth} /\ depth \notin 0..Top
  BY <1>1, TopLayer DEF IInv, Top
<1>3. Typed'
  <2>1. next' \in [0..Top' -> [Partition -> Nat]]
        /\ \A d \in 0..Top : next'[d] = next[d]
    <3> DEFINE V == [Partition -> Nat]
    <3>1. NoSlots \in V /\ next \in [0..Top -> V]
      BY DEF NoSlots, IInv, Typed
    <3> HIDE DEF V
    <3>2. next' \in [0..Top' -> V] /\ \A d \in 0..Top : next'[d] = next[d]
      BY <3>1, <1>1, <1>2 DEF With
    <3> QED  BY <3>2 DEF V
  <2>2. ASSUME NEW e \in DOMAIN mask
        PROVE  /\ e[1] \in 0..Top' /\ e[2] \in Partition
               /\ e[3] < next'[e[1]][e[2]]
    BY <2>1, <1>2 DEF IInv, Typed
  <2>3. depth' \in Nat \ {0}
    BY <1>1, <1>2
  <2> QED  BY <2>1, <2>2, <2>3, <1>1 DEF IInv, Typed
<1>4. Filtered'
  BY <1>1 DEF IInv, Filtered, PageOf
<1>5. Written' /\ Entity' = Entity
  BY <1>1 DEF IInv, Written, Entity, payloadVars
<1>6. Registered'
  BY <1>1, <1>5 DEF IInv, Registered, payloadVars
<1>7. Indexed'
  BY <1>1, <1>5 DEF IInv, Indexed, payloadVars
<1>8. Queueing'
  <2>1. Frozen \subseteq Frozen'
    <3>1. \A e \in Entity : e[1] \in Int
      BY DEF Entity, IInv, Typed
    <3> QED  BY <3>1, <1>2, <1>5 DEF Frozen
  <2>2. shadowQ' \in Seq([base : Frozen', new : SUBSET Component])
    <3>1. [base : Frozen, new : SUBSET Component]
            \subseteq [base : Frozen', new : SUBSET Component]
      BY <2>1
    <3> QED  BY <1>1, <3>1, SeqOfMore DEF IInv, Queueing
  <2>3. spawnQ' \in [0..Top' -> [Partition -> Seq(SUBSET Component)]]
    <3> DEFINE V == [Partition -> Seq(SUBSET Component)]
    <3>1. NoSpawns \in V /\ spawnQ \in [0..Top -> V]
      BY DEF NoSpawns, IInv, Queueing
    <3> HIDE DEF V
    <3>2. spawnQ' \in [0..Top' -> V]
      BY <3>1, <1>1, <1>2 DEF With
    <3> QED  BY <3>2 DEF V
  <2>4. edgeQ' \in [0..Top' ->
                      Seq([source : Entity, mask : SUBSET Component])]
    <3> DEFINE V == Seq([source : Entity, mask : SUBSET Component])
    <3>1. <<>> \in V
      OBVIOUS
    <3>2. edgeQ \in [0..Top -> V]
      BY DEF IInv, Queueing
    <3> HIDE DEF V
    <3>3. edgeQ' \in [0..Top' -> V]
      BY <3>1, <3>2, <1>1, <1>2 DEF With
    <3> QED  BY <3>3 DEF V
  <2> QED  BY <2>2, <2>3, <2>4, <1>1, <1>5 DEF IInv, Queueing
<1> QED  BY <1>3, <1>4, <1>5, <1>6, <1>7, <1>8 DEF IInv

-----------------------------------------------------------------------------
(* Rebuild and reboot *)

\* What RebuildIndices leaves behind.
LEMMA RebuildsWell ==
  ASSUME IInv, RebuildIndices
  PROVE  /\ Indexed' /\ Registered' /\ Written' /\ Filtered'
         /\ Entity' = Entity /\ Frozen' = Frozen /\ Top' = Top
         /\ Sorted(index') /\ DOMAIN index'.rootOf = Patches
         /\ index'.shadowed = Shadows.shadowed \cup {redirOf[p] : p \in Patches}
<1>1. /\ adj' = {<<edgeSrc[e], e>> : e \in DOMAIN edgeSrc}
      /\ UNCHANGED <<depth, mask, active, bloom, tombOf, redirOf, edgeSrc>>
  BY DEF RebuildIndices, payloadVars
<1>2. Entity' = Entity /\ Top' = Top
  BY <1>1 DEF Entity, Top
<1>3. Frozen' = Frozen
  BY <1>2 DEF Frozen
<1>4. Filtered'
  BY <1>1 DEF IInv, Filtered, PageOf
<1>5. Written'
  BY <1>1, <1>2 DEF IInv, Written
<1>6. Registered'
  BY <1>1, <1>2 DEF IInv, Registered, Written
<1>7. Entity \in SUBSET Coordinate
  BY DEF IInv, Typed, Entity
<1>8. Patches \in SUBSET Entity /\ IsFiniteSet(Patches)
  <2>1. Patches \subseteq DOMAIN mask /\ IsFiniteSet(DOMAIN mask)
    BY DEF IInv, Typed, Patches
  <2> QED  BY <2>1, FS_Subset DEF IInv, Written, Patches
<1>9. \A p \in Patches : redirOf[p] \in Entity /\ ScannedAfter(p, redirOf[p])
  <2> SUFFICES ASSUME NEW p \in Patches
               PROVE  redirOf[p] \in Entity /\ ScannedAfter(p, redirOf[p])
    OBVIOUS
  <2>1. redirOf[p] \in Entity /\ redirOf[p][1] < p[1]
    BY DEF IInv, Written, Patches
  <2>2. redirOf[p] \in Coordinate /\ p \in Coordinate
    BY <2>1, <1>7, <1>8
  <2>3. redirOf[p][1] \in Nat /\ p[1] \in Nat
    BY <2>2 DEF Coordinate
  <2> QED  BY <2>1, <2>3 DEF ScannedAfter
<1>10. Shadows.shadowed \in SUBSET Entity
  <2>1. Shadows.shadowed = {tombOf[t] : t \in active \cap DOMAIN tombOf}
    BY DEF Shadows, EmptyIndex
  <2> QED  BY <2>1 DEF IInv, Written
<1>11. /\ WellIndexed(index', redirOf, Entity)
       /\ Sorted(index') /\ DOMAIN index'.rootOf = Patches
       /\ index'.shadowed = Shadows.shadowed \cup {redirOf[p] : p \in Patches}
  BY <1>7, <1>8, <1>9, <1>10, Rebuilt
<1>12. Indexed'
  BY <1>1, <1>2, <1>11 DEF Indexed
<1> QED  BY <1>2, <1>3, <1>4, <1>5, <1>6, <1>11, <1>12

LEMMA RebuildKeeps ==
  ASSUME IInv, Rebuild
  PROVE  IInv'
<1>1. /\ RebuildIndices
      /\ UNCHANGED <<depth, mask, active, bloom, tombQ, shadowQ, mode>>
      /\ UNCHANGED <<next, spawnQ, edgeQ>>
  BY DEF Rebuild, RebuildIndices
<1>2. /\ Indexed' /\ Registered' /\ Written' /\ Filtered'
      /\ Entity' = Entity /\ Frozen' = Frozen /\ Top' = Top
  BY <1>1, RebuildsWell
<1>3. Typed'
  BY <1>1, <1>2 DEF IInv, Typed
<1>4. Queueing'
  BY <1>1, <1>2 DEF IInv, Queueing
<1> QED  BY <1>2, <1>3, <1>4 DEF IInv

LEMMA Division ==
  ASSUME NEW a \in Nat, NEW b \in Nat \ {0}
  PROVE  a \div b \in Nat /\ b * (a \div b) <= a /\ a < b * (a \div b) + b
OBVIOUS

\* The import skips slots and never goes back.
LEMMA GoesOn ==
  ASSUME NEW n \in Nat
  PROVE  PastLastPage(n) \in Nat /\ PastLastPage(n) >= n
<1>1. PageSize \in Nat \ {0}
  BY LayerAssumption
<1>2. CASE n = 0
  BY <1>1, <1>2 DEF PastLastPage
<1>3. CASE n # 0
  <2> DEFINE a == n + PageSize - 1
             q == a \div PageSize
  <2>1. a \in Nat
    BY <1>1, <1>3
  <2> HIDE DEF a
  <2>2. q \in Nat /\ a < PageSize * q + PageSize
    BY <2>1, <1>1, Division
  <2> HIDE DEF q
  <2>3. PageSize * q \in Nat
    BY <1>1, <2>2
  <2>4. n <= PageSize * q
    <3> DEFINE m == PageSize * q
    <3>1. m \in Nat /\ a < m + PageSize
      BY <2>2, <2>3
    <3> HIDE DEF m
    <3>2. n <= m
      BY <3>1, <1>1 DEF a
    <3> QED  BY <3>2 DEF m
  <2>5. PastLastPage(n) = PageSize * q
    BY <1>3 DEF PastLastPage, a, q
  <2> QED  BY <2>3, <2>4, <2>5
<1> QED  BY <1>2, <1>3

LEMMA RebootKeeps ==
  ASSUME IInv, Reboot
  PROVE  IInv'
<1>1. /\ RebuildIndices
      /\ UNCHANGED <<depth, mask, active, bloom, tombQ, shadowQ, mode>>
      /\ next' = [next EXCEPT ![Top] =
                    [p \in Partition |-> PastLastPage(next[Top][p])]]
      /\ spawnQ' = [spawnQ EXCEPT ![Top] = NoSpawns]
      /\ edgeQ' = [edgeQ EXCEPT ![Top] = <<>>]
  BY DEF Reboot, RebuildIndices
<1>2. /\ Indexed' /\ Registered' /\ Written' /\ Filtered'
      /\ Entity' = Entity /\ Frozen' = Frozen /\ Top' = Top
  BY <1>1, RebuildsWell
<1>3. Typed'
  <2>1. next \in [0..Top -> [Partition -> Nat]] /\ Top \in 0..Top
    BY TopLayer DEF IInv, Typed
  <2> DEFINE slots == [p \in Partition |-> PastLastPage(next[Top][p])]
  <2>2. \A p \in Partition : next[Top][p] \in Nat
    BY <2>1
  <2>3. \A p \in Partition : /\ PastLastPage(next[Top][p]) \in Nat
                             /\ PastLastPage(next[Top][p]) >= next[Top][p]
    BY <2>2, GoesOn
  <2>4. /\ slots \in [Partition -> Nat]
        /\ \A p \in Partition : slots[p] >= next[Top][p]
    BY <2>3
  <2> HIDE DEF slots
  <2>5. next' = [next EXCEPT ![Top] = slots]
    BY <1>1 DEF slots
  <2>6. /\ next' \in [0..Top -> [Partition -> Nat]]
        /\ \A d \in 0..Top : \A p \in Partition : next'[d][p] >= next[d][p]
    <3> DEFINE V == [Partition -> Nat]
    <3>1. next \in [0..Top -> V] /\ slots \in V
      BY <2>1, <2>4
    <3>2. \A d \in 0..Top : \A p \in Partition : next[d][p] >= next[d][p]
      BY <2>1
    <3> HIDE DEF V
    <3>3. /\ next' \in [0..Top -> V] /\ next'[Top] = slots
          /\ \A d \in 0..Top : d # Top => next'[d] = next[d]
      BY <2>1, <2>5, <3>1
    <3>4. \A d \in 0..Top : \A p \in Partition : next'[d][p] >= next[d][p]
      BY <2>4, <3>2, <3>3
    <3> QED  BY <3>3, <3>4 DEF V
  <2>7. ASSUME NEW e \in DOMAIN mask
        PROVE  /\ e[1] \in 0..Top /\ e[2] \in Partition
               /\ e[3] < next'[e[1]][e[2]]
    <3>1. /\ e[1] \in 0..Top /\ e[2] \in Partition /\ e \in Coordinate
          /\ e[3] < next[e[1]][e[2]]
      BY DEF IInv, Typed
    <3>2. e[3] \in Nat /\ next[e[1]][e[2]] \in Nat /\ next'[e[1]][e[2]] \in Nat
      BY <3>1, <2>1, <2>6 DEF Coordinate
    <3> QED  BY <3>1, <3>2, <2>6
  <2> QED  BY <1>1, <1>2, <2>6, <2>7 DEF IInv, Typed
<1>4. Queueing'
  <2>1. spawnQ' \in [0..Top -> [Partition -> Seq(SUBSET Component)]]
    <3> DEFINE V == [Partition -> Seq(SUBSET Component)]
    <3>1. NoSpawns \in V /\ spawnQ \in [0..Top -> V]
      BY DEF NoSpawns, IInv, Queueing
    <3> HIDE DEF V
    <3>2. spawnQ' \in [0..Top -> V]
      BY <3>1, <1>1
    <3> QED  BY <3>2 DEF V
  <2>2. edgeQ' \in [0..Top -> Seq([source : Entity, mask : SUBSET Component])]
    <3> DEFINE V == Seq([source : Entity, mask : SUBSET Component])
    <3>1. <<>> \in V
      OBVIOUS
    <3>2. edgeQ \in [0..Top -> V]
      BY DEF IInv, Queueing
    <3> HIDE DEF V
    <3>3. edgeQ' \in [0..Top -> V]
      BY <3>1, <3>2, <1>1
    <3> QED  BY <3>3 DEF V
  <2> QED  BY <1>1, <1>2, <2>1, <2>2 DEF IInv, Queueing
<1> QED  BY <1>2, <1>3, <1>4 DEF IInv

-----------------------------------------------------------------------------
(* A layer mounted under a top layer that is not in use *)

MountedBy(masks) == {<<Top, 0, k>> : k \in 0..(Len(masks) - 1)}

\* What is in the layers below stays where it is.
LEMMA NothingLifted ==
  ASSUME IInv, next[Top] = NoSlots
  PROVE  /\ \A e \in DOMAIN mask : e[1] # Top /\ Lifted(e) = e
         /\ \A q \in DOMAIN bloom : q[1] # Top /\ Lifted(q) = q
<1>1. ASSUME NEW e \in DOMAIN mask PROVE e[1] # Top
  <2> SUFFICES ASSUME e[1] = Top PROVE FALSE
    OBVIOUS
  <2>1. e[2] \in Partition /\ e[3] < next[Top][e[2]] /\ e[3] \in Nat
    BY DEF IInv, Typed, Coordinate
  <2>2. next[Top][e[2]] = 0
    BY <2>1 DEF NoSlots
  <2> QED  BY <2>1, <2>2
<1>2. ASSUME NEW q \in DOMAIN bloom PROVE q[1] # Top
  <2>1. PICK e \in DOMAIN mask : q = PageOf(e)
    BY DEF IInv, Filtered
  <2> QED  BY <2>1, <1>1 DEF PageOf
<1> QED  BY <1>1, <1>2 DEF Lifted, InTop

\* MountReadonlyLayer, for a layer without edges.
LEMMA MountsBelow ==
  ASSUME IInv, next[Top] = NoSlots, NEW masks \in Seq(SUBSET Component),
         MountReadonlyLayer(masks, <<>>)
  PROVE  /\ depth' = depth + 1
         /\ next' = With(With(next, depth, next[Top]), Top,
                         [NoSlots EXCEPT ![0] = Len(masks)])
         /\ DOMAIN mask' = DOMAIN mask \cup MountedBy(masks)
         /\ mask' \in [DOMAIN mask' -> SUBSET Component]
         /\ \A e \in DOMAIN mask : mask'[e] = mask[e]
         /\ active' = active \cup MountedBy(masks)
         /\ DOMAIN bloom' = {PageOf(e) : e \in DOMAIN mask'}
         /\ \A e \in DOMAIN mask' : mask'[e] \subseteq bloom'[PageOf(e)]
         /\ DOMAIN edgeSrc' = DOMAIN edgeSrc
         /\ \A e \in DOMAIN edgeSrc : edgeSrc'[e] = edgeSrc[e]
         /\ adj' = adj
         /\ spawnQ' = With(With(spawnQ, depth, spawnQ[Top]), Top, NoSpawns)
         /\ edgeQ' = With(With(edgeQ, depth, edgeQ[Top]), Top, <<>>)
         /\ UNCHANGED <<tombOf, redirOf, index, tombQ, shadowQ, mode>>
<1> DEFINE n == Len(masks) + Len(<<>>)
           content == masks \o [i \in DOMAIN <<>> |-> <<>>[i].mask]
           mounted == {<<Top, 0, k>> : k \in 0..(n - 1)}
           lifted == {Lifted(e) : e \in DOMAIN mask}
           pages == {PageOf(e) : e \in mounted}
           Edge(i) == <<0, 0, Len(masks) + i - 1>>
           Source(i) == <<0, 0, <<>>[i].source>>
           Index(edge) == edge[3] - Len(masks) + 1
<1>1. /\ depth' = depth + 1
      /\ next' = With(With(next, depth, next[Top]), Top, [NoSlots EXCEPT ![0] = n])
      /\ mask' = [e \in lifted \cup mounted |->
                    IF e \in mounted THEN content[e[3] + 1]
                    ELSE mask[CHOOSE old \in DOMAIN mask : Lifted(old) = e]]
      /\ active' = {Lifted(e) : e \in active} \cup mounted
      /\ bloom' = [q \in {Lifted(q) : q \in DOMAIN bloom} \cup pages |->
                     IF q \in pages
                     THEN UNION {mask'[e] : e \in {e \in mounted : PageOf(e) = q}}
                     ELSE bloom[CHOOSE old \in DOMAIN bloom : Lifted(old) = q]]
      /\ edgeSrc' = [e \in DOMAIN edgeSrc \cup {Edge(i) : i \in DOMAIN <<>>} |->
                       IF e \in {Edge(i) : i \in DOMAIN <<>>}
                       THEN Source(Index(e)) ELSE edgeSrc[e]]
      /\ adj' = adj \cup {<<Source(i), Edge(i)>> : i \in DOMAIN <<>>}
      /\ spawnQ' = With(With(spawnQ, depth, spawnQ[Top]), Top, NoSpawns)
      /\ edgeQ' = With(With(edgeQ, depth, edgeQ[Top]), Top, <<>>)
      /\ UNCHANGED <<tombOf, redirOf, index, tombQ, shadowQ, mode>>
  BY DEF MountReadonlyLayer
<1>2. Len(masks) \in Nat /\ n = Len(masks)
  OBVIOUS
<1>3. mounted = MountedBy(masks)
  BY <1>2 DEF MountedBy
<1>4. content = masks
  <2>1. [i \in DOMAIN <<>> |-> <<>>[i].mask] = <<>>
    BY NoneInEmpty
  <2> QED  BY <2>1
<1>5. /\ \A e \in DOMAIN mask : e[1] # Top /\ Lifted(e) = e
      /\ \A q \in DOMAIN bloom : q[1] # Top /\ Lifted(q) = q
  BY NothingLifted
<1>6. lifted = DOMAIN mask /\ {Lifted(q) : q \in DOMAIN bloom} = DOMAIN bloom
      /\ {Lifted(e) : e \in active} = active
  <2>1. \A S : (\A e \in S : Lifted(e) = e) => {Lifted(e) : e \in S} = S
    OBVIOUS
  <2>2. \A e \in active : Lifted(e) = e
    BY <1>5 DEF IInv, Typed
  <2> QED  BY <2>1, <2>2, <1>5
<1>7. \A e \in mounted : e[1] = Top /\ content[e[3] + 1] \in SUBSET Component
  <2> SUFFICES ASSUME NEW k \in 0..(n - 1)
               PROVE  content[k + 1] \in SUBSET Component
    OBVIOUS
  <2>1. k + 1 \in 1..Len(masks)
    BY <1>2
  <2> QED  BY <2>1, <1>4
<1>8. \A q \in pages : q[1] = Top
  BY <1>7 DEF PageOf
<1> HIDE DEF n, content, mounted, Edge, Source, Index
<1>9. /\ DOMAIN mask' = DOMAIN mask \cup mounted
      /\ \A e \in mounted : mask'[e] \in SUBSET Component
      /\ \A e \in DOMAIN mask : mask'[e] = mask[e]
      /\ mask' = [e \in DOMAIN mask' |-> mask'[e]]
  <2>1. \A e \in mounted : mask'[e] = content[e[3] + 1]
    BY <1>1
  <2>2. ASSUME NEW e \in DOMAIN mask PROVE mask'[e] = mask[e]
    <3>1. e \notin mounted /\ e \in lifted
      BY <1>5, <1>6, <1>7
    <3>2. (CHOOSE old \in DOMAIN mask : Lifted(old) = e) = e
      BY <1>5
    <3> HIDE DEF lifted
    <3> QED  BY <1>1, <3>1, <3>2
  <2>3. DOMAIN mask' = lifted \cup mounted /\ mask' = [e \in DOMAIN mask' |-> mask'[e]]
    <3> HIDE DEF lifted
    <3> QED  BY <1>1
  <2> QED  BY <2>1, <2>2, <2>3, <1>6, <1>7
<1>10. mask' \in [DOMAIN mask' -> SUBSET Component]
  BY <1>9 DEF IInv, Typed
<1>11. /\ DOMAIN bloom' = DOMAIN bloom \cup pages
       /\ \A q \in DOMAIN bloom : bloom'[q] = bloom[q]
       /\ \A e \in mounted : mask'[e] \subseteq bloom'[PageOf(e)]
  <2> DEFINE kept == {Lifted(q) : q \in DOMAIN bloom}
             Aggregate(q) == UNION {mask'[e] : e \in {e \in mounted : PageOf(e) = q}}
  <2>1. bloom' = [q \in kept \cup pages |->
                    IF q \in pages THEN Aggregate(q)
                    ELSE bloom[CHOOSE old \in DOMAIN bloom : Lifted(old) = q]]
    BY <1>1
  <2>2. \A e \in mounted : PageOf(e) \in pages /\ mask'[e] \subseteq Aggregate(PageOf(e))
    OBVIOUS
  <2>3. kept = DOMAIN bloom
    BY <1>6
  <2> HIDE DEF kept, Aggregate
  <2>4. ASSUME NEW q \in DOMAIN bloom PROVE bloom'[q] = bloom[q]
    <3>1. q \notin pages
      BY <1>5, <1>8
    <3>2. (CHOOSE old \in DOMAIN bloom : Lifted(old) = q) = q
      BY <1>5
    <3> HIDE DEF pages
    <3> QED  BY <2>1, <2>3, <3>1, <3>2
  <2>5. \A q \in pages : bloom'[q] = Aggregate(q)
    <3> HIDE DEF pages
    <3> QED  BY <2>1
  <2>6. DOMAIN bloom' = DOMAIN bloom \cup pages
    <3> HIDE DEF pages
    <3> QED  BY <2>1, <2>3
  <2> QED  BY <2>2, <2>4, <2>5, <2>6
<1>12. DOMAIN bloom' = {PageOf(e) : e \in DOMAIN mask'}
  BY <1>9, <1>11 DEF IInv, Filtered
<1>13. \A e \in DOMAIN mask' : mask'[e] \subseteq bloom'[PageOf(e)]
  <2>1. \A e \in DOMAIN mask : /\ PageOf(e) \in DOMAIN bloom
                               /\ mask[e] \subseteq bloom[PageOf(e)]
    BY DEF IInv, Filtered
  <2> HIDE DEF pages
  <2> QED  BY <2>1, <1>9, <1>11
<1>14. /\ DOMAIN edgeSrc' = DOMAIN edgeSrc
       /\ \A e \in DOMAIN edgeSrc : edgeSrc'[e] = edgeSrc[e]
  BY <1>1, NoneInEmpty
<1>15. adj' = adj
  BY <1>1, NoneInEmpty
<1> HIDE DEF lifted, pages
<1> QED  BY <1>1, <1>2, <1>3, <1>6, <1>9, <1>10, <1>12, <1>13, <1>14, <1>15

LEMMA MountKeeps ==
  ASSUME IInv, next[Top] = NoSlots, NEW masks \in Seq(SUBSET Component),
         Len(masks) <= 1, MountReadonlyLayer(masks, <<>>)
  PROVE  IInv'
<1> DEFINE mounted == MountedBy(masks)
<1>1. /\ depth' = depth + 1
      /\ next' = With(With(next, depth, next[Top]), Top,
                      [NoSlots EXCEPT ![0] = Len(masks)])
      /\ DOMAIN mask' = DOMAIN mask \cup mounted
      /\ mask' \in [DOMAIN mask' -> SUBSET Component]
      /\ \A e \in DOMAIN mask : mask'[e] = mask[e]
      /\ active' = active \cup mounted
      /\ DOMAIN bloom' = {PageOf(e) : e \in DOMAIN mask'}
      /\ \A e \in DOMAIN mask' : mask'[e] \subseteq bloom'[PageOf(e)]
      /\ DOMAIN edgeSrc' = DOMAIN edgeSrc
      /\ \A e \in DOMAIN edgeSrc : edgeSrc'[e] = edgeSrc[e]
      /\ adj' = adj
      /\ spawnQ' = With(With(spawnQ, depth, spawnQ[Top]), Top, NoSpawns)
      /\ edgeQ' = With(With(edgeQ, depth, edgeQ[Top]), Top, <<>>)
      /\ UNCHANGED <<tombOf, redirOf, index, tombQ, shadowQ, mode>>
  BY MountsBelow
<1>2. /\ Top \in Nat /\ depth = Top + 1 /\ Top' = depth /\ depth \in Nat
      /\ 0..Top' = 0..Top \cup {depth} /\ depth \notin 0..Top /\ Top \in 0..Top
  BY <1>1, TopLayer DEF IInv, Top
<1>3. /\ 0 \in Partition /\ Len(masks) \in Nat
      /\ \A e \in mounted : e = <<Top, 0, 0>> /\ 0 < Len(masks)
  BY LayerAssumption DEF MountedBy
<1>4. \A e \in DOMAIN mask : e[1] # Top
  BY NothingLifted
<1> HIDE DEF mounted
<1>5. Typed'
  <2> DEFINE V == [Partition -> Nat]
             slots == [NoSlots EXCEPT ![0] = Len(masks)]
  <2>1. slots \in V /\ slots[0] = Len(masks)
    BY <1>3 DEF NoSlots
  <2>2. next \in [0..Top -> V]
    BY DEF IInv, Typed
  <2> HIDE DEF V, slots
  <2>3. next' = With(With(next, depth, next[Top]), Top, slots)
    BY <1>1 DEF slots
  <2>4. /\ next' \in [0..Top' -> V] /\ next'[Top] = slots
        /\ \A d \in 0..Top : d # Top => next'[d] = next[d]
    BY <2>1, <2>2, <2>3, <1>2 DEF With
  <2>5. ASSUME NEW e \in DOMAIN mask'
        PROVE  /\ e[1] \in 0..Top' /\ e[2] \in Partition
               /\ e[3] < next'[e[1]][e[2]] /\ e \in Coordinate
    <3>1. CASE e \in mounted
      <4>1. e = <<Top, 0, 0>> /\ 0 < Len(masks)
        BY <3>1, <1>3
      <4> QED  BY <4>1, <1>2, <1>3, <2>1, <2>4 DEF Coordinate
    <3>2. CASE e \in DOMAIN mask
      BY <3>2, <1>2, <1>4, <2>4 DEF IInv, Typed
    <3> QED  BY <3>1, <3>2, <1>1
  <2>6. IsFiniteSet(DOMAIN mask')
    <3>1. mounted \subseteq {<<Top, 0, 0>>}
      BY <1>3
    <3>2. IsFiniteSet(mounted)
      BY <3>1, FS_Singleton, FS_Subset
    <3>3. IsFiniteSet(DOMAIN mask)
      BY DEF IInv, Typed
    <3>4. IsFiniteSet(DOMAIN mask \cup mounted)
      BY <3>2, <3>3, FS_Union
    <3> QED  BY <3>4, <1>1
  <2>7. active' \subseteq DOMAIN mask'
    BY <1>1 DEF IInv, Typed
  <2>8. depth' \in Nat \ {0} /\ mode' \in {"idle", "commit"}
    BY <1>1, <1>2 DEF IInv, Typed
  <2>9. next' \in [0..Top' -> [Partition -> Nat]]
    BY <2>4 DEF V
  <2> QED  BY <2>5, <2>6, <2>7, <2>8, <2>9, <1>1 DEF Typed
<1>6. Filtered'
  BY <1>1 DEF Filtered, PageOf
<1>7. Entity \subseteq Entity'
  BY <1>1 DEF Entity
<1>8. Written'
  BY <1>1, <1>7 DEF IInv, Written
<1>9. Registered'
  <2>1. \A e \in DOMAIN edgeSrc : edgeSrc[e] \in DOMAIN mask
    BY DEF IInv, Written, Entity
  <2>2. mounted \cap DOMAIN mask = {}
    BY <1>3, <1>4
  <2> QED  BY <1>1, <1>7, <2>1, <2>2 DEF IInv, Registered
<1>10. Indexed'
  BY <1>1, <1>7, IndexedStays DEF IInv
<1>11. Queueing'
  <2>1. Frozen \subseteq Frozen'
    <3>1. \A e \in Entity : e[1] \in Int
      BY DEF Entity, IInv, Typed
    <3> QED  BY <3>1, <1>2, <1>7 DEF Frozen
  <2>2. shadowQ' \in Seq([base : Frozen', new : SUBSET Component])
    <3>1. [base : Frozen, new : SUBSET Component]
            \subseteq [base : Frozen', new : SUBSET Component]
      BY <2>1
    <3> QED  BY <1>1, <3>1, SeqOfMore DEF IInv, Queueing
  <2>3. spawnQ' \in [0..Top' -> [Partition -> Seq(SUBSET Component)]]
    <3> DEFINE V == [Partition -> Seq(SUBSET Component)]
    <3>1. NoSpawns \in V /\ spawnQ \in [0..Top -> V]
      BY DEF NoSpawns, IInv, Queueing
    <3> HIDE DEF V
    <3>2. spawnQ' \in [0..Top' -> V]
      BY <3>1, <1>1, <1>2 DEF With
    <3> QED  BY <3>2 DEF V
  <2>4. edgeQ' \in [0..Top' -> Seq([source : Entity', mask : SUBSET Component])]
    <3> DEFINE V == Seq([source : Entity, mask : SUBSET Component])
               W == Seq([source : Entity', mask : SUBSET Component])
    <3>1. <<>> \in V
      OBVIOUS
    <3>2. edgeQ \in [0..Top -> V]
      BY DEF IInv, Queueing
    <3>3. V \subseteq W
      <4>1. [source : Entity, mask : SUBSET Component]
              \subseteq [source : Entity', mask : SUBSET Component]
        BY <1>7
      <4> QED  BY <4>1, SeqOfMore
    <3> HIDE DEF V, W
    <3>4. edgeQ' \in [0..Top' -> W]
      BY <3>1, <3>2, <3>3, <1>1, <1>2 DEF With
    <3> QED  BY <3>4 DEF W
  <2>5. tombQ' \in Seq(Entity')
    BY <1>1, <1>7, SeqOfMore DEF IInv, Queueing
  <2> QED  BY <2>2, <2>3, <2>4, <2>5 DEF Queueing
<1> QED  BY <1>5, <1>6, <1>8, <1>9, <1>10, <1>11 DEF IInv

-----------------------------------------------------------------------------
(* The invariant *)

LEMMA NextKeeps ==
  ASSUME LateMounts = FALSE, IInv, [Next]_vars
  PROVE  IInv'
<1>1. \A m \in SpawnMasks : m \in SUBSET Component
  BY LayerAssumption
<1>2. \A c \in Changes : {c} \in SUBSET Component /\ {} \in SUBSET Component
  BY LayerAssumption
<1>3. MountAllowed => next[Top] = NoSlots
  BY DEF MountAllowed
<1>4. CASE \E m \in SpawnMasks : CreateEntity(m, 0)
  BY <1>4, <1>1, CreateEntityKeeps
<1>5. CASE \E m \in SpawnMasks : QueueSpawn(m, 0)
  BY <1>5, <1>1, QueueSpawnKeeps
<1>6. CASE \E m \in SpawnMasks : MountAllowed /\ MountReadonlyLayer(<<m>>, <<>>)
  <2>1. PICK m \in SpawnMasks : MountAllowed /\ MountReadonlyLayer(<<m>>, <<>>)
    BY <1>6
  <2>2. <<m>> \in Seq(SUBSET Component) /\ Len(<<m>>) <= 1
    BY <1>1
  <2> QED  BY <2>1, <2>2, <1>3, MountKeeps
<1>7. CASE MountAllowed /\ MountReadonlyLayer(<<>>, <<>>)
  <2>1. <<>> \in Seq(SUBSET Component) /\ Len(<<>>) <= 1
    OBVIOUS
  <2> QED  BY <2>1, <1>3, <1>7, MountKeeps
<1>8. CASE \E e \in Entity : \E m \in SpawnMasks : QueueEdge(e, m)
  BY <1>8, <1>1, QueueEdgeKeeps
<1>9. CASE \E e \in Entity : DestroyEntity(e)
  BY <1>9, DestroyKeeps
<1>10. CASE \E e \in Entity : \E c \in Changes : AddComponent(e, {c})
  BY <1>10, <1>2, ChangeKeeps DEF AddComponent
<1>11. CASE \E e \in Entity : \E c \in Changes : RemoveComponent(e, {c})
  BY <1>11, <1>2, ChangeKeeps DEF RemoveComponent
<1>12. CASE BeginCommit \/ EndCommit
  BY <1>12, ModeKeeps
<1>13. CASE CommitSpawn
  BY <1>13, CommitSpawnKeeps
<1>14. CASE CommitEdge
  BY <1>14, CommitEdgeKeeps
<1>15. CASE CommitTombstone
  BY <1>15, CommitTombstoneKeeps
<1>16. CASE CommitPatch
  BY <1>16, CommitPatchKeeps
<1>17. CASE PushLayer
  BY <1>17, PushLayerKeeps
<1>18. CASE Rebuild
  BY <1>18, RebuildKeeps
<1>19. CASE Reboot
  BY <1>19, RebootKeeps
<1>20. CASE UNCHANGED vars
  <2>1. /\ UNCHANGED <<depth, physicalVars, payloadVars, adj, index>>
        /\ UNCHANGED <<depth, queueVars>> /\ mode' = mode
    BY <1>20 DEF vars
  <2>2. mode' \in {"idle", "commit"}
    BY <2>1 DEF IInv, Typed
  <2>3. /\ Typed' /\ Filtered' /\ Written' /\ Registered' /\ Indexed'
        /\ Entity' = Entity
    BY <2>1, <2>2, OnlyQueues
  <2>4. Queueing'
    BY <2>1, <2>3, QueueingStays DEF IInv
  <2> QED  BY <2>3, <2>4 DEF IInv
<1> QED
  BY <1>4, <1>5, <1>6, <1>7, <1>8, <1>9, <1>10, <1>11, <1>12, <1>13, <1>14,
     <1>15, <1>16, <1>17, <1>18, <1>19, <1>20 DEF Next

\* Whatever the client does, short of mounting layers under one in use, the
\* slots, filters, payloads, queues, edges and the shadow index stay consistent
\* with each other, in any stack and after any rebuild or reboot.
THEOREM StackInvariant ==
  ASSUME LateMounts = FALSE
  PROVE  Spec => []IInv
<1>1. Init => IInv
  BY InitIInv
<1>2. IInv /\ [Next]_vars => IInv'
  BY NextKeeps
<1> QED  BY <1>1, <1>2, PTL DEF Spec

-----------------------------------------------------------------------------
(* What follows from it *)

LEMMA TypeFollows == IInv => TypeOK
<1> SUFFICES ASSUME IInv PROVE TypeOK
  OBVIOUS
<1>1. \A e \in DOMAIN mask :
        /\ e[1] \in 0..Top /\ e[2] \in Partition /\ e[3] \in Nat
        /\ e[3] < next[e[1]][e[2]]
        /\ mask[e] \subseteq Component
  BY DEF IInv, Typed, Coordinate
<1>2. /\ DOMAIN tombOf \cup Range(tombOf) \subseteq DOMAIN mask
      /\ DOMAIN redirOf \cup Range(redirOf) \subseteq DOMAIN mask
      /\ DOMAIN edgeSrc \cup Range(edgeSrc) \subseteq DOMAIN mask
  BY DEF IInv, Written, Entity, Range
<1>3. \A p \in adj : p[1] \in Entity /\ p[2] \in DOMAIN edgeSrc
  BY DEF IInv, Registered
<1>4. /\ depth \in Nat \ {0} /\ mode \in {"idle", "commit"}
      /\ next \in [0..Top -> [Partition -> Nat]]
      /\ active \subseteq DOMAIN mask
      /\ DOMAIN bloom = {PageOf(e) : e \in DOMAIN mask}
  BY DEF IInv, Typed, Filtered
<1> QED  BY <1>1, <1>2, <1>3, <1>4 DEF TypeOK

\* The state is well formed at every step.
THEOREM StackTyped ==
  ASSUME LateMounts = FALSE
  PROVE  Spec => []TypeOK
BY StackInvariant, TypeFollows, PTL

LEMMA PathsFollow == IInv => PathsCompressed
<1> SUFFICES ASSUME IInv PROVE PathsCompressed
  OBVIOUS
<1>1. WellIndexed(index, redirOf, Entity)
  BY DEF IInv, Indexed
<1>2. ASSUME NEW r \in DOMAIN index.chains
      PROVE  LET chain == index.chains[r] IN
             /\ chain[1] = r /\ r \notin DOMAIN index.rootOf
             /\ index.terminal[r] = Last(chain)
             /\ \A i \in 2..Len(chain) : index.rootOf[chain[i]] = r
             /\ IsTombstoned(index, r)
  <2>1. Chained(index, redirOf, Entity, r)
    BY <1>1 DEF WellIndexed
  <2> QED  BY <2>1 DEF Chained, Last, IsTombstoned
<1> QED  BY <1>1, <1>2 DEF PathsCompressed, WellIndexed

\* However often an entity is patched, and after a rebuild that replays its
\* patches, one lookup leads from each alias to the root and to the newest one.
THEOREM PathsStayCompressed ==
  ASSUME LateMounts = FALSE
  PROVE  Spec => []PathsCompressed
BY StackInvariant, PathsFollow, PTL

\* In a chain without forks, each patch replaces the alias right before it.
LEMMA Successors ==
  ASSUME NEW idx, NEW R, NEW U, NEW r, Chained(idx, R, U, r),
         \A i, k \in 2..Len(idx.chains[r]) :
           R[idx.chains[r][i]] = R[idx.chains[r][k]] => i = k
  PROVE  \A k \in 2..Len(idx.chains[r]) : R[idx.chains[r][k]] = idx.chains[r][k - 1]
<1> DEFINE chain == idx.chains[r]
           Q == {k \in 2..Len(chain) : R[chain[k]] # chain[k - 1]}
<1>1. /\ Len(chain) \in Nat
      /\ \A k \in 2..Len(chain) : \E i \in 1..(k - 1) : chain[i] = R[chain[k]]
  BY DEF Chained
<1> SUFFICES ASSUME Q # {} PROVE FALSE
  OBVIOUS
<1>2. PICK k \in Q : \A i \in 0..(k - 1) : i \notin Q
  <2>1. Q \in SUBSET Nat
    BY <1>1
  <2> HIDE DEF Q
  <2> QED  BY <2>1, Least
<1>3. k \in 2..Len(chain) /\ R[chain[k]] # chain[k - 1]
  OBVIOUS
<1>4. PICK i \in 1..(k - 1) : chain[i] = R[chain[k]]
  BY <1>1, <1>3
<1>5. i # k - 1 /\ i + 1 \in 2..(k - 1) /\ i + 1 \in 2..Len(chain)
      /\ i + 1 \in 0..(k - 1) /\ (i + 1) - 1 = i
  BY <1>1, <1>3, <1>4
<1>6. R[chain[i + 1]] = chain[i]
  <2>1. i + 1 \notin Q
    <3> HIDE DEF Q
    <3> QED  BY <1>2, <1>5
  <2> QED  BY <2>1, <1>5
<1>7. i + 1 = k
  BY <1>3, <1>4, <1>5, <1>6
<1> QED  BY <1>5, <1>7

LEMMA MeetsOnce == IInv => MetOnce
<1> SUFFICES ASSUME IInv, NEW e \in Iterated({}) \cap Entity,
                    Unforked(LogicalRoot(index, e)),
                    e # Terminal(index, e)
             PROVE  FALSE
  BY DEF MetOnce
<1> DEFINE r == LogicalRoot(index, e)
           chain == RedirectChain(index, e)
<1>1. WellIndexed(index, redirOf, Entity)
  BY DEF IInv, Indexed
<1>2. /\ RedirectChain(index, r) = chain /\ chain \in Seq(Entity)
      /\ Len(chain) >= 1 /\ Terminal(index, e) = chain[Len(chain)]
      /\ e \in Range(chain)
  BY <1>1, Resolved
<1>3. e \in active /\ (InTop(e) \/ e \notin index.shadowed)
  BY DEF Iterated, IsTombstoned
<1> HIDE DEF r, chain
<1>4. PICK j \in 1..Len(chain) : chain[j] = e
  BY <1>2 DEF Range
<1>5. Len(chain) \in Nat /\ j # Len(chain) /\ Len(chain) # 1
  BY <1>2, <1>4
<1>6. chain = index.chains[r] /\ Chained(index, redirOf, Entity, r)
  <2>1. \/ Len(RedirectChain(index, e)) = 1
        \/ /\ RedirectChain(index, e) = index.chains[LogicalRoot(index, e)]
           /\ Chained(index, redirOf, Entity, LogicalRoot(index, e))
    BY <1>1, ChainOf
  <2>2. Len(RedirectChain(index, e)) # 1
    <3>1. Len(chain) # 1
      BY <1>5
    <3> QED  BY <3>1 DEF chain
  <2>3. /\ RedirectChain(index, e) = index.chains[LogicalRoot(index, e)]
        /\ Chained(index, redirOf, Entity, LogicalRoot(index, e))
    BY <2>1, <2>2
  <2> QED  BY <2>3 DEF r, chain
<1>7. \A k \in 2..Len(chain) : /\ chain[k] \in DOMAIN redirOf
                               /\ redirOf[chain[k]] \in index.shadowed
  BY <1>6 DEF Chained
<1>8. \A i, k \in 1..Len(chain) : chain[i] = chain[k] => i = k
  BY <1>6 DEF Chained
<1>9. \A i, k \in 2..Len(chain) : redirOf[chain[i]] = redirOf[chain[k]] => i = k
  <2>1. \A k \in 2..Len(chain) : k \in 1..Len(chain) /\ chain[k] \in Range(chain)
    BY <1>2 DEF Range
  <2>2. \A p, q \in Range(chain) \cap DOMAIN redirOf :
          redirOf[p] = redirOf[q] => p = q
    BY <1>2 DEF Unforked, r
  <2> QED  BY <2>1, <2>2, <1>7, <1>8
<1>10. \A k \in 2..Len(chain) : redirOf[chain[k]] = chain[k - 1]
  BY <1>6, <1>9, Successors
<1>11. j + 1 \in 2..Len(chain) /\ (j + 1) - 1 = j
  BY <1>4, <1>5
<1>12. redirOf[chain[j + 1]] = e /\ e \in index.shadowed
       /\ chain[j + 1] \in DOMAIN redirOf
  BY <1>4, <1>7, <1>10, <1>11
<1>13. e[1] < chain[j + 1][1] /\ chain[j + 1][1] \in 0..Top
  BY <1>12 DEF IInv, Typed, Written, Entity
<1>14. e[1] = Top /\ Top \in Nat
  BY <1>3, <1>12, TopLayer DEF InTop, IInv
<1> QED  BY <1>13, <1>14

\* An entity that was patched in any number of layers is met under its newest
\* alias only, however its patches came to be and also after a reboot.
THEOREM StackMeetsOnce ==
  ASSUME LateMounts = FALSE
  PROVE  Spec => []MetOnce
BY StackInvariant, MeetsOnce, PTL

LEMMA HidesNothing == IInv => BloomHidesNothing
<1> SUFFICES ASSUME IInv, NEW e \in active,
                    InTop(e) \/ ~IsTombstoned(index, e)
             PROVE  e \in Iterated(mask[e])
  BY DEF BloomHidesNothing
<1>1. e \in DOMAIN mask
  BY DEF IInv, Typed
<1> QED  BY <1>1 DEF IInv, Filtered, Iterated

\* No page is passed over that holds what a query asks for.
THEOREM FiltersHideNothing ==
  ASSUME LateMounts = FALSE
  PROVE  Spec => []BloomHidesNothing
BY StackInvariant, HidesNothing, PTL

-----------------------------------------------------------------------------
(* The layers below *)

\* A step leaves what lies below the top layer as it was.
Spares == \A e \in DOMAIN mask : e[1] < Top =>
            mask'[e] = mask[e] /\ (e \in active') = (e \in active)

LEMMA CreateSpares ==
  ASSUME IInv, NEW m, NEW p, Create(m, p)
  PROVE  Spares
<1>1. Fresh(p)[1] = Top
  BY DEF Fresh
<1>2. mask' = With(mask, Fresh(p), m) /\ active' = active \cup {Fresh(p)}
  BY DEF Create
<1>3. ASSUME NEW e \in DOMAIN mask, e[1] < Top
      PROVE  mask'[e] = mask[e] /\ (e \in active' <=> e \in active)
  <2>1. e # Fresh(p)
    <3>1. Top \in Nat
      BY TopLayer DEF IInv
    <3> QED  BY <3>1, <1>1, <1>3
  <2> QED  BY <2>1, <1>2 DEF With
<1> QED  BY <1>3 DEF Spares

LEMMA DestroySpares ==
  ASSUME IInv, NEW e \in Entity, DestroyEntity(e)
  PROVE  Spares
<1> DEFINE t == WriteTarget(e)
<1>1. \/ InTop(t) /\ DestroyImmediate(t)
      \/ UNCHANGED physicalVars
  BY DEF DestroyEntity, Writable
<1> HIDE DEF t
<1>2. CASE InTop(t) /\ DestroyImmediate(t)
  <2>1. /\ t[1] = Top /\ active' = active \ {t}
        /\ mask' = [x \in DOMAIN mask |-> IF x = t THEN {} ELSE mask[x]]
    BY <1>2 DEF InTop, DestroyImmediate
  <2>2. ASSUME NEW x \in DOMAIN mask, x[1] < Top
        PROVE  mask'[x] = mask[x] /\ (x \in active' <=> x \in active)
    <3>1. x # t
      <4>1. Top \in Nat
        BY TopLayer DEF IInv
      <4> QED  BY <4>1, <2>1, <2>2
    <3> QED  BY <3>1, <2>1
  <2> QED  BY <2>2 DEF Spares
<1>3. CASE UNCHANGED physicalVars
  BY <1>3 DEF physicalVars, Spares
<1> QED  BY <1>1, <1>2, <1>3

LEMMA ChangeSpares ==
  ASSUME IInv, NEW e \in Entity, NEW gained, NEW lost, Change(e, gained, lost)
  PROVE  Spares
<1> DEFINE t == WriteTarget(e)
           m == IF t \in active THEN (mask[t] \cup gained) \ lost ELSE mask[t]
<1>1. /\ active' = active
      /\ \/ InTop(t) /\ mask' = [mask EXCEPT ![t] = m]
         \/ mask' = mask
  BY DEF Change, Writable
<1> HIDE DEF t, m
<1>2. ASSUME NEW x \in DOMAIN mask, x[1] < Top PROVE mask'[x] = mask[x]
  <2>1. CASE InTop(t) /\ mask' = [mask EXCEPT ![t] = m]
    <3>1. x # t
      <4>1. Top \in Nat
        BY TopLayer DEF IInv
      <4> QED  BY <4>1, <2>1, <1>2 DEF InTop
    <3> QED  BY <3>1, <2>1
  <2> QED  BY <2>1, <1>1
<1> QED  BY <1>1, <1>2 DEF Spares

LEMMA MountSpares ==
  ASSUME IInv, next[Top] = NoSlots, NEW masks \in Seq(SUBSET Component),
         MountReadonlyLayer(masks, <<>>)
  PROVE  Spares
<1>1. /\ \A e \in DOMAIN mask : mask'[e] = mask[e]
      /\ active' = active \cup MountedBy(masks)
  BY MountsBelow
<1>2. \A e \in DOMAIN mask : e \notin MountedBy(masks)
  <2>1. \A e \in DOMAIN mask : e[1] # Top
    BY NothingLifted
  <2> QED  BY <2>1 DEF MountedBy
<1>3. \A e \in DOMAIN mask : e \in active' <=> e \in active
  BY <1>1, <1>2
<1> QED  BY <1>1, <1>3 DEF Spares

LEMMA NextSpares ==
  ASSUME LateMounts = FALSE, IInv, Next
  PROVE  Spares
<1>1. \A m \in SpawnMasks : <<m>> \in Seq(SUBSET Component)
  BY LayerAssumption
<1>2. <<>> \in Seq(SUBSET Component)
  OBVIOUS
<1>3. MountAllowed => next[Top] = NoSlots
  BY DEF MountAllowed
<1>4. CASE \E m, p : Create(m, p)
  BY <1>4, CreateSpares
<1>5. CASE UNCHANGED <<mask, active>>
  BY <1>5 DEF Spares
<1>6. CASE \E m \in SpawnMasks : CreateEntity(m, 0)
  BY <1>4, <1>6 DEF CreateEntity
<1>7. CASE \E m \in SpawnMasks : QueueSpawn(m, 0)
  BY <1>5, <1>7 DEF QueueSpawn, physicalVars
<1>8. CASE \E m \in SpawnMasks : MountAllowed /\ MountReadonlyLayer(<<m>>, <<>>)
  BY <1>1, <1>3, <1>8, MountSpares
<1>9. CASE MountAllowed /\ MountReadonlyLayer(<<>>, <<>>)
  BY <1>2, <1>3, <1>9, MountSpares
<1>10. CASE \E e \in Entity : \E m \in SpawnMasks : QueueEdge(e, m)
  BY <1>5, <1>10 DEF QueueEdge, physicalVars
<1>11. CASE \E e \in Entity : DestroyEntity(e)
  BY <1>11, DestroySpares
<1>12. CASE \E e \in Entity : \E c \in Changes :
              AddComponent(e, {c}) \/ RemoveComponent(e, {c})
  BY <1>12, ChangeSpares DEF AddComponent, RemoveComponent
<1>13. CASE BeginCommit \/ EndCommit
  BY <1>5, <1>13 DEF BeginCommit, EndCommit, physicalVars
<1>14. CASE CommitSpawn
  BY <1>4, <1>14 DEF CommitSpawn
<1>15. CASE CommitEdge
  BY <1>4, <1>15 DEF CommitEdge
<1>16. CASE CommitTombstone
  BY <1>4, <1>16 DEF CommitTombstone
<1>17. CASE CommitPatch
  BY <1>4, <1>17 DEF CommitPatch
<1>18. CASE PushLayer
  BY <1>5, <1>18 DEF PushLayer
<1>19. CASE Rebuild \/ Reboot
  BY <1>5, <1>19 DEF Rebuild, Reboot, RebuildIndices
<1> QED
  BY <1>6, <1>7, <1>8, <1>9, <1>10, <1>11, <1>12, <1>13, <1>14, <1>15, <1>16,
     <1>17, <1>18, <1>19 DEF Next

\* Writing, committing, patching, rebuilding, rebooting and mounting never touch
\* a slot of a layer below the top one.
THEOREM FoundationStays ==
  ASSUME LateMounts = FALSE
  PROVE  Spec => FoundationImmutable
<1>1. IInv /\ [Next]_vars =>
        [\A e \in DOMAIN mask : e[1] < Top =>
           mask'[e] = mask[e] /\ (e \in active') = (e \in active)]_vars
  BY NextSpares DEF Spares
<1> QED  BY <1>1, StackInvariant, PTL DEF Spec, FoundationImmutable

=============================================================================
