-------------------------- MODULE SerialFrame_proofs --------------------------
(***************************************************************************)
(* Proofs that what a pass of the simple executive leaves behind does not  *)
(* depend on how its threads were scheduled, for every catalog of system   *)
(* types and every database.                                               *)
(*                                                                         *)
(* RunsSerially: a plain pass is equivalent to running its systems one     *)
(* after the other in the order of registration.  A payload changes        *)
(* entities one at a time, and others run meanwhile.  The history of an    *)
(* entity arranges the changes made to it so far in the order of           *)
(* registration instead of the order in which they happened.  SerialInv    *)
(* says that the table is at the end of these histories, and that each     *)
(* payload has found what it would have found there when its turn came.    *)
(* A change can be moved to its turn because what conflicts with a running *)
(* system has either finished before it or not started: changes of systems *)
(* that overlap commute, and no query sees them.                           *)
(*                                                                         *)
(* StagesInOrder: where the graph orders the systems that spawn, the spawn *)
(* queue is what they have staged in the order of registration.  While a   *)
(* spawner is not over none behind it has started (LaterQuiet), so what it *)
(* pushes goes to the end of the queue and to the end of that order.       *)
(*                                                                         *)
(* ScheduleDoesNotMatter puts the two together for a pass in which nobody  *)
(* fails.                                                                  *)
(***************************************************************************)
EXTENDS SimpleFrame_proofs, FiniteSetTheorems, WellFoundedInduction

\* A record after each of the systems of `list', of which those in W change it.
Fate(r, list, W) ==
  LET after[n \in 0..Len(list)] ==
        IF n = 0 THEN r
        ELSE IF n \in W THEN Changed(after[n - 1], list[n])
        ELSE after[n - 1]
  IN  after

\* The entities a payload has changed, and the payloads that changed an entity.
Touched(n) == {hits[n][k] : k \in 1..applied[n]}
Touchers(e) == {n \in Node : e \in Touched(n)}

History(e) == Fate(before.entities[e], systems, Touchers(e))

\* How far a payload has got, and what that says of it.
Progress(n) ==
  /\ scanned[n] <= Len(entities)
  /\ \A k \in DOMAIN hits[n] : hits[n][k] \in 1..scanned[n]
  /\ \A i, k \in DOMAIN hits[n] : i < k => hits[n][i] < hits[n][k]
  /\ applied[n] <= Len(hits[n])
  /\ at[n] \in {"wait", "scan"} => applied[n] = 0
  /\ at[n] = "wait" => scanned[n] = 0
  /\ at[n] \in {"apply", "push"} => scanned[n] = Len(entities)
  /\ applied[n] > 0 => Permitted(systems[n])
  /\ at[n] # "wait" /\ n \notin resolved => ~Dead(n)
  /\ at[n] # "wait" /\ n \in resolved /\ ~failed[n] =>
       at[n] # "scan" /\ applied[n] = Len(hits[n])

\* Of the entities it has looked at, the payload has found those that match
\* when it is its turn.
FoundInTurn(n) ==
  \A e \in 1..scanned[n] :
    e \in ToSet(hits[n]) <=> Matches(History(e)[n - 1], systems[n].query)

InTurn ==
  /\ DOMAIN entities = DOMAIN before.entities
  /\ \A e \in DOMAIN entities : entities[e] = History(e)[Len(systems)]
  /\ \A n \in Node : FoundInTurn(n)

SerialInv ==
  /\ BlastInv
  /\ phase = "pass" => (\A n \in Node : Progress(n)) /\ (Plain => InTurn)

-------------------------------------------------------------------------------
(* Changes to one record *)

\* One adds a component the other removes.
Opposed(s, t) ==
  /\ s.operand \intersect t.operand # {}
  /\ \/ s.effect = "add" /\ t.effect = "remove"
     \/ s.effect = "remove" /\ t.effect = "add"

\* The effects of two systems commute unless they are opposed.
LEMMA Commute ==
  ASSUME NEW r \in Record, NEW s \in Catalog, NEW t \in Catalog, ~Opposed(s, t)
  PROVE  Changed(Changed(r, s), t) = Changed(Changed(r, t), s)
<1>1. /\ r = [mask |-> r.mask, alive |-> r.alive]
      /\ r.mask \in Mask /\ r.alive \in BOOLEAN
  BY DEF Record
<1>2. PICK a : a = s.operand
  OBVIOUS
<1>3. PICK b : b = t.operand
  OBVIOUS
<1>4. CASE s.effect \notin {"destroy", "add", "remove"}
  BY <1>4 DEF Changed
<1>5. CASE t.effect \notin {"destroy", "add", "remove"}
  BY <1>5 DEF Changed
<1>6. CASE s.effect = "destroy"
  BY <1>6 DEF Changed
<1>7. CASE t.effect = "destroy"
  BY <1>7 DEF Changed
<1>8. CASE ~r.alive /\ s.effect \in {"add", "remove"} /\ t.effect \in {"add", "remove"}
  BY <1>8 DEF Changed
<1>9. CASE r.alive /\ s.effect = "add" /\ t.effect = "add"
  <2>1. (r.mask \union a) \union b = (r.mask \union b) \union a
    OBVIOUS
  <2> QED  BY <1>2, <1>3, <1>9, <2>1 DEF Changed
<1>10. CASE r.alive /\ s.effect = "remove" /\ t.effect = "remove"
  <2>1. (r.mask \ a) \ b = (r.mask \ b) \ a
    OBVIOUS
  <2> QED  BY <1>2, <1>3, <1>10, <2>1 DEF Changed
<1>11. CASE r.alive /\ s.effect = "add" /\ t.effect = "remove"
  <2>1. a \intersect b = {}
    BY <1>2, <1>3, <1>11 DEF Opposed
  <2>2. (r.mask \union a) \ b = (r.mask \ b) \union a
    BY <2>1
  <2> QED  BY <1>2, <1>3, <1>11, <2>2 DEF Changed
<1>12. CASE r.alive /\ s.effect = "remove" /\ t.effect = "add"
  <2>1. a \intersect b = {}
    BY <1>2, <1>3, <1>12 DEF Opposed
  <2>2. (r.mask \ a) \union b = (r.mask \union b) \ a
    BY <2>1
  <2> QED  BY <1>2, <1>3, <1>12, <2>2 DEF Changed
<1> QED
  BY <1>1, <1>4, <1>5, <1>6, <1>7, <1>8, <1>9, <1>10, <1>11, <1>12

\* A query does not notice a change of components it does not ask for, nor the
\* end of what it does not match.
LEMMA Unnoticed ==
  ASSUME NEW r \in Record, NEW s \in Catalog, NEW q,
         s.effect \in {"add", "remove"} => s.operand \intersect q = {},
         s.effect = "destroy" => ~Matches(r, q)
  PROVE  Matches(Changed(r, s), q) <=> Matches(r, q)
BY DEF Changed, Matches, Record

-------------------------------------------------------------------------------
(* The fate of one record *)

LEMMA Least ==
  ASSUME NEW Q \in SUBSET Nat, Q # {}
  PROVE  \E m \in Q : \A i \in 0..(m - 1) : i \notin Q
<1> DEFINE R == {p \in Nat \X Nat : p[1] < p[2]}
<1>1. IsWellFoundedOn(R, Nat)
  BY NatLessThanWellFounded DEF OpToRel
<1>2. PICK m \in Q : \A i \in Q : ~(<<i, m>> \in R)
  BY <1>1, WFMin
<1>3. \A i \in 0..(m - 1) : <<i, m>> \in R
  OBVIOUS
<1> QED  BY <1>2, <1>3

\* The recursion of Fate, up to n.
Turns(f, r, list, W, n) ==
  f = [k \in 0..n |-> IF k = 0 THEN r
                      ELSE IF k \in W THEN Changed(f[k - 1], list[k])
                      ELSE f[k - 1]]

LEMMA TurnsExist ==
  ASSUME NEW r, NEW list, NEW W
  PROVE  \A n \in Nat : \E f : Turns(f, r, list, W, n)
<1> DEFINE Bad == {n \in Nat : ~\E f : Turns(f, r, list, W, n)}
<1> SUFFICES ASSUME Bad # {} PROVE FALSE
  OBVIOUS
<1>1. PICK n \in Bad : \A i \in 0..(n - 1) : i \notin Bad
  <2>1. Bad \in SUBSET Nat
    OBVIOUS
  <2> HIDE DEF Bad
  <2> QED  BY <2>1, Least
<1>2. n \in Nat /\ ~\E f : Turns(f, r, list, W, n)
  OBVIOUS
<1>3. CASE n = 0
  <2> DEFINE f == [k \in 0..0 |-> r]
  <2>1. Turns(f, r, list, W, 0)
    BY DEF Turns
  <2> QED  BY <1>2, <1>3, <2>1
<1>4. CASE n # 0
  <2>1. n - 1 \in Nat /\ n - 1 \in 0..(n - 1)
    BY <1>2, <1>4
  <2>2. PICK f : Turns(f, r, list, W, n - 1)
    <3>1. n - 1 \notin Bad
      <4> HIDE DEF Bad
      <4> QED  BY <1>1, <2>1
    <3> QED  BY <2>1, <3>1
  <2> DEFINE Step(h, k) == IF k = 0 THEN r
                           ELSE IF k \in W THEN Changed(h[k - 1], list[k])
                           ELSE h[k - 1]
             g == [k \in 0..n |-> IF k < n THEN f[k] ELSE Step(f, n)]
  <2>3. ASSUME NEW k \in 0..n PROVE g[k] = Step(g, k)
    <3>1. k # 0 => k - 1 \in 0..n /\ k - 1 < n
      BY <1>2
    <3>2. k # 0 => g[k - 1] = f[k - 1]
      BY <3>1
    <3>3. CASE k = n
      <4>1. g[k] = Step(f, n)
        BY <3>3
      <4> HIDE DEF g
      <4> QED  BY <4>1, <3>2, <3>3
    <3>4. CASE k < n
      <4>1. g[k] = f[k] /\ k \in 0..(n - 1)
        BY <1>2, <3>4
      <4>2. f[k] = Step(f, k)
        BY <2>2, <4>1 DEF Turns
      <4> HIDE DEF g
      <4> QED  BY <4>1, <4>2, <3>2
    <3> QED  BY <1>2, <3>3, <3>4
  <2>4. g = [k \in 0..n |-> g[k]]
    OBVIOUS
  <2> HIDE DEF g
  <2>5. Turns(g, r, list, W, n)
    BY <2>3, <2>4 DEF Turns
  <2> QED  BY <1>2, <2>5
<1> QED  BY <1>3, <1>4

\* It begins with the record and goes on system by system.
Unfolds(f, r, list, W) ==
  /\ f[0] = r
  /\ \A k \in 1..Len(list) :
       f[k] = IF k \in W THEN Changed(f[k - 1], list[k]) ELSE f[k - 1]

LEMMA FateUnfolds ==
  ASSUME NEW r, NEW list, Len(list) \in Nat, NEW W
  PROVE  Unfolds(Fate(r, list, W), r, list, W)
<1> DEFINE F == CHOOSE f : Turns(f, r, list, W, Len(list))
<1>1. Turns(F, r, list, W, Len(list))
  BY TurnsExist
<1>2. Fate(r, list, W) = F
  BY DEF Fate, Turns
<1> HIDE DEF F
<1>3. \A k \in 0..Len(list) :
        F[k] = IF k = 0 THEN r
               ELSE IF k \in W THEN Changed(F[k - 1], list[k])
               ELSE F[k - 1]
  BY <1>1 DEF Turns
<1>4. 0 \in 0..Len(list) /\ \A k \in 1..Len(list) : k \in 0..Len(list) /\ k # 0
  OBVIOUS
<1> QED  BY <1>2, <1>3, <1>4 DEF Unfolds
\* What holds at a and is handed on up to b holds at b.
LEMMA HandedOn ==
  ASSUME NEW a \in Nat, NEW b \in Nat, a <= b, NEW Good,
         a \in Good, \A k \in (a + 1)..b : k - 1 \in Good => k \in Good
  PROVE  b \in Good
<1> DEFINE Bad == {k \in a..b : k \notin Good}
<1> SUFFICES ASSUME Bad # {} PROVE FALSE
  BY DEF Bad
<1>1. PICK k \in Bad : \A i \in 0..(k - 1) : i \notin Bad
  <2>1. Bad \in SUBSET Nat
    OBVIOUS
  <2> HIDE DEF Bad
  <2> QED  BY <2>1, Least
<1>2. k \in a..b /\ k \notin Good /\ k # a
  OBVIOUS
<1>3. k - 1 \in 0..(k - 1) /\ k - 1 \in a..b /\ k \in (a + 1)..b
  BY <1>2
<1>4. k - 1 \in Good
  BY <1>1, <1>3
<1> QED  BY <1>2, <1>3, <1>4

LEMMA FateTyped ==
  ASSUME NEW r \in Record, NEW list \in Seq(Catalog), NEW W
  PROVE  \A n \in 0..Len(list) : Fate(r, list, W)[n] \in Record
<1>1. PICK F : F = Fate(r, list, W)
  OBVIOUS
<1>2. /\ F[0] = r /\ Len(list) \in Nat
      /\ \A k \in 1..Len(list) :
           F[k] = IF k \in W THEN Changed(F[k - 1], list[k]) ELSE F[k - 1]
  <2>1. Len(list) \in Nat
    OBVIOUS
  <2>2. Unfolds(F, r, list, W)
    BY <2>1, <1>1, FateUnfolds
  <2> QED  BY <2>2 DEF Unfolds
<1> SUFFICES ASSUME NEW n \in 0..Len(list) PROVE F[n] \in Record
  BY <1>1
<1> DEFINE Good == {k \in Nat : F[k] \in Record}
<1>3. 0 \in Good
  BY <1>2
<1>4. ASSUME NEW k \in (0 + 1)..n, k - 1 \in Good PROVE k \in Good
  <2>1. k \in 1..Len(list) /\ k \in Nat /\ list[k] \in Catalog
    BY <1>2
  <2> QED  BY <2>1, <1>2, <1>4, ChangedType
<1> HIDE DEF Good
<1>5. n \in Good
  BY <1>3, <1>4, HandedOn
<1> QED  BY <1>5 DEF Good

\* The same of the first n systems change the record.
SameUpTo(n, V, W) == \A k \in 1..n : k \in V <=> k \in W

\* It depends on the systems whose turn has come only.
LEMMA FatePrefix ==
  ASSUME NEW r, NEW list, Len(list) \in Nat, NEW V, NEW W, NEW n \in 0..Len(list),
         SameUpTo(n, V, W)
  PROVE  Fate(r, list, V)[n] = Fate(r, list, W)[n]
<1>1. PICK F : F = Fate(r, list, V)
  OBVIOUS
<1>2. PICK G : G = Fate(r, list, W)
  OBVIOUS
<1>3. /\ F[0] = r
      /\ \A k \in 1..Len(list) :
           F[k] = IF k \in V THEN Changed(F[k - 1], list[k]) ELSE F[k - 1]
  <2>1. Len(list) \in Nat
    OBVIOUS
  <2>2. Unfolds(F, r, list, V)
    BY <2>1, <1>1, FateUnfolds
  <2> QED  BY <2>2 DEF Unfolds
<1>4. /\ G[0] = r
      /\ \A k \in 1..Len(list) :
           G[k] = IF k \in W THEN Changed(G[k - 1], list[k]) ELSE G[k - 1]
  <2>1. Len(list) \in Nat
    OBVIOUS
  <2>2. Unfolds(G, r, list, W)
    BY <2>1, <1>2, FateUnfolds
  <2> QED  BY <2>2 DEF Unfolds
<1> DEFINE Good == {k \in Nat : F[k] = G[k]}
<1>5. 0 \in Good
  BY <1>3, <1>4
<1>6. ASSUME NEW k \in (0 + 1)..n, k - 1 \in Good PROVE k \in Good
  <2>1. k \in 1..Len(list) /\ k \in 1..n /\ k \in Nat
    OBVIOUS
  <2> QED  BY <2>1, <1>3, <1>4, <1>6 DEF SameUpTo
<1> HIDE DEF Good
<1>7. n \in Good
  BY <1>5, <1>6, HandedOn
<1> QED  BY <1>1, <1>2, <1>7 DEF Good

\* A change that commutes with the later ones can be made at its turn.
LEMMA FateInserts ==
  ASSUME NEW r \in Record, NEW list \in Seq(Catalog), NEW W, NEW V,
         NEW m \in 1..Len(list), m \notin W,
         \A k \in 1..Len(list) : k \in V <=> k \in W \/ k = m,
         NEW n \in m..Len(list),
         \A k \in W : m < k /\ k <= n => ~Opposed(list[m], list[k])
  PROVE  Fate(r, list, V)[n] = Changed(Fate(r, list, W)[n], list[m])
<1>1. PICK F : F = Fate(r, list, V)
  OBVIOUS
<1>2. PICK G : G = Fate(r, list, W)
  OBVIOUS
<1>3. \A k \in 1..Len(list) :
        F[k] = IF k \in V THEN Changed(F[k - 1], list[k]) ELSE F[k - 1]
  <2>1. Len(list) \in Nat
    OBVIOUS
  <2>2. Unfolds(F, r, list, V)
    BY <2>1, <1>1, FateUnfolds
  <2> QED  BY <2>2 DEF Unfolds
<1>4. \A k \in 1..Len(list) :
        G[k] = IF k \in W THEN Changed(G[k - 1], list[k]) ELSE G[k - 1]
  <2>1. Len(list) \in Nat
    OBVIOUS
  <2>2. Unfolds(G, r, list, W)
    BY <2>1, <1>2, FateUnfolds
  <2> QED  BY <2>2 DEF Unfolds
<1>5. \A k \in 0..Len(list) : G[k] \in Record
  BY <1>2, FateTyped
<1>6. Len(list) \in Nat /\ \A k \in 1..Len(list) : list[k] \in Catalog
  OBVIOUS
<1> DEFINE Good == {k \in Nat : F[k] = Changed(G[k], list[m])}
<1>7. m \in Good
  <2>1. m - 1 \in 0..Len(list) /\ \A k \in 1..(m - 1) : k \in V <=> k \in W
    BY <1>6
  <2>2. Fate(r, list, V)[m - 1] = Fate(r, list, W)[m - 1]
    <3>1. PICK p : p = m - 1
      OBVIOUS
    <3>2. p \in 0..Len(list) /\ \A k \in 1..p : k \in V <=> k \in W
      BY <2>1, <3>1
    <3>3. SameUpTo(p, V, W)
      BY <3>2 DEF SameUpTo
    <3>4. Fate(r, list, V)[p] = Fate(r, list, W)[p]
      BY <1>6, <3>2, <3>3, FatePrefix
    <3> QED  BY <3>1, <3>4
  <2> QED  BY <2>2, <1>1, <1>2, <1>3, <1>4
<1>8. ASSUME NEW k \in (m + 1)..n, k - 1 \in Good PROVE k \in Good
  <2>1. k \in 1..Len(list) /\ k \in Nat /\ m < k /\ k <= n /\ k # m
        /\ k - 1 \in 0..Len(list)
    BY <1>6
  <2>2. CASE k \in W
    <3>1. /\ F[k] = Changed(Changed(G[k - 1], list[m]), list[k])
          /\ G[k] = Changed(G[k - 1], list[k])
      BY <2>1, <2>2, <1>3, <1>4, <1>8
    <3>2. ~Opposed(list[m], list[k]) /\ G[k - 1] \in Record
          /\ list[m] \in Catalog /\ list[k] \in Catalog
      BY <2>1, <2>2, <1>5, <1>6
    <3>3. F[k] = Changed(G[k], list[m])
      BY <3>1, <3>2, Commute
    <3> QED  BY <2>1, <3>3
  <2>3. CASE k \notin W
    BY <2>1, <2>3, <1>3, <1>4, <1>8
  <2> QED  BY <2>2, <2>3
<1> HIDE DEF Good
<1>9. n \in Good
  <2>1. m \in Nat /\ n \in Nat /\ m <= n
    BY <1>6
  <2> QED  BY <2>1, <1>7, <1>8, HandedOn
<1> QED  BY <1>1, <1>2, <1>9 DEF Good

\* Where a query notices no change, it sees at b what it would have at a.
LEMMA FateUnnoticed ==
  ASSUME NEW r \in Record, NEW list \in Seq(Catalog), NEW W, NEW q,
         NEW a \in 0..Len(list), NEW b \in a..Len(list),
         \A k \in W : a < k /\ k <= b =>
           /\ list[k].effect \in {"add", "remove"} =>
                list[k].operand \intersect q = {}
           /\ list[k].effect = "destroy" =>
                ~Matches(Fate(r, list, W)[k - 1], q)
  PROVE  Matches(Fate(r, list, W)[b], q) <=> Matches(Fate(r, list, W)[a], q)
<1>1. PICK F : F = Fate(r, list, W)
  OBVIOUS
<1>2. \A k \in 1..Len(list) :
        F[k] = IF k \in W THEN Changed(F[k - 1], list[k]) ELSE F[k - 1]
  <2>1. Len(list) \in Nat
    OBVIOUS
  <2>2. Unfolds(F, r, list, W)
    BY <2>1, <1>1, FateUnfolds
  <2> QED  BY <2>2 DEF Unfolds
<1>3. \A k \in 0..Len(list) : F[k] \in Record
  BY <1>1, FateTyped
<1>4. Len(list) \in Nat /\ \A k \in 1..Len(list) : list[k] \in Catalog
  OBVIOUS
<1> DEFINE Good == {k \in Nat : Matches(F[k], q) <=> Matches(F[a], q)}
<1>5. a \in Good
  BY <1>4
<1>6. ASSUME NEW k \in (a + 1)..b, k - 1 \in Good PROVE k \in Good
  <2>1. k \in 1..Len(list) /\ k \in Nat /\ a < k /\ k <= b /\ k - 1 \in 0..Len(list)
    BY <1>4
  <2>2. Matches(F[k], q) <=> Matches(F[k - 1], q)
    <3>1. CASE k \in W
      <4>1. F[k] = Changed(F[k - 1], list[k]) /\ F[k - 1] \in Record
            /\ list[k] \in Catalog
        BY <2>1, <3>1, <1>2, <1>3, <1>4
      <4>2. /\ list[k].effect \in {"add", "remove"} =>
                 list[k].operand \intersect q = {}
            /\ list[k].effect = "destroy" => ~Matches(F[k - 1], q)
        BY <1>1, <2>1, <3>1
      <4> QED  BY <4>1, <4>2, Unnoticed
    <3>2. CASE k \notin W
      BY <2>1, <3>2, <1>2
    <3> QED  BY <3>1, <3>2
  <2> QED  BY <2>1, <2>2, <1>6
<1> HIDE DEF Good
<1>7. b \in Good
  <2>1. a \in Nat /\ b \in Nat /\ a <= b
    BY <1>4
  <2> QED  BY <2>1, <1>5, <1>6, HandedOn
<1> QED  BY <1>1, <1>7 DEF Good

\* Without systems that add components, less and less is left of a record.
LEMMA FateShrinks ==
  ASSUME NEW r \in Record, NEW list \in Seq(Catalog), NEW W,
         \A k \in 1..Len(list) : list[k].effect # "add",
         NEW n \in 0..Len(list)
  PROVE  /\ Fate(r, list, W)[n].mask \subseteq r.mask
         /\ Fate(r, list, W)[n].alive => r.alive
<1>1. PICK F : F = Fate(r, list, W)
  OBVIOUS
<1>2. /\ F[0] = r
      /\ \A k \in 1..Len(list) :
           F[k] = IF k \in W THEN Changed(F[k - 1], list[k]) ELSE F[k - 1]
  <2>1. Len(list) \in Nat
    OBVIOUS
  <2>2. Unfolds(F, r, list, W)
    BY <2>1, <1>1, FateUnfolds
  <2> QED  BY <2>2 DEF Unfolds
<1>3. \A k \in 0..Len(list) : F[k] \in Record
  BY <1>1, FateTyped
<1> DEFINE Good == {k \in Nat : F[k].mask \subseteq r.mask /\ (F[k].alive => r.alive)}
<1>4. 0 \in Good
  BY <1>2
<1>5. ASSUME NEW k \in (0 + 1)..n, k - 1 \in Good PROVE k \in Good
  <2>1. k \in 1..Len(list) /\ k \in Nat /\ k - 1 \in 0..Len(list)
    OBVIOUS
  <2>2. F[k] = F[k - 1] \/ F[k] = Changed(F[k - 1], list[k])
    BY <2>1, <1>2
  <2>3. F[k - 1] \in Record /\ list[k].effect # "add"
    BY <2>1, <1>3
  <2>4. /\ Changed(F[k - 1], list[k]).mask \subseteq F[k - 1].mask
        /\ Changed(F[k - 1], list[k]).alive => F[k - 1].alive
    BY <2>3, ChangeShrinks
  <2> QED  BY <2>1, <2>2, <2>4, <1>5
<1> HIDE DEF Good
<1>6. n \in Good
  <2>1. n \in Nat /\ 0 \in Nat /\ 0 <= n
    OBVIOUS
  <2> QED  BY <2>1, <1>4, <1>5, HandedOn
<1> QED  BY <1>1, <1>6 DEF Good
-------------------------------------------------------------------------------
(* Systems that overlap *)

Jit(n) == JitWriteMask(systems[n], before.entities)
Declared(n) == StaticRead(systems[n]) \union StaticWrite(systems[n])

\* A running system and a later one that has started: neither locks what the
\* other declares.
LEMMA Independent ==
  ASSUME IInv, Plain, NEW n \in Running, NEW k \in Node, n < k, at[k] # "wait"
  PROVE  Jit(n) \intersect Declared(k) = {} /\ Jit(k) \intersect Declared(n) = {}
<1>1. /\ phase = "pass" /\ n \in Node /\ n \notin resolved
      /\ systems[n] \in Catalog /\ systems[k] \in Catalog
      /\ before.entities \in Seq(Record)
  BY RunningInPass, NodeIndex DEF IInv, TypeOK, DatabaseTypes, Running
<1>2. k \notin dependents[n]
  <2>1. Pred(k) \subseteq resolved
    BY DEF IInv, OrderRespected
  <2> QED  BY <1>1, <2>1 DEF Pred
<1>3. dependents[n] = {j \in Node : n < j /\ Conflict(systems[n], jitWrite[n],
                                                    systems[j], jitWrite[j])}
  BY <1>1 DEF IInv, GraphCurrent, TopologicalGraph, Node
<1>4. jitWrite[n] = Jit(n) /\ jitWrite[k] = Jit(k)
  BY <1>1 DEF IInv, GraphCurrent, Jit
<1>5. ~Conflict(systems[n], Jit(n), systems[k], Jit(k))
  BY <1>2, <1>3, <1>4
<1>6. systems[n].flags = {} /\ systems[k].flags = {}
  BY <1>1 DEF Plain
<1>7. /\ Jit(n) \intersect StaticRead(systems[k]) = {}
      /\ StaticRead(systems[n]) \intersect Jit(k) = {}
      /\ Jit(n) \intersect Jit(k) = {}
  BY <1>5, <1>6 DEF Conflict, PreviousMask, AtomicMask
<1>8. StaticWrite(systems[n]) \subseteq Jit(n) /\ StaticWrite(systems[k]) \subseteq Jit(k)
  BY <1>1, JitMask DEF Jit
<1> QED  BY <1>7, <1>8 DEF Declared

\* A payload adds and removes what it has declared, or throws.
LEMMA WritesDeclared ==
  ASSUME NEW n \in Node, Permitted(systems[n]), NEW records,
         systems[n].effect \in {"add", "remove"}
  PROVE  systems[n].operand \subseteq JitWriteMask(systems[n], records)
BY DEF Permitted, JitWriteMask, StaticWrite

\* What a system does to an entity it has found escapes the query of another
\* one that declares nothing it locks.
LEMMA Escapes ==
  ASSUME BlastInv, Plain, phase = "pass", NEW n \in Node, NEW k \in Node,
         Jit(n) \intersect Declared(k) = {}, Permitted(systems[n]),
         NEW i \in DOMAIN hits[n], NEW W, NEW c \in 0..Len(systems)
  PROVE  LET q == systems[k].query
             then == Fate(before.entities[hits[n][i]], systems, W)[c]
         IN  /\ systems[n].effect \in {"add", "remove"} =>
                  systems[n].operand \intersect q = {}
             /\ systems[n].effect = "destroy" => ~Matches(then, q)
<1>1. PICK q : q = systems[k].query
  OBVIOUS
<1>2. PICK then : then = Fate(before.entities[hits[n][i]], systems, W)[c]
  OBVIOUS
<1>3. q # {} /\ q \subseteq Declared(k)
  BY <1>1 DEF Plain, AsksForDeclared, Declared
<1>4. systems[n].effect \in {"add", "remove"} => systems[n].operand \intersect q = {}
  BY <1>3, WritesDeclared DEF Jit
<1>5. ASSUME systems[n].effect = "destroy", Matches(then, q) PROVE FALSE
  <2>1. DeletersOnly
    BY <1>5 DEF Plain
  <2>2. PICK r : r = before.entities[hits[n][i]]
    OBVIOUS
  <2>3. hits[n][i] \in DOMAIN before.entities /\ Matches(r, systems[n].query)
    BY <2>1, <2>2 DEF BlastInv, HitsForeseen
  <2>4. r \in Record /\ systems \in Seq(Catalog) /\ before.entities \in Seq(Record)
    BY <2>2, <2>3, RecordFields DEF BlastInv, IInv, TypeOK, FrameTypes, DatabaseTypes
  <2>5. \A j \in 1..Len(systems) : systems[j].effect # "add"
    BY <2>1, <2>4 DEF DeletersOnly, Node
  <2>6. then.mask \subseteq r.mask
    BY <1>2, <2>2, <2>4, <2>5, FateShrinks
  <2>7. r.mask \subseteq Jit(n)
    <3>1. /\ systems[n].deletes # {}
          /\ TargetSignature(systems[n]) \subseteq systems[n].query
      BY <1>5, <2>1 DEF DeletersOnly
    <3> QED  BY <2>2, <2>3, <3>1 DEF Jit, JitWriteMask, BlastRadius, QueryEntities,
                                     Matches, StaticDelete
  <2>8. q \subseteq then.mask
    BY <1>5 DEF Matches
  <2> QED  BY <1>3, <2>6, <2>7, <2>8
<1> QED  BY <1>1, <1>2, <1>4, <1>5

-------------------------------------------------------------------------------
(* Progress *)

\* What is used of the types all the time.
LEMMA PassTypes ==
  ASSUME IInv
  PROVE  /\ Len(systems) \in Nat /\ Node = 1..Len(systems) /\ Node \subseteq Index
         /\ systems \in Seq(Catalog)
         /\ entities \in Seq(Record) /\ before.entities \in Seq(Record)
         /\ Len(entities) \in Nat /\ DOMAIN entities = 1..Len(entities)
         /\ failed \in [Index -> BOOLEAN] /\ aborted \in [Index -> BOOLEAN]
         /\ at \in [Index -> {"wait", "scan", "apply", "push"}]
         /\ scanned \in [Index -> Nat] /\ hits \in [Index -> Seq(Nat)]
         /\ applied \in [Index -> Nat]
<1>1. /\ Len(systems) \in Nat /\ Node = 1..Len(systems) /\ Node \subseteq Index
  BY NodeIndex DEF IInv
<1>2. /\ systems \in Seq(Catalog) /\ entities \in Seq(Record)
      /\ before.entities \in Seq(Record)
  BY DEF IInv, TypeOK, FrameTypes, DatabaseTypes
<1>3. Len(entities) \in Nat /\ DOMAIN entities = 1..Len(entities)
  BY <1>2, LenProperties
<1> QED  BY <1>1, <1>2, <1>3 DEF IInv, TypeOK, MarkTypes, PayloadTypes

Advances == \A m \in Node : Progress(m)

LEMMA StartAdvances ==
  ASSUME IInv, Advances, NEW n \in Node, Start(n)
  PROVE  Advances'
<1>1. /\ Node' = Node /\ UNCHANGED <<systems, entities, failed, aborted, resolved,
                                    scanned, hits, applied>>
      /\ at[n] = "wait" /\ n \notin resolved /\ ~Dead(n)
  BY DEF Start, frameVars, markVars, dbVars, Node
<1>2. \A m \in Node : at'[m] = IF m = n THEN "scan" ELSE at[m]
  BY PassTypes DEF Start
<1>3. ASSUME NEW m \in Node PROVE Progress(m)'
  <2>1. CASE m = n
    BY <2>1, <1>1, <1>2 DEF Advances, Progress, Dead
  <2>2. CASE m # n
    BY <2>2, <1>1, <1>2 DEF Advances, Progress, Dead
  <2> QED  BY <2>1, <2>2
<1> QED  BY <1>1, <1>3 DEF Advances

LEMMA ResolveAdvances ==
  ASSUME IInv, Advances, NEW n \in Node, n \notin resolved, NEW crash \in BOOLEAN,
         Resolve(n, crash), UNCHANGED <<frameVars, dbVars, payloadVars, before>>,
         at[n] # "wait" /\ ~crash => at[n] # "scan" /\ applied[n] = Len(hits[n])
  PROVE  Advances'
<1>1. /\ Node' = Node
      /\ UNCHANGED <<systems, entities, at, scanned, hits, applied>>
      /\ resolved' = resolved \union {n}
  BY DEF Resolve, frameVars, dbVars, payloadVars, Node
<1>2. /\ \A m \in Node : failed'[m] = IF m = n THEN failed[n] \/ crash ELSE failed[m]
      /\ \A m \in Node : m \notin dependents[n] => aborted'[m] = aborted[m]
  BY PassTypes DEF Resolve
<1>3. ASSUME NEW m \in Node PROVE Progress(m)'
  <2>1. CASE m = n
    BY <2>1, <1>1, <1>2 DEF Advances, Progress, Dead
  <2>2. CASE m # n
    <3>1. at[m] # "wait" => m \notin dependents[n]
      BY DEF IInv, OrderRespected, Pred
    <3>2. at[m] # "wait" => (Dead(m)' <=> Dead(m)) /\ (failed'[m] <=> failed[m])
      BY <2>2, <3>1, <1>2 DEF Dead
    <3> QED  BY <2>2, <3>2, <1>1 DEF Advances, Progress
  <2> QED  BY <2>1, <2>2
<1> QED  BY <1>1, <1>3 DEF Advances

LEMMA ScanAdvances ==
  ASSUME IInv, Advances, NEW n \in Running, ScanRecord(n)
  PROVE  Advances'
<1>1. PICK e : e = scanned[n] + 1
  OBVIOUS
<1>2. /\ n \in Node /\ Node' = Node
      /\ UNCHANGED <<systems, entities, failed, aborted, resolved, at, applied>>
      /\ at[n] = "scan" /\ scanned[n] < Len(entities)
  BY DEF Running, ScanRecord, frameVars, markVars, dbVars, Node
<1>3. /\ \A m \in Node : m # n => scanned'[m] = scanned[m] /\ hits'[m] = hits[m]
      /\ scanned'[n] = e /\ hits'[n] \in {hits[n], Append(hits[n], e)}
  BY <1>1, <1>2, PassTypes DEF ScanRecord
<1>4. hits[n] \in Seq(Nat) /\ scanned[n] \in Nat /\ Len(entities) \in Nat
      /\ applied[n] = 0
  BY <1>2, PassTypes DEF Advances, Progress
<1>5. e \in Nat /\ e <= Len(entities) /\ scanned[n] < e
  BY <1>1, <1>2, <1>4
<1>6. /\ \A k \in DOMAIN hits[n] : hits[n][k] \in 1..scanned[n]
      /\ \A i, k \in DOMAIN hits[n] : i < k => hits[n][i] < hits[n][k]
  BY <1>2 DEF Advances, Progress
<1>7. /\ \A k \in DOMAIN hits'[n] : hits'[n][k] \in 1..e
      /\ \A i, k \in DOMAIN hits'[n] : i < k => hits'[n][i] < hits'[n][k]
      /\ 0 <= Len(hits'[n])
  <2>1. CASE hits'[n] = hits[n]
    <3>1. \A k \in DOMAIN hits[n] : hits[n][k] \in 1..e
      BY <1>4, <1>5, <1>6
    <3> QED  BY <2>1, <3>1, <1>4, <1>6
  <2>2. CASE hits'[n] = Append(hits[n], e)
    <3>1. PICK s : s = hits[n]
      OBVIOUS
    <3>2. PICK t : t = hits'[n]
      OBVIOUS
    <3>3. /\ s \in Seq(Nat) /\ t = Append(s, e) /\ Len(s) \in Nat
          /\ DOMAIN s = 1..Len(s) /\ DOMAIN t = 1..(Len(s) + 1)
          /\ t[Len(s) + 1] = e /\ \A k \in 1..Len(s) : t[k] = s[k]
      BY <2>2, <3>1, <3>2, <1>4, <1>5
    <3>4. \A k \in DOMAIN s : s[k] \in 1..scanned[n]
      BY <1>6, <3>1
    <3>5. \A i, k \in DOMAIN s : i < k => s[i] < s[k]
      BY <1>6, <3>1
    <3>6. ASSUME NEW k \in DOMAIN t PROVE t[k] \in 1..e
      <4>1. CASE k = Len(s) + 1
        BY <4>1, <3>3, <1>4, <1>5
      <4>2. CASE k \in DOMAIN s
        BY <4>2, <3>3, <3>4, <1>4, <1>5
      <4> QED  BY <4>1, <4>2, <3>3
    <3>7. ASSUME NEW i \in DOMAIN t, NEW k \in DOMAIN t, i < k PROVE t[i] < t[k]
      <4>1. i \in DOMAIN s /\ t[i] = s[i] /\ s[i] \in 1..scanned[n]
        BY <3>3, <3>4, <3>7
      <4>2. CASE k = Len(s) + 1
        BY <4>1, <4>2, <3>3, <1>4, <1>5
      <4>3. CASE k \in DOMAIN s
        BY <4>1, <4>3, <3>3, <3>5, <3>7
      <4> QED  BY <4>2, <4>3, <3>3
    <3>8. 0 <= Len(t)
      BY <3>3
    <3> QED  BY <3>2, <3>6, <3>7, <3>8
  <2> QED  BY <2>1, <2>2, <1>3
<1>8. ASSUME NEW m \in Node PROVE Progress(m)'
  <2>1. CASE m = n
    BY <2>1, <1>2, <1>3, <1>4, <1>5, <1>7 DEF Advances, Progress, Dead
  <2>2. CASE m # n
    BY <2>2, <1>2, <1>3 DEF Advances, Progress, Dead
  <2> QED  BY <2>1, <2>2
<1> QED  BY <1>2, <1>8 DEF Advances

LEMMA PayloadAdvances ==
  ASSUME IInv, Advances, NEW n \in Running,
         EndScan(n) \/ ReserveSlot(n) \/ PushSpawn(n)
  PROVE  Advances'
<1>1. /\ n \in Node /\ Node' = Node /\ n \notin resolved
      /\ UNCHANGED <<systems, entities, failed, aborted, resolved, scanned, hits,
                     applied>>
  BY DEF Running, EndScan, ReserveSlot, PushSpawn, frameVars, markVars, dbVars, Node
<1>2. /\ \A m \in Node : m # n => at'[m] = at[m]
      /\ at'[n] \in {"apply", "push"}
  BY <1>1, PassTypes DEF EndScan, ReserveSlot, PushSpawn
<1>3. scanned[n] = Len(entities) /\ at[n] # "wait"
  BY <1>1 DEF EndScan, ReserveSlot, PushSpawn, Advances, Progress
<1>4. ASSUME NEW m \in Node PROVE Progress(m)'
  <2>1. CASE m = n
    BY <2>1, <1>1, <1>2, <1>3 DEF Advances, Progress, Dead
  <2>2. CASE m # n
    BY <2>2, <1>1, <1>2 DEF Advances, Progress, Dead
  <2> QED  BY <2>1, <2>2
<1> QED  BY <1>1, <1>4 DEF Advances

LEMMA ApplyAdvances ==
  ASSUME IInv, Advances, NEW n \in Running, ApplyChange(n)
  PROVE  Advances'
<1>1. /\ n \in Node /\ Node' = Node /\ n \notin resolved
      /\ UNCHANGED <<systems, failed, aborted, resolved, at, scanned, hits>>
      /\ at[n] = "apply" /\ applied[n] < Len(hits[n]) /\ Permitted(systems[n])
      /\ \E e : entities' = [entities EXCEPT ![e] = Changed(@, systems[n])]
  BY DEF Running, ApplyChange, frameVars, markVars, Node
<1>2. Len(entities') = Len(entities)
  <2>1. systems[n] \in Catalog /\ entities \in Seq(Record)
    BY RunningInPass, PassTypes
  <2> QED  BY <1>1, <2>1, ChangeTable
<1>3. /\ \A m \in Node : m # n => applied'[m] = applied[m]
      /\ applied'[n] = applied[n] + 1
  BY <1>1, PassTypes DEF ApplyChange
<1>4. applied[n] \in Nat /\ hits[n] \in Seq(Nat) /\ Len(hits[n]) \in Nat
  BY <1>1, PassTypes
<1>5. applied[n] + 1 <= Len(hits[n])
  BY <1>1, <1>4
<1>6. ASSUME NEW m \in Node PROVE Progress(m)'
  <2>1. CASE m = n
    BY <2>1, <1>1, <1>2, <1>3, <1>5 DEF Advances, Progress, Dead
  <2>2. CASE m # n
    BY <2>2, <1>1, <1>2, <1>3 DEF Advances, Progress, Dead
  <2> QED  BY <2>1, <2>2
<1> QED  BY <1>1, <1>6 DEF Advances
-------------------------------------------------------------------------------
(* Histories *)

\* What is used of histories all the time.
LEMMA HistoryTypes ==
  ASSUME IInv, Advances, InTurn, NEW e \in DOMAIN entities
  PROVE  /\ before.entities[e] \in Record
         /\ \A n \in 0..Len(systems) : History(e)[n] \in Record
         /\ Touchers(e) \subseteq Node
<1>1. e \in DOMAIN before.entities
  BY DEF InTurn
<1>2. before.entities[e] \in Record /\ systems \in Seq(Catalog)
  BY <1>1, RecordFields, PassTypes
<1> QED  BY <1>2, FateTyped DEF History, Touchers

\* Who has touched an entity has started, found it and kept to its declaration.
LEMMA TouchedFound ==
  ASSUME IInv, Advances, NEW e, NEW k \in Touchers(e)
  PROVE  /\ k \in Node /\ at[k] # "wait" /\ at[k] # "scan" /\ Permitted(systems[k])
         /\ \E i \in DOMAIN hits[k] : hits[k][i] = e
<1>1. k \in Node /\ \E i \in 1..applied[k] : hits[k][i] = e
  BY DEF Touchers, Touched
<1>2. PICK i \in 1..applied[k] : hits[k][i] = e
  BY <1>1
<1>3. applied[k] \in Nat /\ hits[k] \in Seq(Nat) /\ Len(hits[k]) \in Nat
      /\ DOMAIN hits[k] = 1..Len(hits[k])
  BY <1>1, PassTypes
<1>4. applied[k] > 0 /\ applied[k] <= Len(hits[k])
  BY <1>1, <1>2, <1>3 DEF Advances, Progress
<1>5. i \in DOMAIN hits[k]
  BY <1>2, <1>3, <1>4
<1> QED  BY <1>1, <1>2, <1>4, <1>5 DEF Advances, Progress

\* A payload that looks at an entity sees what it would see in its turn.
LEMMA ScansInTurn ==
  ASSUME BlastInv, Advances, InTurn, Plain, NEW n \in Running,
         NEW e \in DOMAIN entities, at[n] = "scan"
  PROVE  Matches(entities[e], systems[n].query)
           <=> Matches(History(e)[n - 1], systems[n].query)
<1>1. /\ phase = "pass" /\ n \in Node /\ n \in 1..Len(systems) /\ IInv
      /\ Len(systems) \in Nat /\ systems \in Seq(Catalog)
  BY RunningInPass, PassTypes DEF BlastInv
<1>2. before.entities[e] \in Record
  BY <1>1, HistoryTypes
<1>3. PICK q : q = systems[n].query
  OBVIOUS
<1>4. PICK W : W = Touchers(e)
  OBVIOUS
<1>5. n \notin W
  BY <1>1, <1>4, TouchedFound
<1>6. ASSUME NEW k \in W, n - 1 < k, k <= Len(systems)
      PROVE  /\ systems[k].effect \in {"add", "remove"} =>
                  systems[k].operand \intersect q = {}
             /\ systems[k].effect = "destroy" =>
                  ~Matches(Fate(before.entities[e], systems, W)[k - 1], q)
  <2>1. /\ k \in Node /\ at[k] # "wait" /\ Permitted(systems[k])
        /\ \E i \in DOMAIN hits[k] : hits[k][i] = e
    BY <1>1, <1>4, TouchedFound
  <2>2. n < k /\ k - 1 \in 0..Len(systems)
    <3>1. k \in 1..Len(systems) /\ k # n
      BY <1>1, <1>5, <2>1, PassTypes
    <3> QED  BY <3>1, <1>1, <1>6
  <2>3. Jit(k) \intersect Declared(n) = {}
    BY <1>1, <2>1, <2>2, Independent
  <2>4. PICK i \in DOMAIN hits[k] : hits[k][i] = e
    BY <2>1
  <2>5. PICK c : c = k - 1
    OBVIOUS
  <2>6. /\ systems[k].effect \in {"add", "remove"} =>
             systems[k].operand \intersect systems[n].query = {}
        /\ systems[k].effect = "destroy" =>
             ~Matches(Fate(before.entities[hits[k][i]], systems, W)[c], systems[n].query)
    BY <1>1, <2>1, <2>2, <2>3, <2>5, Escapes
  <2> QED  BY <1>3, <2>4, <2>5, <2>6
<1>7. PICK a : a = n - 1
  OBVIOUS
<1>8. PICK b : b = Len(systems)
  OBVIOUS
<1>9. a \in 0..Len(systems) /\ b \in a..Len(systems)
  BY <1>1, <1>7, <1>8
<1>10. Matches(Fate(before.entities[e], systems, W)[b], q)
         <=> Matches(Fate(before.entities[e], systems, W)[a], q)
  <2>1. \A k \in W : a < k /\ k <= b =>
           /\ systems[k].effect \in {"add", "remove"} =>
                systems[k].operand \intersect q = {}
           /\ systems[k].effect = "destroy" =>
                ~Matches(Fate(before.entities[e], systems, W)[k - 1], q)
    BY <1>6, <1>7, <1>8
  <2> QED  BY <1>1, <1>2, <1>9, <2>1, FateUnnoticed
<1>11. entities[e] = Fate(before.entities[e], systems, W)[b]
  BY <1>4, <1>8 DEF InTurn, History
<1>12. History(e)[n - 1] = Fate(before.entities[e], systems, W)[a]
  BY <1>4, <1>7 DEF History
<1> QED  BY <1>3, <1>10, <1>11, <1>12

\* When a payload changes the next entity it has found, the change is inserted
\* at its turn: the history ends in the new record, and no query notices.
LEMMA Inserted ==
  ASSUME BlastInv, Advances, InTurn, Plain, NEW n \in Running, at[n] = "apply",
         applied[n] < Len(hits[n]), Permitted(systems[n]),
         NEW e, e = hits[n][applied[n] + 1],
         NEW V, V = Touchers(e) \union {n},
         NEW after, after = Fate(before.entities[e], systems, V)
  PROVE  /\ e \in DOMAIN entities /\ e \notin Touched(n)
         /\ after[Len(systems)] = Changed(entities[e], systems[n])
         /\ \A m \in Node : at[m] # "wait" =>
              (Matches(after[m - 1], systems[m].query)
                 <=> Matches(History(e)[m - 1], systems[m].query))
<1>1. /\ phase = "pass" /\ n \in Node /\ n \in 1..Len(systems) /\ IInv
      /\ Len(systems) \in Nat /\ systems \in Seq(Catalog) /\ systems[n] \in Catalog
      /\ Node = 1..Len(systems)
  BY RunningInPass, PassTypes DEF BlastInv
<1>2. /\ applied[n] \in Nat /\ hits[n] \in Seq(Nat) /\ scanned[n] \in Nat
      /\ Len(entities) \in Nat /\ DOMAIN entities = 1..Len(entities)
      /\ DOMAIN hits[n] = 1..Len(hits[n]) /\ Len(hits[n]) \in Nat
  BY <1>1, PassTypes
<1>3. applied[n] + 1 \in DOMAIN hits[n]
  BY <1>2
<1>4. /\ \A k \in DOMAIN hits[n] : hits[n][k] \in 1..scanned[n]
      /\ \A i, k \in DOMAIN hits[n] : i < k => hits[n][i] < hits[n][k]
      /\ scanned[n] <= Len(entities) /\ applied[n] <= Len(hits[n])
  BY <1>1 DEF Advances, Progress
<1>5. e \in DOMAIN entities
  <2>1. e \in 1..scanned[n]
    BY <1>3, <1>4
  <2> QED  BY <2>1, <1>2, <1>4
<1>6. e \notin Touched(n)
  <2> SUFFICES ASSUME NEW k \in 1..applied[n], hits[n][k] = e PROVE FALSE
    BY DEF Touched
  <2>1. k \in DOMAIN hits[n] /\ k < applied[n] + 1
    BY <1>2, <1>4
  <2>2. hits[n][k] < e
    BY <2>1, <1>3, <1>4
  <2>3. e \in Nat
    BY <1>2, <1>5
  <2> QED  BY <2>2, <2>3
<1>7. PICK W : W = Touchers(e)
  OBVIOUS
<1>8. PICK r : r = before.entities[e]
  OBVIOUS
<1>9. r \in Record /\ n \notin W
  BY <1>1, <1>5, <1>6, <1>7, <1>8, HistoryTypes DEF Touchers
<1>10. PICK F : F = Fate(r, systems, W)
  OBVIOUS
<1>11. after = Fate(r, systems, V) /\ History(e) = F
  BY <1>7, <1>8, <1>10 DEF History
<1>12. ASSUME NEW k \in W, n < k
       PROVE  ~Opposed(systems[n], systems[k])
  <2>1. k \in Node /\ at[k] # "wait" /\ Permitted(systems[k])
    BY <1>1, <1>7, TouchedFound
  <2>2. Jit(k) \intersect Declared(n) = {}
    BY <1>1, <1>12, <2>1, Independent
  <2>3. systems[k].effect \in {"add", "remove"} => systems[k].operand \subseteq Jit(k)
    BY <2>1, WritesDeclared DEF Jit
  <2>4. systems[n].effect \in {"add", "remove"} => systems[n].operand \subseteq Declared(n)
    BY DEF Declared, Permitted, StaticWrite
  <2> QED  BY <2>2, <2>3, <2>4 DEF Opposed
<1>13. ASSUME NEW c \in n..Len(systems)
       PROVE  after[c] = Changed(F[c], systems[n])
  <2>1. \A k \in 1..Len(systems) : k \in V <=> k \in W \/ k = n
    BY <1>7
  <2>2. \A k \in W : n < k /\ k <= c => ~Opposed(systems[n], systems[k])
    BY <1>12
  <2>3. Fate(r, systems, V)[c] = Changed(Fate(r, systems, W)[c], systems[n])
    BY <1>1, <1>9, <2>1, <2>2, FateInserts
  <2> QED  BY <2>3, <1>10, <1>11
<1>14. after[Len(systems)] = Changed(entities[e], systems[n])
  <2>1. Len(systems) \in n..Len(systems)
    BY <1>1
  <2>2. entities[e] = F[Len(systems)]
    BY <1>5, <1>11 DEF InTurn
  <2> QED  BY <2>1, <2>2, <1>13
<1>15. ASSUME NEW m \in Node, at[m] # "wait"
       PROVE  Matches(after[m - 1], systems[m].query) <=> Matches(F[m - 1], systems[m].query)
  <2>1. PICK c : c = m - 1
    OBVIOUS
  <2>2. c \in 0..Len(systems) /\ m \in Nat /\ n \in Nat
    BY <1>1, <2>1
  <2>3. CASE m <= n
    <3>1. SameUpTo(c, V, W)
      BY <1>1, <1>7, <2>1, <2>2, <2>3 DEF SameUpTo
    <3>2. Len(systems) \in Nat
      BY <1>1
    <3>3. c \in 0..Len(systems)
      BY <2>2
    <3>4. Fate(r, systems, V)[c] = Fate(r, systems, W)[c]
      <4>1. PICK list : list = systems
        OBVIOUS
      <4>2. Len(list) \in Nat /\ c \in 0..Len(list)
        BY <3>2, <3>3, <4>1
      <4>3. Fate(r, list, V)[c] = Fate(r, list, W)[c]
        BY <3>1, <4>2, FatePrefix
      <4> QED  BY <4>1, <4>3
    <3> QED  BY <3>4, <2>1, <1>10, <1>11
  <2>4. CASE n < m
    <3>1. c \in n..Len(systems)
      BY <1>1, <2>1, <2>2, <2>4
    <3>2. after[c] = Changed(F[c], systems[n])
      BY <3>1, <1>13
    <3>3. Jit(n) \intersect Declared(m) = {}
      BY <1>1, <1>15, <2>4, Independent
    <3>4. /\ systems[n].effect \in {"add", "remove"} =>
               systems[n].operand \intersect systems[m].query = {}
          /\ systems[n].effect = "destroy" =>
               ~Matches(Fate(before.entities[hits[n][applied[n] + 1]], systems, W)[c],
                        systems[m].query)
      BY <1>1, <1>3, <2>2, <3>3, Escapes
    <3>5. systems[n].effect = "destroy" => ~Matches(F[c], systems[m].query)
      BY <3>4, <1>8, <1>10
    <3>6. F[c] \in Record
      BY <1>1, <1>9, <1>10, <2>2, FateTyped
    <3>7. Matches(Changed(F[c], systems[n]), systems[m].query)
            <=> Matches(F[c], systems[m].query)
      BY <1>1, <3>4, <3>5, <3>6, Unnoticed
    <3> QED  BY <2>1, <3>2, <3>7
  <2> QED  BY <2>2, <2>3, <2>4
<1> QED  BY <1>5, <1>6, <1>11, <1>14, <1>15
-------------------------------------------------------------------------------
(* The table is at the end of its histories *)

\* Steps that neither look for entities nor change any.
LEMMA UndisturbedInTurn ==
  ASSUME InTurn, UNCHANGED <<systems, entities, hits, applied, scanned, before>>
  PROVE  InTurn'
<1>1. Node' = Node /\ \A n : Touched(n)' = Touched(n)
  BY DEF Node, Touched
<1>2. \A e : Touchers(e)' = Touchers(e)
  BY <1>1 DEF Touchers
<1>3. \A e : History(e)' = History(e)
  BY <1>2 DEF History
<1>4. \A n \in Node : FoundInTurn(n)'
  BY <1>3 DEF InTurn, FoundInTurn
<1> QED  BY <1>1, <1>3, <1>4 DEF InTurn

LEMMA ScanInTurn ==
  ASSUME BlastInv, Advances, InTurn, Plain, NEW n \in Running, ScanRecord(n)
  PROVE  InTurn'
<1>0. IInv
  BY DEF BlastInv
<1>1. PICK x : x = scanned[n] + 1
  OBVIOUS
<1>2. /\ n \in Node /\ Node' = Node /\ at[n] = "scan" /\ scanned[n] < Len(entities)
      /\ UNCHANGED <<systems, entities, applied, before>>
  BY DEF Running, ScanRecord, frameVars, dbVars, Node
<1>3. /\ \A m \in Node : m # n => scanned'[m] = scanned[m] /\ hits'[m] = hits[m]
      /\ scanned'[n] = x
      /\ hits'[n] = IF Matches(entities[x], systems[n].query)
                    THEN Append(hits[n], x) ELSE hits[n]
  BY <1>0, <1>1, <1>2, PassTypes DEF ScanRecord
<1>4. /\ hits[n] \in Seq(Nat) /\ scanned[n] \in Nat /\ Len(entities) \in Nat
      /\ applied[n] = 0 /\ DOMAIN entities = 1..Len(entities)
  BY <1>0, <1>2, PassTypes DEF Advances, Progress
<1>5. x \in DOMAIN entities /\ 1..x = 1..scanned[n] \union {x} /\ x \notin 1..scanned[n]
  BY <1>1, <1>2, <1>4
<1>6. ASSUME NEW m \in Node PROVE Touched(m)' = Touched(m)
  <2>1. CASE m = n
    <3>1. 1..applied[n] = {} /\ 1..applied'[n] = {}
      BY <1>2, <1>4
    <3>2. Touched(n)' = {} /\ Touched(n) = {}
      BY <3>1 DEF Touched
    <3> QED  BY <2>1, <3>2
  <2>2. CASE m # n
    <3>1. hits'[m] = hits[m] /\ applied'[m] = applied[m]
      BY <2>2, <1>2, <1>3
    <3> QED  BY <3>1 DEF Touched
  <2> QED  BY <2>1, <2>2
<1>7. \A e : Touchers(e)' = Touchers(e)
  BY <1>2, <1>6 DEF Touchers
<1>8. \A e : History(e)' = History(e)
  BY <1>2, <1>7 DEF History
<1>9. FoundInTurn(n)'
  <2>1. Matches(entities[x], systems[n].query)
          <=> Matches(History(x)[n - 1], systems[n].query)
    BY <1>2, <1>5, ScansInTurn
  <2>2. \A e \in 1..scanned[n] :
          e \in ToSet(hits[n]) <=> Matches(History(e)[n - 1], systems[n].query)
    BY <1>2 DEF InTurn, FoundInTurn
  <2>3. \A e \in ToSet(hits[n]) : e \in 1..scanned[n]
    BY <1>2 DEF ToSet, Advances, Progress
  <2>4. ToSet(hits'[n]) = IF Matches(entities[x], systems[n].query)
                          THEN ToSet(hits[n]) \union {x} ELSE ToSet(hits[n])
    <3>1. PICK s : s = hits[n]
      OBVIOUS
    <3>2. PICK t : t = Append(s, x)
      OBVIOUS
    <3>3. /\ DOMAIN s = 1..Len(s) /\ DOMAIN t = 1..(Len(s) + 1) /\ Len(s) \in Nat
          /\ t[Len(s) + 1] = x /\ \A k \in 1..Len(s) : t[k] = s[k]
      BY <3>1, <3>2, <1>4
    <3>4. DOMAIN t = DOMAIN s \union {Len(s) + 1}
      BY <3>3
    <3>5. ToSet(t) = ToSet(s) \union {x}
      BY <3>3, <3>4 DEF ToSet
    <3> QED  BY <3>1, <3>2, <3>5, <1>3
  <2>5. ASSUME NEW e \in 1..x
        PROVE  e \in ToSet(hits'[n]) <=> Matches(History(e)[n - 1], systems[n].query)
    <3>1. CASE e = x
      BY <3>1, <2>1, <2>3, <2>4, <1>5
    <3>2. CASE e \in 1..scanned[n]
      <4>1. e # x
        BY <3>2, <1>5
      <4> QED  BY <3>2, <4>1, <2>2, <2>4
    <3> QED  BY <3>1, <3>2, <1>5
  <2> QED  BY <2>5, <1>2, <1>3, <1>8 DEF FoundInTurn
<1>10. ASSUME NEW m \in Node, m # n PROVE FoundInTurn(m)'
  <2>1. FoundInTurn(m)
    BY DEF InTurn
  <2> QED  BY <2>1, <1>2, <1>3, <1>8, <1>10 DEF FoundInTurn
<1> QED  BY <1>2, <1>8, <1>9, <1>10 DEF InTurn

LEMMA ApplyInTurn ==
  ASSUME BlastInv, Advances, InTurn, Plain, NEW n \in Running, ApplyChange(n)
  PROVE  InTurn'
<1>0. IInv
  BY DEF BlastInv
<1>1. PICK x : x = hits[n][applied[n] + 1]
  OBVIOUS
<1>2. /\ n \in Node /\ Node' = Node /\ at[n] = "apply" /\ applied[n] < Len(hits[n])
      /\ Permitted(systems[n])
      /\ UNCHANGED <<systems, scanned, hits, before>>
      /\ entities' = [entities EXCEPT ![x] = Changed(@, systems[n])]
  BY <1>1 DEF Running, ApplyChange, frameVars, Node
<1>3. /\ \A m \in Node : m # n => applied'[m] = applied[m]
      /\ applied'[n] = applied[n] + 1
  BY <1>0, <1>2, PassTypes DEF ApplyChange
<1>4. PICK V : V = Touchers(x) \union {n}
  OBVIOUS
<1>5. PICK after : after = Fate(before.entities[x], systems, V)
  OBVIOUS
<1>6. /\ x \in DOMAIN entities /\ x \notin Touched(n)
      /\ after[Len(systems)] = Changed(entities[x], systems[n])
      /\ \A m \in Node : at[m] # "wait" =>
           (Matches(after[m - 1], systems[m].query)
              <=> Matches(History(x)[m - 1], systems[m].query))
  BY <1>1, <1>2, <1>4, <1>5, Inserted
<1>7. /\ \A m \in Node : m # n => Touched(m)' = Touched(m)
      /\ Touched(n)' = Touched(n) \union {x}
  <2>1. applied[n] \in Nat
    BY <1>0, <1>2, PassTypes
  <2>2. 1..(applied[n] + 1) = 1..applied[n] \union {applied[n] + 1}
    BY <2>1
  <2>3. Touched(n)' = {hits[n][k] : k \in 1..applied[n] \union {applied[n] + 1}}
    BY <1>2, <1>3, <2>2 DEF Touched
  <2>4. Touched(n)' = Touched(n) \union {x}
    BY <1>1, <2>3 DEF Touched
  <2> QED  BY <2>4, <1>2, <1>3 DEF Touched
<1>8. /\ Touchers(x)' = V
      /\ \A e : e # x => Touchers(e)' = Touchers(e)
  BY <1>2, <1>4, <1>7 DEF Touchers
<1>9. /\ History(x)' = after
      /\ \A e : e # x => History(e)' = History(e)
  BY <1>2, <1>5, <1>8 DEF History
<1>10. DOMAIN entities' = DOMAIN entities
  BY <1>2
<1>11. ASSUME NEW e \in DOMAIN entities
       PROVE  entities'[e] = History(e)'[Len(systems)]
  <2>1. CASE e = x
    BY <2>1, <1>2, <1>6, <1>9
  <2>2. CASE e # x
    BY <2>2, <1>2, <1>9 DEF InTurn
  <2> QED  BY <2>1, <2>2
<1>12. ASSUME NEW m \in Node PROVE FoundInTurn(m)'
  <2>1. \A e \in 1..scanned[m] :
          e \in ToSet(hits[m]) <=> Matches(History(e)[m - 1], systems[m].query)
    BY DEF InTurn, FoundInTurn
  <2>2. CASE at[m] = "wait"
    <3>1. scanned[m] = 0
      BY <2>2 DEF Advances, Progress
    <3>2. 1..scanned'[m] = {}
      BY <1>2, <3>1
    <3> QED  BY <3>2 DEF FoundInTurn
  <2>3. CASE at[m] # "wait"
    <3>1. \A e : Matches(History(e)'[m - 1], systems[m].query)
                   <=> Matches(History(e)[m - 1], systems[m].query)
      BY <2>3, <1>6, <1>9
    <3> QED  BY <2>1, <3>1, <1>2 DEF FoundInTurn
  <2> QED  BY <2>2, <2>3
<1> QED  BY <1>2, <1>10, <1>11, <1>12 DEF InTurn

\* At the start of a pass nothing is done.
LEMMA FateUntouched ==
  ASSUME NEW r, NEW list, Len(list) \in Nat, NEW W, \A k \in W : k \notin 1..Len(list)
  PROVE  Fate(r, list, W)[Len(list)] = r
<1>1. PICK F : F = Fate(r, list, W)
  OBVIOUS
<1>2. Unfolds(F, r, list, W)
  BY <1>1, FateUnfolds
<1>3. F[0] = r /\ \A k \in 1..Len(list) : F[k] = F[k - 1]
  BY <1>2 DEF Unfolds
<1> DEFINE Good == {k \in Nat : F[k] = r}
<1>4. 0 \in Good
  BY <1>3
<1>5. ASSUME NEW k \in (0 + 1)..Len(list), k - 1 \in Good PROVE k \in Good
  BY <1>3, <1>5
<1> HIDE DEF Good
<1>6. Len(list) \in Good
  BY <1>4, <1>5, HandedOn
<1> QED  BY <1>1, <1>6 DEF Good

LEMMA BeginsInTurn ==
  ASSUME IInv, IInv', StartPass(entities', pending'), systems' = systems
  PROVE  Advances' /\ InTurn'
<1>1. /\ Node' = Node /\ before'.entities = entities' /\ Len(systems) \in Nat
      /\ Node = 1..Len(systems) /\ Len(entities') \in Nat
  <2>1. before'.entities = entities'
    BY DEF StartPass
  <2>2. Len(entities') \in Nat
    BY DEF IInv, TypeOK, DatabaseTypes
  <2> QED  BY <2>1, <2>2, PassTypes DEF Node
<1>2. \A n \in Node : /\ at'[n] = "wait" /\ scanned'[n] = 0 /\ hits'[n] = <<>>
                      /\ applied'[n] = 0
  BY PassTypes DEF StartPass, ResetPayloads, Everywhere
<1>3. ASSUME NEW n \in Node PROVE Progress(n)'
  BY <1>1, <1>2 DEF Progress
<1>4. ASSUME NEW n \in Node PROVE FoundInTurn(n)'
  <2>1. 1..scanned'[n] = {}
    BY <1>2
  <2> QED  BY <2>1 DEF FoundInTurn
<1>5. \A e : Touchers(e)' = {}
  <2>1. \A n \in Node : Touched(n)' = {}
    BY <1>2 DEF Touched
  <2> QED  BY <2>1, <1>1 DEF Touchers
<1>6. ASSUME NEW e \in DOMAIN entities' PROVE entities'[e] = History(e)'[Len(systems)]
  <2>1. History(e)' = Fate(entities'[e], systems, {})
    BY <1>1, <1>5 DEF History
  <2> QED  BY <2>1, <1>1, FateUntouched
<1> QED  BY <1>1, <1>3, <1>4, <1>6 DEF Advances, InTurn
\* No step disturbs the serial order.
LEMMA SerialStep ==
  ASSUME SerialInv, [Next]_vars
  PROVE  SerialInv'
<1>1. BlastInv /\ IInv /\ IInv' /\ BlastInv'
  BY BlastStep, StepKeeps DEF SerialInv, BlastInv
<1>2. phase = "pass" => Advances /\ (Plain => InTurn)
  BY DEF SerialInv, Advances
<1> SUFFICES ASSUME phase' = "pass"
             PROVE  Advances' /\ (Plain' => InTurn')
  BY <1>1 DEF SerialInv, Advances
<1>3. CASE HostStep
  <2>1. phase' # "pass"
    BY <1>3 DEF HostStep, RegisterSystem, ClearSystems, CreateEntity,
                ClearDatabase, InFrame, frameVars
  <2> QED  BY <2>1
<1>4. CASE BeginFrame
  <2>1. StartPass(entities', pending') /\ systems' = systems
    BY <1>4 DEF BeginFrame, dbVars
  <2> QED  BY <1>1, <2>1, BeginsInTurn
<1>5. CASE ReEnter
  <2>1. StartPass(entities', pending') /\ systems' = systems
    BY <1>5 DEF ReEnter
  <2> QED  BY <1>1, <2>1, BeginsInTurn
<1>6. CASE IdsExhausted \/ EndPass
  <2>1. phase' # "pass"
    BY <1>6 DEF IdsExhausted, EndPass
  <2> QED  BY <2>1
<1>7. ASSUME systems' = systems
      PROVE  Plain' <=> Plain
  BY <1>7 DEF Plain, DeletersOnly, Node
<1>8. ASSUME NEW n \in Node, SystemStep(n)
      PROVE  Advances' /\ (Plain' => InTurn')
  <2>1. phase = "pass"
    BY <1>1, <1>8, RunningInPass DEF SystemStep, Start, Skip, ScanRecord, EndScan,
       ApplyChange, ReserveSlot, PushSpawn, Finish, Throw
  <2>2. CASE ScanRecord(n)
    <3>1. n \in Running /\ systems' = systems
      BY <2>2 DEF ScanRecord, frameVars
    <3>2. Advances'
      BY <1>1, <1>2, <2>1, <2>2, <3>1, ScanAdvances
    <3> QED  BY <1>1, <1>2, <1>7, <2>1, <2>2, <3>1, <3>2, ScanInTurn
  <2>3. CASE ApplyChange(n)
    <3>1. n \in Running /\ systems' = systems
      BY <2>3 DEF ApplyChange, frameVars
    <3>2. Advances'
      BY <1>1, <1>2, <2>1, <2>3, <3>1, ApplyAdvances
    <3> QED  BY <1>1, <1>2, <1>7, <2>1, <2>3, <3>1, <3>2, ApplyInTurn
  <2>4. CASE \/ Start(n) \/ Skip(n) \/ EndScan(n) \/ ReserveSlot(n)
             \/ PushSpawn(n) \/ Finish(n) \/ Throw(n)
    <3>1. UNCHANGED <<systems, entities, hits, applied, scanned, before>>
      <4> USE DEF frameVars, dbVars, payloadVars
      <4>1. CASE Start(n) \/ EndScan(n) \/ ReserveSlot(n)
        BY <4>1 DEF Start, EndScan, ReserveSlot
      <4>2. CASE PushSpawn(n)
        BY <4>2 DEF PushSpawn
      <4>3. CASE Skip(n) \/ Finish(n) \/ Throw(n)
        BY <4>3 DEF Skip, Finish, Throw
      <4> QED  BY <2>4, <4>1, <4>2, <4>3
    <3>2. Plain' => InTurn'
      BY <1>2, <1>7, <2>1, <3>1, UndisturbedInTurn
    <3>3. Advances'
      <4>1. CASE Start(n)
        BY <1>1, <1>2, <2>1, <4>1, StartAdvances
      <4>2. CASE EndScan(n) \/ ReserveSlot(n) \/ PushSpawn(n)
        <5>1. n \in Running
          BY <4>2 DEF EndScan, ReserveSlot, PushSpawn
        <5> QED  BY <1>1, <1>2, <2>1, <4>2, <5>1, PayloadAdvances
      <4>3. CASE Skip(n)
        <5>1. at[n] = "wait"
          BY <1>2, <2>1, <4>3 DEF Skip, Advances, Progress
        <5>2. n \notin resolved /\ Resolve(n, FALSE)
              /\ UNCHANGED <<frameVars, dbVars, payloadVars, before>>
          BY <4>3 DEF Skip
        <5> QED  BY <1>1, <1>2, <2>1, <5>1, <5>2, ResolveAdvances
      <4>4. CASE Finish(n)
        <5>1. n \notin resolved /\ Resolve(n, FALSE) /\ at[n] = "apply"
              /\ applied[n] = Len(hits[n])
              /\ UNCHANGED <<frameVars, dbVars, payloadVars, before>>
          BY <4>4 DEF Finish, Running
        <5> QED  BY <1>1, <1>2, <2>1, <5>1, ResolveAdvances
      <4>5. CASE Throw(n)
        <5>1. n \notin resolved /\ Resolve(n, TRUE)
              /\ UNCHANGED <<frameVars, dbVars, payloadVars, before>>
          BY <4>5 DEF Throw, Running
        <5> QED  BY <1>1, <1>2, <2>1, <5>1, ResolveAdvances
      <4> QED  BY <2>4, <4>1, <4>2, <4>3, <4>4, <4>5
    <3> QED  BY <3>2, <3>3
  <2> QED  BY <1>8, <2>2, <2>3, <2>4 DEF SystemStep
<1>9. CASE UNCHANGED vars
  <2>1. UNCHANGED <<phase, systems, entities, failed, aborted, resolved, at, hits,
                    applied, scanned, before>>
    BY <1>9 DEF vars, frameVars, markVars, dbVars, payloadVars
  <2>2. Advances => Advances'
    BY <2>1 DEF Advances, Progress, Node, Dead, Permitted
  <2> QED  BY <1>2, <1>7, <2>1, <2>2, UndisturbedInTurn
<1> QED  BY <1>3, <1>4, <1>5, <1>6, <1>8, <1>9 DEF Next, FrameStep
-------------------------------------------------------------------------------
(* The serial run *)

\* In an increasing list the j-th element has rank j.
LEMMA Rank ==
  ASSUME NEW s \in Seq(Nat), \A i, k \in DOMAIN s : i < k => s[i] < s[k],
         NEW j \in DOMAIN s
  PROVE  Cardinality({d \in ToSet(s) : d <= s[j]}) = j
<1>1. /\ DOMAIN s = 1..Len(s) /\ Len(s) \in Nat /\ j \in Nat /\ j >= 1
      /\ \A i \in DOMAIN s : s[i] \in Nat
  OBVIOUS
<1> DEFINE Low == {d \in ToSet(s) : d <= s[j]}
           f == [i \in 1..j |-> s[i]]
<1>2. \A i \in 1..j : i \in DOMAIN s /\ s[i] <= s[j]
  BY <1>1
<1>3. \A d \in Low : \E i \in 1..j : s[i] = d
  <2> SUFFICES ASSUME NEW d \in Low PROVE \E i \in 1..j : s[i] = d
    OBVIOUS
  <2>1. PICK i \in DOMAIN s : s[i] = d
    BY DEF ToSet
  <2>2. s[i] <= s[j]
    BY <2>1
  <2>3. ~(j < i)
    BY <1>1, <2>1, <2>2
  <2> QED  BY <1>1, <2>1, <2>3
<1>4. \A i \in 1..j : s[i] \in Low
  BY <1>2 DEF ToSet
<1>5. \A i, k \in 1..j : s[i] = s[k] => i = k
  BY <1>1, <1>2
<1>6. f \in Bijection(1..j, Low)
  <2> HIDE DEF Low
  <2>1. f \in [1..j -> Low]
    BY <1>4
  <2>2. \A i \in 1..j : f[i] = s[i]
    OBVIOUS
  <2> HIDE DEF f
  <2>3. DOMAIN f = 1..j
    BY <2>1
  <2>4. IsInjective(f)
    BY <1>5, <2>2, <2>3 DEF IsInjective
  <2> QED  BY <1>3, <2>1, <2>2, <2>4 DEF Bijection, Injection, Surjection
<1> HIDE DEF Low, f
<1>7. IsFiniteSet(1..j) /\ Cardinality(1..j) = j
  BY <1>1, FS_Interval
<1>8. ExistsBijection(1..j, Low)
  BY <1>6 DEF ExistsBijection
<1>9. Cardinality(Low) = Cardinality(1..j)
  BY <1>7, <1>8, FS_Bijection
<1> QED  BY <1>7, <1>9 DEF Low

\* The database once it has been the turn of the first k systems.
Row(k) == [e \in DOMAIN before.entities |-> History(e)[k]]

PassOver == phase = "pass" /\ resolved = Node /\ Plain

\* At the end a payload that got past its query has found what it should.
LEMMA FoundAll ==
  ASSUME SerialInv, PassOver, NEW n \in Node, at[n] \in {"apply", "push"}
  PROVE  ToSet(hits[n]) = QueryEntities(Row(n - 1), systems[n].query)
<1>1. /\ IInv /\ Progress(n) /\ FoundInTurn(n) /\ DOMAIN entities = DOMAIN before.entities
  BY DEF SerialInv, BlastInv, PassOver, InTurn
<1>2. scanned[n] = Len(entities) /\ DOMAIN before.entities = 1..Len(entities)
  BY <1>1, PassTypes DEF Progress
<1>3. \A e \in ToSet(hits[n]) : e \in 1..scanned[n]
  BY <1>1 DEF ToSet, Progress
<1>4. \A e \in DOMAIN before.entities : Row(n - 1)[e] = History(e)[n - 1]
  BY DEF Row
<1>5. DOMAIN Row(n - 1) = DOMAIN before.entities
  BY DEF Row
<1> QED  BY <1>1, <1>2, <1>3, <1>4, <1>5 DEF FoundInTurn, QueryEntities

\* What a run alone reaches is what the payload has changed.
LEMMA Reaches ==
  ASSUME SerialInv, PassOver, NEW n \in Node, Ran(n)
  PROVE  {e \in QueryEntities(Row(n - 1), systems[n].query) :
            failed[n] => Cardinality({d \in QueryEntities(Row(n - 1), systems[n].query) :
                                        d <= e}) <= applied[n]}
           = Touched(n)
<1>1. /\ IInv /\ Progress(n) /\ n \in resolved /\ DOMAIN entities = DOMAIN before.entities
  BY DEF SerialInv, BlastInv, PassOver, InTurn
<1>2. PICK Found : Found = QueryEntities(Row(n - 1), systems[n].query)
  OBVIOUS
<1>3. /\ hits[n] \in Seq(Nat) /\ applied[n] \in Nat /\ applied[n] <= Len(hits[n])
      /\ DOMAIN hits[n] = 1..Len(hits[n]) /\ Len(hits[n]) \in Nat
      /\ failed[n] \in BOOLEAN /\ at[n] \in {"scan", "apply", "push"}
      /\ \A i, k \in DOMAIN hits[n] : i < k => hits[n][i] < hits[n][k]
  BY <1>1, PassTypes DEF Progress, Ran
<1> SUFFICES {e \in Found : failed[n] => Cardinality({d \in Found : d <= e}) <= applied[n]}
               = Touched(n)
  BY <1>2
<1>4. CASE at[n] = "scan"
  <2>1. failed[n] /\ applied[n] = 0
    BY <1>1, <1>4 DEF Progress
  <2>2. 1..applied[n] = {}
    BY <2>1
  <2>3. Touched(n) = {}
    BY <2>2 DEF Touched
  <2>4. ASSUME NEW e \in Found PROVE ~(Cardinality({d \in Found : d <= e}) <= 0)
    <3>1. Found \subseteq 1..Len(entities) /\ Len(entities) \in Nat
      <4>1. Found \subseteq DOMAIN Row(n - 1)
        BY <1>2 DEF QueryEntities
      <4>2. DOMAIN Row(n - 1) = DOMAIN before.entities
        BY DEF Row
      <4> QED  BY <4>1, <4>2, <1>1, PassTypes
    <3>2. PICK Low : Low = {d \in Found : d <= e}
      OBVIOUS
    <3>3. e \in Low /\ Low \in SUBSET (1..Len(entities))
      <4>1. e \in 1..Len(entities) /\ e <= e
        BY <3>1
      <4>2. e \in Low
        BY <3>2, <4>1
      <4>3. Low \subseteq Found
        BY <3>2
      <4> QED  BY <3>1, <4>2, <4>3
    <3>4. IsFiniteSet(1..Len(entities))
      BY <3>1, FS_Interval
    <3>5. IsFiniteSet(Low)
      BY <3>3, <3>4, FS_Subset
    <3>6. Cardinality(Low) # 0 /\ Cardinality(Low) \in Nat
      BY <3>3, <3>5, FS_EmptySet, FS_CardinalityType
    <3> QED  BY <3>2, <3>6
  <2> QED  BY <2>1, <2>3, <2>4
<1>5. CASE at[n] \in {"apply", "push"}
  <2>1. Found = ToSet(hits[n])
    BY <1>2, <1>5, FoundAll
  <2>2. CASE ~failed[n]
    <3>1. applied[n] = Len(hits[n])
      BY <1>1, <1>5, <2>2 DEF Progress
    <3>2. Touched(n) = ToSet(hits[n])
      BY <3>1, <1>3 DEF Touched, ToSet
    <3> QED  BY <2>1, <2>2, <3>2
  <2>3. CASE failed[n]
    <3>1. \A j \in DOMAIN hits[n] : Cardinality({d \in Found : d <= hits[n][j]}) = j
      <4>1. PICK s : s = hits[n]
        OBVIOUS
      <4>2. s \in Seq(Nat) /\ \A i, k \in DOMAIN s : i < k => s[i] < s[k]
        BY <4>1, <1>3
      <4>3. \A j \in DOMAIN s : Cardinality({d \in ToSet(s) : d <= s[j]}) = j
        BY <4>2, Rank
      <4> QED  BY <4>1, <4>3, <2>1
    <3>2. \A e \in Found : \E j \in DOMAIN hits[n] : hits[n][j] = e
      BY <2>1 DEF ToSet
    <3>3. \A j \in DOMAIN hits[n] : hits[n][j] \in Found
      BY <2>1 DEF ToSet
    <3>4. ASSUME NEW e \in Found, Cardinality({d \in Found : d <= e}) <= applied[n]
          PROVE  e \in Touched(n)
      <4>1. PICK j \in DOMAIN hits[n] : hits[n][j] = e
        BY <3>2
      <4>2. j <= applied[n]
        BY <3>1, <3>4, <4>1
      <4>3. j \in 1..applied[n]
        BY <1>3, <4>2
      <4> QED  BY <4>1, <4>3 DEF Touched
    <3>5. ASSUME NEW e \in Touched(n)
          PROVE  e \in Found /\ Cardinality({d \in Found : d <= e}) <= applied[n]
      <4>1. PICK j \in 1..applied[n] : hits[n][j] = e
        BY DEF Touched
      <4>2. j \in DOMAIN hits[n] /\ j <= applied[n]
        BY <1>3
      <4> QED  BY <3>1, <3>3, <4>1, <4>2
    <3> QED  BY <2>3, <3>4, <3>5
  <2> QED  BY <1>3, <2>2, <2>3
<1> QED  BY <1>3, <1>4, <1>5

\* The turn of one system.
LEMMA OneTurn ==
  ASSUME SerialInv, PassOver, NEW n \in Node
  PROVE  Row(n) = IF Ran(n) THEN RunAlone(Row(n - 1), n) ELSE Row(n - 1)
<1>1. IInv /\ Progress(n)
  BY DEF SerialInv, BlastInv, PassOver
<1>2. Len(systems) \in Nat /\ n \in 1..Len(systems) /\ systems \in Seq(Catalog)
  BY <1>1, PassTypes
<1>3. ASSUME NEW e
      PROVE  History(e)[n] = IF e \in Touched(n)
                             THEN Changed(History(e)[n - 1], systems[n])
                             ELSE History(e)[n - 1]
  <2>1. PICK F : F = History(e)
    OBVIOUS
  <2>2. PICK W : W = Touchers(e)
    OBVIOUS
  <2>3. PICK r : r = before.entities[e]
    OBVIOUS
  <2>4. F = Fate(r, systems, W)
    BY <2>1, <2>2, <2>3 DEF History
  <2>5. Unfolds(F, r, systems, W)
    BY <2>4, <1>2, FateUnfolds
  <2>6. F[n] = IF n \in W THEN Changed(F[n - 1], systems[n]) ELSE F[n - 1]
    BY <2>5, <1>2 DEF Unfolds
  <2>7. n \in W <=> e \in Touched(n)
    BY <2>2 DEF Touchers
  <2> QED  BY <2>1, <2>6, <2>7
<1>4. CASE Ran(n)
  <2>1. DOMAIN Row(n - 1) = DOMAIN before.entities
    BY DEF Row
  <2>2. RunAlone(Row(n - 1), n) =
          [e \in DOMAIN before.entities |->
             IF e \in Touched(n) THEN Changed(Row(n - 1)[e], systems[n])
             ELSE Row(n - 1)[e]]
    BY <1>4, <2>1, Reaches DEF RunAlone
  <2>3. \A e \in DOMAIN before.entities : Row(n - 1)[e] = History(e)[n - 1]
    BY DEF Row
  <2>4. RunAlone(Row(n - 1), n) =
          [e \in DOMAIN before.entities |-> History(e)[n]]
    BY <2>2, <2>3, <1>3
  <2> QED  BY <1>4, <2>4 DEF Row
<1>5. CASE ~Ran(n)
  <2>1. applied[n] = 0
    BY <1>1, <1>5 DEF Ran, Progress
  <2>2. 1..applied[n] = {}
    BY <2>1
  <2>3. Touched(n) = {}
    BY <2>2 DEF Touched
  <2>4. \A e : History(e)[n] = History(e)[n - 1]
    BY <1>3, <2>3
  <2> QED  BY <1>5, <2>4 DEF Row
<1> QED  BY <1>4, <1>5

\* The recursion of Serial.
Runs(f) ==
  f = [n \in 0..Len(systems) |->
         IF n = 0 THEN before.entities
         ELSE IF Ran(n) THEN RunAlone(f[n - 1], n)
         ELSE f[n - 1]]

LEMMA SerialRows ==
  ASSUME SerialInv, PassOver
  PROVE  \A n \in 0..Len(systems) : Serial[n] = Row(n)
<1>1. Len(systems) \in Nat /\ Node = 1..Len(systems) /\ before.entities \in Seq(Record)
  BY PassTypes DEF SerialInv, BlastInv
<1>2. Row(0) = before.entities
  <2>1. ASSUME NEW e PROVE History(e)[0] = before.entities[e]
    <3>1. PICK F : F = History(e)
      OBVIOUS
    <3>2. PICK W : W = Touchers(e)
      OBVIOUS
    <3>3. PICK r : r = before.entities[e]
      OBVIOUS
    <3>4. F = Fate(r, systems, W)
      BY <3>1, <3>2, <3>3 DEF History
    <3>5. Unfolds(F, r, systems, W)
      BY <3>4, <1>1, FateUnfolds
    <3> QED  BY <3>1, <3>3, <3>5 DEF Unfolds
  <2>2. before.entities = [e \in DOMAIN before.entities |-> before.entities[e]]
    BY <1>1
  <2> QED  BY <2>1, <2>2 DEF Row
<1> DEFINE g == [k \in 0..Len(systems) |-> Row(k)]
<1>3. Runs(g)
  <2> DEFINE Rec(k) == IF k = 0 THEN before.entities
                       ELSE IF Ran(k) THEN RunAlone(g[k - 1], k)
                       ELSE g[k - 1]
  <2>1. ASSUME NEW k \in 0..Len(systems) PROVE g[k] = Rec(k)
    <3>1. g[k] = Row(k)
      OBVIOUS
    <3>2. CASE k = 0
      BY <3>1, <3>2, <1>2
    <3>3. CASE k # 0
      <4>1. k \in Node /\ k - 1 \in 0..Len(systems)
        BY <1>1, <3>3
      <4>2. g[k - 1] = Row(k - 1)
        BY <4>1
      <4>3. Row(k) = IF Ran(k) THEN RunAlone(Row(k - 1), k) ELSE Row(k - 1)
        BY <4>1, OneTurn
      <4> HIDE DEF g
      <4> QED  BY <3>1, <3>3, <4>2, <4>3
    <3> QED  BY <3>2, <3>3
  <2>2. g = [k \in 0..Len(systems) |-> g[k]]
    OBVIOUS
  <2> HIDE DEF g
  <2> QED  BY <2>1, <2>2 DEF Runs
<1> HIDE DEF g
<1> DEFINE S == CHOOSE f : Runs(f)
<1>4. Runs(S)
  BY <1>3
<1>5. Serial = S
  BY DEF Serial, Runs
<1> HIDE DEF S
<1>6. S[0] = before.entities
      /\ \A k \in 1..Len(systems) :
           S[k] = IF Ran(k) THEN RunAlone(S[k - 1], k) ELSE S[k - 1]
  <2>1. \A k \in 0..Len(systems) :
           S[k] = IF k = 0 THEN before.entities
                  ELSE IF Ran(k) THEN RunAlone(S[k - 1], k) ELSE S[k - 1]
    BY <1>4 DEF Runs
  <2>2. 0 \in 0..Len(systems) /\ \A k \in 1..Len(systems) : k \in 0..Len(systems) /\ k # 0
    BY <1>1
  <2> QED  BY <2>1, <2>2
<1> SUFFICES ASSUME NEW n \in 0..Len(systems) PROVE S[n] = Row(n)
  BY <1>5
<1> DEFINE Good == {k \in Nat : S[k] = Row(k)}
<1>7. 0 \in Good
  BY <1>2, <1>6
<1>8. ASSUME NEW k \in (0 + 1)..n, k - 1 \in Good PROVE k \in Good
  <2>1. k \in Node /\ k \in Nat /\ k \in 1..Len(systems)
    BY <1>1
  <2>2. Row(k) = IF Ran(k) THEN RunAlone(Row(k - 1), k) ELSE Row(k - 1)
    BY <2>1, OneTurn
  <2>3. S[k - 1] = Row(k - 1)
    BY <1>8
  <2> QED  BY <2>1, <2>2, <2>3, <1>6
<1> HIDE DEF Good
<1>9. n \in Good
  BY <1>7, <1>8, HandedOn
<1> QED  BY <1>9 DEF Good

LEMMA SerialOver == SerialInv => SerialEquivalence
<1> SUFFICES ASSUME SerialInv, PassOver
             PROVE  /\ entities = Serial[Len(systems)]
                    /\ \A n \in Node : Ran(n) /\ ~failed[n] =>
                         ToSet(hits[n]) = QueryEntities(Serial[n - 1], systems[n].query)
  BY DEF SerialEquivalence, PassOver
<1>1. /\ IInv /\ DOMAIN entities = DOMAIN before.entities
      /\ \A e \in DOMAIN entities : entities[e] = History(e)[Len(systems)]
  BY DEF SerialInv, BlastInv, PassOver, InTurn
<1>2. Len(systems) \in Nat /\ Node = 1..Len(systems) /\ entities \in Seq(Record)
  BY <1>1, PassTypes
<1>3. entities = Serial[Len(systems)]
  <2>1. entities = [e \in DOMAIN entities |-> entities[e]]
    BY <1>2
  <2>2. Serial[Len(systems)] = Row(Len(systems))
    BY <1>2, SerialRows
  <2> QED  BY <2>1, <2>2, <1>1 DEF Row
<1>4. ASSUME NEW n \in Node, Ran(n), ~failed[n]
      PROVE  ToSet(hits[n]) = QueryEntities(Serial[n - 1], systems[n].query)
  <2>1. n \in resolved /\ Progress(n)
    BY DEF SerialInv, PassOver
  <2>2. at[n] \in {"apply", "push"}
    BY <1>1, <1>2, <1>4, <2>1, PassTypes DEF Progress, Ran
  <2>3. n - 1 \in 0..Len(systems)
    BY <1>2
  <2>4. Serial[n - 1] = Row(n - 1)
    BY <2>3, SerialRows
  <2> QED  BY <2>2, <2>4, FoundAll
<1> QED  BY <1>3, <1>4

LEMMA SerialStarts == Init => SerialInv
<1>1. Init => phase # "pass"
  BY DEF Init
<1>2. Init => OnlyShrinks /\ HitsForeseen
  BY <1>1 DEF OnlyShrinks, HitsForeseen
<1> QED  BY <1>1, <1>2, InitInv DEF SerialInv, BlastInv

\* A plain pass leaves the entities that its systems leave when they run one by
\* one in the order of registration, each as far as it got, and a system that
\* did not throw found what it finds then: payloads that the graph of
\* build_topological_graph lets overlap cannot be told from payloads in a row.
THEOREM RunsSerially == Spec => []SerialEquivalence
<1>1. Init => SerialInv
  BY SerialStarts
<1>2. SerialInv /\ [Next]_vars => SerialInv'
  BY SerialStep
<1>3. SerialInv => SerialEquivalence
  BY SerialOver
<1> QED  BY <1>1, <1>2, <1>3, PTL DEF Spec
-------------------------------------------------------------------------------
(* The spawn queue *)

\* What the first n systems of `list' have staged, `count' says how much.
StagedBelow(list, count) ==
  LET upTo[n \in 0..Len(list)] ==
        IF n = 0 THEN <<>>
        ELSE upTo[n - 1] \o [k \in 1..count[n] |-> CHOOSE m \in list[n].spawns : TRUE]
  IN  upTo

\* The recursion of StagedBelow, up to n.
Stages(f, list, count, n) ==
  f = [i \in 0..n |->
         IF i = 0 THEN <<>>
         ELSE f[i - 1] \o [k \in 1..count[i] |-> CHOOSE m \in list[i].spawns : TRUE]]

LEMMA StagesExist ==
  ASSUME NEW list, NEW count
  PROVE  \A n \in Nat : \E f : Stages(f, list, count, n)
<1> DEFINE Bad == {n \in Nat : ~\E f : Stages(f, list, count, n)}
           Own(i) == [k \in 1..count[i] |-> CHOOSE m \in list[i].spawns : TRUE]
<1> SUFFICES ASSUME Bad # {} PROVE FALSE
  OBVIOUS
<1>1. PICK n \in Bad : \A i \in 0..(n - 1) : i \notin Bad
  <2>1. Bad \in SUBSET Nat
    OBVIOUS
  <2> HIDE DEF Bad
  <2> QED  BY <2>1, Least
<1>2. n \in Nat /\ ~\E f : Stages(f, list, count, n)
  OBVIOUS
<1>0. \A f, b : Stages(f, list, count, b) <=>
        f = [i \in 0..b |-> IF i = 0 THEN <<>> ELSE f[i - 1] \o Own(i)]
  BY DEF Stages
<1> HIDE DEF Own
<1>3. CASE n = 0
  <2> DEFINE f == [i \in 0..0 |-> <<>>]
  <2>1. f = [i \in 0..0 |-> IF i = 0 THEN <<>> ELSE f[i - 1] \o Own(i)]
    OBVIOUS
  <2> QED  BY <1>0, <1>2, <1>3, <2>1
<1>4. CASE n # 0
  <2>1. n - 1 \in Nat /\ n - 1 \in 0..(n - 1)
    BY <1>2, <1>4
  <2>2. PICK f : Stages(f, list, count, n - 1)
    <3>1. n - 1 \notin Bad
      <4> HIDE DEF Bad
      <4> QED  BY <1>1, <2>1
    <3> QED  BY <2>1, <3>1
  <2> DEFINE Step(h, i) == IF i = 0 THEN <<>> ELSE h[i - 1] \o Own(i)
             g == [i \in 0..n |-> IF i < n THEN f[i] ELSE Step(f, n)]
  <2>3. ASSUME NEW i \in 0..n PROVE g[i] = Step(g, i)
    <3>1. i # 0 => i - 1 \in 0..n /\ i - 1 < n
      BY <1>2
    <3>2. i # 0 => g[i - 1] = f[i - 1]
      BY <3>1
    <3>3. CASE i = n
      <4>1. g[i] = Step(f, n)
        BY <3>3
      <4> HIDE DEF g
      <4> QED  BY <4>1, <3>2, <3>3
    <3>4. CASE i < n
      <4>1. g[i] = f[i] /\ i \in 0..(n - 1)
        BY <1>2, <3>4
      <4>2. f[i] = Step(f, i)
        BY <2>2, <4>1, <1>0
      <4> HIDE DEF g
      <4> QED  BY <4>1, <4>2, <3>2
    <3> QED  BY <1>2, <3>3, <3>4
  <2>4. g = [i \in 0..n |-> g[i]]
    OBVIOUS
  <2> HIDE DEF g
  <2>5. g = [i \in 0..n |-> IF i = 0 THEN <<>> ELSE g[i - 1] \o Own(i)]
    BY <2>3, <2>4
  <2> QED  BY <1>0, <1>2, <2>5
<1> QED  BY <1>3, <1>4

\* What each system adds to the queue when a sequential run comes to it.
Share(list, count, n) == [k \in 1..count[n] |-> CHOOSE m \in list[n].spawns : TRUE]

AddsUp(f, list, count) ==
  /\ f[0] = <<>>
  /\ \A n \in 1..Len(list) : f[n] = f[n - 1] \o Share(list, count, n)

LEMMA StagedAddsUp ==
  ASSUME NEW list, Len(list) \in Nat, NEW count
  PROVE  AddsUp(StagedBelow(list, count), list, count)
<1> DEFINE F == CHOOSE f : Stages(f, list, count, Len(list))
<1>1. Stages(F, list, count, Len(list))
  BY StagesExist
<1>2. StagedBelow(list, count) = F
  BY DEF StagedBelow, Stages
<1> HIDE DEF F
<1>3. F = [i \in 0..Len(list) |->
             IF i = 0 THEN <<>> ELSE F[i - 1] \o Share(list, count, i)]
  BY <1>1 DEF Stages, Share
<1>4. PICK G : G = [i \in 0..Len(list) |->
             IF i = 0 THEN <<>> ELSE F[i - 1] \o Share(list, count, i)]
  OBVIOUS
<1>5. \A i \in 0..Len(list) :
        G[i] = IF i = 0 THEN <<>> ELSE F[i - 1] \o Share(list, count, i)
  BY <1>4
<1>6. 0 \in 0..Len(list) /\ \A i \in 1..Len(list) : i \in 0..Len(list) /\ i # 0
  OBVIOUS
<1> QED  BY <1>2, <1>3, <1>4, <1>5, <1>6 DEF AddsUp

\* Only systems that spawn have staged something.
SpawnersOnly(list, count) ==
  \A n \in 1..Len(list) : count[n] \in Nat /\ (count[n] > 0 => list[n].spawns # {})

LEMMA ShareTyped ==
  ASSUME NEW list \in Seq(Catalog), NEW count, SpawnersOnly(list, count),
         NEW n \in 1..Len(list)
  PROVE  Share(list, count, n) \in Seq(Mask)
<1>1. /\ list[n] \in Catalog /\ count[n] \in Nat
      /\ count[n] > 0 => list[n].spawns # {}
  BY DEF SpawnersOnly
<1>2. list[n].spawns \subseteq Mask
  BY <1>1, CatalogAssumption
<1>3. PICK m : m = CHOOSE w \in list[n].spawns : TRUE
  OBVIOUS
<1>4. count[n] > 0 => m \in Mask
  BY <1>1, <1>2, <1>3
<1>5. Share(list, count, n) = [k \in 1..count[n] |-> m]
  BY <1>3 DEF Share
<1>6. [k \in 1..count[n] |-> m] \in [1..count[n] -> Mask]
  BY <1>1, <1>4
<1> QED  BY <1>1, <1>5, <1>6, SeqDef

LEMMA StagedTyped ==
  ASSUME NEW list \in Seq(Catalog), NEW count, SpawnersOnly(list, count)
  PROVE  \A n \in 0..Len(list) : StagedBelow(list, count)[n] \in Seq(Mask)
<1>1. PICK F : F = StagedBelow(list, count)
  OBVIOUS
<1>2. Len(list) \in Nat
  OBVIOUS
<1>3. F[0] = <<>> /\ \A n \in 1..Len(list) : F[n] = F[n - 1] \o Share(list, count, n)
  BY <1>1, <1>2, StagedAddsUp DEF AddsUp
<1> SUFFICES ASSUME NEW n \in 0..Len(list) PROVE F[n] \in Seq(Mask)
  BY <1>1
<1> DEFINE Good == {k \in Nat : F[k] \in Seq(Mask)}
<1>4. 0 \in Good
  <2>1. <<>> \in Seq(Mask)
    OBVIOUS
  <2> QED  BY <2>1, <1>3
<1>5. ASSUME NEW k \in (0 + 1)..n, k - 1 \in Good PROVE k \in Good
  <2>1. k \in 1..Len(list) /\ k \in Nat
    BY <1>2
  <2>2. PICK t \in Seq(Mask) : t = Share(list, count, k)
    BY <2>1, ShareTyped
  <2>3. PICK s \in Seq(Mask) : s = F[k - 1]
    BY <1>5
  <2>4. s \o t \in Seq(Mask)
    OBVIOUS
  <2>5. F[k] = s \o t
    BY <2>1, <2>2, <2>3, <1>3
  <2> QED  BY <2>1, <2>4, <2>5
<1> HIDE DEF Good
<1>6. n \in Good
  BY <1>4, <1>5, HandedOn
<1> QED  BY <1>6 DEF Good

Quiet(count, a, b) == \A k \in (a + 1)..b : count[k] = 0

\* Systems that have staged nothing do not matter.
LEMMA StagedQuiet ==
  ASSUME NEW list \in Seq(Catalog), NEW count, SpawnersOnly(list, count),
         NEW a \in 0..Len(list), NEW b \in a..Len(list), Quiet(count, a, b)
  PROVE  StagedBelow(list, count)[b] = StagedBelow(list, count)[a]
<1>1. PICK F : F = StagedBelow(list, count)
  OBVIOUS
<1>2. Len(list) \in Nat
  OBVIOUS
<1>3. \A n \in 1..Len(list) : F[n] = F[n - 1] \o Share(list, count, n)
  BY <1>1, <1>2, StagedAddsUp DEF AddsUp
<1>4. \A n \in 0..Len(list) : F[n] \in Seq(Mask)
  BY <1>1, StagedTyped
<1> DEFINE Good == {k \in Nat : F[k] = F[a]}
<1>5. a \in Good
  BY <1>2
<1>6. ASSUME NEW k \in (a + 1)..b, k - 1 \in Good PROVE k \in Good
  <2>1. k \in 1..Len(list) /\ k \in Nat /\ k - 1 \in 0..Len(list) /\ count[k] = 0
    BY <1>2 DEF Quiet
  <2>2. Share(list, count, k) = <<>>
    BY <2>1 DEF Share
  <2>3. PICK s \in Seq(Mask) : s = F[k - 1]
    BY <2>1, <1>4
  <2>4. F[k] = F[k - 1]
    <3>1. s \o <<>> = s
      OBVIOUS
    <3> QED  BY <2>1, <2>2, <2>3, <3>1, <1>3
  <2> QED  BY <2>1, <2>4, <1>6
<1> HIDE DEF Good
<1>7. b \in Good
  <2>1. a \in Nat /\ b \in Nat /\ a <= b
    BY <1>2
  <2> QED  BY <2>1, <1>5, <1>6, HandedOn
<1> QED  BY <1>1, <1>7 DEF Good

SameCount(count, more, n) == \A k \in 1..n : count[k] = more[k]

LEMMA StagedSame ==
  ASSUME NEW list, Len(list) \in Nat, NEW count, NEW more,
         NEW n \in 0..Len(list), SameCount(count, more, n)
  PROVE  StagedBelow(list, count)[n] = StagedBelow(list, more)[n]
<1>1. PICK F : F = StagedBelow(list, count)
  OBVIOUS
<1>2. PICK G : G = StagedBelow(list, more)
  OBVIOUS
<1>3. F[0] = <<>> /\ \A k \in 1..Len(list) : F[k] = F[k - 1] \o Share(list, count, k)
  BY <1>1, StagedAddsUp DEF AddsUp
<1>4. G[0] = <<>> /\ \A k \in 1..Len(list) : G[k] = G[k - 1] \o Share(list, more, k)
  BY <1>2, StagedAddsUp DEF AddsUp
<1> DEFINE Good == {k \in Nat : F[k] = G[k]}
<1>5. 0 \in Good
  BY <1>3, <1>4
<1>6. ASSUME NEW k \in (0 + 1)..n, k - 1 \in Good PROVE k \in Good
  <2>1. k \in 1..Len(list) /\ k \in Nat /\ count[k] = more[k]
    BY DEF SameCount
  <2>2. Share(list, count, k) = Share(list, more, k)
    BY <2>1 DEF Share
  <2> QED  BY <2>1, <2>2, <1>3, <1>4, <1>6
<1> HIDE DEF Good
<1>7. n \in Good
  BY <1>5, <1>6, HandedOn
<1> QED  BY <1>1, <1>2, <1>7 DEF Good

OneMore(list, count, more, n) ==
  /\ more[n] = count[n] + 1
  /\ \A k \in 1..Len(list) : k # n => more[k] = count[k]

\* When nobody behind it has staged anything, what a system stages goes to the
\* end of the queue.
LEMMA StagedGrows ==
  ASSUME NEW list \in Seq(Catalog), NEW count, NEW more,
         SpawnersOnly(list, count), SpawnersOnly(list, more),
         NEW n \in 1..Len(list), NEW m, list[n].spawns = {m},
         OneMore(list, count, more, n), Quiet(count, n, Len(list))
  PROVE  /\ StagedBelow(list, count)[Len(list)] \in Seq(Mask)
         /\ StagedBelow(list, more)[Len(list)] =
              Append(StagedBelow(list, count)[Len(list)], m)
<1>1. PICK F : F = StagedBelow(list, count)
  OBVIOUS
<1>2. PICK G : G = StagedBelow(list, more)
  OBVIOUS
<1>3. PICK last : last = Len(list)
  OBVIOUS
<1>4. /\ last \in Nat /\ n \in 1..last /\ n \in Nat /\ last \in 0..Len(list)
      /\ n \in 0..Len(list) /\ n - 1 \in 0..Len(list) /\ last \in n..Len(list)
      /\ Len(list) \in Nat
  BY <1>3
<1>5. F[last] = F[n]
  BY <1>1, <1>3, <1>4, StagedQuiet
<1>6. G[last] = G[n]
  <2>1. Quiet(more, n, Len(list))
    <3>1. ASSUME NEW k \in (n + 1)..Len(list) PROVE more[k] = 0
      <4>1. k \in 1..Len(list) /\ k # n
        BY <1>4
      <4> QED  BY <4>1 DEF Quiet, OneMore
    <3> QED  BY <3>1 DEF Quiet
  <2> QED  BY <2>1, <1>2, <1>3, <1>4, StagedQuiet
<1>7. F[n - 1] = G[n - 1]
  <2>1. PICK p : p = n - 1
    OBVIOUS
  <2>2. p \in 0..Len(list)
    BY <1>4, <2>1
  <2>3. \A k \in 1..p : count[k] = more[k]
    <3>1. \A k \in 1..p : k \in 1..Len(list) /\ k # n
      BY <1>4, <2>1
    <3> QED  BY <3>1 DEF OneMore
  <2>4. SameCount(count, more, p)
    BY <2>3 DEF SameCount
  <2>5. StagedBelow(list, count)[p] = StagedBelow(list, more)[p]
    BY <1>4, <2>2, <2>4, StagedSame
  <2> QED  BY <1>1, <1>2, <2>1, <2>5
<1>8. F[n - 1] \in Seq(Mask) /\ F[last] \in Seq(Mask)
  BY <1>1, <1>4, StagedTyped
<1>9. F[n] = F[n - 1] \o Share(list, count, n)
  BY <1>1, <1>4, StagedAddsUp DEF AddsUp
<1>10. G[n] = G[n - 1] \o Share(list, more, n)
  BY <1>2, <1>4, StagedAddsUp DEF AddsUp
<1>11. Share(list, count, n) \in Seq(Mask) /\ m \in Mask
       /\ Share(list, more, n) = Append(Share(list, count, n), m)
  <2>1. count[n] \in Nat
    BY DEF SpawnersOnly
  <2>2. m \in Mask
    <3>1. list[n] \in Catalog
      OBVIOUS
    <3>2. list[n].spawns \subseteq Mask
      BY <3>1, CatalogAssumption
    <3> QED  BY <3>2
  <2>3. (CHOOSE w \in list[n].spawns : TRUE) = m
    OBVIOUS
  <2>4. /\ Share(list, count, n) = [k \in 1..count[n] |-> m]
        /\ Share(list, more, n) = [k \in 1..(count[n] + 1) |-> m]
    BY <2>3 DEF Share, OneMore
  <2>5. [k \in 1..(count[n] + 1) |-> m] = Append([k \in 1..count[n] |-> m], m)
    BY <2>1, <2>2
  <2>6. Share(list, count, n) \in Seq(Mask)
    BY ShareTyped
  <2> QED  BY <2>2, <2>4, <2>5, <2>6
<1>12. F[n - 1] \o Append(Share(list, count, n), m)
         = Append(F[n - 1] \o Share(list, count, n), m)
  <2>1. PICK s \in Seq(Mask) : s = F[n - 1]
    BY <1>8
  <2>2. PICK t \in Seq(Mask) : t = Share(list, count, n)
    BY <1>11
  <2>3. s \o Append(t, m) = Append(s \o t, m)
    BY <1>11
  <2> QED  BY <2>1, <2>2, <2>3
<1> QED  BY <1>1, <1>2, <1>3, <1>5, <1>6, <1>7, <1>8, <1>9, <1>10, <1>11, <1>12
LEMMA StagedByBelow ==
  /\ StagedBy = StagedBelow(systems, staged)[Len(systems)]
  /\ StagedBy' = StagedBelow(systems', staged')[Len(systems')]
BY DEF StagedBy, StagedWith, StagedBelow

\* What StagedInv says of a pass.
StartedSpawners ==
  \A n \in Node : /\ at[n] = "wait" => staged[n] = 0
                  /\ at[n] = "push" \/ staged[n] > 0 => Spawning(n)

StagingOK == StartedSpawners /\ (SpawnersInOrder => StagedInOrder)

LEMMA StagedInvParts == StagedInv <=> DagInv /\ (phase = "pass" => StagingOK)
BY DEF StagedInv, StagingOK, StartedSpawners

LEMMA StagedTypes ==
  ASSUME IInv
  PROVE  /\ staged \in [Index -> Nat] /\ slot \in [Index -> Nat]
         /\ pending \in Seq(Mask) /\ before.pending \in Seq(Mask)
         /\ resolved \subseteq Node
  BY DEF IInv, TypeOK, MarkTypes, PayloadTypes, DatabaseTypes

LEMMA StagedCounts ==
  ASSUME IInv, StartedSpawners
  PROVE  SpawnersOnly(systems, staged)
BY PassTypes, StagedTypes DEF SpawnersOnly, StartedSpawners, Spawning

\* Nothing comes from a spawner behind one that is not over.
LEMMA LaterQuiet ==
  ASSUME IInv, Closed, StagingOK, SpawnersInOrder, NEW i \in Node, Spawning(i), i \notin resolved,
         NEW j \in Node, i < j
  PROVE  staged[j] = 0 /\ (Spawning(j) => at[j] = "wait")
<1>1. resolved \in SUBSET Node /\ staged[j] \in Nat
  BY PassTypes, StagedTypes
<1>2. ASSUME Spawning(j) PROVE at[j] = "wait"
  <2>1. RunsBefore(i, j)
    BY <1>2 DEF SpawnersInOrder
  <2>2. (\A n \in resolved \union {j} : Pred(n) \subseteq resolved) => i \in resolved
    BY <1>1, <2>1 DEF RunsBefore
  <2>3. ~(Pred(j) \subseteq resolved)
    BY <2>2 DEF Closed
  <2> QED  BY <2>3 DEF IInv, OrderRespected
<1> QED  BY <1>1, <1>2 DEF StagingOK, StartedSpawners

LEMMA StagingBegins ==
  ASSUME IInv', StartPass(entities', pending'), systems' = systems
  PROVE  StagingOK'
<1>1. /\ resolved' = {} /\ before' = [entities |-> entities', pending |-> pending']
      /\ at' = Everywhere("wait") /\ staged' = Everywhere(0)
  BY DEF StartPass, ResetPayloads
<1>2. /\ Len(systems') \in Nat /\ Node' = 1..Len(systems') /\ Node' \subseteq Index
      /\ systems' \in Seq(Catalog) /\ pending' \in Seq(Mask)
  <2>1. TypeOK' /\ systems' \in Seq(Catalog)
    BY DEF IInv, TypeOK, FrameTypes
  <2> QED  BY <2>1, BoundsAssumption DEF TypeOK, FrameTypes, DatabaseTypes, Node, Index
<1>3. \A n \in Node' : at'[n] = "wait" /\ staged'[n] = 0
  BY <1>1, <1>2 DEF Everywhere
<1>4. StagedBy' = <<>>
  <2>1. PICK list : list = systems'
    OBVIOUS
  <2>2. PICK count : count = staged'
    OBVIOUS
  <2>3. list \in Seq(Catalog) /\ Len(list) \in Nat /\ \A k \in 1..Len(list) : count[k] = 0
    BY <1>2, <1>3, <2>1, <2>2
  <2>4. SpawnersOnly(list, count) /\ Quiet(count, 0, Len(list))
    BY <2>3 DEF SpawnersOnly, Quiet
  <2>5. 0 \in 0..Len(list) /\ Len(list) \in 0..Len(list)
    BY <2>3
  <2>6. StagedBelow(list, count)[Len(list)] = StagedBelow(list, count)[0]
    BY <2>3, <2>4, <2>5, StagedQuiet
  <2>7. StagedBelow(list, count)[0] = <<>>
    BY <2>3, StagedAddsUp DEF AddsUp
  <2> QED  BY <2>1, <2>2, <2>6, <2>7, StagedByBelow
<1>5. pending' = before'.pending \o StagedBy'
  <2>1. before'.pending = pending'
    BY <1>1
  <2>2. pending' \o <<>> = pending'
    BY <1>2
  <2> QED  BY <2>1, <2>2, <1>4
<1>6. StagedInOrder'
  BY <1>3, <1>5 DEF StagedInOrder, Running
<1>7. StartedSpawners'
  BY <1>3 DEF StartedSpawners
<1> QED  BY <1>6, <1>7 DEF StagingOK

\* A spawn goes to the end of the partition.
LEMMA PushInOrder ==
  ASSUME IInv, Closed, StagingOK, NEW n \in Running, PushSpawn(n)
  PROVE  StagingOK'
<1>1. /\ n \in Node /\ n \notin resolved /\ at[n] = "push" /\ Node' = Node
      /\ UNCHANGED <<systems, dependents, resolved, before, slot>>
  BY DEF Running, PushSpawn, frameVars, markVars, Node
<1>2. /\ Len(systems) \in Nat /\ Node = 1..Len(systems) /\ Node \subseteq Index
      /\ systems \in Seq(Catalog)
  BY PassTypes
<1>3. /\ \A m \in Node : m # n => at'[m] = at[m] /\ staged'[m] = staged[m]
      /\ at'[n] = "apply" /\ staged'[n] = staged[n] + 1
      /\ \A m \in Node : staged[m] \in Nat
  BY <1>1, PassTypes, StagedTypes DEF PushSpawn
<1>4. Spawning(n)
  BY <1>1 DEF StagingOK, StartedSpawners
<1>5. ASSUME NEW m \in Node
      PROVE  /\ at'[m] = "wait" => staged'[m] = 0
             /\ at'[m] = "push" \/ staged'[m] > 0 => Spawning(m)'
  <2>1. Spawning(m)' <=> Spawning(m)
    BY <1>1 DEF Spawning
  <2>2. CASE m = n
    BY <2>1, <2>2, <1>3, <1>4
  <2>3. CASE m # n
    BY <2>1, <2>3, <1>3 DEF StagingOK, StartedSpawners
  <2> QED  BY <2>2, <2>3
<1>6. ASSUME SpawnersInOrder PROVE StagedInOrder'
  <2>1. /\ pending = before.pending \o StagedBy
        /\ slot[n] = Len(pending) + 1
    BY <1>1, <1>6 DEF StagingOK, StagedInOrder
  <2>2. PICK m \in systems[n].spawns : pending' = Append(pending, m)
    BY <2>1 DEF PushSpawn
  <2>3. systems[n].spawns = {m}
    BY <1>1, <1>6, <2>2 DEF SpawnersInOrder
  <2>4. ASSUME NEW j \in Node, n < j
        PROVE  staged[j] = 0 /\ (Spawning(j) => at[j] = "wait")
    BY <1>1, <1>4, <1>6, <2>4, LaterQuiet
  <2>5. /\ StagedBy \in Seq(Mask)
        /\ StagedBy' = Append(StagedBy, m)
    <3>1. SpawnersOnly(systems, staged)
      BY StagedCounts DEF StagingOK
    <3>2. SpawnersOnly(systems, staged')
      <4>1. \A k \in Node : staged'[k] \in Nat /\ (staged'[k] > 0 => systems[k].spawns # {})
        BY <1>3, <1>5, <1>1 DEF Spawning
      <4> QED  BY <4>1, <1>2 DEF SpawnersOnly
    <3>3. Quiet(staged, n, Len(systems))
      <4>1. \A k \in (n + 1)..Len(systems) : k \in Node /\ n < k
        BY <1>1, <1>2
      <4> QED  BY <4>1, <2>4 DEF Quiet
    <3>4. PICK list : list = systems
      OBVIOUS
    <3>5. PICK count : count = staged
      OBVIOUS
    <3>6. PICK more : more = staged'
      OBVIOUS
    <3>7. /\ list \in Seq(Catalog) /\ n \in 1..Len(list) /\ list[n].spawns = {m}
          /\ SpawnersOnly(list, count) /\ SpawnersOnly(list, more)
          /\ Quiet(count, n, Len(list))
          /\ OneMore(list, count, more, n)
      BY <1>1, <1>2, <1>3, <2>3, <3>1, <3>2, <3>3, <3>4, <3>5, <3>6 DEF OneMore
    <3>8. /\ StagedBelow(list, count)[Len(list)] \in Seq(Mask)
          /\ StagedBelow(list, more)[Len(list)] =
               Append(StagedBelow(list, count)[Len(list)], m)
      BY <3>7, StagedGrows
    <3> QED  BY <3>4, <3>5, <3>6, <3>8, <1>1, StagedByBelow
  <2>6. pending' = before'.pending \o StagedBy'
    <3>1. PICK s \in Seq(Mask) : s = before.pending
      BY StagedTypes
    <3>2. PICK t \in Seq(Mask) : t = StagedBy
      BY <2>5
    <3>3. m \in Mask
      <4>1. systems[n] \in Catalog
        BY <1>1, <1>2
      <4>2. systems[n].spawns \subseteq Mask
        BY <4>1, CatalogAssumption
      <4> QED  BY <4>2
    <3>4. s \o Append(t, m) = Append(s \o t, m)
      BY <3>3
    <3> QED  BY <3>1, <3>2, <3>4, <2>1, <2>2, <2>5, <1>1
  <2>7. ASSUME NEW j \in Running', at'[j] = "push" PROVE FALSE
    <3>1. j \in Node /\ j # n /\ at[j] = "push" /\ j \notin resolved
      BY <1>1, <1>3, <2>7 DEF Running
    <3>2. Spawning(j)
      BY <3>1 DEF StagingOK, StartedSpawners
    <3>3. CASE n < j
      BY <3>1, <3>2, <3>3, <2>4
    <3>4. CASE j < n
      BY <3>1, <3>2, <3>4, <1>1, <1>4, <1>6, LaterQuiet
    <3> QED  BY <3>1, <3>3, <3>4, <1>1, <1>2
  <2> QED  BY <2>6, <2>7 DEF StagedInOrder
<1>7. SpawnersInOrder' <=> SpawnersInOrder
  BY <1>1 DEF SpawnersInOrder, RunsBefore, Pred, Spawning, Node
<1>8. StartedSpawners'
  BY <1>1, <1>5 DEF StartedSpawners
<1> QED  BY <1>6, <1>7, <1>8 DEF StagingOK

\* A push_back under way keeps its slot while nobody else spawns.
LEMMA ReserveInOrder ==
  ASSUME IInv, StagingOK, NEW n \in Running, ReserveSlot(n)
  PROVE  StagingOK'
<1>1. /\ n \in Node /\ Spawning(n) /\ at[n] = "apply" /\ Node' = Node
      /\ UNCHANGED <<systems, dependents, resolved, before, pending, staged>>
  BY DEF Running, ReserveSlot, frameVars, markVars, dbVars, Node
<1>2. /\ \A m \in Node : m # n => at'[m] = at[m] /\ slot'[m] = slot[m]
      /\ at'[n] = "push" /\ slot'[n] = Len(pending) + 1
  BY <1>1, PassTypes, StagedTypes DEF ReserveSlot, EndOf
<1>3. ASSUME NEW m \in Node
      PROVE  /\ at'[m] = "wait" => staged'[m] = 0
             /\ at'[m] = "push" \/ staged'[m] > 0 => Spawning(m)'
  <2>1. Spawning(m)' <=> Spawning(m)
    BY <1>1 DEF Spawning
  <2>2. CASE m = n
    BY <2>1, <2>2, <1>1, <1>2
  <2>3. CASE m # n
    BY <2>1, <2>3, <1>1, <1>2 DEF StagingOK, StartedSpawners
  <2> QED  BY <2>2, <2>3
<1>4. SpawnersInOrder' <=> SpawnersInOrder
  BY <1>1 DEF SpawnersInOrder, RunsBefore, Pred, Spawning, Node
<1>5. ASSUME StagedInOrder PROVE StagedInOrder'
  <2>1. StagedBy' = StagedBy
    BY <1>1 DEF StagedBy, StagedWith
  <2>2. \A m \in Running' : at'[m] = "push" => slot'[m] = Len(pending) + 1
    <3>1. ASSUME NEW m \in Running', at'[m] = "push"
          PROVE  slot'[m] = Len(pending) + 1
      <4>1. CASE m = n
        BY <4>1, <1>2
      <4>2. CASE m # n
        BY <4>2, <3>1, <1>1, <1>2, <1>5 DEF Running, StagedInOrder
      <4> QED  BY <4>1, <4>2
    <3> QED  BY <3>1
  <2> QED  BY <2>1, <2>2, <1>1, <1>5 DEF StagedInOrder
<1>6. StartedSpawners'
  BY <1>1, <1>3 DEF StartedSpawners
<1> QED  BY <1>4, <1>5, <1>6 DEF StagingOK

\* Other steps of payloads leave the queue alone.
LEMMA StagingUndisturbed ==
  ASSUME IInv, StagingOK,
         UNCHANGED <<systems, dependents, before, pending, staged, slot>>,
         \A m \in Node : at'[m] # at[m] => at[m] # "push" /\ at'[m] \in {"scan", "apply"},
         resolved \subseteq resolved'
  PROVE  StagingOK'
<1>1. Node' = Node /\ \A m : Pred(m)' = Pred(m)
  BY DEF Node, Pred
<1>2. StartedSpawners'
  <2>1. \A m : Spawning(m)' <=> Spawning(m)
    BY DEF Spawning
  <2>2. \A m \in Node : /\ at'[m] = "wait" => at[m] = "wait"
                        /\ at'[m] = "push" => at[m] = "push"
    OBVIOUS
  <2> QED  BY <1>1, <2>1, <2>2 DEF StagingOK, StartedSpawners
<1>3. SpawnersInOrder' <=> SpawnersInOrder
  BY DEF SpawnersInOrder, RunsBefore, Pred, Spawning, Node
<1>4. ASSUME StagedInOrder PROVE StagedInOrder'
  <2>1. StagedBy' = StagedBy
    BY DEF StagedBy, StagedWith
  <2>2. ASSUME NEW m \in Running', at'[m] = "push"
        PROVE  slot[m] = Len(pending) + 1
    <3>1. m \in Node /\ at[m] = "push" /\ m \notin resolved
      BY <1>1, <2>2 DEF Running
    <3> QED  BY <3>1, <1>4 DEF Running, StagedInOrder
  <2> QED  BY <2>1, <2>2, <1>4 DEF StagedInOrder
<1> QED  BY <1>2, <1>3, <1>4 DEF StagingOK

LEMMA StagedStep ==
  ASSUME StagedInv, [Next]_vars
  PROVE  StagedInv'
<1>1. /\ DagInv' /\ IInv /\ IInv'
      /\ phase = "pass" => Closed /\ StagingOK
  BY StagedInvParts, DagStep DEF DagInv, ResolvedClosed, Closed
<1> SUFFICES ASSUME phase' = "pass" PROVE StagingOK'
  BY <1>1 DEF StagedInv, StagingOK, StartedSpawners
<1>2. CASE HostStep
  <2>1. phase' # "pass"
    BY <1>2 DEF HostStep, RegisterSystem, ClearSystems, CreateEntity,
                ClearDatabase, InFrame, frameVars
  <2> QED  BY <2>1
<1>3. CASE BeginFrame
  <2>1. StartPass(entities', pending') /\ systems' = systems
    BY <1>3 DEF BeginFrame, dbVars
  <2> QED  BY <1>1, <2>1, StagingBegins
<1>4. CASE ReEnter
  <2>1. StartPass(entities', pending') /\ systems' = systems
    BY <1>4 DEF ReEnter
  <2> QED  BY <1>1, <2>1, StagingBegins
<1>5. CASE IdsExhausted \/ EndPass
  <2>1. phase' # "pass"
    BY <1>5 DEF IdsExhausted, EndPass
  <2> QED  BY <2>1
<1>6. ASSUME NEW n \in Node, SystemStep(n) PROVE StagingOK'
  <2>1. phase = "pass"
    BY <1>1, <1>6, RunningInPass DEF SystemStep, Start, Skip, ScanRecord, EndScan,
       ApplyChange, ReserveSlot, PushSpawn, Finish, Throw
  <2>2. IInv /\ Closed /\ StagingOK
    BY <1>1, <2>1
  <2>3. CASE PushSpawn(n)
    <3>1. n \in Running
      BY <2>3 DEF PushSpawn
    <3> QED  BY <2>2, <2>3, <3>1, PushInOrder
  <2>4. CASE ReserveSlot(n)
    <3>1. n \in Running
      BY <2>4 DEF ReserveSlot
    <3> QED  BY <2>2, <2>4, <3>1, ReserveInOrder
  <2>5. CASE ScanRecord(n) \/ ApplyChange(n)
    <3>1. UNCHANGED <<systems, dependents, before, pending, staged, slot, at, resolved>>
      BY <2>5 DEF ScanRecord, ApplyChange, frameVars, markVars, dbVars
    <3> QED  BY <2>2, <3>1, StagingUndisturbed
  <2>6. CASE Start(n) \/ EndScan(n)
    <3>1. /\ UNCHANGED <<systems, dependents, before, pending, staged, slot, resolved>>
          /\ at[n] # "push"
          /\ at' = [at EXCEPT ![n] = "scan"] \/ at' = [at EXCEPT ![n] = "apply"]
      BY <2>6 DEF Start, EndScan, frameVars, markVars, dbVars
    <3>2. \A m \in Node : at'[m] # at[m] => at[m] # "push" /\ at'[m] \in {"scan", "apply"}
      BY <2>2, <3>1, PassTypes
    <3> QED  BY <2>2, <3>1, <3>2, StagingUndisturbed
  <2>7. CASE Skip(n) \/ Finish(n) \/ Throw(n)
    <3>1. /\ UNCHANGED <<systems, dependents, before, pending, staged, slot, at>>
          /\ resolved' = resolved \union {n}
      BY <2>7 DEF Skip, Finish, Throw, Resolve, frameVars, dbVars, payloadVars
    <3> QED  BY <2>2, <3>1, StagingUndisturbed
  <2> QED  BY <1>6, <2>3, <2>4, <2>5, <2>6, <2>7 DEF SystemStep
<1>7. CASE UNCHANGED vars
  <2>1. /\ phase = "pass"
        /\ UNCHANGED <<systems, dependents, before, pending, staged, slot, at, resolved>>
    BY <1>7 DEF vars, frameVars, markVars, dbVars, payloadVars
  <2> QED  BY <1>1, <2>1, StagingUndisturbed
<1> QED  BY <1>2, <1>3, <1>4, <1>5, <1>6, <1>7 DEF Next, FrameStep

\* Where the graph of build_topological_graph orders the systems that spawn,
\* the partition a pass leaves behind, and so the ids that
\* commit_pending_spawns gives out, do not depend on how the threads were
\* scheduled, crashes and skipped systems included.
THEOREM StagesInOrder == Spec => [](SpawnersInOrder => DeterministicStaging)
<1>1. Init => StagedInv
  <2>1. Init => phase # "pass"
    BY DEF Init
  <2> QED  BY <2>1, InitInv DEF StagedInv, DagInv, ResolvedClosed
<1>2. StagedInv /\ [Next]_vars => StagedInv'
  BY StagedStep
<1>3. StagedInv => (SpawnersInOrder => DeterministicStaging)
  BY DEF StagedInv, DeterministicStaging, StagedInOrder
<1> QED  BY <1>1, <1>2, <1>3, PTL DEF Spec
-------------------------------------------------------------------------------
(* What a pass makes of its database when nobody fails *)

LEMMA EndUndisturbed ==
  ASSUME IInv, RunToTheEnd, phase = "pass",
         UNCHANGED <<systems, failed, aborted, resolved>>,
         \A m \in resolved : UNCHANGED <<at[m], applied[m], staged[m]>>
  PROVE  RunToTheEnd'
<1>1. \A m : (Dead(m)' <=> Dead(m)) /\ (Spawning(m)' <=> Spawning(m))
  BY DEF Dead, Spawning
<1>2. \A m \in resolved : Ran(m)' <=> Ran(m)
  BY DEF Ran
<1> QED  BY <1>1, <1>2 DEF RunToTheEnd

\* Who becomes one of the dead stays one of them.
LEMMA EndResolved ==
  ASSUME IInv, RunToTheEnd, phase = "pass", NEW n \in Node, NEW crash \in BOOLEAN,
         Resolve(n, crash), UNCHANGED <<systems, at, applied, staged>>,
         ~crash /\ ~Dead(n) => Ran(n) /\ (Spawning(n) => staged[n] = applied[n])
  PROVE  RunToTheEnd'
<1>1. /\ failed \in [Index -> BOOLEAN] /\ aborted \in [Index -> BOOLEAN]
      /\ resolved \subseteq Node /\ Node \subseteq Index /\ n \in Index
  BY PassTypes DEF IInv, TypeOK, MarkTypes
<1>2. /\ resolved' = resolved \union {n}
      /\ \A m \in Index : failed'[m] = IF m = n THEN failed[m] \/ crash ELSE failed[m]
      /\ \A m \in Index : aborted[m] => aborted'[m]
  BY <1>1 DEF Resolve
<1>3. \A m \in Node : ~Dead(m)' => ~Dead(m) /\ (m = n => ~crash)
  BY <1>1, <1>2 DEF Dead
<1>4. \A m : (Spawning(m)' <=> Spawning(m)) /\ (Ran(m)' <=> Ran(m))
  BY DEF Spawning, Ran
<1> QED  BY <1>1, <1>2, <1>3, <1>4 DEF RunToTheEnd

LEMMA EndStep ==
  ASSUME IInv, RunToTheEnd, [Next]_vars
  PROVE  RunToTheEnd'
<1> SUFFICES ASSUME phase' = "pass" PROVE RunToTheEnd'
  BY DEF RunToTheEnd
<1>1. CASE HostStep
  <2>1. phase' # "pass"
    BY <1>1 DEF HostStep, RegisterSystem, ClearSystems, CreateEntity,
                ClearDatabase, InFrame, frameVars
  <2> QED  BY <2>1
<1>2. CASE BeginFrame \/ ReEnter
  <2>1. resolved' = {}
    BY <1>2 DEF BeginFrame, ReEnter, StartPass
  <2> QED  BY <2>1 DEF RunToTheEnd
<1>3. CASE IdsExhausted \/ EndPass
  <2>1. phase' # "pass"
    BY <1>3 DEF IdsExhausted, EndPass
  <2> QED  BY <2>1
<1>4. ASSUME NEW n \in Node, SystemStep(n) PROVE RunToTheEnd'
  <2>1. phase = "pass"
    BY <1>4, RunningInPass DEF SystemStep, Start, Skip, ScanRecord, EndScan,
       ApplyChange, ReserveSlot, PushSpawn, Finish, Throw
  <2>2. CASE Start(n) \/ ScanRecord(n) \/ EndScan(n) \/ ApplyChange(n)
             \/ ReserveSlot(n) \/ PushSpawn(n)
    <3>1. n \notin resolved /\ UNCHANGED <<systems, failed, aborted, resolved>>
      BY <2>2 DEF Start, ScanRecord, EndScan, ApplyChange, ReserveSlot, PushSpawn,
                  Running, frameVars, markVars
    <3>2. /\ at' = at \/ \E p : at' = [at EXCEPT ![n] = p]
          /\ applied' = applied \/ applied' = [applied EXCEPT ![n] = applied[n] + 1]
          /\ staged' = staged \/ staged' = [staged EXCEPT ![n] = staged[n] + 1]
      BY <2>2 DEF Start, ScanRecord, EndScan, ApplyChange, ReserveSlot, PushSpawn
    <3>3. /\ at \in [Index -> {"wait", "scan", "apply", "push"}]
          /\ applied \in [Index -> Nat] /\ staged \in [Index -> Nat]
          /\ resolved \subseteq Index
      BY PassTypes DEF IInv, TypeOK, PayloadTypes, MarkTypes
    <3>4. \A m \in resolved : UNCHANGED <<at[m], applied[m], staged[m]>>
      BY <3>1, <3>2, <3>3
    <3> QED  BY <2>1, <3>1, <3>4, EndUndisturbed
  <2>3. CASE Skip(n)
    <3>1. Dead(n) /\ Resolve(n, FALSE) /\ UNCHANGED <<systems, at, applied, staged>>
      BY <2>3 DEF Skip, frameVars, payloadVars
    <3> QED  BY <2>1, <3>1, EndResolved
  <2>4. CASE Finish(n)
    <3>1. /\ at[n] = "apply" /\ Resolve(n, FALSE)
          /\ UNCHANGED <<systems, at, applied, staged>>
          /\ Spawning(n) => staged[n] = applied[n]
      BY <2>4 DEF Finish, frameVars, payloadVars
    <3> QED  BY <2>1, <3>1, EndResolved DEF Ran
  <2>5. CASE Throw(n)
    <3>1. Resolve(n, TRUE) /\ UNCHANGED <<systems, at, applied, staged>>
      BY <2>5 DEF Throw, frameVars, payloadVars
    <3> QED  BY <2>1, <3>1, EndResolved
  <2> QED  BY <1>4, <2>2, <2>3, <2>4, <2>5 DEF SystemStep
<1>5. CASE UNCHANGED vars
  BY <1>5 DEF vars, frameVars, markVars, payloadVars, RunToTheEnd, Dead, Spawning, Ran
<1> QED  BY <1>1, <1>2, <1>3, <1>4, <1>5 DEF Next, FrameStep

\* An increasing list has as many members as places.
LEMMA AllRanked ==
  ASSUME NEW s \in Seq(Nat), \A i, k \in DOMAIN s : i < k => s[i] < s[k]
  PROVE  Cardinality(ToSet(s)) = Len(s)
<1>1. Len(s) \in Nat /\ DOMAIN s = 1..Len(s) /\ \A i \in DOMAIN s : s[i] \in Nat
  OBVIOUS
<1>2. CASE Len(s) = 0
  <2>1. ToSet(s) = {}
    BY <1>1, <1>2 DEF ToSet
  <2> QED  BY <1>2, <2>1, FS_EmptySet
<1>3. CASE Len(s) # 0
  <2>1. Len(s) \in DOMAIN s
    BY <1>1, <1>3
  <2>2. Cardinality({d \in ToSet(s) : d <= s[Len(s)]}) = Len(s)
    BY <2>1, Rank
  <2>3. \A d \in ToSet(s) : d <= s[Len(s)]
    <3> SUFFICES ASSUME NEW i \in DOMAIN s PROVE s[i] <= s[Len(s)]
      BY DEF ToSet
    <3>1. i = Len(s) \/ i < Len(s)
      BY <1>1
    <3> QED  BY <1>1, <2>1, <3>1
  <2>4. {d \in ToSet(s) : d <= s[Len(s)]} = ToSet(s)
    BY <2>3
  <2> QED  BY <2>2, <2>4
<1> QED  BY <1>2, <1>3
\* A system that does not fail runs as it would alone.
LEMMA NobodyFails ==
  ASSUME NEW n \in Node, ~failed[n], NEW records
  PROVE  RunAlone(records, n) = Completed(records, systems[n])
<1>1. PICK found : found = QueryEntities(records, systems[n].query)
  OBVIOUS
<1>2. {e \in found : failed[n] => Cardinality({d \in found : d <= e}) <= applied[n]} = found
  OBVIOUS
<1> QED  BY <1>1, <1>2 DEF RunAlone, Completed

\* The recursion of Outcome.
Completes(f) ==
  f = [n \in 0..Len(systems) |->
         IF n = 0 THEN before.entities
         ELSE Completed(f[n - 1], systems[n])]

LEMMA OutcomeSerial ==
  ASSUME Len(systems) \in Nat, \A n \in Node : Ran(n) /\ ~failed[n]
  PROVE  Outcome = Serial
<1>1. Node = 1..Len(systems)
  BY DEF Node
<1>2. ASSUME NEW f PROVE Runs(f) <=> Completes(f)
  <2>1. ASSUME NEW n \in 0..Len(systems)
        PROVE  (IF n = 0 THEN before.entities
                ELSE IF Ran(n) THEN RunAlone(f[n - 1], n) ELSE f[n - 1])
             = (IF n = 0 THEN before.entities ELSE Completed(f[n - 1], systems[n]))
    <3>1. CASE n = 0
      BY <3>1
    <3>2. CASE n # 0
      <4>1. n \in Node
        BY <1>1, <3>2
      <4>2. Ran(n) /\ RunAlone(f[n - 1], n) = Completed(f[n - 1], systems[n])
        BY <4>1, NobodyFails
      <4> QED  BY <3>2, <4>2
    <3> QED  BY <3>1, <3>2
  <2>2. [n \in 0..Len(systems) |->
           IF n = 0 THEN before.entities
           ELSE IF Ran(n) THEN RunAlone(f[n - 1], n) ELSE f[n - 1]]
      = [n \in 0..Len(systems) |->
           IF n = 0 THEN before.entities ELSE Completed(f[n - 1], systems[n])]
    BY <2>1
  <2> QED  BY <2>2 DEF Runs, Completes
<1>3. Serial = CHOOSE f : Runs(f)
  BY DEF Serial, Runs
<1>4. Outcome = CHOOSE f : Completes(f)
  BY DEF Outcome, Completes
<1>5. (CHOOSE f : Runs(f)) = (CHOOSE f : Completes(f))
  BY <1>2
<1> QED  BY <1>3, <1>4, <1>5

\* What holds at the end of a pass in which nobody fails.
LEMMA CleanEnd ==
  ASSUME SerialInv, StagedInv, RunToTheEnd, CleanPass
  PROVE  /\ entities = Outcome[Len(systems)]
         /\ pending = before.pending \o StagedWith(OutcomeSpawns)
<1>1. /\ PassOver /\ phase = "pass" /\ IInv /\ SerialEquivalence /\ StagingOK
      /\ SpawnersInOrder /\ \A n \in Node : ~failed[n]
  BY SerialOver, StagedInvParts DEF CleanPass, PassOver, DagInv, Dead
<1>2. /\ Len(systems) \in Nat /\ Node = 1..Len(systems) /\ Node \subseteq Index
      /\ staged \in [Index -> Nat]
  BY <1>1, PassTypes, StagedTypes
<1>3. \A n \in Node : /\ n \in resolved /\ Ran(n)
                      /\ Spawning(n) => staged[n] = applied[n]
  BY <1>1 DEF RunToTheEnd, CleanPass
<1>4. Outcome = Serial
  BY <1>1, <1>2, <1>3, OutcomeSerial
<1>5. entities = Outcome[Len(systems)]
  BY <1>1, <1>4 DEF SerialEquivalence, PassOver
<1>6. ASSUME NEW n \in Node PROVE staged[n] = OutcomeSpawns[n]
  <2>1. PICK found : found = QueryEntities(Outcome[n - 1], systems[n].query)
    OBVIOUS
  <2>2. OutcomeSpawns[n] = IF Spawning(n) THEN Cardinality(found) ELSE 0
    BY <2>1 DEF OutcomeSpawns
  <2>3. CASE Spawning(n)
    <3>1. ToSet(hits[n]) = found
      BY <1>1, <1>3, <1>4, <2>1 DEF SerialEquivalence, PassOver
    <3>2. Progress(n) /\ hits[n] \in Seq(Nat)
      BY <1>1, PassTypes DEF SerialInv
    <3>3. PICK s \in Seq(Nat) : s = hits[n]
      BY <3>2
    <3>4. \A i, k \in DOMAIN s : i < k => s[i] < s[k]
      BY <3>2, <3>3 DEF Progress
    <3>5. Cardinality(ToSet(s)) = Len(s)
      BY <3>4, AllRanked
    <3>6. applied[n] = Len(hits[n])
      BY <1>1, <1>3, <3>2 DEF Progress, Ran
    <3> QED  BY <1>3, <2>2, <2>3, <3>1, <3>3, <3>5, <3>6
  <2>4. CASE ~Spawning(n)
    <3>1. ~(staged[n] > 0) /\ staged[n] \in Nat
      BY <1>1, <1>2, <2>4 DEF StagingOK, StartedSpawners
    <3> QED  BY <2>2, <2>4, <3>1
  <2> QED  BY <2>3, <2>4
<1>7. StagedWith(OutcomeSpawns) = StagedBy
  <2>1. PICK count : count = OutcomeSpawns
    OBVIOUS
  <2>2. SameCount(staged, count, Len(systems))
    BY <1>2, <1>6, <2>1 DEF SameCount
  <2>3. Len(systems) \in 0..Len(systems)
    BY <1>2
  <2>4. StagedBelow(systems, staged)[Len(systems)] = StagedBelow(systems, count)[Len(systems)]
    BY <1>2, <2>2, <2>3, StagedSame
  <2>5. StagedWith(count) = StagedBelow(systems, count)[Len(systems)]
    BY DEF StagedWith, StagedBelow
  <2> QED  BY <2>1, <2>4, <2>5, StagedByBelow
<1>8. pending = before.pending \o StagedBy
  BY <1>1 DEF StagingOK, StagedInOrder
<1> QED  BY <1>5, <1>7, <1>8

\* A plain pass in which nobody fails, and whose spawners the graph of
\* build_topological_graph orders, is a function: whatever the order in which
\* the workers take, interleave and finish the tasks, the entities and the
\* queue that commit_pending_spawns turns into ids are those that the database
\* before the pass and the registered systems determine.
THEOREM ScheduleDoesNotMatter == Spec => []ScheduleIndependent
<1> DEFINE Inv == SerialInv /\ StagedInv /\ RunToTheEnd
<1>1. Init => Inv
  <2>1. Init => phase # "pass"
    BY DEF Init
  <2> QED  BY <2>1, SerialStarts, InitInv DEF StagedInv, DagInv, ResolvedClosed, RunToTheEnd
<1>2. Inv /\ [Next]_vars => Inv'
  <2>1. StagedInv => IInv
    BY DEF StagedInv, DagInv
  <2> QED  BY <2>1, SerialStep, StagedStep, EndStep
<1>3. Inv => ScheduleIndependent
  BY CleanEnd DEF ScheduleIndependent
<1> HIDE DEF Inv
<1> QED  BY <1>1, <1>2, <1>3, PTL DEF Spec
===============================================================================
