---------------------------- MODULE LayeredTests ----------------------------
(***************************************************************************)
(* The gtest suites of the layered database                                *)
(* (src/Engine/TestUsagiExecutive/Pipelined/*Tests.cpp): each TEST_F is a  *)
(* script of calls and looks, run against LayeredDatabase beside its free  *)
(* client.  A handle the test gets from a query is written as the          *)
(* coordinate it expects there, and the look checks the query.             *)
(*                                                                         *)
(* Counts are scaled down: a page has PageSize slots instead of 64, and    *)
(* Many stands for the 100 layers and the 50 targets of two tests.         *)
(***************************************************************************)
EXTENDS JitClosure

Many == 3   \* bound

VARIABLES
  test,   \* the TEST_F that is run; 0: the free client
  line    \* its next call or look

testVars == <<test, line>>

----------------------------------------------------------------------------
(* Components and their bits.                                              *)

CoreBit == [CoreA |-> 10, CoreB |-> 11, CoreC |-> 12, CoreEdge |-> 13]
CompressionBit == [Root |-> 10, P1 |-> 11, P2 |-> 12, P3 |-> 13, P4 |-> 14]
VirtualBit ==
  [Agent |-> 10, Target |-> 11, Poisoned |-> 12, EdgeTracking |-> 13]
IntegrityBit == [DataA |-> 10, DataB |-> 11, EdgeDataLink |-> 12]

\* The brands of markers and patches.
BrandBit == [ShadowTombstone |-> 62, ShadowRedirect |-> 63]

\* A mask of a suite is a set: no two of its components share a bit, nor one
\* with a brand, and all fit in 64.
ASSUME LayeredBitsDistinct ==
  \A suite \in {CoreBit, CompressionBit, VirtualBit, IntegrityBit} :
    LET bit == BrandBit @@ suite IN
    /\ \A c \in DOMAIN bit : bit[c] \in 0..63
    /\ \A c, d \in DOMAIN bit : bit[c] = bit[d] => c = d

TestComponents ==
  UNION {DOMAIN CoreBit, DOMAIN CompressionBit, DOMAIN VirtualBit,
         DOMAIN IntegrityBit}

----------------------------------------------------------------------------
(* Calls and looks.                                                        *)

Line(op, e, x) == [op |-> op, e |-> e, x |-> x]

Creates(m) == Line("create", 0, m)
Spawns(m, p) == Line("spawn", p, m)
Registers(source, m) == Line("edge", source, m)
Adds(e, m) == Line("add", e, m)
Removes(e, m) == Line("remove", e, m)
Destroys(e) == Line("destroy", e, {})
Commits == Line("commit", 0, {})
Pushes == Line("push", 0, {})
Rebuilds == Line("rebuild", 0, {})
Mounts(masks, edges) ==
  Line("mount", masks, [i \in DOMAIN edges |->
                          [source |-> edges[i][1], mask |-> edges[i][2]]])

Finds(m, found) == Line("finds", m, found)
HasMask(e, m) == Line("has", e, m)
Leads(e, edges) == Line("leads", e, edges)
Chained(e, chain) == Line("chained", e, chain)
Hidden(e, yes) == Line("hidden", e, yes)
Pends(yes) == Line("pends", 0, yes)

\* UsagiTestOrchestrator::SetUp.
Boot == <<Mounts(<<>>, <<>>)>>

\* A mutation on a new layer; one entity alone in a new database.
Patched(e, m) == <<Pushes, Adds(e, m), Commits>>
Spawned(m) == <<Spawns(m, 0), Commits, Finds(m, {<<0, 0, 0>>})>>

Repeat(n, lines) == FlattenSeq([i \in 1..n |-> lines])

Base == <<0, 0, 0>>

----------------------------------------------------------------------------
(* CoreTests.cpp: one mutable layer to begin with.                         *)

A == {"CoreA"}
B == {"CoreB"}
C == {"CoreC"}
CoreEdge == {"CoreEdge"}

SpawnAndQuery ==
  <<Spawns(A, 0), Pends(TRUE), Finds(A, {}), Commits, Pends(FALSE),
    Finds(A, {Base})>>

ComponentMutation ==
  Spawned(A) \o <<Adds(Base, B), HasMask(Base, A \cup B), Removes(Base, A),
                  HasMask(Base, B)>>

\* Two entities and an edge from the first.
EdgeBetween ==
  <<Spawns(A, 0), Spawns(B, 0), Commits, Finds(A, {Base}),
    Finds(B, {<<0, 0, 1>>}), Registers(Base, CoreEdge), Commits,
    Leads(Base, {<<0, 0, 2>>})>>

BipartiteEdge == Append(EdgeBetween, HasMask(<<0, 0, 2>>, CoreEdge))

PartitionIsolation ==
  [i \in 1..3 |-> Spawns(A, <<0, 128, 255>>[i])]
    \o <<Commits, Finds(A, {<<0, p, 0>> : p \in {0, 128, 255}})>>

RedundantMutations ==
  Spawned(A) \o <<Adds(Base, A), HasMask(Base, A), Removes(Base, B),
                  HasMask(Base, A)>>

\* The test destroys INVALID_ENTITY first, which queues a tombstone for a layer
\* there is not; it never commits it.
InvalidEntityDestruction == <<Destroys(<<0, 0, 9999 * PageSize>>), Pends(FALSE)>>

PatchMutation ==
  Spawned(A) \o <<Pushes, Adds(Base, B), Pends(TRUE), Commits,
                  Chained(Base, <<Base, <<1, 0, 0>>>>),
                  HasMask(Base, A \cup B)>>

TombstoneErases ==
  Spawned(A) \o <<Pushes, Destroys(Base), Commits, Finds(A, {}),
                  HasMask(Base, {})>>

MultiHopMutation ==
  Spawned(A) \o Patched(Base, B) \o Patched(Base, C)
    \o <<HasMask(Base, A \cup B \cup C)>>

EdgeTombstoning ==
  EdgeBetween \o <<Pushes, Destroys(<<0, 0, 2>>), Commits, Leads(Base, {})>>

----------------------------------------------------------------------------
(* PathCompressionTests.cpp: an empty layer 0 under the patch layer.       *)

RootMask == {"Root"}
RootEnt == <<1, 0, 0>>
Rooted == Boot \o <<Creates(RootMask), Commits>>

\* The aliases of the root entity up to layer n, each the first of its layer.
AliasesTo(n) == [i \in 1..n |-> <<i, 0, 0>>]

O1Resolution ==
  Rooted \o Patched(RootEnt, {"P1"}) \o Patched(RootEnt, {"P2"})
    \o Patched(RootEnt, {"P3"}) \o Patched(RootEnt, {"P4"})
    \o [i \in 1..5 |-> Chained(<<i, 0, 0>>, AliasesTo(5))]
    \o [i \in 1..5 |-> Hidden(<<i, 0, 0>>, i # 5)]

TwicePatched == Rooted \o Patched(RootEnt, {"P1"}) \o Patched(RootEnt, {"P2"})

AliasChain ==
  TwicePatched \o <<Chained(RootEnt, AliasesTo(3)),
                    HasMask(RootEnt, RootMask \cup {"P1", "P2"})>>

ColdBoot ==
  TwicePatched \o <<Rebuilds, Chained(RootEnt, AliasesTo(3)),
                    Hidden(RootEnt, TRUE), Hidden(<<2, 0, 0>>, TRUE)>>

IndependentRoots ==
  Boot \o <<Creates(RootMask), Creates(RootMask), Commits, Pushes,
            Adds(RootEnt, {"P1"}), Adds(<<1, 0, 1>>, {"P2"}), Commits,
            Chained(<<2, 0, 0>>, AliasesTo(2)),
            Chained(<<2, 0, 1>>, <<<<1, 0, 1>>, <<2, 0, 1>>>>),
            HasMask(RootEnt, RootMask \cup {"P1"}),
            HasMask(<<1, 0, 1>>, RootMask \cup {"P2"})>>

TombstoneOverRedirect ==
  Rooted \o Patched(RootEnt, {"P1"})
    \o <<Pushes, Destroys(RootEnt), Commits, HasMask(RootEnt, {}),
         Finds(RootMask, {})>>

----------------------------------------------------------------------------
(* VirtualEdgeTests.cpp: a base layer is filled and mounted.               *)

Agent == {"Agent"}
Poisoned == {"Poisoned"}
Target == {"Target"}
Tracking == {"EdgeTracking"}
MountedAgent == <<Mounts(<<Agent>>, <<>>)>>
MountedEdge == <<Mounts(<<Agent, Target>>, <<<<0, Tracking>>>>)>>
BaseEdge == <<0, 0, 2>>

ShadowEdgePreservation ==
  MountedEdge \o <<Adds(Base, Poisoned), Commits, Leads(Base, {BaseEdge})>>

EdgeTombstoneFiltering ==
  MountedEdge \o <<Destroys(BaseEdge), Commits, Leads(Base, {})>>

MultiHopAlias ==
  MountedAgent \o <<Adds(Base, Target), Commits>> \o Patched(Base, Poisoned)
    \o <<HasMask(Base, Agent \cup Target \cup Poisoned)>>

DeepRedirectChain ==
  MountedAgent \o Repeat(Many, <<Adds(Base, Target), Commits, Pushes>>)
    \o <<HasMask(Base, Agent \cup Target)>>

GhostResurrection ==
  MountedEdge \o <<Destroys(BaseEdge), Commits, Pushes,
                   Registers(Base, Tracking), Commits,
                   Leads(Base, {<<2, 0, 0>>})>>

\* Two targets and two edges on each of several layers.
Scattered == Repeat(2, <<Creates(Target), Registers(Base, Tracking)>>)
ScatteredOn(layers) == {<<d, 0, k>> : d \in layers, k \in 2..3}

MultiTargetScatter ==
  MountedAgent \o Repeat(Many, Scattered \o <<Commits, Pushes>>)
    \o Scattered \o <<Commits, Leads(Base, ScatteredOn(1..(Many + 1)))>>

----------------------------------------------------------------------------
(* IntegrityTests.cpp.                                                     *)

DataA == {"DataA"}
DataB == {"DataB"}
DataLink == {"EdgeDataLink"}

\* One entity more than fits in a page.
SingularityBoundary ==
  Boot \o Repeat(PageSize + 1, <<Spawns(DataA, 0)>>)
    \o <<Commits, Finds(DataA, {<<1, 0, k>> : k \in 0..PageSize}),
         HasMask(<<1, 0, 0>>, DataA)>>

\* Two pages, all their slots but the first and the last erased.
BMI1JumpIteration ==
  LET last == 2 * PageSize - 1 IN
  Boot \o Repeat(2 * PageSize, <<Spawns(DataB, 0)>>)
    \o <<Commits, Finds(DataB, {<<1, 0, k>> : k \in 0..last})>>
    \o [k \in 1..(last - 1) |-> Destroys(<<1, 0, k>>)]
    \o <<Finds(DataB, {<<1, 0, 0>>, <<1, 0, last>>})>>

CrossLayerRedirectProbing ==
  <<Mounts(<<DataA>>, <<>>), Adds(Base, DataB), Commits,
    Chained(Base, <<Base, <<1, 0, 0>>>>), HasMask(Base, DataA \cup DataB),
    Finds(DataA, {<<1, 0, 0>>})>>

EdgeReificationObliteration ==
  LET source == <<1, 0, 0>>  target == <<1, 0, 1>>  edge == <<1, 0, 2>> IN
  Boot \o <<Creates(DataA), Creates(DataB), Registers(source, DataLink),
            Commits, Leads(source, {edge}), HasMask(edge, DataLink),
            Destroys(source), Destroys(edge), Leads(source, {}),
            HasMask(edge, {}), HasMask(target, DataB)>>

----------------------------------------------------------------------------
Tests ==
  [SpawnAndQuery |-> SpawnAndQuery, ComponentMutation |-> ComponentMutation,
   BipartiteEdge |-> BipartiteEdge, PartitionIsolation |-> PartitionIsolation,
   RedundantMutations |-> RedundantMutations,
   InvalidEntityDestruction |-> InvalidEntityDestruction,
   PatchMutation |-> PatchMutation, TombstoneErases |-> TombstoneErases,
   MultiHopMutation |-> MultiHopMutation, EdgeTombstoning |-> EdgeTombstoning,
   O1Resolution |-> O1Resolution, AliasChain |-> AliasChain,
   ColdBoot |-> ColdBoot, IndependentRoots |-> IndependentRoots,
   TombstoneOverRedirect |-> TombstoneOverRedirect,
   ShadowEdgePreservation |-> ShadowEdgePreservation,
   EdgeTombstoneFiltering |-> EdgeTombstoneFiltering,
   MultiHopAlias |-> MultiHopAlias, DeepRedirectChain |-> DeepRedirectChain,
   GhostResurrection |-> GhostResurrection,
   MultiTargetScatter |-> MultiTargetScatter,
   SingularityBoundary |-> SingularityBoundary,
   BMI1JumpIteration |-> BMI1JumpIteration,
   CrossLayerRedirectProbing |-> CrossLayerRedirectProbing,
   EdgeReificationObliteration |-> EdgeReificationObliteration]

Script == IF test \in DOMAIN Tests THEN Tests[test] ELSE <<>>
Look == {"finds", "has", "leads", "chained", "hidden", "pends"}

\* What the looks call: query_entities, get_dynamic_mask, get_outbound_edges,
\* get_redirect_chain with resolve_redirect, is_tombstoned, has_pending_spawns.
Agrees(l) ==
  CASE l.op = "finds" -> Iterated(l.e) = l.x
    [] l.op = "has" -> DynamicMask(l.e) = l.x
    [] l.op = "leads" -> OutboundEdges(l.e) = l.x
    [] l.op = "chained" ->
         RedirectChain(index, l.e) = l.x /\ Terminal(index, l.e) = Last(l.x)
    [] l.op = "hidden" -> IsTombstoned(index, l.e) = l.x
    [] l.op = "pends" -> HasPendingSpawns = l.x

\* A commit with nothing pending does nothing.
Call(l) ==
  \/ l.op = "create" /\ CreateEntity(l.x, 0)
  \/ l.op = "spawn" /\ QueueSpawn(l.x, l.e)
  \/ l.op = "edge" /\ QueueEdge(l.e, l.x)
  \/ l.op = "add" /\ AddComponent(l.e, l.x)
  \/ l.op = "remove" /\ RemoveComponent(l.e, l.x)
  \/ l.op = "destroy" /\ DestroyEntity(l.e)
  \/ l.op = "push" /\ PushLayer
  \/ l.op = "rebuild" /\ Rebuild
  \/ l.op = "mount" /\ MountReadonlyLayer(l.e, l.x)
  \/ l.op = "commit" /\ BeginCommit
  \/ /\ l.op \in Look \/ (l.op = "commit" /\ ~HasPendingSpawns)
     /\ mode = "idle"
     /\ UNCHANGED vars

TestInit == Init /\ test \in DOMAIN Tests \cup {"none"} /\ line = 1

TestStep ==
  /\ line <= Len(Script)
  /\ Call(Script[line])
  /\ line' = line + 1 /\ test' = test

TestCommit ==
  /\ test # "none"
  /\ CommitSpawn \/ CommitEdge \/ CommitTombstone \/ CommitPatch \/ EndCommit
  /\ UNCHANGED testVars

FreeClient == test = "none" /\ Next /\ UNCHANGED testVars

TestNext == TestStep \/ TestCommit \/ FreeClient

TestSpec == TestInit /\ [][TestNext]_<<vars, test, line>>

----------------------------------------------------------------------------
(* Properties *)

\* Every expectation of the four suites holds where the test looks.
TestsPass ==
  line <= Len(Script) /\ mode = "idle" /\ Script[line].op \in Look
    => Agrees(Script[line])
=============================================================================
