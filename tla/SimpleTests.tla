----------------------------- MODULE SimpleTests -----------------------------
(***************************************************************************)
(* The gtest suites of the simple executive                                *)
(* (src/Engine/TestUsagiExecutive/Simple/*Tests*.cpp) as data: components, *)
(* system mocks and, for each TEST_F, what it sets up and what it expects. *)
(* TestHarness runs them under every schedule.                             *)
(*                                                                         *)
(* A mock declares what its EntityQuery declares and runs a program, a     *)
(* sequence of instructions of TestHarness; `each' is the body of its loop *)
(* over the entities found, `others' the body for those a test has not     *)
(* marked.  An entity carries one number: the datum the test looks at.     *)
(*                                                                         *)
(* Counts are scaled down: the tests that register the same system many    *)
(* times register it Many times here, which is enough for every pair and   *)
(* every chain of the original to occur.                                   *)
(***************************************************************************)
EXTENDS ConflictGraph, FiniteSets, SequencesExt

Many == 2   \* bound: for 50, 100, 5'000 and 10'000

-----------------------------------------------------------------------------
(* Components and their bits, suite by suite.                              *)

NormalBit ==
  [Transform |-> 0, Velocity |-> 1, RenderMesh |-> 2, ParticleEmitter |-> 3,
   SpawnEvent |-> 4]

DataAccessBit == [SharedResource |-> 40, TemporalState |-> 41, StrictState |-> 42]

ErrorBit ==
  [NetworkState |-> 0, AIState |-> 1, Health |-> 2, InfiniteLoopTrigger |-> 3,
   CountdownToken |-> 4]

PathologicalBit == [PathoA |-> 30, PathoB |-> 31, PathoC |-> 32]

NasaBit ==
  [Hourglass |-> 50, Blender |-> 51, JitTarget |-> 52, JitTrigger |-> 53,
   OuroborosToken |-> 54, Avalanche |-> 55]

SingularityBit ==
  [SingularityA |-> 60, SingularityB |-> 61, VoidSpawnerToken |-> 62,
   ThrashA |-> 50, ThrashB |-> 51]

FuzzBit ==
  [C00 |-> 20, C01 |-> 21, C02 |-> 22, C03 |-> 23, C04 |-> 24, C05 |-> 25,
   C06 |-> 26, C07 |-> 27]

\* A mask of a suite is a set: no two of its components share a bit, and all
\* fit in 64.
ASSUME BitsDistinct ==
  \A bit \in {NormalBit, DataAccessBit, ErrorBit, PathologicalBit, NasaBit,
              SingularityBit, FuzzBit} :
    /\ \A c \in DOMAIN bit : bit[c] \in 0..63
    /\ \A c, d \in DOMAIN bit : bit[c] = bit[d] => c = d

TestComponents ==
  UNION {DOMAIN NormalBit, DOMAIN DataAccessBit, DOMAIN ErrorBit,
         DOMAIN PathologicalBit, DOMAIN NasaBit, DOMAIN SingularityBit,
         DOMAIN FuzzBit}

-----------------------------------------------------------------------------
(* System mocks.                                                           *)

Nothing ==
  [reads |-> {}, writes |-> {}, adds |-> {}, removes |-> {}, deletes |-> {},
   flags |-> {}, query |-> {}, effect |-> "none", operand |-> {},
   spawns |-> {}]

Reads(m) == [Nothing EXCEPT !.reads = m, !.query = m]
Writes(m) == [Nothing EXCEPT !.writes = m, !.query = m]
ReadsWrites(r, w) == [Nothing EXCEPT !.reads = r, !.writes = w]
Deletes(m) == [Reads(m) EXCEPT !.deletes = m, !.effect = "destroy"]
With(s, flag) == [s EXCEPT !.flags = {flag}]
SpawnsMask(s, m) == [s EXCEPT !.spawns = {m}]

Mock(s, program, each) ==
  [declares |-> s, program |-> program, each |-> each, others |-> each]
Idle(s) == Mock(s, <<>>, <<>>)
Looping(s, each) == Mock(s, <<"query">>, each)
Stamped(s) == Mock(s, <<"stamp">>, <<>>)
Crashing(s) == Mock(s, <<"throw">>, <<>>)
Guarded(s) == Mock(s, <<"enter", "leave">>, <<>>)

Increment == <<"load", "store">>

\* NormalTests.cpp
SystemUpdateTransforms ==
  Looping([ReadsWrites({"Velocity"}, {"Transform"})
             EXCEPT !.query = {"Velocity", "Transform"}], Increment)
SystemDeleteInvisibleMeshes ==
  [Looping(Deletes({"RenderMesh"}), <<"change">>) EXCEPT !.others = <<>>]
SystemProcessSpawnEvents ==
  Looping(SpawnsMask(Deletes({"SpawnEvent"}), {"Transform", "ParticleEmitter"}),
          <<"spawn", "change">>)

\* DataAccessTests.cpp
SysAtomicWriter ==
  Looping(With(Writes({"SharedResource"}), "Atomic"), <<"fetch_add">>)
SysStrictWriter == Looping(Writes({"SharedResource"}), <<"reset">>)
SysTemporalReader == Looping(With(Reads({"TemporalState"}), "Previous"), <<>>)
SysTemporalWriter == Looping(Writes({"TemporalState"}), Increment)

\* ErrorTests.cpp
SystemValidHealthRegen ==
  Looping([ReadsWrites({"Health"}, {"Health"}) EXCEPT !.query = {"Health"}],
          Increment)
SystemDeleteDeadAI == Idle(Deletes({"AIState"}))
SystemFaultySpawnsInfinite ==
  Mock(SpawnsMask(Reads({"InfiniteLoopTrigger"}), {"AIState"}),
       <<"probe">>, <<"spawn">>)
SystemBoundedNetworkRetry ==
  [Looping(SpawnsMask(Deletes({"CountdownToken"}), {"CountdownToken"}),
           <<"change", "spawn">>)
     EXCEPT !.others = <<"change">>]
SystemCrashingNetwork == Crashing(Writes({"NetworkState"}))
SystemCrashingAI == Crashing(Writes({"AIState"}))
SystemDependentOnNetwork == Idle(Reads({"NetworkState"}))
SystemDependentOnDependentNetwork == Idle(Writes({"NetworkState"}))

\* PathologicalTests.cpp
SysDeepChainNode == Idle(ReadsWrites({"PathoA"}, {"PathoB"}))
SysCrashRoot == Crashing(Writes({"PathoA"}))
SysBipartiteReader == Idle(Reads({"PathoA"}))
SysBipartiteWriter == Idle(Writes({"PathoA"}))
SysGhostNode ==
  Looping([Deletes({"PathoC"}) EXCEPT !.reads = {}, !.query = {}], <<"change">>)
SysKamikazeSpawner ==
  Mock(SpawnsMask(Reads({"PathoA"}), {"PathoB"}), <<"spawn", "throw">>, <<>>)

\* PathologicalTests2.cpp
SysHourglassTop == Idle(Reads({"Hourglass"}))
SysHourglassBottleneck == Idle(Writes({"Hourglass"}))
SysHourglassBottom == Idle(Reads({"Hourglass"}))
SysBlenderStrictWrite == Stamped(Writes({"Blender"}))
SysBlenderPreviousRead == Stamped(With(Reads({"Blender"}), "Previous"))
SysBlenderDiscardWrite == Stamped(With(Writes({"Blender"}), "Discard"))
SysBlenderAtomicWriteA == Stamped(With(Writes({"Blender"}), "Atomic"))
SysBlenderAtomicWriteB == Stamped(With(Writes({"Blender"}), "Atomic"))
SysTrapdoorPreWrite == Stamped(Writes({"JitTarget"}))
SysTrapdoorGhostDelete ==
  Mock(Deletes({"JitTrigger"}), <<"stamp", "query">>, <<"change">>)
SysTrapdoorPostRead == Stamped(Reads({"JitTarget"}))
SysOuroborosSpammer ==
  Looping(SpawnsMask(Deletes({"OuroborosToken"}), {"OuroborosToken"}),
          <<"change", "spawn">>)

\* SingularityTests.cpp
SysIdExhaustionSpammer ==
  Mock(SpawnsMask(Writes({"SingularityA"}), {"SingularityA"}),
       [i \in 1..Many |-> "spawn"], <<>>)
SysBadAllocThrower == Crashing(Writes({"SingularityA"}))
SysDependentOnBadAlloc == Idle(Reads({"SingularityA"}))
SysVoidSpawner ==
  Looping(SpawnsMask(Deletes({"VoidSpawnerToken"}), {}), <<"change", "spawn">>)
SysSavageAdder ==
  Looping([Reads({"ThrashA"}) EXCEPT !.adds = {"ThrashB"}, !.effect = "add",
                                     !.operand = {"ThrashB"}], <<"change">>)
SysSavageRemover ==
  Looping([Reads({"ThrashB"}) EXCEPT !.removes = {"ThrashA"},
                                     !.effect = "remove",
                                     !.operand = {"ThrashA"}], <<"change">>)
SysSavageQuerySpammer ==
  Mock(With(Reads({"ThrashA", "ThrashB"}), "Previous"),
       [i \in 1..Many |-> "query"], <<>>)

\* ParallelFuzzerTests.cpp
FuzzSys0 == Guarded(Writes({"C00"}))
FuzzSys1 == Guarded(ReadsWrites({"C00"}, {"C01"}))
FuzzSys2 == Guarded(ReadsWrites({"C00"}, {"C02"}))
FuzzSys3 == Guarded(Writes({"C01", "C02"}))
FuzzSys4 == Guarded(ReadsWrites({"C01", "C02"}, {"C03"}))
FuzzSys5 == Guarded(ReadsWrites({"C03"}, {"C04", "C05"}))
FuzzSys6 == Guarded(ReadsWrites({"C04", "C05"}, {"C06"}))
FuzzSysJITDelete ==
  Mock(Deletes({"C07"}), <<"enter", "leave", "query">>, <<"change">>)
FuzzSysChaosCrash == Mock(Writes({"C06"}), <<"enter", "leave", "throw">>, <<>>)

-----------------------------------------------------------------------------
(* The tests.  A test creates entities, gives them data and marks, and     *)
(* registers systems (`drawn' tells which, by position); then it executes  *)
(* a frame and looks at how the call ended, at the two logs, at the order  *)
(* of some systems and at what is left in the database.  `order' has the   *)
(* pairs of systems it expects one before the other, `unordered' those of  *)
(* them for which the code does nothing.                                   *)

Test(masks, registered) ==
  [masks |-> masks, skipped |-> 0, data |-> 0, marked |-> {},
   systems |-> registered, drawn |-> {[k \in DOMAIN registered |-> k]},
   ends |-> "idle", crashes |-> {}, aborts |-> {}, logged |-> 0,
   order |-> {}, unordered |-> {}, left |-> {}, finally |-> {}]

Times(n, s) == [i \in 1..n |-> s]

\* NormalTests.cpp
StaticExecution ==
  [Test(<<{"Transform", "Velocity"}>>, <<SystemUpdateTransforms>>)
     EXCEPT !.data = 10, !.logged = 1, !.finally = {<<1, 11>>}]

JITLockEscalation ==
  LET dual == {"Transform", "Velocity", "RenderMesh"}
  IN  [Test(<<dual, dual>>,
            <<SystemDeleteInvisibleMeshes, SystemUpdateTransforms>>)
         EXCEPT !.marked = {2}, !.order = {<<1, 2>>}, !.finally = {<<1, 1>>},
                !.left = {<<{"Transform"}, {1}>>}]

CyclicReEntrancy ==
  [Test(<<{"SpawnEvent"}>>, <<SystemProcessSpawnEvents>>)
     EXCEPT !.left = {<<{"SpawnEvent"}, {}>>,
                      <<{"ParticleEmitter", "Transform"}, {2}>>}]

\* DataAccessTests.cpp
WAWSeveredByAtomic ==
  [Test(<<{"SharedResource"}>>, Times(Many + 1, SysAtomicWriter))
     EXCEPT !.logged = Many + 1, !.finally = {<<1, Many + 1>>}]

Reset == 0 - 999

MixedAtomicContention ==
  [Test(<<{"SharedResource"}>>,
        Times(Many, SysAtomicWriter) \o <<SysStrictWriter>>
          \o Times(Many, SysAtomicWriter))
     EXCEPT !.finally = {<<1, Reset + Many>>}]

WARRAWSeveredByPrevious ==
  [Test(<<{"TemporalState"}>>,
        <<SysTemporalReader, SysTemporalWriter,
          SysTemporalWriter, SysTemporalReader>>)
     EXCEPT !.data = 10, !.logged = 4, !.finally = {<<1, 12>>}]

\* ErrorTests.cpp
InfiniteReEntrancy ==
  [Test(<<{"InfiniteLoopTrigger"}>>, <<SystemFaultySpawnsInfinite>>)
     EXCEPT !.ends = "overrun"]

ReEntrancyBounded ==
  [Test(<<{"CountdownToken"}>>, <<SystemBoundedNetworkRetry>>)
     EXCEPT !.marked = {1}]

IsolatedNodeException ==
  [Test(<<{"Health"}>>, <<SystemCrashingNetwork, SystemValidHealthRegen>>)
     EXCEPT !.data = 5, !.crashes = {1}, !.finally = {<<1, 6>>}]

DeepCascadingDependency ==
  [Test(<<>>, <<SystemCrashingNetwork, SystemDependentOnNetwork,
                SystemDependentOnDependentNetwork>>)
     EXCEPT !.crashes = {1}, !.aborts = {2, 3}]

MultipleIndependentCrashes ==
  [Test(<<{"Health"}>>, <<SystemCrashingNetwork, SystemCrashingAI,
                          SystemValidHealthRegen>>)
     EXCEPT !.data = 10, !.crashes = {1, 2}, !.finally = {<<1, 11>>}]

EmptyGraph == Test(<<>>, <<>>)

JITDeleteNonExistent ==
  [Test(<<{"Health"}>>, <<SystemDeleteDeadAI, SystemValidHealthRegen>>)
     EXCEPT !.data = 1, !.logged = 2, !.finally = {<<1, 2>>}]

\* PathologicalTests.cpp
DeepLinearDependency ==
  [Test(<<>>, <<SysCrashRoot>> \o Times(Many + 1, SysDeepChainNode))
     EXCEPT !.crashes = {1}, !.aborts = 2..(Many + 2)]

CompleteBipartiteContention ==
  [Test(<<>>, Times(Many, SysBipartiteReader) \o Times(Many, SysBipartiteWriter))
     EXCEPT !.logged = 2 * Many]

\* The test expects reader < ghost < writer.  The code orders neither of the two
\* with the ghost: no entity has PathoC, so its blast radius is empty.
TheGhostNode ==
  [Test(<<{"PathoA"}, {"PathoB"}>>,
        <<SysBipartiteReader, SysGhostNode, SysBipartiteWriter>>)
     EXCEPT !.logged = 3, !.left = {<<{}, {}>>},
            !.order = {<<1, 2>>, <<2, 3>>, <<1, 3>>},
            !.unordered = {<<1, 2>>, <<2, 3>>}]

KamikazeSpawn ==
  [Test(<<{"PathoA"}>>, <<SysKamikazeSpawner>>)
     EXCEPT !.crashes = {1}, !.left = {<<{"PathoB"}, {2}>>}]

\* PathologicalTests2.cpp
HourglassTsunami ==
  [Test(<<{"Hourglass"}>>,
        Times(Many, SysHourglassTop) \o <<SysHourglassBottleneck>>
          \o Times(Many, SysHourglassBottom))
     EXCEPT !.logged = 2 * Many + 1]

SemanticBlender ==
  [Test(<<{"Blender"}>>,
        <<SysBlenderPreviousRead, SysBlenderStrictWrite, SysBlenderDiscardWrite,
          SysBlenderAtomicWriteA, SysBlenderAtomicWriteB>>)
     EXCEPT !.order = {<<2, 3>>, <<3, 4>>, <<3, 5>>}]

JitTrapdoor ==
  [Test(<<{"JitTarget", "JitTrigger"}>>,
        <<SysTrapdoorPreWrite, SysTrapdoorGhostDelete, SysTrapdoorPostRead>>)
     EXCEPT !.order = {<<1, 2>>, <<2, 3>>}]

Ouroboros ==
  [Test(<<{"OuroborosToken"}>>, <<SysOuroborosSpammer>>)
     EXCEPT !.ends = "overrun"]

\* SingularityTests.cpp
IdExhaustion(maxId) ==
  [Test(<<>>, <<SysIdExhaustionSpammer>>)
     EXCEPT !.skipped = maxId - 1, !.ends = "exhausted"]

OomBadAlloc ==
  [Test(<<>>, <<SysBadAllocThrower, SysDependentOnBadAlloc>>)
     EXCEPT !.crashes = {1}, !.aborts = {2}]

NullMaskAllocation ==
  [Test(<<{"VoidSpawnerToken"}>>, <<SysVoidSpawner>>)
     EXCEPT !.left = {<<{}, {2}>>}]

StructuralThrashing ==
  [Test(<<{"ThrashA"}, {"ThrashB"}>>,
        <<SysSavageAdder, SysSavageRemover, SysSavageQuerySpammer,
          SysSavageAdder, SysSavageRemover, SysSavageQuerySpammer>>)
     EXCEPT !.logged = 6]

\* ParallelFuzzerTests.cpp
SystemGenerators ==
  <<FuzzSys0, FuzzSys1, FuzzSys2, FuzzSys3, FuzzSys4, FuzzSys5, FuzzSys6,
    FuzzSysJITDelete>>

\* Any n distinct generators in any order.
RandomizedDAG(masks, n) ==
  [Test(masks, SystemGenerators)
     EXCEPT !.drawn = {p \in [1..n -> DOMAIN SystemGenerators] :
                         \A i, j \in 1..n : p[i] = p[j] => i = j}]

ChaosException ==
  [Test(<<{"C00"}>>,
        <<FuzzSys0, FuzzSys1, FuzzSys2, FuzzSysChaosCrash, FuzzSys6>>)
     EXCEPT !.crashes = {4}, !.aborts = {5}]

=============================================================================
