----------------------------- MODULE TestHarness -----------------------------
(***************************************************************************)
(* The test suites of the simple executive under every schedule.  A client *)
(* of the executive is either the free host of SimpleFrame or one of the   *)
(* TEST_Fs of SimpleTests, which sets up, calls execute_frame once and     *)
(* looks at what it left.                                                  *)
(*                                                                         *)
(* The frame, its graph, the database and the start of a system are those  *)
(* of SimpleFrame.  The payloads of the mocks are run here, instruction by *)
(* instruction, with the things the suites observe them by: a datum per    *)
(* entity, the tickets of record_timestamp, the guards of the fuzzer and   *)
(* the two logs of the executive.                                          *)
(***************************************************************************)
EXTENDS SimpleFrame, SimpleTests

CONSTANTS
  HostSystems,  \* bound: how many systems the free host registers
  FuzzSystems,  \* bound: how many generators a fuzzer iteration draws
  FuzzDatabases \* bound: the entities it may have created

ASSUME HarnessAssumption ==
  /\ HostSystems \in 0..MaxSystems
  /\ FuzzSystems \in 0..MaxSystems
  /\ FuzzDatabases \in Seq(Seq(Mask))

VARIABLES
  test,     \* the TEST_F that is run; 0: the free host
  drawn,    \* which of its systems it has registered, in order
  called,   \* whether execute_frame has been called
  todo,     \* what each payload has left to do
  loaded,   \* the register of an increment
  datum,    \* by id, the component data the test looks at
  guards,   \* g_fuzz_guards: the payloads between lock and unlock
  tickets,  \* g_execution_timestamps, in the order of the ticker
  log       \* execution_log and error_log

testVars == <<test, drawn>>
observed == <<loaded, datum, guards, tickets>>
harnessVars == <<testVars, called, todo, observed, log>>

Suites ==
  <<StaticExecution, JITLockEscalation, CyclicReEntrancy,
    WAWSeveredByAtomic, MixedAtomicContention, WARRAWSeveredByPrevious,
    InfiniteReEntrancy, ReEntrancyBounded, IsolatedNodeException,
    DeepCascadingDependency, MultipleIndependentCrashes, EmptyGraph,
    JITDeleteNonExistent, DeepLinearDependency, CompleteBipartiteContention,
    TheGhostNode, KamikazeSpawn, HourglassTsunami, SemanticBlender,
    JitTrapdoor, Ouroboros, IdExhaustion(MaxId), OomBadAlloc,
    NullMaskAllocation, StructuralThrashing, ChaosException>>
  \o [k \in DOMAIN FuzzDatabases |-> RandomizedDAG(FuzzDatabases[k], FuzzSystems)]

FreeHost == test = 0
Current == Suites[test]
MockOf(n) == Current.systems[drawn[n]]

\* A record that was never created: its id is skipped (debug_set_next_id).
Skipped(n) == [k \in 1..n |-> [mask |-> {}, alive |-> FALSE]]

\* The fixture's SetUp and the first lines of the test.
SetUp ==
  /\ test \in 0..Len(Suites)
  /\ IF FreeHost
     THEN /\ drawn = <<>>
          /\ entities = <<>>
     ELSE /\ drawn \in Current.drawn
          /\ entities = Skipped(Current.skipped) \o Created(Current.masks)
  /\ datum = [e \in 1..MaxId |->
                IF ~FreeHost /\ e \in DOMAIN entities THEN Current.data ELSE 0]

HarnessInit ==
  /\ SetUp
  /\ systems = [n \in DOMAIN drawn |-> MockOf(n).declares]
  /\ jitWrite = [n \in DOMAIN drawn |-> {}]
  /\ dependents = [n \in DOMAIN drawn |-> {}]
  /\ phase = "idle"
  /\ reEntry = 0
  /\ failed = Everywhere(FALSE)
  /\ aborted = Everywhere(FALSE)
  /\ resolved = {}
  /\ pending = <<>>
  /\ hasSpawns = FALSE
  /\ at = Everywhere("wait")
  /\ scanned = Everywhere(0)
  /\ hits = Everywhere(<<>>)
  /\ applied = Everywhere(0)
  /\ staged = Everywhere(0)
  /\ slot = Everywhere(0)
  /\ before = [entities |-> <<>>, pending |-> <<>>]
  /\ called = FALSE
  /\ todo = Everywhere(<<>>)
  /\ loaded = Everywhere(0)
  /\ guards = {}
  /\ tickets = <<>>
  /\ log = <<>>

-----------------------------------------------------------------------------
(* execute_frame, called by a test, and its logs.                          *)

Entries(what, nodes) ==
  LET inOrder == SetToSortSeq(nodes, <)
  IN  [k \in DOMAIN inOrder |-> <<what, inOrder[k]>>]

\* execute_jit_pre_pass reports a blast radius that is not empty.
Escalations(records) ==
  Entries("JIT Escalation",
          {n \in Node : /\ StaticDelete(systems[n]) # {}
                        /\ BlastRadius(systems[n], records) # {}})

CallExecuteFrame ==
  /\ ~called
  /\ called' = TRUE
  /\ BeginFrame
  /\ log' = Escalations(entities)
  /\ UNCHANGED <<testVars, todo, observed>>

\* No system is registered: execute_frame returns at once.
CallWithNothing ==
  /\ ~called
  /\ called' = TRUE
  /\ systems = <<>>
  /\ UNCHANGED <<vars, testVars, todo, observed, log>>

GoAround ==
  \/ /\ ReEnter
     /\ log' = log \o <<<<"Re-entrancy", 0>>>> \o Escalations(entities')
     /\ UNCHANGED <<testVars, called, todo, observed>>
  \/ (IdsExhausted \/ EndPass) /\ UNCHANGED harnessVars

Ended == called /\ ~InFrame

-----------------------------------------------------------------------------
(* Payloads.                                                               *)

\* An instruction is an operation and the entity it is for, if any.
Plainly(ops) == [k \in DOMAIN ops |-> <<ops[k], 0>>]
ForEntity(ops, e) == [k \in DOMAIN ops |-> <<ops[k], e>>]

Enter(n) ==
  /\ Start(n)
  /\ todo' = [todo EXCEPT ![n] = Plainly(MockOf(n).program)]
  /\ UNCHANGED <<testVars, called, observed, log>>

\* The next instruction of payload n is `op', for entity e.
NextIs(n, op) == n \in Running /\ todo[n] # <<>> /\ Head(todo[n])[1] = op
Subject(n) == Head(todo[n])[2]
Proceed(n) == todo' = [todo EXCEPT ![n] = Tail(@)]

Body(n, e) == IF e \in Current.marked THEN MockOf(n).each ELSE MockOf(n).others

\* query_entities, and the loop over what it returns.  A probe does what
\* follows once, if there is any.
Query(n) ==
  /\ NextIs(n, "query") \/ NextIs(n, "probe")
  /\ LET found == QueryEntities(entities, systems[n].query)
         visited == IF NextIs(n, "query") THEN found
                    ELSE {e \in found : \A f \in found : e <= f}
     IN  hits' = [hits EXCEPT ![n] = SetToSortSeq(visited, <)]
  /\ todo' = [todo EXCEPT ![n] =
                FlattenSeq([k \in DOMAIN hits'[n] |->
                              ForEntity(Body(n, hits'[n][k]), hits'[n][k])])
                  \o Tail(@)]
  /\ UNCHANGED <<frameVars, markVars, dbVars, at, scanned, applied, staged,
                 slot, before, testVars, called, observed, log>>

\* DatabaseAccess::destroy_entity, add_component, remove_component.
Change(n) ==
  /\ NextIs(n, "change")
  /\ Permitted(systems[n])
  /\ entities' = [entities EXCEPT ![Subject(n)] = Changed(@, systems[n])]
  /\ Proceed(n)
  /\ UNCHANGED <<frameVars, markVars, pending, hasSpawns, payloadVars, before,
                 testVars, called, observed, log>>

\* DatabaseAccess::queue_spawn.  No suite runs two spawners side by side.
Spawn(n) ==
  /\ NextIs(n, "spawn")
  /\ \E m \in systems[n].spawns : pending' = Append(pending, m)
  /\ hasSpawns' = TRUE
  /\ staged' = [staged EXCEPT ![n] = @ + 1]
  /\ Proceed(n)
  /\ UNCHANGED <<frameVars, markVars, entities, at, scanned, hits, applied,
                 slot, before, testVars, called, observed, log>>

\* The two halves of an increment of plain data.
Load(n) ==
  /\ NextIs(n, "load")
  /\ loaded' = [loaded EXCEPT ![n] = datum[Subject(n)]]
  /\ Proceed(n)
  /\ UNCHANGED <<vars, testVars, called, datum, guards, tickets, log>>

Overwrite(n, value) ==
  /\ datum' = [datum EXCEPT ![Subject(n)] = value]
  /\ Proceed(n)
  /\ UNCHANGED <<vars, testVars, called, loaded, guards, tickets, log>>

Store(n) == NextIs(n, "store") /\ Overwrite(n, loaded[n] + 1)
FetchAdd(n) == NextIs(n, "fetch_add") /\ Overwrite(n, datum[Subject(n)] + 1)
StoreReset(n) == NextIs(n, "reset") /\ Overwrite(n, Reset)

\* record_timestamp.
RecordTimestamp(n) ==
  /\ NextIs(n, "stamp")
  /\ tickets' = Append(tickets, n)
  /\ Proceed(n)
  /\ UNCHANGED <<vars, testVars, called, loaded, datum, guards, log>>

\* What execute_fuzz_payload locks: written components, the other read ones.
\* The mock that deletes passes the mask of what it deletes.
LocksToWrite(n) == systems[n].writes \union systems[n].deletes
LocksToRead(n) == systems[n].reads \ LocksToWrite(n)

Contended(n) ==
  \E m \in guards :
    \/ LocksToWrite(n) \intersect LocksToWrite(m) # {}
    \/ LocksToWrite(n) \intersect LocksToRead(m) # {}
    \/ LocksToRead(n) \intersect LocksToWrite(m) # {}

\* MemoryChunkGuard::lock_write and lock_read: a lock that is contended
\* throws "DATA RACE" and is never released.
LockGuards(n) ==
  /\ NextIs(n, "enter")
  /\ guards' = guards \union {n}
  /\ todo' = [todo EXCEPT ![n] =
                IF Contended(n) THEN <<<<"throw", 0>>>> ELSE Tail(@)]
  /\ UNCHANGED <<vars, testVars, called, loaded, datum, tickets, log>>

UnlockGuards(n) ==
  /\ NextIs(n, "leave")
  /\ guards' = guards \ {n}
  /\ Proceed(n)
  /\ UNCHANGED <<vars, testVars, called, loaded, datum, tickets, log>>

-----------------------------------------------------------------------------
(* The end of a payload: commit_node_result and what it logs.              *)

NewlyAborted == {j \in Node : aborted'[j] /\ ~aborted[j]}

Return(n) ==
  /\ n \in Running
  /\ todo[n] = <<>>
  /\ Resolve(n, FALSE)
  /\ log' = Append(log, <<"Executed", n>>)
  /\ UNCHANGED <<frameVars, dbVars, payloadVars, before, testVars, called,
                 todo, observed>>

Crash(n) ==
  /\ NextIs(n, "throw")
  /\ Throw(n)
  /\ todo' = [todo EXCEPT ![n] = <<>>]
  /\ log' = Append(log, <<"FAILED", n>>) \o Entries("ABORTED", NewlyAborted)
  /\ UNCHANGED <<testVars, called, observed>>

PassOver(n) ==
  /\ Skip(n)
  /\ log' = log \o Entries("ABORTED", NewlyAborted)
  /\ UNCHANGED <<testVars, called, todo, observed>>

MockStep(n) ==
  \/ Enter(n)
  \/ Query(n)
  \/ Change(n)
  \/ Spawn(n)
  \/ Load(n)
  \/ Store(n)
  \/ FetchAdd(n)
  \/ StoreReset(n)
  \/ RecordTimestamp(n)
  \/ LockGuards(n)
  \/ UnlockGuards(n)
  \/ Return(n)
  \/ Crash(n)
  \/ PassOver(n)

TestStep ==
  /\ ~FreeHost
  /\ \/ CallExecuteFrame
     \/ CallWithNothing
     \/ GoAround
     \/ \E n \in Node : MockStep(n)

\* The test is over.
Leave == ~FreeHost /\ Ended /\ UNCHANGED <<vars, harnessVars>>

FreeStep == FreeHost /\ Next /\ Len(systems') <= HostSystems
            /\ UNCHANGED harnessVars

HarnessNext == TestStep \/ Leave \/ FreeStep

HarnessSpec == HarnessInit /\ [][HarnessNext]_<<vars, harnessVars>>

-----------------------------------------------------------------------------
(* What the tests expect.                                                  *)

Logged(what, n) == <<what, n>> \in ToSet(log)

\* EXPECT_THROW, EXPECT_NO_THROW: the call throws just when the test says so,
\* for the reason it says.
EndsAsExpected == ~FreeHost /\ Ended => phase = Current.ends

\* get_execution_log and get_error_log: these systems crash and those are
\* aborted, each reported once, every other one executes, and where a test
\* counts the entries the count is right.
RunsAsExpected ==
  ~FreeHost /\ Ended =>
    /\ {n \in Node : failed[n]} = Current.crashes
    /\ {n \in Node : aborted[n]} = Current.aborts
    /\ \A n \in Node :
         IF n \in Current.crashes THEN Logged("FAILED", n)
         ELSE IF n \in Current.aborts THEN Logged("ABORTED", n)
         ELSE Logged("Executed", n)
    /\ \A n \in Current.crashes \union Current.aborts :
         Cardinality({k \in DOMAIN log : log[k][2] = n}) = 1
    /\ Current.logged # 0 => Len(log) = Current.logged

\* The order of execution, by the tickets where the payloads draw them and by
\* the log where they do not.
Witnessed ==
  IF tickets # <<>> THEN tickets
  ELSE [k \in DOMAIN log |-> log[k][2]]

Precedes(i, j) ==
  \E k, l \in DOMAIN Witnessed :
    k < l /\ Witnessed[k] = i /\ Witnessed[l] = j

InOrder(pairs) ==
  ~FreeHost /\ Ended =>
    \A pair \in pairs :
      Precedes(pair[1], pair[2]) /\ ~Precedes(pair[2], pair[1])

\* A deletion is placed between the systems on the components the condemned
\* entity turns out to have, and writers of one component in the order of
\* registration (EXPECT_LT on timestamps and log positions).
OrderAsWritten == InOrder(Current.order)

\* The same without the two expectations on the ghost system, which the code does
\* not see to (PathologicalTests.cpp:217-220).
OrderAsExpected == InOrder(Current.order \ Current.unordered)

\* What a final query finds: condemned entities are gone, and every spawn is
\* there, also that of a system which crashed after it.
DatabaseAsExpected ==
  ~FreeHost /\ Ended =>
    \A look \in Current.left : QueryEntities(entities, look[1]) = look[2]

\* No increment is lost and no reset overtaken, whatever runs in parallel.
DataAsExpected ==
  ~FreeHost /\ Ended => \A d \in Current.finally : datum[d[1]] = d[2]

\* The suites of the simple executive pass under every schedule, but for the two
\* EXPECT_LTs that put the ghost system between the reader and the writer of its
\* test (PathologicalTests.cpp:217-220): those depend on the schedule, and
\* OrderAsWritten, which has them, does not hold.
SuitesPass ==
  /\ EndsAsExpected /\ RunsAsExpected /\ OrderAsExpected
  /\ DatabaseAsExpected /\ DataAsExpected

\* "data_races_detected" is 0: no two payloads ever hold guards that exclude
\* each other, whichever systems the fuzzer draws and in whichever order.
NoDataRace ==
  \A m, n \in guards : m # n =>
    /\ LocksToWrite(n) \intersect LocksToWrite(m) = {}
    /\ LocksToWrite(n) \intersect LocksToRead(m) = {}

=============================================================================
