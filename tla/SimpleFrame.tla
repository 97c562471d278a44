----------------------------- MODULE SimpleFrame -----------------------------
(***************************************************************************)
(* A frame of the simple executive over its entity database: what the      *)
(* dependency graph is computed from, what payloads do to the database     *)
(* while others run, and what a pass leaves for the next one               *)
(* (src/Engine/TestUsagiExecutive/Simple/{Executive,EntityDatabase}.hpp).  *)
(*                                                                         *)
(* Scheduling is that of DagRun: a system may start when everything before *)
(* it is over and alive.  TaskDispatch shows that the thread pool does no  *)
(* more than that.                                                         *)
(*                                                                         *)
(* A payload has the shape of the systems in the tests: it queries the     *)
(* database once and then, entity by entity, changes its structure and     *)
(* queues a spawn.  Each record visited by the query, each structural      *)
(* change and each half of a push_back is a step of its own, so payloads   *)
(* that are not ordered interleave there.  A payload may throw anywhere.   *)
(*                                                                         *)
(* An entity's id is its place in the table: next_id starts at 1 and a     *)
(* record is never erased.                                                 *)
(***************************************************************************)
EXTENDS ConflictGraph, FiniteSets, SequencesExt

CONSTANTS
  Catalog,       \* the system types that may be registered
  Mixes,         \* bound: the sets of types that are registered together
  MaxSystems,    \* bound: how many systems are registered at a time
  InitialMasks,  \* the masks of the entities the host creates
  MaxHostEntities, \* bound: the host creates entities up to this many
  MaxId,         \* the last id before INVALID_ENTITY
  MaxPending,    \* bound: the memory of the partition, then bad_alloc
  MaxReEntries   \* MAX_RE_ENTRIES

ASSUME BoundsAssumption ==
  /\ MaxSystems \in Nat
  /\ MaxHostEntities \in Nat
  /\ MaxId \in Nat
  /\ MaxPending \in Nat
  /\ MaxReEntries \in Nat

ASSUME MixesAssumption == Mixes \subseteq SUBSET Catalog

ASSUME InitialAssumption == InitialMasks \subseteq Mask

ASSUME CatalogAssumption ==
  Catalog \subseteq [reads : Mask, writes : Mask, adds : Mask, removes : Mask,
                     deletes : Mask,
                     flags : SUBSET {"Previous", "Atomic", "Discard"},
                     query : Mask,
                     effect : {"none", "destroy", "add", "remove"},
                     operand : Mask,
                     spawns : SUBSET Mask]

VARIABLES
  phase,      \* where the caller of execute_frame stands
  reEntry,    \* re_entry_counter
  systems,    \* TaskGraphExecutive::systems
  jitWrite,   \* SystemNode::jit_write_mask
  dependents, \* SystemNode::dependents
  failed,     \* SystemNode::failed
  aborted,    \* SystemNode::aborted_due_to_dependency
  resolved,   \* the nodes this pass is finished with
  entities,   \* EntityDatabase::entities
  pending,    \* spawn_partitions[0], the only partition the executive uses
  hasSpawns,  \* EntityDatabase::has_spawns
  at,         \* where each payload stands
  scanned,    \* how many records its query has visited
  hits,       \* the ids the query has found
  applied,    \* how many of them it has changed
  staged,     \* for how many of them it has queued a spawn
  slot,       \* where an unfinished push_back is about to write
  before      \* history: the database as the pass found it

frameVars == <<phase, reEntry, systems, jitWrite, dependents>>
markVars == <<failed, aborted, resolved>>
dbVars == <<entities, pending, hasSpawns>>
payloadVars == <<at, scanned, hits, applied, staged, slot>>
vars == <<frameVars, markVars, dbVars, payloadVars, before>>

Index == 1..MaxSystems
Node == DOMAIN systems

Dead(n) == failed[n] \/ aborted[n]
Pred(n) == {i \in Node : n \in dependents[i]}
Running == {n \in Node : at[n] # "wait" /\ n \notin resolved}
Alive(e) == entities[e].alive

InFrame == phase \in {"pass", "reenter"}

-----------------------------------------------------------------------------
(* The host, between frames.                                               *)

Everywhere(x) == [n \in Index |-> x]

Init ==
  /\ phase = "idle"
  /\ reEntry = 0
  /\ systems = <<>>
  /\ jitWrite = <<>>
  /\ dependents = <<>>
  /\ failed = Everywhere(FALSE)
  /\ aborted = Everywhere(FALSE)
  /\ resolved = {}
  /\ entities = <<>>
  /\ pending = <<>>
  /\ hasSpawns = FALSE
  /\ at = Everywhere("wait")
  /\ scanned = Everywhere(0)
  /\ hits = Everywhere(<<>>)
  /\ applied = Everywhere(0)
  /\ staged = Everywhere(0)
  /\ slot = Everywhere(0)
  /\ before = [entities |-> <<>>, pending |-> <<>>]

\* SystemNode::failed and aborted_due_to_dependency are cleared.
ClearMarks ==
  /\ failed' = Everywhere(FALSE)
  /\ aborted' = Everywhere(FALSE)

\* The payloads' locals exist only during a pass.
ResetPayloads ==
  /\ at' = Everywhere("wait")
  /\ scanned' = Everywhere(0)
  /\ hits' = Everywhere(<<>>)
  /\ applied' = Everywhere(0)
  /\ staged' = Everywhere(0)
  /\ slot' = Everywhere(0)

RegisterSystem(s) ==
  /\ ~InFrame
  /\ Len(systems) < MaxSystems
  /\ \E mix \in Mixes : ToSet(systems) \union {s} \subseteq mix
  /\ systems' = Append(systems, s)
  /\ jitWrite' = Append(jitWrite, {})
  /\ dependents' = Append(dependents, {})
  /\ UNCHANGED <<phase, reEntry, markVars, dbVars, payloadVars, before>>

ClearSystems ==
  /\ ~InFrame
  /\ systems' = <<>>
  /\ jitWrite' = <<>>
  /\ dependents' = <<>>
  /\ ClearMarks
  /\ resolved' = {}
  /\ UNCHANGED <<phase, reEntry, dbVars, payloadVars, before>>

CreateEntity(m) ==
  /\ ~InFrame
  /\ Len(entities) < MaxHostEntities
  /\ Len(entities) < MaxId
  /\ entities' = Append(entities, [mask |-> m, alive |-> TRUE])
  /\ UNCHANGED <<frameVars, markVars, pending, hasSpawns, payloadVars, before>>

ClearDatabase ==
  /\ ~InFrame
  /\ entities' = <<>>
  /\ pending' = <<>>
  /\ hasSpawns' = FALSE
  /\ UNCHANGED <<frameVars, markVars, payloadVars, before>>

-----------------------------------------------------------------------------
(* The caller of execute_frame.                                            *)

\* execute_jit_pre_pass and build_topological_graph over `records', then the
\* start of the pass.
StartPass(records, queue) ==
  /\ phase' = "pass"
  /\ jitWrite' = [n \in Node |-> JitWriteMask(systems[n], records)]
  /\ dependents' = TopologicalGraph(systems, jitWrite')
  /\ resolved' = {}
  /\ ResetPayloads
  /\ before' = [entities |-> records, pending |-> queue]

\* What an earlier frame left in the queue waits for the second pass.
BeginFrame ==
  /\ ~InFrame
  /\ systems # <<>>
  /\ reEntry' = 0
  /\ ClearMarks
  /\ StartPass(entities, pending)
  /\ UNCHANGED <<systems, dbVars>>

Created(masks) == [k \in DOMAIN masks |-> [mask |-> masks[k], alive |-> TRUE]]

\* commit_pending_spawns, and the next pass over what it has created.
ReEnter ==
  /\ phase = "reenter"
  /\ Len(entities) + Len(pending) <= MaxId
  /\ entities' = entities \o Created(pending)
  /\ pending' = <<>>
  /\ hasSpawns' = FALSE
  /\ StartPass(entities', <<>>)
  /\ UNCHANGED <<reEntry, systems, failed, aborted>>

\* The ids run out half way: what was created stays, the partition is not
\* cleared, has_spawns is still set and the exception leaves execute_frame.
IdsExhausted ==
  /\ phase = "reenter"
  /\ Len(entities) + Len(pending) > MaxId
  /\ entities' = entities \o
                   Created(SubSeq(pending, 1, MaxId - Len(entities)))
  /\ phase' = "exhausted"
  /\ UNCHANGED <<reEntry, systems, jitWrite, dependents, markVars, pending,
                 hasSpawns, payloadVars, before>>

\* Variant of MorePending: the queue of a crashed system does not count.
SpawnsOfTheLiving == hasSpawns /\ \A n \in Node : ~failed[n]

\* has_pending_spawns.
MorePending == hasSpawns

\* Variant of Overrun: the limit is compared before the increment.
OverrunLate(passes) == passes - 1 > MaxReEntries

Overrun(passes) == passes > MaxReEntries

\* dispatch_tasks returns; execute_frame returns, re-enters or gives up.
EndPass ==
  /\ phase = "pass"
  /\ resolved = Node
  /\ reEntry' = reEntry + 1
  /\ phase' = IF ~MorePending THEN "idle"
              ELSE IF Overrun(reEntry') THEN "overrun"
              ELSE "reenter"
  /\ resolved' = {}
  /\ ResetPayloads
  /\ UNCHANGED <<systems, jitWrite, dependents, failed, aborted, dbVars,
                 before>>

-----------------------------------------------------------------------------
(* A system.                                                               *)

\* Variant of Resolve: an exception stays with the system that threw it.
ResolveAlone(n, crash) ==
  /\ resolved' = resolved \union {n}
  /\ failed' = [failed EXCEPT ![n] = @ \/ crash]
  /\ aborted' = aborted

\* commit_node_result, with abort_immediate_dependents for a dead node.
Resolve(n, crash) ==
  /\ resolved' = resolved \union {n}
  /\ failed' = [failed EXCEPT ![n] = @ \/ crash]
  /\ aborted' = [j \in Index |->
                   aborted[j] \/ ((crash \/ Dead(n)) /\ j \in dependents[n])]

Start(n) ==
  /\ phase = "pass"
  /\ at[n] = "wait"
  /\ n \notin resolved
  /\ ~Dead(n)
  /\ Pred(n) \subseteq resolved
  /\ at' = [at EXCEPT ![n] = "scan"]
  /\ UNCHANGED <<frameVars, markVars, dbVars, scanned, hits, applied, staged,
                 slot, before>>

Skip(n) ==
  /\ phase = "pass"
  /\ n \notin resolved
  /\ Dead(n)
  /\ Pred(n) \subseteq resolved
  /\ Resolve(n, FALSE)
  /\ UNCHANGED <<frameVars, dbVars, payloadVars, before>>

\* query_entities looks at the next record.
ScanRecord(n) ==
  /\ n \in Running
  /\ at[n] = "scan"
  /\ scanned[n] < Len(entities)
  /\ LET e == scanned[n] + 1
     IN  /\ scanned' = [scanned EXCEPT ![n] = e]
         /\ hits' = IF Matches(entities[e], systems[n].query)
                    THEN [hits EXCEPT ![n] = Append(@, e)]
                    ELSE hits
  /\ UNCHANGED <<frameVars, markVars, dbVars, at, applied, staged, slot,
                 before>>

EndScan(n) ==
  /\ n \in Running
  /\ at[n] = "scan"
  /\ scanned[n] = Len(entities)
  /\ at' = [at EXCEPT ![n] = "apply"]
  /\ UNCHANGED <<frameVars, markVars, dbVars, scanned, hits, applied, staged,
                 slot, before>>

\* DatabaseAccess: the change was declared.  An undeclared destroy does not
\* compile; an undeclared add or remove throws.
Permitted(s) ==
  /\ s.effect = "destroy" => s.deletes # {}
  /\ s.effect = "add" => s.operand \subseteq s.adds
  /\ s.effect = "remove" => s.operand \subseteq s.removes

\* Variant: add_component revives the record it finds.
ChangedReviving(rec, s) ==
  IF s.effect = "destroy"
  THEN [mask |-> {}, alive |-> FALSE]
  ELSE IF s.effect = "add"
  THEN [mask |-> rec.mask \union s.operand, alive |-> TRUE]
  ELSE IF s.effect = "remove"
  THEN [mask |-> rec.mask \ s.operand, alive |-> rec.alive]
  ELSE rec

\* destroy_entity_immediate, add_component_immediate and
\* remove_component_immediate on one record; the last two look for a live one.
Changed(rec, s) ==
  IF s.effect = "destroy"
  THEN [mask |-> {}, alive |-> FALSE]
  ELSE IF s.effect = "add" /\ rec.alive
  THEN [mask |-> rec.mask \union s.operand, alive |-> TRUE]
  ELSE IF s.effect = "remove" /\ rec.alive
  THEN [mask |-> rec.mask \ s.operand, alive |-> TRUE]
  ELSE rec

Spawning(n) == systems[n].spawns # {}

\* The payload changes the next entity it has found.
ApplyChange(n) ==
  /\ n \in Running
  /\ at[n] = "apply"
  /\ applied[n] < Len(hits[n])
  /\ Spawning(n) => staged[n] = applied[n]
  /\ Permitted(systems[n])
  /\ LET e == hits[n][applied[n] + 1]
     IN  entities' = [entities EXCEPT ![e] = Changed(@, systems[n])]
  /\ applied' = [applied EXCEPT ![n] = @ + 1]
  /\ UNCHANGED <<frameVars, markVars, pending, hasSpawns, at, scanned, hits,
                 staged, slot, before>>

\* Variant of EndOf: the last element for the place after it.
LastOf(queue) == Len(queue)

\* Where push_back is going to write.
EndOf(queue) == Len(queue) + 1

\* queue_spawn, first half: push_back finds the end of the partition.
ReserveSlot(n) ==
  /\ n \in Running
  /\ at[n] = "apply"
  /\ Spawning(n)
  /\ staged[n] < applied[n]
  /\ Len(pending) < MaxPending
  /\ slot' = [slot EXCEPT ![n] = EndOf(pending)]
  /\ at' = [at EXCEPT ![n] = "push"]
  /\ UNCHANGED <<frameVars, markVars, dbVars, scanned, hits, applied, staged,
                 before>>

\* queue_spawn, second half: it writes there and moves the end.  When another
\* thread has moved the end in the meantime, one of the two elements is lost:
\* this one overwrites the other's, or goes to a buffer already given up.
PushSpawn(n) ==
  /\ n \in Running
  /\ at[n] = "push"
  /\ \E m \in systems[n].spawns :
       pending' \in IF slot[n] = Len(pending) + 1
                    THEN {Append(pending, m)}
                    ELSE {[pending EXCEPT ![slot[n]] = m], pending}
  /\ hasSpawns' = TRUE
  /\ staged' = [staged EXCEPT ![n] = @ + 1]
  /\ at' = [at EXCEPT ![n] = "apply"]
  /\ UNCHANGED <<frameVars, markVars, entities, scanned, hits, applied, slot,
                 before>>

Finish(n) ==
  /\ n \in Running
  /\ at[n] = "apply"
  /\ applied[n] = Len(hits[n])
  /\ Spawning(n) => staged[n] = applied[n]
  /\ Resolve(n, FALSE)
  /\ UNCHANGED <<frameVars, dbVars, payloadVars, before>>

Throw(n) ==
  /\ n \in Running
  /\ at[n] # "push"
  /\ Resolve(n, TRUE)
  /\ UNCHANGED <<frameVars, dbVars, payloadVars, before>>

SystemStep(n) ==
  \/ Start(n)
  \/ Skip(n)
  \/ ScanRecord(n)
  \/ EndScan(n)
  \/ ApplyChange(n)
  \/ ReserveSlot(n)
  \/ PushSpawn(n)
  \/ Finish(n)
  \/ Throw(n)

HostStep ==
  \/ \E s \in Catalog : RegisterSystem(s)
  \/ ClearSystems
  \/ \E m \in InitialMasks : CreateEntity(m)
  \/ ClearDatabase

FrameStep == BeginFrame \/ ReEnter \/ IdsExhausted \/ EndPass

Next == HostStep \/ FrameStep \/ \E n \in Node : SystemStep(n)

Spec == Init /\ [][Next]_vars

-----------------------------------------------------------------------------
(* Properties.                                                             *)

FrameTypes ==
  /\ phase \in {"idle", "pass", "reenter", "overrun", "exhausted"}
  /\ reEntry \in 0..(MaxReEntries + 1)
  /\ systems \in Seq(Catalog)
  /\ Len(systems) <= MaxSystems
  /\ jitWrite \in [Node -> Mask]
  /\ dependents \in [Node -> SUBSET Node]

MarkTypes ==
  /\ failed \in [Index -> BOOLEAN]
  /\ aborted \in [Index -> BOOLEAN]
  /\ resolved \subseteq Node

DatabaseTypes ==
  /\ entities \in Seq(Record)
  /\ Len(entities) <= MaxId
  /\ pending \in Seq(Mask)
  /\ hasSpawns \in BOOLEAN
  /\ before \in [entities : Seq(Record), pending : Seq(Mask)]

PayloadTypes ==
  /\ at \in [Index -> {"wait", "scan", "apply", "push"}]
  /\ scanned \in [Index -> Nat]
  /\ hits \in [Index -> Seq(Nat)]
  /\ applied \in [Index -> Nat]
  /\ staged \in [Index -> Nat]
  /\ slot \in [Index -> Nat]

TypeOK == FrameTypes /\ MarkTypes /\ DatabaseTypes /\ PayloadTypes

\* Two systems overlap on a component that one of them declares to write only
\* with the licence the flags give: the reader looks at the previous frame,
\* or both writers are atomic.  (What MemoryChunkGuard of the fuzzer watches.)
LicensedOverlap ==
  \A i, j \in Running, c \in Component : i # j /\ c \in StaticWrite(systems[i]) =>
    /\ c \in StaticRead(systems[j]) => "Previous" \in systems[j].flags
    /\ c \in StaticWrite(systems[j]) =>
         "Atomic" \in systems[i].flags \intersect systems[j].flags

Condemned(n) ==
  {hits[n][k] : k \in {i \in DOMAIN hits[n] : i > applied[n]}}

\* An entity about to be destroyed is out of everybody else's reach: no
\* running system declares a component the entity has.  This is what the JIT
\* pre-pass is for: "if v_k destroys an entity possessing an undeclared
\* component c_x, the DAG automatically injects an edge to serialize v_k
\* against any parallel system reading/writing c_x" (Docs/Execution.md).
EscalationComplete ==
  \A d, j \in Running : d # j /\ systems[d].effect = "destroy" =>
    \A e \in Condemned(d) : Alive(e) =>
      /\ entities[e].mask \intersect StaticWrite(systems[j]) = {}
      /\ "Previous" \notin systems[j].flags =>
           entities[e].mask \intersect StaticRead(systems[j]) = {}

\* No registered system adds components; a deleter declares what it deletes,
\* looks for nothing less than its target signature and is not Atomic.
DeletersOnly ==
  \A n \in Node :
    /\ systems[n].effect # "add"
    /\ systems[n].effect = "destroy" =>
         /\ systems[n].deletes # {}
         /\ TargetSignature(systems[n]) \subseteq systems[n].query
         /\ "Atomic" \notin systems[n].flags

\* Where nobody adds components the escalation is complete.
CondemnedExclusive == DeletersOnly => EscalationComplete

\* DatabaseAccess lets a payload query for anything.  This system looks for
\* components it has declared, and for at least one.
AsksForDeclared(s) ==
  s.query # {} /\ s.query \subseteq StaticRead(s) \union StaticWrite(s)

\* No flag relaxes an edge, queries are declared, and nobody adds components
\* while others delete.
Plain ==
  /\ \A n \in Node : systems[n].flags = {} /\ AsksForDeclared(systems[n])
  /\ DeletersOnly \/ \A n \in Node : systems[n].effect # "destroy"

Ran(n) == at[n] # "wait"

\* The sequential run of system n on `records', as far as it got.
RunAlone(records, n) ==
  LET found == QueryEntities(records, systems[n].query)
      reached == {e \in found :
                    failed[n] => Cardinality({d \in found : d <= e}) <= applied[n]}
  IN  [e \in DOMAIN records |->
         IF e \in reached THEN Changed(records[e], systems[n]) ELSE records[e]]

\* The database after the first n systems, had they run one by one.
Serial ==
  LET after[n \in 0..Len(systems)] ==
        IF n = 0 THEN before.entities
        ELSE IF Ran(n) THEN RunAlone(after[n - 1], n)
        ELSE after[n - 1]
  IN  after

\* A plain pass is equivalent to running its systems one after the other in the
\* order of registration: it leaves the same entities behind, and every
\* system that did not throw found the entities it would have found then.
SerialEquivalence ==
  phase = "pass" /\ resolved = Node /\ Plain =>
    /\ entities = Serial[Len(systems)]
    /\ \A n \in Node : Ran(n) /\ ~failed[n] =>
         ToSet(hits[n]) = QueryEntities(Serial[n - 1], systems[n].query)

\* What the systems stage in order of registration, count[n] by system n.
StagedWith(count) ==
  LET upTo[n \in 0..Len(systems)] ==
        IF n = 0 THEN <<>>
        ELSE upTo[n - 1] \o
             [k \in 1..count[n] |-> CHOOSE m \in systems[n].spawns : TRUE]
  IN  upTo[Len(systems)]

StagedBy == StagedWith(staged)

\* The spawn queue does not depend on how the threads were scheduled, so
\* neither do the ids: "guarantees deterministic bit-for-bit ID assignment
\* regardless of thread scheduling" (EntityDatabase.hpp).
DeterministicStaging ==
  phase = "pass" /\ resolved = Node =>
    pending = before.pending \o StagedBy

\* The graph orders i before j, directly or through others: whatever contains
\* the predecessors of j and of its members contains i.
RunsBefore(i, j) ==
  \A done \in SUBSET Node :
    (\A n \in done \union {j} : Pred(n) \subseteq done) => i \in done

\* Every registered system spawns entities of one kind at most, and any two
\* that spawn are ordered.
SpawnersInOrder ==
  /\ \A n \in Node : \A m, w \in systems[n].spawns : m = w
  /\ \A i, j \in Node : i < j /\ Spawning(i) /\ Spawning(j) => RunsBefore(i, j)

\* System s runs to its end on `records', alone.
Completed(records, s) ==
  [e \in DOMAIN records |->
     IF e \in QueryEntities(records, s.query) THEN Changed(records[e], s)
     ELSE records[e]]

\* What a pass makes of the database it found when nobody fails: the entities
\* after each system, and how many spawns each system queues.
Outcome ==
  LET after[n \in 0..Len(systems)] ==
        IF n = 0 THEN before.entities
        ELSE Completed(after[n - 1], systems[n])
  IN  after

OutcomeSpawns ==
  [n \in Node |-> IF Spawning(n)
                  THEN Cardinality(QueryEntities(Outcome[n - 1], systems[n].query))
                  ELSE 0]

CleanPass ==
  /\ phase = "pass" /\ resolved = Node
  /\ Plain /\ SpawnersInOrder
  /\ \A n \in Node : ~Dead(n)

\* A plain pass with ordered spawners in which nobody fails leaves a database,
\* queue included, that depends on the one it found and on the systems only.
ScheduleIndependent ==
  CleanPass =>
    /\ entities = Outcome[Len(systems)]
    /\ pending = before.pending \o StagedWith(OutcomeSpawns)

\* execute_frame returns normally only when no spawn is left uncommitted,
\* those queued by a system that went on to crash included.
QuietReturn == phase = "idle" => pending = <<>> /\ ~hasSpawns

\* The firewall of DatabaseAccess: while payloads run, an entity gains, loses
\* or gives up components only if a running system declared that, and a
\* destroyed entity stays destroyed.
DeclaredChangesOnly ==
  [][phase = "pass" /\ phase' = "pass" =>
       \A e \in DOMAIN entities :
         /\ Alive(e)' => Alive(e)
         /\ Alive(e) /\ ~Alive(e)' =>
              \E n \in Running : systems[n].deletes # {}
         /\ \A c \in entities'[e].mask \ entities[e].mask :
              \E n \in Running : c \in systems[n].adds
         /\ Alive(e)' => \A c \in entities[e].mask \ entities'[e].mask :
              \E n \in Running : c \in systems[n].removes]_vars

\* The graphs over the first systems whose edges follow registration order.
ForwardGraphs ==
  UNION {{[i \in 1..k |-> {j \in 1..k : <<i, j>> \in E}] :
            E \in SUBSET {p \in (1..k) \X (1..k) : p[1] < p[2]}} : k \in 0..MaxSystems}

\* A pass runs its systems as its dependency graph promises.
Dag == INSTANCE DagRun WITH
  Node <- Index,
  Graphs <- ForwardGraphs,
  open <- phase = "pass",
  edges <- IF phase = "pass" THEN dependents ELSE [n \in {} |-> {}],
  running <- Running,
  resolved <- IF phase = "pass" THEN resolved ELSE {},
  dead <- {n \in Index : Dead(n)}

PassRunsTheDag == Dag!Spec

-----------------------------------------------------------------------------
(* The inductive invariants behind the safety properties.                  *)

\* The graph of a pass is that of the database the pass found.
GraphCurrent ==
  phase = "pass" =>
    /\ jitWrite = [n \in Node |-> JitWriteMask(systems[n], before.entities)]
    /\ dependents = TopologicalGraph(systems, jitWrite)

\* Payloads exist only in a pass and only after everything before them.
OrderRespected ==
  /\ phase # "pass" => at = Everywhere("wait")
  /\ \A n \in Node : at[n] # "wait" => Pred(n) \subseteq resolved

\* A queued spawn is never overlooked.
PendingFlagged ==
  /\ pending # <<>> => hasSpawns
  /\ phase = "idle" => ~hasSpawns

IInv ==
  /\ TypeOK
  /\ InFrame => reEntry <= MaxReEntries
  /\ GraphCurrent
  /\ OrderRespected
  /\ PendingFlagged

\* A system is resolved after its predecessors, and its death has spread to its
\* dependents by then; who runs is alive.
ResolvedClosed ==
  phase = "pass" =>
    /\ \A n \in resolved :
         /\ Pred(n) \subseteq resolved
         /\ Dead(n) => \A j \in dependents[n] : aborted[j]
    /\ \A n \in Running : ~Dead(n)

DagInv == IInv /\ ResolvedClosed

\* Without systems that add components a pass only takes things away.
OnlyShrinks ==
  phase = "pass" =>
    /\ DOMAIN entities = DOMAIN before.entities
    /\ \A e \in DOMAIN entities :
         /\ Alive(e) => before.entities[e].alive
         /\ entities[e].mask \subseteq before.entities[e].mask

\* Whatever a payload has found, the pre-pass has seen.
HitsForeseen ==
  phase = "pass" =>
    \A n \in Node : \A k \in DOMAIN hits[n] :
      /\ hits[n][k] \in DOMAIN before.entities
      /\ Matches(before.entities[hits[n][k]], systems[n].query)

BlastInv == IInv /\ (DeletersOnly => OnlyShrinks /\ HitsForeseen)

\* While only ordered systems spawn, the queue is always what has been staged,
\* in order of registration, and a push_back under way still finds the end of
\* the partition where it left it.
StagedInOrder ==
  /\ pending = before.pending \o StagedBy
  /\ \A n \in Running : at[n] = "push" => slot[n] = Len(pending) + 1

\* Only a spawner that has started has staged anything.
StagedInv ==
  /\ DagInv
  /\ phase = "pass" =>
       /\ \A n \in Node :
            /\ at[n] = "wait" => staged[n] = 0
            /\ at[n] = "push" \/ staged[n] > 0 => Spawning(n)
       /\ SpawnersInOrder => StagedInOrder

\* Who is over and alive has run to its end.
RunToTheEnd ==
  phase = "pass" =>
    \A n \in resolved : ~Dead(n) =>
      /\ Ran(n)
      /\ Spawning(n) => staged[n] = applied[n]

=============================================================================
