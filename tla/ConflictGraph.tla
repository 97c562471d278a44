---------------------------- MODULE ConflictGraph ----------------------------
(***************************************************************************)
(* What a system declares, what the JIT pre-pass makes of it, and which    *)
(* pairs of systems the topological compiler orders                        *)
(* (src/Engine/TestUsagiExecutive/Simple).                                 *)
(*                                                                         *)
(* A ComponentMask is a set of components.  A system is a record:          *)
(*   reads, writes, adds, removes, deletes  the masks of its EntityQuery   *)
(*   flags    the AccessPolicy flags it names                              *)
(*   query    the mask its payload queries the database with               *)
(*   effect   what the payload does to each entity found: "none",          *)
(*            "destroy", "add" or "remove"                                 *)
(*   operand  the mask it adds or removes                                  *)
(*   spawns   the masks it queues for each entity found (at most one)      *)
(***************************************************************************)
EXTENDS Naturals, Sequences

CONSTANT Component

Mask == SUBSET Component

\* IntentAdd and IntentRemove count as writes; IntentDelete as neither.
StaticRead(s) == s.reads
StaticWrite(s) == s.writes \union s.adds \union s.removes
StaticDelete(s) == s.deletes

\* register_system: a flag widens to the whole mask it speaks of.
PreviousMask(s) == IF "Previous" \in s.flags THEN StaticRead(s) ELSE {}
AtomicMask(s) == IF "Atomic" \in s.flags THEN StaticWrite(s) ELSE {}

\* An EntityRecord with alive = false keeps its place and its id.
Record == [mask : Mask, alive : BOOLEAN]

Matches(rec, m) == rec.alive /\ m \subseteq rec.mask

\* query_entities, as a set: the ids of the entities that have all of m.
QueryEntities(records, m) == {e \in DOMAIN records : Matches(records[e], m)}

\* What execute_jit_pre_pass asks of an entity before it counts it.
TargetSignature(s) == StaticRead(s) \union StaticWrite(s) \union StaticDelete(s)

\* Variant: only the declared part of a condemned entity is locked.
DeclaredBlastRadius(s, records) ==
  TargetSignature(s) \intersect
    UNION {records[e].mask : e \in QueryEntities(records, TargetSignature(s))}

\* The exact masks of the entities the system may condemn.
BlastRadius(s, records) ==
  UNION {records[e].mask : e \in QueryEntities(records, TargetSignature(s))}

\* execute_jit_pre_pass for one system.
JitWriteMask(s, records) ==
  IF StaticDelete(s) = {}
  THEN StaticWrite(s)
  ELSE StaticWrite(s) \union BlastRadius(s, records)

\* Variants of Conflict: one kind of overlap is forgotten; Atomic is asked
\* of one side only.
ConflictWithoutWR(a, ja, b, jb) ==
  \/ (ja \intersect StaticRead(b)) \ PreviousMask(b) # {}
  \/ (ja \intersect jb) \ (AtomicMask(a) \intersect AtomicMask(b)) # {}
ConflictAtomicFirst(a, ja, b, jb) ==
  \/ (ja \intersect StaticRead(b)) \ PreviousMask(b) # {}
  \/ (StaticRead(a) \intersect jb) \ PreviousMask(a) # {}
  \/ (ja \intersect jb) \ AtomicMask(a) # {}

\* build_topological_graph: does a, registered before b, conflict with it?
\* ja and jb are their JIT write masks.
Conflict(a, ja, b, jb) ==
  \/ (ja \intersect StaticRead(b)) \ PreviousMask(b) # {}
  \/ (StaticRead(a) \intersect jb) \ PreviousMask(a) # {}
  \/ (ja \intersect jb) \ (AtomicMask(a) \intersect AtomicMask(b)) # {}

\* The dependents of every node, edges following registration order.
TopologicalGraph(systems, jit) ==
  [i \in DOMAIN systems |->
     {j \in DOMAIN systems :
        i < j /\ Conflict(systems[i], jit[i], systems[j], jit[j])}]

=============================================================================
