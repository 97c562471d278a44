------------------------- MODULE SimpleFrame_proofs -------------------------
(***************************************************************************)
(* Proofs about SimpleFrame, for every catalog of system types.            *)
(*                                                                         *)
(* IInv says that the graph of a pass is computed from the database the    *)
(* pass found and that payloads run in its order; LicensedOverlap and      *)
(* QuietReturn follow.  BlastInv adds, for catalogs without a system that  *)
(* adds components, that a pass only takes things away; then the database  *)
(* the pre-pass saw bounds what a deleter may destroy, and the condemned   *)
(* entities are out of everybody else's reach.                             *)
(***************************************************************************)
EXTENDS SimpleFrame, SequenceTheorems, TLAPS

-----------------------------------------------------------------------------
(* Masks and graphs.                                                       *)

\* The masks register_system extracts are masks.
LEMMA StaticMasks ==
  ASSUME NEW s \in Catalog
  PROVE  /\ StaticRead(s) \in Mask
         /\ StaticWrite(s) \in Mask
         /\ StaticDelete(s) \in Mask
         /\ s.query \in Mask
         /\ s.operand \in Mask
         /\ s.spawns \subseteq Mask
<1>1. s \in [reads : Mask, writes : Mask, adds : Mask, removes : Mask,
             deletes : Mask, flags : SUBSET {"Previous", "Atomic", "Discard"},
             query : Mask, effect : {"none", "destroy", "add", "remove"},
             operand : Mask, spawns : SUBSET Mask]
  BY CatalogAssumption
<1>2. /\ s.reads \in Mask /\ s.writes \in Mask /\ s.adds \in Mask
      /\ s.removes \in Mask /\ s.deletes \in Mask /\ s.query \in Mask
      /\ s.operand \in Mask /\ s.spawns \in SUBSET Mask
  BY <1>1
<1>3. s.writes \union s.adds \union s.removes \in Mask
  BY <1>2 DEF Mask
<1> QED
  BY <1>2, <1>3 DEF StaticRead, StaticWrite, StaticDelete

\* The records of a table.
LEMMA RecordFields ==
  ASSUME NEW records \in Seq(Record), NEW e \in DOMAIN records
  PROVE  /\ records[e] \in Record
         /\ records[e].mask \in Mask
         /\ records[e].alive \in BOOLEAN
<1>1. e \in 1..Len(records)
  BY LenProperties
<1>2. records[e] \in Record
  BY <1>1, ElementOfSeq
<1> QED
  BY <1>2 DEF Record

\* The JIT write mask is a mask and covers the declared writes.
LEMMA JitMask ==
  ASSUME NEW s \in Catalog, NEW records \in Seq(Record)
  PROVE  /\ JitWriteMask(s, records) \in Mask
         /\ StaticWrite(s) \subseteq JitWriteMask(s, records)
<1>1. BlastRadius(s, records) \in Mask
  <2>1. \A e \in DOMAIN records : records[e].mask \subseteq Component
    BY RecordFields DEF Mask
  <2> QED
    BY <2>1 DEF BlastRadius, QueryEntities, Mask
<1> QED
  BY <1>1, StaticMasks DEF JitWriteMask, Mask

\* What a payload does to a record yields a record.
LEMMA ChangedType ==
  ASSUME NEW rec \in Record, NEW s \in Catalog
  PROVE  Changed(rec, s) \in Record
<1>1. rec.mask \in Mask /\ rec.alive \in BOOLEAN
  BY DEF Record
<1>2. {} \in Mask /\ rec.mask \union s.operand \in Mask /\ rec.mask \ s.operand \in Mask
  BY <1>1, StaticMasks DEF Mask
<1> QED
  BY <1>1, <1>2 DEF Changed, Record

\* Spawned entities are live records of the queued masks.
LEMMA CreatedType ==
  ASSUME NEW masks \in Seq(Mask)
  PROVE  Created(masks) \in Seq(Record) /\ Len(Created(masks)) = Len(masks)
<1>1. DOMAIN masks = 1..Len(masks) /\ Len(masks) \in Nat
  BY LenProperties
<1>2. \A k \in 1..Len(masks) : masks[k] \in Mask
  BY ElementOfSeq
<1>3. \A k \in 1..Len(masks) : [mask |-> masks[k], alive |-> TRUE] \in Record
  BY <1>2 DEF Record
<1>4. Created(masks) \in [1..Len(masks) -> Record]
  BY <1>1, <1>3 DEF Created
<1>5. Created(masks) \in Seq(Record)
  BY <1>1, <1>4, SeqDef
<1> QED
  BY <1>1, <1>4, <1>5, LenProperties

\* Committing spawns appends live records to the table.
LEMMA CommittedType ==
  ASSUME NEW records \in Seq(Record), NEW masks \in Seq(Mask)
  PROVE  /\ records \o Created(masks) \in Seq(Record)
         /\ Len(records \o Created(masks)) = Len(records) + Len(masks)
<1> DEFINE new == Created(masks)
<1>1. new \in Seq(Record) /\ Len(new) = Len(masks)
  BY CreatedType
<1> HIDE DEF new
<1>2. records \o new \in Seq(Record) /\ Len(records \o new) = Len(records) + Len(new)
  BY <1>1, ConcatProperties
<1> QED
  BY <1>1, <1>2 DEF new

\* Nodes are indices.
LEMMA NodeIndex ==
  ASSUME TypeOK
  PROVE  /\ Len(systems) \in Nat
         /\ Node = 1..Len(systems)
         /\ Node \subseteq Index
         /\ \A n \in Node : systems[n] \in Catalog
  BY BoundsAssumption DEF TypeOK, FrameTypes, Node, Index

\* Two systems in conflict, both past the start, have not both stayed
\* unresolved: the earlier one is over.
LEMMA NoOverlap ==
  ASSUME IInv, NEW i \in Running, NEW j \in Running, i < j
  PROVE  ~Conflict(systems[i], JitWriteMask(systems[i], before.entities),
                   systems[j], JitWriteMask(systems[j], before.entities))
<1>1. i \in Node /\ j \in Node /\ i \notin resolved /\ at[j] # "wait"
  BY DEF Running
<1>2. phase = "pass"
  <2>1. j \in Index
    BY <1>1, NodeIndex DEF IInv
  <2>2. Everywhere("wait")[j] = "wait"
    BY <2>1 DEF Everywhere
  <2> QED
    BY <1>1, <2>2 DEF IInv, OrderRespected
<1>3. j \notin dependents[i]
  <2>1. Pred(j) \subseteq resolved
    BY <1>1 DEF IInv, OrderRespected
  <2> QED
    BY <1>1, <2>1 DEF Pred
<1>4. dependents[i] = {k \in Node : i < k /\ Conflict(systems[i], jitWrite[i],
                                                    systems[k], jitWrite[k])}
  BY <1>1, <1>2 DEF IInv, GraphCurrent, TopologicalGraph, Node
<1>5. /\ jitWrite[i] = JitWriteMask(systems[i], before.entities)
      /\ jitWrite[j] = JitWriteMask(systems[j], before.entities)
  BY <1>1, <1>2 DEF IInv, GraphCurrent
<1> QED
  BY <1>1, <1>3, <1>4, <1>5

-----------------------------------------------------------------------------
(* The invariant.                                                          *)

LEMMA InitInv == Init => IInv
<1> SUFFICES ASSUME Init PROVE IInv
  OBVIOUS
<1>1. FrameTypes
  BY BoundsAssumption, EmptySeq DEF Init, FrameTypes, Node, Mask
<1>2. MarkTypes
  BY DEF Init, MarkTypes, Everywhere
<1>3. DatabaseTypes
  <2>1. <<>> \in Seq(Record) /\ <<>> \in Seq(Mask) /\ Len(<<>>) = 0
    BY EmptySeq
  <2>2. [entities |-> <<>>, pending |-> <<>>]
          \in [entities : Seq(Record), pending : Seq(Mask)]
    BY <2>1
  <2>3. MaxId >= 0
    BY BoundsAssumption
  <2>4. /\ entities = <<>> /\ pending = <<>> /\ hasSpawns = FALSE
        /\ before = [entities |-> <<>>, pending |-> <<>>]
    BY DEF Init
  <2> QED
    BY <2>1, <2>2, <2>3, <2>4 DEF DatabaseTypes
<1>4. PayloadTypes
  <2>1. <<>> \in Seq(Nat)
    BY EmptySeq
  <2> QED
    BY <2>1 DEF Init, PayloadTypes, Everywhere
<1>5. reEntry <= MaxReEntries /\ GraphCurrent /\ OrderRespected /\ PendingFlagged
  <2>1. Node = {}
    BY DEF Init, Node
  <2> QED
    BY <2>1, BoundsAssumption DEF Init, GraphCurrent, OrderRespected, PendingFlagged
<1> QED
  BY <1>1, <1>2, <1>3, <1>4, <1>5 DEF IInv, TypeOK

-----------------------------------------------------------------------------
(* The steps of the systems.                                               *)

\* A system's step leaves the graph, the counters and the snapshot alone.
LEMMA SystemKeepsFrame ==
  ASSUME IInv, UNCHANGED <<frameVars, before>>
  PROVE  /\ FrameTypes'
         /\ InFrame' => reEntry' <= MaxReEntries
         /\ GraphCurrent'
         /\ Node' = Node
  BY DEF IInv, TypeOK, FrameTypes, InFrame, GraphCurrent, frameVars, Node,
         Mask, JitWriteMask, TopologicalGraph, Conflict, BlastRadius,
         QueryEntities, Matches

\* A running system belongs to a pass.
LEMMA RunningInPass ==
  ASSUME IInv, NEW n \in Running
  PROVE  phase = "pass" /\ n \in Node /\ n \in Index /\ systems[n] \in Catalog
<1>1. n \in Node /\ n \in Index /\ systems[n] \in Catalog
  BY NodeIndex DEF IInv, Running
<1>2. Everywhere("wait")[n] = "wait"
  BY <1>1 DEF Everywhere
<1> QED
  BY <1>1, <1>2 DEF IInv, OrderRespected, Running

\* Committing a node keeps the marks well typed and the order respected.
LEMMA ResolveKeeps ==
  ASSUME IInv, NEW n \in Node, NEW crash \in BOOLEAN, Resolve(n, crash),
         UNCHANGED <<frameVars, payloadVars, dbVars, before>>
  PROVE  IInv'
<1>1. Node' = Node /\ FrameTypes' /\ GraphCurrent'
      /\ (InFrame' => reEntry' <= MaxReEntries)
  BY SystemKeepsFrame
<1>2. MarkTypes'
  <2>1. \A j \in Index : (aborted[j] \/ ((crash \/ Dead(n)) /\ j \in dependents[n]))
                           \in BOOLEAN
    OBVIOUS
  <2>2. aborted' \in [Index -> BOOLEAN]
    BY <2>1 DEF Resolve
  <2>3. failed' \in [Index -> BOOLEAN]
    BY DEF IInv, TypeOK, MarkTypes, Resolve
  <2>4. resolved' \subseteq Node'
    BY <1>1 DEF IInv, TypeOK, MarkTypes, Resolve
  <2> QED
    BY <2>2, <2>3, <2>4 DEF MarkTypes
<1>3. DatabaseTypes' /\ PayloadTypes' /\ PendingFlagged'
  BY DEF IInv, TypeOK, DatabaseTypes, PayloadTypes, PendingFlagged, frameVars,
         dbVars, payloadVars
<1>4. OrderRespected'
  BY <1>1 DEF IInv, OrderRespected, Resolve, Pred, Everywhere, frameVars,
              payloadVars
<1> QED
  BY <1>1, <1>2, <1>3, <1>4 DEF IInv, TypeOK

LEMMA StartKeeps ==
  ASSUME IInv, NEW n \in Node, Start(n)
  PROVE  IInv'
<1>1. Node' = Node /\ FrameTypes' /\ GraphCurrent'
      /\ (InFrame' => reEntry' <= MaxReEntries)
  BY SystemKeepsFrame DEF Start
<1>2. MarkTypes' /\ DatabaseTypes' /\ PendingFlagged'
  BY <1>1 DEF IInv, TypeOK, MarkTypes, DatabaseTypes, PendingFlagged,
              Start, frameVars, markVars, dbVars
<1>3. PayloadTypes'
  BY DEF IInv, TypeOK, PayloadTypes, Start
<1>4. OrderRespected'
  <2>1. at' = [at EXCEPT ![n] = "scan"] /\ n \in DOMAIN at /\ at \in [Index -> {"wait", "scan", "apply", "push"}]
    BY NodeIndex DEF Start, IInv, TypeOK, PayloadTypes
  <2>2. \A i \in Node : at'[i] # "wait" => Pred(i) \subseteq resolved
    BY <2>1, NodeIndex DEF IInv, OrderRespected, Start
  <2> QED
    BY <1>1, <2>2 DEF OrderRespected, Start, Pred, frameVars, markVars
<1> QED
  BY <1>1, <1>2, <1>3, <1>4 DEF IInv, TypeOK

\* A step inside a payload: it may move `at' among the running places.
LEMMA PayloadMoves ==
  ASSUME IInv, NEW n \in Running, NEW place \in {"scan", "apply", "push"},
         at' = [at EXCEPT ![n] = place], UNCHANGED <<frameVars, markVars>>
  PROVE  /\ at' \in [Index -> {"wait", "scan", "apply", "push"}]
         /\ OrderRespected'
<1>1. /\ phase = "pass" /\ phase' = "pass" /\ n \in Index /\ n \in Node
      /\ at[n] # "wait" /\ Node' = Node
  BY RunningInPass DEF Running, frameVars, Node
<1>2. at \in [Index -> {"wait", "scan", "apply", "push"}]
  BY DEF IInv, TypeOK, PayloadTypes
<1>3. \A i \in Node : at'[i] # "wait" => at[i] # "wait"
  BY <1>1, <1>2, NodeIndex DEF IInv
<1> QED
  BY <1>1, <1>2, <1>3 DEF IInv, OrderRespected, Pred, frameVars, markVars

LEMMA ScanRecordKeeps ==
  ASSUME IInv, NEW n \in Running, ScanRecord(n)
  PROVE  IInv'
<1>1. Node' = Node /\ FrameTypes' /\ GraphCurrent'
      /\ (InFrame' => reEntry' <= MaxReEntries)
  BY SystemKeepsFrame DEF ScanRecord
<1>2. MarkTypes' /\ DatabaseTypes' /\ PendingFlagged' /\ OrderRespected'
  BY <1>1 DEF IInv, TypeOK, MarkTypes, DatabaseTypes, PendingFlagged,
              OrderRespected, Pred, Everywhere, ScanRecord, frameVars,
              markVars, dbVars
<1>3. PayloadTypes'
  <2> DEFINE e == scanned[n] + 1
  <2>1. n \in Index
    BY RunningInPass
  <2>2. /\ at \in [Index -> {"wait", "scan", "apply", "push"}]
        /\ scanned \in [Index -> Nat] /\ hits \in [Index -> Seq(Nat)]
        /\ applied \in [Index -> Nat] /\ staged \in [Index -> Nat]
        /\ slot \in [Index -> Nat]
    BY DEF IInv, TypeOK, PayloadTypes
  <2>3. e \in Nat /\ hits[n] \in Seq(Nat)
    BY <2>1, <2>2
  <2>4. Append(hits[n], e) \in Seq(Nat)
    BY <2>3, AppendProperties
  <2>5. scanned' \in [Index -> Nat]
    BY <2>2, <2>3 DEF ScanRecord
  <2>6. hits' \in [Index -> Seq(Nat)]
    BY <2>2, <2>4 DEF ScanRecord
  <2> QED
    BY <2>2, <2>5, <2>6 DEF PayloadTypes, ScanRecord
<1> QED
  BY <1>1, <1>2, <1>3 DEF IInv, TypeOK

LEMMA EndScanKeeps ==
  ASSUME IInv, NEW n \in Running, EndScan(n)
  PROVE  IInv'
<1>1. Node' = Node /\ FrameTypes' /\ GraphCurrent'
      /\ (InFrame' => reEntry' <= MaxReEntries)
  BY SystemKeepsFrame DEF EndScan
<1>2. MarkTypes' /\ DatabaseTypes' /\ PendingFlagged'
  BY <1>1 DEF IInv, TypeOK, MarkTypes, DatabaseTypes, PendingFlagged,
              EndScan, frameVars, markVars, dbVars
<1>3. at' \in [Index -> {"wait", "scan", "apply", "push"}] /\ OrderRespected'
  BY PayloadMoves DEF EndScan
<1>4. PayloadTypes'
  BY <1>3 DEF IInv, TypeOK, PayloadTypes, EndScan
<1> QED
  BY <1>1, <1>2, <1>3, <1>4 DEF IInv, TypeOK

\* The table after a change is a table of the same length.
LEMMA ChangeTable ==
  ASSUME NEW records \in Seq(Record), NEW e, NEW s \in Catalog
  PROVE  LET after == [records EXCEPT ![e] = Changed(@, s)]
         IN  after \in Seq(Record) /\ Len(after) = Len(records)
             /\ DOMAIN after = DOMAIN records
<1> DEFINE after == [records EXCEPT ![e] = Changed(@, s)]
<1>1. Len(records) \in Nat /\ records \in [1..Len(records) -> Record]
  BY LenProperties
<1>2. e \in 1..Len(records) => Changed(records[e], s) \in Record
  BY <1>1, ChangedType
<1>3. after \in [1..Len(records) -> Record]
  BY <1>1, <1>2
<1>4. after \in Seq(Record)
  BY <1>1, <1>3, SeqDef
<1> QED
  BY <1>1, <1>3, <1>4, LenProperties

LEMMA ApplyChangeKeeps ==
  ASSUME IInv, NEW n \in Running, ApplyChange(n)
  PROVE  IInv'
<1>1. Node' = Node /\ FrameTypes' /\ GraphCurrent'
      /\ (InFrame' => reEntry' <= MaxReEntries)
  BY SystemKeepsFrame DEF ApplyChange
<1>2. MarkTypes' /\ PendingFlagged' /\ OrderRespected'
  BY <1>1 DEF IInv, TypeOK, MarkTypes, PendingFlagged, OrderRespected, Pred,
              Everywhere, ApplyChange, frameVars, markVars
<1>3. DatabaseTypes'
  <2> DEFINE e == hits[n][applied[n] + 1]
  <2>1. systems[n] \in Catalog
    BY RunningInPass
  <2>2. entities' = [entities EXCEPT ![e] = Changed(@, systems[n])]
    BY DEF ApplyChange
  <2>3. entities \in Seq(Record) /\ Len(entities) <= MaxId
    BY DEF IInv, TypeOK, DatabaseTypes
  <2>4. entities' \in Seq(Record) /\ Len(entities') = Len(entities)
    BY <2>1, <2>2, <2>3, ChangeTable
  <2> QED
    BY <2>3, <2>4 DEF IInv, TypeOK, DatabaseTypes, ApplyChange
<1>4. PayloadTypes'
  <2>1. n \in Index
    BY RunningInPass
  <2> QED
    BY <2>1 DEF IInv, TypeOK, PayloadTypes, ApplyChange
<1> QED
  BY <1>1, <1>2, <1>3, <1>4 DEF IInv, TypeOK

LEMMA ReserveSlotKeeps ==
  ASSUME IInv, NEW n \in Running, ReserveSlot(n)
  PROVE  IInv'
<1>1. Node' = Node /\ FrameTypes' /\ GraphCurrent'
      /\ (InFrame' => reEntry' <= MaxReEntries)
  BY SystemKeepsFrame DEF ReserveSlot
<1>2. MarkTypes' /\ DatabaseTypes' /\ PendingFlagged'
  BY <1>1 DEF IInv, TypeOK, MarkTypes, DatabaseTypes, PendingFlagged,
              ReserveSlot, frameVars, markVars, dbVars
<1>3. at' \in [Index -> {"wait", "scan", "apply", "push"}] /\ OrderRespected'
  BY PayloadMoves DEF ReserveSlot
<1>4. PayloadTypes'
  <2>1. Len(pending) + 1 \in Nat
    BY LenProperties DEF IInv, TypeOK, DatabaseTypes
  <2> QED
    BY <1>3, <2>1 DEF IInv, TypeOK, PayloadTypes, ReserveSlot, EndOf
<1> QED
  BY <1>1, <1>2, <1>3, <1>4 DEF IInv, TypeOK

LEMMA PushSpawnKeeps ==
  ASSUME IInv, NEW n \in Running, PushSpawn(n)
  PROVE  IInv'
<1>1. Node' = Node /\ FrameTypes' /\ GraphCurrent'
      /\ (InFrame' => reEntry' <= MaxReEntries)
  BY SystemKeepsFrame DEF PushSpawn
<1>2. phase = "pass" /\ n \in Index /\ systems[n] \in Catalog
  BY RunningInPass
<1>3. MarkTypes' /\ PendingFlagged'
  BY <1>1, <1>2 DEF IInv, TypeOK, MarkTypes, PendingFlagged, PushSpawn,
                    frameVars, markVars
<1>4. at' \in [Index -> {"wait", "scan", "apply", "push"}] /\ OrderRespected'
  BY PayloadMoves DEF PushSpawn
<1>5. DatabaseTypes'
  <2>1. pending \in Seq(Mask)
    BY DEF IInv, TypeOK, DatabaseTypes
  <2>2. PICK m \in systems[n].spawns :
          pending' \in IF slot[n] = Len(pending) + 1
                       THEN {Append(pending, m)}
                       ELSE {[pending EXCEPT ![slot[n]] = m], pending}
    BY DEF PushSpawn
  <2>3. m \in Mask
    BY <1>2, StaticMasks
  <2>4. Append(pending, m) \in Seq(Mask)
    BY <2>1, <2>3, AppendProperties
  <2>5. [pending EXCEPT ![slot[n]] = m] \in Seq(Mask)
    <3>1. Len(pending) \in Nat /\ pending \in [1..Len(pending) -> Mask]
      BY <2>1, LenProperties
    <3>2. [pending EXCEPT ![slot[n]] = m] \in [1..Len(pending) -> Mask]
      BY <2>3, <3>1
    <3> QED
      BY <3>1, <3>2, SeqDef
  <2> QED
    BY <2>1, <2>2, <2>4, <2>5 DEF IInv, TypeOK, DatabaseTypes, PushSpawn
<1>6. PayloadTypes'
  BY <1>2, <1>4 DEF IInv, TypeOK, PayloadTypes, PushSpawn
<1> QED
  BY <1>1, <1>3, <1>4, <1>5, <1>6 DEF IInv, TypeOK

\* The nine steps of a system.
LEMMA SystemStepKeeps ==
  ASSUME IInv, NEW n \in Node, SystemStep(n)
  PROVE  IInv'
<1>1. CASE Start(n)
  BY <1>1, StartKeeps
<1>2. CASE Skip(n)
  BY <1>2, ResolveKeeps DEF Skip
<1>3. CASE ScanRecord(n)
  BY <1>3, ScanRecordKeeps DEF ScanRecord
<1>4. CASE EndScan(n)
  BY <1>4, EndScanKeeps DEF EndScan
<1>5. CASE ApplyChange(n)
  BY <1>5, ApplyChangeKeeps DEF ApplyChange
<1>6. CASE ReserveSlot(n)
  BY <1>6, ReserveSlotKeeps DEF ReserveSlot
<1>7. CASE PushSpawn(n)
  BY <1>7, PushSpawnKeeps DEF PushSpawn
<1>8. CASE Finish(n)
  BY <1>8, ResolveKeeps DEF Finish
<1>9. CASE Throw(n)
  BY <1>9, ResolveKeeps DEF Throw
<1> QED
  BY <1>1, <1>2, <1>3, <1>4, <1>5, <1>6, <1>7, <1>8, <1>9 DEF SystemStep

-----------------------------------------------------------------------------
(* The steps of the host and of execute_frame.                             *)

\* The graph a pass starts with, over any table and any queue.
LEMMA StartPassKeeps ==
  ASSUME IInv, NEW records \in Seq(Record), NEW queue \in Seq(Mask),
         StartPass(records, queue), systems' = systems,
         reEntry' \in 0..MaxReEntries, resolved' = {}
  PROVE  /\ FrameTypes' /\ GraphCurrent' /\ OrderRespected' /\ PayloadTypes'
         /\ before' \in [entities : Seq(Record), pending : Seq(Mask)]
         /\ reEntry' <= MaxReEntries
<1>1. Node' = Node /\ \A n \in Node : systems[n] \in Catalog
  BY NodeIndex DEF IInv, Node
<1>2. before'.entities = records
  BY DEF StartPass
<1>3. jitWrite' = [n \in Node |-> JitWriteMask(systems[n], records)]
  BY DEF StartPass
<1>4. jitWrite' \in [Node -> Mask]
  BY <1>1, <1>3, JitMask
<1>5. dependents' = TopologicalGraph(systems, jitWrite')
  BY DEF StartPass
<1>6. dependents' \in [Node -> SUBSET Node]
  BY <1>5 DEF TopologicalGraph, Node
<1>7. FrameTypes'
  <2>1. reEntry' \in 0..(MaxReEntries + 1)
    BY BoundsAssumption
  <2> QED
    BY <1>1, <1>4, <1>6, <2>1 DEF IInv, TypeOK, FrameTypes, StartPass
<1>8. GraphCurrent'
  BY <1>1, <1>2, <1>3, <1>5
  DEF GraphCurrent, TopologicalGraph, JitWriteMask, Conflict, BlastRadius,
      QueryEntities, Matches, Node
<1>9. PayloadTypes'
  <2>1. <<>> \in Seq(Nat)
    BY EmptySeq
  <2> QED
    BY <2>1 DEF StartPass, ResetPayloads, Everywhere, PayloadTypes
<1>10. OrderRespected'
  BY <1>1, NodeIndex DEF IInv, OrderRespected, StartPass, ResetPayloads, Everywhere
<1> QED
  BY <1>7, <1>8, <1>9, <1>10, BoundsAssumption DEF StartPass

LEMMA BeginFrameKeeps ==
  ASSUME IInv, BeginFrame
  PROVE  IInv'
<1>1. entities \in Seq(Record) /\ pending \in Seq(Mask)
  BY DEF IInv, TypeOK, DatabaseTypes
<1>2. reEntry' \in 0..MaxReEntries
  BY BoundsAssumption DEF BeginFrame
<1>3. StartPass(entities, pending) /\ systems' = systems /\ resolved' = {}
  BY DEF BeginFrame, StartPass
<1>4. /\ FrameTypes' /\ GraphCurrent' /\ OrderRespected' /\ PayloadTypes'
      /\ before' \in [entities : Seq(Record), pending : Seq(Mask)]
      /\ reEntry' <= MaxReEntries
  BY <1>1, <1>2, <1>3, StartPassKeeps
<1>5. DatabaseTypes'
  BY <1>4 DEF IInv, TypeOK, DatabaseTypes, BeginFrame, dbVars
<1>6. MarkTypes'
  BY <1>3 DEF MarkTypes, BeginFrame, ClearMarks, Everywhere
<1>7. PendingFlagged'
  BY <1>3 DEF IInv, PendingFlagged, BeginFrame, StartPass, dbVars
<1> QED
  BY <1>4, <1>5, <1>6, <1>7 DEF IInv, TypeOK

LEMMA ReEnterKeeps ==
  ASSUME IInv, ReEnter
  PROVE  IInv'
<1>1. /\ entities \in Seq(Record) /\ pending \in Seq(Mask)
      /\ Len(entities) + Len(pending) <= MaxId
      /\ reEntry \in 0..(MaxReEntries + 1)
  BY DEF IInv, TypeOK, DatabaseTypes, FrameTypes, ReEnter
<1>2. entities' = entities \o Created(pending)
  BY DEF ReEnter
<1>3. entities' \in Seq(Record) /\ Len(entities') <= MaxId
  BY <1>1, <1>2, CommittedType
<1>4. reEntry' \in 0..MaxReEntries
  BY <1>1, BoundsAssumption DEF IInv, InFrame, ReEnter
<1>5. <<>> \in Seq(Mask)
  BY EmptySeq
<1>6. StartPass(entities', <<>>) /\ systems' = systems /\ resolved' = {}
  BY DEF ReEnter, StartPass
<1>7. /\ FrameTypes' /\ GraphCurrent' /\ OrderRespected' /\ PayloadTypes'
      /\ before' \in [entities : Seq(Record), pending : Seq(Mask)]
      /\ reEntry' <= MaxReEntries
  <2> DEFINE records == entities'
  <2>1. records \in Seq(Record) /\ StartPass(records, <<>>)
    BY <1>3, <1>6
  <2> HIDE DEF records
  <2> QED
    BY <1>4, <1>5, <1>6, <2>1, StartPassKeeps
<1>8. DatabaseTypes'
  BY <1>3, <1>5, <1>7 DEF DatabaseTypes, ReEnter
<1>9. MarkTypes'
  BY <1>6 DEF IInv, TypeOK, MarkTypes, ReEnter
<1>10. PendingFlagged'
  BY DEF PendingFlagged, ReEnter
<1> QED
  BY <1>7, <1>8, <1>9, <1>10 DEF IInv, TypeOK

\* A step that leaves the systems and the payloads alone outside a pass.
LEMMA IdsExhaustedKeeps ==
  ASSUME IInv, IdsExhausted
  PROVE  IInv'
<1>1. /\ entities \in Seq(Record) /\ pending \in Seq(Mask)
      /\ Len(entities) <= MaxId /\ Len(entities) + Len(pending) > MaxId
      /\ MaxId \in Nat /\ Len(entities) \in Nat /\ Len(pending) \in Nat
  BY BoundsAssumption, LenProperties
  DEF IInv, TypeOK, DatabaseTypes, IdsExhausted
<1> DEFINE fits == MaxId - Len(entities)
           front == SubSeq(pending, 1, fits)
<1>2. fits \in Nat /\ fits <= Len(pending)
  BY <1>1
<1>3. front \in Seq(Mask) /\ Len(front) <= fits
  <2>1. \A i \in 1..fits : pending[i] \in Mask
    BY <1>1, <1>2, ElementOfSeq
  <2> QED
    BY <1>2, <2>1, SubSeqProperties
<1>4. entities' = entities \o Created(front)
  BY DEF IdsExhausted
<1>5. entities' \in Seq(Record) /\ Len(entities') = Len(entities) + Len(front)
  <2> HIDE DEF front
  <2> QED
    BY <1>1, <1>3, <1>4, CommittedType
<1>6. Len(entities') <= MaxId
  <2>1. Len(front) \in Nat
    BY <1>3, LenProperties
  <2> QED
    BY <1>1, <1>2, <1>3, <1>5, <2>1
<1>7. FrameTypes' /\ MarkTypes' /\ PayloadTypes'
  BY DEF IInv, TypeOK, FrameTypes, MarkTypes, PayloadTypes, IdsExhausted, markVars,
         payloadVars, Node
<1>8. DatabaseTypes'
  BY <1>5, <1>6 DEF IInv, TypeOK, DatabaseTypes, IdsExhausted
<1>9. GraphCurrent' /\ OrderRespected' /\ PendingFlagged' /\ ~InFrame'
  BY DEF IInv, GraphCurrent, OrderRespected, PendingFlagged, InFrame, IdsExhausted,
         markVars, payloadVars, Node, Pred, Everywhere
<1> QED
  BY <1>7, <1>8, <1>9 DEF IInv, TypeOK

LEMMA EndPassKeeps ==
  ASSUME IInv, EndPass
  PROVE  IInv'
<1>1. reEntry \in 0..MaxReEntries
  BY BoundsAssumption DEF IInv, TypeOK, FrameTypes, InFrame, EndPass
<1>2. /\ reEntry' \in 0..(MaxReEntries + 1)
      /\ phase' \in {"idle", "overrun", "reenter"}
      /\ phase' = "idle" => ~hasSpawns
      /\ phase' = "reenter" => reEntry' <= MaxReEntries
  BY <1>1, BoundsAssumption DEF EndPass, MorePending, Overrun
<1>3. FrameTypes'
  BY <1>2 DEF IInv, TypeOK, FrameTypes, EndPass, Node
<1>4. MarkTypes' /\ DatabaseTypes'
  BY DEF IInv, TypeOK, MarkTypes, DatabaseTypes, EndPass, dbVars
<1>5. PayloadTypes'
  <2>1. <<>> \in Seq(Nat)
    BY EmptySeq
  <2> QED
    BY <2>1 DEF EndPass, ResetPayloads, Everywhere, PayloadTypes
<1>6. GraphCurrent' /\ PendingFlagged'
  BY <1>2 DEF IInv, GraphCurrent, PendingFlagged, EndPass, dbVars
<1>7. OrderRespected'
  BY NodeIndex DEF IInv, OrderRespected, EndPass, ResetPayloads, Everywhere, Node
<1> QED
  BY <1>2, <1>3, <1>4, <1>5, <1>6, <1>7 DEF IInv, TypeOK, InFrame

\* Between frames the host may register, clear, create and wipe.
LEMMA HostStepKeeps ==
  ASSUME IInv, HostStep
  PROVE  IInv'
<1> USE DEF Node
<1>1. ASSUME NEW s \in Catalog, RegisterSystem(s)
      PROVE  IInv'
  <2>1. /\ systems \in Seq(Catalog) /\ Len(systems) \in Nat
        /\ DOMAIN systems = 1..Len(systems)
        /\ jitWrite \in [1..Len(systems) -> Mask]
        /\ dependents \in [1..Len(systems) -> SUBSET (1..Len(systems))]
    BY LenProperties DEF IInv, TypeOK, FrameTypes
  <2>2. /\ systems' \in Seq(Catalog) /\ Len(systems') = Len(systems) + 1
        /\ DOMAIN systems' = 1..(Len(systems) + 1)
    BY <2>1, <1>1, AppendProperties, LenProperties DEF RegisterSystem
  <2>3. jitWrite' \in [1..(Len(systems) + 1) -> Mask]
    <3>1. jitWrite \in Seq(Mask) /\ Len(jitWrite) = Len(systems)
      BY <2>1, SeqDef, LenProperties
    <3>2. Append(jitWrite, {}) \in Seq(Mask) /\ Len(Append(jitWrite, {})) = Len(systems) + 1
      BY <3>1, AppendProperties DEF Mask
    <3> QED
      BY <3>2, LenProperties, <1>1 DEF RegisterSystem
  <2>4. dependents' \in [1..(Len(systems) + 1) -> SUBSET (1..(Len(systems) + 1))]
    <3> DEFINE Set == SUBSET (1..(Len(systems) + 1))
    <3>1. dependents \in [1..Len(systems) -> Set]
      BY <2>1
    <3>2. dependents \in Seq(Set) /\ Len(dependents) = Len(systems)
      BY <2>1, <3>1, SeqDef, LenProperties
    <3>3. {} \in Set
      OBVIOUS
    <3> HIDE DEF Set
    <3>4. Append(dependents, {}) \in Seq(Set)
          /\ Len(Append(dependents, {})) = Len(systems) + 1
      BY <3>2, <3>3, AppendProperties
    <3>5. dependents' \in [1..(Len(systems) + 1) -> Set]
      BY <3>4, LenProperties, <1>1 DEF RegisterSystem
    <3> QED
      BY <3>5 DEF Set
  <2>5. FrameTypes'
    <3>1. /\ phase' = phase /\ reEntry' = reEntry /\ Len(systems) < MaxSystems
      BY <1>1 DEF RegisterSystem
    <3>2. Len(systems') <= MaxSystems
      BY <2>1, <2>2, <3>1, BoundsAssumption
    <3>3. /\ phase \in {"idle", "pass", "reenter", "overrun", "exhausted"}
          /\ reEntry \in 0..(MaxReEntries + 1)
      BY DEF IInv, TypeOK, FrameTypes
    <3> QED
      BY <2>2, <2>3, <2>4, <3>1, <3>2, <3>3 DEF FrameTypes
  <2>6. MarkTypes'
    BY <1>1, <2>1, <2>2 DEF IInv, TypeOK, MarkTypes, RegisterSystem, markVars
  <2>7. DatabaseTypes' /\ PayloadTypes'
    BY <1>1 DEF IInv, TypeOK, DatabaseTypes, PayloadTypes, RegisterSystem, dbVars,
                payloadVars
  <2>8. GraphCurrent' /\ PendingFlagged' /\ ~InFrame'
    BY <1>1 DEF IInv, GraphCurrent, PendingFlagged, InFrame, RegisterSystem, dbVars
  <2>9. OrderRespected'
    <3>1. phase # "pass" /\ phase' = phase /\ at' = at
      BY <1>1 DEF RegisterSystem, InFrame, payloadVars
    <3>2. at = Everywhere("wait")
      BY <3>1 DEF IInv, OrderRespected
    <3>3. DOMAIN systems' \subseteq Index
      BY <2>2, <2>5, BoundsAssumption DEF FrameTypes, Index
    <3> QED
      BY <3>1, <3>2, <3>3 DEF OrderRespected, Everywhere
  <2> QED
    BY <2>5, <2>6, <2>7, <2>8, <2>9 DEF IInv, TypeOK
<1>2. CASE ClearSystems
  <2>1. FrameTypes'
    BY <1>2, EmptySeq, BoundsAssumption DEF IInv, TypeOK, FrameTypes, ClearSystems
  <2>2. MarkTypes'
    BY <1>2 DEF MarkTypes, ClearSystems, ClearMarks, Everywhere
  <2>3. DatabaseTypes' /\ PayloadTypes'
    BY <1>2 DEF IInv, TypeOK, DatabaseTypes, PayloadTypes, ClearSystems, dbVars,
                payloadVars
  <2>4. GraphCurrent' /\ OrderRespected' /\ PendingFlagged' /\ ~InFrame'
    BY <1>2 DEF IInv, GraphCurrent, OrderRespected, PendingFlagged, InFrame,
                ClearSystems, dbVars, payloadVars, Everywhere
  <2> QED
    BY <2>1, <2>2, <2>3, <2>4 DEF IInv, TypeOK
<1>3. ASSUME NEW m \in InitialMasks, CreateEntity(m)
      PROVE  IInv'
  <2>1. FrameTypes' /\ MarkTypes' /\ PayloadTypes'
    BY <1>3 DEF IInv, TypeOK, FrameTypes, MarkTypes, PayloadTypes, CreateEntity,
                frameVars, markVars, payloadVars
  <2>2. DatabaseTypes'
    <3>1. entities \in Seq(Record) /\ Len(entities) \in Nat /\ Len(entities) < MaxId
      BY <1>3, LenProperties DEF IInv, TypeOK, DatabaseTypes, CreateEntity
    <3>2. [mask |-> m, alive |-> TRUE] \in Record
      BY InitialAssumption DEF Record
    <3>3. entities' \in Seq(Record) /\ Len(entities') = Len(entities) + 1
      BY <1>3, <3>1, <3>2, AppendProperties DEF CreateEntity
    <3>4. Len(entities') <= MaxId
      BY <3>1, <3>3, BoundsAssumption
    <3> QED
      BY <1>3, <3>3, <3>4 DEF IInv, TypeOK, DatabaseTypes, CreateEntity
  <2>3. GraphCurrent' /\ OrderRespected' /\ PendingFlagged' /\ ~InFrame'
    BY <1>3 DEF IInv, GraphCurrent, OrderRespected, PendingFlagged, InFrame,
                CreateEntity, frameVars, markVars, payloadVars, Pred, Everywhere
  <2> QED
    BY <2>1, <2>2, <2>3 DEF IInv, TypeOK
<1>4. CASE ClearDatabase
  <2>1. FrameTypes' /\ MarkTypes' /\ PayloadTypes'
    BY <1>4 DEF IInv, TypeOK, FrameTypes, MarkTypes, PayloadTypes, ClearDatabase,
                frameVars, markVars, payloadVars
  <2>2. DatabaseTypes'
    <3>1. /\ <<>> \in Seq(Record) /\ <<>> \in Seq(Mask) /\ Len(<<>>) = 0
          /\ 0 <= MaxId
      BY EmptySeq, BoundsAssumption
    <3> QED
      BY <1>4, <3>1 DEF IInv, TypeOK, DatabaseTypes, ClearDatabase
  <2>3. GraphCurrent' /\ OrderRespected' /\ PendingFlagged' /\ ~InFrame'
    BY <1>4 DEF IInv, GraphCurrent, OrderRespected, PendingFlagged, InFrame,
                ClearDatabase, frameVars, markVars, payloadVars, Pred, Everywhere
  <2> QED
    BY <2>1, <2>2, <2>3 DEF IInv, TypeOK
<1> QED
  BY <1>1, <1>2, <1>3, <1>4 DEF HostStep

LEMMA StutterKeeps ==
  ASSUME IInv, UNCHANGED vars
  PROVE  IInv'
<1> USE DEF vars, frameVars, markVars, dbVars, payloadVars
<1>1. FrameTypes' /\ GraphCurrent' /\ (InFrame' => reEntry' <= MaxReEntries)
  BY SystemKeepsFrame
<1>2. MarkTypes' /\ DatabaseTypes' /\ PayloadTypes'
  BY DEF IInv, TypeOK, MarkTypes, DatabaseTypes, PayloadTypes, Node
<1>3. OrderRespected' /\ PendingFlagged'
  BY DEF IInv, OrderRespected, PendingFlagged, Node, Pred, Everywhere
<1> QED
  BY <1>1, <1>2, <1>3 DEF IInv, TypeOK

LEMMA StepKeeps ==
  ASSUME IInv, [Next]_vars
  PROVE  IInv'
<1>1. CASE HostStep
  BY <1>1, HostStepKeeps
<1>2. CASE FrameStep
  BY <1>2, BeginFrameKeeps, ReEnterKeeps, IdsExhaustedKeeps, EndPassKeeps
  DEF FrameStep
<1>3. CASE \E n \in Node : SystemStep(n)
  BY <1>3, SystemStepKeeps
<1>4. CASE UNCHANGED vars
  BY <1>4, StutterKeeps
<1> QED
  BY <1>1, <1>2, <1>3, <1>4 DEF Next

-----------------------------------------------------------------------------
(* What follows for every catalog.                                         *)

\* The graph of a pass is that of the database the pass found, payloads run
\* only after everything before them and no queued spawn is overlooked:
\* execute_jit_pre_pass, build_topological_graph and the frame loop together.
THEOREM FrameInvariant == Spec => []IInv
<1>1. Init => IInv
  BY InitInv
<1>2. IInv /\ [Next]_vars => IInv'
  BY StepKeeps
<1> QED
  BY <1>1, <1>2, PTL DEF Spec

\* Every reachable state is well typed; in particular re_entry_counter stays
\* within MAX_RE_ENTRIES + 1 and the ids within their space.
THEOREM FrameTypeCorrect == Spec => []TypeOK
<1>1. IInv => TypeOK
  BY DEF IInv
<1> QED
  BY <1>1, FrameInvariant, PTL

\* Systems overlap on a component one of them declares to write only with
\* the licence of their flags: the edge test of build_topological_graph.
THEOREM Licensed == Spec => []LicensedOverlap
<1>1. IInv => LicensedOverlap
  <2> SUFFICES ASSUME IInv,
                      NEW i \in Running, NEW j \in Running, NEW c \in Component,
                      i # j, c \in StaticWrite(systems[i])
               PROVE  /\ c \in StaticRead(systems[j]) => "Previous" \in systems[j].flags
                      /\ c \in StaticWrite(systems[j]) =>
                           "Atomic" \in systems[i].flags \intersect systems[j].flags
    BY DEF LicensedOverlap
  <2> DEFINE jit(n) == JitWriteMask(systems[n], before.entities)
  <2>1. i \in Nat /\ j \in Nat /\ systems[i] \in Catalog /\ systems[j] \in Catalog
    BY RunningInPass DEF Index
  <2>2. before.entities \in Seq(Record)
    BY DEF IInv, TypeOK, DatabaseTypes
  <2>3. StaticWrite(systems[i]) \subseteq jit(i) /\ StaticWrite(systems[j]) \subseteq jit(j)
    BY <2>1, <2>2, JitMask
  <2>4. CASE i < j
    <3>1. ~Conflict(systems[i], jit(i), systems[j], jit(j))
      BY <2>4, NoOverlap
    <3> QED
      BY <2>3, <3>1 DEF Conflict, PreviousMask, AtomicMask
  <2>5. CASE j < i
    <3>1. ~Conflict(systems[j], jit(j), systems[i], jit(i))
      BY <2>5, NoOverlap
    <3> QED
      BY <2>3, <3>1 DEF Conflict, PreviousMask, AtomicMask
  <2> QED
    BY <2>1, <2>4, <2>5
<1> QED
  BY <1>1, FrameInvariant, PTL

\* execute_frame returns normally only with an empty spawn queue.
THEOREM ReturnsQuietly == Spec => []QuietReturn
<1>1. IInv => QuietReturn
  BY DEF IInv, PendingFlagged, QuietReturn
<1> QED
  BY <1>1, FrameInvariant, PTL

-----------------------------------------------------------------------------
(* Deletion, when no registered system adds components.                    *)

\* What a pass without additions knows of the database it found.
Foreseen == OnlyShrinks /\ HitsForeseen

\* A change other than an addition only takes things away.
LEMMA ChangeShrinks ==
  ASSUME NEW rec \in Record, NEW s, s.effect # "add"
  PROVE  /\ Changed(rec, s).mask \subseteq rec.mask
         /\ Changed(rec, s).alive => rec.alive
  BY DEF Changed, Record

\* Steps that leave table, hits and snapshot alone within a pass, or that
\* stay out of passes, keep what the pre-pass has foreseen.
LEMMA ForeseenKept ==
  ASSUME \/ phase' # "pass"
         \/ Foreseen /\ UNCHANGED <<phase, systems, entities, hits, before>>
  PROVE  OnlyShrinks' /\ HitsForeseen'
  BY DEF Foreseen, OnlyShrinks, HitsForeseen, Alive, Node, Matches

\* At the start of a pass the table is the snapshot and nothing was found.
LEMMA ForeseenAtStart ==
  ASSUME IInv, StartPass(entities', pending'), systems' = systems
  PROVE  OnlyShrinks' /\ HitsForeseen'
<1>1. before'.entities = entities'
  BY DEF StartPass
<1>2. \A n \in Node' : hits'[n] = <<>>
  BY NodeIndex DEF IInv, StartPass, ResetPayloads, Everywhere, Node
<1> QED
  BY <1>1, <1>2 DEF OnlyShrinks, HitsForeseen, Alive

LEMMA ScanForeseen ==
  ASSUME IInv, Foreseen, NEW n \in Running, ScanRecord(n)
  PROVE  OnlyShrinks' /\ HitsForeseen'
<1> DEFINE e == scanned[n] + 1
<1>1. phase = "pass" /\ phase' = "pass" /\ n \in Index /\ systems' = systems
      /\ entities' = entities /\ before' = before /\ Node' = Node
  BY RunningInPass DEF ScanRecord, frameVars, dbVars, Node
<1>2. OnlyShrinks'
  BY <1>1 DEF Foreseen, OnlyShrinks, Alive
<1>3. /\ entities \in Seq(Record) /\ scanned[n] \in Nat /\ hits[n] \in Seq(Nat)
      /\ hits \in [Index -> Seq(Nat)]
  BY <1>1 DEF IInv, TypeOK, DatabaseTypes, PayloadTypes
<1>4. e \in DOMAIN entities
  BY <1>3, LenProperties DEF ScanRecord
<1>5. Matches(entities[e], systems[n].query) =>
        /\ e \in DOMAIN before.entities
        /\ Matches(before.entities[e], systems[n].query)
  BY <1>1, <1>4 DEF Foreseen, OnlyShrinks, Alive, Matches
<1>6. ASSUME NEW m \in Node, NEW k \in DOMAIN hits'[m]
      PROVE  /\ hits'[m][k] \in DOMAIN before.entities
             /\ Matches(before.entities[hits'[m][k]], systems[m].query)
  <2>1. CASE hits'[m] = hits[m]
    BY <1>1, <1>6, <2>1 DEF Foreseen, HitsForeseen
  <2>2. CASE hits'[m] # hits[m]
    <3>1. m = n /\ Matches(entities[e], systems[n].query)
          /\ hits'[n] = Append(hits[n], e)
      BY <1>1, <1>3, <2>2 DEF ScanRecord
    <3>2. k \in 1..(Len(hits[n]) + 1) /\ DOMAIN hits[n] = 1..Len(hits[n])
      BY <1>3, <1>6, <3>1, AppendProperties, LenProperties
    <3>3. hits'[n][k] = IF k = Len(hits[n]) + 1 THEN e ELSE hits[n][k]
      BY <1>3, <3>1, <3>2
    <3> QED
      <4>1. CASE k = Len(hits[n]) + 1
        BY <1>5, <3>1, <3>3, <4>1
      <4>2. CASE k # Len(hits[n]) + 1
        <5>1. k \in DOMAIN hits[n] /\ hits'[m][k] = hits[n][k]
          BY <1>3, <3>1, <3>2, <3>3, <4>2
        <5> QED
          BY <1>1, <3>1, <5>1 DEF Foreseen, HitsForeseen
      <4> QED
        BY <4>1, <4>2
  <2> QED
    BY <2>1, <2>2
<1> QED
  BY <1>1, <1>2, <1>6 DEF HitsForeseen

LEMMA ApplyForeseen ==
  ASSUME IInv, DeletersOnly, Foreseen, NEW n \in Running, ApplyChange(n)
  PROVE  OnlyShrinks' /\ HitsForeseen'
<1> DEFINE x == hits[n][applied[n] + 1]
<1>1. /\ phase = "pass" /\ phase' = "pass" /\ systems' = systems
      /\ n \in Node /\ before' = before /\ hits' = hits
      /\ entities' = [entities EXCEPT ![x] = Changed(@, systems[n])]
  BY RunningInPass DEF ApplyChange, frameVars
<1>2. entities \in Seq(Record) /\ systems[n].effect # "add"
  BY <1>1 DEF IInv, TypeOK, DatabaseTypes, DeletersOnly
<1>3. DOMAIN entities' = DOMAIN entities
  BY <1>1
<1>4. ASSUME NEW e \in DOMAIN entities
      PROVE  /\ entities'[e].mask \subseteq entities[e].mask
             /\ entities'[e].alive => entities[e].alive
  <2>1. entities[e] \in Record
    BY <1>2, RecordFields
  <2>2. entities'[e] = entities[e] \/ entities'[e] = Changed(entities[e], systems[n])
    BY <1>1
  <2> QED
    BY <1>2, <2>1, <2>2, ChangeShrinks
<1>5. OnlyShrinks'
  BY <1>1, <1>3, <1>4 DEF Foreseen, OnlyShrinks, Alive
<1>6. HitsForeseen'
  BY <1>1 DEF Foreseen, HitsForeseen, Node, Matches
<1> QED
  BY <1>5, <1>6

LEMMA BlastStep ==
  ASSUME BlastInv, [Next]_vars
  PROVE  BlastInv'
<1>1. IInv /\ IInv'
  BY StepKeeps DEF BlastInv
<1>2. ASSUME DeletersOnly'
      PROVE  OnlyShrinks' /\ HitsForeseen'
  <2>1. CASE HostStep
    <3>1. phase' # "pass"
      BY <2>1 DEF HostStep, RegisterSystem, ClearSystems, CreateEntity,
                  ClearDatabase, InFrame, frameVars
    <3> QED
      BY <3>1, ForeseenKept
  <2>2. CASE BeginFrame
    <3>1. StartPass(entities', pending') /\ systems' = systems
      BY <2>2 DEF BeginFrame, dbVars
    <3> QED
      BY <1>1, <3>1, ForeseenAtStart
  <2>3. CASE ReEnter
    <3>1. StartPass(entities', pending') /\ systems' = systems
      BY <2>3 DEF ReEnter
    <3> QED
      BY <1>1, <3>1, ForeseenAtStart
  <2>4. CASE IdsExhausted \/ EndPass
    <3>1. phase' # "pass"
      BY <2>4 DEF IdsExhausted, EndPass
    <3> QED
      BY <3>1, ForeseenKept
  <2>5. ASSUME systems' = systems
        PROVE  DeletersOnly /\ Foreseen
    BY <1>2, <2>5 DEF BlastInv, DeletersOnly, Foreseen, Node
  <2>6. ASSUME NEW n \in Node, SystemStep(n)
        PROVE  OnlyShrinks' /\ HitsForeseen'
    <3>1. CASE ScanRecord(n)
      BY <1>1, <2>5, <3>1, ScanForeseen DEF ScanRecord, frameVars
    <3>2. CASE ApplyChange(n)
      BY <1>1, <2>5, <3>2, ApplyForeseen DEF ApplyChange, frameVars
    <3>3. CASE \/ Start(n) \/ Skip(n) \/ EndScan(n) \/ ReserveSlot(n)
               \/ PushSpawn(n) \/ Finish(n) \/ Throw(n)
      <4>1. UNCHANGED <<phase, systems, entities, hits, before>>
        <5> USE DEF frameVars, dbVars, payloadVars
        <5>1. CASE Start(n) \/ EndScan(n) \/ ReserveSlot(n)
          BY <5>1 DEF Start, EndScan, ReserveSlot
        <5>2. CASE PushSpawn(n)
          BY <5>2 DEF PushSpawn
        <5>3. CASE Skip(n) \/ Finish(n) \/ Throw(n)
          BY <5>3 DEF Skip, Finish, Throw
        <5> QED
          BY <3>3, <5>1, <5>2, <5>3
      <4> QED
        BY <2>5, <4>1, ForeseenKept
    <3> QED
      BY <2>6, <3>1, <3>2, <3>3 DEF SystemStep
  <2>7. CASE UNCHANGED vars
    <3>1. UNCHANGED <<phase, systems, entities, hits, before>>
      BY <2>7 DEF vars, frameVars, dbVars, payloadVars
    <3> QED
      BY <2>5, <3>1, ForeseenKept
  <2> QED
    BY <2>1, <2>2, <2>3, <2>4, <2>6, <2>7 DEF Next, FrameStep
<1> QED
  BY <1>1, <1>2 DEF BlastInv

\* An entity about to be destroyed is out of reach of every other running
\* system, provided no registered system adds components: the JIT lock
\* escalation of execute_jit_pre_pass is complete then.
THEOREM CondemnedOutOfReach == Spec => []CondemnedExclusive
<1>1. Init => BlastInv
  <2>1. Init => OnlyShrinks /\ HitsForeseen
    BY DEF Init, OnlyShrinks, HitsForeseen
  <2> QED
    BY <2>1, InitInv DEF BlastInv
<1>2. BlastInv /\ [Next]_vars => BlastInv'
  BY BlastStep
<1>3. BlastInv => CondemnedExclusive
  <2> SUFFICES ASSUME IInv, DeletersOnly, Foreseen,
                      NEW d \in Running, NEW j \in Running,
                      d # j, systems[d].effect = "destroy",
                      NEW e \in Condemned(d), Alive(e)
               PROVE  /\ entities[e].mask \intersect StaticWrite(systems[j]) = {}
                      /\ "Previous" \notin systems[j].flags =>
                           entities[e].mask \intersect StaticRead(systems[j]) = {}
    BY DEF BlastInv, Foreseen, CondemnedExclusive, EscalationComplete
  <2> DEFINE jit(n) == JitWriteMask(systems[n], before.entities)
  <2>1. /\ phase = "pass" /\ d \in Nat /\ j \in Nat /\ d \in Node
        /\ systems[d] \in Catalog /\ systems[j] \in Catalog
        /\ before.entities \in Seq(Record)
    BY RunningInPass DEF IInv, TypeOK, DatabaseTypes, Index
  <2>2. /\ e \in DOMAIN before.entities
        /\ Matches(before.entities[e], systems[d].query)
    BY <2>1 DEF Foreseen, HitsForeseen, Condemned
  <2>3. entities[e].mask \subseteq before.entities[e].mask
    BY <2>1, <2>2 DEF Foreseen, OnlyShrinks
  <2>4. /\ systems[d].deletes # {}
        /\ TargetSignature(systems[d]) \subseteq systems[d].query
        /\ "Atomic" \notin systems[d].flags
    BY <2>1 DEF DeletersOnly
  <2>5. before.entities[e].mask \subseteq jit(d)
    BY <2>2, <2>4 DEF JitWriteMask, BlastRadius, QueryEntities, Matches, StaticDelete
  <2>6. StaticWrite(systems[j]) \subseteq jit(j)
    BY <2>1, JitMask
  <2>7. AtomicMask(systems[d]) = {}
    BY <2>4 DEF AtomicMask
  <2>8. CASE d < j
    <3>1. ~Conflict(systems[d], jit(d), systems[j], jit(j))
      BY <2>8, NoOverlap
    <3> QED
      BY <2>3, <2>5, <2>6, <2>7, <3>1 DEF Conflict, PreviousMask
  <2>9. CASE j < d
    <3>1. ~Conflict(systems[j], jit(j), systems[d], jit(d))
      BY <2>9, NoOverlap
    <3> QED
      BY <2>3, <2>5, <2>6, <2>7, <3>1 DEF Conflict, PreviousMask
  <2> QED
    BY <2>1, <2>8, <2>9
<1> QED
  BY <1>1, <1>2, <1>3, PTL DEF Spec
-------------------------------------------------------------------------------
(* The firewall *)

\* A step that takes, gives or ends an entity, and a running system that
\* declared it.
DeclaredChange(e) ==
  /\ Alive(e)' => Alive(e)
  /\ Alive(e) /\ ~Alive(e)' => \E n \in Running : systems[n].deletes # {}
  /\ \A c \in entities'[e].mask \ entities[e].mask :
       \E n \in Running : c \in systems[n].adds
  /\ Alive(e)' => \A c \in entities[e].mask \ entities'[e].mask :
       \E n \in Running : c \in systems[n].removes

LEMMA ChangeDeclared ==
  ASSUME IInv, NEW n \in Running, ApplyChange(n), NEW e \in DOMAIN entities
  PROVE  DeclaredChange(e)
<1>1. PICK s : s = systems[n]
  OBVIOUS
<1>2. PICK r : r = entities[e]
  OBVIOUS
<1>3. entities'[e] = r \/ entities'[e] = Changed(r, s)
  BY <1>1, <1>2 DEF ApplyChange
<1>4. Permitted(s)
  BY <1>1 DEF ApplyChange
<1>5. CASE entities'[e] = r
  BY <1>2, <1>5 DEF DeclaredChange, Alive
<1>6. CASE entities'[e] = Changed(r, s)
  <2>1. CASE s.effect = "destroy"
    <3>1. Changed(r, s) = [mask |-> {}, alive |-> FALSE] /\ s.deletes # {}
      BY <1>4, <2>1 DEF Changed, Permitted
    <3> QED  BY <1>1, <1>2, <1>6, <3>1 DEF DeclaredChange, Alive
  <2>2. CASE s.effect = "add" /\ r.alive
    <3>1. Changed(r, s) = [mask |-> r.mask \union s.operand, alive |-> TRUE]
          /\ s.operand \subseteq s.adds
      BY <1>4, <2>2 DEF Changed, Permitted
    <3>2. /\ Changed(r, s).mask = r.mask \union s.operand /\ Changed(r, s).alive
          /\ \A c \in Changed(r, s).mask \ r.mask : c \in s.adds
          /\ r.mask \ Changed(r, s).mask = {}
      BY <3>1
    <3> QED  BY <1>1, <1>2, <1>6, <2>2, <3>2 DEF DeclaredChange, Alive
  <2>3. CASE s.effect = "remove" /\ r.alive
    <3>1. Changed(r, s) = [mask |-> r.mask \ s.operand, alive |-> TRUE]
          /\ s.operand \subseteq s.removes
      BY <1>4, <2>3 DEF Changed, Permitted
    <3>2. /\ Changed(r, s).mask = r.mask \ s.operand /\ Changed(r, s).alive
          /\ \A c \in r.mask \ Changed(r, s).mask : c \in s.removes
          /\ Changed(r, s).mask \ r.mask = {}
      BY <3>1
    <3> QED  BY <1>1, <1>2, <1>6, <2>3, <3>2 DEF DeclaredChange, Alive
  <2>4. CASE s.effect # "destroy" /\ ~(s.effect \in {"add", "remove"} /\ r.alive)
    <3>1. Changed(r, s) = r
      BY <2>4 DEF Changed
    <3> QED  BY <1>2, <1>6, <3>1 DEF DeclaredChange, Alive
  <2> QED  BY <2>1, <2>2, <2>3, <2>4
<1> QED  BY <1>3, <1>5, <1>6

\* While payloads run an entity gains or loses components, or ends, only if a
\* running system declared that, and a destroyed entity stays destroyed: what
\* DatabaseAccess checks before it changes the database is enough, whichever
\* payloads run beside each other.
THEOREM ChangesDeclared == Spec => DeclaredChangesOnly
<1>1. IInv /\ [Next]_vars =>
        [phase = "pass" /\ phase' = "pass" =>
           \A e \in DOMAIN entities : DeclaredChange(e)]_vars
  <2> SUFFICES ASSUME IInv, Next, phase = "pass", phase' = "pass",
                      NEW e \in DOMAIN entities
               PROVE  DeclaredChange(e)
    OBVIOUS
  <2>1. ASSUME entities' = entities PROVE DeclaredChange(e)
    BY <2>1 DEF DeclaredChange, Alive
  <2>2. CASE HostStep
    BY <2>2 DEF HostStep, RegisterSystem, ClearSystems, CreateEntity,
                ClearDatabase, InFrame
  <2>3. CASE FrameStep
    BY <2>1, <2>3 DEF FrameStep, BeginFrame, ReEnter, IdsExhausted, EndPass, InFrame
  <2>4. ASSUME NEW n \in Node, SystemStep(n) PROVE DeclaredChange(e)
    <3>1. CASE ApplyChange(n)
      <4>1. n \in Running
        BY <3>1 DEF ApplyChange
      <4> QED  BY <3>1, <4>1, ChangeDeclared
    <3>2. CASE ~ApplyChange(n)
      BY <2>1, <2>4, <3>2 DEF SystemStep, Start, Skip, ScanRecord, EndScan,
         ReserveSlot, PushSpawn, Finish, Throw, dbVars
    <3> QED  BY <3>1, <3>2
  <2> QED  BY <2>2, <2>3, <2>4 DEF Next
<1>2. IInv /\ [Next]_vars =>
        [phase = "pass" /\ phase' = "pass" =>
           \A e \in DOMAIN entities :
             /\ Alive(e)' => Alive(e)
             /\ Alive(e) /\ ~Alive(e)' =>
                  \E n \in Running : systems[n].deletes # {}
             /\ \A c \in entities'[e].mask \ entities[e].mask :
                  \E n \in Running : c \in systems[n].adds
             /\ Alive(e)' => \A c \in entities[e].mask \ entities'[e].mask :
                  \E n \in Running : c \in systems[n].removes]_vars
  BY <1>1, Zenon DEF DeclaredChange
<1> QED
  BY <1>2, FrameInvariant, PTL DEF Spec, DeclaredChangesOnly
-----------------------------------------------------------------------------
(* SimpleFrame implements DagRun. *)

\* What ResolvedClosed says of a pass.
Closed ==
  /\ \A n \in resolved : /\ Pred(n) \subseteq resolved
                         /\ Dead(n) => \A j \in dependents[n] : aborted[j]
  /\ \A n \in Running : ~Dead(n)

\* A node is committed: its death spreads, and reaches nobody who has started.
LEMMA ResolveCloses ==
  ASSUME IInv, Closed, NEW n \in Node, n \notin resolved, Pred(n) \subseteq resolved,
         NEW crash \in BOOLEAN, Resolve(n, crash),
         UNCHANGED <<frameVars, dbVars, payloadVars, before>>
  PROVE  Closed'
<1>1. /\ Node' = Node /\ Node \subseteq Index
      /\ UNCHANGED <<dependents, at>> /\ \A m : Pred(m)' = Pred(m)
      /\ resolved' = resolved \union {n} /\ resolved \subseteq Node
      /\ dependents \in [Node -> SUBSET Node]
      /\ failed \in [Index -> BOOLEAN] /\ aborted \in [Index -> BOOLEAN]
  BY NodeIndex DEF Resolve, frameVars, payloadVars, Node, Pred, IInv, TypeOK,
                   FrameTypes, MarkTypes
<1>2. \A m \in Index : m # n => failed'[m] = failed[m]
  BY <1>1 DEF Resolve
<1>3. \A m \in Index :
        aborted'[m] <=> aborted[m] \/ ((crash \/ Dead(n)) /\ m \in dependents[n])
  BY <1>1 DEF Resolve
<1>4. failed'[n] <=> failed[n] \/ crash
  BY <1>1 DEF Resolve
<1>5. n \notin Pred(n)
  OBVIOUS
<1>6. ASSUME NEW m \in Node, m # n, m \notin dependents[n]
      PROVE  Dead(m)' <=> Dead(m)
  <2>1. m \in Index
    BY <1>1
  <2> QED  BY <2>1, <1>2, <1>3, <1>6 DEF Dead
<1>7. Dead(n)' => crash \/ Dead(n)
  <2>1. n \in Index /\ n \notin dependents[n]
    BY <1>1, <1>5 DEF Pred
  <2> QED  BY <2>1, <1>3, <1>4 DEF Dead
<1>8. ASSUME NEW m \in resolved'
      PROVE  /\ Pred(m)' \subseteq resolved'
             /\ Dead(m)' => \A j \in dependents'[m] : aborted'[j]
  <2>1. CASE m = n
    BY <2>1, <1>1, <1>3, <1>7
  <2>2. CASE m # n
    <3>1. m \in resolved /\ m \in Node
      BY <2>2, <1>1
    <3>2. m \notin dependents[n]
      <4>1. Pred(m) \subseteq resolved
        BY <3>1 DEF Closed
      <4> QED  BY <4>1 DEF Pred
    <3> QED  BY <2>2, <3>1, <3>2, <1>1, <1>3, <1>6 DEF Closed
  <2> QED  BY <2>1, <2>2
<1>9. ASSUME NEW m \in Running' PROVE ~Dead(m)'
  <2>1. m \in Running /\ m # n /\ m \in Node
    BY <1>1 DEF Running
  <2>2. m \notin dependents[n]
    BY <2>1 DEF Running, IInv, OrderRespected, Pred
  <2> QED  BY <2>1, <2>2, <1>6 DEF Closed
<1> QED  BY <1>8, <1>9 DEF Closed

\* What runs and what is marked stay as they are.
LEMMA ClosedKept ==
  ASSUME Closed, UNCHANGED <<systems, dependents, failed, aborted, resolved>>,
         \A m \in Node : at'[m] # "wait" => at[m] # "wait" \/ ~Dead(m)
  PROVE  Closed'
<1>1. Node' = Node /\ \A m : Pred(m)' = Pred(m) /\ (Dead(m)' <=> Dead(m))
  BY DEF Node, Pred, Dead
<1>2. \A m \in Running' : ~Dead(m)
  BY <1>1 DEF Running, Closed
<1> QED  BY <1>1, <1>2 DEF Closed

LEMMA ClosedAtStart ==
  ASSUME IInv', NEW records, NEW queue, StartPass(records, queue)
  PROVE  Closed'
<1>1. resolved' = {} /\ at' = Everywhere("wait")
  BY DEF StartPass, ResetPayloads
<1>2. Node' \subseteq Index
  <2>1. TypeOK'
    BY DEF IInv
  <2> QED  BY <2>1, BoundsAssumption DEF TypeOK, FrameTypes, Node, Index
<1>3. Running' = {}
  BY <1>1, <1>2 DEF Running, Everywhere
<1> QED  BY <1>1, <1>3 DEF Closed

LEMMA DagStep ==
  ASSUME DagInv, [Next]_vars
  PROVE  DagInv'
<1>1. IInv /\ IInv' /\ (phase = "pass" => Closed)
  BY StepKeeps DEF DagInv, ResolvedClosed, Closed
<1> SUFFICES ASSUME phase' = "pass" PROVE Closed'
  BY <1>1 DEF DagInv, ResolvedClosed, Closed
<1>2. CASE HostStep
  <2>1. phase' # "pass"
    BY <1>2 DEF HostStep, RegisterSystem, ClearSystems, CreateEntity,
                ClearDatabase, InFrame, frameVars
  <2> QED  BY <2>1
<1>3. CASE BeginFrame
  BY <1>1, <1>3, ClosedAtStart DEF BeginFrame
<1>4. CASE ReEnter
  BY <1>1, <1>4, ClosedAtStart DEF ReEnter
<1>5. CASE IdsExhausted \/ EndPass
  <2>1. phase' # "pass"
    BY <1>5 DEF IdsExhausted, EndPass
  <2> QED  BY <2>1
<1>6. ASSUME NEW n \in Node, SystemStep(n) PROVE Closed'
  <2>1. phase = "pass"
    BY <1>1, <1>6, RunningInPass DEF SystemStep, Start, Skip, ScanRecord, EndScan,
       ApplyChange, ReserveSlot, PushSpawn, Finish, Throw
  <2>2. IInv /\ Closed
    BY <1>1, <2>1
  <2>3. CASE Start(n)
    <3>1. /\ UNCHANGED <<systems, dependents, failed, aborted, resolved>>
          /\ ~Dead(n) /\ at' = [at EXCEPT ![n] = "scan"]
      BY <2>3 DEF Start, frameVars, markVars
    <3>2. \A m \in Node : at'[m] # "wait" => at[m] # "wait" \/ ~Dead(m)
      BY <3>1
    <3> QED  BY <2>2, <3>1, <3>2, ClosedKept
  <2>4. CASE \/ ScanRecord(n) \/ EndScan(n) \/ ApplyChange(n)
             \/ ReserveSlot(n) \/ PushSpawn(n)
    <3>1. /\ UNCHANGED <<systems, dependents, failed, aborted, resolved>>
          /\ at[n] # "wait"
          /\ at' = at \/ \E x : at' = [at EXCEPT ![n] = x]
      BY <2>4 DEF ScanRecord, EndScan, ApplyChange, ReserveSlot, PushSpawn,
                  frameVars, markVars
    <3>2. \A m \in Node : at'[m] # "wait" => at[m] # "wait" \/ ~Dead(m)
      <4>1. at \in [Index -> {"wait", "scan", "apply", "push"}] /\ Node \subseteq Index
        BY <2>2, NodeIndex DEF IInv, TypeOK, PayloadTypes
      <4> QED  BY <3>1, <4>1
    <3> QED  BY <2>2, <3>1, <3>2, ClosedKept
  <2>5. CASE Skip(n) \/ Finish(n) \/ Throw(n)
    <3>1. /\ n \notin resolved
          /\ UNCHANGED <<frameVars, dbVars, payloadVars, before>>
      BY <2>5 DEF Skip, Finish, Throw, Running
    <3>2. Pred(n) \subseteq resolved
      BY <2>2, <2>5 DEF Skip, Finish, Throw, Running, IInv, OrderRespected
    <3>3. PICK crash \in BOOLEAN : Resolve(n, crash)
      BY <2>5 DEF Skip, Finish, Throw
    <3> QED  BY <2>2, <3>1, <3>2, <3>3, ResolveCloses
  <2> QED  BY <1>6, <2>3, <2>4, <2>5 DEF SystemStep
<1>7. CASE UNCHANGED vars
  <2>1. /\ phase = "pass"
        /\ UNCHANGED <<systems, dependents, failed, aborted, resolved, at>>
    BY <1>7 DEF vars, frameVars, markVars, payloadVars
  <2> QED  BY <1>1, <2>1, ClosedKept
<1> QED  BY <1>2, <1>3, <1>4, <1>5, <1>6, <1>7 DEF Next, FrameStep

\* A resolved node has its predecessors behind it, its death has spread to its
\* dependents, and no running system is dead.
THEOREM PoisonFollowsEdges == Spec => []DagInv
<1>1. Init => DagInv
  <2>1. Init => phase # "pass"
    BY DEF Init
  <2> QED  BY <2>1, InitInv DEF DagInv, ResolvedClosed
<1>2. DagInv /\ [Next]_vars => DagInv'
  BY DagStep
<1> QED  BY <1>1, <1>2, PTL DEF Spec
\* The graph of a pass is one that DagRun may be given.
LEMMA GraphIsForward ==
  ASSUME NEW list \in Seq(Catalog), Len(list) <= MaxSystems, NEW jit
  PROVE  TopologicalGraph(list, jit) \in ForwardGraphs
<1>1. PICK k \in Nat : k = Len(list) /\ DOMAIN list = 1..k
  OBVIOUS
<1> DEFINE Forward == {p \in (1..k) \X (1..k) : p[1] < p[2]}
           E == {p \in Forward : Conflict(list[p[1]], jit[p[1]], list[p[2]], jit[p[2]])}
<1>2. ASSUME NEW i \in 1..k
      PROVE  {j \in DOMAIN list : i < j /\ Conflict(list[i], jit[i], list[j], jit[j])}
               = {j \in 1..k : <<i, j>> \in E}
  <2>1. \A j \in 1..k : <<i, j>> \in E <=>
                          i < j /\ Conflict(list[i], jit[i], list[j], jit[j])
    OBVIOUS
  <2> HIDE DEF E
  <2> QED  BY <2>1, <1>1
<1>3. E \in SUBSET Forward
  OBVIOUS
<1>4. k \in 0..MaxSystems
  BY <1>1, BoundsAssumption
<1> HIDE DEF E
<1>5. TopologicalGraph(list, jit) = [i \in 1..k |-> {j \in 1..k : <<i, j>> \in E}]
  BY <1>1, <1>2 DEF TopologicalGraph
<1> DEFINE Over(b) == {[i \in 1..b |-> {j \in 1..b : <<i, j>> \in F}] :
                        F \in SUBSET {p \in (1..b) \X (1..b) : p[1] < p[2]}}
<1>6. TopologicalGraph(list, jit) \in Over(k)
  BY <1>3, <1>5
<1>7. ForwardGraphs = UNION {Over(b) : b \in 0..MaxSystems}
  BY DEF ForwardGraphs
<1> HIDE DEF Over
<1> QED  BY <1>4, <1>6, <1>7

\* A pass as DagRun sees it.
PassEdges == IF phase = "pass" THEN dependents ELSE [n \in {} |-> {}]
PassResolved == IF phase = "pass" THEN resolved ELSE {}
Casualties == {n \in Index : Dead(n)}

LEMMA DagView ==
  ASSUME DagInv
  PROVE  /\ phase # "pass" => Running = {}
         /\ phase = "pass" => Dag!System = Node /\ \A n : Dag!Before(n) = Pred(n)
         /\ Node \subseteq Index /\ resolved \subseteq Node
         /\ dependents \in [Node -> SUBSET Node]
         /\ failed \in [Index -> BOOLEAN] /\ aborted \in [Index -> BOOLEAN]
         /\ at \in [Index -> {"wait", "scan", "apply", "push"}]
<1>1. /\ Node \subseteq Index /\ resolved \subseteq Node
      /\ dependents \in [Node -> SUBSET Node]
      /\ failed \in [Index -> BOOLEAN] /\ aborted \in [Index -> BOOLEAN]
      /\ at \in [Index -> {"wait", "scan", "apply", "push"}]
  BY NodeIndex DEF DagInv, IInv, TypeOK, FrameTypes, MarkTypes, PayloadTypes
<1>2. phase = "pass" => Dag!System = Node /\ \A n : Dag!Before(n) = Pred(n)
  BY <1>1 DEF Dag!System, Dag!Before, Pred
<1>3. phase # "pass" => Running = {}
  BY <1>1 DEF DagInv, IInv, OrderRespected, Running, Everywhere
<1> QED  BY <1>1, <1>2, <1>3

\* A system step is a step of the run or changes nothing it shows.
LEMMA SystemRefines ==
  ASSUME DagInv, phase = "pass", NEW n \in Node, SystemStep(n)
  PROVE  Dag!Next \/ UNCHANGED Dag!dagVars
<1>1. /\ Dag!System = Node /\ \A m : Dag!Before(m) = Pred(m)
      /\ Node \subseteq Index /\ resolved \subseteq Node
      /\ dependents \in [Node -> SUBSET Node]
      /\ failed \in [Index -> BOOLEAN] /\ aborted \in [Index -> BOOLEAN]
      /\ at \in [Index -> {"wait", "scan", "apply", "push"}]
  BY DagView
<1>2. /\ \A m \in resolved : Dead(m) => \A j \in dependents[m] : aborted[j]
      /\ \A m \in Running : ~Dead(m)
  BY DEF DagInv, ResolvedClosed
<1>3. CASE Start(n)
  <2>1. /\ UNCHANGED <<phase, dependents, failed, aborted, resolved, systems>>
        /\ at[n] = "wait" /\ n \notin resolved /\ ~Dead(n) /\ Pred(n) \subseteq resolved
        /\ at' = [at EXCEPT ![n] = "scan"]
    BY <1>3 DEF Start, frameVars, markVars
  <2>2. Running' = Running \union {n} /\ n \notin Running
    <3>1. Node' = Node /\ \A m \in Node : at'[m] = IF m = n THEN "scan" ELSE at[m]
      BY <2>1, <1>1 DEF Node
    <3> QED  BY <2>1, <3>1 DEF Running
  <2>3. Casualties' = Casualties /\ PassEdges' = PassEdges /\ PassResolved' = PassResolved
    BY <2>1 DEF Casualties, Dead, PassEdges, PassResolved
  <2>4. \A i \in Pred(n) : i \in resolved /\ ~Dead(i)
    BY <2>1, <1>2 DEF Pred, Dead
  <2>5. Dag!Start(n)
    BY <1>1, <2>1, <2>2, <2>3, <2>4
       DEF Dag!Start, Casualties, PassEdges, PassResolved
  <2> QED  BY <1>1, <2>5 DEF Dag!Next
<1>4. CASE \/ ScanRecord(n) \/ EndScan(n) \/ ApplyChange(n)
           \/ ReserveSlot(n) \/ PushSpawn(n)
  <2>1. /\ UNCHANGED <<phase, dependents, failed, aborted, resolved, systems>>
        /\ n \in Running
        /\ \/ at' = at
           \/ at' = [at EXCEPT ![n] = "apply"]
           \/ at' = [at EXCEPT ![n] = "push"]
    BY <1>4 DEF ScanRecord, EndScan, ApplyChange, ReserveSlot, PushSpawn,
                frameVars, markVars
  <2>2. Running' = Running
    <3>1. Node' = Node /\ \A m \in Node : at'[m] # "wait" <=> at[m] # "wait"
      BY <2>1, <1>1 DEF Node, Running
    <3> QED  BY <2>1, <3>1 DEF Running
  <2>3. Casualties' = Casualties /\ PassEdges' = PassEdges /\ PassResolved' = PassResolved
    BY <2>1 DEF Casualties, Dead, PassEdges, PassResolved
  <2> QED  BY <2>1, <2>2, <2>3 DEF Dag!dagVars, Casualties, PassEdges, PassResolved
<1>5. ASSUME NEW crash \in BOOLEAN, Resolve(n, crash), n \notin resolved,
             UNCHANGED <<frameVars, dbVars, payloadVars, before>>
      PROVE  /\ UNCHANGED <<phase, dependents>>
             /\ Running' = Running \ {n}
             /\ PassEdges' = PassEdges /\ PassResolved' = PassResolved \union {n}
             /\ Casualties' = Casualties \union (IF crash THEN {n} ELSE {})
                                \union (IF crash \/ Dead(n) THEN dependents[n] ELSE {})
  <2>1. /\ UNCHANGED <<phase, dependents, systems, at>>
        /\ resolved' = resolved \union {n} /\ Node' = Node
    BY <1>5 DEF Resolve, frameVars, payloadVars, Node
  <2>2. \A m \in Index : failed'[m] <=> failed[m] \/ (m = n /\ crash)
    BY <1>1, <1>5 DEF Resolve
  <2>3. \A m \in Index :
          aborted'[m] <=> aborted[m] \/ ((crash \/ Dead(n)) /\ m \in dependents[n])
    BY <1>5 DEF Resolve
  <2>4. dependents[n] \subseteq Index /\ n \in Index
    BY <1>1
  <2>5. \A m \in Index : Dead(m)' <=>
          \/ Dead(m)
          \/ m = n /\ crash
          \/ (crash \/ Dead(n)) /\ m \in dependents[n]
    BY <2>2, <2>3 DEF Dead
  <2>6. Casualties' = Casualties \union (IF crash THEN {n} ELSE {})
                        \union (IF crash \/ Dead(n) THEN dependents[n] ELSE {})
    BY <2>4, <2>5 DEF Casualties
  <2> QED  BY <2>1, <2>6 DEF Running, PassEdges, PassResolved
<1>6. CASE Skip(n)
  <2>1. /\ Dead(n) /\ n \notin resolved /\ Pred(n) \subseteq resolved /\ n \notin Running
        /\ Resolve(n, FALSE) /\ UNCHANGED <<frameVars, dbVars, payloadVars, before>>
    BY <1>2, <1>6 DEF Skip
  <2>2. Dag!Skip(n)
    BY <1>1, <1>5, <2>1 DEF Dag!Skip, Casualties, PassEdges, PassResolved
  <2> QED  BY <1>1, <2>2 DEF Dag!Next
<1>7. CASE Finish(n)
  <2>1. /\ ~Dead(n) /\ n \notin resolved /\ n \in Running
        /\ Resolve(n, FALSE) /\ UNCHANGED <<frameVars, dbVars, payloadVars, before>>
    BY <1>2, <1>7 DEF Finish, Running
  <2>2. Dag!Finish(n)
    BY <1>1, <1>5, <2>1 DEF Dag!Finish, Casualties, PassEdges, PassResolved
  <2> QED  BY <1>1, <2>2 DEF Dag!Next
<1>8. CASE Throw(n)
  <2>1. /\ n \notin resolved /\ n \in Running
        /\ Resolve(n, TRUE) /\ UNCHANGED <<frameVars, dbVars, payloadVars, before>>
    BY <1>8 DEF Throw, Running
  <2>2. Dag!Fail(n)
    BY <1>1, <1>5, <2>1 DEF Dag!Fail, Casualties, PassEdges, PassResolved
  <2> QED  BY <1>1, <2>2 DEF Dag!Next
<1> QED  BY <1>3, <1>4, <1>6, <1>7, <1>8 DEF SystemStep

\* A pass opens.
LEMMA StartRefines ==
  ASSUME IInv', phase # "pass", NEW records, NEW queue, StartPass(records, queue),
         systems' = systems, Running = {}
  PROVE  /\ dependents' \in ForwardGraphs /\ phase' = "pass"
         /\ Running' = {} /\ PassEdges' = dependents' /\ PassResolved' = {}
<1>1. /\ phase' = "pass" /\ resolved' = {} /\ at' = Everywhere("wait")
      /\ dependents' = TopologicalGraph(systems', jitWrite')
  BY DEF StartPass, ResetPayloads
<1>2. /\ systems' \in Seq(Catalog) /\ Len(systems') <= MaxSystems /\ Node' \subseteq Index
  <2>1. TypeOK'
    BY DEF IInv
  <2> QED  BY <2>1, BoundsAssumption DEF TypeOK, FrameTypes, Node, Index
<1>3. dependents' \in ForwardGraphs
  <2>1. PICK list : list = systems'
    OBVIOUS
  <2>2. PICK jit : jit = jitWrite'
    OBVIOUS
  <2>3. TopologicalGraph(list, jit) \in ForwardGraphs
    BY <1>2, <2>1, GraphIsForward
  <2> QED  BY <1>1, <2>1, <2>2, <2>3
<1>4. Running' = {}
  BY <1>1, <1>2 DEF Running, Everywhere
<1> QED  BY <1>1, <1>3, <1>4 DEF PassEdges, PassResolved

\* Every behaviour of a frame over its database is a run of its dependency
\* graphs: what the payloads do to the entities never bends the schedule.
THEOREM FrameRefinesDag == Spec => PassRunsTheDag
<1>1. Init => Dag!Init
  <2> SUFFICES ASSUME Init PROVE Dag!Init
    OBVIOUS
  <2>1. Running = {} /\ Casualties = {}
    BY DEF Init, Running, Casualties, Dead, Everywhere, Node
  <2> QED  BY <2>1 DEF Init, Dag!Init, Dag!None, Casualties
<1>2. DagInv /\ DagInv' /\ [Next]_vars => [Dag!Next]_(Dag!dagVars)
  <2> SUFFICES ASSUME DagInv, DagInv', [Next]_vars
               PROVE  Dag!Next \/ UNCHANGED Dag!dagVars
    OBVIOUS
  <2>1. /\ phase # "pass" => Running = {}
        /\ phase' # "pass" => Running' = {}
    <3>1. ~(phase' = "pass") => Running' = {}
      <4>1. IInv'
        BY DEF DagInv
      <4>2. Node' \subseteq Index
        BY <4>1, BoundsAssumption DEF IInv, TypeOK, FrameTypes, Node, Index
      <4> QED  BY <4>1, <4>2 DEF IInv, OrderRespected, Running, Everywhere
    <3> QED  BY <3>1, DagView
  <2>2. CASE \/ \E s \in Catalog : RegisterSystem(s)
             \/ \E m \in InitialMasks : CreateEntity(m)
             \/ ClearDatabase
             \/ IdsExhausted
    <3>1. phase # "pass" /\ phase' # "pass" /\ UNCHANGED <<failed, aborted>>
      BY <2>2 DEF RegisterSystem, CreateEntity, ClearDatabase, IdsExhausted, InFrame,
                  frameVars, markVars
    <3>2. Casualties' = Casualties
      BY <3>1 DEF Casualties, Dead
    <3> QED  BY <2>1, <3>1, <3>2 DEF Dag!dagVars, Casualties
  <2>3. CASE ClearSystems
    <3>1. phase # "pass" /\ phase' # "pass" /\ ClearMarks
      BY <2>3 DEF ClearSystems, InFrame
    <3>2. Casualties' = {}
      BY <3>1 DEF Casualties, Dead, ClearMarks, Everywhere
    <3>3. Dag!NewFrame
      BY <2>1, <3>1, <3>2 DEF Dag!NewFrame, Casualties
    <3> QED  BY <3>3 DEF Dag!Next
  <2>4. CASE BeginFrame
    <3>1. phase # "pass" /\ systems' = systems /\ ClearMarks /\ StartPass(entities, pending)
      BY <2>4 DEF BeginFrame, InFrame
    <3>2. Casualties' = {}
      BY <3>1 DEF Casualties, Dead, ClearMarks, Everywhere
    <3>3. /\ dependents' \in ForwardGraphs /\ phase' = "pass"
          /\ Running' = {} /\ PassEdges' = dependents' /\ PassResolved' = {}
      BY <2>1, <3>1, StartRefines DEF DagInv
    <3>4. Dag!OpenFirst(dependents')
      BY <3>1, <3>2, <3>3 DEF Dag!OpenFirst, Dag!Opens, Casualties, PassEdges, PassResolved
    <3> QED  BY <3>3, <3>4 DEF Dag!Next
  <2>5. CASE ReEnter
    <3>1. /\ phase # "pass" /\ systems' = systems /\ UNCHANGED <<failed, aborted>>
          /\ StartPass(entities', <<>>)
      BY <2>5 DEF ReEnter
    <3>2. Casualties' = Casualties
      BY <3>1 DEF Casualties, Dead
    <3>3. /\ dependents' \in ForwardGraphs /\ phase' = "pass"
          /\ Running' = {} /\ PassEdges' = dependents' /\ PassResolved' = {}
      BY <2>1, <3>1, StartRefines DEF DagInv
    <3>4. Dag!Open(dependents')
      BY <3>1, <3>2, <3>3 DEF Dag!Open, Dag!Opens, Casualties, PassEdges, PassResolved
    <3> QED  BY <3>3, <3>4 DEF Dag!Next
  <2>6. CASE EndPass
    <3>1. /\ phase = "pass" /\ phase' # "pass" /\ resolved = Node
          /\ UNCHANGED <<failed, aborted>>
      BY <2>6 DEF EndPass
    <3>2. Casualties' = Casualties
      BY <3>1 DEF Casualties, Dead
    <3>3. Dag!Close
      BY <2>1, <3>1, <3>2, DagView DEF Dag!Close, Dag!None, Casualties
    <3> QED  BY <3>3 DEF Dag!Next
  <2>7. ASSUME NEW n \in Node, SystemStep(n)
        PROVE  Dag!Next \/ UNCHANGED Dag!dagVars
    <3>1. phase = "pass"
      BY <2>7, RunningInPass DEF DagInv, SystemStep, Start, Skip, ScanRecord, EndScan,
         ApplyChange, ReserveSlot, PushSpawn, Finish, Throw
    <3> QED  BY <2>7, <3>1, SystemRefines
  <2>8. CASE UNCHANGED vars
    <3>1. UNCHANGED <<phase, dependents, failed, aborted, resolved, systems, at>>
      BY <2>8 DEF vars, frameVars, markVars, payloadVars
    <3>2. Running' = Running /\ Casualties' = Casualties
      BY <3>1 DEF Running, Casualties, Dead, Node
    <3> QED  BY <3>1, <3>2 DEF Dag!dagVars, Casualties
  <2> QED
    BY <2>2, <2>3, <2>4, <2>5, <2>6, <2>7, <2>8 DEF Next, HostStep, FrameStep
<1> QED
  BY <1>1, <1>2, PoisonFollowsEdges, PTL DEF Spec, Dag!Spec, PassRunsTheDag
===============================================================================
