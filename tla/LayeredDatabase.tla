--------------------------- MODULE LayeredDatabase ---------------------------
(***************************************************************************)
(* The layered database of                                                 *)
(* src/Engine/TestUsagiExecutive/Pipelined/EntityDatabase.hpp: a stack of  *)
(* EntityDatabase layers, of which only the top one may change, the        *)
(* LayeredDatabaseAggregator that redirects and tombstones entities of the *)
(* layers below, and the reboot of Orchestrator.hpp, which keeps the       *)
(* layers and rebuilds the indices.                                        *)
(*                                                                         *)
(* A coordinate <<layer, partition, k>> is a place in a partition of a     *)
(* layer, k counting the slots of all its pages.  Every marker and patch   *)
(* is created in partition 0, so that an iteration meets them in the order *)
(* of k.  A mask is a set of components; the brands CompShadowTombstone    *)
(* and CompShadowRedirect are on exactly the entities that have a payload  *)
(* of that kind, and are left out of it.                                   *)
(*                                                                         *)
(* The program calls the aggregator from one thread at a time here.  The   *)
(* loops of commit_pending_spawns take a step per element, and nothing     *)
(* else happens meanwhile.                                                 *)
(***************************************************************************)
EXTENDS ShadowIndex, FiniteSets, SequencesExt

CONSTANTS
  Component,
  Partition,     \* partitions in use, of MAX_SPAWN_PARTITIONS
  PageSize,      \* HIVE_PAGE_SIZE
  SpawnMasks,    \* masks the free client spawns entities with
  Changes,       \* components it adds and removes
  MaxLayers,     \* bound: layers of its stack
  MaxEntities,   \* bound: slots it uses up in all layers together
  MaxQueued,     \* bound: spawns, edges and writes it has queued at a time
  LateMounts,    \* whether it mounts layers under a top layer in use
  Sparing        \* whether it leaves out calls that repeat a situation

ASSUME LayerAssumption ==
  /\ SpawnMasks \subseteq SUBSET Component
  /\ Changes \subseteq Component
  /\ Partition \subseteq 0..255 /\ 0 \in Partition
  /\ PageSize \in Nat \ {0}
  /\ MaxLayers \in Nat \ {0}
  /\ MaxEntities \in Nat
  /\ MaxQueued \in Nat
  /\ LateMounts \in BOOLEAN
  /\ Sparing \in BOOLEAN

VARIABLES
  depth,      \* number of layers
  next,       \* layer -> partition -> the next slot
  mask,       \* coordinate -> components, for every entity ever created
  active,     \* coordinates whose bit is set in ComponentGroupMeta::entities
  bloom,      \* page -> aggregate_bloom_filter, for the pages in use
  tombOf,     \* payloads.tombstones: marker -> what it erases
  redirOf,    \* payloads.redirects: patch -> what it replaces
  edgeSrc,    \* payloads.edge_sources: edge -> its source
  adj,        \* transient_edges of all layers: pairs <<source, edge>>
  index,      \* the shadow index
  spawnQ,     \* layer -> partition -> spawn_queues
  edgeQ,      \* layer -> edge_spawn_queue, without the targets
  tombQ,      \* tombstone_queue
  shadowQ,    \* shadow_queue: records base, new
  mode        \* "idle" or "commit"

physicalVars == <<next, mask, active, bloom>>
payloadVars == <<tombOf, redirOf, edgeSrc>>
queueVars == <<spawnQ, edgeQ, tombQ, shadowQ>>
vars == <<depth, physicalVars, payloadVars, adj, index, queueVars, mode>>

Top == depth - 1
InTop(e) == e[1] = Top
PageOf(e) == <<e[1], e[2], e[3] \div PageSize>>
Entity == DOMAIN mask \ DOMAIN tombOf    \* what a system may hold a handle of

----------------------------------------------------------------------------
(* Reading *)

\* get_dynamic_mask_raw.
RawMask(e) == IF e \in active THEN mask[e] ELSE {}

\* get_dynamic_mask, without the brands.  Variant: the newest alias is trusted
\* without a look at what shadows it.
ResurrectedMask(e) == RawMask(Terminal(index, e))

DynamicMask(e) ==
  IF IsTombstoned(index, Terminal(index, e))
  THEN {} ELSE RawMask(Terminal(index, e))

\* iterate_spans over all layers: pages are passed over by their filter, and
\* the top layer does not ask the shadow index.
Iterated(required) ==
  {e \in active : /\ required \subseteq bloom[PageOf(e)]
                  /\ required \subseteq mask[e]
                  /\ InTop(e) \/ ~IsTombstoned(index, e)}

\* get_outbound_edges.
OutboundEdges(source) ==
  {e \in DOMAIN edgeSrc :
     /\ \E alias \in Range(RedirectChain(index, source)) : <<alias, e>> \in adj
     /\ ~IsTombstoned(index, e)}

----------------------------------------------------------------------------
(* The store as its users see it *)

Root == {e \in Entity : e \notin DOMAIN index.rootOf}

View == [e \in Root |-> DynamicMask(e)]

Pending ==
  [i \in 1..Len(tombQ) |-> <<LogicalRoot(index, tombQ[i]), {}>>]
    \o [i \in 1..Len(shadowQ) |->
          <<LogicalRoot(index, shadowQ[i].base), shadowQ[i].new>>]

\* The newest word on such an entity was erased in its own layer.
Scarred ==
  {e \in Root : \E i \in DOMAIN RedirectChain(index, e) :
                  i > 1 /\ RedirectChain(index, e)[i] \notin active}

----------------------------------------------------------------------------
(* Writing *)

NoSlots == [p \in Partition |-> 0]
NoSpawns == [p \in Partition |-> <<>>]

Init ==
  /\ depth = 1
  /\ next = [d \in {0} |-> NoSlots]
  /\ mask = <<>> /\ active = {} /\ bloom = <<>>
  /\ tombOf = <<>> /\ redirOf = <<>> /\ edgeSrc = <<>> /\ adj = {}
  /\ index = EmptyIndex
  /\ spawnQ = [d \in {0} |-> NoSpawns] /\ edgeQ = [d \in {0} |-> <<>>]
  /\ tombQ = <<>> /\ shadowQ = <<>>
  /\ mode = "idle"

Fresh(p) == <<Top, p, next[Top][p]>>

\* The filter of the page of e takes m in.
Bloomed(e, m) ==
  With(bloom, PageOf(e), m \cup IF PageOf(e) \in DOMAIN bloom
                               THEN bloom[PageOf(e)] ELSE {})

\* create_entity_immediate: the next slot of the partition, on a new page when
\* the last one is full.  Variant: the slot index is not advanced.
CreateInPlace(m, p) ==
  /\ next' = next
  /\ mask' = With(mask, Fresh(p), m)
  /\ active' = active \cup {Fresh(p)}
  /\ bloom' = Bloomed(Fresh(p), m)

Create(m, p) ==
  /\ next' = [next EXCEPT ![Top][p] = @ + 1]
  /\ mask' = With(mask, Fresh(p), m)
  /\ active' = active \cup {Fresh(p)}
  /\ bloom' = Bloomed(Fresh(p), m)

CreateEntity(m, p) ==
  /\ mode = "idle"
  /\ Create(m, p)
  /\ UNCHANGED <<depth, payloadVars, adj, index, queueVars, mode>>

QueueSpawn(m, p) ==
  /\ mode = "idle"
  /\ spawnQ' = [spawnQ EXCEPT ![Top][p] = Append(@, m)]
  /\ UNCHANGED <<depth, physicalVars, payloadVars, adj, index, edgeQ, tombQ,
                 shadowQ, mode>>

QueueEdge(source, m) ==
  /\ mode = "idle"
  /\ edgeQ' = [edgeQ EXCEPT ![Top] = Append(@, [source |-> source, mask |-> m])]
  /\ UNCHANGED <<depth, physicalVars, payloadVars, adj, index, spawnQ, tombQ,
                 shadowQ, mode>>

\* Every interceptor writes to the newest alias.  Variant: to the one given.
WriteToHandle(e) == e
WriteTarget(e) == Terminal(index, e)

\* Variant: the layer of the target is not looked at.
WritableAnywhere(t) == TRUE
Writable(t) == InTop(t)

\* destroy_entity_immediate: clears the slot, if there is one, and the edges of
\* this layer's index that leave it.
DestroyImmediate(t) ==
  /\ mask' = [e \in DOMAIN mask |-> IF e = t THEN {} ELSE mask[e]]
  /\ active' = active \ {t}
  /\ adj' = {p \in adj : ~(p[1] = t /\ InTop(p[2]))}
  /\ UNCHANGED <<next, bloom, queueVars>>

DestroyEntity(e) ==
  LET t == WriteTarget(e) IN
  /\ mode = "idle"
  /\ \/ Writable(t) /\ DestroyImmediate(t)
     \/ /\ ~Writable(t)
        /\ tombQ' = Append(tombQ, t)
        /\ UNCHANGED <<physicalVars, adj, spawnQ, edgeQ, shadowQ>>
  /\ UNCHANGED <<depth, payloadVars, index, mode>>

\* Variant of Widened: a component added later is not in the filter.
NotWidened(t, gained) == bloom

\* add_component_immediate adds to the filter; nothing is ever taken from it.
Widened(t, gained) == IF gained = {} THEN bloom ELSE Bloomed(t, gained)

\* add_component and remove_component, by what they add and take away.
\* In the top layer the slot changes at once; a dead slot is not used again,
\* and what is written to it does not matter.
Change(e, gained, lost) ==
  LET t == WriteTarget(e)
      Changed(m) == (m \cup gained) \ lost
  IN
  /\ mode = "idle"
  /\ \/ /\ Writable(t)
        /\ mask' = [mask EXCEPT ![t] = IF t \in active THEN Changed(@) ELSE @]
        /\ bloom' = Widened(t, gained)
        /\ UNCHANGED queueVars
     \/ /\ ~Writable(t)
        /\ shadowQ' = Append(shadowQ, [base |-> t,
                                      new |-> Changed(DynamicMask(t))])
        /\ UNCHANGED <<mask, bloom, spawnQ, edgeQ, tombQ>>
  /\ UNCHANGED <<depth, next, active, payloadVars, adj, index, mode>>

AddComponent(e, m) == Change(e, m, {})
RemoveComponent(e, m) == Change(e, {}, m)

----------------------------------------------------------------------------
(* commit_pending_spawns: spawns and edges of the top layer, then the      *)
(* tombstones, then the patches                                            *)

Spawning == {p \in Partition : spawnQ[Top][p] # <<>>}
TopCommitted == Spawning = {} /\ edgeQ[Top] = <<>>

HasPendingSpawns == ~TopCommitted \/ tombQ \o shadowQ # <<>>

BeginCommit ==
  /\ mode = "idle"
  /\ HasPendingSpawns
  /\ mode' = "commit"
  /\ UNCHANGED <<depth, physicalVars, payloadVars, adj, index, queueVars>>

CommitSpawn ==
  /\ mode = "commit"
  /\ \E p \in Spawning :
       /\ \A q \in Spawning : p <= q
       /\ Create(Head(spawnQ[Top][p]), p)
       /\ spawnQ' = [spawnQ EXCEPT ![Top][p] = Tail(@)]
  /\ UNCHANGED <<depth, payloadVars, adj, index, edgeQ, tombQ, shadowQ,
                 mode>>

CommitEdge ==
  /\ mode = "commit" /\ Spawning = {} /\ edgeQ[Top] # <<>>
  /\ LET edge == Head(edgeQ[Top])
     IN  /\ Create(edge.mask, 0)
         /\ edgeSrc' = With(edgeSrc, Fresh(0), edge.source)
         /\ adj' = adj \cup {<<edge.source, Fresh(0)>>}
  /\ edgeQ' = [edgeQ EXCEPT ![Top] = Tail(@)]
  /\ UNCHANGED <<depth, tombOf, redirOf, index, spawnQ, tombQ, shadowQ,
                 mode>>

CommitTombstone ==
  /\ mode = "commit" /\ TopCommitted /\ tombQ # <<>>
  /\ Create({}, 0)
  /\ tombOf' = With(tombOf, Fresh(0), Head(tombQ))
  /\ index' = AddTombstone(index, Head(tombQ))
  /\ tombQ' = Tail(tombQ)
  /\ UNCHANGED <<depth, redirOf, edgeSrc, adj, spawnQ, edgeQ, shadowQ,
                 mode>>

CommitPatch ==
  /\ mode = "commit" /\ TopCommitted /\ tombQ = <<>> /\ shadowQ # <<>>
  /\ Create(Head(shadowQ).new, 0)
  /\ redirOf' = With(redirOf, Fresh(0), Head(shadowQ).base)
  /\ index' = AddRedirect(index, Head(shadowQ).base, Fresh(0))
  /\ shadowQ' = Tail(shadowQ)
  /\ UNCHANGED <<depth, tombOf, edgeSrc, adj, spawnQ, edgeQ, tombQ, mode>>

EndCommit ==
  /\ mode = "commit" /\ TopCommitted /\ tombQ = <<>> /\ shadowQ = <<>>
  /\ mode' = "idle"
  /\ UNCHANGED <<depth, physicalVars, payloadVars, adj, index, queueVars>>

----------------------------------------------------------------------------
(* The stack *)

\* push_new_mutable_patch_layer.  What the old top layer still has in its own
\* queues stays there.
PushLayer ==
  /\ mode = "idle"
  /\ depth' = depth + 1
  /\ next' = With(next, depth, NoSlots)
  /\ spawnQ' = With(spawnQ, depth, NoSpawns)
  /\ edgeQ' = With(edgeQ, depth, <<>>)
  /\ UNCHANGED <<mask, active, bloom, payloadVars, adj, index, tombQ, shadowQ,
                 mode>>

\* mount_readonly_layer slips a layer under the top one, which moves up by one.
\* Its guard asks for an entity with all 64 bits of the mask and never finds
\* one.  Payloads, queues and indices keep the coordinates they had.  The new
\* layer was filled before: entities with some masks, then edges between them,
\* all in partition 0 of domain 0.
Lifted(e) == IF InTop(e) THEN <<depth, e[2], e[3]>> ELSE e

MountReadonlyLayer(masks, edges) ==
  LET n == Len(masks) + Len(edges)
      content == masks \o [i \in DOMAIN edges |-> edges[i].mask]
      mounted == {<<Top, 0, k>> : k \in 0..(n - 1)}
      lifted == {Lifted(e) : e \in DOMAIN mask}
      pages == {PageOf(e) : e \in mounted}
      Edge(i) == <<0, 0, Len(masks) + i - 1>>
      Source(i) == <<0, 0, edges[i].source>>
      Index(edge) == edge[3] - Len(masks) + 1
  IN
  /\ mode = "idle"
  /\ depth' = depth + 1
  /\ next' = With(With(next, depth, next[Top]), Top, [NoSlots EXCEPT ![0] = n])
  /\ mask' = [e \in lifted \cup mounted |->
                IF e \in mounted THEN content[e[3] + 1]
                ELSE mask[CHOOSE old \in DOMAIN mask : Lifted(old) = e]]
  /\ active' = {Lifted(e) : e \in active} \cup mounted
  /\ bloom' = [q \in {Lifted(q) : q \in DOMAIN bloom} \cup pages |->
                 IF q \in pages
                 THEN UNION {mask'[e] : e \in {e \in mounted : PageOf(e) = q}}
                 ELSE bloom[CHOOSE old \in DOMAIN bloom : Lifted(old) = q]]
  /\ edgeSrc' = [e \in DOMAIN edgeSrc \cup {Edge(i) : i \in DOMAIN edges} |->
                   IF e \in {Edge(i) : i \in DOMAIN edges}
                   THEN Source(Index(e)) ELSE edgeSrc[e]]
  /\ adj' = adj \cup {<<Source(i), Edge(i)>> : i \in DOMAIN edges}
  /\ spawnQ' = With(With(spawnQ, depth, spawnQ[Top]), Top, NoSpawns)
  /\ edgeQ' = With(With(edgeQ, depth, edgeQ[Top]), Top, <<>>)
  /\ UNCHANGED <<tombOf, redirOf, index, tombQ, shadowQ, mode>>

----------------------------------------------------------------------------
(* rebuild_transient_indices, and the reboot around it *)

\* Layers bottom up, partition by partition and slot by slot.  Variant: layers
\* top down.
After(a, b) == a[2] > b[2] \/ (a[2] = b[2] /\ a[3] > b[3])
ScannedAfterTopDown(a, b) == a[1] < b[1] \/ (a[1] = b[1] /\ After(a, b))
ScannedAfter(a, b) == a[1] > b[1] \/ (a[1] = b[1] /\ After(a, b))

LastScanned(S) == CHOOSE e \in S : \A o \in S \ {e} : ScannedAfter(e, o)

\* Every edge that has a payload is registered again, every active marker
\* shadows its target again, and the active patches are redirected one by one.
Shadows == [EmptyIndex EXCEPT !.shadowed =
              {tombOf[t] : t \in active \cap DOMAIN tombOf}]
Patches == active \cap DOMAIN redirOf

RebuildIndices ==
  /\ adj' = {<<edgeSrc[e], e>> : e \in DOMAIN edgeSrc}
  /\ index' = MapThenFoldSet(LAMBDA p, idx : AddRedirect(idx, redirOf[p], p),
                             Shadows, LAMBDA p : p, LastScanned, Patches)
  /\ UNCHANGED <<depth, mask, active, bloom, payloadVars, tombQ, shadowQ, mode>>

Rebuild ==
  /\ mode = "idle"
  /\ RebuildIndices
  /\ UNCHANGED <<next, spawnQ, edgeQ>>

\* import_layer_memory goes on after the pages it has read; an empty partition
\* has one.  Variant: it goes on with the first slot of the last page.
OverwriteLastPage(n) ==
  IF n = 0 THEN 0 ELSE PageSize * ((n - 1) \div PageSize)
PastLastPage(n) ==
  IF n = 0 THEN PageSize ELSE PageSize * ((n + PageSize - 1) \div PageSize)

\* simulate_engine_reboot exports the top layer, clears and imports it: what
\* the layer had queued is gone, what the aggregator had queued is not.
Reboot ==
  /\ mode = "idle"
  /\ RebuildIndices
  /\ next' = [next EXCEPT ![Top] =
                [p \in Partition |-> PastLastPage(next[Top][p])]]
  /\ spawnQ' = [spawnQ EXCEPT ![Top] = NoSpawns]
  /\ edgeQ' = [edgeQ EXCEPT ![Top] = <<>>]

----------------------------------------------------------------------------
\* The free client: any calls in any order, within the bounds.
Queued ==
  Len(tombQ) + Len(shadowQ)
    + FoldFunction(LAMBDA q, n : Len(q[0]) + n, 0, spawnQ)
    + FoldFunction(LAMBDA q, n : Len(q) + n, 0, edgeQ)
SlotsUsed == FoldFunction(LAMBDA slots, n : slots[0] + n, 0, next)
Room == SlotsUsed + Queued < MaxEntities
QueueRoom == Room /\ Queued < MaxQueued

\* A client that spares calls queues spawns with two layers and creates
\* entities in place with any other number of them; it queues one edge at a
\* time, in two layers, and each but the first under another edge; and it
\* reboots with two layers, as the orchestrator does, and where the import goes
\* on at another slot.
QueuesSpawns == Sparing => depth = 2
CreatesInPlace == Sparing => depth # 2

EdgeAllowed(e) ==
  /\ QueueRoom
  /\ Sparing => /\ depth <= 2 /\ edgeQ[Top] = <<>>
                /\ edgeSrc = <<>> \/ e \in DOMAIN edgeSrc

RebootAllowed == Sparing => depth = 2 /\ next[Top][0] % PageSize # 0

\* It mounts layers only under a top layer that is not in use yet, as the
\* comment in mount_readonly_layer demands.
MountAllowed ==
  /\ depth < MaxLayers
  /\ LateMounts \/ (next[Top] = NoSlots /\ TopCommitted)

Next ==
  \/ \E m \in SpawnMasks :
       \/ CreatesInPlace /\ Room /\ CreateEntity(m, 0)
       \/ QueuesSpawns /\ QueueRoom /\ QueueSpawn(m, 0)
       \/ MountAllowed /\ Room /\ MountReadonlyLayer(<<m>>, <<>>)
  \/ MountAllowed /\ MountReadonlyLayer(<<>>, <<>>)
  \/ \E e \in Entity :
       \/ \E m \in SpawnMasks : EdgeAllowed(e) /\ QueueEdge(e, m)
       \/ /\ QueueRoom \/ Writable(WriteTarget(e))
          /\ \/ DestroyEntity(e)
             \/ \E c \in Changes : AddComponent(e, {c}) \/ RemoveComponent(e, {c})
  \/ BeginCommit \/ CommitSpawn \/ CommitEdge \/ CommitTombstone
  \/ CommitPatch \/ EndCommit
  \/ depth < MaxLayers /\ PushLayer
  \/ Rebuild \/ (RebootAllowed /\ Reboot)

Spec == Init /\ [][Next]_vars

----------------------------------------------------------------------------
(* Properties *)

\* The state is well formed: payloads, queues and indices speak of entities
\* that were created, and only a layer's first next[d] coordinates exist.
TypeOK ==
  /\ depth \in Nat \ {0}
  /\ next \in [0..Top -> [Partition -> Nat]]
  /\ \A e \in DOMAIN mask :
       /\ e[1] \in 0..Top /\ e[2] \in Partition /\ e[3] \in Nat
       /\ e[3] < next[e[1]][e[2]]
       /\ mask[e] \subseteq Component
  /\ active \subseteq DOMAIN mask
  /\ DOMAIN bloom = {PageOf(e) : e \in DOMAIN mask}
  /\ \A f \in {tombOf, redirOf, edgeSrc} :
       DOMAIN f \cup Range(f) \subseteq DOMAIN mask
  /\ \A p \in adj : p[1] \in Entity /\ p[2] \in DOMAIN edgeSrc
  /\ mode \in {"idle", "commit"}

\* The aliases of an entity form one chain: it starts at the root, every alias
\* knows the root in one lookup, the terminal is its last element, and every
\* alias that was replaced is shadowed (Docs/Virtualization.md, section 3).
PathsCompressed ==
  /\ DOMAIN index.terminal = DOMAIN index.chains
  /\ \A r \in DOMAIN index.chains :
       LET chain == index.chains[r] IN
       /\ chain[1] = r /\ r \notin DOMAIN index.rootOf
       /\ index.terminal[r] = Last(chain)
       /\ \A i \in 2..Len(chain) : index.rootOf[chain[i]] = r
       /\ IsTombstoned(index, r)
  /\ \A p \in DOMAIN index.rootOf :
       /\ index.rootOf[p] \in DOMAIN index.chains
       /\ p \in Range(index.chains[index.rootOf[p]])

\* An entity is met by an iteration under one coordinate, its newest, unless
\* two patches of the same alias were queued for one commit.
Unforked(r) ==
  \A p, q \in Range(RedirectChain(index, r)) \cap DOMAIN redirOf :
    redirOf[p] = redirOf[q] => p = q

MetOnce ==
  \A e \in Iterated({}) \cap Entity :
    Unforked(LogicalRoot(index, e)) => e = Terminal(index, e)

\* The filter of a page hides no entity from a query it matches: it has taken
\* in every component an entity of the page was created with or given since,
\* also across a reboot (Docs/Virtualization.md, section 6.2).
BloomHidesNothing ==
  \A e \in active :
    InTop(e) \/ ~IsTombstoned(index, e) => e \in Iterated(mask[e])

\* Patching an entity does not sever its relations: an edge is found from every
\* alias of its source, in whichever layers edge and aliases were written.  Two
\* kinds of edges are left out: those that were themselves destroyed or changed
\* from a higher layer, which are filtered (the second kind against the
\* document: RelationsUnbroken), and those whose source was destroyed in the
\* edge's own layer (get_outbound_edges, EntityDatabase.hpp:983-1018).
Overlaid == Range(tombOf) \cup Range(redirOf)

UntouchedEdgesFound ==
  \A edge \in (active \cap DOMAIN edgeSrc) \ Overlaid :
    LET source == edgeSrc[edge] IN
    ~(source \notin active /\ source[1] = edge[1])
      => \A e \in Entity :
           LogicalRoot(index, e) = LogicalRoot(index, source)
             => edge \in OutboundEdges(e)

\* What the document says: only "edges that were explicitly destroyed by higher
\* layers" are dropped, and relations "remain topologically unbroken"
\* (Docs/Virtualization.md, section 5).  An edge that is alive, as is its source,
\* is found from every alias of the source, under some alias of its own.
Alive(e) ==
  LET newest == Terminal(index, e)
  IN  newest \in active /\ ~IsTombstoned(index, newest)

RelationsUnbroken ==
  \A edge \in DOMAIN edgeSrc : Alive(edge) /\ Alive(edgeSrc[edge]) =>
    \A e \in Entity :
      LogicalRoot(index, e) = LogicalRoot(index, edgeSrc[edge]) =>
        OutboundEdges(e) \cap Range(RedirectChain(index, edge)) # {}

\* Only the top layer changes: no step touches a slot of a layer below it
\* (Docs/Shadowing.md, section 3).
FoundationImmutable ==
  [][\A e \in DOMAIN mask : e[1] < Top =>
       mask'[e] = mask[e] /\ (e \in active') = (e \in active)]_vars

\* A rebuild from the persisted layers finds every entity as it was, unless
\* one of its patches was erased in place (rebuild_transient_indices,
\* EntityDatabase.hpp:885-916).
RebuildKeepsTheRest ==
  [][Rebuild \/ Reboot =>
       \A e \in Root \ Scarred : e \in Root' /\ View'[e] = View[e]]_vars

\* The same without the exception: "re-imports, and mathematically
\* reconstructs the ... Virtualization overlays" (Orchestrator.hpp:87-89).
RebootReconstructs ==
  [][Rebuild \/ Reboot => View' = View]_vars

\* The stack of layers implements the flat store.
Flat == INSTANCE FlatStore WITH
  view <- View, todo <- Pending, scarred <- Scarred
LayersMakeAFlatStore == Flat!Spec
=============================================================================
