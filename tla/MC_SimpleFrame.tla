--------------------------- MODULE MC_SimpleFrame ---------------------------
(* Catalogs of system types, after the systems of the test suites.          *)
EXTENDS SimpleFrame

CONSTANTS A, B, T

Passive ==
  [reads |-> {}, writes |-> {}, adds |-> {}, removes |-> {}, deletes |-> {},
   flags |-> {}, query |-> {}, effect |-> "none", operand |-> {},
   spawns |-> {}]

Reader(m) == [Passive EXCEPT !.reads = m, !.query = m]
Writer(m) == [Passive EXCEPT !.writes = m, !.query = m]
Flagged(s, f) == [s EXCEPT !.flags = {f}]

\* SysSavageAdder, SysSavageRemover
Adder(m, c) ==
  [Reader(m) EXCEPT !.adds = c, !.effect = "add", !.operand = c]
Remover(m, c) ==
  [Reader(m) EXCEPT !.removes = c, !.effect = "remove", !.operand = c]

\* SystemDeleteInvisibleMeshes
Deleter(m) ==
  [Reader(m) EXCEPT !.deletes = m, !.effect = "destroy"]

\* SysIdExhaustionSpammer, SysKamikazeSpawner
Spawner(s, m) == [s EXCEPT !.spawns = {m}]

\* Adds what it did not declare.
Rogue(m, c) == [Reader(m) EXCEPT !.effect = "add", !.operand = c]

Deleting ==
  {Reader({A}), Deleter({T}), Remover({B}, {A})}
Adding ==
  {Adder({B}, {B}), Adder({A}, {B}), Remover({B}, {A}), Deleter({T})}
Flagging ==
  {Writer({A}), Rogue({A}, {B}),
   Flagged(Reader({A, B}), "Previous"), Flagged(Writer({A}), "Atomic")}

\* SysOuroborosSpammer
SelfSpawning == {Spawner(Deleter({T}), {T})}

StructuralMixes == {Deleting, Adding, Flagging, SelfSpawning}
StructuralCatalog == UNION StructuralMixes

StaleCatalog == {Reader({B}), Adder({A}, {B}), Deleter({T})}
TwoSpawnersCatalog ==
  {Spawner(Reader({A}), {A}), Spawner(Reader({A}), {B})}

\* Any systems of the catalog together.
AnyMix == {Catalog}

=============================================================================
