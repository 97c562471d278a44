----------------------------- MODULE JitClosure -----------------------------
(***************************************************************************)
(* What submit_frame of src/Engine/TestUsagiExecutive/Pipelined/           *)
(* Executive.hpp reads of the layered database before a frame: the write   *)
(* mask of a deleting system, by the closure over the edges of what it may *)
(* condemn, and which pairs of systems it then orders.                     *)
(*                                                                         *)
(* A system is a record of the masks and the flags of its EntityQuery:     *)
(* reads, writes, adds, removes, deletes, flags.                           *)
(***************************************************************************)
EXTENDS LayeredDatabase

StaticRead(s) == s.reads
StaticWrite(s) == s.writes \cup s.adds \cup s.removes
StaticDelete(s) == s.deletes
TargetSignature(s) == StaticRead(s) \cup StaticWrite(s) \cup StaticDelete(s)

\* Variant of Condemned: the layer that was on top before is searched.
CondemnedBelow(s) ==
  {e \in active : e[1] = Top - 1 /\ TargetSignature(s) \subseteq mask[e]}

\* The entities of the mutable layer that the system may be about to destroy;
\* the layer is iterated alone, without the shadow index.
Condemned(s) ==
  {e \in active : InTop(e) /\ TargetSignature(s) \subseteq mask[e]}

\* What the frontier has seen after a number of rounds.
Reached(roots) ==
  LET round[n \in Nat] ==
        IF n = 0 THEN roots
        ELSE round[n - 1] \cup UNION {OutboundEdges(e) : e \in round[n - 1]}
  IN  round[Cardinality(DOMAIN edgeSrc)]

\* compute_transitive_closure.
JitWriteMask(s) ==
  IF StaticDelete(s) = {}
  THEN StaticWrite(s)
  ELSE StaticWrite(s) \cup UNION {DynamicMask(e) : e \in Reached(Condemned(s))}

\* evaluate_collision: a comes first; ja and jb are the masks of the closure.
Collision(a, ja, b, jb) ==
  \/ ja \cap StaticRead(b) # {} /\ "Previous" \notin b.flags
  \/ StaticRead(a) \cap jb # {} /\ "Previous" \notin a.flags
  \/ ja \cap jb # {} /\ "Atomic" \notin a.flags

----------------------------------------------------------------------------
(* Properties, of the systems that delete what has some component.         *)

Deleter(c) ==
  [reads |-> {c}, writes |-> {}, adds |-> {}, removes |-> {}, deletes |-> {c},
   flags |-> {}]
Reader(c) ==
  [reads |-> {c}, writes |-> {}, adds |-> {}, removes |-> {}, deletes |-> {},
   flags |-> {}]

\* submit_frame returns: the search has no visited set, and no edge is ever
\* found under itself (Executive.hpp:236-248).
ClosureEnds ==
  \A e \in DOMAIN edgeSrc : e \notin Reached(OutboundEdges(e))

\* A deleting system changes at once only what its closure has foreseen: if its
\* query finds an entity and the destruction of it does not wait for the
\* commit, every component the entity has, in its newest alias, and every
\* component of the edges under it is in the write mask, so that the system is
\* ordered against whoever reads one of them.  (Where two patches of one alias
\* were queued for one commit, the query may find the older one.)
CascadeForeseen ==
  \A c \in Changes :
    LET s == Deleter(c)  jit == JitWriteMask(s) IN
    \A e \in Iterated(TargetSignature(s)) \cap Entity :
      Unforked(LogicalRoot(index, e)) /\ Writable(WriteTarget(e)) =>
        \A f \in {e} \cup Reached({e}) : \A d \in DynamicMask(f) :
          /\ Collision(s, jit, Reader(d), {})
          /\ Collision(Reader(d), {}, s, jit)
=============================================================================
