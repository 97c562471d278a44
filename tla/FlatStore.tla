------------------------------ MODULE FlatStore ------------------------------
(***************************************************************************)
(* What the stack of layers promises: "the illusion of a single, flat"     *)
(* store (Docs/Virtualization.md, section 2).  It holds the components of  *)
(* every logical entity, and the writes it has accepted and not yet        *)
(* settled.  A write decides its outcome when it is accepted; settling it  *)
(* changes that entity and no other.  A rebuild of the indices keeps every *)
(* entity but the scarred ones, whose erasure was never recorded.          *)
(***************************************************************************)
EXTENDS Sequences, SequencesExt

CONSTANT Component

VARIABLES
  view,     \* logical entity -> its components ({} when it is dead)
  todo,     \* writes accepted: sequence of <<entity, components>>
  scarred   \* entities whose newest patch was erased in place

Init == view = <<>> /\ todo = <<>> /\ scarred = {}

\* Adding makes more of the components m, removing and destroying less.
Outcome(m, new) == m \subseteq new \/ new \subseteq m

Appear ==
  /\ UNCHANGED <<todo, scarred>>
  /\ LET old == view  new == view' IN
     /\ DOMAIN old \subseteq DOMAIN new
     /\ \A e \in DOMAIN new :
          IF e \in DOMAIN old THEN new[e] = old[e] ELSE new[e] \subseteq Component

WriteNow ==
  /\ UNCHANGED todo
  /\ LET old == view  new == view' IN
     /\ DOMAIN new = DOMAIN old
     /\ \E e \in DOMAIN old :
          /\ Outcome(old[e], new[e])
          /\ new = [old EXCEPT ![e] = new[e]]
          /\ scarred' \in
               {scarred, IF new[e] = {} THEN scarred \cup {e} ELSE scarred}

WriteLater ==
  /\ UNCHANGED <<view, scarred>>
  /\ LET old == view  queue == todo  longer == todo' IN
     /\ Len(longer) = Len(queue) + 1
     /\ \E k \in DOMAIN longer :
          /\ queue = RemoveAt(longer, k)
          /\ longer[k][1] \in DOMAIN old
          /\ Outcome(old[longer[k][1]], longer[k][2])

Settle ==
  /\ todo # <<>>
  /\ todo' = Tail(todo)
  /\ view' = [view EXCEPT ![Head(todo)[1]] = Head(todo)[2]]
  /\ UNCHANGED scarred

Recover ==
  /\ scarred' = {}
  /\ LET queue == todo  kept == todo' IN
     /\ Len(kept) = Len(queue)
     /\ \A i \in DOMAIN queue : queue[i][1] \notin scarred => kept[i] = queue[i]
  /\ LET old == view  new == view' IN
     \A e \in DOMAIN old \ scarred : e \in DOMAIN new /\ new[e] = old[e]

Next == Appear \/ WriteNow \/ WriteLater \/ Settle \/ Recover

Spec == Init /\ [][Next]_<<view, todo, scarred>>
=============================================================================
