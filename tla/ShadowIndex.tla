----------------------------- MODULE ShadowIndex -----------------------------
(***************************************************************************)
(* TransientShadowIndex of                                                 *)
(* src/Engine/TestUsagiExecutive/Pipelined/EntityDatabase.hpp: which       *)
(* coordinates a higher layer has shadowed, and how the aliases of an      *)
(* entity lead to its logical root and to its newest patch.  An index is a *)
(* record of the three maps and of the set of coordinates whose bit is set *)
(* in shadowed_lanes (one bit of one page key each).                       *)
(***************************************************************************)
EXTENDS Integers, Sequences

\* f with x set to v, whether it was there or not.
With(f, x, v) == [y \in DOMAIN f \cup {x} |-> IF y = x THEN v ELSE f[y]]

EmptyIndex ==
  [shadowed |-> {}, terminal |-> <<>>, rootOf |-> <<>>, chains |-> <<>>]

LogicalRoot(index, e) ==
  IF e \in DOMAIN index.rootOf THEN index.rootOf[e] ELSE e

\* resolve_redirect, or the entity's root when nothing redirects it.
Terminal(index, e) ==
  LET root == LogicalRoot(index, e)
  IN  IF root \in DOMAIN index.terminal THEN index.terminal[root] ELSE root

RedirectChain(index, e) ==
  LET root == LogicalRoot(index, e)
  IN  IF root \in DOMAIN index.chains THEN index.chains[root] ELSE <<root>>

IsTombstoned(index, e) == e \in index.shadowed

AddTombstone(index, e) == [index EXCEPT !.shadowed = @ \cup {e}]

\* Variants of AddRedirect: the path is not compressed; the shadowed page bit
\* is forgotten; the chain starts at the patch.
RedirectUncompressed(index, base, patch) ==
  LET root == LogicalRoot(index, base)
  IN  [shadowed |-> index.shadowed \cup {base},
       terminal |-> With(index.terminal, root, patch),
       rootOf   |-> With(index.rootOf, patch, base),
       chains   |-> With(index.chains, root,
                        Append(RedirectChain(index, root), patch))]

RedirectUnshadowed(index, base, patch) ==
  LET root == LogicalRoot(index, base)
  IN  [shadowed |-> index.shadowed,
       terminal |-> With(index.terminal, root, patch),
       rootOf   |-> With(index.rootOf, patch, root),
       chains   |-> With(index.chains, root,
                        Append(RedirectChain(index, root), patch))]

RedirectForgetsRoot(index, base, patch) ==
  LET root == LogicalRoot(index, base)
  IN  [shadowed |-> index.shadowed \cup {base},
       terminal |-> With(index.terminal, root, patch),
       rootOf   |-> With(index.rootOf, patch, root),
       chains   |-> With(index.chains, root, <<patch>>)]

AddRedirect(index, base, patch) ==
  LET root == LogicalRoot(index, base)
  IN  [shadowed |-> index.shadowed \cup {base},
       terminal |-> With(index.terminal, root, patch),
       rootOf   |-> With(index.rootOf, patch, root),
       chains   |-> With(index.chains, root,
                        Append(RedirectChain(index, root), patch))]
=============================================================================
