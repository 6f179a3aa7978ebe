---------------------------- MODULE DuplicateGraph ----------------------------
(***************************************************************************)
(* The graph that events.duplicate_of_id draws: a function f from a set E  *)
(* of event ids to E and None, None meaning "not a duplicate of anything". *)
(* The modules about duplicates share these operators.                     *)
(***************************************************************************)
\* Mutant: only an event's own duplicate is refused as a root.
NotItself(None, f, e) == f[e] # e

\* An event that points at no other event: a canonical root.
IsRoot(None, f, e) == f[e] = None

\* No event reaches itself: every nonempty set of events has a member whose
\* pointer leaves the set (a cycle would be a set all of whose pointers stay).
Acyclic(E, f) ==
    \A S \in SUBSET E : S # {} => \E e \in S : f[e] \notin S

\* g differs from f only at events that g makes roots, or points at a root of g.
Rehung(E, None, f, g) ==
    \A e \in E : g[e] # f[e] => g[e] = None \/ IsRoot(None, g, g[e])
===============================================================================
