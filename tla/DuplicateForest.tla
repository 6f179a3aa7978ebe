---------------------------- MODULE DuplicateForest ----------------------------
(***************************************************************************)
(* What duplicate handling promises about the pointers it leaves behind,   *)
(* whichever operation wrote them: event rows are never deleted, a pointer *)
(* names a stored event, and a pointer that changes is cleared or leads to *)
(* an event that is a canonical root once the change is visible.  One step *)
(* may change many pointers: a merge re-points the dependents of the event *)
(* merged away, a retroactive scan revises every event it covers.          *)
(***************************************************************************)
EXTENDS DuplicateGraph

CONSTANTS Event, NoEvent

VARIABLES rows,   \* ids of the stored events
          dupOf   \* duplicate_of_id of each event

vars == <<rows, dupOf>>

Pointers == [Event -> Event \cup {NoEvent}]

Init == /\ rows = {}
        /\ dupOf = [e \in Event |-> NoEvent]

Revise == /\ rows' \in SUBSET Event
          /\ rows \subseteq rows'
          /\ dupOf' \in Pointers
          /\ \A e \in Event : dupOf'[e] \in rows' \cup {NoEvent}
          /\ Rehung(Event, NoEvent, dupOf, dupOf')

Next == Revise

Spec == Init /\ [][Next]_vars
-------------------------------------------------------------------------------
\* No chain of duplicate_of_id pointers returns to where it started, so the
\* canonical event behind any duplicate can be found by following pointers.
NoDuplicateCycle == Acyclic(Event, dupOf)
===============================================================================
