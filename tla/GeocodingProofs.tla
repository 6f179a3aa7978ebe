---------------------------- MODULE GeocodingProofs ----------------------------
(***************************************************************************)
(* Coordinates, and the locks held while they are looked up, for any       *)
(* number of sessions, events and requests, any addresses and any batch.   *)
(***************************************************************************)
EXTENDS Geocoding, WellFoundedInduction, TLAPS

(***************************************************************************)
(* The inductive invariant.                                                *)
(***************************************************************************)

Request ==
    [op : Geocoders \cup {"merge", "scan"}, pc : {"load", "ask", "write", "commit"},
     left : SUBSET Stored, next : Stored \cup {Nobody},
     seen : UNION {[E -> Place] : E \in SUBSET Stored},
     moves : UNION {[E -> Place] : E \in SUBSET Stored}, wrote : SUBSET Stored]

\* The types of the rows and of the requests.
Rows ==
    /\ created \in 0..MaxEvents
    /\ place \in [Event -> Place \cup {Unstored}]
    /\ at \in [Event -> Askable \cup {Unplaced}]
    /\ had \in [Event -> SUBSET Place]
    /\ lock \in [Event -> Session \cup {Free}]
    /\ req \in [Session -> Request \cup {Idle}]
    /\ begun \in 0..MaxRequests

\* A request deals with the oldest of the rows it has left, except that a merge takes
\* its rows in any order; what is left, a geocoder has seen.
Going(r) ==
    /\ r.next \in r.left \/ (r.left = {} /\ r.next = Nobody /\ r.pc = "commit")
    /\ r.op \in Geocoders => r.left \cup r.wrote \subseteq DOMAIN r.seen
    /\ r.pc = "load" => r.op = "save" /\ r.left = {r.next} /\ r.wrote = {}

\* Saves, bulk runs and scans update rows from the oldest to the newest.
InOrder(r) ==
    r.op # "merge" => /\ \A e \in r.wrote, f \in r.left : e < f
                      /\ \A f \in r.left : r.next <= f

\* A geocoder writes only where its provider has found something, and what it has
\* seen of a row is an address that the row has had.
Found(r) ==
    r.op \in Geocoders =>
        /\ \A e \in r.wrote : r.seen[e] \in Askable
        /\ r.pc = "write" => r.seen[r.next] \in Askable
        /\ \A e \in DOMAIN r.seen : r.seen[e] \in had[e]

Requests == \A s \in Session : req[s] # Idle => Going(req[s]) /\ InOrder(req[s]) /\ Found(req[s])

\* A row is locked by the session that has updated it, and by no other.
Locked ==
    \A e \in Event, s \in Session : lock[e] = s <=> req[s] # Idle /\ e \in req[s].wrote

\* The address of an event is one that it has had; rows not yet stored have had none,
\* and no coordinates.
Placed ==
    /\ \A e \in Stored : place[e] \in had[e]
    /\ \A e \in Event \ Stored : at[e] = Unplaced /\ had[e] = {}

Inv == Rows /\ Requests /\ Locked /\ Placed /\ OwnCoordinates
-------------------------------------------------------------------------------
(* Natural numbers and the order of rows.                                  *)

\* A non-empty set of natural numbers has a least element.
LEMMA Least == ASSUME NEW T, T \subseteq Nat, T # {} PROVE \E n \in T : \A m \in T : n <= m
<1> DEFINE R == OpToRel(<, Nat)
<1>1. IsWellFoundedOn(R, Nat)
  BY NatLessThanWellFounded
<1>2. \A m, n \in Nat : <<m, n>> \in R <=> m < n
  BY DEF OpToRel
<1> HIDE DEF R
<1>3. PICK n \in T : \A m \in T : ~(<<m, n>> \in R)
  BY <1>1, WFMin
<1>4. \A m \in T : m \in Nat /\ n \in Nat /\ ~(m < n)
  BY <1>2, <1>3
<1> QED
  BY <1>3, <1>4

LEMMA OldestFirst ==
    ASSUME NEW E, E \subseteq Nat, E # {}
    PROVE  Oldest(E) \in E /\ \A f \in E : Oldest(E) <= f
<1>1. \E e \in E : \A f \in E : e <= f
  BY Least
<1> QED
  BY <1>1 DEF Oldest
-------------------------------------------------------------------------------
(* What a step does to the requests.                                       *)

\* A request that is left alone stays one while rows are added and addresses are
\* remembered.
LEMMA RequestStays ==
    ASSUME Rows, created' \in created..MaxEvents, \A e \in Event : had[e] \subseteq had'[e],
           NEW r \in Request, Found(r)
    PROVE  r \in Request' /\ Found(r)'
<1>1. created \in Nat /\ created <= created' /\ created' \in Nat /\ MaxEvents \in Nat
  BY ConstantsAssumption DEF Rows
<1>2. Stored \subseteq Stored' /\ Stored' \subseteq Event /\ Stored \subseteq Event
  BY <1>1 DEF Stored, Event
<1>3. r \in Request'
  BY <1>2 DEF Request
<1>4. DOMAIN r.seen \subseteq Event
  BY <1>2 DEF Request
<1>5. Found(r)'
  BY <1>4 DEF Found
<1> QED
  BY <1>3, <1>5

\* A step of session s, which leaves it with request q.
LEMMA StepOfSession ==
    ASSUME Inv, created' \in created..MaxEvents, \A e \in Event : had[e] \subseteq had'[e],
           NEW s \in Session, NEW q, req' = [req EXCEPT ![s] = q],
           q = Idle \/ (q \in Request' /\ Going(q) /\ InOrder(q) /\ Found(q)')
    PROVE  req' \in [Session -> Request' \cup {Idle}] /\ Requests'
<1>1. \A t \in Session : req[t] # Idle =>
         req[t] \in Request' /\ Going(req[t]) /\ InOrder(req[t]) /\ (\A r : r = req[t] => Found(r)')
  <2> SUFFICES ASSUME NEW t \in Session, req[t] # Idle
               PROVE  req[t] \in Request' /\ Going(req[t]) /\ InOrder(req[t])
                      /\ (\A r : r = req[t] => Found(r)')
    OBVIOUS
  <2>1. req[t] \in Request /\ Going(req[t]) /\ InOrder(req[t]) /\ Found(req[t])
    BY DEF Inv, Rows, Requests
  <2>2. PICK r : r = req[t]
    OBVIOUS
  <2> QED
    BY <2>1, <2>2, RequestStays DEF Inv
<1>2. req' \in [Session -> Request' \cup {Idle}]
  BY <1>1 DEF Inv, Rows
<1>3. ASSUME NEW t \in Session, req'[t] # Idle
      PROVE  Going(req'[t]) /\ InOrder(req'[t]) /\ Found(req[t])'
  <2>1. CASE t = s
    BY <2>1, <1>3 DEF Inv, Rows, Going, InOrder, Found
  <2>2. CASE t # s
    BY <2>2, <1>3, <1>1 DEF Inv, Rows, Going, InOrder, Found
  <2> QED
    BY <2>1, <2>2
<1> QED
  BY <1>2, <1>3 DEF Requests, Going, InOrder, Found
-------------------------------------------------------------------------------
(* Requests arrive.                                                        *)

LEMMA Arrives ==
    ASSUME Inv, created' \in created..MaxEvents, \A e \in Event : had[e] \subseteq had'[e],
           NEW s \in Session, NEW op \in Geocoders \cup {"merge", "scan"},
           NEW pc \in {"load", "ask", "write"}, NEW E \in SUBSET Stored', NEW e \in E,
           NEW moves \in UNION {[F -> Place] : F \in SUBSET Stored'},
           Begin(s, op, pc, E, e, moves),
           \A x \in E : place'[x] \in Place /\ place'[x] \in had'[x],
           op # "merge" => \A f \in E : e <= f,
           pc = "load" => op = "save" /\ E = {e},
           op \in Geocoders => pc # "write"
    PROVE  /\ req' \in [Session -> Request' \cup {Idle}] /\ Requests' /\ Locked'
           /\ begun' \in 0..MaxRequests /\ lock' = lock
<1>1. PICK q : q = [op |-> op, pc |-> pc, left |-> E, next |-> e,
                    seen |-> [x \in E |-> place'[x]], moves |-> moves, wrote |-> {}]
  OBVIOUS
<1>2. req' = [req EXCEPT ![s] = q] /\ req[s] = Idle /\ lock' = lock
  BY <1>1 DEF Begin
<1>3. begun' \in 0..MaxRequests
  BY ConstantsAssumption DEF Begin, Inv, Rows
<1>4. q \in Request'
  <2>1. [x \in E |-> place'[x]] \in UNION {[F -> Place] : F \in SUBSET Stored'}
    OBVIOUS
  <2> QED
    BY <1>1, <2>1 DEF Request
<1>5. q.op = op /\ q.pc = pc /\ q.left = E /\ q.next = e /\ q.wrote = {} /\ DOMAIN q.seen = E
  BY <1>1
<1>6. \A x \in E : q.seen[x] \in had'[x]
  BY <1>1
<1>7. Going(q) /\ InOrder(q)
  BY <1>5 DEF Going, InOrder
<1>8. Found(q)'
  BY <1>5, <1>6 DEF Found
<1>9. Locked'
  <2>1. \A t \in Session : req'[t] = IF t = s THEN q ELSE req[t]
    BY <1>2 DEF Inv, Rows
  <2> QED
    BY <1>2, <1>5, <2>1 DEF Inv, Locked
<1> QED
  BY <1>2, <1>3, <1>4, <1>7, <1>8, <1>9, StepOfSession

\* Nothing but requests changes: a merge, a scan or a bulk run arrives.
LEMMA RowsStay ==
    ASSUME Inv, UNCHANGED rows
    PROVE  /\ created' \in created..MaxEvents /\ Stored' = Stored
           /\ \A e \in Event : had[e] \subseteq had'[e]
           /\ \A x \in Stored : place'[x] \in Place /\ place'[x] \in had'[x]
           /\ Placed' /\ OwnCoordinates'
<1>1. created \in Nat /\ created <= MaxEvents /\ MaxEvents \in Nat
  BY ConstantsAssumption DEF Inv, Rows
<1>2. UNCHANGED <<created, place, at, had>>
  BY DEF rows
<1>3. \A x \in Stored : x \in Event
  BY <1>1 DEF Stored, Event
<1>4. \A x \in Stored : place[x] \in Place /\ place[x] \in had[x]
  BY <1>3 DEF Inv, Placed, Rows
<1> QED
  BY <1>1, <1>2, <1>4 DEF Inv, Stored, Placed, OwnCoordinates

LEMMA StoredNumbers == ASSUME Inv PROVE Stored \subseteq Event /\ Event \subseteq Nat /\ Stored \subseteq Nat
  BY ConstantsAssumption DEF Inv, Rows, Stored, Event

LEMMA SaveEventKeeps == ASSUME Inv, NEW s \in Session, NEW p \in Place, SaveEvent(s, p) PROVE Inv'
<1>1. PICK e : e = created + 1
  OBVIOUS
<1>2. /\ e \in Event /\ created' = e
      /\ place' = [place EXCEPT ![e] = p] /\ had' = [had EXCEPT ![e] = {p}]
      /\ Begin(s, "save", "load", {e}, e, <<>>) /\ at' = at
  BY <1>1 DEF SaveEvent
<1>3. created \in Nat /\ created <= MaxEvents /\ MaxEvents \in Nat /\ e <= MaxEvents
  BY <1>1, <1>2, ConstantsAssumption DEF Inv, Rows, Event
<1>4. created' \in created..MaxEvents /\ Stored' = Stored \cup {e} /\ e \notin Stored
  BY <1>1, <1>2, <1>3 DEF Stored
<1>5. \A x \in Event : had[x] \subseteq had'[x] /\ (x # e => had'[x] = had[x] /\ place'[x] = place[x])
  BY <1>2, <1>4 DEF Inv, Rows, Placed
<1>6. place'[e] = p /\ had'[e] = {p}
  BY <1>2 DEF Inv, Rows
<1>7. <<>> \in UNION {[F -> Place] : F \in SUBSET Stored'}
  <2>1. <<>> \in [{} -> Place]
    OBVIOUS
  <2> QED
    BY <2>1
<1>8. /\ req' \in [Session -> Request' \cup {Idle}] /\ Requests' /\ Locked'
      /\ begun' \in 0..MaxRequests /\ lock' = lock
  <2>1. "save" \in Geocoders \cup {"merge", "scan"} /\ "load" \in {"load", "ask", "write"}
    BY DEF Geocoders
  <2>2. PICK E : E = {e}
    OBVIOUS
  <2>3. E \in SUBSET Stored' /\ e \in E
    BY <1>4, <2>2
  <2>4. \A x \in E : place'[x] \in Place /\ place'[x] \in had'[x]
    BY <1>6, <2>2
  <2>5. \A f \in E : e <= f
    BY <1>1, <1>3, <2>2
  <2>6. PICK moves \in UNION {[F -> Place] : F \in SUBSET Stored'} : moves = <<>>
    BY <1>7
  <2>7. Begin(s, "save", "load", E, e, moves)
    BY <1>2, <2>2, <2>6
  <2>8. \A x \in Event : had[x] \subseteq had'[x]
    BY <1>5
  <2> QED
    BY <1>4, <2>1, <2>2, <2>3, <2>4, <2>5, <2>7, <2>8, Arrives
<1>9. Rows'
  BY <1>2, <1>3, <1>4, <1>8 DEF Inv, Rows
<1>10. Placed' /\ OwnCoordinates'
  BY <1>2, <1>4, <1>5, <1>6, StoredNumbers DEF Inv, Placed, OwnCoordinates
<1> QED
  BY <1>8, <1>9, <1>10 DEF Inv

\* A request that changes no row arrives.
LEMMA ArrivalKeeps ==
    ASSUME Inv, UNCHANGED rows, NEW s \in Session, NEW op \in {"bulk", "merge", "scan"},
           NEW pc \in {"ask", "write"}, NEW E \in SUBSET Stored, NEW e \in E,
           NEW moves \in UNION {[F -> Place] : F \in SUBSET Stored},
           Begin(s, op, pc, E, e, moves),
           op # "merge" => \A f \in E : e <= f,
           op = "bulk" => pc = "ask"
    PROVE  Inv'
<1>1. /\ created' \in created..MaxEvents /\ Stored' = Stored
      /\ \A x \in Event : had[x] \subseteq had'[x]
      /\ \A x \in Stored : place'[x] \in Place /\ place'[x] \in had'[x]
      /\ Placed' /\ OwnCoordinates'
  BY RowsStay
<1>2. op \in Geocoders \cup {"merge", "scan"} /\ pc \in {"load", "ask", "write"}
      /\ (op \in Geocoders => pc # "write") /\ pc # "load"
  BY DEF Geocoders
<1>3. /\ req' \in [Session -> Request' \cup {Idle}] /\ Requests' /\ Locked'
      /\ begun' \in 0..MaxRequests /\ lock' = lock
  BY <1>1, <1>2, Arrives
<1>4. Rows'
  BY <1>3 DEF Inv, Rows, rows
<1> QED
  BY <1>1, <1>3, <1>4 DEF Inv

LEMMA NoMoves == <<>> \in UNION {[F -> Place] : F \in SUBSET Stored}
<1>1. <<>> \in [{} -> Place]
  OBVIOUS
<1> QED
  BY <1>1

LEMMA BulkGeocodeKeeps == ASSUME Inv, NEW s \in Session, BulkGeocode(s) PROVE Inv'
<1>1. Batch \in SUBSET Stored /\ Batch # {}
  BY DEF BulkGeocode, Batch, Ungeocoded
<1>2. Oldest(Batch) \in Batch /\ \A f \in Batch : Oldest(Batch) <= f
  BY <1>1, OldestFirst, StoredNumbers
<1>3. Begin(s, "bulk", "ask", Batch, Oldest(Batch), <<>>) /\ UNCHANGED rows
  BY DEF BulkGeocode, Turn
<1> QED
  BY <1>1, <1>2, <1>3, NoMoves, ArrivalKeeps

LEMMA MergeEventsKeeps ==
    ASSUME Inv, NEW s \in Session, NEW source \in Event, NEW target \in Event, NEW p \in Place,
           MergeEvents(s, source, target, p)
    PROVE  Inv'
<1> DEFINE moves == [x \in {y \in {target} : place[y] # p} |-> p]
<1>1. {source, target} \in SUBSET Stored /\ UNCHANGED rows
  BY DEF MergeEvents
<1>2. PICK e \in {source, target} : Begin(s, "merge", "write", {source, target}, e, moves)
  BY DEF MergeEvents
<1>3. moves \in UNION {[F -> Place] : F \in SUBSET Stored}
  <2>1. moves \in [{y \in {target} : place[y] # p} -> Place]
    OBVIOUS
  <2> QED
    BY <1>1, <2>1
<1> HIDE DEF moves
<1> QED
  BY <1>1, <1>2, <1>3, ArrivalKeeps

LEMMA RetroactiveScanKeeps == ASSUME Inv, NEW s \in Session, RetroactiveScan(s) PROVE Inv'
<1>1. PICK E \in (SUBSET Stored) \ {{}} : Begin(s, "scan", "write", E, Oldest(E), <<>>)
  BY DEF RetroactiveScan, Turn
<1>2. E \in SUBSET Stored /\ E \subseteq Nat /\ E # {}
  BY <1>1, StoredNumbers
<1>3. Oldest(E) \in E /\ \A f \in E : Oldest(E) <= f
  BY <1>2, OldestFirst
<1>4. UNCHANGED rows
  BY DEF RetroactiveScan
<1> QED
  BY <1>1, <1>2, <1>3, <1>4, NoMoves, ArrivalKeeps
-------------------------------------------------------------------------------
(* Requests go on.                                                         *)

\* A step of s that changes no row, and no lock either, and writes nothing.
LEMMA ReadingKeeps ==
    ASSUME Inv, UNCHANGED <<rows, lock, begun>>, NEW s \in Session, req[s] # Idle, NEW q,
           req' = [req EXCEPT ![s] = q],
           \/ q = Idle /\ req[s].wrote = {}
           \/ q \in Request /\ Going(q) /\ InOrder(q) /\ Found(q) /\ q.wrote = req[s].wrote
    PROVE  Inv'
<1>1. /\ created' \in created..MaxEvents /\ Stored' = Stored
      /\ \A x \in Event : had[x] \subseteq had'[x]
      /\ Placed' /\ OwnCoordinates'
  BY RowsStay
<1>2. Request' = Request
  BY <1>1 DEF Request
<1>3. Found(q) => Found(q)'
  BY DEF Found, rows
<1>4. req' \in [Session -> Request' \cup {Idle}] /\ Requests'
  BY <1>1, <1>2, <1>3, StepOfSession
<1>5. Locked'
  <2>1. \A t \in Session : req'[t] = IF t = s THEN q ELSE req[t]
    BY DEF Inv, Rows
  <2>2. q \in Request => q # Idle
    BY DEF Request, Idle, Geocoders
  <2> QED
    BY <2>1, <2>2 DEF Inv, Locked
<1>6. Rows'
  BY <1>4 DEF Inv, Rows, rows
<1> QED
  BY <1>1, <1>4, <1>5, <1>6 DEF Inv

\* What Inv says of a request under way.
LEMMA UnderWay ==
    ASSUME Inv, NEW s \in Session, req[s] # Idle
    PROVE  req[s] \in Request /\ Going(req[s]) /\ InOrder(req[s]) /\ Found(req[s])
  BY DEF Inv, Rows, Requests

LEMMA ReloadKeeps == ASSUME Inv, NEW s \in Session, Reload(s) PROVE Inv'
<1>1. req[s] # Idle /\ req[s].pc = "load" /\ UNCHANGED <<rows, lock, begun>>
  BY DEF Reload
<1>2. PICK r : r = req[s] /\ r \in Request /\ Going(r) /\ InOrder(r) /\ Found(r)
  BY <1>1, UnderWay
<1>3. r.op = "save" /\ r.left = {r.next} /\ r.wrote = {} /\ r.next \in Stored
  BY <1>1, <1>2 DEF Going, Request
<1>4. CASE at[r.next] # Unplaced \/ place[r.next] \notin Askable
  <2>1. req' = [req EXCEPT ![s] = Idle]
    BY <1>2, <1>4 DEF Reload
  <2> QED
    BY <1>1, <1>2, <1>3, <2>1, ReadingKeeps
<1>5. CASE ~(at[r.next] # Unplaced \/ place[r.next] \notin Askable)
  <2>1. PICK q : q = [r EXCEPT !.pc = "ask", !.seen = [x \in {r.next} |-> place[x]]]
    OBVIOUS
  <2>2. req' = [req EXCEPT ![s] = q]
    BY <1>2, <1>5, <2>1 DEF Reload, Inv, Rows
  <2>3. place[r.next] \in Place /\ place[r.next] \in had[r.next]
    BY <1>3, <1>5, ConstantsAssumption DEF Inv, Placed
  <2>4. [x \in {r.next} |-> place[x]] \in UNION {[F -> Place] : F \in SUBSET Stored}
    <3>1. [x \in {r.next} |-> place[x]] \in [{r.next} -> Place]
      BY <2>3
    <3> QED
      BY <1>3, <3>1
  <2>5. q \in Request
    BY <1>2, <2>1, <2>4 DEF Request
  <2>6. q.op = "save" /\ q.pc = "ask" /\ q.left = {q.next} /\ q.next = r.next /\ q.wrote = {}
        /\ q.seen = [x \in {r.next} |-> place[x]]
    BY <1>2, <1>3, <2>1 DEF Request
  <2>7. q.next \in Nat
    BY <1>3, <2>6, StoredNumbers
  <2>8. Going(q) /\ InOrder(q)
    BY <2>6, <2>7 DEF Going, InOrder
  <2>9. Found(q)
    BY <2>3, <2>6 DEF Found
  <2> QED
    BY <1>1, <1>2, <1>3, <2>2, <2>5, <2>6, <2>8, <2>9, ReadingKeeps
<1> QED
  BY <1>4, <1>5

\* A request that is done with a row goes on in order, and nothing else of it changes.
LEMMA GoesOn ==
    ASSUME Inv, NEW r \in Request, Going(r), InOrder(r), r.left # {}
    PROVE  LET q == GoneOn(r)
           IN  /\ q \in Request /\ q.left = r.left \ {r.next}
               /\ q.pc \in {"ask", "write", "commit"} /\ (q.pc = "write" => r.op \notin Geocoders)
               /\ q.op = r.op /\ q.seen = r.seen /\ q.moves = r.moves /\ q.wrote = r.wrote
               /\ q.next \in q.left \/ (q.left = {} /\ q.next = Nobody /\ q.pc = "commit")
               /\ \A f \in q.left : q.next <= f
<1> DEFINE left == r.left \ {r.next}
<1>1. CASE left = {}
  BY <1>1 DEF GoneOn, Request
<1>2. CASE left # {}
  <2>1. Oldest(left) \in left /\ \A f \in left : Oldest(left) <= f
    BY <1>2, OldestFirst, StoredNumbers DEF Request
  <2> HIDE DEF Oldest
  <2> QED
    BY <1>2, <2>1 DEF GoneOn, Turn, Request
<1> QED
  BY <1>1, <1>2

LEMMA LookupKeeps == ASSUME Inv, NEW s \in Session, Lookup(s) PROVE Inv'
<1>1. req[s] # Idle /\ req[s].pc = "ask" /\ UNCHANGED <<rows, lock, begun>>
  BY DEF Lookup
<1>2. PICK r : r = req[s] /\ r \in Request /\ Going(r) /\ InOrder(r) /\ Found(r)
  BY <1>1, UnderWay
<1>3. r.left # {} /\ r.next \in r.left
  BY <1>1, <1>2 DEF Going
<1>4. PICK answer \in Geocode(r.seen[r.next]) :
         req' = [req EXCEPT ![s] = IF answer = Unplaced THEN GoneOn(r) ELSE [r EXCEPT !.pc = "write"]]
  BY <1>2 DEF Lookup, Inv, Rows
<1>5. CASE answer = Unplaced
  <2>1. PICK q : q = GoneOn(r)
    OBVIOUS
  <2>2. /\ q \in Request /\ q.left = r.left \ {r.next}
        /\ q.pc \in {"ask", "write", "commit"} /\ (q.pc = "write" => r.op \notin Geocoders)
        /\ q.op = r.op /\ q.seen = r.seen /\ q.moves = r.moves /\ q.wrote = r.wrote
        /\ q.next \in q.left \/ (q.left = {} /\ q.next = Nobody /\ q.pc = "commit")
        /\ \A f \in q.left : q.next <= f
    BY <1>2, <1>3, <2>1, GoesOn
  <2>3. Going(q) /\ InOrder(q)
    BY <1>2, <2>2 DEF Going, InOrder
  <2>4. Found(q)
    BY <1>2, <2>2 DEF Found
  <2> QED
    BY <1>1, <1>2, <1>4, <1>5, <2>1, <2>2, <2>3, <2>4, ReadingKeeps
<1>6. CASE answer # Unplaced
  <2>1. PICK q : q = [r EXCEPT !.pc = "write"]
    OBVIOUS
  <2>2. r.seen[r.next] \in Askable
    BY <1>6, ConstantsAssumption DEF Geocode
  <2>3. q \in Request /\ q.op = r.op /\ q.pc = "write" /\ q.left = r.left /\ q.next = r.next
        /\ q.seen = r.seen /\ q.wrote = r.wrote
    BY <1>2, <2>1 DEF Request
  <2>4. Going(q) /\ InOrder(q) /\ Found(q)
    BY <1>1, <1>2, <1>3, <2>2, <2>3 DEF Going, InOrder, Found
  <2> QED
    BY <1>1, <1>2, <1>4, <1>6, <2>1, <2>3, <2>4, ReadingKeeps
<1> QED
  BY <1>5, <1>6
\* A row that may be updated is nobody else's.
LEMMA WriteKeeps == ASSUME Inv, NEW s \in Session, Write(s) PROVE Inv'
<1>1. req[s] # Idle /\ req[s].pc = "write" /\ UNCHANGED <<rows, begun>>
  BY DEF Write
<1>2. PICK r : r = req[s] /\ r \in Request /\ Going(r) /\ InOrder(r) /\ Found(r)
  BY <1>1, UnderWay
<1>3. r.left # {} /\ r.next \in r.left /\ r.next \in Event /\ r.left \subseteq Nat /\ r.pc = "write"
  BY <1>1, <1>2, StoredNumbers DEF Going, Request
<1>4. lock[r.next] \in {Free, s} /\ lock' = [lock EXCEPT ![r.next] = s]
  BY <1>2 DEF Write
<1>5. PICK p : p = GoneOn(r)
  OBVIOUS
<1>6. /\ p \in Request /\ p.left = r.left \ {r.next}
      /\ p.pc \in {"ask", "write", "commit"} /\ (p.pc = "write" => r.op \notin Geocoders)
      /\ p.op = r.op /\ p.seen = r.seen /\ p.moves = r.moves /\ p.wrote = r.wrote
      /\ p.next \in p.left \/ (p.left = {} /\ p.next = Nobody /\ p.pc = "commit")
      /\ \A f \in p.left : p.next <= f
  BY <1>2, <1>3, <1>5, GoesOn
<1>7. PICK q : q = [p EXCEPT !.wrote = r.wrote \cup {r.next}]
  OBVIOUS
<1>8. req' = [req EXCEPT ![s] = q]
  BY <1>2, <1>5, <1>7 DEF Write
<1>9. q \in Request /\ q.wrote = r.wrote \cup {r.next} /\ q.op = r.op /\ q.left = p.left
      /\ q.next = p.next /\ q.pc = p.pc /\ q.seen = r.seen
  BY <1>2, <1>3, <1>6, <1>7 DEF Request
<1>10. Going(q)
  BY <1>2, <1>3, <1>6, <1>9 DEF Going
<1>11. InOrder(q)
  <2> SUFFICES ASSUME q.op # "merge", NEW e \in q.wrote, NEW f \in q.left PROVE e < f
    BY <1>6, <1>9 DEF InOrder
  <2>1. f \in r.left /\ f # r.next /\ f \in Nat /\ r.next \in Nat
    BY <1>3, <1>6, <1>9
  <2>2. r.op # "merge"
    BY <1>9
  <2>3. CASE e = r.next
    BY <1>2, <2>1, <2>2, <2>3 DEF InOrder
  <2>4. CASE e \in r.wrote
    BY <1>2, <2>1, <2>2, <2>4 DEF InOrder
  <2> QED
    BY <1>9, <2>3, <2>4
<1>12. Found(q)
  BY <1>2, <1>3, <1>6, <1>9 DEF Found
<1>13. /\ created' \in created..MaxEvents /\ Stored' = Stored
       /\ \A x \in Event : had[x] \subseteq had'[x]
       /\ Placed' /\ OwnCoordinates'
  BY <1>1, RowsStay
<1>14. q \in Request' /\ Found(q)' /\ q # Idle
  BY <1>1, <1>9, <1>12, <1>13 DEF Request, Found, rows, Idle, Geocoders
<1>15. req' \in [Session -> Request' \cup {Idle}] /\ Requests'
  BY <1>8, <1>10, <1>11, <1>13, <1>14, StepOfSession
<1>16. Locked'
  <2>1. \A t \in Session : req'[t] = IF t = s THEN q ELSE req[t]
    BY <1>8 DEF Inv, Rows
  <2>2. \A x \in Event : lock'[x] = IF x = r.next THEN s ELSE lock[x]
    BY <1>4 DEF Inv, Rows
  <2>3. \A t \in Session \ {s} : req[t] # Idle => r.next \notin req[t].wrote
    BY <1>3, <1>4, ConstantsAssumption DEF Inv, Locked
  <2> QED
    BY <1>1, <1>2, <1>3, <1>9, <1>14, <2>1, <2>2, <2>3 DEF Inv, Locked
<1>17. Rows'
  BY <1>1, <1>4, <1>15 DEF Inv, Rows, rows
<1> QED
  BY <1>13, <1>15, <1>16, <1>17 DEF Inv

\* The locks of a request that ends, and no others, are free.
LEMMA Releases ==
    ASSUME Inv, NEW s \in Session, req' = [req EXCEPT ![s] = Idle], lock' = Released(s)
    PROVE  Locked' /\ lock' \in [Event -> Session \cup {Free}]
<1>1. \A t \in Session : req'[t] = IF t = s THEN Idle ELSE req[t]
  BY DEF Inv, Rows
<1>2. \A x \in Event : lock'[x] = IF lock[x] = s THEN Free ELSE lock[x]
  BY DEF Released
<1>3. Locked'
  BY <1>1, <1>2, ConstantsAssumption DEF Inv, Locked
<1> QED
  BY <1>3 DEF Released, Inv, Rows

LEMMA DetectKeeps == ASSUME Inv, NEW s \in Session, Detect(s) PROVE Inv'
<1>1. req' = [req EXCEPT ![s] = Idle] /\ lock' = Released(s) /\ UNCHANGED <<rows, begun>>
  BY DEF Detect, Abandon
<1>2. /\ created' \in created..MaxEvents /\ Stored' = Stored
      /\ \A x \in Event : had[x] \subseteq had'[x]
      /\ Placed' /\ OwnCoordinates'
  BY <1>1, RowsStay
<1>3. req' \in [Session -> Request' \cup {Idle}] /\ Requests'
  BY <1>1, <1>2, StepOfSession
<1>4. Locked' /\ lock' \in [Event -> Session \cup {Free}]
  BY <1>1, Releases
<1>5. Rows'
  BY <1>1, <1>3, <1>4 DEF Inv, Rows, rows
<1> QED
  BY <1>2, <1>3, <1>4, <1>5 DEF Inv

\* What is committed of an event is what its own row was read with.
LEMMA CommitKeeps == ASSUME Inv, NEW s \in Session, Commit(s) PROVE Inv'
<1>1. /\ req[s] # Idle /\ req[s].pc = "commit" /\ UNCHANGED <<created, begun>>
      /\ req' = [req EXCEPT ![s] = Idle] /\ lock' = Released(s)
  BY DEF Commit
<1>2. PICK r : r = req[s] /\ r \in Request /\ Going(r) /\ InOrder(r) /\ Found(r)
  BY <1>1, UnderWay
<1>3. /\ at' = [e \in Event |-> IF r.op \in Geocoders /\ e \in r.wrote THEN r.seen[e] ELSE at[e]]
      /\ place' = [e \in Event |-> IF e \in DOMAIN r.moves THEN r.moves[e] ELSE place[e]]
      /\ had' = [e \in Event |-> IF e \in DOMAIN r.moves THEN had[e] \cup {r.moves[e]} ELSE had[e]]
  BY <1>2 DEF Commit, Coordinates
<1>4. created' \in created..MaxEvents /\ Stored' = Stored
  BY <1>1, ConstantsAssumption DEF Inv, Rows, Stored
<1>5. \A e \in Event : had[e] \subseteq had'[e]
  BY <1>3
<1>6. req' \in [Session -> Request' \cup {Idle}] /\ Requests'
  BY <1>1, <1>4, <1>5, StepOfSession
<1>7. Locked' /\ lock' \in [Event -> Session \cup {Free}]
  BY <1>1, Releases
<1>8. \A e \in DOMAIN r.moves : e \in Stored /\ r.moves[e] \in Place
  BY <1>2 DEF Request
<1>9. \A e \in r.wrote : /\ e \in Stored
                         /\ r.op \in Geocoders => r.seen[e] \in Askable /\ r.seen[e] \in had[e]
  BY <1>2 DEF Request, Going, Found
<1>10. place' \in [Event -> Place \cup {Unstored}] /\ had' \in [Event -> SUBSET Place]
  BY <1>3, <1>8 DEF Inv, Rows
<1>11. at' \in [Event -> Askable \cup {Unplaced}]
  BY <1>3, <1>9 DEF Inv, Rows
<1>12. Rows'
  BY <1>1, <1>6, <1>7, <1>10, <1>11 DEF Inv, Rows
<1>13. Placed'
  BY <1>3, <1>4, <1>8, <1>9, StoredNumbers DEF Inv, Placed
<1>14. OwnCoordinates'
  <2> SUFFICES ASSUME NEW e \in Event, at'[e] # Unplaced
               PROVE  at'[e] \in had'[e] /\ place'[e] \in had'[e]
    BY DEF OwnCoordinates
  <2>1. at'[e] \in had[e]
    BY <1>3, <1>9 DEF Inv, OwnCoordinates
  <2>2. e \in Stored
    BY <1>3, <1>9 DEF Inv, Placed
  <2> QED
    BY <1>4, <1>5, <1>13, <2>1, <2>2 DEF Placed
<1> QED
  BY <1>6, <1>7, <1>12, <1>13, <1>14 DEF Inv

LEMMA CrashKeeps == ASSUME Inv, Crash PROVE Inv'
<1>1. /\ req' = [s \in Session |-> Idle] /\ lock' = [e \in Event |-> Free]
      /\ UNCHANGED <<rows, begun>>
  BY DEF Crash
<1>2. Placed' /\ OwnCoordinates'
  BY <1>1, RowsStay
<1>3. Rows' /\ Requests' /\ Locked'
  BY <1>1, ConstantsAssumption DEF Inv, Rows, Requests, Locked, rows
<1> QED
  BY <1>2, <1>3 DEF Inv
-------------------------------------------------------------------------------
LEMMA InitInv == Init => Inv
<1> SUFFICES ASSUME Init PROVE Inv
  OBVIOUS
<1>1. Stored = {}
  BY DEF Init, Stored
<1>2. Rows
  BY ConstantsAssumption DEF Init, Rows
<1>3. Requests /\ Locked
  BY ConstantsAssumption DEF Init, Requests, Locked
<1>4. Placed /\ OwnCoordinates
  BY <1>1 DEF Init, Placed, OwnCoordinates
<1> QED
  BY <1>2, <1>3, <1>4 DEF Inv

LEMMA NextInv == Inv /\ [Next]_vars => Inv'
<1> SUFFICES ASSUME Inv, [Next]_vars PROVE Inv'
  OBVIOUS
<1>1. CASE UNCHANGED vars
  <2>1. Rows' /\ Requests' /\ Locked' /\ Placed' /\ OwnCoordinates'
    BY <1>1 DEF vars, Inv, Rows, Requests, Locked, Placed, OwnCoordinates, Found, Request, Stored
  <2> QED
    BY <2>1 DEF Inv
<1>2. ASSUME NEW s \in Session, Arrive(s) PROVE Inv'
  BY <1>2, SaveEventKeeps, BulkGeocodeKeeps, MergeEventsKeeps, RetroactiveScanKeeps DEF Arrive
<1>3. ASSUME NEW s \in Session, Proceed(s) PROVE Inv'
  BY <1>3, ReloadKeeps, LookupKeeps, WriteKeeps, CommitKeeps DEF Proceed
<1>4. ASSUME NEW s \in Session, Detect(s) PROVE Inv'
  BY <1>4, DetectKeeps
<1> QED
  BY <1>1, <1>2, <1>3, <1>4, CrashKeeps DEF Next

LEMMA AlwaysInv == Spec => []Inv
  BY InitInv, NextInv, PTL DEF Spec
-------------------------------------------------------------------------------
(***************************************************************************)
(* The theorems.                                                           *)
(***************************************************************************)

\* Rows, requests and locks are what they should be; in particular the lock of
\* a row belongs to the one request that has updated it.
THEOREM GeocodingTyped == Spec => []TypeOK
<1>1. Inv => TypeOK
  <2> SUFFICES ASSUME Inv PROVE TypeOK
    OBVIOUS
  <2>1. ASSUME NEW s \in Session, req[s] # Idle PROVE RequestOK(req[s])
    BY <2>1, UnderWay DEF RequestOK, Request, Going, Addresses
  <2>2. ASSUME NEW e \in Event
        PROVE  lock[e] = IF \E s \in Session : req[s] # Idle /\ e \in req[s].wrote
                           THEN CHOOSE s \in Session : req[s] # Idle /\ e \in req[s].wrote
                           ELSE Free
    BY ConstantsAssumption DEF Inv, Rows, Locked
  <2> QED
    BY <2>1, <2>2 DEF TypeOK, Inv, Rows
<1> QED
  BY <1>1, AlwaysInv, PTL

\* Whatever overlaps, an event has coordinates of an address of its own.
THEOREM CoordinatesOwned == Spec => []OwnCoordinates
<1>1. Inv => OwnCoordinates
  BY DEF Inv
<1> QED
  BY <1>1, AlwaysInv, PTL

\* Requests that take their locks in one order never wait in a circle: of those that
\* wait, the one that waits for the newest row would have to wait for a newer one.
THEOREM DeadlocksNeedMerges == Spec => []DeadlockNeedsMerge
<1>1. Inv => DeadlockNeedsMerge
  <2> SUFFICES ASSUME Inv, NEW S \in SUBSET Session, Deadlocked(S),
                      \A s \in S : req[s].op # "merge"
               PROVE  FALSE
    BY DEF DeadlockNeedsMerge
  <2>1. \A s \in S : req[s] # Idle /\ req[s].pc = "write"
    BY DEF Deadlocked, WaitsFor
  <2>2. \A s \in S : req[s].next \in req[s].left /\ req[s].next \in Event
    BY <2>1, UnderWay, StoredNumbers DEF Going, Request
  <2>3. PICK s \in S : \A t \in S : req[t].next <= req[s].next
    <3> DEFINE T == {MaxEvents - req[t].next : t \in S}
    <3>1. MaxEvents \in Nat /\ \A t \in S : req[t].next \in 1..MaxEvents
      BY <2>2, ConstantsAssumption DEF Event
    <3>2. T \subseteq Nat /\ T # {}
      BY <3>1 DEF Deadlocked
    <3>3. PICK n \in T : \A m \in T : n <= m
      BY <3>2, Least
    <3>4. PICK s \in S : n = MaxEvents - req[s].next
      BY <3>3
    <3>5. \A t \in S : MaxEvents - req[s].next <= MaxEvents - req[t].next
      BY <3>3, <3>4
    <3> QED
      BY <3>1, <3>4, <3>5
  <2>4. PICK t \in S : WaitsFor(s, t)
    BY <2>3 DEF Deadlocked
  <2>5. req[s].next \in req[t].wrote
    BY <2>2, <2>3, <2>4 DEF WaitsFor, Inv, Locked
  <2>6. req[s].next < req[t].next
    BY <2>1, <2>2, <2>4, <2>5, UnderWay DEF InOrder
  <2>7. req[s].next \in Nat /\ req[t].next \in Nat
    BY <2>2, <2>3, <2>4, StoredNumbers
  <2> QED
    BY <2>3, <2>4, <2>6, <2>7
<1> QED
  BY <1>1, AlwaysInv, PTL
===============================================================================
