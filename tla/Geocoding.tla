------------------------------- MODULE Geocoding -------------------------------
(***************************************************************************)
(* Coordinates of events.  Saving an event looks its address up in a       *)
(* second transaction of the same request; an administrator's bulk run     *)
(* looks up a batch of events and commits once, at its end.  The lookups   *)
(* are calls to the MCP server, which asks a geocoding provider: a row     *)
(* stays locked through the lookups that follow its update.                *)
(*                                                                         *)
(* The other requests that update event rows compete for the locks: a      *)
(* merge, which may also change the address of its target, and the         *)
(* retroactive duplicate scan.  What they do to duplicates is the subject  *)
(* of EventDedup; here any two events may be merged and any events may be  *)
(* touched by a scan.                                                      *)
(*                                                                         *)
(* Coordinates are identified with the address they were obtained for.     *)
(***************************************************************************)
EXTENDS Naturals, FiniteSets

CONSTANTS
    Session,      \* database sessions, one for each request at a time
    MaxEvents,    \* bound on the event rows
    MaxRequests,  \* bound on the requests
    BatchLimit,   \* _MAX_UNGEOCODED_BATCH
    Place,        \* values of the address, city and state of an event
    Selectable,   \* those with an address or a city that is not NULL
    Askable,      \* those from which a query can be built
    Known,        \* those the provider finds
    Faulty        \* lookups may fail, and the backend may crash

Event == 1..MaxEvents   \* in order of created_at
Unplaced == "unplaced"
Unstored == "unstored"
Free == "free"
Nobody == 0

ASSUME ConstantsAssumption ==
    /\ {MaxEvents, MaxRequests, BatchLimit} \subseteq Nat
    /\ Known \subseteq Askable
    /\ Selectable \subseteq Place /\ Askable \subseteq Place
    /\ Free \notin Session
    /\ Faulty \in BOOLEAN

VARIABLES
    created,  \* number of events
    place,    \* address fields of each event, as committed
    at,       \* address its coordinates were obtained for, Unplaced while lat is NULL
    had,      \* history: the addresses each event has had
    lock,     \* session that holds the lock of each row
    req,      \* request of each session
    begun     \* requests begun

vars == <<created, place, at, had, lock, req, begun>>
rows == <<created, place, at, had>>

Stored == 1..created
Idle == [op |-> "none"]
Geocoders == {"save", "bulk"}
Oldest(E) == CHOOSE e \in E : \A f \in E : e <= f

\* Mutant: a bulk run takes the newest event of its batch first.
TurnNewestFirst(op, E) ==
    IF op = "bulk" THEN CHOOSE e \in E : \A f \in E : f <= e ELSE Oldest(E)

\* The event of E that a request deals with next: bulk runs and scans go through
\* the rows in order of created_at.
Turn(op, E) == Oldest(E)
-------------------------------------------------------------------------------
(* Requests arrive.                                                        *)

\* A request of session s that has the rows E to deal with, e first; moves are
\* the addresses it changes.
Begin(s, op, pc, E, e, moves) ==
    /\ req[s] = Idle /\ begun < MaxRequests
    /\ begun' = begun + 1
    /\ req' = [req EXCEPT ![s] = [op |-> op, pc |-> pc, left |-> E, next |-> e,
                                 seen |-> [x \in E |-> place'[x]], moves |-> moves, wrote |-> {}]]
    /\ UNCHANGED lock

\* save_candidate_event and the manual ingest: the event is committed first, and
\* its row expires with the commit.
SaveEvent(s, p) ==
    LET e == created + 1
    IN  /\ e \in Event
        /\ created' = e
        /\ place' = [place EXCEPT ![e] = p]
        /\ had' = [had EXCEPT ![e] = {p}]
        /\ Begin(s, "save", "load", {e}, e, <<>>)
        /\ UNCHANGED at

\* get_ungeocoded_events: the oldest events without a latitude.
Ungeocoded == {e \in Stored : at[e] = Unplaced /\ place[e] \in Selectable}
Batch == {e \in Ungeocoded : Cardinality({f \in Ungeocoded : f < e}) < BatchLimit}

BulkGeocode(s) ==
    /\ Batch # {}
    /\ UNCHANGED rows
    /\ Begin(s, "bulk", "ask", Batch, Turn("bulk", Batch), <<>>)

\* merge_events: both rows are updated, in an order that their random ids decide.
\* p is the target's address afterwards; an address that stays is not written.
MergeEvents(s, source, target, p) ==
    /\ source \in Stored /\ target \in Stored /\ source # target
    /\ UNCHANGED rows
    /\ \E e \in {source, target} :
          Begin(s, "merge", "write", {source, target}, e,
                [x \in {y \in {target} : place[y] # p} |-> p])

\* run_retroactive_scan: the rows whose flag, pointer or normalized name changes.
RetroactiveScan(s) ==
    /\ UNCHANGED rows
    /\ \E E \in (SUBSET Stored) \ {{}} : Begin(s, "scan", "write", E, Turn("scan", E), <<>>)
-------------------------------------------------------------------------------
(* geocode_event.                                                          *)

\* The first look at the row after the commit reads it again. There may be nothing
\* to look up, or a bulk run was faster.
Reload(s) ==
    LET e == req[s].next
    IN  /\ req[s] # Idle /\ req[s].pc = "load"
        /\ req' = [req EXCEPT ![s] =
                     IF at[e] # Unplaced \/ place[e] \notin Askable
                       THEN Idle
                       ELSE [@ EXCEPT !.pc = "ask", !.seen = [x \in {e} |-> place[x]]]]
        /\ UNCHANGED <<rows, lock, begun>>

\* r has dealt with its row: a geocoder goes on to its next lookup, the others to
\* their next update, and all commit once nothing is left.
GoneOn(r) ==
    LET left == r.left \ {r.next}
    IN  IF left = {}
          THEN [r EXCEPT !.left = {}, !.next = Nobody, !.pc = "commit"]
          ELSE [r EXCEPT !.left = left, !.next = Turn(r.op, left),
                         !.pc = IF r.op \in Geocoders THEN "ask" ELSE "write"]

\* The answers of the provider to an address: what it finds there, or nothing,
\* because of an error or a time-out as well.
Geocode(p) ==
    (IF p \in Known THEN {p} ELSE {Unplaced}) \cup (IF Faulty THEN {Unplaced} ELSE {})

\* A row whose address is blank is skipped; of the others the address that was
\* read with the row is asked for, and a row found nowhere is left alone.
Lookup(s) ==
    /\ req[s] # Idle /\ req[s].pc = "ask"
    /\ \E answer \in Geocode(req[s].seen[req[s].next]) :
          req' = [req EXCEPT ![s] = IF answer = Unplaced THEN GoneOn(@)
                                                         ELSE [@ EXCEPT !.pc = "write"]]
    /\ UNCHANGED <<rows, lock, begun>>
-------------------------------------------------------------------------------
(* Transactions: an UPDATE locks its row until the end of the transaction. *)

\* The flush of one row waits for the lock, and then updates the row whatever
\* the transaction that held the lock did to it.
Write(s) ==
    LET r == req[s]
    IN  /\ r # Idle /\ r.pc = "write"
        /\ lock[r.next] \in {Free, s}
        /\ lock' = [lock EXCEPT ![r.next] = s]
        /\ req' = [req EXCEPT ![s] = [GoneOn(r) EXCEPT !.wrote = r.wrote \cup {r.next}]]
        /\ UNCHANGED <<rows, begun>>

Released(s) == [e \in Event |-> IF lock[e] = s THEN Free ELSE lock[e]]

\* Mutant: the coordinates of the first event of the run are given to all.
FirstCoordinates(r, e) == r.seen[Oldest(r.wrote)]

Coordinates(r, e) == r.seen[e]

\* Mutant: a transaction that fails is not rolled back.
AbandonLocked(s) ==
    /\ req' = [req EXCEPT ![s] = Idle]
    /\ UNCHANGED <<rows, lock, begun>>

\* get_db rolls the transaction back.
Abandon(s) ==
    /\ req' = [req EXCEPT ![s] = Idle]
    /\ lock' = Released(s)
    /\ UNCHANGED <<rows, begun>>

\* Mutant: the locks outlive the transaction.
CommitLocked(s) ==
    LET r == req[s]
    IN  /\ r # Idle /\ r.pc = "commit"
        /\ at' = [e \in Event |-> IF r.op \in Geocoders /\ e \in r.wrote
                                    THEN Coordinates(r, e) ELSE at[e]]
        /\ place' = [e \in Event |-> IF e \in DOMAIN r.moves THEN r.moves[e] ELSE place[e]]
        /\ had' = [e \in Event |-> IF e \in DOMAIN r.moves THEN had[e] \cup {r.moves[e]} ELSE had[e]]
        /\ req' = [req EXCEPT ![s] = Idle]
        /\ UNCHANGED <<created, lock, begun>>

\* What the request wrote becomes visible at once, and its locks are free.
Commit(s) ==
    LET r == req[s]
    IN  /\ r # Idle /\ r.pc = "commit"
        /\ at' = [e \in Event |-> IF r.op \in Geocoders /\ e \in r.wrote
                                    THEN Coordinates(r, e) ELSE at[e]]
        /\ place' = [e \in Event |-> IF e \in DOMAIN r.moves THEN r.moves[e] ELSE place[e]]
        /\ had' = [e \in Event |-> IF e \in DOMAIN r.moves THEN had[e] \cup {r.moves[e]} ELSE had[e]]
        /\ req' = [req EXCEPT ![s] = Idle]
        /\ lock' = Released(s)
        /\ UNCHANGED <<created, begun>>

\* Session s waits for session t.
WaitsFor(s, t) ==
    s # t /\ req[s] # Idle /\ req[s].pc = "write" /\ lock[req[s].next] = t

\* Each session of S waits for one of S, and each is waited for.
Deadlocked(S) ==
    /\ S # {}
    /\ \A s \in S : (\E t \in S : WaitsFor(s, t)) /\ (\E t \in S : WaitsFor(t, s))

\* PostgreSQL makes one transaction of a deadlock fail.
Detect(s) ==
    /\ \E S \in SUBSET Session : s \in S /\ Deadlocked(S)
    /\ Abandon(s)

\* The backend stops: every transaction is rolled back.
Crash ==
    /\ Faulty
    /\ \E s \in Session : req[s] # Idle
    /\ req' = [s \in Session |-> Idle]
    /\ lock' = [e \in Event |-> Free]
    /\ UNCHANGED <<rows, begun>>
-------------------------------------------------------------------------------
Init ==
    /\ created = 0
    /\ place = [e \in Event |-> Unstored]
    /\ at = [e \in Event |-> Unplaced]
    /\ had = [e \in Event |-> {}]
    /\ lock = [e \in Event |-> Free]
    /\ req = [s \in Session |-> Idle]
    /\ begun = 0

Arrive(s) ==
    \/ \E p \in Place : SaveEvent(s, p)
    \/ BulkGeocode(s)
    \/ \E source, target \in Event, p \in Place : MergeEvents(s, source, target, p)
    \/ RetroactiveScan(s)

Proceed(s) == Reload(s) \/ Lookup(s) \/ Write(s) \/ Commit(s)

Next ==
    \/ Crash
    \/ \E s \in Session : Arrive(s) \/ Proceed(s) \/ Detect(s)

Spec == Init /\ [][Next]_vars

\* Lookups have a time-out, locks are granted in the order in which they were
\* asked for, and the database looks for deadlocks.
FairSpec ==
    /\ Spec
    /\ \A s \in Session : WF_vars(Proceed(s) \/ Detect(s))
-------------------------------------------------------------------------------
(* Properties.                                                             *)

Addresses(f) == DOMAIN f \subseteq Stored /\ f \in [DOMAIN f -> Place]

RequestOK(r) ==
    /\ r.op \in Geocoders \cup {"merge", "scan"}
    /\ r.pc \in {"load", "ask", "write", "commit"}
    /\ {r.left, r.wrote} \subseteq SUBSET Stored
    /\ r.next \in r.left \/ (r.left = {} /\ r.next = Nobody)
    /\ Addresses(r.seen) /\ Addresses(r.moves)

\* The types; a row is locked by the one request that has updated it and not yet
\* ended.
TypeOK ==
    /\ created \in 0..MaxEvents
    /\ place \in [Event -> Place \cup {Unstored}]
    /\ at \in [Event -> Askable \cup {Unplaced}]
    /\ had \in [Event -> SUBSET Place]
    /\ \A s \in Session : req[s] = Idle \/ RequestOK(req[s])
    /\ begun \in 0..MaxRequests
    /\ \A e \in Event :
          lock[e] = IF \E s \in Session : req[s] # Idle /\ e \in req[s].wrote
                      THEN CHOOSE s \in Session : req[s] # Idle /\ e \in req[s].wrote
                      ELSE Free

\* The coordinates of an event are those of an address that it has or had itself,
\* and of the one it has if no merge ever changed it: batches and concurrent
\* lookups do not mix events up.
OwnCoordinates ==
    \A e \in Event : at[e] # Unplaced => at[e] \in had[e] /\ place[e] \in had[e]

\* Without a merge there is no deadlock: saves, bulk runs and scans alone always
\* take their locks in the same order, although they hold them through lookups.
DeadlockNeedsMerge ==
    \A S \in SUBSET Session : Deadlocked(S) => \E s \in S : req[s].op = "merge"

\* Every request ends, however long the others keep their locks.
RequestsEnd == \A s \in Session : req[s] # Idle ~> req[s] = Idle
===============================================================================
