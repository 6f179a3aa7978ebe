------------------------------ MODULE EventDedup ------------------------------
(***************************************************************************)
(* The event registry and its duplicate handling, one request at a time:   *)
(* candidate events saved by the worker or by the manual ingest form, the  *)
(* administrator's flag, merge and retroactive scan, and status changes.   *)
(*                                                                         *)
(* An event row e carries the evidence it was created with: one event_     *)
(* sources link and a bundle (perhaps empty) of event_claims rows, all     *)
(* naming the source document docOf[e].  A merge moves every claim of an   *)
(* event, so the bundle moves as one: linkAt[e] and claimAt[e] say which   *)
(* event that link and that bundle are attached to now.                    *)
(***************************************************************************)
EXTENDS Naturals, FiniteSets, DuplicateGraph

CONSTANTS
    MaxEvents,      \* bound on the number of event rows ever created
    Doc,            \* source documents
    Attr,           \* what duplicate scoring sees: name, address, date, city, state
    Name, NoName,   \* values of events.business_name, NoName for NULL
    NameOf,         \* business name of an attribute value
    Blank,          \* attribute values whose name normalizes to the empty string
    Located,        \* pairs (event, candidate) in the same city and state
    Score,          \* composite similarity of a pair of attribute values
    Threshold,      \* DUPLICATE_THRESHOLD
    CandidateLimit, \* rows find_candidates_by_city_state returns at most
    PatchStatuses   \* statuses PATCH /events/{id}/status is called with

Live == {"candidate", "verified", "needs_review"}
Statuses == Live \cup {"rejected", "merged", "expired"}
Event == 1..MaxEvents   \* ids in order of created_at
NoEvent == 0

ASSUME ConstantsAssumption ==
    /\ MaxEvents \in Nat
    /\ Doc # {} /\ Attr # {}
    /\ NoName \in Name
    /\ NameOf \in [Attr -> Name]
    /\ Blank \in SUBSET Attr
    /\ \A a \in Attr : NameOf[a] = NoName => a \in Blank
    /\ Located \in SUBSET (Attr \X Attr)
    /\ Score \in [Attr \X Attr -> Nat]
    /\ Threshold \in Nat
    /\ CandidateLimit \in Nat
    /\ PatchStatuses \in SUBSET Statuses

VARIABLES
    created,  \* number of event ids handed out
    status,   \* status of each event, "absent" before it is stored
    attr,     \* its scored attributes
    dupOf,    \* duplicate_of_id
    flagged,  \* possible_duplicate
    docOf,    \* document the event was extracted from
    linkAt,   \* event its source link is attached to, NoEvent once deleted
    claimAt   \* event its claims are attached to

evidence == <<docOf, linkAt, claimAt>>
vars == <<created, status, attr, dupOf, flagged, evidence>>

Rows == {e \in Event : status[e] # "absent"}
Linked(links, e) == {docOf[x] : x \in {y \in Event : links[y] = e}}
-------------------------------------------------------------------------------
(* Candidate selection and scoring.                                        *)

\* Mutant: events flagged as duplicates are compared with as well.
EligibleAny(a) == {c \in Rows : status[c] \in Live /\ <<a, attr[c]>> \in Located}

\* Canonical events that a new event with attributes a is compared with.
Eligible(a) ==
    {c \in Rows : /\ status[c] \in Live
                  /\ IsRoot(NoEvent, dupOf, c)
                  /\ <<a, attr[c]>> \in Located}

Newest(C) == {c \in C : Cardinality({d \in C : d > c}) < CandidateLimit}

\* The candidates of the highest score, if that score reaches the threshold.
Matches(C, a) ==
    {c \in C : /\ Score[<<a, attr[c]>>] >= Threshold
               /\ \A d \in C : Score[<<a, attr[c]>>] >= Score[<<a, attr[d]>>]}

\* check_and_flag_duplicate sees candidates newest first and keeps the first
\* of the best; a name that normalizes to nothing is never compared.
SaveTarget(a) ==
    LET best == Matches(Newest(Eligible(a)), a)
    IN  IF a \in Blank \/ best = {}
          THEN {NoEvent}
          ELSE {c \in best : \A d \in best : d <= c}
-------------------------------------------------------------------------------
(* Creation of events.                                                     *)

\* The row, link and claims of a new event e.
Store(e, a, d) ==
    /\ created' = e
    /\ status' = [status EXCEPT ![e] = "candidate"]
    /\ attr' = [attr EXCEPT ![e] = a]
    /\ docOf' = [docOf EXCEPT ![e] = d]
    /\ linkAt' = [linkAt EXCEPT ![e] = e]
    /\ claimAt' = [claimAt EXCEPT ![e] = e]

\* Document d already has an event with this business name.
Recorded(d, name) ==
    \E e \in Rows : NameOf[attr[e]] = name /\ d \in Linked(linkAt, e)

\* A candidate already recorded for the document under its name is a no-op. One
\* without a name is stored each time, if it has claims (and a page without
\* either counts as irrelevant and leaves no event).
SaveCandidate(a, d) ==
    /\ created < MaxEvents
    /\ NameOf[a] # NoName => ~Recorded(d, NameOf[a])
    /\ Store(created + 1, a, d)
    /\ \E target \in SaveTarget(a) :
          /\ dupOf' = [dupOf EXCEPT ![created + 1] = target]
          /\ flagged' = [flagged EXCEPT ![created + 1] = target # NoEvent]

\* Manual ingest stores the event of a document it has just created and does
\* not look for duplicates.
ManualIngest(a, d) ==
    /\ created < MaxEvents
    /\ \A e \in Rows : docOf[e] # d
    /\ Store(created + 1, a, d)
    /\ UNCHANGED <<dupOf, flagged>>
-------------------------------------------------------------------------------
(* Administration.                                                         *)

\* Mutant: the canonical event is not looked up.
FlagUnstored(e, c) ==
    /\ e \in Rows /\ e # c
    /\ IsRoot(NoEvent, dupOf, c)
    /\ dupOf' = [dupOf EXCEPT ![e] = c]
    /\ flagged' = [flagged EXCEPT ![e] = TRUE]
    /\ UNCHANGED <<created, status, attr, evidence>>

\* Neither the status of e nor the events pointing at e are looked at.
FlagDuplicate(e, c) ==
    /\ e \in Rows /\ c \in Rows /\ e # c
    /\ IsRoot(NoEvent, dupOf, c)
    /\ dupOf' = [dupOf EXCEPT ![e] = c]
    /\ flagged' = [flagged EXCEPT ![e] = TRUE]
    /\ UNCHANGED <<created, status, attr, evidence>>

ClearDuplicate(e) ==
    /\ e \in Rows
    /\ dupOf' = [dupOf EXCEPT ![e] = NoEvent]
    /\ flagged' = [flagged EXCEPT ![e] = FALSE]
    /\ UNCHANGED <<created, status, attr, evidence>>

\* Mutant: a link is deleted if s, instead of t, cites its document.
DroppedLinks(s, t) ==
    [x \in Event |-> IF linkAt[x] # s THEN linkAt[x]
                     ELSE IF docOf[x] \in Linked(linkAt, s) THEN NoEvent ELSE t]

\* A link of s moves to t, or is deleted if t already cites its document.
MovedLinks(s, t) ==
    [x \in Event |-> IF linkAt[x] # s THEN linkAt[x]
                     ELSE IF docOf[x] \in Linked(linkAt, t) THEN NoEvent ELSE t]

MovedClaims(s, t) == [x \in Event |-> IF claimAt[x] = s THEN t ELSE claimAt[x]]

\* s and everything that pointed at s point at t.
Repointed(s, t) ==
    [x \in Event |-> IF x = s \/ dupOf[x] = s THEN t ELSE dupOf[x]]

MergeFlags(s) ==
    [x \in Event |-> IF x = s THEN FALSE ELSE dupOf[x] = s \/ flagged[x]]

\* canonical_fields may rewrite any scored attribute of the target: a is what
\* the target has afterwards.
MergeEvents(s, t, a) ==
    /\ s \in Rows /\ t \in Rows /\ s # t
    /\ IsRoot(NoEvent, dupOf, t)
    /\ attr' = [attr EXCEPT ![t] = a]
    /\ claimAt' = MovedClaims(s, t)
    /\ linkAt' = MovedLinks(s, t)
    /\ dupOf' = Repointed(s, t)
    /\ flagged' = MergeFlags(s)
    /\ status' = [status EXCEPT ![s] = "merged"]
    /\ UNCHANGED <<created, docOf>>

\* No transition is refused: a merged event can be made a candidate again.
PatchStatus(e, new) ==
    /\ e \in Rows
    /\ status' = [status EXCEPT ![e] = new]
    /\ UNCHANGED <<created, attr, dupOf, flagged, evidence>>
-------------------------------------------------------------------------------
(* The retroactive scan: events oldest first, each compared with the       *)
(* earlier ones that are roots when its turn comes.                        *)

Scanned == {e \in Rows : status[e] \in Live}

\* Mutant: events are compared with later ones too.
ScanTargetAnywhere(d, e) ==
    LET prior == {c \in Scanned : /\ c # e
                                  /\ IsRoot(NoEvent, d, c)
                                  /\ <<attr[e], attr[c]>> \in Located}
        best  == Matches(prior, attr[e])
    IN  IF attr[e] \in Blank \/ best = {}
          THEN {NoEvent}
          ELSE {c \in best : \A x \in best : c <= x}

\* Where the scan points e, given the pointers d of the events before it.
ScanTarget(d, e) ==
    LET prior == {c \in Scanned : /\ c < e
                                  /\ IsRoot(NoEvent, d, c)
                                  /\ <<attr[e], attr[c]>> \in Located}
        best  == Matches(prior, attr[e])
    IN  IF attr[e] \in Blank \/ best = {}
          THEN {NoEvent}
          ELSE {c \in best : \A x \in best : c <= x}

\* The pointers when the loop is over: d is the only function with every event
\* where ScanTarget puts it, because ScanTarget(d, e) reads d below e only.
ScanOutcome(d) ==
    \A e \in Event : IF e \in Scanned THEN d[e] \in ScanTarget(d, e)
                                      ELSE d[e] = dupOf[e]

\* One turn of the loop, and the pointers after the turns of events 1..n.
ScanTurn(d, e) ==
    IF e \in Scanned THEN [d EXCEPT ![e] = CHOOSE c \in ScanTarget(d, e) : TRUE] ELSE d
ScanLoop[n \in 0..MaxEvents] ==
    IF n = 0 THEN dupOf ELSE ScanTurn(ScanLoop[n - 1], n)

RetroactiveScan ==
    /\ \E d \in [Event -> Event \cup {NoEvent}] : ScanOutcome(d) /\ dupOf' = d
    /\ flagged' = [e \in Event |-> IF e \in Scanned THEN dupOf'[e] # NoEvent
                                                    ELSE flagged[e]]
    /\ UNCHANGED <<created, status, attr, evidence>>
-------------------------------------------------------------------------------
Init ==
    /\ created = 0
    /\ status = [e \in Event |-> "absent"]
    /\ attr = [e \in Event |-> CHOOSE a \in Attr : TRUE]
    /\ dupOf = [e \in Event |-> NoEvent]
    /\ flagged = [e \in Event |-> FALSE]
    /\ docOf = [e \in Event |-> CHOOSE d \in Doc : TRUE]
    /\ linkAt = [e \in Event |-> NoEvent]
    /\ claimAt = [e \in Event |-> NoEvent]

Next ==
    \/ \E a \in Attr, d \in Doc : SaveCandidate(a, d) \/ ManualIngest(a, d)
    \/ \E e, c \in Event : FlagDuplicate(e, c)
    \/ \E e \in Event : ClearDuplicate(e)
    \/ \E s, t \in Event, a \in Attr : MergeEvents(s, t, a)
    \/ \E e \in Event, new \in PatchStatuses : PatchStatus(e, new)
    \/ RetroactiveScan

Spec == Init /\ [][Next]_vars
-------------------------------------------------------------------------------
(* Properties.                                                             *)

\* The types; pointers and attachments name stored events (the foreign keys of
\* events, event_sources and event_claims), and ids above created are free.
TypeOK ==
    /\ created \in 0..MaxEvents
    /\ status \in [Event -> Statuses \cup {"absent"}]
    /\ \A e \in Rows : e <= created
    /\ attr \in [Event -> Attr]
    /\ dupOf \in [Event -> Rows \cup {NoEvent}]
    /\ flagged \in [Event -> BOOLEAN]
    /\ docOf \in [Event -> Doc]
    /\ linkAt \in [Event -> Rows \cup {NoEvent}]
    /\ claimAt \in [Event -> Rows \cup {NoEvent}]

\* No chain of duplicate_of_id pointers returns to where it started, whatever
\* sequence of flags, merges, status changes and scans wrote them.
NoDuplicateCycle == Acyclic(Event, dupOf)

\* Wherever merges have carried them, claims are attached to an event that
\* also links the document they were extracted from.
ClaimsBacked ==
    \A x \in Rows : docOf[x] \in Linked(linkAt, claimAt[x])

\* Merging never drops the last link to a source document: a document that
\* yielded an event stays linked to some event.
EvidenceKept ==
    \A x \in Rows : \E y \in Event : docOf[y] = docOf[x] /\ linkAt[y] # NoEvent

\* An event shown as a possible duplicate names the event it may duplicate.
FlagHasTarget == \A e \in Event : flagged[e] => dupOf[e] # NoEvent

\* The scan's outcome as it is stated, event by event, is what the loop computes, and
\* nothing else: one pass settles every pointer, whatever the pointers were before.
ScanLoopAgrees ==
    \A d \in [Event -> Event \cup {NoEvent}] :
        ScanOutcome(d) <=> d = ScanLoop[MaxEvents]

\* Duplicate handling keeps what the pointer forest promises.
Forest == INSTANCE DuplicateForest WITH rows <- Rows
ForestSpec == Forest!Spec
===============================================================================
