------------------------------ MODULE DedupProofs ------------------------------
(***************************************************************************)
(* Proofs about EventDedup, for any number of events, any documents and    *)
(* any similarity scores.                                                  *)
(***************************************************************************)
EXTENDS DedupSessions, WellFoundedInduction, TLAPS

\* Re-pointing events at roots, and only at roots, never closes a cycle. This
\* is the argument behind every check that a duplicate target is a canonical
\* root (dedup_admin_service._ensure_canonical_target).
LEMMA RehungStaysAcyclic ==
    ASSUME NEW E, NEW None, None \notin E,
           NEW f \in [E -> E \cup {None}],
           NEW g \in [E -> E \cup {None}],
           Acyclic(E, f),
           Rehung(E, None, f, g)
    PROVE  Acyclic(E, g)
<1> SUFFICES ASSUME NEW S \in SUBSET E, S # {}, \A e \in S : g[e] \in S
             PROVE  FALSE
  BY DEF Acyclic
<1>1. \A e \in S : g[e] = f[e]
  BY DEF Rehung, IsRoot
<1>2. \A e \in S : f[e] \in S
  BY <1>1
<1> QED
  BY <1>2 DEF Acyclic

\* An id that is not yet stored has no pointer, link or claims; the claims of a
\* stored one are attached to some event.
Blanks ==
    /\ \A e \in Event \ Rows : dupOf[e] = NoEvent /\ linkAt[e] = NoEvent /\ claimAt[e] = NoEvent
    /\ \A e \in Rows : claimAt[e] \in Rows

\* Strengthened invariant: what the other proofs assume of a state.
Consistent == TypeOK /\ Blanks

LEMMA NoEventFresh == NoEvent \notin Event
  BY DEF NoEvent, Event

LEMMA InitConsistent == Init => Consistent
<1> SUFFICES ASSUME Init PROVE Consistent
  OBVIOUS
<1>1. Rows = {}
  BY DEF Init, Rows
<1>2. (CHOOSE a \in Attr : TRUE) \in Attr /\ (CHOOSE d \in Doc : TRUE) \in Doc
  BY ConstantsAssumption
<1>3. TypeOK
  BY <1>1, <1>2, ConstantsAssumption DEF Init, TypeOK, Event, NoEvent
<1>4. Blanks
  BY <1>1 DEF Init, Blanks
<1> QED
  BY <1>3, <1>4 DEF Consistent

\* A candidate save picks no target, or a stored canonical root.
LEMMA SaveTargetIsRoot ==
    ASSUME TypeOK, NEW a \in Attr, NEW target \in SaveTarget(a)
    PROVE  target = NoEvent \/ (target \in Rows /\ dupOf[target] = NoEvent)
<1> DEFINE best == Matches(Newest(Eligible(a)), a)
<1>1. best \subseteq Eligible(a)
  BY DEF Matches, Newest
<1>2. \A c \in Eligible(a) : c \in Rows /\ dupOf[c] = NoEvent
  BY DEF Eligible, IsRoot
<1>3. target = NoEvent \/ target \in best
  BY DEF SaveTarget
<1> QED
  BY <1>1, <1>2, <1>3

\* So does a scan, for the pointers d it leaves behind.
LEMMA ScanTargetIsRoot ==
    ASSUME TypeOK, NEW e \in Rows, NEW d, NEW target \in ScanTarget(d, e)
    PROVE  target = NoEvent \/ (target \in Rows /\ d[target] = NoEvent)
<1> DEFINE prior == {c \in Scanned : /\ c < e
                                     /\ IsRoot(NoEvent, d, c)
                                     /\ <<attr[e], attr[c]>> \in Located}
           best == Matches(prior, attr[e])
<1>1. best \subseteq prior
  BY DEF Matches
<1>2. \A c \in prior : c \in Rows /\ d[c] = NoEvent
  BY DEF Scanned, IsRoot
<1>3. target = NoEvent \/ target \in best
  BY DEF ScanTarget
<1> QED
  BY <1>1, <1>2, <1>3

\* Storing a new event keeps the attachments consistent.
LEMMA StoreFacts ==
    ASSUME Consistent, created < MaxEvents,
           NEW a \in Attr, NEW d \in Doc, Store(created + 1, a, d)
    PROVE  /\ created + 1 \in Event \ Rows
           /\ Rows' = Rows \cup {created + 1}
           /\ created' \in 0..MaxEvents
           /\ status' \in [Event -> Statuses \cup {"absent"}]
           /\ \A e \in Rows' : e <= created'
           /\ attr' \in [Event -> Attr]
           /\ docOf' \in [Event -> Doc]
           /\ linkAt' \in [Event -> Rows' \cup {NoEvent}]
           /\ claimAt' \in [Event -> Rows' \cup {NoEvent}]
           /\ \A e \in Event \ Rows' : linkAt'[e] = NoEvent /\ claimAt'[e] = NoEvent
           /\ \A e \in Rows' : claimAt'[e] \in Rows'
<1> DEFINE new == created + 1
<1>1. new \in Event /\ new \notin Rows
  BY ConstantsAssumption DEF Consistent, TypeOK, Event
<1>2. status' = [status EXCEPT ![new] = "candidate"] /\ created' = new
  BY DEF Store
<1>3. Rows' = Rows \cup {new}
  BY <1>1, <1>2 DEF Consistent, TypeOK, Rows
<1>4. /\ status' \in [Event -> Statuses \cup {"absent"}]
      /\ created' \in 0..MaxEvents
      /\ \A e \in Rows' : e <= created'
  BY <1>1, <1>2, <1>3, ConstantsAssumption
     DEF Consistent, TypeOK, Statuses, Live, Event, Rows
<1>5. attr' \in [Event -> Attr] /\ docOf' \in [Event -> Doc]
  BY DEF Consistent, TypeOK, Store
<1>6. /\ linkAt' \in [Event -> Rows' \cup {NoEvent}]
      /\ claimAt' \in [Event -> Rows' \cup {NoEvent}]
      /\ \A e \in Event \ Rows' : linkAt'[e] = NoEvent /\ claimAt'[e] = NoEvent
      /\ \A e \in Rows' : claimAt'[e] \in Rows'
  BY <1>1, <1>3 DEF Consistent, TypeOK, Blanks, Store, Rows
<1> QED
  BY <1>1, <1>2, <1>3, <1>4, <1>5, <1>6

\* Every step keeps the state consistent.
LEMMA NextConsistent == Consistent /\ [Next]_vars => Consistent'
<1> SUFFICES ASSUME Consistent, [Next]_vars PROVE Consistent'
  OBVIOUS
<1> USE DEF Consistent
<1>1. ASSUME NEW a \in Attr, NEW d \in Doc, SaveCandidate(a, d)
      PROVE  Consistent'
  <2>1. created < MaxEvents /\ Store(created + 1, a, d)
    BY <1>1 DEF SaveCandidate
  <2>2. PICK target \in SaveTarget(a) :
           /\ dupOf' = [dupOf EXCEPT ![created + 1] = target]
           /\ flagged' = [flagged EXCEPT ![created + 1] = target # NoEvent]
    BY <1>1 DEF SaveCandidate
  <2>3. target \in Rows \cup {NoEvent}
    BY SaveTargetIsRoot
  <2>4. /\ dupOf' \in [Event -> Rows' \cup {NoEvent}]
        /\ flagged' \in [Event -> BOOLEAN]
        /\ \A e \in Event \ Rows' : dupOf'[e] = NoEvent
    BY <2>1, <2>2, <2>3, StoreFacts DEF TypeOK, Blanks
  <2> QED
    BY <2>1, <2>4, StoreFacts DEF TypeOK, Blanks
<1>2. ASSUME NEW a \in Attr, NEW d \in Doc, ManualIngest(a, d)
      PROVE  Consistent'
  <2>1. created < MaxEvents /\ Store(created + 1, a, d)
    BY <1>2 DEF ManualIngest
  <2>2. dupOf' = dupOf /\ flagged' = flagged
    BY <1>2 DEF ManualIngest
  <2>3. /\ dupOf' \in [Event -> Rows' \cup {NoEvent}]
        /\ \A e \in Event \ Rows' : dupOf'[e] = NoEvent
    BY <2>1, <2>2, StoreFacts DEF TypeOK, Blanks
  <2> QED
    BY <2>1, <2>2, <2>3, StoreFacts DEF TypeOK, Blanks
<1>3. ASSUME NEW e \in Event, NEW c \in Event, FlagDuplicate(e, c)
      PROVE  Consistent'
  BY <1>3 DEF FlagDuplicate, evidence, TypeOK, Blanks, Rows
<1>4. ASSUME NEW e \in Event, ClearDuplicate(e)
      PROVE  Consistent'
  BY <1>4 DEF ClearDuplicate, evidence, TypeOK, Blanks, Rows
<1>5. ASSUME NEW s \in Event, NEW t \in Event, NEW a \in Attr, MergeEvents(s, t, a)
      PROVE  Consistent'
  <2>1. s \in Rows /\ t \in Rows
    BY <1>5 DEF MergeEvents
  <2>2. status' = [status EXCEPT ![s] = "merged"]
    BY <1>5 DEF MergeEvents
  <2>3. Rows' = Rows /\ status' \in [Event -> Statuses \cup {"absent"}]
    BY <2>1, <2>2 DEF TypeOK, Rows, Statuses
  <2>4. /\ linkAt' \in [Event -> Rows \cup {NoEvent}]
        /\ \A e \in Event \ Rows : linkAt'[e] = NoEvent
    BY <1>5, <2>1, NoEventFresh DEF MergeEvents, MovedLinks, TypeOK, Blanks, Rows
  <2>5. /\ claimAt' \in [Event -> Rows \cup {NoEvent}]
        /\ \A e \in Event \ Rows : claimAt'[e] = NoEvent
        /\ \A e \in Rows : claimAt'[e] \in Rows
    BY <1>5, <2>1, NoEventFresh DEF MergeEvents, MovedClaims, TypeOK, Blanks, Rows
  <2>6. /\ dupOf' \in [Event -> Rows \cup {NoEvent}]
        /\ \A e \in Event \ Rows : dupOf'[e] = NoEvent
    BY <1>5, <2>1, NoEventFresh DEF MergeEvents, Repointed, TypeOK, Blanks, Rows
  <2>7. flagged' \in [Event -> BOOLEAN]
    BY <1>5 DEF MergeEvents, MergeFlags, TypeOK
  <2>8. attr' \in [Event -> Attr] /\ created' = created /\ docOf' = docOf
    BY <1>5 DEF MergeEvents, TypeOK
  <2> QED
    BY <2>3, <2>4, <2>5, <2>6, <2>7, <2>8 DEF TypeOK, Blanks
<1>6. ASSUME NEW e \in Event, NEW new \in PatchStatuses, PatchStatus(e, new)
      PROVE  Consistent'
  <2>1. new \in Statuses /\ new # "absent"
    BY ConstantsAssumption DEF Statuses, Live
  <2>2. Rows' = Rows /\ status' \in [Event -> Statuses \cup {"absent"}]
    BY <1>6, <2>1 DEF PatchStatus, TypeOK, Rows
  <2> QED
    BY <1>6, <2>2 DEF PatchStatus, evidence, TypeOK, Blanks
<1>7. ASSUME RetroactiveScan
      PROVE  Consistent'
  <2>1. /\ ScanOutcome(dupOf')
        /\ dupOf' \in [Event -> Event \cup {NoEvent}]
        /\ flagged' \in [Event -> BOOLEAN]
        /\ Rows' = Rows
    BY <1>7 DEF RetroactiveScan, TypeOK, Rows
  <2>2. ASSUME NEW e \in Event
        PROVE  dupOf'[e] \in Rows \cup {NoEvent} /\ (e \notin Rows => dupOf'[e] = NoEvent)
    <3>1. CASE e \in Scanned
      BY <2>1, <3>1, ScanTargetIsRoot DEF ScanOutcome, Scanned
    <3>2. CASE e \notin Scanned
      BY <2>1, <3>2 DEF ScanOutcome, TypeOK, Blanks
    <3> QED
      BY <3>1, <3>2
  <2>3. dupOf' \in [Event -> Rows \cup {NoEvent}]
    BY <2>1, <2>2
  <2> QED
    BY <1>7, <2>1, <2>2, <2>3 DEF RetroactiveScan, evidence, TypeOK, Blanks
<1>8. CASE UNCHANGED vars
  BY <1>8 DEF vars, evidence, TypeOK, Blanks, Rows
<1> QED
  BY <1>1, <1>2, <1>3, <1>4, <1>5, <1>6, <1>7, <1>8 DEF Next

\* The types, and the foreign keys between events, links and claims, hold in
\* every reachable state of the registry.
THEOREM TypeCorrect == Spec => []TypeOK
<1>1. Spec => []Consistent
  BY InitConsistent, NextConsistent, PTL DEF Spec
<1>2. Consistent => TypeOK
  BY DEF Consistent
<1> QED
  BY <1>1, <1>2, PTL
-------------------------------------------------------------------------------
(* Pointers: every step re-points events at roots only.                    *)

LEMMA NextRehangs ==
    Consistent /\ [Next]_vars => Rehung(Event, NoEvent, dupOf, dupOf')
<1> SUFFICES ASSUME Consistent, [Next]_vars, NEW e \in Event, dupOf'[e] # dupOf[e]
             PROVE  dupOf'[e] = NoEvent \/ dupOf'[dupOf'[e]] = NoEvent
  BY DEF Rehung, IsRoot
<1> USE DEF Consistent
<1>1. ASSUME NEW a \in Attr, NEW d \in Doc, SaveCandidate(a, d)
      PROVE  dupOf'[e] = NoEvent \/ dupOf'[dupOf'[e]] = NoEvent
  <2>1. created < MaxEvents /\ Store(created + 1, a, d)
    BY <1>1 DEF SaveCandidate
  <2>2. PICK target \in SaveTarget(a) : dupOf' = [dupOf EXCEPT ![created + 1] = target]
    BY <1>1 DEF SaveCandidate
  <2>3. target = NoEvent \/ (target \in Rows /\ dupOf[target] = NoEvent)
    BY SaveTargetIsRoot
  <2>4. created + 1 \in Event \ Rows
    BY <2>1, StoreFacts
  <2> QED
    BY <2>2, <2>3, <2>4 DEF TypeOK, Rows
<1>2. ASSUME NEW a \in Attr, NEW d \in Doc, ManualIngest(a, d)
      PROVE  dupOf'[e] = NoEvent \/ dupOf'[dupOf'[e]] = NoEvent
  BY <1>2 DEF ManualIngest
<1>3. ASSUME NEW x \in Event, NEW c \in Event, FlagDuplicate(x, c)
      PROVE  dupOf'[e] = NoEvent \/ dupOf'[dupOf'[e]] = NoEvent
  BY <1>3 DEF FlagDuplicate, IsRoot, TypeOK
<1>4. ASSUME NEW x \in Event, ClearDuplicate(x)
      PROVE  dupOf'[e] = NoEvent \/ dupOf'[dupOf'[e]] = NoEvent
  BY <1>4 DEF ClearDuplicate, TypeOK
<1>5. ASSUME NEW s \in Event, NEW t \in Event, NEW a \in Attr, MergeEvents(s, t, a)
      PROVE  dupOf'[e] = NoEvent \/ dupOf'[dupOf'[e]] = NoEvent
  <2>1. dupOf'[e] = t
    BY <1>5 DEF MergeEvents, Repointed
  <2>2. dupOf'[t] = NoEvent
    BY <1>5, NoEventFresh DEF MergeEvents, Repointed, IsRoot
  <2> QED
    BY <2>1, <2>2
<1>6. ASSUME NEW x \in Event, NEW new \in PatchStatuses, PatchStatus(x, new)
      PROVE  dupOf'[e] = NoEvent \/ dupOf'[dupOf'[e]] = NoEvent
  BY <1>6 DEF PatchStatus
<1>7. ASSUME RetroactiveScan
      PROVE  dupOf'[e] = NoEvent \/ dupOf'[dupOf'[e]] = NoEvent
  <2>1. ScanOutcome(dupOf')
    BY <1>7 DEF RetroactiveScan
  <2>2. e \in Scanned /\ dupOf'[e] \in ScanTarget(dupOf', e)
    BY <2>1 DEF ScanOutcome
  <2> QED
    BY <2>2, ScanTargetIsRoot DEF Scanned
<1>8. CASE UNCHANGED vars
  BY <1>8 DEF vars
<1> QED
  BY <1>1, <1>2, <1>3, <1>4, <1>5, <1>6, <1>7, <1>8 DEF Next

\* Rows are never removed.
LEMMA NextKeepsRows == Consistent /\ [Next]_vars => Rows \subseteq Rows'
<1> SUFFICES ASSUME Consistent, [Next]_vars PROVE Rows \subseteq Rows'
  OBVIOUS
<1> USE DEF Consistent
<1>1. ASSUME NEW a \in Attr, NEW d \in Doc, SaveCandidate(a, d) \/ ManualIngest(a, d)
      PROVE  Rows \subseteq Rows'
  BY <1>1, StoreFacts DEF SaveCandidate, ManualIngest
<1>2. ASSUME NEW s \in Event, NEW t \in Event, NEW a \in Attr, MergeEvents(s, t, a)
      PROVE  Rows \subseteq Rows'
  BY <1>2 DEF MergeEvents, TypeOK, Rows
<1>3. ASSUME NEW e \in Event, NEW new \in PatchStatuses, PatchStatus(e, new)
      PROVE  Rows \subseteq Rows'
  <2>1. new # "absent"
    BY ConstantsAssumption DEF Statuses, Live
  <2> QED
    BY <1>3, <2>1 DEF PatchStatus, TypeOK, Rows
<1>4. CASE UNCHANGED status
  BY <1>4 DEF Rows
<1> QED
  BY <1>1, <1>2, <1>3, <1>4
     DEF Next, vars, FlagDuplicate, ClearDuplicate, RetroactiveScan

\* Duplicate pointers never form a cycle: no sequence of saves, flags, merges,
\* status changes and scans, each seeing the last one's commit, makes an event
\* a duplicate of itself.
THEOREM PointersAcyclic == Spec => []NoDuplicateCycle
<1>1. Init => NoDuplicateCycle
  BY NoEventFresh DEF Init, NoDuplicateCycle, Acyclic
<1>2. Consistent /\ NoDuplicateCycle /\ [Next]_vars => NoDuplicateCycle'
  <2> SUFFICES ASSUME Consistent, NoDuplicateCycle, [Next]_vars
               PROVE  NoDuplicateCycle'
    OBVIOUS
  <2>1. Consistent' /\ Rehung(Event, NoEvent, dupOf, dupOf')
    BY NextConsistent, NextRehangs
  <2>2. /\ dupOf \in [Event -> Event \cup {NoEvent}]
        /\ dupOf' \in [Event -> Event \cup {NoEvent}]
    BY <2>1 DEF Consistent, TypeOK, Rows
  <2>3. Acyclic(Event, dupOf)
    BY DEF NoDuplicateCycle
  <2> HIDE DEF Consistent
  <2>4. Acyclic(Event, dupOf')
    BY <2>1, <2>2, <2>3, NoEventFresh, RehungStaysAcyclic
  <2> QED
    BY <2>4 DEF NoDuplicateCycle
<1> QED
  BY <1>1, <1>2, InitConsistent, NextConsistent, PTL DEF Spec

\* The registry implements the pointer forest of DuplicateForest.
THEOREM ImplementsForest == Spec => ForestSpec
<1>1. Init => Forest!Init
  BY DEF Init, Forest!Init, Rows
<1>2. Consistent /\ Consistent' /\ [Next]_vars => [Forest!Next]_Forest!vars
  <2> SUFFICES ASSUME Consistent, Consistent', [Next]_vars
               PROVE  Forest!Revise
    BY DEF Forest!Next
  <2>1. Rows' \in SUBSET Event /\ Rows \subseteq Rows'
    BY NextKeepsRows DEF Rows
  <2>2. dupOf' \in [Event -> Rows' \cup {NoEvent}]
    BY DEF Consistent, TypeOK
  <2>3. dupOf' \in Forest!Pointers
    BY <2>1, <2>2 DEF Forest!Pointers
  <2>4. Forest!Rehung(Event, NoEvent, dupOf, dupOf')
    BY NextRehangs DEF Rehung, IsRoot, Forest!Rehung, Forest!IsRoot
  <2> QED
    BY <2>1, <2>2, <2>3, <2>4 DEF Forest!Revise
<1> QED
  BY <1>1, <1>2, InitConsistent, NextConsistent, PTL
     DEF Spec, ForestSpec, Forest!Spec

\* Whatever implements the forest inherits this: its duplicate pointers can be
\* followed to a canonical root.
THEOREM ForestAcyclic == Forest!Spec => []Forest!NoDuplicateCycle
<1> DEFINE Inv == dupOf \in Forest!Pointers /\ Forest!NoDuplicateCycle
<1>1. Forest!Init => Inv
  BY NoEventFresh DEF Forest!Init, Forest!Pointers, Forest!NoDuplicateCycle, Forest!Acyclic
<1>2. Inv /\ [Forest!Next]_(Forest!vars) => Inv'
  <2> SUFFICES ASSUME Inv, [Forest!Next]_(Forest!vars) PROVE Inv'
    OBVIOUS
  <2>1. CASE Forest!Next
    <3>1. dupOf' \in Forest!Pointers /\ Rehung(Event, NoEvent, dupOf, dupOf')
      BY <2>1 DEF Forest!Next, Forest!Revise, Rehung, IsRoot, Forest!Rehung, Forest!IsRoot
    <3>2. Acyclic(Event, dupOf')
      BY <3>1, NoEventFresh, RehungStaysAcyclic
         DEF Forest!Pointers, Forest!NoDuplicateCycle, Forest!Acyclic, Acyclic
    <3> QED
      BY <3>1, <3>2 DEF Forest!NoDuplicateCycle, Forest!Acyclic, Acyclic
  <2>2. CASE UNCHANGED Forest!vars
    BY <2>2 DEF Forest!vars, Forest!NoDuplicateCycle, Forest!Acyclic, Forest!Pointers
  <2> QED
    BY <2>1, <2>2
<1> QED
  BY <1>1, <1>2, PTL DEF Forest!Spec
-------------------------------------------------------------------------------
(* Evidence.                                                               *)

\* Event e links document d, before and after a step.
Cites(e, d) == \E y \in Event : linkAt[y] = e /\ docOf[y] = d
CitesNext(e, d) == \E y \in Event : linkAt'[y] = e /\ docOf'[y] = d

\* Event e links document d, by the links given.
CitesBy(links, e, d) == \E y \in Event : links[y] = e /\ docOf[y] = d

LEMMA BackedCites ==
    /\ ClaimsBacked <=> \A x \in Rows : Cites(claimAt[x], docOf[x])
    /\ ClaimsBacked' <=> \A x \in Rows' : CitesNext(claimAt'[x], docOf'[x])
  BY DEF ClaimsBacked, Linked, Cites, CitesNext

\* A merge of s into t leaves the documents of other events linked, and links
\* those of s to t.
LEMMA MergeKeepsCitations ==
    ASSUME NEW s \in Rows, NEW t \in Rows, s # t, NEW e \in Event, NEW d, Cites(e, d)
    PROVE  CitesBy(MovedLinks(s, t), IF e = s THEN t ELSE e, d)
<1>1. PICK y \in Event : linkAt[y] = e /\ docOf[y] = d
  BY DEF Cites
<1>2. CASE e # s
  BY <1>1, <1>2 DEF MovedLinks, CitesBy
<1>3. CASE e = s /\ d \notin Linked(linkAt, t)
  <2>1. MovedLinks(s, t)[y] = t
    BY <1>1, <1>3 DEF MovedLinks
  <2> QED
    BY <1>1, <1>3, <2>1 DEF CitesBy
<1>4. CASE e = s /\ d \in Linked(linkAt, t)
  <2>1. PICK z \in Event : linkAt[z] = t /\ docOf[z] = d
    BY <1>4 DEF Linked
  <2>2. MovedLinks(s, t)[z] = t
    BY <2>1 DEF MovedLinks
  <2> QED
    BY <1>4, <2>1, <2>2 DEF CitesBy
<1> QED
  BY <1>2, <1>3, <1>4

\* A new event starts with its own link, and disturbs no other.
LEMMA StoreKeepsBacking ==
    ASSUME Consistent, ClaimsBacked, created < MaxEvents,
           NEW a \in Attr, NEW d \in Doc, Store(created + 1, a, d)
    PROVE  ClaimsBacked'
<1> DEFINE new == created + 1
<1>1. new \in Event \ Rows /\ Rows' = Rows \cup {new}
  BY StoreFacts
<1>2. /\ docOf' = [docOf EXCEPT ![new] = d]
      /\ linkAt' = [linkAt EXCEPT ![new] = new]
      /\ claimAt' = [claimAt EXCEPT ![new] = new]
  BY DEF Store
<1>3. CitesNext(claimAt'[new], docOf'[new])
  BY <1>1, <1>2 DEF CitesNext, Consistent, TypeOK
<1>4. ASSUME NEW x \in Rows
      PROVE  CitesNext(claimAt'[x], docOf'[x])
  <2>1. x # new /\ docOf'[x] = docOf[x] /\ claimAt'[x] = claimAt[x]
    BY <1>1, <1>2, <1>4 DEF Consistent, TypeOK, Rows
  <2>2. PICK y \in Event : linkAt[y] = claimAt[x] /\ docOf[y] = docOf[x]
    BY <1>4, BackedCites DEF Cites
  <2>3. y # new
    BY <1>1, <1>4, <2>2, NoEventFresh DEF Consistent, Blanks, Rows
  <2>4. linkAt'[y] = claimAt'[x] /\ docOf'[y] = docOf'[x]
    BY <1>2, <2>1, <2>2, <2>3 DEF Consistent, TypeOK
  <2> QED
    BY <2>4 DEF CitesNext
<1> QED
  BY <1>1, <1>3, <1>4, BackedCites

LEMMA NextKeepsBacking == Consistent /\ ClaimsBacked /\ [Next]_vars => ClaimsBacked'
<1> SUFFICES ASSUME Consistent, ClaimsBacked, [Next]_vars PROVE ClaimsBacked'
  OBVIOUS
<1>1. ASSUME NEW a \in Attr, NEW d \in Doc, SaveCandidate(a, d) \/ ManualIngest(a, d)
      PROVE  ClaimsBacked'
  BY <1>1, StoreKeepsBacking DEF SaveCandidate, ManualIngest
<1>2. ASSUME NEW s \in Event, NEW t \in Event, NEW a \in Attr, MergeEvents(s, t, a)
      PROVE  ClaimsBacked'
  <2>1. /\ s \in Rows /\ t \in Rows /\ s # t
        /\ linkAt' = MovedLinks(s, t) /\ claimAt' = MovedClaims(s, t)
        /\ docOf' = docOf
    BY <1>2 DEF MergeEvents
  <2>2. Rows' = Rows
    BY <1>2 DEF MergeEvents, Consistent, TypeOK, Rows
  <2>3. ASSUME NEW x \in Rows
        PROVE  CitesNext(claimAt'[x], docOf'[x])
    <3>1. Cites(claimAt[x], docOf[x]) /\ claimAt[x] \in Event
      BY <2>3, BackedCites DEF Consistent, Blanks, Rows
    <3>2. claimAt'[x] = IF claimAt[x] = s THEN t ELSE claimAt[x]
      BY <2>1, <2>3 DEF MovedClaims, Rows
    <3> QED
      BY <2>1, <3>1, <3>2, MergeKeepsCitations DEF CitesBy, CitesNext
  <2> QED
    BY <2>2, <2>3, BackedCites
<1>3. ASSUME UNCHANGED evidence, Rows' = Rows
      PROVE  ClaimsBacked'
  BY <1>3, BackedCites DEF evidence, Cites, CitesNext
<1>4. ASSUME NEW e \in Event, NEW new \in PatchStatuses, PatchStatus(e, new)
      PROVE  Rows' = Rows
  <2>1. new # "absent"
    BY ConstantsAssumption DEF Statuses, Live
  <2> QED
    BY <1>4, <2>1 DEF PatchStatus, Consistent, TypeOK, Rows
<1>5. ASSUME UNCHANGED status
      PROVE  Rows' = Rows
  BY <1>5 DEF Rows
<1> QED
  BY <1>1, <1>2, <1>3, <1>4, <1>5
     DEF Next, vars, FlagDuplicate, ClearDuplicate, RetroactiveScan, PatchStatus

\* However often an event is merged onwards, its claims are found at an event
\* that links the document they were extracted from.
THEOREM ClaimsStayBacked == Spec => []ClaimsBacked
<1>1. Init => ClaimsBacked
  BY DEF Init, ClaimsBacked, Rows
<1> QED
  BY <1>1, NextKeepsBacking, InitConsistent, NextConsistent, PTL DEF Spec

\* Hence no merge loses the last link to a source document.
THEOREM EvidenceStaysLinked == Spec => []EvidenceKept
<1>1. Consistent /\ ClaimsBacked => EvidenceKept
  BY NoEventFresh DEF Consistent, Blanks, ClaimsBacked, EvidenceKept, Linked, Rows
<1>2. Spec => []Consistent
  BY InitConsistent, NextConsistent, PTL DEF Spec
<1> QED
  BY <1>1, <1>2, ClaimsStayBacked, PTL

\* possible_duplicate is only ever set together with a target.
THEOREM FlagsHaveTargets == Spec => []FlagHasTarget
<1>1. Init => FlagHasTarget
  BY DEF Init, FlagHasTarget
<1>2. Consistent /\ FlagHasTarget /\ [Next]_vars => FlagHasTarget'
  <2> SUFFICES ASSUME Consistent, FlagHasTarget, [Next]_vars, NEW e \in Event
               PROVE  flagged'[e] => dupOf'[e] # NoEvent
    BY DEF FlagHasTarget
  <2> USE DEF Consistent, TypeOK, FlagHasTarget
  <2>1. ASSUME NEW a \in Attr, NEW d \in Doc, SaveCandidate(a, d)
        PROVE  flagged'[e] => dupOf'[e] # NoEvent
    BY <2>1 DEF SaveCandidate
  <2>2. ASSUME NEW s \in Event, NEW t \in Event, NEW a \in Attr, MergeEvents(s, t, a)
        PROVE  flagged'[e] => dupOf'[e] # NoEvent
    BY <2>2, NoEventFresh DEF MergeEvents, Repointed, MergeFlags
  <2>3. ASSUME RetroactiveScan
        PROVE  flagged'[e] => dupOf'[e] # NoEvent
    BY <2>3 DEF RetroactiveScan, ScanOutcome
  <2>4. ASSUME NEW x \in Event, NEW c \in Event, FlagDuplicate(x, c)
        PROVE  flagged'[e] => dupOf'[e] # NoEvent
    BY <2>4, NoEventFresh DEF FlagDuplicate
  <2>5. ASSUME NEW x \in Event, ClearDuplicate(x)
        PROVE  flagged'[e] => dupOf'[e] # NoEvent
    BY <2>5 DEF ClearDuplicate
  <2>6. CASE UNCHANGED <<dupOf, flagged>>
    BY <2>6
  <2> QED
    BY <2>1, <2>2, <2>3, <2>4, <2>5, <2>6 DEF Next, vars, ManualIngest, PatchStatus
<1> QED
  BY <1>1, <1>2, InitConsistent, NextConsistent, PTL DEF Spec
-------------------------------------------------------------------------------
(* The retroactive scan.                                                   *)

\* A non-empty set of natural numbers has a least element.
LEMMA Least == ASSUME NEW T, T \subseteq Nat, T # {} PROVE \E n \in T : \A m \in T : n <= m
<1> DEFINE R == OpToRel(<, Nat)
<1>1. IsWellFoundedOn(R, Nat)
  BY NatLessThanWellFounded
<1>2. \A m, n \in Nat : <<m, n>> \in R <=> m < n
  BY DEF OpToRel
<1> HIDE DEF R
<1>3. PICK n \in T : \A m \in T : ~(<<m, n>> \in R)
  BY <1>1, WFMin
<1>4. \A m \in T : m \in Nat /\ n \in Nat /\ ~(m < n)
  BY <1>2, <1>3
<1> QED
  BY <1>3, <1>4

LEMMA EventsAreNumbers == Event \subseteq Nat /\ MaxEvents \in Nat
  BY ConstantsAssumption DEF Event

\* The scan has one place to point an event at.
LEMMA ScanTargetSingle ==
    ASSUME NEW e, NEW d
    PROVE  /\ ScanTarget(d, e) # {}
           /\ \A x, y \in ScanTarget(d, e) : x = y
<1> DEFINE prior == {c \in Scanned : /\ c < e
                                     /\ IsRoot(NoEvent, d, c)
                                     /\ <<attr[e], attr[c]>> \in Located}
           best == Matches(prior, attr[e])
<1>1. best \subseteq Event
  BY DEF Matches, Scanned, Rows
<1>2. ScanTarget(d, e) = IF attr[e] \in Blank \/ best = {} THEN {NoEvent}
                         ELSE {c \in best : \A x \in best : c <= x}
  BY DEF ScanTarget
<1> HIDE DEF best
<1>3. CASE attr[e] \in Blank \/ best = {}
  BY <1>2, <1>3
<1>4. CASE ~(attr[e] \in Blank \/ best = {})
  <2>1. best \subseteq Nat
    BY <1>1, EventsAreNumbers
  <2>2. \E c \in best : \A x \in best : c <= x
    BY <1>4, <2>1, Least
  <2>3. \A x, y \in ScanTarget(d, e) : x \in Nat /\ y \in Nat /\ x <= y /\ y <= x
    BY <1>2, <1>4, <2>1
  <2>4. \A x, y \in ScanTarget(d, e) : x = y
    BY <2>3
  <2> QED
    BY <1>2, <1>4, <2>2, <2>4
<1> QED
  BY <1>3, <1>4

\* It looks at the pointers of earlier events only.
LEMMA ScanTargetLooksBack ==
    ASSUME NEW e \in Event, NEW d, NEW f, \A c \in Event : c < e => d[c] = f[c]
    PROVE  ScanTarget(d, e) = ScanTarget(f, e)
<1>1. {c \in Scanned : /\ c < e
                       /\ IsRoot(NoEvent, d, c)
                       /\ <<attr[e], attr[c]>> \in Located}
      = {c \in Scanned : /\ c < e
                         /\ IsRoot(NoEvent, f, c)
                         /\ <<attr[e], attr[c]>> \in Located}
  BY DEF Scanned, Rows, IsRoot
<1> QED
  BY <1>1 DEF ScanTarget

\* The loop, as the pointers after each of its turns.
Turns(f, n) == f = [k \in 0..n |-> IF k = 0 THEN dupOf ELSE ScanTurn(f[k - 1], k)]

LEMMA TurnsExist == \A n \in Nat : \E f : Turns(f, n)
<1> TAKE n \in Nat
<1> DEFINE T == {m \in Nat : ~ \E f : Turns(f, m)}
<1> SUFFICES ASSUME T # {} PROVE FALSE
  OBVIOUS
<1>1. PICK m \in T : \A k \in T : m <= k
  BY Least
<1>2. m # 0
  <2>1. PICK f : f = [k \in 0..0 |-> dupOf]
    OBVIOUS
  <2>2. f = [k \in 0..0 |-> IF k = 0 THEN dupOf ELSE ScanTurn(f[k - 1], k)]
    BY <2>1
  <2> QED
    BY <2>2, <1>1 DEF Turns
<1>3. m - 1 \in Nat /\ m \in Nat /\ m - 1 \notin T
  <2>1. m \in Nat
    BY <1>1
  <2> HIDE DEF T
  <2> QED
    BY <1>1, <1>2, <2>1
<1>4. PICK f : Turns(f, m - 1)
  BY <1>3
<1>5. PICK g : g = [k \in 0..m |-> IF k = m THEN ScanTurn(f[m - 1], m) ELSE f[k]]
  OBVIOUS
<1>6. \A k \in 0..m : g[k] = IF k = 0 THEN dupOf ELSE ScanTurn(g[k - 1], k)
  <2> TAKE k \in 0..m
  <2> HIDE DEF T
  <2>1. CASE k = 0
    BY <2>1, <1>2, <1>3, <1>4, <1>5 DEF Turns
  <2>2. CASE k = m
    BY <2>2, <1>2, <1>3, <1>5
  <2>3. CASE k # 0 /\ k # m
    BY <2>3, <1>3, <1>4, <1>5 DEF Turns
  <2> QED
    BY <2>1, <2>2, <2>3
<1>7. Turns(g, m)
  BY <1>5, <1>6, <1>3 DEF Turns
<1> QED
  BY <1>1, <1>7

LEMMA LoopTurns ==
    /\ ScanLoop[0] = dupOf
    /\ \A n \in 1..MaxEvents : ScanLoop[n] = ScanTurn(ScanLoop[n - 1], n)
<1>1. PICK f : f = CHOOSE g : Turns(g, MaxEvents)
  OBVIOUS
<1>2. Turns(f, MaxEvents)
  BY <1>1, TurnsExist, EventsAreNumbers
<1>3. ScanLoop = f
  BY <1>1 DEF ScanLoop, Turns
<1> QED
  BY <1>2, <1>3, EventsAreNumbers DEF Turns

\* A turn writes the pointer of its event, and no later turn writes it again: after turn n,
\* the events up to n are where the scan wants them, and the others where they were.
LEMMA LoopSettles ==
    ASSUME TypeOK
    PROVE  \A n \in 0..MaxEvents :
              /\ ScanLoop[n] \in [Event -> Event \cup {NoEvent}]
              /\ \A e \in Event : IF e <= n /\ e \in Scanned
                                  THEN ScanLoop[n][e] \in ScanTarget(ScanLoop[n], e)
                                  ELSE ScanLoop[n][e] = dupOf[e]
<1> DEFINE Settled(n) ==
              /\ ScanLoop[n] \in [Event -> Event \cup {NoEvent}]
              /\ \A e \in Event : IF e <= n /\ e \in Scanned
                                  THEN ScanLoop[n][e] \in ScanTarget(ScanLoop[n], e)
                                  ELSE ScanLoop[n][e] = dupOf[e]
           T == {n \in 0..MaxEvents : ~Settled(n)}
<1>1. Settled(0)
  <2>1. \A e \in Event : ~(e <= 0)
    BY ConstantsAssumption DEF Event
  <2>2. dupOf \in [Event -> Event \cup {NoEvent}]
    BY DEF TypeOK, Rows
  <2> QED
    BY <2>1, <2>2, LoopTurns
<1>2. ASSUME NEW n \in 1..MaxEvents, Settled(n - 1) PROVE Settled(n)
  <2> PICK d, f : d = ScanLoop[n - 1] /\ f = ScanLoop[n]
    OBVIOUS
  <2>1. f = ScanTurn(d, n) /\ n \in Event /\ n \in Nat
    BY LoopTurns, EventsAreNumbers DEF Event
  <2>2. d \in [Event -> Event \cup {NoEvent}]
    BY <1>2
  <2>3. \A e \in Event : e # n => f[e] = d[e]
    BY <2>1, <2>2 DEF ScanTurn
  <2>4. n \in Scanned => f[n] \in ScanTarget(d, n)
    BY <2>1, <2>2, ScanTargetSingle DEF ScanTurn
  <2>5. n \notin Scanned => f = d
    BY <2>1 DEF ScanTurn
  <2>6. f \in [Event -> Event \cup {NoEvent}]
    <3>1. n \in Scanned => f[n] \in Event \cup {NoEvent}
      BY <2>4, ScanTargetIsRoot DEF Scanned, Rows
    <3>2. f = [d EXCEPT ![n] = f[n]]
      BY <2>1, <2>2 DEF ScanTurn
    <3>3. n \notin Scanned => f[n] \in Event \cup {NoEvent}
      BY <2>1, <2>2, <2>5
    <3> QED
      BY <2>2, <3>1, <3>2, <3>3
  <2>7. ASSUME NEW e \in Event
        PROVE  IF e <= n /\ e \in Scanned THEN f[e] \in ScanTarget(f, e) ELSE f[e] = dupOf[e]
    <3>1. e \in Nat
      BY EventsAreNumbers
    <3>2. e <= n => ScanTarget(f, e) = ScanTarget(d, e)
      <4>1. \A c \in Event : c \in Nat
        BY EventsAreNumbers
      <4>2. e <= n => \A c \in Event : c < e => c # n
        BY <2>1, <3>1, <4>1
      <4> QED
        BY <2>3, <4>2, ScanTargetLooksBack
    <3>3. IF e <= n - 1 /\ e \in Scanned THEN d[e] \in ScanTarget(d, e) ELSE d[e] = dupOf[e]
      BY <1>2
    <3>4. CASE e = n
      <4>1. ~(e <= n - 1) /\ e <= n
        BY <2>1, <3>4
      <4> QED
        BY <2>1, <2>4, <2>5, <3>2, <3>3, <3>4, <4>1
    <3>5. CASE e # n
      <4>1. e <= n - 1 <=> e <= n
        BY <2>1, <3>1, <3>5
      <4> QED
        BY <2>3, <3>2, <3>3, <3>5, <4>1
    <3> QED
      BY <3>4, <3>5
  <2> QED
    BY <2>6, <2>7
<1>3. T = {}
  <2> SUFFICES ASSUME T # {} PROVE FALSE
    OBVIOUS
  <2>1. T \subseteq Nat
    BY EventsAreNumbers
  <2>2. PICK n \in T : \A m \in T : n <= m
    BY <2>1, Least
  <2>3. n \in 0..MaxEvents /\ ~Settled(n)
    BY <2>2
  <2> HIDE DEF Settled
  <2>4. n # 0
    BY <1>1, <2>3
  <2>5. n \in 1..MaxEvents /\ n - 1 \in 0..MaxEvents /\ ~(n <= n - 1)
    BY <2>3, <2>4, EventsAreNumbers
  <2>6. ~Settled(n - 1)
    BY <1>2, <2>3, <2>5
  <2>7. n - 1 \in T
    BY <2>5, <2>6
  <2> QED
    BY <2>2, <2>5, <2>7
<1> QED
  BY <1>3

\* One pass of the retroactive scan has one outcome, the one that is stated event by event:
\* no event is pointed at one that the same pass makes a duplicate later on.
THEOREM ScanSettlesInOnePass == Spec => []ScanLoopAgrees
<1>1. TypeOK => ScanLoopAgrees
  <2> SUFFICES ASSUME TypeOK, NEW d \in [Event -> Event \cup {NoEvent}]
               PROVE  ScanOutcome(d) <=> d = ScanLoop[MaxEvents]
    BY DEF ScanLoopAgrees
  <2> PICK f : f = ScanLoop[MaxEvents]
    OBVIOUS
  <2>1. /\ f \in [Event -> Event \cup {NoEvent}]
        /\ \A e \in Event : IF e \in Scanned THEN f[e] \in ScanTarget(f, e) ELSE f[e] = dupOf[e]
    <3>1. MaxEvents \in 0..MaxEvents /\ \A e \in Event : e <= MaxEvents
      BY EventsAreNumbers DEF Event
    <3> QED
      BY <3>1, LoopSettles
  <2>2. ScanOutcome(f)
    BY <2>1 DEF ScanOutcome
  <2>3. ASSUME ScanOutcome(d) PROVE d = f
    <3> DEFINE T == {e \in Event : d[e] # f[e]}
    <3> SUFFICES ASSUME T # {} PROVE FALSE
      BY <2>1
    <3>1. T \subseteq Nat
      BY EventsAreNumbers
    <3>2. PICK e \in T : \A c \in T : e <= c
      BY <3>1, Least
    <3>3. e \in Event /\ d[e] # f[e]
      BY <3>2
    <3>4. \A c \in Event : c < e => d[c] = f[c]
      <4>1. \A c \in Event : c < e => ~(e <= c)
        BY <3>3, EventsAreNumbers
      <4> QED
        BY <3>2, <4>1
    <3>5. ScanTarget(d, e) = ScanTarget(f, e)
      BY <3>3, <3>4, ScanTargetLooksBack
    <3>6. CASE e \in Scanned
      BY <2>1, <2>3, <3>3, <3>5, <3>6, ScanTargetSingle DEF ScanOutcome
    <3>7. CASE e \notin Scanned
      BY <2>1, <2>3, <3>3, <3>7 DEF ScanOutcome
    <3> QED
      BY <3>6, <3>7
  <2> QED
    BY <2>2, <2>3
<1> QED
  BY <1>1, TypeCorrect, PTL
-------------------------------------------------------------------------------
(* Concurrent requests, as long as one administrator acts: what a request  *)
(* of the administrator is about to write stays right whatever the others  *)
(* commit meanwhile, because they only insert rows that it has not seen.   *)

OneAdmin == \A r, s \in Admin : r = s

\* Columns that a request may turn the committed ones into.
Revises(newStatus, newAttr, newDup, newFlags, newLinks, newClaims) ==
    /\ newStatus \in [Event -> Statuses \cup {"absent"}]
    /\ newAttr \in [Event -> Attr] /\ newFlags \in [Event -> BOOLEAN]
    /\ newDup \in [Event -> Rows \cup {NoEvent}]
    /\ newLinks \in [Event -> Rows \cup {NoEvent}] /\ newClaims \in [Event -> Rows \cup {NoEvent}]
    /\ \A e \in Event \ Rows :
          /\ newStatus[e] = "absent" /\ newAttr[e] = attr[e] /\ newDup[e] = NoEvent
          /\ newFlags[e] = flagged[e] /\ newLinks[e] = NoEvent /\ newClaims[e] = NoEvent
    /\ \A e \in Rows : newStatus[e] # "absent" /\ newClaims[e] \in Rows
    /\ \A x \in Rows : CitesBy(newLinks, newClaims[x], docOf[x])

\* What an administrator's request is about to write.
AdminOps == {"flag", "clear", "merge", "patch", "scan"}
Revision(r) ==
    /\ r.op \in AdminOps
    /\ UNION {DOMAIN r.status, DOMAIN r.attr, DOMAIN r.dupOf, DOMAIN r.flagged,
              DOMAIN r.linkAt, DOMAIN r.claimAt} \subseteq Rows
    /\ DOMAIN r.docOf = {}
    /\ Revises(Written(r.status, status), Written(r.attr, attr), Written(r.dupOf, dupOf),
               Written(r.flagged, flagged), Written(r.linkAt, linkAt), Written(r.claimAt, claimAt))

\* A save or a manual ingest is about to insert row n.
Inserts(r, n) == r.op \in {"save", "manual"} /\ n \in DOMAIN r.status

\* Row n as a save or a manual ingest is about to insert it; the event it points at may
\* have become a duplicate itself.
Insertion(r, n) ==
    /\ r.op \in {"save", "manual"}
    /\ n \in Event \ Rows /\ n <= created
    /\ \E a \in Attr, d \in Doc, target \in Rows \cup {NoEvent} :
          /\ r.status = [x \in {n} |-> "candidate"] /\ r.attr = [x \in {n} |-> a]
          /\ r.dupOf = [x \in {n} |-> target] /\ r.flagged = [x \in {n} |-> target # NoEvent]
          /\ r.docOf = [x \in {n} |-> d]
          /\ r.linkAt = [x \in {n} |-> n] /\ r.claimAt = [x \in {n} |-> n]

Pending ==
    /\ txn = [s \in Session |-> txn[s]]
    /\ \A s \in Session : \/ txn[s] = NoTxn
                          \/ s \in Admin /\ Revision(txn[s])
                          \/ \E n \in Event : Insertion(txn[s], n)
    /\ \A s, t \in Session : \A n \in Event :
          Inserts(txn[s], n) /\ Inserts(txn[t], n) => s = t

Sound == Consistent /\ ClaimsBacked
SessionsInv == Sound /\ Pending

\* Writing the entries that differ gives what was meant.
LEMMA DirtyWritten ==
    ASSUME NEW S, NEW f \in [Event -> S], NEW g \in [Event -> S], NEW R,
           \A e \in Event \ R : f[e] = g[e]
    PROVE  Written(Dirty(f, g), f) = g /\ DOMAIN Dirty(f, g) \subseteq R
BY DEF Written, Dirty

\* A new row is backed by its own link.
LEMMA InsertionSound ==
    ASSUME Sound, NEW n \in Event \ Rows, n <= created, created \in Nat, UNCHANGED created,
           NEW a \in Attr, NEW d \in Doc, NEW target \in Rows \cup {NoEvent},
           status' = [status EXCEPT ![n] = "candidate"], attr' = [attr EXCEPT ![n] = a],
           dupOf' = [dupOf EXCEPT ![n] = target],
           flagged' = [flagged EXCEPT ![n] = target # NoEvent],
           docOf' = [docOf EXCEPT ![n] = d],
           linkAt' = [linkAt EXCEPT ![n] = n], claimAt' = [claimAt EXCEPT ![n] = n]
    PROVE  Sound' /\ Rows' = Rows \cup {n}
<1>1. Rows' = Rows \cup {n}
  BY DEF Sound, Consistent, TypeOK, Rows
<1>2. TypeOK'
  <2>1. status' \in [Event -> Statuses \cup {"absent"}] /\ attr' \in [Event -> Attr]
    BY DEF Sound, Consistent, TypeOK, Statuses, Live
  <2>2. \A e \in Rows' : e <= created'
    BY <1>1 DEF Sound, Consistent, TypeOK
  <2>3. dupOf' \in [Event -> Rows' \cup {NoEvent}] /\ flagged' \in [Event -> BOOLEAN]
    BY <1>1 DEF Sound, Consistent, TypeOK
  <2>4. linkAt' \in [Event -> Rows' \cup {NoEvent}] /\ claimAt' \in [Event -> Rows' \cup {NoEvent}]
    BY <1>1 DEF Sound, Consistent, TypeOK
  <2>5. docOf' \in [Event -> Doc] /\ created' \in 0..MaxEvents
    BY DEF Sound, Consistent, TypeOK
  <2> QED
    BY <2>1, <2>2, <2>3, <2>4, <2>5 DEF TypeOK
<1>3. Blanks'
  BY <1>1 DEF Sound, Consistent, TypeOK, Blanks
<1>4. ClaimsBacked'
  <2>1. CitesNext(claimAt'[n], docOf'[n])
    BY DEF CitesNext, Sound, Consistent, TypeOK
  <2>2. ASSUME NEW x \in Rows PROVE CitesNext(claimAt'[x], docOf'[x])
    <3>1. x # n /\ docOf'[x] = docOf[x] /\ claimAt'[x] = claimAt[x] /\ claimAt[x] # NoEvent
      BY <2>2, NoEventFresh DEF Sound, Consistent, TypeOK, Blanks, Rows
    <3>2. PICK y \in Event : linkAt[y] = claimAt[x] /\ docOf[y] = docOf[x]
      BY <2>2, BackedCites DEF Cites, Sound
    <3>3. y # n
      BY <3>1, <3>2 DEF Sound, Consistent, Blanks
    <3>4. linkAt'[y] = claimAt'[x] /\ docOf'[y] = docOf'[x]
      BY <3>1, <3>2, <3>3 DEF Sound, Consistent, TypeOK
    <3> QED
      BY <3>4 DEF CitesNext
  <2> QED
    BY <1>1, <2>1, <2>2, BackedCites
<1> QED
  BY <1>1, <1>2, <1>3, <1>4 DEF Sound, Consistent

\* The columns of a revision leave a registry as sound as it was.
LEMMA RevisionSound ==
    ASSUME Sound, Revises(status', attr', dupOf', flagged', linkAt', claimAt'),
           UNCHANGED <<created, docOf>>
    PROVE  Sound' /\ Rows' = Rows
<1>1. Rows' = Rows
  BY DEF Revises, Rows
<1>2. TypeOK' /\ Blanks'
  BY <1>1 DEF Revises, Sound, Consistent, TypeOK, Blanks
<1>3. ClaimsBacked'
  BY <1>1, BackedCites DEF Revises, CitesBy, CitesNext
<1> QED
  BY <1>1, <1>2, <1>3 DEF Sound, Consistent

\* A revision stays one when somebody else inserts a row.
LEMMA RevisionStays ==
    ASSUME Sound, NEW n \in Event \ Rows, NEW r, Revision(r),
           NEW a \in Attr, NEW d \in Doc, NEW target \in Rows \cup {NoEvent},
           Rows' = Rows \cup {n},
           status' = [status EXCEPT ![n] = "candidate"], attr' = [attr EXCEPT ![n] = a],
           dupOf' = [dupOf EXCEPT ![n] = target],
           flagged' = [flagged EXCEPT ![n] = target # NoEvent],
           docOf' = [docOf EXCEPT ![n] = d],
           linkAt' = [linkAt EXCEPT ![n] = n], claimAt' = [claimAt EXCEPT ![n] = n]
    PROVE  Revision(r)'
<1> PICK st, at, du, fl, li, cl :
       /\ st = Written(r.status, status) /\ at = Written(r.attr, attr)
       /\ du = Written(r.dupOf, dupOf) /\ fl = Written(r.flagged, flagged)
       /\ li = Written(r.linkAt, linkAt) /\ cl = Written(r.claimAt, claimAt)
  OBVIOUS
<1>1. Revises(st, at, du, fl, li, cl)
  BY DEF Revision
<1>2. /\ n \notin DOMAIN r.status /\ n \notin DOMAIN r.attr /\ n \notin DOMAIN r.dupOf
      /\ n \notin DOMAIN r.flagged /\ n \notin DOMAIN r.linkAt /\ n \notin DOMAIN r.claimAt
  BY DEF Revision
<1>3. TypeOK
  BY DEF Sound, Consistent
<1>4. /\ Written(r.status, status') = [st EXCEPT ![n] = "candidate"]
      /\ Written(r.attr, attr') = [at EXCEPT ![n] = a]
      /\ Written(r.dupOf, dupOf') = [du EXCEPT ![n] = target]
      /\ Written(r.flagged, flagged') = [fl EXCEPT ![n] = target # NoEvent]
      /\ Written(r.linkAt, linkAt') = [li EXCEPT ![n] = n]
      /\ Written(r.claimAt, claimAt') = [cl EXCEPT ![n] = n]
  <2>1. Written(r.status, status') = [st EXCEPT ![n] = "candidate"]
    <3>1. status \in [Event -> Statuses \cup {"absent"}]
      BY <1>3 DEF TypeOK
    <3> QED
      BY <1>2, <3>1 DEF Written
  <2>2. Written(r.attr, attr') = [at EXCEPT ![n] = a]
    <3>1. attr \in [Event -> Attr]
      BY <1>3 DEF TypeOK
    <3> QED
      BY <1>2, <3>1 DEF Written
  <2>3. Written(r.dupOf, dupOf') = [du EXCEPT ![n] = target]
    <3>1. dupOf \in [Event -> Rows \cup {NoEvent}]
      BY <1>3 DEF TypeOK
    <3> QED
      BY <1>2, <3>1 DEF Written
  <2>4. Written(r.flagged, flagged') = [fl EXCEPT ![n] = target # NoEvent]
    <3>1. flagged \in [Event -> BOOLEAN]
      BY <1>3 DEF TypeOK
    <3> QED
      BY <1>2, <3>1 DEF Written
  <2>5. Written(r.linkAt, linkAt') = [li EXCEPT ![n] = n]
    <3>1. linkAt \in [Event -> Rows \cup {NoEvent}]
      BY <1>3 DEF TypeOK
    <3> QED
      BY <1>2, <3>1 DEF Written
  <2>6. Written(r.claimAt, claimAt') = [cl EXCEPT ![n] = n]
    <3>1. claimAt \in [Event -> Rows \cup {NoEvent}]
      BY <1>3 DEF TypeOK
    <3> QED
      BY <1>2, <3>1 DEF Written
  <2> QED
    BY <2>1, <2>2, <2>3, <2>4, <2>5, <2>6
<1>5. PICK st1, at1, du1, fl1, li1, cl1 :
         /\ st1 = [st EXCEPT ![n] = "candidate"] /\ at1 = [at EXCEPT ![n] = a]
         /\ du1 = [du EXCEPT ![n] = target] /\ fl1 = [fl EXCEPT ![n] = target # NoEvent]
         /\ li1 = [li EXCEPT ![n] = n] /\ cl1 = [cl EXCEPT ![n] = n]
  OBVIOUS
<1>6. /\ st1 \in [Event -> Statuses \cup {"absent"}]
      /\ at1 \in [Event -> Attr] /\ fl1 \in [Event -> BOOLEAN]
      /\ du1 \in [Event -> Rows' \cup {NoEvent}]
      /\ li1 \in [Event -> Rows' \cup {NoEvent}] /\ cl1 \in [Event -> Rows' \cup {NoEvent}]
  BY <1>1, <1>5 DEF Revises, Statuses, Live
<1>7. \A e \in Event \ Rows' :
         /\ st1[e] = "absent" /\ at1[e] = attr'[e] /\ du1[e] = NoEvent
         /\ fl1[e] = flagged'[e] /\ li1[e] = NoEvent /\ cl1[e] = NoEvent
  BY <1>1, <1>3, <1>5 DEF Revises, TypeOK
<1>8. \A e \in Rows' : st1[e] # "absent" /\ cl1[e] \in Rows'
  BY <1>1, <1>5 DEF Revises, Rows
<1>9. \A x \in Rows' : \E y \in Event : li1[y] = cl1[x] /\ docOf'[y] = docOf'[x]
  <2>1. li1[n] = cl1[n]
    BY <1>1, <1>5 DEF Revises
  <2>2. ASSUME NEW x \in Rows PROVE \E y \in Event : li1[y] = cl1[x] /\ docOf'[y] = docOf'[x]
    <3>1. PICK y \in Event : li[y] = cl[x] /\ docOf[y] = docOf[x]
      BY <1>1 DEF Revises, CitesBy
    <3>2. cl[x] # NoEvent /\ x # n /\ x \in Event
      BY <1>1, NoEventFresh DEF Revises, Rows
    <3>3. y # n
      BY <1>1, <3>1, <3>2 DEF Revises
    <3> QED
      BY <1>1, <1>3, <1>5, <3>1, <3>2, <3>3 DEF Revises, TypeOK
  <2> QED
    BY <2>1, <2>2
<1>10. Revises(st1, at1, du1, fl1, li1, cl1)'
  BY <1>6, <1>7, <1>8, <1>9 DEF Revises, CitesBy
<1> QED
  BY <1>4, <1>5, <1>10 DEF Revision

\* So does an insertion, when somebody else commits another one or a revision.
LEMMA InsertionStays ==
    ASSUME NEW n \in Event, NEW r, Insertion(r, n), created \in Nat, created' \in Nat,
           created <= created', Rows \subseteq Rows', n \notin Rows'
    PROVE  Insertion(r, n)'
<1>1. n \in Nat
  BY EventsAreNumbers
<1>2. n <= created'
  BY <1>1 DEF Insertion
<1> QED
  BY <1>2 DEF Insertion

LEMMA InsertionInserts ==
    ASSUME NEW r, NEW n, Insertion(r, n)
    PROVE  Inserts(r, n) /\ \A m : Inserts(r, m) => m = n
BY DEF Insertion, Inserts

\* Those that revise rows, or do nothing, insert none.
LEMMA OthersInsertNone ==
    ASSUME NEW r, r = NoTxn \/ Revision(r), NEW n
    PROVE  ~Inserts(r, n)
BY DEF NoTxn, Revision, AdminOps, Inserts

\* A session has begun or ended a request, and the others keep what they hold.
LEMMA Replaced ==
    ASSUME Pending, NEW s \in Session, NEW q, txn' = [txn EXCEPT ![s] = q],
           q = NoTxn \/ (s \in Admin /\ Revision(q)') \/ \E n \in Event : Insertion(q, n)',
           \A t \in Session \ {s} : \/ txn[t] = NoTxn
                                    \/ t \in Admin /\ Revision(txn[t])'
                                    \/ \E n \in Event : Insertion(txn[t], n)',
           \A t \in Session \ {s} : \A n \in Event : ~(Inserts(q, n) /\ Inserts(txn[t], n))
    PROVE  Pending'
<1> PICK x : x = txn'
  OBVIOUS
<1>1. x = [t \in Session |-> x[t]] /\ x[s] = q /\ \A t \in Session \ {s} : x[t] = txn[t]
  BY DEF Pending
<1>2. \A t \in Session : \/ x[t] = NoTxn
                         \/ t \in Admin /\ Revision(x[t])'
                         \/ \E n \in Event : Insertion(x[t], n)'
  BY <1>1
<1>3. \A t, u \in Session : \A n \in Event : Inserts(x[t], n) /\ Inserts(x[u], n) => t = u
  BY <1>1 DEF Pending
<1> QED
  BY <1>1, <1>2, <1>3 DEF Pending

\* One that has committed or rolled back holds nothing.
LEMMA Released ==
    ASSUME Pending, NEW s \in Session, txn' = [txn EXCEPT ![s] = NoTxn],
           \A t \in Session \ {s} : \/ txn[t] = NoTxn
                                    \/ t \in Admin /\ Revision(txn[t])'
                                    \/ \E n \in Event : Insertion(txn[t], n)'
    PROVE  Pending'
<1> PICK q : q = NoTxn
  OBVIOUS
<1>1. \A n : ~Inserts(q, n)
  BY OthersInsertNone
<1> QED
  BY <1>1, Replaced

\* The commit of an insertion.
LEMMA CommitInsertion ==
    ASSUME SessionsInv, NEW s \in Session, Commit(s), NEW n \in Event, Insertion(txn[s], n)
    PROVE  SessionsInv'
<1> PICK r : r = txn[s]
  OBVIOUS
<1>1. PICK a \in Attr, d \in Doc, target \in Rows \cup {NoEvent} :
         /\ r.status = [x \in {n} |-> "candidate"] /\ r.attr = [x \in {n} |-> a]
         /\ r.dupOf = [x \in {n} |-> target] /\ r.flagged = [x \in {n} |-> target # NoEvent]
         /\ r.docOf = [x \in {n} |-> d]
         /\ r.linkAt = [x \in {n} |-> n] /\ r.claimAt = [x \in {n} |-> n]
  BY DEF Insertion
<1>2. /\ status' = Written(r.status, status) /\ attr' = Written(r.attr, attr)
      /\ dupOf' = Written(r.dupOf, dupOf) /\ flagged' = Written(r.flagged, flagged)
      /\ docOf' = Written(r.docOf, docOf) /\ linkAt' = Written(r.linkAt, linkAt)
      /\ claimAt' = Written(r.claimAt, claimAt) /\ txn' = [txn EXCEPT ![s] = NoTxn]
      /\ UNCHANGED created
  BY DEF Commit
<1>3. TypeOK /\ Sound
  BY DEF SessionsInv, Sound, Consistent
<1>4. status' = [status EXCEPT ![n] = "candidate"]
  <2>1. status \in [Event -> Statuses \cup {"absent"}] BY <1>3 DEF TypeOK
  <2> QED BY <1>1, <1>2, <2>1 DEF Written
<1>5. attr' = [attr EXCEPT ![n] = a]
  <2>1. attr \in [Event -> Attr] BY <1>3 DEF TypeOK
  <2> QED BY <1>1, <1>2, <2>1 DEF Written
<1>6. dupOf' = [dupOf EXCEPT ![n] = target]
  <2>1. dupOf \in [Event -> Rows \cup {NoEvent}] BY <1>3 DEF TypeOK
  <2> QED BY <1>1, <1>2, <2>1 DEF Written
<1>7. flagged' = [flagged EXCEPT ![n] = target # NoEvent]
  <2>1. flagged \in [Event -> BOOLEAN] BY <1>3 DEF TypeOK
  <2> QED BY <1>1, <1>2, <2>1 DEF Written
<1>8. docOf' = [docOf EXCEPT ![n] = d]
  <2>1. docOf \in [Event -> Doc] BY <1>3 DEF TypeOK
  <2> QED BY <1>1, <1>2, <2>1 DEF Written
<1>9. linkAt' = [linkAt EXCEPT ![n] = n] /\ claimAt' = [claimAt EXCEPT ![n] = n]
  <2>1. linkAt \in [Event -> Rows \cup {NoEvent}] /\ claimAt \in [Event -> Rows \cup {NoEvent}]
    BY <1>3 DEF TypeOK
  <2>2. linkAt' = [linkAt EXCEPT ![n] = n] BY <1>1, <1>2, <2>1 DEF Written
  <2>3. claimAt' = [claimAt EXCEPT ![n] = n] BY <1>1, <1>2, <2>1 DEF Written
  <2> QED BY <2>2, <2>3
<1>10. n \in Event \ Rows /\ n <= created /\ created \in Nat /\ UNCHANGED created
  BY <1>2, <1>3, EventsAreNumbers DEF TypeOK, Insertion
<1>11. Sound' /\ Rows' = Rows \cup {n}
  BY <1>3, <1>4, <1>5, <1>6, <1>7, <1>8, <1>9, <1>10, InsertionSound
<1>12. ASSUME NEW t \in Session \ {s}
       PROVE  \/ txn[t] = NoTxn
              \/ t \in Admin /\ Revision(txn[t])'
              \/ \E m \in Event : Insertion(txn[t], m)'
  <2> PICK q : q = txn[t]
    OBVIOUS
  <2>1. ASSUME Revision(q) PROVE Revision(q)'
    <3>1. Rows' = Rows \cup {n} /\ n \in Event \ Rows BY <1>10, <1>11
    <3> QED BY <1>3, <1>4, <1>5, <1>6, <1>7, <1>8, <1>9, <2>1, <3>1, RevisionStays
  <2>2. ASSUME NEW m \in Event, Insertion(q, m) PROVE Insertion(q, m)'
    <3>1. Inserts(q, m) /\ Inserts(r, n)
      BY <2>2, InsertionInserts
    <3>2. m # n BY <1>12, <3>1 DEF SessionsInv, Pending
    <3>3. m \notin Rows BY <2>2 DEF Insertion
    <3>4. created' \in Nat /\ created <= created' BY <1>10
    <3> QED BY <1>10, <1>11, <2>2, <3>2, <3>3, <3>4, InsertionStays
  <2>3. q = NoTxn \/ (t \in Admin /\ Revision(q)) \/ \E m \in Event : Insertion(q, m)
    BY DEF SessionsInv, Pending
  <2>4. q = NoTxn \/ (t \in Admin /\ Revision(q)') \/ \E m \in Event : Insertion(q, m)'
    BY <2>1, <2>2, <2>3
  <2>5. txn'[t] = q BY <1>2 DEF SessionsInv, Pending
  <2> QED BY <2>4, <2>5
<1>13. Pending' BY <1>2, <1>12, Released DEF SessionsInv
<1> QED BY <1>11, <1>13 DEF SessionsInv

\* The commit of a revision: the only one, and the insertions under way stay out of reach.
LEMMA CommitRevision ==
    ASSUME OneAdmin, SessionsInv, NEW s \in Session, s \in Admin, Commit(s), Revision(txn[s])
    PROVE  SessionsInv'
<1> PICK r : r = txn[s]
  OBVIOUS
<1>1. /\ status' = Written(r.status, status) /\ attr' = Written(r.attr, attr)
      /\ dupOf' = Written(r.dupOf, dupOf) /\ flagged' = Written(r.flagged, flagged)
      /\ docOf' = Written(r.docOf, docOf) /\ linkAt' = Written(r.linkAt, linkAt)
      /\ claimAt' = Written(r.claimAt, claimAt) /\ txn' = [txn EXCEPT ![s] = NoTxn]
      /\ UNCHANGED created
  BY DEF Commit
<1>2. Revises(status', attr', dupOf', flagged', linkAt', claimAt')
  BY <1>1 DEF Revision
<1>3. docOf' = docOf
  <2>1. docOf \in [Event -> Doc] BY DEF SessionsInv, Sound, Consistent, TypeOK
  <2>2. DOMAIN r.docOf = {} BY DEF Revision
  <2> QED BY <1>1, <2>1, <2>2 DEF Written
<1>4. Sound' /\ Rows' = Rows
  BY <1>1, <1>2, <1>3, RevisionSound DEF SessionsInv
<1>5. created \in Nat /\ created' \in Nat /\ created <= created'
  BY <1>1, EventsAreNumbers DEF SessionsInv, Sound, Consistent, TypeOK
<1>6. ASSUME NEW t \in Session \ {s}
      PROVE  \/ txn[t] = NoTxn
             \/ t \in Admin /\ Revision(txn[t])'
             \/ \E m \in Event : Insertion(txn[t], m)'
  <2> PICK q : q = txn[t]
    OBVIOUS
  <2>1. t \notin Admin BY <1>6 DEF OneAdmin
  <2>2. ASSUME NEW m \in Event, Insertion(q, m) PROVE Insertion(q, m)'
    <3>1. m \notin Rows BY <2>2 DEF Insertion
    <3> QED BY <1>4, <1>5, <2>2, <3>1, InsertionStays
  <2>3. q = NoTxn \/ \E m \in Event : Insertion(q, m)
    BY <2>1 DEF SessionsInv, Pending
  <2>4. q = NoTxn \/ \E m \in Event : Insertion(q, m)'
    BY <2>2, <2>3
  <2>5. txn'[t] = q BY <1>1 DEF SessionsInv, Pending
  <2> QED BY <2>4, <2>5
<1>7. Pending' BY <1>1, <1>6, Released DEF SessionsInv
<1> QED BY <1>4, <1>7 DEF SessionsInv

\* As long as nothing is committed, ids may be handed out.
LEMMA NothingCommitted ==
    ASSUME Sound, UNCHANGED <<status, attr, dupOf, flagged, evidence>>,
           created' \in 0..MaxEvents, created <= created'
    PROVE  /\ Sound'
           /\ \A r : (Revision(r) => Revision(r)')
           /\ \A r : \A n \in Event : (Insertion(r, n) => Insertion(r, n)')
<1>1. UNCHANGED <<status, attr, dupOf, flagged, docOf, linkAt, claimAt>>
  BY DEF evidence
<1>2. Rows' = Rows BY <1>1 DEF Rows
<1>3. created \in Nat /\ created' \in Nat
  BY EventsAreNumbers DEF Sound, Consistent, TypeOK
<1>4. TypeOK'
  <2>1. \A e \in Rows' : e <= created'
    BY <1>2, <1>3, EventsAreNumbers DEF Sound, Consistent, TypeOK, Rows
  <2> QED BY <1>1, <1>2, <2>1 DEF Sound, Consistent, TypeOK
<1>5. Blanks'
  BY <1>1, <1>2 DEF Sound, Consistent, Blanks
<1>6. ClaimsBacked'
  BY <1>1, <1>2, BackedCites DEF Sound, Cites, CitesNext
<1>7. ASSUME NEW r, Revision(r) PROVE Revision(r)'
  BY <1>1, <1>2, <1>7 DEF Revision, Revises, CitesBy
<1>8. ASSUME NEW r, NEW n \in Event, Insertion(r, n) PROVE Insertion(r, n)'
  <2>1. n \notin Rows' BY <1>2, <1>8 DEF Insertion
  <2> QED BY <1>2, <1>3, <1>8, <2>1, InsertionStays
<1> QED BY <1>4, <1>5, <1>6, <1>7, <1>8 DEF Sound, Consistent

\* What the other sessions hold stays what it was.
LEMMA OthersSame ==
    ASSUME SessionsInv, UNCHANGED <<status, attr, dupOf, flagged, evidence>>,
           created' \in 0..MaxEvents, created <= created',
           NEW s \in Session, NEW q, txn' = [txn EXCEPT ![s] = q]
    PROVE  \A t \in Session \ {s} : \/ txn[t] = NoTxn
                                    \/ t \in Admin /\ Revision(txn[t])'
                                    \/ \E n \in Event : Insertion(txn[t], n)'
<1> TAKE t \in Session \ {s}
<1> PICK r : r = txn[t]
  OBVIOUS
<1>1. Revision(r) => Revision(r)' BY NothingCommitted DEF SessionsInv
<1>2. \A n \in Event : Insertion(r, n) => Insertion(r, n)' BY NothingCommitted DEF SessionsInv
<1>3. r = NoTxn \/ (t \in Admin /\ Revision(r)) \/ \E n \in Event : Insertion(r, n)
  BY DEF SessionsInv, Pending
<1>4. r = NoTxn \/ (t \in Admin /\ Revision(r)') \/ \E n \in Event : Insertion(r, n)'
  BY <1>1, <1>2, <1>3
<1>5. txn'[t] = r BY DEF SessionsInv, Pending
<1> QED BY <1>4, <1>5

LEMMA VarsSame ==
    ASSUME SessionsInv, UNCHANGED vars
    PROVE  /\ UNCHANGED <<status, attr, dupOf, flagged, evidence>>
           /\ created' \in 0..MaxEvents /\ created <= created'
BY EventsAreNumbers DEF SessionsInv, Sound, Consistent, TypeOK, vars

LEMMA RollbackInv ==
    ASSUME SessionsInv, NEW s \in Session, Rollback(s)
    PROVE  SessionsInv'
<1>1. txn' = [txn EXCEPT ![s] = NoTxn] /\ UNCHANGED vars BY DEF Rollback
<1> PICK q : q = NoTxn
  OBVIOUS
<1>2. \A t \in Session \ {s} : \/ txn[t] = NoTxn
                               \/ t \in Admin /\ Revision(txn[t])'
                               \/ \E n \in Event : Insertion(txn[t], n)'
  BY <1>1, VarsSame, OthersSame
<1>3. Sound' BY <1>1, VarsSame, NothingCommitted DEF SessionsInv
<1> QED BY <1>1, <1>2, <1>3, Released DEF SessionsInv

\* An administrator's request that has read a sound registry is about to write a revision.
LEMMA Prepared ==
    ASSUME SessionsInv, NEW s \in Admin, NEW op \in AdminOps, UNCHANGED vars,
           NEW nSt, NEW nAt, NEW nDu, NEW nFl, NEW nLi, NEW nCl,
           Revises(nSt, nAt, nDu, nFl, nLi, nCl),
           Prepare(s, op, nSt, nAt, nDu, nFl, docOf, nLi, nCl)
    PROVE  SessionsInv'
<1>1. Sound /\ TypeOK /\ Blanks /\ s \in Session
  BY DEF SessionsInv, Sound, Consistent, Session
<1> PICK dSt, dAt, dDu, dFl, dDo, dLi, dCl :
       /\ dSt = Dirty(status, nSt) /\ dAt = Dirty(attr, nAt) /\ dDu = Dirty(dupOf, nDu)
       /\ dFl = Dirty(flagged, nFl) /\ dDo = Dirty(docOf, docOf)
       /\ dLi = Dirty(linkAt, nLi) /\ dCl = Dirty(claimAt, nCl)
  OBVIOUS
<1> PICK St, Ev : St = Statuses \cup {"absent"} /\ Ev = Rows \cup {NoEvent}
  OBVIOUS
<1>2. Written(dSt, status) = nSt /\ DOMAIN dSt \subseteq Rows
  <2>1. /\ status \in [Event -> St]
        /\ nSt \in [Event -> St]
        /\ \A e \in Event \ Rows : status[e] = nSt[e]
    BY <1>1 DEF TypeOK, Revises, Rows
  <2> QED BY <2>1, DirtyWritten
<1>3. Written(dAt, attr) = nAt /\ DOMAIN dAt \subseteq Rows
  <2>1. attr \in [Event -> Attr] /\ nAt \in [Event -> Attr] /\ \A e \in Event \ Rows : attr[e] = nAt[e]
    BY <1>1 DEF TypeOK, Revises
  <2> QED BY <2>1, DirtyWritten
<1>4. Written(dDu, dupOf) = nDu /\ DOMAIN dDu \subseteq Rows
  <2>1. /\ dupOf \in [Event -> Ev] /\ nDu \in [Event -> Ev]
        /\ \A e \in Event \ Rows : dupOf[e] = nDu[e]
    BY <1>1 DEF TypeOK, Revises, Blanks
  <2> QED BY <2>1, DirtyWritten
<1>5. Written(dFl, flagged) = nFl /\ DOMAIN dFl \subseteq Rows
  <2>1. /\ flagged \in [Event -> BOOLEAN] /\ nFl \in [Event -> BOOLEAN]
        /\ \A e \in Event \ Rows : flagged[e] = nFl[e]
    BY <1>1 DEF TypeOK, Revises
  <2> QED BY <2>1, DirtyWritten
<1>6. DOMAIN dDo = {}
  BY DEF Dirty
<1>7. Written(dLi, linkAt) = nLi /\ DOMAIN dLi \subseteq Rows
  <2>1. /\ linkAt \in [Event -> Ev] /\ nLi \in [Event -> Ev]
        /\ \A e \in Event \ Rows : linkAt[e] = nLi[e]
    BY <1>1 DEF TypeOK, Revises, Blanks
  <2> QED BY <2>1, DirtyWritten
<1>8. Written(dCl, claimAt) = nCl /\ DOMAIN dCl \subseteq Rows
  <2>1. /\ claimAt \in [Event -> Ev] /\ nCl \in [Event -> Ev]
        /\ \A e \in Event \ Rows : claimAt[e] = nCl[e]
    BY <1>1 DEF TypeOK, Revises, Blanks
  <2> QED BY <2>1, DirtyWritten
<1>9. PICK q : q = [op |-> op, status |-> dSt, attr |-> dAt, dupOf |-> dDu, flagged |-> dFl,
                    docOf |-> dDo, linkAt |-> dLi, claimAt |-> dCl]
  OBVIOUS
<1>10. Revision(q)
  BY <1>2, <1>3, <1>4, <1>5, <1>6, <1>7, <1>8, <1>9 DEF Revision
<1>11. txn' = [txn EXCEPT ![s] = q]
  BY <1>9 DEF Prepare
<1> HIDE DEF Prepare
<1>12. Revision(q)' /\ Sound'
  BY <1>1, <1>10, VarsSame, NothingCommitted
<1>13. \A t \in Session \ {s} : \/ txn[t] = NoTxn
                                \/ t \in Admin /\ Revision(txn[t])'
                                \/ \E n \in Event : Insertion(txn[t], n)'
  BY <1>1, <1>11, VarsSame, OthersSame
<1>14. \A n : ~Inserts(q, n)
  BY <1>10, OthersInsertNone
<1> QED
  BY <1>1, <1>11, <1>12, <1>13, <1>14, Replaced DEF SessionsInv

\* A request that re-points events, and sets flags, changes nothing else.
LEMMA FlagsPrepared ==
    ASSUME SessionsInv, NEW s \in Admin, NEW op \in AdminOps, UNCHANGED vars,
           NEW nDu, NEW nFl, nDu \in [Event -> Rows \cup {NoEvent}], nFl \in [Event -> BOOLEAN],
           \A e \in Event \ Rows : nDu[e] = NoEvent /\ nFl[e] = flagged[e],
           PrepareFlags(s, op, nDu, nFl)
    PROVE  SessionsInv'
<1> PICK st, at, li, cl : st = status /\ at = attr /\ li = linkAt /\ cl = claimAt
  OBVIOUS
<1>1. Sound /\ TypeOK /\ Blanks
  BY DEF SessionsInv, Sound, Consistent
<1>2. \A x \in Rows : CitesBy(li, cl[x], docOf[x])
  BY <1>1, BackedCites DEF Sound, Cites, CitesBy
<1>3. Revises(st, at, nDu, nFl, li, cl)
  BY <1>1, <1>2 DEF Revises, TypeOK, Blanks, Rows
<1>4. Prepare(s, op, st, at, nDu, nFl, docOf, li, cl)
  BY DEF PrepareFlags
<1> QED
  BY <1>3, <1>4, Prepared

\* Each request of an administrator is prepared so.
LEMMA FlagPrepared ==
    ASSUME SessionsInv, NEW s \in Admin, NEW e \in Event, NEW c \in Event, BeginFlag(s, e, c)
    PROVE  SessionsInv'
<1>1. TypeOK /\ Blanks
  BY DEF SessionsInv, Sound, Consistent
<1>2. e \in Rows /\ c \in Rows /\ e # c /\ IsRoot(NoEvent, dupOf, c)
  BY DEF BeginFlag
<1> PICK op, nDu, nFl : op = "flag" /\ nDu = [dupOf EXCEPT ![e] = c] /\ nFl = [flagged EXCEPT ![e] = TRUE]
  OBVIOUS
<1>3. nDu \in [Event -> Rows \cup {NoEvent}] /\ nFl \in [Event -> BOOLEAN]
  BY <1>1, <1>2 DEF TypeOK
<1>4. \A x \in Event \ Rows : nDu[x] = NoEvent /\ nFl[x] = flagged[x]
  BY <1>1, <1>2 DEF TypeOK, Blanks
<1>5. PrepareFlags(s, op, nDu, nFl) /\ UNCHANGED vars /\ op \in AdminOps
  BY DEF BeginFlag, AdminOps
<1> QED
  BY <1>3, <1>4, <1>5, FlagsPrepared

LEMMA ClearPrepared ==
    ASSUME SessionsInv, NEW s \in Admin, NEW e \in Event, BeginClear(s, e)
    PROVE  SessionsInv'
<1>1. TypeOK /\ Blanks
  BY DEF SessionsInv, Sound, Consistent
<1>2. e \in Rows
  BY DEF BeginClear
<1> PICK op, nDu, nFl : op = "clear" /\ nDu = [dupOf EXCEPT ![e] = NoEvent] /\ nFl = [flagged EXCEPT ![e] = FALSE]
  OBVIOUS
<1>3. nDu \in [Event -> Rows \cup {NoEvent}] /\ nFl \in [Event -> BOOLEAN]
  BY <1>1, <1>2 DEF TypeOK
<1>4. \A x \in Event \ Rows : nDu[x] = NoEvent /\ nFl[x] = flagged[x]
  BY <1>1, <1>2 DEF TypeOK, Blanks
<1>5. PrepareFlags(s, op, nDu, nFl) /\ UNCHANGED vars /\ op \in AdminOps
  BY DEF BeginClear, AdminOps
<1> QED
  BY <1>3, <1>4, <1>5, FlagsPrepared

LEMMA ScanPrepared ==
    ASSUME SessionsInv, NEW s \in Admin, BeginScan(s)
    PROVE  SessionsInv'
<1>1. TypeOK /\ Blanks
  BY DEF SessionsInv, Sound, Consistent
<1>2. PICK d \in [Event -> Event \cup {NoEvent}] :
         /\ ScanOutcome(d)
         /\ PrepareFlags(s, "scan", d,
               [e \in Event |-> IF e \in Scanned THEN d[e] # NoEvent ELSE flagged[e]])
  BY DEF BeginScan
<1> PICK op, nFl : /\ op = "scan"
                   /\ nFl = [e \in Event |-> IF e \in Scanned THEN d[e] # NoEvent ELSE flagged[e]]
  OBVIOUS
<1>3. ASSUME NEW e \in Event
      PROVE  /\ d[e] \in Rows \cup {NoEvent}
             /\ e \notin Rows => d[e] = NoEvent
  <2>1. CASE e \in Scanned
    <3>1. e \in Rows /\ d[e] \in ScanTarget(d, e)
      BY <1>2, <2>1 DEF ScanOutcome, Scanned
    <3> QED BY <1>1, <3>1, ScanTargetIsRoot
  <2>2. CASE e \notin Scanned
    BY <1>1, <1>2, <2>2 DEF ScanOutcome, TypeOK, Blanks
  <2> QED BY <2>1, <2>2
<1>4. d \in [Event -> Rows \cup {NoEvent}]
  BY <1>2, <1>3
<1>5. nFl \in [Event -> BOOLEAN] /\ \A e \in Event \ Rows : d[e] = NoEvent /\ nFl[e] = flagged[e]
  BY <1>1, <1>3 DEF TypeOK, Scanned
<1>6. PrepareFlags(s, op, d, nFl)
  BY <1>2
<1>7. UNCHANGED vars /\ op \in AdminOps
  BY DEF BeginScan, AdminOps
<1> QED
  BY <1>4, <1>5, <1>6, <1>7, FlagsPrepared

LEMMA PatchPrepared ==
    ASSUME SessionsInv, NEW s \in Admin, NEW e \in Event, NEW new \in PatchStatuses,
           BeginPatch(s, e, new)
    PROVE  SessionsInv'
<1>1. Sound /\ TypeOK /\ Blanks
  BY DEF SessionsInv, Sound, Consistent
<1>2. e \in Rows /\ new \in Statuses /\ new # "absent"
  BY ConstantsAssumption DEF BeginPatch, Statuses, Live
<1> PICK op, st, at, du, fl, li, cl :
       /\ op = "patch" /\ st = [status EXCEPT ![e] = new] /\ at = attr /\ du = dupOf
       /\ fl = flagged /\ li = linkAt /\ cl = claimAt
  OBVIOUS
<1>3. /\ st \in [Event -> Statuses \cup {"absent"}]
      /\ \A x \in Event \ Rows : st[x] = "absent"
      /\ \A x \in Rows : st[x] # "absent"
  BY <1>1, <1>2 DEF TypeOK, Rows
<1>4. \A x \in Rows : CitesBy(li, cl[x], docOf[x])
  BY <1>1, BackedCites DEF Sound, Cites, CitesBy
<1>5. Revises(st, at, du, fl, li, cl)
  BY <1>1, <1>3, <1>4 DEF Revises, TypeOK, Blanks
<1>6. Prepare(s, op, st, at, du, fl, docOf, li, cl) /\ UNCHANGED vars /\ op \in AdminOps
  BY DEF BeginPatch, AdminOps
<1> QED
  BY <1>5, <1>6, Prepared

LEMMA MergePrepared ==
    ASSUME SessionsInv, NEW s \in Admin, NEW x \in Event, NEW t \in Event, NEW a \in Attr,
           BeginMerge(s, x, t, a)
    PROVE  SessionsInv'
<1>1. Sound /\ TypeOK /\ Blanks
  BY DEF SessionsInv, Sound, Consistent
<1>2. x \in Rows /\ t \in Rows /\ x # t /\ dupOf[t] = NoEvent
  BY DEF BeginMerge, IsRoot
<1> PICK op, st, at, du, fl, li, cl :
       /\ op = "merge" /\ st = [status EXCEPT ![x] = "merged"] /\ at = [attr EXCEPT ![t] = a]
       /\ du = Repointed(x, t) /\ fl = MergeFlags(x)
       /\ li = MovedLinks(x, t) /\ cl = MovedClaims(x, t)
  OBVIOUS
<1>3. /\ st \in [Event -> Statuses \cup {"absent"}]
      /\ \A e \in Event \ Rows : st[e] = "absent"
      /\ \A e \in Rows : st[e] # "absent"
  BY <1>1, <1>2 DEF TypeOK, Rows, Statuses
<1>4. at \in [Event -> Attr] /\ \A e \in Event \ Rows : at[e] = attr[e]
  BY <1>1, <1>2 DEF TypeOK
<1>5. du \in [Event -> Rows \cup {NoEvent}] /\ \A e \in Event \ Rows : du[e] = NoEvent
  BY <1>1, <1>2, NoEventFresh DEF Repointed, TypeOK, Blanks, Rows
<1>6. fl \in [Event -> BOOLEAN] /\ \A e \in Event \ Rows : fl[e] = flagged[e]
  BY <1>1, <1>2, NoEventFresh DEF MergeFlags, TypeOK, Blanks, Rows
<1>7. li \in [Event -> Rows \cup {NoEvent}] /\ \A e \in Event \ Rows : li[e] = NoEvent
  BY <1>1, <1>2, NoEventFresh DEF MovedLinks, TypeOK, Blanks, Rows
<1>8. cl \in [Event -> Rows \cup {NoEvent}] /\ \A e \in Rows : cl[e] \in Rows
  BY <1>1, <1>2 DEF MovedClaims, TypeOK, Blanks, Rows
<1>9. \A e \in Event \ Rows : cl[e] = NoEvent
  BY <1>1, <1>2, NoEventFresh DEF MovedClaims, Blanks, Rows
<1>10. ASSUME NEW y \in Rows PROVE CitesBy(li, cl[y], docOf[y])
  <2>1. Cites(claimAt[y], docOf[y]) /\ claimAt[y] \in Event
    BY <1>1, BackedCites DEF Sound, Blanks, Rows
  <2>2. cl[y] = IF claimAt[y] = x THEN t ELSE claimAt[y]
    BY DEF MovedClaims, Rows
  <2> QED BY <1>2, <2>1, <2>2, MergeKeepsCitations
<1>11. Revises(st, at, du, fl, li, cl)
  BY <1>3, <1>4, <1>5, <1>6, <1>7, <1>8, <1>9, <1>10 DEF Revises
<1>12. Prepare(s, op, st, at, du, fl, docOf, li, cl) /\ UNCHANGED vars /\ op \in AdminOps
  BY DEF BeginMerge, AdminOps
<1> QED
  BY <1>11, <1>12, Prepared

\* A save or a manual ingest gets an id that nobody else has.
LEMMA InsertionPrepared ==
    ASSUME SessionsInv, NEW s \in Session, NEW op \in {"save", "manual"},
           NEW a \in Attr, NEW d \in Doc, NEW target \in Rows \cup {NoEvent},
           PrepareNew(s, op, a, d, target)
    PROVE  SessionsInv'
<1> PICK n : n = created + 1
  OBVIOUS
<1>1. Sound /\ TypeOK /\ created \in Nat
  BY EventsAreNumbers DEF SessionsInv, Sound, Consistent, TypeOK
<1>2. /\ created < MaxEvents /\ created' = n
      /\ UNCHANGED <<status, attr, dupOf, flagged, evidence>>
  BY DEF PrepareNew
<1>3. n \in Event /\ n \in Nat /\ created' \in 0..MaxEvents /\ created <= created' /\ ~(n <= created)
  BY <1>1, <1>2, EventsAreNumbers DEF Event
<1>4. n \in Event \ Rows
  BY <1>1, <1>3 DEF TypeOK
<1>5. Rows' = Rows
  BY <1>2 DEF Rows
<1>6. PICK q : q = [op |-> op,
                    status |-> [x \in {n} |-> "candidate"], attr |-> [x \in {n} |-> a],
                    dupOf |-> [x \in {n} |-> target], flagged |-> [x \in {n} |-> target # NoEvent],
                    docOf |-> [x \in {n} |-> d],
                    linkAt |-> [x \in {n} |-> n], claimAt |-> [x \in {n} |-> n]]
  OBVIOUS
<1>7. txn' = [txn EXCEPT ![s] = q]
  BY <1>6 DEF PrepareNew
<1> HIDE DEF PrepareNew
<1>8. Insertion(q, n)'
  <2>1. n \in Event \ Rows' /\ n <= created'
    BY <1>2, <1>3, <1>4, <1>5
  <2> QED BY <1>5, <1>6, <2>1 DEF Insertion
<1>9. ASSUME NEW t \in Session \ {s}, NEW m \in Event, Inserts(q, m), Inserts(txn[t], m)
      PROVE  FALSE
  <2> PICK r : r = txn[t]
    OBVIOUS
  <2>1. m = n
    BY <1>6, <1>9 DEF Inserts
  <2>2. PICK k \in Event : Insertion(r, k)
    <3>1. r = NoTxn \/ (t \in Admin /\ Revision(r)) \/ \E k \in Event : Insertion(r, k)
      BY DEF SessionsInv, Pending
    <3> QED BY <1>9, <3>1, OthersInsertNone
  <2>3. n = k
    BY <1>9, <2>1, <2>2, InsertionInserts
  <2>4. k <= created
    BY <2>2 DEF Insertion
  <2> QED BY <1>3, <2>3, <2>4
<1>10. Sound'
  BY <1>1, <1>2, <1>3, NothingCommitted
<1>11. \A t \in Session \ {s} : \/ txn[t] = NoTxn
                                \/ t \in Admin /\ Revision(txn[t])'
                                \/ \E k \in Event : Insertion(txn[t], k)'
  BY <1>2, <1>3, <1>7, OthersSame
<1> QED
  BY <1>3, <1>7, <1>8, <1>9, <1>10, <1>11, Replaced DEF SessionsInv

\* No request leaves the registry unsound, or prepares writes that would.
LEMMA SessionsNextInv == OneAdmin /\ SessionsInv /\ [SessionsNext]_allVars => SessionsInv'
<1> SUFFICES ASSUME OneAdmin, SessionsInv, [SessionsNext]_allVars PROVE SessionsInv'
  OBVIOUS
<1>1. ASSUME NEW s \in Worker, NEW a \in Attr, NEW d \in Doc, BeginSave(s, a, d)
      PROVE  SessionsInv'
  <2>1. PICK target \in SaveTarget(a) : PrepareNew(s, "save", a, d, target)
    BY <1>1 DEF BeginSave
  <2>2. s \in Session /\ TypeOK
    BY DEF Session, SessionsInv, Sound, Consistent
  <2>3. target \in Rows \cup {NoEvent}
    BY <2>2, SaveTargetIsRoot
  <2> PICK op : op = "save"
    OBVIOUS
  <2> QED BY <2>1, <2>2, <2>3, InsertionPrepared
<1>2. ASSUME NEW s \in Worker, NEW a \in Attr, NEW d \in Doc, BeginManualIngest(s, a, d)
      PROVE  SessionsInv'
  <2> PICK op, target : op = "manual" /\ target = NoEvent
    OBVIOUS
  <2>1. s \in Session /\ PrepareNew(s, op, a, d, target)
    BY <1>2 DEF BeginManualIngest, Session
  <2> QED BY <2>1, InsertionPrepared
<1>3. ASSUME NEW s \in Admin, NEW e \in Event, NEW c \in Event, BeginFlag(s, e, c)
      PROVE  SessionsInv'
  BY <1>3, FlagPrepared
<1>4. ASSUME NEW s \in Admin, NEW e \in Event, BeginClear(s, e)
      PROVE  SessionsInv'
  BY <1>4, ClearPrepared
<1>5. ASSUME NEW s \in Admin, NEW x \in Event, NEW t \in Event, NEW a \in Attr, BeginMerge(s, x, t, a)
      PROVE  SessionsInv'
  BY <1>5, MergePrepared
<1>6. ASSUME NEW s \in Admin, NEW e \in Event, NEW new \in PatchStatuses, BeginPatch(s, e, new)
      PROVE  SessionsInv'
  BY <1>6, PatchPrepared
<1>7. ASSUME NEW s \in Admin, BeginScan(s)
      PROVE  SessionsInv'
  BY <1>7, ScanPrepared
<1>8. ASSUME NEW s \in Session, Commit(s)
      PROVE  SessionsInv'
  <2> PICK r : r = txn[s]
    OBVIOUS
  <2>1. (s \in Admin /\ Revision(r)) \/ \E n \in Event : Insertion(r, n)
    BY <1>8 DEF Commit, Idle, SessionsInv, Pending
  <2> QED BY <1>8, <2>1, CommitRevision, CommitInsertion
<1>9. ASSUME NEW s \in Session, Rollback(s)
      PROVE  SessionsInv'
  BY <1>9, RollbackInv
<1>10. CASE UNCHANGED allVars
  <2>1. UNCHANGED vars /\ UNCHANGED txn
    BY <1>10 DEF allVars
  <2>2. /\ Sound'
        /\ \A r : (Revision(r) => Revision(r)')
        /\ \A r : \A n \in Event : (Insertion(r, n) => Insertion(r, n)')
    BY <2>1, VarsSame, NothingCommitted DEF SessionsInv
  <2>3. Pending'
    <3> PICK x : x = txn
      OBVIOUS
    <3>1. /\ x = [s \in Session |-> x[s]]
          /\ \A s \in Session : \/ x[s] = NoTxn
                                \/ s \in Admin /\ Revision(x[s])
                                \/ \E n \in Event : Insertion(x[s], n)
          /\ \A s, t \in Session : \A n \in Event :
                Inserts(x[s], n) /\ Inserts(x[t], n) => s = t
      BY DEF SessionsInv, Pending
    <3>2. \A s \in Session : \/ x[s] = NoTxn
                             \/ s \in Admin /\ Revision(x[s])'
                             \/ \E n \in Event : Insertion(x[s], n)'
      <4> TAKE s \in Session
      <4> PICK r : r = x[s]
        OBVIOUS
      <4>1. (Revision(r) => Revision(r)') /\ \A n \in Event : (Insertion(r, n) => Insertion(r, n)')
        BY <2>2
      <4>2. r = NoTxn \/ (s \in Admin /\ Revision(r)) \/ \E n \in Event : Insertion(r, n)
        BY <3>1
      <4>3. r = NoTxn \/ (s \in Admin /\ Revision(r)') \/ \E n \in Event : Insertion(r, n)'
        BY <4>1, <4>2
      <4> QED BY <4>3
    <3>3. txn' = x BY <2>1
    <3> QED BY <3>1, <3>2, <3>3 DEF Pending
  <2> QED BY <2>2, <2>3 DEF SessionsInv
<1> QED
  BY <1>1, <1>2, <1>3, <1>4, <1>5, <1>6, <1>7, <1>8, <1>9, <1>10 DEF SessionsNext

LEMMA SessionsStartSound == SessionsInit => SessionsInv
<1> SUFFICES ASSUME SessionsInit PROVE SessionsInv
  OBVIOUS
<1>1. Consistent
  BY InitConsistent DEF SessionsInit
<1>2. ClaimsBacked
  BY NoEventFresh DEF SessionsInit, Init, ClaimsBacked, Rows
<1>3. \A n : ~Inserts(NoTxn, n)
  BY OthersInsertNone
<1>4. Pending
  BY <1>3 DEF SessionsInit, Pending
<1> QED
  BY <1>1, <1>2, <1>4 DEF SessionsInv, Sound

LEMMA SessionsStaySound == ASSUME OneAdmin PROVE SessionsSpec => []SessionsInv
<1>1. SessionsInv /\ [SessionsNext]_allVars => SessionsInv'
  BY SessionsNextInv
<1> QED
  BY <1>1, SessionsStartSound, PTL DEF SessionsSpec

\* No merge of one administrator separates claims from the link to their document, though
\* candidates are saved between its reads and its commit.
THEOREM SessionsBackClaims == ASSUME OneAdmin PROVE SessionsSpec => []ClaimsBacked
<1>1. SessionsInv => ClaimsBacked
  BY DEF SessionsInv, Sound
<1> QED
  BY <1>1, SessionsStaySound, PTL

\* Hence no document that yielded an event loses its last link. With two administrators it
\* can: the run two_admins shows how.
THEOREM SessionsKeepEvidence == ASSUME OneAdmin PROVE SessionsSpec => []EvidenceKept
<1>1. SessionsInv => EvidenceKept
  BY NoEventFresh
  DEF SessionsInv, Sound, Consistent, Blanks, ClaimsBacked, EvidenceKept, Linked, Rows
<1> QED
  BY <1>1, SessionsStaySound, PTL
===============================================================================
