--------------------------- MODULE SourceIngestProofs ---------------------------
(***************************************************************************)
(* SourceIngest keeps the promise of DocumentStore, for any number of      *)
(* requests and texts.                                                     *)
(***************************************************************************)
EXTENDS SourceIngest, TLAPS

\* A request about to commit holds the unique key of its text, which nobody does
\* once a document is committed.
KeysHeld ==
    /\ \A r \in Request : pc[r] = "commit" => holder[text[r]] = r
    /\ \A t \in Text : holder[t] # Nobody => owner[t] = Nobody

\* A request owns the document of its text only once it has committed.
OwnersCommitted ==
    \A r \in Request :
        /\ pc[r] \in {"check", "insert", "lookup", "commit"} => owner[text[r]] # r
        /\ pc[r] = "lookup" => owner[text[r]] # Nobody
        /\ pc[r] = "extract" => owner[text[r]] = r /\ r \in Manual

\* A request that has not answered is not done.
Unanswered == \A r \in Request : reply[r] = "none" <=> pc[r] # "done"

\* An event of manual ingest is the only one, and is written as the request that
\* owns the document ends.
EventsOwned ==
    \A t \in Text : /\ events[t] <= 1
                    /\ events[t] > 0 => owner[t] \in Manual /\ pc[owner[t]] = "done"

\* The strengthened invariant: without it a step could commit a second document
\* for a text, or be told "created" for another's.
Inv == TypeOK /\ KeysHeld /\ OwnersCommitted /\ Unanswered /\ EventsOwned

LEMMA InitInv == Init => Inv
BY RequestAssumption DEF Init, Inv, TypeOK, KeysHeld, OwnersCommitted, Unanswered, EventsOwned, Request

LEMMA NextInv == Inv /\ [Next]_vars => Inv'
<1> SUFFICES ASSUME Inv, [Next]_vars PROVE Inv'
  OBVIOUS
<1> USE RequestAssumption
        DEF Inv, TypeOK, KeysHeld, OwnersCommitted, Unanswered, EventsOwned, Tell, Goto, Request
<1>1. CASE UNCHANGED vars
  BY <1>1 DEF vars
<1>2. ASSUME NEW r \in Request, Check(r) PROVE Inv'
  BY <1>2 DEF Check
<1>3. ASSUME NEW r \in Request, Insert(r) PROVE Inv'
  BY <1>3 DEF Insert
<1>4. ASSUME NEW r \in Request, RejectManual(r) PROVE Inv'
  BY <1>4 DEF RejectManual, Rejected
<1>5. ASSUME NEW r \in Request, RejectWorker(r) PROVE Inv'
  BY <1>5 DEF RejectWorker, Rejected
<1>6. ASSUME NEW r \in Request, Lookup(r) PROVE Inv'
  BY <1>6 DEF Lookup
<1>7. ASSUME NEW r \in Request, CommitWorker(r) PROVE Inv'
  <2>1. owner[text[r]] = Nobody /\ ~(events[text[r]] > 0)
    BY <1>7 DEF CommitWorker, Committing, Created
  <2>2. (TypeOK /\ KeysHeld /\ OwnersCommitted /\ Unanswered)'
    BY <1>7 DEF CommitWorker, Committing, Created
  <2>3. EventsOwned'
    BY <1>7, <2>1 DEF CommitWorker, Committing, Created
  <2> QED
    BY <2>2, <2>3
<1>8. ASSUME NEW r \in Manual, CommitManual(r) PROVE Inv'
  <2>1. owner[text[r]] = Nobody /\ ~(events[text[r]] > 0)
    BY <1>8 DEF CommitManual, Committing
  <2>2. (TypeOK /\ KeysHeld /\ OwnersCommitted /\ Unanswered)'
    BY <1>8 DEF CommitManual, Committing
  <2>3. EventsOwned'
    BY <1>8, <2>1 DEF CommitManual, Committing
  <2> QED
    BY <2>2, <2>3
<1>9. ASSUME NEW r \in Request, Extract(r) PROVE Inv'
  BY <1>9 DEF Extract, Created
<1>10. ASSUME NEW r \in Request, Fail(r) PROVE Inv'
  BY <1>10 DEF Fail
<1> QED
  BY <1>1, <1>2, <1>3, <1>4, <1>5, <1>6, <1>7, <1>8, <1>9, <1>10
     DEF Next, Serve, ManualStep, WorkerStep

\* Types, and that an uncommitted key is held by a request of that text about to
\* commit (ingest_service.py:374-390, 665-681).
THEOREM SourcesTyped == Spec => []TypeOK
<1>1. Inv => TypeOK
  BY DEF Inv
<1> QED
  BY <1>1, InitInv, NextInv, PTL DEF Spec

\* Manual ingest stores at most one event for a text, and only if the document is
\* its own, however requests for the text interleave and fail.
THEOREM ManualEventsOnce == Spec => []OneManualEvent
<1>1. Inv => OneManualEvent
  BY DEF Inv, EventsOwned, OneManualEvent
<1> QED
  BY <1>1, InitInv, NextInv, PTL DEF Spec

\* Every step of a request stores a document, answers, or does neither: callers
\* are told "created" and "duplicate" as DocumentStore promises.
THEOREM KeepsPromise == Spec => PromiseKept
<1>1. Init => Promise!Init
  BY DEF Init, Promise!Init
<1>2. Inv /\ [Next]_vars => [Promise!Next]_(Promise!vars)
  <2> SUFFICES ASSUME Inv, [Next]_vars PROVE [Promise!Next]_(Promise!vars)
    OBVIOUS
  <2> USE RequestAssumption DEF Inv, TypeOK, KeysHeld, OwnersCommitted, Unanswered, Tell, Goto,
          Promise!Next, Promise!Answer, Promise!Store, Promise!vars
  <2>1. CASE UNCHANGED vars
    BY <2>1 DEF vars
  <2>2. ASSUME NEW r \in Request, Check(r) PROVE [Promise!Next]_(Promise!vars)
    BY <2>2 DEF Check
  <2>3. ASSUME NEW r \in Request, Insert(r) PROVE [Promise!Next]_(Promise!vars)
    BY <2>3 DEF Insert
  <2>4. ASSUME NEW r \in Request, RejectManual(r) PROVE [Promise!Next]_(Promise!vars)
    BY <2>4 DEF RejectManual, Rejected
  <2>5. ASSUME NEW r \in Request, RejectWorker(r) PROVE [Promise!Next]_(Promise!vars)
    BY <2>5 DEF RejectWorker, Rejected
  <2>6. ASSUME NEW r \in Request, Lookup(r) PROVE [Promise!Next]_(Promise!vars)
    BY <2>6 DEF Lookup
  <2>7. ASSUME NEW r \in Request, CommitWorker(r) PROVE [Promise!Next]_(Promise!vars)
    <3>1. reply[r] = "none" /\ Promise!Store(r)
      BY <2>7 DEF CommitWorker, Committing, Created
    <3>2. \E a \in {"created", "error"} : reply' = [reply EXCEPT ![r] = a]
      BY <2>7 DEF CommitWorker, Created
    <3> HIDE DEF Promise!Store
    <3> QED
      BY <3>1, <3>2
  <2>8. ASSUME NEW r \in Request, CommitManual(r) PROVE [Promise!Next]_(Promise!vars)
    <3>1. reply[r] = "none" /\ Promise!Store(r)
      BY <2>8 DEF CommitManual, Committing
    <3>2. UNCHANGED reply
      BY <2>8 DEF CommitManual
    <3> HIDE DEF Promise!Store
    <3> QED
      BY <3>1, <3>2
  <2>9. ASSUME NEW r \in Request, Extract(r) PROVE [Promise!Next]_(Promise!vars)
    <3>1. reply[r] = "none" /\ owner[text[r]] = r /\ UNCHANGED <<text, owner>>
      BY <2>9 DEF Extract
    <3>2. \E a \in {"created", "error"} : reply' = [reply EXCEPT ![r] = a]
      BY <2>9 DEF Extract, Created
    <3>3. Promise!Answer(r)
      BY <3>1, <3>2
    <3> HIDE DEF Promise!Answer, Promise!Store
    <3> QED
      BY <3>1, <3>3
  <2>10. ASSUME NEW r \in Request, Fail(r) PROVE [Promise!Next]_(Promise!vars)
    BY <2>10 DEF Fail
  <2> QED
    BY <2>1, <2>2, <2>3, <2>4, <2>5, <2>6, <2>7, <2>8, <2>9, <2>10
       DEF Next, Serve, ManualStep, WorkerStep
<1> QED
  BY <1>1, <1>2, InitInv, NextInv, PTL DEF Spec, PromiseKept, Promise!Spec

\* A text is never stored twice and never given up, so the replies of any
\* implementation of the promise agree with each other and with the store.
THEOREM StoreRepliesAgree == Promise!Spec => []Promise!RepliesAgree
<1> DEFINE Typed == /\ text \in [Request -> Text]
                    /\ owner \in [Text -> Request \cup {Nobody}]
                    /\ reply \in [Request -> {"none", "created", "duplicate", "error"}]
           Told == \A r \in Request :
                      /\ reply[r] = "created" => owner[text[r]] = r
                      /\ reply[r] = "duplicate" => owner[text[r]] \notin {Nobody, r}
           Kept == Typed /\ Told
<1> USE RequestAssumption
<1>1. Promise!Init => Kept
  BY DEF Promise!Init
<1>2. Kept /\ [Promise!Next]_(Promise!vars) => Kept'
  <2> SUFFICES ASSUME Kept, [Promise!Next]_(Promise!vars) PROVE Kept'
    OBVIOUS
  <2>1. CASE UNCHANGED Promise!vars
    BY <2>1 DEF Promise!vars
  <2>2. ASSUME NEW r \in Request, reply[r] = "none", Promise!Store(r),
               \/ UNCHANGED reply
               \/ \E a \in {"created", "error"} : reply' = [reply EXCEPT ![r] = a]
        PROVE  Kept'
    <3>1. Typed'
      BY <2>2 DEF Promise!Store
    <3>2. Told'
      BY <2>2 DEF Promise!Store
    <3> QED
      BY <3>1, <3>2
  <2>3. ASSUME NEW r \in Request, reply[r] = "none", Promise!Answer(r), UNCHANGED <<text, owner>>
        PROVE  Kept'
    BY <2>3 DEF Promise!Answer
  <2> QED
    BY <2>1, <2>2, <2>3 DEF Promise!Next
<1>3. Kept => Promise!RepliesAgree
  BY DEF Promise!RepliesAgree
<1> QED
  BY <1>1, <1>2, <1>3, PTL DEF Promise!Spec

\* What concurrent requests are told agrees, as they keep the promise.
THEOREM RepliesConsistent == Spec => []RepliesAgree
  BY StoreRepliesAgree, KeepsPromise, PTL DEF PromiseKept, RepliesAgree
===============================================================================
