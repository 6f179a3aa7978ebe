------------------------------ MODULE SourceIngest ------------------------------
(***************************************************************************)
(* Concurrent storing of source documents: the worker's requests and those *)
(* of the manual ingest form check the hash of a text, insert a row under  *)
(* a unique constraint and commit.  The database makes an insert wait for  *)
(* the transaction that holds the same key uncommitted, and rejects it     *)
(* once the key is committed.                                              *)
(***************************************************************************)
EXTENDS Naturals

CONSTANTS
    Manual,   \* requests of the manual ingest form
    Worker,   \* requests of the worker
    Text,     \* normalized texts, told apart by hash
    Nobody,
    Faulty    \* whether extraction fails and requests are cut off

Request == Manual \cup Worker

ASSUME RequestAssumption == Nobody \notin Request /\ Manual \cap Worker = {} /\ Faulty \in BOOLEAN

VARIABLES
    text,    \* the text a request comes with
    owner,   \* request whose source document is committed for a text
    holder,  \* request with an uncommitted document for a text
    events,  \* events that manual ingest stored for a text
    pc,      \* what each request does next
    reply    \* what each request has been told

vars == <<text, owner, holder, events, pc, reply>>

\* The request r is told a; nothing is left for it to do.
Tell(r, a) == reply' = [reply EXCEPT ![r] = a] /\ pc' = [pc EXCEPT ![r] = "done"]
Goto(r, step) == pc' = [pc EXCEPT ![r] = step] /\ UNCHANGED reply
-------------------------------------------------------------------------------
\* find_source_by_hash sees committed documents only.
Check(r) ==
    /\ pc[r] = "check"
    /\ IF owner[text[r]] # Nobody THEN Tell(r, "duplicate") ELSE Goto(r, "insert")
    /\ UNCHANGED <<text, owner, holder, events>>

\* create_source_document flushes, so the constraint is checked here.
Insert(r) ==
    /\ pc[r] = "insert"
    /\ holder[text[r]] = Nobody /\ owner[text[r]] = Nobody
    /\ holder' = [holder EXCEPT ![text[r]] = r]
    /\ Goto(r, "commit")
    /\ UNCHANGED <<text, owner, events>>

Rejected(r) ==
    /\ pc[r] = "insert"
    /\ holder[text[r]] = Nobody /\ owner[text[r]] # Nobody
    /\ UNCHANGED <<text, owner, holder, events>>

\* Mutant: the constraint violation is swallowed.
RejectManualLate(r) == Rejected(r) /\ Goto(r, "extract")

\* Of the manual form's two calls that may raise IntegrityError only the commit
\* is in a try block, and the insert is the one that raises.
RejectManual(r) == Rejected(r) /\ Tell(r, "error")

RejectWorker(r) == Rejected(r) /\ Goto(r, "lookup")

\* Mutant: the document of another request is reported as created.
LookupCreated(r) ==
    /\ pc[r] = "lookup"
    /\ Tell(r, IF owner[text[r]] # Nobody THEN "created" ELSE "error")
    /\ UNCHANGED <<text, owner, holder, events>>

\* The worker's request looks the hash up again, and gives up if it is gone.
Lookup(r) ==
    /\ pc[r] = "lookup"
    /\ Tell(r, IF owner[text[r]] # Nobody THEN "duplicate" ELSE "error")
    /\ UNCHANGED <<text, owner, holder, events>>

Committing(r) ==
    /\ pc[r] = "commit"
    /\ owner' = [owner EXCEPT ![text[r]] = r]
    /\ holder' = [holder EXCEPT ![text[r]] = Nobody]
    /\ UNCHANGED <<text, events>>

\* What is committed stays committed when the reply is lost.
Created(r) == \E a \in IF Faulty THEN {"created", "error"} ELSE {"created"} : Tell(r, a)

CommitWorker(r) == Committing(r) /\ Created(r)

\* The document is kept whatever becomes of the extraction.
CommitManual(r) == Committing(r) /\ Goto(r, "extract")

\* A relevant page yields an event, committed before the reply.
Extract(r) ==
    /\ pc[r] = "extract"
    /\ \E relevant \in {0, 1} : events' = [events EXCEPT ![text[r]] = @ + relevant]
    /\ Created(r)
    /\ UNCHANGED <<text, owner, holder>>

\* Mutant: the transaction is not rolled back.
FailHolding(r) ==
    /\ Faulty
    /\ pc[r] # "done"
    /\ Tell(r, "error")
    /\ UNCHANGED <<text, owner, holder, events>>

\* Extraction fails, the API key is missing, or the request is cut off: what is
\* not committed is rolled back.
Fail(r) ==
    /\ Faulty
    /\ pc[r] # "done"
    /\ holder' = [t \in Text |-> IF holder[t] = r THEN Nobody ELSE holder[t]]
    /\ Tell(r, "error")
    /\ UNCHANGED <<text, owner, events>>
-------------------------------------------------------------------------------
Init ==
    /\ text \in [Request -> Text]
    /\ owner = [t \in Text |-> Nobody]
    /\ holder = [t \in Text |-> Nobody]
    /\ events = [t \in Text |-> 0]
    /\ pc = [r \in Request |-> "check"]
    /\ reply = [r \in Request |-> "none"]

ManualStep(r) == RejectManual(r) \/ CommitManual(r) \/ Extract(r)
WorkerStep(r) == RejectWorker(r) \/ Lookup(r) \/ CommitWorker(r)
Serve(r) == \/ Check(r) \/ Insert(r)
            \/ r \in Manual /\ ManualStep(r)
            \/ r \in Worker /\ WorkerStep(r)

Next == \E r \in Request : Serve(r) \/ Fail(r)

Spec == Init /\ [][Next]_vars

\* Each request has a thread of its own, which runs until it has answered.
FairSpec == Spec /\ \A r \in Request : WF_vars(Serve(r))
-------------------------------------------------------------------------------
(* Properties.                                                             *)

\* The types; an uncommitted key is held by a request of that text that is about
\* to commit, so no key outlives the request that inserted it.
TypeOK ==
    /\ text \in [Request -> Text]
    /\ owner \in [Text -> Request \cup {Nobody}]
    /\ holder \in [Text -> Request \cup {Nobody}]
    /\ events \in [Text -> Nat]
    /\ pc \in [Request -> {"check", "insert", "lookup", "commit", "extract", "done"}]
    /\ reply \in [Request -> {"none", "created", "duplicate", "error"}]
    /\ \A t \in Text : holder[t] # Nobody => pc[holder[t]] = "commit" /\ text[holder[t]] = t

\* Both ways to store a document keep what callers are promised.
Promise == INSTANCE DocumentStore
PromiseKept == Promise!Spec

\* Of the requests for one text at most one is told that it created the
\* document, and "duplicate" is told of another's document only.
RepliesAgree == Promise!RepliesAgree

\* The manual form stores at most one event for a text, and only for a document
\* of its own; requests that lost the race for a text store none.
OneManualEvent ==
    \A t \in Text : events[t] <= 1 /\ (events[t] > 0 => owner[t] \in Manual)

\* Every request is answered: waiting for another's key never lasts.
Answered == \A r \in Request : <>(reply[r] # "none")
===============================================================================
