----------------------------- MODULE DedupSessions -----------------------------
(***************************************************************************)
(* The registry of EventDedup under concurrent requests.  FastAPI runs     *)
(* each handler in a thread of its own with its own SQLAlchemy session on  *)
(* a READ COMMITTED database, so a request decides from what it read and   *)
(* other requests commit before it does.  A request is two steps: it reads *)
(* and computes its writes, and it commits them.  SQLAlchemy writes back   *)
(* the attributes whose value changed and nothing else, so a commit        *)
(* overwrites single columns, never whole rows.                            *)
(*                                                                         *)
(* All the reads of a request are taken at one instant (the code issues    *)
(* them one after the other).                                              *)
(***************************************************************************)
EXTENDS EventDedup, Functions

CONSTANTS Admin,   \* sessions serving administrators
          Worker   \* sessions serving the worker and the manual ingest form

VARIABLE txn       \* writes each session has yet to commit, NoTxn when idle

allVars == <<vars, txn>>
Session == Admin \cup Worker
NoTxn == [op |-> "none"]

\* The entries of g that differ from f.
Dirty(f, g) == [x \in {y \in DOMAIN f : f[y] # g[y]} |-> g[x]]
Written(w, f) == [x \in DOMAIN f |-> IF x \in DOMAIN w THEN w[x] ELSE f[x]]

Idle(s) == txn[s] = NoTxn

\* Session s is about to turn the columns it read into the ones given.
Prepare(s, op, newStatus, newAttr, newDup, newFlags, newDocs, newLinks, newClaims) ==
    txn' = [txn EXCEPT ![s] =
              [op |-> op,
               status |-> Dirty(status, newStatus), attr |-> Dirty(attr, newAttr),
               dupOf |-> Dirty(dupOf, newDup), flagged |-> Dirty(flagged, newFlags),
               docOf |-> Dirty(docOf, newDocs), linkAt |-> Dirty(linkAt, newLinks),
               claimAt |-> Dirty(claimAt, newClaims)]]

\* Session s is about to write the pointers and flags given.
PrepareFlags(s, op, newDup, newFlags) ==
    Prepare(s, op, status, attr, newDup, newFlags, docOf, linkAt, claimAt)
-------------------------------------------------------------------------------
(* Requests of the worker and of the manual ingest form.                   *)

\* The id and created_at are fixed when the row is flushed; nobody else sees
\* the row before the commit. An INSERT writes every column.
PrepareNew(s, op, a, d, target) ==
    LET new == created + 1
        Column(v) == [x \in {new} |-> v]
    IN  /\ created < MaxEvents
        /\ created' = new
        /\ txn' = [txn EXCEPT ![s] =
              [op |-> op,
               status |-> Column("candidate"), attr |-> Column(a),
               dupOf |-> Column(target), flagged |-> Column(target # NoEvent),
               docOf |-> Column(d), linkAt |-> Column(new), claimAt |-> Column(new)]]
        /\ UNCHANGED <<status, attr, dupOf, flagged, evidence>>

BeginSave(s, a, d) ==
    /\ Idle(s)
    /\ NameOf[a] # NoName => ~Recorded(d, NameOf[a])
    /\ \E target \in SaveTarget(a) : PrepareNew(s, "save", a, d, target)

\* The unique hash of source documents keeps manual ingests of one text apart.
BeginManualIngest(s, a, d) ==
    /\ Idle(s)
    /\ \A e \in Rows : docOf[e] # d
    /\ \A r \in Session : txn[r].op = "manual" => d \notin Range(txn[r].docOf)
    /\ PrepareNew(s, "manual", a, d, NoEvent)
-------------------------------------------------------------------------------
(* Requests of administrators.                                             *)

BeginFlag(s, e, c) ==
    /\ Idle(s)
    /\ e \in Rows /\ c \in Rows /\ e # c
    /\ IsRoot(NoEvent, dupOf, c)
    /\ PrepareFlags(s, "flag", [dupOf EXCEPT ![e] = c], [flagged EXCEPT ![e] = TRUE])
    /\ UNCHANGED vars

BeginClear(s, e) ==
    /\ Idle(s)
    /\ e \in Rows
    /\ PrepareFlags(s, "clear", [dupOf EXCEPT ![e] = NoEvent], [flagged EXCEPT ![e] = FALSE])
    /\ UNCHANGED vars

BeginMerge(s, x, t, a) ==
    /\ Idle(s)
    /\ x \in Rows /\ t \in Rows /\ x # t
    /\ IsRoot(NoEvent, dupOf, t)
    /\ Prepare(s, "merge", [status EXCEPT ![x] = "merged"], [attr EXCEPT ![t] = a],
               Repointed(x, t), MergeFlags(x), docOf, MovedLinks(x, t), MovedClaims(x, t))
    /\ UNCHANGED vars

BeginPatch(s, e, new) ==
    /\ Idle(s)
    /\ e \in Rows
    /\ Prepare(s, "patch", [status EXCEPT ![e] = new],
               attr, dupOf, flagged, docOf, linkAt, claimAt)
    /\ UNCHANGED vars

BeginScan(s) ==
    /\ Idle(s)
    /\ \E d \in [Event -> Event \cup {NoEvent}] :
          /\ ScanOutcome(d)
          /\ PrepareFlags(s, "scan", d,
                [e \in Event |-> IF e \in Scanned THEN d[e] # NoEvent ELSE flagged[e]])
    /\ UNCHANGED vars
-------------------------------------------------------------------------------
(* The end of a request.                                                   *)

\* A link to be re-attached has been deleted by another session: the UPDATE
\* matches no row and SQLAlchemy raises StaleDataError. A DELETE that matches
\* no row only warns.
Stale(s) ==
    \E x \in DOMAIN txn[s].linkAt \cap Rows :
        txn[s].linkAt[x] # NoEvent /\ linkAt[x] = NoEvent

Commit(s) ==
    /\ ~Idle(s)
    /\ ~Stale(s)
    /\ status' = Written(txn[s].status, status)
    /\ attr' = Written(txn[s].attr, attr)
    /\ dupOf' = Written(txn[s].dupOf, dupOf)
    /\ flagged' = Written(txn[s].flagged, flagged)
    /\ docOf' = Written(txn[s].docOf, docOf)
    /\ linkAt' = Written(txn[s].linkAt, linkAt)
    /\ claimAt' = Written(txn[s].claimAt, claimAt)
    /\ txn' = [txn EXCEPT ![s] = NoTxn]
    /\ UNCHANGED created

\* An error, a crash or a lost connection; ids and created_at are not reused.
Rollback(s) ==
    /\ ~Idle(s)
    /\ txn' = [txn EXCEPT ![s] = NoTxn]
    /\ UNCHANGED vars
-------------------------------------------------------------------------------
SessionsInit == Init /\ txn = [s \in Session |-> NoTxn]

SessionsNext ==
    \/ \E s \in Worker, a \in Attr, d \in Doc : BeginSave(s, a, d) \/ BeginManualIngest(s, a, d)
    \/ \E s \in Admin, e, c \in Event : BeginFlag(s, e, c)
    \/ \E s \in Admin, e \in Event : BeginClear(s, e)
    \/ \E s \in Admin, x, t \in Event, a \in Attr : BeginMerge(s, x, t, a)
    \/ \E s \in Admin, e \in Event, new \in PatchStatuses : BeginPatch(s, e, new)
    \/ \E s \in Admin : BeginScan(s)
    \/ \E s \in Session : Commit(s) \/ Rollback(s)

SessionsSpec == SessionsInit /\ [][SessionsNext]_allVars
===============================================================================
