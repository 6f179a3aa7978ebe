------------------------------ MODULE DocumentStore ------------------------------
(***************************************************************************)
(* What storing source documents promises to its callers, the worker and   *)
(* the manual ingest form: a text is stored for one request and stays; a   *)
(* request is told "created" only if it is that one, and "duplicate" only  *)
(* if another is.  Extraction is paid for once because of it: whoever is   *)
(* told "created" extracts, nobody else does.                              *)
(***************************************************************************)
CONSTANTS Request, Text, Nobody

VARIABLES
    text,   \* the text each request wants to store
    owner,  \* the request that stored a text
    reply   \* what each request has been told

vars == <<text, owner, reply>>

Init == /\ text \in [Request -> Text]
        /\ owner = [t \in Text |-> Nobody]
        /\ reply = [r \in Request |-> "none"]

Store(r) == /\ owner[text[r]] = Nobody
            /\ owner' = [owner EXCEPT ![text[r]] = r]
            /\ UNCHANGED text

Answer(r) == \/ owner[text[r]] = r /\ reply' = [reply EXCEPT ![r] = "created"]
             \/ owner[text[r]] \notin {Nobody, r} /\ reply' = [reply EXCEPT ![r] = "duplicate"]
             \/ reply' = [reply EXCEPT ![r] = "error"]

Next == \E r \in Request :
          /\ reply[r] = "none"
          /\ \/ Store(r) /\ UNCHANGED reply
             \/ Answer(r) /\ UNCHANGED <<text, owner>>
             \/ Store(r) /\ \E a \in {"created", "error"} : reply' = [reply EXCEPT ![r] = a]

Spec == Init /\ [][Next]_vars
-------------------------------------------------------------------------------
\* Of the requests for one text, at most one is told that it created the
\* document, and if one is told "duplicate" the document is some other's.
RepliesAgree ==
    /\ \A r, q \in Request :
          reply[r] = "created" /\ reply[q] = "created" /\ text[r] = text[q] => r = q
    /\ \A r \in Request : reply[r] = "duplicate" => owner[text[r]] \notin {Nobody, r}
===============================================================================
