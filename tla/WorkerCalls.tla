------------------------------ MODULE WorkerCalls ------------------------------
(***************************************************************************)
(* The calls by which the worker keeps the record of a search run: create, *)
(* results of each query, telemetry, finish.  Every attempt of a call is a *)
(* request of its own at the backend, handled there in a thread that       *)
(* nobody cancels: it may be lost, fail between two commits, or go on      *)
(* after the worker timed out, tried again, or ended.                      *)
(***************************************************************************)
EXTENDS Naturals, Sequences, FiniteSets

CONSTANTS
    MaxRetries,  \* max_retries of the client
    Queries,     \* number of queries of a run
    MaxResults,  \* max_results_per_query
    PageCalls,   \* bound on the tool calls for pages that a run records
    MaxRuns,     \* bound on the runs begun
    MaxLate,     \* bound on the requests at work that the worker does not wait for
    Faulty       \* whether requests are lost, late or fail, and the worker crashes

ASSUME CallsAssumption ==
    /\ MaxRetries \in Nat \ {0}
    /\ {Queries, MaxResults, PageCalls, MaxRuns, MaxLate} \subseteq Nat
    /\ Faulty \in BOOLEAN

VARIABLES
    runs,      \* search_runs rows, in order of creation
    rows,      \* search_results and pipeline_tool_calls, each with the attempt that wrote it
    requests,  \* requests being handled at the backend
    calls,     \* calls made so far, in order
    done,      \* how often each of them has been carried out (history variable)
    attempt,   \* attempts made of the call under way
    awaited,   \* whether the worker waits for a reply to the last attempt
    step,      \* what the worker does next
    own,       \* its run
    executed,  \* queries_executed
    found,     \* search_results_found
    buffer     \* number of tool calls recorded by the collector

backend == <<runs, rows, requests>>
client == <<calls, attempt, awaited>>
worker == <<step, own, executed, found, buffer>>
vars == <<backend, done, client, worker>>

Kinds == {"create", "results", "telemetry", "finish"}
Call == [kind : Kinds, run : Nat, size : Nat, outcome : {"pending", "returned", "raised"}]
Calling == calls # <<>> /\ calls[Len(calls)].outcome = "pending"

\* The call a request or a row belongs to.
Of(r) == calls[r.call]
-------------------------------------------------------------------------------
(* The client: _api_request.                                               *)

Begin(kind, size) ==
    /\ calls' = Append(calls, [kind |-> kind, run |-> own, size |-> size, outcome |-> "pending"])
    /\ done' = Append(done, 0)
    /\ attempt' = 0 /\ awaited' = FALSE

NoCall == UNCHANGED <<client, done>>

Ending(outcome) ==
    /\ calls' = [calls EXCEPT ![Len(calls)].outcome = outcome]
    /\ awaited' = FALSE
    /\ UNCHANGED attempt

Send ==
    /\ Calling /\ ~awaited /\ attempt < MaxRetries
    /\ attempt' = attempt + 1
    /\ awaited' = TRUE
    /\ requests' = requests \cup {[call |-> Len(calls), attempt |-> attempt + 1, written |-> 0, row |-> 0]}
    /\ UNCHANGED <<runs, rows, calls, done, worker>>

\* A reply reaches the worker only if it still waits for that attempt.
Hears(r) == Calling /\ awaited /\ r.call = Len(calls) /\ r.attempt = attempt
Late == {r \in requests : ~Hears(r)}

\* The request the worker stops waiting for is lost, with or without its reply, or
\* is still to be carried out.
Abandoned ==
    \/ requests' = Late
    \/ Cardinality(Late) < MaxLate /\ UNCHANGED requests

\* Mutant: a time-out is taken for an answer.
TimeOutReturns ==
    /\ Faulty /\ Calling /\ awaited
    /\ Abandoned
    /\ IF attempt < MaxRetries
       THEN awaited' = FALSE /\ UNCHANGED <<calls, attempt>>
       ELSE Ending("returned")
    /\ UNCHANGED <<runs, rows, done, worker>>

\* No connection, or no reply within the time-out.
TimeOut ==
    /\ Faulty /\ Calling /\ awaited
    /\ Abandoned
    /\ IF attempt < MaxRetries
       THEN awaited' = FALSE /\ UNCHANGED <<calls, attempt>>
       ELSE Ending("raised")
    /\ UNCHANGED <<runs, rows, done, worker>>

\* What the client makes of a status code: server errors are tried again, except
\* at the last attempt, and any 4xx is final.
Retryable == {429, 500, 502, 503, 504}
Reaction(status) ==
    IF status \in 400..499 THEN "raised"
    ELSE IF status \in Retryable /\ attempt < MaxRetries THEN "again"
    ELSE IF status >= 400 THEN "raised" ELSE "returned"

Reply(r, status) ==
    IF ~Hears(r) THEN UNCHANGED client
    ELSE IF Reaction(status) = "again" THEN awaited' = FALSE /\ UNCHANGED <<calls, attempt>>
    ELSE Ending(Reaction(status))
-------------------------------------------------------------------------------
(* The backend.  The run of a request was created and committed before its *)
(* id was known to the worker, and runs are never deleted: no 404.         *)

Row(r, rank) == [call |-> r.call, attempt |-> r.attempt, rank |-> rank]

\* How many commits a request takes: one per search result, one otherwise.
Commits(c) == IF c.kind = "results" THEN c.size ELSE 1

Handling(r) == r \in requests /\ r.written < Commits(Of(r))
Committed(r, row) ==
    /\ requests' = (requests \ {r}) \cup
          {[call |-> r.call, attempt |-> r.attempt, written |-> r.written + 1, row |-> row]}
    /\ done' = IF r.written + 1 = Commits(Of(r)) THEN [done EXCEPT ![r.call] = @ + 1] ELSE done

CreateRun(r) ==
    /\ Handling(r) /\ Of(r).kind = "create"
    /\ runs' = Append(runs, [status |-> "running", found |-> 0])
    /\ Committed(r, Len(runs) + 1)
    /\ UNCHANGED <<rows, client, worker>>

StoreResult(r) ==
    /\ Handling(r) /\ Of(r).kind = "results"
    /\ rows' = rows \cup {Row(r, r.written + 1)}
    /\ Committed(r, 0)
    /\ UNCHANGED <<runs, client, worker>>

\* Mutant: tool calls are committed one by one, and the handler stops at the first.
StoreFirstToolCall(r) ==
    /\ Handling(r) /\ Of(r).kind = "telemetry"
    /\ rows' = rows \cup {Row(r, 1)}
    /\ Committed(r, 0)
    /\ UNCHANGED <<runs, client, worker>>

\* All tool calls in one transaction.
StoreToolCalls(r) ==
    /\ Handling(r) /\ Of(r).kind = "telemetry"
    /\ rows' = rows \cup {Row(r, rank) : rank \in 1..Of(r).size}
    /\ Committed(r, 0)
    /\ UNCHANGED <<runs, client, worker>>

\* Mutant: the newest run is closed, whichever the request names.
FinishNewest(r) ==
    /\ Handling(r) /\ Of(r).kind = "finish"
    /\ runs' = [runs EXCEPT ![Len(runs)] = [status |-> "closed", found |-> Of(r).size]]
    /\ Committed(r, 0)
    /\ UNCHANGED <<rows, client, worker>>

\* Nothing asks whether the run is closed already; finished_at is left out.
FinishRun(r) ==
    /\ Handling(r) /\ Of(r).kind = "finish"
    /\ runs' = [runs EXCEPT ![Of(r).run] = [status |-> "closed", found |-> Of(r).size]]
    /\ Committed(r, 0)
    /\ UNCHANGED <<rows, client, worker>>

\* Mutant: the id is taken from every reply.
AnswerAny(r) ==
    /\ r \in requests /\ r.written = Commits(Of(r))
    /\ requests' = requests \ {r}
    /\ Reply(r, 201)
    /\ own' = IF Hears(r) THEN r.row ELSE own
    /\ UNCHANGED <<runs, rows, done, step, executed, found, buffer>>

\* The reply to create names the row of that attempt.
Answer(r) ==
    /\ r \in requests /\ r.written = Commits(Of(r))
    /\ requests' = requests \ {r}
    /\ Reply(r, 201)
    /\ own' = IF Of(r).kind = "create" /\ Hears(r) THEN r.row ELSE own
    /\ UNCHANGED <<runs, rows, done, step, executed, found, buffer>>

\* The handler raises, before or between its commits or after the last.
Break(r) ==
    /\ Faulty /\ r \in requests
    /\ requests' = requests \ {r}
    /\ Reply(r, 500)
    /\ UNCHANGED <<runs, rows, done, worker>>
-------------------------------------------------------------------------------
(* The worker: run_once, as far as it concerns these calls.                *)

Resting == step = "idle" /\ ~Calling
At(s) == step = s /\ ~Calling
Last == calls[Len(calls)]

StartRun ==
    /\ Resting /\ Cardinality({i \in DOMAIN calls : calls[i].kind = "create"}) < MaxRuns
    /\ Begin("create", 1)
    /\ step' = "create"
    /\ executed' = 0 /\ found' = 0 /\ buffer' = 0
    /\ UNCHANGED <<backend, own>>

\* A create that fails ends the process.
Created ==
    /\ At("create")
    /\ step' = IF Last.outcome = "returned" THEN "search" ELSE "idle"
    /\ UNCHANGED <<backend, done, client, own, executed, found, buffer>>

\* A query fails or yields nothing usable: a tool call is recorded, nothing is saved.
SearchNothing ==
    /\ At("search") /\ executed < Queries
    /\ executed' = executed + 1 /\ buffer' = buffer + 1
    /\ UNCHANGED <<backend, done, client, step, own, found>>

Search ==
    /\ At("search") /\ executed < Queries
    /\ executed' = executed + 1 /\ buffer' = buffer + 1
    /\ \E n \in 1..MaxResults : Begin("results", n)
    /\ step' = "save"
    /\ UNCHANGED <<backend, own, found>>

\* Mutant: the results are counted before they are saved.
SavedAnyway ==
    /\ At("save")
    /\ found' = found + Last.size
    /\ step' = "search"
    /\ UNCHANGED <<backend, done, client, own, executed, buffer>>

\* The number of results sent is counted, if the call returns.
Saved ==
    /\ At("save")
    /\ found' = IF Last.outcome = "returned" THEN found + Last.size ELSE found
    /\ step' = "search"
    /\ UNCHANGED <<backend, done, client, own, executed, buffer>>

\* Fetching pages records tool calls too; without a record there is nothing to flush.
SearchDone ==
    /\ At("search") /\ executed = Queries
    /\ \E pages \in 0..PageCalls :
          IF buffer + pages > 0 THEN Begin("telemetry", buffer + pages) ELSE NoCall
    /\ step' = "flush"
    /\ UNCHANGED <<backend, own, executed, found, buffer>>

\* The buffer is cleared whether the call returned or not.
Flushed ==
    /\ At("flush")
    /\ buffer' = 0
    /\ Begin("finish", found)
    /\ step' = "finish"
    /\ UNCHANGED <<backend, own, executed, found>>

Finished ==
    /\ At("finish")
    /\ step' = "idle"
    /\ UNCHANGED <<backend, done, client, own, executed, found, buffer>>

\* A call under way is given up; what has been sent stays on its way.
Crash ==
    /\ Faulty /\ step # "idle"
    /\ IF Calling THEN Ending("raised") ELSE UNCHANGED client
    /\ IF awaited THEN Abandoned ELSE UNCHANGED requests
    /\ step' = "idle" /\ buffer' = 0
    /\ UNCHANGED <<runs, rows, done, own, executed, found>>
-------------------------------------------------------------------------------
Init ==
    /\ runs = <<>> /\ rows = {} /\ requests = {}
    /\ calls = <<>> /\ done = <<>> /\ attempt = 0 /\ awaited = FALSE
    /\ step = "idle" /\ own = 0 /\ executed = 0 /\ found = 0 /\ buffer = 0

Handle(r) ==
    CreateRun(r) \/ StoreResult(r) \/ StoreToolCalls(r) \/ FinishRun(r) \/ Answer(r)

Work ==
    \/ Created \/ SearchNothing \/ Search \/ Saved \/ SearchDone \/ Flushed \/ Finished
    \/ Send \/ TimeOut

Next ==
    \/ StartRun \/ Work \/ Crash
    \/ \E r \in requests : Handle(r) \/ Break(r)

Spec == Init /\ [][Next]_vars
-------------------------------------------------------------------------------
(* Properties.                                                             *)

\* The types; a request belongs to an attempt that was made, and the run that a
\* call names is a row.
TypeOK ==
    /\ runs \in Seq([status : {"running", "closed"}, found : Nat])
    /\ rows \subseteq [call : DOMAIN calls, attempt : 1..MaxRetries, rank : Nat]
    /\ requests \subseteq [call : DOMAIN calls, attempt : 1..MaxRetries, written : Nat, row : 0..Len(runs)]
    /\ calls \in Seq(Call) /\ done \in [DOMAIN calls -> Nat]
    /\ attempt \in 0..MaxRetries /\ awaited \in BOOLEAN
    /\ step \in {"idle", "create", "search", "save", "flush", "finish"}
    /\ own \in 0..Len(runs)
    /\ executed \in 0..Queries /\ found \in Nat /\ buffer \in Nat
    /\ \A i \in DOMAIN calls : calls[i].kind # "create" => calls[i].run \in DOMAIN runs

\* A run loses tool calls only if the worker was told that they could not be stored: a
\* flush that returned has stored them, all by one of its attempts, although others were
\* lost, failed or came late, and no run is closed before its flush is over. (They may be
\* stored more than once, as Delivery says of every call.)
Copy(c, n) == \A rank \in 1..calls[c].size : [call |-> c, attempt |-> n, rank |-> rank] \in rows
TelemetryStored ==
    \A c \in DOMAIN calls : calls[c].kind = "telemetry" =>
        /\ calls[c].outcome = "returned" => \E n \in 1..MaxRetries : Copy(c, n)
        /\ runs[calls[c].run].status = "closed" => calls[c].outcome # "pending"

\* The results that a closed run reports are stored, each at least once,
\* although they were stored row by row in requests that failed half-way.
Stored(i) == {<<r.call, r.rank>> : r \in {s \in rows : Of(s).kind = "results" /\ Of(s).run = i}}
ReportedAreStored == \A i \in DOMAIN runs : runs[i].found <= Cardinality(Stored(i))

\* What a run's row reports changes once, when a request of its own run closes it:
\* rows left by a lost or repeated create stay as they are, and requests that come
\* late, or again, write what is there. (Only finished_at, left out here, moves.)
ClosedOnce ==
    [][\A i \in DOMAIN runs : runs'[i] # runs[i] =>
          /\ runs[i].status = "running"
          /\ \E c \in DOMAIN calls : calls[c].kind = "finish" /\ calls[c].run = i]_vars

\* Each call does to the backend what Delivery promises: it is carried out once
\* or more if it returns, and MaxRetries times at the most.
MaxCalls == MaxRuns * (Queries + 3)
Outcomes == [c \in 1..MaxCalls |-> IF c \in DOMAIN calls THEN calls[c].outcome ELSE "unsent"]
Performed == [c \in 1..MaxCalls |-> IF c \in DOMAIN calls THEN done[c] ELSE 0]

Abstract == INSTANCE Delivery WITH
    Call <- 1..MaxCalls, Limit <- MaxRetries, outcome <- Outcomes, done <- Performed

Delivers == Abstract!Spec
===============================================================================
