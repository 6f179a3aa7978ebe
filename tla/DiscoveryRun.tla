------------------------------ MODULE DiscoveryRun ------------------------------
(***************************************************************************)
(* The worker's discovery run: search, fetch, extract, close, against a    *)
(* backend reached by HTTP.  A request is sent up to MaxAttempts times and *)
(* may have been carried out although its reply was lost, so one call may  *)
(* take effect several times, and a call that fails may have taken effect. *)
(* The effects of a call come before the worker goes on: a request that    *)
(* outlives its time-out by that much is not modelled.                     *)
(*                                                                         *)
(* Runs follow one another (a crash leaves its run as it is); meanwhile    *)
(* manual ingests store documents too.  A document is its visible text,    *)
(* which is what deduplication by hash tells apart.                        *)
(***************************************************************************)
EXTENDS Naturals, Sequences, FiniteSets

CONSTANTS
    Url,          \* canonical URLs
    Text,         \* visible texts of pages
    Name, NoName, \* business names, NoName for a candidate without one
    Queries,      \* number of query templates
    MaxUrls,      \* max_urls_per_run
    MaxPages,     \* llm_page_limit
    MaxFound,     \* bound on the events extracted from a page
    MaxAttempts,  \* max_retries of the API client
    MaxRuns,      \* bound on the search runs ever created
    HasKey,       \* whether OPENAI_API_KEY is set
    Faulty        \* whether calls fail and the worker crashes

ASSUME RunAssumption ==
    /\ NoName \notin Name
    /\ IsFiniteSet(Url)
    /\ {Queries, MaxUrls, MaxPages, MaxFound, MaxRuns} \subseteq Nat
    /\ MaxAttempts \in Nat \ {0}
    /\ HasKey \in BOOLEAN /\ Faulty \in BOOLEAN

VARIABLES
    docs,     \* stored source documents
    events,   \* number of candidates stored per document and business name
    llmRows,  \* how often the LLM calls of a document's page are recorded
    runs,     \* search_runs rows, in order of creation
    pc,       \* what the worker is doing
    sum,      \* the RunSummary of the current run
    outcome,  \* its final_status
    toFetch,  \* URLs to be fetched
    queue,    \* new documents to be extracted
    page,     \* document whose candidates are being saved
    pending,  \* names of the candidates left to save
    withCalls,\* whether the next candidate carries the LLM calls
    failed,   \* history: searches of this run that failed
    judged    \* history: pages sent to the LLM, with the verdict

backend == <<docs, events, llmRows, runs>>
local == <<pc, sum, outcome, toFetch, queue, page, pending, withCalls>>
history == <<failed, judged>>
vars == <<backend, local, history>>

Counters == {"executed", "found", "attempted", "created", "skipped",
             "fetchErrors", "extractionErrors"}
Verdicts == {"error", "irrelevant", "empty", "events"}

\* What finish_search_run reports: extraction errors stay with the worker. A row
\* has no counters before (NULL, here 0).
Reported(counts) == [c \in Counters \ {"extractionErrors"} |-> counts[c]]
NoCounts == [c \in Counters |-> 0]
Running == [status |-> "running", stats |-> Reported(NoCounts)]

Plus(f, x, n) == [f EXCEPT ![x] = @ + n]
Least(m, n) == IF m < n THEN m ELSE n

\* How often a call that is answered, or that fails, may have taken effect.
Answered == IF Faulty THEN 1..MaxAttempts ELSE {1}
Failing == IF Faulty THEN 0..MaxAttempts ELSE {}
-------------------------------------------------------------------------------
(* Start of a run.                                                         *)

\* Each attempt that gets through inserts a row; the last is the run's own. A
\* call that fails ends the process.
StartRun ==
    /\ pc = "idle"
    /\ \E n \in Answered \cup Failing, replied \in BOOLEAN :
          /\ n \in (IF replied THEN Answered ELSE Failing)
          /\ Len(runs) + n <= MaxRuns
          /\ runs' = runs \o [i \in 1..n |-> Running]
          /\ pc' = IF replied THEN "search" ELSE "idle"
    /\ sum' = NoCounts
    /\ outcome' = "completed"
    /\ toFetch' = {} /\ queue' = {} /\ pending' = <<>>
    /\ failed' = 0
    /\ UNCHANGED <<docs, events, llmRows, page, withCalls, judged>>
-------------------------------------------------------------------------------
(* Search phase.                                                           *)

Asking == pc = "search" /\ sum["executed"] < Queries

SearchFails ==
    /\ Asking
    /\ Faulty
    /\ sum' = Plus(sum, "executed", 1)
    /\ failed' = failed + 1
    /\ UNCHANGED <<backend, pc, outcome, toFetch, queue, page, pending, withCalls, judged>>

\* New URLs join the list in the order of the results, and the list is cut at
\* MaxUrls. They do so even when saving the results fails.
SearchReturns(found) ==
    /\ Asking
    /\ \E new \in SUBSET (found \ toFetch) :
          /\ Cardinality(new) = Least(Cardinality(found \ toFetch), MaxUrls - Cardinality(toFetch))
          /\ toFetch' = toFetch \cup new
    /\ \E saved \in {TRUE, ~Faulty} :
          sum' = Plus(Plus(sum, "executed", 1), "found", IF saved THEN Cardinality(found) ELSE 0)
    /\ UNCHANGED <<backend, pc, outcome, queue, page, pending, withCalls, history>>

\* Mutant: the search goes on until something is found.
SearchDoneFound ==
    /\ pc = "search" /\ sum["executed"] = Queries /\ toFetch # {}
    /\ pc' = "fetch"
    /\ UNCHANGED <<backend, sum, outcome, toFetch, queue, page, pending, withCalls, history>>

\* With nothing to fetch the run ends here, with the status it started with.
SearchDone ==
    /\ pc = "search" /\ sum["executed"] = Queries
    /\ pc' = IF toFetch = {} THEN "close" ELSE "fetch"
    /\ UNCHANGED <<backend, sum, outcome, toFetch, queue, page, pending, withCalls, history>>
-------------------------------------------------------------------------------
(* Fetch phase.                                                            *)

Fetching(u) ==
    /\ pc = "fetch" /\ u \in toFetch
    /\ toFetch' = toFetch \ {u}

\* The fetch fails, yields no text, or its text cannot be normalized.
FetchFails(u) ==
    /\ Fetching(u)
    /\ sum' = Plus(Plus(sum, "attempted", 1), "fetchErrors", 1)
    /\ UNCHANGED <<backend, pc, outcome, queue, page, pending, withCalls, history>>

\* Mutant: the error is not counted.
StoreFailsSilently(u, t) ==
    /\ Fetching(u)
    /\ \E n \in Failing : docs' = IF n = 0 THEN docs ELSE docs \cup {t}
    /\ sum' = Plus(sum, "attempted", 1)
    /\ UNCHANGED <<events, llmRows, runs, pc, outcome, queue, page, pending, withCalls, history>>

StoreFails(u, t) ==
    /\ Fetching(u)
    /\ \E n \in Failing : docs' = IF n = 0 THEN docs ELSE docs \cup {t}
    /\ sum' = Plus(Plus(sum, "attempted", 1), "fetchErrors", 1)
    /\ UNCHANGED <<events, llmRows, runs, pc, outcome, queue, page, pending, withCalls, history>>

\* Mutant: the document is reported before it is committed, and lost.
StoreUncommitted(u, t) ==
    /\ Fetching(u)
    /\ t \notin docs
    /\ sum' = Plus(Plus(sum, "attempted", 1), "created", 1)
    /\ queue' = IF sum["created"] < MaxPages THEN queue \cup {t} ELSE queue
    /\ UNCHANGED <<backend, pc, outcome, page, pending, withCalls, history>>

\* Only the first attempt to take effect reports the document as created.
StoreCreates(u, t) ==
    /\ Fetching(u)
    /\ t \notin docs
    /\ docs' = docs \cup {t}
    /\ sum' = Plus(Plus(sum, "attempted", 1), "created", 1)
    /\ queue' = IF sum["created"] < MaxPages THEN queue \cup {t} ELSE queue
    /\ UNCHANGED <<events, llmRows, runs, pc, outcome, page, pending, withCalls, history>>

\* Mutant: duplicates are extracted too.
StoreSkipsQueued(u, t) ==
    /\ Fetching(u)
    /\ t \in docs \/ \E n \in Answered : n > 1
    /\ docs' = docs \cup {t}
    /\ sum' = Plus(Plus(sum, "attempted", 1), "skipped", 1)
    /\ queue' = queue \cup {t}
    /\ UNCHANGED <<events, llmRows, runs, pc, outcome, page, pending, withCalls, history>>

StoreSkips(u, t) ==
    /\ Fetching(u)
    /\ t \in docs \/ \E n \in Answered : n > 1
    /\ docs' = docs \cup {t}
    /\ sum' = Plus(Plus(sum, "attempted", 1), "skipped", 1)
    /\ UNCHANGED <<events, llmRows, runs, pc, outcome, queue, page, pending, withCalls, history>>

FetchDone ==
    /\ pc = "fetch" /\ toFetch = {}
    /\ outcome' = IF sum["fetchErrors"] > 0 \/ sum["found"] = 0 THEN "partial" ELSE "completed"
    /\ pc' = IF queue = {} \/ ~HasKey THEN "close" ELSE "extract"
    /\ UNCHANGED <<backend, sum, toFetch, queue, page, pending, withCalls, history>>
-------------------------------------------------------------------------------
(* Extraction phase.                                                       *)

\* Mutant: nobody looks for the candidate among those of the document.
DeliveredAnew(t, name, claims, calls, n) ==
    /\ events' = Plus(events, <<t, name>>, IF name # NoName \/ claims THEN n ELSE 0)
    /\ llmRows' = Plus(llmRows, t, IF calls THEN n ELSE 0)

\* The effect of n deliveries of a candidate: one with a name is stored unless
\* the document has it already, one with neither name nor claims is not stored.
Delivered(t, name, claims, calls, n) ==
    LET stored == IF name # NoName THEN IF events[<<t, name>>] = 0 THEN Least(n, 1) ELSE 0
                                   ELSE n
    IN  /\ events' = Plus(events, <<t, name>>, IF name # NoName \/ claims THEN stored ELSE 0)
        /\ llmRows' = Plus(llmRows, t, IF calls THEN stored ELSE 0)

Judging(t, verdict) ==
    /\ pc = "extract" /\ t \in queue
    /\ queue' = queue \ {t}
    /\ judged' = Append(judged, [text |-> t, verdict |-> verdict])

GraphFails(t) ==
    /\ Faulty
    /\ Judging(t, "error")
    /\ sum' = Plus(sum, "extractionErrors", 1)
    /\ UNCHANGED <<backend, pc, outcome, toFetch, page, pending, withCalls, failed>>

\* A failure to save the LLM calls is not counted.
Irrelevant(t) ==
    /\ Judging(t, "irrelevant")
    /\ \E n \in Answered \cup Failing : Delivered(t, NoName, FALSE, TRUE, n)
    /\ UNCHANGED <<docs, runs, pc, sum, outcome, toFetch, page, pending, withCalls, failed>>

\* The reason of a verdict may be null; printing it raises TypeError, which only
\* run_once catches.
IrrelevantNoReason(t) ==
    /\ Judging(t, "irrelevant")
    /\ outcome' = "failed"
    /\ pc' = "close"
    /\ UNCHANGED <<backend, sum, toFetch, page, pending, withCalls, failed>>

\* A relevant page without events: counting or extraction found none, or failed.
NoEvents(t) ==
    /\ Judging(t, "empty")
    /\ sum' = Plus(sum, "extractionErrors", 1)
    /\ UNCHANGED <<backend, pc, outcome, toFetch, page, pending, withCalls, failed>>

Relevant(t, names) ==
    /\ Judging(t, "events")
    /\ names # <<>>
    /\ page' = t /\ pending' = names /\ withCalls' = TRUE
    /\ pc' = "save"
    /\ UNCHANGED <<backend, sum, outcome, toFetch, failed>>

\* Only the first candidate of a page carries its LLM calls.
Saving(counts) ==
    /\ pc = "save" /\ pending # <<>>
    /\ \E n \in counts, claims \in BOOLEAN :
          Delivered(page, Head(pending), claims, withCalls, n)
    /\ pending' = Tail(pending)
    /\ withCalls' = FALSE
    /\ UNCHANGED <<docs, runs, pc, outcome, toFetch, queue, page, history>>

SaveAnswered == Saving(Answered) /\ UNCHANGED sum

SaveFails == Saving(Failing) /\ sum' = Plus(sum, "extractionErrors", 1)

PageDone ==
    /\ pc = "save" /\ pending = <<>>
    /\ pc' = "extract"
    /\ UNCHANGED <<backend, sum, outcome, toFetch, queue, page, pending, withCalls, history>>

\* Mutant: the status decided before extraction stands.
ExtractDoneAsFetched ==
    /\ pc = "extract" /\ queue = {}
    /\ pc' = "close"
    /\ UNCHANGED <<backend, sum, outcome, toFetch, queue, page, pending, withCalls, history>>

ExtractDone ==
    /\ pc = "extract" /\ queue = {}
    /\ outcome' = IF sum["extractionErrors"] > 0 /\ outcome = "completed" THEN "partial" ELSE outcome
    /\ pc' = "close"
    /\ UNCHANGED <<backend, sum, toFetch, queue, page, pending, withCalls, history>>
-------------------------------------------------------------------------------
(* End of a run.                                                           *)

\* A failure to close the run is only logged.
Close ==
    /\ pc = "close"
    /\ \E n \in Answered \cup Failing :
          runs' = IF n = 0 THEN runs
                  ELSE [runs EXCEPT ![Len(runs)] = [status |-> outcome, stats |-> Reported(sum)]]
    /\ pc' = "idle"
    /\ UNCHANGED <<docs, events, llmRows, sum, outcome, toFetch, queue, page, pending,
                   withCalls, history>>

Crash ==
    /\ Faulty
    /\ pc # "idle"
    /\ pc' = "idle"
    /\ UNCHANGED <<backend, sum, outcome, toFetch, queue, page, pending, withCalls, history>>

\* A manual ingest stores a document, for which it does its own extraction.
ManualStore(t) ==
    /\ t \notin docs
    /\ docs' = docs \cup {t}
    /\ UNCHANGED <<events, llmRows, runs, local, history>>
-------------------------------------------------------------------------------
Init ==
    /\ docs = {}
    /\ events = [p \in Text \X (Name \cup {NoName}) |-> 0]
    /\ llmRows = [t \in Text |-> 0]
    /\ runs = <<>>
    /\ pc = "idle"
    /\ sum = NoCounts
    /\ outcome = "completed"
    /\ toFetch = {} /\ queue = {}
    /\ page \in Text
    /\ pending = <<>>
    /\ withCalls = FALSE
    /\ failed = 0
    /\ judged = <<>>

Candidates == UNION {[1..n -> Name \cup {NoName}] : n \in 1..MaxFound}

\* What a run under way does next.
Step ==
    \/ SearchFails \/ (\E found \in SUBSET Url : SearchReturns(found)) \/ SearchDone
    \/ \E u \in Url : FetchFails(u)
    \/ \E u \in Url, t \in Text : StoreFails(u, t) \/ StoreCreates(u, t) \/ StoreSkips(u, t)
    \/ FetchDone
    \/ \E t \in Text : GraphFails(t) \/ Irrelevant(t) \/ IrrelevantNoReason(t) \/ NoEvents(t)
    \/ \E t \in Text, names \in Candidates : Relevant(t, names)
    \/ SaveAnswered \/ SaveFails \/ PageDone \/ ExtractDone
    \/ Close

Next == StartRun \/ Step \/ Crash \/ \E t \in Text : ManualStore(t)

Spec == Init /\ [][Next]_vars

\* Every call has a timeout, so a run under way does not stand still.
FairSpec == Spec /\ WF_vars(Step)
-------------------------------------------------------------------------------
(* Properties.                                                             *)

RunRow == [status : {"running", "completed", "partial", "failed"},
           stats : [Counters \ {"extractionErrors"} -> Nat]]

\* The types; the documents known to the worker are stored documents.
TypeOK ==
    /\ docs \in SUBSET Text
    /\ events \in [Text \X (Name \cup {NoName}) -> Nat]
    /\ llmRows \in [Text -> Nat]
    /\ runs \in Seq(RunRow)
    /\ pc \in {"idle", "search", "fetch", "extract", "save", "close"}
    /\ sum \in [Counters -> Nat]
    /\ outcome \in {"completed", "partial", "failed"}
    /\ toFetch \in SUBSET Url
    /\ queue \in SUBSET docs
    /\ page \in Text
    /\ pending \in Seq(Name \cup {NoName})
    /\ withCalls \in BOOLEAN
    /\ failed \in Nat
    /\ judged \in Seq([text : docs, verdict : Verdicts])

\* The counters a run reports account for every URL attempted, also when the
\* run failed half-way: each was stored, skipped as a duplicate, or an error.
AddUp(counts) == counts["attempted"] = counts["created"] + counts["skipped"] + counts["fetchErrors"]
CountsAddUp == AddUp(sum) /\ \A i \in DOMAIN runs : AddUp(runs[i].stats)

\* A run that is about to be closed as completed had no error in fetching or in
\* extraction, and the results of at least one query were saved if it attempted any
\* URL. Results of the other queries may be missing: that saving them failed is only
\* logged, and their URLs are fetched all the same.
CompletedIsClean ==
    pc = "close" /\ outcome = "completed" =>
        /\ sum["fetchErrors"] = 0 /\ sum["extractionErrors"] = 0
        /\ sum["attempted"] > 0 => sum["found"] > 0

\* No text is sent to the LLM twice by the worker: not by a later run, not
\* after a crash, a lost reply or a manual ingest.
ExtractedOnce ==
    \A i, j \in DOMAIN judged : judged[i].text = judged[j].text => i = j

\* However often a save is delivered, a document has at most one candidate per
\* business name.
NamedOnce == \A t \in Text, name \in Name : events[<<t, name>>] <= 1

\* A search run that has been closed keeps its status and its counters.
ClosedRunFrozen ==
    [][\A i \in DOMAIN runs : runs[i].status # "running" =>
          i \in DOMAIN runs' /\ runs'[i] = runs[i]]_vars

\* A run under way ends: it is closed, or gives up closing, or crashes.
RunEnds == pc # "idle" ~> pc = "idle"

\* A run with failed queries is not closed as completed.
FailedQueryIsPartial == pc = "close" /\ failed > 0 => outcome # "completed"
===============================================================================
