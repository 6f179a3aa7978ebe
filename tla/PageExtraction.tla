----------------------------- MODULE PageExtraction -----------------------------
(***************************************************************************)
(* The extraction phase of a run, in detail: the LLM graph that a page     *)
(* goes through, and the candidates that the worker then saves with the    *)
(* calls made for the page.  What the graph finds is free; a call to the   *)
(* LLM may fail at each node, and a call to the backend may take effect    *)
(* several times, or some number of times although it fails.               *)
(*                                                                         *)
(* Every step is a step of DiscoveryRun, where the verdict on a page is an *)
(* input and candidates are counted.                                       *)
(***************************************************************************)
EXTENDS Integers, Sequences, FiniteSets

CONSTANTS
    Doc,          \* new documents of the run
    Name, NoName, \* business names, NoName for null
    MaxFound,     \* bound on the events of a page
    MaxAttempts,  \* max_retries of the API client
    Faulty        \* whether calls fail and the worker crashes

ASSUME ExtractionAssumption ==
    /\ IsFiniteSet(Doc) /\ Doc # {}
    /\ NoName \notin Name
    /\ {MaxFound, MaxAttempts} \subseteq Nat \ {0}
    /\ Faulty \in BOOLEAN

VARIABLES
    todo,     \* documents not yet extracted
    page,     \* document in hand
    node,     \* node of the graph to be run, or what the worker does after it
    graph,    \* ExtractionState of the page
    unsaved,  \* extracted events of the page that are left to save
    first,    \* whether the next of them is the first
    db,       \* rows of events, llm_calls and processing_decisions
    sum,      \* RunSummary
    outcome,  \* final_status
    judged,   \* history: pages that went through the graph, with the verdict
    offered   \* history: what the graph extracted of each document

local == <<todo, page, node, graph, unsaved, first, sum, outcome>>
vars == <<local, db, judged, offered>>

\* A claim without a value, or a date that is none, passes the worker's schema and
\* not the backend's: such an event is not valid. Whether there are claims only
\* matters for a valid event without a name.
Event == {e \in [name : Name \cup {NoName}, claims : BOOLEAN, valid : BOOLEAN] :
             e.name # NoName \/ ~e.valid => e.claims}
Nothing == [name |-> NoName, claims |-> FALSE, valid |-> TRUE]

CallType == {"classify_relevance", "classify_event_count", "extract_event", "extract_multi_event"}
Extracting == {"extract_event", "extract_multi_event"}
LLMCall == [type : CallType, status : {"success", "error"}]

Counters == {"processed", "irrelevant", "created", "errors"}
Plus(c, n) == sum' = [sum EXCEPT ![c] = @ + n]

\* The fields of ExtractionState that are not set when the graph starts are Unset. The
\* state is dropped when the worker is done with the page.
Unset == "unset"
Fresh == [relevant |-> Unset, reason |-> Unset, count |-> Unset, events |-> <<>>, calls |-> <<>>]
-------------------------------------------------------------------------------
(* The graph.  The three *_llm_call fields are kept in the order in which  *)
(* the worker collects them.                                               *)

InGraph == {"classify_relevance", "classify_event_count", "extract_single_event",
            "extract_multi_event"}

\* Mutant: the loop looks at its first document again.
BeginFirst ==
    /\ node = "next" /\ todo # {}
    /\ page' = CHOOSE d \in Doc : TRUE
    /\ node' = "classify_relevance"
    /\ Plus("processed", 1)
    /\ UNCHANGED <<todo, graph, unsaved, first, outcome, db, judged, offered>>

\* graph.invoke with a new state. The documents come in some fixed order.
BeginPage ==
    /\ node = "next" /\ todo # {}
    /\ page' = CHOOSE d \in todo : TRUE
    /\ node' = "classify_relevance"
    /\ Plus("processed", 1)
    /\ UNCHANGED <<todo, graph, unsaved, first, outcome, db, judged, offered>>

Ran(type, ok) ==
    Append(graph.calls, [type |-> type, status |-> IF ok THEN "success" ELSE "error"])

Asked(ok) == ok \/ Faulty
Inside == UNCHANGED <<todo, page, unsaved, first, sum, outcome, db, judged, offered>>

\* Mutant: a page that could not be classified is taken to be relevant.
ClassifyRelevanceHopeful ==
    /\ node = "classify_relevance"
    /\ \E ok, relevant \in BOOLEAN, reason \in {"text", "null"} :
          /\ Asked(ok)
          /\ graph' = [graph EXCEPT !.relevant = ~ok \/ relevant, !.reason = reason,
                                    !.calls = Ran("classify_relevance", ok)]
          /\ node' = IF ~ok \/ relevant THEN "classify_event_count" ELSE "end"
    /\ Inside

\* A failed call makes the page irrelevant, with the failure as the reason; the
\* LLM may give no reason.
ClassifyRelevance ==
    /\ node = "classify_relevance"
    /\ \E ok, relevant \in BOOLEAN, reason \in {"text", "null"} :
          /\ Asked(ok)
          /\ ~ok => ~relevant /\ reason = "text"
          /\ graph' = [graph EXCEPT !.relevant = relevant, !.reason = reason,
                                    !.calls = Ran("classify_relevance", ok)]
          /\ node' = IF relevant THEN "classify_event_count" ELSE "end"
    /\ Inside

ClassifyEventCount ==
    /\ node = "classify_event_count"
    /\ \E ok \in BOOLEAN, count \in {"single", "multi", "none"} :
          /\ Asked(ok)
          /\ ~ok => count = "none"
          /\ graph' = [graph EXCEPT !.count = count, !.calls = Ran("classify_event_count", ok)]
          /\ node' = CASE count = "single" -> "extract_single_event"
                       [] count = "multi" -> "extract_multi_event"
                       [] OTHER -> "end"
    /\ Inside

Extract(type, found) ==
    \E ok \in BOOLEAN, events \in found \cup {<<>>} :
        /\ Asked(ok)
        /\ IF ok THEN events \in found ELSE events = <<>>
        /\ graph' = [graph EXCEPT !.events = events, !.calls = Ran(type, ok)]
        /\ node' = "end"

ExtractSingleEvent ==
    /\ node = "extract_single_event"
    /\ Extract("extract_event", {<<e>> : e \in Event})
    /\ Inside

ExtractMultiEvent ==
    /\ node = "extract_multi_event"
    /\ Extract("extract_multi_event", UNION {[1..n -> Event] : n \in 0..MaxFound})
    /\ Inside
-------------------------------------------------------------------------------
(* The backend: save_candidate_event, a transaction.                       *)

Recorded(d, doc, name) == \E i \in DOMAIN d.events : d.events[i] = [doc |-> doc, name |-> name]

\* Mutant: a decision is linked to the first call of the page.
TransactionFirstCall(d, doc, e, llm) ==
    IF e.name # NoName /\ Recorded(d, doc, e.name) THEN d
    ELSE LET calls == d.calls \o [i \in DOMAIN llm |-> [doc |-> doc, call |-> llm[i]]]
             stored == e.name # NoName \/ e.claims
             decision == [doc |-> doc,
                          value |-> IF stored THEN "candidate_created" ELSE "irrelevant",
                          event |-> IF stored THEN Len(d.events) + 1 ELSE 0,
                          call |-> IF llm = <<>> THEN 0 ELSE Len(d.calls) + 1]
         IN  [events |-> IF stored THEN Append(d.events, [doc |-> doc, name |-> e.name]) ELSE d.events,
              calls |-> calls,
              decisions |-> Append(d.decisions, decision)]

\* A candidate whose name the document has already writes nothing. One with
\* neither name nor claims stands for an irrelevant page, and its decision is
\* linked to the first call; any other decision is linked to the last.
Transaction(d, doc, e, llm) ==
    IF e.name # NoName /\ Recorded(d, doc, e.name) THEN d
    ELSE LET calls == d.calls \o [i \in DOMAIN llm |-> [doc |-> doc, call |-> llm[i]]]
             stored == e.name # NoName \/ e.claims
             decision == [doc |-> doc,
                          value |-> IF stored THEN "candidate_created" ELSE "irrelevant",
                          event |-> IF stored THEN Len(d.events) + 1 ELSE 0,
                          call |-> IF llm = <<>> THEN 0
                                   ELSE IF stored THEN Len(calls) ELSE Len(d.calls) + 1]
         IN  [events |-> IF stored THEN Append(d.events, [doc |-> doc, name |-> e.name]) ELSE d.events,
              calls |-> calls,
              decisions |-> Append(d.decisions, decision)]

\* n deliveries, one after the other.
After(n, e, llm) ==
    LET run[k \in 0..n] == IF k = 0 THEN db ELSE Transaction(run[k - 1], page, e, llm)
    IN  run[n]

\* How often a call that returns, or raises, may have taken effect: as in
\* DiscoveryRun, but a payload that the backend's schema refuses never does.
Answered == IF Faulty THEN 1..MaxAttempts ELSE {1}
Failing(e) == IF ~e.valid THEN {0} ELSE IF Faulty THEN 0..MaxAttempts ELSE {}

\* The reply is that to the last delivery, and says whether that one wrote an event.
Creates(n, e, llm) == Len(After(n, e, llm).events) > Len(After(n - 1, e, llm).events)
-------------------------------------------------------------------------------
(* The worker, after the graph.                                            *)

Judged(verdict) ==
    /\ todo' = todo \ {page}
    /\ judged' = Append(judged, [text |-> page, verdict |-> verdict])

\* What invoke raises is caught. The nodes catch what the LLM raises, so this is
\* the graph itself failing.
GraphFails ==
    /\ Faulty /\ node \in InGraph
    /\ Judged("error")
    /\ node' = "next" /\ graph' = Fresh
    /\ Plus("errors", 1)
    /\ UNCHANGED <<page, unsaved, first, outcome, db, offered>>

\* A null reason is printed before the calls are saved: TypeError, which ends the
\* phase.
IrrelevantNoReason ==
    /\ node = "end" /\ ~graph.relevant /\ graph.reason = "null"
    /\ Judged("irrelevant")
    /\ node' = "close" /\ outcome' = "failed" /\ graph' = Fresh
    /\ Plus("irrelevant", 1)
    /\ UNCHANGED <<page, unsaved, first, db, offered>>

\* The calls of an irrelevant page are sent with an empty candidate; whether that
\* succeeds is not looked at.
Irrelevant ==
    /\ node = "end" /\ ~graph.relevant /\ graph.reason # "null"
    /\ Judged("irrelevant")
    /\ node' = "next" /\ graph' = Fresh
    /\ Plus("irrelevant", 1)
    /\ \E n \in Answered \cup Failing(Nothing) : db' = After(n, Nothing, graph.calls)
    /\ UNCHANGED <<page, unsaved, first, outcome, offered>>

NoEvents ==
    /\ node = "end" /\ graph.relevant /\ graph.events = <<>>
    /\ Judged("empty")
    /\ node' = "next" /\ graph' = Fresh
    /\ Plus("errors", 1)
    /\ UNCHANGED <<page, unsaved, first, outcome, db, offered>>

Relevant ==
    /\ node = "end" /\ graph.relevant /\ graph.events # <<>>
    /\ Judged("events")
    /\ offered' = [offered EXCEPT ![page] = graph.events]
    /\ unsaved' = graph.events /\ first' = TRUE
    /\ node' = "save"
    /\ UNCHANGED <<page, graph, sum, outcome, db>>

Saving == node = "save" /\ unsaved # <<>>
Sent == IF first THEN graph.calls ELSE <<>>
Advance == unsaved' = Tail(unsaved) /\ first' = FALSE
Aside == UNCHANGED <<todo, page, node, graph, outcome, judged, offered>>

SaveAnswered ==
    /\ Saving
    /\ LET e == Head(unsaved) IN
          /\ e.valid
          /\ \E n \in Answered :
                /\ db' = After(n, e, Sent)
                /\ Plus("created", IF Creates(n, e, Sent) THEN 1 ELSE 0)
    /\ Advance /\ Aside

\* Mutant: the calls are sent with the next event too.
SaveFailsKeepingCalls ==
    /\ Saving
    /\ LET e == Head(unsaved) IN \E n \in Failing(e) : db' = After(n, e, Sent)
    /\ Plus("errors", 1)
    /\ unsaved' = Tail(unsaved) /\ UNCHANGED first
    /\ Aside

\* Mutant: the failure is only logged.
SaveFailsSilently ==
    /\ Saving
    /\ LET e == Head(unsaved) IN \E n \in Failing(e) : db' = After(n, e, Sent)
    /\ UNCHANGED sum
    /\ Advance /\ Aside

SaveFails ==
    /\ Saving
    /\ LET e == Head(unsaved) IN \E n \in Failing(e) : db' = After(n, e, Sent)
    /\ Plus("errors", 1)
    /\ Advance /\ Aside

PageDone ==
    /\ node = "save" /\ unsaved = <<>>
    /\ node' = "next" /\ graph' = Fresh
    /\ UNCHANGED <<todo, page, unsaved, first, sum, outcome, db, judged, offered>>

AllDone ==
    /\ node = "next" /\ todo = {}
    /\ node' = "close"
    /\ outcome' = IF sum["errors"] > 0 /\ outcome = "completed" THEN "partial" ELSE outcome
    /\ UNCHANGED <<todo, page, graph, unsaved, first, sum, db, judged, offered>>

Crash ==
    /\ Faulty /\ node \notin {"close", "crashed"}
    /\ node' = "crashed"
    /\ UNCHANGED <<todo, page, graph, unsaved, first, sum, outcome, db, judged, offered>>
-------------------------------------------------------------------------------
Init ==
    /\ todo = Doc
    /\ page = CHOOSE d \in Doc : TRUE
    /\ node = "next" /\ graph = Fresh
    /\ unsaved = <<>> /\ first = FALSE
    /\ db = [events |-> <<>>, calls |-> <<>>, decisions |-> <<>>]
    /\ sum = [c \in Counters |-> 0]
    /\ outcome \in {"completed", "partial"}
    /\ judged = <<>> /\ offered = [d \in Doc |-> <<>>]

Next ==
    \/ BeginPage \/ ClassifyRelevance \/ ClassifyEventCount
    \/ ExtractSingleEvent \/ ExtractMultiEvent
    \/ GraphFails \/ IrrelevantNoReason \/ Irrelevant \/ NoEvents \/ Relevant
    \/ SaveAnswered \/ SaveFails \/ PageDone \/ AllDone \/ Crash

Spec == Init /\ [][Next]_vars
-------------------------------------------------------------------------------
(* Properties.                                                             *)

\* The types; a page in hand that has not left the graph is still to do.
TypeOK ==
    /\ todo \subseteq Doc /\ page \in Doc
    /\ node \in InGraph \cup {"next", "end", "save", "close", "crashed"}
    /\ graph.calls \in Seq(LLMCall) /\ graph.events \in Seq(Event)
    /\ node \in InGraph \cup {"end"} => page \in todo
    /\ unsaved \in Seq(Event) /\ first \in BOOLEAN
    /\ db.events \in Seq([doc : Doc, name : Name \cup {NoName}])
    /\ db.calls \in Seq([doc : Doc, call : LLMCall])
    /\ db.decisions \in Seq([doc : Doc, value : {"candidate_created", "irrelevant"},
                             event : 0..Len(db.events), call : 0..Len(db.calls)])
    /\ sum \in [Counters -> Nat]
    /\ outcome \in {"completed", "partial", "failed"}

\* A decision that names a call names one of its own document: the successful
\* extraction for a candidate, the relevance call for an irrelevant page.
DecisionsCiteTheirCall ==
    \A i \in DOMAIN db.decisions :
        LET dec == db.decisions[i]
            cited == db.calls[dec.call]
        IN  dec.call # 0 =>
                /\ cited.doc = dec.doc
                /\ IF dec.value = "irrelevant" THEN cited.call.type = "classify_relevance"
                   ELSE cited.call.type \in Extracting /\ cited.call.status = "success"

\* A page for which a call failed leaves no candidate: an outage never puts
\* guesses into the database.
OutageLeavesNothing ==
    \A i \in DOMAIN db.calls : db.calls[i].call.status = "error" =>
        \A k \in DOMAIN db.events : db.events[k].doc # db.calls[i].doc

\* Rows of events, by document and name.
EventCount ==
    [p \in Doc \X (Name \cup {NoName}) |->
        Cardinality({i \in DOMAIN db.events : db.events[i] = [doc |-> p[1], name |-> p[2]]})]

\* What a completed phase has stored of a document, whatever was lost or repeated on the
\* way: one event for each business name that the graph extracted, none under any other
\* name, and each event that has claims but no name, at least once. It is not each event
\* that was extracted: the second of the same name on a page, a shop that opens in two
\* places, is answered as a duplicate and dropped, and the phase completed all the same.
Names(events) == {events[i].name : i \in DOMAIN events}
Nameless(events) == Cardinality({i \in DOMAIN events : events[i].name = NoName /\ events[i].claims})
CompletedStoredNames ==
    node = "close" /\ outcome = "completed" =>
        \A d \in Doc :
            /\ \A name \in Name :
                  EventCount[<<d, name>>] = IF name \in Names(offered[d]) THEN 1 ELSE 0
            /\ EventCount[<<d, NoName>>] >= Nameless(offered[d])

\* The phase as DiscoveryRun has it: the graph at work is a stutter, its end the
\* verdict on the page, and rows are counted.
CallCount ==
    [d \in Doc |-> Cardinality({i \in DOMAIN db.calls :
                        db.calls[i].doc = d /\ db.calls[i].call.type = "classify_relevance"})]
Phase ==
    CASE node = "save" -> "save" [] node = "close" -> "close"
      [] node = "crashed" -> "idle" [] OTHER -> "extract"
Summary ==
    [c \in {"executed", "found", "attempted", "created", "skipped", "fetchErrors",
            "extractionErrors"} |-> IF c = "extractionErrors" THEN sum["errors"] ELSE 0]
WithEvents == {i \in DOMAIN judged : judged[i].verdict = "events"}
Saved ==
    IF WithEvents = {} THEN CHOOSE d \in Doc : TRUE
    ELSE judged[CHOOSE i \in WithEvents : \A j \in WithEvents : j <= i].text
LeftNames == [i \in DOMAIN unsaved |-> unsaved[i].name]
Run == INSTANCE DiscoveryRun WITH
    Url <- {}, Text <- Doc, Queries <- 1, MaxUrls <- Cardinality(Doc),
    MaxPages <- Cardinality(Doc), MaxRuns <- 1, HasKey <- TRUE,
    docs <- Doc, events <- EventCount, llmRows <- CallCount,
    runs <- <<[status |-> "running", stats |-> <<>>]>>,
    pc <- Phase, sum <- Summary, toFetch <- {}, queue <- todo, page <- Saved,
    pending <- LeftNames, withCalls <- first, failed <- 0

AsDiscoveryRun == [][Run!Next]_(Run!vars)
===============================================================================
