-------------------------------- MODULE McpTools --------------------------------
(***************************************************************************)
(* A tool call of the worker: the client's attempts, each a request that   *)
(* the MCP server handles in a thread of its own, with retry loops of its  *)
(* own towards the web.  The client stops waiting at its deadline; the     *)
(* handler goes on.  Handlers share nothing, so one call at a time is all  *)
(* there is to look at, and seconds are counted from where an attempt      *)
(* starts.                                                                 *)
(***************************************************************************)
EXTENDS Integers, FiniteSets

CONSTANTS
    Providers,   \* values of SEARCH_PROVIDER
    MaxRetries,  \* max_retries of the worker
    Faulty       \* whether the MCP server fails or cannot be reached

ASSUME ToolsAssumption ==
    /\ Providers \subseteq {"duckduckgo", "brave", "duckduckgo+brave", "stub"}
    /\ MaxRetries \in Nat \ {0} /\ Faulty \in BOOLEAN

VARIABLES
    provider,  \* SEARCH_PROVIDER
    key,       \* whether BRAVE_SEARCH_API_KEY is set
    tool,      \* tool of the call under way, or NoTool
    attempt,   \* attempts made of it
    at,        \* "send", "wait" or "done"
    recorded,  \* outcome in the worker's telemetry, or "none"
    answer,    \* what the worker was given, or NoAnswer
    handlers,  \* requests at work in the MCP server
    gets,      \* requests for the page made for this call so far (history variable)
    faults     \* how each attempt of it failed, or "none" (history variable)

config == <<provider, key>>
vars == <<config, tool, attempt, at, recorded, answer, handlers, gets, faults>>

Tool == {"web.search", "web.fetch_page", "web.normalize_text"}
NoTool == "none"

\* Seconds.
RequestTimeout == 30
SearchDeadline == 12
Deadline(t) == IF t = "web.search" THEN SearchDeadline ELSE RequestTimeout

\* Mutant: searches are retried like everything else.
SameAttempts(t) == MaxRetries
Attempts(t) == IF t = "web.search" THEN 1 ELSE MaxRetries

FetchTimeout == 15
MaxFetchRetries == 3
\* Mutant: the base of the back-off is four seconds.
SlowBackoff(tries) == 4 * 2^tries
Backoff(tries) == 2^tries

SearchTimeout == 8
BraveTimeout == 10
MaxBraveRetries == 3
BraveWaits == {1, 5}   \* the header says how long, cut off at 5; 1 without one

\* How long an answer from the web takes: at once, up to Prompt, or nearly as long as the
\* client there waits.
Prompt == 8
Taking(timeout) == {d \in {1, Prompt} : d <= timeout} \cup {timeout}
-------------------------------------------------------------------------------
(* The worker's client: _post_with_retry.                                  *)

\* How an attempt fails: by a time-out of the client, a connection refused or lost, or a
\* status ("500" stands for 500, 502 and 503, "422" for those that mean nothing here).
Fault == {"lapsed", "lost", "408", "422", "429", "500", "504"}
NoFaults == [n \in 1..MaxRetries |-> "none"]

Retried == {"lapsed", "lost", "429", "500", "504"}

\* Mutant: a time-out is known by the type of the exception or its cause alone.
ByType(fault) ==
    CASE fault = "lapsed" -> "timeout" [] fault = "429" -> "rate_limit" [] OTHER -> "error"

\* A time-out is known by the type of the exception or its cause, or by a message that says
\* so, as those of "408 Request Timeout" and "504 Gateway Timeout" do. No message the client
\* raises speaks of a rate.
classify_outcome(fault) ==
    CASE fault \in {"lapsed", "408", "504"} -> "timeout"
      [] fault = "429" -> "rate_limit"
      [] OTHER -> "error"

NoAnswer == [status |-> "none", label |-> "none"]

Request(t, n) ==
    [attempt |-> n,
     does |-> CASE t = "web.fetch_page" -> "get" [] t = "web.normalize_text" -> "reply"
                [] OTHER -> "search",
     tries |-> 0, spent |-> 0, slow |-> 0, brave |-> 0,
     status |-> IF t = "web.normalize_text" THEN "success" ELSE "none",
     source |-> "none", late |-> FALSE]

Call(t) ==
    /\ tool = NoTool /\ handlers = {}
    /\ tool' = t /\ attempt' = 0 /\ at' = "send"
    /\ recorded' = "none" /\ answer' = NoAnswer /\ gets' = 0 /\ faults' = NoFaults
    /\ UNCHANGED <<config, handlers>>

Send ==
    /\ tool # NoTool /\ at = "send"
    /\ attempt' = attempt + 1 /\ at' = "wait"
    /\ handlers' = handlers \cup {Request(tool, attempt + 1)}
    /\ UNCHANGED <<config, tool, recorded, answer, gets, faults>>

Hears(h) == at = "wait" /\ h.attempt = attempt

\* The client is gone before anything later than its deadline happens.
Overdue(h) == Hears(h) /\ h.spent > Deadline(tool)

\* A failed attempt is followed by another if its failure is worth one and attempts are
\* left; else its exception is raised, and recorded.
Again(fault) ==
    /\ faults' = [faults EXCEPT ![attempt] = fault]
    /\ IF fault \in Retried /\ attempt < Attempts(tool)
       THEN at' = "send" /\ UNCHANGED recorded
       ELSE at' = "done" /\ recorded' = classify_outcome(fault)

TimeOut(h) ==
    /\ h \in handlers /\ Hears(h) /\ h.spent >= Deadline(tool)
    /\ handlers' = (handlers \ {h}) \cup {[h EXCEPT !.late = TRUE]}
    /\ Again("lapsed")
    /\ UNCHANGED <<config, tool, attempt, answer, gets>>

\* The handler fails, a proxy before it answers in its place, or the connection is refused
\* or lost.
Break(h) ==
    /\ Faulty /\ h \in handlers /\ ~Overdue(h)
    /\ handlers' = handlers \ {h}
    /\ IF Hears(h) THEN \E fault \in Fault \ {"lapsed"} : Again(fault)
       ELSE UNCHANGED <<at, recorded, faults>>
    /\ UNCHANGED <<config, tool, attempt, answer, gets>>

\* Mutant: the label says what was configured.
ConfiguredLabel(h) == provider

\* The provider a search response names.
Label(h) ==
    CASE provider = "stub" -> "stub"
      [] provider = "brave" -> "brave"
      [] provider = "duckduckgo+brave" /\ h.brave > 0 /\ h.source = "brave" -> "brave"
      [] OTHER -> "duckduckgo"

\* A page that could not be fetched is recorded as an error; a search is recorded as a
\* success whatever its results. A late answer goes nowhere.
Answer(h) ==
    /\ h \in handlers /\ h.does = "reply" /\ ~Overdue(h)
    /\ handlers' = handlers \ {h}
    /\ IF Hears(h)
       THEN /\ at' = "done"
            /\ answer' = [status |-> h.status,
                          label |-> IF tool = "web.search" THEN Label(h) ELSE "none"]
            /\ recorded' = IF h.status = "failed" THEN "error" ELSE "success"
       ELSE UNCHANGED <<at, answer, recorded>>
    /\ UNCHANGED <<config, tool, attempt, gets, faults>>

\* The worker goes on to another call. The handlers left may run on; they are
\* followed to their end before the next call.
Done ==
    /\ tool # NoTool /\ at = "done" /\ handlers = {}
    /\ tool' = NoTool
    /\ UNCHANGED <<config, attempt, at, recorded, answer, handlers, gets, faults>>
-------------------------------------------------------------------------------
(* The server's handlers.                                                  *)

Becomes(h, g) == handlers' = (handlers \ {h}) \cup {g}
Working == UNCHANGED <<config, tool, attempt, at, recorded, answer, faults>>

\* fetch_page refuses the URL.
Refuse(h) ==
    /\ h \in handlers /\ h.does = "get" /\ h.tries = 0
    /\ Becomes(h, [h EXCEPT !.does = "reply", !.status = "failed"])
    /\ Working /\ UNCHANGED gets

\* One GET of _fetch_url_with_retry: a page, something that is not HTML or is refused
\* for good, or something worth a retry: a status or a transport error.
Get(h) ==
    /\ h \in handlers /\ h.does = "get"
    /\ \E d \in Taking(FetchTimeout), got \in {"page", "other", "transient"} :
          LET again == got = "transient" /\ h.tries + 1 < MaxFetchRetries
          IN  Becomes(h, [h EXCEPT
                  !.tries = @ + 1,
                  !.spent = @ + d + IF again THEN Backoff(h.tries) ELSE 0,
                  !.slow = IF d > Prompt THEN @ + 1 ELSE @,
                  !.does = IF again THEN "get" ELSE "reply",
                  !.status = IF again THEN @ ELSE IF got = "page" THEN "success" ELSE "failed"])
    /\ gets' = gets + 1
    /\ Working

\* web_search picks what to ask; Brave without a key has no results.
PickProvider(h) ==
    /\ h \in handlers /\ h.does = "search"
    /\ Becomes(h,
          IF provider = "stub" THEN [h EXCEPT !.does = "reply", !.status = "found", !.source = "stub"]
          ELSE IF provider # "brave" THEN [h EXCEPT !.does = "ask"]
          ELSE IF key THEN [h EXCEPT !.does = "brave"]
          ELSE [h EXCEPT !.does = "reply", !.status = "empty"])
    /\ Working /\ UNCHANGED gets

\* Errors and rate limits come out as an empty list.
DuckDuckGo(h) ==
    /\ h \in handlers /\ h.does = "ask"
    /\ \E d \in Taking(SearchTimeout), got \in {"found", "empty"} :
          LET next == IF got # "found" /\ provider = "duckduckgo+brave" /\ key THEN "brave"
                      ELSE "reply"
          IN  Becomes(h, [h EXCEPT
                  !.spent = @ + d, !.does = next,
                  !.status = IF got = "found" THEN "found" ELSE "empty",
                  !.source = IF got = "found" THEN "duckduckgo" ELSE "none"])
    /\ Working /\ UNCHANGED gets

\* One attempt of _search_brave: results, with a pause if the quota is used up; 429 and a wait
\* unless it is the last; or anything else, which comes out as an empty list.
Brave(h) ==
    /\ h \in handlers /\ h.does = "brave"
    /\ \E d \in Taking(BraveTimeout), w \in BraveWaits, got \in {"found", "exhausted", "limited", "other"} :
          LET again == got = "limited" /\ h.brave + 1 < MaxBraveRetries
              found == got \in {"found", "exhausted"}
          IN  Becomes(h, [h EXCEPT
                  !.brave = @ + 1,
                  !.spent = @ + d + IF again \/ got = "exhausted" THEN w ELSE 0,
                  !.does = IF again THEN "brave" ELSE "reply",
                  !.status = IF found THEN "found" ELSE "empty",
                  !.source = IF found THEN "brave" ELSE "none"])
    /\ Working /\ UNCHANGED gets
-------------------------------------------------------------------------------
Init ==
    /\ provider \in Providers /\ key \in BOOLEAN
    /\ tool = NoTool /\ attempt = 0 /\ at = "done"
    /\ recorded = "none" /\ answer = NoAnswer
    /\ handlers = {} /\ gets = 0 /\ faults = NoFaults

Serve(h) == Refuse(h) \/ Get(h) \/ PickProvider(h) \/ DuckDuckGo(h) \/ Brave(h) \/ Answer(h)

Go == Send \/ Done \/ \E h \in handlers : TimeOut(h) \/ Serve(h)

Next == (\E t \in Tool : Call(t)) \/ Go \/ \E h \in handlers : Break(h)

Spec == Init /\ [][Next]_vars
-------------------------------------------------------------------------------
(* Properties.                                                             *)

Handler == [attempt : 1..MaxRetries, does : {"search", "ask", "brave", "get", "reply"},
            tries : 0..MaxFetchRetries, spent : Nat, slow : Nat, brave : 0..MaxBraveRetries,
            status : {"none", "success", "failed", "found", "empty"},
            source : {"none", "stub", "duckduckgo", "brave"}, late : BOOLEAN]

\* The types; a search is attempted once.
TypeOK ==
    /\ provider \in Providers /\ key \in BOOLEAN
    /\ tool \in Tool \cup {NoTool} /\ at \in {"send", "wait", "done"}
    /\ attempt \in 0..MaxRetries
    /\ tool = "web.search" => attempt <= 1
    /\ recorded \in {"none", "success", "error", "timeout", "rate_limit"}
    /\ answer.status \in {"none", "success", "failed", "found", "empty"}
    /\ handlers \subseteq Handler
    /\ gets \in 0..(MaxRetries * MaxFetchRetries) /\ faults \in [1..MaxRetries -> Fault \cup {"none"}]

\* The worker gives up waiting for a page only if the page was slow: a target that
\* always answers promptly is fetched by one request of the worker, whatever the
\* server's retries and pauses add up to. It gives up waiting for a search only if
\* Brave is among those asked: DuckDuckGo's time fits into the deadline.
AnsweredInTime ==
    \A h \in handlers : h.late =>
        /\ tool = "web.fetch_page" => h.slow > 0
        /\ tool = "web.search" => h.brave > 0

\* What is kept of a call tells who was asked and how it went. Search results bear the name
\* of the provider they came from, fallback included. A failure worth a retry is the call's end
\* only if no attempt was left, and no other failure has an attempt after it. A call is
\* recorded as a time-out or a rate limit if its last attempt ended so, whatever those
\* before it met: a time-out is the client's own or a status that names one, 408 or 504,
\* and a rate limit is a 429 of the MCP server, never one of the search provider.
RecordedAsItWas ==
    /\ \A h \in handlers : h.does = "reply" /\ h.status = "found" => Label(h) = h.source
    /\ \A n \in 1..(attempt - 1) : faults[n] \in {"lapsed", "lost", "429", "500", "504"}
    /\ tool # NoTool /\ at = "done" =>
         LET last == faults[attempt]
         IN  /\ recorded = "timeout" <=> last \in {"lapsed", "408", "504"}
             /\ recorded = "rate_limit" <=> last = "429"
             /\ recorded = "success" => last = "none" /\ answer.status # "failed"
             /\ last \notin {"none", "408", "422"} => attempt = Attempts(tool)
===============================================================================
