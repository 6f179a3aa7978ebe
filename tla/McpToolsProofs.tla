----------------------------- MODULE McpToolsProofs -----------------------------
(***************************************************************************)
(* Proofs about the tool calls of McpTools, for every set of providers and *)
(* every number of attempts, over a connection that may fail.  What a      *)
(* handler has spent is bounded by what it has done, as long as no answer  *)
(* was slow; that is the arithmetic of the deadlines.                      *)
(***************************************************************************)
EXTENDS McpTools, FiniteSetTheorems, TLAPS
-------------------------------------------------------------------------------
(* The invariant.                                                          *)

\* What a handler does is the work of the tool that was called, in the providers that
\* were configured.
Serves(h) ==
    /\ h.does = "get" => tool = "web.fetch_page" /\ h.tries < MaxFetchRetries
    /\ h.does \in {"search", "ask", "brave"} => tool = "web.search"
    /\ h.does = "ask" => provider \in {"duckduckgo", "duckduckgo+brave"}
    /\ h.does = "brave" => provider \in {"brave", "duckduckgo+brave"} /\ h.brave < MaxBraveRetries
    /\ tool # "web.search" => h.brave = 0 /\ h.status # "found"

\* Seconds a handler has spent: on a page, less than ten for each request as long as its
\* answers came promptly, and on a search only DuckDuckGo's until Brave is asked.
InTime(h) ==
    /\ tool = "web.fetch_page" /\ h.slow = 0 =>
         IF h.tries = 0 THEN h.spent = 0 ELSE h.spent < 10 * h.tries
    /\ tool = "web.search" /\ h.brave = 0 => h.spent <= SearchTimeout
    /\ h.does \in {"search", "ask"} => h.spent = 0 /\ h.brave = 0
    /\ h.late =>
         /\ tool = "web.fetch_page" => h.slow > 0
         /\ tool = "web.search" => h.brave > 0

\* The results of a search bear a name that the handler's provider accounts for.
Sourced(h) ==
    h.does = "reply" /\ h.status = "found" => Label(h) = h.source

\* A call under way has an attempt left or waits for its last one, and records nothing
\* before it is done; handlers are told apart by their attempts.
Progress ==
    /\ \A h \in handlers : h.attempt <= attempt
    /\ \A g, h \in handlers : g.attempt = h.attempt => g = h
    /\ tool = NoTool => handlers = {}
    /\ tool # NoTool /\ at = "send" => attempt < Attempts(tool)
    /\ tool # NoTool => attempt <= Attempts(tool)
    /\ tool # NoTool /\ at # "send" => attempt > 0

\* Attempts not made, and the one waited for, have not failed; those followed by another,
\* or about to be, failed in a way worth it.
Failures ==
    /\ \A n \in 1..MaxRetries : n > attempt \/ (n = attempt /\ at = "wait") => faults[n] = "none"
    /\ \A n \in 1..attempt : n < attempt \/ at = "send" => faults[n] \in Retried

\* What is recorded of a call that is done.
Told ==
    tool # NoTool /\ at = "done" =>
      /\ recorded = "timeout" <=> faults[attempt] \in {"lapsed", "408", "504"}
      /\ recorded = "rate_limit" <=> faults[attempt] = "429"
      /\ recorded = "success" => faults[attempt] = "none" /\ answer.status # "failed"
      /\ faults[attempt] \in Retried => attempt = Attempts(tool)

\* The requests for the page, each known by its attempt and the try in it.
Requests == (1..attempt) \X (1..MaxFetchRetries)
Counts(U) ==
    /\ U \subseteq Requests /\ Cardinality(U) = gets
    /\ \A h \in handlers : \A i \in 1..MaxFetchRetries :
          h.does = "get" /\ <<h.attempt, i>> \in U => i <= h.tries
Counted == \E U : Counts(U)

Sound(h) == Serves(h) /\ InTime(h) /\ Sourced(h)

\* The types, without the bound of the requests, which follows from their count.
Typed ==
    /\ provider \in Providers /\ key \in BOOLEAN
    /\ tool \in Tool \cup {NoTool} /\ at \in {"send", "wait", "done"}
    /\ attempt \in 0..MaxRetries
    /\ recorded \in {"none", "success", "error", "timeout", "rate_limit"}
    /\ answer.status \in {"none", "success", "failed", "found", "empty"}
    /\ handlers \subseteq Handler
    /\ gets \in Nat /\ faults \in [1..MaxRetries -> Fault \cup {"none"}]

IInv == Typed /\ Progress /\ Failures /\ Told /\ Counted /\ \A h \in handlers : Sound(h)
-------------------------------------------------------------------------------
(* What a step of a handler makes of it.                                   *)

\* Answers and pauses take a number of seconds.
LEMMA Seconds ==
    /\ \A d \in Taking(SearchTimeout) : d \in 0..SearchTimeout
    /\ \A d \in Taking(BraveTimeout) \cup Taking(FetchTimeout) : d \in Nat
    /\ \A w \in BraveWaits : w \in Nat
<1>1. \A d \in Taking(SearchTimeout) : d \in 0..SearchTimeout BY DEF Taking, SearchTimeout, Prompt
<1>2. \A d \in Taking(BraveTimeout) : d \in Nat BY DEF Taking, BraveTimeout, Prompt
<1>3. \A d \in Taking(FetchTimeout) : d \in Nat BY DEF Taking, FetchTimeout, Prompt
<1>4. \A w \in BraveWaits : w \in Nat BY DEF BraveWaits
<1> QED BY <1>1, <1>2, <1>3, <1>4

\* A handler that goes on without fetching stays one that is sound.
Goes(h, g) ==
    /\ Becomes(h, g) /\ Working
    /\ g \in Handler /\ g.attempt = h.attempt /\ Sound(g)

LEMMA RefuseGoes ==
    ASSUME Typed, NEW h \in handlers, Sound(h), Refuse(h)
    PROVE  UNCHANGED gets /\ \E g : Goes(h, g) /\ g.does # "get"
<1> PICK g : g = [h EXCEPT !.does = "reply", !.status = "failed"]
  OBVIOUS
<1>1. h \in Handler BY DEF Typed
<1>2. /\ g \in Handler /\ g.attempt = h.attempt /\ g.does = "reply" /\ g.status = "failed"
      /\ g.tries = h.tries /\ g.spent = h.spent /\ g.slow = h.slow /\ g.brave = h.brave
      /\ g.late = h.late /\ g.source = h.source
  BY <1>1 DEF Handler
<1>3. Sound(g) BY <1>2 DEF Sound, Serves, InTime, Sourced, Refuse
<1> QED BY <1>2, <1>3 DEF Goes, Refuse

LEMMA PickGoes ==
    ASSUME Typed, NEW h \in handlers, Sound(h), PickProvider(h)
    PROVE  UNCHANGED gets /\ \E g : Goes(h, g) /\ g.does # "get"
<1>1. h \in Handler /\ h.does = "search" /\ tool = "web.search" BY DEF Typed, PickProvider, Sound, Serves
<1>2. h.spent = 0 /\ h.brave = 0 BY <1>1 DEF Sound, InTime
<1>3. provider \in {"duckduckgo", "brave", "duckduckgo+brave", "stub"}
  BY ToolsAssumption DEF Typed
<1>4. PICK g : /\ Becomes(h, g)
               /\ g = IF provider = "stub" THEN [h EXCEPT !.does = "reply", !.status = "found", !.source = "stub"]
                      ELSE IF provider # "brave" THEN [h EXCEPT !.does = "ask"]
                      ELSE IF key THEN [h EXCEPT !.does = "brave"]
                      ELSE [h EXCEPT !.does = "reply", !.status = "empty"]
  BY DEF PickProvider
<1>5. /\ g \in Handler /\ g.attempt = h.attempt /\ g.spent = 0 /\ g.brave = 0 /\ g.late = h.late
      /\ g.does \in {"reply", "ask", "brave"}
      /\ g.does = "ask" => provider \notin {"stub", "brave"}
      /\ g.does = "brave" => provider = "brave"
      /\ g.does = "reply" /\ g.status = "found" => provider = "stub" /\ g.source = "stub"
  BY <1>1, <1>2, <1>4 DEF Handler
<1>6. Serves(g) BY <1>1, <1>3, <1>5 DEF Serves, MaxBraveRetries
<1>7. InTime(g) BY <1>1, <1>5 DEF InTime, SearchTimeout, Sound
<1>8. Sourced(g) BY <1>1, <1>5 DEF Sourced, Label, Sound
<1> QED BY <1>4, <1>5, <1>6, <1>7, <1>8 DEF Goes, Sound, PickProvider

LEMMA DuckDuckGoGoes ==
    ASSUME Typed, NEW h \in handlers, Sound(h), DuckDuckGo(h)
    PROVE  UNCHANGED gets /\ \E g : Goes(h, g) /\ g.does # "get"
<1>1. h \in Handler /\ h.does = "ask" /\ tool = "web.search" /\ provider \in {"duckduckgo", "duckduckgo+brave"}
  BY DEF Typed, DuckDuckGo, Sound, Serves
<1>2. h.spent = 0 /\ h.brave = 0 BY <1>1 DEF Sound, InTime
<1>3. PICK d \in Taking(SearchTimeout), got \in {"found", "empty"} :
         Becomes(h, [h EXCEPT
            !.spent = @ + d,
            !.does = IF got # "found" /\ provider = "duckduckgo+brave" /\ key THEN "brave" ELSE "reply",
            !.status = IF got = "found" THEN "found" ELSE "empty",
            !.source = IF got = "found" THEN "duckduckgo" ELSE "none"])
  BY DEF DuckDuckGo
<1>4. d \in 0..SearchTimeout BY Seconds
<1> PICK does \in {"reply", "brave"} :
       does = IF got # "found" /\ provider = "duckduckgo+brave" /\ key THEN "brave" ELSE "reply"
  OBVIOUS
<1> PICK status \in {"found", "empty"}, source \in {"duckduckgo", "none"} :
       /\ status = IF got = "found" THEN "found" ELSE "empty"
       /\ source = IF got = "found" THEN "duckduckgo" ELSE "none"
  OBVIOUS
<1>5. PICK g : g = [h EXCEPT !.spent = @ + d, !.does = does, !.status = status, !.source = source]
  OBVIOUS
<1>6. /\ g \in Handler /\ g.attempt = h.attempt /\ g.spent = d /\ g.brave = 0 /\ g.late = h.late
      /\ g.does \in {"reply", "brave"}
      /\ g.does = "brave" => provider = "duckduckgo+brave"
      /\ g.status = "found" => g.source = "duckduckgo"
  <2>1. d \in Nat BY <1>4 DEF SearchTimeout
  <2>2. g = [h EXCEPT !.spent = d, !.does = does, !.status = status, !.source = source]
    <3>1. h.spent + d = d BY <1>2, <2>1
    <3> QED BY <1>5, <3>1
  <2>3. /\ g \in Handler /\ g.attempt = h.attempt /\ g.spent = d /\ g.brave = h.brave /\ g.late = h.late
        /\ g.does = does /\ g.status = status /\ g.source = source
    BY <1>1, <2>1, <2>2 DEF Handler
  <2> QED BY <1>2, <2>3
<1>7. Serves(g) BY <1>1, <1>6 DEF Serves, MaxBraveRetries
<1>8. InTime(g) BY <1>1, <1>2, <1>4, <1>6 DEF InTime, Sound
<1>9. Sourced(g) BY <1>1, <1>6 DEF Sourced, Label
<1> QED BY <1>3, <1>5, <1>6, <1>7, <1>8, <1>9 DEF Goes, Sound, DuckDuckGo

LEMMA BraveGoes ==
    ASSUME Typed, NEW h \in handlers, Sound(h), Brave(h)
    PROVE  UNCHANGED gets /\ \E g : Goes(h, g) /\ g.does # "get"
<1>1. /\ h \in Handler /\ h.does = "brave" /\ tool = "web.search"
      /\ provider \in {"brave", "duckduckgo+brave"} /\ h.brave < MaxBraveRetries
  BY DEF Typed, Brave, Sound, Serves
<1> PICK asked \in 1..MaxBraveRetries : asked = h.brave + 1
  BY <1>1 DEF Handler, MaxBraveRetries
<1> PICK sofar \in Nat : sofar = h.spent BY <1>1 DEF Handler
<1>2. PICK d \in Taking(BraveTimeout), w \in BraveWaits, got \in {"found", "exhausted", "limited", "other"} :
         LET again == got = "limited" /\ h.brave + 1 < MaxBraveRetries
             found == got \in {"found", "exhausted"}
         IN  Becomes(h, [h EXCEPT
                 !.brave = @ + 1,
                 !.spent = @ + d + IF again \/ got = "exhausted" THEN w ELSE 0,
                 !.does = IF again THEN "brave" ELSE "reply",
                 !.status = IF found THEN "found" ELSE "empty",
                 !.source = IF found THEN "brave" ELSE "none"])
  BY DEF Brave
<1>3. d \in Nat /\ w \in Nat BY Seconds
<1>4. PICK n \in Nat :
         n = IF (got = "limited" /\ h.brave + 1 < MaxBraveRetries) \/ got = "exhausted" THEN w ELSE 0
  BY <1>3
<1>5. PICK does \in {"brave", "reply"} :
         does = IF got = "limited" /\ h.brave + 1 < MaxBraveRetries THEN "brave" ELSE "reply"
  OBVIOUS
<1>6. PICK status \in {"found", "empty"}, source \in {"brave", "none"} :
         /\ status = IF got \in {"found", "exhausted"} THEN "found" ELSE "empty"
         /\ source = IF got \in {"found", "exhausted"} THEN "brave" ELSE "none"
  OBVIOUS
<1>7. PICK g : g = [h EXCEPT !.brave = @ + 1, !.spent = @ + d + n, !.does = does,
                             !.status = status, !.source = source]
  OBVIOUS
<1>8. /\ g \in Handler /\ g.attempt = h.attempt /\ g.brave = asked
      /\ g.does = does /\ g.status = status /\ g.source = source
  <2>1. PICK spent \in Nat : spent = sofar + d + n BY <1>3
  <2>2. asked \in 0..MaxBraveRetries BY DEF MaxBraveRetries
  <2>3. g = [h EXCEPT !.brave = asked, !.spent = spent, !.does = does, !.status = status,
                      !.source = source]
    BY <1>7, <2>1
  <2> QED BY <1>1, <2>2, <2>3 DEF Handler
<1>9. does = "brave" => asked < MaxBraveRetries BY <1>5
<1>10. g.brave > 0 /\ g.brave # 0 BY <1>8
<1>11. status = "found" => source = "brave" BY <1>6
<1>12. Serves(g) BY <1>1, <1>8, <1>9 DEF Serves
<1>13. InTime(g) BY <1>1, <1>8, <1>10 DEF InTime
<1>14. Sourced(g) BY <1>1, <1>8, <1>10, <1>11 DEF Sourced, Label
<1>15. Becomes(h, g) BY <1>2, <1>4, <1>5, <1>6, <1>7
<1> QED BY <1>8, <1>12, <1>13, <1>14, <1>15 DEF Goes, Sound, Brave

\* A request for the page is counted, and its pauses fit into what its prompt answers
\* leave: 8 + 1, 8 + 2 and 8 seconds for the three tries.
LEMMA GetGoes ==
    ASSUME Typed, NEW h \in handlers, Sound(h), Get(h)
    PROVE  gets' = gets + 1 /\ \E g : Goes(h, g) /\ g.tries = h.tries + 1
<1>1. h \in Handler /\ h.does = "get" /\ tool = "web.fetch_page" /\ h.tries \in 0..2
  BY DEF Typed, Get, Sound, Serves, MaxFetchRetries, Handler
<1>2. PICK d \in Taking(FetchTimeout), got \in {"page", "other", "transient"} :
         LET again == got = "transient" /\ h.tries + 1 < MaxFetchRetries
         IN  Becomes(h, [h EXCEPT
                 !.tries = @ + 1,
                 !.spent = @ + d + IF again THEN Backoff(h.tries) ELSE 0,
                 !.slow = IF d > Prompt THEN @ + 1 ELSE @,
                 !.does = IF again THEN "get" ELSE "reply",
                 !.status = IF again THEN @ ELSE IF got = "page" THEN "success" ELSE "failed"])
  BY DEF Get
<1> DEFINE again == got = "transient" /\ h.tries + 1 < MaxFetchRetries
<1>3. d \in Nat BY Seconds
<1>4. Backoff(0) = 1 /\ Backoff(1) = 2
  <2>1. 2^0 = 1 /\ 2^1 = 2 BY SMT
  <2> QED BY <2>1 DEF Backoff
<1>5. /\ h.tries = 0 => Backoff(h.tries) = 1
      /\ h.tries = 1 => Backoff(h.tries) = 2
      /\ h.tries = 2 => ~again
  <2>1. h.tries = 2 => ~again BY DEF MaxFetchRetries
  <2> QED BY <1>4, <2>1
<1> PICK n \in Nat : n = IF again THEN Backoff(h.tries) ELSE 0 BY <1>1, <1>5
<1> PICK slow : slow = IF d > Prompt THEN h.slow + 1 ELSE h.slow
  OBVIOUS
<1> PICK does \in {"get", "reply"} : does = IF again THEN "get" ELSE "reply"
  OBVIOUS
<1> PICK status : status = IF again THEN h.status ELSE IF got = "page" THEN "success" ELSE "failed"
  OBVIOUS
<1>6. PICK g : g = [h EXCEPT !.tries = @ + 1, !.spent = @ + d + n, !.slow = slow,
                             !.does = does, !.status = status]
  OBVIOUS
<1>7. /\ g \in Handler /\ g.attempt = h.attempt /\ g.tries = h.tries + 1 /\ g.late = h.late
      /\ g.spent = h.spent + d + n
      /\ g.slow = IF d > Prompt THEN h.slow + 1 ELSE h.slow
      /\ g.does \in {"get", "reply"} /\ (g.does = "get" => g.tries < MaxFetchRetries)
      /\ g.status # "found" /\ g.brave = h.brave
  <2>1. h.status # "found" BY <1>1 DEF Sound, Serves
  <2>2. slow \in Nat BY <1>1, <1>3 DEF Handler
  <2>3. status \in {"none", "success", "failed", "empty"} BY <1>1, <2>1 DEF Handler
  <2> HIDE DEF again
  <2>4. does = "get" => again
    OBVIOUS
  <2>5. again => h.tries + 1 < MaxFetchRetries BY DEF again
  <2>6. PICK spent \in Nat : spent = h.spent + d + n BY <1>1, <1>3 DEF Handler
  <2>7. PICK tries \in 0..MaxFetchRetries : tries = h.tries + 1 BY <1>1 DEF MaxFetchRetries
  <2>8. g = [h EXCEPT !.tries = tries, !.spent = spent, !.slow = slow, !.does = does,
                      !.status = status]
    BY <1>1, <1>6, <2>6, <2>7
  <2>9. /\ g \in Handler /\ g.attempt = h.attempt /\ g.tries = tries /\ g.late = h.late
        /\ g.spent = spent /\ g.slow = slow /\ g.does = does /\ g.status = status
        /\ g.brave = h.brave
    BY <1>1, <2>2, <2>3, <2>8 DEF Handler
  <2> QED BY <2>3, <2>4, <2>5, <2>6, <2>7, <2>9
<1>8. Serves(g) BY <1>1, <1>7 DEF Serves, Sound
<1>9. InTime(g)
  <2>1. ASSUME g.slow = 0 PROVE g.spent < 10 * g.tries
    <3>1. h.slow = 0 /\ d <= 8 BY <1>1, <1>3, <1>7, <2>1 DEF Handler, Prompt
    <3>2. IF h.tries = 0 THEN h.spent = 0 ELSE h.spent < 10 * h.tries
      BY <1>1, <3>1 DEF Sound, InTime
    <3>3. CASE h.tries = 0 BY <1>3, <1>5, <1>7, <3>1, <3>2, <3>3
    <3>4. CASE h.tries = 1 BY <1>1, <1>3, <1>5, <1>7, <3>1, <3>2, <3>4 DEF Handler
    <3>5. CASE h.tries = 2 BY <1>1, <1>3, <1>5, <1>7, <3>1, <3>2, <3>5 DEF Handler
    <3> QED BY <1>1, <3>3, <3>4, <3>5
  <2>2. g.tries # 0 BY <1>1, <1>7
  <2>3. g.late => g.slow > 0 BY <1>1, <1>7 DEF Sound, InTime, Handler
  <2> QED BY <1>1, <1>7, <2>1, <2>2, <2>3 DEF InTime
<1>10. Sourced(g) BY <1>7 DEF Sourced
<1>11. Becomes(h, g) BY <1>2, <1>6
<1> QED BY <1>7, <1>8, <1>9, <1>10, <1>11 DEF Goes, Sound, Get
-------------------------------------------------------------------------------
(* The steps keep the invariant.                                           *)

\* What handlers are is judged by the call they serve.
LEMMA SoundStays ==
    ASSUME UNCHANGED <<provider, tool>>, NEW h, Sound(h)
    PROVE  Sound(h)'
BY DEF Sound, Serves, InTime, Sourced, Label

LEMMA GoesProgress ==
    ASSUME IInv, NEW h \in handlers, NEW g, Goes(h, g)
    PROVE  Progress' /\ Failures' /\ Told' /\ \A x \in handlers' : Sound(x)'
<1>1. /\ handlers' = (handlers \ {h}) \cup {g} /\ g.attempt = h.attempt
      /\ UNCHANGED <<config, tool, attempt, at, recorded, answer, faults>>
  BY DEF Goes, Becomes, Working
<1>2. Progress'
  <2>1. \A x \in handlers' : x.attempt <= attempt BY <1>1 DEF IInv, Progress
  <2>2. \A x, y \in handlers' : x.attempt = y.attempt => x = y BY <1>1 DEF IInv, Progress
  <2>3. tool # NoTool BY DEF IInv, Progress
  <2> QED BY <1>1, <2>1, <2>2, <2>3 DEF IInv, Progress, Attempts
<1>3. \A x \in handlers' : Sound(x) BY <1>1 DEF IInv, Goes
<1>4. UNCHANGED <<provider, tool>> BY <1>1 DEF config
<1>5. Failures' /\ Told' BY <1>1 DEF IInv, Failures, Told, Attempts
<1> QED BY <1>2, <1>3, <1>4, <1>5, SoundStays

LEMMA GoesTyped ==
    ASSUME IInv, NEW h \in handlers, NEW g, Goes(h, g), gets' \in Nat
    PROVE  Typed'
BY DEF IInv, Typed, Goes, Becomes, Working, config

\* Requests that are no longer possible, or that nobody makes, leave the count as it is.
LEMMA SameCount ==
    ASSUME Counted, attempt \in Nat, attempt' \in Nat, attempt <= attempt', UNCHANGED gets,
           \A g \in handlers' : g.does = "get" =>
               \/ g.attempt > attempt
               \/ \E h \in handlers : h.attempt = g.attempt /\ h.tries = g.tries /\ h.does = "get"
    PROVE  Counted'
<1>1. PICK U : Counts(U) BY DEF Counted
<1>2. U \subseteq Requests' BY <1>1 DEF Counts, Requests
<1>3. ASSUME NEW g \in handlers', NEW i \in 1..MaxFetchRetries, g.does = "get", <<g.attempt, i>> \in U
      PROVE  i <= g.tries
  <2>1. g.attempt \in 1..attempt BY <1>1, <1>3 DEF Counts, Requests
  <2>2. PICK h \in handlers : h.attempt = g.attempt /\ h.tries = g.tries /\ h.does = "get"
    BY <1>3, <2>1
  <2> QED BY <1>1, <1>3, <2>2 DEF Counts
<1>4. Counts(U)' BY <1>1, <1>2, <1>3 DEF Counts
<1> QED BY <1>4 DEF Counted

\* The requests are finitely many, three for each attempt.
LEMMA RequestsFinite ==
    ASSUME attempt \in Nat
    PROVE  IsFiniteSet(Requests) /\ Cardinality(Requests) = attempt * MaxFetchRetries
<1>1. /\ IsFiniteSet(1..attempt) /\ Cardinality(1..attempt) = attempt
      /\ IsFiniteSet(1..MaxFetchRetries) /\ Cardinality(1..MaxFetchRetries) = MaxFetchRetries
  <2>1. 1 \in Int /\ attempt \in Int /\ MaxFetchRetries \in Int /\ MaxFetchRetries = 3
    BY DEF MaxFetchRetries
  <2>2. /\ IsFiniteSet(1..attempt) /\ Cardinality(1..attempt) = IF 1 > attempt THEN 0 ELSE attempt - 1 + 1
    BY <2>1, FS_Interval
  <2>3. /\ IsFiniteSet(1..MaxFetchRetries)
        /\ Cardinality(1..MaxFetchRetries) = IF 1 > MaxFetchRetries THEN 0 ELSE MaxFetchRetries - 1 + 1
    BY <2>1, FS_Interval
  <2> QED BY <2>1, <2>2, <2>3
<1>2. /\ IsFiniteSet((1..attempt) \X (1..MaxFetchRetries))
      /\ Cardinality((1..attempt) \X (1..MaxFetchRetries)) =
            Cardinality(1..attempt) * Cardinality(1..MaxFetchRetries)
  BY <1>1, FS_Product
<1> QED BY <1>1, <1>2 DEF Requests

LEMMA CountBound ==
    ASSUME Counted, attempt \in 0..MaxRetries
    PROVE  gets \in 0..(MaxRetries * MaxFetchRetries)
<1>1. PICK U : Counts(U) BY DEF Counted
<1>2. attempt \in Nat /\ MaxRetries \in Nat BY ToolsAssumption
<1>3. /\ IsFiniteSet(U) /\ Cardinality(U) <= Cardinality(Requests)
  BY <1>1, <1>2, RequestsFinite, FS_Subset DEF Counts
<1>4. Cardinality(U) \in Nat BY <1>3, FS_CardinalityType
<1>5. gets \in Nat /\ gets <= attempt * 3
  BY <1>1, <1>2, <1>3, <1>4, RequestsFinite DEF Counts, MaxFetchRetries
<1> QED BY <1>2, <1>5 DEF MaxFetchRetries

LEMMA GetCount ==
    ASSUME IInv, NEW h \in handlers, Get(h)
    PROVE  Counted'
<1>1. PICK U : Counts(U) BY DEF IInv, Counted
<1>2. PICK g : Goes(h, g) /\ g.tries = h.tries + 1 BY GetGoes DEF IInv
<1>3. gets' = gets + 1 /\ attempt \in Nat BY ToolsAssumption, GetGoes DEF IInv, Typed
<1>4. /\ h \in Handler /\ h.does = "get" /\ h.tries \in 0..2 /\ h.attempt \in 1..attempt
  BY DEF IInv, Typed, Get, Sound, Serves, Progress, MaxFetchRetries, Handler
<1>5. PICK n : n = <<h.attempt, h.tries + 1>>
  OBVIOUS
<1>6. n \in Requests /\ n \notin U
  <2>1. n \in Requests BY <1>4, <1>5 DEF Requests, MaxFetchRetries
  <2>2. h.tries + 1 \in 1..MaxFetchRetries /\ ~(h.tries + 1 <= h.tries)
    BY <1>4 DEF MaxFetchRetries
  <2> QED BY <1>1, <1>4, <1>5, <2>1, <2>2 DEF Counts
<1>7. IsFiniteSet(U)
  BY <1>1, <1>3, RequestsFinite, FS_Subset DEF Counts
<1>8. Cardinality(U \cup {n}) = gets + 1
  BY <1>1, <1>6, <1>7, FS_AddElement DEF Counts
<1>9. /\ handlers' = (handlers \ {h}) \cup {g} /\ attempt' = attempt
      /\ g.attempt = h.attempt
  BY <1>2 DEF Goes, Becomes, Working
<1>10. ASSUME NEW x \in handlers', NEW i \in 1..MaxFetchRetries,
              x.does = "get", <<x.attempt, i>> \in U \cup {n}
       PROVE  i <= x.tries
  <2>1. CASE x = g
    <3>1. CASE <<h.attempt, i>> \in U
      <4>1. i <= h.tries BY <1>1, <1>4, <3>1 DEF Counts
      <4> QED BY <1>2, <1>4, <2>1, <4>1
    <3>2. CASE <<h.attempt, i>> = n BY <1>2, <1>4, <1>5, <2>1, <3>2
    <3> QED BY <1>9, <1>10, <2>1, <3>1, <3>2
  <2>2. CASE x # g
    <3>1. x \in handlers /\ x.attempt # h.attempt BY <1>9, <2>2 DEF IInv, Progress
    <3>2. <<x.attempt, i>> \in U BY <1>5, <1>10, <3>1
    <3> QED BY <1>1, <1>10, <3>1, <3>2 DEF Counts
  <2> QED BY <2>1, <2>2
<1>11. (U \cup {n}) \subseteq Requests' BY <1>1, <1>6, <1>9 DEF Counts, Requests
<1>12. Counts(U \cup {n})' BY <1>3, <1>8, <1>10, <1>11 DEF Counts
<1> QED BY <1>12 DEF Counted

\* Whatever tool is called, it is attempted at least once and not too often.
LEMMA AttemptsBound == \A t : Attempts(t) \in 1..MaxRetries
BY ToolsAssumption DEF Attempts

LEMMA StepSend ==
    ASSUME IInv, Send
    PROVE  IInv'
<1>0. PICK g : g = Request(tool, attempt + 1)
  OBVIOUS
<1>1. /\ tool # NoTool /\ at = "send" /\ attempt' = attempt + 1 /\ at' = "wait"
      /\ handlers' = handlers \cup {g}
      /\ UNCHANGED <<provider, key, tool, recorded, answer, gets, faults>>
  BY <1>0 DEF Send, config
<1>2. tool \in Tool /\ attempt \in Nat /\ attempt < Attempts(tool) /\ attempt + 1 \in 1..MaxRetries
  <2>1. tool \in Tool /\ attempt \in 0..MaxRetries /\ attempt < Attempts(tool)
    BY <1>1 DEF IInv, Typed, Progress
  <2>2. Attempts(tool) \in 1..MaxRetries /\ MaxRetries \in Nat
    BY AttemptsBound, ToolsAssumption
  <2> QED BY <2>1, <2>2
<1>3. /\ g \in Handler /\ g.attempt = attempt + 1
      /\ g.tries = 0 /\ g.spent = 0 /\ g.slow = 0 /\ g.brave = 0 /\ g.late = FALSE
      /\ g.does \in {"get", "reply", "search"} /\ g.status \in {"none", "success"}
      /\ g.does = "get" => tool = "web.fetch_page"
      /\ g.does = "search" => tool = "web.search"
  <2>1. PICK does \in {"get", "reply", "search"} :
           /\ does = CASE tool = "web.fetch_page" -> "get" [] tool = "web.normalize_text" -> "reply"
                       [] OTHER -> "search"
           /\ does = "get" => tool = "web.fetch_page"
           /\ does = "search" => tool = "web.search"
    BY <1>2 DEF Tool
  <2>2. PICK status \in {"none", "success"} :
           status = IF tool = "web.normalize_text" THEN "success" ELSE "none"
    OBVIOUS
  <2>3. PICK n \in 1..MaxRetries : n = attempt + 1 BY <1>2
  <2>4. g = [attempt |-> n, does |-> does, tries |-> 0, spent |-> 0, slow |-> 0, brave |-> 0,
             status |-> status, source |-> "none", late |-> FALSE]
    BY <1>0, <2>1, <2>2, <2>3 DEF Request
  <2>5. 0 \in 0..3 /\ 0 \in Nat
    OBVIOUS
  <2>6. g \in Handler
    BY <2>4, <2>5 DEF Handler, MaxFetchRetries, MaxBraveRetries
  <2> QED BY <2>1, <2>3, <2>4, <2>6
<1>4. Sound(g)
  <2>1. Serves(g) BY <1>3 DEF Serves, MaxFetchRetries
  <2>2. InTime(g) BY <1>3 DEF InTime, SearchTimeout
  <2>3. Sourced(g) BY <1>3 DEF Sourced
  <2> QED BY <2>1, <2>2, <2>3 DEF Sound
<1>5. Progress'
  <2>1. \A x \in handlers : x.attempt <= attempt /\ x.attempt \in Nat
    BY DEF IInv, Progress, Typed, Handler
  <2>2. \A x \in handlers' : x.attempt <= attempt' BY <1>1, <1>2, <1>3, <2>1
  <2>3. \A x, y \in handlers' : x.attempt = y.attempt => x = y
    BY <1>1, <1>2, <1>3, <2>1 DEF IInv, Progress
  <2>4. attempt' > 0 BY <1>1, <1>2
  <2>5. attempt' <= Attempts(tool)
    <3>1. Attempts(tool) \in Nat BY AttemptsBound
    <3> QED BY <1>1, <1>2, <3>1
  <2>6. attempt' <= Attempts(tool)' BY <1>1, <2>5 DEF Attempts
  <2> QED BY <1>1, <2>2, <2>3, <2>4, <2>6 DEF Progress
<1>6. Typed' BY <1>1, <1>2, <1>3 DEF IInv, Typed
<1>7. Counted'
  <2>1. g.attempt > attempt BY <1>2, <1>3
  <2>2. attempt' \in Nat /\ attempt <= attempt' BY <1>1, <1>2
  <2> QED BY <1>1, <1>2, <2>1, <2>2, SameCount DEF IInv
<1>8. \A x \in handlers' : Sound(x)' BY <1>1, <1>4, SoundStays DEF IInv
<1>9. Failures'
  <2>1. \A n \in 1..MaxRetries : n > attempt => faults[n] = "none" BY DEF IInv, Failures
  <2>2. \A n \in 1..attempt : faults[n] \in Retried BY <1>1 DEF IInv, Failures
  <2> QED BY <1>1, <1>2, <2>1, <2>2, ToolsAssumption DEF Failures
<1>10. Told' BY <1>1 DEF Told
<1> QED BY <1>5, <1>6, <1>7, <1>8, <1>9, <1>10 DEF IInv

\* A failed attempt is followed by another exactly if its failure is worth one and attempts
\* are left, and is what is recorded otherwise.
LEMMA FailedAttempt ==
    ASSUME IInv, at = "wait", tool # NoTool, NEW fault \in Fault, Again(fault),
           UNCHANGED <<tool, attempt, answer>>
    PROVE  /\ Failures' /\ Told' /\ at' \in {"send", "done"}
           /\ at' = "send" => attempt < Attempts(tool)
           /\ faults' \in [1..MaxRetries -> Fault \cup {"none"}]
           /\ recorded' \in {"none", "success", "error", "timeout", "rate_limit"}
<1>1. attempt \in 1..MaxRetries /\ attempt <= Attempts(tool) /\ Attempts(tool) \in Nat
  <2>1. attempt \in 0..MaxRetries /\ attempt > 0 /\ attempt <= Attempts(tool)
    BY DEF IInv, Typed, Progress
  <2> QED BY <2>1, AttemptsBound, ToolsAssumption
<1>2. /\ faults' \in [1..MaxRetries -> Fault \cup {"none"}]
      /\ faults'[attempt] = fault
      /\ \A n \in 1..MaxRetries : n # attempt => faults'[n] = faults[n]
  BY <1>1 DEF IInv, Typed, Again
<1>3. CASE fault \in Retried /\ attempt < Attempts(tool)
  <2>1. at' = "send" /\ recorded' = recorded BY <1>3 DEF Again
  <2>2. Failures'
    <3>1. ASSUME NEW n \in 1..MaxRetries, n > attempt PROVE faults'[n] = "none"
      <4>1. faults[n] = "none" /\ n # attempt BY <1>1, <3>1 DEF IInv, Failures
      <4> QED BY <1>2, <4>1
    <3>2. ASSUME NEW n \in 1..attempt PROVE faults'[n] \in Retried
      <4>1. n < attempt => faults[n] \in Retried BY DEF IInv, Failures
      <4>2. n \in 1..MaxRetries /\ (n < attempt \/ n = attempt) BY <1>1, ToolsAssumption
      <4> QED BY <1>2, <1>3, <4>1, <4>2
    <3> QED BY <2>1, <3>1, <3>2 DEF Failures
  <2>3. Told' BY <2>1 DEF Told
  <2>4. recorded' \in {"none", "success", "error", "timeout", "rate_limit"} BY <2>1 DEF IInv, Typed
  <2> QED BY <1>2, <1>3, <2>1, <2>2, <2>3, <2>4
<1>4. CASE ~(fault \in Retried /\ attempt < Attempts(tool))
  <2>1. at' = "done" /\ recorded' = classify_outcome(fault) BY <1>4 DEF Again
  <2>2. Failures'
    <3>1. ASSUME NEW n \in 1..MaxRetries, n > attempt PROVE faults'[n] = "none"
      <4>1. faults[n] = "none" /\ n # attempt BY <1>1, <3>1 DEF IInv, Failures
      <4> QED BY <1>2, <4>1
    <3>2. ASSUME NEW n \in 1..attempt, n < attempt PROVE faults'[n] \in Retried
      <4>1. faults[n] \in Retried BY <3>2 DEF IInv, Failures
      <4>2. n \in 1..MaxRetries /\ n # attempt BY <1>1, <3>2, ToolsAssumption
      <4> QED BY <1>2, <4>1, <4>2
    <3> QED BY <2>1, <3>1, <3>2 DEF Failures
  <2>3. /\ recorded' = "timeout" <=> fault \in {"lapsed", "408", "504"}
        /\ recorded' = "rate_limit" <=> fault = "429"
        /\ recorded' \in {"error", "timeout", "rate_limit"}
    BY <2>1 DEF classify_outcome
  <2>4. fault \in Retried => attempt = Attempts(tool) BY <1>1, <1>4
  <2>5. Attempts(tool)' = Attempts(tool) BY DEF Attempts
  <2>6. Told' BY <1>2, <2>3, <2>4, <2>5 DEF Told
  <2> QED BY <1>2, <2>1, <2>2, <2>3, <2>6
<1> QED BY <1>3, <1>4

\* The client gives up only on a handler that had slow answers, or asked Brave.
LEMMA StepTimeOut ==
    ASSUME IInv, NEW h \in handlers, TimeOut(h)
    PROVE  IInv'
<1>0. PICK g : g = [h EXCEPT !.late = TRUE]
  OBVIOUS
<1>1. /\ at = "wait" /\ h.attempt = attempt /\ h.spent >= Deadline(tool)
      /\ handlers' = (handlers \ {h}) \cup {g}
      /\ Again("lapsed")
      /\ UNCHANGED <<provider, key, tool, attempt, answer, gets>>
  BY <1>0 DEF TimeOut, Hears, config
<1>2. h \in Handler /\ Sound(h) BY DEF IInv, Typed
<1>3. /\ g \in Handler /\ g.attempt = h.attempt /\ g.does = h.does /\ g.tries = h.tries
      /\ g.spent = h.spent /\ g.slow = h.slow /\ g.brave = h.brave /\ g.status = h.status
      /\ g.source = h.source
  BY <1>0, <1>2 DEF Handler
<1>4. Sound(g)
  <2>1. Serves(g) BY <1>2, <1>3 DEF Sound, Serves
  <2>2. Sourced(g) BY <1>2, <1>3 DEF Sound, Sourced, Label
  <2>3. tool = "web.fetch_page" => h.slow > 0
    <3> SUFFICES ASSUME tool = "web.fetch_page", h.slow = 0 PROVE FALSE
      BY <1>2 DEF Handler
    <3>1. h.spent >= 30 BY <1>1 DEF Deadline, RequestTimeout
    <3>2. IF h.tries = 0 THEN h.spent = 0 ELSE h.spent < 10 * h.tries
      BY <1>2 DEF Sound, InTime
    <3>3. h.tries \in 0..3 /\ h.spent \in Nat BY <1>2 DEF Handler, MaxFetchRetries
    <3> QED BY <3>1, <3>2, <3>3
  <2>4. tool = "web.search" => h.brave > 0
    <3> SUFFICES ASSUME tool = "web.search", h.brave = 0 PROVE FALSE
      BY <1>2 DEF Handler
    <3>1. h.spent >= 12 BY <1>1 DEF Deadline, SearchDeadline
    <3>2. h.spent <= 8 BY <1>2 DEF Sound, InTime, SearchTimeout
    <3>3. h.spent \in Nat BY <1>2 DEF Handler
    <3> QED BY <3>1, <3>2, <3>3
  <2>5. InTime(g) BY <1>2, <1>3, <2>3, <2>4 DEF Sound, InTime
  <2> QED BY <2>1, <2>2, <2>5 DEF Sound
<1>5. tool # NoTool
  <2>1. handlers # {}
    OBVIOUS
  <2> QED BY <2>1 DEF IInv, Progress
<1>6. /\ Failures' /\ Told' /\ at' \in {"send", "done"}
      /\ at' = "send" => attempt < Attempts(tool)
      /\ faults' \in [1..MaxRetries -> Fault \cup {"none"}]
      /\ recorded' \in {"none", "success", "error", "timeout", "rate_limit"}
  <2>1. PICK fault \in Fault : fault = "lapsed" BY DEF Fault
  <2> QED BY <1>1, <1>5, <2>1, FailedAttempt
<1>7. Progress'
  <2>1. \A x \in handlers' : x.attempt <= attempt BY <1>1, <1>3 DEF IInv, Progress
  <2>2. \A x, y \in handlers' : x.attempt = y.attempt => x = y
    <3>1. \A x \in handlers' : x = g \/ (x \in handlers /\ x # h) BY <1>1
    <3>2. \A x, y \in handlers : x.attempt = y.attempt => x = y BY DEF IInv, Progress
    <3> QED BY <1>3, <3>1, <3>2
  <2>3. attempt > 0 /\ attempt <= Attempts(tool) BY <1>1, <1>5 DEF IInv, Progress
  <2>4. attempt' = attempt /\ tool' = tool /\ Attempts(tool)' = Attempts(tool)
    BY <1>1 DEF Attempts
  <2> QED BY <1>5, <1>6, <2>1, <2>2, <2>3, <2>4 DEF Progress
<1>8. Typed' BY <1>1, <1>3, <1>6 DEF IInv, Typed
<1>9. Counted'
  <2>1. attempt \in Nat /\ attempt <= attempt BY ToolsAssumption DEF IInv, Typed
  <2> QED BY <1>1, <1>3, <2>1, SameCount DEF IInv
<1>10. \A x \in handlers' : Sound(x)' BY <1>1, <1>4, SoundStays DEF IInv
<1> QED BY <1>6, <1>7, <1>8, <1>9, <1>10 DEF IInv

\* A handler that is gone leaves the others as they were.
LEMMA Gone ==
    ASSUME IInv, NEW h \in handlers, handlers' = handlers \ {h},
           UNCHANGED <<provider, key, tool, attempt, gets>>
    PROVE  Counted' /\ \A x \in handlers' : Sound(x)'
<1>1. attempt \in Nat /\ attempt <= attempt BY ToolsAssumption DEF IInv, Typed
<1>2. Counted' BY <1>1, SameCount DEF IInv
<1>3. \A x \in handlers' : Sound(x)' BY SoundStays DEF IInv
<1> QED BY <1>2, <1>3

LEMMA StepBreak ==
    ASSUME IInv, NEW h \in handlers, Break(h)
    PROVE  IInv'
<1>1. /\ handlers' = handlers \ {h}
      /\ UNCHANGED <<provider, key, tool, attempt, answer, gets>>
  BY DEF Break, config
<1>2. tool # NoTool BY DEF IInv, Progress
<1>3. CASE Hears(h)
  <2>1. PICK fault \in Fault : Again(fault) BY <1>3 DEF Break
  <2>2. at = "wait" BY <1>3 DEF Hears
  <2>3. /\ Failures' /\ Told' /\ at' \in {"send", "done"}
        /\ at' = "send" => attempt < Attempts(tool)
        /\ faults' \in [1..MaxRetries -> Fault \cup {"none"}]
        /\ recorded' \in {"none", "success", "error", "timeout", "rate_limit"}
    BY <1>1, <1>2, <2>1, <2>2, FailedAttempt
  <2>4. Progress' BY <1>1, <1>2, <2>2, <2>3 DEF IInv, Progress, Attempts
  <2>5. Typed' BY <1>1, <2>3 DEF IInv, Typed
  <2> QED BY <1>1, <2>3, <2>4, <2>5, Gone DEF IInv
<1>4. CASE ~Hears(h)
  <2>1. UNCHANGED <<at, recorded, faults>> BY <1>4 DEF Break
  <2>2. Progress' /\ Failures' /\ Told'
    BY <1>1, <1>2, <2>1 DEF IInv, Progress, Failures, Told, Attempts
  <2>3. Typed' BY <1>1, <2>1 DEF IInv, Typed
  <2> QED BY <1>1, <2>2, <2>3, Gone DEF IInv
<1> QED BY <1>3, <1>4

LEMMA StepAnswer ==
    ASSUME IInv, NEW h \in handlers, Answer(h)
    PROVE  IInv'
<1>1. /\ handlers' = handlers \ {h}
      /\ UNCHANGED <<provider, key, tool, attempt, gets, faults>>
      /\ \/ /\ at = "wait" /\ at' = "done" /\ answer'.status = h.status
            /\ recorded' = IF h.status = "failed" THEN "error" ELSE "success"
         \/ UNCHANGED <<at, answer, recorded>>
  BY DEF Answer, Hears, config
<1>2. tool # NoTool /\ attempt \in 0..MaxRetries BY DEF IInv, Progress, Typed
<1>3. Progress' BY <1>1, <1>2 DEF IInv, Progress, Attempts
<1>4. Failures' BY <1>1 DEF IInv, Failures
<1>5. Told'
  <2>1. CASE UNCHANGED <<at, answer, recorded>>
    BY <1>1, <2>1 DEF IInv, Told, Attempts
  <2>2. CASE at = "wait" /\ (recorded' = IF h.status = "failed" THEN "error" ELSE "success")
             /\ answer'.status = h.status
    <3>1. attempt \in 1..MaxRetries BY <1>2, <2>2, ToolsAssumption DEF IInv, Progress
    <3>2. faults[attempt] = "none" BY <2>2, <3>1 DEF IInv, Failures
    <3> QED BY <1>1, <2>2, <3>2 DEF Told, Retried
  <2> QED BY <1>1, <2>1, <2>2
<1>6. Typed'
  <2>1. h.status \in {"none", "success", "failed", "found", "empty"} BY DEF IInv, Typed, Handler
  <2> QED BY <1>1, <2>1 DEF IInv, Typed
<1> QED BY <1>1, <1>3, <1>4, <1>5, <1>6, Gone DEF IInv

\* Each step keeps the invariant.
LEMMA StepIInv ==
    ASSUME IInv, [Next]_vars
    PROVE  IInv'
<1>1. ASSUME NEW t \in Tool, Call(t) PROVE IInv'
  <2>1. /\ handlers = {} /\ handlers' = {} /\ attempt' = 0 /\ at' = "send" /\ tool' = t
        /\ recorded' = "none" /\ answer' = NoAnswer /\ gets' = 0 /\ faults' = NoFaults
        /\ UNCHANGED <<provider, key>>
    BY <1>1 DEF Call, config
  <2>2. MaxRetries \in Nat /\ Attempts(t) \in 1..MaxRetries
    BY AttemptsBound, ToolsAssumption
  <2>3. Typed' BY <2>1, <2>2 DEF IInv, Typed, NoAnswer, NoFaults
  <2>4. Progress' BY <2>1, <2>2 DEF Progress, Attempts, Tool, NoTool
  <2>5. Counts({})'
    <3>1. Cardinality({}) = 0 BY FS_EmptySet
    <3> QED BY <2>1, <3>1 DEF Counts
  <2>6. Failures' /\ Told' BY <2>1, <2>2 DEF Failures, Told, NoFaults
  <2> QED BY <2>1, <2>3, <2>4, <2>5, <2>6 DEF IInv, Counted
<1>2. CASE Done
  <2>1. /\ handlers = {} /\ handlers' = {} /\ tool' = NoTool /\ at = "done"
        /\ UNCHANGED <<provider, key, attempt, at, recorded, answer, gets, faults>>
    BY <1>2 DEF Done, config
  <2>2. attempt \in Nat /\ attempt <= attempt BY ToolsAssumption DEF IInv, Typed
  <2>3. Counted' BY <2>1, <2>2, SameCount DEF IInv
  <2> QED BY <2>1, <2>3 DEF IInv, Typed, Progress, Failures, Told
<1>3. ASSUME NEW h \in handlers, Get(h) PROVE IInv'
  <2>1. gets' \in Nat /\ \E g : Goes(h, g)
    <3>1. gets \in Nat BY DEF IInv, Typed
    <3> QED BY <1>3, <3>1, GetGoes DEF IInv
  <2> QED BY <1>3, <2>1, GetCount, GoesTyped, GoesProgress DEF IInv
<1>4. ASSUME NEW h \in handlers, Refuse(h) \/ PickProvider(h) \/ DuckDuckGo(h) \/ Brave(h)
      PROVE  IInv'
  <2>1. UNCHANGED gets BY <1>4, RefuseGoes, PickGoes, DuckDuckGoGoes, BraveGoes DEF IInv
  <2>2. PICK g : Goes(h, g) /\ g.does # "get"
    BY <1>4, RefuseGoes, PickGoes, DuckDuckGoGoes, BraveGoes DEF IInv
  <2>3. attempt \in Nat /\ attempt <= attempt /\ gets \in Nat
    BY ToolsAssumption DEF IInv, Typed
  <2>4. Counted'
    <3>1. handlers' = (handlers \ {h}) \cup {g} /\ attempt' = attempt
      BY <2>2 DEF Goes, Becomes, Working
    <3> QED BY <2>1, <2>2, <2>3, <3>1, SameCount DEF IInv
  <2> QED BY <2>1, <2>2, <2>3, <2>4, GoesTyped, GoesProgress DEF IInv
<1>5. CASE UNCHANGED vars
  <2>1. UNCHANGED <<provider, key, tool, attempt, at, recorded, answer, handlers, gets, faults>>
    BY <1>5 DEF vars, config
  <2>2. attempt \in Nat /\ attempt <= attempt BY ToolsAssumption DEF IInv, Typed
  <2>3. Counted' BY <2>1, <2>2, SameCount DEF IInv
  <2>4. \A x \in handlers' : Sound(x)' BY <2>1, SoundStays DEF IInv
  <2> QED BY <2>1, <2>3, <2>4 DEF IInv, Typed, Progress, Failures, Told, Attempts
<1> QED
  BY <1>1, <1>2, <1>3, <1>4, <1>5, StepSend, StepTimeOut, StepAnswer, StepBreak
  DEF Next, Go, Serve

LEMMA InitIInv == Init => IInv
<1> SUFFICES ASSUME Init PROVE IInv
  OBVIOUS
<1>1. MaxRetries \in Nat BY ToolsAssumption
<1>2. Counts({})
  <2>1. Cardinality({}) = 0 BY FS_EmptySet
  <2> QED BY <2>1 DEF Counts, Init
<1> QED BY <1>1, <1>2 DEF Init, IInv, Typed, Progress, Failures, Told, Counted, NoAnswer, NoFaults
-------------------------------------------------------------------------------
\* The types hold, a search is attempted once, and a call makes no more requests for a
\* page than its attempts and their tries allow.
THEOREM ToolsTyped == Spec => []TypeOK
<1>1. IInv => TypeOK
  <2> SUFFICES ASSUME IInv PROVE TypeOK
    OBVIOUS
  <2>1. gets \in 0..(MaxRetries * MaxFetchRetries) BY CountBound DEF IInv, Typed
  <2>2. tool = "web.search" => attempt <= 1
    BY DEF IInv, Progress, Attempts, NoTool
  <2> QED BY <2>1, <2>2 DEF IInv, Typed, TypeOK
<1> QED BY <1>1, InitIInv, StepIInv, PTL DEF Spec

\* The worker gives up on a page only if its server was slow, however many tries and
\* pauses the MCP server adds, and on a search only if Brave was asked.
THEOREM PromptPagesAnswered == Spec => []AnsweredInTime
<1>1. IInv => AnsweredInTime BY DEF IInv, Sound, InTime, AnsweredInTime
<1> QED BY <1>1, InitIInv, StepIInv, PTL DEF Spec

\* Search results bear the name of the provider they came from, fallback included. What is
\* recorded of a call tells how its last attempt ended, and only failures worth a retry were
\* followed by another attempt, until none was left.
THEOREM CallsRecordedTruly == Spec => []RecordedAsItWas
<1>1. IInv => RecordedAsItWas
  <2> SUFFICES ASSUME IInv PROVE RecordedAsItWas
    OBVIOUS
  <2>1. attempt \in 0..MaxRetries /\ MaxRetries \in Nat BY ToolsAssumption DEF IInv, Typed
  <2>2. \A n \in 1..(attempt - 1) : faults[n] \in Retried BY <2>1 DEF IInv, Failures
  <2>3. tool # NoTool /\ at = "done" => attempt \in 1..MaxRetries BY <2>1 DEF IInv, Progress
  <2>4. tool # NoTool /\ at = "done" => faults[attempt] \in Fault \cup {"none"}
    BY <2>3 DEF IInv, Typed
  <2>5. \A h \in handlers : h.does = "reply" /\ h.status = "found" => Label(h) = h.source
    BY DEF IInv, Sound, Sourced
  <2> QED BY <2>2, <2>4, <2>5 DEF IInv, Told, Retried, Fault, RecordedAsItWas
<1> QED BY <1>1, InitIInv, StepIInv, PTL DEF Spec
===============================================================================
