--------------------------- MODULE DiscoveryRunProofs ---------------------------
(***************************************************************************)
(* The safety properties of DiscoveryRun, for any number of queries, URLs, *)
(* texts, runs and retries.                                                *)
(***************************************************************************)
EXTENDS DiscoveryRun, FiniteSetTheorems, SequenceTheorems, TLAPS

\* The documents waiting for extraction have not been sent to the LLM.
QueueFresh == \A i \in DOMAIN judged : judged[i].text \notin queue

\* What CompletedIsClean says of the phases before the run is closed.
CleanSoFar ==
    /\ pc \in {"search", "fetch"} => outcome = "completed" /\ sum["extractionErrors"] = 0
    /\ pc = "search" => sum["attempted"] = 0 /\ sum["fetchErrors"] = 0
    /\ pc \in {"extract", "save", "close"} /\ outcome = "completed" =>
          sum["fetchErrors"] = 0 /\ (sum["attempted"] > 0 => sum["found"] > 0)
    /\ pc = "close" /\ outcome = "completed" => sum["extractionErrors"] = 0

\* The run under way is the last one created, and still running.
LastRunOpen == pc # "idle" => Len(runs) > 0 /\ runs[Len(runs)].status = "running"

\* Adding to a counter.
LEMMA PlusType ==
    ASSUME NEW S, NEW f \in [S -> Nat], NEW x \in S, NEW n \in Nat
    PROVE  Plus(f, x, n) \in [S -> Nat]
BY DEF Plus

LEMMA CounterNames ==
    {"executed", "found", "attempted", "created", "skipped", "fetchErrors", "extractionErrors"}
      \subseteq Counters
BY DEF Counters

LEMMA AnsweredNat == Answered \cup Failing \subseteq Nat
BY RunAssumption DEF Answered, Failing

\* The types.
LEMMA InitTyped == Init => TypeOK
<1> SUFFICES ASSUME Init PROVE TypeOK
  OBVIOUS
<1>1. sum \in [Counters -> Nat]
  BY DEF Init, NoCounts
<1>2. events \in [Text \X (Name \cup {NoName}) -> Nat] /\ llmRows \in [Text -> Nat]
  BY DEF Init
<1>3. runs \in Seq(RunRow) /\ pending \in Seq(Name \cup {NoName})
      /\ judged \in Seq([text : docs, verdict : Verdicts])
  BY DEF Init
<1> QED
  BY <1>1, <1>2, <1>3 DEF Init, TypeOK

LEMMA DeliveredTyped ==
    ASSUME TypeOK, NEW t \in Text, NEW name \in Name \cup {NoName},
           NEW claims \in BOOLEAN, NEW calls \in BOOLEAN, NEW n \in Nat,
           Delivered(t, name, claims, calls, n)
    PROVE  /\ events' \in [Text \X (Name \cup {NoName}) -> Nat]
           /\ llmRows' \in [Text -> Nat]
BY DEF Delivered, TypeOK, Plus, Least

\* The worker's history stays typed when documents are added and verdicts noted.
LEMMA JudgedTyped ==
    ASSUME TypeOK, NEW D, docs \subseteq D
    PROVE  judged \in Seq([text : D, verdict : Verdicts])
<1>1. [text : docs, verdict : Verdicts] \subseteq [text : D, verdict : Verdicts]
  OBVIOUS
<1> QED
  BY <1>1, SeqMonotonic DEF TypeOK

LEMMA JudgingTyped ==
    ASSUME TypeOK, NEW t, NEW v \in Verdicts, Judging(t, v)
    PROVE  /\ t \in docs
           /\ queue' \in SUBSET docs
           /\ judged' \in Seq([text : docs, verdict : Verdicts])
BY DEF TypeOK, Judging

LEMMA NextTyped == TypeOK /\ [Next]_vars => TypeOK'
<1> SUFFICES ASSUME TypeOK, [Next]_vars PROVE TypeOK'
  OBVIOUS
<1> USE DEF TypeOK, backend, local, history
<1>1. CASE UNCHANGED vars
  BY <1>1 DEF vars
<1>2. CASE StartRun
  <2>1. PICK n \in Answered \cup Failing : runs' = runs \o [i \in 1..n |-> Running]
    BY <1>2 DEF StartRun
  <2>2. n \in Nat
    BY <2>1, AnsweredNat
  <2>3. [i \in 1..n |-> Running] \in Seq(RunRow)
    BY <2>2 DEF Running, Reported, NoCounts, Counters, RunRow
  <2>4. runs' \in Seq(RunRow)
    BY <2>1, <2>3
  <2>5. pending' \in Seq(Name \cup {NoName}) /\ sum' \in [Counters -> Nat]
    BY <1>2 DEF StartRun, NoCounts
  <2> QED
    BY <1>2, <2>4, <2>5 DEF StartRun
<1>3. CASE SearchFails
  BY <1>3 DEF SearchFails, Asking, Plus, Counters
<1>4. ASSUME NEW found \in SUBSET Url, SearchReturns(found) PROVE TypeOK'
  <2>1. toFetch' \in SUBSET Url
    BY <1>4 DEF SearchReturns
  <2>2. Cardinality(found) \in Nat
    BY FS_Subset, FS_CardinalityType, RunAssumption
  <2>3. sum' \in [Counters -> Nat]
    <3>1. PICK saved \in BOOLEAN :
            sum' = Plus(Plus(sum, "executed", 1), "found", IF saved THEN Cardinality(found) ELSE 0)
      BY <1>4, RunAssumption DEF SearchReturns
    <3>2. Plus(sum, "executed", 1) \in [Counters -> Nat]
      BY PlusType, CounterNames
    <3> QED
      BY <3>1, <3>2, <2>2, PlusType, CounterNames
  <2> QED
    BY <1>4, <2>1, <2>3 DEF SearchReturns, Asking
<1>5. CASE SearchDone
  BY <1>5 DEF SearchDone
<1>6. ASSUME NEW u, FetchFails(u) PROVE TypeOK'
  <2>1. sum' \in [Counters -> Nat]
    BY <1>6, PlusType, CounterNames DEF FetchFails
  <2> QED
    BY <1>6, <2>1 DEF FetchFails, Fetching
<1>7. ASSUME NEW u, NEW t \in Text, StoreFails(u, t) \/ StoreCreates(u, t) \/ StoreSkips(u, t)
      PROVE  TypeOK'
  <2>1. docs' \in SUBSET Text /\ docs \subseteq docs'
    BY <1>7 DEF StoreFails, StoreCreates, StoreSkips
  <2>2. judged' \in Seq([text : docs', verdict : Verdicts])
    BY <1>7, <2>1, JudgedTyped DEF StoreFails, StoreCreates, StoreSkips
  <2>3. sum' \in [Counters -> Nat]
    <3>1. Plus(sum, "attempted", 1) \in [Counters -> Nat]
      BY PlusType, CounterNames
    <3>2. PICK c \in {"created", "skipped", "fetchErrors"} :
            sum' = Plus(Plus(sum, "attempted", 1), c, 1)
      BY <1>7 DEF StoreFails, StoreCreates, StoreSkips
    <3> QED
      BY <3>1, <3>2, PlusType, CounterNames
  <2>4. queue' \in SUBSET docs' /\ toFetch' \in SUBSET Url
    BY <1>7, <2>1 DEF StoreFails, StoreCreates, StoreSkips, Fetching
  <2> QED
    BY <1>7, <2>1, <2>2, <2>3, <2>4 DEF StoreFails, StoreCreates, StoreSkips, Fetching
<1>8. CASE FetchDone
  BY <1>8 DEF FetchDone
<1>9. ASSUME NEW t \in Text, GraphFails(t) \/ NoEvents(t) PROVE TypeOK'
  <2>1. queue' \in SUBSET docs /\ judged' \in Seq([text : docs, verdict : Verdicts])
    BY <1>9, JudgingTyped DEF GraphFails, NoEvents, Verdicts
  <2>2. sum' \in [Counters -> Nat]
    <3>1. Plus(sum, "extractionErrors", 1) \in [Counters -> Nat]
      BY PlusType, CounterNames
    <3> QED
      BY <1>9, <3>1 DEF GraphFails, NoEvents
  <2> QED
    BY <1>9, <2>1, <2>2 DEF GraphFails, NoEvents
<1>10. ASSUME NEW t \in Text, Irrelevant(t) PROVE TypeOK'
  <2>1. queue' \in SUBSET docs /\ judged' \in Seq([text : docs, verdict : Verdicts])
    BY <1>10, JudgingTyped DEF Irrelevant, Verdicts
  <2>2. events' \in [Text \X (Name \cup {NoName}) -> Nat] /\ llmRows' \in [Text -> Nat]
    BY <1>10, AnsweredNat, DeliveredTyped DEF Irrelevant
  <2> QED
    BY <1>10, <2>1, <2>2 DEF Irrelevant
<1>11. ASSUME NEW t \in Text, IrrelevantNoReason(t) PROVE TypeOK'
  BY <1>11, JudgingTyped DEF IrrelevantNoReason, Verdicts
<1>12. ASSUME NEW t \in Text, NEW names \in Candidates, Relevant(t, names) PROVE TypeOK'
  <2>1. queue' \in SUBSET docs /\ judged' \in Seq([text : docs, verdict : Verdicts])
    BY <1>12, JudgingTyped DEF Relevant, Verdicts
  <2>2. names \in Seq(Name \cup {NoName})
    <3>1. PICK n \in 1..MaxFound : names \in [1..n -> Name \cup {NoName}]
      BY <1>12 DEF Candidates
    <3>2. n \in Nat
      BY <3>1, RunAssumption
    <3> QED
      BY <3>1, <3>2, SeqDef
  <2> QED
    BY <1>12, <2>1, <2>2 DEF Relevant
<1>13. CASE SaveAnswered \/ SaveFails
  <2>1. PICK n \in Nat, claims \in BOOLEAN : Delivered(page, Head(pending), claims, withCalls, n)
    BY <1>13, AnsweredNat DEF SaveAnswered, SaveFails, Saving
  <2>2. Head(pending) \in Name \cup {NoName} /\ pending' \in Seq(Name \cup {NoName})
    <3>1. pending \in Seq(Name \cup {NoName}) /\ pending # <<>> /\ pending' = Tail(pending)
      BY <1>13 DEF SaveAnswered, SaveFails, Saving
    <3> QED
      BY <3>1, HeadTailProperties
  <2>3. events' \in [Text \X (Name \cup {NoName}) -> Nat] /\ llmRows' \in [Text -> Nat]
    BY <2>1, <2>2, DeliveredTyped
  <2>4. sum' \in [Counters -> Nat]
    <3>1. Plus(sum, "extractionErrors", 1) \in [Counters -> Nat]
      BY PlusType, CounterNames
    <3> QED
      BY <1>13, <3>1 DEF SaveAnswered, SaveFails
  <2> QED
    BY <1>13, <2>2, <2>3, <2>4 DEF SaveAnswered, SaveFails, Saving
<1>14. CASE PageDone \/ ExtractDone \/ Crash
  BY <1>14 DEF PageDone, ExtractDone, Crash
<1>15. CASE Close
  <2>1. [status |-> outcome, stats |-> Reported(sum)] \in RunRow
    BY DEF Reported, RunRow
  <2>2. runs' \in Seq(RunRow)
    <3>1. Len(runs) \in Nat /\ DOMAIN runs = 1..Len(runs)
      BY LenProperties
    <3>2. CASE Len(runs) = 0
      <4>1. runs = <<>>
        BY <3>2, EmptySeq
      <4>2. \A r : [runs EXCEPT ![Len(runs)] = r] = runs
        BY <3>1, <3>2, <4>1
      <4> QED
        BY <1>15, <4>2 DEF Close
    <3>3. CASE Len(runs) \in 1..Len(runs)
      BY <1>15, <2>1, <3>3, ExceptSeq DEF Close
    <3> QED
      BY <3>1, <3>2, <3>3
  <2> QED
    BY <1>15, <2>2 DEF Close
<1>16. ASSUME NEW t \in Text, ManualStore(t) PROVE TypeOK'
  <2>1. judged' \in Seq([text : docs', verdict : Verdicts])
    BY <1>16, JudgedTyped DEF ManualStore
  <2> QED
    BY <1>16, <2>1 DEF ManualStore
<1> QED
  BY <1>1, <1>2, <1>3, <1>4, <1>5, <1>6, <1>7, <1>8, <1>9, <1>10, <1>11, <1>12, <1>13,
     <1>14, <1>15, <1>16 DEF Next, Step

\* Every variable keeps its type, and the worker only knows stored documents:
\* types of the worker's records and of the rows it writes (pipeline.py).
THEOREM RunsTyped == Spec => []TypeOK
<1> QED
  BY InitTyped, NextTyped, PTL DEF Spec
-------------------------------------------------------------------------------
(* The counters.                                                           *)

\* A step that appends to the runs, or overwrites the last one, keeps a
\* property that holds of the rows it writes.
LEMMA RunsAppended ==
    ASSUME TypeOK, StartRun
    PROVE  /\ \A i \in DOMAIN runs : i \in DOMAIN runs' /\ runs'[i] = runs[i]
           /\ \A i \in DOMAIN runs' : i \in DOMAIN runs \/ runs'[i] = Running
           /\ pc' # "idle" => Len(runs') > 0 /\ runs'[Len(runs')] = Running
<1>1. PICK n \in Answered \cup Failing, replied \in BOOLEAN :
         /\ n \in (IF replied THEN Answered ELSE Failing)
         /\ runs' = runs \o [i \in 1..n |-> Running]
         /\ pc' = IF replied THEN "search" ELSE "idle"
  BY DEF StartRun
<1>2. n \in Nat /\ (n \in Answered => n > 0)
  BY AnsweredNat, RunAssumption DEF Answered
<1> DEFINE new == [i \in 1..n |-> Running]
<1>3. new \in Seq({Running}) /\ Len(new) = n /\ \A i \in 1..n : new[i] = Running
  BY <1>2
<1>4. runs \in Seq(RunRow \cup {Running}) /\ new \in Seq(RunRow \cup {Running})
  BY <1>3, SeqMonotonic DEF TypeOK
<1> HIDE DEF new
<1>5. /\ Len(runs \o new) = Len(runs) + n
      /\ \A i \in 1..(Len(runs) + n) :
           (runs \o new)[i] = IF i <= Len(runs) THEN runs[i] ELSE new[i - Len(runs)]
      /\ runs \o new \in Seq(RunRow \cup {Running})
  BY <1>3, <1>4, ConcatProperties
<1>6. DOMAIN (runs \o new) = 1..(Len(runs) + n) /\ DOMAIN runs = 1..Len(runs) /\ Len(runs) \in Nat
  BY <1>4, <1>5, LenProperties
<1>7. runs' = runs \o new
  BY <1>1 DEF new
<1>8. \A i \in DOMAIN runs' : i \in DOMAIN runs \/ runs'[i] = Running
  BY <1>2, <1>3, <1>5, <1>6, <1>7
<1>9. \A i \in DOMAIN runs : i \in DOMAIN runs' /\ runs'[i] = runs[i]
  BY <1>2, <1>5, <1>6, <1>7
<1>10. ASSUME pc' # "idle" PROVE Len(runs') > 0 /\ runs'[Len(runs')] = Running
  <2>1. n > 0
    BY <1>1, <1>2, <1>10
  <2> QED
    BY <1>2, <1>3, <1>5, <1>6, <1>7, <2>1
<1> QED
  BY <1>8, <1>9, <1>10

LEMMA RunsClosed ==
    ASSUME TypeOK, Close
    PROVE  /\ DOMAIN runs' = DOMAIN runs
           /\ \A i \in DOMAIN runs : i # Len(runs) => runs'[i] = runs[i]
           /\ \A i \in DOMAIN runs :
                runs'[i] = runs[i] \/ runs'[i].stats = Reported(sum)
BY DEF Close

\* The steps that neither start nor close a run leave the rows alone.
LEMMA RunsKept == [Next]_vars /\ ~StartRun /\ ~Close => runs' = runs
BY DEF Next, Step, vars, backend, SearchFails, SearchReturns, SearchDone, FetchFails, StoreFails,
       StoreCreates, StoreSkips, FetchDone, GraphFails, Irrelevant, IrrelevantNoReason, NoEvents,
       Relevant, SaveAnswered, SaveFails, Saving, PageDone, ExtractDone, Crash, ManualStore

LEMMA SumAddsUp == TypeOK /\ AddUp(sum) /\ [Next]_vars => AddUp(sum')
<1> SUFFICES ASSUME TypeOK, AddUp(sum), [Next]_vars PROVE AddUp(sum')
  OBVIOUS
<1> USE CounterNames DEF AddUp, TypeOK
<1>1. CASE UNCHANGED sum
  BY <1>1
<1>2. CASE StartRun
  BY <1>2 DEF StartRun, NoCounts
<1>3. CASE SearchFails
  BY <1>3 DEF SearchFails, Plus
<1>4. ASSUME NEW found \in SUBSET Url, SearchReturns(found) PROVE AddUp(sum')
  <2>1. PICK m : sum' = Plus(Plus(sum, "executed", 1), "found", m)
    BY <1>4 DEF SearchReturns
  <2> QED
    BY <2>1 DEF Plus
<1>5. ASSUME NEW c \in {"created", "skipped", "fetchErrors"},
             sum' = Plus(Plus(sum, "attempted", 1), c, 1)
      PROVE  AddUp(sum')
  <2> DEFINE tried == Plus(sum, "attempted", 1)
  <2>1. /\ tried \in [Counters -> Nat]
        /\ tried["attempted"] = sum["attempted"] + 1
        /\ \A d \in {"created", "skipped", "fetchErrors"} : tried[d] = sum[d]
    BY DEF Plus
  <2> HIDE DEF tried
  <2>2. /\ sum'["attempted"] = tried["attempted"]
        /\ \A d \in {"created", "skipped", "fetchErrors"} :
             sum'[d] = IF d = c THEN tried[d] + 1 ELSE tried[d]
    BY <1>5, <2>1 DEF Plus, tried
  <2>3. \A d \in {"attempted", "created", "skipped", "fetchErrors"} : sum[d] \in Nat
    OBVIOUS
  <2>4. sum["attempted"] = sum["created"] + sum["skipped"] + sum["fetchErrors"]
    OBVIOUS
  <2> HIDE DEF TypeOK
  <2>5. CASE c = "created"
    BY <2>1, <2>2, <2>3, <2>4, <2>5
  <2>6. CASE c = "skipped"
    BY <2>1, <2>2, <2>3, <2>4, <2>6
  <2>7. CASE c = "fetchErrors"
    BY <2>1, <2>2, <2>3, <2>4, <2>7
  <2> QED
    BY <2>5, <2>6, <2>7
<1>6. CASE sum' = Plus(sum, "extractionErrors", 1)
  <2>1. \A c \in {"attempted", "created", "skipped", "fetchErrors"} : sum'[c] = sum[c]
    BY <1>6 DEF Plus
  <2> QED
    BY <2>1
<1>7. UNCHANGED sum \/ StartRun \/ SearchFails \/ (\E found \in SUBSET Url : SearchReturns(found))
      \/ (\E c \in {"created", "skipped", "fetchErrors"} :
            sum' = Plus(Plus(sum, "attempted", 1), c, 1))
      \/ sum' = Plus(sum, "extractionErrors", 1)
  BY DEF Next, Step, vars, local, SearchDone, FetchFails, StoreFails, StoreCreates, StoreSkips,
         FetchDone, GraphFails, Irrelevant, IrrelevantNoReason, NoEvents, Relevant, SaveAnswered,
         SaveFails, PageDone, ExtractDone, Close, Crash, ManualStore
<1> QED
  BY <1>1, <1>2, <1>3, <1>4, <1>5, <1>6, <1>7

\* The counters of the run under way and of every row add up, whatever phase
\* failed: each attempted URL was counted once more (pipeline.py:325-486).
THEOREM CountersAddUp == Spec => []CountsAddUp
<1> DEFINE Inv == TypeOK /\ CountsAddUp
<1>1. Init => Inv
  BY InitTyped DEF Init, CountsAddUp, AddUp, NoCounts, Counters
<1>2. Inv /\ [Next]_vars => Inv'
  <2> SUFFICES ASSUME TypeOK, CountsAddUp, [Next]_vars
               PROVE  AddUp(sum') /\ \A i \in DOMAIN runs' : AddUp(runs'[i].stats)
    BY NextTyped DEF CountsAddUp
  <2>1. AddUp(sum')
    BY SumAddsUp DEF CountsAddUp
  <2>2. AddUp(Running.stats)
    BY DEF Running, Reported, NoCounts, AddUp, Counters
  <2>3. AddUp(Reported(sum))
    BY DEF CountsAddUp, Reported, AddUp, Counters
  <2>4. CASE StartRun
    BY <2>1, <2>2, <2>4, RunsAppended DEF CountsAddUp
  <2>5. CASE Close
    BY <2>1, <2>3, <2>5, RunsClosed DEF CountsAddUp
  <2>6. CASE ~StartRun /\ ~Close
    BY <2>1, <2>6, RunsKept DEF CountsAddUp
  <2> QED
    BY <2>4, <2>5, <2>6
<1> QED
  BY <1>1, <1>2, PTL DEF Spec
-------------------------------------------------------------------------------
(* The status of a run.                                                    *)

LEMMA StaysClean == TypeOK /\ CleanSoFar /\ [Next]_vars => CleanSoFar'
<1> SUFFICES ASSUME TypeOK, CleanSoFar, [Next]_vars PROVE CleanSoFar'
  OBVIOUS
<1> USE CounterNames DEF TypeOK, CleanSoFar
<1>1. CASE UNCHANGED <<pc, sum, outcome>>
  BY <1>1
<1>2. CASE StartRun
  BY <1>2 DEF StartRun, NoCounts
<1>3. CASE SearchFails
  BY <1>3 DEF SearchFails, Asking, Plus
<1>4. ASSUME NEW found \in SUBSET Url, SearchReturns(found) PROVE CleanSoFar'
  <2>1. PICK m : sum' = Plus(Plus(sum, "executed", 1), "found", m)
    BY <1>4 DEF SearchReturns
  <2>2. \A c \in Counters \ {"executed", "found"} : sum'[c] = sum[c]
    BY <2>1 DEF Plus
  <2> QED
    BY <1>4, <2>2 DEF SearchReturns, Asking
<1>5. CASE SearchDone
  BY <1>5 DEF SearchDone
<1>6. ASSUME NEW u, NEW t,
             FetchFails(u) \/ StoreFails(u, t) \/ StoreCreates(u, t) \/ StoreSkips(u, t)
      PROVE  CleanSoFar'
  <2>1. pc' = pc /\ pc = "fetch" /\ outcome' = outcome
    BY <1>6 DEF FetchFails, StoreFails, StoreCreates, StoreSkips, Fetching
  <2>2. PICK c \in {"created", "skipped", "fetchErrors"} :
          sum' = Plus(Plus(sum, "attempted", 1), c, 1)
    BY <1>6 DEF FetchFails, StoreFails, StoreCreates, StoreSkips
  <2>3. sum'["extractionErrors"] = sum["extractionErrors"]
    BY <2>2 DEF Plus
  <2> QED
    BY <2>1, <2>3
<1>7. CASE FetchDone
  BY <1>7 DEF FetchDone
<1>8. ASSUME pc \in {"extract", "save"}, pc' \in {"extract", "save"}, UNCHANGED outcome,
             UNCHANGED sum \/ sum' = Plus(sum, "extractionErrors", 1)
      PROVE  CleanSoFar'
  <2>1. \A c \in Counters \ {"extractionErrors"} : sum'[c] = sum[c]
    BY <1>8 DEF Plus
  <2> QED
    BY <1>8, <2>1
<1>9. ASSUME NEW t, IrrelevantNoReason(t) PROVE CleanSoFar'
  BY <1>9 DEF IrrelevantNoReason
<1>10. CASE ExtractDone
  BY <1>10 DEF ExtractDone
<1>11. CASE Close \/ Crash
  BY <1>11 DEF Close, Crash
<1>12. ASSUME NEW t, ManualStore(t) PROVE CleanSoFar'
  BY <1>12 DEF ManualStore, local
<1>13. ASSUME \/ \E t \in Text : GraphFails(t) \/ Irrelevant(t) \/ NoEvents(t)
              \/ \E t \in Text, names \in Candidates : Relevant(t, names)
              \/ SaveAnswered \/ SaveFails \/ PageDone
       PROVE  CleanSoFar'
  BY <1>8, <1>13 DEF GraphFails, Irrelevant, NoEvents, Relevant, Judging, SaveAnswered, SaveFails,
                     Saving, PageDone
<1> QED
  BY <1>1, <1>2, <1>3, <1>4, <1>5, <1>6, <1>7, <1>9, <1>10, <1>11, <1>12, <1>13
     DEF Next, Step, vars, local

\* A run closed as completed had no errors, and had saved the results of some query if it
\* attempted a URL: what _execute_run decides in two places (pipeline.py:488-491, 640-641)
\* and at the early return (319-321).
THEOREM CompletedRunsClean == Spec => []CompletedIsClean
<1>1. Init => TypeOK /\ CleanSoFar
  BY InitTyped DEF Init, CleanSoFar
<1>2. TypeOK /\ CleanSoFar /\ [Next]_vars => (TypeOK /\ CleanSoFar)'
  BY NextTyped, StaysClean
<1>3. CleanSoFar => CompletedIsClean
  BY DEF CleanSoFar, CompletedIsClean
<1> QED
  BY <1>1, <1>2, <1>3, PTL DEF Spec

LEMMA StaysOpen == TypeOK /\ LastRunOpen /\ [Next]_vars => LastRunOpen'
<1> SUFFICES ASSUME TypeOK, LastRunOpen, [Next]_vars PROVE LastRunOpen'
  OBVIOUS
<1>1. CASE StartRun
  BY <1>1, RunsAppended DEF LastRunOpen, Running
<1>2. CASE Close
  BY <1>2 DEF Close, LastRunOpen
<1>3. CASE ~StartRun /\ ~Close
  <2>1. runs' = runs
    BY <1>3, RunsKept
  <2>2. pc' # "idle" => pc # "idle"
    BY <1>3 DEF Next, Step, vars, local, Asking, SearchFails, SearchReturns, SearchDone, Fetching,
                FetchFails, StoreFails, StoreCreates, StoreSkips, FetchDone, Judging, GraphFails,
                Irrelevant, IrrelevantNoReason, NoEvents, Relevant, Saving, SaveAnswered,
                SaveFails, PageDone, ExtractDone, Crash, ManualStore
  <2> QED
    BY <2>1, <2>2 DEF LastRunOpen
<1> QED
  BY <1>1, <1>2, <1>3

\* A closed run keeps its status and counters: the endpoint would overwrite
\* them (ingest_service.py:545-572), but the worker closes its own run only,
\* which is the last and still open.
THEOREM ClosedRunsStay == Spec => ClosedRunFrozen
<1> DEFINE Frozen == \A i \in DOMAIN runs : runs[i].status # "running" =>
                        i \in DOMAIN runs' /\ runs'[i] = runs[i]
<1>1. Init => TypeOK /\ LastRunOpen
  BY InitTyped DEF Init, LastRunOpen
<1>2. TypeOK /\ LastRunOpen /\ [Next]_vars => (TypeOK /\ LastRunOpen)'
  BY NextTyped, StaysOpen
<1>3. TypeOK /\ LastRunOpen /\ [Next]_vars => Frozen
  <2> SUFFICES ASSUME TypeOK, LastRunOpen, [Next]_vars PROVE Frozen
    OBVIOUS
  <2>1. CASE StartRun
    BY <2>1, RunsAppended
  <2>2. CASE Close
    BY <2>2, RunsClosed DEF LastRunOpen, Close
  <2>3. CASE ~StartRun /\ ~Close
    BY <2>3, RunsKept
  <2> QED
    BY <2>1, <2>2, <2>3
<1>4. TypeOK /\ LastRunOpen /\ [Next]_vars => [Frozen]_vars
  BY <1>3
<1> QED
  BY <1>1, <1>2, <1>4, PTL DEF Spec, ClosedRunFrozen
-------------------------------------------------------------------------------
(* Documents and candidates.                                               *)

LEMMA StaysFresh ==
    TypeOK /\ QueueFresh /\ ExtractedOnce /\ [Next]_vars => QueueFresh' /\ ExtractedOnce'
<1> SUFFICES ASSUME TypeOK, QueueFresh, ExtractedOnce, [Next]_vars
             PROVE  QueueFresh' /\ ExtractedOnce'
  OBVIOUS
<1>1. ASSUME UNCHANGED judged, queue' \subseteq queue PROVE QueueFresh' /\ ExtractedOnce'
  BY <1>1 DEF QueueFresh, ExtractedOnce
<1>2. ASSUME NEW u, NEW t, StoreCreates(u, t) PROVE QueueFresh' /\ ExtractedOnce'
  <2>1. judged \in [1..Len(judged) -> [text : docs, verdict : Verdicts]]
    BY LenProperties DEF TypeOK
  <2>2. \A i \in DOMAIN judged : judged[i].text \in docs
    BY <2>1
  <2>3. UNCHANGED judged /\ queue' \subseteq queue \cup {t} /\ t \notin docs
    BY <1>2 DEF StoreCreates, history
  <2>4. QueueFresh'
    BY <2>2, <2>3 DEF QueueFresh
  <2> QED
    BY <2>3, <2>4 DEF ExtractedOnce
<1>3. ASSUME NEW t, NEW v \in Verdicts, Judging(t, v) PROVE QueueFresh' /\ ExtractedOnce'
  <2>1. /\ Len(judged) \in Nat /\ DOMAIN judged = 1..Len(judged)
        /\ DOMAIN judged' = 1..(Len(judged) + 1)
        /\ judged'[Len(judged) + 1].text = t
        /\ \A i \in DOMAIN judged : judged'[i] = judged[i]
    BY <1>3 DEF TypeOK, Judging
  <2>2. t \in queue /\ queue' = queue \ {t}
    BY <1>3 DEF Judging
  <2>3. QueueFresh'
    BY <2>1, <2>2 DEF QueueFresh
  <2>4. ExtractedOnce'
    BY <2>1, <2>2 DEF QueueFresh, ExtractedOnce
  <2> QED
    BY <2>3, <2>4
<1>4. ASSUME NEW t, NEW names, \/ GraphFails(t) \/ Irrelevant(t) \/ IrrelevantNoReason(t)
                               \/ NoEvents(t) \/ Relevant(t, names)
      PROVE  \E v \in Verdicts : Judging(t, v)
  BY <1>4 DEF GraphFails, Irrelevant, IrrelevantNoReason, NoEvents, Relevant, Verdicts
<1>5. \/ UNCHANGED judged /\ queue' \subseteq queue
      \/ \E u \in Url, t \in Text : StoreCreates(u, t)
      \/ \E t, names : \/ GraphFails(t) \/ Irrelevant(t) \/ IrrelevantNoReason(t)
                       \/ NoEvents(t) \/ Relevant(t, names)
  BY DEF Next, Step, vars, local, history, StartRun, SearchFails, SearchReturns, SearchDone,
         FetchFails, StoreFails, StoreSkips, FetchDone, Saving, SaveAnswered, SaveFails, PageDone,
         ExtractDone, Close, Crash, ManualStore
<1> QED
  BY <1>1, <1>2, <1>3, <1>4, <1>5

\* No page is sent to the LLM twice: a document is queued only by the call that
\* creates it (pipeline.py:454-484), which no other call does a second time.
THEOREM PagesExtractedOnce == Spec => []ExtractedOnce
<1>1. Init => TypeOK /\ QueueFresh /\ ExtractedOnce
  BY InitTyped DEF Init, QueueFresh, ExtractedOnce
<1>2. TypeOK /\ QueueFresh /\ ExtractedOnce /\ [Next]_vars
        => (TypeOK /\ QueueFresh /\ ExtractedOnce)'
  BY NextTyped, StaysFresh
<1> QED
  BY <1>1, <1>2, PTL DEF Spec

LEMMA DeliveredOnce ==
    ASSUME TypeOK, NamedOnce, NEW t \in Text, NEW name \in Name \cup {NoName}, NEW claims, NEW calls,
           NEW n \in Nat, Delivered(t, name, claims, calls, n)
    PROVE  NamedOnce'
<1> SUFFICES ASSUME NEW s \in Text, NEW m \in Name PROVE events'[<<s, m>>] <= 1
  BY DEF NamedOnce
<1> DEFINE stored == IF name # NoName THEN IF events[<<t, name>>] = 0 THEN Least(n, 1) ELSE 0
                                      ELSE n
           added == IF name # NoName \/ claims THEN stored ELSE 0
           here == <<t, name>>
           there == <<s, m>>
           Pairs == Text \X (Name \cup {NoName})
<1>1. events \in [Pairs -> Nat] /\ here \in Pairs /\ there \in Pairs /\ events[there] <= 1
  BY DEF TypeOK, NamedOnce
<1>2. events' = [events EXCEPT ![here] = events[here] + added]
  BY DEF Delivered, Plus
<1>3. here = there => m # NoName /\ name = m
  BY RunAssumption
<1>4. here = there => added = IF events[there] = 0 THEN Least(n, 1) ELSE 0
  BY <1>3
<1> HIDE DEF here, there, Pairs, added
<1>5. CASE here # there
  BY <1>1, <1>2, <1>5 DEF there
<1>6. CASE here = there
  BY <1>1, <1>2, <1>4, <1>6 DEF Least, there
<1> QED
  BY <1>5, <1>6

\* A document has at most one candidate per business name, however often its
\* saves are retried: the guard of save_candidate_event (ingest_service.py:746-761).
THEOREM CandidatesNamedOnce == Spec => []NamedOnce
<1>1. Init => TypeOK /\ NamedOnce
  BY InitTyped DEF Init, NamedOnce
<1>2. TypeOK /\ NamedOnce /\ [Next]_vars => (TypeOK /\ NamedOnce)'
  <2> SUFFICES ASSUME TypeOK, NamedOnce, [Next]_vars PROVE NamedOnce'
    BY NextTyped
  <2>1. CASE UNCHANGED events
    BY <2>1 DEF NamedOnce
  <2>2. ASSUME NEW t \in Text, Irrelevant(t) PROVE NamedOnce'
    BY <2>2, AnsweredNat, DeliveredOnce DEF Irrelevant
  <2>3. CASE SaveAnswered \/ SaveFails
    <3>1. PICK n \in Nat, claims \in BOOLEAN :
            Delivered(page, Head(pending), claims, withCalls, n)
      BY <2>3, AnsweredNat DEF SaveAnswered, SaveFails, Saving
    <3>2. pending \in Seq(Name \cup {NoName}) /\ pending # <<>>
      BY <2>3 DEF SaveAnswered, SaveFails, Saving, TypeOK
    <3>3. Head(pending) \in Name \cup {NoName} /\ page \in Text
      BY <3>2, HeadTailProperties DEF TypeOK
    <3> QED
      BY <3>1, <3>3, DeliveredOnce
  <2> QED
    BY <2>1, <2>2, <2>3
       DEF Next, Step, vars, backend, StartRun, SearchFails, SearchReturns, SearchDone, FetchFails,
           StoreFails, StoreCreates, StoreSkips, FetchDone, GraphFails, IrrelevantNoReason,
           NoEvents, Relevant, PageDone, ExtractDone, Close, Crash, ManualStore
<1> QED
  BY <1>1, <1>2, PTL DEF Spec
===============================================================================
