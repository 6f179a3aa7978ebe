---------------------------- MODULE WorkerCallsProofs ----------------------------
(***************************************************************************)
(* The record of a search run is what WorkerCalls says of it, for any      *)
(* number of runs, queries, results, attempts and requests that come late. *)
(***************************************************************************)
EXTENDS WorkerCalls, FiniteSetTheorems, TLAPS

\* The run whose row the worker has learned and not yet closed.
Open == \/ step \in {"search", "save", "flush"}
        \/ step = "create" /\ Last.outcome = "returned"

\* What the worker is at: a call under way, or just ended, is the one of its step.
StepKnown ==
    /\ step # "idle" => calls # <<>>
    /\ step = "create" => Last.kind = "create" /\ found = 0
    /\ Calling /\ Last.kind = "create" => step = "create"
    /\ step = "save" => Last.kind = "results" /\ Last.run = own
    /\ Open \/ step = "finish" => own \in DOMAIN runs

\* How far a request is: at most through its commits, and past the first of them it
\* names the row it has made.
RequestsKnown ==
    /\ \A i \in DOMAIN calls : calls[i].kind = "results" => calls[i].size > 0
    /\ \A r \in requests :
          /\ r.written <= Commits(Of(r))
          /\ Of(r).kind = "create" /\ r.written > 0 => r.row \in DOMAIN runs

Typed == TypeOK /\ StepKnown /\ RequestsKnown
-------------------------------------------------------------------------------
(* What the moves of the client do to the list of calls.                   *)

\* Calls are only ever added; of an earlier call nothing but its outcome changes.
Grown ==
    /\ calls' \in Seq(Call)
    /\ Len(calls) <= Len(calls')
    /\ \A i \in 1..Len(calls) : /\ calls'[i].kind = calls[i].kind
                                /\ calls'[i].run = calls[i].run
                                /\ calls'[i].size = calls[i].size

\* A call that begins is appended, pending and not yet carried out.
LEMMA Beginning ==
    ASSUME TypeOK, NEW kind \in Kinds, NEW size \in Nat, Begin(kind, size)
    PROVE  /\ Grown /\ Len(calls') = Len(calls) + 1
           /\ \A i \in 1..Len(calls) : calls'[i] = calls[i]
           /\ calls'[Len(calls')] = [kind |-> kind, run |-> own, size |-> size, outcome |-> "pending"]
           /\ done' \in [DOMAIN calls' -> Nat] /\ done'[Len(calls')] = 0
           /\ \A i \in 1..Len(calls) : done'[i] = done[i]
<1> DEFINE c == [kind |-> kind, run |-> own, size |-> size, outcome |-> "pending"]
<1>1. c \in Call
  BY DEF TypeOK, Call
<1>2. calls \in Seq(Call) /\ calls' = Append(calls, c) /\ DOMAIN calls = 1..Len(calls)
  <2>1. calls \in Seq(Call)
    BY DEF TypeOK
  <2>2. calls' = Append(calls, c)
    BY DEF Begin
  <2> QED
    BY <2>1, <2>2
<1>3. done \in Seq(Nat) /\ Len(done) = Len(calls) /\ done' = Append(done, 0)
  <2>1. Len(calls) \in Nat /\ done \in [DOMAIN calls -> Nat]
    BY <1>2 DEF TypeOK
  <2>2. done \in [1..Len(calls) -> Nat]
    BY <1>2, <2>1
  <2>3. done \in Seq(Nat) /\ Len(done) = Len(calls)
    BY <2>1, <2>2
  <2>4. done' = Append(done, 0)
    BY DEF Begin
  <2> QED
    BY <2>3, <2>4
<1> HIDE DEF c
<1>4. /\ calls' \in Seq(Call) /\ Len(calls') = Len(calls) + 1 /\ calls'[Len(calls) + 1] = c
      /\ \A i \in 1..Len(calls) : calls'[i] = calls[i]
  BY <1>1, <1>2
<1>5. /\ done' \in Seq(Nat) /\ Len(done') = Len(calls) + 1 /\ done'[Len(calls) + 1] = 0
      /\ \A i \in 1..Len(calls) : done'[i] = done[i]
  BY <1>3
<1>6. done' \in [DOMAIN calls' -> Nat]
  BY <1>4, <1>5
<1> QED
  BY <1>2, <1>4, <1>5, <1>6 DEF c, Grown

\* A call that ends gets its outcome, and stays the same call.
LEMMA EndingOne ==
    ASSUME TypeOK, Calling, NEW o \in {"returned", "raised"}, Ending(o)
    PROVE  /\ Grown /\ Len(calls') = Len(calls)
           /\ \A i \in 1..Len(calls) : i # Len(calls) => calls'[i] = calls[i]
           /\ calls'[Len(calls)].outcome = o
           /\ Len(calls) \in DOMAIN calls
<1>1. calls \in Seq(Call) /\ calls # <<>> /\ DOMAIN calls = 1..Len(calls) /\ Len(calls) \in 1..Len(calls)
  BY DEF TypeOK, Calling
<1>2. calls' = [calls EXCEPT ![Len(calls)] = [calls[Len(calls)] EXCEPT !.outcome = o]]
  BY DEF Ending
<1>3. \A i \in 1..Len(calls) : calls[i] \in Call
  BY <1>1
<1>4. [calls[Len(calls)] EXCEPT !.outcome = o] \in Call
  BY <1>1, <1>3 DEF Call
<1>5. \A i \in 1..Len(calls) : calls'[i] \in Call
  BY <1>1, <1>2, <1>3, <1>4
<1>6. calls' \in Seq(Call) /\ Len(calls') = Len(calls)
  BY <1>1, <1>2, <1>5
<1> QED
  BY <1>1, <1>2, <1>3, <1>6 DEF Grown, Call

\* A move of the client that begins no call: it ends the call under way, or leaves
\* all calls as they are.
Ends(o) == Calling /\ Ending(o)
Settles ==
    /\ attempt' = attempt /\ awaited' \in BOOLEAN
    /\ \/ UNCHANGED calls
       \/ \E o \in {"returned", "raised"} : Ends(o)

\* Replies settle, and only one that the worker waits for, a success, returns.
LEMMA Replying ==
    ASSUME TypeOK, NEW r, NEW status \in {201, 500}, Reply(r, status)
    PROVE  /\ Settles
           /\ \/ UNCHANGED calls
              \/ Hears(r) /\ Ends(IF status = 201 THEN "returned" ELSE "raised")
<1>1. CASE ~Hears(r)
  <2>1. UNCHANGED <<calls, attempt, awaited>>
    BY <1>1 DEF Reply, client
  <2> QED
    BY <2>1 DEF Settles, TypeOK
<1>2. CASE Hears(r)
  <2>1. Calling
    BY <1>2 DEF Hears
  <2>2. CASE Reaction(status) = "again"
    BY <1>2, <2>2 DEF Reply, Settles, TypeOK
  <2>3. CASE Reaction(status) # "again"
    <3>1. Reaction(status) = IF status = 201 THEN "returned" ELSE "raised"
      BY <2>3 DEF Reaction, Retryable
    <3>2. Ending(Reaction(status))
      BY <1>2, <2>3 DEF Reply
    <3> QED
      BY <1>2, <2>1, <3>1, <3>2 DEF Settles, Ends, Ending
  <2> QED
    BY <2>2, <2>3
<1> QED
  BY <1>1, <1>2

\* Either way the list of calls has only grown.
LEMMA Settling ==
    ASSUME TypeOK, Settles
    PROVE  /\ Grown /\ Len(calls') = Len(calls)
           /\ calls = <<>> <=> calls' = <<>>
<1>1. CASE UNCHANGED calls
  BY <1>1 DEF Grown, TypeOK
<1>2. CASE \E o \in {"returned", "raised"} : Ends(o)
  <2>1. PICK o \in {"returned", "raised"} : Ends(o)
    BY <1>2
  <2>2. Grown /\ Len(calls') = Len(calls) /\ Len(calls) \in DOMAIN calls
    BY <2>1, EndingOne DEF Ends
  <2> QED
    BY <2>2 DEF Grown
<1> QED
  BY <1>1, <1>2 DEF Settles

\* What was known of rows and requests stays true while calls are added or end,
\* runs are added and requests disappear.
RowsTyped == rows \subseteq [call : DOMAIN calls, attempt : 1..MaxRetries, rank : Nat]
RequestsTyped ==
    requests \subseteq [call : DOMAIN calls, attempt : 1..MaxRetries, written : Nat, row : 0..Len(runs)]

LEMMA Carried ==
    ASSUME TypeOK, RequestsKnown, Grown, rows' = rows, requests' \subseteq requests, runs' = runs
    PROVE  /\ RowsTyped' /\ RequestsTyped'
           /\ \A r \in requests' :
                 /\ r.call \in 1..Len(calls)
                 /\ r.written <= Commits(Of(r)')
                 /\ Of(r)'.kind = "create" /\ r.written > 0 => r.row \in DOMAIN runs
<1>1. DOMAIN calls = 1..Len(calls) /\ DOMAIN calls' = 1..Len(calls') /\ Len(calls) <= Len(calls')
  BY DEF TypeOK, Grown
<1>2. DOMAIN calls \subseteq DOMAIN calls'
  BY <1>1 DEF Grown, TypeOK
<1>3. RowsTyped' /\ RequestsTyped'
  BY <1>2 DEF RowsTyped, RequestsTyped, TypeOK
<1>4. \A r \in requests' : r.call \in 1..Len(calls) /\ r \in requests
  BY <1>1 DEF TypeOK
<1>5. \A r \in requests' : Of(r)'.kind = Of(r).kind /\ Of(r)'.size = Of(r).size
  BY <1>4 DEF Grown, Of
<1> QED
  BY <1>3, <1>4, <1>5 DEF RequestsKnown, Commits
-------------------------------------------------------------------------------
(* Types, and with them what the worker is at.                             *)

\* Where a step of the worker does not reach the backend.
AtWorker == UNCHANGED <<runs, rows, requests>>

\* The part of TypeOK about the calls, and the part about the worker.
ClientTyped ==
    /\ calls \in Seq(Call) /\ done \in [DOMAIN calls -> Nat]
    /\ attempt \in 0..MaxRetries /\ awaited \in BOOLEAN
    /\ \A i \in DOMAIN calls : calls[i].kind # "create" => calls[i].run \in DOMAIN runs
WorkerTyped ==
    /\ step \in {"idle", "create", "search", "save", "flush", "finish"}
    /\ own \in 0..Len(runs)
    /\ executed \in 0..Queries /\ found \in Nat /\ buffer \in Nat

LEMMA TypedByParts ==
    ASSUME TypeOK, runs' = runs, RowsTyped', RequestsTyped', ClientTyped', WorkerTyped'
    PROVE  TypeOK'
BY DEF TypeOK, RowsTyped, RequestsTyped, ClientTyped, WorkerTyped

\* A call that begins leaves everything typed but the worker's own state.
LEMMA BeginTyped ==
    ASSUME Typed, NEW kind \in Kinds, NEW size \in Nat, Begin(kind, size), AtWorker, ~Calling,
           kind # "create" => own \in DOMAIN runs, kind = "results" => size > 0
    PROVE  /\ RowsTyped' /\ RequestsTyped' /\ ClientTyped' /\ RequestsKnown'
           /\ Calling' /\ Last'.kind = kind /\ Last'.run = own /\ Last'.outcome = "pending"
           /\ calls' # <<>>
<1> USE DEF Typed
<1>1. /\ Grown /\ Len(calls') = Len(calls) + 1
      /\ \A i \in 1..Len(calls) : calls'[i] = calls[i]
      /\ calls'[Len(calls')] = [kind |-> kind, run |-> own, size |-> size, outcome |-> "pending"]
      /\ done' \in [DOMAIN calls' -> Nat]
  BY Beginning
<1>2. RowsTyped' /\ RequestsTyped' /\ \A r \in requests' :
        /\ r.written <= Commits(Of(r)')
        /\ Of(r)'.kind = "create" /\ r.written > 0 => r.row \in DOMAIN runs
  BY <1>1, Carried DEF AtWorker
<1>3. DOMAIN calls' = 1..(Len(calls) + 1) /\ DOMAIN calls = 1..Len(calls) /\ Len(calls) \in Nat
  BY <1>1 DEF Grown, TypeOK
<1>4. \A i \in DOMAIN calls' : calls'[i].kind # "create" => calls'[i].run \in DOMAIN runs
  <2>1. \A i \in DOMAIN calls : calls'[i].kind # "create" => calls'[i].run \in DOMAIN runs
    BY <1>1, <1>3 DEF TypeOK
  <2>2. calls'[Len(calls')].kind = kind /\ calls'[Len(calls')].run = own
    BY <1>1
  <2>3. \A i \in DOMAIN calls' : i \in DOMAIN calls \/ i = Len(calls')
    BY <1>1, <1>3
  <2> QED
    BY <2>1, <2>2, <2>3
<1>5. attempt' \in 0..MaxRetries /\ awaited' \in BOOLEAN
  <2>1. MaxRetries \in Nat
    BY CallsAssumption
  <2>2. attempt' \in 0..MaxRetries
    BY <2>1 DEF Begin
  <2>3. awaited' \in BOOLEAN
    BY DEF Begin
  <2> QED
    BY <2>2, <2>3
<1>6. ClientTyped'
  BY <1>1, <1>4, <1>5 DEF ClientTyped, Grown, AtWorker
<1>7. RequestsKnown'
  BY <1>1, <1>2, <1>3 DEF RequestsKnown, AtWorker, Commits, Of
<1> QED
  BY <1>1, <1>2, <1>3, <1>6, <1>7 DEF Calling, Last, Grown

LEMMA StartTyped == Typed /\ StartRun => Typed'
<1> SUFFICES ASSUME Typed, StartRun PROVE Typed'
  OBVIOUS
<1>1. Begin("create", 1) /\ AtWorker /\ ~Calling /\ UNCHANGED <<runs, own>>
  BY DEF StartRun, Resting, AtWorker, backend
<1>2. /\ RowsTyped' /\ RequestsTyped' /\ ClientTyped' /\ RequestsKnown'
      /\ Calling' /\ Last'.kind = "create" /\ Last'.outcome = "pending" /\ calls' # <<>>
  BY <1>1, BeginTyped DEF Kinds
<1>3. WorkerTyped'
  BY <1>1, CallsAssumption DEF StartRun, WorkerTyped, Typed, TypeOK
<1>4. TypeOK'
  BY <1>1, <1>2, <1>3, TypedByParts DEF Typed
<1>5. StepKnown'
  BY <1>2 DEF StepKnown, Open, StartRun
<1> QED
  BY <1>2, <1>4, <1>5 DEF Typed

LEMMA SearchTyped == Typed /\ Search => Typed'
<1> SUFFICES ASSUME Typed, Search PROVE Typed'
  OBVIOUS
<1>1. PICK n \in 1..MaxResults : Begin("results", n)
  BY DEF Search
<1>2. AtWorker /\ ~Calling /\ UNCHANGED <<runs, own>> /\ own \in DOMAIN runs
  BY DEF Search, At, AtWorker, backend, Typed, StepKnown, Open
<1>3. /\ RowsTyped' /\ RequestsTyped' /\ ClientTyped' /\ RequestsKnown'
      /\ Calling' /\ Last'.kind = "results" /\ Last'.run = own /\ calls' # <<>>
  BY <1>1, <1>2, BeginTyped, n \in Nat DEF Kinds
<1>4. WorkerTyped'
  BY <1>2, CallsAssumption DEF Search, WorkerTyped, Typed, TypeOK
<1>5. TypeOK'
  BY <1>2, <1>3, <1>4, TypedByParts DEF Typed
<1>6. StepKnown'
  BY <1>2, <1>3 DEF StepKnown, Open, Search
<1> QED
  BY <1>3, <1>5, <1>6 DEF Typed

LEMMA SearchDoneTyped == Typed /\ SearchDone => Typed'
<1> SUFFICES ASSUME Typed, SearchDone PROVE Typed'
  OBVIOUS
<1>1. PICK pages \in 0..PageCalls :
        IF buffer + pages > 0 THEN Begin("telemetry", buffer + pages) ELSE NoCall
  BY DEF SearchDone
<1>2. AtWorker /\ ~Calling /\ UNCHANGED <<runs, rows, requests, own>> /\ own \in DOMAIN runs
  BY DEF SearchDone, At, AtWorker, backend, Typed, StepKnown, Open
<1>3. buffer \in Nat /\ pages \in Nat
  BY DEF Typed, TypeOK
<1>4. WorkerTyped'
  BY <1>2 DEF SearchDone, WorkerTyped, Typed, TypeOK
<1>5. CASE buffer + pages > 0
  <2>1. /\ RowsTyped' /\ RequestsTyped' /\ ClientTyped' /\ RequestsKnown'
        /\ Calling' /\ Last'.kind = "telemetry" /\ calls' # <<>>
    BY <1>1, <1>2, <1>3, <1>5, BeginTyped DEF Kinds
  <2>2. TypeOK'
    BY <1>2, <1>4, <2>1, TypedByParts DEF Typed
  <2>3. StepKnown'
    BY <1>2, <2>1 DEF StepKnown, Open, SearchDone
  <2> QED
    BY <2>1, <2>2, <2>3 DEF Typed
<1>6. CASE ~(buffer + pages > 0)
  <2>1. UNCHANGED <<runs, rows, requests, calls, done, attempt, awaited>>
    BY <1>1, <1>2, <1>6 DEF NoCall, client
  <2>2. TypeOK'
    BY <1>4, <2>1 DEF Typed, TypeOK, WorkerTyped
  <2>3. StepKnown'
    BY <1>2, <2>1 DEF Typed, StepKnown, Open, SearchDone, At, Calling, Last
  <2>4. RequestsKnown'
    BY <2>1 DEF Typed, RequestsKnown, Of, Commits
  <2> QED
    BY <2>2, <2>3, <2>4 DEF Typed
<1> QED
  BY <1>5, <1>6

LEMMA FlushedTyped == Typed /\ Flushed => Typed'
<1> SUFFICES ASSUME Typed, Flushed PROVE Typed'
  OBVIOUS
<1>1. Begin("finish", found) /\ AtWorker /\ ~Calling /\ UNCHANGED <<runs, own>> /\ own \in DOMAIN runs
  BY DEF Flushed, At, AtWorker, backend, Typed, StepKnown, Open
<1>2. found \in Nat
  BY DEF Typed, TypeOK
<1>3. /\ RowsTyped' /\ RequestsTyped' /\ ClientTyped' /\ RequestsKnown'
      /\ Calling' /\ Last'.kind = "finish" /\ calls' # <<>>
  BY <1>1, <1>2, BeginTyped DEF Kinds
<1>4. WorkerTyped'
  BY <1>1, CallsAssumption DEF Flushed, WorkerTyped, Typed, TypeOK
<1>5. TypeOK'
  BY <1>1, <1>3, <1>4, TypedByParts DEF Typed
<1>6. StepKnown'
  BY <1>1, <1>3 DEF StepKnown, Open, Flushed
<1> QED
  BY <1>3, <1>5, <1>6 DEF Typed

\* A step of the worker between calls.
LEMMA BetweenTyped == Typed /\ (Created \/ SearchNothing \/ Saved \/ Finished) => Typed'
<1> SUFFICES ASSUME Typed, Created \/ SearchNothing \/ Saved \/ Finished PROVE Typed'
  OBVIOUS
<1>1. UNCHANGED <<runs, rows, requests, calls, done, attempt, awaited, own>> /\ ~Calling
  BY DEF Created, SearchNothing, Saved, Finished, At, backend, client
<1>2. /\ Calling' <=> Calling
      /\ Last' = Last
  BY <1>1 DEF Calling, Last
<1>3. RequestsKnown'
  BY <1>1 DEF Typed, RequestsKnown, Of, Commits
<1>4. TypeOK'
  <2>1. CASE Created
    BY <1>1, <2>1 DEF Typed, TypeOK, Created
  <2>2. CASE SearchNothing
    BY <1>1, <2>2, CallsAssumption DEF Typed, TypeOK, SearchNothing
  <2>3. CASE Saved
    <3>1. Last \in Call
      BY <2>3 DEF Typed, TypeOK, StepKnown, Saved, At, Last
    <3> QED
      BY <1>1, <2>3, <3>1 DEF Typed, TypeOK, Saved, Call
  <2>4. CASE Finished
    BY <1>1, <2>4 DEF Typed, TypeOK, Finished
  <2> QED
    BY <2>1, <2>2, <2>3, <2>4
<1>5. StepKnown'
  <2>1. CASE Created
    BY <1>1, <1>2, <2>1 DEF Typed, StepKnown, Open, Created, At
  <2>2. CASE SearchNothing
    BY <1>1, <1>2, <2>2 DEF Typed, StepKnown, Open, SearchNothing, At
  <2>3. CASE Saved
    BY <1>1, <1>2, <2>3 DEF Typed, StepKnown, Open, Saved, At
  <2>4. CASE Finished
    BY <1>1, <1>2, <2>4 DEF Typed, StepKnown, Open, Finished, At
  <2> QED
    BY <2>1, <2>2, <2>3, <2>4
<1> QED
  BY <1>3, <1>4, <1>5 DEF Typed

\* What settling does to the last call.
LEMMA LastSettled ==
    ASSUME TypeOK, Settles, UNCHANGED <<runs, done>>
    PROVE  /\ ClientTyped'
           /\ calls # <<>> => Last'.kind = Last.kind /\ Last'.run = Last.run
           /\ Calling' => Calling
<1>1. Grown /\ Len(calls') = Len(calls) /\ (calls = <<>> <=> calls' = <<>>)
  BY Settling
<1>2. DOMAIN calls' = DOMAIN calls /\ DOMAIN calls = 1..Len(calls)
  BY <1>1 DEF Grown, TypeOK
<1>3. calls # <<>> => Len(calls) \in 1..Len(calls)
  BY DEF TypeOK
<1>4. calls # <<>> => Last'.kind = Last.kind /\ Last'.run = Last.run
  BY <1>1, <1>3 DEF Last, Grown
<1>5. Calling' => Calling
  <2>1. CASE UNCHANGED calls
    BY <2>1 DEF Calling
  <2>2. CASE \E o \in {"returned", "raised"} : Ends(o)
    BY <2>2 DEF Ends
  <2> QED
    BY <2>1, <2>2 DEF Settles
<1> QED
  BY <1>1, <1>2, <1>4, <1>5 DEF ClientTyped, Grown, TypeOK, Settles

\* A call that is raised, or tried again, leaves the worker where it is, or idle.
LEMMA SettledTyped ==
    ASSUME Typed, UNCHANGED <<runs, rows, done, own, executed, found>>, requests' \subseteq requests,
           Settles, calls' = calls \/ Ends("raised"), buffer' \in Nat,
           step' \in {step, "idle"}, step' # step => ~Calling'
    PROVE  Typed'
<1>1. Grown /\ Len(calls') = Len(calls) /\ (calls = <<>> <=> calls' = <<>>)
  BY Settling DEF Typed
<1>2. /\ ClientTyped' /\ (Calling' => Calling)
      /\ calls # <<>> => Last'.kind = Last.kind /\ Last'.run = Last.run
  BY LastSettled DEF Typed
<1>3. /\ RowsTyped' /\ RequestsTyped'
      /\ \A r \in requests' :
            /\ r.call \in 1..Len(calls)
            /\ r.written <= Commits(Of(r)')
            /\ Of(r)'.kind = "create" /\ r.written > 0 => r.row \in DOMAIN runs
  BY <1>1, Carried DEF Typed
<1>4. TypeOK'
  <2>1. WorkerTyped'
    BY DEF Typed, TypeOK, WorkerTyped
  <2> QED
    BY <1>2, <1>3, <2>1, TypedByParts DEF Typed
<1>5. \A i \in DOMAIN calls' : calls'[i].kind = "results" => calls'[i].size > 0
  <2>1. DOMAIN calls' = 1..Len(calls) /\ DOMAIN calls = 1..Len(calls)
    BY <1>1 DEF Typed, TypeOK, Grown
  <2> QED
    BY <1>1, <2>1 DEF Typed, RequestsKnown, Grown
<1>6. RequestsKnown'
  BY <1>3, <1>5 DEF RequestsKnown, Commits, Of
<1>7. Open' \/ step' = "finish" => own \in DOMAIN runs
  <2>1. step' = "create" /\ Last'.outcome = "returned" => Last.outcome = "returned"
    <3>1. CASE calls' = calls
      BY <3>1 DEF Last
    <3>2. CASE Ends("raised")
      <4>1. Last'.outcome = "raised"
        BY <1>1, <3>2, EndingOne DEF Ends, Last, Typed
      <4> QED
        BY <4>1
    <3> QED
      BY <3>1, <3>2
  <2> QED
    BY <2>1 DEF Open, Typed, StepKnown
<1>8. StepKnown'
  <2>1. step' # "idle" => step' = step /\ calls # <<>> /\ calls' # <<>>
    BY <1>1 DEF Typed, StepKnown
  <2>2. /\ step' = "create" => Last'.kind = "create" /\ found' = 0
        /\ step' = "save" => Last'.kind = "results" /\ Last'.run = own'
    BY <1>2, <2>1 DEF Typed, StepKnown
  <2>3. Calling' /\ Last'.kind = "create" => step' = "create"
    BY <1>2 DEF Typed, StepKnown, Calling
  <2>4. Open' \/ step' = "finish" => own' \in DOMAIN runs'
    BY <1>7
  <2> QED
    BY <2>1, <2>2, <2>3, <2>4 DEF StepKnown
<1> QED
  BY <1>4, <1>6, <1>8 DEF Typed

LEMMA TimeOutTyped == Typed /\ TimeOut => Typed'
<1> SUFFICES ASSUME Typed, TimeOut PROVE Typed'
  OBVIOUS
<1>1. UNCHANGED <<runs, rows, done, step, own, executed, found, buffer>> /\ Calling
  BY DEF TimeOut, worker
<1>2. requests' \subseteq requests
  BY DEF TimeOut, Abandoned, Late
<1>3. Settles /\ (calls' = calls \/ Ends("raised"))
  <2>1. CASE attempt < MaxRetries
    BY <2>1 DEF TimeOut, Settles
  <2>2. CASE ~(attempt < MaxRetries)
    BY <1>1, <2>2 DEF TimeOut, Settles, Ends, Ending
  <2> QED
    BY <2>1, <2>2
<1> QED
  BY <1>1, <1>2, <1>3, SettledTyped DEF Typed, TypeOK

LEMMA CrashTyped == Typed /\ Crash => Typed'
<1> SUFFICES ASSUME Typed, Crash PROVE Typed'
  OBVIOUS
<1>1. UNCHANGED <<runs, rows, done, own, executed, found>> /\ step' = "idle" /\ buffer' = 0
  BY DEF Crash
<1>2. requests' \subseteq requests
  BY DEF Crash, Abandoned, Late
<1>3. Settles /\ (calls' = calls \/ Ends("raised"))
  <2>1. CASE Calling
    BY <2>1 DEF Crash, Settles, Ends, Ending
  <2>2. CASE ~Calling
    BY <2>2 DEF Crash, Settles, client, Typed, TypeOK
  <2> QED
    BY <2>1, <2>2
<1>4. ~Calling'
  <2>1. CASE Calling
    <3>1. Ending("raised")
      BY <2>1 DEF Crash
    <3>2. calls'[Len(calls')].outcome = "raised"
      BY <2>1, <3>1, EndingOne DEF Typed
    <3> QED
      BY <3>2 DEF Calling
  <2>2. CASE ~Calling
    BY <2>2 DEF Crash, client, Calling
  <2> QED
    BY <2>1, <2>2
<1> QED
  BY <1>1, <1>2, <1>3, <1>4, SettledTyped DEF Typed, TypeOK

LEMMA BreakTyped == Typed /\ (\E r \in requests : Break(r)) => Typed'
<1> SUFFICES ASSUME Typed, NEW r \in requests, Break(r) PROVE Typed'
  OBVIOUS
<1>1. UNCHANGED <<runs, rows, done, step, own, executed, found, buffer>>
  BY DEF Break, worker
<1>2. requests' \subseteq requests
  BY DEF Break
<1>3. Settles /\ (calls' = calls \/ Ends("raised"))
  BY Replying DEF Break, Typed
<1> QED
  BY <1>1, <1>2, <1>3, SettledTyped DEF Typed, TypeOK

LEMMA SendTyped == Typed /\ Send => Typed'
<1> SUFFICES ASSUME Typed, Send PROVE Typed'
  OBVIOUS
<1> DEFINE new == [call |-> Len(calls), attempt |-> attempt + 1, written |-> 0, row |-> 0]
<1>1. UNCHANGED <<runs, rows, calls, done, step, own, executed, found, buffer>>
  BY DEF Send, worker
<1>2. Len(calls) \in DOMAIN calls /\ requests' = requests \cup {new}
  BY DEF Send, Calling, Typed, TypeOK
<1>3. attempt' \in 1..MaxRetries /\ attempt' = attempt + 1 /\ MaxRetries \in Nat
  BY CallsAssumption DEF Send, Typed, TypeOK
<1>4. awaited' \in BOOLEAN
  BY DEF Send
<1>5. RequestsTyped'
  BY <1>1, <1>2, <1>3 DEF RequestsTyped, Typed, TypeOK
<1>6. TypeOK'
  BY <1>1, <1>3, <1>4, <1>5 DEF Typed, TypeOK, RequestsTyped
<1>7. StepKnown'
  BY <1>1 DEF Typed, StepKnown, Open, Last, Calling
<1>8. calls[Len(calls)].size \in Nat
  <2>1. calls[Len(calls)] \in Call
    BY <1>2 DEF Typed, TypeOK
  <2> QED
    BY <2>1 DEF Call
<1>9. RequestsKnown'
  <2> SUFFICES ASSUME NEW q \in requests'
               PROVE  /\ q.written <= Commits(Of(q))
                      /\ Of(q).kind = "create" /\ q.written > 0 => q.row \in DOMAIN runs
    BY <1>1 DEF Typed, RequestsKnown, Of, Commits
  <2>1. CASE q \in requests
    BY <2>1 DEF Typed, RequestsKnown
  <2>2. CASE q = new
    BY <1>8, <2>2 DEF Commits, Of
  <2> QED
    BY <1>2, <2>1, <2>2
<1> QED
  BY <1>6, <1>7, <1>9 DEF Typed

\* A request that goes one commit further.
LEMMA CommittedTyped ==
    ASSUME Typed, NEW r, Handling(r), NEW row \in Nat, Committed(r, row),
           UNCHANGED <<client, worker>>, RowsTyped',
           runs' \in Seq([status : {"running", "closed"}, found : Nat]), Len(runs) <= Len(runs'),
           row \in 0..Len(runs'), Of(r).kind = "create" => row \in DOMAIN runs'
    PROVE  Typed'
<1> DEFINE new == [call |-> r.call, attempt |-> r.attempt, written |-> r.written + 1, row |-> row]
<1>1. UNCHANGED <<calls, attempt, awaited, step, own, executed, found, buffer>>
  BY DEF client, worker
<1>2. requests' = (requests \ {r}) \cup {new} /\ r \in requests
  BY DEF Committed, Handling
<1>3. /\ r.call \in DOMAIN calls /\ r.written \in Nat /\ r.attempt \in 1..MaxRetries
  BY <1>2 DEF Typed, TypeOK
<1>5. 0..Len(runs) \subseteq 0..Len(runs') /\ DOMAIN runs \subseteq DOMAIN runs'
  BY DEF Typed, TypeOK
<1>6. RequestsTyped'
  <2> SUFFICES ASSUME NEW q \in requests'
               PROVE  q \in [call : DOMAIN calls, attempt : 1..MaxRetries, written : Nat, row : 0..Len(runs')]
    BY <1>1 DEF RequestsTyped
  <2>1. CASE q \in requests
    BY <1>5, <2>1 DEF Typed, TypeOK
  <2>2. CASE q = new
    BY <1>3, <2>2
  <2> QED
    BY <1>2, <2>1, <2>2
<1>7. done' \in [DOMAIN calls -> Nat]
  BY <1>3 DEF Committed, Typed, TypeOK
<1>8. TypeOK'
  BY <1>1, <1>5, <1>6, <1>7 DEF Typed, TypeOK, RowsTyped, RequestsTyped
<1>9. StepKnown'
  BY <1>1, <1>5 DEF Typed, StepKnown, Open, Last, Calling
<1>10. r.written + 1 <= Commits(Of(r))
  <2>1. Commits(Of(r)) \in Nat
    <3>1. Of(r) \in Call
      BY <1>3 DEF Typed, TypeOK, Of
    <3> QED
      BY <3>1 DEF Commits, Call
  <2> QED
    BY <1>3, <2>1 DEF Handling
<1>11. RequestsKnown'
  <2> SUFFICES ASSUME NEW q \in requests'
               PROVE  /\ q.written <= Commits(Of(q))
                      /\ Of(q).kind = "create" /\ q.written > 0 => q.row \in DOMAIN runs'
    BY <1>1 DEF Typed, RequestsKnown, Of, Commits
  <2>1. CASE q \in requests
    BY <1>5, <2>1 DEF Typed, RequestsKnown
  <2>2. CASE q = new
    <3>1. Of(q) = Of(r) /\ q.written = r.written + 1 /\ q.row = row
      BY <2>2 DEF Of
    <3> QED
      BY <1>10, <3>1
  <2> QED
    BY <1>2, <2>1, <2>2
<1> QED
  BY <1>8, <1>9, <1>11 DEF Typed

\* What closing a run does to the rows.
LEMMA Finishing ==
    ASSUME TypeOK, NEW r \in requests, FinishRun(r)
    PROVE  /\ Of(r).run \in DOMAIN runs /\ Of(r).size \in Nat
           /\ runs' = [runs EXCEPT ![Of(r).run] = [status |-> "closed", found |-> Of(r).size]]
           /\ runs' \in Seq([status : {"running", "closed"}, found : Nat])
           /\ Len(runs') = Len(runs)
<1> DEFINE R == [status : {"running", "closed"}, found : Nat]
           i == Of(r).run
           n == Of(r).size
<1>1. r.call \in DOMAIN calls /\ Of(r).kind = "finish" /\ runs \in Seq(R)
  BY DEF FinishRun, TypeOK
<1>2. Of(r) \in Call /\ i \in DOMAIN runs
  BY <1>1 DEF TypeOK, Of
<1>3. n \in Nat
  BY <1>2 DEF Call
<1>4. runs' = [runs EXCEPT ![i] = [status |-> "closed", found |-> n]]
  BY DEF FinishRun
<1>5. [status |-> "closed", found |-> n] \in R
  BY <1>3
<1>6. runs' \in Seq(R) /\ Len(runs') = Len(runs)
  BY <1>1, <1>2, <1>4, <1>5
<1> QED
  BY <1>2, <1>3, <1>4, <1>6

LEMMA HandlingTyped ==
    ASSUME Typed, NEW r \in requests,
           CreateRun(r) \/ StoreResult(r) \/ StoreToolCalls(r) \/ FinishRun(r)
    PROVE  Typed'
<1>1. runs \in Seq([status : {"running", "closed"}, found : Nat]) /\ Len(runs) \in Nat
  BY DEF Typed, TypeOK
<1>2. /\ r.call \in DOMAIN calls /\ r.attempt \in 1..MaxRetries /\ r.written \in Nat
      /\ Of(r) \in Call /\ UNCHANGED <<client, worker, calls>>
  BY DEF Typed, TypeOK, Of, CreateRun, StoreResult, StoreToolCalls, FinishRun, client
<1>3. CASE CreateRun(r)
  <2>1. RowsTyped'
    BY <1>2, <1>3 DEF CreateRun, Typed, TypeOK, RowsTyped
  <2>2. /\ runs' \in Seq([status : {"running", "closed"}, found : Nat])
        /\ Len(runs') = Len(runs) + 1
    BY <1>1, <1>3 DEF CreateRun
  <2>3. Len(runs) + 1 \in DOMAIN runs'
    BY <1>1, <2>2
  <2> QED
    BY <1>1, <1>2, <1>3, <2>1, <2>2, <2>3, CommittedTyped DEF CreateRun
<1>4. CASE StoreResult(r)
  <2>1. Row(r, r.written + 1) \in [call : DOMAIN calls, attempt : 1..MaxRetries, rank : Nat]
    BY <1>2 DEF Row
  <2>2. RowsTyped'
    BY <1>2, <1>4, <2>1 DEF StoreResult, Typed, TypeOK, RowsTyped
  <2> QED
    BY <1>1, <1>2, <1>4, <2>2, CommittedTyped DEF StoreResult
<1>5. CASE StoreToolCalls(r)
  <2>1. \A rank \in 1..Of(r).size :
          Row(r, rank) \in [call : DOMAIN calls, attempt : 1..MaxRetries, rank : Nat]
    BY <1>2 DEF Row
  <2>2. RowsTyped'
    BY <1>2, <1>5, <2>1 DEF StoreToolCalls, Typed, TypeOK, RowsTyped
  <2> QED
    BY <1>1, <1>2, <1>5, <2>2, CommittedTyped DEF StoreToolCalls
<1>6. CASE FinishRun(r)
  <2>1. RowsTyped'
    BY <1>2, <1>6 DEF FinishRun, Typed, TypeOK, RowsTyped
  <2>2. Of(r).run \in DOMAIN runs /\ Of(r).size \in Nat
    BY <1>2, <1>6 DEF FinishRun, Typed, TypeOK, Of, Call
  <2>3. /\ runs' \in Seq([status : {"running", "closed"}, found : Nat])
        /\ Len(runs') = Len(runs)
    BY <1>1, <1>6, <2>2, Finishing DEF Typed
  <2> QED
    BY <1>1, <1>2, <1>6, <2>1, <2>3, CommittedTyped DEF FinishRun
<1> QED
  BY <1>3, <1>4, <1>5, <1>6

LEMMA AnswerTyped == Typed /\ (\E r \in requests : Answer(r)) => Typed'
<1> SUFFICES ASSUME Typed, NEW r \in requests, Answer(r) PROVE Typed'
  OBVIOUS
<1>1. /\ UNCHANGED <<runs, rows, done, step, executed, found, buffer>> /\ requests' = requests \ {r}
      /\ r.written = Commits(Of(r))
      /\ own' = IF Of(r).kind = "create" /\ Hears(r) THEN r.row ELSE own
  BY DEF Answer
<1>2. Settles /\ (calls' = calls \/ (Hears(r) /\ Ends("returned")))
  BY Replying DEF Answer, Typed
<1>3. Grown /\ Len(calls') = Len(calls) /\ (calls = <<>> <=> calls' = <<>>)
  BY <1>2, Settling DEF Typed
<1>4. /\ ClientTyped' /\ (Calling' => Calling)
      /\ calls # <<>> => Last'.kind = Last.kind /\ Last'.run = Last.run
  BY <1>1, <1>2, LastSettled DEF Typed
<1>5. /\ RowsTyped' /\ RequestsTyped'
      /\ \A q \in requests' :
            /\ q.call \in 1..Len(calls)
            /\ q.written <= Commits(Of(q)')
            /\ Of(q)'.kind = "create" /\ q.written > 0 => q.row \in DOMAIN runs
  BY <1>1, <1>3, Carried DEF Typed
<1>6. Of(r).kind = "create" /\ Hears(r) => r.row \in DOMAIN runs /\ step = "create"
  <2>1. Of(r).kind = "create" => r.written > 0
    BY <1>1 DEF Commits
  <2>2. Of(r).kind = "create" => r.row \in DOMAIN runs
    BY <2>1 DEF Typed, RequestsKnown
  <2>3. Of(r).kind = "create" /\ Hears(r) => step = "create"
    BY DEF Typed, StepKnown, Hears, Of, Last
  <2> QED
    BY <2>2, <2>3
<1>7. own' \in 0..Len(runs) /\ (own \in DOMAIN runs => own' \in DOMAIN runs)
  <2>1. DOMAIN runs \subseteq 0..Len(runs)
    BY DEF Typed, TypeOK
  <2> QED
    BY <1>1, <1>6, <2>1 DEF Typed, TypeOK
<1>8. TypeOK'
  <2>1. WorkerTyped'
    BY <1>1, <1>7 DEF Typed, TypeOK, WorkerTyped
  <2> QED
    BY <1>1, <1>4, <1>5, <2>1, TypedByParts DEF Typed
<1>9. \A i \in DOMAIN calls' : calls'[i].kind = "results" => calls'[i].size > 0
  <2>1. DOMAIN calls' = 1..Len(calls) /\ DOMAIN calls = 1..Len(calls)
    BY <1>3 DEF Typed, TypeOK, Grown
  <2> QED
    BY <1>3, <2>1 DEF Typed, RequestsKnown, Grown
<1>10. RequestsKnown'
  BY <1>1, <1>5, <1>9 DEF RequestsKnown, Commits, Of
<1>11. StepKnown'
  <2>1. step' # "idle" => step' = step /\ calls # <<>> /\ calls' # <<>>
    BY <1>1, <1>3 DEF Typed, StepKnown
  <2>2. /\ step' = "create" => Last'.kind = "create" /\ found' = 0
        /\ Calling' /\ Last'.kind = "create" => step' = "create"
    BY <1>1, <1>4, <2>1 DEF Typed, StepKnown, Calling
  <2>3. step' = "save" => Last'.kind = "results" /\ Last'.run = own'
    BY <1>1, <1>4, <1>6, <2>1 DEF Typed, StepKnown
  <2>4. step' = "create" /\ Last'.outcome = "returned" => own' \in DOMAIN runs'
    <3> SUFFICES ASSUME step' = "create", Last'.outcome = "returned" PROVE own' \in DOMAIN runs'
      OBVIOUS
    <3>1. CASE calls' = calls
      <4>1. own \in DOMAIN runs
        BY <1>1, <3>1 DEF Typed, StepKnown, Open, Last
      <4> QED
        BY <1>1, <1>7, <4>1
    <3>2. CASE Hears(r) /\ Ends("returned")
      <4>1. Of(r).kind = "create"
        BY <1>1, <3>2 DEF Typed, StepKnown, Hears, Of, Last
      <4> QED
        BY <1>1, <1>6, <3>2, <4>1
    <3> QED
      BY <1>2, <3>1, <3>2
  <2>5. Open' \/ step' = "finish" => own' \in DOMAIN runs'
    <3>1. step' \in {"search", "save", "flush", "finish"} => own' \in DOMAIN runs'
      BY <1>1, <1>7 DEF Typed, StepKnown, Open
    <3> QED
      BY <2>4, <3>1 DEF Open
  <2> QED
    BY <2>1, <2>2, <2>3, <2>5 DEF StepKnown
<1> QED
  BY <1>8, <1>10, <1>11 DEF Typed

LEMMA TypedInit == Init => Typed
<1> SUFFICES ASSUME Init PROVE Typed
  OBVIOUS
<1>1. runs = <<>> /\ rows = {} /\ requests = {} /\ calls = <<>> /\ done = <<>>
  BY DEF Init
<1>2. DOMAIN calls = {} /\ done \in [DOMAIN calls -> Nat]
  BY <1>1
<1>3. TypeOK
  <2>1. MaxRetries \in Nat /\ Queries \in Nat
    BY CallsAssumption
  <2>2. attempt \in 0..MaxRetries /\ executed \in 0..Queries /\ own \in 0..Len(runs)
    BY <1>1, <2>1 DEF Init
  <2>3. awaited \in BOOLEAN
    BY DEF Init
  <2> QED
    BY <1>1, <1>2, <2>2, <2>3 DEF Init, TypeOK
<1>4. StepKnown /\ RequestsKnown
  BY <1>1, <1>2 DEF Init, StepKnown, RequestsKnown, Open, Calling
<1> QED
  BY <1>3, <1>4 DEF Typed

LEMMA TypedStep == Typed /\ [Next]_vars => Typed'
<1> SUFFICES ASSUME Typed, [Next]_vars PROVE Typed'
  OBVIOUS
<1>1. CASE StartRun
  BY <1>1, StartTyped
<1>2. CASE Created \/ SearchNothing \/ Saved \/ Finished
  BY <1>2, BetweenTyped
<1>3. CASE Search
  BY <1>3, SearchTyped
<1>4. CASE SearchDone
  BY <1>4, SearchDoneTyped
<1>5. CASE Flushed
  BY <1>5, FlushedTyped
<1>6. CASE Send
  BY <1>6, SendTyped
<1>7. CASE TimeOut
  BY <1>7, TimeOutTyped
<1>8. CASE Crash
  BY <1>8, CrashTyped
<1>9. ASSUME NEW r \in requests, Handle(r) PROVE Typed'
  BY <1>9, HandlingTyped, AnswerTyped DEF Handle
<1>10. ASSUME NEW r \in requests, Break(r) PROVE Typed'
  BY <1>10, BreakTyped
<1>11. CASE UNCHANGED vars
  BY <1>11 DEF vars, backend, client, worker, Typed, TypeOK, StepKnown, RequestsKnown, Open, Last,
     Calling, Of, Commits
<1> QED
  BY <1>1, <1>2, <1>3, <1>4, <1>5, <1>6, <1>7, <1>8, <1>9, <1>10, <1>11 DEF Next, Work

LEMMA AlwaysTyped == Spec => []Typed
BY TypedInit, TypedStep, PTL DEF Spec

\* The tables, the requests, the calls and the worker keep their types: whatever a
\* late request or a reply does, it belongs to an attempt of a call of a known run.
THEOREM CallsTyped == Spec => []TypeOK
BY AlwaysTyped, PTL DEF Typed
-------------------------------------------------------------------------------
(* What a step does to the calls and their requests is one of five things. *)

Rests == UNCHANGED <<calls, done, attempt>> /\ requests' \subseteq requests
Begins ==
    /\ requests' = requests
    /\ \E kind \in Kinds, size \in Nat : Begin(kind, size)
EndsAs(o) ==
    /\ Ends(o) /\ UNCHANGED done /\ requests' \subseteq requests
    /\ o = "returned" => \E r \in requests : Hears(r) /\ r.written = Commits(Of(r))
Sends ==
    /\ UNCHANGED <<calls, done>> /\ calls # <<>>
    /\ attempt < MaxRetries /\ attempt' = attempt + 1
    /\ requests' = requests \cup {[call |-> Len(calls), attempt |-> attempt + 1, written |-> 0, row |-> 0]}
Performs(r) ==
    /\ Handling(r) /\ UNCHANGED <<calls, attempt>>
    /\ \E row \in Nat : Committed(r, row)

LEMMA StepKinds ==
    ASSUME Typed, [Next]_vars
    PROVE  \/ Rests \/ Begins \/ Sends
           \/ \E o \in {"returned", "raised"} : EndsAs(o)
           \/ \E r \in requests : Performs(r)
<1>1. CASE StartRun
  BY <1>1 DEF StartRun, backend, Begins, Kinds
<1>2. CASE Created \/ SearchNothing \/ Saved \/ Finished
  BY <1>2 DEF Created, SearchNothing, Saved, Finished, backend, client, Rests
<1>3. CASE Search
  <2>1. PICK n \in 1..MaxResults : Begin("results", n)
    BY <1>3 DEF Search
  <2>2. n \in Nat /\ requests' = requests
    BY <1>3 DEF Search, backend
  <2> QED
    BY <2>1, <2>2 DEF Begins, Kinds
<1>4. CASE SearchDone
  <2>1. PICK pages \in 0..PageCalls :
          IF buffer + pages > 0 THEN Begin("telemetry", buffer + pages) ELSE NoCall
    BY <1>4 DEF SearchDone
  <2>2. buffer + pages \in Nat /\ requests' = requests
    BY <1>4 DEF SearchDone, backend, Typed, TypeOK
  <2> QED
    BY <2>1, <2>2 DEF Begins, Kinds, Rests, NoCall, client
<1>5. CASE Flushed
  BY <1>5 DEF Flushed, backend, Begins, Kinds, Typed, TypeOK
<1>6. CASE Send
  BY <1>6 DEF Send, Sends, Calling
<1>7. CASE TimeOut
  <2>1. requests' \subseteq requests /\ UNCHANGED done
    BY <1>7 DEF TimeOut, Abandoned, Late
  <2>2. UNCHANGED <<calls, attempt>> \/ Ends("raised")
    BY <1>7 DEF TimeOut, Ends
  <2> QED
    BY <2>1, <2>2 DEF Rests, EndsAs
<1>8. CASE Crash
  <2>1. requests' \subseteq requests /\ UNCHANGED done
    BY <1>8 DEF Crash, Abandoned, Late
  <2>2. UNCHANGED <<calls, attempt>> \/ Ends("raised")
    BY <1>8 DEF Crash, Ends, client
  <2> QED
    BY <2>1, <2>2 DEF Rests, EndsAs
<1>9. ASSUME NEW r \in requests, CreateRun(r) \/ StoreResult(r) \/ StoreToolCalls(r) \/ FinishRun(r)
      PROVE  Performs(r)
  <2>1. Len(runs) + 1 \in Nat /\ 0 \in Nat
    BY DEF Typed, TypeOK
  <2> QED
    BY <1>9, <2>1 DEF CreateRun, StoreResult, StoreToolCalls, FinishRun, Performs, client
<1>10. ASSUME NEW r \in requests, Answer(r)
       PROVE  Rests \/ EndsAs("returned")
  <2>1. requests' \subseteq requests /\ UNCHANGED done /\ r.written = Commits(Of(r))
    BY <1>10 DEF Answer
  <2>2. Settles /\ (calls' = calls \/ (Hears(r) /\ Ends("returned")))
    BY <1>10, Replying DEF Answer, Typed
  <2> QED
    BY <2>1, <2>2 DEF Rests, EndsAs, Settles
<1>11. ASSUME NEW r \in requests, Break(r)
       PROVE  Rests \/ EndsAs("raised")
  <2>1. requests' \subseteq requests /\ UNCHANGED done
    BY <1>11 DEF Break
  <2>2. Settles /\ (calls' = calls \/ Ends("raised"))
    BY <1>11, Replying DEF Break, Typed
  <2> QED
    BY <2>1, <2>2 DEF Rests, EndsAs, Settles
<1>12. CASE UNCHANGED vars
  BY <1>12 DEF vars, backend, client, Rests
<1> QED
  BY <1>1, <1>2, <1>3, <1>4, <1>5, <1>6, <1>7, <1>8, <1>9, <1>10, <1>11, <1>12 DEF Next, Work, Handle

LEMMA StepGrows == ASSUME Typed, [Next]_vars PROVE Grown
<1>1. CASE UNCHANGED calls
  BY <1>1 DEF Grown, Typed, TypeOK
<1>2. CASE Begins
  BY <1>2, Beginning DEF Begins, Typed
<1>3. ASSUME NEW o \in {"returned", "raised"}, EndsAs(o) PROVE Grown
  BY <1>3, EndingOne DEF EndsAs, Ends, Typed
<1> QED
  BY <1>1, <1>2, <1>3, StepKinds DEF Rests, Sends, Performs

\* Rows are written by the two handlers that store, and by nothing else.
LEMMA RowsOnlyStored ==
    ASSUME Typed, [Next]_vars
    PROVE  \/ UNCHANGED rows
           \/ \E r \in requests : StoreResult(r) \/ StoreToolCalls(r)
BY DEF Next, Work, Handle, vars, backend, StartRun, Created, SearchNothing, Search, Saved, SearchDone,
       Flushed, Finished, Send, TimeOut, Crash, CreateRun, FinishRun, Answer, Break
-------------------------------------------------------------------------------
(* Each call is carried out at least once if it returns, and at most as    *)
(* often as it is tried.                                                   *)

\* The requests of a call that may still be carried out, and the attempts made of it.
Underway(c) == {r \in requests : r.call = c /\ r.written < Commits(calls[c])}
Tries(c) == IF c = Len(calls) THEN attempt ELSE MaxRetries

\* Every attempt has been carried out once, is under way, or was in vain.
Accounted ==
    /\ IsFiniteSet(requests)
    /\ \A c \in DOMAIN calls :
          /\ done[c] + Cardinality(Underway(c)) <= Tries(c)
          /\ calls[c].outcome = "returned" => done[c] > 0
    /\ \A r \in requests : r.written = Commits(Of(r)) => done[r.call] > 0

\* One element more adds at most one to the size of a set.
LEMMA OneMore ==
    ASSUME NEW S, NEW x, IsFiniteSet(S)
    PROVE  /\ IsFiniteSet(S \cup {x}) /\ Cardinality(S \cup {x}) \in Nat
           /\ Cardinality(S) \in Nat /\ Cardinality(S \cup {x}) <= Cardinality(S) + 1
<1>1. IsFiniteSet(S \cup {x}) /\ Cardinality(S \cup {x}) = IF x \in S THEN Cardinality(S) ELSE Cardinality(S) + 1
  BY FS_AddElement
<1>2. Cardinality(S) \in Nat
  BY FS_CardinalityType
<1> QED
  BY <1>1, <1>2

\* Numbers and finiteness that every case below uses.
LEMMA Counts ==
    ASSUME Typed, Accounted
    PROVE  /\ MaxRetries \in Nat /\ attempt \in Nat /\ attempt <= MaxRetries
           /\ DOMAIN calls = 1..Len(calls) /\ Len(calls) \in Nat
           /\ \A c \in DOMAIN calls : /\ done[c] \in Nat /\ calls[c] \in Call
                                       /\ Commits(calls[c]) \in Nat /\ Commits(calls[c]) > 0
           /\ \A c : IsFiniteSet(Underway(c)) /\ Cardinality(Underway(c)) \in Nat
<1>1. MaxRetries \in Nat /\ attempt \in Nat /\ attempt <= MaxRetries
  BY CallsAssumption DEF Typed, TypeOK
<1>2. \A c : IsFiniteSet(Underway(c)) /\ Cardinality(Underway(c)) \in Nat
  BY FS_Subset, FS_CardinalityType DEF Accounted, Underway
<1>3. DOMAIN calls = 1..Len(calls) /\ Len(calls) \in Nat
  BY DEF Typed, TypeOK
<1>4. ASSUME NEW c \in DOMAIN calls
      PROVE  /\ done[c] \in Nat /\ calls[c] \in Call
             /\ Commits(calls[c]) \in Nat /\ Commits(calls[c]) > 0
  <2>1. done[c] \in Nat /\ calls[c] \in Call
    BY DEF Typed, TypeOK
  <2> QED
    BY <2>1 DEF Typed, RequestsKnown, Commits, Call
<1> QED
  BY <1>1, <1>2, <1>3, <1>4

\* Where requests only disappear and calls keep their kind and size, less is under way.
LEMMA LessUnderway ==
    ASSUME Typed, Accounted, Grown, requests' \subseteq requests, NEW c \in DOMAIN calls
    PROVE  /\ IsFiniteSet(requests')
           /\ IsFiniteSet(Underway(c)') /\ Cardinality(Underway(c)') \in Nat
           /\ Cardinality(Underway(c)') <= Cardinality(Underway(c))
<1>1. Commits(calls'[c]) = Commits(calls[c])
  <2>1. c \in 1..Len(calls)
    BY Counts
  <2> QED
    BY <2>1 DEF Commits, Grown
<1>2. Underway(c)' \subseteq Underway(c)
  BY <1>1 DEF Underway
<1>3. IsFiniteSet(Underway(c)) /\ IsFiniteSet(requests')
  BY Counts, FS_Subset DEF Accounted
<1> QED
  BY <1>2, <1>3, FS_Subset, FS_CardinalityType

LEMMA AccountedLess ==
    ASSUME Typed, Accounted, Rests \/ (\E o \in {"returned", "raised"} : EndsAs(o))
    PROVE  Accounted'
<1>1. /\ UNCHANGED <<done, attempt>> /\ requests' \subseteq requests
      /\ Grown /\ Len(calls') = Len(calls)
      /\ \A c \in DOMAIN calls : calls'[c].outcome = "returned" => done[c] > 0
  <2>1. CASE Rests
    BY <2>1 DEF Rests, Grown, Typed, TypeOK, Accounted
  <2>2. ASSUME NEW o \in {"returned", "raised"}, EndsAs(o)
        PROVE  /\ Grown /\ Len(calls') = Len(calls)
               /\ \A c \in DOMAIN calls : calls'[c].outcome = "returned" => done[c] > 0
    <3>1. /\ Grown /\ Len(calls') = Len(calls)
          /\ \A i \in 1..Len(calls) : i # Len(calls) => calls'[i] = calls[i]
          /\ calls'[Len(calls)].outcome = o
      BY <2>2, EndingOne DEF EndsAs, Ends, Typed
    <3>2. o = "returned" => done[Len(calls)] > 0
      BY <2>2 DEF EndsAs, Accounted, Hears
    <3> QED
      BY <3>1, <3>2, Counts DEF Accounted
  <2>3. ASSUME NEW o \in {"returned", "raised"}, EndsAs(o)
        PROVE  UNCHANGED <<done, attempt>> /\ requests' \subseteq requests
    BY <2>3 DEF EndsAs, Ends, Ending
  <2> QED
    BY <2>1, <2>2, <2>3 DEF Rests
<1>2. DOMAIN calls' = DOMAIN calls
  BY <1>1, Counts DEF Grown
<1>3. IsFiniteSet(requests')
  BY <1>1, FS_Subset DEF Accounted
<1>4. ASSUME NEW c \in DOMAIN calls PROVE done'[c] + Cardinality(Underway(c)') <= Tries(c)'
  <2>1. Cardinality(Underway(c)') \in Nat /\ Cardinality(Underway(c)') <= Cardinality(Underway(c))
    BY <1>1, LessUnderway
  <2>2. Tries(c)' = Tries(c)
    BY <1>1 DEF Tries
  <2> QED
    BY <1>1, <2>1, <2>2, Counts DEF Accounted, Tries
<1>5. ASSUME NEW r \in requests', r.written = Commits(Of(r)') PROVE done'[r.call] > 0
  <2>1. r \in requests /\ r.call \in 1..Len(calls)
    BY <1>1, Counts DEF Typed, TypeOK
  <2>2. Commits(Of(r)') = Commits(Of(r))
    BY <1>1, <2>1 DEF Grown, Of, Commits
  <2> QED
    BY <1>1, <1>5, <2>1, <2>2 DEF Accounted
<1> QED
  BY <1>1, <1>2, <1>3, <1>4, <1>5 DEF Accounted

LEMMA AccountedBegins == ASSUME Typed, Accounted, Begins PROVE Accounted'
<1>1. PICK kind \in Kinds, size \in Nat : Begin(kind, size)
  BY DEF Begins
<1>0. PICK n \in Nat : n = Len(calls) + 1
  BY Counts
<1>2. /\ Grown /\ Len(calls') = n
      /\ \A i \in 1..Len(calls) : calls'[i] = calls[i] /\ done'[i] = done[i]
      /\ calls'[n].outcome = "pending" /\ done'[n] = 0
      /\ requests' = requests /\ attempt' = 0
  <2>1. /\ Grown /\ Len(calls') = n
        /\ \A i \in 1..Len(calls) : calls'[i] = calls[i] /\ done'[i] = done[i]
        /\ calls'[n] = [kind |-> kind, run |-> own, size |-> size, outcome |-> "pending"]
        /\ done'[n] = 0
    BY <1>0, <1>1, Beginning DEF Typed
  <2>2. attempt' = 0 /\ requests' = requests
    BY <1>1 DEF Begins, Begin
  <2> QED
    BY <2>1, <2>2
<1>3. DOMAIN calls' = 1..n /\ n \in Nat
  BY <1>0, <1>2, Counts DEF Grown
<1>4. \A r \in requests : r.call \in 1..Len(calls)
  BY Counts DEF Typed, TypeOK
<1>5. ASSUME NEW c \in 1..Len(calls)
      PROVE  /\ done'[c] + Cardinality(Underway(c)') <= Tries(c)'
             /\ calls'[c].outcome = "returned" => done'[c] > 0
  <2>1. Underway(c)' = Underway(c)
    BY <1>2 DEF Underway, Commits
  <2>2. Tries(c)' = MaxRetries /\ Tries(c) <= MaxRetries /\ Tries(c) \in Nat
    <3>1. c # Len(calls')
      BY <1>0, <1>2, Counts
    <3>2. attempt \in Nat /\ attempt <= MaxRetries /\ MaxRetries \in Nat
      BY Counts
    <3> QED
      BY <3>1, <3>2 DEF Tries
  <2>3. done[c] + Cardinality(Underway(c)) <= MaxRetries
    BY <2>2, Counts DEF Accounted
  <2> QED
    BY <1>2, <2>1, <2>2, <2>3, Counts DEF Accounted
<1>6. done'[n] + Cardinality(Underway(n)') <= Tries(n)'
  <2>1. Underway(n)' = {}
    BY <1>0, <1>2, <1>4, Counts DEF Underway
  <2> QED
    BY <1>2, <2>1, FS_EmptySet DEF Tries
<1>7. ASSUME NEW r \in requests', r.written = Commits(Of(r)') PROVE done'[r.call] > 0
  <2>1. r \in requests /\ Of(r)' = Of(r)
    BY <1>2, <1>4 DEF Of
  <2> QED
    BY <1>2, <1>4, <1>7, <2>1 DEF Accounted
<1> QED
  <2>1. \A c \in DOMAIN calls' : c \in 1..Len(calls) \/ c = n
    BY <1>0, <1>3, Counts
  <2>2. IsFiniteSet(requests')
    BY <1>2 DEF Accounted
  <2> QED
    BY <1>2, <1>5, <1>6, <1>7, <2>1, <2>2 DEF Accounted

LEMMA AccountedSends == ASSUME Typed, Accounted, Sends PROVE Accounted'
<1> DEFINE new == [call |-> Len(calls), attempt |-> attempt + 1, written |-> 0, row |-> 0]
<1>1. /\ UNCHANGED <<calls, done>> /\ attempt' = attempt + 1 /\ requests' = requests \cup {new}
      /\ attempt < MaxRetries /\ Len(calls) \in DOMAIN calls
  BY Counts DEF Sends, Typed, TypeOK
<1>2. IsFiniteSet(requests')
  BY <1>1, FS_AddElement DEF Accounted
<1>3. ASSUME NEW c \in DOMAIN calls PROVE done'[c] + Cardinality(Underway(c)') <= Tries(c)'
  <2>1. CASE c = Len(calls)
    <3>1. Underway(c)' \subseteq Underway(c) \cup {new}
      BY <1>1 DEF Underway
    <3>2. /\ IsFiniteSet(Underway(c) \cup {new})
          /\ Cardinality(Underway(c) \cup {new}) <= Cardinality(Underway(c)) + 1
          /\ Cardinality(Underway(c) \cup {new}) \in Nat
      <4>1. IsFiniteSet(Underway(c))
        BY Counts
      <4> QED
        BY <4>1, OneMore
    <3>3. Cardinality(Underway(c)') <= Cardinality(Underway(c)) + 1 /\ Cardinality(Underway(c)') \in Nat
      BY <3>1, <3>2, Counts, FS_Subset, FS_CardinalityType
    <3>4. Tries(c)' = Tries(c) + 1 /\ Tries(c) \in Nat
      BY <1>1, <2>1, Counts DEF Tries
    <3> QED
      BY <1>1, <3>3, <3>4, Counts DEF Accounted
  <2>2. CASE c # Len(calls)
    <3>1. Underway(c)' = Underway(c) /\ Tries(c)' = Tries(c)
      BY <1>1, <2>2 DEF Underway, Tries
    <3> QED
      BY <1>1, <3>1 DEF Accounted
  <2> QED
    BY <2>1, <2>2
<1>4. ASSUME NEW r \in requests', r.written = Commits(Of(r)) PROVE done[r.call] > 0
  <2>1. Commits(Of(new)) > 0 /\ new.written = 0
    BY <1>1, Counts DEF Of
  <2>2. r # new
    BY <1>4, <2>1
  <2> QED
    BY <1>1, <1>4, <2>2 DEF Accounted
<1> QED
  BY <1>1, <1>2, <1>3, <1>4 DEF Accounted, Of

LEMMA AccountedPerforms ==
    ASSUME Typed, Accounted, NEW r \in requests, Performs(r)
    PROVE  Accounted' /\ done[r.call] < MaxRetries
<1>1. PICK row \in Nat : Committed(r, row)
  BY DEF Performs
<1> DEFINE new == [call |-> r.call, attempt |-> r.attempt, written |-> r.written + 1, row |-> row]
           b == r.call
<1>2. UNCHANGED <<calls, attempt>> /\ requests' = (requests \ {r}) \cup {new}
  BY <1>1 DEF Performs, Committed
<1>3. b \in DOMAIN calls /\ r.written \in Nat /\ r.written < Commits(calls[b])
  BY DEF Performs, Handling, Typed, TypeOK, Of
<1>4. done' = IF r.written + 1 = Commits(calls[b]) THEN [done EXCEPT ![b] = @ + 1] ELSE done
  BY <1>1 DEF Committed, Of
<1>5. done \in [DOMAIN calls -> Nat]
  BY DEF Typed, TypeOK
<1>6. /\ r \in Underway(b) /\ IsFiniteSet(Underway(b)) /\ Cardinality(Underway(b)) \in Nat
      /\ IsFiniteSet(Underway(b) \ {r}) /\ Cardinality(Underway(b) \ {r}) = Cardinality(Underway(b)) - 1
      /\ Cardinality(Underway(b) \ {r}) \in Nat
  <2>1. r \in Underway(b)
    BY <1>3 DEF Underway
  <2> QED
    BY <2>1, Counts, FS_RemoveElement, FS_CardinalityType
<1>7. done[b] + Cardinality(Underway(b)) <= Tries(b) /\ Tries(b) \in Nat /\ Tries(b) <= MaxRetries
  BY <1>3, Counts DEF Accounted, Tries
<1>8. done[b] < MaxRetries
  BY <1>3, <1>6, <1>7, Counts
<1>9. IsFiniteSet(requests')
  BY <1>2, FS_AddElement, FS_RemoveElement DEF Accounted
<1>10. ASSUME NEW c \in DOMAIN calls PROVE done'[c] + Cardinality(Underway(c)') <= Tries(c)'
  <2>1. Tries(c)' = Tries(c)
    BY <1>2 DEF Tries
  <2>2. CASE c # b
    <3>1. Underway(c)' = Underway(c)
      BY <1>2, <2>2 DEF Underway
    <3>2. done'[c] = done[c]
      BY <1>4, <1>5, <2>2
    <3> QED
      BY <2>1, <3>1, <3>2 DEF Accounted
  <2>3. CASE c = b /\ r.written + 1 = Commits(calls[b])
    <3>1. Underway(c)' \subseteq Underway(b) \ {r}
      BY <1>2, <1>3, <2>3 DEF Underway
    <3>2. Cardinality(Underway(c)') <= Cardinality(Underway(b)) - 1 /\ Cardinality(Underway(c)') \in Nat
      BY <1>6, <3>1, FS_Subset, FS_CardinalityType
    <3>3. done'[c] = done[b] + 1
      BY <1>3, <1>4, <1>5, <2>3
    <3> QED
      BY <1>3, <1>6, <1>7, <2>1, <2>3, <3>2, <3>3, Counts
  <2>4. CASE c = b /\ r.written + 1 # Commits(calls[b])
    <3>1. Underway(c)' \subseteq (Underway(b) \ {r}) \cup {new}
      BY <1>2, <2>4 DEF Underway
    <3>2. /\ IsFiniteSet((Underway(b) \ {r}) \cup {new})
          /\ Cardinality((Underway(b) \ {r}) \cup {new}) <= Cardinality(Underway(b))
          /\ Cardinality((Underway(b) \ {r}) \cup {new}) \in Nat
      <4> DEFINE kept == Underway(b) \ {r}
      <4> HIDE DEF new
      <4>1. /\ IsFiniteSet(kept \cup {new}) /\ Cardinality(kept \cup {new}) \in Nat
            /\ Cardinality(kept \cup {new}) <= Cardinality(kept) + 1
        BY <1>6, OneMore
      <4>2. Cardinality(kept) = Cardinality(Underway(b)) - 1 /\ Cardinality(Underway(b)) \in Nat
        BY <1>6
      <4> QED
        BY <4>1, <4>2
    <3>3. Cardinality(Underway(c)') <= Cardinality(Underway(b)) /\ Cardinality(Underway(c)') \in Nat
      BY <1>6, <3>1, <3>2, FS_Subset, FS_CardinalityType
    <3>4. done'[c] = done[b]
      BY <1>4, <2>4
    <3> QED
      BY <1>3, <1>6, <1>7, <2>1, <2>4, <3>3, <3>4, Counts
  <2> QED
    BY <2>2, <2>3, <2>4
<1>11. \A c \in DOMAIN calls : done'[c] \in Nat /\ done'[c] >= done[c]
  BY <1>3, <1>4, <1>5
<1>12. ASSUME NEW c \in DOMAIN calls, calls[c].outcome = "returned" PROVE done'[c] > 0
  BY <1>11, <1>12, Counts DEF Accounted
<1>13. ASSUME NEW q \in requests', q.written = Commits(Of(q)) PROVE done'[q.call] > 0
  <2>1. CASE q = new
    BY <1>3, <1>4, <1>5, <1>13, <2>1 DEF Of
  <2>2. CASE q \in requests
    <3>1. q.call \in DOMAIN calls /\ done[q.call] > 0
      BY <1>13, <2>2 DEF Accounted, Typed, TypeOK
    <3> QED
      BY <1>11, <3>1, Counts
  <2> QED
    BY <1>2, <2>1, <2>2
<1> QED
  BY <1>2, <1>8, <1>9, <1>10, <1>12, <1>13 DEF Accounted, Of

LEMMA AccountedStep == Typed /\ Accounted /\ [Next]_vars => Accounted'
BY StepKinds, AccountedLess, AccountedBegins, AccountedSends, AccountedPerforms

LEMMA AccountedInit == Init => Accounted
BY FS_EmptySet DEF Init, Accounted

LEMMA AlwaysAccounted == Spec => [](Typed /\ Accounted)
BY AlwaysTyped, AccountedInit, AccountedStep, PTL DEF Spec

\* The mapped variables, one call at a time: they are functions on 1..MaxCalls, so
\* two of them are equal if they agree on each call.
LEMMA Mapped ==
    ASSUME Typed, Grown
    PROVE  /\ \A c \in 1..MaxCalls :
                 /\ Outcomes[c] = IF c \in 1..Len(calls) THEN calls[c].outcome ELSE "unsent"
                 /\ Outcomes'[c] = IF c \in 1..Len(calls') THEN calls'[c].outcome ELSE "unsent"
                 /\ Performed[c] = IF c \in 1..Len(calls) THEN done[c] ELSE 0
                 /\ Performed'[c] = IF c \in 1..Len(calls') THEN done'[c] ELSE 0
<1>1. DOMAIN calls = 1..Len(calls) /\ DOMAIN calls' = 1..Len(calls')
  BY DEF Typed, TypeOK, Grown
<1> QED
  BY <1>1 DEF Outcomes, Performed

LEMMA DeliversStep == Typed /\ Accounted /\ [Next]_vars => [Abstract!Next]_(Abstract!vars)
<1> SUFFICES ASSUME Typed, Accounted, [Next]_vars PROVE Abstract!Next \/ UNCHANGED <<Outcomes, Performed>>
  BY DEF Abstract!vars
<1> DEFINE Ids == 1..MaxCalls
<1>1. CASE Rests \/ Sends
  BY <1>1 DEF Rests, Sends, Outcomes, Performed
<1>2. CASE Begins
  <2>1. PICK kind \in Kinds, size \in Nat : Begin(kind, size)
    BY <1>2 DEF Begins
  <2>2. PICK n \in Nat : n = Len(calls) + 1
    BY Counts
  <2>3. /\ Grown /\ Len(calls') = n
        /\ \A i \in 1..Len(calls) : calls'[i] = calls[i] /\ done'[i] = done[i]
        /\ calls'[n] = [kind |-> kind, run |-> own, size |-> size, outcome |-> "pending"]
        /\ done'[n] = 0
    BY <2>1, <2>2, Beginning DEF Typed
  <2>4. calls'[n].outcome = "pending"
    BY <2>3
  <2>5. n \notin 1..Len(calls) /\ \A c : c \in 1..Len(calls') <=> c \in 1..Len(calls) \/ c = n
    BY <2>2, <2>3, Counts
  <2>6. \A c \in Ids : /\ Outcomes'[c] = IF c = n THEN "pending" ELSE Outcomes[c]
                      /\ Performed'[c] = Performed[c]
    BY <2>3, <2>4, <2>5, Mapped
  <2>7. n \in Ids => Outcomes[n] = "unsent"
    BY <2>3, <2>5, Mapped
  <2>8. Performed' = Performed
    BY <2>6 DEF Performed
  <2>9. CASE n \in Ids
    <3>1. Outcomes' = [Outcomes EXCEPT ![n] = "pending"]
      BY <2>6, <2>9 DEF Outcomes
    <3>2. Abstract!Send(n)
      BY <2>7, <2>8, <2>9, <3>1 DEF Abstract!Send
    <3> QED
      BY <2>9, <3>2 DEF Abstract!Next
  <2>10. CASE n \notin Ids
    <3>1. Outcomes' = Outcomes
      BY <2>6, <2>10 DEF Outcomes
    <3> QED
      BY <2>8, <3>1
  <2> QED
    BY <2>9, <2>10
<1>3. ASSUME NEW o \in {"returned", "raised"}, EndsAs(o)
      PROVE  Abstract!Next \/ UNCHANGED <<Outcomes, Performed>>
  <2>1. PICK n \in Nat : n = Len(calls)
    BY Counts
  <2>2. /\ Grown /\ Len(calls') = n /\ UNCHANGED done
        /\ \A i \in 1..n : i # n => calls'[i] = calls[i]
        /\ calls'[n].outcome = o /\ n \in 1..n /\ calls[n].outcome = "pending"
    BY <1>3, <2>1, EndingOne, Counts DEF EndsAs, Ends, Calling, Typed
  <2>3. \A c \in Ids : /\ Outcomes'[c] = IF c = n THEN o ELSE Outcomes[c]
                      /\ Performed'[c] = Performed[c]
    BY <2>1, <2>2, Mapped
  <2>4. n \in Ids => Outcomes[n] = "pending" /\ Performed[n] = done[n]
    BY <2>1, <2>2, Mapped
  <2>5. o = "returned" => done[n] > 0
    BY <1>3, <2>1 DEF EndsAs, Accounted, Hears
  <2>6. Performed' = Performed
    BY <2>3 DEF Performed
  <2>7. CASE n \in Ids
    <3>1. Outcomes' = [Outcomes EXCEPT ![n] = o]
      BY <2>3, <2>7 DEF Outcomes
    <3>2. Abstract!Return(n) \/ Abstract!Raise(n)
      BY <2>4, <2>5, <2>6, <2>7, <3>1 DEF Abstract!Return, Abstract!Raise
    <3> QED
      BY <2>7, <3>2 DEF Abstract!Next
  <2>8. CASE n \notin Ids
    <3>1. Outcomes' = Outcomes
      BY <2>3, <2>8 DEF Outcomes
    <3> QED
      BY <2>6, <3>1
  <2> QED
    BY <2>7, <2>8
<1>4. ASSUME NEW r \in requests, Performs(r)
      PROVE  Abstract!Next \/ UNCHANGED <<Outcomes, Performed>>
  <2>1. PICK row \in Nat : Committed(r, row)
    BY <1>4 DEF Performs
  <2>2. PICK b : b = r.call
    OBVIOUS
  <2>3. b \in 1..Len(calls) /\ done \in [1..Len(calls) -> Nat] /\ calls[b] \in Call
    BY <2>2, Counts DEF Typed, TypeOK
  <2>4. calls' = calls /\ done' \in {[done EXCEPT ![b] = @ + 1], done} /\ Grown
    BY <1>4, <2>1, <2>2 DEF Performs, Committed, Grown, Typed, TypeOK
  <2>5. done[b] < MaxRetries
    BY <1>4, <2>2, AccountedPerforms
  <2>6. Outcomes' = Outcomes
    BY <2>4 DEF Outcomes
  <2>7. CASE done' = done
    BY <2>4, <2>6, <2>7 DEF Performed
  <2>8. CASE done' = [done EXCEPT ![b] = @ + 1]
    <3>1. \A c \in Ids : Performed'[c] = IF c = b THEN Performed[c] + 1 ELSE Performed[c]
      BY <2>3, <2>4, <2>8, Mapped
    <3>2. CASE b \in Ids
      <4>1. Performed' = [Performed EXCEPT ![b] = @ + 1]
        BY <3>1, <3>2 DEF Performed
      <4>2. Performed[b] = done[b] /\ Outcomes[b] # "unsent"
        BY <2>3, <2>4, <3>2, Mapped DEF Call
      <4>3. Abstract!Perform(b)
        BY <2>5, <2>6, <4>1, <4>2 DEF Abstract!Perform
      <4> QED
        BY <3>2, <4>3 DEF Abstract!Next
    <3>3. CASE b \notin Ids
      <4>1. Performed' = Performed
        BY <3>1, <3>3 DEF Performed
      <4> QED
        BY <2>6, <4>1
    <3> QED
      BY <3>2, <3>3
  <2> QED
    BY <2>4, <2>7, <2>8
<1> QED
  BY <1>1, <1>2, <1>3, <1>4, StepKinds

\* The retries of the client and the threads of the backend implement Delivery: a
\* call that returns has been carried out, once or more, and none is carried out
\* more often than it is tried, although attempts go on after their time-out.
THEOREM CallsDelivered == Spec => Delivers
<1>1. Init => Abstract!Init
  BY DEF Init, Abstract!Init, Outcomes, Performed
<1> QED
  BY <1>1, DeliversStep, AlwaysAccounted, PTL DEF Spec, Delivers, Abstract!Spec

\* What has returned has been carried out, what was not sent has not, and nothing is
\* carried out more often than the client tries.
THEOREM CarriedOut == Spec => []Abstract!AtLeastOnce
<1>1. Typed /\ Accounted => Abstract!AtLeastOnce
  <2> SUFFICES ASSUME Typed, Accounted, NEW c \in 1..MaxCalls
               PROVE  /\ Outcomes[c] = "returned" => Performed[c] > 0
                      /\ Outcomes[c] = "unsent" => Performed[c] = 0
                      /\ Performed[c] <= MaxRetries
    BY DEF Abstract!AtLeastOnce
  <2>1. CASE c \in DOMAIN calls
    <3>1. Outcomes[c] = calls[c].outcome /\ Performed[c] = done[c]
      BY <2>1 DEF Outcomes, Performed
    <3>2. done[c] + Cardinality(Underway(c)) <= Tries(c) /\ Tries(c) \in Nat /\ Tries(c) <= MaxRetries
      BY <2>1, Counts DEF Accounted, Tries
    <3>3. done[c] \in Nat /\ Cardinality(Underway(c)) \in Nat /\ MaxRetries \in Nat /\ calls[c] \in Call
      BY <2>1, Counts
    <3>4. calls[c].outcome # "unsent"
      BY <3>3 DEF Call
    <3>5. calls[c].outcome = "returned" => done[c] > 0
      BY <2>1 DEF Accounted
    <3> QED
      BY <3>1, <3>2, <3>3, <3>4, <3>5
  <2>2. CASE c \notin DOMAIN calls
    BY <2>2, Counts DEF Outcomes, Performed
  <2> QED
    BY <2>1, <2>2
<1> QED
  BY <1>1, AlwaysAccounted, PTL
-------------------------------------------------------------------------------
(* A run is closed once, by a request of its own.                          *)

Named(i) == \E c \in DOMAIN calls : calls[c].kind = "finish" /\ calls[c].run = i
Made(r) == Of(r).kind = "create" /\ r.written > 0

\* A row whose id is still on its way is no one's, and the run of a worker that has
\* not finished it is named by no call to finish; closed rows hold what theirs said.
RunsApart ==
    /\ \A r \in requests : Made(r) => r.row # own /\ ~Named(r.row)
    /\ \A q, r \in requests : Made(q) /\ Made(r) /\ q.row = r.row => q = r
    /\ Open => ~Named(own)
    /\ \A c, d \in DOMAIN calls :
          calls[c].kind = "finish" /\ calls[d].kind = "finish" /\ calls[c].run = calls[d].run => c = d
    /\ \A i \in DOMAIN runs :
          IF runs[i].status = "running" THEN runs[i].found = 0
          ELSE \E c \in DOMAIN calls :
                  calls[c].kind = "finish" /\ calls[c].run = i /\ runs[i].found = calls[c].size

\* Old calls are what they were.
LEMMA OldCalls ==
    ASSUME Typed, Grown
    PROVE  /\ DOMAIN calls = 1..Len(calls) /\ DOMAIN calls' = 1..Len(calls') /\ DOMAIN calls \subseteq DOMAIN calls'
           /\ \A c \in DOMAIN calls : /\ calls'[c].kind = calls[c].kind /\ calls'[c].run = calls[c].run
                                       /\ calls'[c].size = calls[c].size
           /\ \A r \in requests : r.call \in DOMAIN calls /\ (Made(r)' <=> Made(r))
<1>1. /\ DOMAIN calls = 1..Len(calls) /\ DOMAIN calls' = 1..Len(calls')
      /\ Len(calls) \in Nat /\ Len(calls') \in Nat /\ Len(calls) <= Len(calls')
  BY DEF Typed, TypeOK, Grown
<1>2. \A c \in DOMAIN calls : /\ calls'[c].kind = calls[c].kind /\ calls'[c].run = calls[c].run
                              /\ calls'[c].size = calls[c].size
  BY <1>1 DEF Grown
<1>3. \A r \in requests : r.call \in DOMAIN calls
  BY DEF Typed, TypeOK
<1> QED
  BY <1>1, <1>2, <1>3 DEF Made, Of

\* Steps that neither begin a call to finish nor make or close a run.
LEMMA ApartKept ==
    ASSUME Typed, RunsApart, Grown, UNCHANGED <<runs, own>>, Open' => Open,
           \A c \in DOMAIN calls' : calls'[c].kind = "finish" => c \in DOMAIN calls,
           \A r \in requests' : Made(r)' => r \in requests
    PROVE  RunsApart'
<1>1. \A i : Named(i)' <=> Named(i)
  BY OldCalls DEF Named
<1>2. \A r \in requests' : Made(r)' => r \in requests /\ Made(r)
  BY OldCalls
<1>3. /\ \A r \in requests' : Made(r)' => r.row # own' /\ ~Named(r.row)'
      /\ \A q, r \in requests' : Made(q)' /\ Made(r)' /\ q.row = r.row => q = r
      /\ Open' => ~Named(own)'
  BY <1>1, <1>2 DEF RunsApart
<1>4. \A c, d \in DOMAIN calls' :
        calls'[c].kind = "finish" /\ calls'[d].kind = "finish" /\ calls'[c].run = calls'[d].run => c = d
  BY OldCalls DEF RunsApart
<1>5. \A i \in DOMAIN runs :
        IF runs[i].status = "running" THEN runs[i].found = 0
        ELSE \E c \in DOMAIN calls' :
                calls'[c].kind = "finish" /\ calls'[c].run = i /\ runs[i].found = calls'[c].size
  BY OldCalls DEF RunsApart
<1> QED
  BY <1>3, <1>4, <1>5 DEF RunsApart

\* A call that begins and is not one to finish.
LEMMA NoFinish ==
    ASSUME Typed, NEW kind \in Kinds \ {"finish"}, NEW size \in Nat, Begin(kind, size)
    PROVE  /\ \A c \in DOMAIN calls' : calls'[c].kind = "finish" => c \in DOMAIN calls
           /\ Last'.outcome = "pending"
<1>1. /\ Grown /\ Len(calls') = Len(calls) + 1
      /\ calls'[Len(calls')] = [kind |-> kind, run |-> own, size |-> size, outcome |-> "pending"]
  BY Beginning DEF Typed
<1>2. DOMAIN calls' = 1..(Len(calls) + 1) /\ DOMAIN calls = 1..Len(calls) /\ Len(calls) \in Nat
  BY <1>1, OldCalls DEF Typed, TypeOK
<1>3. calls'[Len(calls) + 1].kind # "finish"
  BY <1>1
<1> QED
  BY <1>1, <1>2, <1>3 DEF Last

\* Replies and time-outs begin no call, and none that fails opens a run.
LEMMA NoneOpened ==
    ASSUME Typed, Settles, calls' = calls \/ Ends("raised"), step' \in {step, "idle"}
    PROVE  /\ \A c \in DOMAIN calls' : calls'[c].kind = "finish" => c \in DOMAIN calls
           /\ Open' => Open
<1>1. Grown /\ Len(calls') = Len(calls)
  BY Settling DEF Typed
<1>2. DOMAIN calls' = DOMAIN calls
  BY <1>1, OldCalls
<1>3. Last'.outcome = "returned" => Last' = Last
  <2>1. CASE calls' = calls
    BY <2>1 DEF Last
  <2>2. CASE Ends("raised")
    <3>1. Last'.outcome = "raised"
      BY <1>1, <2>2, EndingOne DEF Ends, Last, Typed
    <3> QED
      BY <3>1
  <2> QED
    BY <2>1, <2>2
<1> QED
  BY <1>2, <1>3 DEF Open

LEMMA ApartWorker ==
    ASSUME Typed, RunsApart,
           StartRun \/ Created \/ SearchNothing \/ Search \/ Saved \/ SearchDone \/ Finished
    PROVE  RunsApart'
<1>1. Grown
  BY StepGrows DEF Next, Work
<1>2. UNCHANGED <<runs, own, requests>> /\ ~Calling
  BY DEF StartRun, Created, SearchNothing, Search, Saved, SearchDone, Finished, At, Resting, backend
<1>3. /\ Open' => Open
      /\ \A c \in DOMAIN calls' : calls'[c].kind = "finish" => c \in DOMAIN calls
  <2>1. CASE StartRun
    <3>1. /\ Last'.outcome = "pending"
          /\ \A c \in DOMAIN calls' : calls'[c].kind = "finish" => c \in DOMAIN calls
      BY <2>1, NoFinish DEF StartRun, Kinds
    <3> QED
      BY <2>1, <3>1 DEF StartRun, Open
  <2>2. CASE Created
    BY <2>2 DEF Created, At, client, Open
  <2>3. CASE SearchNothing \/ Saved \/ Finished
    BY <2>3 DEF SearchNothing, Saved, Finished, At, client, Open
  <2>4. CASE Search
    <3>1. PICK n \in 1..MaxResults : Begin("results", n)
      BY <2>4 DEF Search
    <3>2. n \in Nat
      OBVIOUS
    <3>3. \A c \in DOMAIN calls' : calls'[c].kind = "finish" => c \in DOMAIN calls
      BY <3>1, <3>2, NoFinish DEF Kinds
    <3> QED
      BY <2>4, <3>3 DEF Search, At, Open
  <2>5. CASE SearchDone
    <3>1. PICK pages \in 0..PageCalls :
            IF buffer + pages > 0 THEN Begin("telemetry", buffer + pages) ELSE NoCall
      BY <2>5 DEF SearchDone
    <3>2. buffer + pages \in Nat
      BY DEF Typed, TypeOK
    <3>3. \A c \in DOMAIN calls' : calls'[c].kind = "finish" => c \in DOMAIN calls
      BY <3>1, <3>2, NoFinish DEF Kinds, NoCall, client
    <3> QED
      BY <2>5, <3>3 DEF SearchDone, At, Open
  <2> QED
    BY <2>1, <2>2, <2>3, <2>4, <2>5
<1> QED
  BY <1>1, <1>2, <1>3, ApartKept

LEMMA ApartFailing ==
    ASSUME Typed, RunsApart, Send \/ TimeOut \/ Crash \/ \E r \in requests : Break(r)
    PROVE  RunsApart'
<1>1. Grown
  BY StepGrows DEF Next, Work
<1>2. UNCHANGED <<runs, own>> /\ step' \in {step, "idle"}
  BY DEF Send, TimeOut, Crash, Break, worker
<1>3. /\ Settles \/ calls' = calls
      /\ calls' = calls \/ Ends("raised")
  <2>1. CASE Send
    BY <2>1 DEF Send
  <2>2. CASE TimeOut
    BY <2>2 DEF TimeOut, Settles, Ends, Ending
  <2>3. CASE Crash
    BY <2>3 DEF Crash, Settles, Ends, Ending, client
  <2>4. ASSUME NEW r \in requests, Break(r)
        PROVE  Settles /\ (calls' = calls \/ Ends("raised"))
    BY <2>4, Replying DEF Break, Typed
  <2> QED
    BY <2>1, <2>2, <2>3, <2>4
<1>4. /\ Open' => Open
      /\ \A c \in DOMAIN calls' : calls'[c].kind = "finish" => c \in DOMAIN calls
  <2>1. CASE calls' = calls
    BY <1>2, <2>1 DEF Open, Last
  <2>2. CASE Settles
    BY <1>2, <1>3, <2>2, NoneOpened
  <2> QED
    BY <1>3, <2>1, <2>2
<1>5. \A r \in requests' : Made(r)' => r \in requests
  <2>1. requests' \subseteq requests \cup
          {[call |-> Len(calls), attempt |-> attempt + 1, written |-> 0, row |-> 0]}
    BY DEF Send, TimeOut, Crash, Break, Abandoned, Late
  <2> QED
    BY <2>1 DEF Made
<1> QED
  BY <1>1, <1>2, <1>4, <1>5, ApartKept

LEMMA ApartStoring ==
    ASSUME Typed, RunsApart, NEW r \in requests, StoreResult(r) \/ StoreToolCalls(r)
    PROVE  RunsApart'
<1>1. UNCHANGED <<runs, calls, step, own>> /\ Of(r).kind # "create"
  BY DEF StoreResult, StoreToolCalls, client, worker
<1>2. requests' = (requests \ {r}) \cup
         {[call |-> r.call, attempt |-> r.attempt, written |-> r.written + 1, row |-> 0]}
  BY DEF StoreResult, StoreToolCalls, Committed
<1>3. \A q \in requests' : Made(q)' => q \in requests
  BY <1>1, <1>2 DEF Made, Of
<1>4. Grown /\ (Open' => Open)
  BY <1>1 DEF Grown, Open, Last, Typed, TypeOK
<1> QED
  BY <1>1, <1>3, <1>4, ApartKept

LEMMA ApartFlushed == ASSUME Typed, RunsApart, Flushed PROVE RunsApart'
<1>1. PICK n \in Nat : n = Len(calls) + 1
  BY DEF Typed, TypeOK
<1>2. Begin("finish", found) /\ UNCHANGED <<runs, own, requests>> /\ Open /\ ~Open'
  BY DEF Flushed, At, backend, Open
<1>3. /\ Grown /\ Len(calls') = n
      /\ calls'[n] = [kind |-> "finish", run |-> own, size |-> found, outcome |-> "pending"]
  BY <1>1, <1>2, Beginning DEF Typed, TypeOK, Kinds
<1>4. calls'[n].kind = "finish" /\ calls'[n].run = own
  BY <1>3
<1>5. n \notin DOMAIN calls /\ \A c : c \in DOMAIN calls' <=> c \in DOMAIN calls \/ c = n
  BY <1>1, <1>3, OldCalls DEF Typed, TypeOK
<1>6. \A i : Named(i)' <=> Named(i) \/ i = own
  BY <1>3, <1>4, <1>5, OldCalls DEF Named
<1>7. \A c \in DOMAIN calls : calls[c].kind = "finish" => calls[c].run # own
  BY <1>2 DEF RunsApart, Named
<1>8. \A c, d \in DOMAIN calls' :
        calls'[c].kind = "finish" /\ calls'[d].kind = "finish" /\ calls'[c].run = calls'[d].run => c = d
  BY <1>3, <1>4, <1>5, <1>7, OldCalls DEF RunsApart
<1>9. /\ \A r \in requests' : Made(r)' => r.row # own' /\ ~Named(r.row)'
      /\ \A q, r \in requests' : Made(q)' /\ Made(r)' /\ q.row = r.row => q = r
  BY <1>2, <1>3, <1>6, OldCalls DEF RunsApart
<1>10. \A i \in DOMAIN runs :
        IF runs[i].status = "running" THEN runs[i].found = 0
        ELSE \E c \in DOMAIN calls' :
                calls'[c].kind = "finish" /\ calls'[c].run = i /\ runs[i].found = calls'[c].size
  BY <1>3, OldCalls DEF RunsApart
<1> QED
  BY <1>2, <1>8, <1>9, <1>10 DEF RunsApart

LEMMA ApartAnswer == ASSUME Typed, RunsApart, NEW r \in requests, Answer(r) PROVE RunsApart'
<1>1. /\ UNCHANGED <<runs, step>> /\ requests' = requests \ {r} /\ r.written = Commits(Of(r))
      /\ own' = IF Of(r).kind = "create" /\ Hears(r) THEN r.row ELSE own
  BY DEF Answer
<1>2. Settles /\ (calls' = calls \/ (Hears(r) /\ Ends("returned")))
  BY Replying DEF Answer, Typed
<1>3. Grown /\ Len(calls') = Len(calls)
  BY <1>2, Settling DEF Typed
<1>4. DOMAIN calls' = DOMAIN calls
  BY <1>3, OldCalls
<1>5. CASE Of(r).kind = "create" /\ Hears(r)
  <2>1. Made(r)
    BY <1>1, <1>5 DEF Made, Commits
  <2>2. own' = r.row /\ ~Named(r.row)
    BY <1>1, <1>5, <2>1 DEF RunsApart
  <2>3. \A i : Named(i)' <=> Named(i)
    BY <1>3, <1>4, OldCalls DEF Named
  <2>4. \A q \in requests' : q \in requests /\ q # r /\ (Made(q)' <=> Made(q))
    BY <1>1, <1>3, OldCalls
  <2>5. /\ \A q \in requests' : Made(q)' => q.row # own' /\ ~Named(q.row)'
        /\ \A p, q \in requests' : Made(p)' /\ Made(q)' /\ p.row = q.row => p = q
        /\ ~Named(own)'
    BY <2>1, <2>2, <2>3, <2>4 DEF RunsApart
  <2>6. /\ \A c, d \in DOMAIN calls' :
              calls'[c].kind = "finish" /\ calls'[d].kind = "finish" /\ calls'[c].run = calls'[d].run => c = d
        /\ \A i \in DOMAIN runs :
              IF runs[i].status = "running" THEN runs[i].found = 0
              ELSE \E c \in DOMAIN calls' :
                      calls'[c].kind = "finish" /\ calls'[c].run = i /\ runs[i].found = calls'[c].size
    BY <1>3, <1>4, OldCalls DEF RunsApart
  <2> QED
    BY <1>1, <2>5, <2>6 DEF RunsApart
<1>6. CASE ~(Of(r).kind = "create" /\ Hears(r))
  <2>1. own' = own
    BY <1>1, <1>6
  <2>2. Open' => Open
    <3>1. CASE calls' = calls
      BY <1>1, <3>1 DEF Open, Last
    <3>2. CASE Hears(r)
      <4>1. step # "create"
        BY <1>6, <3>2 DEF Typed, StepKnown, Hears, Of, Last
      <4> QED
        BY <1>1, <4>1 DEF Open
    <3> QED
      BY <1>2, <3>1, <3>2
  <2> QED
    BY <1>1, <1>3, <1>4, <2>1, <2>2, ApartKept
<1> QED
  BY <1>5, <1>6

LEMMA ApartCreate == ASSUME Typed, RunsApart, NEW r \in requests, CreateRun(r) PROVE RunsApart'
<1>1. PICK n \in Nat : n = Len(runs) + 1
  BY DEF Typed, TypeOK
<1> DEFINE new == [call |-> r.call, attempt |-> r.attempt, written |-> r.written + 1, row |-> n]
<1>2. UNCHANGED <<calls, step, own>> /\ requests' = (requests \ {r}) \cup {new}
  BY <1>1 DEF CreateRun, client, worker, Committed
<1>3. /\ DOMAIN runs = 1..Len(runs) /\ Len(runs) \in Nat
      /\ runs' = Append(runs, [status |-> "running", found |-> 0])
      /\ DOMAIN runs' = 1..n /\ runs'[n] = [status |-> "running", found |-> 0]
      /\ \A i \in DOMAIN runs : runs'[i] = runs[i]
  BY <1>1 DEF CreateRun, Typed, TypeOK
<1>4. Open' <=> Open
  BY <1>2 DEF Open, Last
<1>5. \A i : Named(i)' <=> Named(i)
  BY <1>2 DEF Named
<1>6. ~Named(n) /\ own # n /\ \A q \in requests : Made(q) => q.row # n
  <2>1. n \notin DOMAIN runs /\ n \notin 0..Len(runs)
    BY <1>1, <1>3
  <2>2. \A c \in DOMAIN calls : calls[c].kind = "finish" => calls[c].run \in DOMAIN runs
    BY DEF Typed, TypeOK
  <2>3. own \in 0..Len(runs) /\ \A q \in requests : q.row \in 0..Len(runs)
    BY DEF Typed, TypeOK
  <2> QED
    BY <2>1, <2>2, <2>3 DEF Named
<1>7. \A q : Made(q)' <=> Made(q)
  BY <1>2 DEF Made, Of
<1>8. /\ \A q \in requests' : Made(q)' => q.row # own' /\ ~Named(q.row)'
      /\ \A p, q \in requests' : Made(p)' /\ Made(q)' /\ p.row = q.row => p = q
      /\ Open' => ~Named(own)'
  <2>1. \A q \in requests' : q \in requests \/ (q = new /\ q.row = n)
    BY <1>2
  <2> QED
    BY <1>2, <1>4, <1>5, <1>6, <1>7, <2>1 DEF RunsApart
<1>9. ASSUME NEW i \in DOMAIN runs'
      PROVE  IF runs'[i].status = "running" THEN runs'[i].found = 0
             ELSE \E c \in DOMAIN calls' :
                     calls'[c].kind = "finish" /\ calls'[c].run = i /\ runs'[i].found = calls'[c].size
  <2>1. CASE i \in DOMAIN runs
    BY <1>2, <1>3, <2>1 DEF RunsApart
  <2>2. CASE i = n
    BY <1>3, <2>2
  <2> QED
    BY <1>1, <1>3, <2>1, <2>2
<1>10. \A c, d \in DOMAIN calls' :
        calls'[c].kind = "finish" /\ calls'[d].kind = "finish" /\ calls'[c].run = calls'[d].run => c = d
  BY <1>2 DEF RunsApart
<1> QED
  BY <1>8, <1>9, <1>10 DEF RunsApart

\* Only an open row changes when a run is closed, even if the request comes again.
LEMMA ApartFinish ==
    ASSUME Typed, RunsApart, NEW r \in requests, FinishRun(r)
    PROVE  /\ RunsApart'
           /\ \A i \in DOMAIN runs : runs'[i] # runs[i] => runs[i].status = "running" /\ Named(i)
<1>1. PICK n : n = Of(r).run
  OBVIOUS
<1>2. PICK size : size = Of(r).size
  OBVIOUS
<1> DEFINE closed == [status |-> "closed", found |-> size]
<1>3. /\ n \in DOMAIN runs /\ runs' = [runs EXCEPT ![n] = closed]
      /\ runs \in Seq([status : {"running", "closed"}, found : Nat])
  BY <1>1, <1>2, Finishing DEF Typed, TypeOK
<1>4. UNCHANGED <<calls, step, own>> /\ Of(r).kind = "finish" /\ r.call \in DOMAIN calls
  BY DEF FinishRun, client, worker, Typed, TypeOK
<1>5. requests' = (requests \ {r}) \cup
         {[call |-> r.call, attempt |-> r.attempt, written |-> r.written + 1, row |-> 0]}
  BY DEF FinishRun, Committed
<1>6. \A q : Made(q)' <=> Made(q)
  BY <1>4 DEF Made, Of
<1>7. \A q \in requests' : Made(q) => q \in requests
  BY <1>4, <1>5 DEF Made, Of
<1>8. (\A i : Named(i)' <=> Named(i)) /\ (Open' <=> Open)
  BY <1>4 DEF Named, Open, Last
<1>9. /\ \A q \in requests' : Made(q)' => q.row # own' /\ ~Named(q.row)'
      /\ \A p, q \in requests' : Made(p)' /\ Made(q)' /\ p.row = q.row => p = q
      /\ Open' => ~Named(own)'
      /\ \A c, d \in DOMAIN calls' :
           calls'[c].kind = "finish" /\ calls'[d].kind = "finish" /\ calls'[c].run = calls'[d].run => c = d
  BY <1>4, <1>6, <1>7, <1>8 DEF RunsApart
<1>10. calls[r.call].kind = "finish" /\ calls[r.call].run = n /\ calls[r.call].size = size /\ Named(n)
  BY <1>1, <1>2, <1>4 DEF Of, Named
<1>11. /\ DOMAIN runs' = DOMAIN runs /\ runs'[n] = closed
       /\ \A i \in DOMAIN runs : i # n => runs'[i] = runs[i]
  BY <1>3
<1>12. ASSUME NEW i \in DOMAIN runs'
       PROVE  IF runs'[i].status = "running" THEN runs'[i].found = 0
              ELSE \E c \in DOMAIN calls' :
                      calls'[c].kind = "finish" /\ calls'[c].run = i /\ runs'[i].found = calls'[c].size
  <2>1. CASE i = n
    <3>1. runs'[i].status # "running" /\ runs'[i].found = size
      BY <1>11, <2>1
    <3> QED
      BY <1>4, <1>10, <2>1, <3>1
  <2>2. CASE i # n
    BY <1>4, <1>11, <2>2 DEF RunsApart
  <2> QED
    BY <2>1, <2>2
<1>13. runs'[n] # runs[n] => runs[n].status = "running"
  <2> SUFFICES ASSUME runs[n].status # "running" PROVE runs[n] = closed
    BY <1>11
  <2> DEFINE R == [status : {"running", "closed"}, found : Nat]
  <2>1. runs[n] \in R
    <3>1. runs \in Seq(R) /\ n \in DOMAIN runs
      BY <1>3
    <3> HIDE DEF R
    <3> QED
      BY <3>1
  <2>2. runs[n].found = size
    BY <1>3, <1>4, <1>10 DEF RunsApart
  <2> QED
    BY <2>1, <2>2
<1> QED
  BY <1>9, <1>10, <1>11, <1>12, <1>13 DEF RunsApart

LEMMA ApartInit == Init => RunsApart
BY DEF Init, RunsApart, Open

LEMMA ApartStep == Typed /\ RunsApart /\ [Next]_vars => RunsApart'
<1> SUFFICES ASSUME Typed, RunsApart, [Next]_vars PROVE RunsApart'
  OBVIOUS
<1>1. CASE UNCHANGED vars
  BY <1>1 DEF vars, backend, client, worker, RunsApart, Named, Made, Of, Open, Last
<1>2. ASSUME NEW r \in requests, Handle(r) PROVE RunsApart'
  BY <1>2, ApartStoring, ApartAnswer, ApartCreate, ApartFinish DEF Handle
<1> QED
  BY <1>1, <1>2, ApartWorker, ApartFailing, ApartFlushed DEF Next, Work

\* A run's row changes once, when a request of its own run closes it: requests that
\* come late or again change nothing, and rows left by a repeated create stay.
THEOREM RunsClosedOnce == Spec => ClosedOnce
<1>1. ASSUME Typed, RunsApart, [Next]_vars
      PROVE  [\A i \in DOMAIN runs : runs'[i] # runs[i] =>
                /\ runs[i].status = "running"
                /\ \E c \in DOMAIN calls : calls[c].kind = "finish" /\ calls[c].run = i]_vars
  <2>1. ASSUME NEW r \in requests, FinishRun(r)
        PROVE  \A i \in DOMAIN runs : runs'[i] # runs[i] => runs[i].status = "running" /\ Named(i)
    BY <1>1, <2>1, ApartFinish
  <2>2. ASSUME NEW r \in requests, CreateRun(r)
        PROVE  \A i \in DOMAIN runs : runs'[i] = runs[i]
    BY <1>1, <2>2 DEF CreateRun, Typed, TypeOK
  <2>3. \/ UNCHANGED runs
        \/ \E r \in requests : CreateRun(r) \/ FinishRun(r)
    BY <1>1 DEF Next, Work, Handle, vars, backend, StartRun, Created, SearchNothing, Search, Saved,
          SearchDone, Flushed, Finished, Send, TimeOut, Crash, StoreResult, StoreToolCalls, Answer, Break
  <2> QED
    BY <2>1, <2>2, <2>3 DEF Named
<1>2. Spec => [](Typed /\ RunsApart)
  BY AlwaysTyped, ApartInit, ApartStep, PTL DEF Spec
<1> QED
  BY <1>1, <1>2, PTL DEF Spec, ClosedOnce
-------------------------------------------------------------------------------
(* The tool calls of a run are stored before it is closed.                 *)

\* A flush that was carried out has left a whole copy; only the last call is pending; and
\* the flush of a run comes before the call that closes it.
Flushes ==
    /\ \A c \in DOMAIN calls :
          calls[c].kind = "telemetry" /\ done[c] > 0 => \E n \in 1..MaxRetries : Copy(c, n)
    /\ \A c \in DOMAIN calls : c # Len(calls) => calls[c].outcome # "pending"
    /\ \A c, d \in DOMAIN calls :
          calls[c].kind = "telemetry" /\ calls[d].kind = "finish" /\ calls[c].run = calls[d].run => c < d

\* A call begins when none is under way, and a flush before its run is closed.
LEMMA Begun ==
    ASSUME Typed, RunsApart, [Next]_vars, Len(calls') # Len(calls)
    PROVE  \E kind \in Kinds, size \in Nat :
              ~Calling /\ Begin(kind, size) /\ (kind = "telemetry" => ~Named(own))
<1>1. ASSUME NEW o \in {"returned", "raised"}, EndsAs(o) PROVE FALSE
  BY <1>1, EndingOne DEF EndsAs, Ends, Typed
<1>2. CASE StartRun
  BY <1>2 DEF StartRun, Resting, Kinds
<1>3. CASE Search
  <2>1. PICK n \in 1..MaxResults : Begin("results", n)
    BY <1>3 DEF Search
  <2>2. n \in Nat
    OBVIOUS
  <2> QED
    BY <1>3, <2>1, <2>2 DEF Search, At, Kinds
<1>4. CASE SearchDone
  <2>1. PICK pages \in 0..PageCalls :
          IF buffer + pages > 0 THEN Begin("telemetry", buffer + pages) ELSE NoCall
    BY <1>4 DEF SearchDone
  <2>2. buffer + pages \in Nat
    BY DEF Typed, TypeOK
  <2>3. ~Calling /\ ~Named(own)
    BY <1>4 DEF SearchDone, At, RunsApart, Open
  <2>4. Begin("telemetry", buffer + pages)
    BY <2>1 DEF NoCall, client
  <2> QED
    BY <2>2, <2>3, <2>4 DEF Kinds
<1>5. CASE Flushed
  BY <1>5 DEF Flushed, At, Kinds, Typed, TypeOK
<1>6. ASSUME NEW r \in requests, Handle(r) \/ Break(r) PROVE FALSE
  <2>1. CASE Performs(r)
    BY <2>1 DEF Performs
  <2>2. CASE Answer(r) \/ Break(r)
    <3>1. Settles
      BY <2>2, Replying DEF Answer, Break, Typed
    <3> QED
      BY <3>1, Settling DEF Typed
  <2>3. CASE CreateRun(r) \/ StoreResult(r) \/ StoreToolCalls(r) \/ FinishRun(r)
    BY <2>3 DEF CreateRun, StoreResult, StoreToolCalls, FinishRun, client
  <2> QED
    BY <1>6, <2>1, <2>2, <2>3 DEF Handle
<1>7. CASE TimeOut \/ Crash
  <2>1. UNCHANGED calls \/ Ends("raised")
    BY <1>7 DEF TimeOut, Crash, Ends, client
  <2> QED
    BY <2>1, EndingOne DEF Ends, Typed
<1>8. CASE Created \/ SearchNothing \/ Saved \/ Finished \/ Send \/ UNCHANGED vars
  BY <1>8 DEF Created, SearchNothing, Saved, Finished, Send, vars, client
<1> QED
  BY <1>2, <1>3, <1>4, <1>5, <1>6, <1>7, <1>8 DEF Next, Work

\* A flush is carried out by storing all its tool calls.
LEMMA FlushCarriedOut ==
    ASSUME Typed, [Next]_vars, NEW c \in DOMAIN calls, calls[c].kind = "telemetry", done'[c] # done[c]
    PROVE  \E r \in requests : r.call = c /\ StoreToolCalls(r)
<1>1. DOMAIN calls = 1..Len(calls) /\ done \in [DOMAIN calls -> Nat]
  BY DEF Typed, TypeOK
<1>2. ASSUME NEW kind \in Kinds, NEW size \in Nat, Begin(kind, size) PROVE FALSE
  BY <1>1, <1>2, Beginning DEF Typed
<1>3. ASSUME NEW r \in requests, NEW row \in Nat, Committed(r, row)
      PROVE  r.call = c
  BY <1>1, <1>3 DEF Committed, Typed, TypeOK
<1>4. PICK r \in requests : Performs(r)
  BY <1>2, StepKinds DEF Rests, Begins, EndsAs, Sends
<1>5. \E p \in requests : CreateRun(p) \/ StoreResult(p) \/ StoreToolCalls(p) \/ FinishRun(p)
  <2>1. ~StartRun /\ ~Search /\ ~Flushed
    <3>1. found \in Nat /\ 1 \in Nat /\ (1..MaxResults) \subseteq Nat
      BY DEF Typed, TypeOK
    <3>2. ~StartRun
      BY <1>2, <3>1 DEF StartRun, Kinds
    <3>3. ~Flushed
      BY <1>2, <3>1 DEF Flushed, Kinds
    <3>4. ~Search
      BY <1>2, <3>1 DEF Search, Kinds
    <3> QED
      BY <3>2, <3>3, <3>4
  <2>2. ASSUME SearchDone PROVE FALSE
    <3>1. PICK pages \in 0..PageCalls :
            IF buffer + pages > 0 THEN Begin("telemetry", buffer + pages) ELSE NoCall
      BY <2>2 DEF SearchDone
    <3>2. buffer + pages \in Nat
      BY DEF Typed, TypeOK
    <3> QED
      BY <1>2, <3>1, <3>2 DEF Kinds, NoCall
  <2> QED
    BY <2>1, <2>2 DEF Next, Work, Handle, vars, Created, SearchNothing, Saved, Finished, Send, TimeOut,
       Crash, Answer, Break
<1>6. PICK p \in requests : CreateRun(p) \/ StoreResult(p) \/ StoreToolCalls(p) \/ FinishRun(p)
  BY <1>5
<1>7. \E row \in Nat : Committed(p, row)
  <2>1. Len(runs) + 1 \in Nat /\ 0 \in Nat
    BY DEF Typed, TypeOK
  <2> QED
    BY <1>6, <2>1 DEF CreateRun, StoreResult, StoreToolCalls, FinishRun
<1>8. p.call = c
  BY <1>3, <1>7
<1> QED
  BY <1>6, <1>8 DEF CreateRun, StoreResult, FinishRun, Of

LEMMA FlushesStep == ASSUME Typed, RunsApart, Flushes, [Next]_vars PROVE Flushes'
<1>1. Grown /\ DOMAIN calls = 1..Len(calls) /\ DOMAIN calls' = 1..Len(calls') /\ Len(calls) \in Nat
  BY StepGrows, OldCalls DEF Typed, TypeOK
<1>2. rows \subseteq rows'
  BY RowsOnlyStored DEF StoreResult, StoreToolCalls
<1>3. ASSUME NEW c \in DOMAIN calls, calls[c].kind = "telemetry", done'[c] > 0
      PROVE  \E n \in 1..MaxRetries : Copy(c, n)'
  <2>1. calls'[c].size = calls[c].size
    BY <1>1 DEF Grown
  <2>2. CASE done'[c] = done[c]
    <3>1. PICK n \in 1..MaxRetries : Copy(c, n)
      BY <1>3, <2>2 DEF Flushes
    <3> QED
      BY <1>2, <2>1, <3>1 DEF Copy
  <2>3. CASE done'[c] # done[c]
    <3>1. PICK r \in requests : r.call = c /\ StoreToolCalls(r)
      BY <1>3, <2>3, FlushCarriedOut
    <3>2. r.attempt \in 1..MaxRetries
      BY DEF Typed, TypeOK
    <3>3. \A rank \in 1..calls[c].size : [call |-> c, attempt |-> r.attempt, rank |-> rank] \in rows'
      BY <3>1 DEF StoreToolCalls, Row, Of
    <3> QED
      BY <2>1, <3>2, <3>3 DEF Copy
  <2> QED
    BY <2>2, <2>3
<1>4. CASE Len(calls') # Len(calls)
  <2>1. PICK kind \in Kinds, size \in Nat :
           ~Calling /\ Begin(kind, size) /\ (kind = "telemetry" => ~Named(own))
    BY <1>4, Begun
  <2>2. /\ Len(calls') = Len(calls) + 1
        /\ \A i \in 1..Len(calls) : calls'[i] = calls[i]
        /\ calls'[Len(calls')] = [kind |-> kind, run |-> own, size |-> size, outcome |-> "pending"]
        /\ done'[Len(calls')] = 0
    BY <2>1, Beginning DEF Typed
  <2>3. \A c \in 1..Len(calls) : calls[c].outcome # "pending"
    BY <1>1, <2>1 DEF Flushes, Calling
  <2>4. \A c \in DOMAIN calls' : c \in DOMAIN calls \/ c = Len(calls')
    BY <1>1, <2>2
  <2>5. \A c \in DOMAIN calls' :
           calls'[c].kind = "telemetry" /\ done'[c] > 0 => \E n \in 1..MaxRetries : Copy(c, n)'
    BY <1>1, <1>3, <2>2, <2>4
  <2>6. \A c \in DOMAIN calls' : c # Len(calls') => calls'[c].outcome # "pending"
    BY <1>1, <2>2, <2>3, <2>4
  <2>7. ASSUME NEW c \in DOMAIN calls', NEW d \in DOMAIN calls', calls'[c].kind = "telemetry",
               calls'[d].kind = "finish", calls'[c].run = calls'[d].run
        PROVE  c < d
    <3>1. CASE c \in DOMAIN calls /\ d \in DOMAIN calls
      BY <1>1, <2>2, <2>7, <3>1 DEF Flushes
    <3>2. CASE c \in DOMAIN calls /\ d = Len(calls')
      BY <1>1, <2>2, <3>2
    <3>3. CASE c = Len(calls')
      <4>1. kind = "telemetry" /\ calls'[c].run = own
        BY <2>2, <2>7, <3>3
      <4>2. d \in DOMAIN calls /\ calls[d].kind = "finish" /\ calls[d].run = own
        <5>1. d # Len(calls')
          BY <2>7, <3>3
        <5> QED
          BY <1>1, <2>2, <2>4, <2>7, <4>1, <5>1
      <4> QED
        BY <2>1, <4>1, <4>2 DEF Named
    <3> QED
      BY <2>4, <3>1, <3>2, <3>3
  <2> QED
    BY <2>5, <2>6, <2>7 DEF Flushes
<1>5. CASE Len(calls') = Len(calls)
  <2>1. \A c \in DOMAIN calls' : c # Len(calls') => calls'[c].outcome # "pending"
    <3>1. CASE UNCHANGED calls
      BY <3>1 DEF Flushes
    <3>2. ASSUME NEW o \in {"returned", "raised"}, EndsAs(o)
          PROVE  \A c \in DOMAIN calls' : c # Len(calls') => calls'[c].outcome # "pending"
      <4>1. \A i \in 1..Len(calls) : i # Len(calls) => calls'[i] = calls[i]
        BY <3>2, EndingOne DEF EndsAs, Ends, Typed
      <4> QED
        BY <1>1, <1>5, <4>1 DEF Flushes
    <3>3. CASE Begins
      <4>1. Len(calls') = Len(calls) + 1
        BY <3>3, Beginning DEF Begins, Typed
      <4> QED
        BY <1>1, <1>5, <4>1
    <3> QED
      BY <3>1, <3>2, <3>3, StepKinds DEF Rests, Sends, Performs
  <2>2. \A c \in DOMAIN calls' : calls'[c].kind = calls[c].kind /\ calls'[c].run = calls[c].run
    BY <1>1, <1>5 DEF Grown
  <2>3. DOMAIN calls' = DOMAIN calls
    BY <1>1, <1>5
  <2>4. \A c \in DOMAIN calls' :
           calls'[c].kind = "telemetry" /\ done'[c] > 0 => \E n \in 1..MaxRetries : Copy(c, n)'
    BY <1>3, <2>2, <2>3
  <2>5. \A c, d \in DOMAIN calls' :
           calls'[c].kind = "telemetry" /\ calls'[d].kind = "finish" /\ calls'[c].run = calls'[d].run => c < d
    BY <2>2, <2>3 DEF Flushes
  <2> QED
    BY <2>1, <2>4, <2>5 DEF Flushes
<1> QED
  BY <1>4, <1>5

\* The tool calls of a run are lost only if the worker was told so: a flush that returned
\* has stored them whole, and a run is closed only after its flush.
THEOREM ToolCallsStored == Spec => []TelemetryStored
<1>1. Typed /\ Accounted /\ RunsApart /\ Flushes => TelemetryStored
  <2> SUFFICES ASSUME Typed, Accounted, RunsApart, Flushes, NEW c \in DOMAIN calls,
                      calls[c].kind = "telemetry"
               PROVE  /\ calls[c].outcome = "returned" => \E n \in 1..MaxRetries : Copy(c, n)
                      /\ runs[calls[c].run].status = "closed" => calls[c].outcome # "pending"
    BY DEF TelemetryStored
  <2>1. calls[c].outcome = "returned" => \E n \in 1..MaxRetries : Copy(c, n)
    BY DEF Accounted, Flushes
  <2>2. ASSUME runs[calls[c].run].status = "closed", calls[c].outcome = "pending"
        PROVE  FALSE
    <3>1. calls[c].run \in DOMAIN runs
      BY DEF Typed, TypeOK
    <3>2. PICK d \in DOMAIN calls : calls[d].kind = "finish" /\ calls[d].run = calls[c].run
      BY <2>2, <3>1 DEF RunsApart
    <3>3. c < d /\ c = Len(calls)
      BY <2>2, <3>2 DEF Flushes
    <3> QED
      BY <3>2, <3>3 DEF Typed, TypeOK
  <2> QED
    BY <2>1, <2>2
<1>2. Init => Flushes
  BY DEF Init, Flushes
<1> QED
  BY <1>1, <1>2, FlushesStep, AlwaysTyped, AlwaysAccounted, ApartInit, ApartStep, PTL DEF Spec
-------------------------------------------------------------------------------
(* What a closed run reports is stored.                                    *)

\* The results of the worker's run but those of the call it is at.
Before == {p \in Stored(own) : p[1] # Len(calls)}

\* Results are counted when the call has returned, and a call returns when all of
\* them are stored; what is counted is what a call to finish says.
Backed ==
    /\ IsFiniteSet(rows)
    /\ \A r \in requests : Of(r).kind = "results" => \A k \in 1..r.written : Row(r, k) \in rows
    /\ \A c \in DOMAIN calls :
          calls[c].kind = "results" /\ calls[c].outcome = "returned" =>
              \A k \in 1..calls[c].size : \E s \in rows : s.call = c /\ s.rank = k
    /\ step \in {"search", "flush"} => found <= Cardinality(Stored(own))
    /\ step = "save" => found <= Cardinality(Before)
    /\ \A c \in DOMAIN calls :
          calls[c].kind = "finish" => calls[c].size <= Cardinality(Stored(calls[c].run))
    /\ ReportedAreStored

LEMMA StoredFinite ==
    ASSUME IsFiniteSet(rows), NEW i
    PROVE  IsFiniteSet(Stored(i)) /\ Cardinality(Stored(i)) \in Nat
<1> DEFINE Of_i == {s \in rows : Of(s).kind = "results" /\ Of(s).run = i}
           f == [r \in Of_i |-> <<r.call, r.rank>>]
<1>1. IsFiniteSet(Of_i)
  BY FS_Subset
<1>2. f \in Surjection(Of_i, Stored(i))
  BY DEF Surjection, Stored
<1>3. IsFiniteSet(Stored(i))
  BY <1>1, <1>2, FS_Surjection
<1> QED
  BY <1>3, FS_CardinalityType

LEMMA RowsFinite ==
    ASSUME Typed, IsFiniteSet(rows), [Next]_vars
    PROVE  IsFiniteSet(rows') /\ rows \subseteq rows'
<1>1. ASSUME NEW r \in requests, StoreResult(r)
      PROVE  IsFiniteSet(rows') /\ rows \subseteq rows'
  BY <1>1, FS_AddElement DEF StoreResult
<1>2. ASSUME NEW r \in requests, StoreToolCalls(r)
      PROVE  IsFiniteSet(rows') /\ rows \subseteq rows'
  <2> DEFINE T == {Row(r, rank) : rank \in 1..Of(r).size}
             f == [rank \in 1..Of(r).size |-> Row(r, rank)]
  <2>1. Of(r).size \in Nat
    <3>1. Of(r) \in Call
      BY DEF Typed, TypeOK, Of
    <3> QED
      BY <3>1 DEF Call
  <2>2. IsFiniteSet(1..Of(r).size)
    BY <2>1, FS_Interval
  <2>3. f \in Surjection(1..Of(r).size, T)
    BY DEF Surjection
  <2>4. IsFiniteSet(T)
    BY <2>2, <2>3, FS_Surjection
  <2> QED
    BY <1>2, <2>4, FS_Union DEF StoreToolCalls
<1> QED
  BY <1>1, <1>2, RowsOnlyStored

LEMMA StoredGrows ==
    ASSUME Typed, Grown, IsFiniteSet(rows), IsFiniteSet(rows'), rows \subseteq rows', NEW i
    PROVE  /\ Stored(i) \subseteq Stored(i)'
           /\ Cardinality(Stored(i)) \in Nat /\ Cardinality(Stored(i)') \in Nat
           /\ Cardinality(Stored(i)) <= Cardinality(Stored(i)')
           /\ IsFiniteSet(Stored(i)) /\ IsFiniteSet(Stored(i)')
<1>1. \A s \in rows : s.call \in DOMAIN calls
  BY DEF Typed, TypeOK
<1>2. Stored(i) \subseteq Stored(i)'
  BY <1>1, OldCalls DEF Stored, Of
<1>3. IsFiniteSet(Stored(i)) /\ Cardinality(Stored(i)) \in Nat
  BY StoredFinite
<1>4. IsFiniteSet(Stored(i)')
  <2> DEFINE Of_i == {s \in rows' : Of(s)'.kind = "results" /\ Of(s)'.run = i}
             f == [r \in Of_i |-> <<r.call, r.rank>>]
  <2>1. IsFiniteSet(Of_i)
    BY FS_Subset
  <2>2. f \in Surjection(Of_i, Stored(i)')
    BY DEF Surjection, Stored
  <2> QED
    BY <2>1, <2>2, FS_Surjection
<1> QED
  BY <1>2, <1>3, <1>4, FS_Subset, FS_CardinalityType

\* Where the worker goes on counting, only these four steps concern its count.
LEMMA CountingKept ==
    ASSUME Typed, [Next]_vars, ~Created, ~Saved, ~Search, ~SearchDone,
           step' \in {"search", "save", "flush"}
    PROVE  step' = step /\ own' = own /\ found' = found /\ Len(calls') = Len(calls)
<1>1. ~StartRun /\ ~Flushed /\ ~Finished /\ ~Crash
  BY DEF StartRun, Flushed, Finished, Crash
<1>2. CASE SearchNothing \/ Send
  BY <1>2 DEF SearchNothing, Send, client, worker
<1>3. CASE UNCHANGED vars
  BY <1>3 DEF vars, worker, client
<1>4. CASE TimeOut
  <2>1. Settles
    BY <1>4 DEF TimeOut, Settles, Ends, Ending
  <2> QED
    BY <1>4, <2>1, Settling DEF TimeOut, worker, Typed
<1>5. ASSUME NEW r \in requests, CreateRun(r) \/ StoreResult(r) \/ StoreToolCalls(r) \/ FinishRun(r)
      PROVE  step' = step /\ own' = own /\ found' = found /\ Len(calls') = Len(calls)
  BY <1>5 DEF CreateRun, StoreResult, StoreToolCalls, FinishRun, client, worker
<1>6. ASSUME NEW r \in requests, Break(r)
      PROVE  step' = step /\ own' = own /\ found' = found /\ Len(calls') = Len(calls)
  <2>1. Settles
    BY <1>6, Replying DEF Break, Typed
  <2> QED
    BY <1>6, <2>1, Settling DEF Break, worker, Typed
<1>7. ASSUME NEW r \in requests, Answer(r)
      PROVE  step' = step /\ own' = own /\ found' = found /\ Len(calls') = Len(calls)
  <2>1. Settles
    BY <1>7, Replying DEF Answer, Typed
  <2>2. step' = step /\ found' = found
    BY <1>7 DEF Answer
  <2>3. ~(Of(r).kind = "create" /\ Hears(r))
    BY <2>2 DEF Typed, StepKnown, Hears, Of, Last
  <2> QED
    BY <1>7, <2>1, <2>2, <2>3, Settling DEF Answer, Typed
<1> QED
  BY <1>1, <1>2, <1>3, <1>4, <1>5, <1>6, <1>7 DEF Next, Work, Handle

\* All results of a call that returned are stored, and none of them is in Before.
LEMMA SavedCounts ==
    ASSUME Typed, Backed, Saved
    PROVE  found' <= Cardinality(Stored(own))
<1> DEFINE n == Len(calls)
           T == {n} \X (1..Last.size)
<1>1. /\ step = "save" /\ n \in DOMAIN calls /\ Last = calls[n] /\ Last \in Call
      /\ Last.kind = "results" /\ Last.run = own
  BY DEF Saved, At, Typed, TypeOK, StepKnown, Last
<1>2. Last.size \in Nat /\ found \in Nat /\ IsFiniteSet(rows)
  BY <1>1 DEF Call, Typed, TypeOK, Backed
<1>3. IsFiniteSet(Stored(own)) /\ Cardinality(Stored(own)) \in Nat
  BY <1>2, StoredFinite
<1>4. /\ IsFiniteSet(Before) /\ Cardinality(Before) \in Nat
      /\ Cardinality(Before) <= Cardinality(Stored(own))
  BY <1>3, FS_Subset, FS_CardinalityType DEF Before
<1>5. found <= Cardinality(Before)
  BY <1>1 DEF Backed
<1>6. CASE Last.outcome # "returned"
  <2>1. found' = found
    BY <1>6 DEF Saved
  <2> QED
    BY <1>2, <1>3, <1>4, <1>5, <2>1
<1>7. CASE Last.outcome = "returned"
  <2>1. found' = found + Last.size
    BY <1>7 DEF Saved
  <2>2. \A k \in 1..Last.size : \E s \in rows : s.call = n /\ s.rank = k
    BY <1>1, <1>7 DEF Backed
  <2>3. T \subseteq Stored(own)
    <3> SUFFICES ASSUME NEW k \in 1..Last.size PROVE <<n, k>> \in Stored(own)
      OBVIOUS
    <3>1. PICK s \in rows : s.call = n /\ s.rank = k
      BY <2>2
    <3>2. Of(s).kind = "results" /\ Of(s).run = own
      BY <1>1, <3>1 DEF Of
    <3> QED
      BY <3>1, <3>2 DEF Stored
  <2>4. IsFiniteSet({n}) /\ Cardinality({n}) = 1
    BY FS_Singleton
  <2>5. IsFiniteSet(1..Last.size) /\ Cardinality(1..Last.size) = Last.size
    BY <1>2, FS_Interval
  <2>6. IsFiniteSet(T) /\ Cardinality(T) = Last.size
    <3> DEFINE A == {n}
               B == 1..Last.size
    <3>1. IsFiniteSet(A) /\ IsFiniteSet(B) /\ Cardinality(A) = 1 /\ Cardinality(B) = Last.size
      BY <2>4, <2>5
    <3>2. IsFiniteSet(A \X B) /\ Cardinality(A \X B) = Cardinality(A) * Cardinality(B)
      <4> HIDE DEF A, B
      <4> QED
        BY <3>1, FS_Product
    <3> QED
      BY <1>2, <3>1, <3>2
  <2>7. Before \cap T = {}
    BY DEF Before
  <2>8. Cardinality(Before \cup T) = Cardinality(Before) + Last.size
    <3>1. Cardinality(Before \cap T) = 0
      BY <2>7, FS_EmptySet
    <3>2. Cardinality(Before \cup T) = Cardinality(Before) + Cardinality(T) - Cardinality(Before \cap T)
      <4> HIDE DEF T
      <4> QED
        BY <1>4, <2>6, FS_Union
    <3> QED
      BY <1>2, <1>4, <2>6, <3>1, <3>2
  <2>9. Cardinality(Before \cup T) <= Cardinality(Stored(own))
    BY <1>3, <2>3, FS_Subset DEF Before
  <2> QED
    BY <1>2, <1>3, <1>4, <1>5, <2>1, <2>8, <2>9
<1> QED
  BY <1>6, <1>7

\* Requests have stored what they have committed.
LEMMA CommittedStored ==
    ASSUME Typed, Backed, [Next]_vars
    PROVE  \A q \in requests' : Of(q)'.kind = "results" => \A k \in 1..q.written : Row(q, k) \in rows'
<1>1. Grown /\ rows \subseteq rows'
  BY StepGrows, RowsFinite DEF Backed
<1> SUFFICES ASSUME NEW q \in requests', Of(q)'.kind = "results", NEW k \in 1..q.written
             PROVE  Row(q, k) \in rows'
  OBVIOUS
<1>2. CASE q \in requests
  <2>1. Of(q).kind = "results"
    BY <1>1, <1>2, OldCalls DEF Of
  <2> QED
    BY <1>1, <1>2, <2>1 DEF Backed
<1>3. CASE q \notin requests
  <2>1. CASE Sends
    BY <1>3, <2>1 DEF Sends
  <2>2. ASSUME NEW r \in requests, NEW row \in Nat, Committed(r, row), Handling(r), calls' = calls
        PROVE  Row(q, k) \in rows'
    <3>1. q = [call |-> r.call, attempt |-> r.attempt, written |-> r.written + 1, row |-> row]
      BY <1>3, <2>2 DEF Committed
    <3>2. Of(r).kind = "results" /\ r.written \in Nat
      BY <2>2, <3>1 DEF Of, Typed, TypeOK
    <3>3. Row(q, k) = Row(r, k) /\ k \in 1..(r.written + 1)
      BY <3>1 DEF Row
    <3>4. CASE k \in 1..r.written
      BY <1>1, <3>2, <3>3, <3>4 DEF Backed
    <3>5. CASE k = r.written + 1
      <4>1. \E p \in requests : StoreResult(p) /\ requests' = (requests \ {p}) \cup
               {[call |-> p.call, attempt |-> p.attempt, written |-> p.written + 1, row |-> 0]}
        <5>1. ASSUME NEW p \in requests, CreateRun(p) \/ StoreToolCalls(p) \/ FinishRun(p)
              PROVE  FALSE
          <6>1. PICK n \in Nat : Committed(p, n)
            BY <5>1 DEF CreateRun, StoreToolCalls, FinishRun, Typed, TypeOK
          <6>2. q = [call |-> p.call, attempt |-> p.attempt, written |-> p.written + 1, row |-> n]
            BY <1>3, <6>1 DEF Committed
          <6> QED
            BY <3>1, <3>2, <5>1, <6>2 DEF CreateRun, StoreToolCalls, FinishRun, Of
        <5>2. q \in requests' \ requests
          BY <1>3
        <5>3. \E p \in requests : CreateRun(p) \/ StoreResult(p) \/ StoreToolCalls(p) \/ FinishRun(p)
          <6>1. ~Send
            BY <3>1, <3>2, <5>2 DEF Send
          <6> QED
            BY <5>2, <6>1 DEF Next, Work, Handle, vars, backend, StartRun, Created, SearchNothing, Search,
               Saved, SearchDone, Flushed, Finished, TimeOut, Abandoned, Late, Crash, Answer, Break
        <5>4. PICK p \in requests : StoreResult(p)
          BY <5>1, <5>3
        <5> QED
          BY <5>4 DEF StoreResult, Committed
      <4>2. PICK p \in requests : StoreResult(p) /\ requests' = (requests \ {p}) \cup
               {[call |-> p.call, attempt |-> p.attempt, written |-> p.written + 1, row |-> 0]}
        BY <4>1
      <4>3. q = [call |-> p.call, attempt |-> p.attempt, written |-> p.written + 1, row |-> 0]
        BY <1>3, <4>2
      <4>4. Row(q, k) = Row(p, p.written + 1)
        BY <3>1, <3>5, <4>3 DEF Row
      <4> QED
        BY <4>2, <4>4 DEF StoreResult
    <3> QED
      BY <3>2, <3>3, <3>4, <3>5
  <2>3. ASSUME NEW o \in {"returned", "raised"}, EndsAs(o) PROVE FALSE
    BY <1>3, <2>3 DEF EndsAs
  <2>4. ASSUME NEW r \in requests, Performs(r) PROVE Row(q, k) \in rows'
    BY <2>2, <2>4 DEF Performs
  <2> QED
    BY <1>3, <2>1, <2>3, <2>4, StepKinds DEF Rests, Begins
<1> QED
  BY <1>2, <1>3

\* A call that returned has stored all its results.
LEMMA ReturnedStored ==
    ASSUME Typed, Backed, [Next]_vars
    PROVE  \A c \in DOMAIN calls' :
              calls'[c].kind = "results" /\ calls'[c].outcome = "returned" =>
                  \A k \in 1..calls'[c].size : \E s \in rows' : s.call = c /\ s.rank = k
<1>1. Grown /\ rows \subseteq rows'
  BY StepGrows, RowsFinite DEF Backed
<1> SUFFICES ASSUME NEW c \in DOMAIN calls', calls'[c].kind = "results", calls'[c].outcome = "returned",
                    NEW k \in 1..calls'[c].size
             PROVE  \E s \in rows' : s.call = c /\ s.rank = k
  OBVIOUS
<1>2. CASE c \in DOMAIN calls /\ calls[c].outcome = "returned"
  BY <1>1, <1>2, OldCalls DEF Backed
<1>3. CASE c \in DOMAIN calls /\ calls[c].outcome # "returned"
  <2>1. CASE Begins
    BY <1>3, <2>1, OldCalls, Beginning DEF Begins, Typed
  <2>2. ASSUME NEW o \in {"returned", "raised"}, EndsAs(o) PROVE \E s \in rows' : s.call = c /\ s.rank = k
    <3>1. c = Len(calls) /\ o = "returned"
      BY <1>1, <1>3, <2>2, OldCalls, EndingOne DEF EndsAs, Ends, Typed
    <3>2. PICK r \in requests : Hears(r) /\ r.written = Commits(Of(r))
      BY <2>2, <3>1 DEF EndsAs
    <3>3. r.call = c /\ Of(r).kind = "results" /\ r.written = calls'[c].size
      BY <1>1, <1>3, <3>1, <3>2, OldCalls DEF Hears, Of, Commits
    <3>4. Row(r, k) \in rows /\ Row(r, k).call = c /\ Row(r, k).rank = k
      BY <3>3 DEF Backed, Row
    <3> QED
      BY <1>1, <3>4
  <2> QED
    BY <1>3, <2>1, <2>2, StepKinds DEF Rests, Sends, Performs
<1>4. CASE c \notin DOMAIN calls
  <2>1. CASE Begins
    <3>1. Len(calls') = Len(calls) + 1 /\ calls'[Len(calls')].outcome = "pending"
      <4>1. PICK kind \in Kinds, size \in Nat : Begin(kind, size)
        BY <2>1 DEF Begins
      <4>2. /\ Len(calls') = Len(calls) + 1
            /\ calls'[Len(calls')] = [kind |-> kind, run |-> own, size |-> size, outcome |-> "pending"]
        BY <4>1, Beginning DEF Typed
      <4> QED
        BY <4>2
    <3> QED
      BY <1>1, <1>4, <3>1, OldCalls DEF Typed, TypeOK
  <2>2. ASSUME NEW o \in {"returned", "raised"}, EndsAs(o) PROVE FALSE
    BY <1>1, <1>4, <2>2, OldCalls, EndingOne DEF EndsAs, Ends, Typed
  <2> QED
    BY <1>4, <2>1, <2>2, StepKinds DEF Rests, Sends, Performs
<1> QED
  BY <1>2, <1>3, <1>4

\* What the worker has counted is stored.
LEMMA CountedStored ==
    ASSUME Typed, Backed, [Next]_vars
    PROVE  /\ step' \in {"search", "flush"} => found' <= Cardinality(Stored(own)')
           /\ step' = "save" => found' <= Cardinality(Before')
<1>1. Grown /\ rows \subseteq rows' /\ IsFiniteSet(rows) /\ IsFiniteSet(rows')
  BY StepGrows, RowsFinite DEF Backed
<1>2. \A i : /\ Stored(i) \subseteq Stored(i)'
              /\ Cardinality(Stored(i)) \in Nat /\ Cardinality(Stored(i)') \in Nat
              /\ Cardinality(Stored(i)) <= Cardinality(Stored(i)')
              /\ IsFiniteSet(Stored(i)) /\ IsFiniteSet(Stored(i)')
  BY <1>1, StoredGrows
<1>3. found \in Nat
  BY DEF Typed, TypeOK
<1>4. \A i : UNCHANGED own /\ i = own => Stored(own)' = Stored(i)'
  BY DEF Stored
<1>5. CASE Created
  <2>1. found' = 0 /\ own' = own /\ step' # "save"
    BY <1>5 DEF Created, At, Typed, StepKnown
  <2>2. Cardinality(Stored(own)') \in Nat
    BY <1>2, <1>4, <2>1
  <2> QED
    BY <2>1, <2>2
<1>6. CASE Saved
  <2>1. found' <= Cardinality(Stored(own)) /\ own' = own /\ step' # "save" /\ found' \in Nat
    BY <1>6, SavedCounts, BetweenTyped DEF Saved, Typed, TypeOK
  <2>2. Cardinality(Stored(own)) <= Cardinality(Stored(own)') /\ Cardinality(Stored(own)') \in Nat
        /\ Cardinality(Stored(own)) \in Nat
    BY <1>2, <1>4, <2>1
  <2> QED
    BY <2>1, <2>2
<1>7. CASE Search
  <2>1. own' = own /\ found' = found /\ step' = "save" /\ found <= Cardinality(Stored(own))
    BY <1>7 DEF Search, At, Backed
  <2>2. Len(calls') = Len(calls) + 1
    <3>1. PICK n \in 1..MaxResults : Begin("results", n)
      BY <1>7 DEF Search
    <3>2. n \in Nat
      OBVIOUS
    <3> QED
      BY <3>1, <3>2, Beginning DEF Typed, Kinds
  <2>3. \A p \in Stored(own) : p[1] # Len(calls')
    BY <1>1, <2>2, OldCalls DEF Stored, Typed, TypeOK
  <2>4. Stored(own) \subseteq Stored(own)' /\ IsFiniteSet(Stored(own)') /\ Cardinality(Stored(own)) \in Nat
    BY <1>2, <1>4, <2>1
  <2>5. Stored(own) \subseteq Before' /\ IsFiniteSet(Before')
    BY <2>3, <2>4, FS_Subset DEF Before
  <2>6. Cardinality(Stored(own)) <= Cardinality(Before') /\ Cardinality(Before') \in Nat
    BY <2>5, FS_Subset, FS_CardinalityType
  <2> QED
    BY <1>3, <2>1, <2>4, <2>6
<1>8. CASE SearchDone
  <2>1. own' = own /\ found' = found /\ step' = "flush" /\ found <= Cardinality(Stored(own))
    BY <1>8 DEF SearchDone, At, Backed
  <2>2. Cardinality(Stored(own)) <= Cardinality(Stored(own)') /\ Cardinality(Stored(own)') \in Nat
        /\ Cardinality(Stored(own)) \in Nat
    BY <1>2, <1>4, <2>1
  <2> QED
    BY <1>3, <2>1, <2>2
<1>9. CASE /\ ~Created /\ ~Saved /\ ~Search /\ ~SearchDone
           /\ step' \in {"search", "save", "flush"}
  <2>1. step' = step /\ own' = own /\ found' = found /\ Len(calls') = Len(calls)
    BY <1>9, CountingKept
  <2>2. /\ Stored(own) \subseteq Stored(own)' /\ IsFiniteSet(Stored(own)') /\ Cardinality(Stored(own)) \in Nat
        /\ Cardinality(Stored(own)) <= Cardinality(Stored(own)') /\ Cardinality(Stored(own)') \in Nat
    BY <1>2, <1>4, <2>1
  <2>3. Before \subseteq Before' /\ IsFiniteSet(Before')
    BY <2>1, <2>2, FS_Subset DEF Before
  <2>4. /\ Cardinality(Before) <= Cardinality(Before') /\ Cardinality(Before) \in Nat
        /\ Cardinality(Before') \in Nat
    BY <2>3, FS_Subset, FS_CardinalityType
  <2>5. /\ step \in {"search", "flush"} => found <= Cardinality(Stored(own))
        /\ step = "save" => found <= Cardinality(Before)
    BY DEF Backed
  <2> QED
    BY <1>3, <2>1, <2>2, <2>4, <2>5
<1> QED
  BY <1>5, <1>6, <1>7, <1>8, <1>9

\* Calls to finish are begun by the worker's last step and no other.
LEMMA OnlyFlushed ==
    ASSUME Typed, [Next]_vars, ~Flushed
    PROVE  \A c \in DOMAIN calls' : calls'[c].kind = "finish" => c \in DOMAIN calls
<1>1. CASE calls' = calls
  BY <1>1
<1>2. CASE StartRun
  BY <1>2, NoFinish DEF StartRun, Kinds
<1>3. CASE Search
  <2>1. PICK n \in 1..MaxResults : Begin("results", n)
    BY <1>3 DEF Search
  <2>2. n \in Nat
    OBVIOUS
  <2> QED
    BY <2>1, <2>2, NoFinish DEF Kinds
<1>4. CASE SearchDone
  <2>1. PICK pages \in 0..PageCalls :
          IF buffer + pages > 0 THEN Begin("telemetry", buffer + pages) ELSE NoCall
    BY <1>4 DEF SearchDone
  <2>2. buffer + pages \in Nat
    BY DEF Typed, TypeOK
  <2> QED
    BY <2>1, <2>2, NoFinish DEF Kinds, NoCall, client
<1>5. CASE Settles
  BY <1>5, Settling, OldCalls DEF Typed
<1>6. ASSUME TimeOut \/ Crash PROVE Settles \/ calls' = calls
  BY <1>6 DEF TimeOut, Crash, Settles, Ends, Ending, client
<1>7. ASSUME NEW r \in requests, Handle(r) \/ Break(r) PROVE Settles \/ calls' = calls
  <2>1. CASE Answer(r) \/ Break(r)
    BY <2>1, Replying DEF Answer, Break, Typed
  <2>2. CASE CreateRun(r) \/ StoreResult(r) \/ StoreToolCalls(r) \/ FinishRun(r)
    BY <2>2 DEF CreateRun, StoreResult, StoreToolCalls, FinishRun, client
  <2> QED
    BY <1>7, <2>1, <2>2 DEF Handle
<1>8. ASSUME Created \/ SearchNothing \/ Saved \/ Finished \/ Send \/ UNCHANGED vars PROVE calls' = calls
  BY <1>8 DEF Created, SearchNothing, Saved, Finished, Send, vars, client
<1> QED
  BY <1>1, <1>2, <1>3, <1>4, <1>5, <1>6, <1>7, <1>8 DEF Next, Work

LEMMA FinishCounted ==
    ASSUME Typed, Backed, [Next]_vars, NEW c \in DOMAIN calls', calls'[c].kind = "finish",
           NEW i, i = calls'[c].run
    PROVE  calls'[c].size <= Cardinality(Stored(i)')
<1>1. Grown /\ rows \subseteq rows' /\ IsFiniteSet(rows) /\ IsFiniteSet(rows')
  BY StepGrows, RowsFinite DEF Backed
<1>2. /\ Cardinality(Stored(i)) \in Nat /\ Cardinality(Stored(i)') \in Nat
      /\ Cardinality(Stored(i)) <= Cardinality(Stored(i)')
  BY <1>1, StoredGrows
<1>3. CASE c \in DOMAIN calls
  <2>1. calls[c].kind = "finish" /\ calls[c].run = i /\ calls'[c].size = calls[c].size
    BY <1>1, <1>3, OldCalls
  <2>2. calls[c].size \in Nat
    <3>1. calls[c] \in Call
      BY <1>3 DEF Typed, TypeOK
    <3> QED
      BY <3>1 DEF Call
  <2>3. calls[c].size <= Cardinality(Stored(i))
    BY <1>3, <2>1 DEF Backed
  <2> QED
    BY <1>2, <2>1, <2>2, <2>3
<1>4. CASE c \notin DOMAIN calls
  <2>1. Flushed
    BY <1>4, OnlyFlushed
  <2>2. /\ Len(calls') = Len(calls) + 1
        /\ calls'[Len(calls')] = [kind |-> "finish", run |-> own, size |-> found, outcome |-> "pending"]
    BY <2>1, Beginning DEF Flushed, Typed, TypeOK, Kinds
  <2>3. c = Len(calls')
    <3>1. DOMAIN calls = 1..Len(calls) /\ DOMAIN calls' = 1..Len(calls')
      BY <1>1, OldCalls
    <3>2. Len(calls) \in Nat /\ Len(calls') = Len(calls) + 1
      BY <2>2 DEF Typed, TypeOK
    <3> QED
      BY <1>4, <3>1, <3>2
  <2>4. i = own /\ calls'[c].size = found /\ found \in Nat
    BY <2>2, <2>3 DEF Typed, TypeOK
  <2>5. found <= Cardinality(Stored(i))
    BY <2>1, <2>4 DEF Flushed, At, Backed
  <2> QED
    BY <1>2, <2>4, <2>5
<1> QED
  BY <1>3, <1>4

LEMMA ReportedStep == ASSUME Typed, Backed, [Next]_vars PROVE ReportedAreStored'
<1>1. Grown /\ rows \subseteq rows' /\ IsFiniteSet(rows) /\ IsFiniteSet(rows')
  BY StepGrows, RowsFinite DEF Backed
<1>2. \A i : /\ Cardinality(Stored(i)) \in Nat /\ Cardinality(Stored(i)') \in Nat
              /\ Cardinality(Stored(i)) <= Cardinality(Stored(i)')
  BY <1>1, StoredGrows
<1>3. runs \in Seq([status : {"running", "closed"}, found : Nat])
  BY DEF Typed, TypeOK
<1> SUFFICES ASSUME NEW i \in DOMAIN runs' PROVE runs'[i].found <= Cardinality(Stored(i)')
  BY DEF ReportedAreStored
<1>4. ASSUME i \in DOMAIN runs, runs'[i] = runs[i] PROVE runs'[i].found <= Cardinality(Stored(i)')
  <2>1. runs[i].found <= Cardinality(Stored(i)) /\ runs[i].found \in Nat
    <3> DEFINE R == [status : {"running", "closed"}, found : Nat]
    <3>1. runs \in Seq(R)
      BY <1>3
    <3>2. runs[i] \in R
      <4> HIDE DEF R
      <4> QED
        BY <1>4, <3>1
    <3>3. runs[i].found \in Nat
      BY <3>2
    <3> QED
      BY <1>4, <3>3 DEF Backed, ReportedAreStored
  <2> QED
    BY <1>2, <1>4, <2>1
<1>5. ASSUME NEW r \in requests, CreateRun(r) PROVE runs'[i].found <= Cardinality(Stored(i)')
  <2>1. CASE i \in DOMAIN runs
    BY <1>3, <1>4, <1>5, <2>1 DEF CreateRun
  <2>2. CASE i \notin DOMAIN runs
    <3>1. runs'[i].found = 0
      BY <1>3, <1>5, <2>2 DEF CreateRun
    <3> QED
      BY <1>2, <3>1
  <2> QED
    BY <2>1, <2>2
<1>6. ASSUME NEW r \in requests, FinishRun(r) PROVE runs'[i].found <= Cardinality(Stored(i)')
  <2>1. PICK n, size : n = Of(r).run /\ size = Of(r).size
    OBVIOUS
  <2>2. n \in DOMAIN runs /\ size \in Nat /\ runs' = [runs EXCEPT ![n] = [status |-> "closed", found |-> size]]
    BY <1>6, <2>1, Finishing DEF Typed
  <2>3. CASE i # n
    BY <1>4, <2>2, <2>3
  <2>4. CASE i = n
    <3>1. runs'[i].found = size
      BY <2>2, <2>4
    <3>2. calls[r.call].kind = "finish" /\ r.call \in DOMAIN calls /\ calls[r.call].run = i /\ calls[r.call].size = size
      BY <1>6, <2>1, <2>4 DEF FinishRun, Of, Typed, TypeOK
    <3>3. size <= Cardinality(Stored(i))
      BY <3>2 DEF Backed
    <3> QED
      BY <1>2, <2>2, <3>1, <3>3
  <2> QED
    BY <2>3, <2>4
<1>7. \/ UNCHANGED runs
      \/ \E r \in requests : CreateRun(r) \/ FinishRun(r)
  BY DEF Next, Work, Handle, vars, backend, StartRun, Created, SearchNothing, Search, Saved,
     SearchDone, Flushed, Finished, Send, TimeOut, Crash, StoreResult, StoreToolCalls, Answer, Break
<1> QED
  BY <1>4, <1>5, <1>6, <1>7

LEMMA BackedStep == Typed /\ Backed /\ [Next]_vars => Backed'
<1> SUFFICES ASSUME Typed, Backed, [Next]_vars PROVE Backed'
  OBVIOUS
<1>1. IsFiniteSet(rows')
  BY RowsFinite DEF Backed
<1>2. \A c \in DOMAIN calls' : calls'[c].kind = "finish" => calls'[c].size <= Cardinality(Stored(calls[c].run)')
  <2> SUFFICES ASSUME NEW c \in DOMAIN calls', calls'[c].kind = "finish"
               PROVE  calls'[c].size <= Cardinality(Stored(calls[c].run)')
    OBVIOUS
  <2>1. PICK i : i = calls'[c].run
    OBVIOUS
  <2>2. calls'[c].size <= Cardinality(Stored(i)')
    BY <2>1, FinishCounted
  <2>3. Stored(calls[c].run)' = Stored(i)'
    BY <2>1 DEF Stored
  <2> QED
    BY <2>2, <2>3
<1> QED
  BY <1>1, <1>2, CommittedStored, ReturnedStored, CountedStored, ReportedStep DEF Backed, Row, Of

LEMMA BackedInit == Init => Backed
BY FS_EmptySet DEF Init, Backed, ReportedAreStored

\* What a closed run reports as found is stored, each result at least once, although
\* results are stored one by one in requests that fail half-way or come late.
THEOREM ReportsStored == Spec => []ReportedAreStored
<1>1. Spec => []Backed
  BY AlwaysTyped, BackedInit, BackedStep, PTL DEF Spec
<1> QED
  BY <1>1, PTL DEF Backed
===============================================================================
