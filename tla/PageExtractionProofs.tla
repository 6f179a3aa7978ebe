-------------------------- MODULE PageExtractionProofs --------------------------
(***************************************************************************)
(* The extraction phase, for any number of pages, names and retries.       *)
(***************************************************************************)
EXTENDS PageExtraction, FiniteSetTheorems, SequenceTheorems, WellFoundedInduction, TLAPS

(***************************************************************************)
(* The database, and what deliveries of a candidate add to it.             *)
(***************************************************************************)

EventRow == [doc : Doc, name : Name \cup {NoName}]
CallRow == [doc : Doc, call : LLMCall]
Decision == [doc : Doc, value : {"candidate_created", "irrelevant"}, event : Nat, call : Nat]
Database == [events : Seq(EventRow), calls : Seq(CallRow), decisions : Seq(Decision)]

\* t goes on where s ends, with rows from a set.
Grown(s, t, Rows) ==
    /\ Len(s) <= Len(t)
    /\ \A i \in 1..Len(s) : t[i] = s[i]
    /\ \A i \in 1..Len(t) : i > Len(s) => t[i] \in Rows

Stored(e) == e.name # NoName \/ e.claims

\* A decision on candidate e of document doc, made with the calls llm: it names the
\* last of them if the candidate is stored, else the first, or no call.
Cites(d, dec, doc, e, llm) ==
    /\ dec.doc = doc /\ dec.event <= Len(d.events)
    /\ dec.value = IF Stored(e) THEN "candidate_created" ELSE "irrelevant"
    /\ dec.call # 0 =>
          /\ llm # <<>> /\ dec.call <= Len(d.calls)
          /\ d.calls[dec.call] =
                [doc |-> doc, call |-> llm[IF Stored(e) THEN Len(llm) ELSE 1]]

NewEvents(doc, e) == IF Stored(e) THEN {[doc |-> doc, name |-> e.name]} ELSE {}
NewCalls(doc, llm) == {[doc |-> doc, call |-> llm[j]] : j \in 1..Len(llm)}
NewDecisions(d, doc, e, llm) == {dec \in Decision : Cites(d, dec, doc, e, llm)}

\* What the deliveries of candidate e of document doc with the calls llm have made
\* of database c.
Delivered(c, d, doc, e, llm) ==
    /\ d \in Database
    /\ Grown(c.events, d.events, NewEvents(doc, e))
    /\ Grown(c.calls, d.calls, NewCalls(doc, llm))
    /\ Grown(c.decisions, d.decisions, NewDecisions(d, doc, e, llm))

\* A non-empty set of natural numbers has a least element.
LEMMA Least == ASSUME NEW T, T \subseteq Nat, T # {} PROVE \E n \in T : \A m \in T : n <= m
<1> DEFINE R == OpToRel(<, Nat)
<1>1. IsWellFoundedOn(R, Nat)
  BY NatLessThanWellFounded
<1>2. \A m, n \in Nat : <<m, n>> \in R <=> m < n
  BY DEF OpToRel
<1> HIDE DEF R
<1>3. PICK n \in T : \A m \in T : ~(<<m, n>> \in R)
  BY <1>1, WFMin
<1>4. \A m \in T : m \in Nat /\ n \in Nat /\ ~(m < n)
  BY <1>2, <1>3
<1> QED
  BY <1>3, <1>4

\* The deliveries of a candidate, as the sequence of databases after each of them.
Deliveries(f, n, e, llm) ==
    /\ DOMAIN f = 0..n
    /\ f[0] = db
    /\ \A k \in 0..n : k > 0 => f[k] = Transaction(f[k - 1], page, e, llm)

RunsTo(f, n, e, llm) ==
    f = [k \in 0..n |-> IF k = 0 THEN db ELSE Transaction(f[k - 1], page, e, llm)]

LEMMA DeliveriesExist == \A n \in Nat : \A e, llm : \E f : RunsTo(f, n, e, llm)
<1> TAKE n \in Nat
<1> TAKE e, llm
<1> DEFINE T == {m \in Nat : ~ \E f : RunsTo(f, m, e, llm)}
<1> SUFFICES ASSUME T # {} PROVE FALSE
  OBVIOUS
<1>1. PICK m \in T : \A k \in T : m <= k
  BY Least
<1>2. m # 0
  <2>1. PICK f : f = [k \in 0..0 |-> db]
    OBVIOUS
  <2>2. f = [k \in 0..0 |-> IF k = 0 THEN db ELSE Transaction(f[k - 1], page, e, llm)]
    BY <2>1
  <2> QED
    BY <2>2, <1>1 DEF RunsTo
<1>3. m - 1 \in Nat /\ m \in Nat /\ m - 1 \notin T
  <2>1. m \in Nat
    BY <1>1
  <2> HIDE DEF T
  <2> QED
    BY <1>1, <1>2, <2>1
<1>4. PICK f : RunsTo(f, m - 1, e, llm)
  BY <1>3
<1>5. PICK g : g = [k \in 0..m |-> IF k = m THEN Transaction(f[m - 1], page, e, llm) ELSE f[k]]
  OBVIOUS
<1>6. \A k \in 0..m : g[k] = IF k = 0 THEN db ELSE Transaction(g[k - 1], page, e, llm)
  <2> TAKE k \in 0..m
  <2> HIDE DEF T
  <2>1. CASE k = 0
    BY <2>1, <1>2, <1>3, <1>4, <1>5 DEF RunsTo
  <2>2. CASE k = m
    BY <2>2, <1>2, <1>3, <1>5
  <2>3. CASE k # 0 /\ k # m
    BY <2>3, <1>3, <1>4, <1>5 DEF RunsTo
  <2> QED
    BY <2>1, <2>2, <2>3
<1>7. RunsTo(g, m, e, llm)
  BY <1>5, <1>6, <1>3 DEF RunsTo
<1> QED
  BY <1>1, <1>7

\* The deliveries that After runs through.
LEMMA AfterRuns ==
    ASSUME NEW n \in Nat, NEW e, NEW llm
    PROVE  \E f : Deliveries(f, n, e, llm) /\ After(n, e, llm) = f[n]
<1>1. PICK f : f = CHOOSE g : RunsTo(g, n, e, llm)
  OBVIOUS
<1>2. RunsTo(f, n, e, llm)
  BY <1>1, DeliveriesExist
<1>3. After(n, e, llm) = f[n]
  BY <1>1 DEF After, RunsTo
<1>4. Deliveries(f, n, e, llm)
  BY <1>2 DEF Deliveries, RunsTo
<1> QED
  BY <1>3, <1>4
-------------------------------------------------------------------------------
(* A delivery adds rows, and only of the candidate and its calls.          *)

LEMMA GrowsBy ==
    ASSUME NEW S, NEW c \in Seq(S), NEW s \in Seq(S), NEW t \in Seq(S), NEW Rows,
           Grown(c, s, Rows), Grown(s, t, Rows)
    PROVE  Grown(c, t, Rows)
<1>1. Len(c) \in Nat /\ Len(s) \in Nat /\ Len(t) \in Nat
  BY LenProperties
<1>2. \A i \in 1..Len(t) : i > Len(c) => t[i] \in Rows
  <2> TAKE i \in 1..Len(t)
  <2>1. CASE i <= Len(s)
    BY <1>1, <2>1 DEF Grown
  <2>2. CASE i > Len(s)
    BY <1>1, <2>2 DEF Grown
  <2> QED
    BY <1>1, <2>1, <2>2
<1> QED
  BY <1>1, <1>2 DEF Grown

LEMMA GrowsByOne ==
    ASSUME NEW S, NEW s \in Seq(S), NEW x \in S
    PROVE  /\ Append(s, x) \in Seq(S) /\ Grown(s, Append(s, x), {x})
           /\ Len(Append(s, x)) = Len(s) + 1 /\ Append(s, x)[Len(s) + 1] = x
<1>1. Len(s) \in Nat
  BY LenProperties
<1>2. /\ Append(s, x) \in Seq(S) /\ Len(Append(s, x)) = Len(s) + 1
      /\ \A i \in 1..Len(s) : Append(s, x)[i] = s[i]
      /\ Append(s, x)[Len(s) + 1] = x
  BY AppendProperties
<1> HIDE DEF Grown
<1>3. \A i \in 1..Len(s) + 1 : i > Len(s) => i = Len(s) + 1
  BY <1>1
<1> QED
  BY <1>1, <1>2, <1>3 DEF Grown

LEMMA GrowsNot == ASSUME NEW S, NEW s \in Seq(S), NEW Rows PROVE Grown(s, s, Rows)
<1>1. Len(s) \in Nat
  BY LenProperties
<1> QED
  BY <1>1 DEF Grown

\* The rows of the calls that a candidate of document doc is sent with.
CallRows(doc, llm) == [i \in DOMAIN llm |-> [doc |-> doc, call |-> llm[i]]]

LEMMA RowsOfCalls ==
    ASSUME NEW doc \in Doc, NEW llm \in Seq(LLMCall)
    PROVE  /\ CallRows(doc, llm) \in Seq(CallRow)
           /\ Len(CallRows(doc, llm)) = Len(llm)
           /\ \A i \in 1..Len(llm) : CallRows(doc, llm)[i] = [doc |-> doc, call |-> llm[i]]
<1>1. Len(llm) \in Nat /\ DOMAIN llm = 1..Len(llm) /\ \A i \in 1..Len(llm) : llm[i] \in LLMCall
  BY LenProperties, ElementOfSeq
<1>2. [i \in 1..Len(llm) |-> [doc |-> doc, call |-> llm[i]]] \in [1..Len(llm) -> CallRow]
  BY <1>1 DEF CallRow
<1>3. [i \in 1..Len(llm) |-> [doc |-> doc, call |-> llm[i]]] \in Seq(CallRow)
  BY <1>1, <1>2, SeqDef
<1> QED
  BY <1>1, <1>2, <1>3 DEF CallRows

\* t is s with the rows of the calls of a document added.
HasAdded(s, t, doc, llm) ==
    /\ t \in Seq(CallRow) /\ Len(t) = Len(s) + Len(llm)
    /\ \A i \in 1..Len(s) : t[i] = s[i]
    /\ \A j \in 1..Len(llm) : t[Len(s) + j] = [doc |-> doc, call |-> llm[j]]

LEMMA CallsAdded ==
    \A s \in Seq(CallRow), doc \in Doc, llm \in Seq(LLMCall) : \A t :
        t = s \o CallRows(doc, llm) => HasAdded(s, t, doc, llm)
<1> TAKE s \in Seq(CallRow), doc \in Doc, llm \in Seq(LLMCall)
<1> TAKE t
<1> HAVE t = s \o CallRows(doc, llm)
<1>1. PICK rows : rows = CallRows(doc, llm)
  OBVIOUS
<1>2. /\ rows \in Seq(CallRow) /\ Len(rows) = Len(llm)
      /\ \A i \in 1..Len(llm) : rows[i] = [doc |-> doc, call |-> llm[i]]
  BY <1>1, RowsOfCalls
<1>3. Len(s) \in Nat /\ Len(llm) \in Nat
  BY LenProperties
<1>4. t = s \o rows
  BY <1>1
<1>5. /\ t \in Seq(CallRow) /\ Len(t) = Len(s) + Len(llm)
      /\ \A i \in 1..Len(s) + Len(llm) : t[i] = IF i <= Len(s) THEN s[i] ELSE rows[i - Len(s)]
  <2>1. rows \in Seq(CallRow)
    BY <1>2
  <2>2. /\ s \o rows \in Seq(CallRow) /\ Len(s \o rows) = Len(s) + Len(rows)
        /\ \A i \in 1..Len(s) + Len(rows) :
              (s \o rows)[i] = IF i <= Len(s) THEN s[i] ELSE rows[i - Len(s)]
    BY <2>1, ConcatProperties
  <2> QED
    BY <1>2, <1>4, <2>2
<1>6. \A i \in 1..Len(s) : t[i] = s[i]
  BY <1>3, <1>5
<1>7. \A j \in 1..Len(llm) : t[Len(s) + j] = [doc |-> doc, call |-> llm[j]]
  <2> TAKE j \in 1..Len(llm)
  <2>1. Len(s) + j \in 1..Len(s) + Len(llm) /\ ~(Len(s) + j <= Len(s)) /\ (Len(s) + j) - Len(s) = j
    BY <1>3
  <2>2. t[Len(s) + j] = rows[j]
    BY <1>5, <2>1
  <2> QED
    BY <1>2, <2>2
<1> QED
  BY <1>5, <1>6, <1>7 DEF HasAdded

LEMMA CallsGrow ==
    ASSUME NEW s \in Seq(CallRow), NEW doc \in Doc, NEW llm \in Seq(LLMCall),
           NEW t, t = s \o CallRows(doc, llm)
    PROVE  Grown(s, t, NewCalls(doc, llm))
<1>1. /\ t \in Seq(CallRow) /\ Len(t) = Len(s) + Len(llm)
      /\ \A i \in 1..Len(s) : t[i] = s[i]
      /\ \A j \in 1..Len(llm) : t[Len(s) + j] = [doc |-> doc, call |-> llm[j]]
  <2>1. HasAdded(s, t, doc, llm)
    BY CallsAdded
  <2> QED
    BY <2>1 DEF HasAdded
<1>2. Len(s) \in Nat /\ Len(llm) \in Nat
  BY LenProperties
<1>3. \A i \in 1..Len(t) : i > Len(s) => t[i] \in NewCalls(doc, llm)
  <2> TAKE i \in 1..Len(t)
  <2> HAVE i > Len(s)
  <2>1. PICK j : j = i - Len(s)
    OBVIOUS
  <2>2. j \in 1..Len(llm) /\ i = Len(s) + j
    BY <1>1, <1>2, <2>1
  <2> QED
    BY <1>1, <2>2 DEF NewCalls
<1> QED
  BY <1>1, <1>2, <1>3 DEF Grown

\* What a delivery that finds no row of the candidate makes of database d.
HasRecorded(d, t, doc, e, llm) ==
    /\ t \in Database
    /\ IF Stored(e) THEN t.events = Append(d.events, [doc |-> doc, name |-> e.name])
                    ELSE t.events = d.events
    /\ t.calls = d.calls \o CallRows(doc, llm)
    /\ \E dec \in Decision : t.decisions = Append(d.decisions, dec) /\ Cites(t, dec, doc, e, llm)

LEMMA TransactionAdds ==
    ASSUME NEW d \in Database, NEW doc \in Doc, NEW e \in Event, NEW llm \in Seq(LLMCall),
           ~(e.name # NoName /\ Recorded(d, doc, e.name)),
           NEW t, t = Transaction(d, doc, e, llm)
    PROVE  HasRecorded(d, t, doc, e, llm)
<1>1. PICK calls : calls = d.calls \o CallRows(doc, llm)
  OBVIOUS
<1>2. /\ calls \in Seq(CallRow) /\ Len(calls) = Len(d.calls) + Len(llm)
      /\ \A j \in 1..Len(llm) : calls[Len(d.calls) + j] = [doc |-> doc, call |-> llm[j]]
  <2>1. PICK s : s = d.calls
    OBVIOUS
  <2>2. s \in Seq(CallRow)
    BY <2>1 DEF Database
  <2>3. calls = s \o CallRows(doc, llm)
    BY <1>1, <2>1
  <2>4. /\ calls \in Seq(CallRow) /\ Len(calls) = Len(s) + Len(llm)
        /\ \A j \in 1..Len(llm) : calls[Len(s) + j] = [doc |-> doc, call |-> llm[j]]
    <3>1. HasAdded(s, calls, doc, llm)
      BY <2>2, <2>3, CallsAdded
    <3> QED
      BY <3>1 DEF HasAdded
  <2> QED
    BY <2>1, <2>4
<1>3. PICK rows : rows = IF Stored(e) THEN Append(d.events, [doc |-> doc, name |-> e.name]) ELSE d.events
  OBVIOUS
<1>4. /\ rows \in Seq(EventRow)
      /\ Len(rows) = IF Stored(e) THEN Len(d.events) + 1 ELSE Len(d.events)
  <2>1. d.events \in Seq(EventRow) /\ [doc |-> doc, name |-> e.name] \in EventRow
    BY DEF Database, EventRow, Event
  <2> QED
    BY <1>3, <2>1, GrowsByOne
<1>5. PICK dec : dec = [doc |-> doc,
                        value |-> IF Stored(e) THEN "candidate_created" ELSE "irrelevant",
                        event |-> IF Stored(e) THEN Len(d.events) + 1 ELSE 0,
                        call |-> IF llm = <<>> THEN 0
                                 ELSE IF Stored(e) THEN Len(calls) ELSE Len(d.calls) + 1]
  OBVIOUS
<1>6. /\ Len(d.calls) \in Nat /\ Len(d.events) \in Nat /\ Len(llm) \in Nat
      /\ llm # <<>> => Len(llm) > 0
      /\ d.decisions \in Seq(Decision)
  BY EmptySeq, LenProperties DEF Database
<1>7. dec \in Decision
  BY <1>2, <1>5, <1>6 DEF Decision
<1>8. t = [events |-> rows, calls |-> calls, decisions |-> Append(d.decisions, dec)]
  BY <1>1, <1>3, <1>5 DEF Transaction, Stored, CallRows
<1>9. Append(d.decisions, dec) \in Seq(Decision)
  BY <1>6, <1>7, AppendProperties
<1>10. t \in Database /\ t.events = rows /\ t.calls = calls /\ t.decisions = Append(d.decisions, dec)
  BY <1>2, <1>4, <1>8, <1>9 DEF Database
<1>11. Cites(t, dec, doc, e, llm)
  <2>1. /\ dec.doc = doc /\ dec.event <= Len(rows)
        /\ dec.value = IF Stored(e) THEN "candidate_created" ELSE "irrelevant"
    BY <1>4, <1>5, <1>6
  <2>2. ASSUME dec.call # 0
        PROVE  /\ llm # <<>> /\ dec.call <= Len(calls)
               /\ calls[dec.call] =
                     [doc |-> doc, call |-> llm[IF Stored(e) THEN Len(llm) ELSE 1]]
    <3>1. llm # <<>> /\ 1 \in 1..Len(llm) /\ Len(llm) \in 1..Len(llm)
      BY <1>5, <1>6, <2>2
    <3>2. CASE Stored(e)
      <4>1. dec.call = Len(d.calls) + Len(llm)
        BY <1>2, <1>5, <3>1, <3>2
      <4> QED
        BY <1>2, <1>6, <3>1, <3>2, <4>1
    <3>3. CASE ~Stored(e)
      <4>1. dec.call = Len(d.calls) + 1
        BY <1>5, <3>1, <3>3
      <4> QED
        BY <1>2, <1>6, <3>1, <3>3, <4>1
    <3> QED
      BY <3>2, <3>3
  <2> QED
    BY <1>10, <2>1, <2>2 DEF Cites
<1> QED
  BY <1>1, <1>3, <1>7, <1>10, <1>11 DEF HasRecorded

LEMMA CitesStays ==
    ASSUME NEW d \in Database, NEW t \in Database, NEW dec \in Decision, NEW doc, NEW e, NEW llm,
           Len(d.events) <= Len(t.events), Len(d.calls) <= Len(t.calls),
           \A i \in 1..Len(d.calls) : t.calls[i] = d.calls[i],
           Cites(d, dec, doc, e, llm)
    PROVE  Cites(t, dec, doc, e, llm)
<1>1. /\ Len(d.events) \in Nat /\ Len(t.events) \in Nat
      /\ Len(d.calls) \in Nat /\ Len(t.calls) \in Nat
  BY LenProperties DEF Database
<1>2. dec.event \in Nat /\ dec.call \in Nat
  BY DEF Decision
<1>3. /\ dec.doc = doc /\ dec.event <= Len(t.events)
      /\ dec.value = IF Stored(e) THEN "candidate_created" ELSE "irrelevant"
  BY <1>1, <1>2 DEF Cites
<1>4. ASSUME dec.call # 0 PROVE dec.call <= Len(t.calls) /\ t.calls[dec.call] = d.calls[dec.call]
  BY <1>1, <1>2, <1>4 DEF Cites
<1> QED
  BY <1>3, <1>4 DEF Cites

\* One more delivery, and it leaves the candidate stored if it can be stored at all.
LEMMA TransactionDelivers ==
    ASSUME NEW c \in Database, NEW d, NEW doc \in Doc, NEW e \in Event, NEW llm \in Seq(LLMCall),
           Delivered(c, d, doc, e, llm),
           NEW t, t = Transaction(d, doc, e, llm)
    PROVE  Delivered(c, t, doc, e, llm) /\ (Stored(e) => Recorded(t, doc, e.name))
<1>0. d \in Database
  BY DEF Delivered
<1>1. CASE e.name # NoName /\ Recorded(d, doc, e.name)
  <2>1. t = d
    BY <1>1 DEF Transaction
  <2> QED
    BY <1>1, <2>1
<1>2. CASE ~(e.name # NoName /\ Recorded(d, doc, e.name))
  <2>1. PICK row : row = [doc |-> doc, name |-> e.name]
    OBVIOUS
  <2>2. /\ t \in Database
        /\ IF Stored(e) THEN t.events = Append(d.events, row) ELSE t.events = d.events
        /\ t.calls = d.calls \o CallRows(doc, llm)
        /\ \E dec \in Decision : t.decisions = Append(d.decisions, dec) /\ Cites(t, dec, doc, e, llm)
    <3>1. HasRecorded(d, t, doc, e, llm)
      BY <1>0, <1>2, TransactionAdds
    <3> QED
      BY <2>1, <3>1 DEF HasRecorded
  <2>3. /\ d.events \in Seq(EventRow) /\ d.calls \in Seq(CallRow) /\ d.decisions \in Seq(Decision)
        /\ t.events \in Seq(EventRow) /\ t.calls \in Seq(CallRow) /\ t.decisions \in Seq(Decision)
        /\ c.events \in Seq(EventRow) /\ c.calls \in Seq(CallRow) /\ c.decisions \in Seq(Decision)
        /\ row \in EventRow
    BY <1>0, <2>1, <2>2 DEF Database, EventRow, Event
  <2>4. Grown(d.events, t.events, IF Stored(e) THEN {row} ELSE {})
    <3>1. CASE Stored(e)
      <4>1. PICK s, r : s = d.events /\ r = Append(s, row)
        OBVIOUS
      <4>2. s \in Seq(EventRow)
        BY <2>3, <4>1
      <4>3. Grown(s, r, {row})
        BY <2>3, <4>1, <4>2, GrowsByOne
      <4>4. t.events = r
        BY <2>2, <3>1, <4>1
      <4> QED
        BY <3>1, <4>1, <4>3, <4>4
    <3>2. CASE ~Stored(e)
      BY <2>2, <2>3, <3>2, GrowsNot
    <3> QED
      BY <3>1, <3>2
  <2>5. PICK made : made = NewCalls(doc, llm)
    OBVIOUS
  <2>6. Grown(d.calls, t.calls, made)
    <3>1. PICK s : s = d.calls
      OBVIOUS
    <3>2. PICK u : u = t.calls
      OBVIOUS
    <3> QED
      BY <2>2, <2>3, <2>5, <3>1, <3>2, CallsGrow
  <2>7. PICK decided : decided = NewDecisions(t, doc, e, llm)
    OBVIOUS
  <2>8. Grown(d.decisions, t.decisions, decided)
    <3>1. PICK dec \in Decision : t.decisions = Append(d.decisions, dec) /\ Cites(t, dec, doc, e, llm)
      BY <2>2
    <3>2. Grown(d.decisions, t.decisions, {dec}) /\ dec \in decided
      BY <2>3, <2>7, <3>1, GrowsByOne DEF NewDecisions
    <3> QED
      BY <3>2 DEF Grown
  <2>9. /\ Grown(c.events, d.events, IF Stored(e) THEN {row} ELSE {})
        /\ Grown(c.calls, d.calls, made)
    BY <2>1, <2>5 DEF Delivered, NewEvents
  <2>10. Grown(c.decisions, d.decisions, decided)
    <3>1. Grown(c.decisions, d.decisions, NewDecisions(d, doc, e, llm))
      BY DEF Delivered
    <3>2. \A dec \in Decision : Cites(d, dec, doc, e, llm) => Cites(t, dec, doc, e, llm)
      <4>1. /\ Len(d.events) <= Len(t.events) /\ Len(d.calls) <= Len(t.calls)
            /\ \A i \in 1..Len(d.calls) : t.calls[i] = d.calls[i]
        BY <2>4, <2>6 DEF Grown
      <4> QED
        BY <1>0, <2>2, <4>1, CitesStays
    <3> QED
      BY <2>7, <3>1, <3>2 DEF Grown, NewDecisions
  <2>11. /\ Grown(c.events, t.events, IF Stored(e) THEN {row} ELSE {})
         /\ Grown(c.calls, t.calls, made)
         /\ Grown(c.decisions, t.decisions, decided)
    BY <2>3, <2>4, <2>6, <2>8, <2>9, <2>10, GrowsBy
  <2>12. Delivered(c, t, doc, e, llm)
    BY <2>1, <2>2, <2>5, <2>7, <2>11 DEF Delivered, NewEvents
  <2>13. ASSUME Stored(e) PROVE Recorded(t, doc, e.name)
    <3>1. Len(t.events) = Len(d.events) + 1 /\ t.events[Len(d.events) + 1] = row
      BY <2>2, <2>3, <2>13, GrowsByOne
    <3>2. Len(d.events) + 1 \in DOMAIN t.events
      BY <2>3, <3>1, LenProperties
    <3> QED
      BY <2>1, <3>1, <3>2 DEF Recorded
  <2> QED
    BY <2>12, <2>13
<1> QED
  BY <1>1, <1>2

LEMMA AfterDelivers ==
    ASSUME db \in Database, page \in Doc, NEW e \in Event, NEW llm \in Seq(LLMCall), NEW n \in Nat
    PROVE  /\ Delivered(db, After(n, e, llm), page, e, llm)
           /\ n > 0 /\ Stored(e) => Recorded(After(n, e, llm), page, e.name)
<1>1. PICK f : Deliveries(f, n, e, llm) /\ After(n, e, llm) = f[n]
  BY AfterRuns
<1>2. Delivered(db, db, page, e, llm)
  <2>1. db.events \in Seq(EventRow) /\ db.calls \in Seq(CallRow) /\ db.decisions \in Seq(Decision)
    BY DEF Database
  <2> QED
    BY <2>1, GrowsNot DEF Delivered
<1> DEFINE Bad == {k \in 0..n : ~Delivered(db, f[k], page, e, llm)}
<1>3. ASSUME NEW k \in Bad, \A j \in Bad : k <= j PROVE FALSE
  <2>1. k # 0
    BY <1>1, <1>2, <1>3 DEF Deliveries
  <2>2. k - 1 \in 0..n /\ k \in 0..n /\ k > 0 /\ k - 1 \notin Bad
    BY <1>3, <2>1
  <2>3. Delivered(db, f[k - 1], page, e, llm)
    BY <2>2
  <2>4. PICK d, t : d = f[k - 1] /\ t = f[k]
    OBVIOUS
  <2>5. t = Transaction(d, page, e, llm)
    BY <1>1, <2>2, <2>4 DEF Deliveries
  <2>6. Delivered(db, t, page, e, llm)
    BY <2>3, <2>4, <2>5, TransactionDelivers
  <2> QED
    BY <1>3, <2>4, <2>6
<1>4. \A k \in 0..n : Delivered(db, f[k], page, e, llm)
  <2>1. Bad \subseteq Nat
    OBVIOUS
  <2> QED
    BY <1>3, <2>1, Least
<1>5. ASSUME n > 0, Stored(e) PROVE Recorded(f[n], page, e.name)
  <2>1. n - 1 \in 0..n /\ n \in 0..n
    BY <1>5
  <2>2. PICK d, t : d = f[n - 1] /\ t = f[n]
    OBVIOUS
  <2>3. t = Transaction(d, page, e, llm) /\ Delivered(db, d, page, e, llm)
    BY <1>1, <1>4, <1>5, <2>1, <2>2 DEF Deliveries
  <2> QED
    BY <1>5, <2>2, <2>3, TransactionDelivers
<1> QED
  BY <1>1, <1>4, <1>5
-------------------------------------------------------------------------------
(* The inductive invariant.                                                *)

ExtractionState ==
    [relevant : BOOLEAN \cup {Unset}, reason : {Unset, "text", "null"},
     count : {Unset, "single", "multi", "none"}, events : Seq(Event), calls : Seq(LLMCall)]

\* TypeOK, with the fields of the graph's state that it says nothing of.
Typed ==
    /\ todo \subseteq Doc /\ page \in Doc
    /\ node \in InGraph \cup {"next", "end", "save", "close", "crashed"}
    /\ node \in InGraph \cup {"end"} => page \in todo
    /\ graph \in ExtractionState
    /\ unsaved \in Seq(Event) /\ first \in BOOLEAN
    /\ db \in Database
    /\ sum \in [Counters -> Nat]
    /\ outcome \in {"completed", "partial", "failed"}
    /\ offered \in [Doc -> Seq(Event)]

\* Decisions point into the tables.
InRange ==
    \A i \in DOMAIN db.decisions :
        db.decisions[i].event <= Len(db.events) /\ db.decisions[i].call <= Len(db.calls)

Success(type) == [type |-> type, status |-> "success"]

\* The calls of a page that yields events: all of them succeeded.
Trusted(calls) ==
    \E type \in Extracting :
        calls = <<Success("classify_relevance"), Success("classify_event_count"), Success(type)>>

\* The calls that the graph has made, by the node to be run.
Path ==
    /\ node \in {"next", "classify_relevance"} => graph = Fresh
    /\ node = "classify_event_count" =>
          /\ graph.relevant = TRUE /\ graph.events = <<>>
          /\ graph.calls = <<Success("classify_relevance")>>
    /\ node \in {"extract_single_event", "extract_multi_event"} =>
          /\ graph.relevant = TRUE /\ graph.events = <<>>
          /\ graph.calls = <<Success("classify_relevance"), Success("classify_event_count")>>
    /\ node = "end" =>
          /\ graph.relevant \in BOOLEAN
          /\ graph.relevant = FALSE =>
                Len(graph.calls) = 1 /\ graph.calls[1].type = "classify_relevance"
          /\ graph.relevant = TRUE /\ graph.events # <<>> => Trusted(graph.calls)
    /\ node = "save" => Trusted(graph.calls)

\* What is stored is of documents that are done with, or of the one being saved,
\* whose calls have all succeeded.
DoneWith ==
    /\ \A i \in DOMAIN db.events : db.events[i].doc \notin todo
    /\ \A i \in DOMAIN db.calls : db.calls[i].doc \notin todo
    /\ node = "save" =>
          /\ page \notin todo
          /\ \A i \in DOMAIN db.calls : db.calls[i].doc = page => db.calls[i].call.status = "success"

\* As long as nothing has failed, a candidate that can be stored is, or is about to be.
NoneLost ==
    /\ sum["errors"] = 0 /\ node # "crashed" =>
          \A d \in Doc : \A k \in DOMAIN offered[d] : Stored(offered[d][k]) =>
              \/ Recorded(db, d, offered[d][k].name)
              \/ node = "save" /\ d = page /\ \E i \in DOMAIN unsaved : unsaved[i] = offered[d][k]
    /\ node = "close" /\ outcome = "completed" => sum["errors"] = 0

Inv == Typed /\ InRange /\ Path /\ DoneWith /\ NoneLost /\ DecisionsCiteTheirCall /\ OutageLeavesNothing
-------------------------------------------------------------------------------
(* What the deliveries of a candidate keep.                                *)

LEMMA RowsOf ==
    ASSUME NEW d \in Database
    PROVE  /\ Len(d.events) \in Nat /\ DOMAIN d.events = 1..Len(d.events)
           /\ Len(d.calls) \in Nat /\ DOMAIN d.calls = 1..Len(d.calls)
           /\ Len(d.decisions) \in Nat /\ DOMAIN d.decisions = 1..Len(d.decisions)
           /\ \A i \in 1..Len(d.events) : d.events[i] \in EventRow
           /\ \A i \in 1..Len(d.calls) : d.calls[i] \in CallRow
           /\ \A i \in 1..Len(d.decisions) : d.decisions[i] \in Decision
<1>1. d.events \in Seq(EventRow) /\ d.calls \in Seq(CallRow) /\ d.decisions \in Seq(Decision)
  BY DEF Database
<1> QED
  BY <1>1, LenProperties, ElementOfSeq

\* Rows stay, and new ones are from a set.
Keeps(s, t) == \A i \in DOMAIN s : i \in DOMAIN t /\ t[i] = s[i]
AddsOnly(s, t, Rows) == \A i \in DOMAIN t : (i \in DOMAIN s /\ t[i] = s[i]) \/ t[i] \in Rows

LEMMA GrownRows ==
    ASSUME NEW S, NEW s \in Seq(S), NEW t \in Seq(S), NEW Rows, Grown(s, t, Rows)
    PROVE  Keeps(s, t) /\ AddsOnly(s, t, Rows)
<1>1. Len(s) \in Nat /\ DOMAIN s = 1..Len(s) /\ Len(t) \in Nat /\ DOMAIN t = 1..Len(t)
  BY LenProperties
<1> QED
  BY <1>1 DEF Grown, Keeps, AddsOnly

LEMMA RowsAdded ==
    ASSUME NEW c \in Database, NEW d, NEW doc, NEW e, NEW llm, Delivered(c, d, doc, e, llm)
    PROVE  /\ d \in Database
           /\ Keeps(c.events, d.events) /\ Keeps(c.calls, d.calls) /\ Keeps(c.decisions, d.decisions)
           /\ AddsOnly(c.events, d.events, NewEvents(doc, e))
           /\ AddsOnly(c.calls, d.calls, NewCalls(doc, llm))
           /\ AddsOnly(c.decisions, d.decisions, NewDecisions(d, doc, e, llm))
<1>1. d \in Database
  BY DEF Delivered
<1>2. /\ c.events \in Seq(EventRow) /\ c.calls \in Seq(CallRow) /\ c.decisions \in Seq(Decision)
      /\ d.events \in Seq(EventRow) /\ d.calls \in Seq(CallRow) /\ d.decisions \in Seq(Decision)
  BY <1>1 DEF Database
<1>3. /\ Grown(c.events, d.events, NewEvents(doc, e))
      /\ Grown(c.calls, d.calls, NewCalls(doc, llm))
      /\ Grown(c.decisions, d.decisions, NewDecisions(d, doc, e, llm))
  BY DEF Delivered
<1> QED
  BY <1>1, <1>2, <1>3, GrownRows

LEMMA RecordedStays ==
    ASSUME NEW c \in Database, NEW d, NEW doc, NEW e, NEW llm, Delivered(c, d, doc, e, llm),
           NEW x, NEW name, Recorded(c, x, name)
    PROVE  Recorded(d, x, name)
<1>1. PICK i \in DOMAIN c.events : c.events[i] = [doc |-> x, name |-> name]
  BY DEF Recorded
<1>2. i \in DOMAIN d.events /\ d.events[i] = c.events[i]
  BY RowsAdded DEF Keeps
<1> QED
  BY <1>1, <1>2 DEF Recorded

\* The calls that a candidate is sent with are none, or such that a decision cites
\* the right one.
Citable(e, llm) ==
    llm # <<>> =>
        /\ llm[1].type = "classify_relevance"
        /\ Stored(e) => llm[Len(llm)].type \in Extracting /\ llm[Len(llm)].status = "success"

LEMMA DecisionsKept ==
    ASSUME db \in Database, InRange, DecisionsCiteTheirCall,
           NEW doc \in Doc, NEW e, NEW llm, Delivered(db, db', doc, e, llm), Citable(e, llm)
    PROVE  db' \in Database /\ InRange' /\ DecisionsCiteTheirCall'
<1>1. PICK c, d : c = db /\ d = db'
  OBVIOUS
<1>2. /\ c \in Database /\ Delivered(c, d, doc, e, llm)
      /\ \A i \in DOMAIN c.decisions :
            c.decisions[i].event <= Len(c.events) /\ c.decisions[i].call <= Len(c.calls)
      /\ \A i \in DOMAIN c.decisions :
            c.decisions[i].call # 0 =>
                /\ c.calls[c.decisions[i].call].doc = c.decisions[i].doc
                /\ IF c.decisions[i].value = "irrelevant"
                   THEN c.calls[c.decisions[i].call].call.type = "classify_relevance"
                   ELSE /\ c.calls[c.decisions[i].call].call.type \in Extracting
                        /\ c.calls[c.decisions[i].call].call.status = "success"
  BY <1>1 DEF InRange, DecisionsCiteTheirCall
<1>3. d \in Database
  BY <1>2, RowsAdded
<1>4. Len(c.events) <= Len(d.events) /\ Len(c.calls) <= Len(d.calls)
  BY <1>2 DEF Delivered, Grown
<1>5. ASSUME NEW i \in DOMAIN d.decisions
      PROVE  /\ d.decisions[i].event <= Len(d.events) /\ d.decisions[i].call <= Len(d.calls)
             /\ d.decisions[i].call # 0 =>
                  /\ d.calls[d.decisions[i].call].doc = d.decisions[i].doc
                  /\ IF d.decisions[i].value = "irrelevant"
                     THEN d.calls[d.decisions[i].call].call.type = "classify_relevance"
                     ELSE /\ d.calls[d.decisions[i].call].call.type \in Extracting
                          /\ d.calls[d.decisions[i].call].call.status = "success"
  <2>1. CASE i \in DOMAIN c.decisions /\ d.decisions[i] = c.decisions[i]
    <3>1. PICK dec : dec = c.decisions[i]
      OBVIOUS
    <3>2. dec \in Decision /\ dec.call \in Nat /\ dec.event \in Nat
      BY <1>2, <2>1, <3>1, RowsOf DEF Decision
    <3>3. dec.event <= Len(d.events) /\ dec.call <= Len(d.calls)
      BY <1>2, <1>3, <1>4, <2>1, <3>1, <3>2, RowsOf
    <3>4. ASSUME dec.call # 0 PROVE d.calls[dec.call] = c.calls[dec.call]
      <4>1. dec.call \in DOMAIN c.calls
        BY <1>2, <2>1, <3>1, <3>2, <3>4, RowsOf
      <4>2. Keeps(c.calls, d.calls)
        BY <1>2, RowsAdded
      <4> QED
        BY <4>1, <4>2 DEF Keeps
    <3> QED
      BY <1>2, <2>1, <3>1, <3>3, <3>4
  <2>2. CASE d.decisions[i] \in Decision /\ Cites(d, d.decisions[i], doc, e, llm)
    <3>1. PICK dec : dec = d.decisions[i]
      OBVIOUS
    <3>2. dec \in Decision /\ Cites(d, dec, doc, e, llm)
      BY <2>2, <3>1
    <3>3. /\ dec.doc = doc /\ dec.event <= Len(d.events)
          /\ dec.value = IF Stored(e) THEN "candidate_created" ELSE "irrelevant"
      BY <3>2 DEF Cites
    <3>4. dec.call <= Len(d.calls)
      BY <1>3, <3>2, RowsOf DEF Cites
    <3>5. ASSUME dec.call # 0
          PROVE  /\ d.calls[dec.call].doc = dec.doc
                 /\ IF dec.value = "irrelevant" THEN d.calls[dec.call].call.type = "classify_relevance"
                    ELSE /\ d.calls[dec.call].call.type \in Extracting
                         /\ d.calls[dec.call].call.status = "success"
      <4>1. /\ llm # <<>>
            /\ d.calls[dec.call] = [doc |-> doc, call |-> llm[IF Stored(e) THEN Len(llm) ELSE 1]]
        BY <3>2, <3>5 DEF Cites
      <4>2. /\ d.calls[dec.call].doc = doc
            /\ d.calls[dec.call].call = llm[IF Stored(e) THEN Len(llm) ELSE 1]
        BY <4>1
      <4>3. CASE Stored(e)
        BY <3>3, <4>1, <4>2, <4>3 DEF Citable
      <4>4. CASE ~Stored(e)
        BY <3>3, <4>1, <4>2, <4>4 DEF Citable
      <4> QED
        BY <4>3, <4>4
    <3> QED
      BY <3>1, <3>3, <3>4, <3>5
  <2>3. AddsOnly(c.decisions, d.decisions, NewDecisions(d, doc, e, llm))
    BY <1>2, RowsAdded
  <2> QED
    BY <2>1, <2>2, <2>3 DEF AddsOnly, NewDecisions
<1>6. InRange'
  BY <1>1, <1>5 DEF InRange
<1>7. DecisionsCiteTheirCall'
  BY <1>1, <1>5 DEF DecisionsCiteTheirCall
<1> QED
  BY <1>1, <1>3, <1>6, <1>7

\* The documents of the rows that deliveries leave behind.
LEMMA RowsOfPage ==
    ASSUME NEW c \in Database, NEW d, NEW doc, NEW e, NEW llm, Delivered(c, d, doc, e, llm)
    PROVE  /\ \A i \in DOMAIN d.events :
                 \/ i \in DOMAIN c.events /\ d.events[i] = c.events[i]
                 \/ Stored(e) /\ d.events[i].doc = doc
           /\ \A i \in DOMAIN d.calls :
                 \/ i \in DOMAIN c.calls /\ d.calls[i] = c.calls[i]
                 \/ d.calls[i].doc = doc /\ \E j \in 1..Len(llm) : d.calls[i].call = llm[j]
<1>1. AddsOnly(c.events, d.events, NewEvents(doc, e)) /\ AddsOnly(c.calls, d.calls, NewCalls(doc, llm))
  BY RowsAdded
<1>2. \A row \in NewEvents(doc, e) : Stored(e) /\ row.doc = doc
  BY DEF NewEvents
<1>3. \A row \in NewCalls(doc, llm) : row.doc = doc /\ \E j \in 1..Len(llm) : row.call = llm[j]
  BY DEF NewCalls
<1> QED
  BY <1>1, <1>2, <1>3 DEF AddsOnly

\* The calls of a page whose candidate can be stored have succeeded.
LEMMA OutageKept ==
    ASSUME db \in Database, DoneWith, OutageLeavesNothing, todo' \subseteq todo, page \notin todo',
           NEW e, NEW llm, Delivered(db, db', page, e, llm),
           \/ ~Stored(e) /\ page \in todo
           \/ /\ node = "save"
              /\ \A j \in 1..Len(llm) : llm[j].status = "success"
    PROVE  /\ \A i \in DOMAIN db'.events : db'.events[i].doc \notin todo'
           /\ \A i \in DOMAIN db'.calls : db'.calls[i].doc \notin todo'
           /\ OutageLeavesNothing'
           /\ node = "save" => \A i \in DOMAIN db'.calls :
                 db'.calls[i].doc = page => db'.calls[i].call.status = "success"
<1>1. PICK c, d : c = db /\ d = db'
  OBVIOUS
<1>2. /\ \A i \in DOMAIN d.events :
            \/ i \in DOMAIN c.events /\ d.events[i] = c.events[i]
            \/ Stored(e) /\ d.events[i].doc = page
      /\ \A i \in DOMAIN d.calls :
            \/ i \in DOMAIN c.calls /\ d.calls[i] = c.calls[i]
            \/ d.calls[i].doc = page /\ \E j \in 1..Len(llm) : d.calls[i].call = llm[j]
  BY <1>1, RowsOfPage
<1>3. /\ \A i \in DOMAIN c.events : c.events[i].doc \notin todo
      /\ \A i \in DOMAIN c.calls : c.calls[i].doc \notin todo
  BY <1>1 DEF DoneWith
<1>4. node = "save" =>
         /\ page \notin todo
         /\ \A i \in DOMAIN d.calls : d.calls[i].doc = page => d.calls[i].call.status = "success"
  BY <1>1, <1>2 DEF DoneWith
<1>5. ASSUME NEW i \in DOMAIN d.calls, d.calls[i].call.status = "error",
             NEW k \in DOMAIN d.events, d.events[k].doc = d.calls[i].doc
      PROVE  FALSE
  <2>1. CASE ~Stored(e) /\ page \in todo
    <3>1. k \in DOMAIN c.events /\ d.events[k] = c.events[k] /\ c.events[k].doc # page
      BY <1>2, <1>3, <2>1
    <3>2. i \in DOMAIN c.calls /\ d.calls[i] = c.calls[i]
      BY <1>2, <1>5, <3>1
    <3> QED
      BY <1>1, <1>5, <3>1, <3>2 DEF OutageLeavesNothing
  <2>2. CASE node = "save"
    <3>1. d.calls[i].doc # page
      BY <1>4, <1>5, <2>2
    <3>2. /\ i \in DOMAIN c.calls /\ d.calls[i] = c.calls[i]
          /\ k \in DOMAIN c.events /\ d.events[k] = c.events[k]
      BY <1>2, <1>5, <3>1
    <3> QED
      BY <1>1, <1>5, <3>2 DEF OutageLeavesNothing
  <2> QED
    BY <2>1, <2>2
<1>6. OutageLeavesNothing'
  BY <1>1, <1>5 DEF OutageLeavesNothing
<1>7. /\ \A i \in DOMAIN d.events : d.events[i].doc \notin todo'
      /\ \A i \in DOMAIN d.calls : d.calls[i].doc \notin todo'
  BY <1>2, <1>3
<1> QED
  BY <1>1, <1>4, <1>6, <1>7
-------------------------------------------------------------------------------
(* Every step keeps the invariant.                                         *)

LEMMA InitInv == Init => Inv
<1> SUFFICES ASSUME Init PROVE Inv
  OBVIOUS
<1>1. <<>> \in Seq(EventRow) /\ <<>> \in Seq(CallRow) /\ <<>> \in Seq(Decision) /\ <<>> \in Seq(Event)
      /\ <<>> \in Seq(LLMCall)
  BY EmptySeq
<1>2. Fresh \in ExtractionState
  BY <1>1 DEF Fresh, ExtractionState, Unset
<1>3. (CHOOSE d \in Doc : TRUE) \in Doc
  BY ExtractionAssumption
<1>4. Typed
  BY <1>1, <1>2, <1>3 DEF Init, Typed, Database, InGraph, Counters
<1>5. DOMAIN db.events = {} /\ DOMAIN db.calls = {} /\ DOMAIN db.decisions = {}
      /\ offered = [d \in Doc |-> <<>>] /\ \A d \in Doc : DOMAIN offered[d] = {}
  BY DEF Init
<1>6. InRange /\ DecisionsCiteTheirCall /\ OutageLeavesNothing
  BY <1>5 DEF InRange, DecisionsCiteTheirCall, OutageLeavesNothing
<1>7. Path /\ DoneWith /\ NoneLost
  BY <1>5 DEF Path, DoneWith, NoneLost, Init
<1> QED
  BY <1>4, <1>6, <1>7 DEF Inv

\* A node of the graph changes the graph's state only.
LEMMA GraphStep ==
    ASSUME Inv, Inside, node \in InGraph, node' \in InGraph \cup {"end"},
           graph' \in ExtractionState, Path'
    PROVE  Inv'
<1>1. node # "save" /\ node' # "save" /\ node # "crashed" /\ node # "close" /\ node' # "close"
  BY DEF InGraph
<1>2. Typed'
  BY <1>1 DEF Inv, Typed, Inside
<1>3. InRange' /\ DecisionsCiteTheirCall' /\ OutageLeavesNothing'
  BY DEF Inv, Inside, InRange, DecisionsCiteTheirCall, OutageLeavesNothing
<1>4. DoneWith'
  BY <1>1 DEF Inv, Inside, DoneWith
<1>5. NoneLost'
  BY <1>1 DEF Inv, Inside, NoneLost, Recorded
<1> QED
  BY <1>2, <1>3, <1>4, <1>5 DEF Inv

LEMMA AppendsCall ==
    ASSUME NEW calls \in Seq(LLMCall), NEW call \in LLMCall
    PROVE  /\ Append(calls, call) \in Seq(LLMCall)
           /\ calls = <<>> => Append(calls, call) = <<call>>
           /\ \A c \in LLMCall : calls = <<c>> => Append(calls, call) = <<c, call>>
           /\ \A c, d \in LLMCall : calls = <<c, d>> => Append(calls, call) = <<c, d, call>>
<1>1. PICK more : more = Append(calls, call)
  OBVIOUS
<1>2. /\ more \in Seq(LLMCall) /\ Len(more) = Len(calls) + 1
      /\ \A i \in 1..Len(calls) : more[i] = calls[i]
      /\ more[Len(calls) + 1] = call
  BY <1>1, AppendProperties
<1>3. calls = <<>> => more = <<call>>
  <2> HAVE calls = <<>>
  <2>1. Len(more) = 1 /\ more[1] = call
    BY <1>2
  <2>2. <<call>> \in Seq(LLMCall) /\ Len(<<call>>) = 1 /\ <<call>>[1] = call
    OBVIOUS
  <2> QED
    BY <1>2, <2>1, <2>2, SeqEqual
<1>4. ASSUME NEW c \in LLMCall, calls = <<c>> PROVE more = <<c, call>>
  <2>1. Len(more) = 2 /\ more[1] = c /\ more[2] = call
    BY <1>2, <1>4
  <2>2. <<c, call>> \in Seq(LLMCall) /\ Len(<<c, call>>) = 2
        /\ <<c, call>>[1] = c /\ <<c, call>>[2] = call
    OBVIOUS
  <2>3. \A i \in 1..Len(more) : more[i] = <<c, call>>[i]
    BY <2>1, <2>2
  <2> QED
    BY <1>2, <2>1, <2>2, <2>3, SeqEqual
<1>5. ASSUME NEW c \in LLMCall, NEW d \in LLMCall, calls = <<c, d>> PROVE more = <<c, d, call>>
  <2>1. Len(more) = 3 /\ more[1] = c /\ more[2] = d /\ more[3] = call
    BY <1>2, <1>5
  <2>2. <<c, d, call>> \in Seq(LLMCall) /\ Len(<<c, d, call>>) = 3
        /\ <<c, d, call>>[1] = c /\ <<c, d, call>>[2] = d /\ <<c, d, call>>[3] = call
    OBVIOUS
  <2>3. \A i \in 1..Len(more) : i = 1 \/ i = 2 \/ i = 3
    BY <2>1
  <2>4. \A i \in 1..Len(more) : more[i] = <<c, d, call>>[i]
    BY <2>1, <2>2, <2>3
  <2> QED
    BY <1>2, <2>1, <2>2, <2>4, SeqEqual
<1> QED
  BY <1>1, <1>2, <1>3, <1>4, <1>5

LEMMA SuccessIsCall == \A type \in CallType : Success(type) \in LLMCall
  BY DEF Success, LLMCall

LEMMA ClassifyRelevanceKeeps == ASSUME Inv, ClassifyRelevance PROVE Inv'
<1>1. PICK ok \in BOOLEAN, relevant \in BOOLEAN, reason \in {"text", "null"} :
         /\ ~ok => ~relevant /\ reason = "text"
         /\ graph' = [graph EXCEPT !.relevant = relevant, !.reason = reason,
                                   !.calls = Ran("classify_relevance", ok)]
         /\ node' = IF relevant THEN "classify_event_count" ELSE "end"
  BY DEF ClassifyRelevance
<1>2. PICK call : call = [type |-> "classify_relevance", status |-> IF ok THEN "success" ELSE "error"]
  OBVIOUS
<1>3. call \in LLMCall
  BY <1>2 DEF LLMCall, CallType
<1>4. node = "classify_relevance" /\ graph \in ExtractionState /\ graph = Fresh /\ Inside
  BY DEF ClassifyRelevance, Inv, Typed, Path
<1>5. graph.calls = <<>> /\ graph.calls \in Seq(LLMCall)
  BY <1>4 DEF Fresh, ExtractionState
<1>6. Ran("classify_relevance", ok) = <<call>> /\ <<call>> \in Seq(LLMCall)
  BY <1>2, <1>3, <1>5, AppendsCall DEF Ran
<1>7. graph' \in ExtractionState /\ graph'.relevant = relevant /\ graph'.calls = <<call>>
      /\ graph'.events = <<>>
  BY <1>1, <1>4, <1>6 DEF ExtractionState, Fresh
<1>8. node \in InGraph /\ node' \in InGraph \cup {"end"}
  BY <1>1, <1>4 DEF InGraph
<1>9. Path'
  <2>1. CASE relevant
    BY <1>1, <1>2, <1>7, <2>1 DEF Path, Success
  <2>2. CASE ~relevant
    BY <1>1, <1>2, <1>7, <2>2 DEF Path, Success
  <2> QED
    BY <2>1, <2>2
<1> QED
  BY <1>4, <1>7, <1>8, <1>9, GraphStep

LEMMA ClassifyEventCountKeeps == ASSUME Inv, ClassifyEventCount PROVE Inv'
<1>1. PICK ok \in BOOLEAN, count \in {"single", "multi", "none"} :
         /\ ~ok => count = "none"
         /\ graph' = [graph EXCEPT !.count = count, !.calls = Ran("classify_event_count", ok)]
         /\ node' = CASE count = "single" -> "extract_single_event"
                      [] count = "multi" -> "extract_multi_event"
                      [] OTHER -> "end"
  BY DEF ClassifyEventCount
<1>2. PICK call : call = [type |-> "classify_event_count", status |-> IF ok THEN "success" ELSE "error"]
  OBVIOUS
<1>3. call \in LLMCall
  BY <1>2 DEF LLMCall, CallType
<1>4. /\ node = "classify_event_count" /\ graph \in ExtractionState /\ Inside
      /\ graph.relevant = TRUE /\ graph.events = <<>>
      /\ graph.calls = <<Success("classify_relevance")>>
  BY DEF ClassifyEventCount, Inv, Typed, Path
<1>5. graph.calls \in Seq(LLMCall)
  BY <1>4 DEF ExtractionState
<1>6. /\ Ran("classify_event_count", ok) = <<Success("classify_relevance"), call>>
      /\ <<Success("classify_relevance"), call>> \in Seq(LLMCall)
  BY <1>2, <1>3, <1>4, <1>5, AppendsCall, SuccessIsCall DEF Ran, CallType
<1>7. /\ graph' \in ExtractionState /\ graph'.relevant = TRUE /\ graph'.events = <<>>
      /\ graph'.calls = <<Success("classify_relevance"), call>>
  BY <1>1, <1>4, <1>6 DEF ExtractionState
<1>8. /\ node \in InGraph /\ node' \in {"extract_single_event", "extract_multi_event", "end"}
      /\ node' # "end" => ok = TRUE
  BY <1>1, <1>4 DEF InGraph
<1>9. Path'
  BY <1>2, <1>7, <1>8 DEF Path, Success
<1> QED
  BY <1>4, <1>7, <1>8, <1>9, GraphStep DEF InGraph

LEMMA ExtractKeeps ==
    ASSUME Inv, NEW type \in Extracting, NEW found \in SUBSET Seq(Event), Extract(type, found), Inside,
           node \in {"extract_single_event", "extract_multi_event"}
    PROVE  Inv'
<1>1. PICK ok \in BOOLEAN, events \in found \cup {<<>>} :
         /\ IF ok THEN events \in found ELSE events = <<>>
         /\ graph' = [graph EXCEPT !.events = events, !.calls = Ran(type, ok)]
         /\ node' = "end"
  BY DEF Extract
<1>2. PICK call : call = [type |-> type, status |-> IF ok THEN "success" ELSE "error"]
  OBVIOUS
<1>3. call \in LLMCall
  BY <1>2 DEF LLMCall, CallType, Extracting
<1>4. /\ graph \in ExtractionState /\ graph.relevant = TRUE
      /\ graph.calls = <<Success("classify_relevance"), Success("classify_event_count")>>
  BY DEF Inv, Typed, Path
<1>5. graph.calls \in Seq(LLMCall)
  BY <1>4 DEF ExtractionState
<1>6. PICK calls : calls = <<Success("classify_relevance"), Success("classify_event_count"), call>>
  OBVIOUS
<1>7. Ran(type, ok) = calls /\ calls \in Seq(LLMCall)
  BY <1>2, <1>3, <1>4, <1>5, <1>6, AppendsCall, SuccessIsCall DEF Ran, CallType
<1>8. events \in Seq(Event)
  BY EmptySeq
<1>9. /\ graph' \in ExtractionState /\ graph'.relevant = TRUE /\ graph'.events = events
      /\ graph'.calls = calls
  BY <1>1, <1>4, <1>7, <1>8 DEF ExtractionState
<1>10. events # <<>> => Trusted(calls)
  <2> SUFFICES ASSUME events # <<>> PROVE Trusted(calls)
    OBVIOUS
  <2>1. call = Success(type)
    BY <1>1, <1>2 DEF Success
  <2> QED
    BY <1>6, <2>1 DEF Trusted
<1>11. Path'
  BY <1>1, <1>9, <1>10 DEF Path
<1> QED
  BY <1>1, <1>9, <1>11, GraphStep DEF InGraph

LEMMA ExtractSingleKeeps == ASSUME Inv, ExtractSingleEvent PROVE Inv'
<1>1. {<<e>> : e \in Event} \in SUBSET Seq(Event)
  OBVIOUS
<1> QED
  BY <1>1, ExtractKeeps DEF ExtractSingleEvent, Extracting

LEMMA ExtractMultiKeeps == ASSUME Inv, ExtractMultiEvent PROVE Inv'
<1>1. UNION {[1..n -> Event] : n \in 0..MaxFound} \in SUBSET Seq(Event)
  BY ExtractionAssumption, SeqDef
<1> QED
  BY <1>1, ExtractKeeps DEF ExtractMultiEvent, Extracting

LEMMA PlusCounts ==
    ASSUME sum \in [Counters -> Nat], NEW c \in Counters, NEW n \in Nat, Plus(c, n)
    PROVE  /\ sum' \in [Counters -> Nat]
           /\ sum'["errors"] = IF c = "errors" THEN sum["errors"] + n ELSE sum["errors"]
  BY DEF Plus, Counters

LEMMA FreshTyped == Fresh \in ExtractionState
  BY EmptySeq DEF Fresh, ExtractionState, Unset

\* A step that leaves the database alone.
LEMMA DatabaseStays ==
    ASSUME Inv, UNCHANGED db, todo' \subseteq todo,
           node' = "save" => /\ page' = page
                             /\ node = "save" \/ (page \in todo /\ page \notin todo')
    PROVE  InRange' /\ DecisionsCiteTheirCall' /\ OutageLeavesNothing' /\ DoneWith'
<1>1. InRange' /\ DecisionsCiteTheirCall' /\ OutageLeavesNothing'
  BY DEF Inv, InRange, DecisionsCiteTheirCall, OutageLeavesNothing
<1>2. DoneWith'
  BY DEF Inv, DoneWith
<1> QED
  BY <1>1, <1>2

LEMMA BeginPageKeeps == ASSUME Inv, BeginPage PROVE Inv'
<1>1. /\ node = "next" /\ node' = "classify_relevance"
      /\ page' = CHOOSE d \in todo : TRUE
      /\ Plus("processed", 1)
      /\ UNCHANGED <<todo, graph, unsaved, first, outcome, db, judged, offered>>
  BY DEF BeginPage
<1>2. page' \in todo
  BY DEF BeginPage
<1>3. sum' \in [Counters -> Nat] /\ sum'["errors"] = sum["errors"]
  BY <1>1, PlusCounts DEF Inv, Typed, Counters
<1>4. Typed'
  BY <1>1, <1>2, <1>3 DEF Inv, Typed, InGraph
<1>5. InRange' /\ DecisionsCiteTheirCall' /\ OutageLeavesNothing' /\ DoneWith'
  BY <1>1, DatabaseStays
<1>6. Path'
  BY <1>1 DEF Inv, Path
<1>7. NoneLost'
  BY <1>1, <1>3 DEF Inv, NoneLost, Recorded
<1> QED
  BY <1>4, <1>5, <1>6, <1>7 DEF Inv

\* A page that leaves the graph with an error is counted.
LEMMA ErrorKeeps ==
    ASSUME Inv, node \in InGraph \cup {"end"}, node' = "next", graph' = Fresh,
           todo' = todo \ {page}, Plus("errors", 1),
           UNCHANGED <<page, unsaved, first, outcome, db, offered>>
    PROVE  Inv'
<1>1. sum' \in [Counters -> Nat] /\ sum'["errors"] = sum["errors"] + 1
  BY PlusCounts DEF Inv, Typed, Counters
<1>2. sum["errors"] \in Nat
  BY DEF Inv, Typed, Counters
<1>3. Typed'
  BY <1>1, FreshTyped DEF Inv, Typed, InGraph
<1>4. InRange' /\ DecisionsCiteTheirCall' /\ OutageLeavesNothing' /\ DoneWith'
  BY DatabaseStays
<1>5. Path'
  BY DEF Path
<1>6. NoneLost'
  BY <1>1, <1>2 DEF NoneLost
<1> QED
  BY <1>3, <1>4, <1>5, <1>6 DEF Inv

LEMMA GraphFailsKeeps == ASSUME Inv, GraphFails PROVE Inv'
  BY ErrorKeeps DEF GraphFails, Judged

LEMMA NoEventsKeeps == ASSUME Inv, NoEvents PROVE Inv'
  BY ErrorKeeps DEF NoEvents, Judged

LEMMA IrrelevantNoReasonKeeps == ASSUME Inv, IrrelevantNoReason PROVE Inv'
<1>1. /\ node = "end" /\ node' = "close" /\ outcome' = "failed" /\ graph' = Fresh
      /\ todo' = todo \ {page} /\ Plus("irrelevant", 1)
      /\ UNCHANGED <<page, unsaved, first, db, offered>>
  BY DEF IrrelevantNoReason, Judged
<1>2. sum' \in [Counters -> Nat] /\ sum'["errors"] = sum["errors"]
  BY <1>1, PlusCounts DEF Inv, Typed, Counters
<1>3. Typed'
  BY <1>1, <1>2, FreshTyped DEF Inv, Typed, InGraph
<1>4. InRange' /\ DecisionsCiteTheirCall' /\ OutageLeavesNothing' /\ DoneWith'
  BY <1>1, DatabaseStays
<1>5. Path'
  BY <1>1 DEF Path
<1>6. NoneLost'
  BY <1>1, <1>2 DEF Inv, NoneLost, Recorded
<1> QED
  BY <1>3, <1>4, <1>5, <1>6 DEF Inv

LEMMA RelevantKeeps == ASSUME Inv, Relevant PROVE Inv'
<1>1. /\ node = "end" /\ graph.relevant /\ graph.events # <<>> /\ node' = "save"
      /\ todo' = todo \ {page} /\ unsaved' = graph.events /\ first' = TRUE
      /\ offered' = [offered EXCEPT ![page] = graph.events]
      /\ UNCHANGED <<page, graph, sum, outcome, db>>
  BY DEF Relevant, Judged
<1>2. page \in todo /\ page \in Doc
  BY <1>1 DEF Inv, Typed
<1>3. graph.relevant = TRUE
  BY <1>1 DEF Inv, Path
<1>4. graph.events \in Seq(Event) /\ graph \in ExtractionState
  BY DEF Inv, Typed, ExtractionState
<1>5. \A i \in DOMAIN graph.events : graph.events[i] \in Event
  BY <1>4, LenProperties, ElementOfSeq
<1>6. Typed'
  BY <1>1, <1>2, <1>4, <1>5 DEF Inv, Typed, InGraph
<1>7. InRange' /\ DecisionsCiteTheirCall' /\ OutageLeavesNothing' /\ DoneWith'
  BY <1>1, <1>2, DatabaseStays
<1>8. Path'
  BY <1>1, <1>3 DEF Inv, Path
<1>9. NoneLost'
  <2>1. offered' \in [Doc -> Seq(Event)] /\ offered'[page] = graph.events
        /\ \A d \in Doc : d # page => offered'[d] = offered[d]
    BY <1>1, <1>2, <1>4 DEF Inv, Typed
  <2>2. ASSUME sum["errors"] = 0, NEW d \in Doc, NEW k \in DOMAIN offered'[d], Stored(offered'[d][k])
        PROVE  \/ Recorded(db, d, offered'[d][k].name)
               \/ d = page /\ \E i \in DOMAIN graph.events : graph.events[i] = offered'[d][k]
    <3>1. CASE d = page
      BY <2>1, <2>2, <3>1
    <3>2. CASE d # page
      BY <1>1, <2>1, <2>2, <3>2 DEF Inv, NoneLost
    <3> QED
      BY <3>1, <3>2
  <2> QED
    BY <1>1, <2>2 DEF NoneLost, Recorded
<1> QED
  BY <1>6, <1>7, <1>8, <1>9 DEF Inv

LEMMA PageDoneKeeps == ASSUME Inv, PageDone PROVE Inv'
<1>1. /\ node = "save" /\ unsaved = <<>> /\ node' = "next" /\ graph' = Fresh
      /\ UNCHANGED <<todo, page, unsaved, first, sum, outcome, db, judged, offered>>
  BY DEF PageDone
<1>2. Typed'
  BY <1>1, FreshTyped DEF Inv, Typed, InGraph
<1>3. InRange' /\ DecisionsCiteTheirCall' /\ OutageLeavesNothing' /\ DoneWith'
  BY <1>1, DatabaseStays
<1>4. Path'
  BY <1>1 DEF Path
<1>5. NoneLost'
  <2>1. DOMAIN unsaved = {}
    BY <1>1
  <2> QED
    BY <1>1, <2>1 DEF Inv, NoneLost, Recorded
<1> QED
  BY <1>2, <1>3, <1>4, <1>5 DEF Inv

LEMMA AllDoneKeeps == ASSUME Inv, AllDone PROVE Inv'
<1>1. /\ node = "next" /\ node' = "close"
      /\ outcome' = IF sum["errors"] > 0 /\ outcome = "completed" THEN "partial" ELSE outcome
      /\ UNCHANGED <<todo, page, graph, unsaved, first, sum, db, judged, offered>>
  BY DEF AllDone
<1>2. sum["errors"] \in Nat
  BY DEF Inv, Typed, Counters
<1>3. Typed'
  BY <1>1 DEF Inv, Typed, InGraph
<1>4. InRange' /\ DecisionsCiteTheirCall' /\ OutageLeavesNothing' /\ DoneWith'
  BY <1>1, DatabaseStays
<1>5. Path'
  BY <1>1 DEF Path
<1>6. NoneLost'
  BY <1>1, <1>2 DEF Inv, NoneLost, Recorded
<1> QED
  BY <1>3, <1>4, <1>5, <1>6 DEF Inv

LEMMA CrashKeeps == ASSUME Inv, Crash PROVE Inv'
<1>1. /\ node' = "crashed"
      /\ UNCHANGED <<todo, page, graph, unsaved, first, sum, outcome, db, judged, offered>>
  BY DEF Crash
<1>2. Typed'
  BY <1>1 DEF Inv, Typed, InGraph
<1>3. InRange' /\ DecisionsCiteTheirCall' /\ OutageLeavesNothing' /\ DoneWith'
  BY <1>1, DatabaseStays
<1>4. Path' /\ NoneLost'
  BY <1>1 DEF Path, NoneLost
<1> QED
  BY <1>2, <1>3, <1>4 DEF Inv

LEMMA DeliveriesNat == Answered \subseteq Nat \ {0} /\ \A e : Failing(e) \subseteq Nat
  BY ExtractionAssumption DEF Answered, Failing

LEMMA IrrelevantKeeps == ASSUME Inv, Irrelevant PROVE Inv'
<1>1. /\ node = "end" /\ ~graph.relevant /\ node' = "next" /\ graph' = Fresh
      /\ todo' = todo \ {page} /\ Plus("irrelevant", 1)
      /\ UNCHANGED <<page, unsaved, first, outcome, offered>>
  BY DEF Irrelevant, Judged
<1>2. PICK n \in Nat : db' = After(n, Nothing, graph.calls)
  BY DeliveriesNat DEF Irrelevant
<1>3. Nothing \in Event /\ ~Stored(Nothing)
  BY ExtractionAssumption DEF Nothing, Event, Stored
<1>4. PICK llm : llm = graph.calls
  OBVIOUS
<1>5. llm \in Seq(LLMCall) /\ Len(llm) = 1 /\ llm[1].type = "classify_relevance"
  BY <1>1, <1>4 DEF Inv, Typed, ExtractionState, Path
<1>6. db \in Database /\ page \in Doc /\ page \in todo
  BY <1>1 DEF Inv, Typed
<1>7. Delivered(db, db', page, Nothing, llm)
  BY <1>2, <1>3, <1>4, <1>5, <1>6, AfterDelivers
<1>8. db' \in Database /\ InRange' /\ DecisionsCiteTheirCall'
  <2>1. Citable(Nothing, llm)
    BY <1>3, <1>5 DEF Citable
  <2> QED
    BY <1>6, <1>7, <2>1, DecisionsKept DEF Inv
<1>9. OutageLeavesNothing' /\ DoneWith'
  <2>1. /\ \A i \in DOMAIN db'.events : db'.events[i].doc \notin todo'
        /\ \A i \in DOMAIN db'.calls : db'.calls[i].doc \notin todo'
        /\ OutageLeavesNothing'
    BY <1>1, <1>3, <1>6, <1>7, OutageKept DEF Inv
  <2> QED
    BY <1>1, <2>1 DEF DoneWith
<1>10. sum' \in [Counters -> Nat] /\ sum'["errors"] = sum["errors"]
  BY <1>1, PlusCounts DEF Inv, Typed, Counters
<1>11. Typed'
  BY <1>1, <1>8, <1>10, FreshTyped DEF Inv, Typed, InGraph
<1>12. Path'
  BY <1>1 DEF Path
<1>13. NoneLost'
  <2>1. ASSUME sum["errors"] = 0, NEW d \in Doc, NEW k \in DOMAIN offered[d], Stored(offered[d][k])
        PROVE  Recorded(db', d, offered[d][k].name)
    <3>1. Recorded(db, d, offered[d][k].name)
      BY <1>1, <2>1 DEF Inv, NoneLost
    <3> QED
      BY <1>6, <1>7, <3>1, RecordedStays
  <2> QED
    BY <1>1, <1>10, <2>1 DEF NoneLost
<1> QED
  BY <1>8, <1>9, <1>11, <1>12, <1>13 DEF Inv

\* Saving a candidate keeps all but what is said of lost candidates.
LEMMA SavingKeeps ==
    ASSUME Inv, Saving, Advance, Aside, sum' \in [Counters -> Nat],
           NEW n \in Nat, db' = After(n, Head(unsaved), Sent)
    PROVE  /\ Typed' /\ InRange' /\ Path' /\ DoneWith'
           /\ DecisionsCiteTheirCall' /\ OutageLeavesNothing'
           /\ \A x, name : Recorded(db, x, name) => Recorded(db', x, name)
           /\ n > 0 /\ Stored(Head(unsaved)) => Recorded(db', page, Head(unsaved).name)
<1>1. /\ node = "save" /\ unsaved # <<>> /\ unsaved' = Tail(unsaved) /\ first' = FALSE
      /\ UNCHANGED <<todo, page, node, graph, outcome, judged, offered>>
  BY DEF Saving, Advance, Aside
<1>2. PICK e : e = Head(unsaved)
  OBVIOUS
<1>3. PICK llm : llm = Sent
  OBVIOUS
<1>4. unsaved \in Seq(Event) /\ e \in Event /\ Tail(unsaved) \in Seq(Event)
  BY <1>1, <1>2, HeadTailProperties DEF Inv, Typed
<1>5. PICK type \in Extracting :
         graph.calls = <<Success("classify_relevance"), Success("classify_event_count"), Success(type)>>
  BY <1>1 DEF Inv, Path, Trusted
<1>6. llm = <<>> \/ llm = <<Success("classify_relevance"), Success("classify_event_count"), Success(type)>>
  BY <1>3, <1>5 DEF Sent
<1>7. llm \in Seq(LLMCall)
  <2>1. /\ Success("classify_relevance") \in LLMCall /\ Success("classify_event_count") \in LLMCall
        /\ Success(type) \in LLMCall
    BY SuccessIsCall DEF Extracting, CallType
  <2>2. PICK a, b, c : a = Success("classify_relevance") /\ b = Success("classify_event_count")
                       /\ c = Success(type)
    OBVIOUS
  <2>3. <<a, b, c>> \in Seq(LLMCall) /\ <<>> \in Seq(LLMCall)
    BY <2>1, <2>2
  <2> QED
    BY <1>6, <2>2, <2>3
<1>8. db \in Database /\ page \in Doc /\ page \notin todo
  BY <1>1 DEF Inv, Typed, DoneWith
<1>9. db' = After(n, e, llm)
  BY <1>2, <1>3
<1>10. /\ Delivered(db, db', page, e, llm)
       /\ n > 0 /\ Stored(e) => Recorded(db', page, e.name)
  BY <1>4, <1>7, <1>8, <1>9, AfterDelivers
<1>11. db' \in Database /\ InRange' /\ DecisionsCiteTheirCall'
  <2>1. Citable(e, llm)
    BY <1>6 DEF Citable, Success
  <2> QED
    BY <1>8, <1>10, <2>1, DecisionsKept DEF Inv
<1>12. OutageLeavesNothing' /\ DoneWith'
  <2>1. \A j \in 1..Len(llm) : llm[j].status = "success"
    BY <1>6 DEF Success
  <2>2. /\ \A i \in DOMAIN db'.events : db'.events[i].doc \notin todo'
        /\ \A i \in DOMAIN db'.calls : db'.calls[i].doc \notin todo'
        /\ OutageLeavesNothing'
        /\ node = "save" => \A i \in DOMAIN db'.calls :
              db'.calls[i].doc = page => db'.calls[i].call.status = "success"
    BY <1>1, <1>8, <1>10, <2>1, OutageKept DEF Inv
  <2> QED
    BY <1>1, <1>8, <2>2 DEF DoneWith
<1>13. Typed' /\ Path'
  BY <1>1, <1>4, <1>11 DEF Inv, Typed, Path
<1>14. \A x, name : Recorded(db, x, name) => Recorded(db', x, name)
  BY <1>8, <1>10, RecordedStays
<1> QED
  BY <1>2, <1>10, <1>11, <1>12, <1>13, <1>14

LEMMA SaveAnsweredKeeps == ASSUME Inv, SaveAnswered PROVE Inv'
<1>1. Saving /\ Advance /\ Aside
  BY DEF SaveAnswered
<1>2. PICK n \in Answered : /\ db' = After(n, Head(unsaved), Sent)
                            /\ Plus("created", IF Creates(n, Head(unsaved), Sent) THEN 1 ELSE 0)
  BY DEF SaveAnswered
<1>3. n \in Nat /\ n > 0
  BY DeliveriesNat
<1>4. sum' \in [Counters -> Nat] /\ sum'["errors"] = sum["errors"]
  <2>1. PICK k \in Nat : Plus("created", k)
    BY <1>2
  <2> QED
    BY <2>1, PlusCounts DEF Inv, Typed, Counters
<1>5. /\ Typed' /\ InRange' /\ Path' /\ DoneWith'
      /\ DecisionsCiteTheirCall' /\ OutageLeavesNothing'
      /\ \A x, name : Recorded(db, x, name) => Recorded(db', x, name)
      /\ Stored(Head(unsaved)) => Recorded(db', page, Head(unsaved).name)
  BY <1>1, <1>2, <1>3, <1>4, SavingKeeps
<1>6. /\ node = "save" /\ node' = "save" /\ page' = page /\ offered' = offered
      /\ unsaved # <<>> /\ unsaved' = Tail(unsaved) /\ unsaved \in Seq(Event)
  BY <1>1 DEF Saving, Advance, Aside, Inv, Typed
<1>7. \A i \in DOMAIN unsaved :
         unsaved[i] = Head(unsaved) \/ \E j \in DOMAIN unsaved' : unsaved'[j] = unsaved[i]
  <2> TAKE i \in DOMAIN unsaved
  <2>1. /\ Len(unsaved) \in Nat /\ DOMAIN unsaved = 1..Len(unsaved)
        /\ Len(unsaved') = Len(unsaved) - 1 /\ DOMAIN unsaved' = 1..Len(unsaved')
        /\ \A j \in 1..Len(unsaved') : unsaved'[j] = unsaved[j + 1]
    BY <1>6, LenProperties, HeadTailProperties
  <2>2. CASE i = 1
    BY <1>6, <2>2
  <2>3. CASE i # 1
    <3>1. i - 1 \in 1..Len(unsaved') /\ (i - 1) + 1 = i
      BY <2>1, <2>3
    <3> QED
      BY <2>1, <3>1
  <2> QED
    BY <2>2, <2>3
<1>8. NoneLost'
  <2>1. ASSUME sum["errors"] = 0, NEW d \in Doc, NEW k \in DOMAIN offered[d], Stored(offered[d][k])
        PROVE  \/ Recorded(db', d, offered[d][k].name)
               \/ d = page /\ \E j \in DOMAIN unsaved' : unsaved'[j] = offered[d][k]
    <3>1. CASE Recorded(db, d, offered[d][k].name)
      BY <1>5, <3>1
    <3>2. CASE d = page /\ \E i \in DOMAIN unsaved : unsaved[i] = offered[d][k]
      BY <1>5, <1>7, <2>1, <3>2
    <3> QED
      BY <1>6, <2>1, <3>1, <3>2 DEF Inv, NoneLost
  <2> QED
    BY <1>4, <1>6, <2>1 DEF NoneLost
<1> QED
  BY <1>5, <1>8 DEF Inv

LEMMA SaveFailsKeeps == ASSUME Inv, SaveFails PROVE Inv'
<1>1. Saving /\ Advance /\ Aside /\ Plus("errors", 1)
  BY DEF SaveFails
<1>2. PICK n \in Nat : db' = After(n, Head(unsaved), Sent)
  BY DeliveriesNat DEF SaveFails
<1>3. sum' \in [Counters -> Nat] /\ sum'["errors"] = sum["errors"] + 1 /\ sum["errors"] \in Nat
  BY <1>1, PlusCounts DEF Inv, Typed, Counters
<1>4. /\ Typed' /\ InRange' /\ Path' /\ DoneWith'
      /\ DecisionsCiteTheirCall' /\ OutageLeavesNothing'
  BY <1>1, <1>2, <1>3, SavingKeeps
<1>5. NoneLost'
  BY <1>1, <1>3 DEF NoneLost, Saving, Aside
<1> QED
  BY <1>4, <1>5 DEF Inv

LEMMA NextInv == Inv /\ [Next]_vars => Inv'
<1> SUFFICES ASSUME Inv, [Next]_vars PROVE Inv'
  OBVIOUS
<1>1. CASE UNCHANGED vars
  <2>1. UNCHANGED <<todo, page, node, graph, unsaved, first, sum, outcome, db, judged, offered>>
    BY <1>1 DEF vars, local
  <2> QED
    BY <2>1 DEF Inv, Typed, InRange, Path, DoneWith, NoneLost, DecisionsCiteTheirCall,
                OutageLeavesNothing
<1> QED
  BY <1>1, BeginPageKeeps, ClassifyRelevanceKeeps, ClassifyEventCountKeeps, ExtractSingleKeeps,
     ExtractMultiKeeps, GraphFailsKeeps, IrrelevantNoReasonKeeps, IrrelevantKeeps, NoEventsKeeps,
     RelevantKeeps, SaveAnsweredKeeps, SaveFailsKeeps, PageDoneKeeps, AllDoneKeeps, CrashKeeps
     DEF Next
-------------------------------------------------------------------------------
(* The phase as DiscoveryRun has it.  First, what deliveries add to the    *)
(* numbers of rows.                                                        *)

Hits(s, X) == {i \in DOMAIN s : s[i] \in X}

LEMMA IndicesFinite ==
    ASSUME NEW n \in Nat, NEW H, H \subseteq 1..n PROVE IsFiniteSet(H) /\ Cardinality(H) \in Nat
<1>1. IsFiniteSet(1..n)
  BY FS_Interval
<1>2. IsFiniteSet(H)
  BY <1>1, FS_Subset
<1> QED
  BY <1>2, FS_CardinalityType

\* Rows added to a table raise the number of rows in a set by one if the first of
\* them is in the set and the others are not, and not at all if none is.
LEMMA HitsAdded ==
    ASSUME NEW S, NEW s \in Seq(S), NEW t \in Seq(S), NEW X, NEW w \in {0, 1},
           Len(s) + w <= Len(t),
           \A i \in 1..Len(s) : t[i] = s[i],
           \A i \in 1..Len(t) : i > Len(s) => (t[i] \in X <=> (w = 1 /\ i = Len(s) + 1))
    PROVE  /\ Cardinality(Hits(s, X)) \in Nat
           /\ Cardinality(Hits(t, X)) = Cardinality(Hits(s, X)) + w
<1>1. Len(s) \in Nat /\ DOMAIN s = 1..Len(s) /\ Len(t) \in Nat /\ DOMAIN t = 1..Len(t)
  BY LenProperties
<1>2. PICK H : H = Hits(s, X)
  OBVIOUS
<1>3. H \subseteq 1..Len(s)
  BY <1>1, <1>2 DEF Hits
<1>4. IsFiniteSet(H) /\ Cardinality(H) \in Nat
  BY <1>1, <1>3, IndicesFinite
<1>5. Hits(t, X) = IF w = 1 THEN H \cup {Len(s) + 1} ELSE H
  <2>1. \A i \in 1..Len(t) : i <= Len(s) \/ i > Len(s)
    BY <1>1
  <2>2. CASE w = 1
    <3>1. Len(s) + 1 \in 1..Len(t) /\ Len(s) + 1 > Len(s)
      BY <1>1, <2>2
    <3> QED
      BY <1>1, <1>2, <2>1, <2>2, <3>1 DEF Hits
  <2>3. CASE w = 0
    BY <1>1, <1>2, <2>1, <2>3 DEF Hits
  <2> QED
    BY <2>2, <2>3
<1>6. Len(s) + 1 \notin H
  BY <1>1, <1>3
<1>7. Cardinality(H \cup {Len(s) + 1}) = Cardinality(H) + 1
  BY <1>4, <1>6, FS_AddElement
<1>8. Cardinality(Hits(t, X)) = Cardinality(H) + w
  BY <1>4, <1>5, <1>7
<1> QED
  BY <1>2, <1>4, <1>8

\* The candidates of a document under a name, and the records of its calls.
EventsOf(d, x, name) == Cardinality({i \in DOMAIN d.events : d.events[i] = [doc |-> x, name |-> name]})
CallsOf(d, x) ==
    Cardinality({i \in DOMAIN d.calls : d.calls[i].doc = x /\ d.calls[i].call.type = "classify_relevance"})

\* Of the calls a candidate is sent with, the first is the one about relevance.
OpenedOnce(llm) ==
    \A j \in 1..Len(llm) : llm[j].type = "classify_relevance" <=> j = 1

EventsAt(x, name) == {[doc |-> x, name |-> name]}
CallsAt(x) == {row \in CallRow : row.doc = x /\ row.call.type = "classify_relevance"}

LEMMA RowsCounted ==
    ASSUME NEW d \in Database
    PROVE  /\ \A x, name : /\ EventsOf(d, x, name) = Cardinality(Hits(d.events, EventsAt(x, name)))
                           /\ EventsOf(d, x, name) \in Nat
                           /\ EventsOf(d, x, name) > 0 <=> Recorded(d, x, name)
           /\ \A x : CallsOf(d, x) = Cardinality(Hits(d.calls, CallsAt(x))) /\ CallsOf(d, x) \in Nat
<1>1. ASSUME NEW x, NEW name
      PROVE  /\ EventsOf(d, x, name) = Cardinality(Hits(d.events, EventsAt(x, name)))
             /\ EventsOf(d, x, name) \in Nat
             /\ EventsOf(d, x, name) > 0 <=> Recorded(d, x, name)
  <2>1. PICK H : H = {i \in DOMAIN d.events : d.events[i] = [doc |-> x, name |-> name]}
    OBVIOUS
  <2>2. H = Hits(d.events, EventsAt(x, name))
    BY <2>1 DEF Hits, EventsAt
  <2>3. H \subseteq 1..Len(d.events) /\ Len(d.events) \in Nat
    BY <2>1, RowsOf
  <2>4. IsFiniteSet(H) /\ Cardinality(H) \in Nat
    BY <2>3, IndicesFinite
  <2>5. Cardinality(H) = 0 <=> H = {}
    BY <2>4, FS_EmptySet
  <2>6. H # {} <=> Recorded(d, x, name)
    BY <2>1 DEF Recorded
  <2>7. EventsOf(d, x, name) = Cardinality(H)
    BY <2>1 DEF EventsOf
  <2>8. Cardinality(H) > 0 <=> Cardinality(H) # 0
    BY <2>4
  <2> QED
    BY <2>2, <2>4, <2>5, <2>6, <2>7, <2>8
<1>2. ASSUME NEW x
      PROVE  CallsOf(d, x) = Cardinality(Hits(d.calls, CallsAt(x))) /\ CallsOf(d, x) \in Nat
  <2>1. PICK H : H = {i \in DOMAIN d.calls : d.calls[i].doc = x /\ d.calls[i].call.type = "classify_relevance"}
    OBVIOUS
  <2>2. H = Hits(d.calls, CallsAt(x))
    BY <2>1, RowsOf DEF Hits, CallsAt
  <2>3. H \subseteq 1..Len(d.calls) /\ Len(d.calls) \in Nat
    BY <2>1, RowsOf
  <2>4. Cardinality(H) \in Nat
    BY <2>3, IndicesFinite
  <2> QED
    BY <2>1, <2>2, <2>4 DEF CallsOf
<1> QED
  BY <1>1, <1>2

\* How much one more delivery adds.
Adds(d, doc, e) == IF e.name # NoName /\ Recorded(d, doc, e.name) THEN 0 ELSE 1

\* The numbers of rows of t are those of c, and n more for candidate e of document doc.
Counted(c, t, doc, e, llm, n) ==
    /\ \A x, name : EventsOf(t, x, name) =
          EventsOf(c, x, name) + (IF Stored(e) /\ x = doc /\ name = e.name THEN n ELSE 0)
    /\ \A x : CallsOf(t, x) = CallsOf(c, x) + (IF llm # <<>> /\ x = doc THEN n ELSE 0)

LEMMA TransactionCounts ==
    ASSUME NEW d \in Database, NEW doc \in Doc, NEW e \in Event, NEW llm \in Seq(LLMCall),
           OpenedOnce(llm), NEW t, t = Transaction(d, doc, e, llm)
    PROVE  t \in Database /\ Counted(d, t, doc, e, llm, Adds(d, doc, e))
<1>1. CASE e.name # NoName /\ Recorded(d, doc, e.name)
  <2>1. t = d /\ Adds(d, doc, e) = 0
    BY <1>1 DEF Transaction, Adds
  <2> QED
    BY <2>1, RowsCounted DEF Counted
<1>2. CASE ~(e.name # NoName /\ Recorded(d, doc, e.name))
  <2>1. Adds(d, doc, e) = 1
    BY <1>2 DEF Adds
  <2>2. /\ t \in Database
        /\ IF Stored(e) THEN t.events = Append(d.events, [doc |-> doc, name |-> e.name])
                        ELSE t.events = d.events
        /\ t.calls = d.calls \o CallRows(doc, llm)
    BY <1>2, TransactionAdds DEF HasRecorded
  <2>3. PICK s, r : s = d.events /\ r = t.events
    OBVIOUS
  <2>4. s \in Seq(EventRow) /\ r \in Seq(EventRow)
    BY <2>2, <2>3 DEF Database
  <2>5. PICK row : row = [doc |-> doc, name |-> e.name]
    OBVIOUS
  <2>6. row \in EventRow
    BY <2>5 DEF EventRow, Event
  <2>7. ASSUME NEW x, NEW name
        PROVE  EventsOf(t, x, name) =
                  EventsOf(d, x, name) + (IF Stored(e) /\ x = doc /\ name = e.name THEN 1 ELSE 0)
    <3>1. PICK w : w = IF Stored(e) /\ x = doc /\ name = e.name THEN 1 ELSE 0
      OBVIOUS
    <3>2. row \in EventsAt(x, name) <=> (x = doc /\ name = e.name)
      BY <2>5 DEF EventsAt
    <3>3. w \in {0, 1}
      BY <3>1
    <3>4. Cardinality(Hits(r, EventsAt(x, name))) = Cardinality(Hits(s, EventsAt(x, name))) + w
      <4>1. CASE Stored(e)
        <5>1. r = Append(s, row)
          BY <2>2, <2>3, <2>5, <4>1
        <5>2. /\ Len(s) \in Nat /\ Len(r) = Len(s) + 1 /\ r[Len(s) + 1] = row
              /\ \A i \in 1..Len(s) : r[i] = s[i]
          BY <2>4, <2>6, <5>1, AppendProperties, LenProperties
        <5>3. \A i \in 1..Len(r) : i > Len(s) => i = Len(s) + 1
          BY <5>2
        <5>4. row \in EventsAt(x, name) <=> w = 1
          BY <3>1, <3>2, <4>1
        <5>5. \A i \in 1..Len(r) : i > Len(s) =>
                 (r[i] \in EventsAt(x, name) <=> (w = 1 /\ i = Len(s) + 1))
          BY <5>2, <5>3, <5>4
        <5>6. Len(s) + w <= Len(r)
          BY <3>3, <5>2
        <5> QED
          BY <2>4, <3>3, <5>2, <5>5, <5>6, HitsAdded
      <4>2. CASE ~Stored(e)
        <5>1. r = s /\ w = 0
          BY <2>2, <2>3, <3>1, <4>2
        <5>2. Cardinality(Hits(s, EventsAt(x, name))) \in Nat
          BY <2>3, RowsCounted
        <5> QED
          BY <5>1, <5>2
      <4> QED
        BY <4>1, <4>2
    <3> QED
      BY <2>2, <2>3, <3>1, <3>4, RowsCounted
  <2>8. PICK a, b : a = d.calls /\ b = t.calls
    OBVIOUS
  <2>9. a \in Seq(CallRow) /\ b \in Seq(CallRow) /\ Len(a) \in Nat /\ Len(llm) \in Nat
    BY <2>2, <2>8, LenProperties DEF Database
  <2>10. /\ Len(b) = Len(a) + Len(llm)
         /\ \A i \in 1..Len(a) : b[i] = a[i]
         /\ \A j \in 1..Len(llm) : b[Len(a) + j] = [doc |-> doc, call |-> llm[j]]
    <3>1. HasAdded(a, b, doc, llm)
      BY <2>2, <2>8, <2>9, CallsAdded
    <3> QED
      BY <3>1 DEF HasAdded
  <2>11. ASSUME NEW x
         PROVE  CallsOf(t, x) = CallsOf(d, x) + (IF llm # <<>> /\ x = doc THEN 1 ELSE 0)
    <3>1. PICK w : w = IF llm # <<>> /\ x = doc THEN 1 ELSE 0
      OBVIOUS
    <3>2. w \in {0, 1}
      BY <3>1
    <3>3. llm # <<>> => Len(llm) > 0
      BY <2>9, EmptySeq
    <3>4. Len(a) + w <= Len(b)
      BY <2>9, <2>10, <3>1, <3>3
    <3>5. \A i \in 1..Len(b) : i > Len(a) => (b[i] \in CallsAt(x) <=> (w = 1 /\ i = Len(a) + 1))
      <4> TAKE i \in 1..Len(b)
      <4> HAVE i > Len(a)
      <4>1. PICK j : j = i - Len(a)
        OBVIOUS
      <4>2. j \in 1..Len(llm) /\ i = Len(a) + j
        BY <2>9, <2>10, <4>1
      <4>3. b[i] = [doc |-> doc, call |-> llm[j]] /\ llm[j] \in LLMCall
        BY <2>10, <4>2, ElementOfSeq
      <4>4. llm # <<>>
        BY <4>2, EmptySeq
      <4>5. b[i] \in CallsAt(x) <=> (x = doc /\ llm[j].type = "classify_relevance")
        BY <4>3 DEF CallsAt, CallRow
      <4>6. llm[j].type = "classify_relevance" <=> j = 1
        BY <4>2 DEF OpenedOnce
      <4>7. i = Len(a) + 1 <=> j = 1
        BY <2>9, <4>2
      <4> QED
        BY <3>1, <4>4, <4>5, <4>6, <4>7
    <3>6. Cardinality(Hits(b, CallsAt(x))) = Cardinality(Hits(a, CallsAt(x))) + w
      <4>1. PICK X : X = CallsAt(x)
        OBVIOUS
      <4>2. \A i \in 1..Len(b) : i > Len(a) => (b[i] \in X <=> (w = 1 /\ i = Len(a) + 1))
        BY <3>5, <4>1
      <4>3. a \in Seq(CallRow) /\ b \in Seq(CallRow) /\ \A i \in 1..Len(a) : b[i] = a[i]
        BY <2>9, <2>10
      <4>4. Cardinality(Hits(b, X)) = Cardinality(Hits(a, X)) + w
        BY <3>2, <3>4, <4>2, <4>3, HitsAdded
      <4> QED
        BY <4>1, <4>4
    <3> QED
      BY <2>2, <2>8, <3>1, <3>6, RowsCounted
  <2> QED
    BY <2>1, <2>2, <2>7, <2>11 DEF Counted
<1> QED
  BY <1>1, <1>2

\* How many of n deliveries of candidate e write rows.
Effective(n, c, doc, e) ==
    IF e.name # NoName THEN IF n = 0 \/ Recorded(c, doc, e.name) THEN 0 ELSE 1 ELSE n

LEMMA AfterCounts ==
    ASSUME db \in Database, page \in Doc, NEW e \in Event, NEW llm \in Seq(LLMCall),
           OpenedOnce(llm), NEW n \in Nat
    PROVE  /\ After(n, e, llm) \in Database
           /\ Counted(db, After(n, e, llm), page, e, llm, Effective(n, db, page, e))
<1>1. PICK f : Deliveries(f, n, e, llm) /\ After(n, e, llm) = f[n]
  BY AfterRuns
<1> DEFINE Holds(k) == f[k] \in Database /\ Counted(db, f[k], page, e, llm, Effective(k, db, page, e))
           Bad == {k \in 0..n : ~Holds(k)}
<1>2. Holds(0)
  <2>1. f[0] = db /\ Effective(0, db, page, e) = 0
    BY <1>1 DEF Deliveries, Effective
  <2> QED
    BY <2>1, RowsCounted DEF Counted
<1>3. ASSUME NEW k \in 1..n, Holds(k - 1) PROVE Holds(k)
  <2>1. PICK d, t : d = f[k - 1] /\ t = f[k]
    OBVIOUS
  <2>2. t = Transaction(d, page, e, llm) /\ d \in Database
    <3>1. k \in 0..n /\ k > 0
      OBVIOUS
    <3> QED
      BY <1>1, <1>3, <2>1, <3>1 DEF Deliveries
  <2>3. t \in Database /\ Counted(d, t, page, e, llm, Adds(d, page, e))
    BY <2>2, TransactionCounts
  <2>4. Counted(db, d, page, e, llm, Effective(k - 1, db, page, e))
    BY <1>3, <2>1
  <2>5. PICK m : m = Effective(k - 1, db, page, e)
    OBVIOUS
  <2>6. m \in Nat
    BY <2>5 DEF Effective
  <2>7. Effective(k, db, page, e) = m + Adds(d, page, e)
    <3>1. CASE e.name = NoName
      BY <2>5, <3>1 DEF Effective, Adds
    <3>2. CASE e.name # NoName
      <4>1. EventsOf(d, page, e.name) = EventsOf(db, page, e.name) + m
        BY <2>4, <2>5, <3>2 DEF Counted, Stored
      <4>2. Recorded(d, page, e.name) <=> (Recorded(db, page, e.name) \/ m > 0)
        BY <2>2, <2>6, <4>1, RowsCounted
      <4> QED
        BY <2>5, <3>2, <4>2 DEF Effective, Adds
    <3> QED
      BY <3>1, <3>2
  <2>8. PICK w : w = Adds(d, page, e)
    OBVIOUS
  <2>9. w \in Nat
    BY <2>8 DEF Adds
  <2>10. Counted(db, t, page, e, llm, m + w)
    <3>1. ASSUME NEW x, NEW name
          PROVE  EventsOf(t, x, name) =
                    EventsOf(db, x, name) + (IF Stored(e) /\ x = page /\ name = e.name THEN m + w ELSE 0)
      <4>1. /\ EventsOf(d, x, name) =
                  EventsOf(db, x, name) + (IF Stored(e) /\ x = page /\ name = e.name THEN m ELSE 0)
            /\ EventsOf(t, x, name) =
                  EventsOf(d, x, name) + (IF Stored(e) /\ x = page /\ name = e.name THEN w ELSE 0)
        BY <2>3, <2>4, <2>5, <2>8 DEF Counted
      <4>2. EventsOf(db, x, name) \in Nat
        BY RowsCounted
      <4> QED
        BY <2>6, <2>9, <4>1, <4>2
    <3>2. ASSUME NEW x
          PROVE  CallsOf(t, x) = CallsOf(db, x) + (IF llm # <<>> /\ x = page THEN m + w ELSE 0)
      <4>1. /\ CallsOf(d, x) = CallsOf(db, x) + (IF llm # <<>> /\ x = page THEN m ELSE 0)
            /\ CallsOf(t, x) = CallsOf(d, x) + (IF llm # <<>> /\ x = page THEN w ELSE 0)
        BY <2>3, <2>4, <2>5, <2>8 DEF Counted
      <4>2. CallsOf(db, x) \in Nat
        BY RowsCounted
      <4> QED
        BY <2>6, <2>9, <4>1, <4>2
    <3> QED
      BY <3>1, <3>2 DEF Counted
  <2> QED
    BY <2>1, <2>3, <2>7, <2>8, <2>10
<1>4. Holds(n)
  <2> SUFFICES ASSUME Bad # {} PROVE FALSE
    OBVIOUS
  <2>1. Bad \subseteq Nat
    OBVIOUS
  <2>2. PICK k \in Bad : \A m \in Bad : k <= m
    BY <2>1, Least
  <2>3. k \in 0..n /\ ~Holds(k)
    BY <2>2
  <2>4. k \in 1..n
    BY <1>2, <2>3
  <2>5. k - 1 \in 0..n /\ k - 1 \notin Bad
    BY <2>2, <2>4
  <2>6. Holds(k - 1)
    BY <2>5
  <2> HIDE DEF Holds
  <2> QED
    BY <1>3, <2>3, <2>4, <2>6
<1> QED
  BY <1>1, <1>4

\* The numbers of rows, as DiscoveryRun has them.
LEMMA Counts ==
    /\ EventCount = [p \in Doc \X (Name \cup {NoName}) |-> EventsOf(db, p[1], p[2])]
    /\ CallCount = [x \in Doc |-> CallsOf(db, x)]
  BY DEF EventCount, CallCount, EventsOf, CallsOf

LEMMA AsDelivered ==
    ASSUME db \in Database, page \in Doc, NEW e \in Event, NEW llm \in Seq(LLMCall),
           OpenedOnce(llm), NEW n \in Nat, db' = After(n, e, llm)
    PROVE  Run!Delivered(page, e.name, e.claims, llm # <<>>, n)
<1>1. Counted(db, db', page, e, llm, Effective(n, db, page, e))
  BY AfterCounts
<1>2. PICK c, d : c = db /\ d = db'
  OBVIOUS
<1>3. PICK m : m = Effective(n, db, page, e)
  OBVIOUS
<1>4. /\ EventCount = [p \in Doc \X (Name \cup {NoName}) |-> EventsOf(c, p[1], p[2])]
      /\ EventCount' = [p \in Doc \X (Name \cup {NoName}) |-> EventsOf(d, p[1], p[2])]
      /\ CallCount = [x \in Doc |-> CallsOf(c, x)]
      /\ CallCount' = [x \in Doc |-> CallsOf(d, x)]
  BY <1>2 DEF EventCount, CallCount, EventsOf, CallsOf
<1>5. /\ \A x, name : EventsOf(d, x, name) =
            EventsOf(c, x, name) + (IF Stored(e) /\ x = page /\ name = e.name THEN m ELSE 0)
      /\ \A x : CallsOf(d, x) = CallsOf(c, x) + (IF llm # <<>> /\ x = page THEN m ELSE 0)
  BY <1>1, <1>2, <1>3 DEF Counted
<1>6. /\ \A x, name : EventsOf(c, x, name) \in Nat
      /\ \A x : CallsOf(c, x) \in Nat
      /\ EventsOf(c, page, e.name) > 0 <=> Recorded(c, page, e.name)
  BY <1>2, RowsCounted
<1>7. e.name \in Name \cup {NoName}
  BY DEF Event
<1>8. m = IF e.name # NoName
          THEN IF EventCount[<<page, e.name>>] = 0 THEN Run!Least(n, 1) ELSE 0 ELSE n
  <2>1. EventCount[<<page, e.name>>] = EventsOf(c, page, e.name)
    BY <1>4, <1>7
  <2>2. Run!Least(n, 1) = IF n = 0 THEN 0 ELSE 1
    BY DEF Run!Least
  <2> QED
    BY <1>2, <1>3, <1>6, <2>1, <2>2 DEF Effective
<1>9. EventCount' = Run!Plus(EventCount, <<page, e.name>>, IF e.name # NoName \/ e.claims THEN m ELSE 0)
  <2>1. PICK g : g = [EventCount EXCEPT ![<<page, e.name>>] = @ + (IF Stored(e) THEN m ELSE 0)]
    OBVIOUS
  <2>2. \A p \in Doc \X (Name \cup {NoName}) : g[p] = EventCount'[p]
    <3> TAKE p \in Doc \X (Name \cup {NoName})
    <3>1. p = <<p[1], p[2]>>
      OBVIOUS
    <3>2. EventCount[p] = EventsOf(c, p[1], p[2]) /\ EventCount'[p] = EventsOf(d, p[1], p[2])
      BY <1>4
    <3>3. CASE p = <<page, e.name>>
      <4>1. p[1] = page /\ p[2] = e.name
        BY <3>3
      <4>2. g[p] = EventCount[p] + (IF Stored(e) THEN m ELSE 0)
        BY <1>4, <2>1, <3>3
      <4> QED
        BY <1>5, <3>2, <4>1, <4>2
    <3>4. CASE p # <<page, e.name>>
      <4>1. ~(p[1] = page /\ p[2] = e.name)
        BY <3>1, <3>4
      <4>2. g[p] = EventCount[p]
        BY <1>4, <2>1, <3>4
      <4> QED
        BY <1>5, <1>6, <3>2, <4>1, <4>2
    <3> QED
      BY <3>3, <3>4
  <2>3. EventCount' = g
    BY <1>4, <2>1, <2>2
  <2> QED
    BY <2>1, <2>3 DEF Run!Plus, Stored
<1>10. CallCount' = Run!Plus(CallCount, page, IF llm # <<>> THEN m ELSE 0)
  <2>1. PICK g : g = [CallCount EXCEPT ![page] = @ + (IF llm # <<>> THEN m ELSE 0)]
    OBVIOUS
  <2>2. \A x \in Doc : g[x] = CallCount'[x]
    BY <1>4, <1>5, <1>6, <2>1
  <2>3. CallCount' = g
    BY <1>4, <2>1, <2>2
  <2> QED
    BY <2>1, <2>3 DEF Run!Plus
<1> QED
  BY <1>8, <1>9, <1>10 DEF Run!Delivered
-------------------------------------------------------------------------------
(* The history that the mapping looks at.                                  *)

Verdict == [text : Doc, verdict : {"error", "irrelevant", "empty", "events"}]

\* The page whose events are being saved is the last one that had events.
Trail ==
    /\ judged \in Seq(Verdict)
    /\ Len(graph.events) <= MaxFound
    /\ node = "save" => Saved = page

\* Saved, for any history.
LastSaved(s) ==
    LET W == {i \in DOMAIN s : s[i].verdict = "events"}
    IN  IF W = {} THEN CHOOSE d \in Doc : TRUE
        ELSE s[CHOOSE i \in W : \A j \in W : j <= i].text

LEMMA LastIndex ==
    ASSUME NEW n \in Nat, NEW W, W \subseteq 1..n, W # {}
    PROVE  \E i \in W : \A j \in W : j <= i
<1>1. PICK T : T = {n - i : i \in W}
  OBVIOUS
<1>2. T \subseteq Nat /\ T # {}
  <2>1. \A i \in W : i \in 1..n
    OBVIOUS
  <2>2. \A i \in W : n - i \in Nat
    BY <2>1
  <2> QED
    BY <1>1, <2>2
<1>3. PICK k \in T : \A m \in T : k <= m
  BY <1>2, Least
<1>4. PICK i \in W : k = n - i
  BY <1>1, <1>3
<1>5. \A j \in W : n - i <= n - j
  BY <1>1, <1>3, <1>4
<1>6. \A j \in W : j \in Nat /\ i \in Nat
  OBVIOUS
<1> QED
  BY <1>5, <1>6

LEMMA LastSavedAfter ==
    ASSUME NEW s \in Seq(Verdict), NEW v \in Verdict
    PROVE  LastSaved(Append(s, v)) = IF v.verdict = "events" THEN v.text ELSE LastSaved(s)
<1>1. PICK t : t = Append(s, v)
  OBVIOUS
<1>2. /\ Len(s) \in Nat /\ DOMAIN s = 1..Len(s) /\ DOMAIN t = 1..Len(s) + 1
      /\ \A i \in 1..Len(s) : t[i] = s[i]
      /\ t[Len(s) + 1] = v
  BY <1>1, AppendProperties, LenProperties
<1>3. PICK W, U : /\ W = {i \in DOMAIN s : s[i].verdict = "events"}
                  /\ U = {i \in DOMAIN t : t[i].verdict = "events"}
  OBVIOUS
<1>4. LastSaved(s) = IF W = {} THEN CHOOSE d \in Doc : TRUE
                     ELSE s[CHOOSE i \in W : \A j \in W : j <= i].text
  BY <1>3 DEF LastSaved
<1>5. LastSaved(t) = IF U = {} THEN CHOOSE d \in Doc : TRUE
                     ELSE t[CHOOSE i \in U : \A j \in U : j <= i].text
  BY <1>3 DEF LastSaved
<1>6. W \subseteq 1..Len(s)
  BY <1>2, <1>3
<1>7. CASE v.verdict = "events"
  <2>1. U = W \cup {Len(s) + 1}
    BY <1>2, <1>3, <1>7
  <2>2. \A i \in U : (\A j \in U : j <= i) => i = Len(s) + 1
    BY <1>2, <1>6, <2>1
  <2>3. Len(s) + 1 \in U /\ \A j \in U : j <= Len(s) + 1
    BY <1>2, <1>6, <2>1
  <2>4. (CHOOSE i \in U : \A j \in U : j <= i) = Len(s) + 1
    BY <2>2, <2>3
  <2>5. LastSaved(t) = v.text
    BY <1>2, <1>5, <2>3, <2>4
  <2> QED
    BY <1>1, <1>7, <2>5
<1>8. CASE v.verdict # "events"
  <2>1. U = W
    <3>1. \A i \in 1..Len(s) + 1 : i \in 1..Len(s) \/ i = Len(s) + 1
      BY <1>2
    <3> QED
      BY <1>2, <1>3, <1>8, <3>1
  <2>2. CASE W = {}
    BY <1>1, <1>4, <1>5, <1>8, <2>1, <2>2
  <2>3. CASE W # {}
    <3>1. PICK c : c = CHOOSE i \in W : \A j \in W : j <= i
      OBVIOUS
    <3>2. \E i \in W : \A j \in W : j <= i
      BY <1>2, <1>6, <2>3, LastIndex
    <3>3. c \in W
      BY <3>1, <3>2
    <3>4. t[c] = s[c]
      BY <1>2, <1>6, <3>3
    <3>5. LastSaved(s) = s[c].text /\ LastSaved(t) = t[c].text
      BY <1>4, <1>5, <2>1, <2>3, <3>1
    <3> QED
      BY <1>1, <1>8, <3>4, <3>5
  <2> QED
    BY <2>2, <2>3
<1> QED
  BY <1>7, <1>8

LEMMA SavedAfter ==
    ASSUME judged \in Seq(Verdict), page \in Doc, NEW verdict, Judged(verdict),
           verdict \in {"error", "irrelevant", "empty", "events"}
    PROVE  judged' \in Seq(Verdict) /\ Saved' = IF verdict = "events" THEN page ELSE Saved
<1>1. PICK s, t : s = judged /\ t = judged'
  OBVIOUS
<1>2. PICK v : v = [text |-> page, verdict |-> verdict]
  OBVIOUS
<1>3. t = Append(s, v)
  BY <1>1, <1>2 DEF Judged
<1>4. v \in Verdict /\ v.verdict = verdict /\ v.text = page /\ s \in Seq(Verdict)
  BY <1>1, <1>2 DEF Verdict
<1>5. t \in Seq(Verdict)
  BY <1>3, <1>4, AppendProperties
<1>6. LastSaved(t) = IF v.verdict = "events" THEN v.text ELSE LastSaved(s)
  BY <1>3, <1>4, LastSavedAfter
<1>7. Saved = LastSaved(s) /\ Saved' = LastSaved(t)
  BY <1>1 DEF Saved, WithEvents, LastSaved
<1> QED
  BY <1>1, <1>4, <1>5, <1>6, <1>7

LEMMA SavedStays == ASSUME UNCHANGED judged PROVE Saved' = Saved
  BY DEF Saved, WithEvents

LEMMA InitTrail == Init => Trail
<1> SUFFICES ASSUME Init PROVE Trail
  OBVIOUS
<1>1. judged = <<>> /\ graph = Fresh /\ node = "next"
  BY DEF Init
<1>2. judged \in Seq(Verdict)
  BY <1>1, EmptySeq
<1>3. graph.events = <<>>
  BY <1>1 DEF Fresh
<1>4. Len(graph.events) = 0
  BY <1>3, EmptySeq
<1> QED
  BY <1>1, <1>2, <1>4, ExtractionAssumption DEF Trail

LEMMA ExtractBounded ==
    ASSUME Inv, NEW type, NEW found, Extract(type, found),
           \A s \in found : Len(s) <= MaxFound
    PROVE  Len(graph'.events) <= MaxFound
<1>1. PICK events \in found \cup {<<>>} :
         \E calls : graph' = [graph EXCEPT !.events = events, !.calls = calls]
  BY DEF Extract
<1>2. graph'.events = events
  BY <1>1 DEF Inv, Typed, ExtractionState
<1>3. Len(<<>>) = 0
  BY EmptySeq
<1> QED
  BY <1>1, <1>2, <1>3, ExtractionAssumption

LEMMA FoundBounded ==
    /\ \A s \in {<<e>> : e \in Event} : Len(s) <= MaxFound
    /\ \A s \in UNION {[1..n -> Event] : n \in 0..MaxFound} : Len(s) <= MaxFound
<1>1. MaxFound \in Nat \ {0}
  BY ExtractionAssumption
<1>2. ASSUME NEW n \in 0..MaxFound, NEW s \in [1..n -> Event] PROVE Len(s) <= MaxFound
  <2>1. Len(s) = n
    BY <1>1
  <2> QED
    BY <2>1
<1> QED
  BY <1>1, <1>2

LEMMA NextTrail == ASSUME Inv, Trail, [Next]_vars PROVE Trail'
<1>1. MaxFound \in Nat \ {0}
  BY ExtractionAssumption
<1>2. Len(Fresh.events) = 0
  BY EmptySeq DEF Fresh
<1>3. graph \in ExtractionState /\ page \in Doc
  BY DEF Inv, Typed
<1>4. ASSUME NEW verdict \in {"error", "irrelevant", "empty"}, Judged(verdict), graph' = Fresh,
             node' # "save"
      PROVE  Trail'
  BY <1>1, <1>2, <1>3, <1>4, SavedAfter DEF Trail
<1>5. ASSUME UNCHANGED <<page, judged>>, Len(graph'.events) <= MaxFound, node' = "save" => node = "save"
      PROVE  Trail'
  BY <1>5, SavedStays DEF Trail
<1>6. CASE UNCHANGED vars
  BY <1>5, <1>6 DEF vars, local, Trail
<1>7. CASE BeginPage
  <2>1. node' = "classify_relevance" /\ UNCHANGED <<graph, judged>>
    BY <1>7 DEF BeginPage
  <2> QED
    BY <2>1 DEF Trail
<1>8. CASE ClassifyRelevance
  <2>1. PICK r, s, c, nd : graph' = [graph EXCEPT !.relevant = r, !.reason = s, !.calls = c]
    BY <1>8 DEF ClassifyRelevance
  <2>2. graph'.events = graph.events
    BY <1>3, <2>1 DEF ExtractionState
  <2>3. UNCHANGED <<page, judged>> /\ node' # "save"
    BY <1>8 DEF ClassifyRelevance, Inside
  <2> QED
    BY <1>5, <2>2, <2>3 DEF Trail
<1>9. CASE ClassifyEventCount
  <2>1. PICK k, c : graph' = [graph EXCEPT !.count = k, !.calls = c]
    BY <1>9 DEF ClassifyEventCount
  <2>2. graph'.events = graph.events
    BY <1>3, <2>1 DEF ExtractionState
  <2>3. UNCHANGED <<page, judged>> /\ node' # "save"
    BY <1>9 DEF ClassifyEventCount, Inside
  <2> QED
    BY <1>5, <2>2, <2>3 DEF Trail
<1>10. CASE ExtractSingleEvent
  <2>1. UNCHANGED <<page, judged>> /\ node' # "save"
    BY <1>10 DEF ExtractSingleEvent, Extract, Inside
  <2>2. Len(graph'.events) <= MaxFound
    BY <1>10, ExtractBounded, FoundBounded DEF ExtractSingleEvent
  <2> QED
    BY <1>5, <2>1, <2>2
<1>11. CASE ExtractMultiEvent
  <2>1. UNCHANGED <<page, judged>> /\ node' # "save"
    BY <1>11 DEF ExtractMultiEvent, Extract, Inside
  <2>2. Len(graph'.events) <= MaxFound
    BY <1>11, ExtractBounded, FoundBounded DEF ExtractMultiEvent
  <2> QED
    BY <1>5, <2>1, <2>2
<1>12. CASE GraphFails \/ IrrelevantNoReason \/ Irrelevant \/ NoEvents
  BY <1>4, <1>12 DEF GraphFails, IrrelevantNoReason, Irrelevant, NoEvents
<1>13. CASE Relevant
  <2>1. Judged("events") /\ UNCHANGED <<page, graph>>
    BY <1>13 DEF Relevant
  <2>2. judged' \in Seq(Verdict) /\ Saved' = page
    BY <1>3, <2>1, SavedAfter DEF Trail
  <2> QED
    BY <2>1, <2>2 DEF Trail
<1>14. CASE SaveAnswered \/ SaveFails
  <2>1. UNCHANGED <<page, node, graph, judged>>
    BY <1>14 DEF SaveAnswered, SaveFails, Aside
  <2> QED
    BY <1>5, <2>1 DEF Trail
<1>15. CASE PageDone
  <2>1. node' = "next" /\ graph' = Fresh /\ UNCHANGED judged
    BY <1>15 DEF PageDone
  <2> QED
    BY <1>1, <1>2, <2>1 DEF Trail
<1>16. CASE AllDone \/ Crash
  <2>1. node' # "save" /\ UNCHANGED <<graph, judged>>
    BY <1>16 DEF AllDone, Crash
  <2> QED
    BY <2>1 DEF Trail
<1> QED
  BY <1>6, <1>7, <1>8, <1>9, <1>10, <1>11, <1>12, <1>13, <1>14, <1>15, <1>16 DEF Next
-------------------------------------------------------------------------------
(* The steps.                                                              *)

LEMMA MappedStays ==
    /\ UNCHANGED db => UNCHANGED <<EventCount, CallCount>>
    /\ UNCHANGED sum => UNCHANGED Summary
    /\ UNCHANGED unsaved => UNCHANGED LeftNames
    /\ UNCHANGED node => UNCHANGED Phase
  BY DEF EventCount, CallCount, Summary, LeftNames, Phase

LEMMA SummaryCounts ==
    ASSUME sum \in [Counters -> Nat], NEW c \in Counters, NEW n \in Nat, Plus(c, n)
    PROVE  /\ c = "errors" => Summary' = Run!Plus(Summary, "extractionErrors", n)
           /\ c # "errors" => Summary' = Summary
<1>1. sum'["errors"] = IF c = "errors" THEN sum["errors"] + n ELSE sum["errors"]
  BY PlusCounts
<1>2. PICK a, b : a = sum["errors"] /\ b = sum'["errors"]
  OBVIOUS
<1>3. PICK F : F = {"executed", "found", "attempted", "created", "skipped", "fetchErrors", "extractionErrors"}
  OBVIOUS
<1>4. /\ Summary = [k \in F |-> IF k = "extractionErrors" THEN a ELSE 0]
      /\ Summary' = [k \in F |-> IF k = "extractionErrors" THEN b ELSE 0]
  BY <1>2, <1>3 DEF Summary
<1>5. CASE c = "errors"
  <2>1. b = a + n /\ "extractionErrors" \in F
    BY <1>1, <1>2, <1>3, <1>5
  <2>2. Summary' = [Summary EXCEPT !["extractionErrors"] = @ + n]
    BY <1>4, <2>1
  <2> QED
    BY <1>5, <2>2 DEF Run!Plus
<1>6. CASE c # "errors"
  BY <1>1, <1>2, <1>4, <1>6
<1> QED
  BY <1>5, <1>6

LEMMA Phases ==
    /\ node \in InGraph \cup {"next", "end"} => Phase = "extract"
    /\ node = "save" => Phase = "save"
    /\ node = "close" => Phase = "close"
    /\ node = "crashed" => Phase = "idle"
    /\ node' \in InGraph \cup {"next", "end"} => Phase' = "extract"
    /\ node' = "save" => Phase' = "save"
    /\ node' = "close" => Phase' = "close"
    /\ node' = "crashed" => Phase' = "idle"
  BY DEF Phase, InGraph

\* The graph at work.
LEMMA SilentStep ==
    ASSUME node \in InGraph \cup {"next", "end"}, node' \in InGraph \cup {"next", "end"},
           UNCHANGED Summary, UNCHANGED <<todo, first, outcome, unsaved, db, judged>>
    PROVE  UNCHANGED Run!vars
<1>1. Phase = "extract" /\ Phase' = "extract"
  BY Phases
<1> QED
  BY <1>1, MappedStays, SavedStays DEF Run!vars, Run!backend, Run!local, Run!history

LEMMA BeginPageRefines == ASSUME Inv, BeginPage PROVE UNCHANGED Run!vars
<1>1. /\ node = "next" /\ node' = "classify_relevance" /\ Plus("processed", 1)
      /\ UNCHANGED <<todo, first, outcome, unsaved, db, judged>>
  BY DEF BeginPage
<1>2. UNCHANGED Summary
  BY <1>1, SummaryCounts DEF Inv, Typed, Counters
<1> QED
  BY <1>1, <1>2, SilentStep DEF InGraph

LEMMA GraphRefines ==
    ASSUME Inside, node \in InGraph, node' \in InGraph \cup {"end"}
    PROVE  UNCHANGED Run!vars
<1>1. UNCHANGED <<todo, first, outcome, unsaved, db, judged>> /\ UNCHANGED sum
  BY DEF Inside
<1> QED
  BY <1>1, MappedStays, SilentStep

\* A page leaves the graph and its documents the queue.
LEMMA JudgingRefines ==
    ASSUME Inv, node \in InGraph \cup {"end"}, NEW verdict, Judged(verdict)
    PROVE  page \in Doc /\ Run!Judging(page, verdict)
<1>1. Phase = "extract" /\ page \in todo /\ page \in Doc
  BY Phases DEF Inv, Typed
<1> QED
  BY <1>1 DEF Run!Judging, Judged

LEMMA GraphFailsRefines == ASSUME Inv, Trail, GraphFails PROVE Run!GraphFails(page)
<1>1. /\ Faulty /\ node \in InGraph /\ Judged("error") /\ node' = "next" /\ Plus("errors", 1)
      /\ UNCHANGED <<page, unsaved, first, outcome, db>>
  BY DEF GraphFails
<1>2. Run!Judging(page, "error") /\ page \in Doc
  BY <1>1, JudgingRefines
<1>3. Summary' = Run!Plus(Summary, "extractionErrors", 1)
  BY <1>1, SummaryCounts DEF Inv, Typed, Counters
<1>4. Phase = "extract" /\ Phase' = "extract"
  BY <1>1, Phases
<1>5. Saved' = Saved
  BY <1>1, <1>2, SavedAfter DEF Trail
<1> QED
  BY <1>1, <1>2, <1>3, <1>4, <1>5, MappedStays DEF Run!GraphFails, Run!backend

LEMMA NoEventsRefines == ASSUME Inv, Trail, NoEvents PROVE Run!NoEvents(page)
<1>1. /\ node = "end" /\ Judged("empty") /\ node' = "next" /\ Plus("errors", 1)
      /\ UNCHANGED <<page, unsaved, first, outcome, db>>
  BY DEF NoEvents
<1>2. Run!Judging(page, "empty") /\ page \in Doc
  BY <1>1, JudgingRefines
<1>3. Summary' = Run!Plus(Summary, "extractionErrors", 1)
  BY <1>1, SummaryCounts DEF Inv, Typed, Counters
<1>4. Phase = "extract" /\ Phase' = "extract"
  BY <1>1, Phases
<1>5. Saved' = Saved
  BY <1>1, <1>2, SavedAfter DEF Trail
<1> QED
  BY <1>1, <1>2, <1>3, <1>4, <1>5, MappedStays DEF Run!NoEvents, Run!backend

LEMMA IrrelevantNoReasonRefines ==
    ASSUME Inv, Trail, IrrelevantNoReason PROVE Run!IrrelevantNoReason(page)
<1>1. /\ node = "end" /\ Judged("irrelevant") /\ node' = "close" /\ outcome' = "failed"
      /\ Plus("irrelevant", 1)
      /\ UNCHANGED <<page, unsaved, first, db>>
  BY DEF IrrelevantNoReason
<1>2. Run!Judging(page, "irrelevant") /\ page \in Doc
  BY <1>1, JudgingRefines
<1>3. Summary' = Summary
  BY <1>1, SummaryCounts DEF Inv, Typed, Counters
<1>4. Phase' = "close"
  BY <1>1, Phases
<1>5. Saved' = Saved
  BY <1>1, <1>2, SavedAfter DEF Trail
<1> QED
  BY <1>1, <1>2, <1>3, <1>4, <1>5, MappedStays DEF Run!IrrelevantNoReason, Run!backend

LEMMA DeliveriesAllowed ==
    /\ Run!Answered = Answered
    /\ Failing(Nothing) = Run!Failing
    /\ \A e : Faulty => Failing(e) \subseteq Run!Failing
<1>1. MaxAttempts \in Nat \ {0}
  BY ExtractionAssumption
<1>2. Nothing.valid = TRUE
  BY DEF Nothing
<1> QED
  BY <1>1, <1>2 DEF Run!Answered, Run!Failing, Answered, Failing

LEMMA IrrelevantRefines == ASSUME Inv, Trail, Irrelevant PROVE Run!Irrelevant(page)
<1>1. /\ node = "end" /\ ~graph.relevant /\ Judged("irrelevant") /\ node' = "next"
      /\ Plus("irrelevant", 1)
      /\ UNCHANGED <<page, unsaved, first, outcome>>
  BY DEF Irrelevant
<1>2. PICK n \in Answered \cup Failing(Nothing) : db' = After(n, Nothing, graph.calls)
  BY DEF Irrelevant
<1>3. n \in Nat /\ n \in Run!Answered \cup Run!Failing
  BY DeliveriesNat, DeliveriesAllowed
<1>4. PICK llm : llm = graph.calls
  OBVIOUS
<1>5. llm \in Seq(LLMCall) /\ Len(llm) = 1 /\ llm[1].type = "classify_relevance"
  BY <1>1, <1>4 DEF Inv, Typed, ExtractionState, Path
<1>6. OpenedOnce(llm) /\ llm # <<>>
  <2>1. \A j \in 1..Len(llm) : j = 1
    BY <1>5
  <2>2. llm # <<>>
    BY <1>5, EmptySeq
  <2> QED
    BY <1>5, <2>1, <2>2 DEF OpenedOnce
<1>7. Nothing \in Event /\ Nothing.name = NoName /\ Nothing.claims = FALSE
  BY ExtractionAssumption DEF Nothing, Event
<1>8. Run!Delivered(page, NoName, FALSE, TRUE, n)
  <2>1. PICK e : e = Nothing
    OBVIOUS
  <2>2. e \in Event /\ e.name = NoName /\ e.claims = FALSE /\ db' = After(n, e, llm)
    BY <1>2, <1>4, <1>7, <2>1
  <2>3. db \in Database /\ page \in Doc
    BY DEF Inv, Typed
  <2>4. Run!Delivered(page, e.name, e.claims, llm # <<>>, n)
    BY <1>3, <1>5, <1>6, <2>2, <2>3, AsDelivered
  <2>5. (llm # <<>>) = TRUE
    BY <1>6
  <2> QED
    BY <2>2, <2>4, <2>5
<1>9. Run!Judging(page, "irrelevant") /\ page \in Doc
  BY <1>1, JudgingRefines
<1>10. Summary' = Summary
  BY <1>1, SummaryCounts DEF Inv, Typed, Counters
<1>11. Phase = "extract" /\ Phase' = "extract"
  BY <1>1, Phases
<1>12. Saved' = Saved
  BY <1>1, <1>9, SavedAfter DEF Trail
<1> QED
  BY <1>1, <1>3, <1>8, <1>9, <1>10, <1>11, <1>12, MappedStays DEF Run!Irrelevant

LEMMA RelevantRefines ==
    ASSUME Inv, Trail, Relevant
    PROVE  \E t \in Doc, names \in Run!Candidates : Run!Relevant(t, names)
<1>1. /\ node = "end" /\ graph.events # <<>> /\ Judged("events") /\ node' = "save"
      /\ unsaved' = graph.events /\ first' = TRUE
      /\ UNCHANGED <<page, graph, sum, outcome, db>>
  BY DEF Relevant
<1>2. Run!Judging(page, "events") /\ page \in Doc
  BY <1>1, JudgingRefines
<1>3. Summary' = Summary /\ UNCHANGED <<EventCount, CallCount>>
  BY <1>1, MappedStays
<1>4. Phase' = "save"
  BY <1>1, Phases
<1>5. Saved' = page
  BY <1>1, <1>2, SavedAfter DEF Trail
<1>6. PICK s : s = graph.events
  OBVIOUS
<1>7. s \in Seq(Event) /\ s # <<>> /\ Len(s) <= MaxFound /\ Len(s) \in Nat /\ DOMAIN s = 1..Len(s)
  BY <1>1, <1>6, LenProperties DEF Inv, Typed, ExtractionState, Trail
<1>8. PICK names : names = [i \in DOMAIN s |-> s[i].name]
  OBVIOUS
<1>9. names = LeftNames'
  BY <1>1, <1>6, <1>8 DEF LeftNames
<1>10. Len(s) \in 1..MaxFound
  BY <1>7, EmptySeq, ExtractionAssumption
<1>11. names \in [1..Len(s) -> Name \cup {NoName}]
  <2>1. \A i \in 1..Len(s) : s[i] \in Event
    BY <1>7, ElementOfSeq
  <2>2. \A i \in 1..Len(s) : s[i].name \in Name \cup {NoName}
    BY <2>1 DEF Event
  <2> QED
    BY <1>7, <1>8, <2>2
<1>12. names \in Run!Candidates
  BY <1>10, <1>11 DEF Run!Candidates
<1>13. names # <<>>
  <2>1. 1 \in DOMAIN names
    BY <1>10, <1>11
  <2> QED
    BY <2>1
<1>14. Run!Relevant(page, names)
  BY <1>1, <1>2, <1>3, <1>4, <1>5, <1>9, <1>13 DEF Run!Relevant, Run!backend
<1> QED
  BY <1>2, <1>12, <1>14

\* The first candidate of a page has all of its calls, the others none.
LEMMA SentOpens ==
    ASSUME Inv, node = "save"
    PROVE  Sent \in Seq(LLMCall) /\ OpenedOnce(Sent) /\ (Sent # <<>>) = first
<1>1. PICK type \in Extracting :
         graph.calls = <<Success("classify_relevance"), Success("classify_event_count"), Success(type)>>
  BY DEF Inv, Path, Trusted
<1>2. PICK a, b, c : /\ a = Success("classify_relevance") /\ b = Success("classify_event_count")
                     /\ c = Success(type)
  OBVIOUS
<1>3. a \in LLMCall /\ b \in LLMCall /\ c \in LLMCall
  BY <1>2, SuccessIsCall DEF Extracting, CallType
<1>4. /\ a.type = "classify_relevance" /\ b.type # "classify_relevance"
      /\ c.type # "classify_relevance"
  BY <1>2 DEF Success, Extracting
<1>5. PICK s : s = <<a, b, c>>
  OBVIOUS
<1>6. s \in Seq(LLMCall) /\ Len(s) = 3 /\ s[1] = a /\ s[2] = b /\ s[3] = c /\ s # <<>>
  BY <1>3, <1>5
<1>7. \A j \in 1..3 : j = 1 \/ j = 2 \/ j = 3
  OBVIOUS
<1>8. OpenedOnce(s)
  BY <1>4, <1>6, <1>7 DEF OpenedOnce
<1>9. <<>> \in Seq(LLMCall) /\ Len(<<>>) = 0
  BY EmptySeq
<1>10. OpenedOnce(<<>>)
  BY <1>9 DEF OpenedOnce
<1>11. Sent = IF first THEN s ELSE <<>>
  BY <1>1, <1>2, <1>5 DEF Sent
<1>12. first \in BOOLEAN
  BY DEF Inv, Typed
<1> QED
  BY <1>6, <1>8, <1>9, <1>10, <1>11, <1>12

LEMMA LengthIs ==
    ASSUME NEW S, NEW n \in Nat, NEW f \in [1..n -> S] PROVE f \in Seq(S) /\ Len(f) = n
<1>1. f \in Seq(S)
  BY SeqDef
<1>2. Len(f) \in Nat /\ DOMAIN f = 1..Len(f) /\ DOMAIN f = 1..n
  BY <1>1, LenProperties
<1> QED
  BY <1>1, <1>2

LEMMA SavingRefines ==
    ASSUME Inv, Trail, Saving, Advance, Aside,
           NEW counts, NEW n \in counts, n \in Nat, db' = After(n, Head(unsaved), Sent)
    PROVE  Run!Saving(counts)
<1>1. /\ node = "save" /\ unsaved # <<>> /\ unsaved' = Tail(unsaved) /\ first' = FALSE
      /\ UNCHANGED <<todo, page, node, graph, outcome, judged>>
  BY DEF Saving, Advance, Aside
<1>2. PICK e, llm : e = Head(unsaved) /\ llm = Sent
  OBVIOUS
<1>3. PICK s, r : s = unsaved /\ r = unsaved'
  OBVIOUS
<1>4. s \in Seq(Event) /\ s # <<>> /\ r = Tail(s) /\ e = Head(s)
  BY <1>1, <1>2, <1>3 DEF Inv, Typed
<1>5. /\ Len(s) \in Nat /\ DOMAIN s = 1..Len(s) /\ e \in Event
      /\ r \in Seq(Event) /\ Len(r) = Len(s) - 1 /\ DOMAIN r = 1..Len(r) /\ e = s[1]
      /\ \A i \in 1..Len(r) : r[i] = s[i + 1]
  BY <1>4, HeadTailProperties, LenProperties
<1>6. Len(s) >= 1
  BY <1>4, <1>5, EmptySeq
<1>7. PICK p, q : p = LeftNames /\ q = LeftNames'
  OBVIOUS
<1>8. p = [i \in 1..Len(s) |-> s[i].name] /\ q = [i \in 1..Len(s) - 1 |-> r[i].name]
  BY <1>3, <1>5, <1>7 DEF LeftNames
<1>9. /\ p \in Seq(Name \cup {NoName}) /\ q \in Seq(Name \cup {NoName})
      /\ Len(p) = Len(s) /\ Len(q) = Len(s) - 1 /\ p # <<>>
  <2>1. \A i \in 1..Len(s) : s[i] \in Event
    BY <1>4, ElementOfSeq
  <2>2. \A i \in 1..Len(s) - 1 : r[i] \in Event
    BY <1>5, ElementOfSeq
  <2>3. \A x \in Event : x.name \in Name \cup {NoName}
    BY DEF Event
  <2>4. /\ p \in [1..Len(s) -> Name \cup {NoName}]
        /\ q \in [1..Len(s) - 1 -> Name \cup {NoName}]
    BY <1>8, <2>1, <2>2, <2>3
  <2>5. Len(s) - 1 \in Nat
    BY <1>5, <1>6
  <2>6. /\ p \in Seq(Name \cup {NoName}) /\ q \in Seq(Name \cup {NoName})
        /\ Len(p) = Len(s) /\ Len(q) = Len(s) - 1
    BY <1>5, <2>4, <2>5, LengthIs
  <2>7. p # <<>>
    BY <1>6, <2>6, EmptySeq
  <2> QED
    BY <2>6, <2>7
<1>10. Head(p) = e.name
  <2>1. Head(p) = p[1]
    BY <1>9, HeadTailProperties
  <2> QED
    BY <1>5, <1>6, <1>8, <2>1
<1>11. q = Tail(p)
  <2>1. /\ Tail(p) \in Seq(Name \cup {NoName}) /\ Len(Tail(p)) = Len(s) - 1
        /\ \A i \in 1..Len(s) - 1 : Tail(p)[i] = p[i + 1]
    BY <1>9, HeadTailProperties
  <2>2. \A i \in 1..Len(s) - 1 : i + 1 \in 1..Len(s)
    BY <1>5
  <2>3. \A i \in 1..Len(s) - 1 : q[i] = Tail(p)[i]
    BY <1>5, <1>8, <2>1, <2>2
  <2> QED
    BY <1>9, <2>1, <2>3, SeqEqual
<1>12. LeftNames # <<>> /\ Head(LeftNames) = e.name /\ LeftNames' = Tail(LeftNames)
  BY <1>7, <1>9, <1>10, <1>11
<1>13. Run!Delivered(Saved, e.name, e.claims, first, n)
  <2>1. db \in Database /\ page \in Doc /\ Saved = page
    BY <1>1 DEF Inv, Typed, Trail
  <2>2. llm \in Seq(LLMCall) /\ OpenedOnce(llm) /\ (llm # <<>>) = first
    BY <1>1, <1>2, SentOpens
  <2>3. db' = After(n, e, llm)
    BY <1>2
  <2>4. Run!Delivered(page, e.name, e.claims, llm # <<>>, n)
    BY <1>5, <2>1, <2>2, <2>3, AsDelivered
  <2> QED
    BY <2>1, <2>2, <2>4
<1>14. e.claims \in BOOLEAN
  BY <1>5 DEF Event
<1>15. Phase = "save" /\ UNCHANGED <<Phase, Saved>>
  BY <1>1, Phases, MappedStays, SavedStays
<1> QED
  BY <1>1, <1>12, <1>13, <1>14, <1>15 DEF Run!Saving, Run!history

LEMMA SaveAnsweredRefines == ASSUME Inv, Trail, SaveAnswered PROVE Run!SaveAnswered
<1>1. PICK n \in Answered :
         /\ db' = After(n, Head(unsaved), Sent)
         /\ Plus("created", IF Creates(n, Head(unsaved), Sent) THEN 1 ELSE 0)
  BY DEF SaveAnswered
<1>2. Saving /\ Advance /\ Aside
  BY DEF SaveAnswered
<1>3. n \in Nat /\ n \in Run!Answered
  BY DeliveriesNat, DeliveriesAllowed
<1>4. Run!Saving(Run!Answered)
  BY <1>1, <1>2, <1>3, SavingRefines
<1>5. Summary' = Summary
  <2>1. PICK k \in Nat : Plus("created", k)
    BY <1>1
  <2> QED
    BY <2>1, SummaryCounts DEF Inv, Typed, Counters
<1> QED
  BY <1>4, <1>5 DEF Run!SaveAnswered

LEMMA SaveFailsRefines == ASSUME Faulty, Inv, Trail, SaveFails PROVE Run!SaveFails
<1>1. PICK n \in Failing(Head(unsaved)) : db' = After(n, Head(unsaved), Sent)
  BY DEF SaveFails
<1>2. Saving /\ Advance /\ Aside /\ Plus("errors", 1)
  BY DEF SaveFails
<1>3. n \in Nat /\ n \in Run!Failing
  BY DeliveriesNat, DeliveriesAllowed
<1>4. Run!Saving(Run!Failing)
  BY <1>1, <1>2, <1>3, SavingRefines
<1>5. Summary' = Run!Plus(Summary, "extractionErrors", 1)
  BY <1>2, SummaryCounts DEF Inv, Typed, Counters
<1> QED
  BY <1>4, <1>5 DEF Run!SaveFails

LEMMA PageDoneRefines == ASSUME PageDone PROVE Run!PageDone
<1>1. /\ node = "save" /\ unsaved = <<>> /\ node' = "next"
      /\ UNCHANGED <<todo, unsaved, first, sum, outcome, db, judged>>
  BY DEF PageDone
<1>2. Phase = "save" /\ Phase' = "extract"
  BY <1>1, Phases
<1>3. LeftNames = <<>>
  BY <1>1 DEF LeftNames
<1> QED
  BY <1>1, <1>2, <1>3, MappedStays, SavedStays DEF Run!PageDone, Run!backend, Run!history

LEMMA AllDoneRefines == ASSUME AllDone PROVE Run!ExtractDone
<1>1. /\ node = "next" /\ todo = {} /\ node' = "close"
      /\ outcome' = IF sum["errors"] > 0 /\ outcome = "completed" THEN "partial" ELSE outcome
      /\ UNCHANGED <<todo, unsaved, first, sum, db, judged>>
  BY DEF AllDone
<1>2. Phase = "extract" /\ Phase' = "close"
  BY <1>1, Phases
<1>3. Summary["extractionErrors"] = sum["errors"]
  BY DEF Summary
<1> QED
  BY <1>1, <1>2, <1>3, MappedStays, SavedStays DEF Run!ExtractDone, Run!backend, Run!history

LEMMA CrashRefines == ASSUME Inv, Crash PROVE Run!Crash
<1>1. /\ Faulty /\ node \notin {"close", "crashed"} /\ node' = "crashed"
      /\ UNCHANGED <<todo, unsaved, first, sum, outcome, db, judged>>
  BY DEF Crash
<1>2. Phase # "idle" /\ Phase' = "idle"
  BY <1>1, Phases DEF Inv, Typed
<1> QED
  BY <1>1, <1>2, MappedStays, SavedStays DEF Run!Crash, Run!backend, Run!history

LEMMA NextRefines == ASSUME Faulty, Inv, Trail, [Next]_vars PROVE [Run!Next]_(Run!vars)
<1>1. CASE UNCHANGED vars
  <2>1. UNCHANGED <<todo, node, unsaved, first, sum, outcome, db, judged>>
    BY <1>1 DEF vars, local
  <2> QED
    BY <2>1, MappedStays, SavedStays DEF Run!vars, Run!backend, Run!local, Run!history
<1>2. CASE BeginPage
  BY <1>2, BeginPageRefines
<1>3. CASE ClassifyRelevance
  <2>1. Inside /\ node \in InGraph /\ node' \in InGraph \cup {"end"}
    BY <1>3 DEF ClassifyRelevance, InGraph
  <2> QED
    BY <2>1, GraphRefines
<1>4. CASE ClassifyEventCount
  <2>1. Inside /\ node \in InGraph /\ node' \in InGraph \cup {"end"}
    BY <1>4 DEF ClassifyEventCount, InGraph
  <2> QED
    BY <2>1, GraphRefines
<1>5. CASE ExtractSingleEvent \/ ExtractMultiEvent
  <2>1. Inside /\ node \in InGraph /\ node' \in InGraph \cup {"end"}
    BY <1>5 DEF ExtractSingleEvent, ExtractMultiEvent, Extract, InGraph
  <2> QED
    BY <2>1, GraphRefines
<1>6. page \in Doc
  BY DEF Inv, Typed
<1>7. CASE GraphFails
  BY <1>6, <1>7, GraphFailsRefines DEF Run!Next, Run!Step
<1>8. CASE IrrelevantNoReason
  BY <1>6, <1>8, IrrelevantNoReasonRefines DEF Run!Next, Run!Step
<1>9. CASE Irrelevant
  BY <1>6, <1>9, IrrelevantRefines DEF Run!Next, Run!Step
<1>10. CASE NoEvents
  BY <1>6, <1>10, NoEventsRefines DEF Run!Next, Run!Step
<1>11. CASE Relevant
  BY <1>11, RelevantRefines DEF Run!Next, Run!Step
<1>12. CASE SaveAnswered
  BY <1>12, SaveAnsweredRefines DEF Run!Next, Run!Step
<1>13. CASE SaveFails
  BY <1>13, SaveFailsRefines DEF Run!Next, Run!Step
<1>14. CASE PageDone
  BY <1>14, PageDoneRefines DEF Run!Next, Run!Step
<1>15. CASE AllDone
  BY <1>15, AllDoneRefines DEF Run!Next, Run!Step
<1>16. CASE Crash
  BY <1>16, CrashRefines DEF Run!Next
<1> QED
  BY <1>1, <1>2, <1>3, <1>4, <1>5, <1>7, <1>8, <1>9, <1>10, <1>11, <1>12, <1>13, <1>14, <1>15,
     <1>16 DEF Next
-------------------------------------------------------------------------------
(* What is stored of a document, compared with what the graph extracted.   *)

IsNameless == {e \in Event : e.name = NoName /\ e.claims}
NamelessOne(e) == IF e.name = NoName /\ e.claims THEN 1 ELSE 0

\* No name is stored twice, or without having been extracted; as long as nothing has
\* failed, the nameless events that are not stored are still to be saved.
Tally ==
    /\ \A d \in Doc : \A name \in Name :
          /\ EventsOf(db, d, name) <= 1
          /\ Recorded(db, d, name) => name \in Names(offered[d])
    /\ node = "save" => Names(unsaved) \subseteq Names(offered[page])
    /\ sum["errors"] = 0 /\ node # "crashed" =>
          \A d \in Doc : Nameless(offered[d]) <=
              EventsOf(db, d, NoName) + (IF node = "save" /\ d = page THEN Nameless(unsaved) ELSE 0)

LEMMA NamelessCount ==
    ASSUME NEW s \in Seq(Event)
    PROVE  /\ Nameless(s) \in Nat /\ (s = <<>> => Nameless(s) = 0)
           /\ s # <<>> => Nameless(s) <= Nameless(Tail(s)) + NamelessOne(Head(s))
<1>1. /\ Len(s) \in Nat /\ DOMAIN s = 1..Len(s) /\ \A i \in DOMAIN s : s[i] \in Event
  BY LenProperties, ElementOfSeq
<1>2. PICK H : H = {i \in DOMAIN s : s[i].name = NoName /\ s[i].claims}
  OBVIOUS
<1>3. Nameless(s) = Cardinality(H) /\ H \subseteq 1..Len(s)
  BY <1>1, <1>2 DEF Nameless
<1>4. IsFiniteSet(H) /\ Cardinality(H) \in Nat
  BY <1>1, <1>3, IndicesFinite
<1>5. s = <<>> => Cardinality(H) = 0
  <2>1. s = <<>> => H = {}
    BY <1>2
  <2> QED
    BY <2>1, FS_EmptySet
<1>6. ASSUME s # <<>> PROVE Cardinality(H) <= Nameless(Tail(s)) + NamelessOne(Head(s))
  <2>1. PICK t : t = Tail(s)
    OBVIOUS
  <2>2. /\ t \in Seq(Event) /\ Len(t) = Len(s) - 1 /\ Len(t) \in Nat /\ DOMAIN t = 1..Len(t)
        /\ \A i \in 1..Len(t) : t[i] = s[i + 1]
        /\ Head(s) = s[1] /\ 1 \in DOMAIN s
    <3>1. t \in Seq(Event) /\ Len(t) = Len(s) - 1 /\ Head(s) = s[1]
      BY <1>6, <2>1, HeadTailProperties
    <3>2. Len(t) \in Nat /\ DOMAIN t = 1..Len(t)
      BY <3>1, LenProperties
    <3>3. \A i \in 1..Len(t) : t[i] = s[i + 1]
      BY <1>6, <2>1, HeadTailProperties
    <3> QED
      BY <1>1, <3>1, <3>2, <3>3
  <2>3. PICK T : T = {i \in DOMAIN t : t[i].name = NoName /\ t[i].claims}
    OBVIOUS
  <2>4. Nameless(Tail(s)) = Cardinality(T) /\ T \subseteq 1..Len(t)
    BY <2>1, <2>2, <2>3 DEF Nameless
  <2>5. IsFiniteSet(T) /\ Cardinality(T) \in Nat
    BY <2>2, <2>4, IndicesFinite
  <2>6. PICK R : R = H \ {1}
    OBVIOUS
  <2>7. \A i \in R : i - 1 \in T
    <3> TAKE i \in R
    <3>1. i \in 1..Len(s) /\ i # 1 /\ s[i].name = NoName /\ s[i].claims
      BY <1>2, <1>3, <2>6
    <3>2. i - 1 \in 1..Len(t) /\ (i - 1) + 1 = i
      BY <1>1, <2>2, <3>1
    <3>3. t[i - 1] = s[i]
      BY <2>2, <3>2
    <3> QED
      BY <2>2, <2>3, <3>1, <3>2, <3>3
  <2>8. PICK f : f = [i \in R |-> i - 1]
    OBVIOUS
  <2>9. f \in Injection(R, T)
    <3>1. f \in [R -> T] /\ \A i \in R : f[i] = i - 1
      BY <2>7, <2>8
    <3>2. \A i, j \in R : f[i] = f[j] => i = j
      <4>1. R \subseteq Nat
        BY <1>3, <2>6
      <4> QED
        BY <3>1, <4>1
    <3>3. DOMAIN f = R
      BY <2>8
    <3> QED
      BY <3>1, <3>2, <3>3 DEF Injection, IsInjective
  <2>10. Cardinality(R) <= Cardinality(T)
    BY <2>5, <2>9, FS_Injection
  <2>11. Cardinality(R) = IF 1 \in H THEN Cardinality(H) - 1 ELSE Cardinality(H)
    BY <1>4, <2>6, FS_RemoveElement
  <2>12. 1 \in H <=> NamelessOne(Head(s)) = 1
    BY <1>2, <2>2 DEF NamelessOne
  <2>13. NamelessOne(Head(s)) \in {0, 1}
    BY DEF NamelessOne
  <2> QED
    BY <1>4, <2>4, <2>5, <2>10, <2>11, <2>12, <2>13
<1> QED
  BY <1>3, <1>4, <1>5, <1>6

\* Steps that neither store nor extract.
LEMMA TallyStays ==
    ASSUME Inv, Tally, UNCHANGED <<db, offered>>, node' # "save" \/ UNCHANGED <<node, page, unsaved>>,
           node = "save" /\ node' # "crashed" => UNCHANGED <<page, unsaved>> /\ (node' = "save" \/ unsaved = <<>>),
           node' # "crashed" => node # "crashed",
           sum'["errors"] = 0 => sum["errors"] = 0
    PROVE  Tally'
<1>1. Nameless(<<>>) = 0
  <2>1. <<>> \in Seq(Event)
    BY EmptySeq
  <2> QED
    BY <2>1, NamelessCount
<1>2. \A d \in Doc : EventsOf(db, d, NoName) \in Nat
  BY RowsCounted DEF Inv, Typed
<1>3. ASSUME sum'["errors"] = 0, node' # "crashed", NEW d \in Doc
      PROVE  Nameless(offered[d]) <=
              EventsOf(db, d, NoName) + (IF node' = "save" /\ d = page' THEN Nameless(unsaved') ELSE 0)
  <2>1. Nameless(offered[d]) <=
              EventsOf(db, d, NoName) + (IF node = "save" /\ d = page THEN Nameless(unsaved) ELSE 0)
    BY <1>3 DEF Tally
  <2>2. CASE node = "save"
    <3>1. page' = page /\ unsaved' = unsaved /\ (node' = "save" \/ unsaved = <<>>)
      BY <1>3, <2>2
    <3>2. CASE node' = "save"
      BY <2>1, <2>2, <3>1, <3>2
    <3>3. CASE node' # "save"
      <4>1. Nameless(unsaved) = 0
        BY <1>1, <3>1, <3>3
      <4> QED
        BY <2>1, <2>2, <3>3, <4>1
    <3> QED
      BY <3>2, <3>3
  <2>3. CASE node # "save"
    <3>1. node' # "save"
      BY <2>3
    <3> QED
      BY <2>1, <2>3, <3>1
  <2> QED
    BY <2>2, <2>3
<1>4. node' = "save" => Names(unsaved') \subseteq Names(offered[page'])
  BY DEF Tally
<1> QED
  BY <1>3, <1>4 DEF Tally

LEMMA TallyRelevant == ASSUME Inv, Tally, Relevant PROVE Tally'
<1>1. /\ node = "end" /\ node' = "save" /\ unsaved' = graph.events
      /\ offered' = [offered EXCEPT ![page] = graph.events]
      /\ UNCHANGED <<page, graph, sum, outcome, db>>
  BY DEF Relevant
<1>2. /\ page \in todo /\ page \in Doc /\ offered \in [Doc -> Seq(Event)]
      /\ db \in Database /\ graph.events \in Seq(Event)
  BY <1>1 DEF Inv, Typed, ExtractionState
<1>3. /\ offered'[page] = graph.events
      /\ \A d \in Doc : d # page => offered'[d] = offered[d]
  BY <1>1, <1>2
<1>4. \A name : ~Recorded(db, page, name)
  <2> SUFFICES ASSUME NEW i \in DOMAIN db.events, NEW name, db.events[i] = [doc |-> page, name |-> name]
               PROVE  FALSE
    BY DEF Recorded
  <2>1. db.events[i].doc = page
    OBVIOUS
  <2> QED
    BY <1>2, <2>1 DEF Inv, DoneWith
<1>5. \A d \in Doc : EventsOf(db, d, NoName) \in Nat
  BY <1>2, RowsCounted
<1>6. \A d \in Doc : \A name \in Name :
         EventsOf(db, d, name) <= 1 /\ (Recorded(db, d, name) => name \in Names(offered'[d]))
  BY <1>3, <1>4 DEF Tally
<1>7. ASSUME sum["errors"] = 0, NEW d \in Doc
      PROVE  Nameless(offered'[d]) <=
                EventsOf(db, d, NoName) + (IF d = page THEN Nameless(graph.events) ELSE 0)
  <2>1. CASE d = page
    <3>1. Nameless(graph.events) \in Nat
      BY <1>2, NamelessCount
    <3> QED
      BY <1>3, <1>5, <2>1, <3>1
  <2>2. CASE d # page
    BY <1>1, <1>3, <1>7, <2>2 DEF Tally
  <2> QED
    BY <2>1, <2>2
<1> QED
  BY <1>1, <1>3, <1>6, <1>7 DEF Tally

\* The calls of an irrelevant page come without a candidate to store.
LEMMA TallyIrrelevant == ASSUME Inv, Tally, Irrelevant PROVE Tally'
<1>1. /\ node = "end" /\ node' = "next" /\ ~graph.relevant /\ Plus("irrelevant", 1)
      /\ UNCHANGED <<page, unsaved, first, outcome, offered>>
  BY DEF Irrelevant
<1>2. PICK n \in Nat : db' = After(n, Nothing, graph.calls)
  BY DeliveriesNat DEF Irrelevant
<1>3. PICK e, llm : e = Nothing /\ llm = graph.calls
  OBVIOUS
<1>4. e \in Event /\ ~Stored(e)
  BY <1>3, ExtractionAssumption DEF Nothing, Event, Stored
<1>5. llm \in Seq(LLMCall) /\ OpenedOnce(llm)
  <2>1. llm \in Seq(LLMCall) /\ Len(llm) = 1 /\ llm[1].type = "classify_relevance"
    BY <1>1, <1>3 DEF Inv, Typed, ExtractionState, Path
  <2> QED
    BY <2>1 DEF OpenedOnce
<1>6. Counted(db, db', page, e, llm, Effective(n, db, page, e)) /\ db' \in Database
  BY <1>2, <1>3, <1>4, <1>5, AfterCounts DEF Inv, Typed
<1>7. \A d, name : EventsOf(db, d, name) \in Nat /\ EventsOf(db', d, name) = EventsOf(db, d, name)
  BY <1>4, <1>6, RowsCounted DEF Counted, Inv, Typed
<1>8. \A d, name : Recorded(db', d, name) <=> Recorded(db, d, name)
  BY <1>6, <1>7, RowsCounted DEF Inv, Typed
<1>9. sum'["errors"] = sum["errors"]
  BY <1>1, PlusCounts DEF Inv, Typed, Counters
<1> QED
  BY <1>1, <1>7, <1>8, <1>9 DEF Tally

\* An event that is saved is counted once if it has a name, and leaves those to be saved.
LEMMA TallySaving ==
    ASSUME Inv, Tally, Saving, Advance, Aside, NEW n \in Nat, db' = After(n, Head(unsaved), Sent),
           sum'["errors"] = 0 => sum["errors"] = 0 /\ n > 0
    PROVE  Tally'
<1>1. /\ node = "save" /\ unsaved # <<>> /\ unsaved' = Tail(unsaved)
      /\ UNCHANGED <<page, node, offered>>
  BY DEF Saving, Advance, Aside
<1>2. PICK e, llm : e = Head(unsaved) /\ llm = Sent
  OBVIOUS
<1>3. /\ unsaved \in Seq(Event) /\ e \in Event /\ Tail(unsaved) \in Seq(Event)
      /\ db \in Database /\ page \in Doc
  BY <1>1, <1>2, HeadTailProperties DEF Inv, Typed
<1>4. llm \in Seq(LLMCall) /\ OpenedOnce(llm)
  BY <1>1, <1>2, SentOpens
<1>5. Counted(db, db', page, e, llm, Effective(n, db, page, e)) /\ db' \in Database
  BY <1>2, <1>3, <1>4, AfterCounts
<1>6. PICK m : m = Effective(n, db, page, e)
  OBVIOUS
<1>7. \A d, name :
         /\ EventsOf(db, d, name) \in Nat /\ EventsOf(db', d, name) \in Nat
         /\ EventsOf(db', d, name) =
               EventsOf(db, d, name) + (IF Stored(e) /\ d = page /\ name = e.name THEN m ELSE 0)
         /\ EventsOf(db, d, name) > 0 <=> Recorded(db, d, name)
         /\ EventsOf(db', d, name) > 0 <=> Recorded(db', d, name)
  BY <1>3, <1>5, <1>6, RowsCounted DEF Counted
<1>8. e.name \in Names(unsaved) /\ Names(unsaved') \subseteq Names(unsaved)
  <2>1. /\ Len(unsaved) \in Nat /\ DOMAIN unsaved = 1..Len(unsaved) /\ Len(unsaved) > 0
        /\ Len(unsaved') = Len(unsaved) - 1 /\ DOMAIN unsaved' = 1..Len(unsaved')
        /\ \A j \in 1..Len(unsaved') : unsaved'[j] = unsaved[j + 1]
        /\ Head(unsaved) = unsaved[1]
    BY <1>1, <1>3, LenProperties, HeadTailProperties
  <2>2. 1 \in DOMAIN unsaved /\ \A j \in DOMAIN unsaved' : j + 1 \in DOMAIN unsaved
    BY <2>1
  <2> QED
    BY <1>2, <2>1, <2>2 DEF Names
<1>9. ASSUME NEW d \in Doc, NEW name \in Name
      PROVE  EventsOf(db', d, name) <= 1 /\ (Recorded(db', d, name) => name \in Names(offered[d]))
  <2>1. EventsOf(db, d, name) <= 1 /\ (Recorded(db, d, name) => name \in Names(offered[d]))
    BY DEF Tally
  <2>2. name # NoName
    BY ExtractionAssumption
  <2>3. CASE d = page /\ name = e.name
    <3>1. name \in Names(offered[d])
      BY <1>1, <1>8, <2>3 DEF Tally
    <3>2. m = IF n = 0 \/ Recorded(db, d, name) THEN 0 ELSE 1
      BY <1>6, <2>2, <2>3 DEF Effective
    <3> QED
      BY <1>7, <2>1, <3>1, <3>2
  <2>4. CASE ~(d = page /\ name = e.name)
    <3>1. EventsOf(db', d, name) = EventsOf(db, d, name)
      BY <1>7, <2>4
    <3> QED
      BY <1>7, <2>1, <3>1
  <2> QED
    BY <2>3, <2>4
<1>10. ASSUME sum'["errors"] = 0, NEW d \in Doc
       PROVE  Nameless(offered[d]) <=
                 EventsOf(db', d, NoName) + (IF d = page THEN Nameless(unsaved') ELSE 0)
  <2>1. n > 0 /\ Nameless(offered[d]) <=
                 EventsOf(db, d, NoName) + (IF d = page THEN Nameless(unsaved) ELSE 0)
    BY <1>1, <1>10 DEF Tally
  <2>2. CASE d # page
    BY <1>7, <2>1, <2>2
  <2>3. CASE d = page
    <3>1. /\ Nameless(unsaved) <= Nameless(unsaved') + NamelessOne(e)
          /\ Nameless(unsaved) \in Nat /\ Nameless(unsaved') \in Nat
      BY <1>1, <1>2, <1>3, NamelessCount
    <3>2. NamelessOne(e) <= EventsOf(db', d, NoName) - EventsOf(db, d, NoName)
      <4>1. CASE e.name = NoName /\ e.claims
        <5>1. m = n /\ Stored(e) /\ NamelessOne(e) = 1
          BY <1>6, <4>1 DEF Effective, Stored, NamelessOne
        <5> QED
          BY <1>7, <2>1, <2>3, <4>1, <5>1
      <4>2. CASE ~(e.name = NoName /\ e.claims)
        <5>1. NamelessOne(e) = 0 /\ ~(Stored(e) /\ NoName = e.name)
          BY <4>2 DEF NamelessOne, Stored
        <5> QED
          BY <1>7, <5>1
      <4> QED
        BY <4>1, <4>2
    <3>3. NamelessOne(e) \in {0, 1}
      BY DEF NamelessOne
    <3>4. Nameless(offered[d]) \in Nat
      <4>1. offered[d] \in Seq(Event)
        BY DEF Inv, Typed
      <4> QED
        BY <4>1, NamelessCount
    <3> QED
      BY <1>7, <2>1, <2>3, <3>1, <3>2, <3>3, <3>4
  <2> QED
    BY <2>2, <2>3
<1>11. Names(unsaved') \subseteq Names(offered[page])
  BY <1>1, <1>8 DEF Tally
<1> QED
  BY <1>1, <1>9, <1>10, <1>11 DEF Tally

LEMMA NextTally == ASSUME Inv, Tally, [Next]_vars PROVE Tally'
<1>1. sum["errors"] \in Nat /\ DOMAIN sum = Counters /\ sum \in [Counters -> Nat]
  BY DEF Inv, Typed, Counters
<1>2. \A c \in Counters, k \in Nat : Plus(c, k) => sum'["errors"] = sum["errors"] + (IF c = "errors" THEN k ELSE 0)
  BY <1>1, PlusCounts DEF Inv, Typed, Counters
<1>3. CASE BeginPage
  BY <1>1, <1>2, <1>3, TallyStays DEF BeginPage, Counters
<1>4. CASE ClassifyRelevance \/ ClassifyEventCount \/ ExtractSingleEvent \/ ExtractMultiEvent
  <2>1. node \in InGraph /\ node' \in InGraph \cup {"end"} /\ Inside
    BY <1>4 DEF ClassifyRelevance, ClassifyEventCount, ExtractSingleEvent, ExtractMultiEvent, Extract, InGraph
  <2> QED
    BY <2>1, TallyStays DEF Inside, InGraph
<1>5. CASE GraphFails
  BY <1>1, <1>2, <1>5, TallyStays DEF GraphFails, Judged, InGraph, Counters
<1>6. CASE IrrelevantNoReason
  BY <1>1, <1>2, <1>6, TallyStays DEF IrrelevantNoReason, Counters
<1>7. CASE NoEvents
  BY <1>1, <1>2, <1>7, TallyStays DEF NoEvents, Counters
<1>8. CASE SaveAnswered
  <2>1. PICK n \in Answered : /\ db' = After(n, Head(unsaved), Sent)
                              /\ Plus("created", IF Creates(n, Head(unsaved), Sent) THEN 1 ELSE 0)
    BY <1>8 DEF SaveAnswered
  <2>2. n \in Nat /\ n > 0
    BY DeliveriesNat
  <2>3. sum'["errors"] = sum["errors"]
    BY <1>1, <1>2, <2>1 DEF Counters
  <2> QED
    BY <1>8, <2>1, <2>2, <2>3, TallySaving DEF SaveAnswered
<1>9. CASE SaveFails
  <2>1. PICK n \in Nat : db' = After(n, Head(unsaved), Sent)
    BY <1>9, DeliveriesNat DEF SaveFails
  <2>2. sum'["errors"] # 0
    BY <1>1, <1>2, <1>9 DEF SaveFails, Counters
  <2> QED
    BY <1>9, <2>1, <2>2, TallySaving DEF SaveFails
<1>10. CASE PageDone
  BY <1>10, TallyStays DEF PageDone
<1>11. CASE AllDone
  BY <1>11, TallyStays DEF AllDone
<1>12. CASE Crash
  BY <1>12, TallyStays DEF Crash
<1>13. CASE UNCHANGED vars
  <2>1. UNCHANGED <<todo, page, node, graph, unsaved, sum, outcome, db, offered>>
    BY <1>13 DEF vars, local
  <2> QED
    BY <2>1, TallyStays
<1> QED
  BY <1>3, <1>4, <1>5, <1>6, <1>7, <1>8, <1>9, <1>10, <1>11, <1>12, <1>13, TallyRelevant,
     TallyIrrelevant DEF Next

LEMMA InitTally == Init => Tally
<1> SUFFICES ASSUME Init PROVE Tally
  OBVIOUS
<1>1. Inv
  BY InitInv
<1>2. /\ node = "next" /\ DOMAIN db.events = {}
      /\ \A d \in Doc : offered[d] = <<>>
  BY DEF Init
<1>3. \A d, name : ~Recorded(db, d, name)
  BY <1>2 DEF Recorded
<1>4. \A d, name : EventsOf(db, d, name) = 0
  BY <1>1, <1>3, RowsCounted DEF Inv, Typed
<1>5. \A d \in Doc : Nameless(offered[d]) = 0
  BY <1>1, <1>2, NamelessCount DEF Inv, Typed
<1> QED
  BY <1>2, <1>3, <1>4, <1>5 DEF Tally
-------------------------------------------------------------------------------
(* The theorems.                                                           *)

\* Values of the extraction phase have their types, and decisions point into the
\* tables.
THEOREM ExtractionTyped == Spec => []TypeOK
<1>1. Inv => TypeOK
  <2> SUFFICES ASSUME Inv PROVE TypeOK
    OBVIOUS
  <2>1. graph.calls \in Seq(LLMCall) /\ graph.events \in Seq(Event)
    BY DEF Inv, Typed, ExtractionState
  <2>2. db.events \in Seq(EventRow) /\ db.calls \in Seq(CallRow) /\ db.decisions \in Seq(Decision)
    BY DEF Inv, Typed, Database
  <2>3. PICK Row : Row = [doc : Doc, value : {"candidate_created", "irrelevant"},
                          event : 0..Len(db.events), call : 0..Len(db.calls)]
    OBVIOUS
  <2>4. Len(db.events) \in Nat /\ Len(db.calls) \in Nat
    BY <2>2, LenProperties
  <2>5. \A i \in 1..Len(db.decisions) : db.decisions[i] \in Row
    <3> TAKE i \in 1..Len(db.decisions)
    <3>1. PICK dec : dec = db.decisions[i]
      OBVIOUS
    <3>2. dec \in Decision /\ dec.event <= Len(db.events) /\ dec.call <= Len(db.calls)
      BY <2>2, <3>1, ElementOfSeq, LenProperties DEF Inv, InRange
    <3>3. dec \in Row
      BY <2>3, <2>4, <3>2 DEF Decision
    <3> QED
      BY <3>1, <3>3
  <2>6. db.decisions \in Seq(Row)
    <3>1. Len(db.decisions) \in Nat /\ db.decisions \in [1..Len(db.decisions) -> Decision]
      BY <2>2, LenProperties
    <3>2. db.decisions \in [1..Len(db.decisions) -> Row]
      BY <2>5, <3>1
    <3> QED
      BY <3>1, <3>2, SeqDef
  <2> QED
    BY <2>1, <2>2, <2>3, <2>6 DEF Inv, Typed, TypeOK, EventRow, CallRow
<1> QED
  BY <1>1, InitInv, NextInv, PTL DEF Spec

\* Whatever is delivered how often, a decision names a call of its own document, and
\* the one that decided.
THEOREM DecisionsCited == Spec => []DecisionsCiteTheirCall
<1>1. Inv => DecisionsCiteTheirCall
  BY DEF Inv
<1> QED
  BY <1>1, InitInv, NextInv, PTL DEF Spec

\* A page with a failed call leaves no candidate.
THEOREM NothingFromOutages == Spec => []OutageLeavesNothing
<1>1. Inv => OutageLeavesNothing
  BY DEF Inv
<1> QED
  BY <1>1, InitInv, NextInv, PTL DEF Spec

\* Of each document, a completed phase has stored one event for each name that was
\* extracted, whatever was retried or repeated, no other name, and all nameless events
\* with claims. That two events of one name are one row is part of the statement.
THEOREM CompletedKeepsNames == Spec => []CompletedStoredNames
<1>1. Inv /\ Tally => CompletedStoredNames
  <2> SUFFICES ASSUME Inv, Tally, node = "close", outcome = "completed", NEW d \in Doc
               PROVE  /\ \A name \in Name :
                            EventCount[<<d, name>>] = IF name \in Names(offered[d]) THEN 1 ELSE 0
                      /\ EventCount[<<d, NoName>>] >= Nameless(offered[d])
    BY DEF CompletedStoredNames
  <2>1. sum["errors"] = 0
    BY DEF Inv, NoneLost
  <2>2. \A name \in Name \cup {NoName} : EventCount[<<d, name>>] = EventsOf(db, d, name)
    BY Counts
  <2>3. \A name : /\ EventsOf(db, d, name) \in Nat
                  /\ EventsOf(db, d, name) > 0 <=> Recorded(db, d, name)
    BY RowsCounted DEF Inv, Typed
  <2>4. ASSUME NEW name \in Name
        PROVE  EventsOf(db, d, name) = IF name \in Names(offered[d]) THEN 1 ELSE 0
    <3>1. EventsOf(db, d, name) <= 1 /\ (Recorded(db, d, name) => name \in Names(offered[d]))
      BY DEF Tally
    <3>2. ASSUME name \in Names(offered[d]) PROVE Recorded(db, d, name)
      <4>1. PICK k \in DOMAIN offered[d] : offered[d][k].name = name
        BY <3>2 DEF Names
      <4>2. Stored(offered[d][k])
        BY <4>1, ExtractionAssumption DEF Stored
      <4> QED
        BY <2>1, <4>1, <4>2 DEF Inv, NoneLost
    <3> QED
      BY <2>3, <3>1, <3>2
  <2>5. Nameless(offered[d]) <= EventsOf(db, d, NoName) /\ Nameless(offered[d]) \in Nat
    <3>1. Nameless(offered[d]) \in Nat
      BY NamelessCount DEF Inv, Typed
    <3>2. Nameless(offered[d]) <= EventsOf(db, d, NoName) + 0
      BY <2>1 DEF Tally
    <3> QED
      BY <2>3, <3>1, <3>2
  <2> QED
    BY <2>2, <2>3, <2>4, <2>5
<1> QED
  BY <1>1, InitInv, NextInv, InitTally, NextTally, PTL DEF Spec

\* The extraction phase does what DiscoveryRun says of it, counted row by row, where
\* calls may fail. (An event that the backend refuses fails in any case.)
THEOREM ExtractionAsDiscoveryRun == ASSUME Faulty PROVE Spec => AsDiscoveryRun
<1>1. Init => Inv /\ Trail
  BY InitInv, InitTrail
<1>2. Inv /\ Trail /\ [Next]_vars => (Inv /\ Trail)'
  BY NextInv, NextTrail
<1>3. Inv /\ Trail /\ [Next]_vars => [Run!Next]_(Run!vars)
  BY NextRefines
<1> QED
  BY <1>1, <1>2, <1>3, PTL DEF Spec, AsDiscoveryRun
===============================================================================
