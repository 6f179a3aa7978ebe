# A specification of first-in-line

first-in-line finds announcements of grand openings on the web, extracts events
from them with an LLM, and offers them to users after review. This directory holds
TLA+ specifications of the parts of it whose correctness depends on the order in
which things happen, TLC configurations that check them on small instances, and
proofs that TLAPS checks for every instance.

Contents: [the system](#the-system) - [the modules](#the-modules) -
[runs](#runs-what-is-checked) -
[disagreements](#where-the-code-and-its-documentation-disagree) -
[proofs](#what-is-proved) - [abstractions](#abstractions-and-what-is-not-modelled)
- [plan](#plan).

## The system

| Component | State | Operations | Works with |
|---|---|---|---|
| Duplicate handling (`services/dedup_admin_service.py`, `repositories/dedup_repository.py`, `routers/admin.py`) | `events.duplicate_of_id`, `possible_duplicate`, `normalized_business_name`, `status` | check on save, flag, clear, merge, retroactive scan, merge preview, status change | event rows, source links and claims |
| Candidate events (`services/ingest_service.py`: `save_candidate_event`) | `events`, `event_sources`, `event_claims`, `llm_calls`, `processing_decisions` | save a candidate, once per document and name | worker (HTTP), duplicate check |
| Source storing and manual ingest (`services/ingest_service.py`) | `source_documents`, unique by text hash | store a fetched page, ingest a URL by hand | MCP server, OpenAI, events |
| Discovery run (`worker/app/pipeline.py`) | the run's summary, the list of URLs, the queue of documents, `search_runs` | search, fetch, extract, close | backend by `api_client`, tools by `mcp_client` |
| Backend API client (`worker/app/api_client.py`) | attempts of a call | request with retry | backend |
| Extraction graph (`worker/app/extraction/`) | state of a page's graph run | classify, count, extract one or many | OpenAI |
| Search runs and telemetry (`repositories/search_repository.py`, `worker/app/telemetry.py`) | `search_runs`, `search_results`, `pipeline_tool_calls`, the collector's buffer | create, results, finish: a commit for each row; telemetry in bulk at the end | worker |
| Accounts (`services/auth_service.py`, `repositories/user_repository.py`) | users, their credential history, profiles, preferred locations, `search_locations.user_count` | register, log in, change credentials, read and write the profile, follow and unfollow places | frontend |
| Queries and review queue (`repositories/event_repository.py`) | none of its own | filtered lists | frontend |
| Geocoding (`services/geocode_service.py`, MCP tool) | coordinates of events | geocode one, geocode the missing | Nominatim, inside the request's transaction |
| MCP server (`mcp_server/`) and its client (`worker/app/mcp_client.py`) | none between requests; a handler's retries and a client's attempts | search, fetch, normalize, geocode | the web |
| Frontend (`frontend/`), migrations, configuration | - | - | API |

The backend runs each request in a thread with a SQLAlchemy session of its own
(`db.py`), on PostgreSQL at READ COMMITTED, with one or a few commits per request.
The worker is one sequential process that calls the backend over HTTP and sends a
call again after a time-out or a server error. The parts meet in the database: the
worker's saves and the administrators' decisions change the same event rows, and
the worker and the manual form store the same documents.

What is hard, and what correctness means:

* *Duplicate pointers.* An event points at the event it duplicates. Each operation
  looks at one or two rows before it writes pointers, and the whole must stay free
  of cycles, with every flag naming a target.
* *Evidence.* Merges move links and claims between events; nothing an event was
  derived from may get lost or be attached where it cannot be traced.
* *Storing a text once.* Requests race between the check of a hash and the insert,
  and what each is told decides who pays for the extraction.
* *At-least-once calls.* The worker repeats calls whose reply was lost, crashes
  between steps, and starts again; documents, candidates, LLM cost rows and run
  rows must come out as if each call had been made once - and do not always.
* *Accounts.* Every request looks something up and writes it later, under unique
  indexes that nobody handles; the audit log, the profile and the places to be
  searched must come out right when requests of one user overlap.
* *The account a run gives of itself.* Its counters and status are put together by
  a dozen error branches, and its rows by requests that can fail between their
  commits, be repeated, and arrive after the worker has gone on.
* *What the LLM said.* A page passes a graph of calls each of which can fail, and
  candidates, calls and decisions are then sent one candidate at a time; they must
  stay tied to their page, and an outage must not put guesses into the database.
* *Retries inside retries.* The worker has deadlines and attempts towards the MCP
  server, the server has its own towards the web, and a handler goes on after the
  client has left.
* *Looking up while holding locks.* Coordinates come from a slow service, asked in
  the middle of a transaction, from values read before.

`PROJECT.json` lists the hazards of the code line by line, with the property that
guards against each, or the reason why none does.

## The modules

| Module | Models | |
|---|---|---|
| `DuplicateGraph` | graphs of pointers: roots, acyclicity, re-hanging | operators |
| `DuplicateForest` | what duplicate handling promises about pointers | abstract specification |
| `EventDedup` | events, evidence and duplicate handling, one request at a time | implements `DuplicateForest` |
| `DedupSessions` | the same requests as concurrent sessions that read, and later commit | extends `EventDedup` |
| `DocumentStore` | what storing a document promises its callers | abstract specification |
| `SourceIngest` | concurrent storing by the worker and the manual form | implements `DocumentStore` |
| `DiscoveryRun` | the worker's run against a backend it reaches by unreliable calls | |
| `PageExtraction` | the last phase of a run in detail: the LLM graph of a page, and the saving of what it finds | implements `DiscoveryRun` |
| `Delivery` | what a retried call promises its caller | abstract specification |
| `WorkerCalls` | the calls that keep the record of a run, as requests handled commit by commit | implements `Delivery` |
| `McpTools` | a tool call of the worker against the handlers of the MCP server, with their time-outs and retries | |
| `Geocoding` | lookups of coordinates in transactions that hold row locks, among merges and scans | |
| `UserAccounts` | account requests as database sessions with row locks and unique indexes | |
| `DedupProofs`, `SourceIngestProofs`, `DiscoveryRunProofs`, `PageExtractionProofs`, `WorkerCallsProofs`, `McpToolsProofs`, `GeocodingProofs`, `UserAccountsProofs` | | theorems |
| `MCEventDedup`, `MCDedupSessions`, `MCUserAccounts` | | model values for TLC |

**EventDedup.** `dupOf`, `flagged`, `status` are the columns of `events`; ids are
numbers in the order of `created_at`, which is what the two sort orders of the
code look at. `attr` is what scoring sees of an event; `Score`, `Located` and
`Threshold` are constants, so the properties do not depend on how scoring works.
An event's link and claims are named by the event they were created with; `linkAt`
and `claimAt` say where merges have carried them. `SaveCandidate` includes the
duplicate check it ends with, `MergeEvents` everything from the canonical fields
to the re-pointed dependents. `RetroactiveScan` states the outcome of the loop
(`ScanOutcome`), which `ScanLoopAgrees` compares with the loop turn by turn
(`ScanLoop`). The `Next` of the module is the routers of `admin.py` and
`events.py` and the two ways events are created.

**DedupSessions.** A request reads and computes its writes (`Begin...`), and
commits (`Commit`) or fails (`Rollback`). SQLAlchemy writes the attributes that
changed and nothing else, so a commit overwrites columns of rows; an UPDATE of a
link that is gone raises (`Stale`), a DELETE of one only warns.

**SourceIngest.** A request checks, inserts, commits, and, if it is a manual
ingest, extracts. `holder` is the request whose uncommitted row makes other
inserts of that key wait; PostgreSQL resolves the wait when the holder commits or
rolls back. `DocumentStore` is what the callers rely on: one creator per text, and
"duplicate" told only of another's document.

**DiscoveryRun.** `pc` is the phase of `run_once`; `sum` and `outcome` its
`RunSummary`; the backend's tables are reduced to what the run decides on. Each
call of `api_client` takes effect once or several times if it is answered
(`Answered`), and some number of times, perhaps none, if it fails (`Failing`).
`Crash` leaves everything as it is and a new run may start, and `ManualStore` is
the other way documents come into being.

**PageExtraction.** `graph` is the `ExtractionState` of the page in hand and
`node` the node to be run, or what the worker does after the graph. Each node
calls the LLM, which answers or fails; which node comes next is the routing of
`extraction/graph.py`. `GraphFails` to `Relevant` are the branches of
`_extract_from_document`, with the error that `IrrelevantNoReason` raises before
anything is saved. `Transaction` and `After` are what `save_candidate_event` does
to the tables: the event, once per document and name; the calls, with the first
candidate; and the decision, which cites one of the calls just stored. A candidate
with a null claim value or a free-form date is not valid for the backend and gets
status 422. `AsDiscoveryRun` maps the phase to `DiscoveryRun`: the graph at work
is a stutter, its end is the verdict, and rows are counted. So what is checked of
verdicts that are free inputs there holds for those of the graph.

**WorkerCalls and Delivery.** `calls` is every call made so far, `requests` what
the backend has in hand: each attempt of a call is a request of its own, and
nobody cancels it. A request goes through its commits one at a time (`CreateRun`,
`StoreResult` row by row, `StoreToolCalls` at once, `FinishRun`) and is answered,
or it breaks at any point. `Reaction` is what `_api_request` makes of the answer:
a reply, a retry, an error at once for 4xx (429 included), an error after the last
attempt. After `TimeOut` the request stays at work, and so it does after `Crash`.
`done` counts how often a call has been carried out completely. `Delivery` is what
a caller may rely on: carried out at least once if it returns, at most
`MaxRetries` times in any case, possibly after the caller has given up.

**McpTools.** `Call`, `Send`, `TimeOut`, `Answer` and `Break` are
`_post_with_retry` with the attempts and deadlines of each tool; `Get`,
`PickProvider`, `DuckDuckGo` and `Brave` are the steps of the handlers, each of
which adds the seconds it takes to `spent`. A handler's seconds are counted from
its own attempt, since handlers share nothing. An answer of the web takes one
second, `Prompt` seconds or the whole time-out. A failed attempt is a `Fault`: a
time-out, a lost connection, or a status, of which one stands for all that mean the
same here. `classify_outcome` turns the last one into what is `recorded`, as the
code does from the type and the message of the exception. `faults` and `gets` are
history variables.

**Geocoding.** A request selects rows or loads one (`SaveEvent`, `BulkGeocode`,
`MergeEvents`, `RetroactiveScan`), asks for their coordinates (`Lookup`) from the
address it has `seen`, updates rows one at a time (`Write`, which waits for the
row's lock), and ends with `Commit`, an error (`Abandon`) or a deadlock that the
database breaks (`Detect`). Coordinates are identified with the address they were
obtained for. A save deals with the one row it has committed, which it reloads
first (`Reload`); a bulk run with up to `BatchLimit` rows and a scan with the rows
it changes, both in the order of `created_at`; a merge with its two rows in either
order, as their random ids decide.

**UserAccounts.** A session takes up a request (`Register`, `Load`, `GetProfile`,
`PutProfile`, `AddPlace`, `RemovePlace`: what `auth_service` reads before it
writes), a change of email or user name looks its value up (`Check`), a request
that is to return a profile and found none reads once more (`ReadAgain`, the read
of `upsert_profile`), and then come its one or two statements (`First`, `Write`)
and the commit. `LastLocks` and `FirstLocks` are the locks PostgreSQL takes for
them: a row with a foreign key to a user shares the user's row, an UPDATE of a
column with a unique index needs it alone, and an insert into a unique index waits
for a transaction that holds the key. `WaitsFor` follows from these. A statement
that violates an index is a `Reject`, a cycle of waits an `Abort`, and `Lose` is a
process or a connection that goes away. `origin` and `alone` are history
variables. An attribute set to the value it was loaded with is not written, which
`Rekeys` and `Merged` say.

Operators marked "Mutant:" in the modules are plausible mistakes in the code;
substituting one for the definition that follows it makes the property named
beside it in `PROJECT.json` fail.

## Runs: what is checked

| Run | Configuration | Shows | Distinct states |
|---|---|---|---|
| pointers | `EventDedup.cfg` | types, no cycle, scan = loop, refinement of `DuplicateForest` | 229,779 |
| sessions | `DedupSessions.cfg` | claims backed and evidence kept while one administrator's requests overlap with saves | 2.7 million |
| source_ingest | `SourceIngest.cfg` | races keep the promise of `DocumentStore`; one manual event per text; every request is answered | 32,272 |
| discovery | `DiscoveryRun.cfg` | counters add up, completed counted no error, extracted once, named once, a run under way ends | 2.4 million |
| page_extraction | `PageExtraction.cfg` | decisions cite a call of their page, outages leave no events, completed means one event for each name extracted, refinement of `DiscoveryRun` | 1.1 million |
| worker_calls | `WorkerCalls.cfg` | telemetry that was flushed is stored before the run is closed, reported results are stored, a row is closed once, refinement of `Delivery` | 396,391 |
| mcp_tools | `McpTools.cfg` | deadlines are missed for a slow web only; outcomes and labels are true | 459,246 |
| geocoding | `Geocoding.cfg` | coordinates belong to their event, deadlocks need a merge, every request ends | 312,954 |
| accounts | `UserAccounts.cfg` | the audit log leads from the registered value to the current one; followed places are searched; no request fails on an index unless it is overlapped; only changes of one account deadlock; a profile is overwritten by a request that read it and, unless overlapped, becomes what was sent | 725,295 |

The abstract specifications have no run of their own: `ForestSpec`, `PromiseKept`
and `Delivers` check every step of the detailed ones against them, and
`AsDiscoveryRun` checks a detailed phase against the module that abstracts it.

Some of these can surprise. `ReportedAreStored`: the worker adds the number of
results it *sent* to its counter, while the backend commits them row by row; it
holds since the call returns only if one attempt went through all rows, whatever
the others left behind. `ClosedOnce`: the backend closes a run whether it is
closed or not, and a request of an earlier run can arrive while another run is
under way; but all requests to close a run say the same, so only `finished_at`
moves. A repeated `create` makes a second row, which stays `running`.
`AnsweredInTime`: the pauses of the server (1 + 2 s) and three GETs of up to 8 s
fit into the 30 s of the client, three that take the full 15 s do not; a base of
four seconds for the back-off would make prompt pages time out.
`DeadlockNeedsMerge`: bulk runs and scans hold several rows, but take them in the
order of `created_at`; the two rows of a merge are updated in the order of their
random ids. `CompletedStoredNames` is what "completed" is taken to mean by whoever
reads the run's status, as far as the code keeps it: it has to survive replies
that are lost, events that the backend's schema refuses and errors in the middle
of a page, and it counts names, since the second event of a name on a page is
dropped (below). `RecordedAsItWas`: which failures are followed by another attempt
and what the last one is taken for are decided in two modules of the worker by
different means, a list of statuses and exceptions in one, the type and the
message of the exception in the other. `TelemetryStored`: the worker forgets its
tool calls whatever becomes of them, so a flush that returned must have stored all
of them by one attempt. `CompletedIsClean` speaks of the errors that are counted,
and of one query: if saving the results of another failed, that is logged and no
more (`pipeline.py:290`), its URLs are fetched, and the run is closed as
completed.

**Bounds.** Three events are enough for a cycle through an event in the middle,
for a merge with a dependent, and for a chain of two merges; the interesting
events have two spellings of a name that are similar enough, a name that
normalizes to nothing, and a location match that goes one way (`is_location_match`
is not symmetric). `CandidateLimit = 1` makes the limit of 50 bite. The run
pointers uses one document, because pointers do not depend on evidence; sessions
uses two, which it treats as interchangeable (only the initial state names one).
Two merges of three events over two documents reach every way for a link to be
moved or dropped. The sessions are one administrator and one worker, which overlap
pairwise; two administrators already violate what holds for one (below). In
`SourceIngest` two requests of each kind over two texts race in every combination
of kinds, and a third contender waits for the second. `DiscoveryRun` has two runs,
so that a later run meets what a crashed one left; two URLs and two texts, so that
two pages can have one text or a page two texts at different times; two queries,
of which one can fail; and two attempts of every call. `PageExtraction` has two
pages with up to two events each: enough for calls of one page to be cited by
another, for a first candidate that fails before a second, and for two events of
one name. `WorkerCalls` has one run with one query of two results, since requests
of different runs meet only in what they leave behind: a row can be stored by one
attempt and its neighbour by the other, and two requests can be on their way after
the worker has given them up. (Two queries and one late request also pass, with
3.7 million states; for several runs there are the proofs.) `McpTools` has the
real numbers of seconds, attempts and providers; the only bound is the three
answer times. In `Geocoding` two sessions suffice, since a cycle of waits over two
rows has two members; four requests let a merge come between the lookups of a bulk
run and another save; of the places two can be found, one can be asked for and is
not found, and one is selected but makes no query. In `UserAccounts` three
sessions allow cycles of three, and five requests are what a lost increment
followed by a removal takes; three emails let two changes of one account disagree;
users, emails, user names and sessions are interchangeable. `MaxRequests`,
`MaxRuns`, `MaxEvents`, `MaxFound`, `MaxLate` and `PageCalls` only cap counters.

**Fairness.** `SourceIngest!FairSpec` lets each request go on when it can: each
has its own thread, and the database grants a key when its holder ends. Nothing is
assumed of failures. `DiscoveryRun!FairSpec` lets a run under way go on: the
worker is sequential and every call it makes has a time-out. It does not assume
that a run starts, that calls succeed, or that the process does not crash.
`Geocoding!FairSpec` lets each request go on when it can: lookups have a time-out,
PostgreSQL grants a row's lock in the order of asking, and it looks for deadlocks
and makes one of the transactions fail. `RequestsEnd` is thus about locks that are
kept or waits that no one breaks.

**Deadlock** is checked except where work runs out: in `SourceIngest` (a fixed set
of requests, all answered in the end, which `Answered` states), in `UserAccounts`
and `Geocoding` (which end with their `MaxRequests` requests; that nothing but the
known cycles gets stuck is `DeadlockOnlyOnOwnRow`, `DeadlockNeedsMerge` and
`RequestsEnd`), in `PageExtraction` (one phase), and in `WorkerCalls` (which ends
with its `MaxRuns` runs).

## Where the code and its documentation disagree

Each of these runs checks one sentence of the documentation, and TLC finds it
violated. The counterexamples are short and were followed through the code.

| Run | Documentation | Code |
|---|---|---|
| two_admins | "preserve its evidence" (`dedup_admin_service.py:111`) | merges of 1 into 2 and of 2 into 1 overlap; both events cite the document; each drops one link, and each event ends as a duplicate of the other |
| failed_queries | "the run ends with status partial" (`pipeline.py:25`) | failed queries count as executed and are not otherwise looked at |
| profile_reads | "Return the user's profile, creating an empty one if absent" (`auth_service.py:236`) | a request that reads finds no profile; one that writes commits; `upsert_profile` of the first reads again, finds the row, and sets its fields to None (`user_repository.py:230-240`) |

More facts, which the models show and no run is spent on.

*Saving and storing.* `save_candidate_event` is called idempotent
(`ingest_service.py:716`); the lookup at line 746 has no constraint behind it, so
a repeated call that overlaps the first inserts the event again. A manual ingest
that loses the race for a text is meant to be treated "as dedup hit"
(`ingest_service.py:393`); the flush in `create_source_document` (line 374) raises
before that `try`, so it ends as a server error. "Still save LLM calls", says
`pipeline.py:558` of an irrelevant page; if the verdict gives no reason, the line
before it slices None and raises `TypeError`, which ends the run as failed with
the calls unsaved (`IrrelevantNoReason`), against `09_phases.md:282`, "Every LLM
call has a llm_calls row". Those of a relevant page without events are not sent
either (`NoEvents`). "Each entry produces its own candidate event record"
(`extraction/schemas.py:157`), but two entries of one business name, a shop that
opens in two places, are one for `save_candidate_event` (`ingest_service.py:746`):
the second is answered "duplicate" and lost, and the run is closed as completed.
So it is with the results of a query that could not be saved. After a lost reply
to the storing of a document, the retry finds the worker's own document and is
told "duplicate": the page is skipped and never extracted. The first candidate of
a page carries its LLM calls, and if it has no name a repeated save stores them
twice. That an event with neither a name nor claims means an irrelevant page
(`ingest_service.py:774`) is not so: a relevant page may yield such an event, and
its decision is then recorded as irrelevant. The worker's schemas are said to
mirror the backend's; a null claim value or a free-form date passes the one and is
refused by the other, and the event is lost.

*The record of a run.* A row whose creation was repeated stays `running` for ever.
A late or repeated request to close a run moves its `finished_at`. Results and
tool calls can arrive after their run is closed. The last attempt that meets a 5xx
raises `HTTPStatusError`, not the `RuntimeError` of the docstring, and the 429 in
the list of retryable statuses is never retried, as 4xx are raised before the list
is looked at.

*Tools.* A search that a provider rate-limits comes back as an empty success,
although `telemetry.py:13` has the outcome `rate_limit` for it, which is recorded
only if the MCP server itself answers 429. "The HTTP request to the MCP server
timed out" is what `timeout` means there; an answer of 408 or 504 is recorded so
too, by the word in its message. That the client allows 12 s "so the server can
return a 500 first" holds for DuckDuckGo; with Brave asked after it a search can
take 8 + 3 x 10 + 2 x 5 s. A page that is slow enough for three time-outs keeps
the handler busy for some 48 s, so the client leaves after 30 and asks again: up
to nine GETs for one page.

*Coordinates.* `geocode_event` "skips the event if it already has coordinates", by
what it read before the lookup: a slower lookup overwrites the coordinates of a
faster one. A merge that changes an address leaves the coordinates of the old one,
and they are never looked up again. The bulk run takes the oldest 500 events
without coordinates, so 500 that cannot be found keep all others from being tried.
It commits once: a deadlock with a merge loses the coordinates of the whole batch,
although "individual failures do not abort the run"; and until then it holds the
rows it has updated, so that a save of one of them waits and the worker may time
out and repeat it. The Nominatim limit of one request a second is kept by each
thread for itself. After a flush or commit that failed, the handler that logs the
failure reads `event.id` and raises again.

*Accounts.* `user_count` is to say how many users have a place as a preferred
location (`models/users.py:194`); adding one increments it and removing one does
not decrement it. Two overlapping additions of one preferred location insert two
rows, since the unique constraint that `03_database_plan.md` announces for
`user_preferred_locations` is in no migration. Two overlapping writes of a profile
can leave the first name of one and the last name of the other, because each
writes only what differs from what it loaded. Two overlapping changes of one
account's email or user name may deadlock, and one of them then fails with a
server error.

*Duplicates.* With overlapping sessions the code does not implement
`DuplicateForest`: an administrator can flag an event as a duplicate between the
moment a save picks it as target and the commit of that save, and the new event
then points at an event that is no root. And a flag on an event with dependents
makes a chain of two pointers at any time. One request at a time chains end
(`NoDuplicateCycle`, run pointers). With two administrators they need not:
opposite merges, or opposite flags, of one pair each check that the other's event
is a root (`_ensure_canonical_target`, `dedup_admin_service.py:32`) before either
commits, and leave 1 pointing at 2 and 2 at 1. The counterexample of two_admins
ends so (its threshold is above every score, so that no flag of a save plays a
part). Then no root is left of the pair, and the check for duplicates, which looks
at roots only (`dedup_repository.py:43`), finds neither. With a single
administrator a cycle has no second party: the worker only adds rows that nothing
points at yet, so the run sessions does not ask for it.

## What is proved

All theorems are about the specifications with arbitrary constants: any number of
events, documents, requests, URLs, texts, runs and attempts, under the `ASSUME` of
each module (which TLC evaluates on the instances), and any scoring. Every
property that a run expects to hold is a theorem, except liveness.

*Duplicates, one request at a time* (`DedupProofs`). Acyclicity is stated over
sets: every non-empty set of events has a member whose pointer leaves it.
`RehungStaysAcyclic`: if pointers change only to "none" or to a root of the new
graph, acyclicity is kept. A set whose new pointers stay inside has no member with
a changed pointer, for such a pointer leads out or to a root of the set, whose
pointer leads out; so it would have been closed before. `ForestAcyclic` follows
for `DuplicateForest`. The inductive invariant of `EventDedup` is `Consistent`:
`TypeOK`, and `Blanks`, that ids not yet stored have no pointer, link or claims
and that claims of stored events are attached. It is needed because creation would
otherwise inherit what an unused id already held. `ImplementsForest` then has one
case per request: a save points at a root (`SaveTargetIsRoot`), a scan at an event
that is a root in its outcome (`ScanTargetIsRoot`), a merge re-points to its
target, which stays a root. `PointersAcyclic` follows from this and
`RehungStaysAcyclic`. `ClaimsStayBacked`, `EvidenceStaysLinked` and
`FlagsHaveTargets` are inductive together with `Consistent`; the first two rest on
the fact that a link is dropped only if the target of the merge links the same
document (`MergeKeepsCitations`).

*The scan* (`ScanSettlesInOnePass`). A turn of the loop looks at the pointers of
earlier events only (`ScanTargetLooksBack`), and there is one place to point an
event at (`ScanTargetSingle`: of finitely many or infinitely many best matches,
the oldest). So the events up to the turn are settled and no later turn disturbs
them (`LoopSettles`), and two outcomes that differ would differ first at some
event, where they cannot.

*Duplicates, overlapping requests* (`DedupProofs`, last part). With one
administrator, `SessionsBackClaims` and `SessionsKeepEvidence` hold for any number
of workers and manual ingests, however late the commits come and whichever fail.
The hypothesis `OneAdmin` is the point: without it the run two_admins is a
counterexample. The invariant `SessionsInv` says that the committed columns are
sound (`Sound`) and what each session is about to write (`Pending`): an insertion
of a row whose id no other session has (`Insertion`), or, for the administrator,
new values of stored rows only that would leave the committed columns sound
(`Revision`, `Revises`). A revision stays one when a row is inserted
(`RevisionStays`), because what it read of the older rows is still so; an
insertion stays one whatever is committed (`InsertionStays`), even if the event it
points at has become a duplicate, since it writes its own row, link and claim
only. That SQLAlchemy writes only what differs is in `DirtyWritten`.

*Storing texts* (`SourceIngestProofs`). `StoreRepliesAgree`: in `DocumentStore`,
what a request was told stays true, as a text is never given up. The invariant of
`SourceIngest` says who may hold a key (`KeysHeld`), that only requests past their
commit own a text, and that a request that is not done has been told nothing.
`KeepsPromise` maps each step to a step of `DocumentStore`: a commit of the worker
stores and answers at once, a commit of the manual form stores, and its extraction
answers later. `RepliesConsistent` carries `StoreRepliesAgree` over, and
`ManualEventsOnce` needs that a text's owner is the only one to extract it.

*Runs* (`DiscoveryRunProofs`). `CountersAddUp` and `RunsTyped` are nearly
inductive as they stand. `CompletedRunsClean` needs `CleanSoFar`, which says for
each phase what a status of completed means so far; `ClosedRunsStay` needs
`LastRunOpen`, that the row about to be closed is the last one and open;
`PagesExtractedOnce` needs `QueueFresh`, that nothing judged is in the queue, which
holds because judged texts are stored and only unstored ones are queued.
`CandidatesNamedOnce` rests on `DeliveredOnce`.

*Pages* (`PageExtractionProofs`). What any number of deliveries of a candidate
makes of the database is `Delivered`: the three tables go on where they ended,
with rows of that candidate only (`AfterDelivers`, by induction over the
deliveries from `TransactionDelivers`). The invariant says of a page in hand which
calls were made at each node and what they found, that the events left to save are
events of the page, that a page with a failed call has left no event, and that, as
long as no error was counted, every event offered that can be stored is stored or
still to be saved (`NoneLost`). `CompletedKeepsNames` adds `Tally`, which counts:
a name has at most one row, and only if the graph extracted it of that document,
and the nameless rows stored and those still to be saved cover the nameless events
extracted. `DecisionsCited` needs that the last call of a page with events is its
successful extraction, which is a fact about the routing of the graph.

`ExtractionAsDiscoveryRun` is the refinement `AsDiscoveryRun`, one lemma for each
action. Its mapping counts rows, so it needs by how much n deliveries raise the
counts (`AfterCounts`): each delivery that finds no row of the candidate adds one
event, if it can be stored, and one relevance call, if the candidate has the calls
of its page (`TransactionCounts`); with a name only the first of them finds none,
which is the case distinction in `DiscoveryRun!Delivered`. `Trail` ties the page in
hand to the history that the mapping reads it from. The theorem assumes `Faulty`:
an event that the backend's schema refuses fails even if no call does, which
`DiscoveryRun` allows only where calls fail.

*Calls* (`WorkerCallsProofs`). `Typed` adds to the types what the worker's step
says of its last call, and what a request past a commit knows. `CallsDelivered`
needs `Accounted`: how often a call has been carried out plus its requests under
way is at most the number of its attempts, and a request that only has to answer
has carried out its call. `ClosedOnce` needs `RunsApart`: a row whose id is still on
its way to the worker, or got lost, is named by no call, so that no late request
can close it, and no two calls to finish name one run. `ReportsStored` needs
`Backed`: the counter of the worker is covered by rows of calls that have returned.
Each step does one of five things to the calls (`StepKinds`), which is what most of
the cases are split on. `CarriedOut` carries `AtLeastOnce` over from `Delivery`.

*Tools* (`McpToolsProofs`). The seconds, attempts and deadlines are the numbers of
the code, so this is arithmetic over the handler's steps: the invariant bounds the
seconds spent by the tries made, the pauses between them and the slow answers met,
and the number of requests to the web by the set of attempts and tries they belong
to. `CallsRecordedTruly` needs what is known of each attempt (`Failures`: those
that were followed by another were worth a retry) and of the last one (`Told`).

*Coordinates* (`GeocodingProofs`). `CoordinatesOwned` needs that what a request has
seen of an event is an address the event had. `DeadlocksNeedMerges` needs that
requests other than merges update rows in ascending order: in a cycle of them, the
one that waits for the highest row waits for a request that has updated it and
now waits for a higher one.

*Accounts* (`UserAccountsProofs`). `JobsKnown` says what a request under way may
rely on: an identifier of its own, an account, a profile that was there.
`LogLeadsHere` needs `JobsTraced`: what a change will record as the old value is a
value the log leads to, even if it has been replaced since. "Leads to" is stated
over sets closed under the log's entries, so no recursion is involved.
`ReadersOverwrite` needs `CreatorsApart`, that a request that has inserted a
profile is the only one writing it, which follows from the locks (`ProfileLocks`).
`AloneSavesWhatWasSent` needs that a request nobody overlapped still finds the
profile it read (`AlonePrepared`): only then do the attributes it does not write have
the values it was sent.
`FollowedPlacesSearched` is inductive as it stands. `AloneNotRejected` needs what a
request that nobody overlapped still knows from its lookup (`AlonePrepared`), and
`DeadlocksOnOwnRow` follows from the tables of locks alone: a request that waits
for another in a circle can only be a change of a key, on the users row of the
request it waits for (`WaitsInCycle`).

`EvidenceKept` is at once a theorem of `EventDedup`, a theorem of `DedupSessions`
with one administrator, and violated there with two: merging is right one request
at a time, and what is missing for more is a lock.

*Only model-checked:* liveness (`RunEnds`, `Answered`, `RequestsEnd`), which the
prover does not reason about, and the three violations, which are counterexamples.
Inductions are over natural numbers and written as least counterexamples (`Least`),
since the library's induction theorems take an operator as parameter, which these
provers do not instantiate.

## Abstractions, and what is not modelled

* A request reads at one instant, in `DedupSessions`. The code issues several
  queries; interleavings between them are a refinement left for later.
* `UserAccounts` leaves out what only reads (logging in, the lists), deactivation,
  which no request performs, and the format of emails, names and places. A
  password is told apart from its hash nowhere: no property depends on the salt,
  and `SaveChange` writes the column even if the password is the same. That a
  request authenticates and verifies the password is that `Load` reads the
  account; the lookup of the new value comes later (`Check`).
* A statement of `UserAccounts` takes all its locks at once. PostgreSQL takes
  those on rows and on unique indexes one after the other, and another statement
  may come between.
* A call that outlives its time-out may take effect after the worker went on.
  `DiscoveryRun` and `PageExtraction` have the effects come first. `NamedOnce` and
  `ExtractedOnce` are about deliveries one after another; a save still at work
  while its retry runs would make a second event of one name. `WorkerCalls` has
  late effects too, of the calls that keep the record of a run.
* The list of URLs and the queue of documents are sets, since no property depends
  on their order, and the order of search results is arbitrary.
* `dry_run`, which only prints, and the documents that record a failed fetch
  (their hash is NULL, and NULLs are not unique) are left out of the runs of the
  worker. The parts are checked one by one: the rows of a run's record in
  `WorkerCalls`, the geocoding that follows each creation in `Geocoding`, and
  neither composed with `DiscoveryRun`, which depends on neither.
* `Geocoding` merges any two events and scans any set of them: what duplicates are
  is the subject of `EventDedup`. Flagging and clearing update one row and could
  only wait, so they are left out, and so are the updates by which a merge
  re-points the events that depend on its source, which are further row locks of a
  merge: deadlocks with merges are possible with or without them. `OwnCoordinates`
  does not ask that coordinates be those of the current address: they may be those
  of an earlier one (above).
* Time in `McpTools` is what an answer takes. The read time-outs of the HTTP
  clients are taken for time-outs of the whole answer, which a server that sends a
  byte now and then would evade; that DuckDuckGo's client keeps to its 8 s is
  assumed of the library.
* `OutageLeavesNothing` and `DecisionsCiteTheirCall` speak of calls with a row.
  Those of a page from which nothing was saved have none.
* `CandidateLimit` is in `EventDedup`, but no property is about the duplicates
  that it hides; the scan and the forest are checked under it.
* LLM verdicts, scores, search results and page texts are inputs, free in every
  step.
* Not modelled at all: the frontend (presentation; its requests are those of the
  models), the migrations (scripts run by hand; their constraints appear where
  they are relied on), configuration, logging and the command line (they read
  settings and print), password hashing and tokens (pure functions of libraries),
  the queries of the event lists (they only read), and URL canonicalization and
  query templates (pure functions on strings).

## Plan

1. Done: the modules above, and proofs of all that the runs check of them but
   liveness.
2. `DedupScoring` with scaled integers (symmetry, range, the edge at the
   threshold), the date filter of the event list as an operator against its
   comment, and URL canonicalization (idempotence) as operators over lists of
   components.
3. The several queries of one request in `DedupSessions`, each with a snapshot of
   its own.

The project is kept to a dozen runs. A new passing run takes the place of one of
the three that show a disagreement, which then moves to the notes below their
table.
