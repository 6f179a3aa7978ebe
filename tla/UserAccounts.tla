----------------------------- MODULE UserAccounts -----------------------------
(***************************************************************************)
(* Account requests as database sessions: registering, changing a user     *)
(* name, an email or a password, reading and writing the profile, and      *)
(* following places.  A session reads, executes one or two statements that *)
(* take locks, and commits.  The locks are those of PostgreSQL: a row that *)
(* refers to a user shares the user's row, an UPDATE of a unique column    *)
(* keeps everyone away, any other UPDATE only other writers, and an insert *)
(* into a unique index waits for whoever holds the same key uncommitted.   *)
(***************************************************************************)
EXTENDS Integers, FiniteSets

CONSTANTS
    User,         \* identifiers of accounts
    Email,
    Username,
    Password,
    Value,        \* first and last names, one of which is Null
    Null,
    Place,        \* city and state
    Seeded,       \* the place the migration inserts
    Session,
    MaxRequests   \* bound on the requests of a behaviour

ASSUME AccountsAssumption ==
    /\ Null \in Value /\ Null \notin [first: Value, last: Value] /\ Null \notin Nat
    /\ Seeded \in Place /\ MaxRequests \in Nat

VARIABLES
    users,      \* committed accounts
    origin,     \* credentials each account was registered with (history variable)
    history,    \* user_credential_history
    profiles,   \* committed profiles
    follows,    \* user_preferred_locations
    searched,   \* user_count of each row of search_locations
    at,         \* what each session has done
    job,        \* request of each session, with what it has read
    alone,      \* sessions that nobody has overlapped so far (history variable)
    begun       \* number of requests so far

tables == <<users, origin, history, profiles, follows, searched>>
vars == <<tables, at, job, alone, begun>>

Fields == {"email", "username", "password"}
Domain(f) == IF f = "email" THEN Email ELSE IF f = "username" THEN Username ELSE Password
Credentials == [email: Email, username: Username, password: Password]
Profile == [first: Value, last: Value]

Change == {c \in [op: {"change"}, user: User, field: Fields,
                   old: Email \cup Username \cup Password, new: Email \cup Username \cup Password] :
              {c.old, c.new} \subseteq Domain(c.field)}

\* What is read is Null where there is no row.
Job ==
    [op: {"register"}, user: User, new: Credentials]
    \cup Change
    \cup [op: {"get", "put"}, user: User, seen: Profile \cup {Null}, new: Profile]
    \cup [op: {"add"}, user: User, place: Place, id: Nat, seen: Nat \cup {Null}]
    \cup [op: {"remove"}, id: Nat]
NoJob == [op |-> "none"]

Follow == [id: Nat, user: User, place: Place]
Registered == DOMAIN users
Active == {s \in Session : at[s] # "idle"}
-------------------------------------------------------------------------------
\* Locks and unique keys.  The row of a user and the key of a unique value are
\* both named by a pair.

\* email and user name are in unique indexes, and an attribute set to the value it
\* was loaded with is not written.
Rekeys(j) == j.field # "password" /\ j.new # j.old

\* Mutant: a profile is inserted with ON CONFLICT DO UPDATE.
InsertsOrUpdates(j) ==
    CASE j.op = "register" -> {<<"email", j.new.email>>, <<"username", j.new.username>>}
      [] j.op = "change" -> IF Rekeys(j) THEN {<<j.field, j.new>>} ELSE {}
      [] j.op = "add" -> IF j.seen = Null THEN {<<"place", j.place>>} ELSE {}
      [] OTHER -> {}

\* Keys that the second statement of a change or an add inserts, and the only
\* statement of the others.
Inserts(j) ==
    CASE j.op = "register" -> {<<"email", j.new.email>>, <<"username", j.new.username>>}
      [] j.op = "change" -> IF Rekeys(j) THEN {<<j.field, j.new>>} ELSE {}
      [] j.op \in {"get", "put"} -> IF j.seen = Null THEN {<<"profile", j.user>>} ELSE {}
      [] j.op = "add" -> IF j.seen = Null THEN {<<"place", j.place>>} ELSE {}
      [] OTHER -> {}

\* Keys of committed rows other than the one the job writes.
Taken(j) ==
    {<<f, users[u][f]>> : f \in {"email", "username"},
                          u \in IF j.op = "change" THEN Registered \ {j.user} ELSE Registered}
    \cup {<<"profile", u>> : u \in DOMAIN profiles}
    \cup {<<"place", p>> : p \in DOMAIN searched}

Lock(mode, rows) == {[mode |-> mode, row |-> r] : r \in rows}

\* A change and an add first insert a row that refers to the user.
TwoSteps(j) == j.op \in {"change", "add"}

\* Mutant: an account is changed under SELECT ... FOR UPDATE.
LastLocksForUpdate(j) ==
    Lock("strong", Inserts(j))
    \cup CASE j.op = "change" -> Lock("strong", {<<"user", j.user>>})
           [] j.op = "add" -> IF j.seen = Null THEN {} ELSE Lock("weak", {<<"place", j.place>>})
           [] OTHER -> {}

LastLocks(j) ==
    Lock("strong", Inserts(j))
    \cup CASE j.op = "change" ->
                IF Rekeys(j)
                THEN Lock("strong", {<<"user", j.user>>, <<j.field, users[j.user][j.field]>>})
                ELSE Lock("weak", {<<"user", j.user>>})
           [] j.op \in {"get", "put"} ->
                IF j.seen = Null THEN Lock("share", {<<"user", j.user>>})
                ELSE Lock("weak", {<<"profile", j.user>>})
           [] j.op = "add" -> IF j.seen = Null THEN {} ELSE Lock("weak", {<<"place", j.place>>})
           [] j.op = "remove" -> Lock("strong", {<<"follow", j.id>>})
           [] OTHER -> {}

FirstLocks(j) == IF TwoSteps(j) THEN Lock("share", {<<"user", j.user>>}) ELSE {}

\* Whether the next statement of a session is its last one.
Last(s) == at[s] = "first" \/ (at[s] = "ready" /\ ~TwoSteps(job[s]))

Wants(s) ==
    IF Last(s) THEN LastLocks(job[s])
    ELSE IF at[s] = "ready" THEN FirstLocks(job[s]) ELSE {}
Holds(s) ==
    CASE at[s] = "first" -> FirstLocks(job[s])
      [] at[s] = "written" -> FirstLocks(job[s]) \cup LastLocks(job[s])
      [] OTHER -> {}

Compatible(m, n) == {m, n} \in {{"share"}, {"share", "weak"}}

WaitsFor(s, t) ==
    s # t /\ \E a \in Wants(s), b \in Holds(t) : a.row = b.row /\ ~Compatible(a.mode, b.mode)
Blocked(s) == \E t \in Session : WaitsFor(s, t)

Violates(s) == Last(s) /\ Inserts(job[s]) \cap Taken(job[s]) # {}
-------------------------------------------------------------------------------
\* A session takes up request j, and has come as far as phase.
Take(s, j, phase) ==
    /\ at[s] = "idle" /\ begun < MaxRequests
    /\ at' = [at EXCEPT ![s] = phase]
    /\ job' = [job EXCEPT ![s] = j]
    /\ alone' = IF Active = {} THEN {s} ELSE {}
    /\ begun' = begun + 1
    /\ UNCHANGED tables

\* The session answers and is free.
End(s) ==
    /\ at' = [at EXCEPT ![s] = "idle"] /\ job' = [job EXCEPT ![s] = NoJob]
    /\ alone' = alone \ {s}
    /\ UNCHANGED begun

Free(f, v) == \A u \in Registered : users[u][f] # v

\* Mutant: only the email is looked up.
RegisterAnyName(s) ==
    \E u \in User \ Registered, c \in Credentials :
        /\ \A t \in Active : job[t].op = "register" => job[t].user # u
        /\ Free("email", c.email)
        /\ Take(s, [op |-> "register", user |-> u, new |-> c], "ready")

\* register: the email and the user name are not taken; the id is a new UUID.
Register(s) ==
    \E u \in User \ Registered, c \in Credentials :
        /\ \A t \in Active : job[t].op = "register" => job[t].user # u
        /\ Free("email", c.email) /\ Free("username", c.username)
        /\ Take(s, [op |-> "register", user |-> u, new |-> c], "ready")

\* The account is loaded and its password verified; a user name needs neither.
Load(s) ==
    \E u \in Registered, f \in Fields : \E v \in Domain(f) :
        Take(s, [op |-> "change", user |-> u, field |-> f, old |-> users[u][f], new |-> v],
             IF f = "password" THEN "ready" ELSE "loaded")

\* find_by_email, find_by_username: a value that anyone has is refused.
Check(s) ==
    /\ at[s] = "loaded" /\ job[s].op = "change"
    /\ IF Free(job[s].field, job[s].new)
       THEN at' = [at EXCEPT ![s] = "ready"] /\ UNCHANGED <<job, alone, begun>>
       ELSE End(s)
    /\ UNCHANGED tables

SeenProfile(u) == IF u \in DOMAIN profiles THEN profiles[u] ELSE Null
Empty == [first |-> Null, last |-> Null]

\* get_or_create_profile: a profile that is found is returned, and nothing is written.
GetProfile(s) ==
    \E u \in Registered \ DOMAIN profiles :
        Take(s, [op |-> "get", user |-> u, seen |-> Null, new |-> Empty], "loaded")

\* If none was found, upsert_profile reads once more, and is to write an empty profile
\* over whatever it then finds.
ReadAgain(s) ==
    /\ at[s] = "loaded" /\ job[s].op = "get"
    /\ at' = [at EXCEPT ![s] = "ready"]
    /\ job' = [job EXCEPT ![s].seen = SeenProfile(job[s].user)]
    /\ UNCHANGED <<tables, alone, begun>>

PutProfile(s) ==
    \E u \in Registered, p \in Profile :
        Take(s, [op |-> "put", user |-> u, seen |-> SeenProfile(u), new |-> p], "ready")

AddPlace(s) ==
    \E u \in Registered, p \in Place :
        /\ \A w \in follows : w.user = u => w.place # p
        /\ Take(s, [op |-> "add", user |-> u, place |-> p, id |-> begun, seen |-> Null], "ready")

RemovePlace(s) == \E w \in follows : Take(s, [op |-> "remove", id |-> w.id], "ready")
-------------------------------------------------------------------------------
\* The insert of a row that refers to the user; an add then reads the place.
First(s) ==
    /\ at[s] = "ready" /\ TwoSteps(job[s]) /\ ~Blocked(s)
    /\ at' = [at EXCEPT ![s] = "first"]
    /\ job' = IF job[s].op = "add" /\ job[s].place \in DOMAIN searched
              THEN [job EXCEPT ![s].seen = searched[job[s].place]]
              ELSE job
    /\ UNCHANGED <<tables, alone, begun>>

\* The last statement, unless a unique index rejects it.
Write(s) ==
    /\ Last(s) /\ ~Blocked(s) /\ ~Violates(s)
    /\ at' = [at EXCEPT ![s] = "written"]
    /\ UNCHANGED <<tables, job, alone, begun>>

\* IntegrityError has no handler: get_db rolls back, and the answer is a 500.
Reject(s) == Last(s) /\ ~Blocked(s) /\ Violates(s) /\ End(s) /\ UNCHANGED tables

\* Sets of sessions each of which waits for another of the set.
Deadlocked(S) == S # {} /\ \A s \in S : \E t \in S : WaitsFor(s, t)

\* PostgreSQL breaks a cycle by failing one of its sessions.
Abort(s) == (\E S \in SUBSET Session : s \in S /\ Deadlocked(S)) /\ End(s) /\ UNCHANGED tables

\* The process or the connection is lost, and the transaction with it.
Lose(s) == at[s] # "idle" /\ End(s) /\ UNCHANGED tables
-------------------------------------------------------------------------------
\* What each kind of request leaves in the tables.
With(f, x, v) == [y \in DOMAIN f \cup {x} |-> IF y = x THEN v ELSE f[y]]

SaveUser(j) ==
    /\ users' = With(users, j.user, j.new) /\ origin' = With(origin, j.user, j.new)
    /\ UNCHANGED <<history, profiles, follows, searched>>

\* Mutant: the entry is written after the attribute was set.
LogAfterChange(j) ==
    /\ users' = IF Rekeys(j) \/ j.field = "password"
                THEN [users EXCEPT ![j.user][j.field] = j.new] ELSE users
    /\ history' = history \cup {[user |-> j.user, field |-> j.field, old |-> j.new, new |-> j.new]}
    /\ UNCHANGED <<origin, profiles, follows, searched>>

\* Mutant: the value that is replaced is not recorded.
LogWithoutOld(j) ==
    /\ users' = IF Rekeys(j) \/ j.field = "password"
                THEN [users EXCEPT ![j.user][j.field] = j.new] ELSE users
    /\ history' = history \cup {[user |-> j.user, field |-> j.field, old |-> Null, new |-> j.new]}
    /\ UNCHANGED <<origin, profiles, follows, searched>>

\* A password is hashed with a new salt, so its column is always written.
SaveChange(j) ==
    /\ users' = IF Rekeys(j) \/ j.field = "password"
                THEN [users EXCEPT ![j.user][j.field] = j.new] ELSE users
    /\ history' = history \cup {[user |-> j.user, field |-> j.field, old |-> j.old, new |-> j.new]}
    /\ UNCHANGED <<origin, profiles, follows, searched>>

\* Mutant: attributes that are not given are left as they are.
MergedIfGiven(j, now) ==
    [first |-> IF j.new.first # Null THEN j.new.first ELSE now.first,
     last |-> IF j.new.last # Null THEN j.new.last ELSE now.last]

\* Only attributes that differ from what was loaded are written.
Merged(j, now) ==
    [first |-> IF j.new.first # j.seen.first THEN j.new.first ELSE now.first,
     last |-> IF j.new.last # j.seen.last THEN j.new.last ELSE now.last]
SaveProfile(j) ==
    /\ profiles' = With(profiles, j.user,
                        IF j.seen = Null THEN j.new ELSE Merged(j, profiles[j.user]))
    /\ UNCHANGED <<users, origin, history, follows, searched>>

\* The count that was read is written back, one larger.
SaveFollow(j) ==
    /\ follows' = follows \cup {[id |-> j.id, user |-> j.user, place |-> j.place]}
    /\ searched' = With(searched, j.place, IF j.seen = Null THEN 1 ELSE j.seen + 1)
    /\ UNCHANGED <<users, origin, history, profiles>>

\* Mutant: the count is decremented with the row.
DropAndCount(j) ==
    /\ follows' = {w \in follows : w.id # j.id}
    /\ searched' = [p \in DOMAIN searched |->
                      searched[p] - Cardinality({w \in follows : w.id = j.id /\ w.place = p})]
    /\ UNCHANGED <<users, origin, history, profiles>>

\* A row that is already gone is no error.
DropFollow(j) ==
    /\ follows' = {w \in follows : w.id # j.id}
    /\ UNCHANGED <<users, origin, history, profiles, searched>>

Commit(s) ==
    /\ at[s] = "written"
    /\ CASE job[s].op = "register" -> SaveUser(job[s])
         [] job[s].op = "change" -> SaveChange(job[s])
         [] job[s].op \in {"get", "put"} -> SaveProfile(job[s])
         [] job[s].op = "add" -> SaveFollow(job[s])
         [] OTHER -> DropFollow(job[s])
    /\ End(s)
-------------------------------------------------------------------------------
\* As the migration leaves the tables: no account, and the default place.
Init ==
    /\ users = <<>> /\ origin = <<>> /\ history = {} /\ profiles = <<>> /\ follows = {}
    /\ searched = [p \in {Seeded} |-> 0]
    /\ at = [s \in Session |-> "idle"] /\ job = [s \in Session |-> NoJob]
    /\ alone = {} /\ begun = 0

Next ==
    \E s \in Session :
        \/ Register(s) \/ Load(s) \/ Check(s)
        \/ GetProfile(s) \/ ReadAgain(s) \/ PutProfile(s) \/ AddPlace(s) \/ RemovePlace(s)
        \/ First(s) \/ Write(s) \/ Reject(s) \/ Abort(s) \/ Lose(s) \/ Commit(s)

Spec == Init /\ [][Next]_vars
-------------------------------------------------------------------------------
\* Types of the tables and of the sessions' requests.
TypeOK ==
    /\ users \in [Registered -> Credentials] /\ Registered \subseteq User
    /\ origin \in [Registered -> Credentials]
    /\ \A h \in history : /\ h.user \in Registered /\ h.field \in Fields
                          /\ {h.old, h.new} \subseteq Domain(h.field)
    /\ DOMAIN profiles \subseteq Registered /\ profiles \in [DOMAIN profiles -> Profile]
    /\ follows \subseteq Follow
    /\ Seeded \in DOMAIN searched /\ DOMAIN searched \subseteq Place
    /\ searched \in [DOMAIN searched -> Nat]
    /\ at \in [Session -> {"idle", "loaded", "ready", "first", "written"}]
    /\ job \in [Session -> Job \cup {NoJob}]
    /\ \A s \in Session : at[s] = "idle" <=> job[s] = NoJob
    /\ alone \subseteq Active /\ begun \in 0..MaxRequests

\* Values that the entries of the history lead to from the one registered with.
Traced(u, f, v) ==
    LET Closed(V) ==
            /\ origin[u][f] \in V
            /\ \A h \in history : (h.user = u /\ h.field = f /\ h.old \in V) => h.new \in V
    IN  \A V \in SUBSET Domain(f) : Closed(V) => v \in V

\* However changes overlap, the audit log leads from what an account was registered
\* with to what it has now.
HistoryTraces == \A u \in Registered, f \in Fields : Traced(u, f, users[u][f])

\* Every place somebody follows is one the worker is to search, and is counted, whatever
\* increments are lost and whichever request fails.
FollowedIsSearched ==
    \A w \in follows : w.place \in DOMAIN searched /\ searched[w.place] > 0

\* The lookups before the writes cover the unique indexes: a request that nobody
\* overlaps is never rejected by one.
AloneIsNotRejected == \A s \in alone : ~Violates(s)

\* The only requests that can wait for each other in a cycle are changes of one
\* account's own email or user name, for each has shared the row that both rewrite.
DeadlockOnlyOnOwnRow ==
    \A S \in SUBSET Session : Deadlocked(S) =>
        \E u \in User, T \in SUBSET S :
            /\ T # {} /\ Deadlocked(T)
            /\ \A s \in T : job[s].op = "change" /\ job[s].user = u /\ Rekeys(job[s])

\* A session stores the profile of a user.
Saves(s) == Commit(s) /\ job[s].op \in {"get", "put"}

\* A request that found no profile only ever adds one: however the inserts and updates of
\* one user's profile overlap, what is overwritten was read by the request that does it.
OnlyReadersOverwrite ==
    [][\A s \in Session : Saves(s) /\ job[s].seen = Null =>
        job[s].user \notin DOMAIN profiles]_vars

\* A request that nobody overlaps leaves the profile it was sent, attributes that were
\* removed included, and one that only reads leaves none but an empty one that is new.
AloneProfileAsSent ==
    [][\A s \in alone : Saves(s) =>
        /\ profiles'[job[s].user] = job[s].new
        /\ job[s].op = "get" => job[s].user \notin DOMAIN profiles]_vars

\* "Return the user's profile, creating an empty one if absent": a request that only
\* reads a profile leaves every profile that exists as it is.
ReadingKeepsProfiles ==
    [][\A s \in Session : Saves(s) /\ job[s].op = "get" =>
        \A u \in DOMAIN profiles : profiles'[u] = profiles[u]]_vars
===============================================================================
