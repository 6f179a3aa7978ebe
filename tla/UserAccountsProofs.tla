-------------------------- MODULE UserAccountsProofs --------------------------
(***************************************************************************)
(* Proofs about UserAccounts: its types, the audit log and the places that *)
(* are followed, for any accounts, sessions and requests.                  *)
(***************************************************************************)
EXTENDS UserAccounts, TLAPS

USE AccountsAssumption

\* What a request under way knows: a registration has an identifier of its own, any
\* other request an account, and a profile that was read still exists.
JobsKnown ==
    \A s \in Active :
        /\ job[s].op = "register" =>
             /\ job[s].user \notin Registered
             /\ \A t \in Active \ {s} : job[t].op = "register" => job[t].user # job[s].user
        /\ job[s].op \in {"change", "get", "put", "add"} => job[s].user \in Registered
        /\ job[s].op \in {"get", "put"} /\ job[s].seen # Null => job[s].user \in DOMAIN profiles

Typed == TypeOK /\ JobsKnown
-------------------------------------------------------------------------------
\* Each field of an account's credentials has the type of that field.
LEMMA FieldTyped ==
    ASSUME NEW c \in Credentials, NEW f \in Fields
    PROVE  c[f] \in Domain(f)
<1>1. CASE f = "email" BY <1>1 DEF Credentials, Domain
<1>2. CASE f = "username" BY <1>2 DEF Credentials, Domain
<1>3. CASE f = "password" BY <1>3 DEF Credentials, Domain
<1> QED BY <1>1, <1>2, <1>3 DEF Fields

\* Setting one field leaves credentials, and the other fields as they are.
LEMMA ChangeTyped ==
    ASSUME NEW c \in Credentials, NEW f \in Fields, NEW v \in Domain(f)
    PROVE  /\ [c EXCEPT ![f] = v] \in Credentials
           /\ [c EXCEPT ![f] = v][f] = v
           /\ \A g \in Fields \ {f} : [c EXCEPT ![f] = v][g] = c[g]
<1>1. CASE f = "email" BY <1>1 DEF Credentials, Domain, Fields
<1>2. CASE f = "username" BY <1>2 DEF Credentials, Domain, Fields
<1>3. CASE f = "password" BY <1>3 DEF Credentials, Domain, Fields
<1> QED BY <1>1, <1>2, <1>3 DEF Fields

\* What a request consists of, by its operation.
LEMMA JobShapes ==
    ASSUME NEW j \in Job
    PROVE  \/ j.op = "register" /\ j.user \in User /\ j.new \in Credentials
           \/ /\ j.op = "change" /\ j.user \in User /\ j.field \in Fields
              /\ j.old \in Domain(j.field) /\ j.new \in Domain(j.field)
           \/ /\ j.op \in {"get", "put"} /\ j.user \in User
              /\ j.seen \in Profile \cup {Null} /\ j.new \in Profile
           \/ /\ j.op = "add" /\ j.user \in User /\ j.place \in Place /\ j.id \in Nat
              /\ j.seen \in Nat \cup {Null}
           \/ j.op = "remove" /\ j.id \in Nat
BY DEF Job, Change

\* Taking up a request that knows what it must keeps the types.
LEMMA TakeTyped ==
    ASSUME Typed, NEW s \in Session, NEW j \in Job, NEW phase \in {"loaded", "ready"},
           Take(s, j, phase),
           j.op = "register" =>
             /\ j.user \notin Registered
             /\ \A t \in Active : job[t].op = "register" => job[t].user # j.user,
           j.op \in {"change", "get", "put", "add"} => j.user \in Registered,
           j.op \in {"get", "put"} /\ j.seen # Null => j.user \in DOMAIN profiles
    PROVE  Typed'
<1> USE DEF Typed
<1> DEFINE Phases == {"idle", "loaded", "ready", "first", "written"}
<1>0. at \in [Session -> Phases] /\ at[s] = "idle" /\ at' = [at EXCEPT ![s] = phase] /\ phase # "idle"
  BY DEF Take, TypeOK
<1>1. UNCHANGED tables /\ s \notin Active /\ Active' = Active \cup {s}
  BY <1>0 DEF Take, Active
<1>2. job'[s] = j /\ \A t \in Session \ {s} : job'[t] = job[t] /\ at'[t] = at[t]
  BY DEF Take, TypeOK
<1>3. TypeOK'
  <2>1. at' \in [Session -> {"idle", "loaded", "ready", "first", "written"}] /\ at'[s] = phase
    BY DEF Take, TypeOK
  <2>2. job' \in [Session -> Job \cup {NoJob}] /\ \A t \in Session : at'[t] = "idle" <=> job'[t] = NoJob
    BY <1>2, <2>1, JobShapes DEF TypeOK, Take, NoJob
  <2>3. alone' \subseteq Active' BY <1>1 DEF Take
  <2>4. begun' \in 0..MaxRequests BY DEF Take, TypeOK
  <2> QED BY <1>1, <2>1, <2>2, <2>3, <2>4 DEF TypeOK, tables, Registered
<1>4. JobsKnown'
  BY <1>1, <1>2 DEF JobsKnown, Active, Registered, tables
<1> QED BY <1>3, <1>4

\* Ending a request without a trace keeps the types.
LEMMA EndTyped ==
    ASSUME Typed, NEW s \in Session, End(s), UNCHANGED tables
    PROVE  Typed'
<1> USE DEF Typed
<1> DEFINE Phases == {"idle", "loaded", "ready", "first", "written"}
<1>0. at \in [Session -> Phases] /\ at' = [at EXCEPT ![s] = "idle"] BY DEF End, TypeOK
<1>1. Active' = Active \ {s} BY <1>0 DEF Active
<1>2. \A t \in Session \ {s} : job'[t] = job[t] /\ at'[t] = at[t] BY <1>0 DEF End, TypeOK
<1>3. TypeOK'
  <2>1. at' \in [Session -> Phases] /\ at'[s] = "idle" /\ job'[s] = NoJob
    BY <1>0 DEF End, TypeOK
  <2>2. job' \in [Session -> Job \cup {NoJob}] /\ \A t \in Session : at'[t] = "idle" <=> job'[t] = NoJob
    BY <1>2, <2>1 DEF TypeOK, End
  <2>3. alone' \subseteq Active' /\ begun' \in 0..MaxRequests BY <1>1 DEF End, TypeOK
  <2> QED BY <2>1, <2>2, <2>3 DEF TypeOK, tables, Registered
<1>4. JobsKnown' BY <1>1, <1>2 DEF JobsKnown, Registered, tables, Active
<1> QED BY <1>3, <1>4

\* A step of a request under way that changes no table: the phase moves on, and an
\* add may have read a count.
LEMMA AdvanceTyped ==
    ASSUME Typed, NEW s \in Session, NEW phase \in {"ready", "first", "written"},
           at[s] # "idle", at' = [at EXCEPT ![s] = phase],
           UNCHANGED <<tables, alone, begun>>,
           \/ UNCHANGED job
           \/ \E n \in Nat : job[s].op = "add" /\ job' = [job EXCEPT ![s].seen = n]
    PROVE  Typed'
<1> USE DEF Typed
<1> DEFINE Phases == {"idle", "loaded", "ready", "first", "written"}
<1>1. at \in [Session -> Phases] /\ at'[s] = phase /\ at' \in [Session -> Phases]
  BY DEF TypeOK
<1>2. Active' = Active BY <1>1 DEF Active
<1>3. CASE UNCHANGED job
  <2>1. TypeOK' BY <1>1, <1>2, <1>3 DEF TypeOK, tables, Registered
  <2>2. JobsKnown' BY <1>2, <1>3 DEF JobsKnown, tables, Registered
  <2> QED BY <2>1, <2>2
<1>4. ASSUME NEW n \in Nat, job[s].op = "add", job' = [job EXCEPT ![s].seen = n]
      PROVE  Typed'
  <2>1. job[s] \in [op: {"add"}, user: User, place: Place, id: Nat, seen: Nat \cup {Null}]
    BY <1>4 DEF TypeOK, Job, Change, NoJob
  <2>2. /\ job'[s] \in [op: {"add"}, user: User, place: Place, id: Nat, seen: Nat \cup {Null}]
        /\ job'[s].user = job[s].user /\ job'[s].op = "add"
        /\ \A t \in Session \ {s} : job'[t] = job[t]
        /\ job' \in [Session -> Job \cup {NoJob}]
    BY <1>4, <2>1 DEF TypeOK, Job
  <2>3. TypeOK' BY <1>1, <1>2, <2>2 DEF TypeOK, tables, Registered, NoJob
  <2>4. JobsKnown' BY <1>2, <2>1, <2>2 DEF JobsKnown, tables, Registered, Active
  <2> QED BY <2>3, <2>4
<1> QED BY <1>3, <1>4

\* The second read of a profile keeps the types.
LEMMA ReadTyped ==
    ASSUME Typed, NEW s \in Session, ReadAgain(s)
    PROVE  /\ Typed'
           /\ Active' = Active /\ s \in Active /\ at'[s] = "ready" /\ job'[s].op = "get"
           /\ job[s].op = "get" /\ job'[s].user = job[s].user
           /\ job'[s].seen = SeenProfile(job[s].user)
           /\ \A t \in Session \ {s} : job'[t] = job[t] /\ at'[t] = at[t]
<1> USE DEF Typed
<1> PICK v : v = SeenProfile(job[s].user)
  OBVIOUS
<1>1. /\ at[s] = "loaded" /\ job[s].op = "get" /\ at' = [at EXCEPT ![s] = "ready"]
      /\ job' = [job EXCEPT ![s].seen = v] /\ UNCHANGED <<tables, alone, begun>>
  BY DEF ReadAgain
<1>2. s \in Active /\ job[s] \in [op: {"get", "put"}, user: User, seen: Profile \cup {Null}, new: Profile]
  BY <1>1 DEF TypeOK, Job, Change, NoJob, Active
<1>3. v \in Profile \cup {Null} /\ (v # Null => job[s].user \in DOMAIN profiles)
  BY DEF SeenProfile, TypeOK
<1>4. /\ job'[s] \in [op: {"get", "put"}, user: User, seen: Profile \cup {Null}, new: Profile]
      /\ job'[s].user = job[s].user /\ job'[s].op = "get" /\ job'[s].seen = v
      /\ \A t \in Session \ {s} : job'[t] = job[t] /\ at'[t] = at[t]
      /\ job' \in [Session -> Job \cup {NoJob}]
      /\ at'[s] = "ready" /\ at' \in [Session -> {"idle", "loaded", "ready", "first", "written"}]
  BY <1>1, <1>2, <1>3 DEF TypeOK, Job
<1>5. Active' = Active BY <1>1, <1>4 DEF Active
<1>6. TypeOK' BY <1>1, <1>4, <1>5 DEF TypeOK, tables, Registered, NoJob
<1>7. JobsKnown' BY <1>1, <1>2, <1>3, <1>4, <1>5 DEF JobsKnown, tables, Registered, Active
<1> QED BY <1>1, <1>2, <1>4, <1>5, <1>6, <1>7

\* A commit keeps the types, and leaves each kind of table to its kind of request.
LEMMA CommitTyped ==
    ASSUME Typed, NEW s \in Session, Commit(s)
    PROVE  Typed'
<1> USE DEF Typed
<1> DEFINE Phases == {"idle", "loaded", "ready", "first", "written"}
           j == job[s]
<1>0. at \in [Session -> Phases] /\ at' = [at EXCEPT ![s] = "idle"] /\ s \in Active
  BY DEF Commit, End, TypeOK, Active
<1>1. Active' = Active \ {s} BY <1>0 DEF Active
<1>2. \A t \in Session \ {s} : job'[t] = job[t] /\ at'[t] = at[t]
  BY <1>0 DEF Commit, End, TypeOK
<1>3. /\ at' \in [Session -> Phases] /\ job' \in [Session -> Job \cup {NoJob}]
      /\ \A t \in Session : at'[t] = "idle" <=> job'[t] = NoJob
      /\ alone' \subseteq Active' /\ begun' \in 0..MaxRequests
  BY <1>0, <1>1, <1>2 DEF Commit, End, TypeOK
<1>4. j \in Job BY <1>0 DEF TypeOK, Active
<1>5. CASE j.op = "register"
  <2>1. j.user \in User /\ j.new \in Credentials /\ SaveUser(j)
    BY <1>4, <1>5, JobShapes DEF Commit
  <2>2. /\ users' \in [Registered \cup {j.user} -> Credentials]
        /\ origin' \in [Registered \cup {j.user} -> Credentials]
        /\ Registered' = Registered \cup {j.user}
    BY <2>1 DEF SaveUser, TypeOK, Registered, With
  <2>3. TypeOK' BY <1>3, <2>1, <2>2 DEF TypeOK, SaveUser
  <2>4. \A t \in Active' : job[t].op = "register" => job[t].user # j.user
    BY <1>0, <1>1, <1>5 DEF JobsKnown
  <2>5. JobsKnown' BY <1>1, <1>2, <2>1, <2>2, <2>4 DEF JobsKnown, SaveUser, Active
  <2> QED BY <2>3, <2>5
<1>6. CASE j.op = "change"
  <2>1. /\ j.user \in Registered /\ j.field \in Fields /\ SaveChange(j)
        /\ j.old \in Domain(j.field) /\ j.new \in Domain(j.field)
    BY <1>0, <1>4, <1>6, JobShapes DEF Commit, JobsKnown
  <2>2. users' \in [Registered -> Credentials] /\ Registered' = Registered
    <3>1. [users[j.user] EXCEPT ![j.field] = j.new] \in Credentials
      BY <2>1, ChangeTyped DEF TypeOK
    <3> QED BY <2>1, <3>1 DEF SaveChange, TypeOK, Registered
  <2>3. TypeOK' BY <1>3, <2>1, <2>2 DEF TypeOK, SaveChange
  <2>4. JobsKnown' BY <1>1, <1>2, <2>1, <2>2 DEF JobsKnown, SaveChange, Active
  <2> QED BY <2>3, <2>4
<1>7. CASE j.op \in {"get", "put"}
  <2>1. /\ j.user \in Registered /\ SaveProfile(j)
        /\ j.seen \in Profile \cup {Null} /\ j.new \in Profile
        /\ j.seen # Null => j.user \in DOMAIN profiles
    BY <1>0, <1>4, <1>7, JobShapes DEF Commit, JobsKnown
  <2>2. /\ profiles' \in [DOMAIN profiles \cup {j.user} -> Profile]
        /\ DOMAIN profiles' = DOMAIN profiles \cup {j.user}
    <3>1. j.seen # Null => Merged(j, profiles[j.user]) \in Profile
      BY <2>1 DEF Merged, Profile, TypeOK
    <3> QED BY <2>1, <3>1 DEF SaveProfile, TypeOK, With
  <2>3. TypeOK' BY <1>3, <2>1, <2>2 DEF TypeOK, SaveProfile, Registered
  <2>4. JobsKnown' BY <1>1, <1>2, <2>1, <2>2 DEF JobsKnown, SaveProfile, Active, Registered
  <2> QED BY <2>3, <2>4
<1>8. CASE j.op = "add"
  <2>1. /\ j.user \in User /\ j.place \in Place /\ j.id \in Nat /\ SaveFollow(j)
        /\ j.seen \in Nat \cup {Null}
    BY <1>0, <1>4, <1>8, JobShapes DEF Commit
  <2>2. /\ searched' \in [DOMAIN searched \cup {j.place} -> Nat]
        /\ DOMAIN searched' = DOMAIN searched \cup {j.place}
    BY <2>1 DEF SaveFollow, TypeOK, With
  <2>3. TypeOK' BY <1>3, <2>1, <2>2 DEF TypeOK, SaveFollow, Registered, Follow
  <2>4. JobsKnown' BY <1>1, <1>2, <2>1 DEF JobsKnown, SaveFollow, Active, Registered
  <2> QED BY <2>3, <2>4
<1>9. CASE j.op = "remove"
  <2>1. DropFollow(j) BY <1>9 DEF Commit
  <2>2. TypeOK' BY <1>3, <2>1 DEF TypeOK, DropFollow, Registered
  <2>3. JobsKnown' BY <1>1, <1>2, <2>1 DEF JobsKnown, DropFollow, Active, Registered
  <2> QED BY <2>2, <2>3
<1> QED BY <1>4, <1>5, <1>6, <1>7, <1>8, <1>9, JobShapes
-------------------------------------------------------------------------------
\* Only a commit changes the tables.
LEMMA OnlyCommits ==
    ASSUME NEW s \in Session,
           \/ Register(s) \/ Load(s) \/ Check(s) \/ GetProfile(s) \/ ReadAgain(s)
           \/ PutProfile(s) \/ AddPlace(s) \/ RemovePlace(s) \/ First(s) \/ Write(s) \/ Reject(s)
           \/ Abort(s) \/ Lose(s)
    PROVE  UNCHANGED tables
BY DEF Register, Load, Check, GetProfile, ReadAgain, PutProfile, AddPlace, RemovePlace, First,
       Write, Reject, Abort, Lose, Take

\* Each step keeps the types.
LEMMA StepTyped ==
    ASSUME Typed, [Next]_vars
    PROVE  Typed'
<1>1. ASSUME NEW s \in Session, Register(s) PROVE Typed'
  <2> PICK u \in User \ Registered, c \in Credentials :
        /\ \A t \in Active : job[t].op = "register" => job[t].user # u
        /\ Take(s, [op |-> "register", user |-> u, new |-> c], "ready")
    BY <1>1 DEF Register
  <2> DEFINE j == [op |-> "register", user |-> u, new |-> c]
  <2>1. j \in Job BY DEF Job
  <2> QED BY <2>1, TakeTyped
<1>2. ASSUME NEW s \in Session, Load(s) PROVE Typed'
  <2> PICK u \in Registered, f \in Fields :
        \E v \in Domain(f) :
          Take(s, [op |-> "change", user |-> u, field |-> f, old |-> users[u][f], new |-> v],
               IF f = "password" THEN "ready" ELSE "loaded")
    BY <1>2 DEF Load
  <2> PICK v \in Domain(f) :
        Take(s, [op |-> "change", user |-> u, field |-> f, old |-> users[u][f], new |-> v],
             IF f = "password" THEN "ready" ELSE "loaded")
    OBVIOUS
  <2> DEFINE j == [op |-> "change", user |-> u, field |-> f, old |-> users[u][f], new |-> v]
             phase == IF f = "password" THEN "ready" ELSE "loaded"
  <2>1. users[u][f] \in Domain(f) BY FieldTyped DEF Typed, TypeOK
  <2>2. j \in Job BY <2>1 DEF Job, Change, Typed, TypeOK, Domain
  <2>3. phase \in {"loaded", "ready"} OBVIOUS
  <2> QED BY <2>2, <2>3, TakeTyped
<1>3. ASSUME NEW s \in Session, Check(s) PROVE Typed'
  BY <1>3, AdvanceTyped, EndTyped DEF Check
<1>4. ASSUME NEW s \in Session, GetProfile(s) PROVE Typed'
  <2> PICK u \in Registered \ DOMAIN profiles :
        Take(s, [op |-> "get", user |-> u, seen |-> Null, new |-> Empty], "loaded")
    BY <1>4 DEF GetProfile
  <2> DEFINE j == [op |-> "get", user |-> u, seen |-> Null, new |-> Empty]
  <2>1. j \in Job BY DEF Job, Empty, Profile, Typed, TypeOK
  <2> QED BY <2>1, TakeTyped
<1>5. ASSUME NEW s \in Session, PutProfile(s) PROVE Typed'
  <2> PICK u \in Registered, p \in Profile :
        Take(s, [op |-> "put", user |-> u, seen |-> SeenProfile(u), new |-> p], "ready")
    BY <1>5 DEF PutProfile
  <2> DEFINE j == [op |-> "put", user |-> u, seen |-> SeenProfile(u), new |-> p]
  <2>1. SeenProfile(u) \in Profile \cup {Null} BY DEF SeenProfile, Typed, TypeOK
  <2>2. j \in Job BY <2>1 DEF Job, Typed, TypeOK
  <2>3. j.seen # Null => j.user \in DOMAIN profiles BY DEF SeenProfile
  <2> QED BY <2>2, <2>3, TakeTyped
<1>6. ASSUME NEW s \in Session, AddPlace(s) PROVE Typed'
  <2> PICK u \in Registered, p \in Place :
        Take(s, [op |-> "add", user |-> u, place |-> p, id |-> begun, seen |-> Null], "ready")
    BY <1>6 DEF AddPlace
  <2> DEFINE j == [op |-> "add", user |-> u, place |-> p, id |-> begun, seen |-> Null]
  <2>1. j \in Job BY DEF Job, Typed, TypeOK
  <2> QED BY <2>1, TakeTyped
<1>7. ASSUME NEW s \in Session, RemovePlace(s) PROVE Typed'
  <2> PICK w \in follows : Take(s, [op |-> "remove", id |-> w.id], "ready")
    BY <1>7 DEF RemovePlace
  <2> DEFINE j == [op |-> "remove", id |-> w.id]
  <2>1. j \in Job BY DEF Job, Typed, TypeOK, Follow
  <2> QED BY <2>1, TakeTyped
<1>8. ASSUME NEW s \in Session, First(s) PROVE Typed'
  <2>1. at[s] # "idle" /\ at' = [at EXCEPT ![s] = "first"] /\ UNCHANGED <<tables, alone, begun>>
    BY <1>8 DEF First
  <2>2. job[s].op = "add" /\ job[s].place \in DOMAIN searched => searched[job[s].place] \in Nat
    BY DEF Typed, TypeOK
  <2>3. \/ UNCHANGED job
        \/ \E n \in Nat : job[s].op = "add" /\ job' = [job EXCEPT ![s].seen = n]
    BY <1>8, <2>2 DEF First
  <2> QED BY <2>1, <2>3, AdvanceTyped
<1>9. ASSUME NEW s \in Session, Write(s) PROVE Typed'
  BY <1>9, AdvanceTyped DEF Write, Last
<1>10. ASSUME NEW s \in Session, Reject(s) \/ Abort(s) \/ Lose(s) PROVE Typed'
  BY <1>10, EndTyped DEF Reject, Abort, Lose
<1>11. ASSUME NEW s \in Session, Commit(s) PROVE Typed'
  BY <1>11, CommitTyped
<1>13. ASSUME NEW s \in Session, ReadAgain(s) PROVE Typed'
  BY <1>13, ReadTyped
<1>12. CASE UNCHANGED vars
  BY <1>12 DEF vars, tables, Typed, TypeOK, JobsKnown, Registered, Active
<1> QED
  BY <1>1, <1>2, <1>3, <1>4, <1>5, <1>6, <1>7, <1>8, <1>9, <1>10, <1>11, <1>12,
     <1>13 DEF Next

\* The tables and the requests keep their types.
THEOREM AccountsTyped == Spec => []TypeOK
<1>1. Init => Typed
  BY DEF Init, Typed, TypeOK, JobsKnown, Registered, Active, Follow
<1>2. Typed /\ [Next]_vars => Typed' BY StepTyped
<1>3. Typed => TypeOK BY DEF Typed
<1> QED BY <1>1, <1>2, <1>3, PTL DEF Spec
-------------------------------------------------------------------------------
\* What a change replaces is a value the log leads to, even if it was replaced since.
JobsTraced ==
    \A s \in Active : job[s].op = "change" => Traced(job[s].user, job[s].field, job[s].old)

Logged == Typed /\ HistoryTraces /\ JobsTraced

\* Adding entries loses no value that the log leads to.
LEMMA TracedGrows ==
    ASSUME NEW u, NEW f, NEW v, Traced(u, f, v), history \subseteq history',
           origin'[u][f] = origin[u][f]
    PROVE  Traced(u, f, v)'
BY DEF Traced

\* Taking up a request keeps the log, if a change replaces a value it leads to.
LEMMA TakeLogged ==
    ASSUME Logged, NEW s \in Session, NEW j \in Job, NEW phase \in {"loaded", "ready"},
           Take(s, j, phase), j.op = "change" => Traced(j.user, j.field, j.old)
    PROVE  HistoryTraces' /\ JobsTraced'
<1>1. UNCHANGED tables BY DEF Take
<1>2. job'[s] = j /\ \A t \in Session \ {s} : job'[t] = job[t] /\ at'[t] = at[t]
  BY DEF Take, Logged, Typed, TypeOK
<1>3. HistoryTraces' BY <1>1 DEF tables, Logged, HistoryTraces, Traced, Registered
<1>4. JobsTraced' BY <1>1, <1>2 DEF tables, Logged, JobsTraced, Traced, Active
<1> QED BY <1>3, <1>4

\* A step that changes no table, and no change's request, keeps the log.
LEMMA QuietLogged ==
    ASSUME Logged, UNCHANGED tables,
           \A t \in Active' : t \in Active /\ (job'[t] = job[t] \/ job'[t].op # "change")
    PROVE  HistoryTraces' /\ JobsTraced'
<1>1. HistoryTraces' BY DEF tables, Logged, HistoryTraces, Traced, Registered
<1>2. JobsTraced' BY DEF tables, Logged, JobsTraced, Traced
<1> QED BY <1>1, <1>2

\* A commit keeps the log: a change adds an entry from a value that is traced.
LEMMA CommitLogged ==
    ASSUME Logged, NEW s \in Session, Commit(s)
    PROVE  HistoryTraces' /\ JobsTraced'
<1> USE DEF Logged
<1> PICK j : j = job[s] OBVIOUS
<1>0. /\ \A t \in Active' : t \in Active /\ t # s /\ job'[t] = job[t]
      /\ s \in Active /\ j \in Job
  BY DEF Commit, End, Typed, TypeOK, Active
<1>1. CASE j.op = "register"
  <2>1. SaveUser(j) /\ j.user \notin Registered /\ j.new \in Credentials
    BY <1>0, <1>1, JobShapes DEF Commit, Typed, JobsKnown
  <2>2. /\ Registered' = Registered \cup {j.user} /\ history' = history
        /\ users'[j.user] = j.new /\ origin'[j.user] = j.new
        /\ \A u \in Registered : users'[u] = users[u] /\ origin'[u] = origin[u]
    BY <2>1 DEF SaveUser, With, Registered, Typed, TypeOK
  <2>3. HistoryTraces'
    <3>1. \A f \in Fields : Traced(j.user, f, users[j.user][f])' BY <2>2 DEF Traced
    <3>2. \A u \in Registered, f \in Fields : Traced(u, f, users[u][f])'
      BY <2>2 DEF HistoryTraces, Traced
    <3> QED BY <2>2, <3>1, <3>2 DEF HistoryTraces
  <2>4. JobsTraced'
    <3> SUFFICES ASSUME NEW t \in Active', job'[t].op = "change"
                 PROVE  Traced(job[t].user, job[t].field, job[t].old)'
      BY DEF JobsTraced
    <3>1. job'[t] = job[t] /\ job[t].user \in Registered
          /\ Traced(job[t].user, job[t].field, job[t].old)
      BY <1>0 DEF JobsTraced, Typed, JobsKnown
    <3> QED BY <2>2, <3>1 DEF Traced
  <2> QED BY <2>3, <2>4
<1>2. CASE j.op = "change"
  <2>1. /\ SaveChange(j) /\ j.user \in Registered /\ j.field \in Fields
        /\ j.old \in Domain(j.field) /\ j.new \in Domain(j.field)
        /\ Traced(j.user, j.field, j.old)
    BY <1>0, <1>2, JobShapes DEF Commit, Typed, JobsKnown, JobsTraced
  <2>2. /\ history \subseteq history' /\ origin' = origin
        /\ [user |-> j.user, field |-> j.field, old |-> j.old, new |-> j.new] \in history'
    BY <2>1 DEF SaveChange
  <2>3. Traced(j.user, j.field, j.new)'
    <3>1. Traced(j.user, j.field, j.old)' BY <2>1, <2>2 DEF Traced
    <3> QED BY <2>2, <3>1 DEF Traced
  <2>4. Registered' = Registered BY <2>1 DEF SaveChange, Registered, Typed, TypeOK
  <2>5. \A u \in Registered, f \in Fields :
          users'[u][f] = users[u][f]
          \/ (u = j.user /\ f = j.field /\ users'[u][f] = j.new)
    <3> SUFFICES ASSUME NEW u \in Registered, NEW f \in Fields
                 PROVE  users'[u][f] = users[u][f]
                        \/ (u = j.user /\ f = j.field /\ users'[u][f] = j.new)
      OBVIOUS
    <3>1. users' = users \/ users' = [users EXCEPT ![j.user] = [users[j.user] EXCEPT ![j.field] = j.new]]
      BY <2>1 DEF SaveChange
    <3>2. users[j.user] \in Credentials BY <2>1 DEF Typed, TypeOK
    <3>3. CASE u = j.user
      <4>1. users'[u][f] = users[u][f] \/ users'[u][f] = [users[u] EXCEPT ![j.field] = j.new][f]
        BY <3>1, <3>3, <2>1 DEF Typed, TypeOK
      <4> QED BY <2>1, <3>2, <3>3, <4>1, ChangeTyped
    <3>4. CASE u # j.user BY <3>1, <3>4 DEF Typed, TypeOK
    <3> QED BY <3>3, <3>4
  <2>6. HistoryTraces'
    <3> SUFFICES ASSUME NEW u \in Registered, NEW f \in Fields
                 PROVE  Traced(u, f, users[u][f])'
      BY <2>4 DEF HistoryTraces
    <3>1. CASE users'[u][f] = users[u][f]
      BY <2>2, <3>1 DEF HistoryTraces, Traced
    <3>2. CASE u = j.user /\ f = j.field /\ users'[u][f] = j.new
      BY <2>3, <3>2 DEF Traced
    <3> QED BY <2>5, <3>1, <3>2
  <2>7. JobsTraced' BY <1>0, <2>2 DEF JobsTraced, Traced
  <2> QED BY <2>6, <2>7
<1>3. CASE j.op \notin {"register", "change"}
  <2>1. UNCHANGED <<users, origin, history>>
    BY <1>0, <1>3, JobShapes DEF Commit, SaveProfile, SaveFollow, DropFollow
  <2>2. HistoryTraces' BY <2>1 DEF HistoryTraces, Traced, Registered
  <2>3. JobsTraced' BY <1>0, <2>1 DEF JobsTraced, Traced
  <2> QED BY <2>2, <2>3
<1> QED BY <1>1, <1>2, <1>3

\* Each step keeps the log.
LEMMA StepLogged ==
    ASSUME Logged, [Next]_vars
    PROVE  HistoryTraces' /\ JobsTraced'
<1> USE DEF Logged
<1>1. ASSUME NEW s \in Session, Load(s) PROVE HistoryTraces' /\ JobsTraced'
  <2> PICK u \in Registered, f \in Fields :
        \E v \in Domain(f) :
          Take(s, [op |-> "change", user |-> u, field |-> f, old |-> users[u][f], new |-> v],
               IF f = "password" THEN "ready" ELSE "loaded")
    BY <1>1 DEF Load
  <2> PICK v \in Domain(f) :
        Take(s, [op |-> "change", user |-> u, field |-> f, old |-> users[u][f], new |-> v],
             IF f = "password" THEN "ready" ELSE "loaded")
    OBVIOUS
  <2> DEFINE j == [op |-> "change", user |-> u, field |-> f, old |-> users[u][f], new |-> v]
  <2>1. users[u][f] \in Domain(f) BY FieldTyped DEF Typed, TypeOK
  <2>2. j \in Job BY <2>1 DEF Job, Change, Typed, TypeOK, Domain
  <2>3. Traced(j.user, j.field, j.old) BY DEF HistoryTraces
  <2>4. (IF f = "password" THEN "ready" ELSE "loaded") \in {"loaded", "ready"} OBVIOUS
  <2> HIDE DEF j
  <2> QED BY <2>2, <2>3, <2>4, TakeLogged DEF j
<1>2. ASSUME NEW s \in Session,
             Register(s) \/ GetProfile(s) \/ PutProfile(s) \/ AddPlace(s) \/ RemovePlace(s)
      PROVE  HistoryTraces' /\ JobsTraced'
  <2>1. UNCHANGED tables BY <1>2, OnlyCommits
  <2>2. \E j : j.op # "change" /\ (Take(s, j, "ready") \/ Take(s, j, "loaded"))
    BY <1>2 DEF Register, GetProfile, PutProfile, AddPlace, RemovePlace
  <2>3. \A t \in Active' : job'[t].op # "change" \/ (t \in Active /\ job'[t] = job[t])
    BY <2>2 DEF Take, Active, Typed, TypeOK
  <2> QED BY <2>1, <2>3 DEF tables, HistoryTraces, JobsTraced, Traced, Registered
<1>3. ASSUME NEW s \in Session,
             Check(s) \/ Write(s) \/ Reject(s) \/ Abort(s) \/ Lose(s)
      PROVE  HistoryTraces' /\ JobsTraced'
  <2>1. UNCHANGED tables BY <1>3, OnlyCommits
  <2>2. \A t \in Active' : t \in Active /\ job'[t] = job[t]
    BY <1>3 DEF Check, Write, Reject, Abort, Lose, End, Active, Last, Typed, TypeOK
  <2> QED BY <2>1, <2>2, QuietLogged
<1>4. ASSUME NEW s \in Session, First(s) PROVE HistoryTraces' /\ JobsTraced'
  <2>1. UNCHANGED tables BY <1>4 DEF First
  <2>2. \A t \in Active' : t \in Active /\ (job'[t] = job[t] \/ job'[t].op # "change")
    <3>1. \A t \in Active' : t \in Active BY <1>4 DEF First, Active, Typed, TypeOK
    <3>2. CASE UNCHANGED job BY <3>1, <3>2
    <3>3. CASE job[s].op = "add" /\ job' = [job EXCEPT ![s].seen = searched[job[s].place]]
      <4>1. job[s] \in [op: {"add"}, user: User, place: Place, id: Nat, seen: Nat \cup {Null}]
        BY <3>3 DEF Typed, TypeOK, Job, Change, NoJob
      <4>2. job'[s].op = "add" /\ \A t \in Session \ {s} : job'[t] = job[t]
        BY <3>3, <4>1 DEF Typed, TypeOK
      <4> QED BY <3>1, <4>2 DEF Active
    <3> QED BY <1>4, <3>2, <3>3 DEF First
  <2> QED BY <2>1, <2>2, QuietLogged
<1>5. ASSUME NEW s \in Session, Commit(s) PROVE HistoryTraces' /\ JobsTraced'
  BY <1>5, CommitLogged
<1>6. CASE UNCHANGED vars
  BY <1>6, QuietLogged DEF vars, Active
<1>7. ASSUME NEW s \in Session, ReadAgain(s) PROVE HistoryTraces' /\ JobsTraced'
  <2>1. UNCHANGED tables BY <1>7, OnlyCommits
  <2>2. \A t \in Active' : t \in Active /\ (job'[t] = job[t] \/ job'[t].op # "change")
    BY <1>7, ReadTyped DEF Active
  <2> QED BY <2>1, <2>2, QuietLogged
<1> QED BY <1>1, <1>2, <1>3, <1>4, <1>5, <1>6, <1>7 DEF Next

\* The audit log leads from what an account was registered with to what it has now,
\* however its changes overlap.
THEOREM LogLeadsHere == Spec => []HistoryTraces
<1>1. Init => Logged
  BY DEF Init, Logged, Typed, TypeOK, JobsKnown, HistoryTraces, JobsTraced, Registered, Active,
         Follow
<1>2. Logged /\ [Next]_vars => Logged' BY StepTyped, StepLogged DEF Logged
<1>3. Logged => HistoryTraces BY DEF Logged
<1> QED BY <1>1, <1>2, <1>3, PTL DEF Spec
-------------------------------------------------------------------------------
\* Each step keeps every followed place among those that are searched.
LEMMA StepSearched ==
    ASSUME Typed, FollowedIsSearched, [Next]_vars
    PROVE  FollowedIsSearched'
<1>1. CASE UNCHANGED tables BY <1>1 DEF tables, FollowedIsSearched
<1>2. ASSUME NEW s \in Session, Commit(s) PROVE FollowedIsSearched'
  <2> PICK j : j = job[s] OBVIOUS
  <2>1. j \in Job BY <1>2 DEF Commit, Typed, TypeOK
  <2>2. CASE j.op = "add"
    <3>1. SaveFollow(j) /\ j.seen \in Nat \cup {Null} BY <1>2, <2>1, <2>2, JobShapes DEF Commit
    <3>2. /\ DOMAIN searched' = DOMAIN searched \cup {j.place} /\ searched'[j.place] > 0
          /\ \A p \in DOMAIN searched : p # j.place => searched'[p] = searched[p]
      BY <3>1 DEF SaveFollow, With
    <3>3. \A w \in follows' : w \in follows \/ w.place = j.place BY <3>1 DEF SaveFollow
    <3> QED BY <3>2, <3>3 DEF FollowedIsSearched
  <2>3. CASE j.op = "remove"
    <3>1. DropFollow(j) BY <1>2, <2>3 DEF Commit
    <3> QED BY <3>1 DEF DropFollow, FollowedIsSearched
  <2>4. CASE j.op \notin {"add", "remove"}
    <3>1. UNCHANGED <<follows, searched>>
      BY <1>2, <2>1, <2>4, JobShapes DEF Commit, SaveUser, SaveChange, SaveProfile
    <3> QED BY <3>1 DEF FollowedIsSearched
  <2> QED BY <2>2, <2>3, <2>4
<1>3. UNCHANGED tables \/ \E s \in Session : Commit(s)
  BY OnlyCommits DEF Next, vars
<1> QED BY <1>1, <1>2, <1>3

\* Every place somebody follows is one the worker is to search, and counted.
THEOREM FollowedPlacesSearched == Spec => []FollowedIsSearched
<1>1. Init => Typed /\ FollowedIsSearched
  BY DEF Init, Typed, TypeOK, JobsKnown, FollowedIsSearched, Registered, Active, Follow
<1>2. Typed /\ FollowedIsSearched /\ [Next]_vars => Typed' /\ FollowedIsSearched'
  BY StepTyped, StepSearched
<1> QED BY <1>1, <1>2, PTL DEF Spec
-------------------------------------------------------------------------------
\* A request that has inserted a profile is the only one that writes that profile.
CreatorsApart ==
    \A s \in Active :
        at[s] = "written" /\ job[s].op \in {"get", "put"} /\ job[s].seen = Null =>
            /\ job[s].user \notin DOMAIN profiles
            /\ \A t \in Active \ {s} :
                 at[t] = "written" /\ job[t].op \in {"get", "put"} => job[t].user # job[s].user

\* What a profile's request inserts, by what it has read.
LEMMA ProfileKey ==
    ASSUME NEW j, j.op \in {"get", "put"}
    PROVE  Inserts(j) = IF j.seen = Null THEN {<<"profile", j.user>>} ELSE {}
<1>1. j.op # "register" /\ j.op # "change" OBVIOUS
<1> QED BY <1>1 DEF Inserts

ProfileMode(j) == IF j.seen = Null THEN "strong" ELSE "weak"

\* Writing a profile locks it: its key, if it is inserted, and its row otherwise.
LEMMA ProfileLock ==
    ASSUME NEW j, j.op \in {"get", "put"}
    PROVE  [mode |-> ProfileMode(j), row |-> <<"profile", j.user>>] \in LastLocks(j)
<1>1. CASE j.seen = Null
  BY <1>1, ProfileKey DEF LastLocks, Lock, ProfileMode
<1>2. CASE j.seen # Null
  <2>1. j.op # "change" OBVIOUS
  <2> QED BY <1>2, <2>1 DEF LastLocks, Lock, ProfileMode
<1> QED BY <1>1, <1>2

\* Statements that write one profile, one of them inserting it, exclude each other.
LEMMA ProfileLocks ==
    ASSUME NEW s \in Session, NEW t \in Session, s # t, ~Blocked(s),
           job[s].op \in {"get", "put"}, job[t].op \in {"get", "put"},
           Last(s), at[t] = "written",
           job[s].seen = Null \/ job[t].seen = Null
    PROVE  job[s].user # job[t].user
<1> SUFFICES ASSUME job[s].user = job[t].user PROVE FALSE
  OBVIOUS
<1> DEFINE Mine == [mode |-> ProfileMode(job[s]), row |-> <<"profile", job[s].user>>]
           Theirs == [mode |-> ProfileMode(job[t]), row |-> <<"profile", job[t].user>>]
<1>1. Mine \in LastLocks(job[s]) BY ProfileLock
<1>2. Theirs \in LastLocks(job[t]) BY ProfileLock
<1>3. Wants(s) = LastLocks(job[s]) /\ LastLocks(job[t]) \subseteq Holds(t)
  BY DEF Wants, Holds
<1>4. Mine.row = Theirs.row /\ ~Compatible(Mine.mode, Theirs.mode)
  BY DEF Compatible, ProfileMode
<1>5. WaitsFor(s, t)
  <2> HIDE DEF Mine, Theirs
  <2> QED BY <1>1, <1>2, <1>3, <1>4 DEF WaitsFor
<1> QED BY <1>5 DEF Blocked

\* Each step keeps those who insert a profile apart.
LEMMA StepApart ==
    ASSUME Typed, CreatorsApart, [Next]_vars
    PROVE  CreatorsApart'
<1>1. ASSUME NEW s \in Session, NEW j, NEW phase \in {"loaded", "ready"}, Take(s, j, phase)
      PROVE  CreatorsApart'
  <2>1. job'[s] = j /\ at'[s] = phase /\ UNCHANGED profiles
        /\ \A t \in Session \ {s} : job'[t] = job[t] /\ at'[t] = at[t]
    BY <1>1 DEF Take, tables, Typed, TypeOK
  <2> QED BY <1>1, <2>1 DEF CreatorsApart, Active
<1>2. ASSUME NEW s \in Session, End(s), UNCHANGED tables PROVE CreatorsApart'
  <2>1. \A t \in Active' : t \in Active \ {s} /\ job'[t] = job[t] /\ at'[t] = at[t]
    BY <1>2 DEF End, Active, Typed, TypeOK
  <2> QED BY <1>2, <2>1 DEF CreatorsApart, tables
<1>3. ASSUME NEW s \in Session, Register(s) \/ Load(s) PROVE CreatorsApart'
  BY <1>3, <1>1 DEF Register, Load
<1>4. ASSUME NEW s \in Session,
             GetProfile(s) \/ PutProfile(s) \/ AddPlace(s) \/ RemovePlace(s)
      PROVE  CreatorsApart'
  BY <1>4, <1>1 DEF GetProfile, PutProfile, AddPlace, RemovePlace
<1>5. ASSUME NEW s \in Session, Reject(s) \/ Abort(s) \/ Lose(s) PROVE CreatorsApart'
  BY <1>5, <1>2 DEF Reject, Abort, Lose
<1>6. ASSUME NEW s \in Session, Check(s) PROVE CreatorsApart'
  <2>1. CASE at' = [at EXCEPT ![s] = "ready"] /\ UNCHANGED <<tables, job>>
    <3>1. \A t \in Active' : t \in Active /\ (at'[t] = "written" => at[t] = "written")
      BY <1>6, <2>1 DEF Check, Active, Typed, TypeOK
    <3> QED BY <2>1, <3>1 DEF CreatorsApart, tables
  <2> QED BY <1>6, <1>2, <2>1 DEF Check
<1>7. ASSUME NEW s \in Session, First(s) PROVE CreatorsApart'
  <2>1. \A t \in Active' : t \in Active /\ (at'[t] = "written" => at[t] = "written" /\ t # s)
    BY <1>7 DEF First, Active, Typed, TypeOK
  <2>2. job'[s].op \notin {"get", "put"} /\ \A t \in Session \ {s} : job'[t] = job[t]
    <3>1. CASE UNCHANGED job BY <1>7, <3>1 DEF First, TwoSteps
    <3>2. CASE job[s].op = "add" /\ job' = [job EXCEPT ![s].seen = searched[job[s].place]]
      <4>1. job[s] \in [op: {"add"}, user: User, place: Place, id: Nat, seen: Nat \cup {Null}]
        BY <3>2 DEF Typed, TypeOK, Job, Change, NoJob
      <4> QED BY <3>2, <4>1 DEF Typed, TypeOK
    <3> QED BY <1>7, <3>1, <3>2 DEF First
  <2> QED BY <1>7, <2>1, <2>2 DEF CreatorsApart, First, tables, Active
<1>8. ASSUME NEW s \in Session, Write(s) PROVE CreatorsApart'
  <2>1. /\ Active' = Active /\ s \in Active /\ UNCHANGED <<job, profiles>> /\ at'[s] = "written"
        /\ \A t \in Session \ {s} : at'[t] = at[t]
    BY <1>8 DEF Write, Last, Active, Typed, TypeOK, tables
  <2>2. ASSUME job[s].op \in {"get", "put"}, job[s].seen = Null
        PROVE  job[s].user \notin DOMAIN profiles
    <3>1. \A u \in DOMAIN profiles : <<"profile", u>> \in Taken(job[s]) BY DEF Taken
    <3>2. Inserts(job[s]) \cap Taken(job[s]) = {} BY <1>8 DEF Write, Violates
    <3>3. Inserts(job[s]) = {<<"profile", job[s].user>>} BY <2>2, ProfileKey
    <3> QED BY <3>1, <3>2, <3>3
  <2>3. ASSUME NEW t \in Active \ {s}, at[t] = "written",
               job[s].op \in {"get", "put"}, job[t].op \in {"get", "put"},
               job[s].seen = Null \/ job[t].seen = Null
        PROVE  job[t].user # job[s].user
    <3>1. t \in Session /\ s # t /\ Last(s) /\ ~Blocked(s) BY <1>8 DEF Write, Active
    <3> QED BY <2>3, <3>1, ProfileLocks
  <2>4. ASSUME NEW x \in Active, at'[x] = "written", job[x].op \in {"get", "put"}, job[x].seen = Null
        PROVE  /\ job[x].user \notin DOMAIN profiles
               /\ \A t \in Active \ {x} :
                    at'[t] = "written" /\ job[t].op \in {"get", "put"} => job[t].user # job[x].user
    <3>1. CASE x = s BY <2>1, <2>2, <2>3, <2>4, <3>1 DEF Active
    <3>2. CASE x # s
      <4>1. at[x] = "written" BY <2>1, <2>4, <3>2 DEF Active
      <4>2. job[x].user \notin DOMAIN profiles BY <2>4, <4>1 DEF CreatorsApart
      <4>3. ASSUME NEW t \in Active \ {x}, at'[t] = "written", job[t].op \in {"get", "put"}
            PROVE  job[t].user # job[x].user
        <5>1. CASE t = s BY <2>3, <2>4, <3>2, <4>1, <4>3, <5>1
        <5>2. CASE t # s
          <6>1. at[t] = "written" BY <2>1, <4>3, <5>2 DEF Active
          <6> QED BY <2>4, <4>1, <4>3, <6>1 DEF CreatorsApart
        <5> QED BY <5>1, <5>2
      <4> QED BY <4>2, <4>3
    <3> QED BY <3>1, <3>2
  <2> QED BY <2>1, <2>4 DEF CreatorsApart
<1>9. ASSUME NEW s \in Session, Commit(s) PROVE CreatorsApart'
  <2> PICK j : j = job[s] OBVIOUS
  <2>1. /\ \A t \in Active' : t \in Active /\ t # s /\ job'[t] = job[t] /\ at'[t] = at[t]
        /\ s \in Active /\ at[s] = "written" /\ j \in Job
    BY <1>9 DEF Commit, End, Active, Typed, TypeOK
  <2>2. CASE j.op \in {"get", "put"}
    <3>1. DOMAIN profiles' = DOMAIN profiles \cup {j.user}
      BY <1>9, <2>2 DEF Commit, SaveProfile, With
    <3> QED BY <2>1, <2>2, <3>1 DEF CreatorsApart
  <2>3. CASE j.op \notin {"get", "put"}
    <3>1. UNCHANGED profiles
      BY <1>9, <2>1, <2>3, JobShapes DEF Commit, SaveUser, SaveChange, SaveFollow, DropFollow
    <3> QED BY <2>1, <3>1 DEF CreatorsApart
  <2> QED BY <2>2, <2>3
<1>10. CASE UNCHANGED vars BY <1>10 DEF vars, tables, CreatorsApart, Active
<1>11. ASSUME NEW s \in Session, ReadAgain(s) PROVE CreatorsApart'
  <2>1. UNCHANGED tables BY <1>11, OnlyCommits
  <2> QED BY <1>11, <2>1, ReadTyped DEF CreatorsApart, tables, Active
<1> QED BY <1>3, <1>4, <1>5, <1>6, <1>7, <1>8, <1>9, <1>10, <1>11 DEF Next

\* A request that found no profile only adds one, by the locks on its unique key.
THEOREM ReadersOverwrite == Spec => OnlyReadersOverwrite
<1> DEFINE Adds(s) == Saves(s) /\ job[s].seen = Null => job[s].user \notin DOMAIN profiles
<1>1. Init => Typed /\ CreatorsApart
  BY DEF Init, Typed, TypeOK, JobsKnown, CreatorsApart, Registered, Active, Follow
<1>2. Typed /\ CreatorsApart /\ [Next]_vars => Typed' /\ CreatorsApart'
  BY StepTyped, StepApart
<1>3. Typed /\ CreatorsApart => [\A s \in Session : Adds(s)]_vars
  BY DEF CreatorsApart, Saves, Commit, Active
<1> QED BY <1>1, <1>2, <1>3, PTL DEF Spec, OnlyReadersOverwrite
-------------------------------------------------------------------------------
\* Keys of committed rows, by the table they are in.
LEMMA TakenKeys ==
    ASSUME NEW j, NEW k, NEW v, <<k, v>> \in Taken(j)
    PROVE  \/ /\ k \in {"email", "username"}
              /\ \E u \in IF j.op = "change" THEN Registered \ {j.user} ELSE Registered : v = users[u][k]
           \/ k = "profile" /\ v \in DOMAIN profiles
           \/ k = "place" /\ v \in DOMAIN searched
BY DEF Taken

\* The profile a request has read is the one there is.
SeenIsCurrent(j) ==
    j.op \in {"get", "put"} =>
        /\ IF j.user \in DOMAIN profiles THEN j.seen = profiles[j.user] ELSE j.seen = Null
        /\ j.op = "get" => j.user \notin DOMAIN profiles

\* A request that nobody has overlapped is the only one, the profile it has read is the
\* one there is, and once it has looked, the keys it is to insert are free.
AlonePrepared ==
    \A s \in alone :
        /\ Active = {s} /\ (at[s] = "loaded" => job[s].op \in {"change", "get"})
        /\ SeenIsCurrent(job[s])
        /\ \/ at[s] = "loaded"
           \/ at[s] = "ready" /\ job[s].op = "add"
           \/ Inserts(job[s]) \cap Taken(job[s]) = {}

\* Taking up a request leaves nobody alone but that one.
LEMMA TakePrepared ==
    ASSUME Typed, NEW s \in Session, NEW j, NEW phase \in {"loaded", "ready"}, Take(s, j, phase),
           SeenIsCurrent(j),
           \/ phase = "loaded" /\ j.op \in {"change", "get"}
           \/ phase = "ready" /\ j.op = "add"
           \/ phase = "ready" /\ Inserts(j) \cap Taken(j) = {}
    PROVE  AlonePrepared'
<1>1. /\ at' = [at EXCEPT ![s] = phase] /\ job' = [job EXCEPT ![s] = j] /\ UNCHANGED tables
      /\ alone' = IF Active = {} THEN {s} ELSE {}
  BY DEF Take
<1>2. at'[s] = phase /\ job'[s] = j /\ Active' = Active \cup {s}
  BY <1>1 DEF Typed, TypeOK, Active
<1>3. Taken(j)' = Taken(j) /\ Inserts(j)' = Inserts(j) /\ SeenIsCurrent(j)'
  BY <1>1 DEF Taken, Inserts, Rekeys, tables, Registered, SeenIsCurrent
<1>4. SeenIsCurrent(job[s])' BY <1>2, <1>3 DEF SeenIsCurrent
<1>5. Inserts(job[s])' = Inserts(j)' /\ Taken(job[s])' = Taken(j)'
  BY <1>2 DEF Inserts, Taken, Rekeys, Registered
<1> QED BY <1>1, <1>2, <1>3, <1>5, <1>4 DEF AlonePrepared

\* A request that ends without a trace leaves the others as they were.
LEMMA EndPrepared ==
    ASSUME Typed, AlonePrepared, NEW s \in Session, End(s), UNCHANGED tables
    PROVE  AlonePrepared'
<1>1. /\ at' = [at EXCEPT ![s] = "idle"] /\ job' = [job EXCEPT ![s] = NoJob] /\ alone' = alone \ {s}
  BY DEF End
<1>2. /\ Active' = Active \ {s} /\ alone \subseteq Session
      /\ \A t \in Session \ {s} : at'[t] = at[t] /\ job'[t] = job[t]
  BY <1>1 DEF Typed, TypeOK, Active
<1>3. ASSUME NEW x \in alone' PROVE /\ Active' = {x} /\ at'[x] = at[x] /\ job'[x] = job[x]
                                    /\ Inserts(job[x])' = Inserts(job[x])
                                    /\ Taken(job[x])' = Taken(job[x])
                                    /\ SeenIsCurrent(job[x])'
  <2>1. x \in alone /\ x # s /\ at'[x] = at[x] /\ job'[x] = job[x]
    BY <1>1, <1>2, <1>3
  <2>2. Active' = {x} BY <1>2, <2>1 DEF AlonePrepared
  <2>3. SeenIsCurrent(job[x])' BY <2>1 DEF SeenIsCurrent, AlonePrepared, tables
  <2> QED BY <2>1, <2>2, <2>3 DEF Inserts, Taken, Rekeys, tables, Registered
<1> QED BY <1>1, <1>3 DEF AlonePrepared

\* A request alone that goes on stays prepared.
LEMMA GoesOnPrepared ==
    ASSUME Typed, AlonePrepared, NEW s \in Active, NEW phase \in {"ready", "first", "written"},
           at' = [at EXCEPT ![s] = phase], UNCHANGED <<tables, alone>>,
           \A t \in Session \ {s} : job'[t] = job[t],
           s \in alone => (phase = "ready" /\ job'[s].op = "add")
                             \/ Inserts(job'[s]) \cap Taken(job'[s]) = {},
           s \in alone => SeenIsCurrent(job'[s])
    PROVE  AlonePrepared'
<1>1. Active' = Active /\ at'[s] = phase /\ alone \subseteq Active
  BY DEF Typed, TypeOK, Active
<1>2. ASSUME NEW x \in alone' PROVE x = s /\ x \in alone BY <1>1, <1>2 DEF AlonePrepared
<1>3. /\ Inserts(job[s])' = Inserts(job'[s]) /\ Taken(job[s])' = Taken(job'[s])
  BY DEF Inserts, Taken, Rekeys, tables, Registered
<1>4. s \in alone => SeenIsCurrent(job[s])'
  BY DEF SeenIsCurrent, tables
<1> QED BY <1>1, <1>2, <1>3, <1>4 DEF AlonePrepared

\* Each step keeps a request that is alone prepared.
LEMMA StepPrepared ==
    ASSUME Typed, AlonePrepared, [Next]_vars
    PROVE  AlonePrepared'
<1>1. ASSUME NEW s \in Session, Register(s) PROVE AlonePrepared'
  <2>1. PICK u \in User \ Registered, c \in Credentials :
           /\ Free("email", c.email) /\ Free("username", c.username)
           /\ Take(s, [op |-> "register", user |-> u, new |-> c], "ready")
    BY <1>1 DEF Register
  <2>2. PICK j : j = [op |-> "register", user |-> u, new |-> c]
    OBVIOUS
  <2>3. Inserts(j) = {<<"email", c.email>>, <<"username", c.username>>} /\ j.op = "register"
    BY <2>2 DEF Inserts
  <2>4. <<"email", c.email>> \notin Taken(j) /\ <<"username", c.username>> \notin Taken(j)
    BY <2>1, <2>3, TakenKeys DEF Free
  <2>5. Inserts(j) \cap Taken(j) = {} BY <2>3, <2>4
  <2>6. Take(s, j, "ready") /\ SeenIsCurrent(j) BY <2>1, <2>2 DEF SeenIsCurrent
  <2> QED BY <2>5, <2>6, TakePrepared
<1>2. ASSUME NEW s \in Session, Load(s) PROVE AlonePrepared'
  <2>1. PICK u \in Registered, f \in Fields :
           \E v \in Domain(f) :
             Take(s, [op |-> "change", user |-> u, field |-> f, old |-> users[u][f], new |-> v],
                  IF f = "password" THEN "ready" ELSE "loaded")
    BY <1>2 DEF Load
  <2>2. PICK v \in Domain(f) :
           Take(s, [op |-> "change", user |-> u, field |-> f, old |-> users[u][f], new |-> v],
                IF f = "password" THEN "ready" ELSE "loaded")
    BY <2>1
  <2>3. PICK j : j = [op |-> "change", user |-> u, field |-> f, old |-> users[u][f], new |-> v]
    OBVIOUS
  <2>4. (f = "password" => Inserts(j) = {}) /\ SeenIsCurrent(j)
    BY <2>3 DEF Inserts, Rekeys, SeenIsCurrent
  <2>5. CASE f = "password"
    <3>1. Take(s, j, "ready") /\ Inserts(j) \cap Taken(j) = {} BY <2>2, <2>3, <2>4, <2>5
    <3> QED BY <2>4, <3>1, TakePrepared
  <2>6. CASE f # "password"
    <3>1. Take(s, j, "loaded") /\ j.op = "change" BY <2>2, <2>3, <2>6
    <3> QED BY <2>4, <3>1, TakePrepared
  <2> QED BY <2>5, <2>6
<1>3. ASSUME NEW s \in Session, Check(s) PROVE AlonePrepared'
  <2>1. CASE Free(job[s].field, job[s].new)
    <3>1. /\ at[s] = "loaded" /\ at' = [at EXCEPT ![s] = "ready"] /\ UNCHANGED <<tables, alone, job>>
          /\ job[s].op = "change"
      BY <1>3, <2>1 DEF Check
    <3>2. s \in Active /\ job[s] \in Job BY <3>1 DEF Active, Typed, TypeOK
    <3>3. ASSUME s \in alone PROVE Inserts(job[s]) \cap Taken(job[s]) = {}
      <4>1. job[s].op = "change" BY <3>1
      <4>2. job[s].field \in Fields BY <3>2, <4>1, JobShapes
      <4>3. /\ Inserts(job[s]) \subseteq {<<job[s].field, job[s].new>>}
            /\ job[s].field = "password" => Inserts(job[s]) = {}
        BY <4>1 DEF Inserts, Rekeys
      <4>4. job[s].field # "password" => <<job[s].field, job[s].new>> \notin Taken(job[s])
        BY <2>1, <4>1, <4>2, TakenKeys DEF Free, Fields
      <4> QED BY <4>3, <4>4
    <3>4. SeenIsCurrent(job[s]) BY <3>1 DEF SeenIsCurrent
    <3> QED BY <3>1, <3>2, <3>3, <3>4, GoesOnPrepared
  <2>2. CASE ~Free(job[s].field, job[s].new)
    BY <1>3, <2>2, EndPrepared DEF Check
  <2> QED BY <2>1, <2>2
<1>4. ASSUME NEW s \in Session, GetProfile(s) PROVE AlonePrepared'
  <2>1. PICK u \in Registered \ DOMAIN profiles :
           Take(s, [op |-> "get", user |-> u, seen |-> Null, new |-> Empty], "loaded")
    BY <1>4 DEF GetProfile
  <2>2. PICK j : j = [op |-> "get", user |-> u, seen |-> Null, new |-> Empty]
    OBVIOUS
  <2>3. Take(s, j, "loaded") /\ j.op = "get" /\ SeenIsCurrent(j)
    BY <2>1, <2>2 DEF SeenIsCurrent
  <2> QED BY <2>3, TakePrepared
<1>5. ASSUME NEW s \in Session, PutProfile(s) PROVE AlonePrepared'
  <2>1. PICK u \in Registered, p \in Profile :
           Take(s, [op |-> "put", user |-> u, seen |-> SeenProfile(u), new |-> p], "ready")
    BY <1>5 DEF PutProfile
  <2>2. PICK j : j = [op |-> "put", user |-> u, seen |-> SeenProfile(u), new |-> p]
    OBVIOUS
  <2>3. Inserts(j) = IF SeenProfile(u) = Null THEN {<<"profile", u>>} ELSE {} BY <2>2, ProfileKey
  <2>4. SeenProfile(u) = Null => u \notin DOMAIN profiles
    BY DEF SeenProfile, Typed, TypeOK, Profile
  <2>5. SeenProfile(u) = Null => <<"profile", u>> \notin Taken(j) BY <2>4, TakenKeys
  <2>6. Inserts(j) \cap Taken(j) = {} /\ Take(s, j, "ready") BY <2>1, <2>2, <2>3, <2>5
  <2>7. SeenIsCurrent(j) BY <2>2 DEF SeenIsCurrent, SeenProfile
  <2> QED BY <2>6, <2>7, TakePrepared
<1>6. ASSUME NEW s \in Session, AddPlace(s) PROVE AlonePrepared'
  <2>1. PICK u \in Registered, p \in Place :
           Take(s, [op |-> "add", user |-> u, place |-> p, id |-> begun, seen |-> Null], "ready")
    BY <1>6 DEF AddPlace
  <2>2. PICK j : j = [op |-> "add", user |-> u, place |-> p, id |-> begun, seen |-> Null]
    OBVIOUS
  <2>3. j.op = "add" /\ Take(s, j, "ready") /\ SeenIsCurrent(j)
    BY <2>1, <2>2 DEF SeenIsCurrent
  <2> QED BY <2>3, TakePrepared
<1>7. ASSUME NEW s \in Session, RemovePlace(s) PROVE AlonePrepared'
  <2>1. PICK w \in follows : Take(s, [op |-> "remove", id |-> w.id], "ready")
    BY <1>7 DEF RemovePlace
  <2>2. PICK j : j = [op |-> "remove", id |-> w.id]
    OBVIOUS
  <2>3. Inserts(j) \cap Taken(j) = {} /\ Take(s, j, "ready") /\ SeenIsCurrent(j)
    BY <2>1, <2>2 DEF Inserts, SeenIsCurrent
  <2> QED BY <2>3, TakePrepared
<1>8. ASSUME NEW s \in Session, First(s) PROVE AlonePrepared'
  <2>1. /\ at[s] = "ready" /\ at' = [at EXCEPT ![s] = "first"] /\ UNCHANGED <<tables, alone>>
        /\ TwoSteps(job[s])
    BY <1>8 DEF First
  <2>2. s \in Active /\ job[s] \in Job BY <2>1 DEF Active, Typed, TypeOK
  <2>3. CASE job[s].op # "add"
    <3>1. UNCHANGED job BY <1>8, <2>3 DEF First
    <3>2. s \in alone => Inserts(job[s]) \cap Taken(job[s]) = {} BY <2>1, <2>3 DEF AlonePrepared
    <3>3. SeenIsCurrent(job[s]) BY <2>1 DEF TwoSteps, SeenIsCurrent
    <3> QED BY <2>1, <2>2, <3>1, <3>2, <3>3, GoesOnPrepared
  <2>4. CASE job[s].op = "add" /\ job[s].place \notin DOMAIN searched
    <3>1. UNCHANGED job BY <1>8, <2>4 DEF First
    <3>2. Inserts(job[s]) \subseteq {<<"place", job[s].place>>} BY <2>4 DEF Inserts
    <3>3. Inserts(job[s]) \cap Taken(job[s]) = {} BY <2>4, <3>2, TakenKeys
    <3>4. SeenIsCurrent(job[s]) BY <2>4 DEF SeenIsCurrent
    <3> QED BY <2>1, <2>2, <3>1, <3>3, <3>4, GoesOnPrepared
  <2>5. CASE job[s].op = "add" /\ job[s].place \in DOMAIN searched
    <3>1. PICK n : n = searched[job[s].place]
      OBVIOUS
    <3>2. n \in Nat BY <2>5, <3>1 DEF Typed, TypeOK
    <3>3. job' = [job EXCEPT ![s].seen = n] BY <1>8, <2>5, <3>1 DEF First
    <3>4. job[s] \in [op: {"add"}, user: User, place: Place, id: Nat, seen: Nat \cup {Null}]
      BY <2>2, <2>5 DEF Job, Change
    <3>5. job'[s].op = "add" /\ job'[s].seen = n /\ \A t \in Session \ {s} : job'[t] = job[t]
      BY <3>3, <3>4 DEF Typed, TypeOK
    <3>6. n # Null BY <3>2
    <3>7. Inserts(job'[s]) = {} /\ SeenIsCurrent(job'[s]) BY <3>5, <3>6 DEF Inserts, SeenIsCurrent
    <3> QED BY <2>1, <2>2, <3>5, <3>7, GoesOnPrepared
  <2> QED BY <2>3, <2>4, <2>5
<1>9. ASSUME NEW s \in Session, Write(s) PROVE AlonePrepared'
  <2>1. /\ at' = [at EXCEPT ![s] = "written"] /\ UNCHANGED <<tables, job, alone>>
        /\ Last(s) /\ ~Violates(s)
    BY <1>9 DEF Write
  <2>2. s \in Active /\ Inserts(job[s]) \cap Taken(job[s]) = {}
    BY <2>1 DEF Last, Violates, Active
  <2>3. s \in alone => SeenIsCurrent(job[s]) BY DEF AlonePrepared
  <2> QED BY <2>1, <2>2, <2>3, GoesOnPrepared
<1>10. ASSUME NEW s \in Session, Reject(s) \/ Abort(s) \/ Lose(s) PROVE AlonePrepared'
  BY <1>10, EndPrepared DEF Reject, Abort, Lose
<1>11. ASSUME NEW s \in Session, Commit(s) PROVE AlonePrepared'
  <2>1. s \in Active /\ alone' = alone \ {s} BY <1>11 DEF Commit, End, Active
  <2>2. alone' = {} BY <2>1 DEF AlonePrepared
  <2> QED BY <2>2 DEF AlonePrepared
<1>12. CASE UNCHANGED vars
  BY <1>12 DEF vars, tables, AlonePrepared, Active, Inserts, Taken, Rekeys, Registered, SeenIsCurrent
<1>13. ASSUME NEW s \in Session, ReadAgain(s) PROVE AlonePrepared'
  <2>1. UNCHANGED <<tables, alone>> /\ at[s] = "loaded" /\ at' = [at EXCEPT ![s] = "ready"]
    BY <1>13 DEF ReadAgain
  <2>2. /\ s \in Active /\ job[s].op = "get" /\ job'[s].op = "get" /\ job'[s].user = job[s].user
        /\ job'[s].seen = SeenProfile(job[s].user) /\ \A t \in Session \ {s} : job'[t] = job[t]
    BY <1>13, ReadTyped
  <2>3. ASSUME s \in alone
        PROVE  SeenIsCurrent(job'[s]) /\ Inserts(job'[s]) \cap Taken(job'[s]) = {}
    <3>1. job[s].user \notin DOMAIN profiles BY <2>2, <2>3 DEF AlonePrepared, SeenIsCurrent
    <3>2. job'[s].seen = Null BY <2>2, <3>1 DEF SeenProfile
    <3>3. SeenIsCurrent(job'[s]) BY <2>2, <3>1, <3>2 DEF SeenIsCurrent
    <3>4. Inserts(job'[s]) = {<<"profile", job[s].user>>} BY <2>2, <3>2, ProfileKey
    <3>5. <<"profile", job[s].user>> \notin Taken(job'[s]) BY <3>1, TakenKeys
    <3> QED BY <3>3, <3>4, <3>5
  <2> QED BY <2>1, <2>2, <2>3, GoesOnPrepared
<1> QED
  BY <1>1, <1>2, <1>3, <1>4, <1>5, <1>6, <1>7, <1>8, <1>9, <1>10, <1>11, <1>12,
     <1>13 DEF Next

\* At first no request is under way.
LEMMA InitPrepared == Init => Typed /\ AlonePrepared
BY DEF Init, Typed, TypeOK, JobsKnown, AlonePrepared, Registered, Active, Follow

\* Only requests that overlap are rejected by a unique index: what the lookups before
\* the writes have found stays true as long as nobody else is at work.
THEOREM AloneNotRejected == Spec => []AloneIsNotRejected
<1>1. Init => Typed /\ AlonePrepared BY InitPrepared
<1>2. Typed /\ AlonePrepared /\ [Next]_vars => Typed' /\ AlonePrepared'
  BY StepTyped, StepPrepared
<1>3. Typed /\ AlonePrepared => AloneIsNotRejected
  <2> SUFFICES ASSUME Typed, AlonePrepared, NEW s \in alone, Violates(s) PROVE FALSE
    BY DEF AloneIsNotRejected
  <2>1. Last(s) /\ Inserts(job[s]) \cap Taken(job[s]) # {} BY DEF Violates
  <2>2. at[s] # "loaded" /\ ~(at[s] = "ready" /\ job[s].op = "add")
    BY <2>1 DEF Last, TwoSteps
  <2> QED BY <2>1, <2>2 DEF AlonePrepared
<1> QED BY <1>1, <1>2, <1>3, PTL DEF Spec

\* A request that nobody overlaps leaves the profile it was sent, and one that only reads
\* overwrites none.
THEOREM AloneSavesWhatWasSent == Spec => AloneProfileAsSent
<1> DEFINE AsSent(s) ==
             Saves(s) =>
               /\ profiles'[job[s].user] = job[s].new
               /\ job[s].op = "get" => job[s].user \notin DOMAIN profiles
<1>1. Init => Typed /\ AlonePrepared BY InitPrepared
<1>2. Typed /\ AlonePrepared /\ [Next]_vars => Typed' /\ AlonePrepared'
  BY StepTyped, StepPrepared
<1>3. Typed /\ AlonePrepared => [\A s \in alone : AsSent(s)]_vars
  <2> SUFFICES ASSUME Typed, AlonePrepared, NEW s \in alone, Saves(s) PROVE AsSent(s)
    OBVIOUS
  <2> PICK j : j = job[s]
    OBVIOUS
  <2>1. /\ j.op \in {"get", "put"} /\ j.seen \in Profile \cup {Null} /\ j.new \in Profile
        /\ SeenIsCurrent(j) /\ SaveProfile(j)
    <3>1. s \in Active /\ Commit(s) /\ j.op \in {"get", "put"}
      BY DEF Saves, AlonePrepared
    <3>2. j \in Job BY <3>1 DEF Active, Typed, TypeOK
    <3> QED BY <3>1, <3>2, JobShapes DEF Commit, AlonePrepared
  <2>2. CASE j.seen = Null
    <3>1. profiles'[j.user] = j.new BY <2>1, <2>2 DEF SaveProfile, With
    <3> QED BY <2>1, <3>1 DEF SeenIsCurrent
  <2>3. CASE j.seen # Null
    <3>1. j.user \in DOMAIN profiles /\ j.seen = profiles[j.user] /\ j.op # "get"
      BY <2>1, <2>3 DEF SeenIsCurrent
    <3>2. Merged(j, profiles[j.user]) = j.new BY <2>1, <2>3, <3>1 DEF Merged, Profile
    <3>3. profiles'[j.user] = j.new BY <2>1, <2>3, <3>1, <3>2 DEF SaveProfile, With
    <3> QED BY <3>1, <3>3
  <2> QED BY <2>2, <2>3
<1> QED BY <1>1, <1>2, <1>3, PTL DEF Spec, AloneProfileAsSent
-------------------------------------------------------------------------------
\* A request that has a lock, and still wants one, shares the row of its user.
LEMMA WaiterHolds ==
    ASSUME NEW t \in Session, Holds(t) # {}, Wants(t) # {}
    PROVE  /\ at[t] = "first" /\ TwoSteps(job[t])
           /\ Holds(t) = {[mode |-> "share", row |-> <<"user", job[t].user>>]}
<1>1. at[t] = "first" BY DEF Holds, Wants, Last
<1>2. Holds(t) = FirstLocks(job[t]) BY <1>1 DEF Holds
<1> QED BY <1>1, <1>2 DEF FirstLocks, Lock

\* Only the change of a user name or an email needs the row of the user to itself.
LEMMA StrongOnUser ==
    ASSUME NEW j \in Job, NEW a \in LastLocks(j), NEW u, a.row = <<"user", u>>, a.mode = "strong"
    PROVE  j.op = "change" /\ j.user = u /\ Rekeys(j)
<1>1. \A r \in Inserts(j) : r[1] # "user"
  BY JobShapes DEF Inserts, Fields
<1>2. a \notin Lock("strong", Inserts(j)) BY <1>1 DEF Lock
<1>3. CASE j.op = "change"
  BY <1>2, <1>3, JobShapes DEF LastLocks, Lock, Fields
<1>4. CASE j.op # "change"
  BY <1>2, <1>4, JobShapes DEF LastLocks, Lock
<1> QED BY <1>3, <1>4

\* What two requests that wait in a cycle are.
LEMMA WaitsInCycle ==
    ASSUME TypeOK, NEW s \in Session, NEW t \in Session, WaitsFor(s, t), Wants(t) # {}
    PROVE  job[s].op = "change" /\ Rekeys(job[s]) /\ job[s].user = job[t].user
<1>1. PICK a \in Wants(s), b \in Holds(t) : a.row = b.row /\ ~Compatible(a.mode, b.mode)
  BY DEF WaitsFor
<1>2. b = [mode |-> "share", row |-> <<"user", job[t].user>>] BY <1>1, WaiterHolds
<1>3. a.row = <<"user", job[t].user>> /\ a.mode # "share" /\ a.mode # "weak"
  BY <1>1, <1>2 DEF Compatible
<1>4. Last(s) /\ a \in LastLocks(job[s])
  BY <1>1, <1>3 DEF Wants, FirstLocks, Lock
<1>5. job[s] \in Job BY <1>4 DEF Last, TypeOK
<1>6. a.mode = "strong" BY <1>3, <1>4 DEF LastLocks, Lock
<1> QED BY <1>3, <1>4, <1>5, <1>6, StrongOnUser

\* Requests wait for each other in a cycle only if they change one account's own email
\* or user name, whatever else is under way.
THEOREM DeadlocksOnOwnRow == Spec => []DeadlockOnlyOnOwnRow
<1>1. TypeOK => DeadlockOnlyOnOwnRow
  <2> SUFFICES ASSUME TypeOK, NEW S \in SUBSET Session, Deadlocked(S)
               PROVE  \E u \in User, T \in SUBSET S :
                         /\ T # {} /\ Deadlocked(T)
                         /\ \A s \in T : job[s].op = "change" /\ job[s].user = u /\ Rekeys(job[s])
    BY DEF DeadlockOnlyOnOwnRow
  <2>1. \A s \in S : \E t \in S : WaitsFor(s, t) BY DEF Deadlocked
  <2>2. \A s \in S : Wants(s) # {} BY <2>1 DEF WaitsFor
  <2>3. \A s, t \in S : WaitsFor(s, t) =>
           job[s].op = "change" /\ Rekeys(job[s]) /\ job[s].user = job[t].user
    BY <2>2, WaitsInCycle
  <2>4. PICK s0 \in S : TRUE BY DEF Deadlocked
  <2>5. PICK u : u = job[s0].user
    OBVIOUS
  <2>6. u \in User
    <3>1. job[s0].op = "change" BY <2>1, <2>3
    <3>2. job[s0] \in Job BY <3>1 DEF TypeOK, NoJob
    <3> QED BY <2>5, <3>1, <3>2, JobShapes
  <2>7. PICK T : T = {s \in S : job[s].user = u}
    OBVIOUS
  <2>8. T \in SUBSET S /\ T # {} /\ Deadlocked(T)
    BY <2>1, <2>3, <2>5, <2>7 DEF Deadlocked
  <2>9. \A s \in T : job[s].op = "change" /\ job[s].user = u /\ Rekeys(job[s])
    BY <2>1, <2>3, <2>7
  <2> QED BY <2>6, <2>8, <2>9
<1> QED BY <1>1, AccountsTyped, PTL
===============================================================================
