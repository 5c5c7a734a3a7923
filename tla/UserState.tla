------------------------------ MODULE UserState -----------------------------
(***************************************************************************)
(* What the daemon keeps about its users in sqlite                         *)
(* (internal/store/state.go): the history user_run, the row of user_status *)
(* that RecordRun upserts with every run, and the cache; with the daemon's *)
(* workers, which hold a user list of their own, and the commands          *)
(* db-add-user, db-import-csv, db-remove-user, db-forget-user and          *)
(* db-resume-user (cmd/imapsync/db.go), which run in other processes at    *)
(* any time.  The clock may be set back.                                   *)
(***************************************************************************)
EXTENDS Naturals, FiniteSets, Sequences

CONSTANTS
  User,
  Keep,      \* userRunKeep
  MaxTime,   \* last second of the clock
  MaxBack,   \* how often the clock is set back
  MaxRuns    \* bound on the runs the model counts between two resets

ASSUME UserStateAssumption ==
  /\ MaxBack \in Nat /\ MaxRuns \in Nat
  /\ MaxTime \in Nat \ {0} /\ Keep \in Nat \ {0}

VARIABLES
  users,      \* the users table: "none", "on" or "off" (enabled = 0)
  history,    \* user_run: for each user a set of rows [at, status]
  row,        \* user_status: a row, or NoRow
  cached,     \* users with rows in sync_endpoint or sync_msg_cache
  list,       \* p.cfg.Users of the cycle that is going on
  running,    \* users whose SyncUser a worker is in
  removing,   \* users between DeleteUser and ForgetUser of db-remove-user
  now,        \* time.Now().Unix()
  back,       \* how often it was set back
  stepped,    \* users with a run recorded before the clock was last set back
  onList,     \* users that the daemon had on its list when db-remove-user erased them
  log         \* every run recorded since the state was last forgotten: <<at, status>>,
              \* and "resume" for a db-resume-user

tables == <<users, history, row, cached>>
clock == <<now, back, stepped>>
vars == <<tables, list, running, removing, clock, onList, log>>

NoRow == [last |-> 0, ok |-> 0, status |-> "none", since |-> 0, streak |-> 0]

Init ==
  /\ users = [u \in User |-> "on"] /\ list = User
  /\ history = [u \in User |-> {}]
  /\ row = [u \in User |-> NoRow]
  /\ log = [u \in User |-> <<>>]
  /\ cached = {} /\ running = {} /\ removing = {} /\ onList = {}
  /\ now = 1 /\ back = 0 /\ stepped = {}

-----------------------------------------------------------------------------
\* RecordRun

\* INSERT ... ON CONFLICT (user_name, run_at) DO UPDATE
PutRun(h, r) == {x \in h : x.at # r.at} \cup {r}

\* Mutant: the oldest rows are kept
TrimOldest(h) == {x \in h : Cardinality({y \in h : y.at < x.at}) < Keep}

\* DELETE ... NOT IN (... ORDER BY run_at DESC LIMIT userRunKeep)
Trim(h) == {x \in h : Cardinality({y \in h : y.at > x.at}) < Keep}

\* Mutant: every failed run begins a streak
SinceAlways(old, r) == IF r.status = "error" THEN r.at ELSE 0

\* fail_since: 0 means none
Since(old, r) ==
  IF r.status = "error" THEN IF old.since > 0 THEN old.since ELSE r.at ELSE 0

\* The upsert of user_status
Upsert(old, r) ==
  [last   |-> r.at,
   ok     |-> IF r.status = "ok" THEN r.at ELSE old.ok,
   status |-> r.status,
   since  |-> Since(old, r),
   streak |-> IF r.status = "error" THEN old.streak + 1 ELSE 0]

\* persistStatus of a run that ends now: the three statements are one transaction
RecordRun ==
  /\ \E u \in running, s \in {"ok", "error"} :
       LET r == [at |-> now, status |-> s] IN
         /\ Len(log[u]) < MaxRuns
         /\ history' = [history EXCEPT ![u] = Trim(PutRun(@, r))]
         /\ row' = [row EXCEPT ![u] = Upsert(@, r)]
         /\ log' = [log EXCEPT ![u] = Append(@, r)]
         /\ running' = running \ {u}
  /\ UNCHANGED <<users, cached, list, removing, clock, onList>>

\* The transaction fails: the run is only logged
RecordFails ==
  /\ \E u \in running : running' = running \ {u}
  /\ UNCHANGED <<tables, list, removing, clock, onList, log>>

-----------------------------------------------------------------------------
\* The daemon: reload between the cycles, a worker takes a user, its cache is saved

ListUsers == {u \in User : users[u] = "on"}

Reload ==
  /\ running = {}
  /\ list' = ListUsers
  /\ UNCHANGED <<tables, running, removing, clock, onList, log>>

SyncUser ==
  /\ \E u \in list \ running : running' = running \cup {u}
  /\ UNCHANGED <<tables, list, removing, clock, onList, log>>

SaveCache ==
  /\ \E u \in running : cached' = cached \cup {u}
  /\ UNCHANGED <<users, history, row, list, running, removing, clock, onList, log>>

-----------------------------------------------------------------------------
\* The commands

\* db-add-user, db-import-csv: the user is inserted, or its row replaced, enabled or not
UpsertUser ==
  /\ \E u \in User, e \in {"on", "off"} : users' = [users EXCEPT ![u] = e]
  /\ UNCHANGED <<history, row, cached, list, running, removing, clock, onList, log>>

\* db-remove-user, first statement: fails if the user is not there
DeleteUser ==
  /\ \E u \in User :
       /\ users[u] # "none" /\ users' = [users EXCEPT ![u] = "none"]
       /\ removing' = removing \cup {u}
  /\ UNCHANGED <<history, row, cached, list, running, clock, onList, log>>

\* Mutant: the cached rows are not erased
WipedButCache(u) ==
  /\ history' = [history EXCEPT ![u] = {}]
  /\ row' = [row EXCEPT ![u] = NoRow]
  /\ log' = [log EXCEPT ![u] = <<>>]
  /\ stepped' = stepped \ {u}
  /\ UNCHANGED cached

\* ForgetUser's four DELETEs, one transaction
Wiped(u) ==
  /\ history' = [history EXCEPT ![u] = {}]
  /\ row' = [row EXCEPT ![u] = NoRow]
  /\ cached' = cached \ {u}
  /\ log' = [log EXCEPT ![u] = <<>>]
  /\ stepped' = stepped \ {u}

\* db-forget-user, and the second statement of db-remove-user
ForgetUser ==
  /\ \E u \in User :
       /\ Wiped(u) /\ removing' = removing \ {u}
       /\ onList' = (onList \ {u}) \cup ({u} \cap (list \cup running))
  /\ UNCHANGED <<users, list, running, now, back>>

Resumed(r) == [r EXCEPT !.streak = 0, !.since = 0]

\* db-resume-user: fails if there is no row
ResumeUser ==
  /\ \E u \in User :
       /\ row[u] # NoRow /\ Len(log[u]) < MaxRuns
       /\ row' = [row EXCEPT ![u] = Resumed(@)]
       /\ log' = [log EXCEPT ![u] = Append(@, [at |-> 0, status |-> "resume"])]
  /\ UNCHANGED <<users, history, cached, list, running, removing, clock, onList>>

Tick ==
  /\ now < MaxTime
  /\ now' = now + 1
  /\ UNCHANGED <<tables, list, running, removing, back, stepped, onList, log>>

SetBack ==
  /\ back < MaxBack /\ now > 1
  /\ \E t \in 1..(now - 1) : now' = t
  /\ back' = back + 1 /\ stepped' = {u \in User : row[u] # NoRow}
  /\ UNCHANGED <<tables, list, running, removing, onList, log>>

Daemon == Reload \/ SyncUser \/ SaveCache \/ RecordRun \/ RecordFails

Command == UpsertUser \/ DeleteUser \/ ForgetUser \/ ResumeUser

Next == Daemon \/ Command \/ Tick \/ SetBack

Spec == Init /\ [][Next]_vars

-----------------------------------------------------------------------------
Row == [at : 1..MaxTime, status : {"ok", "error"}]

TypeOK ==
  /\ users \in [User -> {"none", "on", "off"}] /\ cached \subseteq User /\ list \subseteq User
  /\ running \subseteq User /\ removing \subseteq User
  /\ history \in [User -> SUBSET Row]
  /\ \A u \in User : Cardinality(history[u]) <= Keep
  /\ \A u \in User :
       /\ row[u].status \in {"none", "ok", "error"}
       /\ row[u].streak \in 0..MaxRuns
       /\ {row[u].last, row[u].ok, row[u].since} \subseteq 0..MaxTime
  /\ now \in 1..MaxTime /\ back \in 0..MaxBack
  /\ stepped \subseteq User /\ onList \subseteq User

\* The runs with one of these outcomes, as places in the log
Runs(u, s) == {k \in DOMAIN log[u] : log[u][k].status \in s}

\* When the last of them ended, 0 if there was none
LastAt(u, s) ==
  LET R == Runs(u, s)
  IN IF R = {} THEN 0 ELSE log[u][CHOOSE k \in R : \A j \in R : j <= k].at

\* The failed runs since the last clean one and the last db-resume-user
Streak(u) ==
  {k \in DOMAIN log[u] : \A j \in k..Len(log[u]) : log[u][j].status = "error"}

(***************************************************************************)
(* The status row tells what the runs since the state was last erased were:*)
(* the time and outcome of the latest, the latest clean one, and the       *)
(* streak that may stop the user, with its length and its begin, through   *)
(* any mix of runs, resumes and forgets and although the clock may be set  *)
(* back (RecordRun's upsert, ResumeUser).                                  *)
(***************************************************************************)
StatusTellsRuns ==
  \A u \in User :
    LET r == row[u] IN
      /\ r.last = LastAt(u, {"ok", "error"})
      /\ r.ok = LastAt(u, {"ok"})
      /\ r.streak = Cardinality(Streak(u))
      /\ r.since = IF Streak(u) = {} THEN 0
                   ELSE log[u][CHOOSE k \in Streak(u) : \A j \in Streak(u) : k <= j].at

(***************************************************************************)
(* The history and the status never disagree: they are written and erased  *)
(* together, and the trimming keeps the newest rows, so the newest one     *)
(* carries the time and the outcome of the status (RecordRun, ForgetUser). *)
(* Once the clock was set back the trimming may throw away the run it was  *)
(* called for; there is still a row whenever there is a status.            *)
(***************************************************************************)
HistoryMatchesStatus ==
  \A u \in User :
    /\ row[u] = NoRow <=> history[u] = {}
    /\ u \in stepped \/ history[u] = {} \/
         /\ [at |-> row[u].last, status |-> row[u].status] \in history[u]
         /\ \A x \in history[u] : x.at <= row[u].last
         /\ \A k \in Runs(u, {"ok", "error"}) :
              (\E x \in history[u] : x.at = log[u][k].at) \/ \A x \in history[u] : x.at > log[u][k].at

(***************************************************************************)
(* README.md: after every pass over a user a row is written to user_run.   *)
(* So there are as many rows as there were runs, up to userRunKeep.  Not   *)
(* true of the code when two runs end in the same second.                  *)
(***************************************************************************)
RowPerRun ==
  \A u \in User :
    LET n == Cardinality(Runs(u, {"ok", "error"}))
    IN Cardinality(history[u]) = IF n < Keep THEN n ELSE Keep

(***************************************************************************)
(* A user that db-remove-user has removed keeps nothing, neither cache nor *)
(* status nor history, unless the daemon had it on its list when the state *)
(* was erased: no later cycle starts it any more (db-remove-user deletes   *)
(* the user first and the state second; reload).                           *)
(***************************************************************************)
RemovedUnlessOnList ==
  \A u \in User \ (removing \cup onList) :
    users[u] = "none" => history[u] = {} /\ row[u] = NoRow /\ u \notin cached

(***************************************************************************)
(* db.go: "removed (along with its cache and history)".  A user who is in  *)
(* no table and whose removal is complete has no state.  Not true of the   *)
(* code while the daemon still has the user on its list.                   *)
(***************************************************************************)
RemovedIsForgotten ==
  \A u \in User \ removing :
    users[u] = "none" => history[u] = {} /\ row[u] = NoRow /\ u \notin cached
=============================================================================
