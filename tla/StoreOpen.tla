------------------------------ MODULE StoreOpen -----------------------------
(***************************************************************************)
(* Opening the sqlite file (internal/store/store.go Open, migrateState,    *)
(* ensureUserPathColumns; lock.go OpenExclusive): a daemon takes the lock  *)
(* file first, a command does not, nor does a daemon that only reads its   *)
(* lists.  Every statement commits by itself, so the steps of several      *)
(* processes interleave, and a process may die between any two of them.    *)
(***************************************************************************)
EXTENDS Naturals, FiniteSets

CONSTANTS
  Daemon,      \* processes that run the daemon
  Command,     \* processes that run one of the db-* commands
  NoProc,
  MaxCrash     \* how many processes die

ASSUME StoreOpenAssumption ==
  /\ MaxCrash \in Nat
  /\ Daemon \cap Command = {} /\ NoProc \notin Daemon \cup Command

Proc == Daemon \cup Command
State == {"sync_endpoint", "sync_msg_cache"}       \* the cache tables
History == {"user_status", "user_run"}
Column == {"path_a", "path_b"}

VARIABLES
  version,   \* PRAGMA user_version: "old" or "new" (schemaVersion)
  cache,     \* State -> "old", "new" or "none": which form the table has
  history,   \* State of user_status and user_run: "rows", "empty", "none"
  users,     \* the users table: the columns it has, or {"none"}
  lock,      \* the daemon that holds <path>.lock
  exclusive, \* the processes whose Store came from OpenExclusive (st.lock # nil)
  pc,        \* where each process is in Open
  seen,      \* the columns that table_info returned to the process
  crashes

db == <<version, cache, history, users>>
storeVars == <<db, lock, exclusive, pc, seen, crashes>>

\* A new file, or one that an earlier version of the program has left, with or
\* without the columns
StoreInit ==
  /\ \/ /\ version = "old" /\ cache = [t \in State |-> "none"]
        /\ history = [t \in History |-> "none"] /\ users = {"none"}
     \/ /\ version = "old" /\ cache = [t \in State |-> "old"]
        /\ history = [t \in History |-> "rows"]
        /\ users \in {{}, Column}
     \/ /\ version = "new" /\ cache = [t \in State |-> "new"]
        /\ history = [t \in History |-> "rows"] /\ users = Column
  /\ lock = NoProc /\ exclusive = {}
  /\ pc = [p \in Proc |-> "closed"]
  /\ seen = [p \in Proc |-> {}]
  /\ crashes = 0

Goto(p, l) == pc' = [pc EXCEPT ![p] = l]

\* Close, a failing Open, or the end of the process
Released(p) ==
  /\ Goto(p, "closed")
  /\ lock' = IF lock = p THEN NoProc ELSE lock
  /\ exclusive' = exclusive \ {p}

Open(p) ==
  /\ pc[p] = "closed"
  /\ Goto(p, "version")
  /\ UNCHANGED <<db, lock, exclusive, seen, crashes>>

\* Mutant: the lock is looked at and not taken
OpenExclusiveLooks(p) ==
  /\ pc[p] = "closed" /\ lock = NoProc
  /\ exclusive' = exclusive \cup {p}
  /\ Goto(p, "version")
  /\ UNCHANGED <<db, lock, seen, crashes>>

\* OpenExclusive: without the lock the daemon gives up
OpenExclusive(p) ==
  /\ pc[p] = "closed" /\ lock = NoProc
  /\ lock' = p /\ exclusive' = exclusive \cup {p}
  /\ Goto(p, "version")
  /\ UNCHANGED <<db, seen, crashes>>

\* Mutant: the new version is written first
MigrateOrderFlipped == <<"mark", "drop1", "drop2">>

\* migrateState's statements on an old file, in their order
MigrateOrder == <<"drop1", "drop2", "mark">>

After(s) ==
  LET k == CHOOSE i \in 1..3 : MigrateOrder[i] = s
  IN IF k = 3 THEN "columns" ELSE MigrateOrder[k + 1]

\* SELECT of user_version
ReadVersion(p) ==
  /\ pc[p] = "version"
  /\ Goto(p, IF version = "new" THEN "columns" ELSE MigrateOrder[1])
  /\ UNCHANGED <<db, lock, exclusive, seen, crashes>>

DropTable(p) ==
  /\ \/ pc[p] = "drop1" /\ cache' = [cache EXCEPT !["sync_endpoint"] = "none"]
     \/ pc[p] = "drop2" /\ cache' = [cache EXCEPT !["sync_msg_cache"] = "none"]
  /\ Goto(p, After(pc[p]))
  /\ UNCHANGED <<version, history, users, lock, exclusive, seen, crashes>>

SetVersion(p) ==
  /\ pc[p] = "mark"
  /\ version' = "new"
  /\ Goto(p, After("mark"))
  /\ UNCHANGED <<cache, history, users, lock, exclusive, seen, crashes>>

\* Mutant: a table with one of the columns is taken to have both
ReadColumnsAny(p) ==
  /\ pc[p] = "columns"
  /\ IF users # {}
     THEN Goto(p, "schema") /\ UNCHANGED seen
     ELSE Goto(p, "path_a") /\ seen' = [seen EXCEPT ![p] = users]
  /\ UNCHANGED <<db, lock, exclusive, crashes>>

\* ensureUserPathColumns: no table, nothing to do; else table_info
ReadColumns(p) ==
  /\ pc[p] = "columns"
  /\ IF users = {"none"}
     THEN Goto(p, "schema") /\ UNCHANGED seen
     ELSE Goto(p, "path_a") /\ seen' = [seen EXCEPT ![p] = users]
  /\ UNCHANGED <<db, lock, exclusive, crashes>>

\* ALTER TABLE ADD COLUMN: fails on a column that has come since
AddColumn(p) ==
  /\ pc[p] \in Column
  /\ LET c == pc[p]
         next == IF c = "path_a" THEN "path_b" ELSE "schema"
     IN IF c \in seen[p] THEN Goto(p, next) /\ UNCHANGED <<users, lock, exclusive>>
        ELSE IF c \in users
             THEN Released(p) /\ UNCHANGED users
             ELSE users' = users \cup {c} /\ Goto(p, next) /\ UNCHANGED <<lock, exclusive>>
  /\ UNCHANGED <<version, cache, history, seen, crashes>>

\* CREATE TABLE IF NOT EXISTS of the lists, then of the state
Schema(p) ==
  /\ pc[p] = "schema"
  /\ users' = IF users = {"none"} THEN Column ELSE users
  /\ Goto(p, "state")
  /\ UNCHANGED <<version, cache, history, lock, exclusive, seen, crashes>>

StateSchema(p) ==
  /\ pc[p] = "state"
  /\ cache' = [t \in State |-> IF cache[t] = "none" THEN "new" ELSE cache[t]]
  /\ history' = [t \in History |-> IF history[t] = "none" THEN "empty" ELSE history[t]]
  /\ Goto(p, "open")
  /\ UNCHANGED <<version, users, lock, exclusive, seen, crashes>>

Close(p) ==
  /\ pc[p] = "open"
  /\ Released(p)
  /\ UNCHANGED <<db, seen, crashes>>

\* The process dies; the system releases the lock with it
Crash(p) ==
  /\ pc[p] # "closed" /\ crashes < MaxCrash
  /\ crashes' = crashes + 1
  /\ Released(p)
  /\ UNCHANGED <<db, seen>>

\* The statements of Open after its beginning
Statement(p) ==
  ReadVersion(p) \/ DropTable(p) \/ SetVersion(p) \/ ReadColumns(p) \/ AddColumn(p)
    \/ Schema(p) \/ StateSchema(p)

StoreNext ==
  \E p \in Proc :
    Open(p) \/ (p \in Daemon /\ OpenExclusive(p)) \/ Statement(p) \/ Close(p) \/ Crash(p)

StoreSpec == StoreInit /\ [][StoreNext]_storeVars

-----------------------------------------------------------------------------
StoreTypeOK ==
  /\ version \in {"old", "new"}
  /\ cache \in [State -> {"none", "old", "new"}]
  /\ history \in [History -> {"none", "empty", "rows"}]
  /\ users = {"none"} \/ users \subseteq Column
  /\ lock \in Daemon \cup {NoProc} /\ exclusive \subseteq Daemon
  /\ pc \in [Proc -> {"closed", "version", "drop1", "drop2", "mark", "columns",
                      "path_a", "path_b", "schema", "state", "open"}]
  /\ seen \in [Proc -> SUBSET Column]
  /\ crashes \in 0..MaxCrash

(***************************************************************************)
(* Two daemons never work on the file at once, from the first statement of *)
(* the migration on, and a daemon that died does not keep the next one out *)
(* (OpenExclusive, Close).                                                 *)
(***************************************************************************)
OneDaemon ==
  /\ \A p, q \in exclusive : p = q
  /\ lock # NoProc => lock \in exclusive /\ pc[lock] # "closed"

(***************************************************************************)
(* Once the file says it is of the new version no cache table has the old  *)
(* form any more, although a process may die in the middle of the          *)
(* migration: the next one does it again (migrateState).                   *)
(***************************************************************************)
VersionIsTrue == version = "new" => \A t \in State : cache[t] # "old"

(***************************************************************************)
(* A process that has the file open finds both path columns in the users   *)
(* table, whoever added them, after any crash between the two ALTER TABLE  *)
(* statements and whichever other process opens the file at the same time  *)
(* (ensureUserPathColumns; every SELECT of users names both columns).      *)
(***************************************************************************)
OpenHasColumns == \A p \in Proc : pc[p] = "open" => Column \subseteq users

(***************************************************************************)
(* Open "applies the schema" (store.go): as long as a process has the file *)
(* open, every table and column its statements name is there.  True of     *)
(* daemons alone; a command that has read the old version before may drop  *)
(* the tables of a daemon whose Open has returned.                         *)
(***************************************************************************)
OpenHasSchema ==
  \A p \in Proc : pc[p] = "open" =>
    /\ \A t \in State : cache[t] = "new"
    /\ \A t \in History : history[t] # "none"
    /\ Column \subseteq users
=============================================================================
