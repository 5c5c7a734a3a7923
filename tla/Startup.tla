------------------------------ MODULE Startup -------------------------------
(***************************************************************************)
(* The start of the program: cmdRun and loadFromSQLite (run.go), runDaemon *)
(* (daemon.go) and the pool's reload of the lists, on top of the opening   *)
(* of the DB (StoreOpen) and the checks of the file (Config).  Every       *)
(* daemon is started with the same file; the db-* commands edit the lists  *)
(* in the DB at any moment.                                                *)
(***************************************************************************)
EXTENDS StoreOpen, Config

CONSTANTS
  File,     \* the configuration files, as parsed
  List      \* the lists that the file or the DB may hold

ASSUME StartupAssumption == File \subseteq ConfigRecord /\ List \subseteq ListRecord

VARIABLES
  file,     \* the configuration file
  table,    \* the lists in the DB
  stage,    \* each daemon: "off", "read" (loadFromSQLite), "daemon", "run"
  lists,    \* cfg.Users and cfg.Folders of each daemon
  edited    \* history: the daemons whose lists were not checked since an edit

startVars == <<file, table, stage, lists, edited>>
vars == <<storeVars, startVars>>

cfg == applyDefaults(file)

\* runDaemon: needDB
needDB(c) == c.cache \/ c.source = "sqlite" \/ (c.streak > 0 /\ c.path # "")

Init ==
  /\ StoreInit
  /\ file \in File /\ table \in List
  /\ stage = [p \in Daemon |-> "off"]
  /\ lists = [p \in Daemon |-> file.lists]
  /\ edited = {}

Enter(p, s) == stage' = [stage EXCEPT ![p] = s]

\* cmdRun: config.Load, then the lists
Load(p) ==
  /\ stage[p] = "off" /\ pc[p] = "closed"
  /\ LoadAccepts(cfg)
  /\ lists' = [lists EXCEPT ![p] = file.lists]
  /\ Enter(p, IF cfg.source = "sqlite" THEN "read" ELSE "daemon")
  /\ edited' = edited \ {p}
  /\ UNCHANGED <<storeVars, file, table>>

\* The first statement of loadFromSQLite: no lock
OpenForLists(p) ==
  /\ stage[p] = "read" /\ Open(p)
  /\ UNCHANGED startVars

\* LoadInto, ValidateEntities and the deferred Close
LoadInto(p) ==
  /\ stage[p] = "read" /\ Close(p)
  /\ lists' = [lists EXCEPT ![p] = table]
  /\ Enter(p, IF ValidateEntities(cfg, table) THEN "daemon" ELSE "off")
  /\ edited' = edited \ {p}
  /\ UNCHANGED <<file, table>>

\* runDaemon up to OpenExclusive; the daemon ends if another one has the lock
\* or the path is blank
runDaemon(p) ==
  /\ stage[p] = "daemon" /\ pc[p] = "closed"
  /\ \/ needDB(cfg) /\ ~Blank(cfg.path) /\ OpenExclusive(p) /\ UNCHANGED stage
     \/ needDB(cfg) /\ (lock # NoProc \/ Blank(cfg.path)) /\ Enter(p, "off") /\ UNCHANGED storeVars
     \/ ~needDB(cfg) /\ Enter(p, "run") /\ UNCHANGED storeVars
  /\ UNCHANGED <<file, table, lists, edited>>

\* NewPool and the start of Run
StartPool(p) ==
  /\ stage[p] = "daemon" /\ pc[p] = "open"
  /\ Enter(p, "run")
  /\ UNCHANGED <<storeVars, file, table, lists, edited>>

\* reload, at the start of every cycle: the lists are not checked again
reload(p) ==
  /\ stage[p] = "run" /\ cfg.source = "sqlite" /\ pc[p] = "open"
  /\ lists' = [lists EXCEPT ![p] = table]
  /\ UNCHANGED <<storeVars, file, table, stage, edited>>

\* runDaemon returns after a signal
Stop(p) ==
  /\ stage[p] = "run" /\ Enter(p, "off")
  /\ IF pc[p] = "open" THEN Close(p) ELSE UNCHANGED storeVars
  /\ UNCHANGED <<file, table, lists, edited>>

\* A statement of Open by a daemon, or its death; an error ends the program
OpenStep(p) ==
  /\ Statement(p) \/ Crash(p)
  /\ IF pc'[p] = "closed" THEN Enter(p, "off") ELSE UNCHANGED stage
  /\ UNCHANGED <<file, table, lists, edited>>

\* A db-* command
CommandStep(p) ==
  /\ Open(p) \/ Statement(p) \/ Close(p) \/ Crash(p)
  /\ UNCHANGED startVars

\* ... and what it was started for: db-add-user, db-remove-folder and so on
EditTable(p) ==
  /\ pc[p] = "open"
  /\ table' \in List \ {table}
  /\ edited' = {q \in Daemon : stage[q] # "off"}
  /\ UNCHANGED <<storeVars, file, stage, lists>>

Next ==
  \/ \E p \in Daemon : Load(p) \/ OpenForLists(p) \/ LoadInto(p) \/ runDaemon(p) \/ StartPool(p)
                         \/ reload(p) \/ Stop(p) \/ OpenStep(p)
  \/ \E p \in Command : CommandStep(p) \/ EditTable(p)

Spec == Init /\ [][Next]_vars

-----------------------------------------------------------------------------
TypeOK ==
  /\ StoreTypeOK
  /\ file \in File /\ table \in List
  /\ stage \in [Daemon -> {"off", "read", "daemon", "run"}]
  /\ edited \subseteq Daemon

\* syncPair's directions: not switched off, and not toward a read-only side
allowAToB(c) == c.direction # "b-to-a" /\ ~readOnlyType(c.b.type)
allowBToA(c) == c.direction # "a-to-b" /\ ~readOnlyType(c.a.type)

\* What newEWSAuth and the IMAP login send
HasCredentials(s) ==
  IF s.type = "ews" /\ s.auth = "oauth2"
  THEN {"client_id", "client_secret"} \subseteq s.has
  ELSE s.type \in {"", "imap", "ews"} => {"master_user", "master_pass"} \subseteq s.has

(***************************************************************************)
(* A file that Load accepts can be run: runDaemon does not fail over it    *)
(* later, a daemon that runs has the DB open and locked whenever the       *)
(* incremental mode, the lists or the error limit need it, has what its    *)
(* endpoints log in with, and can copy in at least one direction           *)
(* (validateBase against runDaemon, newEWSAuth and syncPair).  The path    *)
(* " " is excepted: needDB does not trim it, Open does.                    *)
(***************************************************************************)
AcceptedRuns ==
  \A p \in Daemon :
    /\ stage[p] = "daemon" /\ needDB(cfg) /\ cfg.path # " " => ~Blank(cfg.path)
    /\ stage[p] = "run" =>
         /\ cfg.cache \/ cfg.source = "sqlite" \/ (cfg.streak > 0 /\ cfg.path # "") => p \in exclusive
         /\ p \in exclusive => pc[p] = "open"
         /\ HasCredentials(cfg.a) /\ HasCredentials(cfg.b)
         /\ allowAToB(cfg) \/ allowBToA(cfg)

(***************************************************************************)
(* Unless the table was edited after they were checked, the lists a daemon *)
(* works on, wherever they came from and through the second opening and    *)
(* every reload, have users and something to synchronise, leave no worker  *)
(* without a user, and give a path only on a side that has paths: there    *)
(* ConnectAs would log in under the path (ValidateEntities, reload).       *)
(***************************************************************************)
ListsFit ==
  \A p \in Daemon : stage[p] = "run" /\ p \notin edited =>
    /\ lists[p].users > 0 /\ (lists[p].pairs > 0 \/ cfg.all)
    /\ lists[p].users = 1 \/ cfg.workers < lists[p].users
    /\ "a" \in lists[p].paths => cfg.a.type \in {"maildir", "pst"}
    /\ "b" \in lists[p].paths => cfg.b.type \in {"maildir", "pst"}
=============================================================================
