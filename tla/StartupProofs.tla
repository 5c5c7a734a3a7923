--------------------------- MODULE StartupProofs ----------------------------
(***************************************************************************)
(* Proofs about StoreOpen and Startup, for any number of daemons, commands *)
(* and crashes and for every configuration file.  A step of Startup is one *)
(* of StoreOpen or leaves the DB alone, so what is proved of the opening   *)
(* holds of the whole start.                                               *)
(***************************************************************************)
EXTENDS Startup, TLAPS

\* Exactly the daemon that holds the lock has come through OpenExclusive
LockHeld ==
  /\ exclusive = IF lock = NoProc THEN {} ELSE {lock}
  /\ lock # NoProc => pc[lock] # "closed"

\* What a process in the middle of the migration has already dropped
Dropped ==
  /\ VersionIsTrue
  /\ \A p \in Proc : pc[p] \in {"drop2", "mark"} => cache["sync_endpoint"] # "old"
  /\ \A p \in Proc : pc[p] = "mark" => cache["sync_msg_cache"] # "old"

\* What a process knows of the columns at each step
ColumnsKnown ==
  \A p \in Proc :
    /\ pc[p] \in Column => users # {"none"} /\ seen[p] \subseteq users
    /\ pc[p] = "path_b" => "path_a" \in users
    /\ pc[p] = "schema" => users = {"none"} \/ Column \subseteq users
    /\ pc[p] \in {"state", "open"} => Column \subseteq users

StoreInv == StoreTypeOK /\ LockHeld /\ Dropped /\ ColumnsKnown

\* migrateState's statements follow each other in the order of the code
LEMMA AfterIs ==
  /\ After("drop1") = "drop2" /\ After("drop2") = "mark" /\ After("mark") = "columns"
<1>1. ASSUME NEW i \in 1..3
      PROVE  /\ MigrateOrder[i] = "drop1" <=> i = 1
             /\ MigrateOrder[i] = "drop2" <=> i = 2
             /\ MigrateOrder[i] = "mark" <=> i = 3
  BY DEF MigrateOrder
<1>2. (CHOOSE i \in 1..3 : MigrateOrder[i] = "drop1") = 1
  BY <1>1
<1>3. (CHOOSE i \in 1..3 : MigrateOrder[i] = "drop2") = 2
  BY <1>1
<1>4. (CHOOSE i \in 1..3 : MigrateOrder[i] = "mark") = 3
  BY <1>1
<1> QED
  BY <1>2, <1>3, <1>4 DEF After, MigrateOrder

LEMMA StoreInitInv == StoreInit => StoreInv
  BY StoreOpenAssumption
  DEF StoreInit, StoreInv, StoreTypeOK, LockHeld, Dropped, VersionIsTrue, ColumnsKnown,
      State, History, Column, Proc

\* One step of StoreOpen by process p
Step(p) ==
  Open(p) \/ (p \in Daemon /\ OpenExclusive(p)) \/ Statement(p) \/ Close(p) \/ Crash(p)

\* A process is in one place; a step moves its own only
LEMMA TypeStep ==
  ASSUME StoreInv, NEW p \in Proc, Step(p)
  PROVE  StoreTypeOK'
<1> USE AfterIs, StoreOpenAssumption
    DEF StoreInv, StoreTypeOK, ColumnsKnown, Goto, Released, db, State, History, Column, Proc
<1>1. CASE Open(p)
  BY <1>1 DEF Open
<1>2. CASE p \in Daemon /\ OpenExclusive(p)
  BY <1>2 DEF OpenExclusive
<1>3. CASE ReadVersion(p)
  BY <1>3 DEF ReadVersion, MigrateOrder
<1>4. CASE DropTable(p)
  BY <1>4 DEF DropTable
<1>5. CASE SetVersion(p)
  BY <1>5 DEF SetVersion
<1>6. CASE ReadColumns(p)
  BY <1>6 DEF ReadColumns
<1>7. CASE AddColumn(p)
  BY <1>7 DEF AddColumn
<1>8. CASE Schema(p)
  BY <1>8 DEF Schema
<1>9. CASE StateSchema(p)
  BY <1>9 DEF StateSchema
<1>10. CASE Close(p)
  BY <1>10 DEF Close
<1>11. CASE Crash(p)
  BY <1>11 DEF Crash
<1> QED
  BY <1>1, <1>2, <1>3, <1>4, <1>5, <1>6, <1>7, <1>8, <1>9, <1>10, <1>11 DEF Step, Statement

\* The lock changes hands only in OpenExclusive and Released
LEMMA LockStep ==
  ASSUME StoreInv, NEW p \in Proc, Step(p)
  PROVE  LockHeld'
<1> USE AfterIs, StoreOpenAssumption
    DEF StoreInv, StoreTypeOK, LockHeld, Goto, Released, Column, Proc
<1>1. CASE Open(p)
  BY <1>1 DEF Open
<1>2. CASE p \in Daemon /\ OpenExclusive(p)
  BY <1>2 DEF OpenExclusive
<1>3. CASE ReadVersion(p)
  BY <1>3 DEF ReadVersion, MigrateOrder
<1>4. CASE DropTable(p)
  BY <1>4 DEF DropTable
<1>5. CASE SetVersion(p)
  BY <1>5 DEF SetVersion
<1>6. CASE ReadColumns(p)
  BY <1>6 DEF ReadColumns
<1>7. CASE AddColumn(p)
  BY <1>7 DEF AddColumn
<1>8. CASE Schema(p)
  BY <1>8 DEF Schema
<1>9. CASE StateSchema(p)
  BY <1>9 DEF StateSchema
<1>10. CASE Close(p)
  BY <1>10 DEF Close
<1>11. CASE Crash(p)
  BY <1>11 DEF Crash
<1> QED
  BY <1>1, <1>2, <1>3, <1>4, <1>5, <1>6, <1>7, <1>8, <1>9, <1>10, <1>11 DEF Step, Statement

\* No statement brings a table of the old form back
LEMMA DroppedStep ==
  ASSUME StoreInv, NEW p \in Proc, Step(p)
  PROVE  Dropped'
<1> USE AfterIs DEF StoreInv, StoreTypeOK, Dropped, VersionIsTrue, Goto, Released, db, State, Column
<1>1. CASE Open(p)
  BY <1>1 DEF Open
<1>2. CASE p \in Daemon /\ OpenExclusive(p)
  BY <1>2 DEF OpenExclusive
<1>3. CASE ReadVersion(p)
  BY <1>3 DEF ReadVersion, MigrateOrder
<1>4. CASE DropTable(p)
  BY <1>4 DEF DropTable
<1>5. CASE SetVersion(p)
  BY <1>5 DEF SetVersion
<1>6. CASE ReadColumns(p)
  BY <1>6 DEF ReadColumns
<1>7. CASE AddColumn(p)
  BY <1>7 DEF AddColumn
<1>8. CASE Schema(p)
  BY <1>8 DEF Schema
<1>9. CASE StateSchema(p)
  BY <1>9 DEF StateSchema
<1>10. CASE Close(p)
  BY <1>10 DEF Close
<1>11. CASE Crash(p)
  BY <1>11 DEF Crash
<1> QED
  BY <1>1, <1>2, <1>3, <1>4, <1>5, <1>6, <1>7, <1>8, <1>9, <1>10, <1>11 DEF Step, Statement

\* The users table is created once, with both columns, and only gains columns
LEMMA ColumnsStep ==
  ASSUME StoreInv, NEW p \in Proc, Step(p)
  PROVE  ColumnsKnown'
<1> USE AfterIs DEF StoreInv, StoreTypeOK, ColumnsKnown, Goto, Released, db, Column
<1>1. CASE Open(p)
  BY <1>1 DEF Open
<1>2. CASE p \in Daemon /\ OpenExclusive(p)
  BY <1>2 DEF OpenExclusive
<1>3. CASE ReadVersion(p)
  BY <1>3 DEF ReadVersion, MigrateOrder
<1>4. CASE DropTable(p)
  BY <1>4 DEF DropTable
<1>5. CASE SetVersion(p)
  BY <1>5 DEF SetVersion
<1>6. CASE ReadColumns(p)
  BY <1>6 DEF ReadColumns
<1>7. CASE AddColumn(p)
  BY <1>7 DEF AddColumn
<1>8. CASE Schema(p)
  BY <1>8 DEF Schema
<1>9. CASE StateSchema(p)
  BY <1>9 DEF StateSchema
<1>10. CASE Close(p)
  BY <1>10 DEF Close
<1>11. CASE Crash(p)
  BY <1>11 DEF Crash
<1> QED
  BY <1>1, <1>2, <1>3, <1>4, <1>5, <1>6, <1>7, <1>8, <1>9, <1>10, <1>11 DEF Step, Statement

\* The invariant speaks of the DB, the lock and Open's progress only
LEMMA StoreStutter ==
  ASSUME StoreInv, UNCHANGED storeVars
  PROVE  StoreInv'
  BY DEF storeVars, db, StoreInv, StoreTypeOK, LockHeld, Dropped, VersionIsTrue, ColumnsKnown

LEMMA StoreStep == StoreInv /\ [StoreNext]_storeVars => StoreInv'
<1> SUFFICES ASSUME StoreInv, [StoreNext]_storeVars
             PROVE  StoreInv'
  OBVIOUS
<1>1. CASE StoreNext
  <2>1. PICK p \in Proc : Step(p)
    BY <1>1 DEF StoreNext, Step
  <2> QED
    BY <2>1, TypeStep, LockStep, DroppedStep, ColumnsStep DEF StoreInv
<1>2. CASE UNCHANGED storeVars
  BY <1>2, StoreStutter
<1> QED
  BY <1>1, <1>2

\* A daemon's start is made of the steps of the opening
LEMMA StartIsStore == [Next]_vars => [StoreNext]_storeVars
<1> SUFFICES ASSUME [Next]_vars
             PROVE  StoreNext \/ UNCHANGED storeVars
  OBVIOUS
<1>1. ASSUME NEW p \in Daemon,
             Load(p) \/ OpenForLists(p) \/ LoadInto(p) \/ runDaemon(p) \/ StartPool(p)
               \/ reload(p) \/ Stop(p) \/ OpenStep(p)
      PROVE  StoreNext \/ UNCHANGED storeVars
  BY <1>1 DEF Load, OpenForLists, LoadInto, runDaemon, StartPool, reload, Stop, OpenStep,
              StoreNext, Proc
<1>2. ASSUME NEW p \in Command, CommandStep(p) \/ EditTable(p)
      PROVE  StoreNext \/ UNCHANGED storeVars
  BY <1>2 DEF CommandStep, EditTable, StoreNext, Proc
<1>3. CASE UNCHANGED vars
  BY <1>3 DEF vars
<1> QED
  BY <1>1, <1>2, <1>3 DEF Next

LEMMA StoreAlways == Spec => []StoreInv
<1>1. Init => StoreInv
  BY StoreInitInv DEF Init
<1>2. StoreInv /\ [Next]_vars => StoreInv'
  BY StoreStep, StartIsStore
<1> QED
  BY <1>1, <1>2, PTL DEF Spec

(***************************************************************************)
(* OpenExclusive and Close: two daemons are never in the file at once, and *)
(* the lock goes with the process that held it, for any number of daemons, *)
(* commands and crashes and at every moment of the start.                  *)
(***************************************************************************)
THEOREM DaemonIsAlone == Spec => []OneDaemon
<1>1. StoreInv => OneDaemon
  BY DEF StoreInv, LockHeld, OneDaemon
<1> QED
  BY <1>1, StoreAlways, PTL

(***************************************************************************)
(* migrateState: the new version is written only when no cache table of    *)
(* the old form is left, whichever processes migrate at once and wherever  *)
(* one of them dies.                                                       *)
(***************************************************************************)
THEOREM VersionTells == Spec => []VersionIsTrue
<1>1. StoreInv => VersionIsTrue
  BY DEF StoreInv, Dropped
<1> QED
  BY <1>1, StoreAlways, PTL

(***************************************************************************)
(* ensureUserPathColumns: a process that has the file open finds both path *)
(* columns, although another may be between the two ALTER TABLE statements *)
(* or have died there.                                                     *)
(***************************************************************************)
THEOREM ColumnsAreThere == Spec => []OpenHasColumns
<1>1. StoreInv => OpenHasColumns
  BY DEF StoreInv, ColumnsKnown, OpenHasColumns
<1> QED
  BY <1>1, StoreAlways, PTL

-----------------------------------------------------------------------------
\* What a daemon has of the DB at each stage of its start
StageFits(p) ==
  /\ stage[p] # "off" => LoadAccepts(cfg)
  /\ stage[p] = "off" => pc[p] = "closed" /\ p \notin exclusive
  /\ stage[p] = "read" => p \notin exclusive
  /\ stage[p] = "daemon" => (pc[p] # "closed" <=> p \in exclusive) /\ (p \in exclusive => needDB(cfg))
  /\ stage[p] = "run" => IF needDB(cfg) THEN p \in exclusive /\ pc[p] = "open"
                         ELSE p \notin exclusive /\ pc[p] = "closed"

\* The lists were checked as they are, and are those of the table
ListsChecked(p) ==
  stage[p] \in {"daemon", "run"} /\ p \notin edited =>
    /\ ValidateEntities(cfg, lists[p])
    /\ cfg.source = "sqlite" => lists[p] = table

StartInv ==
  /\ file \in File /\ table \in List
  /\ stage \in [Daemon -> {"off", "read", "daemon", "run"}]
  /\ lists \in [Daemon -> ListRecord]
  /\ \A p \in Daemon : StageFits(p)
  /\ \A p \in Daemon : ListsChecked(p)

\* applyDefaults leaves the lists alone and makes a whole configuration
LEMMA DefaultsShape ==
  ASSUME file \in File
  PROVE  cfg.lists = file.lists /\ file.lists \in ListRecord /\ cfg.workers \in Int
  BY StartupAssumption, ConfigAssumption
  DEF cfg, applyDefaults, OrElse, ConfigRecord, ServerRecord

LEMMA StartInitInv == Init => StartInv
<1> SUFFICES ASSUME Init PROVE StartInv
  OBVIOUS
<1>1. file.lists \in ListRecord
  BY DefaultsShape DEF Init
<1> QED
  BY <1>1 DEF Init, StoreInit, StartInv, StageFits, ListsChecked, Proc

\* A statement of Open moves one process; where it stays in Open it keeps the lock
LEMMA OpenMoves ==
  ASSUME StoreInv, NEW p \in Daemon, Statement(p)
  PROVE  /\ \A q \in Daemon : q # p => pc'[q] = pc[q] /\ (q \in exclusive' <=> q \in exclusive)
         /\ pc[p] \notin {"closed", "open"}
         /\ pc'[p] = "closed" => p \notin exclusive'
         /\ pc'[p] # "closed" => (p \in exclusive' <=> p \in exclusive)
<1> USE AfterIs DEF StoreInv, StoreTypeOK, Goto, Released, Column, Proc
<1>3. CASE ReadVersion(p)
  BY <1>3 DEF ReadVersion, MigrateOrder
<1>4. CASE DropTable(p)
  BY <1>4 DEF DropTable
<1>5. CASE SetVersion(p)
  BY <1>5 DEF SetVersion
<1>6. CASE ReadColumns(p)
  BY <1>6 DEF ReadColumns
<1>7. CASE AddColumn(p)
  BY <1>7 DEF AddColumn
<1>8. CASE Schema(p)
  BY <1>8 DEF Schema
<1>9. CASE StateSchema(p)
  BY <1>9 DEF StateSchema
<1> QED
  BY <1>3, <1>4, <1>5, <1>6, <1>7, <1>8, <1>9 DEF Statement

\* Every stage of a daemon's start
LEMMA DaemonStep ==
  ASSUME StoreInv, StartInv, NEW p \in Daemon,
         Load(p) \/ OpenForLists(p) \/ LoadInto(p) \/ runDaemon(p) \/ StartPool(p)
           \/ reload(p) \/ Stop(p) \/ OpenStep(p)
  PROVE  StartInv'
<1> USE StoreOpenAssumption, StartupAssumption
    DEF StoreInv, StoreTypeOK, StartInv, StageFits, ListsChecked, cfg, Enter, startVars,
        storeVars, Goto, Released, Proc
<1>1. CASE Load(p)
  <2>1. cfg.lists = file.lists /\ file.lists \in ListRecord
    BY DefaultsShape
  <2> QED
    BY <1>1, <2>1 DEF Load, LoadAccepts, validateBase
<1>2. CASE OpenForLists(p)
  BY <1>2 DEF OpenForLists, Open
<1>3. CASE LoadInto(p)
  BY <1>3 DEF LoadInto, Close
<1>4. CASE runDaemon(p)
  BY <1>4 DEF runDaemon, OpenExclusive
<1>5. CASE StartPool(p)
  BY <1>5 DEF StartPool
<1>6. CASE reload(p)
  BY <1>6 DEF reload
<1>7. CASE Stop(p)
  BY <1>7 DEF Stop, Close
<1>8. CASE OpenStep(p) /\ Statement(p)
  BY <1>8, OpenMoves DEF OpenStep
<1>9. CASE OpenStep(p) /\ Crash(p)
  BY <1>9 DEF OpenStep, Crash
<1> QED
  BY <1>1, <1>2, <1>3, <1>4, <1>5, <1>6, <1>7, <1>8, <1>9 DEF OpenStep

\* A command's step is not a daemon's
LEMMA CommandMoves ==
  ASSUME StoreInv, NEW c \in Command, Open(c) \/ Statement(c) \/ Close(c) \/ Crash(c)
  PROVE  \A q \in Daemon : pc'[q] = pc[q] /\ (q \in exclusive' <=> q \in exclusive)
<1> USE StoreOpenAssumption DEF StoreInv, StoreTypeOK, Goto, Released, Proc
<1>1. CASE Open(c) \/ Close(c) \/ Crash(c)
  BY <1>1 DEF Open, Close, Crash
<1>2. CASE Statement(c)
  BY <1>2 DEF Statement, ReadVersion, DropTable, SetVersion, ReadColumns, AddColumn, Schema, StateSchema
<1> QED
  BY <1>1, <1>2

LEMMA CommandKeeps ==
  ASSUME StoreInv, StartInv, NEW c \in Command, CommandStep(c) \/ EditTable(c)
  PROVE  StartInv'
<1> USE DEF StartInv, StageFits, ListsChecked, cfg
<1>1. CASE CommandStep(c)
  BY <1>1, CommandMoves DEF CommandStep, startVars
<1>2. CASE EditTable(c)
  BY <1>2 DEF EditTable, storeVars
<1> QED
  BY <1>1, <1>2

LEMMA StartAlways == Spec => [](StoreInv /\ StartInv)
<1>1. Init => StoreInv /\ StartInv
  BY StoreInitInv, StartInitInv DEF Init
<1>2. StoreInv /\ StartInv /\ [Next]_vars => StoreInv' /\ StartInv'
  <2> SUFFICES ASSUME StoreInv, StartInv, [Next]_vars
               PROVE  StoreInv' /\ StartInv'
    OBVIOUS
  <2>1. StoreInv'
    BY StoreStep, StartIsStore
  <2>2. CASE Next
    BY <2>1, <2>2, DaemonStep, CommandKeeps DEF Next
  <2>3. CASE UNCHANGED vars
    BY <2>1, <2>3 DEF vars, storeVars, startVars, StartInv, StageFits, ListsChecked, cfg
  <2> QED
    BY <2>2, <2>3
<1> QED
  BY <1>1, <1>2, PTL DEF Spec

\* What validateServer has made sure of is what the endpoints log in with
LEMMA ServerHasCredentials ==
  ASSUME NEW s, validateServer(s)
  PROVE  HasCredentials(s)
<1>1. CASE s.type \in {"", "imap"}
  <2>1. \/ {"host", "master_user", "master_pass"} \subseteq s.has
        \/ s.type \in {"maildir", "pst"} \/ s.type = "ews"
    BY Zenon DEF validateServer
  <2>2. s.type \notin {"maildir", "pst"} /\ s.type # "ews"
    BY <1>1
  <2> QED
    BY <2>1, <2>2 DEF HasCredentials
<1>2. CASE s.type = "ews"
  <2>1. validateEWSAuth(s)
    BY <1>2 DEF validateServer
  <2> QED
    BY <1>2, <2>1 DEF validateEWSAuth, HasCredentials
<1>3. CASE s.type \notin {"", "imap", "ews"}
  BY <1>3 DEF HasCredentials
<1> QED
  BY <1>1, <1>2, <1>3

\* A configuration with a direction to copy in
LEMMA SomeDirection ==
  ASSUME NEW c, directionFits(c)
  PROVE  allowAToB(c) \/ allowBToA(c)
  BY DEF directionFits, allowAToB, allowBToA

(***************************************************************************)
(* validateBase against runDaemon, newEWSAuth and syncPair: whatever file  *)
(* is accepted can be run, with the DB locked if it needs one, credentials *)
(* for both endpoints and a direction to copy in.                          *)
(***************************************************************************)
THEOREM AcceptedCanRun == Spec => []AcceptedRuns
<1>1. StoreInv /\ StartInv => AcceptedRuns
  <2> SUFFICES ASSUME StartInv, NEW p \in Daemon
               PROVE  /\ stage[p] = "daemon" /\ needDB(cfg) /\ cfg.path # " " => ~Blank(cfg.path)
                      /\ stage[p] = "run" =>
                           /\ needDB(cfg) => p \in exclusive
                           /\ p \in exclusive => pc[p] = "open"
                           /\ HasCredentials(cfg.a) /\ HasCredentials(cfg.b)
                           /\ allowAToB(cfg) \/ allowBToA(cfg)
    BY DEF AcceptedRuns, needDB
  <2>1. StageFits(p)
    BY DEF StartInv
  <2>2. ASSUME stage[p] # "off"
        PROVE  /\ needDB(cfg) /\ cfg.path # " " => ~Blank(cfg.path)
               /\ HasCredentials(cfg.a) /\ HasCredentials(cfg.b)
               /\ allowAToB(cfg) \/ allowBToA(cfg)
    BY <2>1, <2>2, ServerHasCredentials, SomeDirection
    DEF StageFits, LoadAccepts, validateBase, needDB, Blank
  <2> QED
    BY <2>1, <2>2 DEF StageFits
<1> QED
  BY <1>1, StartAlways, PTL

(***************************************************************************)
(* ValidateEntities and reload: unless the table was edited since, the     *)
(* lists of a running daemon are ones the checks accept, for any lists.    *)
(***************************************************************************)
THEOREM ListsStayFit == Spec => []ListsFit
<1>1. StoreInv /\ StartInv => ListsFit
  <2> SUFFICES ASSUME StartInv, NEW p \in Daemon, stage[p] = "run", p \notin edited
               PROVE  /\ lists[p].users > 0 /\ (lists[p].pairs > 0 \/ cfg.all)
                      /\ lists[p].users = 1 \/ cfg.workers < lists[p].users
                      /\ "a" \in lists[p].paths => cfg.a.type \in {"maildir", "pst"}
                      /\ "b" \in lists[p].paths => cfg.b.type \in {"maildir", "pst"}
    BY DEF ListsFit
  <2>1. ValidateEntities(cfg, lists[p])
    BY DEF StartInv, ListsChecked
  <2>2. lists[p].users \in Nat /\ cfg.workers \in Int
    BY DefaultsShape DEF StartInv, ListRecord
  <2> QED
    BY <2>1, <2>2 DEF ValidateEntities, pathOverridable
<1> QED
  BY <1>1, StartAlways, PTL
=============================================================================
