-------------------------------- MODULE Pool --------------------------------
(***************************************************************************)
(* The worker pool (internal/syncer/pool.go) with the reporter goroutine   *)
(* and the statistics it reads (internal/stats/stats.go): Run's loop of    *)
(* reload and RunCycle, the unbuffered queue between the feeding goroutine *)
(* and the workers, cancellation at any moment, and the operator changing  *)
(* the user table meanwhile.  A user's SyncUser is the span between        *)
(* BeginUser and EndUser; SyncUser.tla looks inside.                       *)
(***************************************************************************)
EXTENDS Naturals, FiniteSets

CONSTANTS
  User,        \* the users the table may hold
  CfgWorkers,  \* cfg.Workers
  None

ASSUME PoolAssumption ==
  /\ IsFiniteSet(User)
  /\ CfgWorkers \in Nat
  /\ None \notin User

\* Slots for the goroutines; workers() never starts more than cfg.Workers, at least one
Worker == 1..(IF CfgWorkers > 1 THEN CfgWorkers ELSE 1)

VARIABLES
  table,     \* enabled users in the DB
  runPc,     \* the goroutine of Run
  users,     \* cfg.Users as last read; names are unique, the order does not matter
  todo,      \* what RunCycle's feed loop has still to send
  queue,     \* the channel: "open" or "closed"
  wstate,    \* each worker: "off", "recv", "user", "sync", "exit"
  wuser,     \* the user a worker has received
  daemonCtx, \* "live", or "done" after SIGINT or SIGTERM
  reporter,  \* the reporter goroutine: "on" or "off"
  stat,      \* Collector: "absent", "running" or "done" for each user
  begun,     \* users this cycle has handed to a worker
  dropped    \* users this cycle's feed loop gave up when the context was done

poolVars == <<table, runPc, users, todo, queue, wstate, wuser, daemonCtx, reporter, stat, begun, dropped>>
cycleVars == <<todo, queue, wstate, wuser, begun, dropped>>

PoolInit ==
  /\ table \in SUBSET User
  /\ runPc = "reload"
  /\ users = table
  /\ todo = {} /\ queue = "open"
  /\ wstate = [w \in Worker |-> "off"]
  /\ wuser = [w \in Worker |-> None]
  /\ daemonCtx = "live"
  /\ reporter = "on"
  /\ stat = [u \in User |-> "absent"]
  /\ begun = {} /\ dropped = {}

\* db-add-user, db-enable-user, db-disable-user, db-remove-user
EditTable ==
  /\ \E S \in SUBSET User : table' = S
  /\ UNCHANGED <<runPc, users, cycleVars, daemonCtx, reporter, stat>>

Signal ==
  /\ daemonCtx = "live" /\ daemonCtx' = "done"
  /\ UNCHANGED <<table, runPc, users, cycleVars, reporter, stat>>

\* reload: both lists or, on an error, the old ones
Reload ==
  /\ runPc = "reload"
  /\ users' = table \/ UNCHANGED users
  /\ runPc' = "start"
  /\ UNCHANGED <<table, cycleVars, daemonCtx, reporter, stat>>

workers == LET n == Cardinality(users)
               w == IF CfgWorkers > n THEN n ELSE CfgWorkers
           IN IF w < 1 THEN 1 ELSE w

\* RunCycle: BeginCycle, a new queue and the workers
StartCycle ==
  /\ runPc = "start"
  /\ stat' = [u \in User |-> "absent"]
  /\ todo' = users /\ queue' = "open"
  /\ wstate' = [w \in Worker |-> IF w <= workers THEN "recv" ELSE "off"]
  /\ begun' = {} /\ dropped' = {}
  /\ runPc' = "feed"
  /\ UNCHANGED <<table, users, wuser, daemonCtx, reporter>>

\* The feed loop's select: a worker takes the next user off the queue...
Send(w) ==
  /\ runPc = "feed"
  /\ wstate[w] = "recv"
  /\ wstate' = [wstate EXCEPT ![w] = "user"]
  /\ \E u \in todo :
       /\ wuser' = [wuser EXCEPT ![w] = u]
       /\ begun' = begun \cup {u}
       /\ todo' = todo \ {u}
  /\ UNCHANGED <<table, runPc, users, queue, daemonCtx, reporter, stat, dropped>>

\* ...or the context is done
BreakFeed ==
  /\ runPc = "feed" /\ todo # {} /\ daemonCtx = "done"
  /\ todo' = {} /\ dropped' = todo
  /\ UNCHANGED <<table, runPc, users, queue, wstate, wuser, daemonCtx, reporter, stat, begun>>

\* Mutant: the queue is never closed
CloseQueueNot ==
  /\ runPc = "feed" /\ todo = {}
  /\ runPc' = "wait"
  /\ UNCHANGED <<table, users, todo, queue, wstate, wuser, daemonCtx, reporter, stat, begun, dropped>>

CloseQueue ==
  /\ runPc = "feed" /\ todo = {}
  /\ queue' = "closed"
  /\ runPc' = "wait"
  /\ UNCHANGED <<table, users, todo, wstate, wuser, daemonCtx, reporter, stat, begun, dropped>>

\* processUser -> SyncUser: a user stopped by the error streak is skipped
SkipStopped(w) ==
  /\ wstate[w] = "user"
  /\ wstate' = [wstate EXCEPT ![w] = "recv"]
  /\ wuser' = [wuser EXCEPT ![w] = None]
  /\ UNCHANGED <<table, runPc, users, todo, queue, daemonCtx, reporter, stat, begun, dropped>>

BeginUser(w) ==
  /\ wstate[w] = "user"
  /\ wstate' = [wstate EXCEPT ![w] = "sync"]
  /\ stat' = [stat EXCEPT ![wuser[w]] = "running"]
  /\ UNCHANGED <<table, runPc, users, todo, queue, wuser, daemonCtx, reporter, begun, dropped>>

\* Mutant: EndUser is not called on the way out
EndUserMissing(w) ==
  /\ wstate[w] = "sync"
  /\ wstate' = [wstate EXCEPT ![w] = "recv"]
  /\ wuser' = [wuser EXCEPT ![w] = None]
  /\ UNCHANGED <<table, runPc, users, todo, queue, daemonCtx, reporter, stat, begun, dropped>>

\* SyncUser's deferred EndUser
EndUser(w) ==
  /\ wstate[w] = "sync"
  /\ wstate' = [wstate EXCEPT ![w] = "recv"]
  /\ wuser' = [wuser EXCEPT ![w] = None]
  /\ stat' = [stat EXCEPT ![wuser[w]] = "done"]
  /\ UNCHANGED <<table, runPc, users, todo, queue, daemonCtx, reporter, begun, dropped>>

\* Mutant: the zero value a closed channel yields is taken for a user
WorkerTakesZero(w) ==
  /\ wstate[w] = "recv" /\ queue = "closed"
  /\ wstate' = [wstate EXCEPT ![w] = "user"]
  /\ UNCHANGED <<table, runPc, users, todo, queue, wuser, daemonCtx, reporter, stat, begun, dropped>>

\* The range over the closed queue ends
WorkerExit(w) ==
  /\ wstate[w] = "recv" /\ queue = "closed"
  /\ wstate' = [wstate EXCEPT ![w] = "exit"]
  /\ UNCHANGED <<table, runPc, users, todo, queue, wuser, daemonCtx, reporter, stat, begun, dropped>>

\* Mutant: RunCycle returns without wg.Wait
CycleEndEarly ==
  /\ runPc = "wait"
  /\ runPc' = IF daemonCtx = "done" THEN "stopping" ELSE "sleep"
  /\ UNCHANGED <<table, users, cycleVars, daemonCtx, reporter, stat>>

\* wg.Wait returns; LogSummary; Run returns if the context is done, else sleeps
CycleEnd ==
  /\ runPc = "wait"
  /\ \A w \in Worker : wstate[w] \in {"off", "exit"}
  /\ runPc' = IF daemonCtx = "done" THEN "stopping" ELSE "sleep"
  /\ UNCHANGED <<table, users, cycleVars, daemonCtx, reporter, stat>>

Sleep ==
  /\ runPc = "sleep"
  /\ runPc' \in {"reload"} \cup {p \in {"stopping"} : daemonCtx = "done"}
  /\ UNCHANGED <<table, users, cycleVars, daemonCtx, reporter, stat>>

\* Mutant: the reporter ends only after Run has
ReporterWaits ==
  /\ reporter = "on" /\ runPc = "stopped"
  /\ reporter' = "off"
  /\ UNCHANGED <<table, runPc, users, cycleVars, daemonCtx, stat>>

ReporterExit ==
  /\ reporter = "on" /\ daemonCtx = "done"
  /\ reporter' = "off"
  /\ UNCHANGED <<table, runPc, users, cycleVars, daemonCtx, stat>>

\* The deferred stop() waits for the reporter
Stop ==
  /\ runPc = "stopping" /\ reporter = "off"
  /\ runPc' = "stopped"
  /\ UNCHANGED <<table, users, cycleVars, daemonCtx, reporter, stat>>

Main == Reload \/ StartCycle \/ (\E w \in Worker : Send(w)) \/ BreakFeed \/ CloseQueue
          \/ CycleEnd \/ Sleep \/ Stop
Work(w) == SkipStopped(w) \/ BeginUser(w) \/ EndUser(w) \/ WorkerExit(w)

PoolNext == EditTable \/ Signal \/ Main \/ (\E w \in Worker : Work(w)) \/ ReporterExit

PoolSpec == PoolInit /\ [][PoolNext]_poolVars

\* The scheduler runs every goroutine, and a user ends by per_user_timeout
Fairness == WF_poolVars(Main) /\ (\A w \in Worker : WF_poolVars(Work(w))) /\ WF_poolVars(ReporterExit)
FairPoolSpec == PoolSpec /\ Fairness

-----------------------------------------------------------------------------
Busy(w) == wstate[w] \in {"user", "sync"}

PoolTypeOK ==
  /\ table \subseteq User
  /\ runPc \in {"reload", "start", "feed", "wait", "sleep", "stopping", "stopped"}
  /\ users \subseteq User /\ todo \subseteq User /\ begun \subseteq User
  /\ queue \in {"open", "closed"} /\ daemonCtx \in {"live", "done"} /\ dropped \subseteq User
  /\ wstate \in [Worker -> {"off", "recv", "user", "sync", "exit"}]
  /\ wuser \in [Worker -> User \cup {None}]
  /\ reporter \in {"on", "off"}
  /\ stat \in [User -> {"absent", "running", "done"}]

(***************************************************************************)
(* RunCycle hands every user of its list to one worker, once: no user is   *)
(* with two workers or handed out again, and none is left out unless the   *)
(* daemon is being shut down (the comment "processes every user exactly    *)
(* once").                                                                 *)
(***************************************************************************)
ExactlyOnce ==
  runPc \in {"feed", "wait"} =>
    /\ begun \cap todo = {}
    /\ begun \cup todo \cup dropped = users
    /\ dropped # {} => daemonCtx = "done"
    /\ \A w \in Worker : Busy(w) => wuser[w] \in begun
    /\ \A w, v \in Worker : Busy(w) /\ Busy(v) /\ wuser[w] = wuser[v] => w = v

(***************************************************************************)
(* The lists are re-read and the statistics reset only while no worker is  *)
(* at work, and a summary at the end of a cycle shows nobody in progress:  *)
(* the comment of reload, "when there are no workers - no race".           *)
(***************************************************************************)
QuietBetweenCycles ==
  runPc \in {"reload", "start", "sleep", "stopping", "stopped"} =>
    /\ \A w \in Worker : wstate[w] \in {"off", "exit"}
    /\ \A u \in User : stat[u] # "running"

(***************************************************************************)
(* The statistics agree with the workers: a user is shown in progress      *)
(* exactly while a worker synchronises it.                                 *)
(***************************************************************************)
StatsMatchWorkers ==
  \A u \in User : stat[u] = "running" <=> \E w \in Worker : wstate[w] = "sync" /\ wuser[w] = u

(***************************************************************************)
(* A signal ends the daemon: the feed loop, every worker, the reporter and *)
(* Run all come to their end.                                              *)
(***************************************************************************)
ShutdownCompletes == (daemonCtx = "done") ~> (runPc = "stopped" /\ reporter = "off")

(***************************************************************************)
(* While it is not shut down the daemon begins cycle after cycle.          *)
(***************************************************************************)
CyclesGoOn == []<>(runPc = "reload" \/ daemonCtx = "done")
=============================================================================
