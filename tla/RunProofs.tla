----------------------------- MODULE RunProofs ------------------------------
(***************************************************************************)
(* Proofs about the runs of a user: SyncUser, for any number of folder     *)
(* pairs, any setting of connect_retries and max_fail_streak and any       *)
(* number of runs; and Pool, which hands the users to the workers, for any *)
(* finite set of users and any cfg.Workers.                                *)
(***************************************************************************)
EXTENDS SyncUser, Pool, TLAPS

(***************************************************************************)
(* What a reader of SyncUser keeps in mind at each point of the run: which *)
(* endpoints are held, what has been asked of each pair, and that a pair   *)
(* the loop has left behind is synchronised unless an error is recorded.   *)
(***************************************************************************)
Held ==
  /\ pc \in {"idle", "persist"} => conn = {} /\ local = {}
  /\ pc \in {"dial", "backoff"} => conn = {} /\ local = (IF ds = "b" THEN {"a"} ELSE {})
  /\ pc \in {"resolve", "next", "sync", "reconnect"} =>
       conn = Side /\ local = {}
  /\ pc = "finish" => local = {} /\ conn \in {{}, Side}
  /\ \A s \in Side : live[s] = IF s \in conn \cup local THEN 1 ELSE 0

Asked ==
  /\ \A p \in 1..NPairs : p > pair => asked[p] = 0
  /\ \A p \in 1..NPairs : asked[p] <= 2
  /\ \A p \in 1..NPairs : asked[p] = 2 => errs = 1
  /\ (pc = "sync" /\ again = 0) => asked[pair] = 0
  /\ (pc \in {"sync", "dial", "backoff"} /\ again = 1) => asked[pair] = 1 /\ errs = 1
  /\ pc = "reconnect" => asked[pair] = 1 /\ errs = 1
  /\ again = 1 => errs = 1
  /\ pc \in {"sync", "reconnect"} => pair # 0
  /\ (pc \in {"dial", "backoff"} /\ pair # 0) => again = 1
  /\ pc = "resolve" => pair = 0

Synced ==
  /\ (errs = 0 /\ pc \in {"dial", "backoff", "resolve", "next"}) => synced = 1..pair
  /\ (errs = 0 /\ pc = "sync") => synced = 1..(pair - 1)
  /\ (errs = 0 /\ pc \in {"finish", "persist"}) => synced = 1..NPairs

Inv == TypeOK /\ Held /\ Asked /\ Synced

-----------------------------------------------------------------------------
\* A dial makes at least one attempt, whatever connect_retries says
LEMMA AttemptsPositive == attempts \in Nat /\ attempts >= 1
  BY SyncUserAssumption DEF attempts

\* DialFailed closes what connect held and nothing else
LEMMA DialFailedCloses ==
  ASSUME TypeOK, Held, DialFailed, pc \in {"dial", "backoff"}
  PROVE  live' = [s \in Side |-> 0]
<1>1. conn = {} /\ local \subseteq {"a"} /\ live \in [Side -> Nat]
  BY DEF TypeOK, Held
<1>2. \A s \in Side : live[s] = IF s \in local THEN 1 ELSE 0
  BY <1>1 DEF Held
<1>3. \A s \in Side : (IF s \in local THEN live[s] - 1 ELSE live[s]) = 0
  BY <1>2
<1> QED
  BY <1>3 DEF DialFailed

\* Before the first run nothing is held, asked or recorded
LEMMA InitInv == Init => Inv
  BY SyncUserAssumption, AttemptsPositive DEF Init, Inv, TypeOK, Held, Asked, Synced, Side

\* Every step keeps the types
LEMMA TypeStep == Inv /\ [Next]_vars => TypeOK'
<1> SUFFICES ASSUME Inv, [Next]_vars PROVE TypeOK'
  OBVIOUS
<1> USE SyncUserAssumption, AttemptsPositive DEF Inv, TypeOK
<1>1. CASE Start
  BY <1>1 DEF Start, connVars, loopVars, rowVars, Side, Held
<1>2. CASE Cancel
  BY <1>2 DEF Cancel, connVars, loopVars, rowVars
<1>3. CASE Connect
  <2>1. UNCHANGED <<pair, again, synced, asked, ctx, status, streak, failSince>>
    BY <1>3 DEF Connect, loopVars, rowVars
  <2>2. /\ pc' \in {"dial", "backoff", "resolve", "sync", "finish"}
        /\ ds' \in Side /\ tries' \in 0..(attempts - 1)
        /\ errs' \in 0..1
    BY <1>3 DEF Connect, DialFailed, Side
  <2>6. conn' \in {conn, Side} /\ local' \in {local, {}, {"a"}}
    BY <1>3 DEF Connect, DialFailed
  <2>7. conn' \subseteq Side /\ local' \subseteq {"a"}
    BY <2>6
  <2>3. CASE DialFailed
    BY <1>3, <2>3, DialFailedCloses, <2>1, <2>2, <2>7 DEF Connect
  <2>4. CASE live' = [live EXCEPT ![ds] = @ + 1]
    BY <2>4, <2>1, <2>2, <2>7
  <2>5. CASE UNCHANGED live
    BY <2>5, <2>1, <2>2, <2>7
  <2> QED
    BY <1>3, <2>3, <2>4, <2>5 DEF Connect
<1>4. CASE Backoff
  <2>1. UNCHANGED <<ds, tries, conn, pair, again, synced, asked, ctx, status, streak, failSince>>
    BY <1>4 DEF Backoff, loopVars, rowVars
  <2>2. pc' \in {"dial", "finish"} /\ local' \in {local, {}} /\ errs' \in 0..1
    BY <1>4 DEF Backoff, DialFailed
  <2>3. CASE DialFailed
    BY <1>4, <2>3, DialFailedCloses, <2>1, <2>2 DEF Backoff
  <2>4. CASE UNCHANGED live
    BY <2>4, <2>1, <2>2
  <2> QED
    BY <1>4, <2>3, <2>4 DEF Backoff
<1>5. CASE ResolveFolders
  BY <1>5 DEF ResolveFolders, connVars, loopVars, rowVars
<1>6. CASE NextPair
  BY <1>6 DEF NextPair, connVars, loopVars, rowVars
<1>7. CASE SyncPairCall
  <2>1. UNCHANGED <<ds, tries, conn, local, live, pair, again, ctx, status, streak, failSince>>
    BY <1>7 DEF SyncPairCall, connVars, rowVars
  <2>2. pc' \in {"next", "reconnect"} /\ errs' \in 0..1
    BY <1>7 DEF SyncPairCall
  <2>3. synced' \subseteq 1..NPairs
    <3>1. pair \in 1..NPairs
      BY <1>7 DEF SyncPairCall, Asked
    <3>2. synced' \in {synced, synced \cup {pair}}
      BY <1>7 DEF SyncPairCall
    <3> QED
      BY <3>1, <3>2
  <2>4. asked' \in [1..NPairs -> Nat]
    <3>1. pair \in 1..NPairs
      BY <1>7 DEF SyncPairCall, Asked
    <3> QED
      BY <1>7, <3>1 DEF SyncPairCall
  <2> QED
    BY <2>1, <2>2, <2>3, <2>4
<1>8. CASE Reconnect
  BY <1>8 DEF Reconnect, connVars, loopVars, rowVars, CloseBoth, Side, Held
<1>9. CASE Finish
  BY <1>9 DEF Finish, connVars, loopVars, rowVars, CloseBoth, Side, Held
<1>10. CASE PersistStatus
  BY <1>10 DEF PersistStatus, connVars, loopVars, rowVars, RecordRun
<1>11. CASE ResumeUser
  BY <1>11 DEF ResumeUser, connVars, loopVars, rowVars
<1>12. CASE ForgetUser
  BY <1>12 DEF ForgetUser, connVars, loopVars, rowVars
<1>13. CASE UNCHANGED vars
  BY <1>13 DEF vars, connVars, loopVars, rowVars
<1> QED
  BY <1>1, <1>2, <1>3, <1>4, <1>5, <1>6, <1>7, <1>8, <1>9, <1>10, <1>11, <1>12, <1>13
     DEF Next, Run

\* Every step keeps the account of the open connections
LEMMA HeldStep == Inv /\ [Next]_vars => Held'
<1> SUFFICES ASSUME Inv, [Next]_vars PROVE Held'
  OBVIOUS
<1> USE DEF Inv, TypeOK, Held, Side
<1>1. CASE Start
  BY <1>1 DEF Start, connVars, loopVars, rowVars
<1>2. CASE Cancel
  BY <1>2 DEF Cancel, connVars, loopVars, rowVars
<1>3. CASE Connect
  <2>1. conn = {} /\ local = (IF ds = "b" THEN {"a"} ELSE {})
    BY <1>3 DEF Connect
  <2>2. CASE DialFailed
    <3>1. live' = [s \in Side |-> 0] /\ conn' = {} /\ local' = {} /\ pc' = "finish"
      BY <1>3, <2>1, <2>2, DialFailedCloses DEF Connect, DialFailed
    <3> QED
      BY <3>1
  <2>3. CASE live' = [live EXCEPT ![ds] = @ + 1] /\ ds = "a" /\ ds' = "b" /\ local' = {"a"}
             /\ UNCHANGED <<pc, conn>>
    BY <1>3, <2>1, <2>3 DEF Connect
  <2>4. CASE live' = [live EXCEPT ![ds] = @ + 1] /\ ds = "b" /\ local' = {} /\ conn' = Side
             /\ pc' \in {"resolve", "sync"}
    BY <1>3, <2>1, <2>4
  <2>5. CASE pc' = "backoff" /\ UNCHANGED <<ds, conn, local, live>>
    BY <1>3, <2>1, <2>5 DEF Connect
  <2> QED
    BY <1>3, <2>2, <2>3, <2>4, <2>5 DEF Connect
<1>4. CASE Backoff
  <2>1. CASE DialFailed
    <3>1. live' = [s \in Side |-> 0] /\ conn' = {} /\ local' = {} /\ pc' = "finish"
      BY <1>4, <2>1, DialFailedCloses DEF Backoff, DialFailed
    <3> QED
      BY <3>1
  <2>2. CASE pc' = "dial" /\ UNCHANGED <<ds, conn, local, live>>
    BY <1>4, <2>2 DEF Backoff
  <2> QED
    BY <1>4, <2>1, <2>2 DEF Backoff
<1>5. CASE ResolveFolders
  BY <1>5 DEF ResolveFolders, connVars, loopVars, rowVars
<1>6. CASE NextPair
  BY <1>6 DEF NextPair, connVars, loopVars, rowVars
<1>7. CASE SyncPairCall
  BY <1>7 DEF SyncPairCall, connVars, loopVars, rowVars
<1>8. CASE Reconnect
  BY <1>8 DEF Reconnect, connVars, loopVars, rowVars, CloseBoth
<1>9. CASE Finish
  BY <1>9 DEF Finish, connVars, loopVars, rowVars, CloseBoth
<1>10. CASE PersistStatus
  BY <1>10 DEF PersistStatus, connVars, loopVars, rowVars, RecordRun
<1>11. CASE ResumeUser
  BY <1>11 DEF ResumeUser, connVars, loopVars, rowVars
<1>12. CASE ForgetUser
  BY <1>12 DEF ForgetUser, connVars, loopVars, rowVars
<1>13. CASE UNCHANGED vars
  BY <1>13 DEF vars, connVars, loopVars, rowVars
<1> QED
  BY <1>1, <1>2, <1>3, <1>4, <1>5, <1>6, <1>7, <1>8, <1>9, <1>10, <1>11, <1>12, <1>13
     DEF Next, Run

\* Every step keeps the account of what was asked of each pair
LEMMA AskedStep == Inv /\ [Next]_vars => Asked'
<1> SUFFICES ASSUME Inv, [Next]_vars PROVE Asked'
  OBVIOUS
<1> USE SyncUserAssumption DEF Inv, TypeOK, Asked
<1>1. CASE Start
  BY <1>1 DEF Start, connVars, loopVars, rowVars
<1>2. CASE Cancel
  BY <1>2 DEF Cancel, connVars, loopVars, rowVars
<1>3. CASE Connect
  BY <1>3 DEF Connect, connVars, loopVars, rowVars, DialFailed
<1>4. CASE Backoff
  BY <1>4 DEF Backoff, connVars, loopVars, rowVars, DialFailed
<1>5. CASE ResolveFolders
  BY <1>5 DEF ResolveFolders, connVars, loopVars, rowVars
<1>6. CASE NextPair
  BY <1>6 DEF NextPair, connVars, loopVars, rowVars
<1>7. CASE SyncPairCall
  BY <1>7 DEF SyncPairCall, connVars, loopVars, rowVars
<1>8. CASE Reconnect
  BY <1>8 DEF Reconnect, connVars, loopVars, rowVars, CloseBoth
<1>9. CASE Finish
  BY <1>9 DEF Finish, connVars, loopVars, rowVars, CloseBoth
<1>10. CASE PersistStatus
  BY <1>10 DEF PersistStatus, connVars, loopVars, rowVars, RecordRun
<1>11. CASE ResumeUser
  BY <1>11 DEF ResumeUser, connVars, loopVars, rowVars
<1>12. CASE ForgetUser
  BY <1>12 DEF ForgetUser, connVars, loopVars, rowVars
<1>13. CASE UNCHANGED vars
  BY <1>13 DEF vars, connVars, loopVars, rowVars
<1> QED
  BY <1>1, <1>2, <1>3, <1>4, <1>5, <1>6, <1>7, <1>8, <1>9, <1>10, <1>11, <1>12, <1>13
     DEF Next, Run

\* Every step keeps the account of the pairs that are done
LEMMA SyncedStep == Inv /\ [Next]_vars => Synced'
<1> SUFFICES ASSUME Inv, [Next]_vars PROVE Synced'
  OBVIOUS
<1> USE SyncUserAssumption DEF Inv, TypeOK, Asked, Synced
<1>1. CASE Start
  BY <1>1 DEF Start, connVars, loopVars, rowVars
<1>2. CASE Cancel
  BY <1>2 DEF Cancel, connVars, loopVars, rowVars
<1>3. CASE Connect
  BY <1>3 DEF Connect, connVars, loopVars, rowVars, DialFailed
<1>4. CASE Backoff
  BY <1>4 DEF Backoff, connVars, loopVars, rowVars, DialFailed
<1>5. CASE ResolveFolders
  BY <1>5 DEF ResolveFolders, connVars, loopVars, rowVars
<1>6. CASE NextPair
  BY <1>6 DEF NextPair, connVars, loopVars, rowVars
<1>7. CASE SyncPairCall
  <2>1. pair \in 1..NPairs
    BY <1>7 DEF SyncPairCall
  <2>2. 1..(pair - 1) \cup {pair} = 1..pair
    BY <2>1
  <2>3. CASE errs' = 1
    BY <2>3
  <2>4. CASE pc' = "next" /\ synced' = synced \cup {pair} /\ errs' = errs
    BY <1>7, <2>2, <2>4 DEF SyncPairCall
  <2> QED
    BY <1>7, <2>3, <2>4 DEF SyncPairCall
<1>8. CASE Reconnect
  BY <1>8 DEF Reconnect, connVars, loopVars, rowVars, CloseBoth
<1>9. CASE Finish
  BY <1>9 DEF Finish, connVars, loopVars, rowVars, CloseBoth
<1>10. CASE PersistStatus
  BY <1>10 DEF PersistStatus, connVars, loopVars, rowVars, RecordRun
<1>11. CASE ResumeUser
  BY <1>11 DEF ResumeUser, connVars, loopVars, rowVars
<1>12. CASE ForgetUser
  BY <1>12 DEF ForgetUser, connVars, loopVars, rowVars
<1>13. CASE UNCHANGED vars
  BY <1>13 DEF vars, connVars, loopVars, rowVars
<1> QED
  BY <1>1, <1>2, <1>3, <1>4, <1>5, <1>6, <1>7, <1>8, <1>9, <1>10, <1>11, <1>12, <1>13
     DEF Next, Run

\* The account of a run holds in every state
THEOREM Invariance == Spec => []Inv
<1>1. Inv /\ [Next]_vars => Inv'
  BY TypeStep, HeldStep, AskedStep, SyncedStep DEF Inv
<1> QED
  BY InitInv, <1>1, PTL DEF Spec

(***************************************************************************)
(* The types of SyncUser's variables, whatever fails, is retried or is     *)
(* cancelled.                                                              *)
(***************************************************************************)
THEOREM TypeCorrect == Spec => []TypeOK
  BY Invariance, PTL DEF Inv

(***************************************************************************)
(* Every connection connect or reconnect opens is closed exactly once      *)
(* before the run is recorded, and syncPair only runs with both.           *)
(***************************************************************************)
THEOREM ConnectionsClosed == Spec => []NoConnectionLeak
<1>1. Inv => NoConnectionLeak
  BY DEF Inv, TypeOK, Held, NoConnectionLeak, Side
<1> QED
  BY Invariance, <1>1, PTL

(***************************************************************************)
(* No pair is tried more than twice in a run, and the second time only     *)
(* with an error on record.                                                *)
(***************************************************************************)
THEOREM RetriesBounded == Spec => []OneRetryPerPair
<1>1. Inv => OneRetryPerPair
  BY DEF Inv, Asked, OneRetryPerPair
<1> QED
  BY Invariance, <1>1, PTL

(***************************************************************************)
(* persistStatus records "ok" only for a run that synchronised every pair. *)
(***************************************************************************)
THEOREM OkIsHonest == Spec => []OkMeansSynced
<1>1. Inv => OkMeansSynced
  BY DEF Inv, Synced, OkMeansSynced
<1> QED
  BY Invariance, <1>1, PTL

(***************************************************************************)
(* fail_streak and fail_since agree after every RecordRun, resume and      *)
(* forget, and a clean run ends a streak.                                  *)
(***************************************************************************)
THEOREM StreakAgrees == Spec => []StreakConsistent
<1>1. Init => StreakConsistent
  BY DEF Init, StreakConsistent
<1>2. TypeOK /\ StreakConsistent /\ [Next]_vars => StreakConsistent'
  <2> SUFFICES ASSUME TypeOK, StreakConsistent, [Next]_vars PROVE StreakConsistent'
    OBVIOUS
  <2>1. CASE PersistStatus
    BY <2>1, SyncUserAssumption DEF PersistStatus, RecordRun, rowVars, TypeOK, StreakConsistent
  <2>2. CASE ResumeUser
    BY <2>2 DEF ResumeUser, StreakConsistent
  <2>3. CASE ForgetUser
    BY <2>3 DEF ForgetUser, StreakConsistent
  <2>4. CASE UNCHANGED rowVars
    BY <2>4 DEF rowVars, StreakConsistent
  <2> QED
    BY <2>1, <2>2, <2>3, <2>4 DEF Next, Run, Start, Cancel, Connect, Backoff, ResolveFolders,
       NextPair, SyncPairCall, Reconnect, Finish, vars
<1> QED
  BY <1>1, <1>2, TypeCorrect, PTL DEF Spec

-----------------------------------------------------------------------------
(***************************************************************************)
(* The pool.  Its three invariants are inductive only together: a user is  *)
(* with one worker (ExactlyOnce) because a worker is busy only during a    *)
(* cycle (QuietBetweenCycles), and the statistics are settled between      *)
(* cycles because they follow the workers (StatsMatchWorkers).             *)
(***************************************************************************)
\* The feed loop gives users up only at its end
CutOnce == todo # {} => dropped = {}

PoolInv == PoolTypeOK /\ ExactlyOnce /\ QuietBetweenCycles /\ StatsMatchWorkers /\ CutOnce

\* Before the first cycle there is nothing to account for
LEMMA PoolInitInv == PoolInit => PoolInv
  BY DEF PoolInit, PoolInv, PoolTypeOK, ExactlyOnce, QuietBetweenCycles, StatsMatchWorkers, CutOnce, Busy

\* The goroutine of Run, the operator, the signal and the reporter
LEMMA MainStep ==
  ASSUME PoolInv, \/ EditTable \/ Signal \/ Reload \/ StartCycle \/ BreakFeed \/ CloseQueue
              \/ CycleEnd \/ Sleep \/ ReporterExit \/ Stop
  PROVE  PoolInv'
<1> USE DEF PoolInv, PoolTypeOK, ExactlyOnce, QuietBetweenCycles, StatsMatchWorkers, CutOnce, Busy, cycleVars
<1>1. CASE EditTable
  BY <1>1 DEF EditTable
<1>2. CASE Signal
  BY <1>2 DEF Signal
<1>3. CASE Reload
  BY <1>3 DEF Reload
<1>4. CASE StartCycle
  BY <1>4 DEF StartCycle
<1>5. CASE BreakFeed
  BY <1>5 DEF BreakFeed
<1>6. CASE CloseQueue
  BY <1>6 DEF CloseQueue
<1>7. CASE CycleEnd
  BY <1>7 DEF CycleEnd
<1>8. CASE Sleep
  BY <1>8 DEF Sleep
<1>9. CASE ReporterExit
  BY <1>9 DEF ReporterExit
<1>10. CASE Stop
  BY <1>10 DEF Stop
<1> QED
  BY <1>1, <1>2, <1>3, <1>4, <1>5, <1>6, <1>7, <1>8, <1>9, <1>10

\* One worker's step, or the hand-over of a user to it
LEMMA WorkerStep ==
  ASSUME PoolInv, NEW w \in Worker, Send(w) \/ Work(w)
  PROVE  PoolInv'
<1> USE PoolAssumption DEF PoolInv, PoolTypeOK, ExactlyOnce, QuietBetweenCycles, StatsMatchWorkers, CutOnce, Busy
<1>1. CASE Send(w)
  BY <1>1 DEF Send
<1>2. CASE SkipStopped(w)
  BY <1>2 DEF SkipStopped
<1>3. CASE BeginUser(w)
  BY <1>3 DEF BeginUser
<1>4. CASE EndUser(w)
  BY <1>4 DEF EndUser
<1>5. CASE WorkerExit(w)
  BY <1>5 DEF WorkerExit
<1> QED
  BY <1>1, <1>2, <1>3, <1>4, <1>5 DEF Work

\* The four hold in every state
THEOREM PoolInvariance == PoolSpec => []PoolInv
<1>1. PoolInv /\ [PoolNext]_poolVars => PoolInv'
  <2> SUFFICES ASSUME PoolInv, [PoolNext]_poolVars PROVE PoolInv'
    OBVIOUS
  <2>1. CASE UNCHANGED poolVars
    BY <2>1 DEF poolVars, PoolInv, PoolTypeOK, ExactlyOnce, QuietBetweenCycles, StatsMatchWorkers, CutOnce, Busy
  <2>2. CASE PoolNext
    BY <2>2, MainStep, WorkerStep DEF PoolNext, Main
  <2> QED
    BY <2>1, <2>2
<1> QED
  BY PoolInitInv, <1>1, PTL DEF PoolSpec

(***************************************************************************)
(* RunCycle hands each user of its list to exactly one worker, and leaves  *)
(* one out only when the daemon is being shut down.                        *)
(***************************************************************************)
THEOREM UsersExactlyOnce == PoolSpec => []ExactlyOnce
  BY PoolInvariance, PTL DEF PoolInv

(***************************************************************************)
(* reload replaces the lists, and BeginCycle the statistics, only while no *)
(* worker is running: the workers' unlocked reads race with nothing.       *)
(***************************************************************************)
THEOREM ReloadIsAlone == PoolSpec => []QuietBetweenCycles
  BY PoolInvariance, PTL DEF PoolInv

(***************************************************************************)
(* A user is shown in progress exactly while a worker is in its SyncUser.  *)
(***************************************************************************)
THEOREM StatsFollowWorkers == PoolSpec => []StatsMatchWorkers
  BY PoolInvariance, PTL DEF PoolInv
=============================================================================
