------------------------------ MODULE SyncUser ------------------------------
(***************************************************************************)
(* Syncer.SyncUser (internal/syncer/syncer.go), run after run for one      *)
(* user: the check of the error streak, the two connections with retries   *)
(* and back-off, the folder pairs with one reconnect and one retry each,   *)
(* the deferred close, and the status row that RecordRun, ResumeUser and   *)
(* ForgetUser maintain (internal/store/state.go).  A call of syncPair is   *)
(* one step here; SyncPair looks inside.                                   *)
(***************************************************************************)
EXTENDS Integers

CONSTANTS
  NPairs,          \* folder pairs that resolveFolders returns
  ConnectRetries,  \* cfg.ConnectRetries, negative allowed
  MaxFailStreak,   \* cfg.MaxFailStreak, 0: never stop a user
  StreakCap        \* bound on the streak the model counts

ASSUME SyncUserAssumption ==
  /\ NPairs \in Nat
  /\ ConnectRetries \in Int
  /\ MaxFailStreak \in Nat
  /\ StreakCap \in Nat \ {0} /\ MaxFailStreak <= StreakCap

Side == {"a", "b"}

\* dial: max(1, ConnectRetries + 1)
attempts == IF ConnectRetries + 1 > 1 THEN ConnectRetries + 1 ELSE 1

VARIABLES
  pc,       \* where SyncUser is
  ds,       \* the side dial is for
  tries,    \* Connect calls of this dial
  conn,     \* the sides whose endpoint the session holds (sess.a, sess.b not nil)
  local,    \* {"a"} between connect's two dials: its local variable a
  live,     \* connections open at the servers
  pair,     \* the folder pair being processed, 0 before the loop
  again,    \* 1: this is the retry of the pair after a reconnect
  ctx,      \* the user's context: "live", or "done" by timeout or shutdown
  errs,     \* the user's error counter: 0 or, for any more, 1
  synced,   \* pairs this run has synchronised without an error
  asked,    \* how often syncPair has been called for each pair in this run
  status,   \* user_status.status, "none" without a row
  streak,   \* user_status.fail_streak
  failSince \* user_status.fail_since: "null" or "set"

connVars == <<ds, tries, conn, local, live>>
loopVars == <<pair, again, synced, asked>>
rowVars == <<status, streak, failSince>>
vars == <<pc, connVars, loopVars, ctx, errs, rowVars>>

Init ==
  /\ pc = "idle"
  /\ ds = "a" /\ tries = 0
  /\ conn = {} /\ local = {}
  /\ live = [s \in Side |-> 0]
  /\ pair = 0 /\ again = 0
  /\ ctx = "live" /\ errs = 0
  /\ synced = {} /\ asked = [p \in 1..NPairs |-> 0]
  /\ status = "none" /\ streak = 0 /\ failSince = "null"

\* userStopped: a status that cannot be read does not stop the user
userStopped == MaxFailStreak > 0 /\ status # "none" /\ streak >= MaxFailStreak

\* SyncUser begins; unreadable: UserStatusOf returned an error
Start ==
  /\ pc = "idle"
  /\ \E unreadable \in BOOLEAN : unreadable \/ ~userStopped
  /\ pc' = "dial"
  /\ ds' = "a" /\ tries' = 0
  /\ pair' = 0 /\ again' = 0
  /\ ctx' = "live" /\ errs' = 0
  /\ synced' = {} /\ asked' = [p \in 1..NPairs |-> 0]
  /\ UNCHANGED <<conn, local, live, rowVars>>

\* per_user_timeout, or the shutdown of the daemon
Cancel ==
  /\ pc # "idle" /\ ctx = "live"
  /\ ctx' = "done"
  /\ UNCHANGED <<pc, connVars, loopVars, errs, rowVars>>

\* Mutant: the connection to a stays open when b cannot be reached
DialFailedLeaks ==
  /\ errs' = 1
  /\ pc' = "finish"
  /\ local' = {}
  /\ UNCHANGED live

\* dial returned an error: connect closes a if b failed, and SyncUser returns
DialFailed ==
  /\ errs' = 1
  /\ pc' = "finish"
  /\ local' = {}
  /\ live' = [s \in Side |-> IF s \in local THEN live[s] - 1 ELSE live[s]]

\* backend.Connect; a transient error is retried, another one is not.  connect
\* keeps a in a local until b is there too.
Connect ==
  /\ pc = "dial"
  /\ \/ /\ live' = [live EXCEPT ![ds] = @ + 1]
        /\ tries' = 0
        /\ IF ds = "a"
           THEN local' = {"a"} /\ ds' = "b" /\ UNCHANGED <<pc, conn>>
           ELSE /\ local' = {} /\ conn' = Side
                /\ pc' = IF pair = 0 THEN "resolve" ELSE "sync"
                /\ UNCHANGED ds
        /\ UNCHANGED errs
     \/ /\ tries + 1 < attempts                    \* isConnErr, attempts left
        /\ tries' = tries + 1
        /\ pc' = "backoff"
        /\ UNCHANGED <<ds, conn, local, live, errs>>
     \/ /\ tries' = 0
        /\ DialFailed
        /\ UNCHANGED <<ds, conn>>
  /\ UNCHANGED <<loopVars, ctx, rowVars>>

\* Mutant: the attempts are counted afresh after every back-off
BackoffForgets ==
  /\ pc = "backoff"
  /\ \/ pc' = "dial" /\ tries' = 0 /\ UNCHANGED <<local, live, errs>>
     \/ ctx = "done" /\ DialFailed /\ UNCHANGED tries
  /\ UNCHANGED <<ds, conn, loopVars, ctx, rowVars>>

\* dial's select between the context and the back-off timer
Backoff ==
  /\ pc = "backoff"
  /\ \/ pc' = "dial" /\ UNCHANGED <<local, live, errs>>
     \/ ctx = "done" /\ DialFailed
  /\ UNCHANGED <<ds, tries, conn, loopVars, ctx, rowVars>>

\* resolveFolders lists the folders of both sides, or fails
ResolveFolders ==
  /\ pc = "resolve"
  /\ \/ pc' = "next" /\ UNCHANGED errs
     \/ pc' = "finish" /\ errs' = 1
  /\ UNCHANGED <<connVars, loopVars, ctx, rowVars>>

\* Mutant: an interrupted run is not recorded as an error
NextPairSilent ==
  /\ pc = "next"
  /\ \/ (pair = NPairs \/ ctx = "done") /\ pc' = "finish" /\ UNCHANGED <<pair, errs>>
     \/ pair < NPairs /\ ctx = "live" /\ pc' = "sync" /\ pair' = pair + 1 /\ UNCHANGED errs
  /\ again' = 0
  /\ UNCHANGED <<connVars, synced, asked, ctx, rowVars>>

\* The head of the loop over the pairs
NextPair ==
  /\ pc = "next"
  /\ \/ pair = NPairs /\ pc' = "finish" /\ UNCHANGED <<pair, errs>>
     \/ pair < NPairs /\ ctx = "done" /\ pc' = "finish" /\ errs' = 1 /\ UNCHANGED pair
     \/ pair < NPairs /\ ctx = "live" /\ pc' = "sync" /\ pair' = pair + 1 /\ UNCHANGED errs
  /\ again' = 0
  /\ UNCHANGED <<connVars, synced, asked, ctx, rowVars>>

\* Mutant: the pair is retried after every lost connection
SyncPairForEver ==
  /\ pc = "sync"
  /\ asked' = [asked EXCEPT ![pair] = @ + 1]
  /\ \/ pc' = "next" /\ synced' = synced \cup {pair} /\ UNCHANGED errs
     \/ pc' = "next" /\ errs' = 1 /\ UNCHANGED synced
     \/ pc' = "reconnect" /\ errs' = 1 /\ UNCHANGED synced
  /\ UNCHANGED <<connVars, pair, again, ctx, rowVars>>

\* syncPair: all well; or nil with errors recorded for messages or the cache;
\* or a folder error.  A lost connection is answered by a reconnect, once a pair.
SyncPairCall ==
  /\ pc = "sync"
  /\ asked' = [asked EXCEPT ![pair] = @ + 1]
  /\ \/ pc' = "next" /\ synced' = synced \cup {pair} /\ UNCHANGED errs
     \/ pc' = "next" /\ errs' = 1 /\ UNCHANGED synced
     \/ again = 0 /\ pc' = "reconnect" /\ errs' = 1 /\ UNCHANGED synced
  /\ UNCHANGED <<connVars, pair, again, ctx, rowVars>>

\* session.close: each endpoint once, then nil
CloseBoth ==
  /\ live' = [s \in Side |-> IF s \in conn THEN live[s] - 1 ELSE live[s]]
  /\ conn' = {}

Reconnect ==
  /\ pc = "reconnect"
  /\ CloseBoth
  /\ again' = 1
  /\ ds' = "a" /\ tries' = 0 /\ pc' = "dial"
  /\ UNCHANGED <<local, pair, synced, asked, ctx, errs, rowVars>>

\* The deferred close, if connect had ever succeeded
Finish ==
  /\ pc = "finish"
  /\ CloseBoth
  /\ pc' = "persist"
  /\ UNCHANGED <<ds, tries, local, loopVars, ctx, errs, rowVars>>

\* RecordRun in one transaction
RecordRun(failed) ==
  IF failed
  THEN /\ status' = "error"
       /\ streak' = IF streak < StreakCap THEN streak + 1 ELSE streak
       /\ failSince' = "set"
  ELSE status' = "ok" /\ streak' = 0 /\ failSince' = "null"

\* persistStatus; a failing RecordRun is only logged
PersistStatus ==
  /\ pc = "persist"
  /\ RecordRun(errs > 0) \/ UNCHANGED rowVars
  /\ pc' = "idle"
  /\ UNCHANGED <<connVars, loopVars, ctx, errs>>

\* db-resume-user and db-forget-user on the command line, at any time
ResumeUser ==
  /\ status # "none"
  /\ streak' = 0 /\ failSince' = "null"
  /\ UNCHANGED <<pc, connVars, loopVars, ctx, errs, status>>

ForgetUser ==
  /\ status' = "none" /\ streak' = 0 /\ failSince' = "null"
  /\ UNCHANGED <<pc, connVars, loopVars, ctx, errs>>

Run == Connect \/ Backoff \/ ResolveFolders \/ NextPair \/ SyncPairCall
         \/ Reconnect \/ Finish \/ PersistStatus

Next == Start \/ Cancel \/ Run \/ ResumeUser \/ ForgetUser

Spec == Init /\ [][Next]_vars

\* Every call ends: I/O timeouts, bounded back-off
FairSpec == Spec /\ WF_vars(Run)

-----------------------------------------------------------------------------
TypeOK ==
  /\ pc \in {"idle", "dial", "backoff", "resolve", "next", "sync",
             "reconnect", "finish", "persist"}
  /\ ds \in Side
  /\ tries \in 0..(attempts - 1)
  /\ conn \subseteq Side /\ local \subseteq {"a"}
  /\ live \in [Side -> Nat]
  /\ pair \in 0..NPairs
  /\ again \in 0..1 /\ ctx \in {"live", "done"} /\ errs \in 0..1
  /\ synced \subseteq 1..NPairs
  /\ asked \in [1..NPairs -> Nat]
  /\ status \in {"none", "ok", "error"}
  /\ streak \in 0..StreakCap
  /\ failSince \in {"null", "set"}

(***************************************************************************)
(* Every connection that was opened is closed exactly once: none is left   *)
(* when the run is recorded, none is closed twice or replaced while open,  *)
(* and syncPair only ever runs with both (connect, reconnect, close).      *)
(***************************************************************************)
NoConnectionLeak ==
  /\ pc \in {"idle", "persist"} => live = [s \in Side |-> 0]
  /\ pc \in {"resolve", "next", "sync"} => conn = Side
  /\ \A s \in Side : live[s] = IF s \in conn \cup local THEN 1 ELSE 0

(***************************************************************************)
(* A run recorded as "ok" has synchronised every pair, whatever was        *)
(* retried, interrupted or timed out on the way (recordErr, persistStatus).*)
(***************************************************************************)
OkMeansSynced == (pc = "persist" /\ errs = 0) => synced = 1..NPairs

(***************************************************************************)
(* A pair is tried at most twice in a run, the second time only with the   *)
(* first failure on record, and the pairs are taken in their order: none   *)
(* is touched before its turn, whatever reconnects happen on the way.      *)
(***************************************************************************)
OneRetryPerPair ==
  /\ \A p \in 1..NPairs : asked[p] <= 2
  /\ \A p \in 1..NPairs : asked[p] = 2 => errs = 1
  /\ \A p \in 1..NPairs : p > pair => asked[p] = 0

(***************************************************************************)
(* The streak that stops a user and the time it began agree, and a user    *)
(* whose last run was clean has none (RecordRun, ResumeUser, ForgetUser).  *)
(***************************************************************************)
StreakConsistent ==
  /\ (streak > 0) <=> (failSince = "set")
  /\ status \in {"ok", "none"} => streak = 0

(***************************************************************************)
(* SyncUser always returns, so a worker is never lost to a user.           *)
(***************************************************************************)
RunReturns == (pc # "idle") ~> (pc = "idle")
=============================================================================
