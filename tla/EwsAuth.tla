------------------------------ MODULE EwsAuth -------------------------------
(***************************************************************************)
(* The OAuth2 token that all connections to one EWS server share           *)
(* (internal/endpoint/ews_auth.go oauthAuth) and the request loop around   *)
(* it (internal/endpoint/ews.go call, post).  Several workers call at      *)
(* once; the server may revoke what it has issued at any moment, and the   *)
(* cached expiry passes at any moment.  Tokens are numbered as issued.     *)
(***************************************************************************)
EXTENDS Naturals

CONSTANTS
  Caller,      \* workers with a request to the same server
  MaxRevoke,   \* how often the server revokes the tokens it has issued
  MaxExpire,   \* how often a cached token reaches its expiry
  NoCaller

ASSUME EwsAuthAssumption ==
  /\ MaxRevoke \in Nat /\ MaxExpire \in Nat
  /\ NoCaller \notin Caller

VARIABLES
  tok,      \* a.tok, 0 for ""
  exp,      \* a.exp: "future" or "past"
  mu,       \* who holds a.mu across a fetch
  pc,       \* each caller: "idle", "token", "fetch", "post", "reject", "done"
  attempt,  \* call's loop counter
  used,     \* the token in the request's Authorization header
  result,   \* what call returned: "none", "ok", "401", "error"
  refused,  \* the token that the first attempt was refused with, 0 if none
  issued,   \* tokens the authority has issued
  revoked,  \* tokens 1..revoked are no longer accepted
  revokes,  \* how often that happened
  expires   \* how often the expiry has passed

vars == <<tok, exp, mu, pc, attempt, used, result, refused, issued, revoked, revokes, expires>>
serverVars == <<issued, revoked, revokes, expires>>

Init ==
  /\ tok = 0 /\ exp = "future" /\ mu = NoCaller
  /\ pc = [c \in Caller |-> "idle"]
  /\ attempt = [c \in Caller |-> 0]
  /\ used = [c \in Caller |-> 0]
  /\ result = [c \in Caller |-> "none"]
  /\ refused = [c \in Caller |-> 0]
  /\ issued = 0 /\ revoked = 0 /\ revokes = 0 /\ expires = 0

Revoke ==
  /\ revokes < MaxRevoke /\ revoked < issued
  /\ revoked' = issued /\ revokes' = revokes + 1
  /\ UNCHANGED <<tok, exp, mu, pc, attempt, used, result, refused, issued, expires>>

Expire ==
  /\ expires < MaxExpire /\ tok # 0 /\ exp = "future"
  /\ exp' = "past" /\ expires' = expires + 1
  /\ UNCHANGED <<tok, mu, pc, attempt, used, result, refused, issued, revoked, revokes>>

Goto(c, l) == pc' = [pc EXCEPT ![c] = l]

\* call
Call(c) ==
  /\ pc[c] \in {"idle", "done"}
  /\ Goto(c, "token")
  /\ attempt' = [attempt EXCEPT ![c] = 0]
  /\ used' = [used EXCEPT ![c] = 0]
  /\ result' = [result EXCEPT ![c] = "none"]
  /\ refused' = [refused EXCEPT ![c] = 0]
  /\ UNCHANGED <<tok, exp, mu, serverVars>>

\* token, under the mutex: the cached one, or hold the mutex and fetch
Token(c) ==
  /\ pc[c] = "token" /\ mu = NoCaller
  /\ IF tok # 0 /\ exp = "future"
     THEN /\ used' = [used EXCEPT ![c] = tok]
          /\ Goto(c, "post")
          /\ UNCHANGED mu
     ELSE /\ mu' = c
          /\ Goto(c, "fetch")
          /\ UNCHANGED used
  /\ UNCHANGED <<tok, exp, attempt, result, refused, serverVars>>

\* fetch returns a token; the expiry it sets is in the future
Fetch(c) ==
  /\ pc[c] = "fetch"
  /\ issued' = issued + 1
  /\ tok' = issued'
  /\ exp' = "future"
  /\ used' = [used EXCEPT ![c] = issued']
  /\ mu' = NoCaller
  /\ Goto(c, "post")
  /\ UNCHANGED <<attempt, result, refused, revoked, revokes, expires>>

\* Mutant: the error path leaves the mutex locked
FailedLocked(c) ==
  /\ pc[c] \in {"fetch", "post"}
  /\ result' = [result EXCEPT ![c] = "error"]
  /\ Goto(c, "done")
  /\ UNCHANGED <<tok, exp, mu, attempt, used, refused, serverVars>>

\* fetch fails, or the request itself: call returns that error
Failed(c) ==
  /\ pc[c] \in {"fetch", "post"}
  /\ mu' = IF mu = c THEN NoCaller ELSE mu
  /\ result' = [result EXCEPT ![c] = "error"]
  /\ Goto(c, "done")
  /\ UNCHANGED <<tok, exp, attempt, used, refused, serverVars>>

\* post: the server looks at the token when the request arrives
Post(c) ==
  /\ pc[c] = "post"
  /\ IF used[c] > revoked
     THEN Goto(c, "done") /\ result' = [result EXCEPT ![c] = "ok"]
     ELSE Goto(c, "reject") /\ UNCHANGED result
  /\ UNCHANGED <<tok, exp, mu, attempt, used, refused, serverVars>>

\* Mutant: whatever is cached is dropped
retryAlways(c) == tok # 0

\* rejected says "retry once" if the request carried the token that is cached
retry(c) == tok # 0 /\ tok = used[c]

\* Mutant: the refused token stays cached
RejectedKeeps(c) ==
  /\ pc[c] = "reject" /\ mu = NoCaller
  /\ refused' = [refused EXCEPT ![c] = used[c]]
  /\ IF retry(c) /\ attempt[c] = 0
     THEN /\ attempt' = [attempt EXCEPT ![c] = 1]
          /\ Goto(c, "token")
          /\ UNCHANGED result
     ELSE /\ result' = [result EXCEPT ![c] = "401"]
          /\ Goto(c, "done")
          /\ UNCHANGED attempt
  /\ UNCHANGED <<tok, exp, mu, used, serverVars>>

\* HTTP 401: rejected, and call's decision about another attempt
Rejected(c) ==
  /\ pc[c] = "reject" /\ mu = NoCaller
  /\ tok' = IF retry(c) THEN 0 ELSE tok
  /\ refused' = [refused EXCEPT ![c] = used[c]]
  /\ IF retry(c) /\ attempt[c] = 0
     THEN /\ attempt' = [attempt EXCEPT ![c] = 1]
          /\ Goto(c, "token")
          /\ UNCHANGED result
     ELSE /\ result' = [result EXCEPT ![c] = "401"]
          /\ Goto(c, "done")
          /\ UNCHANGED attempt
  /\ UNCHANGED <<exp, mu, used, serverVars>>

Step(c) == Token(c) \/ Fetch(c) \/ Failed(c) \/ Post(c) \/ Rejected(c)

Next == Revoke \/ Expire \/ \E c \in Caller : Call(c) \/ Step(c)

Spec == Init /\ [][Next]_vars

\* Requests and fetches end by their timeouts; a mutex is handed on eventually
FairSpec == Spec /\ \A c \in Caller : WF_vars(Step(c)) /\ SF_vars(Token(c)) /\ SF_vars(Rejected(c))

-----------------------------------------------------------------------------
TypeOK ==
  /\ tok \in 0..issued /\ exp \in {"future", "past"}
  /\ mu \in Caller \cup {NoCaller}
  /\ pc \in [Caller -> {"idle", "token", "fetch", "post", "reject", "done"}]
  /\ attempt \in [Caller -> 0..1]
  /\ used \in [Caller -> 0..issued]
  /\ result \in [Caller -> {"none", "ok", "401", "error"}]
  /\ refused \in [Caller -> 0..issued]
  /\ issued \in Nat /\ revoked \in 0..issued
  /\ revokes \in 0..MaxRevoke /\ expires \in 0..MaxExpire

(***************************************************************************)
(* However many workers are refused with one revoked token, it is dropped  *)
(* and replaced once: a token is only fetched for a first use, after a     *)
(* revocation or after an expiry (rejected's comparison with the token the *)
(* request carried).                                                       *)
(***************************************************************************)
NoStampede == issued <= 1 + revokes + expires

(***************************************************************************)
(* The second attempt of a call never carries the token the first one was  *)
(* refused with, although other callers read, drop and replace the cached  *)
(* token between the two.                                                  *)
(***************************************************************************)
FreshRetry == \A c \in Caller : (pc[c] = "post" /\ attempt[c] = 1) => used[c] > refused[c]

(***************************************************************************)
(* A token that is cached is the newest one issued, so a fetch that was    *)
(* waiting never puts an older one back.                                   *)
(***************************************************************************)
CachedIsNewest == tok \in {0, issued} /\ (mu # NoCaller => pc[mu] = "fetch")

(***************************************************************************)
(* Every call returns: nobody waits for the mutex for ever.                *)
(***************************************************************************)
CallReturns == \A c \in Caller : (pc[c] = "token") ~> (pc[c] = "done")

(***************************************************************************)
(* The README: a token rejected early is dropped and refetched once, so a  *)
(* call fails with 401 only if its retry was refused as well.  Not true of *)
(* the code: rejected gives no retry to a caller whose token another one   *)
(* has dropped already.                                                    *)
(***************************************************************************)
RevokedIsRetried == \A c \in Caller : result[c] = "401" => attempt[c] = 1
=============================================================================
