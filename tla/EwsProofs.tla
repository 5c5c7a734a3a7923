----------------------------- MODULE EwsProofs ------------------------------
(***************************************************************************)
(* Proofs about the EWS endpoint.  First its OAuth2 token (EwsAuth), for   *)
(* any number of callers, revocations and expiries; then its folders       *)
(* (EwsFolder), for any folders, names, page and batch sizes, arrivals and *)
(* removals.                                                               *)
(***************************************************************************)
EXTENDS EwsAuth, EwsFolder, TLAPS, FiniteSetTheorems, WellFoundedInduction

\* The mutex is held exactly by the caller that is in fetch
Locked == \A c \in Caller : pc[c] = "fetch" <=> mu = c

\* A caller fetches only because nothing usable is cached
FetchNeeded == \A c \in Caller : pc[c] = "fetch" => tok = 0 \/ exp = "past"

\* A refusal is about a token that really was revoked
RefusedRightly == \A c \in Caller : pc[c] = "reject" => used[c] <= revoked

(***************************************************************************)
(* The account behind NoStampede: every token but a usable one that is     *)
(* cached has been paid for by a revocation or an expiry.                  *)
(***************************************************************************)
Usable == tok = issued /\ tok > revoked /\ exp = "future"
Paid == issued <= revokes + expires + (IF Usable THEN 1 ELSE 0)

\* Between a refusal and the second attempt the refused token does not come back
Dropped == \A c \in Caller :
  attempt[c] = 1 =>
    /\ pc[c] \in {"token", "fetch"} => tok = 0 \/ tok > refused[c]
    /\ pc[c] = "post" => used[c] > refused[c]

AuthInv ==
  /\ TypeOK
  /\ tok \in {0, issued}
  /\ Locked /\ FetchNeeded /\ RefusedRightly /\ Paid /\ Dropped

-----------------------------------------------------------------------------
\* Nothing is cached, issued or locked at the start
LEMMA AuthInvInit == Init => AuthInv
  BY EwsAuthAssumption DEF Init, AuthInv, TypeOK, Locked, FetchNeeded, RefusedRightly, Paid, Usable, Dropped

\* The server's steps change only what a token is worth
LEMMA ServerStep == AuthInv /\ (Revoke \/ Expire) => AuthInv'
<1> SUFFICES ASSUME AuthInv, Revoke \/ Expire PROVE AuthInv'
  OBVIOUS
<1> USE EwsAuthAssumption DEF AuthInv, TypeOK, Locked, FetchNeeded, RefusedRightly, Dropped
<1>1. CASE Revoke
  BY <1>1 DEF Revoke, Paid, Usable
<1>2. CASE Expire
  BY <1>2 DEF Expire, Paid, Usable
<1> QED
  BY <1>1, <1>2

\* One caller's step, with the others anywhere
LEMMA CallerStep ==
  ASSUME AuthInv, NEW c \in Caller, Call(c) \/ Step(c)
  PROVE  AuthInv'
<1> USE EwsAuthAssumption DEF AuthInv, TypeOK, Locked, FetchNeeded, RefusedRightly, Dropped, Goto, serverVars
<1>1. CASE Call(c)
  BY <1>1 DEF Call, Paid, Usable
<1>2. CASE Token(c)
  BY <1>2 DEF Token, Paid, Usable
<1>3. CASE Fetch(c)
  BY <1>3 DEF Fetch, Paid, Usable
<1>4. CASE Failed(c)
  BY <1>4 DEF Failed, Paid, Usable
<1>5. CASE Post(c)
  BY <1>5 DEF Post, Paid, Usable
<1>6. CASE Rejected(c)
  BY <1>6 DEF Rejected, retry, Paid, Usable
<1> QED
  BY <1>1, <1>2, <1>3, <1>4, <1>5, <1>6 DEF Step

\* The account holds in every state
THEOREM AuthInvariance == Spec => []AuthInv
<1>1. AuthInv /\ [Next]_vars => AuthInv'
  <2> SUFFICES ASSUME AuthInv, [Next]_vars PROVE AuthInv'
    OBVIOUS
  <2>1. CASE Revoke \/ Expire
    BY <2>1, ServerStep
  <2>2. CASE \E c \in Caller : Call(c) \/ Step(c)
    BY <2>2, CallerStep
  <2>3. CASE UNCHANGED vars
    BY <2>3 DEF vars, AuthInv, TypeOK, Locked, FetchNeeded, RefusedRightly, Paid, Usable, Dropped
  <2> QED
    BY <2>1, <2>2, <2>3 DEF Next
<1> QED
  BY AuthInvInit, <1>1, PTL DEF Spec

(***************************************************************************)
(* However many callers are refused with one revoked token, the token      *)
(* endpoint is asked again once: rejected drops a token only if it is the  *)
(* one the request carried.                                                *)
(***************************************************************************)
THEOREM Stampede == Spec => []NoStampede
<1>1. AuthInv => NoStampede
  BY DEF AuthInv, TypeOK, Paid, NoStampede
<1> QED
  BY AuthInvariance, <1>1, PTL

(***************************************************************************)
(* call's second attempt never carries the token its first one was refused *)
(* with.                                                                   *)
(***************************************************************************)
THEOREM RetryIsFresh == Spec => []FreshRetry
<1>1. AuthInv => FreshRetry
  BY DEF AuthInv, Dropped, FreshRetry
<1> QED
  BY AuthInvariance, <1>1, PTL

(***************************************************************************)
(* What is cached is the newest token, and only a caller that is fetching  *)
(* holds the mutex: no path out of fetch leaves it locked.                 *)
(***************************************************************************)
THEOREM CacheIsNewest == Spec => []CachedIsNewest
<1>1. AuthInv => CachedIsNewest
  BY DEF AuthInv, TypeOK, Locked, CachedIsNewest
<1> QED
  BY AuthInvariance, <1>1, PTL

-----------------------------------------------------------------------------
\* A non-empty set of numbers has a least element
LEMMA LeastExists ==
  ASSUME NEW T \in SUBSET Nat, T # {}
  PROVE  \E x \in T : \A y \in T : x <= y
<1>1. PICK x \in T : \A y \in T : ~(<<y, x>> \in OpToRel(<, Nat))
  BY NatLessThanWellFounded, WFMin
<1>2. \A y \in T : ~(y < x)
  BY <1>1 DEF OpToRel
<1> QED
  BY <1>2

\* The ends of a set of positions are positions of it
LEMMA EndsAreIn ==
  ASSUME NEW n \in Nat, NEW I \in SUBSET (1..n), I # {}
  PROVE  Min(I) \in I /\ Max(I) \in I
<1>1. I \in SUBSET Nat /\ \A i \in I : i <= n
  OBVIOUS
<1>2. Min(I) \in I
  <2>1. \E x \in I : \A y \in I : x <= y
    BY <1>1, LeastExists
  <2> QED
    BY <2>1 DEF Min
<1>3. Max(I) \in I
  <2> DEFINE R == {n - i : i \in I}
  <2>1. \A i \in I : n - i \in Nat
    BY <1>1
  <2>2. R \in SUBSET Nat /\ R # {}
    BY <2>1
  <2>3. PICK d \in R : \A e \in R : d <= e
    <3> HIDE DEF R
    <3> QED
      BY <2>2, LeastExists
  <2>4. PICK x \in I : d = n - x
    OBVIOUS
  <2>5. \A y \in I : n - x <= n - y
    BY <2>3, <2>4
  <2>6. \A y \in I : x >= y
    BY <1>1, <2>5
  <2> QED
    BY <2>6 DEF Max
<1> QED
  BY <1>2, <1>3

\* An answer of FindFolder has every folder in it
LEMMA ListingComplete ==
  ASSUME NEW listing \in SetToSeqs(Folder)
  PROVE  /\ Len(listing) \in Nat /\ \A i \in 1..Len(listing) : listing[i] \in Folder
         /\ \A f \in Folder : \E i \in 1..Len(listing) : listing[i] = f
<1> DEFINE n == Cardinality(Folder)
<1>1. n \in Nat /\ IsFiniteSet(Folder)
  BY EwsFolderAssumption, FS_CardinalityType
<1> HIDE DEF n
<1>2. listing \in [1..n -> Folder] /\ \A i, j \in 1..n : i # j => listing[i] # listing[j]
  BY DEF SetToSeqs, n
<1>3. Len(listing) = n
  BY <1>1, <1>2
<1>4. listing \in Injection(1..n, Folder)
  BY <1>2 DEF Injection, IsInjective
<1>5. Cardinality(1..n) = n
  <2>1. Cardinality(1..n) = IF 1 > n THEN 0 ELSE n - 1 + 1
    BY <1>1, FS_Interval
  <2> QED
    BY <1>1, <2>1
<1>6. listing \in Surjection(1..n, Folder)
  BY <1>1, <1>4, <1>5, FS_Injection DEF n
<1> QED
  BY <1>1, <1>2, <1>3, <1>6 DEF Surjection

(***************************************************************************)
(* findFolder's one loop over the answer finds a folder that the name      *)
(* stands for, in whatever order the folders are in it.                    *)
(***************************************************************************)
LEMMA FindFolderMeant ==
  ASSUME NEW listing \in SetToSeqs(Folder), NEW n \in Name, Fold[n] \notin ewsDistinguished,
         findFolder(listing, n) # 0
  PROVE  listing[findFolder(listing, n)] \in Meant(n) /\ listing[findFolder(listing, n)] \in Folder
<1> DEFINE X == {i \in 1..Len(listing) : display[listing[i]] = n}
           Y == {i \in 1..Len(listing) : Fold[display[listing[i]]] = Fold[n]}
           k == findFolder(listing, n)
<1>1. k = IF X # {} THEN IF Min(X) # 0 THEN Min(X) ELSE IF Y # {} THEN Max(Y) ELSE 0
          ELSE IF Y # {} THEN Max(Y) ELSE 0
  BY DEF findFolder, SelectInSeq, SelectLastInSeq
<1>2. X \in SUBSET (1..Len(listing)) /\ Y \in SUBSET (1..Len(listing))
  OBVIOUS
<1>3. /\ \A i \in X : i \in 1..Len(listing) /\ display[listing[i]] = n
      /\ \A i \in Y : i \in 1..Len(listing) /\ Fold[display[listing[i]]] = Fold[n]
  OBVIOUS
<1>4. X = {} => \A f \in Folder : display[f] # n
  BY ListingComplete
<1>5. k # 0
  OBVIOUS
<1> HIDE DEF X, Y, k
<1>6. CASE X # {}
  <2>1. Min(X) \in X
    BY <1>2, <1>6, ListingComplete, EndsAreIn
  <2>2. k \in X
    BY <1>1, <1>3, <1>6, <2>1
  <2>3. listing[k] \in {f \in Folder : display[f] = n}
    BY <1>3, <2>2, ListingComplete
  <2> QED
    BY <2>3 DEF Meant, k
<1>7. CASE X = {}
  <2>1. Y # {} /\ k = Max(Y)
    BY <1>1, <1>5, <1>7
  <2>2. k \in Y
    BY <1>2, <2>1, ListingComplete, EndsAreIn
  <2>3. listing[k] \in {f \in Folder : Fold[display[f]] = Fold[n]}
    BY <1>3, <2>2, ListingComplete
  <2>4. {f \in Folder : display[f] = n} = {}
    BY <1>4, <1>7
  <2> QED
    BY <2>3, <2>4 DEF Meant, k
<1> QED
  BY <1>6, <1>7

-----------------------------------------------------------------------------
\* Facts about lists of IDs

\* What is in a list
LEMMA RangeIs ==
  ASSUME NEW s \in Seq(Nat), NEW x
  PROVE  x \in Range(s) <=> \E k \in 1..Len(s) : s[k] = x
  BY DEF Range

\* The entries of two lists in a row
LEMMA Joined ==
  ASSUME NEW s \in Seq(Nat), NEW t \in Seq(Nat)
  PROVE  /\ s \o t \in Seq(Nat) /\ Len(s) \in Nat /\ Len(t) \in Nat /\ Len(s \o t) = Len(s) + Len(t)
         /\ \A k \in 1..Len(s) : (s \o t)[k] = s[k]
         /\ \A k \in 1..Len(t) : (s \o t)[Len(s) + k] = t[k]
         /\ \A k \in 1..(Len(s) + Len(t)) :
              (s \o t)[k] = IF k <= Len(s) THEN s[k] ELSE t[k - Len(s)]
  OBVIOUS

\* The entries of a part of a list
LEMMA Part ==
  ASSUME NEW s \in Seq(Nat), NEW m \in Nat, NEW n \in Nat, m <= Len(s), n <= Len(s)
  PROVE  /\ SubSeq(s, m + 1, n) \in Seq(Nat)
         /\ Len(SubSeq(s, m + 1, n)) = IF m < n THEN n - m ELSE 0
         /\ m < n => \A k \in 1..(n - m) : SubSeq(s, m + 1, n)[k] = s[m + k]
  BY SMTT(30)

\* The server puts a message at either end of a list
LEMMA PutAtEnd ==
  ASSUME NEW s \in Seq(Nat), NEW x \in Nat, NEW t \in {<<x>> \o s, Append(s, x)}
  PROVE  /\ t \in Seq(Nat) /\ Len(t) = Len(s) + 1
         /\ \/ t[1] = x /\ \A k \in 1..Len(s) : t[k + 1] = s[k]
            \/ t[Len(s) + 1] = x /\ \A k \in 1..Len(s) : t[k] = s[k]
<1>1. CASE t = <<x>> \o s
  <2>1. <<x>> \in Seq(Nat) /\ Len(<<x>>) = 1 /\ <<x>>[1] = x /\ Len(s) \in Nat
    OBVIOUS
  <2>2. /\ t \in Seq(Nat) /\ Len(t) = 1 + Len(s)
        /\ \A k \in 1..1 : t[k] = <<x>>[k]
        /\ \A k \in 1..Len(s) : t[1 + k] = s[k]
    BY <1>1, <2>1, Joined
  <2> QED
    BY <2>1, <2>2
<1>2. CASE t = Append(s, x)
  BY <1>2
<1> QED
  BY <1>1, <1>2

\* A list without its k-th entry
LEMMA TakenOut ==
  ASSUME NEW s \in Seq(Nat), NEW k \in 1..Len(s)
  PROVE  /\ RemoveAt(s, k) \in Seq(Nat) /\ Len(s) \in Nat /\ Len(RemoveAt(s, k)) = Len(s) - 1
         /\ \A j \in 1..(Len(s) - 1) : RemoveAt(s, k)[j] = IF j < k THEN s[j] ELSE s[j + 1]
<1> DEFINE a == SubSeq(s, 1, k - 1)
           b == SubSeq(s, k + 1, Len(s))
<1>1. Len(s) \in Nat /\ k \in Nat /\ k - 1 \in Nat /\ k <= Len(s)
  OBVIOUS
<1>2. a \in Seq(Nat) /\ Len(a) = k - 1 /\ \A j \in 1..(k - 1) : a[j] = s[j]
  <2>1. /\ SubSeq(s, 0 + 1, k - 1) \in Seq(Nat)
        /\ Len(SubSeq(s, 0 + 1, k - 1)) = IF 0 < k - 1 THEN k - 1 - 0 ELSE 0
        /\ 0 < k - 1 => \A j \in 1..(k - 1 - 0) : SubSeq(s, 0 + 1, k - 1)[j] = s[0 + j]
    BY <1>1, Part
  <2> QED
    BY <1>1, <2>1
<1>3. b \in Seq(Nat) /\ Len(b) = Len(s) - k /\ \A j \in 1..(Len(s) - k) : b[j] = s[k + j]
  BY <1>1, Part
<1> HIDE DEF a, b
<1>4. /\ a \o b \in Seq(Nat) /\ Len(a \o b) = Len(s) - 1
      /\ \A j \in 1..(Len(s) - 1) : (a \o b)[j] = IF j <= k - 1 THEN a[j] ELSE b[j - (k - 1)]
  <2>1. /\ a \o b \in Seq(Nat) /\ Len(a \o b) = Len(a) + Len(b)
        /\ \A j \in 1..(Len(a) + Len(b)) : (a \o b)[j] = IF j <= Len(a) THEN a[j] ELSE b[j - Len(a)]
    BY <1>2, <1>3, Joined
  <2>2. Len(a) + Len(b) = Len(s) - 1
    BY <1>1, <1>2, <1>3
  <2> QED
    BY <1>2, <2>1, <2>2, Zenon
<1>5. RemoveAt(s, k) = a \o b
  BY DEF RemoveAt, a, b
<1> DEFINE d == a \o b
<1>6. /\ d \in Seq(Nat) /\ Len(d) = Len(s) - 1 /\ RemoveAt(s, k) = d
      /\ \A j \in 1..(Len(s) - 1) : d[j] = IF j <= k - 1 THEN a[j] ELSE b[j - (k - 1)]
  BY <1>4, <1>5, Zenon
<1> HIDE DEF d
<1>7. ASSUME NEW j \in 1..(Len(s) - 1) PROVE d[j] = IF j < k THEN s[j] ELSE s[j + 1]
  <2>1. CASE j < k
    BY <1>1, <1>2, <1>6, <2>1
  <2>2. CASE ~(j < k)
    <3>1. j - (k - 1) \in 1..(Len(s) - k) /\ k + (j - (k - 1)) = j + 1
      BY <1>1, <2>2
    <3>2. ~(j <= k - 1)
      BY <1>1, <2>2
    <3>3. d[j] = b[j - (k - 1)]
      BY <1>6, <3>2
    <3>4. b[j - (k - 1)] = s[k + (j - (k - 1))]
      BY <1>3, <3>1
    <3> QED
      BY <2>2, <3>1, <3>3, <3>4
  <2> QED
    BY <2>1, <2>2
<1> QED
  BY <1>1, <1>6, <1>7

\* A batch after the batches so far
LEMMA BatchAfterBatch ==
  ASSUME NEW s \in Seq(Nat), NEW m \in Nat, NEW n \in Nat, m <= n, n <= Len(s)
  PROVE  SubSeq(s, 1, m) \o SubSeq(s, m + 1, n) = SubSeq(s, 1, n)
<1> DEFINE a == SubSeq(s, 1, m)
           b == SubSeq(s, m + 1, n)
           c == SubSeq(s, 1, n)
<1>0. Len(s) \in Nat /\ m <= Len(s)
  OBVIOUS
<1>1. a \in Seq(Nat) /\ Len(a) = m /\ \A j \in 1..m : a[j] = s[j]
  OBVIOUS
<1>2. c \in Seq(Nat) /\ Len(c) = n /\ \A j \in 1..n : c[j] = s[j]
  OBVIOUS
<1>3. b \in Seq(Nat) /\ Len(b) = n - m /\ \A j \in 1..(n - m) : b[j] = s[m + j]
  BY <1>0, Part
<1> HIDE DEF a, b, c
<1>4. /\ a \o b \in Seq(Nat) /\ Len(a \o b) = n
      /\ \A j \in 1..n : (a \o b)[j] = IF j <= m THEN a[j] ELSE b[j - m]
  <2>1. /\ a \o b \in Seq(Nat) /\ Len(a \o b) = Len(a) + Len(b)
        /\ \A j \in 1..(Len(a) + Len(b)) : (a \o b)[j] = IF j <= Len(a) THEN a[j] ELSE b[j - Len(a)]
    BY <1>1, <1>3, Joined
  <2>2. Len(a) + Len(b) = n
    BY <1>1, <1>3
  <2> QED
    BY <1>1, <2>1, <2>2, Zenon
<1> DEFINE d == a \o b
<1>5. /\ d \in Seq(Nat) /\ Len(d) = n
      /\ \A j \in 1..n : d[j] = IF j <= m THEN a[j] ELSE b[j - m]
  BY <1>4, Zenon
<1> HIDE DEF d
<1>6. ASSUME NEW j \in 1..n PROVE d[j] = c[j]
  <2>1. CASE j <= m
    <3>1. j \in 1..m
      BY <2>1
    <3>2. d[j] = a[j]
      BY <1>5, <2>1
    <3> QED
      BY <1>1, <1>2, <3>1, <3>2
  <2>2. CASE ~(j <= m)
    <3>1. j - m \in 1..(n - m) /\ m + (j - m) = j
      BY <2>2
    <3> QED
      BY <1>2, <1>3, <1>5, <2>2, <3>1
  <2> QED
    BY <2>1, <2>2
<1>7. d = c
  BY <1>2, <1>5, <1>6
<1> QED
  BY <1>7 DEF a, b, c, d

-----------------------------------------------------------------------------
(***************************************************************************)
(* The invariant of the endpoint's calls.                                  *)
(***************************************************************************)

\* The folders hold numbered messages, each once
ItemsTyped ==
  /\ items \in [Place -> Seq(Nat)] /\ arrived \in Nat /\ arrived <= MaxItem
  /\ \A p \in Place :
       /\ Len(items[p]) <= arrived
       /\ \A k \in 1..Len(items[p]) : items[p][k] \in 1..arrived
       /\ \A j, k \in 1..Len(items[p]) : items[p][j] = items[p][k] => j = k

CallsTyped ==
  /\ display \in [Folder -> {"Box", "box"}] /\ removed \in 0..MaxRemove
  /\ phase \in {"idle", "ready", "list", "listed", "fetch", "fetched", "error"}
  /\ place \in Place /\ named \subseteq Place /\ left \in BOOLEAN
  /\ offset \in 0..OffsetCap /\ start \in Nat
  /\ ids \in Seq(Nat) /\ meta \in Seq(Nat)
  /\ steady \subseteq 1..arrived
  /\ \A k \in 1..Len(ids) : ids[k] \in 1..arrived

\* The loop variables of FetchMeta: what has come back is a beginning of what was asked for
Fetching ==
  /\ phase \in {"idle", "ready", "list", "listed", "error"} => start = 0 /\ meta = <<>>
  /\ phase = "ready" => offset = 0 /\ ids = <<>>
  /\ phase = "fetch" => meta = SubSeq(ids, 1, AtMost(start, Len(ids)))
  /\ phase = "fetched" => meta = ids
  /\ start < Len(ids) + Batch

\* The pages so far have every message that stayed and is before the offset now
Paging ==
  (phase = "list" /\ ~left) =>
    /\ steady \subseteq Range(items[place])
    /\ \A k \in 1..Len(items[place]) :
         items[place][k] \in steady => k > offset \/ items[place][k] \in Range(ids)

\* The folder is one that the name stands for
Selected == phase \in {"ready", "list", "listed", "fetch", "fetched"} => place \in named

Complete == (phase = "listed" /\ ~left) => steady \subseteq Range(ids)

FolderInv == ItemsTyped /\ CallsTyped /\ Fetching /\ Paging /\ Selected /\ Complete

\* Before the first pair the folders hold what they hold, and no call is under way
LEMMA FolderInvInit == FolderInit => FolderInv
<1> SUFFICES ASSUME FolderInit PROVE FolderInv
  OBVIOUS
<1>1. ItemsTyped
  <2>1. PICK p \in Place : items = [q \in Place |-> IF q = p THEN <<1, 2>> ELSE <<>>]
    BY DEF FolderInit
  <2>2. \A q \in Place : items[q] = <<1, 2>> \/ items[q] = <<>>
    BY <2>1
  <2>3. /\ <<1, 2>> \in Seq(Nat) /\ Len(<<1, 2>>) = 2 /\ <<1, 2>>[1] = 1 /\ <<1, 2>>[2] = 2
        /\ <<>> \in Seq(Nat) /\ Len(<<>>) = 0
    OBVIOUS
  <2>4. \A k \in 1..2 : k = 1 \/ k = 2
    OBVIOUS
  <2>5. items \in [Place -> Seq(Nat)]
    BY <2>1, <2>3
  <2>6. arrived = 2 /\ 2 <= MaxItem
    BY EwsFolderAssumption DEF FolderInit
  <2>7. ASSUME NEW q \in Place
        PROVE  /\ Len(items[q]) <= arrived
               /\ \A k \in 1..Len(items[q]) : items[q][k] \in 1..arrived
               /\ \A j, k \in 1..Len(items[q]) : items[q][j] = items[q][k] => j = k
    <3>1. CASE items[q] = <<1, 2>>
      <4>1. Len(items[q]) = 2 /\ items[q][1] = 1 /\ items[q][2] = 2
        BY <2>3, <3>1
      <4>2. \A k \in 1..Len(items[q]) : k = 1 \/ k = 2
        BY <2>4, <4>1
      <4>3. \A k \in 1..Len(items[q]) : items[q][k] = k
        BY <4>1, <4>2
      <4> QED
        BY <2>6, <4>1, <4>2, <4>3
    <3>2. CASE items[q] = <<>>
      <4>1. Len(items[q]) = 0
        BY <2>3, <3>2
      <4> QED
        BY <2>6, <4>1
    <3> QED
      BY <2>2, <3>1, <3>2
  <2> QED
    BY <2>5, <2>6, <2>7 DEF ItemsTyped
<1>2. CallsTyped
  <2>1. 0 \in 0..OffsetCap /\ 0 \in 0..MaxRemove
    BY EwsFolderAssumption DEF OffsetCap
  <2>2. <<>> \in Seq(Nat) /\ Len(<<>>) = 0
    OBVIOUS
  <2>3. ids = <<>> /\ meta = <<>> /\ offset = 0 /\ start = 0 /\ removed = 0 /\ place = "inbox"
    BY DEF FolderInit
  <2>4. \A k \in 1..Len(ids) : FALSE
    BY <2>2, <2>3
  <2>5. left \in BOOLEAN
    BY Zenon DEF FolderInit
  <2>6. /\ display \in [Folder -> {"Box", "box"}] /\ phase = "idle"
        /\ named \subseteq Place /\ steady \subseteq 1..arrived /\ place \in Place
    BY DEF FolderInit, Place
  <2>7. removed \in 0..MaxRemove /\ offset \in 0..OffsetCap /\ start \in Nat /\ ids \in Seq(Nat) /\ meta \in Seq(Nat)
    BY <2>1, <2>2, <2>3
  <2> QED
    BY <2>4, <2>5, <2>6, <2>7 DEF CallsTyped
<1>3. Fetching /\ Paging /\ Selected /\ Complete
  BY EwsFolderAssumption DEF FolderInit, Fetching, Paging, Selected, Complete
<1> QED
  BY <1>1, <1>2, <1>3 DEF FolderInv

\* A message arrives, or is made by Append
LEMMA AddedKeeps ==
  ASSUME FolderInv, Added,
         UNCHANGED <<display, removed, phase, selectVars, listVars, steady, left>>
  PROVE  FolderInv'
<1> DEFINE s == items[place]
           x == arrived + 1
<1>1. PICK t \in {<<x>> \o s, Append(s, x)} : items' = [items EXCEPT ![place] = t]
  BY DEF Added
<1>2. arrived < MaxItem /\ arrived' = x /\ arrived \in Nat /\ x \in Nat /\ MaxItem \in Nat
  BY EwsFolderAssumption DEF Added, FolderInv, ItemsTyped
<1>3. /\ place \in Place /\ s \in Seq(Nat) /\ Len(s) \in Nat /\ Len(s) <= arrived
      /\ \A k \in 1..Len(s) : s[k] \in 1..arrived
      /\ \A j, k \in 1..Len(s) : s[j] = s[k] => j = k
  BY DEF FolderInv, ItemsTyped, CallsTyped
<1>4. items'[place] = t /\ \A p \in Place \ {place} : items'[p] = items[p]
  BY <1>1, <1>3 DEF FolderInv, ItemsTyped
<1> HIDE DEF s, x
<1>5. /\ t \in Seq(Nat) /\ Len(t) = Len(s) + 1
      /\ \/ t[1] = x /\ \A k \in 1..Len(s) : t[k + 1] = s[k]
         \/ t[Len(s) + 1] = x /\ \A k \in 1..Len(s) : t[k] = s[k]
  BY <1>1, <1>2, <1>3, PutAtEnd
<1>6. x \notin 1..arrived
  BY <1>2 DEF x
\* where an entry was before
<1>7. \A k \in 1..Len(t) : t[k] = x \/ \E j \in 1..Len(s) : t[k] = s[j] /\ (j = k \/ j = k - 1)
  <2>1. SUFFICES ASSUME NEW k \in 1..Len(t)
                 PROVE  t[k] = x \/ \E j \in 1..Len(s) : t[k] = s[j] /\ (j = k \/ j = k - 1)
    OBVIOUS
  <2>2. CASE t[1] = x /\ \A i \in 1..Len(s) : t[i + 1] = s[i]
    <3>1. k = 1 \/ (k - 1 \in 1..Len(s) /\ (k - 1) + 1 = k)
      BY <1>3, <1>5
    <3> QED
      BY <2>2, <3>1
  <2>3. CASE t[Len(s) + 1] = x /\ \A i \in 1..Len(s) : t[i] = s[i]
    <3>1. k = Len(s) + 1 \/ k \in 1..Len(s)
      BY <1>3, <1>5
    <3> QED
      BY <2>3, <3>1
  <2> QED
    BY <1>5, <2>2, <2>3
<1>8. \A k \in 1..Len(s) : \E j \in 1..Len(t) : t[j] = s[k]
  <2>1. \A k \in 1..Len(s) : k \in 1..Len(t) /\ k + 1 \in 1..Len(t)
    BY <1>3, <1>5
  <2> QED
    BY <1>5, <2>1
<1>9. \A k \in 1..Len(t) : t[k] \in 1..arrived'
  BY <1>2, <1>3, <1>7 DEF x
<1>10. \A j, k \in 1..Len(t) : t[j] = t[k] => j = k
  <2>1. CASE t[1] = x /\ \A i \in 1..Len(s) : t[i + 1] = s[i]
    <3>1. \A k \in 1..Len(t) : k = 1 \/ (k - 1 \in 1..Len(s) /\ t[k] = s[k - 1])
      <4>1. \A k \in 1..Len(t) : k = 1 \/ (k - 1 \in 1..Len(s) /\ (k - 1) + 1 = k)
        BY <1>3, <1>5
      <4> QED
        BY <2>1, <4>1
    <3>2. \A k \in 1..Len(t) : t[k] = x => k = 1
      BY <1>3, <1>6, <3>1
    <3>3. \A j, k \in 1..Len(t) : (j # 1 /\ k # 1 /\ t[j] = t[k]) => j - 1 = k - 1
      BY <1>3, <3>1
    <3>4. \A j, k \in 1..Len(t) : j - 1 = k - 1 => j = k
      BY <1>5
    <3> QED
      BY <2>1, <3>2, <3>3, <3>4
  <2>2. CASE t[Len(s) + 1] = x /\ \A i \in 1..Len(s) : t[i] = s[i]
    <3>1. \A k \in 1..Len(t) : k = Len(s) + 1 \/ (k \in 1..Len(s) /\ t[k] = s[k])
      BY <1>3, <1>5, <2>2
    <3> QED
      BY <1>3, <1>5, <1>6, <2>2, <3>1
  <2> QED
    BY <1>5, <2>1, <2>2
<1>11. ItemsTyped'
  <2>1. items' \in [Place -> Seq(Nat)]
    BY <1>1, <1>3, <1>4, <1>5 DEF FolderInv, ItemsTyped
  <2>2. \A p \in Place \ {place} : \A k \in 1..Len(items[p]) : items[p][k] \in 1..arrived'
    BY <1>2 DEF FolderInv, ItemsTyped, x
  <2>3. \A p \in Place \ {place} : Len(items[p]) <= arrived'
    <3>1. \A p \in Place : Len(items[p]) \in Nat /\ Len(items[p]) <= arrived
      BY DEF FolderInv, ItemsTyped
    <3> QED
      BY <1>2, <3>1 DEF x
  <2>4. Len(t) <= arrived' /\ arrived' \in Nat /\ arrived' <= MaxItem
    BY <1>2, <1>3, <1>5 DEF x
  <2>5. ASSUME NEW p \in Place
        PROVE  /\ Len(items'[p]) <= arrived'
               /\ \A k \in 1..Len(items'[p]) : items'[p][k] \in 1..arrived'
               /\ \A j, k \in 1..Len(items'[p]) : items'[p][j] = items'[p][k] => j = k
    <3>1. CASE p = place
      BY <1>4, <1>9, <1>10, <2>4, <3>1
    <3>2. CASE p # place
      BY <1>4, <2>2, <2>3, <3>2 DEF FolderInv, ItemsTyped
    <3> QED
      BY <3>1, <3>2
  <2> QED
    BY <2>1, <2>4, <2>5 DEF ItemsTyped
<1>12. CallsTyped'
  <2>1. 1..arrived \subseteq 1..arrived'
    BY <1>2 DEF x
  <2>2. UNCHANGED <<display, removed, phase, place, named, offset, ids, start, meta, steady, left>>
    BY DEF selectVars, listVars
  <2> QED
    BY <2>1, <2>2 DEF FolderInv, CallsTyped, OffsetCap
<1>13. Fetching' /\ Selected' /\ Complete'
  BY DEF selectVars, listVars, FolderInv, Fetching, Selected, Complete, AtMost
<1>14. Paging'
  <2>1. SUFFICES ASSUME phase = "list", ~left
                 PROVE  /\ steady \subseteq Range(t)
                        /\ \A k \in 1..Len(t) : t[k] \in steady => k > offset \/ t[k] \in Range(ids)
    BY <1>4 DEF Paging, selectVars, listVars
  <2>2. /\ steady \subseteq Range(s) /\ steady \subseteq 1..arrived /\ offset \in Nat
        /\ \A k \in 1..Len(s) : s[k] \in steady => k > offset \/ s[k] \in Range(ids)
    BY <2>1 DEF FolderInv, Paging, CallsTyped, s, OffsetCap
  <2>3. steady \subseteq Range(t)
    BY <1>3, <1>5, <1>8, <2>2, RangeIs, SMTT(30)
  <2>4. ASSUME NEW k \in 1..Len(t), t[k] \in steady PROVE k > offset \/ t[k] \in Range(ids)
    <3>1. PICK j \in 1..Len(s) : t[k] = s[j] /\ (j = k \/ j = k - 1)
      BY <1>6, <1>7, <2>2, <2>4
    <3>2. k >= j /\ k \in Nat /\ j \in Nat
      BY <1>3, <1>5, <3>1
    <3> QED
      BY <2>2, <2>4, <3>1, <3>2
  <2> QED
    BY <2>3, <2>4
<1> QED
  BY <1>11, <1>12, <1>13, <1>14 DEF FolderInv

\* A message leaves: then nothing is claimed of the listing
LEMMA LeaveKeeps ==
  ASSUME FolderInv, Leave
  PROVE  FolderInv'
<1> DEFINE s == items[place]
<1>1. PICK k \in 1..Len(s) :
        /\ items' = [items EXCEPT ![place] = RemoveAt(@, k)]
        /\ steady' = steady \ {s[k]}
  BY DEF Leave
<1>2. UNCHANGED <<display, arrived, phase, place, named, offset, ids, start, meta>>
  BY DEF Leave, selectVars, listVars
<1>3. left' = (phase \in {"list", "listed"}) /\ removed' \in 0..MaxRemove
  BY EwsFolderAssumption DEF Leave, FolderInv, CallsTyped
<1>4. /\ place \in Place /\ s \in Seq(Nat) /\ Len(s) \in Nat /\ Len(s) <= arrived /\ arrived \in Nat
      /\ \A j \in 1..Len(s) : s[j] \in 1..arrived
      /\ \A i, j \in 1..Len(s) : s[i] = s[j] => i = j
  BY DEF FolderInv, ItemsTyped, CallsTyped
<1> DEFINE t == RemoveAt(s, k)
<1>5. items'[place] = t /\ \A p \in Place \ {place} : items'[p] = items[p]
  BY <1>1, <1>4 DEF FolderInv, ItemsTyped
<1>6. /\ t \in Seq(Nat) /\ Len(t) = Len(s) - 1
      /\ \A j \in 1..(Len(s) - 1) : t[j] = IF j < k THEN s[j] ELSE s[j + 1]
  BY <1>4, TakenOut
<1> HIDE DEF s, t
<1>7. \A j \in 1..Len(t) : \E i \in 1..Len(s) : t[j] = s[i] /\ i = (IF j < k THEN j ELSE j + 1)
  <2>1. \A j \in 1..Len(t) : j \in 1..(Len(s) - 1) /\ j \in 1..Len(s) /\ j + 1 \in 1..Len(s)
    BY <1>4, <1>6
  <2> QED
    BY <1>6, <2>1
<1>8. /\ \A j \in 1..Len(t) : t[j] \in 1..arrived
      /\ Len(t) <= arrived
  BY <1>4, <1>6, <1>7, SMTT(30)
<1>9. \A i, j \in 1..Len(t) : t[i] = t[j] => i = j
  <2>1. \A i, j \in 1..Len(t) :
          t[i] = t[j] => (IF i < k THEN i ELSE i + 1) = (IF j < k THEN j ELSE j + 1)
    BY <1>4, <1>7
  <2>2. \A i, j \in Nat : (IF i < k THEN i ELSE i + 1) = (IF j < k THEN j ELSE j + 1) => i = j
    BY <1>4
  <2>3. \A i \in 1..Len(t) : i \in Nat
    BY <1>4, <1>6
  <2> QED
    BY <2>1, <2>2, <2>3
<1>10. ItemsTyped'
  <2>1. items' \in [Place -> Seq(Nat)]
    BY <1>1, <1>4, <1>5, <1>6 DEF FolderInv, ItemsTyped
  <2>2. ASSUME NEW p \in Place
        PROVE  /\ Len(items'[p]) <= arrived
               /\ \A j \in 1..Len(items'[p]) : items'[p][j] \in 1..arrived
               /\ \A i, j \in 1..Len(items'[p]) : items'[p][i] = items'[p][j] => i = j
    <3>1. CASE p = place
      BY <1>5, <1>8, <1>9, <3>1
    <3>2. CASE p # place
      BY <1>5, <3>2 DEF FolderInv, ItemsTyped
    <3> QED
      BY <3>1, <3>2
  <2> QED
    BY <1>2, <2>1, <2>2 DEF FolderInv, ItemsTyped
<1>11. CallsTyped'
  <2>1. left' \in BOOLEAN
    BY <1>3
  <2>2. steady' \subseteq 1..arrived
    BY <1>1 DEF FolderInv, CallsTyped
  <2> QED
    BY <1>2, <1>3, <2>1, <2>2 DEF FolderInv, CallsTyped, OffsetCap
<1>12. Fetching' /\ Selected'
  BY <1>2 DEF FolderInv, Fetching, Selected, AtMost
<1>13. Paging' /\ Complete'
  BY <1>2, <1>3 DEF Paging, Complete
<1> QED
  BY <1>10, <1>11, <1>12, <1>13 DEF FolderInv

\* The items stay as they are, and the locals of a call are new
LEMMA ItemsKept ==
  ASSUME FolderInv, UNCHANGED folderVars
  PROVE  ItemsTyped' /\ UNCHANGED <<display, items, arrived, removed>>
  BY DEF FolderInv, ItemsTyped, folderVars

\* A new pair, or a failed call: every local is as at the begin
LEMMA FreshKeeps ==
  ASSUME FolderInv, UNCHANGED folderVars,
         phase' \in {"ready", "error"}, place' \in Place, named' \subseteq Place,
         phase' = "ready" => place' \in named',
         offset' = 0, ids' = <<>>, start' = 0, meta' = <<>>, steady' = {}, left' = FALSE
  PROVE  FolderInv'
<1>1. ItemsTyped' /\ UNCHANGED <<display, items, arrived, removed>>
  BY ItemsKept
<1>2. <<>> \in Seq(Nat) /\ Len(<<>>) = 0
  OBVIOUS
<1>3. \A k \in 1..Len(ids') : FALSE
  BY <1>2
<1>4. 0 \in 0..OffsetCap
  BY EwsFolderAssumption DEF OffsetCap
<1>5. CallsTyped'
  <2>1. left' \in BOOLEAN
    BY Zenon
  <2>2. offset' \in 0..OffsetCap /\ start' \in Nat /\ ids' \in Seq(Nat) /\ meta' \in Seq(Nat) /\ steady' \subseteq 1..arrived'
    BY <1>2, <1>4
  <2>3. phase' \in {"idle", "ready", "list", "listed", "fetch", "fetched", "error"}
    OBVIOUS
  <2> QED
    BY <1>1, <1>3, <2>1, <2>2, <2>3 DEF FolderInv, CallsTyped, OffsetCap
<1>6. Fetching'
  <2>1. start' < Len(ids') + Batch
    BY <1>2, EwsFolderAssumption
  <2> QED
    BY <2>1 DEF Fetching
<1>7. Paging' /\ Selected' /\ Complete'
  BY DEF Paging, Selected, Complete
<1> QED
  BY <1>1, <1>5, <1>6, <1>7 DEF FolderInv

\* A name stands for places
LEMMA MeantPlaces == \A n \in Name : Meant(n) \subseteq Place
  BY DEF Meant, Place

\* Select opens a folder the name stands for, or fails
LEMMA SelectKeeps ==
  ASSUME FolderInv, Select
  PROVE  FolderInv'
<1>1. PICK n \in Name :
       \/ /\ Fold[n] \in ewsDistinguished
          /\ place' = Fold[n] /\ phase' = "ready" /\ named' = Meant(n)
       \/ /\ Fold[n] \notin ewsDistinguished
          /\ \E listing \in SetToSeqs(Folder) :
               LET k == findFolder(listing, n)
               IN k # 0 /\ place' = listing[k] /\ phase' = "ready" /\ named' = Meant(n)
       \/ Fold[n] \notin ewsDistinguished /\ phase' = "error" /\ UNCHANGED selectVars
  BY DEF Select
<1>2. /\ UNCHANGED folderVars
      /\ offset' = 0 /\ ids' = <<>> /\ start' = 0 /\ meta' = <<>> /\ steady' = {}
  BY DEF Select
<1>3. left' = FALSE
  BY Zenon DEF Select
<1>4. CASE Fold[n] \in ewsDistinguished
  <2>1. place' = "inbox" /\ phase' = "ready" /\ named' = {"inbox"}
    BY <1>1, <1>4 DEF Meant, ewsDistinguished
  <2> QED
    BY <1>2, <1>3, <2>1, FreshKeeps DEF Place
<1>5. CASE Fold[n] \notin ewsDistinguished /\ phase' = "error" /\ UNCHANGED selectVars
  BY <1>2, <1>3, <1>5, FreshKeeps DEF FolderInv, CallsTyped, selectVars
<1>6. CASE /\ Fold[n] \notin ewsDistinguished
           /\ \E listing \in SetToSeqs(Folder) :
                LET k == findFolder(listing, n)
                IN k # 0 /\ place' = listing[k] /\ phase' = "ready" /\ named' = Meant(n)
  <2>1. PICK listing \in SetToSeqs(Folder) :
          /\ findFolder(listing, n) # 0 /\ place' = listing[findFolder(listing, n)]
          /\ phase' = "ready" /\ named' = Meant(n)
    BY <1>6
  <2>2. place' \in Meant(n) /\ place' \in Folder
    BY <1>6, <2>1, FindFolderMeant
  <2> QED
    BY <1>2, <1>3, <2>1, <2>2, MeantPlaces, FreshKeeps DEF Place
<1> QED
  BY <1>1, <1>4, <1>5, <1>6

\* A call that fails gives nothing
LEMMA CallFailedKeeps ==
  ASSUME FolderInv, CallFailed
  PROVE  FolderInv'
<1>1. left' = FALSE
  BY Zenon DEF CallFailed
<1> QED
  BY <1>1, FreshKeeps DEF CallFailed, selectVars, FolderInv, CallsTyped

\* A listing begins: what is there now is what it has to find
LEMMA ListBeginKeeps ==
  ASSUME FolderInv, ListBegin
  PROVE  FolderInv'
<1>1. ItemsTyped' /\ UNCHANGED <<display, items, arrived, removed>>
  BY ItemsKept DEF ListBegin
<1>2. /\ phase = "ready" /\ phase' = "list" /\ steady' = Range(items[place])
      /\ UNCHANGED <<place, named, offset, ids, start, meta>>
  BY DEF ListBegin, selectVars, listVars
<1>3. left' \in BOOLEAN
  BY Zenon DEF ListBegin
<1>4. items[place] \in Seq(Nat) /\ \A k \in 1..Len(items[place]) : items[place][k] \in 1..arrived
  BY DEF FolderInv, ItemsTyped, CallsTyped
<1>5. steady' \subseteq 1..arrived
  BY <1>2, <1>4, RangeIs
<1>6. CallsTyped'
  BY <1>1, <1>2, <1>3, <1>5 DEF FolderInv, CallsTyped, OffsetCap
<1>7. Fetching' /\ Selected' /\ Complete'
  BY <1>2 DEF FolderInv, Fetching, Selected, Complete, AtMost
<1>8. Paging'
  <2>1. offset = 0 /\ \A k \in 1..Len(items[place]) : k > 0
    BY <1>2, <1>4 DEF FolderInv, Fetching
  <2> QED
    BY <1>1, <1>2, <2>1 DEF Paging
<1> QED
  BY <1>1, <1>6, <1>7, <1>8 DEF FolderInv

\* The page that is read
LEMMA PageIs ==
  ASSUME FolderInv
  PROVE  LET s == items[place] IN
         /\ s \in Seq(Nat) /\ Len(s) \in Nat /\ Len(s) <= MaxItem /\ offset \in Nat /\ Batch \in Nat \ {0}
         /\ Page \in Seq(Nat) /\ \A k \in 1..Len(Page) : Page[k] \in 1..arrived
         /\ \A k \in 1..Len(s) : (k > offset /\ k <= offset + Batch) => s[k] \in Range(Page)
         /\ Page = <<>> => Len(s) <= offset
<1> DEFINE s == items[place]
           n == AtMost(offset + Batch, Len(s))
<1>1. /\ s \in Seq(Nat) /\ Len(s) \in Nat /\ Len(s) <= MaxItem
      /\ \A k \in 1..Len(s) : s[k] \in 1..arrived
  BY EwsFolderAssumption DEF FolderInv, ItemsTyped, CallsTyped
<1>2. offset \in Nat /\ Batch \in Nat \ {0}
  BY EwsFolderAssumption DEF FolderInv, CallsTyped
<1> HIDE DEF s
<1>3. n \in Nat /\ n <= Len(s) /\ n <= offset + Batch /\ (n = Len(s) \/ n = offset + Batch)
  BY <1>1, <1>2 DEF AtMost
<1>4. Page = SubSeq(s, offset + 1, n)
  BY DEF Page, s
<1> HIDE DEF n
<1>5. CASE offset < n
  <2>1. /\ Page \in Seq(Nat) /\ Len(Page) = n - offset
        /\ \A k \in 1..(n - offset) : Page[k] = s[offset + k]
    <3>1. offset <= Len(s)
      BY <1>1, <1>2, <1>3, <1>5
    <3> QED
      BY <1>1, <1>2, <1>3, <1>4, <1>5, <3>1, Part
  <2>2. \A k \in 1..Len(Page) : Page[k] \in 1..arrived
    <3>1. \A k \in 1..(n - offset) : offset + k \in 1..Len(s)
      BY <1>1, <1>2, <1>3, <1>5
    <3> QED
      BY <1>1, <2>1, <3>1
  <2>3. ASSUME NEW k \in 1..Len(s), k > offset, k <= offset + Batch PROVE s[k] \in Range(Page)
    <3>1. k - offset \in 1..(n - offset) /\ offset + (k - offset) = k
      BY <1>1, <1>2, <1>3, <2>3
    <3>2. Page[k - offset] = s[k]
      BY <2>1, <3>1
    <3> QED
      BY <2>1, <3>1, <3>2, RangeIs
  <2>4. Page # <<>>
    <3>1. Len(Page) > 0
      BY <1>2, <1>3, <1>5, <2>1
    <3> QED
      BY <3>1
  <2> QED
    BY <1>1, <1>2, <2>1, <2>2, <2>3, <2>4 DEF s
<1>6. CASE ~(offset < n)
  <2>1. Len(s) <= offset /\ n = Len(s)
    BY <1>1, <1>2, <1>3, <1>6
  <2>2. Page = <<>>
    BY <1>1, <1>2, <1>4, <2>1
  <2>3. Page \in Seq(Nat) /\ Len(Page) = 0
    BY <2>2
  <2>4. \A k \in 1..Len(Page) : FALSE
    BY <2>3
  <2>5. \A k \in 1..Len(s) : ~(k > offset)
    BY <1>1, <1>2, <2>1
  <2> QED
    BY <1>1, <1>2, <2>1, <2>3, <2>4, <2>5 DEF s
<1> QED
  BY <1>5, <1>6

\* A page is read: what stayed and has not been listed yet is on a later page
LEMMA ListPageKeeps ==
  ASSUME FolderInv, ListPage
  PROVE  FolderInv'
<1> DEFINE s == items[place]
<1>1. ItemsTyped' /\ UNCHANGED <<display, items, arrived, removed>>
  BY ItemsKept DEF ListPage
<1>2. /\ phase = "list" /\ ids' = ids \o Page /\ UNCHANGED <<place, named, start, meta, steady, left>>
  BY DEF ListPage, selectVars
<1>3. /\ s \in Seq(Nat) /\ Len(s) \in Nat /\ Len(s) <= MaxItem /\ offset \in Nat /\ Batch \in Nat \ {0}
      /\ Page \in Seq(Nat) /\ \A k \in 1..Len(Page) : Page[k] \in 1..arrived
      /\ \A k \in 1..Len(s) : (k > offset /\ k <= offset + Batch) => s[k] \in Range(Page)
      /\ Page = <<>> => Len(s) <= offset
  BY PageIs
<1>4. /\ ids \in Seq(Nat) /\ \A k \in 1..Len(ids) : ids[k] \in 1..arrived
      /\ start = 0 /\ meta = <<>>
  BY <1>2 DEF FolderInv, CallsTyped, Fetching
<1>5. /\ ids' \in Seq(Nat) /\ Len(ids) \in Nat /\ Len(Page) \in Nat /\ Len(ids') = Len(ids) + Len(Page)
      /\ \A k \in 1..Len(ids) : ids'[k] = ids[k]
      /\ \A k \in 1..Len(Page) : ids'[Len(ids) + k] = Page[k]
      /\ \A k \in 1..(Len(ids) + Len(Page)) :
           ids'[k] = IF k <= Len(ids) THEN ids[k] ELSE Page[k - Len(ids)]
  BY <1>2, <1>3, <1>4, Joined
<1>6. \A k \in 1..Len(ids') : ids'[k] \in 1..arrived
  <2>1. ASSUME NEW k \in 1..Len(ids') PROVE k \in 1..Len(ids) \/ (~(k <= Len(ids)) /\ k - Len(ids) \in 1..Len(Page))
    BY <1>5
  <2>2. \A k \in 1..Len(ids') : k <= Len(ids) => k \in 1..Len(ids)
    BY <1>5
  <2> QED
    BY <1>3, <1>4, <1>5, <2>1, <2>2
<1>7. Range(ids) \subseteq Range(ids') /\ Range(Page) \subseteq Range(ids')
  <2>1. \A k \in 1..Len(ids) : k \in 1..Len(ids')
    BY <1>5
  <2>2. \A k \in 1..Len(Page) : Len(ids) + k \in 1..Len(ids')
    BY <1>5
  <2> QED
    <3>1. ASSUME NEW x \in Range(ids) PROVE x \in Range(ids')
      <4>1. PICK k \in 1..Len(ids) : ids[k] = x
        BY <1>4, RangeIs
      <4> QED
        BY <1>5, <2>1, <4>1, RangeIs
    <3>2. ASSUME NEW x \in Range(Page) PROVE x \in Range(ids')
      <4>1. PICK k \in 1..Len(Page) : Page[k] = x
        BY <1>3, RangeIs
      <4> QED
        BY <1>5, <2>2, <4>1, RangeIs
    <3> QED
      BY <3>1, <3>2
<1>8. PICK last \in LastInRange :
        IF EndOfList(last)
        THEN phase' = "listed" /\ offset' = 0
        ELSE offset' = Folded(NextOffset) /\ UNCHANGED phase
  BY DEF ListPage
<1>9. /\ phase' \in {"list", "listed"}
      /\ (phase' = "listed" => offset' = 0 /\ Len(s) <= offset + Batch)
      /\ (phase' = "list" => offset' = Folded(offset + Batch))
  <2>1. CASE Page = <<>>
    BY <1>3, <1>8, <2>1 DEF EndOfList
  <2>2. CASE Page # <<>>
    <3>1. last = (offset + Batch >= Len(s))
      BY <2>2 DEF LastInRange
    <3> QED
      BY <1>2, <1>3, <1>8, <2>2, <3>1 DEF EndOfList, NextOffset
  <2> QED
    BY <2>1, <2>2
<1>10. offset' \in 0..OffsetCap /\ MaxItem \in Nat
  <2>1. offset <= OffsetCap /\ OffsetCap = MaxItem + Batch /\ MaxItem \in Nat
    BY EwsFolderAssumption DEF FolderInv, CallsTyped, OffsetCap
  <2> QED
    BY <1>3, <1>9, <2>1 DEF Folded
<1> HIDE DEF s
<1>11. CallsTyped'
  <2>1. CallsTyped /\ start' = start /\ meta' = meta
    BY <1>2 DEF FolderInv
  <2> QED
    BY <1>1, <1>2, <1>5, <1>6, <1>9, <1>10, <2>1 DEF CallsTyped, OffsetCap
<1>12. Fetching'
  <2>1. 0 < Len(ids') + Batch
    BY <1>3, <1>5
  <2> QED
    BY <1>2, <1>4, <1>9, <2>1 DEF Fetching
<1>13. Selected'
  BY <1>2, <1>9 DEF FolderInv, Selected
\* what stayed and was before the end of this page has been listed
<1>14. ASSUME ~left
       PROVE  /\ steady \subseteq Range(s)
              /\ \A k \in 1..Len(s) : (s[k] \in steady /\ k <= offset + Batch) => s[k] \in Range(ids')
              /\ \A k \in 1..Len(s) : (s[k] \in steady /\ ~(k > offset)) => s[k] \in Range(ids')
  <2>1. /\ steady \subseteq Range(s)
        /\ \A k \in 1..Len(s) : s[k] \in steady => k > offset \/ s[k] \in Range(ids)
    BY <1>2, <1>14 DEF FolderInv, Paging, s
  <2> QED
    BY <1>3, <1>7, <2>1
<1>15. Paging'
  <2>1. SUFFICES ASSUME phase' = "list", ~left
                 PROVE  /\ steady \subseteq Range(s)
                        /\ \A k \in 1..Len(s) : s[k] \in steady => k > offset' \/ s[k] \in Range(ids')
    BY <1>1, <1>2 DEF Paging, s
  <2>2. CASE offset + Batch > OffsetCap
    <3>1. offset > MaxItem
      BY <1>3, <1>10, <2>2 DEF OffsetCap
    <3>2. \A k \in 1..Len(s) : ~(k > offset)
      BY <1>3, <1>10, <3>1
    <3> QED
      BY <1>14, <2>1, <3>2
  <2>3. CASE ~(offset + Batch > OffsetCap)
    <3>1. offset' = offset + Batch
      BY <1>9, <2>1, <2>3 DEF Folded
    <3>2. \A k \in 1..Len(s) : k > offset' \/ k <= offset + Batch
      BY <1>3, <3>1
    <3> QED
      BY <1>14, <2>1, <3>2
  <2> QED
    BY <2>2, <2>3
<1>16. Complete'
  <2>1. SUFFICES ASSUME phase' = "listed", ~left PROVE steady \subseteq Range(ids')
    BY <1>2 DEF Complete
  <2>2. \A k \in 1..Len(s) : k <= offset + Batch
    BY <1>3, <1>9, <2>1 DEF s
  <2>3. ASSUME NEW x \in steady PROVE x \in Range(ids')
    <3>1. PICK k \in 1..Len(s) : s[k] = x
      BY <1>3, <1>14, <2>1, RangeIs DEF s
    <3> QED
      BY <1>14, <2>1, <2>2, <3>1
  <2> QED
    BY <2>3
<1> QED
  BY <1>1, <1>11, <1>12, <1>13, <1>15, <1>16 DEF FolderInv

\* A fetch begins: nothing of what is asked for has been received
LEMMA FetchBeginKeeps ==
  ASSUME FolderInv, FetchBegin
  PROVE  FolderInv'
<1>1. ItemsTyped' /\ UNCHANGED <<display, items, arrived, removed>>
  BY ItemsKept DEF FetchBegin
<1>2. /\ phase = "listed" /\ phase' = "fetch" /\ steady' = {}
      /\ UNCHANGED <<place, named, offset, start, meta>>
      /\ ids' = ids \/ \E k \in 1..Len(ids) : ids' = RemoveAt(ids, k)
  BY DEF FetchBegin, selectVars
<1>3. left' \in BOOLEAN
  BY Zenon DEF FetchBegin
<1>4. ids \in Seq(Nat) /\ Len(ids) \in Nat /\ \A k \in 1..Len(ids) : ids[k] \in 1..arrived
  BY DEF FolderInv, CallsTyped
<1>5. ids' \in Seq(Nat) /\ Len(ids') \in Nat /\ \A k \in 1..Len(ids') : ids'[k] \in 1..arrived
  <2>1. CASE ids' = ids
    BY <1>4, <2>1
  <2>2. ASSUME NEW k \in 1..Len(ids), ids' = RemoveAt(ids, k)
        PROVE  ids' \in Seq(Nat) /\ Len(ids') \in Nat /\ \A j \in 1..Len(ids') : ids'[j] \in 1..arrived
    <3>1. /\ ids' \in Seq(Nat) /\ Len(ids') = Len(ids) - 1
          /\ \A j \in 1..(Len(ids) - 1) : ids'[j] = IF j < k THEN ids[j] ELSE ids[j + 1]
      BY <1>4, <2>2, TakenOut
    <3>2. \A j \in 1..(Len(ids) - 1) : j \in 1..Len(ids) /\ j + 1 \in 1..Len(ids)
      BY <1>4
    <3>3. Len(ids') \in Nat
      BY <1>4, <3>1
    <3>4. \A j \in 1..(Len(ids) - 1) : ids'[j] \in 1..arrived
      BY <1>4, <3>1, <3>2
    <3> QED
      BY <3>1, <3>3, <3>4
  <2> QED
    BY <1>2, <2>1, <2>2
<1>6. CallsTyped'
  BY <1>1, <1>2, <1>3, <1>5 DEF FolderInv, CallsTyped, OffsetCap
<1>7. start = 0 /\ meta = <<>>
  BY <1>2 DEF FolderInv, Fetching
<1>8. Fetching'
  <2>1. AtMost(0, Len(ids')) = 0
    BY <1>5 DEF AtMost
  <2>2. SubSeq(ids', 1, 0) = <<>>
    BY <1>5
  <2>3. 0 < Len(ids') + Batch
    BY <1>5, EwsFolderAssumption
  <2>4. (AtMost(start, Len(ids)))' = AtMost(start', Len(ids'))
    BY DEF AtMost
  <2> QED
    BY <1>2, <1>7, <2>1, <2>2, <2>3, <2>4 DEF Fetching
<1>9. Paging' /\ Selected' /\ Complete'
  BY <1>2 DEF FolderInv, Paging, Selected, Complete
<1> QED
  BY <1>1, <1>6, <1>8, <1>9 DEF FolderInv

\* A batch of a fetch arrives after the batches so far
LEMMA FetchBatchKeeps ==
  ASSUME FolderInv, FetchBatch
  PROVE  FolderInv'
<1>1. ItemsTyped' /\ UNCHANGED <<display, items, arrived, removed>>
  BY ItemsKept DEF FetchBatch
<1>2. phase = "fetch" /\ start < Len(ids) /\ UNCHANGED <<place, named, offset, ids, steady, left>>
  BY DEF FetchBatch, selectVars
<1> DEFINE n == AtMost(start + Batch, Len(ids))
           batch == SubSeq(ids, start + 1, n)
<1>3. \/ meta' = meta \o batch /\ start' = start + Batch /\ phase' = "fetch"
      \/ meta' = <<>> /\ phase' = "error" /\ start' = 0
  BY <1>2 DEF FetchBatch, NextStart
<1>4. ids \in Seq(Nat) /\ Len(ids) \in Nat /\ start \in Nat /\ Batch \in Nat \ {0}
  BY EwsFolderAssumption DEF FolderInv, CallsTyped
<1>5. n \in Nat /\ start <= n /\ n <= Len(ids) /\ AtMost(start, Len(ids)) = start
  BY <1>2, <1>4 DEF AtMost
<1> HIDE DEF n
<1>6. meta = SubSeq(ids, 1, start)
  BY <1>2, <1>5 DEF FolderInv, Fetching
<1>7. meta \o batch = SubSeq(ids, 1, n)
  BY <1>4, <1>5, <1>6, BatchAfterBatch
<1>8. SubSeq(ids, 1, n) \in Seq(Nat) /\ <<>> \in Seq(Nat)
  BY <1>4, <1>5
<1> HIDE DEF batch
<1>9. meta' \in Seq(Nat) /\ start' \in Nat /\ start' < Len(ids) + Batch
  <2>1. CASE meta' = meta \o batch /\ start' = start + Batch
    <3>1. meta' \in Seq(Nat)
      BY <1>7, <1>8, <2>1, Zenon
    <3> QED
      BY <1>2, <1>4, <2>1, <3>1
  <2>2. CASE meta' = <<>> /\ start' = 0
    BY <1>4, <1>8, <2>2
  <2> QED
    BY <1>3, <2>1, <2>2
<1>10. CallsTyped'
  BY <1>1, <1>2, <1>3, <1>9 DEF FolderInv, CallsTyped, OffsetCap
<1>11. Fetching'
  <2>1. (AtMost(start, Len(ids)))' = AtMost(start', Len(ids))
    BY <1>2 DEF AtMost
  <2> QED
    BY <1>2, <1>3, <1>7, <1>9, <2>1 DEF Fetching, n
<1>12. Paging' /\ Selected' /\ Complete'
  BY <1>2, <1>3 DEF FolderInv, Paging, Selected, Complete
<1> QED
  BY <1>1, <1>10, <1>11, <1>12 DEF FolderInv

\* A fetch that comes to its end has received what was asked for
LEMMA FetchEndKeeps ==
  ASSUME FolderInv, FetchEnd
  PROVE  FolderInv'
<1>1. ItemsTyped' /\ UNCHANGED <<display, items, arrived, removed>>
  BY ItemsKept DEF FetchEnd
<1>2. /\ phase = "fetch" /\ start >= Len(ids) /\ phase' = "fetched"
      /\ UNCHANGED <<place, named, offset, ids, start, meta, steady, left>>
  BY DEF FetchEnd, selectVars, listVars
<1>3. ids \in Seq(Nat) /\ Len(ids) \in Nat /\ start \in Nat
  BY DEF FolderInv, CallsTyped
<1>4. AtMost(start, Len(ids)) = Len(ids)
  BY <1>2, <1>3 DEF AtMost
<1>5. SubSeq(ids, 1, Len(ids)) = ids
  BY <1>3
<1>6. meta = ids
  BY <1>2, <1>4, <1>5 DEF FolderInv, Fetching
<1>7. CallsTyped'
  BY <1>1, <1>2 DEF FolderInv, CallsTyped, OffsetCap
<1>8. Fetching' /\ Paging' /\ Selected' /\ Complete'
  BY <1>2, <1>6 DEF FolderInv, Fetching, Paging, Selected, Complete
<1> QED
  BY <1>1, <1>7, <1>8 DEF FolderInv

\* Every step keeps the invariant
LEMMA FolderStep == FolderInv /\ [FolderNext]_ewsVars => FolderInv'
<1> SUFFICES ASSUME FolderInv, [FolderNext]_ewsVars PROVE FolderInv'
  OBVIOUS
<1>1. CASE UNCHANGED ewsVars
  BY <1>1 DEF ewsVars, folderVars, selectVars, listVars, FolderInv, ItemsTyped, CallsTyped, Fetching,
              Paging, Selected, Complete, AtMost, OffsetCap
<1>2. CASE Arrive \/ AppendItem
  BY <1>2, AddedKeeps DEF Arrive, AppendItem
<1>3. CASE Work
  BY <1>3, ListPageKeeps, FetchBatchKeeps, FetchEndKeeps DEF Work
<1> QED
  BY <1>1, <1>2, <1>3, LeaveKeeps, SelectKeeps, ListBeginKeeps, FetchBeginKeeps, CallFailedKeeps DEF FolderNext

\* The invariant, for every value of the constants
LEMMA FolderInvariance == FolderSpec => []FolderInv
  BY FolderInvInit, FolderStep, PTL DEF FolderSpec

(***************************************************************************)
(* The folders and the locals of the calls keep their types: no message is *)
(* twice in a folder, the IDs collected are of messages that have come.    *)
(***************************************************************************)
THEOREM FolderTypeCorrect == FolderSpec => []FolderTypeOK
<1>1. FolderInv => FolderTypeOK
  <2> SUFFICES ASSUME FolderInv PROVE FolderTypeOK
    OBVIOUS
  <2>1. \A p \in Place : Range(items[p]) \subseteq 1..arrived /\ IsInjective(items[p])
    <3>1. ASSUME NEW p \in Place PROVE Range(items[p]) \subseteq 1..arrived /\ IsInjective(items[p])
      <4>1. /\ items[p] \in Seq(Nat) /\ DOMAIN items[p] = 1..Len(items[p])
            /\ \A k \in 1..Len(items[p]) : items[p][k] \in 1..arrived
            /\ \A j, k \in 1..Len(items[p]) : items[p][j] = items[p][k] => j = k
        BY DEF FolderInv, ItemsTyped
      <4> QED
        BY <4>1 DEF Range, IsInjective
    <3> QED
      BY <3>1
  <2>2. ids \in Seq(Nat) /\ meta \in Seq(Nat) /\ Len(ids) \in Nat /\ start \in Nat /\ Batch \in Nat \ {0}
    BY EwsFolderAssumption DEF FolderInv, CallsTyped
  <2>3. Range(ids) \subseteq 1..arrived
    BY <2>2, RangeIs DEF FolderInv, CallsTyped
  <2>4. start \in 0..(Len(ids) + Batch - 1)
    BY <2>2 DEF FolderInv, Fetching
  <2>5. Range(meta) \subseteq Range(ids)
    <3>1. CASE meta = <<>>
      BY <3>1 DEF Range
    <3>2. CASE meta = ids
      BY <3>2
    <3>3. CASE meta = SubSeq(ids, 1, AtMost(start, Len(ids)))
      <4>1. PICK n : n = AtMost(start, Len(ids))
        OBVIOUS
      <4>2. n \in Nat /\ n <= Len(ids)
        BY <2>2, <4>1 DEF AtMost
      <4>3. Len(meta) = n /\ \A k \in 1..n : meta[k] = ids[k] /\ k \in 1..Len(ids)
        BY <2>2, <3>3, <4>1, <4>2
      <4> QED
        BY <2>2, <4>3, RangeIs
    <3> QED
      BY <3>1, <3>2, <3>3 DEF FolderInv, Fetching, CallsTyped
  <2>6. display \in [Folder -> Name] /\ DOMAIN items = Place /\ arrived \in 0..MaxItem
    <3>1. Name = {"INBOX", "Box", "box"}
      BY DEF Name, Fold
    <3> QED
      BY <3>1, EwsFolderAssumption DEF FolderInv, CallsTyped, ItemsTyped
  <2> QED
    BY <2>1, <2>3, <2>4, <2>5, <2>6 DEF FolderInv, CallsTyped, FolderTypeOK
<1> QED
  BY <1>1, FolderInvariance, PTL

(***************************************************************************)
(* ListIDs' pages by offset miss no message that stays, for any batch      *)
(* size, any arrivals between the requests and any answer behind the end,  *)
(* and the folder is one the name stands for, in any order of FindFolder's *)
(* answer.                                                                 *)
(***************************************************************************)
THEOREM ListingIsComplete == FolderSpec => []ListsEveryMessage
<1>1. FolderInv => ListsEveryMessage
  BY DEF FolderInv, Selected, Complete, ListsEveryMessage
<1> QED
  BY <1>1, FolderInvariance, PTL

(***************************************************************************)
(* FetchMeta's batches put together are what was asked for, or the call    *)
(* fails, for any number of IDs and any batch size.                        *)
(***************************************************************************)
THEOREM FetchIsWhole == FolderSpec => []FetchAllOrNothing
<1>1. FolderInv => FetchAllOrNothing
  BY DEF FolderInv, Fetching, FetchAllOrNothing
<1> QED
  BY <1>1, FolderInvariance, PTL
=============================================================================
