-------------------------- MODULE UserStateProofs ---------------------------
(***************************************************************************)
(* Proofs about UserState for any number of users and runs, any length of  *)
(* the history, any clock and any order of the daemon's steps and the      *)
(* commands.                                                               *)
(***************************************************************************)
EXTENDS UserState, TLAPS, FiniteSetTheorems, WellFoundedInduction

Entry == [at : 0..MaxTime, status : {"ok", "error", "resume"}]
StatusRow == [last : 0..MaxTime, ok : 0..MaxTime, status : {"none", "ok", "error"},
              since : 0..MaxTime, streak : Nat]

Outcome == {"ok", "error"}

\* The log is a sequence of entries, runs with a time
LogTyped ==
  /\ log \in [User -> Seq(Entry)]
  /\ \A u \in User : \A k \in 1..Len(log[u]) : log[u][k].status \in Outcome => log[u][k].at > 0
  /\ \A u \in User : Len(log[u]) <= MaxRuns

\* (user_name, run_at) is the key of user_run
Keyed(h) == \A x, y \in h : x.at = y.at => x = y

Typed ==
  /\ users \in [User -> {"none", "on", "off"}] /\ cached \subseteq User /\ list \subseteq User
  /\ running \subseteq User /\ removing \subseteq User /\ onList \subseteq User /\ stepped \subseteq User
  /\ history \in [User -> SUBSET Row] /\ \A u \in User : Keyed(history[u]) /\ Cardinality(history[u]) <= Keep
  /\ row \in [User -> StatusRow]
  /\ now \in 1..MaxTime /\ back \in 0..MaxBack

\* A user who is gone and was on nobody's list is not started any more
Unlisted ==
  \A u \in User \ (removing \cup onList) : users[u] = "none" => u \notin list \cup running

\* A row stands for a run, and as long as the clock only went forward for none in the future
Dated ==
  \A u \in User :
    /\ row[u] # NoRow => row[u].last > 0
    /\ u \notin stepped => row[u].last <= now

UserInv == Typed /\ LogTyped /\ Unlisted /\ Dated /\ StatusTellsRuns /\ HistoryMatchesStatus /\ RemovedUnlessOnList

-----------------------------------------------------------------------------
\* A non-empty set of numbers has a least element
LEMMA LeastExists ==
  ASSUME NEW T \in SUBSET Nat, T # {}
  PROVE  \E x \in T : \A y \in T : x <= y
<1>1. PICK x \in T : \A y \in T : ~(<<y, x>> \in OpToRel(<, Nat))
  BY NatLessThanWellFounded, WFMin
<1>2. \A y \in T : ~(y < x)
  BY <1>1 DEF OpToRel
<1> QED
  BY <1>2

\* and a bounded one a greatest
LEMMA GreatestExists ==
  ASSUME NEW T \in SUBSET Nat, NEW n \in Nat, \A x \in T : x <= n, T # {}
  PROVE  \E x \in T : \A y \in T : y <= x
<1> DEFINE R == {n - x : x \in T}
<1>1. R \in SUBSET Nat /\ R # {}
  <2>1. \A x \in T : x \in Nat /\ x <= n
    OBVIOUS
  <2>2. \A x \in T : n - x \in Nat
    BY <2>1
  <2> QED
    BY <2>2
<1>2. PICK d \in R : \A e \in R : d <= e
  <2> HIDE DEF R
  <2> QED
    BY <1>1, LeastExists
<1>3. PICK x \in T : d = n - x
  OBVIOUS
<1>4. \A y \in T : n - x <= n - y
  BY <1>2, <1>3
<1>5. \A y \in T : y <= x
  BY <1>4
<1> QED
  BY <1>5

-----------------------------------------------------------------------------
\* The history

\* A history is finite
LEMMA HistoryFinite ==
  ASSUME NEW h \in SUBSET Row, Keyed(h)
  PROVE  IsFiniteSet(h)
<1> DEFINE f == [x \in h |-> x.at]
<1>1. f \in Injection(h, 1..MaxTime)
  BY DEF Injection, IsInjective, Keyed, Row
<1>2. IsFiniteSet(1..MaxTime)
  BY FS_Interval, UserStateAssumption
<1> QED
  BY <1>1, <1>2, FS_Injection

\* The upsert keeps the key
LEMMA PutRunKeyed ==
  ASSUME NEW h \in SUBSET Row, Keyed(h), NEW r \in Row
  PROVE  PutRun(h, r) \in SUBSET Row /\ Keyed(PutRun(h, r)) /\ r \in PutRun(h, r)
  BY DEF PutRun, Keyed

\* Rows that are newer than a given one
Newer(h, t) == {y \in h : y.at > t}

\* The rows newer than a time can be counted
LEMMA NewerCount ==
  ASSUME NEW h \in SUBSET Row, Keyed(h), NEW t \in Nat
  PROVE  IsFiniteSet(Newer(h, t)) /\ Cardinality(Newer(h, t)) \in Nat
<1>1. Newer(h, t) \in SUBSET h
  BY DEF Newer
<1> QED
  BY <1>1, HistoryFinite, FS_Subset, FS_CardinalityType

\* What is trimmed is older than all that is kept
LEMMA TrimKeepsNewest ==
  ASSUME NEW h \in SUBSET Row, Keyed(h), NEW x \in h \ Trim(h), NEW y \in Trim(h)
  PROVE  x.at < y.at
<1>1. x.at \in Nat /\ y.at \in Nat /\ y \in h
  BY UserStateAssumption DEF Row, Trim
<1>2. ~(Cardinality(Newer(h, x.at)) < Keep) /\ Cardinality(Newer(h, y.at)) < Keep
  BY DEF Trim, Newer
<1>3. SUFFICES ASSUME y.at <= x.at PROVE FALSE
  BY <1>1
<1>4. Newer(h, x.at) \in SUBSET Newer(h, y.at)
  BY <1>1, <1>3, UserStateAssumption DEF Newer, Row
<1>5. Cardinality(Newer(h, x.at)) <= Cardinality(Newer(h, y.at))
  BY <1>1, <1>4, NewerCount, FS_Subset
<1> QED
  BY <1>1, <1>2, <1>5, NewerCount, UserStateAssumption

\* The newest row is kept
LEMMA NewestKept ==
  ASSUME NEW h, NEW x \in h, \A y \in h : ~(y.at > x.at)
  PROVE  x \in Trim(h)
<1>1. {y \in h : y.at > x.at} = {}
  OBVIOUS
<1> QED
  BY <1>1, FS_EmptySet, UserStateAssumption DEF Trim

\* At most userRunKeep rows are kept, and at least one
LEMMA TrimBounds ==
  ASSUME NEW h \in SUBSET Row, Keyed(h), h # {}
  PROVE  Trim(h) \in SUBSET Row /\ Keyed(Trim(h)) /\ Trim(h) # {} /\ Cardinality(Trim(h)) <= Keep
<1>1. Trim(h) \in SUBSET h
  BY DEF Trim
<1>2. \A x \in h : x.at \in Nat /\ x.at <= MaxTime
  BY UserStateAssumption DEF Row
<1> DEFINE T == {x.at : x \in h}
           B == {x.at : x \in Trim(h)}
<1>3. Trim(h) # {}
  <2>1. T \in SUBSET Nat /\ T # {} /\ \A t \in T : t <= MaxTime
    BY <1>2
  <2>2. PICK t \in T : \A u \in T : u <= t
    <3> HIDE DEF T
    <3> QED
      BY <2>1, GreatestExists, UserStateAssumption
  <2>3. PICK x \in h : x.at = t
    OBVIOUS
  <2>4. \A y \in h : ~(y.at > x.at)
    BY <1>2, <2>2, <2>3
  <2> QED
    BY <2>4, NewestKept
<1>4. PICK t \in B : \A u \in B : t <= u
  <2>1. B \in SUBSET Nat /\ B # {}
    BY <1>1, <1>2, <1>3
  <2> HIDE DEF B
  <2> QED
    BY <2>1, LeastExists
<1>5. PICK x \in Trim(h) : x.at = t
  OBVIOUS
<1>6. Trim(h) \ {x} \in SUBSET Newer(h, x.at)
  <2>1. ASSUME NEW y \in Trim(h), y # x PROVE y.at > x.at
    <3>1. y.at # x.at
      BY <1>1, <2>1 DEF Keyed
    <3>2. x.at <= y.at
      BY <1>4, <1>5
    <3> QED
      BY <1>1, <1>2, <3>1, <3>2
  <2> QED
    BY <1>1, <2>1 DEF Newer
<1>7. Cardinality(Newer(h, x.at)) < Keep
  BY DEF Trim, Newer
<1>8. IsFiniteSet(Trim(h)) /\ Cardinality(Trim(h)) \in Nat
  BY <1>1, HistoryFinite, FS_Subset, FS_CardinalityType
<1>9. Cardinality(Trim(h) \ {x}) = Cardinality(Trim(h)) - 1
  BY <1>8, FS_RemoveElement
<1>10. Cardinality(Trim(h) \ {x}) <= Cardinality(Newer(h, x.at)) /\ Cardinality(Newer(h, x.at)) \in Nat
  BY <1>1, <1>2, <1>6, NewerCount, FS_Subset
<1>11. Cardinality(Trim(h)) <= Keep
  BY <1>7, <1>8, <1>9, <1>10, UserStateAssumption
<1> HIDE DEF T, B
<1> QED
  BY <1>1, <1>3, <1>11 DEF Keyed

-----------------------------------------------------------------------------
(***************************************************************************)
(* What the log of one user tells, and what an entry adds to it.           *)
(***************************************************************************)
RunsOf(l, s) == {k \in DOMAIN l : l[k].status \in s}
LastOf(l, s) ==
  LET R == RunsOf(l, s)
  IN IF R = {} THEN 0 ELSE l[CHOOSE k \in R : \A j \in R : j <= k].at
StreakOf(l) == {k \in DOMAIN l : \A j \in k..Len(l) : l[j].status = "error"}
BeginOf(l) ==
  IF StreakOf(l) = {} THEN 0 ELSE l[CHOOSE k \in StreakOf(l) : \A j \in StreakOf(l) : k <= j].at

\* A log with one more entry
LEMMA Appended ==
  ASSUME NEW l \in Seq(Entry), NEW e \in Entry
  PROVE  /\ Append(l, e) \in Seq(Entry) /\ Len(l) \in Nat /\ Len(Append(l, e)) = Len(l) + 1
         /\ DOMAIN l = 1..Len(l) /\ DOMAIN Append(l, e) = 1..(Len(l) + 1)
         /\ \A k \in 1..Len(l) : Append(l, e)[k] = l[k]
         /\ Append(l, e)[Len(l) + 1] = e
  OBVIOUS

\* The last run of a kind
LEMMA LastAppended ==
  ASSUME NEW l \in Seq(Entry), NEW e \in Entry, NEW s
  PROVE  LastOf(Append(l, e), s) = IF e.status \in s THEN e.at ELSE LastOf(l, s)
<1> DEFINE n == Len(l)
           m == Append(l, e)
<1>1. /\ n \in Nat /\ DOMAIN l = 1..n /\ DOMAIN m = 1..(n + 1)
      /\ \A k \in 1..n : m[k] = l[k]
      /\ m[n + 1] = e
  BY Appended
<1> HIDE DEF n, m
<1>2. CASE e.status \in s
  <2>1. n + 1 \in RunsOf(m, s) /\ \A j \in RunsOf(m, s) : j \in Nat /\ j <= n + 1
    BY <1>1, <1>2 DEF RunsOf
  <2>2. ASSUME NEW k \in RunsOf(m, s), \A j \in RunsOf(m, s) : j <= k PROVE k = n + 1
    BY <1>1, <2>1, <2>2
  <2>3. (CHOOSE k \in RunsOf(m, s) : \A j \in RunsOf(m, s) : j <= k) = n + 1
    BY <2>1, <2>2
  <2>4. LastOf(m, s) = m[n + 1].at
    BY <2>1, <2>3 DEF LastOf
  <2> QED
    BY <1>1, <1>2, <2>4 DEF m
<1>3. CASE e.status \notin s
  <2>1. RunsOf(m, s) = RunsOf(l, s)
    BY <1>1, <1>3 DEF RunsOf
  <2>2. RunsOf(l, s) \in SUBSET Nat /\ \A k \in RunsOf(l, s) : k <= n
    BY <1>1 DEF RunsOf
  <2>3. CASE RunsOf(l, s) # {}
    <3>1. \E k \in RunsOf(l, s) : \A j \in RunsOf(l, s) : j <= k
      BY <1>1, <2>2, <2>3, GreatestExists
    <3> DEFINE c == CHOOSE k \in RunsOf(l, s) : \A j \in RunsOf(l, s) : j <= k
    <3>2. c \in RunsOf(l, s)
      BY <3>1
    <3>3. LastOf(l, s) = l[c].at /\ LastOf(m, s) = m[c].at
      BY <2>1, <2>3 DEF LastOf
    <3>4. m[c] = l[c]
      BY <1>1, <3>2 DEF RunsOf
    <3> HIDE DEF c
    <3> QED
      BY <1>3, <3>3, <3>4 DEF m
  <2>4. CASE RunsOf(l, s) = {}
    BY <1>3, <2>1, <2>4 DEF LastOf, m
  <2> QED
    BY <2>3, <2>4
<1> QED
  BY <1>2, <1>3

\* The streak an entry leaves: one longer, or none
LEMMA StreakAppended ==
  ASSUME NEW l \in Seq(Entry), NEW e \in Entry
  PROVE  /\ StreakOf(Append(l, e)) = IF e.status = "error" THEN StreakOf(l) \cup {Len(l) + 1} ELSE {}
         /\ StreakOf(l) \in SUBSET (1..Len(l))
<1> DEFINE n == Len(l)
           m == Append(l, e)
<1>1. /\ n \in Nat /\ DOMAIN l = 1..n /\ DOMAIN m = 1..(n + 1) /\ Len(m) = n + 1
      /\ \A k \in 1..n : m[k] = l[k]
      /\ m[n + 1] = e
  BY Appended
<1> HIDE DEF n, m
<1>2. StreakOf(l) \in SUBSET (1..n)
  BY <1>1 DEF StreakOf
<1>3. CASE e.status = "error"
  <2>1. ASSUME NEW k \in 1..n
        PROVE  (\A j \in k..(n + 1) : m[j].status = "error") <=> \A j \in k..n : l[j].status = "error"
    <3>1. k..(n + 1) = (k..n) \cup {n + 1}
      BY <1>1
    <3>2. \A j \in k..n : m[j] = l[j]
      BY <1>1
    <3> QED
      BY <1>1, <1>3, <3>1, <3>2
  <2>2. \A j \in (n + 1)..(n + 1) : m[j].status = "error"
    BY <1>1, <1>3
  <2>3. StreakOf(m) = {k \in 1..(n + 1) : \A j \in k..(n + 1) : m[j].status = "error"}
    BY <1>1 DEF StreakOf
  <2>4. StreakOf(l) = {k \in 1..n : \A j \in k..n : l[j].status = "error"}
    BY <1>1 DEF StreakOf, n
  <2>5. 1..(n + 1) = (1..n) \cup {n + 1}
    BY <1>1
  <2>6. StreakOf(m) = StreakOf(l) \cup {n + 1}
    BY <2>1, <2>2, <2>3, <2>4, <2>5
  <2> QED
    BY <1>2, <1>3, <2>6 DEF m, n
<1>4. CASE e.status # "error"
  <2>1. ASSUME NEW k \in StreakOf(m) PROVE FALSE
    <3>1. n + 1 \in k..Len(m)
      BY <1>1 DEF StreakOf
    <3> QED
      BY <1>1, <1>4, <3>1 DEF StreakOf
  <2> QED
    BY <1>2, <1>4, <2>1 DEF m, n
<1> QED
  BY <1>3, <1>4

\* The failures since the last success, after one more run
LEMMA StreakCount ==
  ASSUME NEW l \in Seq(Entry), NEW e \in Entry
  PROVE  /\ Cardinality(StreakOf(l)) \in Nat /\ Cardinality(StreakOf(l)) <= Len(l)
         /\ Cardinality(StreakOf(Append(l, e))) =
              IF e.status = "error" THEN Cardinality(StreakOf(l)) + 1 ELSE 0
<1>1. StreakOf(l) \in SUBSET (1..Len(l)) /\ Len(l) \in Nat
  BY StreakAppended
<1>2. IsFiniteSet(1..Len(l)) /\ Cardinality(1..Len(l)) = Len(l)
  <2>1. /\ IsFiniteSet(1..Len(l))
        /\ Cardinality(1..Len(l)) = IF 1 > Len(l) THEN 0 ELSE Len(l) - 1 + 1
    BY <1>1, FS_Interval
  <2> QED
    BY <1>1, <2>1
<1>3. /\ IsFiniteSet(StreakOf(l)) /\ Cardinality(StreakOf(l)) \in Nat
      /\ Cardinality(StreakOf(l)) <= Len(l)
  BY <1>1, <1>2, FS_Subset, FS_CardinalityType
<1>4. Len(l) + 1 \notin StreakOf(l)
  BY <1>1
<1>5. Cardinality(StreakOf(l) \cup {Len(l) + 1}) = Cardinality(StreakOf(l)) + 1
  BY <1>3, <1>4, FS_AddElement
<1> QED
  BY <1>3, <1>5, StreakAppended, FS_EmptySet

\* When the streak began: 0 if there is none, else a time
LEMMA BeginAppended ==
  ASSUME NEW l \in Seq(Entry), NEW e \in Entry,
         \A k \in 1..Len(l) : l[k].status \in Outcome => l[k].at > 0
  PROVE  BeginOf(Append(l, e)) =
           IF e.status = "error" THEN IF BeginOf(l) > 0 THEN BeginOf(l) ELSE e.at ELSE 0
<1> DEFINE n == Len(l)
           m == Append(l, e)
<1>1. /\ n \in Nat /\ DOMAIN l = 1..n /\ \A k \in 1..n : m[k] = l[k]
      /\ m[n + 1] = e
  BY Appended
<1>2. StreakOf(l) \in SUBSET (1..n)
  BY StreakAppended
<1>3. CASE e.status # "error"
  BY <1>3, StreakAppended DEF BeginOf
<1>4. CASE e.status = "error"
  <2>1. StreakOf(m) = StreakOf(l) \cup {n + 1}
    BY <1>4, StreakAppended
  <2> HIDE DEF n, m
  <2>2. CASE StreakOf(l) = {}
    <3>1. StreakOf(m) = {n + 1}
      BY <2>1, <2>2
    <3>2. (CHOOSE k \in StreakOf(m) : \A j \in StreakOf(m) : k <= j) = n + 1
      BY <1>1, <3>1
    <3>3. BeginOf(m) = e.at /\ BeginOf(l) = 0
      BY <1>1, <2>2, <3>1, <3>2 DEF BeginOf
    <3> QED
      BY <1>4, <3>3 DEF m
  <2>3. CASE StreakOf(l) # {}
    <3>1. PICK c \in StreakOf(l) : \A j \in StreakOf(l) : c <= j
      BY <1>1, <1>2, <2>3, LeastExists
    <3>2. c \in Nat /\ c <= n /\ \A j \in StreakOf(l) : j \in Nat
      BY <1>1, <1>2
    <3>3. c \in StreakOf(m) /\ \A j \in StreakOf(m) : c <= j
      BY <1>1, <2>1, <3>1, <3>2
    <3>4. \A k \in StreakOf(l) : (\A j \in StreakOf(l) : k <= j) => k = c
      BY <3>1, <3>2
    <3>5. \A k \in StreakOf(m) : (\A j \in StreakOf(m) : k <= j) => k = c
      BY <1>1, <2>1, <3>1, <3>2, <3>3
    <3>6. (CHOOSE k \in StreakOf(l) : \A j \in StreakOf(l) : k <= j) = c
      BY <3>1, <3>4
    <3>7. (CHOOSE k \in StreakOf(m) : \A j \in StreakOf(m) : k <= j) = c
      BY <3>3, <3>5
    <3>8. BeginOf(l) = l[c].at /\ BeginOf(m) = m[c].at /\ m[c] = l[c]
      BY <1>1, <1>2, <2>1, <2>3, <3>6, <3>7 DEF BeginOf
    <3>9. l[c].status = "error" /\ l[c].at > 0
      BY <1>1, <1>2, <3>2 DEF StreakOf, Outcome, n
    <3> QED
      BY <1>4, <3>8, <3>9 DEF m
  <2> QED
    BY <2>2, <2>3
<1> QED
  BY <1>3, <1>4

-----------------------------------------------------------------------------
\* The status of one user, as the invariant has it
Tells(r, l) ==
  /\ r.last = LastOf(l, Outcome) /\ r.ok = LastOf(l, {"ok"})
  /\ r.streak = Cardinality(StreakOf(l)) /\ r.since = BeginOf(l)

\* StatusTellsRuns, user by user
LEMMA TellsRuns ==
  /\ StatusTellsRuns <=> \A u \in User : Tells(row[u], log[u])
  /\ StatusTellsRuns' <=> \A u \in User : Tells(row'[u], log'[u])
  BY DEF StatusTellsRuns, Tells, LastAt, LastOf, Runs, RunsOf, Streak, StreakOf, BeginOf, Outcome

\* The upsert of a run
LEMMA UpsertTells ==
  ASSUME NEW old \in StatusRow, NEW l \in Seq(Entry), Tells(old, l),
         \A k \in 1..Len(l) : l[k].status \in Outcome => l[k].at > 0,
         NEW r \in Row
  PROVE  /\ Tells(Upsert(old, r), Append(l, r)) /\ Upsert(old, r) \in StatusRow
         /\ Upsert(old, r).last = r.at /\ Upsert(old, r).status = r.status
<1>1. r \in Entry /\ r.status \in Outcome /\ r.at \in 0..MaxTime /\ r.status \in {"ok", "error"}
  BY UserStateAssumption DEF Row, Entry, Outcome
<1>2. LastOf(Append(l, r), Outcome) = r.at
  BY <1>1, LastAppended
<1>3. LastOf(Append(l, r), {"ok"}) = IF r.status = "ok" THEN r.at ELSE old.ok
  BY <1>1, LastAppended DEF Tells
<1>4. Cardinality(StreakOf(Append(l, r))) = IF r.status = "error" THEN old.streak + 1 ELSE 0
  BY <1>1, StreakCount DEF Tells
<1>5. BeginOf(Append(l, r)) = IF r.status = "error" THEN IF old.since > 0 THEN old.since ELSE r.at ELSE 0
  BY <1>1, BeginAppended DEF Tells
<1>6. Upsert(old, r) \in StatusRow
  BY <1>1, UserStateAssumption DEF Upsert, Since, StatusRow
<1> QED
  BY <1>2, <1>3, <1>4, <1>5, <1>6 DEF Tells, Upsert, Since

\* The update of db-resume-user
LEMMA ResumeTells ==
  ASSUME NEW old \in StatusRow, NEW l \in Seq(Entry), Tells(old, l),
         \A k \in 1..Len(l) : l[k].status \in Outcome => l[k].at > 0,
         NEW e, e = [at |-> 0, status |-> "resume"]
  PROVE  /\ Tells(Resumed(old), Append(l, e)) /\ Resumed(old) \in StatusRow /\ e \in Entry
         /\ Resumed(old).last = old.last /\ Resumed(old).status = old.status
<1>1. e \in Entry /\ e.status = "resume"
  BY UserStateAssumption DEF Entry
<1>2. LastOf(Append(l, e), Outcome) = LastOf(l, Outcome) /\ LastOf(Append(l, e), {"ok"}) = LastOf(l, {"ok"})
  BY <1>1, LastAppended DEF Outcome
<1>3. Cardinality(StreakOf(Append(l, e))) = 0 /\ BeginOf(Append(l, e)) = 0
  BY <1>1, StreakCount, BeginAppended
<1>4. /\ Resumed(old) \in StatusRow
      /\ Resumed(old).last = old.last /\ Resumed(old).ok = old.ok /\ Resumed(old).status = old.status
      /\ Resumed(old).streak = 0 /\ Resumed(old).since = 0
  <2>1. Resumed(old) = [last |-> old.last, ok |-> old.ok, status |-> old.status, since |-> 0, streak |-> 0]
    <3>1. PICK x : x = [old EXCEPT !.streak = 0]
      OBVIOUS
    <3>2. Resumed(old) = [x EXCEPT !.since = 0]
      BY <3>1, Zenon DEF Resumed
    <3> QED
      BY <3>1, <3>2 DEF StatusRow
  <2>2. old.last \in 0..MaxTime /\ old.ok \in 0..MaxTime /\ old.status \in {"none", "ok", "error"}
    BY DEF StatusRow
  <2> QED
    BY <2>1, <2>2, UserStateAssumption DEF StatusRow
<1> QED
  BY <1>1, <1>2, <1>3, <1>4 DEF Tells

\* The row of a user whose state has been erased
LEMMA NothingTells == Tells(NoRow, <<>>) /\ NoRow \in StatusRow
<1>1. DOMAIN <<>> = {}
  OBVIOUS
<1>2. RunsOf(<<>>, Outcome) = {} /\ RunsOf(<<>>, {"ok"}) = {} /\ StreakOf(<<>>) = {}
  BY <1>1 DEF RunsOf, StreakOf
<1> QED
  BY <1>2, FS_EmptySet, UserStateAssumption DEF Tells, LastOf, BeginOf, NoRow, StatusRow

\* Every run is in the history, or older than all of it
Recorded(h, l) ==
  \A k \in RunsOf(l, Outcome) : (\E x \in h : x.at = l[k].at) \/ \A x \in h : x.at > l[k].at

\* The history of one user, as the invariant has it
Agrees(r, h, l, setBack) ==
  /\ r = NoRow <=> h = {}
  /\ setBack \/ h = {} \/
       /\ [at |-> r.last, status |-> r.status] \in h
       /\ \A x \in h : x.at <= r.last
       /\ Recorded(h, l)

\* HistoryMatchesStatus, user by user
LEMMA AgreesMatches ==
  /\ HistoryMatchesStatus <=> \A u \in User : Agrees(row[u], history[u], log[u], u \in stepped)
  /\ HistoryMatchesStatus' <=> \A u \in User : Agrees(row'[u], history'[u], log'[u], u \in stepped')
  BY DEF HistoryMatchesStatus, Agrees, Recorded, Runs, RunsOf, Outcome

\* The insert and the trimming, when the clock has only gone forward
LEMMA RunRecorded ==
  ASSUME NEW h \in SUBSET Row, Keyed(h), NEW l \in Seq(Entry), NEW r \in Row,
         \A x \in h : x.at <= r.at, Recorded(h, l), h = {} => RunsOf(l, Outcome) = {}
  PROVE  /\ r \in Trim(PutRun(h, r))
         /\ \A x \in Trim(PutRun(h, r)) : x.at <= r.at
         /\ Recorded(Trim(PutRun(h, r)), Append(l, r))
<1> DEFINE p == PutRun(h, r)
           t == Trim(p)
<1>1. p \in SUBSET Row /\ Keyed(p) /\ r \in p /\ \A x \in p : x \in h \/ x = r
  BY PutRunKeyed DEF PutRun
<1>2. \A x \in p : x.at \in Nat
  BY <1>1 DEF Row
<1>3. \A x \in p : x.at <= r.at
  BY <1>1, <1>2
<1>4. \A x \in h : \E y \in p : y.at = x.at
  BY <1>1 DEF PutRun
<1> HIDE DEF p
<1>5. r \in t
  <2>1. \A x \in p : ~(x.at > r.at)
    BY <1>1, <1>2, <1>3
  <2> QED
    BY <1>1, <2>1, NewestKept
<1>6. t \subseteq p
  BY DEF Trim
<1>7. \A x \in p \ t, y \in t : y.at > x.at
  <2>1. \A x \in p \ t, y \in t : x.at < y.at
    BY <1>1, TrimKeepsNewest
  <2> QED
    BY <1>2, <1>6, <2>1
<1> HIDE DEF t
<1>8. ASSUME NEW k \in RunsOf(Append(l, r), Outcome)
      PROVE  (\E x \in t : x.at = Append(l, r)[k].at) \/ \A x \in t : x.at > Append(l, r)[k].at
  <2>0. r \in Entry
    BY UserStateAssumption DEF Row, Entry
  <2>1. CASE k = Len(l) + 1
    <3>1. Append(l, r)[k] = r
      BY <2>0, <2>1, Appended
    <3> QED
      BY <1>5, <3>1
  <2>2. CASE k # Len(l) + 1
    <3>1. k \in 1..Len(l) /\ Append(l, r)[k] = l[k] /\ k \in RunsOf(l, Outcome)
      BY <2>0, <2>2, Appended DEF RunsOf
    <3>2. l[k].at \in Nat
      <4>1. l[k] \in Entry
        BY <3>1
      <4> QED
        BY <4>1 DEF Entry
    <3>3. CASE \E x \in h : x.at = l[k].at
      <4>1. PICK y \in p : y.at = l[k].at
        BY <1>4, <3>3
      <4> QED
        BY <1>7, <3>1, <4>1
    <3>4. CASE \A x \in h : x.at > l[k].at
      <4>1. PICK z \in h : z.at > l[k].at
        BY <3>1, <3>4
      <4>2. z.at \in Nat /\ r.at \in Nat /\ z.at <= r.at
        BY DEF Row
      <4>3. r.at > l[k].at
        BY <3>2, <4>1, <4>2
      <4> QED
        BY <1>1, <1>6, <3>1, <3>4, <4>3
    <3> QED
      BY <3>1, <3>3, <3>4 DEF Recorded
  <2> QED
    BY <2>1, <2>2
<1> QED
  BY <1>3, <1>5, <1>6, <1>8 DEF Recorded, t, p

\* With an empty log there is no run
LEMMA NoRunNoTime ==
  ASSUME NEW l \in Seq(Entry), LastOf(l, Outcome) = 0,
         \A k \in 1..Len(l) : l[k].status \in Outcome => l[k].at > 0
  PROVE  RunsOf(l, Outcome) = {}
<1>1. SUFFICES ASSUME RunsOf(l, Outcome) # {} PROVE FALSE
  OBVIOUS
<1>2. RunsOf(l, Outcome) \in SUBSET Nat /\ Len(l) \in Nat /\ \A k \in RunsOf(l, Outcome) : k <= Len(l) /\ k \in 1..Len(l)
  BY DEF RunsOf
<1>3. \E k \in RunsOf(l, Outcome) : \A j \in RunsOf(l, Outcome) : j <= k
  BY <1>1, <1>2, GreatestExists
<1> DEFINE c == CHOOSE k \in RunsOf(l, Outcome) : \A j \in RunsOf(l, Outcome) : j <= k
<1>4. c \in RunsOf(l, Outcome)
  BY <1>3
<1>5. LastOf(l, Outcome) = l[c].at
  BY <1>1 DEF LastOf
<1> HIDE DEF c
<1>6. l[c].at > 0
  BY <1>2, <1>4 DEF RunsOf
<1> QED
  BY <1>5, <1>6

-----------------------------------------------------------------------------
\* Nobody has a row at the start
LEMMA UserInit == Init => UserInv
<1> SUFFICES ASSUME Init PROVE UserInv
  OBVIOUS
<1>2. Typed
  BY NothingTells, FS_EmptySet, UserStateAssumption DEF Init, Typed, Keyed, Row
<1>3. LogTyped
  BY UserStateAssumption DEF Init, LogTyped
<1>4. Unlisted /\ Dated /\ RemovedUnlessOnList
  BY UserStateAssumption DEF Init, Unlisted, Dated, RemovedUnlessOnList, NoRow
<1>5. StatusTellsRuns
  BY TellsRuns, NothingTells DEF Init
<1>6. HistoryMatchesStatus
  BY AgreesMatches DEF Init, Agrees
<1> QED
  BY <1>2, <1>3, <1>4, <1>5, <1>6 DEF UserInv

\* The transaction at the end of a run
LEMMA RecordRunKeeps ==
  ASSUME UserInv, RecordRun
  PROVE  UserInv'
<1>1. PICK u \in running, s \in {"ok", "error"} :
        LET r == [at |-> now, status |-> s] IN
          /\ Len(log[u]) < MaxRuns
          /\ history' = [history EXCEPT ![u] = Trim(PutRun(@, r))]
          /\ row' = [row EXCEPT ![u] = Upsert(@, r)]
          /\ log' = [log EXCEPT ![u] = Append(@, r)]
          /\ running' = running \ {u}
  BY DEF RecordRun
<1>2. UNCHANGED <<users, cached, list, removing, now, back, stepped, onList>>
  BY DEF RecordRun, clock
<1> DEFINE r == [at |-> now, status |-> s]
           h == history[u]
           l == log[u]
<1>3. /\ u \in User /\ r \in Row /\ r \in Entry /\ r.at = now /\ r.at > 0 /\ now \in Nat
      /\ h \in SUBSET Row /\ Keyed(h) /\ row[u] \in StatusRow /\ l \in Seq(Entry)
      /\ \A k \in 1..Len(l) : l[k].status \in Outcome => l[k].at > 0
  <2>1. u \in User /\ now \in Nat /\ now > 0 /\ now \in 1..MaxTime /\ now \in 0..MaxTime
    BY UserStateAssumption DEF UserInv, Typed
  <2>2. r \in Row /\ r \in Entry /\ r.at = now
    BY <2>1 DEF Row, Entry
  <2>3. h \in SUBSET Row /\ Keyed(h) /\ row[u] \in StatusRow
    BY <2>1 DEF UserInv, Typed
  <2>4. l \in Seq(Entry) /\ \A k \in 1..Len(l) : l[k].status \in Outcome => l[k].at > 0
    BY <2>1 DEF UserInv, LogTyped
  <2> HIDE DEF r, h, l
  <2> QED
    BY <2>1, <2>2, <2>3, <2>4
<1>4. /\ history'[u] = Trim(PutRun(h, r)) /\ row'[u] = Upsert(row[u], r) /\ log'[u] = Append(l, r)
      /\ \A v \in User \ {u} : history'[v] = history[v] /\ row'[v] = row[v] /\ log'[v] = log[v]
      /\ Len(l) < MaxRuns /\ running' \subseteq running
  BY <1>1, <1>3 DEF UserInv, Typed, LogTyped
<1>5. Tells(row[u], l) /\ Agrees(row[u], h, l, u \in stepped)
  BY <1>3, TellsRuns, AgreesMatches DEF UserInv
<1> HIDE DEF r, h, l
<1>6. /\ Tells(row'[u], log'[u]) /\ row'[u] \in StatusRow
      /\ row'[u].last = r.at /\ row'[u].status = r.status
  BY <1>3, <1>4, <1>5, UpsertTells
<1>7. /\ history'[u] \in SUBSET Row /\ Keyed(history'[u]) /\ history'[u] # {}
      /\ Cardinality(history'[u]) <= Keep
  <2>1. PutRun(h, r) \in SUBSET Row /\ Keyed(PutRun(h, r)) /\ PutRun(h, r) # {}
    BY <1>3, PutRunKeyed
  <2> QED
    BY <1>4, <2>1, TrimBounds
<1>8. row'[u] # NoRow
  BY <1>3, <1>6 DEF NoRow
<1>9. ASSUME u \notin stepped PROVE Agrees(row'[u], history'[u], log'[u], u \in stepped')
  <2>1. row[u].last <= now /\ row[u].last \in Nat
    BY <1>3, <1>9, UserStateAssumption DEF UserInv, Dated, StatusRow
  <2>2. \A x \in h : x.at \in Nat
    BY <1>3 DEF Row
  <2>3. \A x \in h : x.at <= r.at
    BY <1>3, <1>5, <1>9, <2>1, <2>2 DEF Agrees
  <2>4. h = {} => RunsOf(l, Outcome) = {}
    <3>1. h = {} => row[u].last = 0
      BY <1>5 DEF Agrees, NoRow
    <3> QED
      BY <1>3, <1>5, <3>1, NoRunNoTime DEF Tells
  <2>5. Recorded(h, l)
    BY <1>5, <1>9, <2>4 DEF Agrees, Recorded
  <2>6. /\ r \in history'[u]
        /\ \A x \in history'[u] : x.at <= r.at
        /\ Recorded(history'[u], log'[u])
    BY <1>3, <1>4, <2>3, <2>4, <2>5, RunRecorded
  <2>7. [at |-> row'[u].last, status |-> row'[u].status] = r
    BY <1>6 DEF r
  <2> QED
    BY <1>6, <1>7, <1>8, <2>6, <2>7 DEF Agrees
<1>10. Agrees(row'[u], history'[u], log'[u], u \in stepped')
  <2>1. CASE u \in stepped
    BY <1>2, <1>7, <1>8, <2>1 DEF Agrees
  <2> QED
    BY <1>9, <2>1
<1>11. \A v \in User \ {u} : Agrees(row'[v], history'[v], log'[v], v \in stepped') /\ Tells(row'[v], log'[v])
  BY <1>2, <1>4, TellsRuns, AgreesMatches DEF UserInv
<1>12. Typed'
  <2>1. history' \in [User -> SUBSET Row] /\ row' \in [User -> StatusRow]
    BY <1>1, <1>3, <1>4, <1>6, <1>7 DEF UserInv, Typed
  <2> QED
    BY <1>2, <1>4, <1>7, <2>1 DEF UserInv, Typed
<1>13. LogTyped'
  <2>1. /\ Append(l, r) \in Seq(Entry) /\ Len(Append(l, r)) = Len(l) + 1 /\ Len(l) \in Nat
        /\ \A k \in 1..Len(l) : Append(l, r)[k] = l[k]
        /\ Append(l, r)[Len(l) + 1] = r
    BY <1>3, Appended
  <2>2. log' \in [User -> Seq(Entry)]
    BY <1>1, <1>3, <1>4, <2>1 DEF UserInv, LogTyped
  <2>3. Len(log'[u]) <= MaxRuns
    BY <1>4, <2>1, UserStateAssumption
  <2>4. \A k \in 1..(Len(l) + 1) : log'[u][k].status \in Outcome => log'[u][k].at > 0
    BY <1>3, <1>4, <2>1
  <2> QED
    BY <1>4, <2>1, <2>2, <2>3, <2>4, ZenonT(60) DEF UserInv, LogTyped
<1>14. Unlisted' /\ RemovedUnlessOnList'
  BY <1>1, <1>2, <1>3, <1>4 DEF UserInv, Unlisted, RemovedUnlessOnList
<1>15. Dated'
  BY <1>2, <1>3, <1>4, <1>6 DEF UserInv, Dated
<1> QED
  BY <1>6, <1>10, <1>11, <1>12, <1>13, <1>14, <1>15, TellsRuns, AgreesMatches DEF UserInv

\* db-resume-user
LEMMA ResumeKeeps ==
  ASSUME UserInv, ResumeUser
  PROVE  UserInv'
<1>1. PICK u \in User :
        /\ row[u] # NoRow /\ Len(log[u]) < MaxRuns
        /\ row' = [row EXCEPT ![u] = Resumed(@)]
        /\ log' = [log EXCEPT ![u] = Append(@, [at |-> 0, status |-> "resume"])]
  BY DEF ResumeUser
<1>2. UNCHANGED <<users, history, cached, list, running, removing, now, back, stepped, onList>>
  BY DEF ResumeUser, clock
<1> DEFINE l == log[u]
           e == [at |-> 0, status |-> "resume"]
<1>3. /\ row[u] \in StatusRow /\ l \in Seq(Entry)
      /\ \A k \in 1..Len(l) : l[k].status \in Outcome => l[k].at > 0
  BY DEF UserInv, Typed, LogTyped
<1>4. Tells(row[u], l) /\ Agrees(row[u], history[u], l, u \in stepped)
  BY TellsRuns, AgreesMatches DEF UserInv
<1>5. /\ row'[u] = Resumed(row[u]) /\ log'[u] = Append(l, e)
      /\ \A v \in User \ {u} : row'[v] = row[v] /\ log'[v] = log[v]
  BY <1>1 DEF UserInv, Typed, LogTyped
<1>6. e.status = "resume" /\ e.status \notin Outcome
  BY DEF Outcome
<1>7. /\ Tells(row'[u], log'[u]) /\ row'[u] \in StatusRow /\ e \in Entry
      /\ row'[u].last = row[u].last /\ row'[u].status = row[u].status
  BY <1>3, <1>4, <1>5, ResumeTells
<1> HIDE DEF l, e
<1>8. row[u].last > 0 /\ row'[u] # NoRow
  BY <1>1, <1>7, UserStateAssumption DEF UserInv, Dated, NoRow
<1>9. /\ Append(l, e) \in Seq(Entry) /\ Len(Append(l, e)) = Len(l) + 1 /\ Len(l) \in Nat
      /\ DOMAIN l = 1..Len(l) /\ DOMAIN Append(l, e) = 1..(Len(l) + 1)
      /\ \A k \in 1..Len(l) : Append(l, e)[k] = l[k]
      /\ Append(l, e)[Len(l) + 1] = e
  BY <1>3, <1>7, Appended
<1>10. Recorded(history[u], l) => Recorded(history[u], log'[u])
  <2>1. \A k \in RunsOf(Append(l, e), Outcome) : k \in RunsOf(l, Outcome) /\ Append(l, e)[k] = l[k]
    BY <1>6, <1>9 DEF RunsOf
  <2> QED
    BY <1>5, <2>1 DEF Recorded
<1>11. Agrees(row'[u], history'[u], log'[u], u \in stepped')
  <2>1. row[u] # NoRow /\ row'[u] # NoRow /\ history'[u] = history[u] /\ stepped' = stepped
    BY <1>1, <1>2, <1>8
  <2> QED
    BY <1>4, <1>7, <1>10, <2>1 DEF Agrees
<1>12. \A v \in User \ {u} : Agrees(row'[v], history'[v], log'[v], v \in stepped') /\ Tells(row'[v], log'[v])
  BY <1>2, <1>5, TellsRuns, AgreesMatches DEF UserInv
<1>13. Typed'
  <2>1. row' \in [User -> StatusRow]
    BY <1>1, <1>5, <1>7 DEF UserInv, Typed
  <2> QED
    BY <1>2, <2>1 DEF UserInv, Typed
<1>14. LogTyped'
  <2>1. log' \in [User -> Seq(Entry)]
    BY <1>1, <1>5, <1>9 DEF UserInv, LogTyped
  <2>2. Len(log'[u]) <= MaxRuns
    BY <1>1, <1>5, <1>9, UserStateAssumption DEF l
  <2>3. \A k \in 1..(Len(l) + 1) : log'[u][k].status \in Outcome => log'[u][k].at > 0
    BY <1>3, <1>5, <1>6, <1>9
  <2> QED
    BY <1>5, <1>9, <2>1, <2>2, <2>3, ZenonT(60) DEF UserInv, LogTyped
<1>15. Unlisted'
  BY <1>2 DEF UserInv, Unlisted
<1>16. RemovedUnlessOnList'
  BY <1>1, <1>2, <1>5 DEF UserInv, RemovedUnlessOnList
<1>17. Dated'
  BY <1>1, <1>2, <1>5, <1>7, <1>8 DEF UserInv, Dated
<1> QED
  BY <1>7, <1>11, <1>12, <1>13, <1>14, <1>15, <1>16, <1>17, TellsRuns, AgreesMatches DEF UserInv

\* db-forget-user, and what db-remove-user ends with
LEMMA ForgetKeeps ==
  ASSUME UserInv, ForgetUser
  PROVE  UserInv'
<1>1. PICK u \in User :
        /\ Wiped(u) /\ removing' = removing \ {u}
        /\ onList' = (onList \ {u}) \cup ({u} \cap (list \cup running))
  BY DEF ForgetUser
<1>2. UNCHANGED <<users, list, running, now, back>>
  BY DEF ForgetUser
<1>3. /\ history'[u] = {} /\ row'[u] = NoRow /\ log'[u] = <<>> /\ u \notin cached' /\ u \notin stepped'
      /\ \A v \in User \ {u} : history'[v] = history[v] /\ row'[v] = row[v] /\ log'[v] = log[v]
                               /\ (v \in stepped' <=> v \in stepped) /\ (v \in cached' <=> v \in cached)
  BY <1>1 DEF Wiped, UserInv, Typed, LogTyped
<1>4. \A v \in User : Tells(row'[v], log'[v])
  BY <1>3, NothingTells, TellsRuns DEF UserInv
<1>5. \A v \in User : Agrees(row'[v], history'[v], log'[v], v \in stepped')
  <2>1. Agrees(NoRow, {}, <<>>, FALSE)
    BY DEF Agrees
  <2>2. \A v \in User \ {u} : Agrees(row[v], history[v], log[v], v \in stepped)
    BY AgreesMatches DEF UserInv
  <2> QED
    BY <1>3, <2>1, <2>2 DEF Agrees
<1>6. Typed'
  <2>1. Keyed({}) /\ Cardinality({}) <= Keep
    BY FS_EmptySet, UserStateAssumption DEF Keyed
  <2>2. history' \in [User -> SUBSET Row] /\ row' \in [User -> StatusRow]
    BY <1>1, NothingTells DEF Wiped, UserInv, Typed
  <2>3. \A v \in User : Keyed(history'[v]) /\ Cardinality(history'[v]) <= Keep
    BY <1>3, <2>1 DEF UserInv, Typed
  <2> QED
    BY <1>1, <1>2, <2>2, <2>3 DEF Wiped, UserInv, Typed
<1>7. LogTyped'
  <2>1. log' \in [User -> Seq(Entry)]
    BY <1>1 DEF Wiped, UserInv, LogTyped
  <2>2. Len(log'[u]) = 0
    BY <1>3
  <2> QED
    BY <1>3, <2>1, <2>2, UserStateAssumption DEF UserInv, LogTyped
<1>8. Unlisted'
  BY <1>1, <1>2 DEF UserInv, Unlisted
<1>9. RemovedUnlessOnList'
  BY <1>1, <1>2, <1>3 DEF UserInv, RemovedUnlessOnList
<1>10. Dated'
  <2>1. NoRow.last = 0 /\ now \in Nat
    BY DEF NoRow, UserInv, Typed
  <2> QED
    BY <1>2, <1>3, <2>1 DEF UserInv, Dated
<1> QED
  BY <1>4, <1>5, <1>6, <1>7, <1>8, <1>9, <1>10, TellsRuns, AgreesMatches DEF UserInv

\* What neither the tables of a user's runs nor the clock see
LEMMA ListKeeps ==
  ASSUME UserInv,
         RecordFails \/ Reload \/ SyncUser \/ SaveCache \/ UpsertUser \/ DeleteUser
  PROVE  UserInv'
<1> USE DEF tables, clock
<1>1. UNCHANGED <<history, row, log, now, back, stepped, onList>>
  BY DEF RecordFails, Reload, SyncUser, SaveCache, UpsertUser, DeleteUser
<1>2. StatusTellsRuns' /\ HistoryMatchesStatus' /\ LogTyped' /\ Dated'
  <2>1. StatusTellsRuns'
    BY <1>1, TellsRuns DEF UserInv
  <2>2. HistoryMatchesStatus'
    BY <1>1, AgreesMatches DEF UserInv
  <2> QED
    BY <1>1, <2>1, <2>2 DEF UserInv, LogTyped, Dated
<1>3. Typed'
  BY <1>1 DEF UserInv, Typed, RecordFails, Reload, SyncUser, SaveCache, UpsertUser, DeleteUser, ListUsers
<1>4. CASE RecordFails \/ Reload \/ SyncUser
  BY <1>1, <1>2, <1>3, <1>4
     DEF UserInv, Typed, Unlisted, RemovedUnlessOnList, RecordFails, Reload, SyncUser, ListUsers
<1>5. CASE SaveCache
  BY <1>1, <1>2, <1>3, <1>5 DEF UserInv, Typed, Unlisted, RemovedUnlessOnList, SaveCache
<1>6. CASE UpsertUser \/ DeleteUser
  BY <1>1, <1>2, <1>3, <1>6 DEF UserInv, Typed, Unlisted, RemovedUnlessOnList, UpsertUser, DeleteUser
<1> QED
  BY <1>4, <1>5, <1>6

\* The clock goes forward, or is set back
LEMMA ClockKeeps ==
  ASSUME UserInv, Tick \/ SetBack
  PROVE  UserInv'
<1> USE DEF tables
<1>1. UNCHANGED <<users, history, row, cached, log, list, running, removing, onList>>
  BY DEF Tick, SetBack
<1>2. StatusTellsRuns'
  BY <1>1, TellsRuns DEF UserInv
<1>3. Unlisted' /\ RemovedUnlessOnList' /\ LogTyped'
  BY <1>1 DEF UserInv, Unlisted, RemovedUnlessOnList, LogTyped
<1>4. now' \in 1..MaxTime /\ back' \in 0..MaxBack /\ stepped' \subseteq User
  BY UserStateAssumption DEF UserInv, Typed, Tick, SetBack
<1>5. Typed'
  BY <1>1, <1>4 DEF UserInv, Typed
<1>6. \A u \in User : Agrees(row[u], history[u], log[u], u \in stepped)
  BY AgreesMatches DEF UserInv
<1>7. ASSUME NEW u \in User
      PROVE  Agrees(row[u], history[u], log[u], u \in stepped') /\ (u \notin stepped' => row[u].last <= now')
  <2>1. row[u].last \in Nat /\ now \in Nat /\ now' \in Nat
    BY <1>4 DEF UserInv, Typed, StatusRow
  <2>2. CASE Tick
    BY <1>6, <2>1, <2>2 DEF Tick, UserInv, Dated, Agrees
  <2>3. CASE SetBack
    <3>1. u \notin stepped' => row[u] = NoRow
      BY <2>3 DEF SetBack
    <3>2. row[u] = NoRow => row[u].last = 0 /\ history[u] = {}
      <4>1. NoRow.last = 0
        BY DEF NoRow
      <4>2. row[u] = NoRow => history[u] = {}
        BY <1>6 DEF Agrees
      <4> QED
        BY <4>1, <4>2
    <3> QED
      BY <1>6, <2>1, <3>1, <3>2 DEF Agrees
  <2> QED
    BY <2>2, <2>3
<1>8. HistoryMatchesStatus'
  BY <1>1, <1>7, AgreesMatches
<1>9. Dated'
  BY <1>1, <1>7 DEF UserInv, Dated
<1> QED
  BY <1>2, <1>3, <1>5, <1>8, <1>9 DEF UserInv

\* Every step keeps the invariant
LEMMA UserStep == UserInv /\ [Next]_vars => UserInv'
<1> SUFFICES ASSUME UserInv, [Next]_vars PROVE UserInv'
  OBVIOUS
<1>1. CASE UNCHANGED vars
  <2>1. UNCHANGED <<users, history, row, cached, list, running, removing, now, back, stepped, onList, log>>
    BY <1>1 DEF vars, tables, clock
  <2>2. StatusTellsRuns' /\ HistoryMatchesStatus'
    BY <2>1, TellsRuns, AgreesMatches DEF UserInv
  <2> QED
    BY <2>1, <2>2 DEF UserInv, Typed, LogTyped, Unlisted, Dated, RemovedUnlessOnList
<1> QED
  BY <1>1, RecordRunKeeps, ResumeKeeps, ForgetKeeps, ListKeeps, ClockKeeps DEF Next, Daemon, Command

\* The invariant, for every value of the constants
LEMMA UserInvariance == Spec => []UserInv
  BY UserInit, UserStep, PTL DEF Spec

(***************************************************************************)
(* The tables keep their types: in particular there are never more than    *)
(* userRunKeep rows of a user in user_run, whatever the clock does.        *)
(***************************************************************************)
THEOREM UserTypeCorrect == Spec => []TypeOK
<1>1. UserInv => TypeOK
  <2> SUFFICES ASSUME UserInv PROVE TypeOK
    OBVIOUS
  <2>1. ASSUME NEW u \in User
        PROVE  /\ row[u].status \in {"none", "ok", "error"}
               /\ row[u].streak \in 0..MaxRuns
               /\ {row[u].last, row[u].ok, row[u].since} \subseteq 0..MaxTime
    <3>1. row[u] \in StatusRow /\ log[u] \in Seq(Entry) /\ Len(log[u]) <= MaxRuns /\ Len(log[u]) \in Nat
      BY DEF UserInv, Typed, LogTyped
    <3>2. Tells(row[u], log[u])
      BY TellsRuns DEF UserInv
    <3>3. [at |-> 0, status |-> "resume"] \in Entry
      BY UserStateAssumption DEF Entry
    <3>4. Cardinality(StreakOf(log[u])) \in Nat /\ Cardinality(StreakOf(log[u])) <= Len(log[u])
      BY <3>1, <3>3, StreakCount
    <3> QED
      BY <3>1, <3>2, <3>4, UserStateAssumption DEF StatusRow, Tells
  <2> QED
    BY <2>1 DEF UserInv, Typed, TypeOK
<1> QED
  BY <1>1, UserInvariance, PTL

(***************************************************************************)
(* RecordRun's upsert and ResumeUser's update keep in one row what the     *)
(* whole log since the last ForgetUser says: the outcome and time of the   *)
(* latest run, the latest clean one, and the streak with its begin.        *)
(***************************************************************************)
THEOREM StatusIsTold == Spec => []StatusTellsRuns
<1>1. UserInv => StatusTellsRuns
  BY DEF UserInv
<1> QED
  BY <1>1, UserInvariance, PTL

(***************************************************************************)
(* user_run and user_status never disagree, through the upsert of runs of  *)
(* the same second, the trimming and a clock that is set back.             *)
(***************************************************************************)
THEOREM HistoryIsKept == Spec => []HistoryMatchesStatus
<1>1. UserInv => HistoryMatchesStatus
  BY DEF UserInv
<1> QED
  BY <1>1, UserInvariance, PTL

(***************************************************************************)
(* db-remove-user's two statements, at any moment of the daemon's cycle,   *)
(* leave nothing of a user whom the daemon did not have on its list.       *)
(***************************************************************************)
THEOREM RemovedIsRemoved == Spec => []RemovedUnlessOnList
<1>1. UserInv => RemovedUnlessOnList
  BY DEF UserInv
<1> QED
  BY <1>1, UserInvariance, PTL
=============================================================================
