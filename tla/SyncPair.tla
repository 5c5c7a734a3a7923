------------------------------ MODULE SyncPair ------------------------------
(***************************************************************************)
(* One user's folder pair under repeated calls of session.syncPair         *)
(* (internal/syncer/syncer.go) against two live mailboxes and the sqlite   *)
(* state cache (internal/store/state.go).  Every network call and every    *)
(* database transaction is a step of its own, so that mail arrives, is     *)
(* expunged or renumbered, calls fail, an APPEND succeeds whose answer is  *)
(* lost, the process dies and the operator forgets the user between any    *)
(* two of them.                                                            *)
(***************************************************************************)
EXTENDS Messages, FiniteSets

CONSTANTS
  IDs,           \* message IDs of a folder, numbered in listing order
  SortedIDs,     \* TRUE: a new message lists after the older ones; FALSE: anywhere
                 \* (IDs sorted as texts in incremental mode, IDs of EWS)
  Live,          \* sides whose mailbox others use while the tool runs
  Arrivals,      \* what may be delivered to a folder (a set of Fields)
  MaxTag,        \* how many messages are ever delivered
  MaxExpunge,    \* how many messages others delete
  MaxEpoch,      \* how many values a folder's validity may take
  MaxFaults,     \* how many calls fail, crashes, interrupts and forgets
  Incremental,   \* cfg.StateCache with a store: reconcile through the cache
  FullResync,    \* cfg.FullResyncEvery > 0
  Direction,     \* cfg.Direction: "both", "a-to-b", "b-to-a"
  ReadOnly,      \* sides whose endpoint is read-only
  ReportsID,     \* sides whose Append reports the ID of the new message
  Unordered,     \* sides whose FetchMeta(nil) has no fixed order (Maildir, PST)
  LateMID,       \* sides that may give a message a Message-ID afterwards
  ServerMIDs,    \* the Message-IDs such a server makes up
  Rewrites,      \* sides that may store another Date, Subject or From than sent
  ServerHashes   \* the surrogate hashes such a server's changes lead to

Tags == 1..MaxTag
Epochs == 1..MaxEpoch
Message == [mid : MIds \cup {None}, xhash : Hashes \cup {None},
            sur : Hashes \cup {None}, tag : Tags]

ASSUME SyncPairAssumption ==
  /\ IDs \subseteq Nat
  /\ Live \subseteq Side /\ Arrivals \subseteq Fields
  /\ MaxTag \in Nat /\ MaxExpunge \in Nat /\ MaxEpoch \in Nat \ {0} /\ MaxFaults \in Nat
  /\ Incremental \in BOOLEAN /\ FullResync \in BOOLEAN /\ SortedIDs \in BOOLEAN
  /\ Direction \in {"both", "a-to-b", "b-to-a"}
  /\ ReadOnly \subseteq Side /\ ReportsID \subseteq Side /\ Unordered \subseteq Side
  /\ LateMID \subseteq Side /\ ServerMIDs \subseteq MIds /\ Rewrites \subseteq Side
  /\ ServerHashes \subseteq Hashes
  /\ None \notin Message \cup Epochs \cup IDs \cup Tags

VARIABLES
  \* the two mailboxes; tag is the identity of a mail, shared by its copies
  folder,    \* what each folder holds: ID -> message or None
  epoch,     \* validity of each folder
  used,      \* IDs given out under the present validity
  born,      \* how many tags have been delivered
  expunged,  \* how many have been expunged
  \* the state cache
  row,       \* sync_endpoint: saved validity of each side or None
  db,        \* sync_msg_cache: ID -> fields or None
  \* the running pass of syncPair
  pc,        \* its next call
  cs,        \* the side that call is for
  sel,       \* validity that Select returned
  cached,    \* indexFolderIncremental's map, and the parsed listing of a full pass
  cur,       \* curIDs
  got,       \* IDs whose metadata FetchMeta returned
  gone,      \* goneIDs
  idx,       \* index of each side: ID -> fields of the entry or None
  todo,      \* what is still to be copied TO a side: IDs of its peer
  copied,    \* rows copyMissing collects for the cache of a side
  \* bookkeeping of the model
  faults,    \* failures so far
  quiet      \* "yes": nothing has changed or failed since a whole pass was made

mailVars == <<folder, epoch, used, born, expunged>>
cacheVars == <<row, db>>
passVars == <<pc, cs, sel, cached, cur, got, gone, idx, todo, copied>>
vars == <<mailVars, cacheVars, passVars, faults, quiet>>

NoRows == [i \in IDs |-> None]
Dom(f) == {i \in IDs : f[i] # None}
Least(S) == {i \in S : \A j \in S : i <= j}

\* dedup.ParseMessage of what FetchMeta returned, and a CachedMsg row
ParseMessage(m) == [mid |-> m.mid, xhash |-> m.xhash, sur |-> m.sur]

\* Rows of f with the rows of g for the IDs in S written over them
Upsert(f, g, S) == [i \in IDs |-> IF i \in S THEN g[i] ELSE f[i]]
Without(f, S) == [i \in IDs |-> IF i \in S THEN None ELSE f[i]]

Init ==
  /\ folder = [s \in Side |-> NoRows]
  /\ epoch = [s \in Side |-> 1]
  /\ used = [s \in Side |-> {}]
  /\ born = 0 /\ expunged = 0
  /\ row = [s \in Side |-> None]
  /\ db = [s \in Side |-> NoRows]
  /\ pc = "idle" /\ cs = "a"
  /\ sel = [s \in Side |-> None]
  /\ cached = NoRows /\ cur = {} /\ got = {} /\ gone = {}
  /\ idx = [s \in Side |-> NoRows]
  /\ todo = [s \in Side |-> {}]
  /\ copied = [s \in Side |-> NoRows]
  /\ faults = 0
  /\ quiet = "no"

-----------------------------------------------------------------------------
(***************************************************************************)
(* The mailboxes, used by others while the tool runs.                      *)
(***************************************************************************)

\* The ID the server gives a new message: never used before under this validity
NewIDs(s) == IF SortedIDs THEN Least({i \in IDs : \A j \in used[s] : j < i})
                          ELSE IDs \ used[s]

Store(s, i, m) ==
  /\ folder' = [folder EXCEPT ![s][i] = m]
  /\ used' = [used EXCEPT ![s] = @ \cup {i}]

Deliver(s) ==
  /\ born < MaxTag
  /\ \E f \in Arrivals, i \in NewIDs(s) :
       Store(s, i, [mid |-> f.mid, xhash |-> f.xhash, sur |-> f.sur, tag |-> born + 1])
  /\ born' = born + 1
  /\ quiet' = "no"
  /\ UNCHANGED <<epoch, expunged, cacheVars, passVars, faults>>

Expunge(s) ==
  /\ expunged < MaxExpunge
  /\ expunged' = expunged + 1
  /\ \E i \in Dom(folder[s]) : folder' = [folder EXCEPT ![s][i] = None]
  /\ quiet' = "no"
  /\ UNCHANGED <<epoch, used, born, cacheVars, passVars, faults>>

\* The server assigns the Message-ID it left out at delivery (Exchange), one that
\* no other message has
AssignMessageID(s) ==
  /\ s \in LateMID
  /\ \E i \in Dom(folder[s]), k \in ServerMIDs :
       /\ folder[s][i].mid = None
       /\ \A d \in Side : \A j \in Dom(folder[d]) : folder[d][j].mid # k
       /\ folder' = [folder EXCEPT ![s][i].mid = k]
  /\ quiet' = "no"
  /\ UNCHANGED <<epoch, used, born, expunged, cacheVars, passVars, faults>>

\* The folder gets a new validity and its messages new IDs, while not selected
Renumber(s) ==
  /\ pc = "idle"
  /\ epoch[s] < MaxEpoch
  /\ epoch' = [epoch EXCEPT ![s] = @ + 1]
  /\ \E g \in [Dom(folder[s]) -> IDs] :
       /\ \A i, j \in Dom(folder[s]) : g[i] = g[j] => i = j
       /\ folder' = [folder EXCEPT ![s] =
            [k \in IDs |-> IF \E i \in Dom(folder[s]) : g[i] = k
                           THEN folder[s][CHOOSE i \in Dom(folder[s]) : g[i] = k] ELSE None]]
       /\ used' = [used EXCEPT ![s] = {g[i] : i \in Dom(folder[s])}]
  /\ quiet' = "no"
  /\ UNCHANGED <<born, expunged, cacheVars, passVars, faults>>

\* db-remove-user or db-forget-user on the command line, while a pass may be running
ForgetUser ==
  /\ faults < MaxFaults
  /\ faults' = faults + 1
  /\ row' = [s \in Side |-> None]
  /\ db' = [s \in Side |-> NoRows]
  /\ UNCHANGED <<mailVars, passVars, quiet>>

-----------------------------------------------------------------------------
(***************************************************************************)
(* syncPair.  Its locals are gone when it returns or the process dies.     *)
(***************************************************************************)
EndPass ==
  /\ pc' = "idle" /\ cs' = "a"
  /\ sel' = [s \in Side |-> None]
  /\ cached' = NoRows /\ cur' = {} /\ got' = {} /\ gone' = {}
  /\ idx' = [s \in Side |-> NoRows]
  /\ todo' = [s \in Side |-> {}]
  /\ copied' = [s \in Side |-> NoRows]

Fault == faults < MaxFaults /\ faults' = faults + 1

\* A failing Select, LoadEndpoint, ResetEndpoint, ListIDs or FetchMeta ends the pass
FolderError ==
  /\ pc \in {"select", "load", "reset", "list", "fetch"}
  /\ Fault
  /\ EndPass
  /\ quiet' = "no"
  /\ UNCHANGED <<mailVars, cacheVars>>

\* The daemon is killed and started again: only mailboxes and database remain
Crash ==
  /\ pc # "idle"
  /\ Fault
  /\ EndPass
  /\ quiet' = "no"
  /\ UNCHANGED <<mailVars, cacheVars>>

\* sess.a.Select, then sess.b.Select
Select(s) ==
  /\ cs = s
  /\ pc = IF s = "a" THEN "idle" ELSE "select"
  /\ sel' = [sel EXCEPT ![s] = epoch[s]]
  /\ cs' = Peer(s)
  /\ pc' = IF s = "a" THEN "select" ELSE IF Incremental THEN "load" ELSE "fetch"
  /\ quiet' = IF s = "a" /\ quiet = "no" THEN "pass" ELSE quiet
  /\ UNCHANGED <<mailVars, cacheVars, cached, cur, got, gone, idx, todo, copied, faults>>

\* Mutant: the saved validity is not compared
NeedsResetByTime(s, due) == FullResync /\ (due \/ row[s] = None)

\* The switch that decides about a reset; due: full_resync_every has passed since
\* FullResyncAt.  Without an endpoint row that is the zero time: a rescan is due.
NeedsReset(s, due) ==
  \/ row[s] # None /\ row[s] # sel[s]
  \/ FullResync /\ (due \/ row[s] = None)

\* LoadEndpoint: without an endpoint row no cache row is loaded either
LoadEndpoint(s) ==
  /\ pc = "load" /\ cs = s
  /\ cached' = IF row[s] = None THEN NoRows ELSE db[s]
  /\ \E due \in BOOLEAN : pc' = IF NeedsReset(s, due) THEN "reset" ELSE "list"
  /\ UNCHANGED <<mailVars, cacheVars, cs, sel, cur, got, gone, idx, todo, copied, faults, quiet>>

ResetEndpoint(s) ==
  /\ pc = "reset" /\ cs = s
  /\ row' = [row EXCEPT ![s] = None]
  /\ db' = [db EXCEPT ![s] = NoRows]
  /\ cached' = NoRows
  /\ pc' = "list"
  /\ UNCHANGED <<mailVars, cs, sel, cur, got, gone, idx, todo, copied, faults, quiet>>

\* ListIDs and the comparison of the list with the cache
ListIDs(s) ==
  /\ pc = "list" /\ cs = s
  /\ cur' = Dom(folder[s])
  /\ gone' = Dom(cached) \ Dom(folder[s])
  /\ pc' = "fetch"
  /\ UNCHANGED <<mailVars, cacheVars, cs, sel, cached, got, idx, todo, copied, faults, quiet>>

\* Mutant: new IDs are looked for only while the cache is empty
RequestedOnce(s) == IF Incremental /\ cached # NoRows THEN {} ELSE Dom(folder[s])

\* newIDs; FetchMeta takes an empty (nil) list for "all messages"
Requested(s) == LET new == cur \ Dom(cached)
                IN IF Incremental /\ new # {} THEN new ELSE Dom(folder[s])

\* FetchHeaders, FetchHeadersByUID: a message that has gone is not in the answer
Fetched(s) == Requested(s) \cap Dom(folder[s])

\* FetchMeta and ParseMessage; what does not parse is recorded and skipped
FetchMeta(s) ==
  LET ok == {i \in Fetched(s) : ParseFields(folder[s][i])}
  IN /\ pc = "fetch" /\ cs = s /\ Incremental
     /\ got' = ok
     /\ cached' = [i \in IDs |-> IF i \in ok THEN ParseMessage(folder[s][i]) ELSE cached[i]]
     /\ pc' = "put"
     /\ UNCHANGED <<mailVars, cacheVars, cs, sel, cur, gone, idx, todo, copied, faults, quiet>>

\* A write of rows S to the cache happens or fails as a whole, and a failure is
\* only recorded; with no rows there is no transaction
DbWrites(S) == IF S = {} \/ faults = MaxFaults THEN {TRUE} ELSE BOOLEAN
DbFaults(ok) == faults' = IF ok THEN faults ELSE faults + 1

\* PutCachedMsgs(fresh)
PutCachedMsgs(s) ==
  /\ pc = "put" /\ cs = s
  /\ \E ok \in DbWrites(got) :
       /\ DbFaults(ok)
       /\ db' = IF ok THEN [db EXCEPT ![s] = Upsert(@, cached, got)] ELSE db
  /\ pc' = "gone"
  /\ UNCHANGED <<mailVars, row, cs, sel, cached, cur, got, gone, idx, todo, copied, quiet>>

\* DeleteCachedMsgs(goneIDs), chunk by chunk: a failure leaves a part deleted
DeleteCachedMsgs(s) ==
  /\ pc = "gone" /\ cs = s
  /\ \E ok \in DbWrites(gone) : \E part \in IF ok THEN {gone} ELSE SUBSET gone :
       /\ DbFaults(ok)
       /\ db' = [db EXCEPT ![s] = Without(@, part)]
  /\ cached' = Without(cached, gone)
  /\ pc' = "save"
  /\ UNCHANGED <<mailVars, row, cs, sel, cur, got, gone, idx, todo, copied, quiet>>

\* A listing without a fixed order is indexed in any order: some maximal set of
\* messages of which no two share a key
IsIndexInAnyOrder(E, ids, rows) ==
  /\ \A i, j \in E : i # j => ~SharesKey(rows[i], rows[j])
  /\ \A i \in ids \ E : \E j \in E : SharesKey(rows[i], rows[j])

allow(s) == /\ IF s = "b" THEN Direction # "b-to-a" ELSE Direction # "a-to-b"
            /\ s \notin ReadOnly

\* BuildFrom over the listed IDs that have a row, and after side b the Delta
BuildIndex(s, ids, rows) ==
  \E E \in SUBSET ids :
    /\ IF s \in Unordered /\ ~Incremental THEN IsIndexInAnyOrder(E, ids, rows)
                                          ELSE IsIndex(E, ids, rows)
    /\ idx' = [idx EXCEPT ![s] = Without(rows, IDs \ E)]
    /\ IF s = "a"
       THEN /\ pc' = IF Incremental THEN "load" ELSE "fetch"
            /\ cs' = "b"
            /\ UNCHANGED todo
       ELSE /\ pc' = "copy"
            /\ cs' = "b"
            /\ todo' = [d \in Side |->
                 IF allow(d) THEN Missing(Dom(idx'[Peer(d)]), idx'[Peer(d)], Dom(idx'[d]), idx'[d])
                             ELSE {}]
    /\ cached' = NoRows /\ cur' = {} /\ got' = {} /\ gone' = {}

\* SaveEndpoint, then the index of the folder
SaveEndpoint(s) ==
  /\ pc = "save" /\ cs = s
  /\ \E ok \in DbWrites({s}) :
       /\ DbFaults(ok)
       /\ row' = IF ok THEN [row EXCEPT ![s] = sel[s]] ELSE row
  /\ BuildIndex(s, cur \cap Dom(cached), cached)
  /\ UNCHANGED <<mailVars, db, sel, copied, quiet>>

\* indexFolderFull: FetchMeta(nil), Build
IndexFolderFull(s) ==
  LET ok == {i \in Dom(folder[s]) : ParseFields(folder[s][i])}
      rows == [i \in IDs |-> IF i \in ok THEN ParseMessage(folder[s][i]) ELSE None]
  IN /\ pc = "fetch" /\ cs = s /\ ~Incremental
     /\ BuildIndex(s, ok, rows)
     /\ UNCHANGED <<mailVars, cacheVars, sel, copied, faults, quiet>>

\* The entries copyMissing may turn to next
NextEntry(s) == IF Peer(s) \in Unordered /\ ~Incremental THEN todo[s] ELSE Least(todo[s])

\* The surrogate hash of m as side s stores it: as it was sent, or another one that
\* no message has
StoredHashes(s, m) ==
  {m.sur} \cup {h \in ServerHashes :
     s \in Rewrites /\ \A d \in Side : \A j \in Dom(folder[d]) : folder[d][j].sur # h}

\* copyOne and the bookkeeping after it.  The stored copy keeps the Message-ID and
\* a header it already carries; the cache row takes the entry's surrogate for both.
\* ack: the APPEND is done and the answer says so.
CopyOne(s) ==
  /\ pc = "copy" /\ cs = s
  /\ \E e \in NextEntry(s), ack \in BOOLEAN :
       LET m == folder[Peer(s)][e]
           r == idx[Peer(s)][e]
       IN /\ m # None
          /\ \E i \in NewIDs(s), v \in StoredHashes(s, m) :
               /\ Store(s, i, [WithHeader(m, r.sur) EXCEPT !.sur = v])
               /\ copied' = IF ack /\ Incremental /\ s \in ReportsID
                            THEN [copied EXCEPT ![s][i] = [mid |-> r.mid, xhash |-> r.sur, sur |-> r.sur]]
                            ELSE copied
          /\ ack \/ faults < MaxFaults
          /\ faults' = IF ack THEN faults ELSE faults + 1
          /\ quiet' = IF ack THEN quiet ELSE "no"
          /\ todo' = [todo EXCEPT ![s] = @ \ {e}]
  /\ UNCHANGED <<epoch, born, expunged, cacheVars, pc, cs, sel, cached, cur, got, gone, idx>>

\* Open or Append fails and nothing is stored: the message has been expunged, the
\* call fails, or the folder is full.  The error is recorded, the loop goes on.
CopyError(s) ==
  /\ pc = "copy" /\ cs = s
  /\ \E e \in NextEntry(s) :
       /\ \/ folder[Peer(s)][e] = None /\ UNCHANGED faults
          \/ NewIDs(s) = {} /\ UNCHANGED faults
          \/ Fault
       /\ todo' = [todo EXCEPT ![s] = @ \ {e}]
  /\ quiet' = "no"
  /\ UNCHANGED <<mailVars, cacheVars, pc, cs, sel, cached, cur, got, gone, idx, copied>>

\* The context is done: what is left in both directions is given up.  The code
\* looks at it before every 64th message, the model before any.
Interrupted ==
  /\ pc = "copy"
  /\ Fault
  /\ todo' = [s \in Side |-> {}]
  /\ quiet' = "no"
  /\ UNCHANGED <<mailVars, cacheVars, pc, cs, sel, cached, cur, got, gone, idx, copied>>

\* copyMissing returns: A->B, then B->A
CopyDone(s) ==
  /\ pc = "copy" /\ cs = s /\ todo[s] = {}
  /\ IF s = "b" \/ Incremental
     THEN /\ pc' = IF s = "b" THEN "copy" ELSE "post"
          /\ cs' = Peer(s)
          /\ UNCHANGED <<sel, cached, cur, got, gone, idx, todo, copied, quiet>>
     ELSE /\ EndPass
          /\ quiet' = IF quiet = "pass" THEN "yes" ELSE quiet
  /\ UNCHANGED <<mailVars, cacheVars, faults>>

\* Mutant: the rows of the two directions are swapped
PutCopiedSwapped(s) ==
  /\ pc = "post" /\ cs = s
  /\ \E ok \in DbWrites(Dom(copied[Peer(s)])) :
       /\ DbFaults(ok)
       /\ db' = IF ok THEN [db EXCEPT ![s] = Upsert(@, copied[Peer(s)], Dom(copied[Peer(s)]))] ELSE db
  /\ IF s = "b"
     THEN /\ cs' = "a"
          /\ UNCHANGED <<pc, sel, cached, cur, got, gone, idx, todo, copied, quiet>>
     ELSE /\ EndPass
          /\ quiet' = IF quiet = "pass" THEN "yes" ELSE quiet
  /\ UNCHANGED <<mailVars, row>>

\* The rows of the copies go to the cache: side b, then side a, then return
PutCopied(s) ==
  /\ pc = "post" /\ cs = s
  /\ \E ok \in DbWrites(Dom(copied[s])) :
       /\ DbFaults(ok)
       /\ db' = IF ok THEN [db EXCEPT ![s] = Upsert(@, copied[s], Dom(copied[s]))] ELSE db
  /\ IF s = "b"
     THEN /\ cs' = "a"
          /\ UNCHANGED <<pc, sel, cached, cur, got, gone, idx, todo, copied, quiet>>
     ELSE /\ EndPass
          /\ quiet' = IF quiet = "pass" THEN "yes" ELSE quiet
  /\ UNCHANGED <<mailVars, row>>

Environment == \/ \E s \in Live : Deliver(s) \/ Expunge(s) \/ AssignMessageID(s) \/ Renumber(s)
               \/ ForgetUser

Pass == \E s \in Side :
  \/ Select(s)
  \/ LoadEndpoint(s) \/ ResetEndpoint(s) \/ ListIDs(s) \/ FetchMeta(s)
  \/ PutCachedMsgs(s) \/ DeleteCachedMsgs(s) \/ SaveEndpoint(s)
  \/ IndexFolderFull(s)
  \/ CopyOne(s) \/ CopyError(s) \/ CopyDone(s)
  \/ PutCopied(s)

Next == Environment \/ Pass \/ FolderError \/ Crash \/ Interrupted

Spec == Init /\ [][Next]_vars

\* The pool calls syncPair again every interval and no call hangs for ever (I/O timeout)
FairSpec == Spec /\ WF_vars(Pass)

-----------------------------------------------------------------------------
Rows == Fields \cup {None}

TypeOK ==
  /\ folder \in [Side -> [IDs -> Message \cup {None}]]
  /\ epoch \in [Side -> Epochs]
  /\ used \in [Side -> SUBSET IDs]
  /\ born \in 0..MaxTag
  /\ expunged \in 0..MaxExpunge
  /\ row \in [Side -> Epochs \cup {None}]
  /\ db \in [Side -> [IDs -> Rows]]
  /\ pc \in {"idle", "select", "load", "reset", "list", "fetch",
             "put", "gone", "save", "copy", "post"}
  /\ cs \in Side
  /\ sel \in [Side -> Epochs \cup {None}]
  /\ cached \in [IDs -> Rows]
  /\ cur \in SUBSET IDs /\ got \in SUBSET IDs /\ gone \in SUBSET IDs
  /\ idx \in [Side -> [IDs -> Rows]]
  /\ todo \in [Side -> SUBSET IDs]
  /\ copied \in [Side -> [IDs -> Rows]]
  /\ faults \in 0..MaxFaults
  /\ quiet \in {"no", "pass", "yes"}

(***************************************************************************)
(* No folder ever holds one mail twice.  Deliveries are all different      *)
(* mails, so a second one with the same tag is a copy the tool made of     *)
(* something that was already there: after a crash, a lost answer to an    *)
(* APPEND, a retry, with a stale cache or against a changed folder.        *)
(***************************************************************************)
NoDuplicates ==
  \A s \in Side : \A i, j \in Dom(folder[s]) :
    folder[s][i].tag = folder[s][j].tag => i = j

(***************************************************************************)
(* The state cache never claims what is not in the mailbox: as long as the *)
(* saved validity is the folder's, the row of an ID has only keys of the   *)
(* message that has this ID.  A row that outlives a renumbering would make *)
(* the tool skip one mail for another.                                     *)
(***************************************************************************)
CacheSound ==
  \A s \in Side : row[s] = epoch[s] =>
    \A i \in Dom(db[s]) \cap Dom(folder[s]) : Keys(db[s][i]) \subseteq Keys(folder[s][i])

(***************************************************************************)
(* The same of the index a pass works with: an entry whose mail is still   *)
(* there is described by keys of that mail.                                *)
(***************************************************************************)
IndexSound ==
  \A s \in Side : \A i \in Dom(idx[s]) \cap Dom(folder[s]) :
    Keys(idx[s][i]) \subseteq Keys(folder[s][i])

(***************************************************************************)
(* A pass that follows a whole pass, with nothing changed and nothing      *)
(* failed since that one began, has nothing to copy: the README's "second  *)
(* pass shows A->B=0 B->A=0".                                              *)
(***************************************************************************)
SecondPassIdle == quiet = "yes" => \A s \in Side : todo[s] = {}

(***************************************************************************)
(* Once mail stops changing and calls stop failing, every mail on one side *)
(* is represented on the other, through a mail of its own folder that      *)
(* shares a key with it (or itself), unless that folder is full.           *)
(***************************************************************************)
InSync(s) ==
  \A i \in Dom(folder[Peer(s)]) : ParseFields(folder[Peer(s)][i]) =>
    \E j \in Dom(folder[Peer(s)]), k \in Dom(folder[s]) :
      /\ ParseFields(folder[Peer(s)][j]) /\ ParseFields(folder[s][k])
      /\ SharesKey(folder[Peer(s)][i], folder[Peer(s)][j])
      /\ SharesKey(folder[Peer(s)][j], folder[s][k])

Converges == \A s \in Side : allow(s) => <>[](InSync(s) \/ NewIDs(s) = {})

(***************************************************************************)
(* The pass, its caches and its failures implement the promise of          *)
(* TwoWaySync: whatever happens, all it does to the mailboxes is to add to *)
(* an allowed side a mail the other side has and this one has not.         *)
(***************************************************************************)
WritableSides == {s \in Side \ ReadOnly :
                    Direction \in {"both", IF s = "b" THEN "a-to-b" ELSE "b-to-a"}}

Promise == INSTANCE TwoWaySync WITH
  Mail <- Tags, Slots <- IDs, Folders <- Side, Writable <- WritableSides,
  held <- [s \in Side |-> [i \in IDs |-> IF folder[s][i] = None THEN None ELSE folder[s][i].tag]],
  delivered <- 1..born

ImplementsTwoWaySync == Promise!ASpec

(***************************************************************************)
(* The README of the incremental mode: headers are fetched only for IDs    *)
(* that are not in the cache.                                              *)
(***************************************************************************)
FetchesOnlyNew ==
  [][(pc = "fetch" /\ pc' = "put" /\ cached # NoRows) => got' \cap Dom(cached) = {}]_vars
=============================================================================
